------------------------------ MODULE SyscallProofs ----------------------------
(***************************************************************************)
(* For any number of descriptors, names, files and calls: fds_t keeps the  *)
(* promise of Descriptors, every descriptor of the process has one owner,  *)
(* chdir stays within its buffer, getmainvars leaves what main reads, and  *)
(* do_chroot and undo_chroot agree about names.                            *)
(***************************************************************************)
EXTENDS Syscall, WellFoundedInduction, TLAPS

\* The least-number principle, from the theorems of the library on well-founded relations.
LEMMA Least ==
  ASSUME NEW T, T \subseteq Nat, T # {}
  PROVE  \E x \in T : \A y \in T : x <= y
<1> DEFINE R == OpToRel(<, Nat)
<1>1. IsWellFoundedOn(R, Nat)  BY NatLessThanWellFounded
<1>2. \E x \in T : \A y \in T : ~(<<y, x>> \in R)
  <2> HIDE DEF R
  <2> QED  BY <1>1, WFMin
<1>3. \A x, y \in Nat : y < x => <<y, x>> \in R  BY DEF OpToRel
<1> HIDE DEF R
<1> QED
  <2>1. PICK x \in T : \A y \in T : ~(<<y, x>> \in R)  BY <1>2
  <2>2. ASSUME NEW y \in T PROVE x <= y
    <3>1. x \in Nat /\ y \in Nat /\ ~(y < x)  BY <2>1, <1>3
    <3> QED  BY <3>1
  <2> QED  BY <2>2

\* A function on 0..n given by its first value and by a step exists.
Follows(f, first, step, n) ==
  f[0] = first /\ \A i \in 1..n : f[i] = step[i][f[i - 1]]

LEMMA Recursion ==
  ASSUME NEW V, NEW first \in V, NEW n \in Nat, NEW step \in [1..n -> [V -> V]]
  PROVE  \E f \in [0..n -> V] : Follows(f, first, step, n)
<1> DEFINE Bad == {m \in 0..n : \A f \in [0..m -> V] : ~Follows(f, first, step, m)}
<1> SUFFICES ASSUME Bad # {} PROVE FALSE
  <2>1. n \in 0..n  OBVIOUS
  <2> QED  BY <2>1
<1>1. PICK m \in Bad : \A k \in Bad : m <= k
  <2>1. Bad \subseteq Nat  OBVIOUS
  <2> HIDE DEF Bad
  <2> QED  BY <2>1, Least
<1>2. CASE m = 0
  <2>1. Follows([i \in 0..0 |-> first], first, step, 0)  BY DEF Follows
  <2>2. [i \in 0..0 |-> first] \in [0..0 -> V]  OBVIOUS
  <2> QED  BY <1>2, <2>1, <2>2
<1>3. CASE m # 0
  <2>1. m \in 1..n /\ m - 1 \in 0..n /\ m - 1 \in Nat /\ ~(m <= m - 1)  BY <1>3
  <2>2. m - 1 \notin Bad  BY <1>1, <2>1
  <2>3. PICK f \in [0..m - 1 -> V] : Follows(f, first, step, m - 1)  BY <2>1, <2>2
  <2>4. m - 1 \in 0..m - 1 /\ f[m - 1] \in V  BY <2>1
  <2>5. step[m][f[m - 1]] \in V  BY <2>1, <2>4
  <2> DEFINE h == [i \in 0..m |-> IF i = m THEN step[m][f[m - 1]] ELSE f[i]]
  <2>6. h \in [0..m -> V]
    <3>1. \A i \in 0..m : i # m => i \in 0..m - 1  BY <2>1
    <3> QED  BY <2>5, <3>1
  <2>7. h[0] = first  BY <2>1, <2>3 DEF Follows
  <2>8. ASSUME NEW i \in 1..m PROVE h[i] = step[i][h[i - 1]]
    <3>1. i \in 0..m /\ i - 1 \in 0..m /\ i - 1 # m /\ h[i - 1] = f[i - 1]  BY <2>1
    <3>2. CASE i = m  BY <3>1, <3>2
    <3>3. CASE i # m
      <4>1. i \in 1..m - 1  BY <2>1, <3>3
      <4>2. f[i] = step[i][f[i - 1]]  BY <2>3, <4>1 DEF Follows
      <4> QED  BY <3>1, <3>3, <4>2
    <3> QED  BY <3>2, <3>3
  <2>9. Follows(h, first, step, m)
    <3> HIDE DEF h
    <3> QED  BY <2>7, <2>8 DEF Follows
  <2> HIDE DEF h
  <2> QED  BY <2>6, <2>9
<1> QED  BY <1>2, <1>3

ChdirCalls ==
  [op : {"chdir", "overrun"}, name : Names, str : [1..PathSize -> BOOLEAN], size : Nat,
   offset : Nat, copying : BOOLEAN, changed : BOOLEAN]

\* The shape of a call follows from its name.
LEMMA CallShapes ==
  ASSUME call \in Calls
  PROVE  /\ call.op \in {"options", "none", "exit", "openat", "close", "chdir", "overrun"}
         /\ call.op = "openat" => call.fd \in HostFds
         /\ call.op = "close" => call.n \in Nat
         /\ call.op \in {"chdir", "overrun"} => call \in ChdirCalls
BY DEF Calls, ChdirCalls

LEMMA ChdirTypes ==
  ASSUME call \in ChdirCalls
  PROVE  /\ call.name \in Names /\ call.str \in [1..PathSize -> BOOLEAN]
         /\ call.size \in Nat /\ call.offset \in Nat
         /\ call.copying \in BOOLEAN /\ call.changed \in BOOLEAN
BY DEF ChdirCalls

\* What the steps of chdir and the store of another hart make of a call is one.
LEMMA NextShapes ==
  ASSUME call \in ChdirCalls
  PROVE  /\ \A n \in Nat, c \in BOOLEAN : [call EXCEPT !.size = n, !.copying = c] \in Calls
         /\ \A n \in Nat : [call EXCEPT !.offset = n] \in Calls
         /\ [call EXCEPT !.op = "overrun"] \in Calls
         /\ \A i \in 1..PathSize : [call EXCEPT !.str[i] = ~@, !.changed = TRUE] \in Calls
<1>1. ChdirCalls \subseteq Calls  BY DEF ChdirCalls, Calls
<1>2. \A n \in Nat, c \in BOOLEAN : [call EXCEPT !.size = n, !.copying = c] \in ChdirCalls
  BY DEF ChdirCalls
<1>3. \A n \in Nat : [call EXCEPT !.offset = n] \in ChdirCalls
  BY DEF ChdirCalls
<1>4. [call EXCEPT !.op = "overrun"] \in ChdirCalls
  BY DEF ChdirCalls
<1>5. ASSUME NEW i \in 1..PathSize
      PROVE  [call EXCEPT !.str[i] = ~@, !.changed = TRUE] \in ChdirCalls
  BY DEF ChdirCalls
<1> QED  BY <1>1, <1>2, <1>3, <1>4, <1>5

-------------------------------------------------------------------------------
(* chdir.                                                                    *)

\* Until another hart stores to the string, the bytes counted so far are not NUL;
\* after the count the buffer ends with the first NUL, and copying has not passed it.
ChdirInv ==
  call.op \in {"chdir", "overrun"} /\ ~call.changed =>
    /\ call.op = "chdir"
    /\ ~call.copying => call.offset = 0 /\ \A k \in 0..call.size - 1 : IsChar(k)
    /\ call.copying =>
         /\ call.size > 0 /\ call.offset < call.size
         /\ ~IsChar(call.size - 1) /\ \A k \in 0..call.size - 2 : IsChar(k)

LEMMA CountByteFits ==
  ASSUME call \in Calls, ChdirInv, CountByte
  PROVE  call' \in Calls /\ ChdirInv'
<1>1. call \in ChdirCalls /\ call.op = "chdir" /\ ~call.copying
  BY CallShapes DEF CountByte
<1> DEFINE stop == ~IsChar(call.size)
<1>2. call.size \in Nat /\ stop \in BOOLEAN
  BY <1>1, ChdirTypes DEF IsChar
<1>3. call' = [call EXCEPT !.size = call.size + 1, !.copying = stop]
  BY DEF CountByte
<1>4. call' \in Calls
  <2> HIDE DEF stop
  <2>1. call.size + 1 \in Nat  BY <1>2
  <2>2. \A n \in Nat, c \in BOOLEAN : [call EXCEPT !.size = n, !.copying = c] \in Calls
    BY <1>1, NextShapes
  <2> QED  BY <1>2, <1>3, <2>1, <2>2, Zenon
<1>5. /\ call'.op = "chdir" /\ call'.str = call.str /\ call'.changed = call.changed
      /\ call'.size = call.size + 1 /\ call'.copying = stop
      /\ call'.offset = call.offset
  <2> HIDE DEF stop
  <2> QED  BY <1>1, <1>3 DEF ChdirCalls
<1>6. ChdirInv'
  <2> SUFFICES ASSUME ~call.changed PROVE ChdirInv'  BY <1>5 DEF ChdirInv
  <2>1. \A k \in 0..call.size - 1 : IsChar(k)  BY <1>1 DEF ChdirInv
  <2>2. \A k \in Nat : IsChar(k)' <=> IsChar(k)  BY <1>5 DEF IsChar
  <2>3. CASE stop
    <3>1. call'.size - 1 = call.size /\ call'.size - 2 = call.size - 1 /\ call'.size > 0
      BY <1>2, <1>5
    <3>2. call'.offset = 0 /\ call'.offset < call'.size
      BY <1>1, <1>2, <1>5 DEF ChdirInv
    <3>3. \A k \in 0..call.size - 1 : IsChar(k)'  BY <1>2, <2>1, <2>2
    <3>4. \A k \in Nat : k = call.size => ~IsChar(k)'  BY <1>2, <2>2, <2>3
    <3>5. call'.copying  BY <1>5, <2>3, Zenon
    <3> QED  BY <1>2, <1>5, <3>1, <3>2, <3>3, <3>4, <3>5 DEF ChdirInv, IsChar
  <2>4. CASE ~stop
    <3>1. call'.size - 1 = call.size  BY <1>2, <1>5
    <3>2. \A k \in 0..call.size : IsChar(k)'  BY <1>2, <2>1, <2>2, <2>4
    <3>3. ~call'.copying  BY <1>5, <2>4, Zenon
    <3>4. call'.offset = 0  BY <1>1, <1>5 DEF ChdirInv
    <3> QED  BY <1>5, <3>1, <3>2, <3>3, <3>4 DEF ChdirInv
  <2> QED  BY <2>3, <2>4
<1> QED  BY <1>4, <1>6

\* As a NUL ends both loops, the second does not pass the end of the buffer.
LEMMA CopyByteFits ==
  ASSUME call \in Calls, ChdirInv, CopyByte
  PROVE  call' \in Calls /\ ChdirInv'
<1>1. call \in ChdirCalls /\ call.op = "chdir" /\ call.copying
  BY CallShapes DEF CopyByte
<1>2. call.size \in Nat /\ call.offset \in Nat  BY <1>1, ChdirTypes
<1>3. CASE call.offset < call.size
  <2>1. call' = [call EXCEPT !.offset = call.offset + 1]  BY <1>3 DEF CopyByte
  <2>2. call' \in Calls
    <3>1. call.offset + 1 \in Nat  BY <1>2
    <3>2. \A n \in Nat : [call EXCEPT !.offset = n] \in Calls  BY <1>1, NextShapes
    <3> QED  BY <2>1, <3>1, <3>2, Zenon
  <2>3. /\ call'.op = "chdir" /\ call'.str = call.str /\ call'.changed = call.changed
        /\ call'.size = call.size /\ call'.copying = call.copying
        /\ call'.offset = call.offset + 1
    BY <1>1, <2>1 DEF ChdirCalls
  <2>4. \A k \in Nat : IsChar(k)' <=> IsChar(k)  BY <2>3 DEF IsChar
  <2>5. IsChar(call.offset)  BY <1>2, <1>3 DEF CopyByte
  <2>6. ~call.changed => call.offset # call.size - 1 /\ ~IsChar(call.size - 1) /\ call.size > 0
    BY <1>1, <2>5 DEF ChdirInv
  <2>7. ~call.changed => call.offset + 1 < call.size  BY <1>2, <1>3, <2>6
  <2>8. ChdirInv'
    <3> SUFFICES ASSUME ~call.changed PROVE ChdirInv'  BY <2>3 DEF ChdirInv
    <3>1. \A k \in 0..call.size - 2 : IsChar(k)  BY <1>1 DEF ChdirInv
    <3>2. \A k \in 0..call.size - 2 : IsChar(k)'  BY <1>2, <2>4, <3>1
    <3>3. \A k \in Nat : k = call.size - 1 => ~IsChar(k)'  BY <1>2, <2>4, <2>6
    <3>4. call.size - 1 = call'.size - 1 /\ call.size - 2 = call'.size - 2  BY <2>3
    <3> QED  BY <1>1, <1>2, <2>3, <2>6, <2>7, <3>2, <3>3, <3>4 DEF ChdirInv, IsChar
  <2> QED  BY <2>2, <2>8
<1>4. CASE ~(call.offset < call.size)
  <2>1. call' = [call EXCEPT !.op = "overrun"]  BY <1>4 DEF CopyByte
  <2>2. call' \in Calls  BY <1>1, <2>1, NextShapes
  <2>3. call.changed  BY <1>1, <1>4 DEF ChdirInv
  <2>4. call'.changed = call.changed  BY <1>1, <2>1 DEF ChdirCalls
  <2> QED  BY <2>2, <2>3, <2>4 DEF ChdirInv
<1> QED  BY <1>3, <1>4

LEMMA StoreFits ==
  ASSUME call \in Calls, Store
  PROVE  call' \in Calls /\ ChdirInv'
<1>1. call \in ChdirCalls  BY CallShapes DEF Store
<1>2. PICK i \in 1..PathSize : call' = [call EXCEPT !.str[i] = ~@, !.changed = TRUE]
  BY DEF Store
<1>3. call' \in Calls  BY <1>1, <1>2, NextShapes
<1>4. call'.changed = TRUE  BY <1>1, <1>2 DEF ChdirCalls
<1> QED  BY <1>3, <1>4 DEF ChdirInv

LEMMA ChdirBegins ==
  ASSUME NEW fn \in Names, Chdir(fn)
  PROVE  call' \in Calls /\ ChdirInv'
<1>1. PICK str \in [1..PathSize -> BOOLEAN] :
        call' = [op |-> "chdir", name |-> fn, str |-> str, size |-> 0, offset |-> 0,
                 copying |-> FALSE, changed |-> FALSE]
  BY DEF Chdir
<1>2. call' \in ChdirCalls  BY <1>1 DEF ChdirCalls
<1>3. ChdirCalls \subseteq Calls  BY DEF ChdirCalls, Calls
<1> QED  BY <1>1, <1>2, <1>3 DEF ChdirInv

-------------------------------------------------------------------------------
(* Owners.                                                                   *)

Distinct == \A i, j \in Sure : fds[i] = fds[j] => i = j

\* The owners of a descriptor change only with what the two conditions name.
SameOwners(h) == host'[h] = host[h] /\ \A a \in Holders : Holds(a, h)' <=> Holds(a, h)

LEMMA OwnersChange ==
  ASSUME OneOwner, misused => misused', doubted' = {} => doubted = {},
         ~misused' => Distinct',
         ~misused' => \A h \in HostFds : SameOwners(h) \/ Owned(h)'
  PROVE  OneOwner'
<1> SUFFICES ASSUME ~misused', NEW h \in HostFds, SameOwners(h) PROVE Owned(h)'
  BY DEF OneOwner, Distinct
<1>1. Owned(h)  BY DEF OneOwner
<1> QED  BY <1>1 DEF Owned, SameOwners

\* A call that leaves the descriptors alone, and is neither an openat nor a close.
Between(op) == op \notin {"openat", "close"}

LEMMA OwnersKept ==
  ASSUME OneOwner, misused => misused', UNCHANGED <<host, sockets, dups, fds, doubted>>,
         call' = call \/ (Between(call.op) /\ Between(call'.op))
  PROVE  OneOwner'
<1>1. Sure' = Sure  BY DEF Sure, Between
<1>2. \A h \in HostFds : SameOwners(h)  BY <1>1 DEF SameOwners, Holds, Between
<1>3. ~misused' => Distinct'  BY <1>1 DEF OneOwner, Distinct
<1> QED  BY <1>2, <1>3, OwnersChange

\* A descriptor that is free has no owner.
LEMMA FreeUnowned ==
  ASSUME OneOwner, ~misused, NEW h \in HostFds, host[h] = 0, NEW a \in Holders
  PROVE  ~Holds(a, h)
BY DEF OneOwner, Owned

\* A number that reaches a file names an entry of the table.
LEMMA Named ==
  ASSUME TypeOK, NEW n \in Numbers, lookup(n) \in HostFds
  PROVE  n \in Nat /\ n + 1 \in DOMAIN fds /\ lookup(n) = fds[n + 1] /\ fds[n + 1] # NoFd
<1>1. n # RISCV_AT_FDCWD /\ lookup(n) # NoFd
  BY SyscallConstants DEF lookup, AT_FDCWD, NoFd
<1>2. n \in Nat  BY <1>1, SyscallConstants
<1>3. n < Len(fds) /\ lookup(n) = fds[n + 1]  BY <1>1, <1>2 DEF TypeOK, lookup
<1> QED  BY <1>1, <1>2, <1>3 DEF TypeOK

LEMMA IdleCall == Idle \in Calls /\ Idle.op = "none" /\ Between(Idle.op)
BY DEF Idle, Calls, Between

\* fcntl(F_DUPFD).
LEMMA DupOwners ==
  ASSUME TypeOK, OneOwner, NEW n \in Numbers, Dup(n)
  PROVE  OneOwner'
<1>1. PICK h \in HostFds :
        /\ host[h] = 0 /\ host' = [host EXCEPT ![h] = FileOf(n)]
        /\ dups' = dups \cup {h}
  BY DEF Dup, LowestFd
<1>2. /\ FileOf(n) # 0 /\ (misused => misused') /\ call = Idle
      /\ UNCHANGED <<sockets, fds, call, doubted>>
  BY DEF Dup, DispatchChange, Dispatch, Naming
<1>3. Sure' = Sure  BY <1>2 DEF Sure
<1>4. ASSUME ~misused' PROVE Owned(h)'
  <2>1. \A a \in Holders : ~Holds(a, h)  BY <1>1, <1>2, <1>4, FreeUnowned
  <2>2. \A a \in Holders : Holds(a, h)' <=> a = "fcntl"
    BY <1>1, <1>2, <1>3, <2>1 DEF Holds, Holders
  <2>3. host'[h] # 0  BY <1>1, <1>2 DEF TypeOK
  <2> QED  BY <2>2, <2>3 DEF Owned, Holders
<1>5. \A k \in HostFds : k # h => SameOwners(k)
  BY <1>1, <1>2, <1>3 DEF SameOwners, Holds, TypeOK
<1>6. ~misused' => Distinct'  BY <1>2, <1>3 DEF OneOwner, Distinct
<1> QED  BY <1>2, <1>4, <1>5, <1>6, OwnersChange

\* openat, the host's half.
LEMMA OpenatOwners ==
  ASSUME TypeOK, OneOwner, NEW at \in At, Openat(at)
  PROVE  OneOwner'
<1>1. /\ (misused => misused') /\ call = Idle /\ Between(call.op)
      /\ UNCHANGED <<sockets, dups, fds, doubted>>
  BY IdleCall DEF Openat, DispatchChange, Dispatch, Naming
<1>2. CASE UNCHANGED <<host, call>>
  BY <1>1, <1>2, OwnersKept
<1>3. ASSUME NEW h \in HostFds, LowestFd(h), opened' = opened + 1,
             host' = [host EXCEPT ![h] = opened'], call' = [op |-> "openat", fd |-> h]
      PROVE  OneOwner'
  <2>1. host[h] = 0 /\ host'[h] # 0  BY <1>3 DEF LowestFd, TypeOK
  <2>2. call'.op = "openat" /\ call'.fd = h  BY <1>3
  <2>3. Sure' = Sure  BY <1>1, <2>2 DEF Sure, Between
  <2>4. ASSUME ~misused' PROVE Owned(h)'
    <3>1. \A a \in Holders : ~Holds(a, h)  BY <1>1, <2>1, <2>4, FreeUnowned
    <3>2. \A a \in Holders : Holds(a, h)' <=> a = "call"
      BY <1>1, <2>2, <2>3, <3>1 DEF Holds, Holders
    <3> QED  BY <2>1, <3>2 DEF Owned, Holders
  <2>5. \A k \in HostFds : k # h => SameOwners(k)
    BY <1>1, <1>3, <2>2, <2>3 DEF SameOwners, Holds, Between, TypeOK
  <2>6. ~misused' => Distinct'  BY <1>1, <2>3 DEF OneOwner, Distinct
  <2> QED  BY <1>1, <2>4, <2>5, <2>6, OwnersChange
<1> QED  BY <1>2, <1>3 DEF Openat


\* What Put does to the table.
LEMMA PutTable ==
  ASSUME TypeOK, NEW i \in 1..Len(fds) + 1, NEW fd \in HostFds
  PROVE  /\ Put(i, fd) \in Seq(HostFds \cup {NoFd})
         /\ DOMAIN Put(i, fd) = DOMAIN fds \cup {i}
         /\ Put(i, fd)[i] = fd
         /\ \A j \in DOMAIN fds : j # i => Put(i, fd)[j] = fds[j]
<1>1. CASE i > Len(fds)
  <2>1. i = Len(fds) + 1  BY <1>1 DEF TypeOK
  <2> QED  BY <1>1, <2>1 DEF Put, TypeOK
<1>2. CASE ~(i > Len(fds))
  <2>1. i \in DOMAIN fds  BY <1>2 DEF TypeOK
  <2>2. Put(i, fd) = [fds EXCEPT ![i] = fd]  BY <1>2 DEF Put
  <2>3. DOMAIN Put(i, fd) = DOMAIN fds  BY <2>2
  <2>4. Put(i, fd)[i] = fd /\ \A j \in DOMAIN fds : j # i => Put(i, fd)[j] = fds[j]
    BY <2>1, <2>2
  <2>5. Put(i, fd) \in Seq(HostFds \cup {NoFd})
    BY <2>1, <2>2 DEF TypeOK
  <2> QED  BY <2>1, <2>3, <2>4, <2>5
<1> QED  BY <1>1, <1>2

\* openat, the table's half: the descriptor passes to an entry that was free.
LEMMA AllocOwners ==
  ASSUME TypeOK, OneOwner, Alloc
  PROVE  OneOwner' /\ fds' \in Seq(HostFds \cup {NoFd})
<1>1. PICK fd \in HostFds : call.op = "openat" /\ call.fd = fd
  BY CallShapes DEF Alloc, TypeOK
<1>2. /\ call' = Idle /\ call'.op = "none"
      /\ UNCHANGED <<host, sockets, dups, doubted, misused>>
  BY IdleCall DEF Alloc, kernel, promise
<1>3. PICK i \in 1..Len(fds) + 1 : FirstFree(i) /\ fds' = Put(i, fd)
  BY <1>1 DEF Alloc
<1>4. /\ fds' \in Seq(HostFds \cup {NoFd})
      /\ DOMAIN fds' = DOMAIN fds \cup {i} /\ fds'[i] = fd
      /\ \A j \in DOMAIN fds : j # i => fds'[j] = fds[j]
  BY <1>3, PutTable
<1>5. i \notin Sure
  <2>1. i \in DOMAIN fds => fds[i] = NoFd  BY <1>3 DEF FirstFree, TypeOK
  <2> QED  BY <2>1 DEF Sure
<1>6. Sure' = IF i - 1 \in doubted THEN Sure ELSE Sure \cup {i}
  <2>1. fd # NoFd  BY SyscallConstants DEF NoFd
  <2>2. \A j \in DOMAIN fds : j # i => (j \in Sure' <=> j \in Sure)
    BY <1>1, <1>2, <1>4 DEF Sure
  <2>3. i \in Sure' <=> i - 1 \notin doubted  BY <1>2, <1>4, <2>1 DEF Sure
  <2>4. Sure' \subseteq DOMAIN fds \cup {i} /\ Sure \subseteq DOMAIN fds
    BY <1>4 DEF Sure
  <2>5. i - 1 \in doubted => Sure' = Sure  BY <1>5, <2>2, <2>3, <2>4
  <2>6. i - 1 \notin doubted => Sure' = Sure \cup {i}  BY <1>5, <2>2, <2>3, <2>4
  <2> QED  BY <2>5, <2>6
<1>7. \A j \in Sure : j # i /\ fds'[j] = fds[j]  BY <1>4, <1>5 DEF Sure
<1>8. ASSUME ~misused' PROVE Distinct' /\ \A h \in HostFds : SameOwners(h) \/ Owned(h)'
  <2>1. Owned(fd) /\ Distinct  BY <1>2, <1>8 DEF OneOwner, Distinct
  <2>2. Holds("call", fd)  BY <1>1 DEF Holds
  <2>3. host[fd] # 0 /\ \A b \in Holders : b # "call" => ~Holds(b, fd)
    BY <2>1, <2>2 DEF Owned, Holders
  <2>4. fd \notin Own /\ fd \notin sockets /\ fd \notin dups /\ \A j \in Sure : fds[j] # fd
    BY <2>3 DEF Holds, Holders
  <2>5. Distinct'
    BY <1>4, <1>6, <1>7, <2>1, <2>4 DEF Distinct
  <2>6. ASSUME NEW h \in HostFds, h # fd PROVE SameOwners(h)
    BY <1>1, <1>2, <1>4, <1>6, <1>7, <2>6 DEF SameOwners, Holds
  <2>7. \A a \in Holders : Holds(a, fd)' => a = "table"
    BY <1>2, <2>4 DEF Holds, Holders
  <2>8. doubted' = {} => Holds("table", fd)'
    BY <1>2, <1>4, <1>6 DEF Holds
  <2>9. Owned(fd)'
    BY <1>2, <2>3, <2>7, <2>8 DEF Owned, Holders
  <2> QED  BY <2>5, <2>6, <2>9
<1>9. OneOwner'  BY <1>2, <1>8, OwnersChange
<1> QED  BY <1>4, <1>9

\* close, the host's half: done, failed or in doubt.
LEMMA CloseOwners ==
  ASSUME TypeOK, OneOwner, NEW n \in Numbers, Close(n)
  PROVE  OneOwner'
<1>1. /\ (misused => misused') /\ (~misused' => n \notin doubted)
      /\ call = Idle /\ call.op = "none"
      /\ UNCHANGED <<sockets, dups, fds>>
  BY IdleCall DEF Close, DispatchChange, Dispatch, Naming
<1>2. CASE UNCHANGED <<host, call, doubted>>
  BY <1>1, <1>2, OwnersKept
<1>3. ASSUME FileOf(n) # 0, NEW left \in Nat, host' = [host EXCEPT ![lookup(n)] = left],
             \/ left = 0 /\ call' = [op |-> "close", n |-> n] /\ doubted' = doubted
             \/ call' = call /\ doubted' = doubted \cup {n}
      PROVE  OneOwner'
  <2>1. PICK fd \in HostFds : lookup(n) = fd  BY <1>3 DEF FileOf
  <2>2. n \in Nat /\ n + 1 \in DOMAIN fds /\ fds[n + 1] = fd /\ fd # NoFd
    BY <2>1, Named
  <2>3. host' = [host EXCEPT ![fd] = left]  BY <1>3, <2>1
  <2>4. Sure' = Sure \ {n + 1}
    <3>1. \A j \in DOMAIN fds : j - 1 = n <=> j = n + 1  BY <2>2 DEF TypeOK
    <3> QED  BY <1>1, <1>3, <3>1 DEF Sure
  <2>5. call'.op # "openat"  BY <1>1, <1>3
  <2>6. doubted' = {} => doubted = {} /\ left = 0  BY <1>3
  <2>7. ASSUME ~misused' PROVE Distinct' /\ \A h \in HostFds : SameOwners(h) \/ Owned(h)'
    <3>1. n + 1 \in Sure  BY <1>1, <2>2, <2>7 DEF Sure
    <3>2. Distinct /\ Owned(fd)  BY <1>1, <2>7 DEF OneOwner, Distinct
    <3>3. Distinct'  BY <1>1, <2>4, <3>2 DEF Distinct
    <3>4. Holds("table", fd)  BY <2>2, <3>1 DEF Holds
    <3>5. \A b \in Holders : b # "table" => ~Holds(b, fd)
      BY <3>2, <3>4 DEF Owned, Holders
    <3>6. \A a \in Holders : ~Holds(a, fd)'
      <4>1. fd \notin Own /\ fd \notin sockets /\ fd \notin dups  BY <3>5 DEF Holds, Holders
      <4>2. \A j \in Sure' : fds'[j] # fd  BY <1>1, <2>2, <2>4, <3>1, <3>2 DEF Distinct
      <4> QED  BY <1>1, <2>5, <4>1, <4>2 DEF Holds
    <3>7. Owned(fd)'
      <4>1. left = 0 => host'[fd] = 0  BY <2>3 DEF TypeOK
      <4> QED  BY <2>6, <3>6, <4>1 DEF Owned
    <3>8. ASSUME NEW h \in HostFds, h # fd PROVE SameOwners(h)
      BY <1>1, <2>2, <2>3, <2>4, <2>5, <3>8 DEF SameOwners, Holds, TypeOK
    <3> QED  BY <3>3, <3>7, <3>8
  <2> QED  BY <1>1, <2>6, <2>7, OwnersChange
<1>4. FileOf(n) # 0 => FileOf(n) \in Nat  BY DEF FileOf, TypeOK
<1> QED  BY <1>2, <1>3, <1>4 DEF Close

\* close, the table's half.
LEMMA DeallocOwners ==
  ASSUME TypeOK, OneOwner, Dealloc
  PROVE  OneOwner' /\ fds' \in Seq(HostFds \cup {NoFd})
<1>1. PICK n \in Nat : call.op = "close" /\ call.n = n
  BY CallShapes DEF Dealloc, TypeOK
<1>2. /\ fds' = [fds EXCEPT ![n + 1] = NoFd] /\ call' = Idle /\ call'.op = "none"
      /\ UNCHANGED <<host, sockets, dups, doubted, misused>>
  BY <1>1, IdleCall DEF Dealloc, dealloc, kernel, promise
<1>3. /\ fds' \in Seq(HostFds \cup {NoFd}) /\ DOMAIN fds' = DOMAIN fds
      /\ \A j \in DOMAIN fds : fds'[j] = IF j = n + 1 THEN NoFd ELSE fds[j]
  <2>1. DOMAIN fds' = DOMAIN fds  BY <1>2
  <2>2. \A j \in DOMAIN fds : fds'[j] = IF j = n + 1 THEN NoFd ELSE fds[j]  BY <1>2
  <2>3. fds' \in Seq(HostFds \cup {NoFd})
    <3> DEFINE S == HostFds \cup {NoFd}
    <3>1. fds \in [1..Len(fds) -> S] /\ Len(fds) \in Nat  BY DEF TypeOK
    <3>2. fds' \in [1..Len(fds) -> S]  BY <1>2, <3>1
    <3> QED  BY <3>1, <3>2
  <2> QED  BY <2>1, <2>2, <2>3
<1>4. Sure' = Sure
  <2>1. \A j \in DOMAIN fds : j - 1 = n <=> j = n + 1  BY DEF TypeOK
  <2> QED  BY <1>1, <1>2, <1>3, <2>1 DEF Sure
<1>5. \A j \in Sure : fds'[j] = fds[j]
  <2>1. n + 1 \notin Sure  BY <1>1 DEF Sure
  <2> QED  BY <1>3, <2>1 DEF Sure
<1>6. \A h \in HostFds : SameOwners(h)
  BY <1>1, <1>2, <1>4, <1>5 DEF SameOwners, Holds
<1>7. ~misused' => Distinct'  BY <1>2, <1>4, <1>5 DEF OneOwner, Distinct
<1> QED  BY <1>2, <1>3, <1>6, <1>7, OwnersChange

\* The sockets of rfb_t.
LEMMA SocketOwners ==
  ASSUME TypeOK, OneOwner, OpenSocket \/ CloseSocket
  PROVE  OneOwner'
<1>1. UNCHANGED <<dups, fds, call, doubted, misused>>
  BY DEF OpenSocket, CloseSocket, promise
<1>2. Sure' = Sure  BY <1>1 DEF Sure
<1>3. ~misused' => Distinct'  BY <1>1, <1>2 DEF OneOwner, Distinct
<1>4. CASE OpenSocket
  <2>1. PICK h \in HostFds :
          /\ host[h] = 0 /\ host' = [host EXCEPT ![h] = Socket]
          /\ sockets' = sockets \cup {h}
    BY <1>4 DEF OpenSocket, LowestFd
  <2>2. ASSUME ~misused' PROVE Owned(h)'
    <3>1. \A a \in Holders : ~Holds(a, h)  BY <1>1, <2>1, <2>2, FreeUnowned
    <3>2. \A a \in Holders : Holds(a, h)' <=> a = "rfb"
      BY <1>1, <1>2, <2>1, <3>1 DEF Holds, Holders
    <3>3. host'[h] # 0  BY <2>1 DEF TypeOK, Socket
    <3> QED  BY <3>2, <3>3 DEF Owned, Holders
  <2>3. \A k \in HostFds : k # h => SameOwners(k)
    BY <1>1, <1>2, <2>1 DEF SameOwners, Holds, TypeOK
  <2> QED  BY <1>1, <1>3, <2>2, <2>3, OwnersChange
<1>5. CASE CloseSocket
  <2>1. PICK h \in sockets :
          host' = [host EXCEPT ![h] = 0] /\ sockets' = sockets \ {h}
    BY <1>5 DEF CloseSocket
  <2>2. h \in HostFds  BY DEF TypeOK
  <2>3. ASSUME ~misused' PROVE Owned(h)'
    <3>1. Owned(h)  BY <1>1, <2>2, <2>3 DEF OneOwner
    <3>2. Holds("rfb", h)  BY DEF Holds
    <3>3. \A a \in Holders : a # "rfb" => ~Holds(a, h)  BY <3>1, <3>2 DEF Owned, Holders
    <3>4. \A a \in Holders : ~Holds(a, h)'
      BY <1>1, <1>2, <2>1, <3>3 DEF Holds, Holders
    <3>5. host'[h] = 0  BY <2>1, <2>2 DEF TypeOK
    <3> QED  BY <3>4, <3>5 DEF Owned
  <2>4. \A k \in HostFds : k # h => SameOwners(k)
    BY <1>1, <1>2, <2>1 DEF SameOwners, Holds, TypeOK
  <2> QED  BY <1>1, <1>3, <2>3, <2>4, OwnersChange
<1> QED  BY <1>4, <1>5

-------------------------------------------------------------------------------
(* Types.                                                                    *)

Quiet ==
  \/ \E n \in Numbers : Read(n) \/ Use(n) \/ Fstat(n)
  \/ \E at \in At : StatAt(at) \/ NameAt(at)
  \/ \E old, new \in At : TwoNamesAt(old, new)
  \/ \E size \in Sizes : Getcwd(size) \/ Getmainvars(size)

\* The calls that only answer.
LEMMA QuietKeeps ==
  ASSUME Quiet
  PROVE  /\ UNCHANGED <<kernel, fds, call, place, doubted, ncalls>>
         /\ misused \in BOOLEAN => misused' \in BOOLEAN
         /\ misused => misused'
<1> DEFINE Kept == /\ UNCHANGED <<kernel, fds, call, place, doubted, ncalls>>
                   /\ (misused' = misused \/ \E ns : Naming(ns))
<1>1. \A n \in Numbers : Read(n) \/ Use(n) \/ Fstat(n) => Kept  BY DEF Read, Use, Fstat
<1>2. \A at \in At : StatAt(at) \/ NameAt(at) => Kept  BY DEF StatAt, NameAt
<1>3. \A old, new \in At : TwoNamesAt(old, new) => Kept  BY DEF TwoNamesAt
<1>4. \A size \in Sizes : Getcwd(size) => Kept  BY DEF Getcwd, promise
<1>5. \A size \in Sizes : Getmainvars(size) => Kept  BY DEF Getmainvars, promise
<1>6. Kept  BY <1>1, <1>2, <1>3, <1>4, <1>5 DEF Quiet
<1>7. ASSUME NEW ns, Naming(ns) PROVE misused' \in BOOLEAN /\ (misused => misused')
  BY <1>7 DEF Naming
<1> QED  BY <1>6, <1>7

LEMMA MoreCalls ==
  ASSUME ncalls \in 0..MaxCalls, DispatchChange
  PROVE  ncalls' \in 0..MaxCalls
BY SyscallConstants DEF DispatchChange

\* fcntl(F_DUPFD) and close.
LEMMA CallTypes ==
  ASSUME TypeOK, NEW n \in Numbers, Dup(n) \/ Close(n)
  PROVE  TypeOK'
<1>1. /\ UNCHANGED <<opened, sockets, fds, place>>
      /\ misused' \in BOOLEAN /\ ncalls' \in 0..MaxCalls
  BY MoreCalls DEF Dup, Close, DispatchChange, Naming, TypeOK
<1>2. FileOf(n) # 0 => FileOf(n) \in Nat /\ lookup(n) \in HostFds
  BY DEF FileOf, TypeOK
<1>3. CASE Dup(n)
  <2>1. PICK h \in HostFds : host' = [host EXCEPT ![h] = FileOf(n)] /\ dups' = dups \cup {h}
    BY <1>3 DEF Dup
  <2>2. FileOf(n) \in Nat /\ UNCHANGED <<call, doubted>>  BY <1>2, <1>3 DEF Dup
  <2>3. host' \in [HostFds -> Nat] /\ dups' \subseteq HostFds
    BY <2>1, <2>2 DEF TypeOK
  <2> QED  BY <1>1, <2>2, <2>3 DEF TypeOK, place
<1>4. CASE Close(n)
  <2>1. dups' = dups  BY <1>4 DEF Close
  <2>2. CASE UNCHANGED <<host, call, doubted>>
    BY <1>1, <2>1, <2>2 DEF TypeOK, place
  <2>3. ASSUME FileOf(n) # 0, NEW left \in Nat, host' = [host EXCEPT ![lookup(n)] = left],
               \/ call' = [op |-> "close", n |-> n] /\ doubted' = doubted
               \/ call' = call /\ doubted' = doubted \cup {n}
        PROVE  TypeOK'
    <3>1. n \in Nat  BY <1>2, <2>3, Named
    <3>2. host' \in [HostFds -> Nat]  BY <2>3 DEF TypeOK
    <3>3. call' \in Calls
      <4>1. [op |-> "close", n |-> n] \in Calls  BY <3>1 DEF Calls
      <4> QED  BY <2>3, <4>1 DEF TypeOK
    <3>4. doubted' \subseteq Nat  BY <2>3, <3>1 DEF TypeOK
    <3> QED  BY <1>1, <2>1, <3>2, <3>3, <3>4 DEF TypeOK, place
  <2> QED  BY <1>2, <1>4, <2>2, <2>3 DEF Close
<1> QED  BY <1>3, <1>4

LEMMA OpenatTypes ==
  ASSUME TypeOK, NEW at \in At, Openat(at)
  PROVE  TypeOK'
<1>1. /\ UNCHANGED <<sockets, dups, fds, place, doubted>>
      /\ misused' \in BOOLEAN /\ ncalls' \in 0..MaxCalls
  BY MoreCalls DEF Openat, DispatchChange, Naming, TypeOK
<1>2. CASE UNCHANGED <<host, opened, call>>
  BY <1>1, <1>2 DEF TypeOK, place
<1>3. ASSUME NEW h \in HostFds, opened' = opened + 1,
             host' = [host EXCEPT ![h] = opened'], call' = [op |-> "openat", fd |-> h]
      PROVE  TypeOK'
  <2>1. opened' \in Nat  BY <1>3 DEF TypeOK
  <2>2. host' \in [HostFds -> Nat]  BY <1>3, <2>1 DEF TypeOK
  <2>3. call' \in Calls  BY <1>3 DEF Calls
  <2> QED  BY <1>1, <2>1, <2>2, <2>3 DEF TypeOK, place
<1> QED  BY <1>2, <1>3 DEF Openat

LEMMA SocketTypes ==
  ASSUME TypeOK, OpenSocket \/ CloseSocket
  PROVE  TypeOK'
<1>1. UNCHANGED <<opened, dups, fds, call, place, promise, ncalls>>
  BY DEF OpenSocket, CloseSocket
<1>2. host' \in [HostFds -> Nat] /\ sockets' \subseteq HostFds
  <2>1. CASE OpenSocket  BY <2>1 DEF OpenSocket, TypeOK, Socket
  <2>2. CASE CloseSocket  BY <2>2 DEF CloseSocket, TypeOK
  <2> QED  BY <2>1, <2>2
<1> QED  BY <1>1, <1>2 DEF TypeOK, place, promise

-------------------------------------------------------------------------------
(* The invariant.                                                            *)

Inv == TypeOK /\ ChdirInv /\ OneOwner

LEMMA InitInv == Init => Inv
<1> SUFFICES ASSUME Init PROVE Inv  OBVIOUS
<1>1. \A h \in HostFds : host[h] = IF h < 6 THEN Std[h + 1] ELSE 0  BY DEF Init
<1>2. /\ Std[1] = 1 /\ Std[2] = 2 /\ Std[3] = 3 /\ Std[4] = 1 /\ Std[5] = 2 /\ Std[6] = 2
  BY DEF Std, Stdin, Stdout, Stderr
<1>3. \A h \in HostFds : h \in Nat /\ (h < 6 => h + 1 \in {1, 2, 3, 4, 5, 6})
  BY SyscallConstants
<1>4. \A h \in HostFds : host[h] \in Nat /\ (host[h] # 0 <=> h \in 0..5)
  <2> TAKE h \in HostFds
  <2>1. CASE h < 6
    <3>1. host[h] = Std[h + 1]  BY <1>1, <2>1
    <3>2. Std[h + 1] \in 1..3  BY <1>2, <1>3, <2>1
    <3> QED  BY <1>3, <2>1, <3>1, <3>2
  <2>2. CASE ~(h < 6)  BY <1>1, <1>3, <2>2
  <2> QED  BY <2>1, <2>2
<1>5. TypeOK
  <2>1. host \in [HostFds -> Nat]
    <3>1. host = [h \in HostFds |-> host[h]]  BY DEF Init
    <3> QED  BY <1>4, <3>1
  <2>2. fds \in Seq(HostFds \cup {NoFd})  BY SyscallConstants DEF Init
  <2>3. call \in Calls  BY DEF Init, Calls
  <2>4. opened \in Nat /\ ncalls \in 0..MaxCalls  BY SyscallConstants DEF Init, Socket
  <2> QED  BY <2>1, <2>2, <2>3, <2>4, SyscallConstants DEF TypeOK, Init
<1>6. ChdirInv  BY DEF Init, ChdirInv
<1>7. OneOwner
  <2>1. Sure = {1, 2, 3}
    <3>1. DOMAIN fds = {1, 2, 3} /\ doubted = {} /\ call.op = "options"  BY DEF Init
    <3>2. \A i \in DOMAIN fds : fds[i] = i + 2 /\ i + 2 # NoFd  BY DEF Init, NoFd
    <3> QED  BY <3>1, <3>2 DEF Sure
  <2>2. fds[1] = 3 /\ fds[2] = 4 /\ fds[3] = 5  BY DEF Init
  <2>3. \A i, j \in Sure : fds[i] = fds[j] => i = j  BY <2>1, <2>2
  <2>4. ASSUME NEW h \in HostFds PROVE Owned(h)
    <3>1. Holds("program", h) <=> h \in 0..2  BY DEF Holds, Own
    <3>2. Holds("table", h) <=> h \in 3..5  BY <2>1, <2>2, <1>3 DEF Holds
    <3>3. ~Holds("rfb", h) /\ ~Holds("fcntl", h) /\ ~Holds("call", h)
      BY DEF Holds, Init
    <3>4. h \in Nat  BY <1>3
    <3>5. Holds("program", h) => host[h] # 0 /\ ~Holds("table", h)  BY <1>4, <3>1, <3>2, <3>4
    <3>6. Holds("table", h) => host[h] # 0 /\ ~Holds("program", h)  BY <1>4, <3>1, <3>2, <3>4
    <3>7. host[h] # 0 => Holds("program", h) \/ Holds("table", h)  BY <1>4, <3>1, <3>2, <3>4
    <3> QED  BY <3>3, <3>5, <3>6, <3>7 DEF Owned, Holders
  <2> QED  BY <2>3, <2>4 DEF OneOwner
<1> QED  BY <1>5, <1>6, <1>7 DEF Inv

LEMMA StepInv == Inv /\ [Next]_vars => Inv'
<1> SUFFICES ASSUME Inv, [Next]_vars PROVE Inv'  OBVIOUS
<1>0. TypeOK /\ ChdirInv /\ OneOwner  BY DEF Inv
<1>1. ASSUME NEW where \in Roots, set_chroot(where) PROVE Inv'
  <2>1. /\ UNCHANGED <<kernel, fds, reply, cwd, targs, promise, ncalls>>
        /\ call.op = "options"
        /\ \/ call' = call /\ chroot' \in Dirs
           \/ call' = [op |-> "exit"] /\ chroot' = chroot
    BY <1>1 DEF set_chroot
  <2>2. [op |-> "exit"] \in Calls  BY DEF Calls
  <2>3. TypeOK'  BY <1>0, <2>1, <2>2 DEF TypeOK, kernel, promise
  <2>4. ChdirInv'  BY <2>1 DEF ChdirInv
  <2>5. OneOwner'  BY <1>0, <2>1, OwnersKept DEF kernel, promise, Between
  <2> QED  BY <2>3, <2>4, <2>5 DEF Inv
<1>2. ASSUME Serve \/ Exit PROVE Inv'
  <2>1. /\ UNCHANGED <<kernel, fds, reply, place, promise, ncalls>>
        /\ call.op \in {"options", "none"}
        /\ call' = Idle \/ call' = [op |-> "exit"]
    BY <1>2, IdleCall DEF Serve, Exit, Dispatch
  <2>2. [op |-> "exit"] \in Calls  BY DEF Calls
  <2>3. call'.op \in {"none", "exit"}  BY <2>1, IdleCall
  <2>4. TypeOK'  BY <1>0, <2>1, <2>2, IdleCall DEF TypeOK, kernel, place, promise
  <2>5. ChdirInv'  BY <2>3 DEF ChdirInv
  <2>6. OneOwner'  BY <1>0, <2>1, <2>3, OwnersKept DEF kernel, promise, Between
  <2> QED  BY <2>4, <2>5, <2>6 DEF Inv
<1>3. ASSUME Quiet PROVE Inv'
  <2>1. /\ UNCHANGED <<kernel, fds, call, place, doubted, ncalls>>
        /\ misused' \in BOOLEAN /\ (misused => misused')
    BY <1>0, <1>3, QuietKeeps DEF TypeOK
  <2>2. TypeOK'  BY <1>0, <2>1 DEF TypeOK, kernel, place
  <2>3. ChdirInv'  BY <1>0, <2>1 DEF ChdirInv, IsChar
  <2>4. OneOwner'  BY <1>0, <2>1, OwnersKept DEF kernel
  <2> QED  BY <2>2, <2>3, <2>4 DEF Inv
<1>4. ASSUME NEW n \in Numbers, Dup(n) \/ Close(n) PROVE Inv'
  <2>1. TypeOK'  BY <1>0, <1>4, CallTypes
  <2>2. OneOwner'  BY <1>0, <1>4, DupOwners, CloseOwners
  <2>3. call' = call \/ call' = [op |-> "close", n |-> n]  BY <1>4 DEF Dup, Close
  <2>4. ChdirInv'  BY <1>0, <2>3 DEF ChdirInv, IsChar
  <2> QED  BY <2>1, <2>2, <2>4 DEF Inv
<1>5. ASSUME NEW at \in At, Openat(at) PROVE Inv'
  <2>1. TypeOK'  BY <1>0, <1>5, OpenatTypes
  <2>2. OneOwner'  BY <1>0, <1>5, OpenatOwners
  <2>3. call' = call \/ call'.op = "openat"
    <3>1. call' = call \/ \E h \in HostFds : call' = [op |-> "openat", fd |-> h]
      BY <1>5 DEF Openat
    <3> QED  BY <3>1
  <2>4. ChdirInv'  BY <1>0, <2>3 DEF ChdirInv, IsChar
  <2> QED  BY <2>1, <2>2, <2>4 DEF Inv
<1>6. ASSUME Alloc \/ Dealloc PROVE Inv'
  <2>1. call' = Idle /\ call'.op = "none" /\ UNCHANGED <<kernel, place, promise, ncalls>>
    BY <1>6, IdleCall DEF Alloc, Dealloc
  <2>2. OneOwner' /\ fds' \in Seq(HostFds \cup {NoFd})
    BY <1>0, <1>6, AllocOwners, DeallocOwners
  <2>3. TypeOK'  BY <1>0, <2>1, <2>2, IdleCall DEF TypeOK, kernel, place, promise
  <2>4. ChdirInv'  BY <2>1 DEF ChdirInv
  <2> QED  BY <2>2, <2>3, <2>4 DEF Inv
<1>7. ASSUME NEW fn \in Names, Chdir(fn) PROVE Inv'
  <2>1. /\ UNCHANGED <<kernel, fds, place, promise>> /\ ncalls' \in 0..MaxCalls
        /\ call = Idle /\ call'.op = "chdir"
    BY <1>0, <1>7, MoreCalls DEF Chdir, DispatchChange, Dispatch, TypeOK
  <2>2. call' \in Calls /\ ChdirInv'  BY <1>7, ChdirBegins
  <2>3. TypeOK'  BY <1>0, <2>1, <2>2 DEF TypeOK, kernel, place, promise
  <2>4. OneOwner'
    BY <1>0, <2>1, IdleCall, OwnersKept DEF kernel, promise, Between
  <2> QED  BY <2>2, <2>3, <2>4 DEF Inv
<1>8. ASSUME CountByte \/ CopyByte \/ Store PROVE Inv'
  <2>1. UNCHANGED <<kernel, fds, reply, place, promise, ncalls>> /\ call.op = "chdir"
    BY <1>8 DEF CountByte, CopyByte, Store
  <2>2. call' \in Calls /\ ChdirInv'
    BY <1>0, <1>8, CountByteFits, CopyByteFits, StoreFits DEF TypeOK
  <2>3. call'.op \in {"chdir", "overrun"}
    <3>1. call \in ChdirCalls  BY <1>0, <2>1, CallShapes DEF TypeOK
    <3> QED  BY <1>8, <2>1, <3>1 DEF CountByte, CopyByte, Store, ChdirCalls
  <2>4. TypeOK'  BY <1>0, <2>1, <2>2 DEF TypeOK, kernel, place, promise
  <2>5. OneOwner'  BY <1>0, <2>1, <2>3, OwnersKept DEF kernel, promise, Between
  <2> QED  BY <2>2, <2>4, <2>5 DEF Inv
<1>9. ASSUME ChangeDir PROVE Inv'
  <2>1. /\ UNCHANGED <<kernel, fds, chroot, targs, promise, ncalls>>
        /\ cwd' \in Dirs \/ cwd' = cwd
        /\ call.op = "chdir" /\ call' = Idle /\ call'.op = "none"
    BY <1>9, IdleCall DEF ChangeDir
  <2>2. TypeOK'  BY <1>0, <2>1, IdleCall DEF TypeOK, kernel, promise
  <2>3. ChdirInv'  BY <2>1 DEF ChdirInv
  <2>4. OneOwner'  BY <1>0, <2>1, OwnersKept DEF kernel, promise, Between
  <2> QED  BY <2>2, <2>3, <2>4 DEF Inv
<1>10. ASSUME OpenSocket \/ CloseSocket PROVE Inv'
  <2>1. TypeOK' /\ OneOwner'  BY <1>0, <1>10, SocketTypes, SocketOwners
  <2>2. call' = call  BY <1>10 DEF OpenSocket, CloseSocket
  <2>3. ChdirInv'  BY <1>0, <2>2 DEF ChdirInv, IsChar
  <2> QED  BY <2>1, <2>3 DEF Inv
<1>11. ASSUME UNCHANGED vars PROVE Inv'
  <2>1. UNCHANGED <<kernel, fds, call, place, promise, ncalls>>  BY <1>11 DEF vars
  <2>2. TypeOK'  BY <1>0, <2>1 DEF TypeOK, kernel, place, promise
  <2>3. ChdirInv'  BY <1>0, <2>1 DEF ChdirInv, IsChar
  <2>4. OneOwner'  BY <1>0, <2>1, OwnersKept DEF kernel, promise
  <2> QED  BY <2>2, <2>3, <2>4 DEF Inv
<1> QED
  BY <1>1, <1>2, <1>3, <1>4, <1>5, <1>6, <1>7, <1>8, <1>9, <1>10, <1>11
  DEF Next, FileCall, NameCall, OtherCall, Quiet

LEMMA Invariance == Spec => []Inv
BY InitInv, StepInv, PTL DEF Spec

\* The variables keep their types: the table never holds anything but descriptors
\* of the process and free entries, and every call in progress is one of syscall_t's.
THEOREM TypeCorrect == Spec => []TypeOK
<1>1. Inv => TypeOK  BY DEF Inv
<1> QED  BY <1>1, Invariance, PTL

\* sys_chdir never writes past the buffer it sized by counting, whatever the string
\* and the size of the memory, unless another hart changed the string meanwhile.
THEOREM ChdirFitsTheorem == Spec => []ChdirFits
<1>1. Inv => ChdirFits  BY DEF Inv, ChdirInv, ChdirFits
<1> QED  BY <1>1, Invariance, PTL

\* Every descriptor of the process has one owner, for any number of descriptors,
\* files and sockets: fds_t, rfb_t, fcntl and a call halfway never share or lose one.
THEOREM OneOwnerTheorem == Spec => []OneOwner
<1>1. Inv => OneOwner  BY DEF Inv
<1> QED  BY <1>1, Invariance, PTL
-------------------------------------------------------------------------------
(* The refinement.                                                           *)

\* What Descriptors calls last, while the promise holds.
LastOpened == IF call.op = "openat" THEN opened - 1 ELSE opened

Closing(i) == call.op = "close" /\ call.n = i - 1

\* A number in doubt keeps its entry, as the target has not named it again, and the
\* descriptor that openat holds is open on the file opened last.
Halves ==
  ~misused =>
    /\ \A n \in doubted : n + 1 \in DOMAIN fds /\ fds[n + 1] # NoFd /\ ~Closing(n + 1)
    /\ call.op = "openat" => host[call.fd] = opened

\* The target's view of an entry.
LEMMA View ==
  ASSUME Inv, ~misused, NEW i \in DOMAIN fds
  PROVE  /\ i \in Sure => /\ TargetView[i] = host[fds[i]] /\ host[fds[i]] # 0
                          /\ host[fds[i]] \in Nat /\ fds[i] \in HostFds
         /\ i \notin Sure => TargetView[i] \in {0, -1}
         /\ fds[i] = NoFd \/ Closing(i) => TargetView[i] = 0
         /\ fds[i] # NoFd /\ ~Closing(i) /\ i - 1 \in doubted => TargetView[i] = -1
<1>1. /\ i \in Sure => TargetView[i] = host[fds[i]]
      /\ i \notin Sure => TargetView[i] \in {0, -1}
      /\ fds[i] = NoFd \/ Closing(i) => TargetView[i] = 0
      /\ fds[i] # NoFd /\ ~Closing(i) /\ i - 1 \in doubted => TargetView[i] = -1
  BY DEF TargetView, Sure, Closing
<1>2. ASSUME i \in Sure
      PROVE  host[fds[i]] # 0 /\ host[fds[i]] \in Nat /\ fds[i] \in HostFds
  <2>1. fds[i] \in HostFds  BY <1>2 DEF Inv, TypeOK, Sure
  <2>2. Holds("table", fds[i])  BY <1>2 DEF Holds
  <2>3. Owned(fds[i])  BY <2>1 DEF Inv, OneOwner
  <2>4. host[fds[i]] \in Nat  BY <2>1 DEF Inv, TypeOK
  <2> QED  BY <2>1, <2>2, <2>3, <2>4 DEF Owned, Holders
<1> QED  BY <1>1, <1>2

\* The view changes with the entries and with what their descriptors are open on.
LEMMA ViewKept ==
  ASSUME UNCHANGED <<fds, doubted>>, \A i \in DOMAIN fds : Closing(i)' <=> Closing(i),
         \A i \in Sure : host'[fds[i]] = host[fds[i]]
  PROVE  TargetView' = TargetView
<1> DEFINE Entry(i) == IF fds[i] = NoFd \/ Closing(i) THEN 0
                       ELSE IF i - 1 \in doubted THEN -1
                       ELSE host[fds[i]]
<1>1. TargetView = [i \in DOMAIN fds |-> Entry(i)]  BY DEF TargetView, Closing
<1>2. TargetView' = [i \in DOMAIN fds' |-> Entry(i)']  BY DEF TargetView, Closing
<1>3. ASSUME NEW i \in DOMAIN fds PROVE Entry(i)' = Entry(i)
  <2>1. i \in Sure \/ fds[i] = NoFd \/ Closing(i) \/ i - 1 \in doubted
    BY DEF Sure, Closing
  <2> QED  BY <2>1
<1> QED
  <2> HIDE DEF Entry
  <2> QED  BY <1>1, <1>2, <1>3

\* An entry that the target may count on keeps its descriptor open when the host
\* opens another, or closes one that has another owner.
LEMMA FreeNotSure ==
  ASSUME Inv, ~misused, NEW h \in HostFds, host[h] = 0
  PROVE  \A i \in Sure : fds[i] # h
<1>1. Sure \subseteq DOMAIN fds  BY DEF Sure
<1> QED  BY <1>1, View

LEMMA SocketNotSure ==
  ASSUME Inv, ~misused, NEW h \in sockets
  PROVE  \A i \in Sure : fds[i] # h
<1>1. h \in HostFds  BY DEF Inv, TypeOK
<1>2. Owned(h) /\ Holds("rfb", h)  BY <1>1 DEF Inv, OneOwner, Holds
<1>3. ~Holds("table", h)  BY <1>2 DEF Owned, Holders
<1> QED  BY <1>3 DEF Holds

\* The steps of Descriptors, in terms of the view.
LEMMA Stutters ==
  ASSUME misused' = misused,
         ~misused => UNCHANGED <<TargetView, LastOpened, reply.file>>
  PROVE  UNCHANGED Promised!vars
BY DEF Promised!vars, LastOpened

LEMMA Reaches ==
  ASSUME ~misused, ~misused', UNCHANGED misused, UNCHANGED <<TargetView, LastOpened>>,
         NEW i \in DOMAIN fds, TargetView[i] # -1, reply'.file = TargetView[i]
  PROVE  Promised!Next
<1>1. i \in DOMAIN TargetView  BY DEF TargetView
<1> QED  BY <1>1 DEF Promised!Next, Promised!Use, Promised!Doubtful, LastOpened

LEMMA ReachesNone ==
  ASSUME ~misused, ~misused', UNCHANGED misused, UNCHANGED TargetView, reply'.file = 0,
         LastOpened' >= LastOpened
  PROVE  Promised!Next
BY DEF Promised!Next, Promised!Other, Promised!Closed, LastOpened

LEMMA Ends ==
  ASSUME ~misused, misused', NEW i \in DOMAIN fds, TargetView[i] = -1
  PROVE  Promised!Next
<1>1. i \in DOMAIN TargetView  BY DEF TargetView
<1> QED  BY <1>1 DEF Promised!Next, Promised!EndPromise, Promised!Doubtful, Promised!Closed

LEMMA Opens ==
  ASSUME ~misused, ~misused', UNCHANGED misused, LastOpened' > LastOpened, reply'.file = LastOpened',
         NEW i \in 1..Len(TargetView) + 1,
         i <= Len(TargetView) => TargetView[i] = 0,
         \A j \in 1..i - 1 : TargetView[j] # 0,
         TargetView' = IF i <= Len(TargetView) THEN [TargetView EXCEPT ![i] = LastOpened']
                       ELSE Append(TargetView, LastOpened')
  PROVE  Promised!Next
<1>1. Promised!LowestFree(i)  BY DEF Promised!LowestFree, Promised!Closed
<1>2. Promised!Open  BY <1>1 DEF Promised!Open, LastOpened
<1> QED  BY <1>2 DEF Promised!Next

LEMMA Closes ==
  ASSUME ~misused, ~misused', UNCHANGED misused, UNCHANGED LastOpened, reply'.file = 0,
         NEW i \in DOMAIN fds, TargetView[i] \notin {0, -1}, NEW result \in {0, -1},
         TargetView' = [TargetView EXCEPT ![i] = result]
  PROVE  Promised!Next
<1>1. i \in DOMAIN TargetView  BY DEF TargetView
<1> QED
  BY <1>1 DEF Promised!Next, Promised!Close, Promised!Closed, Promised!Doubtful, LastOpened

\* The promise ends only when the target names a number that is in doubt.
LEMMA PromiseSteps ==
  ASSUME [Next]_vars
  PROVE  misused' = misused \/ \E ns : Naming(ns)
<1> DEFINE Kept == misused' = misused \/ \E ns : Naming(ns)
<1>1. \A n \in Numbers : Read(n) \/ Use(n) \/ Fstat(n) => Kept  BY DEF Read, Use, Fstat
<1>2. \A n \in Numbers : Dup(n) \/ Close(n) => Kept  BY DEF Dup, Close
<1>3. \A at \in At : StatAt(at) \/ NameAt(at) \/ Openat(at) => Kept
  BY DEF StatAt, NameAt, Openat
<1>4. \A old, new \in At : TwoNamesAt(old, new) => Kept  BY DEF TwoNamesAt
<1>5. \A size \in Sizes : Getcwd(size) \/ Getmainvars(size) => Kept
  BY DEF Getcwd, Getmainvars, promise
<1>6. \A fn \in Names : Chdir(fn) => Kept  BY DEF Chdir, promise
<1>7. CountByte \/ CopyByte \/ ChangeDir => Kept  BY DEF CountByte, CopyByte, ChangeDir, promise
<1>8. Alloc \/ Dealloc \/ Exit \/ Serve => Kept  BY DEF Alloc, Dealloc, Exit, Serve, promise
<1>9. Store \/ OpenSocket \/ CloseSocket => Kept  BY DEF Store, OpenSocket, CloseSocket, promise
<1>10. \A where \in Roots : set_chroot(where) => Kept  BY DEF set_chroot, promise
<1>11. UNCHANGED vars => Kept  BY DEF vars, promise
<1> QED
  BY <1>1, <1>2, <1>3, <1>4, <1>5, <1>6, <1>7, <1>8, <1>9, <1>10, <1>11
  DEF Next, FileCall, NameCall, OtherCall

\* A call on a number that reaches a file shows that file, and no other call does.
LEMMA QuietRefines ==
  ASSUME Inv, ~misused, ~misused', UNCHANGED misused, Quiet
  PROVE  Promised!Next
<1>1. UNCHANGED <<kernel, fds, call, place, doubted, ncalls>>  BY QuietKeeps
<1>2. UNCHANGED <<TargetView, LastOpened>>
  BY <1>1, ViewKept DEF kernel, LastOpened, Closing
<1>3. LastOpened' >= LastOpened  BY <1>2 DEF LastOpened, Inv, TypeOK
<1>4. CASE reply'.file = 0  BY <1>2, <1>3, <1>4, ReachesNone
<1>5. CASE reply'.file # 0
  <2>1. PICK n \in Numbers : Naming({n}) /\ reply'.file = FileOf(n) /\ call = Idle
    <3>1. \A at \in At : StatAt(at) \/ NameAt(at) => reply'.file = 0
      BY DEF StatAt, NameAt, NoReply
    <3>2. \A old, new \in At : TwoNamesAt(old, new) => reply'.file = 0
      BY DEF TwoNamesAt, NoReply
    <3>3. \A size \in Sizes : Getcwd(size) \/ Getmainvars(size) => reply'.file = 0
      BY DEF Getcwd, Getmainvars, NoReply
    <3>4. \A n \in Numbers : Read(n) \/ Use(n) \/ Fstat(n) =>
            Naming({n}) /\ reply'.file = FileOf(n) /\ call = Idle
      BY DEF Read, Use, Fstat, Dispatch, NoReply
    <3> QED  BY <1>5, <3>1, <3>2, <3>3, <3>4 DEF Quiet
  <2>2. n \notin doubted  BY <2>1 DEF Naming
  <2>3. /\ n \in Nat /\ n + 1 \in DOMAIN fds /\ lookup(n) = fds[n + 1] /\ fds[n + 1] # NoFd
        /\ FileOf(n) = host[fds[n + 1]]
    BY <1>5, <2>1, Named DEF FileOf, Inv
  <2>4. n + 1 \in Sure
    <3>1. call.op = "none"  BY <2>1, IdleCall
    <3> QED  BY <2>2, <2>3, <3>1 DEF Sure
  <2>5. reply'.file = TargetView[n + 1] /\ TargetView[n + 1] # -1
    BY <2>1, <2>3, <2>4, View
  <2> QED  BY <1>2, <2>3, <2>5, Reaches
<1> QED  BY <1>4, <1>5

LEMMA DupRefines ==
  ASSUME Inv, ~misused, ~misused', UNCHANGED misused, NEW n \in Numbers, Dup(n)
  PROVE  Promised!Next
<1>1. PICK h \in HostFds : host[h] = 0 /\ host' = [host EXCEPT ![h] = FileOf(n)]
  BY DEF Dup, LowestFd
<1>2. /\ UNCHANGED <<opened, fds, call, doubted>> /\ reply'.file = FileOf(n)
      /\ FileOf(n) # 0 /\ n \notin doubted /\ call = Idle /\ call.op = "none"
  BY IdleCall DEF Dup, DispatchChange, Dispatch, Naming, NoReply
<1>3. \A i \in Sure : host'[fds[i]] = host[fds[i]]
  <2>1. \A i \in Sure : fds[i] # h /\ fds[i] \in HostFds
    BY <1>1, FreeNotSure, View DEF Sure
  <2> QED  BY <1>1, <2>1 DEF Inv, TypeOK
<1>4. UNCHANGED <<TargetView, LastOpened>>
  BY <1>2, <1>3, ViewKept DEF LastOpened, Closing
<1>5. n \in Nat /\ n + 1 \in DOMAIN fds /\ fds[n + 1] # NoFd /\ FileOf(n) = host[fds[n + 1]]
  BY <1>2, Named DEF FileOf, Inv
<1>6. n + 1 \in Sure  BY <1>2, <1>5 DEF Sure
<1>7. reply'.file = TargetView[n + 1] /\ TargetView[n + 1] # -1  BY <1>2, <1>5, <1>6, View
<1> QED  BY <1>4, <1>5, <1>7, Reaches

\* The file that openat has opened counts as opened once it is in the table.
LEMMA OpenatRefines ==
  ASSUME Inv, ~misused, ~misused', UNCHANGED misused, NEW at \in At, Openat(at)
  PROVE  Promised!Next
<1>1. /\ UNCHANGED <<fds, doubted>> /\ reply'.file = 0
      /\ call = Idle /\ call.op = "none"
  BY IdleCall DEF Openat, DispatchChange, Dispatch, NoReply
<1>2. CASE UNCHANGED <<host, opened, call>>
  <2>1. UNCHANGED <<TargetView, LastOpened>>
    BY <1>1, <1>2, ViewKept DEF LastOpened, Closing
  <2>2. LastOpened' >= LastOpened  BY <2>1 DEF LastOpened, Inv, TypeOK
  <2> QED  BY <1>1, <2>1, <2>2, ReachesNone
<1>3. ASSUME NEW h \in HostFds, LowestFd(h), opened' = opened + 1,
             host' = [host EXCEPT ![h] = opened'], call' = [op |-> "openat", fd |-> h]
      PROVE  Promised!Next
  <2>1. \A i \in Sure : host'[fds[i]] = host[fds[i]]
    <3>1. \A i \in Sure : fds[i] # h /\ fds[i] \in HostFds
      BY <1>3, FreeNotSure, View DEF Sure, LowestFd
    <3> QED  BY <1>3, <3>1 DEF Inv, TypeOK
  <2>2. call'.op = "openat"  BY <1>3
  <2>3. UNCHANGED TargetView  BY <1>1, <2>1, <2>2, ViewKept DEF Closing
  <2>4. LastOpened' >= LastOpened  BY <1>1, <1>3, <2>2 DEF LastOpened, Inv, TypeOK
  <2> QED  BY <1>1, <2>3, <2>4, ReachesNone
<1> QED  BY <1>2, <1>3 DEF Openat

LEMMA AllocRefines ==
  ASSUME Inv, Halves, ~misused, ~misused', UNCHANGED misused, Alloc
  PROVE  Promised!Next
<1>1. PICK fd \in HostFds : call.op = "openat" /\ call.fd = fd
  BY CallShapes DEF Alloc, Inv, TypeOK
<1>2. PICK i \in 1..Len(fds) + 1 : FirstFree(i) /\ fds' = Put(i, fd)
                                   /\ reply'.file = host[fd]
  BY <1>1 DEF Alloc
<1>3. /\ UNCHANGED <<host, opened, doubted>> /\ call'.op = "none"
      /\ host[fd] = opened /\ opened \in Nat
  BY <1>1, IdleCall DEF Alloc, kernel, promise, Halves, Inv, TypeOK
<1>4. /\ DOMAIN fds' = DOMAIN fds \cup {i} /\ fds'[i] = fd
      /\ \A j \in DOMAIN fds : j # i => fds'[j] = fds[j]
  BY <1>2, PutTable DEF Inv
<1>5. LastOpened = opened - 1 /\ LastOpened' = opened  BY <1>1, <1>3 DEF LastOpened
<1>6. DOMAIN fds = 1..Len(fds) /\ Len(fds) \in Nat  BY DEF Inv, TypeOK
<1>7. /\ i \in DOMAIN fds => fds[i] = NoFd
      /\ \A j \in 1..i - 1 : j \in DOMAIN fds /\ fds[j] # NoFd
  BY <1>2, <1>6 DEF FirstFree
<1>8. \A j \in DOMAIN fds \cup {i} : ~Closing(j) /\ ~Closing(j)'
  BY <1>1, <1>3 DEF Closing
<1>9. i - 1 \notin doubted
  <2>1. i - 1 \in doubted => (i - 1) + 1 \in DOMAIN fds /\ fds[(i - 1) + 1] # NoFd
    BY DEF Halves
  <2>2. (i - 1) + 1 = i  BY <1>6
  <2> QED  BY <1>7, <2>1, <2>2
<1>10. fd # NoFd  BY SyscallConstants DEF NoFd
<1>11. TargetView' = [j \in DOMAIN fds \cup {i} |-> IF j = i THEN opened ELSE TargetView[j]]
  <2> DEFINE Entry(j) == IF fds'[j] = NoFd \/ Closing(j)' THEN 0
                         ELSE IF j - 1 \in doubted THEN -1
                         ELSE host[fds'[j]]
  <2>1. TargetView' = [j \in DOMAIN fds \cup {i} |-> Entry(j)]
    BY <1>3, <1>4 DEF TargetView, Closing
  <2>2. Entry(i) = opened  BY <1>3, <1>4, <1>8, <1>9, <1>10
  <2>3. \A j \in DOMAIN fds : j # i => Entry(j) = TargetView[j]
    BY <1>4, <1>8 DEF TargetView, Closing
  <2> QED
    <3> HIDE DEF Entry
    <3> QED  BY <2>1, <2>2, <2>3
<1>12. DOMAIN TargetView = 1..Len(fds) /\ Len(TargetView) = Len(fds)
       /\ TargetView \in Seq(Int)
  <2>1. \A j \in DOMAIN fds : TargetView[j] \in Int  BY View
  <2>2. TargetView = [j \in 1..Len(fds) |-> TargetView[j]]  BY <1>6 DEF TargetView
  <2> QED  BY <1>6, <2>1, <2>2
<1>13. i <= Len(TargetView) => TargetView[i] = 0
  BY <1>6, <1>7, <1>12, View
<1>14. \A j \in 1..i - 1 : TargetView[j] # 0
  <2> TAKE j \in 1..i - 1
  <2>1. j \in DOMAIN fds /\ fds[j] # NoFd /\ ~Closing(j)  BY <1>7, <1>8
  <2>2. CASE j - 1 \in doubted  BY <2>1, <2>2, View
  <2>3. CASE j - 1 \notin doubted
    <3>1. j \in Sure  BY <2>1, <2>3 DEF Sure, Closing
    <3> QED  BY <2>1, <3>1, View
  <2> QED  BY <2>2, <2>3
<1>15. TargetView' = IF i <= Len(TargetView) THEN [TargetView EXCEPT ![i] = LastOpened']
                     ELSE Append(TargetView, LastOpened')
  <2>1. CASE i <= Len(TargetView)
    <3>1. DOMAIN fds \cup {i} = DOMAIN TargetView /\ i \in DOMAIN TargetView
      BY <1>6, <1>12, <2>1
    <3> QED  BY <1>5, <1>11, <2>1, <3>1
  <2>2. CASE ~(i <= Len(TargetView))
    <3>1. i = Len(TargetView) + 1  BY <1>6, <1>12, <2>2
    <3>2. DOMAIN fds \cup {i} = 1..Len(TargetView) + 1  BY <1>6, <1>12, <3>1
    <3>3. Append(TargetView, opened) =
            [j \in 1..Len(TargetView) + 1 |-> IF j = i THEN opened ELSE TargetView[j]]
      <4> DEFINE longer == Append(TargetView, opened)
      <4>1. /\ longer \in Seq(Int) /\ Len(longer) = Len(TargetView) + 1
            /\ longer[Len(TargetView) + 1] = opened
            /\ \A j \in 1..Len(TargetView) : longer[j] = TargetView[j]
        BY <1>3, <1>12
      <4>2. longer = [j \in 1..Len(TargetView) + 1 |-> longer[j]]
        <5> HIDE DEF longer
        <5> QED  BY <4>1
      <4>3. \A j \in 1..Len(TargetView) + 1 : j = i \/ j \in 1..Len(TargetView)
        BY <1>6, <1>12, <3>1
      <4>4. i \notin 1..Len(TargetView) /\ longer[i] = opened  BY <1>6, <1>12, <3>1, <4>1
      <4>5. \A j \in 1..Len(TargetView) + 1 :
              longer[j] = IF j = i THEN opened ELSE TargetView[j]
        BY <4>1, <4>3, <4>4
      <4> QED
        <5> HIDE DEF longer
        <5>1. longer = [j \in 1..Len(TargetView) + 1 |->
                          IF j = i THEN opened ELSE TargetView[j]]
          BY <4>2, <4>5
        <5> QED  BY <5>1 DEF longer
    <3> QED  BY <1>5, <1>11, <2>2, <3>2, <3>3
  <2> QED  BY <2>1, <2>2
<1>16. i \in 1..Len(TargetView) + 1 /\ LastOpened' > LastOpened /\ reply'.file = LastOpened'
  BY <1>2, <1>3, <1>5, <1>12
<1> QED  BY <1>13, <1>14, <1>15, <1>16, Opens

LEMMA CloseRefines ==
  ASSUME Inv, ~misused, ~misused', UNCHANGED misused, NEW n \in Numbers, Close(n)
  PROVE  Promised!Next
<1>1. /\ UNCHANGED <<opened, fds>> /\ reply'.file = 0
      /\ n \notin doubted /\ call = Idle /\ call.op = "none"
  BY IdleCall DEF Close, DispatchChange, Dispatch, Naming, NoReply
<1>2. CASE UNCHANGED <<host, call, doubted>>
  <2>1. UNCHANGED <<TargetView, LastOpened>>
    BY <1>1, <1>2, ViewKept DEF LastOpened, Closing
  <2>2. LastOpened' >= LastOpened  BY <2>1 DEF LastOpened, Inv, TypeOK
  <2> QED  BY <1>1, <2>1, <2>2, ReachesNone
<1>3. ASSUME FileOf(n) # 0, NEW left \in Nat, host' = [host EXCEPT ![lookup(n)] = left],
             \/ left = 0 /\ call' = [op |-> "close", n |-> n] /\ doubted' = doubted
             \/ call' = call /\ doubted' = doubted \cup {n}
      PROVE  Promised!Next
  <2>1. PICK fd \in HostFds : lookup(n) = fd  BY <1>3 DEF FileOf
  <2>2. n \in Nat /\ n + 1 \in DOMAIN fds /\ fds[n + 1] = fd /\ fd # NoFd
    BY <2>1, Named DEF Inv
  <2>3. n + 1 \in Sure  BY <1>1, <2>2 DEF Sure
  <2>4. TargetView[n + 1] \notin {0, -1}  BY <2>2, <2>3, View
  <2>5. \A j \in DOMAIN fds : j - 1 = n <=> j = n + 1  BY <2>2 DEF Inv, TypeOK
  <2>6. PICK result \in {0, -1} :
          \/ result = 0 /\ call' = [op |-> "close", n |-> n] /\ doubted' = doubted
          \/ result = -1 /\ call' = call /\ doubted' = doubted \cup {n}
    BY <1>3
  <2>7. \A j \in Sure : j # n + 1 => host'[fds[j]] = host[fds[j]]
    <3>1. \A j \in Sure : j # n + 1 => fds[j] # fd
      BY <2>2, <2>3 DEF Inv, OneOwner
    <3> QED  BY <1>3, <2>1, <3>1
  <2>8. TargetView' = [TargetView EXCEPT ![n + 1] = result]
    <3> DEFINE Entry(j) == IF fds[j] = NoFd \/ Closing(j)' THEN 0
                           ELSE IF j - 1 \in doubted' THEN -1
                           ELSE host'[fds[j]]
    <3>1. TargetView' = [j \in DOMAIN fds |-> Entry(j)]
      BY <1>1 DEF TargetView, Closing
    <3>2. Entry(n + 1) = result
      <4>1. (n + 1) - 1 = n  BY <2>2
      <4>2. CASE result = 0
        <5>1. call' = [op |-> "close", n |-> n]  BY <2>6, <4>2
        <5>2. Closing(n + 1)'  BY <4>1, <5>1 DEF Closing
        <5> QED  BY <4>2, <5>2
      <4>3. CASE result = -1
        <5>1. ~Closing(n + 1)'  BY <1>1, <2>6, <4>3 DEF Closing
        <5> QED  BY <2>2, <2>6, <4>1, <4>3, <5>1
      <4> QED  BY <4>2, <4>3
    <3>3. ASSUME NEW j \in DOMAIN fds, j # n + 1 PROVE Entry(j) = TargetView[j]
      <4>1. j - 1 # n  BY <2>5, <3>3
      <4>2. ~Closing(j)' /\ ~Closing(j)  BY <1>1, <2>6, <4>1 DEF Closing
      <4>3. j - 1 \in doubted' <=> j - 1 \in doubted  BY <2>6, <4>1
      <4>4. fds[j] = NoFd \/ j - 1 \in doubted \/ j \in Sure  BY <1>1 DEF Sure
      <4>5. TargetView[j] = IF fds[j] = NoFd THEN 0 ELSE IF j - 1 \in doubted THEN -1
                            ELSE host[fds[j]]
        BY <4>2 DEF TargetView, Closing
      <4> QED  BY <2>7, <3>3, <4>2, <4>3, <4>4, <4>5
    <3>4. DOMAIN TargetView = DOMAIN fds /\ TargetView = [j \in DOMAIN fds |-> TargetView[j]]
      BY DEF TargetView
    <3> QED
      <4> HIDE DEF Entry
      <4> QED  BY <2>2, <3>1, <3>2, <3>3, <3>4
  <2>9. UNCHANGED LastOpened  BY <1>1, <2>6 DEF LastOpened
  <2> QED  BY <1>1, <2>2, <2>4, <2>8, <2>9, Closes
<1>4. FileOf(n) # 0 => FileOf(n) \in Nat  BY DEF FileOf, Inv, TypeOK
<1> QED  BY <1>2, <1>3, <1>4 DEF Close

\* The table's half of close takes no part of the view with it.
LEMMA DeallocRefines ==
  ASSUME Inv, ~misused, Dealloc
  PROVE  UNCHANGED <<TargetView, LastOpened, reply.file>>
<1>1. PICK n \in Nat : call.op = "close" /\ call.n = n
  BY CallShapes DEF Dealloc, Inv, TypeOK
<1>2. /\ fds' = [fds EXCEPT ![n + 1] = NoFd] /\ call'.op = "none"
      /\ UNCHANGED <<host, opened, doubted, reply>>
  BY <1>1, IdleCall DEF Dealloc, dealloc, kernel, promise
<1>3. DOMAIN fds' = DOMAIN fds  BY <1>2
<1> DEFINE Entry(j) == IF fds[j] = NoFd \/ (call.op = "close" /\ call.n = j - 1) THEN 0
                       ELSE IF j - 1 \in doubted THEN -1
                       ELSE host[fds[j]]
<1>4. ASSUME NEW j \in DOMAIN fds PROVE Entry(j)' = Entry(j)
  <2>1. j - 1 = n <=> j = n + 1  BY DEF Inv, TypeOK
  <2>2. CASE j = n + 1
    <3>1. fds'[j] = NoFd  BY <1>2, <2>2
    <3> QED  BY <1>1, <2>1, <2>2, <3>1
  <2>3. CASE j # n + 1
    <3>1. fds'[j] = fds[j]  BY <1>2, <2>3
    <3> QED  BY <1>1, <1>2, <2>1, <2>3, <3>1
  <2> QED  BY <2>2, <2>3
<1>5. TargetView = [j \in DOMAIN fds |-> Entry(j)]
      /\ TargetView' = [j \in DOMAIN fds' |-> Entry(j)']
  BY DEF TargetView
<1>6. TargetView' = TargetView
  <2> HIDE DEF Entry
  <2> QED  BY <1>3, <1>4, <1>5
<1> QED  BY <1>1, <1>2, <1>6 DEF LastOpened

LEMMA SocketRefines ==
  ASSUME Inv, ~misused, OpenSocket \/ CloseSocket
  PROVE  UNCHANGED <<TargetView, LastOpened, reply.file>>
<1>1. UNCHANGED <<opened, fds, call, doubted, reply>>
  BY DEF OpenSocket, CloseSocket, promise
<1>2. \A i \in Sure : host'[fds[i]] = host[fds[i]]
  <2>1. CASE OpenSocket
    <3>1. PICK h \in HostFds : host[h] = 0 /\ host' = [host EXCEPT ![h] = Socket]
      BY <2>1 DEF OpenSocket, LowestFd
    <3> QED  BY <3>1, FreeNotSure
  <2>2. CASE CloseSocket
    <3>1. PICK h \in sockets : host' = [host EXCEPT ![h] = 0]  BY <2>2 DEF CloseSocket
    <3> QED  BY <3>1, SocketNotSure
  <2> QED  BY <2>1, <2>2
<1> QED  BY <1>1, <1>2, ViewKept DEF LastOpened, Closing

LEMMA NotTakenBack ==
  ASSUME misused \in BOOLEAN, [Next]_vars
  PROVE  misused' \in BOOLEAN /\ (misused => misused')
<1>1. ASSUME NEW ns, Naming(ns) PROVE misused' \in BOOLEAN /\ (misused => misused')
  BY <1>1 DEF Naming
<1> QED  BY <1>1, PromiseSteps

-------------------------------------------------------------------------------
(* Between the halves.                                                       *)

LEMMA HalvesKept ==
  ASSUME Halves, misused => misused', UNCHANGED <<opened, fds, doubted>>,
         \A i : Closing(i)' => Closing(i),
         ~misused /\ call'.op = "openat" =>
           call.op = "openat" /\ call'.fd = call.fd /\ host'[call.fd] = host[call.fd]
  PROVE  Halves'
BY DEF Halves

LEMMA HalvesInit == Init => Halves
BY DEF Init, Halves

LEMMA HalvesStep == Inv /\ Halves /\ [Next]_vars => Halves'
<1> SUFFICES ASSUME Inv, Halves, [Next]_vars PROVE Halves'  OBVIOUS
<1>0. misused => misused'  BY NotTakenBack DEF Inv, TypeOK
<1>1. CASE UNCHANGED <<host, opened, fds, call, doubted>>
  BY <1>0, <1>1, HalvesKept DEF Closing
\* chdir, exit and the options.
<1>2. ASSUME UNCHANGED <<kernel, fds, doubted>>, call'.op \notin {"openat", "close"}
      PROVE  Halves'
  BY <1>0, <1>2, HalvesKept DEF kernel, Closing
<1>3. ASSUME NEW n \in Numbers, Dup(n) PROVE Halves'
  <2>1. UNCHANGED <<opened, fds, call, doubted>> /\ call.op = "none"
    BY <1>3, IdleCall DEF Dup, DispatchChange, Dispatch
  <2> QED  BY <1>0, <2>1, HalvesKept DEF Closing
<1>4. ASSUME NEW at \in At, Openat(at) PROVE Halves'
  <2>1. UNCHANGED <<fds, doubted>> /\ call.op = "none"
    BY <1>4, IdleCall DEF Openat, DispatchChange, Dispatch
  <2>2. ASSUME NEW h \in HostFds, host' = [host EXCEPT ![h] = opened'],
               call' = [op |-> "openat", fd |-> h]
        PROVE  Halves'
    <3>1. call'.op = "openat" /\ call'.fd = h /\ host'[h] = opened'
      BY <2>2 DEF Inv, TypeOK
    <3> QED  BY <1>0, <2>1, <3>1 DEF Halves, Closing
  <2> QED  BY <1>1, <1>4, <2>1, <2>2 DEF Openat
<1>5. ASSUME Alloc PROVE Halves'
  <2>1. PICK fd \in HostFds : call.op = "openat" /\ call.fd = fd
    BY <1>5, CallShapes DEF Alloc, Inv, TypeOK
  <2>2. PICK i \in 1..Len(fds) + 1 : fds' = Put(i, fd)  BY <1>5, <2>1 DEF Alloc
  <2>3. /\ DOMAIN fds' = DOMAIN fds \cup {i} /\ fds'[i] = fd /\ fd # NoFd
        /\ \A j \in DOMAIN fds : j # i => fds'[j] = fds[j]
    <3>1. fd # NoFd  BY SyscallConstants DEF NoFd
    <3> QED  BY <2>2, <3>1, PutTable DEF Inv
  <2>4. call'.op = "none" /\ doubted' = doubted  BY <1>5, IdleCall DEF Alloc, promise
  <2> QED  BY <1>0, <2>3, <2>4 DEF Halves, Closing
<1>6. ASSUME NEW n \in Numbers, Close(n) PROVE Halves'
  <2>1. fds' = fds /\ call.op = "none" /\ (~misused' => n \notin doubted)
    BY <1>6, IdleCall DEF Close, DispatchChange, Dispatch, Naming
  <2>2. CASE UNCHANGED <<host, call, doubted>>
    <3>1. opened' = opened  BY <1>6 DEF Close
    <3> QED  BY <1>1, <2>1, <2>2, <3>1
  <2>3. ASSUME FileOf(n) # 0,
               \/ call' = [op |-> "close", n |-> n] /\ doubted' = doubted
               \/ call' = call /\ doubted' = doubted \cup {n}
        PROVE  Halves'
    <3>1. n \in Nat /\ n + 1 \in DOMAIN fds /\ fds[n + 1] # NoFd
      BY <2>3, Named DEF FileOf, Inv
    <3>2. call'.op # "openat"  BY <2>1, <2>3
    <3>3. CASE doubted' = doubted /\ call' = [op |-> "close", n |-> n]
      <4>1. ASSUME ~misused', NEW m \in doubted PROVE ~Closing(m + 1)'
        <5>1. m # n /\ m \in Nat  BY <2>1, <4>1 DEF Inv, TypeOK
        <5>2. (m + 1) - 1 = m  BY <5>1
        <5>3. call'.n = n  BY <3>3
        <5> QED  BY <5>1, <5>2, <5>3 DEF Closing
      <4> QED  BY <1>0, <2>1, <3>2, <3>3, <4>1 DEF Halves
    <3>4. CASE doubted' = doubted \cup {n} /\ call' = call
      <4>1. \A m : ~Closing(m)'  BY <2>1, <3>4 DEF Closing
      <4> QED  BY <1>0, <2>1, <3>1, <3>2, <3>4, <4>1 DEF Halves
    <3> QED  BY <2>3, <3>3, <3>4
  <2> QED  BY <1>6, <2>2, <2>3 DEF Close
<1>7. ASSUME Dealloc PROVE Halves'
  <2>1. PICK n \in Nat : call.op = "close" /\ call.n = n
    BY <1>7, CallShapes DEF Dealloc, Inv, TypeOK
  <2>2. fds' = [fds EXCEPT ![n + 1] = NoFd] /\ call'.op = "none" /\ doubted' = doubted
    BY <1>7, <2>1, IdleCall DEF Dealloc, dealloc, promise
  <2>3. ASSUME ~misused', NEW m \in doubted
        PROVE  m + 1 \in DOMAIN fds' /\ fds'[m + 1] # NoFd
    <3>1. m + 1 \in DOMAIN fds /\ fds[m + 1] # NoFd /\ ~Closing(m + 1)
      BY <1>0, <2>3 DEF Halves
    <3>2. m \in Nat /\ (m + 1) - 1 = m  BY <2>3 DEF Inv, TypeOK
    <3>3. m # n  BY <2>1, <3>1, <3>2 DEF Closing
    <3> QED  BY <2>2, <3>1, <3>2, <3>3
  <2> QED  BY <1>0, <2>2, <2>3 DEF Halves, Closing
<1>8. ASSUME OpenSocket \/ CloseSocket PROVE Halves'
  <2>1. UNCHANGED <<opened, fds, call, doubted>>
    BY <1>8 DEF OpenSocket, CloseSocket, promise
  <2>2. ASSUME ~misused, call.op = "openat" PROVE host'[call.fd] = host[call.fd]
    <3>1. call.fd \in HostFds  BY <2>2, CallShapes DEF Inv, TypeOK
    <3>2. Owned(call.fd) /\ Holds("call", call.fd)
      BY <2>2, <3>1 DEF Inv, OneOwner, Holds
    <3>3. host[call.fd] # 0 /\ call.fd \notin sockets
      <4>1. ~Holds("rfb", call.fd)  BY <3>2 DEF Owned, Holders
      <4> QED  BY <3>2, <4>1 DEF Owned, Holds, Holders
    <3> QED  BY <1>8, <3>1, <3>3 DEF OpenSocket, CloseSocket, LowestFd, Inv, TypeOK
  <2> QED  BY <1>0, <2>1, <2>2, HalvesKept DEF Closing
<1>9. ASSUME NEW fn \in Names, Chdir(fn) PROVE Halves'
  <2>1. UNCHANGED <<kernel, fds, doubted>> /\ call'.op = "chdir"  BY <1>9 DEF Chdir, promise
  <2> QED  BY <1>2, <2>1
<1>10. ASSUME CountByte \/ CopyByte \/ Store PROVE Halves'
  <2>1. UNCHANGED <<kernel, fds, doubted>> /\ call.op = "chdir"
    BY <1>10 DEF CountByte, CopyByte, Store, promise
  <2>2. call \in ChdirCalls  BY <2>1, CallShapes DEF Inv, TypeOK
  <2>3. call'.op \in {"chdir", "overrun"}
    BY <1>10, <2>1, <2>2 DEF CountByte, CopyByte, Store, ChdirCalls
  <2> QED  BY <1>2, <2>1, <2>3
<1>11. ASSUME ChangeDir \/ Serve \/ Exit PROVE Halves'
  <2>1. UNCHANGED <<kernel, fds, doubted>> /\ call'.op \in {"none", "exit"}
    BY <1>11, IdleCall DEF ChangeDir, Serve, Exit, promise
  <2> QED  BY <1>2, <2>1
<1>12. ASSUME NEW where \in Roots, set_chroot(where) PROVE Halves'
  <2>1. UNCHANGED <<kernel, fds, doubted>> /\ call.op = "options"
        /\ (call' = call \/ call' = [op |-> "exit"])
    BY <1>12 DEF set_chroot, promise
  <2>2. call'.op \in {"options", "exit"}  BY <2>1
  <2> QED  BY <1>2, <2>1, <2>2
<1>13. CASE Quiet \/ UNCHANGED vars
  <2>1. UNCHANGED <<kernel, fds, call, doubted>>
    BY <1>13, QuietKeeps DEF vars, promise
  <2> QED  BY <1>1, <2>1 DEF kernel
<1> QED
  BY <1>3, <1>4, <1>5, <1>6, <1>7, <1>8, <1>9, <1>10, <1>11, <1>12, <1>13
  DEF Next, FileCall, NameCall, OtherCall, Quiet

-------------------------------------------------------------------------------

LEMMA InitRefines == Init => Promised!Init
<1> SUFFICES ASSUME Init PROVE Promised!Init  OBVIOUS
<1>1. /\ fds = <<3, 4, 5>> /\ call.op = "options" /\ doubted = {} /\ opened = 4
      /\ misused = FALSE /\ reply.file = 0
  BY DEF Init, Socket, NoReply
<1>2. host[3] = 1 /\ host[4] = 2 /\ host[5] = 2
  <2>1. 3 \in HostFds /\ 4 \in HostFds /\ 5 \in HostFds  BY SyscallConstants
  <2>2. Std[4] = 1 /\ Std[5] = 2 /\ Std[6] = 2  BY DEF Std, Stdin, Stdout
  <2> QED  BY <2>1, <2>2 DEF Init
<1>3. TargetView = [i \in 1..3 |-> host[i + 2]]
  <2>1. DOMAIN fds = 1..3 /\ \A i \in 1..3 : fds[i] = i + 2 /\ i + 2 # NoFd
    BY <1>1 DEF NoFd
  <2> QED  BY <1>1, <2>1 DEF TargetView
<1>4. TargetView = <<1, 2, 2>>
  <2>1. /\ TargetView[1] = 1 /\ TargetView[2] = 2 /\ TargetView[3] = 2
        /\ DOMAIN TargetView = 1..3
    BY <1>2, <1>3
  <2>2. TargetView = [i \in 1..3 |-> TargetView[i]]  BY <1>3
  <2>3. \A i \in 1..3 : i = 1 \/ i = 2 \/ i = 3  OBVIOUS
  <2> QED  BY <2>1, <2>2, <2>3
<1> QED  BY <1>1, <1>4 DEF Promised!Init, Promised!Closed

LEMMA StepRefines == Inv /\ Halves /\ [Next]_vars => [Promised!Next]_Promised!vars
<1> SUFFICES ASSUME Inv, Halves, [Next]_vars
             PROVE  Promised!Next \/ UNCHANGED Promised!vars
  OBVIOUS
<1>1. misused \in BOOLEAN /\ misused' \in BOOLEAN /\ (misused => misused')
  BY NotTakenBack DEF Inv, TypeOK
<1>2. CASE misused
  BY <1>1, <1>2, Stutters
<1>3. CASE ~misused /\ misused'
  <2>1. PICK ns : Naming(ns)  BY <1>3, PromiseSteps
  <2>2. PICK n \in doubted : n \in ns  BY <1>3, <2>1 DEF Naming
  <2>3. n + 1 \in DOMAIN fds /\ fds[n + 1] # NoFd /\ ~Closing(n + 1)  BY <1>3 DEF Halves
  <2>4. n \in Nat /\ (n + 1) - 1 = n  BY DEF Inv, TypeOK
  <2>5. TargetView[n + 1] = -1  BY <1>3, <2>3, <2>4, View
  <2> QED  BY <1>3, <2>3, <2>5, Ends
<1>4. CASE ~misused /\ ~misused'
  <2>0. UNCHANGED misused  BY <1>1, <1>4
  <2>1. ASSUME UNCHANGED <<TargetView, LastOpened, reply.file>>
        PROVE  UNCHANGED Promised!vars
    BY <2>0, <2>1, Stutters
  <2>2. Quiet => Promised!Next  BY <1>4, <2>0, QuietRefines
  <2>3. \A n \in Numbers : Dup(n) => Promised!Next  BY <1>4, <2>0, DupRefines
  <2>4. \A n \in Numbers : Close(n) => Promised!Next  BY <1>4, <2>0, CloseRefines
  <2>5. \A at \in At : Openat(at) => Promised!Next  BY <1>4, <2>0, OpenatRefines
  <2>6. Alloc => Promised!Next  BY <1>4, <2>0, AllocRefines
  <2>7. Dealloc => UNCHANGED Promised!vars  BY <1>4, <2>1, DeallocRefines
  <2>8. OpenSocket \/ CloseSocket => UNCHANGED Promised!vars
    BY <1>4, <2>1, SocketRefines
  \* The others leave the descriptors alone and are neither an openat nor a close.
  <2>9. ASSUME UNCHANGED <<kernel, fds, promise>>, Between(call.op), Between(call'.op),
               reply' = reply \/ reply'.file = 0
        PROVE  Promised!Next \/ UNCHANGED Promised!vars
    <3>1. UNCHANGED <<TargetView, LastOpened>>
      BY <2>9, ViewKept DEF kernel, promise, Between, Closing, LastOpened
    <3>2. LastOpened' >= LastOpened  BY <3>1 DEF LastOpened, Inv, TypeOK
    <3> QED  BY <1>4, <2>0, <2>1, <2>9, <3>1, <3>2, ReachesNone
  <2>10. ASSUME NEW fn \in Names, Chdir(fn)
         PROVE  Promised!Next \/ UNCHANGED Promised!vars
    <3>1. /\ UNCHANGED <<kernel, fds, promise>> /\ reply'.file = 0
          /\ Between(call.op) /\ Between(call'.op)
      BY <2>10, IdleCall DEF Chdir, DispatchChange, Dispatch, Between, NoReply
    <3> QED  BY <2>9, <3>1
  <2>11. ASSUME CountByte \/ CopyByte \/ Store
         PROVE  Promised!Next \/ UNCHANGED Promised!vars
    <3>1. UNCHANGED <<kernel, fds, reply, promise>> /\ call.op = "chdir"
      BY <2>11 DEF CountByte, CopyByte, Store
    <3>2. call \in ChdirCalls  BY <3>1, CallShapes DEF Inv, TypeOK
    <3>3. call'.op \in {"chdir", "overrun"}
      BY <2>11, <3>1, <3>2 DEF CountByte, CopyByte, Store, ChdirCalls
    <3> QED  BY <2>9, <3>1, <3>3 DEF Between
  <2>12. ASSUME ChangeDir PROVE Promised!Next \/ UNCHANGED Promised!vars
    <3>1. /\ UNCHANGED <<kernel, fds, promise>> /\ reply'.file = 0
          /\ Between(call.op) /\ Between(call'.op)
      BY <2>12, IdleCall DEF ChangeDir, Between, NoReply
    <3> QED  BY <2>9, <3>1
  <2>13. ASSUME Serve \/ Exit PROVE Promised!Next \/ UNCHANGED Promised!vars
    <3>1. /\ UNCHANGED <<kernel, fds, reply, promise>>
          /\ Between(call.op) /\ Between(call'.op)
      BY <2>13, IdleCall DEF Serve, Exit, Dispatch, Between
    <3> QED  BY <2>9, <3>1
  <2>14. ASSUME NEW where \in Roots, set_chroot(where)
         PROVE  Promised!Next \/ UNCHANGED Promised!vars
    <3>1. /\ UNCHANGED <<kernel, fds, reply, promise>> /\ call.op = "options"
          /\ (call' = call \/ call' = [op |-> "exit"])
      BY <2>14 DEF set_chroot
    <3>2. Between(call.op) /\ Between(call'.op)  BY <3>1 DEF Between
    <3> QED  BY <2>9, <3>1, <3>2
  <2>15. CASE UNCHANGED vars
    <3>1. UNCHANGED <<kernel, fds, call, reply, promise>>  BY <2>15 DEF vars
    <3>2. UNCHANGED <<TargetView, LastOpened>>
      BY <3>1, ViewKept DEF kernel, promise, Closing, LastOpened
    <3> QED  BY <2>1, <3>1, <3>2
  <2> QED
    BY <2>2, <2>3, <2>4, <2>5, <2>6, <2>7, <2>8, <2>10, <2>11, <2>12, <2>13, <2>14, <2>15
    DEF Next, FileCall, NameCall, OtherCall, Quiet
<1> QED  BY <1>1, <1>2, <1>3, <1>4

\* fds_t keeps what Descriptors promises, for every sequence of calls and whatever
\* the thread of rfb_t does between the halves of an openat or a close.
THEOREM ImplementsDescriptorsTheorem == Spec => ImplementsDescriptors
<1>1. Spec => []Halves
  BY Invariance, HalvesInit, HalvesStep, PTL DEF Spec
<1> QED
  BY <1>1, Invariance, InitRefines, StepRefines, PTL
  DEF Spec, ImplementsDescriptors, Promised!Spec

-------------------------------------------------------------------------------
(* getmainvars.                                                             *)

\* Where the arguments lie: ArgEnd is the recursive function it says it is.
LEMMA ArgEndSum ==
  ASSUME targs \in Seq(Seq(STRING))
  PROVE  /\ ArgEnd \in [0..Len(targs) -> Nat] /\ ArgEnd[0] = ArgsAt /\ ArgsAt \in Nat
         /\ \A i \in 1..Len(targs) : ArgEnd[i] = ArgEnd[i - 1] + (Len(targs[i]) + 1)
<1> DEFINE n == Len(targs)
           step == [i \in 1..n |-> [before \in Nat |-> before + Len(targs[i]) + 1]]
           Body(f) == [i \in 0..n |-> IF i = 0 THEN ArgsAt ELSE f[i - 1] + Len(targs[i]) + 1]
<1>1. ArgEnd = CHOOSE f : f = Body(f)  BY DEF ArgEnd
<1>2. n \in Nat /\ ArgsAt \in Nat  BY DEF ArgsAt, WordBytes
<1>3. \A i \in 1..n : Len(targs[i]) \in Nat  OBVIOUS
<1>4. step \in [1..n -> [Nat -> Nat]]
  <2>1. \A i \in 1..n, before \in Nat : before + Len(targs[i]) + 1 \in Nat  BY <1>3
  <2> QED  BY <2>1
<1>5. \E f : f = Body(f)
  <2>1. PICK f \in [0..n -> Nat] : Follows(f, ArgsAt, step, n)
    <3> HIDE DEF step, n
    <3> QED  BY <1>2, <1>4, Recursion
  <2>2. \A i \in 1..n, before \in Nat : step[i][before] = before + Len(targs[i]) + 1
    OBVIOUS
  <2> HIDE DEF step
  <2>3. ASSUME NEW i \in 1..n PROVE f[i] = f[i - 1] + Len(targs[i]) + 1
    <3>1. i - 1 \in 0..n  BY <1>2
    <3> QED  BY <2>1, <2>2, <3>1 DEF Follows
  <2>4. \A i \in 0..n : i = 0 \/ i \in 1..n  BY <1>2
  <2>5. \A i \in 0..n : f[i] = IF i = 0 THEN ArgsAt ELSE f[i - 1] + Len(targs[i]) + 1
    BY <2>1, <2>3, <2>4 DEF Follows
  <2>6. f = [i \in 0..n |-> f[i]]  OBVIOUS
  <2>7. f = Body(f)  BY <2>5, <2>6
  <2> QED  BY <2>7
<1>6. ArgEnd = Body(ArgEnd)
  <2> HIDE DEF Body
  <2> QED  BY <1>1, <1>5, Zenon
<1>7. ArgEnd = [i \in 0..n |-> ArgEnd[i]]
  <2>1. \A G : G = Body(G) => G = [i \in 0..n |-> G[i]]  OBVIOUS
  <2> HIDE DEF Body
  <2> QED  BY <1>6, <2>1
<1>8. \A i \in 0..n : ArgEnd[i] = IF i = 0 THEN ArgsAt ELSE ArgEnd[i - 1] + Len(targs[i]) + 1
  <2>1. \A G : G = Body(G) =>
          \A i \in 0..n : G[i] = IF i = 0 THEN ArgsAt ELSE G[i - 1] + Len(targs[i]) + 1
    OBVIOUS
  <2> HIDE DEF Body
  <2> QED  BY <1>6, <2>1
<1> HIDE DEF Body
<1>9. ASSUME NEW i \in 0..n PROVE ArgEnd[i] \in Nat
  <2> DEFINE Bad == {j \in 0..n : ArgEnd[j] \notin Nat}
  <2> SUFFICES ASSUME Bad # {} PROVE FALSE  OBVIOUS
  <2>1. PICK m \in Bad : \A k \in Bad : m <= k
    <3>1. Bad \subseteq Nat  BY <1>2
    <3> HIDE DEF Bad
    <3> QED  BY <3>1, Least
  <2>2. CASE m = 0  BY <1>2, <1>8, <2>2
  <2>3. CASE m # 0
    <3>1. m \in 1..n /\ m - 1 \in 0..n /\ ~(m <= m - 1)  BY <1>2, <2>3
    <3>2. ArgEnd[m - 1] \in Nat  BY <2>1, <3>1
    <3>3. ArgEnd[m] = ArgEnd[m - 1] + Len(targs[m]) + 1  BY <1>8, <2>3
    <3>4. Len(targs[m]) \in Nat  BY <1>3, <3>1
    <3> QED  BY <3>2, <3>3, <3>4
  <2> QED  BY <2>2, <2>3
<1>10. ASSUME NEW i \in 1..n PROVE ArgEnd[i] = ArgEnd[i - 1] + (Len(targs[i]) + 1)
  <2>1. i \in 0..n /\ i # 0 /\ i - 1 \in 0..n  BY <1>2
  <2>2. ArgEnd[i - 1] \in Nat /\ Len(targs[i]) \in Nat  BY <1>3, <1>9, <2>1
  <2>3. ArgEnd[i] = ArgEnd[i - 1] + Len(targs[i]) + 1  BY <1>8, <2>1
  <2> QED  BY <2>2, <2>3
<1>11. ArgEnd[0] = ArgsAt  BY <1>2, <1>8
<1> QED  BY <1>2, <1>7, <1>9, <1>10, <1>11

\* The strings lie one behind the other.
LEMMA ArgsApart ==
  ASSUME targs \in Seq(Seq(STRING)), NEW i \in 1..Len(targs), NEW k \in i..Len(targs)
  PROVE  ArgEnd[i] <= ArgEnd[k]
<1>0. Len(targs) \in Nat  OBVIOUS
<1> DEFINE n == Len(targs)
           Bad == {j \in i..n : ~(ArgEnd[i] <= ArgEnd[j])}
<1> HIDE DEF n
<1>1. \A j \in 0..n : ArgEnd[j] \in Nat  BY ArgEndSum DEF n
<1> SUFFICES ASSUME Bad # {} PROVE FALSE  BY DEF n
<1>2. PICK m \in Bad : \A j \in Bad : m <= j
  <2>1. Bad \subseteq Nat  BY <1>0 DEF n
  <2> HIDE DEF Bad
  <2> QED  BY <2>1, Least
<1>3. m # i /\ i \in 1..n /\ m \in i..n  BY <1>0, <1>1 DEF n
<1>4. m - 1 \in i..n /\ m \in 1..n /\ m - 1 \in 0..n /\ m \in 0..n /\ i \in 0..n
  BY <1>0, <1>3 DEF n
<1>5. ~(m <= m - 1)  BY <1>4
<1>6. ArgEnd[i] <= ArgEnd[m - 1]  BY <1>2, <1>4, <1>5
<1>7. ArgEnd[m] = ArgEnd[m - 1] + (Len(targs[m]) + 1) /\ Len(targs[m]) \in Nat
  BY <1>4, ArgEndSum DEF n
<1>8. ArgEnd[i] \in Nat /\ ArgEnd[m - 1] \in Nat /\ ArgEnd[m] \in Nat  BY <1>1, <1>4
<1>9. ~(ArgEnd[i] <= ArgEnd[m])  OBVIOUS
<1>10. PICK x \in Nat, y \in Nat, z \in Nat, l \in Nat :
         x = ArgEnd[i] /\ y = ArgEnd[m - 1] /\ z = ArgEnd[m] /\ l = Len(targs[m])
  BY <1>7, <1>8
<1>11. x <= y /\ z = y + (l + 1) /\ ~(x <= z)  BY <1>6, <1>7, <1>9, <1>10
<1> QED  BY <1>11

\* What the operator MainVars gives: the words,
LEMMA MainVarsWords ==
  ASSUME targs \in Seq(Seq(STRING))
  PROVE  LET w == MainVars.words
         IN  /\ w[1] = Len(targs) /\ w[Len(targs) + 2] = 0
             /\ \A i \in 1..Len(targs) : w[i + 1] = VarsAt + ArgEnd[i - 1]
<1> DEFINE n == Len(targs)
           mid == [i \in 1..n |-> VarsAt + ArgEnd[i - 1]]
<1>1. n \in Nat /\ VarsAt \in Nat  BY SyscallConstants
<1>2. \A i \in 1..n : VarsAt + ArgEnd[i - 1] \in Nat
  <2>1. \A i \in 1..n : i - 1 \in 0..n  BY <1>1
  <2>2. \A j \in 0..n : ArgEnd[j] \in Nat  BY ArgEndSum
  <2>3. ASSUME NEW i \in 1..n PROVE VarsAt + ArgEnd[i - 1] \in Nat
    <3>1. PICK x \in Nat : x = ArgEnd[i - 1]  BY <2>1, <2>2
    <3>2. VarsAt + x \in Nat  BY <1>1
    <3> QED  BY <3>1, <3>2
  <2> QED  BY <2>3
<1>3. MainVars.words = <<n>> \o mid \o <<0, 0>>  BY DEF MainVars
<1> HIDE DEF n
<1>4. mid \in Seq(Nat) /\ Len(mid) = n  BY <1>1, <1>2
<1>5. \A i \in 1..n : mid[i] = VarsAt + ArgEnd[i - 1]  OBVIOUS
<1> HIDE DEF mid
<1>6. <<n>> \in Seq(Nat) /\ Len(<<n>>) = 1 /\ <<n>>[1] = n  BY <1>1
<1> DEFINE front == <<n>> \o mid
<1>7. front \in Seq(Nat) /\ Len(front) = n + 1 /\ front[1] = n
      /\ \A i \in 1..n : front[i + 1] = mid[i]
  BY <1>1, <1>4, <1>6
<1> HIDE DEF front
<1>8. MainVars.words = front \o <<0, 0>>  BY <1>3 DEF front
<1>9. <<0, 0>> \in Seq(Nat) /\ Len(<<0, 0>>) = 2 /\ <<0, 0>>[1] = 0  OBVIOUS
<1>10. /\ MainVars.words[1] = front[1]
       /\ \A i \in 1..n : MainVars.words[i + 1] = front[i + 1]
       /\ MainVars.words[n + 2] = 0
  BY <1>1, <1>7, <1>8, <1>9
<1> QED  BY <1>5, <1>7, <1>10 DEF n

\* and the bytes, where exactly one argument covers each byte of its own.
LEMMA MainVarsBytes ==
  ASSUME targs \in Seq(Seq(STRING)), NEW i \in 1..Len(targs), NEW k \in 0..Len(targs[i])
  PROVE  MainVars.bytes[ArgEnd[i - 1] + k] = Append(targs[i], "NUL")[k + 1]
<1> DEFINE n == Len(targs)
           o == ArgEnd[i - 1] + k
           copied == {j \in 1..n : ArgEnd[j - 1] <= o /\ o <= ArgEnd[j - 1] + Len(targs[j])}
<1>1. n \in Nat /\ i \in 1..n /\ \A j \in 1..n : j - 1 \in 0..n /\ j \in 0..n  OBVIOUS
<1>2. \A j \in 0..n : ArgEnd[j] \in Nat  BY ArgEndSum
<1>3. \A j \in 1..n : Len(targs[j]) \in Nat /\ ArgEnd[j] = ArgEnd[j - 1] + (Len(targs[j]) + 1)
  BY ArgEndSum
<1>4. \A j, l \in 1..n : j < l => ArgEnd[j] <= ArgEnd[l - 1]
  <2> SUFFICES ASSUME NEW j \in 1..n, NEW l \in 1..n, j < l PROVE ArgEnd[j] <= ArgEnd[l - 1]
    OBVIOUS
  <2>1. l - 1 \in j..n  OBVIOUS
  <2> QED  BY <2>1, ArgsApart
<1>5. copied = {i}
  <2>1. i \in copied
    <3>1. ArgEnd[i - 1] \in Nat /\ k \in Nat /\ k <= Len(targs[i]) /\ Len(targs[i]) \in Nat
      BY <1>1, <1>2, <1>3
    <3> QED  BY <1>1, <3>1
  <2>2. ASSUME NEW j \in copied PROVE j = i
    <3>1. j \in 1..n /\ j \in Nat /\ i \in Nat /\ k \in Nat  BY <1>1
    <3>2. PICK x \in Nat, lx \in Nat : x = ArgEnd[i - 1] /\ lx = Len(targs[i])
      BY <1>1, <1>2, <1>3
    <3>3. PICK y \in Nat, ly \in Nat : y = ArgEnd[j - 1] /\ ly = Len(targs[j])
      BY <1>1, <1>2, <1>3, <3>1
    <3>4. y <= x + k /\ x + k <= y + ly /\ k <= lx  BY <3>1, <3>2, <3>3
    <3>5. i < j => x + (lx + 1) <= y  BY <1>1, <1>3, <1>4, <3>1, <3>2, <3>3
    <3>6. j < i => y + (ly + 1) <= x  BY <1>1, <1>3, <1>4, <3>1, <3>2, <3>3
    <3> HIDE DEF copied, o
    <3> QED  BY <3>1, <3>4, <3>5, <3>6
  <2> HIDE DEF copied
  <2> QED  BY <2>1, <2>2
<1>6. Max({i}) = i
  <2>1. \A x \in {i} : (\A y \in {i} : x >= y) <=> x = i  BY <1>1
  <2> QED  BY <2>1 DEF Max
<1>7. o \in ArgsAt..ArgEnd[n] - 1
  <2>1. ArgEnd[0] = ArgsAt /\ ArgsAt \in Nat  BY ArgEndSum
  <2>2. ArgEnd[0] <= ArgEnd[i - 1]
    <3>1. CASE i = 1  BY <3>1, <1>1, <1>2
    <3>2. CASE i # 1
      <4>1. 1 \in 1..n /\ 1 < i  BY <1>1, <3>2
      <4>2. ArgEnd[1] <= ArgEnd[i - 1]  BY <1>1, <1>4, <4>1
      <4>3. ArgEnd[1] = ArgEnd[0] + (Len(targs[1]) + 1) /\ Len(targs[1]) \in Nat
        BY <1>3, <4>1
      <4>4. ArgEnd[0] \in Nat /\ ArgEnd[1] \in Nat /\ ArgEnd[i - 1] \in Nat  BY <1>1, <1>2
      <4> QED  BY <4>2, <4>3, <4>4
    <3> QED  BY <3>1, <3>2
  <2>3. ArgEnd[i] <= ArgEnd[n]
    <3>1. n \in i..n  BY <1>1
    <3> QED  BY <3>1, ArgsApart
  <2>4. PICK x \in Nat, y \in Nat, z \in Nat, l \in Nat :
          x = ArgEnd[i - 1] /\ y = ArgEnd[i] /\ z = ArgEnd[n] /\ l = Len(targs[i])
    <3>1. n \in 0..n /\ i \in 0..n /\ i - 1 \in 0..n  BY <1>1
    <3> QED  BY <1>1, <1>2, <1>3, <3>1
  <2>5. ArgsAt <= x /\ y <= z /\ y = x + (l + 1) /\ k \in Nat /\ k <= l
    BY <1>1, <1>3, <2>1, <2>2, <2>3, <2>4
  <2>6. x + k \in ArgsAt..z - 1  BY <2>1, <2>5
  <2> QED  BY <2>4, <2>6
<1>8. MainVars.bytes[o] = Append(targs[i], "NUL")[o - ArgEnd[i - 1] + 1]
  <2>1. copied # {} /\ Max(copied) = i  BY <1>5, <1>6
  <2>2. MainVars.bytes[o] = IF copied = {} THEN "NUL"
          ELSE Append(targs[Max(copied)], "NUL")[o - ArgEnd[Max(copied) - 1] + 1]
    <3> HIDE DEF o
    <3> QED  BY <1>7 DEF MainVars
  <2> HIDE DEF copied, o
  <2> QED  BY <2>1, <2>2
<1>9. o - ArgEnd[i - 1] + 1 = k + 1
  <2>1. PICK x \in Nat : x = ArgEnd[i - 1]  BY <1>1, <1>2
  <2>2. k \in Nat  BY <1>1, <1>3
  <2>3. (x + k) - x + 1 = k + 1  BY <2>2
  <2> QED  BY <2>1, <2>3
<1> QED  BY <1>8, <1>9

\* getmainvars: main finds its arguments in what MainVars puts in the buffer.
LEMMA MainVarsRead ==
  ASSUME targs \in Seq(Seq(STRING)), reply.buf = MainVars
  PROVE  MainVarsReadable
<1> DEFINE argc == Len(targs)
           w == MainVars.words
           b == MainVars.bytes
<1>1. /\ w[1] = argc /\ w[argc + 2] = 0
      /\ \A i \in 1..argc : w[i + 1] = VarsAt + ArgEnd[i - 1]
  BY MainVarsWords
<1>2. ASSUME NEW i \in 1..argc
      PROVE  LET start == w[i + 1] - VarsAt
             IN  /\ \A k \in 1..Len(targs[i]) : b[start + k - 1] = targs[i][k]
                 /\ b[start + Len(targs[i])] = "NUL"
  <2> DEFINE start == w[i + 1] - VarsAt
  <2>0. targs[i] \in Seq(STRING) /\ Len(targs[i]) \in Nat  OBVIOUS
  <2>1. PICK x \in Nat : x = ArgEnd[i - 1]
    <3>1. i - 1 \in 0..argc  OBVIOUS
    <3> QED  BY <3>1, ArgEndSum
  <2>2. start = x
    <3>1. (VarsAt + x) - VarsAt = x  BY SyscallConstants
    <3> HIDE DEF w
    <3> QED  BY <1>1, <2>1, <3>1
  <2>3. \A k \in 0..Len(targs[i]) : b[x + k] = Append(targs[i], "NUL")[k + 1]
    BY <2>1, MainVarsBytes
  <2> HIDE DEF b, start
  <2>4. ASSUME NEW k \in 1..Len(targs[i]) PROVE b[start + k - 1] = targs[i][k]
    <3>1. k - 1 \in 0..Len(targs[i]) /\ (k - 1) + 1 = k /\ x + (k - 1) = x + k - 1
      BY <2>0, <2>1
    <3>2. Append(targs[i], "NUL")[k] = targs[i][k]  BY <2>0
    <3> QED  BY <2>2, <2>3, <3>1, <3>2
  <2>5. b[start + Len(targs[i])] = "NUL"
    <3>1. Len(targs[i]) \in 0..Len(targs[i])  BY <2>0
    <3>2. Append(targs[i], "NUL")[Len(targs[i]) + 1] = "NUL"  BY <2>0
    <3> QED  BY <2>2, <2>3, <3>1, <3>2
  <2> QED  BY <2>4, <2>5 DEF start
<1> HIDE DEF w, b
<1>3. (reply.buf.words = w) /\ (reply.buf.bytes = b)  BY DEF w, b
<1> QED  BY <1>1, <1>2, <1>3 DEF MainVarsReadable

\* The last answer to getmainvars is what the arguments say, as those never change.
MainVarsInv ==
  /\ DOMAIN reply = DOMAIN NoReply
  /\ reply.op = "getmainvars" /\ reply.ret = 0 => reply.buf = MainVars

LEMMA MainVarsInit == Init => MainVarsInv
BY DEF Init, NoReply, MainVarsInv

LEMMA MainVarsStep == MainVarsInv /\ [Next]_vars => MainVarsInv'
<1> SUFFICES ASSUME MainVarsInv, [Next]_vars PROVE MainVarsInv'  OBVIOUS
<1> DEFINE Other == DOMAIN reply' = DOMAIN NoReply /\ reply'.op # "getmainvars"
<1>1. ASSUME UNCHANGED <<reply, targs>> PROVE MainVarsInv'
  <2>1. MainVars' = MainVars  BY <1>1 DEF MainVars, ArgEnd, ArgsAt
  <2> QED  BY <1>1, <2>1 DEF MainVarsInv
<1>2. ASSUME Other PROVE MainVarsInv'  BY <1>2 DEF MainVarsInv
<1>3. ASSUME NEW n \in Numbers, Read(n) \/ Use(n) \/ Fstat(n) \/ Dup(n) \/ Close(n)
      PROVE  Other
  BY <1>3 DEF Read, Use, Fstat, Dup, Close, NoReply
<1>4. ASSUME NEW at \in At, Openat(at) \/ StatAt(at) \/ NameAt(at) PROVE Other
  BY <1>4 DEF Openat, StatAt, NameAt, NoReply
<1>5. ASSUME NEW old \in At, NEW new \in At, TwoNamesAt(old, new) PROVE Other
  BY <1>5 DEF TwoNamesAt, NoReply
<1>6. ASSUME Alloc PROVE Other  BY <1>6 DEF Alloc, MainVarsInv, NoReply
<1>7. ASSUME NEW size \in Sizes, Getcwd(size) PROVE Other
  BY <1>7 DEF Getcwd, NoReply
<1>8. ASSUME NEW size \in Sizes, Getmainvars(size) PROVE MainVarsInv'
  <2>1. targs' = targs  BY <1>8 DEF Getmainvars, place
  <2>2. MainVars' = MainVars  BY <2>1 DEF MainVars, ArgEnd, ArgsAt
  <2>3. CASE reply' = [NoReply EXCEPT !.op = "getmainvars", !.ret = -ENOMEM]
    <3>1. -ENOMEM # 0  BY DEF ENOMEM
    <3> QED  BY <2>3, <3>1 DEF MainVarsInv, NoReply
  <2>4. CASE reply' = [NoReply EXCEPT !.op = "getmainvars", !.buf = MainVars]
    BY <2>2, <2>4 DEF MainVarsInv, NoReply
  <2> QED  BY <1>8, <2>3, <2>4 DEF Getmainvars
<1>9. ASSUME NEW fn \in Names, Chdir(fn) PROVE Other
  BY <1>9 DEF Chdir, NoReply
<1>10. ASSUME ChangeDir PROVE Other  BY <1>10 DEF ChangeDir, NoReply
<1>11. ASSUME NEW where \in Roots, set_chroot(where) PROVE UNCHANGED <<reply, targs>>
  BY <1>11 DEF set_chroot
<1>12. ASSUME \/ Serve \/ Exit \/ Dealloc \/ CountByte \/ CopyByte \/ Store
              \/ OpenSocket \/ CloseSocket \/ UNCHANGED vars
       PROVE  UNCHANGED <<reply, targs>>
  BY <1>12 DEF Serve, Exit, Dealloc, CountByte, CopyByte, Store, OpenSocket, CloseSocket,
               vars, place
<1> HIDE DEF Other
<1> QED
  BY <1>1, <1>2, <1>3, <1>4, <1>5, <1>6, <1>7, <1>8, <1>9, <1>10, <1>11, <1>12
  DEF Next, FileCall, NameCall, OtherCall

\* getmainvars, for any number of arguments of any lengths, empty ones among them, and
\* wherever the target's buffer is: argc, the pointers, and every string where its
\* pointer leads, with the NUL after it.
THEOREM MainVarsTheorem == Spec => []MainVarsReadable
<1>1. TypeOK /\ MainVarsInv => MainVarsReadable
  <2> SUFFICES ASSUME TypeOK, MainVarsInv PROVE MainVarsReadable  OBVIOUS
  <2>1. targs \in Seq(Seq(STRING))  BY SyscallConstants DEF TypeOK
  <2>2. CASE reply.op = "getmainvars" /\ reply.ret = 0
    BY <2>1, <2>2, MainVarsRead DEF MainVarsInv
  <2>3. CASE ~(reply.op = "getmainvars" /\ reply.ret = 0)  BY <2>3 DEF MainVarsReadable
  <2> QED  BY <2>2, <2>3
<1> QED  BY <1>1, MainVarsInit, MainVarsStep, TypeCorrect, PTL DEF Spec

-------------------------------------------------------------------------------
(* Names.                                                                    *)

LEMMA AppendType ==
  ASSUME NEW S, NEW s \in Seq(S), NEW c \in S
  PROVE  Append(s, c) \in Seq(S)
OBVIOUS

LEMMA AppendFacts ==
  ASSUME NEW S, NEW s \in Seq(S), NEW c \in S
  PROVE  /\ Len(s) \in Nat /\ Len(Append(s, c)) = Len(s) + 1
         /\ \A i \in 1..Len(s) : Append(s, c)[i] = s[i]
         /\ Append(s, c)[Len(s) + 1] = c
OBVIOUS

LEMMA SingleFacts ==
  ASSUME NEW S, NEW c \in S
  PROVE  <<c>> \in Seq(S) /\ Len(<<c>>) = 1 /\ <<c>>[1] = c /\ Append(<<>>, c) = <<c>>
OBVIOUS

LEMMA ConcatFacts ==
  ASSUME NEW S, NEW s \in Seq(S), NEW t \in Seq(S)
  PROVE  /\ s \o t \in Seq(S) /\ Len(s \o t) = Len(s) + Len(t)
         /\ \A i \in 1..Len(s) : (s \o t)[i] = s[i]
         /\ \A i \in 1..Len(t) : (s \o t)[Len(s) + i] = t[i]
OBVIOUS

LEMMA AddsType ==
  ASSUME NEW s \in Seq(STRING), NEW c \in STRING
  PROVE  Adds(s, c) \in Seq(STRING)
<1>1. Append(s, c) \in Seq(STRING)  BY AppendType
<1> QED  BY <1>1 DEF Adds

\* Squeezed is the recursive function it says it is.
LEMMA SqueezedSteps ==
  ASSUME NEW t \in Seq(STRING)
  PROVE  /\ Squeezed(t) \in [0..Len(t) -> Seq(STRING)]
         /\ Squeezed(t)[0] = <<>>
         /\ \A i \in 1..Len(t) : Squeezed(t)[i] = Adds(Squeezed(t)[i - 1], t[i])
<1> DEFINE n == Len(t)
           step == [i \in 1..n |-> [s \in Seq(STRING) |-> Adds(s, t[i])]]
           Body(f) == [i \in 0..n |-> IF i = 0 THEN <<>> ELSE Adds(f[i - 1], t[i])]
           F == Squeezed(t)
<1>1. n \in Nat /\ <<>> \in Seq(STRING) /\ \A i \in 1..n : t[i] \in STRING  OBVIOUS
<1>2. step \in [1..n -> [Seq(STRING) -> Seq(STRING)]]  BY <1>1, AddsType
<1>3. PICK f \in [0..n -> Seq(STRING)] : Follows(f, <<>>, step, n)
  <2> HIDE DEF step, n
  <2> QED  BY <1>1, <1>2, Recursion
<1>4. \A s \in Seq(STRING), i \in 1..n : step[i][s] = Adds(s, t[i])  OBVIOUS
<1> HIDE DEF step
<1>5. \A i \in 1..n : f[i] = Adds(f[i - 1], t[i])
  <2>1. \A i \in 1..n : i - 1 \in 0..n  BY <1>1
  <2> QED  BY <1>3, <1>4, <2>1 DEF Follows
<1>6. f = Body(f)
  <2>1. \A i \in 0..n : i = 0 \/ i \in 1..n  BY <1>1
  <2>2. \A i \in 0..n : f[i] = IF i = 0 THEN <<>> ELSE Adds(f[i - 1], t[i])
    BY <1>3, <1>5, <2>1 DEF Follows
  <2>3. f = [i \in 0..n |-> f[i]]  OBVIOUS
  <2> QED  BY <2>2, <2>3
<1>7. F = CHOOSE g : g = Body(g)  BY DEF Squeezed
<1>8. F = Body(F)
  <2> HIDE DEF Body, F
  <2> QED  BY <1>6, <1>7, Zenon
<1>9. \A g : g = Body(g) =>
        /\ g = [i \in 0..n |-> g[i]] /\ g[0] = <<>>
        /\ \A i \in 1..n : g[i] = Adds(g[i - 1], t[i])
  OBVIOUS
<1> HIDE DEF Body, F
<1>10. /\ F = [i \in 0..n |-> F[i]] /\ F[0] = <<>>
       /\ \A i \in 1..n : F[i] = Adds(F[i - 1], t[i])
  BY <1>8, <1>9
<1>11. ASSUME NEW i \in 0..n PROVE F[i] \in Seq(STRING)
  <2> DEFINE Bad == {j \in 0..n : F[j] \notin Seq(STRING)}
  <2> SUFFICES ASSUME Bad # {} PROVE FALSE  OBVIOUS
  <2>1. PICK m \in Bad : \A k \in Bad : m <= k
    <3>1. Bad \subseteq Nat  BY <1>1
    <3> HIDE DEF Bad
    <3> QED  BY <3>1, Least
  <2>2. m # 0  BY <1>1, <1>10
  <2>3. m \in 1..n /\ m - 1 \in 0..n /\ ~(m <= m - 1)  BY <1>1, <2>2
  <2>4. F[m - 1] \in Seq(STRING)  BY <2>1, <2>3
  <2>5. F[m] \in Seq(STRING)  BY <1>1, <1>10, <2>3, <2>4, AddsType
  <2> QED  BY <2>5
<1> QED  BY <1>10, <1>11 DEF F, n

\* The beginnings of a sequence.
LEMMA Beginnings ==
  ASSUME NEW S, NEW u \in Seq(S)
  PROVE  /\ SubSeq(u, 1, Len(u)) = u /\ SubSeq(u, 1, 0) = <<>>
         /\ \A m \in 0..Len(u) : /\ SubSeq(u, 1, m) \in Seq(S) /\ Len(SubSeq(u, 1, m)) = m
                                 /\ \A i \in 1..m : SubSeq(u, 1, m)[i] = u[i]
         /\ \A m \in 1..Len(u) : Append(SubSeq(u, 1, m - 1), u[m]) = SubSeq(u, 1, m)
<1>1. Len(u) \in Nat  OBVIOUS
<1>2. ASSUME NEW m \in 0..Len(u)
      PROVE  /\ SubSeq(u, 1, m) \in Seq(S) /\ Len(SubSeq(u, 1, m)) = m
             /\ \A i \in 1..m : SubSeq(u, 1, m)[i] = u[i]
  BY <1>1
<1>3. SubSeq(u, 1, Len(u)) = u /\ SubSeq(u, 1, 0) = <<>>  BY <1>1
<1>4. ASSUME NEW m \in 1..Len(u)
      PROVE  Append(SubSeq(u, 1, m - 1), u[m]) = SubSeq(u, 1, m)
  <2>1. m - 1 \in 0..Len(u) /\ m \in 0..Len(u) /\ (m - 1) + 1 = m  BY <1>1
  <2>2. PICK v \in Seq(S) : v = SubSeq(u, 1, m - 1)  BY <1>2, <2>1
  <2>3. Len(v) = m - 1 /\ \A i \in 1..m - 1 : v[i] = u[i]  BY <1>2, <2>1, <2>2
  <2>4. u[m] \in S  OBVIOUS
  <2>5. Append(v, u[m]) \in Seq(S) /\ Len(Append(v, u[m])) = m  BY <2>1, <2>3, <2>4
  <2>6. \A i \in 1..m : Append(v, u[m])[i] = u[i]  BY <2>1, <2>3, <2>4
  <2>7. \A x, y \in Seq(S) : Len(x) = m /\ Len(y) = m /\ (\A i \in 1..m : x[i] = y[i]) => x = y
    BY <2>1
  <2>8. PICK w \in Seq(S) : w = SubSeq(u, 1, m)  BY <1>2, <2>1
  <2>9. Len(w) = m /\ \A i \in 1..m : w[i] = u[i]  BY <1>2, <2>1, <2>8
  <2> QED  BY <2>2, <2>5, <2>6, <2>7, <2>8, <2>9
<1> QED  BY <1>2, <1>3, <1>4

LEMMA Extensional ==
  ASSUME NEW S, NEW u \in Seq(S), NEW v \in Seq(S), Len(u) = Len(v),
         \A i \in 1..Len(v) : u[i] = v[i]
  PROVE  u = v
OBVIOUS

LEMMA Endings ==
  ASSUME NEW S, NEW u \in Seq(S), NEW m \in 0..Len(u)
  PROVE  /\ SubSeq(u, m + 1, Len(u)) \in Seq(S)
         /\ Len(SubSeq(u, m + 1, Len(u))) = Len(u) - m
         /\ \A i \in 1..Len(u) - m : SubSeq(u, m + 1, Len(u))[i] = u[m + i]
<1>1. Len(u) \in Nat  OBVIOUS
<1> QED  BY <1>1

\* No two slashes in a row.
NoRuns(u) == \A i \in 2..Len(u) : u[i] = "/" => u[i - 1] # "/"

\* A character that does not double a slash counts.
LEMMA AddsOne ==
  ASSUME NEW u \in Seq(STRING), NoRuns(u), NEW m \in 1..Len(u)
  PROVE  Adds(SubSeq(u, 1, m - 1), u[m]) = SubSeq(u, 1, m)
<1>1. Len(u) \in Nat /\ m - 1 \in 0..Len(u)  OBVIOUS
<1>2. PICK v \in Seq(STRING) : v = SubSeq(u, 1, m - 1)  BY <1>1, Beginnings
<1>3. Len(v) = m - 1 /\ \A i \in 1..m - 1 : v[i] = u[i]  BY <1>1, <1>2, Beginnings
<1>4. Append(v, u[m]) = SubSeq(u, 1, m)  BY <1>2, Beginnings
<1>5. ~(u[m] = "/" /\ EndsInSlash(v))
  <2> SUFFICES ASSUME u[m] = "/", EndsInSlash(v) PROVE FALSE  OBVIOUS
  <2>1. m # 1
    <3> SUFFICES ASSUME m = 1 PROVE FALSE  OBVIOUS
    <3>1. Len(v) = 0  BY <1>3
    <3>2. v = <<>>  BY <3>1
    <3> QED  BY <3>2 DEF EndsInSlash
  <2>2. m \in 2..Len(u) /\ m - 1 \in 1..m - 1  BY <1>1, <2>1
  <2>3. v[m - 1] = "/"  BY <1>3 DEF EndsInSlash, Last
  <2>4. v[m - 1] = u[m - 1]  BY <1>3, <2>2
  <2> QED  BY <2>2, <2>3, <2>4 DEF NoRuns
<1> QED  BY <1>2, <1>4, <1>5 DEF Adds

\* What counts of a name that goes on like u, which has no two slashes in a row.
LEMMA SqueezedOn ==
  ASSUME NEW t \in Seq(STRING), NEW u \in Seq(STRING), NoRuns(u),
         NEW k \in Nat, NEW j \in 0..Len(u), k + (Len(u) - j) <= Len(t),
         Squeezed(t)[k] = SubSeq(u, 1, j),
         \A i \in 1..Len(u) - j : t[k + i] = u[j + i]
  PROVE  Squeezed(t)[k + (Len(u) - j)] = u
<1> DEFINE n == Len(u) - j
           Bad == {i \in 0..n : Squeezed(t)[k + i] # SubSeq(u, 1, j + i)}
<1>0. n \in Nat /\ Len(u) \in Nat /\ Len(t) \in Nat /\ j \in Nat /\ j + n = Len(u)
      /\ k + n <= Len(t)
  OBVIOUS
<1>1. Bad = {}
  <2> SUFFICES ASSUME Bad # {} PROVE FALSE  OBVIOUS
  <2>1. PICK m \in Bad : \A i \in Bad : m <= i
    <3>1. Bad \subseteq Nat  BY <1>0
    <3> HIDE DEF Bad
    <3> QED  BY <3>1, Least
  <2> HIDE DEF n
  <2>2. m \in 0..n /\ Squeezed(t)[k + m] # SubSeq(u, 1, j + m)  OBVIOUS
  <2>3. m # 0
    <3> SUFFICES ASSUME m = 0 PROVE FALSE  OBVIOUS
    <3>1. k + m = k /\ j + m = j  BY <1>0
    <3> QED  BY <2>2, <3>1
  <2>4. m \in 1..n /\ m - 1 \in 0..n /\ ~(m <= m - 1)  BY <1>0, <2>2, <2>3
  <2>5. Squeezed(t)[k + (m - 1)] = SubSeq(u, 1, j + (m - 1))  BY <2>1, <2>4
  <2>6. /\ k + m \in 1..Len(t) /\ (k + m) - 1 = k + (m - 1)
        /\ j + m \in 1..Len(u) /\ (j + m) - 1 = j + (m - 1)
    BY <1>0, <2>4
  <2>7. t[k + m] = u[j + m]  BY <2>4 DEF n
  <2>8. Squeezed(t)[k + m] = Adds(Squeezed(t)[(k + m) - 1], t[k + m])
    BY <2>6, SqueezedSteps
  <2>9. Adds(SubSeq(u, 1, (j + m) - 1), u[j + m]) = SubSeq(u, 1, j + m)
    BY <2>6, AddsOne
  <2> QED  BY <2>2, <2>5, <2>6, <2>7, <2>8, <2>9
<1>2. Squeezed(t)[k + n] = SubSeq(u, 1, j + n)
  <2> HIDE DEF n
  <2>1. n \in 0..n  BY <1>0
  <2> QED  BY <1>1, <2>1
<1> QED  BY <1>0, <1>2, Beginnings

\* Nothing that counts is taken back.
LEMMA SqueezedGrows ==
  ASSUME NEW t \in Seq(STRING), NEW i \in 0..Len(t), NEW k \in i..Len(t)
  PROVE  /\ Len(Squeezed(t)[i]) <= Len(Squeezed(t)[k])
         /\ \A c \in 1..Len(Squeezed(t)[i]) : Squeezed(t)[k][c] = Squeezed(t)[i][c]
<1> DEFINE Q(m) == /\ Len(Squeezed(t)[i]) <= Len(Squeezed(t)[m])
                   /\ \A c \in 1..Len(Squeezed(t)[i]) :
                        Squeezed(t)[m][c] = Squeezed(t)[i][c]
           Bad == {m \in i..Len(t) : ~Q(m)}
<1>0. Len(t) \in Nat /\ i \in Nat  OBVIOUS
<1> SUFFICES ASSUME Bad # {} PROVE FALSE  OBVIOUS
<1>1. PICK m \in Bad : \A l \in Bad : m <= l
  <2>1. Bad \subseteq Nat  BY <1>0
  <2> HIDE DEF Bad
  <2> QED  BY <2>1, Least
<1>2. m \in i..Len(t) /\ ~Q(m)  OBVIOUS
<1>3. PICK s \in Seq(STRING) : s = Squeezed(t)[i]  BY <1>0, SqueezedSteps
<1>4. m # i
  <2> SUFFICES ASSUME m = i PROVE FALSE  OBVIOUS
  <2>1. Len(s) \in Nat /\ Len(s) <= Len(s)  OBVIOUS
  <2> QED  BY <1>2, <1>3, <2>1
<1>5. m - 1 \in i..Len(t) /\ m \in 1..Len(t) /\ m - 1 \in 0..Len(t) /\ ~(m <= m - 1)
  BY <1>0, <1>2, <1>4
<1>6. Q(m - 1)  BY <1>1, <1>5
<1>7. PICK v \in Seq(STRING) : v = Squeezed(t)[m - 1]  BY <1>5, SqueezedSteps
<1>8. Squeezed(t)[m] = Adds(v, t[m])  BY <1>5, <1>7, SqueezedSteps
<1>9. Len(s) <= Len(v) /\ \A c \in 1..Len(s) : v[c] = s[c]  BY <1>3, <1>6, <1>7
<1>10. t[m] \in STRING  BY <1>5
<1>11. /\ Len(s) <= Len(Adds(v, t[m]))
       /\ \A c \in 1..Len(s) : Adds(v, t[m])[c] = s[c]
  <2>1. CASE Adds(v, t[m]) = v  BY <1>9, <2>1
  <2>2. CASE Adds(v, t[m]) = Append(v, t[m])
    <3>1. /\ Len(s) \in Nat /\ Len(v) \in Nat /\ Len(Append(v, t[m])) = Len(v) + 1
          /\ \A c \in 1..Len(v) : Append(v, t[m])[c] = v[c]
      BY <1>10, AppendFacts
    <3> QED  BY <1>9, <2>2, <3>1
  <2> QED  BY <2>1, <2>2 DEF Adds
<1> QED  BY <1>2, <1>3, <1>8, <1>11

LEMMA PrefixFacts ==
  ASSUME NEW S, NEW u \in Seq(S), NEW v \in Seq(S)
  PROVE  IsPrefix(u, v) <=> Len(u) <= Len(v) /\ \A i \in 1..Len(u) : v[i] = u[i]
<1>0. Len(u) \in Nat /\ Len(v) \in Nat  OBVIOUS
<1>1. SubSeq(u, 1, Len(u)) = u  BY Beginnings
<1>2. CASE Len(u) <= Len(v)
  <2>1. Len(u) \in 0..Len(v)  BY <1>0, <1>2
  <2>2. PICK w \in Seq(S) : w = SubSeq(v, 1, Len(u))  BY <2>1, Beginnings
  <2>3. Len(w) = Len(u) /\ \A i \in 1..Len(u) : w[i] = v[i]  BY <2>1, <2>2, Beginnings
  <2>4. w = u <=> \A i \in 1..Len(u) : v[i] = u[i]  BY <2>3
  <2> QED  BY <1>1, <1>2, <2>2, <2>4 DEF IsPrefix
<1>3. CASE ~(Len(u) <= Len(v))  BY <1>3 DEF IsPrefix
<1> QED  BY <1>2, <1>3

LEMMA FullNameNoRuns ==
  ASSUME NEW u, IsFullName(u)
  PROVE  NoRuns(u)
BY DEF IsFullName, NoRuns

LEMMA SlashIsString ==
  ASSUME NEW u \in Seq(STRING), IsFullName(u)
  PROVE  /\ "/" \in STRING /\ Len(u) \in Nat /\ Len(u) >= 1 /\ u[1] = "/"
         /\ Len(u) = 1 => u = <<"/">>
<1>1. Len(u) \in Nat  OBVIOUS
<1>2. Len(u) # 0 /\ u[1] = "/"  BY DEF IsFullName
<1>3. Len(u) >= 1  BY <1>1, <1>2
<1>4. u[1] \in STRING  BY <1>3
<1>5. \A c : Len(u) = 1 /\ u[1] = c => u = <<c>>  BY <1>3
<1> QED  BY <1>1, <1>2, <1>3, <1>4, <1>5

\* The kernel reads a full name as it is,
LEMMA NormalOfFullName ==
  ASSUME NEW u \in Seq(STRING), IsFullName(u)
  PROVE  Normal(u) = u
<1>1. Squeezed(u)[Len(u)] = u
  <2>1. 0 + (Len(u) - 0) = Len(u) /\ 0 \in 0..Len(u) /\ Len(u) \in Nat  OBVIOUS
  <2>2. Squeezed(u)[0] = SubSeq(u, 1, 0)  BY SqueezedSteps, Beginnings
  <2>3. \A i \in 1..Len(u) - 0 : u[0 + i] = u[0 + i]  OBVIOUS
  <2>4. 0 + (Len(u) - 0) <= Len(u)  BY <2>1
  <2>5. Squeezed(u)[0 + (Len(u) - 0)] = u
    BY <2>1, <2>2, <2>3, <2>4, FullNameNoRuns, SqueezedOn
  <2> QED  BY <2>1, <2>5
<1>2. ~(Len(u) > 1 /\ EndsInSlash(u))
  <2> SUFFICES ASSUME Len(u) > 1, EndsInSlash(u) PROVE FALSE  OBVIOUS
  <2>1. Len(u) \in 2..Len(u) /\ u[Len(u)] = "/"  BY DEF EndsInSlash, Last
  <2> QED  BY <2>1 DEF IsFullName
<1> QED  BY <1>1, <1>2 DEF Normal

\* with a slash before it,
LEMMA NormalOfSlashed ==
  ASSUME NEW u \in Seq(STRING), IsFullName(u)
  PROVE  Normal(<<"/">> \o u) = u
<1> DEFINE t == <<"/">> \o u
<1>1. Len(u) \in Nat /\ Len(u) >= 1 /\ u[1] = "/"
  <2>1. Len(u) \in Nat  OBVIOUS
  <2>2. Len(u) # 0  BY DEF IsFullName
  <2> QED  BY <2>1, <2>2 DEF IsFullName
<1>2. <<"/">> \in Seq(STRING) /\ Len(<<"/">>) = 1 /\ <<"/">>[1] = "/"
  BY SingleFacts, SlashIsString
<1>3. /\ t \in Seq(STRING) /\ Len(t) = Len(u) + 1 /\ t[1] = "/"
      /\ \A i \in 1..Len(u) : t[i + 1] = u[i]
  BY <1>1, <1>2, ConcatFacts
<1> HIDE DEF t
<1>4. Squeezed(t)[1] = <<"/">>
  <2>1. Squeezed(t)[0] = <<>> /\ Squeezed(t)[1] = Adds(Squeezed(t)[1 - 1], t[1])
    BY <1>1, <1>3, SqueezedSteps
  <2>2. Adds(<<>>, "/") = <<"/">>  BY DEF Adds, EndsInSlash
  <2> QED  BY <1>3, <2>1, <2>2
<1>5. Squeezed(t)[2] = <<"/">>
  <2>1. 2 \in 1..Len(t) /\ 2 - 1 = 1 /\ 1 + 1 = 2  BY <1>1, <1>3
  <2>2. Squeezed(t)[2] = Adds(Squeezed(t)[2 - 1], t[2])  BY <1>3, <2>1, SqueezedSteps
  <2>3. t[2] = "/"  BY <1>1, <1>3, <2>1
  <2>4. Adds(<<"/">>, "/") = <<"/">>  BY DEF Adds, EndsInSlash, Last
  <2> QED  BY <1>4, <2>1, <2>2, <2>3, <2>4
<1>6. SubSeq(u, 1, 1) = <<"/">>
  <2>1. 1 \in 1..Len(u) /\ 1 - 1 = 0  BY <1>1
  <2>2. Append(SubSeq(u, 1, 0), u[1]) = SubSeq(u, 1, 1) /\ SubSeq(u, 1, 0) = <<>>
    BY <2>1, Beginnings
  <2> QED  BY <1>1, <2>2, SingleFacts
<1>7. Squeezed(t)[Len(t)] = u
  <2>1. 2 + (Len(u) - 1) = Len(t) /\ 2 \in Nat /\ 1 \in 0..Len(u)  BY <1>1, <1>3
  <2>2. ASSUME NEW i \in 1..Len(u) - 1 PROVE t[2 + i] = u[1 + i]
    <3>1. 1 + i \in 1..Len(u) /\ (1 + i) + 1 = 2 + i  BY <1>1
    <3> QED  BY <1>3, <3>1
  <2>3. 2 + (Len(u) - 1) <= Len(t)  BY <1>1, <1>3
  <2>4. NoRuns(u)  BY FullNameNoRuns
  <2>5. Squeezed(t)[2] = SubSeq(u, 1, 1)  BY <1>5, <1>6
  <2>6. Squeezed(t)[2 + (Len(u) - 1)] = u
    BY <1>3, <2>1, <2>2, <2>3, <2>4, <2>5, SqueezedOn
  <2> QED  BY <2>1, <2>6
<1>8. ~(Len(u) > 1 /\ EndsInSlash(u))
  <2> SUFFICES ASSUME Len(u) > 1, EndsInSlash(u) PROVE FALSE  OBVIOUS
  <2>1. Len(u) \in 2..Len(u) /\ u[Len(u)] = "/"  BY <1>1 DEF EndsInSlash, Last
  <2> QED  BY <2>1 DEF IsFullName
<1>9. Normal(t) = u  BY <1>7, <1>8 DEF Normal
<1> QED  BY <1>9 DEF t

\* and a name below a directory as a name below it.
LEMMA NormalBelow ==
  ASSUME NEW d \in Seq(STRING), IsFullName(d), NEW fn \in Seq(STRING), IsAbsolute(fn)
  PROVE  /\ IsUnder(Normal(d \o fn), d)
         /\ fn = <<"/">> => Normal(d \o fn) = d
<1> DEFINE t == d \o fn
           s == Squeezed(t)[Len(t)]
<1>1. Len(d) \in Nat /\ Len(d) >= 1 /\ d[1] = "/" /\ Len(fn) \in Nat /\ Len(fn) >= 1
      /\ fn[1] = "/"
  <2>1. Len(d) \in Nat /\ Len(fn) \in Nat  OBVIOUS
  <2>2. Len(d) # 0 /\ Len(fn) # 0  BY DEF IsFullName, IsAbsolute
  <2> QED  BY <2>1, <2>2 DEF IsFullName, IsAbsolute
<1>2. /\ t \in Seq(STRING) /\ Len(t) = Len(d) + Len(fn)
      /\ \A i \in 1..Len(d) : t[i] = d[i]
      /\ \A i \in 1..Len(fn) : t[Len(d) + i] = fn[i]
  BY ConcatFacts
<1> HIDE DEF t
<1>3. Squeezed(t)[Len(d)] = d
  <2>1. 0 + (Len(d) - 0) = Len(d) /\ 0 \in 0..Len(d) /\ 0 \in Nat  BY <1>1
  <2>2. Squeezed(t)[0] = SubSeq(d, 1, 0)  BY <1>2, SqueezedSteps, Beginnings
  <2>3. \A i \in 1..Len(d) - 0 : t[0 + i] = d[0 + i]
    <3>1. \A i \in 1..Len(d) - 0 : 0 + i = i /\ i \in 1..Len(d)  BY <1>1
    <3> QED  BY <1>2, <3>1
  <2>4. 0 + (Len(d) - 0) <= Len(t)  BY <1>1, <1>2
  <2>5. Squeezed(t)[0 + (Len(d) - 0)] = d
    BY <1>2, <2>1, <2>2, <2>3, <2>4, FullNameNoRuns, SqueezedOn
  <2> QED  BY <2>1, <2>5
<1>4. CASE d = <<"/">>
  <2>1. IsUnder(Normal(t), d)  BY <1>4 DEF IsUnder
  <2>2. ASSUME fn = <<"/">> PROVE Normal(t) = d
    <3>1. t = <<"/">> \o d  BY <1>4, <2>2 DEF t
    <3> QED  BY <3>1, NormalOfSlashed
  <2> QED  BY <2>1, <2>2 DEF t
<1>5. CASE d # <<"/">>
  <2>1. Len(d) > 1
    <3>1. Len(d) = 1 => d = <<"/">>  BY SlashIsString
    <3>2. Len(d) # 1  BY <1>5, <3>1
    <3>3. PICK l \in Nat : l = Len(d)  BY <1>1
    <3>4. l >= 1 /\ l # 1  BY <1>1, <3>2, <3>3
    <3> QED  BY <3>3, <3>4
  <2>2. ~EndsInSlash(d)
    <3> SUFFICES ASSUME EndsInSlash(d) PROVE FALSE  OBVIOUS
    <3>1. Len(d) \in 2..Len(d) /\ d[Len(d)] = "/"  BY <1>1, <2>1 DEF EndsInSlash, Last
    <3> QED  BY <3>1 DEF IsFullName
  <2> DEFINE n == Len(d) + 1
             dd == Append(d, "/")
  <2>3. n \in 1..Len(t) /\ n - 1 = Len(d) /\ n \in 0..Len(t) /\ Len(t) \in n..Len(t)
        /\ Len(t) \in 0..Len(t)
    BY <1>1, <1>2
  <2>4. t[n] = "/"  BY <1>1, <1>2
  <2>5. Squeezed(t)[n] = dd
    <3>1. Squeezed(t)[n] = Adds(Squeezed(t)[n - 1], t[n])  BY <1>2, <2>3, SqueezedSteps
    <3> QED  BY <1>3, <2>2, <2>3, <2>4, <3>1 DEF Adds
  <2>6. dd \in Seq(STRING) /\ Len(dd) = n /\ dd[n] = "/" /\ \A i \in 1..Len(d) : dd[i] = d[i]
    <3>1. "/" \in STRING  BY SlashIsString
    <3> QED  BY <1>1, <3>1, AppendType, AppendFacts
  <2>7. s \in Seq(STRING) /\ Len(s) \in Nat
    <3>1. s \in Seq(STRING)  BY <1>2, <2>3, SqueezedSteps
    <3> HIDE DEF s
    <3> QED  BY <3>1
  <2>8. n <= Len(s) /\ \A c \in 1..n : s[c] = dd[c]
    <3> HIDE DEF n, dd
    <3>1. /\ Len(Squeezed(t)[n]) <= Len(Squeezed(t)[Len(t)])
          /\ \A c \in 1..Len(Squeezed(t)[n]) : Squeezed(t)[Len(t)][c] = Squeezed(t)[n][c]
      BY <1>2, <2>3, SqueezedGrows
    <3> QED  BY <2>5, <2>6, <3>1
  <2>9. Normal(t) = IF Len(s) > 1 /\ EndsInSlash(s) THEN Front(s) ELSE s  BY DEF Normal
  <2> HIDE DEF s, dd
  <2>10. CASE Len(s) = n
    <3>1. s = dd  BY <2>6, <2>7, <2>8, <2>10
    <3>2. Len(s) > 1 /\ EndsInSlash(s)
      BY <1>1, <2>1, <2>6, <2>10, <3>1 DEF EndsInSlash, Last
    <3>3. Front(s) = d
      <4>1. Front(s) = SubSeq(s, 1, Len(d))  BY <2>3, <2>10 DEF Front
      <4>2. Len(d) \in 0..Len(s)  BY <1>1, <2>10
      <4>3. PICK v \in Seq(STRING) : v = Front(s)  BY <2>7, <4>1, <4>2, Beginnings
      <4>4. Len(v) = Len(d) /\ \A i \in 1..Len(d) : v[i] = s[i]
        BY <2>7, <4>1, <4>2, <4>3, Beginnings
      <4>5. \A i \in 1..Len(d) : v[i] = d[i]  BY <2>6, <3>1, <4>4
      <4> QED  BY <4>3, <4>4, <4>5
    <3> QED  BY <2>9, <3>2, <3>3 DEF IsUnder, t
  <2>11. CASE Len(s) > n
    <3>1. PICK m \in Nat, v \in Seq(STRING) :
            m >= n /\ v = Normal(t) /\ Len(v) = m /\ \A i \in 1..n : v[i] = s[i]
      <4>1. CASE Len(s) > 1 /\ EndsInSlash(s)
        <5>1. Len(s) - 1 \in 0..Len(s) /\ Len(s) - 1 >= n /\ Len(s) - 1 \in Nat
          BY <2>7, <2>11, <1>1
        <5>2. Front(s) = SubSeq(s, 1, Len(s) - 1)  BY DEF Front
        <5>3. /\ Front(s) \in Seq(STRING) /\ Len(Front(s)) = Len(s) - 1
              /\ \A i \in 1..Len(s) - 1 : Front(s)[i] = s[i]
          BY <2>7, <5>1, <5>2, Beginnings
        <5>4. \A i \in 1..n : i \in 1..Len(s) - 1  BY <1>1, <2>7, <5>1
        <5> QED  BY <2>9, <4>1, <5>1, <5>3, <5>4
      <4>2. CASE ~(Len(s) > 1 /\ EndsInSlash(s))
        BY <2>7, <2>9, <2>11, <4>2, <1>1
      <4> QED  BY <4>1, <4>2
    <3>2. /\ d \o <<"/">> \in Seq(STRING) /\ Len(d \o <<"/">>) = n
          /\ \A i \in 1..n : (d \o <<"/">>)[i] = v[i]
      <4>1. <<"/">> \in Seq(STRING) /\ Len(<<"/">>) = 1 /\ <<"/">>[1] = "/"
        BY SingleFacts, SlashIsString
      <4>2. /\ d \o <<"/">> \in Seq(STRING) /\ Len(d \o <<"/">>) = Len(d) + 1
            /\ \A i \in 1..Len(d) : (d \o <<"/">>)[i] = d[i]
            /\ (d \o <<"/">>)[Len(d) + 1] = "/"
        BY <4>1, ConcatFacts
      <4>3. \A i \in 1..n : i = n \/ i \in 1..Len(d)  BY <1>1
      <4>4. \A i \in 1..n : (d \o <<"/">>)[i] = dd[i]  BY <2>6, <4>2, <4>3
      <4> QED  BY <2>8, <3>1, <4>2, <4>4
    <3>3. IsPrefix(d \o <<"/">>, v)  BY <1>1, <3>1, <3>2, PrefixFacts
    <3>4. ASSUME fn = <<"/">> PROVE FALSE
      <4>1. Len(fn) = 1 /\ Len(t) = n  BY <1>2, <3>4
      <4>2. s = dd  BY <2>5, <4>1 DEF s
      <4> QED  BY <1>1, <2>6, <2>11, <4>2
    <3> QED  BY <3>1, <3>3, <3>4 DEF IsUnder, t
  <2> QED  BY <1>1, <2>3, <2>7, <2>8, <2>10, <2>11
<1> QED  BY <1>4, <1>5

LEMMA FullNameSlash ==
  ASSUME NEW d \in Seq(STRING), IsFullName(d)
  PROVE  EndsInSlash(d) <=> d = <<"/">>
<1>1. Len(d) \in Nat /\ Len(d) >= 1 /\ (Len(d) = 1 => d = <<"/">>)  BY SlashIsString
<1>2. ASSUME Len(d) # 1 PROVE ~EndsInSlash(d) /\ d # <<"/">>
  <2>0. PICK l \in Nat : l = Len(d)  BY <1>1
  <2>1. Len(d) \in 2..Len(d)
    <3>1. l >= 1 /\ l # 1  BY <1>1, <1>2, <2>0
    <3> QED  BY <2>0, <3>1
  <2>2. d[Len(d)] # "/"  BY <2>1 DEF IsFullName
  <2>3. Len(<<"/">>) = 1  OBVIOUS
  <2> QED  BY <1>2, <2>2, <2>3 DEF EndsInSlash, Last
<1>3. EndsInSlash(<<"/">>)
  <2>1. Len(<<"/">>) = 1 /\ <<"/">>[1] = "/" /\ <<"/">> # <<>>  OBVIOUS
  <2> QED  BY <2>1 DEF EndsInSlash, Last
<1> QED  BY <1>1, <1>2, <1>3

\* Below a directory other than the root: its letters and a slash.
LEMMA Below ==
  ASSUME NEW d \in Seq(STRING), IsFullName(d), d # <<"/">>, NEW u \in Seq(STRING)
  PROVE  /\ d \o <<"/">> \in Seq(STRING)
         /\ IsPrefix(d \o <<"/">>, u) <=>
              IsPrefix(d, u) /\ Len(u) > Len(d) /\ u[Len(d) + 1] = "/"
<1>1. <<"/">> \in Seq(STRING) /\ Len(<<"/">>) = 1 /\ <<"/">>[1] = "/"
  BY SingleFacts, SlashIsString
<1> DEFINE b == d \o <<"/">>
<1>2. /\ b \in Seq(STRING) /\ Len(b) = Len(d) + 1 /\ b[Len(d) + 1] = "/"
      /\ \A i \in 1..Len(d) : b[i] = d[i]
  BY <1>1, ConcatFacts
<1> HIDE DEF b
<1>3. Len(d) \in Nat /\ Len(u) \in Nat  OBVIOUS
<1>4. IsPrefix(b, u) <=> Len(b) <= Len(u) /\ \A i \in 1..Len(b) : u[i] = b[i]
  BY <1>2, PrefixFacts
<1>5. IsPrefix(d, u) <=> Len(d) <= Len(u) /\ \A i \in 1..Len(d) : u[i] = d[i]
  BY PrefixFacts
<1>6. \A i : i \in 1..Len(b) <=> i \in 1..Len(d) \/ i = Len(d) + 1  BY <1>2, <1>3
<1>7. (\A i \in 1..Len(b) : u[i] = b[i]) <=>
        (\A i \in 1..Len(d) : u[i] = d[i]) /\ u[Len(d) + 1] = "/"
  BY <1>2, <1>6
<1>8. Len(b) <= Len(u) <=> Len(u) > Len(d)  BY <1>2, <1>3
<1>9. Len(u) > Len(d) => Len(d) <= Len(u)  BY <1>3
<1> QED  BY <1>2, <1>4, <1>5, <1>7, <1>8, <1>9 DEF b

\* getcwd outside of the root of --chroot tells the root's own name.
LEMMA UndoOutside ==
  ASSUME chroot \in Seq(STRING), IsFullName(chroot), cwd \in Seq(STRING),
         ~IsUnder(cwd, chroot)
  PROVE  undo_chroot(cwd) = <<"/">>
<1>1. chroot # <<"/">> /\ ~IsPrefix(chroot \o <<"/">>, cwd)  BY DEF IsUnder
<1>2. ~(IsPrefix(chroot, cwd) /\ Len(cwd) > Len(chroot) /\ cwd[Len(chroot) + 1] = "/")
  BY <1>1, Below
<1>3. ~EndsInSlash(chroot)  BY <1>1, FullNameSlash
<1>4. chroot # <<>>  BY DEF IsFullName
<1> QED  BY <1>2, <1>3, <1>4 DEF undo_chroot

LEMMA Absolute ==
  ASSUME NEW d \in Seq(STRING), IsFullName(d)
  PROVE  IsAbsolute(d) /\ Resolve(d) = d
<1>1. IsAbsolute(d)  BY DEF IsFullName, IsAbsolute
<1> QED  BY <1>1, NormalOfFullName DEF Resolve

\* Inside, the name it tells leads back.
LEMMA UndoInside ==
  ASSUME chroot \in Seq(STRING), IsFullName(chroot), cwd \in Seq(STRING),
         IsFullName(cwd), IsUnder(cwd, chroot)
  PROVE  Resolve(do_chroot(undo_chroot(cwd))) = cwd
<1>0. chroot # <<>>  BY DEF IsFullName
<1>1. Len(chroot) \in Nat /\ Len(cwd) \in Nat /\ Len(cwd) >= 1 /\ Len(chroot) >= 1
  BY SlashIsString
<1>2. IsAbsolute(<<"/">>)  BY DEF IsAbsolute
<1>3. ASSUME NEW fn \in Seq(STRING) PROVE IsAbsolute(chroot \o fn)
  <2>1. (chroot \o fn)[1] = chroot[1] /\ Len(chroot \o fn) = Len(chroot) + Len(fn)
        /\ chroot \o fn \in Seq(STRING) /\ Len(fn) \in Nat
    BY <1>1, ConcatFacts
  <2>2. Len(chroot \o fn) # 0  BY <1>1, <2>1
  <2> QED  BY <2>1, <2>2 DEF IsAbsolute, IsFullName
<1>4. CASE chroot = <<"/">>
  <2>1. EndsInSlash(chroot) /\ Len(chroot) = 1  BY <1>4, FullNameSlash
  <2>2. IsPrefix(chroot, cwd)
    <3>1. \A i \in 1..Len(chroot) : cwd[i] = chroot[i]
      BY <1>4, <2>1, SlashIsString
    <3> QED  BY <1>1, <2>1, <3>1, PrefixFacts
  <2>3. undo_chroot(cwd) = SubSeq(cwd, Len(chroot) + 0, Len(cwd))
    BY <1>0, <2>1, <2>2 DEF undo_chroot
  <2>4. undo_chroot(cwd) = cwd  BY <2>1, <2>3, Beginnings
  <2>5. do_chroot(cwd) = <<"/">> \o cwd  BY <1>0, <1>4, Absolute DEF do_chroot
  <2>6. IsAbsolute(<<"/">> \o cwd)  BY <1>3, <1>4
  <2> QED  BY <2>4, <2>5, <2>6, NormalOfSlashed DEF Resolve
<1>5. CASE chroot # <<"/">> /\ cwd = chroot
  <2>1. undo_chroot(cwd) = <<"/">>
    <3>1. ~EndsInSlash(chroot) /\ ~(Len(cwd) > Len(chroot))  BY <1>1, <1>5, FullNameSlash
    <3> QED  BY <1>0, <3>1 DEF undo_chroot
  <2>2. <<"/">> \in Seq(STRING)  BY SlashIsString, SingleFacts
  <2>3. do_chroot(<<"/">>) = chroot \o <<"/">>  BY <1>0, <1>2 DEF do_chroot
  <2>4. Normal(chroot \o <<"/">>) = chroot  BY <1>2, <2>2, NormalBelow
  <2>5. IsAbsolute(chroot \o <<"/">>)  BY <1>3, <2>2
  <2> QED  BY <1>5, <2>1, <2>3, <2>4, <2>5 DEF Resolve
<1>6. CASE chroot # <<"/">> /\ IsPrefix(chroot \o <<"/">>, cwd)
  <2>1. IsPrefix(chroot, cwd) /\ Len(cwd) > Len(chroot) /\ cwd[Len(chroot) + 1] = "/"
    BY <1>6, Below
  <2>2. ~EndsInSlash(chroot)  BY <1>6, FullNameSlash
  <2> DEFINE fn == SubSeq(cwd, Len(chroot) + 1, Len(cwd))
  <2>3. undo_chroot(cwd) = fn  BY <1>0, <2>1, <2>2 DEF undo_chroot
  <2>4. /\ fn \in Seq(STRING) /\ Len(fn) = Len(cwd) - Len(chroot)
        /\ \A i \in 1..Len(cwd) - Len(chroot) : fn[i] = cwd[Len(chroot) + i]
    BY <1>1, <2>1, Endings
  <2> HIDE DEF fn
  <2>5. IsAbsolute(fn)
    <3>1. Len(fn) # 0 /\ fn[1] = "/"  BY <1>1, <2>1, <2>4
    <3> QED  BY <3>1 DEF IsAbsolute
  <2>6. do_chroot(fn) = chroot \o fn  BY <1>0, <2>5 DEF do_chroot
  <2>7. chroot \o fn = cwd
    <3>1. \A i \in 1..Len(chroot) : cwd[i] = chroot[i]  BY <2>1, PrefixFacts
    <3>2. /\ chroot \o fn \in Seq(STRING) /\ Len(chroot \o fn) = Len(chroot) + Len(fn)
          /\ \A i \in 1..Len(chroot) : (chroot \o fn)[i] = chroot[i]
          /\ \A i \in 1..Len(fn) : (chroot \o fn)[Len(chroot) + i] = fn[i]
      BY <2>4, ConcatFacts
    <3>3. Len(chroot \o fn) = Len(cwd)  BY <1>1, <2>1, <2>4, <3>2
    <3>4. ASSUME NEW i \in 1..Len(cwd) PROVE (chroot \o fn)[i] = cwd[i]
      <4>1. CASE i \in 1..Len(chroot)  BY <3>1, <3>2, <4>1
      <4>2. CASE i \notin 1..Len(chroot)
        <5>1. PICK j \in 1..Len(fn) : i = Len(chroot) + j
          <6>1. i - Len(chroot) \in 1..Len(fn) /\ Len(chroot) + (i - Len(chroot)) = i
            BY <1>1, <2>1, <2>4, <4>2
          <6> QED  BY <6>1
        <5> QED  BY <2>4, <3>2, <5>1
      <4> QED  BY <4>1, <4>2
    <3>5. PICK x \in Seq(STRING) : x = chroot \o fn  BY <3>2
    <3>6. Len(x) = Len(cwd) /\ \A i \in 1..Len(cwd) : x[i] = cwd[i]  BY <3>3, <3>4, <3>5
    <3>7. x = cwd  BY <3>5, <3>6, Extensional
    <3> QED  BY <3>5, <3>7
  <2> QED  BY <2>3, <2>6, <2>7, Absolute
<1> QED  BY <1>4, <1>5, <1>6 DEF IsUnder

\* What every call but chdir gives to the host for a directory and a name.
HostName(at) == IF at[1] = RISCV_AT_FDCWD THEN do_chroot(at[2]) ELSE at[2]

\* The last names are those that do_chroot makes: the root stays when calls begin.
GivenInv ==
  /\ call.op = "options" => reply = NoReply
  /\ \A i \in DOMAIN reply.asked :
       reply.asked[i] \in At /\ reply.given[i][2] = HostName(reply.asked[i])

LEMMA GivenInit == Init => GivenInv
<1> SUFFICES ASSUME Init PROVE GivenInv  OBVIOUS
<1>1. reply = NoReply /\ reply.asked = <<>>  BY DEF Init, NoReply
<1>2. DOMAIN reply.asked = {}  BY <1>1
<1> QED  BY <1>1, <1>2 DEF GivenInv

LEMMA GivenKept ==
  ASSUME GivenInv, chroot' = chroot, call'.op # "options" \/ call' = call,
         call.op = "options" => reply' = reply,
         \/ reply'.asked = <<>>
         \/ reply'.asked = reply.asked /\ reply'.given = reply.given
         \/ \E at \in At : reply'.asked = <<at>> /\ reply'.given = <<Given(at)>>
         \/ \E old, new \in At : /\ reply'.asked = <<old, new>>
                                 /\ reply'.given = <<Given(old), Given(new)>>
  PROVE  GivenInv'
<1>1. \A at : HostName(at)' = HostName(at)  BY DEF HostName, do_chroot
<1>2. \A at : Given(at)[2] = HostName(at)  BY DEF Given, HostName
<1>0. call'.op = "options" => reply' = NoReply'
  BY DEF GivenInv, NoReply
<1>3. CASE reply'.asked = <<>>
  <2>1. DOMAIN reply'.asked = {}  BY <1>3
  <2> QED  BY <1>0, <2>1 DEF GivenInv
<1>4. CASE reply'.asked = reply.asked /\ reply'.given = reply.given
  BY <1>0, <1>1, <1>4 DEF GivenInv, At
<1>5. ASSUME NEW at \in At, reply'.asked = <<at>>, reply'.given = <<Given(at)>>
      PROVE  GivenInv'
  <2>1. DOMAIN reply'.asked = {1} /\ reply'.asked[1] = at /\ reply'.given[1] = Given(at)
    BY <1>5
  <2> QED  BY <1>0, <1>1, <1>2, <2>1 DEF GivenInv, At
<1>6. ASSUME NEW old \in At, NEW new \in At,
             reply'.asked = <<old, new>>, reply'.given = <<Given(old), Given(new)>>
      PROVE  GivenInv'
  <2>1. /\ DOMAIN reply'.asked = {1, 2} /\ reply'.asked[1] = old /\ reply'.asked[2] = new
        /\ reply'.given[1] = Given(old) /\ reply'.given[2] = Given(new)
    BY <1>6
  <2> QED  BY <1>0, <1>1, <1>2, <2>1 DEF GivenInv, At
<1> QED  BY <1>3, <1>4, <1>5, <1>6

LEMMA GivenStep == TypeOK /\ MainVarsInv /\ GivenInv /\ [Next]_vars => GivenInv'
<1> SUFFICES ASSUME TypeOK, MainVarsInv, GivenInv, [Next]_vars PROVE GivenInv'  OBVIOUS
<1> DEFINE Kept == /\ chroot' = chroot /\ (call'.op # "options" \/ call' = call)
                   /\ (call.op = "options" => reply' = reply)
           Nothing == reply'.asked = <<>>
           Same == reply'.asked = reply.asked /\ reply'.given = reply.given
           One == \E at \in At : reply'.asked = <<at>> /\ reply'.given = <<Given(at)>>
           Two == \E old, new \in At : /\ reply'.asked = <<old, new>>
                                       /\ reply'.given = <<Given(old), Given(new)>>
<1>1. ASSUME NEW where \in Roots, set_chroot(where) PROVE GivenInv'
  <2>1. reply' = NoReply  BY <1>1 DEF set_chroot, GivenInv
  <2>2. DOMAIN reply'.asked = {}  BY <2>1 DEF NoReply
  <2> QED  BY <2>1, <2>2 DEF GivenInv, NoReply
<1>2. ASSUME NEW n \in Numbers, Read(n) \/ Use(n) \/ Fstat(n) \/ Dup(n) \/ Close(n)
      PROVE  Kept /\ Nothing
  <2>1. /\ chroot' = chroot /\ call = Idle
        /\ call' = call \/ call' = [op |-> "close", n |-> n]
    BY <1>2 DEF Read, Use, Fstat, Dup, Close, Dispatch, DispatchChange, place
  <2>2. Nothing  BY <1>2 DEF Read, Use, Fstat, Dup, Close, NoReply
  <2>3. Kept  BY <2>1, IdleCall
  <2> QED  BY <2>2, <2>3
<1>3. ASSUME NEW at \in At, Openat(at) PROVE Kept /\ One
  <2>1. Kept
    <3>1. /\ chroot' = chroot /\ call = Idle
          /\ call' = call \/ \E h \in HostFds : call' = [op |-> "openat", fd |-> h]
      BY <1>3 DEF Openat, Dispatch, DispatchChange, place
    <3> QED  BY <3>1, IdleCall
  <2>2. reply'.asked = <<at>> /\ reply'.given = <<Given(at)>>
    BY <1>3 DEF Openat, NoReply
  <2> QED  BY <2>1, <2>2
<1>4. ASSUME NEW at \in At, StatAt(at) \/ NameAt(at) PROVE Kept /\ One
  <2>1. Kept  BY <1>4, IdleCall DEF StatAt, NameAt, Dispatch, place
  <2>2. reply'.asked = <<at>> /\ reply'.given = <<Given(at)>>
    BY <1>4 DEF StatAt, NameAt, NoReply
  <2> QED  BY <2>1, <2>2
<1>5. ASSUME NEW old \in At, NEW new \in At, TwoNamesAt(old, new) PROVE Kept /\ Two
  <2>1. Kept  BY <1>5, IdleCall DEF TwoNamesAt, Dispatch, place
  <2>2. reply'.asked = <<old, new>> /\ reply'.given = <<Given(old), Given(new)>>
    BY <1>5 DEF TwoNamesAt, NoReply
  <2> QED  BY <2>1, <2>2
<1>6. ASSUME Alloc PROVE Kept /\ Same
  <2>1. Kept  BY <1>6, IdleCall DEF Alloc, place
  <2>2. DOMAIN reply = {"op", "ret", "file", "buf", "asked", "given"}
    BY DEF MainVarsInv, NoReply
  <2>3. Same  BY <1>6, <2>2 DEF Alloc
  <2> QED  BY <2>1, <2>3
<1>7. ASSUME NEW size \in Sizes, Getcwd(size) \/ Getmainvars(size)
      PROVE  Kept /\ Nothing
  BY <1>7, IdleCall DEF Getcwd, Getmainvars, NoReply, Dispatch, place
<1>8. ASSUME NEW fn \in Names, Chdir(fn) PROVE Kept /\ Nothing
  BY <1>8, IdleCall DEF Chdir, NoReply, Dispatch, DispatchChange, place
<1>9. ASSUME ChangeDir PROVE Kept /\ Nothing
  BY <1>9, IdleCall DEF ChangeDir, NoReply
<1>10. ASSUME Serve \/ Exit \/ Dealloc PROVE Kept /\ Same
  BY <1>10, IdleCall DEF Serve, Exit, Dealloc, place
<1>11. ASSUME CountByte \/ CopyByte \/ Store PROVE Kept /\ Same
  <2>1. UNCHANGED <<reply, chroot>> /\ call.op = "chdir"
    BY <1>11 DEF CountByte, CopyByte, Store, place
  <2>2. call'.op \in {"chdir", "overrun"}
    <3>1. call \in ChdirCalls  BY <2>1, CallShapes DEF TypeOK
    <3> QED  BY <1>11, <2>1, <3>1 DEF CountByte, CopyByte, Store, ChdirCalls
  <2> QED  BY <2>1, <2>2
<1>12. ASSUME OpenSocket \/ CloseSocket \/ UNCHANGED vars PROVE Kept /\ Same
  BY <1>12 DEF OpenSocket, CloseSocket, vars, place
<1>13. Kept /\ (Nothing \/ Same \/ One \/ Two) => GivenInv'
  <2> SUFFICES ASSUME Kept, Nothing \/ Same \/ One \/ Two PROVE GivenInv'  OBVIOUS
  <2> QED  BY GivenKept
<1> HIDE DEF Kept, Nothing, Same, One, Two
<1> QED
  BY <1>1, <1>2, <1>3, <1>4, <1>5, <1>6, <1>7, <1>8, <1>9, <1>10, <1>11, <1>12, <1>13
  DEF Next, FileCall, NameCall, OtherCall

LEMMA NamesHold ==
  ASSUME TypeOK, GivenInv
  PROVE  NamesAgree
<1>1. /\ cwd \in Seq(STRING) /\ IsFullName(cwd)
      /\ chroot # <<>> => chroot \in Seq(STRING) /\ IsFullName(chroot)
  BY SyscallConstants DEF TypeOK
<1>2. chroot # <<>> /\ ~IsUnder(cwd, chroot) => undo_chroot(cwd) = <<"/">>
  BY <1>1, UndoOutside
<1>3. ASSUME chroot = <<>> PROVE Resolve(do_chroot(undo_chroot(cwd))) = cwd
  <2>1. undo_chroot(cwd) = cwd /\ do_chroot(cwd) = cwd
    BY <1>3 DEF undo_chroot, do_chroot
  <2> QED  BY <1>1, <2>1, Absolute
<1>4. ASSUME chroot # <<>>, IsUnder(cwd, chroot)
      PROVE  Resolve(do_chroot(undo_chroot(cwd))) = cwd
  BY <1>1, <1>4, UndoInside
<1>5. ASSUME NEW i \in DOMAIN reply.asked, reply.asked[i][1] = RISCV_AT_FDCWD,
             IsAbsolute(reply.asked[i][2]), chroot # <<>>
      PROVE  IsUnder(Normal(reply.given[i][2]), chroot)
  <2> DEFINE fn == reply.asked[i][2]
  <2>1. reply.asked[i] \in At  BY DEF GivenInv
  <2>2. fn \in Seq(STRING)  BY <2>1, SyscallConstants DEF At
  <2>3. reply.given[i][2] = do_chroot(fn)  BY <1>5 DEF GivenInv, HostName
  <2>4. do_chroot(fn) = chroot \o fn  BY <1>5 DEF do_chroot
  <2> HIDE DEF fn
  <2>5. IsAbsolute(fn)  BY <1>5 DEF fn
  <2> QED  BY <1>1, <1>5, <2>2, <2>3, <2>4, <2>5, NormalBelow
<1> QED  BY <1>2, <1>3, <1>4, <1>5 DEF NamesAgree

\* --chroot, for any directories and names: do_chroot and undo_chroot agree about every
\* directory inside the root, outside it getcwd tells the root, and no absolute name
\* that is looked up from AT_FDCWD leaves the root.
THEOREM NamesTheorem == Spec => []NamesAgree
<1>1. TypeOK /\ GivenInv => NamesAgree  BY NamesHold
<1>2. Init => MainVarsInv /\ GivenInv  BY MainVarsInit, GivenInit
<1>3. TypeOK /\ (MainVarsInv /\ GivenInv) /\ [Next]_vars => (MainVarsInv /\ GivenInv)'
  BY MainVarsStep, GivenStep
<1> QED  BY <1>1, <1>2, <1>3, TypeCorrect, PTL DEF Spec

===============================================================================
