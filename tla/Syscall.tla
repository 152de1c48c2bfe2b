--------------------------------- MODULE Syscall --------------------------------
(***************************************************************************)
(* syscall_t and fds_t: the calls of the target program that the host      *)
(* executes for it.  The target names files by numbers that fds_t maps to  *)
(* descriptors of the host process.  The kernel of the host is external,   *)
(* and other parts of the process use it too: the thread of rfb_t opens    *)
(* and closes its sockets between any two steps of this thread.  Another   *)
(* hart of the target may store to memory while a call reads it.           *)
(***************************************************************************)
EXTENDS Integers, Sequences, FiniteSets, SequencesExt

CONSTANTS
  HostFds,     \* the descriptors the host process may have
  Numbers,     \* the file numbers the target uses
  DirNumbers,  \* those it uses to name a directory
  Dirs,        \* the directories of the host, as sequences of "/" and letters
  Names,       \* the names the target passes
  Roots,       \* the arguments of --chroot
  ArgLists,    \* the possible arguments of the target program, sequences of strings
  Sizes,       \* the sizes of the buffers it provides
  VarsAt,      \* the address of its buffer for getmainvars
  PathSize,    \* bound: the bytes of memory that may hold chdir's string
  Homes,       \* the directories the host program may be started in
  MaxCalls,    \* bound: the calls that change descriptors or the directory
  MaxSockets   \* bound: the sockets of rfb_t

RISCV_AT_FDCWD == -100
AT_FDCWD == -100
NoFd == -1

\* The host process starts with three descriptors and dups two of them.  Files are
\* numbered by when they were opened; 0 stands for a closed descriptor.
Stdin == 1
Stdout == 2
Stderr == 3
Socket == 4
Own == 0..2
Std == <<Stdin, Stdout, Stderr, Stdin, Stdout, Stdout>>

EPERM == 1
EBADF == 9
ENOMEM == 12

WordBytes == 8

\* How the kernel writes the name of a directory (getcwd).
IsFullName(d) ==
  /\ d # <<>> /\ d[1] = "/"
  /\ \A i \in 2..Len(d) : d[i] = "/" => d[i - 1] # "/" /\ i # Len(d)

ASSUME SyscallConstants ==
  /\ HostFds \subseteq Nat /\ 0..5 \subseteq HostFds
  /\ Numbers \subseteq Nat \cup {RISCV_AT_FDCWD} /\ DirNumbers \subseteq Numbers
  /\ PathSize \in Nat /\ Sizes \subseteq Nat /\ VarsAt \in Nat
  /\ Dirs \subseteq Seq(STRING) /\ (\A d \in Dirs : IsFullName(d))
  /\ Names \subseteq Seq(STRING) /\ ArgLists \subseteq Seq(Seq(STRING))
  /\ Homes \subseteq Dirs /\ MaxCalls \in Nat /\ MaxSockets \in Nat

VARIABLES
  host,       \* the kernel: which file each descriptor of the process is open on
  opened,     \* the file opened last
  sockets,    \* the descriptors that rfb_t holds
  dups,       \* those that fcntl made for the target
  fds,        \* fds_t::fds: number n is fds[n + 1]
  call,       \* the call in progress
  reply,      \* what the last call has done for the target
  chroot, cwd,
  targs,
  doubted,    \* the numbers whose close reported an error
  misused,    \* the target has named such a number since
  ncalls      \* the calls made so far that MaxCalls bounds

kernel == <<host, opened, sockets, dups>>
place == <<chroot, cwd, targs>>
promise == <<doubted, misused>>
vars == <<kernel, fds, call, reply, place, promise, ncalls>>

-------------------------------------------------------------------------------
(* fds_t.                                                                   *)

\* A bug: the search misses the last entry, and a full table loses its last file.
FirstFreeShort(i) ==
  /\ i \in 1..Len(fds)
  /\ i < Len(fds) => fds[i] = NoFd
  /\ \A j \in 1..i - 1 : fds[j] # NoFd

\* alloc(fd) puts fd at the first entry that is free, or at a new one.
FirstFree(i) ==
  /\ i \in 1..Len(fds) + 1
  /\ i <= Len(fds) => fds[i] = NoFd
  /\ \A j \in 1..i - 1 : fds[j] # NoFd

Put(i, fd) == IF i > Len(fds) THEN Append(fds, fd) ELSE [fds EXCEPT ![i] = fd]

dealloc(n) == fds' = [fds EXCEPT ![n + 1] = NoFd]

lookup(n) ==
  IF n = RISCV_AT_FDCWD THEN AT_FDCWD
  ELSE IF n >= Len(fds) THEN NoFd ELSE fds[n + 1]

\* The file that the host finds behind a number, if any.
FileOf(n) == IF lookup(n) \in HostFds THEN host[lookup(n)] ELSE 0

-------------------------------------------------------------------------------
(* Names.                                                                   *)

IsAbsolute(fn) == fn # <<>> /\ fn[1] = "/"
EndsInSlash(fn) == fn # <<>> /\ Last(fn) = "/"

do_chroot(fn) == IF chroot # <<>> /\ IsAbsolute(fn) THEN chroot \o fn ELSE fn

\* A bug: any name that begins with the letters of the root counts as inside.
undo_chroot_prefix(fn) ==
  IF chroot = <<>> THEN fn
  ELSE IF IsPrefix(chroot, fn) /\ chroot # fn
  THEN SubSeq(fn, Len(chroot) + (IF EndsInSlash(chroot) THEN 0 ELSE 1), Len(fn))
  ELSE <<"/">>

undo_chroot(fn) ==
  IF chroot = <<>> THEN fn
  ELSE IF /\ IsPrefix(chroot, fn)
          /\ EndsInSlash(chroot) \/ (Len(fn) > Len(chroot) /\ fn[Len(chroot) + 1] = "/")
  THEN SubSeq(fn, Len(chroot) + (IF EndsInSlash(chroot) THEN 0 ELSE 1), Len(fn))
  ELSE <<"/">>

\* How the kernel reads a name: slashes in a row count once, one at the end not at all.
\* Squeezed(fn)[i] is what the first i characters count for.
Adds(name, c) == IF c = "/" /\ EndsInSlash(name) THEN name ELSE Append(name, c)

Squeezed(fn) ==
  LET squeezed[i \in 0..Len(fn)] == IF i = 0 THEN <<>> ELSE Adds(squeezed[i - 1], fn[i])
  IN  squeezed

Normal(fn) ==
  LET name == Squeezed(fn)[Len(fn)]
  IN  IF Len(name) > 1 /\ EndsInSlash(name) THEN Front(name) ELSE name

Resolve(fn) == Normal(IF IsAbsolute(fn) THEN fn ELSE cwd \o <<"/">> \o fn)

\* Directory d, or something below it; both in normal form.
IsUnder(fn, d) ==
  \/ fn = d \/ d = <<"/">>
  \/ IsPrefix(d \o <<"/">>, fn)

\* AT_SYSCALL, renameat and linkat: the directory and the name that the host is given.
Given(at) ==
  <<lookup(at[1]), IF at[1] = RISCV_AT_FDCWD THEN do_chroot(at[2]) ELSE at[2]>>

\* The host can begin to look the name up.
CanLookUp(at) ==
  \/ IsAbsolute(Given(at)[2]) \/ at[1] = RISCV_AT_FDCWD \/ FileOf(at[1]) # 0

-------------------------------------------------------------------------------
(* Calls.                                                                   *)

Idle == [op |-> "none"]
NoReply == [op |-> "none", ret |-> 0, file |-> 0, buf |-> <<>>, asked |-> <<>>, given |-> <<>>]

\* What a host call that may return oks returns, when there is a file for it or not:
\* sysret_errno makes a -1 the negated errno.
Results(possible, oks) == IF possible THEN oks \cup {-ENOMEM} ELSE {-EBADF}

\* dispatch: the target waits for one call to end before it makes the next.
Dispatch == call = Idle

\* A call that changes descriptors or the directory.
DispatchChange == Dispatch /\ ncalls < MaxCalls /\ ncalls' = ncalls + 1

\* The target names the numbers in ns: the promise ends if one is in doubt.
Naming(ns) == misused' = (misused \/ ns \cap doubted # {})

Init ==
  /\ host = [h \in HostFds |-> IF h < 6 THEN Std[h + 1] ELSE 0]
  /\ opened = Socket
  /\ sockets = {} /\ dups = {}
  /\ fds = <<3, 4, 5>>
  /\ call = [op |-> "options"]
  /\ reply = NoReply
  /\ chroot = <<>> /\ cwd \in Homes /\ targs \in ArgLists
  /\ doubted = {} /\ misused = FALSE
  /\ ncalls = 0

\* --chroot, while the arguments are parsed: there and back, so that getcwd tells
\* the full name.  The program ends if there is no such directory.
set_chroot(where) ==
  /\ call.op = "options"
  /\ IF Resolve(where) \in Dirs
     THEN chroot' = Resolve(where) /\ UNCHANGED call
     ELSE call' = [op |-> "exit"] /\ UNCHANGED chroot
  /\ UNCHANGED <<kernel, fds, reply, cwd, targs, promise, ncalls>>

Serve ==
  /\ call.op = "options" /\ call' = Idle
  /\ UNCHANGED <<kernel, fds, reply, place, promise, ncalls>>

\* read and pread: ret bytes arrive in the buffer.
Read(n) ==
  /\ Dispatch /\ Naming({n})
  /\ \E ret \in Results(FileOf(n) # 0, {0, 2}) :
       reply' = [NoReply EXCEPT !.op = "read", !.file = FileOf(n), !.ret = ret,
                                !.buf = IF ret > 0 THEN [i \in 1..ret |-> "data"] ELSE <<>>]
  /\ UNCHANGED <<kernel, fds, call, place, doubted, ncalls>>

\* write, pwrite, lseek, ftruncate, and the commands of fcntl but F_DUPFD.
Use(n) ==
  /\ Dispatch /\ Naming({n})
  /\ \E ret \in Results(FileOf(n) # 0, {1}) :
       reply' = [NoReply EXCEPT !.op = "use", !.file = FileOf(n), !.ret = ret]
  /\ UNCHANGED <<kernel, fds, call, place, doubted, ncalls>>

\* A copy of what the host has filled, or has not.
riscv_stat(filled) == IF filled THEN <<"stat">> ELSE <<"garbage">>

\* The stat calls compare what sysret_errno returns with -1: after an error other
\* than EPERM they write a buffer that the host has not filled.
StatBuffer(ret) == IF ret = -1 THEN <<>> ELSE riscv_stat(ret = 0)

Fstat(n) ==
  /\ Dispatch /\ Naming({n})
  /\ \E ret \in Results(FileOf(n) # 0, {0, -EPERM}) :
       reply' = [NoReply EXCEPT !.op = "stat", !.file = FileOf(n), !.ret = ret,
                                !.buf = StatBuffer(ret)]
  /\ UNCHANGED <<kernel, fds, call, place, doubted, ncalls>>

\* The kernel takes the lowest descriptor that is free.
LowestFd(h) == h \in HostFds /\ host[h] = 0 /\ \A k \in HostFds : k < h => host[k] # 0

\* fcntl(F_DUPFD): the target gets the host's number for the new descriptor, which
\* fds_t does not know.
Dup(n) ==
  /\ DispatchChange /\ Naming({n})
  /\ FileOf(n) # 0
  /\ \E h \in HostFds :
       /\ LowestFd(h)
       /\ host' = [host EXCEPT ![h] = FileOf(n)]
       /\ dups' = dups \cup {h}
       /\ reply' = [NoReply EXCEPT !.op = "use", !.file = FileOf(n), !.ret = h]
  /\ UNCHANGED <<opened, sockets, fds, call, place, doubted>>

\* openat, in the host and then in the table.
Openat(at) ==
  /\ DispatchChange /\ Naming({at[1]})
  /\ \/ /\ CanLookUp(at)
        /\ opened' = opened + 1
        /\ \E h \in HostFds :
             /\ LowestFd(h)
             /\ host' = [host EXCEPT ![h] = opened']
             /\ call' = [op |-> "openat", fd |-> h]
        /\ reply' = [NoReply EXCEPT !.asked = <<at>>, !.given = <<Given(at)>>]
     \/ /\ \E ret \in Results(CanLookUp(at), {}) :
             reply' = [NoReply EXCEPT !.op = "openat", !.ret = ret,
                                      !.asked = <<at>>, !.given = <<Given(at)>>]
        /\ UNCHANGED <<host, opened, call>>
  /\ UNCHANGED <<sockets, dups, fds, place, doubted>>

Alloc ==
  /\ call.op = "openat"
  /\ \E i \in 1..Len(fds) + 1 :
       /\ FirstFree(i)
       /\ fds' = Put(i, call.fd)
       /\ reply' = [reply EXCEPT !.op = "openat", !.ret = i - 1, !.file = host[call.fd]]
  /\ call' = Idle
  /\ UNCHANGED <<kernel, place, promise, ncalls>>

\* close, in the host and then in the table.  When the host reports an error, the
\* entry stays, whether the kernel has let the descriptor go or not.
Close(n) ==
  /\ DispatchChange /\ Naming({n})
  /\ \/ /\ FileOf(n) # 0
        /\ host' = [host EXCEPT ![lookup(n)] = 0]
        /\ call' = [op |-> "close", n |-> n]
        /\ reply' = [NoReply EXCEPT !.op = "close"]
        /\ UNCHANGED doubted
     \/ /\ FileOf(n) # 0
        /\ \E left \in {0, FileOf(n)} : host' = [host EXCEPT ![lookup(n)] = left]
        /\ doubted' = doubted \cup {n}
        /\ reply' = [NoReply EXCEPT !.op = "close", !.ret = -EPERM]
        /\ UNCHANGED call
     \/ /\ FileOf(n) = 0
        /\ reply' = [NoReply EXCEPT !.op = "close", !.ret = -EBADF]
        /\ UNCHANGED <<host, call, doubted>>
  /\ UNCHANGED <<opened, sockets, dups, fds, place>>

\* A bug: the entry stays when the host has closed the file.
DeallocForgotten ==
  /\ call.op = "close"
  /\ call' = Idle
  /\ UNCHANGED <<kernel, fds, reply, place, promise, ncalls>>

Dealloc ==
  /\ call.op = "close"
  /\ dealloc(call.n)
  /\ call' = Idle
  /\ UNCHANGED <<kernel, reply, place, promise, ncalls>>

\* fstatat, and lstat, which is fstatat from AT_FDCWD.
StatAt(at) ==
  /\ Dispatch /\ Naming({at[1]})
  /\ \E ret \in Results(CanLookUp(at), {0, -EPERM}) :
       reply' = [NoReply EXCEPT !.op = "stat", !.ret = ret, !.buf = StatBuffer(ret),
                                !.asked = <<at>>, !.given = <<Given(at)>>]
  /\ UNCHANGED <<kernel, fds, call, place, doubted, ncalls>>

\* faccessat, unlinkat and mkdirat.
NameAt(at) ==
  /\ Dispatch /\ Naming({at[1]})
  /\ \E ret \in Results(CanLookUp(at), {0}) :
       reply' = [NoReply EXCEPT !.op = "name", !.ret = ret,
                                !.asked = <<at>>, !.given = <<Given(at)>>]
  /\ UNCHANGED <<kernel, fds, call, place, doubted, ncalls>>

\* renameat and linkat.
TwoNamesAt(old, new) ==
  /\ Dispatch /\ Naming({old[1], new[1]})
  /\ \E ret \in Results(CanLookUp(old) /\ CanLookUp(new), {0}) :
       reply' = [NoReply EXCEPT !.op = "name", !.ret = ret, !.asked = <<old, new>>,
                                !.given = <<Given(old), Given(new)>>]
  /\ UNCHANGED <<kernel, fds, call, place, doubted, ncalls>>

Getcwd(size) ==
  /\ Dispatch
  /\ LET tmp == undo_chroot(cwd)
     IN  reply' = IF Len(cwd) >= size \/ Len(tmp) >= size
                  THEN [NoReply EXCEPT !.op = "getcwd", !.ret = -ENOMEM]
                  ELSE [NoReply EXCEPT !.op = "getcwd", !.ret = Len(tmp) + 1,
                                       !.buf = Append(tmp, "NUL")]
  /\ UNCHANGED <<kernel, fds, call, place, promise, ncalls>>

\* What getmainvars puts in the buffer: argc, the addresses of the arguments, two
\* null words, and then the strings.  Argument i is at ArgEnd[i - 1].
ArgsAt == WordBytes * (Len(targs) + 3)

\* A bug: no room for the NUL at the end of an argument.
ArgEndNoNul ==
  LET end[i \in 0..Len(targs)] ==
        IF i = 0 THEN ArgsAt ELSE end[i - 1] + Len(targs[i])
  IN  end

ArgEnd ==
  LET end[i \in 0..Len(targs)] ==
        IF i = 0 THEN ArgsAt ELSE end[i - 1] + Len(targs[i]) + 1
  IN  end

MainVars ==
  LET n == Len(targs)
      copied(o) == {i \in 1..n : ArgEnd[i - 1] <= o /\ o <= ArgEnd[i - 1] + Len(targs[i])}
      \* strcpy in the order of the arguments: the last that covers a byte is seen
      byte(o) == IF copied(o) = {} THEN "NUL"
                 ELSE LET i == Max(copied(o)) IN Append(targs[i], "NUL")[o - ArgEnd[i - 1] + 1]
  IN  [words |-> <<n>> \o [i \in 1..n |-> VarsAt + ArgEnd[i - 1]] \o <<0, 0>>,
       bytes |-> [o \in ArgsAt..ArgEnd[n] - 1 |-> byte(o)]]

Getmainvars(limit) ==
  /\ Dispatch
  /\ reply' = IF ArgEnd[Len(targs)] > limit
              THEN [NoReply EXCEPT !.op = "getmainvars", !.ret = -ENOMEM]
              ELSE [NoReply EXCEPT !.op = "getmainvars", !.buf = MainVars]
  /\ UNCHANGED <<kernel, fds, call, place, promise, ncalls>>

\* chdir reads the string twice, a byte at a time: to count its bytes, and to copy
\* them to a buffer of that size.  str tells which bytes are not NUL.
Chdir(fn) ==
  /\ DispatchChange
  /\ \E str \in [1..PathSize -> BOOLEAN] :
       call' = [op |-> "chdir", name |-> fn, str |-> str, size |-> 0, offset |-> 0,
                copying |-> FALSE, changed |-> FALSE]
  /\ reply' = NoReply
  /\ UNCHANGED <<kernel, fds, place, promise>>

IsChar(k) == k < PathSize /\ call.str[k + 1]

\* A bug: the NUL is not counted.
CountByteNoNul ==
  /\ call.op = "chdir" /\ ~call.copying
  /\ call' = IF IsChar(call.size) THEN [call EXCEPT !.size = @ + 1]
             ELSE [call EXCEPT !.copying = TRUE]
  /\ UNCHANGED <<kernel, fds, reply, place, promise, ncalls>>

CountByte ==
  /\ call.op = "chdir" /\ ~call.copying
  /\ call' = [call EXCEPT !.size = @ + 1, !.copying = ~IsChar(call.size)]
  /\ UNCHANGED <<kernel, fds, reply, place, promise, ncalls>>

\* Past the end of the buffer anything may happen: "overrun" is the end.
CopyByte ==
  /\ call.op = "chdir" /\ call.copying
  /\ call.offset >= call.size \/ IsChar(call.offset)
  /\ call' = IF call.offset < call.size THEN [call EXCEPT !.offset = @ + 1]
             ELSE [call EXCEPT !.op = "overrun"]
  /\ UNCHANGED <<kernel, fds, reply, place, promise, ncalls>>

\* The name goes to the host as it is, without do_chroot.
ChangeDir ==
  /\ call.op = "chdir" /\ call.copying
  /\ call.offset < call.size /\ ~IsChar(call.offset)
  /\ \/ /\ Resolve(call.name) \in Dirs
        /\ cwd' = Resolve(call.name)
        /\ reply' = [NoReply EXCEPT !.op = "chdir"]
     \/ /\ reply' = [NoReply EXCEPT !.op = "chdir", !.ret = -ENOMEM]
        /\ UNCHANGED cwd
  /\ call' = Idle
  /\ UNCHANGED <<kernel, fds, chroot, targs, promise, ncalls>>

\* exit, and the exception of a call that is not in the table.
Exit ==
  /\ Dispatch /\ call' = [op |-> "exit"]
  /\ UNCHANGED <<kernel, fds, reply, place, promise, ncalls>>

-------------------------------------------------------------------------------
(* The rest of the system.                                                  *)

\* Another hart stores to the string of chdir.
Store ==
  /\ call.op = "chdir"
  /\ \E i \in 1..PathSize : call' = [call EXCEPT !.str[i] = ~@, !.changed = TRUE]
  /\ UNCHANGED <<kernel, fds, reply, place, promise, ncalls>>

\* The thread of rfb_t: socket() and accept(), and the two closes.
Running == call.op \notin {"options", "exit", "overrun"}

OpenSocket ==
  /\ Running
  /\ Cardinality(sockets) < MaxSockets
  /\ \E h \in HostFds :
       /\ LowestFd(h)
       /\ host' = [host EXCEPT ![h] = Socket]
       /\ sockets' = sockets \cup {h}
  /\ UNCHANGED <<opened, dups, fds, call, reply, place, promise, ncalls>>

CloseSocket ==
  /\ Running
  /\ \E h \in sockets :
       /\ host' = [host EXCEPT ![h] = 0]
       /\ sockets' = sockets \ {h}
  /\ UNCHANGED <<opened, dups, fds, call, reply, place, promise, ncalls>>

At == DirNumbers \X Names

FileCall ==
  \/ \E n \in Numbers : Read(n) \/ Use(n) \/ Fstat(n) \/ Dup(n) \/ Close(n)
  \/ \E at \in At : Openat(at)
  \/ Alloc \/ Dealloc

NameCall ==
  \/ \E at \in At : StatAt(at) \/ NameAt(at)
  \/ \E old, new \in At : TwoNamesAt(old, new)
  \/ \E fn \in Names : Chdir(fn)
  \/ CountByte \/ CopyByte \/ ChangeDir

OtherCall ==
  \/ \E size \in Sizes : Getcwd(size) \/ Getmainvars(size)
  \/ Exit

Next ==
  \/ \E where \in Roots : set_chroot(where)
  \/ Serve
  \/ FileCall \/ NameCall \/ OtherCall
  \/ Store \/ OpenSocket \/ CloseSocket

Spec == Init /\ [][Next]_vars

-------------------------------------------------------------------------------
(* Properties.                                                              *)

\* The calls that take more than one step.
Calls ==
  [op : {"options", "none", "exit"}]
  \cup [op : {"openat"}, fd : HostFds]
  \cup [op : {"close"}, n : Nat]
  \cup [op : {"chdir", "overrun"}, name : Names, str : [1..PathSize -> BOOLEAN], size : Nat,
        offset : Nat, copying : BOOLEAN, changed : BOOLEAN]

\* The values of the variables.
TypeOK ==
  /\ host \in [HostFds -> Nat] /\ opened \in Nat
  /\ sockets \subseteq HostFds /\ dups \subseteq HostFds
  /\ fds \in Seq(HostFds \cup {NoFd})
  /\ call \in Calls
  /\ chroot \in Dirs \cup {<<>>} /\ cwd \in Dirs /\ targs \in ArgLists
  /\ doubted \subseteq Nat /\ misused \in BOOLEAN
  /\ ncalls \in 0..MaxCalls

\* The table as the target sees it: it has no part in a close that has not ended.
TargetView ==
  [i \in DOMAIN fds |->
     IF fds[i] = NoFd \/ (call.op = "close" /\ call.n = i - 1) THEN 0
     ELSE IF i - 1 \in doubted THEN -1
     ELSE host[fds[i]]]

Promised == INSTANCE Descriptors WITH
  tab <- IF misused THEN <<>> ELSE TargetView,
  last <- IF misused THEN 0 ELSE IF call.op = "openat" THEN opened - 1 ELSE opened,
  seen <- IF misused THEN 0 ELSE reply.file,
  void <- misused

\* Each number the target was given reaches the file it was opened as until it is
\* closed, whatever the target opens and closes besides and the thread of rfb_t does
\* between the host's half and the table's half of an openat or a close.
ImplementsDescriptors == Promised!Spec

\* The entries of the table that the target may count on.
Sure == {i \in DOMAIN fds : /\ fds[i] # NoFd /\ i - 1 \notin doubted
                            /\ ~(call.op = "close" /\ call.n = i - 1)}

Holders == {"program", "rfb", "fcntl", "table", "call"}

Holds(who, h) ==
  \/ who = "program" /\ h \in Own
  \/ who = "rfb" /\ h \in sockets
  \/ who = "fcntl" /\ h \in dups
  \/ who = "table" /\ \E i \in Sure : fds[i] = h
  \/ who = "call" /\ call.op = "openat" /\ h = call.fd

\* At most one of them holds h, which is open then; one of them does if it is open.
Owned(h) ==
  /\ \A a \in Holders : Holds(a, h) =>
       host[h] # 0 /\ \A b \in Holders : Holds(b, h) => a = b
  /\ doubted = {} /\ host[h] # 0 => \E a \in Holders : Holds(a, h)

\* Every descriptor of the process has one owner: the host program, rfb_t, one entry
\* of the table, a call in progress or a duplicate of fcntl.  None is lost when a
\* call fails halfway, unless a close left its descriptor in doubt.
OneOwner ==
  ~misused =>
    /\ \A i, j \in Sure : fds[i] = fds[j] => i = j
    /\ \A h \in HostFds : Owned(h)

\* chdir copies within its buffer, however the string lies in memory, as long as no
\* other hart changes the string between the two times it is read.
ChdirFits == call.op = "overrun" => call.changed

\* Names keep their meaning: the name that getcwd gives for a directory inside the
\* root leads back to it, outside the root it is the root's own, and every absolute
\* name that is looked up from AT_FDCWD, both of them in renameat and linkat, stays
\* below the root.
NamesAgree ==
  /\ chroot # <<>> /\ ~IsUnder(cwd, chroot) => undo_chroot(cwd) = <<"/">>
  /\ chroot = <<>> \/ IsUnder(cwd, chroot) => Resolve(do_chroot(undo_chroot(cwd))) = cwd
  /\ \A i \in DOMAIN reply.asked :
       (/\ reply.asked[i][1] = RISCV_AT_FDCWD
        /\ IsAbsolute(reply.asked[i][2]) /\ chroot # <<>>)
         => IsUnder(Normal(reply.given[i][2]), chroot)

\* The program's main finds argc, argv and the strings: each pointer leads to its
\* argument and the NUL after it, inside the bytes that were written, and the
\* string of one argument does not run into that of the next.
MainVarsReadable ==
  (reply.op = "getmainvars" /\ reply.ret = 0) =>
    LET w == reply.buf.words  b == reply.buf.bytes
        argc == Len(targs)
    IN  /\ w[1] = argc /\ w[argc + 2] = 0
        /\ \A i \in 1..argc :
             LET start == w[i + 1] - VarsAt
             IN  /\ \A k \in 1..Len(targs[i]) : b[start + k - 1] = targs[i][k]
                 /\ b[start + Len(targs[i])] = "NUL"

===============================================================================
