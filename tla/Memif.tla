--------------------------------- MODULE Memif ---------------------------------
(***************************************************************************)
(* memif_t: reads and writes of any address and length on top of a backend *)
(* that only moves whole, aligned chunks.  A first and a last chunk that   *)
(* the call covers in part are read, merged and written back; the rest     *)
(* goes in chunks of at most MaxChunk bytes.                               *)
(*                                                                         *)
(* The backend moves a chunk one unit of Align bytes at a time: a word of  *)
(* tsi_t, a register of dtm_t.  The target's cores store to the same       *)
(* memory between any two units.  Time is the order in which the accesses  *)
(* take effect: that a backend posts its writes (RemoteMemory) changes     *)
(* when that is, not the order.                                            *)
(***************************************************************************)
EXTENDS Naturals

CONSTANTS
  Align,      \* chunk_align(): 4 of tsi, xlen / 8 of dtm, 64 of pthread
  MaxChunk,   \* chunk_max_size()
  Size,       \* bytes of memory
  Sizes,      \* sizes of the types that have accessors
  Byte,       \* what a byte of memory holds
  Contents,   \* initial contents of memory
  Written,    \* bytes that the host writes
  TargetByte, \* what the target stores
  MaxCalls, MaxStores  \* bounds: calls of the host, stores of the target

Addrs == 0 .. Size - 1

Aligned(a) == a % Align = 0

\* The sizes are powers of 2, so that a small one divides Align.
ASSUME MemifConstants ==
  /\ Align \in Nat \ {0} /\ MaxChunk \in Nat \ {0} /\ Size \in Nat \ {0}
  /\ Aligned(MaxChunk) /\ Aligned(Size)
  /\ Sizes \subseteq Nat \ {0}
  /\ \A n \in Sizes : n <= Align => Align % n = 0
  /\ 0 \in Byte /\ TargetByte \in Byte /\ Written \subseteq Byte
  /\ Contents \subseteq [Addrs -> Byte]
  /\ MaxCalls \in Nat /\ MaxStores \in Nat

VARIABLES
  mem,
  call,    \* the arguments: [op, addr, len, src]
  pc,
  addr, len, bytes,  \* what is left of them; bytes counts from the start
  chunk,   \* the local buffer in which a partial chunk is merged
  pos,     \* the loop variable over the aligned rest
  off,     \* bytes of the current chunk that the backend has moved
  dst,     \* the caller's buffer of a read
  calls, stores,
  \* Histories of the call:
  held,    \* what the range of a read has held so far
  stored,  \* where the target has stored
  raced    \* where it has stored in a chunk that was being merged

local == <<call, addr, len, bytes, chunk, pos, off, dst>>
vars == <<mem, pc, calls, stores, held, stored, raced, local>>

Lesser(a, b) == IF a < b THEN a ELSE b

Base(a) == a - (a % Align)

\* memcpy of n bytes: from c, at index j on, to f, at index i on.
Memcpy(f, i, c, j, n) ==
  [k \in DOMAIN f |-> IF k \in i .. i + n - 1 THEN c[j + (k - i)] ELSE f[k]]

\* One aligned unit of memory.
Unit(a) == [k \in 0 .. Align - 1 |-> mem[a + k]]

Zeros == [k \in 0 .. MaxChunk - 1 |-> 0]

NoCall == [op |-> "none", addr |-> 0, len |-> 0, src |-> <<>>]

CallRange == call.addr .. call.addr + call.len - 1

Snapshot(m, a, n) == [k \in 0 .. n - 1 |-> m[a + k]]

Partial == len % Align         \* bytes of the last chunk
Start == len - Partial         \* and where it begins

HeadLen == Lesser(len, Align - (addr % Align))

\* The first step that is not skipped, before and after the first chunk, and
\* after the last one.
AfterTail(n) == IF n > 0 THEN "body" ELSE "done"
AfterHead(n) == IF ~Aligned(n) THEN "tail" ELSE AfterTail(n)
\* Mutant: only the length decides whether there is a partial chunk.
UnalignedFirstPc(a, n) == AfterHead(n)

FirstPc(a, n) == IF n > 0 /\ ~Aligned(a) THEN "head" ELSE AfterHead(n)

\* The chunk that the backend is asked to move.
Access ==
  CASE pc \in {"head", "headStore"} -> [at |-> Base(addr), len |-> Align]
    [] pc \in {"tail", "tailStore"} -> [at |-> addr + Start, len |-> Align]
    [] pc = "body" -> [at |-> addr + pos, len |-> Lesser(MaxChunk, len - pos)]

\* Mutant: the first byte decides.
FirstZero == call.src[bytes] = 0

AllZero == \A k \in 0 .. len - 1 : call.src[bytes + k] = 0

Init ==
  /\ mem \in Contents
  /\ call = NoCall /\ pc = "idle"
  /\ addr = 0 /\ len = 0 /\ bytes = 0 /\ pos = 0 /\ off = 0
  /\ chunk = Unit(0) /\ dst = <<>>
  /\ calls = 0 /\ stores = 0
  /\ held = {} /\ stored = {} /\ raced = {}

-----------------------------------------------------------------------------
(* The calls.                                                              *)

Begin(a, n) ==
  /\ pc = "idle" /\ calls < MaxCalls /\ calls' = calls + 1
  /\ pc' = FirstPc(a, n)
  /\ addr' = a /\ len' = n /\ bytes' = 0 /\ pos' = 0 /\ off' = 0
  /\ stored' = {} /\ raced' = {}
  /\ UNCHANGED <<mem, chunk, stores>>

Read(a, n) ==
  /\ Begin(a, n)
  /\ call' = [op |-> "read", addr |-> a, len |-> n, src |-> <<>>]
  /\ dst' = [k \in 0 .. n - 1 |-> 0]
  /\ held' = {Snapshot(mem, a, n)}

Write(a, n, src) ==
  /\ Begin(a, n)
  /\ call' = [op |-> "write", addr |-> a, len |-> n, src |-> src]
  /\ dst' = <<>> /\ held' = {}

\* A typed accessor throws when the address is no multiple of the size, and
\* is a read or write of that size otherwise.
Throw(a, n) ==
  /\ pc = "idle" /\ calls < MaxCalls
  /\ a % n # 0
  /\ pc' = "threw"
  /\ UNCHANGED <<mem, calls, stores, held, stored, raced, local>>

Return ==
  /\ pc = "done"
  /\ pc' = "idle" /\ call' = NoCall /\ dst' = <<>> /\ held' = {}
  /\ UNCHANGED <<mem, addr, len, bytes, chunk, pos, off, calls, stores, stored,
                 raced>>

-----------------------------------------------------------------------------
(* The first chunk.                                                        *)

PastHead ==
  /\ addr' = addr + HeadLen /\ len' = len - HeadLen
  /\ bytes' = bytes + HeadLen
  /\ pc' = AfterHead(len - HeadLen)

ReadHead ==
  /\ pc = "head" /\ call.op = "read"
  /\ dst' = Memcpy(dst, bytes, Unit(Base(addr)), addr % Align, HeadLen)
  /\ PastHead
  /\ UNCHANGED <<mem, call, chunk, pos, off, calls, stores, held, stored, raced>>

FetchHead ==
  /\ pc = "head" /\ call.op = "write"
  /\ chunk' = Memcpy(Unit(Base(addr)), addr % Align, call.src, bytes, HeadLen)
  /\ pc' = "headStore" /\ raced' = {}
  /\ UNCHANGED <<mem, call, addr, len, bytes, pos, off, dst, calls, stores, held,
                 stored>>

StoreHead ==
  /\ pc = "headStore"
  /\ mem' = Memcpy(mem, Base(addr), chunk, 0, Align)
  /\ PastHead
  /\ UNCHANGED <<call, chunk, pos, off, dst, calls, stores, held, stored, raced>>

-----------------------------------------------------------------------------
(* The last chunk.                                                         *)

PastTail == len' = Start /\ pc' = AfterTail(Start)

\* Mutant: the last chunk lands at the front of what is left.
MisplacedReadTail ==
  /\ pc = "tail" /\ call.op = "read"
  /\ dst' = Memcpy(dst, bytes, Unit(addr + Start), 0, Partial)
  /\ PastTail
  /\ UNCHANGED <<mem, call, addr, bytes, chunk, pos, off, calls, stores, held,
                 stored, raced>>

ReadTail ==
  /\ pc = "tail" /\ call.op = "read"
  /\ dst' = Memcpy(dst, bytes + Start, Unit(addr + Start), 0, Partial)
  /\ PastTail
  /\ UNCHANGED <<mem, call, addr, bytes, chunk, pos, off, calls, stores, held,
                 stored, raced>>

\* Mutant: the old contents of the last chunk are not fetched.
BlindFetchTail ==
  /\ pc = "tail" /\ call.op = "write"
  /\ chunk' = Memcpy(chunk, 0, call.src, bytes + Start, Partial)
  /\ pc' = "tailStore" /\ raced' = {}
  /\ UNCHANGED <<mem, call, addr, len, bytes, pos, off, dst, calls, stores, held,
                 stored>>

FetchTail ==
  /\ pc = "tail" /\ call.op = "write"
  /\ chunk' = Memcpy(Unit(addr + Start), 0, call.src, bytes + Start, Partial)
  /\ pc' = "tailStore" /\ raced' = {}
  /\ UNCHANGED <<mem, call, addr, len, bytes, pos, off, dst, calls, stores, held,
                 stored>>

StoreTail ==
  /\ pc = "tailStore"
  /\ mem' = Memcpy(mem, addr + Start, chunk, 0, Align)
  /\ PastTail
  /\ UNCHANGED <<call, addr, bytes, chunk, pos, off, dst, calls, stores, held,
                 stored, raced>>

-----------------------------------------------------------------------------
(* The aligned rest: one unit of one chunk.                                *)

PastUnit ==
  IF off + Align < Access.len
    THEN off' = off + Align /\ UNCHANGED <<pos, pc>>
    ELSE /\ off' = 0 /\ pos' = pos + MaxChunk
         /\ pc' = IF pos + MaxChunk < len THEN "body" ELSE "done"

\* Mutant: the backend reads byte by byte.
BytewiseReadUnit ==
  /\ pc = "body" /\ call.op = "read"
  /\ dst' = Memcpy(dst, bytes + pos + off, mem, addr + pos + off, 1)
  /\ IF off + 1 < Access.len
       THEN off' = off + 1 /\ UNCHANGED <<pos, pc>>
       ELSE /\ off' = 0 /\ pos' = pos + MaxChunk
            /\ pc' = IF pos + MaxChunk < len THEN "body" ELSE "done"
  /\ UNCHANGED <<mem, call, addr, len, bytes, chunk, calls, stores, held, stored,
                 raced>>

ReadUnit ==
  /\ pc = "body" /\ call.op = "read"
  /\ dst' = Memcpy(dst, bytes + pos + off, mem, addr + pos + off, Align)
  /\ PastUnit
  /\ UNCHANGED <<mem, call, addr, len, bytes, chunk, calls, stores, held, stored,
                 raced>>

WriteUnit ==
  /\ pc = "body" /\ call.op = "write" /\ ~AllZero
  /\ mem' = Memcpy(mem, addr + pos + off, call.src, bytes + pos + off, Align)
  /\ PastUnit
  /\ UNCHANGED <<call, addr, len, bytes, chunk, dst, calls, stores, held, stored,
                 raced>>

\* htif_t::clear_chunk writes zeros of its own.
ClearUnit ==
  /\ pc = "body" /\ call.op = "write" /\ AllZero
  /\ mem' = Memcpy(mem, addr + pos + off, Zeros, off, Align)
  /\ PastUnit
  /\ UNCHANGED <<call, addr, len, bytes, chunk, dst, calls, stores, held, stored,
                 raced>>

-----------------------------------------------------------------------------

\* A store instruction: aligned, and in one piece.
TargetStores(a, n) ==
  /\ pc \notin {"idle", "threw"} /\ stores < MaxStores /\ stores' = stores + 1
  /\ a % n = 0 /\ a + n <= Size
  /\ LET cells == a .. a + n - 1
         merging == IF pc \in {"headStore", "tailStore"}
                      THEN Access.at .. Access.at + Align - 1 ELSE {}
     IN  /\ mem' = [c \in Addrs |-> IF c \in cells THEN TargetByte ELSE mem[c]]
         /\ stored' = stored \cup cells
         /\ raced' = raced \cup (cells \cap merging)
  /\ held' = IF call.op = "read"
               THEN held \cup {Snapshot(mem', call.addr, call.len)} ELSE held
  /\ UNCHANGED <<pc, calls, local>>

Calls ==
  \/ \E a \in Addrs, n \in 0 .. Size :
       /\ a + n <= Size
       /\ \/ Read(a, n)
          \/ \E src \in [0 .. n - 1 -> Written] : Write(a, n, src)
  \/ \E a \in Addrs, n \in Sizes : Throw(a, n)

Host ==
  \/ ReadHead \/ FetchHead \/ StoreHead \/ ReadTail \/ FetchTail \/ StoreTail
  \/ ReadUnit \/ WriteUnit \/ ClearUnit \/ Return

Next == Calls \/ Host \/ \E a \in Addrs, n \in Sizes : TargetStores(a, n)

Spec == Init /\ [][Next]_vars

-----------------------------------------------------------------------------
(* Properties.                                                             *)

Pcs == {"idle", "head", "headStore", "tail", "tailStore", "body", "done", "threw"}

TypeOK ==
  /\ mem \in [Addrs -> Byte]
  /\ call.op \in {"none", "read", "write"} /\ call.addr \in Nat /\ call.len \in Nat
  /\ pc \in Pcs
  /\ addr \in Nat /\ len \in Nat /\ bytes \in Nat /\ pos \in Nat /\ off \in Nat
  /\ chunk \in [0 .. Align - 1 -> Byte]
  /\ calls \in Nat /\ stores \in Nat
  /\ stored \subseteq Addrs /\ raced \subseteq Addrs

\* Backends are only asked for whole chunks: aligned, not empty (tsi_t sends
\* the length less one), not longer than their maximum, and inside the aligned
\* hull of the call.
AccessesFit ==
  pc \in {"head", "headStore", "tail", "tailStore", "body"} =>
    /\ Aligned(Access.at) /\ Aligned(Access.len)
    /\ Access.len \in 1 .. MaxChunk
    /\ Base(call.addr) <= Access.at
    /\ Access.at + Access.len < call.addr + call.len + Align

\* A read returns, byte by byte, what memory held at some moment of the call.
ReadReturns ==
  pc = "done" /\ call.op = "read" =>
    \A k \in 0 .. call.len - 1 : \E s \in held : dst[k] = s[k]

\* An accessor of a type that is not wider than the backend's chunk reads one
\* value, never half of an old and half of a new one: run() relies on it when
\* it polls tohost.
NeverTorn ==
  /\ pc = "done" /\ call.op = "read"
  /\ call.len \in Sizes /\ call.len <= Align /\ call.addr % call.len = 0
  => dst \in held

\* After a write every byte of it is in memory, unless the target has stored
\* there during the call.
WriteLands ==
  pc = "done" /\ call.op = "write" =>
    \A k \in 0 .. call.len - 1 :
      call.addr + k \in stored \/ mem[call.addr + k] = call.src[k]

\* The host changes no byte outside its call, except that it takes back a store
\* that the target made in a chunk while that chunk was being merged.
NeighboursKept ==
  [][stores' = stores =>
       \A a \in Addrs : mem'[a] # mem[a] => a \in CallRange \/ a \in raced]_vars

===============================================================================
