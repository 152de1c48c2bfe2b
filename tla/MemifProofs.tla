------------------------------ MODULE MemifProofs ------------------------------
(***************************************************************************)
(* For every alignment, chunk size, memory and number of calls: backends   *)
(* are only asked for whole chunks inside the call's aligned hull, a write *)
(* lands, a read returns what memory held (as a whole, if it is small and  *)
(* aligned), and no other byte changes.                                    *)
(***************************************************************************)
EXTENDS Memif, Integers, TLAPS

-----------------------------------------------------------------------------
(* Remainders by a divisor that is not a number literal.                   *)

\* What the remainder and the quotient are.
LEMMA Euclid ==
  ASSUME NEW n \in Nat \ {0}, NEW a \in Nat
  PROVE  /\ a % n \in 0 .. n - 1
         /\ a \div n \in Nat
         /\ a = ((a \div n) * n) + (a % n)
<1>1. a % n \in 0 .. n - 1 BY SMT
<1>2. a \div n \in Nat BY SMT
<1>3. a = ((a \div n) * n) + (a % n) BY SMT
<1> QED BY <1>1, <1>2, <1>3

\* There is only one remainder.
LEMMA RemainderUnique ==
  ASSUME NEW n \in Nat \ {0}, NEW p \in Int, NEW q \in Int,
         NEW r \in 0 .. n - 1, NEW s \in 0 .. n - 1,
         (q * n) + r = (p * n) + s
  PROVE  r = s
<1>1. r - s = (p - q) * n BY SMT
<1>2. CASE p - q >= 1
  <2>1. (p - q) * n >= n BY <1>2, SMT
  <2> QED BY <2>1, <1>1, SMT
<1>3. CASE p - q <= -1
  <2>1. (p - q) * n <= -n BY <1>3, SMT
  <2> QED BY <2>1, <1>1, SMT
<1>4. CASE p - q = 0 BY <1>4, <1>1, SMT
<1> QED BY <1>2, <1>3, <1>4, SMT

\* A multiple leaves no remainder.
LEMMA Multiple ==
  ASSUME NEW n \in Nat \ {0}, NEW a \in Nat, NEW q \in Int, a = q * n
  PROVE  a % n = 0
<1>1. /\ a % n \in 0 .. n - 1 /\ a \div n \in Nat
      /\ a = ((a \div n) * n) + (a % n)
  BY Euclid
<1>2. (q * n) + 0 = ((a \div n) * n) + (a % n) BY <1>1, SMT
<1>3. 0 \in 0 .. n - 1 BY SMT
<1> QED BY <1>1, <1>2, <1>3, RemainderUnique

\* Sums and differences of multiples are multiples.
LEMMA MultipleSum ==
  ASSUME NEW n \in Nat \ {0}, NEW a \in Nat, NEW b \in Nat,
         a % n = 0, b % n = 0
  PROVE  (a + b) % n = 0
<1> DEFINE p == a \div n
           q == b \div n
<1>1. p \in Nat /\ a = p * n BY Euclid, SMT
<1>2. q \in Nat /\ b = q * n BY Euclid, SMT
<1> HIDE DEF p, q
<1>3. a + b = (p + q) * n BY <1>1, <1>2, SMT
<1>4. p + q \in Int /\ a + b \in Nat BY <1>1, <1>2, SMT
<1> QED BY <1>3, <1>4, Multiple

LEMMA MultipleDifference ==
  ASSUME NEW n \in Nat \ {0}, NEW a \in Nat, NEW b \in Nat,
         a % n = 0, b % n = 0, b <= a
  PROVE  (a - b) % n = 0
<1> DEFINE p == a \div n
           q == b \div n
<1>1. p \in Nat /\ a = p * n BY Euclid, SMT
<1>2. q \in Nat /\ b = q * n BY Euclid, SMT
<1> HIDE DEF p, q
<1>3. a - b = (p - q) * n BY <1>1, <1>2, SMT
<1>4. p - q \in Int /\ a - b \in Nat BY <1>1, <1>2, SMT
<1> QED BY <1>3, <1>4, Multiple

\* Two multiples are at least n apart.
LEMMA MultipleGap ==
  ASSUME NEW n \in Nat \ {0}, NEW a \in Nat, NEW b \in Nat,
         a % n = 0, b % n = 0, a < b
  PROVE  a + n <= b
<1> DEFINE p == a \div n
           q == b \div n
<1>1. p \in Nat /\ a = p * n BY Euclid, SMT
<1>2. q \in Nat /\ b = q * n BY Euclid, SMT
<1> HIDE DEF p, q
<1>3. b - a = (q - p) * n BY <1>1, <1>2, SMT
<1>4. q - p >= 1
  <2> SUFFICES ASSUME q - p <= 0 PROVE FALSE BY <1>1, <1>2, SMT
  <2>1. (q - p) * n <= 0 BY <1>1, <1>2, SMT
  <2> QED BY <2>1, <1>3, SMT
<1>5. (q - p) * n >= n BY <1>4, <1>1, <1>2, SMT
<1> QED BY <1>3, <1>5, SMT

\* The chunk of an address and the next one begin at multiples.
LEMMA Rounding ==
  ASSUME NEW n \in Nat \ {0}, NEW a \in Nat
  PROVE  /\ a - (a % n) \in Nat /\ (a - (a % n)) % n = 0
         /\ a + (n - (a % n)) \in Nat /\ (a + (n - (a % n))) % n = 0
         /\ n % n = 0 /\ 0 % n = 0
<1> DEFINE p == a \div n
           r == a % n
<1>1. p \in Nat /\ r \in 0 .. n - 1 /\ a = (p * n) + r BY Euclid
<1> HIDE DEF p, r
<1>2. a - r = p * n /\ p * n \in Nat BY <1>1, SMT
<1>3. (a - r) % n = 0 BY <1>1, <1>2, Multiple, SMT
<1>4. a + (n - r) = (p + 1) * n /\ a + (n - r) \in Nat BY <1>1, SMT
<1>5. (a + (n - r)) % n = 0 BY <1>1, <1>4, Multiple, SMT
<1>6. n = 1 * n /\ 0 = 0 * n BY SMT
<1>7. n % n = 0 /\ 0 % n = 0 BY <1>6, Multiple, SMT
<1> QED BY <1>2, <1>3, <1>4, <1>5, <1>7 DEF r

-----------------------------------------------------------------------------
(* The same facts for Align, whose remainder need not be looked at again.  *)

LEMMA AlignedZero == Aligned(0) /\ Aligned(Align)
BY MemifConstants, Rounding DEF Aligned

LEMMA AlignedSum ==
  ASSUME NEW a \in Nat, NEW b \in Nat, Aligned(a), Aligned(b)
  PROVE  Aligned(a + b)
BY MemifConstants, MultipleSum DEF Aligned

LEMMA AlignedDifference ==
  ASSUME NEW a \in Nat, NEW b \in Nat, Aligned(a), Aligned(b), b <= a
  PROVE  Aligned(a - b)
BY MemifConstants, MultipleDifference DEF Aligned

LEMMA AlignedGap ==
  ASSUME NEW a \in Nat, NEW b \in Nat, Aligned(a), Aligned(b), a < b
  PROVE  a + Align <= b
BY MemifConstants, MultipleGap DEF Aligned

LEMMA AlignedRounding ==
  ASSUME NEW a \in Nat
  PROVE  /\ a % Align \in 0 .. Align - 1
         /\ a % Align = 0 <=> Aligned(a)
         /\ a - (a % Align) \in Nat /\ Aligned(a - (a % Align))
         /\ a + (Align - (a % Align)) \in Nat /\ Aligned(a + (Align - (a % Align)))
<1>1. a % Align \in 0 .. Align - 1 BY MemifConstants, Euclid
<1> QED BY <1>1, MemifConstants, Rounding DEF Aligned

-----------------------------------------------------------------------------
(* The inductive invariant.                                                *)

Merging == pc \in {"head", "headStore", "tail", "tailStore"}
Working == Merging \/ pc = "body"

\* The bytes of the call that have not been moved, counted from its start.
Left == IF Working THEN bytes + pos + off .. bytes + len - 1 ELSE {}

ArgsInv ==
  Working \/ pc = "done" =>
    /\ call.op \in {"read", "write"}
    /\ call.addr + call.len <= Size
    /\ call.op = "write" => call.src \in [0 .. call.len - 1 -> Byte]
    /\ call.op = "read" => DOMAIN dst = 0 .. call.len - 1

\* Where the loop variables are: past the first chunk everything begins at a
\* multiple of Align, past the last one everything ends at one.
PlaceInv ==
  /\ Working => /\ addr = call.addr + bytes
                /\ bytes + len <= call.len
  /\ Merging => /\ pos = 0 /\ off = 0
                /\ bytes + len = call.len /\ 0 < len
  /\ pc \in {"head", "headStore"} => bytes = 0
  /\ pc \in {"tail", "tailStore"} => Aligned(addr) /\ ~Aligned(len)
  /\ pc = "body" =>
       /\ Aligned(addr) /\ Aligned(len)
       /\ Aligned(pos) /\ Aligned(off)
       /\ pos < len /\ off < Lesser(MaxChunk, len - pos)
  /\ pc \in {"headStore", "tailStore"} => call.op = "write"

\* The merged chunk holds the call's bytes, and around them what memory holds.
ChunkInv ==
  pc \in {"headStore", "tailStore"} =>
    \A k \in 0 .. Align - 1 :
      /\ Access.at + k \in CallRange =>
           chunk[k] = call.src[(Access.at + k) - call.addr]
      /\ Access.at + k \notin CallRange =>
           chunk[k] = mem[Access.at + k] \/ Access.at + k \in raced

\* What has been moved is there.
LandedInv ==
  (Working \/ pc = "done") /\ call.op = "write" =>
    \A k \in 0 .. call.len - 1 :
      k \in Left \/ call.addr + k \in stored
                 \/ mem[call.addr + k] = call.src[k]

LoadedInv ==
  (Working \/ pc = "done") /\ call.op = "read" =>
    /\ Snapshot(mem, call.addr, call.len) \in held
    /\ \A k \in 0 .. call.len - 1 :
         k \in Left \/ \E s \in held : dst[k] = s[k]

MemifInv ==
  TypeOK /\ ArgsInv /\ PlaceInv /\ ChunkInv /\ LandedInv /\ LoadedInv

-----------------------------------------------------------------------------
(* The chunks.                                                             *)

\* Both sizes are multiples of Align, so that none is smaller.
LEMMA AlignFits == Align <= MaxChunk /\ Align <= Size
BY MemifConstants, AlignedGap, AlignedZero, SMT

\* The memory that a chunk of the call covers exists.
LEMMA ChunkInMemory ==
  ASSUME NEW a \in Nat, Aligned(a), a < Size
  PROVE  \A k \in 0 .. Align - 1 : a + k \in Addrs
<1>1. a + Align <= Size BY MemifConstants, AlignedGap
<1> QED BY <1>1, MemifConstants, SMT DEF Addrs

\* What memcpy leaves in a cell.
LEMMA Copied ==
  ASSUME NEW f, NEW i, NEW c, NEW j, NEW n, NEW k \in DOMAIN f
  PROVE  /\ DOMAIN Memcpy(f, i, c, j, n) = DOMAIN f
         /\ k \in i .. i + n - 1 => Memcpy(f, i, c, j, n)[k] = c[j + (k - i)]
         /\ k \notin i .. i + n - 1 => Memcpy(f, i, c, j, n)[k] = f[k]
BY DEF Memcpy

\* Facts about the first chunk.
LEMMA HeadFacts ==
  ASSUME TypeOK, ArgsInv, PlaceInv, pc \in {"head", "headStore"}
  PROVE  /\ Access = [at |-> Base(addr), len |-> Align]
         /\ Base(addr) \in Nat /\ Aligned(Base(addr))
         /\ addr % Align \in 0 .. Align - 1
         /\ Base(addr) + (addr % Align) = addr
         /\ HeadLen \in 1 .. len
         /\ HeadLen <= Align - (addr % Align)
         /\ HeadLen < len => Aligned(addr + HeadLen)
                             /\ HeadLen = Align - (addr % Align)
         /\ addr < Size
<1> USE DEF TypeOK, PlaceInv, Working, Merging
<1>1. Access = [at |-> Base(addr), len |-> Align] BY DEF Access
<1>2. /\ Base(addr) \in Nat /\ Aligned(Base(addr))
      /\ Aligned(addr + (Align - (addr % Align)))
  BY AlignedRounding DEF Base
<1>3. addr % Align \in 0 .. Align - 1 BY AlignedRounding
<1> HIDE DEF TypeOK, PlaceInv, Working, Merging
<1>4. addr \in Nat /\ len \in Nat /\ len > 0 /\ addr + len <= Size
  BY MemifConstants, SMT DEF TypeOK, PlaceInv, ArgsInv, Working, Merging
<1> DEFINE r == addr % Align
<1>5. Base(addr) = addr - r BY DEF Base
<1>6. HeadLen = IF len < Align - r THEN len ELSE Align - r BY DEF HeadLen, Lesser
<1>7. r \in 0 .. Align - 1 /\ Aligned(addr + (Align - r)) BY <1>2, <1>3
<1> HIDE DEF r
<1>8. /\ HeadLen \in 1 .. len /\ HeadLen <= Align - r
      /\ HeadLen < len => HeadLen = Align - r
  BY <1>4, <1>6, <1>7, MemifConstants, SMT
<1>9. HeadLen < len => Aligned(addr + HeadLen) BY <1>7, <1>8
<1>10. Base(addr) + r = addr /\ addr < Size BY <1>4, <1>5, <1>7, MemifConstants, SMT
<1> QED BY <1>1, <1>2, <1>3, <1>8, <1>9, <1>10 DEF r

\* Facts about the last chunk.
LEMMA TailFacts ==
  ASSUME TypeOK, ArgsInv, PlaceInv, pc \in {"tail", "tailStore"}
  PROVE  /\ Access = [at |-> addr + Start, len |-> Align]
         /\ Start \in Nat /\ Aligned(Start) /\ Start < len
         /\ Partial \in 1 .. Align - 1 /\ Start + Partial = len
         /\ addr + Start \in Nat /\ Aligned(addr + Start)
         /\ addr + len <= Size
<1>1. Access = [at |-> addr + Start, len |-> Align] BY DEF Access
<1>2. /\ addr \in Nat /\ len \in Nat /\ addr + len <= Size
      /\ Aligned(addr) /\ ~Aligned(len)
  <2>1. addr \in Nat /\ len \in Nat /\ Aligned(addr) /\ ~Aligned(len)
    BY DEF TypeOK, PlaceInv
  <2>2. /\ addr = call.addr + bytes /\ bytes + len <= call.len
        /\ call.addr + call.len <= Size
    BY DEF PlaceInv, ArgsInv, Working, Merging
  <2>3. addr + len <= Size BY <2>2, MemifConstants, SMT DEF TypeOK
  <2> QED BY <2>1, <2>3
<1>3. Partial \in 0 .. Align - 1 BY <1>2, AlignedRounding DEF Partial
<1>4. Start \in Nat /\ Aligned(Start)
  BY <1>2, AlignedRounding DEF Start, Partial
<1>5. Partial # 0 /\ Start = len - Partial BY <1>2, AlignedRounding DEF Partial, Start
<1>6. Partial \in 1 .. Align - 1 /\ Start + Partial = len /\ Start < len
  BY <1>2, <1>3, <1>4, <1>5, MemifConstants, SMT
<1>7. addr + Start \in Nat BY <1>2, <1>4, SMT
<1>8. Aligned(addr + Start) BY <1>2, <1>4, MemifConstants, AlignedSum
<1> QED BY <1>1, <1>2, <1>4, <1>6, <1>7, <1>8

\* Facts about a chunk of the rest, and the unit of it that is next.
LEMMA BodyFacts ==
  ASSUME TypeOK, ArgsInv, PlaceInv, pc = "body"
  PROVE  /\ Access = [at |-> addr + pos, len |-> Lesser(MaxChunk, len - pos)]
         /\ Access.len \in Nat /\ Aligned(Access.len)
         /\ Aligned(addr + pos)
         /\ off + Align <= Access.len
         /\ Access.len <= MaxChunk /\ pos + Access.len <= len
         /\ Access.len < MaxChunk => pos + Access.len = len
         /\ Aligned(addr + pos + off)
<1>1. Access = [at |-> addr + pos, len |-> Lesser(MaxChunk, len - pos)]
  BY DEF Access
<1>2. /\ addr \in Nat /\ len \in Nat /\ pos \in Nat /\ off \in Nat
      /\ Aligned(addr) /\ Aligned(len) /\ Aligned(pos) /\ Aligned(off)
      /\ pos < len /\ off < Lesser(MaxChunk, len - pos)
  BY DEF TypeOK, PlaceInv
<1>3. len - pos \in Nat /\ Aligned(len - pos)
  <2>1. len - pos \in Nat /\ pos <= len BY <1>2, SMT
  <2>2. Aligned(len - pos) BY <1>2, <2>1, MemifConstants, AlignedDifference
  <2> QED BY <2>1, <2>2
<1>4. Access.len \in Nat /\ Aligned(Access.len)
  BY <1>1, <1>3, MemifConstants DEF Lesser
<1>5. off + Align <= Access.len BY <1>1, <1>2, <1>4, MemifConstants, AlignedGap
<1>6. addr + pos \in Nat /\ Aligned(addr + pos)
  BY <1>2, MemifConstants, AlignedSum, SMT
<1>7. Aligned(addr + pos + off) BY <1>2, <1>6, MemifConstants, AlignedSum
<1>8. /\ Access.len <= MaxChunk /\ pos + Access.len <= len
      /\ Access.len < MaxChunk => pos + Access.len = len
  BY <1>1, <1>2, <1>3, MemifConstants, SMT DEF Lesser
<1> QED BY <1>1, <1>4, <1>5, <1>6, <1>7, <1>8

-----------------------------------------------------------------------------
(* From one part of a call to the next.                                    *)

\* The loop over the aligned rest is entered at its beginning, or skipped.
LEMMA EntersBody ==
  ASSUME NEW a \in Nat, NEW l \in Nat, NEW b \in Nat, NEW n \in Nat,
         addr' = a, len' = l, bytes' = b, pos' = 0, off' = 0, call'.len = n,
         pc' = AfterTail(l), Aligned(l), l > 0 => Aligned(a),
         a = call'.addr + b, b + l <= n
  PROVE  /\ PlaceInv' /\ pc' \in {"body", "done"}
         /\ \A k \in b .. b + l - 1 : k \in Left'
<1>1. CASE l > 0
  <2>1. pc' = "body" BY <1>1 DEF AfterTail
  <2>2. 0 < Lesser(MaxChunk, l - 0) BY <1>1, MemifConstants, SMT DEF Lesser
  <2>3. PlaceInv' BY <1>1, <2>1, <2>2, AlignedZero DEF PlaceInv, Working, Merging
  <2>4. \A k \in b .. b + l - 1 : k \in Left'
    BY <2>1, SMT DEF Left, Working, Merging
  <2> QED BY <2>1, <2>3, <2>4
<1>2. CASE l = 0
  <2>1. pc' = "done" BY <1>2 DEF AfterTail
  <2>2. PlaceInv' BY <2>1 DEF PlaceInv, Working, Merging
  <2>3. \A k \in b .. b + l - 1 : k \in Left' BY <1>2, SMT
  <2> QED BY <2>1, <2>2, <2>3
<1> QED BY <1>1, <1>2, SMT

\* After the first chunk everything left begins at a multiple.
LEMMA EntersTail ==
  ASSUME NEW a \in Nat, NEW l \in Nat, NEW b \in Nat, NEW n \in Nat,
         addr' = a, len' = l, bytes' = b, pos' = 0, off' = 0, call'.len = n,
         pc' = AfterHead(l), l > 0 => Aligned(a),
         a = call'.addr + b, b + l = n
  PROVE  /\ PlaceInv' /\ pc' \in {"tail", "body", "done"}
         /\ \A k \in b .. b + l - 1 : k \in Left'
<1>1. CASE Aligned(l)
  <2>1. pc' = AfterTail(l) BY <1>1 DEF AfterHead
  <2>2. b + l <= n BY SMT
  <2> QED BY <1>1, <2>1, <2>2, EntersBody
<1>2. CASE ~Aligned(l)
  <2>1. pc' = "tail" BY <1>2 DEF AfterHead
  <2>2. 0 < l BY <1>2, AlignedZero, SMT
  <2>3. b + l <= n BY SMT
  <2>4. PlaceInv' BY <1>2, <2>1, <2>2, <2>3 DEF PlaceInv, Working, Merging
  <2>5. \A k \in b .. b + l - 1 : k \in Left'
    BY <2>1, SMT DEF Left, Working, Merging
  <2> QED BY <2>1, <2>4, <2>5
<1> QED BY <1>1, <1>2

\* Bytes lo to hi of a write reach memory in a step.
LEMMA SomeLand ==
  ASSUME LandedInv, Working, call' = call, stored' = stored,
         call.op = "write", NEW lo, NEW hi,
         \A k \in 0 .. call.len - 1 : k \in Left => k \in Left' \/ k \in lo .. hi,
         \A k \in 0 .. call.len - 1 :
           mem'[call.addr + k] = IF k \in lo .. hi THEN call.src[k]
                                 ELSE mem[call.addr + k]
  PROVE  LandedInv' /\ LoadedInv'
BY DEF LandedInv, LoadedInv

\* Bytes lo to hi of a read reach the buffer in a step.
LEMMA SomeLoaded ==
  ASSUME LoadedInv, Working, call' = call, held' = held, mem' = mem,
         call.op = "read", NEW lo, NEW hi,
         \A k \in 0 .. call.len - 1 : k \in Left => k \in Left' \/ k \in lo .. hi,
         \A k \in 0 .. call.len - 1 :
           dst'[k] = IF k \in lo .. hi THEN mem[call.addr + k] ELSE dst[k]
  PROVE  LandedInv' /\ LoadedInv'
<1>1. LandedInv' BY DEF LandedInv
<1>2. /\ Snapshot(mem, call.addr, call.len) \in held
      /\ \A k \in 0 .. call.len - 1 :
           Snapshot(mem, call.addr, call.len)[k] = mem[call.addr + k]
  BY DEF LoadedInv, Snapshot
<1>3. \A k \in 0 .. call.len - 1 :
        k \in Left' \/ \E s \in held' : dst'[k] = s[k]
  BY <1>2 DEF LoadedInv
<1>4. Snapshot(mem', call'.addr, call'.len) \in held' BY <1>2
<1> QED BY <1>1, <1>3, <1>4 DEF LoadedInv

-----------------------------------------------------------------------------
(* The initial state and the calls.                                        *)

LEMMA MemifInit == Init => MemifInv
<1> SUFFICES ASSUME Init PROVE MemifInv OBVIOUS
<1>1. pc = "idle" /\ call = NoCall BY DEF Init
<1>2. chunk \in [0 .. Align - 1 -> Byte]
  <2>1. \A k \in 0 .. Align - 1 : 0 + k \in Addrs
    BY MemifConstants, AlignFits, SMT DEF Addrs
  <2> QED BY <2>1, MemifConstants DEF Init, Unit
<1>3. TypeOK BY <1>1, <1>2, MemifConstants DEF Init, TypeOK, NoCall, Pcs
<1> QED
  BY <1>1, <1>3 DEF MemifInv, ArgsInv, PlaceInv, ChunkInv, LandedInv, LoadedInv,
     Working, Merging

\* A call begins with all of its bytes left.
LEMMA BeginStep ==
  ASSUME TypeOK, NEW a \in Addrs, NEW n \in 0 .. Size, a + n <= Size, Begin(a, n),
         call'.addr = a, call'.len = n
  PROVE  /\ PlaceInv' /\ pc' \in {"head", "tail", "body", "done"}
         /\ addr' \in Nat /\ len' \in Nat /\ bytes' \in Nat
         /\ pos' \in Nat /\ off' \in Nat /\ calls' \in Nat
         /\ \A k \in 0 .. n - 1 : k \in Left'
<1>1. /\ addr' = a /\ len' = n /\ bytes' = 0 /\ pos' = 0 /\ off' = 0
      /\ pc' = FirstPc(a, n) /\ calls' = calls + 1
  BY DEF Begin
<1>2. a \in Nat /\ n \in Nat BY MemifConstants DEF Addrs
<1>3. calls' \in Nat BY <1>1 DEF TypeOK
<1>4. CASE n > 0 /\ ~Aligned(a)
  <2>1. pc' = "head" BY <1>1, <1>4 DEF FirstPc
  <2>2. PlaceInv' BY <1>1, <1>2, <1>4, <2>1, SMT DEF PlaceInv, Working, Merging
  <2>3. \A k \in 0 .. n - 1 : k \in Left'
    BY <1>1, <1>2, <2>1, SMT DEF Left, Working, Merging
  <2> QED BY <1>1, <1>2, <1>3, <2>1, <2>2, <2>3
<1>5. CASE ~(n > 0 /\ ~Aligned(a))
  <2>1. pc' = AfterHead(len') BY <1>1, <1>5 DEF FirstPc
  <2>2. n > 0 => Aligned(a) BY <1>5
  <2>3. a = call'.addr + 0 /\ 0 + n = n /\ 0 \in Nat BY <1>2, SMT
  <2>4. pc' = AfterHead(n) BY <1>1, <2>1
  <2>5. /\ PlaceInv' /\ pc' \in {"tail", "body", "done"}
        /\ \A k \in 0 .. 0 + n - 1 : k \in Left'
    BY <1>1, <1>2, <2>2, <2>3, <2>4, EntersTail
  <2>6. \A k \in 0 .. n - 1 : k \in Left' BY <1>2, <2>5, SMT
  <2> QED BY <1>1, <1>2, <1>3, <2>5, <2>6
<1> QED BY <1>4, <1>5

LEMMA ReadStep ==
  ASSUME MemifInv, NEW a \in Addrs, NEW n \in 0 .. Size, a + n <= Size, Read(a, n)
  PROVE  MemifInv'
<1>1. /\ Begin(a, n) /\ call' = [op |-> "read", addr |-> a, len |-> n, src |-> <<>>]
      /\ dst' = [k \in 0 .. n - 1 |-> 0] /\ held' = {Snapshot(mem, a, n)}
  BY DEF Read
<1>2. /\ PlaceInv' /\ pc' \in {"head", "tail", "body", "done"}
      /\ addr' \in Nat /\ len' \in Nat /\ bytes' \in Nat
      /\ pos' \in Nat /\ off' \in Nat /\ calls' \in Nat
      /\ \A k \in 0 .. n - 1 : k \in Left'
  BY <1>1, BeginStep DEF MemifInv
<1>3. /\ mem' = mem /\ chunk' = chunk /\ stores' = stores /\ stored' = {}
      /\ raced' = {}
  BY <1>1 DEF Begin
<1>4. a \in Nat /\ n \in Nat BY MemifConstants DEF Addrs
<1>5. TypeOK' BY <1>1, <1>2, <1>3, <1>4 DEF MemifInv, TypeOK, Pcs
<1>6. ArgsInv' BY <1>1 DEF ArgsInv
<1>7. ChunkInv' BY <1>2 DEF ChunkInv
<1>8. LandedInv' BY <1>1 DEF LandedInv
<1>9. LoadedInv' BY <1>1, <1>2, <1>3 DEF LoadedInv
<1> QED BY <1>2, <1>5, <1>6, <1>7, <1>8, <1>9 DEF MemifInv

LEMMA WriteStep ==
  ASSUME MemifInv, NEW a \in Addrs, NEW n \in 0 .. Size, a + n <= Size,
         NEW src \in [0 .. n - 1 -> Written], Write(a, n, src)
  PROVE  MemifInv'
<1>1. /\ Begin(a, n) /\ dst' = <<>> /\ held' = {}
      /\ call' = [op |-> "write", addr |-> a, len |-> n, src |-> src]
  BY DEF Write
<1>2. /\ PlaceInv' /\ pc' \in {"head", "tail", "body", "done"}
      /\ addr' \in Nat /\ len' \in Nat /\ bytes' \in Nat
      /\ pos' \in Nat /\ off' \in Nat /\ calls' \in Nat
      /\ \A k \in 0 .. n - 1 : k \in Left'
  BY <1>1, BeginStep DEF MemifInv
<1>3. /\ mem' = mem /\ chunk' = chunk /\ stores' = stores /\ stored' = {}
      /\ raced' = {}
  BY <1>1 DEF Begin
<1>4. a \in Nat /\ n \in Nat BY MemifConstants DEF Addrs
<1>5. TypeOK' BY <1>1, <1>2, <1>3, <1>4 DEF MemifInv, TypeOK, Pcs
<1>6. ArgsInv'
  <2>1. src \in [0 .. n - 1 -> Byte] BY MemifConstants
  <2> QED BY <1>1, <2>1 DEF ArgsInv
<1>7. ChunkInv' BY <1>2 DEF ChunkInv
<1>8. LandedInv' BY <1>1, <1>2 DEF LandedInv
<1>9. LoadedInv' BY <1>1 DEF LoadedInv
<1> QED BY <1>2, <1>5, <1>6, <1>7, <1>8, <1>9 DEF MemifInv

-----------------------------------------------------------------------------
(* The first chunk.                                                        *)

\* The bytes of the call in the first chunk are the first HeadLen ones.
LEMMA HeadCells ==
  ASSUME MemifInv, pc \in {"head", "headStore"}
  PROVE  /\ addr = call.addr /\ bytes = 0 /\ len = call.len
         /\ call.addr \in Nat /\ call.len \in Nat /\ HeadLen \in 1 .. call.len
         /\ \A k \in 0 .. call.len - 1 :
              /\ call.addr + k \in Addrs
              /\ k \in 0 .. HeadLen - 1 <=>
                   call.addr + k \in Base(addr) .. Base(addr) + Align - 1
         /\ \A k \in 0 .. HeadLen - 1 : k \in 0 .. call.len - 1
<1>1. addr = call.addr /\ bytes = 0 /\ len = call.len
  <2>1. addr = call.addr + bytes /\ bytes = 0 /\ bytes + len = call.len
    BY DEF MemifInv, PlaceInv, Working, Merging
  <2> QED BY <2>1, SMT DEF MemifInv, TypeOK
<1>2. call.addr \in Nat /\ call.len \in Nat /\ call.addr + call.len <= Size
  BY DEF MemifInv, TypeOK, ArgsInv, Working, Merging
<1> DEFINE r == addr % Align
<1>3. /\ r \in 0 .. Align - 1 /\ Base(addr) + r = addr /\ Base(addr) \in Nat
      /\ HeadLen \in 1 .. len /\ HeadLen <= Align - r
      /\ HeadLen < len => HeadLen = Align - r
  BY HeadFacts DEF MemifInv
<1> HIDE DEF r
<1>4. \A k \in 0 .. call.len - 1 : call.addr + k \in Addrs
  BY <1>2, MemifConstants, SMT DEF Addrs
<1>5. \A k \in 0 .. call.len - 1 :
        k \in 0 .. HeadLen - 1 <=>
          call.addr + k \in Base(addr) .. Base(addr) + Align - 1
  BY <1>1, <1>2, <1>3, MemifConstants, SMT
<1>6. \A k \in 0 .. HeadLen - 1 : k \in 0 .. call.len - 1 BY <1>1, <1>2, <1>3, SMT
<1> QED BY <1>1, <1>2, <1>3, <1>4, <1>5, <1>6

LEMMA HeadPlaces ==
  ASSUME MemifInv, pc \in {"head", "headStore"}, PastHead, call' = call,
         pos' = pos, off' = off
  PROVE  /\ PlaceInv' /\ pc' \in {"tail", "body", "done"}
         /\ addr' \in Nat /\ len' \in Nat /\ bytes' \in Nat
         /\ \A k \in 0 .. call.len - 1 :
              k \in Left => k \in Left' \/ k \in 0 .. HeadLen - 1
<1> DEFINE a == addr + HeadLen
           l == len - HeadLen
<1>1. /\ addr = call.addr /\ bytes = 0 /\ len = call.len
      /\ call.addr \in Nat /\ call.len \in Nat /\ HeadLen \in 1 .. call.len
  BY HeadCells
<1>2. pos' = 0 /\ off' = 0 BY DEF MemifInv, PlaceInv, Merging
<1>3. /\ a \in Nat /\ l \in Nat /\ HeadLen \in Nat /\ a = call.addr + HeadLen
      /\ HeadLen + l = call.len
      /\ l > 0 => HeadLen < len
  BY <1>1, SMT
<1>4. HeadLen < len => Aligned(a) BY HeadFacts DEF MemifInv
<1>5. addr' = a /\ len' = l /\ bytes' = HeadLen /\ pc' = AfterHead(l)
  BY <1>1, <1>3, SMT DEF PastHead
<1> HIDE DEF a, l
<1>6. call'.addr = call.addr /\ call'.len = call.len OBVIOUS
<1>7. /\ PlaceInv' /\ pc' \in {"tail", "body", "done"}
      /\ \A k \in HeadLen .. HeadLen + l - 1 : k \in Left'
  BY <1>1, <1>2, <1>3, <1>4, <1>5, <1>6, EntersTail
<1>8. \A k \in 0 .. call.len - 1 :
        k \in HeadLen .. HeadLen + l - 1 \/ k \in 0 .. HeadLen - 1
  BY <1>1, <1>3, SMT
<1>9. addr' \in Nat /\ len' \in Nat /\ bytes' \in Nat BY <1>3, <1>5
<1> QED BY <1>7, <1>8, <1>9

\* The bytes that a first chunk brings.
LEMMA HeadLoaded ==
  ASSUME MemifInv, ReadHead
  PROVE  \A k \in 0 .. call.len - 1 :
           dst'[k] = IF k \in 0 .. HeadLen - 1 THEN mem[call.addr + k] ELSE dst[k]
<1>1. /\ pc = "head" /\ call.op = "read"
      /\ dst' = Memcpy(dst, bytes, Unit(Base(addr)), addr % Align, HeadLen)
  BY DEF ReadHead
<1>2. /\ addr = call.addr /\ bytes = 0 /\ call.len \in Nat
      /\ HeadLen \in 1 .. call.len
  BY <1>1, HeadCells
<1>3. DOMAIN dst = 0 .. call.len - 1
  BY <1>1 DEF MemifInv, ArgsInv, Working, Merging
<1>4. \A k \in 0 .. call.len - 1 :
        dst'[k] = IF k \in 0 .. HeadLen - 1 THEN mem[call.addr + k] ELSE dst[k]
  <2> SUFFICES ASSUME NEW k \in 0 .. call.len - 1
               PROVE  dst'[k] = IF k \in 0 .. HeadLen - 1
                                  THEN mem[call.addr + k] ELSE dst[k]
    OBVIOUS
  <2> DEFINE r == addr % Align
  <2>1. r \in 0 .. Align - 1 /\ Base(addr) + r = addr /\ HeadLen <= Align - r
        /\ Base(addr) \in Nat
    BY <1>1, HeadFacts DEF MemifInv
  <2>2. dst'[k] = IF k \in 0 .. 0 + HeadLen - 1
                    THEN Unit(Base(addr))[r + (k - 0)] ELSE dst[k]
    BY <1>1, <1>2, <1>3 DEF Memcpy
  <2> HIDE DEF r
  <2>3. CASE k \in 0 .. HeadLen - 1
    <3>1. r + (k - 0) \in 0 .. Align - 1 BY <1>2, <2>1, <2>3, MemifConstants, SMT
    <3>2. Unit(Base(addr))[r + (k - 0)] = mem[Base(addr) + (r + (k - 0))]
      BY <3>1 DEF Unit
    <3>3. Base(addr) + (r + (k - 0)) = call.addr + k BY <1>2, <2>1, SMT
    <3>4. k \in 0 .. 0 + HeadLen - 1 BY <1>2, <2>3, SMT
    <3> QED BY <2>2, <2>3, <3>2, <3>3, <3>4
  <2>4. CASE k \notin 0 .. HeadLen - 1
    <3>1. k \notin 0 .. 0 + HeadLen - 1 BY <1>2, <2>4, SMT
    <3> QED BY <2>2, <2>4, <3>1
  <2> QED BY <2>3, <2>4
<1> QED BY <1>4

LEMMA ReadHeadStep == MemifInv /\ ReadHead => MemifInv'
<1> SUFFICES ASSUME MemifInv, ReadHead PROVE MemifInv' OBVIOUS
<1>1. /\ pc = "head" /\ call.op = "read" /\ PastHead
      /\ dst' = Memcpy(dst, bytes, Unit(Base(addr)), addr % Align, HeadLen)
      /\ UNCHANGED <<mem, call, chunk, pos, off, calls, stores, held, stored, raced>>
  BY DEF ReadHead
<1>2. /\ addr = call.addr /\ bytes = 0 /\ call.len \in Nat
      /\ HeadLen \in 1 .. call.len
  BY <1>1, HeadCells
<1>3. /\ PlaceInv' /\ pc' \in {"tail", "body", "done"}
      /\ addr' \in Nat /\ len' \in Nat /\ bytes' \in Nat
      /\ \A k \in 0 .. call.len - 1 :
           k \in Left => k \in Left' \/ k \in 0 .. HeadLen - 1
  BY <1>1, HeadPlaces
<1>4. TypeOK' BY <1>1, <1>3 DEF MemifInv, TypeOK, Pcs
<1>5. DOMAIN dst = 0 .. call.len - 1
  BY <1>1 DEF MemifInv, ArgsInv, Working, Merging
<1>6. DOMAIN dst' = 0 .. call.len - 1 BY <1>1, <1>5 DEF Memcpy
<1>7. ArgsInv' BY <1>1, <1>6 DEF MemifInv, ArgsInv, Working, Merging
<1>8. ChunkInv' BY <1>3 DEF ChunkInv
<1>9. \A k \in 0 .. call.len - 1 :
        dst'[k] = IF k \in 0 .. HeadLen - 1 THEN mem[call.addr + k] ELSE dst[k]
  BY HeadLoaded
<1>10. LandedInv' /\ LoadedInv'
  BY <1>1, <1>3, <1>9, SomeLoaded DEF MemifInv, Working, Merging
<1> QED BY <1>3, <1>4, <1>7, <1>8, <1>10 DEF MemifInv

LEMMA FetchHeadStep == MemifInv /\ FetchHead => MemifInv'
<1> SUFFICES ASSUME MemifInv, FetchHead PROVE MemifInv' OBVIOUS
<1>1. /\ pc = "head" /\ call.op = "write" /\ pc' = "headStore" /\ raced' = {}
      /\ chunk' = Memcpy(Unit(Base(addr)), addr % Align, call.src, bytes, HeadLen)
      /\ UNCHANGED <<mem, call, addr, len, bytes, pos, off, dst, calls, stores,
                     held, stored>>
  BY DEF FetchHead
<1> DEFINE r == addr % Align
<1>2. /\ addr = call.addr /\ bytes = 0 /\ call.addr \in Nat /\ call.len \in Nat
      /\ HeadLen \in 1 .. call.len
      /\ \A k \in 0 .. call.len - 1 :
           k \in 0 .. HeadLen - 1 <=>
             call.addr + k \in Base(addr) .. Base(addr) + Align - 1
      /\ \A k \in 0 .. HeadLen - 1 : k \in 0 .. call.len - 1
  BY <1>1, HeadCells
<1>3. /\ r \in 0 .. Align - 1 /\ Base(addr) + r = addr /\ HeadLen <= Align - r
      /\ Base(addr) \in Nat /\ Aligned(Base(addr)) /\ addr < Size
  BY <1>1, HeadFacts DEF MemifInv
<1>4. Base(addr) < Size BY <1>1, <1>3, MemifConstants, SMT DEF MemifInv, TypeOK
<1>5. call.src \in [0 .. call.len - 1 -> Byte]
  BY <1>1 DEF MemifInv, ArgsInv, Working, Merging
<1>6. \A j \in 0 .. Align - 1 :
        /\ mem[Base(addr) + j] \in Byte
        /\ chunk'[j] = IF j \in r .. r + HeadLen - 1
                         THEN call.src[0 + (j - r)] ELSE mem[Base(addr) + j]
  <2>1. \A j \in 0 .. Align - 1 : Base(addr) + j \in Addrs
    BY <1>3, <1>4, ChunkInMemory
  <2>2. \A j \in 0 .. Align - 1 : Unit(Base(addr))[j] = mem[Base(addr) + j]
    BY DEF Unit
  <2>3. DOMAIN Unit(Base(addr)) = 0 .. Align - 1 BY DEF Unit
  <2> QED BY <1>1, <1>2, <2>1, <2>2, <2>3 DEF Memcpy, MemifInv, TypeOK
<1>7. DOMAIN chunk' = 0 .. Align - 1 BY <1>1 DEF Memcpy, Unit
<1> HIDE DEF r
<1>8. \A j \in r .. r + HeadLen - 1 : 0 + (j - r) \in 0 .. call.len - 1
  BY <1>2, <1>3, MemifConstants, SMT
<1>9. \A j \in 0 .. Align - 1 : chunk'[j] \in Byte BY <1>5, <1>6, <1>8
<1>10. chunk' \in [0 .. Align - 1 -> Byte]
  <2>1. chunk' = [j \in 0 .. Align - 1 |-> chunk'[j]] BY <1>1, <1>7 DEF Memcpy
  <2> QED BY <1>9, <2>1
<1>11. TypeOK' BY <1>1, <1>10 DEF MemifInv, TypeOK, Pcs
<1>12. ArgsInv' /\ PlaceInv'
  BY <1>1 DEF MemifInv, ArgsInv, PlaceInv, Working, Merging
<1>13. LandedInv' /\ LoadedInv'
  <2>1. Left' = Left BY <1>1 DEF Left, Working, Merging
  <2> QED BY <1>1, <2>1 DEF MemifInv, LandedInv, LoadedInv, Working, Merging
<1>14. ChunkInv'
  <2>1. Access'.at = Base(addr) BY <1>1 DEF Access, Base
  <2>2. CallRange' = CallRange BY <1>1 DEF CallRange
  <2> SUFFICES ASSUME NEW j \in 0 .. Align - 1
               PROVE  /\ Base(addr) + j \in CallRange =>
                           chunk'[j] = call.src[(Base(addr) + j) - call.addr]
                      /\ Base(addr) + j \notin CallRange =>
                           chunk'[j] = mem[Base(addr) + j]
    BY <1>1, <2>1, <2>2 DEF ChunkInv
  <2>3. CASE j \in r .. r + HeadLen - 1
    <3>1. 0 + (j - r) = (Base(addr) + j) - call.addr BY <1>2, <1>3, <2>3, SMT
    <3>2. Base(addr) + j \in CallRange
      BY <1>2, <1>3, <2>3, MemifConstants, SMT DEF CallRange
    <3> QED BY <1>6, <2>3, <3>1, <3>2
  <2>4. CASE j \notin r .. r + HeadLen - 1
    <3>1. Base(addr) + j \notin CallRange
      <4> SUFFICES ASSUME Base(addr) + j \in CallRange PROVE FALSE OBVIOUS
      <4> DEFINE k == (Base(addr) + j) - call.addr
      <4>1. k \in 0 .. call.len - 1 /\ call.addr + k = Base(addr) + j
        BY <1>2, <1>3, MemifConstants, SMT DEF CallRange
      <4>2. call.addr + k \in Base(addr) .. Base(addr) + Align - 1
        BY <1>3, <4>1, MemifConstants, SMT
      <4>3. k \in 0 .. HeadLen - 1 BY <1>2, <4>1, <4>2
      <4>4. k = j - r BY <1>2, <1>3, MemifConstants, SMT
      <4> HIDE DEF k
      <4> QED BY <1>2, <1>3, <2>4, <4>3, <4>4, MemifConstants, SMT
    <3> QED BY <1>6, <2>4, <3>1
  <2> QED BY <2>3, <2>4
<1> QED BY <1>11, <1>12, <1>13, <1>14 DEF MemifInv

\* A merged chunk that is written back.
LEMMA StoreChunk ==
  ASSUME MemifInv, pc \in {"headStore", "tailStore"}, NEW at \in Nat,
         Access.at = at, mem' = Memcpy(mem, at, chunk, 0, Align)
  PROVE  /\ mem' \in [Addrs -> Byte]
         /\ \A a \in Addrs :
              /\ a \notin at .. at + Align - 1 => mem'[a] = mem[a]
              /\ a \in at .. at + Align - 1 =>
                   /\ a \in CallRange => mem'[a] = call.src[a - call.addr]
                   /\ a \notin CallRange => mem'[a] = mem[a] \/ a \in raced
<1>1. mem \in [Addrs -> Byte] /\ chunk \in [0 .. Align - 1 -> Byte]
  BY DEF MemifInv, TypeOK
<1>2. \A a \in Addrs : mem'[a] = IF a \in at .. at + Align - 1
                                   THEN chunk[0 + (a - at)] ELSE mem[a]
  BY <1>1 DEF Memcpy
<1>3. \A a \in Addrs : a \in at .. at + Align - 1 =>
        0 + (a - at) \in 0 .. Align - 1 /\ at + (0 + (a - at)) = a
  BY MemifConstants, SMT DEF Addrs
<1>4. \A a \in Addrs : mem'[a] \in Byte BY <1>1, <1>2, <1>3
<1>5. mem' = [a \in Addrs |-> mem'[a]] BY <1>1 DEF Memcpy
<1>6. mem' \in [Addrs -> Byte] BY <1>4, <1>5
<1>7. ASSUME NEW a \in Addrs, a \in at .. at + Align - 1
      PROVE  /\ a \in CallRange => mem'[a] = call.src[a - call.addr]
             /\ a \notin CallRange => mem'[a] = mem[a] \/ a \in raced
  <2> DEFINE j == 0 + (a - at)
  <2>1. j \in 0 .. Align - 1 /\ at + j = a BY <1>3, <1>7
  <2>2. mem'[a] = chunk[j] BY <1>2, <1>7
  <2> HIDE DEF j
  <2>3. Access.at + j = a BY <2>1
  <2>4. ChunkInv BY DEF MemifInv
  <2>5. CASE a \in CallRange
    BY <2>1, <2>2, <2>3, <2>4, <2>5 DEF ChunkInv
  <2>6. CASE a \notin CallRange
    BY <2>1, <2>2, <2>3, <2>4, <2>6 DEF ChunkInv
  <2> QED BY <2>5, <2>6
<1> QED BY <1>2, <1>6, <1>7

LEMMA StoreHeadStep == MemifInv /\ StoreHead => MemifInv'
<1> SUFFICES ASSUME MemifInv, StoreHead PROVE MemifInv' OBVIOUS
<1>1. /\ pc = "headStore" /\ PastHead
      /\ mem' = Memcpy(mem, Base(addr), chunk, 0, Align)
      /\ UNCHANGED <<call, chunk, pos, off, dst, calls, stores, held, stored, raced>>
  BY DEF StoreHead
<1>2. /\ addr = call.addr /\ bytes = 0 /\ call.addr \in Nat /\ call.len \in Nat
      /\ \A k \in 0 .. call.len - 1 :
           /\ call.addr + k \in Addrs
           /\ k \in 0 .. HeadLen - 1 <=>
                call.addr + k \in Base(addr) .. Base(addr) + Align - 1
  BY <1>1, HeadCells
<1>3. Access.at = Base(addr) /\ Base(addr) \in Nat
  BY <1>1, HeadFacts DEF MemifInv
<1>4. /\ mem' \in [Addrs -> Byte]
      /\ \A a \in Addrs :
           /\ a \notin Base(addr) .. Base(addr) + Align - 1 => mem'[a] = mem[a]
           /\ a \in Base(addr) .. Base(addr) + Align - 1 =>
                (a \in CallRange => mem'[a] = call.src[a - call.addr])
  BY <1>1, <1>3, StoreChunk
<1>5. /\ PlaceInv' /\ pc' \in {"tail", "body", "done"}
      /\ addr' \in Nat /\ len' \in Nat /\ bytes' \in Nat
      /\ \A k \in 0 .. call.len - 1 :
           k \in Left => k \in Left' \/ k \in 0 .. HeadLen - 1
  BY <1>1, HeadPlaces
<1>6. TypeOK' BY <1>1, <1>4, <1>5 DEF MemifInv, TypeOK, Pcs
<1>7. call.op = "write" BY <1>1 DEF MemifInv, PlaceInv
<1>8. ArgsInv' BY <1>1 DEF MemifInv, ArgsInv, Working, Merging
<1>9. ChunkInv' BY <1>5 DEF ChunkInv
<1>10. \A k \in 0 .. call.len - 1 :
         mem'[call.addr + k] = IF k \in 0 .. HeadLen - 1 THEN call.src[k]
                               ELSE mem[call.addr + k]
  <2> SUFFICES ASSUME NEW k \in 0 .. call.len - 1
               PROVE  mem'[call.addr + k] = IF k \in 0 .. HeadLen - 1
                                              THEN call.src[k]
                                              ELSE mem[call.addr + k]
    OBVIOUS
  <2> DEFINE a == call.addr + k
  <2>1. a \in CallRange /\ a - call.addr = k BY <1>2, SMT DEF CallRange
  <2>2. /\ a \in Addrs
        /\ k \in 0 .. HeadLen - 1 <=> a \in Base(addr) .. Base(addr) + Align - 1
    BY <1>2
  <2> HIDE DEF a
  <2>3. mem'[a] = IF k \in 0 .. HeadLen - 1 THEN call.src[k] ELSE mem[a]
    BY <1>4, <2>1, <2>2
  <2> QED BY <2>3 DEF a
<1>11. LandedInv' /\ LoadedInv'
  BY <1>1, <1>5, <1>7, <1>10, SomeLand DEF MemifInv, Working, Merging
<1> QED BY <1>5, <1>6, <1>8, <1>9, <1>11 DEF MemifInv

-----------------------------------------------------------------------------
(* The last chunk.                                                         *)

\* The bytes of the call in the last chunk are the last ones.
LEMMA TailCells ==
  ASSUME MemifInv, pc \in {"tail", "tailStore"}
  PROVE  /\ addr = call.addr + bytes /\ bytes + len = call.len
         /\ call.addr \in Nat /\ call.len \in Nat /\ bytes \in Nat /\ len \in Nat
         /\ Partial \in 1 .. Align - 1 /\ Start \in Nat /\ Start + Partial = len
         /\ \A k \in 0 .. call.len - 1 :
              /\ call.addr + k \in Addrs
              /\ k \in bytes + Start .. call.len - 1 <=>
                   call.addr + k \in addr + Start .. addr + Start + Align - 1
<1>1. addr = call.addr + bytes /\ bytes + len = call.len
  BY DEF MemifInv, PlaceInv, Working, Merging
<1>2. /\ call.addr \in Nat /\ call.len \in Nat /\ call.addr + call.len <= Size
      /\ bytes \in Nat /\ len \in Nat
  BY DEF MemifInv, TypeOK, ArgsInv, Working, Merging
<1>3. Partial \in 1 .. Align - 1 /\ Start \in Nat /\ Start + Partial = len
  BY TailFacts DEF MemifInv
<1>4. \A k \in 0 .. call.len - 1 : call.addr + k \in Addrs
  BY <1>2, MemifConstants, SMT DEF Addrs
<1>5. \A k \in 0 .. call.len - 1 :
        k \in bytes + Start .. call.len - 1 <=>
          call.addr + k \in addr + Start .. addr + Start + Align - 1
  BY <1>1, <1>2, <1>3, MemifConstants, SMT
<1> QED BY <1>1, <1>2, <1>3, <1>4, <1>5

LEMMA TailPlaces ==
  ASSUME MemifInv, pc \in {"tail", "tailStore"}, PastTail, call' = call,
         addr' = addr, bytes' = bytes, pos' = pos, off' = off
  PROVE  /\ PlaceInv' /\ pc' \in {"body", "done"} /\ len' \in Nat
         /\ \A k \in 0 .. call.len - 1 :
              k \in Left => k \in Left' \/ k \in bytes + Start .. call.len - 1
<1>1. /\ addr = call.addr + bytes /\ bytes + len = call.len
      /\ call.addr \in Nat /\ call.len \in Nat /\ bytes \in Nat /\ len \in Nat
      /\ Start \in Nat /\ Partial \in 1 .. Align - 1 /\ Start + Partial = len
  BY TailCells
<1>2. pos = 0 /\ off = 0 /\ Aligned(addr)
  BY DEF MemifInv, PlaceInv, Merging
<1>3. Aligned(Start) BY TailFacts DEF MemifInv
<1>4. len' = Start /\ pc' = AfterTail(Start) BY DEF PastTail
<1>5. bytes + Start <= call.len /\ addr \in Nat BY <1>1, MemifConstants, SMT
<1>6. /\ PlaceInv' /\ pc' \in {"body", "done"}
      /\ \A k \in bytes .. bytes + Start - 1 : k \in Left'
  BY <1>1, <1>2, <1>3, <1>4, <1>5, EntersBody
<1>7. \A k \in 0 .. call.len - 1 :
        k \in Left =>
          k \in bytes .. bytes + Start - 1 \/ k \in bytes + Start .. call.len - 1
  <2>1. Left = bytes + pos + off .. bytes + len - 1 BY DEF Left, Working, Merging
  <2> QED BY <1>1, <1>2, <2>1, SMT
<1> QED BY <1>1, <1>4, <1>6, <1>7

\* The bytes that a last chunk brings.
LEMMA TailLoaded ==
  ASSUME MemifInv, ReadTail
  PROVE  \A k \in 0 .. call.len - 1 :
           dst'[k] = IF k \in bytes + Start .. call.len - 1
                       THEN mem[call.addr + k] ELSE dst[k]
<1>1. /\ pc = "tail" /\ call.op = "read"
      /\ dst' = Memcpy(dst, bytes + Start, Unit(addr + Start), 0, Partial)
  BY DEF ReadTail
<1>2. /\ addr = call.addr + bytes /\ bytes + len = call.len
      /\ call.addr \in Nat /\ call.len \in Nat /\ bytes \in Nat /\ len \in Nat
      /\ Partial \in 1 .. Align - 1 /\ Start \in Nat /\ Start + Partial = len
  BY <1>1, TailCells
<1>3. DOMAIN dst = 0 .. call.len - 1
  BY <1>1 DEF MemifInv, ArgsInv, Working, Merging
<1>4. \A k \in 0 .. call.len - 1 :
        dst'[k] = IF k \in bytes + Start .. call.len - 1
                    THEN mem[call.addr + k] ELSE dst[k]
  <2> SUFFICES ASSUME NEW k \in 0 .. call.len - 1
               PROVE  dst'[k] = IF k \in bytes + Start .. call.len - 1
                                  THEN mem[call.addr + k] ELSE dst[k]
    OBVIOUS
  <2> DEFINE j == 0 + (k - (bytes + Start))
  <2>1. dst'[k] = IF k \in bytes + Start .. bytes + Start + Partial - 1
                    THEN Unit(addr + Start)[j] ELSE dst[k]
    BY <1>1, <1>3 DEF Memcpy
  <2>2. bytes + Start + Partial - 1 = call.len - 1 BY <1>2, MemifConstants, SMT
  <2>3. CASE k \in bytes + Start .. call.len - 1
    <3>1. j \in 0 .. Align - 1 BY <1>2, <2>3, MemifConstants, SMT
    <3>2. addr + Start + j = call.addr + k BY <1>2, <2>3, SMT
    <3> HIDE DEF j
    <3>3. Unit(addr + Start)[j] = mem[addr + Start + j] BY <3>1 DEF Unit
    <3> QED BY <2>1, <2>2, <2>3, <3>2, <3>3
  <2>4. CASE k \notin bytes + Start .. call.len - 1 BY <2>1, <2>2, <2>4
  <2> QED BY <2>3, <2>4
<1> QED BY <1>4

LEMMA ReadTailStep == MemifInv /\ ReadTail => MemifInv'
<1> SUFFICES ASSUME MemifInv, ReadTail PROVE MemifInv' OBVIOUS
<1>1. /\ pc = "tail" /\ call.op = "read" /\ PastTail
      /\ dst' = Memcpy(dst, bytes + Start, Unit(addr + Start), 0, Partial)
      /\ UNCHANGED <<mem, call, addr, bytes, chunk, pos, off, calls, stores, held,
                     stored, raced>>
  BY DEF ReadTail
<1>2. /\ addr = call.addr + bytes /\ bytes + len = call.len
      /\ call.addr \in Nat /\ call.len \in Nat /\ bytes \in Nat /\ len \in Nat
      /\ Partial \in 1 .. Align - 1 /\ Start \in Nat /\ Start + Partial = len
  BY <1>1, TailCells
<1>3. /\ PlaceInv' /\ pc' \in {"body", "done"} /\ len' \in Nat
      /\ \A k \in 0 .. call.len - 1 :
           k \in Left => k \in Left' \/ k \in bytes + Start .. call.len - 1
  BY <1>1, TailPlaces
<1>4. TypeOK' BY <1>1, <1>3 DEF MemifInv, TypeOK, Pcs
<1>5. DOMAIN dst = 0 .. call.len - 1
  BY <1>1 DEF MemifInv, ArgsInv, Working, Merging
<1>6. DOMAIN dst' = 0 .. call.len - 1 BY <1>1, <1>5 DEF Memcpy
<1>7. ArgsInv' BY <1>1, <1>6 DEF MemifInv, ArgsInv, Working, Merging
<1>8. ChunkInv' BY <1>3 DEF ChunkInv
<1>9. \A k \in 0 .. call.len - 1 :
        dst'[k] = IF k \in bytes + Start .. call.len - 1
                    THEN mem[call.addr + k] ELSE dst[k]
  BY TailLoaded
<1>10. LandedInv' /\ LoadedInv'
  BY <1>1, <1>3, <1>9, SomeLoaded DEF MemifInv, Working, Merging
<1> QED BY <1>3, <1>4, <1>7, <1>8, <1>10 DEF MemifInv

LEMMA FetchTailStep == MemifInv /\ FetchTail => MemifInv'
<1> SUFFICES ASSUME MemifInv, FetchTail PROVE MemifInv' OBVIOUS
<1>1. /\ pc = "tail" /\ call.op = "write" /\ pc' = "tailStore" /\ raced' = {}
      /\ chunk' = Memcpy(Unit(addr + Start), 0, call.src, bytes + Start, Partial)
      /\ UNCHANGED <<mem, call, addr, len, bytes, pos, off, dst, calls, stores,
                     held, stored>>
  BY DEF FetchTail
<1> DEFINE at == addr + Start
<1>2. /\ addr = call.addr + bytes /\ bytes + len = call.len
      /\ call.addr \in Nat /\ call.len \in Nat /\ bytes \in Nat /\ len \in Nat
      /\ Partial \in 1 .. Align - 1 /\ Start \in Nat /\ Start + Partial = len
  BY <1>1, TailCells
<1>3. at \in Nat /\ Aligned(at) /\ addr + len <= Size
  BY <1>1, TailFacts DEF MemifInv
<1>4. at < Size BY <1>2, <1>3, MemifConstants, SMT
<1>5. call.src \in [0 .. call.len - 1 -> Byte]
  BY <1>1 DEF MemifInv, ArgsInv, Working, Merging
<1>6. \A j \in 0 .. Align - 1 :
        /\ mem[at + j] \in Byte
        /\ chunk'[j] = IF j \in 0 .. 0 + Partial - 1
                         THEN call.src[bytes + Start + (j - 0)] ELSE mem[at + j]
  <2>1. \A j \in 0 .. Align - 1 : at + j \in Addrs BY <1>3, <1>4, ChunkInMemory
  <2>2. \A j \in 0 .. Align - 1 : Unit(at)[j] = mem[at + j] BY DEF Unit
  <2>3. DOMAIN Unit(at) = 0 .. Align - 1 BY DEF Unit
  <2> QED BY <1>1, <2>1, <2>2, <2>3 DEF Memcpy, MemifInv, TypeOK
<1>7. DOMAIN chunk' = 0 .. Align - 1 BY <1>1 DEF Memcpy, Unit
<1>8. \A j \in 0 .. 0 + Partial - 1 : bytes + Start + (j - 0) \in 0 .. call.len - 1
  BY <1>2, MemifConstants, SMT
<1>9. \A j \in 0 .. Align - 1 : chunk'[j] \in Byte BY <1>5, <1>6, <1>8
<1>10. chunk' \in [0 .. Align - 1 -> Byte]
  <2>1. chunk' = [j \in 0 .. Align - 1 |-> chunk'[j]] BY <1>1, <1>7 DEF Memcpy
  <2> QED BY <1>9, <2>1
<1>11. TypeOK' BY <1>1, <1>10 DEF MemifInv, TypeOK, Pcs
<1>12. ArgsInv' /\ PlaceInv'
  BY <1>1 DEF MemifInv, ArgsInv, PlaceInv, Working, Merging
<1>13. LandedInv' /\ LoadedInv'
  <2>1. Left' = Left BY <1>1 DEF Left, Working, Merging
  <2> QED BY <1>1, <2>1 DEF MemifInv, LandedInv, LoadedInv, Working, Merging
<1>14. ChunkInv'
  <2>1. Access'.at = at BY <1>1 DEF Access, Start, Partial
  <2>2. CallRange' = CallRange BY <1>1 DEF CallRange
  <2> HIDE DEF at
  <2> SUFFICES ASSUME NEW j \in 0 .. Align - 1
               PROVE  /\ at + j \in CallRange =>
                           chunk'[j] = call.src[(at + j) - call.addr]
                      /\ at + j \notin CallRange => chunk'[j] = mem[at + j]
    BY <1>1, <2>1, <2>2 DEF ChunkInv
  <2>3. at = call.addr + bytes + Start BY <1>2 DEF at
  <2>4. CASE j \in 0 .. 0 + Partial - 1
    <3>1. bytes + Start + (j - 0) = (at + j) - call.addr BY <1>2, <2>3, <2>4, SMT
    <3>2. at + j \in CallRange
      BY <1>2, <2>3, <2>4, MemifConstants, SMT DEF CallRange
    <3> QED BY <1>6, <2>4, <3>1, <3>2
  <2>5. CASE j \notin 0 .. 0 + Partial - 1
    <3>1. at + j \notin CallRange
      BY <1>2, <2>3, <2>5, MemifConstants, SMT DEF CallRange
    <3> QED BY <1>6, <2>5, <3>1
  <2> QED BY <2>4, <2>5
<1> QED BY <1>11, <1>12, <1>13, <1>14 DEF MemifInv

LEMMA StoreTailStep == MemifInv /\ StoreTail => MemifInv'
<1> SUFFICES ASSUME MemifInv, StoreTail PROVE MemifInv' OBVIOUS
<1>1. /\ pc = "tailStore" /\ PastTail
      /\ mem' = Memcpy(mem, addr + Start, chunk, 0, Align)
      /\ UNCHANGED <<call, addr, bytes, chunk, pos, off, dst, calls, stores, held,
                     stored, raced>>
  BY DEF StoreTail
<1> DEFINE at == addr + Start
<1>2. /\ call.addr \in Nat /\ call.len \in Nat /\ bytes \in Nat /\ Start \in Nat
      /\ \A k \in 0 .. call.len - 1 :
           /\ call.addr + k \in Addrs
           /\ k \in bytes + Start .. call.len - 1 <=>
                call.addr + k \in at .. at + Align - 1
  BY <1>1, TailCells
<1>3. Access.at = at /\ at \in Nat BY <1>1, TailFacts DEF MemifInv
<1> HIDE DEF at
<1>4. /\ mem' \in [Addrs -> Byte]
      /\ \A a \in Addrs :
           /\ a \notin at .. at + Align - 1 => mem'[a] = mem[a]
           /\ a \in at .. at + Align - 1 =>
                (a \in CallRange => mem'[a] = call.src[a - call.addr])
  BY <1>1, <1>3, StoreChunk DEF at
<1>5. /\ PlaceInv' /\ pc' \in {"body", "done"} /\ len' \in Nat
      /\ \A k \in 0 .. call.len - 1 :
           k \in Left => k \in Left' \/ k \in bytes + Start .. call.len - 1
  BY <1>1, TailPlaces
<1>6. TypeOK' BY <1>1, <1>4, <1>5 DEF MemifInv, TypeOK, Pcs
<1>7. call.op = "write" BY <1>1 DEF MemifInv, PlaceInv
<1>8. ArgsInv' BY <1>1 DEF MemifInv, ArgsInv, Working, Merging
<1>9. ChunkInv' BY <1>5 DEF ChunkInv
<1>10. \A k \in 0 .. call.len - 1 :
         mem'[call.addr + k] = IF k \in bytes + Start .. call.len - 1
                               THEN call.src[k] ELSE mem[call.addr + k]
  <2> SUFFICES ASSUME NEW k \in 0 .. call.len - 1
               PROVE  mem'[call.addr + k] = IF k \in bytes + Start .. call.len - 1
                                              THEN call.src[k]
                                              ELSE mem[call.addr + k]
    OBVIOUS
  <2> DEFINE a == call.addr + k
  <2>1. a \in CallRange /\ a - call.addr = k BY <1>2, SMT DEF CallRange
  <2>2. /\ a \in Addrs
        /\ k \in bytes + Start .. call.len - 1 <=> a \in at .. at + Align - 1
    BY <1>2
  <2> HIDE DEF a
  <2>3. mem'[a] = IF k \in bytes + Start .. call.len - 1 THEN call.src[k] ELSE mem[a]
    BY <1>4, <2>1, <2>2
  <2> QED BY <2>3 DEF a
<1>11. LandedInv' /\ LoadedInv'
  BY <1>1, <1>5, <1>7, <1>10, SomeLand DEF MemifInv, Working, Merging
<1> QED BY <1>5, <1>6, <1>8, <1>9, <1>11 DEF MemifInv

-----------------------------------------------------------------------------
(* The aligned rest.                                                       *)

\* The cells of the unit that is next, and their places in the call.
LEMMA UnitCells ==
  ASSUME MemifInv, pc = "body"
  PROVE  /\ addr = call.addr + bytes /\ bytes + len <= call.len
         /\ call.addr \in Nat /\ call.len \in Nat
         /\ bytes \in Nat /\ len \in Nat /\ pos \in Nat /\ off \in Nat
         /\ pos + off + Align <= len /\ off + Align <= MaxChunk
         /\ \A k \in 0 .. call.len - 1 :
              /\ call.addr + k \in Addrs
              /\ k \in bytes + pos + off .. bytes + pos + off + Align - 1 <=>
                   call.addr + k \in
                     addr + pos + off .. addr + pos + off + Align - 1
<1>1. addr = call.addr + bytes /\ bytes + len <= call.len
  BY DEF MemifInv, PlaceInv, Working
<1>2. /\ call.addr \in Nat /\ call.len \in Nat /\ call.addr + call.len <= Size
      /\ bytes \in Nat /\ len \in Nat /\ pos \in Nat /\ off \in Nat
  BY DEF MemifInv, TypeOK, ArgsInv, Working
<1>3. /\ Access.len \in Nat /\ off + Align <= Access.len
      /\ Access.len <= MaxChunk /\ pos + Access.len <= len
  BY BodyFacts DEF MemifInv
<1>4. pos + off + Align <= len /\ off + Align <= MaxChunk
  BY <1>2, <1>3, MemifConstants, SMT
<1>5. \A k \in 0 .. call.len - 1 : call.addr + k \in Addrs
  BY <1>2, MemifConstants, SMT DEF Addrs
<1>6. \A k \in 0 .. call.len - 1 :
        k \in bytes + pos + off .. bytes + pos + off + Align - 1 <=>
          call.addr + k \in addr + pos + off .. addr + pos + off + Align - 1
  BY <1>1, <1>2, MemifConstants, SMT
<1> QED BY <1>1, <1>2, <1>4, <1>5, <1>6

LEMMA UnitPlaces ==
  ASSUME MemifInv, pc = "body", PastUnit, call' = call, addr' = addr,
         len' = len, bytes' = bytes
  PROVE  /\ PlaceInv' /\ pc' \in {"body", "done"} /\ pos' \in Nat /\ off' \in Nat
         /\ \A k \in 0 .. call.len - 1 :
              k \in Left => \/ k \in Left'
                            \/ k \in bytes + pos + off ..
                                       bytes + pos + off + Align - 1
<1>1. /\ addr = call.addr + bytes /\ bytes + len <= call.len
      /\ call.addr \in Nat /\ call.len \in Nat
      /\ bytes \in Nat /\ len \in Nat /\ pos \in Nat /\ off \in Nat
  BY UnitCells
<1>2. /\ Aligned(addr) /\ Aligned(len) /\ Aligned(pos) /\ Aligned(off) /\ pos < len
  BY DEF MemifInv, PlaceInv
<1>3. /\ Access.len = Lesser(MaxChunk, len - pos)
      /\ Access.len \in Nat /\ off + Align <= Access.len
      /\ Access.len <= MaxChunk /\ pos + Access.len <= len
      /\ Access.len < MaxChunk => pos + Access.len = len
      /\ Aligned(Access.len)
  BY BodyFacts DEF MemifInv
<1>4. Left = bytes + pos + off .. bytes + len - 1 BY DEF Left, Working
<1>5. CASE off + Align < Access.len
  <2>1. off' = off + Align /\ pos' = pos /\ pc' = pc BY <1>5 DEF PastUnit
  <2>2. off + Align \in Nat BY <1>1, MemifConstants, SMT
  <2>3. Aligned(off + Align)
    BY <1>1, <1>2, MemifConstants, AlignedZero, AlignedSum
  <2>4. PlaceInv'
    BY <1>1, <1>2, <1>3, <1>5, <2>1, <2>2, <2>3 DEF PlaceInv, Working, Merging
  <2>5. Left' = bytes + pos + (off + Align) .. bytes + len - 1
    BY <2>1 DEF Left, Working
  <2>6. \A k \in bytes + pos + off .. bytes + len - 1 :
          \/ k \in bytes + pos + (off + Align) .. bytes + len - 1
          \/ k \in bytes + pos + off .. bytes + pos + off + Align - 1
    BY <1>1, MemifConstants, SMT
  <2> QED BY <1>1, <1>4, <2>1, <2>2, <2>4, <2>5, <2>6
<1>6. CASE ~(off + Align < Access.len)
  <2>1. /\ off' = 0 /\ pos' = pos + MaxChunk
        /\ pc' = IF pos + MaxChunk < len THEN "body" ELSE "done"
    BY <1>6 DEF PastUnit
  <2>2. off + Align = Access.len BY <1>1, <1>3, <1>6, MemifConstants, SMT
  <2>3. pos + MaxChunk \in Nat BY <1>1, MemifConstants, SMT
  <2>4. CASE pos + MaxChunk < len
    <3>1. pc' = "body" BY <2>1, <2>4
    <3>2. Aligned(pos + MaxChunk) /\ Aligned(0)
      BY <1>1, <1>2, MemifConstants, AlignedZero, AlignedSum
    <3>3. 0 < Lesser(MaxChunk, len - (pos + MaxChunk))
      BY <1>1, <2>3, <2>4, MemifConstants, SMT DEF Lesser
    <3>4. PlaceInv'
      BY <1>1, <1>2, <2>1, <2>4, <3>1, <3>2, <3>3 DEF PlaceInv, Working, Merging
    <3>5. Left' = bytes + (pos + MaxChunk) + 0 .. bytes + len - 1
      BY <2>1, <3>1 DEF Left, Working
    <3>6. \A k \in bytes + pos + off .. bytes + len - 1 :
            \/ k \in bytes + (pos + MaxChunk) + 0 .. bytes + len - 1
            \/ k \in bytes + pos + off .. bytes + pos + off + Align - 1
      <4>1. Access.len = MaxChunk
        BY <1>1, <1>3, <2>4, MemifConstants, SMT
      <4> QED BY <1>1, <2>2, <4>1, MemifConstants, SMT
    <3>7. 0 \in Nat /\ off' \in Nat /\ pos' \in Nat BY <2>1, <2>3
    <3> QED BY <1>4, <3>1, <3>4, <3>5, <3>6, <3>7
  <2>5. CASE ~(pos + MaxChunk < len)
    <3>1. pc' = "done" BY <2>1, <2>5
    <3>2. PlaceInv' BY <3>1 DEF PlaceInv, Working, Merging
    <3>3. \A k \in bytes + pos + off .. bytes + len - 1 :
            k \in bytes + pos + off .. bytes + pos + off + Align - 1
      <4>1. pos + Access.len = len
        BY <1>1, <1>3, <2>5, MemifConstants, SMT
      <4> QED BY <1>1, <2>2, <4>1, MemifConstants, SMT
    <3>4. off' \in Nat /\ pos' \in Nat BY <2>1, <2>3
    <3> QED BY <1>4, <3>1, <3>2, <3>3, <3>4
  <2> QED BY <2>4, <2>5
<1> QED BY <1>5, <1>6

\* The bytes that a unit brings.
LEMMA UnitLoaded ==
  ASSUME MemifInv, ReadUnit
  PROVE  \A k \in 0 .. call.len - 1 :
           dst'[k] = IF k \in bytes + pos + off .. bytes + pos + off + Align - 1
                       THEN mem[call.addr + k] ELSE dst[k]
<1>1. /\ pc = "body" /\ call.op = "read"
      /\ dst' = Memcpy(dst, bytes + pos + off, mem, addr + pos + off, Align)
  BY DEF ReadUnit
<1>2. /\ addr = call.addr + bytes /\ call.addr \in Nat /\ call.len \in Nat
      /\ bytes \in Nat /\ pos \in Nat /\ off \in Nat
  BY <1>1, UnitCells
<1>3. DOMAIN dst = 0 .. call.len - 1 BY <1>1 DEF MemifInv, ArgsInv, Working
<1>4. \A k \in 0 .. call.len - 1 :
        dst'[k] = IF k \in bytes + pos + off .. bytes + pos + off + Align - 1
                    THEN mem[call.addr + k] ELSE dst[k]
  <2>1. \A k \in 0 .. call.len - 1 :
          addr + pos + off + (k - (bytes + pos + off)) = call.addr + k
    BY <1>2, SMT
  <2> QED BY <1>1, <1>3, <2>1 DEF Memcpy
<1> QED BY <1>4

LEMMA ReadUnitStep == MemifInv /\ ReadUnit => MemifInv'
<1> SUFFICES ASSUME MemifInv, ReadUnit PROVE MemifInv' OBVIOUS
<1>1. /\ pc = "body" /\ call.op = "read" /\ PastUnit
      /\ dst' = Memcpy(dst, bytes + pos + off, mem, addr + pos + off, Align)
      /\ UNCHANGED <<mem, call, addr, len, bytes, chunk, calls, stores, held,
                     stored, raced>>
  BY DEF ReadUnit
<1>2. /\ addr = call.addr + bytes /\ call.addr \in Nat /\ call.len \in Nat
      /\ bytes \in Nat /\ pos \in Nat /\ off \in Nat
  BY <1>1, UnitCells
<1>3. /\ PlaceInv' /\ pc' \in {"body", "done"} /\ pos' \in Nat /\ off' \in Nat
      /\ \A k \in 0 .. call.len - 1 :
           k \in Left => \/ k \in Left'
                         \/ k \in bytes + pos + off ..
                                    bytes + pos + off + Align - 1
  BY <1>1, UnitPlaces
<1>4. TypeOK' BY <1>1, <1>3 DEF MemifInv, TypeOK, Pcs
<1>5. DOMAIN dst = 0 .. call.len - 1 BY <1>1 DEF MemifInv, ArgsInv, Working
<1>6. DOMAIN dst' = 0 .. call.len - 1 BY <1>1, <1>5 DEF Memcpy
<1>7. ArgsInv' BY <1>1, <1>6 DEF MemifInv, ArgsInv, Working
<1>8. ChunkInv' BY <1>3 DEF ChunkInv
<1>9. \A k \in 0 .. call.len - 1 :
        dst'[k] = IF k \in bytes + pos + off .. bytes + pos + off + Align - 1
                    THEN mem[call.addr + k] ELSE dst[k]
  BY UnitLoaded
<1>10. LandedInv' /\ LoadedInv'
  BY <1>1, <1>3, <1>9, SomeLoaded DEF MemifInv, Working
<1> QED BY <1>3, <1>4, <1>7, <1>8, <1>10 DEF MemifInv

\* A unit of the source, or zeros if all of it is zero.
LEMMA StoreUnit ==
  ASSUME MemifInv, pc = "body", call.op = "write", PastUnit,
         mem' \in [Addrs -> Byte],
         \A k \in 0 .. call.len - 1 :
           mem'[call.addr + k] =
             IF k \in bytes + pos + off .. bytes + pos + off + Align - 1
               THEN call.src[k] ELSE mem[call.addr + k],
         UNCHANGED <<call, addr, len, bytes, chunk, dst, calls, stores, held,
                     stored, raced>>
  PROVE  MemifInv'
<1>1. /\ PlaceInv' /\ pc' \in {"body", "done"} /\ pos' \in Nat /\ off' \in Nat
      /\ \A k \in 0 .. call.len - 1 :
           k \in Left => \/ k \in Left'
                         \/ k \in bytes + pos + off ..
                                    bytes + pos + off + Align - 1
  BY UnitPlaces
<1>2. TypeOK' BY <1>1 DEF MemifInv, TypeOK, Pcs
<1>3. ArgsInv' BY DEF MemifInv, ArgsInv, Working
<1>4. ChunkInv' BY <1>1 DEF ChunkInv
<1>5. LandedInv' /\ LoadedInv' BY <1>1, SomeLand DEF MemifInv, Working
<1> QED BY <1>1, <1>2, <1>3, <1>4, <1>5 DEF MemifInv

\* What the two kinds of unit write: n bytes of c, from j on.
LEMMA UnitWritten ==
  ASSUME MemifInv, pc = "body", call.op = "write", NEW c, NEW j \in Nat,
         mem' = Memcpy(mem, addr + pos + off, c, j, Align),
         \A i \in 0 .. Align - 1 : c[j + i] = call.src[bytes + pos + off + i]
  PROVE  /\ mem' \in [Addrs -> Byte]
         /\ \A a \in Addrs : a \notin CallRange => mem'[a] = mem[a]
         /\ \A k \in 0 .. call.len - 1 :
              mem'[call.addr + k] =
                IF k \in bytes + pos + off .. bytes + pos + off + Align - 1
                  THEN call.src[k] ELSE mem[call.addr + k]
<1> DEFINE at == addr + pos + off
           b == bytes + pos + off
<1>1. /\ addr = call.addr + bytes /\ bytes + len <= call.len
      /\ call.addr \in Nat /\ call.len \in Nat
      /\ bytes \in Nat /\ len \in Nat /\ pos \in Nat /\ off \in Nat
      /\ pos + off + Align <= len
      /\ \A k \in 0 .. call.len - 1 :
           /\ call.addr + k \in Addrs
           /\ k \in b .. b + Align - 1 <=>
                call.addr + k \in at .. at + Align - 1
  BY UnitCells
<1>2. b \in Nat /\ at = call.addr + b /\ b + Align <= call.len
  BY <1>1, MemifConstants, SMT
<1>3. mem \in [Addrs -> Byte] /\ call.src \in [0 .. call.len - 1 -> Byte]
  BY DEF MemifInv, TypeOK, ArgsInv, Working
<1> HIDE DEF at, b
<1>4. \A a \in Addrs : mem'[a] = IF a \in at .. at + Align - 1
                                   THEN c[j + (a - at)] ELSE mem[a]
  BY <1>3 DEF Memcpy, at
<1>5. ASSUME NEW i \in 0 .. Align - 1
      PROVE  c[j + i] = call.src[b + i]
  BY <1>5 DEF b
<1>6. ASSUME NEW a \in Addrs, a \in at .. at + Align - 1
      PROVE  /\ a - at \in 0 .. Align - 1
             /\ b + (a - at) = a - call.addr /\ a - call.addr \in 0 .. call.len - 1
             /\ a \in CallRange
  <2>1. a \in Nat /\ call.addr \in Nat /\ call.len \in Nat
    BY <1>1, MemifConstants DEF Addrs
  <2>2. a - at \in 0 .. Align - 1 /\ b + (a - at) = a - call.addr
    BY <1>2, <1>6, <2>1, MemifConstants, SMT
  <2>3. a - call.addr \in 0 .. call.len - 1
    BY <1>2, <1>6, <2>1, MemifConstants, SMT
  <2>4. a \in CallRange BY <2>1, <2>3, SMT DEF CallRange
  <2> QED BY <2>2, <2>3, <2>4
<1>7. ASSUME NEW a \in Addrs, a \in at .. at + Align - 1
      PROVE  c[j + (a - at)] = call.src[a - call.addr]
  <2>1. a - at \in 0 .. Align - 1 /\ b + (a - at) = a - call.addr BY <1>6, <1>7
  <2>2. c[j + (a - at)] = call.src[b + (a - at)] BY <1>5, <2>1
  <2> QED BY <2>1, <2>2
<1>8. ASSUME NEW a \in Addrs PROVE mem'[a] \in Byte
  <2>1. CASE a \in at .. at + Align - 1 BY <1>3, <1>4, <1>6, <1>7, <2>1
  <2>2. CASE a \notin at .. at + Align - 1 BY <1>3, <1>4, <2>2
  <2> QED BY <2>1, <2>2
<1>9. mem' = [a \in Addrs |-> mem'[a]] BY <1>3 DEF Memcpy
<1>10. \A k \in 0 .. call.len - 1 : (call.addr + k) - call.addr = k
  BY <1>1, SMT
<1>11. ASSUME NEW k \in 0 .. call.len - 1
       PROVE  mem'[call.addr + k] = IF k \in b .. b + Align - 1
                                      THEN call.src[k] ELSE mem[call.addr + k]
  <2> DEFINE a == call.addr + k
  <2>1. /\ a \in Addrs /\ a - call.addr = k
        /\ k \in b .. b + Align - 1 <=> a \in at .. at + Align - 1
    BY <1>1, <1>10
  <2> HIDE DEF a
  <2>2. mem'[a] = IF k \in b .. b + Align - 1 THEN call.src[k] ELSE mem[a]
    BY <1>4, <1>7, <2>1
  <2> QED BY <2>2 DEF a
<1> QED BY <1>4, <1>6, <1>8, <1>9, <1>11 DEF b

LEMMA WriteUnitStep == MemifInv /\ WriteUnit => MemifInv'
<1> SUFFICES ASSUME MemifInv, WriteUnit PROVE MemifInv' OBVIOUS
<1>1. /\ pc = "body" /\ call.op = "write" /\ PastUnit
      /\ mem' = Memcpy(mem, addr + pos + off, call.src, bytes + pos + off, Align)
      /\ UNCHANGED <<call, addr, len, bytes, chunk, dst, calls, stores, held,
                     stored, raced>>
  BY DEF WriteUnit
<1>2. bytes + pos + off \in Nat BY <1>1, SMT DEF MemifInv, TypeOK
<1> QED BY <1>1, <1>2, UnitWritten, StoreUnit

\* What is left of the source is zero, and the buffer of zeros long enough.
LEMMA ZeroUnit ==
  ASSUME MemifInv, pc = "body", call.op = "write", AllZero
  PROVE  /\ off \in Nat
         /\ \A i \in 0 .. Align - 1 :
              Zeros[off + i] = call.src[bytes + pos + off + i]
<1>1. /\ bytes \in Nat /\ len \in Nat /\ pos \in Nat /\ off \in Nat
      /\ pos + off + Align <= len /\ off + Align <= MaxChunk
  BY UnitCells
<1>2. ASSUME NEW i \in 0 .. Align - 1
      PROVE  Zeros[off + i] = call.src[bytes + pos + off + i]
  <2>1. off + i \in 0 .. MaxChunk - 1 BY <1>1, MemifConstants, SMT
  <2>2. Zeros[off + i] = 0 BY <2>1 DEF Zeros
  <2>3. pos + off + i \in 0 .. len - 1 BY <1>1, MemifConstants, SMT
  <2>4. call.src[bytes + (pos + off + i)] = 0 BY <2>3 DEF AllZero
  <2>5. bytes + (pos + off + i) = bytes + pos + off + i BY <1>1, SMT
  <2> QED BY <2>2, <2>4, <2>5
<1> QED BY <1>1, <1>2

LEMMA ClearUnitStep == MemifInv /\ ClearUnit => MemifInv'
<1> SUFFICES ASSUME MemifInv, ClearUnit PROVE MemifInv' OBVIOUS
<1>1. /\ pc = "body" /\ call.op = "write" /\ PastUnit /\ AllZero
      /\ mem' = Memcpy(mem, addr + pos + off, Zeros, off, Align)
      /\ UNCHANGED <<call, addr, len, bytes, chunk, dst, calls, stores, held,
                     stored, raced>>
  BY DEF ClearUnit
<1>2. /\ off \in Nat
      /\ \A i \in 0 .. Align - 1 :
           Zeros[off + i] = call.src[bytes + pos + off + i]
  BY <1>1, ZeroUnit
<1> QED BY <1>1, <1>2, UnitWritten, StoreUnit

-----------------------------------------------------------------------------
(* The ends of a call, and the target.                                     *)

LEMMA ReturnStep == MemifInv /\ Return => MemifInv'
<1> SUFFICES ASSUME MemifInv, Return PROVE MemifInv' OBVIOUS
<1>1. /\ pc' = "idle" /\ call' = NoCall
      /\ UNCHANGED <<mem, addr, len, bytes, chunk, pos, off, calls, stores, stored,
                     raced>>
  BY DEF Return
<1>2. TypeOK' BY <1>1 DEF MemifInv, TypeOK, NoCall, Pcs
<1> QED
  BY <1>1, <1>2 DEF MemifInv, ArgsInv, PlaceInv, ChunkInv, LandedInv, LoadedInv,
     Working, Merging

LEMMA ThrowStep ==
  ASSUME MemifInv, NEW a, NEW n, Throw(a, n)
  PROVE  MemifInv'
<1>1. /\ pc' = "threw"
      /\ UNCHANGED <<mem, calls, stores, held, stored, raced, local>>
  BY DEF Throw
<1>2. TypeOK' BY <1>1 DEF MemifInv, TypeOK, Pcs, local
<1> QED
  BY <1>1, <1>2 DEF MemifInv, ArgsInv, PlaceInv, ChunkInv, LandedInv, LoadedInv,
     Working, Merging

LEMMA TargetStep ==
  ASSUME MemifInv, NEW a \in Addrs, NEW n \in Sizes, TargetStores(a, n)
  PROVE  MemifInv'
<1> DEFINE cells == a .. a + n - 1
           merging == IF pc \in {"headStore", "tailStore"}
                        THEN Access.at .. Access.at + Align - 1 ELSE {}
<1>1. /\ a + n <= Size /\ stores' = stores + 1
      /\ mem' = [c \in Addrs |-> IF c \in cells THEN TargetByte ELSE mem[c]]
      /\ stored' = stored \cup cells
      /\ raced' = raced \cup (cells \cap merging)
      /\ held' = IF call.op = "read"
                   THEN held \cup {Snapshot(mem', call.addr, call.len)} ELSE held
      /\ UNCHANGED <<pc, calls, local>>
  BY DEF TargetStores
<1>2. UNCHANGED <<call, addr, len, bytes, chunk, pos, off, dst>>
  BY <1>1 DEF local
<1>3. cells \subseteq Addrs
  <2>1. n \in Nat /\ a \in Nat BY MemifConstants DEF Addrs
  <2> QED BY <1>1, <2>1, MemifConstants, SMT DEF Addrs
<1> HIDE DEF cells, merging
<1>4. TypeOK'
  <2>1. mem' \in [Addrs -> Byte]
    BY <1>1, MemifConstants DEF MemifInv, TypeOK
  <2>2. stored' \subseteq Addrs /\ raced' \subseteq Addrs
    BY <1>1, <1>3 DEF MemifInv, TypeOK
  <2>3. stores' \in Nat BY <1>1 DEF MemifInv, TypeOK
  <2> QED BY <1>1, <1>2, <2>1, <2>2, <2>3 DEF MemifInv, TypeOK
<1>5. ArgsInv' /\ PlaceInv'
  BY <1>1, <1>2 DEF MemifInv, ArgsInv, PlaceInv, Working, Merging
<1>6. ChunkInv'
  <2> SUFFICES ASSUME pc \in {"headStore", "tailStore"},
                      NEW k \in 0 .. Align - 1, Access.at + k \notin CallRange
               PROVE  \/ chunk[k] = mem'[Access.at + k]
                      \/ Access.at + k \in raced'
    <3>1. Access' = Access /\ CallRange' = CallRange /\ chunk' = chunk
      BY <1>1, <1>2 DEF Access, CallRange, Start, Partial, Base
    <3> QED BY <1>1, <1>2, <3>1 DEF MemifInv, ChunkInv
  <2> DEFINE c == Access.at + k
  <2>1. Access.at \in Nat /\ Aligned(Access.at) /\ Access.at < Size
    <3>1. CASE pc = "headStore"
      <4>1. /\ Access.at = Base(addr) /\ Base(addr) \in Nat /\ Aligned(Base(addr))
            /\ addr < Size /\ Base(addr) + (addr % Align) = addr
            /\ addr % Align \in 0 .. Align - 1
        BY <3>1, HeadFacts DEF MemifInv
      <4> DEFINE r == addr % Align
      <4>2. r \in 0 .. Align - 1 /\ Base(addr) + r = addr BY <4>1
      <4> HIDE DEF r
      <4>3. Base(addr) < Size BY <4>1, <4>2, MemifConstants, SMT
      <4> QED BY <4>1, <4>3
    <3>2. CASE pc = "tailStore"
      <4>1. /\ Access.at = addr + Start /\ addr + Start \in Nat
            /\ Aligned(addr + Start) /\ Start < len /\ Start \in Nat
            /\ addr + len <= Size
        BY <3>2, TailFacts DEF MemifInv
      <4>2. addr \in Nat /\ len \in Nat BY DEF MemifInv, TypeOK
      <4>3. addr + Start < Size BY <4>1, <4>2, MemifConstants, SMT
      <4> QED BY <4>1, <4>3
    <3> QED BY <3>1, <3>2
  <2>2. c \in Addrs BY <2>1, ChunkInMemory
  <2>3. chunk[k] = mem[c] \/ c \in raced BY DEF MemifInv, ChunkInv
  <2>4. c \in merging BY <2>1, MemifConstants, SMT DEF merging
  <2> HIDE DEF c
  <2>5. CASE c \in cells BY <1>1, <2>4, <2>5 DEF c
  <2>6. CASE c \notin cells
    <3>1. mem'[c] = mem[c] BY <1>1, <2>2, <2>6
    <3> QED BY <1>1, <2>3, <3>1 DEF c
  <2> QED BY <2>5, <2>6
<1>7. Left' = Left BY <1>1, <1>2 DEF Left, Working, Merging
<1>8. (Working \/ pc = "done") =>
        \A k \in 0 .. call.len - 1 : call.addr + k \in Addrs
  <2>1. call.addr \in Nat /\ call.len \in Nat BY DEF MemifInv, TypeOK
  <2>2. Working \/ pc = "done" => call.addr + call.len <= Size
    BY DEF MemifInv, ArgsInv
  <2> QED BY <2>1, <2>2, MemifConstants, SMT DEF Addrs
<1>9. LandedInv'
  <2> SUFFICES ASSUME Working \/ pc = "done", call.op = "write",
                      NEW k \in 0 .. call.len - 1
               PROVE  \/ k \in Left \/ call.addr + k \in stored'
                      \/ mem'[call.addr + k] = call.src[k]
    BY <1>1, <1>2, <1>7 DEF LandedInv, Working, Merging
  <2> DEFINE c == call.addr + k
  <2>1. k \in Left \/ c \in stored \/ mem[c] = call.src[k]
    BY DEF MemifInv, LandedInv
  <2>2. c \in Addrs BY <1>8
  <2> HIDE DEF c
  <2>3. c \in cells \/ mem'[c] = mem[c] BY <1>1, <2>2
  <2> QED BY <1>1, <2>1, <2>3 DEF c
<1>10. LoadedInv'
  BY <1>1, <1>2, <1>7 DEF MemifInv, LoadedInv, Working, Merging
<1> QED BY <1>4, <1>5, <1>6, <1>9, <1>10 DEF MemifInv

-----------------------------------------------------------------------------
(* The theorems.                                                           *)

LEMMA MemifStep == MemifInv /\ [Next]_vars => MemifInv'
<1> SUFFICES ASSUME MemifInv, [Next]_vars PROVE MemifInv' OBVIOUS
<1>1. ASSUME Calls PROVE MemifInv'
  <2>1. ASSUME NEW a \in Addrs, NEW n \in 0 .. Size, a + n <= Size, Read(a, n)
        PROVE  MemifInv'
    BY <2>1, ReadStep
  <2>2. ASSUME NEW a \in Addrs, NEW n \in 0 .. Size, a + n <= Size,
               NEW src \in [0 .. n - 1 -> Written], Write(a, n, src)
        PROVE  MemifInv'
    BY <2>2, WriteStep
  <2>3. ASSUME NEW a \in Addrs, NEW n \in Sizes, Throw(a, n) PROVE MemifInv'
    BY <2>3, ThrowStep
  <2> QED BY <1>1, <2>1, <2>2, <2>3 DEF Calls
<1>2. ASSUME Host PROVE MemifInv'
  BY <1>2, ReadHeadStep, FetchHeadStep, StoreHeadStep, ReadTailStep, FetchTailStep,
     StoreTailStep, ReadUnitStep, WriteUnitStep, ClearUnitStep, ReturnStep DEF Host
<1>3. ASSUME NEW a \in Addrs, NEW n \in Sizes, TargetStores(a, n) PROVE MemifInv'
  BY <1>3, TargetStep
<1>4. CASE UNCHANGED vars
  <2>1. UNCHANGED <<mem, pc, calls, stores, held, stored, raced, call, addr, len,
                    bytes, chunk, pos, off, dst>>
    BY <1>4 DEF vars, local
  <2>2. Working' = Working /\ Left' = Left /\ Access' = Access
        /\ CallRange' = CallRange
    BY <2>1 DEF Working, Merging, Left, Access, CallRange, Start, Partial, Base
  <2>3. TypeOK' BY <2>1 DEF MemifInv, TypeOK
  <2>4. ArgsInv' BY <2>1, <2>2 DEF MemifInv, ArgsInv
  <2>5. PlaceInv' BY <2>1 DEF MemifInv, PlaceInv, Working, Merging
  <2>6. ChunkInv' BY <2>1, <2>2 DEF MemifInv, ChunkInv
  <2>7. LandedInv' BY <2>1, <2>2 DEF MemifInv, LandedInv
  <2>8. LoadedInv' BY <2>1, <2>2 DEF MemifInv, LoadedInv
  <2> QED BY <2>3, <2>4, <2>5, <2>6, <2>7, <2>8 DEF MemifInv
<1> QED BY <1>1, <1>2, <1>3, <1>4 DEF Next

\* Every access is an aligned chunk of a legal size inside the hull of the call.
LEMMA AccessesFitInv == MemifInv => AccessesFit
<1> SUFFICES ASSUME MemifInv, Working PROVE AccessesFit
  BY DEF AccessesFit, Working, Merging
<1>1. /\ call.addr \in Nat /\ call.len \in Nat /\ bytes \in Nat /\ len \in Nat
      /\ addr \in Nat /\ addr = call.addr + bytes /\ bytes + len <= call.len
  BY DEF MemifInv, TypeOK, PlaceInv
<1>2. Base(call.addr) \in Nat /\ Base(call.addr) <= call.addr
  <2> DEFINE r == call.addr % Align
  <2>1. r \in 0 .. Align - 1 /\ call.addr - r \in Nat BY <1>1, AlignedRounding
  <2>2. Base(call.addr) = call.addr - r BY DEF Base
  <2> HIDE DEF r
  <2> QED BY <1>1, <2>1, <2>2, MemifConstants, SMT
<1>3. CASE pc \in {"head", "headStore"}
  <2>1. /\ Access.at = Base(addr) /\ Access.len = Align
        /\ Base(addr) \in Nat /\ Aligned(Base(addr)) /\ HeadLen \in 1 .. len
    BY <1>3, HeadFacts DEF MemifInv
  <2>2. addr = call.addr BY <1>3, HeadCells
  <2>3. Base(addr) + Align < call.addr + call.len + Align
    BY <1>1, <1>2, <2>1, <2>2, MemifConstants, SMT
  <2>4. Align \in 1 .. MaxChunk BY AlignFits, MemifConstants, SMT
  <2>5. Base(call.addr) <= Base(addr) BY <1>2, <2>2, SMT
  <2> QED BY <2>1, <2>3, <2>4, <2>5, AlignedZero DEF AccessesFit
<1>4. CASE pc \in {"tail", "tailStore"}
  <2>1. /\ Access.at = addr + Start /\ Access.len = Align
        /\ Aligned(addr + Start) /\ Start \in Nat /\ Start < len
    BY <1>4, TailFacts DEF MemifInv
  <2>2. /\ Base(call.addr) <= addr + Start
        /\ addr + Start + Align < call.addr + call.len + Align
    BY <1>1, <1>2, <2>1, MemifConstants, SMT
  <2>3. Align \in 1 .. MaxChunk BY AlignFits, MemifConstants, SMT
  <2> QED BY <2>1, <2>2, <2>3, AlignedZero DEF AccessesFit
<1>5. CASE pc = "body"
  <2>1. /\ Access.at = addr + pos /\ Aligned(addr + pos)
        /\ Access.len \in Nat /\ Aligned(Access.len) /\ Access.len <= MaxChunk
        /\ off + Align <= Access.len /\ pos + Access.len <= len
    BY <1>5, BodyFacts DEF MemifInv
  <2>2. pos \in Nat /\ off \in Nat BY DEF MemifInv, TypeOK
  <2>3. Access.len \in 1 .. MaxChunk BY <2>1, <2>2, MemifConstants, SMT
  <2>4. /\ Base(call.addr) <= addr + pos
        /\ addr + pos + Access.len < call.addr + call.len + Align
    BY <1>1, <1>2, <2>1, <2>2, MemifConstants, SMT
  <2> QED BY <2>1, <2>3, <2>4 DEF AccessesFit
<1> QED BY <1>3, <1>4, <1>5 DEF Working, Merging

-----------------------------------------------------------------------------
(* A small read is one step.                                               *)

Small ==
  /\ call.op = "read"
  /\ call.len \in Sizes /\ call.len <= Align /\ call.addr % call.len = 0

\* Nothing of it has been moved, or all of it was at once.
TornInv ==
  Small =>
    /\ Working => bytes = 0 /\ len = call.len /\ pos = 0 /\ off = 0
    /\ pc = "done" => dst \in held

\* A multiple of Align is one of every small size.
LEMMA MultipleOfMultiple ==
  ASSUME NEW n \in Nat \ {0}, NEW m \in Nat \ {0}, NEW a \in Nat,
         a % n = 0, n % m = 0
  PROVE  a % m = 0
<1> DEFINE p == a \div n
           q == n \div m
<1>1. p \in Nat /\ a = p * n BY Euclid, SMT
<1>2. q \in Nat /\ n = q * m BY Euclid, SMT
<1> HIDE DEF p, q
<1>3. a = (p * q) * m BY <1>1, <1>2, SMT
<1>4. p * q \in Int BY <1>1, <1>2, SMT
<1> QED BY <1>3, <1>4, Multiple

\* What a small read gets, when all its bytes come from one chunk.
LEMMA WholeRead ==
  ASSUME MemifInv, Working, call.op = "read", call' = call, held' = held,
         DOMAIN dst' = 0 .. call.len - 1,
         dst' = [k \in DOMAIN dst' |-> dst'[k]],
         \A k \in 0 .. call.len - 1 : dst'[k] = mem[call.addr + k]
  PROVE  dst' \in held'
<1>1. Snapshot(mem, call.addr, call.len) \in held
  BY DEF MemifInv, LoadedInv
<1>2. dst' = Snapshot(mem, call.addr, call.len)
  BY DEF Snapshot
<1> QED BY <1>1, <1>2

LEMMA TornHead == MemifInv /\ TornInv /\ ReadHead => TornInv'
<1> SUFFICES ASSUME MemifInv, TornInv, ReadHead, Small PROVE TornInv'
  BY DEF ReadHead, TornInv, Small
<1>1. /\ pc = "head" /\ call.op = "read" /\ PastHead /\ call' = call /\ held' = held
      /\ dst' = Memcpy(dst, bytes, Unit(Base(addr)), addr % Align, HeadLen)
  BY DEF ReadHead
<1>2. /\ addr = call.addr /\ len = call.len /\ call.addr \in Nat /\ call.len \in Nat
  BY <1>1, HeadCells
<1> DEFINE next == addr + (Align - (addr % Align))
<1>3. /\ next \in Nat /\ Aligned(next) /\ addr % Align \in 0 .. Align - 1
  BY <1>2, AlignedRounding
<1>4. HeadLen = call.len
  <2>1. next % call.len = 0
    BY <1>2, <1>3, MemifConstants, MultipleOfMultiple DEF Small, Aligned
  <2>2. addr < next
    <3> DEFINE r == addr % Align
    <3>1. r \in 0 .. Align - 1 BY <1>3
    <3> HIDE DEF r
    <3>2. addr < addr + (Align - r) BY <1>2, <3>1, MemifConstants, SMT
    <3> QED BY <3>2 DEF r
  <2>3. addr + call.len <= next
    <3>1. call.len \in Nat \ {0} BY MemifConstants DEF Small
    <3>2. addr % call.len = 0 BY <1>2 DEF Small
    <3> HIDE DEF next
    <3> QED BY <1>2, <1>3, <2>1, <2>2, <3>1, <3>2, MultipleGap
  <2>4. HeadLen = Lesser(call.len, Align - (addr % Align))
    BY <1>2 DEF HeadLen
  <2> DEFINE r == addr % Align
  <2>5. r \in 0 .. Align - 1 /\ addr + call.len <= addr + (Align - r)
    BY <1>3, <2>3
  <2>6. HeadLen = Lesser(call.len, Align - r) BY <2>4
  <2> HIDE DEF r
  <2> QED BY <1>2, <2>5, <2>6, MemifConstants, SMT DEF Lesser
<1>5. len - HeadLen = 0 BY <1>2, <1>4, SMT
<1>6. pc' = "done" BY <1>1, <1>5, AlignedZero DEF PastHead, AfterHead, AfterTail
<1>7. DOMAIN dst = 0 .. call.len - 1
  BY <1>1 DEF MemifInv, ArgsInv, Working, Merging
<1>8. \A k \in 0 .. call.len - 1 :
        dst'[k] = IF k \in 0 .. HeadLen - 1 THEN mem[call.addr + k] ELSE dst[k]
  BY HeadLoaded
<1>9. dst' \in held'
  <2>1. DOMAIN dst' = 0 .. call.len - 1 /\ dst' = [k \in DOMAIN dst' |-> dst'[k]]
    BY <1>1, <1>7 DEF Memcpy
  <2> QED BY <1>1, <1>4, <1>8, <2>1, WholeRead DEF Working, Merging
<1> QED BY <1>6, <1>9 DEF TornInv, Working, Merging

LEMMA TornTail == MemifInv /\ TornInv /\ ReadTail => TornInv'
<1> SUFFICES ASSUME MemifInv, TornInv, ReadTail, Small PROVE TornInv'
  BY DEF ReadTail, TornInv, Small
<1>1. /\ pc = "tail" /\ call.op = "read" /\ PastTail /\ call' = call /\ held' = held
      /\ dst' = Memcpy(dst, bytes + Start, Unit(addr + Start), 0, Partial)
  BY DEF ReadTail
<1>2. bytes = 0 /\ len = call.len /\ call.len <= Align /\ call.len \in Nat
  BY <1>1, TailCells DEF TornInv, Small, Working, Merging
<1>3. Start = 0
  <2>1. Start \in Nat /\ Aligned(Start) /\ Start < len
    BY <1>1, TailFacts DEF MemifInv
  <2>2. Start > 0 => 0 + Align <= Start
    BY <2>1, AlignedZero, AlignedGap
  <2> QED BY <1>2, <2>1, <2>2, MemifConstants, SMT
<1>4. pc' = "done" BY <1>1, <1>3 DEF PastTail, AfterTail
<1>5. DOMAIN dst = 0 .. call.len - 1
  BY <1>1 DEF MemifInv, ArgsInv, Working, Merging
<1>6. \A k \in 0 .. call.len - 1 :
        dst'[k] = IF k \in bytes + Start .. call.len - 1
                    THEN mem[call.addr + k] ELSE dst[k]
  BY TailLoaded
<1>7. dst' \in held'
  <2>1. DOMAIN dst' = 0 .. call.len - 1 /\ dst' = [k \in DOMAIN dst' |-> dst'[k]]
    BY <1>1, <1>5 DEF Memcpy
  <2>2. bytes + Start = 0 BY <1>2, <1>3
  <2> QED BY <1>1, <1>6, <2>1, <2>2, WholeRead DEF Working, Merging
<1> QED BY <1>4, <1>7 DEF TornInv, Working, Merging

LEMMA TornUnit == MemifInv /\ TornInv /\ ReadUnit => TornInv'
<1> SUFFICES ASSUME MemifInv, TornInv, ReadUnit, Small PROVE TornInv'
  BY DEF ReadUnit, TornInv, Small
<1>1. /\ pc = "body" /\ call.op = "read" /\ PastUnit /\ call' = call /\ held' = held
      /\ dst' = Memcpy(dst, bytes + pos + off, mem, addr + pos + off, Align)
  BY DEF ReadUnit
<1>2. /\ bytes = 0 /\ len = call.len /\ pos = 0 /\ off = 0
      /\ call.len <= Align /\ call.len \in Nat
  BY <1>1, UnitCells DEF TornInv, Small, Working
<1>3. len = Align /\ Access.len = Align
  <2>1. /\ Access.len \in Nat /\ off + Align <= Access.len
        /\ pos + Access.len <= len
    BY <1>1, BodyFacts DEF MemifInv
  <2> QED BY <1>2, <2>1, MemifConstants, SMT
<1>4. pc' = "done"
  <2>1. ~(off + Align < Access.len) BY <1>2, <1>3, MemifConstants, SMT
  <2>2. ~(pos + MaxChunk < len) BY <1>2, <1>3, AlignFits, MemifConstants, SMT
  <2> QED BY <1>1, <2>1, <2>2 DEF PastUnit
<1>5. DOMAIN dst = 0 .. call.len - 1 BY <1>1 DEF MemifInv, ArgsInv, Working
<1>6. \A k \in 0 .. call.len - 1 :
        dst'[k] = IF k \in bytes + pos + off .. bytes + pos + off + Align - 1
                    THEN mem[call.addr + k] ELSE dst[k]
  BY UnitLoaded
<1>7. dst' \in held'
  <2>1. DOMAIN dst' = 0 .. call.len - 1 /\ dst' = [k \in DOMAIN dst' |-> dst'[k]]
    BY <1>1, <1>5 DEF Memcpy
  <2>2. bytes + pos + off = 0 /\ bytes + pos + off + Align - 1 = call.len - 1
    BY <1>2, <1>3, MemifConstants, SMT
  <2> QED BY <1>1, <1>6, <2>1, <2>2, WholeRead DEF Working
<1> QED BY <1>4, <1>7 DEF TornInv, Working, Merging

LEMMA TornStep == MemifInv /\ TornInv /\ [Next]_vars => TornInv'
<1> SUFFICES ASSUME MemifInv, TornInv, [Next]_vars PROVE TornInv' OBVIOUS
<1>1. ASSUME NEW a \in Addrs, NEW n \in 0 .. Size, Read(a, n) PROVE TornInv'
  <2>1. /\ call'.len = n /\ pc' = FirstPc(a, n) /\ len' = n
        /\ bytes' = 0 /\ pos' = 0 /\ off' = 0
    BY <1>1 DEF Read, Begin
  <2>2. Small' => n > 0 BY <2>1, MemifConstants, SMT DEF Small
  <2>3. n > 0 => pc' # "done" BY <2>1 DEF FirstPc, AfterHead, AfterTail
  <2> QED BY <2>1, <2>2, <2>3 DEF TornInv
<1>2. ASSUME NEW a \in Addrs, NEW n \in 0 .. Size, NEW src, Write(a, n, src)
      PROVE  TornInv'
  BY <1>2 DEF Write, TornInv, Small
<1>3. ASSUME NEW a \in Addrs, NEW n \in Sizes, Throw(a, n) PROVE TornInv'
  BY <1>3 DEF Throw, local, TornInv, Working, Merging
<1>4. CASE FetchHead \/ StoreHead \/ FetchTail \/ StoreTail \/ WriteUnit \/ ClearUnit
  <2>1. call.op = "write" /\ call' = call
    BY <1>4 DEF FetchHead, StoreHead, FetchTail, StoreTail, WriteUnit, ClearUnit,
      MemifInv, PlaceInv
  <2> QED BY <2>1 DEF TornInv, Small
<1>5. CASE Return
  BY <1>5 DEF Return, NoCall, TornInv, Small
<1>6. ASSUME NEW a \in Addrs, NEW n \in Sizes, TargetStores(a, n) PROVE TornInv'
  <2>1. /\ UNCHANGED <<pc, call, addr, len, bytes, pos, off, dst>>
        /\ held \subseteq held'
    BY <1>6 DEF TargetStores, local
  <2> QED BY <2>1 DEF TornInv, Small, Working, Merging
<1>7. CASE UNCHANGED vars
  BY <1>7 DEF vars, local, TornInv, Small, Working, Merging
<1> QED
  BY <1>1, <1>2, <1>3, <1>4, <1>5, <1>6, <1>7, TornHead, TornTail, TornUnit
  DEF Next, Calls, Host

-----------------------------------------------------------------------------
(* What the calls have done, and the theorems.                             *)

LEMMA CallsComplete == MemifInv => WriteLands /\ ReadReturns
BY DEF MemifInv, LandedInv, LoadedInv, WriteLands, ReadReturns, Left, Working,
       Merging

\* A step of the host changes a byte outside its call only by writing back a
\* chunk in which the target has stored that byte since.
LEMMA NeighboursStep ==
  ASSUME MemifInv, [Next]_vars, stores' = stores,
         NEW a \in Addrs, mem'[a] # mem[a]
  PROVE  a \in CallRange \/ a \in raced
<1>1. CASE StoreHead
  <2>1. /\ pc = "headStore" /\ mem' = Memcpy(mem, Base(addr), chunk, 0, Align)
    BY <1>1 DEF StoreHead
  <2>2. Access.at = Base(addr) /\ Base(addr) \in Nat
    BY <2>1, HeadFacts DEF MemifInv
  <2> QED BY <2>1, <2>2, StoreChunk
<1>2. CASE StoreTail
  <2>1. pc = "tailStore" /\ mem' = Memcpy(mem, addr + Start, chunk, 0, Align)
    BY <1>2 DEF StoreTail
  <2>2. Access.at = addr + Start /\ addr + Start \in Nat
    BY <2>1, TailFacts DEF MemifInv
  <2> QED BY <2>1, <2>2, StoreChunk
<1>3. CASE WriteUnit
  <2>1. /\ pc = "body" /\ call.op = "write"
        /\ mem' = Memcpy(mem, addr + pos + off, call.src, bytes + pos + off, Align)
    BY <1>3 DEF WriteUnit
  <2>2. bytes + pos + off \in Nat BY SMT DEF MemifInv, TypeOK
  <2> QED BY <2>1, <2>2, UnitWritten
<1>4. CASE ClearUnit
  <2>1. /\ pc = "body" /\ call.op = "write" /\ AllZero
        /\ mem' = Memcpy(mem, addr + pos + off, Zeros, off, Align)
    BY <1>4 DEF ClearUnit
  <2> QED BY <2>1, ZeroUnit, UnitWritten
<1>5. ASSUME NEW b \in Addrs, NEW n \in Sizes, TargetStores(b, n) PROVE FALSE
  <2>1. stores' = stores + 1 BY <1>5 DEF TargetStores
  <2> QED BY <2>1, SMT DEF MemifInv, TypeOK
<1>6. CASE ReadHead \/ FetchHead \/ ReadTail \/ FetchTail \/ ReadUnit \/ Return
  BY <1>6 DEF ReadHead, FetchHead, ReadTail, FetchTail, ReadUnit, Return
<1>7. CASE Calls BY <1>7 DEF Calls, Read, Write, Begin, Throw
<1>8. CASE UNCHANGED vars BY <1>8 DEF vars
<1> QED BY <1>1, <1>2, <1>3, <1>4, <1>5, <1>6, <1>7, <1>8 DEF Next, Host

\* Types are kept, for every alignment, chunk size and memory.
THEOREM TypeCorrect == Spec => []TypeOK
<1>1. MemifInv => TypeOK BY DEF MemifInv
<1> QED BY MemifInit, MemifStep, <1>1, PTL DEF Spec

\* No backend is asked for a chunk that is empty, too long, not aligned, or
\* outside the chunks that the call touches.
THEOREM ChunksFit == Spec => []AccessesFit
BY MemifInit, MemifStep, AccessesFitInv, PTL DEF Spec

\* When a write returns, all of its bytes are in memory, but for the target's stores.
THEOREM WritesTheorem == Spec => []WriteLands
BY MemifInit, MemifStep, CallsComplete, PTL DEF Spec

\* When a read returns, each of its bytes is one that memory held during the call.
THEOREM ReadsTheorem == Spec => []ReadReturns
BY MemifInit, MemifStep, CallsComplete, PTL DEF Spec

\* An aligned read of a small type is not torn, whatever the sizes and the stores.
THEOREM NeverTornTheorem == Spec => []NeverTorn
<1>1. Init => TornInv
  BY DEF Init, NoCall, TornInv, Small
<1>2. TornInv => NeverTorn
  BY DEF TornInv, NeverTorn, Small
<1> QED BY MemifInit, MemifStep, <1>1, TornStep, <1>2, PTL DEF Spec

\* Nothing else changes, short of a race on a chunk that is being merged.
THEOREM NeighboursTheorem == Spec => NeighboursKept
<1> DEFINE A == stores' = stores =>
                  \A a \in Addrs : mem'[a] # mem[a] => a \in CallRange \/ a \in raced
<1>1. MemifInv /\ [Next]_vars => A BY NeighboursStep
<1>2. MemifInv /\ [Next]_vars => [A]_vars BY <1>1
<1> HIDE DEF A
<1>3. Spec => [][A]_vars BY MemifInit, MemifStep, <1>2, PTL DEF Spec
<1> QED BY <1>3 DEF NeighboursKept, A

===============================================================================
