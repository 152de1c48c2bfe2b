-------------------------------- MODULE TsiProofs ------------------------------
(***************************************************************************)
(* For any memory, width of a word, chunk size and number of calls: the    *)
(* answers of two reads never mix, and behind the link the host sees a     *)
(* memory.  Both need to know which word of which request every word in    *)
(* in_data is, though the words themselves carry no tag.  LinkInv says     *)
(* that a tag can be given to each of them: its role.                      *)
(***************************************************************************)
EXTENDS Tsi, SequenceTheorems, TLAPS

-----------------------------------------------------------------------------
(* The roles of the words on the link.                                     *)

\* A word is the kth of the request (op, addr, len); n words of data have been
\* written up to it, itself included, that are not in memory.
Role == [op : {SAI_CMD_READ, SAI_CMD_WRITE}, addr : Addrs, len : 1..MaxLen,
         k : Nat \ {0}, n : Nat]

Header(r) ==
  <<r.op, r.addr % WordBase, (r.addr \div WordBase) % WordBase,
    (r.len - 1) % WordBase, ((r.len - 1) \div WordBase) % WordBase>>

Size(r) == IF r.op = SAI_CMD_READ THEN 5 ELSE 5 + r.len
Bump(r) == IF r.k > 5 THEN 1 ELSE 0

\* Word w has role r, where p are the words written.
Plays(w, r, p) ==
  /\ r.k \in 1..Size(r)
  /\ r.k <= 5 => w = Header(r)[r.k]
  /\ r.k > 5 => /\ r.n \in 1..Len(p)
                /\ p[r.n] = [addr |-> Nth(r.addr, r.k - 5), word |-> w]

Follows(r, s) ==
  /\ s.n = r.n + Bump(s)
  /\ r.k = Size(r) => s.k = 1
  /\ r.k # Size(r) => /\ s.k = r.k + 1
                      /\ s.op = r.op /\ s.addr = r.addr /\ s.len = r.len

\* R[0] is the role of the word last received, R[i] that of the ith in queue q.
Carries(R, q, p) ==
  /\ R \in [0..Len(q) -> Role]
  /\ \A i \in 1..Len(q) : Plays(q[i], R[i], p) /\ Follows(R[i - 1], R[i])
  /\ \A i \in 0..Len(q), j \in 0..Len(q) : i < j => R[i].n + Bump(R[j]) <= R[j].n
  /\ R[0].n = 0 /\ R[0].k \in 1..Size(R[0])
  /\ R[Len(q)].n = Len(p) /\ R[Len(q)].k = Size(R[Len(q)])

\* What the adapter has received of a request, f, up to the word with role r.
Received(r, f) ==
  /\ r.k = Size(r) => f = <<>>
  /\ r.k # Size(r) => /\ Len(f) = r.k
                      /\ \A i \in 1..5 : i <= Len(f) => f[i] = Header(r)[i]

\* Words of a read are on the link only at its very end, and only while it waits.
OneRead(R, q, read) ==
  \A i \in 0..Len(q) :
    R[i].op = SAI_CMD_READ =>
      \/ i = 0 /\ R[i].k = 5
      \/ read # NoRead /\ R[i].k + Len(q) = 5 + i

\* What the host waits for: nothing, the rest of an answer, or all of one, the
\* request for which is on its way.
Awaited(R) ==
  /\ OneRead(R, in_data, rd)
  /\ rd = NoRead => result = <<>> /\ out_data = <<>> /\ left = 0
  /\ rd # NoRead /\ in_data = <<>> =>
       /\ Len(result) + Len(out_data) + left = rd.len
       /\ left > 0 => from = Nth(rd.addr, (rd.len - left) + 1)
  /\ rd # NoRead /\ in_data # <<>> =>
       /\ result = <<>> /\ out_data = <<>> /\ left = 0
       /\ R[Len(in_data)].op = SAI_CMD_READ
       /\ R[Len(in_data)].addr = rd.addr /\ R[Len(in_data)].len = rd.len

LinkInv ==
  \E R \in [0..Len(in_data) -> Role] :
    Carries(R, in_data, posted) /\ Received(R[0], frame) /\ Awaited(R)

InMemory ==
  rd # NoRead => \A n \in 1..rd.len : Nth(rd.addr, n) \in Addrs

TsiInv == TypeOK /\ InMemory /\ LinkInv

-----------------------------------------------------------------------------
(* What the words of a header say.                                         *)

LEMMA Quotient ==
  ASSUME NEW w \in Nat \ {0}, NEW a \in 0 .. w * w - 1
  PROVE  /\ a % w \in 0 .. w - 1 /\ (a \div w) % w \in 0 .. w - 1
         /\ (a % w) + w * ((a \div w) % w) = a
<1>1. /\ a % w \in 0 .. w - 1 /\ a \div w \in Nat
      /\ a = ((a \div w) * w) + (a % w)
  <2>1. a \in Nat BY SMT
  <2>2. a % w \in 0 .. w - 1 BY <2>1, SMT
  <2>3. a \div w \in Nat BY <2>1, SMT
  <2>4. a = ((a \div w) * w) + (a % w) BY <2>1, SMT
  <2> QED BY <2>2, <2>3, <2>4
<1> DEFINE q == a \div w
           r == a % w
<1>2. q < w
  <2>1. q * w < w * w BY <1>1, SMT
  <2>2. SUFFICES ASSUME q >= w PROVE FALSE BY <1>1, SMT
  <2>3. q * w >= w * w BY <2>2, <1>1, SMT
  <2> QED BY <2>1, <2>3, <1>1, SMT
<1>3. q \in 0 .. w - 1 BY <1>1, <1>2, SMT
<1>4. q % w = q BY <1>3, SMT
<1>5. r + w * q = a BY <1>1, SMT
<1> QED BY <1>1, <1>3, <1>4, <1>5

LEMMA HeaderWords ==
  ASSUME NEW r \in Role
  PROVE  /\ Header(r) \in Seq(Word) /\ Len(Header(r)) = 5
         /\ Header(r)[1] = r.op
         /\ Header(r)[2] + WordBase * Header(r)[3] = r.addr
         /\ (Header(r)[4] + WordBase * Header(r)[5]) + 1 = r.len
<1> DEFINE a == r.addr
           m == r.len - 1
<1>1. /\ WordBase \in Nat \ {0} /\ r.op \in 0 .. WordBase - 1
      /\ a \in 0 .. WordBase * WordBase - 1 /\ m \in 0 .. WordBase * WordBase - 1
      /\ r.len \in Nat
  <2>1. /\ WordBase \in Nat /\ WordBase >= 2 /\ MaxLen \in 1 .. WordBase * WordBase
    BY TsiConstants
  <2>2. r.op \in {0, 1} /\ a \in Addrs /\ r.len \in 1 .. MaxLen
    BY DEF Role, SAI_CMD_READ, SAI_CMD_WRITE
  <2>3. a \in 0 .. WordBase * WordBase - 1  BY <2>2, TsiConstants
  <2>4. r.op \in 0 .. WordBase - 1  BY <2>1, <2>2
  <2>5. WordBase * WordBase \in Int  BY <2>1
  <2>6. m \in 0 .. WordBase * WordBase - 1 /\ r.len \in Nat  BY <2>1, <2>2, <2>5
  <2> QED BY <2>1, <2>3, <2>4, <2>6
<1>2. /\ a % WordBase \in Word /\ (a \div WordBase) % WordBase \in Word
      /\ (a % WordBase) + WordBase * ((a \div WordBase) % WordBase) = a
  BY <1>1, Quotient DEF Word
<1>3. /\ m % WordBase \in Word /\ (m \div WordBase) % WordBase \in Word
      /\ (m % WordBase) + WordBase * ((m \div WordBase) % WordBase) = m
  BY <1>1, Quotient DEF Word
<1>4. r.op \in Word BY <1>1 DEF Word
<1> HIDE DEF m, a
<1> DEFINE a0 == a % WordBase
           a1 == (a \div WordBase) % WordBase
           m0 == m % WordBase
           m1 == (m \div WordBase) % WordBase
<1>5. Header(r) = <<r.op, a0, a1, m0, m1>>  BY DEF Header, a, m
<1> HIDE DEF a0, a1, m0, m1
<1>6. /\ Header(r) \in Seq(Word) /\ Len(Header(r)) = 5
      /\ Header(r)[1] = r.op /\ Header(r)[2] = a0 /\ Header(r)[3] = a1
      /\ Header(r)[4] = m0 /\ Header(r)[5] = m1
  <2>1. a0 \in Word /\ a1 \in Word /\ m0 \in Word /\ m1 \in Word
    BY <1>2, <1>3 DEF a0, a1, m0, m1
  <2> QED BY <1>5, <2>1, <1>4
<1>7. a0 + WordBase * a1 = a /\ m0 + WordBase * m1 = m
  BY <1>2, <1>3 DEF a0, a1, m0, m1
<1>8. m + 1 = r.len BY <1>1 DEF m
<1>9. Header(r)[2] + WordBase * Header(r)[3] = r.addr
  <2>1. Header(r)[2] + WordBase * Header(r)[3] = a0 + WordBase * a1
    BY <1>6
  <2> QED BY <2>1, <1>7 DEF a
<1>10. (Header(r)[4] + WordBase * Header(r)[5]) + 1 = r.len
  <2>1. Header(r)[4] + WordBase * Header(r)[5] = m0 + WordBase * m1
    BY <1>6
  <2> QED BY <2>1, <1>7, <1>8
<1> QED BY <1>6, <1>9, <1>10

-----------------------------------------------------------------------------
(* The roles after a request is added, and after a word is taken.          *)

\* The kth word of request r, when n words are written and not yet in memory.
Tag(r, k, n) == [op |-> r.op, addr |-> r.addr, len |-> r.len, k |-> k,
                 n |-> IF k > 5 THEN n + (k - 5) ELSE n]

Extend(R, l, r, n) ==
  [i \in 0..l + Size(r) |-> IF i <= l THEN R[i] ELSE Tag(r, i - l, n)]

\* A role stays what it is when more is written.
LEMMA PlaysOn ==
  ASSUME NEW w, NEW r \in Role, NEW p, NEW p2, Plays(w, r, p),
         Len(p) \in Nat, Len(p2) \in Nat, Len(p) <= Len(p2),
         \A n \in 1..Len(p) : p2[n] = p[n]
  PROVE  Plays(w, r, p2)
BY DEF Plays

LEMMA SizeType == ASSUME NEW r \in Role PROVE Size(r) \in Nat /\ Size(r) >= 5
BY TsiConstants DEF Role, Size

\* The first l entries of s are those of t; they are those of t after its first.
Begins(s, t, l) == \A i \in 1..l : s[i] = t[i]
Moved(s, t, l) == \A i \in 1..l : s[i] = t[i + 1]

\* After its first l words q2 has the request r, and its z - 5 words of data are what
\* p2 has after its first m.
HasRequest(q2, p2, r, l, m, z) ==
  /\ \A k \in 1..5 : q2[l + k] = Header(r)[k]
  /\ \A n \in 1..z - 5 :
       p2[m + n] = [addr |-> Nth(r.addr, n), word |-> q2[l + (5 + n)]]

\* The request goes to the end of the queue, its data to the end of what is written.
LEMMA Added ==
  ASSUME NEW q, NEW p, NEW q2, NEW p2, NEW r \in Role,
         NEW l \in Nat, Len(q) = l, NEW m \in Nat, Len(p) = m,
         NEW z \in Nat, Size(r) = z,
         NEW R \in [0..l -> Role], Carries(R, q, p),
         Len(q2) = l + z, Len(p2) = m + (z - 5),
         Begins(q2, q, l), Begins(p2, p, m), HasRequest(q2, p2, r, l, m, z)
  PROVE  Carries(Extend(R, l, r, m), q2, p2)
<1> DEFINE E == Extend(R, l, r, m)
<1>1. z >= 5
  BY SizeType
<1>2. \A k \in 1..z : /\ Tag(r, k, m) \in Role
                      /\ Size(Tag(r, k, m)) = z /\ Header(Tag(r, k, m)) = Header(r)
                      /\ Tag(r, k, m).k = k
                      /\ Tag(r, k, m).n = IF k > 5 THEN m + (k - 5) ELSE m
                      /\ Tag(r, k, m).op = r.op /\ Tag(r, k, m).addr = r.addr
                      /\ Tag(r, k, m).len = r.len
  <2> TAKE k \in 1..z
  <2>1. /\ Tag(r, k, m).k = k
        /\ Tag(r, k, m).n = IF k > 5 THEN m + (k - 5) ELSE m
        /\ Tag(r, k, m).op = r.op /\ Tag(r, k, m).addr = r.addr
        /\ Tag(r, k, m).len = r.len
    BY DEF Tag
  <2>2. Size(Tag(r, k, m)) = z /\ Header(Tag(r, k, m)) = Header(r)
    BY <2>1, <1>1 DEF Size, Header
  <2>3. (IF k > 5 THEN m + (k - 5) ELSE m) \in Nat /\ k \in Nat \ {0}
    BY <1>1
  <2>4. Tag(r, k, m) \in Role
    BY <2>3 DEF Tag, Role
  <2> QED BY <2>1, <2>2, <2>4
<1>3. /\ \A i \in 0..l : E[i] = R[i]
      /\ \A i \in l + 1..l + z : E[i] = Tag(r, i - l, m)
  <2>1. E = [i \in 0..l + z |-> IF i <= l THEN R[i] ELSE Tag(r, i - l, m)]
    BY <1>1 DEF Extend
  <2>2. /\ \A i \in 0..l : i \in 0..l + z /\ i <= l
        /\ \A i \in l + 1..l + z : i \in 0..l + z /\ ~(i <= l)
    BY <1>1
  <2> HIDE DEF E
  <2> QED BY <2>1, <2>2
<1>4. E \in [0..l + z -> Role]
  <2>1. \A i \in 0..l + z : (IF i <= l THEN R[i] ELSE Tag(r, i - l, m)) \in Role
    <3> TAKE i \in 0..l + z
    <3>1. i <= l => i \in 0..Len(q) BY <1>1
    <3>2. ~(i <= l) => i - l \in 1..z BY <1>1
    <3> QED BY <3>1, <3>2, <1>2
  <2>2. E = [i \in 0..l + z |-> IF i <= l THEN R[i] ELSE Tag(r, i - l, m)]
    BY <1>1 DEF Extend
  <2> QED BY <2>1, <2>2
<1>5. \A i \in 0..l : R[i] \in Role /\ R[i].n \in Nat /\ R[i].k \in Nat
  BY <1>1 DEF Role
<1>6. R[l].n = m /\ R[l].k = Size(R[l])
  BY <1>1 DEF Carries
<1> HIDE DEF E
<1>7. ASSUME NEW i \in 1..l + z PROVE Plays(q2[i], E[i], p2) /\ Follows(E[i - 1], E[i])
  <2>1. CASE i <= l
    <3>1. /\ i \in 1..l /\ i - 1 \in 0..l /\ E[i] = R[i] /\ E[i - 1] = R[i - 1]
          /\ q2[i] = q[i]
      <4>1. i \in 1..l /\ i - 1 \in 0..l /\ i \in 0..l BY <1>1, <2>1
      <4>2. q2[i] = q[i] BY <4>1 DEF Begins
      <4> QED BY <4>1, <4>2, <1>3
    <3>2. Plays(q[i], R[i], p) /\ Follows(R[i - 1], R[i])
      BY <3>1, <1>1 DEF Carries
    <3>3. Plays(q[i], R[i], p2)
      <4>1. Len(p2) \in Nat /\ Len(p) <= Len(p2) BY <1>1
      <4>2. R[i] \in Role BY <3>1, <1>1, <1>5
      <4>3. \A n \in 1..Len(p) : p2[n] = p[n] BY DEF Begins
      <4> QED BY <3>2, <4>1, <4>2, <4>3, PlaysOn
    <3> QED BY <3>1, <3>2, <3>3
  <2>2. CASE i > l
    <3>0. PICK k \in 1..z : i = l + k /\ i - l = k
      <4>1. i \in Nat /\ i <= l + z BY <1>1
      <4>2. i - l \in 1..z BY <4>1, <2>2
      <4>3. i = l + (i - l) BY <4>1
      <4> QED BY <4>2, <4>3
    <3>1. k \in 1..z /\ i = l + k /\ E[i] = Tag(r, k, m)
      <4>1. i \in l + 1..l + z BY <3>0, <1>1
      <4> QED BY <3>0, <4>1, <1>3
    <3>2. Plays(q2[i], E[i], p2)
      <4>1. CASE k <= 5
        <5>1. q2[i] = Header(r)[k]
          <6>1. k \in 1..5 BY <3>1, <4>1, <1>1
          <6> QED BY <6>1, <3>1 DEF HasRequest
        <5>2. E[i].k = k /\ Size(E[i]) = z /\ Header(E[i]) = Header(r) /\ ~(k > 5)
          BY <3>1, <1>2, <4>1
        <5> QED BY <5>1, <5>2, <3>1 DEF Plays
      <4>2. CASE k > 5
        <5>1. k - 5 \in 1..z - 5 /\ i = l + (5 + (k - 5))
          <6>1. 5 + (k - 5) = k OBVIOUS
          <6>2. k - 5 \in 1..z - 5 BY <4>2
          <6> QED BY <3>0, <6>1, <6>2
        <5>2. p2[m + (k - 5)] = [addr |-> Nth(r.addr, k - 5), word |-> q2[i]]
          BY <5>1 DEF HasRequest
        <5>3. E[i].n = m + (k - 5) /\ E[i].k = k /\ E[i].addr = r.addr /\ Size(E[i]) = z
          BY <3>1, <1>2, <4>2
        <5>4. E[i].n \in 1..Len(p2)
          <6> DEFINE h == k - 5
          <6>1. h \in Nat /\ 1 <= h /\ h <= z - 5 BY <5>1, <3>1
          <6>2. E[i].n = m + h BY <5>3
          <6>3. Len(p2) = m + (z - 5) OBVIOUS
          <6> HIDE DEF h
          <6>4. m + h \in 1..m + (z - 5) BY <6>1, <1>1
          <6> QED BY <6>2, <6>3, <6>4
        <5> QED BY <5>2, <5>3, <5>4, <3>1, <4>2, <1>1 DEF Plays
      <4> QED BY <4>1, <4>2, <3>1, <1>1
    <3>3. Follows(E[i - 1], E[i])
      <4>1. CASE k = 1
        <5>1. i - 1 = l /\ l \in 0..l BY <4>1, <1>1, <3>1
        <5>2. E[i - 1] = R[l] BY <5>1, <1>3
        <5>3. E[i].k = 1 /\ E[i].n = m BY <3>1, <4>1, <1>2
        <5>4. Bump(E[i]) = 0 BY <5>3 DEF Bump
        <5>5. E[i].n = E[i - 1].n + Bump(E[i]) BY <5>2, <5>3, <5>4, <1>1, <1>6
        <5> QED BY <5>2, <5>3, <5>5, <1>6 DEF Follows
      <4>2. CASE k # 1
        <5>1. k - 1 \in 1..z /\ E[i - 1] = Tag(r, k - 1, m)
          <6>1. k - 1 \in 1..z /\ i - 1 \in l + 1..l + z /\ (i - 1) - l = k - 1
            <7>1. k >= 2 BY <4>2
            <7>2. k - 1 \in 1..z BY <7>1
            <7>3. l + k - 1 \in l + 1..l + z BY <7>1
            <7>4. (l + k - 1) - l = k - 1 OBVIOUS
            <7>5. i - 1 = l + k - 1 BY <3>0
            <7> QED BY <7>2, <7>3, <7>4, <7>5
          <6> QED BY <6>1, <1>3
        <5>2. /\ E[i].k = k /\ E[i - 1].k = k - 1 /\ Size(E[i - 1]) = z
              /\ E[i].op = E[i - 1].op /\ E[i].addr = E[i - 1].addr
              /\ E[i].len = E[i - 1].len
              /\ E[i].n = IF k > 5 THEN m + (k - 5) ELSE m
              /\ E[i - 1].n = IF k - 1 > 5 THEN m + ((k - 1) - 5) ELSE m
          BY <5>1, <3>1, <1>2
        <5>3. k \in 1..z BY <3>1
        <5>4. E[i].n = E[i - 1].n + Bump(E[i])
          <6>1. CASE k > 6
            <7>1. Bump(E[i]) = 1 BY <5>2, <5>3, <6>1 DEF Bump
            <7> QED BY <5>2, <5>3, <1>1, <6>1, <7>1
          <6>2. CASE k = 6
            <7>1. Bump(E[i]) = 1 BY <5>2, <6>2 DEF Bump
            <7> QED BY <5>2, <1>1, <6>2, <7>1
          <6>3. CASE k < 6
            <7>1. Bump(E[i]) = 0 BY <5>2, <5>3, <6>3 DEF Bump
            <7> QED BY <5>2, <5>3, <1>1, <6>3, <7>1
          <6> QED BY <5>3, <6>1, <6>2, <6>3
        <5> QED BY <5>2, <5>3, <5>4, <1>1 DEF Follows
      <4> QED BY <4>1, <4>2
    <3> QED BY <3>2, <3>3
  <2> QED BY <2>1, <2>2, <1>1
<1>8. ASSUME NEW i \in 0..l + z, NEW j \in 0..l + z, i < j
      PROVE  E[i].n + Bump(E[j]) <= E[j].n
  <2>1. CASE j <= l
    <3>1. i \in 0..l /\ j \in 0..l /\ E[i] = R[i] /\ E[j] = R[j] BY <2>1, <1>1, <1>3, <1>8
    <3> QED BY <3>1, <1>1, <1>8 DEF Carries
  <2>2. CASE j > l /\ i <= l
    <3>1. R[i].n <= m /\ R[i].n \in Nat
      <4>1. i \in 0..l /\ l \in 0..l /\ (i < l \/ i = l) BY <2>2, <1>1
      <4>2. i < l => R[i].n + Bump(R[l]) <= R[l].n BY <4>1, <1>1 DEF Carries
      <4>3. Bump(R[l]) \in {0, 1} BY DEF Bump
      <4>4. R[i].n \in Nat BY <4>1, <1>5
      <4>5. CASE i = l BY <4>4, <4>5, <1>6, <1>1
      <4>6. CASE i < l BY <4>6, <4>2, <4>3, <4>4, <1>6, <1>1
      <4> QED BY <4>1, <4>5, <4>6
    <3>2. j - l \in 1..z /\ E[j] = Tag(r, j - l, m) /\ E[i] = R[i]
      BY <2>2, <1>1, <1>3
    <3>3. E[j].k = j - l /\ E[j].n = IF j - l > 5 THEN m + ((j - l) - 5) ELSE m
      BY <3>2, <1>2
    <3>4. j - l > 5 => Bump(E[j]) = 1 BY <3>3 DEF Bump
    <3>5. ~(j - l > 5) => Bump(E[j]) = 0 BY <3>3 DEF Bump
    <3>6. CASE j - l > 5
      <4>1. E[j].n >= m + 1 /\ E[j].n \in Nat BY <3>2, <3>3, <3>6, <1>1
      <4>2. \A x \in Nat, y \in Nat : x <= m /\ y >= m + 1 => x + 1 <= y
        OBVIOUS
      <4>3. R[i].n + 1 <= E[j].n BY <4>1, <4>2, <3>1
      <4> QED BY <4>3, <3>2, <3>4, <3>6
    <3>7. CASE ~(j - l > 5) BY <3>1, <3>2, <3>3, <3>5, <3>7, <1>1
    <3> QED BY <3>6, <3>7
  <2>3. CASE i > l
    <3>1. /\ i - l \in 1..z /\ E[i] = Tag(r, i - l, m)
          /\ j - l \in 1..z /\ E[j] = Tag(r, j - l, m)
      BY <2>3, <1>1, <1>3, <1>8
    <3>2. /\ E[i].k = i - l /\ E[i].n = IF i - l > 5 THEN m + ((i - l) - 5) ELSE m
          /\ E[j].k = j - l /\ E[j].n = IF j - l > 5 THEN m + ((j - l) - 5) ELSE m
      BY <3>1, <1>2
    <3>3. j - l > 5 => Bump(E[j]) = 1 BY <3>2 DEF Bump
    <3>4. ~(j - l > 5) => Bump(E[j]) = 0 BY <3>2 DEF Bump
    <3> DEFINE a == i - l
               c == j - l
    <3>5. a \in 1..z /\ c \in 1..z /\ a < c BY <3>1, <1>1, <1>8
    <3>6. /\ E[i].n = IF a > 5 THEN m + (a - 5) ELSE m
          /\ E[j].n = IF c > 5 THEN m + (c - 5) ELSE m
          /\ Bump(E[j]) = IF c > 5 THEN 1 ELSE 0
      BY <3>2, <3>3, <3>4
    <3> HIDE DEF a, c
    <3>7. CASE a > 5 BY <3>5, <3>6, <3>7, <1>1
    <3>8. CASE c > 5 /\ ~(a > 5) BY <3>5, <3>6, <3>8, <1>1
    <3>9. CASE ~(c > 5) BY <3>5, <3>6, <3>9, <1>1
    <3> QED BY <3>7, <3>8, <3>9
  <2> QED BY <2>1, <2>2, <2>3, <1>1
<1>9. E[0].n = 0 /\ E[0].k \in 1..Size(E[0])
  <2>1. E[0] = R[0]
    <3>1. 0 \in 0..l BY <1>1
    <3> QED BY <3>1, <1>3
  <2> QED BY <2>1 DEF Carries
<1>10. E[l + z].n = Len(p2) /\ E[l + z].k = Size(E[l + z])
  <2>1. E[l + z] = Tag(r, z, m) /\ z \in 1..z
    <3>1. l + z \in l + 1..l + z /\ (l + z) - l = z /\ z \in 1..z BY <1>1
    <3> QED BY <3>1, <1>3
  <2>2. E[l + z].n = (IF z > 5 THEN m + (z - 5) ELSE m) /\ E[l + z].k = z
        /\ Size(E[l + z]) = z
    BY <2>1, <1>1, <1>2
  <2> QED BY <2>2, <1>1
<1> QED
  <2>1. E = Extend(R, l, r, m) BY DEF E
  <2>2. Len(q2) = l + z BY <1>1
  <2>3. Carries(E, q2, p2)
    BY <2>2, <1>4, <1>7, <1>8, <1>9, <1>10 DEF Carries
  <2> QED BY <2>1, <2>3

\* What is left of the roles when the first word of the queue is taken.
Rest(R, l) ==
  [i \in 0..l - 1 |-> [R[i + 1] EXCEPT !.n = @ - Bump(R[1])]]

LEMMA Taken ==
  ASSUME NEW q, NEW p, NEW q2, NEW p2,
         NEW l \in Nat \ {0}, Len(q) = l, NEW m \in Nat, Len(p) = m,
         NEW R \in [0..l -> Role], Carries(R, q, p),
         NEW b \in {0, 1}, Bump(R[1]) = b,
         Len(q2) = l - 1, Moved(q2, q, l - 1),
         Len(p2) = m - b,
         b = 0 => p2 = p,
         b = 1 => Moved(p2, p, m - 1)
  PROVE  Carries(Rest(R, l), q2, p2)
<1> DEFINE E == Rest(R, l)
<1>1. l \in Nat /\ l >= 1 /\ b \in Int
  OBVIOUS
<1>2. \A i \in 0..l : R[i] \in Role /\ R[i].n \in Nat /\ R[i].k \in Nat /\ Bump(R[i]) \in {0, 1}
  BY DEF Role, Bump
<1>3. \A i \in 1..l : b + Bump(R[i]) <= R[i].n + IF i = 1 THEN b ELSE 0
  <2> TAKE i \in 1..l
  <2>1. R[1].n = R[0].n + b /\ R[0].n = 0
    <3>1. 1 \in 1..l /\ 1 - 1 = 0 BY <1>1
    <3> QED BY <3>1 DEF Carries, Follows
  <2>2. CASE i = 1 BY <2>1, <2>2, <1>1, <1>2
  <2>3. CASE i # 1
    <3>1. 1 \in 0..l /\ i \in 0..l /\ 1 < i BY <2>3, <1>1
    <3>2. R[1].n + Bump(R[i]) <= R[i].n BY <3>1 DEF Carries
    <3> QED BY <3>2, <2>1, <2>3, <1>1, <1>2
  <2> QED BY <2>2, <2>3
<1>4. \A i \in 0..l - 1 :
         /\ E[i] = [R[i + 1] EXCEPT !.n = @ - b]
         /\ E[i] \in Role /\ E[i].n = R[i + 1].n - b
         /\ E[i].k = R[i + 1].k /\ E[i].op = R[i + 1].op /\ E[i].addr = R[i + 1].addr
         /\ E[i].len = R[i + 1].len
  <2> TAKE i \in 0..l - 1
  <2>1. i + 1 \in 1..l /\ R[i + 1] \in Role BY <1>1, <1>2
  <2>2. E[i] = [R[i + 1] EXCEPT !.n = @ - b] BY DEF Rest
  <2>3. R[i + 1].n - b \in Nat
    <3>1. b + Bump(R[i + 1]) <= R[i + 1].n + IF i + 1 = 1 THEN b ELSE 0 BY <2>1, <1>3
    <3>2. i + 1 = 1 => R[i + 1].n = b
      <4>1. 1 \in 1..l /\ 1 - 1 = 0 BY <1>1
      <4>2. R[1].n = R[0].n + b /\ R[0].n = 0 BY <4>1 DEF Carries, Follows
      <4> QED BY <4>2, <1>1
    <3>3. R[i + 1].n \in Nat /\ Bump(R[i + 1]) \in {0, 1} BY <2>1, <1>2
    <3> QED BY <3>1, <3>2, <3>3, <1>1
  <2> HIDE DEF E
  <2> QED BY <2>1, <2>2, <2>3 DEF Role
<1>5. \A i \in 0..l - 1 :
         /\ Bump(E[i]) = Bump(R[i + 1]) /\ Size(E[i]) = Size(R[i + 1])
         /\ Header(E[i]) = Header(R[i + 1])
  <2> HIDE DEF E
  <2> QED BY <1>4 DEF Bump, Size, Header
<1>11. \A i \in 1..l :
         /\ E[i - 1].n = R[i].n - b /\ E[i - 1].k = R[i].k /\ E[i - 1].op = R[i].op
         /\ E[i - 1].addr = R[i].addr /\ E[i - 1].len = R[i].len
         /\ Size(E[i - 1]) = Size(R[i])
  <2> HIDE DEF E
  <2> TAKE i \in 1..l
  <2>1. PICK j \in 0..l - 1 : j = i - 1 /\ j + 1 = i
    <3>1. i - 1 \in 0..l - 1 /\ (i - 1) + 1 = i BY <1>1
    <3> QED BY <3>1
  <2>2. /\ E[j].n = R[j + 1].n - b /\ E[j].k = R[j + 1].k /\ E[j].op = R[j + 1].op
        /\ E[j].addr = R[j + 1].addr /\ E[j].len = R[j + 1].len
    BY <1>4
  <2>3. Size(E[j]) = Size(R[j + 1]) BY <1>5
  <2>4. E[j] = E[i - 1] /\ R[j + 1] = R[i] BY <2>1
  <2> QED BY <2>2, <2>3, <2>4
<1>6. E \in [0..l - 1 -> Role]
  <2>1. \A i \in 0..l - 1 : [R[i + 1] EXCEPT !.n = @ - Bump(R[1])] \in Role BY <1>4
  <2> QED BY <2>1 DEF Rest
<1> HIDE DEF E
<1>7. ASSUME NEW i \in 1..l - 1 PROVE Plays(q2[i], E[i], p2) /\ Follows(E[i - 1], E[i])
  <2>1. i \in 0..l - 1 /\ i - 1 \in 0..l - 1 /\ i + 1 \in 1..l /\ (i - 1) + 1 = i
        /\ (i + 1) - 1 = i /\ i \in 0..l /\ i + 1 \in 0..l
    BY <1>1
  <2>2. /\ Plays(q[i + 1], R[i + 1], p) /\ Follows(R[i], R[i + 1]) /\ q2[i] = q[i + 1]
    <3>1. Plays(q[i + 1], R[i + 1], p) /\ Follows(R[i], R[i + 1]) BY <2>1 DEF Carries
    <3> QED BY <3>1 DEF Moved
  <2>3. Follows(E[i - 1], E[i])
    <3>1. /\ E[i - 1].n = R[i].n - b /\ E[i - 1].k = R[i].k /\ E[i - 1].op = R[i].op
          /\ E[i - 1].addr = R[i].addr /\ E[i - 1].len = R[i].len
          /\ Size(E[i - 1]) = Size(R[i])
      <4>1. i \in 1..l BY <1>1
      <4> QED BY <4>1, <1>11
    <3>2. /\ E[i].n = R[i + 1].n - b /\ E[i].k = R[i + 1].k /\ E[i].op = R[i + 1].op
          /\ E[i].addr = R[i + 1].addr /\ E[i].len = R[i + 1].len
          /\ Bump(E[i]) = Bump(R[i + 1])
      <4>1. i \in 0..l - 1 BY <2>1
      <4>2. /\ E[i].n = R[i + 1].n - b /\ E[i].k = R[i + 1].k /\ E[i].op = R[i + 1].op
            /\ E[i].addr = R[i + 1].addr /\ E[i].len = R[i + 1].len
        BY <4>1, <1>4
      <4>3. Bump(E[i]) = Bump(R[i + 1]) BY <4>1, <1>5
      <4> QED BY <4>2, <4>3
    <3>3. R[i].n \in Nat /\ R[i + 1].n \in Nat /\ Bump(R[i + 1]) \in {0, 1} BY <1>2, <2>1
    <3>4. E[i].n = E[i - 1].n + Bump(E[i]) BY <2>2, <3>1, <3>2, <3>3, <1>1 DEF Follows
    <3> QED BY <2>2, <3>1, <3>2, <3>4 DEF Follows
  <2>4. Plays(q2[i], E[i], p2)
    <3>1. /\ E[i].n = R[i + 1].n - b /\ E[i].k = R[i + 1].k /\ E[i].addr = R[i + 1].addr
          /\ Size(E[i]) = Size(R[i + 1]) /\ Header(E[i]) = Header(R[i + 1])
      <4>1. i \in 0..l - 1 BY <2>1
      <4>2. E[i].n = R[i + 1].n - b /\ E[i].k = R[i + 1].k /\ E[i].addr = R[i + 1].addr
        BY <4>1, <1>4
      <4>3. Size(E[i]) = Size(R[i + 1]) /\ Header(E[i]) = Header(R[i + 1])
        BY <4>1, <1>5
      <4> QED BY <4>2, <4>3
    <3>2. ASSUME R[i + 1].k > 5
          PROVE  E[i].n \in 1..Len(p2) /\ p2[E[i].n] = p[R[i + 1].n]
      <4>1. R[i + 1].n \in 1..Len(p) BY <2>2, <3>2 DEF Plays
      <4>2. b + 1 <= R[i + 1].n
        <5>1. Bump(R[i + 1]) = 1 BY <3>2 DEF Bump
        <5>2. b + Bump(R[i + 1]) <= R[i + 1].n + IF i + 1 = 1 THEN b ELSE 0
          BY <2>1, <1>3
        <5> QED BY <5>1, <5>2, <1>1, <4>1
      <4>3. CASE b = 0 BY <4>3, <4>1, <3>1
      <4>4. CASE b = 1
        <5>1. R[i + 1].n - 1 \in 1..Len(p) - 1 /\ (R[i + 1].n - 1) + 1 = R[i + 1].n
          BY <4>1, <4>2, <4>4
        <5>2. p2[R[i + 1].n - 1] = p[R[i + 1].n] BY <5>1, <4>4 DEF Moved
        <5> QED BY <5>1, <5>2, <4>4, <3>1
      <4> QED BY <4>3, <4>4, <1>1
    <3> QED BY <2>2, <3>1, <3>2 DEF Plays
  <2> QED BY <2>3, <2>4
<1>8. ASSUME NEW i \in 0..l - 1, NEW j \in 0..l - 1, i < j
      PROVE  E[i].n + Bump(E[j]) <= E[j].n
  <2>1. i + 1 \in 0..l /\ j + 1 \in 0..l /\ i + 1 < j + 1 BY <1>1, <1>8
  <2>2. R[i + 1].n + Bump(R[j + 1]) <= R[j + 1].n BY <2>1 DEF Carries
  <2>3. E[i].n = R[i + 1].n - b /\ E[j].n = R[j + 1].n - b /\ Bump(E[j]) = Bump(R[j + 1])
    <3>1. E[i].n = R[i + 1].n - b /\ E[j].n = R[j + 1].n - b BY <1>4
    <3>2. Bump(E[j]) = Bump(R[j + 1]) BY <1>5
    <3> QED BY <3>1, <3>2
  <2>4. R[i + 1].n \in Nat /\ R[j + 1].n \in Nat /\ Bump(R[j + 1]) \in {0, 1} BY <2>1, <1>2
  <2>5. \A x \in Nat, y \in Nat, u \in {0, 1} : x + u <= y => (x - b) + u <= y - b
    BY <1>1
  <2>6. (R[i + 1].n - b) + Bump(R[j + 1]) <= R[j + 1].n - b BY <2>2, <2>4, <2>5
  <2> QED BY <2>3, <2>6
<1>9. E[0].n = 0 /\ E[0].k \in 1..Size(E[0])
  <2>1. 0 \in 0..l - 1 /\ 0 + 1 = 1 /\ 1 \in 1..l /\ 1 - 1 = 0 BY <1>1
  <2>2. R[1].n = R[0].n + b /\ R[0].n = 0 /\ R[1].k \in 1..Size(R[1])
    BY <2>1 DEF Carries, Follows, Plays
  <2>3. E[0].n = R[1].n - b /\ E[0].k = R[1].k /\ Size(E[0]) = Size(R[1])
    <3>1. /\ E[1 - 1].n = R[1].n - b /\ E[1 - 1].k = R[1].k
          /\ Size(E[1 - 1]) = Size(R[1])
      BY <2>1, <1>11
    <3> QED BY <2>1, <3>1
  <2> QED BY <2>2, <2>3, <1>1
<1>10. E[l - 1].n = Len(p2) /\ E[l - 1].k = Size(E[l - 1])
  <2>1. l - 1 \in 0..l - 1 /\ (l - 1) + 1 = l BY <1>1
  <2>2. R[l].n = Len(p) /\ R[l].k = Size(R[l]) BY DEF Carries
  <2>3. /\ E[l - 1].n = R[l].n - b /\ E[l - 1].k = R[l].k /\ Size(E[l - 1]) = Size(R[l])
    <3>1. l \in 1..l BY <1>1
    <3> QED BY <3>1, <1>11
  <2> QED BY <2>2, <2>3, <1>1
<1> QED
  <2>1. E = Rest(R, l) BY DEF E
  <2>2. Len(q2) = l - 1 OBVIOUS
  <2>3. Carries(E, q2, p2)
    BY <2>2, <1>6, <1>7, <1>8, <1>9, <1>10 DEF Carries
  <2> QED BY <2>1, <2>3

-----------------------------------------------------------------------------
(* Sequences.                                                              *)

LEMMA AppendToConcat ==
  ASSUME NEW S, NEW s \in Seq(S), NEW t \in Seq(S), NEW x \in S
  PROVE  s \o Append(t, x) = Append(s \o t, x)
<1>1. /\ Append(t, x) = t \o <<x>> /\ <<x>> \in Seq(S) /\ s \o t \in Seq(S)
  BY AppendIsConcat, ConcatProperties
<1>2. Append(s \o t, x) = (s \o t) \o <<x>>
  BY <1>1, AppendIsConcat
<1> QED BY <1>1, <1>2, ConcatAssociative

LEMMA MoveHead ==
  ASSUME NEW S, NEW s \in Seq(S), NEW t \in Seq(S), t # <<>>
  PROVE  Append(s, Head(t)) \o Tail(t) = s \o t
<1>1. Head(t) \in S /\ Tail(t) \in Seq(S) /\ <<Head(t)>> \in Seq(S)
  BY HeadTailProperties
<1>2. Append(s, Head(t)) = s \o <<Head(t)>>
  BY <1>1, AppendIsConcat
<1>3. (s \o <<Head(t)>>) \o Tail(t) = s \o (<<Head(t)>> \o Tail(t))
  BY <1>1, ConcatAssociative
<1>4. <<Head(t)>> \o Tail(t) = t
  <2>1. /\ <<Head(t)>> \o Tail(t) \in Seq(S)
        /\ Len(<<Head(t)>> \o Tail(t)) = 1 + Len(Tail(t))
        /\ \A i \in 1..1 + Len(Tail(t)) :
             (<<Head(t)>> \o Tail(t))[i] =
               IF i <= 1 THEN <<Head(t)>>[i] ELSE Tail(t)[i - 1]
    BY <1>1, ConcatProperties
  <2>2. /\ Len(Tail(t)) = Len(t) - 1 /\ Len(t) \in Nat /\ Len(t) > 0
        /\ \A i \in 1..Len(Tail(t)) : Tail(t)[i] = t[i + 1]
    BY HeadTailProperties, EmptySeq, LenProperties
  <2>3. Len(<<Head(t)>> \o Tail(t)) = Len(t) BY <2>1, <2>2
  <2>4. \A i \in 1..Len(t) : (<<Head(t)>> \o Tail(t))[i] = t[i]
    <3> TAKE i \in 1..Len(t)
    <3>1. CASE i = 1 BY <2>1, <2>2, <3>1
    <3>2. CASE i > 1
      <4>1. i - 1 \in 1..Len(Tail(t)) /\ (i - 1) + 1 = i BY <2>2, <3>2
      <4>2. Tail(t)[i - 1] = t[i] BY <4>1, <2>2
      <4>3. i \in 1..1 + Len(Tail(t)) BY <2>2
      <4> QED BY <2>1, <4>2, <4>3, <3>2
    <3> QED BY <3>1, <3>2, <2>2
  <2> QED BY <2>1, <2>3, <2>4, SeqEqual
<1> QED BY <1>2, <1>3, <1>4

\* A request, as write_chunk and read_chunk put it together.
WithRequest(q, r) == q \o <<r.op>> \o push_addr(r.addr) \o push_len(r.len - 1)

LEMMA RequestWords ==
  ASSUME NEW q \in Seq(Word), NEW r \in Role, NEW d \in Seq(Data)
  PROVE  LET h == WithRequest(q, r) IN
         /\ h \in Seq(Word) /\ Len(h) = Len(q) + 5
         /\ \A i \in 1..Len(q) : h[i] = q[i]
         /\ \A k \in 1..5 : h[Len(q) + k] = Header(r)[k]
         /\ h \o d \in Seq(Word) /\ Len(h \o d) = (Len(q) + 5) + Len(d)
         /\ \A i \in 1..Len(q) : (h \o d)[i] = q[i]
         /\ \A k \in 1..5 : (h \o d)[Len(q) + k] = Header(r)[k]
         /\ \A n \in 1..Len(d) : (h \o d)[Len(q) + (5 + n)] = d[n]
<1> DEFINE a == push_addr(r.addr)
           b == push_len(r.len - 1)
           h1 == q \o <<r.op>>
           h2 == h1 \o a
           h == h2 \o b
<1>1. /\ Header(r) \in Seq(Word) /\ Len(Header(r)) = 5
  BY HeaderWords
<1>2. \A k \in 1..5 : Header(r)[k] \in Word
  BY <1>1, ElementOfSeq
<1>3. /\ a = <<Header(r)[2], Header(r)[3]>> /\ b = <<Header(r)[4], Header(r)[5]>>
      /\ <<r.op>> = <<Header(r)[1]>>
  BY DEF push_addr, push_len, Header
<1>4. a \in Seq(Word) /\ b \in Seq(Word) /\ <<r.op>> \in Seq(Word)
      /\ Len(a) = 2 /\ Len(b) = 2 /\ Len(<<r.op>>) = 1
      /\ a[1] = Header(r)[2] /\ a[2] = Header(r)[3]
      /\ b[1] = Header(r)[4] /\ b[2] = Header(r)[5] /\ <<r.op>>[1] = Header(r)[1]
  <2>1. \A x \in Word, y \in Word :
           /\ <<x, y>> \in Seq(Word) /\ Len(<<x, y>>) = 2
           /\ <<x, y>>[1] = x /\ <<x, y>>[2] = y
    OBVIOUS
  <2>2. \A x \in Word : <<x>> \in Seq(Word) /\ Len(<<x>>) = 1 /\ <<x>>[1] = x
    OBVIOUS
  <2>3. /\ Header(r)[1] \in Word /\ Header(r)[2] \in Word /\ Header(r)[3] \in Word
        /\ Header(r)[4] \in Word /\ Header(r)[5] \in Word
    BY <1>2
  <2> HIDE DEF a, b
  <2> QED BY <2>1, <2>2, <2>3, <1>3
<1>5. d \in Seq(Word)
  <2>1. Data \subseteq Word BY TsiConstants DEF Word
  <2> QED BY <2>1, SeqMonotonic
<1>6. PICK l \in Nat : l = Len(q) BY LenProperties
<1>7. PICK m \in Nat : m = Len(d) BY LenProperties
<1> HIDE DEF a, b
<1>8. /\ h1 \in Seq(Word) /\ Len(h1) = l + 1
      /\ \A i \in 1..l + 1 : h1[i] = IF i <= l THEN q[i] ELSE <<r.op>>[i - l]
  BY <1>4, <1>6, ConcatProperties
<1> HIDE DEF h1
<1>9. /\ h2 \in Seq(Word) /\ Len(h2) = l + 3
      /\ \A i \in 1..l + 3 : h2[i] = IF i <= l + 1 THEN h1[i] ELSE a[i - (l + 1)]
  <2>1. /\ h2 \in Seq(Word) /\ Len(h2) = (l + 1) + 2
        /\ \A i \in 1..(l + 1) + 2 : h2[i] = IF i <= l + 1 THEN h1[i] ELSE a[i - (l + 1)]
    <3>1. /\ h2 \in Seq(Word) /\ Len(h2) = Len(h1) + Len(a)
          /\ \A i \in 1..Len(h1) + Len(a) :
               h2[i] = IF i <= Len(h1) THEN h1[i] ELSE a[i - Len(h1)]
      <4>1. h1 \in Seq(Word) /\ a \in Seq(Word) BY <1>4, <1>8
      <4> QED BY <4>1, ConcatProperties
    <3>2. Len(h1) = l + 1 /\ Len(a) = 2 BY <1>4, <1>8
    <3> HIDE DEF h2
    <3> QED BY <3>1, <3>2
  <2>2. (l + 1) + 2 = l + 3 OBVIOUS
  <2> HIDE DEF h2
  <2> QED BY <2>1, <2>2
<1> HIDE DEF h2
<1>10. /\ h \in Seq(Word) /\ Len(h) = l + 5
       /\ \A i \in 1..l + 5 : h[i] = IF i <= l + 3 THEN h2[i] ELSE b[i - (l + 3)]
  <2>1. /\ h \in Seq(Word) /\ Len(h) = (l + 3) + 2
        /\ \A i \in 1..(l + 3) + 2 : h[i] = IF i <= l + 3 THEN h2[i] ELSE b[i - (l + 3)]
    <3>1. /\ h \in Seq(Word) /\ Len(h) = Len(h2) + Len(b)
          /\ \A i \in 1..Len(h2) + Len(b) :
               h[i] = IF i <= Len(h2) THEN h2[i] ELSE b[i - Len(h2)]
      <4>1. h2 \in Seq(Word) /\ b \in Seq(Word) BY <1>4, <1>9
      <4> QED BY <4>1, ConcatProperties
    <3>2. Len(h2) = l + 3 /\ Len(b) = 2 BY <1>4, <1>9
    <3> HIDE DEF h
    <3> QED BY <3>1, <3>2
  <2>2. (l + 3) + 2 = l + 5 OBVIOUS
  <2> HIDE DEF h
  <2> QED BY <2>1, <2>2
<1> HIDE DEF h
<1>11. \A i \in 1..l : h[i] = q[i]
  BY <1>8, <1>9, <1>10
<1>12. /\ h[l + 1] = Header(r)[1] /\ h[l + 2] = Header(r)[2] /\ h[l + 3] = Header(r)[3]
       /\ h[l + 4] = Header(r)[4] /\ h[l + 5] = Header(r)[5]
  <2>1. h[l + 1] = Header(r)[1]
    <3>1. h[l + 1] = h2[l + 1] BY <1>10
    <3>2. h2[l + 1] = h1[l + 1] BY <1>9
    <3>3. (l + 1) - l = 1 OBVIOUS
    <3>4. h1[l + 1] = <<r.op>>[1] BY <1>8, <3>3
    <3> QED BY <3>1, <3>2, <3>4, <1>4
  <2>2. h[l + 2] = Header(r)[2] /\ h[l + 3] = Header(r)[3]
    <3>1. h[l + 2] = h2[l + 2] /\ h[l + 3] = h2[l + 3] BY <1>10
    <3>2. (l + 2) - (l + 1) = 1 /\ (l + 3) - (l + 1) = 2 OBVIOUS
    <3>3. h2[l + 2] = a[1] /\ h2[l + 3] = a[2] BY <1>9, <3>2
    <3> QED BY <3>1, <3>3, <1>4
  <2>3. h[l + 4] = Header(r)[4] /\ h[l + 5] = Header(r)[5]
    <3>1. (l + 4) - (l + 3) = 1 /\ (l + 5) - (l + 3) = 2 OBVIOUS
    <3>2. h[l + 4] = b[1] /\ h[l + 5] = b[2] BY <1>10, <3>1
    <3> QED BY <3>2, <1>4
  <2> QED BY <2>1, <2>2, <2>3
<1>13. \A k \in 1..5 : h[l + k] = Header(r)[k]
  <2> TAKE k \in 1..5
  <2>1. k = 1 \/ k = 2 \/ k = 3 \/ k = 4 \/ k = 5 OBVIOUS
  <2> QED BY <2>1, <1>12
<1>14. /\ h \o d \in Seq(Word) /\ Len(h \o d) = (l + 5) + m
       /\ \A i \in 1..(l + 5) + m :
            (h \o d)[i] = IF i <= l + 5 THEN h[i] ELSE d[i - (l + 5)]
  <2>1. /\ h \o d \in Seq(Word) /\ Len(h \o d) = Len(h) + Len(d)
        /\ \A i \in 1..Len(h) + Len(d) :
             (h \o d)[i] = IF i <= Len(h) THEN h[i] ELSE d[i - Len(h)]
    BY <1>5, <1>10, ConcatProperties
  <2>2. Len(h) = l + 5 /\ Len(d) = m BY <1>7, <1>10
  <2> QED BY <2>1, <2>2
<1>15. \A i \in 1..l + 5 : (h \o d)[i] = h[i]
  BY <1>14
<1>16. \A n \in 1..m : (h \o d)[l + (5 + n)] = d[n]
  <2> TAKE n \in 1..m
  <2>1. l + (5 + n) \in 1..(l + 5) + m /\ ~(l + (5 + n) <= l + 5)
        /\ (l + (5 + n)) - (l + 5) = n
    OBVIOUS
  <2> QED BY <2>1, <1>14
<1>17. /\ \A i \in 1..l : (h \o d)[i] = q[i]
       /\ \A k \in 1..5 : (h \o d)[l + k] = Header(r)[k]
  <2>1. \A k \in 1..5 : l + k \in 1..l + 5 OBVIOUS
  <2>2. \A i \in 1..l : i \in 1..l + 5 OBVIOUS
  <2> QED BY <1>11, <1>13, <1>15, <2>1, <2>2
<1> QED
  <2>1. WithRequest(q, r) = h BY DEF WithRequest, h, h2, h1, a, b
  <2> QED BY <2>1, <1>6, <1>7, <1>10, <1>11, <1>13, <1>14, <1>16, <1>17

-----------------------------------------------------------------------------
(* The word that the adapter receives next, and what it makes of it.       *)

LEMMA Constants ==
  /\ Data \subseteq Word /\ Word \subseteq Nat /\ Addrs \subseteq Nat /\ MaxLen \in Nat
  /\ WordBase \in Nat /\ 0 \in Data /\ 1 \in Data /\ MsipBase \in Addrs
  /\ SAI_CMD_READ = 0 /\ SAI_CMD_WRITE = 1 /\ MaxLen >= 1
<1>1. /\ WordBase \in Nat /\ WordBase >= 2 /\ {0, 1} \subseteq Data /\ MsipBase \in Addrs
      /\ Data \subseteq 0..WordBase - 1
  BY TsiConstants
<1>2. Addrs \subseteq Nat /\ MaxLen \in Nat /\ MaxLen >= 1
  <2>1. WordBase * WordBase \in Nat BY <1>1
  <2> DEFINE s == WordBase * WordBase
  <2>2. s \in Nat BY <2>1
  <2>3. MaxLen \in 1..s /\ \A a \in Addrs : a \in 0..s - 1 BY TsiConstants
  <2> HIDE DEF s
  <2> QED BY <2>2, <2>3
<1> QED BY <1>1, <1>2 DEF Word, SAI_CMD_READ, SAI_CMD_WRITE

LEMMA Arrives ==
  ASSUME TypeOK, in_data # <<>>,
         NEW R \in [0..Len(in_data) -> Role], Carries(R, in_data, posted),
         Received(R[0], frame),
         NEW f, f = Append(frame, Head(in_data))
  PROVE  /\ R[1] \in Role /\ R[1].k \in 1..Size(R[1]) /\ f \in Seq(Word) /\ Len(f) = R[1].k
         /\ \A i \in 1..5 : i <= Len(f) => f[i] = Header(R[1])[i]
         /\ f[1] = R[1].op
         /\ Len(f) >= 5 => FrameAddr(f) = R[1].addr /\ FrameLen(f) = R[1].len
         /\ R[1].n = Bump(R[1])
         /\ Len(f) > 5 => /\ R[1].op = SAI_CMD_WRITE /\ posted # <<>>
                          /\ Head(posted) = [addr |-> Nth(FrameAddr(f), Len(f) - 5),
                                             word |-> Head(in_data)]
<1> DEFINE w == Head(in_data)
           r == R[1]
<1>1. /\ Len(in_data) \in Nat /\ Len(in_data) >= 1 /\ w = in_data[1] /\ w \in Word
      /\ frame \in Seq(Word) /\ Len(frame) \in Nat
  <2>1. in_data \in Seq(Word) /\ frame \in Seq(Word) BY DEF TypeOK
  <2>2. Len(in_data) \in Nat /\ Len(in_data) >= 1 /\ Len(frame) \in Nat
    BY <2>1, EmptySeq, LenProperties
  <2>3. w = in_data[1] /\ in_data[1] \in Word BY <2>1, <2>2, ElementOfSeq
  <2> QED BY <2>1, <2>2, <2>3
<1>2. /\ f \in Seq(Word) /\ Len(f) = Len(frame) + 1 /\ f[Len(frame) + 1] = w
      /\ \A i \in 1..Len(frame) : f[i] = frame[i]
  BY <1>1, AppendProperties
<1>3. 1 \in 1..Len(in_data) /\ 1 - 1 = 0 /\ 0 \in 0..Len(in_data) /\ 1 \in 0..Len(in_data)
  BY <1>1
<1>4. /\ Plays(w, r, posted) /\ Follows(R[0], r) /\ R[0].n = 0
      /\ R[0] \in Role /\ r \in Role /\ R[0].k \in 1..Size(R[0])
  BY <1>1, <1>3 DEF Carries
<1> HIDE DEF w, r
<1>5. r.k \in 1..Size(r) /\ r.k \in Nat /\ R[0].k \in Nat /\ Size(r) \in Nat /\ Size(R[0]) \in Nat
  <2>1. r.k \in Nat /\ R[0].k \in Nat BY <1>4 DEF Role
  <2> QED BY <2>1, <1>4, SizeType DEF Plays
<1>6. /\ Len(f) = r.k
      /\ \A i \in 1..5 : i <= Len(frame) => frame[i] = Header(r)[i]
  <2>1. CASE R[0].k = Size(R[0])
    <3>1. frame = <<>> /\ r.k = 1 BY <2>1, <1>4 DEF Received, Follows
    <3> QED BY <3>1, <1>2
  <2>2. CASE R[0].k # Size(R[0])
    <3>1. /\ Len(frame) = R[0].k /\ r.k = R[0].k + 1
          /\ r.op = R[0].op /\ r.addr = R[0].addr /\ r.len = R[0].len
          /\ \A i \in 1..5 : i <= Len(frame) => frame[i] = Header(R[0])[i]
      BY <2>2, <1>4 DEF Received, Follows
    <3>2. Header(R[0]) = Header(r) BY <3>1 DEF Header
    <3> QED BY <3>1, <3>2, <1>2
  <2> QED BY <2>1, <2>2
<1>7. \A i \in 1..5 : i <= Len(f) => f[i] = Header(r)[i]
  <2> TAKE i \in 1..5
  <2>1. CASE i <= Len(frame) BY <2>1, <1>1, <1>2, <1>6
  <2>2. CASE i = Len(frame) + 1
    <3>1. f[i] = w /\ r.k = i BY <2>2, <1>2, <1>6
    <3>2. r.k <= 5 /\ r.k = i BY <3>1
    <3>3. w = Header(r)[i] BY <1>4, <3>2 DEF Plays
    <3> QED BY <3>1, <3>3
  <2> QED BY <2>1, <2>2, <1>1, <1>2
<1>8. Len(f) \in Nat /\ Len(f) >= 1 BY <1>1, <1>2
<1>9. f[1] = r.op
  <2>1. Header(r)[1] = r.op BY <1>4, HeaderWords
  <2>2. 1 \in 1..5 OBVIOUS
  <2> QED BY <2>1, <2>2, <1>7, <1>8
<1>10. ASSUME Len(f) >= 5 PROVE FrameAddr(f) = r.addr /\ FrameLen(f) = r.len
  <2>1. 2 \in 1..5 /\ 3 \in 1..5 /\ 4 \in 1..5 /\ 5 \in 1..5
        /\ 2 <= Len(f) /\ 3 <= Len(f) /\ 4 <= Len(f) /\ 5 <= Len(f)
    BY <1>10, <1>8
  <2>2. /\ f[2] = Header(r)[2] /\ f[3] = Header(r)[3]
        /\ f[4] = Header(r)[4] /\ f[5] = Header(r)[5]
    BY <2>1, <1>7
  <2>3. /\ Header(r)[2] + WordBase * Header(r)[3] = r.addr
        /\ (Header(r)[4] + WordBase * Header(r)[5]) + 1 = r.len
    BY <1>4, HeaderWords
  <2> QED BY <2>2, <2>3 DEF FrameAddr, FrameLen
<1>11. r.n = Bump(r)
  <2>1. r.n = R[0].n + Bump(r) /\ Bump(r) \in {0, 1} BY <1>4 DEF Follows, Bump
  <2> QED BY <2>1, <1>4
<1>12. ASSUME Len(f) > 5
       PROVE  /\ r.op = SAI_CMD_WRITE /\ posted # <<>>
              /\ Head(posted) = [addr |-> Nth(FrameAddr(f), Len(f) - 5), word |-> w]
  <2>1. r.k > 5 BY <1>12, <1>6
  <2>2. r.op = SAI_CMD_WRITE
    <3>1. r.op \in {SAI_CMD_READ, SAI_CMD_WRITE} BY <1>4 DEF Role
    <3>2. r.op = SAI_CMD_READ => Size(r) = 5 BY DEF Size
    <3> QED BY <3>1, <3>2, <2>1, <1>5
  <2>3. r.n = 1 BY <2>1, <1>11 DEF Bump
  <2>4. 1 \in 1..Len(posted) /\ posted[1] = [addr |-> Nth(r.addr, r.k - 5), word |-> w]
    BY <2>1, <2>3, <1>4 DEF Plays
  <2>5. posted \in Seq([addr : Addrs, word : Data]) BY DEF TypeOK
  <2>6. posted # <<>> /\ Head(posted) = posted[1] BY <2>4, <2>5, EmptySeq
  <2>7. FrameAddr(f) = r.addr BY <1>10, <1>12, <1>8
  <2> QED BY <2>2, <2>4, <2>6, <2>7, <1>6
<1> QED
  BY <1>2, <1>4, <1>5, <1>6, <1>7, <1>9, <1>10, <1>11, <1>12 DEF w, r

-----------------------------------------------------------------------------
(* LinkInv holds, and every step keeps it.                                 *)

\* Before the first request: the last one is over.
LEMMA TsiInit == Init => TsiInv
<1> SUFFICES ASSUME Init PROVE TsiInv  OBVIOUS
<1> DEFINE r == [op |-> SAI_CMD_WRITE, addr |-> MsipBase, len |-> 1, k |-> 6, n |-> 0]
           R == [i \in 0..0 |-> r]
<1>1. TypeOK
  <2>1. mem \in [Addrs -> Data] BY Constants DEF Init
  <2>2. 0 \in 0..MaxCalls BY TsiConstants
  <2> QED BY <2>1, <2>2, Constants DEF Init, TypeOK
<1>2. InMemory BY DEF Init, InMemory
<1>3. r \in Role /\ Size(r) = 6 /\ r.k = 6 /\ r.n = 0 /\ r.op = SAI_CMD_WRITE
  BY Constants DEF Role, Size
<1>4. Len(in_data) = 0 /\ Len(posted) = 0 BY DEF Init
<1> HIDE DEF r
<1>5. R \in [0..Len(in_data) -> Role] /\ R[0] = r /\ \A i \in 0..Len(in_data) : R[i] = r
  <2>1. R \in [0..0 -> Role] /\ \A i \in 0..0 : R[i] = r BY <1>3
  <2> QED BY <2>1, <1>4
<1> HIDE DEF R
<1>6. Carries(R, in_data, posted)
  BY <1>3, <1>4, <1>5 DEF Carries
<1>7. Received(R[0], frame)
  BY <1>3, <1>5 DEF Received, Init
<1>8. Awaited(R)
  BY <1>3, <1>4, <1>5, Constants DEF Awaited, OneRead, Init
<1>9. LinkInv BY <1>5, <1>6, <1>7, <1>8 DEF LinkInv
<1> QED BY <1>1, <1>2, <1>9 DEF TsiInv

\* The host puts a write on the link: its last words are then of that write.
LEMMA WriteLinked ==
  ASSUME TsiInv, rd = NoRead, NEW a \in Addrs, NEW n \in 1..MaxLen, NEW words \in [1..n -> Data],
         \A i \in 1..n : Nth(a, i) \in Addrs,
         write_chunk(a, words)
  PROVE  LinkInv' /\ in_data' \in Seq(Word) /\ posted' \in Seq([addr : Addrs, word : Data])
<1> DEFINE r == [op |-> SAI_CMD_WRITE, addr |-> a, len |-> n, k |-> 1, n |-> 0]
           Post == [addr : Addrs, word : Data]
           d == [i \in 1..n |-> [addr |-> Nth(a, i), word |-> words[i]]]
<1>1. n \in Nat /\ n >= 1 /\ words \in Seq(Data) /\ Len(words) = n /\ d \in Seq(Post) /\ Len(d) = n
  <2>1. n \in Nat /\ n >= 1 BY Constants
  <2>2. words \in Seq(Data) /\ Len(words) = n BY <2>1
  <2>3. \A i \in 1..n : [addr |-> Nth(a, i), word |-> words[i]] \in Post OBVIOUS
  <2>4. d \in [1..n -> Post] BY <2>3
  <2> HIDE DEF d, Post
  <2>5. d \in Seq(Post) /\ Len(d) = n BY <2>1, <2>4
  <2> QED BY <2>1, <2>2, <2>5
<1>2. \A i \in 1..n : d[i] = [addr |-> Nth(a, i), word |-> words[i]] OBVIOUS
<1>3. in_data \in Seq(Word) /\ posted \in Seq(Post) BY DEF TsiInv, TypeOK
<1>4. PICK l \in Nat : l = Len(in_data) BY <1>3, LenProperties
<1>5. PICK m \in Nat : m = Len(posted) BY <1>3, LenProperties
<1>6. posted' = posted \o d /\ UNCHANGED <<rd, result, out_data, frame, left, from>>
  BY <1>1 DEF write_chunk
<1>7. r \in Role /\ Size(r) = 5 + n /\ r.op = SAI_CMD_WRITE /\ r.addr = a /\ r.len = n
  BY <1>1, Constants DEF Role, Size
<1>8. in_data' = (in_data \o <<r.op>> \o push_addr(r.addr) \o push_len(r.len - 1)) \o words
  BY <1>1, <1>7 DEF write_chunk
<1> HIDE DEF r, d, Post
<1>9. /\ in_data' \in Seq(Word) /\ Len(in_data') = (l + 5) + n
      /\ \A i \in 1..l : in_data'[i] = in_data[i]
      /\ \A k \in 1..5 : in_data'[l + k] = Header(r)[k]
      /\ \A i \in 1..n : in_data'[l + (5 + i)] = words[i]
  <2> DEFINE h == WithRequest(in_data, r)
  <2>1. /\ h \o words \in Seq(Word) /\ Len(h \o words) = (Len(in_data) + 5) + Len(words)
        /\ \A i \in 1..Len(in_data) : (h \o words)[i] = in_data[i]
        /\ \A k \in 1..5 : (h \o words)[Len(in_data) + k] = Header(r)[k]
        /\ \A i \in 1..Len(words) : (h \o words)[Len(in_data) + (5 + i)] = words[i]
    <3>1. in_data \in Seq(Word) /\ r \in Role /\ words \in Seq(Data) BY <1>1, <1>3, <1>7
    <3>2. /\ h \o words \in Seq(Word)
          /\ Len(h \o words) = (Len(in_data) + 5) + Len(words)
      BY <3>1, RequestWords
    <3>3. \A i \in 1..Len(in_data) : (h \o words)[i] = in_data[i]
      BY <3>1, RequestWords
    <3>4. \A k \in 1..5 : (h \o words)[Len(in_data) + k] = Header(r)[k]
      BY <3>1, RequestWords
    <3>5. \A i \in 1..Len(words) : (h \o words)[Len(in_data) + (5 + i)] = words[i]
      BY <3>1, RequestWords
    <3> QED BY <3>2, <3>3, <3>4, <3>5
  <2>2. in_data' = h \o words BY <1>8 DEF WithRequest
  <2> HIDE DEF h
  <2> QED BY <2>1, <2>2, <1>1, <1>4
<1>10. /\ posted' \in Seq(Post) /\ Len(posted') = m + n
       /\ \A i \in 1..m : posted'[i] = posted[i]
       /\ \A i \in 1..n : posted'[m + i] = [addr |-> Nth(a, i), word |-> words[i]]
  <2>1. /\ posted \o d \in Seq(Post) /\ Len(posted \o d) = Len(posted) + Len(d)
        /\ \A i \in 1..Len(posted) + Len(d) :
             (posted \o d)[i] = IF i <= Len(posted) THEN posted[i] ELSE d[i - Len(posted)]
    BY <1>1, <1>3, ConcatProperties
  <2>2. \A i \in 1..m + n : posted'[i] = IF i <= m THEN posted[i] ELSE d[i - m]
    BY <2>1, <1>1, <1>5, <1>6
  <2>3. \A i \in 1..m : i \in 1..m + n /\ i <= m BY <1>1
  <2>4. \A i \in 1..n : m + i \in 1..m + n /\ ~(m + i <= m) /\ (m + i) - m = i BY <1>1
  <2>5. \A i \in 1..n : posted'[m + i] = d[i] BY <2>2, <2>4
  <2> QED BY <2>1, <2>2, <2>3, <2>5, <1>1, <1>2, <1>5, <1>6
<1>11. PICK R \in [0..l -> Role] :
         Carries(R, in_data, posted) /\ Received(R[0], frame) /\ Awaited(R)
  BY <1>4 DEF TsiInv, LinkInv
<1> DEFINE z == 5 + n
           E == Extend(R, l, r, m)
<1>12. z \in Nat /\ Size(r) = z /\ Len(in_data') = l + z /\ Len(posted') = m + (z - 5)
       /\ z - 5 = n
  BY <1>1, <1>7, <1>9, <1>10
<1>13. Carries(E, in_data', posted')
  <2>1. \A i \in 1..z - 5 :
          posted'[m + i] = [addr |-> Nth(r.addr, i), word |-> in_data'[l + (5 + i)]]
    BY <1>7, <1>9, <1>10, <1>12
  <2> HIDE DEF z, E
  <2>2. Carries(Extend(R, l, r, m), in_data', posted')
    <3>1. /\ Len(in_data) = l /\ Len(posted) = m /\ Size(r) = z /\ z \in Nat /\ r \in Role
          /\ Carries(R, in_data, posted)
          /\ Len(in_data') = l + z /\ Len(posted') = m + (z - 5)
          /\ \A i \in 1..l : in_data'[i] = in_data[i]
          /\ \A k \in 1..5 : in_data'[l + k] = Header(r)[k]
          /\ \A i \in 1..m : posted'[i] = posted[i]
      BY <1>4, <1>5, <1>7, <1>9, <1>10, <1>11, <1>12
    <3>2. /\ Begins(in_data', in_data, l) /\ Begins(posted', posted, m)
          /\ HasRequest(in_data', posted', r, l, m, z)
      BY <2>1, <3>1 DEF Begins, HasRequest
    <3> QED BY <3>1, <3>2, Added
  <2> QED BY <2>2 DEF E
<1>14. /\ E \in [0..l + z -> Role] /\ E[0] = R[0]
       /\ \A i \in 0..l : E[i] = R[i]
       /\ \A i \in 0..l + z : i > l => E[i].op = SAI_CMD_WRITE
  <2>1. E \in [0..l + z -> Role] BY <1>12, <1>13 DEF Carries
  <2>2. E = [i \in 0..l + z |-> IF i <= l THEN R[i] ELSE Tag(r, i - l, m)]
    BY <1>12 DEF Extend
  <2>3. \A i \in Int : Tag(r, i - l, m).op = SAI_CMD_WRITE BY <1>7 DEF Tag
  <2> HIDE DEF E
  <2>4. \A i \in 0..l : i \in 0..l + z /\ i <= l BY <1>12
  <2>5. \A i \in 0..l : E[i] = R[i] BY <2>2, <2>4
  <2>6. \A i \in 0..l + z : i > l => E[i].op = SAI_CMD_WRITE
    <3> TAKE i \in 0..l + z
    <3>1. i \in Int /\ (i > l => ~(i <= l)) BY <1>12
    <3> QED BY <3>1, <2>2, <2>3
  <2>7. 0 \in 0..l OBVIOUS
  <2> QED BY <2>1, <2>5, <2>6, <2>7
<1> HIDE DEF E, z
<1>15. Awaited(E)'
  <2>1. OneRead(E, in_data', rd')
    <3> SUFFICES ASSUME NEW i \in 0..l + z, E[i].op = SAI_CMD_READ
                 PROVE  i = 0 /\ E[i].k = 5
      BY <1>12 DEF OneRead
    <3>1. i \in 0..l /\ R[i].op = SAI_CMD_READ /\ E[i] = R[i]
      <4>1. ~(i > l) BY <1>14, Constants
      <4>2. i \in 0..l BY <4>1, <1>12
      <4> QED BY <4>2, <1>14
    <3>2. OneRead(R, in_data, rd) BY <1>11 DEF Awaited
    <3> QED BY <3>1, <3>2, <1>4 DEF OneRead
  <2>2. rd = NoRead => result = <<>> /\ out_data = <<>> /\ left = 0
    BY <1>11 DEF Awaited
  <2> QED BY <2>1, <2>2, <1>6 DEF Awaited
<1>16. Received(E[0], frame)' BY <1>6, <1>11, <1>14 DEF Received
<1>17. LinkInv'
  <2>1. E \in [0..Len(in_data') -> Role] BY <1>12, <1>14
  <2> QED BY <2>1, <1>13, <1>15, <1>16 DEF LinkInv
<1> QED BY <1>9, <1>10, <1>17 DEF Post

\* The host puts a read on the link, behind all of its writes, and waits.
LEMMA ReadLinked ==
  ASSUME TsiInv, NEW a \in Addrs, NEW n \in 1..MaxLen, ReadChunk(a, n)
  PROVE  LinkInv' /\ in_data' \in Seq(Word)
<1> DEFINE r == [op |-> SAI_CMD_READ, addr |-> a, len |-> n, k |-> 1, n |-> 0]
<1>1. /\ rd = NoRead /\ rd' = [addr |-> a, len |-> n]
      /\ UNCHANGED <<result, out_data, frame, left, from, posted>>
  BY DEF ReadChunk, Calling, Busy, adapter
<1>2. rd' # NoRead /\ rd'.addr = a /\ rd'.len = n
  <2>1. rd' \in [addr : Addrs, len : 1..MaxLen] BY <1>1
  <2> QED BY <2>1, <1>1, TsiConstants
<1>3. in_data \in Seq(Word) /\ posted \in Seq([addr : Addrs, word : Data])
  BY DEF TsiInv, TypeOK
<1>4. PICK l \in Nat : l = Len(in_data) BY <1>3, LenProperties
<1>5. PICK m \in Nat : m = Len(posted) BY <1>3, LenProperties
<1>6. /\ r \in Role /\ Size(r) = 5 /\ r.op = SAI_CMD_READ /\ r.addr = a /\ r.len = n
      /\ 5 \in Nat /\ n \in Nat
  BY Constants DEF Role, Size
<1>7. in_data' = in_data \o <<r.op>> \o push_addr(r.addr) \o push_len(r.len - 1)
  BY <1>6 DEF ReadChunk
<1> HIDE DEF r
<1>8. /\ in_data' \in Seq(Word) /\ Len(in_data') = l + 5
      /\ \A i \in 1..l : in_data'[i] = in_data[i]
      /\ \A k \in 1..5 : in_data'[l + k] = Header(r)[k]
  <2> DEFINE h == WithRequest(in_data, r)
  <2>1. <<>> \in Seq(Data) BY EmptySeq
  <2>2. /\ h \in Seq(Word) /\ Len(h) = Len(in_data) + 5
        /\ \A i \in 1..Len(in_data) : h[i] = in_data[i]
        /\ \A k \in 1..5 : h[Len(in_data) + k] = Header(r)[k]
    BY <2>1, <1>3, <1>6, RequestWords
  <2>3. in_data' = h BY <1>7 DEF WithRequest
  <2> HIDE DEF h
  <2> QED BY <2>2, <2>3, <1>4
<1>9. PICK R \in [0..l -> Role] :
        Carries(R, in_data, posted) /\ Received(R[0], frame) /\ Awaited(R)
  BY <1>4 DEF TsiInv, LinkInv
<1> DEFINE E == Extend(R, l, r, m)
<1>10. Carries(E, in_data', posted')
  <2>0. PICK z \in Nat : z = 5 OBVIOUS
  <2>1. /\ Len(in_data) = l /\ Len(posted) = m /\ Size(r) = z /\ r \in Role
        /\ Carries(R, in_data, posted)
        /\ Len(in_data') = l + z /\ Len(posted') = m + (z - 5)
        /\ \A i \in 1..l : in_data'[i] = in_data[i]
        /\ \A k \in 1..5 : in_data'[l + k] = Header(r)[k]
        /\ \A i \in 1..m : posted'[i] = posted[i]
    BY <1>1, <1>4, <1>5, <1>6, <1>8, <1>9, <2>0
  <2>2. \A i \in 1..z - 5 :
          posted'[m + i] = [addr |-> Nth(r.addr, i), word |-> in_data'[l + (5 + i)]]
    BY <2>0
  <2> HIDE DEF E
  <2>3. /\ Begins(in_data', in_data, l) /\ Begins(posted', posted, m)
        /\ HasRequest(in_data', posted', r, l, m, z)
    BY <2>1, <2>2 DEF Begins, HasRequest
  <2>4. Carries(Extend(R, l, r, m), in_data', posted') BY <2>1, <2>3, Added
  <2> QED BY <2>4 DEF E
<1>11. /\ E \in [0..l + 5 -> Role] /\ \A i \in 0..l : E[i] = R[i]
       /\ \A i \in 0..l + 5 : i > l => E[i] = Tag(r, i - l, m)
  <2>1. E \in [0..l + 5 -> Role] BY <1>8, <1>10 DEF Carries
  <2>2. E = [i \in 0..l + 5 |-> IF i <= l THEN R[i] ELSE Tag(r, i - l, m)]
    BY <1>6 DEF Extend
  <2> HIDE DEF E
  <2>3. \A i \in 0..l : i \in 0..l + 5 /\ i <= l OBVIOUS
  <2>4. \A i \in 0..l + 5 : i > l => ~(i <= l) OBVIOUS
  <2> QED BY <2>1, <2>2, <2>3, <2>4
<1> HIDE DEF E
<1>12. Awaited(E)'
  <2>1. OneRead(E, in_data', rd')
    <3> SUFFICES ASSUME NEW i \in 0..l + 5, E[i].op = SAI_CMD_READ
                 PROVE  \/ i = 0 /\ E[i].k = 5
                        \/ E[i].k + (l + 5) = 5 + i
      BY <1>2, <1>8 DEF OneRead
    <3>1. CASE i > l
      <4>1. E[i].k = i - l BY <3>1, <1>11 DEF Tag
      <4> QED BY <4>1
    <3>2. CASE i <= l
      <4>1. i \in 0..l BY <3>2
      <4>2. R[i].op = SAI_CMD_READ /\ E[i] = R[i] BY <4>1, <1>11
      <4>3. OneRead(R, in_data, NoRead) BY <1>1, <1>9 DEF Awaited
      <4> QED BY <4>1, <4>2, <4>3, <1>4 DEF OneRead
    <3> QED BY <3>1, <3>2
  <2>2. result' = <<>> /\ out_data' = <<>> /\ left' = 0
    BY <1>1, <1>9 DEF Awaited
  <2>3. in_data' # <<>>
    <3>1. Len(in_data') # 0 BY <1>8
    <3> QED BY <3>1
  <2>4. /\ E[Len(in_data')].op = SAI_CMD_READ
        /\ E[Len(in_data')].addr = rd'.addr /\ E[Len(in_data')].len = rd'.len
    <3>1. l + 5 \in 0..l + 5 /\ l + 5 > l OBVIOUS
    <3>2. E[l + 5] = Tag(r, (l + 5) - l, m) BY <3>1, <1>11
    <3> QED BY <3>2, <1>2, <1>6, <1>8 DEF Tag
  <2> QED BY <2>1, <2>2, <2>3, <2>4, <1>2 DEF Awaited
<1>13. Received(E[0], frame)'
  <2>1. 0 \in 0..l OBVIOUS
  <2> QED BY <2>1, <1>1, <1>9, <1>11 DEF Received
<1>14. LinkInv'
  <2>1. E \in [0..Len(in_data') -> Role] BY <1>8, <1>11
  <2> QED BY <2>1, <1>10, <1>12, <1>13 DEF LinkInv
<1> QED BY <1>8, <1>14

\* The adapter takes a word from the link.  It finds in it what its role says;
\* so it starts to answer exactly when the host waits and nothing follows.
LEMMA WordTaken ==
  ASSUME TsiInv, TickIn
  PROVE  TypeOK' /\ LinkInv'
<1> DEFINE w == Head(in_data)
           f == Append(frame, w)
<1>1. /\ TypeOK /\ left = 0 /\ in_data # <<>> /\ in_data' = Tail(in_data) /\ Receive(w)
      /\ UNCHANGED <<cur, pc, linked, calls, rd, result, out_data>>
  BY DEF TickIn, hostvars, TsiInv
<1>2. in_data \in Seq(Word) /\ posted \in Seq([addr : Addrs, word : Data])
  BY <1>1 DEF TypeOK
<1>3. PICK l \in Nat : l = Len(in_data) BY <1>2, LenProperties
<1>4. PICK m \in Nat : m = Len(posted) BY <1>2, LenProperties
<1>5. PICK R \in [0..l -> Role] :
        Carries(R, in_data, posted) /\ Received(R[0], frame) /\ Awaited(R)
  BY <1>3 DEF TsiInv, LinkInv
<1> DEFINE r == R[1]
<1>6. /\ r \in Role /\ r.k \in 1..Size(r) /\ f \in Seq(Word) /\ Len(f) = r.k
      /\ \A i \in 1..5 : i <= Len(f) => f[i] = Header(r)[i]
      /\ f[1] = r.op
      /\ Len(f) >= 5 => FrameAddr(f) = r.addr /\ FrameLen(f) = r.len
      /\ r.n = Bump(r)
      /\ Len(f) > 5 => /\ r.op = SAI_CMD_WRITE /\ posted # <<>>
                       /\ Head(posted) = [addr |-> Nth(FrameAddr(f), Len(f) - 5), word |-> w]
  BY <1>1, <1>3, <1>5, Arrives
<1>7. /\ l >= 1 /\ in_data' \in Seq(Word) /\ Len(in_data') = l - 1
      /\ \A i \in 1..l - 1 : in_data'[i] = in_data[i + 1]
  <2>1. Len(in_data) > 0 BY <1>1, <1>2, EmptySeq, LenProperties
  <2> QED BY <2>1, <1>1, <1>2, <1>3, HeadTailProperties
<1>8. r.op \in {SAI_CMD_READ, SAI_CMD_WRITE} /\ Size(r) = (IF r.op = SAI_CMD_READ THEN 5 ELSE 5 + r.len)
      /\ r.len \in Nat /\ r.len >= 1 /\ r.addr \in Nat /\ r.k \in Nat
  <2> HIDE DEF r, f
  <2>1. /\ r.op \in {SAI_CMD_READ, SAI_CMD_WRITE} /\ r.len \in 1..MaxLen
        /\ r.addr \in Addrs /\ r.k \in Nat
    BY <1>6 DEF Role
  <2>2. Size(r) = (IF r.op = SAI_CMD_READ THEN 5 ELSE 5 + r.len) BY DEF Size
  <2>3. r.len \in Nat /\ r.len >= 1 /\ r.addr \in Nat
    <3>1. MaxLen \in Nat /\ Addrs \subseteq Nat BY Constants
    <3>2. \A x \in 1..MaxLen : x \in Nat /\ x >= 1 BY <3>1
    <3> QED BY <2>1, <3>1, <3>2
  <2> QED BY <2>1, <2>2, <2>3
<1> HIDE DEF f, w
<1>9. /\ Bump(r) \in {0, 1}
      /\ Bump(r) = 1 <=> r.k > 5
  BY <1>8 DEF Bump
<1>10. /\ r.k <= 5 => posted' = posted /\ mem' = mem
       /\ r.k > 5 => /\ posted' = Tail(posted) /\ posted # <<>>
                     /\ mem' = [mem EXCEPT ![Head(posted).addr] = Head(posted).word]
  <2>1. CASE r.k <= 5
    <3>1. ~(Len(f) > 5) BY <2>1, <1>6, <1>8
    <3> QED BY <2>1, <3>1, <1>1, <1>8 DEF Receive, f
  <2>2. CASE r.k > 5
    <3>1. Len(f) > 5 /\ ~(Len(f) < 5) /\ Len(f) # 5 BY <2>2, <1>6, <1>8
    <3>2. /\ posted' = Tail(posted)
          /\ mem' = [mem EXCEPT ![Nth(FrameAddr(f), Len(f) - 5)] = w]
      BY <3>1, <1>1 DEF Receive, f
    <3>3. /\ Head(posted).addr = Nth(FrameAddr(f), Len(f) - 5) /\ Head(posted).word = w
          /\ posted # <<>>
      BY <3>1, <1>6
    <3>4. ~(r.k <= 5) BY <2>2, <1>8
    <3> HIDE DEF r
    <3>5. mem' = [mem EXCEPT ![Head(posted).addr] = Head(posted).word] BY <3>2, <3>3
    <3> QED BY <3>2, <3>3, <3>4, <3>5
  <2>3. r.k <= 5 \/ r.k > 5 BY <1>8
  <2> QED BY <2>1, <2>2, <2>3
<1>11. /\ r.k = Size(r) => frame' = <<>>
       /\ r.k # Size(r) => frame' = f
  <2>1. CASE r.op = SAI_CMD_READ
    <3>1. f[1] # SAI_CMD_WRITE /\ Size(r) = 5 /\ ~(r.k > 5) /\ Len(f) = r.k
      BY <2>1, <1>6, <1>8, Constants
    <3> QED BY <3>1, <2>1, <1>1, <1>6 DEF Receive, f
  <2>2. CASE r.op = SAI_CMD_WRITE
    <3>1. f[1] # SAI_CMD_READ /\ Size(r) = 5 + r.len /\ Len(f) = r.k
      BY <2>2, <1>6, <1>8, Constants
    <3>2. CASE r.k <= 5
      <4>1. r.k # Size(r) /\ ~(r.k > 5) BY <3>1, <3>2, <1>8
      <4> QED BY <4>1, <3>1, <1>1 DEF Receive, f
    <3>3. CASE r.k > 5
      <4>1. frame' = IF Len(f) - 5 = FrameLen(f) THEN <<>> ELSE f
        BY <3>1, <3>3, <1>1, <1>8 DEF Receive, f
      <4>2. FrameLen(f) = r.len BY <3>1, <3>3, <1>6, <1>8
      <4>3. (r.k - 5 = r.len) <=> (r.k = Size(r)) BY <3>1, <1>8
      <4> QED BY <4>1, <4>2, <4>3, <3>1
    <3> QED BY <3>2, <3>3, <1>8
  <2> QED BY <2>1, <2>2, <1>8
<1>12. /\ r.op = SAI_CMD_READ /\ r.k = 5 => left' = r.len /\ from' = r.addr
       /\ ~(r.op = SAI_CMD_READ /\ r.k = 5) => left' = left /\ from' = from
  <2>1. CASE r.op = SAI_CMD_READ /\ r.k = 5
    <3>1. f[1] # SAI_CMD_WRITE /\ Len(f) = 5 /\ ~(Len(f) < 5) /\ ~(Len(f) > 5)
          /\ FrameAddr(f) = r.addr /\ FrameLen(f) = r.len
      BY <2>1, <1>6, Constants
    <3> QED BY <2>1, <3>1, <1>1 DEF Receive, f
  <2>2. CASE ~(r.op = SAI_CMD_READ /\ r.k = 5)
    <3>1. ~(f[1] = SAI_CMD_READ /\ Len(f) = 5) BY <2>2, <1>6
    <3> QED BY <2>2, <3>1, <1>1 DEF Receive, f
  <2> QED BY <2>1, <2>2
<1>13. TypeOK'
  <2>1. /\ posted' \in Seq([addr : Addrs, word : Data]) /\ mem' \in [Addrs -> Data]
    <3>1. posted # <<>> => /\ Head(posted) \in [addr : Addrs, word : Data]
                           /\ Tail(posted) \in Seq([addr : Addrs, word : Data])
      BY <1>2, HeadTailProperties
    <3>2. mem \in [Addrs -> Data] BY <1>1 DEF TypeOK
    <3>3. CASE r.k <= 5 BY <3>2, <3>3, <1>2, <1>10
    <3>4. CASE r.k > 5 BY <3>1, <3>2, <3>4, <1>2, <1>10
    <3> QED BY <3>3, <3>4, <1>8
  <2>2. frame' \in Seq(Word) BY <1>6, <1>11, EmptySeq
  <2>3. left' \in Nat /\ from' \in Nat BY <1>1, <1>8, <1>12 DEF TypeOK
  <2> QED BY <2>1, <2>2, <2>3, <1>1, <1>7 DEF TypeOK
<1> DEFINE E == Rest(R, l)
<1>14. Carries(E, in_data', posted')
  <2>1. PICK b \in {0, 1} : b = Bump(r)
    <3> HIDE DEF r
    <3> QED BY <1>9
  <2>2. /\ Len(posted') = m - b
        /\ b = 0 => posted' = posted
        /\ b = 1 => \A n \in 1..m - 1 : posted'[n] = posted[n + 1]
    <3>1. CASE b = 0 BY <3>1, <2>1, <1>4, <1>8, <1>9, <1>10
    <3>2. CASE b = 1
      <4>1. posted' = Tail(posted) /\ posted # <<>> BY <3>2, <2>1, <1>9, <1>10
      <4>2. /\ Len(Tail(posted)) = Len(posted) - 1
            /\ \A n \in 1..Len(Tail(posted)) : Tail(posted)[n] = posted[n + 1]
        BY <4>1, <1>2, HeadTailProperties
      <4> QED BY <3>2, <4>1, <4>2, <1>4
    <3> QED BY <3>1, <3>2
  <2>3. /\ l \in Nat \ {0} /\ Len(in_data) = l /\ Len(posted) = m
        /\ Carries(R, in_data, posted) /\ Bump(R[1]) = b
        /\ Len(in_data') = l - 1 /\ \A i \in 1..l - 1 : in_data'[i] = in_data[i + 1]
    BY <2>1, <1>3, <1>4, <1>5, <1>7
  <2> HIDE DEF E
  <2>4. /\ Moved(in_data', in_data, l - 1)
        /\ b = 1 => Moved(posted', posted, m - 1)
    BY <2>2, <2>3 DEF Moved
  <2>5. Carries(Rest(R, l), in_data', posted') BY <2>2, <2>3, <2>4, Taken
  <2> QED BY <2>5 DEF E
<1>15. /\ E \in [0..l - 1 -> Role]
       /\ \A i \in 0..l - 1 : /\ i + 1 \in 1..l /\ i + 1 \in 0..l
                              /\ E[i].op = R[i + 1].op /\ E[i].k = R[i + 1].k
                              /\ E[i].addr = R[i + 1].addr /\ E[i].len = R[i + 1].len
  <2>1. E \in [0..l - 1 -> Role] BY <1>7, <1>14 DEF Carries
  <2>2. ASSUME NEW i \in 0..l - 1
        PROVE  /\ i + 1 \in 1..l /\ i + 1 \in 0..l
               /\ E[i].op = R[i + 1].op /\ E[i].k = R[i + 1].k
               /\ E[i].addr = R[i + 1].addr /\ E[i].len = R[i + 1].len
    <3>1. i + 1 \in 0..l /\ i + 1 \in 1..l OBVIOUS
    <3>2. R[i + 1] \in Role BY <3>1
    <3>3. E[i] = [R[i + 1] EXCEPT !.n = @ - Bump(R[1])] BY DEF Rest
    <3> HIDE DEF E
    <3> QED BY <3>1, <3>2, <3>3 DEF Role
  <2> QED BY <2>1, <2>2
<1>16. Received(E[0], frame')
  <2>1. 0 \in 0..l - 1 /\ 0 + 1 = 1 BY <1>7
  <2>2. E[0].op = r.op /\ E[0].k = r.k /\ E[0].addr = r.addr /\ E[0].len = r.len
    BY <2>1, <1>15
  <2> HIDE DEF E, r
  <2>3. Size(E[0]) = Size(r) /\ Header(E[0]) = Header(r) BY <2>2 DEF Size, Header
  <2> QED BY <2>2, <2>3, <1>6, <1>11 DEF Received
<1> HIDE DEF E
<1>17. OneRead(R, in_data, rd) BY <1>5 DEF Awaited
<1>18. OneRead(E, in_data', rd')
  <2> SUFFICES ASSUME NEW i \in 0..l - 1, E[i].op = SAI_CMD_READ
               PROVE  rd # NoRead /\ E[i].k + (l - 1) = 5 + i
    BY <1>1, <1>7 DEF OneRead
  <2>1. i + 1 \in 0..l /\ i + 1 # 0 /\ R[i + 1].op = SAI_CMD_READ /\ R[i + 1].k = E[i].k
    BY <1>15
  <2>2. rd # NoRead /\ R[i + 1].k + l = 5 + (i + 1) BY <2>1, <1>3, <1>17 DEF OneRead
  <2>3. R[i + 1].k \in Nat BY <2>1 DEF Role
  <2> QED BY <2>1, <2>2, <2>3
<1>19. r.op = SAI_CMD_READ => rd # NoRead /\ r.k + l = 6
  <2>1. 1 \in 0..Len(in_data) /\ 1 # 0 BY <1>3, <1>7
  <2> QED BY <2>1, <1>3, <1>17 DEF OneRead
<1>20. Awaited(E)'
  <2>1. CASE rd = NoRead
    <3>1. result = <<>> /\ out_data = <<>> BY <2>1, <1>5 DEF Awaited
    <3>2. left' = 0 BY <2>1, <1>1, <1>12, <1>19
    <3> QED BY <2>1, <3>1, <3>2, <1>1, <1>18 DEF Awaited
  <2>2. CASE rd # NoRead
    <3>1. /\ result = <<>> /\ out_data = <<>>
          /\ R[l].op = SAI_CMD_READ /\ R[l].addr = rd.addr /\ R[l].len = rd.len
      BY <2>2, <1>1, <1>3, <1>5 DEF Awaited
    <3>2. CASE l = 1
      <4>1. left' = rd.len /\ from' = rd.addr /\ rd.len \in Nat /\ rd.addr \in Nat
        BY <3>1, <3>2, <1>8, <1>12, <1>19
      <4>2. Len(result) + Len(out_data) + left' = rd.len
        <5>1. Len(result) = 0 /\ Len(out_data) = 0 BY <3>1
        <5> QED BY <5>1, <4>1
      <4>3. from' = Nth(rd.addr, (rd.len - left') + 1) BY <4>1 DEF Nth
      <4>4. in_data' = <<>> BY <3>2, <1>7, EmptySeq
      <4> QED BY <4>2, <4>3, <4>4, <2>2, <1>1, <1>18 DEF Awaited
    <3>3. CASE l # 1
      <4>1. left' = 0 BY <3>3, <1>1, <1>12, <1>19
      <4>2. /\ E[l - 1].op = SAI_CMD_READ
            /\ E[l - 1].addr = rd.addr /\ E[l - 1].len = rd.len
        <5>1. l - 1 \in 0..l - 1 /\ (l - 1) + 1 = l BY <1>7
        <5> QED BY <5>1, <3>1, <1>15
      <4>3. in_data' # <<>>
        <5>1. Len(in_data') # 0 BY <3>3, <1>7
        <5> QED BY <5>1
      <4> QED BY <4>1, <4>2, <4>3, <3>1, <2>2, <1>1, <1>7, <1>18 DEF Awaited
    <3> QED BY <3>2, <3>3
  <2> QED BY <2>1, <2>2
<1>21. LinkInv'
  <2>1. E \in [0..Len(in_data') -> Role] BY <1>7, <1>15
  <2>2. Received(E[0], frame)' BY <1>16 DEF Received
  <2> QED BY <2>1, <2>2, <1>14, <1>20 DEF LinkInv
<1> QED BY <1>13, <1>21

\* The roles stay while the link does.
LEMMA LinkKept ==
  ASSUME TsiInv, UNCHANGED <<in_data, posted, frame>>,
         \A R \in [0..Len(in_data) -> Role] :
           Carries(R, in_data, posted) /\ Awaited(R) => Awaited(R)'
  PROVE  LinkInv'
<1>1. PICK R \in [0..Len(in_data) -> Role] :
        Carries(R, in_data, posted) /\ Received(R[0], frame) /\ Awaited(R)
  BY DEF TsiInv, LinkInv
<1>2. Awaited(R)' BY <1>1
<1>3. Carries(R, in_data', posted') /\ Received(R[0], frame)' /\ R \in [0..Len(in_data') -> Role]
  BY <1>1
<1> QED BY <1>2, <1>3 DEF LinkInv

\* What is known while an answer comes: nothing else is on the link.
LEMMA Answering ==
  ASSUME TsiInv, rd # NoRead, left > 0 \/ out_data # <<>> \/ Len(result) = rd.len
  PROVE  /\ in_data = <<>> /\ posted = <<>> /\ frame = <<>>
         /\ rd \in [addr : Addrs, len : 1..MaxLen]
         /\ rd.len \in Nat /\ rd.len >= 1 /\ rd.addr \in Nat
         /\ left \in Nat /\ from \in Nat /\ Len(result) \in Nat /\ Len(out_data) \in Nat
         /\ (Len(result) + Len(out_data)) + left = rd.len
         /\ left > 0 => from = Nth(rd.addr, (rd.len - left) + 1)
<1>1. TypeOK BY DEF TsiInv
<1>2. /\ in_data \in Seq(Word) /\ posted \in Seq([addr : Addrs, word : Data])
      /\ rd \in [addr : Addrs, len : 1..MaxLen]
      /\ left \in Nat /\ from \in Nat /\ result \in Seq(Data) /\ out_data \in Seq(Data)
  BY <1>1 DEF TypeOK
<1>3. rd.len \in Nat /\ rd.len >= 1 /\ rd.addr \in Nat
  <2>1. rd.len \in 1..MaxLen /\ rd.addr \in Addrs BY <1>2
  <2>2. MaxLen \in Nat /\ Addrs \subseteq Nat BY Constants
  <2>3. \A x \in 1..MaxLen : x \in Nat /\ x >= 1 BY <2>2
  <2> QED BY <2>1, <2>2, <2>3
<1>4. Len(result) \in Nat /\ Len(out_data) \in Nat BY <1>2, LenProperties
<1>5. PICK R \in [0..Len(in_data) -> Role] :
        Carries(R, in_data, posted) /\ Received(R[0], frame) /\ Awaited(R)
  BY DEF TsiInv, LinkInv
<1>6. in_data = <<>>
  <2> SUFFICES ASSUME in_data # <<>> PROVE FALSE  OBVIOUS
  <2>1. result = <<>> /\ out_data = <<>> /\ left = 0 BY <1>5 DEF Awaited
  <2>2. Len(result) = 0 BY <2>1
  <2> QED BY <2>1, <2>2, <1>3
<1>7. R[0].n = Len(posted) /\ R[0].n = 0 /\ R[0].k = Size(R[0])
  <2>1. Len(in_data) = 0 BY <1>6
  <2> QED BY <2>1, <1>5 DEF Carries
<1>8. posted = <<>>
  <2>1. Len(posted) = 0 BY <1>7
  <2> QED BY <2>1, <1>2, EmptySeq
<1>9. frame = <<>> BY <1>5, <1>7 DEF Received
<1>10. /\ (Len(result) + Len(out_data)) + left = rd.len
       /\ left > 0 => from = Nth(rd.addr, (rd.len - left) + 1)
  BY <1>5, <1>6 DEF Awaited
<1> QED BY <1>2, <1>3, <1>4, <1>6, <1>8, <1>9, <1>10

LEMMA AnswerSent ==
  ASSUME TsiInv, TickOut
  PROVE  /\ TypeOK' /\ LinkInv'
         /\ rd # NoRead /\ posted = <<>> /\ UNCHANGED <<rd, posted, mem, result>>
         /\ from = Nth(rd.addr, (Len(result) + Len(out_data)) + 1) /\ from \in Addrs
         /\ Len(result) + Len(out_data) < rd.len
         /\ out_data' = Append(out_data, mem[from])
<1>1. TypeOK /\ InMemory BY DEF TsiInv
<1>2. /\ left > 0 /\ left' = left - 1 /\ from' = from + 4
      /\ out_data' = Append(out_data, IF from \in Addrs THEN mem[from] ELSE 0)
      /\ UNCHANGED <<cur, pc, linked, calls, rd, result, in_data, mem, frame, posted>>
  BY DEF TickOut, hostvars
<1>3. rd # NoRead
  <2>1. PICK R \in [0..Len(in_data) -> Role] : Awaited(R) BY DEF TsiInv, LinkInv
  <2>2. rd = NoRead => left = 0 BY <2>1 DEF Awaited
  <2> QED BY <2>2, <1>2
<1>4. /\ in_data = <<>> /\ posted = <<>>
      /\ rd.len \in Nat /\ rd.len >= 1 /\ rd.addr \in Nat
      /\ left \in Nat /\ from \in Nat /\ Len(result) \in Nat /\ Len(out_data) \in Nat
      /\ (Len(result) + Len(out_data)) + left = rd.len
      /\ from = Nth(rd.addr, (rd.len - left) + 1)
  BY <1>2, <1>3, Answering
<1>5. /\ (rd.len - left) + 1 = (Len(result) + Len(out_data)) + 1
      /\ Len(result) + Len(out_data) < rd.len
      /\ (rd.len - left) + 1 \in 1..rd.len
  BY <1>2, <1>4
<1>6. from \in Addrs BY <1>1, <1>3, <1>4, <1>5 DEF InMemory
<1>7. mem[from] \in Data /\ out_data \in Seq(Data) BY <1>1, <1>6 DEF TypeOK
<1>8. out_data' = Append(out_data, mem[from]) BY <1>2, <1>6
<1>9. out_data' \in Seq(Data) /\ Len(out_data') = Len(out_data) + 1
  BY <1>7, <1>8, AppendProperties
<1>10. TypeOK'
  <2>1. left' \in Nat /\ from' \in Nat BY <1>2, <1>4
  <2> QED BY <2>1, <1>1, <1>2, <1>9 DEF TypeOK
<1>11. LinkInv'
  <2> SUFFICES ASSUME NEW R \in [0..Len(in_data) -> Role],
                      Carries(R, in_data, posted), Awaited(R)
               PROVE  Awaited(R)'
    BY <1>2, LinkKept
  <2>1. OneRead(R, in_data', rd') BY <1>2 DEF Awaited
  <2>2. (Len(result') + Len(out_data')) + left' = rd'.len BY <1>2, <1>4, <1>9
  <2>3. from' = Nth(rd'.addr, (rd'.len - left') + 1)
    <3>1. PICK a \in Nat, n \in Nat, k \in Nat : a = rd.addr /\ n = rd.len /\ k = left
      BY <1>4
    <3>2. Nth(a, (n - k) + 1) + 4 = Nth(a, (n - (k - 1)) + 1)
      BY DEF Nth
    <3>3. Nth(rd.addr, (rd.len - left) + 1) + 4 = Nth(rd.addr, (rd.len - (left - 1)) + 1)
      BY <3>1, <3>2
    <3> QED BY <3>3, <1>2, <1>4
  <2> QED BY <2>1, <2>2, <2>3, <1>2, <1>3, <1>4 DEF Awaited
<1> QED BY <1>2, <1>3, <1>4, <1>5, <1>6, <1>8, <1>10, <1>11

\* The host takes a word of its answer.
LEMMA AnswerTaken ==
  ASSUME TsiInv, TakeWord
  PROVE  TypeOK' /\ LinkInv'
<1>1. TypeOK BY DEF TsiInv
<1>2. /\ rd # NoRead /\ out_data # <<>>
      /\ result' = Append(result, Head(out_data)) /\ out_data' = Tail(out_data)
      /\ UNCHANGED <<cur, pc, linked, calls, rd, in_data, mem, frame, left, from, posted>>
  BY DEF TakeWord, adapter
<1>3. result \in Seq(Data) /\ out_data \in Seq(Data) BY <1>1 DEF TypeOK
<1>4. Head(out_data) \in Data /\ Tail(out_data) \in Seq(Data)
      /\ Len(Tail(out_data)) = Len(out_data) - 1
  BY <1>2, <1>3, HeadTailProperties
<1>5. result' \in Seq(Data) /\ Len(result') = Len(result) + 1
  BY <1>2, <1>3, <1>4, AppendProperties
<1>6. TypeOK' BY <1>1, <1>2, <1>4, <1>5 DEF TypeOK
<1>7. /\ in_data = <<>>
      /\ left \in Nat /\ Len(result) \in Nat /\ Len(out_data) \in Nat
      /\ (Len(result) + Len(out_data)) + left = rd.len
      /\ left > 0 => from = Nth(rd.addr, (rd.len - left) + 1)
  BY <1>2, Answering
<1>8. LinkInv'
  <2> SUFFICES ASSUME NEW R \in [0..Len(in_data) -> Role],
                      Carries(R, in_data, posted), Awaited(R)
               PROVE  Awaited(R)'
    BY <1>2, LinkKept
  <2>1. OneRead(R, in_data', rd') BY <1>2 DEF Awaited
  <2>2. (Len(result') + Len(out_data')) + left' = rd'.len
    <3>1. Len(out_data') = Len(out_data) - 1 BY <1>2, <1>4
    <3> QED BY <3>1, <1>2, <1>5, <1>7
  <2> QED BY <2>1, <2>2, <1>2, <1>7 DEF Awaited
<1> QED BY <1>6, <1>8

LEMMA ReadReturned ==
  ASSUME TsiInv, ReturnRead
  PROVE  TypeOK' /\ LinkInv' /\ out_data = <<>> /\ out_data' = <<>> /\ posted = <<>>
<1>1. TypeOK BY DEF TsiInv
<1>2. /\ rd # NoRead /\ Len(result) = rd.len /\ rd' = NoRead /\ result' = <<>>
      /\ UNCHANGED <<cur, pc, linked, calls, in_data, out_data, mem, frame, left, from, posted>>
  BY DEF ReturnRead, adapter
<1>3. TypeOK' BY <1>1, <1>2, EmptySeq DEF TypeOK
<1>4. /\ in_data = <<>> /\ posted = <<>> /\ left \in Nat
      /\ Len(result) \in Nat /\ Len(out_data) \in Nat
      /\ (Len(result) + Len(out_data)) + left = rd.len
  BY <1>2, Answering
<1>5. left = 0 /\ Len(out_data) = 0 BY <1>2, <1>4
<1>6. out_data = <<>> BY <1>1, <1>5, EmptySeq DEF TypeOK
<1>7. LinkInv'
  <2> SUFFICES ASSUME NEW R \in [0..Len(in_data) -> Role],
                      Carries(R, in_data, posted), Awaited(R)
               PROVE  Awaited(R)'
    BY <1>2, LinkKept
  <2>1. R[0].k = Size(R[0]) /\ Len(in_data) = 0
    <3>1. Len(in_data) = 0 BY <1>4
    <3> QED BY <3>1 DEF Carries
  <2>2. \A i \in 0..0 : R[i].op = SAI_CMD_READ => i = 0 /\ R[i].k = 5
    BY <2>1 DEF Size
  <2>3. OneRead(R, in_data', rd') BY <2>1, <2>2, <1>2 DEF OneRead
  <2> QED BY <2>3, <1>2, <1>5, <1>6 DEF Awaited
<1> QED BY <1>2, <1>3, <1>4, <1>6, <1>7

LEMMA TsiStep == TsiInv /\ [Next]_vars => TsiInv'
<1> SUFFICES ASSUME TsiInv, [Next]_vars PROVE TsiInv'  OBVIOUS
<1>1. TypeOK /\ InMemory BY DEF TsiInv
\* Neither the link nor what the host waits for changes.
<1>2. ASSUME UNCHANGED <<in_data, posted, frame, rd, result, out_data, left, from>>
      PROVE  LinkInv' /\ InMemory'
  <2>1. \A R \in [0..Len(in_data) -> Role] : Awaited(R) => Awaited(R)'
    BY <1>2 DEF Awaited
  <2>2. LinkInv' BY <2>1, <1>2, LinkKept
  <2> QED BY <2>2, <1>1, <1>2 DEF InMemory
<1>3. ASSUME NEW c \in Chunks, ReadChunk(c[1], c[2]) PROVE TsiInv'
  <2>1. /\ c[1] \in Addrs /\ c[2] \in 1..MaxLen
        /\ \A n \in 1..c[2] : Nth(c[1], n) \in Addrs
    BY DEF Chunks
  <2>2. PICK a \in Addrs, n \in 1..MaxLen : a = c[1] /\ n = c[2] BY <2>1
  <2>3. LinkInv' /\ in_data' \in Seq(Word) BY <2>2, <1>3, ReadLinked
  <2>4. /\ rd' = [addr |-> a, len |-> n] /\ calls' = calls + 1 /\ calls < MaxCalls
        /\ UNCHANGED <<cur, pc, linked, result, out_data, mem, frame, left, from, posted>>
    BY <2>2, <1>3 DEF ReadChunk, Calling, adapter
  <2>5. calls' \in 0..MaxCalls BY <2>4, <1>1, TsiConstants DEF TypeOK
  <2>6. TypeOK' BY <2>3, <2>4, <2>5, <1>1 DEF TypeOK
  <2>7. InMemory' BY <2>1, <2>2, <2>4 DEF InMemory
  <2> QED BY <2>3, <2>6, <2>7 DEF TsiInv
<1>4. ASSUME NEW c \in Chunks, NEW words \in [1..c[2] -> Data], WriteChunk(c[1], words)
      PROVE  TsiInv'
  <2>1. /\ c[1] \in Addrs /\ c[2] \in 1..MaxLen
        /\ \A n \in 1..c[2] : Nth(c[1], n) \in Addrs
    BY DEF Chunks
  <2>2. PICK a \in Addrs, n \in 1..MaxLen : a = c[1] /\ n = c[2] BY <2>1
  <2>3. /\ rd = NoRead /\ write_chunk(a, words) /\ calls' = calls + 1 /\ calls < MaxCalls
        /\ UNCHANGED <<cur, pc>>
    BY <2>2, <1>4 DEF WriteChunk, Calling, Busy
  <2>4. words \in [1..n -> Data] /\ \A i \in 1..n : Nth(a, i) \in Addrs BY <2>1, <2>2
  <2>5. LinkInv' /\ in_data' \in Seq(Word) /\ posted' \in Seq([addr : Addrs, word : Data])
    BY <2>3, <2>4, WriteLinked
  <2>6. UNCHANGED <<linked, rd, result, out_data, mem, frame, left, from>>
    BY <2>3 DEF write_chunk
  <2>7. calls' \in 0..MaxCalls BY <2>3, <1>1, TsiConstants DEF TypeOK
  <2>8. TypeOK' BY <2>3, <2>5, <2>6, <2>7, <1>1 DEF TypeOK
  <2> QED BY <2>5, <2>6, <2>8, <1>1 DEF TsiInv, InMemory
<1>5. CASE AwaitWord
  <2>1. TypeOK' BY <1>1, <1>5 DEF AwaitWord, TypeOK, hostvars, adapter
  <2> QED BY <2>1, <1>2, <1>5 DEF AwaitWord, hostvars, adapter, TsiInv
<1>6. CASE TakeWord
  BY <1>1, <1>6, AnswerTaken DEF TakeWord, TsiInv, InMemory
<1>7. CASE ReturnRead
  BY <1>1, <1>7, ReadReturned DEF ReturnRead, TsiInv, InMemory
<1>8. CASE Reset
  <2> DEFINE words == <<1>>
  <2>1. rd = NoRead /\ write_chunk(MsipBase, words) /\ UNCHANGED <<cur, calls>>
    BY <1>8 DEF Reset, Busy
  <2>2. 1 \in 1..MaxLen /\ MsipBase \in Addrs /\ words \in [1..1 -> Data]
        /\ \A i \in 1..1 : Nth(MsipBase, i) \in Addrs
    BY Constants DEF Nth
  <2> HIDE DEF words
  <2>3. LinkInv' /\ in_data' \in Seq(Word) /\ posted' \in Seq([addr : Addrs, word : Data])
    BY <2>1, <2>2, WriteLinked
  <2>4. UNCHANGED <<linked, rd, result, out_data, mem, frame, left, from>>
    BY <2>1 DEF write_chunk
  <2>5. pc' \in {"load", "run", "spin", "ended"} BY <1>8 DEF Reset
  <2>6. TypeOK' BY <2>1, <2>3, <2>4, <2>5, <1>1 DEF TypeOK
  <2> QED BY <2>3, <2>4, <2>6, <1>1 DEF TsiInv, InMemory
<1>9. CASE RunReturns
  <2>1. TypeOK' BY <1>1, <1>9 DEF RunReturns, TypeOK, adapter
  <2> QED BY <2>1, <1>2, <1>9 DEF RunReturns, adapter, TsiInv
<1>10. CASE HostThreadYields
  <2>1. TypeOK' BY <1>1, <1>10 DEF HostThreadYields, TypeOK, hostvars, adapter
  <2> QED BY <2>1, <1>2, <1>10 DEF HostThreadYields, hostvars, adapter, TsiInv
<1>11. CASE TickOut
  BY <1>1, <1>11, AnswerSent DEF TsiInv, InMemory
<1>12. CASE TickIn
  BY <1>1, <1>12, WordTaken DEF TickIn, hostvars, TsiInv, InMemory
<1>13. CASE SwitchToHost
  <2>1. TypeOK' BY <1>1, <1>13 DEF SwitchToHost, TypeOK, hostvars, adapter
  <2> QED BY <2>1, <1>2, <1>13 DEF SwitchToHost, hostvars, adapter, TsiInv
<1>14. ASSUME NEW a \in Addrs, NEW w \in Data, CoreWrites(a, w) PROVE TsiInv'
  <2>1. TypeOK' BY <1>1, <1>14 DEF CoreWrites, TypeOK, hostvars
  <2> QED BY <2>1, <1>2, <1>14 DEF CoreWrites, hostvars, TsiInv
<1>15. CASE UNCHANGED vars
  <2>1. TypeOK' BY <1>1, <1>15 DEF vars, TypeOK, hostvars, adapter
  <2> QED BY <2>1, <1>2, <1>15 DEF vars, hostvars, adapter, TsiInv
<1> QED
  BY <1>3, <1>4, <1>5, <1>6, <1>7, <1>8, <1>9, <1>10, <1>11, <1>12, <1>13, <1>14, <1>15
  DEF Next, Host, Tick

LEMMA TsiInvariance == Spec => []TsiInv
<1> QED BY TsiInit, TsiStep, PTL DEF Spec

-----------------------------------------------------------------------------
(* Results.                                                                *)

\* Every variable keeps its type; what goes over the link fits its words.
THEOREM TypeCorrect == Spec => []TypeOK
<1>1. TsiInv => TypeOK BY DEF TsiInv
<1> QED BY <1>1, TsiInvariance, PTL

LEMMA NoneStale == TsiInv => NoStaleWord
<1> SUFFICES ASSUME TsiInv PROVE NoStaleWord  OBVIOUS
<1>1. PICK R \in [0..Len(in_data) -> Role] :
        Carries(R, in_data, posted) /\ Received(R[0], frame) /\ Awaited(R)
  BY DEF TsiInv, LinkInv
<1>2. rd = NoRead => out_data = <<>> /\ left = 0 BY <1>1 DEF Awaited
<1>3. CASE rd # NoRead /\ in_data = <<>>
  <2>1. Len(in_data) = 0 BY <1>3
  <2>2. frame = <<>> BY <2>1, <1>1 DEF Carries, Received
  <2>3. (Len(result) + Len(out_data)) + left = rd.len BY <1>1, <1>3 DEF Awaited
  <2> QED BY <2>2, <2>3, <1>3 DEF NoStaleWord
<1>4. CASE rd # NoRead /\ in_data # <<>>
  <2>1. result = <<>> /\ out_data = <<>> /\ left = 0 BY <1>1, <1>4 DEF Awaited
  <2>2. (Len(result) + Len(out_data)) + left = 0
    <3>1. Len(result) = 0 /\ Len(out_data) = 0 BY <2>1
    <3> QED BY <3>1, <2>1
  <2> QED BY <2>2, <1>4 DEF NoStaleWord
<1> QED BY <1>2, <1>3, <1>4 DEF NoStaleWord

\* The words carry no tag, and still no word of one read is ever taken for a word
\* of another: between reads none is on its way, during one exactly those it asks for.
THEOREM NoStaleWordTheorem == Spec => []NoStaleWord
BY TsiInvariance, NoneStale, PTL

LEMMA RemoteInit == Init => Remote!Init
<1> SUFFICES ASSUME Init PROVE Remote!Init  OBVIOUS
<1>1. mem \in [Addrs -> Data] BY Constants DEF Init
<1>2. result \o out_data = <<>>
  <2>1. <<>> \in Seq(Data) BY EmptySeq
  <2> QED BY <2>1, ConcatEmptySeq DEF Init
<1> QED BY <1>1, <1>2 DEF Init, Remote!Init

\* A write chunk is posted at once, by write_chunk.
LEMMA WritePosts ==
  ASSUME rd = NoRead, NEW a \in Addrs, NEW n \in 1..MaxLen, NEW words \in [1..n -> Data],
         write_chunk(a, words)
  PROVE  Remote!Next
<1>1. \A k \in Int : Remote!Nth(a, k) = Nth(a, k) BY DEF Nth, Remote!Nth
<1>2. Len(words) \in Nat
  <2>1. n \in Nat BY Constants
  <2> QED BY <2>1
<1>3. [k \in 1..Len(words) |-> [addr |-> Nth(a, k), word |-> words[k]]]
        = [k \in 1..Len(words) |-> [addr |-> Remote!Nth(a, k), word |-> words[k]]]
  BY <1>1, <1>2
<1>4. Remote!Post(a, words)
  BY <1>3 DEF write_chunk, Remote!Post
<1> QED BY <1>4 DEF Remote!Next

LEMMA RemoteStep == TsiInv /\ [Next]_vars => [Remote!Next]_Remote!rmvars
<1> SUFFICES ASSUME TsiInv, [Next]_vars PROVE [Remote!Next]_Remote!rmvars  OBVIOUS
<1>1. TypeOK BY DEF TsiInv
<1>2. result \in Seq(Data) /\ out_data \in Seq(Data) BY <1>1 DEF TypeOK
\* The memory sees neither who runs nor the words under way.
<1>3. ASSUME UNCHANGED <<mem, posted, rd, result, out_data>> PROVE UNCHANGED Remote!rmvars
  BY <1>3 DEF Remote!rmvars
<1>4. ASSUME NEW c \in Chunks, ReadChunk(c[1], c[2]) PROVE Remote!Next
  <2>1. PICK a \in Addrs, n \in 1..MaxLen : a = c[1] /\ n = c[2] BY DEF Chunks
  <2>2. Remote!Request(a, n)
    BY <2>1, <1>4 DEF ReadChunk, Calling, Busy, adapter, Remote!Request
  <2> QED BY <2>2 DEF Remote!Next
<1>5. ASSUME NEW c \in Chunks, NEW words \in [1..c[2] -> Data], WriteChunk(c[1], words)
      PROVE  Remote!Next
  <2>1. PICK a \in Addrs, n \in 1..MaxLen : a = c[1] /\ n = c[2] BY DEF Chunks
  <2>2. rd = NoRead /\ write_chunk(a, words) /\ words \in [1..n -> Data]
    BY <2>1, <1>5 DEF WriteChunk, Calling, Busy
  <2> QED BY <2>2, WritePosts
<1>6. CASE AwaitWord BY <1>3, <1>6 DEF AwaitWord, hostvars, adapter
<1>7. CASE TakeWord
  <2>1. /\ out_data # <<>> /\ result' = Append(result, Head(out_data))
        /\ out_data' = Tail(out_data) /\ UNCHANGED <<mem, posted, rd>>
    BY <1>7 DEF TakeWord, adapter
  <2>2. result' \o out_data' = result \o out_data BY <2>1, <1>2, MoveHead
  <2> QED BY <2>1, <2>2 DEF Remote!rmvars
<1>8. CASE ReturnRead
  <2>1. out_data = <<>> /\ out_data' = <<>> BY <1>8, ReadReturned
  <2>2. /\ rd # NoRead /\ Len(result) = rd.len /\ rd' = NoRead /\ result' = <<>>
        /\ UNCHANGED <<mem, posted>>
    BY <1>8 DEF ReturnRead, adapter
  <2>3. result \o out_data = result /\ result' \o out_data' = <<>>
    <3>1. <<>> \in Seq(Data) BY EmptySeq
    <3> QED BY <2>1, <2>2, <3>1, <1>2, ConcatEmptySeq
  <2>4. Remote!Return BY <2>2, <2>3 DEF Remote!Return
  <2> QED BY <2>4 DEF Remote!Next
<1>9. CASE Reset
  <2> DEFINE words == <<1>>
  <2>1. rd = NoRead /\ write_chunk(MsipBase, words) BY <1>9 DEF Reset, Busy
  <2>2. 1 \in 1..MaxLen /\ MsipBase \in Addrs /\ words \in [1..1 -> Data] BY Constants
  <2> HIDE DEF words
  <2> QED BY <2>1, <2>2, WritePosts
<1>10. CASE RunReturns BY <1>3, <1>10 DEF RunReturns, adapter
<1>11. CASE HostThreadYields BY <1>3, <1>11 DEF HostThreadYields, hostvars, adapter
<1>12. CASE TickOut
  <2>1. /\ rd # NoRead /\ posted = <<>> /\ UNCHANGED <<rd, posted, mem, result>>
        /\ from = Nth(rd.addr, (Len(result) + Len(out_data)) + 1) /\ from \in Addrs
        /\ Len(result) + Len(out_data) < rd.len
        /\ out_data' = Append(out_data, mem[from])
    BY <1>12, AnswerSent
  <2>2. Len(result \o out_data) = Len(result) + Len(out_data) BY <1>2, ConcatProperties
  <2>3. mem[from] \in Data BY <2>1, <1>1 DEF TypeOK
  <2>4. result' \o out_data' = Append(result \o out_data, mem[from])
    BY <2>1, <2>3, <1>2, AppendToConcat
  <2>5. from = Remote!Nth(rd.addr, Len(result \o out_data) + 1)
    BY <2>1, <2>2 DEF Nth, Remote!Nth
  <2>6. Remote!Sample BY <2>1, <2>2, <2>4, <2>5 DEF Remote!Sample
  <2> QED BY <2>6 DEF Remote!Next
<1>13. CASE TickIn
  <2> DEFINE f == Append(frame, Head(in_data))
  <2>1. /\ in_data # <<>> /\ Receive(Head(in_data)) /\ UNCHANGED <<rd, result, out_data>>
    BY <1>13 DEF TickIn, hostvars
  <2>2. PICK R \in [0..Len(in_data) -> Role] :
          Carries(R, in_data, posted) /\ Received(R[0], frame)
    BY DEF TsiInv, LinkInv
  <2>3. Len(f) > 5 => /\ posted # <<>>
                      /\ Head(posted) = [addr |-> Nth(FrameAddr(f), Len(f) - 5),
                                         word |-> Head(in_data)]
    BY <2>1, <2>2, <1>1, Arrives
  <2>4. \/ UNCHANGED <<mem, posted>>
        \/ /\ Len(f) > 5 /\ posted' = Tail(posted)
           /\ mem' = [mem EXCEPT ![Nth(FrameAddr(f), Len(f) - 5)] = Head(in_data)]
    BY <2>1 DEF Receive
  <2> HIDE DEF f
  <2>5. CASE UNCHANGED <<mem, posted>> BY <2>1, <2>5, <1>3
  <2>6. CASE /\ Len(f) > 5 /\ posted' = Tail(posted)
             /\ mem' = [mem EXCEPT ![Nth(FrameAddr(f), Len(f) - 5)] = Head(in_data)]
    <3>1. posted # <<>> /\ Head(posted).addr = Nth(FrameAddr(f), Len(f) - 5)
          /\ Head(posted).word = Head(in_data)
      BY <2>3, <2>6
    <3>2. mem' = [mem EXCEPT ![Head(posted).addr] = Head(posted).word] BY <3>1, <2>6
    <3>3. UNCHANGED <<rd, result \o out_data>> BY <2>1
    <3>4. Remote!Apply BY <3>1, <3>2, <3>3, <2>6 DEF Remote!Apply
    <3> QED BY <3>4 DEF Remote!Next
  <2> QED BY <2>4, <2>5, <2>6
<1>14. CASE SwitchToHost BY <1>3, <1>14 DEF SwitchToHost, hostvars, adapter
<1>15. ASSUME NEW a \in Addrs, NEW w \in Data, CoreWrites(a, w) PROVE Remote!Next
  <2>1. Remote!CoreWrites(a, w) BY <1>15 DEF CoreWrites, hostvars, Remote!CoreWrites
  <2> QED BY <2>1 DEF Remote!Next
<1>16. CASE UNCHANGED vars BY <1>3, <1>16 DEF vars, hostvars, adapter
<1> QED
  BY <1>4, <1>5, <1>6, <1>7, <1>8, <1>9, <1>10, <1>11, <1>12, <1>13, <1>14, <1>15, <1>16
  DEF Next, Host, Tick

\* Behind the link the host sees a memory: posted writes arrive once each, in order
\* and at the right places, and a read sees all of the host's earlier writes.
THEOREM ImplementsRemoteMemoryTheorem == Spec => ImplementsRemoteMemory
<1> QED
  BY TsiInvariance, RemoteInit, RemoteStep, PTL DEF Spec, ImplementsRemoteMemory, Remote!Spec

===============================================================================
