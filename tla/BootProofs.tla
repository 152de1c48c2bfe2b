------------------------------- MODULE BootProofs ------------------------------
(***************************************************************************)
(* For any command line, any program and any memory: the target gets the   *)
(* arguments that the usage text promises it, and the program arrives in   *)
(* memory, or in the lines of elf2hex, as it is.                           *)
(***************************************************************************)
EXTENDS Boot, WellFoundedInduction, FiniteSetTheorems, TLAPS

\* The least-number principle, from the theorems of the library on well-founded relations.
LEMMA Least ==
  ASSUME NEW T, T \subseteq Nat, T # {}
  PROVE  \E x \in T : \A y \in T : x <= y
<1> DEFINE R == OpToRel(<, Nat)
<1>1. IsWellFoundedOn(R, Nat)  BY NatLessThanWellFounded
<1>2. \E x \in T : \A y \in T : ~(<<y, x>> \in R)
  <2> HIDE DEF R
  <2> QED  BY <1>1, WFMin
<1>3. \A x, y \in Nat : y < x => <<y, x>> \in R  BY DEF OpToRel
<1> HIDE DEF R
<1> QED
  <2>1. PICK x \in T : \A y \in T : ~(<<y, x>> \in R)  BY <1>2
  <2>2. ASSUME NEW y \in T PROVE x <= y
    <3>1. x \in Nat /\ y \in Nat /\ ~(y < x)  BY <2>1, <1>3
    <3> QED  BY <3>1
  <2> QED  BY <2>2

\* A function on 0..n given by its first value and by a step exists.
Follows(f, first, step, n) ==
  f[0] = first /\ \A i \in 1..n : f[i] = step[i][f[i - 1]]

LEMMA Recursion ==
  ASSUME NEW V, NEW first \in V, NEW n \in Nat, NEW step \in [1..n -> [V -> V]]
  PROVE  \E f \in [0..n -> V] : Follows(f, first, step, n)
<1> DEFINE Bad == {m \in 0..n : \A f \in [0..m -> V] : ~Follows(f, first, step, m)}
<1> SUFFICES ASSUME Bad # {} PROVE FALSE
  <2>1. n \in 0..n  OBVIOUS
  <2> QED  BY <2>1
<1>1. PICK m \in Bad : \A k \in Bad : m <= k
  <2>1. Bad \subseteq Nat  OBVIOUS
  <2> HIDE DEF Bad
  <2> QED  BY <2>1, Least
<1>2. CASE m = 0
  <2>1. Follows([i \in 0..0 |-> first], first, step, 0)  BY DEF Follows
  <2>2. [i \in 0..0 |-> first] \in [0..0 -> V]  OBVIOUS
  <2> QED  BY <1>2, <2>1, <2>2
<1>3. CASE m # 0
  <2>1. m \in 1..n /\ m - 1 \in 0..n /\ m - 1 \in Nat /\ ~(m <= m - 1)  BY <1>3
  <2>2. m - 1 \notin Bad  BY <1>1, <2>1
  <2>3. PICK f \in [0..m - 1 -> V] : Follows(f, first, step, m - 1)  BY <2>1, <2>2
  <2>4. m - 1 \in 0..m - 1 /\ f[m - 1] \in V  BY <2>1
  <2>5. step[m][f[m - 1]] \in V  BY <2>1, <2>4
  <2> DEFINE h == [i \in 0..m |-> IF i = m THEN step[m][f[m - 1]] ELSE f[i]]
  <2>6. h \in [0..m -> V]
    <3>1. \A i \in 0..m : i # m => i \in 0..m - 1  BY <2>1
    <3> QED  BY <2>5, <3>1
  <2>7. h[0] = first  BY <2>1, <2>3 DEF Follows
  <2>8. ASSUME NEW i \in 1..m PROVE h[i] = step[i][h[i - 1]]
    <3>1. i \in 0..m /\ i - 1 \in 0..m /\ i - 1 # m /\ h[i - 1] = f[i - 1]  BY <2>1
    <3>2. CASE i = m  BY <3>1, <3>2
    <3>3. CASE i # m
      <4>1. i \in 1..m - 1  BY <2>1, <3>3
      <4>2. f[i] = step[i][f[i - 1]]  BY <2>3, <4>1 DEF Follows
      <4> QED  BY <3>1, <3>3, <4>2
    <3> QED  BY <3>2, <3>3
  <2>9. Follows(h, first, step, m)
    <3> HIDE DEF h
    <3> QED  BY <2>7, <2>8 DEF Follows
  <2> HIDE DEF h
  <2> QED  BY <2>6, <2>9
<1> QED  BY <1>2, <1>3

-------------------------------------------------------------------------------
(* The command line.                                                         *)

\* A command line is a sequence.
ArgvOK == argv \in Seq({argv[i] : i \in DOMAIN argv})

\* Which arguments are values, as equations.
LEMMA ValuePlaces ==
  ASSUME ArgvOK
  PROVE  /\ \A i \in 0..Len(argv) : IsValue[i] \in BOOLEAN
         /\ \A i \in 0..Len(argv) :
              IsValue[i] <=> /\ i > 1 /\ argv[i - 1].kind = "long" /\ TakesNext(argv[i - 1])
                             /\ ~IsValue[i - 1]
<1> DEFINE n == Len(argv)
           Takes(i) == i > 1 /\ argv[i - 1].kind = "long" /\ TakesNext(argv[i - 1])
           step == [i \in 1..n |-> [before \in BOOLEAN |-> Takes(i) /\ ~before]]
           Body(f) == [i \in 0..n |-> /\ i > 1 /\ argv[i - 1].kind = "long"
                                      /\ TakesNext(argv[i - 1])
                                      /\ ~f[i - 1]]
<1>1. IsValue = CHOOSE f : f = Body(f)  BY DEF IsValue
<1>2. n \in Nat  BY DEF ArgvOK
<1>3. step \in [1..n -> [BOOLEAN -> BOOLEAN]]  OBVIOUS
<1>4. \E f : f = Body(f)
  <2>1. PICK f \in [0..n -> BOOLEAN] : Follows(f, FALSE, step, n)
    <3> HIDE DEF step, n
    <3> QED  BY <1>2, <1>3, Recursion
  <2>2. \A i \in 1..n, before \in BOOLEAN : step[i][before] <=> Takes(i) /\ ~before
    OBVIOUS
  <2>3. \A i \in 0..n : Takes(i) => i \in 1..n  BY <1>2
  <2> HIDE DEF step
  <2>4. ASSUME NEW i \in 1..n PROVE f[i] <=> Takes(i) /\ ~f[i - 1]
    <3>1. i - 1 \in 0..n  BY <1>2
    <3>2. f[i - 1] \in BOOLEAN /\ f[i] = step[i][f[i - 1]]  BY <2>1, <3>1 DEF Follows
    <3> HIDE DEF Takes
    <3> QED  BY <2>2, <3>2, Zenon
  <2>5. \A i \in 0..n : i = 0 \/ i \in 1..n  BY <1>2
  <2>6. ~f[0] /\ ~Takes(0)  BY <2>1 DEF Follows
  <2>7. \A i \in 0..n : f[i] \in BOOLEAN /\ (f[i] <=> Takes(i) /\ ~f[i - 1])
    <3> HIDE DEF Takes
    <3> QED  BY <2>1, <2>4, <2>5, <2>6
  <2>8. \A i \in 0..n : f[i] = (Takes(i) /\ ~f[i - 1])
    <3> HIDE DEF Takes
    <3> QED  BY <2>7
  <2>9. f = [i \in 0..n |-> f[i]]  BY <2>1
  <2>10. f = Body(f)  BY <2>8, <2>9
  <2> QED  BY <2>10
<1>5. IsValue = Body(IsValue)
  <2> HIDE DEF Body
  <2> QED  BY <1>1, <1>4, Zenon
<1>6. \A i \in 0..n : IsValue[i] = (Takes(i) /\ ~IsValue[i - 1])
  <2>1. \A G : G = Body(G) => \A i \in 0..n : G[i] = (Takes(i) /\ ~G[i - 1])
    OBVIOUS
  <2> HIDE DEF Body, Takes
  <2> QED  BY <1>5, <2>1
<1> HIDE DEF Body
<1> QED  BY <1>6

\* What an option's values are after one more argument.
LEMMA ValueSteps ==
  ASSUME ArgvOK, NEW text
  PROVE  /\ ValuesOf(text) \in [0..Len(argv) -> Seq({ValueOf(i) : i \in 1..Len(argv)})]
         /\ ValuesOf(text)[0] = <<>>
         /\ \A n \in 1..Len(argv) :
              ValuesOf(text)[n] =
                IF Gives(text, n) THEN Append(ValuesOf(text)[n - 1], ValueOf(n))
                                  ELSE ValuesOf(text)[n - 1]
<1> DEFINE n == Len(argv)
           S == {ValueOf(i) : i \in 1..n}
           step == [i \in 1..n |->
                      [before \in Seq(S) |->
                         IF Gives(text, i) THEN Append(before, ValueOf(i)) ELSE before]]
           F == ValuesOf(text)
           Body(f) == [i \in 0..n |->
                         IF i = 0 THEN <<>>
                         ELSE IF Gives(text, i) THEN Append(f[i - 1], ValueOf(i))
                         ELSE f[i - 1]]
<1>1. F = CHOOSE f : f = Body(f)  BY DEF ValuesOf
<1>2. n \in Nat /\ <<>> \in Seq(S)  BY DEF ArgvOK
<1>3. step \in [1..n -> [Seq(S) -> Seq(S)]]
  <2>1. \A i \in 1..n : ValueOf(i) \in S  OBVIOUS
  <2> HIDE DEF S
  <2>2. \A i \in 1..n, before \in Seq(S) :
          (IF Gives(text, i) THEN Append(before, ValueOf(i)) ELSE before) \in Seq(S)
    BY <2>1
  <2> QED  BY <2>2
<1>4. \A i \in 1..n, before \in Seq(S) :
        step[i][before] = IF Gives(text, i) THEN Append(before, ValueOf(i)) ELSE before
  OBVIOUS
<1>5. ASSUME NEW f \in [0..n -> Seq(S)], Follows(f, <<>>, step, n)
      PROVE  f = Body(f)
  <2> HIDE DEF S, step
  <2>1. ASSUME NEW i \in 1..n
        PROVE  f[i] = IF Gives(text, i) THEN Append(f[i - 1], ValueOf(i)) ELSE f[i - 1]
    <3>1. i - 1 \in 0..n  BY <1>2
    <3>2. f[i - 1] \in Seq(S) /\ f[i] = step[i][f[i - 1]]  BY <1>5, <3>1 DEF Follows
    <3> QED  BY <1>4, <3>2
  <2>2. \A i \in 0..n : i = 0 \/ i \in 1..n  BY <1>2
  <2>3. \A i \in 0..n : f[i] = IF i = 0 THEN <<>>
                               ELSE IF Gives(text, i) THEN Append(f[i - 1], ValueOf(i))
                               ELSE f[i - 1]
    BY <1>5, <2>1, <2>2 DEF Follows
  <2>4. f = [i \in 0..n |-> f[i]]  OBVIOUS
  <2> QED  BY <2>3, <2>4
<1>6. PICK f \in [0..n -> Seq(S)] : Follows(f, <<>>, step, n)
  <2> HIDE DEF step, n, S
  <2> QED  BY <1>2, <1>3, Recursion
<1>7. F = Body(F)
  <2>1. f = Body(f)  BY <1>5, <1>6
  <2> HIDE DEF Body, F
  <2> QED  BY <1>1, <2>1, Zenon
<1>8. \A G : G = Body(G) =>
        /\ G = [i \in 0..n |-> G[i]]
        /\ \A i \in 0..n : G[i] = IF i = 0 THEN <<>>
                                  ELSE IF Gives(text, i) THEN Append(G[i - 1], ValueOf(i))
                                  ELSE G[i - 1]
  OBVIOUS
<1>9. /\ F = [i \in 0..n |-> F[i]]
      /\ \A i \in 0..n : F[i] = IF i = 0 THEN <<>>
                                ELSE IF Gives(text, i) THEN Append(F[i - 1], ValueOf(i))
                                ELSE F[i - 1]
  <2> HIDE DEF Body, F, n
  <2> QED  BY <1>7, <1>8
<1> HIDE DEF Body, F
<1>10. ASSUME NEW i \in 0..n PROVE F[i] \in Seq(S)
  <2> DEFINE Bad == {j \in 0..n : F[j] \notin Seq(S)}
  <2> SUFFICES ASSUME Bad # {} PROVE FALSE  OBVIOUS
  <2>1. PICK m \in Bad : \A k \in Bad : m <= k
    <3>1. Bad \subseteq Nat  BY <1>2
    <3> HIDE DEF Bad
    <3> QED  BY <3>1, Least
  <2>2. CASE m = 0  BY <1>2, <1>9, <2>2
  <2>3. CASE m # 0
    <3>1. m \in 1..n /\ m \in 0..n /\ m - 1 \in 0..n /\ ~(m <= m - 1)  BY <1>2, <2>3
    <3>2. F[m - 1] \in Seq(S)  BY <2>1, <3>1
    <3>3. ValueOf(m) \in S  BY <3>1
    <3>4. F[m] = IF Gives(text, m) THEN Append(F[m - 1], ValueOf(m)) ELSE F[m - 1]
      BY <1>9, <2>3, <3>1
    <3>5. F[m] \in Seq(S)
      <4> HIDE DEF S
      <4>1. Append(F[m - 1], ValueOf(m)) \in Seq(S)  BY <3>2, <3>3
      <4> QED  BY <3>2, <3>4, <4>1
    <3> QED  BY <3>5
  <2> QED  BY <2>2, <2>3
<1>11. F[0] = <<>>  BY <1>2, <1>9
<1>12. \A i \in 1..n : F[i] = IF Gives(text, i) THEN Append(F[i - 1], ValueOf(i)) ELSE F[i - 1]
  <2>1. \A i \in 1..n : i \in 0..n /\ i # 0  BY <1>2
  <2> QED  BY <1>9, <2>1
<1>13. F \in [0..n -> Seq(S)]
  <2> HIDE DEF S, n
  <2> QED  BY <1>9, <1>10
<1> USE DEF F
<1> QED  BY <1>11, <1>12, <1>13
-------------------------------------------------------------------------------

\* Nothing but the command line decides what an argument is.
LEMMA SamePlaces ==
  ASSUME argv' = argv
  PROVE  /\ IsValue' = IsValue /\ \A text : ValuesOf(text)' = ValuesOf(text)
         /\ \A k : (Tolerated(k)' <=> Tolerated(k)) /\ (MayStart(k)' <=> MayStart(k))
<1>1. IsValue' = IsValue  BY DEF IsValue, TakesNext
<1>2. ASSUME NEW text PROVE ValuesOf(text)' = ValuesOf(text)
  BY <1>1 DEF ValuesOf, Gives, ValueOf
<1>3. ASSUME NEW k PROVE Switches(k)' = Switches(k)  BY <1>1 DEF Switches
<1>4. ASSUME NEW k PROVE Tolerated(k)' <=> Tolerated(k)  BY <1>3 DEF Tolerated
<1>5. ASSUME NEW k PROVE MayStart(k)' <=> MayStart(k)  BY <1>1, <1>4 DEF MayStart
<1> QED  BY <1>1, <1>2, <1>4, <1>5

\* The arguments before i have been read, with the outcome given: none of them
\* may be the program, and none is a "--".
ReadTo(i, err, rfb, sig, root) ==
  /\ ~IsValue[i]
  /\ err <=> ~Tolerated(i)
  /\ rfb = ValuesOf("rfb")[i - 1]
  /\ sig = LastOr(ValuesOf("signature")[i - 1])
  /\ root = LastOr(ValuesOf("chroot")[i - 1])
  /\ \A j \in 1..i - 1 : ~MayStart(j) /\ (argv[j].kind = "end" => IsValue[j])

\* While parsing goes on, and where it has ended.
ReadSoFar ==
  parse = "on" =>
    /\ optind \in 1..Len(argv) + 1 /\ opterr \in BOOLEAN
    /\ optind <= Len(argv) =>
         ReadTo(optind, opterr, dynamic_devices, sig_file, chroot)

ArgsInv == ArgvOK /\ ReadSoFar /\ TargetArgs

IsSwitch(i) ==
  /\ ~IsValue[i] /\ argv[i].kind = "plus"
  /\ argv[i].text \in {"permissive", "permissive-off"}

\* The values after one more argument, whatever the options were before.
LEMMA OneMore ==
  ASSUME ArgvOK, NEW i \in 1..Len(argv), NEW text
  PROVE  /\ Gives(text, i) =>
              /\ ValuesOf(text)[i] = Append(ValuesOf(text)[i - 1], ValueOf(i))
              /\ LastOr(ValuesOf(text)[i]) = ValueOf(i)
         /\ ~Gives(text, i) => ValuesOf(text)[i] = ValuesOf(text)[i - 1]
<1> DEFINE S == {ValueOf(j) : j \in 1..Len(argv)}
<1>1. i - 1 \in 0..Len(argv)  BY DEF ArgvOK
<1>2. ValueOf(i) \in S  OBVIOUS
<1>3. ValuesOf(text)[i - 1] \in Seq(S)  BY <1>1, ValueSteps
<1>4. \A s \in Seq(S), v \in S : LastOr(Append(s, v)) = v
  <2> HIDE DEF S
  <2>1. ASSUME NEW s \in Seq(S), NEW v \in S PROVE LastOr(Append(s, v)) = v
    <3>1. Len(Append(s, v)) = Len(s) + 1 /\ Append(s, v)[Len(s) + 1] = v /\ Len(s) + 1 # 0
      OBVIOUS
    <3>2. Append(s, v) # <<>>  BY <3>1
    <3> QED  BY <3>1, <3>2 DEF LastOr
  <2> QED  BY <2>1
<1>5. ValuesOf(text)[i] =
        IF Gives(text, i) THEN Append(ValuesOf(text)[i - 1], ValueOf(i))
                          ELSE ValuesOf(text)[i - 1]
  BY ValueSteps
<1> HIDE DEF S
<1> QED  BY <1>2, <1>3, <1>4, <1>5

\* Where +permissive ends and begins, after one more argument.
LEMMA SwitchStep ==
  ASSUME ArgvOK, NEW i \in 1..Len(argv)
  PROVE  /\ IsSwitch(i) => (Tolerated(i + 1) <=> argv[i].text = "permissive")
         /\ ~IsSwitch(i) => (Tolerated(i + 1) <=> Tolerated(i))
<1>1. i \in Nat /\ i \in 1..(i + 1) - 1
      /\ \A j : j \in 1..(i + 1) - 1 <=> j \in 1..i - 1 \/ j = i
  BY DEF ArgvOK
<1>2. Switches(i + 1) = IF IsSwitch(i) THEN Switches(i) \cup {i} ELSE Switches(i)
  BY <1>1 DEF Switches, IsSwitch
<1>3. \A j \in Switches(i) : j \in Nat /\ j < i  BY <1>1 DEF Switches
<1>4. CASE IsSwitch(i)
  <2>1. Switches(i + 1) = Switches(i) \cup {i}  BY <1>2, <1>4
  <2>2. \A j \in Switches(i + 1) : j <= i  BY <1>1, <1>3, <2>1
  <2>3. \A j \in Switches(i + 1) : i <= j => j = i  BY <1>1, <1>3, <2>1
  <2>4. i \in Switches(i + 1)  BY <2>1
  <2> QED  BY <1>4, <2>2, <2>3, <2>4 DEF Tolerated
<1>5. CASE ~IsSwitch(i)  BY <1>2, <1>5 DEF Tolerated
<1> QED  BY <1>4, <1>5
\* Argument i is no option that takes the next argument, and not the end.
StandsAlone(i, err) ==
  /\ ~(argv[i].kind = "long" /\ TakesNext(argv[i])) /\ argv[i].kind # "end"
  /\ ~(IsOther(argv[i]) /\ err)

\* What argument i makes of the outcome before it.
Outcome(i, err, rfb, sig, root, e, r, s, c) ==
  /\ IF IsSwitch(i) THEN e <=> argv[i].text = "permissive-off" ELSE e <=> err
  /\ r = IF Gives("rfb", i) THEN Append(rfb, ValueOf(i)) ELSE rfb
  /\ s = IF Gives("signature", i) THEN ValueOf(i) ELSE sig
  /\ c = IF Gives("chroot", i) THEN ValueOf(i) ELSE root

\* One argument that is read alone: what getopt makes of it is what it means.
LEMMA ReadOne ==
  ASSUME ArgvOK, NEW i \in 1..Len(argv), i < Len(argv),
         NEW err, NEW rfb, NEW sig, NEW root,
         ReadTo(i, err, rfb, sig, root), StandsAlone(i, err),
         NEW e \in BOOLEAN, NEW r, NEW s, NEW c,
         Outcome(i, err, rfb, sig, root, e, r, s, c)
  PROVE  ReadTo(i + 1, e, r, s, c)
<1> USE DEF StandsAlone, Outcome
<1>1. /\ i + 1 \in 0..Len(argv) /\ (i + 1) - 1 = i
      /\ \A j : j \in 1..(i + 1) - 1 <=> j \in 1..i - 1 \/ j = i
  BY DEF ArgvOK
<1>2. ~IsValue[i + 1]  BY <1>1, ValuePlaces
<1>3. e <=> ~Tolerated(i + 1)
  <2>1. IsSwitch(i) => argv[i].text \in {"permissive", "permissive-off"}  BY DEF IsSwitch
  <2> QED  BY <2>1, SwitchStep DEF ReadTo
<1>4. /\ r = ValuesOf("rfb")[i] /\ s = LastOr(ValuesOf("signature")[i])
      /\ c = LastOr(ValuesOf("chroot")[i])
  BY OneMore DEF ReadTo
<1>5. ~MayStart(i)
  <2>1. i > 1 => i - 1 \in 1..i - 1  OBVIOUS
  <2>2. i > 1 => ~(argv[i - 1].kind = "end" /\ ~IsValue[i - 1])  BY <2>1 DEF ReadTo
  <2> QED  BY <2>2 DEF ReadTo, MayStart
<1>6. \A j \in 1..(i + 1) - 1 : ~MayStart(j) /\ (argv[j].kind = "end" => IsValue[j])
  BY <1>1, <1>5 DEF ReadTo
<1> QED  BY <1>1, <1>2, <1>3, <1>4, <1>6 DEF ReadTo

\* An option and the argument behind it, which is its value.
LEMMA ReadTwo ==
  ASSUME ArgvOK, NEW i \in 1..Len(argv), i + 1 < Len(argv),
         NEW err, NEW rfb, NEW sig, NEW root,
         ReadTo(i, err, rfb, sig, root),
         argv[i].kind = "long", TakesNext(argv[i]),
         NEW r, NEW s, NEW c,
         r = IF Gives("rfb", i) THEN Append(rfb, ValueOf(i)) ELSE rfb,
         s = IF Gives("signature", i) THEN ValueOf(i) ELSE sig,
         c = IF Gives("chroot", i) THEN ValueOf(i) ELSE root
  PROVE  ReadTo(i + 2, err, r, s, c)
<1> DEFINE k == i + 1
<1>1. /\ k \in 1..Len(argv) /\ k \in 0..Len(argv) /\ k + 1 = i + 2 /\ i + 2 \in 0..Len(argv)
      /\ k - 1 = i /\ (i + 2) - 1 = k /\ k > 1 /\ k + 1 \in 0..Len(argv) /\ (k + 1) - 1 = k
      /\ \A j : j \in 1..(i + 2) - 1 <=> j \in 1..i - 1 \/ j = i \/ j = k
  <2>1. Len(argv) \in Nat  BY DEF ArgvOK
  <2>2. k = i + 1 /\ i \in Nat /\ i > 0  BY <2>1
  <2> HIDE DEF k
  <2>3. \A j : j \in 1..(i + 2) - 1 <=> j \in 1..i - 1 \/ j = i \/ j = k
    BY <2>2
  <2> QED  BY <2>1, <2>2, <2>3
<1> HIDE DEF k
<1>2. IsValue[k]
  <2>1. ~IsValue[k - 1] /\ argv[k - 1].kind = "long" /\ TakesNext(argv[k - 1])
    BY <1>1 DEF ReadTo
  <2> QED  BY <1>1, <2>1, ValuePlaces
<1>3. ~IsValue[i + 2]  BY <1>1, <1>2, ValuePlaces
<1>4. ~IsSwitch(i) /\ ~IsSwitch(k)  BY <1>2 DEF IsSwitch
<1>5. err <=> ~Tolerated(i + 2)
  <2>1. Tolerated(k) <=> Tolerated(i)  BY <1>4, SwitchStep DEF k
  <2>2. Tolerated(k + 1) <=> Tolerated(k)  BY <1>1, <1>4, SwitchStep
  <2> QED  BY <1>1, <2>1, <2>2 DEF ReadTo
<1>6. /\ r = ValuesOf("rfb")[i] /\ s = LastOr(ValuesOf("signature")[i])
      /\ c = LastOr(ValuesOf("chroot")[i])
  BY OneMore DEF ReadTo
<1>7. \A text : ValuesOf(text)[k] = ValuesOf(text)[k - 1]
  BY <1>1, <1>2, OneMore DEF Gives
<1>8. ~MayStart(i) /\ ~MayStart(k)
  <2>1. i > 1 => i - 1 \in 1..i - 1  OBVIOUS
  <2>2. i > 1 => ~(argv[i - 1].kind = "end" /\ ~IsValue[i - 1])  BY <2>1 DEF ReadTo
  <2> QED  BY <1>2, <2>2 DEF MayStart, IsOther
<1>9. \A j \in 1..(i + 2) - 1 : ~MayStart(j) /\ (argv[j].kind = "end" => IsValue[j])
  BY <1>1, <1>2, <1>8 DEF ReadTo
<1> QED  BY <1>1, <1>3, <1>5, <1>6, <1>7, <1>9 DEF ReadTo
\* The four options: what Apply and Unknown leave is what Gives says.
LEMMA Applied ==
  ASSUME NEW text, NEW value, Apply(text, value), parse = "on", parse' = "on"
  PROVE  /\ text # "help" /\ text # "disk"
         /\ dynamic_devices' = IF text = "rfb" THEN Append(dynamic_devices, value)
                                               ELSE dynamic_devices
         /\ sig_file' = IF text = "signature" THEN value ELSE sig_file
         /\ chroot' = IF text = "chroot" THEN value ELSE chroot
BY DEF Apply

\* Every step of getopt's loop leaves what has been read so far, and ends where
\* the program is named.
LEMMA ReadStep ==
  ASSUME ArgsInv, ParseNext
  PROVE  ArgsInv'
<1>1. /\ argv' = argv /\ parse = "on" /\ ArgvOK /\ ArgvOK' /\ ReadSoFar
      /\ optind \in 1..Len(argv) + 1 /\ opterr \in BOOLEAN /\ Len(argv) \in Nat
  BY DEF ArgsInv, ArgvOK, ReadSoFar, ParseNext, ShortOption, LongOption, PlusOption, Permissive,
         IgnoreOther, FirstOther, EndOfOptions, NoMore, TakeRest, Parsing
<1> DEFINE Was(i) == ReadTo(i, opterr, dynamic_devices, sig_file, chroot)
           Is == ReadTo(optind', opterr', dynamic_devices', sig_file', chroot')
<1>3. optind <= Len(argv) => Was(optind) /\ optind \in 1..Len(argv)
  BY <1>1 DEF ReadSoFar
<1> DEFINE Goes == parse' = "on" => /\ optind' \in 1..Len(argv) + 1 /\ opterr' \in BOOLEAN
                                    /\ optind' <= Len(argv) => Is
<1>4. Goes => ReadSoFar'
  <2>1. ASSUME Goes, parse' = "on", optind' <= Len(argv)
        PROVE  ReadTo(optind, opterr, dynamic_devices, sig_file, chroot)'
    <3>1. Is  BY <2>1
    <3> QED  BY <3>1, <1>1, SamePlaces DEF ReadTo
  <2> HIDE DEF Is
  <2> QED  BY <1>1, <2>1 DEF ReadSoFar
<1>5. parse' # "done" => TargetArgs'  BY DEF TargetArgs
<1> DEFINE Arg0 == argv[optind]
\* An argument that is read alone.
<1>6. ASSUME optind \in 1..Len(argv), optind' = optind + 1, StandsAlone(optind, opterr),
             opterr' \in BOOLEAN,
             Outcome(optind, opterr, dynamic_devices, sig_file, chroot,
                     opterr', dynamic_devices', sig_file', chroot')
      PROVE  Goes
  <2>1. optind' \in 1..Len(argv) + 1  BY <1>1, <1>6
  <2>2. optind' <= Len(argv) => optind < Len(argv) /\ Was(optind)  BY <1>1, <1>3, <1>6
  <2>3. ASSUME optind' <= Len(argv) PROVE Is
    <3>1. optind < Len(argv) /\ Was(optind)  BY <2>2, <2>3
    <3>2. ReadTo(optind + 1, opterr', dynamic_devices', sig_file', chroot')
      <4>1. ArgvOK /\ optind < Len(argv)  BY <1>1, <3>1
      <4>2. ReadTo(optind, opterr, dynamic_devices, sig_file, chroot)  BY <3>1
      <4> HIDE DEF Goes, Is, Was
      <4> QED  BY <1>6, <4>1, <4>2, ReadOne
    <3> QED  BY <1>6, <3>2
  <2> HIDE DEF Is
  <2> QED  BY <1>6, <2>1, <2>3
<1>7. CASE ShortOption
  <2> USE <1>7 DEF ShortOption
  <2>1. /\ optind \in 1..Len(argv) /\ Arg0.kind = "short" /\ opterr' = opterr /\ parse' # "done"
        /\ parse' = "on" => UNCHANGED options
        /\ optind' = optind \/ optind' = optind + 1
    BY <1>1 DEF Parsing, Arg, Unknown, Apply
  <2>2. ~IsSwitch(optind) /\ ~IsOther(Arg0) /\ \A text : ~Gives(text, optind)
    BY <2>1 DEF IsSwitch, IsOther, Gives, IsPlusOption
  <2>3. CASE optind' = optind
    <3>1. parse' = "on" => Is
      BY <1>3, <2>1, <2>3 DEF options
    <3> HIDE DEF Is
    <3> QED  BY <1>1, <1>4, <1>5, <2>1, <2>3, <3>1 DEF ArgsInv
  <2>4. CASE optind' = optind + 1
    <3>1. parse' = "on" => Goes
      <4>1. StandsAlone(optind, opterr)  BY <1>1, <2>1, <2>2 DEF StandsAlone
      <4>2. parse' = "on" => Outcome(optind, opterr, dynamic_devices, sig_file, chroot,
                                   opterr', dynamic_devices', sig_file', chroot')
        BY <1>1, <2>1, <2>2 DEF Outcome, options
      <4> HIDE DEF Goes
      <4> QED  BY <1>1, <1>6, <2>1, <2>4, <4>1, <4>2
    <3>2. Goes  BY <3>1
    <3> HIDE DEF Goes
    <3> QED  BY <1>1, <1>4, <1>5, <2>1, <3>2 DEF ArgsInv
  <2> QED  BY <2>1, <2>3, <2>4
<1>8. CASE LongOption
  <2> USE <1>8 DEF LongOption
  <2>1. /\ optind \in 1..Len(argv) /\ Arg0.kind = "long" /\ opterr' = opterr /\ parse' # "done"
    BY <1>1 DEF Parsing, Arg, Unknown, Apply
  <2>2. /\ ~IsSwitch(optind) /\ ~IsOther(Arg0)
        /\ \A text : Gives(text, optind) <=> text = Arg0.text
    BY <1>3, <2>1 DEF IsSwitch, IsOther, Gives, ReadTo
  <2>3. CASE TakesNext(Arg0) /\ optind = Len(argv)
    <3>1. optind' = Len(argv) + 1  BY <1>1, <2>1, <2>3 DEF Arg
    <3>2. Goes  BY <1>1, <2>1, <3>1
    <3> HIDE DEF Goes
    <3> QED  BY <1>1, <1>4, <1>5, <2>1, <3>2 DEF ArgsInv
  <2>4. CASE TakesNext(Arg0) /\ optind # Len(argv)
    <3>1. /\ optind' = optind + 2 /\ Apply(Arg0.text, ValueOf(optind))
          /\ optind + 2 \in 1..Len(argv) + 1
      BY <1>1, <2>1, <2>4 DEF Arg, ValueOf
    <3>2. ASSUME parse' = "on" PROVE
            /\ dynamic_devices' = IF Gives("rfb", optind)
                                    THEN Append(dynamic_devices, ValueOf(optind))
                                    ELSE dynamic_devices
            /\ sig_file' = IF Gives("signature", optind) THEN ValueOf(optind) ELSE sig_file
            /\ chroot' = IF Gives("chroot", optind) THEN ValueOf(optind) ELSE chroot
      BY <1>1, <2>2, <3>1, <3>2, Applied
    <3>3. ASSUME parse' = "on", optind' <= Len(argv) PROVE Is
      <4>1. optind + 1 < Len(argv) /\ Was(optind)  BY <1>1, <1>3, <2>1, <3>1, <3>3
      <4>2. ReadTo(optind + 2, opterr, dynamic_devices', sig_file', chroot')
        BY <1>1, <2>1, <2>4, <3>2, <3>3, <4>1, ReadTwo
      <4> QED  BY <2>1, <3>1, <4>2
    <3> HIDE DEF Is
    <3>4. Goes  BY <1>1, <2>1, <3>1, <3>3
    <3> HIDE DEF Goes
    <3> QED  BY <1>1, <1>4, <1>5, <2>1, <3>4 DEF ArgsInv
  <2>5. CASE ~TakesNext(Arg0)
    <3>1. /\ optind' = optind + 1 /\ ValueOf(optind) = Arg0.value
          /\ \/ Apply(Arg0.text, Arg0.value)
             \/ Unknown /\ ~(IsOption(Arg0.text) /\ Arity(Arg0.text) # "no_argument")
      BY <2>1, <2>5 DEF Arg, ValueOf
    <3>2. \A text \in {"rfb", "signature", "chroot"} :
            IsOption(text) /\ Arity(text) # "no_argument"
      BY DEF IsOption, Arity, HTIF_LONG_OPTIONS
    <3>3. ASSUME parse' = "on" PROVE Goes
      <4>1. /\ dynamic_devices' = IF Gives("rfb", optind)
                                    THEN Append(dynamic_devices, ValueOf(optind))
                                    ELSE dynamic_devices
            /\ sig_file' = IF Gives("signature", optind) THEN ValueOf(optind) ELSE sig_file
            /\ chroot' = IF Gives("chroot", optind) THEN ValueOf(optind) ELSE chroot
        <5>1. CASE Apply(Arg0.text, Arg0.value)
          BY <1>1, <2>2, <3>1, <3>3, <5>1, Applied
        <5>2. CASE Unknown /\ ~(IsOption(Arg0.text) /\ Arity(Arg0.text) # "no_argument")
          BY <2>2, <3>2, <5>2 DEF Unknown, options
        <5> QED  BY <3>1, <5>1, <5>2
      <4>2. StandsAlone(optind, opterr)  BY <1>1, <2>1, <2>2, <2>5, <4>1 DEF StandsAlone
      <4>3. Outcome(optind, opterr, dynamic_devices, sig_file, chroot,
                  opterr', dynamic_devices', sig_file', chroot')
        BY <1>1, <2>1, <2>2, <2>5, <4>1 DEF Outcome
      <4> HIDE DEF Goes
      <4> QED  BY <1>1, <1>6, <2>1, <3>1, <4>2, <4>3
    <3>4. Goes  BY <3>3
    <3> HIDE DEF Goes
    <3> QED  BY <1>1, <1>4, <1>5, <2>1, <3>4 DEF ArgsInv
  <2> QED  BY <2>3, <2>4, <2>5
<1>9. CASE PlusOption
  <2> USE <1>9 DEF PlusOption
  <2>1. /\ optind \in 1..Len(argv) /\ IsPlusOption(Arg0) /\ opterr' = opterr /\ parse' # "done"
        /\ optind' = optind + 1 /\ Apply(Arg0.text, Arg0.value)
    BY <1>1 DEF Parsing, Arg, Apply
  <2>2. /\ Arg0.kind = "plus" /\ ~IsSwitch(optind) /\ ~IsOther(Arg0) /\ ~TakesNext(Arg0)
        /\ ValueOf(optind) = Arg0.value
    BY <2>1 DEF IsPlusOption, IsSwitch, IsOther, TakesNext, Arity, HTIF_LONG_OPTIONS, ValueOf
  <2>3. ASSUME parse' = "on" PROVE Goes
    <3>1. \A text : Gives(text, optind) <=> text = Arg0.text
      BY <1>3, <2>1, <2>2 DEF Gives, ReadTo
    <3>2. /\ dynamic_devices' = IF Gives("rfb", optind)
                                  THEN Append(dynamic_devices, ValueOf(optind))
                                  ELSE dynamic_devices
          /\ sig_file' = IF Gives("signature", optind) THEN ValueOf(optind) ELSE sig_file
          /\ chroot' = IF Gives("chroot", optind) THEN ValueOf(optind) ELSE chroot
      BY <1>1, <2>1, <2>2, <2>3, <3>1, Applied
    <3>3. StandsAlone(optind, opterr)  BY <1>1, <2>1, <2>2, <3>2 DEF StandsAlone
    <3>4. Outcome(optind, opterr, dynamic_devices, sig_file, chroot,
                opterr', dynamic_devices', sig_file', chroot')
      BY <1>1, <2>1, <2>2, <3>2 DEF Outcome
    <3> HIDE DEF Goes
    <3> QED  BY <1>1, <1>6, <2>1, <3>3, <3>4
  <2>4. Goes  BY <2>3
  <2> HIDE DEF Goes
  <2> QED  BY <1>1, <1>4, <1>5, <2>1, <2>4 DEF ArgsInv
<1>10. CASE Permissive
  <2> USE <1>10 DEF Permissive
  <2>1. /\ optind \in 1..Len(argv) /\ parse' # "done" /\ optind' = optind + 1
        /\ Arg0.kind = "plus" /\ Arg0.text \in {"permissive", "permissive-off"}
        /\ parse' = "on" => opterr' = (Arg0.text = "permissive-off")
        /\ UNCHANGED options
    BY <1>1 DEF Parsing, Arg
  <2>2. /\ IsSwitch(optind) /\ ~IsOther(Arg0) /\ \A text : ~Gives(text, optind)
    BY <1>3, <2>1 DEF IsSwitch, IsOther, Gives, IsPlusOption, ReadTo
  <2>3. parse' = "on" => Goes
    <3>1. StandsAlone(optind, opterr)  BY <1>1, <2>1, <2>2 DEF StandsAlone
    <3>2. parse' = "on" => Outcome(optind, opterr, dynamic_devices, sig_file, chroot,
                                 opterr', dynamic_devices', sig_file', chroot')
      BY <1>1, <2>1, <2>2 DEF Outcome, options
    <3> HIDE DEF Goes
    <3> QED  BY <1>1, <1>6, <2>1, <3>1, <3>2
  <2>4. Goes  BY <2>3
  <2> HIDE DEF Goes
  <2> QED  BY <1>1, <1>4, <1>5, <2>1, <2>4 DEF ArgsInv
<1>11. CASE IgnoreOther
  <2> USE <1>11 DEF IgnoreOther
  <2>1. /\ optind \in 1..Len(argv) /\ parse' = "on" /\ optind' = optind + 1
        /\ IsOther(Arg0) /\ ~opterr /\ opterr' = opterr /\ UNCHANGED options
    BY <1>1 DEF Parsing, Arg
  <2>2. /\ ~IsSwitch(optind) /\ Arg0.kind # "long" /\ Arg0.kind # "end"
        /\ \A text : ~Gives(text, optind)
    BY <2>1 DEF IsSwitch, IsOther, Gives, IsPlusOption
  <2>3. Goes
    <3>1. StandsAlone(optind, opterr)  BY <1>1, <2>1, <2>2 DEF StandsAlone
    <3>2. Outcome(optind, opterr, dynamic_devices, sig_file, chroot,
                opterr', dynamic_devices', sig_file', chroot')
      BY <1>1, <2>1, <2>2 DEF Outcome, options
    <3> HIDE DEF Goes
    <3> QED  BY <1>1, <1>6, <2>1, <3>1, <3>2
  <2> HIDE DEF Goes
  <2> QED  BY <1>1, <1>4, <1>5, <2>1, <2>3 DEF ArgsInv
\* The rest belongs to the target.
<1>12. ASSUME NEW k \in 1..Len(argv), MayStart(k), targs' = SubSeq(argv, k, Len(argv)),
              \A j \in 1..k - 1 : ~MayStart(j), UNCHANGED options,
              dynamic_devices = ValuesOf("rfb")[k - 1],
              sig_file = LastOr(ValuesOf("signature")[k - 1]),
              chroot = LastOr(ValuesOf("chroot")[k - 1])
       PROVE  TargetArgs'
  <2>1. /\ k \in Positions' /\ MayStart(k)' /\ targs' = SubSeq(argv', k, Len(argv'))
        /\ \A j \in 1..k - 1 : ~MayStart(j)'
        /\ dynamic_devices' = (ValuesOf("rfb")')[k - 1]
        /\ sig_file' = LastOr((ValuesOf("signature")')[k - 1])
        /\ chroot' = LastOr((ValuesOf("chroot")')[k - 1])
    BY <1>1, <1>12, SamePlaces DEF Positions, options
  <2> QED  BY <2>1 DEF TargetArgs
<1>13. ASSUME parse' # "on", TargetArgs' PROVE ArgsInv'
  BY <1>1, <1>13 DEF ArgsInv, ReadSoFar
<1>14. ASSUME NEW first, first > Len(argv), first \in Nat, TakeRest(first)
       PROVE  ArgsInv'
  <2>1. targs' = <<>>  BY <1>1, <1>14 DEF TakeRest
  <2>2. parse' = "threw"  BY <1>14, <2>1 DEF TakeRest
  <2> QED  BY <1>5, <1>13, <2>2
<1>15. CASE FirstOther
  <2> USE <1>15 DEF FirstOther
  <2>1. /\ optind \in 1..Len(argv) /\ IsOther(Arg0) /\ opterr /\ TakeRest(optind)
    BY <1>1 DEF Parsing, Arg
  <2>2. Was(optind)
    <3> HIDE DEF Was
    <3> QED  BY <1>3, <2>1
  <2>3. MayStart(optind)  BY <2>1, <2>2 DEF ReadTo, MayStart
  <2>4. TargetArgs'  BY <1>12, <2>1, <2>2, <2>3 DEF TakeRest, ReadTo
  <2>5. parse' # "on"  BY <2>1 DEF TakeRest
  <2> QED  BY <1>13, <2>4, <2>5
<1>16. CASE EndOfOptions
  <2> USE <1>16 DEF EndOfOptions
  <2>1. /\ optind \in 1..Len(argv) /\ Arg0.kind = "end" /\ TakeRest(optind + 1)
        /\ parse' # "on"
    BY <1>1 DEF Parsing, Arg, TakeRest
  <2>2. Was(optind)
    <3> HIDE DEF Was
    <3> QED  BY <1>3, <2>1
  <2>3. CASE optind = Len(argv)
    <3>1. optind + 1 > Len(argv) /\ optind + 1 \in Nat  BY <1>1, <2>3
    <3> QED  BY <1>14, <2>1, <3>1
  <2>4. CASE optind # Len(argv)
    <3> DEFINE k == optind + 1
    <3>1. /\ k \in 1..Len(argv) /\ k \in 0..Len(argv) /\ k > 1 /\ k - 1 = optind
          /\ \A j \in 1..k - 1 : j \in 1..optind - 1 \/ j = optind
      BY <1>1, <2>1, <2>4
    <3> HIDE DEF k
    <3>2. ~IsValue[k]  BY <1>1, <2>1, <3>1, ValuePlaces
    <3>3. MayStart(k)  BY <2>1, <2>2, <3>1, <3>2 DEF ReadTo, MayStart
    <3>4. ~MayStart(optind)
      <4>1. optind > 1 => optind - 1 \in 1..optind - 1  BY <1>1, <2>1
      <4>2. optind > 1 => ~(argv[optind - 1].kind = "end" /\ ~IsValue[optind - 1])
        BY <2>2, <4>1 DEF ReadTo
      <4> QED  BY <2>1, <4>2 DEF MayStart, IsOther
    <3>5. \A text : ValuesOf(text)[optind] = ValuesOf(text)[optind - 1]
      BY <1>1, <2>1, OneMore DEF Gives, IsPlusOption
    <3>6. /\ dynamic_devices = ValuesOf("rfb")[k - 1]
          /\ sig_file = LastOr(ValuesOf("signature")[k - 1])
          /\ chroot = LastOr(ValuesOf("chroot")[k - 1])
      BY <2>2, <3>1, <3>5 DEF ReadTo
    <3>7. \A j \in 1..k - 1 : ~MayStart(j)  BY <2>2, <3>1, <3>4 DEF ReadTo
    <3>8. targs' = SubSeq(argv, k, Len(argv)) /\ UNCHANGED options
      BY <2>1 DEF TakeRest, k
    <3>9. TargetArgs'  BY <1>12, <3>1, <3>3, <3>6, <3>7, <3>8
    <3> QED  BY <1>13, <2>1, <3>9
  <2> QED  BY <2>3, <2>4
<1>17. CASE NoMore
  <2>1. optind > Len(argv) /\ optind \in Nat /\ TakeRest(optind)  BY <1>1, <1>17 DEF NoMore
  <2> QED  BY <1>14, <2>1
<1> QED  BY <1>7, <1>8, <1>9, <1>10, <1>11, <1>15, <1>16, <1>17
   DEF ParseNext
-------------------------------------------------------------------------------
(* Memory.                                                                   *)

\* The last of some segments.
Last(i, S) == i \in S /\ \A j \in S : j <= i

\* There is one, if there are any.
LEMMA HasLast ==
  ASSUME NEW n \in Nat, NEW S, S \subseteq 1..n, S # {}
  PROVE  \E i : Last(i, S)
<1> DEFINE T == {k \in 0..n : n - k \in S}
<1>1. T # {}
  <2>1. PICK i \in S : TRUE  OBVIOUS
  <2>2. i \in 1..n /\ n - i \in 0..n /\ n - (n - i) = i  BY <2>1
  <2> QED  BY <2>1, <2>2
<1>2. PICK k \in T : \A l \in T : k <= l
  <2>1. T \subseteq Nat  OBVIOUS
  <2> HIDE DEF T
  <2> QED  BY <1>1, <2>1, Least
<1>3. ASSUME NEW j \in S PROVE j <= n - k
  <2>1. j \in 1..n /\ n - j \in 0..n /\ n - (n - j) = j  OBVIOUS
  <2>2. n - j \in T  BY <2>1
  <2>3. k <= n - j /\ k \in 0..n  BY <1>2, <2>2
  <2> QED  BY <2>1, <2>3
<1> QED  BY <1>2, <1>3 DEF Last

\* What segment i of the program says of address a.
Part(i, a) ==
  LET p == elf.phdrs[i]
      at == p.offset + (a - p.paddr)
  IN  IF a - p.paddr < p.filesz /\ at < elf.size THEN elf.data[at] ELSE 0

\* The program and the backend are as the constants say.
FileOK ==
  /\ elf \in Elfs /\ backend \in Backends
  /\ program \in {"htif", "elf2hex"}
  /\ program = "elf2hex" <=> backend.kind = "hex"
  /\ backend.base + backend.width * backend.depth <= Size

LEMMA FileFacts ==
  ASSUME FileOK
  PROVE  /\ Len(elf.phdrs) \in Nat /\ elf.size \in Nat /\ Size \in Nat
         /\ elf.phdrs \in Seq(Phdr)
         /\ \A i \in DOMAIN elf.phdrs :
              /\ elf.phdrs[i].paddr \in Nat /\ elf.phdrs[i].offset \in Nat
              /\ elf.phdrs[i].filesz \in Nat /\ elf.phdrs[i].memsz \in Nat
         /\ DOMAIN elf.phdrs = 1..Len(elf.phdrs)
         /\ backend.base \in Nat /\ backend.width \in Nat /\ backend.depth \in Nat
         /\ backend.kind \in {"target", "hex"}
         /\ backend.kind = "hex" => backend.preloaded = {}
<1>1. elf.phdrs \in Seq(Phdr) /\ elf.size \in Nat /\ Size \in Nat
  BY LoaderConstants DEF FileOK
<1>2. \A i \in DOMAIN elf.phdrs : elf.phdrs[i] \in Phdr  BY <1>1
<1>3. \A p \in Phdr : p.paddr \in Nat /\ p.offset \in Nat /\ p.filesz \in Nat /\ p.memsz \in Nat
  BY DEF Phdr
<1>4. DOMAIN elf.phdrs = 1..Len(elf.phdrs) /\ Len(elf.phdrs) \in Nat  BY <1>1
<1>5. /\ backend.base \in Nat /\ backend.width \in Nat /\ backend.depth \in Nat
      /\ backend.kind \in {"target", "hex"}
      /\ backend.kind = "hex" => backend.preloaded = {}
  BY LoaderConstants DEF FileOK
<1> QED  BY <1>1, <1>2, <1>3, <1>4, <1>5

LEMMA SaysLast ==
  ASSUME FileOK, NEW a, NEW i, Last(i, Covering(a))
  PROVE  Says(a) = Part(i, a)
<1>1. \A j \in Covering(a) : j \in Nat
  BY FileFacts DEF Covering, Segments
<1> DEFINE l == LastOf(Covering(a))
<1>2. l \in Covering(a) /\ \A j \in Covering(a) : j <= l
  <2>1. \E k \in Covering(a) : \A j \in Covering(a) : j <= k  BY DEF Last
  <2> QED  BY <2>1 DEF LastOf
<1>3. l <= i /\ i <= l /\ i \in Nat /\ l \in Nat  BY <1>1, <1>2 DEF Last
<1>4. l = i
  <2> HIDE DEF l
  <2> QED  BY <1>3
<1>5. Says(a) = Part(l, a)  BY DEF Says, Part
<1> QED  BY <1>4, <1>5

\* Without an overlap one segment covers an address.
LEMMA Alone ==
  ASSUME FileOK, NEW a, ~Overlap(a), NEW i \in Covering(a), NEW j \in Covering(a)
  PROVE  i = j
<1> SUFFICES ASSUME i # j PROVE FALSE
  OBVIOUS
<1>1. IsFiniteSet(Covering(a))
  <2>1. Covering(a) \subseteq 1..Len(elf.phdrs)  BY FileFacts DEF Covering, Segments
  <2>2. IsFiniteSet(1..Len(elf.phdrs))
    <3>1. 1 \in Int /\ Len(elf.phdrs) \in Int  BY FileFacts
    <3> QED  BY <3>1, FS_Interval
  <2> QED  BY <2>1, <2>2, FS_Subset
<1>2. Cardinality({i} \cup {j}) = 2
  <2>1. IsFiniteSet({i}) /\ Cardinality({i}) = 1  BY FS_Singleton
  <2>2. j \notin {i}  OBVIOUS
  <2> QED  BY <2>1, <2>2, FS_AddElement
<1>3. {i} \cup {j} \in SUBSET Covering(a)  OBVIOUS
<1>4. Cardinality({i} \cup {j}) <= Cardinality(Covering(a))  BY <1>1, <1>3, FS_Subset
<1>5. Cardinality(Covering(a)) \in Nat  BY <1>1, FS_CardinalityType
<1> QED  BY <1>2, <1>4, <1>5 DEF Overlap

-------------------------------------------------------------------------------
(* The lines of elf2hex.                                                     *)

LinesOK == backend.width # 0 /\ backend.base % backend.width = 0

LEMMA Lines ==
  ASSUME NEW w \in Nat \ {0}, NEW a \in Nat
  PROVE  /\ a % w \in 0..w - 1 /\ a \div w \in Nat
         /\ a = w * (a \div w) + (a % w)
         /\ (w * (a \div w)) % w = 0
<1>1. a % w \in 0..w - 1  OBVIOUS
<1>2. a \div w \in Nat  OBVIOUS
<1>3. a = w * (a \div w) + (a % w)  OBVIOUS
<1>4. ASSUME NEW q \in Nat PROVE (w * q) % w = 0
  OBVIOUS
<1> QED  BY <1>1, <1>2, <1>3, <1>4
\* A line begins at or before its bytes, and is its own line.
LEMMA LineOf ==
  ASSUME FileOK, LinesOK, NEW a \in Nat
  PROVE  /\ Base(a) \in Nat /\ Base(a) <= a /\ Base(Base(a)) = Base(a)
         /\ InDepth(Base(a)) => InDepth(a)
<1> DEFINE w == backend.width
           q == a \div w
           b == backend.base \div w
<1>1. w \in Nat \ {0} /\ backend.base \in Nat /\ backend.depth \in Nat
  BY FileFacts DEF LinesOK
<1>2. /\ q \in Nat /\ a % w \in 0..w - 1 /\ a = w * q + (a % w) /\ (w * q) % w = 0
  BY <1>1, Lines
<1>3. b \in Nat /\ backend.base = w * b
  <2>1. b \in Nat /\ backend.base = w * b + (backend.base % w)  BY <1>1, Lines
  <2>2. backend.base % w = 0  BY DEF LinesOK
  <2>3. \A x \in Nat, y \in Nat : x = w * y + 0 => x = w * y  BY <1>1
  <2> HIDE DEF w, b
  <2> QED  BY <1>1, <2>1, <2>2, <2>3
<1>4. Base(a) = a - (a % w)  BY DEF Base
<1> HIDE DEF q, b
<1>5. Base(a) = w * q
  <2>1. \A x \in Nat, y \in 0..w - 1, z \in Nat : x = w * z + y => x - y = w * z  BY <1>1
  <2> HIDE DEF w
  <2> QED  BY <1>2, <1>4, <2>1
<1>6. w * q \in Nat  BY <1>1, <1>2
<1>7. Base(a) \in Nat /\ Base(a) <= a
  <2> HIDE DEF w
  <2> QED  BY <1>1, <1>2, <1>5, <1>6
<1>8. Base(Base(a)) = Base(a)
  <2>1. Base(Base(a)) = Base(a) - (Base(a) % w)  BY DEF Base
  <2>2. Base(a) % w = 0  BY <1>2, <1>5
  <2> HIDE DEF w
  <2> QED  BY <1>7, <2>1, <2>2
<1>9. ASSUME InDepth(Base(a)) PROVE InDepth(a)
  <2>1. w * q >= w * b /\ w * q < w * b + w * backend.depth
    BY <1>3, <1>5, <1>9 DEF InDepth
  <2> HIDE DEF w
  <2>2. q < b + backend.depth
    <3> SUFFICES ASSUME b + backend.depth <= q PROVE FALSE
      BY <1>1, <1>2, <1>3
    <3>1. PICK d \in Nat : q = (b + backend.depth) + d
      <4>1. q - (b + backend.depth) \in Nat  BY <1>1, <1>2, <1>3
      <4>2. q = (b + backend.depth) + (q - (b + backend.depth))  BY <1>1, <1>2, <1>3
      <4> QED  BY <4>1, <4>2
    <3>2. w * q = (w * b + w * backend.depth) + w * d  BY <1>1, <1>3, <3>1
    <3>3. w * d \in Nat /\ w * b \in Nat /\ w * backend.depth \in Nat  BY <1>1, <1>3, <3>1
    <3> QED  BY <2>1, <3>2, <3>3
  <2>3. PICK d \in Nat : b + backend.depth = (q + 1) + d
    <3>1. (b + backend.depth) - (q + 1) \in Nat  BY <1>1, <1>2, <1>3, <2>2
    <3>2. b + backend.depth = (q + 1) + ((b + backend.depth) - (q + 1))
      BY <1>1, <1>2, <1>3
    <3> QED  BY <3>1, <3>2
  <2>4. w * b + w * backend.depth = (w * q + w) + w * d
    <3>1. w * (b + backend.depth) = w * b + w * backend.depth  BY <1>1, <1>3
    <3>2. w * ((q + 1) + d) = (w * q + w) + w * d  BY <1>1, <1>2, <2>3
    <3> QED  BY <2>3, <3>1, <3>2
  <2>5. a < w * q + w /\ w * d \in Nat /\ a >= w * b
    <3>1. w * d \in Nat /\ w * b \in Nat  BY <1>1, <1>3, <2>3
    <3> QED  BY <1>1, <1>2, <1>6, <2>1, <3>1
  <2>6. a >= w * b /\ a < w * b + w * backend.depth
    BY <1>1, <1>6, <2>4, <2>5
  <2> QED  BY <1>3, <2>6 DEF InDepth, w
<1> QED  BY <1>7, <1>8, <1>9

-------------------------------------------------------------------------------
(* memif_t::write.                                                           *)

\* What a write that does not abort makes of one byte: outside its span nothing;
\* inside, the new byte, unless all of the span is preloaded or the byte is a zero
\* of a line that is not kept; and only zeros are behind elf2hex's last line.
LEMMA WriteByte ==
  ASSUME FileOK, backend.kind = "hex" => LinesOK, mem = [x \in Addrs |-> mem[x]],
         NEW at \in Nat, NEW n \in Nat, NEW src, NEW next,
         Write(at, n, src, next), load' # "aborted", NEW a \in Addrs
  PROVE  /\ a \notin Span(at, n) => mem'[a] = mem[a]
         /\ a \in Span(at, n) =>
              /\ \/ mem'[a] = src[a - at]
                 \/ /\ mem'[a] = mem[a]
                    /\ \/ backend.kind = "target" /\ a \in backend.preloaded
                       \/ backend.kind = "hex" /\ src[a - at] = 0
              /\ backend.kind = "hex" => InDepth(a) \/ src[a - at] = 0
         /\ load' = next
         /\ mem' = [x \in Addrs |-> mem'[x]]
<1>1. a \in Nat  BY FileFacts DEF Addrs
<1>2. backend.kind \in {"target", "hex"}  BY FileFacts
<1>3. load' = next  BY DEF Write
<1>4. CASE MaySkip(at, n) /\ mem' = mem
  <2>1. backend.kind = "target" /\ \A x \in Span(at, n) : x \in backend.preloaded
    BY <1>4 DEF MaySkip
  <2> QED  BY <1>3, <1>4, <2>1
<1>5. CASE Fits(at, n, src) /\ mem' = Stored(at, n, src)
  <2>1. backend.kind = "hex" => \A x \in Cleared(at, n, src) : src[x - at] = 0
    BY DEF Cleared
  <2>2. mem' = [x \in Addrs |-> mem'[x]]  BY <1>5 DEF Stored
  <2>3. mem'[a] = IF a \in Span(at, n) \ (IF backend.kind = "hex" THEN Cleared(at, n, src) ELSE {})
                    THEN src[a - at] ELSE mem[a]
    BY <1>5 DEF Stored
  <2>4. ASSUME backend.kind = "hex", a \in Span(at, n), ~InDepth(a)
        PROVE  src[a - at] = 0
    <3>1. Base(a) \in Touched(at, n)  BY <2>4 DEF Touched
    <3>2. ~InDepth(Base(a)) /\ Base(Base(a)) = Base(a) /\ Base(a) \in Nat
      BY <1>1, <2>4, LineOf
    <3>3. Base(a) \in Cleared(at, n, src)  BY <1>5, <2>4, <3>1, <3>2 DEF Fits
    <3>4. Base(a) \in Whole(at, n) /\ \A x \in Whole(at, n) : src[x - at] = 0
      BY <3>3 DEF Cleared
    <3>5. a \in Whole(at, n)  BY <2>4, <3>2, <3>4 DEF Whole
    <3> QED  BY <3>4, <3>5
  <2> QED  BY <1>2, <1>3, <2>1, <2>2, <2>3, <2>4
<1>6. \/ MaySkip(at, n) /\ mem' = mem
      \/ Fits(at, n, src) /\ mem' = Stored(at, n, src)
  BY DEF Write
<1> QED  BY <1>4, <1>5, <1>6

-------------------------------------------------------------------------------
(* One address while the segments arrive.                                    *)

\* The segments that have given address a its byte.
Done(a) ==
  {i \in Covering(a) :
     \/ i < segment
     \/ /\ i = segment /\ load = "zeros"
        /\ a - elf.phdrs[i].paddr < elf.phdrs[i].filesz}

\* What address a holds after the segments in S.
SettledBy(a, S, byte) ==
  /\ S = {} => byte = Fresh(Garbage)[a]
  /\ \A i : Last(i, S) =>
       \/ byte = Part(i, a)
       \/ backend.kind = "target" /\ a \in backend.preloaded /\ Overlap(a)
       \/ backend.kind = "hex" /\ Part(i, a) = 0 /\ Overlap(a)
  /\ backend.kind = "hex" => \A i \in S : InDepth(a) \/ Part(i, a) = 0

\* One more segment.
LEMMA SettledStep ==
  ASSUME FileOK, NEW a \in Addrs, NEW S, S \subseteq Covering(a), NEW byte, NEW after,
         SettledBy(a, S, byte), NEW s \in Covering(a), \A j \in S : j < s,
         \/ after = Part(s, a)
         \/ /\ after = byte
            /\ \/ backend.kind = "target" /\ a \in backend.preloaded
               \/ backend.kind = "hex" /\ Part(s, a) = 0,
         backend.kind = "hex" => InDepth(a) \/ Part(s, a) = 0
  PROVE  SettledBy(a, S \cup {s}, after)
<1>1. \A j \in Covering(a) : j \in Nat  BY FileFacts DEF Covering, Segments
<1>2. \A i : Last(i, S \cup {s}) => i = s
  <2>1. ASSUME NEW i, Last(i, S \cup {s}) PROVE i = s
    <3>1. s <= i /\ (i = s \/ i \in S)  BY <2>1 DEF Last
    <3>2. i \in S => i < s /\ i \in Nat /\ s \in Nat  BY <1>1
    <3> QED  BY <3>1, <3>2
  <2> QED  BY <2>1
<1>3. ~Overlap(a) => S = {} /\ Last(s, Covering(a))
  <2>1. \A j \in Covering(a) : ~Overlap(a) => j = s  BY Alone
  <2>2. s \in Nat /\ s <= s /\ ~(s < s)  BY <1>1
  <2> QED  BY <2>1, <2>2 DEF Last
<1>4. \/ after = Part(s, a)
      \/ backend.kind = "target" /\ a \in backend.preloaded /\ Overlap(a)
      \/ backend.kind = "hex" /\ Part(s, a) = 0 /\ Overlap(a)
  <2> SUFFICES ASSUME ~Overlap(a), after # Part(s, a) PROVE FALSE
    OBVIOUS
  <2>1. after = Fresh(Garbage)[a]  BY <1>3 DEF SettledBy
  <2>2. Says(a) = Part(s, a)  BY <1>3, SaysLast
  <2>3. Covering(a) # {}  OBVIOUS
  <2>4. CASE backend.kind = "target" /\ a \in backend.preloaded
    BY <2>1, <2>2, <2>3, <2>4 DEF Fresh
  <2>5. CASE backend.kind = "hex" /\ Part(s, a) = 0
    <3>1. backend.preloaded = {}  BY <2>5, FileFacts
    <3> QED  BY <2>1, <2>5, <3>1 DEF Fresh
  <2> QED  BY <2>4, <2>5
<1>5. backend.kind = "hex" => \A i \in S \cup {s} : InDepth(a) \/ Part(i, a) = 0
  BY DEF SettledBy
<1> QED  BY <1>2, <1>4, <1>5 DEF SettledBy
\* Where in a span an address is.
LEMMA SpanFacts ==
  ASSUME NEW at \in Nat, NEW n \in Nat, NEW a \in Nat
  PROVE  /\ a \in Span(at, n) <=> at <= a /\ a - at < n
         /\ a \in Span(at, n) <=> a - at \in 0..n - 1
         /\ \A m \in Nat : n <= m =>
              /\ a \in Span(at, n) => a \in Span(at, m)
              /\ a \in Span(at + n, m - n) <=>
                   a \in Span(at, m) /\ a \notin Span(at, n)
              /\ a \in Span(at + n, m - n) => a - (at + n) \in 0..(m - n) - 1
         /\ \A offset \in Nat, size \in Nat :
              offset + n <= size /\ a - at < n => offset + (a - at) < size
BY DEF Span

Settled(a) == SettledBy(a, Done(a), mem[a])

\* A segment with more bytes in the file than in memory ends load_elf once its file
\* part is written.
Sound == load \in {"no", "file", "sections", "loaded"} \/ (load = "zeros" /\ ph.filesz <= ph.memsz)

MemInv ==
  /\ mem = [x \in Addrs |-> mem[x]]
  /\ Sound => \A a \in Addrs : Settled(a)

\* Where load_elf is.
PlaceInv ==
  /\ segment \in Nat \ {0}
  /\ load \in {"file", "zeros"} => segment \in DOMAIN elf.phdrs
  /\ load = "zeros" => Loadable(ph)
  /\ load \in {"sections", "loaded"} => segment > Len(elf.phdrs)
  /\ load = "no" => segment = 1

LEMMA SameFile ==
  ASSUME filevars' = filevars
  PROVE  /\ \A a : Covering(a)' = Covering(a)
         /\ \A a, S, byte : SettledBy(a, S, byte)' <=> SettledBy(a, S, byte)
<1>1. elf' = elf /\ backend' = backend  BY DEF filevars
<1>2. Segments' = Segments  BY <1>1 DEF Segments
<1>3. ASSUME NEW a PROVE Covering(a)' = Covering(a)  BY <1>1, <1>2 DEF Covering
<1>4. ASSUME NEW i, NEW a PROVE Part(i, a)' = Part(i, a)  BY <1>1 DEF Part
<1>5. ASSUME NEW a PROVE Says(a)' = Says(a)  BY <1>1, <1>3 DEF Says
<1>6. Fresh(Garbage)' = Fresh(Garbage)  BY <1>1, <1>3, <1>5 DEF Fresh
<1>7. ASSUME NEW a PROVE (Overlap(a)' <=> Overlap(a)) /\ (InDepth(a)' <=> InDepth(a))
  BY <1>1, <1>3 DEF Overlap, InDepth
<1> QED  BY <1>1, <1>3, <1>4, <1>6, <1>7 DEF SettledBy

\* Nothing is written, and no segment gets done.
LEMMA NothingWritten ==
  ASSUME filevars' = filevars, mem' = mem, MemInv, Sound,
         \A a \in Addrs : Done(a)' = Done(a)
  PROVE  MemInv'
<1>1. ASSUME NEW a \in Addrs PROVE Settled(a)'
  <2>1. SettledBy(a, Done(a), mem[a])  BY DEF MemInv, Settled
  <2>2. SettledBy(a, Done(a), mem[a])'
    <3>1. SettledBy(a, Done(a)', mem'[a])  BY <2>1
    <3> QED  BY <3>1, SameFile DEF SettledBy
  <2> QED  BY <2>2 DEF Settled
<1> QED  BY <1>1 DEF MemInv

\* A write that gives addresses from `at' on what segment s says of them.
LEMMA PartWritten ==
  ASSUME FileOK, backend.kind = "hex" => LinesOK, MemInv, Sound, filevars' = filevars,
         NEW s \in Segments, NEW at \in Nat, NEW n \in Nat, NEW src, NEW next,
         Write(at, n, src, next), load' # "aborted",
         \A a \in Addrs \cap Span(at, n) :
           /\ s \in Covering(a) /\ src[a - at] = Part(s, a)
           /\ Done(a)' = Done(a) \cup {s} /\ \A j \in Done(a) : j < s,
         \A a \in Addrs \ Span(at, n) : Done(a)' = Done(a)
  PROVE  MemInv'
<1>1. ASSUME NEW a \in Addrs PROVE Settled(a)'
  <2>1. Settled(a) /\ mem = [x \in Addrs |-> mem[x]]  BY DEF MemInv
  <2>2. CASE a \notin Span(at, n)
    <3>1. mem'[a] = mem[a] /\ Done(a)' = Done(a)  BY <2>1, <2>2, WriteByte
    <3>2. SettledBy(a, Done(a)', mem'[a])  BY <2>1, <3>1 DEF Settled
    <3> QED  BY <3>2, SameFile DEF Settled
  <2>3. CASE a \in Span(at, n)
    <3>1. /\ s \in Covering(a) /\ src[a - at] = Part(s, a)
          /\ Done(a)' = Done(a) \cup {s} /\ \A j \in Done(a) : j < s
      BY <2>3
    <3>2. /\ \/ mem'[a] = src[a - at]
             \/ /\ mem'[a] = mem[a]
                /\ \/ backend.kind = "target" /\ a \in backend.preloaded
                   \/ backend.kind = "hex" /\ src[a - at] = 0
          /\ backend.kind = "hex" => InDepth(a) \/ src[a - at] = 0
      BY <2>1, <2>3, WriteByte
    <3>3. Done(a) \subseteq Covering(a) /\ SettledBy(a, Done(a), mem[a])
      BY <2>1 DEF Done, Settled
    <3>4. SettledBy(a, Done(a) \cup {s}, mem'[a])
      BY <3>1, <3>2, <3>3, SettledStep
    <3>5. SettledBy(a, Done(a)', mem'[a])  BY <3>1, <3>4
    <3> QED  BY <3>5, SameFile DEF Settled
  <2> QED  BY <2>2, <2>3
<1>2. mem' = [x \in Addrs |-> mem'[x]]
  <2>1. CASE Addrs = {}
    <3>1. mem' = mem \/ mem' = Stored(at, n, src)  BY DEF Write
    <3> QED  BY <2>1, <3>1 DEF MemInv, Stored
  <2>2. CASE Addrs # {}
    <3>1. PICK a \in Addrs : TRUE  BY <2>2
    <3> QED  BY <3>1, WriteByte DEF MemInv
  <2> QED  BY <2>1, <2>2
<1> QED  BY <1>1, <1>2 DEF MemInv

LEMMA LoadStep ==
  ASSUME FileOK, backend.kind = "hex" => LinesOK, MemInv, PlaceInv, LoadNext
  PROVE  MemInv' /\ PlaceInv' /\ filevars' = filevars
<1>1. filevars' = filevars /\ elf' = elf
  BY DEF LoadNext, Unreadable, Header, SkipSegment, NoFilePart, FilePart, Zeros, Sections, filevars
<1>2. /\ segment \in Nat \ {0} /\ Len(elf.phdrs) \in Nat
      /\ DOMAIN elf.phdrs = 1..Len(elf.phdrs)
      /\ ph' = elf.phdrs[segment']
  BY <1>1, FileFacts DEF PlaceInv, ph
<1>3. ASSUME NEW a
      PROVE  Done(a)' = {i \in Covering(a) :
                           \/ i < segment'
                           \/ /\ i = segment' /\ load' = "zeros"
                              /\ a - elf.phdrs[i].paddr < elf.phdrs[i].filesz}
  BY <1>1, SameFile DEF Done
<1>4. /\ Past(segment + 1) \in {"file", "sections"}
      /\ Past(segment + 1) = "file" => segment + 1 \in DOMAIN elf.phdrs
      /\ Past(segment + 1) = "sections" => segment + 1 > Len(elf.phdrs)
      /\ Past(1) \in {"file", "sections"} /\ (Past(1) = "file" => 1 \in DOMAIN elf.phdrs)
      /\ Past(1) = "sections" => 1 > Len(elf.phdrs)
  BY <1>2 DEF Past
<1>5. \A a : \A i \in Covering(a) : i \in Segments /\ i \in Nat /\ Loadable(elf.phdrs[i])
  BY <1>2 DEF Covering, Segments
<1>nat. \A a \in Addrs : a \in Nat  BY FileFacts DEF Addrs
\* Nothing more is asked of memory.
<1>6. ASSUME load' \in {"aborted", "threw"}, mem' = mem, segment' = segment
      PROVE  MemInv' /\ PlaceInv'
  BY <1>2, <1>6 DEF MemInv, PlaceInv, Sound
<1>7. CASE Unreadable  BY <1>1, <1>6, <1>7 DEF Unreadable
<1>8. CASE Header
  <2> USE <1>8 DEF Header
  <2>1. CASE load' = "aborted"  BY <1>1, <1>6, <2>1
  <2>2. CASE load' # "aborted"
    <3>1. load' = Past(1) /\ load = "no" /\ segment' = segment /\ segment = 1 /\ mem' = mem
      BY <2>2 DEF PlaceInv
    <3>2. \A a : Done(a)' = Done(a)  BY <1>3, <1>4, <3>1 DEF Done
    <3>3. MemInv'  BY <1>1, <3>1, <3>2, NothingWritten DEF Sound
    <3>4. PlaceInv'  BY <1>1, <1>2, <1>4, <3>1 DEF PlaceInv
    <3> QED  BY <1>1, <3>3, <3>4
  <2> QED  BY <2>1, <2>2
<1>9. CASE SkipSegment
  <2> USE <1>9 DEF SkipSegment, NextSegment
  <2>1. /\ load = "file" /\ segment' = segment + 1 /\ load' = Past(segment + 1) /\ mem' = mem
        /\ ~Loadable(elf.phdrs[segment])
    BY DEF ph
  <2>2. ASSUME NEW a PROVE Done(a)' = Done(a)
    <3>1. \A i \in Covering(a) : i < segment + 1 <=> i < segment  BY <1>2, <1>5, <2>1
    <3> QED  BY <1>3, <1>4, <2>1, <3>1 DEF Done
  <2>3. MemInv'  BY <1>1, <2>1, <2>2, NothingWritten DEF Sound
  <2>4. PlaceInv'  BY <1>1, <1>2, <1>4, <2>1 DEF PlaceInv
  <2> QED  BY <1>1, <2>3, <2>4
<1>10. CASE NoFilePart
  <2> USE <1>10 DEF NoFilePart
  <2>1. /\ load = "file" /\ segment' = segment /\ load' = "zeros" /\ mem' = mem
        /\ Loadable(elf.phdrs[segment]) /\ elf.phdrs[segment].filesz = 0
        /\ segment \in DOMAIN elf.phdrs
    BY DEF ph, PlaceInv
  <2>2. ASSUME NEW a \in Addrs PROVE Done(a)' = Done(a)
    <3>1. \A i \in Covering(a) : i = segment => ~(a - elf.phdrs[i].paddr < elf.phdrs[i].filesz)
      <4>1. ASSUME segment \in Covering(a)
            PROVE  ~(a - elf.phdrs[segment].paddr < elf.phdrs[segment].filesz)
        <5>1. a \in Span(elf.phdrs[segment].paddr, elf.phdrs[segment].memsz)
          BY <4>1 DEF Covering
        <5> QED  BY <2>1, <5>1, FileFacts DEF Span
      <4> QED  BY <4>1
    <3> QED  BY <1>3, <2>1, <3>1 DEF Done
  <2>3. MemInv'  BY <1>1, <2>1, <2>2, NothingWritten DEF Sound
  <2>4. PlaceInv'  BY <1>1, <1>2, <2>1 DEF PlaceInv, ph
  <2> QED  BY <1>1, <2>3, <2>4
<1>11. CASE FilePart
  <2> USE <1>11 DEF FilePart
  <2> DEFINE p == elf.phdrs[segment]
             src == [k \in 0..p.filesz - 1 |-> elf.data[p.offset + k]]
  <2>1. /\ load = "file" /\ segment' = segment /\ Loadable(p) /\ segment \in DOMAIN elf.phdrs
    BY DEF ph, PlaceInv
  <2>2. CASE load' = "aborted"
    <3>1. mem' = mem  BY <2>2 DEF Write
    <3> QED  BY <1>1, <1>6, <2>1, <2>2, <3>1
  <2>3. CASE load' # "aborted"
    <3>1. p.offset + p.filesz <= elf.size /\ Write(p.paddr, p.filesz, src, "zeros")
      BY <2>3 DEF ph
    <3>2. load' = "zeros"  BY <2>3, <3>1 DEF Write
    <3>3. PlaceInv'  BY <1>1, <1>2, <2>1, <3>2 DEF PlaceInv, ph
    <3>4. /\ p.paddr \in Nat /\ p.filesz \in Nat /\ p.memsz \in Nat /\ p.offset \in Nat
          /\ elf.size \in Nat /\ segment \in Segments
      BY <2>1, FileFacts DEF Segments
    <3>5. CASE p.filesz <= p.memsz
      <4>1. ASSUME NEW a \in Addrs \cap Span(p.paddr, p.filesz)
            PROVE  /\ segment \in Covering(a) /\ src[a - p.paddr] = Part(segment, a)
                   /\ Done(a)' = Done(a) \cup {segment} /\ \A j \in Done(a) : j < segment
        <5>1. /\ a - p.paddr \in 0..p.filesz - 1 /\ a \in Span(p.paddr, p.memsz)
              /\ a - p.paddr < p.filesz /\ p.offset + (a - p.paddr) < elf.size
          <6> HIDE DEF p
          <6> QED  BY <1>nat, <3>1, <3>4, <3>5, SpanFacts
        <5>2. segment \in Covering(a)  BY <3>4, <5>1 DEF Covering
        <5>3. src[a - p.paddr] = Part(segment, a)  BY <5>1 DEF Part
        <5>4. \A j \in Done(a) : j < segment  BY <2>1 DEF Done
        <5>5. Done(a)' = Done(a) \cup {segment}
          BY <1>3, <2>1, <3>2, <5>1, <5>2 DEF Done
        <5> QED  BY <5>2, <5>3, <5>4, <5>5
      <4>2. ASSUME NEW a \in Addrs \ Span(p.paddr, p.filesz) PROVE Done(a)' = Done(a)
        <5>1. segment \in Covering(a) => ~(a - p.paddr < p.filesz)
          <6>1. segment \in Covering(a) => a \in Span(p.paddr, p.memsz)  BY DEF Covering
          <6>2. a \in Span(p.paddr, p.memsz) /\ a \notin Span(p.paddr, p.filesz)
                  => ~(a - p.paddr < p.filesz)
            <7>1. a \in Span(p.paddr, p.memsz) => p.paddr <= a
              <8> HIDE DEF p
              <8> QED  BY <1>nat, <3>4, SpanFacts
            <7> HIDE DEF p
            <7> QED  BY <1>nat, <3>4, <7>1, SpanFacts
          <6> QED  BY <6>1, <6>2
        <5> QED  BY <1>3, <2>1, <3>2, <5>1 DEF Done
      <4> HIDE DEF src, p
      <4>3. MemInv'
        BY <1>1, <2>1, <2>3, <3>1, <3>4, <4>1, <4>2, PartWritten DEF Sound
      <4> QED  BY <1>1, <3>3, <4>3
    <3>6. CASE ~(p.filesz <= p.memsz)
      <4>1. ~Sound'  BY <1>2, <2>1, <3>2, <3>6 DEF Sound
      <4>2. mem' = [x \in Addrs |-> mem'[x]]
        <5>1. mem' = mem \/ mem' = Stored(p.paddr, p.filesz, src)  BY <3>1 DEF Write
        <5> QED  BY <5>1 DEF MemInv, Stored
      <4> QED  BY <1>1, <3>3, <4>1, <4>2 DEF MemInv
    <3> QED  BY <3>5, <3>6
  <2> QED  BY <2>2, <2>3
<1>12. CASE Zeros
  <2> USE <1>12 DEF Zeros, NextSegment
  <2> DEFINE p == elf.phdrs[segment]
             at == p.paddr + p.filesz
             n == p.memsz - p.filesz
             src == [k \in 0..n - 1 |-> 0]
  <2>1. load = "zeros" /\ Loadable(p) /\ segment \in DOMAIN elf.phdrs
    BY DEF ph, PlaceInv
  <2>2. /\ p.paddr \in Nat /\ p.filesz \in Nat /\ p.memsz \in Nat /\ segment \in Segments
    BY <2>1, FileFacts DEF Segments
  <2>3. CASE p.memsz < p.filesz
    BY <1>1, <1>6, <2>3 DEF ph
  <2>4. CASE ~(p.memsz < p.filesz)
    <3>1. Write(at, n, src, Past(segment + 1)) /\ segment' = segment + 1
      BY <2>4 DEF ph
    <3>2. CASE load' = "aborted"
      <4>1. mem' = mem  BY <3>1, <3>2, <1>4 DEF Write
      <4>2. PlaceInv'  BY <1>1, <1>2, <3>1, <3>2 DEF PlaceInv
      <4>3. MemInv'  BY <3>2, <4>1 DEF MemInv, Sound
      <4> QED  BY <1>1, <4>2, <4>3
    <3>3. CASE load' # "aborted"
      <4>1. load' = Past(segment + 1)  BY <3>1, <3>3 DEF Write
      <4>2. PlaceInv'  BY <1>1, <1>2, <1>4, <3>1, <4>1 DEF PlaceInv
      <4>3. at \in Nat /\ n \in Nat /\ Sound  BY <2>1, <2>2, <2>4 DEF Sound, ph
      <4>4. ASSUME NEW a \in Addrs \cap Span(at, n)
            PROVE  /\ segment \in Covering(a) /\ src[a - at] = Part(segment, a)
                   /\ Done(a)' = Done(a) \cup {segment} /\ \A j \in Done(a) : j < segment
        <5>1. /\ a - at \in 0..n - 1 /\ a \in Span(p.paddr, p.memsz)
              /\ ~(a - p.paddr < p.filesz)
          <6>1. /\ a \in Span(p.paddr, p.memsz) /\ a \notin Span(p.paddr, p.filesz)
                /\ a - at \in 0..n - 1 /\ p.paddr <= a
            <7>1. p.filesz <= p.memsz /\ a \in Nat /\ a \in Span(at, n)  BY <1>nat, <2>2, <2>4
            <7> HIDE DEF p
            <7> QED  BY <2>2, <7>1, SpanFacts
          <6> HIDE DEF p
          <6> QED  BY <1>nat, <2>2, <6>1, SpanFacts
        <5>2. segment \in Covering(a)  BY <2>2, <5>1 DEF Covering
        <5>3. src[a - at] = 0 /\ Part(segment, a) = 0  BY <5>1 DEF Part
        <5>4. \A j \in Done(a) : j < segment  BY <5>1 DEF Done
        <5>5. \A j \in Covering(a) : j < segment + 1 <=> j < segment \/ j = segment
          BY <1>2, <1>5
        <5>6. Done(a)' = Done(a) \cup {segment}
          BY <1>3, <1>4, <3>1, <4>1, <5>1, <5>2, <5>5 DEF Done
        <5> QED  BY <5>2, <5>3, <5>4, <5>6
      <4>5. ASSUME NEW a \in Addrs \ Span(at, n) PROVE Done(a)' = Done(a)
        <5>1. segment \in Covering(a) => a - p.paddr < p.filesz
          <6>1. segment \in Covering(a) => a \in Span(p.paddr, p.memsz)  BY DEF Covering
          <6>2. a \in Span(p.paddr, p.memsz) /\ a \notin Span(at, n)
                  => a - p.paddr < p.filesz
            BY <1>nat, <2>2, <2>4 DEF Span
          <6> QED  BY <6>1, <6>2
        <5>2. \A j \in Covering(a) : j < segment + 1 <=> j < segment \/ j = segment
          BY <1>2, <1>5
        <5> QED  BY <1>3, <1>4, <2>1, <3>1, <4>1, <5>1, <5>2 DEF Done
      <4> HIDE DEF src, at, n, p
      <4>6. MemInv'
        BY <1>1, <2>2, <3>1, <3>3, <4>3, <4>4, <4>5, PartWritten
      <4> QED  BY <1>1, <4>2, <4>6
    <3> QED  BY <3>2, <3>3
  <2> QED  BY <2>3, <2>4
<1>13. CASE Sections
  <2> USE <1>13 DEF Sections
  <2>1. /\ load = "sections" /\ segment' = segment /\ mem' = mem /\ load' \in {"loaded", "aborted"}
    OBVIOUS
  <2>2. \A a : Done(a)' = Done(a)  BY <1>3, <2>1 DEF Done
  <2>3. MemInv'  BY <1>1, <2>1, <2>2, NothingWritten DEF Sound
  <2>4. PlaceInv'  BY <1>1, <1>2, <2>1 DEF PlaceInv
  <2> QED  BY <1>1, <2>3, <2>4
<1> QED  BY <1>7, <1>8, <1>9, <1>10, <1>11, <1>12, <1>13 DEF LoadNext
-------------------------------------------------------------------------------
(* The two programs.                                                         *)

PhaseInv ==
  /\ phase = "args" => load = "no" /\ path = None
  /\ program = "elf2hex" /\ phase \in {"load", "printed"} => LinesOK
  /\ phase = "printed" =>
       /\ program = "elf2hex" /\ load = "loaded"
       /\ image = [line \in 1..backend.depth |->
                     [j \in 1..backend.width |->
                        mem[backend.base + line * backend.width - j]]]
  /\ program = "htif" /\ phase = "reset" /\ path # None => load = "loaded"

BootInv == ArgsInv /\ FileOK /\ MemInv /\ PlaceInv /\ PhaseInv

LEMMA BootStarts == Init => BootInv
<1> SUFFICES ASSUME Init PROVE BootInv
  OBVIOUS
<1>1. PICK inv \in Invocations :
        /\ program = inv.program
        /\ ParseInit(inv.argv)
        /\ LoadInit(inv.elf, inv.backend, Garbage)
        /\ phase = "args" /\ path = None
  BY DEF Init
<1>2. /\ inv.program \in {"htif", "elf2hex"}
      /\ inv.argv \in Seq({inv.argv[i] : i \in DOMAIN inv.argv})
      /\ inv.elf \in Elfs /\ inv.backend \in Backends
      /\ inv.program = "elf2hex" <=> inv.backend.kind = "hex"
      /\ inv.backend.base + inv.backend.width * inv.backend.depth <= Size
  BY BootConstants
<1>3. FileOK  BY <1>1, <1>2 DEF FileOK, LoadInit
<1>4. ArgsInv
  <2>1. /\ argv = inv.argv /\ optind = 1 /\ opterr = TRUE /\ parse = "on"
        /\ sig_file = None /\ chroot = None /\ dynamic_devices = <<>>
    BY <1>1 DEF ParseInit
  <2>2. ArgvOK  BY <1>2, <2>1 DEF ArgvOK
  <2>3. Len(argv) \in Nat  BY <2>2 DEF ArgvOK
  <2>4. \A text : ValuesOf(text)[1 - 1] = <<>>  BY <2>2, ValueSteps
  <2>5. LastOr(<<>>) = None  BY DEF LastOr
  <2>6. optind <= Len(argv) => ~IsValue[1]
    <3>1. Len(argv) >= 1 => 1 \in 0..Len(argv)  BY <2>3
    <3>2. ~(1 > 1)  OBVIOUS
    <3> QED  BY <2>1, <2>2, <3>1, <3>2, ValuePlaces
  <2>7. ~Tolerated(1)  BY DEF Tolerated, Switches
  <2>8. optind <= Len(argv) => ReadTo(optind, opterr, dynamic_devices, sig_file, chroot)
    <3>1. \A j : j \notin 1..1 - 1  OBVIOUS
    <3> QED  BY <2>1, <2>4, <2>5, <2>6, <2>7, <3>1 DEF ReadTo
  <2>9. ReadSoFar
    <3>1. optind \in 1..Len(argv) + 1 /\ opterr \in BOOLEAN  BY <2>1, <2>3
    <3> QED  BY <2>8, <3>1 DEF ReadSoFar
  <2> QED  BY <2>1, <2>2, <2>9 DEF ArgsInv, TargetArgs
<1>5. load = "no" /\ segment = 1 /\ mem = Fresh(Garbage)  BY <1>1 DEF LoadInit
<1>6. MemInv
  <2>1. ASSUME NEW a \in Addrs PROVE Settled(a)
    <3>1. \A i \in Covering(a) : i \in Nat /\ i >= 1
      BY <1>3, FileFacts DEF Covering, Segments
    <3>2. Done(a) = {}  BY <1>5, <3>1 DEF Done
    <3> QED  BY <1>5, <3>2 DEF Settled, SettledBy, Last
  <2>2. mem = [x \in Addrs |-> mem[x]]  BY <1>5 DEF Fresh
  <2> QED  BY <2>1, <2>2 DEF MemInv
<1>7. PlaceInv  BY <1>5 DEF PlaceInv
<1>8. PhaseInv  BY <1>1, <1>5 DEF PhaseInv
<1> QED  BY <1>3, <1>4, <1>6, <1>7, <1>8 DEF BootInv

\* What a step leaves alone keeps its part of the invariant.
LEMMA Kept ==
  ASSUME BootInv
  PROVE  /\ UNCHANGED parsevars => ArgsInv'
         /\ UNCHANGED loadvars => MemInv' /\ PlaceInv'
         /\ UNCHANGED filevars /\ program' = program => FileOK' /\ (LinesOK' <=> LinesOK)
<1>1. ASSUME UNCHANGED parsevars PROVE ArgsInv'
  <2>1. argv' = argv /\ optind' = optind /\ opterr' = opterr /\ parse' = parse
        /\ UNCHANGED options /\ targs' = targs
    BY <1>1 DEF parsevars
  <2>2. ArgvOK' /\ ReadSoFar'
    BY <2>1, SamePlaces DEF BootInv, ArgsInv, ArgvOK, ReadSoFar, ReadTo, options
  <2>3. TargetArgs'
    BY <2>1, SamePlaces DEF BootInv, ArgsInv, TargetArgs, Positions, options
  <2> QED  BY <2>2, <2>3 DEF ArgsInv
<1>2. ASSUME UNCHANGED loadvars PROVE MemInv' /\ PlaceInv'
  <2>1. /\ UNCHANGED filevars /\ elf' = elf /\ mem' = mem /\ load' = load /\ segment' = segment
    BY <1>2 DEF loadvars, filevars
  <2>2. \A a : Done(a)' = Done(a)  BY <2>1, SameFile DEF Done
  <2>3. Sound' <=> Sound  BY <2>1 DEF Sound, ph
  <2>4. MemInv'
    <3>1. CASE Sound  BY <2>1, <2>2, <3>1, NothingWritten DEF BootInv
    <3>2. CASE ~Sound  BY <2>1, <2>3, <3>2 DEF BootInv, MemInv
    <3> QED  BY <3>1, <3>2
  <2>5. PlaceInv'  BY <2>1 DEF BootInv, PlaceInv, ph
  <2> QED  BY <2>4, <2>5
<1>3. ASSUME UNCHANGED filevars, program' = program PROVE FileOK' /\ (LinesOK' <=> LinesOK)
  BY <1>3 DEF BootInv, FileOK, LinesOK, filevars
<1> QED  BY <1>1, <1>2, <1>3

LEMMA BootStep == BootInv /\ [Next]_vars => BootInv'
<1> SUFFICES ASSUME BootInv, [Next]_vars PROVE BootInv'
  OBVIOUS
<1>1. CASE UNCHANGED vars
  <2>1. UNCHANGED parsevars /\ UNCHANGED loadvars /\ UNCHANGED bootvars
    BY <1>1 DEF vars
  <2>2. FileOK' /\ (LinesOK' <=> LinesOK)
    BY <2>1, Kept DEF loadvars, bootvars
  <2>3. PhaseInv'
    BY <2>1, <2>2 DEF BootInv, PhaseInv, loadvars, filevars, bootvars
  <2> QED  BY <2>1, <2>2, <2>3, Kept DEF BootInv
<1>2. CASE Parse
  <2>1. ArgsInv'  BY <1>2, ReadStep DEF Parse, BootInv
  <2>2. UNCHANGED loadvars /\ UNCHANGED bootvars  BY <1>2 DEF Parse
  <2>3. FileOK' /\ (LinesOK' <=> LinesOK)
    BY <2>2, Kept DEF loadvars, bootvars
  <2>4. PhaseInv'
    BY <2>2, <2>3 DEF BootInv, PhaseInv, loadvars, filevars, bootvars
  <2> QED  BY <2>1, <2>2, <2>3, <2>4, Kept DEF BootInv
<1>3. CASE Start
  <2>1. UNCHANGED parsevars /\ UNCHANGED loadvars /\ program' = program
        /\ program = "htif" /\ phase = "args"
        /\ \/ phase' = "reset" /\ path' = path
           \/ phase' \in {"load", "threw"}
    BY <1>3 DEF Start
  <2>2. FileOK'  BY <2>1, Kept DEF loadvars
  <2>3. PhaseInv'  BY <2>1 DEF BootInv, PhaseInv
  <2> QED  BY <2>1, <2>2, <2>3, Kept DEF BootInv
<1>4. CASE Load
  <2>1. /\ UNCHANGED parsevars /\ UNCHANGED bootvars /\ program' = program /\ phase' = "load"
        /\ phase = "load" /\ LoadNext
    BY <1>4 DEF Load, bootvars
  <2>2. backend.kind = "hex" => LinesOK  BY <2>1 DEF BootInv, FileOK, PhaseInv
  <2>3. MemInv' /\ PlaceInv' /\ filevars' = filevars
    BY <2>1, <2>2, LoadStep DEF BootInv
  <2>4. FileOK' /\ (LinesOK' <=> LinesOK)  BY <2>1, <2>3, Kept
  <2>5. PhaseInv'  BY <2>1, <2>4 DEF BootInv, PhaseInv
  <2> QED  BY <2>1, <2>3, <2>4, <2>5, Kept DEF BootInv
<1>5. CASE UseSymbols
  <2>1. UNCHANGED parsevars /\ UNCHANGED loadvars /\ program' = program /\ path' = path
        /\ program = "htif" /\ phase' = "reset" /\ load = "loaded" /\ load' = load
    BY <1>5 DEF UseSymbols, loadvars
  <2>2. FileOK'  BY <2>1, Kept DEF loadvars
  <2>3. PhaseInv'  BY <2>1 DEF PhaseInv
  <2> QED  BY <2>1, <2>2, <2>3, Kept DEF BootInv
<1>6. CASE CheckArgs
  <2>1. UNCHANGED parsevars /\ UNCHANGED loadvars /\ program' = program
        /\ program = "elf2hex" /\ phase' \in {"load", "usage"}
    BY <1>6 DEF CheckArgs
  <2>2. phase' = "load" => LinesOK  BY <1>6 DEF CheckArgs, IsPowerOf2, LinesOK
  <2>3. FileOK' /\ (LinesOK' <=> LinesOK)  BY <2>1, Kept DEF loadvars
  <2>4. PhaseInv'  BY <2>1, <2>2, <2>3 DEF PhaseInv
  <2> QED  BY <2>1, <2>3, <2>4, Kept DEF BootInv
<1>7. CASE PrintLines
  <2>1. UNCHANGED parsevars /\ UNCHANGED loadvars /\ program' = program
        /\ program = "elf2hex" /\ phase = "load" /\ phase' = "printed" /\ load = "loaded"
        /\ load' = load /\ backend' = backend /\ mem' = mem
        /\ image' = [line \in 1..backend.depth |->
                       [j \in 1..backend.width |->
                          mem[backend.base + line * backend.width - j]]]
    BY <1>7 DEF PrintLines, loadvars, filevars
  <2>2. FileOK' /\ (LinesOK' <=> LinesOK)  BY <2>1, Kept DEF loadvars
  <2>3. PhaseInv'  BY <2>1, <2>2 DEF BootInv, PhaseInv
  <2> QED  BY <2>1, <2>2, <2>3, Kept DEF BootInv
<1> QED  BY <1>1, <1>2, <1>3, <1>4, <1>5, <1>6, <1>7 DEF Next

\* A program that is loaded has settled every address.
LEMMA Loaded ==
  ASSUME BootInv, load = "loaded", NEW a \in Addrs
  PROVE  /\ Covering(a) = {} => mem[a] = Fresh(Garbage)[a]
         /\ Covering(a) # {} =>
              /\ \/ mem[a] = Says(a)
                 \/ backend.kind = "target" /\ a \in backend.preloaded /\ Overlap(a)
                 \/ backend.kind = "hex" /\ Says(a) = 0 /\ Overlap(a)
              /\ backend.kind = "hex" => InDepth(a) \/ Says(a) = 0
<1>1. Covering(a) \subseteq 1..Len(elf.phdrs) /\ Len(elf.phdrs) \in Nat
  BY FileFacts DEF BootInv, Covering, Segments
<1>2. Done(a) = Covering(a)
  <2>1. \A i \in Covering(a) : i < segment  BY <1>1 DEF BootInv, PlaceInv
  <2> QED  BY <2>1 DEF Done
<1>3. SettledBy(a, Covering(a), mem[a])  BY <1>2 DEF BootInv, MemInv, Sound, Settled
<1>4. ASSUME Covering(a) # {}
      PROVE  /\ \/ mem[a] = Says(a)
                \/ backend.kind = "target" /\ a \in backend.preloaded /\ Overlap(a)
                \/ backend.kind = "hex" /\ Says(a) = 0 /\ Overlap(a)
             /\ backend.kind = "hex" => InDepth(a) \/ Says(a) = 0
  <2>1. PICK i : Last(i, Covering(a))  BY <1>1, <1>4, HasLast
  <2>2. Says(a) = Part(i, a) /\ i \in Covering(a)  BY <2>1, SaysLast DEF BootInv, Last
  <2> QED  BY <1>3, <2>1, <2>2 DEF SettledBy
<1> QED  BY <1>3, <1>4 DEF SettledBy

LEMMA BootSafe == BootInv => TargetArgs /\ ProgramArrives
<1> SUFFICES ASSUME BootInv PROVE TargetArgs /\ ProgramArrives
  OBVIOUS
<1>1. TargetArgs  BY DEF BootInv, ArgsInv
<1>2. ImageLoaded
  <2> SUFFICES ASSUME program = "htif", phase = "reset", path # None, NEW a \in Addrs
               PROVE  IF Covering(a) = {} THEN mem[a] = Garbage
                      ELSE mem[a] = Says(a) \/ (Overlap(a) /\ a \in backend.preloaded)
    BY DEF ImageLoaded
  <2>1. load = "loaded" /\ backend.kind # "hex"  BY DEF BootInv, PhaseInv, FileOK
  <2>2. Covering(a) = {} => Fresh(Garbage)[a] = Garbage  BY <2>1 DEF Fresh
  <2> QED  BY <2>1, <2>2, Loaded
<1>3. HexImage
  <2> SUFFICES ASSUME phase = "printed" PROVE HexImage
    BY DEF HexImage
  <2>1. /\ load = "loaded" /\ backend.kind = "hex" /\ LinesOK /\ FileOK
        /\ image = [line \in 1..backend.depth |->
                      [j \in 1..backend.width |->
                         mem[backend.base + line * backend.width - j]]]
    BY DEF BootInv, PhaseInv, FileOK
  <2>2. \A a \in Addrs : Covering(a) = {} => mem[a] = 0
    <3>1. \A a \in Addrs : Covering(a) = {} => Fresh(Garbage)[a] = 0  BY <2>1 DEF Fresh
    <3> QED  BY <2>1, <3>1, Loaded
  <2>3. ASSUME NEW line \in 1..backend.depth, NEW j \in 1..backend.width
        PROVE  /\ backend.base + line * backend.width - j \in Addrs
               /\ image[line][j] = mem[backend.base + line * backend.width - j]
    <3>1. backend.base \in Nat /\ backend.width \in Nat /\ backend.depth \in Nat /\ Size \in Nat
      BY <2>1, FileFacts
    <3>2. PICK w \in Nat, d \in Nat, b \in Nat :
            w = backend.width /\ d = backend.depth /\ b = backend.base
      BY <3>1
    <3>3. line \in Nat /\ j \in Nat /\ line >= 1 /\ j >= 1 /\ j <= w /\ line <= d
      BY <3>2
    <3>4. b + w * d <= Size  BY <2>1, <3>2 DEF FileOK
    <3>5. line * w >= w /\ line * w <= w * d /\ line * w \in Nat /\ w * d \in Nat
      <4>1. PICK u \in Nat : line = 1 + u
        <5>1. line - 1 \in Nat /\ line = 1 + (line - 1)  BY <3>3
        <5> QED  BY <5>1
      <4>2. PICK v \in Nat : d = line + v
        <5>1. d - line \in Nat /\ d = line + (d - line)  BY <3>2, <3>3
        <5> QED  BY <5>1
      <4>3. line * w = w + u * w /\ u * w \in Nat  BY <3>2, <4>1
      <4>4. w * d = line * w + v * w /\ v * w \in Nat  BY <3>2, <3>3, <4>2
      <4>5. line * w \in Nat /\ w * d \in Nat  BY <3>2, <3>3
      <4> QED  BY <3>2, <4>3, <4>4, <4>5
    <3>6. b + line * w - j \in 0..Size - 1
      BY <3>1, <3>2, <3>3, <3>4, <3>5
    <3> QED  BY <2>1, <3>2, <3>6 DEF Addrs
  <2> QED  BY <2>1, <2>2, <2>3, Loaded DEF HexImage
<1> QED  BY <1>1, <1>2, <1>3 DEF ProgramArrives

-------------------------------------------------------------------------------

\* The invariant of both programs, from their arguments to the image.
THEOREM BootInvariant == Spec => []BootInv
<1> QED  BY BootStarts, BootStep, PTL DEF Spec

\* htif_t::parse_arguments: the target gets the first argument that is no option,
\* no option's value and not within a +permissive section, or the first after "--",
\* and what follows; the options before it hold, and no others.
THEOREM TargetArgsTheorem == Spec => []TargetArgs
<1> QED  BY BootInvariant, BootSafe, PTL

\* load_elf through both backends: the program arrives in the target's memory or in
\* the lines of elf2hex, and nothing else does.
THEOREM ProgramArrivesTheorem == Spec => []ProgramArrives
<1> QED  BY BootInvariant, BootSafe, PTL
===============================================================================
