---------------------------- MODULE DtmRegisterProofs --------------------------
(***************************************************************************)
(* Proofs about Dtm: what its routines do to the registers of the harts.   *)
(* An outline of registers says what each register that matters holds (a   *)
(* term), and what the routine in progress has saved; every access and     *)
(* routine leads from one to the next, as the outlines of the control in   *)
(* DtmProofs do.                                                           *)
(***************************************************************************)
EXTENDS DtmProofs

-------------------------------------------------------------------------------
(* Types of the outlines.                                                   *)

LEMMA TermTypes ==
  /\ Any \in Terms /\ Kept(1) \in Terms /\ Kept(2) \in Terms
  /\ \A x \in Nat : Is(x) \in Terms
  /\ \A t \in Terms : Wiped(t) \in Terms
  /\ \A t \in Terms, u \in Terms : Whole(t, u) \in Terms
BY DEF Terms, Wiped, Whole

LEMMA ValueNat ==
  /\ Value \subseteq Nat /\ Entry \in Value /\ Word \subseteq Nat
  /\ Addrs \subseteq Value /\ XWords \in {1, 2} /\ ValueBase \in Nat \ {0}
<1>1. WordBase \in Nat \ {0, 1} /\ WordBase * WordBase \in Nat \ {0}
  BY DebugModuleConstants
<1>2. ValueBase \in Nat \ {0}  BY <1>1 DEF ValueBase
<1> QED  BY <1>1, <1>2, DebugModuleConstants DEF Value, Word

LEMMA ZeroValue == 0 \in Value /\ \A v \in Value : v \in Nat
<1>1. ValueBase \in Nat \ {0} /\ Value \subseteq Nat  BY ValueNat
<1> QED  BY <1>1 DEF Value

LEMMA FactTypes ==
  ASSUME NEW f \in Facts
  PROVE  /\ OutOfHand(f) \in Facts /\ Elsewhere(f) \in Facts /\ Forgotten(f) \in Facts
         /\ NoData(f) \in Facts /\ Looped(f) \in Facts
         /\ \A t \in Terms, i \in {0, 1} : Put(f, i, t) \in Facts
         /\ \A i \in {0, 1} : Taken(f, i) \in Facts
         /\ \A x \in {"s0", "s1"} : Saved(f, x) \in Facts
         /\ \A c \in CommandType : Moved(f, c) \in Facts
<1>1. OutOfHand(f) \in Facts  BY TermTypes DEF OutOfHand, Facts
<1>2. Elsewhere(f) \in Facts  BY <1>1, TermTypes DEF Elsewhere, Facts
<1>3. Forgotten(f) \in Facts  BY TermTypes DEF Forgotten, Facts
<1>4. NoData(f) \in Facts /\ Looped(f) \in Facts  BY TermTypes DEF NoData, Looped, Facts
<1>5. \A t \in Terms, i \in {0, 1} : Put(f, i, t) \in Facts  BY DEF Put, Facts
<1>6. \A i \in {0, 1} : Taken(f, i) \in Facts  BY DEF Taken, Facts
<1>7. \A x \in {"s0", "s1"} : Saved(f, x) \in Facts
  <2>1. Whole(f.w0, f.w1) \in Terms  BY TermTypes DEF Facts
  <2> QED  BY <2>1 DEF Saved, Facts
<1>8. \A c \in CommandType : Moved(f, c) \in Facts
  <2>1. Whole(f.d0, f.d1) \in Terms  BY TermTypes DEF Facts
  <2> QED  BY <2>1, TermTypes DEF Moved, Facts
<1> QED  BY <1>1, <1>2, <1>3, <1>4, <1>5, <1>6, <1>7, <1>8

LEMMA CsrTypes ==
  ASSUME NEW f \in Facts, NEW h, NEW type, CsrFits(f, type), NEW i
  PROVE  CsrMid(f, h, type, i) \in Facts
<1>1. Whole(f.d0, f.d1) \in Terms  BY TermTypes DEF Facts
<1>2. NewPc(f, type) \in Terms
  BY <1>1, TermTypes, ValueNat DEF NewPc, CsrFits
<1>3. NewReady(f, h, type) \in Nat  BY DEF NewReady, Facts
<1> QED  BY <1>1, <1>2, <1>3, TermTypes DEF CsrMid, Facts

LEMMA FirstOfOne ==
  ASSUME NEW b
  PROVE  <<b>>[1] = b
OBVIOUS

\* The first instruction tells the programs apart.
LEMMA ProgramsDiffer ==
  ASSUME NEW p
  PROVE  /\ ~(CsrProgram(p) /\ FenceProgram(p))
         /\ ~(CsrProgram(p) /\ MemoryProgram(p))
         /\ ~(FenceProgram(p) /\ MemoryProgram(p))
<1>1. CsrProgram(p) => p[0][1] = "CSRRW dscratch"
  <2>1. CsrProgram(p) => p[0] = <<"CSRRW dscratch">>  BY Zenon DEF CsrProgram
  <2>2. <<"CSRRW dscratch">>[1] = "CSRRW dscratch"  BY FirstOfOne
  <2> QED  BY <2>1, <2>2
<1>2. FenceProgram(p) => p[0][1] = "FENCE_I"  BY DEF FenceProgram
<1>3. MemoryProgram(p) =>
        p[0][1] \in {"LOAD s1", "STORE s1", "STORE x0", "ADDI s0", "BNE", "EBREAK"}
  <2>1. ASSUME NEW n \in 0..5, EndsAt(p, n)
        PROVE  p[0] \in MemoryInstructions \cup {<<"EBREAK">>}
    <3>1. n = 0 \/ 0 \in 0..n - 1  OBVIOUS
    <3> QED  BY <2>1, <3>1 DEF EndsAt
  <2>2. MemoryProgram(p) => p[0] \in MemoryInstructions \cup {<<"EBREAK">>}
    BY <2>1 DEF MemoryProgram
  <2>3. \A x \in MemoryInstructions \cup {<<"EBREAK">>} :
          x[1] \in {"LOAD s1", "STORE s1", "STORE x0", "ADDI s0", "BNE", "EBREAK"}
    BY FirstOfOne DEF MemoryInstructions
  <2> QED  BY <2>2, <2>3
<1> QED  BY <1>1, <1>2, <1>3

LEMMA DoneTypes ==
  ASSUME NEW r \in Outlines, r.run # "no", r.run = "this" => MayCommand(r, r.c)
  PROVE  Done(r) \in Facts
<1>1. r.f \in Facts /\ r.c \in CommandType  BY DEF Outlines
<1>2. Forgotten(r.f) \in Facts /\ Moved(r.f, r.c) \in Facts  BY <1>1, FactTypes
<1>3. [r.f EXCEPT !.fenced = TRUE] \in Facts  BY <1>1 DEF Facts
<1>4. ASSUME r.run = "this", r.c.postexec
      PROVE  Executed(r.f, r.prog, r.cur) \in Facts
  <2>1. CASE MemoryProgram(r.prog)  BY <2>1, <1>2 DEF Executed
  <2>2. CASE ~MemoryProgram(r.prog) /\ CsrProgram(r.prog)
    <3>1. CsrFits(r.f, r.prog[2][2])
      BY <1>4, <2>2, ProgramsDiffer DEF MayCommand
    <3> QED  BY <3>1, <2>2, <1>1, CsrTypes DEF Executed
  <2>3. CASE ~MemoryProgram(r.prog) /\ ~CsrProgram(r.prog)
    BY <2>3, <1>3 DEF Executed
  <2> QED  BY <2>1, <2>2, <2>3
<1> QED  BY <1>2, <1>4 DEF Done, Outlines
LEMMA FreshType ==
  ASSUME NEW h \in Nat, NEW t \in Terms, NEW n \in Nat, NEW b \in BOOLEAN
  PROVE  Fresh(h, t, n, b) \in Outlines
<1>1. Unknown \in [0..5 -> Instructions]
  <2>1. Any \in Instructions  BY DEF Instructions
  <2> QED  BY <2>1 DEF Unknown
<1>2. NoCommand \in CommandType  BY DEF NoCommand, CommandType
<1> QED  BY <1>1, <1>2, TermTypes DEF Fresh, Outlines, Facts

LEMMA UnknownType == Unknown \in [0..5 -> Instructions] /\ NoCommand \in CommandType
<1>1. Any \in Instructions  BY DEF Instructions
<1> QED  BY <1>1 DEF Unknown, NoCommand, CommandType

LEMMA AfterTypes ==
  ASSUME NEW r \in Outlines, NEW x, MayRegisters(r, x),
         x[1] \in {"dmcontrol", "writeHartsel", "progbuf", "data", "saved", "command",
                   "abstractcs", "readData", "save", "auto", "hart"},
         x[1] = "abstractcs" /\ r.run = "this" => MayCommand(r, r.c)
  PROVE  AfterRegisters(r, x) \in Outlines
<1>1. r.f \in Facts  BY DEF Outlines
<1>2. CASE x[1] \in {"dmcontrol", "writeHartsel"}
  <2>1. OutOfHand(r.f) \in Facts /\ Elsewhere(r.f) \in Facts  BY <1>1, FactTypes
  <2> QED  BY <1>2, <2>1, UnknownType DEF AfterRegisters, LetGo, Outlines
<1>3. CASE x[1] = "progbuf"
  <2>1. x[2] \in 0..5 /\ x[3] \in Instructions  BY <1>3 DEF MayRegisters
  <2> QED  BY <1>3, <2>1 DEF AfterRegisters, Outlines
<1>4. CASE x[1] = "data"
  <2>1. x[2] \in {0, 1} /\ Is(x[3]) \in Terms  BY <1>4, TermTypes, ValueNat DEF MayRegisters
  <2>2. Put(r.f, x[2], Is(x[3])) \in Facts  BY <1>1, <2>1, FactTypes
  <2> QED  BY <1>4, <2>2 DEF AfterRegisters, Outlines
<1>5. CASE x[1] = "saved"
  <2>1. x[2] \in {0, 1} /\ r.f.v0 \in Terms /\ r.f.v1 \in Terms
    BY <1>1, <1>5, ValueNat DEF MayRegisters, Facts
  <2>2. Put(r.f, x[2], IF x[3] = "s0" THEN r.f.v0 ELSE r.f.v1) \in Facts
    BY <1>1, <2>1, FactTypes
  <2> QED  BY <1>5, <2>2 DEF AfterRegisters, Outlines
<1>6. CASE x[1] = "command"
  BY <1>6 DEF AfterRegisters, MayRegisters, MayCommand, Outlines
<1>7. CASE x[1] = "abstractcs"
  <2>1. r.run # "no"  BY <1>7 DEF MayRegisters
  <2>2. Done(r) \in Facts  BY <1>7, <2>1, DoneTypes
  <2> QED  BY <1>7, <2>2, UnknownType DEF AfterRegisters, Outlines
<1>8. CASE x[1] = "readData"
  <2>1. x[2] \in {0, 1}  BY <1>8, ValueNat DEF MayRegisters
  <2>2. Taken(r.f, x[2]) \in Facts  BY <1>1, <2>1, FactTypes
  <2> QED  BY <1>8, <2>2 DEF AfterRegisters, Outlines
<1>9. CASE x[1] = "save"
  <2>1. x[2] \in {"s0", "s1"}  BY <1>9 DEF MayRegisters
  <2>2. Saved(r.f, x[2]) \in Facts  BY <1>1, <2>1, FactTypes
  <2> QED  BY <1>9, <2>2 DEF AfterRegisters, Outlines
<1>10. CASE x[1] = "auto"
  BY <1>10 DEF AfterRegisters, MayRegisters, Outlines
<1>11. CASE x[1] = "hart"
  <2>1. x[2] \in Nat  BY <1>11 DEF MayRegisters
  <2>2. [r.f EXCEPT !.pc = Any, !.fenced = FALSE] \in Facts  BY <1>1, TermTypes DEF Facts
  <2> QED  BY <1>11, <2>1, <2>2, <1>1 DEF AfterRegisters, ChangeTo, Outlines
<1> QED
  BY <1>2, <1>3, <1>4, <1>5, <1>6, <1>7, <1>8, <1>9, <1>10, <1>11

-------------------------------------------------------------------------------
(* When an outline of the registers holds.                                  *)

ValueOf(t) == IF t[1] = "kept" THEN kept[hartsel][t[2]] ELSE t[2]
Says(t, x) == t[1] # "any" => x = ValueOf(t)
SaysWord(t, i, w) == t[1] # "any" => w = Nthword(ValueOf(t), i)

FactsHold(f) ==
  /\ hartsel \in Harts =>
       Says(f.s0, s0[hartsel]) /\ Says(f.s1, s1[hartsel]) /\ Says(f.ds, dscratch[hartsel])
  /\ Says(f.v0, saved.s0) /\ Says(f.v1, saved.s1)
  /\ SaysWord(f.d0, 0, data[0]) /\ SaysWord(f.w0, 0, words[0])
  /\ XWords = 2 => SaysWord(f.d1, 1, data[1]) /\ SaysWord(f.w1, 1, words[1])
  /\ current_hart \in Harts =>
       Says(f.pc, pc[current_hart]) /\ (f.fenced => current_hart \notin stale)
  /\ f.pc[1] # "kept"
  /\ \A h \in Harts : h < f.ready => pc[h] = Entry /\ h \notin stale

\* In the middle of a program, before the instruction at xpc.
MidHolds(r) ==
  /\ r.run = "this" => r.c.postexec
  /\ IF MemoryProgram(r.prog)
     THEN /\ \E n \in 0..5 : EndsAt(r.prog, n) /\ xpc \in 0..n
          /\ FactsHold(Forgotten(r.f))
     ELSE IF CsrProgram(r.prog)
     THEN xpc \in 0..5 /\ FactsHold(CsrMid(r.f, r.cur, r.prog[2][2], xpc))
     ELSE /\ xpc \in 0..1
          /\ FactsHold(IF xpc = 0 THEN r.f ELSE [r.f EXCEPT !.fenced = TRUE])

ValueTypes ==
  /\ s0 \in [Harts -> Value] /\ s1 \in [Harts -> Value]
  /\ dscratch \in [Harts -> Value] /\ pc \in [Harts -> Value]
  /\ data \in [0..1 -> Word] /\ words \in [0..1 -> Word] /\ DOMAIN progbuf = 0..5
  /\ saved \in [s0 : Value, s1 : Value]
  /\ kept \in [Harts -> Value \X Value] /\ mem \in [Addrs -> Value]

\* What holds of the harts that are not in hand, and of the one that is once it may
\* run again.
HandHolds(r) ==
  /\ \A h \in Harts : h # hartsel => s0[h] = kept[h][1] /\ s1[h] = kept[h][2]
  /\ hartsel \notin halted \/ resumereq # {} =>
       r.run = "no" /\ Clean(r.f) /\ NoneKept(r.f)

RunHolds(r) ==
  /\ r.run = "no" => ~busy /\ FactsHold(r.f)
  /\ r.run # "no" => hartsel = current_hart /\ hartsel \in Harts
  /\ r.run = "this" => command = r.c /\ MayCommand(r, r.c)
  /\ r.run = "some" => MemoryProgram(r.prog)
  /\ busy /\ xpc = -1 => FactsHold(r.f)
  /\ busy /\ xpc # -1 => MidHolds(r)
  /\ ~busy /\ r.run # "no" => FactsHold(Done(r))

PlaceHolds(r) ==
  /\ r \in Outlines
  /\ current_hart = r.cur /\ abstractauto = r.auto
  /\ \A i \in 0..5 : r.prog[i] # Any => progbuf[i] = r.prog[i]

RegistersHold(r) == ValueTypes /\ PlaceHolds(r) /\ HandHolds(r) /\ RunHolds(r)

-------------------------------------------------------------------------------
(* Words of a value.                                                        *)

LEMMA Division ==
  ASSUME NEW w \in Nat \ {0}, NEW v \in Nat
  PROVE  /\ v \div w \in Nat /\ v % w \in 0..w - 1
         /\ v = (w * (v \div w)) + (v % w)
OBVIOUS

LEMMA Times ==
  ASSUME NEW w \in Nat \ {0}, NEW q \in Nat, NEW b \in Nat, w * q < w * b
  PROVE  q < b
<1>1. ASSUME q >= b PROVE FALSE
  <2>1. PICK k \in Nat : q = b + k  BY <1>1
  <2>2. w * q = w * b + w * k  BY <2>1
  <2>3. w * k \in Nat  OBVIOUS
  <2> QED  BY <2>2, <2>3
<1> QED  BY <1>1

LEMMA BelowSquare ==
  ASSUME NEW w \in Nat \ {0}, NEW a \in 0..w - 1, NEW b \in 0..w - 1
  PROVE  a + w * b \in 0..w * w - 1
<1> DEFINE k == w - 1 - b
<1>1. k \in Nat /\ w = b + k + 1  OBVIOUS
<1> HIDE DEF k
<1>2. w * (b + k + 1) = w * b + w * k + w  BY <1>1
<1>3. w * k \in Nat /\ w * b \in Nat /\ w * w \in Nat  BY <1>1
<1> QED  BY <1>1, <1>2, <1>3

LEMMA WordTypes ==
  /\ \A v \in Nat, i \in {0, 1} : Nthword(v, i) \in Word
  /\ \A d \in [0..1 -> Word] : DataValue(d) \in Value
<1>1. WordBase \in Nat \ {0, 1} /\ WordBase \in Nat \ {0}  BY DebugModuleConstants
<1>2. ASSUME NEW v \in Nat, NEW i \in {0, 1} PROVE Nthword(v, i) \in Word
  <2>1. (IF i = 0 THEN v ELSE v \div WordBase) \in Nat  BY <1>1, Division
  <2> QED  BY <2>1, <1>1, Division DEF Nthword, Word
<1>3. ASSUME NEW d \in [0..1 -> Word] PROVE DataValue(d) \in Value
  <2>1. d[0] \in 0..WordBase - 1 /\ d[1] \in 0..WordBase - 1  BY DEF Word
  <2>2. CASE XWords = 1  BY <2>1, <2>2 DEF DataValue, Value, ValueBase
  <2>3. CASE XWords # 1
    <3>1. d[0] + WordBase * d[1] \in 0..WordBase * WordBase - 1  BY <2>1, <1>1, BelowSquare
    <3> QED  BY <3>1, <2>3 DEF DataValue, Value, ValueBase
  <2> QED  BY <2>2, <2>3
<1> QED  BY <1>2, <1>3

\* A value is made of its words.
LEMMA WordsOf ==
  ASSUME NEW v \in Value, NEW d, d[0] = Nthword(v, 0), XWords = 2 => d[1] = Nthword(v, 1)
  PROVE  DataValue(d) = v
<1>1. WordBase \in Nat \ {0} /\ v \in Nat  BY DebugModuleConstants, ValueNat
<1>2. CASE XWords = 1
  <2>1. v \in 0..WordBase - 1  BY <1>2 DEF Value, ValueBase
  <2> QED  BY <1>1, <1>2, <2>1 DEF DataValue, Nthword
<1>3. CASE XWords = 2
  <2> DEFINE q == v \div WordBase
  <2>1. q \in Nat /\ v = (WordBase * q) + (v % WordBase) /\ v % WordBase \in 0..WordBase - 1
    BY <1>1, Division
  <2> HIDE DEF q
  <2>2. v < WordBase * WordBase
    BY <1>1, <1>3 DEF Value, ValueBase
  <2>3. WordBase * q < WordBase * WordBase
    <3>1. WordBase * q \in Nat /\ WordBase * WordBase \in Nat  BY <1>1, <2>1
    <3> QED  BY <2>1, <2>2, <3>1, <1>1
  <2>4. q < WordBase  BY <2>1, <2>3, <1>1, Times
  <2>5. q % WordBase = q  BY <2>1, <2>4, <1>1
  <2>6. d[0] = v % WordBase  BY DEF Nthword
  <2>7. d[1] = q  BY <2>5, <1>3 DEF Nthword, q
  <2>8. WordBase * q \in Nat  BY <1>1, <2>1
  <2>9. DataValue(d) = d[0] + WordBase * d[1]  BY <1>3 DEF DataValue
  <2> QED  BY <2>1, <2>6, <2>7, <2>8, <2>9
<1> QED  BY <1>2, <1>3, ValueNat

-------------------------------------------------------------------------------
(* Facts that stay.                                                         *)

noted == <<hartsel, current_hart, s0, s1, dscratch, pc, stale, kept, saved, data, words>>
placed == <<current_hart, abstractauto, progbuf>>

LEMMA FactsSame ==
  ASSUME NEW f, FactsHold(f), UNCHANGED noted
  PROVE  FactsHold(f)'
BY DEF FactsHold, noted, Says, SaysWord, ValueOf

Weaker(g, f) ==
  /\ g.s0 \in {Any, f.s0} /\ g.s1 \in {Any, f.s1} /\ g.ds \in {Any, f.ds}
  /\ g.v0 \in {Any, f.v0} /\ g.v1 \in {Any, f.v1}
  /\ g.d0 \in {Any, f.d0} /\ g.d1 \in {Any, f.d1}
  /\ g.w0 \in {Any, f.w0} /\ g.w1 \in {Any, f.w1} /\ g.pc \in {Any, f.pc}
  /\ g.ready <= f.ready /\ g.ready \in Nat /\ f.ready \in Nat /\ (g.fenced => f.fenced)

LEMMA AnySays ==
  /\ \A x : Says(Any, x)
  /\ \A i, w : SaysWord(Any, i, w)
  /\ Any[1] = "any"
BY DEF Says, SaysWord, Any

LEMMA WeakerHolds ==
  ASSUME NEW f, NEW g, FactsHold(f), Weaker(g, f)
  PROVE  FactsHold(g)
<1>1. ASSUME NEW h \in Harts, h < g.ready PROVE h < f.ready
  <2>1. h \in Nat  BY Constants DEF Harts
  <2> QED  BY <1>1, <2>1 DEF Weaker
<1> QED  BY <1>1, AnySays DEF FactsHold, Weaker

LEMMA WeakerHoldsNext ==
  ASSUME NEW f, NEW g, FactsHold(f)', Weaker(g, f)
  PROVE  FactsHold(g)'
<1>1. ASSUME NEW h \in Harts, h < g.ready PROVE h < f.ready
  <2>1. h \in Nat  BY Constants DEF Harts
  <2> QED  BY <1>1, <2>1 DEF Weaker
<1> QED  BY <1>1, AnySays DEF FactsHold, Weaker, Says, SaysWord

LEMMA WeakerFacts ==
  ASSUME NEW f \in Facts
  PROVE  /\ Weaker(f, f) /\ Weaker(Forgotten(f), f) /\ Weaker(NoData(f), f)
         /\ Weaker(Looped(f), f)
BY DEF Weaker, Facts, Forgotten, NoData, Looped

LEMMA HarmlessWord ==
  ASSUME NEW t0 \in Terms, NEW t1 \in Terms, ValueTypes,
         NEW w, SaysWord(t0, 0, w[0]), XWords = 2 => SaysWord(t1, 1, w[1]),
         t0[1] = "kept" => hartsel \in Harts
  PROVE  Says(Whole(t0, t1), DataValue(w))
<1>1. CASE Whole(t0, t1) = Any  BY <1>1, AnySays
<1>2. CASE Whole(t0, t1) # Any
  <2>1. Whole(t0, t1) = t0 /\ (XWords = 1 \/ t0 = t1) /\ (t0[1] = "is" => t0[2] \in Value)
    BY <1>2 DEF Whole
  <2>2. CASE t0 = Any  BY <2>1, <2>2, <1>2
  <2>3. CASE t0 # Any
    <3>1. t0[1] # "any"  BY <2>3 DEF Terms, Kept, Is, Any
    <3>2. ValueOf(t0) \in Value
      <4>1. CASE t0 = Kept(1) \/ t0 = Kept(2)
        <5>1. t0[1] = "kept" /\ t0[2] \in {1, 2}  BY <4>1 DEF Kept
        <5>2. kept[hartsel] \in Value \X Value  BY <5>1 DEF ValueTypes
        <5> QED  BY <5>1, <5>2 DEF ValueOf
      <4>2. CASE \E x \in Nat : t0 = Is(x)
        <5>1. t0[1] = "is"  BY <4>2 DEF Is
        <5> QED  BY <5>1, <2>1 DEF ValueOf
      <4> QED  BY <4>1, <4>2, <2>3 DEF Terms
    <3>3. w[0] = Nthword(ValueOf(t0), 0) /\ (XWords = 2 => w[1] = Nthword(ValueOf(t0), 1))
      <4>1. XWords = 2 => t0 = t1  BY <2>1
      <4> QED  BY <4>1, <3>1 DEF SaysWord
    <3>4. DataValue(w) = ValueOf(t0)  BY <3>2, <3>3, WordsOf
    <3> QED  BY <2>1, <3>4 DEF Says
  <2> QED  BY <2>2, <2>3
<1> QED  BY <1>1, <1>2

LEMMA HandKept ==
  ASSUME NEW r, NEW q, HandHolds(r), UNCHANGED <<s0, s1, kept, hartsel>>,
         halted' = {hartsel}, resumereq' = {}
  PROVE  HandHolds(q)'
BY DEF HandHolds

\* The hart is in hand.
LEMMA InHand ==
  ASSUME NEW a, ControlHolds(a), Held(a)
  PROVE  /\ dmactive /\ halted = {hartsel} /\ resumereq = {} /\ hartsel \in Harts
         /\ hartsel = current_hart
         /\ a.e # "run" => ~busy
         /\ a.e = "ok" => cmderr = 0
<1>1. StageOK(a) /\ CommandOK(a) /\ FoundOK(a) /\ a.h = hartsel /\ a.on = dmactive
      /\ a \in Controls
  BY ControlParts
<1> QED  BY <1>1 DEF Held, StageOK, CommandOK, CommandAt, FoundOK, Controls

-------------------------------------------------------------------------------
(* One access.                                                              *)

\* An access that leaves the hart alone, between commands.
LEMMA QuietStep ==
  ASSUME NEW r, NEW q, RegistersHold(r), r.run = "no", q \in Outlines, q.run = "no",
         UNCHANGED <<s0, s1, dscratch, pc, mem, kept, hartsel>>,
         (HandHolds(q) /\ ValueTypes)', ~busy', FactsHold(q.f)', PlaceHolds(q)'
  PROVE  RegistersHold(q)'
BY DEF RegistersHold, RunHolds

LEMMA ProgbufStep ==
  ASSUME NEW a, NEW r, NEW x, ControlHolds(a), MayControl(a, x),
         RegistersHold(r), MayRegisters(r, x), x[1] = "progbuf",
         ProgbufWrite(x[2], x[3]), UNCHANGED <<found, current_hart, locals, control, history>>
  PROVE  RegistersHold(AfterRegisters(r, x))'
<1> DEFINE q == AfterRegisters(r, x)
<1>1. Held(a) /\ a.e = "ok"  BY DEF MayControl
<1>2. /\ dmactive /\ halted = {hartsel} /\ resumereq = {} /\ ~busy
  BY <1>1, InHand
<1>3. /\ progbuf' = [progbuf EXCEPT ![x[2]] = x[3]]
      /\ UNCHANGED <<selection, requests, halted, regs, mem, stale, program, data, command,
                     abstractauto, busy, cmderr, xpc>>
  BY <1>2 DEF ProgbufWrite, Writing
<1>4. r \in Outlines /\ r.run = "no" /\ x[2] \in 0..5
  BY DEF RegistersHold, PlaceHolds, MayRegisters
<1>5. q \in Outlines  BY <1>4, AfterTypes
<1>6. q = [r EXCEPT !.prog = [r.prog EXCEPT ![x[2]] = x[3]]]  BY DEF AfterRegisters
<1>7. q.run = "no" /\ q.f = r.f /\ q.auto = r.auto /\ q.cur = r.cur  BY <1>4, <1>6 DEF Outlines
<1>8. q.prog = [r.prog EXCEPT ![x[2]] = x[3]]  BY <1>4, <1>6 DEF Outlines
<1> HIDE DEF q
<1>9. ValueTypes'
  BY <1>3 DEF RegistersHold, ValueTypes, regs, locals, history
<1>10. PlaceHolds(q)'
  <2>1. \A i \in 0..5 : q.prog[i] # Any => progbuf'[i] = q.prog[i]
    <3> SUFFICES ASSUME NEW i \in 0..5, q.prog[i] # Any PROVE progbuf'[i] = q.prog[i]
      OBVIOUS
    <3>1. DOMAIN progbuf = 0..5 /\ DOMAIN r.prog = 0..5
      BY <1>4 DEF RegistersHold, ValueTypes, Outlines
    <3>2. CASE i = x[2]  BY <3>1, <3>2, <1>3, <1>8
    <3>3. CASE i # x[2]
      BY <3>1, <3>3, <1>3, <1>8 DEF RegistersHold, PlaceHolds
    <3> QED  BY <3>2, <3>3
  <2> QED  BY <2>1, <1>3, <1>5, <1>7 DEF RegistersHold, PlaceHolds
<1>11. HandHolds(q)'  BY <1>2, <1>3, HandKept DEF RegistersHold, selection, requests, regs, history
<1>12. FactsHold(q.f)'
  BY <1>3, <1>4, <1>7, FactsSame DEF RegistersHold, RunHolds, noted, selection, regs, locals, history
<1>13. RegistersHold(q)'
  BY <1>2, <1>3, <1>4, <1>5, <1>7, <1>9, <1>10, <1>11, <1>12, QuietStep
     DEF selection, regs, history
<1> QED  BY <1>13 DEF q

LEMMA AutoStep ==
  ASSUME NEW a, NEW r, NEW x, ControlHolds(a), MayControl(a, x),
         RegistersHold(r), MayRegisters(r, x), x[1] = "auto",
         AutoWrite(x[2]), UNCHANGED <<found, current_hart, locals, control, history>>
  PROVE  RegistersHold(AfterRegisters(r, x))'
<1> DEFINE q == AfterRegisters(r, x)
<1>1. Held(a) /\ a.e = "ok"  BY DEF MayControl
<1>2. /\ dmactive /\ halted = {hartsel} /\ resumereq = {} /\ ~busy
  BY <1>1, InHand
<1>3. /\ abstractauto' = x[2]
      /\ UNCHANGED <<selection, requests, halted, regs, mem, stale, program, data, command,
                     progbuf, busy, cmderr, xpc>>
  BY <1>2 DEF AutoWrite, Writing
<1>4. r \in Outlines /\ r.run = "no"
  BY DEF RegistersHold, PlaceHolds, MayRegisters
<1>5. q \in Outlines  BY <1>4, AfterTypes
<1>6. q = [r EXCEPT !.auto = x[2]]  BY DEF AfterRegisters
<1>7. q.run = "no" /\ q.f = r.f /\ q.prog = r.prog /\ q.cur = r.cur  BY <1>4, <1>6 DEF Outlines
<1>8. q.auto = x[2]  BY <1>4, <1>6 DEF Outlines
<1> HIDE DEF q
<1>9. ValueTypes'
  BY <1>3 DEF RegistersHold, ValueTypes, regs, locals, history
<1>10. PlaceHolds(q)'  BY <1>3, <1>5, <1>7, <1>8 DEF RegistersHold, PlaceHolds
<1>11. HandHolds(q)'  BY <1>2, <1>3, HandKept DEF RegistersHold, selection, requests, regs, history
<1>12. FactsHold(q.f)'
  BY <1>3, <1>4, <1>7, FactsSame DEF RegistersHold, RunHolds, noted, selection, regs, locals, history
<1>13. RegistersHold(q)'
  BY <1>2, <1>3, <1>4, <1>5, <1>7, <1>9, <1>10, <1>11, <1>12, QuietStep
     DEF selection, regs, history
<1> QED  BY <1>13 DEF q

LEMMA CommandStep ==
  ASSUME NEW a, NEW r, NEW x, ControlHolds(a), MayControl(a, x),
         RegistersHold(r), MayRegisters(r, x), x[1] = "command",
         CommandWrite(x[2]), UNCHANGED <<found, current_hart, locals, control, history>>
  PROVE  RegistersHold(AfterRegisters(r, x))'
<1> DEFINE q == AfterRegisters(r, x)
<1>1. Held(a) /\ a.e = "ok"  BY DEF MayControl, Ready
<1>2. /\ dmactive /\ halted = {hartsel} /\ resumereq = {} /\ ~busy /\ cmderr = 0
      /\ hartsel = current_hart /\ hartsel \in Harts
  BY <1>1, InHand
<1>3. /\ command' = x[2] /\ Start(x[2])
      /\ UNCHANGED <<selection, requests, halted, regs, mem, stale, program, data,
                     progbuf, abstractauto>>
  BY <1>2 DEF CommandWrite, Writing
<1>4. r \in Outlines /\ r.run = "no" /\ MayCommand(r, x[2]) /\ r.f \in Facts
  BY DEF RegistersHold, PlaceHolds, MayRegisters, Outlines
<1>5. q \in Outlines  BY <1>4, AfterTypes
<1>6. q = [r EXCEPT !.run = "this", !.c = x[2]]  BY DEF AfterRegisters
<1>7. q.f = r.f /\ q.prog = r.prog /\ q.cur = r.cur /\ q.auto = r.auto
  BY <1>4, <1>6 DEF Outlines
<1>8. q.run = "this" /\ q.c = x[2]  BY <1>4, <1>6 DEF Outlines
<1> HIDE DEF q
<1>9. ValueTypes'
  BY <1>3 DEF RegistersHold, ValueTypes, regs, locals, history
<1>10. PlaceHolds(q)'  BY <1>3, <1>5, <1>7, <1>8 DEF RegistersHold, PlaceHolds
<1>11. HandHolds(q)'  BY <1>2, <1>3, HandKept DEF RegistersHold, selection, requests, regs, history
<1>12. FactsHold(r.f)'
  BY <1>3, <1>4, FactsSame DEF RegistersHold, RunHolds, noted, selection, regs, locals, history
<1>13. MayCommand(q, q.c)  BY <1>4, <1>7, <1>8 DEF MayCommand
<1>14. \/ busy' = TRUE /\ xpc' = -1
       \/ busy' = busy /\ x[2].size > Xlen
  BY <1>2, <1>3 DEF Start
<1>15. ASSUME x[2].size > Xlen PROVE FactsHold(Done(q))'
  <2>1. ~x[2].write /\ ~x[2].postexec /\ x[2].size # Xlen
    <3>1. x[2].size # Xlen  BY <1>15, Constants
    <3> QED  BY <3>1, <1>4 DEF MayCommand
  <2>2. Done(q) = NoData(r.f)  BY <2>1, <1>7, <1>8 DEF Done, Moved, NoData
  <2>3. Weaker(NoData(r.f), r.f)  BY <1>4, WeakerFacts
  <2>4. FactsHold(NoData(r.f))'  BY <1>12, <2>3, WeakerHoldsNext
  <2> QED  BY <2>2, <2>4
<1>16. RunHolds(q)'
  BY <1>2, <1>3, <1>7, <1>8, <1>12, <1>13, <1>14, <1>15 DEF RunHolds, selection
<1>17. RegistersHold(q)'  BY <1>9, <1>10, <1>11, <1>16 DEF RegistersHold
<1> QED  BY <1>17 DEF q

\* A data register is written with a word of v, which the term t stands for.
LEMMA PutHolds ==
  ASSUME NEW f \in Facts, NEW i \in 0..XWords - 1, NEW t \in Terms, NEW v,
         FactsHold(f), ValueTypes, Says(t, v),
         data' = [data EXCEPT ![i] = Nthword(v, i)],
         UNCHANGED <<hartsel, current_hart, s0, s1, dscratch, pc, stale, kept, saved, words>>
  PROVE  FactsHold(Put(f, i, t))'
<1>1. data \in [0..1 -> Word] /\ i \in {0, 1} /\ (i = 1 => XWords = 2)
  BY ValueNat DEF ValueTypes
<1>2. ASSUME i = 0 PROVE FactsHold(Put(f, i, t))'
  <2> DEFINE g == Put(f, i, t)
  <2>1. /\ g.s0 = f.s0 /\ g.s1 = f.s1 /\ g.v0 = f.v0 /\ g.v1 = f.v1 /\ g.d0 = t /\ g.d1 = f.d1
        /\ g.w0 = f.w0 /\ g.w1 = f.w1 /\ g.ds = f.ds /\ g.pc = f.pc /\ g.ready = f.ready
        /\ g.fenced = f.fenced
    BY <1>2 DEF Put, Facts
  <2>2. data'[0] = Nthword(v, 0) /\ data'[1] = data[1]  BY <1>1, <1>2
  <2>3. SaysWord(t, 0, data[0])'  BY <2>2 DEF SaysWord, Says, ValueOf
  <2> HIDE DEF g
  <2>4. FactsHold(g)'  BY <2>1, <2>2, <2>3 DEF FactsHold, Says, SaysWord, ValueOf
  <2> QED  BY <2>4 DEF g
<1>3. ASSUME i = 1 PROVE FactsHold(Put(f, i, t))'
  <2> DEFINE g == Put(f, i, t)
  <2>1. /\ g.s0 = f.s0 /\ g.s1 = f.s1 /\ g.v0 = f.v0 /\ g.v1 = f.v1 /\ g.d0 = f.d0 /\ g.d1 = t
        /\ g.w0 = f.w0 /\ g.w1 = f.w1 /\ g.ds = f.ds /\ g.pc = f.pc /\ g.ready = f.ready
        /\ g.fenced = f.fenced
    BY <1>3 DEF Put, Facts
  <2>2. data'[1] = Nthword(v, 1) /\ data'[0] = data[0]  BY <1>1, <1>3
  <2>3. SaysWord(t, 1, data[1])'  BY <2>2 DEF SaysWord, Says, ValueOf
  <2> HIDE DEF g
  <2>4. FactsHold(g)'  BY <2>1, <2>2, <2>3 DEF FactsHold, Says, SaysWord, ValueOf
  <2> QED  BY <2>4 DEF g
<1> QED  BY <1>1, <1>2, <1>3

\* The term for what is written to a data register.
Given(r, x) ==
  IF x[1] = "data" THEN Is(x[3]) ELSE IF x[3] = "s0" THEN r.f.v0 ELSE r.f.v1

LEMMA DataStep ==
  ASSUME NEW a, NEW r, NEW x, ControlHolds(a), MayControl(a, x),
         RegistersHold(r), MayRegisters(r, x), x[1] \in {"data", "saved"},
         NEW v, v = (IF x[1] = "data" THEN x[3] ELSE saved[x[3]]),
         DataWrite(x[2], Nthword(v, x[2])),
         UNCHANGED <<found, current_hart, locals, control, history>>
  PROVE  RegistersHold(AfterRegisters(r, x))'
<1> DEFINE q == AfterRegisters(r, x)
           t == Given(r, x)
           f == Put(r.f, x[2], t)
           on == x[1] = "data" /\ x[2] = 0 /\ r.auto
<1>1. Held(a) /\ a.e = "ok"  BY DEF MayControl, Ready
<1>2. /\ dmactive /\ halted = {hartsel} /\ resumereq = {} /\ ~busy /\ cmderr = 0
      /\ hartsel = current_hart /\ hartsel \in Harts
  BY <1>1, InHand
<1>3. /\ data' = [data EXCEPT ![x[2]] = Nthword(v, x[2])]
      /\ IF x[2] = 0 /\ abstractauto THEN Start(command) ELSE UNCHANGED <<busy, cmderr, xpc>>
      /\ UNCHANGED <<selection, requests, halted, regs, mem, stale, program, command,
                     progbuf, abstractauto>>
  BY <1>2 DEF DataWrite, Writing
<1>4. /\ r \in Outlines /\ r.run = "no" /\ x[2] \in 0..XWords - 1 /\ r.f \in Facts
      /\ ValueTypes /\ abstractauto = r.auto /\ r.auto \in BOOLEAN
      /\ FactsHold(r.f)
      /\ x[1] = "data" => x[3] \in Nat /\ (r.auto => MemoryProgram(r.prog))
      /\ x[1] = "saved" => ~r.auto /\ x[3] \in {"s0", "s1"}
  BY DEF RegistersHold, PlaceHolds, RunHolds, MayRegisters, Outlines
<1>5. q \in Outlines  BY <1>4, AfterTypes
<1>6. t \in Terms /\ Says(t, v) /\ v \in Nat
  <2>1. CASE x[1] = "data"
    <3>1. t = Is(x[3]) /\ v = x[3] /\ x[3] \in Nat  BY <2>1, <1>4 DEF Given
    <3>2. Is(x[3]) \in Terms  BY <3>1, TermTypes
    <3> QED  BY <3>1, <3>2 DEF Says, ValueOf, Is
  <2>2. CASE x[1] = "saved"
    <3>1. v = saved[x[3]] /\ x[3] \in {"s0", "s1"}  BY <2>2, <1>4
    <3>2. saved.s0 \in Nat /\ saved.s1 \in Nat  BY <1>4, ValueNat DEF ValueTypes
    <3>3. Says(r.f.v0, saved.s0) /\ Says(r.f.v1, saved.s1)  BY <1>4 DEF FactsHold
    <3>4. r.f.v0 \in Terms /\ r.f.v1 \in Terms  BY <1>4 DEF Facts
    <3>5. CASE x[3] = "s0"  BY <3>1, <3>2, <3>3, <3>4, <3>5, <2>2 DEF Given
    <3>6. CASE x[3] = "s1"  BY <3>1, <3>2, <3>3, <3>4, <3>6, <2>2 DEF Given
    <3> QED  BY <3>1, <3>5, <3>6
  <2> QED  BY <2>1, <2>2
<1> HIDE DEF t
<1>7. /\ q.f = f /\ q.run = (IF on THEN "some" ELSE "no")
      /\ q.auto = r.auto /\ q.cur = r.cur /\ q.prog = r.prog
  <2>1. CASE x[1] = "data"
    <3>1. q = [r EXCEPT !.f = f, !.run = IF x[2] = 0 /\ r.auto THEN "some" ELSE r.run]
      BY <2>1 DEF AfterRegisters, Given, t
    <3> QED  BY <3>1, <2>1, <1>4 DEF Outlines
  <2>2. CASE x[1] = "saved"
    <3>1. q = [r EXCEPT !.f = f]
      BY <2>2 DEF AfterRegisters, Given, t
    <3> QED  BY <3>1, <2>2, <1>4 DEF Outlines
  <2> QED  BY <2>1, <2>2
<1> HIDE DEF q
<1>8. ValueTypes'
  <2>1. Nthword(v, x[2]) \in Word
    <3>1. x[2] \in {0, 1}  BY <1>4, ValueNat
    <3> QED  BY <3>1, <1>6, WordTypes
  <2>2. data' \in [0..1 -> Word]  BY <2>1, <1>3, <1>4 DEF ValueTypes
  <2> QED  BY <2>2, <1>3, <1>4 DEF ValueTypes, regs, locals, history
<1>9. PlaceHolds(q)'  BY <1>3, <1>5, <1>7 DEF RegistersHold, PlaceHolds
<1>10. HandHolds(q)'  BY <1>2, <1>3, HandKept DEF RegistersHold, selection, requests, regs, history
<1>11. FactsHold(f)'
  BY <1>3, <1>4, <1>6, PutHolds DEF selection, regs, locals, history
<1> HIDE DEF f
<1>12. CASE ~on
  <2>1. ~busy'
    <3>1. ~(x[2] = 0 /\ abstractauto)  BY <1>4, <1>12
    <3> QED  BY <3>1, <1>2, <1>3
  <2>2. RegistersHold(q)'
    BY <1>3, <1>4, <1>5, <1>7, <1>8, <1>9, <1>10, <1>11, <1>12, <2>1, QuietStep
       DEF selection, regs, history
  <2> QED  BY <2>2 DEF q
<1>13. CASE on
  <2>1. \/ busy' = TRUE /\ xpc' = -1
        \/ busy' = busy
    BY <1>2, <1>3, <1>4, <1>13 DEF Start
  <2>2. FactsHold(Done(q))'
    <3>1. Done(q) = Forgotten(f)  BY <1>7, <1>13 DEF Done
    <3>2. f \in Facts  BY <1>5, <1>7 DEF Outlines
    <3>3. Weaker(Forgotten(f), f)  BY <3>2, WeakerFacts
    <3>4. FactsHold(Forgotten(f))'  BY <3>3, <1>11, WeakerHoldsNext
    <3> QED  BY <3>1, <3>4
  <2>3. MemoryProgram(q.prog)  BY <1>4, <1>7, <1>13
  <2>4. RunHolds(q)'
    BY <1>2, <1>3, <1>7, <1>11, <1>13, <2>1, <2>2, <2>3 DEF RunHolds, selection
  <2>5. RegistersHold(q)'  BY <1>8, <1>9, <1>10, <2>4 DEF RegistersHold
  <2> QED  BY <2>5 DEF q
<1> QED  BY <1>12, <1>13

\* A step that concerns none of this.
LEMMA SameRegisters ==
  ASSUME NEW r, RegistersHold(r),
         UNCHANGED <<noted, placed, mem, command, busy, xpc, halted, resumereq>>
  PROVE  RegistersHold(r)'
<1>1. UNCHANGED noted /\ UNCHANGED placed
      /\ UNCHANGED <<hartsel, current_hart, s0, s1, dscratch, pc, stale, kept, saved, data, words>>
      /\ UNCHANGED <<mem, command, busy, xpc, halted, resumereq, abstractauto, progbuf>>
  BY DEF noted, placed
<1>2. ValueTypes'  BY <1>1 DEF RegistersHold, ValueTypes
<1>3. PlaceHolds(r)'  BY <1>1 DEF RegistersHold, PlaceHolds
<1>4. HandHolds(r)'  BY <1>1 DEF RegistersHold, HandHolds
<1>5. ASSUME MidHolds(r) PROVE MidHolds(r)'
  <2>1. \A f : FactsHold(f) => FactsHold(f)'  BY <1>1, FactsSame
  <2> QED  BY <2>1, <1>1, <1>5 DEF MidHolds
<1>6. RunHolds(r)'
  <2>1. \A f : FactsHold(f) => FactsHold(f)'  BY <1>1, FactsSame
  <2> QED  BY <2>1, <1>1, <1>5 DEF RunHolds, RegistersHold
<1> QED  BY <1>2, <1>3, <1>4, <1>6 DEF RegistersHold

\* The outline says less.
LEMMA WeakerStep ==
  ASSUME NEW r, NEW q, RegistersHold(r)', r.run = "no", q \in Outlines,
         q.prog = r.prog, q.run = "no", q.auto = r.auto, q.cur = r.cur, Weaker(q.f, r.f),
         Clean(r.f) => Clean(q.f), NoneKept(r.f) => NoneKept(q.f)
  PROVE  RegistersHold(q)'
<1>1. PlaceHolds(q)'  BY DEF RegistersHold, PlaceHolds
<1>2. HandHolds(q)'  BY DEF RegistersHold, HandHolds
<1>3. FactsHold(q.f)' /\ (~busy)'  BY WeakerHoldsNext DEF RegistersHold, RunHolds
<1>4. RunHolds(q)'  BY <1>3 DEF RunHolds
<1> QED  BY <1>1, <1>2, <1>4 DEF RegistersHold

LEMMA ReadDataStep ==
  ASSUME NEW a, NEW r, NEW x, ControlHolds(a), MayControl(a, x),
         RegistersHold(r), MayRegisters(r, x), x[1] = "readData",
         DataRead(x[2]), words' = [words EXCEPT ![x[2]] = data[x[2]]],
         UNCHANGED <<found, current_hart, saved, history>>
  PROVE  RegistersHold(AfterRegisters(r, x))'
<1> DEFINE q == AfterRegisters(r, x)
           f == Taken(r.f, x[2])
<1>1. Held(a) /\ a.e # "run" /\ ~a.auto  BY DEF MayControl
<1>2. /\ dmactive /\ halted = {hartsel} /\ resumereq = {} /\ ~busy /\ ~abstractauto
  BY <1>1, InHand, ControlParts
<1>3. UNCHANGED <<selection, requests, halted, regs, mem, stale, program, command,
                  progbuf, abstractauto, data, busy, cmderr, xpc>>
  BY <1>2 DEF DataRead, Writing
<1>4. /\ r \in Outlines /\ r.run = "no" /\ x[2] \in 0..XWords - 1 /\ r.f \in Facts
      /\ ValueTypes /\ FactsHold(r.f) /\ x[2] \in {0, 1} /\ (x[2] = 1 => XWords = 2)
  BY ValueNat DEF RegistersHold, PlaceHolds, RunHolds, MayRegisters, Outlines
<1>5. q \in Outlines  BY <1>4, AfterTypes
<1>6. q = [r EXCEPT !.f = f]  BY DEF AfterRegisters
<1>7. q.f = f /\ q.run = "no" /\ q.auto = r.auto /\ q.cur = r.cur /\ q.prog = r.prog
  BY <1>4, <1>6 DEF Outlines
<1> HIDE DEF q
<1>8. words' \in [0..1 -> Word]  BY <1>4 DEF ValueTypes
<1>9. ValueTypes'  BY <1>3, <1>4, <1>8 DEF ValueTypes, regs, locals, history
<1>10. PlaceHolds(q)'  BY <1>3, <1>5, <1>7 DEF RegistersHold, PlaceHolds
<1>11. HandHolds(q)'  BY <1>2, <1>3, HandKept DEF RegistersHold, selection, requests, regs, history
<1>12. FactsHold(f)'
  <2>1. ASSUME x[2] = 0 PROVE FactsHold(f)'
    <3>1. /\ f.s0 = r.f.s0 /\ f.s1 = r.f.s1 /\ f.v0 = r.f.v0 /\ f.v1 = r.f.v1
          /\ f.d0 = r.f.d0 /\ f.d1 = r.f.d1 /\ f.w0 = r.f.d0 /\ f.w1 = r.f.w1
          /\ f.ds = r.f.ds /\ f.pc = r.f.pc /\ f.ready = r.f.ready /\ f.fenced = r.f.fenced
      BY <2>1, <1>4 DEF Taken, Facts
    <3>2. words'[0] = data[0] /\ words'[1] = words[1]  BY <2>1, <1>4 DEF ValueTypes
    <3> HIDE DEF f
    <3> QED
      BY <3>1, <3>2, <1>3, <1>4
         DEF FactsHold, Says, SaysWord, ValueOf, selection, regs, history
  <2>2. ASSUME x[2] = 1 PROVE FactsHold(f)'
    <3>1. /\ f.s0 = r.f.s0 /\ f.s1 = r.f.s1 /\ f.v0 = r.f.v0 /\ f.v1 = r.f.v1
          /\ f.d0 = r.f.d0 /\ f.d1 = r.f.d1 /\ f.w0 = r.f.w0 /\ f.w1 = r.f.d1
          /\ f.ds = r.f.ds /\ f.pc = r.f.pc /\ f.ready = r.f.ready /\ f.fenced = r.f.fenced
      BY <2>2, <1>4 DEF Taken, Facts
    <3>2. words'[1] = data[1] /\ words'[0] = words[0]  BY <2>2, <1>4 DEF ValueTypes
    <3> HIDE DEF f
    <3> QED
      BY <3>1, <3>2, <1>3, <1>4, <2>2
         DEF FactsHold, Says, SaysWord, ValueOf, selection, regs, history
  <2> QED  BY <2>1, <2>2, <1>4
<1>13. RegistersHold(q)'
  BY <1>2, <1>3, <1>4, <1>5, <1>7, <1>9, <1>10, <1>11, <1>12, QuietStep
     DEF selection, regs, history
<1> QED  BY <1>13 DEF q

LEMMA SaveStep ==
  ASSUME NEW a, NEW r, NEW x, ControlHolds(a), MayControl(a, x),
         RegistersHold(r), MayRegisters(r, x), x[1] = "save",
         saved' = [saved EXCEPT ![x[2]] = DataValue(words)],
         UNCHANGED <<dmvars, found, current_hart, words, history>>
  PROVE  RegistersHold(AfterRegisters(r, x))'
<1> DEFINE q == AfterRegisters(r, x)
           f == Saved(r.f, x[2])
           t == Whole(r.f.w0, r.f.w1)
<1>1. Held(a) /\ a.e # "run"  BY DEF MayControl, Ready
<1>2. /\ halted = {hartsel} /\ resumereq = {} /\ ~busy /\ hartsel \in Harts
  BY <1>1, InHand
<1>3. UNCHANGED <<selection, requests, halted, regs, mem, stale, program, command,
                  progbuf, abstractauto, data, busy, cmderr, xpc>>
  BY DEF dmvars
<1>4. /\ r \in Outlines /\ r.run = "no" /\ x[2] \in {"s0", "s1"} /\ r.f \in Facts
      /\ ValueTypes /\ FactsHold(r.f)
  BY DEF RegistersHold, PlaceHolds, RunHolds, MayRegisters, Outlines
<1>5. q \in Outlines  BY <1>4, AfterTypes
<1>6. q = [r EXCEPT !.f = f]  BY DEF AfterRegisters
<1>7. q.f = f /\ q.run = "no" /\ q.auto = r.auto /\ q.cur = r.cur /\ q.prog = r.prog
  BY <1>4, <1>6 DEF Outlines
<1> HIDE DEF q
<1>8. Says(t, DataValue(words)) /\ DataValue(words) \in Value
  <2>1. r.f.w0 \in Terms /\ r.f.w1 \in Terms  BY <1>4 DEF Facts
  <2>2. Says(t, DataValue(words))  BY <2>1, <1>2, <1>4, HarmlessWord DEF FactsHold
  <2>3. words \in [0..1 -> Word]  BY <1>4 DEF ValueTypes
  <2> QED  BY <2>2, <2>3, WordTypes
<1> HIDE DEF t
<1>9. ValueTypes'
  <2>1. saved' \in [s0 : Value, s1 : Value]  BY <1>4, <1>8 DEF ValueTypes
  <2> QED  BY <2>1, <1>3, <1>4 DEF ValueTypes, regs, history
<1>10. PlaceHolds(q)'  BY <1>3, <1>5, <1>7 DEF RegistersHold, PlaceHolds
<1>11. HandHolds(q)'  BY <1>2, <1>3, HandKept DEF RegistersHold, selection, requests, regs, history
<1>12. FactsHold(f)'
  <2>0. saved = [s0 |-> saved.s0, s1 |-> saved.s1]  BY <1>4 DEF ValueTypes
  <2>1. ASSUME x[2] = "s0" PROVE FactsHold(f)'
    <3>1. /\ f.s0 = r.f.s0 /\ f.s1 = r.f.s1 /\ f.v0 = t /\ f.v1 = r.f.v1
          /\ f.d0 = r.f.d0 /\ f.d1 = r.f.d1 /\ f.w0 = r.f.w0 /\ f.w1 = r.f.w1
          /\ f.ds = r.f.ds /\ f.pc = r.f.pc /\ f.ready = r.f.ready /\ f.fenced = r.f.fenced
      BY <2>1, <1>4 DEF Saved, Facts, t
    <3>2. saved'.s0 = DataValue(words) /\ saved'.s1 = saved.s1  BY <2>0, <2>1
    <3> HIDE DEF f
    <3> QED
      BY <3>1, <3>2, <1>3, <1>4, <1>8
         DEF FactsHold, Says, SaysWord, ValueOf, selection, regs, history
  <2>2. ASSUME x[2] = "s1" PROVE FactsHold(f)'
    <3>1. /\ f.s0 = r.f.s0 /\ f.s1 = r.f.s1 /\ f.v0 = r.f.v0 /\ f.v1 = t
          /\ f.d0 = r.f.d0 /\ f.d1 = r.f.d1 /\ f.w0 = r.f.w0 /\ f.w1 = r.f.w1
          /\ f.ds = r.f.ds /\ f.pc = r.f.pc /\ f.ready = r.f.ready /\ f.fenced = r.f.fenced
      BY <2>2, <1>4 DEF Saved, Facts, t
    <3>2. saved'.s1 = DataValue(words) /\ saved'.s0 = saved.s0  BY <2>0, <2>2
    <3> HIDE DEF f
    <3> QED
      BY <3>1, <3>2, <1>3, <1>4, <1>8
         DEF FactsHold, Says, SaysWord, ValueOf, selection, regs, history
  <2> QED  BY <2>1, <2>2, <1>4
<1>13. RegistersHold(q)'
  BY <1>2, <1>3, <1>4, <1>5, <1>7, <1>9, <1>10, <1>11, <1>12, QuietStep
     DEF selection, regs, history
<1> QED  BY <1>13 DEF q

LEMMA WaitedStep ==
  ASSUME NEW r, NEW x, RegistersHold(r), MayRegisters(r, x), x[1] = "abstractcs", ~busy,
         UNCHANGED <<dmvars, current_hart, words, saved, history>>
  PROVE  RegistersHold(AfterRegisters(r, x))'
<1> DEFINE q == AfterRegisters(r, x)
           f == Done(r)
<1>1. /\ r \in Outlines /\ r.run # "no" /\ FactsHold(f) /\ ValueTypes
      /\ r.run = "this" => MayCommand(r, r.c)
  BY DEF RegistersHold, PlaceHolds, RunHolds, MayRegisters
<1>2. q \in Outlines  BY <1>1, AfterTypes
<1>3. q = [r EXCEPT !.f = f, !.run = "no", !.c = NoCommand]  BY DEF AfterRegisters
<1>4. q.f = f /\ q.run = "no" /\ q.auto = r.auto /\ q.cur = r.cur /\ q.prog = r.prog
  BY <1>1, <1>3 DEF Outlines
<1> HIDE DEF q, f
<1>5. UNCHANGED <<noted, placed, mem, command, busy, xpc, halted, resumereq>>
  BY DEF noted, placed, dmvars, selection, requests, regs, history
<1>6. ValueTypes'  BY <1>1, <1>5 DEF ValueTypes, noted, placed
<1>7. PlaceHolds(q)'  BY <1>2, <1>4, <1>5 DEF RegistersHold, PlaceHolds, placed
<1>8. HandHolds(q)'  BY <1>1, <1>5 DEF RegistersHold, HandHolds, noted
<1>9. FactsHold(f)'  BY <1>1, <1>5, FactsSame
<1>10. RunHolds(q)'  BY <1>4, <1>5, <1>9 DEF RunHolds
<1>11. RegistersHold(q)'  BY <1>6, <1>7, <1>8, <1>10 DEF RegistersHold
<1> QED  BY <1>11 DEF q

LEMMA HartStep ==
  ASSUME NEW r, NEW x, RegistersHold(r), MayRegisters(r, x), x[1] = "hart",
         current_hart' = x[2], UNCHANGED <<dmvars, words, saved, history>>
  PROVE  RegistersHold(AfterRegisters(r, x))'
<1> DEFINE q == AfterRegisters(r, x)
           f == IF x[2] = r.cur THEN r.f ELSE [r.f EXCEPT !.pc = Any, !.fenced = FALSE]
<1>1. /\ r \in Outlines /\ r.run = "no" /\ FactsHold(r.f) /\ ValueTypes /\ ~busy
      /\ r.cur = current_hart /\ r.f \in Facts
  BY DEF RegistersHold, PlaceHolds, RunHolds, MayRegisters, Outlines
<1>2. q \in Outlines  BY <1>1, AfterTypes
<1>3. q = [r EXCEPT !.cur = x[2], !.f = f]  BY DEF AfterRegisters, ChangeTo
<1>4. q.f = f /\ q.run = "no" /\ q.auto = r.auto /\ q.cur = x[2] /\ q.prog = r.prog
  BY <1>1, <1>3 DEF Outlines
<1> HIDE DEF q
<1>5. UNCHANGED <<hartsel, s0, s1, dscratch, pc, stale, kept, saved, data, words, mem, command,
                  busy, xpc, halted, resumereq, abstractauto, progbuf>>
  BY DEF dmvars, selection, requests, regs, history
<1>6. ValueTypes'  BY <1>1, <1>5 DEF ValueTypes
<1>7. PlaceHolds(q)'  BY <1>2, <1>4, <1>5 DEF RegistersHold, PlaceHolds
<1>8. /\ f.s0 = r.f.s0 /\ f.s1 = r.f.s1 /\ f.v0 = r.f.v0 /\ f.v1 = r.f.v1
      /\ f.d0 = r.f.d0 /\ f.d1 = r.f.d1 /\ f.w0 = r.f.w0 /\ f.w1 = r.f.w1
      /\ f.ds = r.f.ds /\ f.ready = r.f.ready
      /\ f.pc = (IF x[2] = r.cur THEN r.f.pc ELSE Any)
      /\ f.fenced = (IF x[2] = r.cur THEN r.f.fenced ELSE FALSE)
  BY <1>1 DEF Facts
<1> HIDE DEF f
<1>9. HandHolds(q)'
  BY <1>1, <1>4, <1>5, <1>8 DEF RegistersHold, HandHolds, Clean, NoneKept
<1>10. FactsHold(f)'
  BY <1>1, <1>5, <1>8, AnySays DEF FactsHold, Says, SaysWord, ValueOf
<1>11. RunHolds(q)'  BY <1>1, <1>4, <1>5, <1>10 DEF RunHolds
<1>12. RegistersHold(q)'  BY <1>6, <1>7, <1>9, <1>11 DEF RegistersHold
<1> QED  BY <1>12 DEF q

\* Every hart has its registers.
LEMMA AllKept ==
  ASSUME NEW r, RegistersHold(r), r.run = "no", Clean(r.f)
  PROVE  \A h \in Harts : s0[h] = kept[h][1] /\ s1[h] = kept[h][2]
<1>1. FactsHold(r.f) /\ HandHolds(r)  BY DEF RegistersHold, RunHolds
<1>2. ASSUME hartsel \in Harts
      PROVE  s0[hartsel] = kept[hartsel][1] /\ s1[hartsel] = kept[hartsel][2]
  <2>1. Says(Kept(1), s0[hartsel]) /\ Says(Kept(2), s1[hartsel])
    BY <1>1, <1>2 DEF FactsHold, Clean
  <2>2. Kept(1)[1] = "kept" /\ Kept(1)[2] = 1 /\ Kept(2)[1] = "kept" /\ Kept(2)[2] = 2
    BY DEF Kept
  <2> QED  BY <2>1, <2>2 DEF Says, ValueOf
<1> QED  BY <1>1, <1>2 DEF HandHolds

LEMMA LetGoFacts ==
  ASSUME NEW f \in Facts, Clean(f)
  PROVE  /\ Clean(OutOfHand(f)) /\ NoneKept(OutOfHand(f))
         /\ Clean(Elsewhere(f)) /\ NoneKept(Elsewhere(f)) /\ Weaker(Elsewhere(f), OutOfHand(f))
<1>1. Any[1] # "kept" /\ Wiped(f.w0)[1] # "kept" /\ Wiped(f.w1)[1] # "kept"
  BY DEF Any, Wiped
<1> DEFINE g == OutOfHand(f)
<1>2. /\ g.s0 = f.s0 /\ g.s1 = f.s1 /\ g.v0 = Any /\ g.v1 = Any /\ g.d0 = Any /\ g.d1 = Any
      /\ g.w0 = Wiped(f.w0) /\ g.w1 = Wiped(f.w1) /\ g.ds = Any /\ g.pc = f.pc
      /\ g.ready = f.ready /\ g.fenced = f.fenced
  BY DEF OutOfHand, Facts
<1>3. g \in Facts  BY FactTypes
<1> HIDE DEF g
<1> DEFINE e == [g EXCEPT !.pc = Any, !.fenced = FALSE]
<1>4. /\ e.s0 = g.s0 /\ e.s1 = g.s1 /\ e.v0 = g.v0 /\ e.v1 = g.v1 /\ e.d0 = g.d0
      /\ e.d1 = g.d1 /\ e.w0 = g.w0 /\ e.w1 = g.w1 /\ e.ds = g.ds /\ e.pc = Any
      /\ e.ready = g.ready /\ e.fenced = FALSE
  BY <1>3 DEF Facts
<1>5. e = Elsewhere(f)  BY DEF Elsewhere, g
<1> HIDE DEF e
<1>6. g.ready \in Nat  BY <1>3 DEF Facts
<1>7. Clean(g) /\ NoneKept(g)  BY <1>1, <1>2 DEF Clean, NoneKept
<1>8. Clean(e) /\ NoneKept(e)  BY <1>1, <1>2, <1>4 DEF Clean, NoneKept
<1>9. Weaker(e, g)  BY <1>4, <1>6 DEF Weaker
<1> QED  BY <1>5, <1>7, <1>8, <1>9 DEF g

\* Another hart may be selected, and this one resume.
LEMMA LetGoHolds ==
  ASSUME NEW r, RegistersHold(r), r.run = "no", Clean(r.f), ~r.auto,
         UNCHANGED <<s0, s1, dscratch, pc, stale, kept, saved, words, mem, current_hart>>,
         data' \in [0..1 -> Word], DOMAIN progbuf' = 0..5, ~busy', abstractauto' = FALSE
  PROVE  RegistersHold(LetGo(r))'
<1> DEFINE q == LetGo(r)
           f == OutOfHand(r.f)
<1>1. /\ r \in Outlines /\ FactsHold(r.f) /\ ValueTypes /\ r.cur = current_hart
      /\ r.f \in Facts /\ r.auto = FALSE
  BY DEF RegistersHold, PlaceHolds, RunHolds, Outlines
<1>2. f \in Facts  BY <1>1, FactTypes
<1>3. q \in Outlines  BY <1>1, <1>2, UnknownType DEF LetGo, Outlines
<1>4. q.f = f /\ q.run = "no" /\ q.auto = FALSE /\ q.cur = r.cur /\ q.prog = Unknown
  BY <1>1 DEF LetGo, Outlines
<1> HIDE DEF q
<1>5. ValueTypes'  BY <1>1 DEF ValueTypes
<1>6. PlaceHolds(q)'  BY <1>1, <1>3, <1>4 DEF PlaceHolds, Unknown
<1>7. Clean(f) /\ NoneKept(f)  BY <1>1, LetGoFacts
<1>8. \A h \in Harts : s0'[h] = kept'[h][1] /\ s1'[h] = kept'[h][2]  BY AllKept
<1>9. HandHolds(q)'  BY <1>4, <1>7, <1>8 DEF HandHolds
<1>10. FactsHold(f)'
  <2>1. /\ f.s0 = Kept(1) /\ f.s1 = Kept(2) /\ f.v0 = Any /\ f.v1 = Any /\ f.d0 = Any
        /\ f.d1 = Any /\ f.w0 = Wiped(r.f.w0) /\ f.w1 = Wiped(r.f.w1) /\ f.ds = Any
        /\ f.pc = r.f.pc /\ f.ready = r.f.ready /\ f.fenced = r.f.fenced
    BY <1>1 DEF OutOfHand, Facts, Clean
  <2> HIDE DEF f
  <2>2. /\ Kept(1)[1] = "kept" /\ Kept(1)[2] = 1 /\ Kept(2)[1] = "kept" /\ Kept(2)[2] = 2
        /\ Any[1] = "any"
    BY DEF Kept, Any
  <2>3. hartsel' \in Harts => (Says(f.s0, s0[hartsel]) /\ Says(f.s1, s1[hartsel])
                               /\ Says(f.ds, dscratch[hartsel]))'
    BY <1>8, <2>1, <2>2 DEF Says, ValueOf
  <2>4. (Says(f.v0, saved.s0) /\ Says(f.v1, saved.s1) /\ SaysWord(f.d0, 0, data[0])
         /\ SaysWord(f.d1, 1, data[1]))'
    BY <2>1, <2>2 DEF Says, SaysWord
  <2>5. \A t, i, w : SaysWord(t, i, w) => SaysWord(Wiped(t), i, w)'
    BY <2>2 DEF SaysWord, ValueOf, Wiped
  <2>6. SaysWord(f.w0, 0, words[0])' /\ (XWords = 2 => SaysWord(f.w1, 1, words[1])')
    BY <2>1, <2>5, <1>1 DEF FactsHold
  <2>7. /\ current_hart' \in Harts =>
             Says(f.pc, pc[current_hart])' /\ (f.fenced => current_hart' \notin stale')
        /\ f.pc[1] # "kept"
        /\ \A h \in Harts : h < f.ready => pc'[h] = Entry /\ h \notin stale'
    BY <2>1, <1>1 DEF FactsHold, Says, ValueOf
  <2> QED  BY <2>3, <2>4, <2>6, <2>7 DEF FactsHold
<1>11. RunHolds(q)'  BY <1>4, <1>10 DEF RunHolds
<1>12. RegistersHold(q)'  BY <1>5, <1>6, <1>9, <1>11 DEF RegistersHold
<1> QED  BY <1>12 DEF q

LEMMA DmcontrolRegs ==
  ASSUME NEW r, NEW x, NEW d, RegistersHold(r), MayRegisters(r, x),
         x[1] \in {"dmcontrol", "writeHartsel"}, WriteDmcontrol(d)
  PROVE  RegistersHold(AfterRegisters(r, x))'
<1> DEFINE q == AfterRegisters(r, x)
           e == LetGo(r)
<1>1. /\ r \in Outlines /\ r.run = "no" /\ Clean(r.f) /\ ~r.auto /\ r.f \in Facts
      /\ abstractauto = FALSE /\ ~busy /\ ValueTypes
  BY DEF RegistersHold, PlaceHolds, RunHolds, MayRegisters, Outlines
<1>2. UNCHANGED <<s0, s1, dscratch, pc, stale, kept, saved, words, mem, current_hart>>
  BY DEF WriteDmcontrol, DmcontrolWrite, regs, locals, history
<1>3. /\ data' \in [0..1 -> Word] /\ DOMAIN progbuf' = 0..5 /\ ~busy'
      /\ abstractauto' = FALSE
  <2>1. [i \in 0..1 |-> 0] \in [0..1 -> Word] /\ DOMAIN EmptyBuffer = 0..5
    BY DebugModuleConstants DEF Word, EmptyBuffer
  <2>2. CASE d.dmactive /\ dmactive
    BY <2>2, <1>1 DEF WriteDmcontrol, DmcontrolWrite, ValueTypes
  <2>3. CASE ~(d.dmactive /\ dmactive)
    BY <2>1, <2>3 DEF WriteDmcontrol, DmcontrolWrite
  <2> QED  BY <2>2, <2>3
<1>4. RegistersHold(e)'  BY <1>1, <1>2, <1>3, LetGoHolds
<1>5. CASE x[1] = "dmcontrol"
  <2>1. q = e  BY <1>5 DEF AfterRegisters
  <2> QED  BY <2>1, <1>4
<1>6. CASE x[1] = "writeHartsel"
  <2>1. q = [r EXCEPT !.f = Elsewhere(r.f), !.prog = Unknown]  BY <1>6 DEF AfterRegisters
  <2>2. /\ q.f = Elsewhere(r.f) /\ q.prog = Unknown /\ q.run = "no" /\ q.auto = r.auto
        /\ q.cur = r.cur
    BY <1>1, <2>1 DEF Outlines
  <2>3. /\ e.f = OutOfHand(r.f) /\ e.prog = Unknown /\ e.run = "no" /\ e.auto = r.auto
        /\ e.cur = r.cur
    BY <1>1 DEF LetGo, Outlines
  <2>4. q \in Outlines  BY <1>1, <1>6, AfterTypes
  <2> HIDE DEF q, e
  <2>5. /\ Weaker(q.f, e.f) /\ Clean(q.f) /\ NoneKept(q.f)
    BY <1>1, <2>2, <2>3, LetGoFacts
  <2>6. RegistersHold(q)'  BY <1>4, <2>2, <2>3, <2>4, <2>5, WeakerStep
  <2> QED  BY <2>6 DEF q
<1> QED  BY <1>5, <1>6

-------------------------------------------------------------------------------
(* The module and the harts.                                                *)

LEMMA ForgottenNext ==
  ASSUME NEW f \in Facts, FactsHold(f) \/ FactsHold(Forgotten(f)),
         UNCHANGED <<hartsel, current_hart, kept, saved, words>>
  PROVE  FactsHold(Forgotten(f))'
<1> DEFINE g == Forgotten(f)
<1>1. /\ g.s0 = Any /\ g.s1 = Any /\ g.v0 = f.v0 /\ g.v1 = f.v1 /\ g.d0 = Any /\ g.d1 = Any
      /\ g.w0 = f.w0 /\ g.w1 = f.w1 /\ g.ds = Any /\ g.pc = Any /\ g.ready = 0
      /\ g.fenced = FALSE
  BY DEF Forgotten, Facts
<1> HIDE DEF g
<1>2. FactsHold(f) \/ FactsHold(g)  BY DEF g
<1>3. Says(f.v0, saved.s0) /\ Says(f.v1, saved.s1) /\ SaysWord(f.w0, 0, words[0])
      /\ (XWords = 2 => SaysWord(f.w1, 1, words[1]))
  BY <1>1, <1>2 DEF FactsHold
<1>4. ~\E h \in Harts : h < 0  BY Constants DEF Harts
<1>5. FactsHold(g)'
  BY <1>1, <1>3, <1>4 DEF FactsHold, Says, SaysWord, ValueOf, Any
<1> QED  BY <1>5 DEF g

\* What the outline says while a command runs.
LEMMA RunFacts ==
  ASSUME NEW r, RegistersHold(r), busy
  PROVE  /\ r \in Outlines /\ r.f \in Facts /\ r.c \in CommandType /\ ValueTypes
         /\ r.prog \in [0..5 -> Instructions] /\ r.run \in {"this", "some"}
         /\ hartsel \in halted /\ resumereq = {}
         /\ hartsel \in Harts /\ hartsel = current_hart /\ r.cur = hartsel
         /\ r.run = "this" => command = r.c /\ MayCommand(r, r.c)
         /\ r.run = "some" => MemoryProgram(r.prog)
         /\ xpc = -1 => FactsHold(r.f)
         /\ xpc # -1 => MidHolds(r)
<1>1. r \in Outlines  BY DEF RegistersHold, PlaceHolds
<1>2. r.run # "no"  BY DEF RegistersHold, RunHolds
<1>3. r.run \in {"this", "some"}  BY <1>1, <1>2 DEF Outlines
<1> QED
  BY <1>1, <1>2, <1>3 DEF RegistersHold, PlaceHolds, HandHolds, RunHolds, Outlines

\* The command does not concern the other harts.
LEMMA RunHandKept ==
  ASSUME NEW r, RegistersHold(r), busy, NEW v, NEW w,
         s0' = s0 \/ s0' = [s0 EXCEPT ![hartsel] = v],
         s1' = s1 \/ s1' = [s1 EXCEPT ![hartsel] = w],
         UNCHANGED <<kept, hartsel, halted, resumereq>>
  PROVE  HandHolds(r)'
<1>1. hartsel \in halted /\ resumereq = {} /\ ValueTypes /\ HandHolds(r)
  BY RunFacts DEF RegistersHold
<1> QED  BY <1>1 DEF HandHolds, ValueTypes

LEMMA MovedFields ==
  ASSUME NEW f \in Facts, NEW c \in CommandType, ~c.write => c.regno \in {"s0", "s1"}
  PROVE  LET g == Moved(f, c) IN
         /\ g.v0 = f.v0 /\ g.v1 = f.v1 /\ g.w0 = f.w0 /\ g.w1 = f.w1
         /\ g.ds = f.ds /\ g.pc = f.pc /\ g.ready = f.ready /\ g.fenced = f.fenced
         /\ g.s0 = (IF c.write /\ c.regno = "s0" THEN Whole(f.d0, f.d1) ELSE f.s0)
         /\ g.s1 = (IF c.write /\ c.regno = "s1" THEN Whole(f.d0, f.d1) ELSE f.s1)
         /\ g.d0 = (IF c.write THEN f.d0
                    ELSE IF c.size # Xlen THEN Any
                    ELSE IF c.regno = "s0" THEN f.s0 ELSE f.s1)
         /\ g.d1 = (IF c.write THEN f.d1
                    ELSE IF c.size # Xlen THEN Any
                    ELSE IF c.regno = "s0" THEN f.s0 ELSE f.s1)
<1>1. CASE c.write /\ c.regno = "s0"  BY <1>1 DEF Moved, Facts
<1>2. CASE c.write /\ c.regno = "s1"  BY <1>2 DEF Moved, Facts
<1>3. CASE c.write /\ c.regno \notin {"s0", "s1"}  BY <1>3 DEF Moved, Facts
<1>4. CASE ~c.write /\ c.size # Xlen  BY <1>4 DEF Moved, Facts
<1>5. CASE ~c.write /\ c.size = Xlen  BY <1>5 DEF Moved, Facts
<1> QED  BY <1>1, <1>2, <1>3, <1>4, <1>5

LEMMA TransferTypes ==
  ASSUME NEW r, RegistersHold(r), Transfer, UNCHANGED <<kept, words, saved>>
  PROVE  ValueTypes'
<1>1. ValueTypes /\ hartsel \in Harts  BY RunFacts DEF Transfer
<1>2. DataValue(data) \in Value  BY <1>1, WordTypes DEF ValueTypes
<1>3. GetReg(command.regno) \in Nat
  BY <1>1, ValueNat DEF ValueTypes, GetReg
<1>4. s0' \in [Harts -> Value] /\ s1' \in [Harts -> Value]
  BY <1>1, <1>2 DEF Transfer, SetReg, ValueTypes
<1>5. data' \in [0..1 -> Word]
  <2>1. CASE UNCHANGED data  BY <2>1, <1>1 DEF ValueTypes
  <2>2. CASE data' = [i \in 0..1 |-> IF 32 * i < command.size
                                       THEN Nthword(GetReg(command.regno), i)
                                       ELSE data[i]]
    <3>1. \A i \in 0..1 : Nthword(GetReg(command.regno), i) \in Word /\ data[i] \in Word
      <4>1. \A i \in 0..1 : i \in {0, 1}  OBVIOUS
      <4> QED  BY <4>1, <1>1, <1>3, WordTypes DEF ValueTypes
    <3> QED  BY <2>2, <3>1
  <2> QED  BY <2>1, <2>2 DEF Transfer
<1> QED  BY <1>1, <1>4, <1>5 DEF ValueTypes, Transfer

LEMMA TransferFacts ==
  ASSUME NEW r, RegistersHold(r), Transfer, r.run = "this",
         UNCHANGED <<kept, words, saved, current_hart>>
  PROVE  FactsHold(Moved(r.f, r.c))'
<1> DEFINE c == r.c
           f == r.f
           t == Whole(f.d0, f.d1)
           g == Moved(f, c)
<1>1. /\ busy /\ f \in Facts /\ c \in CommandType /\ ValueTypes /\ hartsel \in Harts
      /\ FactsHold(f) /\ command = c /\ MayCommand(r, c)
  BY RunFacts DEF Transfer
<1>2. /\ g.v0 = f.v0 /\ g.v1 = f.v1 /\ g.w0 = f.w0 /\ g.w1 = f.w1
      /\ g.ds = f.ds /\ g.pc = f.pc /\ g.ready = f.ready /\ g.fenced = f.fenced
      /\ g.s0 = (IF c.write /\ c.regno = "s0" THEN t ELSE f.s0)
      /\ g.s1 = (IF c.write /\ c.regno = "s1" THEN t ELSE f.s1)
      /\ g.d0 = (IF c.write THEN f.d0
                 ELSE IF c.size # Xlen THEN Any
                 ELSE IF c.regno = "s0" THEN f.s0 ELSE f.s1)
      /\ g.d1 = (IF c.write THEN f.d1
                 ELSE IF c.size # Xlen THEN Any
                 ELSE IF c.regno = "s0" THEN f.s0 ELSE f.s1)
  BY <1>1, MovedFields DEF MayCommand
<1>3. Says(t, DataValue(data))
  <2>1. f.d0 \in Terms /\ f.d1 \in Terms  BY <1>1 DEF Facts
  <2> QED  BY <2>1, <1>1, HarmlessWord DEF FactsHold
<1> HIDE DEF t, g
<1>4. /\ UNCHANGED <<hartsel, dscratch, pc, stale>>
      /\ IF c.write THEN SetReg(c.regno, DataValue(data)) /\ UNCHANGED data
         ELSE /\ data' = [i \in 0..1 |-> IF 32 * i < c.size
                                         THEN Nthword(GetReg(c.regno), i) ELSE data[i]]
              /\ UNCHANGED <<s0, s1>>
  BY <1>1 DEF Transfer, selection
<1>5. (hartsel \in Harts => Says(g.s0, s0[hartsel]) /\ Says(g.s1, s1[hartsel]))'
  <2>1. CASE c.write
    <3>1. SetReg(c.regno, DataValue(data))  BY <1>4, <2>1
    <3>2. s0'[hartsel] = IF c.regno = "s0" THEN DataValue(data) ELSE s0[hartsel]
      BY <3>1, <1>1 DEF SetReg, ValueTypes
    <3>3. s1'[hartsel] = IF c.regno = "s1" THEN DataValue(data) ELSE s1[hartsel]
      BY <3>1, <1>1 DEF SetReg, ValueTypes
    <3> QED  BY <3>2, <3>3, <2>1, <1>1, <1>2, <1>3, <1>4 DEF FactsHold, Says, ValueOf
  <2>2. CASE ~c.write  BY <2>2, <1>1, <1>2, <1>4 DEF FactsHold, Says, ValueOf
  <2> QED  BY <2>1, <2>2
<1>6. (SaysWord(g.d0, 0, data[0]) /\ (XWords = 2 => SaysWord(g.d1, 1, data[1])))'
  <2>1. CASE c.write  BY <2>1, <1>1, <1>2, <1>4 DEF FactsHold, SaysWord, ValueOf
  <2>2. CASE ~c.write /\ c.size # Xlen  BY <2>2, <1>2 DEF SaysWord, Any
  <2>3. CASE ~c.write /\ c.size = Xlen
    <3>1. c.regno \in {"s0", "s1"}  BY <2>3, <1>1 DEF MayCommand
    <3> DEFINE u == IF c.regno = "s0" THEN f.s0 ELSE f.s1
    <3>2. g.d0 = u /\ g.d1 = u  BY <2>3, <1>2
    <3>3. Says(u, GetReg(c.regno))  BY <1>1, <3>1 DEF FactsHold, GetReg
    <3> HIDE DEF u
    <3>4. data'[0] = Nthword(GetReg(c.regno), 0)
      <4>1. 32 * 0 < c.size  BY <2>3, Constants
      <4> QED  BY <4>1, <2>3, <1>4
    <3>5. XWords = 2 => data'[1] = Nthword(GetReg(c.regno), 1)
      <4>1. XWords = 2 => 32 * 1 < c.size  BY <2>3 DEF Xlen
      <4> QED  BY <4>1, <2>3, <1>4
    <3> QED  BY <3>2, <3>3, <3>4, <3>5, <1>4 DEF Says, SaysWord, ValueOf
  <2> QED  BY <2>1, <2>2, <2>3
<1>7. (hartsel \in Harts => Says(g.ds, dscratch[hartsel]))'
  BY <1>1, <1>2, <1>4 DEF FactsHold, Says, ValueOf
<1>8. (Says(g.v0, saved.s0) /\ Says(g.v1, saved.s1) /\ SaysWord(g.w0, 0, words[0])
       /\ (XWords = 2 => SaysWord(g.w1, 1, words[1])))'
  BY <1>1, <1>2, <1>4 DEF FactsHold, Says, SaysWord, ValueOf
<1>9. /\ (current_hart \in Harts =>
            Says(g.pc, pc[current_hart]) /\ (g.fenced => current_hart \notin stale))'
      /\ g.pc[1] # "kept"
      /\ (\A h \in Harts : h < g.ready => pc[h] = Entry /\ h \notin stale)'
  BY <1>1, <1>2, <1>4 DEF FactsHold, Says, ValueOf
<1>10. FactsHold(g)'  BY <1>5, <1>6, <1>7, <1>8, <1>9 DEF FactsHold
<1> QED  BY <1>10 DEF g

LEMMA TransferStep ==
  ASSUME NEW r, RegistersHold(r), Transfer,
         UNCHANGED <<kept, words, saved, current_hart>>
  PROVE  RegistersHold(r)'
<1>1. /\ busy /\ r \in Outlines /\ r.f \in Facts /\ r.c \in CommandType /\ ValueTypes
      /\ hartsel \in Harts /\ hartsel = current_hart /\ r.cur = hartsel
      /\ FactsHold(r.f) /\ r.run \in {"this", "some"}
      /\ r.run = "this" => command = r.c /\ MayCommand(r, r.c)
      /\ r.run = "some" => MemoryProgram(r.prog)
  BY RunFacts DEF Transfer
<1>2. /\ UNCHANGED <<selection, requests, progbuf, command, abstractauto, halted>>
      /\ busy' = command.postexec /\ xpc' = 0
  BY DEF Transfer
<1>3. ValueTypes'  BY TransferTypes
<1>4. PlaceHolds(r)'  BY <1>2 DEF RegistersHold, PlaceHolds
<1>5. HandHolds(r)'
  <2>1. PICK v, w : /\ s0' = s0 \/ s0' = [s0 EXCEPT ![hartsel] = v]
                    /\ s1' = s1 \/ s1' = [s1 EXCEPT ![hartsel] = w]
    BY DEF Transfer, SetReg
  <2> QED  BY <2>1, <1>1, <1>2, RunHandKept DEF selection, requests
<1>6. FactsHold(Forgotten(r.f))'  BY <1>1, <1>2, ForgottenNext DEF selection
<1>7. ASSUME MemoryProgram(r.prog), r.run = "this" => command.postexec
      PROVE  MidHolds(r)' /\ FactsHold(Done(r))'
  <2>1. PICK n \in 0..5 : EndsAt(r.prog, n)  BY <1>7 DEF MemoryProgram
  <2>2. xpc' \in 0..n  BY <1>2
  <2>3. MidHolds(r)'  BY <2>1, <2>2, <1>1, <1>2, <1>6, <1>7 DEF MidHolds
  <2>4. Done(r) = Forgotten(r.f)  BY <1>1, <1>7 DEF Done, Executed
  <2> QED  BY <2>3, <2>4, <1>6
<1>8. ASSUME r.run = "this", ~MemoryProgram(r.prog), command.postexec
      PROVE  MidHolds(r)'
  <2>1. r.c.write /\ r.c.regno = "x0" /\ (CsrProgram(r.prog) \/ FenceProgram(r.prog))
    BY <1>1, <1>8 DEF MayCommand
  <2>2. UNCHANGED <<s0, s1, data, dscratch, pc, stale>>
    BY <2>1, <1>1, <1>8 DEF Transfer, SetReg
  <2>3. UNCHANGED noted  BY <2>2, <1>2 DEF noted, selection
  <2>4. FactsHold(r.f)'  BY <2>3, <1>1, FactsSame
  <2>5. CASE CsrProgram(r.prog)
    <3>1. CsrMid(r.f, r.cur, r.prog[2][2], 0) = r.f  BY DEF CsrMid
    <3> QED  BY <3>1, <2>4, <2>5, <1>1, <1>2, <1>8 DEF MidHolds
  <2>6. CASE ~CsrProgram(r.prog)
    BY <2>4, <2>6, <1>1, <1>2, <1>8 DEF MidHolds
  <2> QED  BY <2>5, <2>6
<1>9. ASSUME r.run = "this", ~command.postexec PROVE FactsHold(Done(r))'
  <2>1. Done(r) = Moved(r.f, r.c)  BY <1>1, <1>9 DEF Done
  <2> QED  BY <2>1, <1>9, TransferFacts
<1>10. (busy' => MidHolds(r)') /\ (~busy' => FactsHold(Done(r))')
  <2>1. CASE r.run = "some"  BY <2>1, <1>1, <1>7
  <2>2. CASE r.run = "this" /\ command.postexec
    BY <2>2, <1>2, <1>7, <1>8
  <2>3. CASE r.run = "this" /\ ~command.postexec  BY <2>3, <1>2, <1>9
  <2> QED  BY <2>1, <2>2, <2>3, <1>1
<1>11. RunHolds(r)'  BY <1>1, <1>2, <1>10 DEF RunHolds, selection
<1> QED  BY <1>3, <1>4, <1>5, <1>11 DEF RegistersHold

\* The instructions by their names.
LEMMA SameName ==
  ASSUME NEW b, NEW c, <<b>> = <<c>>
  PROVE  b = c
<1>1. <<b>>[1] = <<c>>[1]  OBVIOUS
<1> QED  BY <1>1, FirstOfOne

LoadsS1 == /\ s0[hartsel] \in Addrs /\ s1' = [s1 EXCEPT ![hartsel] = mem[s0[hartsel]]]
           /\ UNCHANGED <<s0, dscratch, pc, data, mem, stale>>
Stores(b) ==
  /\ s0[hartsel] \in Addrs
  /\ mem' = [mem EXCEPT ![s0[hartsel]] = IF b = "STORE s1" THEN s1[hartsel] ELSE 0]
  /\ UNCHANGED <<s0, s1, dscratch, pc, data>>
AddsS0 == /\ s0' = [s0 EXCEPT ![hartsel] = (s0[hartsel] + 1) % ValueBase]
          /\ UNCHANGED <<s1, dscratch, pc, data, mem, stale>>
Branches == UNCHANGED <<s0, s1, dscratch, pc, data, mem, stale>>
Fences == stale' = stale \ {hartsel} /\ UNCHANGED <<s0, s1, dscratch, pc, data, mem>>
SwapsScratch == /\ s0' = [s0 EXCEPT ![hartsel] = dscratch[hartsel]]
                /\ dscratch' = [dscratch EXCEPT ![hartsel] = s0[hartsel]]
                /\ UNCHANGED <<s1, pc, data, mem, stale>>
LoadsData == /\ s0' = [s0 EXCEPT ![hartsel] = DataValue(data)]
             /\ UNCHANGED <<s1, dscratch, pc, data, mem, stale>>
StoresData == /\ data' = [k \in 0..1 |-> IF k < XWords THEN Nthword(s0[hartsel], k)
                                                        ELSE data[k]]
              /\ UNCHANGED <<s0, s1, dscratch, pc, mem, stale>>

LEMMA Executing ==
  ASSUME NEW b, Executes(<<b>>)
  PROVE  \/ b = "LOAD s1" /\ LoadsS1
         \/ b \in {"STORE s1", "STORE x0"} /\ Stores(b)
         \/ b = "ADDI s0" /\ AddsS0
         \/ b = "BNE" /\ Branches
         \/ b = "FENCE_I" /\ Fences
         \/ b = "CSRRW dscratch" /\ SwapsScratch
         \/ b = "LOAD data" /\ LoadsData
         \/ b = "STORE data" /\ StoresData
         \/ b = "CSRR" /\ <<b>>[3] = "dpc"
<1>1. <<b>>[1] = b  BY FirstOfOne
<1>2. \A c : <<b>> = <<c>> => b = c  BY SameName
<1>3. CASE <<b>> = <<"LOAD s1">> /\ s0[hartsel] \in Addrs
           /\ s1' = [s1 EXCEPT ![hartsel] = mem[s0[hartsel]]]
           /\ UNCHANGED <<s0, dscratch, pc, data, mem, stale>>
  BY <1>2, <1>3 DEF LoadsS1
<1>4. CASE /\ <<b>> \in {<<"STORE s1">>, <<"STORE x0">>} /\ s0[hartsel] \in Addrs
           /\ mem' = [mem EXCEPT ![s0[hartsel]] =
                        IF <<b>> = <<"STORE s1">> THEN s1[hartsel] ELSE 0]
           /\ UNCHANGED <<regs, data>>
  <2>1. b \in {"STORE s1", "STORE x0"} /\ (<<b>> = <<"STORE s1">> <=> b = "STORE s1")
    BY <1>2, <1>4
  <2> QED  BY <2>1, <1>4 DEF Stores, regs
<1>5. CASE <<b>> = <<"ADDI s0">>
           /\ s0' = [s0 EXCEPT ![hartsel] = (@ + 1) % ValueBase]
           /\ UNCHANGED <<s1, dscratch, pc, data, mem, stale>>
  BY <1>2, <1>5 DEF AddsS0
<1>6. CASE <<b>> = <<"BNE">> /\ UNCHANGED <<regs, data, mem, stale>>
  BY <1>2, <1>6 DEF Branches, regs
<1>7. CASE <<b>> = <<"FENCE_I">> /\ stale' = stale \ {hartsel} /\ UNCHANGED <<regs, data, mem>>
  BY <1>2, <1>7 DEF Fences, regs
<1>8. CASE <<b>> = <<"CSRRW dscratch">>
           /\ s0' = [s0 EXCEPT ![hartsel] = dscratch[hartsel]]
           /\ dscratch' = [dscratch EXCEPT ![hartsel] = s0[hartsel]]
           /\ UNCHANGED <<s1, pc, data, mem, stale>>
  BY <1>2, <1>8 DEF SwapsScratch
<1>9. CASE <<b>> = <<"LOAD data">> /\ s0' = [s0 EXCEPT ![hartsel] = DataValue(data)]
           /\ UNCHANGED <<s1, dscratch, pc, data, mem, stale>>
  BY <1>2, <1>9 DEF LoadsData
<1>10. CASE <<b>> = <<"STORE data">>
            /\ data' = [k \in 0..1 |-> IF k < XWords THEN Nthword(s0[hartsel], k)
                                                     ELSE data[k]]
            /\ UNCHANGED <<regs, mem, stale>>
  BY <1>2, <1>10 DEF StoresData, regs
<1>11. CASE <<b>>[1] = "CSRR" /\ <<b>>[3] = "dpc"  BY <1>1, <1>11
<1> QED  BY <1>3, <1>4, <1>5, <1>6, <1>7, <1>8, <1>9, <1>10, <1>11 DEF Executes

\* A memory program is always at one of its instructions, or at its end.
LEMMA MemoryAt ==
  ASSUME NEW r, RegistersHold(r), busy, xpc # -1, MemoryProgram(r.prog)
  PROVE  /\ \E n \in 0..5 : EndsAt(r.prog, n) /\ xpc \in 0..n
         /\ progbuf[xpc] \in MemoryInstructions \cup {<<"EBREAK">>}
         /\ \A n \in 0..5 : EndsAt(r.prog, n) /\ xpc = n => progbuf[xpc] = <<"EBREAK">>
         /\ FactsHold(Forgotten(r.f))
<1>1. MidHolds(r)  BY RunFacts
<1>2. PICK n \in 0..5 : EndsAt(r.prog, n) /\ xpc \in 0..n  BY <1>1 DEF MidHolds
<1>3. xpc \in 0..5  BY <1>2
<1>4. r.prog[xpc] \in MemoryInstructions \cup {<<"EBREAK">>}
  <2>1. CASE xpc = n  BY <2>1, <1>2 DEF EndsAt
  <2>2. CASE xpc # n
    <3>1. xpc \in 0..n - 1  BY <2>2, <1>2
    <3> QED  BY <3>1, <1>2 DEF EndsAt
  <2> QED  BY <2>1, <2>2
<1>5. r.prog[xpc] # Any
  <2>1. \A c : <<"any">> = <<c>> => "any" = c  BY SameName
  <2> QED  BY <1>4, <2>1 DEF MemoryInstructions, Any
<1>6. progbuf[xpc] = r.prog[xpc]  BY <1>3, <1>5 DEF RegistersHold, PlaceHolds
<1>7. FactsHold(Forgotten(r.f))  BY <1>1 DEF MidHolds
<1>8. \A m \in 0..5 : EndsAt(r.prog, m) /\ xpc = m => progbuf[xpc] = <<"EBREAK">>
  BY <1>6 DEF EndsAt
<1> QED  BY <1>2, <1>4, <1>6, <1>7, <1>8

MemoryNames == {"LOAD s1", "STORE s1", "STORE x0", "ADDI s0", "BNE"}

\* What any instruction of a memory program leaves alone.
MemoryMoved ==
  /\ UNCHANGED <<dscratch, pc, data>>
  /\ s0' \in [Harts -> Value] /\ s1' \in [Harts -> Value] /\ mem' \in [Addrs -> Value]
  /\ \E v : s0' = s0 \/ s0' = [s0 EXCEPT ![hartsel] = v]
  /\ \E v : s1' = s1 \/ s1' = [s1 EXCEPT ![hartsel] = v]

LEMMA MemoryEffect ==
  ASSUME ValueTypes, hartsel \in Harts, NEW b \in MemoryNames, Executes(<<b>>)
  PROVE  MemoryMoved
<1>1. LoadsS1 => MemoryMoved  BY DEF LoadsS1, MemoryMoved, ValueTypes
<1>2. Stores(b) => MemoryMoved
  <2>1. 0 \in Value  BY ZeroValue
  <2> DEFINE v == IF b = "STORE s1" THEN s1[hartsel] ELSE 0
  <2>2. v \in Value  BY <2>1 DEF ValueTypes
  <2>3. Stores(b) => mem' = [mem EXCEPT ![s0[hartsel]] = v] /\ UNCHANGED <<s0, s1, dscratch, pc, data>>
    BY DEF Stores
  <2> HIDE DEF v
  <2> QED  BY <2>2, <2>3 DEF ValueTypes, MemoryMoved
<1>3. AddsS0 => MemoryMoved
  <2>1. s0[hartsel] \in Value  BY DEF ValueTypes
  <2> DEFINE v == (s0[hartsel] + 1) % ValueBase
  <2>2. v \in Value
    <3>1. \A x \in Value : (x + 1) % ValueBase \in Value
      <4> SUFFICES ASSUME NEW x \in Value PROVE (x + 1) % ValueBase \in Value  OBVIOUS
      <4>1. x + 1 \in Nat  BY ZeroValue
      <4> QED  BY <4>1, ValueNat, Division DEF Value
    <3> QED  BY <2>1, <3>1
  <2>3. AddsS0 => s0' = [s0 EXCEPT ![hartsel] = v] /\ UNCHANGED <<s1, dscratch, pc, data, mem>>
    BY DEF AddsS0
  <2> HIDE DEF v
  <2> QED  BY <2>2, <2>3 DEF ValueTypes, MemoryMoved
<1>4. Branches => MemoryMoved  BY DEF Branches, MemoryMoved, ValueTypes
<1>5. LoadsS1 \/ Stores(b) \/ AddsS0 \/ Branches
  BY Executing, Zenon DEF MemoryNames
<1> QED  BY <1>1, <1>2, <1>3, <1>4, <1>5

LEMMA MemoryStep ==
  ASSUME NEW r, RegistersHold(r), ExecuteInstruction, MemoryProgram(r.prog),
         UNCHANGED <<kept, words, saved, current_hart>>
  PROVE  RegistersHold(r)'
<1>1. /\ busy /\ r \in Outlines /\ r.f \in Facts /\ ValueTypes
      /\ hartsel \in Harts /\ hartsel = current_hart /\ r.cur = hartsel
      /\ r.run \in {"this", "some"}
      /\ r.run = "this" => command = r.c /\ MayCommand(r, r.c)
  BY RunFacts DEF ExecuteInstruction, Running
<1>2. /\ UNCHANGED <<selection, requests, progbuf, command, abstractauto, busy, halted>>
      /\ xpc >= 0 /\ Executes(progbuf[xpc])
      /\ xpc' \in {0, xpc + 1}
  BY DEF ExecuteInstruction, Running
<1>3. PICK n \in 0..5 : EndsAt(r.prog, n) /\ xpc \in 0..n  BY <1>1, <1>2, MemoryAt
<1>4. FactsHold(Forgotten(r.f))  BY <1>1, <1>2, MemoryAt
<1>5. progbuf[xpc] # <<"EBREAK">>
  <2>1. \A b : b = "EBREAK" => ~Executes(<<b>>)  BY Executing
  <2> QED  BY <2>1, <1>2
<1>6. progbuf[xpc] \in MemoryInstructions /\ xpc # n
  BY <1>1, <1>2, <1>3, <1>5, MemoryAt
<1>7. xpc' \in 0..n  BY <1>2, <1>3, <1>6
<1>8. PICK b \in MemoryNames : Executes(<<b>>)
  BY <1>2, <1>6 DEF MemoryInstructions, MemoryNames
<1>9. MemoryMoved  BY <1>1, <1>8, MemoryEffect
<1>10. ValueTypes'  BY <1>1, <1>2, <1>9 DEF ValueTypes, MemoryMoved
<1>11. PlaceHolds(r)'  BY <1>2 DEF RegistersHold, PlaceHolds
<1>12. HandHolds(r)'  BY <1>1, <1>2, <1>9, RunHandKept DEF selection, requests, MemoryMoved
<1>13. FactsHold(Forgotten(r.f))'  BY <1>1, <1>2, <1>4, <1>9, ForgottenNext DEF selection, MemoryMoved
<1>14. r.run = "this" => r.c.postexec
  <2>0. xpc \in 0..n  BY <1>3
  <2>1. xpc # -1  BY <2>0
  <2>2. MidHolds(r)  BY <1>1, <2>1, RunFacts
  <2> QED  BY <2>2 DEF MidHolds
<1>15. MidHolds(r)'  BY <1>3, <1>7, <1>13, <1>14 DEF MidHolds
<1>16. busy' /\ xpc' # -1
  <2>0. xpc' \in Nat  BY <1>7
  <2>1. xpc' # -1  BY <2>0
  <2> QED  BY <2>1, <1>1, <1>2
<1>17. RunHolds(r)'  BY <1>1, <1>2, <1>15, <1>16 DEF RunHolds, selection
<1> QED  BY <1>10, <1>11, <1>12, <1>17 DEF RegistersHold

LEMMA CsrFields ==
  ASSUME NEW f \in Facts, NEW h, NEW type, NEW i \in 0..5
  PROVE  LET g == CsrMid(f, h, type, i) IN
         /\ g.s1 = f.s1 /\ g.v0 = f.v0 /\ g.v1 = f.v1 /\ g.w0 = f.w0 /\ g.w1 = f.w1
         /\ g.fenced = f.fenced
         /\ g.s0 = (IF i = 1 THEN Any ELSE IF i = 2 THEN Whole(f.d0, f.d1)
                    ELSE IF i \in {3, 4} THEN f.pc ELSE f.s0)
         /\ g.ds = (IF i = 0 THEN f.ds ELSE IF i = 5 THEN Any ELSE f.s0)
         /\ g.pc = (IF i < 3 THEN f.pc ELSE NewPc(f, type))
         /\ g.ready = (IF i < 3 THEN f.ready ELSE NewReady(f, h, type))
         /\ g.d0 = (IF i < 4 THEN f.d0 ELSE f.pc)
         /\ g.d1 = (IF i < 4 THEN f.d1 ELSE f.pc)
<1>1. CASE i = 0  BY <1>1 DEF CsrMid, Facts
<1>2. CASE i = 1  BY <1>2 DEF CsrMid, Facts
<1>3. CASE i = 2  BY <1>3 DEF CsrMid, Facts
<1>4. CASE i = 3  BY <1>4 DEF CsrMid, Facts
<1>5. CASE i = 4  BY <1>5 DEF CsrMid, Facts
<1>6. CASE i = 5  BY <1>6 DEF CsrMid, Facts
<1> QED  BY <1>1, <1>2, <1>3, <1>4, <1>5, <1>6

ReadsPc(type) ==
  /\ s0' = [s0 EXCEPT ![hartsel] = pc[hartsel]]
  /\ pc' = [pc EXCEPT ![hartsel] = CsrUpdate(type, pc[hartsel], s0[hartsel])]
  /\ UNCHANGED <<s1, dscratch, data, mem, stale>>

LEMMA ExecutingCsr ==
  ASSUME NEW type, Executes(<<"CSRR", type, "dpc">>)
  PROVE  ReadsPc(type)
<1> DEFINE i == <<"CSRR", type, "dpc">>
<1>1. i[1] = "CSRR" /\ i[2] = type /\ i[3] = "dpc"  OBVIOUS
<1>2. ASSUME NEW b, i = <<b>> PROVE b = "CSRR"
  <2>1. <<b>>[1] = "CSRR"  BY <1>1, <1>2
  <2> QED  BY <2>1, FirstOfOne
<1>3. Executes(i)  OBVIOUS
<1> HIDE DEF i
<1>4. /\ i # <<"LOAD s1">> /\ i # <<"STORE s1">> /\ i # <<"STORE x0">> /\ i # <<"ADDI s0">>
      /\ i # <<"BNE">> /\ i # <<"FENCE_I">> /\ i # <<"CSRRW dscratch">> /\ i # <<"LOAD data">>
      /\ i # <<"STORE data">>
  <2>1. i # <<"LOAD s1">>  BY <1>2
  <2>2. i # <<"STORE s1">>  BY <1>2
  <2>3. i # <<"STORE x0">>  BY <1>2
  <2>4. i # <<"ADDI s0">>  BY <1>2
  <2>5. i # <<"BNE">>  BY <1>2
  <2>6. i # <<"FENCE_I">>  BY <1>2
  <2>7. i # <<"CSRRW dscratch">>  BY <1>2
  <2>8. i # <<"LOAD data">>  BY <1>2
  <2>9. i # <<"STORE data">>  BY <1>2
  <2> QED  BY <2>1, <2>2, <2>3, <2>4, <2>5, <2>6, <2>7, <2>8, <2>9
<1>5. /\ s0' = [s0 EXCEPT ![hartsel] = pc[hartsel]]
      /\ pc' = [pc EXCEPT ![hartsel] = CsrUpdate(i[2], @, s0[hartsel])]
      /\ UNCHANGED <<s1, dscratch, data, mem, stale>>
  BY <1>3, <1>4 DEF Executes
<1> QED  BY <1>1, <1>5 DEF ReadsPc

\* What the instructions of modify_csr do to what is known.
CsrGiven(f, h, type, i) ==
  /\ f \in Facts /\ ValueTypes /\ hartsel \in Harts /\ hartsel = current_hart /\ h = hartsel
  /\ CsrFits(f, type) /\ FactsHold(CsrMid(f, h, type, i))
  /\ UNCHANGED <<hartsel, current_hart, kept, saved, words>>

LEMMA CsrSwapFirst ==
  ASSUME NEW f, NEW h, NEW type, CsrGiven(f, h, type, 0), SwapsScratch
  PROVE  FactsHold(CsrMid(f, h, type, 1))'
<1> DEFINE e == CsrMid(f, h, type, 0)
           g == CsrMid(f, h, type, 1)
<1>1. f \in Facts /\ ValueTypes /\ hartsel \in Harts /\ hartsel = current_hart /\ h = hartsel
      /\ FactsHold(e) /\ UNCHANGED <<hartsel, current_hart, kept, saved, words>>
  BY DEF CsrGiven
<1>2. /\ g.s1 = e.s1 /\ g.v0 = e.v0 /\ g.v1 = e.v1 /\ g.w0 = e.w0 /\ g.w1 = e.w1
      /\ g.d0 = e.d0 /\ g.d1 = e.d1 /\ g.fenced = e.fenced /\ g.pc = e.pc /\ g.ready = e.ready
      /\ g.s0 = Any /\ g.ds = e.s0
  BY <1>1, CsrFields
<1> HIDE DEF e, g
<1>3. s0' = [s0 EXCEPT ![hartsel] = dscratch[hartsel]]
      /\ dscratch' = [dscratch EXCEPT ![hartsel] = s0[hartsel]]
      /\ UNCHANGED <<s1, pc, data, mem, stale>>
  BY DEF SwapsScratch
<1>4. dscratch'[hartsel] = s0[hartsel]  BY <1>1, <1>3 DEF ValueTypes
<1>5. FactsHold(g)'
  BY <1>1, <1>2, <1>3, <1>4 DEF FactsHold, Says, SaysWord, ValueOf, Any
<1> QED  BY <1>1, <1>5 DEF g

LEMMA CsrSwapLast ==
  ASSUME NEW f, NEW h, NEW type, CsrGiven(f, h, type, 4), SwapsScratch
  PROVE  FactsHold(CsrMid(f, h, type, 5))'
<1> DEFINE e == CsrMid(f, h, type, 4)
           g == CsrMid(f, h, type, 5)
<1>1. f \in Facts /\ ValueTypes /\ hartsel \in Harts /\ hartsel = current_hart /\ h = hartsel
      /\ FactsHold(e) /\ UNCHANGED <<hartsel, current_hart, kept, saved, words>>
  BY DEF CsrGiven
<1>2. /\ g.s1 = e.s1 /\ g.v0 = e.v0 /\ g.v1 = e.v1 /\ g.w0 = e.w0 /\ g.w1 = e.w1
      /\ g.d0 = e.d0 /\ g.d1 = e.d1 /\ g.fenced = e.fenced /\ g.pc = e.pc /\ g.ready = e.ready
      /\ g.s0 = e.ds /\ g.ds = Any
  BY <1>1, CsrFields
<1> HIDE DEF e, g
<1>3. s0' = [s0 EXCEPT ![hartsel] = dscratch[hartsel]]
      /\ dscratch' = [dscratch EXCEPT ![hartsel] = s0[hartsel]]
      /\ UNCHANGED <<s1, pc, data, mem, stale>>
  BY DEF SwapsScratch
<1>4. s0'[hartsel] = dscratch[hartsel]  BY <1>1, <1>3 DEF ValueTypes
<1>5. FactsHold(g)'
  BY <1>1, <1>2, <1>3, <1>4 DEF FactsHold, Says, SaysWord, ValueOf, Any
<1> QED  BY <1>1, <1>5 DEF g

LEMMA CsrLoad ==
  ASSUME NEW f, NEW h, NEW type, CsrGiven(f, h, type, 1), LoadsData
  PROVE  FactsHold(CsrMid(f, h, type, 2))'
<1> DEFINE e == CsrMid(f, h, type, 1)
           g == CsrMid(f, h, type, 2)
           t == Whole(f.d0, f.d1)
<1>1. f \in Facts /\ ValueTypes /\ hartsel \in Harts /\ hartsel = current_hart /\ h = hartsel
      /\ FactsHold(e) /\ UNCHANGED <<hartsel, current_hart, kept, saved, words>>
  BY DEF CsrGiven
<1>2. /\ g.s1 = e.s1 /\ g.v0 = e.v0 /\ g.v1 = e.v1 /\ g.w0 = e.w0 /\ g.w1 = e.w1
      /\ g.d0 = e.d0 /\ g.d1 = e.d1 /\ g.fenced = e.fenced /\ g.pc = e.pc /\ g.ready = e.ready
      /\ g.s0 = t /\ g.ds = e.ds
  BY <1>1, CsrFields
<1>3. Says(t, DataValue(data))
  <2>1. f.d0 \in Terms /\ f.d1 \in Terms  BY <1>1 DEF Facts
  <2>2. e.d0 = f.d0 /\ e.d1 = f.d1  BY <1>1, CsrFields
  <2> HIDE DEF e, t
  <2>3. SaysWord(f.d0, 0, data[0]) /\ (XWords = 2 => SaysWord(f.d1, 1, data[1]))
    BY <1>1, <2>2 DEF FactsHold
  <2> QED  BY <2>1, <2>3, <1>1, HarmlessWord DEF t
<1> HIDE DEF e, g, t
<1>4. s0' = [s0 EXCEPT ![hartsel] = DataValue(data)]
      /\ UNCHANGED <<s1, dscratch, pc, data, mem, stale>>
  BY DEF LoadsData
<1>5. s0'[hartsel] = DataValue(data)  BY <1>1, <1>4 DEF ValueTypes
<1>6. FactsHold(g)'
  BY <1>1, <1>2, <1>3, <1>4, <1>5 DEF FactsHold, Says, SaysWord, ValueOf
<1> QED  BY <1>1, <1>6 DEF g

LEMMA CsrStore ==
  ASSUME NEW f, NEW h, NEW type, CsrGiven(f, h, type, 3), StoresData
  PROVE  FactsHold(CsrMid(f, h, type, 4))'
<1> DEFINE e == CsrMid(f, h, type, 3)
           g == CsrMid(f, h, type, 4)
<1>1. f \in Facts /\ ValueTypes /\ hartsel \in Harts /\ hartsel = current_hart /\ h = hartsel
      /\ FactsHold(e) /\ UNCHANGED <<hartsel, current_hart, kept, saved, words>>
  BY DEF CsrGiven
<1>2. /\ g.s1 = e.s1 /\ g.v0 = e.v0 /\ g.v1 = e.v1 /\ g.w0 = e.w0 /\ g.w1 = e.w1
      /\ g.fenced = e.fenced /\ g.pc = e.pc /\ g.ready = e.ready
      /\ g.s0 = e.s0 /\ g.ds = e.ds /\ g.d0 = e.s0 /\ g.d1 = e.s0
  BY <1>1, CsrFields
<1> HIDE DEF e, g
<1>3. data' = [k \in 0..1 |-> IF k < XWords THEN Nthword(s0[hartsel], k) ELSE data[k]]
      /\ UNCHANGED <<s0, s1, dscratch, pc, mem, stale>>
  BY DEF StoresData
<1>4. data'[0] = Nthword(s0[hartsel], 0) /\ (XWords = 2 => data'[1] = Nthword(s0[hartsel], 1))
  BY <1>3, DebugModuleConstants
<1>5. SaysWord(g.d0, 0, data[0])' /\ (XWords = 2 => SaysWord(g.d1, 1, data[1])')
  BY <1>1, <1>2, <1>3, <1>4 DEF FactsHold, Says, SaysWord, ValueOf
<1>6. FactsHold(g)'
  BY <1>1, <1>2, <1>3, <1>5 DEF FactsHold, Says, SaysWord, ValueOf
<1> QED  BY <1>1, <1>6 DEF g

LEMMA CsrRead ==
  ASSUME NEW f, NEW h, NEW type, CsrGiven(f, h, type, 2), ReadsPc(type)
  PROVE  /\ FactsHold(CsrMid(f, h, type, 3))'
         /\ CsrUpdate(type, pc[hartsel], s0[hartsel]) \in Value
<1> DEFINE e == CsrMid(f, h, type, 2)
           g == CsrMid(f, h, type, 3)
           t == Whole(f.d0, f.d1)
           v == CsrUpdate(type, pc[hartsel], s0[hartsel])
           u == NewPc(f, type)
           n == NewReady(f, h, type)
<1>1. f \in Facts /\ ValueTypes /\ hartsel \in Harts /\ hartsel = current_hart /\ h = hartsel
      /\ FactsHold(e) /\ UNCHANGED <<hartsel, current_hart, kept, saved, words>>
      /\ CsrFits(f, type)
  BY DEF CsrGiven
<1>2. /\ g.s1 = e.s1 /\ g.v0 = e.v0 /\ g.v1 = e.v1 /\ g.w0 = e.w0 /\ g.w1 = e.w1
      /\ g.fenced = e.fenced /\ g.d0 = e.d0 /\ g.d1 = e.d1
      /\ g.s0 = f.pc /\ g.ds = e.ds /\ g.pc = u /\ g.ready = n
      /\ e.s0 = t /\ e.pc = f.pc /\ e.ready = f.ready /\ e.fenced = f.fenced
  BY <1>1, CsrFields
<1>3. /\ t[1] = "is" /\ \A old \in Value : CsrUpdate(type, old, t[2]) \in Value
      /\ s0[hartsel] = t[2]
  <2>1. t[1] = "is" /\ \A old \in Value : CsrUpdate(type, old, t[2]) \in Value
    BY <1>1 DEF CsrFits
  <2>2. Says(t, s0[hartsel])
    <3>1. Says(e.s0, s0[hartsel])  BY <1>1 DEF FactsHold
    <3> QED  BY <3>1, <1>2
  <2> HIDE DEF t
  <2> QED  BY <2>1, <2>2 DEF Says, ValueOf
<1>4. v \in Value /\ pc[hartsel] \in Value
  <2>1. pc[hartsel] \in Value  BY <1>1 DEF ValueTypes
  <2> HIDE DEF t
  <2> QED  BY <2>1, <1>3
<1>5. Says(f.pc, pc[hartsel]) /\ f.pc[1] # "kept"
  <2>1. Says(e.pc, pc[hartsel]) /\ e.pc[1] # "kept"  BY <1>1 DEF FactsHold
  <2> QED  BY <2>1, <1>2
<1>6. u[1] # "kept" /\ Says(u, v)
  <2>1. u = IF type = "WRITE" THEN t
            ELSE IF f.pc[1] = "is" /\ f.pc[2] \in Value
            THEN Is(CsrUpdate(type, f.pc[2], t[2])) ELSE Any
    BY <1>3 DEF NewPc
  <2> HIDE DEF t, u
  <2>2. CASE type = "WRITE"
    <3>1. v = s0[hartsel] /\ u = t  BY <2>1, <2>2 DEF CsrUpdate
    <3> QED  BY <3>1, <1>3 DEF Says, ValueOf
  <2>3. CASE type # "WRITE" /\ f.pc[1] = "is" /\ f.pc[2] \in Value
    <3>1. pc[hartsel] = f.pc[2]  BY <2>3, <1>5 DEF Says, ValueOf
    <3>2. u = Is(v)  BY <3>1, <2>1, <2>3, <1>3
    <3> HIDE DEF v
    <3> QED  BY <3>2 DEF Says, ValueOf, Is
  <2>4. CASE type # "WRITE" /\ ~(f.pc[1] = "is" /\ f.pc[2] \in Value)
    <3>1. u = Any  BY <2>1, <2>4
    <3> QED  BY <3>1 DEF Says, Any
  <2> QED  BY <2>2, <2>3, <2>4
<1>7. n = IF u = Is(Entry) /\ f.fenced /\ f.ready = h THEN f.ready + 1 ELSE 0
  BY DEF NewReady
<1> HIDE DEF e, g, t, v, u, n
<1>8. s0' = [s0 EXCEPT ![hartsel] = pc[hartsel]] /\ pc' = [pc EXCEPT ![hartsel] = v]
      /\ UNCHANGED <<s1, dscratch, data, mem, stale>>
  BY DEF ReadsPc, v
<1>9. s0'[hartsel] = pc[hartsel] /\ pc'[hartsel] = v  BY <1>1, <1>8 DEF ValueTypes
<1>10. ASSUME NEW i \in Harts, i < n PROVE pc'[i] = Entry /\ i \notin stale'
  <2>0. i \in Nat /\ f.ready \in Nat  BY <1>1, Constants DEF Harts, Facts
  <2>1. u = Is(Entry) /\ f.fenced /\ f.ready = h /\ i < f.ready + 1
    BY <1>7, <1>10, <2>0
  <2>2. CASE i = h
    <3>1. v = Entry  BY <2>1, <1>6 DEF Says, ValueOf, Is
    <3>2. hartsel \notin stale  BY <2>1, <1>1, <1>2 DEF FactsHold
    <3> QED  BY <3>1, <3>2, <2>2, <1>1, <1>8, <1>9
  <2>3. CASE i # h
    <3>1. i < e.ready  BY <2>0, <2>1, <2>3, <1>2
    <3>2. pc[i] = Entry /\ i \notin stale  BY <3>1, <1>1 DEF FactsHold
    <3> QED  BY <3>2, <2>3, <1>1, <1>8 DEF ValueTypes
  <2> QED  BY <2>2, <2>3
<1>11. (\A k \in Harts : k < g.ready => pc[k] = Entry /\ k \notin stale)'
  BY <1>2, <1>10
<1>12. (current_hart \in Harts =>
          Says(g.pc, pc[current_hart]) /\ (g.fenced => current_hart \notin stale))'
       /\ g.pc[1] # "kept"
  BY <1>1, <1>2, <1>6, <1>8, <1>9 DEF FactsHold, Says, ValueOf
<1>13. (hartsel \in Harts =>
          Says(g.s0, s0[hartsel]) /\ Says(g.s1, s1[hartsel]) /\ Says(g.ds, dscratch[hartsel]))'
  <2>1. Says(g.s0, s0[hartsel])'  BY <1>1, <1>2, <1>5, <1>9 DEF Says, ValueOf
  <2> QED  BY <2>1, <1>1, <1>2, <1>8 DEF FactsHold, Says, ValueOf
<1>14. (Says(g.v0, saved.s0) /\ Says(g.v1, saved.s1)
        /\ SaysWord(g.d0, 0, data[0]) /\ SaysWord(g.w0, 0, words[0])
        /\ (XWords = 2 => SaysWord(g.d1, 1, data[1]) /\ SaysWord(g.w1, 1, words[1])))'
  BY <1>1, <1>2, <1>8 DEF FactsHold, Says, SaysWord, ValueOf
<1>15. FactsHold(g)'  BY <1>11, <1>12, <1>13, <1>14 DEF FactsHold
<1> QED  BY <1>1, <1>4, <1>15 DEF g, v

\* What any of them leaves as it should be.
CsrMoved(f, h, type, j) ==
  /\ FactsHold(CsrMid(f, h, type, j))'
  /\ ValueTypes' /\ s1' = s1
  /\ \E v : s0' = [s0 EXCEPT ![hartsel] = v]

LEMMA CsrEffect ==
  ASSUME NEW f, NEW h, NEW type, NEW i \in 0..4, CsrGiven(f, h, type, i), progbuf' = progbuf,
         /\ i \in {0, 4} => SwapsScratch
         /\ i = 1 => LoadsData
         /\ i = 2 => ReadsPc(type)
         /\ i = 3 => StoresData /\ s0 = [s0 EXCEPT ![hartsel] = s0[hartsel]]
  PROVE  CsrMoved(f, h, type, i + 1)
<1>1. ValueTypes /\ hartsel \in Harts /\ UNCHANGED <<hartsel, current_hart, kept, saved, words, progbuf>>
  BY DEF CsrGiven
<1>2. SwapsScratch =>
        ValueTypes' /\ s1' = s1 /\ \E v : s0' = [s0 EXCEPT ![hartsel] = v]
  BY <1>1 DEF SwapsScratch, ValueTypes
<1>3. LoadsData => ValueTypes' /\ s1' = s1 /\ \E v : s0' = [s0 EXCEPT ![hartsel] = v]
  <2>1. DataValue(data) \in Value  BY <1>1, WordTypes DEF ValueTypes
  <2> QED  BY <1>1, <2>1 DEF LoadsData, ValueTypes
<1>4. ReadsPc(type) /\ CsrUpdate(type, pc[hartsel], s0[hartsel]) \in Value =>
        ValueTypes' /\ s1' = s1 /\ \E v : s0' = [s0 EXCEPT ![hartsel] = v]
  BY <1>1 DEF ReadsPc, ValueTypes
<1>5. StoresData => ValueTypes' /\ s1' = s1 /\ s0' = s0
  <2>1. s0[hartsel] \in Nat  BY <1>1, ValueNat DEF ValueTypes
  <2>2. \A k \in 0..1 : Nthword(s0[hartsel], k) \in Word /\ data[k] \in Word
    <3>1. \A k \in 0..1 : k \in {0, 1}  OBVIOUS
    <3> QED  BY <3>1, <2>1, <1>1, WordTypes DEF ValueTypes
  <2>3. StoresData => data' \in [0..1 -> Word]  BY <2>2 DEF StoresData
  <2> QED  BY <1>1, <2>3 DEF StoresData, ValueTypes
<1>6. CASE i = 0  BY <1>6, <1>2, CsrSwapFirst DEF CsrMoved
<1>7. CASE i = 1  BY <1>7, <1>3, CsrLoad DEF CsrMoved
<1>8. CASE i = 2  BY <1>8, <1>4, CsrRead DEF CsrMoved, CsrGiven
<1>9. CASE i = 3  BY <1>9, <1>5, CsrStore DEF CsrMoved
<1>10. CASE i = 4  BY <1>10, <1>2, CsrSwapLast DEF CsrMoved
<1> QED  BY <1>6, <1>7, <1>8, <1>9, <1>10

\* The instructions of modify_csr in the buffer.
LEMMA CsrAt ==
  ASSUME NEW r, RegistersHold(r), busy, xpc # -1, r.run = "this", CsrProgram(r.prog)
  PROVE  /\ xpc \in 0..5 /\ FactsHold(CsrMid(r.f, r.cur, r.prog[2][2], xpc))
         /\ CsrFits(r.f, r.prog[2][2]) /\ r.c.postexec
         /\ progbuf[0] = <<"CSRRW dscratch">> /\ progbuf[1] = <<"LOAD data">>
         /\ progbuf[2] = <<"CSRR", r.prog[2][2], "dpc">> /\ progbuf[3] = <<"STORE data">>
         /\ progbuf[4] = <<"CSRRW dscratch">> /\ progbuf[5] = <<"EBREAK">>
<1>1. MidHolds(r) /\ MayCommand(r, r.c) /\ r.prog \in [0..5 -> Instructions]  BY RunFacts
<1>2. ~MemoryProgram(r.prog) /\ ~FenceProgram(r.prog)  BY ProgramsDiffer
<1>3. r.c.postexec  BY <1>1 DEF MidHolds
<1>4. xpc \in 0..5 /\ FactsHold(CsrMid(r.f, r.cur, r.prog[2][2], xpc))
  BY <1>1, <1>2 DEF MidHolds
<1>5. CsrFits(r.f, r.prog[2][2])  BY <1>1, <1>2, <1>3 DEF MayCommand
<1>6. /\ r.prog[0] = <<"CSRRW dscratch">> /\ r.prog[1] = <<"LOAD data">>
      /\ r.prog[2] = <<"CSRR", r.prog[2][2], "dpc">> /\ r.prog[3] = <<"STORE data">>
      /\ r.prog[4] = <<"CSRRW dscratch">> /\ r.prog[5] = <<"EBREAK">>
  BY Zenon DEF CsrProgram
<1>7. \A p : p[1] # "any" => p # Any
  BY FirstOfOne DEF Any
<1>8. \A i \in 0..5 : r.prog[i] # Any
  <2>1. <<"CSRRW dscratch">>[1] # "any" /\ <<"LOAD data">>[1] # "any"
    BY FirstOfOne
  <2>2. <<"STORE data">>[1] # "any" /\ <<"EBREAK">>[1] # "any"  BY FirstOfOne
  <2>3. <<"CSRR", r.prog[2][2], "dpc">>[1] # "any"  OBVIOUS
  <2>4. r.prog[0] # Any /\ r.prog[1] # Any /\ r.prog[4] # Any  BY <1>6, <1>7, <2>1
  <2>5. r.prog[3] # Any /\ r.prog[5] # Any  BY <1>6, <1>7, <2>2
  <2>6. r.prog[2] # Any
    <3> DEFINE p == <<"CSRR", r.prog[2][2], "dpc">>
    <3>1. p[1] # "any"  BY <2>3
    <3>2. r.prog[2] = p  BY <1>6, Zenon
    <3> HIDE DEF p
    <3> QED  BY <3>1, <3>2, <1>7
  <2>7. \A i \in 0..5 : i \in {0, 1, 2, 3, 4, 5}  OBVIOUS
  <2> QED  BY <2>4, <2>5, <2>6, <2>7
<1>9. \A i \in 0..5 : progbuf[i] = r.prog[i]  BY <1>8 DEF RegistersHold, PlaceHolds
<1>10. 0 \in 0..5 /\ 1 \in 0..5 /\ 2 \in 0..5 /\ 3 \in 0..5 /\ 4 \in 0..5 /\ 5 \in 0..5
  OBVIOUS
<1>11. /\ progbuf[0] = <<"CSRRW dscratch">> /\ progbuf[1] = <<"LOAD data">>
       /\ progbuf[2] = <<"CSRR", r.prog[2][2], "dpc">> /\ progbuf[3] = <<"STORE data">>
       /\ progbuf[4] = <<"CSRRW dscratch">> /\ progbuf[5] = <<"EBREAK">>
  BY <1>6, <1>9, <1>10, Zenon
<1> QED  BY <1>3, <1>4, <1>5, <1>11, Zenon

LEMMA CsrStep ==
  ASSUME NEW r, RegistersHold(r), ExecuteInstruction, r.run = "this", CsrProgram(r.prog),
         UNCHANGED <<kept, words, saved, current_hart>>
  PROVE  RegistersHold(r)'
<1>1. /\ busy /\ r \in Outlines /\ r.f \in Facts /\ ValueTypes
      /\ hartsel \in Harts /\ hartsel = current_hart /\ r.cur = hartsel
      /\ command = r.c /\ MayCommand(r, r.c)
  BY RunFacts DEF ExecuteInstruction, Running
<1>2. /\ UNCHANGED <<selection, requests, progbuf, command, abstractauto, busy, halted>>
      /\ xpc >= 0 /\ Executes(progbuf[xpc])
      /\ xpc' = IF progbuf[xpc] = <<"BNE">> /\ s0[hartsel] # s1[hartsel] THEN 0 ELSE xpc + 1
  BY DEF ExecuteInstruction, Running
<1> DEFINE type == r.prog[2][2]
<1>3. /\ xpc \in 0..5 /\ FactsHold(CsrMid(r.f, r.cur, type, xpc))
      /\ CsrFits(r.f, type) /\ r.c.postexec
  <2>1. xpc # -1  BY <1>2
  <2> QED  BY <1>1, <2>1, CsrAt
<1>4. /\ progbuf[0] = <<"CSRRW dscratch">> /\ progbuf[1] = <<"LOAD data">>
      /\ progbuf[2] = <<"CSRR", type, "dpc">> /\ progbuf[3] = <<"STORE data">>
      /\ progbuf[4] = <<"CSRRW dscratch">> /\ progbuf[5] = <<"EBREAK">>
  <2>1. xpc # -1  BY <1>3
  <2> QED  BY <1>1, <2>1, CsrAt, Zenon
<1> HIDE DEF type
<1>5. xpc # 5
  <2>1. \A b : b = "EBREAK" => ~Executes(<<b>>)  BY Executing
  <2> QED  BY <2>1, <1>2, <1>4
<1>6. PICK i \in 0..4 : xpc = i  BY <1>3, <1>5
<1>7. progbuf[xpc] # <<"BNE">>
  <2>1. \A c : <<"BNE">> = <<c>> => "BNE" = c  BY SameName
  <2>2. <<"CSRR", type, "dpc">> # <<"BNE">>
    <3>1. <<"CSRR", type, "dpc">>[1] = "CSRR" /\ <<"BNE">>[1] = "BNE"  OBVIOUS
    <3> QED  BY <3>1
  <2>3. i \in {0, 1, 2, 3, 4}  OBVIOUS
  <2> QED  BY <2>1, <2>2, <2>3, <1>4, <1>6
<1>8. xpc' = i + 1  BY <1>2, <1>6, <1>7
<1>9. CsrGiven(r.f, r.cur, type, i)
  BY <1>1, <1>2, <1>3, <1>6 DEF CsrGiven, selection
<1>10. /\ i \in {0, 4} => SwapsScratch
       /\ i = 1 => LoadsData
       /\ i = 2 => ReadsPc(type)
       /\ i = 3 => StoresData /\ s0 = [s0 EXCEPT ![hartsel] = s0[hartsel]]
  <2>1. ASSUME i \in {0, 4} PROVE SwapsScratch
    <3>0. \A b : b = "CSRRW dscratch" /\ Executes(<<b>>) => SwapsScratch  BY Executing
    <3>1. Executes(<<"CSRRW dscratch">>)  BY <2>1, <1>2, <1>4, <1>6
    <3> QED  BY <3>0, <3>1
  <2>2. ASSUME i = 1 PROVE LoadsData
    <3>0. \A b : b = "LOAD data" /\ Executes(<<b>>) => LoadsData  BY Executing
    <3>1. Executes(<<"LOAD data">>)  BY <2>2, <1>2, <1>4, <1>6
    <3> QED  BY <3>0, <3>1
  <2>3. ASSUME i = 2 PROVE ReadsPc(type)
    <3>1. Executes(<<"CSRR", type, "dpc">>)  BY <2>3, <1>2, <1>4, <1>6
    <3> QED  BY <3>1, ExecutingCsr
  <2>4. ASSUME i = 3 PROVE StoresData
    <3>0. \A b : b = "STORE data" /\ Executes(<<b>>) => StoresData  BY Executing
    <3>1. Executes(<<"STORE data">>)  BY <2>4, <1>2, <1>4, <1>6
    <3> QED  BY <3>0, <3>1
  <2>5. s0 = [s0 EXCEPT ![hartsel] = s0[hartsel]]  BY <1>1 DEF ValueTypes
  <2> QED  BY <2>1, <2>2, <2>3, <2>4, <2>5
<1>11. CsrMoved(r.f, r.cur, type, i + 1)  BY <1>2, <1>9, <1>10, CsrEffect
<1>12. PlaceHolds(r)'  BY <1>2 DEF RegistersHold, PlaceHolds
<1>13. HandHolds(r)'
  <2>1. PICK v : s0' = [s0 EXCEPT ![hartsel] = v]  BY <1>11 DEF CsrMoved
  <2>2. s1' = s1  BY <1>11 DEF CsrMoved
  <2> QED  BY <2>1, <2>2, <1>1, <1>2, RunHandKept DEF selection, requests
<1>14. MidHolds(r)'
  <2>1. xpc' \in 0..5  BY <1>8
  <2>2. FactsHold(CsrMid(r.f, r.cur, type, i + 1))'  BY <1>11 DEF CsrMoved
  <2>3. FactsHold(CsrMid(r.f, r.cur, type, xpc))'  BY <2>2, <1>8
  <2>4. ~MemoryProgram(r.prog)  BY ProgramsDiffer
  <2> QED  BY <2>1, <2>3, <2>4, <1>3 DEF MidHolds, type
<1>15. busy' /\ xpc' # -1  BY <1>1, <1>2, <1>8
<1>16. ValueTypes'  BY <1>11 DEF CsrMoved
<1>17. RunHolds(r)'  BY <1>1, <1>2, <1>14, <1>15 DEF RunHolds, selection
<1> QED  BY <1>12, <1>13, <1>16, <1>17 DEF RegistersHold

LEMMA FenceAt ==
  ASSUME NEW r, RegistersHold(r), busy, xpc # -1, r.run = "this", FenceProgram(r.prog)
  PROVE  /\ xpc \in 0..1 /\ r.c.postexec
         /\ FactsHold(IF xpc = 0 THEN r.f ELSE [r.f EXCEPT !.fenced = TRUE])
         /\ progbuf[0] = <<"FENCE_I">> /\ progbuf[1] = <<"EBREAK">>
<1>1. MidHolds(r) /\ r.prog \in [0..5 -> Instructions]  BY RunFacts
<1>2. ~MemoryProgram(r.prog) /\ ~CsrProgram(r.prog)  BY ProgramsDiffer
<1>3. /\ xpc \in 0..1 /\ r.c.postexec
      /\ FactsHold(IF xpc = 0 THEN r.f ELSE [r.f EXCEPT !.fenced = TRUE])
  BY <1>1, <1>2 DEF MidHolds
<1>4. r.prog[0] # Any /\ r.prog[1] # Any
  <2>1. \A c : <<"any">> = <<c>> => "any" = c  BY SameName
  <2> QED  BY <2>1 DEF FenceProgram, Any
<1>5. progbuf[0] = <<"FENCE_I">> /\ progbuf[1] = <<"EBREAK">>
  BY <1>4 DEF RegistersHold, PlaceHolds, FenceProgram
<1> QED  BY <1>3, <1>5

LEMMA FenceStep ==
  ASSUME NEW r, RegistersHold(r), ExecuteInstruction, r.run = "this", FenceProgram(r.prog),
         UNCHANGED <<kept, words, saved, current_hart>>
  PROVE  RegistersHold(r)'
<1>1. /\ busy /\ r \in Outlines /\ r.f \in Facts /\ ValueTypes
      /\ hartsel \in Harts /\ hartsel = current_hart /\ r.cur = hartsel
      /\ command = r.c /\ MayCommand(r, r.c)
  BY RunFacts DEF ExecuteInstruction, Running
<1>2. /\ UNCHANGED <<selection, requests, progbuf, command, abstractauto, busy, halted>>
      /\ xpc >= 0 /\ Executes(progbuf[xpc])
      /\ xpc' = IF progbuf[xpc] = <<"BNE">> /\ s0[hartsel] # s1[hartsel] THEN 0 ELSE xpc + 1
  BY DEF ExecuteInstruction, Running
<1>3. /\ xpc \in 0..1 /\ r.c.postexec
      /\ FactsHold(IF xpc = 0 THEN r.f ELSE [r.f EXCEPT !.fenced = TRUE])
      /\ progbuf[0] = <<"FENCE_I">> /\ progbuf[1] = <<"EBREAK">>
  <2>1. xpc # -1  BY <1>2
  <2> QED  BY <1>1, <2>1, FenceAt
<1>4. xpc = 0
  <2>1. \A b : b = "EBREAK" => ~Executes(<<b>>)  BY Executing
  <2> QED  BY <2>1, <1>2, <1>3
<1>5. Fences
  <2>1. \A b : b = "FENCE_I" /\ Executes(<<b>>) => Fences  BY Executing
  <2> QED  BY <2>1, <1>2, <1>3, <1>4
<1>6. xpc' = 1
  <2>1. \A c : <<"BNE">> = <<c>> => "BNE" = c  BY SameName
  <2>2. progbuf[xpc] # <<"BNE">>  BY <2>1, <1>3, <1>4
  <2> QED  BY <2>2, <1>2, <1>4
<1> DEFINE f == r.f
           g == [f EXCEPT !.fenced = TRUE]
<1>7. /\ g.s0 = f.s0 /\ g.s1 = f.s1 /\ g.v0 = f.v0 /\ g.v1 = f.v1 /\ g.d0 = f.d0
      /\ g.d1 = f.d1 /\ g.w0 = f.w0 /\ g.w1 = f.w1 /\ g.ds = f.ds /\ g.pc = f.pc
      /\ g.ready = f.ready
  BY <1>1 DEF Facts
<1>8. FactsHold(f)  BY <1>3, <1>4
<1> HIDE DEF f, g
<1>9. FactsHold(g)'
  BY <1>1, <1>2, <1>5, <1>7, <1>8
  DEF FactsHold, Says, SaysWord, ValueOf, Fences, selection
<1>10. MidHolds(r)'
  <2>1. ~MemoryProgram(r.prog) /\ ~CsrProgram(r.prog)  BY ProgramsDiffer
  <2> QED  BY <2>1, <1>3, <1>6, <1>9 DEF MidHolds, g, f
<1>11. ValueTypes'  BY <1>1, <1>2, <1>5 DEF ValueTypes, Fences
<1>12. PlaceHolds(r)'  BY <1>2 DEF RegistersHold, PlaceHolds
<1>13. HandHolds(r)'
  BY <1>2, <1>5 DEF RegistersHold, HandHolds, Fences, selection, requests
<1>14. RunHolds(r)'  BY <1>1, <1>2, <1>6, <1>10 DEF RunHolds, selection
<1> QED  BY <1>11, <1>12, <1>13, <1>14 DEF RegistersHold

\* Whatever runs is one of the three programs.
LEMMA RunsProgram ==
  ASSUME NEW r, RegistersHold(r), busy, xpc # -1
  PROVE  \/ MemoryProgram(r.prog)
         \/ r.run = "this" /\ CsrProgram(r.prog)
         \/ r.run = "this" /\ FenceProgram(r.prog)
<1>1. /\ r.run \in {"this", "some"} /\ MidHolds(r)
      /\ r.run = "this" => MayCommand(r, r.c)
      /\ r.run = "some" => MemoryProgram(r.prog)
  BY RunFacts
<1>2. r.run = "this" => r.c.postexec  BY <1>1 DEF MidHolds
<1> QED  BY <1>1, <1>2 DEF MayCommand

LEMMA ExecuteStep ==
  ASSUME NEW r, RegistersHold(r), ExecuteInstruction,
         UNCHANGED <<kept, words, saved, current_hart>>
  PROVE  RegistersHold(r)'
<1>1. busy /\ xpc # -1  BY DEF ExecuteInstruction, Running
<1> QED  BY <1>1, RunsProgram, MemoryStep, CsrStep, FenceStep

LEMMA Faulting ==
  ASSUME NEW b, Faults(<<b>>)
  PROVE  b \in {"LOAD s1", "STORE s1", "STORE x0", "illegal", "CSRR"}
<1>1. \A c : <<b>> = <<c>> => b = c  BY SameName
<1>2. <<b>>[1] = b  BY FirstOfOne
<1> QED  BY <1>1, <1>2 DEF Faults

LEMMA EndStep ==
  ASSUME NEW r, RegistersHold(r), EndProgram,
         UNCHANGED <<kept, words, saved, current_hart>>
  PROVE  RegistersHold(r)'
<1>1. /\ busy /\ r \in Outlines /\ r.f \in Facts /\ ValueTypes
      /\ hartsel \in Harts /\ hartsel = current_hart /\ r.cur = hartsel
      /\ r.run \in {"this", "some"} /\ MidHolds(r) /\ xpc # -1
      /\ r.run = "this" => command = r.c /\ MayCommand(r, r.c)
      /\ r.run = "some" => MemoryProgram(r.prog)
  <2>1. busy /\ xpc # -1  BY DEF EndProgram, Running
  <2> QED  BY <2>1, RunFacts
<1>2. /\ UNCHANGED <<selection, requests, progbuf, data, command, abstractauto, xpc,
                     halted, regs, mem, stale>>
      /\ busy' = FALSE
      /\ progbuf[xpc] = <<"EBREAK">> \/ Faults(progbuf[xpc])
  BY DEF EndProgram
<1>3. UNCHANGED noted  BY <1>2 DEF noted, selection, regs
<1>4. r.run = "this" => r.c.postexec  BY <1>1 DEF MidHolds
<1>5. \A b : <<b>> = <<"EBREAK">> => b = "EBREAK"  BY SameName
<1>6. \A b : b \in {"CSRRW dscratch", "LOAD data", "STORE data", "FENCE_I"} =>
        <<b>> # <<"EBREAK">> /\ ~Faults(<<b>>)
  BY <1>5, Faulting
<1>7. ASSUME MemoryProgram(r.prog) PROVE FactsHold(Done(r))'
  <2>1. Done(r) = Forgotten(r.f)  BY <1>1, <1>4, <1>7 DEF Done, Executed
  <2>2. FactsHold(Forgotten(r.f))  BY <1>1, <1>7, MemoryAt
  <2> QED  BY <2>1, <2>2, <1>3, FactsSame
<1>8. ASSUME r.run = "this", CsrProgram(r.prog) PROVE FactsHold(Done(r))'
  <2> DEFINE type == r.prog[2][2]
  <2>1. /\ xpc \in 0..5 /\ FactsHold(CsrMid(r.f, r.cur, type, xpc))
    BY <1>1, <1>8, CsrAt
  <2>2. /\ progbuf[0] = <<"CSRRW dscratch">> /\ progbuf[1] = <<"LOAD data">>
        /\ progbuf[2] = <<"CSRR", type, "dpc">> /\ progbuf[3] = <<"STORE data">>
        /\ progbuf[4] = <<"CSRRW dscratch">>
    BY <1>1, <1>8, CsrAt, Zenon
  <2>3. Done(r) = CsrMid(r.f, r.cur, type, 5)
    <3>1. ~MemoryProgram(r.prog)  BY <1>8, ProgramsDiffer
    <3> QED  BY <3>1, <1>4, <1>8 DEF Done, Executed
  <2> HIDE DEF type
  <2>4. <<"CSRR", type, "dpc">> # <<"EBREAK">> /\ ~Faults(<<"CSRR", type, "dpc">>)
    <3> DEFINE i == <<"CSRR", type, "dpc">>
    <3>1. i[1] = "CSRR" /\ i[3] = "dpc"  OBVIOUS
    <3> HIDE DEF i
    <3>2. \A b : i = <<b>> => b = "CSRR"
      <4>1. \A b : <<b>>[1] = b  BY FirstOfOne
      <4> QED  BY <3>1, <4>1
    <3>3. i # <<"EBREAK">> /\ ~Faults(i)  BY <3>1, <3>2 DEF Faults
    <3> QED  BY <3>3 DEF i
  <2>5. xpc = 5
    <3>1. xpc \in {0, 1, 2, 3, 4, 5}  BY <2>1
    <3>2. xpc \notin {0, 4}  BY <1>2, <1>6, <2>2
    <3>3. xpc \notin {1, 3}  BY <1>2, <1>6, <2>2
    <3>4. xpc # 2  BY <1>2, <2>4, <2>2
    <3> QED  BY <3>1, <3>2, <3>3, <3>4
  <2> QED  BY <2>1, <2>3, <2>5, <1>3, FactsSame
<1>9. ASSUME r.run = "this", FenceProgram(r.prog) PROVE FactsHold(Done(r))'
  <2>1. /\ xpc \in 0..1 /\ progbuf[0] = <<"FENCE_I">>
        /\ FactsHold(IF xpc = 0 THEN r.f ELSE [r.f EXCEPT !.fenced = TRUE])
    BY <1>1, <1>9, FenceAt
  <2>2. xpc # 0  BY <1>2, <1>6, <2>1
  <2>3. Done(r) = [r.f EXCEPT !.fenced = TRUE]
    <3>1. ~MemoryProgram(r.prog) /\ ~CsrProgram(r.prog)  BY <1>9, ProgramsDiffer
    <3> QED  BY <3>1, <1>4, <1>9 DEF Done, Executed
  <2> QED  BY <2>1, <2>2, <2>3, <1>3, FactsSame
<1>10. FactsHold(Done(r))'  BY <1>1, <1>7, <1>8, <1>9, RunsProgram
<1>11. ValueTypes'  BY <1>1, <1>2 DEF ValueTypes, regs
<1>12. PlaceHolds(r)'  BY <1>2 DEF RegistersHold, PlaceHolds
<1>13. HandHolds(r)'
  BY <1>2 DEF RegistersHold, HandHolds, regs, selection, requests
<1>14. RunHolds(r)'  BY <1>1, <1>2, <1>10 DEF RunHolds, selection
<1> QED  BY <1>11, <1>12, <1>13, <1>14 DEF RegistersHold

\* What needs to stay for the outline to go on, but for the harts.
LEMMA SameRun ==
  ASSUME NEW r, RegistersHold(r),
         UNCHANGED <<noted, placed, command, busy, xpc>>, mem' \in [Addrs -> Value]
  PROVE  ValueTypes' /\ PlaceHolds(r)' /\ RunHolds(r)'
<1>1. UNCHANGED noted /\ UNCHANGED placed
      /\ UNCHANGED <<hartsel, current_hart, s0, s1, dscratch, pc, stale, kept, saved, data, words>>
      /\ UNCHANGED <<command, busy, xpc, abstractauto, progbuf>>
  BY DEF noted, placed
<1>2. ValueTypes'  BY <1>1 DEF RegistersHold, ValueTypes
<1>3. PlaceHolds(r)'  BY <1>1 DEF RegistersHold, PlaceHolds
<1>4. \A f : FactsHold(f) => FactsHold(f)'  BY <1>1, FactsSame
<1>5. MidHolds(r) => MidHolds(r)'  BY <1>1, <1>4 DEF MidHolds
<1>6. RunHolds(r)'  BY <1>1, <1>4, <1>5 DEF RunHolds, RegistersHold
<1> QED  BY <1>2, <1>3, <1>6

LEMMA HartsStepRegs ==
  ASSUME NEW r, RegistersHold(r), HartsStep
  PROVE  RegistersHold(r)'
<1>1. PICK h \in Harts : HartHalts(h) \/ HartResumes(h)  BY DEF HartsStep
<1>2. /\ UNCHANGED <<noted, placed, command, busy, xpc, mem>>
      /\ UNCHANGED <<s0, s1, kept, hartsel>>
  BY <1>1 DEF HartsStep, HartHalts, HartResumes, selection, regs, hostvars, history, locals,
              noted, placed
<1>3. mem' \in [Addrs -> Value]  BY <1>2 DEF RegistersHold, ValueTypes
<1>4. HandHolds(r)'
  <2>1. CASE HartHalts(h)
    BY <2>1, <1>2 DEF HartHalts, requests, RegistersHold, HandHolds
  <2>2. CASE HartResumes(h)
    BY <2>2, <1>2 DEF HartResumes, RegistersHold, HandHolds
  <2> QED  BY <1>1, <2>1, <2>2
<1> QED  BY <1>2, <1>3, <1>4, SameRun DEF RegistersHold

LEMMA StoresRegs ==
  ASSUME NEW r, RegistersHold(r), NEW h \in Harts, NEW a \in Addrs, NEW v \in Chunked,
         ProgramStores(h, a, v)
  PROVE  RegistersHold(r)'
<1>1. /\ UNCHANGED <<noted, placed, command, busy, xpc>>
      /\ UNCHANGED <<s0, s1, kept, hartsel, halted, resumereq>>
      /\ mem' = [mem EXCEPT ![a] = v]
  BY DEF ProgramStores, OnHart, selection, requests, hostvars, locals, noted, placed
<1>2. v \in Value  BY DtmConstants
<1>3. mem' \in [Addrs -> Value]  BY <1>1, <1>2 DEF RegistersHold, ValueTypes
<1>4. HandHolds(r)'  BY <1>1 DEF RegistersHold, HandHolds
<1> QED  BY <1>1, <1>3, <1>4, SameRun DEF RegistersHold

LEMMA SwapsRegs ==
  ASSUME NEW r, RegistersHold(r), NEW h \in Harts, ProgramSwaps(h)
  PROVE  RegistersHold(r)'
<1>1. /\ UNCHANGED <<hartsel, current_hart, dscratch, pc, stale, saved, data, words, mem>>
      /\ UNCHANGED <<placed, progbuf, abstractauto, command, busy, xpc, halted, resumereq>>
      /\ s0' = [s0 EXCEPT ![h] = s1[h]] /\ s1' = [s1 EXCEPT ![h] = s0[h]]
      /\ kept' = [kept EXCEPT ![h] = <<s1[h], s0[h]>>]
      /\ h \notin halted
  BY DEF ProgramSwaps, OnHart, selection, requests, hostvars, locals, placed
<1>2. ValueTypes /\ HandHolds(r) /\ RunHolds(r) /\ PlaceHolds(r)  BY DEF RegistersHold
<1>3. ValueTypes'
  <2>1. s0[h] \in Value /\ s1[h] \in Value  BY <1>2 DEF ValueTypes
  <2> QED  BY <2>1, <1>1, <1>2 DEF ValueTypes
<1>4. PlaceHolds(r)'  BY <1>1, <1>2 DEF PlaceHolds
<1>5. HandHolds(r)'
  <2>1. ASSUME NEW i \in Harts, i # hartsel
        PROVE  s0'[i] = kept'[i][1] /\ s1'[i] = kept'[i][2]
    <3>1. CASE i = h
      <4>1. kept'[i] = <<s1[h], s0[h]>> /\ s0'[i] = s1[h] /\ s1'[i] = s0[h]
        BY <3>1, <1>1, <1>2 DEF ValueTypes
      <4> QED  BY <4>1
    <3>2. CASE i # h
      <4>1. kept'[i] = kept[i] /\ s0'[i] = s0[i] /\ s1'[i] = s1[i]
        BY <3>2, <1>1, <1>2 DEF ValueTypes
      <4> QED  BY <4>1, <2>1, <1>2 DEF HandHolds
    <3> QED  BY <3>1, <3>2
  <2> QED  BY <2>1, <1>1, <1>2 DEF HandHolds
<1>6. RunHolds(r)'
  <2>1. CASE h = hartsel
    <3>1. r.run = "no" /\ Clean(r.f) /\ NoneKept(r.f) /\ ~busy /\ FactsHold(r.f)
      BY <2>1, <1>1, <1>2 DEF HandHolds, RunHolds
    <3> DEFINE f == r.f
    <3>2. /\ f.s0 = Kept(1) /\ f.s1 = Kept(2) /\ f.pc[1] # "kept"
          /\ f.v0[1] # "kept" /\ f.v1[1] # "kept" /\ f.d0[1] # "kept" /\ f.d1[1] # "kept"
          /\ f.w0[1] # "kept" /\ f.w1[1] # "kept" /\ f.ds[1] # "kept"
      BY <3>1 DEF Clean, NoneKept, FactsHold
    <3> HIDE DEF f
    <3>3. FactsHold(f)  BY <3>1 DEF f
    <3>4. Says(f.s0, s0[hartsel])' /\ Says(f.s1, s1[hartsel])'
      <4>1. /\ kept'[hartsel] = <<s1[h], s0[h]>> /\ s0'[hartsel] = s1[h]
            /\ s1'[hartsel] = s0[h] /\ hartsel' = hartsel
        BY <2>1, <1>1, <1>2 DEF ValueTypes
      <4>2. Kept(1)[2] = 1 /\ Kept(2)[2] = 2 /\ Kept(1)[1] = "kept" /\ Kept(2)[1] = "kept"
        BY DEF Kept
      <4> QED  BY <4>1, <4>2, <3>2 DEF Says, ValueOf
    <3>5. FactsHold(f)'
      <4>1. (hartsel \in Harts => Says(f.ds, dscratch[hartsel]))'
            /\ (Says(f.v0, saved.s0) /\ Says(f.v1, saved.s1))'
            /\ (SaysWord(f.d0, 0, data[0]) /\ SaysWord(f.w0, 0, words[0]))'
            /\ (XWords = 2 => SaysWord(f.d1, 1, data[1]) /\ SaysWord(f.w1, 1, words[1]))'
        BY <3>2, <3>3, <1>1 DEF FactsHold, Says, SaysWord, ValueOf
      <4>2. (current_hart \in Harts =>
               Says(f.pc, pc[current_hart]) /\ (f.fenced => current_hart \notin stale))'
            /\ (\A i \in Harts : i < f.ready => pc[i] = Entry /\ i \notin stale)'
        BY <3>2, <3>3, <1>1 DEF FactsHold, Says, ValueOf
      <4> QED  BY <3>2, <3>4, <4>1, <4>2 DEF FactsHold
    <3> QED  BY <3>1, <3>5, <1>1 DEF RunHolds, f
  <2>2. CASE h # hartsel
    <3>1. ASSUME NEW f, FactsHold(f) PROVE FactsHold(f)'
      <4>1. hartsel \in Harts =>
              s0'[hartsel] = s0[hartsel] /\ s1'[hartsel] = s1[hartsel]
        BY <2>2, <1>1, <1>2 DEF ValueTypes
      <4>2. kept'[hartsel] = kept[hartsel]  BY <2>2, <1>1, <1>2 DEF ValueTypes
      <4> QED  BY <3>1, <4>1, <4>2, <1>1 DEF FactsHold, Says, SaysWord, ValueOf
    <3>2. MidHolds(r) => MidHolds(r)'  BY <3>1, <1>1 DEF MidHolds
    <3> QED  BY <3>1, <3>2, <1>1, <1>2 DEF RunHolds
  <2> QED  BY <2>1, <2>2
<1> QED  BY <1>3, <1>4, <1>5, <1>6 DEF RegistersHold

\* The module's part of a step.
LEMMA ModuleRegs ==
  ASSUME NEW r, RegistersHold(r), ModuleSteps
  PROVE  RegistersHold(r)'
<1>1. UNCHANGED <<kept, words, saved, current_hart>>
  BY DEF ModuleSteps, hostvars, locals
<1> QED  BY <1>1, TransferStep, ExecuteStep, EndStep DEF ModuleSteps

\* A step of the host after which the same outline holds.
LEMMA HostSame ==
  ASSUME NEW r, RegistersHold(r),
         \/ dmvars' = dmvars
         \/ UNCHANGED <<selection, requests, halted, regs, mem, stale, progbuf, data, command,
                        abstractauto, busy, xpc>>,
         UNCHANGED <<current_hart, words, saved, kept>>
  PROVE  RegistersHold(r)'
<1>1. UNCHANGED <<noted, placed, mem, command, busy, xpc, halted, resumereq>>
  BY DEF dmvars, selection, requests, regs, noted, placed
<1> QED  BY <1>1, SameRegisters

LEMMA AccessRegs ==
  ASSUME NEW a, NEW r, NEW x, x = todo[1], ControlHolds(a), MayControl(a, x),
         RegistersHold(r), MayRegisters(r, x),
         \/ SwitchDmcontrol \/ WriteHartsel \/ ReadDmcontrol \/ Poll \/ SetHart
         \/ WriteRegister \/ ReadData \/ Save \/ Copy \/ Succeeds \/ die
         \/ FindXlen \/ CountHarts
  PROVE  RegistersHold(AfterRegisters(r, x))'
<1>1. CASE SwitchDmcontrol
  <2>1. x[1] = "dmcontrol" /\ \E d : WriteDmcontrol(d)
    BY <1>1 DEF SwitchDmcontrol, Doing
  <2> QED  BY <2>1, DmcontrolRegs
<1>2. CASE WriteHartsel
  <2>1. x[1] = "writeHartsel" /\ \E d : WriteDmcontrol(d)
    BY <1>2 DEF WriteHartsel, Doing
  <2> QED  BY <2>1, DmcontrolRegs
<1>3. CASE ReadDmcontrol \/ Copy \/ Succeeds
  <2>1. x[1] \in {"readDmcontrol", "copy", "check"}
    BY <1>3 DEF ReadDmcontrol, Copy, Succeeds, Doing
  <2>2. AfterRegisters(r, x) = r  BY <2>1 DEF AfterRegisters
  <2>3. dmvars' = dmvars /\ UNCHANGED <<current_hart, words, saved, kept>>
    BY <1>3 DEF ReadDmcontrol, Copy, Succeeds, locals, history
  <2> QED  BY <2>2, <2>3, HostSame
<1>4. CASE Poll
  <2>1. UNCHANGED <<dmvars, current_hart, words, saved, history>>
    BY <1>4 DEF Poll
  <2>2. CASE x[1] = "abstractcs"
    <3>1. ~busy  BY <1>4, <2>2 DEF Poll, Doing
    <3> QED  BY <2>1, <2>2, <3>1, WaitedStep
  <2>3. CASE x[1] # "abstractcs"
    <3>1. x[1] \in {"dmstatus", "allhalted", "allresumeack"}  BY <1>4, <2>3 DEF Poll, Doing
    <3>2. AfterRegisters(r, x) = r  BY <3>1 DEF AfterRegisters
    <3>3. dmvars' = dmvars /\ UNCHANGED <<current_hart, words, saved, kept>>
      BY <2>1 DEF history
    <3> QED  BY <3>2, <3>3, HostSame
  <2> QED  BY <2>2, <2>3
<1>5. CASE SetHart
  <2>1. x[1] = "hart" /\ current_hart' = x[2] /\ UNCHANGED <<dmvars, words, saved, history>>
    BY <1>5 DEF SetHart, Doing, Arg, locals
  <2> QED  BY <2>1, HartStep
<1>6. CASE WriteRegister
  <2>1. UNCHANGED <<found, current_hart, locals, control, history>>
    BY <1>6 DEF WriteRegister
  <2>2. CASE x[1] = "progbuf" /\ ProgbufWrite(x[2], x[3])  BY <2>1, <2>2, ProgbufStep
  <2>3. CASE x[1] = "data" /\ DataWrite(x[2], Nthword(x[3], x[2]))
    BY <2>1, <2>3, DataStep
  <2>4. CASE x[1] = "saved" /\ DataWrite(x[2], Nthword(saved[x[3]], x[2]))
    <3>1. PICK v : v = saved[x[3]]  OBVIOUS
    <3> QED  BY <2>1, <2>4, <3>1, DataStep
  <2>5. CASE x[1] = "command" /\ CommandWrite(x[2])  BY <2>1, <2>5, CommandStep
  <2>6. CASE x[1] = "auto" /\ AutoWrite(x[2])  BY <2>1, <2>6, AutoStep
  <2> QED  BY <1>6, <2>2, <2>3, <2>4, <2>5, <2>6 DEF WriteRegister, Doing, Arg
<1>7. CASE ReadData
  <2>1. /\ x[1] = "readData" /\ DataRead(x[2])
        /\ words' = [words EXCEPT ![x[2]] = data[x[2]]]
        /\ UNCHANGED <<found, current_hart, saved, history>>
    BY <1>7 DEF ReadData, Doing, Arg
  <2> QED  BY <2>1, ReadDataStep
<1>8. CASE Save
  <2>1. /\ x[1] = "save" /\ saved' = [saved EXCEPT ![x[2]] = DataValue(words)]
        /\ UNCHANGED <<dmvars, found, current_hart, words, history>>
    BY <1>8 DEF Save, Doing, Arg
  <2> QED  BY <2>1, SaveStep
<1>9. CASE die
  <2>1. x[1] = "check" /\ CmderrClear /\ UNCHANGED <<current_hart, words, saved, kept>>
    BY <1>9 DEF die, Doing, locals, history
  <2>2. AfterRegisters(r, x) = r  BY <2>1 DEF AfterRegisters
  <2>3. UNCHANGED <<selection, requests, halted, regs, mem, stale, progbuf, data, command,
                    abstractauto, busy, xpc>>
    BY <2>1 DEF CmderrClear, Writing
  <2> QED  BY <2>1, <2>2, <2>3, HostSame
<1>10. CASE FindXlen
  <2>1. x[1] = "xlen" /\ dmvars' = dmvars /\ UNCHANGED <<current_hart, words, saved, kept>>
    BY <1>10 DEF FindXlen, Doing, locals, history
  <2>2. RegistersHold(r)'  BY <2>1, HostSame
  <2>3. r \in Outlines /\ r.run = "no" /\ r.f \in Facts
    BY <2>1 DEF RegistersHold, PlaceHolds, MayRegisters, Outlines
  <2> DEFINE q == [r EXCEPT !.f = NoData(r.f)]
  <2>4. NoData(r.f) \in Facts /\ Weaker(NoData(r.f), r.f)  BY <2>3, FactTypes, WeakerFacts
  <2>5. /\ q \in Outlines /\ q.f = NoData(r.f) /\ q.prog = r.prog /\ q.run = "no"
        /\ q.auto = r.auto /\ q.cur = r.cur
    BY <2>3, <2>4 DEF Outlines
  <2>6. Clean(r.f) => Clean(NoData(r.f))  BY <2>3 DEF Clean, NoData, Facts
  <2>7. NoneKept(r.f) => NoneKept(NoData(r.f))  BY <2>3 DEF NoneKept, NoData, Facts, Any
  <2>8. AfterRegisters(r, x) = q  BY <2>1 DEF AfterRegisters
  <2> HIDE DEF q
  <2>9. RegistersHold(q)'  BY <2>2, <2>3, <2>4, <2>5, <2>6, <2>7, WeakerStep
  <2> QED  BY <2>8, <2>9
<1>11. CASE CountHarts
  <2>1. x[1] = "exists" /\ dmvars' = dmvars /\ UNCHANGED <<current_hart, words, saved, kept>>
    BY <1>11 DEF CountHarts, Doing, locals, history
  <2>2. ControlHolds(AfterControl(a, x))'
    <3>1. PICK b : b = AfterControl(a, x)  OBVIOUS
    <3> QED  BY <3>1, <1>11, CountHartsStep
  <2>3. current_hart = LastSel
    <3>1. AfterControl(a, x) = Counted(a)  BY <2>1 DEF AfterControl, Counted
    <3>2. a \in Controls  BY DEF ControlHolds
    <3>3. Counted(a).cur = LastSel  BY <3>2, LastSels DEF Counted, Controls
    <3>4. FoundOK(Counted(a))'  BY <2>2, <3>1 DEF ControlHolds
    <3> QED  BY <2>1, <3>3, <3>4 DEF FoundOK
  <2>4. r = Fresh(r.cur, Any, 0, FALSE) /\ r.cur = current_hart
    BY <2>1 DEF MayRegisters, RegistersHold, PlaceHolds
  <2>5. AfterRegisters(r, x) = Fresh(LastSel, Any, 0, FALSE)  BY <2>1 DEF AfterRegisters
  <2>6. AfterRegisters(r, x) = r  BY <2>3, <2>4, <2>5
  <2> QED  BY <2>1, <2>6, HostSame
<1> QED
  BY <1>1, <1>2, <1>3, <1>4, <1>5, <1>6, <1>7, <1>8, <1>9, <1>10, <1>11

-------------------------------------------------------------------------------
(* The registers along the routines.                                        *)

Regs == "registers"

\* Between two commands.
Rest(f, p, h) ==
  [f |-> f, prog |-> p, run |-> "no", c |-> NoCommand, auto |-> FALSE, cur |-> h]
\* The same while autoexec is on.
Repeating(f, p, h) ==
  [f |-> f, prog |-> p, run |-> "no", c |-> NoCommand, auto |-> TRUE, cur |-> h]

Buffers == [0..5 -> Instructions]

LEMMA AtFields ==
  ASSUME NEW f, NEW p, NEW h
  PROVE  /\ Rest(f, p, h).f = f /\ Rest(f, p, h).prog = p /\ Rest(f, p, h).run = "no"
         /\ Rest(f, p, h).c = NoCommand /\ Rest(f, p, h).auto = FALSE /\ Rest(f, p, h).cur = h
BY DEF Rest

LEMMA AtType ==
  ASSUME NEW f \in Facts, NEW p \in Buffers, NEW h \in Nat
  PROVE  Rest(f, p, h) \in Outlines
BY UnknownType DEF Rest, Outlines, Buffers

Wrote(p, i, ins) == [p EXCEPT ![i] = ins]

LEMMA ProgbufGoes ==
  ASSUME NEW f, NEW p, NEW h, NEW i \in 0..5, NEW ins \in Instructions
  PROVE  /\ May(Regs, Rest(f, p, h), <<"progbuf", i, ins>>)
         /\ After(Regs, Rest(f, p, h), <<"progbuf", i, ins>>)
              = Rest(f, Wrote(p, i, ins), h)
<1> DEFINE x == <<"progbuf", i, ins>>
<1>1. x[1] = "progbuf" /\ x[2] = i /\ x[3] = ins  OBVIOUS
<1> HIDE DEF x
<1>2. MayRegisters(Rest(f, p, h), x)
  <2> DEFINE r == Rest(f, p, h)
  <2>1. r.f = f /\ r.run = "no" /\ r.auto = FALSE /\ r.c = NoCommand  BY DEF Rest
  <2> HIDE DEF r
  <2>2. MayRegisters(r, x)  BY <1>1, <2>1 DEF MayRegisters
  <2> QED  BY <2>2 DEF r
<1>3. AfterRegisters(Rest(f, p, h), x) = Rest(f, Wrote(p, i, ins), h)
  BY <1>1 DEF AfterRegisters, Rest, Wrote
<1> QED  BY <1>2, <1>3 DEF x, May, After, Regs

LEMMA DataGoes ==
  ASSUME NEW f, NEW p, NEW h, NEW i \in 0..XWords - 1, NEW v \in Nat
  PROVE  /\ May(Regs, Rest(f, p, h), <<"data", i, v>>)
         /\ After(Regs, Rest(f, p, h), <<"data", i, v>>)
              = Rest(Put(f, i, Is(v)), p, h)
<1> DEFINE x == <<"data", i, v>>
<1>1. x[1] = "data" /\ x[2] = i /\ x[3] = v  OBVIOUS
<1> HIDE DEF x
<1>2. MayRegisters(Rest(f, p, h), x)
  <2> DEFINE r == Rest(f, p, h)
  <2>1. r.f = f /\ r.prog = p /\ r.run = "no" /\ r.auto = FALSE /\ r.c = NoCommand
    BY DEF Rest
  <2> HIDE DEF r
  <2>2. MayRegisters(r, x)  BY <1>1, <2>1 DEF MayRegisters
  <2> QED  BY <2>2 DEF r
<1>3. AfterRegisters(Rest(f, p, h), x) = Rest(Put(f, i, Is(v)), p, h)
  BY <1>1 DEF AfterRegisters, Rest
<1> QED  BY <1>2, <1>3 DEF x, May, After, Regs

LEMMA SavedGoes ==
  ASSUME NEW f, NEW p, NEW h, NEW i \in 0..XWords - 1, NEW y \in {"s0", "s1"}
  PROVE  /\ May(Regs, Rest(f, p, h), <<"saved", i, y>>)
         /\ After(Regs, Rest(f, p, h), <<"saved", i, y>>)
              = Rest(Put(f, i, IF y = "s0" THEN f.v0 ELSE f.v1), p, h)
<1> DEFINE x == <<"saved", i, y>>
<1>1. x[1] = "saved" /\ x[2] = i /\ x[3] = y  OBVIOUS
<1> HIDE DEF x
<1>2. MayRegisters(Rest(f, p, h), x)
  <2> DEFINE r == Rest(f, p, h)
  <2>1. r.f = f /\ r.prog = p /\ r.run = "no" /\ r.auto = FALSE /\ r.c = NoCommand
    BY DEF Rest
  <2> HIDE DEF r
  <2>2. MayRegisters(r, x)  BY <1>1, <2>1 DEF MayRegisters
  <2> QED  BY <2>2 DEF r
<1>3. AfterRegisters(Rest(f, p, h), x)
        = Rest(Put(f, i, IF y = "s0" THEN f.v0 ELSE f.v1), p, h)
  BY <1>1 DEF AfterRegisters, Rest
<1> QED  BY <1>2, <1>3 DEF x, May, After, Regs

LEMMA ReadGoes ==
  ASSUME NEW f, NEW p, NEW h, NEW i \in 0..XWords - 1
  PROVE  /\ May(Regs, Rest(f, p, h), <<"readData", i>>)
         /\ After(Regs, Rest(f, p, h), <<"readData", i>>)
              = Rest(Taken(f, i), p, h)
<1> DEFINE x == <<"readData", i>>
<1>1. x[1] = "readData" /\ x[2] = i  OBVIOUS
<1> HIDE DEF x
<1>2. MayRegisters(Rest(f, p, h), x)
  <2> DEFINE r == Rest(f, p, h)
  <2>1. r.f = f /\ r.prog = p /\ r.run = "no" /\ r.auto = FALSE /\ r.c = NoCommand
    BY DEF Rest
  <2> HIDE DEF r
  <2>2. MayRegisters(r, x)  BY <1>1, <2>1 DEF MayRegisters
  <2> QED  BY <2>2 DEF r
<1>3. AfterRegisters(Rest(f, p, h), x) = Rest(Taken(f, i), p, h)
  BY <1>1 DEF AfterRegisters, Rest
<1> QED  BY <1>2, <1>3 DEF x, May, After, Regs

LEMMA SaveGoes ==
  ASSUME NEW f, NEW p, NEW h, NEW y \in {"s0", "s1"}
  PROVE  /\ May(Regs, Rest(f, p, h), <<"save", y>>)
         /\ After(Regs, Rest(f, p, h), <<"save", y>>) = Rest(Saved(f, y), p, h)
<1> DEFINE x == <<"save", y>>
<1>1. x[1] = "save" /\ x[2] = y  OBVIOUS
<1> HIDE DEF x
<1>2. MayRegisters(Rest(f, p, h), x)
  <2> DEFINE r == Rest(f, p, h)
  <2>1. r.f = f /\ r.run = "no" /\ r.auto = FALSE /\ r.c = NoCommand  BY DEF Rest
  <2> HIDE DEF r
  <2>2. MayRegisters(r, x)  BY <1>1, <2>1 DEF MayRegisters
  <2> QED  BY <2>2 DEF r
<1>3. AfterRegisters(Rest(f, p, h), x) = Rest(Saved(f, y), p, h)
  BY <1>1 DEF AfterRegisters, Rest
<1> QED  BY <1>2, <1>3 DEF x, May, After, Regs

Going(f, p, h, u) ==
  [f |-> f, prog |-> p, run |-> "no", c |-> NoCommand, auto |-> u, cur |-> h]

Switched(r, v) == [r EXCEPT !.auto = v]

LEMMA GoingOn ==
  ASSUME NEW f, NEW p, NEW h, NEW u, NEW v
  PROVE  Switched(Going(f, p, h, u), v) = Going(f, p, h, v)
BY DEF Going, Switched

LEMMA GoingIs ==
  ASSUME NEW f, NEW p, NEW h, NEW u, NEW v, u = FALSE, v = TRUE
  PROVE  Going(f, p, h, u) = Rest(f, p, h) /\ Going(f, p, h, v) = Repeating(f, p, h)
BY Zenon DEF Going, Rest, Repeating

LEMMA AutoGoes ==
  ASSUME NEW f, NEW p, NEW h
  PROVE  /\ May(Regs, Rest(f, p, h), <<"auto", TRUE>>)
         /\ After(Regs, Rest(f, p, h), <<"auto", TRUE>>) = Repeating(f, p, h)
         /\ May(Regs, Repeating(f, p, h), <<"auto", FALSE>>)
         /\ After(Regs, Repeating(f, p, h), <<"auto", FALSE>>) = Rest(f, p, h)
<1> DEFINE x == <<"auto", TRUE>>
           y == <<"auto", FALSE>>
           r == Rest(f, p, h)
           q == Repeating(f, p, h)
<1>1. x[1] = "auto" /\ x[2] = TRUE /\ y[1] = "auto" /\ y[2] = FALSE  OBVIOUS
<1>2. r.run = "no" /\ r.c = NoCommand /\ q.run = "no" /\ q.c = NoCommand
  BY DEF Rest, Repeating
<1>6. PICK u, v : u = FALSE /\ v = TRUE  OBVIOUS
<1>3. Switched(r, v) = q /\ Switched(q, u) = r
  <2>1. r = Going(f, p, h, u) /\ q = Going(f, p, h, v)  BY <1>6, GoingIs, Zenon
  <2> HIDE DEF r, q
  <2>2. /\ Switched(Going(f, p, h, u), v) = Going(f, p, h, v)
        /\ Switched(Going(f, p, h, v), u) = Going(f, p, h, u)
    BY GoingOn
  <2> QED  BY <2>1, <2>2
<1>7. x[2] = v /\ y[2] = u  BY <1>1, <1>6, Zenon
<1> HIDE DEF x, y, r, q
<1>4. MayRegisters(r, x) /\ MayRegisters(q, y)  BY <1>1, <1>2 DEF MayRegisters
<1>5. AfterRegisters(r, x) = Switched(r, v) /\ AfterRegisters(q, y) = Switched(q, u)
  BY <1>1, <1>7 DEF AfterRegisters, Switched
<1> QED  BY <1>3, <1>4, <1>5 DEF x, y, r, q, May, After, Regs

\* Accesses that say nothing of the registers.
LEMMA QuietGoes ==
  ASSUME NEW r, r.run = "no", r.c = NoCommand, NEW x,
         x[1] \in {"dmstatus", "allhalted", "allresumeack", "check", "copy", "readDmcontrol"}
  PROVE  May(Regs, r, x) /\ After(Regs, r, x) = r
<1>1. MayRegisters(r, x)  BY DEF MayRegisters
<1>2. AfterRegisters(r, x) = r  BY DEF AfterRegisters
<1> QED  BY <1>1, <1>2 DEF May, After, Regs

Turned(f, h, i) == IF i = h THEN f ELSE [f EXCEPT !.pc = Any, !.fenced = FALSE]

LEMMA HartGoes ==
  ASSUME NEW f, NEW p, NEW h, NEW i \in Nat
  PROVE  /\ May(Regs, Rest(f, p, h), <<"hart", i>>)
         /\ After(Regs, Rest(f, p, h), <<"hart", i>>) = Rest(Turned(f, h, i), p, i)
<1> DEFINE x == <<"hart", i>>
<1>1. x[1] = "hart" /\ x[2] = i  OBVIOUS
<1> HIDE DEF x
<1>2. MayRegisters(Rest(f, p, h), x)
  <2> DEFINE r == Rest(f, p, h)
  <2>1. r.f = f /\ r.run = "no" /\ r.auto = FALSE /\ r.c = NoCommand  BY DEF Rest
  <2> HIDE DEF r
  <2>2. MayRegisters(r, x)  BY <1>1, <2>1 DEF MayRegisters
  <2> QED  BY <2>2 DEF r
<1>3. AfterRegisters(Rest(f, p, h), x) = Rest(Turned(f, h, i), p, i)
  BY <1>1 DEF AfterRegisters, Rest, ChangeTo, Turned
<1> QED  BY <1>2, <1>3 DEF x, May, After, Regs

LEMMA DmcontrolGoes ==
  ASSUME NEW f, NEW p, NEW h, NEW d, Clean(f)
  PROVE  /\ May(Regs, Rest(f, p, h), <<"dmcontrol", d>>)
         /\ After(Regs, Rest(f, p, h), <<"dmcontrol", d>>) = Rest(OutOfHand(f), Unknown, h)
<1> DEFINE x == <<"dmcontrol", d>>
<1>1. x[1] = "dmcontrol"  OBVIOUS
<1> HIDE DEF x
<1>2. MayRegisters(Rest(f, p, h), x)
  <2> DEFINE r == Rest(f, p, h)
  <2>1. r.f = f /\ r.run = "no" /\ r.auto = FALSE /\ r.c = NoCommand  BY DEF Rest
  <2> HIDE DEF r
  <2>2. MayRegisters(r, x)  BY <1>1, <2>1 DEF MayRegisters
  <2> QED  BY <2>2 DEF r
<1>3. AfterRegisters(Rest(f, p, h), x) = Rest(OutOfHand(f), Unknown, h)
  BY <1>1 DEF AfterRegisters, Rest, LetGo
<1> QED  BY <1>2, <1>3 DEF x, May, After, Regs

LEMMA HartselGoes ==
  ASSUME NEW f, NEW p, NEW h, NEW d, Clean(f)
  PROVE  /\ May(Regs, Rest(f, p, h), <<"writeHartsel", d>>)
         /\ After(Regs, Rest(f, p, h), <<"writeHartsel", d>>) = Rest(Elsewhere(f), Unknown, h)
<1> DEFINE x == <<"writeHartsel", d>>
<1>1. x[1] = "writeHartsel"  OBVIOUS
<1> HIDE DEF x
<1>2. MayRegisters(Rest(f, p, h), x)
  <2> DEFINE r == Rest(f, p, h)
  <2>1. r.f = f /\ r.run = "no" /\ r.auto = FALSE /\ r.c = NoCommand  BY DEF Rest
  <2> HIDE DEF r
  <2>2. MayRegisters(r, x)  BY <1>1, <2>1 DEF MayRegisters
  <2> QED  BY <2>2 DEF r
<1>3. AfterRegisters(Rest(f, p, h), x) = Rest(Elsewhere(f), Unknown, h)
  BY <1>1 DEF AfterRegisters, Rest
<1> QED  BY <1>2, <1>3 DEF x, May, After, Regs

\* A command that is waited for.
Finish(f, p, h, c) == IF c.postexec THEN Executed(f, p, h) ELSE Moved(f, c)

LEMMA CommandGoes ==
  ASSUME NEW f, NEW p, NEW h, NEW c, MayCommand(Rest(f, p, h), c)
  PROVE  Path(Regs, Rest(f, p, h), << <<"command", c>>, <<"abstractcs">> >>,
              Rest(Finish(f, p, h, c), p, h))
<1> DEFINE r == Rest(f, p, h)
           q == [r EXCEPT !.run = "this", !.c = c]
           x == <<"command", c>>
           y == <<"abstractcs">>
<1>1. x[1] = "command" /\ x[2] = c /\ y[1] = "abstractcs"  OBVIOUS
<1>0. r.f = f /\ r.prog = p /\ r.run = "no" /\ r.auto = FALSE /\ r.c = NoCommand
    BY DEF Rest
<1>2. MayRegisters(r, x)
  <2>1. MayCommand(r, c)  OBVIOUS
  <2> HIDE DEF r, x
  <2> QED  BY <1>0, <1>1, <2>1 DEF MayRegisters
<1>3. AfterRegisters(r, x) = q  BY <1>1 DEF AfterRegisters
<1>4. q.run = "this" /\ q.c = c /\ q.f = f /\ q.prog = p /\ q.cur = h  BY DEF Rest
<1>5. MayRegisters(q, y)  BY <1>4 DEF MayRegisters
<1>6. Done(q) = Finish(f, p, h, c)
  <2> HIDE DEF q
  <2> QED  BY <1>4 DEF Done, Finish
<1>7. AfterRegisters(q, y) = Rest(Finish(f, p, h, c), p, h)
  <2>1. AfterRegisters(q, y) = [q EXCEPT !.f = Done(q), !.run = "no", !.c = NoCommand]
    BY <1>1 DEF AfterRegisters
  <2> QED  BY <2>1, <1>6 DEF Rest
<1> HIDE DEF r, q
<1>8. Path(Regs, r, <<x, y>>, Rest(Finish(f, p, h, c), p, h))
  BY <1>2, <1>3, <1>5, <1>7, PathTwo DEF May, After, Regs
<1> QED  BY <1>8 DEF r

LEMMA PathJoinFour ==
  ASSUME NEW k, NEW a, NEW b, NEW c, NEW d, NEW e, NEW s, NEW t, NEW u, NEW v,
         Path(k, a, s, b), Path(k, b, t, c), Path(k, c, u, d), Path(k, d, v, e)
  PROVE  Path(k, a, ((s \o t) \o u) \o v, e)
<1>1. Path(k, a, s \o t, c)  BY PathJoin
<1>2. Path(k, a, (s \o t) \o u, d)  BY <1>1, PathJoin
<1> QED  BY <1>2, PathJoin

\* One access for each word of a register.
LEMMA PerWord ==
  ASSUME NEW s, s = [i \in 1..XWords |-> s[i]], NEW r, NEW q, NEW t,
         May(Regs, r, s[1]), q = After(Regs, r, s[1]),
         XWords = 2 => May(Regs, q, s[2]) /\ t = After(Regs, q, s[2]),
         XWords = 1 => t = q
  PROVE  Path(Regs, r, s, t)
<1>1. CASE XWords = 1
  <2>1. s = <<s[1]>>  BY <1>1
  <2>2. Path(Regs, r, <<s[1]>>, q)  BY PathOne
  <2> QED  BY <2>1, <2>2, <1>1
<1>2. CASE XWords = 2
  <2>1. s = <<s[1], s[2]>>  BY <1>2
  <2>2. Path(Regs, r, <<s[1], s[2]>>, t)  BY <1>2, PathTwo
  <2> QED  BY <2>1, <2>2
<1> QED  BY <1>1, <1>2, DebugModuleConstants

WithData(f, t) ==
  IF XWords = 2 THEN [f EXCEPT !.d0 = t, !.d1 = t] ELSE [f EXCEPT !.d0 = t]
WithWords(f) ==
  IF XWords = 2 THEN [f EXCEPT !.w0 = f.d0, !.w1 = f.d1] ELSE [f EXCEPT !.w0 = f.d0]

LEMMA WordsNumber ==
  ASSUME xlen = Xlen
  PROVE  xlen \div 32 = XWords /\ 0 \in 0..XWords - 1 /\ (XWords = 2 => 1 \in 0..XWords - 1)
<1>1. XWords \in {1, 2}  BY DebugModuleConstants
<1> QED  BY <1>1 DEF Xlen

LEMMA WritesPath ==
  ASSUME xlen = Xlen, NEW f, NEW p, NEW h, NEW v \in Nat
  PROVE  Path(Regs, Rest(f, p, h), Writes(v), Rest(WithData(f, Is(v)), p, h))
<1> DEFINE s == Writes(v)
           e == Put(f, 0, Is(v))
           g == Put(e, 1, Is(v))
<1>1. s = [i \in 1..XWords |-> <<"data", i - 1, v>>]  BY WordsNumber DEF Writes
<1>2. s[1] = <<"data", 0, v>> /\ (XWords = 2 => s[2] = <<"data", 1, v>>)
  BY <1>1, DebugModuleConstants
<1>3. s = [i \in 1..XWords |-> s[i]]  BY <1>1
<1>4. XWords = 2 => WithData(f, Is(v)) = g  BY DEF WithData, Put
<1>5. XWords = 1 => WithData(f, Is(v)) = e  BY DEF WithData, Put
<1> HIDE DEF s, e, g
<1>6. May(Regs, Rest(f, p, h), s[1])
      /\ Rest(e, p, h) = After(Regs, Rest(f, p, h), s[1])
  <2>1. 0 \in 0..XWords - 1  BY WordsNumber
  <2>2. /\ May(Regs, Rest(f, p, h), <<"data", 0, v>>)
        /\ After(Regs, Rest(f, p, h), <<"data", 0, v>>) = Rest(e, p, h)
    BY <2>1, DataGoes, Zenon DEF e
  <2> QED  BY <2>2, <1>2, Zenon
<1>7. XWords = 2 => May(Regs, Rest(e, p, h), s[2])
                    /\ Rest(g, p, h) = After(Regs, Rest(e, p, h), s[2])
  <2>1. XWords = 2 => 1 \in 0..XWords - 1  BY WordsNumber
  <2>2. XWords = 2 =>
          /\ May(Regs, Rest(e, p, h), <<"data", 1, v>>)
          /\ After(Regs, Rest(e, p, h), <<"data", 1, v>>) = Rest(g, p, h)
    BY <2>1, DataGoes, Zenon DEF g
  <2> QED  BY <2>2, <1>2, Zenon
<1>8. Path(Regs, Rest(f, p, h), s, Rest(WithData(f, Is(v)), p, h))
  BY <1>3, <1>4, <1>5, <1>6, <1>7, PerWord
<1> QED  BY <1>8 DEF s

LEMMA RestoresPath ==
  ASSUME xlen = Xlen, NEW f \in Facts, NEW p, NEW h, NEW y \in {"s0", "s1"}
  PROVE  Path(Regs, Rest(f, p, h), Restores(y),
              Rest(WithData(f, IF y = "s0" THEN f.v0 ELSE f.v1), p, h))
<1> DEFINE s == Restores(y)
           t == IF y = "s0" THEN f.v0 ELSE f.v1
           e == Put(f, 0, t)
           g == Put(e, 1, t)
<1>1. s = [i \in 1..XWords |-> <<"saved", i - 1, y>>]  BY WordsNumber DEF Restores
<1>2. s[1] = <<"saved", 0, y>> /\ (XWords = 2 => s[2] = <<"saved", 1, y>>)
  BY <1>1, DebugModuleConstants
<1>3. s = [i \in 1..XWords |-> s[i]]  BY <1>1
<1>4. XWords = 2 => WithData(f, t) = g  BY DEF WithData, Put
<1>5. XWords = 1 => WithData(f, t) = e  BY DEF WithData, Put
<1>6. (IF y = "s0" THEN e.v0 ELSE e.v1) = t  BY DEF Put, Facts
<1> HIDE DEF s, e, g
<1>7. May(Regs, Rest(f, p, h), s[1])
      /\ Rest(e, p, h) = After(Regs, Rest(f, p, h), s[1])
  <2>1. 0 \in 0..XWords - 1  BY WordsNumber
  <2>2. /\ May(Regs, Rest(f, p, h), <<"saved", 0, y>>)
        /\ After(Regs, Rest(f, p, h), <<"saved", 0, y>>) = Rest(e, p, h)
    BY <2>1, SavedGoes, Zenon DEF e
  <2> QED  BY <2>2, <1>2, Zenon
<1> HIDE DEF t
<1>8. XWords = 2 => May(Regs, Rest(e, p, h), s[2])
                    /\ Rest(g, p, h) = After(Regs, Rest(e, p, h), s[2])
  <2>1. XWords = 2 => 1 \in 0..XWords - 1  BY WordsNumber
  <2>2. XWords = 2 =>
          /\ May(Regs, Rest(e, p, h), <<"saved", 1, y>>)
          /\ After(Regs, Rest(e, p, h), <<"saved", 1, y>>)
               = Rest(Put(e, 1, IF y = "s0" THEN e.v0 ELSE e.v1), p, h)
    BY <2>1, SavedGoes, Zenon
  <2>3. Put(e, 1, IF y = "s0" THEN e.v0 ELSE e.v1) = g  BY <1>6, Zenon DEF g
  <2> QED  BY <2>2, <2>3, <1>2, Zenon
<1>9. Path(Regs, Rest(f, p, h), s, Rest(WithData(f, t), p, h))
  BY <1>3, <1>4, <1>5, <1>7, <1>8, PerWord
<1> QED  BY <1>9 DEF s, t

LEMMA ReadsRegsPath ==
  ASSUME xlen = Xlen, NEW f \in Facts, NEW p, NEW h
  PROVE  Path(Regs, Rest(f, p, h), Reads, Rest(WithWords(f), p, h))
<1> DEFINE s == Reads
           e == Taken(f, 0)
           g == Taken(e, 1)
<1>1. s = [i \in 1..XWords |-> <<"readData", i - 1>>]  BY WordsNumber DEF Reads
<1>2. s[1] = <<"readData", 0>> /\ (XWords = 2 => s[2] = <<"readData", 1>>)
  BY <1>1, DebugModuleConstants
<1>3. s = [i \in 1..XWords |-> s[i]]  BY <1>1
<1>4. XWords = 2 => WithWords(f) = g  BY DEF WithWords, Taken, Facts
<1>5. XWords = 1 => WithWords(f) = e  BY DEF WithWords, Taken
<1> HIDE DEF s, e, g
<1>6. May(Regs, Rest(f, p, h), s[1])
      /\ Rest(e, p, h) = After(Regs, Rest(f, p, h), s[1])
  <2>1. 0 \in 0..XWords - 1  BY WordsNumber
  <2>2. /\ May(Regs, Rest(f, p, h), <<"readData", 0>>)
        /\ After(Regs, Rest(f, p, h), <<"readData", 0>>) = Rest(e, p, h)
    BY <2>1, ReadGoes, Zenon DEF e
  <2> QED  BY <2>2, <1>2, Zenon
<1>7. XWords = 2 => May(Regs, Rest(e, p, h), s[2])
                    /\ Rest(g, p, h) = After(Regs, Rest(e, p, h), s[2])
  <2>1. XWords = 2 => 1 \in 0..XWords - 1  BY WordsNumber
  <2>2. XWords = 2 =>
          /\ May(Regs, Rest(e, p, h), <<"readData", 1>>)
          /\ After(Regs, Rest(e, p, h), <<"readData", 1>>) = Rest(g, p, h)
    BY <2>1, ReadGoes, Zenon DEF g
  <2> QED  BY <2>2, <1>2, Zenon
<1>8. Path(Regs, Rest(f, p, h), s, Rest(WithWords(f), p, h))
  BY <1>3, <1>4, <1>5, <1>6, <1>7, PerWord
<1> QED  BY <1>8 DEF s

\* The program buffer, with the instructions of prog at its beginning.
Upto(p, prog, n) == [i \in 0..5 |-> IF i < n THEN prog[i + 1] ELSE p[i]]
Over(p, prog) == Upto(p, prog, Len(prog))

LEMMA ProgramPath ==
  ASSUME NEW f, NEW p \in Buffers, NEW h, NEW prog, Len(prog) \in 0..6,
         \A i \in 1..Len(prog) : prog[i] \in Instructions
  PROVE  /\ Path(Regs, Rest(f, p, h),
                 [i \in 1..Len(prog) |-> <<"progbuf", i - 1, prog[i]>>],
                 Rest(f, Over(p, prog), h))
         /\ Over(p, prog) \in Buffers
<1> DEFINE n == Len(prog)
           L == [j \in 0..n |-> Rest(f, Upto(p, prog, j), h)]
           s == [i \in 1..n |-> <<"progbuf", i - 1, prog[i]>>]
<1>1. s = [i \in 1..n |-> s[i]]  OBVIOUS
<1>2. \A i \in 1..n : s[i] = <<"progbuf", i - 1, prog[i]>>  OBVIOUS
<1>3. Upto(p, prog, 0) = p  BY DEF Upto, Buffers
<1>4. \A j \in 0..n : L[j] = Rest(f, Upto(p, prog, j), h)  OBVIOUS
<1>5. L[0] = Rest(f, p, h) /\ L[n] = Rest(f, Over(p, prog), h)
  <2>1. 0 \in 0..n /\ n \in 0..n  OBVIOUS
  <2> HIDE DEF L
  <2> QED  BY <2>1, <1>3, <1>4 DEF Over
<1> HIDE DEF s, L
<1>6. ASSUME NEW i \in 1..n
      PROVE  May(Regs, L[i - 1], s[i]) /\ L[i] = After(Regs, L[i - 1], s[i])
  <2>1. i - 1 \in 0..5 /\ prog[i] \in Instructions /\ i - 1 \in 0..n /\ i \in 0..n  OBVIOUS
  <2>2. Upto(p, prog, i) = [Upto(p, prog, i - 1) EXCEPT ![i - 1] = prog[i]]
    <3> DEFINE A == Upto(p, prog, i)
               B == [Upto(p, prog, i - 1) EXCEPT ![i - 1] = prog[i]]
    <3>1. DOMAIN A = 0..5 /\ DOMAIN B = 0..5  BY DEF Upto
    <3>2. \A k \in 0..5 : A[k] = B[k]
      <4> TAKE k \in 0..5
      <4>1. A[k] = IF k < i THEN prog[k + 1] ELSE p[k]  BY DEF Upto
      <4>2. B[k] = IF k = i - 1 THEN prog[i]
                   ELSE IF k < i - 1 THEN prog[k + 1] ELSE p[k]
        BY DEF Upto
      <4> HIDE DEF A, B
      <4>3. CASE k = i - 1  BY <4>1, <4>2, <4>3
      <4>4. CASE k < i - 1  BY <4>1, <4>2, <4>4
      <4>5. CASE k > i - 1  BY <4>1, <4>2, <4>5
      <4> QED  BY <4>3, <4>4, <4>5
    <3>3. A = [k \in 0..5 |-> A[k]] /\ B = [k \in 0..5 |-> B[k]]  BY DEF Upto
    <3> QED  BY <3>2, <3>3, Zenon
  <2>3. L[i - 1] = Rest(f, Upto(p, prog, i - 1), h) /\ L[i] = Rest(f, Upto(p, prog, i), h)
    BY <2>1, <1>4
  <2> DEFINE q == Upto(p, prog, i - 1)
             j == i - 1
             ins == prog[i]
  <2>4. s[i] = <<"progbuf", j, ins>>  BY <1>2, Zenon
  <2>5. j \in 0..5 /\ ins \in Instructions  BY <2>1
  <2>6. Upto(p, prog, i) = Wrote(q, j, ins)  BY <2>2 DEF Wrote
  <2> HIDE DEF j, ins, q
  <2>7. /\ May(Regs, Rest(f, q, h), <<"progbuf", j, ins>>)
        /\ After(Regs, Rest(f, q, h), <<"progbuf", j, ins>>)
             = Rest(f, Wrote(q, j, ins), h)
    BY <2>5, ProgbufGoes
  <2>8. L[i - 1] = Rest(f, q, h) /\ L[i] = Rest(f, Wrote(q, j, ins), h)
    BY <2>3, <2>6, Zenon DEF q
  <2> QED  BY <2>4, <2>7, <2>8, Zenon
<1>7. Along(Regs, Rest(f, p, h), s, Rest(f, Over(p, prog), h), n, L)
  BY <1>1, <1>5, <1>6 DEF Along
<1>8. Path(Regs, Rest(f, p, h), s, Rest(f, Over(p, prog), h))  BY <1>7 DEF Path
<1>9. Over(p, prog) \in Buffers
  <2>1. \A i \in 0..5 : (IF i < n THEN prog[i + 1] ELSE p[i]) \in Instructions
    BY DEF Buffers
  <2> QED  BY <2>1 DEF Over, Upto, Buffers
<1> QED  BY <1>8, <1>9 DEF s

\* The program and the command.
LEMMA RunRegs ==
  ASSUME NEW f, NEW p \in Buffers, NEW h, NEW prog, Len(prog) \in 0..6,
         \A i \in 1..Len(prog) : prog[i] \in Instructions,
         NEW c, NEW transfers, NEW g, NEW q, q = Over(p, prog),
         \/ /\ c.write /\ Path(Regs, Rest(f, q, h), transfers, Rest(g, q, h))
            /\ MayCommand(Rest(g, q, h), c)
         \/ /\ ~c.write /\ MayCommand(Rest(f, q, h), c)
            /\ Path(Regs, Rest(Finish(f, q, h, c), q, h), transfers, Rest(g, q, h))
  PROVE  /\ Path(Regs, Rest(f, p, h), run_abstract_command(c, prog, transfers),
                 Rest(IF c.write THEN Finish(g, q, h, c) ELSE g, q, h))
         /\ Path(Regs, Rest(f, p, h), RUN_AC_OR_DIE(c, prog, transfers),
                 Rest(IF c.write THEN Finish(g, q, h, c) ELSE g, q, h))
         /\ q \in Buffers
<1> DEFINE load == [i \in 1..Len(prog) |-> <<"progbuf", i - 1, prog[i]>>]
           before == IF c.write THEN transfers ELSE <<>>
           after == IF c.write THEN <<>> ELSE transfers
           go == << <<"command", c>>, <<"abstractcs">> >>
           r == Rest(f, p, h)
           e == Rest(IF c.write THEN Finish(g, q, h, c) ELSE g, q, h)
<1>1. Path(Regs, r, load, Rest(f, q, h)) /\ q \in Buffers  BY ProgramPath
<1>2. Path(Regs, r, run_abstract_command(c, prog, transfers), e)
  <2>1. CASE c.write
    <3>1. Path(Regs, Rest(f, q, h), before, Rest(g, q, h))  BY <2>1
    <3>2. Path(Regs, Rest(g, q, h), go, e)  BY <2>1, CommandGoes
    <3>3. Path(Regs, e, after, e)
      <4>1. after = <<>>  BY <2>1
      <4> HIDE DEF after, e
      <4> QED  BY <4>1, PathNone
    <3>4. Path(Regs, r, ((load \o before) \o go) \o after, e)
      BY <1>1, <3>1, <3>2, <3>3, PathJoinFour, Zenon
    <3> QED  BY <3>4 DEF run_abstract_command
  <2>2. CASE ~c.write
    <3> DEFINE m == Rest(Finish(f, q, h, c), q, h)
    <3>1. Path(Regs, Rest(f, q, h), before, Rest(f, q, h))  BY <2>2, PathNone
    <3>2. Path(Regs, Rest(f, q, h), go, m)  BY <2>2, CommandGoes
    <3>3. Path(Regs, m, after, e)  BY <2>2
    <3>4. Path(Regs, r, ((load \o before) \o go) \o after, e)
      BY <1>1, <3>1, <3>2, <3>3, PathJoinFour, Zenon
    <3> QED  BY <3>4 DEF run_abstract_command
  <2> QED  BY <2>1, <2>2
<1>3. Path(Regs, e, << <<"check">> >>, e)
  <2> DEFINE x == <<"check">>
  <2>1. x[1] \in {"dmstatus", "allhalted", "allresumeack", "check", "copy", "readDmcontrol"}
    OBVIOUS
  <2> HIDE DEF x, e
  <2>4. e.run = "no" /\ e.c = NoCommand  BY DEF Rest, e
  <2>2. May(Regs, e, x) /\ After(Regs, e, x) = e  BY <2>1, <2>4, QuietGoes
  <2>3. Path(Regs, e, <<x>>, e)  BY <2>2, PathOne, Zenon
  <2> QED  BY <2>3 DEF x
<1> HIDE DEF e, r
<1>4. Path(Regs, r, RUN_AC_OR_DIE(c, prog, transfers), e)
  BY <1>2, <1>3, PathJoin DEF RUN_AC_OR_DIE
<1> QED  BY <1>1, <1>2, <1>4 DEF e, r

-------------------------------------------------------------------------------
(* What a routine leads to.                                                 *)

Stopped(r, h) == r.run = "no" /\ r.c = NoCommand /\ r.auto = FALSE /\ r.cur = h

LEMMA OutlineAt ==
  ASSUME NEW r \in Outlines, r.run = "no", r.c = NoCommand
  PROVE  /\ r.auto = FALSE => r = Rest(r.f, r.prog, r.cur)
         /\ r.auto = TRUE => r = Repeating(r.f, r.prog, r.cur)
BY DEF Outlines, Rest, Repeating

LEMMA StoppedAt ==
  ASSUME NEW r \in Outlines, NEW h, Stopped(r, h)
  PROVE  r = Rest(r.f, r.prog, h) /\ r.f \in Facts /\ r.prog \in Buffers
<1>1. r.auto = FALSE => r = Rest(r.f, r.prog, r.cur)  BY OutlineAt DEF Stopped
<1>2. r.auto = FALSE /\ r.cur = h  BY DEF Stopped
<1> QED  BY <1>1, <1>2 DEF Outlines, Buffers

LEMMA AtStopped ==
  ASSUME NEW f \in Facts, NEW p \in Buffers, NEW h \in Nat
  PROVE  /\ Rest(f, p, h) \in Outlines /\ Stopped(Rest(f, p, h), h)
         /\ Rest(f, p, h).f = f /\ Rest(f, p, h).prog = p
<1>1. Rest(f, p, h) \in Outlines  BY AtType
<1> QED  BY <1>1 DEF Rest, Stopped

\* From each outline of S, the accesses s lead to one of T.
Leads(S, s, T) == \A r \in S : \E t \in T : Path(Regs, r, s, t)

LEMMA LeadsOn ==
  ASSUME NEW S, NEW T, NEW V, NEW s, NEW u, Leads(S, s, T), Leads(T, u, V)
  PROVE  Leads(S, s \o u, V)
<1> SUFFICES ASSUME NEW r \in S PROVE \E v \in V : Path(Regs, r, s \o u, v)  BY DEF Leads
<1>1. PICK t \in T : Path(Regs, r, s, t)  BY DEF Leads
<1>2. PICK v \in V : Path(Regs, t, u, v)  BY DEF Leads
<1> QED  BY <1>1, <1>2, PathJoin

LEMMA LeadsOne ==
  ASSUME NEW S, NEW T, NEW x,
         \A r \in S : May(Regs, r, x) /\ After(Regs, r, x) \in T
  PROVE  Leads(S, <<x>>, T)
<1> SUFFICES ASSUME NEW r \in S PROVE \E t \in T : Path(Regs, r, <<x>>, t)  BY DEF Leads
<1>1. Path(Regs, r, <<x>>, After(Regs, r, x))  BY PathOne
<1> QED  BY <1>1

LEMMA LeadsNone ==
  ASSUME NEW S, NEW T, S \subseteq T
  PROVE  Leads(S, <<>>, T)
<1> SUFFICES ASSUME NEW r \in S PROVE \E t \in T : Path(Regs, r, <<>>, t)  BY DEF Leads
<1> QED  BY PathNone

LEMMA LeadsWide ==
  ASSUME NEW S, NEW T, NEW S2, NEW T2, NEW s, Leads(S, s, T), S2 \subseteq S, T \subseteq T2
  PROVE  Leads(S2, s, T2)
BY DEF Leads

-------------------------------------------------------------------------------
(* The commands.                                                            *)

LEMMA RegisterCommands ==
  ASSUME xlen = Xlen, NEW y \in {"s0", "s1", "x0"}, NEW b \in BOOLEAN
  PROVE  /\ SetRegister(y, b) \in CommandType /\ GetRegister(y, b) \in CommandType
         /\ SetRegister(y, b).write = TRUE /\ GetRegister(y, b).write = FALSE
         /\ SetRegister(y, b).postexec = b /\ GetRegister(y, b).postexec = b
         /\ SetRegister(y, b).size = Xlen /\ GetRegister(y, b).size = Xlen
         /\ SetRegister(y, b).regno = y /\ GetRegister(y, b).regno = y
<1>1. Xlen \in Nat  BY DebugModuleConstants DEF Xlen
<1> QED  BY <1>1 DEF SetRegister, GetRegister, CommandType

LEMMA OverNone ==
  ASSUME NEW p \in Buffers
  PROVE  Over(p, <<>>) = p /\ Len(<<>>) \in 0..6 /\ \A i \in 1..Len(<<>>) : <<>>[i] \in Instructions
BY DEF Over, Upto, Buffers

LEMMA MayRun ==
  ASSUME NEW f, NEW p, NEW h, NEW c \in CommandType, c.size = Xlen,
         ~c.write => c.regno \in {"s0", "s1"}, c.postexec => MemoryProgram(p)
  PROVE  MayCommand(Rest(f, p, h), c)
<1> DEFINE r == Rest(f, p, h)
<1>1. r.prog = p  BY DEF Rest
<1> HIDE DEF r
<1>2. MayCommand(r, c)  BY <1>1 DEF MayCommand
<1> QED  BY <1>2 DEF r

\* S0 and S1 are saved, and nothing of them is left in the words.
Lent(f) ==
  f.v0 = Kept(1) /\ f.v1 = Kept(2) /\ Wiped(f.w0) = Any /\ Wiped(f.w1) = Any

LEMMA DataTypes ==
  ASSUME NEW f \in Facts, NEW t \in Terms
  PROVE  WithData(f, t) \in Facts /\ WithWords(f) \in Facts
BY DEF WithData, WithWords, Facts

LEMMA LentKept ==
  ASSUME NEW f \in Facts, Lent(f)
  PROVE  /\ Lent(Forgotten(f)) /\ Lent(Looped(f))
         /\ \A t \in Terms : Lent(WithData(f, t))
         /\ \A c \in CommandType : Lent(Moved(f, c))
<1>1. Wiped(Any) = Any  BY DEF Wiped
<1>2. Lent(Forgotten(f))  BY DEF Forgotten, Lent, Facts
<1>3. Lent(Looped(f))  BY <1>1 DEF Looped, Lent, Facts
<1>4. \A t \in Terms : Lent(WithData(f, t))  BY DEF WithData, Lent, Facts
<1>5. \A c \in CommandType : Lent(Moved(f, c))  BY DEF Moved, Lent, Facts
<1> QED  BY <1>2, <1>3, <1>4, <1>5

LEMMA ForgottenSame ==
  ASSUME NEW f \in Facts
  PROVE  /\ \A t \in Terms : Forgotten(WithData(f, t)) = Forgotten(f)
         /\ Forgotten(Forgotten(f)) = Forgotten(f)
BY DEF Forgotten, WithData, Facts

\* With the registers in hand; with a program that loads and stores; after it.
Lending(h) == {r \in Outlines : Stopped(r, h) /\ Lent(r.f)}
Loading(h) == {r \in Lending(h) : MemoryProgram(r.prog)}
Blank(f) == f.pc = Any /\ f.ready = 0 /\ f.fenced = FALSE
Loaded(h) == {r \in Loading(h) : r.f = Forgotten(r.f)}
LentBlank(h) == {r \in Lending(h) : Blank(r.f)}

LEMMA LoadedBlank ==
  ASSUME NEW h
  PROVE  Loaded(h) \subseteq LentBlank(h) /\ Loaded(h) \subseteq Loading(h)
<1> SUFFICES ASSUME NEW r \in Loaded(h) PROVE Blank(r.f)
  BY DEF Loaded, Loading, LentBlank
<1>1. r.f = Forgotten(r.f) /\ r.f \in Facts  BY DEF Loaded, Loading, Lending, Outlines
<1>2. Forgotten(r.f).pc = Any /\ Forgotten(r.f).ready = 0 /\ Forgotten(r.f).fenced = FALSE
  BY <1>1 DEF Forgotten, Facts
<1> QED  BY <1>1, <1>2 DEF Blank

\* The programs.
Good(prog) == Len(prog) \in 0..6 /\ \A i \in 1..Len(prog) : prog[i] \in Instructions

\* A register is set and no program executed.
LEMMA SetLeads ==
  ASSUME xlen = Xlen, NEW h \in Nat, NEW y \in {"s0", "s1"}, NEW v \in Nat,
         NEW prog, Good(prog)
  PROVE  /\ Leads(Lending(h), RUN_AC_OR_DIE(SetRegister(y, FALSE), prog, Writes(v)),
                  Lending(h))
         /\ (\A p \in Buffers : MemoryProgram(Over(p, prog))) =>
              Leads(Lending(h), RUN_AC_OR_DIE(SetRegister(y, FALSE), prog, Writes(v)),
                    Loading(h))
<1> DEFINE c == SetRegister(y, FALSE)
           s == RUN_AC_OR_DIE(c, prog, Writes(v))
<1>1. /\ c \in CommandType /\ c.write = TRUE /\ c.postexec = FALSE /\ c.size = Xlen
      /\ c.regno = y
  BY RegisterCommands
<1> HIDE DEF c
<1>2. ASSUME NEW r \in Lending(h)
      PROVE  \E t \in Lending(h) : t.prog = Over(r.prog, prog) /\ Path(Regs, r, s, t)
  <2> DEFINE f == r.f
             p == r.prog
             q == Over(p, prog)
             g == WithData(f, Is(v))
             m == Moved(g, c)
             t == Rest(m, q, h)
  <2>1. r = Rest(f, p, h) /\ f \in Facts /\ p \in Buffers /\ Lent(f)
    BY StoppedAt DEF Lending
  <2>2. Is(v) \in Terms  BY TermTypes
  <2>3. g \in Facts /\ Lent(g)  BY <2>1, <2>2, DataTypes, LentKept
  <2>4. m \in Facts /\ Lent(m)  BY <2>3, <1>1, FactTypes, LentKept
  <2> HIDE DEF f, p, m, g
  <2>5. Path(Regs, Rest(f, q, h), Writes(v), Rest(g, q, h))
    BY WritesPath DEF g
  <2>6. MayCommand(Rest(g, q, h), c)  BY <1>1, MayRun
  <2>7. Finish(g, q, h, c) = m  BY <1>1 DEF Finish, m
  <2>8. q \in Buffers /\ Path(Regs, Rest(f, p, h), s,
             Rest(IF c.write THEN Finish(g, q, h, c) ELSE g, q, h))
    <3> HIDE DEF q
    <3>1. q = Over(p, prog)  BY DEF q
    <3> QED  BY <3>1, <2>1, <2>5, <2>6, <1>1, RunRegs DEF Good
  <2>9. Path(Regs, r, s, t)  BY <2>1, <2>7, <2>8, <1>1
  <2>10. t \in Outlines /\ Stopped(t, h) /\ t.f = m /\ t.prog = q
    BY <2>4, <2>8, AtStopped
  <2> HIDE DEF t
  <2>11. t \in Lending(h)  BY <2>4, <2>10 DEF Lending
  <2> QED  BY <2>9, <2>10, <2>11 DEF p
<1>3. Leads(Lending(h), s, Lending(h))  BY <1>2 DEF Leads
<1>4. ASSUME \A p \in Buffers : MemoryProgram(Over(p, prog))
      PROVE  Leads(Lending(h), s, Loading(h))
  <2>1. \A r \in Lending(h) : MemoryProgram(Over(r.prog, prog))
    BY <1>4, StoppedAt DEF Lending
  <2> QED  BY <2>1, <1>2 DEF Leads, Loading
<1> QED  BY <1>3, <1>4 DEF c

\* A register is set, and a program executed that loads and stores.
LEMMA StoreLeads ==
  ASSUME xlen = Xlen, NEW h \in Nat, NEW y \in {"s0", "s1"}, NEW v \in Nat,
         NEW prog, Good(prog), NEW S, S \subseteq Lending(h),
         \A r \in S : MemoryProgram(Over(r.prog, prog))
  PROVE  Leads(S, RUN_AC_OR_DIE(SetRegister(y, TRUE), prog, Writes(v)), Loaded(h))
<1> DEFINE c == SetRegister(y, TRUE)
           s == RUN_AC_OR_DIE(c, prog, Writes(v))
<1>1. /\ c \in CommandType /\ c.write = TRUE /\ c.postexec = TRUE /\ c.size = Xlen
      /\ c.regno = y
  BY RegisterCommands
<1> HIDE DEF c
<1>2. ASSUME NEW r \in S
      PROVE  \E t \in Loaded(h) : Path(Regs, r, s, t)
  <2> DEFINE f == r.f
             p == r.prog
             q == Over(p, prog)
             g == WithData(f, Is(v))
             m == Forgotten(f)
             t == Rest(m, q, h)
  <2>1. r = Rest(f, p, h) /\ f \in Facts /\ p \in Buffers /\ Lent(f)
    BY StoppedAt DEF Lending
  <2>2. Is(v) \in Terms  BY TermTypes
  <2>3. g \in Facts /\ Lent(g) /\ Forgotten(g) = m
    BY <2>1, <2>2, DataTypes, LentKept, ForgottenSame
  <2>4. m \in Facts /\ Lent(m) /\ Forgotten(m) = m  BY <2>1, FactTypes, LentKept, ForgottenSame
  <2>12. MemoryProgram(q)  OBVIOUS
  <2> HIDE DEF f, p, m, g
  <2>5. Path(Regs, Rest(f, q, h), Writes(v), Rest(g, q, h))
    BY WritesPath DEF g
  <2>6. MayCommand(Rest(g, q, h), c)  BY <1>1, <2>12, MayRun
  <2>7. Finish(g, q, h, c) = m  BY <1>1, <2>3, <2>12 DEF Finish, Executed
  <2>8. q \in Buffers /\ Path(Regs, Rest(f, p, h), s,
             Rest(IF c.write THEN Finish(g, q, h, c) ELSE g, q, h))
    <3> HIDE DEF q
    <3>1. q = Over(p, prog)  BY DEF q
    <3> QED  BY <3>1, <2>1, <2>5, <2>6, <1>1, RunRegs DEF Good
  <2>9. Path(Regs, r, s, t)  BY <2>1, <2>7, <2>8, <1>1
  <2>10. t \in Outlines /\ Stopped(t, h) /\ t.f = m /\ t.prog = q
    BY <2>4, <2>8, AtStopped
  <2> HIDE DEF t
  <2>11. t \in Loaded(h)  BY <2>4, <2>10, <2>12 DEF Lending, Loading, Loaded
  <2> QED  BY <2>9, <2>11
<1> QED  BY <1>2 DEF Leads, c

-------------------------------------------------------------------------------
(* halt, resume and select_hart.                                            *)

LEMMA HandedOver ==
  ASSUME NEW f \in Facts
  PROVE  /\ OutOfHand(f) \in Facts /\ OutOfHand(OutOfHand(f)) = OutOfHand(f)
         /\ Clean(f) => Clean(OutOfHand(f)) /\ Clean(Elsewhere(f))
         /\ Elsewhere(f) \in Facts
         /\ \A h, i : Turned(f, h, i) \in Facts /\ Turned(Elsewhere(f), h, i) = Elsewhere(f)
         /\ \A h : Turned(f, h, h) = f
<1>1. OutOfHand(f) \in Facts /\ Elsewhere(f) \in Facts  BY FactTypes
<1>2. OutOfHand(OutOfHand(f)) = OutOfHand(f)
  <2> DEFINE g == OutOfHand(f)
  <2>1. \A t : Wiped(Wiped(t)) = Wiped(t)
    <3>1. Any[1] # "kept"  BY FirstOfOne DEF Any
    <3> QED  BY <3>1 DEF Wiped
  <2>2. /\ g \in Facts /\ g.v0 = Any /\ g.v1 = Any /\ g.d0 = Any /\ g.d1 = Any /\ g.ds = Any
        /\ g.w0 = Wiped(f.w0) /\ g.w1 = Wiped(f.w1)
    BY <1>1 DEF OutOfHand, Facts
  <2> HIDE DEF g
  <2>3. Wiped(g.w0) = g.w0 /\ Wiped(g.w1) = g.w1  BY <2>1, <2>2
  <2>4. OutOfHand(g) = g  BY <2>2, <2>3 DEF OutOfHand, Facts
  <2> QED  BY <2>4 DEF g
<1>3. Clean(f) => Clean(OutOfHand(f)) /\ Clean(Elsewhere(f))
  BY DEF Clean, OutOfHand, Elsewhere, Facts
<1>4. ASSUME NEW h, NEW i
      PROVE  Turned(f, h, i) \in Facts /\ Turned(Elsewhere(f), h, i) = Elsewhere(f)
  <2>1. Turned(f, h, i) \in Facts  BY TermTypes DEF Turned, Facts
  <2> DEFINE g == OutOfHand(f)
  <2>2. g \in Facts  BY <1>1
  <2> HIDE DEF g
  <2>3. Elsewhere(f) = [g EXCEPT !.pc = Any, !.fenced = FALSE]  BY DEF Elsewhere, g
  <2>4. Turned(Elsewhere(f), h, i) = Elsewhere(f)  BY <2>2, <2>3 DEF Turned, Facts
  <2> QED  BY <2>1, <2>4
<1>5. \A h : Turned(f, h, h) = f  BY DEF Turned
<1> QED  BY <1>1, <1>2, <1>3, <1>4, <1>5

LEMMA QuietAt ==
  ASSUME NEW f, NEW p, NEW h, NEW x,
         x[1] \in {"dmstatus", "allhalted", "allresumeack", "check", "copy", "readDmcontrol"}
  PROVE  May(Regs, Rest(f, p, h), x) /\ After(Regs, Rest(f, p, h), x) = Rest(f, p, h)
<1> DEFINE r == Rest(f, p, h)
<1>1. r.run = "no" /\ r.c = NoCommand  BY DEF Rest
<1> HIDE DEF r
<1>2. May(Regs, r, x) /\ After(Regs, r, x) = r  BY <1>1, QuietGoes
<1> QED  BY <1>2 DEF r

LEMMA Quiet ==
  /\ <<"dmstatus">>[1] = "dmstatus" /\ <<"allhalted">>[1] = "allhalted"
  /\ <<"allresumeack">>[1] = "allresumeack" /\ <<"check">>[1] = "check"
  /\ <<"copy">>[1] = "copy" /\ <<"readDmcontrol">>[1] = "readDmcontrol"
OBVIOUS

LEMMA AskPath ==
  ASSUME NEW f \in Facts, Clean(f), NEW p, NEW h, NEW i \in Nat, NEW d, NEW d2, NEW y,
         y[1] \in {"allhalted", "allresumeack"}
  PROVE  Path(Regs, Rest(f, p, h),
              << <<"dmcontrol", d>>, y, <<"dmcontrol", d2>>, <<"dmstatus">>, <<"hart", i>> >>,
              Rest(Turned(OutOfHand(f), h, i), Unknown, i))
<1> DEFINE g == OutOfHand(f)
           a == Rest(f, p, h)
           b == Rest(g, Unknown, h)
           e == Rest(Turned(g, h, i), Unknown, i)
           z == <<"dmstatus">>
<1>1. g \in Facts /\ Clean(g) /\ OutOfHand(g) = g  BY HandedOver
<1>2. May(Regs, a, <<"dmcontrol", d>>) /\ b = After(Regs, a, <<"dmcontrol", d>>)
  BY DmcontrolGoes, Zenon
<1> HIDE DEF g
<1>3. May(Regs, b, <<"dmcontrol", d2>>) /\ b = After(Regs, b, <<"dmcontrol", d2>>)
  <2>1. /\ May(Regs, b, <<"dmcontrol", d2>>)
        /\ After(Regs, b, <<"dmcontrol", d2>>) = Rest(OutOfHand(g), Unknown, h)
    BY <1>1, DmcontrolGoes
  <2>2. Rest(OutOfHand(g), Unknown, h) = b  BY <1>1, Zenon
  <2> QED  BY <2>1, <2>2, Zenon
<1>4. May(Regs, b, y) /\ b = After(Regs, b, y)  BY QuietAt
<1>5. May(Regs, b, z) /\ b = After(Regs, b, z)
  <2>1. z[1] = "dmstatus"  OBVIOUS
  <2> HIDE DEF z
  <2> QED  BY <2>1, QuietAt
<1>6. May(Regs, b, <<"hart", i>>) /\ e = After(Regs, b, <<"hart", i>>)
  BY HartGoes
<1> HIDE DEF a, b, e, z
<1>7. Path(Regs, a, << <<"dmcontrol", d>>, y, <<"dmcontrol", d2>>, z, <<"hart", i>> >>, e)
  BY <1>2, <1>3, <1>4, <1>5, <1>6, PathFive
<1> QED  BY <1>7 DEF a, e, g, z

LEMMA SwitchPath ==
  ASSUME NEW f \in Facts, Clean(f), NEW p, NEW h, NEW d
  PROVE  Path(Regs, Rest(f, p, h), << <<"dmcontrol", d>>, <<"dmstatus">> >>,
              Rest(OutOfHand(f), Unknown, h))
<1> DEFINE g == OutOfHand(f)
           a == Rest(f, p, h)
           b == Rest(g, Unknown, h)
           z == <<"dmstatus">>
<1>2. May(Regs, a, <<"dmcontrol", d>>) /\ b = After(Regs, a, <<"dmcontrol", d>>)
  BY DmcontrolGoes, Zenon
<1>5. May(Regs, b, z) /\ b = After(Regs, b, z)
  <2>1. z[1] = "dmstatus"  OBVIOUS
  <2> HIDE DEF z
  <2> QED  BY <2>1, QuietAt
<1> HIDE DEF a, b, z
<1>6. Path(Regs, a, << <<"dmcontrol", d>>, z>>, b)  BY <1>2, <1>5, PathTwo
<1> QED  BY <1>6 DEF a, b, z

LEMMA HaltRegs ==
  ASSUME NEW f \in Facts, Clean(f), NEW p, NEW h, NEW i \in Nat
  PROVE  Path(Regs, Rest(f, p, h), halt(i),
              Rest(Turned(OutOfHand(f), h, i), Unknown, i))
<1> DEFINE first == IF running THEN << <<"dmcontrol", Active(0)>>, <<"dmstatus">> >> ELSE <<>>
           d == [Active(i) EXCEPT !.haltreq = TRUE]
           d2 == Active(i)
           y == <<"allhalted">>
           second == << <<"dmcontrol", d>>, y, <<"dmcontrol", d2>>, <<"dmstatus">>,
                        <<"hart", i>> >>
           g == OutOfHand(f)
           e == Rest(Turned(g, h, i), Unknown, i)
<1>1. g \in Facts /\ Clean(g) /\ OutOfHand(g) = g  BY HandedOver
<1>2. y[1] = "allhalted"  OBVIOUS
<1>3. Path(Regs, Rest(f, p, h), second, e)
  <2> HIDE DEF y, d, d2
  <2> QED  BY <1>2, AskPath
<1>4. Path(Regs, Rest(g, Unknown, h), second, e)
  <2> HIDE DEF y, d, d2, g
  <2>1. Path(Regs, Rest(g, Unknown, h), second,
             Rest(Turned(OutOfHand(g), h, i), Unknown, i))
    BY <1>1, <1>2, AskPath
  <2> QED  BY <1>1, <2>1
<1>5. halt(i) = first \o second  BY DEF halt
<1>6. CASE running
  <2>1. Path(Regs, Rest(f, p, h), first, Rest(g, Unknown, h))
    BY <1>6, SwitchPath
  <2> HIDE DEF first, second, g, e
  <2>2. Path(Regs, Rest(f, p, h), first \o second, e)  BY <1>4, <2>1, PathJoin
  <2> QED  BY <1>5, <2>2 DEF e, g
<1>7. CASE ~running
  <2>0. first = <<>>  BY <1>7
  <2> HIDE DEF first, second, g, e
  <2>1. Path(Regs, Rest(f, p, h), first, Rest(f, p, h))  BY <2>0, PathNone
  <2>2. Path(Regs, Rest(f, p, h), first \o second, e)  BY <1>3, <2>1, PathJoin
  <2> QED  BY <1>5, <2>2 DEF e, g
<1> QED  BY <1>6, <1>7

LEMMA ResumeRegs ==
  ASSUME NEW f \in Facts, Clean(f), NEW p, NEW h, NEW i \in Nat
  PROVE  Path(Regs, Rest(f, p, h), resume(i),
              Rest(Turned(OutOfHand(f), h, i), Unknown, i))
<1> DEFINE second == IF running THEN << <<"dmcontrol", Off>>, <<"dmstatus">> >> ELSE <<>>
           d == [Active(i) EXCEPT !.resumereq = TRUE]
           d2 == Active(i)
           y == <<"allresumeack">>
           first == << <<"dmcontrol", d>>, y, <<"dmcontrol", d2>>, <<"dmstatus">>,
                        <<"hart", i>> >>
           g == Turned(OutOfHand(f), h, i)
           e == Rest(g, Unknown, i)
<1>1. g \in Facts /\ Clean(g) /\ OutOfHand(g) = g
  <2> DEFINE o == OutOfHand(f)
  <2>1. o \in Facts /\ Clean(o) /\ OutOfHand(o) = o  BY HandedOver
  <2> HIDE DEF o
  <2>2. Turned(o, h, i) \in Facts  BY <2>1, HandedOver
  <2>3. Clean(Turned(o, h, i))  BY <2>1 DEF Turned, Clean, Facts
  <2>4. OutOfHand(Turned(o, h, i)) = Turned(OutOfHand(o), h, i)
    BY <2>1 DEF Turned, OutOfHand, Facts
  <2> QED  BY <2>1, <2>2, <2>3, <2>4 DEF o
<1>2. y[1] = "allresumeack"  OBVIOUS
<1>3. Path(Regs, Rest(f, p, h), first, e)
  <2> HIDE DEF y, d, d2
  <2> QED  BY <1>2, AskPath
<1>5. resume(i) = first \o second  BY DEF resume
<1> HIDE DEF g
<1>4. Path(Regs, e, second, e)
  <2>1. CASE running
    <3>1. Path(Regs, Rest(g, Unknown, i), second, Rest(OutOfHand(g), Unknown, i))
      BY <1>1, <2>1, SwitchPath
    <3> QED  BY <1>1, <3>1
  <2>2. CASE ~running
    <3>1. second = <<>>  BY <2>2
    <3> HIDE DEF second, e
    <3> QED  BY <3>1, PathNone
  <2> QED  BY <2>1, <2>2
<1> HIDE DEF first, second, e
<1>6. Path(Regs, Rest(f, p, h), first \o second, e)  BY <1>3, <1>4, PathJoin
<1> QED  BY <1>5, <1>6 DEF e, g

LEMMA SelectRegs ==
  ASSUME NEW f \in Facts, Clean(f), NEW p, NEW h, NEW i \in Nat
  PROVE  Path(Regs, Rest(f, p, h), select_hart(i), Rest(Elsewhere(f), Unknown, i))
<1> DEFINE g == Elsewhere(f)
           a == Rest(f, p, h)
           b == Rest(g, Unknown, h)
           e == Rest(g, Unknown, i)
           z == <<"readDmcontrol">>
<1>1. May(Regs, a, z) /\ a = After(Regs, a, z)
  <2>1. z[1] = "readDmcontrol"  OBVIOUS
  <2> HIDE DEF z
  <2> QED  BY <2>1, QuietAt
<1>2. May(Regs, a, <<"writeHartsel", i>>) /\ b = After(Regs, a, <<"writeHartsel", i>>)
  BY HartselGoes, Zenon
<1>3. May(Regs, b, <<"hart", i>>) /\ e = After(Regs, b, <<"hart", i>>)
  <2>1. Turned(g, h, i) = g  BY HandedOver
  <2> HIDE DEF g
  <2>2. /\ May(Regs, b, <<"hart", i>>)
        /\ After(Regs, b, <<"hart", i>>) = Rest(Turned(g, h, i), Unknown, i)
    BY HartGoes
  <2> QED  BY <2>1, <2>2
<1> HIDE DEF a, b, e, z, g
<1>4. Path(Regs, a, <<z, <<"writeHartsel", i>>, <<"hart", i>> >>, e)
  BY <1>1, <1>2, <1>3, PathThree
<1> QED  BY <1>4 DEF a, e, z, g, select_hart

-------------------------------------------------------------------------------
(* save_reg and restore_reg.                                                *)

LEMMA KeptTerms ==
  ASSUME NEW t \in {Kept(1), Kept(2)}
  PROVE  t \in Terms /\ t # Any /\ t[1] = "kept" /\ Wiped(t) = Any /\ Whole(t, t) = t
<1>1. t[1] = "kept"  BY DEF Kept
<1>2. Any[1] = "any"  BY FirstOfOne DEF Any
<1>3. t \in Terms  BY DEF Terms
<1> QED  BY <1>1, <1>2, <1>3 DEF Wiped, Whole

\* The commands of save_reg and restore_reg.
Getting(y) == GetRegister(y, FALSE)
Setting(y) == SetRegister(y, FALSE)

SameElse(f, g) ==
  g.pc = f.pc /\ g.ready = f.ready /\ g.fenced = f.fenced /\ g.ds = f.ds

LEMMA GotFacts ==
  ASSUME xlen = Xlen, NEW f \in Facts, NEW y \in {"s0", "s1"}, NEW t \in {Kept(1), Kept(2)},
         t = (IF y = "s0" THEN f.s0 ELSE f.s1), Wiped(f.w1) = Any,
         NEW m, m = Moved(f, Getting(y)), NEW g, g = Saved(WithWords(m), y)
  PROVE  /\ m \in Facts /\ WithWords(m) \in Facts /\ g \in Facts
         /\ g.s0 = f.s0 /\ g.s1 = f.s1 /\ SameElse(f, g)
         /\ y = "s0" => g.v0 = t /\ g.v1 = f.v1
         /\ y = "s1" => g.v0 = f.v0 /\ g.v1 = t
         /\ Wiped(g.w0) = Any /\ Wiped(g.w1) = Any
<1> DEFINE c == Getting(y)
<1>1. c \in CommandType /\ c.write = FALSE /\ c.size = Xlen /\ c.regno = y
  BY RegisterCommands DEF Getting, Setting
<1> HIDE DEF c
<1>2. m \in Facts  BY <1>1, FactTypes DEF c
<1>3. /\ m.d0 = t /\ m.d1 = t /\ m.s0 = f.s0 /\ m.s1 = f.s1 /\ m.v0 = f.v0 /\ m.v1 = f.v1
      /\ m.w0 = f.w0 /\ m.w1 = f.w1 /\ SameElse(f, m)
  <2>1. m = [f EXCEPT !.d0 = t, !.d1 = t]  BY <1>1 DEF Moved, c
  <2> QED  BY <2>1 DEF Facts, SameElse
<1> DEFINE w == WithWords(m)
<1>4. w \in Facts  BY <1>2, TermTypes, DataTypes
<1>5. /\ w.w0 = t /\ w.w1 = (IF XWords = 2 THEN t ELSE f.w1)
      /\ w.s0 = f.s0 /\ w.s1 = f.s1 /\ w.v0 = f.v0 /\ w.v1 = f.v1 /\ SameElse(f, w)
  BY <1>2, <1>3 DEF WithWords, Facts, SameElse
<1> HIDE DEF w
<1>6. Whole(w.w0, w.w1) = t
  <2>1. CASE XWords = 1  BY <2>1, <1>5, KeptTerms DEF Whole
  <2>2. CASE XWords = 2  BY <2>2, <1>5, KeptTerms
  <2> QED  BY <2>1, <2>2, DebugModuleConstants
<1>7. g = Saved(w, y)  BY DEF w
<1>8. g \in Facts  BY <1>4, <1>7, FactTypes
<1>9. /\ g.s0 = f.s0 /\ g.s1 = f.s1 /\ SameElse(f, g)
      /\ y = "s0" => g.v0 = t /\ g.v1 = f.v1
      /\ y = "s1" => g.v0 = f.v0 /\ g.v1 = t
      /\ g.w0 = w.w0 /\ g.w1 = w.w1
  <2>1. g = IF y = "s0" THEN [w EXCEPT !.v0 = t] ELSE [w EXCEPT !.v1 = t]
    BY <1>6, <1>7 DEF Saved
  <2>2. CASE y = "s0"  BY <1>4, <1>5, <2>1, <2>2 DEF Facts, SameElse
  <2>3. CASE y = "s1"  BY <1>4, <1>5, <2>1, <2>3 DEF Facts, SameElse
  <2> QED  BY <2>2, <2>3
<1>10. Wiped(g.w0) = Any /\ Wiped(g.w1) = Any  BY <1>5, <1>9, KeptTerms
<1> QED  BY <1>2, <1>4, <1>8, <1>9, <1>10 DEF w

LEMMA SaveRegs ==
  ASSUME xlen = Xlen, NEW f \in Facts, NEW p \in Buffers, NEW h, NEW y \in {"s0", "s1"},
         NEW m, m = Moved(f, Getting(y)), m \in Facts
  PROVE  Path(Regs, Rest(f, p, h), save_reg(y), Rest(Saved(WithWords(m), y), p, h))
<1> DEFINE c == Getting(y)
           w == WithWords(m)
<1>1. /\ c \in CommandType /\ c.write = FALSE /\ c.postexec = FALSE /\ c.size = Xlen
      /\ c.regno = y
  BY RegisterCommands DEF Getting, Setting
<1> HIDE DEF c, w
<1>2. MayCommand(Rest(f, p, h), c)  BY <1>1, MayRun
<1>3. Finish(f, p, h, c) = m  BY <1>1 DEF Finish, c
<1>4. Path(Regs, Rest(m, p, h), Reads, Rest(w, p, h))  BY ReadsRegsPath DEF w
<1>5. Path(Regs, Rest(f, p, h), RUN_AC_OR_DIE(c, <<>>, Reads), Rest(w, p, h))
  <2> DEFINE prog == <<>>
  <2>1. p = Over(p, prog) /\ Len(prog) \in 0..6 /\ \A i \in 1..Len(prog) : prog[i] \in Instructions
    BY OverNone
  <2> HIDE DEF prog
  <2>2. Path(Regs, Rest(f, p, h), RUN_AC_OR_DIE(c, prog, Reads),
             Rest(IF c.write THEN Finish(w, p, h, c) ELSE w, p, h))
    BY <2>1, <1>1, <1>2, <1>3, <1>4, RunRegs
  <2> QED  BY <2>2, <1>1 DEF prog
<1>6. Path(Regs, Rest(w, p, h), << <<"save", y>> >>, Rest(Saved(w, y), p, h))
  <2> DEFINE x == <<"save", y>>
  <2>1. May(Regs, Rest(w, p, h), x) /\ After(Regs, Rest(w, p, h), x) = Rest(Saved(w, y), p, h)
    BY SaveGoes, Zenon
  <2> HIDE DEF x
  <2>2. Path(Regs, Rest(w, p, h), <<x>>, After(Regs, Rest(w, p, h), x))  BY <2>1, PathOne
  <2> QED  BY <2>1, <2>2 DEF x
<1>7. Path(Regs, Rest(f, p, h), save_reg(y), Rest(Saved(w, y), p, h))
  BY <1>5, <1>6, PathJoin DEF save_reg, Getting, c
<1> QED  BY <1>7, Zenon DEF w

LEMMA PutBackFacts ==
  ASSUME xlen = Xlen, NEW f \in Facts, Lent(f), NEW y \in {"s0", "s1"},
         NEW w, w = WithData(f, IF y = "s0" THEN f.v0 ELSE f.v1),
         NEW g, g = Moved(w, Setting(y))
  PROVE  /\ w \in Facts /\ g \in Facts /\ Lent(g) /\ SameElse(f, g)
         /\ y = "s0" => g.s0 = Kept(1) /\ g.s1 = f.s1
         /\ y = "s1" => g.s0 = f.s0 /\ g.s1 = Kept(2)
<1> DEFINE c == Setting(y)
           t == IF y = "s0" THEN f.v0 ELSE f.v1
<1>1. c \in CommandType /\ c.write = TRUE /\ c.regno = y  BY RegisterCommands DEF Getting, Setting
<1> HIDE DEF c
<1>2. t = (IF y = "s0" THEN Kept(1) ELSE Kept(2))  BY DEF Lent
<1>3. t \in {Kept(1), Kept(2)}  BY <1>2
<1>4. t \in Terms /\ w = WithData(f, t)  BY <1>3, KeptTerms
<1> HIDE DEF t
<1>5. w \in Facts /\ Lent(w)  BY <1>4, DataTypes, LentKept
<1>6. g \in Facts /\ Lent(g)  BY <1>1, <1>5, FactTypes, LentKept DEF c
<1>7. /\ w.d0 = t /\ (XWords = 2 => w.d1 = t) /\ w.s0 = f.s0 /\ w.s1 = f.s1
      /\ SameElse(f, w)
  BY <1>4 DEF WithData, Facts, SameElse
<1>8. Whole(w.d0, w.d1) = t
  <2>1. CASE XWords = 1  BY <2>1, <1>3, <1>7, KeptTerms DEF Whole
  <2>2. CASE XWords = 2  BY <2>2, <1>3, <1>7, KeptTerms
  <2> QED  BY <2>1, <2>2, DebugModuleConstants
<1>9. g = IF y = "s0" THEN [w EXCEPT !.s0 = t] ELSE [w EXCEPT !.s1 = t]
  BY <1>1, <1>8 DEF Moved, c
<1>10. /\ SameElse(f, g)
       /\ y = "s0" => g.s0 = t /\ g.s1 = f.s1
       /\ y = "s1" => g.s0 = f.s0 /\ g.s1 = t
  BY <1>5, <1>7, <1>9 DEF Facts, SameElse
<1> QED  BY <1>2, <1>5, <1>6, <1>10

LEMMA RestoreRegs ==
  ASSUME xlen = Xlen, NEW f \in Facts, NEW p \in Buffers, NEW h, NEW y \in {"s0", "s1"},
         NEW w, w = WithData(f, IF y = "s0" THEN f.v0 ELSE f.v1)
  PROVE  Path(Regs, Rest(f, p, h), restore_reg(y), Rest(Moved(w, Setting(y)), p, h))
<1> DEFINE c == Setting(y)
<1>1. /\ c \in CommandType /\ c.write = TRUE /\ c.postexec = FALSE /\ c.size = Xlen
      /\ c.regno = y
  BY RegisterCommands DEF Getting, Setting
<1> HIDE DEF c
<1>2. MayCommand(Rest(w, p, h), c)  BY <1>1, MayRun
<1>3. Finish(w, p, h, c) = Moved(w, c)  BY <1>1 DEF Finish
<1>4. Path(Regs, Rest(f, p, h), Restores(y), Rest(w, p, h))  BY RestoresPath
<1> DEFINE prog == <<>>
<1>5. p = Over(p, prog) /\ Len(prog) \in 0..6 /\ \A i \in 1..Len(prog) : prog[i] \in Instructions
  BY OverNone
<1> HIDE DEF prog
<1>6. Path(Regs, Rest(f, p, h), RUN_AC_OR_DIE(c, prog, Restores(y)),
           Rest(IF c.write THEN Finish(w, p, h, c) ELSE w, p, h))
  BY <1>1, <1>2, <1>4, <1>5, RunRegs
<1> QED  BY <1>1, <1>3, <1>6 DEF restore_reg, Setting, c, prog

-------------------------------------------------------------------------------
(* The chunk calls.                                                         *)

FreshFacts(t, n, b) ==
  [s0 |-> Kept(1), s1 |-> Kept(2), v0 |-> Any, v1 |-> Any, d0 |-> Any, d1 |-> Any,
   w0 |-> Any, w1 |-> Any, ds |-> Any, pc |-> t, ready |-> n, fenced |-> b]

LEMMA FreshIs ==
  ASSUME NEW h, NEW t, NEW n, NEW b
  PROVE  Fresh(h, t, n, b) = Rest(FreshFacts(t, n, b), Unknown, h)
BY Zenon DEF Fresh, Rest, FreshFacts

LEMMA FreshFactsType ==
  ASSUME NEW t \in Terms, NEW n \in Nat, NEW b \in BOOLEAN
  PROVE  /\ FreshFacts(t, n, b) \in Facts /\ Clean(FreshFacts(t, n, b))
         /\ OutOfHand(FreshFacts(t, n, b)) = FreshFacts(t, n, b)
         /\ Wiped(FreshFacts(t, n, b).w0) = Any /\ Wiped(FreshFacts(t, n, b).w1) = Any
<1> DEFINE f == FreshFacts(t, n, b)
<1>1. f \in Facts  BY TermTypes DEF FreshFacts, Facts
<1>2. /\ f.s0 = Kept(1) /\ f.s1 = Kept(2) /\ f.v0 = Any /\ f.v1 = Any /\ f.d0 = Any
      /\ f.d1 = Any /\ f.w0 = Any /\ f.w1 = Any /\ f.ds = Any
  BY DEF FreshFacts
<1> HIDE DEF f
<1>3. Wiped(Any) = Any  BY DEF Wiped
<1>4. Clean(f)  BY <1>2 DEF Clean
<1>5. OutOfHand(f) = f  BY <1>1, <1>2, <1>3 DEF OutOfHand, Facts
<1> QED  BY <1>1, <1>2, <1>3, <1>4, <1>5 DEF f

LEMMA FactsAre ==
  ASSUME NEW f \in Facts, NEW t, NEW n, NEW b,
         Clean(f), f.v0 = Any, f.v1 = Any, f.d0 = Any, f.d1 = Any, f.w0 = Any, f.w1 = Any,
         f.ds = Any, f.pc = t, f.ready = n, f.fenced = b
  PROVE  f = FreshFacts(t, n, b)
BY DEF Clean, FreshFacts, Facts

\* A hart is let go when its registers are as they were.
LEMMA LetGoFresh ==
  ASSUME NEW f \in Facts, Clean(f), Wiped(f.w0) = Any, Wiped(f.w1) = Any, NEW h
  PROVE  Rest(OutOfHand(f), Unknown, h) = Fresh(h, f.pc, f.ready, f.fenced)
<1> DEFINE g == OutOfHand(f)
<1>1. g \in Facts  BY FactTypes
<1>2. /\ g.v0 = Any /\ g.v1 = Any /\ g.d0 = Any /\ g.d1 = Any /\ g.w0 = Any /\ g.w1 = Any
      /\ g.ds = Any /\ g.pc = f.pc /\ g.ready = f.ready /\ g.fenced = f.fenced /\ Clean(g)
  BY DEF OutOfHand, Facts, Clean
<1> HIDE DEF g
<1>3. g = FreshFacts(f.pc, f.ready, f.fenced)  BY <1>1, <1>2, FactsAre
<1> QED  BY <1>3, FreshIs DEF g

Taking(h) ==
  {r \in Outlines : Stopped(r, h) /\ Clean(r.f) /\ Wiped(r.f.w0) = Any /\ Wiped(r.f.w1) = Any}
HalfTaken(h) == {r \in Taking(h) : r.f.v0 = Kept(1)}
HalfMended(h) == {r \in LentBlank(h) : r.f.s0 = Kept(1)}
Mended(h) == {r \in LentBlank(h) : Clean(r.f)}

LEMMA SavesLead ==
  ASSUME xlen = Xlen, NEW h \in Nat
  PROVE  /\ Leads(Taking(h), save_reg("s0"), HalfTaken(h))
         /\ Leads(HalfTaken(h), save_reg("s1"), Lending(h))
<1>1. ASSUME NEW y \in {"s0", "s1"}, NEW r \in Taking(h)
      PROVE  \E q \in Taking(h) :
               /\ Path(Regs, r, save_reg(y), q)
               /\ y = "s0" => q.f.v0 = Kept(1)
               /\ y = "s1" => q.f.v0 = r.f.v0 /\ q.f.v1 = Kept(2)
  <2> DEFINE f == r.f
             p == r.prog
             t == IF y = "s0" THEN f.s0 ELSE f.s1
             m == Moved(f, Getting(y))
             g == Saved(WithWords(m), y)
             q == Rest(g, p, h)
  <2>1. r = Rest(f, p, h) /\ f \in Facts /\ p \in Buffers  BY StoppedAt DEF Taking
  <2>2. Clean(f) /\ Wiped(f.w0) = Any /\ Wiped(f.w1) = Any  BY DEF Taking
  <2>3. t = (IF y = "s0" THEN Kept(1) ELSE Kept(2))  BY <2>2 DEF Clean
  <2>4. t \in {Kept(1), Kept(2)}  BY <2>3
  <2> HIDE DEF f, p
  <2>5. /\ m \in Facts /\ g \in Facts /\ g.s0 = f.s0 /\ g.s1 = f.s1
        /\ y = "s0" => g.v0 = t /\ g.v1 = f.v1
        /\ y = "s1" => g.v0 = f.v0 /\ g.v1 = t
        /\ Wiped(g.w0) = Any /\ Wiped(g.w1) = Any
    <3>1. /\ m = Moved(f, Getting(y)) /\ g = Saved(WithWords(m), y)
          /\ t = (IF y = "s0" THEN f.s0 ELSE f.s1)
      BY Zenon DEF m, g
    <3> HIDE DEF m, g, t
    <3> QED  BY <3>1, <2>1, <2>2, <2>4, GotFacts
  <2>6. Path(Regs, Rest(f, p, h), save_reg(y), q)  BY <2>1, <2>5, SaveRegs
  <2> HIDE DEF g, t
  <2>7. q \in Outlines /\ Stopped(q, h) /\ q.f = g  BY <2>1, <2>5, AtStopped
  <2> HIDE DEF q
  <2>8. q \in Taking(h)  BY <2>2, <2>5, <2>7 DEF Taking, Clean
  <2>9. y = "s0" => q.f.v0 = Kept(1)  BY <2>3, <2>5, <2>7
  <2>10. y = "s1" => q.f.v0 = r.f.v0 /\ q.f.v1 = Kept(2)  BY <2>3, <2>5, <2>7 DEF f
  <2> QED  BY <2>1, <2>6, <2>8, <2>9, <2>10
<1>2. Leads(Taking(h), save_reg("s0"), HalfTaken(h))
  <2> SUFFICES ASSUME NEW r \in Taking(h)
               PROVE  \E q \in HalfTaken(h) : Path(Regs, r, save_reg("s0"), q)
    BY DEF Leads
  <2>1. PICK q \in Taking(h) : Path(Regs, r, save_reg("s0"), q) /\ q.f.v0 = Kept(1)
    BY <1>1
  <2> QED  BY <2>1 DEF HalfTaken
<1>3. Leads(HalfTaken(h), save_reg("s1"), Lending(h))
  <2> SUFFICES ASSUME NEW r \in HalfTaken(h)
               PROVE  \E q \in Lending(h) : Path(Regs, r, save_reg("s1"), q)
    BY DEF Leads
  <2>1. r \in Taking(h) /\ r.f.v0 = Kept(1)  BY DEF HalfTaken
  <2>2. PICK q \in Taking(h) : /\ Path(Regs, r, save_reg("s1"), q)
                               /\ q.f.v0 = r.f.v0 /\ q.f.v1 = Kept(2)
    BY <1>1, <2>1
  <2>3. q \in Lending(h)  BY <2>1, <2>2 DEF Taking, Lending, Lent
  <2> QED  BY <2>2, <2>3
<1> QED  BY <1>2, <1>3

LEMMA RestoresLead ==
  ASSUME xlen = Xlen, NEW h \in Nat
  PROVE  /\ Leads(LentBlank(h), restore_reg("s0"), HalfMended(h))
         /\ Leads(HalfMended(h), restore_reg("s1"), Mended(h))
<1>1. ASSUME NEW y \in {"s0", "s1"}, NEW r \in LentBlank(h)
      PROVE  \E q \in LentBlank(h) :
               /\ Path(Regs, r, restore_reg(y), q)
               /\ y = "s0" => q.f.s0 = Kept(1)
               /\ y = "s1" => q.f.s0 = r.f.s0 /\ q.f.s1 = Kept(2)
  <2> DEFINE f == r.f
             p == r.prog
             w == WithData(f, IF y = "s0" THEN f.v0 ELSE f.v1)
             g == Moved(w, Setting(y))
             q == Rest(g, p, h)
  <2>1. r = Rest(f, p, h) /\ f \in Facts /\ p \in Buffers
    BY StoppedAt DEF LentBlank, Lending
  <2>2. Lent(f) /\ Blank(f)  BY DEF LentBlank, Lending
  <2> HIDE DEF f, p
  <2>3. /\ w \in Facts /\ g \in Facts /\ Lent(g) /\ SameElse(f, g)
        /\ y = "s0" => g.s0 = Kept(1) /\ g.s1 = f.s1
        /\ y = "s1" => g.s0 = f.s0 /\ g.s1 = Kept(2)
    BY <2>1, <2>2, PutBackFacts
  <2>4. Path(Regs, Rest(f, p, h), restore_reg(y), q)  BY <2>1, <2>3, RestoreRegs
  <2> HIDE DEF g
  <2>5. q \in Outlines /\ Stopped(q, h) /\ q.f = g  BY <2>1, <2>3, AtStopped
  <2> HIDE DEF q
  <2>6. q \in LentBlank(h)  BY <2>2, <2>3, <2>5 DEF LentBlank, Lending, Blank, SameElse
  <2>7. y = "s0" => q.f.s0 = Kept(1)  BY <2>3, <2>5
  <2>8. y = "s1" => q.f.s0 = r.f.s0 /\ q.f.s1 = Kept(2)  BY <2>3, <2>5 DEF f
  <2> QED  BY <2>1, <2>4, <2>6, <2>7, <2>8
<1>2. Leads(LentBlank(h), restore_reg("s0"), HalfMended(h))
  <2> SUFFICES ASSUME NEW r \in LentBlank(h)
               PROVE  \E q \in HalfMended(h) : Path(Regs, r, restore_reg("s0"), q)
    BY DEF Leads
  <2>1. PICK q \in LentBlank(h) : Path(Regs, r, restore_reg("s0"), q) /\ q.f.s0 = Kept(1)
    BY <1>1
  <2> QED  BY <2>1 DEF HalfMended
<1>3. Leads(HalfMended(h), restore_reg("s1"), Mended(h))
  <2> SUFFICES ASSUME NEW r \in HalfMended(h)
               PROVE  \E q \in Mended(h) : Path(Regs, r, restore_reg("s1"), q)
    BY DEF Leads
  <2>1. r \in LentBlank(h) /\ r.f.s0 = Kept(1)  BY DEF HalfMended
  <2>2. PICK q \in LentBlank(h) : /\ Path(Regs, r, restore_reg("s1"), q)
                                  /\ q.f.s0 = r.f.s0 /\ q.f.s1 = Kept(2)
    BY <1>1, <2>1
  <2> QED  BY <2>1, <2>2 DEF Mended, Clean
<1> QED  BY <1>2, <1>3

\* halt and resume of the hart in hand.
LEMMA InHandPaths ==
  ASSUME NEW f \in Facts, Clean(f), NEW p, NEW h \in Nat
  PROVE  /\ Path(Regs, Rest(f, p, h), halt(h), Rest(OutOfHand(f), Unknown, h))
         /\ Path(Regs, Rest(f, p, h), resume(h), Rest(OutOfHand(f), Unknown, h))
<1>1. Turned(OutOfHand(f), h, h) = OutOfHand(f)  BY DEF Turned
<1> QED  BY <1>1, HaltRegs, ResumeRegs

LEMMA WithHartRegs ==
  ASSUME xlen = Xlen, current_hart \in Nat, NEW t \in Terms, NEW n \in Nat, NEW b \in BOOLEAN,
         NEW body, Leads(Lending(current_hart), body, LentBlank(current_hart))
  PROVE  Path(Regs, Fresh(current_hart, t, n, b), WithHart(body),
              Fresh(current_hart, Any, 0, FALSE))
<1> DEFINE h == current_hart
           r == Fresh(h, t, n, b)
           e == Fresh(h, Any, 0, FALSE)
<1>1. Leads({r}, halt(h), Taking(h))
  <2> DEFINE f == FreshFacts(t, n, b)
             q == Rest(f, Unknown, h)
  <2>1. /\ f \in Facts /\ Clean(f) /\ OutOfHand(f) = f
        /\ Wiped(f.w0) = Any /\ Wiped(f.w1) = Any
    BY FreshFactsType
  <2>2. r = q  BY FreshIs
  <2> HIDE DEF f
  <2>3. Path(Regs, q, halt(h), q)
    <3>1. Path(Regs, Rest(f, Unknown, h), halt(h), Rest(OutOfHand(f), Unknown, h))
      BY <2>1, InHandPaths
    <3> QED  BY <2>1, <3>1
  <2>4. Unknown \in Buffers  BY UnknownType DEF Buffers
  <2>5. q \in Outlines /\ Stopped(q, h) /\ q.f = f  BY <2>1, <2>4, AtStopped
  <2> HIDE DEF q
  <2>6. q \in Taking(h)  BY <2>1, <2>5 DEF Taking
  <2> QED  BY <2>2, <2>3, <2>6 DEF Leads
<1>2. Leads(Mended(h), resume(h), {e})
  <2> SUFFICES ASSUME NEW g \in Mended(h) PROVE Path(Regs, g, resume(h), e)  BY DEF Leads
  <2> DEFINE f == g.f
             p == g.prog
  <2>1. g = Rest(f, p, h) /\ f \in Facts /\ p \in Buffers
    BY StoppedAt DEF Mended, LentBlank, Lending
  <2>2. Clean(f) /\ Blank(f) /\ Wiped(f.w0) = Any /\ Wiped(f.w1) = Any
    BY DEF Mended, LentBlank, Lending, Lent
  <2> HIDE DEF f, p
  <2>3. Path(Regs, Rest(f, p, h), resume(h), Rest(OutOfHand(f), Unknown, h))
    BY <2>1, <2>2, InHandPaths
  <2>4. f.pc = Any /\ f.ready = 0 /\ f.fenced = FALSE  BY <2>2, Zenon DEF Blank
  <2>5. Rest(OutOfHand(f), Unknown, h) = Fresh(h, f.pc, f.ready, f.fenced)
    BY <2>1, <2>2, LetGoFresh
  <2>6. Rest(OutOfHand(f), Unknown, h) = e  BY <2>4, <2>5, Zenon
  <2> QED  BY <2>1, <2>3, <2>6
<1> DEFINE z1 == halt(h) \o save_reg("s0")
           z2 == z1 \o save_reg("s1")
           z3 == z2 \o body
           z4 == z3 \o restore_reg("s0")
           z5 == z4 \o restore_reg("s1")
           z6 == z5 \o resume(h)
<1> HIDE DEF r, e
<1>3. Leads({r}, z1, HalfTaken(h))  BY <1>1, SavesLead, LeadsOn
<1> HIDE DEF z1
<1>4. Leads({r}, z2, Lending(h))  BY <1>3, SavesLead, LeadsOn
<1> HIDE DEF z2
<1>5. Leads({r}, z3, LentBlank(h))  BY <1>4, LeadsOn
<1> HIDE DEF z3
<1>6. Leads({r}, z4, HalfMended(h))  BY <1>5, RestoresLead, LeadsOn
<1> HIDE DEF z4
<1>7. Leads({r}, z5, Mended(h))  BY <1>6, RestoresLead, LeadsOn
<1> HIDE DEF z5
<1>8. Leads({r}, z6, {e})  BY <1>2, <1>7, LeadsOn
<1> HIDE DEF z6
<1>9. Path(Regs, r, z6, e)  BY <1>8 DEF Leads
<1> QED  BY <1>9, Zenon DEF r, e, z1, z2, z3, z4, z5, z6, WithHart

\* A program of loads and stores that ends with EBREAK.
LEMMA MemoryOver ==
  ASSUME NEW prog, NEW n \in 0..5, Len(prog) = n + 1, prog[n + 1] = <<"EBREAK">>,
         \A i \in 1..n : prog[i] \in MemoryInstructions
  PROVE  Good(prog) /\ \A p \in Buffers : MemoryProgram(Over(p, prog))
<1>1. <<"EBREAK">> \in Instructions /\ MemoryInstructions \subseteq Instructions
  BY DEF Instructions
<1>2. Good(prog)
  <2>1. ASSUME NEW i \in 1..Len(prog) PROVE prog[i] \in Instructions
    <3>1. i \in 1..n \/ i = n + 1  OBVIOUS
    <3> QED  BY <1>1, <3>1
  <2> QED  BY <2>1 DEF Good
<1>3. ASSUME NEW p \in Buffers
      PROVE  EndsAt(Over(p, prog), n)
  <2> DEFINE q == Over(p, prog)
  <2>1. q[n] = prog[n + 1]  BY DEF Over, Upto
  <2>2. ASSUME NEW i \in 0..n - 1 PROVE q[i] \in MemoryInstructions
    <3>1. i + 1 \in 1..n /\ i \in 0..5 /\ i < n + 1  OBVIOUS
    <3>2. q[i] = prog[i + 1]  BY <3>1 DEF Over, Upto
    <3> QED  BY <3>1, <3>2
  <2> QED  BY <2>1, <2>2 DEF EndsAt
<1> QED  BY <1>2, <1>3 DEF MemoryProgram

LEMMA ThreeInstructions ==
  ASSUME NEW x \in MemoryInstructions, NEW y \in MemoryInstructions, NEW z, z = <<"EBREAK">>
  PROVE  Good(<<x, y, z>>) /\ \A p \in Buffers : MemoryProgram(Over(p, <<x, y, z>>))
<1> DEFINE prog == <<x, y, z>>
<1>1. Len(prog) = 3 /\ prog[1] = x /\ prog[2] = y /\ prog[3] = z  OBVIOUS
<1>2. \A i \in 1..2 : prog[i] \in MemoryInstructions
  <2>1. \A i \in 1..2 : i = 1 \/ i = 2  OBVIOUS
  <2> HIDE DEF prog
  <2> QED  BY <1>1, <2>1
<1> HIDE DEF prog
<1>3. 2 \in 0..5 /\ 2 + 1 = 3  OBVIOUS
<1>4. Good(prog) /\ \A p \in Buffers : MemoryProgram(Over(p, prog))
  BY <1>1, <1>2, <1>3, MemoryOver
<1> QED  BY <1>4 DEF prog

LEMMA FourInstructions ==
  ASSUME NEW x \in MemoryInstructions, NEW y \in MemoryInstructions,
         NEW u \in MemoryInstructions, NEW z, z = <<"EBREAK">>
  PROVE  Good(<<x, y, u, z>>) /\ \A p \in Buffers : MemoryProgram(Over(p, <<x, y, u, z>>))
<1> DEFINE prog == <<x, y, u, z>>
<1>1. Len(prog) = 4 /\ prog[1] = x /\ prog[2] = y /\ prog[3] = u /\ prog[4] = z  OBVIOUS
<1>2. \A i \in 1..3 : prog[i] \in MemoryInstructions
  <2>1. \A i \in 1..3 : i = 1 \/ i = 2 \/ i = 3  OBVIOUS
  <2> HIDE DEF prog
  <2> QED  BY <1>1, <2>1
<1> HIDE DEF prog
<1>3. 3 \in 0..5 /\ 3 + 1 = 4  OBVIOUS
<1>4. Good(prog) /\ \A p \in Buffers : MemoryProgram(Over(p, prog))
  BY <1>1, <1>2, <1>3, MemoryOver
<1> QED  BY <1>4 DEF prog

LEMMA ChunkPrograms ==
  /\ Good(<< <<"LOAD s1">>, <<"ADDI s0">>, <<"EBREAK">> >>)
  /\ \A p \in Buffers : MemoryProgram(Over(p, << <<"LOAD s1">>, <<"ADDI s0">>, <<"EBREAK">> >>))
  /\ Good(<< <<"STORE s1">>, <<"ADDI s0">>, <<"EBREAK">> >>)
  /\ \A p \in Buffers : MemoryProgram(Over(p, << <<"STORE s1">>, <<"ADDI s0">>, <<"EBREAK">> >>))
  /\ Good(<< <<"STORE x0">>, <<"ADDI s0">>, <<"BNE">>, <<"EBREAK">> >>)
  /\ \A p \in Buffers :
       MemoryProgram(Over(p, << <<"STORE x0">>, <<"ADDI s0">>, <<"BNE">>, <<"EBREAK">> >>))
  /\ Good(<<>>) /\ \A p \in Buffers : Over(p, <<>>) = p
<1> DEFINE l == <<"LOAD s1">>
           s == <<"STORE s1">>
           c == <<"STORE x0">>
           a == <<"ADDI s0">>
           b == <<"BNE">>
           z == <<"EBREAK">>
<1>1. /\ l \in MemoryInstructions /\ s \in MemoryInstructions /\ c \in MemoryInstructions
      /\ a \in MemoryInstructions /\ b \in MemoryInstructions
  BY DEF MemoryInstructions
<1>2. Good(<<>>) /\ \A p \in Buffers : Over(p, <<>>) = p
  <2>1. \A p \in Buffers : Over(p, <<>>) = p  BY OverNone
  <2>2. Len(<<>>) = 0 /\ 1..0 = {}  OBVIOUS
  <2> QED  BY <2>1, <2>2 DEF Good
<1>3. z = <<"EBREAK">>  OBVIOUS
<1> HIDE DEF l, s, c, a, b, z
<1>4. Good(<<l, a, z>>) /\ \A p \in Buffers : MemoryProgram(Over(p, <<l, a, z>>))
  BY <1>1, <1>3, ThreeInstructions
<1>5. Good(<<s, a, z>>) /\ \A p \in Buffers : MemoryProgram(Over(p, <<s, a, z>>))
  BY <1>1, <1>3, ThreeInstructions
<1>6. Good(<<c, a, b, z>>) /\ \A p \in Buffers : MemoryProgram(Over(p, <<c, a, b, z>>))
  BY <1>1, <1>3, FourInstructions
<1> QED  BY <1>2, <1>4, <1>5, <1>6, Zenon DEF l, s, c, a, b, z

LEMMA LoopedLoaded ==
  ASSUME NEW h \in Nat, NEW r \in Loaded(h)
  PROVE  [r EXCEPT !.f = Looped(r.f)] \in Loaded(h)
<1> DEFINE f == r.f
           g == Looped(f)
           q == [r EXCEPT !.f = g]
<1>1. /\ r \in Outlines /\ Stopped(r, h) /\ Lent(f) /\ MemoryProgram(r.prog)
      /\ f = Forgotten(f) /\ f \in Facts
  BY DEF Loaded, Loading, Lending, Outlines
<1>2. g \in Facts /\ Lent(g)  BY <1>1, FactTypes, LentKept
<1>3. /\ g.s0 = f.s0 /\ g.s1 = f.s1 /\ g.d0 = f.d0 /\ g.d1 = f.d1 /\ g.ds = f.ds
      /\ g.pc = f.pc /\ g.ready = f.ready /\ g.fenced = f.fenced
  BY <1>1 DEF Looped, Facts
<1>4. /\ f.s0 = Any /\ f.s1 = Any /\ f.d0 = Any /\ f.d1 = Any /\ f.ds = Any /\ f.pc = Any
      /\ f.ready = 0 /\ f.fenced = FALSE
  <2> DEFINE k == Forgotten(f)
  <2>1. /\ k.s0 = Any /\ k.s1 = Any /\ k.d0 = Any /\ k.d1 = Any /\ k.ds = Any
        /\ k.pc = Any /\ k.ready = 0 /\ k.fenced = FALSE
    BY <1>1 DEF Forgotten, Facts
  <2> QED  BY <1>1, <2>1
<1> HIDE DEF g
<1>5. Forgotten(g) = g  BY <1>2, <1>3, <1>4 DEF Forgotten, Facts
<1>6. q \in Outlines /\ q.f = g /\ q.prog = r.prog /\ Stopped(q, h)
  BY <1>1, <1>2 DEF Outlines, Stopped
<1> HIDE DEF q
<1>7. q \in Loaded(h)  BY <1>1, <1>2, <1>5, <1>6 DEF Loaded, Loading, Lending
<1> QED  BY <1>7 DEF q, g, f

LEMMA ReadWordsLead ==
  ASSUME NEW h \in Nat, NEW i \in Nat, NEW n \in Nat
  PROVE  Leads(Loaded(h), << <<"read_words", i, n>> >>, LentBlank(h))
<1> DEFINE x == <<"read_words", i, n>>
<1>1. x[1] = "read_words" /\ x[2] = i /\ x[3] = n  OBVIOUS
<1> HIDE DEF x
<1>2. ASSUME NEW r \in Loaded(h)
      PROVE  May(Regs, r, x) /\ After(Regs, r, x) \in LentBlank(h)
  <2>1. /\ r.run = "no" /\ r.c = NoCommand /\ r.auto = FALSE /\ r.f = Forgotten(r.f)
        /\ MemoryProgram(r.prog)
    BY DEF Loaded, Loading, Lending, Stopped
  <2>2. MayRegisters(r, x)  BY <1>1, <2>1 DEF MayRegisters
  <2>3. AfterRegisters(r, x) = IF i > n THEN r ELSE [r EXCEPT !.f = Looped(r.f)]
    BY <1>1 DEF AfterRegisters
  <2>4. AfterRegisters(r, x) \in Loaded(h)  BY <2>3, LoopedLoaded
  <2> QED  BY <2>2, <2>4, LoadedBlank DEF May, After, Regs
<1>3. Leads(Loaded(h), <<x>>, LentBlank(h))  BY <1>2, LeadsOne
<1> QED  BY <1>3 DEF x

LEMMA ReadChunkRegs ==
  ASSUME xlen = Xlen, current_hart \in Nat, NEW t \in Terms, NEW n \in Nat, NEW b \in BOOLEAN,
         NEW a \in Nat, NEW len \in Nat
  PROVE  Path(Regs, Fresh(current_hart, t, n, b), read_chunk(a, len),
              Fresh(current_hart, Any, 0, FALSE))
<1> DEFINE h == current_hart
           prog == << <<"LOAD s1">>, <<"ADDI s0">>, <<"EBREAK">> >>
           first == RUN_AC_OR_DIE(SetRegister("s0", TRUE), prog, Writes(a))
           second == << <<"read_words", 1, len>> >>
<1>1. Good(prog) /\ \A p \in Buffers : MemoryProgram(Over(p, prog))  BY ChunkPrograms
<1>2. \A r \in Lending(h) : MemoryProgram(Over(r.prog, prog))
  <2> HIDE DEF prog
  <2> QED  BY <1>1, StoppedAt DEF Lending
<1>3. Leads(Lending(h), first, Loaded(h))
  <2> HIDE DEF prog
  <2> QED  BY <1>1, <1>2, StoreLeads
<1>4. Leads(Loaded(h), second, LentBlank(h))  BY ReadWordsLead
<1> HIDE DEF first, second
<1>5. Leads(Lending(h), first \o second, LentBlank(h))  BY <1>3, <1>4, LeadsOn
<1>6. Path(Regs, Fresh(h, t, n, b), WithHart(first \o second), Fresh(h, Any, 0, FALSE))
  BY <1>5, WithHartRegs, Zenon
<1> QED  BY <1>6, Zenon DEF read_chunk, first, second, prog

LEMMA AutoLead ==
  ASSUME NEW h \in Nat, NEW ws \in Seq(Nat)
  PROVE  Leads(Loaded(h), << <<"auto", TRUE>>, <<"more_words", ws>>, <<"auto", FALSE>> >>,
               LentBlank(h))
<1> DEFINE x == <<"auto", TRUE>>
           y == <<"more_words", ws>>
           z == <<"auto", FALSE>>
<1>1. ASSUME NEW r \in Loaded(h)
      PROVE  Path(Regs, r, <<x, y, z>>, r)
  <2> DEFINE f == r.f
             p == r.prog
             q == Repeating(f, p, h)
  <2>1. r = Rest(f, p, h) /\ f \in Facts /\ p \in Buffers
    BY StoppedAt DEF Loaded, Loading, Lending
  <2>2. f = Forgotten(f) /\ MemoryProgram(p)  BY DEF Loaded, Loading
  <2> HIDE DEF f, p
  <2>3. /\ May(Regs, r, x) /\ q = After(Regs, r, x)
        /\ May(Regs, q, z) /\ r = After(Regs, q, z)
    BY <2>1, AutoGoes, Zenon
  <2>4. May(Regs, q, y) /\ q = After(Regs, q, y)
    <3>1. /\ q.f = f /\ q.prog = p /\ q.run = "no" /\ q.c = NoCommand /\ q.auto = TRUE
      BY DEF Repeating
    <3>2. y[1] = "more_words" /\ y[2] = ws  OBVIOUS
    <3> HIDE DEF q, y
    <3>3. MayRegisters(q, y)  BY <2>2, <3>1, <3>2 DEF MayRegisters
    <3>4. AfterRegisters(q, y) = q  BY <3>2 DEF AfterRegisters
    <3> QED  BY <3>3, <3>4 DEF May, After, Regs
  <2> HIDE DEF x, y, z, q
  <2> QED  BY <2>3, <2>4, PathThree
<1>2. Leads(Loaded(h), <<x, y, z>>, Loaded(h))  BY <1>1 DEF Leads
<1> HIDE DEF x, y, z
<1>3. Leads(Loaded(h), <<x, y, z>>, LentBlank(h))
  BY <1>2, LoadedBlank, LeadsWide
<1> QED  BY <1>3 DEF x, y, z

LEMMA WriteChunkRegs ==
  ASSUME xlen = Xlen, current_hart \in Nat, NEW t \in Terms, NEW n \in Nat, NEW b \in BOOLEAN,
         NEW a \in Nat, NEW ws \in Seq(Nat), ws # <<>>
  PROVE  Path(Regs, Fresh(current_hart, t, n, b), write_chunk(a, ws),
              Fresh(current_hart, Any, 0, FALSE))
<1> DEFINE h == current_hart
           prog == << <<"STORE s1">>, <<"ADDI s0">>, <<"EBREAK">> >>
           none == <<>>
           w == ws[1]
           first == RUN_AC_OR_DIE(SetRegister("s0", FALSE), prog, Writes(a))
           second == RUN_AC_OR_DIE(SetRegister("s1", TRUE), none, Writes(w))
           third == auto_words(ws)
<1>1. Good(prog) /\ \A p \in Buffers : MemoryProgram(Over(p, prog))  BY ChunkPrograms
<1>2. Good(none) /\ \A p \in Buffers : Over(p, none) = p  BY ChunkPrograms
<1>3. w \in Nat  OBVIOUS
<1>4. Leads(Lending(h), first, Loading(h))
  <2> HIDE DEF prog
  <2> QED  BY <1>1, SetLeads
<1> HIDE DEF none, w
<1>5. \A r \in Loading(h) : MemoryProgram(Over(r.prog, none))
  BY <1>2, StoppedAt DEF Lending, Loading
<1>6. Leads(Loading(h), second, Loaded(h))
  <2>1. Loading(h) \subseteq Lending(h)  BY DEF Loading
  <2> QED  BY <1>2, <1>3, <1>5, <2>1, StoreLeads
<1>7. Leads(Loaded(h), third, LentBlank(h))
  <2>1. CASE Len(ws) = 1
    <3>1. third = <<>>  BY <2>1 DEF auto_words
    <3> HIDE DEF third
    <3> QED  BY <3>1, LoadedBlank, LeadsNone
  <2>2. CASE Len(ws) # 1
    <3> DEFINE rest == Tail(ws)
    <3>1. rest \in Seq(Nat)  OBVIOUS
    <3>2. third = << <<"auto", TRUE>>, <<"more_words", rest>>, <<"auto", FALSE>> >>
      BY <2>2 DEF auto_words
    <3> HIDE DEF rest, third
    <3>3. Leads(Loaded(h), << <<"auto", TRUE>>, <<"more_words", rest>>, <<"auto", FALSE>> >>,
                LentBlank(h))
      BY <3>1, AutoLead
    <3> QED  BY <3>2, <3>3, Zenon
  <2> QED  BY <2>1, <2>2
<1> HIDE DEF first, second, third
<1>8. Leads(Lending(h), first \o second, Loaded(h))  BY <1>4, <1>6, LeadsOn
<1>9. Leads(Lending(h), (first \o second) \o third, LentBlank(h))  BY <1>7, <1>8, LeadsOn
<1>10. Path(Regs, Fresh(h, t, n, b), WithHart((first \o second) \o third),
            Fresh(h, Any, 0, FALSE))
  BY <1>9, WithHartRegs, Zenon
<1> QED  BY <1>10, Zenon DEF write_chunk, first, second, third, prog, none, w

LEMMA ClearChunkRegs ==
  ASSUME xlen = Xlen, current_hart \in Nat, NEW t \in Terms, NEW n \in Nat, NEW b \in BOOLEAN,
         NEW a \in Nat, NEW len \in Nat
  PROVE  Path(Regs, Fresh(current_hart, t, n, b), clear_chunk(a, len),
              Fresh(current_hart, Any, 0, FALSE))
<1> DEFINE h == current_hart
           prog == << <<"STORE x0">>, <<"ADDI s0">>, <<"BNE">>, <<"EBREAK">> >>
           none == <<>>
           w == a + len
           first == RUN_AC_OR_DIE(SetRegister("s0", FALSE), none, Writes(a))
           second == RUN_AC_OR_DIE(SetRegister("s1", TRUE), prog, Writes(w))
<1>1. Good(prog) /\ \A p \in Buffers : MemoryProgram(Over(p, prog))  BY ChunkPrograms
<1>2. Good(none)  BY ChunkPrograms
<1>3. w \in Nat  OBVIOUS
<1>4. Leads(Lending(h), first, Lending(h))
  <2> HIDE DEF none
  <2> QED  BY <1>2, SetLeads
<1> HIDE DEF w
<1>5. \A r \in Lending(h) : MemoryProgram(Over(r.prog, prog))
  <2> HIDE DEF prog
  <2> QED  BY <1>1, StoppedAt DEF Lending
<1>6. Leads(Lending(h), second, Loaded(h))
  <2> HIDE DEF prog
  <2> QED  BY <1>1, <1>3, <1>5, StoreLeads
<1>7. Leads(Lending(h), second, LentBlank(h))
  <2> HIDE DEF second
  <2> QED  BY <1>6, LoadedBlank, LeadsWide
<1> HIDE DEF first, second
<1>8. Leads(Lending(h), first \o second, LentBlank(h))  BY <1>4, <1>7, LeadsOn
<1>9. Path(Regs, Fresh(h, t, n, b), WithHart(first \o second), Fresh(h, Any, 0, FALSE))
  BY <1>8, WithHartRegs, Zenon
<1> QED  BY <1>9, Zenon DEF clear_chunk, first, second, prog, none, w

-------------------------------------------------------------------------------
(* modify_csr and fence_i.                                                  *)

CsrText(type) ==
  << <<"CSRRW dscratch">>, <<"LOAD data">>, <<"CSRR", type, "dpc">>,
     <<"STORE data">>, <<"CSRRW dscratch">>, <<"EBREAK">> >>
FenceText == << <<"FENCE_I">>, <<"EBREAK">> >>

LEMMA OverFields ==
  ASSUME NEW p, NEW prog, NEW n \in 0..6, Len(prog) = n, NEW i \in 0..5, i < n
  PROVE  Over(p, prog)[i] = prog[i + 1]
BY DEF Over, Upto

LEMMA SixWords ==
  ASSUME NEW a, NEW b, NEW c, NEW d, NEW e, NEW f, NEW p
  PROVE  /\ Len(<<a, b, c, d, e, f>>) = 6
         /\ \A i \in 1..6 : <<a, b, c, d, e, f>>[i] \in {a, b, c, d, e, f}
         /\ Over(p, <<a, b, c, d, e, f>>)[0] = a /\ Over(p, <<a, b, c, d, e, f>>)[1] = b
         /\ Over(p, <<a, b, c, d, e, f>>)[2] = c /\ Over(p, <<a, b, c, d, e, f>>)[3] = d
         /\ Over(p, <<a, b, c, d, e, f>>)[4] = e /\ Over(p, <<a, b, c, d, e, f>>)[5] = f
<1> DEFINE s == <<a, b, c, d, e, f>>
<1>1. /\ Len(s) = 6 /\ s[1] = a /\ s[2] = b /\ s[3] = c /\ s[4] = d /\ s[5] = e /\ s[6] = f
  OBVIOUS
<1>2. \A i \in 1..6 : s[i] \in {a, b, c, d, e, f}
  <2>1. \A i \in 1..6 : i = 1 \/ i = 2 \/ i = 3 \/ i = 4 \/ i = 5 \/ i = 6  OBVIOUS
  <2> HIDE DEF s
  <2> QED  BY <1>1, <2>1
<1> HIDE DEF s
<1>3. /\ Over(p, s)[0] = s[1] /\ Over(p, s)[1] = s[2] /\ Over(p, s)[2] = s[3]
      /\ Over(p, s)[3] = s[4] /\ Over(p, s)[4] = s[5] /\ Over(p, s)[5] = s[6]
  BY <1>1 DEF Over, Upto
<1>4. /\ Len(s) = 6 /\ \A i \in 1..6 : s[i] \in {a, b, c, d, e, f}
      /\ Over(p, s)[0] = a /\ Over(p, s)[1] = b /\ Over(p, s)[2] = c /\ Over(p, s)[3] = d
      /\ Over(p, s)[4] = e /\ Over(p, s)[5] = f
  BY <1>1, <1>2, <1>3
<1> QED  BY <1>4 DEF s

LEMMA TwoWords ==
  ASSUME NEW a, NEW b, NEW p
  PROVE  /\ Len(<<a, b>>) = 2 /\ \A i \in 1..2 : <<a, b>>[i] \in {a, b}
         /\ Over(p, <<a, b>>)[0] = a /\ Over(p, <<a, b>>)[1] = b
<1> DEFINE s == <<a, b>>
<1>1. Len(s) = 2 /\ s[1] = a /\ s[2] = b  OBVIOUS
<1>2. \A i \in 1..2 : s[i] \in {a, b}
  <2>1. \A i \in 1..2 : i = 1 \/ i = 2  OBVIOUS
  <2> HIDE DEF s
  <2> QED  BY <1>1, <2>1
<1> HIDE DEF s
<1>3. Over(p, s)[0] = s[1] /\ Over(p, s)[1] = s[2]  BY <1>1 DEF Over, Upto
<1>4. /\ Len(s) = 2 /\ \A i \in 1..2 : s[i] \in {a, b}
      /\ Over(p, s)[0] = a /\ Over(p, s)[1] = b
  BY <1>1, <1>2, <1>3
<1> QED  BY <1>4 DEF s

LEMMA CsrTextGood ==
  ASSUME NEW type \in {"WRITE", "SET", "CLEAR"}
  PROVE  /\ Good(CsrText(type))
         /\ \A p : CsrProgram(Over(p, CsrText(type))) /\ Over(p, CsrText(type))[2][2] = type
<1> DEFINE a == <<"CSRRW dscratch">>
           b == <<"LOAD data">>
           c == <<"CSRR", type, "dpc">>
           d == <<"STORE data">>
           e == <<"EBREAK">>
           s == <<a, b, c, d, a, e>>
<1>1. {a, b, c, d, a, e} \subseteq Instructions  BY DEF Instructions
<1>2. c[2] = type  OBVIOUS
<1>5. CsrText(type) = s  BY Zenon DEF CsrText
<1> HIDE DEF a, b, c, d, e
<1>3. /\ Len(s) = 6 /\ \A i \in 1..6 : s[i] \in {a, b, c, d, a, e}  BY SixWords, Zenon
<1>4. ASSUME NEW p
      PROVE  /\ Over(p, s)[0] = a /\ Over(p, s)[1] = b
             /\ Over(p, s)[2] = c /\ Over(p, s)[3] = d
             /\ Over(p, s)[4] = a /\ Over(p, s)[5] = e
  BY SixWords
<1> HIDE DEF s
<1>6. Good(s)  BY <1>1, <1>3 DEF Good
<1>7. ASSUME NEW p
      PROVE  CsrProgram(Over(p, s)) /\ Over(p, s)[2][2] = type
  <2> DEFINE q == Over(p, s)
  <2>1. /\ q[0] = a /\ q[1] = b /\ q[2] = c /\ q[3] = d /\ q[4] = a /\ q[5] = e
    BY <1>4
  <2> HIDE DEF q
  <2>2. q[2][2] = type  BY <1>2, <2>1
  <2>3. CsrProgram(q)  BY <2>1, <2>2, Zenon DEF CsrProgram, a, b, c, d, e
  <2> QED  BY <2>2, <2>3 DEF q
<1> QED  BY <1>5, <1>6, <1>7

LEMMA FenceTextGood ==
  Good(FenceText) /\ \A p : FenceProgram(Over(p, FenceText))
<1> DEFINE a == <<"FENCE_I">>
           e == <<"EBREAK">>
           s == <<a, e>>
<1>1. {a, e} \subseteq Instructions  BY DEF Instructions
<1>5. FenceText = s  BY Zenon DEF FenceText
<1> HIDE DEF a, e
<1>3. /\ Len(s) = 2 /\ \A i \in 1..2 : s[i] \in {a, e}  BY TwoWords, Zenon
<1>4. ASSUME NEW p PROVE Over(p, s)[0] = a /\ Over(p, s)[1] = e  BY TwoWords
<1> HIDE DEF s
<1>6. Good(s)  BY <1>1, <1>3 DEF Good
<1>7. \A p : FenceProgram(Over(p, s))  BY <1>4, Zenon DEF FenceProgram, a, e
<1> QED  BY <1>5, <1>6, <1>7

LEMMA WithDataWhole ==
  ASSUME NEW f \in Facts, NEW v \in Value
  PROVE  /\ Is(v) \in Terms /\ WithData(f, Is(v)) \in Facts
         /\ Whole(WithData(f, Is(v)).d0, WithData(f, Is(v)).d1) = Is(v)
<1>1. Is(v) \in Terms /\ Is(v)[1] = "is" /\ Is(v)[2] = v
  BY ZeroValue, TermTypes DEF Is
<1>2. WithData(f, Is(v)) \in Facts  BY <1>1, DataTypes
<1> DEFINE t == Is(v)
<1> HIDE DEF t
<1>3. CASE XWords = 1
  <2>1. WithData(f, t).d0 = t  BY <1>3 DEF WithData, Facts
  <2> QED  BY <1>1, <1>2, <1>3, <2>1 DEF Whole, t
<1>4. CASE XWords = 2
  <2>1. WithData(f, t).d0 = t /\ WithData(f, t).d1 = t  BY <1>4 DEF WithData, Facts
  <2> QED  BY <1>1, <1>2, <1>4, <2>1 DEF Whole, t
<1> QED  BY <1>1, <1>2, <1>3, <1>4, DebugModuleConstants

LEMMA ModifyCsrRegs ==
  ASSUME xlen = Xlen, NEW h \in Nat, h = current_hart,
         NEW t \in Terms, NEW n \in Nat, NEW b \in BOOLEAN,
         NEW type \in {"WRITE", "SET", "CLEAR"}, NEW v \in Value,
         \A old \in Value : CsrUpdate(type, old, v) \in Value
  PROVE  \E g \in Facts, k \in Facts :
           /\ Path(Regs, Fresh(h, t, n, b), modify_csr(type, "dpc", v),
                   Rest(OutOfHand(k), Unknown, h))
           /\ Clean(k) /\ Whole(g.d0, g.d1) = Is(v)
           /\ g.pc = t /\ g.ready = n /\ g.fenced = b
           /\ k.pc = NewPc(g, type) /\ k.ready = NewReady(g, h, type) /\ k.fenced = b
           /\ k.w0 = t /\ k.w1 = (IF XWords = 2 THEN t ELSE Any)
<1> DEFINE f == FreshFacts(t, n, b)
           g == WithData(f, Is(v))
           m == CsrMid(g, h, type, 5)
           k == WithWords(m)
           q == Over(Unknown, CsrText(type))
           c == SetRegister("x0", TRUE)
           prog == CsrText(type)
<1>1. f \in Facts /\ Clean(f) /\ OutOfHand(f) = f  BY FreshFactsType
<1>2. f.pc = t /\ f.ready = n /\ f.fenced = b /\ f.w1 = Any /\ f.s0 = Kept(1) /\ f.s1 = Kept(2)
  BY DEF FreshFacts
<1>3. Fresh(h, t, n, b) = Rest(f, Unknown, h)  BY FreshIs
<1>4. Unknown \in Buffers  BY UnknownType DEF Buffers
<1> HIDE DEF f
<1>5. g \in Facts /\ Whole(g.d0, g.d1) = Is(v)  BY <1>1, WithDataWhole
<1>6. /\ g.pc = t /\ g.ready = n /\ g.fenced = b /\ g.w1 = Any
      /\ g.s0 = Kept(1) /\ g.s1 = Kept(2)
  BY <1>1, <1>2 DEF WithData, Facts
<1>7. Good(prog) /\ CsrProgram(q) /\ q[2][2] = type  BY CsrTextGood
<1>8. ~MemoryProgram(q)  BY <1>7, ProgramsDiffer
<1>9. CsrFits(g, type)
  <2>1. Is(v)[1] = "is" /\ Is(v)[2] = v  BY DEF Is
  <2> QED  BY <1>5, <2>1 DEF CsrFits
<1>10. /\ c \in CommandType /\ c.write = TRUE /\ c.postexec = TRUE /\ c.size = Xlen
       /\ c.regno = "x0"
  BY RegisterCommands
<1>11. v \in Nat  BY ZeroValue
<1> HIDE DEF g, c, prog, q
<1>12. m \in Facts  BY <1>5, <1>9, CsrTypes
<1>13. /\ m.pc = NewPc(g, type) /\ m.ready = NewReady(g, h, type) /\ m.fenced = b
       /\ m.d0 = t /\ m.d1 = t /\ m.w1 = Any /\ m.s0 = Kept(1) /\ m.s1 = Kept(2)
  BY <1>5, <1>6 DEF CsrMid, Facts
<1>14. Executed(g, q, h) = m  BY <1>7, <1>8 DEF Executed
<1> HIDE DEF m
<1>15. k \in Facts  BY <1>12, TermTypes, DataTypes
<1>16. /\ k.pc = m.pc /\ k.ready = m.ready /\ k.fenced = m.fenced /\ k.s0 = m.s0 /\ k.s1 = m.s1
       /\ k.w0 = t /\ k.w1 = (IF XWords = 2 THEN t ELSE Any)
  BY <1>12, <1>13 DEF WithWords, Facts
<1> HIDE DEF k
<1>17. Clean(k)  BY <1>13, <1>16 DEF Clean
<1> DEFINE r == Rest(f, Unknown, h)
           z1 == halt(h)
           z2 == RUN_AC_OR_DIE(c, prog, Writes(v))
           z3 == Reads
           z4 == resume(h)
           e == Rest(OutOfHand(k), Unknown, h)
<1>18. Path(Regs, r, z1, r)
  <2>1. Path(Regs, Rest(f, Unknown, h), halt(h), Rest(OutOfHand(f), Unknown, h))
    BY <1>1, InHandPaths
  <2> QED  BY <1>1, <2>1
<1>19. Path(Regs, r, z2, Rest(m, q, h)) /\ q \in Buffers
  <2> DEFINE p == Unknown
  <2>1. q = Over(p, prog)  BY DEF q, prog
  <2> HIDE DEF p
  <2>2. p \in Buffers  BY <1>4 DEF p
  <2>3. Path(Regs, Rest(f, q, h), Writes(v), Rest(g, q, h))  BY <1>11, WritesPath DEF g
  <2>4. MayCommand(Rest(g, q, h), c)
    <3> DEFINE a == Rest(g, q, h)
    <3>1. a.f = g /\ a.prog = q  BY DEF Rest
    <3> HIDE DEF a
    <3>2. MayCommand(a, c)  BY <1>7, <1>9, <1>10, <3>1 DEF MayCommand
    <3> QED  BY <3>2 DEF a
  <2>5. Finish(g, q, h, c) = m  BY <1>10, <1>14 DEF Finish
  <2>6. /\ q \in Buffers
        /\ Path(Regs, Rest(f, p, h), RUN_AC_OR_DIE(c, prog, Writes(v)),
                Rest(IF c.write THEN Finish(g, q, h, c) ELSE g, q, h))
    BY <1>7, <1>10, <2>1, <2>2, <2>3, <2>4, RunRegs DEF Good
  <2> QED  BY <1>10, <2>5, <2>6 DEF p
<1>20. Path(Regs, Rest(m, q, h), z3, Rest(k, q, h))  BY <1>12, ReadsRegsPath DEF k
<1>21. Path(Regs, Rest(k, q, h), z4, e)  BY <1>15, <1>17, InHandPaths
<1>22. modify_csr(type, "dpc", v) = ((z1 \o z2) \o z3) \o z4
  BY Zenon DEF modify_csr, c, prog, CsrText
<1> HIDE DEF r, z1, z2, z3, z4, e
<1>23. Path(Regs, r, ((z1 \o z2) \o z3) \o z4, e)
  BY <1>18, <1>19, <1>20, <1>21, PathJoinFour
<1>24. Path(Regs, Fresh(h, t, n, b), modify_csr(type, "dpc", v),
            Rest(OutOfHand(k), Unknown, h))
  BY <1>3, <1>22, <1>23, Zenon DEF r, e
<1> QED  BY <1>5, <1>6, <1>13, <1>15, <1>16, <1>17, <1>24

\* write_csr, of reset.
LEMMA WriteCsrRegs ==
  ASSUME xlen = Xlen, current_hart \in Nat
  PROVE  Path(Regs, Fresh(current_hart, Any, current_hart, TRUE),
              modify_csr("WRITE", "dpc", Entry),
              Fresh(current_hart, Is(Entry), current_hart + 1, TRUE))
<1> DEFINE h == current_hart
<1>0. PICK b, y : b = TRUE /\ y = "WRITE"  OBVIOUS
<1>1. Any \in Terms /\ Entry \in Value /\ b \in BOOLEAN /\ y \in {"WRITE", "SET", "CLEAR"}
  BY <1>0, TermTypes, ValueNat
<1>2. \A old \in Value : CsrUpdate(y, old, Entry) \in Value
  BY <1>0, <1>1 DEF CsrUpdate
<1> HIDE DEF h
<1>3. h \in Nat /\ h = current_hart  BY DEF h
<1>4. PICK g \in Facts, k \in Facts :
        /\ Path(Regs, Fresh(h, Any, h, b), modify_csr(y, "dpc", Entry),
                Rest(OutOfHand(k), Unknown, h))
        /\ Clean(k) /\ Whole(g.d0, g.d1) = Is(Entry)
        /\ g.pc = Any /\ g.ready = h /\ g.fenced = b
        /\ k.pc = NewPc(g, y) /\ k.ready = NewReady(g, h, y) /\ k.fenced = b
        /\ k.w0 = Any /\ k.w1 = (IF XWords = 2 THEN Any ELSE Any)
  BY <1>1, <1>2, <1>3, ModifyCsrRegs
<1>5. k.pc = Is(Entry) /\ k.ready = h + 1
  <2>1. Is(Entry)[1] = "is"  BY DEF Is
  <2>2. NewPc(g, y) = Is(Entry)  BY <1>0, <1>4, <2>1 DEF NewPc
  <2> QED  BY <1>0, <1>4, <2>2 DEF NewReady
<1>6. Wiped(k.w0) = Any /\ Wiped(k.w1) = Any  BY <1>4 DEF Wiped
<1>7. Rest(OutOfHand(k), Unknown, h) = Fresh(h, k.pc, k.ready, k.fenced)
  BY <1>4, <1>6, LetGoFresh
<1>8. Rest(OutOfHand(k), Unknown, h) = Fresh(h, Is(Entry), h + 1, b)
  BY <1>4, <1>5, <1>7, Zenon
<1> QED  BY <1>0, <1>4, <1>8, Zenon DEF h

LEMMA FenceRegs ==
  ASSUME xlen = Xlen, current_hart \in Nat
  PROVE  Path(Regs, Fresh(current_hart, Any, current_hart, FALSE), fence_i,
              Fresh(current_hart, Any, current_hart, TRUE))
<1> DEFINE h == current_hart
<1>0. PICK b, b2 : b = FALSE /\ b2 = TRUE  OBVIOUS
<1> DEFINE f == FreshFacts(Any, h, b)
           m == [f EXCEPT !.fenced = TRUE]
           prog == FenceText
           q == Over(Unknown, prog)
           c == SetRegister("x0", TRUE)
           none == <<>>
<1>1. b \in BOOLEAN /\ Any \in Terms /\ h \in Nat  BY <1>0, TermTypes
<1>2. /\ f \in Facts /\ Clean(f) /\ OutOfHand(f) = f
      /\ Wiped(f.w0) = Any /\ Wiped(f.w1) = Any
  BY <1>1, FreshFactsType
<1>3. f.pc = Any /\ f.ready = h  BY DEF FreshFacts
<1>4. Fresh(h, Any, h, b) = Rest(f, Unknown, h)  BY FreshIs
<1>5. Unknown \in Buffers  BY UnknownType DEF Buffers
<1> HIDE DEF f
<1>6. m \in Facts /\ Clean(m) /\ m.w0 = f.w0 /\ m.w1 = f.w1 /\ m.pc = Any /\ m.ready = h
  BY <1>2, <1>3 DEF Facts, Clean
<1>7. m.fenced = TRUE  BY <1>2 DEF Facts
<1>8. Good(prog) /\ FenceProgram(q)  BY FenceTextGood
<1>9. ~MemoryProgram(q) /\ ~CsrProgram(q)  BY <1>8, ProgramsDiffer
<1>10. /\ c \in CommandType /\ c.write = TRUE /\ c.postexec = TRUE /\ c.size = Xlen
       /\ c.regno = "x0"
  BY RegisterCommands
<1>11. Executed(f, q, h) = m  BY <1>9 DEF Executed
<1>12. Path(Regs, Rest(f, q, h), none, Rest(f, q, h))  BY PathNone
<1> HIDE DEF m, prog, q, c, none
<1> DEFINE r == Rest(f, Unknown, h)
           z1 == halt(h)
           z2 == RUN_AC_OR_DIE(c, prog, none)
           z3 == resume(h)
           e == Rest(OutOfHand(m), Unknown, h)
<1>13. Path(Regs, r, z1, r)
  <2>1. Path(Regs, Rest(f, Unknown, h), halt(h), Rest(OutOfHand(f), Unknown, h))
    BY <1>1, <1>2, InHandPaths
  <2> QED  BY <1>2, <2>1
<1>14. Path(Regs, r, z2, Rest(m, q, h))
  <2> DEFINE p == Unknown
  <2>1. q = Over(p, prog)  BY DEF q, prog
  <2> HIDE DEF p
  <2>2. p \in Buffers  BY <1>5 DEF p
  <2>4. MayCommand(Rest(f, q, h), c)
    <3> DEFINE a == Rest(f, q, h)
    <3>1. a.prog = q  BY DEF Rest
    <3> HIDE DEF a
    <3>2. MayCommand(a, c)  BY <1>8, <1>10, <3>1 DEF MayCommand
    <3> QED  BY <3>2 DEF a
  <2>5. Finish(f, q, h, c) = m  BY <1>10, <1>11 DEF Finish
  <2>6. Path(Regs, Rest(f, p, h), RUN_AC_OR_DIE(c, prog, none),
                Rest(IF c.write THEN Finish(f, q, h, c) ELSE f, q, h))
    BY <1>8, <1>10, <1>12, <2>1, <2>2, <2>4, RunRegs DEF Good
  <2> QED  BY <1>10, <2>5, <2>6 DEF p
<1>15. Path(Regs, Rest(m, q, h), z3, e)  BY <1>1, <1>6, InHandPaths
<1>16. fence_i = (z1 \o z2) \o z3
  BY Zenon DEF fence_i, c, prog, FenceText, none
<1>17. e = Fresh(h, Any, h, b2)
  <2>1. e = Fresh(h, m.pc, m.ready, m.fenced)  BY <1>2, <1>6, LetGoFresh
  <2>2. m.fenced = b2  BY <1>0, <1>7, Zenon
  <2> QED  BY <2>1, <2>2, <1>6, Zenon
<1> HIDE DEF r, z1, z2, z3, e
<1>18. Path(Regs, r, (z1 \o z2) \o z3, e)
  <2>1. Path(Regs, r, z1 \o z2, Rest(m, q, h))  BY <1>13, <1>14, PathJoin
  <2> QED  BY <1>15, <2>1, PathJoin
<1> QED  BY <1>0, <1>4, <1>16, <1>17, <1>18, Zenon DEF r

-------------------------------------------------------------------------------
(* The routines that calls and loops lead to.                               *)

LEMMA RestAt ==
  ASSUME NEW r \in Outlines, r.run = "no", r.c = NoCommand, ~r.auto
  PROVE  r = Rest(r.f, r.prog, r.cur) /\ r.f \in Facts /\ r.prog \in Buffers /\ r.cur \in Nat
<1>1. r.auto = FALSE  BY DEF Outlines
<1> QED  BY <1>1, OutlineAt DEF Outlines, Buffers

LEMMA ChangedGoing ==
  ASSUME NEW f, NEW p, NEW h, NEW i, NEW u, NEW q
  PROVE  /\ q = LetGo(Going(f, p, h, u)) => q = Going(OutOfHand(f), Unknown, h, u)
         /\ q = ChangeTo(Going(f, p, h, u), i) => q = Going(Turned(f, h, i), p, i, u)
<1>1. ASSUME q = LetGo(Going(f, p, h, u))
      PROVE  q = Going(OutOfHand(f), Unknown, h, u)
  BY <1>1 DEF LetGo, Going
<1>2. ASSUME q = ChangeTo(Going(f, p, h, u), i)
      PROVE  q = Going(Turned(f, h, i), p, i, u)
  BY <1>2 DEF ChangeTo, Going, Turned
<1> QED  BY <1>1, <1>2

LEMMA LetGoTurned ==
  ASSUME NEW f, NEW p, NEW h, NEW i
  PROVE  ChangeTo(LetGo(Rest(f, p, h)), i) = Rest(Turned(OutOfHand(f), h, i), Unknown, i)
<1>1. PICK u, v : u = FALSE /\ v = TRUE  OBVIOUS
<1> DEFINE g == OutOfHand(f)
<1>2. PICK a, b : a = LetGo(Going(f, p, h, u)) /\ b = ChangeTo(Going(g, Unknown, h, u), i)
  OBVIOUS
<1>3. a = Going(g, Unknown, h, u) /\ b = Going(Turned(g, h, i), Unknown, i, u)
  BY <1>2, ChangedGoing
<1>4. Going(f, p, h, u) = Rest(f, p, h) /\ b = Rest(Turned(g, h, i), Unknown, i)
  BY <1>1, <1>3, GoingIs, Zenon
<1> QED  BY <1>2, <1>3, <1>4, Zenon

LEMMA HaltItem ==
  ASSUME NEW r \in Outlines, NEW i \in Nat, MayRegisters(r, <<"halt", i>>)
  PROVE  Path(Regs, r, halt(i), AfterRegisters(r, <<"halt", i>>))
<1> DEFINE x == <<"halt", i>>
<1>1. x[1] = "halt" /\ x[2] = i  OBVIOUS
<1> HIDE DEF x
<1>2. MayRegisters(r, x)  BY DEF x
<1>3. Clean(r.f) /\ r.run = "no" /\ r.c = NoCommand /\ ~r.auto  BY <1>1, <1>2 DEF MayRegisters
<1> DEFINE f == r.f
           p == r.prog
           h == r.cur
<1>4. r = Rest(f, p, h) /\ f \in Facts /\ h \in Nat  BY <1>3, RestAt
<1>5. AfterRegisters(r, x) = ChangeTo(LetGo(r), i)  BY <1>1 DEF AfterRegisters
<1> HIDE DEF f, p, h
<1>6. ChangeTo(LetGo(Rest(f, p, h)), i) = Rest(Turned(OutOfHand(f), h, i), Unknown, i)
  BY LetGoTurned
<1>7. Path(Regs, Rest(f, p, h), halt(i), Rest(Turned(OutOfHand(f), h, i), Unknown, i))
  BY <1>3, <1>4, HaltRegs DEF f
<1> QED  BY <1>4, <1>5, <1>6, <1>7, Zenon DEF x

LEMMA ResumeItem ==
  ASSUME NEW r \in Outlines, NEW i \in Nat, MayRegisters(r, <<"resume", i>>)
  PROVE  Path(Regs, r, resume(i), AfterRegisters(r, <<"resume", i>>))
<1> DEFINE x == <<"resume", i>>
<1>1. x[1] = "resume" /\ x[2] = i  OBVIOUS
<1> HIDE DEF x
<1>2. MayRegisters(r, x)  BY DEF x
<1>3. Clean(r.f) /\ r.run = "no" /\ r.c = NoCommand /\ ~r.auto  BY <1>1, <1>2 DEF MayRegisters
<1> DEFINE f == r.f
           p == r.prog
           h == r.cur
<1>4. r = Rest(f, p, h) /\ f \in Facts /\ h \in Nat  BY <1>3, RestAt
<1>5. AfterRegisters(r, x) = ChangeTo(LetGo(r), i)  BY <1>1 DEF AfterRegisters
<1> HIDE DEF f, p, h
<1>6. ChangeTo(LetGo(Rest(f, p, h)), i) = Rest(Turned(OutOfHand(f), h, i), Unknown, i)
  BY LetGoTurned
<1>7. Path(Regs, Rest(f, p, h), resume(i), Rest(Turned(OutOfHand(f), h, i), Unknown, i))
  BY <1>3, <1>4, ResumeRegs DEF f
<1> QED  BY <1>4, <1>5, <1>6, <1>7, Zenon DEF x

LEMMA SelectItem ==
  ASSUME NEW r \in Outlines, NEW i \in Nat, MayRegisters(r, <<"select_hart", i>>)
  PROVE  Path(Regs, r, select_hart(i), AfterRegisters(r, <<"select_hart", i>>))
<1> DEFINE x == <<"select_hart", i>>
<1>1. x[1] = "select_hart" /\ x[2] = i  OBVIOUS
<1> HIDE DEF x
<1>2. MayRegisters(r, x)  BY DEF x
<1>3. Clean(r.f) /\ r.run = "no" /\ r.c = NoCommand /\ ~r.auto  BY <1>1, <1>2 DEF MayRegisters
<1> DEFINE f == r.f
           p == r.prog
           h == r.cur
<1>4. r = Rest(f, p, h) /\ f \in Facts /\ h \in Nat  BY <1>3, RestAt
<1>5. AfterRegisters(r, x) = [r EXCEPT !.f = Elsewhere(r.f), !.prog = Unknown, !.cur = i]
  BY <1>1 DEF AfterRegisters
<1>6. AfterRegisters(r, x) = Rest(Elsewhere(f), Unknown, i)
  <2>1. r.run = "no" /\ r.c = NoCommand /\ r.auto = FALSE  BY <1>3 DEF Outlines
  <2> DEFINE q == [r EXCEPT !.f = Elsewhere(r.f), !.prog = Unknown, !.cur = i]
             e == Rest(Elsewhere(f), Unknown, i)
  <2>2. q \in Outlines /\ q.f = Elsewhere(f) /\ q.prog = Unknown /\ q.run = "no"
        /\ q.c = NoCommand /\ q.cur = i
    BY <1>3, <1>4, FactTypes, UnknownType DEF Outlines
  <2>3. ~q.auto  BY <1>3 DEF Outlines
  <2> HIDE DEF q
  <2>4. q = e  BY <2>2, <2>3, RestAt
  <2> QED  BY <2>4, <1>5 DEF q, e
<1> HIDE DEF f, p, h
<1>7. Path(Regs, Rest(f, p, h), select_hart(i), Rest(Elsewhere(f), Unknown, i))
  BY <1>3, <1>4, SelectRegs DEF f
<1> QED  BY <1>4, <1>6, <1>7, Zenon DEF x

LEMMA ElsewhereFresh ==
  ASSUME NEW t \in Terms, NEW n \in Nat, NEW b \in BOOLEAN, NEW u, u = FALSE
  PROVE  Elsewhere(FreshFacts(t, n, b)) = FreshFacts(Any, n, u)
<1> DEFINE f == FreshFacts(t, n, b)
           g == Elsewhere(f)
<1>1. f \in Facts /\ Clean(f) /\ OutOfHand(f) = f  BY FreshFactsType
<1>2. /\ f.v0 = Any /\ f.v1 = Any /\ f.d0 = Any /\ f.d1 = Any /\ f.w0 = Any /\ f.w1 = Any
      /\ f.ds = Any /\ f.ready = n
  BY DEF FreshFacts
<1> HIDE DEF f
<1>3. g \in Facts  BY <1>1, FactTypes
<1>4. /\ g.v0 = Any /\ g.v1 = Any /\ g.d0 = Any /\ g.d1 = Any /\ g.w0 = Any /\ g.w1 = Any
      /\ g.ds = Any /\ g.ready = n /\ g.pc = Any /\ Clean(g)
  BY <1>1, <1>2 DEF Elsewhere, Facts, Clean
<1>5. g.fenced = u
  <2>1. ~g.fenced  BY <1>1 DEF Elsewhere, Facts
  <2>2. g.fenced \in BOOLEAN  BY <1>3 DEF Facts
  <2> QED  BY <2>1, <2>2
<1> HIDE DEF g
<1>6. g = FreshFacts(Any, n, u)  BY <1>3, <1>4, <1>5, FactsAre
<1> QED  BY <1>6 DEF f, g

\* Another hart is selected while nothing is known.
Unfenced(i, n) == Fresh(i, Any, n, FALSE)

LEMMA SelectFresh ==
  ASSUME NEW h \in Nat, NEW t \in Terms, NEW n \in Nat, NEW b \in BOOLEAN, NEW i \in Nat
  PROVE  /\ May(Regs, Fresh(h, t, n, b), <<"select_hart", i>>)
         /\ After(Regs, Fresh(h, t, n, b), <<"select_hart", i>>) = Unfenced(i, n)
         /\ Path(Regs, Fresh(h, t, n, b), select_hart(i), Unfenced(i, n))
<1> DEFINE f == FreshFacts(t, n, b)
           r == Rest(f, Unknown, h)
           x == <<"select_hart", i>>
<1>0. PICK u : u = FALSE  OBVIOUS
<1>1. f \in Facts /\ Clean(f)  BY FreshFactsType
<1>2. Elsewhere(f) = FreshFacts(Any, n, u)  BY <1>0, ElsewhereFresh
<1>3. Fresh(h, t, n, b) = r /\ Fresh(i, Any, n, u) = Rest(FreshFacts(Any, n, u), Unknown, i)
  BY FreshIs
<1> HIDE DEF f
<1>4. Path(Regs, r, select_hart(i), Rest(Elsewhere(f), Unknown, i))  BY <1>1, SelectRegs
<1>5. x[1] = "select_hart" /\ x[2] = i  OBVIOUS
<1>6. r.run = "no" /\ r.c = NoCommand /\ r.auto = FALSE /\ r.f = f  BY DEF Rest
<1>7. AfterRegisters(r, x) = Rest(Elsewhere(f), Unknown, i)
  <2> HIDE DEF x
  <2> QED  BY <1>5 DEF AfterRegisters, Rest
<1> HIDE DEF r, x
<1>8. MayRegisters(r, x)  BY <1>1, <1>5, <1>6 DEF MayRegisters
<1>9. May(Regs, r, x) /\ After(Regs, r, x) = Rest(Elsewhere(f), Unknown, i)
  BY <1>7, <1>8 DEF May, After, Regs
<1>10. Unfenced(i, n) = Fresh(i, Any, n, u)  BY <1>0, Zenon DEF Unfenced
<1> QED  BY <1>2, <1>3, <1>4, <1>9, <1>10, Zenon DEF x

\* get_xlen.
LEMMA SizePath ==
  ASSUME NEW r \in Outlines, r.run = "no", r.c = NoCommand, ~r.auto, NEW size \in Nat
  PROVE  Path(Regs, r, TrySize(size), [r EXCEPT !.f = NoData(r.f)])
<1> DEFINE f == r.f
           p == r.prog
           h == r.cur
           c == [GetRegister("s0", FALSE) EXCEPT !.size = size]
           m == Moved(f, c)
           none == <<>>
           x == <<"xlen", size>>
           e == Rest(NoData(f), p, h)
<1>1. r = Rest(f, p, h) /\ f \in Facts /\ p \in Buffers /\ h \in Nat  BY RestAt
<1>2. [r EXCEPT !.f = NoData(r.f)] = e
  <2> DEFINE q == [r EXCEPT !.f = NoData(r.f)]
  <2>1. q \in Outlines /\ q.f = NoData(f) /\ q.prog = p /\ q.run = "no"
        /\ q.c = NoCommand /\ q.cur = h
    BY <1>1, FactTypes DEF Outlines
  <2>2. ~q.auto  BY DEF Outlines
  <2> HIDE DEF q
  <2>3. q = e  BY <2>1, <2>2, RestAt
  <2> QED  BY <2>3 DEF q
<1>3. /\ c.write = FALSE /\ c.postexec = FALSE /\ c.size = size /\ c.regno = "s0"
      /\ c.transfer = TRUE
  BY DEF GetRegister
<1>4. c \in CommandType  BY DEF GetRegister, CommandType
<1>5. x[1] = "xlen"  OBVIOUS
<1> HIDE DEF f, p, h, c, x
<1>6. m \in Facts  BY <1>1, <1>4, FactTypes
<1>7. Moved(f, c) = [f EXCEPT !.d0 = Any, !.d1 = Any]
      \/ Moved(f, c) = [f EXCEPT !.d0 = f.s0, !.d1 = f.s0]
  BY <1>3 DEF Moved
<1>8. NoData(m) = NoData(f)  BY <1>1, <1>7 DEF NoData, Facts
<1> HIDE DEF m
<1>9. MayCommand(Rest(f, p, h), c)
  <2> DEFINE a == Rest(f, p, h)
  <2> HIDE DEF a
  <2>1. MayCommand(a, c)  BY <1>3, <1>4 DEF MayCommand
  <2> QED  BY <2>1 DEF a
<1>10. Finish(f, p, h, c) = m  BY <1>3 DEF Finish, m
<1>11. Path(Regs, Rest(m, p, h), none, Rest(m, p, h))  BY PathNone
<1>12. p = Over(p, none) /\ Len(none) \in 0..6 /\ \A i \in 1..Len(none) : none[i] \in Instructions
  BY <1>1, OverNone
<1> HIDE DEF none
<1>13. Path(Regs, Rest(f, p, h), run_abstract_command(c, none, none),
            Rest(IF c.write THEN Finish(m, p, h, c) ELSE m, p, h))
  BY <1>1, <1>3, <1>9, <1>10, <1>11, <1>12, RunRegs
<1>14. Path(Regs, Rest(f, p, h), run_abstract_command(c, none, none), Rest(m, p, h))
  BY <1>3, <1>13
<1>15. Path(Regs, Rest(m, p, h), <<x>>, e)
  <2> DEFINE a == Rest(m, p, h)
             d == [a EXCEPT !.f = NoData(a.f)]
  <2>1. a \in Outlines /\ a.f = m /\ a.prog = p /\ a.run = "no" /\ a.c = NoCommand /\ a.cur = h
    BY <1>1, <1>6, AtType DEF Rest
  <2>2. ~a.auto  BY DEF Rest
  <2> HIDE DEF a
  <2>3. d \in Outlines /\ d.f = NoData(m) /\ d.prog = p /\ d.run = "no" /\ d.c = NoCommand
        /\ d.cur = h
    BY <1>6, <2>1, FactTypes DEF Outlines
  <2>4. ~d.auto  BY <2>1, <2>2 DEF Outlines
  <2> HIDE DEF d
  <2>5. d = e  BY <1>8, <2>3, <2>4, RestAt
  <2>6. MayRegisters(a, x)  BY <1>5, <2>1, <2>2 DEF MayRegisters
  <2>7. AfterRegisters(a, x) = d  BY <1>5 DEF AfterRegisters, d
  <2>8. May(Regs, a, x) /\ After(Regs, a, x) = e  BY <2>5, <2>6, <2>7 DEF May, After, Regs
  <2>9. Path(Regs, a, <<x>>, After(Regs, a, x))  BY <2>8, PathOne
  <2> QED  BY <2>8, <2>9 DEF a
<1> HIDE DEF e
<1>16. Path(Regs, Rest(f, p, h), run_abstract_command(c, none, none) \o <<x>>, e)
  BY <1>14, <1>15, PathJoin
<1>17. TrySize(size) = run_abstract_command(c, none, none) \o <<x>>
  BY Zenon DEF TrySize, c, none, x
<1> QED  BY <1>1, <1>2, <1>16, <1>17, Zenon

LEMMA XlenItem ==
  ASSUME NEW r \in Outlines, NEW size \in Nat, NEW y,
         y[1] \in {"get_xlen", "xlen"}, MayRegisters(r, y)
  PROVE  Path(Regs, r, TrySize(size), AfterRegisters(r, y))
<1>1. r.run = "no" /\ r.c = NoCommand /\ ~r.auto  BY DEF MayRegisters
<1>2. AfterRegisters(r, y) = [r EXCEPT !.f = NoData(r.f)]  BY DEF AfterRegisters
<1> QED  BY <1>1, <1>2, SizePath

LEMMA FenceItem ==
  ASSUME xlen = Xlen, current_hart \in Nat,
         NEW r, r.cur = current_hart, MayRegisters(r, <<"fence_i">>)
  PROVE  Path(Regs, r, fence_i, AfterRegisters(r, <<"fence_i">>))
<1> DEFINE x == <<"fence_i">>
<1>1. x[1] = "fence_i"  BY FirstOfOne
<1> HIDE DEF x
<1>2. MayRegisters(r, x)  BY DEF x
<1>3. r = Fresh(current_hart, Any, current_hart, FALSE)
  <2>1. r = Fresh(r.cur, Any, r.cur, FALSE)  BY <1>1, <1>2, Zenon DEF MayRegisters
  <2> QED  BY <2>1, Zenon
<1>4. AfterRegisters(r, x) = Fresh(current_hart, Any, current_hart, TRUE)
  <2>1. AfterRegisters(r, x) = Fresh(r.cur, Any, r.cur, TRUE)
    BY <1>1 DEF AfterRegisters
  <2> QED  BY <2>1, Zenon
<1> QED  BY <1>3, <1>4, FenceRegs, Zenon DEF x

LEMMA WriteCsrItem ==
  ASSUME xlen = Xlen, current_hart \in Nat,
         NEW r, r.cur = current_hart, MayRegisters(r, <<"write_csr">>)
  PROVE  Path(Regs, r, modify_csr("WRITE", "dpc", Entry), AfterRegisters(r, <<"write_csr">>))
<1> DEFINE x == <<"write_csr">>
<1>1. x[1] = "write_csr"  BY FirstOfOne
<1> HIDE DEF x
<1>2. MayRegisters(r, x)  BY DEF x
<1>3. r = Fresh(current_hart, Any, current_hart, TRUE)
  <2>1. r = Fresh(r.cur, Any, r.cur, TRUE)  BY <1>1, <1>2, Zenon DEF MayRegisters
  <2> QED  BY <2>1, Zenon
<1>4. AfterRegisters(r, x) = Fresh(current_hart, Is(Entry), current_hart + 1, TRUE)
  <2>1. AfterRegisters(r, x) = Fresh(r.cur, Is(Entry), r.cur + 1, TRUE)
    BY <1>1 DEF AfterRegisters
  <2> QED  BY <2>1, Zenon
<1> QED  BY <1>3, <1>4, WriteCsrRegs, Zenon DEF x

LEMMA ForgottenFields ==
  ASSUME NEW f \in Facts, f = Forgotten(f)
  PROVE  /\ f.s0 = Any /\ f.s1 = Any /\ f.d0 = Any /\ f.d1 = Any /\ f.ds = Any
         /\ Looped(f) \in Facts /\ Forgotten(Looped(f)) = Looped(f)
         /\ Looped(Looped(f)) = Looped(f)
         /\ \A i \in {0, 1} : \A t : Forgotten(Put(f, i, t)) = f
         /\ \A t, u : Forgotten(Put(Put(f, 1, t), 0, u)) = f
<1> DEFINE k == Forgotten(f)
           g == Looped(f)
<1>1. k \in Facts  BY FactTypes
<1>2. /\ k.s0 = Any /\ k.s1 = Any /\ k.d0 = Any /\ k.d1 = Any /\ k.ds = Any /\ k.pc = Any
      /\ k.ready = 0 /\ k.fenced = FALSE
  BY DEF Forgotten, Facts
<1>3. g \in Facts  BY FactTypes
<1>4. /\ g.s0 = f.s0 /\ g.s1 = f.s1 /\ g.d0 = f.d0 /\ g.d1 = f.d1 /\ g.ds = f.ds
      /\ g.pc = f.pc /\ g.ready = f.ready /\ g.fenced = f.fenced
  BY DEF Looped, Facts
<1> HIDE DEF k
<1>5. k = f  BY DEF k
<1>6. Looped(g) = g  BY DEF Looped, Facts
<1>7. Forgotten(g) = g
  <2> HIDE DEF g
  <2> QED  BY <1>2, <1>3, <1>4, <1>5 DEF Forgotten, Facts
<1>8. ASSUME NEW i \in {0, 1}, NEW t PROVE Forgotten(Put(f, i, t)) = f
  <2>1. Forgotten(Put(f, i, t)) = Forgotten(f)  BY DEF Forgotten, Put, Facts
  <2> QED  BY <2>1
<1>9. ASSUME NEW t, NEW u PROVE Forgotten(Put(Put(f, 1, t), 0, u)) = f
  <2>1. Forgotten(Put(Put(f, 1, t), 0, u)) = Forgotten(f)  BY DEF Forgotten, Put, Facts
  <2> QED  BY <2>1
<1> QED  BY <1>2, <1>3, <1>5, <1>6, <1>7, <1>8, <1>9

\* The loop of read_chunk.
LEMMA ReadWordsItem ==
  ASSUME xlen = Xlen, NEW r \in Outlines, NEW i \in Nat, NEW n \in Nat,
         MayRegisters(r, <<"read_words", i, n>>)
  PROVE  Path(Regs, r, read_words(i, n), AfterRegisters(r, <<"read_words", i, n>>))
<1> DEFINE x == <<"read_words", i, n>>
           f == r.f
           p == r.prog
           h == r.cur
           g == Looped(f)
           e == Rest(g, p, h)
<1>1. x[1] = "read_words" /\ x[2] = i /\ x[3] = n  OBVIOUS
<1> HIDE DEF x
<1>2. MayRegisters(r, x)  BY DEF x
<1>3. /\ r.run = "no" /\ r.c = NoCommand /\ ~r.auto /\ f = Forgotten(f) /\ MemoryProgram(p)
  BY <1>1, <1>2 DEF MayRegisters
<1>4. r = Rest(f, p, h) /\ f \in Facts /\ p \in Buffers /\ h \in Nat  BY <1>3, RestAt
<1>5. AfterRegisters(r, x) = IF i > n THEN r ELSE [r EXCEPT !.f = Looped(r.f)]
  BY <1>1 DEF AfterRegisters
<1>6. CASE i > n
  <2>1. read_words(i, n) = <<>>  BY <1>6 DEF read_words
  <2>2. AfterRegisters(r, x) = r  BY <1>5, <1>6
  <2> DEFINE s == <<>>
  <2> HIDE DEF s
  <2>3. s = <<>>  BY DEF s
  <2>4. Path(Regs, r, s, r)  BY <2>3, PathNone
  <2> QED  BY <2>1, <2>2, <2>3, <2>4, Zenon DEF x
<1>7. CASE ~(i > n)
  <2>1. AfterRegisters(r, x) = [r EXCEPT !.f = g]  BY <1>5, <1>7
  <2>2. g \in Facts /\ Forgotten(g) = g /\ Looped(g) = g /\ f.s1 = Any /\ f.d0 = Any /\ f.d1 = Any
    BY <1>3, <1>4, ForgottenFields
  <2>3. [r EXCEPT !.f = g] = e
    <3> DEFINE q == [r EXCEPT !.f = g]
    <3>1. q \in Outlines /\ q.f = g /\ q.prog = p /\ q.run = "no"
          /\ q.c = NoCommand /\ q.cur = h
      BY <1>3, <1>4, <2>2 DEF Outlines
    <3>2. ~q.auto  BY <1>3 DEF Outlines
    <3> HIDE DEF q, g
    <3>3. q = e  BY <3>1, <3>2, RestAt
    <3> QED  BY <3>3 DEF q
  <2> DEFINE b == i < n
             c == GetRegister("s1", b)
             none == <<>>
             w == <<"copy">>
             y == <<"read_words", i + 1, n>>
  <2>4. b \in BOOLEAN  OBVIOUS
  <2> HIDE DEF b
  <2>5. /\ c \in CommandType /\ c.write = FALSE /\ c.postexec = b /\ c.size = Xlen
        /\ c.regno = "s1"
    BY <2>4, RegisterCommands
  <2>6. WithWords(f) = g  BY <1>4, <2>2 DEF WithWords, Looped
  <2> HIDE DEF c, none, w, y, f, p, h, g
  <2>7. MayCommand(Rest(f, p, h), c)
    <3>1. c.postexec => MemoryProgram(p)  BY <1>3
    <3>2. ~c.write => c.regno \in {"s0", "s1"}  BY <2>5
    <3> QED  BY <2>5, <3>1, <3>2, MayRun
  <2>8. Finish(f, p, h, c) = f
    <3>1. Executed(f, p, h) = f  BY <1>3 DEF Executed
    <3>2. Moved(f, c) = f
      <4>1. Moved(f, c) = [f EXCEPT !.d0 = Any, !.d1 = Any]  BY <2>2, <2>5 DEF Moved
      <4> QED  BY <1>4, <2>2, <4>1 DEF Facts
    <3> QED  BY <3>1, <3>2 DEF Finish
  <2>9. Path(Regs, Rest(f, p, h), Reads, Rest(g, p, h))
    BY <1>4, <2>6, ReadsRegsPath
  <2>10. p = Over(p, none) /\ Len(none) \in 0..6
         /\ \A k \in 1..Len(none) : none[k] \in Instructions
    BY <1>4, OverNone DEF none
  <2>11. Path(Regs, Rest(f, p, h), RUN_AC_OR_DIE(c, none, Reads),
              Rest(IF c.write THEN Finish(g, p, h, c) ELSE g, p, h))
    BY <1>4, <2>5, <2>7, <2>8, <2>9, <2>10, RunRegs
  <2>12. Path(Regs, Rest(f, p, h), RUN_AC_OR_DIE(c, none, Reads), e)
    BY <2>5, <2>11
  <2>13. May(Regs, e, w) /\ e = After(Regs, e, w)
    <3>1. w[1] = "copy"  BY FirstOfOne DEF w
    <3> QED  BY <3>1, QuietAt
  <2>14. May(Regs, e, y) /\ e = After(Regs, e, y)
    <3>1. y[1] = "read_words" /\ y[2] = i + 1 /\ y[3] = n  BY DEF y
    <3>2. e \in Outlines  BY <1>4, <2>2, AtType
    <3>3. e.f = g /\ e.prog = p /\ e.run = "no" /\ e.c = NoCommand /\ e.cur = h  BY DEF Rest
    <3>4. ~e.auto  BY DEF Rest
    <3> HIDE DEF e
    <3>5. MayRegisters(e, y)  BY <1>3, <2>2, <3>1, <3>3, <3>4 DEF MayRegisters
    <3>6. AfterRegisters(e, y) = IF i + 1 > n THEN e ELSE [e EXCEPT !.f = Looped(e.f)]
      BY <3>1 DEF AfterRegisters
    <3>7. [e EXCEPT !.f = Looped(e.f)] = e  BY <2>2, <3>2, <3>3 DEF Outlines
    <3> QED  BY <3>5, <3>6, <3>7 DEF May, After, Regs
  <2> HIDE DEF e
  <2>15. Path(Regs, e, <<w, y>>, e)  BY <2>13, <2>14, PathTwo
  <2>16. Path(Regs, Rest(f, p, h), RUN_AC_OR_DIE(c, none, Reads) \o <<w, y>>, e)
    BY <2>12, <2>15, PathJoin
  <2>17. read_words(i, n) = RUN_AC_OR_DIE(c, none, Reads) \o <<w, y>>
    <3>1. read_words(i, n) = RUN_AC_OR_DIE(GetRegister("s1", i < n), <<>>, Reads)
       \o << <<"copy">>, <<"read_words", i + 1, n>> >>
      BY <1>7, Zenon DEF read_words
    <3> QED  BY <3>1, Zenon DEF c, b, none, w, y
  <2> QED  BY <1>4, <2>1, <2>3, <2>16, <2>17, Zenon DEF x
<1> QED  BY <1>6, <1>7

LEMMA SameOutlineFields ==
  ASSUME NEW r \in Outlines, NEW q \in Outlines, q.f = r.f, q.prog = r.prog, q.run = r.run,
         q.c = r.c, q.auto = r.auto, q.cur = r.cur
  PROVE  q = r
BY DEF Outlines

\* A word is written while autoexec is on: the store is repeated.
LEMMA DataRepeats ==
  ASSUME NEW r \in Outlines, r.run = "no", r.c = NoCommand, r.auto, MemoryProgram(r.prog),
         NEW g \in Facts, NEW q \in Outlines, q = [r EXCEPT !.f = g],
         \A t : Forgotten(Put(g, 0, t)) = r.f, NEW v \in Nat
  PROVE  Path(Regs, q, << <<"data", 0, v>>, <<"abstractcs">> >>, r)
<1> DEFINE x == <<"data", 0, v>>
           y == <<"abstractcs">>
           a == AfterRegisters(q, x)
           b == AfterRegisters(a, y)
<1>1. x[1] = "data" /\ x[2] = 0 /\ x[3] = v /\ y[1] = "abstractcs"  BY FirstOfOne
<1>2. 0 \in 0..XWords - 1  BY DebugModuleConstants
<1>3. /\ q.f = g /\ q.prog = r.prog /\ q.run = "no" /\ q.c = NoCommand /\ q.auto = r.auto
      /\ q.cur = r.cur
  BY DEF Outlines
<1> HIDE DEF x, y
<1>4. MayRegisters(q, x)  BY <1>1, <1>2, <1>3 DEF MayRegisters
<1>5. a \in Outlines  BY <1>1, <1>4, AfterTypes
<1>6. a = [q EXCEPT !.f = Put(q.f, 0, Is(v)), !.run = "some"]
  BY <1>1, <1>3 DEF AfterRegisters
<1>7. /\ a.f = Put(g, 0, Is(v)) /\ a.prog = r.prog /\ a.run = "some" /\ a.c = NoCommand
      /\ a.auto = r.auto /\ a.cur = r.cur
  <2> DEFINE t == Put(q.f, 0, Is(v))
  <2>1. t = Put(g, 0, Is(v))  BY <1>3
  <2>2. a = [q EXCEPT !.f = t, !.run = "some"]  BY <1>6
  <2> HIDE DEF t, a
  <2>3. /\ a.f = t /\ a.prog = q.prog /\ a.run = "some" /\ a.c = q.c /\ a.auto = q.auto
        /\ a.cur = q.cur
    BY <2>2 DEF Outlines
  <2> QED  BY <1>3, <2>1, <2>3
<1> HIDE DEF a
<1>8. MayRegisters(a, y)  BY <1>1, <1>7 DEF MayRegisters
<1>9. b \in Outlines  BY <1>1, <1>5, <1>7, <1>8, AfterTypes
<1>10. b = [a EXCEPT !.f = Done(a), !.run = "no", !.c = NoCommand]
  BY <1>1 DEF AfterRegisters
<1>11. Done(a) = r.f  BY <1>7 DEF Done
<1>12. /\ b.f = r.f /\ b.prog = r.prog /\ b.run = "no" /\ b.c = NoCommand
       /\ b.auto = r.auto /\ b.cur = r.cur
  BY <1>5, <1>7, <1>10, <1>11 DEF Outlines
<1> HIDE DEF b
<1>13. b = r  BY <1>9, <1>12, SameOutlineFields
<1>14. May(Regs, q, x) /\ a = After(Regs, q, x) /\ May(Regs, a, y) /\ r = After(Regs, a, y)
  BY <1>4, <1>8, <1>13 DEF May, After, Regs, a, b
<1>15. Path(Regs, q, <<x, y>>, r)  BY <1>14, PathTwo
<1> QED  BY <1>15 DEF x, y

\* The loop of write_chunk.
LEMMA MoreWordsItem ==
  ASSUME xlen = Xlen, NEW r \in Outlines, NEW ws \in Seq(Nat),
         MayRegisters(r, <<"more_words", ws>>)
  PROVE  Path(Regs, r, more_words(ws), AfterRegisters(r, <<"more_words", ws>>))
<1> DEFINE x == <<"more_words", ws>>
           f == r.f
<1>1. x[1] = "more_words" /\ x[2] = ws  OBVIOUS
<1> HIDE DEF x
<1>2. MayRegisters(r, x)  BY DEF x
<1>3. /\ r.run = "no" /\ r.c = NoCommand /\ r.auto /\ f = Forgotten(f) /\ MemoryProgram(r.prog)
  BY <1>1, <1>2 DEF MayRegisters
<1>4. AfterRegisters(r, x) = r  BY <1>1 DEF AfterRegisters
<1>5. f \in Facts  BY DEF Outlines
<1>6. CASE ws = <<>>
  <2> DEFINE s == more_words(ws)
  <2>1. s = <<>>  BY <1>6 DEF more_words
  <2> HIDE DEF s
  <2>2. Path(Regs, r, s, r)  BY <2>1, PathNone
  <2> QED  BY <1>4, <2>2 DEF s, x
<1>7. CASE ws # <<>>
  <2> DEFINE v == ws[1]
             rest == Tail(ws)
             d == << <<"data", 0, v>>, <<"abstractcs">> >>
             y == <<"check">>
             z == <<"more_words", rest>>
             first == IF xlen = 64 THEN << <<"data", 1, v>> >> ELSE <<>>
             g == IF xlen = 64 THEN Put(f, 1, Is(v)) ELSE f
             q == [r EXCEPT !.f = g]
  <2>1. v \in Nat /\ rest \in Seq(Nat)  BY <1>7
  <2> HIDE DEF v, rest, f
  <2>2. Is(v) \in Terms  BY <2>1, TermTypes
  <2>3. g \in Facts  BY <1>5, <2>2, FactTypes
  <2>4. \A t : Forgotten(Put(g, 0, t)) = f
    <3>1. \A i \in {0, 1} : \A t : Forgotten(Put(f, i, t)) = f  BY <1>3, <1>5, ForgottenFields
    <3>2. \A t, u : Forgotten(Put(Put(f, 1, t), 0, u)) = f  BY <1>3, <1>5, ForgottenFields
    <3> QED  BY <3>1, <3>2
  <2>5. Path(Regs, r, first, q)
    <3>1. CASE xlen = 64
      <4> DEFINE k == <<"data", 1, v>>
      <4>1. k[1] = "data" /\ k[2] = 1 /\ k[3] = v  OBVIOUS
      <4>2. 1 \in 0..XWords - 1  BY <3>1, DebugModuleConstants DEF Xlen
      <4> HIDE DEF k
      <4>3. MayRegisters(r, k)  BY <1>3, <2>1, <4>1, <4>2 DEF MayRegisters
      <4>4. AfterRegisters(r, k) = [r EXCEPT !.f = Put(r.f, 1, Is(v)), !.run = r.run]
        BY <4>1 DEF AfterRegisters
      <4>5. [r EXCEPT !.f = Put(r.f, 1, Is(v)), !.run = r.run] = q
        <5> DEFINE a == [r EXCEPT !.f = Put(r.f, 1, Is(v)), !.run = r.run]
        <5>1. g = Put(r.f, 1, Is(v))  BY <3>1 DEF f
        <5>2. a \in Outlines /\ q \in Outlines  BY <2>3, <5>1 DEF Outlines
        <5>3. /\ a.f = g /\ a.prog = r.prog /\ a.run = r.run /\ a.c = r.c /\ a.auto = r.auto
              /\ a.cur = r.cur
          BY <5>1 DEF Outlines
        <5>4. /\ q.f = g /\ q.prog = r.prog /\ q.run = r.run /\ q.c = r.c /\ q.auto = r.auto
              /\ q.cur = r.cur
          BY DEF Outlines
        <5> HIDE DEF a, q
        <5>5. a = q  BY <5>2, <5>3, <5>4, SameOutlineFields
        <5> QED  BY <5>5 DEF a
      <4>6. May(Regs, r, k) /\ After(Regs, r, k) = q  BY <4>3, <4>4, <4>5 DEF May, After, Regs
      <4>7. Path(Regs, r, <<k>>, After(Regs, r, k))  BY <4>6, PathOne
      <4> QED  BY <3>1, <4>6, <4>7 DEF k
    <3>2. CASE xlen # 64
      <4>1. q = r  BY <3>2 DEF Outlines, f
      <4>2. first = <<>>  BY <3>2
      <4> HIDE DEF first, q
      <4> QED  BY <4>1, <4>2, PathNone
    <3> QED  BY <3>1, <3>2
  <2>6. q \in Outlines  BY <2>3 DEF Outlines
  <2> HIDE DEF g
  <2>7. Path(Regs, q, d, r)
    <3>1. \A t : Forgotten(Put(g, 0, t)) = r.f  BY <2>4 DEF f
    <3> QED  BY <1>3, <2>1, <2>3, <2>6, <3>1, DataRepeats
  <2>8. May(Regs, r, y) /\ r = After(Regs, r, y)
    <3>1. y[1] = "check"  BY FirstOfOne
    <3> HIDE DEF y
    <3> QED  BY <1>3, <3>1, QuietGoes
  <2>9. May(Regs, r, z) /\ r = After(Regs, r, z)
    <3>1. z[1] = "more_words" /\ z[2] = rest  OBVIOUS
    <3> HIDE DEF z
    <3>2. MayRegisters(r, z)  BY <1>3, <2>1, <3>1 DEF MayRegisters, f
    <3>3. AfterRegisters(r, z) = r  BY <3>1 DEF AfterRegisters
    <3> QED  BY <3>2, <3>3 DEF May, After, Regs
  <2>10. Path(Regs, r, <<y, z>>, r)
    <3> HIDE DEF y, z
    <3> QED  BY <2>8, <2>9, PathTwo
  <2>11. more_words(ws) = first \o (d \o <<y, z>>)
    <3> DEFINE D == <<"data", 0, v>>
               A == <<"abstractcs">>
               E == <<D, A, y, z>>
    <3>1. more_words(ws) = first \o E
      BY <1>7, Zenon DEF more_words, v, rest
    <3>2. E = <<D, A>> \o <<y, z>>
      <4> HIDE DEF D, A, y, z
      <4> QED  OBVIOUS
    <3> QED  BY <3>1, <3>2, Zenon
  <2> HIDE DEF first, d, y, z, q
  <2>12. Path(Regs, q, d \o <<y, z>>, r)  BY <2>7, <2>10, PathJoin
  <2>13. Path(Regs, r, first \o (d \o <<y, z>>), r)  BY <2>5, <2>12, PathJoin
  <2> QED  BY <1>4, <2>11, <2>13 DEF x
<1> QED  BY <1>6, <1>7

LEMMA FreshFields ==
  ASSUME NEW h, NEW t, NEW n, NEW b
  PROVE  /\ Fresh(h, t, n, b).run = "no" /\ Fresh(h, t, n, b).c = NoCommand
         /\ ~Fresh(h, t, n, b).auto /\ Fresh(h, t, n, b).cur = h
         /\ Fresh(h, t, n, b).prog = Unknown /\ Fresh(h, t, n, b).f = FreshFacts(t, n, b)
         /\ Fresh(h, t, n, b).f.pc = t /\ Fresh(h, t, n, b).f.ready = n
         /\ Fresh(h, t, n, b).f.fenced = b
<1> DEFINE f == FreshFacts(t, n, b)
           r == Rest(f, Unknown, h)
<1>1. f.pc = t /\ f.ready = n /\ f.fenced = b  BY DEF FreshFacts
<1>2. Fresh(h, t, n, b) = r  BY FreshIs
<1> HIDE DEF f
<1>3. /\ r.run = "no" /\ r.c = NoCommand /\ r.auto = FALSE /\ r.cur = h /\ r.prog = Unknown
      /\ r.f = f
  BY DEF Rest
<1> HIDE DEF r
<1> QED  BY <1>1, <1>2, <1>3 DEF f

LEMMA FenceMay ==
  ASSUME NEW h, NEW r, r = Fresh(h, Any, h, FALSE), NEW x, x[1] = "fence_i"
  PROVE  May(Regs, r, x) /\ After(Regs, r, x) = Fresh(h, Any, h, TRUE)
<1>1. r.cur = h /\ r.run = "no" /\ r.c = NoCommand
  <2>1. PICK b : b = FALSE  OBVIOUS
  <2>2. r = Fresh(h, Any, h, b)  BY <2>1, Zenon
  <2>3. /\ Fresh(h, Any, h, b).cur = h /\ Fresh(h, Any, h, b).run = "no"
        /\ Fresh(h, Any, h, b).c = NoCommand
    BY FreshFields
  <2> QED  BY <2>2, <2>3, Zenon
<1>2. r = Fresh(r.cur, Any, r.cur, FALSE)  BY <1>1, Zenon
<1>3. MayRegisters(r, x)  BY <1>1, <1>2 DEF MayRegisters
<1>4. AfterRegisters(r, x) = Fresh(r.cur, Any, r.cur, TRUE)  BY DEF AfterRegisters
<1> QED  BY <1>1, <1>3, <1>4 DEF May, After, Regs

LEMMA WriteCsrMay ==
  ASSUME NEW h, NEW r, r = Fresh(h, Any, h, TRUE), NEW x, x[1] = "write_csr"
  PROVE  May(Regs, r, x) /\ After(Regs, r, x) = Fresh(h, Is(Entry), h + 1, TRUE)
<1>1. r.cur = h /\ r.run = "no" /\ r.c = NoCommand
  <2>1. PICK b : b = TRUE  OBVIOUS
  <2>2. r = Fresh(h, Any, h, b)  BY <2>1, Zenon
  <2>3. /\ Fresh(h, Any, h, b).cur = h /\ Fresh(h, Any, h, b).run = "no"
        /\ Fresh(h, Any, h, b).c = NoCommand
    BY FreshFields
  <2> QED  BY <2>2, <2>3, Zenon
<1>2. r = Fresh(r.cur, Any, r.cur, TRUE)  BY <1>1, Zenon
<1>3. MayRegisters(r, x)  BY <1>1, <1>2 DEF MayRegisters
<1>4. AfterRegisters(r, x) = Fresh(r.cur, Is(Entry), r.cur + 1, TRUE)  BY DEF AfterRegisters
<1> QED  BY <1>1, <1>3, <1>4 DEF May, After, Regs

LEMMA ResetMay ==
  ASSUME NEW h, NEW t, NEW n \in 0..NHarts, NEW b, NEW x, x[1] = "reset", x[2] = n
  PROVE  /\ May(Regs, Fresh(h, t, n, b), x)
         /\ After(Regs, Fresh(h, t, n, b), x) = Fresh(0, Any, NHarts, FALSE)
<1> DEFINE r == Fresh(h, t, n, b)
<1>1. /\ r.cur = h /\ r.run = "no" /\ r.c = NoCommand /\ r.f.pc = t /\ r.f.fenced = b
  BY FreshFields
<1>2. r = Fresh(h, t, n, b)  OBVIOUS
<1> HIDE DEF r
<1>3. r = Fresh(r.cur, r.f.pc, x[2], r.f.fenced)  BY <1>1, <1>2
<1>4. MayRegisters(r, x)  BY <1>1, <1>3 DEF MayRegisters
<1>5. AfterRegisters(r, x) = Fresh(0, Any, NHarts, FALSE)  BY DEF AfterRegisters
<1>6. May(Regs, r, x) /\ After(Regs, r, x) = Fresh(0, Any, NHarts, FALSE)
  BY <1>4, <1>5 DEF May, After, Regs
<1> QED  BY <1>6 DEF r

\* The loop of reset.
LEMMA ResetItem ==
  ASSUME num_harts = NHarts, NEW r \in Outlines, NEW n \in Nat,
         MayRegisters(r, <<"reset", n>>)
  PROVE  Path(Regs, r, reset(n), AfterRegisters(r, <<"reset", n>>))
<1> DEFINE x == <<"reset", n>>
<1>1. x[1] = "reset" /\ x[2] = n  OBVIOUS
<1> HIDE DEF x
<1>2. MayRegisters(r, x)  BY DEF x
<1>3. n \in 0..NHarts /\ r = Fresh(r.cur, r.f.pc, n, r.f.fenced)
  BY <1>1, <1>2 DEF MayRegisters
<1>4. r.cur \in Nat /\ r.f.pc \in Terms /\ r.f.fenced \in BOOLEAN  BY DEF Outlines, Facts
<1>5. NHarts \in Nat  BY DebugModuleConstants
<1> DEFINE e == Fresh(0, Any, NHarts, FALSE)
<1>6. AfterRegisters(r, x) = e  BY <1>1 DEF AfterRegisters
<1>7. PICK h, t, b : h = r.cur /\ t = r.f.pc /\ b = r.f.fenced  OBVIOUS
<1>8. r = Fresh(h, t, n, b) /\ h \in Nat /\ t \in Terms /\ b \in BOOLEAN  BY <1>3, <1>4, <1>7
<1>10. ASSUME NEW i \in Nat
       PROVE  /\ May(Regs, r, <<"select_hart", i>>)
              /\ After(Regs, r, <<"select_hart", i>>) = Unfenced(i, n)
  <2>1. /\ May(Regs, Fresh(h, t, n, b), <<"select_hart", i>>)
        /\ After(Regs, Fresh(h, t, n, b), <<"select_hart", i>>) = Unfenced(i, n)
    BY <1>8, SelectFresh
  <2> QED  BY <1>8, <2>1, Zenon
<1>11. CASE n < NHarts
  <2> DEFINE x1 == <<"select_hart", n>>
             x2 == <<"fence_i">>
             x3 == <<"write_csr">>
             x4 == <<"reset", n + 1>>
             r1 == Fresh(n, Any, n, FALSE)
             r2 == Fresh(n, Any, n, TRUE)
             r3 == Fresh(n, Is(Entry), n + 1, TRUE)
  <2>1. reset(n) = <<x1, x2, x3, x4>>
    <3>1. n < HartsToReset  BY <1>11 DEF HartsToReset
    <3> QED  BY <3>1, Zenon DEF reset
  <2>2. May(Regs, r, x1) /\ r1 = After(Regs, r, x1)  BY <1>10, Zenon DEF Unfenced
  <2>3. x2[1] = "fence_i" /\ x3[1] = "write_csr" /\ x4[1] = "reset" /\ x4[2] = n + 1
    BY FirstOfOne
  <2> HIDE DEF x1, x2, x3, x4, e
  <2>4. May(Regs, r1, x2) /\ r2 = After(Regs, r1, x2)  BY <2>3, FenceMay
  <2>5. May(Regs, r2, x3) /\ r3 = After(Regs, r2, x3)  BY <2>3, WriteCsrMay
  <2>6. May(Regs, r3, x4) /\ e = After(Regs, r3, x4)
    <3>1. n + 1 \in 0..NHarts  BY <1>5, <1>11
    <3>2. PICK t2, b2 : t2 = Is(Entry) /\ b2 = TRUE  OBVIOUS
    <3>3. /\ May(Regs, Fresh(n, t2, n + 1, b2), x4)
          /\ After(Regs, Fresh(n, t2, n + 1, b2), x4) = Fresh(0, Any, NHarts, FALSE)
      BY <3>1, <2>3, ResetMay
    <3> QED  BY <3>2, <3>3, Zenon DEF e
  <2> HIDE DEF r1, r2, r3
  <2>7. Path(Regs, r, <<x1, x2, x3, x4>>, e)  BY <2>2, <2>4, <2>5, <2>6, PathFour
  <2> QED  BY <1>6, <2>1, <2>7 DEF x
<1>12. CASE ~(n < NHarts)
  <2> DEFINE x1 == <<"select_hart", 0>>
             x2 == <<"dmstatus">>
  <2>1. reset(n) = <<x1, x2>>
    <3>1. ~(n < HartsToReset)  BY <1>12 DEF HartsToReset
    <3> QED  BY <3>1, Zenon DEF reset
  <2>2. n = NHarts  BY <1>3, <1>5, <1>12
  <2>3. May(Regs, r, x1) /\ e = After(Regs, r, x1)
    <3>1. 0 \in Nat  OBVIOUS
    <3>2. May(Regs, r, x1) /\ After(Regs, r, x1) = Unfenced(0, n)  BY <1>10, <3>1, Zenon
    <3> QED  BY <2>2, <3>2, Zenon DEF Unfenced
  <2>4. May(Regs, e, x2) /\ e = After(Regs, e, x2)
    <3>1. x2[1] = "dmstatus"  BY FirstOfOne
    <3>2. e.run = "no" /\ e.c = NoCommand
      <4>0. PICK u : u = FALSE  OBVIOUS
      <4>1. Fresh(0, Any, NHarts, u).run = "no" /\ Fresh(0, Any, NHarts, u).c = NoCommand
        BY FreshFields
      <4> QED  BY <4>0, <4>1, Zenon
    <3> HIDE DEF x2, e
    <3> QED  BY <3>1, <3>2, QuietGoes
  <2> HIDE DEF x1, x2, e
  <2>5. Path(Regs, r, <<x1, x2>>, e)  BY <2>3, <2>4, PathTwo
  <2> QED  BY <1>6, <2>1, <2>5 DEF x
<1> QED  BY <1>11, <1>12

\* The accesses of enumerate_harts.
LEMMA LookMay ==
  ASSUME NEW h, NEW x, x[1] \in {"maxHart", "exists", "enumerate_harts"}
  PROVE  May(Regs, Unfenced(h, 0), x) /\ After(Regs, Unfenced(h, 0), x) = Unfenced(LastSel, 0)
<1> DEFINE r == Unfenced(h, 0)
<1>1. r = Fresh(h, Any, 0, FALSE)  BY Zenon DEF Unfenced
<1>2. r.cur = h /\ r.run = "no" /\ r.c = NoCommand
  <2>1. PICK b : b = FALSE  OBVIOUS
  <2>2. r = Fresh(h, Any, 0, b)  BY <1>1, <2>1, Zenon
  <2>3. /\ Fresh(h, Any, 0, b).cur = h /\ Fresh(h, Any, 0, b).run = "no"
        /\ Fresh(h, Any, 0, b).c = NoCommand
    BY FreshFields
  <2> QED  BY <2>2, <2>3, Zenon
<1> HIDE DEF r
<1>3. r = Fresh(r.cur, Any, 0, FALSE)  BY <1>1, <1>2, Zenon
<1>4. MayRegisters(r, x)  BY <1>2, <1>3 DEF MayRegisters
<1>5. AfterRegisters(r, x) = Fresh(LastSel, Any, 0, FALSE)  BY DEF AfterRegisters
<1>6. AfterRegisters(r, x) = Unfenced(LastSel, 0)  BY <1>5, Zenon DEF Unfenced
<1>7. May(Regs, r, x) /\ After(Regs, r, x) = Unfenced(LastSel, 0)
  BY <1>4, <1>6 DEF May, After, Regs
<1> QED  BY <1>7 DEF r

LEMMA LooksAt ==
  ASSUME NEW r \in Outlines, NEW x, x[1] \in {"maxHart", "exists", "enumerate_harts"},
         MayRegisters(r, x)
  PROVE  /\ r = Unfenced(r.cur, 0) /\ r.cur \in Nat
         /\ AfterRegisters(r, x) = Unfenced(LastSel, 0)
<1>1. r = Fresh(r.cur, Any, 0, FALSE)  BY DEF MayRegisters
<1>2. r = Unfenced(r.cur, 0)  BY <1>1, Zenon DEF Unfenced
<1>3. After(Regs, Unfenced(r.cur, 0), x) = Unfenced(LastSel, 0)  BY LookMay
<1> QED  BY <1>2, <1>3 DEF After, Regs, Outlines

LEMMA UnfencedType ==
  ASSUME NEW h \in Nat, NEW n \in Nat
  PROVE  Unfenced(h, n) \in Outlines
<1>1. PICK b : b = FALSE  OBVIOUS
<1>2. b \in BOOLEAN /\ Any \in Terms  BY <1>1, TermTypes
<1>3. Fresh(h, Any, n, b) \in Outlines  BY <1>2, FreshType
<1> QED  BY <1>1, <1>3, Zenon DEF Unfenced

LEMMA SelectUnfenced ==
  ASSUME NEW h \in Nat, NEW n \in Nat, NEW i \in Nat
  PROVE  Path(Regs, Unfenced(h, n), select_hart(i), Unfenced(i, n))
<1>1. PICK b, t : b = FALSE /\ t = Any  OBVIOUS
<1>2. b \in BOOLEAN /\ t \in Terms  BY <1>1, TermTypes
<1>3. Path(Regs, Fresh(h, t, n, b), select_hart(i), Unfenced(i, n))  BY <1>2, SelectFresh
<1> QED  BY <1>1, <1>3, Zenon DEF Unfenced

\* The next hart is looked at.
LEMMA LookItem ==
  ASSUME NEW r \in Outlines, NEW y, y[1] \in {"maxHart", "exists"}, MayRegisters(r, y),
         NEW i \in Nat
  PROVE  Path(Regs, r, select_hart(i) \o << <<"exists", i>> >>, AfterRegisters(r, y))
<1> DEFINE x == <<"exists", i>>
           q == Unfenced(i, 0)
           e == Unfenced(LastSel, 0)
<1>1. r = Unfenced(r.cur, 0) /\ r.cur \in Nat /\ AfterRegisters(r, y) = e  BY LooksAt
<1>2. Path(Regs, r, select_hart(i), q)
  <2>1. Path(Regs, Unfenced(r.cur, 0), select_hart(i), q)  BY <1>1, SelectUnfenced
  <2> QED  BY <1>1, <2>1, Zenon
<1>3. x[1] = "exists"  OBVIOUS
<1> HIDE DEF x
<1>4. May(Regs, q, x) /\ After(Regs, q, x) = e  BY <1>3, LookMay
<1> HIDE DEF q, e
<1>5. Path(Regs, q, <<x>>, e)  BY <1>4, PathOne, Zenon
<1>6. Path(Regs, r, select_hart(i) \o <<x>>, e)  BY <1>2, <1>5, PathJoin
<1> QED  BY <1>1, <1>6 DEF x

LEMMA EnumerateItem ==
  ASSUME NEW r \in Outlines, MayRegisters(r, <<"enumerate_harts">>)
  PROVE  Path(Regs, r, enumerate_harts, AfterRegisters(r, <<"enumerate_harts">>))
<1> DEFINE w == <<"enumerate_harts">>
           x1 == <<"readDmcontrol">>
           x2 == <<"writeHartsel", 1023>>
           x3 == <<"dmstatus">>
           x4 == <<"maxHart">>
           e == Unfenced(LastSel, 0)
           h == r.cur
           f == r.f
<1>1. /\ w[1] = "enumerate_harts" /\ x1[1] = "readDmcontrol" /\ x2[1] = "writeHartsel"
      /\ x3[1] = "dmstatus" /\ x4[1] = "maxHart"
  BY FirstOfOne
<1>2. enumerate_harts = <<x1, x2, x3, x4>>  BY Zenon DEF enumerate_harts
<1> HIDE DEF w, x1, x2, x3, x4
<1>3. MayRegisters(r, w)  BY DEF w
<1>4. r = Unfenced(h, 0) /\ h \in Nat /\ AfterRegisters(r, w) = e  BY <1>1, <1>3, LooksAt
<1> HIDE DEF e
<1>5. PICK u, t : u = FALSE /\ t = Any  OBVIOUS
<1> HIDE DEF h
<1>6. r = Fresh(h, t, 0, u)  BY <1>4, <1>5, Zenon DEF Unfenced
<1>7. u \in BOOLEAN /\ t \in Terms  BY <1>5, TermTypes
<1> DEFINE k == FreshFacts(t, 0, u)
<1>8. k \in Facts /\ Clean(k)  BY <1>7, FreshFactsType
<1>9. Elsewhere(k) = k
  <2>1. Elsewhere(k) = FreshFacts(Any, 0, u)  BY <1>5, <1>7, ElsewhereFresh
  <2> QED  BY <1>5, <2>1, Zenon
<1>10. r = Rest(k, Unknown, h)  BY <1>6, FreshIs
<1> HIDE DEF k
<1>11. May(Regs, r, x1) /\ r = After(Regs, r, x1)
  <2>1. May(Regs, Rest(k, Unknown, h), x1)
        /\ After(Regs, Rest(k, Unknown, h), x1) = Rest(k, Unknown, h)
    BY <1>1, QuietAt
  <2> QED  BY <1>10, <2>1, Zenon
<1>12. May(Regs, r, x2) /\ r = After(Regs, r, x2)
  <2> DEFINE d == 1023
             y == <<"writeHartsel", d>>
  <2>1. x2 = y  BY DEF x2
  <2> HIDE DEF d
  <2>2. May(Regs, Rest(k, Unknown, h), y)
        /\ After(Regs, Rest(k, Unknown, h), y) = Rest(Elsewhere(k), Unknown, h)
    BY <1>8, HartselGoes, Zenon
  <2> HIDE DEF y
  <2> QED  BY <1>9, <1>10, <2>1, <2>2, Zenon
<1>13. May(Regs, r, x3) /\ r = After(Regs, r, x3)
  <2>1. May(Regs, Rest(k, Unknown, h), x3)
        /\ After(Regs, Rest(k, Unknown, h), x3) = Rest(k, Unknown, h)
    BY <1>1, QuietAt
  <2> QED  BY <1>10, <2>1, Zenon
<1>14. May(Regs, r, x4) /\ e = After(Regs, r, x4)
  <2>1. /\ May(Regs, Unfenced(h, 0), x4)
        /\ After(Regs, Unfenced(h, 0), x4) = Unfenced(LastSel, 0)
    BY <1>1, LookMay
  <2> QED  BY <1>4, <2>1, Zenon DEF e
<1>15. Path(Regs, r, <<x1, x2, x3, x4>>, e)  BY <1>11, <1>12, <1>13, <1>14, PathFour
<1> QED  BY <1>2, <1>4, <1>15 DEF w

-------------------------------------------------------------------------------
(* The calls and loops that an access stands for, in the registers.          *)

RegStands(r, first) == Path(Regs, r, first, AfterRegisters(r, todo[1]))

LEMMA RegOnward ==
  ASSUME NEW r, NEW e, NEW first, Path(Regs, r, todo, e), todo # <<>>,
         RegStands(r, first), Then(first)
  PROVE  Path(Regs, r, todo', e)
<1>1. Path(Regs, After(Regs, r, todo[1]), Tail(todo), e)  BY PathHead
<1>2. After(Regs, r, todo[1]) = AfterRegisters(r, todo[1])  BY DEF After, Regs
<1>3. Path(Regs, AfterRegisters(r, todo[1]), Tail(todo), e)  BY <1>1, <1>2, Zenon
<1>4. Path(Regs, r, first \o Tail(todo), e)  BY <1>3, PathJoin DEF RegStands
<1> QED  BY <1>4 DEF Then

\* An item with its arguments.
LEMMA SameItem ==
  ASSUME NEW r, NEW x
  PROVE  /\ x[1] \in {"halt", "resume", "select_hart", "reset"} =>
              LET y == <<x[1], x[2]>> IN
              /\ MayRegisters(r, x) => MayRegisters(r, y)
              /\ AfterRegisters(r, y) = AfterRegisters(r, x)
         /\ x[1] = "more_words" =>
              LET y == <<x[1], x[2]>> IN
              /\ MayRegisters(r, x) => MayRegisters(r, y)
              /\ AfterRegisters(r, y) = AfterRegisters(r, x)
         /\ x[1] \in {"enumerate_harts", "fence_i", "write_csr"} =>
              LET y == <<x[1]>> IN
              /\ MayRegisters(r, x) => MayRegisters(r, y)
              /\ AfterRegisters(r, y) = AfterRegisters(r, x)
         /\ x[1] = "read_words" =>
              LET y == <<x[1], x[2], x[3]>> IN
              /\ MayRegisters(r, x) => MayRegisters(r, y)
              /\ AfterRegisters(r, y) = AfterRegisters(r, x)
<1>1. ASSUME NEW y, y[1] = x[1], y[2] = x[2],
             x[1] \in {"halt", "resume", "select_hart", "reset", "more_words"}
      PROVE  (MayRegisters(r, x) => MayRegisters(r, y))
             /\ AfterRegisters(r, y) = AfterRegisters(r, x)
  BY <1>1 DEF MayRegisters, AfterRegisters
<1>2. ASSUME NEW y, y[1] = x[1], x[1] \in {"enumerate_harts", "fence_i", "write_csr"}
      PROVE  (MayRegisters(r, x) => MayRegisters(r, y))
             /\ AfterRegisters(r, y) = AfterRegisters(r, x)
  BY <1>2 DEF MayRegisters, AfterRegisters
<1>3. ASSUME NEW y, y[1] = x[1], y[2] = x[2], y[3] = x[3], x[1] = "read_words"
      PROVE  (MayRegisters(r, x) => MayRegisters(r, y))
             /\ AfterRegisters(r, y) = AfterRegisters(r, x)
  BY <1>3 DEF MayRegisters, AfterRegisters
<1>4. <<x[1], x[2]>>[1] = x[1] /\ <<x[1], x[2]>>[2] = x[2]  OBVIOUS
<1>5. <<x[1]>>[1] = x[1]  BY FirstOfOne
<1>6. /\ <<x[1], x[2], x[3]>>[1] = x[1] /\ <<x[1], x[2], x[3]>>[2] = x[2]
      /\ <<x[1], x[2], x[3]>>[3] = x[3]
  OBVIOUS
<1> QED  BY <1>1, <1>2, <1>3, <1>4, <1>5, <1>6

LEMMA EnterRegs ==
  ASSUME NEW a, NEW r, ControlHolds(a), MayControl(a, todo[1]),
         RegistersHold(r), MayRegisters(r, todo[1]), Enter
  PROVE  RegistersHold(r)' /\ \E first : Then(first) /\ RegStands(r, first)
<1> DEFINE x == todo[1]
<1>1. dmvars' = dmvars /\ UNCHANGED <<current_hart, words, saved, kept>>
  BY DEF Enter, locals, history
<1>2. RegistersHold(r)'  BY <1>1, HostSame
<1>3. /\ FoundOK(a) /\ r \in Outlines /\ r.cur = current_hart /\ current_hart \in Nat
      /\ a.running => xlen = Xlen /\ num_harts = NHarts
  BY ControlParts DEF FoundOK, RegistersHold, PlaceHolds, Outlines
<1>4. MayRegisters(r, x) /\ MayControl(a, x)  OBVIOUS
<1>5. ASSUME NEW routine, Path(Regs, r, routine, AfterRegisters(r, x)), Then(routine)
      PROVE  \E first : Then(first) /\ RegStands(r, first)
  BY <1>5 DEF RegStands
<1> HIDE DEF x
<1>6. ASSUME x[1] = "enumerate_harts"
      PROVE  Path(Regs, r, enumerate_harts, AfterRegisters(r, x))
  <2>1. MayRegisters(r, <<"enumerate_harts">>)
        /\ AfterRegisters(r, <<"enumerate_harts">>) = AfterRegisters(r, x)
    BY <1>4, <1>6, SameItem
  <2>2. Path(Regs, r, enumerate_harts, AfterRegisters(r, <<"enumerate_harts">>))
    BY <2>1, <1>3, EnumerateItem
  <2> QED  BY <2>1, <2>2, Zenon
<1>7. ASSUME x[1] = "halt"
      PROVE  Path(Regs, r, halt(x[2]), AfterRegisters(r, x))
  <2>1. MayRegisters(r, <<"halt", x[2]>>)
        /\ AfterRegisters(r, <<"halt", x[2]>>) = AfterRegisters(r, x)
    BY <1>4, <1>7, SameItem
  <2>2. x[2] \in Nat  BY <1>4, <1>7 DEF MayRegisters
  <2>3. Path(Regs, r, halt(x[2]), AfterRegisters(r, <<"halt", x[2]>>))
    BY <2>1, <2>2, <1>3, HaltItem
  <2> QED  BY <2>1, <2>3, Zenon
<1>8. ASSUME x[1] = "resume"
      PROVE  Path(Regs, r, resume(x[2]), AfterRegisters(r, x))
  <2>1. MayRegisters(r, <<"resume", x[2]>>)
        /\ AfterRegisters(r, <<"resume", x[2]>>) = AfterRegisters(r, x)
    BY <1>4, <1>8, SameItem
  <2>2. x[2] \in Nat  BY <1>4, <1>8 DEF MayRegisters
  <2>3. Path(Regs, r, resume(x[2]), AfterRegisters(r, <<"resume", x[2]>>))
    BY <2>1, <2>2, <1>3, ResumeItem
  <2> QED  BY <2>1, <2>3, Zenon
<1>9. ASSUME x[1] = "select_hart"
      PROVE  Path(Regs, r, select_hart(x[2]), AfterRegisters(r, x))
  <2>1. MayRegisters(r, <<"select_hart", x[2]>>)
        /\ AfterRegisters(r, <<"select_hart", x[2]>>) = AfterRegisters(r, x)
    BY <1>4, <1>9, SameItem
  <2>2. x[2] \in Nat  BY <1>4, <1>9 DEF MayRegisters
  <2>3. Path(Regs, r, select_hart(x[2]), AfterRegisters(r, <<"select_hart", x[2]>>))
    BY <2>1, <2>2, <1>3, SelectItem
  <2> QED  BY <2>1, <2>3, Zenon
<1>10. ASSUME x[1] = "get_xlen"
       PROVE  Path(Regs, r, TrySize(128), AfterRegisters(r, x))
  BY <1>3, <1>4, <1>10, XlenItem
<1>11. ASSUME x[1] = "fence_i"
       PROVE  Path(Regs, r, fence_i, AfterRegisters(r, x))
  <2>1. MayRegisters(r, <<"fence_i">>)
        /\ AfterRegisters(r, <<"fence_i">>) = AfterRegisters(r, x)
    BY <1>4, <1>11, SameItem
  <2>2. xlen = Xlen  BY <1>3, <1>4, <1>11 DEF MayControl
  <2>3. Path(Regs, r, fence_i, AfterRegisters(r, <<"fence_i">>))
    BY <2>1, <2>2, <1>3, FenceItem
  <2> QED  BY <2>1, <2>3, Zenon
<1>12. ASSUME x[1] = "write_csr"
       PROVE  Path(Regs, r, modify_csr("WRITE", "dpc", Entry), AfterRegisters(r, x))
  <2>1. MayRegisters(r, <<"write_csr">>)
        /\ AfterRegisters(r, <<"write_csr">>) = AfterRegisters(r, x)
    BY <1>4, <1>12, SameItem
  <2>2. xlen = Xlen  BY <1>3, <1>4, <1>12 DEF MayControl
  <2>3. Path(Regs, r, modify_csr("WRITE", "dpc", Entry), AfterRegisters(r, <<"write_csr">>))
    BY <2>1, <2>2, <1>3, WriteCsrItem
  <2> QED  BY <2>1, <2>3, Zenon
<1>13. ASSUME x[1] = "reset"
       PROVE  Path(Regs, r, reset(x[2]), AfterRegisters(r, x))
  <2>1. MayRegisters(r, <<"reset", x[2]>>)
        /\ AfterRegisters(r, <<"reset", x[2]>>) = AfterRegisters(r, x)
    BY <1>4, <1>13, SameItem
  <2>2. num_harts = NHarts /\ x[2] \in Nat
    BY <1>3, <1>4, <1>13 DEF MayControl, MayRegisters
  <2>3. Path(Regs, r, reset(x[2]), AfterRegisters(r, <<"reset", x[2]>>))
    BY <2>1, <2>2, <1>3, ResetItem
  <2> QED  BY <2>1, <2>3, Zenon
<1>14. ASSUME x[1] = "read_words"
       PROVE  Path(Regs, r, read_words(x[2], x[3]), AfterRegisters(r, x))
  <2>1. MayRegisters(r, <<"read_words", x[2], x[3]>>)
        /\ AfterRegisters(r, <<"read_words", x[2], x[3]>>) = AfterRegisters(r, x)
    BY <1>4, <1>14, SameItem
  <2>2. xlen = Xlen /\ x[2] \in Nat /\ x[3] \in Nat
    BY <1>3, <1>4, <1>14 DEF MayControl, MayRegisters
  <2>3. Path(Regs, r, read_words(x[2], x[3]), AfterRegisters(r, <<"read_words", x[2], x[3]>>))
    BY <2>1, <2>2, <1>3, ReadWordsItem
  <2> QED  BY <2>1, <2>3, Zenon
<1>15. ASSUME x[1] = "more_words"
       PROVE  Path(Regs, r, more_words(x[2]), AfterRegisters(r, x))
  <2>1. MayRegisters(r, <<"more_words", x[2]>>)
        /\ AfterRegisters(r, <<"more_words", x[2]>>) = AfterRegisters(r, x)
    BY <1>4, <1>15, SameItem
  <2>2. xlen = Xlen /\ x[2] \in Seq(Nat)
    BY <1>3, <1>4, <1>15 DEF MayControl, MayRegisters
  <2>3. Path(Regs, r, more_words(x[2]), AfterRegisters(r, <<"more_words", x[2]>>))
    BY <2>1, <2>2, <1>3, MoreWordsItem
  <2> QED  BY <2>1, <2>3, Zenon
<1>16. \/ x[1] = "enumerate_harts" /\ Then(enumerate_harts)
       \/ x[1] = "halt" /\ Then(halt(x[2]))
       \/ x[1] = "get_xlen" /\ Then(TrySize(128))
       \/ x[1] = "resume" /\ Then(resume(x[2]))
       \/ x[1] = "select_hart" /\ Then(select_hart(x[2]))
       \/ x[1] = "fence_i" /\ Then(fence_i)
       \/ x[1] = "write_csr" /\ Then(modify_csr("WRITE", "dpc", Entry))
       \/ x[1] = "reset" /\ Then(reset(x[2]))
       \/ x[1] = "read_words" /\ Then(read_words(x[2], x[3]))
       \/ x[1] = "more_words" /\ Then(more_words(x[2]))
  BY DEF Enter, Doing, Arg, x
<1>17. \E first : Then(first) /\ RegStands(r, first)
  BY <1>5, <1>6, <1>7, <1>8, <1>9, <1>10, <1>11, <1>12, <1>13, <1>14, <1>15, <1>16
<1> QED  BY <1>2, <1>17

\* The outline stays, and `first' leads on from it.
LEMMA ExpandRegs ==
  ASSUME NEW a, NEW r, NEW e, ControlHolds(a), MayControl(a, todo[1]),
         RegistersHold(r), MayRegisters(r, todo[1]), Path(Regs, r, todo, e), todo # <<>>,
         Enter \/ TryNextXlen \/ ReadMaxHart \/ FindHart
  PROVE  RegistersHold(r)' /\ Path(Regs, r, todo', e)
<1> DEFINE x == todo[1]
<1>1. r \in Outlines  BY DEF RegistersHold, PlaceHolds
<1>2. RegistersHold(r)' /\ \E first : Then(first) /\ RegStands(r, first)
  <2>1. CASE Enter  BY <2>1, EnterRegs
  <2>2. CASE TryNextXlen
    <3>1. x[1] = "xlen" /\ CmderrClear /\ UNCHANGED <<current_hart, words, saved, kept>>
          /\ Then(TrySize(x[2] \div 2))
      BY <2>2 DEF TryNextXlen, Doing, Arg, locals, history
    <3>2. UNCHANGED <<selection, requests, halted, regs, mem, stale, progbuf, data, command,
                      abstractauto, busy, xpc>>
      BY <3>1 DEF CmderrClear, Writing
    <3>3. RegistersHold(r)'  BY <3>1, <3>2, HostSame
    <3>4. x[2] \in {32, 64, 128}  BY <3>1 DEF MayControl
    <3>5. x[2] \div 2 \in Nat  BY <3>4
    <3>6. MayRegisters(r, x)  OBVIOUS
    <3> HIDE DEF x
    <3>7. Path(Regs, r, TrySize(x[2] \div 2), AfterRegisters(r, x))
      BY <1>1, <3>1, <3>5, <3>6, XlenItem
    <3> QED  BY <3>1, <3>3, <3>7 DEF RegStands, x
  <2>3. CASE ReadMaxHart
    <3>1. x[1] = "maxHart" /\ dmvars' = dmvars /\ UNCHANGED <<current_hart, words, saved, kept>>
          /\ Then(select_hart(0) \o << <<"exists", 0>> >>)
      BY <2>3 DEF ReadMaxHart, Doing, locals, history
    <3>2. RegistersHold(r)'  BY <3>1, HostSame
    <3>3. MayRegisters(r, x) /\ 0 \in Nat  OBVIOUS
    <3> HIDE DEF x
    <3>4. Path(Regs, r, select_hart(0) \o << <<"exists", 0>> >>, AfterRegisters(r, x))
      BY <1>1, <3>1, <3>3, LookItem
    <3> QED  BY <3>1, <3>2, <3>4 DEF RegStands, x
  <2>4. CASE FindHart
    <3>1. x[1] = "exists" /\ dmvars' = dmvars /\ UNCHANGED <<current_hart, words, saved, kept>>
          /\ Then(select_hart(x[2] + 1) \o << <<"exists", x[2] + 1>> >>)
      BY <2>4 DEF FindHart, Doing, Arg, locals, history
    <3>2. RegistersHold(r)'  BY <3>1, HostSame
    <3>3. x[2] + 1 \in Nat
      <4>1. x[2] \in 0..LastSel  BY <3>1 DEF MayControl
      <4> QED  BY <4>1, LastSels
    <3>4. MayRegisters(r, x)  OBVIOUS
    <3> HIDE DEF x
    <3>5. Path(Regs, r, select_hart(x[2] + 1) \o << <<"exists", x[2] + 1>> >>,
               AfterRegisters(r, x))
      BY <1>1, <3>1, <3>3, <3>4, LookItem
    <3> QED  BY <3>1, <3>2, <3>5 DEF RegStands, x
  <2> QED  BY <2>1, <2>2, <2>3, <2>4
<1>3. PICK first : Then(first) /\ RegStands(r, first)  BY <1>2
<1>4. Path(Regs, r, todo', e)  BY <1>3, RegOnward
<1> QED  BY <1>2, <1>4

LEMMA AccessOnward ==
  ASSUME NEW a, NEW r, NEW e, ControlHolds(a), MayControl(a, todo[1]),
         RegistersHold(r), MayRegisters(r, todo[1]), Path(Regs, r, todo, e), todo # <<>>,
         \/ SwitchDmcontrol \/ WriteHartsel \/ ReadDmcontrol \/ Poll \/ SetHart
         \/ WriteRegister \/ ReadData \/ Save \/ Copy \/ Succeeds \/ die
         \/ FindXlen \/ CountHarts
  PROVE  \E q : RegistersHold(q)' /\ Path(Regs, q, todo', e)
<1>0. PICK x : x = todo[1]  OBVIOUS
<1>1. RegistersHold(AfterRegisters(r, x))'  BY <1>0, AccessRegs
<1>2. Path(Regs, AfterRegisters(r, x), Tail(todo), e)
  <2>1. Path(Regs, After(Regs, r, todo[1]), Tail(todo), e)  BY PathHead
  <2>2. After(Regs, r, todo[1]) = AfterRegisters(r, todo[1])  BY DEF After, Regs
  <2> QED  BY <1>0, <2>1, <2>2, Zenon
<1>3. Then(<<>>)
  BY DEF SwitchDmcontrol, WriteHartsel, WriteDmcontrol, ReadDmcontrol, Poll, SetHart,
     WriteRegister, ReadData, Save, Copy, Succeeds, die, FindXlen, CountHarts, Accessed
<1>4. todo' = Tail(todo)
  <2>1. \E n \in Nat : todo = [i \in 1..n |-> todo[i]]  BY PathHead
  <2>2. PICK n \in Nat : todo = [i \in 1..n |-> todo[i]]  BY <2>1
  <2>3. PICK S : S = {todo[i] : i \in 1..n}  OBVIOUS
  <2>4. todo \in Seq(S)  BY <2>2, <2>3, AsSeq
  <2>5. Tail(todo) \in Seq(S)  BY <2>4
  <2> QED  BY <2>5, <1>3 DEF Then
<1> QED  BY <1>1, <1>2, <1>4

-------------------------------------------------------------------------------
(* The registers of every step.                                             *)

\* Nothing has been taken from the hart in hand.
Untaken(r) ==
  /\ r \in Outlines /\ r.run = "no" /\ r.c = NoCommand /\ ~r.auto /\ Clean(r.f)

LEMMA UntakenFresh ==
  ASSUME NEW h \in Nat, NEW t \in Terms, NEW n \in Nat, NEW b \in BOOLEAN
  PROVE  Untaken(Fresh(h, t, n, b))
<1>1. Fresh(h, t, n, b) \in Outlines  BY FreshType
<1>2. Clean(FreshFacts(t, n, b))  BY FreshFactsType
<1> QED  BY <1>1, <1>2, FreshFields DEF Untaken

LEMMA UntakenGoes ==
  ASSUME NEW r, Untaken(r), NEW x, x[1] \in {"dmcontrol", "halt", "resume", "get_xlen"},
         x[1] \in {"halt", "resume"} => x[2] \in Nat
  PROVE  May(Regs, r, x) /\ Untaken(After(Regs, r, x))
<1>1. r \in Outlines /\ r.run = "no" /\ r.c = NoCommand /\ ~r.auto /\ Clean(r.f) /\ r.f \in Facts
  BY DEF Untaken, Outlines
<1>2. MayRegisters(r, x)  BY <1>1 DEF MayRegisters
<1>3. Untaken(LetGo(r))
  <2>1. OutOfHand(r.f) \in Facts /\ Clean(OutOfHand(r.f))  BY <1>1, HandedOver
  <2> DEFINE q == LetGo(r)
             g == OutOfHand(r.f)
  <2> HIDE DEF g
  <2>2. q \in Outlines /\ q.f = g /\ q.run = "no" /\ q.c = NoCommand /\ q.auto = r.auto
    BY <1>1, <2>1, UnknownType DEF LetGo, Outlines, g
  <2> HIDE DEF q
  <2>3. Untaken(q)  BY <2>1, <2>2, <1>1 DEF Untaken, g
  <2> QED  BY <2>3 DEF q
<1>4. ASSUME NEW p, Untaken(p), NEW i \in Nat PROVE Untaken(ChangeTo(p, i))
  <2>1. p \in Outlines /\ p.run = "no" /\ p.c = NoCommand /\ ~p.auto /\ Clean(p.f) /\ p.f \in Facts
    BY <1>4 DEF Untaken, Outlines
  <2> DEFINE q == ChangeTo(p, i)
             g == IF i = p.cur THEN p.f ELSE [p.f EXCEPT !.pc = Any, !.fenced = FALSE]
  <2>2. g \in Facts  BY <2>1, TermTypes DEF Facts
  <2>3. g.s0 = p.f.s0 /\ g.s1 = p.f.s1  BY <2>1 DEF Facts
  <2>4. q = [p EXCEPT !.cur = i, !.f = g]  BY DEF ChangeTo
  <2> HIDE DEF g, q
  <2>5. q \in Outlines /\ q.f = g /\ q.run = "no" /\ q.c = NoCommand /\ q.auto = p.auto
    BY <2>1, <2>2, <2>4 DEF Outlines
  <2>6. Untaken(q)  BY <2>1, <2>3, <2>5 DEF Untaken, Clean
  <2> QED  BY <2>6 DEF q
<1>5. ASSUME x[1] = "get_xlen" PROVE Untaken(AfterRegisters(r, x))
  <2> DEFINE q == AfterRegisters(r, x)
             g == NoData(r.f)
  <2>1. g \in Facts  BY <1>1, FactTypes
  <2>2. g.s0 = r.f.s0 /\ g.s1 = r.f.s1  BY <1>1 DEF NoData, Facts
  <2>3. q = [r EXCEPT !.f = g]  BY <1>5 DEF AfterRegisters
  <2> HIDE DEF g, q
  <2>4. q \in Outlines /\ q.f = g /\ q.run = "no" /\ q.c = NoCommand /\ q.auto = r.auto
    BY <1>1, <2>1, <2>3 DEF Outlines
  <2>5. Untaken(q)  BY <1>1, <2>2, <2>4 DEF Untaken, Clean
  <2> QED  BY <2>5 DEF q
<1>6. ASSUME x[1] = "dmcontrol" PROVE Untaken(AfterRegisters(r, x))
  BY <1>3, <1>6 DEF AfterRegisters
<1>7. ASSUME x[1] \in {"halt", "resume"} PROVE Untaken(AfterRegisters(r, x))
  <2>1. AfterRegisters(r, x) = ChangeTo(LetGo(r), x[2])  BY <1>7 DEF AfterRegisters
  <2>2. Untaken(ChangeTo(LetGo(r), x[2]))  BY <1>3, <1>4, <1>7
  <2> QED  BY <2>1, <2>2
<1> QED  BY <1>2, <1>5, <1>6, <1>7 DEF May, After, Regs

LEMMA ProbeRegs == \E e : Path(Regs, Unfenced(0, 0), probe, e) /\ Untaken(e)
<1> DEFINE r == Unfenced(0, 0)
           x1 == <<"dmcontrol", Active(0)>>
           x2 == <<"enumerate_harts">>
           x3 == <<"halt", 0>>
           x4 == <<"get_xlen">>
           x5 == <<"resume", 0>>
<1>1. /\ x1[1] = "dmcontrol" /\ x2[1] = "enumerate_harts" /\ x3[1] = "halt" /\ x3[2] = 0
      /\ x4[1] = "get_xlen" /\ x5[1] = "resume" /\ x5[2] = 0
  BY FirstOfOne
<1>2. probe = <<x1, x2, x3, x4, x5>>  BY DEF probe
<1> HIDE DEF x1, x2, x3, x4, x5
<1>3. PICK u, t : u = FALSE /\ t = Any  OBVIOUS
<1>4. u \in BOOLEAN /\ t \in Terms /\ 0 \in Nat  BY <1>3, TermTypes
<1>5. r = Fresh(0, t, 0, u)  BY <1>3, Zenon DEF Unfenced
<1> DEFINE f == FreshFacts(t, 0, u)
<1>6. r = Rest(f, Unknown, 0) /\ OutOfHand(f) = f /\ Clean(f)
  <2>1. Fresh(0, t, 0, u) = Rest(f, Unknown, 0)  BY FreshIs
  <2>2. OutOfHand(f) = f /\ Clean(f)  BY <1>4, FreshFactsType
  <2> QED  BY <1>5, <2>1, <2>2, Zenon
<1> HIDE DEF f, r
<1>7. May(Regs, r, x1) /\ r = After(Regs, r, x1)
  <2>1. /\ May(Regs, Rest(f, Unknown, 0), <<"dmcontrol", Active(0)>>)
        /\ After(Regs, Rest(f, Unknown, 0), <<"dmcontrol", Active(0)>>)
             = Rest(OutOfHand(f), Unknown, 0)
    BY <1>6, DmcontrolGoes
  <2> QED  BY <1>6, <2>1, Zenon DEF x1
<1> DEFINE c == Unfenced(LastSel, 0)
<1>8. May(Regs, r, x2) /\ c = After(Regs, r, x2)
  <2>1. May(Regs, Unfenced(0, 0), x2) /\ After(Regs, Unfenced(0, 0), x2) = Unfenced(LastSel, 0)
    BY <1>1, LookMay
  <2> QED  BY <2>1 DEF r
<1>9. Untaken(c)
  <2>1. LastSel \in Nat  BY LastSels
  <2>2. Untaken(Fresh(LastSel, t, 0, u))  BY <1>4, <2>1, UntakenFresh
  <2> QED  BY <1>3, <2>2, Zenon DEF Unfenced
<1> HIDE DEF c
<1> DEFINE d == After(Regs, c, x3)
<1>10. May(Regs, c, x3) /\ Untaken(d)  BY <1>1, <1>4, <1>9, UntakenGoes
<1> HIDE DEF d
<1> DEFINE g == After(Regs, d, x4)
<1>11. May(Regs, d, x4) /\ Untaken(g)  BY <1>1, <1>10, UntakenGoes
<1> HIDE DEF g
<1> DEFINE e == After(Regs, g, x5)
<1>12. May(Regs, g, x5) /\ Untaken(e)  BY <1>1, <1>4, <1>11, UntakenGoes
<1> HIDE DEF e
<1>13. Path(Regs, r, <<x1, x2, x3, x4, x5>>, e)
  BY <1>7, <1>8, <1>10, <1>11, <1>12, PathFive DEF d, g, e
<1> QED  BY <1>2, <1>12, <1>13 DEF r

\* What a csr call in progress will have read, and will leave.
CsrSettled(e) ==
  csr # NoRead =>
    /\ csr.old \in Value /\ e.f.pc = Is(csr.new)
    /\ e.f.w0 = Is(csr.old) /\ (XWords = 2 => e.f.w1 = Is(csr.old))

Returned(e) ==
  Untaken(e) /\ CsrSettled(e) /\ (phase = "reset" => e.f.ready = NHarts)

\* The host is where the accesses that are left lead it to an outline in which the
\* program's registers are its own again.
RegistersInv ==
  /\ \E r, e : RegistersHold(r) /\ Path(Regs, r, todo, e) /\ Returned(e)
  /\ ~calling => csr = NoRead

\* A hart that is not in hand: nothing needs to be known but its pc.
LEMMA FreshHolds ==
  ASSUME NEW r, RegistersHold(r), Untaken(r), NEW t \in Terms,
         t = Any \/ (current_hart \in Harts /\ t = Is(pc[current_hart])),
         NEW u, u = FALSE
  PROVE  RegistersHold(Fresh(r.cur, t, 0, u)) /\ Untaken(Fresh(r.cur, t, 0, u))
<1> DEFINE q == Fresh(r.cur, t, 0, u)
           g == FreshFacts(t, 0, u)
<1>1. r \in Outlines /\ r.f \in Facts /\ r.cur \in Nat /\ r.run = "no" /\ ~r.auto /\ Clean(r.f)
  BY DEF Untaken, Outlines
<1>2. u \in BOOLEAN /\ 0 \in Nat  OBVIOUS
<1>3. Untaken(q)  BY <1>1, <1>2, UntakenFresh
<1>4. /\ q.f = g /\ q.prog = Unknown /\ q.run = "no" /\ q.cur = r.cur /\ ~q.auto
  BY FreshFields
<1>5. g \in Facts  BY <1>2, FreshFactsType
<1>6. /\ g.s0 = Kept(1) /\ g.s1 = Kept(2) /\ g.v0 = Any /\ g.v1 = Any /\ g.d0 = Any
      /\ g.d1 = Any /\ g.w0 = Any /\ g.w1 = Any /\ g.ds = Any /\ g.pc = t /\ g.ready = 0
      /\ g.fenced = u
  BY DEF FreshFacts
<1> HIDE DEF g, q
<1>7. FactsHold(r.f) /\ ~busy  BY <1>1 DEF RegistersHold, RunHolds
<1>8. t # Any => pc[current_hart] \in Nat
  BY ValueNat DEF RegistersHold, ValueTypes
<1>9. FactsHold(g)
  <2>1. /\ hartsel \in Harts => Says(g.s0, s0[hartsel]) /\ Says(g.s1, s1[hartsel])
                                /\ Says(g.ds, dscratch[hartsel])
        /\ Says(g.v0, saved.s0) /\ Says(g.v1, saved.s1)
        /\ SaysWord(g.d0, 0, data[0]) /\ SaysWord(g.w0, 0, words[0])
        /\ XWords = 2 => SaysWord(g.d1, 1, data[1]) /\ SaysWord(g.w1, 1, words[1])
    BY <1>1, <1>6, <1>7, AnySays DEF FactsHold, Clean
  <2>2. current_hart \in Harts => Says(g.pc, pc[current_hart])
    BY <1>6, AnySays DEF Says, ValueOf, Is
  <2>3. g.pc[1] # "kept"  BY <1>6 DEF Any, Is
  <2>4. \A h \in Harts : ~(h < g.ready)  BY <1>6, Constants DEF Harts
  <2> QED  BY <2>1, <2>2, <2>3, <2>4, <1>6 DEF FactsHold
<1>10. Clean(g) /\ NoneKept(g)
  <2>1. t[1] # "kept" /\ Any[1] # "kept"  BY DEF Any, Is
  <2> QED  BY <2>1, <1>6 DEF Clean, NoneKept
<1>11. HandHolds(q)  BY <1>4, <1>10 DEF RegistersHold, HandHolds
<1>12. RunHolds(q)  BY <1>4, <1>7, <1>9 DEF RunHolds
<1>13. PlaceHolds(q)
  <2>1. q \in Outlines  BY <1>3 DEF Untaken
  <2>2. current_hart = q.cur /\ abstractauto = r.auto  BY <1>4 DEF RegistersHold, PlaceHolds
  <2>3. abstractauto = q.auto  BY <2>1, <2>2, <1>1, <1>4 DEF Outlines
  <2>4. \A i \in 0..5 : q.prog[i] = Any  BY <1>4 DEF Unknown
  <2> QED  BY <2>1, <2>2, <2>3, <2>4 DEF PlaceHolds
<1>14. RegistersHold(q)  BY <1>11, <1>12, <1>13 DEF RegistersHold
<1> QED  BY <1>3, <1>14 DEF q

LEMMA RegistersInit ==
  ASSUME Init
  PROVE  RegistersInv
<1>1. PICK u : u = FALSE  OBVIOUS
<1> DEFINE q == Fresh(0, Any, 0, u)
           g == FreshFacts(Any, 0, u)
<1>2. u \in BOOLEAN /\ 0 \in Nat /\ Any \in Terms  BY <1>1, TermTypes
<1>3. /\ dmactive = FALSE /\ hartsel = 0 /\ resumereq = {} /\ halted = {}
      /\ data = [i \in 0..1 |-> 0] /\ abstractauto = FALSE /\ busy = FALSE
      /\ progbuf = EmptyBuffer
      /\ s0 = [h \in Harts |-> ValueBase - 1] /\ s1 = [h \in Harts |-> 1]
      /\ dscratch = [h \in Harts |-> 0] /\ pc = [h \in Harts |-> 0]
      /\ mem = [a \in Addrs |-> 0]
  BY DEF Init, DmInit
<1>4. /\ todo = probe /\ phase = "probe" /\ current_hart = 0 /\ words = [i \in 0..1 |-> 0]
      /\ saved = [s0 |-> 0, s1 |-> 0] /\ calling = FALSE /\ csr = NoRead
      /\ kept = [h \in Harts |-> <<s0[h], s1[h]>>]
  BY DEF Init
<1>5. ValueTypes
  <2>1. 0 \in Value /\ 0 \in Word /\ ValueBase - 1 \in Value /\ 1 \in Value
    <3>1. WordBase \in Nat \ {0, 1}  BY DebugModuleConstants
    <3>2. ValueBase \in Nat \ {0, 1}
      <4>1. WordBase * WordBase \in Nat \ {0, 1}  BY <3>1
      <4> QED  BY <3>1, <4>1 DEF ValueBase
    <3> QED  BY <3>1, <3>2 DEF Value, Word
  <2>2. s0 \in [Harts -> Value] /\ s1 \in [Harts -> Value] /\ dscratch \in [Harts -> Value]
        /\ pc \in [Harts -> Value] /\ mem \in [Addrs -> Value]
    BY <1>3, <2>1
  <2>3. data \in [0..1 -> Word] /\ words \in [0..1 -> Word] /\ saved \in [s0 : Value, s1 : Value]
    BY <1>3, <1>4, <2>1
  <2>4. kept \in [Harts -> Value \X Value]  BY <1>4, <2>2
  <2>5. DOMAIN progbuf = 0..5  BY <1>3 DEF EmptyBuffer
  <2> QED  BY <2>2, <2>3, <2>4, <2>5 DEF ValueTypes
<1>6. /\ q.f = g /\ q.prog = Unknown /\ q.run = "no" /\ q.cur = 0 /\ ~q.auto
  BY FreshFields
<1>7. /\ g.s0 = Kept(1) /\ g.s1 = Kept(2) /\ g.v0 = Any /\ g.v1 = Any /\ g.d0 = Any
      /\ g.d1 = Any /\ g.w0 = Any /\ g.w1 = Any /\ g.ds = Any /\ g.pc = Any /\ g.ready = 0
      /\ g.fenced = u
  BY DEF FreshFacts
<1>8. Untaken(q)  BY <1>2, UntakenFresh
<1> HIDE DEF q, g
<1>9. \A h \in Harts : s0[h] = kept[h][1] /\ s1[h] = kept[h][2]
  BY <1>4
<1>10. FactsHold(g)
  <2>1. hartsel \in Harts => Says(g.s0, s0[hartsel]) /\ Says(g.s1, s1[hartsel])
    BY <1>7, <1>9 DEF Says, ValueOf, Kept
  <2>2. \A h \in Harts : ~(h < g.ready)  BY <1>7, Constants DEF Harts
  <2>3. g.pc[1] # "kept"  BY <1>7 DEF Any
  <2> QED  BY <2>1, <2>2, <2>3, <1>1, <1>7, AnySays DEF FactsHold
<1>11. HandHolds(q)
  <2>1. Any[1] # "kept"  BY DEF Any
  <2>2. Clean(g) /\ NoneKept(g)  BY <2>1, <1>7 DEF Clean, NoneKept
  <2> QED  BY <2>2, <1>6, <1>9 DEF HandHolds
<1>12. RunHolds(q)  BY <1>3, <1>6, <1>10 DEF RunHolds
<1>13. PlaceHolds(q)
  <2>1. q \in Outlines  BY <1>8 DEF Untaken
  <2>2. abstractauto = q.auto  BY <2>1, <1>3, <1>6 DEF Outlines
  <2>3. \A i \in 0..5 : q.prog[i] = Any  BY <1>6 DEF Unknown
  <2> QED  BY <2>1, <2>2, <2>3, <1>4, <1>6 DEF PlaceHolds
<1>14. RegistersHold(q)  BY <1>5, <1>11, <1>12, <1>13 DEF RegistersHold
<1>15. q = Unfenced(0, 0)  BY <1>1, Zenon DEF Unfenced, q
<1>16. PICK e : Path(Regs, Unfenced(0, 0), probe, e) /\ Untaken(e)  BY ProbeRegs
<1>17. Path(Regs, q, todo, e)  BY <1>4, <1>15, <1>16
<1>18. Returned(e)  BY <1>4, <1>16 DEF Returned, CsrSettled
<1> QED  BY <1>4, <1>14, <1>17, <1>18 DEF RegistersInv

\* A call begins.
LEMMA CallHolds ==
  ASSUME NEW r, RegistersHold(r), Untaken(r), NEW t \in Terms,
         t = Any \/ (current_hart \in Harts /\ t = Is(pc[current_hart])),
         NEW u, u = FALSE, UNCHANGED <<dmvars, current_hart, words, saved, kept>>
  PROVE  /\ RegistersHold(Fresh(current_hart, t, 0, u))'
         /\ r.cur = current_hart /\ current_hart \in Nat
<1>1. r.cur = current_hart /\ current_hart \in Nat
  BY DEF RegistersHold, PlaceHolds, Outlines
<1> DEFINE q == Fresh(r.cur, t, 0, u)
<1>2. RegistersHold(q)  BY FreshHolds
<1> HIDE DEF q
<1>3. RegistersHold(q)'
  <2>1. dmvars' = dmvars /\ UNCHANGED <<current_hart, words, saved, kept>>  OBVIOUS
  <2> QED  BY <1>2, <2>1, HostSame
<1>4. current_hart' = current_hart  OBVIOUS
<1> QED  BY <1>1, <1>3, <1>4 DEF q

LEMMA ChunkRegs ==
  ASSUME NEW r, RegistersHold(r), Untaken(r), NEW routine, Calls(routine), csr = NoRead,
         csr' = csr, NEW u, u = FALSE,
         Path(Regs, Fresh(current_hart, Any, 0, u), routine, Fresh(current_hart, Any, 0, FALSE))
  PROVE  RegistersInv'
<1>1. /\ UNCHANGED <<dmvars, current_hart, words, saved, kept, phase>> /\ todo' = routine
      /\ phase \in {"load", "run"} /\ calling' = TRUE
  BY DEF Calls, MayCall, locals
<1>2. PICK h, t : h = current_hart /\ t = Any  OBVIOUS
<1>3. t \in Terms  BY <1>2, TermTypes
<1>4. RegistersHold(Fresh(current_hart, t, 0, u))' /\ h \in Nat
  BY <1>1, <1>2, <1>3, CallHolds
<1>5. h = current_hart'  BY <1>1, <1>2
<1>6. RegistersHold(Fresh(h, t, 0, u))'  BY <1>4, <1>5
<1> DEFINE q == Fresh(h, t, 0, u)
<1>7. Untaken(q)
  <2>1. u \in BOOLEAN /\ 0 \in Nat  OBVIOUS
  <2> QED  BY <2>1, <1>3, <1>4, UntakenFresh
<1>8. Path(Regs, q, routine, q)  BY <1>2, Zenon
<1> HIDE DEF q
<1>9. Returned(q)'  BY <1>1, <1>7 DEF Returned, CsrSettled
<1>10. RegistersHold(q)' /\ Path(Regs, q, todo', q)  BY <1>1, <1>6, <1>8 DEF q
<1> QED  BY <1>1, <1>9, <1>10 DEF RegistersInv

\* What the program of modify_csr leaves, for a pc that is known.
LEMMA CsrLeaves ==
  ASSUME xlen = Xlen, NEW h \in Nat, h = current_hart, NEW p \in Value, NEW u \in BOOLEAN,
         NEW type \in {"WRITE", "SET", "CLEAR"}, NEW v \in Value,
         \A old \in Value : CsrUpdate(type, old, v) \in Value
  PROVE  \E e : /\ Path(Regs, Fresh(h, Is(p), 0, u), modify_csr(type, "dpc", v), e)
                /\ Untaken(e) /\ e.f.pc = Is(CsrUpdate(type, p, v)) /\ e.f.w0 = Is(p)
                /\ XWords = 2 => e.f.w1 = Is(p)
<1>1. PICK t : t = Is(p)  OBVIOUS
<1>2. t \in Terms /\ t[1] = "is" /\ t[2] = p  BY <1>1, TermTypes, ValueNat DEF Is
<1>3. u \in BOOLEAN /\ 0 \in Nat  OBVIOUS
<1>4. PICK g \in Facts, k \in Facts :
        /\ Path(Regs, Fresh(h, t, 0, u), modify_csr(type, "dpc", v),
                Rest(OutOfHand(k), Unknown, h))
        /\ Clean(k) /\ Whole(g.d0, g.d1) = Is(v)
        /\ g.pc = t /\ k.pc = NewPc(g, type)
        /\ k.w0 = t /\ k.w1 = (IF XWords = 2 THEN t ELSE Any)
  BY <1>2, <1>3, ModifyCsrRegs
<1>5. k.pc = Is(CsrUpdate(type, p, v))
  <2>1. Is(v)[1] = "is" /\ Is(v)[2] = v  BY DEF Is
  <2>2. CASE type = "WRITE"
    <3>1. CsrUpdate(type, p, v) = v  BY <2>2 DEF CsrUpdate
    <3>2. NewPc(g, type) = Is(v)  BY <2>1, <2>2, <1>4 DEF NewPc
    <3> QED  BY <3>1, <3>2, <1>4
  <2>3. CASE type # "WRITE"
    <3>1. NewPc(g, type) = Is(CsrUpdate(type, g.pc[2], Whole(g.d0, g.d1)[2]))
      BY <2>1, <2>3, <1>2, <1>4 DEF NewPc
    <3> QED  BY <3>1, <2>1, <1>2, <1>4
  <2> QED  BY <2>2, <2>3
<1> DEFINE f == OutOfHand(k)
           e == Rest(f, Unknown, h)
<1>6. f \in Facts /\ Clean(f)  BY <1>4, HandedOver
<1>7. f.pc = k.pc /\ f.w0 = Wiped(k.w0) /\ f.w1 = Wiped(k.w1)  BY DEF OutOfHand, Facts
<1>8. Wiped(t) = t  BY <1>2 DEF Wiped
<1> HIDE DEF f
<1>9. e \in Outlines  BY <1>6, UnknownType, AtType DEF Buffers
<1>10. /\ e.f = f /\ e.run = "no" /\ e.c = NoCommand /\ ~e.auto
  BY DEF Rest
<1>11. Path(Regs, Fresh(h, t, 0, u), modify_csr(type, "dpc", v), e)  BY <1>4 DEF f
<1>15. Path(Regs, Fresh(h, Is(p), 0, u), modify_csr(type, "dpc", v), e)  BY <1>1, <1>11, Zenon
<1> HIDE DEF e
<1>12. Untaken(e)  BY <1>6, <1>9, <1>10 DEF Untaken
<1>13. e.f.pc = Is(CsrUpdate(type, p, v))  BY <1>5, <1>7, <1>10
<1>14. e.f.w0 = Is(p) /\ (XWords = 2 => e.f.w1 = Is(p))
  BY <1>1, <1>4, <1>7, <1>8, <1>10
<1> QED  BY <1>12, <1>13, <1>14, <1>15

LEMMA CsrCallRegs ==
  ASSUME NEW r, RegistersHold(r), Untaken(r), current_hart \in Harts, xlen = Xlen,
         NEW type \in {"WRITE", "SET", "CLEAR"}, NEW v \in Value,
         \A old \in Value : CsrUpdate(type, old, v) \in Value, ModifyCsr(type, v)
  PROVE  RegistersInv'
<1>1. /\ UNCHANGED <<dmvars, current_hart, words, saved, kept, phase>>
      /\ todo' = modify_csr(type, "dpc", v) /\ calling' = TRUE /\ phase = "run"
      /\ csr' = [old |-> pc[current_hart], new |-> CsrUpdate(type, pc[current_hart], v)]
  BY DEF ModifyCsr, Calls, MayCall, locals
<1>2. PICK h, p, u : h = current_hart /\ p = pc[current_hart] /\ u = FALSE  OBVIOUS
<1>3. h \in Harts /\ h \in Nat /\ p \in Value
  BY <1>2, Constants DEF Harts, RegistersHold, ValueTypes
<1>4. PICK t : t = Is(p)  OBVIOUS
<1>5. t \in Terms  BY <1>3, <1>4, TermTypes, ValueNat
<1>6. RegistersHold(Fresh(current_hart, t, 0, u))'
  BY <1>1, <1>2, <1>4, <1>5, CallHolds
<1>7. h = current_hart'  BY <1>1, <1>2
<1>8. RegistersHold(Fresh(h, t, 0, u))'  BY <1>6, <1>7
<1> DEFINE q == Fresh(h, t, 0, u)
<1>9. PICK e : /\ Path(Regs, Fresh(h, Is(p), 0, u), modify_csr(type, "dpc", v), e)
               /\ Untaken(e) /\ e.f.pc = Is(CsrUpdate(type, p, v)) /\ e.f.w0 = Is(p)
               /\ XWords = 2 => e.f.w1 = Is(p)
  <2>1. h = current_hart /\ u \in BOOLEAN  BY <1>2
  <2> QED  BY <2>1, <1>3, CsrLeaves
<1>10. Path(Regs, q, modify_csr(type, "dpc", v), e)  BY <1>4, <1>9, Zenon
<1> HIDE DEF q
<1>11. csr'.old = p /\ csr'.new = CsrUpdate(type, p, v)  BY <1>1, <1>2
<1>12. CsrSettled(e)'  BY <1>3, <1>9, <1>11 DEF CsrSettled
<1>13. Returned(e)'  BY <1>1, <1>9, <1>12 DEF Returned
<1>14. RegistersHold(q)' /\ Path(Regs, q, todo', e)  BY <1>1, <1>8, <1>10 DEF q
<1> QED  BY <1>1, <1>13, <1>14 DEF RegistersInv

\* What a host that has settled knows.
LEMMA SettledFound ==
  ASSUME NEW f, ControlHolds(f), Settled(f)
  PROVE  xlen = Xlen /\ current_hart \in Harts /\ current_hart \in Nat
<1>1. f.cur = current_hart /\ (f.xl => xlen = Xlen)  BY ControlParts DEF FoundOK
<1>2. current_hart \in Harts /\ xlen = Xlen  BY <1>1 DEF Settled
<1> QED  BY <1>2 DEF Harts

\* A chunk call.
LEMMA ChunkCallRegs ==
  ASSUME NEW r, RegistersHold(r), Untaken(r), xlen = Xlen, current_hart \in Nat, csr = NoRead,
         NEW c \in Chunks,
         \/ ReadChunk(c[1], c[2]) \/ ClearChunk(c[1], c[2])
         \/ \E ws \in [1..c[2] -> Chunked] : WriteChunk(c[1], ws)
  PROVE  RegistersInv'
<1>1. c[1] \in Nat /\ c[2] \in Nat \ {0}
  <2>1. c[1] \in Value /\ c[2] \in 1..MaxLen  BY DEF Chunks
  <2>2. MaxLen \in Nat  BY DtmConstants
  <2>3. c[1] \in Nat  BY <2>1, ValueNat
  <2> QED  BY <2>1, <2>2, <2>3
<1>2. PICK u, t, n : u = FALSE /\ t = Any /\ n = 0  OBVIOUS
<1>3. u \in BOOLEAN /\ t \in Terms /\ n \in Nat  BY <1>2, TermTypes
<1>4. ASSUME NEW routine, Calls(routine), csr' = csr,
             Path(Regs, Fresh(current_hart, t, n, u), routine, Fresh(current_hart, Any, 0, FALSE))
      PROVE  RegistersInv'
  <2>1. Path(Regs, Fresh(current_hart, Any, 0, u), routine, Fresh(current_hart, Any, 0, FALSE))
    BY <1>2, <1>4, Zenon
  <2> QED  BY <1>2, <1>4, <2>1, ChunkRegs
<1>5. CASE ReadChunk(c[1], c[2])
  <2>1. Path(Regs, Fresh(current_hart, t, n, u), read_chunk(c[1], c[2]),
             Fresh(current_hart, Any, 0, FALSE))
    BY <1>1, <1>3, ReadChunkRegs
  <2>2. Calls(read_chunk(c[1], c[2])) /\ csr' = csr  BY <1>5 DEF ReadChunk
  <2> QED  BY <1>4, <2>1, <2>2
<1>6. CASE ClearChunk(c[1], c[2])
  <2>1. Path(Regs, Fresh(current_hart, t, n, u), clear_chunk(c[1], c[2]),
             Fresh(current_hart, Any, 0, FALSE))
    BY <1>1, <1>3, ClearChunkRegs
  <2>2. Calls(clear_chunk(c[1], c[2])) /\ csr' = csr  BY <1>6 DEF ClearChunk
  <2> QED  BY <1>4, <2>1, <2>2
<1>7. CASE \E ws \in [1..c[2] -> Chunked] : WriteChunk(c[1], ws)
  <2>1. PICK ws \in [1..c[2] -> Chunked] : WriteChunk(c[1], ws)  BY <1>7
  <2>2. ws \in Seq(Nat) /\ ws # <<>>
    <3>1. Chunked \subseteq Nat  BY ValueNat, DtmConstants
    <3>2. PICK m \in Nat \ {0} : m = c[2]  BY <1>1
    <3>3. ws \in [1..m -> Nat]  BY <3>1, <3>2
    <3>4. ws \in Seq(Nat) /\ Len(ws) = m  BY <3>3
    <3> QED  BY <3>2, <3>4
  <2>3. Path(Regs, Fresh(current_hart, t, n, u), write_chunk(c[1], ws),
             Fresh(current_hart, Any, 0, FALSE))
    BY <1>1, <1>3, <2>2, WriteChunkRegs
  <2>4. Calls(write_chunk(c[1], ws)) /\ csr' = csr  BY <2>1 DEF WriteChunk
  <2> QED  BY <1>4, <2>3, <2>4
<1> QED  BY <1>5, <1>6, <1>7

\* reset().
LEMMA ResetRegs ==
  ASSUME NEW r, RegistersHold(r), Untaken(r), csr = NoRead, Reset
  PROVE  RegistersInv'
<1>1. /\ UNCHANGED <<dmvars, current_hart, words, saved, kept, csr, calling>>
      /\ todo' = << <<"reset", 0>> >> /\ phase' = "reset" /\ ~calling
  BY DEF Reset, Idle, locals, history
<1>2. PICK h, t, n, u : h = current_hart /\ t = Any /\ n = 0 /\ u = FALSE  OBVIOUS
<1>3. t \in Terms /\ u \in BOOLEAN /\ 0 \in 0..NHarts /\ 0 \in Nat /\ NHarts \in Nat
  <2>1. t \in Terms /\ u \in BOOLEAN  BY <1>2, TermTypes
  <2>2. NHarts \in Nat  BY Constants
  <2> QED  BY <2>1, <2>2
<1>4. RegistersHold(Fresh(current_hart, t, 0, u))'
  BY <1>1, <1>2, <1>3, CallHolds
<1>5. h = current_hart'  BY <1>1, <1>2
<1>6. RegistersHold(Fresh(h, t, 0, u))'  BY <1>4, <1>5
<1> DEFINE x == <<"reset", 0>>
           q == Fresh(h, t, 0, u)
           e == Fresh(0, t, NHarts, u)
<1>7. x[1] = "reset" /\ x[2] = 0  OBVIOUS
<1>8. <<x>> = << <<"reset", 0>> >>  OBVIOUS
<1> HIDE DEF x
<1>9. May(Regs, q, x) /\ After(Regs, q, x) = Fresh(0, Any, NHarts, FALSE)
  BY <1>3, <1>7, ResetMay
<1>10. Fresh(0, Any, NHarts, FALSE) = e  BY <1>2, Zenon
<1>11. Untaken(e) /\ e.f.ready = NHarts
  <2>1. Untaken(e)  BY <1>3, UntakenFresh
  <2>2. e.f.ready = NHarts  BY FreshFields
  <2> QED  BY <2>1, <2>2
<1> HIDE DEF q, e
<1>12. Path(Regs, q, <<x>>, e)  BY <1>9, <1>10, PathOne
<1>13. Returned(e)'  BY <1>1, <1>11 DEF Returned, CsrSettled
<1>14. RegistersHold(q)' /\ Path(Regs, q, todo', e)  BY <1>1, <1>6, <1>8, <1>12 DEF q
<1> QED  BY <1>1, <1>13, <1>14 DEF RegistersInv

\* What the accesses do not touch.
LEMMA AccessesKeep ==
  ASSUME \/ SwitchDmcontrol \/ WriteHartsel \/ ReadDmcontrol \/ Poll \/ SetHart
         \/ WriteRegister \/ ReadData \/ Save \/ Copy \/ Succeeds \/ die
         \/ FindXlen \/ TryNextXlen \/ ReadMaxHart \/ FindHart \/ CountHarts \/ Enter
  PROVE  todo # <<>> /\ UNCHANGED <<phase, calling, csr>>
<1>1. todo # <<>> /\ UNCHANGED control  BY Pending
<1>2. UNCHANGED history
  BY DEF SwitchDmcontrol, WriteHartsel, WriteDmcontrol, ReadDmcontrol, Poll, SetHart,
         WriteRegister, ReadData, Save, Copy, Succeeds, die, FindXlen, TryNextXlen,
         ReadMaxHart, FindHart, CountHarts, Enter
<1> QED  BY <1>1, <1>2 DEF control, history

LEMMA RegistersNext ==
  ASSUME ControlInv, RegistersInv, [Next]_vars
  PROVE  RegistersInv'
<1>1. PICK a, f : ControlHolds(a) /\ Path("control", a, todo, f) /\ Settled(f)
  BY DEF ControlInv
<1>2. PICK r, e : RegistersHold(r) /\ Path(Regs, r, todo, e) /\ Returned(e)
  BY DEF RegistersInv
<1>3. ~calling => csr = NoRead  BY DEF RegistersInv
<1>4. ASSUME todo # <<>> PROVE MayControl(a, todo[1]) /\ MayRegisters(r, todo[1])
  <2>1. May("control", a, todo[1]) /\ May(Regs, r, todo[1])  BY <1>1, <1>2, <1>4, PathHead
  <2> QED  BY <2>1 DEF May, Regs
<1>5. ASSUME todo = <<>> PROVE r = e /\ a = f  BY <1>1, <1>2, <1>5, PathNone
\* The host goes on.
<1>6. ASSUME NEW q, RegistersHold(q)', Path(Regs, q, todo', e), UNCHANGED <<phase, calling, csr>>
      PROVE  RegistersInv'
  <2>1. Returned(e)'  BY <1>2, <1>6 DEF Returned, CsrSettled
  <2> QED  BY <1>3, <1>6, <2>1 DEF RegistersInv
<1>7. CASE \/ SwitchDmcontrol \/ WriteHartsel \/ ReadDmcontrol \/ Poll \/ SetHart
           \/ WriteRegister \/ ReadData \/ Save \/ Copy \/ Succeeds \/ die
           \/ FindXlen \/ CountHarts
  <2>1. todo # <<>> /\ UNCHANGED <<phase, calling, csr>>  BY <1>7, AccessesKeep
  <2>2. \E q : RegistersHold(q)' /\ Path(Regs, q, todo', e)
    BY <1>1, <1>2, <1>4, <1>7, <2>1, AccessOnward
  <2> QED  BY <1>6, <2>1, <2>2
<1>8. CASE Enter \/ TryNextXlen \/ ReadMaxHart \/ FindHart
  <2>1. todo # <<>> /\ UNCHANGED <<phase, calling, csr>>  BY <1>8, AccessesKeep
  <2>2. RegistersHold(r)' /\ Path(Regs, r, todo', e)
    BY <1>1, <1>2, <1>4, <1>8, <2>1, ExpandRegs
  <2> QED  BY <1>6, <2>1, <2>2
\* Between two calls.
<1>9. ASSUME todo = <<>>, UNCHANGED <<todo, dmvars, current_hart, words, saved, kept>>,
             (~calling => csr = NoRead)', phase' # "reset", csr' \in {csr, NoRead}
      PROVE  RegistersInv'
  <2>1. dmvars' = dmvars /\ UNCHANGED <<current_hart, words, saved, kept>>  BY <1>9
  <2>2. RegistersHold(r)'  BY <1>2, <2>1, HostSame
  <2>3. Returned(e)'  BY <1>2, <1>9 DEF Returned, CsrSettled
  <2>4. Path(Regs, r, todo', e)  BY <1>2, <1>9
  <2> QED  BY <1>9, <2>2, <2>3, <2>4 DEF RegistersInv
<1>10. CASE Return /\ phase # "reset"
  <2>1. /\ todo = <<>> /\ UNCHANGED <<todo, dmvars, current_hart, words, saved, kept, phase>>
        /\ csr' = NoRead
    BY <1>10 DEF Return
  <2> QED  BY <1>9, <1>10, <2>1
<1>11. CASE Return /\ phase = "reset"
  <2>1. /\ todo = <<>> /\ UNCHANGED <<todo, dmvars, current_hart, words, saved, kept, phase>>
        /\ csr' = NoRead
    BY <1>11 DEF Return
  <2>2. dmvars' = dmvars /\ UNCHANGED <<current_hart, words, saved, kept>>  BY <2>1
  <2>3. RegistersHold(r)'  BY <1>2, <2>2, HostSame
  <2>4. Returned(e)'  BY <1>2, <2>1 DEF Returned, CsrSettled
  <2>5. Path(Regs, r, todo', e)  BY <1>2, <2>1
  <2> QED  BY <2>1, <2>3, <2>4, <2>5 DEF RegistersInv
<1>12. CASE ProbeEnds
  <2>1. /\ todo = <<>> /\ UNCHANGED <<todo, dmvars, current_hart, words, saved, kept, csr, calling>>
        /\ phase' = "load"
    BY <1>12 DEF ProbeEnds, Idle, locals, history
  <2> QED  BY <1>3, <1>9, <2>1
<1>13. CASE ResetEnds
  <2>1. /\ todo = <<>> /\ UNCHANGED <<todo, dmvars, current_hart, words, saved, kept, csr, calling>>
        /\ phase' = "run"
    BY <1>13 DEF ResetEnds, Idle, locals, history
  <2> QED  BY <1>3, <1>9, <2>1
\* The calls.
<1>14. ASSUME todo = <<>>
       PROVE  /\ RegistersHold(r) /\ Untaken(r)
              /\ xlen = Xlen /\ current_hart \in Harts /\ current_hart \in Nat
  BY <1>1, <1>2, <1>5, <1>14, SettledFound DEF Returned
<1>15. CASE Reset
  <2>1. todo = <<>> /\ ~calling  BY <1>15 DEF Reset, Idle
  <2> QED  BY <1>3, <1>14, <1>15, <2>1, ResetRegs
<1>16. CASE \E c \in Chunks :
              \/ ReadChunk(c[1], c[2]) \/ ClearChunk(c[1], c[2])
              \/ \E ws \in [1..c[2] -> Chunked] : WriteChunk(c[1], ws)
  <2>1. PICK c \in Chunks :
              \/ ReadChunk(c[1], c[2]) \/ ClearChunk(c[1], c[2])
              \/ \E ws \in [1..c[2] -> Chunked] : WriteChunk(c[1], ws)
    BY <1>16
  <2>2. todo = <<>> /\ ~calling
    BY <2>1 DEF ReadChunk, ClearChunk, WriteChunk, Calls, MayCall, Idle
  <2> QED  BY <1>3, <1>14, <2>1, <2>2, ChunkCallRegs
<1>17. CASE \E c \in CsrCalls : ModifyCsr(c[1], c[2])
  <2>1. PICK c \in CsrCalls : ModifyCsr(c[1], c[2])  BY <1>17
  <2>2. todo = <<>>  BY <2>1 DEF ModifyCsr, Calls, MayCall, Idle
  <2>3. /\ c[1] \in {"WRITE", "SET", "CLEAR"} /\ c[2] \in Value
        /\ \A old \in Value : CsrUpdate(c[1], old, c[2]) \in Value
    BY DtmConstants
  <2> QED  BY <1>14, <2>1, <2>2, <2>3, CsrCallRegs
\* The target.
<1>18. ASSUME RegistersHold(r)', UNCHANGED <<todo, phase, calling, csr>>
       PROVE  RegistersInv'
  <2>1. Path(Regs, r, todo', e)  BY <1>2, <1>18
  <2> QED  BY <1>6, <1>18, <2>1
<1>19. CASE ModuleSteps
  <2>1. RegistersHold(r)'  BY <1>2, <1>19, ModuleRegs
  <2> QED  BY <2>1, <1>18, <1>19 DEF ModuleSteps, hostvars, control
<1>20. CASE HartsStep
  <2>1. RegistersHold(r)'  BY <1>2, <1>20, HartsStepRegs
  <2> QED  BY <2>1, <1>18, <1>20 DEF HartsStep, hostvars, control, history
<1>21. CASE \E h \in Harts : (\E b \in Addrs, v \in Chunked : ProgramStores(h, b, v)) \/ ProgramSwaps(h)
  <2>1. RegistersHold(r)'  BY <1>2, <1>21, StoresRegs, SwapsRegs
  <2>2. UNCHANGED <<todo, phase, calling, csr>>
    BY <1>21 DEF ProgramStores, ProgramSwaps, OnHart, hostvars, control
  <2> QED  BY <2>1, <2>2, <1>18
<1>22. CASE UNCHANGED vars
  <2>1. dmvars' = dmvars /\ UNCHANGED <<current_hart, words, saved, kept>>
    BY <1>22 DEF vars, locals, history
  <2>2. RegistersHold(r)'  BY <1>2, <2>1, HostSame
  <2> QED  BY <2>2, <1>18, <1>22 DEF vars, control, history
<1>23. CASE Nop  BY <1>22, <1>23 DEF Nop
<1> QED
  BY <1>7, <1>8, <1>10, <1>11, <1>12, <1>13, <1>15, <1>16, <1>17, <1>19, <1>20, <1>21, <1>22,
     <1>23 DEF Next, Host, Asks, Target

\* Whatever dtm_t still has to do (todo) brings S0, S1, dscratch and dpc to what they
\* should be: what a routine has taken from a hart, it still holds, and puts back.
THEOREM RegistersTheorem == Spec => [](ControlInv /\ RegistersInv)
<1>1. Init => ControlInv /\ RegistersInv  BY ControlInit, RegistersInit
<1>2. (ControlInv /\ RegistersInv) /\ [Next]_vars => (ControlInv /\ RegistersInv)'
  BY ControlNext, RegistersNext
<1> QED  BY <1>1, <1>2, PTL DEF Spec

\* A hart that runs has its own S0 and S1: halt() and resume() enclose every use.
LEMMA KeptThen ==
  ASSUME RegistersInv
  PROVE  RegistersKept
<1>1. PICK r : RegistersHold(r)  BY DEF RegistersInv
<1> SUFFICES ASSUME NEW h \in Harts \ halted PROVE <<s0[h], s1[h]>> = kept[h]
  BY DEF RegistersKept
<1>2. kept[h] \in Value \X Value  BY <1>1 DEF RegistersHold, ValueTypes
<1>3. s0[h] = kept[h][1] /\ s1[h] = kept[h][2]
  <2>1. CASE h # hartsel  BY <1>1, <2>1 DEF RegistersHold, HandHolds
  <2>2. CASE h = hartsel
    <3>1. r.run = "no" /\ Clean(r.f)  BY <1>1, <2>2 DEF RegistersHold, HandHolds
    <3>2. FactsHold(r.f)  BY <1>1, <3>1 DEF RegistersHold, RunHolds
    <3>3. Says(Kept(1), s0[hartsel]) /\ Says(Kept(2), s1[hartsel])
      BY <2>2, <3>1, <3>2 DEF FactsHold, Clean
    <3> QED  BY <2>2, <3>3 DEF Says, ValueOf, Kept
  <2> QED  BY <2>1, <2>2
<1> QED  BY <1>2, <1>3

\* What a csr call has read and left when it returns.
LEMMA ModifiedThen ==
  ASSUME RegistersInv, ControlInv
  PROVE  CsrModified
<1> SUFFICES ASSUME todo = <<>>, csr # NoRead
             PROVE  DataValue(words) = csr.old /\ pc[current_hart] = csr.new
  BY DEF CsrModified
<1>1. PICK r, e : RegistersHold(r) /\ Path(Regs, r, todo, e) /\ Returned(e)
  BY DEF RegistersInv
<1>2. r = e  BY <1>1, PathNone
<1>3. FactsHold(r.f)  BY <1>1, <1>2 DEF Returned, Untaken, RegistersHold, RunHolds
<1>4. csr.old \in Value /\ r.f.pc = Is(csr.new) /\ r.f.w0 = Is(csr.old)
      /\ (XWords = 2 => r.f.w1 = Is(csr.old))
  BY <1>1, <1>2 DEF Returned, CsrSettled
<1>5. current_hart \in Harts
  <2>1. PICK a, f : ControlHolds(a) /\ Path("control", a, todo, f) /\ Settled(f)
    BY DEF ControlInv
  <2>2. a = f  BY <2>1, PathNone
  <2> QED  BY <2>1, <2>2, SettledFound
<1>6. \A x, i, w : SaysWord(Is(x), i, w) <=> w = Nthword(x, i)
  BY DEF SaysWord, ValueOf, Is
<1>7. words[0] = Nthword(csr.old, 0) /\ (XWords = 2 => words[1] = Nthword(csr.old, 1))
  BY <1>3, <1>4, <1>6 DEF FactsHold
<1>8. Says(Is(csr.new), pc[current_hart])  BY <1>3, <1>4, <1>5 DEF FactsHold
<1>9. pc[current_hart] = csr.new  BY <1>8 DEF Says, ValueOf, Is
<1> QED  BY <1>4, <1>7, <1>9, WordsOf

\* The calls of dtm_t leave harts and debug module as they found them, and the csr
\* calls return the old value and leave the new one, whatever fails half-way: every
\* routine of dtm.cc saves S0 and S1 first, restores them last, and stays on the hart.
THEOREM CallsSoundTheorem == Spec => []CallsSound
<1>1. RegistersInv => RegistersKept  BY KeptThen
<1>2. RegistersInv /\ ControlInv => CsrModified  BY ModifiedThen
<1> QED
  BY <1>1, <1>2, RegistersTheorem, TargetLeftRunningTheorem, ProbeFindsTheorem, PTL
     DEF CallsSound

\* After reset(), every hart stands at the entry point, runs, and has executed a
\* fence.i since the program was loaded, also the last one.
THEOREM ProgramStartsTheorem == Spec => ProgramStarts
<1>1. ASSUME ControlInv, RegistersInv, [Next]_vars, phase = "reset", phase' = "run"
      PROVE  \A h \in Harts : pc[h] = Entry /\ h \notin stale /\ h \notin halted
  <2>1. ResetEnds
    <3>1. ASSUME \/ SwitchDmcontrol \/ WriteHartsel \/ ReadDmcontrol \/ Poll \/ SetHart
                 \/ WriteRegister \/ ReadData \/ Save \/ Copy \/ Succeeds \/ die
                 \/ FindXlen \/ TryNextXlen \/ ReadMaxHart \/ FindHart \/ CountHarts \/ Enter
          PROVE  phase' = phase
      BY <3>1, AccessesKeep
    <3>2. Host => phase' = phase \/ ProbeEnds \/ ResetEnds
      BY <3>1 DEF Host, Return
    <3>3. Asks => phase' = phase \/ Reset
      BY DEF Asks, ReadChunk, ClearChunk, WriteChunk, ModifyCsr, Calls, Nop, vars, control
    <3>4. Target => phase' = phase
      BY DEF Target, ModuleSteps, HartsStep, ProgramStores, ProgramSwaps, OnHart, hostvars, control
    <3>5. ~Reset /\ ~ProbeEnds  BY <1>1 DEF Reset, ProbeEnds
    <3> QED  BY <1>1, <3>2, <3>3, <3>4, <3>5 DEF Next, vars, control
  <2>2. todo = <<>>  BY <2>1 DEF ResetEnds, Idle
  <2>3. PICK r, e : RegistersHold(r) /\ Path(Regs, r, todo, e) /\ Returned(e)
    BY <1>1 DEF RegistersInv
  <2>4. r = e  BY <2>2, <2>3, PathNone
  <2>5. FactsHold(r.f) /\ r.f.ready = NHarts
    BY <1>1, <2>3, <2>4 DEF Returned, Untaken, RegistersHold, RunHolds
  <2>6. PICK a, f : ControlHolds(a) /\ Path("control", a, todo, f) /\ Settled(f)
    BY <1>1 DEF ControlInv
  <2>7. a = f  BY <2>2, <2>6, PathNone
  <2>8. halted = {}  BY <2>6, <2>7, ControlParts DEF Settled, Free, StageOK
  <2>9. \A h \in Harts : h < NHarts  BY Constants DEF Harts
  <2> QED  BY <2>5, <2>8, <2>9 DEF FactsHold
<1>2. (ControlInv /\ RegistersInv) /\ [Next]_vars =>
        [phase = "reset" /\ phase' = "run" =>
           \A h \in Harts : pc[h] = Entry /\ h \notin stale /\ h \notin halted]_vars
  BY <1>1
<1> QED  BY <1>2, RegistersTheorem, PTL DEF Spec, ProgramStarts

===============================================================================
