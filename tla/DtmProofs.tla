------------------------------- MODULE DtmProofs -------------------------------
(***************************************************************************)
(* Proofs about Dtm.  What the host can rely on before an access is        *)
(* recorded in an outline; each access, and each routine, needs            *)
(* one and leads to another.  The accesses that are left (todo) lead from  *)
(* an outline that holds now to one that is good for a host that is idle.  *)
(***************************************************************************)
EXTENDS Dtm, DtmTick, TLAPS

-------------------------------------------------------------------------------
(* Outlines of the control: who is halted, what the debug module does.      *)

\* The hart that hartsel ends at when the harts are counted.
LastSel == IF NHarts <= MaxHartsel THEN NHarts ELSE MaxHartsel

Free(a) == a.st = "free" /\ ~a.dc /\ a.e = "ok" /\ ~a.auto /\ a.t = 0
Held(a) == a.st = "held" /\ ~a.dc /\ a.h = a.cur
Ready(a) == Held(a) /\ a.e = "ok" /\ ~a.auto /\ a.t = 0

\* What an access or a routine needs.
MayDmcontrol(a, d) ==
  /\ d.hartsel \in 0..MaxHartsel /\ d.dmactive \in BOOLEAN
  /\ d.haltreq => Free(a) /\ a.on /\ d.dmactive /\ d.hartsel \in Harts /\ ~d.resumereq
  /\ d.resumereq => Ready(a) /\ d.dmactive /\ d.hartsel = a.h /\ ~d.haltreq
  /\ ~d.haltreq /\ ~d.resumereq =>
       Free(a) \/ (a.st = "halted" /\ d.dmactive /\ d.hartsel = a.h)

MayControl(a, x) ==
  /\ x[1] = "dmcontrol" => MayDmcontrol(a, x[2])
  /\ x[1] = "dmstatus" => a.e # "run"
  /\ x[1] = "allhalted" => a.st = "halting"
  /\ x[1] = "allresumeack" => a.st = "resuming"
  /\ x[1] \in {"progbuf", "data", "auto", "more_words"} =>
       Held(a) /\ a.e = "ok" /\ a.t = 0
  /\ x[1] = "more_words" => a.auto
  /\ x[1] \in {"read_words", "more_words"} => a.running
  /\ x[1] = "auto" => x[2] \in BOOLEAN
  /\ x[1] = "command" => x[2].size \in Nat /\ x[2].postexec \in BOOLEAN
  /\ x[1] = "hart" => x[2] \in 0..MaxHartsel
  /\ x[1] \in {"saved", "save", "command", "read_words", "get_xlen"} => Ready(a)
  /\ x[1] = "abstractcs" => Held(a) /\ a.e = "run"
  /\ x[1] = "readData" => Held(a) /\ a.e # "run" /\ ~a.auto
  /\ x[1] = "check" => Held(a) /\ a.e = "seen"
  /\ x[1] = "xlen" => /\ Held(a) /\ a.e = "seen" /\ ~a.auto
                      /\ a.t = x[2] /\ x[2] \in {32, 64, 128} /\ x[2] >= Xlen
  /\ x[1] \in {"readDmcontrol", "select_hart"} => Free(a)
  /\ x[1] = "writeHartsel" => a.dc /\ x[2] \in Nat
  /\ x[1] = "select_hart" => x[2] \in 0..MaxHartsel
  /\ x[1] = "maxHart" => Free(a) /\ a.on /\ a.h = MaxHartsel
  /\ x[1] = "exists" => /\ Free(a) /\ a.on /\ a.mx /\ a.h = x[2] /\ a.cur = x[2]
                        /\ x[2] \in 0..LastSel
  /\ x[1] = "enumerate_harts" => Free(a) /\ a.on
  /\ x[1] = "halt" => Free(a) /\ (a.on \/ a.running) /\ x[2] \in Harts
  /\ x[1] = "resume" => Ready(a) /\ x[2] = a.h
  /\ x[1] \in {"fence_i", "write_csr"} => Free(a) /\ a.running /\ a.cur \in Harts
  /\ x[1] = "reset" => Free(a) /\ a.running /\ x[2] \in 0..NHarts

\* What it leads to.
AfterDmcontrol(a, d) ==
  IF d.haltreq THEN [a EXCEPT !.st = "halting", !.h = d.hartsel]
  ELSE IF d.resumereq THEN [a EXCEPT !.st = "resuming"]
  ELSE IF a.st = "halted" THEN [a EXCEPT !.st = "held"]
  ELSE [a EXCEPT !.on = d.dmactive,
                 !.h = IF a.on /\ d.dmactive THEN d.hartsel ELSE 0]

AfterControl(a, x) ==
  CASE x[1] = "dmcontrol" -> AfterDmcontrol(a, x[2])
    [] x[1] = "allhalted" -> [a EXCEPT !.st = "halted"]
    [] x[1] = "allresumeack" -> [a EXCEPT !.st = "free"]
    [] x[1] = "hart" -> [a EXCEPT !.cur = x[2]]
    [] x[1] = "data" -> IF x[2] = 0 /\ a.auto THEN [a EXCEPT !.e = "run"] ELSE a
    [] x[1] = "command" ->
         [a EXCEPT !.e = "run", !.t = IF x[2].postexec THEN 0 ELSE x[2].size]
    [] x[1] = "abstractcs" -> [a EXCEPT !.e = "seen"]
    [] x[1] = "check" -> [a EXCEPT !.e = "ok", !.t = 0]
    [] x[1] = "xlen" -> [a EXCEPT !.e = "ok", !.t = 0, !.xl = TRUE]
    [] x[1] = "auto" -> [a EXCEPT !.auto = x[2]]
    [] x[1] = "readDmcontrol" -> [a EXCEPT !.dc = TRUE]
    [] x[1] = "writeHartsel" ->
         [a EXCEPT !.dc = FALSE, !.h = IF a.on THEN x[2] % (MaxHartsel + 1) ELSE 0]
    [] x[1] \in {"maxHart", "exists", "enumerate_harts"} ->
         [a EXCEPT !.h = LastSel, !.cur = LastSel, !.num = TRUE, !.mx = TRUE]
    [] x[1] = "halt" -> [a EXCEPT !.st = "held", !.on = TRUE, !.h = x[2], !.cur = x[2]]
    [] x[1] = "get_xlen" -> [a EXCEPT !.xl = TRUE]
    [] x[1] = "resume" -> [a EXCEPT !.st = "free", !.cur = x[2], !.on = ~a.running,
                                    !.h = IF a.running THEN 0 ELSE x[2]]
    [] x[1] = "select_hart" -> [a EXCEPT !.cur = x[2], !.h = IF a.on THEN x[2] ELSE 0]
    [] x[1] \in {"fence_i", "write_csr"} -> [a EXCEPT !.on = FALSE, !.h = 0]
    [] x[1] = "reset" ->
         [a EXCEPT !.cur = 0, !.on = IF x[2] < NHarts THEN FALSE ELSE a.on, !.h = 0]
    [] OTHER -> a

-------------------------------------------------------------------------------
(* Outlines of the registers of the hart in hand.  A term says what one of   *)
(* them holds: what the hart's program left in S0 or S1, or a value.         *)

Any == <<"any">>
Kept(j) == <<"kept", j>>
Is(x) == <<"is", x>>
Terms == {Any, Kept(1), Kept(2)} \cup {Is(x) : x \in Nat}

\* v0 and v1 are saved, d0 and d1 the data registers, w0 and w1 words, ds is dscratch
\* and pc that of the current hart; the harts below ready are in the program, and
\* the current one has fenced.
Facts == [s0 : Terms, s1 : Terms, v0 : Terms, v1 : Terms, d0 : Terms, d1 : Terms,
          w0 : Terms, w1 : Terms, ds : Terms, pc : Terms, ready : Nat, fenced : BOOLEAN]

MemoryInstructions ==
  {<<"LOAD s1">>, <<"STORE s1">>, <<"STORE x0">>, <<"ADDI s0">>, <<"BNE">>}
Instructions ==
  {Any} \cup MemoryInstructions
  \cup {<<"EBREAK">>, <<"FENCE_I">>, <<"CSRRW dscratch">>, <<"LOAD data">>, <<"STORE data">>}
  \cup {<<"CSRR", type, "dpc">> : type \in {"WRITE", "SET", "CLEAR"}}
Unknown == [i \in 0..5 |-> Any]
CommandType == [transfer : BOOLEAN, write : BOOLEAN, postexec : BOOLEAN, size : Nat,
                regno : {"s0", "s1", "x0"}]

\* run: no command, the command c, or some command that autoexec repeats.
Outlines == [f : Facts, prog : [0..5 -> Instructions], run : {"no", "this", "some"},
             c : CommandType, auto : BOOLEAN, cur : Nat]

Clean(f) == f.s0 = Kept(1) /\ f.s1 = Kept(2)
NoneKept(f) == \A t \in {f.v0, f.v1, f.d0, f.d1, f.w0, f.w1, f.ds} : t[1] # "kept"

\* What is known when the hart may run again, when another is selected, and after a
\* program that loads and stores.
Wiped(t) == IF t[1] = "kept" THEN Any ELSE t
OutOfHand(f) == [f EXCEPT !.v0 = Any, !.v1 = Any, !.d0 = Any, !.d1 = Any, !.ds = Any,
                          !.w0 = Wiped(f.w0), !.w1 = Wiped(f.w1)]
Elsewhere(f) == [OutOfHand(f) EXCEPT !.pc = Any, !.fenced = FALSE]
Forgotten(f) == [f EXCEPT !.s0 = Any, !.s1 = Any, !.d0 = Any, !.d1 = Any, !.ds = Any,
                          !.pc = Any, !.ready = 0, !.fenced = FALSE]

\* The value whose two words are those of t0 and t1.
Whole(t0, t1) ==
  IF (XWords = 1 \/ t0 = t1) /\ (t0[1] = "is" => t0[2] \in Value) THEN t0 ELSE Any

\* After the transfer of a command.
Moved(f, c) ==
  IF c.write THEN
    IF c.regno = "s0" THEN [f EXCEPT !.s0 = Whole(f.d0, f.d1)]
    ELSE IF c.regno = "s1" THEN [f EXCEPT !.s1 = Whole(f.d0, f.d1)] ELSE f
  ELSE
    IF c.size # Xlen THEN [f EXCEPT !.d0 = Any, !.d1 = Any]
    ELSE IF c.regno = "s0" THEN [f EXCEPT !.d0 = f.s0, !.d1 = f.s0]
    ELSE [f EXCEPT !.d0 = f.s1, !.d1 = f.s1]

\* In the program of modify_csr.
NewPc(f, type) ==
  IF Whole(f.d0, f.d1)[1] # "is" THEN Any
  ELSE IF type = "WRITE" THEN Whole(f.d0, f.d1)
  ELSE IF f.pc[1] = "is" /\ f.pc[2] \in Value
    THEN Is(CsrUpdate(type, f.pc[2], Whole(f.d0, f.d1)[2])) ELSE Any

NewReady(f, h, type) ==
  IF NewPc(f, type) = Is(Entry) /\ f.fenced /\ f.ready = h THEN f.ready + 1 ELSE 0

CsrMid(f, h, type, i) ==
  IF i = 0 THEN f
  ELSE IF i = 1 THEN [f EXCEPT !.s0 = Any, !.ds = f.s0]
  ELSE IF i = 2 THEN [f EXCEPT !.s0 = Whole(f.d0, f.d1), !.ds = f.s0]
  ELSE IF i = 3 THEN [f EXCEPT !.s0 = f.pc, !.ds = f.s0, !.pc = NewPc(f, type),
                               !.ready = NewReady(f, h, type)]
  ELSE IF i = 4 THEN [f EXCEPT !.s0 = f.pc, !.ds = f.s0, !.pc = NewPc(f, type),
                               !.ready = NewReady(f, h, type), !.d0 = f.pc, !.d1 = f.pc]
  ELSE [f EXCEPT !.ds = Any, !.pc = NewPc(f, type),
                 !.ready = NewReady(f, h, type), !.d0 = f.pc, !.d1 = f.pc]

\* The programs of dtm_t.
EndsAt(p, n) == p[n] = <<"EBREAK">> /\ \A i \in 0..n - 1 : p[i] \in MemoryInstructions
MemoryProgram(p) == \E n \in 0..5 : EndsAt(p, n)
CsrProgram(p) ==
  /\ p[0] = <<"CSRRW dscratch">> /\ p[1] = <<"LOAD data">>
  /\ p[2] = <<"CSRR", p[2][2], "dpc">> /\ p[3] = <<"STORE data">>
  /\ p[4] = <<"CSRRW dscratch">> /\ p[5] = <<"EBREAK">>
FenceProgram(p) == p[0] = <<"FENCE_I">> /\ p[1] = <<"EBREAK">>

CsrFits(f, type) ==
  /\ Whole(f.d0, f.d1)[1] = "is"
  /\ \A old \in Value : CsrUpdate(type, old, Whole(f.d0, f.d1)[2]) \in Value

\* After the program.
Executed(f, prog, h) ==
  IF MemoryProgram(prog) THEN Forgotten(f)
  ELSE IF CsrProgram(prog) THEN CsrMid(f, h, prog[2][2], 5)
  ELSE [f EXCEPT !.fenced = TRUE]

Done(r) ==
  IF r.run = "some" THEN Forgotten(r.f)
  ELSE IF r.c.postexec THEN Executed(r.f, r.prog, r.cur) ELSE Moved(r.f, r.c)

LetGo(r) == [r EXCEPT !.f = OutOfHand(r.f), !.prog = Unknown]
ChangeTo(r, h) ==
  [r EXCEPT !.cur = h,
            !.f = IF h = r.cur THEN r.f ELSE [r.f EXCEPT !.pc = Any, !.fenced = FALSE]]
Put(f, i, t) == IF i = 0 THEN [f EXCEPT !.d0 = t] ELSE [f EXCEPT !.d1 = t]
Taken(f, i) == IF i = 0 THEN [f EXCEPT !.w0 = f.d0] ELSE [f EXCEPT !.w1 = f.d1]
Saved(f, x) == IF x = "s0" THEN [f EXCEPT !.v0 = Whole(f.w0, f.w1)]
                               ELSE [f EXCEPT !.v1 = Whole(f.w0, f.w1)]
NoData(f) == [f EXCEPT !.d0 = Any, !.d1 = Any]
Looped(f) == [f EXCEPT !.w0 = Any, !.w1 = IF XWords = 2 THEN Any ELSE f.w1]

\* Of a hart that nothing is known of but its S0 and S1.
Fresh(h, t, n, b) ==
  [f |-> [s0 |-> Kept(1), s1 |-> Kept(2), v0 |-> Any, v1 |-> Any, d0 |-> Any, d1 |-> Any,
          w0 |-> Any, w1 |-> Any, ds |-> Any, pc |-> t, ready |-> n, fenced |-> b],
   prog |-> Unknown, run |-> "no", c |-> NoCommand, auto |-> FALSE, cur |-> h]

MayCommand(r, c) ==
  /\ c \in CommandType
  /\ c.write => c.size = Xlen
  /\ ~c.write => c.regno \in {"s0", "s1"}
  /\ c.postexec =>
       /\ c.size = Xlen
       /\ \/ MemoryProgram(r.prog)
          \/ /\ c.write /\ c.regno = "x0" /\ CsrProgram(r.prog)
             /\ CsrFits(r.f, r.prog[2][2])
          \/ c.write /\ c.regno = "x0" /\ FenceProgram(r.prog)

MayRegisters(r, x) ==
  /\ x[1] = "abstractcs" <=> r.run # "no"
  /\ r.run = "no" => r.c = NoCommand
  /\ x[1] \in {"dmcontrol", "writeHartsel", "halt", "resume", "select_hart"} =>
       Clean(r.f) /\ ~r.auto
  /\ x[1] = "progbuf" => x[2] \in 0..5 /\ x[3] \in Instructions
  /\ x[1] \in {"data", "saved", "readData"} => x[2] \in 0..XWords - 1
  /\ x[1] = "data" => x[3] \in Nat /\ (r.auto => MemoryProgram(r.prog))
  /\ x[1] = "saved" => ~r.auto /\ x[3] \in {"s0", "s1"}
  /\ x[1] = "readData" => ~r.auto
  /\ x[1] = "command" => ~r.auto /\ MayCommand(r, x[2])
  /\ x[1] = "save" => x[2] \in {"s0", "s1"}
  /\ x[1] = "auto" => x[2] \in BOOLEAN
  /\ x[1] \in {"hart", "halt", "resume", "select_hart"} => x[2] \in Nat
  /\ x[1] \in {"maxHart", "exists", "enumerate_harts"} => r = Fresh(r.cur, Any, 0, FALSE)
  /\ x[1] = "xlen" => ~r.auto
  /\ x[1] = "get_xlen" => ~r.auto
  /\ x[1] = "fence_i" => r = Fresh(r.cur, Any, r.cur, FALSE)
  /\ x[1] = "write_csr" => r = Fresh(r.cur, Any, r.cur, TRUE)
  /\ x[1] = "reset" => /\ x[2] \in 0..NHarts
                       /\ r = Fresh(r.cur, r.f.pc, x[2], r.f.fenced)
  /\ x[1] \in {"read_words", "more_words"} =>
       r.f = Forgotten(r.f) /\ MemoryProgram(r.prog) /\ (r.auto <=> x[1] = "more_words")
  /\ x[1] = "read_words" => x[2] \in Nat /\ x[3] \in Nat
  /\ x[1] = "more_words" => x[2] \in Seq(Nat)

AfterRegisters(r, x) ==
  CASE x[1] = "dmcontrol" -> LetGo(r)
    [] x[1] = "writeHartsel" -> [r EXCEPT !.f = Elsewhere(r.f), !.prog = Unknown]
    [] x[1] = "progbuf" -> [r EXCEPT !.prog = [r.prog EXCEPT ![x[2]] = x[3]]]
    [] x[1] = "data" -> [r EXCEPT !.f = Put(r.f, x[2], Is(x[3])),
                                  !.run = IF x[2] = 0 /\ r.auto THEN "some" ELSE r.run]
    [] x[1] = "saved" ->
         [r EXCEPT !.f = Put(r.f, x[2], IF x[3] = "s0" THEN r.f.v0 ELSE r.f.v1)]
    [] x[1] = "command" -> [r EXCEPT !.run = "this", !.c = x[2]]
    [] x[1] = "abstractcs" -> [r EXCEPT !.f = Done(r), !.run = "no", !.c = NoCommand]
    [] x[1] = "readData" -> [r EXCEPT !.f = Taken(r.f, x[2])]
    [] x[1] = "save" -> [r EXCEPT !.f = Saved(r.f, x[2])]
    [] x[1] = "auto" -> [r EXCEPT !.auto = x[2]]
    [] x[1] = "hart" -> ChangeTo(r, x[2])
    [] x[1] \in {"halt", "resume"} -> ChangeTo(LetGo(r), x[2])
    [] x[1] = "select_hart" ->
         [r EXCEPT !.f = Elsewhere(r.f), !.prog = Unknown, !.cur = x[2]]
    [] x[1] \in {"maxHart", "exists", "enumerate_harts"} -> Fresh(LastSel, Any, 0, FALSE)
    [] x[1] \in {"xlen", "get_xlen"} -> [r EXCEPT !.f = NoData(r.f)]
    [] x[1] = "fence_i" -> Fresh(r.cur, Any, r.cur, TRUE)
    [] x[1] = "write_csr" -> Fresh(r.cur, Is(Entry), r.cur + 1, TRUE)
    [] x[1] = "reset" -> Fresh(0, Any, NHarts, FALSE)
    [] x[1] = "read_words" -> IF x[2] > x[3] THEN r ELSE [r EXCEPT !.f = Looped(r.f)]
    [] OTHER -> r

-------------------------------------------------------------------------------
(* Sequences of accesses.                                                   *)

May(k, a, x) == IF k = "control" THEN MayControl(a, x) ELSE MayRegisters(a, x)
After(k, a, x) == IF k = "control" THEN AfterControl(a, x) ELSE AfterRegisters(a, x)

\* There is an outline between any two accesses of s.
Along(k, a, s, b, n, L) ==
  /\ s = [i \in 1..n |-> s[i]]
  /\ L[0] = a /\ L[n] = b
  /\ \A i \in 1..n : May(k, L[i - 1], s[i]) /\ L[i] = After(k, L[i - 1], s[i])

Path(k, a, s, b) == \E n \in Nat : \E L : Along(k, a, s, b, n, L)

\* Sequences as functions.
LEMMA AsSeq ==
  ASSUME NEW n \in Nat, NEW s, s = [i \in 1..n |-> s[i]]
  PROVE  s \in Seq({s[i] : i \in 1..n}) /\ Len(s) = n
<1> DEFINE S == {s[i] : i \in 1..n}
<1>1. \A i \in 1..n : s[i] \in S  OBVIOUS
<1>2. s \in [1..n -> S]  BY <1>1
<1> QED  BY <1>2

LEMMA SeqIsFunction ==
  ASSUME NEW S, NEW s \in Seq(S)
  PROVE  s = [i \in 1..Len(s) |-> s[i]]
OBVIOUS

LEMMA PathNone ==
  ASSUME NEW k, NEW a, NEW b
  PROVE  Path(k, a, <<>>, b) <=> a = b
<1>1. ASSUME Path(k, a, <<>>, b) PROVE a = b
  <2>01. PICK n \in Nat : \E L : Along(k, a, <<>>, b, n, L)  BY <1>1 DEF Path
  <2>1. PICK L : Along(k, a, <<>>, b, n, L)  BY <2>01
  <2>2. <<>> = [i \in 1..n |-> <<>>[i]]  BY <2>1 DEF Along
  <2>3. n = 0  BY <2>2, AsSeq
  <2> QED  BY <2>1, <2>3 DEF Along
<1>2. ASSUME a = b PROVE Path(k, a, <<>>, b)
  <2> DEFINE L == [i \in 0..0 |-> a]
  <2>1. <<>> = [i \in 1..0 |-> <<>>[i]]  OBVIOUS
  <2>2. Along(k, a, <<>>, b, 0, L)  BY <2>1, <1>2 DEF Along
  <2> QED  BY <2>2 DEF Path
<1> QED  BY <1>1, <1>2

LEMMA PathOne ==
  ASSUME NEW k, NEW a, NEW x, May(k, a, x)
  PROVE  Path(k, a, <<x>>, After(k, a, x))
<1> DEFINE s == <<x>>
           b == After(k, a, x)
           L == [i \in 0..1 |-> IF i = 0 THEN a ELSE b]
<1>1. s = [i \in 1..1 |-> s[i]]  OBVIOUS
<1>2. L[0] = a /\ L[1] = b  OBVIOUS
<1>3. s[1] = x  OBVIOUS
<1> HIDE DEF s, L
<1>4. Along(k, a, s, b, 1, L)  BY <1>1, <1>2, <1>3 DEF Along
<1>5. Path(k, a, s, b)  BY <1>4 DEF Path
<1> QED  BY <1>5 DEF s

LEMMA PathJoin ==
  ASSUME NEW k, NEW a, NEW b, NEW c, NEW s, NEW t, Path(k, a, s, b), Path(k, b, t, c)
  PROVE  Path(k, a, s \o t, c)
<1>01. PICK n \in Nat : \E L : Along(k, a, s, b, n, L)  BY DEF Path
<1>1. PICK L : Along(k, a, s, b, n, L)  BY <1>01
<1>02. PICK m \in Nat : \E M : Along(k, b, t, c, m, M)  BY DEF Path
<1>2. PICK M : Along(k, b, t, c, m, M)  BY <1>02
<1> DEFINE q == s \o t
           N == [i \in 0..n + m |-> IF i <= n THEN L[i] ELSE M[i - n]]
<1>3. s = [i \in 1..n |-> s[i]]  BY <1>1 DEF Along
<1>4. t = [i \in 1..m |-> t[i]]  BY <1>2 DEF Along
<1> DEFINE S == {s[i] : i \in 1..n} \cup {t[i] : i \in 1..m}
<1>5. s \in Seq(S) /\ Len(s) = n
  <2>1. \A i \in 1..n : s[i] \in S  OBVIOUS
  <2> QED  BY <2>1, <1>3
<1>6. t \in Seq(S) /\ Len(t) = m
  <2>1. \A i \in 1..m : t[i] \in S  OBVIOUS
  <2> QED  BY <2>1, <1>4
<1> HIDE DEF S
<1>7. /\ q = [i \in 1..n + m |-> q[i]]
      /\ \A i \in 1..n + m : q[i] = IF i <= n THEN s[i] ELSE t[i - n]
  <2>1. q \in Seq(S) /\ Len(q) = n + m  BY <1>5, <1>6
  <2>2. q = [i \in 1..n + m |-> q[i]]  BY <2>1, SeqIsFunction
  <2>3. \A i \in 1..n + m : q[i] = IF i <= n THEN s[i] ELSE t[i - n]  BY <1>5, <1>6
  <2> QED  BY <2>2, <2>3
<1>8. N[0] = a /\ N[n] = b /\ N[n + m] = c
  <2>1. N[0] = L[0] /\ N[n] = L[n]  OBVIOUS
  <2>2. m = 0 => N[n + m] = L[n]  OBVIOUS
  <2>3. m > 0 => N[n + m] = M[m]  OBVIOUS
  <2> QED  BY <2>1, <2>2, <2>3, <1>1, <1>2 DEF Along
<1> HIDE DEF q
<1>9. ASSUME NEW i \in 1..n + m
      PROVE  May(k, N[i - 1], q[i]) /\ N[i] = After(k, N[i - 1], q[i])
  <2>1. CASE i <= n
    <3>1. q[i] = s[i] /\ N[i] = L[i] /\ N[i - 1] = L[i - 1]  BY <2>1, <1>7
    <3>2. i \in 1..n  BY <2>1
    <3> QED  BY <3>1, <3>2, <1>1 DEF Along
  <2>2. CASE i > n
    <3>1. i - n \in 1..m  BY <2>2
    <3>2. q[i] = t[i - n] /\ N[i] = M[i - n]  BY <2>2, <1>7
    <3>3. N[i - 1] = M[(i - n) - 1]
      <4>1. CASE i - 1 = n  BY <4>1, <1>8, <1>2 DEF Along
      <4>2. CASE i - 1 > n  BY <4>2
      <4> QED  BY <4>1, <4>2, <2>2
    <3> QED  BY <3>1, <3>2, <3>3, <1>2 DEF Along
  <2> QED  BY <2>1, <2>2
<1> HIDE DEF N
<1>10. Along(k, a, q, c, n + m, N)  BY <1>7, <1>8, <1>9 DEF Along
<1>11. Path(k, a, q, c)  BY <1>10 DEF Path
<1> QED  BY <1>11 DEF q

\* The first access is allowed, and the others go on after it.
LEMMA PathHead ==
  ASSUME NEW k, NEW a, NEW b, NEW s, Path(k, a, s, b), s # <<>>
  PROVE  /\ May(k, a, s[1])
         /\ Path(k, After(k, a, s[1]), Tail(s), b)
         /\ \E n \in Nat : s = [i \in 1..n |-> s[i]]
<1>01. PICK n \in Nat : \E L : Along(k, a, s, b, n, L)  BY DEF Path
<1>1. PICK L : Along(k, a, s, b, n, L)  BY <1>01
<1>2. s = [i \in 1..n |-> s[i]]  BY <1>1 DEF Along
<1> DEFINE S == {s[i] : i \in 1..n}
<1>3. s \in Seq(S) /\ Len(s) = n  BY <1>2, AsSeq
<1> HIDE DEF S
<1>4. n > 0  BY <1>3
<1> DEFINE q == Tail(s)
           M == [i \in 0..n - 1 |-> L[i + 1]]
<1>5. q \in Seq(S) /\ Len(q) = n - 1 /\ \A i \in 1..n - 1 : q[i] = s[i + 1]  BY <1>3, <1>4
<1> HIDE DEF q
<1>6. q = [i \in 1..n - 1 |-> q[i]]  BY <1>5
<1>7. 1 \in 1..n /\ L[1 - 1] = a  BY <1>4, <1>1 DEF Along
<1>8. May(k, a, s[1]) /\ L[1] = After(k, a, s[1])  BY <1>7, <1>1 DEF Along
<1>9. M[0] = L[1] /\ M[n - 1] = b  BY <1>1, <1>4 DEF Along
<1>10. ASSUME NEW i \in 1..n - 1
       PROVE  May(k, M[i - 1], q[i]) /\ M[i] = After(k, M[i - 1], q[i])
  <2>1. q[i] = s[i + 1] /\ M[i] = L[i + 1] /\ M[i - 1] = L[(i + 1) - 1]  BY <1>5
  <2>2. i + 1 \in 1..n  OBVIOUS
  <2> QED  BY <2>1, <2>2, <1>1 DEF Along
<1> HIDE DEF M
<1>11. Along(k, After(k, a, s[1]), q, b, n - 1, M)  BY <1>6, <1>8, <1>9, <1>10 DEF Along
<1>12. n - 1 \in Nat  BY <1>4
<1>13. Path(k, After(k, a, s[1]), q, b)  BY <1>11, <1>12 DEF Path
<1> QED  BY <1>8, <1>13, <1>2 DEF q

\* Accesses that leave the outline alone.
LEMMA PathSame ==
  ASSUME NEW k, NEW a, NEW n \in Nat, NEW s, s = [i \in 1..n |-> s[i]],
         \A i \in 1..n : May(k, a, s[i]) /\ After(k, a, s[i]) = a
  PROVE  Path(k, a, s, a)
<1> DEFINE L == [i \in 0..n |-> a]
<1>1. \A i \in 1..n : L[i] = a /\ L[i - 1] = a  OBVIOUS
<1>2. L[0] = a /\ L[n] = a  OBVIOUS
<1> HIDE DEF L
<1>3. Along(k, a, s, a, n, L)  BY <1>1, <1>2 DEF Along
<1> QED  BY <1>3 DEF Path

-------------------------------------------------------------------------------
(* When an outline of the control holds.                                    *)

Controls == [st : {"free", "halting", "halted", "held", "resuming"},
             e : {"ok", "run", "seen"}, h : Nat, cur : Nat, t : Nat,
             on : BOOLEAN, auto : BOOLEAN, running : BOOLEAN,
             num : BOOLEAN, xl : BOOLEAN, mx : BOOLEAN, dc : BOOLEAN]

\* Which harts are halted or asked to.
StageOK(a) ==
  /\ a.st = "free" => haltreq = {} /\ resumereq = {} /\ halted = {}
  /\ a.st # "free" => a.on /\ hartsel \in Harts
  /\ a.st = "halting" =>
       haltreq = {hartsel} /\ resumereq = {} /\ (halted = {} \/ halted = {hartsel})
  /\ a.st = "halted" => haltreq = {hartsel} /\ resumereq = {} /\ halted = {hartsel}
  /\ a.st = "held" => haltreq = {} /\ resumereq = {} /\ halted = {hartsel}
  /\ a.st = "resuming" =>
       /\ haltreq = {}
       /\ \/ resumereq = {hartsel} /\ halted = {hartsel} /\ hartsel \notin resumeack
          \/ resumereq = {} /\ halted = {}

\* What a command has come to.
OutcomeOf(c, err) ==
  /\ err \in {0, ErrNotSupported, ErrException}
  /\ c.size > Xlen <=> err = ErrNotSupported
  /\ ~c.postexec => err # ErrException

Sized(c) == c.size \in Nat /\ c.postexec \in BOOLEAN
Tried(a, c) == a.t # 0 => c.size = a.t /\ ~c.postexec

CommandAt(a, c, run, err, x, seen) ==
  /\ Sized(c) /\ Tried(a, c)
  /\ a.e = "ok" => ~run /\ err = 0
  /\ a.e = "run" =>
       /\ run => err = 0 /\ c.size <= Xlen /\ (x >= 0 => c.postexec)
       /\ ~run => OutcomeOf(c, err)
  /\ a.e = "seen" => ~run /\ seen = err /\ OutcomeOf(c, err)
  /\ a.st # "held" => a.e = "ok" /\ ~a.auto /\ a.t = 0

CommandOK(a) == CommandAt(a, command, busy, cmderr, xpc, cmderr_read)

\* What the host has found.
FoundOK(a) ==
  /\ a.running = running /\ a.cur = current_hart
  /\ a.num => num_harts = NHarts
  /\ a.xl => xlen = Xlen
  /\ a.mx => max_hart = MaxHartsel
  /\ xlen \in Nat
  /\ a.running => a.num /\ a.xl
  /\ a.dc => /\ a.st = "free"
             /\ dmcontrol \in [dmactive : {dmactive}, hartsel : 0..MaxHartsel,
                               haltreq : {FALSE}, resumereq : {FALSE}]

ControlHolds(a) ==
  /\ a \in Controls
  /\ a.on = dmactive /\ a.h = hartsel /\ hartsel \in 0..MaxHartsel
  /\ a.auto = abstractauto /\ xpc \in Int /\ busy \in BOOLEAN
  /\ StageOK(a) /\ CommandOK(a) /\ FoundOK(a)

-------------------------------------------------------------------------------
(* One access.                                                              *)

LEMMA Constants ==
  /\ XWords \in {1, 2} /\ NHarts \in Nat \ {0} /\ MaxHartsel \in 0..1023
  /\ NHarts <= MaxHartsel + 1 /\ Xlen \in {32, 64}
  /\ WordBase \in Nat \ {0, 1}
  /\ \A h \in Harts : h \in 0..MaxHartsel
BY DebugModuleConstants DEF Xlen, Harts

LEMMA CommandRuns ==
  ASSUME NEW a, NEW c, NEW run, NEW err, NEW x \in Int, NEW seen,
         run = TRUE, err = 0, Sized(c), Tried(a, c), a.e = "run",
         a.st = "held", c.size <= Xlen, x >= 0 => c.postexec
  PROVE  CommandAt(a, c, run, err, x, seen)
BY DEF CommandAt

LEMMA CommandEnds ==
  ASSUME NEW a, NEW c, NEW run, NEW err, NEW x, NEW seen,
         run = FALSE, Sized(c), Tried(a, c), a.e = "run",
         a.st = "held", OutcomeOf(c, err)
  PROVE  CommandAt(a, c, run, err, x, seen)
BY DEF CommandAt

LEMMA Outcomes ==
  ASSUME NEW c, Sized(c)
  PROVE  /\ c.size > Xlen => OutcomeOf(c, ErrNotSupported)
         /\ c.size <= Xlen => OutcomeOf(c, 0)
         /\ c.size <= Xlen /\ c.postexec => OutcomeOf(c, ErrException)
BY Constants DEF OutcomeOf, Sized, ErrNotSupported, ErrException

\* What a step leaves alone.
FoundSame(a, b) ==
  /\ b.running = a.running /\ b.cur = a.cur /\ b.num = a.num /\ b.xl = a.xl
  /\ b.mx = a.mx /\ b.dc = FALSE

LEMMA FoundKept ==
  ASSUME NEW a, NEW b, FoundOK(a), FoundSame(a, b), UNCHANGED <<found, current_hart>>
  PROVE  FoundOK(b)'
BY DEF FoundOK, FoundSame, found

LEMMA ModSmall ==
  ASSUME NEW m \in Nat, NEW x \in 0..m
  PROVE  x % (m + 1) = x
OBVIOUS

LEMMA ModRange ==
  ASSUME NEW m \in Nat, NEW x \in Nat
  PROVE  x % (m + 1) \in 0..m
OBVIOUS

LEMMA DmcontrolStep ==
  ASSUME NEW a, NEW b, NEW d, ControlHolds(a), MayDmcontrol(a, d), b = AfterDmcontrol(a, d),
         ~a.dc, WriteDmcontrol(d)
  PROVE  ControlHolds(b)'
<1>0. a \in Controls /\ d.hartsel \in Nat /\ d.dmactive \in BOOLEAN
  BY Constants DEF ControlHolds, MayDmcontrol
<1>1. b \in Controls
  BY <1>0 DEF Controls, AfterDmcontrol
<1>2. /\ StageOK(a) /\ CommandOK(a) /\ FoundOK(a) /\ a.on = dmactive /\ a.h = hartsel
      /\ a.auto = abstractauto /\ xpc \in Int /\ busy \in BOOLEAN /\ dmactive \in BOOLEAN
  BY <1>0 DEF ControlHolds, Controls
<1>3. FoundSame(a, b)
  BY <1>0 DEF AfterDmcontrol, FoundSame, Controls
<1>4. FoundOK(b)'
  BY <1>2, <1>3, FoundKept DEF WriteDmcontrol
<1>5. dmactive' = d.dmactive /\ DmcontrolWrite(d) /\ UNCHANGED <<halted, cmderr_read>>
  BY DEF WriteDmcontrol, DmcontrolWrite, locals
<1>6. d.hartsel % (MaxHartsel + 1) = d.hartsel
  <2>1. d.hartsel \in 0..MaxHartsel /\ MaxHartsel \in Nat
    BY Constants DEF MayDmcontrol
  <2> QED  BY <2>1, ModSmall
<1>7. CASE d.haltreq
  <2>1. Free(a) /\ a.on /\ d.dmactive /\ d.hartsel \in Harts /\ ~d.resumereq
    BY <1>7 DEF MayDmcontrol
  <2>2. /\ b.st = "halting" /\ b.h = d.hartsel
        /\ b.on = a.on /\ b.auto = a.auto /\ b.e = a.e /\ b.t = a.t
    BY <1>0, <1>7 DEF AfterDmcontrol, Controls
  <2>3. /\ hartsel' = d.hartsel /\ haltreq' = {d.hartsel} /\ resumereq' = {}
        /\ UNCHANGED <<command, abstractauto, busy, cmderr, xpc>>
    BY <2>1, <1>2, <1>5, <1>6, <1>7 DEF DmcontrolWrite, StageOK, Free
  <2>4. StageOK(b)'
    BY <2>1, <2>2, <2>3, <1>2, <1>5 DEF StageOK, Free
  <2>5. CommandOK(b)'
    BY <2>1, <2>2, <2>3, <1>2, <1>5 DEF CommandOK, CommandAt, Tried, Sized, Free
  <2> QED
    BY <2>1, <2>2, <2>3, <2>4, <2>5, <1>1, <1>2, <1>4, <1>5 DEF ControlHolds, MayDmcontrol, Free
<1>8. CASE d.resumereq
  <2>1. Ready(a) /\ d.dmactive /\ d.hartsel = a.h /\ ~d.haltreq
    BY <1>8 DEF MayDmcontrol
  <2>2. /\ b.st = "resuming" /\ b.h = a.h
        /\ b.on = a.on /\ b.auto = a.auto /\ b.e = a.e /\ b.t = a.t
    BY <1>0, <1>8, <2>1 DEF AfterDmcontrol, Controls
  <2>3. /\ hartsel' = hartsel /\ haltreq' = {} /\ resumereq' = {hartsel}
        /\ hartsel \notin resumeack'
        /\ UNCHANGED <<command, abstractauto, busy, cmderr, xpc>>
    BY <2>1, <1>2, <1>5, <1>6, <1>8 DEF DmcontrolWrite, StageOK, Ready, Held
  <2>4. StageOK(b)'
    BY <2>1, <2>2, <2>3, <1>2, <1>5 DEF StageOK, Ready, Held
  <2>5. CommandOK(b)'
    BY <2>1, <2>2, <2>3, <1>2, <1>5 DEF CommandOK, CommandAt, Tried, Sized, Ready, Held
  <2> QED
    BY <2>1, <2>2, <2>3, <2>4, <2>5, <1>1, <1>2, <1>4, <1>5 DEF ControlHolds, MayDmcontrol,
       StageOK, Ready, Held
<1>9. CASE ~d.haltreq /\ ~d.resumereq /\ a.st = "halted"
  <2>1. d.dmactive /\ d.hartsel = a.h
    BY <1>9 DEF MayDmcontrol, Free
  <2>2. /\ b.st = "held" /\ b.h = a.h
        /\ b.on = a.on /\ b.auto = a.auto /\ b.e = a.e /\ b.t = a.t
    BY <1>0, <1>9, <2>1 DEF AfterDmcontrol, Controls
  <2>3. /\ hartsel' = hartsel /\ haltreq' = {} /\ resumereq' = {}
        /\ UNCHANGED <<command, abstractauto, busy, cmderr, xpc>>
    BY <2>1, <1>2, <1>5, <1>6, <1>9 DEF DmcontrolWrite, StageOK
  <2>4. StageOK(b)'
    BY <2>1, <2>2, <2>3, <1>2, <1>5, <1>9 DEF StageOK
  <2>5. CommandOK(b)'
    BY <2>1, <2>2, <2>3, <1>2, <1>5, <1>9 DEF CommandOK, CommandAt, Tried, Sized
  <2> QED
    BY <2>1, <2>2, <2>3, <2>4, <2>5, <1>1, <1>2, <1>4, <1>5, <1>9 DEF ControlHolds, MayDmcontrol,
       StageOK
<1>10. CASE ~d.haltreq /\ ~d.resumereq /\ a.st # "halted"
  <2>1. Free(a)
    BY <1>10 DEF MayDmcontrol
  <2>2. /\ b.st = "free" /\ b.h = (IF a.on /\ d.dmactive THEN d.hartsel ELSE 0)
        /\ b.on = d.dmactive /\ b.auto = a.auto /\ b.e = a.e /\ b.t = a.t
    BY <1>0, <1>10, <2>1 DEF AfterDmcontrol, Controls, Free
  <2>3. /\ hartsel' = (IF dmactive /\ d.dmactive THEN d.hartsel ELSE 0)
        /\ haltreq' = {} /\ resumereq' = {}
        /\ abstractauto' = FALSE /\ busy' = FALSE /\ cmderr' = 0 /\ xpc' \in Int
        /\ command'.size \in Nat /\ command'.postexec \in BOOLEAN
    <3>0. NoCommand.size \in Nat /\ NoCommand.postexec \in BOOLEAN  BY DEF NoCommand
    <3>1. abstractauto = FALSE /\ busy = FALSE /\ cmderr = 0 /\ haltreq = {} /\ resumereq = {}
      BY <2>1, <1>0, <1>2 DEF StageOK, CommandOK, CommandAt, Tried, Sized, Free, Controls
    <3>2. CASE dmactive /\ d.dmactive
      BY <3>1, <3>2, <1>2, <1>5, <1>6, <1>10 DEF DmcontrolWrite, CommandOK, CommandAt, Tried, Sized
    <3>3. CASE ~(dmactive /\ d.dmactive)
      BY <3>0, <3>1, <3>3, <1>2, <1>5, <1>10 DEF DmcontrolWrite
    <3> QED  BY <3>2, <3>3
  <2>4. StageOK(b)'
    BY <2>1, <2>2, <2>3, <1>2, <1>5, <1>10 DEF StageOK, Free
  <2>5. CommandOK(b)'
    BY <2>1, <2>2, <2>3, <1>2, <1>5, <1>10 DEF CommandOK, CommandAt, Tried, Sized, Free
  <2>6. hartsel' \in 0..MaxHartsel
    BY <2>3, Constants DEF MayDmcontrol
  <2>7. b.auto = FALSE  BY <2>1, <2>2, <1>0 DEF Free, Controls
  <2> QED
    BY <2>2, <2>3, <2>4, <2>5, <2>6, <2>7, <1>1, <1>2, <1>4, <1>5 DEF ControlHolds
<1> QED  BY <1>7, <1>8, <1>9, <1>10

LEMMA StageKept ==
  ASSUME NEW a, NEW b, StageOK(a), b.st = a.st, b.on = a.on,
         UNCHANGED <<selection, requests, halted>>
  PROVE  StageOK(b)'
BY DEF StageOK, selection, requests

\* The parts of ControlHolds.
LEMMA ControlParts ==
  ASSUME NEW a, ControlHolds(a)
  PROVE  /\ a \in Controls /\ StageOK(a) /\ CommandOK(a) /\ FoundOK(a)
         /\ a.on = dmactive /\ a.h = hartsel /\ hartsel \in 0..MaxHartsel
         /\ a.auto = abstractauto /\ xpc \in Int /\ busy \in BOOLEAN
         /\ abstractauto \in BOOLEAN /\ dmactive \in BOOLEAN
BY DEF ControlHolds, Controls

LEMMA SetHartStep ==
  ASSUME NEW a, NEW b, ControlHolds(a), MayControl(a, todo[1]), b = AfterControl(a, todo[1]),
         SetHart
  PROVE  ControlHolds(b)'
<1>1. todo[1][1] = "hart"  BY DEF SetHart, Doing
<1>2. b = [a EXCEPT !.cur = todo[1][2]]  BY <1>1 DEF AfterControl
<1>3. UNCHANGED <<dmvars, found, locals>> /\ current_hart' = todo[1][2]  BY DEF SetHart, Arg
<1>4. b \in Controls
  BY <1>1, <1>2, ControlParts, Constants DEF Controls, MayControl
<1>5. /\ b.st = a.st /\ b.on = a.on /\ b.h = a.h /\ b.auto = a.auto /\ b.e = a.e /\ b.t = a.t
      /\ b.running = a.running /\ b.num = a.num /\ b.xl = a.xl /\ b.mx = a.mx /\ b.dc = a.dc
      /\ b.cur = todo[1][2]
  BY <1>2, ControlParts DEF Controls
<1>6. StageOK(b)'  BY <1>3, <1>5, ControlParts, StageKept DEF dmvars
<1>7. CommandOK(b)'  BY <1>3, <1>5, ControlParts DEF dmvars, CommandOK, CommandAt, Tried, Sized, locals
<1>8. FoundOK(b)'  BY <1>3, <1>5, ControlParts DEF dmvars, FoundOK, found, locals, selection
<1> QED  BY <1>3, <1>4, <1>5, <1>6, <1>7, <1>8, ControlParts DEF ControlHolds, dmvars, selection

\* Only the command has changed.
LEMMA Within ==
  ASSUME NEW a, NEW b, ControlHolds(a), b \in Controls,
         b.st = a.st, b.on = a.on, b.h = a.h,
         b.running = a.running, b.cur = a.cur, b.num = a.num, b.xl = a.xl,
         b.mx = a.mx, b.dc = a.dc, a.st # "free" \/ ~a.dc,
         b.auto = abstractauto', xpc' \in Int, busy' \in BOOLEAN,
         UNCHANGED <<selection, requests, halted, found, current_hart>>,
         CommandOK(b)'
  PROVE  ControlHolds(b)'
<1>1. StageOK(b)'  BY ControlParts, StageKept
<1>2. b.dc = FALSE  BY ControlParts DEF FoundOK, Controls
<1>3. FoundOK(b)'  BY <1>2, ControlParts, FoundKept DEF FoundSame
<1> QED  BY <1>1, <1>3, ControlParts DEF ControlHolds, selection

\* A write of a register of the debug module takes place.
LEMMA Written ==
  ASSUME NEW a, ControlHolds(a), Held(a), a.e # "run"
  PROVE  dmactive /\ ~busy /\ hartsel \in halted /\ (a.e = "ok" => cmderr = 0)
BY ControlParts DEF Held, StageOK, CommandOK, CommandAt, Tried, Sized, Controls

\* A command starts, or its size is refused.
LEMMA Starts ==
  ASSUME NEW c, Start(c), cmderr = 0, busy = FALSE, hartsel \in halted, xpc \in Int
  PROVE  /\ xpc' \in Int
         /\ \/ busy' = TRUE /\ xpc' = -1 /\ cmderr' = 0 /\ c.size <= Xlen
            \/ busy' = FALSE /\ cmderr' = ErrNotSupported /\ c.size > Xlen
BY DEF Start, ErrNotSupported

LEMMA WriteRegisterStep ==
  ASSUME NEW a, NEW b, ControlHolds(a), MayControl(a, todo[1]), b = AfterControl(a, todo[1]),
         WriteRegister
  PROVE  ControlHolds(b)'
<1> DEFINE x == todo[1]
<1>1. /\ a \in Controls /\ CommandOK(a) /\ a.auto = abstractauto /\ xpc \in Int
      /\ abstractauto \in BOOLEAN /\ UNCHANGED <<found, current_hart, locals>>
  BY ControlParts DEF WriteRegister
<1>2. x[1] \in {"progbuf", "data", "saved", "command", "auto"}
  BY DEF WriteRegister, Doing
<1>3. Held(a) /\ a.e = "ok" /\ a.t = 0
  BY <1>2 DEF MayControl, Ready
<1>4. dmactive /\ ~busy /\ hartsel \in halted /\ cmderr = 0
  BY <1>3, Written
<1>5. a.st # "free"  BY <1>3 DEF Held
<1>6. CASE x[1] = "progbuf"
  <2>1. b = a  BY <1>6 DEF AfterControl
  <2>2. ProgbufWrite(Arg, x[3])  BY <1>6 DEF WriteRegister, Doing
  <2>3. UNCHANGED <<selection, requests, halted, abstractauto, busy, cmderr, xpc, command>>
    BY <2>2, <1>4 DEF ProgbufWrite, Writing
  <2>4. CommandOK(b)'  BY <2>1, <2>3, <1>1, <1>3 DEF CommandOK, CommandAt, Tried, Sized
  <2> QED  BY <2>1, <2>3, <2>4, <1>1, <1>5, Within, ControlParts
<1>7. CASE x[1] = "saved" \/ (x[1] = "data" /\ ~(x[2] = 0 /\ a.auto))
  <2>1. b = a  BY <1>7 DEF AfterControl
  <2>2. \E w : DataWrite(Arg, w)  BY <1>7 DEF WriteRegister, Doing
  <2>3. ~(Arg = 0 /\ abstractauto)  BY <1>1, <1>7 DEF Arg, MayControl, Ready
  <2>4. UNCHANGED <<selection, requests, halted, abstractauto, busy, cmderr, xpc, command>>
    BY <2>2, <2>3, <1>4 DEF DataWrite, Writing
  <2>5. CommandOK(b)'  BY <2>1, <2>4, <1>1, <1>3 DEF CommandOK, CommandAt, Tried, Sized
  <2> QED  BY <2>1, <2>4, <2>5, <1>1, <1>5, Within, ControlParts
<1>8. CASE x[1] = "data" /\ x[2] = 0 /\ a.auto
  <2>1. b = [a EXCEPT !.e = "run"]  BY <1>8 DEF AfterControl
  <2>2. \E w : DataWrite(Arg, w)  BY <1>8 DEF WriteRegister, Doing
  <2>3. Start(command) /\ UNCHANGED <<selection, requests, halted, abstractauto, command>>
    BY <2>2, <1>1, <1>4, <1>8 DEF DataWrite, Writing, Arg
  <2>4. /\ b \in Controls /\ b.e = "run" /\ b.t = 0 /\ b.st = a.st /\ b.on = a.on /\ b.h = a.h
        /\ b.auto = a.auto /\ b.cur = a.cur /\ b.running = a.running /\ b.num = a.num
        /\ b.xl = a.xl /\ b.mx = a.mx /\ b.dc = a.dc
    BY <2>1, <1>1, <1>3 DEF Controls
  <2>5. CommandOK(b)' /\ xpc' \in Int /\ busy' \in BOOLEAN
    <3>1. busy = FALSE  BY <1>4, ControlParts
    <3>2. /\ xpc' \in Int
          /\ \/ busy' = TRUE /\ xpc' = -1 /\ cmderr' = 0 /\ command.size <= Xlen
             \/ busy' = FALSE /\ cmderr' = ErrNotSupported /\ command.size > Xlen
      BY <3>1, <2>3, <1>1, <1>4, Starts
    <3>3. b.st = "held"  BY <2>4, <1>3 DEF Held
    <3>4. Sized(command') /\ Tried(b, command')
      BY <2>3, <2>4, <1>1 DEF CommandOK, CommandAt, Sized, Tried
    <3>5. CASE busy' = TRUE
      <4>1. xpc' = -1 /\ cmderr' = 0 /\ command'.size <= Xlen  BY <3>2, <3>5, <2>3
      <4>3. ~(xpc' >= 0)  BY <4>1
      <4>2. CommandOK(b)'
        BY <3>2, <3>3, <3>4, <3>5, <4>1, <4>3, <2>4, CommandRuns DEF CommandOK
      <4> QED  BY <3>2, <3>5, <4>2
    <3>6. CASE busy' = FALSE
      <4>1. OutcomeOf(command', cmderr')  BY <3>2, <3>4, <3>6, <2>3, Outcomes
      <4>2. CommandOK(b)'
        BY <3>3, <3>4, <3>6, <4>1, <2>4, CommandEnds DEF CommandOK
      <4> QED  BY <3>2, <3>6, <4>2
    <3> QED  BY <3>2, <3>5, <3>6
  <2> QED  BY <2>3, <2>4, <2>5, <1>1, <1>5, Within, ControlParts
<1>9. CASE x[1] = "command"
  <2>1. b = [a EXCEPT !.e = "run", !.t = IF x[2].postexec THEN 0 ELSE x[2].size]
    BY <1>9 DEF AfterControl
  <2>2. CommandWrite(x[2])  BY <1>9 DEF WriteRegister, Doing, Arg
  <2>3. /\ Start(x[2]) /\ command' = x[2]
        /\ UNCHANGED <<selection, requests, halted, abstractauto>>
    BY <2>2, <1>4 DEF CommandWrite, Writing
  <2>4. x[2].size \in Nat /\ x[2].postexec \in BOOLEAN  BY <1>9 DEF MayControl
  <2>5. /\ b \in Controls /\ b.e = "run" /\ b.st = a.st /\ b.on = a.on /\ b.h = a.h
        /\ b.t = (IF x[2].postexec THEN 0 ELSE x[2].size)
        /\ b.auto = a.auto /\ b.cur = a.cur /\ b.running = a.running /\ b.num = a.num
        /\ b.xl = a.xl /\ b.mx = a.mx /\ b.dc = a.dc
    BY <2>1, <2>4, <1>1, <1>3 DEF Controls
  <2>6. CommandOK(b)' /\ xpc' \in Int /\ busy' \in BOOLEAN
    <3>1. busy = FALSE  BY <1>4, ControlParts
    <3>2. /\ xpc' \in Int
          /\ \/ busy' = TRUE /\ xpc' = -1 /\ cmderr' = 0 /\ x[2].size <= Xlen
             \/ busy' = FALSE /\ cmderr' = ErrNotSupported /\ x[2].size > Xlen
      BY <3>1, <2>3, <1>1, <1>4, Starts
    <3>3. b.st = "held"  BY <2>5, <1>3 DEF Held
    <3>4. Sized(command') /\ Tried(b, command')
      BY <2>3, <2>4, <2>5 DEF Sized, Tried
    <3> HIDE DEF x
    <3>5. CASE busy' = TRUE
      <4>1. xpc' = -1 /\ cmderr' = 0 /\ command'.size <= Xlen  BY <3>2, <3>5, <2>3
      <4>3. ~(xpc' >= 0)  BY <4>1
      <4>2. CommandOK(b)'
        BY <3>2, <3>3, <3>4, <3>5, <4>1, <4>3, <2>5, CommandRuns DEF CommandOK
      <4> QED  BY <3>2, <3>5, <4>2
    <3>6. CASE busy' = FALSE
      <4>1. OutcomeOf(command', cmderr')  BY <3>2, <3>4, <3>6, <2>3, Outcomes
      <4>2. CommandOK(b)'
        BY <3>3, <3>4, <3>6, <4>1, <2>5, CommandEnds DEF CommandOK
      <4> QED  BY <3>2, <3>6, <4>2
    <3> QED  BY <3>2, <3>5, <3>6
  <2> QED  BY <2>3, <2>5, <2>6, <1>1, <1>5, Within, ControlParts
<1>10. CASE x[1] = "auto"
  <2>1. b = [a EXCEPT !.auto = x[2]]  BY <1>10 DEF AfterControl
  <2>2. AutoWrite(x[2])  BY <1>10 DEF WriteRegister, Doing, Arg
  <2>3. /\ abstractauto' = x[2]
        /\ UNCHANGED <<selection, requests, halted, busy, cmderr, xpc, command>>
    BY <2>2, <1>4 DEF AutoWrite, Writing
  <2>4. x[2] \in BOOLEAN  BY <1>10 DEF MayControl
  <2>5. /\ b \in Controls /\ b.e = a.e /\ b.t = a.t /\ b.st = a.st /\ b.on = a.on /\ b.h = a.h
        /\ b.auto = x[2] /\ b.cur = a.cur /\ b.running = a.running /\ b.num = a.num
        /\ b.xl = a.xl /\ b.mx = a.mx /\ b.dc = a.dc
    BY <2>1, <2>4, <1>1, <1>3 DEF Controls
  <2>6. CommandOK(b)'
    BY <2>3, <2>5, <1>1, <1>3 DEF CommandOK, CommandAt, Tried, Sized, Held
  <2> QED  BY <2>3, <2>5, <2>6, <1>1, <1>5, Within, ControlParts
<1> QED  BY <1>2, <1>6, <1>7, <1>8, <1>9, <1>10

LEMMA PollStep ==
  ASSUME NEW a, NEW b, ControlHolds(a), MayControl(a, todo[1]), b = AfterControl(a, todo[1]),
         Poll
  PROVE  ControlHolds(b)'
<1> DEFINE x == todo[1]
<1>1. /\ a \in Controls /\ CommandOK(a) /\ StageOK(a) /\ FoundOK(a) /\ a.auto = abstractauto
      /\ xpc \in Int /\ a.on = dmactive
      /\ UNCHANGED <<dmvars, found, current_hart, dmcontrol>>
  BY ControlParts DEF Poll
<1>2. UNCHANGED <<selection, requests, halted, command, abstractauto, busy, cmderr, xpc>>
  BY <1>1 DEF dmvars
<1>3. CASE x[1] = "dmstatus"
  <2>1. b = a  BY <1>3 DEF AfterControl
  <2>2. UNCHANGED cmderr_read  BY <1>3 DEF Poll, Doing
  <2>3. CommandOK(a)'  BY <2>2, <1>1, <1>2 DEF CommandOK, CommandAt, Tried, Sized
  <2>4. StageOK(a)'  BY <1>1, <1>2, StageKept
  <2>5. FoundOK(a)'  BY <1>1, <1>2 DEF FoundOK, found, selection
  <2> QED  BY <2>1, <2>3, <2>4, <2>5, <1>1, <1>2 DEF ControlHolds, selection
<1>4. CASE x[1] = "allhalted"
  <2>1. b = [a EXCEPT !.st = "halted"]  BY <1>4 DEF AfterControl
  <2>2. UNCHANGED cmderr_read /\ hartsel \in halted  BY <1>4 DEF Poll, Doing, allhalted
  <2>3. a.st = "halting"  BY <1>4 DEF MayControl
  <2>4. /\ b \in Controls /\ b.e = a.e /\ b.t = a.t /\ b.st = "halted" /\ b.on = a.on
        /\ b.h = a.h /\ b.auto = a.auto /\ FoundSame(a, b)
    BY <2>1, <2>3, <1>1 DEF Controls, FoundSame, FoundOK
  <2>5. CommandOK(b)'  BY <2>2, <2>3, <2>4, <1>1, <1>2 DEF CommandOK, CommandAt, Tried, Sized
  <2>6. StageOK(b)'  BY <2>2, <2>3, <2>4, <1>1, <1>2 DEF StageOK, selection, requests
  <2>7. FoundOK(b)'  BY <2>4, <1>1, FoundKept
  <2> QED  BY <2>4, <2>5, <2>6, <2>7, <1>1, <1>2, ControlParts DEF ControlHolds, selection
<1>5. CASE x[1] = "allresumeack"
  <2>1. b = [a EXCEPT !.st = "free"]  BY <1>5 DEF AfterControl
  <2>2. UNCHANGED cmderr_read /\ hartsel \in resumeack  BY <1>5 DEF Poll, Doing, allresumeack
  <2>3. a.st = "resuming"  BY <1>5 DEF MayControl
  <2>4. /\ b \in Controls /\ b.e = a.e /\ b.t = a.t /\ b.st = "free" /\ b.on = a.on
        /\ b.h = a.h /\ b.auto = a.auto /\ FoundSame(a, b)
    BY <2>1, <2>3, <1>1 DEF Controls, FoundSame, FoundOK
  <2>5. CommandOK(b)'  BY <2>2, <2>3, <2>4, <1>1, <1>2 DEF CommandOK, CommandAt, Tried, Sized
  <2>6. StageOK(b)'  BY <2>2, <2>3, <2>4, <1>1, <1>2 DEF StageOK, selection, requests
  <2>7. FoundOK(b)'  BY <2>4, <1>1, FoundKept
  <2> QED  BY <2>4, <2>5, <2>6, <2>7, <1>1, <1>2, ControlParts DEF ControlHolds, selection
<1>6. CASE x[1] = "abstractcs"
  <2>1. b = [a EXCEPT !.e = "seen"]  BY <1>6 DEF AfterControl
  <2>2. ~busy /\ cmderr_read' = cmderr  BY <1>6 DEF Poll, Doing
  <2>3. Held(a) /\ a.e = "run"  BY <1>6 DEF MayControl
  <2>4. /\ b \in Controls /\ b.e = "seen" /\ b.t = a.t /\ b.st = a.st /\ b.on = a.on
        /\ b.h = a.h /\ b.auto = a.auto /\ FoundSame(a, b)
    BY <2>1, <2>3, <1>1 DEF Controls, FoundSame, FoundOK, Held
  <2>5. CommandOK(b)'  BY <2>2, <2>3, <2>4, <1>1, <1>2 DEF CommandOK, CommandAt, Tried, Sized, Held
  <2>6. StageOK(b)'  BY <2>4, <1>1, <1>2, StageKept
  <2>7. FoundOK(b)'  BY <2>4, <1>1, FoundKept
  <2> QED  BY <2>4, <2>5, <2>6, <2>7, <1>1, <1>2, ControlParts DEF ControlHolds, selection
<1> QED  BY <1>3, <1>4, <1>5, <1>6 DEF Poll, Doing

LEMMA ReadStep ==
  ASSUME NEW a, NEW b, ControlHolds(a), MayControl(a, todo[1]), b = AfterControl(a, todo[1]),
         ReadData \/ Save \/ Copy
  PROVE  ControlHolds(b)'
<1> DEFINE x == todo[1]
<1>1. /\ a \in Controls /\ CommandOK(a) /\ StageOK(a) /\ FoundOK(a) /\ a.auto = abstractauto
      /\ xpc \in Int /\ a.on = dmactive
      /\ UNCHANGED <<found, current_hart, dmcontrol, cmderr_read>>
  BY ControlParts DEF ReadData, Save, Copy
<1>2. b = a  BY DEF ReadData, Save, Copy, Doing, AfterControl
<1>3. UNCHANGED <<selection, requests, halted, command, abstractauto, busy, cmderr, xpc>>
  <2>1. CASE Save \/ Copy  BY <2>1 DEF Save, Copy, dmvars
  <2>2. CASE ReadData
    <3>1. x[1] = "readData" /\ DataRead(Arg)  BY <2>2 DEF ReadData, Doing
    <3>2. Held(a) /\ a.e # "run" /\ ~a.auto  BY <3>1 DEF MayControl
    <3>3. dmactive /\ ~busy  BY <3>2, Written
    <3> QED  BY <3>1, <3>2, <3>3, <1>1 DEF DataRead, Writing
  <2> QED  BY <2>1, <2>2
<1>4. CommandOK(a)'  BY <1>1, <1>3 DEF CommandOK, CommandAt, Tried, Sized
<1>5. StageOK(a)'  BY <1>1, <1>3, StageKept
<1>6. FoundOK(a)'  BY <1>1, <1>3 DEF FoundOK, found, selection
<1> QED  BY <1>1, <1>2, <1>3, <1>4, <1>5, <1>6, ControlParts DEF ControlHolds, selection

LEMMA CheckStep ==
  ASSUME NEW a, NEW b, ControlHolds(a), MayControl(a, todo[1]), b = AfterControl(a, todo[1]),
         Succeeds \/ die
  PROVE  ControlHolds(b)'
<1> DEFINE x == todo[1]
<1>1. /\ a \in Controls /\ CommandOK(a) /\ a.auto = abstractauto
      /\ xpc \in Int /\ UNCHANGED <<found, current_hart, locals>>
  BY ControlParts DEF Succeeds, die
<1>2. x[1] = "check"  BY DEF Succeeds, die, Doing
<1>3. Held(a) /\ a.e = "seen"  BY <1>2 DEF MayControl
<1>4. dmactive /\ ~busy /\ cmderr_read = cmderr
  BY <1>1, <1>3, Written DEF CommandOK, CommandAt, Tried, Sized
<1>5. b = [a EXCEPT !.e = "ok", !.t = 0]  BY <1>2 DEF AfterControl
<1>0. b \in Controls
  <2>1. a \in Controls  BY ControlParts
  <2>2. [a EXCEPT !.e = "ok", !.t = 0] \in Controls  BY <2>1 DEF Controls
  <2> QED  BY <1>5, <2>2
<1>6. /\ b.e = "ok" /\ b.t = 0 /\ b.st = a.st /\ b.on = a.on /\ b.h = a.h
      /\ b.auto = a.auto /\ b.cur = a.cur /\ b.running = a.running /\ b.num = a.num
      /\ b.xl = a.xl /\ b.mx = a.mx /\ b.dc = a.dc
  BY <1>5, <1>1 DEF Controls
<1>7. /\ UNCHANGED <<selection, requests, halted, command, abstractauto, busy, xpc>>
      /\ cmderr' = 0
  <2>1. CASE Succeeds  BY <2>1, <1>4 DEF Succeeds, dmvars
  <2>2. CASE die  BY <2>2, <1>4 DEF die, CmderrClear, Writing
  <2> QED  BY <2>1, <2>2
<1>8. CommandOK(b)'  BY <1>1, <1>3, <1>4, <1>6, <1>7 DEF CommandOK, CommandAt, Tried, Sized, Held
<1>9. a.st # "free"  BY <1>3 DEF Held
<1> QED  BY <1>0, <1>1, <1>6, <1>7, <1>8, <1>9, Within, ControlParts

LEMMA ReadDmcontrolStep ==
  ASSUME NEW a, NEW b, ControlHolds(a), MayControl(a, todo[1]), b = AfterControl(a, todo[1]),
         ReadDmcontrol
  PROVE  ControlHolds(b)'
<1> DEFINE x == todo[1]
<1>1. /\ a \in Controls /\ CommandOK(a) /\ StageOK(a) /\ FoundOK(a) /\ a.auto = abstractauto
      /\ xpc \in Int /\ a.on = dmactive /\ hartsel \in 0..MaxHartsel
      /\ dmcontrol' = DmcontrolRead
      /\ UNCHANGED <<dmvars, found, current_hart, cmderr_read>>
  BY ControlParts DEF ReadDmcontrol
<1>2. x[1] = "readDmcontrol"  BY DEF ReadDmcontrol, Doing
<1>3. Free(a)  BY <1>2 DEF MayControl
<1>4. b = [a EXCEPT !.dc = TRUE]  BY <1>2 DEF AfterControl
<1>5. /\ b.e = a.e /\ b.t = a.t /\ b.st = a.st /\ b.on = a.on /\ b.h = a.h
      /\ b.auto = a.auto /\ b.cur = a.cur /\ b.running = a.running /\ b.num = a.num
      /\ b.xl = a.xl /\ b.mx = a.mx /\ b.dc = TRUE
  BY <1>4, <1>1 DEF Controls
<1>0. b \in Controls  BY <1>4, <1>1 DEF Controls
<1>6. UNCHANGED <<selection, requests, halted, command, abstractauto, busy, cmderr, xpc>>
  BY <1>1 DEF dmvars
<1>7. CommandOK(b)'  BY <1>1, <1>5, <1>6 DEF CommandOK, CommandAt, Tried, Sized
<1>8. StageOK(b)'  BY <1>1, <1>5, <1>6, StageKept
<1>9. FoundOK(b)'
  BY <1>1, <1>3, <1>5, <1>6 DEF FoundOK, found, selection, DmcontrolRead, Free
<1> QED  BY <1>0, <1>1, <1>5, <1>6, <1>7, <1>8, <1>9, ControlParts DEF ControlHolds, selection

LEMMA WriteHartselStep ==
  ASSUME NEW a, NEW b, ControlHolds(a), MayControl(a, todo[1]), b = AfterControl(a, todo[1]),
         WriteHartsel
  PROVE  ControlHolds(b)'
<1> DEFINE x == todo[1]
           d == [dmcontrol EXCEPT !.hartsel = Arg]
           r == x[2] % (MaxHartsel + 1)
<1>1. /\ a \in Controls /\ CommandOK(a) /\ StageOK(a) /\ FoundOK(a) /\ a.auto = abstractauto
      /\ a.on = dmactive /\ dmactive \in BOOLEAN /\ abstractauto \in BOOLEAN
  BY ControlParts
<1>2. x[1] = "writeHartsel" /\ WriteDmcontrol(d)  BY DEF WriteHartsel, Doing
<1>3. a.dc /\ x[2] \in Nat  BY <1>2 DEF MayControl
<1>4. r \in 0..MaxHartsel
  <2>1. MaxHartsel \in Nat  BY Constants
  <2> QED  BY <2>1, <1>3, ModRange
<1>5. d.dmactive = dmactive /\ ~d.haltreq /\ ~d.resumereq /\ d.hartsel = x[2]
  BY <1>1, <1>3 DEF FoundOK, Arg
<1> HIDE DEF d, r
<1>6. b = [a EXCEPT !.dc = FALSE, !.h = IF a.on THEN r ELSE 0]
  BY <1>2 DEF AfterControl, r
<1>7. /\ b.e = a.e /\ b.t = a.t /\ b.st = a.st /\ b.on = a.on
      /\ b.h = (IF a.on THEN r ELSE 0)
      /\ b.auto = a.auto /\ b.cur = a.cur /\ b.running = a.running /\ b.num = a.num
      /\ b.xl = a.xl /\ b.mx = a.mx /\ b.dc = FALSE
  BY <1>6, <1>1 DEF Controls
<1>8. b \in Controls
  <2>1. (IF a.on THEN r ELSE 0) \in Nat  BY <1>4, Constants
  <2> QED  BY <2>1, <1>6, <1>1 DEF Controls
<1>9. /\ a.st = "free" /\ haltreq = {} /\ resumereq = {} /\ halted = {}
      /\ busy = FALSE /\ cmderr = 0 /\ abstractauto = FALSE /\ a.e = "ok" /\ a.t = 0
  BY <1>1, <1>3, ControlParts DEF FoundOK, CommandOK, CommandAt, Tried, Sized, StageOK
<1>10. /\ dmactive' = dmactive /\ hartsel' = (IF dmactive THEN r ELSE 0)
       /\ haltreq' = {} /\ resumereq' = {} /\ halted' = {}
       /\ abstractauto' = FALSE /\ busy' = FALSE /\ cmderr' = 0 /\ xpc' \in Int
       /\ command'.size \in Nat /\ command'.postexec \in BOOLEAN
       /\ UNCHANGED <<found, current_hart>>
  <2>0. NoCommand.size \in Nat /\ NoCommand.postexec \in BOOLEAN  BY DEF NoCommand
  <2>1. DmcontrolWrite(d) /\ UNCHANGED <<found, current_hart>>  BY <1>2 DEF WriteDmcontrol
  <2>2. CASE dmactive
    BY <2>1, <2>2, <1>1, <1>5, <1>9, ControlParts DEF DmcontrolWrite, CommandOK, CommandAt, Tried, Sized, r
  <2>3. CASE ~dmactive
    BY <2>0, <2>1, <2>3, <1>1, <1>5, <1>9 DEF DmcontrolWrite
  <2> QED  BY <2>2, <2>3
<1>11. StageOK(b)'  BY <1>7, <1>9, <1>10 DEF StageOK
<1>12. CommandOK(b)'  BY <1>1, <1>7, <1>9, <1>10 DEF CommandOK, CommandAt, Tried, Sized
<1>13. FoundOK(b)'
  <2>1. FoundSame(a, b)  BY <1>7 DEF FoundSame
  <2> QED  BY <2>1, <1>1, <1>10, FoundKept
<1>14. b.on = dmactive' /\ b.h = hartsel' /\ hartsel' \in 0..MaxHartsel
  BY <1>1, <1>4, <1>7, <1>10, Constants
<1>15. b.auto = abstractauto'  BY <1>1, <1>7, <1>9, <1>10
<1> QED  BY <1>8, <1>10, <1>11, <1>12, <1>13, <1>14, <1>15 DEF ControlHolds

LEMMA SwitchDmcontrolStep ==
  ASSUME NEW a, NEW b, ControlHolds(a), MayControl(a, todo[1]), b = AfterControl(a, todo[1]),
         SwitchDmcontrol
  PROVE  ControlHolds(b)'
<1>1. todo[1][1] = "dmcontrol" /\ WriteDmcontrol(todo[1][2])
  BY DEF SwitchDmcontrol, Doing, Arg
<1>2. MayDmcontrol(a, todo[1][2]) /\ b = AfterDmcontrol(a, todo[1][2])
  BY <1>1 DEF MayControl, AfterControl
<1>3. ~a.dc
  BY <1>2, ControlParts DEF MayDmcontrol, Free, Ready, Held, FoundOK
<1> QED  BY <1>1, <1>2, <1>3, DmcontrolStep

-------------------------------------------------------------------------------
(* The debug module and the harts go on.                                    *)

LEMMA ModuleControl ==
  ASSUME NEW a, ControlHolds(a), Transfer \/ ExecuteInstruction \/ EndProgram,
         UNCHANGED <<found, current_hart, dmcontrol, cmderr_read>>
  PROVE  ControlHolds(a)'
<1>1. /\ CommandOK(a) /\ StageOK(a) /\ FoundOK(a) /\ a.auto = abstractauto
      /\ xpc \in Int
  BY ControlParts
<1>2. busy /\ a.e = "run"
  <2>1. busy  BY DEF Transfer, ExecuteInstruction, EndProgram, Running
  <2>2. a.e \in {"ok", "run", "seen"}  BY ControlParts DEF Controls
  <2> QED  BY <2>1, <2>2, <1>1 DEF CommandOK, CommandAt, Tried, Sized
<1>3. UNCHANGED <<selection, requests, halted, command, abstractauto>>
  BY DEF Transfer, ExecuteInstruction, EndProgram
<1>4. cmderr = 0 /\ command.size <= Xlen /\ (xpc >= 0 => command.postexec)
  BY <1>1, <1>2 DEF CommandOK, CommandAt, Tried, Sized
<1>5. xpc' \in Int
  BY <1>1 DEF Transfer, ExecuteInstruction, EndProgram
<1>0. a.st = "held" /\ Sized(command') /\ Tried(a, command')
  <2>1. a.st = "held"  BY <1>1, <1>2 DEF CommandOK, CommandAt
  <2> QED  BY <2>1, <1>1, <1>3 DEF CommandOK, CommandAt, Tried, Sized
<1>6. ASSUME Transfer PROVE CommandOK(a)'
  <2>1. cmderr' = 0 /\ busy' = command.postexec /\ xpc' = 0  BY <1>4, <1>6 DEF Transfer
  <2>2. CASE command.postexec = TRUE
    <3>1. busy' = TRUE /\ command'.size <= Xlen /\ command'.postexec
      BY <2>1, <2>2, <1>3, <1>4
    <3> QED  BY <3>1, <2>1, <1>0, <1>2, <1>5, CommandRuns DEF CommandOK
  <2>3. CASE command.postexec = FALSE
    <3>1. busy' = FALSE /\ command'.size <= Xlen  BY <2>1, <2>3, <1>3, <1>4
    <3>2. OutcomeOf(command', cmderr')  BY <3>1, <2>1, <1>0, Outcomes
    <3> QED  BY <3>1, <3>2, <1>0, <1>2, CommandEnds DEF CommandOK
  <2>4. command.postexec \in BOOLEAN  BY <1>0, <1>3 DEF Sized
  <2> QED  BY <2>2, <2>3, <2>4
<1>7. ASSUME ExecuteInstruction PROVE CommandOK(a)'
  <2>1. UNCHANGED <<busy, cmderr>> /\ command.postexec
    BY <1>4, <1>7 DEF ExecuteInstruction, Running
  <2>2. busy' = TRUE /\ cmderr' = 0 /\ command'.size <= Xlen /\ command'.postexec
    BY <2>1, <1>2, <1>3, <1>4, ControlParts
  <2> QED  BY <2>2, <1>0, <1>2, <1>5, CommandRuns DEF CommandOK
<1>8. ASSUME EndProgram PROVE CommandOK(a)'
  <2>1. busy' = FALSE /\ cmderr' \in {0, ErrException}
    BY <1>4, <1>8 DEF EndProgram
  <2>2. command'.size <= Xlen /\ command'.postexec
    BY <1>3, <1>4, <1>8 DEF EndProgram, Running
  <2>3. OutcomeOf(command', cmderr')  BY <2>1, <2>2, <1>0, Outcomes
  <2> QED  BY <2>1, <2>3, <1>0, <1>2, CommandEnds DEF CommandOK
<1>9. CommandOK(a)' /\ busy' \in BOOLEAN
  <2>1. busy' \in BOOLEAN
    BY <1>1, ControlParts DEF Transfer, ExecuteInstruction, EndProgram, CommandOK, CommandAt, Tried, Sized
  <2>2. CommandOK(a)'  BY <1>6, <1>7, <1>8
  <2> QED  BY <2>1, <2>2
<1>10. StageOK(a)'  BY <1>1, <1>3, StageKept
<1>11. FoundOK(a)'  BY <1>1, <1>3 DEF FoundOK, found, selection
<1> QED  BY <1>1, <1>3, <1>5, <1>9, <1>10, <1>11, ControlParts DEF ControlHolds, selection

\* A hart halts or resumes, or steps.
LEMMA HartControl ==
  ASSUME NEW a, ControlHolds(a), HartsStep
  PROVE  ControlHolds(a)'
<1>1. PICK h \in Harts : HartHalts(h) \/ HartResumes(h)  BY DEF HartsStep
<1>2. /\ CommandOK(a) /\ StageOK(a) /\ FoundOK(a)
      /\ UNCHANGED <<selection, command, abstractauto, busy, cmderr, xpc>>
      /\ UNCHANGED <<found, current_hart, dmcontrol, cmderr_read>>
  BY <1>1, ControlParts DEF HartsStep, HartHalts, HartResumes, hostvars, locals
<1>3. CommandOK(a)'  BY <1>2 DEF CommandOK, CommandAt, Tried, Sized
<1>4. FoundOK(a)'  BY <1>2 DEF FoundOK, found, selection
<1>5. a.st \in {"free", "halting", "halted", "held", "resuming"}  BY ControlParts DEF Controls
<1>6. CASE HartHalts(h)
  <2>1. /\ h \in haltreq \ halted /\ halted' = halted \cup {h}
        /\ UNCHANGED <<haltreq, resumereq, resumeack>>
    BY <1>6 DEF HartHalts, requests
  <2>2. a.st = "halting" /\ h = hartsel  BY <2>1, <1>2, <1>5 DEF StageOK
  <2> QED
    <3>1. StageOK(a)'  BY <2>1, <2>2, <1>2 DEF StageOK, selection
    <3> QED  BY <3>1, <1>2, <1>3, <1>4, ControlParts DEF ControlHolds, selection
<1>7. CASE HartResumes(h)
  <2>1. /\ h \in resumereq /\ halted' = halted \ {h} /\ resumereq' = resumereq \ {h}
        /\ resumeack' = resumeack \cup {h} /\ UNCHANGED haltreq
    BY <1>7 DEF HartResumes
  <2>2. a.st = "resuming" /\ h = hartsel  BY <2>1, <1>2, <1>5 DEF StageOK
  <2> QED
    <3>1. StageOK(a)'  BY <2>1, <2>2, <1>2 DEF StageOK, selection
    <3> QED  BY <3>1, <1>2, <1>3, <1>4, ControlParts DEF ControlHolds, selection
<1> QED  BY <1>1, <1>6, <1>7

LEMMA SameControl ==
  ASSUME NEW a, ControlHolds(a),
         UNCHANGED <<selection, requests, command, abstractauto, busy, cmderr, xpc, halted>>,
         UNCHANGED <<found, current_hart, dmcontrol, cmderr_read>>
  PROVE  ControlHolds(a)'
<1>1. CommandOK(a) /\ StageOK(a) /\ FoundOK(a)  BY ControlParts
<1>2. CommandOK(a)'  BY <1>1 DEF CommandOK, CommandAt, Tried, Sized
<1>3. FoundOK(a)'  BY <1>1 DEF FoundOK, found, selection
<1>4. StageOK(a)'  BY <1>1, StageKept
<1> QED  BY <1>2, <1>3, <1>4, ControlParts DEF ControlHolds, selection

-------------------------------------------------------------------------------
(* Short sequences.                                                         *)

LEMMA PathTwo ==
  ASSUME NEW k, NEW a, NEW x, NEW b, NEW y, NEW c,
         May(k, a, x), b = After(k, a, x), May(k, b, y), c = After(k, b, y)
  PROVE  Path(k, a, <<x, y>>, c)
<1> DEFINE s == <<x, y>>
           L == [i \in 0..2 |->
                  IF i = 0 THEN a ELSE IF i = 1 THEN b ELSE c]
<1>1. s = [i \in 1..2 |-> s[i]]  OBVIOUS
<1>2. L[0] = a /\ L[1] = b /\ L[2] = c  OBVIOUS
<1>3. s[1] = x /\ s[2] = y  OBVIOUS
<1> HIDE DEF s, L
<1>4. ASSUME NEW i \in 1..2
      PROVE  May(k, L[i - 1], s[i]) /\ L[i] = After(k, L[i - 1], s[i])
  <2>1. (i = 1 /\ i - 1 = 0) \/ (i = 2 /\ i - 1 = 1)  OBVIOUS
  <2> QED  BY <2>1, <1>2, <1>3
<1>5. Along(k, a, s, c, 2, L)  BY <1>1, <1>2, <1>4 DEF Along
<1>6. Path(k, a, s, c)  BY <1>5 DEF Path
<1> QED  BY <1>6 DEF s

LEMMA PathThree ==
  ASSUME NEW k, NEW a, NEW x, NEW b, NEW y, NEW c, NEW z, NEW d,
         May(k, a, x), b = After(k, a, x), May(k, b, y), c = After(k, b, y),
         May(k, c, z), d = After(k, c, z)
  PROVE  Path(k, a, <<x, y, z>>, d)
<1> DEFINE s == <<x, y, z>>
           L == [i \in 0..3 |->
                  IF i = 0 THEN a ELSE IF i = 1 THEN b ELSE IF i = 2 THEN c ELSE d]
<1>1. s = [i \in 1..3 |-> s[i]]  OBVIOUS
<1>2. L[0] = a /\ L[1] = b /\ L[2] = c /\ L[3] = d  OBVIOUS
<1>3. s[1] = x /\ s[2] = y /\ s[3] = z  OBVIOUS
<1> HIDE DEF s, L
<1>4. ASSUME NEW i \in 1..3
      PROVE  May(k, L[i - 1], s[i]) /\ L[i] = After(k, L[i - 1], s[i])
  <2>1. (i = 1 /\ i - 1 = 0) \/ (i = 2 /\ i - 1 = 1) \/ (i = 3 /\ i - 1 = 2)  OBVIOUS
  <2> QED  BY <2>1, <1>2, <1>3
<1>5. Along(k, a, s, d, 3, L)  BY <1>1, <1>2, <1>4 DEF Along
<1>6. Path(k, a, s, d)  BY <1>5 DEF Path
<1> QED  BY <1>6 DEF s

LEMMA PathFour ==
  ASSUME NEW k, NEW a, NEW x, NEW b, NEW y, NEW c, NEW z, NEW d, NEW w, NEW e,
         May(k, a, x), b = After(k, a, x), May(k, b, y), c = After(k, b, y),
         May(k, c, z), d = After(k, c, z), May(k, d, w), e = After(k, d, w)
  PROVE  Path(k, a, <<x, y, z, w>>, e)
<1> DEFINE s == <<x, y, z, w>>
           L == [i \in 0..4 |->
                  CASE i = 0 -> a [] i = 1 -> b [] i = 2 -> c [] i = 3 -> d [] i = 4 -> e]
<1>1. s = [i \in 1..4 |-> s[i]]  OBVIOUS
<1>2. L[0] = a /\ L[1] = b /\ L[2] = c /\ L[3] = d /\ L[4] = e  OBVIOUS
<1>3. s[1] = x /\ s[2] = y /\ s[3] = z /\ s[4] = w  OBVIOUS
<1> HIDE DEF s, L
<1>4. ASSUME NEW i \in 1..4
      PROVE  May(k, L[i - 1], s[i]) /\ L[i] = After(k, L[i - 1], s[i])
  <2>1. i = 1 \/ i = 2 \/ i = 3 \/ i = 4  OBVIOUS
  <2> QED  BY <2>1, <1>2, <1>3
<1>5. Along(k, a, s, e, 4, L)  BY <1>1, <1>2, <1>4 DEF Along
<1>6. Path(k, a, s, e)  BY <1>5 DEF Path
<1> QED  BY <1>6 DEF s

LEMMA PathFive ==
  ASSUME NEW k, NEW a, NEW x, NEW b, NEW y, NEW c, NEW z, NEW d, NEW w, NEW e, NEW v, NEW f,
         May(k, a, x), b = After(k, a, x), May(k, b, y), c = After(k, b, y),
         May(k, c, z), d = After(k, c, z), May(k, d, w), e = After(k, d, w),
         May(k, e, v), f = After(k, e, v)
  PROVE  Path(k, a, <<x, y, z, w, v>>, f)
<1> DEFINE s == <<x, y, z, w, v>>
           L == [i \in 0..5 |->
                  CASE i = 0 -> a [] i = 1 -> b [] i = 2 -> c
                    [] i = 3 -> d [] i = 4 -> e [] i = 5 -> f]
<1>1. s = [i \in 1..5 |-> s[i]]  OBVIOUS
<1>2. L[0] = a /\ L[1] = b /\ L[2] = c /\ L[3] = d /\ L[4] = e /\ L[5] = f  OBVIOUS
<1>3. s[1] = x /\ s[2] = y /\ s[3] = z /\ s[4] = w /\ s[5] = v  OBVIOUS
<1> HIDE DEF s, L
<1>4. ASSUME NEW i \in 1..5
      PROVE  May(k, L[i - 1], s[i]) /\ L[i] = After(k, L[i - 1], s[i])
  <2>1. i = 1 \/ i = 2 \/ i = 3 \/ i = 4 \/ i = 5  OBVIOUS
  <2> QED  BY <2>1, <1>2, <1>3
<1>5. Along(k, a, s, f, 5, L)  BY <1>1, <1>2, <1>4 DEF Along
<1>6. Path(k, a, s, f)  BY <1>5 DEF Path
<1> QED  BY <1>6 DEF s

\* Outlines with the same fields are the same.
LEMMA SameOutline ==
  ASSUME NEW a \in Controls, NEW b \in Controls,
         a.st = b.st, a.e = b.e, a.h = b.h, a.cur = b.cur, a.t = b.t, a.on = b.on,
         a.auto = b.auto, a.running = b.running, a.num = b.num, a.xl = b.xl,
         a.mx = b.mx, a.dc = b.dc
  PROVE  a = b
BY DEF Controls

-------------------------------------------------------------------------------
(* The routines.                                                            *)

\* The dmcontrol values of the routines.
LEMMA Actives ==
  ASSUME NEW h
  PROVE  /\ Off.dmactive = FALSE /\ Off.hartsel = 0
         /\ Off.haltreq = FALSE /\ Off.resumereq = FALSE
         /\ Active(h).dmactive = TRUE /\ Active(h).hartsel = h
         /\ Active(h).haltreq = FALSE /\ Active(h).resumereq = FALSE
         /\ LET d == [Active(h) EXCEPT !.haltreq = TRUE]
            IN d.dmactive = TRUE /\ d.hartsel = h /\ d.haltreq = TRUE /\ d.resumereq = FALSE
         /\ LET d == [Active(h) EXCEPT !.resumereq = TRUE]
            IN d.dmactive = TRUE /\ d.hartsel = h /\ d.haltreq = FALSE /\ d.resumereq = TRUE
BY DEF Off, Active

LEMMA HaltPath ==
  ASSUME NEW a \in Controls, NEW h \in Harts, Free(a), a.on \/ a.running, a.running = running
  PROVE  Path("control", a, halt(h),
              [a EXCEPT !.st = "held", !.on = TRUE, !.h = h, !.cur = h])
<1>0. h \in 0..MaxHartsel /\ h \in Nat /\ 0 \in 0..MaxHartsel
  BY Constants DEF Harts
<1> DEFINE first == IF running THEN << <<"dmcontrol", Active(0)>>, <<"dmstatus">> >> ELSE <<>>
           b == IF running THEN [a EXCEPT !.on = TRUE, !.h = 0] ELSE a
           d1 == [Active(h) EXCEPT !.haltreq = TRUE]
           c1 == [b EXCEPT !.st = "halting", !.h = h]
           c2 == [c1 EXCEPT !.st = "halted"]
           c3 == [c2 EXCEPT !.st = "held"]
           c5 == [c3 EXCEPT !.cur = h]
           second == << <<"dmcontrol", d1>>, <<"allhalted">>,
                        <<"dmcontrol", Active(h)>>, <<"dmstatus">>, <<"hart", h>> >>
<1>1. Path("control", a, first, b)
  <2>1. CASE running
    <3>1. MayControl(a, <<"dmcontrol", Active(0)>>)
      BY <1>0, Actives DEF MayControl, MayDmcontrol
    <3>2. b = AfterControl(a, <<"dmcontrol", Active(0)>>)
      BY <2>1, Actives DEF AfterControl, AfterDmcontrol, Free
    <3>3. MayControl(b, <<"dmstatus">>) /\ b = AfterControl(b, <<"dmstatus">>)
      BY <2>1 DEF MayControl, AfterControl, Free, Controls
    <3> QED  BY <2>1, <3>1, <3>2, <3>3, PathTwo DEF May, After
  <2>2. CASE ~running  BY <2>2, PathNone
  <2> QED  BY <2>1, <2>2
<1>2. b \in Controls /\ Free(b) /\ b.on
  BY DEF Controls, Free
<1> HIDE DEF b
<1>3. MayControl(b, <<"dmcontrol", d1>>) /\ c1 = AfterControl(b, <<"dmcontrol", d1>>)
  BY <1>0, <1>2, Actives DEF MayControl, MayDmcontrol, AfterControl, AfterDmcontrol
<1>4. c1 \in Controls /\ c1.st = "halting" /\ c1.h = h /\ c1.e = "ok"
  BY <1>0, <1>2 DEF Controls, Free
<1> HIDE DEF c1, d1
<1>5. MayControl(c1, <<"allhalted">>) /\ c2 = AfterControl(c1, <<"allhalted">>)
  BY <1>4 DEF MayControl, AfterControl
<1>6. c2 \in Controls /\ c2.st = "halted" /\ c2.h = h /\ c2.e = "ok"
  BY <1>4 DEF Controls
<1> HIDE DEF c2
<1>7. MayControl(c2, <<"dmcontrol", Active(h)>>) /\ c3 = AfterControl(c2, <<"dmcontrol", Active(h)>>)
  BY <1>0, <1>6, Actives DEF MayControl, MayDmcontrol, AfterControl, AfterDmcontrol
<1>8. c3 \in Controls /\ c3.e = "ok"
  BY <1>6 DEF Controls
<1> HIDE DEF c3
<1>9. MayControl(c3, <<"dmstatus">>) /\ c3 = AfterControl(c3, <<"dmstatus">>)
  BY <1>8 DEF MayControl, AfterControl
<1>10. MayControl(c3, <<"hart", h>>) /\ c5 = AfterControl(c3, <<"hart", h>>)
  BY <1>0, <1>8 DEF MayControl, AfterControl
<1>11. Path("control", b, second, c5)
  BY <1>3, <1>5, <1>7, <1>9, <1>10, PathFive DEF May, After
<1>12. Path("control", a, first \o second, c5)  BY <1>1, <1>11, PathJoin
<1>13. c5 = [a EXCEPT !.st = "held", !.on = TRUE, !.h = h, !.cur = h]
  BY <1>0, <1>2 DEF c3, c2, c1, b, Controls
<1> QED  BY <1>12, <1>13 DEF halt, d1

LEMMA ResumePath ==
  ASSUME NEW a \in Controls, Ready(a), a.on, a.h \in Harts, a.running = running
  PROVE  Path("control", a, resume(a.h), AfterControl(a, <<"resume", a.h>>))
<1>0. a.h \in 0..MaxHartsel /\ a.h \in Nat /\ 0 \in 0..MaxHartsel
  BY Constants DEF Harts
<1> DEFINE h == a.h
           d1 == [Active(h) EXCEPT !.resumereq = TRUE]
           c1 == [a EXCEPT !.st = "resuming"]
           c2 == [c1 EXCEPT !.st = "free"]
           c5 == [c2 EXCEPT !.cur = h]
           b == IF running THEN [c5 EXCEPT !.on = FALSE, !.h = 0] ELSE c5
           first == << <<"dmcontrol", d1>>, <<"allresumeack">>,
                       <<"dmcontrol", Active(h)>>, <<"dmstatus">>, <<"hart", h>> >>
           second == IF running THEN << <<"dmcontrol", Off>>, <<"dmstatus">> >> ELSE <<>>
<1>1. MayControl(a, <<"dmcontrol", d1>>) /\ c1 = AfterControl(a, <<"dmcontrol", d1>>)
  BY <1>0, Actives DEF MayControl, MayDmcontrol, AfterControl, AfterDmcontrol
<1>2. /\ c1 \in Controls /\ c1.st = "resuming" /\ c1.h = h /\ c1.e = "ok" /\ c1.on /\ ~c1.dc
      /\ ~c1.auto /\ c1.t = 0
  BY DEF Controls, Ready, Held
<1> HIDE DEF c1, d1, h
<1>3. MayControl(c1, <<"allresumeack">>) /\ c2 = AfterControl(c1, <<"allresumeack">>)
  BY <1>2 DEF MayControl, AfterControl
<1>4. c2 \in Controls /\ Free(c2) /\ c2.h = h /\ c2.e = "ok" /\ c2.on = TRUE
  BY <1>2 DEF Controls, Free
<1> HIDE DEF c2
<1>5. MayControl(c2, <<"dmcontrol", Active(h)>>)
  BY <1>0, <1>4, Actives DEF MayControl, MayDmcontrol, h
<1>6. c2 = AfterControl(c2, <<"dmcontrol", Active(h)>>)
  <2>1. AfterControl(c2, <<"dmcontrol", Active(h)>>) = [c2 EXCEPT !.on = TRUE, !.h = h]
    BY <1>4, Actives DEF AfterControl, AfterDmcontrol, Free
  <2>2. c2 = [c2 EXCEPT !.on = TRUE, !.h = h]  BY <1>4 DEF Controls
  <2> QED  BY <2>1, <2>2
<1>7. MayControl(c2, <<"dmstatus">>) /\ c2 = AfterControl(c2, <<"dmstatus">>)
  BY <1>4 DEF MayControl, AfterControl
<1>8. MayControl(c2, <<"hart", h>>) /\ c5 = AfterControl(c2, <<"hart", h>>)
  BY <1>0, <1>4 DEF MayControl, AfterControl, h
<1>9. Path("control", a, first, c5)
  BY <1>1, <1>3, <1>5, <1>6, <1>7, <1>8, PathFive DEF May, After
<1>10. c5 \in Controls /\ Free(c5)  BY <1>0, <1>4 DEF Controls, Free, h
<1>11. Path("control", c5, second, b)
  <2>1. CASE running
    <3>1. MayControl(c5, <<"dmcontrol", Off>>)
      BY <1>0, <1>10, Actives DEF MayControl, MayDmcontrol
    <3>2. b = AfterControl(c5, <<"dmcontrol", Off>>)
      <4>1. AfterControl(c5, <<"dmcontrol", Off>>) =
              [c5 EXCEPT !.on = Off.dmactive,
                         !.h = IF c5.on /\ Off.dmactive THEN Off.hartsel ELSE 0]
        BY <1>10, Actives DEF AfterControl, AfterDmcontrol, Free
      <4>2. Off.dmactive = FALSE
            /\ (IF c5.on /\ Off.dmactive THEN Off.hartsel ELSE 0) = 0
        BY Actives
      <4> HIDE DEF c5
      <4> QED  BY <4>1, <4>2, <2>1
    <3>3. MayControl(b, <<"dmstatus">>) /\ b = AfterControl(b, <<"dmstatus">>)
      BY <2>1, <1>10 DEF MayControl, AfterControl, Free, Controls
    <3> QED  BY <2>1, <3>1, <3>2, <3>3, PathTwo DEF May, After
  <2>2. CASE ~running  BY <2>2, PathNone
  <2> QED  BY <2>1, <2>2
<1>12. Path("control", a, first \o second, b)  BY <1>9, <1>11, PathJoin
<1>13. b = AfterControl(a, <<"resume", h>>)
  <2>1. AfterControl(a, <<"resume", h>>) =
          [a EXCEPT !.st = "free", !.cur = h, !.on = ~a.running,
                    !.h = IF a.running THEN 0 ELSE h]
    BY DEF AfterControl
  <2>2. CASE running = TRUE
    BY <2>1, <2>2, <1>0 DEF b, c5, c2, c1, h, Controls
  <2>3. CASE running = FALSE
    <3>1. (~a.running) = TRUE /\ (IF a.running THEN 0 ELSE h) = h /\ b = c5
      BY <2>3
    <3>2. AfterControl(a, <<"resume", h>>) = [a EXCEPT !.st = "free", !.cur = h, !.on = TRUE, !.h = h]
      BY <2>1, <3>1
    <3>3. a.on = TRUE  BY DEF Controls
    <3>4. c5 = [a EXCEPT !.st = "free", !.cur = h, !.on = TRUE, !.h = h]
      BY <3>3 DEF c5, c2, c1, h, Controls
    <3> QED  BY <3>1, <3>2, <3>4
  <2>4. running \in BOOLEAN  BY DEF Controls
  <2> QED  BY <2>2, <2>3, <2>4
<1>14. first \o second = resume(h)  BY DEF resume, d1
<1>15. Path("control", a, resume(h), AfterControl(a, <<"resume", h>>))
  BY <1>12, <1>13, <1>14
<1> QED  BY <1>15 DEF h

LEMMA SelectPath ==
  ASSUME NEW a \in Controls, NEW h \in 0..MaxHartsel, Free(a)
  PROVE  Path("control", a, select_hart(h), AfterControl(a, <<"select_hart", h>>))
<1> DEFINE r == h % (MaxHartsel + 1)
           c1 == [a EXCEPT !.dc = TRUE]
           c2 == [c1 EXCEPT !.dc = FALSE, !.h = IF c1.on THEN r ELSE 0]
           c3 == [c2 EXCEPT !.cur = h]
<1>0. r = h /\ h \in Nat
  <2>1. MaxHartsel \in Nat  BY Constants
  <2> QED  BY <2>1, ModSmall
<1>1. MayControl(a, <<"readDmcontrol">>) /\ c1 = AfterControl(a, <<"readDmcontrol">>)
  BY DEF MayControl, AfterControl
<1>2. c1 \in Controls /\ c1.dc /\ c1.st = "free" /\ c1.e = "ok"  BY DEF Controls, Free
<1> HIDE DEF c1
<1>3. MayControl(c1, <<"writeHartsel", h>>) /\ c2 = AfterControl(c1, <<"writeHartsel", h>>)
  BY <1>0, <1>2 DEF MayControl, AfterControl
<1>4. c2 \in Controls  BY <1>0, <1>2 DEF Controls
<1> HIDE DEF c2
<1>5. MayControl(c2, <<"hart", h>>) /\ c3 = AfterControl(c2, <<"hart", h>>)
  BY <1>4 DEF MayControl, AfterControl
<1>6. Path("control", a, select_hart(h), c3)
  BY <1>1, <1>3, <1>5, PathThree DEF May, After, select_hart
<1>7. c3 = AfterControl(a, <<"select_hart", h>>)
  <2>1. AfterControl(a, <<"select_hart", h>>) =
          [a EXCEPT !.cur = h, !.h = IF a.on THEN h ELSE 0]
    BY DEF AfterControl
  <2> QED  BY <2>1, <1>0 DEF c3, c2, c1, Free, Controls
<1> QED  BY <1>6, <1>7

\* The data registers are read, or written.
Moves(c, transfers) ==
  /\ \E m \in Nat : transfers = [i \in 1..m |-> transfers[i]]
                    /\ \A i \in 1..m : transfers[i][1] \in
                         (IF c.write THEN {"data", "saved"} ELSE {"readData"})
  /\ c.size \in Nat /\ c.postexec \in BOOLEAN

\* The command has been waited for.
Ran(a, c) == [a EXCEPT !.e = "seen", !.t = IF c.postexec THEN 0 ELSE c.size]

LEMMA RunPath ==
  ASSUME NEW a \in Controls, Ready(a), NEW c, NEW prog, Len(prog) \in Nat,
         NEW transfers, Moves(c, transfers)
  PROVE  Path("control", a, run_abstract_command(c, prog, transfers), Ran(a, c))
<1> DEFINE load == [i \in 1..Len(prog) |-> <<"progbuf", i - 1, prog[i]>>]
           before == IF c.write THEN transfers ELSE <<>>
           after == IF c.write THEN <<>> ELSE transfers
           go == << <<"command", c>>, <<"abstractcs">> >>
           b == [a EXCEPT !.e = "run", !.t = IF c.postexec THEN 0 ELSE c.size]
           d == [b EXCEPT !.e = "seen"]
<1>1. PICK m \in Nat : /\ transfers = [i \in 1..m |-> transfers[i]]
                       /\ \A i \in 1..m : transfers[i][1] \in
                            (IF c.write THEN {"data", "saved"} ELSE {"readData"})
  BY DEF Moves
<1>2. Path("control", a, load, a)
  <2> DEFINE n == Len(prog)
  <2>1. load = [i \in 1..n |-> load[i]]  OBVIOUS
  <2>2. \A i \in 1..n : load[i][1] = "progbuf"  OBVIOUS
  <2> HIDE DEF load
  <2>3. \A i \in 1..n : MayControl(a, load[i]) /\ AfterControl(a, load[i]) = a
    BY <2>2 DEF MayControl, AfterControl, Ready
  <2> QED  BY <2>1, <2>3, PathSame DEF May, After
<1>3. Path("control", a, before, a)
  <2>1. CASE c.write
    <3>1. \A i \in 1..m : transfers[i][1] \in {"data", "saved"}  BY <2>1, <1>1
    <3>2. \A i \in 1..m : MayControl(a, transfers[i]) /\ AfterControl(a, transfers[i]) = a
      BY <3>1 DEF MayControl, AfterControl, Ready
    <3> QED  BY <2>1, <3>2, <1>1, PathSame DEF May, After
  <2>2. CASE ~c.write  BY <2>2, PathNone
  <2> QED  BY <2>1, <2>2
<1>4. MayControl(a, <<"command", c>>) /\ b = AfterControl(a, <<"command", c>>)
  BY DEF MayControl, AfterControl, Moves
<1>5. b \in Controls /\ b.e = "run" /\ Held(b)  BY DEF Controls, Moves, Ready, Held
<1>6. MayControl(b, <<"abstractcs">>) /\ d = AfterControl(b, <<"abstractcs">>)
  BY <1>5 DEF MayControl, AfterControl
<1>7. d \in Controls /\ d.e = "seen" /\ Held(d) /\ ~d.auto
  BY DEF Controls, Moves, Ready, Held
<1>8. d = Ran(a, c)  BY DEF Controls, Moves, Ran
<1> HIDE DEF b, d
<1>9. Path("control", a, go, d)  BY <1>4, <1>6, PathTwo DEF May, After
<1>10. Path("control", d, after, d)
  <2>1. CASE ~c.write
    <3>1. \A i \in 1..m : transfers[i][1] = "readData"  BY <2>1, <1>1
    <3>2. \A i \in 1..m : MayControl(d, transfers[i]) /\ AfterControl(d, transfers[i]) = d
      BY <3>1, <1>7 DEF MayControl, AfterControl
    <3> QED  BY <2>1, <3>2, <1>1, PathSame DEF May, After
  <2>2. CASE c.write  BY <2>2, PathNone
  <2> QED  BY <2>1, <2>2
<1>11. Path("control", a, ((load \o before) \o go) \o after, d)
  BY <1>2, <1>3, <1>9, <1>10, PathJoin
<1> QED  BY <1>8, <1>11 DEF run_abstract_command

LEMMA RunOrDiePath ==
  ASSUME NEW a \in Controls, Ready(a), NEW c, NEW prog, Len(prog) \in Nat,
         NEW transfers, Moves(c, transfers)
  PROVE  Path("control", a, RUN_AC_OR_DIE(c, prog, transfers), a)
<1> DEFINE d == Ran(a, c)
<1>1. Path("control", a, run_abstract_command(c, prog, transfers), d)  BY RunPath
<1>2. d \in Controls /\ d.e = "seen" /\ Held(d)  BY DEF Controls, Moves, Ready, Held, Ran
<1>3. [d EXCEPT !.e = "ok", !.t = 0] = a  BY DEF Controls, Moves, Ready, Ran
<1> HIDE DEF d
<1>4. MayControl(d, <<"check">>) /\ AfterControl(d, <<"check">>) = a
  BY <1>2, <1>3 DEF MayControl, AfterControl
<1>5. Path("control", d, << <<"check">> >>, a)  BY <1>4, PathOne DEF May, After
<1> QED  BY <1>1, <1>5, PathJoin DEF RUN_AC_OR_DIE

LEMMA Movings ==
  ASSUME xlen \in Nat, NEW r, NEW p \in BOOLEAN, NEW v
  PROVE  /\ Moves(GetRegister(r, p), Reads) /\ Moves(GetRegister(r, p), <<>>)
         /\ Moves(SetRegister(r, p), Writes(v)) /\ Moves(SetRegister(r, p), Restores(v))
         /\ Moves(SetRegister(r, p), <<>>)
         /\ ~GetRegister(r, p).write /\ SetRegister(r, p).write
         /\ GetRegister(r, p).size = xlen /\ GetRegister(r, p).postexec = p
<1>1. /\ GetRegister(r, p).write = FALSE /\ SetRegister(r, p).write = TRUE
      /\ GetRegister(r, p).size = xlen /\ SetRegister(r, p).size = xlen
      /\ GetRegister(r, p).postexec = p /\ SetRegister(r, p).postexec = p
  BY DEF GetRegister, SetRegister
<1>2. PICK m \in Nat : m = xlen \div 32  OBVIOUS
<1>3. Reads = [i \in 1..m |-> Reads[i]] /\ \A i \in 1..m : Reads[i][1] = "readData"
  BY <1>2 DEF Reads
<1>4. Writes(v) = [i \in 1..m |-> Writes(v)[i]] /\ \A i \in 1..m : Writes(v)[i][1] = "data"
  BY <1>2 DEF Writes
<1>5. /\ Restores(v) = [i \in 1..m |-> Restores(v)[i]]
      /\ \A i \in 1..m : Restores(v)[i][1] = "saved"
  BY <1>2 DEF Restores
<1>6. <<>> = [i \in 1..0 |-> <<>>[i]]  OBVIOUS
<1>7. Moves(GetRegister(r, p), Reads)  BY <1>1, <1>2, <1>3 DEF Moves
<1>8. Moves(SetRegister(r, p), Writes(v))  BY <1>1, <1>2, <1>4 DEF Moves
<1>9. Moves(SetRegister(r, p), Restores(v))  BY <1>1, <1>2, <1>5 DEF Moves
<1>10. Moves(GetRegister(r, p), <<>>) /\ Moves(SetRegister(r, p), <<>>)
  BY <1>1, <1>6 DEF Moves
<1> QED  BY <1>1, <1>7, <1>8, <1>9, <1>10

\* With the hart in hand, a register is written or read, or a program executed.
LEMMA BodyPaths ==
  ASSUME NEW a \in Controls, Ready(a), xlen \in Nat, NEW r, NEW p \in BOOLEAN, NEW v,
         NEW prog, Len(prog) \in Nat
  PROVE  /\ Path("control", a, RUN_AC_OR_DIE(GetRegister(r, p), prog, Reads), a)
         /\ Path("control", a, RUN_AC_OR_DIE(SetRegister(r, p), prog, Writes(v)), a)
         /\ Path("control", a, RUN_AC_OR_DIE(SetRegister(r, p), prog, Restores(v)), a)
         /\ Path("control", a, RUN_AC_OR_DIE(SetRegister(r, p), prog, <<>>), a)
BY Movings, RunOrDiePath

LEMMA SavePath ==
  ASSUME NEW a \in Controls, Ready(a), xlen \in Nat, NEW r
  PROVE  Path("control", a, save_reg(r), a) /\ Path("control", a, restore_reg(r), a)
<1>1. MayControl(a, <<"save", r>>) /\ a = AfterControl(a, <<"save", r>>)
  BY DEF MayControl, AfterControl
<1>2. Path("control", a, << <<"save", r>> >>, a)  BY <1>1, PathOne DEF May, After
<1>3. Len(<<>>) \in Nat /\ FALSE \in BOOLEAN  OBVIOUS
<1>4. Path("control", a, RUN_AC_OR_DIE(GetRegister(r, FALSE), <<>>, Reads), a)
  BY <1>3, BodyPaths
<1>5. Path("control", a, RUN_AC_OR_DIE(SetRegister(r, FALSE), <<>>, Restores(r)), a)
  BY <1>3, BodyPaths
<1> QED  BY <1>2, <1>4, <1>5, PathJoin DEF save_reg, restore_reg

LEMMA ReadsPath ==
  ASSUME NEW a \in Controls, Ready(a), xlen \in Nat
  PROVE  Path("control", a, Reads, a)
<1>1. PICK m \in Nat : m = xlen \div 32  OBVIOUS
<1>2. Reads = [i \in 1..m |-> Reads[i]] /\ \A i \in 1..m : Reads[i][1] = "readData"
  BY <1>1 DEF Reads
<1>3. \A i \in 1..m : MayControl(a, Reads[i]) /\ AfterControl(a, Reads[i]) = a
  BY <1>2 DEF MayControl, AfterControl, Ready
<1> QED  BY <1>2, <1>3, PathSame DEF May, After

\* The host may borrow the current hart.
Callable(a) ==
  /\ a \in Controls /\ Free(a) /\ a.running /\ a.running = running
  /\ a.cur = current_hart /\ a.cur \in Harts /\ xlen \in Nat

Borrowed(a) == [a EXCEPT !.st = "held", !.on = TRUE, !.h = a.cur]
GivenBack(a) == [a EXCEPT !.on = FALSE, !.h = 0]

LEMMA Borrowing ==
  ASSUME NEW a, Callable(a)
  PROVE  /\ Path("control", a, halt(current_hart), Borrowed(a))
         /\ Path("control", Borrowed(a), resume(current_hart), GivenBack(a))
         /\ Borrowed(a) \in Controls /\ Ready(Borrowed(a)) /\ Borrowed(a).running
<1> DEFINE b == Borrowed(a)
<1>1. /\ a \in Controls /\ Free(a) /\ a.running = TRUE /\ a.running = running
      /\ a.cur = current_hart /\ a.cur \in Harts /\ xlen \in Nat
  BY DEF Callable, Controls
<1>2. b = [a EXCEPT !.st = "held", !.on = TRUE, !.h = a.cur, !.cur = a.cur]
  BY <1>1 DEF Borrowed, Controls
<1>3. Path("control", a, halt(current_hart), b)  BY <1>1, <1>2, HaltPath
<1>4. /\ b \in Controls /\ Ready(b) /\ b.on /\ b.h = a.cur /\ b.running = TRUE
  BY <1>1 DEF Borrowed, Controls, Ready, Held, Free
<1>5. Path("control", b, resume(b.h), AfterControl(b, <<"resume", b.h>>))
  BY <1>1, <1>4, ResumePath
<1>6. AfterControl(b, <<"resume", b.h>>) = GivenBack(a)
  <2>1. AfterControl(b, <<"resume", b.h>>) =
          [b EXCEPT !.st = "free", !.cur = b.h, !.on = ~b.running,
                    !.h = IF b.running THEN 0 ELSE b.h]
    BY DEF AfterControl
  <2>2. AfterControl(b, <<"resume", b.h>>) =
          [b EXCEPT !.st = "free", !.cur = a.cur, !.on = FALSE, !.h = 0]
    BY <2>1, <1>4
  <2>3. a.st = "free" /\ b = [a EXCEPT !.st = "held", !.on = TRUE, !.h = a.cur]
    BY <1>1 DEF Free, Borrowed
  <2>4. a.cur \in Nat /\ a.h \in Nat  BY <1>1 DEF Controls
  <2> DEFINE c == [b EXCEPT !.st = "free", !.cur = a.cur, !.on = FALSE, !.h = 0]
             d == [a EXCEPT !.on = FALSE, !.h = 0]
  <2> HIDE DEF b
  <2>5. c \in Controls  BY <1>4, <2>4 DEF Controls
  <2>6. d \in Controls  BY <1>1 DEF Controls
  <2>7. /\ c.st = "free" /\ c.cur = a.cur /\ c.on = FALSE /\ c.h = 0
        /\ c.e = a.e /\ c.t = a.t /\ c.auto = a.auto /\ c.running = a.running
        /\ c.num = a.num /\ c.xl = a.xl /\ c.mx = a.mx /\ c.dc = a.dc
    BY <1>1, <2>3 DEF Controls
  <2>8. /\ d.st = "free" /\ d.cur = a.cur /\ d.on = FALSE /\ d.h = 0
        /\ d.e = a.e /\ d.t = a.t /\ d.auto = a.auto /\ d.running = a.running
        /\ d.num = a.num /\ d.xl = a.xl /\ d.mx = a.mx /\ d.dc = a.dc
    BY <1>1, <2>3 DEF Controls
  <2> HIDE DEF c, d
  <2>9. c = d  BY <2>5, <2>6, <2>7, <2>8, SameOutline
  <2> QED  BY <2>2, <2>9 DEF c, d, GivenBack
<1> QED  BY <1>1, <1>3, <1>4, <1>5, <1>6

LEMMA WithHartPath ==
  ASSUME NEW a, Callable(a), NEW body, Path("control", Borrowed(a), body, Borrowed(a))
  PROVE  Path("control", a, WithHart(body), GivenBack(a))
<1> DEFINE b == Borrowed(a)
<1>1. b \in Controls /\ Ready(b) /\ xlen \in Nat  BY Borrowing DEF Callable
<1>2. /\ Path("control", b, save_reg("s0"), b) /\ Path("control", b, save_reg("s1"), b)
      /\ Path("control", b, restore_reg("s0"), b) /\ Path("control", b, restore_reg("s1"), b)
  BY <1>1, SavePath
<1>3. Path("control", a, halt(current_hart) \o save_reg("s0"), b)
  BY <1>2, Borrowing, PathJoin
<1>4. Path("control", a, halt(current_hart) \o save_reg("s0") \o save_reg("s1"), b)
  BY <1>2, <1>3, PathJoin
<1>5. Path("control", a, halt(current_hart) \o save_reg("s0") \o save_reg("s1") \o body, b)
  BY <1>4, PathJoin
<1>6. Path("control", a, halt(current_hart) \o save_reg("s0") \o save_reg("s1") \o body
                         \o restore_reg("s0"), b)
  BY <1>2, <1>5, PathJoin
<1>7. Path("control", a, halt(current_hart) \o save_reg("s0") \o save_reg("s1") \o body
                         \o restore_reg("s0") \o restore_reg("s1"), b)
  BY <1>2, <1>6, PathJoin
<1> QED  BY <1>7, Borrowing, PathJoin DEF WithHart

LEMMA ReadChunkPath ==
  ASSUME NEW a, Callable(a), NEW addr, NEW len
  PROVE  Path("control", a, read_chunk(addr, len), GivenBack(a))
<1> DEFINE b == Borrowed(a)
           prog == << <<"LOAD s1">>, <<"ADDI s0">>, <<"EBREAK">> >>
           body == RUN_AC_OR_DIE(SetRegister("s0", TRUE), prog, Writes(addr))
                   \o << <<"read_words", 1, len>> >>
<1>1. b \in Controls /\ Ready(b) /\ b.running /\ xlen \in Nat  BY Borrowing DEF Callable
<1>2. Len(prog) \in Nat  OBVIOUS
<1> HIDE DEF prog
<1>3. Path("control", b, RUN_AC_OR_DIE(SetRegister("s0", TRUE), prog, Writes(addr)), b)
  BY <1>1, <1>2, BodyPaths
<1>4. MayControl(b, <<"read_words", 1, len>>) /\ b = AfterControl(b, <<"read_words", 1, len>>)
  BY <1>1 DEF MayControl, AfterControl
<1>5. Path("control", b, << <<"read_words", 1, len>> >>, b)  BY <1>4, PathOne DEF May, After
<1>6. Path("control", b, body, b)  BY <1>3, <1>5, PathJoin
<1>7. Path("control", a, WithHart(body), GivenBack(a))  BY <1>6, WithHartPath
<1> QED  BY <1>7 DEF read_chunk, prog

LEMMA AutoWordsPath ==
  ASSUME NEW b \in Controls, Ready(b), b.running, NEW ws
  PROVE  Path("control", b, auto_words(ws), b)
<1>1. CASE Len(ws) = 1  BY <1>1, PathNone DEF auto_words
<1>2. CASE Len(ws) # 1
  <2> DEFINE on == [b EXCEPT !.auto = TRUE]
             off == [on EXCEPT !.auto = FALSE]
  <2>1. MayControl(b, <<"auto", TRUE>>) /\ on = AfterControl(b, <<"auto", TRUE>>)
    BY DEF MayControl, AfterControl, Ready
  <2>2. on.auto = TRUE /\ Held(on) /\ on.e = "ok" /\ on.t = 0 /\ on.running
    BY DEF Ready, Held, Controls
  <2>3. off = b  BY DEF Ready, Controls
  <2> HIDE DEF on
  <2>4. /\ MayControl(on, <<"more_words", Tail(ws)>>)
        /\ on = AfterControl(on, <<"more_words", Tail(ws)>>)
    BY <2>2 DEF MayControl, AfterControl
  <2>5. MayControl(on, <<"auto", FALSE>>) /\ b = AfterControl(on, <<"auto", FALSE>>)
    BY <2>2, <2>3 DEF MayControl, AfterControl
  <2>6. Path("control", b,
             << <<"auto", TRUE>>, <<"more_words", Tail(ws)>>, <<"auto", FALSE>> >>, b)
    BY <2>1, <2>4, <2>5, PathThree DEF May, After
  <2> QED  BY <2>6, <1>2 DEF auto_words
<1> QED  BY <1>1, <1>2

LEMMA WriteChunkPath ==
  ASSUME NEW a, Callable(a), NEW addr, NEW ws
  PROVE  Path("control", a, write_chunk(addr, ws), GivenBack(a))
<1> DEFINE b == Borrowed(a)
           prog == << <<"STORE s1">>, <<"ADDI s0">>, <<"EBREAK">> >>
           body == RUN_AC_OR_DIE(SetRegister("s0", FALSE), prog, Writes(addr))
                   \o RUN_AC_OR_DIE(SetRegister("s1", TRUE), <<>>, Writes(ws[1]))
                   \o auto_words(ws)
<1>1. b \in Controls /\ Ready(b) /\ b.running /\ xlen \in Nat  BY Borrowing DEF Callable
<1>2. Len(prog) \in Nat /\ Len(<<>>) \in Nat  OBVIOUS
<1> HIDE DEF prog
<1>3. Path("control", b, RUN_AC_OR_DIE(SetRegister("s0", FALSE), prog, Writes(addr)), b)
  BY <1>1, <1>2, BodyPaths
<1>4. Path("control", b, RUN_AC_OR_DIE(SetRegister("s1", TRUE), <<>>, Writes(ws[1])), b)
  BY <1>1, <1>2, BodyPaths
<1>5. Path("control", b, auto_words(ws), b)  BY <1>1, AutoWordsPath
<1>6. Path("control", b, body, b)  BY <1>3, <1>4, <1>5, PathJoin
<1>7. Path("control", a, WithHart(body), GivenBack(a))  BY <1>6, WithHartPath
<1> QED  BY <1>7 DEF write_chunk, prog

LEMMA ClearChunkPath ==
  ASSUME NEW a, Callable(a), NEW addr, NEW len
  PROVE  Path("control", a, clear_chunk(addr, len), GivenBack(a))
<1> DEFINE b == Borrowed(a)
           prog == << <<"STORE x0">>, <<"ADDI s0">>, <<"BNE">>, <<"EBREAK">> >>
           body == RUN_AC_OR_DIE(SetRegister("s0", FALSE), <<>>, Writes(addr))
                   \o RUN_AC_OR_DIE(SetRegister("s1", TRUE), prog, Writes(addr + len))
<1>1. b \in Controls /\ Ready(b) /\ xlen \in Nat  BY Borrowing DEF Callable
<1>2. Len(prog) \in Nat /\ Len(<<>>) \in Nat  OBVIOUS
<1> HIDE DEF prog
<1>3. Path("control", b, RUN_AC_OR_DIE(SetRegister("s0", FALSE), <<>>, Writes(addr)), b)
  BY <1>1, <1>2, BodyPaths
<1>4. Path("control", b, RUN_AC_OR_DIE(SetRegister("s1", TRUE), prog, Writes(addr + len)), b)
  BY <1>1, <1>2, BodyPaths
<1>5. Path("control", b, body, b)  BY <1>3, <1>4, PathJoin
<1>6. Path("control", a, WithHart(body), GivenBack(a))  BY <1>5, WithHartPath
<1> QED  BY <1>6 DEF clear_chunk, prog

LEMMA ModifyCsrPath ==
  ASSUME NEW a, Callable(a), NEW type, NEW which, NEW v
  PROVE  Path("control", a, modify_csr(type, which, v), GivenBack(a))
<1> DEFINE b == Borrowed(a)
           prog == << <<"CSRRW dscratch">>, <<"LOAD data">>, <<"CSRR", type, which>>,
                      <<"STORE data">>, <<"CSRRW dscratch">>, <<"EBREAK">> >>
<1>1. b \in Controls /\ Ready(b) /\ xlen \in Nat  BY Borrowing DEF Callable
<1>2. Len(prog) \in Nat  OBVIOUS
<1> HIDE DEF prog
<1>3. Path("control", b, RUN_AC_OR_DIE(SetRegister("x0", TRUE), prog, Writes(v)), b)
  BY <1>1, <1>2, BodyPaths
<1>4. Path("control", b, Reads, b)  BY <1>1, ReadsPath
<1>5. Path("control", a, halt(current_hart)
             \o RUN_AC_OR_DIE(SetRegister("x0", TRUE), prog, Writes(v)) \o Reads
             \o resume(current_hart), GivenBack(a))
  BY <1>3, <1>4, Borrowing, PathJoin
<1> QED  BY <1>5 DEF modify_csr, prog

LEMMA FencePath ==
  ASSUME NEW a, Callable(a)
  PROVE  Path("control", a, fence_i, GivenBack(a))
<1> DEFINE b == Borrowed(a)
           prog == << <<"FENCE_I">>, <<"EBREAK">> >>
<1>1. b \in Controls /\ Ready(b) /\ xlen \in Nat  BY Borrowing DEF Callable
<1>2. Len(prog) \in Nat  OBVIOUS
<1> HIDE DEF prog
<1>3. Path("control", b, RUN_AC_OR_DIE(SetRegister("x0", TRUE), prog, <<>>), b)
  BY <1>1, <1>2, BodyPaths
<1>4. Path("control", a, halt(current_hart)
             \o RUN_AC_OR_DIE(SetRegister("x0", TRUE), prog, <<>>)
             \o resume(current_hart), GivenBack(a))
  BY <1>3, Borrowing, PathJoin
<1> QED  BY <1>4 DEF fence_i, prog

-------------------------------------------------------------------------------
(* The calls and loops that an access stands for.                           *)

LEMMA ReadWordsPath ==
  ASSUME NEW a \in Controls, Ready(a), a.running, xlen \in Nat, NEW i, NEW len
  PROVE  Path("control", a, read_words(i, len), a)
<1>1. CASE i > len  BY <1>1, PathNone DEF read_words
<1>2. CASE ~(i > len)
  <2>1. (i < len) \in BOOLEAN /\ Len(<<>>) \in Nat  OBVIOUS
  <2>2. Path("control", a, RUN_AC_OR_DIE(GetRegister("s1", i < len), <<>>, Reads), a)
    BY <2>1, BodyPaths
  <2>3. MayControl(a, <<"copy">>) /\ a = AfterControl(a, <<"copy">>)
    BY DEF MayControl, AfterControl
  <2>4. /\ MayControl(a, <<"read_words", i + 1, len>>)
        /\ a = AfterControl(a, <<"read_words", i + 1, len>>)
    BY DEF MayControl, AfterControl
  <2>5. Path("control", a, << <<"copy">>, <<"read_words", i + 1, len>> >>, a)
    BY <2>3, <2>4, PathTwo DEF May, After
  <2> QED  BY <1>2, <2>2, <2>5, PathJoin DEF read_words
<1> QED  BY <1>1, <1>2

LEMMA MoreWordsPath ==
  ASSUME NEW a \in Controls, Held(a), a.e = "ok", a.t = 0, a.auto, a.running, NEW ws
  PROVE  Path("control", a, more_words(ws), a)
<1>1. CASE ws = <<>>  BY <1>1, PathNone DEF more_words
<1>2. CASE ws # <<>>
  <2> DEFINE first == IF xlen = 64 THEN << <<"data", 1, ws[1]>> >> ELSE <<>>
             b == [a EXCEPT !.e = "run"]
             c == [b EXCEPT !.e = "seen"]
  <2>1. Path("control", a, first, a)
    <3>1. MayControl(a, <<"data", 1, ws[1]>>) /\ a = AfterControl(a, <<"data", 1, ws[1]>>)
      BY DEF MayControl, AfterControl
    <3>2. Path("control", a, << <<"data", 1, ws[1]>> >>, a)  BY <3>1, PathOne DEF May, After
    <3> QED  BY <3>2, PathNone
  <2>2. MayControl(a, <<"data", 0, ws[1]>>) /\ b = AfterControl(a, <<"data", 0, ws[1]>>)
    BY DEF MayControl, AfterControl
  <2>3. b \in Controls /\ Held(b) /\ b.e = "run"  BY DEF Controls, Held
  <2>4. c \in Controls /\ Held(c) /\ c.e = "seen"  BY DEF Controls, Held
  <2>5. [c EXCEPT !.e = "ok", !.t = 0] = a  BY DEF Controls
  <2> HIDE DEF b, c
  <2>6. MayControl(b, <<"abstractcs">>) /\ c = AfterControl(b, <<"abstractcs">>)
    BY <2>3 DEF MayControl, AfterControl, b, c
  <2>7. MayControl(c, <<"check">>) /\ a = AfterControl(c, <<"check">>)
    BY <2>4, <2>5 DEF MayControl, AfterControl
  <2>8. /\ MayControl(a, <<"more_words", Tail(ws)>>)
        /\ a = AfterControl(a, <<"more_words", Tail(ws)>>)
    BY DEF MayControl, AfterControl
  <2>9. Path("control", a, << <<"data", 0, ws[1]>>, <<"abstractcs">>, <<"check">>,
                              <<"more_words", Tail(ws)>> >>, a)
    BY <2>2, <2>6, <2>7, <2>8, PathFour DEF May, After
  <2> QED  BY <1>2, <2>1, <2>9, PathJoin DEF more_words
<1> QED  BY <1>1, <1>2

LEMMA TrySizePath ==
  ASSUME NEW a \in Controls, Ready(a), NEW size \in {32, 64, 128}, size >= Xlen
  PROVE  Path("control", a, TrySize(size), [a EXCEPT !.xl = TRUE])
<1> DEFINE c == [GetRegister("s0", FALSE) EXCEPT !.size = size]
           d == Ran(a, c)
<1>1. c.postexec = FALSE /\ c.size = size /\ c.write = FALSE  BY DEF GetRegister
<1>2. Moves(c, <<>>) /\ Len(<<>>) \in Nat
  <2>1. <<>> = [i \in 1..0 |-> <<>>[i]]  OBVIOUS
  <2>2. \A i \in 1..0 : <<>>[i][1] \in (IF c.write THEN {"data", "saved"} ELSE {"readData"})
    OBVIOUS
  <2>3. size \in Nat /\ FALSE \in BOOLEAN  OBVIOUS
  <2>4. c.size \in Nat /\ c.postexec \in BOOLEAN  BY <1>1, <2>3
  <2> HIDE DEF c
  <2>5. Moves(c, <<>>)  BY <2>1, <2>2, <2>4 DEF Moves
  <2> QED  BY <2>5
<1> HIDE DEF c
<1>3. Path("control", a, run_abstract_command(c, <<>>, <<>>), d)  BY <1>2, RunPath
<1>9. d = [a EXCEPT !.e = "seen", !.t = size] /\ size \in Nat
  <2>1. (IF c.postexec THEN 0 ELSE c.size) = size  BY <1>1
  <2>2. d = [a EXCEPT !.e = "seen", !.t = IF c.postexec THEN 0 ELSE c.size]  BY DEF Ran
  <2>3. d = [a EXCEPT !.e = "seen", !.t = size]  BY <2>1, <2>2
  <2>4. size \in Nat  OBVIOUS
  <2> QED  BY <2>3, <2>4
<1> HIDE DEF d
<1>4. d \in Controls /\ d.e = "seen" /\ Held(d) /\ ~d.auto /\ d.t = size
  BY <1>9 DEF Controls, Ready, Held
<1>5. [d EXCEPT !.e = "ok", !.t = 0, !.xl = TRUE] = [a EXCEPT !.xl = TRUE]
  BY <1>9 DEF Controls, Ready
<1>6. /\ MayControl(d, <<"xlen", size>>)
      /\ [a EXCEPT !.xl = TRUE] = AfterControl(d, <<"xlen", size>>)
  BY <1>4, <1>5 DEF MayControl, AfterControl
<1>7. Path("control", d, << <<"xlen", size>> >>, [a EXCEPT !.xl = TRUE])
  BY <1>6, PathOne DEF May, After
<1> QED  BY <1>3, <1>7, PathJoin DEF TrySize, c

LEMMA LastSels ==
  /\ LastSel \in Nat /\ LastSel \in 0..MaxHartsel /\ LastSel <= NHarts
  /\ 1023 % (MaxHartsel + 1) = MaxHartsel /\ MaxHartsel \in Nat
<1>1. 1023 % (MaxHartsel + 1) = MaxHartsel
  <2>1. MaxHartsel \in {0, 1, 3, 7, 15, 31, 63, 127, 255, 511, 1023}
    BY DebugModuleConstants
  <2> QED  BY <2>1
<1> QED  BY <1>1, Constants DEF LastSel

Counted(a) == [a EXCEPT !.h = LastSel, !.cur = LastSel, !.num = TRUE, !.mx = TRUE]

\* The hart that has been selected may exist.
LEMMA LookPath ==
  ASSUME NEW a \in Controls, NEW h \in 0..LastSel, Free(a), a.on, a.mx
  PROVE  Path("control", a, select_hart(h) \o << <<"exists", h>> >>, Counted(a))
<1> DEFINE b == [a EXCEPT !.cur = h, !.h = IF a.on THEN h ELSE 0]
<1>1. h \in Nat /\ h \in 0..MaxHartsel  BY LastSels
<1>2. Path("control", a, select_hart(h), AfterControl(a, <<"select_hart", h>>))
  BY <1>1, SelectPath
<1>3. b = AfterControl(a, <<"select_hart", h>>)  BY DEF AfterControl
<1>4. b \in Controls /\ Free(b) /\ b.on /\ b.mx /\ b.h = h /\ b.cur = h
  BY <1>1 DEF Controls, Free
<1>5. MayControl(b, <<"exists", h>>)  BY <1>4 DEF MayControl
<1>6. AfterControl(b, <<"exists", h>>) = Counted(b)  BY DEF AfterControl, Counted
<1>7. Counted(b) = Counted(a)  BY <1>1, LastSels DEF Counted, Controls
<1>8. Path("control", b, << <<"exists", h>> >>, Counted(a))
  BY <1>5, <1>6, <1>7, PathOne DEF May, After
<1> QED  BY <1>2, <1>3, <1>8, PathJoin

Pointed(a, h) == [a EXCEPT !.dc = FALSE, !.h = h]

LEMMA EnumeratePath ==
  ASSUME NEW a \in Controls, Free(a), a.on
  PROVE  Path("control", a, enumerate_harts, Counted(a))
<1> DEFINE b == [a EXCEPT !.dc = TRUE]
           c == Pointed(b, IF b.on THEN 1023 % (MaxHartsel + 1) ELSE 0)
<1>1. MayControl(a, <<"readDmcontrol">>) /\ b = AfterControl(a, <<"readDmcontrol">>)
  BY DEF MayControl, AfterControl
<1>2. b \in Controls /\ b.dc /\ b.st = "free" /\ b.e = "ok" /\ b.on  BY DEF Controls, Free
<1> HIDE DEF b
<1>3. MayControl(b, <<"writeHartsel", 1023>>) /\ c = AfterControl(b, <<"writeHartsel", 1023>>)
  BY <1>2 DEF MayControl, AfterControl, Pointed
<1>4. c = [a EXCEPT !.h = MaxHartsel]
  <2>1. 1023 % (MaxHartsel + 1) = MaxHartsel  BY LastSels
  <2>2. c = Pointed(b, MaxHartsel)  BY <2>1, <1>2
  <2>3. a.dc = FALSE  BY DEF Free, Controls
  <2>4. Pointed(b, MaxHartsel) = [a EXCEPT !.h = MaxHartsel]
    BY <2>3 DEF Controls, b, Pointed
  <2> QED  BY <2>2, <2>4
<1> HIDE DEF c
<1>5. c \in Controls /\ Free(c) /\ c.on /\ c.h = MaxHartsel  BY <1>4, LastSels DEF Controls, Free
<1>6. MayControl(c, <<"dmstatus">>) /\ c = AfterControl(c, <<"dmstatus">>)
  BY <1>5 DEF MayControl, AfterControl, Free
<1>7. MayControl(c, <<"maxHart">>) /\ Counted(c) = AfterControl(c, <<"maxHart">>)
  BY <1>5 DEF MayControl, AfterControl, Counted
<1>8. Counted(c) = Counted(a)  BY <1>4, LastSels DEF Counted, Controls
<1>9. Path("control", a, enumerate_harts, Counted(c))
  BY <1>1, <1>3, <1>6, <1>7, PathFour DEF May, After, enumerate_harts
<1> QED  BY <1>8, <1>9

LEMMA ResetPath ==
  ASSUME NEW a \in Controls, Free(a), a.running, NEW n \in 0..NHarts, num_harts = NHarts
  PROVE  Path("control", a, reset(n), AfterControl(a, <<"reset", n>>))
<1>0. /\ AfterControl(a, <<"reset", n>>) =
           [a EXCEPT !.cur = 0, !.on = IF n < NHarts THEN FALSE ELSE a.on, !.h = 0]
      /\ NHarts \in Nat /\ n \in Nat
  BY Constants DEF AfterControl
<1>1. CASE n < NHarts
  <2>0. n \in Harts /\ n \in 0..MaxHartsel /\ n \in Nat
    BY <1>1, Constants DEF Harts
  <2> DEFINE b == [a EXCEPT !.cur = n, !.h = IF a.on THEN n ELSE 0]
             c == [b EXCEPT !.on = FALSE, !.h = 0]
             d == [c EXCEPT !.cur = 0, !.on = IF n + 1 < NHarts THEN FALSE ELSE c.on, !.h = 0]
  <2>1. MayControl(a, <<"select_hart", n>>) /\ b = AfterControl(a, <<"select_hart", n>>)
    BY <2>0 DEF MayControl, AfterControl
  <2>2. b \in Controls /\ Free(b) /\ b.running /\ b.cur \in Harts
    BY <2>0 DEF Controls, Free
  <2>3. d = AfterControl(a, <<"reset", n>>)
    BY <1>0, <1>1, <2>0 DEF Controls
  <2> HIDE DEF b
  <2>4. MayControl(b, <<"fence_i">>) /\ c = AfterControl(b, <<"fence_i">>)
    BY <2>2 DEF MayControl, AfterControl
  <2>5. c \in Controls /\ Free(c) /\ c.running /\ c.cur \in Harts
    BY <2>2 DEF Controls, Free
  <2>6. [c EXCEPT !.on = FALSE, !.h = 0] = c
    BY <2>2 DEF Controls
  <2> HIDE DEF c
  <2>7. MayControl(c, <<"write_csr">>) /\ c = AfterControl(c, <<"write_csr">>)
    BY <2>5, <2>6 DEF MayControl, AfterControl
  <2>8. MayControl(c, <<"reset", n + 1>>) /\ d = AfterControl(c, <<"reset", n + 1>>)
    BY <1>0, <1>1, <2>5 DEF MayControl, AfterControl
  <2>9. Path("control", a, << <<"select_hart", n>>, <<"fence_i">>, <<"write_csr">>,
                              <<"reset", n + 1>> >>, d)
    BY <2>1, <2>4, <2>7, <2>8, PathFour DEF May, After
  <2> QED  BY <2>3, <2>9, <1>1 DEF reset, HartsToReset
<1>2. CASE ~(n < NHarts)
  <2> DEFINE b == [a EXCEPT !.cur = 0, !.h = IF a.on THEN 0 ELSE 0]
  <2>0. 0 \in 0..MaxHartsel  BY Constants
  <2>1. MayControl(a, <<"select_hart", 0>>) /\ b = AfterControl(a, <<"select_hart", 0>>)
    BY <2>0 DEF MayControl, AfterControl
  <2>2. b = AfterControl(a, <<"reset", n>>) /\ b.e = "ok"
    <3>1. AfterControl(a, <<"reset", n>>) = [a EXCEPT !.cur = 0, !.on = a.on, !.h = 0]
      BY <1>0, <1>2
    <3>2. b = [a EXCEPT !.cur = 0, !.on = a.on, !.h = 0] /\ b.e = "ok"
      BY DEF Controls, Free
    <3> QED  BY <3>1, <3>2
  <2> HIDE DEF b
  <2>3. MayControl(b, <<"dmstatus">>) /\ b = AfterControl(b, <<"dmstatus">>)
    BY <2>2 DEF MayControl, AfterControl
  <2>4. Path("control", a, << <<"select_hart", 0>>, <<"dmstatus">> >>, b)
    BY <2>1, <2>3, PathTwo DEF May, After
  <2> QED  BY <2>2, <2>4, <1>2 DEF reset, HartsToReset
<1> QED  BY <1>1, <1>2

\* What the first access stands for is done by `first' from outline b on.
Stands(a, b, first) == Path("control", b, first, AfterControl(a, todo[1]))

LEMMA Onward ==
  ASSUME NEW a, NEW b, NEW f, NEW first, Path("control", a, todo, f), todo # <<>>,
         Stands(a, b, first), Then(first)
  PROVE  Path("control", b, todo', f)
<1>1. Path("control", AfterControl(a, todo[1]), Tail(todo), f)  BY PathHead DEF After
<1>2. Path("control", b, first \o Tail(todo), f)  BY <1>1, PathJoin DEF Stands
<1> QED  BY <1>2 DEF Then

LEMMA EnterStep ==
  ASSUME NEW a, ControlHolds(a), MayControl(a, todo[1]), Enter
  PROVE  ControlHolds(a)' /\ \E first : Then(first) /\ Stands(a, a, first)
<1> DEFINE x == todo[1]
<1>1. UNCHANGED <<dmvars, found, current_hart, locals>>  BY DEF Enter
<1>2. ControlHolds(a)'  BY <1>1, SameControl DEF dmvars, locals
<1>3. a \in Controls /\ FoundOK(a) /\ StageOK(a) /\ a.running = running
      /\ a.cur = current_hart /\ xlen \in Nat /\ a.h = hartsel
  BY ControlParts DEF FoundOK
<1>4. ASSUME x[1] = "enumerate_harts", Then(enumerate_harts)
      PROVE  \E first : Then(first) /\ Stands(a, a, first)
  <2>1. Free(a) /\ a.on  BY <1>4 DEF MayControl
  <2>2. Counted(a) = AfterControl(a, x)  BY <1>4 DEF Counted, AfterControl
  <2>3. Stands(a, a, enumerate_harts)  BY <2>1, <2>2, <1>3, EnumeratePath DEF Stands
  <2> QED  BY <2>3, <1>4
<1>5. ASSUME x[1] = "halt", Then(halt(x[2]))
      PROVE  \E first : Then(first) /\ Stands(a, a, first)
  <2>1. Free(a) /\ (a.on \/ a.running) /\ x[2] \in Harts  BY <1>5 DEF MayControl
  <2>2. [a EXCEPT !.st = "held", !.on = TRUE, !.h = x[2], !.cur = x[2]] = AfterControl(a, x)
    BY <1>5 DEF AfterControl
  <2> HIDE DEF x
  <2>3. Path("control", a, halt(x[2]), AfterControl(a, x))  BY <2>1, <2>2, <1>3, HaltPath
  <2>4. Stands(a, a, halt(x[2]))  BY <2>3 DEF Stands, x
  <2> QED  BY <2>4, <1>5
<1>6. ASSUME x[1] = "get_xlen", Then(TrySize(128))
      PROVE  \E first : Then(first) /\ Stands(a, a, first)
  <2>1. Ready(a)  BY <1>6 DEF MayControl
  <2>2. [a EXCEPT !.xl = TRUE] = AfterControl(a, x)  BY <1>6 DEF AfterControl
  <2>3. 128 \in {32, 64, 128} /\ 128 >= Xlen  BY Constants
  <2>4. Stands(a, a, TrySize(128))  BY <2>1, <2>2, <2>3, <1>3, TrySizePath DEF Stands
  <2> QED  BY <2>4, <1>6
<1>7. ASSUME x[1] = "resume", Then(resume(x[2]))
      PROVE  \E first : Then(first) /\ Stands(a, a, first)
  <2>1. Ready(a) /\ x[2] = a.h  BY <1>7 DEF MayControl
  <2>2. AfterControl(a, <<"resume", a.h>>) = AfterControl(a, x)
    BY <1>7, <2>1 DEF AfterControl
  <2>3. a.on /\ a.h \in Harts  BY <2>1, <1>3 DEF StageOK, Ready, Held
  <2> HIDE DEF x
  <2>4. Path("control", a, resume(x[2]), AfterControl(a, x))
    BY <2>1, <2>2, <2>3, <1>3, ResumePath
  <2>5. Stands(a, a, resume(x[2]))  BY <2>4 DEF Stands, x
  <2> QED  BY <2>5, <1>7
<1>8. ASSUME x[1] = "select_hart", Then(select_hart(x[2]))
      PROVE  \E first : Then(first) /\ Stands(a, a, first)
  <2>1. Free(a) /\ x[2] \in 0..MaxHartsel  BY <1>8 DEF MayControl
  <2>2. AfterControl(a, <<"select_hart", x[2]>>) = AfterControl(a, x)
    BY <1>8 DEF AfterControl
  <2> HIDE DEF x
  <2>3. Path("control", a, select_hart(x[2]), AfterControl(a, x))
    BY <2>1, <2>2, <1>3, SelectPath
  <2>4. Stands(a, a, select_hart(x[2]))  BY <2>3 DEF Stands, x
  <2> QED  BY <2>4, <1>8
<1>9. ASSUME x[1] = "fence_i", Then(fence_i)
      PROVE  \E first : Then(first) /\ Stands(a, a, first)
  <2>1. Callable(a)  BY <1>9, <1>3 DEF MayControl, Callable
  <2>2. GivenBack(a) = AfterControl(a, x)  BY <1>9 DEF AfterControl, GivenBack
  <2>3. Stands(a, a, fence_i)  BY <2>1, <2>2, FencePath DEF Stands
  <2> QED  BY <2>3, <1>9
<1>10. ASSUME x[1] = "write_csr", Then(modify_csr("WRITE", "dpc", Entry))
       PROVE  \E first : Then(first) /\ Stands(a, a, first)
  <2>1. Callable(a)  BY <1>10, <1>3 DEF MayControl, Callable
  <2>2. GivenBack(a) = AfterControl(a, x)  BY <1>10 DEF AfterControl, GivenBack
  <2>3. Stands(a, a, modify_csr("WRITE", "dpc", Entry))
    BY <2>1, <2>2, ModifyCsrPath DEF Stands
  <2> QED  BY <2>3, <1>10
<1>11. ASSUME x[1] = "reset", Then(reset(x[2]))
       PROVE  \E first : Then(first) /\ Stands(a, a, first)
  <2>1. Free(a) /\ a.running /\ x[2] \in 0..NHarts  BY <1>11 DEF MayControl
  <2>2. num_harts = NHarts  BY <2>1, <1>3 DEF FoundOK
  <2>3. AfterControl(a, <<"reset", x[2]>>) = AfterControl(a, x)
    BY <1>11 DEF AfterControl
  <2> HIDE DEF x
  <2>4. Path("control", a, reset(x[2]), AfterControl(a, x))
    BY <2>1, <2>2, <2>3, <1>3, ResetPath
  <2>5. Stands(a, a, reset(x[2]))  BY <2>4 DEF Stands, x
  <2> QED  BY <2>5, <1>11
<1>12. ASSUME x[1] = "read_words", Then(read_words(x[2], x[3]))
       PROVE  \E first : Then(first) /\ Stands(a, a, first)
  <2>1. Ready(a) /\ a.running  BY <1>12 DEF MayControl
  <2>2. a = AfterControl(a, x)  BY <1>12 DEF AfterControl
  <2>3. Stands(a, a, read_words(x[2], x[3]))
    BY <2>1, <2>2, <1>3, ReadWordsPath DEF Stands
  <2> QED  BY <2>3, <1>12
<1>13. ASSUME x[1] = "more_words", Then(more_words(x[2]))
       PROVE  \E first : Then(first) /\ Stands(a, a, first)
  <2>1. Held(a) /\ a.e = "ok" /\ a.t = 0 /\ a.auto /\ a.running  BY <1>13 DEF MayControl
  <2>2. a = AfterControl(a, x)  BY <1>13 DEF AfterControl
  <2>3. Stands(a, a, more_words(x[2]))  BY <2>1, <2>2, <1>3, MoreWordsPath DEF Stands
  <2> QED  BY <2>3, <1>13
<1>14. \E first : Then(first) /\ Stands(a, a, first)
  BY <1>4, <1>5, <1>6, <1>7, <1>8, <1>9, <1>10, <1>11, <1>12, <1>13 DEF Enter, Doing, Arg
<1> QED  BY <1>2, <1>14

\* A size is refused, and the next one is tried.
LEMMA SizesStep ==
  ASSUME NEW a, ControlHolds(a), MayControl(a, todo[1]), TryNextXlen
  PROVE  \E b, first : ControlHolds(b)' /\ Then(first) /\ Stands(a, b, first)
<1> DEFINE x == todo[1]
           b == [a EXCEPT !.e = "ok", !.t = 0]
<1>1. /\ x[1] = "xlen" /\ cmderr_read # 0 /\ x[2] > 32 /\ CmderrClear
      /\ Then(TrySize(x[2] \div 2)) /\ UNCHANGED <<found, current_hart, locals>>
  BY DEF TryNextXlen, Doing, Arg
<1>2. /\ a \in Controls /\ CommandOK(a) /\ a.auto = abstractauto /\ xpc \in Int
      /\ abstractauto \in BOOLEAN
  BY ControlParts
<1>3. /\ Held(a) /\ a.e = "seen" /\ ~a.auto /\ a.t = x[2] /\ x[2] \in {32, 64, 128}
      /\ x[2] >= Xlen
  BY <1>1 DEF MayControl
<1>4. dmactive /\ ~busy  BY <1>3, Written
<1>5. /\ UNCHANGED <<selection, requests, halted, command, abstractauto, busy, xpc>>
      /\ cmderr' = 0
  BY <1>1, <1>4 DEF CmderrClear, Writing
<1>6. b \in Controls  BY <1>2 DEF Controls
<1>7. /\ b.e = "ok" /\ b.t = 0 /\ b.st = a.st /\ b.on = a.on /\ b.h = a.h
      /\ b.auto = a.auto /\ b.cur = a.cur /\ b.running = a.running /\ b.num = a.num
      /\ b.xl = a.xl /\ b.mx = a.mx /\ b.dc = a.dc
  BY <1>2 DEF Controls
<1>8. ControlHolds(b)'
  <2>1. CommandOK(b)'
    BY <1>2, <1>3, <1>4, <1>5, <1>7 DEF CommandOK, CommandAt, Tried, Sized, Held
  <2>2. a.st # "free"  BY <1>3 DEF Held
  <2> HIDE DEF b
  <2> QED  BY <2>1, <2>2, <1>1, <1>2, <1>5, <1>6, <1>7, Within, ControlParts
<1>9. command.size > Xlen /\ command.size = x[2]
  <2>1. cmderr_read = cmderr /\ OutcomeOf(command, cmderr) /\ Tried(a, command)
    BY <1>2, <1>3 DEF CommandOK, CommandAt
  <2>2. command.size = x[2] /\ ~command.postexec  BY <2>1, <1>3 DEF Tried
  <2>3. cmderr = ErrNotSupported  BY <2>1, <2>2, <1>1 DEF OutcomeOf
  <2> QED  BY <2>1, <2>2, <2>3 DEF OutcomeOf
<1>10. x[2] \div 2 \in {32, 64, 128} /\ x[2] \div 2 >= Xlen
  BY <1>1, <1>3, <1>9, Constants
<1>11. Ready(b)  BY <1>2, <1>3, <1>7 DEF Ready, Held
<1>12. AfterControl(a, x) = [b EXCEPT !.xl = TRUE]  BY <1>1, <1>2 DEF AfterControl, Controls
<1> HIDE DEF b, x
<1>13. Path("control", b, TrySize(x[2] \div 2), AfterControl(a, x))
  BY <1>6, <1>10, <1>11, <1>12, TrySizePath
<1> QED  BY <1>1, <1>8, <1>13 DEF Stands, x

LEMMA FindXlenStep ==
  ASSUME NEW a, NEW b, ControlHolds(a), MayControl(a, todo[1]), b = AfterControl(a, todo[1]),
         FindXlen
  PROVE  ControlHolds(b)'
<1> DEFINE x == todo[1]
<1>1. /\ x[1] = "xlen" /\ cmderr_read = 0 /\ xlen' = x[2]
      /\ UNCHANGED <<dmvars, running, num_harts, max_hart, current_hart, locals>>
  BY DEF FindXlen, Doing, Arg
<1>2. /\ a \in Controls /\ CommandOK(a) /\ StageOK(a) /\ FoundOK(a) /\ a.auto = abstractauto
      /\ xpc \in Int
  BY ControlParts
<1>3. /\ Held(a) /\ a.e = "seen" /\ ~a.auto /\ a.t = x[2] /\ x[2] \in {32, 64, 128}
      /\ x[2] >= Xlen
  BY <1>1 DEF MayControl
<1>4. cmderr = 0 /\ x[2] = Xlen
  <2>1. cmderr_read = cmderr /\ OutcomeOf(command, cmderr) /\ Tried(a, command)
    BY <1>2, <1>3 DEF CommandOK, CommandAt
  <2>2. command.size = x[2]  BY <2>1, <1>3 DEF Tried
  <2>3. ~(command.size > Xlen)  BY <2>1, <1>1 DEF OutcomeOf, ErrNotSupported
  <2> QED  BY <2>1, <2>2, <2>3, <1>1, <1>3, Constants
<1>5. b = [a EXCEPT !.e = "ok", !.t = 0, !.xl = TRUE]  BY <1>1 DEF AfterControl
<1>0. b \in Controls
  <2>1. [a EXCEPT !.e = "ok", !.t = 0, !.xl = TRUE] \in Controls  BY <1>2 DEF Controls
  <2> QED  BY <2>1, <1>5
<1>6. /\ b \in Controls /\ b.e = "ok" /\ b.t = 0 /\ b.st = a.st /\ b.on = a.on /\ b.h = a.h
      /\ b.auto = a.auto /\ b.cur = a.cur /\ b.running = a.running /\ b.num = a.num
      /\ b.mx = a.mx /\ b.dc = a.dc
  BY <1>0, <1>5, <1>2 DEF Controls
<1>7. UNCHANGED <<selection, requests, halted, command, abstractauto, busy, cmderr, xpc>>
  BY <1>1 DEF dmvars
<1>8. CommandOK(b)'
  BY <1>2, <1>3, <1>4, <1>6, <1>7 DEF CommandOK, CommandAt, Tried, Sized, Held
<1>9. StageOK(b)'  BY <1>2, <1>6, <1>7, StageKept
<1>10. FoundOK(b)'
  <2>1. xlen' = Xlen /\ xlen' \in Nat  BY <1>1, <1>3, <1>4
  <2>2. b.dc = FALSE  BY <1>2, <1>3, <1>6 DEF Held, Controls
  <2>3. b.xl = TRUE  BY <1>2, <1>5 DEF Controls
  <2> HIDE DEF x
  <2> QED  BY <2>3, <2>1, <2>2, <1>1, <1>2, <1>6 DEF FoundOK
<1> QED  BY <1>2, <1>6, <1>7, <1>8, <1>9, <1>10, ControlParts DEF ControlHolds, selection

LEMMA ReadMaxHartStep ==
  ASSUME NEW a, ControlHolds(a), MayControl(a, todo[1]), ReadMaxHart
  PROVE  \E b, first : ControlHolds(b)' /\ Then(first) /\ Stands(a, b, first)
<1> DEFINE x == todo[1]
           b == [a EXCEPT !.mx = TRUE]
           first == select_hart(0) \o << <<"exists", 0>> >>
<1>1. /\ x[1] = "maxHart" /\ max_hart' = hartsel /\ Then(first)
      /\ UNCHANGED <<dmvars, running, num_harts, xlen, current_hart, locals>>
  BY DEF ReadMaxHart, Doing, DmcontrolRead
<1>2. /\ a \in Controls /\ CommandOK(a) /\ StageOK(a) /\ FoundOK(a) /\ a.auto = abstractauto
      /\ xpc \in Int /\ a.h = hartsel
  BY ControlParts
<1>3. Free(a) /\ a.on /\ a.h = MaxHartsel  BY <1>1 DEF MayControl
<1>4. UNCHANGED <<selection, requests, halted, command, abstractauto, busy, cmderr, xpc>>
  BY <1>1 DEF dmvars
<1>5. /\ b \in Controls /\ b.e = a.e /\ b.t = a.t /\ b.st = a.st /\ b.on = a.on /\ b.h = a.h
      /\ b.auto = a.auto /\ b.cur = a.cur /\ b.running = a.running /\ b.num = a.num
      /\ b.xl = a.xl /\ b.mx = TRUE /\ b.dc = a.dc
  BY <1>2 DEF Controls
<1>6. ControlHolds(b)'
  <2>1. CommandOK(b)'  BY <1>1, <1>2, <1>4, <1>5 DEF CommandOK, CommandAt, Tried, Sized, locals
  <2>2. StageOK(b)'  BY <1>2, <1>4, <1>5, StageKept
  <2>3. ~a.dc  BY <1>3 DEF Free
  <2>4. FoundOK(b)'  BY <2>3, <1>1, <1>2, <1>3, <1>5 DEF FoundOK
  <2> HIDE DEF b
  <2> QED  BY <2>1, <2>2, <2>4, <1>2, <1>4, <1>5, ControlParts DEF ControlHolds, selection
<1>7. Free(b) /\ b.on /\ b.mx  BY <1>3, <1>5 DEF Free
<1>8. 0 \in 0..LastSel  BY LastSels
<1>9. Counted(b) = AfterControl(a, x)
  <2>1. AfterControl(a, x) = Counted(a)  BY <1>1 DEF AfterControl, Counted
  <2> QED  BY <2>1, <1>2 DEF Counted, Controls
<1> HIDE DEF b, x
<1>10. Path("control", b, first, AfterControl(a, x))
  BY <1>5, <1>7, <1>8, <1>9, LookPath
<1>11. Stands(a, b, first)  BY <1>10 DEF Stands, x
<1> QED  BY <1>1, <1>6, <1>11

LEMMA FindHartStep ==
  ASSUME NEW a, ControlHolds(a), MayControl(a, todo[1]), FindHart
  PROVE  ControlHolds(a)' /\ \E first : Then(first) /\ Stands(a, a, first)
<1> DEFINE x == todo[1]
           first == select_hart(x[2] + 1) \o << <<"exists", x[2] + 1>> >>
<1>1. /\ x[1] = "exists" /\ hartsel \in Harts /\ x[2] < max_hart /\ Then(first)
      /\ UNCHANGED <<dmvars, found, current_hart, locals>>
  BY DEF FindHart, Doing, Arg, anynonexistent, LastHart
<1>2. ControlHolds(a)'  BY <1>1, SameControl DEF dmvars, locals
<1>3. a \in Controls /\ FoundOK(a) /\ a.h = hartsel  BY ControlParts
<1>4. Free(a) /\ a.on /\ a.mx /\ a.h = x[2] /\ x[2] \in 0..LastSel  BY <1>1 DEF MayControl
<1>5. x[2] + 1 \in 0..LastSel
  <2>1. max_hart = MaxHartsel  BY <1>3, <1>4 DEF FoundOK
  <2>2. x[2] \in Nat /\ x[2] < MaxHartsel /\ x[2] < NHarts
    BY <2>1, <1>1, <1>3, <1>4, LastSels, Constants DEF Harts
  <2> QED  BY <2>2, LastSels, Constants DEF LastSel
<1>6. Counted(a) = AfterControl(a, x)  BY <1>1 DEF AfterControl, Counted
<1> HIDE DEF x
<1>7. Path("control", a, first, AfterControl(a, x))  BY <1>3, <1>4, <1>5, <1>6, LookPath
<1>8. Stands(a, a, first)  BY <1>7 DEF Stands, x
<1> QED  BY <1>1, <1>2, <1>8

LEMMA CountHartsStep ==
  ASSUME NEW a, NEW b, ControlHolds(a), MayControl(a, todo[1]), b = AfterControl(a, todo[1]),
         CountHarts
  PROVE  ControlHolds(b)'
<1> DEFINE x == todo[1]
<1>1. /\ num_harts' = (IF hartsel \notin Harts THEN x[2] ELSE x[2] + 1)
      /\ UNCHANGED <<dmvars, running, xlen, max_hart, current_hart, locals>>
  BY DEF CountHarts, Doing, Arg, anynonexistent, LastHart, HartsCounted
<1>0. x[1] = "exists" /\ (hartsel \notin Harts \/ x[2] = max_hart)
  BY DEF CountHarts, Doing, Arg, anynonexistent, LastHart
<1>2. /\ a \in Controls /\ CommandOK(a) /\ StageOK(a) /\ FoundOK(a) /\ a.auto = abstractauto
      /\ xpc \in Int /\ a.h = hartsel
  BY ControlParts
<1>3. /\ Free(a) /\ a.on /\ a.mx /\ a.h = x[2] /\ a.cur = x[2] /\ x[2] \in 0..LastSel
  BY <1>0 DEF MayControl
<1>4. num_harts' = NHarts /\ x[2] = LastSel
  <2>1. max_hart = MaxHartsel /\ hartsel = x[2] /\ x[2] \in Nat
    BY <1>2, <1>3, LastSels DEF FoundOK
  <2>2. CASE hartsel \notin Harts
    BY <2>1, <2>2, <1>1, <1>3, LastSels, Constants DEF Harts, LastSel
  <2>3. CASE hartsel \in Harts
    BY <2>1, <2>3, <1>0, <1>1, <1>3, LastSels, Constants DEF Harts, LastSel
  <2> QED  BY <2>2, <2>3
<1>5. b = Counted(a)  BY <1>0 DEF AfterControl, Counted
<1>6. b \in Controls
  <2>1. Counted(a) \in Controls  BY <1>2, LastSels DEF Controls, Counted
  <2> QED  BY <2>1, <1>5
<1>7. /\ b.e = a.e /\ b.t = a.t /\ b.st = a.st /\ b.on = a.on /\ b.h = a.h
      /\ b.auto = a.auto /\ b.cur = a.cur /\ b.running = a.running
      /\ b.xl = a.xl /\ b.mx = TRUE /\ b.dc = a.dc
  BY <1>2, <1>3, <1>4, <1>5 DEF Controls, Counted
<1>8. UNCHANGED <<selection, requests, halted, command, abstractauto, busy, cmderr, xpc>>
  BY <1>1 DEF dmvars
<1>9. CommandOK(b)'  BY <1>1, <1>2, <1>7, <1>8 DEF CommandOK, CommandAt, Tried, Sized, locals
<1>10. StageOK(b)'  BY <1>2, <1>7, <1>8, StageKept
<1>11. FoundOK(b)'
  <2>1. b.dc = FALSE  BY <1>2, <1>3, <1>7 DEF Free, Controls
  <2>2. b.num = TRUE /\ b.cur = x[2]  BY <1>2, <1>4, <1>5 DEF Controls, Counted
  <2>3. b.cur = a.cur  BY <2>2, <1>3
  <2> QED  BY <2>1, <2>2, <2>3, <1>1, <1>2, <1>3, <1>4, <1>7 DEF FoundOK
<1> QED  BY <1>2, <1>6, <1>7, <1>8, <1>9, <1>10, <1>11, ControlParts DEF ControlHolds, selection

-------------------------------------------------------------------------------
(* The control of every step.                                               *)

Settled(f) ==
  /\ f \in Controls /\ Free(f) /\ f.cur \in Harts /\ f.num /\ f.xl
  /\ phase = "probe" => f.on
  /\ phase # "probe" => f.running
  /\ phase \in {"reset", "run"} => ~f.on

\* The host is where the accesses that are left lead it to a settled outline.
ControlInv ==
  /\ \E a, f : ControlHolds(a) /\ Path("control", a, todo, f) /\ Settled(f)
  /\ phase \in {"probe", "load", "reset", "run"}

\* The access that is next has been made, and no other.
LEMMA AccessStep ==
  ASSUME NEW a, NEW f, ControlHolds(a), Path("control", a, todo, f), todo # <<>>,
         \/ SwitchDmcontrol \/ WriteHartsel \/ ReadDmcontrol \/ Poll \/ SetHart
         \/ WriteRegister \/ ReadData \/ Save \/ Copy \/ Succeeds \/ die
         \/ FindXlen \/ CountHarts
  PROVE  \E b : ControlHolds(b)' /\ Path("control", b, todo', f)
<1>1. MayControl(a, todo[1])  BY PathHead DEF May
<1>2. PICK b : b = AfterControl(a, todo[1])  OBVIOUS
<1>3. ControlHolds(b)'
  <2>1. CASE SwitchDmcontrol  BY <2>1, <1>1, <1>2, SwitchDmcontrolStep
  <2>2. CASE WriteHartsel  BY <2>2, <1>1, <1>2, WriteHartselStep
  <2>3. CASE ReadDmcontrol  BY <2>3, <1>1, <1>2, ReadDmcontrolStep
  <2>4. CASE Poll  BY <2>4, <1>1, <1>2, PollStep
  <2>5. CASE SetHart  BY <2>5, <1>1, <1>2, SetHartStep
  <2>6. CASE WriteRegister  BY <2>6, <1>1, <1>2, WriteRegisterStep
  <2>7. CASE ReadData \/ Save \/ Copy  BY <2>7, <1>1, <1>2, ReadStep
  <2>8. CASE Succeeds \/ die  BY <2>8, <1>1, <1>2, CheckStep
  <2>9. CASE FindXlen  BY <2>9, <1>1, <1>2, FindXlenStep
  <2>10. CASE CountHarts  BY <2>10, <1>1, <1>2, CountHartsStep
  <2> QED  BY <2>1, <2>2, <2>3, <2>4, <2>5, <2>6, <2>7, <2>8, <2>9, <2>10
<1>4. Then(<<>>)
  BY DEF SwitchDmcontrol, WriteHartsel, WriteDmcontrol, ReadDmcontrol, Poll, SetHart,
     WriteRegister, ReadData, Save, Copy, Succeeds, die, FindXlen, CountHarts, Accessed
<1>5. Stands(a, b, <<>>)  BY <1>2, PathNone DEF Stands
<1>6. Path("control", b, todo', f)  BY <1>4, <1>5, Onward
<1> QED  BY <1>3, <1>6

LEMMA ExpandStep ==
  ASSUME NEW a, NEW f, ControlHolds(a), Path("control", a, todo, f), todo # <<>>,
         Enter \/ TryNextXlen \/ ReadMaxHart \/ FindHart
  PROVE  \E b : ControlHolds(b)' /\ Path("control", b, todo', f)
<1>1. MayControl(a, todo[1])  BY PathHead DEF May
<1>2. \E b, first : ControlHolds(b)' /\ Then(first) /\ Stands(a, b, first)
  <2>1. CASE Enter  BY <2>1, <1>1, EnterStep
  <2>2. CASE TryNextXlen  BY <2>2, <1>1, SizesStep
  <2>3. CASE ReadMaxHart  BY <2>3, <1>1, ReadMaxHartStep
  <2>4. CASE FindHart  BY <2>4, <1>1, FindHartStep
  <2> QED  BY <2>1, <2>2, <2>3, <2>4
<1>3. PICK b, first : ControlHolds(b)' /\ Then(first) /\ Stands(a, b, first)  BY <1>2
<1>4. Path("control", b, todo', f)  BY <1>3, Onward
<1> QED  BY <1>3, <1>4

\* An access that is made is the first of those that are left.
LEMMA Pending ==
  ASSUME \/ SwitchDmcontrol \/ WriteHartsel \/ ReadDmcontrol \/ Poll \/ SetHart
         \/ WriteRegister \/ ReadData \/ Save \/ Copy \/ Succeeds \/ die
         \/ FindXlen \/ TryNextXlen \/ ReadMaxHart \/ FindHart \/ CountHarts \/ Enter
  PROVE  todo # <<>> /\ UNCHANGED control
BY DEF SwitchDmcontrol, WriteHartsel, WriteDmcontrol, ReadDmcontrol, Poll, SetHart,
       WriteRegister, ReadData, Save, Copy, Succeeds, die, FindXlen, TryNextXlen,
       ReadMaxHart, FindHart, CountHarts, Enter, Doing

\* A settled host makes a call.
LEMMA CallControl ==
  ASSUME NEW f, ControlHolds(f), Settled(f), NEW routine, Calls(routine),
         Path("control", f, routine, GivenBack(f))
  PROVE  ControlInv'
<1>1. /\ UNCHANGED <<dmvars, found, current_hart, locals, phase>> /\ todo' = routine
      /\ phase \in {"load", "run"}
  BY DEF Calls, MayCall
<1>2. ControlHolds(f)'  BY <1>1, SameControl DEF dmvars, locals
<1>3. GivenBack(f) \in Controls /\ GivenBack(f).on = FALSE /\ GivenBack(f).cur = f.cur
  BY DEF Settled, GivenBack, Controls
<1>4. Settled(GivenBack(f))
  <2>1. Free(GivenBack(f)) /\ GivenBack(f).num = f.num /\ GivenBack(f).xl = f.xl
        /\ GivenBack(f).running = f.running
    BY DEF Settled, GivenBack, Controls, Free
  <2> QED  BY <2>1, <1>1, <1>3 DEF Settled
<1>5. Settled(GivenBack(f))'  BY <1>1, <1>4 DEF Settled
<1>6. \E a, g : ControlHolds(a)' /\ Path("control", a, todo', g) /\ Settled(g)'
  BY <1>1, <1>2, <1>5
<1> QED  BY <1>1, <1>6 DEF ControlInv

LEMMA ControlInit ==
  ASSUME Init
  PROVE  ControlInv
<1> DEFINE a == [st |-> "free", e |-> "ok", h |-> 0, cur |-> 0, t |-> 0, on |-> FALSE,
                 auto |-> FALSE, running |-> FALSE, num |-> FALSE, xl |-> FALSE,
                 mx |-> FALSE, dc |-> FALSE]
           b == [a EXCEPT !.on = TRUE]
           c == Counted(b)
           d == [c EXCEPT !.st = "held", !.on = TRUE, !.h = 0, !.cur = 0]
           e == [d EXCEPT !.xl = TRUE]
           f == [e EXCEPT !.st = "free", !.cur = 0, !.on = TRUE, !.h = 0]
<1>1. a \in Controls  BY DEF Controls
<1>0. /\ a.st = "free" /\ a.e = "ok" /\ a.h = 0 /\ a.cur = 0 /\ a.t = 0 /\ a.on = FALSE
      /\ a.auto = FALSE /\ a.running = FALSE /\ a.num = FALSE /\ a.xl = FALSE
      /\ a.mx = FALSE /\ a.dc = FALSE
  OBVIOUS
<1> HIDE DEF a
<1>2. ControlHolds(a)
  <2>1. Sized(command)  BY DEF Init, DmInit, Sized, NoCommand
  <2>2. CommandOK(a)  BY <2>1, <1>0 DEF Init, DmInit, CommandOK, CommandAt, Tried
  <2>3. StageOK(a)  BY <1>0 DEF Init, DmInit, StageOK
  <2>4. FoundOK(a)  BY <1>0 DEF Init, FoundOK
  <2>5. 0 \in 0..MaxHartsel  BY Constants
  <2>6. /\ a.on = dmactive /\ a.h = hartsel /\ hartsel \in 0..MaxHartsel
        /\ a.auto = abstractauto /\ xpc \in Int /\ busy \in BOOLEAN
    <3>1. dmactive = FALSE /\ hartsel = 0 /\ abstractauto = FALSE /\ xpc = 0 /\ busy = FALSE
      BY DEF Init, DmInit
    <3>4. xpc \in Int  BY <3>1
    <3>2. xpc \in Int /\ busy \in BOOLEAN  BY <3>1, <3>4
    <3>3. a.on = dmactive /\ a.auto = abstractauto /\ a.h = hartsel  BY <3>1, <1>0
    <3> QED  BY <3>1, <3>2, <3>3, <2>5
  <2> QED  BY <1>1, <2>2, <2>3, <2>4, <2>6 DEF ControlHolds
<1>3. MayControl(a, <<"dmcontrol", Active(0)>>) /\ b = AfterControl(a, <<"dmcontrol", Active(0)>>)
  <2>1. MayControl(a, <<"dmcontrol", Active(0)>>)
    <3>1. 0 \in 0..MaxHartsel  BY Constants
    <3> QED  BY <3>1, <1>0, Actives DEF MayControl, MayDmcontrol, Free
  <2>2. AfterControl(a, <<"dmcontrol", Active(0)>>) =
          [a EXCEPT !.on = Active(0).dmactive, !.h = 0]
    BY <1>0, Actives DEF AfterControl, AfterDmcontrol
  <2>3. [a EXCEPT !.on = Active(0).dmactive, !.h = 0] = b
    <3>1. Active(0).dmactive = TRUE  BY Actives
    <3> QED  BY <3>1, <1>0, <1>1 DEF Controls
  <2> QED  BY <2>1, <2>2, <2>3
<1>4. b \in Controls /\ Free(b) /\ b.on /\ b.running = FALSE  BY <1>0, <1>1 DEF Controls, Free
<1>5. MayControl(b, <<"enumerate_harts">>) /\ c = AfterControl(b, <<"enumerate_harts">>)
  BY <1>4 DEF MayControl, AfterControl, Counted
<1>6. c \in Controls /\ Free(c) /\ c.on = TRUE /\ c.num = TRUE /\ c.running = FALSE
  <2>0. b.on = TRUE  BY <1>0, <1>1 DEF Controls
  <2> HIDE DEF b
  <2>1. c \in Controls  BY <1>4, LastSels DEF Controls, Counted
  <2>2. /\ c.on = b.on /\ c.running = b.running /\ c.st = b.st /\ c.dc = b.dc
        /\ c.e = b.e /\ c.auto = b.auto /\ c.t = b.t
    BY <1>4, LastSels DEF Controls, Counted
  <2>4. Free(c)  BY <2>2, <1>4 DEF Free
  <2>3. c.num = TRUE  BY <1>4 DEF Controls, Counted
  <2> QED  BY <2>0, <2>1, <2>2, <2>3, <2>4, <1>4
<1> HIDE DEF c
<1>7. MayControl(c, <<"halt", 0>>) /\ d = AfterControl(c, <<"halt", 0>>)
  <2>1. 0 \in Harts  BY Constants DEF Harts
  <2> QED  BY <2>1, <1>6 DEF MayControl, AfterControl
<1>8. d \in Controls /\ Ready(d) /\ d.num = TRUE /\ d.h = 0 /\ d.running = FALSE
  BY <1>6 DEF Controls, Free, Ready, Held
<1> HIDE DEF d
<1>9. MayControl(d, <<"get_xlen">>) /\ e = AfterControl(d, <<"get_xlen">>)
  BY <1>8 DEF MayControl, AfterControl
<1>10. /\ e \in Controls /\ Ready(e) /\ e.num = TRUE /\ e.h = 0 /\ e.xl = TRUE
       /\ e.running = FALSE
  BY <1>8 DEF Controls, Ready, Held
<1> HIDE DEF e
<1>11. MayControl(e, <<"resume", 0>>) /\ f = AfterControl(e, <<"resume", 0>>)
  <2>1. AfterControl(e, <<"resume", 0>>) =
          [e EXCEPT !.st = "free", !.cur = 0, !.on = ~e.running,
                    !.h = IF e.running THEN 0 ELSE 0]
    BY DEF AfterControl
  <2>2. (~e.running) = TRUE  BY <1>10
  <2>3. f = AfterControl(e, <<"resume", 0>>)  BY <2>1, <2>2
  <2>4. MayControl(e, <<"resume", 0>>)  BY <1>10 DEF MayControl
  <2> QED  BY <2>3, <2>4
<1>12. f \in Controls /\ Free(f) /\ f.num /\ f.xl /\ f.on /\ f.cur = 0
  BY <1>10 DEF Controls, Free, Ready, Held
<1> HIDE DEF f, b
<1>13. Path("control", a, probe, f)
  BY <1>3, <1>5, <1>7, <1>9, <1>11, PathFive DEF May, After, probe
<1>14. Settled(f)
  <2>1. 0 \in Harts  BY Constants DEF Harts
  <2> QED  BY <2>1, <1>12 DEF Settled, Init
<1> QED  BY <1>2, <1>13, <1>14 DEF Init, ControlInv

LEMMA ControlNext ==
  ASSUME ControlInv, [Next]_vars
  PROVE  ControlInv'
<1>1. PICK a, f : ControlHolds(a) /\ Path("control", a, todo, f) /\ Settled(f)
  BY DEF ControlInv
<1>0. phase \in {"probe", "load", "reset", "run"}  BY DEF ControlInv
<1>2. ASSUME todo = <<>> PROVE a = f /\ ControlHolds(f)
  BY <1>1, <1>2, PathNone
\* The accesses.
<1>3. ASSUME todo # <<>>, UNCHANGED control,
             \E b : ControlHolds(b)' /\ Path("control", b, todo', f)
      PROVE  ControlInv'
  <2>1. PICK b : ControlHolds(b)' /\ Path("control", b, todo', f)  BY <1>3
  <2>2. Settled(f)'  BY <1>1, <1>3 DEF Settled, control
  <2>3. \E c, g : ControlHolds(c)' /\ Path("control", c, todo', g) /\ Settled(g)'
    BY <2>1, <2>2
  <2> QED  BY <2>3, <1>0, <1>3 DEF ControlInv, control
<1>4. CASE \/ SwitchDmcontrol \/ WriteHartsel \/ ReadDmcontrol \/ Poll \/ SetHart
           \/ WriteRegister \/ ReadData \/ Save \/ Copy \/ Succeeds \/ die
           \/ FindXlen \/ CountHarts
  <2>1. todo # <<>> /\ UNCHANGED control  BY <1>4, Pending
  <2>2. \E b : ControlHolds(b)' /\ Path("control", b, todo', f)
    BY <1>1, <1>4, <2>1, AccessStep
  <2> QED  BY <1>3, <2>1, <2>2
<1>5. CASE Enter \/ TryNextXlen \/ ReadMaxHart \/ FindHart
  <2>1. todo # <<>> /\ UNCHANGED control  BY <1>5, Pending
  <2>2. \E b : ControlHolds(b)' /\ Path("control", b, todo', f)
    BY <1>1, <1>5, <2>1, ExpandStep
  <2> QED  BY <1>3, <2>1, <2>2
\* Between two calls.
<1>6. CASE Return
  <2>1. todo = <<>> /\ ControlHolds(f)  BY <1>6, <1>2 DEF Return
  <2>2. UNCHANGED <<dmvars, todo, found, current_hart, dmcontrol, cmderr_read, phase>>
    BY <1>6 DEF Return
  <2>3. ControlHolds(f)'  BY <2>1, <2>2, SameControl DEF dmvars
  <2>4. Path("control", f, todo', f) /\ Settled(f)'  BY <1>1, <2>1, <2>2, PathNone DEF Settled
  <2>5. \E c, g : ControlHolds(c)' /\ Path("control", c, todo', g) /\ Settled(g)'
    BY <2>3, <2>4
  <2> QED  BY <2>2, <2>5, <1>0 DEF ControlInv
<1>7. CASE ProbeEnds
  <2> DEFINE b == [f EXCEPT !.running = TRUE]
  <2>1. todo = <<>> /\ ControlHolds(f) /\ phase = "probe"  BY <1>7, <1>2 DEF ProbeEnds, Idle
  <2>2. /\ UNCHANGED <<dmvars, todo, num_harts, xlen, max_hart, current_hart, locals>>
        /\ running' = TRUE /\ phase' = "load"
    BY <1>7 DEF ProbeEnds
  <2>3. f \in Controls /\ Free(f) /\ f.cur \in Harts /\ f.num /\ f.xl  BY <1>1 DEF Settled
  <2>4. b \in Controls  BY <2>3 DEF Controls
  <2>5. /\ b.e = f.e /\ b.t = f.t /\ b.st = f.st /\ b.on = f.on /\ b.h = f.h
        /\ b.auto = f.auto /\ b.cur = f.cur /\ b.num = f.num
        /\ b.xl = f.xl /\ b.mx = f.mx /\ b.dc = f.dc
    BY <2>3 DEF Controls
  <2>6. b.running = TRUE  BY <2>3 DEF Controls
  <2>7. b.dc = FALSE /\ b.num = TRUE /\ b.xl = TRUE  BY <2>3, <2>5 DEF Free, Controls
  <2> HIDE DEF b
  <2>8. UNCHANGED <<selection, requests, halted, command, abstractauto, busy, cmderr, xpc>>
    BY <2>2 DEF dmvars
  <2>9. CommandOK(b)'
    BY <2>1, <2>2, <2>5, <2>8, ControlParts DEF CommandOK, CommandAt, Tried, Sized, locals
  <2>10. StageOK(b)'  BY <2>1, <2>5, <2>8, StageKept, ControlParts
  <2>11. FoundOK(b)'
    BY <2>1, <2>2, <2>5, <2>6, <2>7, ControlParts DEF FoundOK
  <2>12. ControlHolds(b)'
    BY <2>1, <2>4, <2>5, <2>8, <2>9, <2>10, <2>11, ControlParts DEF ControlHolds, selection
  <2>13. Settled(b)'
    BY <2>2, <2>3, <2>4, <2>5, <2>6, <2>7 DEF Settled, Free
  <2>14. Path("control", b, todo', b)  BY <2>1, <2>2, PathNone
  <2>15. \E c, g : ControlHolds(c)' /\ Path("control", c, todo', g) /\ Settled(g)'
    BY <2>12, <2>13, <2>14
  <2> QED  BY <2>2, <2>15 DEF ControlInv
<1>8. CASE Reset
  <2> DEFINE b == [f EXCEPT !.cur = 0, !.on = FALSE, !.h = 0]
             x == <<"reset", 0>>
  <2>1. todo = <<>> /\ ControlHolds(f) /\ phase = "load"  BY <1>8, <1>2 DEF Reset, Idle
  <2>2. /\ UNCHANGED <<dmvars, found, current_hart, locals>>
        /\ todo' = <<x>> /\ phase' = "reset"
    BY <1>8 DEF Reset
  <2>3. f \in Controls /\ Free(f) /\ f.running /\ f.num /\ f.xl  BY <1>1, <2>1 DEF Settled
  <2>4. 0 \in 0..NHarts /\ 0 < NHarts /\ 0 \in Harts  BY Constants DEF Harts
  <2>5. ControlHolds(f)'  BY <2>1, <2>2, SameControl DEF dmvars, locals
  <2>6. MayControl(f, x)  BY <2>3, <2>4 DEF MayControl
  <2>7. b = AfterControl(f, x)  BY <2>4 DEF AfterControl
  <2>8. b \in Controls  BY <2>3 DEF Controls
  <2>9. /\ Free(b) /\ b.running = f.running /\ b.num = f.num /\ b.xl = f.xl /\ b.cur = 0
        /\ b.on = FALSE
    BY <2>3 DEF Controls, Free
  <2> HIDE DEF b
  <2>10. Settled(b)'  BY <2>2, <2>3, <2>4, <2>8, <2>9 DEF Settled
  <2>11. Path("control", f, todo', b)  BY <2>2, <2>6, <2>7, PathOne DEF May, After
  <2>12. \E c, g : ControlHolds(c)' /\ Path("control", c, todo', g) /\ Settled(g)'
    BY <2>5, <2>10, <2>11
  <2> QED  BY <2>2, <2>12 DEF ControlInv
<1>9. CASE ResetEnds
  <2>1. todo = <<>> /\ ControlHolds(f) /\ phase = "reset"  BY <1>9, <1>2 DEF ResetEnds, Idle
  <2>2. UNCHANGED <<dmvars, todo, found, current_hart, locals>> /\ phase' = "run"
    BY <1>9 DEF ResetEnds
  <2>3. ControlHolds(f)'  BY <2>1, <2>2, SameControl DEF dmvars, locals
  <2>4. Path("control", f, todo', f)  BY <2>1, <2>2, PathNone
  <2>5. Settled(f)'  BY <1>1, <2>1, <2>2 DEF Settled
  <2>6. \E c, g : ControlHolds(c)' /\ Path("control", c, todo', g) /\ Settled(g)'
    BY <2>3, <2>4, <2>5
  <2> QED  BY <2>2, <2>6 DEF ControlInv
\* The calls.
<1>10. ASSUME NEW routine, Calls(routine),
              Callable(f) => Path("control", f, routine, GivenBack(f))
       PROVE  ControlInv'
  <2>1. todo = <<>> /\ phase \in {"load", "run"}  BY <1>10 DEF Calls, MayCall, Idle
  <2>2. ControlHolds(f)  BY <1>2, <2>1
  <2>3. Callable(f)  BY <1>1, <2>1, <2>2, ControlParts DEF Settled, Callable, FoundOK
  <2> QED  BY <1>1, <1>10, <2>2, <2>3, CallControl
<1>11. CASE \E c \in Chunks :
              \/ ReadChunk(c[1], c[2]) \/ ClearChunk(c[1], c[2])
              \/ \E ws \in [1..c[2] -> Chunked] : WriteChunk(c[1], ws)
  <2>1. PICK c \in Chunks :
              \/ ReadChunk(c[1], c[2]) \/ ClearChunk(c[1], c[2])
              \/ \E ws \in [1..c[2] -> Chunked] : WriteChunk(c[1], ws)
    BY <1>11
  <2>2. CASE ReadChunk(c[1], c[2])
    BY <2>2, <1>10, ReadChunkPath DEF ReadChunk
  <2>3. CASE ClearChunk(c[1], c[2])
    BY <2>3, <1>10, ClearChunkPath DEF ClearChunk
  <2>4. CASE \E ws \in [1..c[2] -> Chunked] : WriteChunk(c[1], ws)
    BY <2>4, <1>10, WriteChunkPath DEF WriteChunk
  <2> QED  BY <2>1, <2>2, <2>3, <2>4
<1>12. CASE \E c \in CsrCalls : ModifyCsr(c[1], c[2])
  BY <1>12, <1>10, ModifyCsrPath DEF ModifyCsr
\* The target.
<1>13. ASSUME ControlHolds(a)', UNCHANGED <<todo, control>>
       PROVE  ControlInv'
  <2>1. Settled(f)' /\ Path("control", a, todo', f)  BY <1>1, <1>13 DEF Settled, control
  <2>2. \E c, g : ControlHolds(c)' /\ Path("control", c, todo', g) /\ Settled(g)'
    BY <2>1, <1>13
  <2> QED  BY <2>2, <1>0, <1>13 DEF ControlInv, control
<1>14. CASE ModuleSteps
  <2>1. ControlHolds(a)'  BY <1>1, <1>14, ModuleControl DEF ModuleSteps, hostvars, locals
  <2> QED  BY <2>1, <1>13, <1>14 DEF ModuleSteps, hostvars
<1>15. CASE HartsStep
  <2>1. ControlHolds(a)'  BY <1>1, <1>15, HartControl
  <2> QED  BY <2>1, <1>13, <1>15 DEF HartsStep, hostvars
<1>16. CASE \E h \in Harts : OnHart(h)
  <2>1. /\ UNCHANGED <<selection, requests, command, abstractauto, busy, cmderr, xpc, halted>>
        /\ UNCHANGED hostvars
    BY <1>16 DEF OnHart
  <2>2. ControlHolds(a)'  BY <1>1, <2>1, SameControl DEF hostvars, locals
  <2> QED  BY <2>1, <2>2, <1>13 DEF hostvars
<1>17. CASE UNCHANGED vars
  <2>1. ControlHolds(a)'  BY <1>1, <1>17, SameControl DEF vars, dmvars, locals
  <2> QED  BY <2>1, <1>13, <1>17 DEF vars
<1>18. CASE Nop  BY <1>17, <1>18 DEF Nop
<1>19. ASSUME NEW h \in Harts,
              (\E a2 \in Addrs, v \in Chunked : ProgramStores(h, a2, v)) \/ ProgramSwaps(h)
       PROVE  ControlInv'
  BY <1>16, <1>19 DEF ProgramStores, ProgramSwaps
<1> QED
  BY <1>4, <1>5, <1>6, <1>7, <1>8, <1>9, <1>11, <1>12, <1>14, <1>15, <1>17, <1>18, <1>19
     DEF Next, Host, Asks, Target

\* Whatever dtm_t still has to do (todo) suits what the harts and the debug module
\* are doing: a halted hart in front of every command, no request that is given up
\* before the hart has obeyed, the debug module off when the host is idle.
THEOREM ControlTheorem == Spec => []ControlInv
<1>1. Init => ControlInv  BY ControlInit
<1>2. ControlInv /\ [Next]_vars => ControlInv'  BY ControlNext
<1> QED  BY <1>1, <1>2, PTL DEF Spec

\* No access of dtm_t comes while an abstract command runs, and no command while
\* the hart does: run_abstract_command polls busy, and halt() waits for allhalted.
THEOREM NeverTooEarlyTheorem == Spec => []NeverTooEarly
<1>1. ControlInv => NeverTooEarly
  <2> SUFFICES ASSUME ControlInv PROVE NeverTooEarly  OBVIOUS
  <2>1. PICK a : ControlHolds(a)  BY DEF ControlInv
  <2>2. CommandOK(a) /\ a.e \in {"ok", "run", "seen"} /\ busy \in BOOLEAN
    BY <2>1, ControlParts DEF Controls
  <2>3. cmderr \in {0, ErrNotSupported, ErrException}
    BY <2>2 DEF CommandOK, CommandAt, OutcomeOf
  <2> QED  BY <2>3 DEF NeverTooEarly, ErrBusy, ErrNotSupported, ErrException, ErrHaltResume
<1> QED  BY <1>1, ControlTheorem, PTL

\* Whatever a routine of dtm_t did, and whether its commands failed or not, between
\* two calls no hart is halted or about to be, and resume() has left the module off.
THEOREM TargetLeftRunningTheorem == Spec => []TargetLeftRunning
<1>1. ControlInv => TargetLeftRunning
  <2> SUFFICES ASSUME ControlInv, todo = <<>>
               PROVE  /\ halted = {} /\ haltreq = {} /\ resumereq = {}
                      /\ phase = "run" => ~dmactive
    BY DEF TargetLeftRunning, Idle
  <2>1. PICK a, f : ControlHolds(a) /\ Path("control", a, todo, f) /\ Settled(f)
    BY DEF ControlInv
  <2>2. a = f  BY <2>1, PathNone
  <2> QED  BY <2>1, <2>2, ControlParts DEF Settled, Free, StageOK
<1> QED  BY <1>1, ControlTheorem, PTL

\* enumerate_harts and get_xlen find the number of harts and their width, also with
\* a hartsel that cannot hold a number beyond the last hart.
THEOREM ProbeFindsTheorem == Spec => []ProbeFinds
<1>1. ControlInv => ProbeFinds
  BY ControlParts DEF ControlInv, FoundOK, ProbeFinds
<1> QED  BY <1>1, ControlTheorem, PTL

-------------------------------------------------------------------------------
(* An access: for any registers and data, the handshake of tick(), or       *)
(* return_resp, executes every request of do_command once and returns its   *)
(* own result.  Between two switches the host and the debug module take     *)
(* turns, and HandshakeInv says what each finds when it is its turn.        *)

\* The debug module works on a request only while the host waits for it in
\* do_command, and on the one in req_buf; tick() expects a response exactly then.
TurnInv ==
  /\ cur = "target" => commanding
  /\ cur = "host" => module = "ready" /\ ~resp_wait
  /\ module # "ready" => accepted = req_buf
  /\ ~ticking => ~resp_wait

HandshakeInv == TypeOK /\ TurnInv /\ ResponseExpected

\* What tick and return_resp put in the response is one.
LEMMA ResponseType ==
  ASSUME TypeOK, NEW r \in Requests, NEW s \in {0, 2}
  PROVE  /\ Answer(r, reg) \in Data
         /\ Effect(r, reg) \in [Registers -> Data]
         /\ [resp |-> s, data |-> Answer(r, reg)] \in Responses
<1>1. Answer(r, reg) \in Data
  BY DtmTickConstants DEF Answer, TypeOK, Requests
<1>2. Effect(r, reg) \in [Registers -> Data]
  BY DEF Effect, TypeOK, Requests
<1> QED  BY <1>1, <1>2 DEF Responses

\* The requests of the host are requests.
LEMMA RequestType ==
  /\ \A a \in Registers : read(a) \in Requests
  /\ \A a \in Registers, d \in Data : write(a, d) \in Requests
  /\ nop \in Requests
BY DtmTickConstants DEF read, write, nop, Requests

LEMMA HandshakeInit == TickInit => HandshakeInv
<1> SUFFICES ASSUME TickInit PROVE HandshakeInv  OBVIOUS
<1>1. TypeOK  BY RequestType, DtmTickConstants DEF TickInit, TypeOK, Responses
<1> QED  BY <1>1 DEF TickInit, HandshakeInv, TurnInv, ResponseExpected

\* Any cycle of any step keeps the invariant.
LEMMA HandshakeStep == HandshakeInv /\ [TickNext]_tickvars => HandshakeInv'
<1> SUFFICES ASSUME HandshakeInv, [TickNext]_tickvars PROVE HandshakeInv'  OBVIOUS
<1> USE DEF HandshakeInv, TurnInv, ResponseExpected, TypeOK
<1>1. ASSUME NEW r \in Requests, do_command(r) PROVE HandshakeInv'
  BY <1>1 DEF do_command, dtm, dm
<1>2. CASE CommandReturns
  BY <1>2 DEF CommandReturns, dtm, dm
<1>3. CASE CommandFails
  BY <1>3 DEF CommandFails, host, dtm, dm
<1>4. ASSUME NEW req_ready \in BOOLEAN, TickWaits(req_ready) PROVE HandshakeInv'
  <2>1. CASE Handover(req_ready)
    BY <1>4, <2>1 DEF TickWaits, NextReqWait, Awaits, Handover, host
  <2>2. CASE ~Handover(req_ready)
    BY <1>4, <2>2 DEF TickWaits, NextReqWait, Awaits, Handover, host
  <2> QED  BY <2>1, <2>2
<1>5. CASE TickResponds
  BY <1>5 DEF TickResponds, Respond, NextReqWait, Handover
<1>6. ASSUME NEW s \in {0, 2}, TickAtOnce(s) PROVE HandshakeInv'
  BY <1>6, ResponseType DEF TickAtOnce, Respond, NextReqWait, Handover
<1>7. ASSUME NEW s \in {0, 2}, Execute(s) PROVE HandshakeInv'
  BY <1>7, ResponseType DEF Execute, host, dtm
<1>8. CASE TakeRequest
  BY <1>8 DEF TakeRequest, host, dtm
<1>9. CASE return_resp
  BY <1>9 DEF return_resp, Respond
<1>10. CASE UNCHANGED tickvars
  BY <1>10 DEF tickvars, host, dtm, dm
<1> QED
  BY <1>1, <1>2, <1>3, <1>4, <1>5, <1>6, <1>7, <1>8, <1>9, <1>10, RequestType
  DEF TickNext, Commands, Cycles

\* Whatever the delays, the types are kept and assert(resp_wait) of tick() holds.
THEOREM AssertionHolds == TickSpec => [](TypeOK /\ ResponseExpected)
<1>1. HandshakeInv => TypeOK /\ ResponseExpected  BY DEF HandshakeInv
<1> QED  BY HandshakeInit, HandshakeStep, <1>1, PTL DEF TickSpec

LEMMA PortInit == TickInit => Port!Init
BY DtmTickConstants DEF TickInit, Port!Init

\* Each step is one of the port, or a delay that the caller does not see.
LEMMA PortStep == HandshakeInv /\ [TickNext]_tickvars => [Port!Next]_(Port!dmivars)
<1> SUFFICES ASSUME HandshakeInv, [TickNext]_tickvars PROVE [Port!Next]_(Port!dmivars)
  OBVIOUS
<1> USE DEF HandshakeInv, TurnInv, TypeOK
<1>a. NoResult \notin Data /\ NoRequest \notin Requests
  BY DtmTickConstants DEF Requests
<1>1. ASSUME NEW r \in Requests, do_command(r) PROVE Port!Call(r)
  BY <1>1 DEF do_command, dm, Port!Call
<1>2. CASE CommandReturns
  <2>1. Port!Return
    BY <1>2, <1>a DEF CommandReturns, dm, Port!Return, Responses
  <2> QED  BY <2>1 DEF Port!Next
<1>3. CASE CommandFails
  <2>1. Port!Fail
    BY <1>3, <1>a DEF CommandFails, host, dtm, dm, Port!Fail
  <2> QED  BY <2>1 DEF Port!Next
<1>4. ASSUME NEW req_ready \in BOOLEAN, TickWaits(req_ready)
      PROVE  UNCHANGED Port!dmivars
  BY <1>4 DEF TickWaits, host, Port!dmivars
<1>5. CASE TickResponds
  <2>1. UNCHANGED Port!dmivars
    BY <1>5 DEF TickResponds, Respond, Port!dmivars
  <2> QED  BY <2>1
<1>6. ASSUME NEW s \in {0, 2}, TickAtOnce(s) PROVE Port!Execute
  BY <1>6, <1>a DEF TickAtOnce, Respond, Port!Execute, Answer, Effect,
    Port!Answer, Port!Effect
<1>7. ASSUME NEW s \in {0, 2}, Execute(s) PROVE Port!Execute
  BY <1>7, <1>a DEF Execute, host, dtm, Port!Execute, Answer, Effect,
    Port!Answer, Port!Effect
<1>8. CASE TakeRequest
  <2>1. UNCHANGED Port!dmivars
    BY <1>8 DEF TakeRequest, host, dtm, Port!dmivars
  <2> QED  BY <2>1
<1>9. CASE return_resp
  <2>1. UNCHANGED Port!dmivars
    BY <1>9 DEF return_resp, Respond, Port!dmivars
  <2> QED  BY <2>1
<1>10. CASE UNCHANGED tickvars
  <2>1. UNCHANGED Port!dmivars
    BY <1>10 DEF tickvars, host, dtm, dm, Port!dmivars
  <2> QED  BY <2>1
<1>11. \A r \in Requests : r \in Port!Requests
  BY DEF Requests, Port!Requests
<1> QED
  BY <1>1, <1>2, <1>3, <1>4, <1>5, <1>6, <1>7, <1>8, <1>9, <1>10, <1>11, RequestType
  DEF TickNext, Commands, Cycles, Port!Next

\* Every request is executed once and answered with its own result.
THEOREM DmiRefinement == TickSpec => ImplementsDmi
<1> QED
  BY HandshakeInit, HandshakeStep, PortInit, PortStep, PTL
  DEF TickSpec, ImplementsDmi, Port!Spec

===============================================================================
