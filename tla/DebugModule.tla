------------------------------ MODULE DebugModule ------------------------------
(***************************************************************************)
(* The debug module and the harts as dtm_t uses them.  They are external:  *)
(* debug_defines.h says what the registers do, dtm.cc which of them are    *)
(* used and how.  A register of a hart has XWords words of the debug       *)
(* interface.  Addresses count registers, not bytes.                       *)
(***************************************************************************)
EXTENDS Integers, FiniteSetsExt

CONSTANTS
  XWords,     \* 1 on RV32 and 2 on RV64
  WordBase,   \* how many values a word has
  NHarts,     \* the harts
  MaxHartsel, \* the largest hartsel that the debug module can hold, of up to 10 bits
  MemWords,   \* the registers' worth of memory; other addresses fault
  Entry,      \* the program's entry point
  MaxProgram  \* bound: the steps of the programs on the harts

Xlen == 32 * XWords
Harts == 0..NHarts - 1
Word == 0..WordBase - 1
ValueBase == IF XWords = 1 THEN WordBase ELSE WordBase * WordBase
Value == 0..ValueBase - 1
Addrs == 0..MemWords - 1

ASSUME DebugModuleConstants ==
  /\ XWords \in {1, 2} /\ WordBase \in Nat \ {0, 1}
  /\ MaxHartsel \in {0, 1, 3, 7, 15, 31, 63, 127, 255, 511, 1023}
  /\ NHarts \in 1..MaxHartsel + 1 /\ MemWords \in Nat
  /\ Addrs \subseteq Value /\ Entry \in Value /\ MaxProgram \in Nat

VARIABLES
  \* the debug module
  dmactive, hartsel,
  haltreq, resumereq, \* the harts that are asked to halt, to resume
  resumeack,          \* the harts that have resumed when asked to
  progbuf, data, command, abstractauto,
  busy, cmderr,
  xpc,                \* the instruction of progbuf that is executed next
  \* the harts
  halted, s0, s1, dscratch,
  pc,                 \* in debug mode, it is in dpc
  mem,
  stale,              \* harts that may have fetched what a store has changed
  program             \* the steps that the programs have made

selection == <<dmactive, hartsel>>
requests == <<haltreq, resumereq, resumeack>>
regs == <<s0, s1, dscratch, pc>>
dmvars == <<selection, requests, progbuf, data, command, abstractauto, busy,
            cmderr, xpc, halted, regs, mem, stale, program>>

NoCommand == [transfer |-> FALSE, write |-> FALSE, postexec |-> FALSE,
              size |-> 32, regno |-> "x0"]
EmptyBuffer == [i \in 0..5 |-> <<"illegal">>]

\* The ith word of a register, and the value of the data registers.
Nthword(v, i) == (IF i = 0 THEN v ELSE v \div WordBase) % WordBase
DataValue(d) == IF XWords = 1 THEN d[0] ELSE d[0] + WordBase * d[1]

DmInit ==
  /\ dmactive = FALSE /\ hartsel = 0
  /\ haltreq = {} /\ resumereq = {} /\ resumeack = {}
  /\ progbuf = EmptyBuffer /\ data = [i \in 0..1 |-> 0]
  /\ command = NoCommand /\ abstractauto = FALSE
  /\ busy = FALSE /\ cmderr = 0 /\ xpc = 0
  /\ halted = {}
  /\ s0 = [h \in Harts |-> ValueBase - 1] /\ s1 = [h \in Harts |-> 1]
  /\ dscratch = [h \in Harts |-> 0]
  /\ pc = [h \in Harts |-> 0]
  /\ mem = [a \in Addrs |-> 0]
  /\ stale = {} /\ program = 0

-------------------------------------------------------------------------------
(* Accesses over the debug module interface.                                *)

\* While dmactive is 0, nothing but dmactive can be written, and the debug module,
\* not the harts, is held in reset.
DmcontrolWrite(d) ==
  /\ dmactive' = d.dmactive
  /\ IF d.dmactive /\ dmactive
     THEN /\ hartsel' = d.hartsel % (MaxHartsel + 1)
          /\ haltreq' = IF d.haltreq THEN haltreq \cup {hartsel'}
                                     ELSE haltreq \ {hartsel'}
          /\ resumereq' = resumereq \cup (IF d.resumereq THEN {hartsel'} ELSE {})
          /\ resumeack' = resumeack \ (IF d.resumereq THEN {hartsel'} ELSE {})
          /\ UNCHANGED <<progbuf, data, command, abstractauto, busy, cmderr, xpc>>
     ELSE /\ hartsel' = 0
          /\ haltreq' = {} /\ resumereq' = {} /\ resumeack' = {}
          /\ progbuf' = EmptyBuffer /\ data' = [i \in 0..1 |-> 0]
          /\ command' = NoCommand /\ abstractauto' = FALSE
          /\ busy' = FALSE /\ cmderr' = 0 /\ xpc' = 0
  /\ UNCHANGED <<halted, regs, mem, stale, program>>

DmcontrolRead == [dmactive |-> dmactive, hartsel |-> hartsel,
                  haltreq |-> FALSE, resumereq |-> FALSE]

allhalted == dmactive /\ hartsel \in halted
allresumeack == dmactive /\ hartsel \in resumeack
anynonexistent == hartsel \notin Harts

ErrBusy == 1
ErrNotSupported == 2
ErrException == 3
ErrHaltResume == 4

\* A write of one of the registers below: none is made while dmactive is 0, and
\* one that comes while a command runs is an error instead.
Writing(regs_written) ==
  /\ UNCHANGED <<selection, requests, halted, regs, mem, stale, program>>
  /\ IF dmactive /\ ~busy
     THEN regs_written
     ELSE /\ cmderr' = IF busy /\ cmderr = 0 THEN ErrBusy ELSE cmderr
          /\ UNCHANGED <<progbuf, data, command, abstractauto, busy, xpc>>

\* A command starts unless an error is pending.
Start(c) ==
  \/ /\ cmderr # 0
     /\ UNCHANGED <<busy, cmderr, xpc>>
  \/ /\ cmderr = 0
     /\ c.size > Xlen
     /\ cmderr' = ErrNotSupported
     /\ UNCHANGED <<busy, xpc>>
  \/ /\ cmderr = 0
     /\ c.size <= Xlen /\ hartsel \notin halted
     /\ cmderr' = ErrHaltResume
     /\ UNCHANGED <<busy, xpc>>
  \/ /\ cmderr = 0
     /\ c.size <= Xlen /\ hartsel \in halted
     /\ busy' = TRUE /\ xpc' = -1
     /\ UNCHANGED cmderr

ProgbufWrite(i, instruction) ==
  Writing(/\ progbuf' = [progbuf EXCEPT ![i] = instruction]
          /\ UNCHANGED <<data, command, abstractauto, busy, cmderr, xpc>>)

\* A write of data 0 repeats the command when abstractauto is set.
DataWrite(i, w) ==
  Writing(/\ data' = [data EXCEPT ![i] = w]
          /\ IF i = 0 /\ abstractauto THEN Start(command)
                                      ELSE UNCHANGED <<busy, cmderr, xpc>>
          /\ UNCHANGED <<progbuf, command, abstractauto>>)

\* The same goes for a read; the caller takes data[i] of before.
DataRead(i) ==
  Writing(/\ IF i = 0 /\ abstractauto THEN Start(command)
                                      ELSE UNCHANGED <<busy, cmderr, xpc>>
          /\ UNCHANGED <<progbuf, data, command, abstractauto>>)

CommandWrite(c) ==
  Writing(/\ command' = c
          /\ Start(c)
          /\ UNCHANGED <<progbuf, data, abstractauto>>)

AutoWrite(on) ==
  Writing(/\ abstractauto' = on
          /\ UNCHANGED <<progbuf, data, command, busy, cmderr, xpc>>)

CmderrClear ==
  Writing(/\ cmderr' = 0
          /\ UNCHANGED <<progbuf, data, command, abstractauto, busy, xpc>>)

-------------------------------------------------------------------------------
(* The debug module executes a command on the selected hart.                *)

SetReg(regno, v) ==
  /\ s0' = IF regno = "s0" THEN [s0 EXCEPT ![hartsel] = v] ELSE s0
  /\ s1' = IF regno = "s1" THEN [s1 EXCEPT ![hartsel] = v] ELSE s1

GetReg(regno) ==
  IF regno = "s0" THEN s0[hartsel] ELSE IF regno = "s1" THEN s1[hartsel] ELSE 0

\* The transfer between the data registers and the register, of as many words as
\* the size says.
Transfer ==
  /\ busy /\ xpc = -1
  /\ IF command.write
       THEN SetReg(command.regno, DataValue(data)) /\ UNCHANGED data
       ELSE /\ data' = [i \in 0..1 |-> IF 32 * i < command.size
                                       THEN Nthword(GetReg(command.regno), i)
                                       ELSE data[i]]
            /\ UNCHANGED <<s0, s1>>
  /\ busy' = command.postexec
  /\ xpc' = 0
  /\ UNCHANGED <<selection, requests, progbuf, command, abstractauto, cmderr,
                 halted, dscratch, pc, mem, stale, program>>

Bits(v) == {k \in 0..v : (v \div 2^k) % 2 = 1}
FromBits(b) == MapThenSumSet(LAMBDA k : 2^k, b)

CsrUpdate(type, old, v) ==
  IF type = "WRITE" THEN v
  ELSE FromBits(IF type = "SET" THEN Bits(old) \cup Bits(v) ELSE Bits(old) \ Bits(v))

\* The instructions that dtm_t puts in progbuf.  S0 is the address of a load or
\* store; the data registers lie in memory at data_base.
Executes(i) ==
  \/ /\ i = <<"LOAD s1">> /\ s0[hartsel] \in Addrs
     /\ s1' = [s1 EXCEPT ![hartsel] = mem[s0[hartsel]]]
     /\ UNCHANGED <<s0, dscratch, pc, data, mem, stale>>
  \/ /\ i \in {<<"STORE s1">>, <<"STORE x0">>} /\ s0[hartsel] \in Addrs
     /\ mem' = [mem EXCEPT ![s0[hartsel]] =
                  IF i = <<"STORE s1">> THEN s1[hartsel] ELSE 0]
     /\ stale' = Harts
     /\ UNCHANGED <<regs, data>>
  \/ /\ i = <<"ADDI s0">>
     /\ s0' = [s0 EXCEPT ![hartsel] = (@ + 1) % ValueBase]
     /\ UNCHANGED <<s1, dscratch, pc, data, mem, stale>>
  \/ /\ i = <<"BNE">>
     /\ UNCHANGED <<regs, data, mem, stale>>
  \/ /\ i = <<"FENCE_I">>
     /\ stale' = stale \ {hartsel}
     /\ UNCHANGED <<regs, data, mem>>
  \/ /\ i = <<"CSRRW dscratch">>
     /\ s0' = [s0 EXCEPT ![hartsel] = dscratch[hartsel]]
     /\ dscratch' = [dscratch EXCEPT ![hartsel] = s0[hartsel]]
     /\ UNCHANGED <<s1, pc, data, mem, stale>>
  \/ /\ i = <<"LOAD data">>
     /\ s0' = [s0 EXCEPT ![hartsel] = DataValue(data)]
     /\ UNCHANGED <<s1, dscratch, pc, data, mem, stale>>
  \/ /\ i = <<"STORE data">>
     /\ data' = [k \in 0..1 |-> IF k < XWords THEN Nthword(s0[hartsel], k)
                                              ELSE data[k]]
     /\ UNCHANGED <<regs, mem, stale>>
  \/ /\ i[1] = "CSRR" /\ i[3] = "dpc"
     /\ s0' = [s0 EXCEPT ![hartsel] = pc[hartsel]]
     /\ pc' = [pc EXCEPT ![hartsel] = CsrUpdate(i[2], @, s0[hartsel])]
     /\ UNCHANGED <<s1, dscratch, data, mem, stale>>

\* Any other access to memory and any other instruction and CSR raises an
\* exception.
Faults(i) ==
  \/ i \in {<<"LOAD s1">>, <<"STORE s1">>, <<"STORE x0">>} /\ s0[hartsel] \notin Addrs
  \/ i = <<"illegal">>
  \/ i[1] = "CSRR" /\ i[3] # "dpc"

Running == busy /\ xpc >= 0

ExecuteInstruction ==
  /\ Running
  /\ Executes(progbuf[xpc])
  /\ xpc' = IF progbuf[xpc] = <<"BNE">> /\ s0[hartsel] # s1[hartsel]
              THEN 0 ELSE xpc + 1
  /\ UNCHANGED <<selection, requests, progbuf, command, abstractauto, busy, cmderr,
                 halted, program>>

EndProgram ==
  /\ Running
  /\ progbuf[xpc] = <<"EBREAK">> \/ Faults(progbuf[xpc])
  /\ busy' = FALSE
  /\ cmderr' = IF Faults(progbuf[xpc]) THEN ErrException ELSE cmderr
  /\ UNCHANGED <<selection, requests, progbuf, data, command, abstractauto, xpc,
                 halted, regs, mem, stale, program>>

-------------------------------------------------------------------------------
(* The harts.                                                               *)

HartHalts(h) ==
  /\ h \in haltreq \ halted
  /\ halted' = halted \cup {h}
  /\ UNCHANGED <<selection, requests, progbuf, data, command, abstractauto, busy,
                 cmderr, xpc, regs, mem, stale, program>>

HartResumes(h) ==
  /\ h \in resumereq
  /\ halted' = halted \ {h}
  /\ resumereq' = resumereq \ {h}
  /\ resumeack' = resumeack \cup {h}
  /\ UNCHANGED <<selection, haltreq, progbuf, data, command, abstractauto, busy,
                 cmderr, xpc, regs, mem, stale, program>>

===============================================================================
