---------------------------------- MODULE Dtm ----------------------------------
(***************************************************************************)
(* dtm_t: the host reads and writes memory through a debug module.  It     *)
(* halts a hart, saves S0 and S1, has the hart execute short programs that *)
(* load and store, restores S0 and S1, and resumes the hart.  All of this  *)
(* is a sequence of accesses to the debug module, each of which is         *)
(* do_command (see Dmi and DtmTick); `todo' holds the accesses, and the    *)
(* calls, that the routine in progress has still to make.  The harts and   *)
(* the debug module go on between any two of them.                         *)
(***************************************************************************)
EXTENDS DebugModule, Sequences

CONSTANTS
  MaxLen,     \* bound: the registers' worth of one chunk
  MaxCalls,   \* bound: the calls of the host before and after reset()
  Chunked,    \* what a chunk is written with
  CsrCalls,   \* the calls of write_csr, set_csr and clear_csr: <<type, data>>
  Wild,       \* chunks may lie outside memory
  NoRead

ASSUME DtmConstants ==
  /\ MaxLen \in Nat \ {0} /\ MaxCalls \in Nat /\ Chunked \subseteq Value
  /\ \A c \in CsrCalls :
       /\ c[1] \in {"WRITE", "SET", "CLEAR"} /\ c[2] \in Value
       /\ \A old \in Value : CsrUpdate(c[1], old, c[2]) \in Value
  /\ NoRead \notin [addr : Value, len : 1..MaxLen]
  /\ NoRead \notin [old : Value, new : Value]

VARIABLES
  todo,
  phase,      \* "probe", "load", "reset" or "run"
  running, current_hart, num_harts, xlen,
  max_hart,
  dmcontrol,  \* what select_hart has read
  cmderr_read,
  words,      \* data[], as it was read
  saved,      \* s0 and s1 of read_chunk, write_chunk and clear_chunk
  result,     \* dst of read_chunk, as far as it is filled
  calls,      \* the calls made in this phase
  calling,
  \* history
  rd, loaded, \* the read_chunk in progress, and what the hart has loaded for it
  posted,     \* what write_chunk or clear_chunk has still to store
  csr,        \* the csr call in progress, with what dpc was and should become
  kept        \* S0 and S1 of each hart as the program on it left them

found == <<running, num_harts, xlen, max_hart>>
locals == <<dmcontrol, cmderr_read, words, saved, result>>
history == <<rd, loaded, posted, csr, kept>>
control == <<phase, calls, calling>>
vars == <<dmvars, todo, found, current_hart, locals, control, history>>

-------------------------------------------------------------------------------
(* The routines, as sequences of accesses.                                  *)

Off == [dmactive |-> FALSE, hartsel |-> 0, haltreq |-> FALSE, resumereq |-> FALSE]
Active(h) == [Off EXCEPT !.dmactive = TRUE, !.hartsel = h]

halt(h) ==
  (IF running THEN << <<"dmcontrol", Active(0)>>, <<"dmstatus">> >> ELSE <<>>)
  \o << <<"dmcontrol", [Active(h) EXCEPT !.haltreq = TRUE]>>, <<"allhalted">>,
        <<"dmcontrol", Active(h)>>, <<"dmstatus">>, <<"hart", h>> >>

resume(h) ==
  << <<"dmcontrol", [Active(h) EXCEPT !.resumereq = TRUE]>>, <<"allresumeack">>,
     <<"dmcontrol", Active(h)>>, <<"dmstatus">>, <<"hart", h>> >>
  \o IF running THEN << <<"dmcontrol", Off>>, <<"dmstatus">> >> ELSE <<>>

select_hart(h) == << <<"readDmcontrol">>, <<"writeHartsel", h>>, <<"hart", h>> >>

\* The accesses that read and write the data registers.
Reads == [i \in 1..xlen \div 32 |-> <<"readData", i - 1>>]
Writes(v) == [i \in 1..xlen \div 32 |-> <<"data", i - 1, v>>]
Restores(r) == [i \in 1..xlen \div 32 |-> <<"saved", i - 1, r>>]

\* A register access, with POSTEXEC or without.
GetRegister(r, postexec) ==
  [transfer |-> TRUE, write |-> FALSE, postexec |-> postexec, size |-> xlen, regno |-> r]
SetRegister(r, postexec) ==
  [transfer |-> TRUE, write |-> TRUE, postexec |-> postexec, size |-> xlen, regno |-> r]

\* A bug: the data registers are read without waiting for the command.
run_abstract_command_hasty(c, prog, transfers) ==
  [i \in 1..Len(prog) |-> <<"progbuf", i - 1, prog[i]>>]
  \o (IF c.write THEN transfers ELSE <<>>)
  \o << <<"command", c>> >>
  \o (IF c.write THEN <<>> ELSE transfers)
  \o << <<"abstractcs">> >>

run_abstract_command(c, prog, transfers) ==
  [i \in 1..Len(prog) |-> <<"progbuf", i - 1, prog[i]>>]
  \o (IF c.write THEN transfers ELSE <<>>)
  \o << <<"command", c>>, <<"abstractcs">> >>
  \o (IF c.write THEN <<>> ELSE transfers)

RUN_AC_OR_DIE(c, prog, transfers) ==
  run_abstract_command(c, prog, transfers) \o << <<"check">> >>

save_reg(r) == RUN_AC_OR_DIE(GetRegister(r, FALSE), <<>>, Reads) \o << <<"save", r>> >>
restore_reg(r) == RUN_AC_OR_DIE(SetRegister(r, FALSE), <<>>, Restores(r))

\* What the three chunk calls have in common.
WithHart(body) ==
  halt(current_hart) \o save_reg("s0") \o save_reg("s1")
  \o body
  \o restore_reg("s0") \o restore_reg("s1") \o resume(current_hart)

\* A bug: the last word is read with POSTEXEC, and one more is loaded.
read_words_more(i, len) ==
  IF i > len THEN <<>>
  ELSE RUN_AC_OR_DIE(GetRegister("s1", TRUE), <<>>, Reads)
       \o << <<"copy">>, <<"read_words", i + 1, len>> >>

\* The loop of read_chunk, from the ith word on.
read_words(i, len) ==
  IF i > len THEN <<>>
  ELSE RUN_AC_OR_DIE(GetRegister("s1", i < len), <<>>, Reads)
       \o << <<"copy">>, <<"read_words", i + 1, len>> >>

read_chunk(a, len) ==
  WithHart(
    RUN_AC_OR_DIE(SetRegister("s0", TRUE),
                  << <<"LOAD s1">>, <<"ADDI s0">>, <<"EBREAK">> >>, Writes(a))
    \o << <<"read_words", 1, len>> >>)

\* The loop of write_chunk, for the words after the first.  Each write of data 0
\* repeats the last command.
more_words(ws) ==
  IF ws = <<>> THEN <<>>
  ELSE (IF xlen = 64 THEN << <<"data", 1, ws[1]>> >> ELSE <<>>)
       \o << <<"data", 0, ws[1]>>, <<"abstractcs">>, <<"check">>,
             <<"more_words", Tail(ws)>> >>

\* A bug: autoexec stays on.
auto_words_on(ws) ==
  IF Len(ws) = 1 THEN <<>>
  ELSE << <<"auto", TRUE>>, <<"more_words", Tail(ws)>> >>

auto_words(ws) ==
  IF Len(ws) = 1 THEN <<>>
  ELSE << <<"auto", TRUE>>, <<"more_words", Tail(ws)>>, <<"auto", FALSE>> >>

write_chunk(a, ws) ==
  WithHart(
    RUN_AC_OR_DIE(SetRegister("s0", FALSE),
                  << <<"STORE s1">>, <<"ADDI s0">>, <<"EBREAK">> >>, Writes(a))
    \o RUN_AC_OR_DIE(SetRegister("s1", TRUE), <<>>, Writes(ws[1]))
    \o auto_words(ws))

\* A bug: the loop stores to the same place again and again.
clear_chunk_still(a, len) ==
  WithHart(
    RUN_AC_OR_DIE(SetRegister("s0", FALSE), <<>>, Writes(a))
    \o RUN_AC_OR_DIE(SetRegister("s1", TRUE),
                     << <<"STORE x0">>, <<"BNE">>, <<"EBREAK">> >>, Writes(a + len)))

clear_chunk(a, len) ==
  WithHart(
    RUN_AC_OR_DIE(SetRegister("s0", FALSE), <<>>, Writes(a))
    \o RUN_AC_OR_DIE(SetRegister("s1", TRUE),
                     << <<"STORE x0">>, <<"ADDI s0">>, <<"BNE">>, <<"EBREAK">> >>,
                     Writes(a + len)))

\* write_csr, set_csr and clear_csr; read_csr sets no bit.  The words that are read
\* last are the result.
modify_csr(type, which, v) ==
  halt(current_hart)
  \o RUN_AC_OR_DIE(SetRegister("x0", TRUE),
       << <<"CSRRW dscratch">>, <<"LOAD data">>, <<"CSRR", type, which>>,
          <<"STORE data">>, <<"CSRRW dscratch">>, <<"EBREAK">> >>, Writes(v))
  \o Reads
  \o resume(current_hart)

fence_i ==
  halt(current_hart)
  \o RUN_AC_OR_DIE(SetRegister("x0", TRUE), << <<"FENCE_I">>, <<"EBREAK">> >>, <<>>)
  \o resume(current_hart)

\* A bug: the last hart is left out.
HartsToResetButOne == num_harts - 1

HartsToReset == num_harts

\* The loop of reset, from hart n on.
reset(n) ==
  IF n < HartsToReset
    THEN << <<"select_hart", n>>, <<"fence_i">>, <<"write_csr">>, <<"reset", n + 1>> >>
    ELSE << <<"select_hart", 0>>, <<"dmstatus">> >>

\* What get_xlen asks for one of the sizes.
TrySize(size) ==
  run_abstract_command([GetRegister("s0", FALSE) EXCEPT !.size = size], <<>>, <<>>)
  \o << <<"xlen", size>> >>

enumerate_harts ==
  << <<"readDmcontrol">>, <<"writeHartsel", 1023>>, <<"dmstatus">>, <<"maxHart">> >>

\* producer_thread, up to htif_t::run.  That it reads abstractcs and hartinfo first
\* is left out: it only checks what the debug module can do.
probe ==
  << <<"dmcontrol", Active(0)>>, <<"enumerate_harts">>,
     <<"halt", 0>>, <<"get_xlen">>, <<"resume", 0>> >>

Init ==
  /\ DmInit
  /\ todo = probe /\ phase = "probe"
  /\ running = FALSE /\ current_hart = 0 /\ num_harts = 0 /\ xlen = 0
  /\ max_hart = 0
  /\ dmcontrol = Off /\ cmderr_read = 0 /\ words = [i \in 0..1 |-> 0]
  /\ saved = [s0 |-> 0, s1 |-> 0] /\ result = <<>>
  /\ calls = 0 /\ calling = FALSE
  /\ rd = NoRead /\ loaded = <<>> /\ posted = <<>>
  /\ csr = NoRead
  /\ kept = [h \in Harts |-> <<s0[h], s1[h]>>]

-------------------------------------------------------------------------------
(* One access, or one step of the host between two of them.                 *)

Doing(what) == todo # <<>> /\ todo[1][1] = what
Arg == todo[1][2]

\* The rest follows, after the accesses of `first'.
Then(first) == todo' = first \o Tail(todo)

\* One access, and on with the rest.
Accessed == Then(<<>>)

WriteDmcontrol(d) ==
  /\ DmcontrolWrite(d)
  /\ Then(<<>>)
  /\ UNCHANGED <<found, current_hart, locals, control, history>>

SwitchDmcontrol == Doing("dmcontrol") /\ WriteDmcontrol(Arg)

\* select_hart writes back what it has read, with another hart.
WriteHartsel ==
  Doing("writeHartsel") /\ WriteDmcontrol([dmcontrol EXCEPT !.hartsel = Arg])

ReadDmcontrol ==
  /\ Doing("readDmcontrol")
  /\ dmcontrol' = DmcontrolRead
  /\ Accessed
  /\ UNCHANGED <<dmvars, found, current_hart, cmderr_read, words, saved, result,
                 control, history>>

\* A read whose result is not used; the loops of halt and resume; and the loop
\* of run_abstract_command, which also finds the error.
Poll ==
  /\ \/ Doing("dmstatus") /\ UNCHANGED cmderr_read
     \/ Doing("allhalted") /\ allhalted /\ UNCHANGED cmderr_read
     \/ Doing("allresumeack") /\ allresumeack /\ UNCHANGED cmderr_read
     \/ Doing("abstractcs") /\ ~busy /\ cmderr_read' = cmderr
  /\ Accessed
  /\ UNCHANGED <<dmvars, found, current_hart, dmcontrol, words, saved, result,
                 control, history>>

SetHart ==
  /\ Doing("hart")
  /\ current_hart' = Arg
  /\ Then(<<>>)
  /\ UNCHANGED <<dmvars, found, locals, control, history>>

\* The writes of the other registers of the debug module.
WriteRegister ==
  /\ \/ Doing("progbuf") /\ ProgbufWrite(Arg, todo[1][3])
     \/ Doing("data") /\ DataWrite(Arg, Nthword(todo[1][3], Arg))
     \/ Doing("saved") /\ DataWrite(Arg, Nthword(saved[todo[1][3]], Arg))
     \/ Doing("command") /\ CommandWrite(Arg)
     \/ Doing("auto") /\ AutoWrite(Arg)
  /\ Accessed
  /\ UNCHANGED <<found, current_hart, locals, control, history>>

ReadData ==
  /\ Doing("readData")
  /\ DataRead(Arg)
  /\ words' = [words EXCEPT ![Arg] = data[Arg]]
  /\ Accessed
  /\ UNCHANGED <<found, current_hart, dmcontrol, cmderr_read, saved, result,
                 control, history>>

Save ==
  /\ Doing("save")
  /\ saved' = [saved EXCEPT ![Arg] = DataValue(words)]
  /\ Then(<<>>)
  /\ UNCHANGED <<dmvars, found, current_hart, dmcontrol, cmderr_read, words, result,
                 control, history>>

\* memcpy to dst.
Copy ==
  /\ Doing("copy")
  /\ result' = Append(result, DataValue(words))
  /\ Then(<<>>)
  /\ UNCHANGED <<dmvars, found, current_hart, dmcontrol, cmderr_read, words, saved,
                 control, history>>

Succeeds ==
  /\ Doing("check") /\ cmderr_read = 0
  /\ Then(<<>>)
  /\ UNCHANGED <<dmvars, found, current_hart, locals, control, history>>

\* A bug: die() leaves the error pending.
die_pending ==
  /\ Doing("check") /\ cmderr_read # 0
  /\ Then(<<>>)
  /\ UNCHANGED <<dmvars, found, current_hart, locals, control, history>>

\* It clears the error, and the simulation goes on.
die ==
  /\ Doing("check") /\ cmderr_read # 0
  /\ CmderrClear
  /\ Accessed
  /\ UNCHANGED <<found, current_hart, locals, control, history>>

\* get_xlen: this is the size...
FindXlen ==
  /\ Doing("xlen") /\ cmderr_read = 0
  /\ Arg # 128                     \* else it throws
  /\ xlen' = Arg
  /\ Then(<<>>)
  /\ UNCHANGED <<dmvars, running, num_harts, max_hart, current_hart, locals, control,
                 history>>

\* ...or the next smaller one is tried.
TryNextXlen ==
  /\ Doing("xlen") /\ cmderr_read # 0
  /\ Arg > 32                      \* else it throws
  /\ CmderrClear
  /\ Then(TrySize(Arg \div 2))
  /\ UNCHANGED <<found, current_hart, locals, control, history>>

\* enumerate_harts: what hartsel could hold of its largest value, and then hart by
\* hart.
ReadMaxHart ==
  /\ Doing("maxHart")
  /\ max_hart' = DmcontrolRead.hartsel
  /\ Then(select_hart(0) \o << <<"exists", 0>> >>)
  /\ UNCHANGED <<dmvars, running, num_harts, xlen, current_hart, locals, control,
                 history>>

LastHart == max_hart

FindHart ==
  /\ Doing("exists")
  /\ ~anynonexistent /\ Arg < LastHart
  /\ Then(select_hart(Arg + 1) \o << <<"exists", Arg + 1>> >>)
  /\ UNCHANGED <<dmvars, found, current_hart, locals, control, history>>

HartsCounted(h) == IF anynonexistent THEN h ELSE h + 1

CountHarts ==
  /\ Doing("exists")
  /\ anynonexistent \/ Arg = LastHart
  /\ num_harts' = HartsCounted(Arg)
  /\ Accessed
  /\ UNCHANGED <<dmvars, running, xlen, max_hart, current_hart, locals, control,
                 history>>

\* A call of one of the routines by probe or reset, and the next round of a loop.
Enter ==
  /\ \/ Doing("enumerate_harts") /\ Then(enumerate_harts)
     \/ Doing("halt") /\ Then(halt(Arg))
     \/ Doing("get_xlen") /\ Then(TrySize(128))
     \/ Doing("resume") /\ Then(resume(Arg))
     \/ Doing("select_hart") /\ Then(select_hart(Arg))
     \/ Doing("fence_i") /\ Then(fence_i)
     \/ Doing("write_csr") /\ Then(modify_csr("WRITE", "dpc", Entry))
     \/ Doing("reset") /\ Then(reset(Arg))
     \/ Doing("read_words") /\ Then(read_words(Arg, todo[1][3]))
     \/ Doing("more_words") /\ Then(more_words(Arg))
  /\ UNCHANGED <<dmvars, found, current_hart, locals, control, history>>

-------------------------------------------------------------------------------
(* What the host asks for.                                                  *)

Nth(a, n) == a + n - 1

Idle == todo = <<>> /\ ~calling
MayCall == Idle /\ phase \in {"load", "run"} /\ calls < MaxCalls

Chunks == {c \in Value \X (1..MaxLen) :
             Wild \/ \A n \in 1..c[2] : Nth(c[1], n) \in Addrs}

Calls(routine) ==
  /\ MayCall
  /\ todo' = routine
  /\ calls' = calls + 1 /\ calling' = TRUE
  /\ UNCHANGED <<dmvars, found, current_hart, locals, phase, kept>>

Posts(a, ws) ==
  posted' = [n \in 1..Len(ws) |-> [addr |-> Nth(a, n), word |-> ws[n]]]

ReadChunk(a, len) ==
  /\ Calls(read_chunk(a, len))
  /\ rd' = [addr |-> a, len |-> len]
  /\ UNCHANGED <<loaded, posted, csr>>

WriteChunk(a, ws) ==
  Calls(write_chunk(a, ws)) /\ Posts(a, ws) /\ UNCHANGED <<rd, loaded, csr>>

ClearChunk(a, len) ==
  /\ Calls(clear_chunk(a, len))
  /\ Posts(a, [n \in 1..len |-> 0])
  /\ UNCHANGED <<rd, loaded, csr>>

ModifyCsr(type, v) ==
  /\ phase = "run"
  /\ Calls(modify_csr(type, "dpc", v))
  /\ csr' = [old |-> pc[current_hart], new |-> CsrUpdate(type, pc[current_hart], v)]
  /\ UNCHANGED <<rd, loaded, posted>>

Return ==
  /\ todo = <<>> /\ calling
  /\ calling' = FALSE
  /\ rd' = NoRead /\ loaded' = <<>> /\ posted' = <<>> /\ result' = <<>>
  /\ csr' = NoRead
  /\ UNCHANGED <<dmvars, todo, found, current_hart, dmcontrol, cmderr_read, words,
                 saved, phase, calls, kept>>

\* producer_thread: running = true; htif_t::run() loads the program first.
ProbeEnds ==
  /\ Idle /\ phase = "probe"
  /\ running' = TRUE /\ phase' = "load"
  /\ UNCHANGED <<dmvars, todo, num_harts, xlen, max_hart, current_hart, locals, calls,
                 calling, history>>

Reset ==
  /\ Idle /\ phase = "load"
  /\ todo' = << <<"reset", 0>> >> /\ phase' = "reset"
  /\ UNCHANGED <<dmvars, found, current_hart, locals, calls, calling, history>>

ResetEnds ==
  /\ Idle /\ phase = "reset"
  /\ phase' = "run" /\ calls' = 0
  /\ UNCHANGED <<dmvars, todo, found, current_hart, locals, calling, history>>

\* idle(), and producer_thread after run().
Nop ==
  /\ Idle /\ phase = "run"
  /\ UNCHANGED vars

-------------------------------------------------------------------------------
(* The target, between any two accesses.                                    *)

hostvars == <<todo, found, current_hart, locals, control>>

\* A load adds to the history of the read, a store takes from that of the write.
ModuleSteps ==
  /\ Transfer \/ ExecuteInstruction \/ EndProgram
  /\ loaded' = IF rd # NoRead /\ Running /\ ~Faults(progbuf[xpc])
                     /\ progbuf[xpc] = <<"LOAD s1">>
                THEN Append(loaded, mem[s0[hartsel]]) ELSE loaded
  /\ posted' = IF Running /\ ~Faults(progbuf[xpc]) /\ posted # <<>>
                     /\ progbuf[xpc] \in {<<"STORE s1">>, <<"STORE x0">>}
                THEN Tail(posted) ELSE posted
  /\ UNCHANGED <<hostvars, rd, csr, kept>>

HartsStep ==
  /\ \E h \in Harts : HartHalts(h) \/ HartResumes(h)
  /\ UNCHANGED <<hostvars, history>>

OnHart(h) ==
  /\ h \in Harts \ halted /\ program < MaxProgram
  /\ program' = program + 1
  /\ UNCHANGED <<selection, requests, progbuf, data, command, abstractauto, busy,
                 cmderr, xpc, halted, dscratch, pc, stale, hostvars, rd, loaded,
                 posted, csr>>

\* The program on a hart stores, or swaps S0 and S1.
ProgramStores(h, a, v) ==
  /\ OnHart(h)
  /\ mem' = [mem EXCEPT ![a] = v]
  /\ UNCHANGED <<s0, s1, kept>>

ProgramSwaps(h) ==
  /\ OnHart(h)
  /\ s0' = [s0 EXCEPT ![h] = s1[h]] /\ s1' = [s1 EXCEPT ![h] = s0[h]]
  /\ kept' = [kept EXCEPT ![h] = <<s1[h], s0[h]>>]
  /\ UNCHANGED mem

-------------------------------------------------------------------------------

Host ==
  \/ SwitchDmcontrol \/ WriteHartsel \/ ReadDmcontrol \/ Poll \/ SetHart
  \/ WriteRegister \/ ReadData \/ Save \/ Copy \/ Succeeds \/ die
  \/ FindXlen \/ TryNextXlen \/ ReadMaxHart \/ FindHart \/ CountHarts \/ Enter
  \/ Return \/ ProbeEnds \/ ResetEnds

Asks ==
  \/ \E c \in Chunks :
       \/ ReadChunk(c[1], c[2]) \/ ClearChunk(c[1], c[2])
       \/ \E ws \in [1..c[2] -> Chunked] : WriteChunk(c[1], ws)
  \/ \E c \in CsrCalls : ModifyCsr(c[1], c[2])
  \/ Reset \/ Nop

Target ==
  \/ ModuleSteps \/ HartsStep
  \/ \E h \in Harts :
       \/ \E a \in Addrs, v \in Chunked : ProgramStores(h, a, v)
       \/ ProgramSwaps(h)

Next == Host \/ Asks \/ Target

Spec == Init /\ [][Next]_vars

\* The process runs, commands end, and harts obey requests.
Fairness == WF_vars(Host) /\ WF_vars(ModuleSteps) /\ WF_vars(HartsStep)

FairSpec == Spec /\ Fairness

-------------------------------------------------------------------------------
(* Properties.                                                              *)

\* A program never notices that its hart was borrowed: whenever a hart runs, its S0
\* and S1 are what the program on it left there, although every call overwrites
\* both, and although commands may fail half-way.
RegistersKept == \A h \in Harts \ halted : <<s0[h], s1[h]>> = kept[h]

\* No access comes while a command runs, and no command while the hart does: those
\* are errors (1 and 4) that run_abstract_command would report after the fact.
NeverTooEarly == cmderr \notin {ErrBusy, ErrHaltResume}

\* Between two calls no hart is halted or about to be, and the debug module is off
\* once dtm_t has used it to run a program.
TargetLeftRunning ==
  Idle => /\ halted = {} /\ haltreq = {} /\ resumereq = {}
          /\ phase = "run" => ~dmactive

\* What the probe finds is so.
ProbeFinds == running => num_harts = NHarts /\ xlen = Xlen

\* A csr call returns the old value and leaves the new one, although it goes through
\* S0, dscratch and the data registers, which the last hart's call has used too.
CsrModified ==
  todo = <<>> /\ csr # NoRead =>
    DataValue(words) = csr.old /\ pc[current_hart] = csr.new

\* The four together: the calls leave harts and debug module as they found them and
\* do what they were asked, whatever fails half-way.
CallsSound == RegistersKept /\ TargetLeftRunning /\ CsrModified /\ ProbeFinds

\* The chunk calls are a memory: what a hart stores and loads on the host's behalf
\* is what was written and asked for, each word once, in order and at its place;
\* read_chunk returns what was loaded and loads no more than that.
Remote == INSTANCE RemoteMemory WITH
  Data <- Value, Stride <- 1,
  got <- IF todo = <<>> /\ rd # NoRead THEN result ELSE loaded

ImplementsRemoteMemory == Remote!Spec

\* The calls store nothing else: autoexec is on while write_chunk writes its words,
\* and not when it goes on to use the data registers for S0 and S1.
NoOtherStore == [][mem' # mem => program' # program \/ posted # <<>>]_vars

\* After reset() every hart is in the program, on its own, and has fetched nothing
\* of it before its fence.i.
ProgramStarts ==
  [][phase = "reset" /\ phase' = "run" =>
       \A h \in Harts : pc[h] = Entry /\ h \notin stale /\ h \notin halted]_vars

\* Every call returns: the host never waits for a hart that it has not asked, or that
\* it has switched the debug module off for, or for a program that does not end.
CallsReturn == todo # <<>> ~> todo = <<>>

===============================================================================
