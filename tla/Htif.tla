--------------------------------- MODULE Htif ---------------------------------
(***************************************************************************)
(* htif_t: the loop of run() that serves the target's commands, the device *)
(* list, the syscall proxy and the blocking character device it dispatches *)
(* to, and the signal handler.  The target runs concurrently: it can step  *)
(* between any two memory accesses of the host.  A write through memif_t   *)
(* that is narrower than the backend's chunk reads the chunk, merges and   *)
(* writes it back (memif_t::write), so it is two steps.                    *)
(*                                                                         *)
(* The target program is external: it follows the protocol, which is to    *)
(* write tohost only when it reads 0 there, and to clear fromhost when it  *)
(* has taken an answer.  sent, taken, answers and got record the history.  *)
(***************************************************************************)
EXTENDS Integers, Sequences, FiniteSets

CONSTANTS
  Sendable,    \* the command words the target program sends
  Requests,    \* what it puts in magicmem: [n |-> call number, code |-> argument]
  Typeable,    \* the characters the user may type
  SigLens,     \* the possible lengths of the signature area (0: none)
  ToHost, FromHost,  \* their addresses, in 64-bit words
  Align,       \* chunk_align() of the backend, in 64-bit words
  IntSize,     \* how many values an int has
  MaxSent,     \* bound: the commands the target sends
  MaxTyped     \* bound: the characters typed

Zero == [dev |-> 0, cmd |-> 0, payload |-> 0]
Word == [dev : Nat, cmd : Nat, payload : Nat]

Chunk(a) == a \div Align

\* tohost and fromhost lie in chunks of their own: programs align both to 64.
ASSUME HtifLayout ==
  /\ ToHost \in Nat /\ FromHost \in Nat /\ Align \in Nat \ {0}
  /\ Chunk(ToHost) # Chunk(FromHost)

ASSUME HtifCommands ==
  /\ Sendable \subseteq Word \ {Zero}
  /\ Requests \subseteq [n : {"exit", "other", "bad"}, code : Nat]
  /\ Typeable \subseteq 0..255
  /\ SigLens \subseteq Nat
  /\ IntSize \in Nat \ {0}

VARIABLES
  pc,           \* where run() is
  linked,       \* the program has tohost and fromhost symbols
  sig_len,
  mem,          \* the words tohost and fromhost of target memory
  chunk,        \* the copy of memory a merging write has read
  cmd,          \* the command that is being handled
  buf,          \* the target's buffers: magicmem and identify areas
  fromhost_queue,
  pending_reads,
  exitcode, signal_exit, stopped,
  typed, printed,  \* the terminal: input and output so far
  nread,        \* how many of the typed characters have been read
  sent, taken, answers, got

prog == <<linked, sig_len>>
memory == <<mem, chunk, buf>>
devices == <<cmd, fromhost_queue, pending_reads>>
status == <<exitcode, signal_exit, stopped>>
term == <<typed, printed, nread>>
hist == <<sent, taken, answers, got>>
vars == <<pc, prog, memory, devices, status, term, hist>>

-------------------------------------------------------------------------------
(* Commands (command_t), and the devices that run() registers. *)

MaxCommands == 256
IdentitySize == 64

SyscallProxy == 0
Bcd == 1

IsIdentify(c) == c.cmd = MaxCommands - 1
IsExit(c) == c.dev = SyscallProxy /\ c.cmd = 0 /\ c.payload % 2 = 1
IsSyscall(c) == c.dev = SyscallProxy /\ c.cmd = 0 /\ c.payload % 2 = 0
IsRead(c) == c.dev = Bcd /\ c.cmd = 0
IsPrint(c) == c.dev = Bcd /\ c.cmd = 1

\* handle_null_command, of any device or of the null device.
IsNull(c) ==
  ~(IsIdentify(c) \/ IsExit(c) \/ IsSyscall(c) \/ IsRead(c) \/ IsPrint(c))

IdentifyAddr(c) == c.payload \div MaxCommands

\* The buffer in target memory that the command makes the host fill.
Buffer(c) == IF IsIdentify(c) THEN IdentifyAddr(c) ELSE c.payload
HasBuffer(c) == IsIdentify(c) \/ IsSyscall(c)

\* A buffer holds a request, then also the reply: the command word stands for
\* what the host has written there for that command.
Buffers == {Buffer(c) : c \in {d \in Sendable : HasBuffer(d)}}

\* command_t::respond keeps the device and command numbers of the command.
Response(c, payload) == [c EXCEPT !.payload = payload]

\* The value an int takes when it is assigned the number n.
AsInt(n) ==
  LET r == n % IntSize
  IN  IF 2 * r < IntSize THEN r ELSE r - IntSize

\* exit_code(): an arithmetic shift.
ExitStatus == exitcode \div 2

-------------------------------------------------------------------------------

Init ==
  /\ pc = "start"
  /\ linked = FALSE /\ sig_len = 0
  /\ mem = [a \in {ToHost, FromHost} |-> Zero]
  /\ chunk = mem
  /\ cmd = Zero
  /\ buf = [a \in Buffers |-> [n |-> "other", code |-> 0, reply |-> Zero]]
  /\ fromhost_queue = <<>> /\ pending_reads = <<>>
  /\ exitcode = 0 /\ signal_exit = FALSE /\ stopped = FALSE
  /\ typed = <<>> /\ printed = <<>> /\ nread = 0
  /\ sent = <<>> /\ taken = <<>> /\ answers = <<>> /\ got = <<>>

Goto(from, to) == pc = from /\ pc' = to

-------------------------------------------------------------------------------
(* htif_t::run, on the host.  "dead" is exit(-1): an assertion, an uncaught *)
(* exception and a second signal all end in handle_signal.                  *)

\* start(): without a program file the symbols stay unknown (0), and a file that
\* is not found throws.
Start ==
  /\ \/ /\ Goto("start", "run")
        /\ linked' \in BOOLEAN
        /\ sig_len' \in SigLens
     \/ Goto("start", "dead") /\ UNCHANGED prog
  /\ UNCHANGED <<memory, devices, status, term, hist>>

\* while (true) idle(): without symbols run() never looks at signal_exit.
Spin ==
  /\ ~linked
  /\ Goto("run", "spin")
  /\ UNCHANGED <<prog, memory, devices, status, term, hist>>

\* A bug: the loop goes on after the exit code is set.
RunningPastExit == linked /\ ~signal_exit

Running == linked /\ ~signal_exit /\ exitcode = 0

Idle ==
  /\ Running
  /\ mem[ToHost] = Zero
  /\ Goto("run", "tick")
  /\ UNCHANGED <<prog, memory, devices, status, term, hist>>

Fetch ==
  /\ Running
  /\ mem[ToHost] # Zero
  /\ Goto("run", "clear")
  /\ cmd' = mem[ToHost]
  /\ UNCHANGED <<prog, memory, fromhost_queue, pending_reads, status, term, hist>>

Leave ==
  /\ linked /\ ~Running
  /\ Goto("run", "stop")
  /\ UNCHANGED <<prog, memory, devices, status, term, hist>>

\* stop() prints the signature, if any, in lines of 16 bytes; it aborts if there
\* is a shorter line, or if the file does not open.
Stop ==
  /\ \/ /\ sig_len % 16 = 0
        /\ Goto("stop", "done")
        /\ stopped' = TRUE
     \/ /\ sig_len # 0
        /\ Goto("stop", "dead")
        /\ UNCHANGED stopped
  /\ UNCHANGED <<prog, memory, devices, exitcode, signal_exit, term, hist>>

\* memif_t::write of one word of a chunk: the rest of the chunk is written back
\* as it was read.  For a chunk no wider than the word, nothing is merged.
ReadChunk(from, to) ==
  /\ Goto(from, to)
  /\ chunk' = mem
  /\ UNCHANGED <<prog, mem, buf, devices, status, term, hist>>

Merge(a, word) ==
  mem' = [b \in DOMAIN mem |->
            IF b = a THEN word
            ELSE IF Chunk(b) = Chunk(a) THEN chunk[b] ELSE mem[b]]

ClearRead == ReadChunk("clear", "clearMerge")

ClearWrite ==
  /\ Goto("clearMerge", "handle")
  /\ Merge(ToHost, Zero)
  /\ UNCHANGED <<prog, chunk, buf, devices, status, term, hist>>

-------------------------------------------------------------------------------
(* device_list_t::handle_command and the handlers of the devices.           *)

Handle(next) ==
  /\ Goto("handle", next)
  /\ taken' = Append(taken, cmd)
  /\ UNCHANGED <<prog, memory, cmd, fromhost_queue, signal_exit, stopped,
                 typed, nread, sent, answers, got>>

HandleNull ==
  /\ IsNull(cmd)
  /\ Handle("tick")
  /\ UNCHANGED <<pending_reads, exitcode, printed>>

\* handle_identify asserts that the address is aligned.
HandleIdentify ==
  /\ IsIdentify(cmd)
  /\ Handle(IF IdentifyAddr(cmd) % IdentitySize = 0 THEN "fill" ELSE "dead")
  /\ UNCHANGED <<pending_reads, exitcode, printed>>

\* A bug: the pass/fail bit is shifted out here and again in exit_code().
HandleExitShifts ==
  /\ IsExit(cmd)
  /\ Handle("tick")
  /\ exitcode' = AsInt(cmd.payload \div 2)
  /\ UNCHANGED <<pending_reads, printed>>

HandleExit ==
  /\ IsExit(cmd)
  /\ Handle("tick")
  /\ exitcode' = AsInt(cmd.payload)
  /\ UNCHANGED <<pending_reads, printed>>

HandleSyscall ==
  /\ IsSyscall(cmd)
  /\ Handle("call")
  /\ UNCHANGED <<pending_reads, exitcode, printed>>

HandleRead ==
  /\ IsRead(cmd)
  /\ Handle("tick")
  /\ pending_reads' = Append(pending_reads, [id |-> Len(taken'), word |-> cmd])
  /\ UNCHANGED <<exitcode, printed>>

\* The payload becomes a char; a write that fails aborts.
HandlePrint ==
  /\ IsPrint(cmd)
  /\ \/ Handle("tick") /\ printed' = Append(printed, cmd.payload % 256)
     \/ Handle("dead") /\ UNCHANGED printed
  /\ UNCHANGED <<pending_reads, exitcode>>

\* dispatch() reads the request; an unknown call number throws.  Of the calls,
\* only sys_exit touches htif_t.
Call ==
  /\ pc = "call"
  /\ LET r == buf[Buffer(cmd)] IN
       /\ pc' = IF r.n = "bad" THEN "dead" ELSE "fill"
       /\ exitcode' = IF r.n = "exit" THEN AsInt(2 * r.code + 1) ELSE exitcode
  /\ UNCHANGED <<prog, memory, devices, signal_exit, stopped, term, hist>>

\* A bug: the result is not written back.
FillForgotten ==
  /\ Goto("fill", "respond")
  /\ UNCHANGED <<prog, memory, devices, status, term, hist>>

\* The result of the call, or the name, goes to target memory...
Fill ==
  /\ Goto("fill", "respond")
  /\ buf' = [buf EXCEPT ![Buffer(cmd)].reply = cmd]
  /\ UNCHANGED <<prog, mem, chunk, devices, status, term, hist>>

\* ...and then the answer is queued for fromhost.
Push(id, word) ==
  /\ fromhost_queue' = Append(fromhost_queue, word)
  /\ answers' = Append(answers, [id |-> id, word |-> word])

Respond ==
  /\ Goto("respond", "tick")
  /\ Push(Len(taken), Response(cmd, 1))
  /\ UNCHANGED <<prog, memory, cmd, pending_reads, status, term, sent, taken, got>>

-------------------------------------------------------------------------------
(* device_list.tick(): only the bcd has something to do.                    *)

InputReady == pending_reads # <<>> /\ nread < Len(typed)

TickAnswers ==
  /\ Goto("tick", "put")
  /\ InputReady
  /\ nread' = nread + 1
  /\ LET r == Head(pending_reads)
     IN  Push(r.id, Response(r.word, 256 + typed[nread + 1]))
  /\ pending_reads' = Tail(pending_reads)
  /\ UNCHANGED <<prog, memory, cmd, status, typed, printed, sent, taken, got>>

\* A bug: the terminal is read before the test for a pending read.
TickDropsInput ==
  /\ ~InputReady
  /\ Goto("tick", "put")
  /\ nread' = IF nread < Len(typed) THEN nread + 1 ELSE nread
  /\ UNCHANGED <<prog, memory, devices, status, typed, printed, hist>>

\* A bug: a read that is pending blocks the host on the terminal.
TickBlocks ==
  /\ pending_reads = <<>>
  /\ Goto("tick", "put")
  /\ UNCHANGED <<prog, memory, devices, status, term, hist>>

TickIdles ==
  /\ ~InputReady
  /\ Goto("tick", "put")
  /\ UNCHANGED <<prog, memory, devices, status, term, hist>>

\* The end of the loop: the front of the queue goes to fromhost if it is free.
\* A bug: an answer that the target has not taken yet is overwritten.
CanPutAnytime == fromhost_queue # <<>>

CanPut == fromhost_queue # <<>> /\ mem[FromHost] = Zero

PutLater ==
  /\ ~CanPut
  /\ Goto("put", "run")
  /\ UNCHANGED <<prog, memory, devices, status, term, hist>>

Put ==
  /\ CanPut
  /\ Goto("put", "putRead")
  /\ UNCHANGED <<prog, memory, devices, status, term, hist>>

PutRead == ReadChunk("putRead", "putMerge")

PutWrite ==
  /\ Goto("putMerge", "run")
  /\ Merge(FromHost, Head(fromhost_queue))
  /\ fromhost_queue' = Tail(fromhost_queue)
  /\ UNCHANGED <<prog, chunk, buf, cmd, pending_reads, status, term, hist>>

-------------------------------------------------------------------------------
(* The rest of the world.                                                   *)

Ended == pc \in {"done", "dead"}

\* handle_signal: the second signal ends the process at once.
Signal ==
  /\ ~Ended
  /\ \/ signal_exit /\ pc' = "dead" /\ UNCHANGED signal_exit
     \/ ~signal_exit /\ signal_exit' = TRUE /\ UNCHANGED pc
  /\ UNCHANGED <<prog, memory, devices, exitcode, stopped, term, hist>>

Type ==
  /\ Len(typed) < MaxTyped
  /\ \E ch \in Typeable : typed' = Append(typed, ch)
  /\ UNCHANGED <<pc, prog, memory, devices, status, printed, nread, hist>>

Delivered(i) == \E k \in 1..Len(got) : answers[k].id = i

\* Another command whose buffer is a awaits its answer.
InUse(a) ==
  \E i \in 1..Len(sent) :
    HasBuffer(sent[i]) /\ Buffer(sent[i]) = a /\ ~Delivered(i)

\* The target sends a command, with its magicmem or identify area prepared.
TargetSends(c) ==
  /\ linked
  /\ mem[ToHost] = Zero
  /\ Len(sent) < MaxSent
  /\ \/ ~HasBuffer(c) /\ UNCHANGED buf
     \/ /\ IsSyscall(c) /\ ~InUse(Buffer(c))
        /\ \E r \in Requests :
             buf' = [buf EXCEPT ![Buffer(c)] =
                       [n |-> r.n, code |-> r.code, reply |-> Zero]]
     \/ /\ IsIdentify(c) /\ ~InUse(Buffer(c))
        /\ buf' = [buf EXCEPT ![Buffer(c)].reply = Zero]
  /\ mem' = [mem EXCEPT ![ToHost] = c]
  /\ sent' = Append(sent, c)
  /\ UNCHANGED <<pc, prog, chunk, devices, status, term, taken, answers, got>>

TargetReceives ==
  /\ mem[FromHost] # Zero
  /\ mem' = [mem EXCEPT ![FromHost] = Zero]
  /\ got' = Append(got, mem[FromHost])
  /\ UNCHANGED <<pc, prog, chunk, buf, devices, status, term, sent, taken, answers>>

-------------------------------------------------------------------------------

HandleCommand ==
  \/ HandleNull \/ HandleIdentify \/ HandleExit \/ HandleSyscall
  \/ HandleRead \/ HandlePrint

Host ==
  \/ Start \/ Spin \/ Idle \/ Fetch \/ Leave \/ Stop
  \/ ClearRead \/ ClearWrite
  \/ HandleCommand \/ Call \/ Fill \/ Respond
  \/ TickAnswers \/ TickIdles
  \/ PutLater \/ Put \/ PutRead \/ PutWrite

Next ==
  \/ Host
  \/ Signal
  \/ Type
  \/ \E c \in Sendable : TargetSends(c)
  \/ TargetReceives

Spec == Init /\ [][Next]_vars

\* The host is a running process (system calls it proxies return), and the
\* target polls fromhost.  Nobody has to type, send or interrupt.
Fairness == WF_vars(Host) /\ WF_vars(TargetReceives)

FairSpec == Spec /\ Fairness

-------------------------------------------------------------------------------
(* Properties.                                                              *)

Locations ==
  {"start", "run", "spin", "clear", "clearMerge", "handle", "call", "fill",
   "respond", "tick", "put", "putRead", "putMerge", "stop", "done", "dead"}

\* Every variable has its type.
TypeOK ==
  /\ pc \in Locations
  /\ linked \in BOOLEAN /\ sig_len \in SigLens \cup {0}
  /\ mem \in [{ToHost, FromHost} -> Word]
  /\ mem[ToHost] \in Sendable \cup {Zero}
  /\ chunk \in [{ToHost, FromHost} -> Word]
  /\ cmd \in Sendable \cup {Zero}
  /\ buf \in [Buffers -> [n : {"exit", "other", "bad"}, code : Nat,
                          reply : Sendable \cup {Zero}]]
  /\ fromhost_queue \in Seq(Word)
  /\ pending_reads \in Seq([id : Nat, word : Sendable])
  /\ exitcode \in Int /\ signal_exit \in BOOLEAN /\ stopped \in BOOLEAN
  /\ typed \in Seq(Typeable) /\ printed \in Seq(Nat) /\ nread \in 0..Len(typed)
  /\ sent \in Seq(Sendable) /\ taken \in Seq(Sendable)
  /\ answers \in Seq([id : Nat, word : Word]) /\ got \in Seq(Word)

\* Commands and answers go through one word of memory each, which both sides
\* read, write and clear: none is lost, taken twice or reordered, and each
\* answer is for a command that has none yet (htif_t::run, bcd_t).
Channel == INSTANCE HtifChannel WITH
  Commands <- Sendable,
  Answers <- {Response(c, 1) : c \in {d \in Sendable : HasBuffer(d)}} \cup
             {Response(c, 256 + ch) : c \in {d \in Sendable : IsRead(d)},
                                      ch \in Typeable}

ImplementsChannel == Channel!Spec

\* A target that has the answer to a system call or an identify command finds
\* the result in its buffer, unless it has prepared the buffer for another
\* command since: dispatch() and handle_identify() write the buffer before
\* respond(), and respond() before fromhost.
ReplyReady ==
  \A i \in 1..Len(sent) :
    LET a == Buffer(sent[i])
        reused == \E j \in (i+1)..Len(sent) :
                    HasBuffer(sent[j]) /\ Buffer(sent[j]) = a
    IN  HasBuffer(sent[i]) /\ Delivered(i) /\ ~reused => buf[a].reply = sent[i]

\* The places of the answers to read commands, and of the print commands; and how
\* many of some places are among the first k.
Reads == {k \in 1..Len(answers) : IsRead(answers[k].word)}
Prints == {i \in 1..Len(sent) : IsPrint(sent[i])}
UpTo(S, k) == Cardinality(S \cap (1..k))

\* The nth read command that is answered gets the nth character that was typed
\* (pending_reads of bcd_t), and what is printed is what the first print commands
\* sent, in their order.
TerminalInOrder ==
  /\ UpTo(Reads, Len(answers)) = nread
  /\ \A k \in Reads : answers[k].word.payload = 256 + typed[UpTo(Reads, k)]
  /\ Len(printed) <= UpTo(Prints, Len(sent))
  /\ \A i \in Prints : UpTo(Prints, i) <= Len(printed) =>
       printed[UpTo(Prints, i)] = sent[i].payload % 256

\* What makes ImplementsChannel inductive.  tohost holds the one command that
\* has been sent and not fetched, and the host holds at most one more...
Full(a) == IF mem[a] = Zero THEN 0 ELSE 1
Held == IF pc = "handle" THEN 1 ELSE 0

CommandInv ==
  /\ pc # "dead" => Len(sent) = Len(taken) + Held + Full(ToHost)
  /\ Len(taken) <= Len(sent)
  /\ \A i \in 1..Len(taken) : taken[i] = sent[i]
  /\ mem[ToHost] # Zero => mem[ToHost] = sent[Len(sent)]
  /\ pc \in {"clear", "clearMerge"} => mem[ToHost] = cmd /\ cmd # Zero
  /\ pc = "handle" => cmd = sent[Len(taken) + 1]

\* ...fromhost holds the oldest answer that is not delivered, unless it is
\* empty, and the queue holds the others in order...
AnswerInv ==
  /\ Len(answers) = Len(got) + Full(FromHost) + Len(fromhost_queue)
  /\ \A k \in 1..Len(answers) : answers[k].word # Zero
  /\ \A k \in 1..Len(got) : got[k] = answers[k].word
  /\ mem[FromHost] # Zero => mem[FromHost] = answers[Len(got) + 1].word
  /\ \A n \in 1..Len(fromhost_queue) :
       fromhost_queue[n] = answers[Len(got) + Full(FromHost) + n].word
  /\ pc \in {"putRead", "putMerge"} => CanPut

\* ...the commands that await an answer are the pending reads, which come after
\* every read that has been answered, and the command that is being executed.
IsWaiting(r) ==
  /\ r.id \in 1..Len(taken) /\ r.word = taken[r.id] /\ IsRead(r.word)
  /\ \A k \in 1..Len(answers) : IsRead(answers[k].word) => answers[k].id < r.id

PendingInv ==
  /\ \A k \in 1..Len(answers) : answers[k].id <= Len(taken)
  /\ \A n \in 1..Len(pending_reads) : IsWaiting(pending_reads[n])
  /\ \A m, n \in 1..Len(pending_reads) :
       m < n => pending_reads[m].id < pending_reads[n].id
  /\ pc \in {"call", "fill", "respond"} =>
       /\ taken # <<>> /\ cmd = taken[Len(taken)] /\ HasBuffer(cmd)
       /\ \A k \in 1..Len(answers) : answers[k].id < Len(taken)

ExitInv == pc \in {"clear", "clearMerge", "handle", "call"} => exitcode = 0

HtifInv == TypeOK /\ CommandInv /\ AnswerInv /\ PendingInv /\ ExitInv

\* Once a command has set the exit code, no other command is handled, so
\* nothing can replace the code (the loop condition of run()).
ExitIsFinal == [][exitcode # 0 => UNCHANGED <<exitcode, taken, printed>>]_vars

\* If the run ends for no signal, its status is the one that the last command
\* handled asked for, as far as an int holds it; and it is a pass (0) only if
\* that command reported 0 modulo the width of an int.
StatusIsReported ==
  pc = "done" /\ ~signal_exit =>
    LET c == taken[Len(taken)]
    IN  \/ IsExit(c) /\ ExitStatus = AsInt(c.payload) \div 2
        \/ /\ IsSyscall(c)
           /\ \E r \in Requests :
                r.n = "exit" /\ ExitStatus = AsInt(2 * r.code + 1) \div 2

\* Every command is handled, or the run ends.
CommandsHandled ==
  \A n \in 1..MaxSent : Len(sent) >= n ~> Len(taken) >= n \/ Ended

\* Every answer is delivered, or the run ends (an exit drops the answers that
\* are still queued).
AnswersDelivered ==
  \A n \in 1..MaxSent : Len(answers) >= n ~> Len(got) >= n \/ Ended

\* The nth read command and the nth character meet, or the run ends.
ReadsAnswered ==
  \A n \in 1..MaxTyped :
    Len(typed) >= n /\ Len(SelectSeq(taken, IsRead)) >= n
    ~> nread >= n \/ Ended

\* The three together: whatever the target asks of a host that runs is served.
Served == CommandsHandled /\ AnswersDelivered /\ ReadsAnswered

\* A program with tohost stops on an exit command and on the first signal.
RunEnds == linked /\ (exitcode # 0 \/ signal_exit) ~> Ended
===============================================================================
