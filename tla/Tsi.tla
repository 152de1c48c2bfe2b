---------------------------------- MODULE Tsi ----------------------------------
(***************************************************************************)
(* tsi_t: the tethered serial interface.  The host (htif_t::run) and the   *)
(* target (the simulator that calls tick) are two coroutines of context_t; *)
(* they share two queues of 32-bit words, and each of them runs until it   *)
(* switches to the other.  read_chunk and write_chunk put a request on     *)
(* in_data: a command word, two address words, two length words, and the   *)
(* data of a write.  read_chunk waits for its answer in out_data;          *)
(* write_chunk waits for nothing.                                          *)
(*                                                                         *)
(* The serial adapter behind tick(), with the memory, is external: it      *)
(* decodes the requests and executes one at a time.                        *)
(***************************************************************************)
EXTENDS Integers, Sequences

CONSTANTS
  Addrs,      \* the byte addresses of the words of memory
  MsipBase,   \* the one of them that interrupts core 0
  Data,       \* the contents of a word
  WordBase,   \* how many values a word of the link has
  MaxLen,     \* bound: the words of one chunk
  MaxCalls,   \* bound: the chunk calls of the host
  NoRead

SAI_CMD_READ == 0
SAI_CMD_WRITE == 1

\* Two words hold every address and every length.
ASSUME TsiConstants ==
  /\ WordBase \in Nat \ {0, 1}
  /\ MsipBase \in Addrs /\ {0, 1} \subseteq Data
  /\ Data \subseteq 0..WordBase - 1
  /\ \A a \in Addrs : a \in 0..WordBase * WordBase - 1 /\ a % 4 = 0
  /\ MaxLen \in 1..WordBase * WordBase /\ MaxCalls \in Nat
  /\ NoRead \notin [addr : Addrs, len : 1..MaxLen]

VARIABLES
  cur,        \* the coroutine that runs: "host" or "target"
  pc,         \* where the host is
  linked,     \* the program has tohost and fromhost symbols
  calls,      \* the chunk calls made so far
  rd, result, \* the read_chunk in progress, and its words so far
  in_data, out_data,
  mem,
  frame,      \* the words of the request the adapter is receiving
  left,       \* the words it still has to send for a read, from address
  from,
  posted      \* history: the words written by the host and not yet in memory

hostvars == <<pc, linked, calls, rd, result>>
adapter == <<mem, frame, left, from, posted>>
vars == <<cur, hostvars, in_data, out_data, adapter>>

Nth(a, n) == a + 4 * (n - 1)

\* The chunks that lie in memory.
Chunks == {c \in Addrs \X (1..MaxLen) : \A n \in 1..c[2] : Nth(c[1], n) \in Addrs}

Init ==
  /\ cur = "target" /\ pc = "load"
  /\ linked \in BOOLEAN
  /\ calls = 0 /\ rd = NoRead /\ result = <<>>
  /\ in_data = <<>> /\ out_data = <<>>
  /\ mem \in [Addrs -> {0}]
  /\ frame = <<>> /\ left = 0 /\ from = 0
  /\ posted = <<>>

-------------------------------------------------------------------------------
(* The host: htif_t::run, in the coroutine host_thread.                     *)

\* A bug: the high word goes first.
push_addr_swapped(a) == <<(a \div WordBase) % WordBase, a % WordBase>>

push_addr(a) == <<a % WordBase, (a \div WordBase) % WordBase>>

\* A bug: the length is sent as it is, not less one.
push_len_whole(n) == <<(n + 1) % WordBase, ((n + 1) \div WordBase) % WordBase>>

push_len(n) == <<n % WordBase, (n \div WordBase) % WordBase>>

write_chunk(a, words) ==
  /\ in_data' = in_data \o <<SAI_CMD_WRITE>> \o push_addr(a)
                        \o push_len(Len(words) - 1) \o words
  /\ posted' = posted \o [n \in 1..Len(words) |->
                            [addr |-> Nth(a, n), word |-> words[n]]]
  /\ UNCHANGED <<linked, rd, result, out_data, mem, frame, left, from>>

Busy == cur = "host" /\ rd = NoRead

\* load_program and run() write and read memory through memif_t...
Calling == Busy /\ pc \in {"load", "run"} /\ calls < MaxCalls

WriteChunk(a, words) ==
  /\ Calling
  /\ calls' = calls + 1
  /\ write_chunk(a, words)
  /\ UNCHANGED <<cur, pc>>

ReadChunk(a, len) ==
  /\ Calling
  /\ calls' = calls + 1
  /\ in_data' = in_data \o <<SAI_CMD_READ>> \o push_addr(a) \o push_len(len - 1)
  /\ rd' = [addr |-> a, len |-> len]
  /\ UNCHANGED <<cur, pc, linked, result, out_data, adapter>>

\* while (out_data.empty()) switch_to_target()
AwaitWord ==
  /\ cur = "host" /\ rd # NoRead
  /\ Len(result) < rd.len /\ out_data = <<>>
  /\ cur' = "target"
  /\ UNCHANGED <<hostvars, in_data, out_data, adapter>>

TakeWord ==
  /\ cur = "host" /\ rd # NoRead
  /\ Len(result) < rd.len /\ out_data # <<>>
  /\ result' = Append(result, Head(out_data))
  /\ out_data' = Tail(out_data)
  /\ UNCHANGED <<cur, pc, linked, calls, rd, in_data, adapter>>

ReturnRead ==
  /\ cur = "host" /\ rd # NoRead
  /\ Len(result) = rd.len
  /\ rd' = NoRead /\ result' = <<>>
  /\ UNCHANGED <<cur, pc, linked, calls, in_data, out_data, adapter>>

\* reset() is a write like the others.  Without symbols, run() then calls
\* idle(), which does nothing in tsi_t, for ever: the host is at "spin", and no
\* action is left to it.
Reset ==
  /\ Busy /\ pc = "load"
  /\ pc' = IF linked THEN "run" ELSE "spin"
  /\ write_chunk(MsipBase, <<1>>)
  /\ UNCHANGED <<cur, calls>>

\* run() returns: a signal, or an exit command.
RunReturns ==
  /\ Busy /\ pc = "run"
  /\ pc' = "ended"
  /\ UNCHANGED <<cur, linked, calls, rd, result, in_data, out_data, adapter>>

\* A bug: host_thread has no loop after run().
HostThreadReturns == FALSE /\ UNCHANGED vars

\* host_thread: while (true) target->switch_to()
HostThreadYields ==
  /\ cur = "host" /\ pc = "ended"
  /\ cur' = "target"
  /\ UNCHANGED <<hostvars, in_data, out_data, adapter>>

-------------------------------------------------------------------------------
(* The adapter, external: what it does with the word it receives...         *)

FrameAddr(f) == f[2] + WordBase * f[3]
FrameLen(f) == f[4] + WordBase * f[5] + 1

\* ...of a header that is not complete, of a read, and of a write.
Receive(w) ==
  LET f == Append(frame, w) IN
  \/ /\ Len(f) < 5 \/ (Len(f) = 5 /\ f[1] = SAI_CMD_WRITE)
     /\ frame' = f
     /\ UNCHANGED <<mem, left, from, posted>>
  \/ /\ Len(f) = 5 /\ f[1] = SAI_CMD_READ
     /\ frame' = <<>>
     /\ left' = FrameLen(f) /\ from' = FrameAddr(f)
     /\ UNCHANGED <<mem, posted>>
  \/ /\ Len(f) > 5
     /\ mem' = [mem EXCEPT ![Nth(FrameAddr(f), Len(f) - 5)] = w]
     /\ posted' = Tail(posted)
     /\ frame' = IF Len(f) - 5 = FrameLen(f) THEN <<>> ELSE f
     /\ UNCHANGED <<left, from>>

\* tick(): a word goes out, or a word comes in.  send_word and recv_word (after
\* data_available) are its two halves.
TickOut ==
  /\ cur = "target" /\ left > 0
  /\ out_data' = Append(out_data, IF from \in Addrs THEN mem[from] ELSE 0)
  /\ left' = left - 1 /\ from' = from + 4
  /\ UNCHANGED <<cur, hostvars, in_data, mem, frame, posted>>

TickIn ==
  /\ cur = "target" /\ left = 0
  /\ in_data # <<>>
  /\ Receive(Head(in_data))
  /\ in_data' = Tail(in_data)
  /\ UNCHANGED <<cur, hostvars, out_data>>

Tick == TickOut \/ TickIn

SwitchToHost ==
  /\ cur = "target"
  /\ cur' = "host"
  /\ UNCHANGED <<hostvars, in_data, out_data, adapter>>

\* A core of the target writes memory (other than msip, to see what reset() does).
CoreWrites(a, w) ==
  /\ cur = "target"
  /\ a # MsipBase
  /\ mem' = [mem EXCEPT ![a] = w]
  /\ UNCHANGED <<cur, hostvars, in_data, out_data, frame, left, from, posted>>

-------------------------------------------------------------------------------

Host ==
  \/ \E c \in Chunks :
       \/ ReadChunk(c[1], c[2])
       \/ /\ c[1] # MsipBase
          /\ \E words \in [1..c[2] -> Data] : WriteChunk(c[1], words)
  \/ AwaitWord \/ TakeWord \/ ReturnRead
  \/ Reset \/ RunReturns \/ HostThreadYields

Next ==
  \/ Host
  \/ Tick
  \/ SwitchToHost
  \/ \E a \in Addrs, w \in Data : CoreWrites(a, w)

Spec == Init /\ [][Next]_vars

\* The process runs whichever coroutine has control.  The simulator calls
\* tick() once in each of its cycles and switches to the host again and again.
Fairness == WF_vars(Host) /\ SF_vars(Tick) /\ WF_vars(SwitchToHost)

FairSpec == Spec /\ Fairness

-------------------------------------------------------------------------------
(* Properties.                                                              *)

Word == 0..WordBase - 1

\* Every variable has its type; what goes over the link are 32-bit words.
TypeOK ==
  /\ cur \in {"host", "target"}
  /\ pc \in {"load", "run", "spin", "ended"}
  /\ linked \in BOOLEAN /\ calls \in 0..MaxCalls
  /\ rd \in [addr : Addrs, len : 1..MaxLen] \cup {NoRead}
  /\ result \in Seq(Data) /\ mem \in [Addrs -> Data]
  /\ in_data \in Seq(Word) /\ out_data \in Seq(Data) /\ frame \in Seq(Word)
  /\ left \in Nat /\ from \in Nat
  /\ posted \in Seq([addr : Addrs, word : Data])

\* Words carry no tag: a word that comes back belongs to whichever read waits.
\* So between two reads no word may be on its way, and during one read exactly
\* the words it asks for may come (read_chunk counts them, the adapter counts
\* them from the length it was sent).
NoStaleWord ==
  /\ rd = NoRead => out_data = <<>> /\ left = 0
  /\ rd # NoRead =>
       Len(result) + Len(out_data) + left \in
         IF in_data = <<>> /\ frame = <<>> THEN {rd.len} ELSE {0}

\* Behind the link the host sees a memory: its writes arrive once each, in
\* order and at the right places, and its reads see all of its own earlier
\* writes, although write_chunk does not wait.
Remote == INSTANCE RemoteMemory WITH Stride <- 4, got <- result \o out_data

ImplementsRemoteMemory == Remote!Spec

\* read_chunk returns: the two coroutines do not wait for each other.
ReadsReturn == rd # NoRead ~> rd = NoRead

\* What the host has written reaches memory, also what it wrote last, after
\* which run() returns and reads nothing any more (host_thread goes on to give
\* control back).
WritesArrive == posted # <<>> /\ linked ~> posted = <<>>

\* The two together: nothing that the host asks of the link is left undone.
CallsServed == ReadsReturn /\ WritesArrive

\* The comment of reset(): core 0 is interrupted, so that it starts executing
\* the program.  Not so without symbols: the host then keeps control for ever.
ResetArrives == pc \in {"run", "spin"} ~> mem[MsipBase] = 1

===============================================================================
