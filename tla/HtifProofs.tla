------------------------------ MODULE HtifProofs ------------------------------
(***************************************************************************)
(* Proofs about the run loop, for every target program, every set of       *)
(* system calls and characters, and every chunk size of the backend that   *)
(* keeps tohost and fromhost apart (HtifLayout).  HtifInv is inductive:    *)
(* TypeStep, CommandStep, AnswerStep, PendingStep and ExitStep show that   *)
(* every step keeps one of its parts.  From it follow the types, that an   *)
(* exit code is final, and that the two words implement HtifChannel; with  *)
(* StatusInv and ReplyInv, that the exit status and the replies are right. *)
(***************************************************************************)
EXTENDS Htif, FiniteSetTheorems, TLAPS

\* What the lemmas below need of the constants; they leave Word unexpanded.
LEMMA ConstantFacts ==
  /\ Zero \in Word /\ Sendable \subseteq Word /\ Zero \notin Sendable
  /\ ToHost # FromHost /\ Typeable \subseteq Nat
BY HtifLayout, HtifCommands DEF Zero, Word

\* A command word has a natural number as its payload.
LEMMA WordFields ==
  ASSUME NEW c \in Word
  PROVE  c.payload \in Nat
BY DEF Word

\* command_t::respond makes a word with the tag of the command; it is not 0
\* when the payload is not.
LEMMA ResponseType ==
  ASSUME NEW c \in Word, NEW p \in Nat
  PROVE  /\ Response(c, p) \in Word
         /\ Response(c, p).dev = c.dev /\ Response(c, p).cmd = c.cmd
         /\ p # 0 => Response(c, p) # Zero
BY DEF Response, Word, Zero

\* An assignment to an int gives an integer.
LEMMA AsIntType ==
  ASSUME NEW n \in Int
  PROVE  AsInt(n) \in Int
BY HtifCommands DEF AsInt

\* The parts of a queue that is not empty.
LEMMA HeadTail ==
  ASSUME NEW S, NEW q \in Seq(S), q # <<>>
  PROVE  /\ Head(q) \in S /\ Tail(q) \in Seq(S)
         /\ Len(q) \in Nat \ {0} /\ Len(Tail(q)) = Len(q) - 1
         /\ Head(q) = q[1]
         /\ \A n \in 1..Len(Tail(q)) : Tail(q)[n] = q[n + 1]
OBVIOUS

\* The elements of a sequence are in the set that it is over.
LEMMA SeqElement ==
  ASSUME NEW S, NEW q \in Seq(S)
  PROVE  \A k \in 1..Len(q) : q[k] \in S
OBVIOUS

\* The inductive invariant holds when htif_t has been constructed.
LEMMA HtifInit == Init => HtifInv
<1> SUFFICES ASSUME Init PROVE HtifInv
  OBVIOUS
<1> USE HtifLayout, HtifCommands DEF Init
<1>1. TypeOK
  <2>1. mem \in [{ToHost, FromHost} -> Word] /\ mem[ToHost] = Zero /\ chunk = mem
    BY ConstantFacts
  <2>2. buf \in [Buffers -> [n : {"exit", "other", "bad"}, code : Nat,
                            reply : Sendable \cup {Zero}]]
    OBVIOUS
  <2>3. \A S : <<>> \in Seq(S)
    OBVIOUS
  <2>4. nread \in 0..Len(typed) /\ sig_len \in SigLens \cup {0} /\ exitcode \in Int
    OBVIOUS
  <2>5. pc \in Locations
    BY DEF Locations
  <2> QED BY ConstantFacts, <2>1, <2>2, <2>3, <2>4, <2>5, Zenon DEF TypeOK
<1>2. CommandInv
  BY DEF CommandInv, Full, Held
<1>3. AnswerInv
  BY DEF AnswerInv, Full
<1>4. PendingInv
  BY DEF PendingInv
<1>5. ExitInv
  BY DEF ExitInv
<1> QED BY <1>1, <1>2, <1>3, <1>4, <1>5 DEF HtifInv

\* Every action assigns values of the right types.
LEMMA TypeStep == HtifInv /\ [Next]_vars => TypeOK'
<1> SUFFICES ASSUME HtifInv, [Next]_vars PROVE TypeOK'
  OBVIOUS
<1> USE DEF vars, prog, memory, devices, status, term, hist
<1>0. TypeOK
  BY DEF HtifInv
<1> USE <1>0, ConstantFacts DEF TypeOK, Locations, Goto
<1>1. CASE UNCHANGED vars BY <1>1
<1>2. CASE Host
  <2>1. CASE Start BY <2>1, HtifCommands DEF Start
  <2>2. CASE Spin BY <2>2 DEF Spin
  <2>3. CASE Idle BY <2>3 DEF Idle
  <2>4. CASE Fetch BY <2>4 DEF Fetch
  <2>5. CASE Leave BY <2>5 DEF Leave
  <2>6. CASE Stop BY <2>6 DEF Stop
  <2>7. CASE ClearRead BY <2>7 DEF ClearRead, ReadChunk
  <2>8. CASE ClearWrite BY <2>8, HtifLayout DEF ClearWrite, Merge
  <2>9. CASE HandleCommand
    <3>0. cmd \in Sendable /\ cmd \in Word /\ cmd.payload \in Nat
      <4>1. pc = "handle"
        BY <2>9 DEF HandleCommand, HandleNull, HandleIdentify, HandleExit,
          HandleSyscall, HandleRead, HandlePrint, Handle
      <4>2. cmd = sent[Len(taken) + 1] /\ Len(taken) + 1 \in 1..Len(sent)
        BY <4>1 DEF HtifInv, CommandInv, Held, Full
      <4> QED BY <4>2, WordFields
    <3> USE DEF Handle
    <3>1. CASE HandleNull BY <3>0, <3>1 DEF HandleNull
    <3>2. CASE HandleIdentify BY <3>0, <3>2 DEF HandleIdentify
    <3>3. CASE HandleExit
      <4>1. AsInt(cmd.payload) \in Int
        <5>1. cmd.payload \in Int
          BY <3>0
        <5> QED BY <5>1, AsIntType
      <4> QED BY <3>0, <3>3, <4>1 DEF HandleExit
    <3>4. CASE HandleSyscall BY <3>0, <3>4 DEF HandleSyscall
    <3>5. CASE HandleRead BY <3>0, <3>5 DEF HandleRead
    <3>6. CASE HandlePrint
      <4>1. cmd.payload % 256 \in Nat
        BY <3>0
      <4>2. Append(printed, cmd.payload % 256) \in Seq(Nat)
        BY <4>1
      <4>3. printed' \in Seq(Nat)
        BY <3>6, <4>2 DEF HandlePrint
      <4>4. /\ pc' \in {"tick", "dead"} /\ taken' = Append(taken, cmd)
            /\ UNCHANGED <<prog, memory, devices, status, typed, nread,
                           sent, answers, got>>
        BY <3>6 DEF HandlePrint
      <4> QED BY <3>0, <4>3, <4>4
    <3> QED BY <3>1, <3>2, <3>3, <3>4, <3>5, <3>6, <2>9 DEF HandleCommand
  <2>10. CASE Call
    <3>1. exitcode' \in Int
      <4>1. Buffer(cmd) \in Buffers
        <5>1. HasBuffer(cmd) /\ cmd \in Sendable
          BY <2>10 DEF Call, HtifInv, PendingInv
        <5> QED BY <5>1 DEF Buffers
      <4>2. buf[Buffer(cmd)].code \in Nat
        BY <4>1
      <4>3. AsInt(2 * buf[Buffer(cmd)].code + 1) \in Int
        <5>1. 2 * buf[Buffer(cmd)].code + 1 \in Int
          BY <4>2
        <5> QED BY <5>1, AsIntType
      <4> QED BY <4>3, <2>10 DEF Call
    <3> QED BY <2>10, <3>1 DEF Call
  <2>11. CASE Fill BY <2>11 DEF Fill
  <2>12. CASE Respond
    <3>1. Response(cmd, 1) \in Word /\ Len(taken) \in Nat
      <4>1. cmd \in Word
        OBVIOUS
      <4> QED BY <4>1, ResponseType
    <3>2. fromhost_queue' \in Seq(Word) /\ answers' \in Seq([id : Nat, word : Word])
      BY <2>12, <3>1 DEF Respond, Push
    <3> QED BY <2>12, <3>2 DEF Respond
  <2>13. CASE TickAnswers
    <3> DEFINE r == Head(pending_reads)
               w == Response(r.word, 256 + typed[nread + 1])
    <3>1. nread + 1 \in 1..Len(typed) /\ pending_reads # <<>>
      BY <2>13 DEF TickAnswers, InputReady
    <3>2. r \in [id : Nat, word : Sendable]
      BY <3>1, HeadTail
    <3>3. w \in Word
      <4>1. typed[nread + 1] \in Nat
        <5>1. typed[nread + 1] \in Typeable
          BY <3>1
        <5> QED BY <5>1
      <4>2. r.word \in Word /\ 256 + typed[nread + 1] \in Nat
        <5>1. r.word \in Word BY <3>2
        <5>2. 256 + typed[nread + 1] \in Nat BY <4>1
        <5> QED BY <5>1, <5>2
      <4> QED BY <4>2, ResponseType
    <3>4. fromhost_queue' \in Seq(Word) /\ answers' \in Seq([id : Nat, word : Word])
      BY <2>13, <3>2, <3>3 DEF TickAnswers, Push
    <3>5. pending_reads' \in Seq([id : Nat, word : Sendable])
      BY <2>13, <3>1 DEF TickAnswers
    <3> QED BY <2>13, <3>1, <3>4, <3>5 DEF TickAnswers
  <2>14. CASE TickIdles BY <2>14 DEF TickIdles
  <2>15. CASE PutLater BY <2>15 DEF PutLater
  <2>16. CASE Put BY <2>16 DEF Put
  <2>17. CASE PutRead BY <2>17 DEF PutRead, ReadChunk
  <2>18. CASE PutWrite
    <3>1. fromhost_queue # <<>>
      BY <2>18 DEF PutWrite, HtifInv, AnswerInv, CanPut
    <3>2. Head(fromhost_queue) \in Word /\ Tail(fromhost_queue) \in Seq(Word)
      BY <3>1
    <3>3. mem' \in [{ToHost, FromHost} -> Word] /\ mem'[ToHost] = mem[ToHost]
      BY <2>18, <3>2, HtifLayout DEF PutWrite, Merge
    <3> QED BY <2>18, <3>2, <3>3 DEF PutWrite
  <2> QED
    BY <1>2, <2>1, <2>2, <2>3, <2>4, <2>5, <2>6, <2>7, <2>8, <2>9, <2>10,
       <2>11, <2>12, <2>13, <2>14, <2>15, <2>16, <2>17, <2>18 DEF Host
<1>3. CASE Signal BY <1>3 DEF Signal
<1>4. CASE Type BY <1>4 DEF Type
<1>5. ASSUME NEW c \in Sendable, TargetSends(c) PROVE TypeOK'
  <2>1. mem' \in [{ToHost, FromHost} -> Word] /\ mem'[ToHost] \in Sendable
    BY <1>5 DEF TargetSends
  <2>2. buf' \in [Buffers -> [n : {"exit", "other", "bad"}, code : Nat,
                             reply : Sendable \cup {Zero}]]
    <3>1. CASE UNCHANGED buf
      BY <3>1
    <3>2. ASSUME NEW r \in Requests,
                 buf' = [buf EXCEPT ![Buffer(c)] =
                           [n |-> r.n, code |-> r.code, reply |-> Zero]]
          PROVE  buf' \in [Buffers -> [n : {"exit", "other", "bad"}, code : Nat,
                                      reply : Sendable \cup {Zero}]]
      <4>1. r.n \in {"exit", "other", "bad"} /\ r.code \in Nat
        BY HtifCommands
      <4> QED BY <3>2, <4>1
    <3>3. CASE buf' = [buf EXCEPT ![Buffer(c)].reply = Zero]
      BY <3>3
    <3> QED BY <1>5, <3>1, <3>2, <3>3 DEF TargetSends
  <2>3. sent' \in Seq(Sendable)
    BY <1>5 DEF TargetSends
  <2> QED BY <1>5, <2>1, <2>2, <2>3 DEF TargetSends
<1>6. CASE TargetReceives BY <1>6 DEF TargetReceives
<1> QED BY <1>1, <1>2, <1>3, <1>4, <1>5, <1>6 DEF Next

-------------------------------------------------------------------------------
(* Every action preserves CommandInv.  Most leave the commands alone.        *)

\* Every step keeps the relation between sent, tohost, cmd and taken.
LEMMA CommandStep == HtifInv /\ [Next]_vars => CommandInv'
<1> SUFFICES ASSUME HtifInv, [Next]_vars PROVE CommandInv'
  OBVIOUS
<1> USE DEF prog, memory, devices, status, term, hist, Goto, Full, Held
<1>0. /\ TypeOK /\ CommandInv
      /\ Len(sent) \in Nat /\ Len(taken) \in Nat
  BY DEF HtifInv, TypeOK
<1>1. ASSUME UNCHANGED <<sent, taken, cmd>>, mem'[ToHost] = mem[ToHost],
             \/ pc' = pc
             \/ pc' = "dead"
             \/ /\ pc \notin {"handle", "dead"}
                /\ pc' \notin {"clear", "clearMerge", "handle"}
      PROVE  CommandInv'
  BY <1>0, <1>1 DEF CommandInv
<1>2. CASE UNCHANGED vars
  BY <1>2, <1>1 DEF vars
<1>3. CASE Host
  <2>1. CASE Start       BY <2>1, <1>1 DEF Start
  <2>2. CASE Spin        BY <2>2, <1>1 DEF Spin
  <2>3. CASE Idle        BY <2>3, <1>1 DEF Idle
  <2>4. CASE Fetch       BY <2>4, <1>0 DEF Fetch, CommandInv
  <2>5. CASE Leave       BY <2>5, <1>1 DEF Leave
  <2>6. CASE Stop        BY <2>6, <1>1 DEF Stop
  <2>7. CASE ClearRead   BY <2>7, <1>0 DEF ClearRead, ReadChunk, CommandInv
  <2>8. CASE ClearWrite
    <3>1. mem'[ToHost] = Zero
      BY <2>8, <1>0 DEF ClearWrite, Merge, TypeOK
    <3> QED BY <2>8, <3>1, <1>0 DEF ClearWrite, CommandInv
  <2>9. CASE HandleCommand
    <3>1. /\ pc = "handle" /\ pc' # "handle" /\ pc' \notin {"clear", "clearMerge"}
          /\ taken' = Append(taken, cmd) /\ UNCHANGED <<mem, sent>>
      BY <2>9 DEF HandleCommand, HandleNull, HandleIdentify, HandleExit,
        HandleSyscall, HandleRead, HandlePrint, Handle
    <3>2. /\ Len(taken') = Len(taken) + 1
          /\ \A i \in 1..Len(taken) : taken'[i] = taken[i]
          /\ taken'[Len(taken) + 1] = cmd
      BY <3>1, <1>0 DEF TypeOK
    <3> QED BY <3>1, <3>2, <1>0 DEF CommandInv
  <2>10. CASE Call       BY <2>10, <1>1 DEF Call
  <2>11. CASE Fill       BY <2>11, <1>1 DEF Fill
  <2>12. CASE Respond    BY <2>12, <1>1 DEF Respond
  <2>13. CASE TickAnswers BY <2>13, <1>1 DEF TickAnswers
  <2>14. CASE TickIdles  BY <2>14, <1>1 DEF TickIdles
  <2>15. CASE PutLater   BY <2>15, <1>1 DEF PutLater
  <2>16. CASE Put        BY <2>16, <1>1 DEF Put
  <2>17. CASE PutRead    BY <2>17, <1>1 DEF PutRead, ReadChunk
  <2>18. CASE PutWrite
    <3>1. mem'[ToHost] = mem[ToHost]
      BY <2>18, <1>0, HtifLayout DEF PutWrite, Merge, TypeOK
    <3> QED BY <2>18, <3>1, <1>1 DEF PutWrite
  <2> QED
    BY <1>3, <2>1, <2>2, <2>3, <2>4, <2>5, <2>6, <2>7, <2>8, <2>9, <2>10,
       <2>11, <2>12, <2>13, <2>14, <2>15, <2>16, <2>17, <2>18 DEF Host
<1>4. CASE Signal
  BY <1>4, <1>1 DEF Signal
<1>5. CASE Type
  BY <1>5, <1>1 DEF Type
<1>6. ASSUME NEW c \in Sendable, TargetSends(c) PROVE CommandInv'
  <2>1. c # Zero /\ mem[ToHost] = Zero /\ mem'[ToHost] = c
    BY <1>6, <1>0, ConstantFacts DEF TargetSends, TypeOK
  <2>2. /\ Len(sent') = Len(sent) + 1 /\ sent'[Len(sent) + 1] = c
        /\ \A i \in 1..Len(sent) : sent'[i] = sent[i]
        /\ UNCHANGED <<pc, cmd, taken>>
    BY <1>6, <1>0 DEF TargetSends, TypeOK
  <2> QED BY <2>1, <2>2, <1>0 DEF CommandInv
<1>7. CASE TargetReceives
  <2>1. mem'[ToHost] = mem[ToHost]
    BY <1>7, <1>0, ConstantFacts DEF TargetReceives, TypeOK
  <2> QED BY <1>7, <2>1, <1>1 DEF TargetReceives
<1> QED BY <1>2, <1>3, <1>4, <1>5, <1>6, <1>7 DEF Next

\* Every step keeps that a command is handled only while exitcode is 0.
LEMMA ExitStep == HtifInv /\ [Next]_vars => ExitInv'
<1> SUFFICES ASSUME HtifInv, [Next]_vars PROVE ExitInv'
  OBVIOUS
<1> USE DEF prog, memory, devices, status, term, hist, Goto
<1>0. ExitInv
  BY DEF HtifInv
<1>1. ASSUME pc' \notin {"clear", "clearMerge", "handle", "call"}
      PROVE  ExitInv'
  BY <1>1 DEF ExitInv
<1>2. ASSUME UNCHANGED exitcode,
             \/ pc' = pc
             \/ pc \in {"clear", "clearMerge", "handle"}
      PROVE  ExitInv'
  BY <1>0, <1>2 DEF ExitInv
<1>3. CASE UNCHANGED vars
  BY <1>2, <1>3 DEF vars
<1>4. CASE Host
  <2>1. CASE Fetch
    BY <2>1 DEF Fetch, Running, ExitInv
  <2>2. CASE ClearRead \/ ClearWrite
    BY <2>2, <1>2 DEF ClearRead, ReadChunk, ClearWrite
  <2>3. CASE HandleCommand
    BY <2>3, <1>1, <1>2 DEF HandleCommand, HandleNull, HandleIdentify,
      HandleExit, HandleSyscall, HandleRead, HandlePrint, Handle
  <2>4. CASE Start \/ Spin \/ Idle \/ Leave \/ Stop
    BY <2>4, <1>1 DEF Start, Spin, Idle, Leave, Stop
  <2>5. CASE Call \/ Fill \/ Respond \/ TickAnswers \/ TickIdles
    BY <2>5, <1>1 DEF Call, Fill, Respond, TickAnswers, TickIdles
  <2>6. CASE PutLater \/ Put \/ PutRead \/ PutWrite
    BY <2>6, <1>1 DEF PutLater, Put, PutRead, ReadChunk, PutWrite
  <2> QED BY <1>4, <2>1, <2>2, <2>3, <2>4, <2>5, <2>6 DEF Host
<1>5. CASE Signal \/ Type \/ TargetReceives
  BY <1>5, <1>1, <1>2 DEF Signal, Type, TargetReceives
<1>6. ASSUME NEW c \in Sendable, TargetSends(c) PROVE ExitInv'
  BY <1>6, <1>2 DEF TargetSends
<1> QED BY <1>3, <1>4, <1>5, <1>6 DEF Next

-------------------------------------------------------------------------------
(* Every action preserves AnswerInv.  Two push an answer, and one moves the  *)
(* front of the queue to fromhost.                                           *)

\* An action that pushes an answer (command_t::respond) keeps AnswerInv.
LEMMA PushStep ==
  ASSUME TypeOK, AnswerInv, NEW id \in Nat, NEW w \in Word \ {Zero},
         Push(id, w), UNCHANGED <<mem, got>>,
         pc' \notin {"putRead", "putMerge"}
  PROVE  AnswerInv'
<1>1. /\ Len(answers) \in Nat /\ Len(got) \in Nat
      /\ Len(fromhost_queue) \in Nat /\ Full(FromHost) \in {0, 1}
  BY DEF TypeOK, Full
<1>2. /\ Len(answers') = Len(answers) + 1
      /\ \A k \in 1..Len(answers) : answers'[k] = answers[k]
      /\ answers'[Len(answers) + 1].word = w
  BY DEF Push, TypeOK
<1>3. /\ Len(fromhost_queue') = Len(fromhost_queue) + 1
      /\ \A n \in 1..Len(fromhost_queue) : fromhost_queue'[n] = fromhost_queue[n]
      /\ fromhost_queue'[Len(fromhost_queue) + 1] = w
  BY DEF Push, TypeOK
<1>4. Full(FromHost)' = Full(FromHost)
  BY DEF Full
<1> DEFINE base == Len(got) + Full(FromHost)
<1>5. Len(answers) = base + Len(fromhost_queue) /\ base \in Nat
  BY <1>1 DEF AnswerInv
<1>6. \A n \in 1..Len(fromhost_queue') : fromhost_queue'[n] = answers'[base + n].word
  <2> TAKE n \in 1..Len(fromhost_queue')
  <2>1. CASE n = Len(fromhost_queue) + 1
    BY <1>1, <1>2, <1>3, <1>5, <2>1
  <2>2. CASE n \in 1..Len(fromhost_queue)
    <3>1. base + n \in 1..Len(answers)
      BY <1>1, <1>5, <2>2
    <3>2. fromhost_queue[n] = answers[base + n].word
      BY <2>2 DEF AnswerInv
    <3> QED BY <1>2, <1>3, <2>2, <3>1, <3>2
  <2> QED BY <1>1, <1>3, <2>1, <2>2
<1>7. \A k \in 1..Len(answers') : answers'[k].word # Zero
  BY <1>1, <1>2 DEF AnswerInv
<1>8. \A k \in 1..Len(got') : got'[k] = answers'[k].word
  BY <1>1, <1>2, <1>5 DEF AnswerInv
<1>9. mem'[FromHost] # Zero => mem'[FromHost] = answers'[Len(got') + 1].word
  BY <1>1, <1>2, <1>5 DEF AnswerInv, Full
<1> QED BY <1>1, <1>2, <1>3, <1>4, <1>5, <1>6, <1>7, <1>8, <1>9 DEF AnswerInv

\* The words that the two kinds of answer put on the queue are not 0, which in
\* fromhost would mean that there is no answer.
LEMMA RespondWord ==
  ASSUME TypeOK, cmd # Zero
  PROVE  Response(cmd, 1) \in Word \ {Zero}
<1>1. cmd \in Word /\ 1 \in Nat
  BY ConstantFacts DEF TypeOK
<1> QED BY <1>1, ResponseType

\* The same for the answer to a read that meets a character.
LEMMA ReadWord ==
  ASSUME TypeOK, InputReady
  PROVE  LET r == Head(pending_reads)
         IN  /\ r \in [id : Nat, word : Sendable]
             /\ typed[nread + 1] \in Typeable
             /\ Response(r.word, 256 + typed[nread + 1]) \in Word \ {Zero}
<1> DEFINE r == Head(pending_reads)
<1>1. r \in [id : Nat, word : Sendable]
  BY HeadTail DEF TypeOK, InputReady
<1>2. typed[nread + 1] \in Typeable
  BY DEF TypeOK, InputReady
<1>3. r.word \in Word
  BY <1>1, ConstantFacts
<1>4. 256 + typed[nread + 1] \in Nat \ {0}
  <2>1. typed[nread + 1] \in Nat
    BY <1>2, ConstantFacts
  <2> QED BY <2>1
<1>5. Response(r.word, 256 + typed[nread + 1]) \in Word \ {Zero}
  <2> DEFINE p == 256 + typed[nread + 1]
  <2>1. p \in Nat /\ p # 0 BY <1>4
  <2> HIDE DEF p, r
  <2>2. Response(r.word, p) \in Word \ {Zero} BY <1>3, <2>1, ResponseType
  <2> QED BY <2>2 DEF p, r
<1> QED BY <1>1, <1>2, <1>5

\* Every step keeps the relation between answers, the queue, fromhost and got.
LEMMA AnswerStep == HtifInv /\ [Next]_vars => AnswerInv'
<1> SUFFICES ASSUME HtifInv, [Next]_vars PROVE AnswerInv'
  OBVIOUS
<1> USE DEF prog, memory, devices, status, term, hist, Goto
<1>0. /\ TypeOK /\ AnswerInv
      /\ Len(answers) \in Nat /\ Len(got) \in Nat /\ Len(fromhost_queue) \in Nat
  BY DEF HtifInv, TypeOK
<1>1. ASSUME UNCHANGED <<answers, got, fromhost_queue>>,
             mem'[FromHost] = mem[FromHost],
             \/ pc' = pc
             \/ pc' \notin {"putRead", "putMerge"}
      PROVE  AnswerInv'
  BY <1>0, <1>1 DEF AnswerInv, Full, CanPut
<1>2. CASE UNCHANGED vars
  BY <1>2, <1>1 DEF vars
<1>3. CASE Host
  <2>1. CASE Start \/ Spin \/ Idle \/ Fetch \/ Leave \/ Stop
    BY <2>1, <1>1 DEF Start, Spin, Idle, Fetch, Leave, Stop
  <2>2. CASE ClearRead
    BY <2>2, <1>1 DEF ClearRead, ReadChunk
  <2>3. CASE ClearWrite
    <3>1. mem'[FromHost] = mem[FromHost]
      BY <2>3, <1>0, HtifLayout DEF ClearWrite, Merge, TypeOK
    <3> QED BY <2>3, <3>1, <1>1 DEF ClearWrite
  <2>4. CASE HandleCommand
    <3>1. /\ UNCHANGED <<answers, got, fromhost_queue, mem>>
          /\ pc' \notin {"putRead", "putMerge"}
      BY <2>4 DEF HandleCommand, HandleNull, HandleIdentify, HandleExit,
        HandleSyscall, HandleRead, HandlePrint, Handle
    <3> QED BY <3>1, <1>1
  <2>5. CASE Call \/ Fill \/ TickIdles \/ PutLater
    BY <2>5, <1>1 DEF Call, Fill, TickIdles, PutLater
  <2>6. CASE Respond
    <3>1. cmd # Zero
      <4>1. cmd = taken[Len(taken)] /\ taken # <<>>
        BY <2>6 DEF Respond, HtifInv, PendingInv
      <4>2. taken[Len(taken)] \in Sendable
        BY <4>1, <1>0 DEF TypeOK
      <4> QED BY <4>1, <4>2, ConstantFacts
    <3>2. Response(cmd, 1) \in Word \ {Zero} /\ Len(taken) \in Nat
      BY <1>0, <3>1, RespondWord DEF TypeOK
    <3> QED BY <2>6, <3>2, <1>0, PushStep DEF Respond
  <2>7. CASE TickAnswers
    <3>1. /\ Head(pending_reads).id \in Nat
          /\ Response(Head(pending_reads).word, 256 + typed[nread + 1])
               \in Word \ {Zero}
      BY <2>7, <1>0, ReadWord DEF TickAnswers
    <3> QED BY <2>7, <3>1, <1>0, PushStep DEF TickAnswers
  <2>8. CASE Put
    BY <2>8, <1>0 DEF Put, AnswerInv, Full, CanPut
  <2>9. CASE PutRead
    BY <2>9, <1>0 DEF PutRead, ReadChunk, AnswerInv, Full, CanPut
  <2>10. CASE PutWrite
    <3>1. fromhost_queue # <<>> /\ mem[FromHost] = Zero
      BY <2>10, <1>0 DEF PutWrite, AnswerInv, CanPut
    <3>2. mem'[FromHost] = fromhost_queue[1]
      BY <2>10, <1>0, <3>1 DEF PutWrite, Merge, TypeOK
    <3>3. /\ Len(fromhost_queue') = Len(fromhost_queue) - 1
          /\ \A n \in 1..Len(fromhost_queue') :
               fromhost_queue'[n] = fromhost_queue[n + 1]
      BY <2>10, <1>0, <3>1, HeadTail DEF PutWrite, TypeOK
    <3>4. fromhost_queue[1] = answers[Len(got) + 1].word
          /\ Len(got) + 1 \in 1..Len(answers)
      BY <1>0, <3>1 DEF AnswerInv, Full
    <3>5. mem'[FromHost] # Zero
      BY <1>0, <3>2, <3>4 DEF AnswerInv
    <3>6. UNCHANGED <<answers, got>> /\ pc' = "run"
      BY <2>10 DEF PutWrite
    <3>7. Full(FromHost) = 0 /\ Full(FromHost)' = 1
      BY <3>1, <3>5 DEF Full
    <3>8. \A n \in 1..Len(fromhost_queue') :
            fromhost_queue'[n] = answers'[Len(got') + 1 + n].word
      <4> TAKE n \in 1..Len(fromhost_queue')
      <4>1. n + 1 \in 1..Len(fromhost_queue)
        BY <1>0, <3>3
      <4>2. fromhost_queue[n + 1] = answers[Len(got) + 0 + (n + 1)].word
        BY <1>0, <3>7, <4>1 DEF AnswerInv
      <4> QED BY <1>0, <3>3, <3>6, <4>1, <4>2
    <3>9. Len(answers') = Len(got') + 1 + Len(fromhost_queue')
      <4>1. Len(answers) = Len(got) + 0 + Len(fromhost_queue)
        BY <1>0, <3>7 DEF AnswerInv
      <4> QED BY <1>0, <3>3, <3>6, <4>1
    <3>10. /\ \A k \in 1..Len(answers') : answers'[k].word # Zero
           /\ \A k \in 1..Len(got') : got'[k] = answers'[k].word
      BY <1>0, <3>6 DEF AnswerInv
    <3>11. mem'[FromHost] = answers'[Len(got') + 1].word
      BY <3>2, <3>4, <3>6
    <3>12. \A n \in 1..Len(fromhost_queue') :
             fromhost_queue'[n] = answers'[Len(got') + Full(FromHost)' + n].word
      BY <3>7, <3>8
    <3>13. Len(answers') = Len(got') + Full(FromHost)' + Len(fromhost_queue')
      BY <3>7, <3>9
    <3> QED BY <3>6, <3>10, <3>11, <3>12, <3>13 DEF AnswerInv
  <2> QED
    BY <1>3, <2>1, <2>2, <2>3, <2>4, <2>5, <2>6, <2>7, <2>8, <2>9, <2>10 DEF Host
<1>4. CASE Signal \/ Type
  BY <1>4, <1>1 DEF Signal, Type
<1>5. ASSUME NEW c \in Sendable, TargetSends(c) PROVE AnswerInv'
  <2>1. mem'[FromHost] = mem[FromHost]
    BY <1>5, <1>0, ConstantFacts DEF TargetSends, TypeOK
  <2> QED BY <1>5, <2>1, <1>1 DEF TargetSends
<1>6. CASE TargetReceives
  <2>1. mem[FromHost] # Zero /\ mem'[FromHost] = Zero
    BY <1>6, <1>0 DEF TargetReceives, TypeOK
  <2>2. /\ Len(got') = Len(got) + 1 /\ got'[Len(got) + 1] = mem[FromHost]
        /\ \A k \in 1..Len(got) : got'[k] = got[k]
    BY <1>6, <1>0 DEF TargetReceives, TypeOK
  <2>3. UNCHANGED <<answers, fromhost_queue, pc>>
    BY <1>6 DEF TargetReceives
  <2>4. Full(FromHost) = 1 /\ Full(FromHost)' = 0
    BY <2>1 DEF Full
  <2>5. pc' \notin {"putRead", "putMerge"}
    BY <1>0, <2>1, <2>3 DEF AnswerInv, CanPut
  <2>6. \A k \in 1..Len(got') : got'[k] = answers'[k].word
    <3> TAKE k \in 1..Len(got')
    <3>1. CASE k = Len(got) + 1
      BY <1>0, <2>1, <2>2, <2>3, <3>1 DEF AnswerInv
    <3>2. CASE k \in 1..Len(got)
      BY <1>0, <2>2, <2>3, <3>2 DEF AnswerInv
    <3> QED BY <1>0, <2>2, <3>1, <3>2
  <2>7. Len(got') + Full(FromHost)' = Len(got) + Full(FromHost)
    BY <1>0, <2>2, <2>4
  <2> QED BY <1>0, <2>1, <2>3, <2>5, <2>6, <2>7 DEF AnswerInv
<1> QED BY <1>2, <1>3, <1>4, <1>5, <1>6 DEF Next

-------------------------------------------------------------------------------
(* Every action preserves PendingInv.  A command is answered by the action   *)
(* that handles it, or waits in pending_reads.                               *)

\* Every step keeps the relation between taken, pending_reads and answers.
LEMMA PendingStep == HtifInv /\ [Next]_vars => PendingInv'
<1> SUFFICES ASSUME HtifInv, [Next]_vars PROVE PendingInv'
  OBVIOUS
<1> USE DEF prog, memory, devices, status, term, hist, Goto
<1> DEFINE Executing == {"call", "fill", "respond"}
<1>0. /\ TypeOK /\ PendingInv
      /\ Len(answers) \in Nat /\ Len(taken) \in Nat /\ Len(pending_reads) \in Nat
      /\ \A k \in 1..Len(answers) : answers[k].id \in Nat
  <2>1. TypeOK /\ PendingInv
    BY DEF HtifInv
  <2>2. /\ Len(answers) \in Nat /\ Len(taken) \in Nat
        /\ Len(pending_reads) \in Nat
    BY <2>1 DEF TypeOK
  <2>3. \A k \in 1..Len(answers) : answers[k] \in [id : Nat, word : Word]
    <3> DEFINE R == [id : Nat, word : Word]
    <3>1. answers \in Seq(R)
      BY <2>1 DEF TypeOK
    <3> HIDE DEF R
    <3>2. \A k \in 1..Len(answers) : answers[k] \in R
      BY <3>1, SeqElement
    <3> QED BY <3>2 DEF R
  <2> QED BY <2>1, <2>2, <2>3
<1>1. ASSUME UNCHANGED <<answers, taken, pending_reads>>,
             \/ pc' \notin Executing
             \/ pc \in Executing /\ UNCHANGED cmd
      PROVE  PendingInv'
  BY <1>0, <1>1 DEF PendingInv, IsWaiting
<1>2. CASE UNCHANGED vars
  BY <1>2, <1>1 DEF vars
<1>3. CASE Host
  <2>1. CASE Start \/ Spin \/ Idle \/ Fetch \/ Leave \/ Stop
    BY <2>1, <1>1 DEF Start, Spin, Idle, Fetch, Leave, Stop
  <2>2. CASE ClearRead \/ ClearWrite
    BY <2>2, <1>1 DEF ClearRead, ReadChunk, ClearWrite
  <2>3. CASE HandleCommand
    <3>1. /\ taken' = Append(taken, cmd) /\ UNCHANGED <<answers, cmd>>
          /\ pc' \in Executing => HasBuffer(cmd)
          /\ \/ UNCHANGED pending_reads
             \/ /\ IsRead(cmd)
                /\ pending_reads' =
                     Append(pending_reads, [id |-> Len(taken'), word |-> cmd])
      BY <2>3 DEF HandleCommand, HandleNull, HandleIdentify, HandleExit,
        HandleSyscall, HandleRead, HandlePrint, Handle, HasBuffer
    <3>2. /\ Len(taken') = Len(taken) + 1
          /\ taken'[Len(taken) + 1] = cmd
          /\ \A i \in 1..Len(taken) : taken'[i] = taken[i]
      <4>1. cmd \in Sendable
        <5>1. pc = "handle"
          BY <2>3 DEF HandleCommand, HandleNull, HandleIdentify, HandleExit,
            HandleSyscall, HandleRead, HandlePrint, Handle
        <5>2. cmd = sent[Len(taken) + 1] /\ Len(taken) + 1 \in 1..Len(sent)
          BY <1>0, <5>1 DEF HtifInv, CommandInv, Held, Full, TypeOK
        <5> QED BY <1>0, <5>2 DEF TypeOK
      <4> QED BY <1>0, <3>1, <4>1 DEF TypeOK
    <3>3. \A k \in 1..Len(answers) : answers[k].id < Len(taken')
      BY <1>0, <3>2 DEF PendingInv
    <3>4. ASSUME NEW r, IsWaiting(r) PROVE IsWaiting(r)'
      BY <1>0, <3>1, <3>2, <3>4 DEF IsWaiting
    <3>5. pc' \in Executing =>
            /\ taken' # <<>> /\ cmd' = taken'[Len(taken')] /\ HasBuffer(cmd')
            /\ \A k \in 1..Len(answers') : answers'[k].id < Len(taken')
      BY <1>0, <3>1, <3>2, <3>3
    <3>8. \A k \in 1..Len(answers') : answers'[k].id <= Len(taken')
      BY <1>0, <3>1, <3>2, <3>3
    <3>6. CASE UNCHANGED pending_reads
      <4>1. \A n \in 1..Len(pending_reads') : IsWaiting(pending_reads[n])'
        <5> TAKE n \in 1..Len(pending_reads')
        <5> PICK r : r = pending_reads[n]
          OBVIOUS
        <5>1. IsWaiting(r)
          BY <1>0, <3>6 DEF PendingInv
        <5>2. IsWaiting(r)'
          BY <3>4, <5>1
        <5> QED BY <3>6, <5>2 DEF IsWaiting
      <4> QED BY <1>0, <3>5, <3>6, <3>8, <4>1 DEF PendingInv
    <3>7. CASE /\ IsRead(cmd)
               /\ pending_reads' =
                    Append(pending_reads, [id |-> Len(taken'), word |-> cmd])
      <4>1. /\ Len(pending_reads') = Len(pending_reads) + 1
            /\ \A n \in 1..Len(pending_reads) : pending_reads'[n] = pending_reads[n]
            /\ pending_reads'[Len(pending_reads) + 1] =
                 [id |-> Len(taken'), word |-> cmd]
        BY <1>0, <3>7 DEF TypeOK
      <4>2. \A r : r = [id |-> Len(taken'), word |-> cmd] => IsWaiting(r)'
        BY <1>0, <3>1, <3>2, <3>3, <3>7 DEF IsWaiting
      <4>3. \A n \in 1..Len(pending_reads') : IsWaiting(pending_reads[n])'
        <5> TAKE n \in 1..Len(pending_reads')
        <5> PICK r : r = pending_reads'[n]
          OBVIOUS
        <5>1. CASE n \in 1..Len(pending_reads)
          <6>1. IsWaiting(r)
            BY <1>0, <4>1, <5>1 DEF PendingInv
          <6>2. IsWaiting(r)'
            BY <3>4, <6>1
          <6> QED BY <6>2 DEF IsWaiting
        <5>2. CASE n = Len(pending_reads) + 1
          BY <4>1, <4>2, <5>2
        <5> QED BY <1>0, <4>1, <5>1, <5>2
      <4>4. \A n \in 1..Len(pending_reads) : pending_reads[n].id <= Len(taken)
        BY <1>0 DEF PendingInv, IsWaiting
      <4>5. \A m, n \in 1..Len(pending_reads') :
              m < n => pending_reads'[m].id < pending_reads'[n].id
        <5> SUFFICES ASSUME NEW m \in 1..Len(pending_reads'),
                            NEW n \in 1..Len(pending_reads'), m < n
                     PROVE  pending_reads'[m].id < pending_reads'[n].id
          OBVIOUS
        <5>1. m \in 1..Len(pending_reads)
          BY <1>0, <4>1
        <5>2. CASE n \in 1..Len(pending_reads)
          BY <1>0, <4>1, <5>1, <5>2 DEF PendingInv
        <5>3. CASE n = Len(pending_reads) + 1
          <6>1. pending_reads'[n].id = Len(taken) + 1
            BY <3>2, <4>1, <5>3
          <6>2. pending_reads'[m].id \in 1..Len(taken)
            BY <1>0, <4>1, <5>1 DEF PendingInv, IsWaiting
          <6> QED BY <1>0, <6>1, <6>2
        <5>4. n \in 1..Len(pending_reads) \/ n = Len(pending_reads) + 1
          BY <1>0, <4>1
        <5> QED BY <5>2, <5>3, <5>4
      <4> QED BY <4>3, <4>5, <3>5, <3>8 DEF PendingInv
    <3> QED BY <3>1, <3>6, <3>7
  <2>4. CASE Call \/ Fill
    BY <2>4, <1>1 DEF Call, Fill
  <2>5. CASE Respond
    <3>1. /\ HasBuffer(cmd) /\ cmd = taken[Len(taken)] /\ Len(taken) \in Nat \ {0}
          /\ cmd \in Word
      <4>1. HasBuffer(cmd) /\ cmd = taken[Len(taken)] /\ taken # <<>>
        BY <2>5, <1>0 DEF Respond, PendingInv
      <4>2. cmd \in Word
        BY <1>0, ConstantFacts DEF TypeOK
      <4>3. taken # <<>> => Len(taken) # 0
        BY <1>0 DEF TypeOK
      <4> QED BY <1>0, <4>1, <4>2, <4>3
    <3>2. ~IsRead(Response(cmd, 1))
      <4>1. /\ Response(cmd, 1).dev = cmd.dev
            /\ Response(cmd, 1).cmd = cmd.cmd
        BY <3>1, ResponseType
      <4> QED BY <3>1, <4>1 DEF HasBuffer, IsRead, IsIdentify, IsSyscall,
        SyscallProxy, Bcd, MaxCommands
    <3>3. /\ Len(answers') = Len(answers) + 1
          /\ \A k \in 1..Len(answers) : answers'[k] = answers[k]
          /\ answers'[Len(answers) + 1] =
               [id |-> Len(taken), word |-> Response(cmd, 1)]
      BY <2>5, <1>0 DEF Respond, Push, TypeOK
    <3>4. UNCHANGED <<taken, pending_reads>> /\ pc' = "tick"
      BY <2>5 DEF Respond
    <3>5. \A k \in 1..Len(answers') : answers'[k].id <= Len(taken)
      BY <1>0, <3>1, <3>3 DEF PendingInv
    <3>6. \A k \in 1..Len(answers') : IsRead(answers'[k].word)
            => k \in 1..Len(answers) /\ answers'[k] = answers[k]
      BY <1>0, <3>2, <3>3
    <3>7. \A n \in 1..Len(pending_reads) : IsWaiting(pending_reads[n])'
        BY <1>0, <3>4, <3>6 DEF PendingInv, IsWaiting
    <3> QED BY <1>0, <3>4, <3>5, <3>7 DEF PendingInv
  <2>6. CASE TickAnswers
    <3> DEFINE r == Head(pending_reads)
    <3>1. /\ Len(pending_reads) \in Nat \ {0} /\ r = pending_reads[1]
          /\ Len(pending_reads') = Len(pending_reads) - 1
          /\ \A n \in 1..Len(pending_reads') :
               pending_reads'[n] = pending_reads[n + 1]
      BY <2>6, <1>0, HeadTail DEF TickAnswers, InputReady, TypeOK
    <3>2. r.id \in 1..Len(taken)
      BY <1>0, <3>1 DEF PendingInv, IsWaiting
    <3>3. /\ Len(answers') = Len(answers) + 1
          /\ \A k \in 1..Len(answers) : answers'[k] = answers[k]
          /\ answers'[Len(answers) + 1].id = r.id
      BY <2>6, <1>0 DEF TickAnswers, Push, TypeOK
    <3>4. UNCHANGED taken /\ pc' = "put"
      BY <2>6 DEF TickAnswers
    <3>5. \A k \in 1..Len(answers') : answers'[k].id <= Len(taken)
      BY <1>0, <3>2, <3>3 DEF PendingInv
    <3>6. \A n \in 1..Len(pending_reads') : IsWaiting(pending_reads[n])'
      <4> TAKE n \in 1..Len(pending_reads')
      <4>1. /\ n + 1 \in 1..Len(pending_reads) /\ 1 < n + 1
            /\ pending_reads'[n] = pending_reads[n + 1]
        BY <1>0, <3>1
      <4> PICK q : q = pending_reads[n + 1]
        OBVIOUS
      <4>2. r.id < q.id
        BY <1>0, <3>1, <4>1 DEF PendingInv
      <4>3. IsWaiting(q)
        BY <1>0, <4>1 DEF PendingInv
      <4>4. \A k \in 1..Len(answers') :
              IsRead(answers'[k].word) => answers'[k].id < q.id
        <5> SUFFICES ASSUME NEW k \in 1..Len(answers'), IsRead(answers'[k].word)
                     PROVE  answers'[k].id < q.id
          OBVIOUS
        <5>0. Len(answers) \in Nat
          BY <1>0 DEF TypeOK
        <5>1. k \in 1..Len(answers) \/ k = Len(answers) + 1
          BY <3>3, <5>0
        <5>2. CASE k \in 1..Len(answers)
          <6>1. answers'[k] = answers[k] /\ IsRead(answers[k].word)
            BY <3>3, <5>2
          <6> QED BY <4>3, <5>2, <6>1 DEF IsWaiting
        <5>3. CASE k = Len(answers) + 1
          BY <3>3, <4>2, <5>3
        <5> QED BY <5>1, <5>2, <5>3
      <4>5. IsWaiting(q)'
        BY <3>4, <4>3, <4>4 DEF IsWaiting
      <4> QED BY <4>1, <4>5
    <3>7. \A m, n \in 1..Len(pending_reads') :
            m < n => pending_reads'[m].id < pending_reads'[n].id
      <4> SUFFICES ASSUME NEW m \in 1..Len(pending_reads'),
                          NEW n \in 1..Len(pending_reads'), m < n
                   PROVE  pending_reads'[m].id < pending_reads'[n].id
        OBVIOUS
      <4>1. /\ m + 1 \in 1..Len(pending_reads) /\ n + 1 \in 1..Len(pending_reads)
            /\ m + 1 < n + 1
        BY <1>0, <3>1
      <4> QED BY <1>0, <3>1, <4>1 DEF PendingInv
    <3> QED BY <3>4, <3>5, <3>6, <3>7 DEF PendingInv
  <2>7. CASE TickIdles \/ PutLater \/ Put
    BY <2>7, <1>1 DEF TickIdles, PutLater, Put
  <2>8. CASE PutRead \/ PutWrite
    BY <2>8, <1>1 DEF PutRead, ReadChunk, PutWrite
  <2> QED
    BY <1>3, <2>1, <2>2, <2>3, <2>4, <2>5, <2>6, <2>7, <2>8 DEF Host
<1>4. CASE Signal \/ Type \/ TargetReceives
  BY <1>4, <1>1 DEF Signal, Type, TargetReceives
<1>5. ASSUME NEW c \in Sendable, TargetSends(c) PROVE PendingInv'
  BY <1>5, <1>1 DEF TargetSends
<1> QED BY <1>2, <1>3, <1>4, <1>5 DEF Next

\* Every step keeps the inductive invariant.
LEMMA HtifStep == HtifInv /\ [Next]_vars => HtifInv'
BY TypeStep, CommandStep, AnswerStep, PendingStep, ExitStep DEF HtifInv

\* The inductive invariant holds in every reachable state.
THEOREM HtifInvariant == Spec => []HtifInv
BY HtifInit, HtifStep, PTL DEF Spec

\* Every variable of the run loop, the devices and the target keeps its type.
THEOREM TypeCorrect == Spec => []TypeOK
<1>1. HtifInv => TypeOK
  BY DEF HtifInv
<1> QED BY <1>1, HtifInvariant, PTL

-------------------------------------------------------------------------------
(* After an exit command nothing is handled: the handlers and the dispatch   *)
(* run only while exitcode is 0.                                             *)

\* No step changes what ExitIsFinal names once exitcode is set.
LEMMA ExitStable ==
  HtifInv /\ [Next]_vars => (exitcode # 0 => UNCHANGED <<exitcode, taken, printed>>)
<1> SUFFICES ASSUME HtifInv, [Next]_vars, exitcode # 0
             PROVE  UNCHANGED <<exitcode, taken, printed>>
  OBVIOUS
<1> USE DEF prog, memory, devices, status, term, hist, Goto
<1>1. pc \notin {"clear", "clearMerge", "handle", "call"}
  BY DEF HtifInv, ExitInv
<1>2. CASE UNCHANGED vars
  BY <1>2 DEF vars
<1>3. CASE Host
  <2>1. ~HandleCommand /\ ~Call
    BY <1>1 DEF HandleCommand, HandleNull, HandleIdentify, HandleExit,
      HandleSyscall, HandleRead, HandlePrint, Handle, Call
  <2>2. CASE Start \/ Spin \/ Idle \/ Fetch \/ Leave \/ Stop
    BY <2>2 DEF Start, Spin, Idle, Fetch, Leave, Stop
  <2>3. CASE ClearRead \/ ClearWrite \/ Fill \/ Respond
    BY <2>3 DEF ClearRead, ReadChunk, ClearWrite, Fill, Respond
  <2>4. CASE TickAnswers \/ TickIdles \/ PutLater \/ Put \/ PutRead \/ PutWrite
    BY <2>4 DEF TickAnswers, TickIdles, PutLater, Put, PutRead, ReadChunk, PutWrite
  <2> QED BY <1>3, <2>1, <2>2, <2>3, <2>4 DEF Host
<1>4. CASE Signal \/ Type \/ TargetReceives
  BY <1>4 DEF Signal, Type, TargetReceives
<1>5. ASSUME NEW c \in Sendable, TargetSends(c)
      PROVE  UNCHANGED <<exitcode, taken, printed>>
  BY <1>5 DEF TargetSends
<1> QED BY <1>2, <1>3, <1>4, <1>5 DEF Next

\* Once a command has set the exit code, no step handles another command or
\* replaces the code, whatever the target sends meanwhile.
THEOREM ExitIsFinalTheorem == Spec => ExitIsFinal
<1>1. HtifInv /\ [Next]_vars
      => [exitcode # 0 => UNCHANGED <<exitcode, taken, printed>>]_vars
  BY ExitStable
<1> QED BY <1>1, HtifInvariant, PTL DEF Spec, ExitIsFinal

-------------------------------------------------------------------------------
(* Refinement of HtifChannel: sending, handling, the two kinds of answer and *)
(* receiving are its actions; every other step stutters.                     *)

\* The initial states are initial states of the channel.
LEMMA ChannelInit == Init => Channel!Init
BY DEF Init, Channel!Init

\* Every step is a step of the channel, or leaves it alone.
LEMMA ChannelStep ==
  HtifInv /\ [Next]_vars => [Channel!Next]_(Channel!chvars)
<1> SUFFICES ASSUME HtifInv, [Next]_vars
             PROVE  Channel!Next \/ UNCHANGED Channel!chvars
  OBVIOUS
<1> USE DEF prog, memory, devices, status, term, hist, Goto
<1>0. TypeOK /\ CommandInv /\ AnswerInv /\ PendingInv
  BY DEF HtifInv
<1>1. ASSUME UNCHANGED hist PROVE UNCHANGED Channel!chvars
  BY <1>1 DEF Channel!chvars
<1>2. CASE UNCHANGED vars
  BY <1>2, <1>1 DEF vars
<1>3. CASE HandleCommand
  <2>1. /\ pc = "handle" /\ taken' = Append(taken, cmd)
        /\ UNCHANGED <<sent, answers, got>>
    BY <1>3 DEF HandleCommand, HandleNull, HandleIdentify, HandleExit,
      HandleSyscall, HandleRead, HandlePrint, Handle
  <2>2. cmd = sent[Len(taken) + 1] /\ Len(taken) < Len(sent)
    BY <1>0, <2>1 DEF CommandInv, Held, Full, TypeOK
  <2>3. Channel!Take
    BY <2>1, <2>2 DEF Channel!Take
  <2> QED BY <2>3 DEF Channel!Next
<1>4. CASE Respond
  <2> DEFINE i == Len(taken)
             w == Response(cmd, 1)
  <2>1. /\ HasBuffer(cmd) /\ cmd = taken[i] /\ taken # <<>>
        /\ \A k \in 1..Len(answers) : answers[k].id < i
    BY <1>4, <1>0 DEF Respond, PendingInv
  <2>2. i \in 1..Len(taken) /\ cmd \in Sendable
    BY <1>0, <2>1 DEF TypeOK
  <2>3. w.dev = cmd.dev /\ w.cmd = cmd.cmd
    BY <2>2, ConstantFacts, ResponseType
  <2>4. Channel!Answer(i, w)
    BY <1>4, <2>1, <2>3 DEF Respond, Push, Channel!Answer, Channel!SameTag
  <2> QED BY <2>1, <2>2, <2>4 DEF Channel!Next
<1>5. CASE TickAnswers
  <2> DEFINE r == Head(pending_reads)
             w == Response(r.word, 256 + typed[nread + 1])
  <2>1. InputReady
    BY <1>5 DEF TickAnswers
  <2>2. r.word \in Sendable /\ typed[nread + 1] \in Typeable
    BY <1>0, <2>1, ReadWord
  <2>3. r = pending_reads[1] /\ 1 \in 1..Len(pending_reads)
    BY <1>0, <2>1, HeadTail DEF InputReady, TypeOK
  <2>4. IsWaiting(r)
    BY <1>0, <2>3 DEF PendingInv
  <2>5. w.dev = r.word.dev /\ w.cmd = r.word.cmd
    <3>1. r.word \in Word /\ 256 + typed[nread + 1] \in Nat
      <4>1. typed[nread + 1] \in Nat
        BY <2>2, ConstantFacts
      <4>2. r.word \in Word BY <2>2, ConstantFacts
      <4> QED BY <4>1, <4>2
    <3> DEFINE p == 256 + typed[nread + 1]
    <3>2. p \in Nat BY <3>1
    <3> HIDE DEF p, r
    <3>3. Response(r.word, p).dev = r.word.dev /\ Response(r.word, p).cmd = r.word.cmd
      BY <3>1, <3>2, ResponseType
    <3> QED BY <3>3 DEF p
  <2>6. \A k \in 1..Len(answers) :
          Channel!SameTag(answers[k].word, w) => answers[k].id < r.id
    BY <2>4, <2>5 DEF IsWaiting, IsRead, Channel!SameTag
  <2>7. Channel!Answer(r.id, w)
    BY <1>5, <2>4, <2>5, <2>6
    DEF TickAnswers, Push, IsWaiting, Channel!Answer, Channel!SameTag
  <2>8. r.id \in 1..Len(taken) /\ IsRead(r.word)
    BY <2>4 DEF IsWaiting
  <2> QED BY <2>2, <2>7, <2>8 DEF Channel!Next
<1>6. CASE Host /\ ~HandleCommand /\ ~Respond /\ ~TickAnswers
  <2>1. CASE Start \/ Spin \/ Idle \/ Fetch \/ Leave \/ Stop
    BY <2>1, <1>1 DEF Start, Spin, Idle, Fetch, Leave, Stop
  <2>2. CASE ClearRead \/ ClearWrite \/ Call \/ Fill
    BY <2>2, <1>1 DEF ClearRead, ReadChunk, ClearWrite, Call, Fill
  <2>3. CASE TickIdles \/ PutLater \/ Put \/ PutRead \/ PutWrite
    BY <2>3, <1>1 DEF TickIdles, PutLater, Put, PutRead, ReadChunk, PutWrite
  <2> QED BY <1>6, <2>1, <2>2, <2>3 DEF Host
<1>7. CASE Signal \/ Type
  BY <1>7, <1>1 DEF Signal, Type
<1>8. ASSUME NEW c \in Sendable, TargetSends(c) PROVE Channel!Next
  <2>1. Channel!Send(c)
    BY <1>8 DEF TargetSends, Channel!Send
  <2> QED BY <2>1 DEF Channel!Next
<1>9. CASE TargetReceives
  <2>1. /\ mem[FromHost] = answers[Len(got) + 1].word
        /\ Len(got) < Len(answers)
    BY <1>9, <1>0 DEF TargetReceives, AnswerInv, Full, TypeOK
  <2>2. Channel!Deliver
    BY <1>9, <2>1 DEF TargetReceives, Channel!Deliver
  <2> QED BY <2>2 DEF Channel!Next
<1> QED
  BY <1>2, <1>3, <1>4, <1>5, <1>6, <1>7, <1>8, <1>9 DEF Next, Host

\* The two words tohost and fromhost implement the channel: for every target
\* program, every chunk size of the backend and every interleaving, commands
\* are taken once and in order, and answers are given once, to the right
\* command, and delivered once and in order.
THEOREM ChannelRefinement == Spec => ImplementsChannel
<1>1. HtifInv /\ [Next]_vars => [Channel!Next]_(Channel!chvars)
  BY ChannelStep
<1> QED
  BY <1>1, ChannelInit, HtifInvariant, PTL
  DEF Spec, ImplementsChannel, Channel!Spec

-------------------------------------------------------------------------------
(* The exit status.                                                          *)

\* Command c asks for exit code e.
AsksFor(c, e) ==
  \/ IsExit(c) /\ e = AsInt(c.payload)
  \/ IsSyscall(c) /\ \E r \in Requests : r.n = "exit" /\ e = AsInt(2 * r.code + 1)

\* An exit code comes from the last command handled, as no other follows it; and
\* without one only a signal ends the loop.
StatusInv ==
  /\ exitcode # 0 => taken # <<>> /\ AsksFor(taken[Len(taken)], exitcode)
  /\ pc = "call" => IsSyscall(cmd)
  /\ pc \in {"stop", "done"} /\ ~signal_exit => exitcode # 0
  /\ \A a \in Buffers :
       buf[a].n = "exit" => \E r \in Requests : r.n = "exit" /\ r.code = buf[a].code

LEMMA StatusInit == Init => StatusInv
BY DEF Init, StatusInv

LEMMA StatusStep == HtifInv /\ StatusInv /\ [Next]_vars => StatusInv'
<1> SUFFICES ASSUME HtifInv, StatusInv, [Next]_vars PROVE StatusInv'
  OBVIOUS
<1> USE DEF prog, memory, devices, status, term, hist, Goto
<1>0. TypeOK /\ StatusInv
  BY DEF HtifInv
<1>1. ASSUME UNCHANGED <<exitcode, taken, buf, cmd>>,
             signal_exit' = signal_exit \/ signal_exit',
             pc' = pc \/ pc' \notin {"call", "stop", "done"}
      PROVE  StatusInv'
  BY <1>0, <1>1 DEF StatusInv
<1>2. CASE UNCHANGED vars
  BY <1>2, <1>1 DEF vars
<1>3. CASE Host
  <2>1. CASE Start \/ Spin \/ Idle
    BY <2>1, <1>1 DEF Start, Spin, Idle
  <2>2. CASE Fetch
    BY <2>2, <1>0 DEF Fetch, StatusInv
  <2>3. CASE Leave
    BY <2>3, <1>0 DEF Leave, Running, StatusInv
  <2>4. CASE Stop
    BY <2>4, <1>0 DEF Stop, StatusInv
  <2>5. CASE ClearRead \/ ClearWrite
    BY <2>5, <1>1 DEF ClearRead, ReadChunk, ClearWrite
  <2>6. CASE HandleCommand
    <3>1. /\ pc = "handle" /\ taken' = Append(taken, cmd)
          /\ UNCHANGED <<buf, cmd, signal_exit>>
          /\ pc' \notin {"stop", "done"}
          /\ pc' = "call" => IsSyscall(cmd)
          /\ \/ UNCHANGED exitcode
             \/ IsExit(cmd) /\ exitcode' = AsInt(cmd.payload)
      BY <2>6 DEF HandleCommand, HandleNull, HandleIdentify, HandleExit,
        HandleSyscall, HandleRead, HandlePrint, Handle
    <3>2. exitcode = 0
      BY <3>1 DEF HtifInv, ExitInv
    <3>3. taken' # <<>> /\ taken'[Len(taken')] = cmd
      <4>1. taken \in Seq(Sendable) /\ Len(taken) \in Nat
        BY <1>0 DEF TypeOK
      <4>2. Len(taken') = Len(taken) + 1 /\ taken'[Len(taken) + 1] = cmd
        BY <3>1, <4>1
      <4> QED BY <4>1, <4>2
    <3>4. exitcode' # 0 => AsksFor(cmd, exitcode')
      BY <3>1, <3>2 DEF AsksFor
    <3>5. exitcode' # 0 => taken' # <<>> /\ AsksFor(taken'[Len(taken')], exitcode')
      BY <3>3, <3>4
    <3> QED BY <3>1, <3>5, <1>0 DEF StatusInv
  <2>7. CASE Call
    <3> DEFINE r == buf[Buffer(cmd)]
    <3>1. /\ pc = "call" /\ pc' \in {"fill", "dead"}
          /\ exitcode' = (IF r.n = "exit" THEN AsInt(2 * r.code + 1) ELSE exitcode)
          /\ UNCHANGED <<taken, buf, cmd, signal_exit>>
      BY <2>7 DEF Call
    <3>2. /\ exitcode = 0 /\ taken # <<>> /\ cmd = taken[Len(taken)]
          /\ HasBuffer(cmd) /\ IsSyscall(cmd)
      BY <3>1, <1>0 DEF HtifInv, ExitInv, PendingInv, StatusInv
    <3>3. Buffer(cmd) \in Buffers
      <4>1. cmd \in Sendable
        BY <3>2, <1>0, SeqElement DEF TypeOK
      <4> QED BY <3>2, <4>1 DEF Buffers
    <3>4. r.n = "exit" => \E q \in Requests : q.n = "exit" /\ q.code = r.code
      BY <3>3, <1>0 DEF StatusInv
    <3> HIDE DEF r
    <3>5. exitcode' # 0 => AsksFor(cmd, exitcode')
      BY <3>1, <3>2, <3>4 DEF AsksFor
    <3>6. exitcode' # 0 => taken' # <<>> /\ AsksFor(taken'[Len(taken')], exitcode')
      BY <3>1, <3>2, <3>5
    <3> QED BY <3>1, <3>6, <1>0 DEF StatusInv
  <2>8. CASE Fill
    <3>1. /\ pc' = "respond" /\ UNCHANGED <<exitcode, taken, signal_exit>>
          /\ buf' = [buf EXCEPT ![Buffer(cmd)].reply = cmd]
      BY <2>8 DEF Fill
    <3>2. \A a \in Buffers : buf'[a].n = buf[a].n /\ buf'[a].code = buf[a].code
      <4>1. buf \in [Buffers -> [n : {"exit", "other", "bad"}, code : Nat,
                                reply : Sendable \cup {Zero}]]
        BY <1>0 DEF TypeOK
      <4> TAKE a \in Buffers
      <4>2. CASE a = Buffer(cmd)
        <5>1. buf'[a] = [buf[a] EXCEPT !.reply = cmd]
          BY <3>1, <4>1, <4>2
        <5>2. buf[a] \in [n : {"exit", "other", "bad"}, code : Nat,
                          reply : Sendable \cup {Zero}]
          BY <4>1
        <5> QED BY <5>1, <5>2
      <4>3. CASE a # Buffer(cmd)
        BY <3>1, <4>1, <4>3
      <4> QED BY <4>2, <4>3
    <3> QED BY <3>1, <3>2, <1>0 DEF StatusInv
  <2>9. CASE Respond \/ TickAnswers \/ TickIdles
    BY <2>9, <1>1 DEF Respond, TickAnswers, TickIdles
  <2>10. CASE PutLater \/ Put \/ PutRead \/ PutWrite
    BY <2>10, <1>1 DEF PutLater, Put, PutRead, ReadChunk, PutWrite
  <2> QED
    BY <1>3, <2>1, <2>2, <2>3, <2>4, <2>5, <2>6, <2>7, <2>8, <2>9, <2>10 DEF Host
<1>4. CASE Signal
  BY <1>4, <1>1 DEF Signal
<1>5. CASE Type \/ TargetReceives
  BY <1>5, <1>1 DEF Type, TargetReceives
<1>6. ASSUME NEW c \in Sendable, TargetSends(c) PROVE StatusInv'
  <2>1. UNCHANGED <<exitcode, taken, cmd, pc, signal_exit>>
    BY <1>6 DEF TargetSends
  <2>2. \A a \in Buffers :
          buf'[a].n = "exit" => \E r \in Requests : r.n = "exit" /\ r.code = buf'[a].code
    <3>1. CASE UNCHANGED buf
      BY <3>1, <1>0 DEF StatusInv
    <3>2. ASSUME NEW r \in Requests,
                 buf' = [buf EXCEPT ![Buffer(c)] =
                           [n |-> r.n, code |-> r.code, reply |-> Zero]]
          PROVE  \A a \in Buffers :
                   buf'[a].n = "exit" => \E q \in Requests : q.n = "exit" /\ q.code = buf'[a].code
      <4> TAKE a \in Buffers
      <4>1. CASE a = Buffer(c)
        <5>1. buf'[a].n = r.n /\ buf'[a].code = r.code
          BY <3>2, <4>1, <1>0 DEF TypeOK
        <5> QED BY <5>1
      <4>2. CASE a # Buffer(c)
        <5>1. buf'[a] = buf[a]
          BY <3>2, <4>2, <1>0 DEF TypeOK
        <5> QED BY <5>1, <1>0 DEF StatusInv
      <4> QED BY <4>1, <4>2
    <3>3. CASE buf' = [buf EXCEPT ![Buffer(c)].reply = Zero]
      <4>1. \A a \in Buffers : buf'[a].n = buf[a].n /\ buf'[a].code = buf[a].code
        BY <3>3, <1>0 DEF TypeOK
      <4> QED BY <4>1, <1>0 DEF StatusInv
    <3> QED BY <1>6, <3>1, <3>2, <3>3 DEF TargetSends
  <2> QED BY <2>1, <2>2, <1>0 DEF StatusInv
<1> QED BY <1>2, <1>3, <1>4, <1>5, <1>6 DEF Next

\* A run that no signal ends reports what the last command handled asked for, for
\* every target program; it is a pass only if that was 0 modulo the width of an int.
THEOREM StatusTheorem == Spec => []StatusIsReported
<1>1. StatusInv => StatusIsReported
  <2> SUFFICES ASSUME StatusInv, pc = "done", ~signal_exit PROVE StatusIsReported
    BY DEF StatusIsReported
  <2>1. AsksFor(taken[Len(taken)], exitcode)
    BY DEF StatusInv
  <2> QED BY <2>1 DEF AsksFor, StatusIsReported, ExitStatus
<1> QED BY <1>1, StatusInit, StatusStep, HtifInvariant, PTL DEF Spec

-------------------------------------------------------------------------------
(* The replies in the target's buffers.                                      *)

\* The target has prepared the buffer of its ith command for a later one.
Reused(i) ==
  \E j \in (i + 1)..Len(sent) : HasBuffer(sent[j]) /\ Buffer(sent[j]) = Buffer(sent[i])

\* The reply is there from the moment the answer is queued, not only when the target
\* takes it, and already before.
Replied(i) ==
  i \in 1..Len(sent) /\ HasBuffer(sent[i]) /\ ~Reused(i) =>
    buf[Buffer(sent[i])].reply = sent[i]

ReplyInv ==
  /\ \A k \in 1..Len(answers) : Replied(answers[k].id)
  /\ pc = "respond" => Replied(Len(taken))

LEMMA AnswerId ==
  TypeOK => \A k \in 1..Len(answers) : answers[k].id \in Nat
<1> SUFFICES ASSUME TypeOK, NEW k \in 1..Len(answers) PROVE answers[k].id \in Nat
  OBVIOUS
<1>1. answers \in Seq([id : Nat, word : Word])
  BY DEF TypeOK
<1>2. answers[k] \in [id : Nat, word : Word]
  BY <1>1, SeqElement
<1> QED BY <1>2

LEMMA ReplyInit == Init => ReplyInv
BY DEF Init, ReplyInv

\* The command that is executed is the last one taken, and answers to earlier ones only
\* have gone out.
LEMMA Executing ==
  ASSUME HtifInv, pc \in {"fill", "respond"}
  PROVE  /\ Len(taken) \in 1..Len(sent) /\ cmd = sent[Len(taken)]
         /\ HasBuffer(cmd) /\ Buffer(cmd) \in Buffers /\ cmd \in Sendable
         /\ \A k \in 1..Len(answers) : answers[k].id < Len(taken) /\ answers[k].id \in Nat
<1>1. TypeOK /\ CommandInv /\ PendingInv
  BY DEF HtifInv
<1>2. /\ taken # <<>> /\ cmd = taken[Len(taken)] /\ HasBuffer(cmd)
      /\ \A k \in 1..Len(answers) : answers[k].id < Len(taken)
  BY <1>1 DEF PendingInv
<1>3. Len(taken) \in Nat \ {0} /\ Len(sent) \in Nat
  BY <1>1, <1>2 DEF TypeOK
<1>4. Len(taken) \in 1..Len(sent) /\ taken[Len(taken)] = sent[Len(taken)]
  BY <1>1, <1>3 DEF CommandInv
<1>5. cmd \in Sendable
  BY <1>1, <1>2, <1>4, SeqElement DEF TypeOK
<1>6. \A k \in 1..Len(answers) : answers[k].id \in Nat
  BY <1>1, AnswerId
<1> QED BY <1>2, <1>4, <1>5, <1>6 DEF Buffers

LEMMA ReplyStep == HtifInv /\ ReplyInv /\ [Next]_vars => ReplyInv'
<1> SUFFICES ASSUME HtifInv, ReplyInv, [Next]_vars PROVE ReplyInv'
  OBVIOUS
<1> USE DEF prog, memory, devices, status, term, hist, Goto
<1>0. /\ TypeOK /\ CommandInv /\ PendingInv
      /\ Len(sent) \in Nat /\ Len(taken) \in Nat /\ Len(answers) \in Nat
  BY DEF HtifInv, TypeOK
<1>1. ASSUME UNCHANGED <<sent, buf>>
      PROVE  \A i : Replied(i) => Replied(i)'
  BY <1>1 DEF Replied, Reused
<1>2. ASSUME UNCHANGED <<sent, buf, answers>>, pc' # "respond" \/ UNCHANGED <<pc, taken>>
      PROVE  ReplyInv'
  BY <1>1, <1>2 DEF ReplyInv
<1>7. ASSUME NEW i, Replied(i), UNCHANGED <<sent, buf>>, pc' # "respond",
             Len(answers') = Len(answers) + 1,
             \A k \in 1..Len(answers) : answers'[k] = answers[k],
             answers'[Len(answers) + 1].id = i
      PROVE  ReplyInv'
  <2>1. ASSUME NEW k \in 1..Len(answers') PROVE Replied(answers[k].id)'
    <3>1. PICK j : j = answers'[k].id
      OBVIOUS
    <3>2. Replied(j)
      <4>1. CASE k \in 1..Len(answers)
        BY <4>1, <3>1, <1>7 DEF ReplyInv
      <4>2. CASE k = Len(answers) + 1
        BY <4>2, <3>1, <1>7
      <4> QED BY <4>1, <4>2, <1>7, <1>0
    <3> QED BY <3>1, <3>2, <1>7 DEF Replied, Reused
  <2> QED BY <2>1, <1>7 DEF ReplyInv
<1>3. CASE UNCHANGED vars
  BY <1>3, <1>2 DEF vars
<1>4. CASE Host
  <2>1. CASE Start \/ Spin \/ Idle \/ Fetch \/ Leave \/ Stop
    BY <2>1, <1>2 DEF Start, Spin, Idle, Fetch, Leave, Stop
  <2>2. CASE ClearRead \/ ClearWrite \/ Call
    BY <2>2, <1>2 DEF ClearRead, ReadChunk, ClearWrite, Call
  <2>3. CASE HandleCommand
    BY <2>3, <1>2 DEF HandleCommand, HandleNull, HandleIdentify, HandleExit,
      HandleSyscall, HandleRead, HandlePrint, Handle
  <2>4. CASE Fill
    <3>1. /\ pc = "fill" /\ UNCHANGED <<sent, answers, taken>>
          /\ buf' = [buf EXCEPT ![Buffer(cmd)].reply = cmd]
      BY <2>4 DEF Fill
    <3>2. /\ Len(taken) \in 1..Len(sent) /\ cmd = sent[Len(taken)]
          /\ HasBuffer(cmd) /\ Buffer(cmd) \in Buffers
          /\ \A k \in 1..Len(answers) : answers[k].id < Len(taken) /\ answers[k].id \in Nat
      BY <3>1, Executing
    <3>3. Replied(Len(taken))'
      <4>1. buf'[Buffer(cmd)].reply = cmd
        BY <3>1, <3>2, <1>0 DEF TypeOK
      <4> QED BY <3>1, <3>2, <4>1 DEF Replied
    <3>4. ASSUME NEW k \in 1..Len(answers) PROVE Replied(answers[k].id)'
      <4>1. PICK i \in Nat : i = answers[k].id /\ i < Len(taken)
        BY <3>2
      <4>2. SUFFICES ASSUME i \in 1..Len(sent), HasBuffer(sent[i]), ~Reused(i)
                     PROVE  buf'[Buffer(sent[i])].reply = sent[i]
        BY <3>1, <4>1 DEF Replied, Reused
      <4>3. Buffer(cmd) # Buffer(sent[i])
        <5>1. Len(taken) \in (i + 1)..Len(sent)
          BY <3>2, <4>1, <1>0
        <5> QED BY <5>1, <3>2, <4>2 DEF Reused
      <4>4. buf'[Buffer(sent[i])] = buf[Buffer(sent[i])]
        <5>1. sent[i] \in Sendable
          BY <4>2, <1>0, SeqElement DEF TypeOK
        <5>2. Buffer(sent[i]) \in Buffers
          BY <5>1, <4>2 DEF Buffers
        <5> QED BY <3>1, <4>3, <5>2, <1>0 DEF TypeOK
      <4>5. Replied(i)
        BY <4>1 DEF ReplyInv
      <4> QED BY <4>2, <4>4, <4>5 DEF Replied
    <3> QED BY <3>1, <3>3, <3>4 DEF ReplyInv
  <2>5. CASE Respond
    <3>1. /\ pc = "respond" /\ pc' = "tick" /\ UNCHANGED <<sent, buf>>
          /\ answers' = Append(answers, [id |-> Len(taken), word |-> Response(cmd, 1)])
      BY <2>5 DEF Respond, Push
    <3>2. /\ Len(answers') = Len(answers) + 1
          /\ \A k \in 1..Len(answers) : answers'[k] = answers[k]
          /\ answers'[Len(answers) + 1].id = Len(taken)
      BY <3>1, <1>0 DEF TypeOK
    <3>3. Replied(Len(taken))
      BY <3>1 DEF ReplyInv
    <3> QED BY <3>1, <3>2, <3>3, <1>7
  <2>6. CASE TickAnswers
    <3> DEFINE r == Head(pending_reads)
               w == Response(r.word, 256 + typed[nread + 1])
    <3>1. /\ pc' = "put" /\ UNCHANGED <<sent, buf>> /\ pending_reads # <<>>
          /\ answers' = Append(answers, [id |-> r.id, word |-> w])
      BY <2>6 DEF TickAnswers, Push, InputReady
    <3>2. r = pending_reads[1] /\ 1 \in 1..Len(pending_reads)
      BY <3>1, <1>0, HeadTail DEF TypeOK
    <3>3. r.id \in 1..Len(taken) /\ r.word = taken[r.id] /\ IsRead(r.word)
      BY <3>2, <1>0 DEF PendingInv, IsWaiting
    <3>4. IsRead(sent[r.id])
      BY <3>3, <1>0 DEF CommandInv
    <3>5. Replied(r.id)
      BY <3>4 DEF Replied, HasBuffer, IsRead, IsIdentify, IsSyscall, SyscallProxy,
        Bcd, MaxCommands
    <3> HIDE DEF r, w
    <3>6. /\ Len(answers') = Len(answers) + 1
          /\ \A k \in 1..Len(answers) : answers'[k] = answers[k]
          /\ answers'[Len(answers) + 1].id = r.id
      BY <3>1, <1>0 DEF TypeOK
    <3> QED BY <3>1, <3>5, <3>6, <1>7
  <2>7. CASE TickIdles \/ PutLater \/ Put \/ PutRead \/ PutWrite
    BY <2>7, <1>2 DEF TickIdles, PutLater, Put, PutRead, ReadChunk, PutWrite
  <2> QED BY <1>4, <2>1, <2>2, <2>3, <2>4, <2>5, <2>6, <2>7 DEF Host
<1>5. CASE Signal \/ Type \/ TargetReceives
  BY <1>5, <1>2 DEF Signal, Type, TargetReceives
<1>6. ASSUME NEW c \in Sendable, TargetSends(c) PROVE ReplyInv'
  <2>1. UNCHANGED <<pc, answers, taken>>
    BY <1>6 DEF TargetSends
  <2>2. /\ Len(sent') = Len(sent) + 1 /\ sent'[Len(sent) + 1] = c
        /\ \A i \in 1..Len(sent) : sent'[i] = sent[i]
    BY <1>6, <1>0 DEF TargetSends, TypeOK
  <2>3. \A a \in Buffers : ~(HasBuffer(c) /\ Buffer(c) = a) => buf'[a] = buf[a]
    BY <1>6, <1>0 DEF TargetSends, TypeOK, HasBuffer
  <2>4. ASSUME NEW i \in Nat, i <= Len(sent), Replied(i) PROVE Replied(i)'
    <3>1. SUFFICES ASSUME i \in 1..Len(sent), HasBuffer(sent[i]), ~Reused(i)'
                   PROVE  buf'[Buffer(sent[i])].reply = sent[i]
      BY <2>2, <2>4, <1>0 DEF Replied
    <3>2. ~Reused(i)
      <4> SUFFICES ASSUME NEW j \in (i + 1)..Len(sent), HasBuffer(sent[j]),
                          Buffer(sent[j]) = Buffer(sent[i])
                   PROVE  FALSE
        BY DEF Reused
      <4>1. j \in 1..Len(sent) /\ j \in (i + 1)..Len(sent')
        BY <2>2, <1>0
      <4>2. sent'[j] = sent[j] /\ sent'[i] = sent[i]
        BY <2>2, <3>1, <4>1
      <4> QED BY <3>1, <4>1, <4>2 DEF Reused
    <3>3. ~(HasBuffer(c) /\ Buffer(c) = Buffer(sent[i]))
      <4>1. Len(sent) + 1 \in (i + 1)..Len(sent')
        BY <2>2, <2>4, <1>0
      <4>2. sent'[i] = sent[i]
        BY <2>2, <3>1
      <4> QED BY <2>2, <3>1, <4>1, <4>2 DEF Reused
    <3>4. Buffer(sent[i]) \in Buffers
      <4>1. sent[i] \in Sendable
        BY <3>1, <1>0, SeqElement DEF TypeOK
      <4> QED BY <3>1, <4>1 DEF Buffers
    <3> QED BY <2>3, <2>4, <3>1, <3>2, <3>3, <3>4 DEF Replied
  <2>5. \A k \in 1..Len(answers) : answers[k].id \in Nat /\ answers[k].id <= Len(sent)
    <3> TAKE k \in 1..Len(answers)
    <3>1. answers[k].id \in Nat
      BY <1>0, AnswerId
    <3>2. answers[k].id <= Len(taken) /\ Len(taken) <= Len(sent)
      BY <1>0 DEF PendingInv, CommandInv
    <3> QED BY <3>1, <3>2, <1>0
  <2>6. Len(taken) <= Len(sent)
    BY <1>0 DEF CommandInv
  <2>7. ASSUME NEW k \in 1..Len(answers) PROVE Replied(answers[k].id)'
    <3>1. PICK i \in Nat : i = answers[k].id /\ i <= Len(sent)
      BY <2>5
    <3>2. Replied(i)'
      BY <2>4, <3>1 DEF ReplyInv
    <3>3. answers'[k].id = i
      BY <2>1, <3>1
    <3> QED BY <2>1, <3>1, <3>2 DEF Replied, Reused
  <2>8. ASSUME pc = "respond" PROVE Replied(Len(taken))'
    <3>1. PICK i \in Nat : i = Len(taken) /\ i <= Len(sent)
      BY <2>6, <1>0
    <3>2. Replied(i)'
      BY <2>4, <2>8, <3>1 DEF ReplyInv
    <3> QED BY <2>1, <3>1, <3>2 DEF Replied, Reused
  <2> QED BY <2>1, <2>7, <2>8 DEF ReplyInv
<1> QED BY <1>3, <1>4, <1>5, <1>6 DEF Next

\* Whatever is answered, and in whatever order the target prepares its buffers: when it
\* has the answer, the result is in its buffer.
THEOREM ReplyTheorem == Spec => []ReplyReady
<1>1. HtifInv /\ ReplyInv => ReplyReady
  <2> SUFFICES ASSUME HtifInv, ReplyInv, NEW i \in 1..Len(sent),
                      HasBuffer(sent[i]), Delivered(i), ~Reused(i)
               PROVE  buf[Buffer(sent[i])].reply = sent[i]
    BY DEF ReplyReady, Reused
  <2>1. PICK k \in 1..Len(got) : answers[k].id = i
    BY DEF Delivered
  <2>2. k \in 1..Len(answers)
    <3>1. Len(got) \in Nat /\ Len(answers) \in Nat /\ Len(fromhost_queue) \in Nat
          /\ Full(FromHost) \in {0, 1}
      BY DEF HtifInv, TypeOK, Full
    <3>2. Len(answers) = Len(got) + Full(FromHost) + Len(fromhost_queue)
      BY DEF HtifInv, AnswerInv
    <3> QED BY <3>1, <3>2
  <2> QED BY <2>1, <2>2 DEF ReplyInv, Replied
<1> QED BY <1>1, ReplyInit, ReplyStep, HtifInvariant, PTL DEF Spec

-------------------------------------------------------------------------------
(* The terminal: places, counted.                                            *)

LEMMA UpToType ==
  ASSUME NEW S, NEW k \in Nat
  PROVE  IsFiniteSet(S \cap (1..k)) /\ UpTo(S, k) \in Nat
<1>1. IsFiniteSet(1..k)
  BY FS_Interval
<1>2. IsFiniteSet(S \cap (1..k))
  BY <1>1, FS_Subset
<1> QED BY <1>2, FS_CardinalityType DEF UpTo

LEMMA UpToZero == \A S : UpTo(S, 0) = 0
<1> TAKE S
<1>1. S \cap (1..0) = {}
  OBVIOUS
<1> QED BY <1>1, FS_EmptySet DEF UpTo

LEMMA UpToNext ==
  ASSUME NEW S, NEW k \in Nat
  PROVE  UpTo(S, k + 1) = UpTo(S, k) + IF k + 1 \in S THEN 1 ELSE 0
<1> DEFINE A == S \cap (1..k)
<1>1. IsFiniteSet(A) /\ k + 1 \notin A
  BY UpToType
<1>2. CASE k + 1 \in S
  <2>1. S \cap (1..k + 1) = A \cup {k + 1}
    BY <1>2
  <2> HIDE DEF A
  <2>2. Cardinality(A \cup {k + 1}) = Cardinality(A) + 1
    BY <1>1, FS_AddElement
  <2> QED BY <1>2, <2>1, <2>2 DEF UpTo, A
<1>3. CASE k + 1 \notin S
  <2>1. S \cap (1..k + 1) = A
    BY <1>3
  <2>2. UpTo(S, k + 1) = UpTo(S, k)
    BY <2>1 DEF UpTo
  <2>3. UpTo(S, k) \in Nat
    BY UpToType
  <2> QED BY <1>3, <2>2, <2>3
<1> QED BY <1>2, <1>3

\* A place comes after those that precede it.
LEMMA UpToMonotone ==
  ASSUME NEW S, NEW j \in Nat, NEW k \in Nat
  PROVE  /\ j <= k => UpTo(S, j) <= UpTo(S, k)
         /\ j < k /\ k \in S => UpTo(S, j) < UpTo(S, k)
<1>1. ASSUME NEW m \in Nat, NEW n \in Nat, m <= n PROVE UpTo(S, m) <= UpTo(S, n)
  <2>1. S \cap (1..m) \subseteq S \cap (1..n)
    BY <1>1
  <2>2. IsFiniteSet(S \cap (1..n))
    BY UpToType
  <2> QED BY <2>1, <2>2, FS_Subset DEF UpTo
<1>2. ASSUME j < k, k \in S PROVE UpTo(S, j) < UpTo(S, k)
  <2>1. k - 1 \in Nat /\ j <= k - 1 /\ (k - 1) + 1 = k
    BY <1>2
  <2>2. UpTo(S, k) = UpTo(S, k - 1) + 1
    BY <2>1, <1>2, UpToNext
  <2>3. UpTo(S, j) <= UpTo(S, k - 1)
    BY <2>1, <1>1
  <2>4. UpTo(S, j) \in Nat /\ UpTo(S, k - 1) \in Nat
    BY <2>1, UpToType
  <2> QED BY <2>2, <2>3, <2>4
<1> QED BY <1>1, <1>2

\* What a new place, or none, at the end of a history changes.
LEMMA UpToGrows ==
  ASSUME NEW l \in Nat, NEW S \in SUBSET (1..l), NEW S2,
         S2 = S \/ S2 = S \cup {l + 1}
  PROVE  /\ \A k \in 1..l : k \in S2 <=> k \in S
         /\ \A k \in 0..l : UpTo(S2, k) = UpTo(S, k)
         /\ UpTo(S2, l + 1) = UpTo(S, l) + IF l + 1 \in S2 THEN 1 ELSE 0
<1>1. \A k \in 1..l : k \in S2 <=> k \in S
  OBVIOUS
<1>2. ASSUME NEW k \in 0..l PROVE UpTo(S2, k) = UpTo(S, k)
  <2>1. S2 \cap (1..k) = S \cap (1..k)
    BY <1>1
  <2> QED BY <2>1 DEF UpTo
<1>3. UpTo(S2, l + 1) = UpTo(S2, l) + IF l + 1 \in S2 THEN 1 ELSE 0
  BY UpToNext
<1>4. UpTo(S2, l) = UpTo(S, l)
  BY <1>2
<1> QED BY <1>1, <1>2, <1>3, <1>4

\* A new answer is to a read command or is not; and so for print commands.
LEMMA ReadsGrow ==
  ASSUME TypeOK, NEW e \in [id : Nat, word : Word], answers' = Append(answers, e)
  PROVE  /\ Len(answers) \in Nat /\ Reads \in SUBSET (1..Len(answers))
         /\ Len(answers') = Len(answers) + 1 /\ answers'[Len(answers) + 1] = e
         /\ \A k \in 1..Len(answers) : answers'[k] = answers[k]
         /\ Reads' = IF IsRead(e.word) THEN Reads \cup {Len(answers) + 1} ELSE Reads
<1>1. answers \in Seq([id : Nat, word : Word]) /\ Len(answers) \in Nat
  BY DEF TypeOK
<1>2. /\ Len(answers') = Len(answers) + 1 /\ answers'[Len(answers) + 1] = e
      /\ \A k \in 1..Len(answers) : answers'[k] = answers[k]
  BY <1>1
<1>3. Reads' = {k \in 1..Len(answers) + 1 : IsRead(answers'[k].word)}
  BY <1>2 DEF Reads, IsRead
<1>4. \A k \in 1..Len(answers) : IsRead(answers'[k].word) <=> IsRead(answers[k].word)
  BY <1>2 DEF IsRead
<1>5. IsRead(answers'[Len(answers) + 1].word) <=> IsRead(e.word)
  BY <1>2 DEF IsRead
<1>6. 1..Len(answers) + 1 = (1..Len(answers)) \cup {Len(answers) + 1}
  BY <1>1
<1>7. Reads' = IF IsRead(e.word) THEN Reads \cup {Len(answers) + 1} ELSE Reads
  BY <1>3, <1>4, <1>5, <1>6 DEF Reads
<1> QED BY <1>1, <1>2, <1>7 DEF Reads

LEMMA PrintsGrow ==
  ASSUME TypeOK, NEW c \in Sendable, sent' = Append(sent, c)
  PROVE  /\ Len(sent) \in Nat /\ Prints \in SUBSET (1..Len(sent))
         /\ Len(sent') = Len(sent) + 1
         /\ \A i \in 1..Len(sent) : sent'[i] = sent[i]
         /\ Prints' = Prints \/ Prints' = Prints \cup {Len(sent) + 1}
<1>1. sent \in Seq(Sendable) /\ Len(sent) \in Nat
  BY DEF TypeOK
<1>2. /\ Len(sent') = Len(sent) + 1 /\ sent'[Len(sent) + 1] = c
      /\ \A i \in 1..Len(sent) : sent'[i] = sent[i]
  BY <1>1
<1>3. Prints' = {i \in 1..Len(sent) + 1 : IsPrint(sent'[i])}
  BY <1>2 DEF Prints, IsPrint
<1>4. \A i \in 1..Len(sent) : IsPrint(sent'[i]) <=> IsPrint(sent[i])
  BY <1>2 DEF IsPrint
<1>5. 1..Len(sent) + 1 = (1..Len(sent)) \cup {Len(sent) + 1}
  BY <1>1
<1>6. Prints' = Prints \/ Prints' = Prints \cup {Len(sent) + 1}
  BY <1>3, <1>4, <1>5 DEF Prints
<1> QED BY <1>1, <1>2, <1>6 DEF Prints

\* Each character that has been read is in the answer to a read command, in order...
ReadsInv ==
  /\ UpTo(Reads, Len(answers)) = nread
  /\ \A k \in Reads : answers[k].word.payload = 256 + typed[UpTo(Reads, k)]

\* ...and the print commands that have been taken have been printed, but for the
\* last one when its write has failed.
PrintsInv ==
  /\ Len(printed) <= UpTo(Prints, Len(taken))
  /\ pc # "dead" => Len(printed) = UpTo(Prints, Len(taken))
  /\ \A i \in Prints : UpTo(Prints, i) <= Len(printed) =>
       printed[UpTo(Prints, i)] = sent[i].payload % 256

TerminalInv == ReadsInv /\ PrintsInv

LEMMA TerminalInit == Init => TerminalInv
<1> SUFFICES ASSUME Init PROVE TerminalInv
  OBVIOUS
<1>1. Reads = {} /\ Prints = {} /\ Len(answers) = 0 /\ Len(taken) = 0
      /\ Len(printed) = 0 /\ nread = 0
  BY DEF Init, Reads, Prints
<1>2. UpTo(Reads, 0) = 0 /\ UpTo(Prints, 0) = 0
  BY UpToZero
<1> QED BY <1>1, <1>2 DEF TerminalInv, ReadsInv, PrintsInv

\* The answer to a read takes the next character.
LEMMA ReadsStep == HtifInv /\ ReadsInv /\ [Next]_vars => ReadsInv'
<1> SUFFICES ASSUME HtifInv, ReadsInv, [Next]_vars PROVE ReadsInv'
  OBVIOUS
<1> USE DEF prog, memory, devices, status, term, hist
<1>0. /\ TypeOK /\ nread \in Nat /\ nread <= Len(typed) /\ Len(typed) \in Nat
      /\ Reads \in SUBSET (1..Len(answers)) /\ Len(answers) \in Nat
  BY DEF HtifInv, TypeOK, Reads
<1>a. ASSUME UNCHANGED <<answers, typed, nread>> PROVE ReadsInv'
  BY <1>a DEF ReadsInv, Reads, IsRead
<1>b. ASSUME NEW k \in Reads PROVE UpTo(Reads, k) \in 1..nread
  <2>1. k \in Nat /\ k <= Len(answers) /\ 0 < k
    BY <1>0
  <2>2. UpTo(Reads, k) <= nread
    BY <2>1, <1>0, UpToMonotone DEF ReadsInv
  <2>3. UpTo(Reads, 0) < UpTo(Reads, k)
    BY <2>1, UpToMonotone
  <2>4. UpTo(Reads, 0) = 0 /\ UpTo(Reads, k) \in Nat
    BY <2>1, UpToZero, UpToType
  <2> QED BY <2>2, <2>3, <2>4, <1>0
<1>1. CASE UNCHANGED vars
  BY <1>1, <1>a DEF vars
<1>2. CASE Respond
  <2> DEFINE e == [id |-> Len(taken), word |-> Response(cmd, 1)]
  <2>1. answers' = Append(answers, e) /\ UNCHANGED <<typed, nread>>
    BY <1>2 DEF Respond, Push
  <2>2. HasBuffer(cmd) /\ cmd \in Sendable /\ Len(taken) \in Nat
    <3>1. pc = "respond" /\ taken # <<>>
      BY <1>2 DEF HtifInv, PendingInv, Respond, Goto
    <3>2. HasBuffer(cmd) /\ cmd = taken[Len(taken)]
      BY <3>1 DEF HtifInv, PendingInv
    <3>3. taken \in Seq(Sendable)
      BY <1>0 DEF TypeOK
    <3> QED BY <3>1, <3>2, <3>3, SeqElement
  <2>3. e \in [id : Nat, word : Word] /\ ~IsRead(e.word)
    <3>1. cmd \in Word
      BY <2>2, ConstantFacts
    <3>2. /\ Response(cmd, 1) \in Word
          /\ Response(cmd, 1).dev = cmd.dev /\ Response(cmd, 1).cmd = cmd.cmd
      BY <3>1, ResponseType
    <3>3. ~(cmd.dev = Bcd /\ cmd.cmd = 0)
      BY <2>2 DEF HasBuffer, IsIdentify, IsSyscall, MaxCommands, Bcd, SyscallProxy
    <3> QED BY <2>2, <3>2, <3>3 DEF IsRead
  <2> HIDE DEF e
  <2>4. /\ Reads' = Reads /\ Len(answers') = Len(answers) + 1
        /\ \A k \in 1..Len(answers) : answers'[k] = answers[k]
    BY <2>1, <2>3, <1>0, ReadsGrow
  <2>5. UpTo(Reads, Len(answers) + 1) = UpTo(Reads, Len(answers))
    <3>1. Len(answers) + 1 \notin Reads
      BY <1>0
    <3>2. UpTo(Reads, Len(answers)) \in Nat
      BY <1>0, UpToType
    <3>3. UpTo(Reads, Len(answers) + 1) = UpTo(Reads, Len(answers)) + 0
      BY <3>1, <1>0, UpToNext
    <3> QED BY <3>2, <3>3
  <2> QED BY <2>1, <2>4, <2>5, <1>0 DEF ReadsInv
<1>3. CASE TickAnswers
  <2> DEFINE r == Head(pending_reads)
             p == 256 + typed[nread + 1]
             e == [id |-> r.id, word |-> Response(r.word, p)]
  <2>1. answers' = Append(answers, e) /\ typed' = typed /\ nread' = nread + 1 /\ InputReady
    BY <1>3 DEF TickAnswers, Push
  <2>2. /\ r \in [id : Nat, word : Sendable] /\ typed[nread + 1] \in Typeable
        /\ IsRead(r.word)
    <3>1. r \in [id : Nat, word : Sendable] /\ typed[nread + 1] \in Typeable
      BY <1>0, <2>1, ReadWord
    <3>2. r = pending_reads[1] /\ 1 \in 1..Len(pending_reads)
      BY <1>0, <2>1, HeadTail DEF InputReady, TypeOK
    <3> QED BY <3>1, <3>2 DEF HtifInv, PendingInv, IsWaiting
  <2>3. p \in Nat /\ r.word \in Word
    <3>1. typed[nread + 1] \in Nat
      BY <2>2, ConstantFacts
    <3>2. r.word \in Sendable
      BY <2>2
    <3> HIDE DEF r
    <3> QED BY <3>1, <3>2, ConstantFacts
  <2> HIDE DEF p
  <2>4. e \in [id : Nat, word : Word] /\ IsRead(e.word) /\ e.word.payload = p
    <3>1. /\ Response(r.word, p) \in Word
          /\ Response(r.word, p).dev = r.word.dev /\ Response(r.word, p).cmd = r.word.cmd
      BY <2>3, ResponseType
    <3>2. Response(r.word, p).payload = p
      BY <2>3 DEF Response, Word
    <3> QED BY <2>2, <3>1, <3>2 DEF IsRead
  <2> HIDE DEF e, r
  <2>5. /\ Reads' = Reads \cup {Len(answers) + 1} /\ Len(answers') = Len(answers) + 1
        /\ answers'[Len(answers) + 1] = e
        /\ \A k \in 1..Len(answers) : answers'[k] = answers[k]
    BY <2>1, <2>4, <1>0, ReadsGrow
  <2>6. /\ \A k \in 0..Len(answers) : UpTo(Reads', k) = UpTo(Reads, k)
        /\ UpTo(Reads', Len(answers) + 1) = nread + 1
    <3> DEFINE l == Len(answers)
    <3>1. l \in Nat /\ Reads \in SUBSET (1..l) /\ Reads' = Reads \cup {l + 1}
      BY <2>5, <1>0
    <3>2. UpTo(Reads, l) = nread
      BY DEF ReadsInv
    <3> HIDE DEF l
    <3>3. /\ \A k \in 0..l : UpTo(Reads', k) = UpTo(Reads, k)
          /\ UpTo(Reads', l + 1) = UpTo(Reads, l) + IF l + 1 \in Reads' THEN 1 ELSE 0
      BY <3>1, UpToGrows
    <3>4. l + 1 \in Reads'
      BY <3>1
    <3>5. UpTo(Reads', l + 1) = nread + 1
      BY <3>2, <3>3, <3>4
    <3> QED BY <3>3, <3>5 DEF l
  <2>7. ASSUME NEW k \in Reads'
        PROVE  answers'[k].word.payload = 256 + typed[UpTo(Reads', k)]
    <3>1. CASE k \in Reads
      <4>1. k \in 1..Len(answers) /\ k \in 0..Len(answers)
        BY <3>1, <1>0
      <4>2. answers'[k] = answers[k] /\ UpTo(Reads', k) = UpTo(Reads, k)
        BY <4>1, <2>5, <2>6
      <4> QED BY <3>1, <4>2 DEF ReadsInv
    <3>2. CASE k = Len(answers) + 1
      BY <3>2, <2>4, <2>5, <2>6 DEF p
    <3> QED BY <3>1, <3>2, <2>5
  <2> QED BY <2>1, <2>5, <2>6, <2>7 DEF ReadsInv
<1>4. CASE Type
  <2>1. /\ UNCHANGED <<answers, nread>> /\ Reads' = Reads
        /\ \A n \in 1..nread : typed'[n] = typed[n]
    BY <1>4, <1>0 DEF Type, TypeOK, Reads, IsRead
  <2> QED BY <2>1, <1>b DEF ReadsInv
<1>5. CASE Host /\ ~Respond /\ ~TickAnswers
  <2>1. CASE Start \/ Spin \/ Idle \/ Fetch \/ Leave \/ Stop
    BY <2>1, <1>a DEF Start, Spin, Idle, Fetch, Leave, Stop
  <2>2. CASE ClearRead \/ ClearWrite \/ Call \/ Fill
    BY <2>2, <1>a DEF ClearRead, ReadChunk, ClearWrite, Call, Fill
  <2>3. CASE HandleCommand
    BY <2>3, <1>a DEF HandleCommand, HandleNull, HandleIdentify, HandleExit,
      HandleSyscall, HandleRead, HandlePrint, Handle
  <2>4. CASE TickIdles \/ PutLater \/ Put \/ PutRead \/ PutWrite
    BY <2>4, <1>a DEF TickIdles, PutLater, Put, PutRead, ReadChunk, PutWrite
  <2> QED BY <1>5, <2>1, <2>2, <2>3, <2>4 DEF Host
<1>6. CASE Signal \/ TargetReceives
  BY <1>6, <1>a DEF Signal, TargetReceives
<1>7. ASSUME NEW c \in Sendable, TargetSends(c) PROVE ReadsInv'
  BY <1>7, <1>a DEF TargetSends
<1> QED BY <1>1, <1>2, <1>3, <1>4, <1>5, <1>6, <1>7 DEF Next

\* A print command that is taken is the next one that has been sent.
LEMMA PrintsStep == HtifInv /\ PrintsInv /\ [Next]_vars => PrintsInv'
<1> SUFFICES ASSUME HtifInv, PrintsInv, [Next]_vars PROVE PrintsInv'
  OBVIOUS
<1> USE DEF prog, memory, devices, status, term, hist, Goto
<1>0. /\ TypeOK /\ Len(taken) \in Nat /\ Len(sent) \in Nat /\ Len(printed) \in Nat
      /\ Len(taken) <= Len(sent) /\ Prints \in SUBSET (1..Len(sent))
      /\ printed \in Seq(Nat) /\ taken \in Seq(Sendable)
  BY DEF HtifInv, TypeOK, CommandInv, Prints
<1>a. ASSUME UNCHANGED <<printed, taken, sent>>, pc' # "dead" => pc # "dead"
      PROVE  PrintsInv'
  BY <1>a DEF PrintsInv, Prints, IsPrint
<1>1. CASE UNCHANGED vars
  BY <1>1, <1>a DEF vars
<1>2. CASE HandleCommand
  <2>1. /\ pc = "handle" /\ taken' = Append(taken, cmd) /\ sent' = sent
        /\ Prints' = Prints
    BY <1>2 DEF HandleCommand, HandleNull, HandleIdentify, HandleExit,
      HandleSyscall, HandleRead, HandlePrint, Handle, Prints, IsPrint
  <2>2. cmd = sent[Len(taken) + 1] /\ Len(taken) + 1 \in 1..Len(sent) /\ cmd \in Sendable
    <3>1. cmd = sent[Len(taken) + 1] /\ Len(taken) < Len(sent)
      BY <2>1, <1>0 DEF HtifInv, CommandInv, Held, Full
    <3>2. Len(taken) + 1 \in 1..Len(sent)
      BY <3>1, <1>0
    <3>3. sent \in Seq(Sendable)
      BY <1>0 DEF TypeOK
    <3> QED BY <3>1, <3>2, <3>3, SeqElement
  <2>3. Len(taken') = Len(taken) + 1
    <3>1. cmd \in Sendable
      BY <2>2
    <3> QED BY <2>1, <3>1, <1>0
  <2>4. /\ Len(printed) = UpTo(Prints, Len(taken))
        /\ UpTo(Prints, Len(taken) + 1) = Len(printed) + IF IsPrint(cmd) THEN 1 ELSE 0
    <3>1. Len(taken) + 1 \in Prints <=> IsPrint(cmd)
      BY <2>2 DEF Prints
    <3>2. Len(printed) = UpTo(Prints, Len(taken))
      BY <2>1 DEF PrintsInv
    <3> QED BY <3>1, <3>2, <1>0, UpToNext
  <2>5. CASE HandlePrint /\ printed' = Append(printed, cmd.payload % 256)
    <3>1. cmd.payload % 256 \in Nat
      BY <2>2, ConstantFacts, WordFields
    <3>2. IsPrint(cmd) /\ Len(printed') = Len(printed) + 1
          /\ printed'[Len(printed) + 1] = cmd.payload % 256
          /\ \A n \in 1..Len(printed) : printed'[n] = printed[n]
      BY <2>5, <3>1, <1>0 DEF HandlePrint
    <3>3. ASSUME NEW i \in Prints, UpTo(Prints, i) <= Len(printed')
          PROVE  printed'[UpTo(Prints, i)] = sent[i].payload % 256
      <4>1. i \in Nat /\ 0 < i /\ UpTo(Prints, i) \in Nat /\ UpTo(Prints, i) > 0
        <5>1. i \in Nat /\ 0 < i
          BY <1>0
        <5>2. UpTo(Prints, 0) < UpTo(Prints, i)
          BY <5>1, UpToMonotone
        <5> QED BY <5>1, <5>2, UpToZero, UpToType
      <4>2. CASE UpTo(Prints, i) <= Len(printed)
        BY <4>1, <4>2, <3>2, <1>0 DEF PrintsInv
      <4>3. CASE UpTo(Prints, i) = Len(printed) + 1
        <5>1. i = Len(taken) + 1
          <6>1. ~(i < Len(taken) + 1)
            <7>1. Len(taken) + 1 \in Prints
              BY <2>2, <3>2 DEF Prints
            <7>2. i < Len(taken) + 1 => UpTo(Prints, i) < UpTo(Prints, Len(taken) + 1)
              BY <7>1, <4>1, <1>0, UpToMonotone
            <7> QED BY <7>2, <4>3, <2>4, <3>2, <4>1, <1>0
          <6>2. ~(Len(taken) + 1 < i)
            <7>1. Len(taken) + 1 < i => UpTo(Prints, Len(taken) + 1) < UpTo(Prints, i)
              BY <4>1, <1>0, UpToMonotone
            <7> QED BY <7>1, <4>3, <2>4, <3>2, <4>1, <1>0
          <6> QED BY <6>1, <6>2, <4>1, <1>0
        <5> QED BY <5>1, <4>3, <3>2, <2>2
      <4> QED BY <4>1, <4>2, <4>3, <3>2, <3>3, <1>0
    <3> QED BY <3>2, <3>3, <2>1, <2>3, <2>4, <1>0 DEF PrintsInv
  <2>6. CASE printed' = printed /\ (pc' # "dead" => ~IsPrint(cmd))
    <3>1. Len(printed) <= UpTo(Prints, Len(taken) + 1)
      BY <2>4, <1>0
    <3>2. pc' # "dead" => Len(printed) = UpTo(Prints, Len(taken) + 1)
      BY <2>4, <2>6, <1>0
    <3> QED BY <3>1, <3>2, <2>1, <2>3, <2>6 DEF PrintsInv
  <2>7. CASE HandlePrint
    BY <2>5, <2>6, <2>7 DEF HandlePrint, Handle
  <2>8. CASE ~HandlePrint
    <3>1. HandleNull \/ HandleIdentify \/ HandleExit \/ HandleSyscall \/ HandleRead
      BY <1>2, <2>8 DEF HandleCommand
    <3>2. printed' = printed
      BY <3>1 DEF HandleNull, HandleIdentify, HandleExit, HandleSyscall, HandleRead
    <3>3. ~IsPrint(cmd)
      BY <3>1 DEF HandleNull, HandleIdentify, HandleExit, HandleSyscall, HandleRead,
        IsNull, IsIdentify, IsExit, IsSyscall, IsRead, IsPrint, MaxCommands, Bcd,
        SyscallProxy
    <3> QED BY <3>2, <3>3, <2>6
  <2> QED BY <2>7, <2>8
<1>3. CASE Host /\ ~HandleCommand
  <2>1. CASE Start \/ Spin \/ Idle \/ Fetch \/ Leave \/ Stop
    BY <2>1, <1>a DEF Start, Spin, Idle, Fetch, Leave, Stop
  <2>2. CASE ClearRead \/ ClearWrite \/ Call \/ Fill \/ Respond
    BY <2>2, <1>a DEF ClearRead, ReadChunk, ClearWrite, Call, Fill, Respond
  <2>3. CASE TickAnswers \/ TickIdles \/ PutLater \/ Put \/ PutRead \/ PutWrite
    BY <2>3, <1>a
    DEF TickAnswers, TickIdles, PutLater, Put, PutRead, ReadChunk, PutWrite
  <2> QED BY <1>3, <2>1, <2>2, <2>3 DEF Host
<1>4. CASE Signal \/ Type \/ TargetReceives
  BY <1>4, <1>a DEF Signal, Ended, Type, TargetReceives
<1>5. ASSUME NEW c \in Sendable, TargetSends(c) PROVE PrintsInv'
  <2>1. sent' = Append(sent, c) /\ UNCHANGED <<printed, taken, pc>>
    BY <1>5 DEF TargetSends
  <2>2. /\ Len(sent') = Len(sent) + 1
        /\ \A i \in 1..Len(sent) : sent'[i] = sent[i]
        /\ Prints' = Prints \/ Prints' = Prints \cup {Len(sent) + 1}
    BY <2>1, <1>0, PrintsGrow
  <2>3. /\ \A k \in 1..Len(sent) : k \in Prints' <=> k \in Prints
        /\ \A k \in 0..Len(sent) : UpTo(Prints', k) = UpTo(Prints, k)
        /\ UpTo(Prints', Len(sent) + 1) =
             UpTo(Prints, Len(sent)) + IF Len(sent) + 1 \in Prints' THEN 1 ELSE 0
    BY <2>2, <1>0, UpToGrows
  <2>4. UpTo(Prints', Len(taken)) = UpTo(Prints, Len(taken))
    BY <2>3, <1>0
  <2>5. Len(printed) <= UpTo(Prints, Len(sent))
    <3>1. UpTo(Prints, Len(taken)) <= UpTo(Prints, Len(sent))
      BY <1>0, UpToMonotone
    <3>2. UpTo(Prints, Len(taken)) \in Nat /\ UpTo(Prints, Len(sent)) \in Nat
      BY <1>0, UpToType
    <3>3. Len(printed) <= UpTo(Prints, Len(taken))
      BY DEF PrintsInv
    <3> QED BY <3>1, <3>2, <3>3, <1>0
  <2>6. ASSUME NEW i \in Prints', UpTo(Prints', i) <= Len(printed)
        PROVE  printed[UpTo(Prints', i)] = sent'[i].payload % 256
    <3>1. CASE i \in Prints
      BY <3>1, <2>2, <2>3, <2>6, <1>0 DEF PrintsInv
    <3>2. CASE i = Len(sent) + 1
      <4>1. UpTo(Prints', i) = UpTo(Prints, Len(sent)) + 1
        BY <3>2, <2>3
      <4>2. UpTo(Prints, Len(sent)) \in Nat
        BY <1>0, UpToType
      <4> QED BY <4>1, <4>2, <2>5, <2>6, <1>0
    <3> QED BY <3>1, <3>2, <2>2
  <2> QED BY <2>1, <2>4, <2>6 DEF PrintsInv
<1> QED BY <1>1, <1>2, <1>3, <1>4, <1>5 DEF Next

\* Whatever is typed and sent, and whenever: the nth read command that is answered
\* gets the nth character, and the characters appear in the order of their commands.
THEOREM TerminalTheorem == Spec => []TerminalInOrder
<1>1. HtifInv /\ TerminalInv => TerminalInOrder
  <2> SUFFICES ASSUME HtifInv, TerminalInv PROVE TerminalInOrder
    OBVIOUS
  <2>1. Len(taken) \in Nat /\ Len(sent) \in Nat /\ Len(taken) <= Len(sent)
        /\ Len(printed) \in Nat
    BY DEF HtifInv, TypeOK, CommandInv
  <2>2. UpTo(Prints, Len(taken)) <= UpTo(Prints, Len(sent))
    BY <2>1, UpToMonotone
  <2>3. Len(printed) <= UpTo(Prints, Len(sent))
    <3>1. UpTo(Prints, Len(taken)) \in Nat /\ UpTo(Prints, Len(sent)) \in Nat
      BY <2>1, UpToType
    <3>2. Len(printed) <= UpTo(Prints, Len(taken))
      BY DEF TerminalInv, PrintsInv
    <3> QED BY <3>1, <3>2, <2>1, <2>2
  <2> QED BY <2>3 DEF TerminalInv, ReadsInv, PrintsInv, TerminalInOrder
<1>2. HtifInv /\ TerminalInv /\ [Next]_vars => TerminalInv'
  BY ReadsStep, PrintsStep DEF TerminalInv
<1> QED BY <1>1, <1>2, TerminalInit, HtifInvariant, PTL DEF Spec
===============================================================================
