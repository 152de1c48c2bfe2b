----------------------------- MODULE HtifChannel -----------------------------
(***************************************************************************)
(* What the host-target interface promises a program on the target: every  *)
(* command it sends is taken once and in order; a command is answered at   *)
(* most once, with its own device and command number, and commands with    *)
(* the same numbers are answered in the order they were sent (the target   *)
(* has nothing else to tell their answers apart); and every answer is      *)
(* delivered once, in the order the devices gave them.                     *)
(***************************************************************************)
EXTENDS Naturals, Sequences

CONSTANTS
  Commands,  \* the command words of the target
  Answers    \* the answer words of the devices

VARIABLES
  sent,      \* the command words the target has sent
  taken,     \* those the host has passed to a device
  answers,   \* the answers of the devices, with the index of their command
  got        \* the answer words the target has received

chvars == <<sent, taken, answers, got>>

\* The tag of a word: its device and command numbers.
SameTag(v, w) == v.dev = w.dev /\ v.cmd = w.cmd

Init == sent = <<>> /\ taken = <<>> /\ answers = <<>> /\ got = <<>>

Send(c) ==
  /\ sent' = Append(sent, c)
  /\ UNCHANGED <<taken, answers, got>>

Take ==
  /\ Len(taken) < Len(sent)
  /\ taken' = Append(taken, sent[Len(taken) + 1])
  /\ UNCHANGED <<sent, answers, got>>

Answer(i, w) ==
  /\ SameTag(w, taken[i])
  /\ \A k \in 1..Len(answers) :
       SameTag(answers[k].word, w) => answers[k].id < i
  /\ answers' = Append(answers, [id |-> i, word |-> w])
  /\ UNCHANGED <<sent, taken, got>>

Deliver ==
  /\ Len(got) < Len(answers)
  /\ got' = Append(got, answers[Len(got) + 1].word)
  /\ UNCHANGED <<sent, taken, answers>>

Next ==
  \/ \E c \in Commands : Send(c)
  \/ Take
  \/ \E i \in 1..Len(taken), w \in Answers : Answer(i, w)
  \/ Deliver

Spec == Init /\ [][Next]_chvars

===============================================================================
