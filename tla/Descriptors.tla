------------------------------- MODULE Descriptors -----------------------------
(***************************************************************************)
(* What the system call proxy promises the target program about its file   *)
(* numbers: an open takes the lowest free number, every use of a number    *)
(* reaches the file it was opened as until it is closed, and nothing else  *)
(* in the host process changes that.  A close that reports an error leaves *)
(* the number in doubt: the program must not name it again, and the        *)
(* promise ends (void) if it does.                                         *)
(***************************************************************************)
EXTENDS Integers, Sequences

VARIABLES
  tab,     \* the file behind each number, Closed or Doubtful; number n is tab[n + 1]
  last,    \* the file opened last: files are numbered
  seen,    \* the file that the last call reached (Closed: none)
  void

vars == <<tab, last, seen, void>>

Closed == 0
Doubtful == -1

\* Standard input, and standard output twice.
Init ==
  /\ tab = <<1, 2, 2>>
  /\ last \in Nat \ {0, 1, 2}
  /\ seen = Closed /\ void = FALSE

LowestFree(i) ==
  /\ i \in 1..Len(tab) + 1
  /\ i <= Len(tab) => tab[i] = Closed
  /\ \A j \in 1..i - 1 : tab[j] # Closed

Open ==
  /\ ~void
  /\ last' > last
  /\ \E i \in 1..Len(tab) + 1 :
       /\ LowestFree(i)
       /\ tab' = IF i <= Len(tab) THEN [tab EXCEPT ![i] = last'] ELSE Append(tab, last')
  /\ seen' = last'
  /\ UNCHANGED void

\* Any call on number i - 1 but a close.
Use ==
  /\ ~void
  /\ \E i \in DOMAIN tab : tab[i] # Doubtful /\ seen' = tab[i]
  /\ UNCHANGED <<tab, last, void>>

Close ==
  /\ ~void
  /\ \E i \in DOMAIN tab :
       /\ tab[i] \notin {Closed, Doubtful}
       /\ \E result \in {Closed, Doubtful} : tab' = [tab EXCEPT ![i] = result]
  /\ seen' = Closed
  /\ UNCHANGED <<last, void>>

\* Calls that fail or name no open file, and what goes on elsewhere in the process.
Other ==
  /\ ~void
  /\ seen' = Closed /\ last' >= last
  /\ UNCHANGED <<tab, void>>

\* The program names a number that is in doubt.
EndPromise ==
  /\ \E i \in DOMAIN tab : tab[i] = Doubtful
  /\ void' = TRUE /\ tab' = <<>> /\ last' = 0 /\ seen' = Closed

Next == Open \/ Use \/ Close \/ Other \/ EndPromise

Spec == Init /\ [][Next]_vars
===============================================================================
