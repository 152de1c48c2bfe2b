------------------------------ MODULE Coroutine ------------------------------
(***************************************************************************)
(* What context_t promises its callers: symmetric coroutines.  Exactly one *)
(* context executes at any time, and control moves only when the context   *)
(* that has it says where it goes.  This is also, action for action, the   *)
(* ucontext build of context.cc (USE_UCONTEXT), where swapcontext saves    *)
(* the caller and enters the callee in one step of one OS thread.          *)
(***************************************************************************)

CONSTANTS
  Contexts,   \* the context_t objects the program may create
  Root        \* the context current() makes for the thread of main()

VARIABLES
  cur,        \* the context that executes (the thread-local `cur')
  created,    \* the contexts on which init() has been called, and Root
  booting,    \* the contexts inside wrapper(), before the hand-back
  creator     \* creator[c]: the context whose init() call made c

cvars == <<cur, created, booting, creator>>

Init ==
  /\ cur = Root
  /\ created = {Root}
  /\ booting = {}
  /\ creator = [c \in Contexts |-> Root]

\* init(f, a): the new context c is entered, in wrapper(), at once.
Create(c) ==
  /\ cur \notin booting
  /\ c \notin created
  /\ created' = created \cup {c}
  /\ booting' = booting \cup {c}
  /\ creator' = [creator EXCEPT ![c] = cur]
  /\ cur' = c

\* wrapper() goes straight back to the creator: init() returns there before
\* any line of f has run.
HandBack ==
  /\ cur \in booting
  /\ booting' = booting \ {cur}
  /\ cur' = creator[cur]
  /\ UNCHANGED <<created, creator>>

\* c.switch_to(), with the precondition its assertion states.
SwitchTo(c) ==
  /\ cur \notin booting
  /\ c \in created \ {cur}
  /\ cur' = c
  /\ UNCHANGED <<created, booting, creator>>

Next ==
  \/ \E c \in Contexts : Create(c) \/ SwitchTo(c)
  \/ HandBack

Spec == Init /\ [][Next]_cvars

===============================================================================
