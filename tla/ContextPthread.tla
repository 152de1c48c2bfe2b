---------------------------- MODULE ContextPthread ----------------------------
(***************************************************************************)
(* The pthread build of context_t (context.cc, not USE_UCONTEXT): every    *)
(* context is an OS thread, and a coroutine switch is a hand-off through   *)
(* the `flag', `mutex' and `cond' of the two contexts.  The two stores to  *)
(* the flags are made WITHOUT the mutex, so each store, lock, signal, test *)
(* and wait is a step of its own here, and threads interleave freely       *)
(* between them.  Stores take effect in program order, as they do for      *)
(* volatile accesses on a TSO machine.  Condition variables may wake up    *)
(* spuriously.                                                             *)
(***************************************************************************)
CONSTANTS
  Contexts,   \* the context_t objects the program may create
  Root,       \* the context current() makes for the thread of main()
  NoContext   \* the owner of a free mutex

ASSUME ContextAssumption ==
  /\ Root \in Contexts
  /\ NoContext \notin Contexts

VARIABLES
  pc,         \* where each context's thread is
  dest,       \* dest[t]: the context t's current init/switch_to call is on
  creator,    \* creator[t]: the context whose init() made t
  booting,    \* contexts whose thread has not yet handed back to its creator
  flag,       \* flag[t]: t has been told to run
  owner,      \* owner[t]: the thread that holds t's mutex
  asleep      \* threads blocked in pthread_cond_wait on their own cond

handoffvars == <<pc, dest, creator, booting, flag, owner, asleep>>

\* A thread waits only on the cond and the mutex of its own context.
Locations ==
  {"none",                                  \* init() not called yet
   "user",                                  \* in the code around context_t
   "initLock", "initClear", "initCreate",   \* init()
   "wrapper",                               \* wrapper(), before switch_to
   "clearOwn", "setDest", "lockDest",       \* switch_to()
   "signalDest", "unlockDest", "lockOwn",
   "test", "block", "relock"}               \* while (!flag) cond_wait

\* The types, and that only a thread inside pthread_cond_wait is blocked there.
HandoffTypeOK ==
  /\ pc \in [Contexts -> Locations]
  /\ dest \in [Contexts -> Contexts]
  /\ creator \in [Contexts -> Contexts]
  /\ booting \in SUBSET Contexts
  /\ flag \in [Contexts -> BOOLEAN]
  /\ owner \in [Contexts -> Contexts \cup {NoContext}]
  /\ asleep \subseteq Contexts
  /\ \A t \in asleep : pc[t] = "block"

\* Root's context is made by current(): it runs, its flag is 1.
HandoffInit ==
  /\ pc = [t \in Contexts |-> IF t = Root THEN "user" ELSE "none"]
  /\ dest = [t \in Contexts |-> t]
  /\ creator = [t \in Contexts |-> Root]
  /\ booting = {}
  /\ flag = [t \in Contexts |-> t = Root]
  /\ owner = [t \in Contexts |-> NoContext]
  /\ asleep = {}

Goto(t, from, to) ==
  /\ pc[t] = from
  /\ pc' = [pc EXCEPT ![t] = to]

Lock(m, t) ==
  /\ owner[m] = NoContext
  /\ owner' = [owner EXCEPT ![m] = t]

Unlock(m) == owner' = [owner EXCEPT ![m] = NoContext]

-------------------------------------------------------------------------------
(* context_t::init, executed by t on a context c that does not exist yet. *)

CallInit(t, c) ==
  /\ pc[c] = "none"
  /\ Goto(t, "user", "initLock")
  /\ dest' = [dest EXCEPT ![t] = c]
  /\ UNCHANGED <<creator, booting, flag, owner, asleep>>

InitLock(t) ==
  /\ Goto(t, "initLock", "initClear")
  /\ Lock(t, t)
  /\ UNCHANGED <<dest, creator, booting, flag, asleep>>

\* A bug: the store `creator->flag = 0' is forgotten.
InitClearForgotten(t) ==
  /\ Goto(t, "initClear", "initCreate")
  /\ UNCHANGED <<dest, creator, booting, flag, owner, asleep>>

InitClear(t) ==
  /\ Goto(t, "initClear", "initCreate")
  /\ flag' = [flag EXCEPT ![t] = FALSE]
  /\ UNCHANGED <<dest, creator, booting, owner, asleep>>

\* pthread_create starts the new thread; its creator goes to wait for its flag.
InitCreate(t) ==
  /\ pc[t] = "initCreate"
  /\ pc' = [pc EXCEPT ![t] = "test", ![dest[t]] = "wrapper"]
  /\ creator' = [creator EXCEPT ![dest[t]] = t]
  /\ booting' = booting \cup {dest[t]}
  /\ UNCHANGED <<dest, flag, owner, asleep>>

\* wrapper(): cur = ctx; ctx->creator->switch_to().
WrapperSwitch(t) ==
  /\ Goto(t, "wrapper", "clearOwn")
  /\ dest' = [dest EXCEPT ![t] = creator[t]]
  /\ UNCHANGED <<creator, booting, flag, owner, asleep>>

-------------------------------------------------------------------------------
(* context_t::switch_to, executed by t on the context c = dest[t]. *)

CallSwitchTo(t, c) ==
  /\ c # t
  /\ pc[c] # "none"
  /\ Goto(t, "user", "clearOwn")
  /\ dest' = [dest EXCEPT ![t] = c]
  /\ UNCHANGED <<creator, booting, flag, owner, asleep>>

\* A bug: the store `cur->flag = 0' is forgotten.
ClearOwnForgotten(t) ==
  /\ Goto(t, "clearOwn", "setDest")
  /\ UNCHANGED <<dest, creator, booting, flag, owner, asleep>>

\* cur->flag = 0, before the other context can be running.
ClearOwn(t) ==
  /\ Goto(t, "clearOwn", "setDest")
  /\ flag' = [flag EXCEPT ![t] = FALSE]
  /\ UNCHANGED <<dest, creator, booting, owner, asleep>>

\* this->flag = 1: from here on the other context may run.
SetDest(t) ==
  /\ Goto(t, "setDest", "lockDest")
  /\ flag' = [flag EXCEPT ![dest[t]] = TRUE]
  /\ booting' = booting \ {t}
  /\ UNCHANGED <<dest, creator, owner, asleep>>

\* A bug: the signal is sent without taking the other context's mutex.
LockDestSkipped(t) ==
  /\ Goto(t, "lockDest", "signalDest")
  /\ UNCHANGED <<dest, creator, booting, flag, owner, asleep>>

LockDest(t) ==
  /\ Goto(t, "lockDest", "signalDest")
  /\ Lock(dest[t], t)
  /\ UNCHANGED <<dest, creator, booting, flag, asleep>>

\* pthread_cond_signal: wakes the one thread that can be waiting there, if any.
SignalDest(t) ==
  /\ pc[t] = "signalDest"
  /\ LET c == dest[t] IN
       /\ asleep' = asleep \ {c}
       /\ pc' = [pc EXCEPT ![t] = "unlockDest",
                           ![c] = IF c \in asleep THEN "relock" ELSE @]
  /\ UNCHANGED <<dest, creator, booting, flag, owner>>

UnlockDest(t) ==
  /\ Goto(t, "unlockDest", "lockOwn")
  /\ Unlock(dest[t])
  /\ UNCHANGED <<dest, creator, booting, flag, asleep>>

LockOwn(t) ==
  /\ Goto(t, "lockOwn", "test")
  /\ Lock(t, t)
  /\ UNCHANGED <<dest, creator, booting, flag, asleep>>

-------------------------------------------------------------------------------
(* while (!flag) pthread_cond_wait(&cond, &mutex); pthread_mutex_unlock():  *)
(* the end of init() and of switch_to().  The test and the wait are two     *)
(* steps: the flag can be set between them.                                 *)

Resume(t) ==
  /\ flag[t]
  /\ Goto(t, "test", "user")
  /\ Unlock(t)
  /\ UNCHANGED <<dest, creator, booting, flag, asleep>>

FlagIsClear(t) ==
  /\ ~flag[t]
  /\ Goto(t, "test", "block")
  /\ UNCHANGED <<dest, creator, booting, flag, owner, asleep>>

\* pthread_cond_wait releases the mutex and blocks in one step.
Block(t) ==
  /\ pc[t] = "block"
  /\ t \notin asleep
  /\ asleep' = asleep \cup {t}
  /\ Unlock(t)
  /\ UNCHANGED <<pc, dest, creator, booting, flag>>

SpuriousWakeup(t) ==
  /\ t \in asleep
  /\ asleep' = asleep \ {t}
  /\ pc' = [pc EXCEPT ![t] = "relock"]
  /\ UNCHANGED <<dest, creator, booting, flag, owner>>

Relock(t) ==
  /\ Goto(t, "relock", "test")
  /\ Lock(t, t)
  /\ UNCHANGED <<dest, creator, booting, flag, asleep>>

-------------------------------------------------------------------------------

\* The steps inside context_t that the thread of t takes on its own.
Run(t) ==
  \/ InitLock(t) \/ InitClear(t) \/ InitCreate(t) \/ WrapperSwitch(t)
  \/ ClearOwn(t) \/ SetDest(t) \/ LockDest(t) \/ SignalDest(t)
  \/ UnlockDest(t) \/ LockOwn(t)
  \/ Resume(t) \/ FlagIsClear(t) \/ Block(t) \/ Relock(t)

HandoffNext ==
  \E t \in Contexts :
    \/ Run(t)
    \/ SpuriousWakeup(t)
    \/ \E c \in Contexts : CallInit(t, c) \/ CallSwitchTo(t, c)

HandoffSpec == HandoffInit /\ [][HandoffNext]_handoffvars

\* The OS runs every runnable thread, and spurious wakeups do not go on for
\* ever.  Nothing obliges a context to give up control.
HandoffFairness ==
  \A t \in Contexts :
    /\ WF_handoffvars(Run(t))
    /\ <>[][~SpuriousWakeup(t)]_handoffvars

FairHandoff == HandoffSpec /\ HandoffFairness

-------------------------------------------------------------------------------
(* t has control: it executes user code, or an init/switch_to call that has *)
(* not yet passed control on, or it has been told to run and is on its way. *)

Suspended ==
  {"none", "lockDest", "signalDest", "unlockDest", "lockOwn", "test", "block",
   "relock"}

HasControl(t) == flag[t] \/ pc[t] \notin Suspended

\* Exactly one context has control: no flag is lost (nobody would run again)
\* and none is set twice (two threads would run).  It is what lets fesvr share
\* its queues between host and target without a lock: each switch_to hands one
\* context's right to run to the other (switch_to, the two unlocked stores).
OneInControl == \E t \in Contexts : \A u \in Contexts : HasControl(u) <=> u = t

\* A context that has been told to run does run: no wakeup is lost, although
\* the flag is stored without the mutex and the waiter may be anywhere between
\* its test of the flag and its wait (switch_to, lines 93-98).
ControlArrives ==
  \A t \in Contexts : flag[t] /\ pc[t] \in Suspended ~> pc[t] = "user"

\* What makes OneInControl inductive: where the contexts named by a call are.
CallInv ==
  \A t \in Contexts :
    /\ pc[t] = "none" => ~flag[t]
    /\ pc[t] \in {"initCreate", "setDest"} => ~flag[t]
    /\ pc[t] \in {"initLock", "initClear", "initCreate"} => pc[dest[t]] = "none"
    /\ pc[t] \in {"clearOwn", "setDest"} => dest[t] # t /\ pc[dest[t]] # "none"
    /\ pc[t] = "wrapper" => t \in booting
    /\ t \in booting =>
         /\ pc[t] \in {"wrapper", "clearOwn", "setDest"}
         /\ pc[t] # "wrapper" => dest[t] = creator[t]
         /\ creator[t] # t
         /\ pc[creator[t]] # "none"

HandoffInv == HandoffTypeOK /\ OneInControl /\ CallInv

\* The hand-off implements atomic coroutine switches.
Abstract == INSTANCE Coroutine WITH
  cur <- CHOOSE t \in Contexts : HasControl(t),
  created <- {t \in Contexts : pc[t] # "none"}

ImplementsCoroutine == Abstract!Spec

===============================================================================
