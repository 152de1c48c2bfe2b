------------------------------ MODULE PthreadProofs ----------------------------
(***************************************************************************)
(* Proofs about the components that use pthreads.                          *)
(*  - context_t, for any set of contexts: exactly one context is in        *)
(*    control, and the hand-off implements atomic coroutine switches.      *)
(*    That control arrives (no wakeup is lost) is a liveness property and  *)
(*    is checked by TLC only.                                              *)
(*  - htif_pthread_t, which hands over control through it: both streams    *)
(*    arrive complete and in order, for any lengths of transfers and any   *)
(*    number of bytes.                                                     *)
(*  - rfb_t, for any sizes, addresses and descriptors: what the run loop   *)
(*    sends goes to a client that has been through the handshake, and is a *)
(*    whole frame.  The first follows from who holds the mutex at each     *)
(*    place of the two threads (LockInv) and what the thread has set up    *)
(*    there (ConnectionInv), the second from how far the run loop has      *)
(*    copied (FillInv).                                                    *)
(***************************************************************************)
EXTENDS ContextPthread, HtifPthread, Rfb, SequenceTheorems, TLAPS

-------------------------------------------------------------------------------
(* The hand-off: its inductive invariant. *)

\* The inductive invariant holds when only the root context exists.
LEMMA HandoffStarts == HandoffInit => HandoffInv
<1> SUFFICES ASSUME HandoffInit PROVE HandoffInv
  OBVIOUS
<1> USE ContextAssumption DEF HandoffInit
<1>1. HandoffTypeOK
  BY DEF HandoffTypeOK, Locations
<1>2. OneInControl
  <2>1. \A u \in Contexts : HasControl(u) <=> u = Root
    BY DEF HasControl, Suspended
  <2> QED BY <2>1 DEF OneInControl
<1>3. CallInv
  BY DEF CallInv
<1> QED BY <1>1, <1>2, <1>3 DEF HandoffInv

\* Every action assigns values of the right types.  A thread that is created
\* was not asleep, since CallInv says that it did not exist.
LEMMA HandoffTypeStep == HandoffTypeOK /\ CallInv /\ [HandoffNext]_handoffvars => HandoffTypeOK'
<1> SUFFICES ASSUME HandoffTypeOK, CallInv, [HandoffNext]_handoffvars PROVE HandoffTypeOK'
  OBVIOUS
<1>1. CASE UNCHANGED handoffvars
  BY <1>1 DEF HandoffTypeOK, handoffvars
<1>2. ASSUME NEW t \in Contexts, Run(t) PROVE HandoffTypeOK'
  <2> USE ContextAssumption DEF HandoffTypeOK, Locations, Goto, Lock, Unlock
  <2>1. CASE InitLock(t)    BY <2>1 DEF InitLock
  <2>2. CASE InitClear(t)   BY <2>2 DEF InitClear
  <2>3. CASE InitCreate(t)  BY <2>3 DEF InitCreate, CallInv
  <2>4. CASE WrapperSwitch(t) BY <2>4 DEF WrapperSwitch
  <2>5. CASE ClearOwn(t)    BY <2>5 DEF ClearOwn
  <2>6. CASE SetDest(t)     BY <2>6 DEF SetDest
  <2>7. CASE LockDest(t)    BY <2>7 DEF LockDest
  <2>8. CASE SignalDest(t)  BY <2>8 DEF SignalDest
  <2>9. CASE UnlockDest(t)  BY <2>9 DEF UnlockDest
  <2>10. CASE LockOwn(t)    BY <2>10 DEF LockOwn
  <2>11. CASE Resume(t)     BY <2>11 DEF Resume
  <2>12. CASE FlagIsClear(t) BY <2>12 DEF FlagIsClear
  <2>13. CASE Block(t)      BY <2>13 DEF Block
  <2>14. CASE Relock(t)     BY <2>14 DEF Relock
  <2> QED
    BY <1>2, <2>1, <2>2, <2>3, <2>4, <2>5, <2>6, <2>7, <2>8, <2>9, <2>10,
       <2>11, <2>12, <2>13, <2>14 DEF Run
<1>3. ASSUME NEW t \in Contexts, SpuriousWakeup(t) PROVE HandoffTypeOK'
  BY <1>3 DEF SpuriousWakeup, HandoffTypeOK, Locations
<1>4. ASSUME NEW t \in Contexts, NEW c \in Contexts, CallInit(t, c)
      PROVE HandoffTypeOK'
  BY <1>4 DEF CallInit, HandoffTypeOK, Locations, Goto
<1>5. ASSUME NEW t \in Contexts, NEW c \in Contexts, CallSwitchTo(t, c)
      PROVE HandoffTypeOK'
  BY <1>5 DEF CallSwitchTo, HandoffTypeOK, Locations, Goto
<1> QED BY <1>1, <1>2, <1>3, <1>4, <1>5 DEF HandoffNext

\* One context is in control after a step, t or the one it hands over to.
LEMMA ControlStep ==
  HandoffInv /\ [HandoffNext]_handoffvars => OneInControl'
<1> SUFFICES ASSUME HandoffInv, [HandoffNext]_handoffvars PROVE OneInControl'
  OBVIOUS
<1> USE DEF HandoffInv, HandoffTypeOK, HasControl, Suspended, Goto, Lock, Unlock
<1>1. PICK h \in Contexts : \A u \in Contexts : HasControl(u) <=> u = h
  BY DEF OneInControl
<1>2. ASSUME \A u \in Contexts : HasControl(u)' <=> HasControl(u)
      PROVE OneInControl'
  BY <1>1, <1>2 DEF OneInControl
<1>3. ASSUME NEW c \in Contexts,
             \A u \in Contexts : HasControl(u)' <=> u = c
      PROVE OneInControl'
  BY <1>3 DEF OneInControl
<1>4. CASE UNCHANGED handoffvars
  BY <1>2, <1>4 DEF handoffvars
<1>5. ASSUME NEW t \in Contexts, Run(t) PROVE OneInControl'
  <2>1. CASE InitLock(t)       BY <2>1, <1>2 DEF InitLock
  <2>2. CASE InitClear(t)      BY <2>2, <1>2 DEF InitClear
  <2>3. CASE InitCreate(t)     \* to the new context
    <3>1. h = t /\ dest[t] # t /\ ~flag[t]
      BY <2>3, <1>1 DEF InitCreate, CallInv
    <3>2. \A u \in Contexts : HasControl(u)' <=> u = dest[t]
      BY <2>3, <3>1, <1>1 DEF InitCreate
    <3> QED BY <3>2, <1>3
  <2>4. CASE WrapperSwitch(t)  BY <2>4, <1>2 DEF WrapperSwitch
  <2>5. CASE ClearOwn(t)       BY <2>5, <1>2 DEF ClearOwn
  <2>6. CASE SetDest(t)        \* to the context that is switched to
    <3>1. h = t /\ dest[t] # t /\ ~flag[t]
      BY <2>6, <1>1 DEF SetDest, CallInv
    <3>2. \A u \in Contexts : HasControl(u)' <=> u = dest[t]
      BY <2>6, <3>1, <1>1 DEF SetDest
    <3> QED BY <3>2, <1>3
  <2>7. CASE LockDest(t)       BY <2>7, <1>2 DEF LockDest
  <2>8. CASE SignalDest(t)     BY <2>8, <1>2 DEF SignalDest
  <2>9. CASE UnlockDest(t)     BY <2>9, <1>2 DEF UnlockDest
  <2>10. CASE LockOwn(t)       BY <2>10, <1>2 DEF LockOwn
  <2>11. CASE Resume(t)        BY <2>11, <1>2 DEF Resume
  <2>12. CASE FlagIsClear(t)   BY <2>12, <1>2 DEF FlagIsClear
  <2>13. CASE Block(t)         BY <2>13, <1>2 DEF Block
  <2>14. CASE Relock(t)        BY <2>14, <1>2 DEF Relock
  <2> QED
    BY <1>5, <2>1, <2>2, <2>3, <2>4, <2>5, <2>6, <2>7, <2>8, <2>9, <2>10,
       <2>11, <2>12, <2>13, <2>14 DEF Run
<1>6. ASSUME NEW t \in Contexts, SpuriousWakeup(t) PROVE OneInControl'
  BY <1>6, <1>2 DEF SpuriousWakeup
<1>7. ASSUME NEW t \in Contexts, NEW c \in Contexts, CallInit(t, c)
      PROVE OneInControl'
  BY <1>7, <1>2 DEF CallInit
<1>8. ASSUME NEW t \in Contexts, NEW c \in Contexts, CallSwitchTo(t, c)
      PROVE OneInControl'
  BY <1>8, <1>2 DEF CallSwitchTo
<1> QED BY <1>4, <1>5, <1>6, <1>7, <1>8 DEF HandoffNext

\* The facts about calls in progress survive: only the one context in control
\* can be in a call, so no other thread moves the contexts that it names.
LEMMA CallStep == HandoffInv /\ [HandoffNext]_handoffvars => CallInv'
<1> SUFFICES ASSUME HandoffInv, [HandoffNext]_handoffvars PROVE CallInv'
  OBVIOUS
<1> USE DEF HandoffInv, HandoffTypeOK, CallInv, Goto, Lock, Unlock
<1>1. \A t, u \in Contexts :
        (flag[t] \/ pc[t] \notin Suspended) /\ (flag[u] \/ pc[u] \notin Suspended)
        => t = u
  BY DEF OneInControl, HasControl
<1>2. CASE UNCHANGED handoffvars
  BY <1>2 DEF handoffvars
<1>3. ASSUME NEW t \in Contexts, Run(t) PROVE CallInv'
  <2> USE <1>1 DEF Suspended
  <2>1. CASE InitLock(t)       BY <2>1 DEF InitLock
  <2>2. CASE InitClear(t)      BY <2>2 DEF InitClear
  <2>3. CASE InitCreate(t)     BY <2>3 DEF InitCreate
  <2>4. CASE WrapperSwitch(t)  BY <2>4 DEF WrapperSwitch
  <2>5. CASE ClearOwn(t)       BY <2>5 DEF ClearOwn
  <2>6. CASE SetDest(t)        BY <2>6 DEF SetDest
  <2>7. CASE LockDest(t)       BY <2>7 DEF LockDest
  <2>8. CASE SignalDest(t)     BY <2>8 DEF SignalDest
  <2>9. CASE UnlockDest(t)     BY <2>9 DEF UnlockDest
  <2>10. CASE LockOwn(t)       BY <2>10 DEF LockOwn
  <2>11. CASE Resume(t)        BY <2>11 DEF Resume
  <2>12. CASE FlagIsClear(t)   BY <2>12 DEF FlagIsClear
  <2>13. CASE Block(t)         BY <2>13 DEF Block
  <2>14. CASE Relock(t)        BY <2>14 DEF Relock
  <2> QED
    BY <1>3, <2>1, <2>2, <2>3, <2>4, <2>5, <2>6, <2>7, <2>8, <2>9, <2>10,
       <2>11, <2>12, <2>13, <2>14 DEF Run
<1>4. ASSUME NEW t \in Contexts, SpuriousWakeup(t) PROVE CallInv'
  BY <1>4 DEF SpuriousWakeup
<1>5. ASSUME NEW t \in Contexts, NEW c \in Contexts, CallInit(t, c)
      PROVE CallInv'
  BY <1>5, <1>1 DEF CallInit, Suspended
<1>6. ASSUME NEW t \in Contexts, NEW c \in Contexts, CallSwitchTo(t, c)
      PROVE CallInv'
  BY <1>6 DEF CallSwitchTo
<1> QED BY <1>2, <1>3, <1>4, <1>5, <1>6 DEF HandoffNext

\* Every step keeps the inductive invariant.
LEMMA HandoffStep == HandoffInv /\ [HandoffNext]_handoffvars => HandoffInv'
BY HandoffTypeStep, ControlStep, CallStep DEF HandoffInv

\* The inductive invariant holds in every reachable state.
THEOREM HandoffInvariant == HandoffSpec => []HandoffInv
BY HandoffStarts, HandoffStep, PTL DEF HandoffSpec

\* Every variable of the pthread build keeps its type, and only a thread inside
\* pthread_cond_wait is asleep.
THEOREM HandoffTypes == HandoffSpec => []HandoffTypeOK
<1>1. HandoffInv => HandoffTypeOK
  BY DEF HandoffInv
<1> QED BY <1>1, HandoffInvariant, PTL

\* However the threads interleave between the unlocked flag stores, the locks
\* and the waits of init() and switch_to(), exactly one context has control.
THEOREM MutualExclusion == HandoffSpec => []OneInControl
<1>1. HandoffInv => OneInControl
  BY DEF HandoffInv
<1> QED BY <1>1, HandoffInvariant, PTL

-------------------------------------------------------------------------------
(* Refinement of Coroutine: the two steps that hand control over, InitCreate *)
(* and SetDest, are its actions; every other step stutters.                  *)

InControl == CHOOSE t \in Contexts : HasControl(t)
Created == {t \in Contexts : pc[t] # "none"}

\* InControl names the context that has control.
LEMMA InControlIs ==
  ASSUME OneInControl, NEW t \in Contexts, HasControl(t)
  PROVE  InControl = t
BY DEF OneInControl, InControl

\* The initial states are initial states of Coroutine.
LEMMA RefineInit == HandoffInit => Abstract!Init
<1> SUFFICES ASSUME HandoffInit PROVE Abstract!Init
  OBVIOUS
<1>1. InControl = Root
  <2>1. HandoffInv
    BY HandoffStarts
  <2>2. HasControl(Root)
    BY ContextAssumption DEF HandoffInit, HasControl
  <2> QED BY <2>1, <2>2, InControlIs, ContextAssumption DEF HandoffInv
<1>2. Created = {Root}
  BY ContextAssumption DEF Created, HandoffInit
<1> QED BY <1>1, <1>2 DEF HandoffInit, Abstract!Init, InControl, Created

\* A step after which the same context is in control, the same contexts exist
\* and the same ones are booting is a stutter of Coroutine.
LEMMA RefineStutter ==
  ASSUME OneInControl,
         \A u \in Contexts : HasControl(u)' <=> HasControl(u),
         \A u \in Contexts : pc'[u] = "none" <=> pc[u] = "none",
         UNCHANGED <<creator, booting>>
  PROVE  UNCHANGED Abstract!cvars
<1>1. PICK h \in Contexts : \A u \in Contexts : HasControl(u) <=> u = h
  BY DEF OneInControl
<1>2. InControl = h /\ InControl' = h
  BY <1>1 DEF InControl
<1>3. Created' = Created
  BY DEF Created
<1> QED BY <1>2, <1>3 DEF Abstract!cvars, InControl, Created

\* Every step is a step of Coroutine, or leaves it alone.
LEMMA RefineStep ==
  HandoffInv /\ HandoffInv' /\ [HandoffNext]_handoffvars => [Abstract!Next]_(Abstract!cvars)
<1> SUFFICES ASSUME HandoffInv, HandoffInv', [HandoffNext]_handoffvars
             PROVE  Abstract!Next \/ UNCHANGED Abstract!cvars
  OBVIOUS
<1> USE DEF HandoffInv, HandoffTypeOK, Goto, Lock, Unlock
<1>1. ASSUME \A u \in Contexts : HasControl(u)' <=> HasControl(u),
             \A u \in Contexts : pc'[u] = "none" <=> pc[u] = "none",
             UNCHANGED <<creator, booting>>
      PROVE  UNCHANGED Abstract!cvars
  BY <1>1, RefineStutter
<1>2. CASE UNCHANGED handoffvars
  BY <1>2, <1>1 DEF handoffvars, HasControl
<1>3. ASSUME NEW t \in Contexts, InitCreate(t)
      PROVE  Abstract!Next
  <2>0. PICK c \in Contexts : c = dest[t]
    OBVIOUS
  <2>1. c # t /\ t \notin booting /\ pc[c] = "none"
    BY <1>3, <2>0 DEF InitCreate, CallInv
  <2>2. InControl = t
    BY <1>3, InControlIs DEF InitCreate, HasControl, Suspended
  <2>3. InControl' = c
    <3>1. HasControl(c)'
      BY <1>3, <2>0, <2>1 DEF InitCreate, HasControl, Suspended
    <3>2. \A u \in Contexts : HasControl(u)' <=> u = c
      BY <3>1 DEF OneInControl
    <3> QED BY <3>2 DEF InControl
  <2>4. Created' = Created \cup {c}
    BY <1>3, <2>0, <2>1 DEF InitCreate, Created
  <2>5. creator' = [creator EXCEPT ![c] = t] /\ booting' = booting \cup {c}
    BY <1>3, <2>0 DEF InitCreate
  <2>6. Abstract!Create(c)
    BY <2>0, <2>1, <2>2, <2>3, <2>4, <2>5 DEF Abstract!Create, InControl, Created
  <2> QED BY <2>6 DEF Abstract!Next
<1>4. ASSUME NEW t \in Contexts, SetDest(t)
      PROVE  Abstract!Next
  <2>0. PICK c \in Contexts : c = dest[t]
    OBVIOUS
  <2>1. c # t /\ pc[c] # "none"
    BY <1>4, <2>0 DEF SetDest, CallInv
  <2>2. InControl = t
    BY <1>4, InControlIs DEF SetDest, HasControl, Suspended
  <2>3. InControl' = c
    <3>1. HasControl(c)'
      BY <1>4, <2>0, <2>1 DEF SetDest, HasControl
    <3>2. \A u \in Contexts : HasControl(u)' <=> u = c
      BY <3>1 DEF OneInControl
    <3> QED BY <3>2 DEF InControl
  <2>4. Created' = Created /\ creator' = creator /\ booting' = booting \ {t}
    BY <1>4 DEF SetDest, Created
  <2>5. CASE t \in booting
    <3>1. c = creator[t]
      BY <1>4, <2>0, <2>5 DEF SetDest, CallInv
    <3>2. Abstract!HandBack
      BY <2>0, <2>2, <2>3, <2>4, <2>5, <3>1
      DEF Abstract!HandBack, InControl, Created
    <3> QED BY <3>2 DEF Abstract!Next
  <2>6. CASE t \notin booting
    <3>1. booting' = booting /\ c \in Created \ {t}
      BY <2>1, <2>4, <2>6 DEF Created
    <3>2. Abstract!SwitchTo(c)
      BY <2>0, <2>2, <2>3, <2>4, <2>6, <3>1
      DEF Abstract!SwitchTo, InControl, Created
    <3> QED BY <3>2 DEF Abstract!Next
  <2> QED BY <2>5, <2>6
<1>5. ASSUME NEW t \in Contexts, Run(t), ~InitCreate(t), ~SetDest(t)
      PROVE  UNCHANGED Abstract!cvars
  <2> USE DEF HasControl, Suspended
  <2>1. CASE InitLock(t)    BY <2>1, <1>1 DEF InitLock
  <2>2. CASE InitClear(t)   BY <2>2, <1>1 DEF InitClear
  <2>3. CASE WrapperSwitch(t) BY <2>3, <1>1 DEF WrapperSwitch
  <2>4. CASE ClearOwn(t)    BY <2>4, <1>1 DEF ClearOwn
  <2>5. CASE LockDest(t)    BY <2>5, <1>1 DEF LockDest
  <2>6. CASE SignalDest(t)  BY <2>6, <1>1 DEF SignalDest
  <2>7. CASE UnlockDest(t)  BY <2>7, <1>1 DEF UnlockDest
  <2>8. CASE LockOwn(t)     BY <2>8, <1>1 DEF LockOwn
  <2>9. CASE Resume(t)      BY <2>9, <1>1 DEF Resume
  <2>10. CASE FlagIsClear(t) BY <2>10, <1>1 DEF FlagIsClear
  <2>11. CASE Block(t)      BY <2>11, <1>1 DEF Block
  <2>12. CASE Relock(t)     BY <2>12, <1>1 DEF Relock
  <2> QED
    BY <1>5, <2>1, <2>2, <2>3, <2>4, <2>5, <2>6, <2>7, <2>8, <2>9, <2>10,
       <2>11, <2>12 DEF Run
<1>6. ASSUME NEW t \in Contexts, SpuriousWakeup(t)
      PROVE  UNCHANGED Abstract!cvars
  BY <1>6, <1>1 DEF SpuriousWakeup, HasControl, Suspended
<1>7. ASSUME NEW t \in Contexts, NEW c \in Contexts,
             CallInit(t, c) \/ CallSwitchTo(t, c)
      PROVE  UNCHANGED Abstract!cvars
  BY <1>7, <1>1 DEF CallInit, CallSwitchTo, HasControl, Suspended
<1> QED
  BY <1>2, <1>3, <1>4, <1>5, <1>6, <1>7 DEF HandoffNext

\* The pthread hand-off implements atomic coroutine switches: seen from the
\* code that calls it, init() enters the new context and comes straight back,
\* and switch_to() moves control from the caller to the callee in one step.
THEOREM Refinement == HandoffSpec => ImplementsCoroutine
<1>1. HandoffInv /\ HandoffInv' /\ [HandoffNext]_handoffvars
      => [Abstract!Next]_(Abstract!cvars)
  BY RefineStep
<1> QED
  BY <1>1, RefineInit, HandoffInvariant, PTL
  DEF HandoffSpec, ImplementsCoroutine, Abstract!Spec

-------------------------------------------------------------------------------
(* The byte streams.  In what a side has received, followed by what is queued   *)
(* for it, byte k is at place k: a transfer moves the border between the two,   *)
(* and a send appends at the end.                                               *)


\* The stream of n bytes: n of them, each at its place.
Stream(n) == [k \in 1 .. n |-> k]

Bytes == 1 .. MaxBytes

-----------------------------------------------------------------------------
(* Streams and their pieces.                                                *)

\* A queue cut in two is the same queue.
LEMMA CutSame ==
  ASSUME NEW S, NEW g \in Seq(S), NEW q \in Seq(S), NEW n \in 0 .. Len(q)
  PROVE  /\ g \o Front(q, n) \in Seq(S)
         /\ Back(q, n) \in Seq(S)
         /\ (g \o Front(q, n)) \o Back(q, n) = g \o q
<1>1. Front(q, n) \in Seq(S) /\ Len(Front(q, n)) = n
  BY DEF Front
<1>2. Back(q, n) \in Seq(S) /\ Len(Back(q, n)) = Len(q) - n
  BY DEF Back
<1>3. Front(q, n) \o Back(q, n) = q
  <2>1. 1 \in 1 .. Len(q) + 1 /\ n \in 1 - 1 .. Len(q) /\ Len(q) \in n .. Len(q)
    OBVIOUS
  <2>2. SubSeq(q, 1, n) \o SubSeq(q, n + 1, Len(q)) = SubSeq(q, 1, Len(q))
    BY <2>1, ConcatAdjacentSubSeq, Zenon
  <2>3. SubSeq(q, 1, Len(q)) = q
    BY SubSeqFull
  <2>4. QED
    BY <2>2, <2>3 DEF Front, Back
<1>4. (g \o Front(q, n)) \o Back(q, n) = g \o (Front(q, n) \o Back(q, n))
  BY <1>1, <1>2, ConcatAssociative
<1>5. QED
  BY <1>1, <1>2, <1>3, <1>4

\* Concatenation of bytes is associative (stated for Bytes, which the provers
\* do not find by themselves).
LEMMA Regroup ==
  ASSUME NEW g \in Seq(Bytes), NEW q \in Seq(Bytes), NEW f \in Seq(Bytes)
  PROVE  (g \o q) \o f = g \o (q \o f)
BY ConcatAssociative

LEMMA CutBytes ==
  ASSUME NEW g \in Seq(Bytes), NEW q \in Seq(Bytes), NEW n \in 0 .. Len(q)
  PROVE  (g \o Front(q, n)) \o Back(q, n) = g \o q
BY CutSame, SMTT(30)

\* The bytes that are sent next continue the stream.
LEMMA StreamGrows ==
  ASSUME NEW m \in Nat, NEW n \in Nat
  PROVE  Stream(m) \o [k \in 1 .. n |-> m + k] = Stream(m + n)
<1> DEFINE f == [k \in 1 .. n |-> m + k]
<1>1. f \in Seq(Nat) /\ Len(f) = n
  OBVIOUS
<1>2. Stream(m) \in Seq(Nat) /\ Len(Stream(m)) = m
  BY DEF Stream
<1>3. QED
  BY <1>1, <1>2 DEF Stream

-----------------------------------------------------------------------------
(* Types.                                                                   *)

\* The part of TypeOK that every step keeps for the streams' sake.
LEMMA FreshFits ==
  ASSUME TypeOK, NEW s \in Sides, NEW n \in Nat, sent[s] + n <= MaxBytes
  PROVE  Fresh(s, n) \in Seq(Bytes)
<1>1. sent[s] \in Nat /\ MaxBytes \in Nat
  BY PthreadConstants DEF TypeOK
<1>2. \A k \in 1 .. n : sent[s] + k \in 1 .. MaxBytes
  BY <1>1
<1>3. QED
  BY <1>1, <1>2 DEF Fresh, Bytes

LEMMA TypeStep ==
  ASSUME TypeOK, [Next]_vars
  PROVE  TypeOK'
<1> USE PthreadConstants DEF TypeOK, Sides, Bytes
<1>1. ASSUME NEW n \in 1 .. MaxLen, Read(n) PROVE TypeOK'
  BY <1>1 DEF Read, HostRuns
<1>2. ASSUME NEW n \in 1 .. MaxLen, Write(n) PROVE TypeOK'
  <2>1. Fresh("host", n) \in Seq(Bytes)
    BY <1>2, FreshFits DEF Write
  <2>2. ht_data' \in Seq(1 .. MaxBytes)
    BY <1>2, <2>1 DEF Write
  <2>3. sent' \in [Sides -> 0 .. MaxBytes]
    BY <1>2 DEF Write
  <2>4. QED
    BY <1>2, <2>2, <2>3 DEF Write
<1>3. ASSUME ReadWaits PROVE TypeOK'
  BY <1>3 DEF ReadWaits
<1>4. ASSUME ReadTakes PROVE TypeOK'
  <2> DEFINE s == IF hmax < Len(th_data) THEN hmax ELSE Len(th_data)
  <2>1. s \in 0 .. Len(th_data)
    OBVIOUS
  <2>2. got["host"] \o Front(th_data, s) \in Seq(Bytes)
        /\ Back(th_data, s) \in Seq(Bytes)
    BY <2>1, CutSame
  <2>3. QED
    BY <1>4, <2>2 DEF ReadTakes
<1>5. ASSUME RunEnds PROVE TypeOK'
  BY <1>5 DEF RunEnds
<1>6. ASSUME GiveBack PROVE TypeOK'
  BY <1>6 DEF GiveBack
<1>7. ASSUME NEW n \in 1 .. MaxLen, Send(n) PROVE TypeOK'
  <2>1. Fresh("target", n) \in Seq(Bytes)
    BY <1>7, FreshFits DEF Send
  <2>2. th_data' \in Seq(1 .. MaxBytes)
    BY <1>7, <2>1 DEF Send
  <2>3. sent' \in [Sides -> 0 .. MaxBytes]
    BY <1>7 DEF Send
  <2>4. QED
    BY <1>7, <2>2, <2>3 DEF Send
<1>8. ASSUME NEW n \in 0 .. MaxLen, n <= Len(ht_data), Take(n) PROVE TypeOK'
  <2>1. got["target"] \o Front(ht_data, n) \in Seq(Bytes)
        /\ Back(ht_data, n) \in Seq(Bytes)
    BY <1>8, CutSame
  <2>2. QED
    BY <1>8, <2>1 DEF Take
<1>9. ASSUME NEW n \in 0 .. MaxLen, NEW after \in {"recv", "poll"},
             TryRecv(n, after)
      PROVE  TypeOK'
  BY <1>8, <1>9 DEF TryRecv
<1>10. ASSUME NEW n \in 1 .. MaxLen, RecvNonblocking(n) PROVE TypeOK'
  BY <1>9, <1>10 DEF RecvNonblocking
<1>11. ASSUME PollFails PROVE TypeOK'
  BY <1>11 DEF PollFails
<1>12. ASSUME NEW n \in 1 .. MaxLen, Recv(n) PROVE TypeOK'
  BY <1>12 DEF Recv
<1>13. ASSUME RecvTries PROVE TypeOK'
  BY <1>9, <1>13 DEF RecvTries
<1>14. ASSUME UNCHANGED vars PROVE TypeOK'
  BY <1>14 DEF vars
<1>15. QED
  BY <1>1, <1>2, <1>3, <1>4, <1>5, <1>6, <1>7, <1>10, <1>11, <1>12, <1>13,
     <1>14 DEF Next, Host, Target

\* The variables keep their types, for any MaxLen and MaxBytes.
THEOREM TypeCorrect == Spec => []TypeOK
<1>1. Init => TypeOK
  BY PthreadConstants DEF Init, TypeOK, Sides
<1>2. TypeOK /\ [Next]_vars => TypeOK'
  BY TypeStep
<1>3. QED
  BY <1>1, <1>2, PTL DEF Spec

-----------------------------------------------------------------------------
(* The streams.                                                             *)

LEMMA StreamsStep ==
  ASSUME TypeOK, StreamsIntact, [Next]_vars
  PROVE  StreamsIntact'
<1> USE DEF Sides
<1>a. /\ th_data \in Seq(Bytes) /\ ht_data \in Seq(Bytes)
      /\ \A s \in Sides : got[s] \in Seq(Bytes) /\ sent[s] \in Nat
      /\ got["host"] \o th_data = Stream(sent["target"])
      /\ got["target"] \o ht_data = Stream(sent["host"])
      /\ DOMAIN got = Sides /\ DOMAIN sent = Sides
  BY PthreadConstants DEF TypeOK, StreamsIntact, Stream, Bytes
\* What neither stream notices.
<1>1. ASSUME UNCHANGED <<th_data, ht_data, sent, got>> PROVE StreamsIntact'
  BY <1>1 DEF StreamsIntact
<1>2. ASSUME NEW n \in 1 .. MaxLen, Write(n) PROVE StreamsIntact'
  <2>1. ht_data \in Seq(Bytes) /\ got["target"] \in Seq(Bytes)
        /\ Fresh("host", n) \in Seq(Bytes)
    BY <1>2, <1>a, FreshFits, PthreadConstants DEF Write
  <2>2. (got["target"] \o ht_data) \o Fresh("host", n)
          = got["target"] \o (ht_data \o Fresh("host", n))
    BY <2>1, Regroup, Zenon
  <2>3. Stream(sent["host"]) \o Fresh("host", n) = Stream(sent["host"] + n)
    <3>1. sent["host"] \in Nat /\ n \in Nat
      BY <1>a, PthreadConstants
    <3>2. QED
      BY <3>1, StreamGrows, Zenon DEF Fresh
  <2>4. QED
    BY <1>2, <1>a, <2>2, <2>3 DEF Write, StreamsIntact, Stream
<1>3. ASSUME NEW n \in 1 .. MaxLen, Send(n) PROVE StreamsIntact'
  <2>1. th_data \in Seq(Bytes) /\ got["host"] \in Seq(Bytes)
        /\ Fresh("target", n) \in Seq(Bytes)
    BY <1>3, <1>a, FreshFits, PthreadConstants DEF Send
  <2>2. (got["host"] \o th_data) \o Fresh("target", n)
          = got["host"] \o (th_data \o Fresh("target", n))
    BY <2>1, Regroup, Zenon
  <2>3. Stream(sent["target"]) \o Fresh("target", n) = Stream(sent["target"] + n)
    <3>1. sent["target"] \in Nat /\ n \in Nat
      BY <1>a, PthreadConstants
    <3>2. QED
      BY <3>1, StreamGrows, Zenon DEF Fresh
  <2>4. QED
    BY <1>3, <1>a, <2>2, <2>3 DEF Send, StreamsIntact, Stream
<1>4. ASSUME ReadTakes PROVE StreamsIntact'
  <2> DEFINE s == IF hmax < Len(th_data) THEN hmax ELSE Len(th_data)
  <2>1. s \in 0 .. Len(th_data)
    BY PthreadConstants DEF TypeOK
  <2>2. (got["host"] \o Front(th_data, s)) \o Back(th_data, s)
          = got["host"] \o th_data
    <3>1. got["host"] \in Seq(Bytes) /\ th_data \in Seq(Bytes)
      BY <1>a
    <3> HIDE DEF s
    <3>2. QED
      BY <2>1, <3>1, CutBytes
  <2>3. QED
    BY <1>4, <1>a, <2>2 DEF ReadTakes, StreamsIntact
<1>5. ASSUME NEW n \in 0 .. MaxLen, n <= Len(ht_data), Take(n)
      PROVE  StreamsIntact'
  <2>1. (got["target"] \o Front(ht_data, n)) \o Back(ht_data, n)
          = got["target"] \o ht_data
    <3>1. got["target"] \in Seq(Bytes) /\ ht_data \in Seq(Bytes)
          /\ n \in 0 .. Len(ht_data)
      BY <1>5, <1>a, PthreadConstants
    <3>2. QED
      BY <3>1, CutBytes
  <2>2. QED
    BY <1>5, <1>a, <2>1 DEF Take, StreamsIntact
<1>6. ASSUME NEW n \in 0 .. MaxLen, NEW after, TryRecv(n, after)
      PROVE  StreamsIntact'
  BY <1>1, <1>5, <1>6 DEF TryRecv
<1>7. ASSUME NEW n \in 1 .. MaxLen, RecvNonblocking(n) PROVE StreamsIntact'
  BY <1>6, <1>7, PthreadConstants DEF RecvNonblocking
<1>8. ASSUME RecvTries PROVE StreamsIntact'
  BY <1>6, <1>8 DEF RecvTries, TypeOK
<1>9. QED
  BY <1>1, <1>2, <1>3, <1>4, <1>7, <1>8
  DEF Next, Host, Target, Read, ReadWaits, RunEnds, GiveBack, PollFails, Recv,
      vars

\* Both streams arrive complete and in order, for any lengths of transfers and
\* any number of bytes, however the two sides cut them.
THEOREM StreamsTheorem == Spec => []StreamsIntact
<1>1. Init => StreamsIntact
  BY PthreadConstants DEF Init, StreamsIntact, Sides
<1>2. TypeOK /\ StreamsIntact /\ [Next]_vars => StreamsIntact'
  BY StreamsStep
<1>3. QED
  BY <1>1, <1>2, TypeCorrect, PTL DEF Spec

-------------------------------------------------------------------------------
(* The frame buffer: who holds the mutex, and what the thread has set up. *)

\* Where the thread holds the mutex.
Holding ==
  {"socket", "accept", "version", "readVersion", "security", "readInit", "serverinit",
   "unlock", "closeConnection", "closeListener", "forget"}

LockInv ==
  /\ lock = "rfb" <=> rfb \in Holding
  /\ lock = "main" <=> main \in {"update", "unlock"}

\* Where it has no connection yet, and where the handshake is over.
Waiting == {"none", "lock", "socket", "accept"}
Shaken == {"unlock", "spin", "messages", "encodings", "relock"}

ConnectionInv ==
  /\ rfb \in Waiting => afd = NoFd
  /\ rfb \notin Waiting \cup {"closeListener", "forget"} =>
       afd # NoFd /\ opened[afd] = "connection"
  /\ rfb = "version" => stage = 0
  /\ rfb \in {"readVersion", "security"} => stage = 1
  /\ rfb \in {"readInit", "serverinit"} => stage = 2
  /\ rfb \in Shaken => stage = 3

ThreadInv == RfbTypeOK /\ LockInv /\ ConnectionInv

LEMMA ThreadInit == RfbInit => ThreadInv
BY DEF RfbInit, ThreadInv, RfbTypeOK, LockInv, ConnectionInv, Holding, Waiting, Shaken

\* The commands and the tick, up to the attempt to get the mutex, leave the thread
\* and its connection alone; configure starts the thread.
LEMMA RunLoopStep == ThreadInv /\ RunLoop => ThreadInv'
<1> SUFFICES ASSUME ThreadInv, RunLoop PROVE ThreadInv'  OBVIOUS
<1> USE DEF ThreadInv, RfbTypeOK, LockInv, ConnectionInv, Holding, Waiting, Shaken
<1>1. ASSUME NEW c \in Configs, Configure(c) PROVE ThreadInv'
  <2>1. rfb' = rfb \/ (rfb = "none" /\ rfb' = "lock")  BY <1>1 DEF Configure
  <2>2. ended' \in {"no", "thrown", "killed"}  BY <1>1 DEF Configure, Throw
  <2>3. UNCHANGED <<main, lock, opened, sockfd, afd, stage>>
    BY <1>1 DEF Configure, fds, network
  <2> QED  BY <2>1, <2>2, <2>3
<1>2. ASSUME NEW a \in Addresses, SetAddress(a) PROVE ThreadInv'
  BY <1>2 DEF SetAddress, Throw, fds, network
<1>3. CASE OpenOther
  BY <1>3 DEF OpenOther, LowestFd, threads, network
<1>4. CASE CloseOther
  BY <1>4 DEF CloseOther, threads, network
<1>5. CASE Destroy
  BY <1>5 DEF Destroy, Main, fds, network
<1>6. CASE Tick
  <2>1. main = "idle" /\ main' \in {"idle", "try"}  BY <1>6 DEF Tick
  <2>2. UNCHANGED <<rfb, ended, lock, opened, sockfd, afd, stage>>
    BY <1>6 DEF Tick, fds, network
  <2> QED  BY <2>1, <2>2
<1> QED  BY <1>1, <1>2, <1>3, <1>4, <1>5, <1>6 DEF RunLoop

\* The run loop only writes while it holds the mutex.
LEMMA SendFrameStep == ThreadInv /\ SendFrame => ThreadInv'
<1> SUFFICES ASSUME ThreadInv, SendFrame PROVE ThreadInv'  OBVIOUS
<1> USE DEF ThreadInv, RfbTypeOK, LockInv, ConnectionInv, Holding, Waiting, Shaken, Main
<1>1. CASE TryLock
  BY <1>1 DEF TryLock, fds, network
<1>2. CASE Update
  BY <1>2 DEF Update, fds
<1>3. CASE UnlockMutex
  BY <1>3 DEF UnlockMutex, fds, network
<1> QED  BY <1>1, <1>2, <1>3 DEF SendFrame

\* A write of the handshake moves the thread and the client on by one.
LEMMA WriteStep ==
  ASSUME ThreadInv, WritePart("version", "readVersion") \/ WritePart("security", "readInit")
                      \/ WritePart("serverinit", "unlock")
  PROVE  ThreadInv'
<1> USE DEF ThreadInv, RfbTypeOK, LockInv, ConnectionInv, Holding, Waiting, Shaken, Rfb
<1>1. CASE WritePart("version", "readVersion")
  BY <1>1 DEF WritePart, fds
<1>2. CASE WritePart("security", "readInit")
  BY <1>2 DEF WritePart, fds
<1>3. CASE WritePart("serverinit", "unlock")
  BY <1>3 DEF WritePart, fds
<1> QED  BY <1>1, <1>2, <1>3

\* From the first socket to the end of the handshake the thread holds the mutex.
LEMMA HandshakeStep == ThreadInv /\ (LockMutex \/ Handshake) => ThreadInv'
<1> SUFFICES ASSUME ThreadInv, LockMutex \/ Handshake PROVE ThreadInv'  OBVIOUS
<1> USE DEF ThreadInv, RfbTypeOK, LockInv, ConnectionInv, Holding, Waiting, Shaken, Rfb, Throw
<1>1. CASE LockMutex
  BY <1>1 DEF LockMutex, fds, network
<1>2. CASE Listen
  <2>1. PICK d \in Fds : opened' = [opened EXCEPT ![d] = "listener"] /\ sockfd' = d
    BY <1>2 DEF Listen
  <2> QED  BY <1>2, <2>1 DEF Listen, network
<1>3. CASE NoDescriptor
  BY <1>3 DEF NoDescriptor, fds, network
<1>4. CASE Accept
  <2>1. PICK d \in Fds : opened' = [opened EXCEPT ![d] = "connection"] /\ afd' = d
    BY <1>4 DEF Accept
  <2> QED  BY <1>4, <2>1, RfbConstants DEF Accept, NoFd
<1>5. CASE ReadVersion
  BY <1>5 DEF ReadVersion, fds
<1>6. CASE ReadInit
  BY <1>6 DEF ReadInit, fds
<1>7. CASE HandshakeDone
  BY <1>7 DEF HandshakeDone, fds, network
<1>8. CASE WriteVersion \/ WriteSecurity \/ WriteServerinit
  BY <1>8, WriteStep DEF WriteVersion, WriteSecurity, WriteServerinit
<1> QED  BY <1>1, <1>2, <1>3, <1>4, <1>5, <1>6, <1>7, <1>8 DEF Handshake

\* The thread takes the mutex again before it closes anything.
LEMMA ServiceStep == ThreadInv /\ (Messages \/ RelockMutex \/ Close) => ThreadInv'
<1> SUFFICES ASSUME ThreadInv, Messages \/ RelockMutex \/ Close PROVE ThreadInv'  OBVIOUS
<1> USE DEF ThreadInv, RfbTypeOK, LockInv, ConnectionInv, Holding, Waiting, Shaken, Rfb, Throw
<1>1. CASE Spin
  BY <1>1 DEF Spin, fds, network
<1>2. CASE ReadMessage
  BY <1>2 DEF ReadMessage, fds
<1>3. CASE ReadEncodings
  BY <1>3 DEF ReadEncodings, fds
<1>4. CASE ReadFails
  BY <1>4 DEF ReadFails, fds, network
<1>5. CASE RelockMutex
  BY <1>5 DEF RelockMutex, fds, network
<1>6. CASE CloseConnection
  BY <1>6 DEF CloseConnection
<1>7. CASE CloseListener
  BY <1>7 DEF CloseListener, network
<1>8. CASE Forget
  BY <1>8 DEF Forget, network
<1> QED
  BY <1>1, <1>2, <1>3, <1>4, <1>5, <1>6, <1>7, <1>8 DEF Messages, Close

\* Every step of either thread, and of the client, keeps the invariant.
LEMMA ThreadStep == ThreadInv /\ [RfbNext]_rfbvars => ThreadInv'
<1> SUFFICES ASSUME ThreadInv, [RfbNext]_rfbvars PROVE ThreadInv'  OBVIOUS
<1>1. CASE Client
  BY <1>1 DEF Client, SendPacket, Drain, Leave, threads, fds,
              ThreadInv, RfbTypeOK, LockInv, ConnectionInv
<1>2. CASE UNCHANGED rfbvars
  BY <1>2 DEF rfbvars, threads, fds, network, ThreadInv, RfbTypeOK, LockInv, ConnectionInv
<1> QED
  BY <1>1, <1>2, RunLoopStep, SendFrameStep, HandshakeStep, ServiceStep DEF RfbNext

\* The variables keep their types, for any sizes and number of descriptors.
THEOREM RfbTypeCorrect == RfbSpec => []RfbTypeOK
<1>1. ThreadInv => RfbTypeOK  BY DEF ThreadInv
<1> QED  BY ThreadInit, ThreadStep, <1>1, PTL DEF RfbSpec

\* The run loop never writes into a handshake, nor to a descriptor that the thread
\* has closed: holding the mutex, it finds no connection or one that is ready.
THEOREM UpdatesReachClientTheorem == RfbSpec => []UpdatesReachClient
<1>1. ThreadInv => UpdatesReachClient
  BY DEF ThreadInv, LockInv, ConnectionInv, UpdatesReachClient, RfbTypeOK, Holding, Waiting, Shaken
<1> QED  BY ThreadInit, ThreadStep, <1>1, PTL DEF RfbSpec

-------------------------------------------------------------------------------
(* Frames.                                                                   *)

Cells == [base : Nat, pos : Nat, age : {"new", "whole", "old", "junk"}]

\* A buffer for whole chunks, and a chunk that the pass in progress has reached.
IsBuffer(fb) == fb \in [1..Chunks -> Cells]
Copied(i) == fb2[i].age = "new" /\ fb2[i].pos = i - 1 /\ (fb2[i].base = addr \/ moved[1])

FrameType ==
  /\ config \in [width : Nat, height : Nat, bpp : Nat]
  /\ addr \in Nat \cup {Null}
  /\ moved \in BOOLEAN \X BOOLEAN
  /\ fb_bytes = 0 => read_pos = 0

\* As long as there are commands and ticks, the pass in progress has copied its first
\* read_pos chunks.
FillInv ==
  (ended = "no" /\ main \notin {"join", "done"} /\ fb_bytes # 0) =>
    /\ rfb # "none"
    /\ Chunks \in Nat \ {0} /\ read_pos \in 0..Chunks - 1
    /\ IsBuffer(fb1) /\ IsBuffer(fb2)
    /\ \A i \in 1..read_pos : Copied(i)

\* What has been swapped to the front, until it is sent.
WholeFrame ==
  /\ \A i \in DOMAIN fb1 : fb1[i].age = "whole" /\ fb1[i].pos = i - 1
  /\ \A i, j \in DOMAIN fb1 : fb1[i].base = fb1[j].base \/ moved[2]

FrontInv == main \in {"try", "update"} => WholeFrame

FrameInv == FrameType /\ FillInv /\ FrontInv

LEMMA FrameInit == RfbInit => FrameInv
<1> SUFFICES ASSUME RfbInit PROVE FrameInv  OBVIOUS
<1>1. config = [width |-> 0, height |-> 0, bpp |-> 0] /\ read_pos = 0 /\ main = "idle"
  BY DEF RfbInit
<1>2. config.width = 0 /\ config.height = 0 /\ config.bpp = 0  BY <1>1
<1>3. fb_bytes = 0  BY <1>2 DEF fb_bytes
<1>4. moved \in BOOLEAN \X BOOLEAN  BY DEF RfbInit
<1>5. addr \in Nat \cup {Null}  BY DEF RfbInit
<1> QED  BY <1>1, <1>3, <1>4, <1>5 DEF FrameInv, FrameType, FillInv, FrontInv

\* The sizes that configure accepts are whole numbers of chunks.
LEMMA WholeChunks ==
  ASSUME NEW b \in Nat \ {0}, b % FB_ALIGN = 0
  PROVE  b \div FB_ALIGN \in Nat \ {0}
BY RfbConstants

\* The size in bytes is a number.
LEMMA BytesNat ==
  ASSUME NEW c \in [width : Nat, height : Nat, bpp : Nat]
  PROVE  (c.width * c.height * c.bpp) \div 8 \in Nat
<1>1. c.width * c.height \in Nat  OBVIOUS
<1>2. c.width * c.height * c.bpp \in Nat  BY <1>1
<1> QED  BY <1>2

\* configure makes the buffers, when the thread has not been started.
LEMMA ConfigureFrame ==
  ASSUME FrameInv, NEW c \in Configs, Configure(c)
  PROVE  FrameInv'
<1> USE DEF FrameInv, FrameType
<1>1. CASE rfb # "none"
  BY <1>1 DEF Configure, Throw, FillInv, FrontInv, WholeFrame, fb_bytes
<1>2. CASE rfb = "none"
  <2>1. config' = c /\ c \in [width : Nat, height : Nat, bpp : Nat]
    BY <1>2, RfbConstants DEF Configure
  <2>2. UNCHANGED <<main, read_pos, moved, addr>> /\ main = "idle" /\ ended = "no"
    BY <1>2 DEF Configure, Alive
  <2>3. fb_bytes' \in Nat  BY <2>1, BytesNat DEF fb_bytes
  <2>4. read_pos = 0  BY <1>2, <2>2 DEF FillInv
  <2>5. CASE ended' = "no"
    <3>1. /\ fb_bytes' % FB_ALIGN = 0
          /\ fb1' = [i \in 1..Chunks' |-> Junk] /\ fb2' = fb1' /\ rfb' = "lock"
      BY <1>2, <2>5, <2>2 DEF Configure, Throw
    <3>2. Junk \in Cells  BY DEF Junk, Cells
    <3>3. fb_bytes' # 0 => Chunks' \in Nat \ {0}
      BY <2>3, <3>1, WholeChunks DEF Chunks
    <3>4. IsBuffer(fb1)' /\ IsBuffer(fb2)'  BY <3>1, <3>2 DEF IsBuffer
    <3> QED
      BY <2>1, <2>2, <2>4, <3>1, <3>3, <3>4 DEF FillInv, FrontInv
  <2>6. CASE ended' # "no"
    BY <2>1, <2>2, <2>4, <2>6 DEF FillInv, FrontInv
  <2> QED  BY <2>5, <2>6
<1> QED  BY <1>1, <1>2

\* After set_address the chunks may be from different places, and moved says so.
LEMMA SetAddressFrame ==
  ASSUME FrameInv, NEW a \in Addresses, SetAddress(a)
  PROVE  FrameInv'
<1> USE DEF FrameInv, FrameType
<1>1. /\ addr' = a /\ a \in Nat /\ moved' = <<TRUE, moved[2]>> /\ main = "idle"
      /\ UNCHANGED <<main, rfb, config, read_pos, fb1, fb2>> /\ ended = "no"
  BY RfbConstants DEF SetAddress, Alive
<1>2. moved' \in BOOLEAN \X BOOLEAN /\ moved'[1] = TRUE  BY <1>1
<1>3. \A i \in 1..read_pos : Copied(i) => Copied(i)'  BY <1>1, <1>2 DEF Copied
<1>4. fb_bytes' = fb_bytes /\ Chunks' = Chunks  BY <1>1 DEF fb_bytes, Chunks
<1>5. FillInv'  BY <1>1, <1>3, <1>4 DEF FillInv, IsBuffer
<1> QED  BY <1>1, <1>2, <1>4, <1>5 DEF FrontInv

\* A tick copies the next chunk; the last one makes the buffer whole.
LEMMA TickFrame ==
  ASSUME FrameInv, Tick
  PROVE  FrameInv'
<1> USE DEF FrameInv, FrameType
<1> DEFINE cell == [base |-> addr, pos |-> read_pos, age |-> "new"]
           copied == [fb2 EXCEPT ![read_pos + 1] = cell]
           next == (read_pos + 1) % Chunks
<1>1. /\ ended = "no" /\ main = "idle" /\ fb_bytes # 0 /\ addr \in Nat
      /\ UNCHANGED <<rfb, ended, config, addr>>
  BY DEF Tick, Alive, memory
<1>2. /\ rfb # "none" /\ Chunks \in Nat \ {0} /\ read_pos \in 0..Chunks - 1
      /\ IsBuffer(fb1) /\ IsBuffer(fb2)
      /\ \A i \in 1..read_pos : Copied(i)
  BY <1>1 DEF FillInv
<1>3. cell \in Cells  BY <1>1, <1>2 DEF Cells
<1>4. copied \in [1..Chunks -> Cells]  BY <1>2, <1>3 DEF IsBuffer
<1>5. \A i \in 1..read_pos + 1 :
        /\ copied[i].age = "new" /\ copied[i].pos = i - 1
        /\ copied[i].base = addr \/ moved[1]
  <2> TAKE i \in 1..read_pos + 1
  <2>1. i \in 1..Chunks  BY <1>2
  <2>2. CASE i = read_pos + 1
    <3>1. copied[i] = cell  BY <1>2, <2>1, <2>2 DEF IsBuffer
    <3> QED  BY <1>2, <2>2, <3>1
  <2>3. CASE i # read_pos + 1
    <3>1. copied[i] = fb2[i]  BY <1>2, <2>1, <2>3 DEF IsBuffer
    <3>2. Copied(i)  BY <1>2, <2>3
    <3> QED  BY <3>1, <3>2 DEF Copied
  <2> QED  BY <2>2, <2>3
<1>6. fb_bytes' = fb_bytes /\ Chunks' = Chunks  BY <1>1 DEF fb_bytes, Chunks
<1>7. read_pos' = next  BY DEF Tick
<1> HIDE DEF copied, cell
<1>8. CASE next = 0
  <2>1. fb1' = Aged(copied, Sent) /\ fb2' = Aged(fb1, Sent)
    BY <1>8 DEF Tick, copied, cell
  <2>2. moved' = <<FALSE, moved[1]>> /\ main' = "try"
    BY <1>8 DEF Tick
  <2>3. read_pos + 1 = Chunks  BY <1>2, <1>8
  <2>4. ASSUME NEW fb, fb \in [1..Chunks -> Cells] PROVE IsBuffer(Aged(fb, Sent))
    <3>1. \A k \in 1..Chunks : [fb[k] EXCEPT !.age = Sent[fb[k].age]] \in Cells
      <4> TAKE k \in 1..Chunks
      <4>1. fb[k] \in Cells  BY <2>4
      <4>2. fb[k].age \in DOMAIN Sent /\ Sent[fb[k].age] \in {"new", "whole", "old", "junk"}
        BY <4>1 DEF Cells, Sent
      <4> QED  BY <4>1, <4>2 DEF Cells
    <3>2. DOMAIN fb = 1..Chunks  BY <2>4
    <3> QED  BY <3>1, <3>2 DEF IsBuffer, Aged
  <2>5. IsBuffer(fb1)' /\ IsBuffer(fb2)'
    BY <1>2, <1>4, <1>6, <2>1, <2>4 DEF IsBuffer
  <2>6. DOMAIN fb1' = 1..Chunks  BY <1>4, <2>1 DEF Aged
  <2>7. \A i \in 1..Chunks :
          /\ fb1'[i].age = "whole" /\ fb1'[i].pos = i - 1
          /\ fb1'[i].base = addr \/ moved[1]
    <3> TAKE i \in 1..Chunks
    <3>1. fb1'[i] = [copied[i] EXCEPT !.age = Sent[copied[i].age]]
      BY <1>4, <2>1 DEF Aged
    <3>2. copied[i] \in Cells  BY <1>4
    <3>3. copied[i].age = "new" /\ copied[i].pos = i - 1 /\ (copied[i].base = addr \/ moved[1])
      BY <1>5, <2>3
    <3>4. Sent["new"] = "whole"  BY DEF Sent
    <3> QED  BY <3>1, <3>2, <3>3, <3>4 DEF Cells
  <2>8. WholeFrame'
    BY <2>2, <2>6, <2>7 DEF WholeFrame
  <2>9. FillInv'
    BY <1>1, <1>2, <1>6, <1>7, <1>8, <2>2, <2>5 DEF FillInv
  <2> QED  BY <1>1, <1>6, <1>7, <1>8, <2>2, <2>8, <2>9 DEF FrontInv
<1>9. CASE next # 0
  <2>1. fb2' = copied /\ UNCHANGED <<main, fb1, moved>>
    BY <1>9 DEF Tick, copied, cell
  <2>2. next = read_pos + 1 /\ read_pos + 1 \in 0..Chunks - 1
    <3>1. read_pos + 1 # Chunks  BY <1>2, <1>9
    <3> QED  BY <1>2, <3>1
  <2>3. IsBuffer(fb1)' /\ IsBuffer(fb2)'  BY <1>2, <1>4, <1>6, <2>1 DEF IsBuffer
  <2>4. \A i \in 1..read_pos' : Copied(i)'
    BY <1>1, <1>5, <1>7, <2>1, <2>2 DEF Copied
  <2>5. FillInv'
    BY <1>1, <1>2, <1>6, <1>7, <2>1, <2>2, <2>3, <2>4 DEF FillInv
  <2> QED  BY <1>1, <1>6, <2>1, <2>5 DEF FrontInv
<1> QED  BY <1>8, <1>9

\* A step that leaves the frames and the configuration alone and does not go back to
\* sending.
LEMMA OtherFrame ==
  ASSUME FrameInv, UNCHANGED <<config, read_pos, fb1, fb2, moved>>,
         addr' = addr \/ (addr' = Null /\ main' \in {"join", "done"}),
         rfb' = rfb \/ (rfb # "none" /\ rfb' # "none"),
         ended' # "no" \/ ended = "no",
         main' \in {"join", "done"} \/ main \notin {"join", "done"},
         main' \in {"try", "update"} => main \in {"try", "update"}
  PROVE  FrameInv'
<1> USE DEF FrameInv, FrameType
<1>1. fb_bytes' = fb_bytes /\ Chunks' = Chunks  BY DEF fb_bytes, Chunks
<1>2. FillInv'
  <2> SUFFICES ASSUME ended' = "no", main' \notin {"join", "done"}, fb_bytes' # 0
               PROVE  FillInv'
    BY DEF FillInv
  <2>1. addr' = addr /\ ended = "no" /\ main \notin {"join", "done"} /\ fb_bytes # 0
    BY <1>1
  <2>2. \A i \in 1..read_pos : Copied(i) => Copied(i)'  BY <2>1 DEF Copied
  <2> QED  BY <1>1, <2>1, <2>2 DEF FillInv, IsBuffer
<1>3. WholeFrame => WholeFrame'  BY DEF WholeFrame
<1> QED  BY <1>1, <1>2, <1>3 DEF FrontInv

LEMMA FrameStep == FrameInv /\ [RfbNext]_rfbvars => FrameInv'
<1> SUFFICES ASSUME FrameInv, [RfbNext]_rfbvars PROVE FrameInv'  OBVIOUS
<1>1. ASSUME NEW c \in Configs, Configure(c) PROVE FrameInv'  BY <1>1, ConfigureFrame
<1>2. ASSUME NEW a \in Addresses, SetAddress(a) PROVE FrameInv'  BY <1>2, SetAddressFrame
<1>3. CASE Tick  BY <1>3, TickFrame
<1>4. CASE OpenOther \/ CloseOther
  BY <1>4, OtherFrame DEF OpenOther, CloseOther, Alive, threads, frames, memory
<1>5. CASE Destroy
  BY <1>5, OtherFrame DEF Destroy, Main, Alive, frames
<1>6. CASE SendFrame
  BY <1>6, OtherFrame DEF SendFrame, TryLock, Update, UnlockMutex, Main, Alive, frames, memory
<1>7. CASE Handshake
  <2>1. CASE Listen \/ NoDescriptor \/ Accept \/ HandshakeDone
    BY <2>1, OtherFrame
    DEF Listen, NoDescriptor, Accept, HandshakeDone, Rfb, Throw, Alive, frames, memory
  <2>2. CASE WriteVersion \/ WriteSecurity \/ WriteServerinit
    BY <2>2, OtherFrame
    DEF WriteVersion, WriteSecurity, WriteServerinit, WritePart, Rfb, Alive, frames, memory
  <2>3. CASE ReadVersion \/ ReadInit
    BY <2>3, OtherFrame DEF ReadVersion, ReadInit, Rfb, Throw, Alive, frames, memory
  <2> QED  BY <1>7, <2>1, <2>2, <2>3 DEF Handshake
<1>8. CASE Messages
  BY <1>8, OtherFrame
  DEF Messages, Spin, ReadMessage, ReadEncodings, ReadFails, Rfb, Throw, Alive, frames, memory
<1>9. CASE LockMutex \/ RelockMutex \/ Close
  BY <1>9, OtherFrame
  DEF LockMutex, RelockMutex, Close, CloseConnection, CloseListener, Forget, Rfb, Alive, frames, memory
<1>10. CASE Client
  BY <1>10, OtherFrame DEF Client, SendPacket, Drain, Leave, Alive, threads, frames, memory
<1>11. CASE UNCHANGED rfbvars
  BY <1>11, OtherFrame DEF rfbvars, threads, frames, memory
<1> QED
  BY <1>1, <1>2, <1>3, <1>4, <1>5, <1>6, <1>7, <1>8, <1>9, <1>10, <1>11 DEF RfbNext, RunLoop

\* Whatever the size of the frame and wherever it lies, an update shows whole frames.
THEOREM FramesWholeTheorem == RfbSpec => []FramesWhole
<1>1. FrameInv => FramesWhole  BY DEF FrameInv, FrontInv, WholeFrame, FramesWhole
<1> QED  BY FrameInit, FrameStep, <1>1, PTL DEF RfbSpec

===============================================================================
