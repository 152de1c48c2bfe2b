---------------------------------- MODULE Dmi ----------------------------------
(***************************************************************************)
(* What do_command promises the rest of dtm_t: a request to the debug      *)
(* module is executed exactly once, between the call and its return, and   *)
(* the call returns the result of that very request.  Dtm builds on it: an *)
(* access to the debug module is one step there.                           *)
(***************************************************************************)
EXTENDS Naturals

CONSTANTS
  Registers,  \* the addresses of the debug module's registers
  Data,       \* what a register holds
  NoRequest, NoResult

Requests == [op : 0..2, addr : Registers, data : Data]

VARIABLES
  reg,       \* the registers
  request,   \* the request of the call in progress, or NoRequest
  result,    \* its result, once it has been executed, or NoResult
  aborted    \* a request has failed: the process ends by an assertion

dmivars == <<reg, request, result, aborted>>

\* Executing a request: 0 is a nop, 1 a read and 2 a write.
Answer(r, regs) == IF r.op = 1 THEN regs[r.addr] ELSE 0
Effect(r, regs) == IF r.op = 2 THEN [regs EXCEPT ![r.addr] = r.data] ELSE regs

Init ==
  /\ reg \in [Registers -> Data]
  /\ request = NoRequest /\ result = NoResult
  /\ aborted = FALSE

Call(r) ==
  /\ ~aborted
  /\ request = NoRequest
  /\ request' = r
  /\ UNCHANGED <<reg, result, aborted>>

Execute ==
  /\ request # NoRequest /\ result = NoResult
  /\ reg' = Effect(request, reg)
  /\ result' = Answer(request, reg)
  /\ UNCHANGED <<request, aborted>>

Return ==
  /\ result # NoResult
  /\ request' = NoRequest /\ result' = NoResult
  /\ UNCHANGED <<reg, aborted>>

Fail ==
  /\ request # NoRequest
  /\ aborted' = TRUE
  /\ UNCHANGED <<reg, request, result>>

Next ==
  \/ \E r \in Requests : Call(r)
  \/ Execute \/ Return \/ Fail

Spec == Init /\ [][Next]_dmivars

===============================================================================
