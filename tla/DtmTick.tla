-------------------------------- MODULE DtmTick --------------------------------
(***************************************************************************)
(* The two ends of a request of dtm_t.  The host (producer_thread) calls   *)
(* do_command, which stores the request in req_buf and switches to the     *)
(* target.  The target is the simulator: in each of its cycles it calls    *)
(* tick() with the hardware's req_ready and resp_valid, and shows the      *)
(* hardware req_valid() and req_bits() in the next.  A simulator of the    *)
(* other kind takes req_bits() and calls return_resp with the answer.      *)
(*                                                                         *)
(* The debug module is external: it accepts a request when it is ready and *)
(* sees req_valid, executes it, and asserts resp_valid for one cycle,      *)
(* possibly the cycle in which it accepts.                                 *)
(***************************************************************************)
EXTENDS Naturals

CONSTANTS Registers, Data, NoRequest, NoResult

\* The requests of read, write and nop, of which the last goes to address 0.
read(addr) == [op |-> 1, addr |-> addr, data |-> 0]
write(addr, data) == [op |-> 2, addr |-> addr, data |-> data]
nop == [op |-> 0, addr |-> 0, data |-> 0]

Requests == [op : 0..2, addr : Registers, data : Data]

ASSUME DtmTickConstants ==
  /\ 0 \in Registers /\ 0 \in Data
  /\ NoRequest \notin Requests /\ NoResult \notin Data

VARIABLES
  cur,        \* which coroutine runs: "host" or "target"
  commanding, \* the host is in do_command
  ticking,    \* the simulator calls tick(), and not return_resp()
  req_wait, resp_wait, req_buf, resp_buf,
  aborted,    \* the assertion of do_command has failed
  module,     \* the debug module: "ready", "executing" or "responding"
  accepted,   \* the request it has accepted last
  response,   \* what it answers
  reg         \* its registers

host == <<cur, commanding, req_buf>>
dtm == <<req_wait, resp_wait, resp_buf>>
dm == <<module, accepted, response, reg>>
tickvars == <<host, dtm, dm, ticking, aborted>>

Answer(r, regs) == IF r.op = 1 THEN regs[r.addr] ELSE 0
Effect(r, regs) == IF r.op = 2 THEN [regs EXCEPT ![r.addr] = r.data] ELSE regs

Responses == [resp : {0, 2}, data : Data]

\* start_host_thread: the host runs first.  The two buffers are not initialised.
TickInit ==
  /\ cur = "host" /\ commanding = FALSE
  /\ ticking \in BOOLEAN
  /\ req_wait = FALSE /\ resp_wait = FALSE
  /\ req_buf = nop /\ resp_buf = [resp |-> 0, data |-> 0]
  /\ aborted = FALSE
  /\ module = "ready" /\ accepted = nop
  /\ response = [resp |-> 0, data |-> 0]
  /\ reg \in [Registers -> Data]

-------------------------------------------------------------------------------
(* The host.                                                                *)

do_command(r) ==
  /\ cur = "host" /\ ~commanding /\ ~aborted
  /\ req_buf' = r
  /\ commanding' = TRUE
  /\ cur' = "target"
  /\ UNCHANGED <<dtm, dm, ticking, aborted>>

\* assert(resp_buf.resp == 0); return resp_buf.data
CommandReturns ==
  /\ cur = "host" /\ commanding /\ ~aborted
  /\ resp_buf.resp = 0
  /\ commanding' = FALSE
  /\ UNCHANGED <<cur, req_buf, dtm, dm, ticking, aborted>>

CommandFails ==
  /\ cur = "host" /\ commanding /\ ~aborted
  /\ resp_buf.resp # 0
  /\ aborted' = TRUE
  /\ UNCHANGED <<host, dtm, dm, ticking>>

-------------------------------------------------------------------------------
(* The target.                                                              *)

\* The hardware and tick() agree that a request is handed over in this cycle:
\* req_valid() and req_bits() are from the end of the last one.
Handover(req_ready) == req_wait /\ req_ready

\* A bug: the request stays valid until the response comes.
NextReqWaitHeld(req_ready) == TRUE

NextReqWait(req_ready) ==
  IF resp_wait THEN req_wait ELSE ~Handover(req_ready)

\* A bug: a cycle that hands a request over waits for the next to look for a
\* response.
AwaitsLate(req_ready) == resp_wait

\* if (!resp_wait && req_wait && req_ready) resp_wait = true
Awaits(req_ready) == resp_wait \/ Handover(req_ready)

\* A bug: the host is woken up before the response is stored.
RespondStale(bits) ==
  /\ cur' = "host"
  /\ UNCHANGED <<resp_buf, commanding, req_buf, ticking, aborted>>

\* resp_buf = resp_bits; target = current(); host.switch_to()
Respond(bits) ==
  /\ resp_buf' = bits
  /\ cur' = "host"
  /\ UNCHANGED <<commanding, req_buf, ticking, aborted>>

\* A cycle without a response.
TickWaits(req_ready) ==
  /\ cur = "target" /\ ticking
  /\ module # "responding"
  /\ req_ready => module = "ready"
  /\ req_wait' = NextReqWait(req_ready)
  /\ resp_wait' = Awaits(req_ready)
  /\ IF Handover(req_ready)
       THEN module' = "executing" /\ accepted' = req_buf
       ELSE UNCHANGED <<module, accepted>>
  /\ UNCHANGED <<host, resp_buf, response, reg, ticking, aborted>>

\* A cycle with the response to a request of an earlier cycle.  The debug module
\* is not ready in it.
TickResponds ==
  /\ cur = "target" /\ ticking
  /\ module = "responding"
  /\ Awaits(FALSE)                  \* assert(resp_wait)
  /\ req_wait' = NextReqWait(FALSE)
  /\ resp_wait' = FALSE
  /\ module' = "ready"
  /\ Respond(response)
  /\ UNCHANGED <<accepted, response, reg>>

\* A cycle in which the request is accepted and answered.
TickAtOnce(status) ==
  /\ cur = "target" /\ ticking
  /\ module = "ready" /\ Handover(TRUE)
  /\ Awaits(TRUE)                   \* assert(resp_wait)
  /\ req_wait' = NextReqWait(TRUE)
  /\ resp_wait' = FALSE
  /\ accepted' = req_buf
  /\ reg' = Effect(req_buf, reg)
  /\ response' = [resp |-> status, data |-> Answer(req_buf, reg)]
  /\ Respond(response')
  /\ UNCHANGED module

\* The debug module executes what it has accepted; it may answer with a failure.
Execute(status) ==
  /\ cur = "target"
  /\ module = "executing"
  /\ module' = "responding"
  /\ reg' = Effect(accepted, reg)
  /\ response' = [resp |-> status, data |-> Answer(accepted, reg)]
  /\ UNCHANGED <<host, dtm, accepted, ticking, aborted>>

\* The simulator that does not tick() takes req_bits()...
TakeRequest ==
  /\ cur = "target" /\ ~ticking
  /\ module = "ready"
  /\ module' = "executing" /\ accepted' = req_buf
  /\ UNCHANGED <<host, dtm, response, reg, ticking, aborted>>

\* ...and has the answer when it calls return_resp.
return_resp ==
  /\ cur = "target" /\ ~ticking
  /\ module = "responding"
  /\ module' = "ready"
  /\ Respond(response)
  /\ UNCHANGED <<req_wait, resp_wait, accepted, response, reg>>

-------------------------------------------------------------------------------

Commands ==
  \/ \E a \in Registers : do_command(read(a))
  \/ \E a \in Registers, d \in Data : do_command(write(a, d))
  \/ do_command(nop)
  \/ CommandReturns \/ CommandFails

Accepting == TickWaits(TRUE) \/ \E s \in {0, 2} : TickAtOnce(s)

Cycles ==
  \/ \E req_ready \in BOOLEAN : TickWaits(req_ready)
  \/ TickResponds
  \/ \E s \in {0, 2} : TickAtOnce(s)
  \/ \E s \in {0, 2} : Execute(s)
  \/ TakeRequest \/ return_resp

TickNext == Commands \/ Cycles

TickSpec == TickInit /\ [][TickNext]_tickvars

\* The process runs; a cycle follows a cycle; a debug module that is shown a
\* request is ready for it in some cycle, and executes what it has accepted.
TickFairness ==
  /\ WF_tickvars(Commands)
  /\ WF_tickvars(TickWaits(FALSE)) /\ SF_tickvars(req_wait /\ Accepting)
  /\ WF_tickvars(Execute(0) \/ Execute(2))
  /\ WF_tickvars(TickResponds \/ TakeRequest \/ return_resp)

FairTicks == TickSpec /\ TickFairness

-------------------------------------------------------------------------------
(* Properties.                                                              *)

\* Every variable has its type.
TypeOK ==
  /\ cur \in {"host", "target"} /\ commanding \in BOOLEAN /\ ticking \in BOOLEAN
  /\ req_wait \in BOOLEAN /\ resp_wait \in BOOLEAN
  /\ req_buf \in Requests /\ resp_buf \in Responses
  /\ aborted \in BOOLEAN
  /\ module \in {"ready", "executing", "responding"}
  /\ accepted \in Requests /\ response \in Responses
  /\ reg \in [Registers -> Data]

\* assert(resp_wait) of tick() holds whenever the hardware answers: tick() has
\* noticed every request that the hardware took, also one it took and answered
\* in the same cycle.
ResponseExpected ==
  ticking /\ cur = "target" =>
    /\ module # "ready" <=> resp_wait
    /\ ~(req_wait /\ resp_wait)

\* Each do_command executes its own request once and returns its own result,
\* whatever the delays of the two handshakes.
Port == INSTANCE Dmi WITH
  request <- IF commanding THEN req_buf ELSE NoRequest,
  result  <- IF ~commanding THEN NoResult
             ELSE IF cur = "host" THEN resp_buf.data
             ELSE IF module = "responding" THEN response.data ELSE NoResult

ImplementsDmi == Port!Spec

\* do_command returns or asserts: no handshake is missed on either side.
CommandsEnd == commanding ~> ~commanding \/ aborted

===============================================================================
