------------------------------ MODULE HtifPthread ------------------------------
(***************************************************************************)
(* htif_pthread_t: two byte streams between the coroutine of the host,     *)
(* whose packets a subclass makes, and that of the simulator.  There is    *)
(* nothing to block on: who lacks bytes gives control to the other side.   *)
(* Control moves as in Coroutine.                                          *)
(***************************************************************************)
EXTENDS Naturals, Sequences

CONSTANTS
  MaxLen,   \* the longest single transfer
  MaxBytes  \* bound: the bytes each side sends

ASSUME PthreadConstants == MaxLen \in Nat \ {0} /\ MaxBytes \in Nat

VARIABLES
  cur,       \* "host" or "target": the context that runs
  th_data, ht_data,
  hpc, hmax, \* the host: in code of its own, in read() of up to hmax bytes,
             \* or after run()
  tpc, tlen, \* the target: in code of its own, in recv() of tlen bytes, or in
             \* a recv_nonblocking() that has had to switch
  \* Histories.  A byte is its number in the stream.
  sent,      \* sent[s]: how many bytes side s has sent
  got        \* got[s]: the bytes side s has received

vars == <<cur, th_data, ht_data, hpc, hmax, tpc, tlen, sent, got>>

Sides == {"host", "target"}

Fresh(s, n) == [k \in 1 .. n |-> sent[s] + k]

Front(q, n) == SubSeq(q, 1, n)

\* Mutant: one byte too many is dropped.
LongBack(q, n) == SubSeq(q, n + 2, Len(q))

Back(q, n) == SubSeq(q, n + 1, Len(q))

Init ==
  /\ cur = "target"
  /\ th_data = <<>> /\ ht_data = <<>>
  /\ hpc = "code" /\ hmax = 0 /\ tpc = "code" /\ tlen = 0
  /\ sent = [s \in Sides |-> 0] /\ got = [s \in Sides |-> <<>>]

-----------------------------------------------------------------------------
(* The host side.                                                          *)

HostRuns(at) == cur = "host" /\ hpc = at

Read(n) ==
  /\ HostRuns("code")
  /\ hpc' = "read" /\ hmax' = n
  /\ UNCHANGED <<cur, th_data, ht_data, tpc, tlen, sent, got>>

ReadWaits ==
  /\ HostRuns("read") /\ th_data = <<>>
  /\ cur' = "target"
  /\ UNCHANGED <<th_data, ht_data, hpc, hmax, tpc, tlen, sent, got>>

\* As much as there is.
ReadTakes ==
  /\ HostRuns("read") /\ th_data # <<>>
  /\ LET s == IF hmax < Len(th_data) THEN hmax ELSE Len(th_data)
     IN  /\ got' = [got EXCEPT !["host"] = @ \o Front(th_data, s)]
         /\ th_data' = Back(th_data, s)
  /\ hpc' = "code"
  /\ UNCHANGED <<cur, ht_data, hmax, tpc, tlen, sent>>

Write(n) ==
  /\ HostRuns("code") /\ sent["host"] + n <= MaxBytes
  /\ ht_data' = ht_data \o Fresh("host", n)
  /\ sent' = [sent EXCEPT !["host"] = @ + n]
  /\ UNCHANGED <<cur, th_data, hpc, hmax, tpc, tlen, got>>

\* run() returns; from then on thread_main only gives control back.
RunEnds ==
  /\ HostRuns("code")
  /\ hpc' = "over"
  /\ UNCHANGED <<cur, th_data, ht_data, hmax, tpc, tlen, sent, got>>

GiveBack ==
  /\ HostRuns("over")
  /\ cur' = "target"
  /\ UNCHANGED <<th_data, ht_data, hpc, hmax, tpc, tlen, sent, got>>

-----------------------------------------------------------------------------
(* The target side.                                                        *)

TargetRuns(at) == cur = "target" /\ tpc = at

Send(n) ==
  /\ TargetRuns("code") /\ sent["target"] + n <= MaxBytes
  /\ th_data' = th_data \o Fresh("target", n)
  /\ sent' = [sent EXCEPT !["target"] = @ + n]
  /\ UNCHANGED <<cur, ht_data, hpc, hmax, tpc, tlen, got>>

Take(n) ==
  /\ got' = [got EXCEPT !["target"] = @ \o Front(ht_data, n)]
  /\ ht_data' = Back(ht_data, n)
  /\ tpc' = "code"
  /\ UNCHANGED <<cur, th_data, hpc, hmax, tlen, sent>>

\* recv_nonblocking: all of it, or nothing and a turn for the host.
TryRecv(n, after) ==
  \/ n <= Len(ht_data) /\ Take(n)
  \/ /\ Len(ht_data) < n
     /\ cur' = "host" /\ tpc' = after
     /\ UNCHANGED <<th_data, ht_data, hpc, hmax, tlen, sent, got>>

\* Mutant: no turn for the host.
SelfishRecvNonblocking(n) ==
  /\ TargetRuns("code")
  /\ \/ n <= Len(ht_data) /\ Take(n)
     \/ /\ Len(ht_data) < n
        /\ tpc' = "poll"
        /\ UNCHANGED <<cur, th_data, ht_data, hpc, hmax, tlen, sent, got>>

RecvNonblocking(n) == TargetRuns("code") /\ TryRecv(n, "poll")

PollFails ==
  /\ TargetRuns("poll")
  /\ tpc' = "code"
  /\ UNCHANGED <<cur, th_data, ht_data, hpc, hmax, tlen, sent, got>>

Recv(n) ==
  /\ TargetRuns("code")
  /\ tpc' = "recv" /\ tlen' = n
  /\ UNCHANGED <<cur, th_data, ht_data, hpc, hmax, sent, got>>

RecvTries == TargetRuns("recv") /\ TryRecv(tlen, "recv")

-----------------------------------------------------------------------------

Host ==
  \/ \E n \in 1 .. MaxLen : Read(n) \/ Write(n)
  \/ ReadWaits \/ ReadTakes \/ RunEnds \/ GiveBack

Target ==
  \/ \E n \in 1 .. MaxLen : Send(n) \/ RecvNonblocking(n) \/ Recv(n)
  \/ PollFails \/ RecvTries

Next == Host \/ Target

Spec == Init /\ [][Next]_vars

\* A context that runs goes on, and a simulator that is in code of its own calls
\* the interface again.
Fairness == WF_vars(Host) /\ WF_vars(Target)

FairSpec == Spec /\ Fairness

-----------------------------------------------------------------------------
(* Properties.                                                             *)

TypeOK ==
  /\ cur \in Sides
  /\ th_data \in Seq(1 .. MaxBytes) /\ ht_data \in Seq(1 .. MaxBytes)
  /\ hpc \in {"code", "read", "over"} /\ hmax \in 0 .. MaxLen
  /\ tpc \in {"code", "recv", "poll"} /\ tlen \in 0 .. MaxLen
  /\ sent \in [Sides -> 0 .. MaxBytes]
  /\ got \in [Sides -> Seq(1 .. MaxBytes)]

\* Both streams arrive complete and in order, however the two sides cut them.
StreamsIntact ==
  /\ got["host"] \o th_data = [k \in 1 .. sent["target"] |-> k]
  /\ got["target"] \o ht_data = [k \in 1 .. sent["host"] |-> k]

\* A host that waits for bytes gets them once the target has sent any: the
\* target hands over control whenever it runs out of bytes itself.
ReadReturns == hpc = "read" /\ th_data # <<>> ~> hpc # "read"

\* A target that waits for bytes gets them once the host has written enough,
\* also when the host has ended since.
RecvReturns == tpc = "recv" /\ Len(ht_data) >= tlen ~> tpc = "code"

\* Neither side waits for ever for bytes that are there.
TransfersEnd == ReadReturns /\ RecvReturns

===============================================================================
