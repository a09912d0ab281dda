---------------------------- MODULE AsyncAiClient ----------------------------
(***************************************************************************)
(* ai/async_ai_client.cpp: the bounded hand-over between the capture       *)
(* thread (consume, drain_decisions), the main thread (start, set_online,  *)
(* set_offline, stop) and one worker thread that exchanges a request and a *)
(* reply with the Python server over a ZeroMQ REQ socket.                  *)
(*                                                                         *)
(* Each critical section under mutex_ is one action.  Between two sections *)
(* of the worker any other thread may run; what the worker holds then is   *)
(* the flow it took, the connection generation it took it under, and its   *)
(* socket.  Flow records are numbered in the order consume() is called.    *)
(*                                                                         *)
(* The condition variable: a worker inside condition_.wait is parked at    *)
(* "flow_wait" or "decision_wait"; a notification moves it to the point    *)
(* where it evaluates the predicate again.  The worker is its only waiter, *)
(* so notify_one and notify_all are the same.                              *)
(***************************************************************************)
EXTENDS Naturals, Sequences

CONSTANTS
  QUEUE_CAPACITY,  \* config.queue_capacity, 1..65536
  MaxFlows,        \* bound: calls of consume()
  MaxGeneration    \* bound: no set_online or set_offline beyond this generation

ASSUME ClientAssumption ==
  /\ QUEUE_CAPACITY \in Nat \ {0}
  /\ MaxFlows \in Nat
  /\ MaxGeneration \in Nat

VARIABLES
  pending_flows,      \* pending_flows_: flow numbers
  pending_decisions,  \* pending_decisions_: flow numbers judged anomalous
  started,            \* started_
  stop_requested,     \* stop_requested_
  online,             \* online_
  generation,         \* connection_generation_
  wpc,                \* where the worker is in run()
  in_flight,          \* local in_flight
  gen,                \* local generation
  socket,             \* 0: no socket, else socket_generation
  reply,              \* what the exchange ended with
  submitted,          \* submitted_
  answers,            \* normal_, anomaly_responses_ and protocol_errors_ by kind
  timeouts,           \* timeouts_
  dropped,            \* unavailable_dropped_ and queue_full_dropped_
  offered,            \* number of consume() calls so far
  accepted_gen,       \* history: generation in which a flow was accepted, else 0
  answered,           \* history: flows that got an outcome in their generation
  reports             \* history: generations failure_handler_ was called for

queues     == <<pending_flows, pending_decisions>>
connection == <<started, stop_requested, online, generation>>
worker     == <<wpc, in_flight, gen, socket, reply>>
counters   == <<submitted, answers, timeouts, dropped>>
history    == <<offered, accepted_gen, answered, reports>>
vars == <<queues, connection, worker, counters, history>>

FlowNo == 1 .. MaxFlows
\* How an exchange ends: a reply of one of three kinds, or a transport failure
\* (time-outs are counted, other errors are not).
ReplyKind   == {"normal", "anomaly", "invalid"}
FailureKind == {"timeout", "error"}
\* Why consume() refuses a flow.
DropKind    == {"unavailable", "queue_full"}
WorkerPc == {"none", "top", "flow_wait", "connect", "exchange", "replied", "judged",
             "decision_wait", "fail", "report", "exited"}

-----------------------------------------------------------------------------
\* Bug: the worker waits on a condition nobody notifies.
NotNotified(pc) == pc

\* condition_.notify_one() and notify_all()
Notified(pc) ==
  CASE pc = "flow_wait"     -> "top"
    [] pc = "decision_wait" -> "judged"
    [] OTHER                -> pc

\* A queue takes another element.
HasRoom(queue) == Len(queue) < QUEUE_CAPACITY

\* The generation the worker works for is no longer the live one.
Stale == ~online \/ generation # gen

\* What every change of the connection does: a new generation, empty queues and
\* a notification.
NewGeneration ==
  /\ generation' = generation + 1
  /\ pending_flows' = <<>>
  /\ pending_decisions' = <<>>

Init ==
  /\ pending_flows = <<>> /\ pending_decisions = <<>>
  /\ started = FALSE /\ stop_requested = FALSE /\ online = FALSE
  /\ generation = 0
  /\ wpc = "none" /\ in_flight = 0 /\ gen = 0 /\ socket = 0 /\ reply = "normal"
  /\ submitted = 0 /\ timeouts = 0
  /\ answers = [k \in ReplyKind |-> 0]
  /\ dropped = [k \in DropKind |-> 0]
  /\ offered = 0
  /\ accepted_gen = [f \in FlowNo |-> 0]
  /\ answered = {}
  /\ reports = <<>>

-----------------------------------------------------------------------------
(* Main thread. *)

\* start(): an early return when already started or stopped.
start ==
  /\ ~started /\ ~stop_requested
  /\ started' = TRUE
  /\ wpc' = "top"
  /\ UNCHANGED <<queues, stop_requested, online, generation, in_flight, gen, socket,
                 reply, counters, history>>

\* set_online(): ignored after stop().
set_online ==
  /\ ~stop_requested
  /\ generation < MaxGeneration
  /\ NewGeneration
  /\ online' = TRUE
  /\ wpc' = Notified(wpc)
  /\ UNCHANGED <<started, stop_requested, in_flight, gen, socket, reply, counters,
                 history>>

\* set_offline()
set_offline ==
  /\ generation < MaxGeneration
  /\ NewGeneration
  /\ online' = FALSE
  /\ wpc' = Notified(wpc)
  /\ UNCHANGED <<started, stop_requested, in_flight, gen, socket, reply, counters,
                 history>>

\* stop(): the section under the lock.  The caller then joins the worker, that is
\* waits until wpc = "exited".  A second call (the destructor's) finds started_
\* false and returns without joining; calls after the first count as changes of
\* generation.
stop ==
  /\ stop_requested => generation < MaxGeneration
  /\ stop_requested' = TRUE
  /\ online' = FALSE
  /\ NewGeneration
  /\ started' = FALSE
  /\ wpc' = Notified(wpc)
  /\ UNCHANGED <<in_flight, gen, socket, reply, counters, history>>

-----------------------------------------------------------------------------
(* Capture thread. *)

\* consume() when the client is off: the flow is dropped.
consume_unavailable ==
  /\ offered < MaxFlows
  /\ ~online \/ stop_requested
  /\ offered' = offered + 1
  /\ dropped' = [dropped EXCEPT !["unavailable"] = @ + 1]
  /\ UNCHANGED <<queues, connection, worker, submitted, answers, timeouts, accepted_gen,
                 answered, reports>>

\* consume() with a full queue: the flow is dropped.
consume_queue_full ==
  /\ offered < MaxFlows
  /\ online /\ ~stop_requested
  /\ ~HasRoom(pending_flows)
  /\ offered' = offered + 1
  /\ dropped' = [dropped EXCEPT !["queue_full"] = @ + 1]
  /\ UNCHANGED <<queues, connection, worker, submitted, answers, timeouts, accepted_gen,
                 answered, reports>>

\* consume() that queues the flow.
consume_accepted ==
  /\ offered < MaxFlows
  /\ online /\ ~stop_requested
  /\ HasRoom(pending_flows)
  /\ pending_flows' = Append(pending_flows, offered + 1)
  /\ offered' = offered + 1
  /\ accepted_gen' = [accepted_gen EXCEPT ![offered + 1] = generation]
  /\ submitted' = submitted + 1
  /\ wpc' = Notified(wpc)
  /\ UNCHANGED <<pending_decisions, connection, in_flight, gen, socket, reply, answers,
                 timeouts, dropped, answered, reports>>

\* Bug: drain_decisions does not wake a worker that waits for room.
drain_decisions_silent ==
  /\ pending_decisions' = <<>>
  /\ UNCHANGED <<pending_flows, connection, worker, counters, history>>

\* drain_decisions(): takes everything and wakes a worker that waits for room.
drain_decisions ==
  /\ pending_decisions' = <<>>
  /\ wpc' = Notified(wpc)
  /\ UNCHANGED <<pending_flows, connection, in_flight, gen, socket, reply, counters,
                 history>>

-----------------------------------------------------------------------------
(* Worker thread: run(). *)

\* The first wait ends on stop: leave the loop.
ExitOnStop ==
  /\ wpc = "top" /\ stop_requested
  /\ wpc' = "exited"
  /\ UNCHANGED <<queues, connection, in_flight, gen, socket, reply, counters, history>>

\* The first wait: nothing to do, park.
ParkForFlow ==
  /\ wpc = "top" /\ ~stop_requested
  /\ ~online \/ pending_flows = <<>>
  /\ wpc' = "flow_wait"
  /\ UNCHANGED <<queues, connection, in_flight, gen, socket, reply, counters, history>>

\* The first wait ends with work: take the oldest flow and remember under which
\* generation.
TakeFlow ==
  /\ wpc = "top" /\ ~stop_requested
  /\ online /\ pending_flows # <<>>
  /\ wpc' = "connect"
  /\ in_flight' = Head(pending_flows)
  /\ gen' = generation
  /\ pending_flows' = Tail(pending_flows)
  /\ UNCHANGED <<pending_decisions, connection, socket, reply, counters, history>>

\* Bug: a socket, once made, is kept for every later connection.
ConnectOnce ==
  /\ wpc = "connect"
  /\ socket' = IF socket = 0 THEN gen ELSE socket
  /\ wpc' = "exchange"
  /\ UNCHANGED <<queues, connection, in_flight, gen, reply, counters, history>>

\* A new socket for a new generation, connected to that generation's endpoint.
Connect ==
  /\ wpc = "connect"
  /\ socket' = IF socket = 0 \/ socket # gen THEN gen ELSE socket
  /\ wpc' = "exchange"
  /\ UNCHANGED <<queues, connection, in_flight, gen, reply, counters, history>>

\* send and recv succeed; the lock is not held.
ExchangeReplied ==
  /\ wpc = "exchange"
  /\ reply' \in ReplyKind
  /\ wpc' = "replied"
  /\ UNCHANGED <<queues, connection, in_flight, gen, socket, counters, history>>

\* Making the socket, send or recv fails or times out; the socket is dropped, so
\* a late reply is never read.
ExchangeFailed ==
  /\ wpc \in {"connect", "exchange"}
  /\ reply' \in FailureKind
  /\ socket' = 0
  /\ wpc' = "fail"
  /\ UNCHANGED <<queues, connection, in_flight, gen, counters, history>>

\* The check after recv passes: the connection is still the same one.
CheckReply ==
  /\ wpc = "replied" /\ ~Stale
  /\ wpc' = "judged"
  /\ UNCHANGED <<queues, connection, in_flight, gen, socket, reply, counters, history>>

\* A check finds that the connection changed: the reply is dropped.  Only the
\* check of a normal answer leaves the socket open.
DiscardReply ==
  /\ \/ wpc = "replied" /\ Stale
     \/ wpc = "judged" /\ reply # "anomaly" /\ Stale
     \/ wpc = "judged" /\ reply = "anomaly" /\ (stop_requested \/ Stale)
  /\ socket' = IF wpc = "judged" /\ reply = "normal" THEN socket ELSE 0
  /\ wpc' = "top"
  /\ UNCHANGED <<queues, connection, in_flight, gen, reply, counters, history>>

\* An outcome of the flow in flight is counted.
Count(kind) ==
  /\ answers' = [answers EXCEPT ![kind] = @ + 1]
  /\ answered' = answered \cup {in_flight}
  /\ UNCHANGED <<submitted, timeouts, dropped, offered, accepted_gen, reports>>

\* Bug: a refused reply is dropped without being counted.
JudgeInvalidUncounted ==
  /\ wpc = "judged" /\ reply = "invalid" /\ ~Stale
  /\ wpc' = "top"
  /\ UNCHANGED <<queues, connection, in_flight, gen, socket, reply, counters, history>>

\* A reply that does not parse, or says that the request was refused.
JudgeInvalid ==
  /\ wpc = "judged" /\ reply = "invalid" /\ ~Stale
  /\ wpc' = "top"
  /\ Count("invalid")
  /\ UNCHANGED <<queues, connection, in_flight, gen, socket, reply>>

JudgeNormal ==
  /\ wpc = "judged" /\ reply = "normal" /\ ~Stale
  /\ wpc' = "top"
  /\ Count("normal")
  /\ UNCHANGED <<queues, connection, in_flight, gen, socket, reply>>

\* The second wait: no room for the decision, park.
ParkForRoom ==
  /\ wpc = "judged" /\ reply = "anomaly"
  /\ ~stop_requested /\ ~Stale /\ ~HasRoom(pending_decisions)
  /\ wpc' = "decision_wait"
  /\ UNCHANGED <<queues, connection, in_flight, gen, socket, reply, counters, history>>

\* Bug: after the wait for room only stop_requested_ is looked at again.
QueueDecisionUnchecked ==
  /\ wpc = "judged" /\ reply = "anomaly"
  /\ ~stop_requested /\ HasRoom(pending_decisions)
  /\ pending_decisions' = Append(pending_decisions, in_flight)
  /\ Count("anomaly")
  /\ wpc' = "top"
  /\ UNCHANGED <<pending_flows, connection, in_flight, gen, socket, reply>>

\* The second wait ends with room: hand the decision over.
QueueDecision ==
  /\ wpc = "judged" /\ reply = "anomaly"
  /\ ~stop_requested /\ ~Stale /\ HasRoom(pending_decisions)
  /\ pending_decisions' = Append(pending_decisions, in_flight)
  /\ Count("anomaly")
  /\ wpc' = "top"
  /\ UNCHANGED <<pending_flows, connection, in_flight, gen, socket, reply>>

\* fail_transport() under the lock: the connection changed meanwhile, return.
IgnoreFailure ==
  /\ wpc = "fail" /\ Stale
  /\ wpc' = "top"
  /\ UNCHANGED <<queues, connection, in_flight, gen, socket, reply, counters, history>>

\* Bug: fail_transport takes the client offline whatever the generation is.
FailTransportUnchecked ==
  /\ wpc = "fail"
  /\ online' = FALSE
  /\ NewGeneration
  /\ wpc' = "report"
  /\ UNCHANGED <<started, stop_requested, in_flight, gen, socket, reply, counters,
                 history>>

\* Bug: the connection goes down, and the handler is not called.
FailTransportUnreported ==
  /\ wpc = "fail" /\ ~Stale
  /\ online' = FALSE
  /\ NewGeneration
  /\ wpc' = "top"
  /\ UNCHANGED <<started, stop_requested, in_flight, gen, socket, reply, counters,
                 history>>

\* fail_transport() under the lock: the connection goes down.
FailTransport ==
  /\ wpc = "fail" /\ ~Stale
  /\ online' = FALSE
  /\ NewGeneration
  /\ wpc' = "report"
  /\ UNCHANGED <<started, stop_requested, in_flight, gen, socket, reply, counters,
                 history>>

\* Bug: the handler is called by fail_transport() and again by its caller.
ReportFailureTwice ==
  /\ wpc = "report"
  /\ timeouts' = IF reply = "timeout" THEN timeouts + 1 ELSE timeouts
  /\ reports' = Append(Append(reports, gen), gen)
  /\ wpc' = "top"
  /\ UNCHANGED <<queues, connection, in_flight, gen, socket, reply, submitted, answers,
                 dropped, offered, accepted_gen, answered>>

\* fail_transport() after the unlock: count a time-out and call failure_handler_,
\* which posts the report to the main thread.
ReportFailure ==
  /\ wpc = "report"
  /\ timeouts' = IF reply = "timeout" THEN timeouts + 1 ELSE timeouts
  /\ reports' = Append(reports, gen)
  /\ wpc' = "top"
  /\ UNCHANGED <<queues, connection, in_flight, gen, socket, reply, submitted, answers,
                 dropped, offered, accepted_gen, answered>>

-----------------------------------------------------------------------------
Worker ==
  \/ ExitOnStop \/ ParkForFlow \/ TakeFlow
  \/ Connect \/ ExchangeReplied \/ ExchangeFailed
  \/ CheckReply \/ DiscardReply \/ JudgeInvalid \/ JudgeNormal
  \/ ParkForRoom \/ QueueDecision
  \/ IgnoreFailure \/ FailTransport \/ ReportFailure

Next ==
  \/ start \/ set_online \/ set_offline \/ stop
  \/ consume_unavailable \/ consume_queue_full \/ consume_accepted \/ drain_decisions
  \/ Worker

Spec == Init /\ [][Next]_vars

\* The worker is a running thread whose socket calls all have time-outs, and the
\* capture thread drains the decisions in every tick.  Nothing obliges the main
\* thread to do anything.
FairSpec == Spec /\ WF_vars(Worker) /\ WF_vars(drain_decisions)

-----------------------------------------------------------------------------
(***************************************************************************)
(* Properties.                                                             *)
(***************************************************************************)
\* Types; both queues respect the configured capacity.
TypeOK ==
  /\ pending_flows \in Seq(FlowNo) /\ Len(pending_flows) <= QUEUE_CAPACITY
  /\ pending_decisions \in Seq(FlowNo) /\ Len(pending_decisions) <= QUEUE_CAPACITY
  /\ started \in BOOLEAN /\ stop_requested \in BOOLEAN /\ online \in BOOLEAN
  /\ generation \in Nat /\ gen \in Nat /\ socket \in Nat
  /\ wpc \in WorkerPc
  /\ in_flight \in 0 .. MaxFlows
  /\ reply \in ReplyKind \cup FailureKind
  /\ submitted \in Nat /\ timeouts \in Nat /\ answers \in [ReplyKind -> Nat]
  /\ dropped \in [DropKind -> Nat]
  /\ offered \in 0 .. MaxFlows
  /\ accepted_gen \in [FlowNo -> Nat]
  /\ answered \in SUBSET FlowNo
  /\ reports \in Seq(Nat)

\* Queued flows and decisions belong to the connection that is up now: nothing
\* accepted before an outage is sent or applied after it.  The worker's decision
\* arrives long after its flow was taken, which is where it could fail.
CurrentGenerationOnly ==
  /\ \A i \in 1 .. Len(pending_flows) :
       online /\ accepted_gen[pending_flows[i]] = generation
  /\ \A i \in 1 .. Len(pending_decisions) :
       online /\ accepted_gen[pending_decisions[i]] = generation

\* The worker never sleeps through what it waits for: while it is parked, the
\* predicate of its wait is false.
NoLostWakeup ==
  /\ wpc = "flow_wait" => ~stop_requested /\ ~(online /\ pending_flows # <<>>)
  /\ wpc = "decision_wait" =>
       ~stop_requested /\ ~Stale /\ Len(pending_decisions) = QUEUE_CAPACITY

\* While the worker holds a flow it has not dealt with.
Busy == wpc \in {"connect", "exchange", "replied", "judged", "decision_wait", "fail",
                 "report"}

\* As long as a connection lives, no flow it accepted is lost: it is queued, with
\* the worker, or has its one outcome.
NoSilentLoss ==
  online =>
    \A f \in FlowNo :
      accepted_gen[f] = generation =>
        \/ \E i \in 1 .. Len(pending_flows) : pending_flows[i] = f
        \/ Busy /\ in_flight = f
        \/ f \in answered

\* The counters of the status line never claim more outcomes than flows were
\* submitted: each flow has at most one outcome, whatever happens in between.
OutcomesWithinSubmitted ==
  answers["normal"] + answers["anomaly"] + answers["invalid"] + timeouts
    + Len(pending_flows) + (IF Busy THEN 1 ELSE 0) <= submitted

\* A request leaves only through a socket that was connected for the generation in
\* which its flow was accepted, so it reaches the server that announced itself.
SentOnOwnSocket ==
  wpc = "exchange" => /\ socket = gen
                      /\ accepted_gen[in_flight] = gen

\* Failure reports: one connection is reported at most once, and in order; the
\* supervisor restarts the server for each report.
OneReportPerConnection ==
  \A i, j \in 1 .. Len(reports) : i < j => reports[i] < reports[j]

\* A late failure of an old exchange never takes down a newer connection: when the
\* worker takes the client offline, the flow it failed on was accepted by the very
\* connection that goes down.
HealthyConnectionSurvives ==
  [][wpc = "fail" /\ wpc' # "fail" /\ online /\ ~online'
       => accepted_gen[in_flight] = generation]_vars

\* The worker as its supervisor sees it.
Phase ==
  CASE wpc \in {"top", "flow_wait"}     -> "idle"
    [] wpc = "report"                   -> "reporting"
    [] wpc \in {"none", "exited"}        -> wpc
    [] OTHER                            -> "working"

Abs == INSTANCE AiClientAbs WITH
         stopped <- stop_requested, phase <- Phase, working_for <- gen

\* The client keeps what it promises to the supervisor: the worker only ends the
\* connection it took its flow under, and every connection it ends is reported.
RefinesAbs == Abs!AbsSpec

\* stop() joins the worker: it always gets to the end of run().
WorkerExits == (stop_requested /\ wpc # "none") ~> (wpc = "exited")

\* With a started worker no flow stays queued for ever, even when the server only finds
\* anomalies and the decision queue is full.
QueuedFlowsTaken ==
  \A f \in FlowNo :
    (started /\ \E i \in 1 .. Len(pending_flows) : pending_flows[i] = f)
      ~> ~(\E i \in 1 .. Len(pending_flows) : pending_flows[i] = f)
=============================================================================
