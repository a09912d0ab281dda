------------------------- MODULE AsyncAiClientProofs -------------------------
(***************************************************************************)
(* AsyncAiClient for every queue capacity, number of flows and number of   *)
(* connections.                                                            *)
(***************************************************************************)
EXTENDS AsyncAiClient, TLAPS

\* What the worker carries across its unlocked sections: the flow it took was
\* accepted under the generation it remembers.
WorkerFlow ==
  Busy => /\ in_flight \in FlowNo
          /\ in_flight <= offered
          /\ gen <= generation
          /\ accepted_gen[in_flight] = gen

\* No flow was accepted under a generation that is yet to come, and generations
\* count from 1 once something was accepted.
AcceptedBefore ==
  \A f \in FlowNo : /\ accepted_gen[f] <= generation
                    /\ f > offered => accepted_gen[f] = 0

\* Only past generations have been reported, and the one the worker works for
\* has not been.
ReportsArePast ==
  \A i \in 1 .. Len(reports) : /\ reports[i] < generation
                               /\ Busy => reports[i] < gen

\* The generation being reported is over.
ReportEnded == wpc = "report" => gen < generation

\* A client that is online has had a generation.
OnlineHasGeneration == online => generation > 0 /\ ~stop_requested

\* start() made the worker thread, and nothing makes another.
OneThread == started \/ stop_requested \/ wpc = "none"

\* The inductive invariant: the properties of the run and what carries them.
IInv == /\ TypeOK /\ OnlineHasGeneration /\ OneThread /\ AcceptedBefore /\ WorkerFlow
        /\ CurrentGenerationOnly /\ NoLostWakeup /\ ReportEnded /\ ReportsArePast
        /\ OneReportPerConnection /\ NoSilentLoss /\ OutcomesWithinSubmitted
        /\ SentOnOwnSocket

-----------------------------------------------------------------------------
\* Taking the first element: what the rest holds, the whole held one place on.
LEMMA TailElements ==
  ASSUME NEW S, NEW s \in Seq(S), s # <<>>
  PROVE  /\ Head(s) \in S
         /\ Tail(s) \in Seq(S)
         /\ Len(Tail(s)) = Len(s) - 1
         /\ Len(s) \in Nat \ {0}
         /\ Head(s) = s[1]
         /\ \A i \in 1 .. Len(Tail(s)) : Tail(s)[i] = s[i + 1]
OBVIOUS

\* Appending: the old elements stay in place, the new one is last.
LEMMA AppendElements ==
  ASSUME NEW S, NEW s \in Seq(S), NEW e \in S
  PROVE  /\ Append(s, e) \in Seq(S)
         /\ Len(Append(s, e)) = Len(s) + 1
         /\ Len(s) \in Nat
         /\ Append(s, e)[Len(s) + 1] = e
         /\ \A i \in 1 .. Len(s) : Append(s, e)[i] = s[i]
OBVIOUS

\* An index up to n + 1 is n + 1 or one before it.
LEMMA LastOrBefore ==
  ASSUME NEW n \in Nat, NEW j \in 1 .. (n + 1)
  PROVE  j = n + 1 \/ j \in 1 .. n
OBVIOUS

\* An empty queue has the right type and no elements.
LEMMA EmptyQueue ==
  ASSUME NEW S
  PROVE  /\ <<>> \in Seq(S)
         /\ Len(<<>>) = 0
OBVIOUS

\* A notification leaves the worker at one of its known places.
LEMMA NotifiedPc ==
  ASSUME NEW pc \in WorkerPc
  PROVE  /\ Notified(pc) \in WorkerPc
         /\ Notified(pc) \notin {"flow_wait", "decision_wait"}
         /\ Notified(pc) # pc => pc \in {"flow_wait", "decision_wait"}
BY DEF WorkerPc, Notified

-----------------------------------------------------------------------------
(***************************************************************************)
(* Which actions touch which variables.                                    *)
(***************************************************************************)
\* A step leaves the flow queue alone, empties it with its connection, or moves one flow.
LEMMA FlowQueueEffect ==
  [Next]_vars => \/ pending_flows' = pending_flows
                 \/ pending_flows' = <<>> /\ generation' = generation + 1
                 \/ consume_accepted \/ TakeFlow
BY DEF Next, Worker, vars, queues, connection, worker, counters, history, NewGeneration,
       Count, start, set_online, set_offline, stop, consume_unavailable,
       consume_queue_full, drain_decisions, ExitOnStop, ParkForFlow, Connect,
       ExchangeReplied, ExchangeFailed, CheckReply, DiscardReply, JudgeInvalid,
       JudgeNormal, ParkForRoom, QueueDecision, IgnoreFailure, FailTransport,
       ReportFailure

\* A step leaves the decisions alone, takes all of them, or queues one.
LEMMA DecisionQueueEffect ==
  [Next]_vars => \/ pending_decisions' = pending_decisions
                 \/ pending_decisions' = <<>>
                 \/ QueueDecision
BY DEF Next, Worker, vars, queues, connection, worker, counters, history, NewGeneration,
       Count, start, set_online, set_offline, stop, consume_unavailable,
       consume_queue_full, consume_accepted, drain_decisions, ExitOnStop, ParkForFlow,
       TakeFlow, Connect, ExchangeReplied, ExchangeFailed, CheckReply, DiscardReply,
       JudgeInvalid, JudgeNormal, ParkForRoom, IgnoreFailure, FailTransport,
       ReportFailure

\* A new generation always comes with empty queues.
LEMMA GenerationEffect ==
  [Next]_vars => \/ NewGeneration
                 \/ generation' = generation /\ online' = online
BY DEF Next, Worker, vars, queues, connection, worker, counters, history,
       Count, start, set_online, set_offline, stop, consume_unavailable,
       consume_queue_full, consume_accepted, drain_decisions, ExitOnStop, ParkForFlow,
       TakeFlow, Connect, ExchangeReplied, ExchangeFailed, CheckReply, DiscardReply,
       JudgeInvalid, JudgeNormal, ParkForRoom, QueueDecision, IgnoreFailure,
       FailTransport, ReportFailure

\* Only consume() accepts flows.
LEMMA AcceptEffect ==
  [Next]_vars => \/ consume_accepted
                 \/ /\ accepted_gen' = accepted_gen
                    /\ \/ offered' = offered
                       \/ offered < MaxFlows /\ offered' = offered + 1
BY DEF Next, Worker, vars, queues, connection, worker, counters, history, NewGeneration,
       Count, start, set_online, set_offline, stop, consume_unavailable,
       consume_queue_full, drain_decisions, ExitOnStop, ParkForFlow,
       TakeFlow, Connect, ExchangeReplied, ExchangeFailed, CheckReply, DiscardReply,
       JudgeInvalid, JudgeNormal, ParkForRoom, QueueDecision, IgnoreFailure,
       FailTransport, ReportFailure

\* The worker's flow changes only when it takes the next one.
LEMMA InFlightEffect ==
  [Next]_vars => \/ TakeFlow
                 \/ in_flight' = in_flight /\ gen' = gen
BY DEF Next, Worker, vars, queues, connection, worker, counters, history, NewGeneration,
       Count, start, set_online, set_offline, stop, consume_unavailable,
       consume_queue_full, consume_accepted, drain_decisions, ExitOnStop, ParkForFlow,
       Connect, ExchangeReplied, ExchangeFailed, CheckReply, DiscardReply,
       JudgeInvalid, JudgeNormal, ParkForRoom, QueueDecision, IgnoreFailure,
       FailTransport, ReportFailure

\* The worker becomes busy only by taking a flow.
LEMMA BusyEffect ==
  TypeOK /\ [Next]_vars => \/ TakeFlow
                           \/ Busy' => Busy
BY NotifiedPc
   DEF TypeOK, Busy, Notified, WorkerPc,
       Next, Worker, vars, queues, connection, worker, counters, history, NewGeneration,
       Count, start, set_online, set_offline, stop, consume_unavailable,
       consume_queue_full, consume_accepted, drain_decisions, ExitOnStop, ParkForFlow,
       Connect, ExchangeReplied, ExchangeFailed, CheckReply, DiscardReply,
       JudgeInvalid, JudgeNormal, ParkForRoom, QueueDecision, IgnoreFailure,
       FailTransport, ReportFailure

-----------------------------------------------------------------------------
(***************************************************************************)
(* The parts of the inductive invariant, one lemma each.                   *)
(***************************************************************************)
\* The flow queue keeps its type and its capacity.
LEMMA FlowQueueType ==
  ASSUME TypeOK, [Next]_vars
  PROVE  pending_flows' \in Seq(FlowNo) /\ Len(pending_flows') <= QUEUE_CAPACITY
<1> USE ClientAssumption DEF TypeOK
<1>1. CASE pending_flows' = pending_flows
  BY <1>1
<1>2. CASE pending_flows' = <<>>
  BY <1>2
<1>3. CASE consume_accepted
  <2>1. offered + 1 \in FlowNo
    BY <1>3 DEF consume_accepted, FlowNo
  <2> QED BY <1>3, <2>1, AppendElements DEF consume_accepted, HasRoom
<1>4. CASE TakeFlow
  BY <1>4, TailElements DEF TakeFlow
<1> QED BY <1>1, <1>2, <1>3, <1>4, FlowQueueEffect

\* The decision queue keeps its type and its capacity.
LEMMA DecisionQueueType ==
  ASSUME TypeOK, WorkerFlow, [Next]_vars
  PROVE  pending_decisions' \in Seq(FlowNo) /\ Len(pending_decisions') <= QUEUE_CAPACITY
<1> USE ClientAssumption DEF TypeOK
<1>1. CASE pending_decisions' = pending_decisions
  BY <1>1
<1>2. CASE pending_decisions' = <<>>
  BY <1>2
<1>3. CASE QueueDecision
  <2>1. in_flight \in FlowNo
    BY <1>3 DEF QueueDecision, WorkerFlow, Busy
  <2> QED BY <1>3, <2>1, AppendElements DEF QueueDecision, HasRoom
<1> QED BY <1>1, <1>2, <1>3, DecisionQueueEffect

\* The flags and the worker's place keep their types.
LEMMA ConnectionType ==
  ASSUME TypeOK, [Next]_vars
  PROVE  /\ started' \in BOOLEAN /\ stop_requested' \in BOOLEAN /\ online' \in BOOLEAN
         /\ wpc' \in WorkerPc
BY NotifiedPc
   DEF TypeOK, WorkerPc,
       Next, Worker, vars, queues, connection, worker, counters, history, NewGeneration,
       Count, start, set_online, set_offline, stop, consume_unavailable,
       consume_queue_full, consume_accepted, drain_decisions, ExitOnStop, ParkForFlow,
       TakeFlow, Connect, ExchangeReplied, ExchangeFailed, CheckReply, DiscardReply,
       JudgeInvalid, JudgeNormal, ParkForRoom, QueueDecision, IgnoreFailure,
       FailTransport, ReportFailure

\* The generations keep their types.
LEMMA GenerationType ==
  ASSUME TypeOK, [Next]_vars
  PROVE  /\ generation' \in Nat /\ gen' \in Nat /\ socket' \in Nat
         /\ in_flight' \in 0 .. MaxFlows
         /\ reply' \in ReplyKind \cup FailureKind
<1> USE DEF TypeOK
<1>1. generation' \in Nat
  BY GenerationEffect DEF NewGeneration
<1>2. gen' \in Nat /\ in_flight' \in 0 .. MaxFlows
  <2>1. CASE TakeFlow
    <3>1. in_flight' \in FlowNo /\ gen' = generation
      BY <2>1, TailElements DEF TakeFlow
    <3> QED BY <3>1 DEF FlowNo
  <2> QED BY <2>1, InFlightEffect
<1>3. socket' \in Nat /\ reply' \in ReplyKind \cup FailureKind
  BY DEF Next, Worker, vars, queues, connection, worker, counters, history,
         NewGeneration, Count, start, set_online, set_offline, stop, consume_unavailable,
         consume_queue_full, consume_accepted, drain_decisions, ExitOnStop, ParkForFlow,
         TakeFlow, Connect, ExchangeReplied, ExchangeFailed, CheckReply, DiscardReply,
         JudgeInvalid, JudgeNormal, ParkForRoom, QueueDecision, IgnoreFailure,
         FailTransport, ReportFailure
<1> QED BY <1>1, <1>2, <1>3

\* Counters change by one outcome, one submission, one drop or one time-out.
LEMMA CounterEffect ==
  [Next]_vars =>
    \/ UNCHANGED <<submitted, answers, timeouts, answered, reports>>
    \/ consume_accepted
    \/ ReportFailure
    \/ /\ JudgeInvalid \/ JudgeNormal \/ QueueDecision
       /\ \E k \in ReplyKind : Count(k)
BY DEF ReplyKind, Next, Worker, vars, queues, connection, worker, counters, history,
         NewGeneration, Count, start, set_online, set_offline, stop, consume_unavailable,
         consume_queue_full, consume_accepted, drain_decisions, ExitOnStop, ParkForFlow,
         TakeFlow, Connect, ExchangeReplied, ExchangeFailed, CheckReply, DiscardReply,
         JudgeInvalid, JudgeNormal, ParkForRoom, QueueDecision, IgnoreFailure,
         FailTransport, ReportFailure

\* The counters stay natural numbers.
LEMMA CounterType ==
  ASSUME TypeOK, WorkerFlow, [Next]_vars
  PROVE  /\ submitted' \in Nat /\ timeouts' \in Nat /\ answers' \in [ReplyKind -> Nat]
         /\ answered' \in SUBSET FlowNo
         /\ reports' \in Seq(Nat)
<1> USE DEF TypeOK
<1>1. CASE UNCHANGED <<submitted, answers, timeouts, answered, reports>>
  BY <1>1
<1>2. CASE consume_accepted
  BY <1>2 DEF consume_accepted
<1>3. CASE ReportFailure
  <2>1. reports' \in Seq(Nat)
    BY <1>3, AppendElements DEF ReportFailure
  <2> QED BY <1>3, <2>1 DEF ReportFailure
<1>4. ASSUME JudgeInvalid \/ JudgeNormal \/ QueueDecision,
             NEW k \in ReplyKind, Count(k)
      PROVE  /\ submitted' \in Nat /\ timeouts' \in Nat
             /\ answers' \in [ReplyKind -> Nat]
             /\ answered' \in SUBSET FlowNo
             /\ reports' \in Seq(Nat)
  <2>1. in_flight \in FlowNo
    BY <1>4 DEF JudgeInvalid, JudgeNormal, QueueDecision, WorkerFlow, Busy
  <2> QED BY <1>4, <2>1 DEF Count
<1> QED BY <1>1, <1>2, <1>3, <1>4, CounterEffect

\* The history variables keep their types.
LEMMA HistoryType ==
  ASSUME TypeOK, [Next]_vars
  PROVE  /\ offered' \in 0 .. MaxFlows
         /\ accepted_gen' \in [FlowNo -> Nat]
         /\ dropped' \in [DropKind -> Nat]
<1> USE ClientAssumption DEF TypeOK
<1>1. offered' \in 0 .. MaxFlows /\ accepted_gen' \in [FlowNo -> Nat]
  <2>1. CASE consume_accepted
    BY <2>1 DEF consume_accepted, FlowNo
  <2> QED BY <2>1, AcceptEffect
<1>2. dropped' \in [DropKind -> Nat]
  <2>1. \/ dropped' = dropped
        \/ dropped' = [dropped EXCEPT !["unavailable"] = @ + 1]
        \/ dropped' = [dropped EXCEPT !["queue_full"] = @ + 1]
    BY DEF Next, Worker, vars, queues, connection, worker, counters, history,
         NewGeneration, Count, start, set_online, set_offline, stop, consume_unavailable,
         consume_queue_full, consume_accepted, drain_decisions, ExitOnStop, ParkForFlow,
         TakeFlow, Connect, ExchangeReplied, ExchangeFailed, CheckReply, DiscardReply,
         JudgeInvalid, JudgeNormal, ParkForRoom, QueueDecision, IgnoreFailure,
         FailTransport, ReportFailure
  <2> QED BY <2>1 DEF DropKind
<1> QED BY <1>1, <1>2

\* Every step preserves the types and the bounds of the queues.
LEMMA TypeStep == ASSUME TypeOK, WorkerFlow, [Next]_vars PROVE TypeOK'
BY FlowQueueType, DecisionQueueType, ConnectionType, GenerationType, CounterType,
   HistoryType DEF TypeOK

\* A client that is online has not been stopped and has had a generation.
LEMMA OnlineStep ==
  ASSUME TypeOK, OnlineHasGeneration, [Next]_vars PROVE OnlineHasGeneration'
<1> USE DEF TypeOK, OnlineHasGeneration
<1>1. \/ UNCHANGED <<online, generation, stop_requested>>
      \/ set_online \/ set_offline \/ stop \/ FailTransport
  BY DEF Next, Worker, vars, queues, connection, worker, counters, history,
         NewGeneration, Count, start, consume_unavailable,
         consume_queue_full, consume_accepted, drain_decisions, ExitOnStop, ParkForFlow,
         TakeFlow, Connect, ExchangeReplied, ExchangeFailed, CheckReply, DiscardReply,
         JudgeInvalid, JudgeNormal, ParkForRoom, QueueDecision, IgnoreFailure,
         ReportFailure
<1>2. CASE UNCHANGED <<online, generation, stop_requested>>
  BY <1>2
<1>3. CASE set_online
  BY <1>3 DEF set_online, NewGeneration
<1>4. CASE set_offline \/ stop \/ FailTransport
  BY <1>4 DEF set_offline, stop, FailTransport
<1> QED BY <1>1, <1>2, <1>3, <1>4

\* Accepting stamps the flow with the live generation; generations only grow.
LEMMA AcceptedStep ==
  ASSUME TypeOK, AcceptedBefore, [Next]_vars PROVE AcceptedBefore'
<1> USE DEF TypeOK, AcceptedBefore
<1>1. generation' \in Nat /\ generation <= generation'
  BY GenerationEffect DEF NewGeneration
<1>2. CASE consume_accepted
  BY <1>1, <1>2 DEF consume_accepted, FlowNo, connection
<1>3. CASE accepted_gen' = accepted_gen
  <2>1. offered' \in Nat /\ offered <= offered'
    BY AcceptEffect, <1>3 DEF consume_accepted
  <2>2. ASSUME NEW f \in FlowNo
        PROVE  accepted_gen'[f] <= generation' /\ (f > offered' => accepted_gen'[f] = 0)
    <3>1. f \in Nat
      BY ClientAssumption DEF FlowNo
    <3>3. accepted_gen[f] \in Nat
      OBVIOUS
    <3>2. accepted_gen[f] <= generation /\ (f > offered => accepted_gen[f] = 0)
      OBVIOUS
    <3> QED BY <1>1, <1>3, <2>1, <3>1, <3>2, <3>3
  <2> QED BY <2>2
<1> QED BY <1>2, <1>3, AcceptEffect

\* The flow in the worker's hands keeps its stamp while other threads run.
LEMMA WorkerFlowStep ==
  ASSUME TypeOK, OnlineHasGeneration, AcceptedBefore, CurrentGenerationOnly, WorkerFlow,
         [Next]_vars
  PROVE  WorkerFlow'
<1> USE DEF TypeOK
<1>1. generation' \in Nat /\ generation <= generation'
  BY GenerationEffect DEF NewGeneration
<1>2. CASE TakeFlow
  <2>1. in_flight' = pending_flows[1] /\ in_flight' \in FlowNo /\ 1 \in 1 .. Len(pending_flows)
    BY <1>2, TailElements DEF TakeFlow
  <2>2. /\ accepted_gen[in_flight'] = generation /\ generation > 0
        /\ accepted_gen' = accepted_gen /\ offered' = offered /\ gen' = generation
    BY <1>2, <2>1 DEF TakeFlow, CurrentGenerationOnly, OnlineHasGeneration, history
  <2>3. in_flight' <= offered
    BY <2>1, <2>2 DEF AcceptedBefore, FlowNo
  <2> QED BY <1>1, <2>1, <2>2, <2>3 DEF WorkerFlow
<1>3. CASE in_flight' = in_flight /\ gen' = gen /\ (Busy' => Busy)
  <2> SUFFICES ASSUME Busy
               PROVE  /\ in_flight \in FlowNo
                      /\ in_flight <= offered'
                      /\ gen <= generation'
                      /\ accepted_gen'[in_flight] = gen
    BY <1>3 DEF WorkerFlow
  <2>1. /\ in_flight \in FlowNo /\ in_flight <= offered
        /\ gen <= generation /\ accepted_gen[in_flight] = gen
    BY DEF WorkerFlow
  <2>2. CASE consume_accepted
    BY <1>1, <2>1, <2>2 DEF consume_accepted, FlowNo
  <2>3. CASE accepted_gen' = accepted_gen /\ (offered' = offered \/ offered' = offered + 1)
    BY <1>1, <2>1, <2>3 DEF FlowNo
  <2> QED BY <2>2, <2>3, AcceptEffect
<1> QED BY <1>2, <1>3, InFlightEffect, BusyEffect

\* Queued work stays work of the live connection.
LEMMA CurrentStep ==
  ASSUME TypeOK, AcceptedBefore, CurrentGenerationOnly, WorkerFlow, [Next]_vars
  PROVE  CurrentGenerationOnly'
<1> USE DEF TypeOK, CurrentGenerationOnly
<1>1. CASE NewGeneration
  BY <1>1 DEF NewGeneration
<1>2. CASE generation' = generation /\ online' = online
  <2>1. ASSUME NEW f \in FlowNo, accepted_gen[f] = generation
        PROVE  accepted_gen'[f] = generation
    <3>1. CASE consume_accepted
      BY <2>1, <3>1 DEF consume_accepted
    <3> QED BY <2>1, <3>1, AcceptEffect
  <2>2. \A i \in 1 .. Len(pending_flows') :
          online' /\ accepted_gen'[pending_flows'[i]] = generation'
    <3>1. CASE pending_flows' = pending_flows
      <4>1. \A i \in 1 .. Len(pending_flows) : pending_flows[i] \in FlowNo
        OBVIOUS
      <4> QED BY <1>2, <2>1, <3>1, <4>1
    <3>2. CASE pending_flows' = <<>>
      BY <3>2
    <3>3. CASE consume_accepted
      <4>1. offered + 1 \in FlowNo
        BY <3>3, ClientAssumption DEF consume_accepted, FlowNo
      <4>2. online /\ accepted_gen'[offered + 1] = generation
        BY <3>3, <4>1 DEF consume_accepted
      <4>3. \A i \in 1 .. Len(pending_flows) : pending_flows[i] \in FlowNo
        OBVIOUS
      <4>4. \A i \in 1 .. Len(pending_flows') :
              \/ i \in 1 .. Len(pending_flows) /\ pending_flows'[i] = pending_flows[i]
              \/ pending_flows'[i] = offered + 1
        BY <3>3, <4>1, AppendElements DEF consume_accepted
      <4> QED BY <1>2, <2>1, <4>2, <4>3, <4>4
    <3>4. CASE TakeFlow
      <4>1. \A i \in 1 .. Len(pending_flows') :
              /\ i + 1 \in 1 .. Len(pending_flows)
              /\ pending_flows'[i] = pending_flows[i + 1]
        BY <3>4, TailElements DEF TakeFlow
      <4>2. \A i \in 1 .. Len(pending_flows) : pending_flows[i] \in FlowNo
        OBVIOUS
      <4> QED BY <1>2, <2>1, <4>1, <4>2
    <3> QED BY <3>1, <3>2, <3>3, <3>4, FlowQueueEffect
  <2>3. \A i \in 1 .. Len(pending_decisions') :
          online' /\ accepted_gen'[pending_decisions'[i]] = generation'
    <3>1. CASE pending_decisions' = pending_decisions
      <4>1. \A i \in 1 .. Len(pending_decisions) : pending_decisions[i] \in FlowNo
        OBVIOUS
      <4> QED BY <1>2, <2>1, <3>1, <4>1
    <3>2. CASE pending_decisions' = <<>>
      BY <3>2
    <3>3. CASE QueueDecision
      <4>1. in_flight \in FlowNo /\ accepted_gen[in_flight] = generation /\ online
        BY <3>3 DEF QueueDecision, Stale, WorkerFlow, Busy
      <4>2. \A i \in 1 .. Len(pending_decisions) : pending_decisions[i] \in FlowNo
        OBVIOUS
      <4>3. \A i \in 1 .. Len(pending_decisions') :
              \/ /\ i \in 1 .. Len(pending_decisions)
                 /\ pending_decisions'[i] = pending_decisions[i]
              \/ pending_decisions'[i] = in_flight
        BY <3>3, <4>1, AppendElements DEF QueueDecision
      <4> QED BY <1>2, <2>1, <4>1, <4>2, <4>3
    <3> QED BY <3>1, <3>2, <3>3, DecisionQueueEffect
  <2> QED BY <2>2, <2>3
<1> QED BY <1>1, <1>2, GenerationEffect

\* Only the two parking actions leave the worker parked after a step that changes
\* anything a parked worker waits for.
LEMMA ParkEffect ==
  ASSUME TypeOK, [Next]_vars
  PROVE  \/ wpc' \notin {"flow_wait", "decision_wait"}
         \/ ParkForFlow \/ ParkForRoom
         \/ wpc' = wpc /\ UNCHANGED <<pending_flows, pending_decisions, stop_requested,
                                      online, generation, gen>>
BY NotifiedPc
   DEF TypeOK, WorkerPc, Next, Worker, vars, queues, connection, worker, counters, history,
         NewGeneration, Count, start, set_online, set_offline, stop, consume_unavailable,
         consume_queue_full, consume_accepted, drain_decisions, ExitOnStop, 
         TakeFlow, Connect, ExchangeReplied, ExchangeFailed, CheckReply, DiscardReply,
         JudgeInvalid, JudgeNormal, QueueDecision, IgnoreFailure,
         FailTransport, ReportFailure

\* Whoever makes the predicate of a wait true wakes the worker in the same step.
LEMMA WakeupStep ==
  ASSUME TypeOK, NoLostWakeup, [Next]_vars PROVE NoLostWakeup'
<1> USE DEF NoLostWakeup
<1>1. CASE wpc' \notin {"flow_wait", "decision_wait"}
  BY <1>1
<1>2. CASE ParkForFlow
  <2>1. /\ ~stop_requested' /\ ~(online' /\ pending_flows' # <<>>)
        /\ wpc' = "flow_wait"
    BY <1>2 DEF ParkForFlow, queues, connection
  <2> QED BY <2>1
<1>3. CASE ParkForRoom
  <2>1. /\ wpc' = "decision_wait" /\ ~stop_requested' /\ ~Stale'
        /\ pending_decisions' = pending_decisions
    BY <1>3 DEF ParkForRoom, queues, connection, Stale
  <2>2. Len(pending_decisions) = QUEUE_CAPACITY
    BY <1>3, ClientAssumption DEF ParkForRoom, HasRoom, TypeOK
  <2> QED BY <2>1, <2>2
<1>4. CASE wpc' = wpc /\ UNCHANGED <<pending_flows, pending_decisions, stop_requested,
                                     online, generation, gen>>
  BY <1>4 DEF Stale
<1> QED BY <1>1, <1>2, <1>3, <1>4, ParkEffect

\* A report is always about a generation that has just ended.
LEMMA ReportsStep ==
  ASSUME TypeOK, WorkerFlow, ReportEnded, ReportsArePast, [Next]_vars
  PROVE  ReportsArePast'
<1> USE DEF TypeOK
<1>1. generation' \in Nat /\ generation <= generation'
  BY GenerationEffect DEF NewGeneration
<1>2. CASE ReportFailure
  <2>1. /\ reports' = Append(reports, gen) /\ ~Busy' /\ Busy /\ wpc = "report"
    BY <1>2 DEF ReportFailure, Busy
  <2>7. /\ Len(reports') = Len(reports) + 1 /\ Len(reports) \in Nat
        /\ reports'[Len(reports) + 1] = gen
        /\ \A i \in 1 .. Len(reports) : reports'[i] = reports[i]
    BY <2>1, AppendElements
  <2>2. \A i \in 1 .. Len(reports') :
          \/ i \in 1 .. Len(reports) /\ reports'[i] = reports[i]
          \/ reports'[i] = gen
    BY <2>7
  <2>3. \A i \in 1 .. Len(reports) : reports[i] \in Nat /\ reports[i] < generation
    BY DEF ReportsArePast
  <2>4. gen < generation
    BY <2>1 DEF ReportEnded
  <2> SUFFICES ASSUME NEW i \in 1 .. Len(reports') PROVE reports'[i] < generation'
    BY <2>1 DEF ReportsArePast
  <2>5. CASE reports'[i] = gen
    BY <1>1, <2>4, <2>5
  <2>6. CASE i \in 1 .. Len(reports) /\ reports'[i] = reports[i]
    BY <1>1, <2>3, <2>6
  <2> QED BY <2>2, <2>5, <2>6
<1>3. CASE reports' = reports
  <2> SUFFICES ASSUME NEW i \in 1 .. Len(reports)
               PROVE  reports[i] < generation' /\ (Busy' => reports[i] < gen')
    BY <1>3 DEF ReportsArePast
  <2>1. reports[i] \in Nat /\ reports[i] < generation /\ (Busy => reports[i] < gen)
    BY DEF ReportsArePast
  <2>2. CASE TakeFlow
    BY <1>1, <2>1, <2>2 DEF TakeFlow
  <2>3. CASE gen' = gen /\ (Busy' => Busy)
    BY <1>1, <2>1, <2>3
  <2> QED BY <2>2, <2>3, InFlightEffect, BusyEffect
<1> QED BY <1>2, <1>3, CounterEffect DEF consume_accepted, Count

\* A notification moves the worker to one of two places or not at all.
LEMMA NotifiedPlace ==
  ASSUME NEW pc
  PROVE  Notified(pc) = pc \/ Notified(pc) \in {"top", "judged"}
BY DEF Notified

\* The worker gets to its report through the failure of its own connection.
LEMMA ReportPcEffect ==
  ASSUME [Next]_vars, wpc' = "report"
  PROVE  wpc = "report" \/ FailTransport
<1>1. Notified(wpc) = wpc \/ Notified(wpc) \in {"top", "judged"}
  BY NotifiedPlace
<1> QED BY <1>1
     DEF Next, Worker, vars, queues, connection, worker, counters, history,
         NewGeneration, Count, start, set_online, set_offline, stop, consume_unavailable,
         consume_queue_full, consume_accepted, drain_decisions, ExitOnStop, ParkForFlow,
         TakeFlow, Connect, ExchangeReplied, ExchangeFailed, CheckReply, DiscardReply,
         JudgeInvalid, JudgeNormal, ParkForRoom, QueueDecision, IgnoreFailure,
         ReportFailure

\* The worker gets to its exchange by connecting.
LEMMA ExchangePcEffect ==
  ASSUME [Next]_vars, wpc' = "exchange"
  PROVE  (wpc = "exchange" /\ socket' = socket) \/ Connect
<1>1. Notified(wpc) = wpc \/ Notified(wpc) \in {"top", "judged"}
  BY NotifiedPlace
<1> QED BY <1>1
     DEF Next, Worker, vars, queues, connection, worker, counters, history,
         NewGeneration, Count, start, set_online, set_offline, stop, consume_unavailable,
         consume_queue_full, consume_accepted, drain_decisions, ExitOnStop, ParkForFlow,
         TakeFlow, ExchangeReplied, ExchangeFailed, CheckReply, DiscardReply,
         JudgeInvalid, JudgeNormal, ParkForRoom, QueueDecision, IgnoreFailure,
         FailTransport, ReportFailure

\* A report is only made of a generation that is over.
LEMMA ReportEndedStep ==
  ASSUME TypeOK, WorkerFlow, ReportEnded, [Next]_vars PROVE ReportEnded'
<1> USE DEF TypeOK, ReportEnded
<1>1. generation' \in Nat /\ generation <= generation'
  BY GenerationEffect DEF NewGeneration
<1>2. CASE FailTransport
  BY <1>2 DEF FailTransport, NewGeneration, WorkerFlow, Busy
<1>3. CASE wpc = "report"
  BY <1>1, <1>3, InFlightEffect DEF TakeFlow
<1> QED BY <1>2, <1>3, ReportPcEffect

\* Reports are appended in increasing order of generation.
LEMMA OneReportStep ==
  ASSUME TypeOK, ReportsArePast, OneReportPerConnection, [Next]_vars
  PROVE  OneReportPerConnection'
<1> USE DEF TypeOK, OneReportPerConnection
<1>1. CASE ReportFailure
  <2>1. reports' = Append(reports, gen) /\ Busy
    BY <1>1 DEF ReportFailure, Busy
  <2>2. /\ Len(reports') = Len(reports) + 1 /\ Len(reports) \in Nat
        /\ reports'[Len(reports) + 1] = gen
        /\ \A i \in 1 .. Len(reports) : reports'[i] = reports[i]
    BY <2>1, AppendElements
  <2>3. \A i \in 1 .. Len(reports) : reports[i] < gen
    BY <2>1 DEF ReportsArePast
  <2> SUFFICES ASSUME NEW i \in 1 .. Len(reports'), NEW j \in 1 .. Len(reports'), i < j
               PROVE  reports'[i] < reports'[j]
    OBVIOUS
  <2>4. i \in 1 .. Len(reports)
    BY <2>2
  <2>5. CASE j = Len(reports) + 1
    BY <2>2, <2>3, <2>4, <2>5
  <2>6. CASE j \in 1 .. Len(reports)
    BY <2>2, <2>4, <2>6
  <2>7. j \in 1 .. (Len(reports) + 1) /\ Len(reports) \in Nat
    BY <2>2
  <2>8. j = Len(reports) + 1 \/ j \in 1 .. Len(reports)
    BY <2>7, LastOrBefore
  <2> QED BY <2>5, <2>6, <2>8
<1>2. CASE reports' = reports
  BY <1>2
<1> QED BY <1>1, <1>2, CounterEffect DEF consume_accepted, Count

\* A request is sent over a socket of its own generation.
LEMMA SocketStep ==
  ASSUME TypeOK, OnlineHasGeneration, AcceptedBefore, CurrentGenerationOnly, WorkerFlow,
         SentOnOwnSocket, [Next]_vars
  PROVE  SentOnOwnSocket'
<1> USE DEF SentOnOwnSocket
<1>1. WorkerFlow'
  BY WorkerFlowStep
<1>2. wpc' = "exchange" => accepted_gen'[in_flight'] = gen'
  BY <1>1 DEF WorkerFlow, Busy
<1>3. CASE Connect
  BY <1>2, <1>3 DEF Connect
<1>4. CASE wpc = "exchange" /\ socket' = socket /\ ~TakeFlow
  BY <1>2, <1>4, InFlightEffect
<1>5. wpc = "exchange" => ~TakeFlow
  BY DEF TakeFlow
<1> QED BY <1>3, <1>4, <1>5, ExchangePcEffect

\* Flow f is among the queued ones.
Queued(f) == \E i \in 1 .. Len(pending_flows) : pending_flows[i] = f

\* A flow leaves the queue into the worker's hands or with its connection.
LEMMA QueuedEffect ==
  ASSUME TypeOK, [Next]_vars, NEW f, Queued(f), generation' = generation
  PROVE  Queued(f)' \/ (TakeFlow /\ in_flight' = f)
<1> USE DEF TypeOK
<1>1. PICK i \in 1 .. Len(pending_flows) : pending_flows[i] = f
  BY DEF Queued
<1>2. CASE pending_flows' = pending_flows
  BY <1>1, <1>2 DEF Queued
<1>3. CASE consume_accepted
  <2>1. offered + 1 \in FlowNo
    BY <1>3, ClientAssumption DEF consume_accepted, FlowNo
  <2>2. i \in 1 .. Len(pending_flows') /\ pending_flows'[i] = f
    BY <1>1, <1>3, <2>1, AppendElements DEF consume_accepted
  <2> QED BY <2>2 DEF Queued
<1>4. CASE TakeFlow
  <2>1. /\ in_flight' = pending_flows[1] /\ Len(pending_flows') = Len(pending_flows) - 1
        /\ \A k \in 1 .. Len(pending_flows') : pending_flows'[k] = pending_flows[k + 1]
        /\ Len(pending_flows) \in Nat
    BY <1>4, TailElements DEF TakeFlow
  <2>2. CASE i = 1
    BY <1>1, <1>4, <2>1, <2>2
  <2>3. CASE i # 1
    <3>1. i - 1 \in 1 .. Len(pending_flows') /\ pending_flows'[i - 1] = pending_flows[i]
      BY <2>1, <2>3
    <3> QED BY <1>1, <3>1 DEF Queued
  <2> QED BY <2>2, <2>3
<1> QED BY <1>2, <1>3, <1>4, FlowQueueEffect

\* The worker lets go of a flow of the live connection only with an outcome.
LEMMA ReleaseEffect ==
  ASSUME TypeOK, OnlineHasGeneration, OneThread, WorkerFlow, ReportEnded, [Next]_vars,
         Busy, ~Busy', online'
  PROVE  \/ accepted_gen[in_flight] # generation'
         \/ in_flight \in answered'
<1> USE DEF TypeOK
<1>1. \/ DiscardReply \/ IgnoreFailure \/ ReportFailure
      \/ JudgeInvalid \/ JudgeNormal \/ QueueDecision
  <2>1. wpc \in {"connect", "exchange", "replied", "judged", "decision_wait", "fail",
                 "report"}
    BY DEF Busy
  <2>2. wpc' \notin {"connect", "exchange", "replied", "judged", "decision_wait", "fail",
                     "report"}
    BY DEF Busy
  <2>3. Notified(wpc) \in {"connect", "exchange", "replied", "judged", "fail", "report"}
    BY <2>1 DEF Notified
  <2>4. ~start
    BY <2>1 DEF start, OneThread
  <2> QED BY <2>1, <2>2, <2>3, <2>4
     DEF Next, Worker, vars, queues, connection, worker, counters, history,
         set_online, set_offline, stop, consume_unavailable,
         consume_queue_full, consume_accepted, drain_decisions, ExitOnStop, ParkForFlow,
         TakeFlow, Connect, ExchangeReplied, ExchangeFailed, CheckReply,
         ParkForRoom, FailTransport
<1>2. CASE DiscardReply \/ IgnoreFailure
  <2>1. generation' = generation /\ online /\ ~stop_requested
    BY <1>2 DEF DiscardReply, IgnoreFailure, connection, OnlineHasGeneration
  <2>2. generation # gen
    BY <1>2, <2>1 DEF DiscardReply, IgnoreFailure, Stale
  <2> QED BY <2>1, <2>2 DEF WorkerFlow
<1>3. CASE ReportFailure
  BY <1>3 DEF ReportFailure, ReportEnded, WorkerFlow, connection
<1>4. CASE JudgeInvalid \/ JudgeNormal \/ QueueDecision
  BY <1>4 DEF JudgeInvalid, JudgeNormal, QueueDecision, Count
<1> QED BY <1>1, <1>2, <1>3, <1>4

\* The worker thread is made once.
LEMMA OneThreadStep ==
  ASSUME TypeOK, OneThread, [Next]_vars PROVE OneThread'
<1>1. wpc = "none" => Notified(wpc) = "none"
  BY DEF Notified
<1> QED BY <1>1
     DEF OneThread, Next, Worker, vars, queues, connection, worker, counters, history,
         NewGeneration, Count, start, set_online, set_offline, stop, consume_unavailable,
         consume_queue_full, consume_accepted, drain_decisions, ExitOnStop, ParkForFlow,
         TakeFlow, Connect, ExchangeReplied, ExchangeFailed, CheckReply, DiscardReply,
         JudgeInvalid, JudgeNormal, ParkForRoom, QueueDecision, IgnoreFailure,
         FailTransport, ReportFailure

\* Outcomes are never taken back.
LEMMA AnsweredGrows == [Next]_vars => answered \subseteq answered'
BY DEF Next, Worker, vars, queues, connection, worker, counters, history,
       NewGeneration, Count, start, set_online, set_offline, stop, consume_unavailable,
       consume_queue_full, consume_accepted, drain_decisions, ExitOnStop, ParkForFlow,
       TakeFlow, Connect, ExchangeReplied, ExchangeFailed, CheckReply, DiscardReply,
       JudgeInvalid, JudgeNormal, ParkForRoom, QueueDecision, IgnoreFailure,
       FailTransport, ReportFailure

\* A flow of the live connection moves from the queue to the worker to its outcome.
LEMMA NoSilentLossStep ==
  ASSUME TypeOK, OnlineHasGeneration, OneThread, AcceptedBefore, WorkerFlow, ReportEnded,
         NoSilentLoss, [Next]_vars
  PROVE  NoSilentLoss'
<1> SUFFICES ASSUME online', NEW f \in FlowNo, accepted_gen'[f] = generation'
             PROVE  Queued(f)' \/ (Busy' /\ in_flight' = f) \/ f \in answered'
  BY DEF NoSilentLoss, Queued
<1>1. CASE NewGeneration
  <2>1. generation' \in Nat /\ generation' > generation
    BY <1>1 DEF NewGeneration, TypeOK
  <2>3. consume_accepted => generation' = generation
    BY DEF consume_accepted, connection
  <2>4. ~consume_accepted
    BY <2>1, <2>3 DEF TypeOK
  <2>5. accepted_gen' = accepted_gen
    BY <2>4, AcceptEffect
  <2>2. accepted_gen[f] \in Nat /\ accepted_gen[f] <= generation /\ generation \in Nat
    BY DEF AcceptedBefore, TypeOK
  <2> QED BY <2>1, <2>2, <2>5
<1>2. CASE generation' = generation /\ online' = online /\ consume_accepted
  <2>1. CASE f = offered + 1
    <3>1. /\ Len(pending_flows') \in Nat /\ Len(pending_flows) + 1 = Len(pending_flows')
          /\ Len(pending_flows) \in Nat
          /\ pending_flows'[Len(pending_flows) + 1] = f
      BY <1>2, <2>1, AppendElements DEF consume_accepted, TypeOK
    <3>2. Len(pending_flows) + 1 \in 1 .. Len(pending_flows')
      BY <3>1
    <3> QED BY <3>1, <3>2 DEF Queued
  <2>2. CASE f # offered + 1
    <3>1. accepted_gen[f] = generation
      BY <1>2, <2>2 DEF consume_accepted, TypeOK
    <3>2. Queued(f) \/ (Busy /\ in_flight = f) \/ f \in answered
      BY <1>2, <3>1 DEF NoSilentLoss, Queued
    <3>3. in_flight' = in_flight /\ answered' = answered
      BY <1>2 DEF consume_accepted
    <3>4. Busy => Busy'
      BY <1>2 DEF consume_accepted, Busy, Notified
    <3>5. Queued(f) => Queued(f)'
      BY <1>2, QueuedEffect DEF consume_accepted, TakeFlow
    <3> QED BY <3>2, <3>3, <3>4, <3>5
  <2> QED BY <2>1, <2>2
<1>3. CASE generation' = generation /\ online' = online /\ accepted_gen' = accepted_gen
  <2>1. Queued(f) \/ (Busy /\ in_flight = f) \/ f \in answered
    BY <1>3 DEF NoSilentLoss, Queued
  <2>2. CASE f \in answered
    BY <2>2, AnsweredGrows
  <2>3. CASE Queued(f)
    <3>1. TakeFlow => Busy'
      BY DEF TakeFlow, Busy
    <3> QED BY <1>3, <2>3, <3>1, QueuedEffect
  <2>4. CASE Busy /\ in_flight = f
    <3>1. in_flight' = in_flight
      BY <2>4, InFlightEffect DEF TakeFlow, Busy
    <3>2. CASE Busy'
      BY <2>4, <3>1, <3>2
    <3>3. CASE ~Busy'
      BY <1>3, <2>4, <3>3, ReleaseEffect
    <3> QED BY <3>2, <3>3
  <2> QED BY <2>1, <2>2, <2>3, <2>4
<1> QED BY <1>1, <1>2, <1>3, GenerationEffect, AcceptEffect

\* The outcomes counted so far.
Outcomes == answers["normal"] + answers["anomaly"] + answers["invalid"] + timeouts

\* The flow the worker holds, if any.
Held == IF Busy THEN 1 ELSE 0

\* What a step does to the flows that are counted: at most one moves on.
LEMMA OutcomeBalance ==
  ASSUME TypeOK, [Next]_vars
  PROVE  \/ /\ Outcomes' = Outcomes /\ submitted' = submitted /\ (Busy' => Busy)
            /\ Len(pending_flows') <= Len(pending_flows)
         \/ /\ Outcomes' = Outcomes /\ submitted' = submitted + 1 /\ (Busy' => Busy)
            /\ Len(pending_flows') = Len(pending_flows) + 1
         \/ /\ Outcomes' = Outcomes /\ submitted' = submitted /\ ~Busy
            /\ Len(pending_flows') = Len(pending_flows) - 1
         \/ /\ Outcomes' <= Outcomes + 1 /\ submitted' = submitted /\ Busy /\ ~Busy'
            /\ Len(pending_flows') = Len(pending_flows)
<1> USE DEF TypeOK
<1>1. CASE TakeFlow
  <2>1. Outcomes' = Outcomes /\ submitted' = submitted /\ ~Busy
    BY <1>1 DEF TakeFlow, Outcomes, counters, Busy
  <2>2. Len(pending_flows') = Len(pending_flows) - 1
    BY <1>1, TailElements DEF TakeFlow
  <2> QED BY <2>1, <2>2
<1>2. CASE consume_accepted
  <2>1. Outcomes' = Outcomes /\ submitted' = submitted + 1
    BY <1>2 DEF consume_accepted, Outcomes
  <2>2. Busy' => Busy
    BY <1>2, BusyEffect DEF consume_accepted, TakeFlow
  <2>3. offered + 1 \in FlowNo
    BY <1>2, ClientAssumption DEF consume_accepted, FlowNo
  <2>4. Len(pending_flows') = Len(pending_flows) + 1
    BY <1>2, <2>3, AppendElements DEF consume_accepted
  <2> QED BY <2>1, <2>2, <2>4
<1>3. CASE ReportFailure
  <2>1. Busy /\ ~Busy' /\ submitted' = submitted /\ pending_flows' = pending_flows
    BY <1>3 DEF ReportFailure, Busy, queues
  <2>2. timeouts' = timeouts \/ timeouts' = timeouts + 1
    BY <1>3 DEF ReportFailure
  <2>3. Outcomes' <= Outcomes + 1
    BY <1>3, <2>2 DEF ReportFailure, Outcomes, ReplyKind
  <2> QED BY <2>1, <2>3
<1>4. CASE /\ JudgeInvalid \/ JudgeNormal \/ QueueDecision
           /\ \E k \in ReplyKind : Count(k)
  <2>1. /\ Busy /\ ~Busy' /\ submitted' = submitted /\ pending_flows' = pending_flows
    BY <1>4 DEF JudgeInvalid, JudgeNormal, QueueDecision, Count, Busy, queues
  <2>2. PICK k \in ReplyKind : Count(k)
    BY <1>4
  <2>3. timeouts' = timeouts /\ answers' = [answers EXCEPT ![k] = @ + 1]
    BY <2>2 DEF Count
  <2>4. Outcomes' = Outcomes + 1
    BY <2>2, <2>3 DEF Outcomes, ReplyKind
  <2>5. Outcomes \in Nat
    BY DEF Outcomes, ReplyKind
  <2> QED BY <2>1, <2>4, <2>5
<1>5. CASE /\ UNCHANGED <<submitted, answers, timeouts, answered, reports>>
           /\ ~TakeFlow /\ ~consume_accepted
  <2>1. Outcomes' = Outcomes /\ submitted' = submitted
    BY <1>5 DEF Outcomes
  <2>2. Busy' => Busy
    BY <1>5, BusyEffect
  <2>3. pending_flows' = pending_flows \/ pending_flows' = <<>>
    BY <1>5, FlowQueueEffect
  <2>4. Len(pending_flows') <= Len(pending_flows)
    BY <2>3, EmptyQueue
  <2> QED BY <2>1, <2>2, <2>4
<1> QED BY <1>1, <1>2, <1>3, <1>4, <1>5, CounterEffect

\* Outcomes, queued flows and the flow in the worker's hands stay within what was
\* submitted.
LEMMA OutcomesStep ==
  ASSUME TypeOK, TypeOK', OutcomesWithinSubmitted, [Next]_vars
  PROVE  OutcomesWithinSubmitted'
<1> DEFINE Counted(a, t) == a["normal"] + a["anomaly"] + a["invalid"] + t
<1>0. ASSUME NEW a \in [ReplyKind -> Nat], NEW t \in Nat
      PROVE  Counted(a, t) \in Nat
  BY <1>0 DEF ReplyKind
<1>1. /\ answers \in [ReplyKind -> Nat] /\ timeouts \in Nat
      /\ answers' \in [ReplyKind -> Nat] /\ timeouts' \in Nat
  BY DEF TypeOK
<1>2. Counted(answers, timeouts) \in Nat /\ Counted(answers', timeouts') \in Nat
  BY <1>0, <1>1
<1>3. Outcomes \in Nat /\ submitted \in Nat /\ Len(pending_flows) \in Nat
  BY <1>2 DEF TypeOK, Outcomes
<1>4. Outcomes' \in Nat /\ submitted' \in Nat
  BY <1>2 DEF TypeOK, Outcomes
<1>5. Len(pending_flows') \in Nat
  BY DEF TypeOK
<1>6. /\ Outcomes \in Nat /\ Outcomes' \in Nat /\ submitted \in Nat /\ submitted' \in Nat
      /\ Len(pending_flows) \in Nat /\ Len(pending_flows') \in Nat
  BY <1>3, <1>4, <1>5
<1>7. Outcomes + Len(pending_flows) + Held <= submitted
  BY DEF OutcomesWithinSubmitted, Outcomes, Held
<1>8. Outcomes' + Len(pending_flows') + Held' <= submitted'
  BY <1>6, <1>7, OutcomeBalance DEF Held
<1> QED BY <1>8 DEF OutcomesWithinSubmitted, Outcomes, Held

-----------------------------------------------------------------------------
(***************************************************************************)
(* The theorems.                                                           *)
(***************************************************************************)
\* The inductive invariant holds in every state of the client.
THEOREM Invariance == Spec => []IInv
<1>1. Init => IInv
  <2> SUFFICES ASSUME Init PROVE IInv
    OBVIOUS
  <2>1. /\ pending_flows \in Seq(FlowNo) /\ pending_decisions \in Seq(FlowNo)
        /\ reports \in Seq(Nat)
    BY EmptyQueue DEF Init
  <2>2. Len(pending_flows) <= QUEUE_CAPACITY /\ Len(pending_decisions) <= QUEUE_CAPACITY
    BY ClientAssumption, EmptyQueue DEF Init
  <2>3. /\ answers \in [ReplyKind -> Nat] /\ dropped \in [DropKind -> Nat]
        /\ accepted_gen \in [FlowNo -> Nat] /\ answered \in SUBSET FlowNo
    BY DEF Init
  <2>4. in_flight \in 0 .. MaxFlows /\ offered \in 0 .. MaxFlows
    BY ClientAssumption DEF Init
  <2>5. TypeOK
    BY <2>1, <2>2, <2>3, <2>4 DEF Init, TypeOK, WorkerPc, ReplyKind, FailureKind
  <2>6. Len(pending_flows) = 0 /\ Len(pending_decisions) = 0 /\ Len(reports) = 0
    BY EmptyQueue DEF Init
  <2>7. AcceptedBefore
    BY DEF Init, AcceptedBefore
  <2>8. OnlineHasGeneration /\ OneThread /\ WorkerFlow /\ NoLostWakeup /\ ReportEnded
        /\ NoSilentLoss /\ SentOnOwnSocket
    BY DEF Init, OnlineHasGeneration, OneThread, WorkerFlow, NoLostWakeup, ReportEnded,
           NoSilentLoss, SentOnOwnSocket, Busy
  <2>9. CurrentGenerationOnly /\ ReportsArePast /\ OneReportPerConnection
    BY <2>6 DEF CurrentGenerationOnly, ReportsArePast, OneReportPerConnection
  <2>10. OutcomesWithinSubmitted
    BY <2>6 DEF OutcomesWithinSubmitted, Init, Busy, ReplyKind
  <2> QED BY <2>5, <2>7, <2>8, <2>9, <2>10 DEF IInv
<1>2. IInv /\ [Next]_vars => IInv'
  <2> SUFFICES ASSUME IInv, [Next]_vars PROVE IInv'
    OBVIOUS
  <2> USE DEF IInv
  <2>1. TypeOK'
    BY TypeStep
  <2>2. OnlineHasGeneration' /\ OneThread' /\ AcceptedBefore' /\ WorkerFlow'
    BY OnlineStep, OneThreadStep, AcceptedStep, WorkerFlowStep
  <2>3. CurrentGenerationOnly' /\ NoLostWakeup'
    BY CurrentStep, WakeupStep
  <2>4. ReportEnded' /\ ReportsArePast' /\ OneReportPerConnection'
    BY ReportEndedStep, ReportsStep, OneReportStep
  <2>5. NoSilentLoss' /\ SentOnOwnSocket'
    BY NoSilentLossStep, SocketStep
  <2>6. OutcomesWithinSubmitted'
    BY <2>1, OutcomesStep
  <2> QED BY <2>1, <2>2, <2>3, <2>4, <2>5, <2>6
<1> QED BY <1>1, <1>2, PTL DEF Spec

\* Both queues of async_ai_client.cpp respect queue_capacity, at any capacity.
THEOREM TypeCorrect == Spec => []TypeOK
BY Invariance, PTL DEF IInv

\* No flow or decision of an earlier connection is ever queued, though run() gives
\* up the lock for the whole exchange.
THEOREM OnlyCurrent == Spec => []CurrentGenerationOnly
BY Invariance, PTL DEF IInv

\* The worker never sleeps while the predicate of its condition_.wait holds.
THEOREM Wakeups == Spec => []NoLostWakeup
BY Invariance, PTL DEF IInv

\* While a connection is up, every flow it accepted is queued, with the worker or
\* has its outcome.
THEOREM NothingLost == Spec => []NoSilentLoss
BY Invariance, PTL DEF IInv

\* The counters of get_stats() never claim more outcomes than submissions.
THEOREM OutcomesBounded == Spec => []OutcomesWithinSubmitted
BY Invariance, PTL DEF IInv

\* run() sends a flow only through a socket made for its own generation.
THEOREM OwnSocket == Spec => []SentOnOwnSocket
BY Invariance, PTL DEF IInv

\* fail_transport() calls failure_handler_ at most once for a connection.
THEOREM OneReport == Spec => []OneReportPerConnection
BY Invariance, PTL DEF IInv

\* fail_transport() never takes down a connection other than the one that failed.
THEOREM HealthySurvives == Spec => HealthyConnectionSurvives
<1>1. IInv /\ [Next]_vars =>
        [wpc = "fail" /\ wpc' # "fail" /\ online /\ ~online'
           => accepted_gen[in_flight] = generation]_vars
  <2> SUFFICES ASSUME IInv, [Next]_vars, wpc = "fail", wpc' # "fail", online, ~online'
               PROVE  accepted_gen[in_flight] = generation
    OBVIOUS
  <2>1. Notified(wpc) = "fail" /\ Busy
    BY DEF Notified, Busy
  <2>2. FailTransport
    BY <2>1
       DEF Next, Worker, vars, queues, connection, worker, counters, history, start,
           set_online, set_offline, stop, consume_unavailable, consume_queue_full,
           consume_accepted, drain_decisions, ExitOnStop, ParkForFlow, TakeFlow, Connect,
           ExchangeReplied, ExchangeFailed, CheckReply, DiscardReply, JudgeInvalid,
           JudgeNormal, ParkForRoom, QueueDecision, IgnoreFailure, ReportFailure
  <2> QED BY <2>1, <2>2 DEF FailTransport, Stale, IInv, WorkerFlow
<1> QED BY <1>1, Invariance, PTL DEF Spec, HealthyConnectionSurvives

-----------------------------------------------------------------------------
(***************************************************************************)
(* The client keeps its promise to the supervisor.                         *)
(***************************************************************************)
\* A notification does not change the worker's phase: a parked worker is where its
\* wait began.
LEMMA NotifiedPhase ==
  ASSUME TypeOK, wpc' = Notified(wpc)
  PROVE  Phase' = Phase
BY DEF TypeOK, WorkerPc, Phase, Notified

\* What the supervisor and the capture thread call changes the connection and at most
\* wakes the worker.
LEMMA CallImplements ==
  ASSUME TypeOK, OneThread,
         \/ start \/ set_online \/ set_offline \/ stop
         \/ consume_unavailable \/ consume_queue_full \/ consume_accepted
         \/ drain_decisions
  PROVE  Abs!AbsNext \/ UNCHANGED Abs!abs_vars
<1>1. CASE start
  <2>1. Phase = "none" /\ Phase' = "idle"
    BY <1>1 DEF start, OneThread, Phase
  <2> QED BY <1>1, <2>1 DEF start, Abs!AbsNext, Abs!AbsStart
<1>2. CASE set_online
  BY <1>2, NotifiedPhase DEF set_online, NewGeneration, Abs!AbsNext, Abs!GoOnline
<1>3. CASE set_offline
  BY <1>3, NotifiedPhase DEF set_offline, NewGeneration, Abs!AbsNext, Abs!GoOffline
<1>4. CASE stop
  BY <1>4, NotifiedPhase DEF stop, NewGeneration, Abs!AbsNext, Abs!AbsStop
<1>5. CASE consume_unavailable \/ consume_queue_full
  BY <1>5 DEF consume_unavailable, consume_queue_full, connection, worker, Phase,
              Abs!abs_vars
<1>6. CASE consume_accepted \/ drain_decisions
  BY <1>6, NotifiedPhase DEF consume_accepted, drain_decisions, connection, Abs!abs_vars
<1> QED BY <1>1, <1>2, <1>3, <1>4, <1>5, <1>6

\* The worker's steps: it takes a flow of the live connection, ends it, or takes its
\* own connection down and then reports.
LEMMA WorkerImplements ==
  ASSUME TypeOK, Worker
  PROVE  Abs!AbsNext \/ UNCHANGED Abs!abs_vars
<1>1. CASE ExitOnStop
  BY <1>1 DEF ExitOnStop, connection, Phase, Abs!AbsNext, Abs!Exit
<1>2. CASE TakeFlow
  BY <1>2 DEF TakeFlow, connection, Phase, Abs!AbsNext, Abs!Take
<1>3. CASE ParkForFlow \/ Connect \/ ExchangeReplied \/ ExchangeFailed \/ CheckReply
           \/ ParkForRoom
  BY <1>3 DEF ParkForFlow, Connect, ExchangeReplied, ExchangeFailed, CheckReply,
              ParkForRoom, connection, Phase, Abs!abs_vars
<1>4. CASE DiscardReply \/ JudgeInvalid \/ JudgeNormal \/ QueueDecision \/ IgnoreFailure
  BY <1>4 DEF DiscardReply, JudgeInvalid, JudgeNormal, QueueDecision, IgnoreFailure,
              connection, Phase, Abs!AbsNext, Abs!Finish
<1>5. CASE FailTransport
  BY <1>5 DEF FailTransport, NewGeneration, Stale, Phase, Abs!AbsNext, Abs!Fail, Abs!Live
<1>6. CASE ReportFailure
  BY <1>6 DEF ReportFailure, connection, Phase, Abs!AbsNext, Abs!Report
<1> QED BY <1>1, <1>2, <1>3, <1>4, <1>5, <1>6 DEF Worker

\* async_ai_client.cpp implements AiClientAbs: whatever its queues and waits do, the
\* worker only ends the connection it took its flow under and reports every one it ends.
THEOREM Refinement == Spec => RefinesAbs
<1>1. Init => Abs!AbsInit
  BY DEF Init, Phase, Abs!AbsInit
<1>2. IInv /\ [Next]_vars => [Abs!AbsNext]_(Abs!abs_vars)
  <2> SUFFICES ASSUME IInv, [Next]_vars
               PROVE  Abs!AbsNext \/ UNCHANGED Abs!abs_vars
    OBVIOUS
  <2>1. CASE UNCHANGED vars
    BY <2>1 DEF vars, connection, worker, Phase, Abs!abs_vars
  <2>2. CASE Worker
    BY <2>2, WorkerImplements DEF IInv
  <2>3. CASE ~Worker /\ Next
    BY <2>3, CallImplements DEF IInv, Next
  <2> QED BY <2>1, <2>2, <2>3
<1> QED BY <1>1, <1>2, Invariance, PTL DEF Spec, RefinesAbs, Abs!AbsSpec
=============================================================================
