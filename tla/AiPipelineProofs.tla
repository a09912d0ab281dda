-------------------------- MODULE AiPipelineProofs --------------------------
(***************************************************************************)
(* Proofs about AiPipeline: whichever children come and go at the shared   *)
(* socket path, a judgement that counts was given by the child the         *)
(* connection was opened for, for every restart limit and any number of    *)
(* children.                                                               *)
(*                                                                         *)
(* The worker compares generations, never children, so the invariant says  *)
(* why that is enough: the client is online only while the supervisor is,  *)
(* an online supervisor has had no other child since the ready line, and   *)
(* each change of the supervisor's state gives a generation the worker has *)
(* not taken a flow under.                                                 *)
(***************************************************************************)
EXTENDS AiPipeline, TLAPS

\* Generations and children are counted, and the worker's generation is one of those
\* there have been.
Numbered ==
  /\ generation \in Nat /\ attempt \in Nat
  /\ working_for \in 0 .. generation

\* The client has a connection only while the supervisor is online.
ClientFollows == online => state = "ONLINE"

\* No child is started while the supervisor is online.
ChildIsAnnounced == state = "ONLINE" => announced = attempt

\* The worker's request went to a child that was started, or to none yet.
RequestOK == request \in [to : 0 .. attempt, answered : BOOLEAN]

\* An answer that would count is the announced child's.
AnswerIsOwn == phase = "working" /\ C!Live /\ request.answered => request.to = announced

IInv == Numbered /\ ClientFollows /\ ChildIsAnnounced /\ RequestOK /\ AnswerIsOwn

\* What a slot of the supervisor does as far as the client can tell: it never leaves the
\* client online under another state, puts it online only with a new state, and starts no
\* child on the way to ONLINE or while there.
Orderly ==
  /\ online' => state' = "ONLINE"
  /\ state' = state /\ online' => online
  /\ state' = "ONLINE" => ~(process = "NotRunning" /\ process' = "Running")

-----------------------------------------------------------------------------
(***************************************************************************)
(* The supervisor's slots are orderly.                                     *)
(***************************************************************************)
\* handle_failure() that takes effect leaves a supervisor that waits or gave up.
LEMMA FailIsOrderly ==
  ASSUME NEW attempts, NEW running, NEW alive, S!Fail(attempts, running, alive)
  PROVE  Orderly
BY DEF S!Fail, S!StateHandler, Orderly

\* handle_failure(), ignored or not.
LEMMA FailureIsOrderly ==
  ASSUME ClientFollows,
         NEW running, NEW alive \in BOOLEAN, alive => process = "Running",
         S!handle_failure(running, alive)
  PROVE  Orderly
<1>1. CASE S!Fail(restart_attempts, running, alive)
  BY <1>1, FailIsOrderly
<1>2. CASE ~S!Fail(restart_attempts, running, alive)
  BY <1>2 DEF S!handle_failure, S!child, Orderly, ClientFollows
<1> QED BY <1>1, <1>2

\* start_attempt() leaves STARTING, or a failure.
LEMMA AttemptIsOrderly ==
  ASSUME NEW attempts, S!StartAttempt(attempts)
  PROVE  Orderly
<1>1. CASE S!Fail(attempts, timers \ {"restart"}, process = "Running")
  BY <1>1, FailIsOrderly
<1>2. CASE ~S!Fail(attempts, timers \ {"restart"}, process = "Running")
  BY <1>2 DEF S!StartAttempt, S!StateHandler, Orderly
<1> QED BY <1>1, <1>2

\* Every slot, and the supervisor's start() and stop().
LEMMA SlotsAreOrderly ==
  ASSUME ClientFollows,
         \/ S!start \/ S!StartupTimeout \/ S!RestartDue \/ S!StableDue
         \/ S!AiReady \/ S!Finished \/ S!TransportFailure \/ S!stop
  PROVE  Orderly
<1>1. CASE S!start
  BY <1>1, AttemptIsOrderly DEF S!start
<1>2. CASE S!StartupTimeout
  BY <1>2, FailureIsOrderly DEF S!StartupTimeout
<1>3. CASE S!RestartDue
  BY <1>3, AttemptIsOrderly DEF S!RestartDue
<1>4. CASE S!StableDue
  BY <1>4 DEF S!StableDue, S!child, Orderly, ClientFollows
<1>5. CASE S!AiReady
  BY <1>5 DEF S!AiReady, Orderly, ClientFollows
<1>6. CASE S!Finished
  BY <1>6, FailureIsOrderly DEF S!Finished
<1>7. CASE S!TransportFailure
  <2>1. CASE state = "ONLINE"
    BY <1>7, <2>1, FailureIsOrderly DEF S!TransportFailure
  <2>2. CASE state # "ONLINE"
    BY <1>7, <2>2 DEF S!TransportFailure, S!child, Orderly, ClientFollows
  <2> QED BY <2>1, <2>2
<1>8. CASE S!stop
  BY <1>8 DEF S!stop, Orderly
<1> QED BY <1>1, <1>2, <1>3, <1>4, <1>5, <1>6, <1>7, <1>8

-----------------------------------------------------------------------------
(***************************************************************************)
(* The invariant.                                                          *)
(***************************************************************************)
\* A step of the main thread the controller follows: when the state changes the worker's
\* generation is an old one, and when it does not, neither does the announced child.
LEMMA FollowedKeepsInv ==
  ASSUME IInv, Orderly, ControllerFollows,
         phase' = phase \/ phase' = "idle",
         working_for' = working_for, request' = request
  PROVE  IInv'
<1>1. Numbered'
  BY DEF IInv, Numbered, ControllerFollows
<1>2. ClientFollows'
  BY DEF Orderly, ClientFollows
<1>3. ChildIsAnnounced'
  BY DEF IInv, ChildIsAnnounced, Orderly, ControllerFollows
<1>4. RequestOK'
  BY DEF IInv, Numbered, RequestOK, ControllerFollows
<1>5. AnswerIsOwn'
  <2>1. CASE state' = state
    BY <2>1 DEF IInv, AnswerIsOwn, C!Live, Orderly, ControllerFollows
  <2>2. CASE state' # state
    <3>1. generation' # working_for'
      BY <2>2 DEF IInv, Numbered, ControllerFollows
    <3> QED BY <3>1 DEF AnswerIsOwn, C!Live
  <2> QED BY <2>1, <2>2
<1> QED BY <1>1, <1>2, <1>3, <1>4, <1>5 DEF IInv

\* The main thread: start, the slots, and the two halves of begin_shutdown().
LEMMA MainKeepsInv ==
  ASSUME IInv, Main
  PROVE  IInv'
<1> USE DEF IInv
<1>1. CASE Start
  BY <1>1, SlotsAreOrderly, FollowedKeepsInv DEF Start
<1>2. CASE StartDisabled
  BY <1>2 DEF StartDisabled, supervisor, children, Numbered, ClientFollows,
              ChildIsAnnounced, RequestOK, AnswerIsOwn
<1>3. CASE Slots
  BY <1>3, SlotsAreOrderly, FollowedKeepsInv
     DEF Slots, Slot, StartupTimeout, RestartDue, StableDue, AiReady, Finished,
         TransportFailure
<1>4. CASE BeginShutdown
  BY <1>4 DEF BeginShutdown, C!AbsStop, supervisor, children, Numbered, ClientFollows,
              ChildIsAnnounced, RequestOK, AnswerIsOwn, C!Live
<1>5. CASE JoinWorker
  BY <1>5, SlotsAreOrderly, FollowedKeepsInv DEF JoinWorker
<1> QED BY <1>1, <1>2, <1>3, <1>4, <1>5 DEF Main

\* The child: a request arrives at, and is answered by, the youngest child.
LEMMA ChildKeepsInv ==
  ASSUME IInv, Child
  PROVE  IInv'
<1> USE DEF IInv, children, client, supervisor
<1>1. CASE ServerReady
  BY <1>1 DEF ServerReady, S!ServerReady, Numbered, ClientFollows, ChildIsAnnounced,
              RequestOK, AnswerIsOwn, C!Live
<1>2. CASE ServerExits
  BY <1>2 DEF ServerExits, S!ServerExits, Numbered, ClientFollows, ChildIsAnnounced,
              RequestOK, AnswerIsOwn, C!Live
<1>3. CASE RequestArrives
  BY <1>3 DEF RequestArrives, Numbered, ClientFollows, ChildIsAnnounced,
              RequestOK, AnswerIsOwn, C!Live
<1>4. CASE ServerAnswers
  BY <1>4 DEF ServerAnswers, Numbered, ClientFollows, ChildIsAnnounced,
              RequestOK, AnswerIsOwn, C!Live
<1> QED BY <1>1, <1>2, <1>3, <1>4 DEF Child

\* The worker: it takes flows under the live generation and forgets its last request.
LEMMA WorkerKeepsInv ==
  ASSUME IInv, TakeFlow \/ Worker
  PROVE  IInv'
<1> USE DEF IInv, children, supervisor, Numbered, ClientFollows, ChildIsAnnounced,
            RequestOK, AnswerIsOwn, C!Live
<1>1. CASE TakeFlow
  BY <1>1 DEF TakeFlow, C!Take
<1>2. CASE UseReply
  BY <1>2 DEF UseReply, C!Finish
<1>3. CASE ExchangeFails
  BY <1>3 DEF ExchangeFails, C!Fail, C!Finish
<1>4. CASE Report
  BY <1>4 DEF Report, C!Report
<1>5. CASE WorkerExits
  BY <1>5 DEF WorkerExits, C!Exit
<1> QED BY <1>1, <1>2, <1>3, <1>4, <1>5 DEF Worker

\* The invariant holds in every reachable state.
THEOREM PipelineInvariant == Spec => []IInv
<1>1. Init => IInv
  BY DEF Init, S!Init, C!AbsInit, IInv, Numbered, ClientFollows, ChildIsAnnounced,
         RequestOK, AnswerIsOwn, C!Live
<1>2. IInv /\ [Next]_vars => IInv'
  <2> SUFFICES ASSUME IInv, [Next]_vars PROVE IInv'
    OBVIOUS
  <2>1. CASE UNCHANGED vars
    BY <2>1 DEF vars, supervisor, client, children, IInv, Numbered, ClientFollows,
                ChildIsAnnounced, RequestOK, AnswerIsOwn, C!Live
  <2> QED BY <2>1, MainKeepsInv, ChildKeepsInv, WorkerKeepsInv DEF Next
<1> QED BY <1>1, <1>2, PTL DEF Spec

-----------------------------------------------------------------------------
(***************************************************************************)
(* The theorem.                                                            *)
(***************************************************************************)
\* A reply that is judged under a connection that still lives came from the child whose
\* ready line opened that connection.
THEOREM JudgedByOwnServer == Spec => AnswersFromOwnServer
<1>1. IInv => (phase = "working" /\ phase' = "idle" /\ request.answered /\ C!Live
                 => request.to = announced)
  BY DEF IInv, AnswerIsOwn
<1> QED BY <1>1, PipelineInvariant, PTL DEF AnswersFromOwnServer
=============================================================================
