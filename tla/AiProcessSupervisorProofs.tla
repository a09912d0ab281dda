--------------------- MODULE AiProcessSupervisorProofs ---------------------
(***************************************************************************)
(* The safety properties of AiProcessSupervisor for every restart limit    *)
(* and every number of reports under way.                                  *)
(***************************************************************************)
EXTENDS AiProcessSupervisor, TLAPS

States == {"DISABLED", "STARTING", "ONLINE", "RESTART_WAIT", "OFFLINE", "STOPPING"}

TypeOK ==
  /\ state \in States
  /\ restart_attempts \in 0..MAX_RESTARTS
  /\ failure_handled \in BOOLEAN /\ stop_requested \in BOOLEAN
  /\ timers \in SUBSET {"startup", "restart", "stable"}
  /\ process \in {"NotRunning", "Running"}
  /\ server \in {"loading", "ready", "gone"}
  /\ doomed \in BOOLEAN /\ unread \in BOOLEAN /\ client_online \in BOOLEAN
  /\ reports \in 0..MaxReports
  /\ tries \in Nat

\* The two flags repeat what the state says: an attempt has failed, stop was called.
FlagsFollowState ==
  /\ stop_requested <=> state = "STOPPING"
  /\ state \in {"RESTART_WAIT", "OFFLINE"} => failure_handled
  /\ state \in {"DISABLED", "STARTING", "ONLINE"} => ~failure_handled

\* The budget: restart_attempts_ counts the attempts after the first, a restart is waited
\* for only when one is left, and the server is given up only when none is.
Counted ==
  /\ tries <= restart_attempts + 1
  /\ state \notin {"DISABLED", "STOPPING"} => tries = restart_attempts + 1
  /\ state = "RESTART_WAIT" => CanRestart(restart_attempts)
  /\ state = "OFFLINE" => ~CanRestart(restart_attempts)

\* The child: a line in the pipe is of a child that is not being killed.
ChildOK ==
  /\ process = "NotRunning" => server = "gone" /\ ~doomed /\ ~unread
  /\ unread => ~doomed /\ server # "loading"
  /\ state = "DISABLED" => process = "NotRunning"

\* The client is online only while the supervisor is.
ClientFollows == client_online => state = "ONLINE"

IInv ==
  /\ TypeOK /\ FlagsFollowState /\ TimersFollowState /\ Counted /\ ChildOK
  /\ ClientFollows /\ OnlineIsServed /\ StopIsFinal

-----------------------------------------------------------------------------
\* Before start() no timer runs and no child exists.
LEMMA InitHolds ==
  ASSUME Init
  PROVE  IInv
<1>1. TypeOK
  <2>1. failure_handled \in BOOLEAN /\ stop_requested \in BOOLEAN /\ doomed \in BOOLEAN
        /\ unread \in BOOLEAN /\ client_online \in BOOLEAN
    BY DEF Init
  <2> QED
    BY <2>1, SupervisorAssumption DEF Init, TypeOK, States
<1>2. FlagsFollowState /\ TimersFollowState /\ Counted
  BY SupervisorAssumption DEF Init, FlagsFollowState, TimersFollowState, Counted
<1>3. ChildOK
  BY DEF Init, ChildOK
<1>4. ClientFollows
  BY DEF Init, ClientFollows
<1>5. OnlineIsServed
  BY DEF Init, OnlineIsServed
<1>6. StopIsFinal
  BY DEF Init, StopIsFinal
<1> QED
  BY <1>1, <1>2, <1>3, <1>4, <1>5, <1>6 DEF IInv

\* A failure that takes effect leaves the invariant true, whichever slot noticed it:
\* the count has been raised before, and the other slots' variables stay.
LEMMA FailHolds ==
  ASSUME IInv, ~stop_requested,
         NEW attempts \in 0..MAX_RESTARTS, NEW alive \in BOOLEAN,
         NEW running \in SUBSET {"startup", "stable"},
         Fail(attempts, running, alive),
         restart_attempts' = attempts, stop_requested' = stop_requested,
         reports' \in 0..MaxReports,
         tries' \in Nat, tries' = attempts + 1,
         alive => process = "Running"
  PROVE  IInv'
<1>1. timers' = IF CanRestart(attempts) THEN {"restart"} ELSE {}
  BY DEF Fail, TimersAfterFailure
<1>2. state' = IF CanRestart(attempts) THEN "RESTART_WAIT" ELSE "OFFLINE"
  BY DEF Fail
<1>3. failure_handled' = TRUE /\ client_online' = FALSE
  BY <1>2 DEF Fail, StateHandler, IInv, TypeOK
<1>4. /\ unread' = FALSE
      /\ \/ process' = "NotRunning" /\ server' = "gone" /\ doomed' = FALSE
         \/ process' = "Running" /\ server' = server /\ doomed' = TRUE
  BY DEF Fail, StopProcess
<1>5. TypeOK'
  BY <1>1, <1>2, <1>3, <1>4 DEF IInv, TypeOK, States
<1>6. FlagsFollowState' /\ TimersFollowState' /\ Counted'
  BY <1>1, <1>2, <1>3 DEF IInv, TypeOK, FlagsFollowState,
     TimersFollowState, Counted, CanRestart
<1>7. ChildOK' /\ ClientFollows' /\ OnlineIsServed' /\ StopIsFinal'
  BY <1>2, <1>3, <1>4 DEF IInv, TypeOK, ChildOK, ClientFollows, OnlineIsServed, StopIsFinal
<1> QED
  BY <1>5, <1>6, <1>7 DEF IInv

\* So does an attempt that gets as far as process_.start().
LEMMA SpawnHolds ==
  ASSUME IInv, ~stop_requested,
         state \in {"DISABLED", "RESTART_WAIT"},
         state' = "STARTING", StateHandler("STARTING"),
         failure_handled' = FALSE,
         timers' = (timers \ {"restart"}) \cup {"startup"},
         Spawn,
         restart_attempts' \in 0..MAX_RESTARTS, UNCHANGED <<stop_requested, reports>>,
         tries' \in Nat, tries' = restart_attempts' + 1
  PROVE  IInv'
<1>1. timers' = {"startup"}
  BY DEF IInv, TypeOK, TimersFollowState
<1>2. client_online' = FALSE
  BY DEF StateHandler, IInv, TypeOK
<1>3. TypeOK' /\ FlagsFollowState' /\ TimersFollowState'
  BY <1>1, <1>2 DEF IInv, TypeOK, States, FlagsFollowState, TimersFollowState, Spawn, child
<1>4. Counted'
  <2>1. \A n \in 0..MAX_RESTARTS : n + 1 <= n + 1
    BY SupervisorAssumption, SMT
  <2>2. state' # "RESTART_WAIT" /\ state' # "OFFLINE"
    OBVIOUS
  <2> QED
    BY <2>1, <2>2, Zenon DEF Counted
<1>5. ChildOK' /\ ClientFollows' /\ OnlineIsServed' /\ StopIsFinal'
  BY <1>1, <1>2 DEF IInv, TypeOK, ChildOK, ClientFollows, OnlineIsServed, StopIsFinal,
     Spawn, child
<1> QED
  BY <1>3, <1>4, <1>5 DEF IInv

\* Both outcomes of start_attempt() together.
LEMMA StartAttemptHolds ==
  ASSUME IInv, ~stop_requested,
         state \in {"DISABLED", "RESTART_WAIT"},
         NEW attempts \in 0..MAX_RESTARTS, StartAttempt(attempts),
         restart_attempts' = attempts, UNCHANGED <<stop_requested, reports>>,
         tries' \in Nat, tries' = attempts + 1
  PROVE  IInv'
<1>1. CASE Fail(attempts, timers \ {"restart"}, process = "Running")
  <2>1. timers \ {"restart"} \in SUBSET {"startup", "stable"}
    BY DEF IInv, TypeOK
  <2>2. reports' \in 0..MaxReports
    BY DEF IInv, TypeOK
  <2> QED
    BY <1>1, <2>1, <2>2, FailHolds
<1>2. CASE ~Fail(attempts, timers \ {"restart"}, process = "Running")
  BY <1>2, SpawnHolds DEF StartAttempt
<1> QED
  BY <1>1, <1>2

\* A call of handle_failure() from a slot of a running supervisor, or one that it
\* ignores.
LEMMA HandleFailureHolds ==
  ASSUME IInv, NEW running, NEW alive \in BOOLEAN,
         running \in SUBSET timers, ~Ignored => "restart" \notin running,
         Ignored => running = timers /\ (~alive => server = "gone"),
         handle_failure(running, alive), alive => process = "Running",
         state # "DISABLED",
         UNCHANGED <<restart_attempts, stop_requested, tries>>,
         reports' \in 0..MaxReports
  PROVE  IInv'
<1>1. CASE Ignored
  <2>1. TypeOK'
    BY <1>1 DEF Ignored, handle_failure, child, IInv, TypeOK, States
  <2>2. FlagsFollowState' /\ TimersFollowState' /\ Counted'
    BY <1>1 DEF Ignored, handle_failure, child, IInv, TypeOK, States, FlagsFollowState,
       TimersFollowState, Counted, CanRestart
  <2>3. ChildOK'
    BY <1>1 DEF Ignored, handle_failure, child, IInv, TypeOK, FlagsFollowState, ChildOK
  <2>4. ClientFollows'
    BY <1>1 DEF Ignored, handle_failure, child, IInv, TypeOK, ClientFollows
  <2>5. OnlineIsServed'
    BY <1>1 DEF Ignored, handle_failure, child, IInv, FlagsFollowState, OnlineIsServed
  <2>6. StopIsFinal'
    BY <1>1 DEF Ignored, handle_failure, child, IInv, TypeOK, FlagsFollowState, ChildOK,
       ClientFollows, StopIsFinal
  <2> QED
    BY <2>1, <2>2, <2>3, <2>4, <2>5, <2>6 DEF IInv
<1>2. CASE ~Ignored
  <2>1. ~stop_requested /\ Fail(restart_attempts, running, alive)
    BY <1>2 DEF Ignored, handle_failure
  <2>2. running \in SUBSET {"startup", "stable"}
    BY <1>2 DEF IInv, TypeOK
  <2>3. restart_attempts \in 0..MAX_RESTARTS /\ tries \in Nat /\ tries = restart_attempts + 1
    BY <2>1 DEF IInv, TypeOK, FlagsFollowState, Counted
  <2> QED
    BY <2>1, <2>2, <2>3, FailHolds
<1> QED
  BY <1>1, <1>2

\* No restart is waited for while the attempt in progress has not failed.
LEMMA NoRestartPending ==
  ASSUME IInv, ~Ignored
  PROVE  "restart" \notin timers
BY DEF IInv, Ignored, FlagsFollowState, TimersFollowState

\* Every slot, and every step of the child and of the client, keeps the invariant.
LEMMA StepHolds ==
  ASSUME IInv, [Next]_vars
  PROVE  IInv'
<1> USE SupervisorAssumption
<1>1. CASE start
  <2>1. ~stop_requested /\ 0 \in 0..MAX_RESTARTS
    BY <1>1 DEF start, IInv, TypeOK, FlagsFollowState
  <2> QED
    BY <1>1, <2>1, StartAttemptHolds DEF start
<1>2. CASE StartupTimeout
  <2>1. state = "STARTING" /\ ~Ignored
    BY <1>2 DEF StartupTimeout, Ignored, IInv, FlagsFollowState, TimersFollowState
  <2>2. reports' \in 0..MaxReports
    BY <1>2 DEF StartupTimeout, IInv, TypeOK
  <2> QED
    BY <1>2, <2>1, <2>2, NoRestartPending, HandleFailureHolds DEF StartupTimeout
<1>3. CASE RestartDue
  <2>1. state = "RESTART_WAIT" /\ CanRestart(restart_attempts)
    BY <1>3 DEF RestartDue, IInv, TimersFollowState, Counted
  <2>2. restart_attempts + 1 \in 0..MAX_RESTARTS /\ tries + 1 \in Nat
        /\ tries + 1 = restart_attempts + 1 + 1
    BY <2>1 DEF CanRestart, IInv, TypeOK, Counted
  <2> QED
    BY <1>3, <2>1, <2>2, StartAttemptHolds DEF RestartDue
<1>4. CASE StableDue
  <2>1. TypeOK'
    BY <1>4 DEF StableDue, child, IInv, TypeOK, States
  <2>2. FlagsFollowState' /\ TimersFollowState' /\ Counted'
    BY <1>4 DEF StableDue, child, IInv, TypeOK, States, FlagsFollowState,
       TimersFollowState, Counted, CanRestart
  <2>3. ChildOK'
    BY <1>4 DEF StableDue, child, IInv, TypeOK, FlagsFollowState, ChildOK
  <2>4. ClientFollows'
    BY <1>4 DEF StableDue, child, IInv, TypeOK, ClientFollows
  <2>5. OnlineIsServed'
    BY <1>4 DEF StableDue, child, IInv, TypeOK, ChildOK, OnlineIsServed
  <2>6. StopIsFinal'
    BY <1>4 DEF StableDue, child, IInv, TypeOK, FlagsFollowState, ChildOK,
       ClientFollows, StopIsFinal
  <2> QED
    BY <2>1, <2>2, <2>3, <2>4, <2>5, <2>6 DEF IInv
<1>5. CASE AiReady
  <2>1. TypeOK'
    BY <1>5 DEF AiReady, child, IInv, TypeOK, States
  <2>2. FlagsFollowState' /\ TimersFollowState' /\ Counted'
    BY <1>5 DEF AiReady, child, IInv, TypeOK, States, FlagsFollowState,
       TimersFollowState, Counted, CanRestart
  <2>3. ChildOK'
    BY <1>5 DEF AiReady, child, IInv, TypeOK, FlagsFollowState, ChildOK
  <2>4. ClientFollows'
    BY <1>5 DEF AiReady, child, IInv, TypeOK, ClientFollows
  <2>5. OnlineIsServed'
    BY <1>5 DEF AiReady, child, IInv, TypeOK, ChildOK, OnlineIsServed
  <2>6. StopIsFinal'
    BY <1>5 DEF AiReady, child, IInv, TypeOK, FlagsFollowState, ChildOK, ClientFollows,
       StopIsFinal
  <2> QED
    BY <2>1, <2>2, <2>3, <2>4, <2>5, <2>6 DEF IInv
<1>6. CASE Finished
  <2>1. reports' \in 0..MaxReports
    BY <1>6 DEF Finished, IInv, TypeOK
  <2>2. state # "DISABLED"
    BY <1>6 DEF Finished, IInv, ChildOK
  <2> QED
    BY <1>6, <2>1, <2>2, NoRestartPending, HandleFailureHolds DEF Finished
<1>7. CASE TransportFailure
  <2>1. reports' \in 0..MaxReports
    BY <1>7 DEF TransportFailure, IInv, TypeOK
  <2>2. CASE state = "ONLINE"
    <3>1. ~Ignored
      BY <2>2 DEF Ignored, IInv, FlagsFollowState
    <3> QED
      BY <1>7, <2>1, <2>2, <3>1, NoRestartPending, HandleFailureHolds DEF TransportFailure
  <2>3. CASE state # "ONLINE"
    <3>1. TypeOK'
      BY <1>7, <2>1, <2>3 DEF TransportFailure, child, IInv, TypeOK, States
    <3>2. FlagsFollowState' /\ TimersFollowState' /\ Counted'
      BY <1>7, <2>1, <2>3 DEF TransportFailure, child, IInv, FlagsFollowState,
         TimersFollowState, Counted, CanRestart
    <3>3. ChildOK'
      BY <1>7, <2>3 DEF TransportFailure, child, IInv, ChildOK
    <3>4. ClientFollows'
      BY <1>7, <2>3 DEF TransportFailure, child, IInv, ClientFollows
    <3>5. OnlineIsServed'
      BY <1>7, <2>3 DEF TransportFailure, child, IInv, OnlineIsServed
    <3>6. StopIsFinal'
      BY <1>7, <2>3 DEF TransportFailure, child, IInv, StopIsFinal
    <3> QED
      BY <3>1, <3>2, <3>3, <3>4, <3>5, <3>6 DEF IInv
  <2> QED
    BY <2>2, <2>3
<1>8. CASE stop
  <2>1. TypeOK'
    BY <1>8 DEF stop, child, StopProcess, IInv, TypeOK, States
  <2>2. FlagsFollowState' /\ TimersFollowState' /\ Counted'
    BY <1>8 DEF stop, child, StopProcess, IInv, TypeOK, States, FlagsFollowState,
       TimersFollowState, Counted, CanRestart
  <2>3. ChildOK'
    BY <1>8 DEF stop, child, StopProcess, IInv, TypeOK, FlagsFollowState, ChildOK
  <2>4. ClientFollows'
    BY <1>8 DEF stop, child, StopProcess, IInv, TypeOK, ClientFollows
  <2>5. OnlineIsServed'
    BY <1>8 DEF stop, child, StopProcess, IInv, TypeOK, ChildOK, OnlineIsServed
  <2>6. StopIsFinal'
    BY <1>8 DEF stop, child, StopProcess, IInv, TypeOK, FlagsFollowState, ChildOK,
       ClientFollows, StopIsFinal
  <2> QED
    BY <2>1, <2>2, <2>3, <2>4, <2>5, <2>6 DEF IInv
<1>9. CASE ServerReady
  <2>1. TypeOK'
    BY <1>9 DEF ServerReady, child, IInv, TypeOK, States
  <2>2. FlagsFollowState' /\ TimersFollowState' /\ Counted'
    BY <1>9 DEF ServerReady, child, IInv, TypeOK, States, FlagsFollowState,
       TimersFollowState, Counted, CanRestart
  <2>3. ChildOK'
    BY <1>9 DEF ServerReady, child, IInv, TypeOK, FlagsFollowState, ChildOK
  <2>4. ClientFollows'
    BY <1>9 DEF ServerReady, child, IInv, TypeOK, ClientFollows
  <2>5. OnlineIsServed'
    BY <1>9 DEF ServerReady, child, IInv, TypeOK, ChildOK, OnlineIsServed
  <2>6. StopIsFinal'
    BY <1>9 DEF ServerReady, child, IInv, TypeOK, FlagsFollowState, ChildOK,
       ClientFollows, StopIsFinal
  <2> QED
    BY <2>1, <2>2, <2>3, <2>4, <2>5, <2>6 DEF IInv
<1>10. CASE ServerExits
  <2>1. TypeOK'
    BY <1>10 DEF ServerExits, child, IInv, TypeOK, States
  <2>2. FlagsFollowState' /\ TimersFollowState' /\ Counted'
    BY <1>10 DEF ServerExits, child, IInv, TypeOK, States, FlagsFollowState,
       TimersFollowState, Counted, CanRestart
  <2>3. ChildOK'
    BY <1>10 DEF ServerExits, child, IInv, TypeOK, FlagsFollowState, ChildOK
  <2>4. ClientFollows'
    BY <1>10 DEF ServerExits, child, IInv, TypeOK, ClientFollows
  <2>5. OnlineIsServed'
    BY <1>10 DEF ServerExits, child, IInv, TypeOK, ChildOK, OnlineIsServed
  <2>6. StopIsFinal'
    BY <1>10 DEF ServerExits, child, IInv, TypeOK, FlagsFollowState, ChildOK,
       ClientFollows, StopIsFinal
  <2> QED
    BY <2>1, <2>2, <2>3, <2>4, <2>5, <2>6 DEF IInv
<1>11. CASE ClientFails
  <2>1. TypeOK'
    <3>1. reports' \in 0..MaxReports /\ client_online' = FALSE
      BY <1>11 DEF ClientFails, IInv, TypeOK
    <3> QED
      BY <1>11, <3>1 DEF ClientFails, child, IInv, TypeOK, States
  <2>2. FlagsFollowState' /\ TimersFollowState' /\ Counted'
    BY <1>11 DEF ClientFails, child, IInv, TypeOK, States, FlagsFollowState,
       TimersFollowState, Counted, CanRestart
  <2>3. ChildOK'
    BY <1>11 DEF ClientFails, child, IInv, TypeOK, FlagsFollowState, ChildOK
  <2>4. ClientFollows'
    BY <1>11 DEF ClientFails, child, IInv, TypeOK, ClientFollows
  <2>5. OnlineIsServed'
    BY <1>11 DEF ClientFails, child, IInv, TypeOK, ChildOK, OnlineIsServed
  <2>6. StopIsFinal'
    BY <1>11 DEF ClientFails, child, IInv, TypeOK, FlagsFollowState, ChildOK,
       ClientFollows, StopIsFinal
  <2> QED
    BY <2>1, <2>2, <2>3, <2>4, <2>5, <2>6 DEF IInv
<1>12. CASE UNCHANGED vars
  <2>1. TypeOK' /\ FlagsFollowState' /\ TimersFollowState' /\ Counted'
    BY <1>12 DEF vars, child, IInv, TypeOK, FlagsFollowState, TimersFollowState, Counted,
       CanRestart
  <2>2. ChildOK' /\ ClientFollows' /\ OnlineIsServed' /\ StopIsFinal'
    BY <1>12 DEF vars, child, IInv, ChildOK, ClientFollows, OnlineIsServed, StopIsFinal
  <2> QED
    BY <2>1, <2>2 DEF IInv
<1> QED
  BY <1>1, <1>2, <1>3, <1>4, <1>5, <1>6, <1>7, <1>8, <1>9, <1>10, <1>11, <1>12 DEF Next

\* The invariant holds in every reachable state.
LEMMA Invariance == Spec => []IInv
BY InitHolds, StepHolds, PTL DEF Spec

-----------------------------------------------------------------------------
\* Whatever ends the attempts, at most MAX_RESTARTS + 1 of them follow each other
\* without a stable one, and no fewer before the server is given up: start_attempt()
\* and the timers never lose count.
THEOREM BudgetKept == Spec => []RestartBudget
<1>1. IInv => RestartBudget
  BY SupervisorAssumption DEF IInv, TypeOK, Counted, CanRestart, RestartBudget
<1> QED
  BY <1>1, Invariance, PTL

\* The timers of start_attempt(), handle_failure() and the ready line are those of the
\* state, after every slot.
THEOREM TimersAgree == Spec => []TimersFollowState
<1>1. IInv => TimersFollowState
  BY DEF IInv
<1> QED
  BY <1>1, Invariance, PTL

\* ONLINE is only reached, and only kept, with a child that announced itself and that
\* stop_process() has not killed.
THEOREM OnlineServed == Spec => []OnlineIsServed
<1>1. IInv => OnlineIsServed
  BY DEF IInv
<1> QED
  BY <1>1, Invariance, PTL

\* Nothing that happens after stop() starts a timer, a child or the client again.
THEOREM StopStays == Spec => []StopIsFinal
<1>1. IInv => StopIsFinal
  BY DEF IInv
<1> QED
  BY <1>1, Invariance, PTL
=============================================================================
