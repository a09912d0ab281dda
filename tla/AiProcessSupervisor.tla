------------------------ MODULE AiProcessSupervisor ------------------------
(***************************************************************************)
(* app/ai_process_supervisor.cpp with the handlers that                    *)
(* app/application_controller.cpp gives it: the main thread starts the     *)
(* Python server as a child process, waits for its AI_READY line, and      *)
(* restarts it after failures, a limited number of times in a row.         *)
(*                                                                         *)
(* Each slot (a timer, a signal of QProcess, a queued report of the        *)
(* client's worker) is one action.  The child process and the AI client    *)
(* are outside: the child gets ready or exits when it likes, and a child   *)
(* that was killed may stay around until the kernel is done with it.       *)
(***************************************************************************)
EXTENDS Naturals

CONSTANTS
  MAX_RESTARTS,  \* config_.max_restarts, 0..10
  MaxReports     \* bound: reports of the client under way at once

ASSUME SupervisorAssumption == MAX_RESTARTS \in Nat /\ MaxReports \in Nat

VARIABLES
  state,             \* state_, an AiState
  restart_attempts,  \* restart_attempts_
  failure_handled,   \* failure_handled_for_attempt_
  stop_requested,    \* stop_requested_, and stopping_ of the controller
  timers,            \* the running ones of startup_, restart_ and stable_timer_
  process,           \* process_.state()
  server,            \* the child: loading its model, ready, or gone
  doomed,            \* the child was sent SIGKILL
  unread,            \* an AI_READY line waits in the pipe
  client_online,     \* the client's online_
  reports,           \* transport failures on their way to the main thread
  tries              \* history: attempts made, from the last one that was stable on

child  == <<process, server, doomed, unread>>
vars   == <<state, restart_attempts, failure_handled, stop_requested, timers, child,
            client_online, reports, tries>>

-----------------------------------------------------------------------------
\* Bug: only the end of AI takes the client offline.
StateHandlerFinal(new) == client_online' = (client_online /\ new \notin {"OFFLINE", "STOPPING"})

\* The state handler of the controller: any state but ONLINE takes the client offline.
StateHandler(new) == client_online' = (client_online /\ new = "ONLINE")

\* stop_process() for a process in the given state: terminate, wait, kill, wait.  While
\* it waits the pipe is read, and its lines are not of interest any more.
StopProcess(alive) ==
  /\ unread' = FALSE
  /\ \/ process' = "NotRunning" /\ server' = "gone" /\ doomed' = FALSE
     \/ /\ alive /\ process' = "Running"
        /\ server' = server /\ doomed' = TRUE

CanRestart(attempts) == attempts < MAX_RESTARTS

\* Bug: the stable timer of the failed attempt goes on.
TimersKeepStable(running, attempts) ==
  (running \ {"startup"}) \cup (IF CanRestart(attempts) THEN {"restart"} ELSE {})

\* The timers after a failure, of the running ones.
TimersAfterFailure(running, attempts) ==
  (running \ {"startup", "stable"}) \cup (IF CanRestart(attempts) THEN {"restart"} ELSE {})

\* handle_failure() that takes effect: the state handler, then stop_process().
Fail(attempts, running, alive) ==
  LET new == IF CanRestart(attempts) THEN "RESTART_WAIT" ELSE "OFFLINE" IN
  /\ failure_handled' = TRUE
  /\ timers' = TimersAfterFailure(running, attempts)
  /\ state' = new /\ StateHandler(new)
  /\ StopProcess(alive)

\* handle_failure() returns at once when stopping or when this attempt has failed before.
Ignored == stop_requested \/ failure_handled

\* A slot calls handle_failure() with these timers running and the child alive or not.
handle_failure(running, alive) ==
  \/ /\ ~Ignored /\ Fail(restart_attempts, running, alive)
  \/ /\ Ignored /\ timers' = running
     /\ IF alive THEN UNCHANGED child
        ELSE process' = "NotRunning" /\ server' = "gone" /\ doomed' = FALSE /\ unread' = FALSE
     /\ UNCHANGED <<failure_handled, state, client_online>>

\* process_.start(): without effect when the last child is still there.
Spawn ==
  \/ process = "Running" /\ UNCHANGED child
  \/ /\ process = "NotRunning"
     /\ process' = "Running" /\ server' = "loading" /\ doomed' = FALSE /\ unread' = FALSE

\* Bug: nobody limits the time the server may take.
StartAttemptUntimed(attempts) ==
  /\ state' = "STARTING" /\ StateHandler("STARTING")
  /\ failure_handled' = FALSE
  /\ timers' = timers \ {"restart"}
  /\ Spawn

\* start_attempt(): unsafe paths or a socket file that cannot be removed fail the
\* attempt at once.
StartAttempt(attempts) ==
  \/ /\ state' = "STARTING" /\ StateHandler("STARTING")
     /\ failure_handled' = FALSE
     /\ timers' = (timers \ {"restart"}) \cup {"startup"}
     /\ Spawn
  \/ Fail(attempts, timers \ {"restart"}, process = "Running")

-----------------------------------------------------------------------------
Init ==
  /\ state = "DISABLED" /\ restart_attempts = 0
  /\ failure_handled = FALSE /\ stop_requested = FALSE
  /\ timers = {}
  /\ process = "NotRunning" /\ server = "gone" /\ doomed = FALSE /\ unread = FALSE
  /\ client_online = FALSE /\ reports = 0
  /\ tries = 0

\* start(), with AI enabled; the controller calls it once.
start ==
  /\ state = "DISABLED"
  /\ restart_attempts' = 0
  /\ StartAttempt(0)
  /\ tries' = 1
  /\ UNCHANGED <<stop_requested, reports>>

\* startup_timer_
StartupTimeout ==
  /\ "startup" \in timers
  /\ handle_failure(timers \ {"startup"}, process = "Running")
  /\ UNCHANGED <<restart_attempts, stop_requested, reports, tries>>

\* Bug: restarts are not counted.
RestartDueUncounted ==
  /\ "restart" \in timers /\ ~stop_requested
  /\ StartAttempt(restart_attempts)
  /\ tries' = tries + 1
  /\ UNCHANGED <<restart_attempts, stop_requested, reports>>

\* restart_timer_; start_attempt() returns at once when stopping.
RestartDue ==
  /\ "restart" \in timers /\ ~stop_requested
  /\ restart_attempts' = restart_attempts + 1
  /\ StartAttempt(restart_attempts + 1)
  /\ tries' = tries + 1
  /\ UNCHANGED <<stop_requested, reports>>

\* stable_timer_: a minute online, the count starts again.
StableDue ==
  /\ "stable" \in timers
  /\ restart_attempts' = 0
  /\ timers' = timers \ {"stable"}
  /\ tries' = 1
  /\ UNCHANGED <<state, failure_handled, stop_requested, child, client_online, reports>>

\* readyReadStandardOutput with the AI_READY line: only a starting supervisor takes
\* note; the ready handler puts the client online first.
AiReady ==
  /\ process = "Running" /\ unread
  /\ unread' = FALSE
  /\ \/ /\ state = "STARTING"
        /\ client_online' = TRUE
        /\ state' = "ONLINE"
        /\ timers' = (timers \ {"startup"}) \cup {"stable"}
     \/ state # "STARTING" /\ UNCHANGED <<client_online, state, timers>>
  /\ UNCHANGED <<restart_attempts, failure_handled, stop_requested, process, server,
                 doomed, reports, tries>>

\* Bug: an exit is only a failure while the server is starting.
FinishedWhileStartingOnly ==
  /\ process = "Running" /\ server = "gone"
  /\ IF state = "STARTING" THEN handle_failure(timers, FALSE)
     ELSE /\ process' = "NotRunning" /\ doomed' = FALSE /\ unread' = FALSE
          /\ UNCHANGED <<failure_handled, timers, state, client_online, server>>
  /\ UNCHANGED <<restart_attempts, stop_requested, reports, tries>>

\* finished, or errorOccurred for a child that could not be started or crashed.  A
\* last AI_READY line is read first; the failure that follows undoes what it did.
Finished ==
  /\ process = "Running" /\ server = "gone"
  /\ handle_failure(timers, FALSE)
  /\ UNCHANGED <<restart_attempts, stop_requested, reports, tries>>

\* Bug: reports are only looked at while the server is starting.
TransportFailureWhileStarting ==
  /\ reports > 0 /\ reports' = reports - 1
  /\ \/ state = "STARTING" /\ handle_failure(timers, process = "Running")
     \/ /\ state # "STARTING"
        /\ UNCHANGED <<failure_handled, timers, state, child, client_online>>
  /\ UNCHANGED <<restart_attempts, stop_requested, tries>>

\* The queued report of the client: dropped when stopping, ignored unless ONLINE.
TransportFailure ==
  /\ reports > 0 /\ reports' = reports - 1
  /\ \/ state = "ONLINE" /\ handle_failure(timers, process = "Running")
     \/ /\ state # "ONLINE"
        /\ UNCHANGED <<failure_handled, timers, state, child, client_online>>
  /\ UNCHANGED <<restart_attempts, stop_requested, tries>>

\* Bug: stop leaves the child to itself.
stop_without_process ==
  /\ ~stop_requested
  /\ stop_requested' = TRUE
  /\ state' = "STOPPING" /\ client_online' = FALSE
  /\ timers' = {}
  /\ UNCHANGED <<child, restart_attempts, failure_handled, reports, tries>>

\* begin_shutdown() of the controller: the client's stop(), then the supervisor's.
stop ==
  /\ ~stop_requested
  /\ stop_requested' = TRUE
  /\ state' = "STOPPING" /\ client_online' = FALSE
  /\ timers' = {}
  /\ IF process = "Running" THEN StopProcess(TRUE) ELSE UNCHANGED child
  /\ UNCHANGED <<restart_attempts, failure_handled, reports, tries>>

-----------------------------------------------------------------------------
(* The child process and the client's worker. *)

ServerReady ==
  /\ process = "Running" /\ server = "loading" /\ ~doomed
  /\ server' = "ready" /\ unread' = TRUE
  /\ UNCHANGED <<state, restart_attempts, failure_handled, stop_requested, timers, process,
                 doomed, client_online, reports, tries>>

ServerExits ==
  /\ process = "Running" /\ server # "gone"
  /\ server' = "gone"
  /\ UNCHANGED <<state, restart_attempts, failure_handled, stop_requested, timers, process,
                 doomed, unread, client_online, reports, tries>>

\* fail_transport() of the client: offline at once, the report follows.
ClientFails ==
  /\ client_online /\ reports < MaxReports
  /\ client_online' = FALSE /\ reports' = reports + 1
  /\ UNCHANGED <<state, restart_attempts, failure_handled, stop_requested, timers, child,
                 tries>>

Next ==
  \/ start \/ StartupTimeout \/ RestartDue \/ StableDue
  \/ AiReady \/ Finished \/ TransportFailure \/ stop
  \/ ServerReady \/ ServerExits \/ ClientFails

Spec == Init /\ [][Next]_vars

\* Timers fire and queued events are delivered: the event loop of the main thread
\* runs.  Nothing is assumed of the server.
FairSpec ==
  /\ Spec
  /\ WF_vars(StartupTimeout) /\ WF_vars(RestartDue)
  /\ WF_vars(Finished) /\ WF_vars(TransportFailure)

-----------------------------------------------------------------------------
(***************************************************************************)
(* Properties.                                                             *)
(***************************************************************************)
\* A server that never stays up is tried once and then MAX_RESTARTS times, and given up
\* only then, whatever mix of time-outs, exits and transport failures, late or reported
\* twice, ends the attempts: each of them costs one restart, neither more nor fewer.
RestartBudget ==
  /\ tries <= MAX_RESTARTS + 1
  /\ state = "OFFLINE" => tries = MAX_RESTARTS + 1

\* The supervisor never waits for a timer that is not running, and no timer of an
\* earlier attempt is left over.
TimersFollowState ==
  /\ "startup" \in timers <=> state = "STARTING"
  /\ "restart" \in timers <=> state = "RESTART_WAIT"
  /\ "stable" \in timers => state = "ONLINE"

\* ONLINE means a child that announced itself, never the killed remains of an earlier
\* attempt; its exit may still be on its way.
OnlineIsServed ==
  state = "ONLINE" => process = "Running" /\ ~doomed /\ server # "loading"

\* After stop() nothing runs, nothing is about to be started, and no child is left
\* that was not killed.
StopIsFinal ==
  stop_requested =>
    timers = {} /\ ~client_online /\ (process = "Running" => doomed \/ server = "gone")

\* Starting and restarting come to an end: the server is up or given up.
Settles ==
  (state \in {"STARTING", "RESTART_WAIT"}) ~> (state \in {"ONLINE", "OFFLINE", "STOPPING"})
=============================================================================
