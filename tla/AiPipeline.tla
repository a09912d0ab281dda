----------------------------- MODULE AiPipeline -----------------------------
(***************************************************************************)
(* The parts that make up the AI judgement, put together: the supervisor   *)
(* (AiProcessSupervisor) and the controller's handlers on the main thread, *)
(* the client's worker (AiClientAbs, which AsyncAiClient implements), the  *)
(* request loop of ml/online_server.py in the child process, the queued    *)
(* reports between them, and the tray icon.                                *)
(*                                                                         *)
(* All servers of a run listen at the same socket path, so a request goes  *)
(* to whichever child listens when it is sent.  Slots run one at a time    *)
(* and only while the main thread is in its event loop; in                 *)
(* begin_shutdown() it waits for the worker first.                         *)
(***************************************************************************)
EXTENDS Naturals

CONSTANTS
  MAX_RESTARTS,  \* config_.max_restarts
  MaxServers     \* bound: children started after this many never get ready

VARIABLES
  state, restart_attempts, failure_handled, stop_requested, timers,
  process, server, doomed, unread, reports, tries,
  online, generation, stopped, phase, working_for,
  mpc,            \* the main thread: its event loop, joining the worker, or done
  attempt,        \* number of children started
  announced,      \* the child whose ready line began the connection
  request,        \* the worker's request: the child it went to (0: none), and if answered
  icon,           \* colour of the tray icon; "none" without a system tray
  offline_shown   \* offline_shown_ of the tray

S == INSTANCE AiProcessSupervisor WITH client_online <- online, MaxReports <- 0
C == INSTANCE AiClientAbs

supervisor == <<state, restart_attempts, failure_handled, stop_requested, timers, process,
                server, doomed, unread, tries>>
client     == <<online, generation, stopped, phase, working_for>>
tray       == <<icon, offline_shown>>
children   == <<attempt, announced>>
vars == <<supervisor, reports, client, mpc, children, request, tray>>

-----------------------------------------------------------------------------
(* The main thread. *)

\* state_color() of the tray.
state_color(s) ==
  CASE s = "ONLINE"                     -> "green"
    [] s \in {"DISABLED", "OFFLINE"}      -> "yellow"
    [] OTHER                            -> "grey"

\* offline_shown_ for a supervisor that goes to s: show_ai_offline() sets it, set_ai_state()
\* takes it back when AI is online again.
OfflineShown(s) == s = "OFFLINE" \/ (offline_shown /\ s # "ONLINE")

\* set_ai_state() of the tray, and show_ai_offline() after it.
TrayShows(s) ==
  IF icon = "none" THEN UNCHANGED tray
  ELSE icon' = state_color(s) /\ offline_shown' = OfflineShown(s)

\* The handlers the controller gives to the supervisor: with every new state the client
\* gets a new generation and the tray is told.  (A generation stands for as many as the
\* handlers of one slot go through: only whether it changed is ever looked at.)  Children
\* are numbered, and a connection is the one announced by the child of that moment.
ControllerFollows ==
  /\ generation' = IF state' = state THEN generation ELSE generation + 1
  /\ IF state' = state THEN UNCHANGED tray ELSE TrayShows(state')
  /\ attempt' = IF process = "NotRunning" /\ process' = "Running" THEN attempt + 1 ELSE attempt
  /\ announced' = IF state' = "ONLINE" /\ state # "ONLINE" THEN attempt ELSE announced

\* ApplicationController::start(): the worker, then the supervisor.
Start ==
  /\ mpc = "loop" /\ phase = "none"
  /\ S!start /\ ControllerFollows
  /\ phase' = "idle"
  /\ UNCHANGED <<stopped, working_for, mpc, request>>

\* The same with AI switched off in the configuration: the supervisor stays DISABLED and
\* says so to its state handler.
StartDisabled ==
  /\ mpc = "loop" /\ phase = "none"
  /\ phase' = "idle" /\ generation' = generation + 1
  /\ TrayShows("DISABLED")
  /\ UNCHANGED <<supervisor, reports, online, stopped, working_for, mpc, children, request>>

\* A slot of the supervisor.
Slot(A) ==
  /\ mpc = "loop" /\ phase # "none"
  /\ A /\ ControllerFollows
  /\ UNCHANGED <<stopped, phase, working_for, mpc, request>>

StartupTimeout   == Slot(S!StartupTimeout)
RestartDue       == Slot(S!RestartDue)
StableDue        == Slot(S!StableDue)
AiReady          == Slot(S!AiReady)
Finished         == Slot(S!Finished)
TransportFailure == Slot(S!TransportFailure)

\* begin_shutdown() up to the join in ai_client_->stop().
BeginShutdown ==
  /\ mpc = "loop" /\ mpc' = "join"
  /\ C!AbsStop
  /\ TrayShows("STOPPING")
  /\ UNCHANGED <<supervisor, reports, children, request>>

\* The join, supervisor_->stop(), and the way out of the event loop.
JoinWorker ==
  /\ mpc = "join" /\ phase \in {"none", "exited"}
  /\ mpc' = "done"
  /\ S!stop /\ ControllerFollows
  /\ UNCHANGED <<stopped, phase, working_for, request>>

-----------------------------------------------------------------------------
(* The child process. *)

ServerReady ==
  /\ attempt <= MaxServers
  /\ S!ServerReady
  /\ UNCHANGED <<generation, stopped, phase, working_for, mpc, children, request, tray>>

\* It leaves its loop: asked to, for an error, or because the inference failed.
ServerExits ==
  /\ S!ServerExits
  /\ UNCHANGED <<generation, stopped, phase, working_for, mpc, children, request, tray>>

\* The request arrives at the child that listens now.
RequestArrives ==
  /\ phase = "working" /\ request.to = 0
  /\ server = "ready" /\ ~doomed
  /\ request' = [request EXCEPT !.to = attempt]
  /\ UNCHANGED <<supervisor, reports, client, mpc, children, tray>>

\* _serve_requests(): one answer to the request received; none after a restart.
ServerAnswers ==
  /\ phase = "working" /\ request.to = attempt /\ ~request.answered
  /\ server = "ready" /\ ~doomed
  /\ request' = [request EXCEPT !.answered = TRUE]
  /\ UNCHANGED <<supervisor, reports, client, mpc, children, tray>>

-----------------------------------------------------------------------------
(* The client's worker. *)

\* It takes a flow; the capture thread always has another one.
TakeFlow ==
  /\ C!Take
  /\ request' = [to |-> 0, answered |-> FALSE]
  /\ UNCHANGED <<supervisor, reports, mpc, children, tray>>

\* The reply is judged, or dropped when its connection is gone.
UseReply ==
  /\ request.answered /\ C!Finish
  /\ request' = [to |-> 0, answered |-> FALSE]
  /\ UNCHANGED <<supervisor, reports, mpc, children, tray>>

\* No reply in time, an error, or an answer that comes too late: the end of the
\* connection, unless it has ended already.
ExchangeFails ==
  /\ C!Fail \/ (~C!Live /\ C!Finish)
  /\ request' = [to |-> 0, answered |-> FALSE]
  /\ UNCHANGED <<supervisor, reports, mpc, children, tray>>

\* Bug: the report is a blocking call into the main thread.
ReportBlocking ==
  /\ mpc = "loop"
  /\ C!Report
  /\ reports' = reports + 1
  /\ UNCHANGED <<supervisor, mpc, children, request, tray>>

\* post_transport_failure(): the report is queued, the worker does not wait for it.
Report ==
  /\ C!Report
  /\ reports' = reports + 1
  /\ UNCHANGED <<supervisor, mpc, children, request, tray>>

WorkerExits ==
  /\ C!Exit
  /\ UNCHANGED <<supervisor, reports, mpc, children, request, tray>>

-----------------------------------------------------------------------------
Init ==
  /\ S!Init /\ C!AbsInit
  /\ mpc = "loop" /\ attempt = 0 /\ announced = 0
  /\ request = [to |-> 0, answered |-> FALSE]
  /\ icon \in {"grey", "none"} /\ offline_shown = FALSE

Slots  == StartupTimeout \/ RestartDue \/ StableDue \/ AiReady \/ Finished \/ TransportFailure
Main   == Start \/ StartDisabled \/ Slots \/ BeginShutdown \/ JoinWorker
Child  == ServerReady \/ ServerExits \/ RequestArrives \/ ServerAnswers
Worker == UseReply \/ ExchangeFails \/ Report \/ WorkerExits

Next == Main \/ Child \/ TakeFlow \/ Worker

Spec == Init /\ [][Next]_vars

\* The event loop runs its timers and queued events, the worker's calls all have
\* time-outs, and a join ends when the worker has.  Nothing is assumed of the server,
\* nor that flows arrive or that somebody stops the program.
FairSpec ==
  /\ Spec
  /\ WF_vars(StartupTimeout) /\ WF_vars(RestartDue) /\ WF_vars(Finished)
  /\ WF_vars(TransportFailure) /\ WF_vars(JoinWorker) /\ WF_vars(Worker)

-----------------------------------------------------------------------------
(***************************************************************************)
(* Properties.                                                             *)
(***************************************************************************)
\* A judgement that counts comes from the child whose ready line began the connection,
\* so from the model version the client expects: no server answers for another one,
\* although all of them share one socket path.
AnswersFromOwnServer ==
  [][phase = "working" /\ phase' = "idle" /\ request.answered /\ C!Live
       => request.to = announced]_vars

\* The user never looks at a green icon for long while flows are dropped: a connection
\* the worker gave up is seen by the main thread, or a new one is up.
OutageShown == (icon = "green" /\ ~online) ~> (icon # "green" \/ online)

\* begin_shutdown() gets past its join, whatever the worker is doing: in an exchange
\* with a server that does not answer, or about to report to the very thread that waits.
StopsCleanly == (mpc = "join") ~> (mpc = "done")
=============================================================================
