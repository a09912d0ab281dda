------------------------ MODULE ApplicationController ------------------------
(***************************************************************************)
(* The life of the program: main.cpp, app/application_controller.cpp, the  *)
(* start() and stop() of capture/packet_capture.cpp and the receive loop   *)
(* of capture/packet_source.cpp, composed with FirewallQueueGuard, whose   *)
(* iptables commands PacketCapture::start() and the destructor run.        *)
(*                                                                         *)
(* Three threads: the main thread (Qt's event loop, then the steps of      *)
(* begin_shutdown()), the capture thread, and the worker of the AI client. *)
(* The capture thread reports its result through the event queue of the    *)
(* main thread.  What the threads do in between is in other modules.  The  *)
(* program may be killed at any point and is started again, with the rules *)
(* that are left in the kernel.                                            *)
(***************************************************************************)
EXTENDS FirewallQueueGuard

VARIABLES
  mpc,             \* where the main thread is
  stopping,        \* stopping_
  code,            \* the argument of the begin_shutdown() under way
  exit_code,       \* of main()
  asked,           \* g_shutdown_requested, or a click on the tray's exit
  cpc,             \* where the capture thread is
  running,         \* running_ of the packet source
  stop_requested,  \* stop_requested_ of the packet source
  ok,              \* what start() of the capture will return
  queue_open,      \* the NFQUEUE is bound
  timed,           \* recv() has its time-out
  posted,          \* the capture result in the event queue
  client_stop,     \* stop_requested_ of the AI client
  worker,          \* the client's worker thread
  failed_first     \* history: capture failed before a shutdown was asked for or begun

main_thread     == <<mpc, stopping, code, exit_code>>
capture_thread  == <<cpc, ok, queue_open, timed, posted, failed_first>>
source_flags    == <<running, stop_requested>>
ai              == <<client_stop, worker>>
controller_vars == <<main_thread, asked, capture_thread, source_flags, ai, guard_vars>>

-----------------------------------------------------------------------------
(* The main thread. *)

ControllerInit ==
  /\ mpc = "start" /\ stopping = FALSE /\ code = 0 /\ exit_code = 1 /\ asked = FALSE
  /\ cpc = "none" /\ running = FALSE /\ stop_requested = FALSE /\ ok = TRUE
  /\ queue_open = FALSE /\ timed = FALSE /\ posted = "nothing" /\ failed_first = FALSE
  /\ client_stop = FALSE /\ worker = "none"
  /\ GuardInit

\* start(), then exec(): the client's worker, the capture thread, the supervisor.
start ==
  /\ mpc = "start" /\ mpc' = "exec"
  /\ worker' = "running" /\ cpc' = "open"
  /\ UNCHANGED <<stopping, code, exit_code, asked, ok, queue_open, timed, posted,
                 failed_first, source_flags, client_stop, guard_vars>>

\* main() before there is a controller: not root, or a config.json or whitelist that
\* cannot be used.  Signals are not handled yet.
LoadFails ==
  /\ mpc = "start" /\ ~asked /\ mpc' = "returned"
  /\ UNCHANGED <<stopping, code, exit_code, asked, capture_thread, source_flags, ai,
                 guard_vars>>

\* start() when the capture thread cannot be created: the client is stopped again, and
\* only the destructor of the controller follows; its exit() finds no event loop.
StartFails ==
  /\ mpc = "start" /\ mpc' = "destroy"
  /\ worker' = "exited" /\ client_stop' = TRUE
  /\ stopping' = TRUE /\ stop_requested' = TRUE
  /\ UNCHANGED <<code, exit_code, asked, capture_thread, running, guard_vars>>

\* begin_shutdown(): the first call wins; it stops the packet source.  The source's two
\* flags are set one after the other; the loop looks at both, so the order is of no
\* consequence.
BeginShutdown(c) ==
  /\ ~stopping /\ stopping' = TRUE
  /\ code' = c
  /\ stop_requested' = TRUE /\ running' = FALSE
  /\ mpc' = "stop_client"

\* A signal arrives, or the user chooses to exit.
AskToExit ==
  /\ mpc \in {"start", "exec"} /\ ~asked /\ asked' = TRUE
  /\ UNCHANGED <<main_thread, capture_thread, source_flags, ai, guard_vars>>

\* The signal timer or the tray's handler.
ExitAsked ==
  /\ mpc = "exec" /\ asked
  /\ BeginShutdown(0)
  /\ UNCHANGED <<exit_code, asked, capture_thread, ai, guard_vars>>

\* The event of post_capture_result().
CaptureResult ==
  /\ mpc = "exec" /\ posted # "nothing" /\ posted' = "nothing"
  /\ \/ posted = "failed" /\ BeginShutdown(1)
     \/ posted = "ok" /\ UNCHANGED <<mpc, stopping, code, source_flags>>
  /\ UNCHANGED <<exit_code, asked, cpc, ok, queue_open, timed, failed_first, ai,
                 guard_vars>>

\* ai_client_->stop(): the request, then the join.
StopClient ==
  /\ mpc = "stop_client" /\ mpc' = "join_client"
  /\ client_stop' = TRUE
  /\ UNCHANGED <<stopping, code, exit_code, asked, capture_thread, source_flags, worker,
                 guard_vars>>

JoinClient ==
  /\ mpc = "join_client" /\ worker \in {"none", "exited"}
  /\ mpc' = "stop_supervisor"
  /\ UNCHANGED <<stopping, code, exit_code, asked, capture_thread, source_flags, ai,
                 guard_vars>>

\* What the supervisor does is in AiProcessSupervisor; its child runs no code of ours.
StopSupervisor ==
  /\ mpc = "stop_supervisor" /\ mpc' = "join_capture"
  /\ UNCHANGED <<stopping, code, exit_code, asked, capture_thread, source_flags, ai,
                 guard_vars>>

\* Bug: the thread is detached.
DetachCapture ==
  /\ mpc = "join_capture" /\ mpc' = "exit"
  /\ UNCHANGED <<stopping, code, exit_code, asked, capture_thread, source_flags, ai,
                 guard_vars>>

JoinCapture ==
  /\ mpc = "join_capture" /\ cpc \in {"none", "done"}
  /\ mpc' = "exit"
  /\ UNCHANGED <<stopping, code, exit_code, asked, capture_thread, source_flags, ai,
                 guard_vars>>

\* QCoreApplication::exit(); exec() returns its argument, and begin_shutdown() is
\* called again without effect.
Exit ==
  /\ mpc = "exit" /\ mpc' = "destroy"
  /\ exit_code' = code
  /\ UNCHANGED <<stopping, code, asked, capture_thread, source_flags, ai, guard_vars>>

\* The destructors: the source is closed, then the guard tries once more to remove a
\* chain that is left.  main() returns when that is over.
Destroy ==
  /\ mpc = "destroy"
  /\ queue_open' = FALSE
  /\ \/ destroy /\ mpc' = mpc
     \/ pc = "dead" /\ mpc' = "returned" /\ UNCHANGED guard_vars
  /\ UNCHANGED <<stopping, code, exit_code, asked, cpc, ok, timed, posted, failed_first,
                 source_flags, ai>>

-----------------------------------------------------------------------------
(* The capture thread: PacketCapture::start(). *)

\* A time-out that cannot be set is only logged.
OpenSource ==
  /\ cpc = "open"
  /\ \/ cpc' = "install" /\ queue_open' = TRUE /\ ok' = ok /\ timed' \in BOOLEAN
     \/ cpc' = "post" /\ queue_open' = FALSE /\ ok' = FALSE /\ timed' = timed
  /\ UNCHANGED <<main_thread, asked, posted, failed_first, source_flags, ai, guard_vars>>

\* The call of install(), which runs its commands and rolls back when one fails.
InstallRules ==
  /\ cpc = "install" /\ install
  /\ UNCHANGED <<main_thread, asked, capture_thread, source_flags, ai>>

\* It returns.  After a failure the queue is closed, whatever the rollback has left.
InstallReturns ==
  /\ cpc = "install"
  /\ \/ pc = "running" /\ cpc' = "enter_loop" /\ UNCHANGED <<queue_open, ok>>
     \/ pc = "failed" /\ cpc' = "post" /\ queue_open' = FALSE /\ ok' = FALSE
  /\ UNCHANGED <<main_thread, asked, timed, posted, failed_first, source_flags, ai,
                 guard_vars>>

EnterLoop ==
  /\ cpc = "enter_loop" /\ cpc' = "loop"
  /\ running' = TRUE
  /\ UNCHANGED <<main_thread, asked, ok, queue_open, timed, posted, failed_first,
                 stop_requested, ai, guard_vars>>

\* Bug: the loop looks at running_ only, which it has just set itself.
LoopConditionRunning == running

LoopCondition == running /\ ~stop_requested

LoopTest ==
  /\ cpc = "loop"
  /\ \/ LoopCondition /\ cpc' = "recv" /\ running' = running
     \/ ~LoopCondition /\ cpc' = "uninstall" /\ running' = FALSE
  /\ UNCHANGED <<main_thread, asked, ok, queue_open, timed, posted, failed_first,
                 stop_requested, ai, guard_vars>>

\* recv() returns with a packet, a time-out or a full buffer, and the tick follows; or
\* it fails.
RecvReturns ==
  /\ cpc = "recv"
  /\ \/ cpc' = "loop" /\ UNCHANGED <<ok, running>>
     \/ cpc' = "uninstall" /\ ok' = FALSE /\ running' = FALSE
  /\ UNCHANGED <<main_thread, asked, queue_open, timed, posted, failed_first,
                 stop_requested, ai, guard_vars>>

Recv == timed /\ RecvReturns
\* Without the time-out only a packet or an error ends the call.
RecvUntimed == ~timed /\ RecvReturns

\* The call of uninstall(), which runs the commands of the removal.
UninstallRules ==
  /\ cpc = "uninstall" /\ uninstall
  /\ UNCHANGED <<main_thread, asked, capture_thread, source_flags, ai>>

\* Bug: what uninstall() returns is not looked at.
UninstallReturnsIgnored ==
  /\ cpc = "uninstall" /\ pc = "stopped" /\ cpc' = "close"
  /\ UNCHANGED <<main_thread, asked, ok, queue_open, timed, posted, failed_first,
                 source_flags, ai, guard_vars>>

\* It returns; owns_chain_ is left when the removal failed.
UninstallReturns ==
  /\ cpc = "uninstall" /\ pc = "stopped" /\ cpc' = "close"
  /\ ok' = (ok /\ ~owns_chain)
  /\ UNCHANGED <<main_thread, asked, queue_open, timed, posted, failed_first,
                 source_flags, ai, guard_vars>>

CloseSource ==
  /\ cpc = "close" /\ cpc' = "post"
  /\ queue_open' = FALSE
  /\ ok' \in {ok, FALSE}
  /\ UNCHANGED <<main_thread, asked, timed, posted, failed_first, source_flags, ai,
                 guard_vars>>

\* Bug: only a loop that was entered is reported.
PostResultOfLoop ==
  /\ cpc = "post" /\ cpc' = "done"
  /\ posted' = IF ok THEN "ok" ELSE IF pc = "stopped" THEN "failed" ELSE "nothing"
  /\ failed_first' = (~ok /\ ~stopping /\ ~asked)
  /\ UNCHANGED <<main_thread, asked, ok, queue_open, timed, source_flags, ai, guard_vars>>

\* post_capture_result()
PostResult ==
  /\ cpc = "post" /\ cpc' = "done"
  /\ posted' = IF ok THEN "ok" ELSE "failed"
  /\ failed_first' = (~ok /\ ~stopping /\ ~asked)
  /\ UNCHANGED <<main_thread, asked, ok, queue_open, timed, source_flags, ai, guard_vars>>

-----------------------------------------------------------------------------
(* The worker, the iptables processes, and the end of the process. *)

\* The client's worker leaves its loop once it is told to.
WorkerExits ==
  /\ worker = "running" /\ client_stop
  /\ worker' = "exited"
  /\ UNCHANGED <<main_thread, asked, capture_thread, source_flags, client_stop, guard_vars>>

\* One iptables process of the call the capture thread, or the destructor, is in.
RunIptables ==
  /\ Step
  /\ UNCHANGED <<main_thread, asked, capture_thread, source_flags, ai>>

\* The process is killed: its threads end and the kernel closes the queue.
Killed ==
  /\ mpc \notin {"returned", "killed"}
  /\ mpc' = "killed" /\ cpc' = "none" /\ worker' = "none" /\ queue_open' = FALSE
  /\ \/ Kill
     \/ pc = "dead" /\ UNCHANGED guard_vars
  /\ UNCHANGED <<stopping, code, exit_code, asked, ok, timed, posted, failed_first,
                 source_flags, client_stop>>

\* The program is started again; the kernel keeps its tables.
Restart ==
  /\ mpc \in {"returned", "killed"}
  /\ mpc' = "start" /\ stopping' = FALSE /\ code' = 0 /\ exit_code' = 1
  /\ asked' = FALSE /\ cpc' = "none" /\ running' = FALSE /\ stop_requested' = FALSE
  /\ ok' = TRUE /\ queue_open' = FALSE /\ timed' = FALSE /\ posted' = "nothing"
  /\ failed_first' = FALSE /\ client_stop' = FALSE /\ worker' = "none"
  /\ UNCHANGED guard_vars

Handlers == ExitAsked \/ CaptureResult
Shutdown == StopClient \/ JoinClient \/ StopSupervisor \/ JoinCapture \/ Exit \/ Destroy
Capture  == \/ OpenSource \/ InstallRules \/ InstallReturns \/ EnterLoop \/ LoopTest \/ Recv
            \/ UninstallRules \/ UninstallReturns \/ CloseSource \/ PostResult

ControllerNext ==
  \/ start \/ LoadFails \/ StartFails \/ AskToExit \/ Handlers \/ Shutdown
  \/ Capture \/ RecvUntimed
  \/ WorkerExits
  \/ RunIptables
  \/ Killed \/ Restart

ControllerSpec == ControllerInit /\ [][ControllerNext]_controller_vars

\* The event loop delivers what is queued, every thread goes on and every iptables
\* process ends.  recv() ends within a second when it has its time-out; without it,
\* nothing is assumed.
ControllerFairSpec ==
  /\ ControllerSpec
  /\ WF_controller_vars(Handlers) /\ WF_controller_vars(Shutdown)
  /\ WF_controller_vars(Capture) /\ WF_controller_vars(RunIptables)
  /\ WF_controller_vars(WorkerExits)

-----------------------------------------------------------------------------
(***************************************************************************)
(* Properties.                                                             *)
(***************************************************************************)
\* The controller is only destroyed when no thread can call it any more: the handlers
\* of both threads capture a pointer to it.
DestroyedAlone ==
  mpc \in {"destroy", "returned"} =>
    cpc \in {"none", "done"} /\ worker \in {"none", "exited"}

\* Packets that are diverted to a queue nobody reads pass unseen (--queue-bypass).
\* That is so only before this run has opened the queue, by what an earlier one left,
\* or when start() of the capture returns false: it never reports success while a jump
\* of the program is left, whichever commands of install(), its rollback or uninstall()
\* failed.
UnheardIsReported ==
  (\E b \in Builtin : jumps[b] > 0) /\ ~queue_open => cpc \in {"none", "open"} \/ ~ok

\* A shutdown comes to its end, at whatever point of its start the capture thread is;
\* it can only wait in a recv() whose time-out could not be set.
ShutdownCompletes ==
  stopping ~> (mpc \in {"returned", "killed"} \/ (cpc = "recv" /\ ~timed))

\* A capture that ends by itself ends the program: the sensor never goes on without it.
CaptureEndIsNoticed == (cpc = "done") ~> (mpc \in {"returned", "killed"})

\* A capture that failed before a shutdown was asked for or begun makes the exit code 1.
FailureGivesCodeOne == mpc = "returned" /\ failed_first => exit_code = 1
=============================================================================
