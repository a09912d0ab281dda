----------------------------- MODULE AiClientAbs -----------------------------
(***************************************************************************)
(* What the AI client promises to the thread that supervises the server:   *)
(* connections are numbered, the worker works for one connection at a      *)
(* time, it ends a connection only when its own work for that very         *)
(* connection failed, it then reports once, and it leaves after a stop.    *)
(* Queues, waiting, sockets and counters are not seen here.                *)
(***************************************************************************)
EXTENDS Naturals

VARIABLES
  online,      \* there is a connection
  generation,  \* number of changes of the connection so far
  stopped,     \* stop() was called
  phase,       \* the worker: "none", "idle", "working", "reporting", "exited"
  working_for  \* generation the worker took its flow under

abs_vars == <<online, generation, stopped, phase, working_for>>

\* The connection the worker works for is the one that is up.
Live == online /\ generation = working_for

AbsInit ==
  /\ online = FALSE /\ generation = 0 /\ stopped = FALSE
  /\ phase = "none" /\ working_for = 0

AbsStart ==
  /\ phase = "none" /\ ~stopped
  /\ phase' = "idle"
  /\ UNCHANGED <<online, generation, stopped, working_for>>

GoOnline ==
  /\ ~stopped
  /\ online' = TRUE /\ generation' = generation + 1
  /\ UNCHANGED <<stopped, phase, working_for>>

GoOffline ==
  /\ online' = FALSE /\ generation' = generation + 1
  /\ UNCHANGED <<stopped, phase, working_for>>

AbsStop ==
  /\ stopped' = TRUE
  /\ online' = FALSE /\ generation' = generation + 1
  /\ UNCHANGED <<phase, working_for>>

\* The worker takes a flow of the current connection.
Take ==
  /\ phase = "idle" /\ online /\ ~stopped
  /\ phase' = "working" /\ working_for' = generation
  /\ UNCHANGED <<online, generation, stopped>>

\* The flow has an outcome, or its connection is gone.
Finish ==
  /\ phase = "working"
  /\ phase' = "idle"
  /\ UNCHANGED <<online, generation, stopped, working_for>>

\* The exchange failed and takes its own connection down.
Fail ==
  /\ phase = "working" /\ Live
  /\ phase' = "reporting"
  /\ online' = FALSE /\ generation' = generation + 1
  /\ UNCHANGED <<stopped, working_for>>

Report ==
  /\ phase = "reporting"
  /\ phase' = "idle"
  /\ UNCHANGED <<online, generation, stopped, working_for>>

Exit ==
  /\ phase = "idle" /\ stopped
  /\ phase' = "exited"
  /\ UNCHANGED <<online, generation, stopped, working_for>>

AbsNext ==
  \/ AbsStart \/ GoOnline \/ GoOffline \/ AbsStop
  \/ Take \/ Finish \/ Fail \/ Report \/ Exit

AbsSpec == AbsInit /\ [][AbsNext]_abs_vars
=============================================================================
