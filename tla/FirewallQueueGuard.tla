------------------------- MODULE FirewallQueueGuard -------------------------
(***************************************************************************)
(* capture/firewall_queue_guard.cpp: the chain that diverts the host's     *)
(* traffic into the NFQUEUE, made and removed by a sequence of iptables    *)
(* processes, and PacketCapture::start(), which installs it, runs and      *)
(* uninstalls it.                                                          *)
(*                                                                         *)
(* Every run_iptables() is one action.  It can fail: without effect (fork, *)
(* the xtables lock) or, when the child dies after its commit, with it.    *)
(* The code reads exit status 1 of -L and -C as "not there".  The model    *)
(* assumes that iptables keeps it for that, and that a look which fails    *)
(* for another reason has another status, or none.  install() is called    *)
(* once per process.                                                       *)
(* The program can be killed between any two commands; the tables of the   *)
(* kernel survive it, and the next start meets them.                       *)
(***************************************************************************)
EXTENDS Naturals

VARIABLES
  chain,       \* IPS_WITH_AI in the kernel: who made it and the rules it has
  jumps,       \* managed jump rules to it, per built-in chain
  pc,          \* the next command of the program, or where it rests
  goal,        \* whom remove_chain() returns to
  side,        \* the built-in chain remove_managed_jumps() is at
  owns_chain,  \* owns_chain_
  installed    \* installed_

kernel     == <<chain, jumps>>
program    == <<pc, goal, side, owns_chain, installed>>
guard_vars == <<kernel, program>>

Builtin == {"INPUT", "OUTPUT"}

Absent == [by |-> "nobody", queue |-> FALSE, owner |-> FALSE]
Empty  == [by |-> "ips", queue |-> FALSE, owner |-> FALSE]
\* A chain of the same name that somebody else made.
Foreign == [by |-> "other", queue |-> FALSE, owner |-> FALSE]
NoJumps == [b \in Builtin |-> 0]

Exists == chain # Absent

-----------------------------------------------------------------------------
\* A command that only looks.
Looks == UNCHANGED kernel

\* The program goes on at another command.
GoTo(command) ==
  /\ pc' = command
  /\ UNCHANGED <<goal, side, owns_chain, installed>>

\* A command that changes the kernel: it succeeds and the program goes on at next,
\* or it fails, with or without its effect, and the program goes on at otherwise.
Runs(Effect, Proceed, Otherwise) ==
  \/ Effect /\ Proceed
  \/ Effect /\ Otherwise
  \/ Looks /\ Otherwise

\* The call of remove_chain() on behalf of a goal.
Remove(for) ==
  /\ pc' = "list" /\ goal' = for /\ side' = "INPUT"
  /\ UNCHANGED <<owns_chain, installed>>

\* Where a call of remove_chain() leads when it returns.
After(for, ok) ==
  CASE for = "install" /\ ok  -> "create"
    [] for = "install" /\ ~ok -> "failed"
    [] for = "rollback"       -> "failed"
    [] for = "uninstall"      -> "stopped"
    [] for = "destroy"        -> "dead"

\* remove_chain() returns; remove_current_chain() resets the flags on success.  The
\* end of the destructor is the end of the program.
Return(ok) ==
  /\ pc' = After(goal, ok)
  /\ owns_chain' = (owns_chain /\ ~(ok /\ goal # "install") /\ goal # "destroy")
  /\ installed' = (installed /\ ~(ok /\ goal # "install") /\ goal # "destroy")
  /\ UNCHANGED <<goal, side>>

-----------------------------------------------------------------------------
(* remove_chain() *)

\* Bug: the chain is emptied while traffic still jumps to it.
ListChainThenFlush ==
  /\ pc = "list" /\ Looks
  /\ \/ Return(FALSE)
     \/ ~Exists /\ Return(TRUE)
     \/ Exists /\ GoTo(IF goal = "install" THEN "owner" ELSE "flush")

ListChain ==
  /\ pc = "list" /\ Looks
  /\ \/ Return(FALSE)
     \/ ~Exists /\ Return(TRUE)
     \/ Exists /\ GoTo(IF goal = "install" THEN "owner" ELSE "check")

\* Bug: any chain of this name is taken for a stale one.
CheckOwnerAnyone ==
  /\ pc = "owner" /\ Looks
  /\ \/ Return(FALSE)
     \/ GoTo("check")

\* The owner marker, required of a chain this process did not make.
CheckOwner ==
  /\ pc = "owner" /\ Looks
  /\ \/ Return(FALSE)
     \/ chain.owner /\ GoTo("check")

\* remove_managed_jumps(): is there a jump left?
CheckJump ==
  /\ pc = "check" /\ Looks
  /\ \/ Return(FALSE)
     \/ jumps[side] > 0 /\ GoTo("drop")
     \/ jumps[side] = 0 /\ side = "INPUT" /\ side' = "OUTPUT"
        /\ UNCHANGED <<pc, goal, owns_chain, installed>>
     \/ jumps[side] = 0 /\ side = "OUTPUT" /\ GoTo("flush")

DropJump ==
  /\ pc = "drop"
  /\ Runs(jumps' = [jumps EXCEPT ![side] = @ - 1] /\ UNCHANGED chain,
          GoTo("check"), Return(FALSE))

FlushChain ==
  /\ pc = "flush"
  /\ Runs(chain' = [chain EXCEPT !.queue = FALSE, !.owner = FALSE] /\ UNCHANGED jumps,
          GoTo("delete"), Return(FALSE))

\* The kernel deletes an empty chain nothing jumps to.
Deletes ==
  /\ ~chain.queue /\ ~chain.owner /\ jumps = NoJumps
  /\ chain' = Absent
  /\ UNCHANGED jumps

\* Bug: the status of the last command is ignored.
DeleteChainUnchecked ==
  /\ pc = "delete"
  /\ Deletes \/ Looks
  /\ Return(TRUE)

DeleteChain ==
  /\ pc = "delete"
  /\ Runs(Deletes, Return(TRUE), GoTo("relist"))

\* The deletion failed: see what is left.
RelistChain ==
  /\ pc = "relist" /\ Looks
  /\ \/ Return(FALSE)
     \/ ~Exists /\ Return(TRUE)
     \/ Exists /\ GoTo("remark")

\* Put the owner marker back, so that a later start may remove the chain.
RestoreOwner ==
  /\ pc = "remark"
  /\ Runs(chain' = [chain EXCEPT !.owner = TRUE] /\ UNCHANGED jumps,
          Return(FALSE), Return(FALSE))

-----------------------------------------------------------------------------
(* install() after remove_owned_chain() *)

\* The kernel refuses a chain that exists.
CreateChain ==
  /\ pc = "create"
  /\ \/ /\ ~Exists /\ chain' = Empty /\ UNCHANGED jumps
        /\ \/ /\ pc' = "add_queue" /\ owns_chain' = TRUE
              /\ UNCHANGED <<goal, side, installed>>
           \/ GoTo("failed")
     \/ Looks /\ GoTo("failed")

AddQueueRule ==
  /\ pc = "add_queue"
  /\ Runs(chain' = [chain EXCEPT !.queue = TRUE] /\ UNCHANGED jumps,
          GoTo("add_owner"), Remove("rollback"))

AddOwnerRule ==
  /\ pc = "add_owner"
  /\ Runs(chain' = [chain EXCEPT !.owner = TRUE] /\ UNCHANGED jumps,
          GoTo("jump_in"), Remove("rollback"))

InsertInputJump ==
  /\ pc = "jump_in"
  /\ Runs(jumps' = [jumps EXCEPT !["INPUT"] = @ + 1] /\ UNCHANGED chain,
          GoTo("jump_out"), Remove("rollback"))

Installed ==
  /\ pc' = "running" /\ installed' = TRUE
  /\ UNCHANGED <<goal, side, owns_chain>>

\* Bug: both jumps go into the same built-in chain.
InsertOutputJumpIntoInput ==
  /\ pc = "jump_out"
  /\ Runs(jumps' = [jumps EXCEPT !["INPUT"] = @ + 1] /\ UNCHANGED chain,
          Installed, Remove("rollback"))

InsertOutputJump ==
  /\ pc = "jump_out"
  /\ Runs(jumps' = [jumps EXCEPT !["OUTPUT"] = @ + 1] /\ UNCHANGED chain,
          Installed, Remove("rollback"))

-----------------------------------------------------------------------------
(* PacketCapture::start(), the destructor, and the end of the process. *)

GuardInit ==
  /\ chain \in {Absent, Foreign} /\ jumps = NoJumps
  /\ pc = "dead" /\ goal = "install" /\ side = "INPUT"
  /\ owns_chain = FALSE /\ installed = FALSE

\* A new process calls install().
install ==
  /\ pc = "dead"
  /\ Remove("install")
  /\ UNCHANGED kernel

\* The capture loop ends: uninstall().
uninstall ==
  /\ pc = "running"
  /\ Remove("uninstall")
  /\ UNCHANGED kernel

\* The destructor tries once more when something is left.
destroy ==
  /\ pc \in {"failed", "stopped"}
  /\ \/ owns_chain /\ Remove("destroy")
     \/ ~owns_chain /\ GoTo("dead")
  /\ UNCHANGED kernel

\* The process is killed; its memory is gone, the rules stay.
Kill ==
  /\ pc # "dead"
  /\ pc' = "dead" /\ owns_chain' = FALSE /\ installed' = FALSE
  /\ UNCHANGED <<kernel, goal, side>>

Step ==
  \/ ListChain \/ CheckOwner \/ CheckJump \/ DropJump \/ FlushChain \/ DeleteChain
  \/ RelistChain \/ RestoreOwner
  \/ CreateChain \/ AddQueueRule \/ AddOwnerRule \/ InsertInputJump \/ InsertOutputJump

GuardNext == Kill \/ Step \/ install \/ uninstall \/ destroy

GuardSpec == GuardInit /\ [][GuardNext]_guard_vars

-----------------------------------------------------------------------------
(***************************************************************************)
(* Properties.                                                             *)
(***************************************************************************)
\* While the sensor runs, both directions are diverted exactly once to a complete
\* chain, whatever earlier runs left behind.
WiredOnce ==
  pc = "running" =>
    /\ chain = [by |-> "ips", queue |-> TRUE, owner |-> TRUE]
    /\ \A b \in Builtin : jumps[b] = 1

\* Traffic is only ever diverted to a complete chain: neither a failed command nor a
\* kill leaves a jump to a chain that lacks a rule.
DivertedToCompleteChain ==
  (\E b \in Builtin : jumps[b] > 0) => chain.queue /\ chain.owner

\* After a removal that reported success nothing of the program is left.
CleanStop ==
  pc = "stopped" /\ ~owns_chain => chain = Absent /\ jumps = NoJumps

\* A chain that somebody else made is never changed.
ForeignUntouched == [][chain.by = "other" => UNCHANGED kernel]_guard_vars

\* The README: the next start removes what a killed run left and registers its rules
\* anew.  It can only do so when a chain the program made carries the owner marker.
LeftoverIsRemovable ==
  pc = "dead" /\ chain.by = "ips" => chain.owner
=============================================================================
