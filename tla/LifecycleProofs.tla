--------------------------- MODULE LifecycleProofs ---------------------------
(***************************************************************************)
(* What the start and the end of the program leave behind: the safety      *)
(* properties of FirewallQueueGuard, for every number of starts, failed    *)
(* commands and kills, that the program uses the guard as it expects, and  *)
(* the safety properties of ApplicationController that rest on it.         *)
(***************************************************************************)
EXTENDS ApplicationController, TLAPS

-----------------------------------------------------------------------------
(* FirewallQueueGuard *)

Chains == [by : {"nobody", "ips", "other"}, queue : BOOLEAN, owner : BOOLEAN]

\* The commands of remove_chain() and those of install() after it, in their order.
Removing   == {"list", "owner", "check", "drop", "flush", "delete", "relist", "remark"}
Installing == {"create", "add_queue", "add_owner", "jump_in", "jump_out"}
Resting    == {"dead", "failed", "running", "stopped"}

TypeOK ==
  /\ chain \in Chains /\ jumps \in [Builtin -> Nat]
  /\ pc \in Removing \cup Installing \cup Resting
  /\ goal \in {"install", "rollback", "uninstall", "destroy"}
  /\ side \in Builtin
  /\ owns_chain \in BOOLEAN /\ installed \in BOOLEAN

\* Only a chain of the program has rules.
RulesAreOurs == chain.by # "ips" => ~chain.queue /\ ~chain.owner

\* What the flag claims: a chain the program made, or that is gone.
OwnsNoForeign ==
  /\ owns_chain => chain.by # "other"
  /\ pc \in Removing /\ goal # "install" => owns_chain
  /\ pc \in {"dead", "create"} => ~owns_chain
  /\ pc \in Removing /\ goal = "install" => ~owns_chain

\* Past its checks remove_chain() works on a chain the program made.
RemovesOwn ==
  /\ pc \in {"check", "drop", "flush", "delete", "remark"} => chain.by = "ips"
  /\ pc = "relist" => chain.by # "other"

\* The order of the removal: the jumps of one side, then of the other, then the rules.
JumpsGoFirst ==
  /\ pc \in {"list", "owner"} => side = "INPUT"
  /\ pc = "check" /\ side = "OUTPUT" => jumps["INPUT"] = 0
  /\ pc = "drop" => jumps[side] > 0 /\ (side = "OUTPUT" => jumps["INPUT"] = 0)
  /\ pc \in {"flush", "delete", "relist", "remark"} => jumps = NoJumps

\* The order of the installation: the rules, then the jumps.
JumpsComeLast ==
  /\ pc = "add_queue" => owns_chain /\ chain = Empty
  /\ pc = "add_owner" => owns_chain /\ chain = [Empty EXCEPT !.queue = TRUE]
  /\ pc \in {"jump_in", "jump_out", "running"} =>
       owns_chain /\ chain = [by |-> "ips", queue |-> TRUE, owner |-> TRUE]
  /\ pc = "jump_in" => jumps = NoJumps
  /\ pc = "jump_out" => jumps["INPUT"] = 1 /\ jumps["OUTPUT"] = 0
  /\ pc = "running" => \A b \in Builtin : jumps[b] = 1

GuardInv ==
  /\ TypeOK /\ RulesAreOurs /\ OwnsNoForeign /\ RemovesOwn /\ JumpsGoFirst /\ JumpsComeLast
  /\ DivertedToCompleteChain /\ CleanStop

-----------------------------------------------------------------------------
\* No jump on either side is no jump at all.
LEMMA BothSides ==
  ASSUME NEW j \in [Builtin -> Nat], j["INPUT"] = 0, j["OUTPUT"] = 0
  PROVE  j = NoJumps
<1>1. \A b \in Builtin : j[b] = 0
  BY DEF Builtin
<1> QED
  BY <1>1 DEF NoJumps

\* A chain that lacks a rule has no jumps to it.
LEMMA IncompleteNoJumps ==
  ASSUME NEW j \in [Builtin -> Nat], ~ \E b \in Builtin : j[b] > 0
  PROVE  j = NoJumps
<1>1. "INPUT" \in Builtin /\ "OUTPUT" \in Builtin
  BY DEF Builtin
<1>2. j["INPUT"] = 0 /\ j["OUTPUT"] = 0
  BY <1>1
<1> QED
  BY <1>2, BothSides

\* The parts of the invariant about the tables of the kernel alone.
KernelOK ==
  /\ chain \in Chains /\ jumps \in [Builtin -> Nat]
  /\ RulesAreOurs /\ DivertedToCompleteChain

\* A command that only looks leaves the kernel's part as it is.
LEMMA LooksHolds ==
  ASSUME GuardInv, Looks
  PROVE  KernelOK' /\ chain' = chain /\ jumps' = jumps
BY DEF GuardInv, TypeOK, Looks, kernel, KernelOK, RulesAreOurs, DivertedToCompleteChain

\* remove_chain() may return after every command, with success only when the chain is
\* gone.
LEMMA ReturnHolds ==
  ASSUME GuardInv, pc \in Removing, NEW success \in BOOLEAN, Return(success), KernelOK',
         chain.by # "other" => chain'.by # "other",
         success => chain' = Absent
  PROVE  GuardInv'
<1>1. /\ pc' = After(goal, success) /\ goal' = goal /\ side' = side
      /\ owns_chain' = (owns_chain /\ ~(success /\ goal # "install") /\ goal # "destroy")
      /\ installed' = (installed /\ ~(success /\ goal # "install") /\ goal # "destroy")
  BY DEF Return
<1>2. pc' \in {"create", "failed", "stopped", "dead"}
  BY <1>1 DEF GuardInv, TypeOK, After
<1>3. TypeOK'
  BY <1>1, <1>2 DEF GuardInv, TypeOK, KernelOK, Installing, Resting
<1>4. pc' = "create" => goal = "install"
  BY <1>1 DEF GuardInv, TypeOK, After
<1>5. pc' = "dead" => goal = "destroy"
  BY <1>1 DEF GuardInv, TypeOK, After
<1>6. OwnsNoForeign'
  BY <1>1, <1>2, <1>4, <1>5 DEF GuardInv, OwnsNoForeign, Removing
<1>7. CleanStop'
  <2>1. pc' = "stopped" => goal = "uninstall"
    BY <1>1 DEF GuardInv, TypeOK, After
  <2>2. pc' = "stopped" /\ ~owns_chain' => success
    BY <1>1, <2>1 DEF GuardInv, OwnsNoForeign
  <2>3. chain' = Absent => jumps' = NoJumps
    BY IncompleteNoJumps DEF KernelOK, DivertedToCompleteChain, Absent
  <2> QED
    BY <2>2, <2>3 DEF CleanStop
<1>8. RemovesOwn' /\ JumpsGoFirst' /\ JumpsComeLast'
  BY <1>2 DEF RemovesOwn, JumpsGoFirst, JumpsComeLast
<1> QED
  BY <1>3, <1>6, <1>7, <1>8 DEF GuardInv, KernelOK

\* A call of remove_chain(), by a process that made the chain or that knows of none.
LEMMA RemoveHolds ==
  ASSUME GuardInv, NEW for \in {"install", "rollback", "uninstall", "destroy"}, Remove(for),
         KernelOK', chain.by # "other" => chain'.by # "other",
         owns_chain <=> for # "install"
  PROVE  GuardInv'
<1>1. /\ pc' = "list" /\ goal' = for /\ side' = "INPUT"
      /\ owns_chain' = owns_chain /\ installed' = installed
  BY DEF Remove
<1>2. TypeOK'
  BY <1>1 DEF GuardInv, TypeOK, KernelOK, Removing, Builtin
<1>3. OwnsNoForeign'
  BY <1>1 DEF GuardInv, OwnsNoForeign, Removing
<1>4. RemovesOwn' /\ JumpsGoFirst' /\ JumpsComeLast' /\ CleanStop'
  BY <1>1 DEF RemovesOwn, JumpsGoFirst, JumpsComeLast, CleanStop
<1> QED
  BY <1>2, <1>3, <1>4 DEF GuardInv, KernelOK

\* Between two commands of remove_chain() only the order of the removal matters.
LEMMA RemovalGoesOn ==
  ASSUME GuardInv, pc \in Removing, pc' \in Removing, KernelOK',
         side' \in Builtin, UNCHANGED <<goal, owns_chain, installed>>,
         chain.by # "other" => chain'.by # "other",
         RemovesOwn', JumpsGoFirst'
  PROVE  GuardInv'
<1>1. TypeOK'
  BY DEF GuardInv, TypeOK, KernelOK
<1>2. OwnsNoForeign'
  BY DEF GuardInv, OwnsNoForeign, Removing
<1>3. JumpsComeLast' /\ CleanStop'
  BY DEF JumpsComeLast, CleanStop, Removing
<1> QED
  BY <1>1, <1>2, <1>3 DEF GuardInv, KernelOK

-----------------------------------------------------------------------------
(* remove_chain() *)

\* Is there a chain of the name at all?
LEMMA ListChainHolds ==
  ASSUME GuardInv, ListChain
  PROVE  GuardInv'
<1>1. pc = "list" /\ pc \in Removing /\ KernelOK' /\ chain' = chain /\ jumps' = jumps
  BY LooksHolds DEF ListChain, Removing
<1>2. CASE Return(FALSE)
  BY <1>1, <1>2, ReturnHolds
<1>3. CASE ~Exists /\ Return(TRUE)
  BY <1>1, <1>3, ReturnHolds DEF Exists
<1>4. CASE Exists /\ GoTo(IF goal = "install" THEN "owner" ELSE "check")
  <2>1. /\ pc' = (IF goal = "install" THEN "owner" ELSE "check") /\ side' = side
        /\ UNCHANGED <<goal, owns_chain, installed>>
    BY <1>4 DEF GoTo
  <2>2. chain.by # "nobody"
    BY <1>4 DEF Exists, Absent, GuardInv, TypeOK, Chains, RulesAreOurs
  <2>3. goal # "install" => chain.by = "ips"
    BY <1>1, <2>2 DEF GuardInv, TypeOK, Chains, OwnsNoForeign, Removing
  <2>4. RemovesOwn' /\ JumpsGoFirst'
    BY <1>1, <2>1, <2>3 DEF RemovesOwn, JumpsGoFirst, GuardInv
  <2>5. pc' \in Removing /\ side' \in Builtin
    BY <2>1 DEF Removing, GuardInv, TypeOK
  <2> QED
    BY <1>1, <2>1, <2>4, <2>5, RemovalGoesOn
<1> QED
  BY <1>2, <1>3, <1>4 DEF ListChain

\* Does it carry the owner mark?
LEMMA CheckOwnerHolds ==
  ASSUME GuardInv, CheckOwner
  PROVE  GuardInv'
<1>1. pc = "owner" /\ pc \in Removing /\ KernelOK' /\ chain' = chain /\ jumps' = jumps
  BY LooksHolds DEF CheckOwner, Removing
<1>2. CASE Return(FALSE)
  BY <1>1, <1>2, ReturnHolds
<1>3. CASE chain.owner /\ GoTo("check")
  <2>1. pc' = "check" /\ side' = side /\ UNCHANGED <<goal, owns_chain, installed>>
    BY <1>3 DEF GoTo
  <2>2. chain.by = "ips"
    BY <1>3 DEF GuardInv, RulesAreOurs
  <2>3. RemovesOwn' /\ JumpsGoFirst'
    BY <1>1, <2>1, <2>2 DEF RemovesOwn, JumpsGoFirst, GuardInv
  <2>4. pc' \in Removing /\ side' \in Builtin
    BY <2>1 DEF Removing, GuardInv, TypeOK
  <2> QED
    BY <1>1, <2>1, <2>3, <2>4, RemovalGoesOn
<1> QED
  BY <1>2, <1>3 DEF CheckOwner

\* Is there another jump to it?
LEMMA CheckJumpHolds ==
  ASSUME GuardInv, CheckJump
  PROVE  GuardInv'
<1>1. pc = "check" /\ pc \in Removing /\ KernelOK' /\ chain' = chain /\ jumps' = jumps
  BY LooksHolds DEF CheckJump, Removing
<1>2. chain.by = "ips" /\ (side = "OUTPUT" => jumps["INPUT"] = 0)
  BY <1>1 DEF GuardInv, RemovesOwn, JumpsGoFirst
<1>3. CASE Return(FALSE)
  BY <1>1, <1>3, ReturnHolds
<1>4. CASE jumps[side] > 0 /\ GoTo("drop")
  <2>1. pc' = "drop" /\ side' = side /\ UNCHANGED <<goal, owns_chain, installed>>
    BY <1>4 DEF GoTo
  <2>2. RemovesOwn' /\ JumpsGoFirst'
    BY <1>1, <1>2, <1>4, <2>1 DEF RemovesOwn, JumpsGoFirst
  <2>3. pc' \in Removing /\ side' \in Builtin
    BY <2>1 DEF Removing, GuardInv, TypeOK
  <2> QED
    BY <1>1, <2>1, <2>2, <2>3, RemovalGoesOn
<1>5. CASE jumps[side] = 0 /\ side = "INPUT" /\ side' = "OUTPUT"
           /\ UNCHANGED <<pc, goal, owns_chain, installed>>
  <2>1. RemovesOwn' /\ JumpsGoFirst'
    BY <1>1, <1>2, <1>5 DEF RemovesOwn, JumpsGoFirst
  <2>2. pc' \in Removing /\ side' \in Builtin
    BY <1>1, <1>5 DEF Builtin
  <2> QED
    BY <1>1, <1>5, <2>1, <2>2, RemovalGoesOn
<1>6. CASE jumps[side] = 0 /\ side = "OUTPUT" /\ GoTo("flush")
  <2>1. pc' = "flush" /\ side' = side /\ UNCHANGED <<goal, owns_chain, installed>>
    BY <1>6 DEF GoTo
  <2>2. jumps = NoJumps
    BY <1>2, <1>6, BothSides DEF GuardInv, TypeOK
  <2>3. RemovesOwn' /\ JumpsGoFirst'
    BY <1>1, <1>2, <2>1, <2>2 DEF RemovesOwn, JumpsGoFirst
  <2>4. pc' \in Removing /\ side' \in Builtin
    BY <2>1 DEF Removing, GuardInv, TypeOK
  <2> QED
    BY <1>1, <2>1, <2>3, <2>4, RemovalGoesOn
<1> QED
  BY <1>3, <1>4, <1>5, <1>6 DEF CheckJump

\* One jump less.
LEMMA DropJumpHolds ==
  ASSUME GuardInv, DropJump
  PROVE  GuardInv'
<1> DEFINE Effect == jumps' = [jumps EXCEPT ![side] = @ - 1] /\ UNCHANGED chain
<1>1. /\ pc = "drop" /\ pc \in Removing
      /\ chain.by = "ips" /\ jumps[side] > 0 /\ (side = "OUTPUT" => jumps["INPUT"] = 0)
  BY DEF DropJump, Removing, GuardInv, RemovesOwn, JumpsGoFirst
<1>2. Effect => KernelOK' /\ chain' = chain
  <2> SUFFICES ASSUME Effect PROVE KernelOK' /\ chain' = chain
    OBVIOUS
  <2>1. side \in Builtin /\ jumps \in [Builtin -> Nat]
    BY DEF GuardInv, TypeOK
  <2>2. jumps' \in [Builtin -> Nat]
    BY <1>1, <2>1
  <2>3. chain.queue /\ chain.owner
    BY <1>1, <2>1 DEF GuardInv, DivertedToCompleteChain
  <2> QED
    BY <2>2, <2>3 DEF GuardInv, TypeOK, KernelOK, RulesAreOurs, DivertedToCompleteChain
<1>3. CASE Effect /\ GoTo("check")
  <2>1. pc' = "check" /\ side' = side /\ UNCHANGED <<goal, owns_chain, installed>>
    BY <1>3 DEF GoTo
  <2>2. RemovesOwn' /\ JumpsGoFirst'
    BY <1>1, <1>3, <2>1 DEF RemovesOwn, JumpsGoFirst, GuardInv, TypeOK, Builtin
  <2>3. pc' \in Removing /\ side' \in Builtin
    BY <2>1 DEF Removing, GuardInv, TypeOK
  <2> QED
    BY <1>1, <1>2, <1>3, <2>1, <2>2, <2>3, RemovalGoesOn
<1>4. CASE (Effect \/ Looks) /\ Return(FALSE)
  BY <1>1, <1>2, <1>4, LooksHolds, ReturnHolds
<1> QED
  BY <1>3, <1>4 DEF DropJump, Runs

\* The chain loses its rules, and the mark with them.
LEMMA FlushChainHolds ==
  ASSUME GuardInv, FlushChain
  PROVE  GuardInv'
<1> DEFINE Effect ==
      chain' = [chain EXCEPT !.queue = FALSE, !.owner = FALSE] /\ UNCHANGED jumps
<1>1. pc = "flush" /\ pc \in Removing /\ chain.by = "ips" /\ jumps = NoJumps
  BY DEF FlushChain, Removing, GuardInv, RemovesOwn, JumpsGoFirst
<1>2. ASSUME Effect
      PROVE  KernelOK' /\ chain'.by = "ips" /\ jumps' = NoJumps
  <2>1. chain' \in Chains /\ chain'.by = "ips"
    BY <1>1, <1>2 DEF GuardInv, TypeOK, Chains
  <2>2. jumps' = NoJumps /\ jumps' \in [Builtin -> Nat]
    BY <1>1, <1>2 DEF GuardInv, TypeOK
  <2>3. RulesAreOurs' /\ DivertedToCompleteChain'
    BY <2>1, <2>2 DEF RulesAreOurs, DivertedToCompleteChain, NoJumps
  <2> QED
    BY <2>1, <2>2, <2>3 DEF KernelOK
<1>3. CASE Effect /\ GoTo("delete")
  <2>1. pc' = "delete" /\ side' = side /\ UNCHANGED <<goal, owns_chain, installed>>
    BY <1>3 DEF GoTo
  <2>2. RemovesOwn' /\ JumpsGoFirst'
    BY <1>2, <1>3, <2>1 DEF RemovesOwn, JumpsGoFirst
  <2>3. pc' \in Removing /\ side' \in Builtin
    BY <2>1 DEF Removing, GuardInv, TypeOK
  <2> QED
    BY <1>1, <1>2, <1>3, <2>1, <2>2, <2>3, RemovalGoesOn
<1>4. CASE (Effect \/ Looks) /\ Return(FALSE)
  BY <1>1, <1>2, <1>4, LooksHolds, ReturnHolds
<1> QED
  BY <1>3, <1>4 DEF FlushChain, Runs

\* The empty chain goes.
LEMMA DeleteChainHolds ==
  ASSUME GuardInv, DeleteChain
  PROVE  GuardInv'
<1>1. pc = "delete" /\ pc \in Removing /\ chain.by = "ips" /\ jumps = NoJumps
  BY DEF DeleteChain, Removing, GuardInv, RemovesOwn, JumpsGoFirst
<1>2. Deletes => KernelOK' /\ chain' = Absent /\ chain'.by # "other" /\ jumps' = NoJumps
  BY <1>1 DEF Deletes, Absent, GuardInv, TypeOK, Chains, KernelOK, RulesAreOurs,
     DivertedToCompleteChain, NoJumps
<1>3. CASE Deletes /\ Return(TRUE)
  BY <1>1, <1>2, <1>3, ReturnHolds
<1>4. CASE (Deletes \/ Looks) /\ GoTo("relist")
  <2>1. pc' = "relist" /\ side' = side /\ UNCHANGED <<goal, owns_chain, installed>>
    BY <1>4 DEF GoTo
  <2>2. KernelOK' /\ chain'.by # "other" /\ jumps' = NoJumps
    BY <1>1, <1>2, <1>4, LooksHolds
  <2>3. RemovesOwn' /\ JumpsGoFirst'
    BY <2>1, <2>2 DEF RemovesOwn, JumpsGoFirst
  <2>4. pc' \in Removing /\ side' \in Builtin
    BY <2>1 DEF Removing, GuardInv, TypeOK
  <2> QED
    BY <1>1, <2>1, <2>2, <2>3, <2>4, RemovalGoesOn
<1> QED
  BY <1>3, <1>4 DEF DeleteChain, Runs

\* After a failed deletion: is the chain still there?
LEMMA RelistChainHolds ==
  ASSUME GuardInv, RelistChain
  PROVE  GuardInv'
<1>1. pc = "relist" /\ pc \in Removing /\ KernelOK' /\ chain' = chain /\ jumps' = jumps
  BY LooksHolds DEF RelistChain, Removing
<1>2. CASE Return(FALSE)
  BY <1>1, <1>2, ReturnHolds
<1>3. CASE ~Exists /\ Return(TRUE)
  BY <1>1, <1>3, ReturnHolds DEF Exists
<1>4. CASE Exists /\ GoTo("remark")
  <2>1. pc' = "remark" /\ side' = side /\ UNCHANGED <<goal, owns_chain, installed>>
    BY <1>4 DEF GoTo
  <2>2. chain.by = "ips" /\ jumps = NoJumps
    BY <1>1, <1>4 DEF Exists, Absent, GuardInv, TypeOK, Chains, RulesAreOurs, RemovesOwn,
       JumpsGoFirst
  <2>3. RemovesOwn' /\ JumpsGoFirst'
    BY <1>1, <2>1, <2>2 DEF RemovesOwn, JumpsGoFirst
  <2>4. pc' \in Removing /\ side' \in Builtin
    BY <2>1 DEF Removing, GuardInv, TypeOK
  <2> QED
    BY <1>1, <2>1, <2>3, <2>4, RemovalGoesOn
<1> QED
  BY <1>2, <1>3, <1>4 DEF RelistChain

\* It is: the mark comes back, so that a later run may remove it.
LEMMA RestoreOwnerHolds ==
  ASSUME GuardInv, RestoreOwner
  PROVE  GuardInv'
<1> DEFINE Effect == chain' = [chain EXCEPT !.owner = TRUE] /\ UNCHANGED jumps
<1>1. pc = "remark" /\ pc \in Removing /\ chain.by = "ips" /\ jumps = NoJumps
  BY DEF RestoreOwner, Removing, GuardInv, RemovesOwn, JumpsGoFirst
<1>2. Effect => KernelOK' /\ chain'.by = "ips"
  BY <1>1 DEF GuardInv, TypeOK, Chains, KernelOK, RulesAreOurs, DivertedToCompleteChain,
     NoJumps
<1>3. (Effect \/ Looks) /\ Return(FALSE)
  BY DEF RestoreOwner, Runs
<1> QED
  BY <1>1, <1>2, <1>3, LooksHolds, ReturnHolds

-----------------------------------------------------------------------------
(* install() after remove_owned_chain() *)

\* The commands of install() follow each other with the chain made so far.
LEMMA InstallGoesOn ==
  ASSUME GuardInv, pc \in Installing, KernelOK',
         pc' \in {"add_queue", "add_owner", "jump_in", "jump_out", "running"},
         UNCHANGED <<goal, side>>, installed' \in BOOLEAN, owns_chain' = TRUE,
         chain'.by = "ips", JumpsComeLast'
  PROVE  GuardInv'
<1>1. TypeOK'
  BY DEF GuardInv, TypeOK, KernelOK, Installing, Resting
<1>2. OwnsNoForeign'
  BY DEF OwnsNoForeign, Removing
<1>3. RemovesOwn' /\ JumpsGoFirst' /\ CleanStop'
  BY DEF RemovesOwn, JumpsGoFirst, CleanStop
<1> QED
  BY <1>1, <1>2, <1>3 DEF GuardInv, KernelOK

\* A new chain, without mark or rule.
LEMMA CreateChainHolds ==
  ASSUME GuardInv, CreateChain
  PROVE  GuardInv'
<1>1. pc = "create" /\ pc \in Installing
  BY DEF CreateChain, Installing
<1>2. CASE ~Exists /\ chain' = Empty /\ UNCHANGED jumps
  <2>1. jumps = NoJumps
    BY <1>2, IncompleteNoJumps DEF Exists, Absent, GuardInv, TypeOK, DivertedToCompleteChain
  <2>2. KernelOK'
    BY <1>2, <2>1 DEF Empty, GuardInv, TypeOK, Chains, KernelOK, RulesAreOurs,
       DivertedToCompleteChain, NoJumps
  <2>3. chain'.by = "ips"
    BY <1>2 DEF Empty
  <2>4. CASE pc' = "add_queue" /\ owns_chain' = TRUE /\ UNCHANGED <<goal, side, installed>>
    <3>1. JumpsComeLast'
      BY <1>2, <2>4 DEF JumpsComeLast
    <3>2. installed' \in BOOLEAN
      BY <2>4 DEF GuardInv, TypeOK
    <3> QED
      BY <1>1, <2>2, <2>3, <2>4, <3>1, <3>2, InstallGoesOn
  <2>5. CASE GoTo("failed")
    <3>1. pc' = "failed" /\ UNCHANGED <<goal, side, owns_chain, installed>>
      BY <2>5 DEF GoTo
    <3>2. TypeOK' /\ OwnsNoForeign'
      BY <2>2, <2>3, <3>1 DEF GuardInv, TypeOK, KernelOK, OwnsNoForeign, Resting, Removing
    <3>3. RemovesOwn' /\ JumpsGoFirst' /\ JumpsComeLast' /\ CleanStop'
      BY <3>1 DEF RemovesOwn, JumpsGoFirst, JumpsComeLast, CleanStop
    <3> QED
      BY <2>2, <3>2, <3>3 DEF GuardInv, KernelOK
  <2> QED
    BY <1>2, <2>4, <2>5 DEF CreateChain, GoTo
<1>3. CASE Looks /\ GoTo("failed")
  <2>1. pc' = "failed" /\ UNCHANGED <<goal, side, owns_chain, installed>>
    BY <1>3 DEF GoTo
  <2>2. KernelOK' /\ chain' = chain
    BY <1>3, LooksHolds
  <2>3. TypeOK' /\ OwnsNoForeign'
    BY <2>1, <2>2 DEF GuardInv, TypeOK, KernelOK, OwnsNoForeign, Resting, Removing
  <2>4. RemovesOwn' /\ JumpsGoFirst' /\ JumpsComeLast' /\ CleanStop'
    BY <2>1 DEF RemovesOwn, JumpsGoFirst, JumpsComeLast, CleanStop
  <2> QED
    BY <2>2, <2>3, <2>4 DEF GuardInv, KernelOK
<1> QED
  BY <1>2, <1>3 DEF CreateChain

\* The rule that diverts packets to the queue.
LEMMA AddQueueRuleHolds ==
  ASSUME GuardInv, AddQueueRule
  PROVE  GuardInv'
<1> DEFINE Effect == chain' = [chain EXCEPT !.queue = TRUE] /\ UNCHANGED jumps
<1>1. pc = "add_queue" /\ pc \in Installing /\ owns_chain /\ chain = Empty
  BY DEF AddQueueRule, Installing, GuardInv, JumpsComeLast
<1>2. jumps = NoJumps
  BY <1>1, IncompleteNoJumps DEF Empty, GuardInv, TypeOK, DivertedToCompleteChain
<1>3. Effect => KernelOK' /\ chain'.by = "ips" /\ chain' = [Empty EXCEPT !.queue = TRUE]
  BY <1>1, <1>2 DEF Empty, GuardInv, TypeOK, Chains, KernelOK, RulesAreOurs,
     DivertedToCompleteChain, NoJumps
<1>4. CASE Effect /\ GoTo("add_owner")
  <2>1. pc' = "add_owner" /\ UNCHANGED <<goal, side, owns_chain, installed>>
    BY <1>4 DEF GoTo
  <2>2. owns_chain' = TRUE /\ installed' \in BOOLEAN
    BY <1>1, <2>1 DEF GuardInv, TypeOK
  <2>3. JumpsComeLast'
    BY <1>3, <1>4, <2>1, <2>2 DEF JumpsComeLast
  <2> QED
    BY <1>1, <1>3, <1>4, <2>1, <2>2, <2>3, InstallGoesOn
<1>5. CASE (Effect \/ Looks) /\ Remove("rollback")
  BY <1>1, <1>3, <1>5, LooksHolds, RemoveHolds
<1> QED
  BY <1>4, <1>5 DEF AddQueueRule, Runs

\* The owner mark.
LEMMA AddOwnerRuleHolds ==
  ASSUME GuardInv, AddOwnerRule
  PROVE  GuardInv'
<1> DEFINE Effect == chain' = [chain EXCEPT !.owner = TRUE] /\ UNCHANGED jumps
<1>1. pc = "add_owner" /\ pc \in Installing /\ owns_chain
      /\ chain = [Empty EXCEPT !.queue = TRUE]
  BY DEF AddOwnerRule, Installing, GuardInv, JumpsComeLast
<1>2. jumps = NoJumps
  BY <1>1, IncompleteNoJumps DEF Empty, GuardInv, TypeOK, DivertedToCompleteChain
<1>3. ASSUME Effect
      PROVE  /\ KernelOK' /\ jumps' = NoJumps /\ chain'.by = "ips"
             /\ chain' = [by |-> "ips", queue |-> TRUE, owner |-> TRUE]
  <2>1. chain' = [by |-> "ips", queue |-> TRUE, owner |-> TRUE]
    BY <1>1, <1>3 DEF Empty
  <2>2. jumps' = NoJumps /\ jumps' \in [Builtin -> Nat]
    BY <1>2, <1>3 DEF GuardInv, TypeOK
  <2> QED
    BY <2>1, <2>2 DEF Chains, KernelOK, RulesAreOurs, DivertedToCompleteChain
<1>4. CASE Effect /\ GoTo("jump_in")
  <2>1. pc' = "jump_in" /\ UNCHANGED <<goal, side, owns_chain, installed>>
    BY <1>4 DEF GoTo
  <2>2. owns_chain' = TRUE /\ installed' \in BOOLEAN
    BY <1>1, <2>1 DEF GuardInv, TypeOK
  <2>3. JumpsComeLast'
    BY <1>3, <1>4, <2>1, <2>2 DEF JumpsComeLast
  <2> QED
    BY <1>1, <1>3, <1>4, <2>1, <2>2, <2>3, InstallGoesOn
<1>5. CASE (Effect \/ Looks) /\ Remove("rollback")
  BY <1>1, <1>3, <1>5, LooksHolds, RemoveHolds
<1> QED
  BY <1>4, <1>5 DEF AddOwnerRule, Runs

\* One more jump to a complete chain is a table the invariant allows.
LEMMA InsertKeepsKernel ==
  ASSUME GuardInv, NEW b \in Builtin, chain = [by |-> "ips", queue |-> TRUE, owner |-> TRUE],
         jumps' = [jumps EXCEPT ![b] = @ + 1], UNCHANGED chain
  PROVE  KernelOK' /\ chain' = chain
BY DEF GuardInv, TypeOK, KernelOK, RulesAreOurs, DivertedToCompleteChain

\* The first jump, of a complete chain.
LEMMA InsertInputJumpHolds ==
  ASSUME GuardInv, InsertInputJump
  PROVE  GuardInv'
<1> DEFINE Effect == jumps' = [jumps EXCEPT !["INPUT"] = @ + 1] /\ UNCHANGED chain
<1>1. /\ pc = "jump_in" /\ pc \in Installing /\ owns_chain /\ jumps = NoJumps
      /\ chain = [by |-> "ips", queue |-> TRUE, owner |-> TRUE]
  BY DEF InsertInputJump, Installing, GuardInv, JumpsComeLast
<1>2. Effect => KernelOK' /\ chain' = chain
  BY <1>1, InsertKeepsKernel DEF Builtin
<1>3. CASE Effect /\ GoTo("jump_out")
  <2>1. pc' = "jump_out" /\ UNCHANGED <<goal, side, owns_chain, installed>>
    BY <1>3 DEF GoTo
  <2>2. owns_chain' = TRUE /\ installed' \in BOOLEAN
    BY <1>1, <2>1 DEF GuardInv, TypeOK
  <2>3. jumps'["INPUT"] = 1 /\ jumps'["OUTPUT"] = 0
    BY <1>1, <1>3 DEF NoJumps, Builtin
  <2>4. JumpsComeLast'
    BY <1>1, <1>2, <1>3, <2>1, <2>2, <2>3 DEF JumpsComeLast
  <2> QED
    BY <1>1, <1>2, <1>3, <2>1, <2>2, <2>4, InstallGoesOn
<1>4. CASE (Effect \/ Looks) /\ Remove("rollback")
  BY <1>1, <1>2, <1>4, LooksHolds, RemoveHolds
<1> QED
  BY <1>3, <1>4 DEF InsertInputJump, Runs

\* The second jump, the last command of install().
LEMMA InsertOutputJumpHolds ==
  ASSUME GuardInv, InsertOutputJump
  PROVE  GuardInv'
<1> DEFINE Effect == jumps' = [jumps EXCEPT !["OUTPUT"] = @ + 1] /\ UNCHANGED chain
<1>1. /\ pc = "jump_out" /\ pc \in Installing /\ owns_chain
      /\ jumps["INPUT"] = 1 /\ jumps["OUTPUT"] = 0
      /\ chain = [by |-> "ips", queue |-> TRUE, owner |-> TRUE]
  BY DEF InsertOutputJump, Installing, GuardInv, JumpsComeLast
<1>2. Effect => KernelOK' /\ chain' = chain
  BY <1>1, InsertKeepsKernel DEF Builtin
<1>3. CASE Effect /\ Installed
  <2>1. pc' = "running" /\ installed' = TRUE /\ UNCHANGED <<goal, side, owns_chain>>
    BY <1>3 DEF Installed
  <2>2. owns_chain' = TRUE
    BY <1>1, <2>1 DEF GuardInv, TypeOK
  <2>3. \A b \in Builtin : jumps'[b] = 1
    BY <1>1, <1>3 DEF GuardInv, TypeOK, Builtin
  <2>4. JumpsComeLast'
    BY <1>1, <1>2, <1>3, <2>1, <2>2, <2>3 DEF JumpsComeLast
  <2> QED
    BY <1>1, <1>2, <1>3, <2>1, <2>2, <2>4, InstallGoesOn
<1>4. CASE (Effect \/ Looks) /\ Remove("rollback")
  BY <1>1, <1>2, <1>4, LooksHolds, RemoveHolds
<1> QED
  BY <1>3, <1>4 DEF InsertOutputJump, Runs

-----------------------------------------------------------------------------
(* The life of the process. *)

\* Where the process ends its memory goes, and a dead or failed one promises nothing.
LEMMA RestHolds ==
  ASSUME GuardInv, UNCHANGED <<kernel, goal, side>>, pc' = "dead",
         owns_chain' = FALSE, installed' \in BOOLEAN
  PROVE  GuardInv'
<1>1. KernelOK'
  BY LooksHolds DEF Looks
<1>2. TypeOK'
  BY <1>1 DEF GuardInv, TypeOK, KernelOK, Resting
<1>3. OwnsNoForeign'
  BY DEF OwnsNoForeign, Removing
<1>4. RemovesOwn' /\ JumpsGoFirst' /\ JumpsComeLast' /\ CleanStop'
  BY DEF RemovesOwn, JumpsGoFirst, JumpsComeLast, CleanStop
<1> QED
  BY <1>1, <1>2, <1>3, <1>4 DEF GuardInv, KernelOK

\* Calls from outside, the destructor, and the end of the process at any point.
LEMMA LifeHolds ==
  ASSUME GuardInv, install \/ uninstall \/ destroy \/ Kill
  PROVE  GuardInv'
<1>1. CASE install
  <2>1. ~owns_chain
    BY <1>1 DEF install, GuardInv, OwnsNoForeign
  <2>2. KernelOK' /\ chain' = chain
    BY <1>1, LooksHolds DEF install, Looks
  <2> QED
    BY <1>1, <2>1, <2>2, RemoveHolds DEF install
<1>2. CASE uninstall
  <2>1. owns_chain
    BY <1>2 DEF uninstall, GuardInv, JumpsComeLast
  <2>2. KernelOK' /\ chain' = chain
    BY <1>2, LooksHolds DEF uninstall, Looks
  <2> QED
    BY <1>2, <2>1, <2>2, RemoveHolds DEF uninstall
<1>3. CASE destroy
  <2>1. KernelOK' /\ chain' = chain
    BY <1>3, LooksHolds DEF destroy, Looks
  <2>2. CASE owns_chain /\ Remove("destroy")
    BY <2>1, <2>2, RemoveHolds
  <2>3. CASE ~owns_chain /\ GoTo("dead")
    <3>1. owns_chain' = FALSE /\ installed' \in BOOLEAN
      BY <2>3 DEF GoTo, GuardInv, TypeOK
    <3> QED
      BY <1>3, <2>3, <3>1, RestHolds DEF destroy, GoTo
  <2> QED
    BY <1>3, <2>2, <2>3 DEF destroy
<1>4. CASE Kill
  BY <1>4, RestHolds DEF Kill
<1> QED
  BY <1>1, <1>2, <1>3, <1>4

\* The first start finds no chain, or one that is not ours.
LEMMA GuardInitHolds ==
  ASSUME GuardInit
  PROVE  GuardInv
<1>1. chain \in {Absent, Foreign} /\ ~chain.queue /\ ~chain.owner /\ chain.by # "ips"
  BY DEF GuardInit, Absent, Foreign
<1>2. chain \in Chains /\ jumps \in [Builtin -> Nat]
  <2>1. Absent \in Chains /\ Foreign \in Chains
    BY DEF Absent, Foreign, Chains
  <2>2. NoJumps \in [Builtin -> Nat]
    BY DEF NoJumps
  <2> QED
    BY <2>1, <2>2 DEF GuardInit
<1>3. TypeOK
  BY <1>2 DEF GuardInit, TypeOK, Resting, Builtin
<1>4. RulesAreOurs /\ DivertedToCompleteChain
  BY <1>1 DEF GuardInit, RulesAreOurs, DivertedToCompleteChain, NoJumps
<1>5. OwnsNoForeign
  BY DEF GuardInit, OwnsNoForeign, Removing
<1>6. RemovesOwn /\ JumpsGoFirst /\ JumpsComeLast /\ CleanStop
  BY DEF GuardInit, RemovesOwn, JumpsGoFirst, JumpsComeLast, CleanStop
<1> QED
  BY <1>3, <1>4, <1>5, <1>6 DEF GuardInv

\* Every command and every call keeps the invariant.
LEMMA GuardStepHolds ==
  ASSUME GuardInv, [GuardNext]_guard_vars
  PROVE  GuardInv'
<1>1. CASE Step
  BY <1>1, ListChainHolds, CheckOwnerHolds, CheckJumpHolds, DropJumpHolds, FlushChainHolds,
     DeleteChainHolds, RelistChainHolds, RestoreOwnerHolds, CreateChainHolds,
     AddQueueRuleHolds, AddOwnerRuleHolds, InsertInputJumpHolds, InsertOutputJumpHolds
     DEF Step
<1>2. CASE install \/ uninstall \/ destroy \/ Kill
  BY <1>2, LifeHolds
<1>3. CASE UNCHANGED guard_vars
  BY <1>3 DEF guard_vars, kernel, program, GuardInv, TypeOK, RulesAreOurs, OwnsNoForeign,
     RemovesOwn, JumpsGoFirst, JumpsComeLast, DivertedToCompleteChain, CleanStop
<1> QED
  BY <1>1, <1>2, <1>3 DEF GuardNext

\* The invariant of the guard holds in every reachable state.
LEMMA GuardInvariance == GuardSpec => []GuardInv
BY GuardInitHolds, GuardStepHolds, PTL DEF GuardSpec

-----------------------------------------------------------------------------
\* A running sensor is wired exactly once in each direction, after any history of
\* failed commands, kills and left-over chains: install() never doubles a jump.
THEOREM WiredExactlyOnce == GuardSpec => []WiredOnce
<1>1. GuardInv => WiredOnce
  BY DEF GuardInv, JumpsComeLast, WiredOnce
<1> QED
  BY <1>1, GuardInvariance, PTL

\* The order of the commands in install() and remove_chain() keeps traffic from ever
\* being sent to a chain that lacks its queue or its owner rule.
THEOREM NeverHalfDiverted == GuardSpec => []DivertedToCompleteChain
<1>1. GuardInv => DivertedToCompleteChain
  BY DEF GuardInv
<1> QED
  BY <1>1, GuardInvariance, PTL

\* uninstall() that reports success has removed the chain and every jump.
THEOREM StopsClean == GuardSpec => []CleanStop
<1>1. GuardInv => CleanStop
  BY DEF GuardInv
<1> QED
  BY <1>1, GuardInvariance, PTL

\* The owner marker and owns_chain_ are enough to never run a changing command on a
\* chain of the same name that somebody else made.
THEOREM ForeignNeverTouched == GuardSpec => ForeignUntouched
<1>1. ASSUME GuardInv, [GuardNext]_guard_vars, chain.by = "other"
      PROVE  UNCHANGED kernel
  <2>1. pc \notin {"check", "drop", "flush", "delete", "relist", "remark", "add_queue",
                   "add_owner", "jump_in", "jump_out", "running"}
    BY <1>1 DEF GuardInv, RemovesOwn, JumpsComeLast, OwnsNoForeign
  <2>2. Exists
    BY <1>1 DEF Exists, Absent
  <2> QED
    BY <1>1, <2>1, <2>2 DEF GuardNext, Step, ListChain, CheckOwner, CheckJump, DropJump,
       FlushChain, DeleteChain, RelistChain, RestoreOwner, CreateChain, AddQueueRule, AddOwnerRule,
       InsertInputJump, InsertOutputJump, install, uninstall, destroy, Kill, Looks, guard_vars
<1>2. GuardInv /\ [GuardNext]_guard_vars => [chain.by = "other" => UNCHANGED kernel]_guard_vars
  BY <1>1
<1> QED
  BY <1>2, GuardInvariance, PTL DEF GuardSpec, ForeignUntouched

-----------------------------------------------------------------------------
(* ApplicationController: what it does to the guard *)

\* The program is one of the users FirewallQueueGuard allows: it calls install(),
\* uninstall() and the destructor only where the guard expects them, and no other step
\* of it touches the rules.  What is proved of the guard therefore holds in the program.
THEOREM ProgramUsesGuard == ControllerSpec => GuardSpec
<1>1. ControllerInit => GuardInit
  BY DEF ControllerInit
<1>2. ASSUME [ControllerNext]_controller_vars
      PROVE  [GuardNext]_guard_vars
  <2>1. CASE InstallRules \/ UninstallRules \/ RunIptables
    BY <2>1 DEF InstallRules, UninstallRules, RunIptables, GuardNext
  <2>2. CASE Destroy
    BY <2>2 DEF Destroy, GuardNext
  <2>3. CASE Killed
    BY <2>3 DEF Killed, GuardNext
  <2>4. CASE start \/ LoadFails \/ StartFails \/ AskToExit \/ Handlers
    BY <2>4 DEF start, LoadFails, StartFails, AskToExit, Handlers, ExitAsked, CaptureResult
  <2>5. CASE StopClient \/ JoinClient \/ StopSupervisor \/ JoinCapture \/ Exit
    BY <2>5 DEF StopClient, JoinClient, StopSupervisor, JoinCapture, Exit
  <2>6. CASE OpenSource \/ InstallReturns \/ EnterLoop \/ LoopTest \/ RecvReturns
    BY <2>6 DEF OpenSource, InstallReturns, EnterLoop, LoopTest, RecvReturns
  <2>7. CASE UninstallReturns \/ CloseSource \/ PostResult \/ WorkerExits \/ Restart
    BY <2>7 DEF UninstallReturns, CloseSource, PostResult, WorkerExits, Restart
  <2>8. CASE UNCHANGED controller_vars
    BY <2>8 DEF controller_vars
  <2> QED
    BY <1>2, <2>1, <2>2, <2>3, <2>4, <2>5, <2>6, <2>7, <2>8
       DEF ControllerNext, Shutdown, Capture, Recv, RecvUntimed
<1> QED
  BY <1>1, <1>2, PTL DEF ControllerSpec, GuardSpec

-----------------------------------------------------------------------------
(* ApplicationController: its own invariant *)

\* The main thread gets past a join only when the thread is gone.
JoinsInOrder ==
  /\ mpc = "start" => cpc = "none" /\ worker = "none" /\ ~stopping
  /\ mpc \in {"stop_supervisor", "join_capture", "exit", "destroy", "returned"} =>
       worker \in {"none", "exited"}
  /\ mpc \in {"exit", "destroy", "returned"} => cpc \in {"none", "done"}

\* The queue is open from before install() is called until after uninstall() returns.
QueueHeld ==
  /\ cpc \in {"install", "enter_loop", "loop", "recv", "uninstall", "close"} => queue_open
  /\ cpc \in {"none", "open", "install", "enter_loop", "loop", "recv", "uninstall", "close",
             "post", "done"}

\* As long as nothing has failed after uninstall(), it has removed every jump, and there
\* is nothing that the guard would do again.
SuccessIsClean ==
  cpc \in {"close", "post", "done"} /\ ok =>
    pc \in {"stopped", "dead"} /\ ~owns_chain /\ jumps = NoJumps

ControllerInv == JoinsInOrder /\ QueueHeld /\ SuccessIsClean

\* start(), the event handlers, begin_shutdown() and the destruction.
LEMMA MainHolds ==
  ASSUME ControllerInv, start \/ LoadFails \/ StartFails \/ AskToExit \/ Handlers \/ Shutdown
  PROVE  ControllerInv'
<1>1. CASE start
  BY <1>1 DEF start, main_thread, capture_thread, source_flags, ai, guard_vars, kernel,
     program, ControllerInv, JoinsInOrder, QueueHeld, SuccessIsClean
<1>2. CASE LoadFails
  BY <1>2 DEF LoadFails, main_thread, capture_thread, source_flags, ai, guard_vars,
     kernel, program, ControllerInv, JoinsInOrder, QueueHeld, SuccessIsClean
<1>3. CASE StartFails
  BY <1>3 DEF StartFails, main_thread, capture_thread, source_flags, ai, guard_vars,
     kernel, program, ControllerInv, JoinsInOrder, QueueHeld, SuccessIsClean
<1>4. CASE AskToExit
  BY <1>4 DEF AskToExit, main_thread, capture_thread, source_flags, ai, guard_vars,
     kernel, program, ControllerInv, JoinsInOrder, QueueHeld, SuccessIsClean
<1>5. CASE ExitAsked
  BY <1>5 DEF ExitAsked, BeginShutdown, main_thread, capture_thread, source_flags, ai,
     guard_vars, kernel, program, ControllerInv, JoinsInOrder, QueueHeld, SuccessIsClean
<1>6. CASE CaptureResult
  BY <1>6 DEF CaptureResult, BeginShutdown, main_thread, capture_thread, source_flags, ai,
     guard_vars, kernel, program, ControllerInv, JoinsInOrder, QueueHeld, SuccessIsClean
<1>7. CASE StopClient
  BY <1>7 DEF StopClient, main_thread, capture_thread, source_flags, ai, guard_vars,
     kernel, program, ControllerInv, JoinsInOrder, QueueHeld, SuccessIsClean
<1>8. CASE JoinClient
  BY <1>8 DEF JoinClient, main_thread, capture_thread, source_flags, ai, guard_vars,
     kernel, program, ControllerInv, JoinsInOrder, QueueHeld, SuccessIsClean
<1>9. CASE StopSupervisor
  BY <1>9 DEF StopSupervisor, main_thread, capture_thread, source_flags, ai, guard_vars,
     kernel, program, ControllerInv, JoinsInOrder, QueueHeld, SuccessIsClean
<1>10. CASE JoinCapture
  BY <1>10 DEF JoinCapture, main_thread, capture_thread, source_flags, ai, guard_vars,
     kernel, program, ControllerInv, JoinsInOrder, QueueHeld, SuccessIsClean
<1>11. CASE Exit
  BY <1>11 DEF Exit, main_thread, capture_thread, source_flags, ai, guard_vars, kernel,
     program, ControllerInv, JoinsInOrder, QueueHeld, SuccessIsClean
<1>12. CASE Destroy
  BY <1>12 DEF Destroy, destroy, Remove, GoTo, main_thread, capture_thread, source_flags,
     ai, guard_vars, kernel, program, ControllerInv, JoinsInOrder, QueueHeld,
     SuccessIsClean
<1> QED
  BY <1>1, <1>2, <1>3, <1>4, <1>5, <1>6, <1>7, <1>8, <1>9, <1>10, <1>11, <1>12 DEF
     Handlers, Shutdown

\* The steps of the capture thread: while it has any, the main thread is not past the
\* join.  Where uninstall() returns, the guard's own promise says what is left.
LEMMA CaptureHolds ==
  ASSUME ControllerInv, CleanStop, Capture \/ RecvUntimed
  PROVE  ControllerInv'
<1>1. CASE OpenSource
  BY <1>1 DEF OpenSource, main_thread, capture_thread, source_flags, ai, guard_vars,
     kernel, program, ControllerInv, JoinsInOrder, QueueHeld, SuccessIsClean
<1>2. CASE InstallRules
  BY <1>2 DEF InstallRules, install, Remove, main_thread, capture_thread, source_flags,
     ai, guard_vars, kernel, program, ControllerInv, JoinsInOrder, QueueHeld,
     SuccessIsClean
<1>3. CASE InstallReturns
  BY <1>3 DEF InstallReturns, main_thread, capture_thread, source_flags, ai, guard_vars,
     kernel, program, ControllerInv, JoinsInOrder, QueueHeld, SuccessIsClean
<1>4. CASE EnterLoop
  BY <1>4 DEF EnterLoop, main_thread, capture_thread, source_flags, ai, guard_vars,
     kernel, program, ControllerInv, JoinsInOrder, QueueHeld, SuccessIsClean
<1>5. CASE LoopTest
  BY <1>5 DEF LoopTest, main_thread, capture_thread, source_flags, ai, guard_vars, kernel,
     program, ControllerInv, JoinsInOrder, QueueHeld, SuccessIsClean
<1>6. CASE RecvReturns
  BY <1>6 DEF RecvReturns, main_thread, capture_thread, source_flags, ai, guard_vars,
     kernel, program, ControllerInv, JoinsInOrder, QueueHeld, SuccessIsClean
<1>7. CASE UninstallRules
  BY <1>7 DEF UninstallRules, uninstall, Remove, main_thread, capture_thread,
     source_flags, ai, guard_vars, kernel, program, ControllerInv, JoinsInOrder,
     QueueHeld, SuccessIsClean
<1>8. CASE UninstallReturns
  BY <1>8 DEF UninstallReturns, CleanStop, main_thread, capture_thread, source_flags, ai,
     guard_vars, kernel, program, ControllerInv, JoinsInOrder, QueueHeld, SuccessIsClean
<1>9. CASE CloseSource
  <2>1. ok' => ok
    BY <1>9, Zenon DEF CloseSource
  <2>2. /\ cpc = "close" /\ cpc' = "post" /\ queue_open' = FALSE
        /\ UNCHANGED <<mpc, stopping, worker, pc, owns_chain, jumps>>
    BY <1>9 DEF CloseSource, main_thread, ai, guard_vars, kernel, program
  <2> QED
    BY <2>1, <2>2 DEF ControllerInv, JoinsInOrder, QueueHeld, SuccessIsClean
<1>10. CASE PostResult
  BY <1>10 DEF PostResult, main_thread, capture_thread, source_flags, ai, guard_vars,
     kernel, program, ControllerInv, JoinsInOrder, QueueHeld, SuccessIsClean
<1> QED
  BY <1>1, <1>2, <1>3, <1>4, <1>5, <1>6, <1>7, <1>8, <1>9, <1>10
     DEF Capture, Recv, RecvUntimed

\* An iptables process runs only inside a call, and never after a removal that
\* succeeded.
LEMMA IptablesHolds ==
  ASSUME ControllerInv, RunIptables
  PROVE  ControllerInv'
<1>1. pc \notin {"stopped", "dead"}
  BY DEF RunIptables, Step, ListChain, CheckOwner, CheckJump, DropJump, FlushChain,
     DeleteChain, RelistChain, RestoreOwner, CreateChain, AddQueueRule, AddOwnerRule,
     InsertInputJump, InsertOutputJump
<1> QED
  BY <1>1 DEF RunIptables, main_thread, capture_thread, ai, ControllerInv, JoinsInOrder,
     QueueHeld, SuccessIsClean

\* Every step of either thread keeps the invariant.
LEMMA ControllerStepHolds ==
  ASSUME ControllerInv, GuardInv, [ControllerNext]_controller_vars
  PROVE  ControllerInv'
<1>1. CASE start \/ LoadFails \/ StartFails \/ AskToExit \/ Handlers \/ Shutdown
  BY <1>1, MainHolds
<1>2. CASE Capture \/ RecvUntimed
  BY <1>2, CaptureHolds DEF GuardInv
<1>3. CASE WorkerExits
  BY <1>3 DEF WorkerExits, main_thread, capture_thread, guard_vars, kernel, program,
     ControllerInv, JoinsInOrder, QueueHeld, SuccessIsClean
<1>4. CASE RunIptables
  BY <1>4, IptablesHolds
<1>5. CASE Killed
  BY <1>5 DEF Killed, ControllerInv, JoinsInOrder, QueueHeld, SuccessIsClean
<1>6. CASE Restart
  BY <1>6 DEF Restart, ControllerInv, JoinsInOrder, QueueHeld, SuccessIsClean
<1>7. CASE UNCHANGED controller_vars
  BY <1>7 DEF controller_vars, main_thread, capture_thread, ai, guard_vars, kernel,
     program, ControllerInv, JoinsInOrder, QueueHeld, SuccessIsClean
<1> QED
  BY <1>1, <1>2, <1>3, <1>4, <1>5, <1>6, <1>7 DEF ControllerNext

\* The invariant of the controller holds in every reachable state.
LEMMA ControllerInvariance == ControllerSpec => []ControllerInv
<1>1. ControllerInit => ControllerInv
  BY DEF ControllerInit, ControllerInv, JoinsInOrder, QueueHeld, SuccessIsClean
<1> QED
  BY <1>1, ControllerStepHolds, ProgramUsesGuard, GuardInvariance, PTL DEF ControllerSpec

-----------------------------------------------------------------------------
\* begin_shutdown() joins in an order that leaves no thread when the controller their
\* handlers point to is destroyed, also after a start() that failed.
THEOREM NobodyOutlives == ControllerSpec => []DestroyedAlone
<1>1. ControllerInv => DestroyedAlone
  BY DEF ControllerInv, JoinsInOrder, DestroyedAlone
<1> QED
  BY <1>1, ControllerInvariance, PTL

\* A capture whose start() reports success leaves no jump to the queue it has closed,
\* whichever iptables commands failed in this run or in earlier ones.
THEOREM LeftoversReported == ControllerSpec => []UnheardIsReported
<1>1. ASSUME ControllerInv
      PROVE  UnheardIsReported
  <2> SUFFICES ASSUME NEW b \in Builtin, jumps[b] > 0, ~queue_open,
                      cpc \notin {"none", "open"}, ok
               PROVE  FALSE
    BY DEF UnheardIsReported
  <2>1. cpc \in {"post", "done"}
    BY <1>1 DEF ControllerInv, QueueHeld
  <2>2. jumps = NoJumps
    BY <1>1, <2>1 DEF ControllerInv, SuccessIsClean
  <2> QED
    BY <2>2 DEF NoJumps
<1> QED
  BY <1>1, ControllerInvariance, PTL
=============================================================================
