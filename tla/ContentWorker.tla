------------------------------ MODULE ContentWorker ------------------------------
(***************************************************************************)
(* The processes of one content request (src/bridge/content_worker/mod.rs):*)
(* the supervisor a client starts, the guardian it starts first, whose     *)
(* process group takes in the executor and the Git processes of the        *)
(* executor, and the two pipes that hold them together: the client's to    *)
(* the supervisor, the supervisor's to the guardian.  The supervisor may be*)
(* killed between any two steps.                                           *)
(*                                                                         *)
(* Abstractions.  What is read is ContentReads; here it is that Git runs.  *)
(* A fork copies the supervisor's end of the guardian's pipe, closed when  *)
(* the child executes its own program.                                     *)
(***************************************************************************)
EXTENDS Naturals

CONSTANT MaxGits   \* bound: Git processes of the executor at once

ASSUME GitsAssumption == MaxGits \in Nat

VARIABLES
  client,      \* the client holds its pipe open
  supervisor,  \* "reading", "guarded", "forking", "gate", "running", "returned" or "dead"
  guardian,    \* "none", "waiting" or "dead"
  executor,    \* "none", "forked", "joined", "gated", "working" or "dead"
  working,     \* Git processes running in the group
  told         \* the reply: "none", "ok", "failed" or "cancelled"

workerVars == <<client, supervisor, guardian, executor, working, told>>

Gone == supervisor \in {"returned", "dead"}

\* The executor keeps the supervisor's group.
MutantInGroup == executor = "joined"

\* The executor is in the guardian's group, and so is all it starts.
InGroup == executor \in {"joined", "gated", "working", "dead"}

\* SIGKILL to the guardian's group: itself, the executor once it has joined,
\* every Git process.
KillGroup ==
  /\ guardian' = "dead"
  /\ executor' = IF InGroup THEN "dead" ELSE executor
  /\ working' = IF InGroup THEN 0 ELSE working

-----------------------------------------------------------------------------
\* The request is read and valid: the guardian leads a group of its own.
StartGuardian ==
  /\ supervisor = "reading"
  /\ supervisor' = "guarded"
  /\ guardian' = "waiting"
  /\ UNCHANGED <<client, executor, working, told>>

\* The executor: forked, moved into the group, executing.
ForkExecutor ==
  /\ supervisor = "guarded"
  /\ supervisor' = "forking"
  /\ executor' = "forked"
  /\ UNCHANGED <<client, guardian, working, told>>

\* The child joins first: setpgid, then execve.
JoinGroup ==
  /\ executor = "forked"
  /\ IF guardian = "dead" THEN executor' = "dead" ELSE executor' = "joined"
  /\ UNCHANGED <<client, supervisor, guardian, working, told>>

ExecuteExecutor ==
  /\ executor = "joined"
  /\ executor' = "gated"
  /\ UNCHANGED <<client, supervisor, guardian, working, told>>

\* spawn returns once the child executes, or failed.
Spawned ==
  /\ supervisor = "forking"
  /\ executor \notin {"forked", "joined"}
  /\ supervisor' = "gate"
  /\ UNCHANGED <<client, guardian, executor, working, told>>

\* "GO", written by a thread of the supervisor.
OpenGate ==
  /\ supervisor = "gate"
  /\ supervisor' = "running"
  /\ executor' = IF executor = "gated" THEN "working" ELSE executor
  /\ UNCHANGED <<client, guardian, working, told>>

\* The gate closes unopened: the executor reads no "GO" and exits.
GateCloses ==
  /\ executor = "gated"
  /\ Gone
  /\ executor' = "dead"
  /\ UNCHANGED <<client, supervisor, guardian, working, told>>

StartGit ==
  /\ executor = "working"
  /\ working < MaxGits
  /\ working' = working + 1
  /\ UNCHANGED <<client, supervisor, guardian, executor, told>>

GitEnds ==
  /\ working > 0
  /\ working' = working - 1
  /\ UNCHANGED <<client, supervisor, guardian, executor, told>>

\* The executor finishes, well or not; a helper of Git may be left behind.
ExecutorEnds ==
  /\ executor = "working"
  /\ executor' = "dead"
  /\ UNCHANGED <<client, supervisor, guardian, working, told>>

\* The loop of supervise: the child has exited ...
SeesExit ==
  /\ supervisor = "running"
  /\ executor = "dead"
  /\ KillGroup
  /\ supervisor' = "returned"
  /\ told' \in {"ok", "failed"}
  /\ UNCHANGED client

\* ... or the client is gone, or the deadline has passed.
Cancels ==
  /\ supervisor = "running"
  /\ executor # "dead"
  /\ KillGroup
  /\ supervisor' = "returned"
  /\ told' = "cancelled"
  /\ UNCHANGED client

\* Any other error of supervise, also of waiting: main writes it out and exits.
\* What runs by then is left to the guardian.
GivesUp ==
  /\ supervisor \in {"reading", "guarded", "gate", "running"}
  /\ supervisor' = "returned"
  /\ told' = "failed"
  /\ UNCHANGED <<client, guardian, executor, working>>

Killed ==
  /\ ~Gone
  /\ supervisor' = "dead"
  /\ UNCHANGED <<client, guardian, executor, working, told>>

ClientLeaves ==
  /\ client
  /\ client' = FALSE
  /\ UNCHANGED <<supervisor, guardian, executor, working, told>>

\* guard: no writer is left on the guardian's pipe, the forked child included.
GuardianWakes ==
  /\ guardian = "waiting"
  /\ Gone
  /\ executor \notin {"forked", "joined"}
  /\ KillGroup
  /\ UNCHANGED <<client, supervisor, told>>

-----------------------------------------------------------------------------
WorkerInit ==
  /\ client = TRUE
  /\ supervisor = "reading"
  /\ guardian = "none"
  /\ executor = "none"
  /\ working = 0
  /\ told = "none"

Supervises == StartGuardian \/ ForkExecutor \/ Spawned \/ OpenGate \/ SeesExit
Executes == JoinGroup \/ ExecuteExecutor \/ GateCloses

WorkerNext ==
  \/ Supervises \/ Executes
  \/ StartGit \/ GitEnds \/ ExecutorEnds
  \/ Cancels \/ GivesUp \/ Killed \/ ClientLeaves \/ GuardianWakes

\* The supervisor polls; the client's leaving and the deadline are seen there.
WorkerFairness ==
  /\ WF_workerVars(Supervises)
  /\ WF_workerVars(Executes)
  /\ WF_workerVars(GuardianWakes)
  /\ WF_workerVars(supervisor = "running" /\ Cancels)

WorkerSpec == WorkerInit /\ [][WorkerNext]_workerVars /\ WorkerFairness

-----------------------------------------------------------------------------
(* Properties.                                                             *)

WorkerTypeOK ==
  /\ client \in BOOLEAN
  /\ supervisor \in {"reading", "guarded", "forking", "gate", "running", "returned", "dead"}
  /\ guardian \in {"none", "waiting", "dead"}
  /\ executor \in {"none", "forked", "joined", "gated", "working", "dead"}
  /\ working \in 0..MaxGits
  /\ told \in {"none", "ok", "failed", "cancelled"}

Nothing == executor \in {"none", "dead"} /\ working = 0

\* An answer, or the word that the request was cancelled, means that nothing of
\* it runs any more.  A failure does not: wherever the supervisor gave up or was
\* killed, either nothing runs or the guardian is still there to end it, for even
\* a child forked and not yet in the group keeps it waiting until it is
\* (supervise, cleanup_guardian, guard).
WorkerLeavesNothing ==
  /\ told \in {"ok", "cancelled"} => Nothing
  /\ Gone => Nothing \/ guardian = "waiting"

\* And a supervisor that ends in any way has everything ended.
WorkerEnds == Gone ~> Nothing
=============================================================================
