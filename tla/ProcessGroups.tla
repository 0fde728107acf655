----------------------------- MODULE ProcessGroups -----------------------------
(***************************************************************************)
(* The processes the TUI starts and what becomes of them when it quits     *)
(* (src/git/process.rs, session/liveness.rs, git/status/worktree.rs,       *)
(* git/github/process.rs, main.rs and the quit gate of app/mod.rs).  Every *)
(* operation runs on its own thread, in its own process group whose id is  *)
(* its leader's; the threads, the main thread and the operating system     *)
(* interleave.  A leader that was waited for gives its id back, and another*)
(* program may get it.                                                     *)
(*                                                                         *)
(* Abstractions.  An operation's process is named after the operation; its *)
(* group holds the leader and at most one helper, which keeps the pipes of *)
(* the leader open (an ssh, a hook in the background).  Timeouts and grace *)
(* periods may end at any time.  Output and exit codes are left out.       *)
(***************************************************************************)
EXTENDS Naturals, FiniteSets, Panels

CONSTANTS
  Ops,      \* operations the app may start
  OpKind    \* "mutate", "fetch", "session" or "gh", of every operation

ASSUME OpsAssumption ==
  /\ None \notin Ops
  /\ OpKind \in [Ops -> {"mutate", "fetch", "session", "gh"}]

Killable == {o \in Ops : OpKind[o] # "gh"}

VARIABLES
  op,         \* where the thread of each operation is
  proc,       \* its process: "none", "run", "zombie", "gone" or "stranger"
  helper,     \* its group has a helper
  lock,       \* holder of KILLABLE_GIT_PIDS
  killable,   \* KILLABLE_GIT_PIDS
  leaving,    \* SHUTTING_DOWN
  app,        \* the main thread
  doomed,     \* the snapshot that remains to be signalled
  strangers,  \* who signalled the group of another program
  cut         \* operations killed by leaving

procVars == <<op, proc, helper, lock, killable, leaving, app, doomed, strangers, cut>>

Threads == app # "exited"
MainLoop == app \in {"run", "quit", "forced"}

-----------------------------------------------------------------------------
(* Signals.                                                                *)

\* killpg: the whole group, whoever's it is by now.
Signal(o, who) ==
  /\ proc' = [proc EXCEPT ![o] = IF @ = "run" THEN "zombie" ELSE @]
  /\ helper' = [helper EXCEPT ![o] = FALSE]
  /\ strangers' = strangers \cup (IF proc[o] = "stranger" THEN {who} ELSE {})

Moves(o, to) == op' = [op EXCEPT ![o] = to]

-----------------------------------------------------------------------------
(* The thread of an operation.                                             *)

\* Scheduled by the main loop, its GitOpGuard made before; begins in its time.
Schedule(o) ==
  /\ MainLoop
  /\ op[o] = "idle"
  /\ Moves(o, "begun")
  /\ UNCHANGED <<proc, helper, lock, killable, leaving, app, doomed, strangers, cut>>

\* spawn_killable, step by step: the lock is kept until the process is registered.
Lock(o) ==
  /\ Threads
  /\ o \in Killable
  /\ op[o] = "begun"
  /\ lock = None
  /\ lock' = o
  /\ Moves(o, "locked")
  /\ UNCHANGED <<proc, helper, killable, leaving, app, doomed, strangers, cut>>

Spawn(o) ==
  /\ Threads
  /\ op[o] = "locked"
  /\ IF leaving
     THEN Moves(o, "done") /\ lock' = None /\ UNCHANGED proc
     ELSE Moves(o, "spawned") /\ proc' = [proc EXCEPT ![o] = "run"] /\ UNCHANGED lock
  /\ UNCHANGED <<helper, killable, leaving, app, doomed, strangers, cut>>

Register(o) ==
  /\ Threads
  /\ op[o] = "spawned"
  /\ killable' = killable \cup {o}
  /\ lock' = None
  /\ Moves(o, "waiting")
  /\ UNCHANGED <<proc, helper, leaving, app, doomed, strangers, cut>>

\* gh is started without the registry.
SpawnGh(o) ==
  /\ Threads
  /\ o \notin Killable
  /\ op[o] = "begun"
  /\ proc' = [proc EXCEPT ![o] = "run"]
  /\ Moves(o, "waiting")
  /\ UNCHANGED <<helper, lock, killable, leaving, app, doomed, strangers, cut>>

\* A session probe looks without reaping: WNOWAIT.
MutantKeeps(o) == OpKind[o] = "fetch"
Keeps(o) == OpKind[o] = "session"

\* The leader has exited: it is waited for, unless the probe keeps it a zombie.
NoticeExit(o) ==
  /\ Threads
  /\ op[o] = "waiting"
  /\ proc[o] = "zombie"
  /\ proc' = IF Keeps(o) THEN proc ELSE [proc EXCEPT ![o] = "gone"]
  /\ Moves(o, IF OpKind[o] = "fetch" THEN "leave" ELSE "drain")
  /\ UNCHANGED <<helper, lock, killable, leaving, app, doomed, strangers, cut>>

\* The deadline: the group is killed, then its leader is waited for.
TimeOut(o) ==
  /\ Threads
  /\ op[o] = "waiting"
  /\ Signal(o, "capture")
  /\ Moves(o, "reap")
  /\ UNCHANGED <<lock, killable, leaving, app, doomed, cut>>

\* The pipes are closed.
Drained(o) ==
  /\ Threads
  /\ op[o] = "drain"
  /\ ~helper[o]
  /\ Moves(o, IF Keeps(o) THEN "reap" ELSE "leave")
  /\ UNCHANGED <<proc, helper, lock, killable, leaving, app, doomed, strangers, cut>>

\* They are not, when the grace is over: a Git operation leaves the helper
\* alone, a session probe kills it.
GraceOver(o) ==
  /\ Threads
  /\ op[o] = "drain"
  /\ OpKind[o] # "gh"
  /\ IF OpKind[o] = "mutate" THEN UNCHANGED <<proc, helper, strangers>> ELSE Signal(o, "capture")
  /\ Moves(o, IF OpKind[o] = "mutate" THEN "leave" ELSE "reap")
  /\ UNCHANGED <<lock, killable, leaving, app, doomed, cut>>

\* gh failed, said too much or kept its pipes open: killed, though waited for.
GhFails(o) ==
  /\ Threads
  /\ op[o] = "drain"
  /\ OpKind[o] = "gh"
  /\ Signal(o, "gh")
  /\ Moves(o, "leave")
  /\ UNCHANGED <<lock, killable, leaving, app, doomed, cut>>

Reap(o) ==
  /\ Threads
  /\ op[o] = "reap"
  /\ proc[o] = "zombie"
  /\ proc' = [proc EXCEPT ![o] = "gone"]
  /\ Moves(o, "leave")
  /\ UNCHANGED <<helper, lock, killable, leaving, app, doomed, strangers, cut>>

\* unregister_killable_pid; the guard is dropped.
Unregister(o) ==
  /\ Threads
  /\ op[o] = "leave"
  /\ lock = None
  /\ killable' = killable \ {o}
  /\ Moves(o, "done")
  /\ UNCHANGED <<proc, helper, lock, leaving, app, doomed, strangers, cut>>

-----------------------------------------------------------------------------
(* The operating system.                                                   *)

Fork(o) ==
  /\ proc[o] = "run"
  /\ ~helper[o]
  /\ helper' = [helper EXCEPT ![o] = TRUE]
  /\ UNCHANGED <<op, proc, lock, killable, leaving, app, doomed, strangers, cut>>

LeaderExits(o) ==
  /\ proc[o] = "run"
  /\ proc' = [proc EXCEPT ![o] = "zombie"]
  /\ UNCHANGED <<op, helper, lock, killable, leaving, app, doomed, strangers, cut>>

HelperExits(o) ==
  /\ helper[o]
  /\ helper' = [helper EXCEPT ![o] = FALSE]
  /\ UNCHANGED <<op, proc, lock, killable, leaving, app, doomed, strangers, cut>>

\* An id is given to another program once nothing of its group is left.
Recycle(o) ==
  /\ proc[o] = "gone"
  /\ ~helper[o]
  /\ proc' = [proc EXCEPT ![o] = "stranger"]
  /\ UNCHANGED <<op, helper, lock, killable, leaving, app, doomed, strangers, cut>>

-----------------------------------------------------------------------------
(* The main thread.                                                        *)

\* MUTATING_GIT_OPS
Guarded == {o \in Ops : OpKind[o] = "mutate" /\ op[o] \notin {"idle", "done"}}

Main(from, to) ==
  /\ app \in from
  /\ app' = to
  /\ UNCHANGED <<op, proc, helper, lock, killable, strangers>>

Quit == Main({"run"}, "quit") /\ UNCHANGED <<leaving, doomed, cut>>
QuitAgain == Main({"quit"}, "forced") /\ UNCHANGED <<leaving, doomed, cut>>

\* ready_to_exit
MutantReady == app \in {"quit", "forced"}
Ready == app = "forced" \/ (app = "quit" /\ Guarded = {})

Leave == Ready /\ Main({"quit", "forced"}, IF app = "forced" THEN "hurried" ELSE "left")
         /\ UNCHANGED <<leaving, doomed, cut>>

\* A panic of the main loop, then up to ten seconds for what is in flight.
Panic == Main({"run", "quit"}, "panicked") /\ UNCHANGED <<leaving, doomed, cut>>
PanicWaited == Main({"panicked"}, IF Guarded = {} THEN "left" ELSE "hurried")
               /\ UNCHANGED <<leaving, doomed, cut>>

\* kill_in_flight_git_ops: the flag, the snapshot, the signals.
Flag == ~leaving /\ Main({"left", "hurried"}, app) /\ leaving' = TRUE /\ UNCHANGED <<doomed, cut>>

\* The snapshot is taken without the lock.
MutantMayTake == TRUE
MayTake == lock = None

Take ==
  /\ app \in {"left", "hurried"}
  /\ leaving
  /\ MayTake
  /\ doomed' = killable
  /\ killable' = {}
  /\ cut' = IF app = "left" THEN {o \in killable : OpKind[o] = "mutate"} ELSE {}
  /\ app' = "killing"
  /\ UNCHANGED <<op, proc, helper, lock, leaving, strangers>>

KillOne(o) ==
  /\ app = "killing"
  /\ o \in doomed
  /\ Signal(o, "exit")
  /\ doomed' = doomed \ {o}
  /\ UNCHANGED <<op, lock, killable, leaving, app, cut>>

\* shutdown_background: no thread is waited for.
Exit == doomed = {} /\ Main({"killing"}, "exited") /\ UNCHANGED <<leaving, doomed, cut>>

-----------------------------------------------------------------------------
ProcInit ==
  /\ op = [o \in Ops |-> "idle"]
  /\ proc = [o \in Ops |-> "none"]
  /\ helper = [o \in Ops |-> FALSE]
  /\ lock = None
  /\ killable = {} /\ doomed = {} /\ strangers = {} /\ cut = {}
  /\ leaving = FALSE
  /\ app = "run"

ProcNext ==
  \/ \E o \in Ops :
       \/ Schedule(o) \/ Lock(o) \/ Spawn(o) \/ Register(o) \/ SpawnGh(o)
       \/ NoticeExit(o) \/ TimeOut(o) \/ Drained(o) \/ GraceOver(o) \/ GhFails(o) \/ Reap(o) \/ Unregister(o)
       \/ Fork(o) \/ LeaderExits(o) \/ HelperExits(o) \/ Recycle(o)
       \/ KillOne(o)
  \/ Quit \/ QuitAgain \/ Leave \/ Panic \/ PanicWaited \/ Flag \/ Take \/ Exit

ProcSpec == ProcInit /\ [][ProcNext]_procVars

-----------------------------------------------------------------------------
(* Properties.                                                             *)

ProcTypeOK ==
  /\ op \in [Ops -> {"idle", "begun", "locked", "spawned", "waiting", "drain", "reap", "leave", "done"}]
  /\ proc \in [Ops -> {"none", "run", "zombie", "gone", "stranger"}]
  /\ helper \in [Ops -> BOOLEAN]
  /\ lock \in Ops \cup {None}
  /\ killable \subseteq Killable /\ doomed \subseteq Killable /\ cut \subseteq Killable
  /\ leaving \in BOOLEAN
  /\ app \in {"run", "quit", "forced", "panicked", "left", "hurried", "killing", "exited"}
  /\ strangers \subseteq {"capture", "exit", "gh"}

\* When the app is gone, no Git or probe process it started runs on, and none of
\* their helpers either, unless the leader had finished by itself and been
\* drained: spawning under the lock and the flag close the race with a process
\* that is being started (main, kill_in_flight_git_ops and spawn_killable).
NothingRunsOn ==
  app = "exited" => \A o \in Killable :
    /\ proc[o] # "run"
    /\ helper[o] => proc[o] = "gone" /\ op[o] = "done"

\* A pull, a push or a file operation is never killed by a quit that was not
\* pressed twice, nor by a panic that still had time (ready_to_exit, GitOpGuard).
QuitWaits == cut = {}

\* Outside the instant of leaving and gh, no signal reaches a group that may
\* have become another program's: groups are killed before their leader is
\* waited for, or while it is kept a zombie (capture_with_limit,
\* fetch_remote_silent, cleanup_session_child).
SignalsOwn == "capture" \notin strangers

\* A quit neither leaves anything running that it may kill, nor cuts off what it
\* should wait for, nor kills what is not gitpane's (App::run, kill_in_flight).
ProcessesEnd == NothingRunsOn /\ QuitWaits /\ SignalsOwn
=============================================================================
