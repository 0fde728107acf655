-------------------------- MODULE StatusScheduler --------------------------
(***************************************************************************)
(* How the gitpane TUI keeps the status column of every repository row     *)
(* up to date (src/app).                                                   *)
(*                                                                         *)
(* One event loop owns all the bookkeeping.  It handles one event, then    *)
(* drains the action channel, then waits for the next event.  Status       *)
(* queries, cooldown timers and git commands run on background tasks that  *)
(* share nothing with the loop: they only append an action to the channel  *)
(* when they finish.  What can go wrong is therefore a matter of order: a  *)
(* change that lands after a query read the disk, a result that arrives    *)
(* after its row was rebuilt, a mark that is cleared by the wrong          *)
(* completion, a timer for a refresh somebody else already ran.            *)
(*                                                                         *)
(* Abstractions.  The contents of a working tree are a version number; a   *)
(* query reads the version of the instant it starts.  The cooldown clock   *)
(* is the set `cooling' of repositories whose last query finished less     *)
(* than refresh_cooldown_ms (> 0) ago.  Rendering, selection, graphs and   *)
(* the wording of messages are left out.                                   *)
(***************************************************************************)
EXTENDS Integers, Sequences, FiniteSets

CONSTANTS
  Repos,         \* repositories that may exist on disk
  Vanishing,     \* those that may be deleted or cloned while the TUI runs
  Permits,       \* permits of poll_semaphore
  MaxChanges,    \* bound: edits, clones, deletions, and queries that fail
  MaxCommands,   \* bound: user commands and periodic fetches
  Commands,      \* what the user may ask for
  PowerMoves     \* <<from, to>> power transitions the probe reports

ASSUME ReposAssumption == IsFiniteSet(Repos) /\ Vanishing \subseteq Repos
ASSUME PermitsAssumption == Permits \in Nat \ {0}
ASSUME BoundsAssumption == MaxChanges \in Nat /\ MaxCommands \in Nat

Powers == {"Awake", "Doze", "DeepSleep"}

ASSUME PowerMovesAssumption == PowerMoves \subseteq Powers \X Powers

VARIABLES
  exists,      \* repositories on disk now
  hidden,      \* repositories discovery does not return (excluded, unpinned)
  disk,        \* version of each working tree
  watch,       \* changes the filesystem watcher has still to report
  power,       \* App::power, as last reported by the visibility probe
  rows,        \* RepoList::repos
  shown,       \* version in RepoEntry::status, 0 for None
  gitOp,       \* RepoEntry::git_op, the row's spinner
  pending,     \* App::pending_status
  dirty,       \* App::dirty_repos
  scheduled,   \* App::refresh_scheduled
  cooling,     \* last_refresh is younger than the cooldown
  timers,      \* sleeping cooldown tasks of each repository
  queries,     \* status query tasks of each repository
  ops,         \* git commands running for each repository
  actions,     \* the action channel
  draining,    \* the loop is between an event and an empty channel
  seen,        \* history: newest version a query of the current row read
  missed,      \* history: changes dropped while deep asleep
  forced,      \* history: times the in-flight mark was bypassed
  changes, commands, failures   \* counters of the bounds; failures: on a healthy repository

diskVars  == <<exists, hidden, disk>>
rowVars   == <<rows, shown, gitOp>>
bookVars  == <<pending, dirty, scheduled, cooling>>
taskVars  == <<timers, queries, ops>>
histVars  == <<seen, missed, forced>>
countVars == <<changes, commands, failures>>
vars == <<diskVars, watch, power, rowVars, bookVars, taskVars, actions,
          draining, histVars, countVars>>

-----------------------------------------------------------------------------
(* Actions in the channel, and query tasks.                                *)

RepoOps == {"RefreshRepo", "RefreshRepoAfterCooldown", "StatusQueryDone",
            "GitOpComplete", "AddRepo", "RemoveRepo", "GitPush"}
BareOps == {"PollLocal", "PollFetch", "RefreshAll", "RescanRepos", "DiscoverNewRepos"}

Action ==
       [op : RepoOps, id : Repos]
  \cup [op : {"RepoStatusUpdated"}, id : Repos, status : Nat]
  \cup [op : BareOps]

For(op, r) == [op |-> op, id |-> r]
Bare(op)   == [op |-> op]

Queued(a) == \E i \in DOMAIN actions : actions[i] = a

QueuedResult(r) ==
  \E i \in DOMAIN actions :
    actions[i].op \in {"StatusQueryDone", "RepoStatusUpdated"} /\ actions[i].id = r

(* A query waits for a permit, then reads the disk.  `read' is 0 when the  *)
(* repository was gone.  Only local queries look for a vanished repository *)
(* when they fail; `tag' tells two queries of one repository apart.        *)
Query == [tag : Nat, kind : {"local", "fetch"}, stage : {"waiting", "running"}, read : Nat]

FreeTag(r) ==
  CHOOSE n \in 0..Cardinality(queries[r]) : \A q \in queries[r] : q.tag # n

NewQuery(r, kind) == [tag |-> FreeTag(r), kind |-> kind, stage |-> "waiting", read |-> 0]

Spawned(S, kind) ==
  [r \in Repos |-> IF r \in S THEN queries[r] \cup {NewQuery(r, kind)} ELSE queries[r]]

Running == UNION {{<<r, q>> : q \in {x \in queries[r] : x.stage = "running"}} : r \in Repos}

(* What keys, menus and Event::FocusGained put on the channel.             *)
UserOps == {"RefreshRepo", "AddRepo", "RemoveRepo", "GitPush", "RefreshAll", "RescanRepos"}

ASSUME CommandsAssumption == Commands \subseteq UserOps

-----------------------------------------------------------------------------
TypeOK ==
  /\ exists \subseteq Repos /\ hidden \subseteq Repos /\ rows \subseteq Repos
  /\ disk \in [Repos -> Nat] /\ shown \in [Repos -> Nat] /\ seen \in [Repos -> Nat]
  /\ watch \subseteq Repos /\ missed \subseteq Repos
  /\ power \in Powers
  /\ gitOp \in [Repos -> BOOLEAN]
  /\ pending \subseteq Repos /\ dirty \subseteq Repos
  /\ scheduled \subseteq Repos /\ cooling \subseteq Repos
  /\ timers \in [Repos -> Nat] /\ ops \in [Repos -> Nat] /\ forced \in [Repos -> Nat]
  /\ queries \in [Repos -> SUBSET Query]
  /\ actions \in Seq(Action)
  /\ draining \in BOOLEAN
  /\ changes \in Nat /\ commands \in Nat /\ failures \in Nat

(* App::run has just queued the first PollLocal; no query has run yet.     *)
Init ==
  /\ exists \in SUBSET Repos
  /\ hidden = {}
  /\ disk = [r \in Repos |-> 1]
  /\ watch = {} /\ power = "Awake"
  /\ rows = exists
  /\ shown = [r \in Repos |-> 0]
  /\ gitOp = [r \in Repos |-> FALSE]
  /\ pending = {} /\ dirty = {} /\ scheduled = {} /\ cooling = {}
  /\ timers = [r \in Repos |-> 0]
  /\ queries = [r \in Repos |-> {}]
  /\ ops = [r \in Repos |-> 0]
  /\ actions = <<Bare("PollLocal")>>
  /\ draining = FALSE
  /\ seen = [r \in Repos |-> 0] /\ missed = {} /\ forced = [r \in Repos |-> 0]
  /\ changes = 0 /\ commands = 0 /\ failures = 0

-----------------------------------------------------------------------------
(* Environment: the disk and the watcher.                                  *)

(* A file changes.  The watcher reports every change of a listed row.      *)
Edit(r) ==
  /\ changes + failures < MaxChanges
  /\ r \in exists
  /\ disk' = [disk EXCEPT ![r] = @ + 1]
  /\ watch' = IF r \in rows THEN watch \cup {r} ELSE watch
  /\ changes' = changes + 1
  /\ UNCHANGED <<exists, hidden, power, rowVars, bookVars, taskVars, actions,
                 draining, histVars, commands, failures>>

(* A repository is deleted, or cloned (back).                              *)
CloneOrDelete(r) ==
  /\ r \in Vanishing
  /\ changes + failures < MaxChanges
  /\ exists' = IF r \in exists THEN exists \ {r} ELSE exists \cup {r}
  /\ disk' = [disk EXCEPT ![r] = @ + 1]
  /\ watch' = IF r \in rows THEN watch \cup {r} ELSE watch
  /\ changes' = changes + 1
  /\ UNCHANGED <<hidden, power, rowVars, bookVars, taskVars, actions,
                 draining, histVars, commands, failures>>

-----------------------------------------------------------------------------
(* Events.  The loop takes an event only after it has drained the channel, *)
(* and then drains it again.                                               *)

Post(a) ==
  /\ ~draining
  /\ draining' = TRUE
  /\ actions' = Append(actions, a)

(* Event::RepoChanged: forwarded, or dropped while deep asleep.            *)
RepoChanged(r) ==
  /\ r \in watch
  /\ watch' = watch \ {r}
  /\ \/ /\ power # "DeepSleep"
        /\ Post(For("RefreshRepo", r))
        /\ UNCHANGED missed
     \/ /\ power = "DeepSleep"
        /\ ~draining
        /\ draining' = TRUE
        /\ missed' = missed \cup {r}
        /\ UNCHANGED actions
  /\ UNCHANGED <<diskVars, power, rowVars, bookVars, taskVars, seen, forced, countVars>>

(* The two poll timers of Tui::start_event_loop run only while awake.  The *)
(* fetch timer is the rare one; it shares the bound of the commands.       *)
LocalTimer ==
  /\ power = "Awake"
  /\ Post(Bare("PollLocal"))
  /\ UNCHANGED <<diskVars, watch, power, rowVars, bookVars, taskVars, histVars, countVars>>

FetchTimer ==
  /\ power = "Awake"
  /\ commands < MaxCommands
  /\ commands' = commands + 1
  /\ Post(Bare("PollFetch"))
  /\ UNCHANGED <<diskVars, watch, power, rowVars, bookVars, taskVars, histVars,
                 changes, failures>>

(* Event::Tick only wakes the loop; deep asleep there is no tick.          *)
Tick ==
  /\ power # "DeepSleep"
  /\ ~draining /\ actions # <<>>
  /\ draining' = TRUE
  /\ UNCHANGED <<diskVars, watch, power, rowVars, bookVars, taskVars, actions,
                 histVars, countVars>>

(* Event::Power.                                                           *)
PowerChanged(to) ==
  /\ <<power, to>> \in PowerMoves
  /\ ~draining
  /\ draining' = TRUE
  /\ power' = to
  /\ UNCHANGED <<diskVars, watch, rowVars, bookVars, taskVars, actions, histVars, countVars>>

(* Event::ReposRootChanged, once it is outside its cooldown.               *)
RootChanged ==
  /\ power # "DeepSleep"
  /\ exists \ hidden # rows
  /\ Post(Bare("DiscoverNewRepos"))
  /\ UNCHANGED <<diskVars, watch, power, rowVars, bookVars, taskVars, histVars, countVars>>

(* Keys and Event::FocusGained: what the user may ask for.                 *)
UserCommand ==
  /\ commands < MaxCommands
  /\ commands' = commands + 1
  /\ \/ \E op \in Commands \cap BareOps : Post(Bare(op))
     \/ \E op \in Commands \cap RepoOps, r \in rows \cup exists : Post(For(op, r))
  /\ UNCHANGED <<diskVars, watch, power, rowVars, bookVars, taskVars, histVars,
                 changes, failures>>

DrainDone ==
  /\ draining /\ actions = <<>>
  /\ draining' = FALSE
  /\ UNCHANGED <<diskVars, watch, power, rowVars, bookVars, taskVars, actions,
                 histVars, countVars>>

-----------------------------------------------------------------------------
(* Handlers of the action channel.                                         *)

Next1(op) == draining /\ actions # <<>> /\ Head(actions).op = op

(* Mutation: a refresh of a repository in flight leaves no dirty mark.     *)
MutantScheduleRefresh(r, p, d, s, c) ==
  /\ cooling' = c
  /\ \/ /\ r \in p
        /\ pending' = p /\ dirty' = d /\ scheduled' = s
        /\ UNCHANGED <<timers, queries>>
     \/ /\ r \notin p /\ r \notin c
        /\ dirty' = d /\ scheduled' = s \ {r}
        /\ pending' = IF r \in rows THEN p \cup {r} ELSE p
        /\ queries' = Spawned({r} \cap rows, "local")
        /\ UNCHANGED timers
     \/ /\ r \notin p /\ r \in c
        /\ pending' = p /\ dirty' = d /\ scheduled' = s \cup {r}
        /\ timers' = IF r \in s THEN timers ELSE [timers EXCEPT ![r] = @ + 1]
        /\ UNCHANGED queries

(* App::schedule_refresh, given the marks p, d, s and the cooling set c    *)
(* its caller has left.                                                    *)
ScheduleRefresh(r, p, d, s, c) ==
  /\ cooling' = c
  /\ \/ /\ r \in p
        /\ pending' = p /\ dirty' = d \cup {r} /\ scheduled' = s
        /\ UNCHANGED <<timers, queries>>
     \/ /\ r \notin p /\ r \notin c
        /\ dirty' = d /\ scheduled' = s \ {r}
        /\ pending' = IF r \in rows THEN p \cup {r} ELSE p
        /\ queries' = Spawned({r} \cap rows, "local")
        /\ UNCHANGED timers
     \/ /\ r \notin p /\ r \in c
        /\ pending' = p /\ dirty' = d /\ scheduled' = s \cup {r}
        /\ timers' = IF r \in s THEN timers ELSE [timers EXCEPT ![r] = @ + 1]
        /\ UNCHANGED queries

RefreshRepo ==
  /\ Next1("RefreshRepo")
  /\ actions' = Tail(actions)
  /\ ScheduleRefresh(Head(actions).id, pending, dirty, scheduled, cooling)
  /\ UNCHANGED <<diskVars, watch, power, rowVars, ops, draining, histVars, countVars>>

(* Mutation: the timer's mark is not taken before rescheduling.            *)
MutantAfterCooldown ==
  LET r == Head(actions).id IN
  /\ Next1("RefreshRepoAfterCooldown")
  /\ actions' = Tail(actions)
  /\ \/ /\ r \in scheduled
        /\ ScheduleRefresh(r, pending, dirty, scheduled, cooling)
     \/ /\ r \notin scheduled
        /\ UNCHANGED <<bookVars, timers, queries>>
  /\ UNCHANGED <<diskVars, watch, power, rowVars, ops, draining, histVars, countVars>>

(* A timer whose mark is gone is ignored.                                  *)
RefreshRepoAfterCooldown ==
  LET r == Head(actions).id IN
  /\ Next1("RefreshRepoAfterCooldown")
  /\ actions' = Tail(actions)
  /\ \/ /\ r \in scheduled
        /\ ScheduleRefresh(r, pending, dirty, scheduled \ {r}, cooling)
     \/ /\ r \notin scheduled
        /\ UNCHANGED <<bookVars, timers, queries>>
  /\ UNCHANGED <<diskVars, watch, power, rowVars, ops, draining, histVars, countVars>>

(* Mutation: a completion drops the dirty mark without refreshing again.   *)
MutantCompleted(r, newShown) ==
  /\ actions' = Tail(actions)
  /\ shown' = newShown
  /\ gitOp' = IF r \in rows THEN [gitOp EXCEPT ![r] = FALSE] ELSE gitOp
  /\ pending' = pending \ {r} /\ dirty' = dirty \ {r} /\ cooling' = cooling \cup {r}
  /\ UNCHANGED <<diskVars, watch, power, rows, ops, draining, histVars, countVars,
                 scheduled, timers, queries>>

(* Both completions clear the in-flight mark, restart the cooldown, stop   *)
(* the spinner and re-queue a repository that changed meanwhile.           *)
Completed(r, newShown) ==
  /\ actions' = Tail(actions)
  /\ shown' = newShown
  /\ gitOp' = IF r \in rows THEN [gitOp EXCEPT ![r] = FALSE] ELSE gitOp
  /\ \/ /\ r \in dirty
        /\ ScheduleRefresh(r, pending \ {r}, dirty \ {r}, scheduled, cooling \cup {r})
     \/ /\ r \notin dirty
        /\ pending' = pending \ {r} /\ cooling' = cooling \cup {r}
        /\ UNCHANGED <<dirty, scheduled, timers, queries>>
  /\ UNCHANGED <<diskVars, watch, power, rows, ops, draining, histVars, countVars>>

(* Mutation: a failed query leaves the spinner on.                         *)
MutantStatusQueryDone ==
  LET r == Head(actions).id IN
  /\ Next1("StatusQueryDone")
  /\ actions' = Tail(actions)
  /\ \/ /\ r \in dirty
        /\ ScheduleRefresh(r, pending \ {r}, dirty \ {r}, scheduled, cooling \cup {r})
     \/ /\ r \notin dirty
        /\ pending' = pending \ {r} /\ cooling' = cooling \cup {r}
        /\ UNCHANGED <<dirty, scheduled, timers, queries>>
  /\ UNCHANGED <<diskVars, watch, power, rowVars, ops, draining, histVars, countVars>>

StatusQueryDone ==
  /\ Next1("StatusQueryDone")
  /\ Completed(Head(actions).id, shown)

RepoStatusUpdated ==
  LET r == Head(actions).id IN
  /\ Next1("RepoStatusUpdated")
  /\ Completed(r, IF r \in rows THEN [shown EXCEPT ![r] = Head(actions).status] ELSE shown)

(* Mutation: a poll looks at the spinner only.                             *)
MutantPoll(op, kind) ==
  LET idle == {r \in rows : ~gitOp[r]} IN
  /\ Next1(op)
  /\ actions' = Tail(actions)
  /\ pending' = pending \cup idle
  /\ queries' = Spawned(idle, kind)
  /\ UNCHANGED <<diskVars, watch, power, rowVars, dirty, scheduled, cooling, timers,
                 ops, draining, histVars, countVars>>

(* The two polls skip rows that are busy or already in flight.             *)
Poll(op, kind) ==
  LET idle == {r \in rows : ~gitOp[r] /\ r \notin pending} IN
  /\ Next1(op)
  /\ actions' = Tail(actions)
  /\ pending' = pending \cup idle
  /\ queries' = Spawned(idle, kind)
  /\ UNCHANGED <<diskVars, watch, power, rowVars, dirty, scheduled, cooling, timers,
                 ops, draining, histVars, countVars>>

PollLocal == Poll("PollLocal", "local")
PollFetch == Poll("PollFetch", "fetch")

(* The user's "refresh all" asks every row again, in flight or not.        *)
RefreshAll ==
  /\ Next1("RefreshAll")
  /\ actions' = Tail(actions)
  /\ gitOp' = [r \in Repos |-> gitOp[r] \/ r \in rows]
  /\ pending' = pending \cup rows
  /\ queries' = Spawned(rows, "fetch")
  /\ forced' = [r \in Repos |-> IF r \in rows THEN forced[r] + 1 ELSE forced[r]]
  /\ UNCHANGED <<diskVars, watch, power, rows, shown, dirty, scheduled, cooling, timers,
                 ops, draining, seen, missed, countVars>>

(* Push, pull, submodule, worktree and file commands: the row is marked    *)
(* busy and the command starts; it reports later.  The commands that name  *)
(* their own directory run also when the row has vanished.                 *)
GitPush ==
  LET r == Head(actions).id IN
  /\ Next1("GitPush")
  /\ actions' = Tail(actions)
  /\ \/ /\ r \in rows
        /\ gitOp' = [gitOp EXCEPT ![r] = TRUE]
        /\ ops' = [ops EXCEPT ![r] = @ + 1]
     \/ /\ r \notin rows
        /\ ops' \in {ops, [ops EXCEPT ![r] = @ + 1]}
        /\ UNCHANGED gitOp
  /\ UNCHANGED <<diskVars, watch, power, rows, shown, bookVars, timers, queries,
                 draining, histVars, countVars>>

GitOpComplete ==
  /\ Next1("GitOpComplete")
  /\ actions' = Append(Tail(actions), For("RefreshRepo", Head(actions).id))
  /\ UNCHANGED <<diskVars, watch, power, rowVars, bookVars, taskVars, draining,
                 histVars, countVars>>

Orderings(S) ==
  {f \in [1..Cardinality(S) -> S] : \A x \in S : \E i \in DOMAIN f : f[i] = x}

(* Action::DiscoverNewRepos with the exclusions h: rows follow the scan,   *)
(* the marks of vanished rows are pruned, new rows are queued.  Tasks of a *)
(* vanished row keep running.                                              *)
Resync(h) ==
  LET found == exists \ h
      gone  == rows \ found
      added == found \ rows
      fresh == gone \cup added
  IN
  /\ hidden' = h
  /\ rows' = found
  /\ shown' = [r \in Repos |-> IF r \in fresh THEN 0 ELSE shown[r]]
  /\ gitOp' = [r \in Repos |-> IF r \in fresh THEN FALSE ELSE gitOp[r]]
  /\ seen' = [r \in Repos |-> IF r \in fresh THEN 0 ELSE seen[r]]
  /\ forced' = [r \in Repos |-> IF r \in gone THEN forced[r] + 1 ELSE forced[r]]
  /\ pending' = pending \ gone /\ dirty' = dirty \ gone
  /\ scheduled' = scheduled \ gone /\ cooling' = cooling \ gone
  /\ \E order \in Orderings(added) :
       actions' = Tail(actions) \o [i \in DOMAIN order |-> For("RefreshRepo", order[i])]
  /\ UNCHANGED <<exists, disk, watch, power, taskVars, draining, missed, countVars>>

DiscoverNewRepos == Next1("DiscoverNewRepos") /\ Resync(hidden)

(* Adding pins the repository, removing unpins or excludes it; each then   *)
(* runs the discovery handler.                                             *)
AddRepo ==
  LET r == Head(actions).id IN
  /\ Next1("AddRepo")
  /\ Resync(IF r \in exists THEN hidden \ {r} ELSE hidden)

RemoveRepo ==
  LET r == Head(actions).id IN
  /\ Next1("RemoveRepo")
  /\ Resync(IF r \in rows THEN hidden \cup {r} ELSE hidden)

(* A rescan drops the exclusions and rebuilds the list and every mark from *)
(* scratch, then polls.                                                    *)
RescanRepos ==
  /\ Next1("RescanRepos")
  /\ \E h \in SUBSET hidden :
       /\ hidden' = h
       /\ rows' = exists \ h
  /\ shown' = [r \in Repos |-> 0]
  /\ gitOp' = [r \in Repos |-> FALSE]
  /\ seen' = [r \in Repos |-> 0]
  /\ forced' = [r \in Repos |-> forced[r] + 1]
  /\ pending' = {} /\ dirty' = {} /\ scheduled' = {} /\ cooling' = {}
  /\ actions' = Append(Tail(actions), Bare("PollLocal"))
  /\ UNCHANGED <<exists, disk, watch, power, taskVars, draining, missed, countVars>>

(* Saving the configuration failed: the command is dropped.                *)
SaveFailed ==
  /\ draining /\ actions # <<>>
  /\ Head(actions).op \in {"AddRepo", "RemoveRepo", "RescanRepos"}
  /\ actions' = Tail(actions)
  /\ UNCHANGED <<diskVars, watch, power, rowVars, bookVars, taskVars, draining,
                 histVars, countVars>>

HandleAction ==
  \/ RefreshRepo \/ RefreshRepoAfterCooldown
  \/ StatusQueryDone \/ RepoStatusUpdated
  \/ PollLocal \/ PollFetch \/ RefreshAll
  \/ GitPush \/ GitOpComplete
  \/ DiscoverNewRepos \/ AddRepo \/ RemoveRepo \/ RescanRepos \/ SaveFailed

-----------------------------------------------------------------------------
(* Background tasks.                                                       *)

CooldownElapses(r) ==
  /\ r \in cooling
  /\ cooling' = cooling \ {r}
  /\ UNCHANGED <<diskVars, watch, power, rowVars, pending, dirty, scheduled, taskVars,
                 actions, draining, histVars, countVars>>

(* A sleeping task wakes.  Its wait was computed from a last_refresh that  *)
(* another completion may have replaced since, so it can find the          *)
(* repository cooling again.                                               *)
TimerFires(r) ==
  /\ timers[r] > 0
  /\ timers' = [timers EXCEPT ![r] = @ - 1]
  /\ actions' = Append(actions, For("RefreshRepoAfterCooldown", r))
  /\ UNCHANGED <<diskVars, watch, power, rowVars, bookVars, queries, ops, draining,
                 histVars, countVars>>

(* A query gets its permit and reads the working tree.                     *)
QueryStarts(r) ==
  \E q \in queries[r] :
    /\ q.stage = "waiting"
    /\ Cardinality(Running) < Permits
    /\ LET read == IF r \in exists THEN disk[r] ELSE 0 IN
         /\ queries' = [queries EXCEPT ![r] =
                          (@ \ {q}) \cup {[q EXCEPT !.stage = "running", !.read = read]}]
         /\ seen' = [seen EXCEPT ![r] = IF r \in rows /\ disk[r] > @ THEN disk[r] ELSE @]
         /\ missed' = missed \ {r}
    /\ UNCHANGED <<diskVars, watch, power, rowVars, bookVars, timers, ops, actions,
                   draining, forced, countVars>>

QuerySucceeds(r, q) ==
  /\ q.read > 0
  /\ actions' = Append(actions,
                  [op |-> "RepoStatusUpdated", id |-> r, status |-> q.read])
  /\ UNCHANGED failures

(* Mutation: no StatusGuard, so a query that dies says nothing.            *)
MutantQueryFails(r, q) ==
  /\ \/ q.read = 0 /\ UNCHANGED failures
     \/ q.read > 0 /\ changes + failures < MaxChanges /\ failures' = failures + 1
  /\ UNCHANGED actions

(* The query failed, or panicked and its StatusGuard spoke for it.         *)
QueryFails(r, q) ==
  /\ \/ q.read = 0 /\ UNCHANGED failures
     \/ q.read > 0 /\ changes + failures < MaxChanges /\ failures' = failures + 1
  /\ actions' = Append(actions, For("StatusQueryDone", r))
                  \o (IF q.kind = "local" /\ r \notin exists
                      THEN <<Bare("DiscoverNewRepos")>> ELSE <<>>)

QueryFinishes(r) ==
  \E q \in queries[r] :
    /\ q.stage = "running"
    /\ queries' = [queries EXCEPT ![r] = @ \ {q}]
    /\ QuerySucceeds(r, q) \/ QueryFails(r, q)
    /\ UNCHANGED <<diskVars, watch, power, rowVars, bookVars, timers, ops, draining,
                   histVars, changes, commands>>

(* Mutation: the error path of a git command does not ask for a refresh.   *)
MutantGitOpEnds(r) ==
  /\ ops[r] > 0
  /\ ops' = [ops EXCEPT ![r] = @ - 1]
  /\ actions' \in {actions, Append(actions, For("GitOpComplete", r))}
  /\ UNCHANGED <<diskVars, watch, power, rowVars, bookVars, timers, queries, draining,
                 histVars, countVars>>

(* Mutation: the guard of a git command is completed and dropped again.    *)
MutantGitOpEndsTwice(r) ==
  /\ ops[r] > 0
  /\ ops' = [ops EXCEPT ![r] = @ - 2]
  /\ \E op \in {"GitOpComplete", "RefreshRepo"} : actions' = Append(actions, For(op, r))
  /\ UNCHANGED <<diskVars, watch, power, rowVars, bookVars, timers, queries, draining,
                 histVars, countVars>>

(* A git command ends: GitOpComplete, or an error and RefreshRepo, which   *)
(* is also what GitOpGuard sends for a panic.                              *)
GitOpEnds(r) ==
  /\ ops[r] > 0
  /\ ops' = [ops EXCEPT ![r] = @ - 1]
  /\ \E op \in {"GitOpComplete", "RefreshRepo"} : actions' = Append(actions, For(op, r))
  /\ UNCHANGED <<diskVars, watch, power, rowVars, bookVars, timers, queries, draining,
                 histVars, countVars>>

-----------------------------------------------------------------------------
Environment ==
  \/ \E r \in Repos : Edit(r) \/ CloneOrDelete(r)
  \/ LocalTimer \/ FetchTimer \/ RootChanged \/ UserCommand
  \/ \E to \in Powers : PowerChanged(to)

Background ==
  \E r \in Repos :
    \/ CooldownElapses(r) \/ TimerFires(r)
    \/ QueryStarts(r) \/ QueryFinishes(r) \/ GitOpEnds(r)

Next ==
  \/ Environment
  \/ \E r \in Repos : RepoChanged(r)
  \/ Tick \/ DrainDone \/ HandleAction
  \/ Background

(* The loop drains what it started, a tick comes while not deep asleep,    *)
(* sleeping and running tasks end, the semaphore is FIFO, and an event in  *)
(* the (FIFO) event channel is taken although the loop is busy at times.   *)
Fairness ==
  /\ WF_vars(HandleAction) /\ WF_vars(DrainDone) /\ WF_vars(Tick)
  /\ SF_vars(LocalTimer)
  /\ \A r \in Repos :
       /\ SF_vars(RepoChanged(r))
       /\ WF_vars(CooldownElapses(r)) /\ WF_vars(TimerFires(r))
       /\ SF_vars(QueryStarts(r)) /\ WF_vars(QueryFinishes(r)) /\ WF_vars(GitOpEnds(r))

Spec == Init /\ [][Next]_vars
FairSpec == Spec /\ Fairness

-----------------------------------------------------------------------------
(* Safety.                                                                 *)

Results(r) ==
  {i \in DOMAIN actions :
     actions[i].op \in {"StatusQueryDone", "RepoStatusUpdated"} /\ actions[i].id = r}

InFlight(r) == Cardinality(queries[r]) + Cardinality(Results(r))

(* The in-flight mark of a repository is never leaked: as long as it is    *)
(* set, a query task or its completion is still to come.  A leaked mark    *)
(* would make both polls skip the repository, and turn every watcher       *)
(* refresh into a dirty mark, for the rest of the session.                 *)
InFlightIsReal ==
  \A r \in pending : r \in rows /\ (queries[r] # {} \/ QueuedResult(r))

(* A dirty mark is only ever set on a repository in flight, whose          *)
(* completion turns it into a refresh; and a mark in refresh_scheduled     *)
(* always has a sleeping task, or that task's action, behind it.  Either   *)
(* mark without its consumer would swallow every later refresh.            *)
MarksAreConsumed ==
  /\ dirty \subseteq pending
  /\ \A r \in scheduled : timers[r] > 0 \/ Queued(For("RefreshRepoAfterCooldown", r))

(* A spinning row always has something coming that stops it: its command,  *)
(* the refresh after it, or a status query.  (A spinning row is skipped by *)
(* both polls, so nothing else would ever refresh it.)                     *)
SpinnerHasWork ==
  \A r \in rows : gitOp[r] =>
    \/ ops[r] > 0
    \/ Queued(For("GitOpComplete", r)) \/ Queued(For("RefreshRepo", r))
    \/ r \in pending \/ r \in scheduled

(* Whatever order events, completions, timers, rescans and removals come   *)
(* in: a change of a listed repository that no query has read yet still    *)
(* has a query, a mark, an action, an event or a git command behind it --  *)
(* unless the pane was deep asleep when the watcher reported it.  A poll   *)
(* in the channel counts only for a row that it will not skip.             *)
NoChangeForgotten ==
  \A r \in rows : seen[r] < disk[r] =>
    \/ r \in watch \cup dirty \cup scheduled \cup missed
    \/ Queued(For("RefreshRepo", r)) \/ Queued(For("GitOpComplete", r)) \/ ops[r] > 0
    \/ \E q \in queries[r] : q.stage = "waiting"
    \/ r \notin pending /\ Queued(Bare("PollLocal"))

(* Polls, watcher refreshes and cooldown retries never run two queries of  *)
(* one repository at a time; each "refresh all", rescan or removal can     *)
(* add at most one.                                                        *)
OneQueryUnlessForced ==
  \A r \in Repos : InFlight(r) <= forced[r] + (IF r \in pending THEN 1 ELSE 0)

-----------------------------------------------------------------------------
(* Liveness, of FairSpec.                                                  *)

Fresh(r) == r \in rows => shown[r] = disk[r]

(* A pane that stays awake ends up showing the disk, whatever happened     *)
(* before: overlapping queries, failures, changes dropped while asleep.    *)
AwakeTracksDisk == <>[](power = "Awake") => \A r \in Repos : <>[]Fresh(r)

(* The watcher alone suffices, polls or not: unless the pane was deep      *)
(* asleep, a query failed or two queries of one repository overlapped, a   *)
(* change ends up on the screen also when the pane dozes for ever.         *)
WatcherTracksDisk ==
  [](power # "DeepSleep" /\ failures = 0 /\ \A r \in Repos : InFlight(r) <= 1)
    => \A r \in Repos : <>[]Fresh(r)

(* A visible dashboard tracks real changes (app/mod.rs, handle_event): as  *)
(* long as no query fails or overlaps another one, a pane that is never    *)
(* deep asleep again ends up showing the disk, whatever it slept through.  *)
VisibleTracksDisk ==
  <>[](power # "DeepSleep") /\ [](failures = 0 /\ \A r \in Repos : InFlight(r) <= 1)
    => \A r \in Repos : <>[]Fresh(r)
=============================================================================
