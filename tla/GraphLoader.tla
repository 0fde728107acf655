---------------------------- MODULE GraphLoader ----------------------------
(***************************************************************************)
(* The commit graph panel of the gitpane TUI: loading, reloading, caching  *)
(* and what the row list, the active worktree and the filters ask of it    *)
(* (src/components/git_graph, src/app).                                    *)
(*                                                                         *)
(* The event loop owns GitGraph.  A build runs on a blocking task that     *)
(* reads the repository at some instant and reports once: rows, an error,  *)
(* or, when it panicked, an abort sent by its guard.  Reports carry the    *)
(* generation of their build.  A load of the repository that is already    *)
(* loading is not started but remembered (needs_reload); finished graphs   *)
(* are kept in an LRU cache that a change of the repository invalidates.   *)
(*                                                                         *)
(* Abstractions.  The refs of a repository, or of a worktree or submodule  *)
(* checkout, are a version number; rows are the key they were built for    *)
(* and the version they show.  Everything else of GraphOptions is one      *)
(* value.  A report is handled at the instant it is sent: reports of       *)
(* different builds commute with everything in between, because a build    *)
(* may stay unfinished for as long as its report could stay in the channel.*)
(* Search, collapsing, diff statistics and rendering are left out.         *)
(***************************************************************************)
EXTENDS Integers, Sequences

CONSTANTS
  Repos,         \* repositories that may be listed
  Trees,         \* worktrees and submodules the panel can be pointed at
  Parent,        \* the repository of each tree
  Options,       \* values of GraphOptions
  None,          \* no repository, no rows, no tree
  Capacity,      \* GRAPH_CACHE_CAPACITY
  MaxAborts,     \* MAX_CONSECUTIVE_ABORTS
  Removable,     \* repositories that may leave and enter the list
  MaxChanges,    \* bound: moved refs and changes of the list
  MaxCommands,   \* bound: what the user does to the panel
  MaxFailures    \* bound: builds that fail or panic

Paths == Repos \cup Trees
Keys  == [path : Paths, options : Options]
Rows  == [key : Keys, version : Nat]

ASSUME PathsAssumption ==
  /\ None \notin Paths /\ None \notin Keys /\ None \notin Rows
  /\ Repos \cap Trees = {}
  /\ Parent \in [Trees -> Repos] /\ Removable \subseteq Repos
ASSUME CapacityAssumption == Capacity \in Nat \ {0} /\ MaxAborts \in Nat
ASSUME BoundsAssumption ==
  MaxChanges \in Nat /\ MaxCommands \in Nat /\ MaxFailures \in Nat

VARIABLES
  refs,      \* version of the refs of each path, on disk
  listed,    \* RepoList::repos
  selected,  \* the selected row, None if there is none
  known,     \* version in the status of each row, 0 for None
  active,    \* App::active_worktree
  posted,    \* target of the SelectRepo or SelectWorktree in the channel, or None
  g,         \* App::git_graph and the builds it spawned
  dropped,   \* history: keys cached without the reload they needed
  asked,     \* history: how often the panel was asked to load
  changes, commands, failures

countVars == <<changes, commands, failures>>
listVars  == <<listed, selected, known>>
vars == <<refs, listVars, active, posted, g, dropped, asked, countVars>>

Build == [gen : Nat, life : Nat, key : Keys, read : Nat]

Graph ==
  [repo : Paths \cup {None}, options : Options, rows : Rows \cup {None},
   loading : BOOLEAN, error : BOOLEAN, inFlight : BOOLEAN, key : Keys \cup {None},
   needsReload : BOOLEAN, gen : Nat, aborts : Nat, detail : BOOLEAN,
   cache : [Keys -> Rows \cup {None}], used : Seq(Keys), life : Nat, builds : SUBSET Build]

Key(h, p) == [path |-> p, options |-> h.options]

-----------------------------------------------------------------------------
(* The cache: the rows of each key, and the keys that have some, least     *)
(* recently used first.                                                    *)

Without(s, S) ==
  LET kept[i \in 0..Len(s)] ==
        IF i = 0 THEN <<>>
        ELSE IF s[i] \in S THEN kept[i - 1] ELSE Append(kept[i - 1], s[i])
  IN kept[Len(s)]

Forget(h, S) ==
  [h EXCEPT !.cache = [k \in Keys |-> IF k \in S THEN None ELSE h.cache[k]],
            !.used = Without(@, S)]

(* Mutation: the capacity is never enforced.                               *)
MutantInsert(h, k, rows) ==
  [h EXCEPT !.cache[k] = rows, !.used = Append(Without(@, {k}), k)]

Insert(h, k, rows) ==
  LET full == h.cache[k] = None /\ Len(h.used) >= Capacity
      t    == IF full THEN Forget(h, {Head(h.used)}) ELSE h
  IN [t EXCEPT !.cache[k] = rows, !.used = Append(Without(@, {k}), k)]

(* Mutation: only the entry of the current options is dropped.             *)
MutantInvalidate(h, p) == Forget(h, {Key(h, p)})

Invalidate(h, p) == Forget(h, {k \in Keys : k.path = p})

-----------------------------------------------------------------------------
(* Loading.                                                                *)

ResetView(h) == [h EXCEPT !.detail = FALSE, !.needsReload = FALSE, !.aborts = 0]

(* A build for the current options: a new generation, so that whatever is  *)
(* still running for another repository is ignored.                        *)
Spawn(h, p) ==
  [h EXCEPT
     !.inFlight = TRUE, !.key = Key(h, p), !.gen = @ + 1,
     !.builds = @ \cup {[gen |-> h.gen + 1, life |-> h.life, key |-> Key(h, p), read |-> 0]}]

(* load_repo_inner with force.                                             *)
ForceReload(h, p) ==
  IF h.repo = p /\ h.inFlight THEN [h EXCEPT !.needsReload = TRUE]
  ELSE LET same == h.repo = p
           t    == [h EXCEPT !.repo = p, !.error = FALSE]
       IN Spawn(IF same THEN t ELSE ResetView([t EXCEPT !.loading = TRUE, !.rows = None]), p)

(* Mutation: the request is answered and kept.                             *)
MutantReloadPending(h) ==
  IF h.needsReload /\ h.repo # None THEN ForceReload(h, h.repo) ELSE h

ReloadPending(h) ==
  LET t == [h EXCEPT !.needsReload = FALSE] IN
  IF h.needsReload /\ h.repo # None THEN ForceReload(t, h.repo) ELSE t

(* Mutation: the rows of a build are taken whatever options it had.        *)
MutantSetRows(h, rows) ==
  ReloadPending(
    [Insert(h, Key(h, h.repo), rows) EXCEPT
       !.key = None, !.rows = rows, !.loading = FALSE, !.inFlight = FALSE, !.aborts = 0])

(* Rows of a build whose options were edited meanwhile are not used: the   *)
(* graph is built again with the options of now.                           *)
SetRows(h, rows) ==
  IF h.key # None /\ h.key # Key(h, h.key.path)
  THEN ForceReload([h EXCEPT !.key = None, !.inFlight = FALSE, !.needsReload = FALSE],
                   h.key.path)
  ELSE ReloadPending(
         [(IF h.repo = None THEN h ELSE Insert(h, Key(h, h.repo), rows)) EXCEPT
            !.key = None, !.rows = rows, !.loading = FALSE, !.inFlight = FALSE, !.aborts = 0])

(* load_repo: a cached graph is shown at once.                             *)
LoadRepo(h, p) ==
  LET hit == h.cache[Key(h, p)] IN
  IF hit = None \/ (h.repo = p /\ h.inFlight) THEN ForceReload(h, p)
  ELSE LET same == h.repo = p
           t    == [h EXCEPT !.repo = p, !.error = FALSE, !.gen = @ + 1, !.key = None]
       IN SetRows(IF same THEN t ELSE ResetView(t), hit)

(* Mutation: a failed build leaves the latch set.                          *)
MutantSetError(h) ==
  ReloadPending([h EXCEPT !.error = TRUE, !.loading = FALSE, !.key = None])

SetError(h) ==
  ReloadPending([h EXCEPT !.error = TRUE, !.loading = FALSE, !.inFlight = FALSE, !.key = None])

(* Mutation: a panicked build leaves the latch set.                        *)
MutantAbortLoad(h) ==
  ReloadPending([h EXCEPT !.loading = FALSE, !.aborts = @ + 1])

(* An abort releases the latch; after too many in a row it gives up.       *)
AbortLoad(h) ==
  LET t == [h EXCEPT !.inFlight = FALSE, !.key = None, !.loading = FALSE, !.aborts = @ + 1] IN
  IF ~h.inFlight THEN h
  ELSE IF t.aborts > MaxAborts THEN [t EXCEPT !.needsReload = FALSE, !.error = TRUE]
  ELSE ReloadPending(t)

(* GitGraph::new when the list is empty: every counter starts again.       *)
Fresh(h) ==
  [repo |-> None, options |-> h.options, rows |-> None, loading |-> FALSE,
   error |-> FALSE, inFlight |-> FALSE, key |-> None, needsReload |-> FALSE, gen |-> 0,
   aborts |-> 0, detail |-> FALSE, cache |-> [k \in Keys |-> None], used |-> <<>>,
   life |-> h.life + 1, builds |-> h.builds]

(* The panel becomes t.  A key is recorded in dropped as long as its cache *)
(* entry stays when its reload was given up half-way, because the panel    *)
(* turned away from it or the build failed, or when its rows were cached   *)
(* while the cursor had already moved on, so that a change of the          *)
(* repository asked for no reload.                                         *)
Pending(h)   == h.repo # None /\ (h.inFlight \/ h.needsReload)
GivenUp(h, t) ==
  \/ t.repo # h.repo \/ t.options # h.options
  \/ ~t.inFlight /\ (t.error \/ t.aborts > h.aborts)

Becomes(t) ==
  LET left == IF Pending(g) /\ GivenUp(g, t) THEN {Key(g, g.repo)} ELSE {}
  IN
  /\ g' = t
  /\ dropped' = {k \in dropped \cup left : t.cache[k] # None /\ t.cache[k] = g.cache[k]} \cup
                {k \in Keys : posted # None /\ t.cache[k] \notin {None, g.cache[k]}}

(* ... because it is asked to load, or for another reason.                 *)
Loads(t)  == Becomes(t) /\ asked' = asked + 1
Turns(t)  == Becomes(t) /\ asked' = asked

-----------------------------------------------------------------------------
(* What follows a change of the list or of the selection.                  *)

(* refresh_active_worktree: always from disk.  An open detail defers it.   *)
RefreshTree(h, p) ==
  LET t == Invalidate(h, p) IN
  IF t.detail THEN [t EXCEPT !.needsReload = TRUE] ELSE ForceReload(t, p)

(* sync_selection, given the selection and the active tree of now.         *)
Synced(h, sel, act) ==
  IF act # None THEN RefreshTree(h, act)
  ELSE IF sel # None THEN LoadRepo(h, sel)
  ELSE Fresh(h)

Init ==
  /\ refs = [p \in Paths |-> 1]
  /\ listed \in {S \in SUBSET Repos : Repos \ S \subseteq Removable}
  /\ selected \in (IF listed = {} THEN {None} ELSE listed)
  /\ known = [r \in Repos |-> 0]
  /\ active = None /\ posted = None
  /\ \E o \in Options :
       LET new == Fresh([options |-> o, life |-> 0, builds |-> {}]) IN
       g = Synced(new, selected, None)
  /\ dropped = {} /\ asked = 1
  /\ changes = 0 /\ commands = 0 /\ failures = 0

(* A commit, a fetch, a branch: the refs of a path move.                   *)
RefsMove(p) ==
  /\ changes < MaxChanges
  /\ refs' = [refs EXCEPT ![p] = @ + 1]
  /\ changes' = changes + 1
  /\ UNCHANGED <<listVars, active, posted, g, dropped, asked, commands, failures>>

(* Mutation: the panel reloads, but the cache is not told of the change.   *)
MutantStatusUpdated(r, v) ==
  /\ r \in listed /\ v > known[r] /\ v <= refs[r]
  /\ known' = [known EXCEPT ![r] = v]
  /\ Loads(IF selected # r \/ active # None THEN g
             ELSE IF g.detail THEN [g EXCEPT !.needsReload = TRUE]
             ELSE LoadRepo(g, r))
  /\ UNCHANGED <<refs, listed, selected, active, posted, countVars>>

(* RepoStatusUpdated whose status shows other refs than the last one: the  *)
(* cache forgets the repository, and the panel reloads if it shows it.     *)
(* Queries of one repository report in order here (StatusScheduler has the *)
(* other case).                                                            *)
StatusUpdated(r, v) ==
  LET t     == Invalidate(g, r)
      shown == selected = r /\ active = None
  IN
  /\ r \in listed /\ v > known[r] /\ v <= refs[r]
  /\ known' = [known EXCEPT ![r] = v]
  /\ Loads(IF ~shown THEN t
             ELSE IF t.detail THEN [t EXCEPT !.needsReload = TRUE]
             ELSE LoadRepo(t, r))
  /\ UNCHANGED <<refs, listed, selected, active, posted, countVars>>

(* PollLocal and GitOpComplete: an active tree is refreshed every time.    *)
(* Polls that would only build the same rows again are left out, to keep   *)
(* the generation finite.                                                  *)
UpToDate(p) ==
  \/ g.needsReload
  \/ /\ g.rows # None /\ g.rows.key = Key(g, p) /\ g.rows.version = refs[p]
     /\ ~g.error /\ ~g.inFlight
  \/ \E b \in g.builds : b.gen = g.gen /\ b.key = Key(g, p) /\ b.read \in {0, refs[p]}

PollTree ==
  /\ active # None /\ ~UpToDate(active)
  /\ Loads(RefreshTree(g, active))
  /\ UNCHANGED <<refs, listVars, active, posted, countVars>>

(* Where the selection may be after the rows became S: where it was, by    *)
(* identity, or on another row.                                            *)
Reanchored(sel, S) == IF sel \in S THEN {sel} ELSE IF S = {} THEN {None} ELSE S

(* What DiscoverNewRepos does when it finds other rows than those given:   *)
(* rows leave and enter, the cache forgets those that left, and so does    *)
(* the panel.                                                              *)
Discovers(rows, sel, versions, act, h) ==
  /\ changes < MaxChanges /\ changes' = changes + 1
  /\ \E S \in SUBSET Repos :
       LET gone == rows \ S
           t    == Forget(h, {k \in Keys : k.path \in gone})
       IN
       /\ S # rows /\ (S \ rows) \cup gone \subseteq Removable
       /\ listed' = S
       /\ selected' \in Reanchored(sel, S)
       /\ known' = [r \in Repos |-> IF r \in S \cap rows THEN versions[r] ELSE 0]
       /\ active' = IF act # None /\ Parent[act] \in gone THEN None ELSE act
       /\ Loads(Synced(t, selected', active'))

(* The roots changed, or another pane added or removed a repository.       *)
DiscoverNewRepos ==
  /\ Discovers(listed, selected, known, active, g)
  /\ UNCHANGED <<refs, posted, commands, failures>>

(* RescanRepos: the list is rebuilt and the whole cache dropped.           *)
Rescan ==
  /\ posted = None /\ commands < MaxCommands
  /\ \E S \in SUBSET Repos :
       /\ (S \ listed) \cup (listed \ S) \subseteq Removable
       /\ listed' = S
       /\ selected' \in Reanchored(selected, S)
  /\ known' = [r \in Repos |-> 0]
  /\ Loads(Synced(Forget(g, Keys), selected', active))
  /\ commands' = commands + 1
  /\ UNCHANGED <<refs, active, posted, changes, failures>>

-----------------------------------------------------------------------------
(* The user.  An event is only taken from its channel when the channel of  *)
(* actions is empty, so what an event posts is handled before the next     *)
(* event; results of background tasks may come first.                      *)

Command(t) ==
  /\ posted = None /\ commands < MaxCommands
  /\ commands' = commands + 1
  /\ Loads(t)
  /\ UNCHANGED <<refs, listVars, active, posted, changes, failures>>

Acts ==
  /\ posted = None /\ commands < MaxCommands
  /\ commands' = commands + 1
  /\ UNCHANGED <<refs, posted, failures>>

Posts(p) ==
  /\ posted = None /\ commands < MaxCommands
  /\ commands' = commands + 1
  /\ posted' = p
  /\ UNCHANGED <<refs, failures>>

RowOf(p) == IF p \in Repos THEN p ELSE Parent[p]

(* The cursor moves at once; the panel follows by an action.               *)
Cursor(p) ==
  /\ RowOf(p) \in listed
  /\ selected' = RowOf(p)
  /\ Posts(p) /\ Turns(g)
  /\ UNCHANGED <<listed, known, active, changes>>

(* A repository that is listed already is only selected.  The handlers of  *)
(* this and the next action end in DiscoverNewRepos, which mostly finds    *)
(* nothing new.                                                            *)
AddRepo(r) ==
  LET rows == listed \cup {r}
      sel  == IF selected = None THEN r ELSE selected
  IN
  /\ Posts(r)
  /\ \/ /\ listed' = rows /\ selected' = sel
        /\ Turns(g)
        /\ UNCHANGED <<known, active, changes>>
     \/ Discovers(rows, sel, known, active, g)

(* The selection after the removal; the panel is left to the SelectRepo    *)
(* posted for it, and alone when the list is empty.                        *)
AfterRemoval(r, sel) ==
  LET rest == listed \ {r} IN
  IF rest = {} THEN sel = None /\ Acts ELSE sel \in rest /\ Posts(sel)

(* A tree outside the directory of its repository stays active.            *)
RemoveRepo(r) ==
  LET rest == listed \ {r}
      ver  == [known EXCEPT ![r] = 0]
      t    == Invalidate(g, r)
  IN
  /\ r \in listed \cap Removable
  /\ \E sel \in Repos \cup {None}, act \in {active, None} :
       /\ AfterRemoval(r, sel)
       /\ act # active => Parent[active] = r
       /\ \/ /\ listed' = rest /\ selected' = sel /\ known' = ver /\ active' = act
             /\ Turns(t)
             /\ UNCHANGED changes
          \/ Discovers(rest, sel, ver, act, t)

(* The panel forgets a tree that is being removed, and keeps its rows.     *)
RemoveWorktree ==
  /\ posted = None /\ active # None /\ commands < MaxCommands
  /\ active' = None /\ commands' = commands + 1
  /\ Turns(g)
  /\ UNCHANGED <<refs, listVars, posted, changes, failures>>

(* SelectRepo, FocusRepoDetails.                                           *)
SelectRepo ==
  LET r == posted IN
  /\ posted # None /\ r \in Repos
  /\ posted' = None
  /\ active' = None
  /\ selected' = IF r \in listed THEN r ELSE selected
  /\ IF r \in listed THEN Loads(LoadRepo(g, r)) ELSE Turns(g)
  /\ UNCHANGED <<refs, listed, known, countVars>>

(* SelectWorktree; SelectSubmodule does nothing without its repository.    *)
SelectTree ==
  LET p == posted IN
  /\ posted # None /\ p \in Trees
  /\ posted' = None
  /\ \/ active' = p /\ Loads(LoadRepo(g, p))
     \/ Parent[p] \notin listed /\ active' = active /\ Turns(g)
  /\ UNCHANGED <<refs, listVars, countVars>>

CycleSortOrder == Command(Synced(g, selected, active))

(* `g': from disk, even if nothing changed.                                *)
ShowGitGraph ==
  Command(IF active # None THEN RefreshTree(g, active)
          ELSE IF selected # None THEN ForceReload(g, selected) ELSE g)

(* set_filters, set_first_parent; ResetGraphFilters is one after the other. *)
SetOptions(o) ==
  LET t == [g EXCEPT !.options = o] IN
  /\ o # g.options
  /\ Command(IF g.repo # None THEN LoadRepo(t, g.repo) ELSE t)

(* The files of the commit under the cursor have been read.                *)
OpenDetail ==
  /\ g.rows # None /\ ~g.detail /\ commands < MaxCommands
  /\ commands' = commands + 1
  /\ Turns([g EXCEPT !.detail = TRUE])
  /\ UNCHANGED <<refs, listVars, active, posted, changes, failures>>

(* Mutation: the reload that waited for the detail is not started.         *)
MutantCloseDetail ==
  /\ g.detail /\ posted = None
  /\ Turns([g EXCEPT !.detail = FALSE])
  /\ UNCHANGED <<refs, listVars, active, posted, countVars>>

(* Escape, or a click on another commit.                                   *)
CloseDetail ==
  /\ g.detail /\ posted = None
  /\ Turns(ReloadPending([g EXCEPT !.detail = FALSE]))
  /\ UNCHANGED <<refs, listVars, active, posted, countVars>>

-----------------------------------------------------------------------------
(* Builds.                                                                 *)

(* What a build of another generation reads does not matter.               *)
BuildReads(b) ==
  /\ b.read = 0 /\ b.gen = g.gen
  /\ g' = [g EXCEPT !.builds = (@ \ {b}) \cup {[b EXCEPT !.read = refs[b.key.path]]}]
  /\ UNCHANGED <<refs, listVars, active, posted, dropped, asked, countVars>>

(* Mutation: any report is taken, whatever its generation.                 *)
MutantReport(b, t) ==
  /\ Turns(t)
  /\ UNCHANGED <<refs, listVars, active, posted, changes, commands>>

(* A report of another generation is ignored.                              *)
Report(b, t) ==
  /\ Turns(IF b.gen = g.gen THEN t ELSE [g EXCEPT !.builds = @ \ {b}])
  /\ UNCHANGED <<refs, listVars, active, posted, changes, commands>>

Done(b) == [g EXCEPT !.builds = @ \ {b}]

GraphLoaded(b) ==
  /\ b.read > 0 \/ b.gen # g.gen
  /\ Report(b, SetRows(Done(b), [key |-> b.key, version |-> b.read]))
  /\ UNCHANGED failures

BuildFails(b) ==
  /\ failures < MaxFailures
  /\ failures' = failures + 1
  /\ Report(b, SetError(Done(b))) \/ Report(b, AbortLoad(Done(b)))

Builds == \E b \in g.builds : BuildReads(b) \/ GraphLoaded(b) \/ BuildFails(b)

User ==
  \/ \E p \in Paths : Cursor(p)
  \/ \E r \in Repos : AddRepo(r) \/ RemoveRepo(r)
  \/ \E o \in Options : SetOptions(o)
  \/ RemoveWorktree \/ CycleSortOrder \/ Rescan
  \/ ShowGitGraph \/ OpenDetail \/ CloseDetail

Next ==
  \/ \E p \in Paths : RefsMove(p)
  \/ \E r \in Repos : \E v \in known[r]..refs[r] : StatusUpdated(r, v)
  \/ SelectRepo \/ SelectTree
  \/ PollTree \/ DiscoverNewRepos
  \/ User \/ Builds

(* Builds end, a status query reports what is on disk, and the local poll  *)
(* comes again.                                                            *)
Fairness ==
  /\ WF_vars(\E b \in g.builds : BuildReads(b) \/ GraphLoaded(b))
  /\ \A r \in Repos : WF_vars(StatusUpdated(r, refs[r]))
  /\ WF_vars(SelectRepo \/ SelectTree)
  /\ WF_vars(PollTree)

Spec == Init /\ [][Next]_vars
FairSpec == Spec /\ Fairness

-----------------------------------------------------------------------------
(* Safety.                                                                 *)

TypeOK ==
  /\ refs \in [Paths -> Nat] /\ known \in [Repos -> Nat]
  /\ listed \subseteq Repos /\ selected \in listed \cup {None}
  /\ active \in Trees \cup {None} /\ posted \in Paths \cup {None}
  /\ g \in Graph /\ Len(g.used) <= Capacity
  /\ \A k \in Keys : (g.cache[k] # None) = (\E i \in DOMAIN g.used : g.used[i] = k)
  /\ dropped \subseteq Keys /\ asked \in Nat
  /\ changes \in Nat /\ commands \in Nat /\ failures \in Nat

Current == {b \in g.builds : b.gen = g.gen}

(* The latch load_in_flight is set exactly while one build of the current  *)
(* generation is still to report, and that build is the one in_flight_key  *)
(* describes, for the repository of the panel.  A latch without a build    *)
(* would freeze the panel ("Loading graph..." or old rows) until the user  *)
(* turns to another repository.                                            *)
(* A remembered reload always has something that will start it: the build  *)
(* in flight, or the open detail that has to be closed.                    *)
LatchIsBuild ==
  /\ IF g.inFlight
     THEN \E b \in Current : Current = {b} /\ g.key = b.key /\ b.key.path = g.repo
     ELSE Current = {} /\ g.key = None /\ ~g.loading
  /\ g.needsReload => g.inFlight \/ g.detail

(* The panel never shows the graph of another repository, shows rows of    *)
(* other filters only until the reload it is waiting for (or after a build *)
(* that failed), and no cache entry holds rows of another key -- although  *)
(* the filters may be edited while a build runs.                           *)
RowsAreOfKey ==
  /\ g.rows # None =>
       /\ g.rows.key.path = g.repo
       /\ \/ g.rows.key.options = g.options
          \/ g.inFlight \/ g.error \/ g.aborts > 0
  /\ \A k \in Keys : g.cache[k] # None => g.cache[k].key = k

(* Each request to load starts at most one build or cache lookup, now or   *)
(* later: remembered reloads, edited filters and aborts never feed on      *)
(* themselves.                                                             *)
NoReplay == g.gen <= asked

(* A graph of the selected repository at rest is not older than the status *)
(* in its row, unless builds failed, or a cached graph came back that was  *)
(* finished or given up while the panel turned away.                       *)
AtRest(r) ==
  /\ posted = None /\ selected = r /\ active = None /\ g.repo = r /\ g.rows # None
  /\ ~g.inFlight /\ ~g.needsReload /\ ~g.error /\ g.aborts = 0

RestIsKnown ==
  \A r \in listed : AtRest(r) => g.rows.version >= known[r] \/ Key(g, r) \in dropped

(* "A graph-relevant change invalidates the cached snapshot even when this *)
(* repo isn't selected, so switching to it later rebuilds from disk        *)
(* instead of resurrecting stale rows" (app/actions.rs): a graph at rest   *)
(* is never older than the status in its row.                              *)
NeverResurrected ==
  \A r \in listed : AtRest(r) => g.rows.version >= known[r]

(* "Drop stale errors so a failed build from a previous repo/generation    *)
(* can't clobber the current graph" (app/actions_extra.rs): the report of  *)
(* a build for another repository changes neither rows nor error.          *)
StaleReportsDropped ==
  [][\A b \in g.builds \ g'.builds :
       b.read > 0 /\ b.key.path # g.repo => g'.rows = g.rows /\ g'.error = g.error]_vars

-----------------------------------------------------------------------------
(* Liveness, of FairSpec.                                                  *)

ShowsDisk(p) ==
  /\ g.rows = [key |-> [path |-> p, options |-> g.options], version |-> refs[p]]
  /\ ~g.error

(* A repository that stays selected ends up with the graph of the disk and *)
(* of the filters of now, unless the last builds failed, a commit detail   *)
(* stays open, a filter came back whose reload had been given up, or the   *)
(* rows are those of a worktree removed under the panel.                   *)
SelectedShowsDisk ==
  \A r \in Repos :
    [](selected = r /\ active = None) =>
      <>[](\/ ShowsDisk(r) \/ g.error \/ g.aborts > 0 \/ g.detail
            \/ Key(g, r) \in dropped \/ g.repo \in Trees)

(* The active worktree or submodule is refreshed by every poll: it ends up *)
(* with the graph of the disk whatever failed or was given up before.      *)
TreeShowsDisk ==
  \A p \in Trees : <>[](active = p) => <>[](ShowsDisk(p) \/ g.detail)
=============================================================================
