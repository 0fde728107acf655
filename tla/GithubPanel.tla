---------------------------- MODULE GithubPanel -----------------------------
(***************************************************************************)
(* The issues and pull requests of the selected repository: App's cache of *)
(* what `gh' answered, the debounced fetch that follows the selection, and *)
(* the panel that shows it (src/app/github.rs, github_panel.rs).           *)
(*                                                                         *)
(* Abstractions.  github_target() is the variable `target', which every    *)
(* change of the selection sets.  Time is whether the 60 s of a cooldown   *)
(* have passed.  Request numbers are unique, so a request is `live' while  *)
(* the snapshot that reserved it waits for it.  An item is a model value;  *)
(* which row is selected, scrolling and layout are left out.               *)
(***************************************************************************)
EXTENDS Integers, FiniteSets, Panels

CONSTANTS
  GhRepos,      \* repositories
  OnGithub,     \* those with a github.com remote
  Filters,      \* <<"open", "all", "closed">> or a prefix
  Items,        \* issues and pull requests
  MaxTouches    \* bound: keys, selections and changes of the list

VARIABLES
  gh,         \* gh is on PATH
  present,    \* repositories in the list
  target,     \* github_target()
  filter,     \* github_state_filter, a position in Filters
  forced,     \* github_forced
  settle,     \* the selection debounce of the newest github_select_gen runs
  ghCache,    \* github_cache
  panel,      \* GithubPanel
  calls,      \* gh processes under way
  touches

ghVars == <<gh, present, target, filter, forced, settle, ghCache, panel, calls, touches>>

FilterIds == DOMAIN Filters

ASSUME FiltersAssumption == \E n \in 1..3 : FilterIds = 1..n

EmptySnapshot == [loading |-> FALSE, fresh |-> FALSE, data |-> None, error |-> FALSE]

EmptyState == [origin |-> "unknown", probed |-> FALSE, snaps |-> [f \in FilterIds |-> EmptySnapshot]]

\* Rows carry the repository and filter they were fetched for, which the code
\* does not keep.
Rows(r, f, items) == [repo |-> r, filter |-> f, items |-> items]

-----------------------------------------------------------------------------
(* The panel.                                                              *)

Cleared(p) == [p EXCEPT !.rows = None, !.detail = None]

\* set_target.
SetTarget(p, r, f) ==
  LET q == IF p.repo # r \/ p.label # f THEN [Cleared(p) EXCEPT !.status = "Loading"] ELSE p
  IN [q EXCEPT !.repo = r, !.label = f]

\* refresh_github_panel, on a cache and for a target and filter.
RefreshPanel(p, cache, r, f) ==
  LET q == SetTarget(p, r, f)
      s == cache[r]
      snap == s.snaps[f]
  IN IF r = None THEN q
     ELSE IF ~gh THEN [Cleared(q) EXCEPT !.status = "Error"]
     ELSE IF s = None THEN [q EXCEPT !.status = "Loading"]
     ELSE IF s.origin = "none" THEN [Cleared(q) EXCEPT !.status = "NotGithub"]
     ELSE IF snap.error THEN [Cleared(q) EXCEPT !.status = "Error"]
     ELSE IF snap.data # None THEN [q EXCEPT !.status = "Ready", !.rows = snap.data]
     ELSE [q EXCEPT !.status = "Loading"]

OpenCount(r) ==
  IF r = None THEN 0
  ELSE IF ghCache[r] = None THEN 0
  ELSE LET d == ghCache[r].snaps[1].data IN IF d = None THEN 0 ELSE Cardinality(d.items)

ShowGithubPanel == IF forced = None THEN OpenCount(target) > 0 ELSE forced

-----------------------------------------------------------------------------
(* Requests.                                                               *)

\* The remote is looked up once, and again only after the cooldown when it
\* was not on github.com.
Probe(s, r, force) ==
  IF s.origin = "github" \/ (s.origin = "none" /\ s.probed /\ ~force) THEN s
  ELSE [s EXCEPT !.origin = IF r \in OnGithub THEN "github" ELSE "none", !.probed = TRUE]

MayFetch(s, f, force) ==
  /\ s.origin = "github"
  /\ ~s.snaps[f].loading
  /\ force \/ ~s.snaps[f].fresh

\* request_github: the new cache, and the new set of calls.
RequestGithub(cache, r, f, force) ==
  IF r = None \/ ~gh THEN [cache |-> cache, calls |-> calls]
  ELSE LET s == Probe(IF cache[r] = None THEN EmptyState ELSE cache[r], r, force) IN
       IF MayFetch(s, f, force)
       THEN [cache |-> [cache EXCEPT ![r] = [s EXCEPT !.snaps[f].loading = TRUE]],
             calls |-> calls \cup {[repo |-> r, filter |-> f, live |-> TRUE]}]
       ELSE [cache |-> [cache EXCEPT ![r] = s], calls |-> calls]

RequestAndRefresh(f, force) ==
  LET q == RequestGithub(ghCache, target, f, force) IN
  /\ ghCache' = q.cache /\ calls' = q.calls
  /\ panel' = RefreshPanel(panel, q.cache, target, f)

\* prune_github_cache: what a removed repository asked for is nobody's.
Pruned(r) == [ghCache EXCEPT ![r] = None]
Orphaned(r) == {[c EXCEPT !.live = c.live /\ c.repo # r] : c \in calls}

-----------------------------------------------------------------------------
(* Actions.                                                                *)

Touch == touches < MaxTouches /\ touches' = touches + 1

\* github_touch_selection.
TouchSelection(r) ==
  /\ target' = r /\ filter' = 1 /\ forced' = None /\ settle' = TRUE
  /\ panel' = SetTarget(panel, r, 1)

\* SelectRepo, SelectWorktree, SelectSubmodule, or a sort or discovery that
\* syncs the selection, perhaps onto the same repository.
Retarget ==
  /\ Touch
  /\ \E r \in present : TouchSelection(r)
  /\ UNCHANGED <<gh, present, ghCache, calls>>

AddRepository ==
  /\ Touch
  /\ \E r \in GhRepos \ present : present' = present \cup {r} /\ TouchSelection(r)
  /\ UNCHANGED <<gh, ghCache, calls>>

\* RemoveRepo (another row is selected) or a discovery that drops a row.  The
\* last row leaves no target, and RemoveRepo does not tell the panel.
RemoveRepository ==
  /\ Touch
  /\ \E r \in present :
       /\ present' = present \ {r}
       /\ ghCache' = Pruned(r) /\ calls' = Orphaned(r)
       /\ IF present' # {} THEN \E t \in present' : (target # r => t = target) /\ TouchSelection(t)
          ELSE \/ TouchSelection(None)
               \/ target' = None /\ UNCHANGED <<filter, forced, settle, panel>>
  /\ UNCHANGED gh

\* `c' in the panel.
CycleFilter ==
  /\ Touch
  /\ filter' = (filter % Cardinality(FilterIds)) + 1
  /\ RequestAndRefresh(filter', TRUE)
  /\ UNCHANGED <<gh, present, target, forced, settle>>

\* `p'.
TogglePanel ==
  /\ Touch
  /\ forced' = ~ShowGithubPanel
  /\ IF forced' THEN RequestAndRefresh(filter, TRUE) ELSE UNCHANGED <<ghCache, calls, panel>>
  /\ UNCHANGED <<gh, present, target, filter, settle>>

\* Enter or a click on a row; close_detail.
OpenItem ==
  /\ Touch
  /\ panel.rows # None /\ \E i \in panel.rows.items : panel' = [panel EXCEPT !.detail = [item |-> i, loading |-> TRUE]]
  /\ UNCHANGED <<gh, present, target, filter, forced, settle, ghCache, calls>>

CloseItem ==
  /\ Touch
  /\ panel.detail # None /\ panel' = [panel EXCEPT !.detail = None]
  /\ UNCHANGED <<gh, present, target, filter, forced, settle, ghCache, calls>>

\* GithubItemLoaded, of the newest request: others are dropped.
ItemLoaded ==
  /\ panel.detail # None
  /\ panel.detail.loading
  /\ panel' = [panel EXCEPT !.detail.loading = FALSE]
  /\ UNCHANGED <<gh, present, target, filter, forced, settle, ghCache, calls, touches>>

SelectionSettled ==
  /\ settle /\ settle' = FALSE
  /\ RequestAndRefresh(filter, FALSE)
  /\ UNCHANGED <<gh, present, target, filter, forced, touches>>

\* complete_request on the snapshot that waits for this call.
MutantComplete(s, f, items) ==
  IF items = None THEN s
  ELSE [s EXCEPT !.snaps[f] = [loading |-> FALSE, fresh |-> TRUE, data |-> items, error |-> FALSE]]

Complete(s, f, items) ==
  [s EXCEPT !.snaps[f] =
     [loading |-> FALSE, fresh |-> TRUE, error |-> items = None, data |-> IF items = None THEN @.data ELSE items]]

MutantFetched(c) ==
  /\ c \in calls /\ calls' = calls \ {c}
  /\ \E items \in {Rows(c.repo, c.filter, S) : S \in SUBSET Items} \cup {None} :
       ghCache' = IF c.live THEN [ghCache EXCEPT ![c.repo] = Complete(@, filter, items)] ELSE ghCache
  /\ panel' = IF c.repo = target THEN RefreshPanel(panel, ghCache', target, filter) ELSE panel
  /\ UNCHANGED <<gh, present, target, filter, forced, settle, touches>>

\* GitHubFetched; None is a failure.
Fetched(c) ==
  /\ c \in calls /\ calls' = calls \ {c}
  /\ \E items \in {Rows(c.repo, c.filter, S) : S \in SUBSET Items} \cup {None} :
       ghCache' = IF c.live THEN [ghCache EXCEPT ![c.repo] = Complete(@, c.filter, items)] ELSE ghCache
  /\ panel' = IF c.repo = target THEN RefreshPanel(panel, ghCache', target, filter) ELSE panel
  /\ UNCHANGED <<gh, present, target, filter, forced, settle, touches>>

\* The cooldown of a snapshot and of a remote that was not github.com pass.
Lapsed(s) == [s EXCEPT !.probed = FALSE, !.snaps = [f \in FilterIds |-> [@[f] EXCEPT !.fresh = FALSE]]]

Cooled(r) ==
  /\ ghCache[r] # None
  /\ ghCache' = [ghCache EXCEPT ![r] = Lapsed(@)]
  /\ ghCache' # ghCache
  /\ UNCHANGED <<gh, present, target, filter, forced, settle, panel, calls, touches>>

-----------------------------------------------------------------------------
GhInit ==
  /\ gh \in BOOLEAN
  /\ present = GhRepos /\ target \in GhRepos
  /\ filter = 1 /\ forced = None /\ settle = TRUE
  /\ ghCache = [r \in GhRepos |-> None] /\ calls = {}
  /\ panel = [repo |-> target, label |-> 1, rows |-> None, detail |-> None, status |-> "Loading"]
  /\ touches = 0

GhNext ==
  \/ Retarget \/ AddRepository \/ RemoveRepository \/ CycleFilter \/ TogglePanel \/ OpenItem \/ CloseItem
  \/ ItemLoaded \/ SelectionSettled
  \/ \E c \in calls : Fetched(c)
  \/ \E r \in GhRepos : Cooled(r)

\* Timers fire and gh processes end.
GhFairness == WF_ghVars(SelectionSettled) /\ WF_ghVars(\E c \in calls : Fetched(c)) /\ WF_ghVars(ItemLoaded)

GhSpec == GhInit /\ [][GhNext]_ghVars /\ GhFairness

-----------------------------------------------------------------------------
(* Properties.                                                             *)

SnapshotOK(s) ==
  /\ s.loading \in BOOLEAN /\ s.fresh \in BOOLEAN /\ s.error \in BOOLEAN
  /\ s.data = None \/ s.data \in [repo : GhRepos, filter : FilterIds, items : SUBSET Items]

GhTypeOK ==
  /\ present \subseteq GhRepos /\ target \in GhRepos \cup {None} /\ filter \in FilterIds
  /\ forced \in BOOLEAN \cup {None} /\ settle \in BOOLEAN
  /\ \A r \in GhRepos : ghCache[r] = None \/ \A f \in FilterIds : SnapshotOK(ghCache[r].snaps[f])
  /\ calls \subseteq [repo : GhRepos, filter : FilterIds, live : BOOLEAN]
  /\ panel.status \in {"Loading", "Ready", "NotGithub", "Error"}

\* What the panel lists was fetched for the repository and the filter in its
\* title, and while a repository is selected it is that one: answers that come
\* late, for another filter, or for a repository removed and added again,
\* never show under it.
RowsAreOfTarget ==
  /\ panel.rows # None => panel.rows.repo = panel.repo /\ panel.rows.filter = panel.label
  /\ target # None => panel.repo = target /\ panel.label = filter

\* "Loading" always ends while a repository is selected: refreshes, filters
\* and failures never leave a request reserved that nobody answers.
LoadingEnds == (panel.status = "Loading" /\ target # None) ~> (panel.status # "Loading" \/ target = None)
=============================================================================
