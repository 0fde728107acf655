------------------------------ MODULE RepoRows ------------------------------
(***************************************************************************)
(* The list of repositories (src/components/repo_list, App::sort_repos and *)
(* the arms of app/repo_admin.rs that change the list): the repositories   *)
(* in their order, the rows that are displayed for them and for their      *)
(* expanded worktrees and stashes, and the selected row, which every       *)
(* change of the list must keep on what the user chose.                    *)
(*                                                                         *)
(* Abstractions.  A repository's label is its rank; labels differ even in  *)
(* lower case.  A status is what the rows show of it.  An event, the       *)
(* actions it sends and the frame drawn after them are one step.  The      *)
(* scrolling of the list is left out: the pointer is over a drawn row.     *)
(***************************************************************************)
EXTENDS Integers, FiniteSets, SequencesExt, Panels

CONSTANTS
  Listed,      \* repositories that may be listed
  Rank,        \* Rank[r]: the place of r's label among all labels
  Found,       \* Found[r]: its place among what discover_repos returns, by file name
  Outer,      \* Outer[r]: the listed repositories r's path is strictly inside of
  Gitlink,     \* repositories whose .git is a file: submodules, linked worktrees
  Reported,    \* Reported[r]: the statuses a query of r may report
  Startups     \* sets of repositories discovered at startup

Orders == <<"alphabetical", "reverse", "dirty">>

Statuses == [dirty : BOOLEAN, worktrees : Nat, stashes : Nat]
RowKinds == {"repo", "worktree", "stash"}

\* Paths are nested like directories, and labels differ.
RowsBounds ==
  /\ IsFiniteSet(Listed) /\ Gitlink \subseteq Listed /\ Startups \subseteq SUBSET Listed
  /\ Rank \in [Listed -> Nat] /\ \A r, o \in Listed : Rank[r] = Rank[o] => r = o
  /\ Found \in [Listed -> Nat] /\ \A r, o \in Listed : Found[r] = Found[o] => r = o
  /\ Outer \in [Listed -> SUBSET Listed]
  /\ \A r \in Listed : r \notin Outer[r] /\ \A o \in Outer[r] : Outer[o] \subseteq Outer[r]
  /\ \A r \in Listed : \A o, q \in Outer[r] : o = q \/ o \in Outer[q] \/ q \in Outer[o]
  /\ Reported \in [Listed -> SUBSET Statuses]
  /\ None \notin Nat \cup Listed \cup Statuses /\ None \notin {"click", "moved"}
  /\ None \notin [repo : Listed, kind : RowKinds, sub : Nat]

VARIABLES
  listing,     \* RepoList
  sortOrder,   \* sort_order
  missing,     \* a configured root does not exist
  strayed      \* the last step selected a row it should not have: "click", "moved" or None

rowVars == <<listing, sortOrder, missing, strayed>>

-----------------------------------------------------------------------------
(* RepoList: [repos, status, rows, at, byDefault, toggled, stashes], and   *)
(* sorted, a history: no row was removed since the last sort.              *)

\* Another list of repositories with the rows and the selection of before.
WithRepos(p, repos, status, toggled, stashes, sorted) ==
  [repos |-> repos, status |-> status, rows |-> p.rows, at |-> p.at, byDefault |-> p.byDefault,
   toggled |-> toggled, stashes |-> stashes, sorted |-> sorted]

\* worktrees_expanded.
WorktreesShown(p, r) == p.byDefault # (r \in p.toggled)

\* The rows of repository p.repos[i]: itself, its worktrees, its stashes.
RowsAt(p, i) ==
  LET r == p.repos[i]
      s == p.status[r]
      wts == IF s # None /\ WorktreesShown(p, r) THEN s.worktrees ELSE 0
      sts == IF s # None /\ r \in p.stashes THEN s.stashes ELSE 0
      row(kind, j) == [at |-> i, kind |-> kind, sub |-> j]
  IN <<row("repo", 0)>> \o [j \in 1..wts |-> row("worktree", j)] \o [j \in 1..sts |-> row("stash", j)]

\* rebuild_display_rows.
Rebuild(p) == [p EXCEPT !.rows = FlattenSeq([i \in DOMAIN p.repos |-> RowsAt(p, i)])]

\* selected_row_id: the repository and the place among its subrows.
RowId(p, n) == [repo |-> p.repos[p.rows[n].at], kind |-> p.rows[n].kind, sub |-> p.rows[n].sub]
SelectedId(p) == IF p.at = None \/ p.at \notin DOMAIN p.rows THEN None ELSE RowId(p, p.at)

\* The position of a row, 0 when it is not displayed.
Find(p, row) == LET at == {n \in DOMAIN p.rows : p.rows[n] = row} IN IF at = {} THEN 0 ELSE Min(at)

\* select_repo_row, which leaves the selection when there is no such row.
SelectRepoRow(p, i) ==
  LET n == Find(p, [at |-> i, kind |-> "repo", sub |-> 0]) IN IF n = 0 THEN p ELSE [p EXCEPT !.at = n]

\* resolve_index, 0 when it is not listed.
IndexOf(p, r) == IF r \in Range(p.repos) THEN CHOOSE i \in DOMAIN p.repos : p.repos[i] = r ELSE 0

\* As if the rows were rebuilt under a selection kept by its place.
MutantResync(p, keep) == Rebuild(p)

\* resync_rows: the row, else its repository, else the first one.
Resync(p, keep) ==
  LET q == Rebuild(p)
      i == IF keep = None THEN 0 ELSE IndexOf(q, keep.repo)
      n == IF i = 0 THEN 0 ELSE Find(q, [at |-> i, kind |-> keep.kind, sub |-> keep.sub])
  IN IF q.rows = <<>> THEN [q EXCEPT !.at = None]
     ELSE IF n # 0 THEN [q EXCEPT !.at = n]
     ELSE IF i # 0 THEN SelectRepoRow(q, i)
     ELSE SelectRepoRow(q, 1)

\* RepoList::new: nothing expanded but by default, the first row selected.
Fresh(paths, byDefault) ==
  Rebuild([repos |-> paths, status |-> [r \in Listed |-> None], rows |-> <<>>,
           at |-> IF paths = <<>> THEN None ELSE 1, byDefault |-> byDefault, toggled |-> {}, stashes |-> {},
           sorted |-> FALSE])

\* Keys are ordered lexicographically.
Before(k, l) ==
  \E n \in DOMAIN k : k[n] < l[n] /\ \A m \in 1..(n - 1) : k[m] = l[m]

\* Repositories in the order of their keys, which differ.
Ordered(entries) ==
  [i \in 1..Cardinality(entries) |->
     (CHOOSE e \in entries : Cardinality({o \in entries : Before(o.key, e.key)}) = i - 1).repo]

\* discover_repos returns the repositories by name.
ByName(S) == Ordered({[repo |-> r, key |-> <<Found[r]>>] : r \in S})

\* sync_paths: what stays keeps its entry; nothing happens when the set is the same.
SyncPaths(p, S) ==
  IF Range(p.repos) = S THEN p
  ELSE Resync(WithRepos(p, ByName(S), [r \in Listed |-> IF r \in S THEN p.status[r] ELSE None],
                        p.toggled \cap S, p.stashes \cap S, p.sorted),
              SelectedId(p))

\* update_status.
UpdateStatus(p, r, s) == Resync([p EXCEPT !.status = [@ EXCEPT ![r] = s]], SelectedId(p))

-----------------------------------------------------------------------------
(* Sorting: a nested submodule stays in the group of its topmost parent.   *)

\* submodule_parent: the deepest of the repositories around a gitlink checkout.
Parents(repos, r) == IF r \in Gitlink THEN Outer[r] \cap repos ELSE {}
ParentOfRow(repos, r) == CHOOSE q \in Parents(repos, r) : \A o \in Parents(repos, r) : o = q \/ o \in Outer[q]

\* The entry a group is sorted by, reached along the parents.
Anchor(repos, r) ==
  LET climb[n \in 0..Cardinality(Listed)] ==
        IF n = 0 THEN r
        ELSE LET q == climb[n - 1] IN IF Parents(repos, q) = {} THEN q ELSE ParentOfRow(repos, q)
  IN climb[Cardinality(Listed)]

\* The key of a row, which compare orders lexicographically.
SortKey(p, r, order) ==
  LET a == Anchor(Range(p.repos), r)
      clean == p.status[a] = None \/ ~p.status[a].dirty
      way(x) == IF order = "reverse" THEN -x ELSE x
  IN <<IF order = "dirty" /\ clean THEN 1 ELSE 0, way(Rank[a]), IF r = a THEN 0 ELSE 1, way(Rank[r])>>

\* sort_repos.
Sort(p, order) ==
  Resync(WithRepos(p, Ordered({[repo |-> r, key |-> SortKey(p, r, order)] : r \in Range(p.repos)}),
                   p.status, p.toggled, p.stashes, TRUE),
         SelectedId(p))

-----------------------------------------------------------------------------
(* Expanding.                                                              *)

\* snapshot_selection .. restore_selection around a rebuild: the same row, else its repository.
Restored(p, q) ==
  IF SelectedId(p) = None THEN q
  ELSE LET n == Find(q, p.rows[p.at]) IN IF n # 0 THEN [q EXCEPT !.at = n] ELSE SelectRepoRow(q, p.rows[p.at].at)

\* set_worktrees_expanded.
ShowWorktrees(p, r, shown) ==
  Rebuild([p EXCEPT !.toggled = IF shown = p.byDefault THEN @ \ {r} ELSE @ \cup {r}])

SelectedRepo(p) == IF SelectedId(p) = None THEN None ELSE SelectedId(p).repo

\* toggle_expand: a repository with worktrees; collapsing selects its row.
ToggleExpand(p) ==
  LET r == SelectedRepo(p)
  IN IF r = None \/ p.status[r] = None \/ p.status[r].worktrees = 0 THEN p
     ELSE IF WorktreesShown(p, r) THEN SelectRepoRow(ShowWorktrees(p, r, FALSE), IndexOf(p, r))
     ELSE Restored(p, ShowWorktrees(p, r, TRUE))

\* toggle_stash_expand.
ToggleStashes(p) ==
  LET r == SelectedRepo(p)
  IN IF r = None \/ p.status[r] = None \/ p.status[r].stashes = 0 THEN p
     ELSE IF r \in p.stashes THEN SelectRepoRow(Rebuild([p EXCEPT !.stashes = @ \ {r}]), IndexOf(p, r))
     ELSE Restored(p, Rebuild([p EXCEPT !.stashes = @ \cup {r}]))

\* expand_repo.
Expand(p, r) == IF WorktreesShown(p, r) THEN p ELSE Restored(p, ShowWorktrees(p, r, TRUE))

-----------------------------------------------------------------------------
(* The actions.                                                            *)

RowsInit ==
  /\ \E S \in Startups, d \in BOOLEAN : listing = SelectRepoRow(Sort(Fresh(ByName(S), d), "alphabetical"), 1)
  /\ sortOrder = 1 /\ missing \in BOOLEAN /\ strayed = None

Put(p) == listing' = p /\ UNCHANGED <<sortOrder, missing>>
Still == strayed' = None

\* What happens behind the user's back keeps the selection on its repository
\* while that is listed, and on its row unless `about' is its repository.
Behind(about) ==
  LET was == SelectedId(listing)
      is == SelectedId(listing')
      stays == was # None /\ was.repo \in Range(listing'.repos)
      kept == stays => is.repo = was.repo /\ (was.repo \notin about => is = was)
  IN strayed' = IF kept THEN None ELSE "moved"

\* RepoStatusUpdated.  The list is not sorted again.
RowStatusUpdated(r) ==
  /\ r \in Range(listing.repos)
  /\ \E s \in Reported[r] : Put(UpdateStatus(listing, r, s))
  /\ Behind({r})

\* j, k and the wheel: select_next, select_prev.
SelectNext(d) ==
  /\ listing.rows # <<>>
  /\ Put([listing EXCEPT !.at = IF @ = None THEN 1
                                ELSE IF d > 0 THEN Min({@ + 1, Len(listing.rows)}) ELSE Max({@ - 1, 1})])
  /\ Still

\* w and S.
KeyToggle == (Put(ToggleExpand(listing)) \/ Put(ToggleStashes(listing))) /\ Still

\* The row drawn under the pointer: the hint of a missing root takes the first
\* line of the panel, and the list is drawn one line lower.
Pointed(line) == IF missing THEN line - 1 ELSE line

\* The selected row is the one that was drawn there.
Aimed(n) ==
  strayed' = IF n \in DOMAIN listing.rows /\ SelectedId(listing') = RowId(listing, n) THEN None ELSE "click"

\* A left click on a content line.  On the selected repository's own row it
\* toggles the subtree whose indicator is hit, else the first there is.
LeftClick(line, on) ==
  /\ line \in DOMAIN listing.rows
  /\ LET r == listing.rows[line]
         s == listing.status[listing.repos[r.at]]
         own == listing.at = line /\ r.kind = "repo" /\ s # None
     IN Put(CASE own /\ on = "stash" /\ s.stashes > 0 -> ToggleStashes(listing)
              [] own /\ ~(on = "stash" /\ s.stashes > 0) /\ s.worktrees > 0 -> ToggleExpand(listing)
              [] own /\ on # "stash" /\ s.worktrees = 0 /\ s.stashes > 0 -> ToggleStashes(listing)
              [] OTHER -> [listing EXCEPT !.at = line])
  /\ Aimed(Pointed(line))

\* A right click selects the row and opens its menu.
RightClick(line) ==
  /\ line \in DOMAIN listing.rows
  /\ Put([listing EXCEPT !.at = line])
  /\ Aimed(Pointed(line))

\* CycleSortOrder.
CycleSortOrder ==
  /\ sortOrder' = (sortOrder % Len(Orders)) + 1
  /\ listing' = Sort(listing, Orders[sortOrder'])
  /\ UNCHANGED missing
  /\ Behind({})

\* DiscoverNewRepos: nothing happens unless the set on disk changed.
AfterDiscovery(p, S) == IF Range(p.repos) = S THEN p ELSE Sort(SyncPaths(p, S), Orders[sortOrder])
DiscoverNewRepos(S) == Put(AfterDiscovery(listing, S)) /\ Behind({})

\* RescanRepos: the list is built anew; only the selected row is carried over.
\* Which roots are missing is found out again.
RescanRows(S) ==
  /\ listing' = Resync(Sort(Fresh(ByName(S), listing.byDefault), Orders[sortOrder]), SelectedId(listing))
  /\ missing' \in BOOLEAN /\ UNCHANGED sortOrder
  /\ Behind(Listed)

\* AddRepo, with the discovery that follows a save and the SelectRepo it sends:
\* a repository that is listed already is selected.
AddRow(r) ==
  LET added == WithRepos(listing, Append(listing.repos, r), listing.status,
                         listing.toggled, listing.stashes, listing.sorted)
      p == IF r \in Range(listing.repos) THEN listing ELSE Sort(added, Orders[sortOrder])
  IN /\ \E S \in Startups \cup {Range(p.repos)} :
          LET q == AfterDiscovery(p, S) IN r \in S /\ Put(SelectRepoRow(q, IndexOf(q, r)))
     /\ Still

\* RemoveRepo: its neighbour is selected on the rows of before, the discovery
\* follows, and the SelectRepo that was sent and the frame come last.
RemoveRow(r) ==
  /\ r \in Range(listing.repos)
  /\ LET i == IndexOf(listing, r)
         p == WithRepos(listing, RemoveAt(listing.repos, i), [listing.status EXCEPT ![r] = None],
                        listing.toggled, listing.stashes, FALSE)
         n == Min({i, Len(p.repos)})
         left == IF p.repos = <<>> THEN [p EXCEPT !.at = None] ELSE SelectRepoRow(p, n)
         selects(q) == Rebuild(IF p.repos = <<>> THEN q ELSE SelectRepoRow(q, IndexOf(q, p.repos[n])))
     IN \E S \in Startups \cup {Range(p.repos)} : r \notin S /\ Put(selects(AfterDiscovery(left, S)))
  /\ Still

\* CreateWorktree shows the repository's worktrees.
CreateWorktree(r) == r \in Range(listing.repos) /\ Put(Expand(listing, r)) /\ Behind({})

RowsNext ==
  \/ \E r \in Listed : RowStatusUpdated(r) \/ AddRow(r) \/ RemoveRow(r) \/ CreateWorktree(r)
  \/ \E S \in Startups : DiscoverNewRepos(S) \/ RescanRows(S)
  \/ \E line \in DOMAIN listing.rows :
       RightClick(line) \/ \E on \in {"stash", "elsewhere"} : LeftClick(line, on)
  \/ SelectNext(1) \/ SelectNext(0) \/ KeyToggle \/ CycleSortOrder

RowsSpec == RowsInit /\ [][RowsNext]_rowVars

-----------------------------------------------------------------------------
RowsTypeOK ==
  /\ Range(listing.repos) \subseteq Listed
  /\ listing.byDefault \in BOOLEAN /\ listing.toggled \subseteq Listed /\ listing.stashes \subseteq Listed
  /\ sortOrder \in DOMAIN Orders /\ missing \in BOOLEAN /\ strayed \in {"click", "moved", None}

\* What is drawn is what is listed, and some row is selected whenever there is
\* one (RepoList::resync_rows).
RowsAreDrawn ==
  /\ listing = Rebuild(listing)
  /\ IF listing.rows = <<>> THEN listing.at = None ELSE listing.at \in DOMAIN listing.rows

\* Whatever the order and whatever is found or lost, the members of a group
\* follow their topmost parent, with nothing between (App::sort_repos).  The
\* removal of a parent makes other groups; they are formed by the next sort.
Grouped(repos) ==
  \A j \in DOMAIN repos :
    LET a == Anchor(Range(repos), repos[j])
    IN \E i \in 1..j : repos[i] = a /\ \A k \in i..j : Anchor(Range(repos), repos[k]) = a
GroupsStayTogether == listing.sorted => Grouped(listing.repos)

\* A click lands on the row under the pointer; the hint of a missing root breaks it.
ClicksLand == strayed = "click" => missing

\* A report, a sort, a rescan or a new worktree never moves the selection off
\* what the user chose (resync_rows, restore_selection; Behind).
SelectionStays == strayed # "moved"

\* The list as it is used: consistent, grouped, clickable and steady.
RowsHold == RowsAreDrawn /\ GroupsStayTogether /\ ClicksLand /\ SelectionStays
=============================================================================
