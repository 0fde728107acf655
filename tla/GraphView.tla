------------------------------ MODULE GraphView ------------------------------
(***************************************************************************)
(* The commit graph as it is drawn (src/git/graph, git/graph_render.rs and *)
(* the view half of components/git_graph): the refs and filters choose the *)
(* commits, the builder gives every commit a lane, side branches fold into *)
(* placeholders, and one commit stays selected.  The filter picker         *)
(* (components/graph_menu/filter_picker.rs) edits the filters, and the     *)
(* bridge answers the same graph (src/bridge/graph.rs).                    *)
(*                                                                         *)
(* Abstractions.  Commits are numbered by time and a child is newer than   *)
(* its parents; HEAD stays on its branch.  A build reads the repository in *)
(* one step: what happens to a build before it lands is in GraphLoader.  A *)
(* search is for an author.  The picker's cursor, colours, messages and    *)
(* statistics are left out.                                                *)
(***************************************************************************)
EXTENDS Integers, FiniteSets, SequencesExt, Panels

CONSTANTS
  Names,       \* names of refs
  RefKind,     \* RefKind[n]: "local", "remote", "tag" or "stash"
  Upstream,    \* Upstream[n]: the remote branch the local branch n tracks, or None
  Collects,    \* graph.branches of the configuration: the kinds of branches it collects
  HeadRef,     \* the branch HEAD is on
  AuthorOf,    \* AuthorOf[c]: who wrote commit c
  Histories,   \* the initial repositories: [parents, refs, keys]
  MaxCommits,  \* bound: commits of a repository
  MaxRows      \* MAX_COMMITS: rows of a build

AllCommits == 1..MaxCommits
Authors == {AuthorOf[c] : c \in AllCommits}
Kinds == {"local", "remote", "tag", "stash"}

\* GraphFilters, and what a build was made of.
Filters == [branches : (SUBSET Names) \cup {None}, authors : (SUBSET Authors) \cup {None}, kinds : SUBSET Kinds, first : BOOLEAN]
Revisions == [head : Nat, labels : SUBSET (Nat \X Names \X Names)]
Builds == [filters : Filters, revision : Revisions]

ASSUME RefsAssumption ==
  /\ RefKind \in [Names -> Kinds] /\ Upstream \in [Names -> Names \cup {None}] /\ Collects \subseteq Kinds
  /\ HeadRef \in Names /\ DOMAIN AuthorOf = AllCommits
  /\ MaxCommits \in Nat /\ MaxRows \in Nat \ {0}
  /\ None \notin Builds

\* A child is newer than its parents, a ref is at a commit or missing.
ASSUME HistoriesAssumption ==
  \A h \in Histories :
    /\ h.parents \in Seq(Seq(AllCommits)) /\ Len(h.parents) \in AllCommits
    /\ \A c \in DOMAIN h.parents : \A i \in DOMAIN h.parents[c] : h.parents[c][i] < c
    /\ h.refs \in [Names -> 0..Len(h.parents)]
    /\ h.keys \in Nat

VARIABLES
  parents,     \* parents[c]: the parents of commit c
  refs,        \* refs[n]: the commit the ref n is at, 0 when there is no such ref
  view,        \* GitGraph
  picker,      \* GraphFilterPicker while it is visible: [filters, branches, authors]
  jumped,      \* history: a load, a statistic or a fold moved the selection off a commit it shows
  keysLeft     \* bound: what the user still does, in the panel and in the repository

viewVars == <<parents, refs, view, picker, jumped, keysLeft>>

\* GraphFilters::default() and the first-parent option.
NoFilters == [branches |-> None, authors |-> None, kinds |-> Kinds, first |-> FALSE]

-----------------------------------------------------------------------------
(* The refs a build labels commits with.                                   *)

\* The remote branches that stand under the name of the one local branch
\* tracking them, when both kinds are collected.
LocalOf(n) ==
  LET tracking == {m \in Names : RefKind[m] = "local" /\ refs[m] # 0 /\ Upstream[m] = n}
  IN IF Collects = {"local", "remote"} /\ Cardinality(tracking) = 1
     THEN CHOOSE m \in tracking : TRUE ELSE n

Catalog(n) == IF RefKind[n] = "remote" THEN LocalOf(n) ELSE n

\* The branches of the configured kinds.
BranchLabels == {n \in Names : refs[n] # 0 /\ RefKind[n] \in Collects}

\* The tags, unless the configuration collects no branches at all.
TagLabels == {n \in Names : refs[n] # 0 /\ RefKind[n] = "tag" /\ Collects # {}}

\* A stash labels the commit it was made on.
StashLabels == {n \in Names : refs[n] # 0 /\ RefKind[n] = "stash"}

Labels == BranchLabels \cup TagLabels \cup StashLabels

\* GraphBuilder::branch_names: what the picker offers.
BranchNames == {Catalog(n) : n \in BranchLabels}

\* GraphBuilder::revision_scoped: what the extension polls instead of the graph.
Revision == [head |-> refs[HeadRef], labels |-> {<<refs[n], n, Catalog(n)>> : n \in Labels}]

-----------------------------------------------------------------------------
(* Sequences.                                                              *)

\* The least number of S, 0 when there is none.
FirstOf(S) == IF S = {} THEN 0 ELSE Min(S)

\* The numbers of S up to n, in order.
InOrder(S, n) ==
  LET upTo[i \in 0..n] ==
        IF i = 0 THEN <<>> ELSE IF i \in S THEN Append(upTo[i - 1], i) ELSE upTo[i - 1]
  IN upTo[n]

\* The elements of seq at the places of S.
Sieve(seq, S) ==
  LET places == InOrder(S, Len(seq)) IN [k \in DOMAIN places |-> seq[places[k]]]

Extended(S, c, next) == IF c \in S THEN S \cup next[c] ELSE S

\* S and all that it leads to, next[c] being where c leads, in an order of the
\* walk in which nothing leads back.
Spread(S, order, next) ==
  LET after[n \in 0..Len(order)] == IF n = 0 THEN S ELSE Extended(after[n - 1], order[n], next)
  IN after[Len(order)]

Put(seq, i, x) == IF i <= Len(seq) THEN [seq EXCEPT ![i] = x] ELSE Append(seq, x)

-----------------------------------------------------------------------------
(* The commits of a build and their lanes.                                 *)

\* The roots of the walk: the selected branches, else HEAD and what is labelled.
Roots(f, revision) ==
  LET included == {l \in revision.labels : RefKind[l[2]] \in f.kinds}
  IN IF f.branches # None
     THEN {l[1] : l \in {m \in included : RefKind[m[2]] \in Collects /\ m[3] \in f.branches}}
     ELSE {l[1] : l \in included} \cup (IF "local" \in f.kinds THEN {revision.head} \ {0} ELSE {})

Followed(c, first) == IF first THEN {parents[c][i] : i \in DOMAIN parents[c] \cap {1}} ELSE ToSet(parents[c])

\* What the walk reaches, from the newest commit on.
Reached(roots, first) ==
  Spread(roots, [i \in DOMAIN parents |-> Len(parents) + 1 - i], [c \in DOMAIN parents |-> Followed(c, first)])

\* The walk, newest first; it stops after MaxRows commits.
Walk(f) ==
  LET reached == InOrder(Reached(Roots(f, Revision), f.first), Len(parents))
  IN [i \in 1..Min({MaxRows, Len(reached)}) |-> reached[Len(reached) + 1 - i]]

\* The first lane that awaits c, 0 when none does.
LaneOf(lanes, c) == FirstOf({i \in DOMAIN lanes : lanes[i] = c})

FreeLane(lanes) == IF LaneOf(lanes, 0) = 0 THEN Len(lanes) + 1 ELSE LaneOf(lanes, 0)

Span(i, j) == <<Min({i, j}), Max({i, j})>>

\* The first parent continues the lane of the commit, or merges into its own.
FirstParent(row, p) ==
  LET lane == LaneOf(row.lanes, p)
  IN IF lane = 0 THEN [row EXCEPT !.lanes = Put(@, row.col, p)]
     ELSE [row EXCEPT !.cells = Put(@, row.col, IF lane < row.col THEN "mergeLeft" ELSE "mergeRight"),
                      !.spans = Append(@, Span(lane, row.col))]

\* As if a second parent always opened a lane of its own.
MutantFork(row, p) ==
  LET lane == FreeLane(row.lanes)
  IN [row EXCEPT !.lanes = Put(@, lane, p),
                 !.cells = Put(@, lane, IF lane > row.col THEN "forkRight" ELSE "forkLeft"),
                 !.spans = Append(@, Span(lane, row.col))]

\* A further parent forks into a lane of its own, unless a lane awaits it.
ForkLane(row, p) ==
  LET lane == FreeLane(row.lanes)
  IN IF LaneOf(row.lanes, p) # 0 THEN row
     ELSE [row EXCEPT !.lanes = Put(@, lane, p),
                      !.cells = Put(@, lane, IF lane > row.col THEN "forkRight" ELSE "forkLeft"),
                      !.spans = Append(@, Span(lane, row.col))]

\* What a span makes of the cells it ends at and crosses.
Crossed(cells, span) ==
  [i \in DOMAIN cells |->
     CASE cells[i] = "straight" /\ i = span[1] -> "rightTee"
       [] cells[i] = "straight" /\ i = span[2] -> "leftTee"
       [] cells[i] = "straight" /\ span[1] < i /\ i < span[2] -> "cross"
       [] cells[i] = "empty" /\ span[1] < i /\ i < span[2] -> "horizontal"
       [] OTHER -> cells[i]]

\* The row of commit c in lane col, before the links to its parents.
RowAt(lanes, col, c) ==
  [oid |-> c, col |-> col, lanes |-> Put(lanes, col, 0), spans |-> <<>>,
   cells |-> [i \in DOMAIN Put(lanes, col, c) |->
     IF i = col THEN "commit" ELSE IF lanes[i] = 0 THEN "empty" ELSE "straight"]]

\* The row linked to the parents ps of its commit.
Linked(row, ps) ==
  LET after[n \in 0..Len(ps)] ==
        IF n = 0 THEN row ELSE IF n = 1 THEN FirstParent(row, ps[1]) ELSE ForkLane(after[n - 1], ps[n])
  IN after[Len(ps)]

\* The cells with every span drawn through them.
CrossedBy(cells, spans) ==
  LET after[n \in 0..Len(spans)] == IF n = 0 THEN cells ELSE Crossed(after[n - 1], spans[n])
  IN after[Len(spans)]

Drawn(row) ==
  [row EXCEPT !.cells = CrossedBy(@, row.spans),
              !.lanes = SubSeq(@, 1, Max({0} \cup {i \in DOMAIN @ : @[i] # 0}))]

\* GraphBuilder::process_commit.
ProcessCommit(lanes, c, ps) ==
  Drawn(Linked(RowAt(lanes, IF LaneOf(lanes, c) # 0 THEN LaneOf(lanes, c) ELSE FreeLane(lanes), c), ps))

LanesAfter(rows) == IF rows = <<>> THEN <<>> ELSE rows[Len(rows)].lanes

\* The rows of the commits, whose parents are ps.
Laid(commits, ps) ==
  LET after[n \in 0..Len(commits)] ==
        IF n = 0 THEN <<>> ELSE Append(after[n - 1], ProcessCommit(LanesAfter(after[n - 1]), commits[n], ps[n]))
  IN after[Len(commits)]

\* GraphBuilder::build: a commit whose author is excluded takes its lane and is not shown.
Build(f) ==
  LET walk == Walk(f)
      laid == Laid(walk, [n \in DOMAIN walk |-> parents[walk[n]]])
      kept == Sieve(laid, {n \in DOMAIN laid : f.authors = None \/ AuthorOf[laid[n].oid] \in f.authors})
  IN [i \in DOMAIN kept |->
        [oid |-> kept[i].oid, col |-> kept[i].col, cells |-> kept[i].cells, spans |-> kept[i].spans]]

\* The drawn prefix of a row: a bar leads on from every column a span covers.
Bars(row) == {x \in DOMAIN row.cells : \E i \in DOMAIN row.spans : row.spans[i][1] <= x /\ x < row.spans[i][2]}

-----------------------------------------------------------------------------
(* The side branches of the rows, and what folding them shows.             *)

RowOf(rows, c) == FirstOf({i \in DOMAIN rows : rows[i].oid = c})

\* The row of the first parent, 0 when it has none.
Onto(rows, i) == IF parents[rows[i].oid] = <<>> THEN 0 ELSE RowOf(rows, parents[rows[i].oid][1])

Ontos(rows) == [i \in DOMAIN rows |-> Onto(rows, i)]

\* The first-parent chain of row i.
Chain(onto, i) == Spread({i}, [n \in DOMAIN onto |-> n], [n \in DOMAIN onto |-> {onto[n]} \ {0}])

Trunk(onto) == IF onto = <<>> THEN {} ELSE Chain(onto, 1)

\* UnionFind: rows i and j are of one segment from now on.
Unite(segments, i, j) ==
  {s \in segments : i \notin s /\ j \notin s} \cup {UNION {s \in segments : i \in s \/ j \in s}}

\* compute_branch_segments: the rows off the trunk, joined along their first parents.
SegmentsOf(onto, side) ==
  LET after[n \in 0..Len(onto)] ==
        IF n = 0 THEN {{i} : i \in side}
        ELSE IF n \in side /\ onto[n] \in side THEN Unite(after[n - 1], n, onto[n]) ELSE after[n - 1]
  IN after[Len(onto)]

Segments(rows) == SegmentsOf(Ontos(rows), DOMAIN rows \ Trunk(Ontos(rows)))

\* The segment of row i, none on the trunk.
SegmentAt(segments, i) == UNION {s \in segments : i \in s}

\* A segment is named for its tip, the first of its rows.
SegmentId(rows, segments, i) ==
  IF SegmentAt(segments, i) = {} THEN 0 ELSE rows[Min(SegmentAt(segments, i))].oid

Plain(rows) == [i \in DOMAIN rows |-> [oid |-> rows[i].oid, hidden |-> 0]]

\* project_branch_collapses: a folded segment is one placeholder at its tip.
Project(rows, segments, collapsed) ==
  LET folded == {s \in segments : rows[Min(s)].oid \in collapsed}
      kept == InOrder({i \in DOMAIN rows : \A s \in folded : i \in s => i = Min(s)}, Len(rows))
  IN [k \in DOMAIN kept |->
        [oid |-> rows[kept[k]].oid, hidden |-> Cardinality(SegmentAt(folded, kept[k]))]]

\* The bridge's answer to a graph request.
Folded(rows, collapsed) == Project(rows, Segments(rows), collapsed)

GraphQuery(f, collapsed) == Folded(Build(f), collapsed)

-----------------------------------------------------------------------------
(* The view: [rows, segments, filters, collapsed, shown, at, typing, query,  *)
(* matches, match, branches, authors, built].                              *)

Display(v) == IF v.collapsed = {} THEN Plain(v.rows) ELSE v.shown

\* The commit of the selected row, 0 when nothing is selected.
SelectedIn(v, at) == IF at \in DOMAIN Display(v) THEN Display(v)[at].oid ELSE 0

\* A placeholder has no author to match.
Matches(v) ==
  IF v.query = None THEN <<>>
  ELSE InOrder({i \in DOMAIN Display(v) : Display(v)[i].hidden = 0 /\ AuthorOf[Display(v)[i].oid] = v.query},
               Len(Display(v)))

Matched(v) == [v EXCEPT !.matches = Matches(v), !.match = IF Matches(v) = <<>> THEN 0 ELSE 1]

\* restore_selection: the same commit, else the row where it was.
RestoreSelection(v, c, previous) ==
  LET rows == Display(v)
      at == IF c # 0 /\ RowOf(rows, c) # 0 THEN RowOf(rows, c) ELSE Min({Max({previous, 1}), Len(rows)})
      w == Matched([v EXCEPT !.at = at])
      place == FirstOf({k \in DOMAIN w.matches : w.matches[k] = at})
  IN IF place # 0 THEN [w EXCEPT !.match = place] ELSE w

\* recompute_collapsed_rows: the fold has changed, the rows shown have not yet.
Recompute(v) ==
  RestoreSelection([v EXCEPT !.shown = IF v.collapsed = {} THEN <<>> ELSE Project(v.rows, v.segments, v.collapsed)],
                   SelectedIn(v, v.at), v.at)

SetRows(v, rows) ==
  RestoreSelection(
    Recompute([v EXCEPT !.rows = rows, !.segments = Segments(rows),
                        !.branches = @ \cup BranchNames,
                        !.authors = @ \cup {AuthorOf[rows[i].oid] : i \in DOMAIN rows},
                        !.built = [filters |-> v.filters, revision |-> Revision]]),
    SelectedIn(v, Max({v.at, 1})), v.at)

\* set_filters: nothing is folded or searched for under new filters.
SetFilters(v, f) ==
  LET new == [f EXCEPT !.first = v.filters.first]
  IN IF new = v.filters THEN v
     ELSE [v EXCEPT !.filters = new, !.collapsed = {}, !.typing = FALSE, !.query = None,
                    !.matches = <<>>, !.match = 0]

SetFirstParent(v, enabled) == [v EXCEPT !.filters.first = enabled]

\* toggle_collapse_selected: a placeholder unfolds, a side branch folds.
ToggleCollapse(v) ==
  LET row == Display(v)[v.at]
      segment == IF RowOf(v.rows, row.oid) = 0 THEN 0 ELSE SegmentId(v.rows, v.segments, RowOf(v.rows, row.oid))
  IN IF v.at = 0 THEN v
     ELSE IF row.hidden # 0 THEN Recompute([v EXCEPT !.collapsed = @ \ {row.oid}])
     ELSE IF segment = 0 THEN v
     ELSE Recompute([v EXCEPT !.collapsed = @ \cup {segment}])

ExpandAll(v) == IF v.collapsed = {} THEN v ELSE Recompute([v EXCEPT !.collapsed = {}])

SelectNext(v) == IF Display(v) = <<>> THEN v ELSE [v EXCEPT !.at = Min({@ + 1, Len(Display(v))})]

SelectPrev(v) == IF Display(v) = <<>> THEN v ELSE [v EXCEPT !.at = Max({@ - 1, 1})]

SearchNext(v) ==
  LET next == (v.match % Len(v.matches)) + 1
  IN IF v.matches = <<>> THEN v ELSE [v EXCEPT !.match = next, !.at = v.matches[next]]

SearchPrev(v) ==
  LET prev == IF v.match <= 1 THEN Len(v.matches) ELSE v.match - 1
  IN IF v.matches = <<>> THEN v ELSE [v EXCEPT !.match = prev, !.at = v.matches[prev]]

OpenSearch(v) == [v EXCEPT !.typing = TRUE, !.query = None, !.matches = <<>>, !.match = 0]

\* Enter in the search: jump to the first match.
FirstMatch(v) ==
  IF v.matches = <<>> THEN [v EXCEPT !.typing = FALSE]
  ELSE [v EXCEPT !.typing = FALSE, !.match = 1, !.at = v.matches[1]]

-----------------------------------------------------------------------------
(* Steps.                                                                  *)

ViewInit ==
  /\ \E h \in Histories : parents = h.parents /\ refs = h.refs /\ keysLeft = h.keys
  /\ view = [rows |-> <<>>, segments |-> {}, filters |-> NoFilters, collapsed |-> {}, shown |-> <<>>, at |-> 0, typing |-> FALSE,
             query |-> None, matches |-> <<>>, match |-> 0, branches |-> {}, authors |-> {}, built |-> None]
  /\ picker = None
  /\ jumped = FALSE

Key == keysLeft > 0 /\ keysLeft' = keysLeft - 1

\* A key of the user, and what the view makes of it.
Press(v) == Key /\ view' = v /\ UNCHANGED <<parents, refs, picker, jumped>>

\* The view becomes v: does the selection leave a commit that v still shows?
Leaves(v) ==
  LET c == SelectedIn(view, view.at)
  IN c # 0 /\ RowOf(Display(v), c) # 0 /\ SelectedIn(v, v.at) # c

\* GraphLoaded and GraphFilterBranchesLoaded, of a build under the filters of now.
Load ==
  /\ view' = SetRows(view, Build(view.filters))
  /\ jumped' = (jumped \/ Leaves(view'))
  /\ UNCHANGED <<parents, refs, picker, keysLeft>>

\* DiffStatsLoaded: the rows are projected again.
StatsLoaded ==
  /\ view' = Recompute(view)
  /\ jumped' = (jumped \/ Leaves(view'))
  /\ UNCHANGED <<parents, refs, picker, keysLeft>>

\* `c', or the menu.  New filters drop the folds and not the rows that they left
\* shown, and until a build lands the first fold looks its row up in those.
Toggles ==
  /\ picker = None /\ ~view.typing /\ Key
  /\ view' = ToggleCollapse(view)
  /\ jumped' = (jumped \/ ((view.collapsed = {} => view.shown = <<>>) /\ Leaves(view')))
  /\ UNCHANGED <<parents, refs, picker>>

\* The other keys of the graph while neither the search nor the picker takes them.
Keys ==
  /\ picker = None /\ ~view.typing
  /\ \/ Press(SelectNext(view))
     \/ Press(SelectPrev(view))
     \/ Press(SearchNext(view))
     \/ Press(SearchPrev(view))
     \/ Press(OpenSearch(view))
     \/ Press(SetFirstParent(view, ~view.filters.first))
     \/ Press(ExpandAll(view))

\* The keys of the search.
SearchKeys ==
  /\ view.typing /\ picker = None
  /\ \/ Press([view EXCEPT !.typing = FALSE])
     \/ Press(FirstMatch(view))
     \/ \E q \in Authors \cup {None} : Press(Matched([view EXCEPT !.query = q]))

\* A click selects the commit under it (the detail it opens is in CommitDetail).
Click == picker = None /\ \E i \in DOMAIN Display(view) : Press([view EXCEPT !.at = i])

\* GraphFilterPicker::show and hide.
ShowPicker ==
  /\ picker = None /\ Key
  /\ picker' = [filters |-> view.filters, branches |-> view.branches, authors |-> view.authors]
  /\ UNCHANGED <<parents, refs, view, jumped>>

HidePicker == picker # None /\ picker' = None /\ UNCHANGED <<parents, refs, view, jumped, keysLeft>>

\* The picker's filters are sent whole.
Apply(f) ==
  /\ picker # None /\ Key
  /\ picker' = [picker EXCEPT !.filters = f]
  /\ view' = SetFirstParent(SetFilters(view, f), f.first)
  /\ UNCHANGED <<parents, refs, jumped>>

\* The chosen values of a category, everything when it is not filtered.
Chosen(values, all) == IF values = None THEN all ELSE values

Flip(values, x) == IF x \in values THEN values \ {x} ELSE values \cup {x}

ToggleChoice ==
  /\ picker # None
  /\ LET f == picker.filters IN
     \/ \E n \in picker.branches : Apply([f EXCEPT !.branches = Flip(Chosen(@, picker.branches), n)])
     \/ \E a \in picker.authors : Apply([f EXCEPT !.authors = Flip(Chosen(@, picker.authors), a)])
     \/ \E k \in Kinds : Apply([f EXCEPT !.kinds = Flip(@, k)])
     \/ Apply([f EXCEPT !.first = ~@])

SetAll ==
  /\ picker # None
  /\ LET f == picker.filters IN
     \/ Apply([f EXCEPT !.branches = None])
     \/ Apply([f EXCEPT !.authors = None])
     \/ Apply([f EXCEPT !.kinds = Kinds])
     \/ Apply([f EXCEPT !.first = TRUE])

SetNone ==
  /\ picker # None
  /\ LET f == picker.filters IN
     \/ Apply([f EXCEPT !.branches = {}])
     \/ Apply([f EXCEPT !.authors = {}])
     \/ Apply([f EXCEPT !.kinds = {}])
     \/ Apply([f EXCEPT !.first = FALSE])

Invert ==
  /\ picker # None
  /\ LET f == picker.filters IN
     \/ Apply([f EXCEPT !.branches = picker.branches \ Chosen(@, picker.branches)])
     \/ Apply([f EXCEPT !.authors = picker.authors \ Chosen(@, picker.authors)])
     \/ Apply([f EXCEPT !.kinds = Kinds \ @])
     \/ Apply([f EXCEPT !.first = ~@])

ResetFilters == Apply(NoFilters)

\* A commit on a local branch, or a merge into it of a branch it does not have.
CommitOn(n) ==
  /\ RefKind[n] = "local" /\ refs[n] # 0 /\ Len(parents) < MaxCommits /\ Key
  /\ \/ parents' = Append(parents, <<refs[n]>>)
     \/ \E m \in BranchLabels :
          /\ refs[m] \notin Reached({refs[n]}, FALSE) /\ refs[n] \notin Reached({refs[m]}, FALSE)
          /\ parents' = Append(parents, <<refs[n], refs[m]>>)
  /\ refs' = [refs EXCEPT ![n] = Len(parents')]
  /\ UNCHANGED <<view, picker, jumped>>

\* A ref is created, moved or deleted.
RefMoves(n) ==
  /\ n # HeadRef /\ Key
  /\ \E c \in 0..Len(parents) : refs' = [refs EXCEPT ![n] = c]
  /\ UNCHANGED <<parents, view, picker, jumped>>

ViewNext ==
  \/ Load \/ StatsLoaded \/ Toggles \/ Keys \/ SearchKeys \/ Click
  \/ ShowPicker \/ HidePicker \/ ToggleChoice \/ SetAll \/ SetNone \/ Invert \/ ResetFilters
  \/ \E n \in Names : CommitOn(n) \/ RefMoves(n)

ViewSpec == ViewInit /\ [][ViewNext]_viewVars

-----------------------------------------------------------------------------
(* Properties.                                                             *)

\* The state of GitGraph and of GraphFilterPicker keeps its types.
ViewTypeOK ==
  /\ parents \in Seq(Seq(AllCommits)) /\ Len(parents) \in AllCommits
  /\ refs \in [Names -> 0..MaxCommits]
  /\ view.at \in 0..Len(Display(view)) /\ view.collapsed \subseteq AllCommits
  /\ view.match \in 0..Len(view.matches)
  /\ view.filters.kinds \subseteq Kinds /\ view.filters.first \in BOOLEAN
  /\ view.branches \subseteq Names /\ view.authors \subseteq Authors
  /\ jumped \in BOOLEAN
  /\ keysLeft \in Nat

Vertical == {"straight", "rightTee", "leftTee", "cross"}

\* The commits still to come whose children are among the first i rows.
Awaited(rows, i) ==
  (UNION {ToSet(parents[rows[j].oid]) : j \in 1..i}) \ {rows[j].oid : j \in 1..i}

\* The picture is the history (GraphBuilder::process_commit): a row is crossed
\* by one line for every commit that is awaited there and by no other, and the
\* line from a commit to its parent runs without a gap, but for the link to a
\* further parent that a lane already awaited, which the builder does not draw.
LinesHold ==
  LET rows == view.rows IN
  view.built = None \/ view.built.filters.authors # None \/
    /\ \A i \in DOMAIN rows :
         Cardinality({x \in DOMAIN rows[i].cells : rows[i].cells[x] \in Vertical})
           = Cardinality(Awaited(rows, i - 1) \ {rows[i].oid})
    /\ \A k, j \in DOMAIN rows : rows[j].oid \in ToSet(parents[rows[k].oid]) =>
         LET x == rows[j].col
         IN /\ k < j
            /\ \A i \in (k + 1)..(j - 1) : x \in DOMAIN rows[i].cells /\ rows[i].cells[x] \in Vertical
            /\ \/ rows[j].oid \in Awaited(rows, k - 1) /\ parents[rows[k].oid][1] # rows[j].oid
               \/ Span(x, rows[k].col)[1]..(Span(x, rows[k].col)[2] - 1) \subseteq Bars(rows[k])

\* The commits that rows and placeholders stand for.
Counted(shown) ==
  LET after[n \in 0..Len(shown)] == IF n = 0 THEN 0 ELSE after[n - 1] + Max({1, shown[n].hidden})
  IN after[Len(shown)]

\* Row i is drawn itself, or its branch is, as a placeholder.
IsDrawn(rows, trunk, shown, i) ==
  \E k \in DOMAIN shown :
    \/ shown[k] = [oid |-> rows[i].oid, hidden |-> 0]
    \/ \E j \in DOMAIN rows \ trunk :
         /\ i \in SegmentAt(view.segments, j)
         /\ shown[k] = [oid |-> rows[j].oid, hidden |-> Cardinality(SegmentAt(view.segments, j))]

FoldsAgree(rows, onto, trunk, shown) ==
  /\ \A i, j \in DOMAIN rows \ trunk :
       (j \in SegmentAt(view.segments, i)) <=> ~(Chain(onto, i) \cap Chain(onto, j) \subseteq trunk)
  /\ \A i \in trunk : \E k \in DOMAIN shown : shown[k] = [oid |-> rows[i].oid, hidden |-> 0]
  /\ \A i \in DOMAIN rows : IsDrawn(rows, trunk, shown, i)
  /\ Counted(shown) = Len(rows)

\* Folding hides what it says it hides (compute_branch_segments and
\* project_branch_collapses): branches whose chains meet off the trunk fold
\* together, the trunk is never hidden, and every other commit is drawn or stands
\* behind the placeholder of its branch, none of them twice.
FoldsHold ==
  FoldsAgree(view.rows, Ontos(view.rows), Trunk(Ontos(view.rows)), Display(view))

\* What the search marks is what the list shows, and no load, statistic or fold
\* takes the selection off a commit that is still shown.
SelectionHolds ==
  /\ ~jumped
  /\ view.matches = Matches(view)
  /\ (view.at = 0) <=> (Display(view) = <<>> \/ view.built = None)

\* A panel built at the revision the bridge reports shows what the bridge
\* answers for the same filters and folds (GraphBuilder::revision_scoped).
InStep ==
  (view.built # None /\ view.built = [filters |-> view.filters, revision |-> Revision]) =>
     Display(view) = GraphQuery(view.filters, view.collapsed)

\* The picker edits the filters in force, and every branch and author that they
\* select is one it lists, so that it can be taken back.
PickerAgrees ==
  /\ picker # None => picker.filters = view.filters
  /\ view.filters.branches # None => view.filters.branches \subseteq view.branches
  /\ view.filters.authors # None => view.filters.authors \subseteq view.authors

\* The graph is drawn as the history is, folded, searched, selected and filtered
\* as the panel says.
GraphIsDrawn == LinesHold /\ FoldsHold /\ SelectionHolds /\ InStep /\ PickerAgrees
=============================================================================
