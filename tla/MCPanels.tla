-------------------------------- MODULE MCPanels --------------------------------
(***************************************************************************)
(* The parts of the TUI, model-checked as a sum: `part' is chosen in the   *)
(* initial state and only that part moves, the others stay in one of their *)
(* initial states.  The state graph is the union of the parts' graphs, so  *)
(* an invariant of the sum is an invariant of every part.                  *)
(***************************************************************************)
EXTENDS ChangesPanel, CommitDetail, GithubPanel, AppShell, ProcessGroups, Discovery, RepoRows, ScrollPane, TLC

CONSTANT
  Parts          \* the parts to check

ASSUME PartsAssumption ==
  Parts \subseteq {"box", "detail", "github", "shell", "process", "rows", "sites", "pane"}

ASSUME PaneAssumption == PaneBounds
ASSUME RowsAssumption == RowsBounds

VARIABLE
  part

sumVars == <<part, boxVars, detailVars, ghVars, shellVars, procVars, rowVars, discVars, paneVars>>

MCParent == [t \in {"w", "s"} |-> "r1"]
MCTrees == [p \in {"r1", "r2", "w", "s"} |-> IF p = "r2" THEN {2} ELSE {1, 2}]
MCContents == {{2}}
MCQueries == {{1}, {1, 2}}
MCFileCount == "a" :> 2 @@ "b" :> 1 @@ "c" :> 0
MCFileQueries == {{2}, {}}
MCFilters == <<"open", "all">>
MCRank == "a" :> 1 @@ "x" :> 2 @@ "s" :> 3 @@ "b" :> 4
MCFound == "a" :> 2 @@ "x" :> 3 @@ "s" :> 1 @@ "b" :> 4
MCOuter == "a" :> {} @@ "x" :> {"a"} @@ "s" :> {"a", "x"} @@ "b" :> {}
MCStatus(dirty, worktrees, stashes) == [dirty |-> dirty, worktrees |-> worktrees, stashes |-> stashes]
\* The statuses of "x" and "s" have still to come.
MCReported ==
  "a" :> {MCStatus(FALSE, 1, 1), MCStatus(TRUE, 2, 0)} @@ "b" :> {MCStatus(TRUE, 0, 0)}
  @@ "x" :> {} @@ "s" :> {}
MCStartups == {{}, {"a", "x", "s", "b"}, {"a", "b"}}
MCEnclosing == "a" :> {} @@ "n" :> {"a"} @@ "w" :> {}
MCShares == "a" :> "a" @@ "n" :> "n" @@ "w" :> "a"
MCDisks == {"a" :> "dir" @@ "n" :> "file" @@ "w" :> "file"}
MCTexts == {<<>>, <<2, 0>>, <<13, 1>>, <<1, 4, 2>>}
MCSize(w, h) == [w |-> w, h |-> h]
MCPaneSizes == {MCSize(4, 4), MCSize(4, 7), MCSize(5, 5), MCSize(1, 2)}
MCOpKind == "m" :> "mutate" @@ "s" :> "session" @@ "g" :> "gh"

PanelsInit ==
  /\ part \in Parts
  /\ BoxInit /\ cursor = "r1"
  /\ DetailInit
  /\ GhInit /\ (part # "github" => gh = FALSE /\ target = "r")
  /\ ShellInit /\ (part # "shell" => desktop = FALSE)
  /\ ProcInit
  /\ RowsInit /\ listing.byDefault /\ missing
  /\ part # "rows" => listing.repos = <<>>
  /\ DiscInit
  /\ PaneInit /\ (part # "pane" => paneKind = "changes" /\ paneSize = MCSize(1, 2))

\* Only part p moves.
Rest(p) ==
  /\ UNCHANGED part
  /\ IF p = "box" THEN TRUE ELSE UNCHANGED boxVars
  /\ IF p = "detail" THEN TRUE ELSE UNCHANGED detailVars
  /\ IF p = "github" THEN TRUE ELSE UNCHANGED ghVars
  /\ IF p = "shell" THEN TRUE ELSE UNCHANGED shellVars
  /\ IF p = "process" THEN TRUE ELSE UNCHANGED procVars
  /\ IF p = "rows" THEN TRUE ELSE UNCHANGED rowVars
  /\ IF p = "sites" THEN TRUE ELSE UNCHANGED discVars
  /\ IF p = "pane" THEN TRUE ELSE UNCHANGED paneVars

PanelsNext ==
  \/ part = "box" /\ BoxNext /\ Rest("box")
  \/ part = "detail" /\ DetailNext /\ Rest("detail")
  \/ part = "github" /\ GhNext /\ Rest("github")
  \/ part = "shell" /\ ShellNext /\ Rest("shell")
  \/ part = "process" /\ ProcNext /\ Rest("process")
  \/ part = "rows" /\ RowsNext /\ Rest("rows")
  \/ part = "sites" /\ DiscNext /\ Rest("sites")
  \/ part = "pane" /\ PaneNext /\ Rest("pane")

\* The fairness of the parts, on the steps of the part that moves.
PanelsFairness ==
  /\ WF_boxVars(part = "box" /\ Handle)
  /\ WF_boxVars(part = "box" /\ Reports)
  /\ SF_boxVars(part = "box" /\ PollLocal)
  /\ WF_boxVars(part = "box" /\ \E p \in Paths : Read(p))
  /\ WF_ghVars(part = "github" /\ SelectionSettled)
  /\ WF_ghVars(part = "github" /\ \E c \in calls : Fetched(c))
  /\ WF_ghVars(part = "github" /\ ItemLoaded)

PanelsSpec == PanelsInit /\ [][PanelsNext]_sumVars /\ PanelsFairness

-----------------------------------------------------------------------------
\* Every part keeps its variables in their types (the state of ChangesBox,
\* CommitDetail, GithubPanel, App's overlays and the killable registry).
PanelsTypeOK ==
  /\ part \in Parts
  /\ BoxTypeOK /\ DetailTypeOK /\ GhTypeOK /\ ShellTypeOK /\ ProcTypeOK

\* The Changes panel, when it moves at all, ends up showing the disk
\* (ChangesPanel!BoxShowsDisk); a GitHub panel that says it is loading ends
\* loading (GithubPanel!LoadingEnds).
PanelsSettle ==
  /\ part = "box" => BoxShowsDisk
  /\ part = "github" => LoadingEnds
=============================================================================
