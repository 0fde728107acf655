\* The Changes panel alone.
CONSTANTS
  None = None
  Parts = {"box"}
  Repos = {"r1", "r2"}
  Worktrees = {"w"}
  Submodules = {"s"}
  Inside = {}
  Parent <- MCParent
  Files = {1, 2}
  Pointers = {2}
  Contents <- MCContents
  Queries <- MCQueries
  Trees0 <- MCTrees
  MaxEdits = 1
  MaxKeys = 3
  Commits = {"a", "b", "c"}
  FileCount <- MCFileCount
  FileQueries <- MCFileQueries
  MaxInputs = 4
  GhRepos = {"r", "s"}
  OnGithub = {"r"}
  Filters <- MCFilters
  Items = {"i"}
  MaxTouches = 3
  MaxPicks = 2
  MaxSizes = 1
  Ops = {"m", "s", "g"}
  OpKind <- MCOpKind
  Listed = {"a", "x", "s", "b"}
  Rank <- MCRank
  Found <- MCFound
  Outer <- MCOuter
  Gitlink = {"x", "s"}
  Reported <- MCReported
  Startups <- MCStartups
  Sites = {"a", "n", "w"}
  TopLevel = {"a", "w"}
  Walked = {"a", "w"}
  Managed = {"n"}
  Enclosing <- MCEnclosing
  InnerFirst = FALSE
  Shares <- MCShares
  Disks <- MCDisks
  Pins = {{"w"}}
  MaxSteps = 2
  PaneKinds = {"changes", "commit", "message"}
  Texts <- MCTexts
  PaneSizes <- MCPaneSizes
  U16Max = 6
  ChunkRows = 3
  HugeLineRows = 2
  MaxPaneSteps = 4
SPECIFICATION PanelsSpec
INVARIANT OpsActOnDiffedTree
\* The user may stop pressing keys and the processes may all have ended.
CHECK_DEADLOCK FALSE
