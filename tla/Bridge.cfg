\* Every part of the bridge, each with its own small instance.
CONSTANTS
  None = None
  Inputs <- MCInputs
  MaxChanges = 2
  Order <- MCOrder
  ParentOf <- MCParentOf
  Top = "top"
  Listings <- MCListings
  Initialized = {"a", "x"}
  NoUpdate = {}
  MaxSubmodules = 2
  MaxMoves = 2
  SnapRepos = {"r", "s"}
  Views = {"v", "w"}
  Size <- MCSize
  Listings0 <- MCListings0
  MaxPageBytes = 6
  MaxPageItems = 2
  MaxCacheBytes = 12
  Tables = {0, 1, 2, 4, 8}
  SparseTable = 1
  Expiry = 2
  MaxTime = 2
  MaxReplaced = 1
  MaxListings = 3
  Commits <- MCCommits
  Paths = {"f", "g"}
  Tree <- MCTree
  Kind <- MCKind
  Staged <- MCStaged
  Losable = {"a", "x", "c2"}
  Requests <- MCRequests
  MaxWrites = 2
  MaxTurns = 2
  Deep = 3
  MaxGits = 2
  Names <- MCNames
  RefKind <- MCRefKind
  Upstream <- MCUpstream
  Collects = {"local", "remote"}
  HeadRef = "main"
  AuthorOf <- MCAuthorOf
  Histories <- MCHistories
  MaxCommits = 7
  MaxRows = 5
SPECIFICATION BridgeSpec
INVARIANTS BridgeTypeOK MutationIsConfirmed BatchIsTold SnapshotsHold ReadsAreOneState LaunchSafety WorkerLeavesNothing GraphIsDrawn
PROPERTY WorkerAlwaysEnds
\* A request, a batch and a worker end.
CHECK_DEADLOCK FALSE
