CONSTANTS
  a = a
  b = b
  w = w
  Repos <- MCRepos
  Trees <- MCTrees
  Parent <- MCParent
  Options = {o1, o2}
  None = None
  Capacity = 2
  MaxAborts = 1
  Removable = {a}
  MaxChanges = 1
  MaxCommands = 2
  MaxFailures = 1
SYMMETRY MCSymmetry
SPECIFICATION MCSpec
INVARIANTS TypeOK LatchIsBuild RowsAreOfKey NoReplay RestIsKnown
CHECK_DEADLOCK FALSE
