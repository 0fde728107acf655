CONSTANTS
  a = a
  b = b
  w = w
  Repos <- MCRepos
  Trees <- MCTrees
  Parent <- MCParent
  Options = {o1, o2}
  None = None
  Capacity = 2
  MaxAborts = 1
  Removable = {a, b}
  MaxChanges = 3
  MaxCommands = 0
  MaxFailures = 1
SPECIFICATION Spec
PROPERTY StaleReportsDropped
CHECK_DEADLOCK FALSE
