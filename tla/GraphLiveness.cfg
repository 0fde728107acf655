CONSTANTS
  a = a
  b = b
  w = w
  Repos <- MCRepos
  Trees <- MCTrees
  Parent <- MCParent
  Options = {o1, o2}
  None = None
  Capacity = 2
  MaxAborts = 1
  Removable = {}
  MaxChanges = 1
  MaxCommands = 1
  MaxFailures = 1
SPECIFICATION FairSpec
PROPERTIES SelectedShowsDisk TreeShowsDisk
CHECK_DEADLOCK FALSE
