CONSTANTS
  p1 = p1
  p2 = p2
  p3 = p3
  e = e
  a = a
  b = b
  Panes <- MCThree
  Editors = {e}
  Synced <- MCPanes
  Repos <- MCRepos
  Found <- MCFound
  DefaultExcluded = {}
  t1 = t1
  t2 = t2
  Themes <- MCThemes
  Files <- MCFiles
  DefaultTheme = t1
  None = None
  Missing = Missing
  MaxEdits = 3
  MaxFailures = 1
  Parts = {"config", "power"}
  Modes = {"tmux", "idle", "off"}
  Worlds <- MCWorlds
  MaxOthers = 1
  MaxChances = 3
SPECIFICATION SumSpec
INVARIANTS TypeOK ReadIsFile
PROPERTIES Shared ThemeKept ListsAgree PowerFollows
CHECK_DEADLOCK FALSE
