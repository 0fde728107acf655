\* One repository whose pane sleeps and wakes; no symmetry, for liveness.
SPECIFICATION FairSpec
CONSTANTS
  r1 = r1
  r2 = r2
  Repos <- OneRepo
  Vanishing = {}
  Permits = 1
  MaxChanges = 2
  MaxCommands = 1
  Commands <- BusyCommands
  PowerMoves <- FullWakeMoves
PROPERTIES
  AwakeTracksDisk
  WatcherTracksDisk
