\* Under tmux a hidden pane may become visible without any input: the probe
\* then reports Doze.
SPECIFICATION FairSpec
CONSTANTS
  r1 = r1
  r2 = r2
  Repos <- OneRepo
  Vanishing = {}
  Permits = 1
  MaxChanges = 1
  MaxCommands = 0
  Commands <- BusyCommands
  PowerMoves <- TmuxMoves
PROPERTY
  VisibleTracksDisk
