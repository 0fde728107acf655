\* Two repositories, every command, a watcher and polls that never sleep.
SPECIFICATION Spec
CONSTANTS
  r1 = r1
  r2 = r2
  Repos <- TwoRepos
  Vanishing <- TwoRepos
  Permits = 1
  MaxChanges = 1
  MaxCommands = 1
  Commands <- AllCommands
  PowerMoves <- NoMoves
SYMMETRY Symm
INVARIANTS
  TypeOK
  InFlightIsReal
  MarksAreConsumed
  SpinnerHasWork
  NoChangeForgotten
  OneQueryUnlessForced
