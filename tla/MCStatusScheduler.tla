------------------------- MODULE MCStatusScheduler -------------------------
(* Instances of StatusScheduler for TLC.                                   *)
EXTENDS StatusScheduler, TLC

CONSTANTS r1, r2

Symm == Permutations({r1, r2})

OneRepo  == {r1}
TwoRepos == {r1, r2}

AllCommands == UserOps \ {"RefreshRepo"}

(* The commands that bypass the in-flight mark or hold the spinner.        *)
BusyCommands == {"RefreshAll", "GitPush"}

(* A pane that wakes from deep sleep wakes up fully.                       *)
FullWakeMoves ==
  {<<"Awake", "Doze">>, <<"Doze", "Awake">>, <<"Awake", "DeepSleep">>,
   <<"Doze", "DeepSleep">>, <<"DeepSleep", "Awake">>}

(* Under tmux: any of the three states may follow any other.               *)
TmuxMoves == {<<a, b>> \in Powers \X Powers : a # b}

(* A probe that never changes its mind.                                    *)
NoMoves == {}
=============================================================================
