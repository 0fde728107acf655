--------------------------- MODULE MCGraphLoader ---------------------------
(* Instances of GraphLoader for TLC: two repositories, a worktree of the   *)
(* first one, two filter settings.                                         *)
EXTENDS GraphLoader, TLC

CONSTANTS a, b, w

MCRepos  == {a, b}
MCTrees  == {w}
MCParent == [p \in MCTrees |-> a]

(* The filter settings differ in name only.  The liveness run does without *)
(* symmetry.                                                               *)
MCSymmetry == Permutations(Options)

(* The safety run starts on the first of both repositories.               *)
MCInit == Init /\ listed = Repos /\ selected = a
MCSpec == MCInit /\ [][Next]_vars
=============================================================================
