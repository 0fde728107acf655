-------------------------- MODULE SharedMembership -------------------------
(***************************************************************************)
(* What running panes promise about the repositories they share through    *)
(* config.toml ("share repo additions and removals", README.md; "without   *)
(* overwriting concurrent config changes", CHANGELOG.md): the file holds   *)
(* two sets, and every save is the one edit its user made, applied to the  *)
(* sets as they are then.                                                  *)
(***************************************************************************)
CONSTANT Repos

VARIABLES pinned, excluded

Init == pinned \in SUBSET Repos /\ excluded \in SUBSET Repos

Pin(r) == pinned' = pinned \cup {r} /\ UNCHANGED excluded

(* A repository that discovery would find again is excluded as well.  A    *)
(* pin made at the same time may win: the pane that drops a repository     *)
(* takes back only a pin it knew.                                          *)
Drop(r) ==
  /\ pinned' \in {pinned, pinned \ {r}}
  /\ excluded' \in {excluded, excluded \cup {r}}

(* A rescan brings back what its pane knew to be excluded.                 *)
Restore == \E S \in SUBSET Repos : excluded' = excluded \ S /\ UNCHANGED pinned

Next == (\E r \in Repos : Pin(r) \/ Drop(r)) \/ Restore

Spec == Init /\ [][Next]_<<pinned, excluded>>
=============================================================================
