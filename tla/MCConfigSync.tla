--------------------------- MODULE MCConfigSync ----------------------------
(***************************************************************************)
(* What a running instance does between inputs, model-checked as a sum:    *)
(* `part' says which part moves, the other stays in one of its initial     *)
(* states.  ConfigSync: two panes that share, one that opted out, an       *)
(* editor; a repository that discovery finds and one that only a pin       *)
(* lists; a fresh file and one that differs from the defaults.  PowerLoop: *)
(* a pane that is seen, left alone or hidden.                              *)
(***************************************************************************)
EXTENDS ConfigSync

CONSTANTS
  p1, p2, p3, e, a, b, t1, t2,
  Parts,                                  \* the parts to check
  Modes, Worlds, MaxOthers, MaxChances    \* of PowerLoop

VARIABLES
  part,
  mode, world, over, probe, typed, reports, loop, events, power, waiting, slept, surprised, chances

PowerPart == INSTANCE PowerLoop

ASSUME PowerAssumption == PowerPart!PowerBounds

powerVars == <<mode, world, over, probe, typed, reports, loop, events, power, waiting, slept, surprised, chances>>

MCPanes  == {p1, p2}
MCThree  == {p1, p2, p3}
MCRepos  == {a, b}
MCFound  == {a}
MCThemes == {t1, t2}
MCFiles  == {[pinned |-> {}, excluded |-> {}, theme |-> t1],
             [pinned |-> {b}, excluded |-> {a}, theme |-> t2]}
MCWorld(attached, zoomed, active, activity) ==
  [attached |-> attached, window |-> TRUE, zoomed |-> zoomed, active |-> active, activity |-> activity]
MCWorlds == {MCWorld(TRUE, FALSE, TRUE, "recent"), MCWorld(TRUE, TRUE, TRUE, "old"), MCWorld(FALSE, FALSE, TRUE, None)}

SumInit ==
  /\ part \in Parts
  /\ Init /\ (part # "config" => file = Missing)
  /\ PowerPart!PowerInit /\ (part # "power" => mode = "off")

SumNext ==
  \/ part = "config" /\ Next /\ UNCHANGED <<part, powerVars>>
  \/ part = "power" /\ PowerPart!PowerNext /\ UNCHANGED <<part, vars>>

\* The fairness of the parts, on the steps of the part that moves.
SumFairness ==
  /\ \A p \in Procs : WF_vars(part = "config" /\ Saves(p))
  /\ \A p \in Panes : WF_vars(part = "config" /\ RefreshSharedMembership(p))
  /\ WF_powerVars(part = "power" /\ PowerPart!ProbeReads)
  /\ WF_powerVars(part = "power" /\ PowerPart!ProbeReports)
  /\ WF_powerVars(part = "power" /\ PowerPart!IdleStarts)
  /\ WF_powerVars(part = "power" /\ PowerPart!IdleHears)
  /\ WF_powerVars(part = "power" /\ PowerPart!IdleEnds)
  /\ WF_powerVars(part = "power" /\ PowerPart!LoopPower)
  /\ WF_powerVars(part = "power" /\ PowerPart!LoopTimer("tick"))
  /\ WF_powerVars(part = "power" /\ PowerPart!Elapses("tick"))
  /\ WF_powerVars(part = "power" /\ PowerPart!Run)
  /\ WF_powerVars(part = "power" /\ PowerPart!Resume)

SumSpec == SumInit /\ [][SumNext]_<<part, vars, powerVars>> /\ SumFairness

\* The power probe, the event loop and App agree, and waking fetches nothing
\* (PowerLoop!PowerHolds); App comes to the state its pane is in and draws what
\* waits while the pane is seen (PowerLoop!PowerSettles).
PowerFollows ==
  /\ [](PowerPart!PowerTypeOK /\ PowerPart!PowerHolds)
  /\ part = "power" => PowerPart!PowerSettles
=============================================================================
