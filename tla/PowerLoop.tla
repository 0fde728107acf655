------------------------------ MODULE PowerLoop ------------------------------
(***************************************************************************)
(* How much the TUI does while nobody looks (src/tui.rs and                *)
(* session/visibility.rs): a probe judges the pane -- from tmux, or from   *)
(* the user's idleness outside tmux -- and reports changes to the event    *)
(* loop, whose timers wait on the verdict and which tells App::run.  A     *)
(* command run inline tears the loop and the probe down and starts new     *)
(* ones.                                                                   *)
(*                                                                         *)
(* Abstractions.  Every event but Power only wakes App, which then drains  *)
(* its actions and draws; what the events do is in the other modules.  The *)
(* terminal's modes are left out; tui.enter and tui.exit succeed.          *)
(***************************************************************************)
EXTENDS Naturals, Sequences, Panels

CONSTANTS
  Modes,        \* "tmux", "idle" (outside tmux) and "off" (sleep_when_hidden = false)
  Worlds,       \* what tmux may say of the pane and its client
  MaxOthers,    \* bound: events in the queue when one other than Power is added
  MaxChances    \* bound: changes of the world, failed probes, inputs and suspensions

Powers == {"Awake", "Doze", "DeepSleep"}
Timers == {"tick", "local", "fetch"}

PowerBounds == Modes \subseteq {"tmux", "idle", "off"} /\ MaxChances \in Nat /\ None \notin Powers

VARIABLES
  mode,       \* probe_pane and sleep_when_hidden
  world,      \* tmux's fields of the pane
  over,       \* the deadline of the idle clock is over
  probe,      \* the probe task: [last, read], read being a verdict it has still to report
  typed,      \* inputs on their way to the idle probe
  reports,    \* power_rx: verdicts on their way to the loop
  loop,       \* the event loop: [alive, power, due, told], told when a report came since it started
  events,     \* event_rx: events on their way to App
  power,      \* App::power
  waiting,    \* results of background work in the action channel
  slept,      \* history: the fetch timer went on while the loop was not awake
  surprised,  \* history: such a timer fired
  chances

powerVars == <<mode, world, over, probe, typed, reports, loop, events, power, waiting, slept, surprised, chances>>

\* parse_power_state: a pane nobody sees sleeps whatever the activity of the
\* client, and one whose activity cannot be read (None) is awake.
Parse(pane) ==
  IF ~pane.attached \/ ~pane.window \/ (pane.zoomed /\ ~pane.active) THEN "DeepSleep"
  ELSE IF pane.activity = "old" THEN "Doze" ELSE "Awake"

\* A probe starts with no verdict, so that its first report always goes out.
MutantNewProbe == [last |-> "Awake", read |-> None]   \* As if a probe took the loop's first state for reported.
NewProbe == [last |-> None, read |-> None]

\* start_event_loop: every timer's first tick is due at once.
NewLoop == [alive |-> TRUE, power |-> "Awake", due |-> Timers, told |-> FALSE]

PowerInit ==
  /\ mode \in Modes
  /\ world \in Worlds /\ (mode # "tmux" => world = CHOOSE w \in Worlds : TRUE)
  /\ over = FALSE
  /\ probe = NewProbe /\ typed = 0 /\ reports = <<>> /\ loop = NewLoop /\ events = <<"Init">>
  /\ power = "Awake" /\ waiting = FALSE /\ slept = FALSE /\ surprised = FALSE
  /\ chances = MaxChances

Chance == chances > 0 /\ chances' = chances - 1

-----------------------------------------------------------------------------
(* The world.                                                              *)

\* The pane is hidden, shown, zoomed or left alone; or the idle clock runs out.
WorldMoves ==
  /\ mode = "tmux" /\ Chance /\ world' \in Worlds \ {world}
  /\ UNCHANGED <<mode, over, probe, typed, reports, loop, events, power, waiting, slept, surprised>>
DeadlinePasses ==
  /\ mode = "idle" /\ ~over /\ over' = TRUE
  /\ UNCHANGED <<mode, world, probe, typed, reports, loop, events, power, waiting, slept, surprised, chances>>

\* A background task ends and leaves its result in the action channel.
WorkEnds ==
  /\ Chance /\ ~waiting /\ waiting' = TRUE
  /\ UNCHANGED <<mode, world, over, probe, typed, reports, loop, events, power, slept, surprised>>

Elapses(timer) ==
  /\ loop.alive /\ timer \notin loop.due
  /\ loop' = [loop EXCEPT !.due = @ \cup {timer}]
  /\ UNCHANGED <<mode, world, over, probe, typed, reports, events, power, waiting, slept, surprised, chances>>

-----------------------------------------------------------------------------
(* The probes; they end with the loop that receives from them.             *)

\* One round of the tmux probe; one that fails or cannot be read means Awake.
ProbeReads ==
  /\ mode = "tmux" /\ loop.alive /\ probe.read = None
  /\ \/ probe' = [probe EXCEPT !.read = Parse(world)] /\ UNCHANGED chances
     \/ Chance /\ probe' = [probe EXCEPT !.read = "Awake"]
  /\ UNCHANGED <<mode, world, over, typed, reports, loop, events, power, waiting, slept, surprised>>

\* emit_if_changed.
Emit(state) ==
  /\ probe' = [last |-> state, read |-> None]
  /\ reports' = IF probe.last = state THEN reports ELSE Append(reports, state)

ProbeReports ==
  /\ loop.alive /\ probe.read # None /\ Emit(probe.read)
  /\ UNCHANGED <<mode, world, over, typed, loop, events, power, waiting, slept, surprised, chances>>

\* The idle probe: Awake at the start and after every input, DeepSleep once
\* the deadline is over.
IdleStarts ==
  /\ mode = "idle" /\ loop.alive /\ probe.last = None
  /\ Emit("Awake") /\ over' = FALSE
  /\ UNCHANGED <<mode, world, typed, loop, events, power, waiting, slept, surprised, chances>>
IdleHears ==
  /\ mode = "idle" /\ loop.alive /\ probe.last # None /\ typed > 0
  /\ typed' = typed - 1 /\ over' = FALSE /\ Emit("Awake")
  /\ UNCHANGED <<mode, world, loop, events, power, waiting, slept, surprised, chances>>
IdleEnds ==
  /\ mode = "idle" /\ loop.alive /\ probe.last \notin {None, "DeepSleep"} /\ over
  /\ Emit("DeepSleep")
  /\ UNCHANGED <<mode, world, over, typed, loop, events, power, waiting, slept, surprised, chances>>

-----------------------------------------------------------------------------
(* The event loop, one branch of its select! at a time.                    *)

\* A report: waking restarts the fetch timer, and any change the tick timer.
LoopPower ==
  /\ loop.alive /\ reports # <<>>
  /\ LET state == Head(reports)
         wakes == state = "Awake" /\ loop.power # "Awake"
     IN /\ loop' = [alive |-> TRUE, power |-> state, told |-> TRUE,
                    due |-> (loop.due \ (IF wakes THEN {"fetch"} ELSE {}))
                              \cup (IF state # loop.power THEN {"tick"} ELSE {})]
        /\ slept' = (state # "Awake" \/ (slept /\ ~wakes))
        /\ events' = Append(events, state)
  /\ reports' = Tail(reports)
  /\ UNCHANGED <<mode, world, over, probe, typed, power, waiting, surprised, chances>>

\* A timer fires when the verdict lets it: the tick while the pane is seen,
\* the polls while the user is there.
LoopTimer(timer) ==
  /\ loop.alive /\ timer \in loop.due /\ Len(events) < MaxOthers
  /\ IF timer = "tick" THEN loop.power # "DeepSleep" ELSE loop.power = "Awake"
  /\ loop' = [loop EXCEPT !.due = @ \ {timer}]
  /\ events' = Append(events, "Other")
  /\ surprised' = (surprised \/ (timer = "fetch" /\ slept))
  /\ slept' = (slept /\ timer # "fetch")
  /\ UNCHANGED <<mode, world, over, probe, typed, reports, power, waiting, chances>>

\* An input goes to App, and outside tmux to the probe.
LoopInput ==
  /\ loop.alive /\ Chance /\ Len(events) < MaxOthers
  /\ events' = Append(events, "Other")
  /\ typed' = IF mode = "idle" THEN typed + 1 ELSE typed
  /\ UNCHANGED <<mode, world, over, probe, reports, loop, power, waiting, slept, surprised>>

-----------------------------------------------------------------------------
(* App::run: an event, then every action there is.                         *)

Run ==
  /\ loop.alive /\ events # <<>>
  /\ events' = Tail(events)
  /\ power' = IF Head(events) \in Powers THEN Head(events) ELSE power
  /\ waiting' = FALSE
  /\ UNCHANGED <<mode, world, over, probe, typed, reports, loop, slept, surprised, chances>>

\* An event that opens a command inline: tui.exit, and tui.enter when it ends.
Suspend ==
  /\ loop.alive /\ events # <<>> /\ Head(events) = "Other" /\ Chance
  /\ events' = Tail(events)
  /\ loop' = [loop EXCEPT !.alive = FALSE]
  /\ probe' = NewProbe /\ typed' = 0 /\ reports' = <<>> /\ waiting' = FALSE
  /\ UNCHANGED <<mode, world, over, power, slept, surprised>>
Resume ==
  /\ ~loop.alive
  /\ loop' = NewLoop /\ events' = Append(events, "Init") /\ slept' = FALSE
  /\ UNCHANGED <<mode, world, over, probe, typed, reports, power, waiting, surprised, chances>>

PowerNext ==
  \/ WorldMoves \/ DeadlinePasses \/ WorkEnds \/ \E timer \in Timers : Elapses(timer)
  \/ ProbeReads \/ ProbeReports \/ IdleStarts \/ IdleHears \/ IdleEnds
  \/ LoopPower \/ (\E timer \in Timers : LoopTimer(timer)) \/ LoopInput
  \/ Run \/ Suspend \/ Resume

\* Every task runs: the probe, the loop (its select! is random, so no branch
\* that stays ready is left out) and App, and a command run inline ends.
PowerFairness ==
  /\ WF_powerVars(ProbeReads) /\ WF_powerVars(ProbeReports)
  /\ WF_powerVars(IdleStarts) /\ WF_powerVars(IdleHears) /\ WF_powerVars(IdleEnds)
  /\ WF_powerVars(LoopPower) /\ WF_powerVars(LoopTimer("tick")) /\ WF_powerVars(Elapses("tick"))
  /\ WF_powerVars(Run) /\ WF_powerVars(Resume)

PowerSpec == PowerInit /\ [][PowerNext]_powerVars /\ PowerFairness

-----------------------------------------------------------------------------
PowerTypeOK ==
  /\ mode \in Modes /\ world \in Worlds /\ over \in BOOLEAN
  /\ probe \in [last : Powers \cup {None}, read : Powers \cup {None}]
  /\ typed \in Nat /\ reports \in Seq(Powers)
  /\ loop \in [alive : BOOLEAN, power : Powers, due : SUBSET Timers, told : BOOLEAN]
  /\ events \in Seq(Powers \cup {"Init", "Other"}) /\ power \in Powers
  /\ waiting \in BOOLEAN /\ slept \in BOOLEAN /\ surprised \in BOOLEAN
  /\ chances \in 0..MaxChances

\* Nothing is on its way to App, and the probe has spoken.
AtRest ==
  /\ loop.alive /\ probe.last # None /\ reports = <<>>
  /\ \A i \in DOMAIN events : events[i] \notin Powers

\* The probe, the loop and App agree about the power once every report has
\* arrived, also after a command ran inline while App was asleep ("only an
\* unconditional first report is guaranteed to resync them"), and waking never
\* fetches every repository because the timer ran out in sleep.
PowerHolds == (AtRest => loop.power = probe.last /\ power = probe.last) /\ ~surprised

\* What the probe would report now.
Verdict ==
  IF mode = "off" THEN "Awake"
  ELSE IF mode = "idle" THEN (IF over THEN "DeepSleep" ELSE "Awake")
  ELSE Parse(world)

\* App comes to the state the pane is in, and a result waits for the next event
\* only while the pane is hidden or a command runs inline: the ticks of a pane
\* that is seen bring it to the screen.
PowerSettles ==
  /\ \A v \in Powers : <>[](Verdict = v) => <>[](power = v)
  /\ waiting ~> (~waiting \/ power = "DeepSleep" \/ loop.power = "DeepSleep")
=============================================================================
