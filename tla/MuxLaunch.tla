------------------------------- MODULE MuxLaunch -------------------------------
(***************************************************************************)
(* Launchers: how a command is placed in a multiplexer (session/launcher,  *)
(* session/herdr_app, session/env), by the bridge on behalf of an editor   *)
(* (bridge/launcher, bridge/session) and by the TUI (app/launch).  The     *)
(* editor lists choices, the user takes one, and the bridge creates the    *)
(* pane only if repository, launcher and target are still the chosen ones; *)
(* under Herdr the command is typed into the new pane by a second program. *)
(*                                                                         *)
(* Abstractions.  The world is five facts, each of which changes at most   *)
(* once between two reads of anything: the repository's identity, the      *)
(* launcher with its review base, the target pane, the session, the tab    *)
(* that was created.  A placement is one of six shapes.  A program that    *)
(* refuses (exit status) is taken to have made nothing.                    *)
(***************************************************************************)
EXTENDS Naturals, Sequences, FiniteSets, Functions, Panels

CONSTANTS
  MaxTurns,     \* bound: changes made by other programs
  Deep          \* bound: ancestors of the process, in desktop_owner

ASSUME LaunchBounds == MaxTurns \in Nat /\ Deep \in Nat

Backends == {"tmux", "herdr", "herdr-app"}
Placements == {"command", "inline", "ask", "split", "tab", "flags", "bad"}
WorldFacts == {"repo", "launcher", "pane", "session", "tab"}

VARIABLES
  world,     \* version of every fact
  seen,      \* the versions the client was told
  launch,    \* the request being served, or None
  at,        \* how many of its steps are done
  own,       \* the repository's version this request read first
  pane,      \* what it made: "none", "made", "ran" or "focused"
  fresh,     \* the client's facts held when it began, and when the pane was made
  answer     \* its reply, or None

launchVars == <<world, seen, launch, at, own, pane, fresh, answer>>

Answers == {"ok", "error", "stale_target", "stale_launcher", "session_error", "invalid_request",
            "partial_completion", "outcome_unknown"}
ASSUME NoneIsNoAnswer == None \notin Answers

-----------------------------------------------------------------------------
(* Which multiplexer, and what to do under it.                             *)

\* desktop_owner: pids of the process and its ancestors from 0 up, of which
\* some are tmux panes, and one may be the desktop terminal's root.
MutantDesktopOwner(tmuxPanes, root) ==
  IF tmuxPanes # {} THEN "tmux" ELSE "herdr-app"
DesktopOwner(tmuxPanes, root) ==
  LET walk[n \in 0 .. Deep] ==
        IF n = root THEN "herdr-app"
        ELSE IF n \in tmuxPanes THEN "tmux"
        ELSE IF n = Deep THEN "herdr-app" ELSE walk[n + 1]
  IN  walk[0]

\* resolve_host: only the process and its parent count.
ResolveHost(host, tmuxPanes) == IF tmuxPanes \cap {0, 1} # {} THEN "tmux" ELSE host

Detect(herdr, tmux, desktop, tmuxPanes, root) ==
  LET host == IF desktop THEN "herdr-app" ELSE IF herdr THEN "herdr" ELSE IF tmux THEN "tmux" ELSE "none"
  IN  IF ~tmux \/ host \in {"tmux", "none"} THEN host
      ELSE IF desktop THEN DesktopOwner(tmuxPanes, root) ELSE ResolveHost(host, tmuxPanes)

\* plan
Bare(mux) == CASE mux = "tmux" -> "spawn" [] mux = "herdr" -> "herdr"
               [] mux = "herdr-app" -> "desktop" [] OTHER -> "error"
Plan(placement, command, mux) ==
  IF placement = "bad" THEN "error"
  ELSE IF placement = "command" THEN IF command THEN "spawn" ELSE Bare(mux)
  ELSE IF placement = "inline" \/ mux = "none" THEN IF command THEN "inline" ELSE "error"
  ELSE IF placement = "ask" THEN "ask"
  ELSE IF placement = "flags" /\ mux # "tmux" THEN "error"
  ELSE Bare(mux)

\* The choices a launcher offers, by what they do.
Offered(placement) == IF placement = "ask" THEN {"split", "tab"} ELSE {placement}

-----------------------------------------------------------------------------
(* A request is a sequence of steps.                                       *)

Checks == <<"repo", "launcher", "choice">>
MutantBeforeRun == <<"id">>
BeforeRun == <<"id", "repo", "launcher", "choice">>

Executed(r) ==
  CASE r.plan = "spawn" -> <<"create">>
    [] r.plan = "desktop" -> <<"layout", "create", "response">>
    [] r.plan = "herdr" ->
         <<"create">>
         \o (IF r.choice = "tab" THEN Checks \o <<"tab", "launcher", "choice">> ELSE <<>>)
         \o (IF r.command THEN BeforeRun \o <<"run">> ELSE <<>>)
    [] OTHER -> <<"unsupported">>

TuiExecuted(r) ==
  CASE r.plan = "desktop" -> <<"layout", "create", "response">>
    [] r.plan = "herdr" -> <<"create">> \o (IF r.command THEN <<"id", "run">> ELSE <<>>)
    [] r.plan = "spawn" -> <<"create">>
    [] r.plan = "inline" -> <<"create">>
    [] OTHER -> <<"unsupported">>

LaunchSteps(r) ==
  CASE r.ask = "choices" -> <<"own", "launcher", "look", "launcher", "same">>
    [] r.ask = "launchers" -> <<"menu">>
    [] r.ask = "list" -> <<"own", "sessions", "path">>
    [] r.ask = "goto" -> <<"own", "session", "path", "session", "focus">>
    [] r.ask = "execute" -> Checks \o <<"repo", "launcher">> \o Executed(r)
    [] r.ask = "tui" -> TuiExecuted(r)

Made(r) == \E i \in 1 .. at : LaunchSteps(r)[i] = "create"

\* The error a step answers with.
MutantCode(r, s) ==
  IF s = "launcher" THEN "stale_launcher" ELSE "stale_target"
Code(r, s) ==
  IF r.ask = "tui" THEN "error"
  ELSE IF s = "response" THEN "outcome_unknown"
  ELSE IF Made(r) THEN "partial_completion"
  ELSE IF s = "launcher" THEN "stale_launcher"
  ELSE IF s \in {"layout", "menu", "sessions"} THEN "session_error"
  ELSE IF s = "unsupported" THEN "invalid_request"
  ELSE "stale_target"

\* What a step that only looks finds.  ("path" asks that the folder still leads to
\* the same path, "same" also for the identity of the repository there.)
Holds(s) ==
  CASE s = "repo" -> world["repo"] = seen["repo"]
    [] s = "same" -> world["repo"] = own
    [] s = "launcher" -> world["launcher"] = seen["launcher"]
    [] s \in {"choice", "layout"} -> world["pane"] = seen["pane"]
    [] s = "session" -> world["session"] = seen["session"]
    [] s = "tab" -> world["tab"] = seen["tab"]
    [] OTHER -> s # "unsupported"

Looks == {"repo", "same", "path", "launcher", "choice", "layout", "session", "tab", "id", "response",
          "own", "look", "menu", "sessions", "unsupported"}

-----------------------------------------------------------------------------
(* Serving one.                                                            *)

Plans == {"none", "spawn", "herdr", "desktop", "inline", "ask", "error"}
Asked(ask, choices, muxes) ==
  {r \in [ask : {ask}, plan : Plans, choice : choices, command : BOOLEAN] :
     \E mux \in muxes : r.plan = Plan(r.choice, r.command, mux)}

Launches ==
  [ask : {"launchers", "choices", "list", "goto"}, plan : {"none"}, choice : {"none"}, command : {FALSE}]
  \cup Asked("execute", UNION {Offered(p) : p \in {"ask", "split", "tab", "flags"}}, Backends)
  \cup Asked("tui", Placements \ {"ask"}, Backends \cup {"none"})

AsSeen(fact) == world[fact] = seen[fact]
AllSeen == AsSeen("repo") /\ AsSeen("launcher") /\ AsSeen("pane")

LaunchAsk ==
  /\ launch = None
  /\ \E r \in Launches : launch' = r
  /\ at' = 0 /\ own' = 0 /\ pane' = "none" /\ answer' = None
  /\ fresh' = [began |-> AllSeen, made |-> FALSE, session |-> AsSeen("session")]
  /\ UNCHANGED <<world, seen>>

Serving == launch # None /\ answer = None
NextStep == LaunchSteps(launch)[at + 1]

\* A check holds, and what choices and list read is what their reply tells.
Passes ==
  /\ Serving
  /\ at < Len(LaunchSteps(launch))
  /\ NextStep \in Looks
  /\ Holds(NextStep)
  /\ at' = at + 1
  /\ own' = IF NextStep = "own" THEN world["repo"] ELSE own
  /\ seen' = CASE NextStep = "look" -> [seen EXCEPT !["pane"] = world["pane"], !["repo"] = own]
               [] NextStep = "menu" -> [seen EXCEPT !["launcher"] = world["launcher"]]
               [] NextStep = "sessions" -> [seen EXCEPT !["session"] = world["session"]]
               [] OTHER -> seen
  /\ UNCHANGED <<world, launch, pane, fresh, answer>>

\* It does not, or the program that looks fails.
Refuses ==
  /\ Serving
  /\ at < Len(LaunchSteps(launch))
  /\ NextStep \in Looks
  /\ answer' = Code(launch, NextStep)
  /\ UNCHANGED <<world, seen, launch, at, own, pane, fresh>>

\* launch: the program that creates the pane, focuses it or types the command.
Acts == {"create", "focus", "run"}
Result == CASE NextStep = "create" -> "made" [] NextStep = "focus" -> "focused" [] OTHER -> "ran"

Runs ==
  /\ Serving
  /\ at < Len(LaunchSteps(launch))
  /\ NextStep \in Acts
  /\ at' = at + 1
  /\ pane' = Result
  /\ fresh' = IF NextStep = "create" THEN [fresh EXCEPT !.made = AllSeen] ELSE fresh
  /\ seen' = [seen EXCEPT !["tab"] = world["tab"]]
  /\ UNCHANGED <<world, launch, own, answer>>

\* Not found, not permitted, or it refused.
FailsToRun ==
  /\ Serving
  /\ at < Len(LaunchSteps(launch))
  /\ NextStep \in Acts
  /\ answer' = IF launch.ask = "tui" THEN "error"
               ELSE IF NextStep = "run" THEN "partial_completion" ELSE "session_error"
  /\ UNCHANGED <<world, seen, launch, at, own, pane, fresh>>

\* It did not end in time: whether it acted is not known.
MutantTooLate == "session_error"
TooLate == "outcome_unknown"
Lingers ==
  /\ Serving
  /\ at < Len(LaunchSteps(launch))
  /\ NextStep \in Acts
  /\ launch.ask # "tui" \/ launch.plan = "desktop"
  /\ answer' = IF launch.ask = "tui" THEN "error"
               ELSE IF NextStep = "run" THEN "partial_completion" ELSE TooLate
  /\ pane' \in {pane, Result}
  /\ UNCHANGED <<world, seen, launch, at, own, fresh>>

Succeeds ==
  /\ Serving
  /\ at = Len(LaunchSteps(launch))
  /\ answer' = "ok"
  /\ UNCHANGED <<world, seen, launch, at, own, pane, fresh>>

\* The client reads the reply; it may choose again.
Hears ==
  /\ launch # None /\ answer # None
  /\ launch' = None /\ at' = 0 /\ own' = 0 /\ pane' = "none" /\ answer' = None
  /\ fresh' = [began |-> FALSE, made |-> FALSE, session |-> FALSE]
  /\ UNCHANGED <<world, seen>>

\* Another program, or the user in another window.
Elsewhere(fact) ==
  /\ FoldFunction(+, 0, world) < MaxTurns
  /\ world' = [world EXCEPT ![fact] = @ + 1]
  /\ UNCHANGED <<seen, launch, at, own, pane, fresh, answer>>

-----------------------------------------------------------------------------
LaunchInit ==
  /\ world = [f \in WorldFacts |-> 0]
  /\ seen = [f \in WorldFacts |-> 0]
  /\ launch = None /\ at = 0 /\ own = 0 /\ pane = "none" /\ answer = None
  /\ fresh = [began |-> FALSE, made |-> FALSE, session |-> FALSE]

LaunchNext ==
  \/ LaunchAsk \/ Passes \/ Refuses \/ Runs \/ FailsToRun \/ Lingers \/ Succeeds \/ Hears
  \/ \E f \in WorldFacts : Elsewhere(f)

LaunchSpec == LaunchInit /\ [][LaunchNext]_launchVars

-----------------------------------------------------------------------------
(* Properties.                                                             *)

LaunchTypeOK ==
  /\ world \in [WorldFacts -> 0 .. MaxTurns] /\ seen \in [WorldFacts -> 0 .. MaxTurns]
  /\ launch \in Launches \cup {None}
  /\ at \in 0 .. 20 /\ own \in 0 .. MaxTurns
  /\ pane \in {"none", "made", "ran", "focused"}
  /\ fresh \in [{"began", "made", "session"} -> BOOLEAN]
  /\ answer \in Answers \cup {None}

\* The bridge answers with an ordinary error only if it made nothing: whatever
\* it left behind is reported as a partial completion or an unknown outcome,
\* and "launched" means pane and command (execute, launch).
LaunchReport ==
  launch # None /\ launch.ask = "execute" /\ answer # None =>
    /\ answer \notin {"ok", "partial_completion", "outcome_unknown"} => pane = "none"
    /\ answer = "ok" => pane = IF launch.plan = "herdr" /\ launch.command THEN "ran" ELSE "made"

\* Nothing is created unless repository, launcher and target were, at one moment
\* of the request, those the choice was offered for; and a command is typed into
\* a pane only if they still were when the pane was there (execute).
LaunchAsChosen ==
  launch # None =>
    /\ launch.ask = "execute" =>
         /\ pane # "none" => fresh.began
         /\ pane = "ran" => fresh.made
    /\ pane = "focused" => fresh.session

\* The innermost owner of the process decides: a pane of the desktop or of tmux,
\* whichever is the nearer ancestor (desktop_owner, session/env.rs "a leaked
\* outer tmux pane").
NearestOwner ==
  \A tmuxPanes \in SUBSET (0 .. Deep), root \in 0 .. Deep :
    DesktopOwner(tmuxPanes, root) = "tmux" <=>
      \E p \in tmuxPanes : p < root

\* The multiplexer is the right one, what is created is what was chosen, and the
\* answer tells it (session/env.rs, bridge/launcher).
LaunchSafety == NearestOwner /\ LaunchReport /\ LaunchAsChosen
=============================================================================
