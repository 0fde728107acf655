-------------------------------- MODULE AppShell --------------------------------
(***************************************************************************)
(* Who receives a key or a click in the TUI, and what may open             *)
(* (src/app/input.rs, selection, render.rs draw, the overlays of           *)
(* components/, the picker of app/launch).  Keys, clicks and frames follow *)
(* three different orders of the overlays; they agree because at most one  *)
(* is open.  Three things outlive an event: a press that is delivered when *)
(* the button comes up, a launch that waits for the user's choice, and the *)
(* placements a thread reads for it.                                       *)
(*                                                                         *)
(* Abstractions.  A key is what it does to its receiver; lists, texts and  *)
(* highlights inside an overlay are left out.  An event and the actions it *)
(* sends are one step, as the run loop drains the queue before the next    *)
(* event.  A size is a version of the screen.                              *)
(***************************************************************************)
EXTENDS Naturals, FiniteSets, Panels

CONSTANTS
  MaxPicks,     \* bound: placements asked for
  MaxSizes      \* bound: resizes of the terminal

ASSUME ShellBounds == MaxPicks \in Nat /\ MaxSizes \in Nat

FocusPanels == {"repos", "changes", "graph", "github"}
Overlays == {"confirm", "path", "theme", "filter", "menu", "picker", "context"}

VARIABLES
  focus,       \* the focused panel
  open,        \* the visible overlays
  showsHelp,   \* show_help
  searches,    \* panels whose search input is active
  desktop,     \* the multiplexer is the desktop app: placements are read by a thread
  shown, want, \* the GitHub panel is drawn; it is wanted
  size, drawn, \* versions of the terminal's size and of the one last drawn
  press,       \* the deferred click: its panel and the frame it was made on, or None
  selected,    \* the press became a selection
  pending,     \* pending_pick: "launch", "goto" or None
  choices,      \* what the picker lists: "launch", "goto" or None (loading)
  generation,  \* placement_generation
  loads,       \* generations of the reads in flight
  wrong        \* what went to the wrong place: "click", "pick"

shellVars == <<focus, open, showsHelp, searches, desktop, shown, want, size, drawn, press, selected,
               pending, choices, generation, loads, wrong>>

gestureVars == <<press, selected>>
pickVars == <<pending, choices, generation, loads>>
frameVars == <<desktop, shown, want, size, drawn>>

-----------------------------------------------------------------------------
(* The three orders.                                                       *)

ModalVisible == open # {} \/ showsHelp              \* selection_modal_visible
SelectionBlocked == ModalVisible \/ searches # {}   \* text_selection_blocked

\* handle_key_event
KeyReceiver ==
  IF "confirm" \in open THEN "confirm"
  ELSE IF "path" \in open THEN "path"
  ELSE IF "theme" \in open THEN "theme"
  ELSE IF "filter" \in open THEN "filter"
  ELSE IF "menu" \in open THEN "menu"
  ELSE IF "picker" \in open THEN "picker"
  ELSE IF focus = "graph" /\ "graph" \in searches THEN "search"
  ELSE IF "context" \in open THEN "context"
  ELSE IF ~showsHelp /\ focus = "changes" /\ "changes" \in searches THEN "filtering"
  ELSE IF ~showsHelp /\ focus = "graph" /\ "files" \in searches THEN "filtering"
  ELSE IF showsHelp THEN "help"
  ELSE "globals"

\* handle_mouse_event: what takes a click, the panels excepted.
MutantMouseReceiver ==
  IF "menu" \in open THEN "menu"
  ELSE IF "filter" \in open THEN "filter"
  ELSE IF open \cap {"theme", "path", "confirm"} # {} \/ showsHelp THEN "nobody"
  ELSE IF "context" \in open THEN "context"
  ELSE "panels"
MouseReceiver ==
  IF "menu" \in open THEN "menu"
  ELSE IF "filter" \in open THEN "filter"
  ELSE IF open \cap {"picker", "theme", "path", "confirm"} # {} \/ showsHelp THEN "nobody"
  ELSE IF "context" \in open THEN "context"
  ELSE "panels"

\* draw: the last one drawn is on top.
OnTop ==
  IF showsHelp THEN "help"
  ELSE IF "picker" \in open THEN "picker"
  ELSE IF "filter" \in open THEN "filter"
  ELSE IF "menu" \in open THEN "menu"
  ELSE IF "theme" \in open THEN "theme"
  ELSE IF "confirm" \in open THEN "confirm"
  ELSE IF "path" \in open THEN "path"
  ELSE IF "context" \in open THEN "context"
  ELSE "panels"

-----------------------------------------------------------------------------
(* Opening an overlay, from the panel or the overlay that asked for it.    *)

Opens(o) == open' = open \cup {o}
Swaps(from, to) == open' = (open \ {from}) \cup {to}

\* start_placement_picker and attach_sessions_for
AskWhere(from) ==
  /\ pending' = "launch"
  /\ IF desktop
     THEN /\ generation < MaxPicks
          /\ generation' = generation + 1
          /\ loads' = loads \cup {generation + 1}
          /\ choices' = None
     ELSE UNCHANGED <<generation, loads>> /\ choices' = "launch"
  /\ Swaps(from, "picker")

AskSession(from) ==
  /\ pending' = "goto" /\ choices' = "goto"
  /\ UNCHANGED <<generation, loads>>
  /\ Swaps(from, "picker")

-----------------------------------------------------------------------------
(* Keys.                                                                   *)

\* Whatever the key, a selection is dropped, or copied and kept.
Clears == press' = None /\ selected' = FALSE

\* The overlay closes; or an item of it opens another.
CloseByKey(o) ==
  /\ KeyReceiver = o /\ o \in {"confirm", "path", "theme", "filter", "menu", "context"}
  /\ Clears
  /\ open' = open \ {o}
  /\ UNCHANGED <<focus, showsHelp, searches, wrong>> /\ UNCHANGED frameVars /\ UNCHANGED pickVars

\* AddRepo succeeds: the repositories are focused.
AddRepoByKey ==
  /\ KeyReceiver = "path"
  /\ Clears
  /\ open' = open \ {"path"} /\ focus' = "repos"
  /\ UNCHANGED <<showsHelp, searches, wrong>> /\ UNCHANGED frameVars /\ UNCHANGED pickVars

\* activate_selected of the row's menu, by key or by click.
ContextItem ==
  /\ "context" \in open
  /\ KeyReceiver = "context" \/ MouseReceiver = "context"
  /\ Clears
  /\ \/ Swaps("context", "confirm") /\ UNCHANGED pickVars /\ UNCHANGED focus
     \/ Swaps("context", "path") /\ UNCHANGED pickVars /\ UNCHANGED focus
     \/ AskWhere("context") /\ UNCHANGED focus
     \/ AskSession("context") /\ UNCHANGED focus
     \/ open' = open \ {"context"} /\ UNCHANGED pickVars /\ focus' \in {focus, "graph"}
  /\ UNCHANGED <<showsHelp, searches, wrong>> /\ UNCHANGED frameVars

\* An item of the commit's menu: the filters, the search, or neither.
CommitItem ==
  /\ "menu" \in open
  /\ KeyReceiver = "menu" \/ MouseReceiver = "menu"
  /\ Clears
  /\ \/ Swaps("menu", "filter") /\ UNCHANGED searches
     \/ open' = open \ {"menu"} /\ searches' = searches \cup {"graph"}
     \/ open' = open \ {"menu"} /\ UNCHANGED searches
  /\ UNCHANGED <<focus, showsHelp, wrong>> /\ UNCHANGED frameVars /\ UNCHANGED pickVars

\* Left, in the root of the filters.
FiltersBack ==
  /\ KeyReceiver = "filter"
  /\ Clears
  /\ Swaps("filter", "menu")
  /\ UNCHANGED <<focus, showsHelp, searches, wrong>> /\ UNCHANGED frameVars /\ UNCHANGED pickVars

\* PickerChose: what waits gets what is offered.
Pick ==
  /\ KeyReceiver = "picker"
  /\ choices # None
  /\ Clears
  /\ wrong' = wrong \cup (IF pending = choices THEN {} ELSE {"pick"})
  /\ pending' = None /\ choices' = None
  /\ open' = open \ {"picker"}
  /\ UNCHANGED <<focus, showsHelp, searches, generation, loads>> /\ UNCHANGED frameVars

CancelPick ==
  /\ KeyReceiver = "picker"
  /\ Clears
  /\ pending' = None /\ choices' = None
  /\ open' = open \ {"picker"}
  /\ UNCHANGED <<focus, showsHelp, searches, generation, loads, wrong>> /\ UNCHANGED frameVars

EndSearchByKey ==
  /\ KeyReceiver \in {"search", "filtering"}
  /\ Clears
  /\ searches' = searches \ (IF KeyReceiver = "search" THEN {"graph"}
                             ELSE IF focus = "changes" THEN {"changes"} ELSE {"files"})
  /\ UNCHANGED <<focus, open, showsHelp, wrong>> /\ UNCHANGED frameVars /\ UNCHANGED pickVars

HelpKey ==
  /\ KeyReceiver \in {"help", "globals"}
  /\ Clears
  /\ showsHelp' = ~showsHelp
  /\ UNCHANGED <<focus, open, searches, wrong>> /\ UNCHANGED frameVars /\ UNCHANGED pickVars

\* A global key that opens something, and those that only send work away.
GlobalOpens ==
  /\ KeyReceiver = "globals"
  /\ Clears
  /\ \/ \E o \in {"theme", "path", "confirm"} : Opens(o) /\ UNCHANGED pickVars /\ UNCHANGED searches
     \/ AskWhere("none") /\ UNCHANGED searches
     \/ AskSession("none") /\ UNCHANGED searches
     \/ focus # "github" /\ UNCHANGED pickVars /\ UNCHANGED searches   \* the Menu key
          /\ \/ focus # "graph" /\ Opens("context")
             \/ focus = "graph" /\ \E o \in {"menu", "filter"} : Opens(o)
     \/ /\ focus \in {"changes", "graph"} /\ UNCHANGED pickVars /\ UNCHANGED open      \* "/"
        /\ searches' = searches \cup (IF focus = "changes" THEN {"changes"} ELSE {"graph"})
     \/ /\ focus = "graph" /\ UNCHANGED pickVars /\ UNCHANGED open
        /\ searches' = searches \cup {"files"}
  /\ UNCHANGED <<focus, showsHelp, wrong>> /\ UNCHANGED frameVars

\* Tab, BackTab and Esc.
MutantAround == {"repos", "changes", "graph", "github"}
Around == IF shown THEN {"repos", "changes", "graph", "github"} ELSE {"repos", "changes", "graph"}

MoveFocus ==
  /\ KeyReceiver = "globals"
  /\ Clears
  /\ focus' \in Around \ {focus}
  /\ UNCHANGED <<open, showsHelp, searches, wrong>> /\ UNCHANGED frameVars /\ UNCHANGED pickVars

ToggleGithub ==
  /\ KeyReceiver = "globals"
  /\ Clears
  /\ want' = ~want
  /\ UNCHANGED <<focus, open, showsHelp, searches, desktop, shown, size, drawn, wrong>> /\ UNCHANGED pickVars

-----------------------------------------------------------------------------
(* The mouse.                                                              *)

\* Outside an item, the menus close.
ClickAway(o) ==
  /\ MouseReceiver = o /\ o \in {"menu", "filter", "context"}
  /\ Clears
  /\ open' = open \ {o}
  /\ UNCHANGED <<focus, showsHelp, searches, wrong>> /\ UNCHANGED frameVars /\ UNCHANGED pickVars

Drawn(p) == p # "github" \/ shown

\* On text the click is deferred; elsewhere the panel takes it at once.
PressLeft(p) ==
  /\ MouseReceiver = "panels" /\ Drawn(p)
  /\ focus' = p
  /\ selected' = FALSE
  /\ press' \in {None} \cup (IF SelectionBlocked THEN {} ELSE {[pane |-> p, frame |-> drawn]})
  /\ UNCHANGED <<open, showsHelp, searches, wrong>> /\ UNCHANGED frameVars /\ UNCHANGED pickVars

\* A right click opens the menu of its row.
PressRight(p) ==
  /\ MouseReceiver = "panels" /\ Drawn(p)
  /\ p # "github"
  /\ Clears
  /\ \/ p # "graph" /\ Opens("context")
     \/ p = "graph" /\ \E o \in {"menu", "filter"} : Opens(o)
  /\ UNCHANGED <<focus, showsHelp, searches, wrong>> /\ UNCHANGED frameVars /\ UNCHANGED pickVars

Drag ==
  /\ MouseReceiver = "panels"
  /\ press # None
  /\ selected' = TRUE
  /\ UNCHANGED <<press, focus, open, showsHelp, searches, wrong>> /\ UNCHANGED frameVars /\ UNCHANGED pickVars

\* An overlay takes the release, and with it the press (cancel_mouse_gestures);
\* else the deferred click goes where the pointer is.
Release ==
  /\ press # None
  /\ IF ModalVisible \/ selected THEN UNCHANGED wrong
     ELSE wrong' = wrong \cup (IF press.frame = drawn THEN {} ELSE {"click"})
  /\ Clears
  /\ UNCHANGED <<focus, open, showsHelp, searches>> /\ UNCHANGED frameVars /\ UNCHANGED pickVars

-----------------------------------------------------------------------------
(* The rest of the world.                                                  *)

\* finish_placement_picker
MutantFits(g) == "picker" \in open
Fits(g) == g = generation /\ "picker" \in open /\ pending = "launch"

PlacementsLoaded(g, ok) ==
  /\ g \in loads
  /\ loads' = loads \ {g}
  /\ IF ~Fits(g) THEN UNCHANGED <<choices, pending, open>>
     ELSE IF ok THEN choices' = "launch" /\ UNCHANGED <<pending, open>>
     ELSE choices' = None /\ pending' = None /\ open' = open \ {"picker"}
  /\ UNCHANGED <<focus, showsHelp, searches, generation, wrong>> /\ UNCHANGED frameVars /\ UNCHANGED gestureVars

Resize ==
  /\ size < MaxSizes
  /\ size' = size + 1
  /\ UNCHANGED <<focus, open, showsHelp, searches, desktop, shown, want, drawn, wrong>>
  /\ UNCHANGED gestureVars /\ UNCHANGED pickVars

\* draw: areas are computed anew, the focus never stays on a hidden panel, and a
\* selection ends when its area moved or something covers it.
MutantKeepsPress == ~SelectionBlocked
KeepsPress == ~SelectionBlocked /\ drawn = size /\ shown = want

Draw ==
  /\ drawn' = size /\ shown' = want
  /\ focus' = IF focus = "github" /\ ~want THEN "graph" ELSE focus
  /\ IF KeepsPress THEN UNCHANGED gestureVars ELSE Clears
  /\ UNCHANGED <<open, showsHelp, searches, desktop, want, size, wrong>> /\ UNCHANGED pickVars

-----------------------------------------------------------------------------
ShellInit ==
  /\ focus = "repos" /\ open = {} /\ showsHelp = FALSE /\ searches = {}
  /\ desktop \in BOOLEAN
  /\ shown = FALSE /\ want = FALSE /\ size = 0 /\ drawn = 0
  /\ press = None /\ selected = FALSE
  /\ pending = None /\ choices = None /\ generation = 0 /\ loads = {}
  /\ wrong = {}

ShellNext ==
  \/ \E o \in Overlays : CloseByKey(o) \/ ClickAway(o)
  \/ AddRepoByKey \/ ContextItem \/ CommitItem \/ FiltersBack \/ Pick \/ CancelPick
  \/ EndSearchByKey \/ HelpKey \/ GlobalOpens \/ MoveFocus \/ ToggleGithub
  \/ \E p \in FocusPanels : PressLeft(p) \/ PressRight(p)
  \/ Drag \/ Release \/ Resize \/ Draw
  \/ \E g \in 1 .. MaxPicks, ok \in BOOLEAN : PlacementsLoaded(g, ok)

ShellSpec == ShellInit /\ [][ShellNext]_shellVars

-----------------------------------------------------------------------------
(* Properties.                                                             *)

ShellTypeOK ==
  /\ focus \in FocusPanels /\ open \subseteq Overlays /\ showsHelp \in BOOLEAN
  /\ searches \subseteq {"changes", "graph", "files"}
  /\ desktop \in BOOLEAN /\ shown \in BOOLEAN /\ want \in BOOLEAN /\ selected \in BOOLEAN
  /\ size \in 0 .. MaxSizes /\ drawn \in 0 .. MaxSizes
  /\ press \in [pane : FocusPanels, frame : 0 .. MaxSizes] \cup {None}
  /\ pending \in {None, "launch", "goto"} /\ choices \in {None, "launch", "goto"}
  /\ generation \in 0 .. MaxPicks /\ loads \subseteq 1 .. MaxPicks
  /\ wrong \subseteq {"click", "pick"}

\* Keys and clicks go to what the user sees on top, although the three orders
\* differ, and the focused panel is one that is drawn (handle_key_event,
\* handle_mouse_event, draw).  The exception is the search of the graph, which
\* keeps the keys when a row's menu or the help comes up over it.
KeysGoToTop ==
  /\ OnTop \notin {"panels", "context", "help"} => KeyReceiver = OnTop
  /\ OnTop \in {"context", "help"} => KeyReceiver \in {OnTop, "search"}
  /\ OnTop \in {"menu", "filter", "context"} => MouseReceiver = OnTop
  /\ OnTop \in {"picker", "theme", "path", "confirm", "help"} => MouseReceiver = "nobody"
  /\ focus = "github" => shown

\* A deferred click is delivered on the frame it was made on, and what the user
\* picks is an answer to the question that waits (TextSelection,
\* finish_placement_picker, PickerChose).
AnswersLand == wrong = {}

\* No input lands on anything but what the user saw when giving it, be it a
\* key, a click, a click delivered later or a choice (app/input.rs).
InputLands == KeysGoToTop /\ AnswersLand
=============================================================================
