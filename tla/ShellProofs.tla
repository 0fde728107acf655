------------------------------ MODULE ShellProofs -----------------------------
(***************************************************************************)
(* Proofs about the frame of the TUI.  AppShell: the three orders in which *)
(* the overlays are looked at agree, deferred clicks land on the frame     *)
(* they were made on and answers at their question, for any number of      *)
(* resizes and launches.  ProcessGroups: quitting ends what is registered, *)
(* for any set of operations.  PowerLoop: the probe, the event loop and    *)
(* App agree on the power, however often commands run inline.  ConfigSync: *)
(* processes that share a configuration file merge into it as it is, for   *)
(* any number of panes, editors, repositories and themes.                  *)
(***************************************************************************)
EXTENDS AppShell, ProcessGroups, PowerLoop, ConfigSync, SequenceTheorems, TLAPS

-----------------------------------------------------------------------------
(* Overlays, gestures and the picker (AppShell).                           *)

(* At most one overlay is open, none under the help.                       *)
OneOverlay ==
  /\ \A a, b \in open : a = b
  /\ showsHelp => open = {}

(* A press is of the frame on the screen; what the picker lists answers    *)
(* the launch that waits; the focus is drawn.                              *)
PressIsOfFrame == press # None => press.frame = drawn
ChoicesAnswer  == choices # None => choices = pending
FocusIsDrawn   == focus = "github" => shown

ShellInv ==
  /\ ShellTypeOK /\ OneOverlay /\ PressIsOfFrame /\ ChoicesAnswer /\ FocusIsDrawn
  /\ wrong = {}

(* The panels get keys and clicks only when nothing is open over them.     *)
LEMMA PanelsAreFree ==
  ASSUME ShellInv
  PROVE  /\ MouseReceiver = "panels" => open = {} /\ ~showsHelp
         /\ KeyReceiver = "globals" => open = {} /\ ~showsHelp
         /\ KeyReceiver = "help" => open = {}
         /\ KeyReceiver \in Overlays => KeyReceiver \in open
         /\ MouseReceiver \in Overlays => MouseReceiver \in open
BY DEF ShellInv, ShellTypeOK, OneOverlay, Overlays, MouseReceiver, KeyReceiver

(* The picker is opened with a question of its own.                        *)
LEMMA AskedIsAnswered ==
  ASSUME NEW from, ShellInv, AskWhere(from) \/ AskSession(from)
  PROVE  /\ generation' \in 0 .. MaxPicks /\ loads' \subseteq 1 .. MaxPicks
         /\ pending' \in {None, "launch", "goto"} /\ choices' \in {None, "launch", "goto"}
         /\ choices' # None => choices' = pending'
         /\ open' = (open \ {from}) \cup {"picker"}
<1>1. generation \in 0 .. MaxPicks /\ loads \subseteq 1 .. MaxPicks
  BY DEF ShellInv, ShellTypeOK
<1>2. generation < MaxPicks => generation + 1 \in 1 .. MaxPicks /\ generation + 1 \in 0 .. MaxPicks
  BY <1>1, ShellBounds
<1>3. CASE AskWhere(from)
  BY <1>1, <1>2, <1>3 DEF AskWhere, Swaps
<1>4. CASE AskSession(from)
  BY <1>1, <1>4 DEF AskSession, Swaps
<1> QED BY <1>3, <1>4

(* Before the first event nothing is open.                                 *)
LEMMA ShellInitInv == ShellInit => ShellInv
<1> SUFFICES ASSUME ShellInit PROVE ShellInv
  OBVIOUS
<1>1. ShellTypeOK
  <2>1. /\ size \in 0 .. MaxSizes /\ drawn \in 0 .. MaxSizes
        /\ generation \in 0 .. MaxPicks /\ loads \subseteq 1 .. MaxPicks
    BY ShellBounds DEF ShellInit
  <2> QED BY <2>1 DEF ShellInit, ShellTypeOK, FocusPanels
<1>2. OneOverlay
  BY DEF ShellInit, OneOverlay
<1>3. PressIsOfFrame /\ ChoicesAnswer /\ FocusIsDrawn /\ wrong = {}
  BY DEF ShellInit, PressIsOfFrame, ChoicesAnswer, FocusIsDrawn
<1> QED BY <1>1, <1>2, <1>3 DEF ShellInv

(* A key or a click that ends the gesture and leaves the focus, the frame  *)
(* and the picks as they are.                                              *)
LEMMA ClearedType ==
  ASSUME ShellTypeOK, Clears, open' \subseteq Overlays, searches' \subseteq {"changes", "graph", "files"},
         UNCHANGED <<focus, showsHelp, wrong>>, UNCHANGED frameVars, UNCHANGED pickVars
  PROVE  ShellTypeOK'
<1>1. press' = None /\ selected' \in BOOLEAN
  BY DEF Clears
<1>2. focus' = focus /\ showsHelp' = showsHelp /\ wrong' = wrong
  OBVIOUS
<1>3. desktop' = desktop /\ shown' = shown /\ want' = want /\ size' = size /\ drawn' = drawn
  BY DEF frameVars
<1>4. pending' = pending /\ choices' = choices /\ generation' = generation /\ loads' = loads
  BY DEF pickVars
<1> QED BY <1>1, <1>2, <1>3, <1>4 DEF ShellTypeOK

(* Every key, click, frame and answer of a thread keeps the invariant.     *)
LEMMA ShellStepInv == ShellInv /\ [ShellNext]_shellVars => ShellInv'
<1> SUFFICES ASSUME ShellInv, [ShellNext]_shellVars PROVE ShellInv'
  OBVIOUS
<1>0. /\ MouseReceiver = "panels" => open = {} /\ ~showsHelp
      /\ KeyReceiver = "globals" => open = {} /\ ~showsHelp
      /\ KeyReceiver = "help" => open = {}
      /\ KeyReceiver \in Overlays => KeyReceiver \in open
      /\ MouseReceiver \in Overlays => MouseReceiver \in open
  BY PanelsAreFree
<1> USE <1>0
    DEF Clears, Opens, Swaps, gestureVars, pickVars, frameVars
<1>1. CASE \E o \in Overlays : CloseByKey(o)
  <2>1. ShellTypeOK'
    <3>1. ShellTypeOK /\ Clears /\ open' \subseteq open /\ searches' = searches
      BY <1>1 DEF CloseByKey, ShellInv
    <3>2. UNCHANGED <<focus, showsHelp, wrong>> /\ UNCHANGED frameVars /\ UNCHANGED pickVars
      BY <1>1 DEF CloseByKey
    <3>3. open' \subseteq Overlays /\ searches' \subseteq {"changes", "graph", "files"}
      BY <3>1 DEF ShellTypeOK
    <3> QED BY <3>1, <3>2, <3>3, ClearedType
  <2>2. OneOverlay'
    BY <1>1 DEF CloseByKey, ShellInv, ShellTypeOK, OneOverlay, Overlays
  <2>3. PressIsOfFrame' /\ ChoicesAnswer' /\ FocusIsDrawn' /\ wrong' = {}
    BY <1>1 DEF CloseByKey, ShellInv, ShellTypeOK, PressIsOfFrame, ChoicesAnswer, FocusIsDrawn
  <2> QED BY <2>1, <2>2, <2>3 DEF ShellInv
<1>2. CASE \E o \in Overlays : ClickAway(o)
  <2>1. ShellTypeOK'
    <3>1. open' \subseteq Overlays /\ searches' \subseteq {"changes", "graph", "files"}
      BY <1>2 DEF ClickAway, ShellInv, ShellTypeOK
    <3>2. Clears /\ UNCHANGED <<focus, showsHelp, wrong>> /\ UNCHANGED frameVars /\ UNCHANGED pickVars
      BY <1>2 DEF ClickAway
    <3> QED BY <3>1, <3>2, ClearedType DEF ShellInv
  <2>2. OneOverlay'
    BY <1>2 DEF ClickAway, ShellInv, ShellTypeOK, OneOverlay, Overlays
  <2>3. PressIsOfFrame' /\ ChoicesAnswer' /\ FocusIsDrawn' /\ wrong' = {}
    BY <1>2 DEF ClickAway, ShellInv, ShellTypeOK, PressIsOfFrame, ChoicesAnswer, FocusIsDrawn
  <2> QED BY <2>1, <2>2, <2>3 DEF ShellInv
<1>3. CASE AddRepoByKey
  <2>1. ShellTypeOK'
    BY <1>3, ShellBounds DEF AddRepoByKey, ShellInv, ShellTypeOK, FocusPanels, Overlays
  <2>2. OneOverlay'
    BY <1>3 DEF AddRepoByKey, ShellInv, ShellTypeOK, OneOverlay, Overlays
  <2>3. PressIsOfFrame' /\ ChoicesAnswer' /\ FocusIsDrawn' /\ wrong' = {}
    BY <1>3 DEF AddRepoByKey, ShellInv, ShellTypeOK, PressIsOfFrame, ChoicesAnswer, FocusIsDrawn
  <2> QED BY <2>1, <2>2, <2>3 DEF ShellInv
<1>4. CASE ContextItem
  <2>1. ShellTypeOK'
    <3>1. /\ generation' \in 0 .. MaxPicks /\ loads' \subseteq 1 .. MaxPicks
          /\ pending' \in {None, "launch", "goto"} /\ choices' \in {None, "launch", "goto"}
      BY <1>4, AskedIsAnswered DEF ContextItem, ShellInv, ShellTypeOK
    <3>2. open' \subseteq Overlays
      BY <1>4, AskedIsAnswered DEF ContextItem, ShellInv, ShellTypeOK, Overlays
    <3>3. focus' \in FocusPanels
      BY <1>4 DEF ContextItem, ShellInv, ShellTypeOK, FocusPanels
    <3> QED BY <1>4, <3>1, <3>2, <3>3 DEF ContextItem, ShellInv, ShellTypeOK
  <2>2. OneOverlay'
    BY <1>4, AskedIsAnswered DEF ContextItem, ShellInv, ShellTypeOK, OneOverlay, Overlays
  <2>3. PressIsOfFrame' /\ ChoicesAnswer' /\ FocusIsDrawn' /\ wrong' = {}
    BY <1>4, AskedIsAnswered DEF ContextItem, ShellInv, ShellTypeOK, PressIsOfFrame, ChoicesAnswer, FocusIsDrawn
  <2> QED BY <2>1, <2>2, <2>3 DEF ShellInv
<1>5. CASE CommitItem
  <2>1. ShellTypeOK'
    <3>1. open' \subseteq Overlays
      BY <1>5 DEF CommitItem, Swaps, ShellInv, ShellTypeOK, Overlays
    <3>2. searches' \subseteq {"changes", "graph", "files"}
      BY <1>5 DEF CommitItem, ShellInv, ShellTypeOK
    <3>3. Clears /\ UNCHANGED <<focus, showsHelp, wrong>> /\ UNCHANGED frameVars /\ UNCHANGED pickVars
      BY <1>5 DEF CommitItem
    <3> QED BY <3>1, <3>2, <3>3, ClearedType DEF ShellInv
  <2>2. OneOverlay'
    BY <1>5 DEF CommitItem, ShellInv, ShellTypeOK, OneOverlay, Overlays
  <2>3. PressIsOfFrame' /\ ChoicesAnswer' /\ FocusIsDrawn' /\ wrong' = {}
    BY <1>5 DEF CommitItem, ShellInv, ShellTypeOK, PressIsOfFrame, ChoicesAnswer, FocusIsDrawn
  <2> QED BY <2>1, <2>2, <2>3 DEF ShellInv
<1>6. CASE FiltersBack
  <2>1. ShellTypeOK'
    BY <1>6, ShellBounds DEF FiltersBack, ShellInv, ShellTypeOK, FocusPanels, Overlays
  <2>2. OneOverlay'
    BY <1>6 DEF FiltersBack, ShellInv, ShellTypeOK, OneOverlay, Overlays
  <2>3. PressIsOfFrame' /\ ChoicesAnswer' /\ FocusIsDrawn' /\ wrong' = {}
    BY <1>6 DEF FiltersBack, ShellInv, ShellTypeOK, PressIsOfFrame, ChoicesAnswer, FocusIsDrawn
  <2> QED BY <2>1, <2>2, <2>3 DEF ShellInv
<1>7. CASE Pick
  <2>1. ShellTypeOK'
    BY <1>7, ShellBounds DEF Pick, ShellInv, ShellTypeOK, FocusPanels, Overlays
  <2>2. OneOverlay'
    BY <1>7 DEF Pick, ShellInv, ShellTypeOK, OneOverlay, Overlays
  <2>3. PressIsOfFrame' /\ ChoicesAnswer' /\ FocusIsDrawn' /\ wrong' = {}
    BY <1>7 DEF Pick, ShellInv, ShellTypeOK, PressIsOfFrame, ChoicesAnswer, FocusIsDrawn
  <2> QED BY <2>1, <2>2, <2>3 DEF ShellInv
<1>8. CASE CancelPick
  <2>1. ShellTypeOK'
    BY <1>8, ShellBounds DEF CancelPick, ShellInv, ShellTypeOK, FocusPanels, Overlays
  <2>2. OneOverlay'
    BY <1>8 DEF CancelPick, ShellInv, ShellTypeOK, OneOverlay, Overlays
  <2>3. PressIsOfFrame' /\ ChoicesAnswer' /\ FocusIsDrawn' /\ wrong' = {}
    BY <1>8 DEF CancelPick, ShellInv, ShellTypeOK, PressIsOfFrame, ChoicesAnswer, FocusIsDrawn
  <2> QED BY <2>1, <2>2, <2>3 DEF ShellInv
<1>9. CASE EndSearchByKey
  <2>1. ShellTypeOK'
    BY <1>9, ShellBounds DEF EndSearchByKey, ShellInv, ShellTypeOK, FocusPanels, Overlays
  <2>2. OneOverlay'
    BY <1>9 DEF EndSearchByKey, ShellInv, ShellTypeOK, OneOverlay, Overlays
  <2>3. PressIsOfFrame' /\ ChoicesAnswer' /\ FocusIsDrawn' /\ wrong' = {}
    BY <1>9 DEF EndSearchByKey, ShellInv, ShellTypeOK, PressIsOfFrame, ChoicesAnswer, FocusIsDrawn
  <2> QED BY <2>1, <2>2, <2>3 DEF ShellInv
<1>10. CASE HelpKey
  <2>1. ShellTypeOK'
    BY <1>10, ShellBounds DEF HelpKey, ShellInv, ShellTypeOK, FocusPanels, Overlays
  <2>2. OneOverlay'
    BY <1>10 DEF HelpKey, ShellInv, ShellTypeOK, OneOverlay, Overlays
  <2>3. PressIsOfFrame' /\ ChoicesAnswer' /\ FocusIsDrawn' /\ wrong' = {}
    BY <1>10 DEF HelpKey, ShellInv, ShellTypeOK, PressIsOfFrame, ChoicesAnswer, FocusIsDrawn
  <2> QED BY <2>1, <2>2, <2>3 DEF ShellInv
<1>11. CASE GlobalOpens
  <2>1. ShellTypeOK'
    <3>1. /\ generation' \in 0 .. MaxPicks /\ loads' \subseteq 1 .. MaxPicks
          /\ pending' \in {None, "launch", "goto"} /\ choices' \in {None, "launch", "goto"}
      BY <1>11, AskedIsAnswered DEF GlobalOpens, ShellInv, ShellTypeOK
    <3>2. open' \subseteq Overlays
      BY <1>11, AskedIsAnswered DEF GlobalOpens, ShellInv, ShellTypeOK, Overlays
    <3>3. searches' \subseteq {"changes", "graph", "files"}
      BY <1>11 DEF GlobalOpens, ShellInv, ShellTypeOK
    <3> QED BY <1>11, <3>1, <3>2, <3>3 DEF GlobalOpens, ShellInv, ShellTypeOK
  <2>2. OneOverlay'
    BY <1>11, AskedIsAnswered DEF GlobalOpens, ShellInv, ShellTypeOK, OneOverlay, Overlays
  <2>3. PressIsOfFrame' /\ ChoicesAnswer' /\ FocusIsDrawn' /\ wrong' = {}
    BY <1>11, AskedIsAnswered DEF GlobalOpens, ShellInv, ShellTypeOK, PressIsOfFrame, ChoicesAnswer, FocusIsDrawn
  <2> QED BY <2>1, <2>2, <2>3 DEF ShellInv
<1>12. CASE MoveFocus
  <2>1. ShellTypeOK'
    BY <1>12, ShellBounds DEF MoveFocus, Around, ShellInv, ShellTypeOK, FocusPanels, Overlays
  <2>2. OneOverlay'
    BY <1>12 DEF MoveFocus, Around, ShellInv, ShellTypeOK, OneOverlay, Overlays
  <2>3. PressIsOfFrame' /\ ChoicesAnswer' /\ FocusIsDrawn' /\ wrong' = {}
    BY <1>12 DEF MoveFocus, Around, ShellInv, ShellTypeOK, PressIsOfFrame, ChoicesAnswer, FocusIsDrawn
  <2> QED BY <2>1, <2>2, <2>3 DEF ShellInv
<1>13. CASE ToggleGithub
  <2>1. ShellTypeOK'
    BY <1>13, ShellBounds DEF ToggleGithub, ShellInv, ShellTypeOK, FocusPanels, Overlays
  <2>2. OneOverlay'
    BY <1>13 DEF ToggleGithub, ShellInv, ShellTypeOK, OneOverlay, Overlays
  <2>3. PressIsOfFrame' /\ ChoicesAnswer' /\ FocusIsDrawn' /\ wrong' = {}
    BY <1>13 DEF ToggleGithub, ShellInv, ShellTypeOK, PressIsOfFrame, ChoicesAnswer, FocusIsDrawn
  <2> QED BY <2>1, <2>2, <2>3 DEF ShellInv
<1>14. CASE \E p \in FocusPanels : PressLeft(p)
  <2>1. ShellTypeOK'
    <3>1. press' \in [pane : FocusPanels, frame : 0 .. MaxSizes] \cup {None}
      BY <1>14 DEF PressLeft, ShellInv, ShellTypeOK
    <3> QED BY <1>14, <3>1 DEF PressLeft, ShellInv, ShellTypeOK
  <2>2. OneOverlay'
    BY <1>14 DEF PressLeft, Drawn, ShellInv, ShellTypeOK, OneOverlay, Overlays
  <2>3. PressIsOfFrame' /\ ChoicesAnswer' /\ FocusIsDrawn' /\ wrong' = {}
    BY <1>14 DEF PressLeft, Drawn, ShellInv, ShellTypeOK, PressIsOfFrame, ChoicesAnswer, FocusIsDrawn
  <2> QED BY <2>1, <2>2, <2>3 DEF ShellInv
<1>15. CASE \E p \in FocusPanels : PressRight(p)
  <2>1. ShellTypeOK'
    <3>1. open' \subseteq Overlays /\ searches' \subseteq {"changes", "graph", "files"}
      BY <1>15 DEF PressRight, ShellInv, ShellTypeOK, Overlays
    <3>2. Clears /\ UNCHANGED <<focus, showsHelp, wrong>> /\ UNCHANGED frameVars /\ UNCHANGED pickVars
      BY <1>15 DEF PressRight
    <3> QED BY <3>1, <3>2, ClearedType DEF ShellInv
  <2>2. OneOverlay'
    <3>1. open = {} /\ ~showsHelp /\ showsHelp' = showsHelp
      BY <1>15 DEF PressRight
    <3>2. \E o \in Overlays : open' = {o}
      BY <1>15, <3>1 DEF PressRight, Overlays
    <3> QED BY <3>1, <3>2 DEF OneOverlay
  <2>3. PressIsOfFrame' /\ ChoicesAnswer' /\ FocusIsDrawn' /\ wrong' = {}
    BY <1>15 DEF PressRight, Drawn, ShellInv, ShellTypeOK, PressIsOfFrame, ChoicesAnswer, FocusIsDrawn
  <2> QED BY <2>1, <2>2, <2>3 DEF ShellInv
<1>16. CASE Drag
  <2>1. ShellTypeOK'
    BY <1>16, ShellBounds DEF Drag, ShellInv, ShellTypeOK, FocusPanels, Overlays
  <2>2. OneOverlay'
    BY <1>16 DEF Drag, ShellInv, ShellTypeOK, OneOverlay, Overlays
  <2>3. PressIsOfFrame' /\ ChoicesAnswer' /\ FocusIsDrawn' /\ wrong' = {}
    BY <1>16 DEF Drag, ShellInv, ShellTypeOK, PressIsOfFrame, ChoicesAnswer, FocusIsDrawn
  <2> QED BY <2>1, <2>2, <2>3 DEF ShellInv
<1>17. CASE Release
  <2>1. ShellTypeOK'
    BY <1>17, ShellBounds DEF Release, ShellInv, ShellTypeOK, FocusPanels, Overlays
  <2>2. OneOverlay'
    BY <1>17 DEF Release, ShellInv, ShellTypeOK, OneOverlay, Overlays
  <2>3. PressIsOfFrame' /\ ChoicesAnswer' /\ FocusIsDrawn' /\ wrong' = {}
    BY <1>17 DEF Release, ShellInv, ShellTypeOK, PressIsOfFrame, ChoicesAnswer, FocusIsDrawn
  <2> QED BY <2>1, <2>2, <2>3 DEF ShellInv
<1>18. CASE Resize
  <2>1. ShellTypeOK'
    BY <1>18, ShellBounds DEF Resize, ShellInv, ShellTypeOK, FocusPanels, Overlays
  <2>2. OneOverlay'
    BY <1>18 DEF Resize, ShellInv, ShellTypeOK, OneOverlay, Overlays
  <2>3. PressIsOfFrame' /\ ChoicesAnswer' /\ FocusIsDrawn' /\ wrong' = {}
    BY <1>18 DEF Resize, ShellInv, ShellTypeOK, PressIsOfFrame, ChoicesAnswer, FocusIsDrawn
  <2> QED BY <2>1, <2>2, <2>3 DEF ShellInv
<1>19. CASE Draw
  <2>1. ShellTypeOK'
    BY <1>19, ShellBounds DEF Draw, KeepsPress, ShellInv, ShellTypeOK, FocusPanels, Overlays
  <2>2. OneOverlay'
    BY <1>19 DEF Draw, KeepsPress, ShellInv, ShellTypeOK, OneOverlay, Overlays
  <2>3. PressIsOfFrame' /\ ChoicesAnswer' /\ FocusIsDrawn' /\ wrong' = {}
    BY <1>19 DEF Draw, KeepsPress, ShellInv, ShellTypeOK, PressIsOfFrame, ChoicesAnswer, FocusIsDrawn
  <2> QED BY <2>1, <2>2, <2>3 DEF ShellInv
<1>20. CASE \E g \in 1 .. MaxPicks, ok \in BOOLEAN : PlacementsLoaded(g, ok)
  <2>1. ShellTypeOK'
    <3>1. /\ UNCHANGED <<focus, showsHelp, searches, generation, wrong, desktop, shown, want, size, drawn,
                         press, selected>>
          /\ loads' \subseteq loads /\ open' \subseteq open
          /\ choices' \in {choices, None, "launch"} /\ pending' \in {pending, None}
      BY <1>20 DEF PlacementsLoaded
    <3> QED BY <3>1 DEF ShellInv, ShellTypeOK
  <2>2. OneOverlay'
    <3>1. open' \subseteq open /\ showsHelp' = showsHelp
      BY <1>20 DEF PlacementsLoaded
    <3> QED BY <3>1 DEF ShellInv, OneOverlay
  <2>3. PressIsOfFrame' /\ ChoicesAnswer' /\ FocusIsDrawn' /\ wrong' = {}
    BY <1>20 DEF PlacementsLoaded, Fits, ShellInv, ShellTypeOK, PressIsOfFrame, ChoicesAnswer, FocusIsDrawn
  <2> QED BY <2>1, <2>2, <2>3 DEF ShellInv
<1>21. CASE UNCHANGED shellVars
  BY <1>21 DEF shellVars, ShellInv, ShellTypeOK, OneOverlay, PressIsOfFrame, ChoicesAnswer, FocusIsDrawn
<1> QED
  BY <1>1, <1>2, <1>3, <1>4, <1>5, <1>6, <1>7, <1>8, <1>9, <1>10, <1>11, <1>12, <1>13, <1>14,
     <1>15, <1>16, <1>17, <1>18, <1>19, <1>20, <1>21 DEF ShellNext

(* The invariant holds throughout.                                         *)
THEOREM ShellInvHolds == ShellSpec => []ShellInv
<1>1. ShellInit => ShellInv
  BY ShellInitInv
<1>2. ShellInv /\ [ShellNext]_shellVars => ShellInv'
  BY ShellStepInv
<1> QED BY <1>1, <1>2, PTL DEF ShellSpec

(* The state of the overlays, the gestures and the picker keeps its types. *)
THEOREM ShellTypeCorrect == ShellSpec => []ShellTypeOK
<1>1. ShellInv => ShellTypeOK
  BY DEF ShellInv
<1> QED BY <1>1, ShellInvHolds, PTL

(* Keys, clicks, deferred clicks and choices land on what the user saw     *)
(* (handle_key_event, handle_mouse_event, draw, finish_placement_picker).  *)
THEOREM InputAlwaysLands == ShellSpec => []InputLands
<1>1. ShellInv => KeysGoToTop
  <2> SUFFICES ASSUME ShellInv PROVE KeysGoToTop
    OBVIOUS
  <2>1. focus = "github" => shown
    BY DEF ShellInv, FocusIsDrawn
  <2>2. CASE open = {}
    BY <2>1, <2>2 DEF KeysGoToTop, OnTop, KeyReceiver, MouseReceiver
  <2>3. ASSUME NEW o \in open PROVE KeysGoToTop
    <3>1. open = {o} /\ ~showsHelp /\ o \in Overlays
      BY <2>3 DEF ShellInv, ShellTypeOK, OneOverlay
    <3>2. OnTop = o
      BY <3>1 DEF Overlays, OnTop
    <3>3. KeyReceiver = o \/ (o = "context" /\ KeyReceiver = "search")
      BY <3>1 DEF Overlays, KeyReceiver
    <3>4. /\ o \in {"menu", "filter", "context"} => MouseReceiver = o
          /\ o \in {"picker", "theme", "path", "confirm"} => MouseReceiver = "nobody"
      BY <3>1 DEF MouseReceiver
    <3> QED BY <2>1, <3>1, <3>2, <3>3, <3>4 DEF Overlays, KeysGoToTop
  <2> QED BY <2>2, <2>3
<1>2. ShellInv => InputLands
  BY <1>1 DEF ShellInv, AnswersLand, InputLands
<1> QED BY <1>2, ShellInvHolds, PTL

-----------------------------------------------------------------------------
(* The registry, its lock and the processes (ProcessGroups).               *)

(* What the place of its thread says of an operation's process: nothing    *)
(* runs before it was spawned, it is not waited for while the thread may   *)
(* still signal it, and when the thread is through the leader is gone.     *)
ThreadInv(o) ==
  /\ op[o] \in {"idle", "begun", "locked"} => proc[o] = "none" /\ ~helper[o]
  /\ op[o] \in {"spawned", "waiting"} => proc[o] \in {"run", "zombie"}
  /\ op[o] \in {"locked", "spawned"} => o \in Killable /\ lock = o
  /\ op[o] = "drain" => OpKind[o] # "fetch"
  /\ op[o] = "drain" => proc[o] \in (IF Keeps(o) THEN {"zombie"} ELSE {"gone", "stranger"})
  /\ op[o] = "reap" => proc[o] = "zombie"
  /\ op[o] = "leave" => proc[o] \in {"gone", "stranger"}
  /\ op[o] = "done" => proc[o] \in {"none", "gone", "stranger"}
  /\ helper[o] => proc[o] \in {"run", "zombie", "gone"}

InFlight == {o \in Killable : op[o] \in {"waiting", "drain", "reap", "leave"}}

Taken == app \in {"killing", "exited"}

(* Until the snapshot is taken the registry is what is in flight; after it *)
(* nothing is started, and what is not doomed has come to its end.         *)
RegistryInv ==
  /\ lock # None => op[lock] \in {"locked", "spawned"}
  /\ ~Taken => killable = InFlight
  /\ Taken => /\ leaving
              /\ \A o \in Ops : op[o] # "spawned"
              /\ \A o \in Killable \ doomed :
                   proc[o] # "run" /\ (helper[o] => proc[o] = "gone" /\ op[o] = "done")
  /\ app = "exited" => doomed = {}

ProcInv ==
  /\ ProcTypeOK
  /\ \A o \in Ops : ThreadInv(o)
  /\ RegistryInv
  /\ app = "left" => Guarded = {}
  /\ cut = {}
  /\ "capture" \notin strangers

(* Before any operation the registry is empty and so is the lock.          *)
LEMMA ProcInitInv == ProcInit => ProcInv
BY OpsAssumption
   DEF ProcInit, ProcInv, ProcTypeOK, ThreadInv, RegistryInv, InFlight, Taken, Guarded, Killable

-----------------------------------------------------------------------------
(* The threads of the operations.                                          *)

(* Scheduling happens in the main loop only, so never once it has left.    *)
LEMMA ScheduleInv == ASSUME NEW o \in Ops, ProcInv, Schedule(o) PROVE ProcInv'
BY OpsAssumption
   DEF Schedule, Moves, MainLoop, ProcInv, ProcTypeOK, ThreadInv, RegistryInv, InFlight, Taken, Guarded, Killable, Keeps

(* Taking the lock.                                                        *)
LEMMA LockInv == ASSUME NEW o \in Ops, ProcInv, Lock(o) PROVE ProcInv'
BY OpsAssumption
   DEF Lock, Moves, Threads, ProcInv, ProcTypeOK, ThreadInv, RegistryInv, InFlight, Taken, Guarded, Killable, Keeps

(* Spawning: refused once the flag is up.                                  *)
LEMMA SpawnInv == ASSUME NEW o \in Ops, ProcInv, Spawn(o) PROVE ProcInv'
BY OpsAssumption
   DEF Spawn, Moves, Threads, ProcInv, ProcTypeOK, ThreadInv, RegistryInv, InFlight, Taken, Guarded, Killable, Keeps

(* Registering, still under the lock.                                      *)
LEMMA RegisterInv == ASSUME NEW o \in Ops, ProcInv, Register(o) PROVE ProcInv'
BY OpsAssumption
   DEF Register, Moves, Threads, ProcInv, ProcTypeOK, ThreadInv, RegistryInv, InFlight, Taken, Guarded, Killable, Keeps
(* gh is never in the registry.                                            *)
LEMMA SpawnGhInv == ASSUME NEW o \in Ops, ProcInv, SpawnGh(o) PROVE ProcInv'
BY OpsAssumption
   DEF SpawnGh, Moves, Threads, ProcInv, ProcTypeOK, ThreadInv, RegistryInv, InFlight, Taken, Guarded, Killable, Keeps

(* Waiting for the leader, or keeping it a zombie.                         *)
LEMMA NoticeExitInv == ASSUME NEW o \in Ops, ProcInv, NoticeExit(o) PROVE ProcInv'
BY OpsAssumption
   DEF NoticeExit, Moves, Threads, ProcInv, ProcTypeOK, ThreadInv, RegistryInv, InFlight, Taken, Guarded, Killable, Keeps

(* The deadline kills a group whose leader was not waited for.             *)
LEMMA TimeOutInv == ASSUME NEW o \in Ops, ProcInv, TimeOut(o) PROVE ProcInv'
BY OpsAssumption
   DEF TimeOut, Moves, Threads, Signal, ProcInv, ProcTypeOK, ThreadInv, RegistryInv, InFlight, Taken, Guarded, Killable, Keeps

(* The pipes are closed.                                                   *)
LEMMA DrainedInv == ASSUME NEW o \in Ops, ProcInv, Drained(o) PROVE ProcInv'
BY OpsAssumption
   DEF Drained, Moves, Threads, ProcInv, ProcTypeOK, ThreadInv, RegistryInv, InFlight, Taken, Guarded, Killable, Keeps

(* Only a session probe kills here, and it kept its leader.                *)
LEMMA GraceOverInv == ASSUME NEW o \in Ops, ProcInv, GraceOver(o) PROVE ProcInv'
<1>1. CASE OpKind[o] = "mutate"
  <2>1. proc' = proc /\ helper' = helper /\ strangers' = strangers
    BY <1>1 DEF GraceOver
  <2>2. op' = [op EXCEPT ![o] = "leave"] /\ UNCHANGED <<lock, killable, leaving, app, doomed, cut>>
    BY <1>1 DEF GraceOver, Moves
  <2>3. op[o] = "drain" /\ proc[o] \in {"gone", "stranger"}
    BY <1>1, OpsAssumption DEF GraceOver, ProcInv, ThreadInv, Keeps
  <2> QED
    BY <1>1, <2>1, <2>2, <2>3, OpsAssumption
       DEF ProcInv, ProcTypeOK, ThreadInv, RegistryInv, InFlight, Taken, Guarded, Killable, Keeps
<1>2. CASE OpKind[o] = "session"
  <2>1. /\ proc[o] = "zombie" /\ proc' = proc /\ strangers' = strangers
        /\ helper' = [helper EXCEPT ![o] = FALSE]
    BY <1>2, OpsAssumption DEF GraceOver, Signal, ProcInv, ProcTypeOK, ThreadInv, Keeps
  <2> QED
    BY <1>2, <2>1, OpsAssumption
       DEF GraceOver, Moves, ProcInv, ProcTypeOK, ThreadInv, RegistryInv, InFlight, Taken, Guarded, Killable, Keeps
<1> QED BY <1>1, <1>2, OpsAssumption DEF GraceOver, ProcInv, ThreadInv

(* gh may signal an id that was given back: it is said so, and only for gh.*)
LEMMA GhFailsInv == ASSUME NEW o \in Ops, ProcInv, GhFails(o) PROVE ProcInv'
BY OpsAssumption
   DEF GhFails, Moves, Threads, Signal, ProcInv, ProcTypeOK, ThreadInv, RegistryInv, InFlight, Taken, Guarded, Killable, Keeps

(* The leader is waited for.                                               *)
LEMMA ReapInv == ASSUME NEW o \in Ops, ProcInv, Reap(o) PROVE ProcInv'
BY OpsAssumption
   DEF Reap, Moves, Threads, ProcInv, ProcTypeOK, ThreadInv, RegistryInv, InFlight, Taken, Guarded, Killable, Keeps

(* The operation leaves the registry.                                      *)
LEMMA UnregisterInv == ASSUME NEW o \in Ops, ProcInv, Unregister(o) PROVE ProcInv'
BY OpsAssumption
   DEF Unregister, Moves, Threads, ProcInv, ProcTypeOK, ThreadInv, RegistryInv, InFlight, Taken, Guarded, Killable, Keeps

-----------------------------------------------------------------------------
(* The operating system.                                                   *)

(* A helper is started by a running leader.                                *)
LEMMA ForkInv == ASSUME NEW o \in Ops, ProcInv, Fork(o) PROVE ProcInv'
BY OpsAssumption
   DEF Fork, ProcInv, ProcTypeOK, ThreadInv, RegistryInv, InFlight, Taken, Guarded, Killable, Keeps

(* A leader ends.                                                          *)
LEMMA LeaderExitsInv == ASSUME NEW o \in Ops, ProcInv, LeaderExits(o) PROVE ProcInv'
BY OpsAssumption
   DEF LeaderExits, ProcInv, ProcTypeOK, ThreadInv, RegistryInv, InFlight, Taken, Guarded, Killable, Keeps

(* A helper ends.                                                          *)
LEMMA HelperExitsInv == ASSUME NEW o \in Ops, ProcInv, HelperExits(o) PROVE ProcInv'
BY OpsAssumption
   DEF HelperExits, ProcInv, ProcTypeOK, ThreadInv, RegistryInv, InFlight, Taken, Guarded, Killable, Keeps

(* An id is given to another program.                                      *)
LEMMA RecycleInv == ASSUME NEW o \in Ops, ProcInv, Recycle(o) PROVE ProcInv'
BY OpsAssumption
   DEF Recycle, ProcInv, ProcTypeOK, ThreadInv, RegistryInv, InFlight, Taken, Guarded, Killable, Keeps

-----------------------------------------------------------------------------
(* The main thread.                                                        *)

(* The first `q'.                                                          *)
LEMMA QuitInv == ASSUME ProcInv, Quit PROVE ProcInv'
BY OpsAssumption
   DEF Quit, Main, ProcInv, ProcTypeOK, ThreadInv, RegistryInv, InFlight, Taken, Guarded, Killable, Keeps

(* The second.                                                             *)
LEMMA QuitAgainInv == ASSUME ProcInv, QuitAgain PROVE ProcInv'
BY OpsAssumption
   DEF QuitAgain, Main, ProcInv, ProcTypeOK, ThreadInv, RegistryInv, InFlight, Taken, Guarded, Killable, Keeps

(* Leaving waits for what is guarded, unless forced.                       *)
LEMMA LeaveInv == ASSUME ProcInv, Leave PROVE ProcInv'
BY OpsAssumption
   DEF Leave, Ready, Main, ProcInv, ProcTypeOK, ThreadInv, RegistryInv, InFlight, Taken, Guarded, Killable, Keeps

(* A panic.                                                                *)
LEMMA PanicInv == ASSUME ProcInv, Panic PROVE ProcInv'
BY OpsAssumption
   DEF Panic, Main, ProcInv, ProcTypeOK, ThreadInv, RegistryInv, InFlight, Taken, Guarded, Killable, Keeps

(* Its wait ends with nothing guarded, or in a hurry.                      *)
LEMMA PanicWaitedInv == ASSUME ProcInv, PanicWaited PROVE ProcInv'
BY OpsAssumption
   DEF PanicWaited, Main, ProcInv, ProcTypeOK, ThreadInv, RegistryInv, InFlight, Taken, Guarded, Killable, Keeps

(* The flag.                                                               *)
LEMMA FlagInv == ASSUME ProcInv, Flag PROVE ProcInv'
BY OpsAssumption
   DEF Flag, Main, ProcInv, ProcTypeOK, ThreadInv, RegistryInv, InFlight, Taken, Guarded, Killable, Keeps

(* The snapshot, with the lock free: nothing is between spawn and register.*)
LEMMA TakeInv == ASSUME ProcInv, Take PROVE ProcInv'
BY OpsAssumption
   DEF Take, MayTake, ProcInv, ProcTypeOK, ThreadInv, RegistryInv, InFlight, Taken, Guarded, Killable, Keeps

(* A doomed group is killed, and never runs again.                         *)
LEMMA KillOneInv == ASSUME NEW o \in Ops, ProcInv, KillOne(o) PROVE ProcInv'
BY OpsAssumption
   DEF KillOne, Signal, ProcInv, ProcTypeOK, ThreadInv, RegistryInv, InFlight, Taken, Guarded, Killable, Keeps

(* The end.                                                                *)
LEMMA ExitInv == ASSUME ProcInv, Exit PROVE ProcInv'
BY OpsAssumption
   DEF Exit, Main, ProcInv, ProcTypeOK, ThreadInv, RegistryInv, InFlight, Taken, Guarded, Killable, Keeps

-----------------------------------------------------------------------------
(* Every step keeps the invariant.                                         *)
LEMMA ProcStepInv == ProcInv /\ [ProcNext]_procVars => ProcInv'
<1> SUFFICES ASSUME ProcInv, [ProcNext]_procVars PROVE ProcInv'
  OBVIOUS
<1>1. CASE \E o \in Ops :
             \/ Schedule(o) \/ Lock(o) \/ Spawn(o) \/ Register(o) \/ SpawnGh(o)
             \/ NoticeExit(o) \/ TimeOut(o) \/ Drained(o) \/ GraceOver(o) \/ GhFails(o)
             \/ Reap(o) \/ Unregister(o)
  BY <1>1, ScheduleInv, LockInv, SpawnInv, RegisterInv, SpawnGhInv, NoticeExitInv, TimeOutInv,
     DrainedInv, GraceOverInv, GhFailsInv, ReapInv, UnregisterInv
<1>2. CASE \E o \in Ops : Fork(o) \/ LeaderExits(o) \/ HelperExits(o) \/ Recycle(o)
  BY <1>2, ForkInv, LeaderExitsInv, HelperExitsInv, RecycleInv
<1>3. CASE Quit \/ QuitAgain \/ Leave \/ Panic \/ PanicWaited \/ Flag \/ Take \/ Exit
  BY <1>3, QuitInv, QuitAgainInv, LeaveInv, PanicInv, PanicWaitedInv, FlagInv, TakeInv, ExitInv
<1>4. CASE \E o \in Ops : KillOne(o)
  BY <1>4, KillOneInv
<1>5. CASE UNCHANGED procVars
  BY <1>5 DEF procVars, ProcInv, ProcTypeOK, ThreadInv, RegistryInv, InFlight, Taken, Guarded, Killable, Keeps
<1> QED BY <1>1, <1>2, <1>3, <1>4, <1>5 DEF ProcNext

(* The invariant holds throughout.                                         *)
THEOREM ProcInvHolds == ProcSpec => []ProcInv
<1>1. ProcInit => ProcInv
  BY ProcInitInv
<1>2. ProcInv /\ [ProcNext]_procVars => ProcInv'
  BY ProcStepInv
<1> QED BY <1>1, <1>2, PTL DEF ProcSpec

(* The state of the threads, the processes and the registry keeps its      *)
(* types.                                                                  *)
THEOREM ProcTypeCorrect == ProcSpec => []ProcTypeOK
<1>1. ProcInv => ProcTypeOK
  BY DEF ProcInv
<1> QED BY <1>1, ProcInvHolds, PTL

(* Leaving kills every Git and probe process and waits for the guarded     *)
(* ones, and no thread signals the group of another program (main,         *)
(* kill_in_flight_git_ops, spawn_killable, capture_with_limit).            *)
THEOREM ProcessesAreEnded == ProcSpec => []ProcessesEnd
<1>1. ProcInv => NothingRunsOn
  BY DEF ProcInv, RegistryInv, Taken, NothingRunsOn
<1>2. ProcInv => QuitWaits /\ SignalsOwn
  BY DEF ProcInv, QuitWaits, SignalsOwn
<1>3. ProcInv => ProcessesEnd
  BY <1>1, <1>2 DEF ProcessesEnd
<1> QED BY <1>3, ProcInvHolds, PTL

-----------------------------------------------------------------------------
(* The power of the loop and of App (PowerLoop).                           *)

(* What the proof needs of the types.                                      *)
PowerTypes ==
  /\ probe.last \in Powers \cup {None} /\ probe.read \in Powers \cup {None}
  /\ reports \in Seq(Powers)
  /\ loop = [alive |-> loop.alive, power |-> loop.power, due |-> loop.due, told |-> loop.told]
  /\ loop.alive \in BOOLEAN /\ loop.told \in BOOLEAN /\ loop.power \in Powers
  /\ events \in Seq(Powers \cup {"Init", "Other"}) /\ power \in Powers

(* The last verdict on its way to the loop is the last one of the probe; if *)
(* none is on its way the loop has it.  A new probe has sent nothing.      *)
LoopFollows ==
  /\ reports # <<>> => reports[Len(reports)] = probe.last
  /\ reports = <<>> /\ probe.last # None => loop.told /\ loop.power = probe.last
  /\ ~loop.alive => probe.last = None
  /\ probe.last = None => reports = <<>>

(* The last verdict on its way to App is that of the loop; if none is on    *)
(* its way App has it.  This starts with the first report to the loop:     *)
(* until then App may have the verdict of an earlier loop.                 *)
NoVerdict(s) == \A i \in DOMAIN s : s[i] \notin Powers
LastVerdict(s, v) ==
  \A i \in DOMAIN s : s[i] \in Powers /\ (\A j \in DOMAIN s : j > i => s[j] \notin Powers) => s[i] = v
AppFollows ==
  loop.told => /\ NoVerdict(events) => power = loop.power
               /\ LastVerdict(events, loop.power)

(* The fetch timer that went on in sleep is restarted on waking.           *)
FetchIsRestarted == (loop.power = "Awake" => ~slept) /\ slept \in BOOLEAN /\ ~surprised

PowerInv == PowerTypes /\ LoopFollows /\ AppFollows /\ FetchIsRestarted

(* An event behind the others.                                             *)
LEMMA EventAppended ==
  ASSUME NEW T, NEW s \in Seq(T), NEW e, NEW v, NEW t, t = Append(s, e)
  PROVE  /\ e \notin Powers => /\ NoVerdict(t) <=> NoVerdict(s)
                               /\ LastVerdict(s, v) => LastVerdict(t, v)
         /\ e \in Powers => ~NoVerdict(t) /\ LastVerdict(t, e)
<1>1. PICK n : n = Len(s)
  OBVIOUS
<1>2. n \in Nat /\ DOMAIN s = 1..n
  BY <1>1, LenProperties
<1>4. DOMAIN t = 1..(n + 1) /\ t[n + 1] = e /\ \A i \in 1..n : t[i] = s[i]
  BY <1>1, <1>2
<1>5. ASSUME e \notin Powers
      PROVE  (NoVerdict(t) <=> NoVerdict(s)) /\ (LastVerdict(s, v) => LastVerdict(t, v))
  <2>1. NoVerdict(t) <=> NoVerdict(s)
    BY <1>2, <1>4, <1>5 DEF NoVerdict
  <2>2. ASSUME LastVerdict(s, v), NEW i \in DOMAIN t, t[i] \in Powers, \A j \in DOMAIN t : j > i => t[j] \notin Powers
        PROVE  t[i] = v
    <3>1. i \in 1..n /\ s[i] \in Powers
      BY <1>2, <1>4, <1>5, <2>2
    <3>2. \A j \in DOMAIN s : j > i => s[j] \notin Powers
      BY <1>2, <1>4, <2>2
    <3> QED BY <1>2, <1>4, <2>2, <3>1, <3>2 DEF LastVerdict
  <2> QED BY <2>1, <2>2 DEF LastVerdict
<1>6. ASSUME e \in Powers PROVE ~NoVerdict(t) /\ LastVerdict(t, e)
  <2>1. n + 1 \in DOMAIN t /\ \A i \in DOMAIN t : i # n + 1 => n + 1 > i
    BY <1>2, <1>4
  <2> QED BY <1>4, <1>6, <2>1 DEF NoVerdict, LastVerdict
<1> QED BY <1>5, <1>6

(* App takes the first event.                                              *)
LEMMA EventTaken ==
  ASSUME NEW T, NEW s \in Seq(T), s # <<>>, NEW v
  PROVE  /\ Head(s) \notin Powers => (NoVerdict(Tail(s)) <=> NoVerdict(s))
         /\ LastVerdict(s, v) => /\ LastVerdict(Tail(s), v)
                                 /\ Head(s) \in Powers /\ NoVerdict(Tail(s)) => Head(s) = v
<1>1. PICK n : n = Len(s)
  OBVIOUS
<1>2. n \in Nat /\ n # 0 /\ DOMAIN s = 1..n
  BY <1>1, LenProperties, EmptySeq
<1>3. PICK t : t = Tail(s)
  OBVIOUS
<1>4. DOMAIN t = 1..(n - 1) /\ (\A i \in 1..(n - 1) : t[i] = s[i + 1]) /\ Head(s) = s[1]
  BY <1>1, <1>2, <1>3
<1>5. \A i \in DOMAIN s : i # 1 => i - 1 \in DOMAIN t /\ s[i] = t[i - 1]
  BY <1>2, <1>4
<1>6. ASSUME Head(s) \notin Powers PROVE NoVerdict(t) <=> NoVerdict(s)
  <2>1. \A i \in DOMAIN t : i + 1 \in DOMAIN s /\ t[i] = s[i + 1]
    BY <1>2, <1>4
  <2> QED BY <1>2, <1>4, <1>5, <1>6, <2>1 DEF NoVerdict
<1>7. ASSUME LastVerdict(s, v) PROVE LastVerdict(t, v)
  <2> SUFFICES ASSUME NEW i \in DOMAIN t, t[i] \in Powers, \A j \in DOMAIN t : j > i => t[j] \notin Powers
               PROVE  t[i] = v
    BY DEF LastVerdict
  <2>1. i + 1 \in DOMAIN s /\ t[i] = s[i + 1]
    BY <1>2, <1>4
  <2>2. ASSUME NEW j \in DOMAIN s, j > i + 1 PROVE s[j] \notin Powers
    <3>1. j # 1 /\ j - 1 > i
      BY <1>2, <1>4, <2>2
    <3> QED BY <1>5, <2>2, <3>1
  <2> QED BY <1>7, <2>1, <2>2 DEF LastVerdict
<1>8. ASSUME LastVerdict(s, v), Head(s) \in Powers, NoVerdict(t) PROVE Head(s) = v
  <2>1. 1 \in DOMAIN s /\ s[1] \in Powers
    BY <1>2, <1>4, <1>8
  <2>2. \A j \in DOMAIN s : j > 1 => s[j] \notin Powers
    BY <1>2, <1>5, <1>8 DEF NoVerdict
  <2> QED BY <1>4, <1>8, <2>1, <2>2 DEF LastVerdict
<1> QED BY <1>3, <1>6, <1>7, <1>8

(* A verdict behind the others, and the first one taken.                   *)
LEMMA ReportAppended ==
  ASSUME NEW s \in Seq(Powers), NEW v \in Powers
  PROVE  Append(s, v) \in Seq(Powers) /\ Append(s, v) # <<>> /\ Append(s, v)[Len(Append(s, v))] = v
<1>1. PICK n : n = Len(s)
  OBVIOUS
<1>2. n \in Nat
  BY <1>1, LenProperties
<1>3. PICK t : t = Append(s, v)
  OBVIOUS
<1>4. t \in Seq(Powers) /\ Len(t) = n + 1 /\ t[n + 1] = v
  BY <1>1, <1>2, <1>3
<1> QED BY <1>2, <1>3, <1>4, EmptySeq

LEMMA ReportTaken ==
  ASSUME NEW s \in Seq(Powers), s # <<>>
  PROVE  /\ Head(s) \in Powers /\ Tail(s) \in Seq(Powers)
         /\ IF Tail(s) = <<>> THEN s[Len(s)] = Head(s) ELSE Tail(s)[Len(Tail(s))] = s[Len(s)]
<1>1. PICK n : n = Len(s)
  OBVIOUS
<1>2. n \in Nat /\ n # 0 /\ DOMAIN s = 1..n
  BY <1>1, LenProperties, EmptySeq
<1>3. PICK t : t = Tail(s)
  OBVIOUS
<1>4. t \in Seq(Powers) /\ Len(t) = n - 1 /\ (\A i \in 1..(n - 1) : t[i] = s[i + 1]) /\ Head(s) = s[1]
  BY <1>1, <1>2, <1>3
<1>5. t = <<>> <=> n = 1
  BY <1>2, <1>4, EmptySeq
<1> QED BY <1>1, <1>2, <1>3, <1>4, <1>5

(* A new loop and a new probe.                                             *)
LEMMA PowerInitInv == PowerInit => PowerInv
<1> SUFFICES ASSUME PowerInit PROVE PowerInv
  OBVIOUS
<1>1. probe.last = None /\ probe.read = None
  BY DEF PowerInit, NewProbe
<1>2. /\ loop.alive = TRUE /\ loop.power = "Awake" /\ loop.told = FALSE
      /\ loop = [alive |-> loop.alive, power |-> loop.power, due |-> loop.due, told |-> loop.told]
  BY DEF PowerInit, NewLoop
<1>3. events \in Seq(Powers \cup {"Init", "Other"}) /\ reports \in Seq(Powers)
  BY DEF PowerInit
<1>4. PowerTypes
  BY <1>1, <1>2, <1>3 DEF PowerInit, PowerTypes, Powers
<1>5. LoopFollows /\ AppFollows /\ FetchIsRestarted
  BY <1>1, <1>2 DEF PowerInit, LoopFollows, AppFollows, FetchIsRestarted
<1> QED BY <1>4, <1>5 DEF PowerInv

(* A probe reports, unless it would repeat itself.                         *)
LEMMA EmitKeeps ==
  ASSUME PowerBounds, PowerInv, loop.alive, NEW v, v \in Powers, Emit(v), UNCHANGED <<loop, events, power, slept, surprised>>
  PROVE  PowerInv'
<1>1. probe'.last = v /\ probe'.read = None
  BY DEF Emit
<1>2. v # None
  BY DEF PowerBounds
<1>3. reports' = IF probe.last = v THEN reports ELSE Append(reports, v)
  BY DEF Emit
<1>4. reports \in Seq(Powers)
  BY DEF PowerInv, PowerTypes
<1>5. CASE probe.last = v
  <2>1. reports' = reports
    BY <1>3, <1>5
  <2> QED BY <1>1, <1>2, <1>5, <2>1
          DEF PowerInv, PowerTypes, LoopFollows, AppFollows, FetchIsRestarted
<1>6. CASE probe.last # v
  <2>1. PICK s : s = Append(reports, v)
    OBVIOUS
  <2>2. s \in Seq(Powers) /\ s # <<>> /\ s[Len(s)] = v
    BY <1>4, <2>1, ReportAppended
  <2>3. reports' = s
    BY <1>3, <1>6, <2>1
  <2> QED BY <1>1, <1>2, <2>2, <2>3
          DEF PowerInv, PowerTypes, LoopFollows, AppFollows, FetchIsRestarted
<1> QED BY <1>5, <1>6

(* The loop takes a verdict and tells App.                                 *)
LEMMA LoopPowerKeeps == ASSUME PowerInv, LoopPower PROVE PowerInv'
<1>1. PICK v : v = Head(reports)
  OBVIOUS
<1>2. /\ v \in Powers /\ Tail(reports) \in Seq(Powers)
      /\ IF Tail(reports) = <<>> THEN probe.last = v ELSE Tail(reports)[Len(Tail(reports))] = probe.last
  BY <1>1, ReportTaken DEF PowerInv, PowerTypes, LoopFollows, LoopPower
<1>3. /\ reports' = Tail(reports) /\ events' = Append(events, v)
      /\ probe' = probe /\ power' = power /\ surprised' = surprised /\ loop.alive
  BY <1>1 DEF LoopPower
<1>4. /\ loop'.alive = TRUE /\ loop'.power = v /\ loop'.told = TRUE
      /\ loop' = [alive |-> loop'.alive, power |-> loop'.power, due |-> loop'.due, told |-> loop'.told]
  BY <1>1 DEF LoopPower
<1>5. slept' = (v # "Awake" \/ (slept /\ ~(v = "Awake" /\ loop.power # "Awake")))
  BY <1>1 DEF LoopPower
<1>6. PICK s : s = Append(events, v)
  OBVIOUS
<1>7. s \in Seq(Powers \cup {"Init", "Other"}) /\ ~NoVerdict(s) /\ LastVerdict(s, v)
  <2>1. events \in Seq(Powers \cup {"Init", "Other"})
    BY DEF PowerInv, PowerTypes
  <2>2. s \in Seq(Powers \cup {"Init", "Other"})
    BY <1>2, <1>6, <2>1
  <2> QED BY <1>2, <1>6, <2>1, <2>2, EventAppended
<1>8. PowerTypes'
  BY <1>2, <1>3, <1>4, <1>6, <1>7 DEF PowerInv, PowerTypes
<1>9. LoopFollows'
  BY <1>2, <1>3, <1>4, ReportTaken DEF PowerInv, LoopFollows, LoopPower
<1>10. AppFollows'
  BY <1>3, <1>4, <1>6, <1>7 DEF AppFollows
<1>11. FetchIsRestarted'
  BY <1>3, <1>4, <1>5 DEF PowerInv, FetchIsRestarted
<1> QED BY <1>8, <1>9, <1>10, <1>11 DEF PowerInv

(* An event that is no verdict is added.                                   *)
LEMMA OtherKeeps ==
  ASSUME PowerInv, NEW l, l = loop', l = [alive |-> loop.alive, power |-> loop.power, due |-> l.due, told |-> loop.told],
         events' = Append(events, "Other"), UNCHANGED <<probe, reports, power>>
  PROVE  PowerTypes' /\ LoopFollows' /\ AppFollows'
<1>1. PICK s : s = Append(events, "Other")
  OBVIOUS
<1>2. events \in Seq(Powers \cup {"Init", "Other"}) /\ "Other" \notin Powers
  BY DEF PowerInv, PowerTypes, Powers
<1>3. /\ s \in Seq(Powers \cup {"Init", "Other"}) /\ (NoVerdict(s) <=> NoVerdict(events))
      /\ LastVerdict(events, loop.power) => LastVerdict(s, loop.power)
  <2>1. s \in Seq(Powers \cup {"Init", "Other"})
    BY <1>1, <1>2
  <2>2. /\ NoVerdict(s) <=> NoVerdict(events)
        /\ LastVerdict(events, loop.power) => LastVerdict(s, loop.power)
    BY <1>1, <1>2, EventAppended
  <2> QED BY <2>1, <2>2
<1>4. l.alive = loop.alive /\ l.power = loop.power /\ l.told = loop.told
  OBVIOUS
<1> QED BY <1>1, <1>3, <1>4 DEF PowerInv, PowerTypes, LoopFollows, AppFollows

(* App takes an event, and knows the verdict if it is one.                 *)
LEMMA RunKeeps == ASSUME PowerInv, Run PROVE PowerInv'
<1>1. /\ events \in Seq(Powers \cup {"Init", "Other"}) /\ events # <<>>
      /\ events' = Tail(events) /\ power' = IF Head(events) \in Powers THEN Head(events) ELSE power
      /\ UNCHANGED <<probe, reports, loop, slept, surprised>>
  BY DEF Run, PowerInv, PowerTypes
<1>2. PICK t : t = Tail(events)
  OBVIOUS
<1>3. PICK e : e = Head(events)
  OBVIOUS
<1>4. t \in Seq(Powers \cup {"Init", "Other"})
  BY <1>1, <1>2
<1>5. /\ e \notin Powers => (NoVerdict(t) <=> NoVerdict(events))
      /\ LastVerdict(events, loop.power) => /\ LastVerdict(t, loop.power)
                                            /\ e \in Powers /\ NoVerdict(t) => e = loop.power
  BY <1>1, <1>2, <1>3, EventTaken
<1> QED BY <1>1, <1>2, <1>3, <1>4, <1>5
        DEF PowerInv, PowerTypes, LoopFollows, AppFollows, FetchIsRestarted

(* A command takes the terminal: loop and probe end.                       *)
LEMMA SuspendKeeps == ASSUME PowerInv, Suspend PROVE PowerInv'
<1>1. /\ events \in Seq(Powers \cup {"Init", "Other"}) /\ events # <<>> /\ Head(events) = "Other"
      /\ events' = Tail(events) /\ reports' = <<>> /\ UNCHANGED <<power, slept, surprised>>
  BY DEF Suspend, PowerInv, PowerTypes
<1>2. probe'.last = None /\ probe'.read = None
  BY DEF Suspend, NewProbe
<1>3. /\ loop'.alive = FALSE /\ loop'.power = loop.power /\ loop'.told = loop.told
      /\ loop' = [alive |-> loop'.alive, power |-> loop'.power, due |-> loop'.due, told |-> loop'.told]
  <2>1. PICK l : l = loop'
    OBVIOUS
  <2>2. l = [loop EXCEPT !.alive = FALSE]
    BY <2>1 DEF Suspend
  <2>3. loop = [alive |-> loop.alive, power |-> loop.power, due |-> loop.due, told |-> loop.told]
    BY DEF PowerInv, PowerTypes
  <2> QED BY <2>1, <2>2, <2>3
<1>4. PICK t : t = Tail(events)
  OBVIOUS
<1>5. t \in Seq(Powers \cup {"Init", "Other"}) /\ "Other" \notin Powers
  BY <1>1, <1>4 DEF Powers
<1>6. /\ NoVerdict(t) <=> NoVerdict(events)
      /\ LastVerdict(events, loop.power) => LastVerdict(t, loop.power)
  BY <1>1, <1>4, <1>5, EventTaken
<1>7. PowerTypes'
  <2>1. reports' \in Seq(Powers)
    BY <1>1
  <2>2. loop.power \in Powers /\ loop.told \in BOOLEAN /\ power \in Powers
    BY DEF PowerInv, PowerTypes
  <2> QED BY <1>1, <1>2, <1>3, <1>4, <1>5, <2>1, <2>2 DEF PowerTypes
<1>8. LoopFollows'
  BY <1>1, <1>2 DEF LoopFollows
<1>9. AppFollows' /\ FetchIsRestarted'
  BY <1>1, <1>3, <1>4, <1>6 DEF PowerInv, AppFollows, FetchIsRestarted
<1> QED BY <1>7, <1>8, <1>9 DEF PowerInv

(* The command ends: a new loop, which was told nothing yet.               *)
LEMMA ResumeKeeps == ASSUME PowerInv, Resume PROVE PowerInv'
<1>1. /\ loop'.alive = TRUE /\ loop'.power = "Awake" /\ loop'.told = FALSE
      /\ loop' = [alive |-> loop'.alive, power |-> loop'.power, due |-> loop'.due, told |-> loop'.told]
  BY DEF Resume, NewLoop
<1>2. PICK s : s = Append(events, "Init")
  OBVIOUS
<1>3. s \in Seq(Powers \cup {"Init", "Other"})
  BY <1>2 DEF PowerInv, PowerTypes
<1>4. events' = s /\ slept' = FALSE /\ UNCHANGED <<probe, reports, power, surprised>> /\ ~loop.alive
  BY <1>2 DEF Resume
<1> QED BY <1>1, <1>3, <1>4 DEF PowerInv, PowerTypes, LoopFollows, AppFollows, FetchIsRestarted, Powers

(* Every step.                                                             *)
LEMMA PowerNextInv == PowerBounds /\ PowerInv /\ [PowerNext]_powerVars => PowerInv'
<1> SUFFICES ASSUME PowerBounds, PowerInv, [PowerNext]_powerVars PROVE PowerInv'
  OBVIOUS
<1>1. ASSUME UNCHANGED <<probe, reports, loop, events, power, slept, surprised>> PROVE PowerInv'
  BY <1>1 DEF PowerInv, PowerTypes, LoopFollows, AppFollows, FetchIsRestarted
<1>2. CASE WorldMoves
  BY <1>1, <1>2 DEF WorldMoves
<1>3. CASE DeadlinePasses
  BY <1>1, <1>3 DEF DeadlinePasses
<1>4. CASE WorkEnds
  BY <1>1, <1>4 DEF WorkEnds
<1>5. ASSUME NEW timer \in Timers, Elapses(timer) PROVE PowerInv'
  <2>1. PICK l : l = loop'
    OBVIOUS
  <2>2. l = [loop EXCEPT !.due = loop.due \cup {timer}]
    BY <1>5, <2>1 DEF Elapses
  <2>3. loop = [alive |-> loop.alive, power |-> loop.power, due |-> loop.due, told |-> loop.told]
    BY DEF PowerInv, PowerTypes
  <2>4. /\ l = [alive |-> loop.alive, power |-> loop.power, due |-> l.due, told |-> loop.told]
        /\ l.alive = loop.alive /\ l.power = loop.power /\ l.told = loop.told
    BY <2>2, <2>3
  <2> QED BY <1>5, <2>1, <2>4 DEF Elapses, PowerInv, PowerTypes, LoopFollows, AppFollows, FetchIsRestarted
<1>6. CASE ProbeReads
  <2>1. PICK p : p = probe'
    OBVIOUS
  <2>2. \E v \in Powers : p = [probe EXCEPT !.read = v]
    BY <1>6, <2>1 DEF ProbeReads, Parse, Powers
  <2>3. PICK v \in Powers : p = [probe EXCEPT !.read = v]
    BY <2>2
  <2>4. /\ p.last = probe.last /\ p.read \in Powers \cup {None}
        /\ UNCHANGED <<reports, loop, events, power, slept, surprised>>
    BY <1>6, <2>3 DEF ProbeReads, PowerInv, PowerTypes
  <2> QED BY <2>1, <2>4 DEF PowerInv, PowerTypes, LoopFollows, AppFollows, FetchIsRestarted
<1>7. CASE ProbeReports
  <2>1. probe.read \in Powers
    BY <1>7 DEF ProbeReports, PowerInv, PowerTypes
  <2> QED BY <1>7, <2>1, EmitKeeps DEF ProbeReports
<1>8. CASE IdleStarts
  BY <1>8, EmitKeeps DEF IdleStarts, Powers
<1>9. CASE IdleHears
  BY <1>9, EmitKeeps DEF IdleHears, Powers
<1>10. CASE IdleEnds
  BY <1>10, EmitKeeps DEF IdleEnds, Powers
<1>11. CASE LoopPower
  BY <1>11, LoopPowerKeeps
<1>12. ASSUME NEW timer \in Timers, LoopTimer(timer) PROVE PowerInv'
  <2>1. PICK l : l = loop'
    OBVIOUS
  <2>2. l = [loop EXCEPT !.due = loop.due \ {timer}]
    BY <1>12, <2>1 DEF LoopTimer
  <2>3. loop = [alive |-> loop.alive, power |-> loop.power, due |-> loop.due, told |-> loop.told]
    BY DEF PowerInv, PowerTypes
  <2>4. /\ l = [alive |-> loop.alive, power |-> loop.power, due |-> l.due, told |-> loop.told]
        /\ l.power = loop.power
    BY <2>2, <2>3
  <2>5. PowerTypes' /\ LoopFollows' /\ AppFollows'
    BY <1>12, <2>1, <2>4, OtherKeeps DEF LoopTimer
  <2>6. timer = "fetch" => loop.power = "Awake"
    BY <1>12 DEF LoopTimer
  <2>7. FetchIsRestarted'
    BY <1>12, <2>1, <2>4, <2>6 DEF LoopTimer, PowerInv, FetchIsRestarted
  <2> QED BY <2>5, <2>7 DEF PowerInv
<1>13. CASE LoopInput
  <2>1. PICK l : l = loop
    OBVIOUS
  <2>2. /\ l = loop' /\ l = [alive |-> loop.alive, power |-> loop.power, due |-> l.due, told |-> loop.told]
        /\ events' = Append(events, "Other") /\ UNCHANGED <<probe, reports, power, slept, surprised, loop>>
    BY <1>13, <2>1 DEF LoopInput, PowerInv, PowerTypes
  <2>3. PowerTypes' /\ LoopFollows' /\ AppFollows'
    BY <2>2, OtherKeeps
  <2> QED BY <2>2, <2>3 DEF PowerInv, FetchIsRestarted
<1>14. CASE Run
  BY <1>14, RunKeeps
<1>15. CASE Suspend
  BY <1>15, SuspendKeeps
<1>16. CASE Resume
  BY <1>16, ResumeKeeps
<1>17. CASE UNCHANGED powerVars
  BY <1>1, <1>17 DEF powerVars
<1> QED BY <1>2, <1>3, <1>4, <1>5, <1>6, <1>7, <1>8, <1>9, <1>10, <1>11, <1>12, <1>13, <1>14, <1>15, <1>16, <1>17
        DEF PowerNext

(* Everything that was reported arrived: loop, probe and App agree.        *)
LEMMA PowerInvHolds == PowerInv => PowerHolds
BY DEF PowerInv, LoopFollows, AppFollows, NoVerdict, FetchIsRestarted, PowerHolds, AtRest

(* In any number of sleeps, suspensions, inputs and failed probes, outside  *)
(* tmux or in it: once every report has arrived the probe, the loop and App *)
(* agree on the power, and waking never fetches for a timer that ran out in *)
(* sleep (tui.rs and session/visibility.rs).                               *)
THEOREM PowerAlwaysHolds == ASSUME PowerBounds PROVE PowerSpec => []PowerHolds
<1>1. PowerInv /\ [PowerNext]_powerVars => PowerInv'
  BY PowerNextInv
<1> QED BY <1>1, PowerInitInv, PowerInvHolds, PTL DEF PowerSpec

-----------------------------------------------------------------------------
(* The shared configuration (ConfigSync).                                  *)


(* m differs from c by what one user did to the membership: a pin, a       *)
(* removal, a rescan, or nothing.                                          *)
Edit(c, m) ==
  \/ \E r \in Repos : m.pinned = c.pinned \cup {r} /\ m.excluded = c.excluded
  \/ \E r \in Repos : /\ m.pinned \in {c.pinned, c.pinned \ {r}}
                      /\ m.excluded \in {c.excluded, c.excluded \cup {r}}
  \/ \E S \in SUBSET Repos : m.pinned = c.pinned /\ m.excluded = c.excluded \ S

(* The inductive invariant: the lock excludes; a process starts from the   *)
(* membership of its snapshot and saves one edit of it; before there is a  *)
(* file every snapshot is the default; and a theme differs from that of    *)
(* the snapshot only if its user chose it.                                 *)
OneHolder    == \A p, q \in Holders : p = q
StartsFrom   == \A p \in Procs : SameMembers(live[p], base[p])
SavesEdit    == \A p \in Procs : saving[p] # None => Edit(base[p], saving[p].config)
NothingYet   == file = Missing => \A p \in Procs : base[p] = Default
PanesDoNotCompare == \A p \in Panes : saving[p] # None => saving[p].expected = None
ThemeOfChoice ==
  \A p \in Procs \ chosen :
    /\ p \in Panes => live[p].theme = base[p].theme
    /\ saving[p] # None => saving[p].config.theme = base[p].theme

Inv ==
  /\ TypeOK /\ ReadIsFile /\ OneHolder
  /\ StartsFrom /\ SavesEdit /\ NothingYet
  /\ PanesDoNotCompare /\ ThemeOfChoice

-----------------------------------------------------------------------------
(* The merge.                                                              *)

(* Merging an edit of a stale membership is an edit of the current one.    *)
LEMMA MergedIsEdit ==
  ASSUME NEW b \in Config, NEW s \in Config, NEW c \in Config, Edit(b, s)
  PROVE  Merged(b, s, c) \in Config /\ Edit(c, Merged(b, s, c))
<1> DEFINE m == Merged(b, s, c)
<1>1. /\ m.pinned = (c.pinned \ (b.pinned \ s.pinned)) \cup (s.pinned \ b.pinned)
      /\ m.excluded = (c.excluded \ (b.excluded \ s.excluded)) \cup (s.excluded \ b.excluded)
  BY DEF Merged, MergedSet
<1>2. m \in Config
  BY DEF Merged, MergedSet, MergedTheme, Config
<1>3. CASE \E r \in Repos : s.pinned = b.pinned \cup {r} /\ s.excluded = b.excluded
  <2>1. PICK r \in Repos : s.pinned = b.pinned \cup {r} /\ s.excluded = b.excluded
    BY <1>3
  <2>2. m.excluded = c.excluded
    BY <1>1, <2>1
  <2>3. CASE r \in b.pinned
    <3>1. m.pinned = c.pinned
      BY <1>1, <2>1, <2>3
    <3> QED BY <1>2, <3>1, <2>2 DEF Edit
  <2>4. CASE r \notin b.pinned
    <3>1. m.pinned = c.pinned \cup {r}
      BY <1>1, <2>1, <2>4
    <3> QED BY <1>2, <3>1, <2>2 DEF Edit
  <2> QED BY <1>2, <2>3, <2>4
<1>4. CASE \E r \in Repos : /\ s.pinned \in {b.pinned, b.pinned \ {r}}
                            /\ s.excluded \in {b.excluded, b.excluded \cup {r}}
  <2>1. PICK r \in Repos : /\ s.pinned \in {b.pinned, b.pinned \ {r}}
                           /\ s.excluded \in {b.excluded, b.excluded \cup {r}}
    BY <1>4
  <2>2. m.pinned \in {c.pinned, c.pinned \ {r}}
    BY <1>1, <2>1
  <2>3. m.excluded \in {c.excluded, c.excluded \cup {r}}
    BY <1>1, <2>1
  <2> QED BY <1>2, <2>2, <2>3 DEF Edit
<1>5. CASE \E S \in SUBSET Repos : s.pinned = b.pinned /\ s.excluded = b.excluded \ S
  <2>1. PICK S \in SUBSET Repos : s.pinned = b.pinned /\ s.excluded = b.excluded \ S
    BY <1>5
  <2>2. m.pinned = c.pinned /\ m.excluded = c.excluded \ (b.excluded \cap S)
    BY <1>1, <2>1
  <2>3. b.excluded \cap S \in SUBSET Repos
    OBVIOUS
  <2> QED BY <1>2, <2>2, <2>3 DEF Edit
<1> QED BY <1>3, <1>4, <1>5 DEF Edit

(* Reading the membership keeps the theme, and what agreed before it       *)
(* agrees after it.                                                        *)
LEMMA ReloadedKeeps ==
  ASSUME NEW p, NEW c \in Config, NEW d \in Config, file \in Config \cup {Missing}
  PROVE  /\ Reloaded(p, c) \in Config
         /\ Reloaded(p, c).theme = c.theme
         /\ SameMembers(c, d) => SameMembers(Reloaded(p, c), Reloaded(p, d))
         /\ file = Missing => Reloaded(p, c) = c
BY DEF Reloaded, WithMembers, SameMembers, Config

LEMMA ListedIsRepos ==
  ASSUME NEW c \in Config
  PROVE  Listed(c) \in SUBSET Repos
BY ReposAssumption DEF Listed, Config

LEMMA DefaultIsConfig == Default \in Config
BY ThemesAssumption, ReposAssumption DEF Default, Config

LEMMA OnDiskIsConfig ==
  ASSUME file \in Config \cup {Missing}
  PROVE  OnDisk \in Config
BY DefaultIsConfig DEF OnDisk

-----------------------------------------------------------------------------
(* The inductive invariant.                                                *)

LEMMA InitInv == Init => Inv
<1> SUFFICES ASSUME Init PROVE Inv
  OBVIOUS
<1>1. file \in Config \cup {Missing}
  BY FilesAssumption DEF Init
<1>2. OnDisk \in Config
  BY <1>1, OnDiskIsConfig
<1>3. Listed(OnDisk) \in SUBSET Repos
  BY <1>2, ListedIsRepos
<1>4. Holders = {}
  BY DEF Init, Holders
<1>5. TypeOK
  BY <1>1, <1>2, <1>3, <1>4 DEF Init, TypeOK
<1>6. ReadIsFile /\ OneHolder
  BY <1>4 DEF ReadIsFile, OneHolder
<1>7. StartsFrom /\ SavesEdit /\ PanesDoNotCompare
  BY DEF Init, StartsFrom, SavesEdit, PanesDoNotCompare, SameMembers, Procs
<1>8. NothingYet
  BY DEF Init, NothingYet, OnDisk
<1>9. ThemeOfChoice
  BY DEF Init, ThemeOfChoice
<1> QED BY <1>5, <1>6, <1>7, <1>8, <1>9 DEF Inv

(* A handler of a pane that refreshes and asks for a save.                 *)
LEMMA RefreshInv ==
  ASSUME Inv, NEW p \in Panes, Refresh(p), saving[p] = None,
         rows' = [rows EXCEPT ![p] = RowsAfter(p, live'[p])],
         UNCHANGED <<file, read, chosen, failures>>
  PROVE  /\ live'[p] = Reloaded(p, live[p]) /\ base'[p] = Reloaded(p, base[p])
         /\ live' \in [Procs -> Config] /\ base' \in [Procs -> Config]
         /\ rows' \in [Panes -> SUBSET Repos]
         /\ StartsFrom' /\ NothingYet'
         /\ p \notin Holders
         /\ p \notin chosen => live'[p].theme = base'[p].theme
<1> USE DEF Procs
<1>1. live[p] \in Config /\ base[p] \in Config /\ SameMembers(live[p], base[p])
  BY DEF Inv, TypeOK, StartsFrom
<1>2. file \in Config \cup {Missing}
  BY DEF Inv, TypeOK
<1>3. live'[p] = Reloaded(p, live[p]) /\ base'[p] = Reloaded(p, base[p])
  BY DEF Refresh, Inv, TypeOK
<1>4. /\ live'[p] \in Config /\ live'[p].theme = live[p].theme
      /\ base'[p] \in Config /\ base'[p].theme = base[p].theme
      /\ SameMembers(live'[p], base'[p])
      /\ file = Missing => base'[p] = base[p]
  BY <1>1, <1>2, <1>3, ReloadedKeeps
<1>5. live' \in [Procs -> Config] /\ base' \in [Procs -> Config]
  BY <1>3, <1>4 DEF Refresh, Inv, TypeOK
<1>6. rows' \in [Panes -> SUBSET Repos]
  BY <1>4, ListedIsRepos DEF RowsAfter, Inv, TypeOK
<1>7. \A q \in Procs \ {p} : live'[q] = live[q] /\ base'[q] = base[q]
  BY DEF Refresh, Inv, TypeOK
<1>8. StartsFrom'
  BY <1>4, <1>7 DEF StartsFrom, SameMembers, Inv
<1>9. NothingYet'
  BY <1>4, <1>7 DEF NothingYet, Inv
<1>10. p \notin Holders
  BY DEF Inv, TypeOK
<1>11. p \notin chosen => live[p].theme = base[p].theme
  BY DEF Inv, ThemeOfChoice
<1> QED BY <1>3, <1>4, <1>5, <1>6, <1>8, <1>9, <1>10, <1>11

LEMMA AdminInv ==
  ASSUME Inv, NEW p \in Panes, NEW c \in Config,
         Edit(Reloaded(p, base[p]), c), c.theme = live[p].theme, Admin(p, c)
  PROVE  Inv'
<1>0. p \in Procs
  BY DEF Procs
<1>1. /\ saving[p] = None /\ saving' = [saving EXCEPT ![p] = [config |-> c, expected |-> None]]
      /\ UNCHANGED <<file, read, chosen, failures>> /\ Refresh(p)
      /\ rows' = [rows EXCEPT ![p] = RowsAfter(p, live'[p])]
      /\ edits' = edits + 1
  BY DEF Admin, Asks
<1>2. /\ live'[p] = Reloaded(p, live[p]) /\ base'[p] = Reloaded(p, base[p])
      /\ live' \in [Procs -> Config] /\ base' \in [Procs -> Config]
      /\ rows' \in [Panes -> SUBSET Repos]
      /\ StartsFrom' /\ NothingYet' /\ p \notin Holders
      /\ p \notin chosen => live'[p].theme = base'[p].theme
  BY <1>1, RefreshInv
<1>3. saving'[p] = [config |-> c, expected |-> None] /\ saving'[p] # None
  <2>1. saving'[p] = [config |-> c, expected |-> None]
    BY <1>0, <1>1 DEF Inv, TypeOK
  <2>2. saving'[p].config = c
    BY <2>1
  <2> QED BY <2>1, SaveAssumption DEF Save
<1>4. \A q \in Procs \ {p} : live'[q] = live[q] /\ base'[q] = base[q] /\ saving'[q] = saving[q]
  BY <1>1 DEF Refresh, Inv, TypeOK
<1>5. Holders' = Holders
  BY <1>1 DEF Holders
<1>6. TypeOK'
  <2>1. saving' \in [Procs -> Save \cup {None}]
    BY <1>1, <1>3 DEF Inv, TypeOK, Save
  <2>2. \A q \in Holders' : saving'[q] # None
    BY <1>2, <1>4, <1>5 DEF Inv, TypeOK, Holders
  <2> QED BY <1>1, <1>2, <2>1, <2>2 DEF Inv, TypeOK
<1>7. ReadIsFile' /\ OneHolder'
  BY <1>1, <1>5 DEF Inv, ReadIsFile, OneHolder
<1>8. SavesEdit'
  <2>1. Edit(base'[p], saving'[p].config)
    BY <1>2, <1>3
  <2>2. ASSUME NEW q \in Procs \ {p}, saving'[q] # None
        PROVE  Edit(base'[q], saving'[q].config)
    BY <1>4, <2>2 DEF Inv, SavesEdit
  <2> QED BY <2>1, <2>2 DEF SavesEdit, Edit
<1>9. PanesDoNotCompare'
  BY <1>3, <1>4 DEF Inv, PanesDoNotCompare, Procs
<1>10. ThemeOfChoice'
  <2>1. live'[p].theme = live[p].theme
    BY <1>0, <1>2, ReloadedKeeps DEF Inv, TypeOK
  <2> QED BY <1>1, <1>2, <1>3, <1>4, <2>1 DEF Inv, ThemeOfChoice
<1> QED BY <1>2, <1>6, <1>7, <1>8, <1>9, <1>10 DEF Inv

(* A process that chose a theme asks for a save of its configuration.      *)
LEMMA AskInv ==
  ASSUME Inv, NEW p \in Procs, NEW seen \in Themes \cup {None},
         p \in Panes => seen = None,
         saving[p] = None,
         saving' = [saving EXCEPT ![p] = [config |-> live'[p], expected |-> seen]],
         live'[p] \in Config, base'[p] \in Config, SameMembers(live'[p], base'[p]),
         live' \in [Procs -> Config], base' \in [Procs -> Config],
         \A q \in Procs \ {p} : live'[q] = live[q] /\ base'[q] = base[q],
         file = Missing => base'[p] = Default,
         chosen' = chosen \cup {p}, edits' = edits + 1,
         UNCHANGED <<file, read, rows, failures>>
  PROVE  Inv'
<1>1. saving'[p] = [config |-> live'[p], expected |-> seen] /\ saving'[p] # None
  <2>1. saving'[p] = [config |-> live'[p], expected |-> seen]
    BY DEF Inv, TypeOK
  <2>2. saving'[p] \in Save
    BY <2>1 DEF Save
  <2> QED BY <2>1, <2>2, SaveAssumption
<1>2. \A q \in Procs \ {p} : saving'[q] = saving[q]
  BY DEF Inv, TypeOK
<1>3. Holders' = Holders /\ p \notin Holders
  BY DEF Inv, TypeOK, Holders
<1>4. TypeOK'
  <2>1. saving' \in [Procs -> Save \cup {None}]
    BY <1>1 DEF Inv, TypeOK, Save
  <2>2. \A q \in Holders' : saving'[q] # None
    BY <1>2, <1>3 DEF Inv, TypeOK, Holders
  <2> QED BY <2>1, <2>2 DEF Inv, TypeOK
<1>5. ReadIsFile' /\ OneHolder'
  BY <1>3 DEF Inv, ReadIsFile, OneHolder
<1>6. StartsFrom'
  BY DEF Inv, StartsFrom, SameMembers
<1>7. SavesEdit'
  <2>1. Edit(base'[p], saving'[p].config)
    <3>1. /\ saving'[p].config.pinned = base'[p].pinned
          /\ saving'[p].config.excluded = base'[p].excluded \ {}
      BY <1>1 DEF SameMembers
    <3> QED BY <3>1 DEF Edit
  <2>2. ASSUME NEW q \in Procs \ {p}, saving'[q] # None
        PROVE  Edit(base'[q], saving'[q].config)
    BY <1>2, <2>2 DEF Inv, SavesEdit
  <2> QED BY <2>1, <2>2 DEF SavesEdit, Edit
<1>8. NothingYet'
  BY DEF Inv, NothingYet
<1>9. PanesDoNotCompare'
  BY <1>1, <1>2 DEF Inv, PanesDoNotCompare, Procs
<1>10. ThemeOfChoice'
  BY <1>2 DEF Inv, ThemeOfChoice
<1> QED BY <1>4, <1>5, <1>6, <1>7, <1>8, <1>9, <1>10 DEF Inv

(* The commands of a pane.                                                 *)
LEMMA UserInv ==
  ASSUME Inv, NEW p \in Panes, User(p)
  PROVE  Inv'
<1> DEFINE c == Reloaded(p, live[p])
           b == Reloaded(p, base[p])
<1>0. p \in Procs
  BY DEF Procs
<1>1. /\ c \in Config /\ c.theme = live[p].theme
      /\ c.pinned = b.pinned /\ c.excluded = b.excluded
  BY <1>0, ReloadedKeeps DEF Inv, TypeOK, StartsFrom, SameMembers
<1>2. ASSUME NEW r \in Repos, AddRepo(p, r) PROVE Inv'
  <2> DEFINE d == [c EXCEPT !.pinned = @ \cup {r}]
  <2>1. /\ d \in Config /\ d.theme = c.theme
        /\ d.pinned = c.pinned \cup {r} /\ d.excluded = c.excluded
    BY <1>1 DEF Config
  <2>2. Edit(b, d)
    BY <1>1, <2>1 DEF Edit
  <2>3. Admin(p, d)
    BY <1>2 DEF AddRepo
  <2> QED BY <1>1, <2>1, <2>2, <2>3, AdminInv
<1>3. ASSUME NEW r \in Repos, RemoveRepo(p, r) PROVE Inv'
  <2> DEFINE d == [c EXCEPT !.pinned = @ \ {r}, !.excluded = @ \cup ({r} \cap Found)]
  <2>1. /\ d \in Config /\ d.theme = c.theme
        /\ d.pinned = c.pinned \ {r} /\ d.excluded = c.excluded \cup ({r} \cap Found)
    BY <1>1 DEF Config
  <2>2. d.excluded \in {c.excluded, c.excluded \cup {r}}
    BY <2>1
  <2>3. Edit(b, d)
    BY <1>1, <2>1, <2>2 DEF Edit
  <2>4. Admin(p, d)
    BY <1>3 DEF RemoveRepo
  <2> QED BY <1>1, <2>1, <2>3, <2>4, AdminInv
<1>4. ASSUME RescanRepos(p) PROVE Inv'
  <2> DEFINE d == [c EXCEPT !.excluded = {}]
  <2>1. /\ d \in Config /\ d.theme = c.theme
        /\ d.pinned = c.pinned /\ d.excluded = {}
    BY <1>1 DEF Config
  <2>2. d.excluded = b.excluded \ b.excluded /\ b.excluded \in SUBSET Repos
    BY <1>1, <2>1 DEF Config
  <2>3. Edit(b, d)
    BY <1>1, <2>1, <2>2 DEF Edit
  <2>4. Admin(p, d)
    BY <1>4 DEF RescanRepos
  <2> QED BY <1>1, <2>1, <2>3, <2>4, AdminInv
<1>5. ASSUME NEW t \in Themes, CommitTheme(p, t) PROVE Inv'
  <2>1. live[p] \in Config /\ base[p] \in Config /\ SameMembers(live[p], base[p])
    BY <1>0 DEF Inv, TypeOK, StartsFrom
  <2>2. live' = [live EXCEPT ![p] = [live[p] EXCEPT !.theme = t]]
    BY <1>5 DEF CommitTheme
  <2>3. /\ live'[p] = [live[p] EXCEPT !.theme = t]
        /\ \A q \in Procs \ {p} : live'[q] = live[q]
    BY <1>0, <2>2 DEF Inv, TypeOK
  <2>4. live'[p] \in Config /\ SameMembers(live'[p], base[p])
    BY <2>1, <2>3 DEF Config, SameMembers
  <2>5. UNCHANGED <<file, read, base, rows, failures>> /\ edits' = edits + 1
    BY <1>5 DEF CommitTheme, Asks
  <2>6. saving[p] = None /\ saving' = [saving EXCEPT ![p] = [config |-> live'[p], expected |-> None]]
    BY <1>5 DEF CommitTheme, Asks
  <2>7. chosen' = chosen \cup {p}
    BY <1>5 DEF CommitTheme
  <2>8. live' \in [Procs -> Config] /\ (file = Missing => base[p] = Default)
    BY <1>0, <2>2, <2>3, <2>4 DEF Inv, TypeOK, NothingYet
  <2> QED BY <1>0, <2>1, <2>3, <2>4, <2>5, <2>6, <2>7, <2>8, AskInv DEF Inv, TypeOK
<1> QED BY <1>2, <1>3, <1>4, <1>5 DEF User

LEMMA RefreshSharedMembershipInv ==
  ASSUME Inv, NEW p \in Panes, RefreshSharedMembership(p)
  PROVE  Inv'
<1>0. p \in Procs
  BY DEF Procs
<1>1. /\ saving[p] = None /\ Refresh(p)
      /\ rows' = [rows EXCEPT ![p] = RowsAfter(p, live'[p])]
      /\ UNCHANGED <<file, read, saving, chosen, edits, failures>>
  BY DEF RefreshSharedMembership
<1>2. /\ live'[p] = Reloaded(p, live[p]) /\ base'[p] = Reloaded(p, base[p])
      /\ live' \in [Procs -> Config] /\ base' \in [Procs -> Config]
      /\ rows' \in [Panes -> SUBSET Repos]
      /\ StartsFrom' /\ NothingYet' /\ p \notin Holders
      /\ p \notin chosen => live'[p].theme = base'[p].theme
  BY <1>1, RefreshInv
<1>3. \A q \in Procs \ {p} : live'[q] = live[q] /\ base'[q] = base[q]
  BY <1>1 DEF Refresh, Inv, TypeOK
<1>4. Holders' = Holders
  BY <1>1 DEF Holders
<1>5. TypeOK' /\ ReadIsFile' /\ OneHolder'
  BY <1>1, <1>2, <1>4 DEF Inv, TypeOK, ReadIsFile, OneHolder
<1>6. SavesEdit' /\ PanesDoNotCompare'
  BY <1>1, <1>3 DEF Inv, SavesEdit, PanesDoNotCompare, Edit
<1>7. ThemeOfChoice'
  BY <1>1, <1>2, <1>3 DEF Inv, ThemeOfChoice
<1> QED BY <1>2, <1>5, <1>6, <1>7 DEF Inv

LEMMA SaveThemeInv ==
  ASSUME Inv, NEW p \in Editors, NEW t \in Themes, NEW seen \in Themes, SaveTheme(p, t, seen)
  PROVE  Inv'
<1>0. p \in Procs /\ p \notin Panes
  BY ProcsAssumption DEF Procs
<1>1. OnDisk \in Config
  BY OnDiskIsConfig DEF Inv, TypeOK
<1>2. /\ live' = [live EXCEPT ![p] = [OnDisk EXCEPT !.theme = t]]
      /\ base' = [base EXCEPT ![p] = OnDisk]
      /\ chosen' = chosen \cup {p} /\ UNCHANGED rows
      /\ saving[p] = None /\ edits' = edits + 1
      /\ saving' = [saving EXCEPT ![p] = [config |-> live'[p], expected |-> seen]]
      /\ UNCHANGED <<file, read, failures>>
  BY DEF SaveTheme, Asks
<1>3. /\ live'[p] = [OnDisk EXCEPT !.theme = t] /\ base'[p] = OnDisk
      /\ \A q \in Procs \ {p} : live'[q] = live[q] /\ base'[q] = base[q]
  BY <1>0, <1>2 DEF Inv, TypeOK
<1>4. live'[p] \in Config /\ base'[p] \in Config /\ SameMembers(live'[p], base'[p])
  BY <1>1, <1>3 DEF Config, SameMembers
<1>5. live' \in [Procs -> Config] /\ base' \in [Procs -> Config]
  BY <1>2, <1>3, <1>4 DEF Inv, TypeOK
<1>6. file = Missing => base'[p] = Default
  BY <1>3 DEF OnDisk
<1> QED BY <1>0, <1>2, <1>3, <1>4, <1>5, <1>6, AskInv

LEMMA TakeLockInv ==
  ASSUME Inv, NEW p \in Procs, TakeLock(p)
  PROVE  Inv'
<1>1. /\ saving[p] # None /\ Holders = {}
      /\ read' = [read EXCEPT ![p] = file]
      /\ UNCHANGED <<file, live, base, rows, saving, chosen, edits, failures>>
  BY DEF TakeLock
<1>2. read'[p] = file /\ Holders' \subseteq {p}
  BY <1>1 DEF Inv, TypeOK, Holders
<1>3. TypeOK'
  BY <1>1, <1>2 DEF Inv, TypeOK
<1>4. ReadIsFile' /\ OneHolder'
  BY <1>1, <1>2 DEF ReadIsFile, OneHolder
<1>5. StartsFrom' /\ SavesEdit' /\ NothingYet'
  BY <1>1 DEF Inv, StartsFrom, SavesEdit, NothingYet, SameMembers, Edit
<1>6. PanesDoNotCompare' /\ ThemeOfChoice'
  BY <1>1 DEF Inv, PanesDoNotCompare, ThemeOfChoice
<1> QED BY <1>3, <1>4, <1>5, <1>6 DEF Inv

(* What a save writes: one edit of the membership that is in the file, and *)
(* the theme that is there unless its user chose one.                      *)
LEMMA WrittenIsEdit ==
  ASSUME Inv, NEW p \in Procs, p \in Holders
  PROVE  /\ Written(p) \in Config /\ Edit(OnDisk, Written(p))
         /\ p \notin chosen => Written(p).theme = ThemeOf(file)
         /\ Adopted(p) \in Config
<1>1. read[p] = file /\ saving[p] # None /\ file \in Config \cup {Missing}
  BY DEF Inv, ReadIsFile, TypeOK
<1>2. saving[p].config \in Config /\ base[p] \in Config
  BY <1>1 DEF Inv, TypeOK, Save
<1>3. Edit(base[p], saving[p].config)
  BY <1>1 DEF Inv, SavesEdit
<1>4. p \notin chosen => saving[p].config.theme = base[p].theme
  BY <1>1 DEF Inv, ThemeOfChoice
<1>5. /\ Written(p) \in Config /\ Edit(OnDisk, Written(p))
      /\ p \notin chosen => Written(p).theme = ThemeOf(file)
  <2>1. CASE file = Missing
    <3>1. Written(p) = saving[p].config /\ OnDisk = base[p] /\ base[p] = Default
      BY <1>1, <2>1 DEF Written, OnDisk, Inv, NothingYet
    <3> QED BY <1>2, <1>3, <1>4, <2>1, <3>1 DEF ThemeOf, Default
  <2>2. CASE file # Missing
    <3>1. Written(p) = Merged(base[p], saving[p].config, file) /\ OnDisk = file
      BY <1>1, <2>2 DEF Written, OnDisk
    <3>2. file \in Config
      BY <1>1, <2>2
    <3>3. p \notin chosen => Written(p).theme = file.theme
      BY <1>4, <3>1 DEF Merged, MergedTheme
    <3> QED BY <1>2, <1>3, <2>2, <3>1, <3>2, <3>3, MergedIsEdit DEF ThemeOf
  <2> QED BY <2>1, <2>2
<1>6. Adopted(p) \in Config
  BY <1>2, <1>5 DEF Adopted, WithMembers, Config
<1> QED BY <1>5, <1>6

LEMMA PersistInv ==
  ASSUME Inv, NEW p \in Procs, Persist(p)
  PROVE  Inv'
<1>1. /\ p \in Holders /\ file' = Written(p)
      /\ live' = [live EXCEPT ![p] = Adopted(p)] /\ base' = [base EXCEPT ![p] = Adopted(p)]
      /\ rows' = IF p \in Panes THEN [rows EXCEPT ![p] = Listed(Adopted(p))] ELSE rows
      /\ saving' = [saving EXCEPT ![p] = None] /\ chosen' = chosen \ {p}
      /\ read' = [read EXCEPT ![p] = None]
      /\ UNCHANGED <<edits, failures>>
  BY DEF Persist, Persists
<1>2. Written(p) \in Config /\ Adopted(p) \in Config /\ Listed(Adopted(p)) \in SUBSET Repos
  BY <1>1, WrittenIsEdit, ListedIsRepos
<1>3. /\ live'[p] = Adopted(p) /\ base'[p] = Adopted(p) /\ saving'[p] = None
      /\ \A q \in Procs \ {p} : live'[q] = live[q] /\ base'[q] = base[q] /\ saving'[q] = saving[q]
  BY <1>1 DEF Inv, TypeOK
<1>4. Holders' = {}
  BY <1>1 DEF Inv, TypeOK, OneHolder, Holders
<1>5. TypeOK'
  BY <1>1, <1>2, <1>4 DEF Inv, TypeOK
<1>6. ReadIsFile' /\ OneHolder'
  BY <1>4 DEF ReadIsFile, OneHolder
<1>7. StartsFrom' /\ NothingYet'
  BY <1>1, <1>2, <1>3, MissingAssumption DEF Inv, StartsFrom, NothingYet, SameMembers
<1>8. SavesEdit'
  <2>1. ASSUME NEW q \in Procs, saving'[q] # None
        PROVE  Edit(base'[q], saving'[q].config)
    <3>1. q # p /\ saving[q] # None
      BY <1>3, <2>1
    <3>2. Edit(base[q], saving[q].config)
      BY <3>1 DEF Inv, SavesEdit
    <3> QED BY <1>3, <3>1, <3>2
  <2> QED BY <2>1 DEF SavesEdit, Edit
<1>9. PanesDoNotCompare' /\ ThemeOfChoice'
  BY <1>1, <1>3 DEF Inv, PanesDoNotCompare, ThemeOfChoice, Procs
<1> QED BY <1>5, <1>6, <1>7, <1>8, <1>9 DEF Inv

(* A save that writes nothing.                                             *)
LEMMA UnsavedInv ==
  ASSUME Inv, NEW p \in Procs, StaleTheme(p) \/ SaveFails(p)
  PROVE  Inv'
<1>1. /\ saving' = [saving EXCEPT ![p] = None] /\ read' = [read EXCEPT ![p] = None]
      /\ UNCHANGED <<file, live, base, rows, edits>>
      /\ failures' \in {failures, failures + 1}
  BY DEF StaleTheme, SaveFails, Unlocked
<1>2. chosen' = chosen \/ (chosen' = chosen \ {p} /\ p \notin Panes)
  <2>1. CASE SaveFails(p)
    BY <2>1 DEF SaveFails
  <2>2. CASE StaleTheme(p)
    <3>1. p \in Holders /\ saving[p].expected # None /\ chosen' = chosen \ {p}
      BY <2>2 DEF StaleTheme
    <3> QED BY <3>1 DEF Inv, TypeOK, PanesDoNotCompare
  <2> QED BY <2>1, <2>2
<1>3. /\ saving'[p] = None /\ \A q \in Procs \ {p} : saving'[q] = saving[q]
      /\ Holders' = Holders \ {p} /\ \A q \in Procs \ {p} : read'[q] = read[q]
  BY <1>1 DEF Inv, TypeOK, Holders
<1>4. TypeOK'
  BY <1>1, <1>2, <1>3 DEF Inv, TypeOK
<1>5. ReadIsFile' /\ OneHolder'
  BY <1>1, <1>3 DEF Inv, ReadIsFile, OneHolder, Holders
<1>6. StartsFrom' /\ NothingYet'
  BY <1>1 DEF Inv, StartsFrom, NothingYet, SameMembers
<1>7. SavesEdit'
  <2>1. ASSUME NEW q \in Procs, saving'[q] # None
        PROVE  Edit(base'[q], saving'[q].config)
    <3>1. q # p /\ saving[q] # None
      BY <1>3, <2>1
    <3>2. Edit(base[q], saving[q].config)
      BY <3>1 DEF Inv, SavesEdit
    <3> QED BY <1>1, <1>3, <3>1, <3>2
  <2> QED BY <2>1 DEF SavesEdit, Edit
<1>8. PanesDoNotCompare' /\ ThemeOfChoice'
  BY <1>1, <1>2, <1>3 DEF Inv, PanesDoNotCompare, ThemeOfChoice, Procs
<1> QED BY <1>4, <1>5, <1>6, <1>7, <1>8 DEF Inv

LEMMA RestartInv ==
  ASSUME Inv, NEW p \in Procs, Restart(p)
  PROVE  Inv'
<1>1. /\ live' = [live EXCEPT ![p] = OnDisk] /\ base' = [base EXCEPT ![p] = OnDisk]
      /\ rows' = IF p \in Panes THEN [rows EXCEPT ![p] = Listed(OnDisk)] ELSE rows
      /\ saving' = [saving EXCEPT ![p] = None] /\ chosen' = chosen \ {p}
      /\ read' = [read EXCEPT ![p] = None]
      /\ UNCHANGED <<file, edits>> /\ failures' = failures + 1
  BY DEF Restart, Unlocked
<1>2. OnDisk \in Config /\ Listed(OnDisk) \in SUBSET Repos
  BY OnDiskIsConfig, ListedIsRepos DEF Inv, TypeOK
<1>3. /\ live'[p] = OnDisk /\ base'[p] = OnDisk /\ saving'[p] = None
      /\ \A q \in Procs \ {p} : live'[q] = live[q] /\ base'[q] = base[q] /\ saving'[q] = saving[q]
      /\ Holders' = Holders \ {p} /\ \A q \in Procs \ {p} : read'[q] = read[q]
  BY <1>1 DEF Inv, TypeOK, Holders
<1>4. TypeOK'
  BY <1>1, <1>2, <1>3 DEF Inv, TypeOK
<1>5. ReadIsFile' /\ OneHolder'
  BY <1>1, <1>3 DEF Inv, ReadIsFile, OneHolder, Holders
<1>6. StartsFrom' /\ NothingYet'
  BY <1>1, <1>3 DEF Inv, StartsFrom, NothingYet, SameMembers, OnDisk
<1>7. SavesEdit'
  <2>1. ASSUME NEW q \in Procs, saving'[q] # None
        PROVE  Edit(base'[q], saving'[q].config)
    <3>1. q # p /\ saving[q] # None
      BY <1>3, <2>1
    <3>2. Edit(base[q], saving[q].config)
      BY <3>1 DEF Inv, SavesEdit
    <3> QED BY <1>1, <1>3, <3>1, <3>2
  <2> QED BY <2>1 DEF SavesEdit, Edit
<1>8. PanesDoNotCompare' /\ ThemeOfChoice'
  BY <1>1, <1>3 DEF Inv, PanesDoNotCompare, ThemeOfChoice, Procs
<1> QED BY <1>4, <1>5, <1>6, <1>7, <1>8 DEF Inv

LEMMA NextInv == Inv /\ [Next]_vars => Inv'
<1> SUFFICES ASSUME Inv, [Next]_vars PROVE Inv'
  OBVIOUS
<1>1. ASSUME NEW p \in Panes, RefreshSharedMembership(p) \/ User(p) PROVE Inv'
  BY <1>1, RefreshSharedMembershipInv, UserInv
<1>2. ASSUME NEW p \in Editors, \E t, seen \in Themes : SaveTheme(p, t, seen) PROVE Inv'
  BY <1>2, SaveThemeInv
<1>3. ASSUME NEW p \in Procs, Saves(p) \/ SaveFails(p) \/ Restart(p) PROVE Inv'
  BY <1>3, TakeLockInv, PersistInv, UnsavedInv, RestartInv DEF Saves
<1>4. CASE UNCHANGED vars
  <2>1. Holders' = Holders
    BY <1>4 DEF vars, Holders
  <2>2. TypeOK' /\ ReadIsFile' /\ OneHolder'
    BY <1>4, <2>1 DEF vars, Inv, TypeOK, ReadIsFile, OneHolder
  <2>3. StartsFrom' /\ SavesEdit' /\ NothingYet'
    BY <1>4 DEF vars, Inv, StartsFrom, SavesEdit, NothingYet, SameMembers, Edit
  <2>4. PanesDoNotCompare' /\ ThemeOfChoice'
    BY <1>4 DEF vars, Inv, PanesDoNotCompare, ThemeOfChoice
  <2> QED BY <2>2, <2>3, <2>4 DEF Inv
<1> QED BY <1>1, <1>2, <1>3, <1>4 DEF Next

LEMMA Invariance == Spec => []Inv
<1> QED BY InitInv, NextInv, PTL DEF Spec

-----------------------------------------------------------------------------
(* The theorems.                                                           *)

(* Every variable keeps its type, and only a process that saves holds the  *)
(* lock of the configuration file.                                         *)
THEOREM TypeCorrect == Spec => []TypeOK
<1>1. Inv => TypeOK
  BY DEF Inv
<1> QED BY <1>1, Invariance, PTL

(* A process that holds the lock merges into the file as it is.            *)
THEOREM MergesCurrentFile == Spec => []ReadIsFile
<1>1. Inv => ReadIsFile
  BY DEF Inv
<1> QED BY <1>1, Invariance, PTL

(* Only a rename changes the file.                                         *)
LEMMA OnlyPersistWrites ==
  ASSUME [Next]_vars, file' # file
  PROVE  \E p \in Procs : Persist(p)
<1>1. ASSUME NEW p \in Panes PROVE ~RefreshSharedMembership(p) /\ ~User(p)
  BY DEF RefreshSharedMembership, User, AddRepo, RemoveRepo, RescanRepos, CommitTheme, Admin, Asks
<1>2. ASSUME NEW p \in Editors, NEW t \in Themes, NEW seen \in Themes
      PROVE  ~SaveTheme(p, t, seen)
  BY DEF SaveTheme, Asks
<1>3. ASSUME NEW p \in Procs
      PROVE  ~TakeLock(p) /\ ~StaleTheme(p) /\ ~SaveFails(p) /\ ~Restart(p)
  BY DEF TakeLock, StaleTheme, SaveFails, Restart
<1>4. file' # file => ~UNCHANGED vars
  BY DEF vars
<1> QED BY <1>1, <1>2, <1>3, <1>4 DEF Next, Saves

(* No update is lost and no removal undone: seen through the file, panes   *)
(* and editors implement one shared membership, however stale they are.    *)
THEOREM SharesMembership == Spec => Shared
<1>1. Init => Members!Init
  BY InitInv, OnDiskIsConfig DEF Inv, TypeOK, Members!Init, Config
<1>2. Inv /\ [Next]_vars => [Members!Next]_<<OnDisk.pinned, OnDisk.excluded>>
  <2> SUFFICES ASSUME Inv, [Next]_vars, file' # file
               PROVE  Members!Next
    BY DEF OnDisk
  <2>1. PICK p \in Procs : Persist(p)
    BY OnlyPersistWrites
  <2>2. p \in Holders /\ file' = Written(p)
    BY <2>1 DEF Persist, Persists
  <2>3. file' \in Config /\ Edit(OnDisk, file')
    BY <2>2, WrittenIsEdit
  <2>4. OnDisk' = file'
    BY <2>3, MissingAssumption DEF OnDisk
  <2>5. Edit(OnDisk, OnDisk')
    BY <2>3, <2>4
  <2> QED BY <2>5 DEF Edit, Members!Next, Members!Pin, Members!Drop, Members!Restore
<1> QED BY <1>1, <1>2, Invariance, PTL DEF Spec, Shared, Members!Spec

(* An unrelated save leaves the theme of the file alone, however old the   *)
(* snapshot of its process is.                                             *)
THEOREM ThemeIsKept == Spec => ThemeKept
<1>1. Inv /\ [Next]_vars =>
        [\A p \in Procs : Persist(p) /\ p \notin chosen => file'.theme = ThemeOf(file)]_vars
  <2> SUFFICES ASSUME Inv, NEW p \in Procs, Persist(p), p \notin chosen
               PROVE  file'.theme = ThemeOf(file)
    OBVIOUS
  <2>1. p \in Holders /\ file' = Written(p)
    BY DEF Persist, Persists
  <2> QED BY <2>1, WrittenIsEdit
<1> QED BY <1>1, Invariance, PTL DEF Spec, ThemeKept

=============================================================================
