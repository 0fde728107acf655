---------------------------- MODULE CommitDetail ----------------------------
(***************************************************************************)
(* The commit detail of the graph panel: the files of a commit, the file   *)
(* under the highlight and its diff (src/components/git_graph, the commit  *)
(* actions of src/app/actions_extra.rs).                                   *)
(*                                                                         *)
(* Two counters keep late answers out.  `detail_generation' is carried by  *)
(* the reads of files and diffs, `diff_select_generation' by the debounce  *)
(* that follows the highlight.  A read or debounce whose number has passed *)
(* changes nothing: a bump of a counter drops the reads under way, and the *)
(* answers in the channel stay there as `Passed', for their handler to     *)
(* ignore.                                                                 *)
(*                                                                         *)
(* A search is the set of file positions it matches.  The rows of the      *)
(* graph are GraphLoader's; scrolling and the split of the panes are left  *)
(* out.                                                                    *)
(***************************************************************************)
EXTENDS Integers, Sequences, FiniteSets, Panels

CONSTANTS
  Commits,        \* commits in the rows
  FileCount,      \* how many files each of them changes
  FileQueries,    \* sets of positions a search may match
  MaxInputs       \* bound: keys and clicks

ASSUME FileCountAssumption == FileCount \in [Commits -> Nat] /\ None \notin Commits \cup Nat

VARIABLES
  detail,     \* GitGraph::commit_detail
  settling,   \* the debounce of the last highlight is running
  channel,    \* actions, in the order they were posted
  fetches,    \* reads under way that carry the current detail_generation
  wanted,     \* the commit last clicked, until something supersedes it
  failed,     \* the last read asked for failed
  inputs

detailVars == <<detail, settling, channel, fetches, wanted, failed, inputs>>

\* An open CommitDetail; no value of it is `none'.
Details ==
  [oid : Commits, sel : Nat \cup {None}, query : SUBSET Nat, searching : BOOLEAN, focused : BOOLEAN,
   diff : [oid : Commits, file : Nat] \cup {None}]

ASSUME DetailAssumption == None \notin Details /\ FileQueries \subseteq SUBSET Nat

AllFiles(c) == 1..FileCount[c]

OpenedOn(c) ==
  [oid |-> c, sel |-> IF FileCount[c] = 0 THEN None ELSE 1, query |-> AllFiles(c),
   searching |-> FALSE, focused |-> FALSE, diff |-> None]

Shown(d) == AllFiles(d.oid) \cap d.query

\* ListFilter::selected_match.
MatchOf(d) ==
  IF d.sel \in Shown(d) THEN d.sel
  ELSE IF Shown(d) = {} THEN None ELSE CHOOSE f \in Shown(d) : \A g \in Shown(d) : f <= g

Act(type, c, f) == [type |-> type, oid |-> c, file |-> f]

\* The channel after a bump of diff_select_generation, of detail_generation.
Passed == Act("Passed", None, None)
Passing(ch, types) == [i \in DOMAIN ch |-> IF ch[i].type \in types THEN Passed ELSE ch[i]]
Unsettled(ch) == Passing(ch, {"CommitDiffSettled"})
Unanswered(ch) == Passing(ch, {"CommitFilesLoaded", "CommitDiffLoaded"})

\* try_show_commit_diff: is there a diff to ask for?
HasDiff(d) == d # None /\ d.sel # None /\ d.sel \in Shown(d)

\* It bumps both counters when there is.  ch is the channel at the time.
MutantTryShowCommitDiff(d, ch) ==
  IF HasDiff(d)
  THEN /\ channel' = Append(Unsettled(ch), Act("ShowCommitDiff", d.oid, d.sel))
       /\ failed' = FALSE /\ UNCHANGED fetches
  ELSE channel' = ch /\ UNCHANGED <<fetches, failed>>

TryShowCommitDiff(d, ch) ==
  IF HasDiff(d)
  THEN /\ channel' = Append(Unsettled(Unanswered(ch)), Act("ShowCommitDiff", d.oid, d.sel))
       /\ fetches' = {} /\ failed' = FALSE
  ELSE channel' = ch /\ UNCHANGED <<fetches, failed>>

\* try_show_commit_files.
AskFiles(c, ch) ==
  /\ channel' = Append(Unanswered(ch), Act("ShowCommitFiles", c, None))
  /\ fetches' = {} /\ failed' = FALSE

-----------------------------------------------------------------------------
(* Keys and clicks.  What handlers post is drained before the next one, so *)
(* the channel holds at most results that have come in since.              *)

Results == {"CommitFilesLoaded", "CommitDiffLoaded", "CommitDiffSettled", "Passed"}

Input ==
  /\ inputs < MaxInputs /\ inputs' = inputs + 1
  /\ \A i \in DOMAIN channel : channel[i].type \in Results

IsDetailOpenFor(c) == detail # None /\ detail.oid = c

MutantClickCommit(c) ==
  /\ Input
  /\ ~IsDetailOpenFor(c)
  /\ wanted' = c
  /\ AskFiles(c, channel)
  /\ UNCHANGED <<detail, settling>>

\* A click on a row, or Enter when no detail is open.
ClickCommit(c) ==
  /\ Input
  /\ ~IsDetailOpenFor(c)
  /\ detail' = None /\ wanted' = c
  /\ AskFiles(c, channel)
  /\ UNCHANGED settling

\* The graph menu's "show files" is an action; it leaves the detail open.
MenuFiles(c) ==
  /\ Input
  /\ channel' = Append(channel, Act("GraphMenu", c, None))
  /\ wanted' = None
  /\ UNCHANGED <<detail, settling, fetches, failed>>

\* Esc, or a switch of repository (close_detail).
CloseDetail ==
  /\ Input
  /\ detail' = None /\ wanted' = None
  /\ settling' = FALSE /\ fetches' = {}
  /\ channel' = Unsettled(Unanswered(channel))
  /\ UNCHANGED failed

\* j, k, the wheel, a click on a row or a scrub: the highlight moves, and its
\* diff waits for the debounce.  While searching the old diff goes at once.
Follow(d, searching) ==
  /\ detail' = IF searching THEN [d EXCEPT !.diff = None] ELSE d
  /\ settling' = TRUE
  /\ fetches' = IF searching THEN {} ELSE fetches
  /\ channel' = Unsettled(IF searching THEN Unanswered(channel) ELSE channel)
  /\ wanted' = None
  /\ UNCHANGED failed

MoveHighlight ==
  /\ Input /\ detail # None
  /\ \E f \in IF Shown(detail) = {} THEN {detail.sel, None} ELSE Shown(detail), focus \in {detail.focused, FALSE} :
       Follow([detail EXCEPT !.sel = f, !.focused = focus], detail.searching)

StartSearch ==
  /\ Input /\ detail # None /\ ~detail.focused /\ ~detail.searching
  /\ detail' = [detail EXCEPT !.searching = TRUE, !.query = AllFiles(detail.oid)]
  /\ UNCHANGED <<settling, channel, fetches, wanted, failed>>

\* A character, Backspace, or Esc, which ends the search.
TypeFileSearch ==
  /\ Input /\ detail # None /\ ~detail.focused /\ detail.searching
  /\ \E q \in FileQueries \cup {AllFiles(detail.oid)}, on \in BOOLEAN :
       /\ ~on => q = AllFiles(detail.oid)
       /\ LET d == [detail EXCEPT !.query = q, !.searching = on]
          IN Follow([d EXCEPT !.sel = MatchOf(d)], TRUE)

\* Enter asks for the diff now and gives it the keyboard; in a search only
\* when there is a match.
ShowDiffNow ==
  /\ Input /\ detail # None /\ ~detail.focused
  /\ TryShowCommitDiff(detail, channel)
  /\ detail' = [detail EXCEPT !.focused = ~detail.searching \/ HasDiff(detail)]
  /\ settling' = (settling /\ ~HasDiff(detail))
  /\ wanted' = None

\* A click on the diff, or Esc in it.
TurnFocus ==
  /\ Input /\ detail # None /\ ~(~detail.focused /\ detail.diff = None)
  /\ detail' = [detail EXCEPT !.focused = ~@]
  /\ UNCHANGED <<settling, channel, fetches, wanted, failed>>

-----------------------------------------------------------------------------
(* Timers and reads, which post what they have.                            *)

\* ScheduleCommitDiff's timer runs out.
DebounceEnds ==
  /\ settling /\ settling' = FALSE
  /\ channel' = Append(channel, Act("CommitDiffSettled", None, None))
  /\ UNCHANGED <<detail, fetches, wanted, failed, inputs>>

ReadEnds(t) ==
  /\ t \in fetches /\ fetches' = fetches \ {t}
  /\ channel' = Append(channel, Act(IF t.type = "ShowCommitFiles" THEN "CommitFilesLoaded" ELSE "CommitDiffLoaded",
                                    t.oid, t.file))
  /\ UNCHANGED <<detail, settling, wanted, failed, inputs>>

\* The repository cannot be read: an error in the status bar, no more.
ReadFails(t) ==
  /\ t \in fetches /\ fetches' = fetches \ {t}
  /\ failed' = TRUE
  /\ UNCHANGED <<detail, settling, channel, wanted, inputs>>

-----------------------------------------------------------------------------
(* Handlers of the actions in the channel.                                 *)

Next0(type) == channel # <<>> /\ Head(channel).type = type

\* The read carries the number that is current when the action is handled.
ShowCommit ==
  /\ Next0("ShowCommitFiles") \/ Next0("ShowCommitDiff")
  /\ fetches' = fetches \cup {Head(channel)}
  /\ channel' = Tail(channel)
  /\ UNCHANGED <<detail, settling, wanted, failed, inputs>>

GraphMenuFiles ==
  /\ Next0("GraphMenu")
  /\ AskFiles(Head(channel).oid, Tail(channel))
  /\ UNCHANGED <<detail, settling, wanted, inputs>>

CommitDiffSettled ==
  /\ Next0("CommitDiffSettled")
  /\ TryShowCommitDiff(detail, Tail(channel))
  /\ UNCHANGED <<detail, settling, wanted, inputs>>

\* CommitFilesLoaded: the detail opens and asks for its first diff.
CommitFilesLoaded ==
  /\ Next0("CommitFilesLoaded")
  /\ LET d == OpenedOn(Head(channel).oid) IN
     /\ detail' = d
     /\ TryShowCommitDiff(d, Tail(channel))
     /\ settling' = (settling /\ ~HasDiff(d))
  /\ UNCHANGED <<wanted, inputs>>

CommitDiffLoaded ==
  /\ Next0("CommitDiffLoaded") /\ channel' = Tail(channel)
  /\ detail' = IF detail = None THEN None
               ELSE [detail EXCEPT !.diff = [oid |-> Head(channel).oid, file |-> Head(channel).file]]
  /\ UNCHANGED <<settling, fetches, wanted, failed, inputs>>

\* Any of the three, where its number is not the current one.
IgnorePassed ==
  /\ Next0("Passed") /\ channel' = Tail(channel)
  /\ UNCHANGED <<detail, settling, fetches, wanted, failed, inputs>>

-----------------------------------------------------------------------------
DetailInit ==
  /\ detail = None /\ settling = FALSE /\ channel = <<>> /\ fetches = {}
  /\ wanted = None /\ failed = FALSE /\ inputs = 0

DetailNext ==
  \/ \E c \in Commits : ClickCommit(c) \/ MenuFiles(c)
  \/ CloseDetail \/ MoveHighlight \/ StartSearch \/ TypeFileSearch \/ ShowDiffNow \/ TurnFocus
  \/ DebounceEnds
  \/ \E t \in fetches : ReadEnds(t) \/ ReadFails(t)
  \/ ShowCommit \/ GraphMenuFiles \/ CommitDiffSettled \/ CommitFilesLoaded \/ CommitDiffLoaded
  \/ IgnorePassed

DetailSpec == DetailInit /\ [][DetailNext]_detailVars

-----------------------------------------------------------------------------
(* Properties.                                                             *)

DiffPlaces == [oid : Commits, file : UNION {AllFiles(c) : c \in Commits}]

DetailTypeOK ==
  /\ detail # None =>
       /\ detail.oid \in Commits /\ detail.sel \in AllFiles(detail.oid) \cup {None}
       /\ detail.query \subseteq (UNION {AllFiles(c) : c \in Commits}) \cup (UNION FileQueries)
       /\ detail.searching \in BOOLEAN /\ detail.focused \in BOOLEAN
       /\ detail.diff \in DiffPlaces \cup {None}
  /\ settling \in BOOLEAN /\ failed \in BOOLEAN /\ wanted \in Commits \cup {None}
  /\ \A t \in fetches : t.type \in {"ShowCommitFiles", "ShowCommitDiff"} /\ t.oid \in Commits
  /\ inputs \in 0..MaxInputs

AtRest == ~settling /\ channel = <<>> /\ fetches = {}

\* A diff on the screen is of the open commit, and once the debounce and the
\* reads have ended it is that of the highlighted file, unless its read
\* failed: no late answer lands in another commit's detail or under another
\* file.  Where nothing is highlighted, as in a commit without files, no diff is
\* asked for.
HighlightIsShown ==
  (detail # None /\ detail.sel # None) =>
    /\ detail.diff # None => detail.diff.oid = detail.oid
    /\ (AtRest /\ ~failed) => detail.diff = [oid |-> detail.oid, file |-> detail.sel]

\* The commit clicked last is the one that opens, unless its read failed: a
\* debounce or a diff of the commit left behind cannot discard the answer.
ClickedOpens == (wanted # None /\ ~failed /\ AtRest) => detail # None /\ detail.oid = wanted

\* The commit detail shows what was chosen last, the commit and the file
\* (GitGraph's detail_generation and diff_select_generation together).
DetailIsChosen == HighlightIsShown /\ ClickedOpens
=============================================================================
