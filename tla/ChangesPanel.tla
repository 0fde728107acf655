---------------------------- MODULE ChangesPanel ----------------------------
(***************************************************************************)
(* The changes panel of the TUI: which working tree its file list shows,   *)
(* the diff opened over it, and the git commands its context menu runs     *)
(* (src/components/file_list, src/app/launch, src/app/actions.rs).         *)
(*                                                                         *)
(* The list is fed by two kinds of background query, the status of the     *)
(* selected repository and that of the active worktree or submodule, and   *)
(* the diff by a third.  All of them report when they like.                *)
(*                                                                         *)
(* Abstractions.  A working tree is the set of files that differ from its  *)
(* HEAD; a diff is the tree and the file it was read from.  Files are      *)
(* numbered in list order.  A search is the set of files it matches.       *)
(* A diff whose `diff_generation' has passed changes nothing, so only      *)
(* current ones are kept: a bump empties `diffs'.  Rows sort and scroll    *)
(* elsewhere; the graph beside the panel is GraphLoader.                   *)
(***************************************************************************)
EXTENDS Integers, Sequences, FiniteSets, Panels

CONSTANTS
  Repos,         \* repositories in the list
  Worktrees,     \* linked worktrees; rows of the list too
  Submodules,    \* submodule checkouts, opened from the file list
  Parent,        \* the repository a worktree or submodule belongs to
  Inside,        \* trees whose directory lies inside their repository's
  Files,         \* 1..n, paths that may differ from HEAD
  Pointers,      \* those that are submodules of the repository
  Trees0,        \* what differs in each tree at the start
  Contents,      \* what may differ in a tree that is edited
  Queries,       \* what a search may match
  MaxEdits,      \* bound: changes of the disk nobody asked gitpane for
  MaxKeys        \* bound: keys and clicks

Trees == Worktrees \cup Submodules
Paths == Repos \cup Trees

ASSUME FilesAssumption == IsFiniteSet(Files) /\ Files = 1..Cardinality(Files)
ASSUME PathsAssumption == None \notin Paths /\ None \notin Files
ASSUME ParentAssumption == Parent \in [Trees -> Repos]
ASSUME DiskAssumption == Trees0 \in [Paths -> SUBSET Files] /\ Contents \subseteq SUBSET Files
ASSUME QueriesAssumption == Files \in Queries /\ Queries \subseteq SUBSET Files

VARIABLES
  disk,      \* files that differ in each tree that exists
  listed,    \* RepoList::repos
  cursor,    \* the row under the cursor
  status,    \* files in RepoEntry::status of each row, None before the first
  active,    \* App::active_worktree
  box,       \* FileList
  prompt,    \* the discard the confirm dialog or context menu was opened for
  posted,    \* actions a handler left in the channel
  asked,     \* paths whose status query is waiting to read
  reads,     \* status results under way
  diffs,     \* reads of a diff under way
  edits, keys

boxVars == <<disk, listed, cursor, status, active, box, prompt, posted, asked, reads, diffs, edits, keys>>

RowRepo(row) == IF row \in Trees THEN Parent[row] ELSE row

\* App::file_op_dir: None when the row is gone.
FileOpDir(owner) ==
  IF owner \notin listed THEN None ELSE IF active # None THEN active ELSE owner

-----------------------------------------------------------------------------
(* FileList: operators from box to box.  `of' is the tree the files were   *)
(* read from, which the code does not keep.                                *)

Box ==
  [of : Paths \cup {None}, owner : Repos \cup {None}, name : Paths \cup {None}, files : SUBSET Files,
   sel : Files \cup {None}, search : BOOLEAN, query : SUBSET Files, path : Files \cup {None},
   diff : [tree : Paths, file : Files] \cup {None}]

EmptyBox ==
  [of |-> None, owner |-> None, name |-> None, files |-> {}, sel |-> None, search |-> FALSE,
   query |-> Files, path |-> None, diff |-> None]

\* Position of a file in the list, and the file at a position.
Pos(S, f) == Cardinality({g \in S : g <= f})
At(S, i) == CHOOSE f \in S : Pos(S, f) = i

\* ListFilter::selected_match.
Matched(b, sel) ==
  LET m == b.files \cap b.query IN
  IF sel \in m THEN sel ELSE IF m = {} THEN None ELSE At(m, 1)

\* set_files' cursor: the same file, else the same position, else the first.
Kept(b, same, files) ==
  IF files = {} THEN None
  ELSE IF ~same \/ b.sel = None THEN At(files, 1)
  ELSE IF b.sel \in files THEN b.sel
  ELSE LET p == Pos(b.files, b.sel) IN At(files, IF p <= Cardinality(files) THEN p ELSE Cardinality(files))

\* Does set_files drop the open diff?  It also bumps diff_generation then.
Resets(b, files, name, owner) ==
  LET same == b.owner = owner /\ b.name = name IN
  /\ ~same \/ b.files # files
  /\ ~(same /\ b.path \in files)

SetFiles(b, files, name, owner, of) ==
  LET same == b.owner = owner /\ b.name = name
      c == [b EXCEPT !.of = of, !.owner = owner, !.name = name, !.files = files,
                     !.search = @ /\ same, !.query = IF same THEN @ ELSE Files]
      d == IF Resets(b, files, name, owner) THEN [c EXCEPT !.path = None, !.diff = None] ELSE c
  IN [d EXCEPT !.sel = Matched(d, Kept(b, same, files))]

Fill(b, files, name, owner, of) ==
  /\ box' = SetFiles(b, files, name, owner, of)
  /\ diffs' = IF Resets(b, files, name, owner) THEN {} ELSE diffs

-----------------------------------------------------------------------------
(* Events: a key, a click, a poll, a change of the disk.  The loop takes   *)
(* one when the channel is empty.                                          *)

Idle == posted = <<>>

Action(type, owner, arg) == [type |-> type, owner |-> owner, arg |-> arg]

Key(p) == /\ Idle /\ keys < MaxKeys /\ keys' = keys + 1
          /\ posted' = p
          /\ UNCHANGED <<asked, reads, edits>>

Untouched == UNCHANGED <<disk, listed, cursor, status, active, box, prompt, diffs>>

Files0(r) == IF status[r] = None THEN {} ELSE status[r]

\* j, k, a click: the list posts what the new row needs.
MoveCursor ==
  /\ prompt = None
  /\ \E row \in listed \cup {w \in Worktrees : Parent[w] \in listed /\ w \in DOMAIN disk} :
       /\ cursor' = row
       /\ Key(<<IF row \in Trees THEN Action("SelectTree", Parent[row], row) ELSE Action("SelectRepo", row, row)>>)
  /\ UNCHANGED <<disk, listed, status, active, box, prompt, diffs>>

\* Context menu of a changed submodule: show its own repository.
OpenSubmodule ==
  /\ prompt = None
  /\ \E s \in Submodules :
       /\ box.owner = Parent[s] /\ box.files \cap Pointers # {}
       /\ Key(<<Action("SelectTree", Parent[s], s)>>)
  /\ Untouched

\* Enter, or a click on the selected file (try_show_diff).
OpenDiff ==
  /\ prompt = None
  /\ box.sel \in box.files \cap box.query /\ box.owner # None
  /\ box' = [box EXCEPT !.path = box.sel]
  /\ diffs' = {}
  /\ Key(<<Action("ShowDiff", box.owner, box.sel)>>)
  /\ UNCHANGED <<disk, listed, cursor, status, active, prompt>>

\* Esc, q, h over an open diff.
CloseDiff ==
  /\ prompt = None /\ box.diff # None
  /\ box' = [box EXCEPT !.path = None, !.diff = None]
  /\ diffs' = {}
  /\ Key(<<>>)
  /\ UNCHANGED <<disk, listed, cursor, status, active, prompt>>

\* A character of a search, or Esc, which ends it (rebuild_search).
TypeSearch ==
  /\ prompt = None /\ box.diff = None
  /\ \E q \in Queries, on \in BOOLEAN :
       /\ ~on => q = Files
       /\ box.search \/ on
       /\ LET b == [box EXCEPT !.search = on, !.query = q] IN box' = [b EXCEPT !.sel = Matched(b, @)]
  /\ diffs' = {}
  /\ Key(<<>>)
  /\ UNCHANGED <<disk, listed, cursor, status, active, prompt>>

StepFile ==
  /\ prompt = None /\ \E f \in box.files \cap box.query : f # box.sel /\ box' = [box EXCEPT !.sel = f]
  /\ Key(<<>>)
  /\ UNCHANGED <<disk, listed, cursor, status, active, prompt, diffs>>

\* Right click, then Discard: the dialog keeps the owner and the file.
Ask ==
  /\ prompt = None /\ box.owner # None
  /\ \E f \in box.files : prompt' = [owner |-> box.owner, file |-> f]
  /\ Key(<<>>)
  /\ UNCHANGED <<disk, listed, cursor, status, active, box, diffs>>

Answer ==
  /\ prompt # None /\ prompt' = None
  /\ \/ Key(<<Action("Discard", prompt.owner, prompt.file)>>)
     \/ Key(<<>>)
  /\ UNCHANGED <<disk, listed, cursor, status, active, box, diffs>>

\* `d' on a worktree row, confirmed.  git may refuse, and often does.
RemoveWorktree ==
  /\ prompt = None /\ cursor \in Worktrees \cap DOMAIN disk
  /\ active' = IF active = cursor THEN None ELSE active
  /\ \/ disk' = [p \in DOMAIN disk \ {cursor} |-> disk[p]]
     \/ disk' = disk
  /\ Key(<<Action("Refresh", Parent[cursor], None)>>)
  /\ UNCHANGED <<listed, cursor, status, box, prompt, diffs>>

\* `d' on a repository row, confirmed (RemoveRepo): the next row is selected,
\* or the list is empty.
RemoveRepo ==
  /\ prompt = None /\ cursor \in listed
  /\ listed' = listed \ {cursor}
  /\ active' = IF active \in Inside /\ Parent[active] = cursor THEN None ELSE active
  /\ IF listed' = {}
     THEN /\ cursor' = None
          /\ Fill(box, {}, None, None, None)
          /\ Key(<<>>)
     ELSE \E r \in listed' :
          /\ cursor' = r
          /\ UNCHANGED <<box, diffs>>
          /\ Key(<<Action("SelectRepo", r, r)>>)
  /\ UNCHANGED <<disk, status, prompt>>

\* A repository is deleted, and discovery drops its row (DiscoverNewRepos
\* with sync_selection, which re-targets the panel).
Vanish(r) ==
  /\ Idle /\ edits < MaxEdits /\ edits' = edits + 1
  /\ r \in listed
  /\ disk' = [p \in {q \in DOMAIN disk : RowRepo(q) # r} |-> disk[p]]
  /\ listed' = listed \ {r}
  /\ cursor' \in IF RowRepo(cursor) # r THEN {cursor} ELSE IF listed' = {} THEN {None} ELSE listed'
  /\ active' = IF active # None /\ Parent[active] = r THEN None ELSE active
  /\ IF active' # None THEN UNCHANGED <<box, diffs>>
     ELSE IF cursor' = None THEN Fill(box, {}, None, None, None)
     ELSE LET s == RowRepo(cursor') IN Fill(box, Files0(s), s, s, s)
  /\ asked' = IF active' # None THEN asked \cup {active'} ELSE asked
  /\ UNCHANGED <<status, prompt, posted, reads, keys>>

Edit ==
  /\ edits < MaxEdits /\ edits' = edits + 1
  /\ \/ \E p \in DOMAIN disk : \E S \in Contents : S # disk[p] /\ disk' = [disk EXCEPT ![p] = S]
     \/ \E w \in Trees \cap DOMAIN disk : disk' = [p \in DOMAIN disk \ {w} |-> disk[p]]
  /\ UNCHANGED <<listed, cursor, status, active, box, prompt, posted, asked, reads, diffs, keys>>

\* Would a status of this path tell the TUI anything new?
News(p) ==
  /\ p \in DOMAIN disk /\ [path |-> p, files |-> disk[p]] \notin reads
  /\ IF p \in Trees THEN box.of # p \/ disk[p] # box.files
     ELSE status[p] # disk[p] \/ (RowRepo(cursor) = p /\ active = None /\ box.of # p)

\* poll_local: a status of every row, and the active tree once more.  Polls
\* that could only report what is known are left out.
PollLocal ==
  /\ Idle
  /\ asked' = asked \cup {p \in listed \cup ({active} \ {None}) : News(p)}
  /\ asked' # asked
  /\ UNCHANGED <<disk, listed, cursor, status, active, box, prompt, posted, reads, diffs, edits, keys>>

-----------------------------------------------------------------------------
(* Handlers of the posted actions.                                         *)

Taking(type) == ~Idle /\ Head(posted).type = type /\ posted' = Tail(posted)

\* SelectRepo and FocusRepoDetails.
SelectRepo ==
  /\ Taking("SelectRepo")
  /\ active' = None
  /\ LET r == Head(posted).owner IN
     IF r \in listed THEN Fill(box, Files0(r), r, r, r) ELSE UNCHANGED <<box, diffs>>
  /\ UNCHANGED <<disk, listed, cursor, status, prompt, asked, reads, edits, keys>>

\* SelectWorktree and SelectSubmodule (activate_path_context).
SelectTree ==
  /\ Taking("SelectTree")
  /\ LET t == Head(posted).arg IN
     /\ active' = t
     /\ Fill(box, {}, t, Parent[t], t)
     /\ asked' = asked \cup {t}
  /\ UNCHANGED <<disk, listed, cursor, status, prompt, reads, edits, keys>>

\* The tree the diff of a file is read from: a submodule's own checkout is
\* looked up in the repository row, whatever tree is active.
DiffTree(owner, f) ==
  IF status[owner] # None /\ f \in status[owner] \cap Pointers THEN owner ELSE FileOpDir(owner)

MutantShowDiff ==
  /\ Taking("ShowDiff")
  /\ LET a == Head(posted) IN
     diffs' = IF a.owner \notin listed THEN diffs
              ELSE diffs \cup {[tree |-> DiffTree(a.owner, a.arg), file |-> a.arg]}
  /\ UNCHANGED <<disk, listed, cursor, status, active, box, prompt, asked, reads, edits, keys>>

\* A diff of a row that is gone is not refused.
MutantShowAnyDiff ==
  /\ Taking("ShowDiff")
  /\ LET a == Head(posted) IN
     diffs' = IF box.owner # a.owner \/ box.path # a.arg THEN diffs
              ELSE {[tree |-> DiffTree(a.owner, a.arg), file |-> a.arg]}
  /\ UNCHANGED <<disk, listed, cursor, status, active, box, prompt, asked, reads, edits, keys>>

\* ShowDiff: start_diff refuses what the list no longer asks for.
ShowDiff ==
  /\ Taking("ShowDiff")
  /\ LET a == Head(posted) IN
     diffs' = IF box.owner # a.owner \/ box.path # a.arg THEN diffs
              ELSE IF a.owner \notin listed THEN {}
              ELSE {[tree |-> DiffTree(a.owner, a.arg), file |-> a.arg]}
  /\ UNCHANGED <<disk, listed, cursor, status, active, box, prompt, asked, reads, edits, keys>>

\* DiscardFileConfirmed (StageFile and UnstageFile run in the same directory).
Discard ==
  /\ Taking("Discard")
  /\ LET a == Head(posted)
         d == FileOpDir(a.owner)
     IN /\ disk' = IF d \in DOMAIN disk THEN [disk EXCEPT ![d] = @ \ {a.arg}] ELSE disk
        /\ asked' = asked \cup ({a.owner} \cap listed)
                          \cup {t \in {active} \ {None} : Parent[t] = a.owner}
  /\ UNCHANGED <<listed, cursor, status, active, box, prompt, reads, diffs, edits, keys>>

\* RefreshRepo, and what GitOpComplete adds for the active tree.
Refresh ==
  /\ Taking("Refresh")
  /\ LET r == Head(posted).owner IN
     asked' = asked \cup ({r} \cap listed) \cup {t \in {active} \ {None} : Parent[t] = r}
  /\ UNCHANGED <<disk, listed, cursor, status, active, box, prompt, reads, diffs, edits, keys>>

-----------------------------------------------------------------------------
(* Background queries: they read at one instant and report at another.     *)

Read(p) ==
  /\ p \in asked /\ asked' = asked \ {p}
  /\ reads' = IF p \in DOMAIN disk THEN reads \cup {[path |-> p, files |-> disk[p]]} ELSE reads
  /\ UNCHANGED <<disk, listed, cursor, status, active, box, prompt, posted, diffs, edits, keys>>

\* refresh_diff: the open diff is asked for again.
RefreshDiff(b) ==
  posted' = IF b.path = None \/ b.owner = None THEN posted
            ELSE Append(posted, Action("ShowDiff", b.owner, b.path))

Applied(files, t, owner) ==
  LET b == SetFiles(box, files, t, owner, t) IN
  /\ box' = b
  /\ diffs' = IF Resets(box, files, t, owner) \/ b.path # None THEN {} ELSE diffs
  /\ RefreshDiff(b)

\* RepoStatusUpdated, as far as the panel is concerned.
StatusUpdated(t) ==
  /\ t \in reads /\ t.path \in Repos /\ reads' = reads \ {t}
  /\ status' = IF t.path \in listed THEN [status EXCEPT ![t.path] = t.files] ELSE status
  /\ IF t.path \in listed /\ RowRepo(cursor) = t.path /\ active = None
     THEN Applied(t.files, t.path, t.path)
     ELSE UNCHANGED <<box, diffs, posted>>
  /\ UNCHANGED <<disk, listed, cursor, active, prompt, asked, edits, keys>>

WorktreeFilesLoaded(t) ==
  /\ t \in reads /\ t.path \in Trees /\ reads' = reads \ {t}
  /\ IF active = t.path THEN Applied(t.files, t.path, Parent[t.path])
     ELSE UNCHANGED <<box, diffs, posted>>
  /\ UNCHANGED <<disk, listed, cursor, status, active, prompt, asked, edits, keys>>

DiffLoaded(t) ==
  /\ t \in diffs /\ diffs' = diffs \ {t}
  /\ box' = [box EXCEPT !.diff = t]
  /\ UNCHANGED <<disk, listed, cursor, status, active, prompt, posted, asked, reads, edits, keys>>

-----------------------------------------------------------------------------
BoxInit ==
  /\ disk = Trees0
  /\ listed = Repos
  /\ cursor \in Repos
  /\ status = [r \in Repos |-> None]
  /\ active = None
  /\ box = [EmptyBox EXCEPT !.of = cursor, !.owner = cursor, !.name = cursor]
  /\ prompt = None /\ posted = <<>> /\ asked = {} /\ reads = {} /\ diffs = {}
  /\ edits = 0 /\ keys = 0

Handle == SelectRepo \/ SelectTree \/ ShowDiff \/ Discard \/ Refresh
Reports == \E t \in reads : StatusUpdated(t) \/ WorktreeFilesLoaded(t)

BoxNext ==
  \/ MoveCursor \/ OpenSubmodule \/ OpenDiff \/ CloseDiff \/ TypeSearch \/ StepFile
  \/ Ask \/ Answer \/ RemoveWorktree \/ RemoveRepo \/ Edit \/ PollLocal
  \/ \E r \in Repos : Vanish(r)
  \/ Handle \/ Reports
  \/ \E p \in Paths : Read(p)
  \/ \E t \in diffs : DiffLoaded(t)

\* The loop drains its channel, the local poll returns, queries end.
BoxFairness ==
  WF_boxVars(Handle) /\ WF_boxVars(Reports) /\ WF_boxVars(\E p \in Paths : Read(p)) /\ SF_boxVars(PollLocal)

BoxSpec == BoxInit /\ [][BoxNext]_boxVars /\ BoxFairness

-----------------------------------------------------------------------------
(* Properties.                                                             *)

BoxTypeOK ==
  /\ DOMAIN disk \subseteq Paths /\ \A p \in DOMAIN disk : disk[p] \subseteq Files
  /\ listed \subseteq Repos /\ cursor \in Paths \cup {None} /\ active \in Trees \cup {None}
  /\ \A r \in Repos : status[r] = None \/ status[r] \subseteq Files
  /\ box \in Box
  /\ prompt = None \/ prompt \in [owner : Repos, file : Files]
  /\ asked \subseteq Paths /\ reads \subseteq [path : Paths, files : SUBSET Files]
  /\ diffs \subseteq [tree : Paths, file : Files]

\* The panel's context is what the list was filled from: nothing dropped it
\* under the list.  `RemoveWorktree' and a vanished selection do.
InContext == box.of \in Trees => active = box.of

\* Is the diff of the chosen file still to come?
Coming ==
  \/ \E i \in DOMAIN posted : posted[i] = Action("ShowDiff", box.owner, box.path)
  \/ \E t \in diffs : t.file = box.path

\* Late diffs are never shown: an open diff is of the chosen file, or that of
\* the chosen file is on its way, or the repository is gone; the file is still
\* listed, and the diff was read in the listed tree.
DiffIsOfBox ==
  box.diff # None =>
    /\ box.path \in box.files
    /\ box.diff.file = box.path \/ Coming \/ box.owner \notin listed
    /\ (InContext /\ box.diff.file \notin Pointers) => box.diff.tree = box.of

\* src/app/launch/mod.rs:99 says of file_op_dir that "file ops act on the same
\* tree the diffs come from".
OpsActOnDiffedTree ==
  box.diff # None /\ FileOpDir(box.owner) # None => FileOpDir(box.owner) = box.diff.tree

\* In the end the list shows the tree it names as it is on disk.
BoxShowsDisk ==
  <>[](box.of \in DOMAIN disk => box.files = disk[box.of])
=============================================================================
