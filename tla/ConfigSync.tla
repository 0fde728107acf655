---------------------------- MODULE ConfigSync -----------------------------
(***************************************************************************)
(* Panes of gitpane, and bridge processes, that share one config.toml      *)
(* (src/config/sync.rs, src/app/config_sync.rs, src/app/repo_admin.rs,     *)
(* src/bridge/theme).                                                      *)
(*                                                                         *)
(* A process keeps the configuration it works with and a snapshot of what  *)
(* it last read or wrote.  A save takes the lock beside the file, reads    *)
(* the file, applies to it the difference between snapshot and             *)
(* configuration, and replaces the file by a rename.  Reads take no lock.  *)
(*                                                                         *)
(* Abstractions.  Of the configuration: the pinned and the excluded        *)
(* repositories as sets (order plays no role), and one scalar, the theme,  *)
(* for every other setting.  An exclusion pattern names one repository.    *)
(* Nobody edits or deletes the file by hand, and no repository appears on  *)
(* disk or leaves it, while panes run.                                     *)
(***************************************************************************)
EXTENDS Integers, Panels

CONSTANTS
  Panes,         \* running TUIs
  Editors,       \* bridge processes that save a theme
  Synced,        \* panes with sync_repos enabled
  Repos,         \* repositories on disk
  Found,         \* those under the scan roots, which discovery finds
  DefaultExcluded, \* those the default patterns exclude
  Files,         \* what config.toml may hold when the first process starts
  Themes,
  DefaultTheme,
  Missing,       \* there is no config.toml
  MaxEdits,      \* bound: what users ask to save
  MaxFailures    \* bound: saves that fail, processes that start again

Procs  == Panes \cup Editors
Config == [pinned : SUBSET Repos, excluded : SUBSET Repos, theme : Themes]

ASSUME ProcsAssumption ==
  Panes \cap Editors = {} /\ Synced \subseteq Panes /\ None \notin Procs \cup Themes
ASSUME ReposAssumption == Found \subseteq Repos /\ DefaultExcluded \subseteq Found
ASSUME FilesAssumption == Files \subseteq Config
ASSUME ThemesAssumption == DefaultTheme \in Themes
ASSUME MissingAssumption == {Missing, None} \cap Config = {} /\ Missing # None
ASSUME BoundsAssumption == MaxEdits \in Nat /\ MaxFailures \in Nat

Default == [pinned |-> {}, excluded |-> DefaultExcluded, theme |-> DefaultTheme]

VARIABLES
  file,      \* config.toml
  read,      \* what the holder of config.toml.lock read; None for others
  live,      \* App::config of each process
  base,      \* Config::saved_snapshot
  rows,      \* RepoList::repos of each pane
  saving,    \* the save under way in each process
  chosen,    \* history: processes whose user chose a theme that is not saved
  edits, failures

vars == <<file, read, live, base, rows, saving, chosen, edits, failures>>

(* A save: the configuration to write, and the theme the file must have.   *)
Save == [config : Config, expected : Themes \cup {None}]
ASSUME SaveAssumption == None \notin Save

-----------------------------------------------------------------------------
(* The merge.                                                              *)

(* Mutation: the last writer wins.                                         *)
MutantMergedSet(old, new, current) == new

MergedSet(old, new, current) == (current \ (old \ new)) \cup (new \ old)

MergedTheme(old, new, current) == IF new = old THEN current ELSE new

(* merge_changes: what changed from old to new, applied to current.        *)
Merged(old, new, current) ==
  [pinned   |-> MergedSet(old.pinned, new.pinned, current.pinned),
   excluded |-> MergedSet(old.excluded, new.excluded, current.excluded),
   theme    |-> MergedTheme(old.theme, new.theme, current.theme)]

(* Only the membership is taken over from disk.                            *)
WithMembers(c, disk) == [c EXCEPT !.pinned = disk.pinned, !.excluded = disk.excluded]

SameMembers(c, d) == c.pinned = d.pinned /\ c.excluded = d.excluded

(* discover_repos: exclusions do not apply to pinned repositories.         *)
Listed(c) == c.pinned \cup (Found \ c.excluded)

OnDisk == IF file = Missing THEN Default ELSE file

Init ==
  /\ file \in Files \cup {Missing}
  /\ read = [p \in Procs |-> None]
  /\ live = [p \in Procs |-> OnDisk] /\ base = live
  /\ rows = [p \in Panes |-> Listed(OnDisk)]
  /\ saving = [p \in Procs |-> None]
  /\ chosen = {} /\ edits = 0 /\ failures = 0

-----------------------------------------------------------------------------
(* Reading.                                                                *)

(* reload_membership, of the configuration or of its snapshot.             *)
Reloaded(p, c) ==
  IF p \in Synced /\ file # Missing THEN WithMembers(c, file) ELSE c

(* Mutation: the whole snapshot advances to the file.                      *)
MutantRefresh(p) ==
  /\ live' = [live EXCEPT ![p] = Reloaded(p, @)]
  /\ base' = [base EXCEPT ![p] = IF file = Missing THEN @ ELSE file]

Refresh(p) ==
  /\ live' = [live EXCEPT ![p] = Reloaded(p, @)]
  /\ base' = [base EXCEPT ![p] = Reloaded(p, @)]

(* The rows after a refresh: discovered again if the membership changed.   *)
RowsAfter(p, c) == IF SameMembers(c, live[p]) THEN rows[p] ELSE Listed(c)

(* Every second, when the focus comes, when a deep sleep ends; and all     *)
(* that adding a listed repository or removing an unlisted one comes to.   *)
RefreshSharedMembership(p) ==
  /\ saving[p] = None
  /\ Refresh(p)
  /\ rows' = [rows EXCEPT ![p] = RowsAfter(p, live'[p])]
  /\ UNCHANGED <<file, read, saving, chosen, edits, failures>>

-----------------------------------------------------------------------------
(* What users ask for.                                                     *)

Asks(p, c, expected) ==
  /\ saving[p] = None
  /\ edits < MaxEdits /\ edits' = edits + 1
  /\ saving' = [saving EXCEPT ![p] = [config |-> c, expected |-> expected]]
  /\ UNCHANGED <<file, read, failures>>

(* Add, remove and rescan refresh first, and then edit a copy.             *)
Admin(p, c) ==
  /\ Refresh(p)
  /\ rows' = [rows EXCEPT ![p] = RowsAfter(p, live'[p])]
  /\ Asks(p, c, None)
  /\ UNCHANGED chosen

AddRepo(p, r) ==
  LET c == Reloaded(p, live[p]) IN
  /\ r \notin RowsAfter(p, c)
  /\ Admin(p, [c EXCEPT !.pinned = @ \cup {r}])

RemoveRepo(p, r) ==
  LET c == Reloaded(p, live[p]) IN
  /\ r \in RowsAfter(p, c)
  /\ Admin(p, [c EXCEPT !.pinned = @ \ {r}, !.excluded = @ \cup ({r} \cap Found)])

RescanRepos(p) == Admin(p, [Reloaded(p, live[p]) EXCEPT !.excluded = {}])

(* The theme picker: the live configuration changes before it is saved.    *)
CommitTheme(p, t) ==
  /\ live' = [live EXCEPT ![p].theme = t]
  /\ chosen' = chosen \cup {p}
  /\ Asks(p, live'[p], None)
  /\ UNCHANGED <<base, rows>>

(* The bridge reads the file anew, and saves only over the theme that the  *)
(* user of the editor saw.                                                 *)
SaveTheme(p, t, seen) ==
  /\ live' = [live EXCEPT ![p] = [OnDisk EXCEPT !.theme = t]]
  /\ base' = [base EXCEPT ![p] = OnDisk]
  /\ chosen' = chosen \cup {p}
  /\ Asks(p, live'[p], seen)
  /\ UNCHANGED rows

-----------------------------------------------------------------------------
(* save_to_path_checked.                                                   *)

Holders == {p \in Procs : read[p] # None}

(* Mutation: the file is read although another process holds the lock.     *)
MutantTakeLock(p) ==
  /\ saving[p] # None /\ read[p] = None
  /\ read' = [read EXCEPT ![p] = file]
  /\ UNCHANGED <<file, live, base, rows, saving, chosen, edits, failures>>

TakeLock(p) ==
  /\ saving[p] # None /\ Holders = {}
  /\ read' = [read EXCEPT ![p] = file]
  /\ UNCHANGED <<file, live, base, rows, saving, chosen, edits, failures>>

ThemeOf(c) == IF c = Missing THEN DefaultTheme ELSE c.theme

(* What is written, and what the process then works with.                  *)
Written(p) ==
  IF read[p] = Missing THEN saving[p].config
  ELSE Merged(base[p], saving[p].config, read[p])

Adopted(p) ==
  IF p \in Synced THEN WithMembers(saving[p].config, Written(p)) ELSE saving[p].config

Persists(p, c) ==
  /\ saving[p].expected \in {None, ThemeOf(read[p])}
  /\ file' = Written(p)
  /\ live' = [live EXCEPT ![p] = Adopted(p)]
  /\ base' = [base EXCEPT ![p] = Adopted(p)]
  /\ rows' = IF p \in Panes THEN [rows EXCEPT ![p] = Listed(c)] ELSE rows
  /\ saving' = [saving EXCEPT ![p] = None] /\ chosen' = chosen \ {p}
  /\ read' = [read EXCEPT ![p] = None]
  /\ UNCHANGED <<edits, failures>>

(* Mutation: only the repository that was edited enters or leaves the rows, *)
(* not those another pane added or removed since.                          *)
MutantPersist(p) == p \in Holders /\ Persists(p, saving[p].config)

(* Every save of a pane ends in discovery (the handlers that made the edit *)
(* run DiscoverNewRepos, or rebuild the list).                             *)
Persist(p) == p \in Holders /\ Persists(p, Adopted(p))

(* Mutation: the lock outlives a save that writes nothing.                 *)
MutantUnlocked(p) == UNCHANGED read

Unlocked(p) == read' = [read EXCEPT ![p] = None]

(* Another theme is on disk than the editor showed: nothing is written.    *)
StaleTheme(p) ==
  /\ p \in Holders
  /\ saving[p].expected \notin {None, ThemeOf(read[p])}
  /\ saving' = [saving EXCEPT ![p] = None] /\ chosen' = chosen \ {p}
  /\ Unlocked(p)
  /\ UNCHANGED <<file, live, base, rows, edits, failures>>

(* The edited copy is discarded; a theme chosen in a pane stays.           *)
SaveFails(p) ==
  /\ saving[p] # None
  /\ failures < MaxFailures /\ failures' = failures + 1
  /\ saving' = [saving EXCEPT ![p] = None]
  /\ Unlocked(p)
  /\ UNCHANGED <<file, live, base, rows, chosen, edits>>

(* A process dies, in the middle of a save perhaps, and another starts.    *)
Restart(p) ==
  /\ failures < MaxFailures /\ failures' = failures + 1
  /\ live' = [live EXCEPT ![p] = OnDisk] /\ base' = [base EXCEPT ![p] = OnDisk]
  /\ rows' = IF p \in Panes THEN [rows EXCEPT ![p] = Listed(OnDisk)] ELSE rows
  /\ saving' = [saving EXCEPT ![p] = None] /\ chosen' = chosen \ {p}
  /\ Unlocked(p)
  /\ UNCHANGED <<file, edits>>

User(p) ==
  \/ \E r \in Repos : AddRepo(p, r) \/ RemoveRepo(p, r)
  \/ RescanRepos(p)
  \/ \E t \in Themes : CommitTheme(p, t)

Saves(p) == TakeLock(p) \/ Persist(p) \/ StaleTheme(p)

Next ==
  \/ \E p \in Panes : RefreshSharedMembership(p) \/ User(p)
  \/ \E p \in Editors : \E t, seen \in Themes : SaveTheme(p, t, seen)
  \/ \E p \in Procs : Saves(p) \/ SaveFails(p) \/ Restart(p)

(* A save under way goes on, and every pane looks at the file again.       *)
Fairness ==
  /\ \A p \in Procs : WF_vars(Saves(p))
  /\ \A p \in Panes : WF_vars(RefreshSharedMembership(p))

Spec == Init /\ [][Next]_vars
FairSpec == Spec /\ Fairness

-----------------------------------------------------------------------------
(* Properties.                                                             *)

(* Type correctness; only a process that saves holds the lock.             *)
TypeOK ==
  /\ file \in Config \cup {Missing}
  /\ read \in [Procs -> Config \cup {Missing, None}]
  /\ live \in [Procs -> Config] /\ base \in [Procs -> Config]
  /\ rows \in [Panes -> SUBSET Repos]
  /\ saving \in [Procs -> Save \cup {None}]
  /\ \A p \in Holders : saving[p] # None
  /\ chosen \subseteq Procs /\ edits \in Nat /\ failures \in Nat

(* No lost update, no removal undone: seen through the file alone, every   *)
(* step of every process is one edit of the sets that are there, whatever  *)
(* was saved since that process last read them (README.md: panes "share    *)
(* repo additions and removals"; an opted-out pane's "changes still save   *)
(* to the shared config").                                                 *)
Members == INSTANCE SharedMembership WITH
             pinned <- OnDisk.pinned, excluded <- OnDisk.excluded

Shared == Members!Spec

(* A save does not bring back an older theme: unless its user chose one,   *)
(* the theme of the file stays as it is ("an unrelated save preserves      *)
(* remote edits", config/sync.rs).                                         *)
ThemeKept ==
  [][\A p \in Procs : Persist(p) /\ p \notin chosen => file'.theme = ThemeOf(file)]_vars

(* A process that read the file under the lock writes over what it read.   *)
(* (What two merges at once would lose, whichever fields they change.)     *)
ReadIsFile == \A p \in Holders : read[p] = file

(* "Running instances using the same config share repo additions and       *)
(* removals.  Visible panes refresh within about a second" (README.md):    *)
(* every pane that shares ends up listing what the file says.              *)
ListsAgree == \A p \in Synced : <>[](rows[p] = Listed(OnDisk))

(* "Enter saves the choice to config.toml" (README.md): after the save of  *)
(* a theme that a user chose, the file has that theme.                     *)
ThemePersisted ==
  [][\A p \in Procs : Persist(p) /\ p \in chosen => file'.theme = live'[p].theme]_vars
=============================================================================
