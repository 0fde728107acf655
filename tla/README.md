# gitpane in TLA+

gitpane is a terminal dashboard of many git repositories (Rust, `src/src`) with
a JSON bridge (`src/src/bridge`) that a VS Code extension drives
(`src/vscode-extension`). What is hard about it is order. One event loop owns
all the state of the TUI, while status queries, graph builds, cooldown timers,
git commands, a filesystem watcher and poll timers run on background tasks that
know nothing of each other and report through one channel. Several panes share
a configuration file. The bridge answers an editor about repositories that other
programs change between any two of its reads. These modules model that order.

All line numbers are of the sources in this repository. `PROJECT.json` maps
every definition that models code to its lines.

## The system: parts, state, properties

| Part | State | What is hard, what makes it correct | Here |
|---|---|---|---|
| **Status scheduler** (`app/mod.rs`, `actions.rs`, `actions_extra.rs`, `repo_admin.rs`, `launch/mod.rs`) | `pending_status`, `dirty_repos`, `refresh_scheduled`, `last_refresh`, each row's `status` and `git_op`; query, timer and git tasks | a completion may belong to a row that is gone; no mark may leak, no change may be forgotten, no spinner may stay | `StatusScheduler` |
| **Graph loader and cache** (`components/git_graph`) | rows, `load_in_flight`, `needs_reload`, `load_generation`, `consecutive_aborts`, the LRU cache | reports of builds left behind; filters edited under a build; a cache that must not bring stale rows back | `GraphLoader` |
| **Graph on the screen** (`git/graph`, `components/git_graph`, `bridge/graph.rs`) | lanes, folded branches, filters, the selection | lanes are freed and taken again from row to row; rows change under the selection | `GraphView` |
| **Changes panel, active worktree** (`components/file_list`, `app/launch`, `app/actions.rs`) | the listed files and whose they are, the diff, `active_worktree`, `diff_generation` | three kinds of query feed one list; file operations must act on the tree that is listed | `ChangesPanel` |
| **Commit detail** (`components/git_graph`) | files, highlight, diff, two generations, a debounce | answers and debounces of a commit left behind | `CommitDetail` |
| **Scrolled text** (`components/scroll_pane`) | offset, cached index of the wrapped text, the bar | a frame built from a kept index must be the frame of the whole text | `ScrollPane` |
| **GitHub panel** (`app/github.rs`, `components/github_panel.rs`) | cache with age, reserved requests, debounce, filter | answers for a repository or a filter left since; a "Loading" that nobody ends | `GithubPanel` |
| **Overlays, input, picker** (`app/input.rs`, `selection`, `app/launch`) | what is open, the press not yet delivered, the pending pick | keys, clicks and frames follow three orders of the overlays | `AppShell` |
| **Repository list** (`components/repo_list`, `git/repo_sort.rs`) | rows, groups, folds, order, selection | the list is rebuilt behind the user's back | `RepoRows` |
| **Discovery and watcher** (`watcher.rs`, `git/scanner.rs`, `app/mod.rs`) | watcher slot, cooldown, deferred root change | a watcher that is ready after a newer one; a change during a cooldown or in sleep | `Discovery` |
| **Power and timers** (`tui.rs`, `session/visibility.rs`) | three copies of the power state, timers, the run loop | a command run inline ends two of the three | `PowerLoop` |
| **Processes and quit** (`git/process.rs`, `main.rs`) | registry of process groups, its lock, the flag | a process is being started while the quit kills; ids that other programs get | `ProcessGroups` |
| **Shared configuration** (`config/sync.rs`, `app/config_sync.rs`) | snapshot and live settings of each pane, the file, its lock | a stale pane must neither lose nor restore another one's change | `ConfigSync`, `SharedMembership` |
| **Bridge: mutations** (`bridge/mutation.rs`, `file_identity.rs`, `fetch`) | the identity the preview answered with | the repository changes between preview, confirmation and execution | `BridgeMutation` |
| **Bridge: submodules** (`bridge/submodule/actions.rs`) | a batch, what is done and what is left | it fails in the middle; what is done stays done | `SubmoduleBatch` |
| **Bridge: listings of changes** (`bridge/changes`) | one listing per repository, its pages, a byte limit | views that share, replace and expire each other's listings | `ChangeSnapshots` |
| **Bridge: contents** (`bridge/content_worker`, `changes/blob.rs`) | none; four ways to read twice | several reads make one answer while Git works in the repository | `ContentReads` |
| **Bridge: content worker** (`bridge/content_worker/mod.rs`) | supervisor, guardian, executor, two pipes | any of them is killed at any step | `ContentWorker` |
| **Bridge: launcher** (`bridge/launcher`, `session/launcher`) | a pane that is created in steps | the place chosen is gone; a failure leaves something behind | `MuxLaunch` |
| **Extension** (`src/vscode-extension`, JavaScript) | pending requests, generations, locks | | not modelled |
| **Drawing, themes, libgit2 reads, update check** | none that another step reads | | not modelled |

In the TUI the parts meet in the channel of actions (`App::run`): an event is
handled, then actions are handled until the channel is empty, then the next event.
A background task may append at any moment. `StatusScheduler` has that loop as it
is, since its properties depend on it; the other modules keep of it what theirs
depend on and say so in their head: in `GraphLoader`, `ChangesPanel` and
`CommitDetail` what an event posts is handled before the next event, with results in
between, in the others an event and the actions it sends are one step.

Each module is one part with the parts around it as its environment, so the
models meet at their interfaces: `StatusScheduler` shows that a status comes in the
end, which is the fairness `GraphLoader` and `ChangesPanel` assume of it;
`Discovery` shows that the list and the watcher follow the disk, which
`StatusScheduler` assumes of the watcher; `PowerLoop` gives the power transitions
that `StatusScheduler` takes as given; `ContentReads` is what the executor of
`ContentWorker` does.

## Modules

### StatusScheduler

State: the disk (which repositories exist, a version of each working tree), the
watcher's reports still to come, the rows with their status and spinner, the
four books (`pending`, `dirty`, `scheduled`, `cooling`), the tasks (`queries`,
`timers`, `ops`), the action channel as a sequence, and whether the loop is
draining it. Three history variables (`seen`, `missed`, `forced`) say what the
properties need to know of the past; no action reads them.

Each event handler is an action, enabled when the channel is empty; each action
handler is one too, applied to the head of the channel. A query waits for a permit,
reads the disk at one instant, and then reports or fails. `ScheduleRefresh` is
`App::schedule_refresh` with its decision: in flight marks dirty, cooling schedules
at most one timer, otherwise a query starts.

Assumed, each where the code or the operating system provides it: the watcher
reports every change of a listed repository at least once; the cooldown is not
zero, and ends; a query reads the disk at one instant; a timer wakes up
after its delay, however late; queries and git commands end.

### GraphLoader

State: the refs of every path as a version, the list and its selection, the
version in the status of each row, the active worktree or submodule, and the
panel as one record `g` whose fields are those of `GitGraph`; the builds it
spawned are a field of it too. The cache is a map from keys to rows, `None` where it
has nothing, beside the order in which its keys were used. The methods of `GitGraph` are operators
from panel to panel under their own names, so that their nesting is that of the
code: `set_rows` calls `reload_pending`, which calls `force_reload_repo`. The
actions are the handlers that call them.

A build reads the repository at one instant and reports rows, an error or an
abort. Its report is handled when it is sent: a build may stay unfinished for as
long as its report could lie in the channel, so nothing is lost. `posted` is the
`SelectRepo` or `SelectWorktree` that a cursor move leaves in the channel.
`dropped` and `asked` are history variables.

Left out: polls of an active tree whose refresh could only build the same rows
again, which would make the generation infinite; and what is in the rows, which is
`GraphView`.

### GraphView

A history is a sequence of parents, commits numbered by time. `GraphBuilder` (walk,
lanes, connections), the segments of `compute_branch_segments`, the folds of
`project_branch_collapses`, filters, search and selection are functions of it (a
loop of the code is a recursive function over the steps it takes, such as
`Spread` for what a walk reaches); actions are the keys, the picker of the filters and
a reload after refs have moved.
Its properties compare the picture with the history it is of: as many vertical lines
cross a row as commits are awaited there, the line from a commit to its parent has no
gap, folds hide exactly the chains that meet off the trunk, and each row that is not
drawn itself stands behind the placeholder of its branch. The bridge's query
(`GraphQuery`) is compared with the panel. One cell of the drawing is exempt because the
code does not draw it (see the findings).

### ChangesPanel, CommitDetail, ScrollPane

`ChangesPanel`: the disk as the set of changed files of every tree, the rows'
statuses, the cursor, `active_worktree`, the list (`box`, with the tree it is `of`),
queries and diffs under way, prompts. `CommitDetail`: the open detail, the debounce,
the channel, the reads. In both a counter that tells late answers apart is modelled
by what it does: a bump drops what carries the old number. `ScrollPane` has the text
as line lengths and the index `line_starts` in chunks; its reference is the wrapping
of the whole text.

### GithubPanel, AppShell, RepoRows, Discovery, PowerLoop, ProcessGroups

Their heads say what they abstract. Request numbers of `GithubPanel` are unique, so
a call is `live` while a snapshot waits for it. `AppShell` has the three orders
(`KeyReceiver`, `MouseReceiver`, `OnTop`) side by side. `RepoRows` rebuilds its rows
as `resync_rows` does and keeps in `strayed` whether the last step moved the
selection against the user, and in `sorted` whether a row was removed since the last
sort. `Discovery` keeps in `gone` what no watcher could tell of
(changes before a watch was set, or dropped in sleep) so that its properties can name
the exception. `PowerLoop` has the probes, the event loop with its timers, and `App`,
each with its own copy of the power. `ProcessGroups` has the threads of operations, the
main thread and the operating system interleaved, with ids that are given to other
programs.

### ConfigSync and SharedMembership

`SharedMembership` is the promise: the file holds a set of pinned and a set of
excluded repositories, and a step pins one repository, drops one, or restores
excluded ones. A pin made while another pane drops the same repository may win.

`ConfigSync` is the code. Each process (a TUI, or a bridge process that saves a
theme) has the configuration it works with (`live`), a snapshot of what it last
read or wrote (`base`, the `saved_snapshot`), and perhaps a save under way
(`saving`). `Merged` is `merge_changes`. A save blocks its process, so between
the request and its end that process does nothing else; it is three steps here,
because others act in between: the handler edits a copy, `TakeLock` reads the file
under the lock, `Persist` replaces it, adopts the merged membership and discovers the
rows again. `StaleTheme` is the refused compare-and-set, `SaveFails` an error at any
point, `Restart` a process that died. Every setting but the membership behaves the
same, so one of them, the theme, stands for all. An exclusion names one repository.

### BridgeMutation

An operation is the sequence of its reads (`Preview`, `Execute`), composed as the
functions of the code are: `file_identity::plan` is the path check, the arguments of
git and then the identity that is hashed. A read is noted (hashed and compared with
the token), must be 0 (a check that refuses), or is used (the command is made of it).
Other programs change any fact between any two reads. Facts only move on: a file or a
ref that comes back to exactly what it was, unseen, is not told apart from one that
never moved, as in the code. The directories above a file are marked: `working_entry`
compares its two walks with each other and does not hash them, so they are no part of
what is confirmed, and one that is exchanged between preview and execution passes if the
entry in it is the same file. `ActsOn` says what each operation's git command touches of
what the token speaks of; `stage` is not confirmed and only promises where it acts.

### SubmoduleBatch, ChangeSnapshots, ContentReads, ContentWorker, MuxLaunch

`SubmoduleBatch` walks the listing depth first with a stack of frames, one git
command per entry after one check, while heads and entries move; a head that moves
between the check and git is not judged, since nothing in the code could tell.
`ChangeSnapshots` is
the store: one listing per repository, shared by views, with expiry, capacity of its
table and a byte limit; paging, finding and searching are compared with the listing as
it was collected. `ContentReads` has the four readers as sequences of reads with
their checks; `heard` is the history of true answers during a request. Its property says
how far an answer is one state of the repository: a batch and a verified single read
are; metadata, read twice and compared, is in everything whose result names an object,
and in what the index lacks, and so is its part about `HEAD`, but an *error* about a path
names no object, so two passes that both meet it may have met different states, and the
part of the index and the part of `HEAD` may be of different instants. `ContentWorker`
has the processes and pipes of one request. An answer and a cancellation are written when
everything has ended; a failure may not be: any error of `supervise`, one of waiting
included, is written and ends the supervisor (`GivesUp`), and what runs is the guardian's
to end. `MuxLaunch` has the choice, the checks, the pane and what is typed into it; a
launch checks the identity of the repository, `session list` and `goto` only its path.
`DesktopOwner` and the placements are operators.

## Runs

| Run | Instance | What it shows |
|---|---|---|
| `status_safety` | two repositories that may both vanish, one permit, one change, one command of every kind | no order of events, results, timers, rescans and removals leaks a mark (`InFlightIsReal`, `MarksAreConsumed`), strands a spinner (`SpinnerHasWork`), forgets a change (`NoChangeForgotten`), or overlaps queries that no user forced (`OneQueryUnlessForced`) |
| `status_liveness` | one repository, two changes, one busy command, sleeping and waking | a pane that stays awake shows the disk in the end (`AwakeTracksDisk`); the watcher alone suffices for one that only dozes (`WatcherTracksDisk`) |
| `status_visible` | power transitions as tmux can report them | **finding**: `VisibleTracksDisk` fails |
| `graph_safety` | two repositories, the first one selected and removable, its worktree, two filter settings, a cache of two entries; one change, two commands, one failure | the latch stands for one build (`LatchIsBuild`), rows and cache entries belong to their key (`RowsAreOfKey`), requests are not replayed (`NoReplay`), a panel at rest is not behind its row's status but for the window of the findings (`RestIsKnown`) |
| `graph_liveness` | the same list without removals; one change, one command, one failure | the panel catches up with the disk (`SelectedShowsDisk`, `TreeShowsDisk`) |
| `graph_stale` | no failures | **finding**: `NeverResurrected` fails |
| `graph_reset` | a list that may become empty | **finding**: `StaleReportsDropped` fails |
| `config_sync` | *config*: two panes that share, one that opted out, an editor; a repository that discovery finds and one that only a pin lists; three edits, one failure or restart; no file, a fresh one, one with a pin, an exclusion and another theme. *power*: a pane in tmux, one with the idle probe, one with none; three worlds, three chances | the file is a `SharedMembership` (`Shared`), nobody merges into a file that has changed (`ReadIsFile`), a stale pane leaves the theme of another one alone (`ThemeKept`), every sharing pane ends up listing what the file says (`ListsAgree`); at rest probe, event loop and `App` agree on the power, waking fetches nothing, `App` comes to the state its pane is in, and a result does not wait while the pane is seen (`PowerFollows`) |
| `config_theme` | two panes, an editor | **finding**: `ThemePersisted` fails |
| `tui` | *box*: two repositories, a worktree, a submodule, two files, one edit, three keys. *detail*: three commits with two, one and no file, four inputs. *github*: two repositories, one on GitHub, two filters, three touches. *shell*: two picks, one resize. *process*: a mutation, an interactive command, a `gh` call. *rows*: four repositories, a submodule inside a submodule inside the first, whose statuses have still to come, and one apart; two reports of the first, with one worktree and with two. *sites*: a repository, one nested in it, a worktree; two steps of the world. *pane*: an empty text, one with a huge line, one that fits and one that does not, four sizes | the diff belongs to the list and the list to one tree (`DiffIsOfBox`), the detail shows the chosen commit (`DetailIsChosen`), the GitHub panel shows what its title says (`RowsAreOfTarget`), a key or a click acts on what is on top (`InputLands`), a quit ends what it may and nothing else (`ProcessesEnd`), the rows are those of the list, each group of it is together once sorted, and neither a click nor what happens behind the user's back moves the selection astray (`RowsHold`), list, watcher and statuses follow the disk (`ListFollowsDisk`), a frame is that of the whole text (`PaneShowsText`); the Changes panel catches up and a "Loading" ends (`PanelsSettle`) |
| `changes_target` | the *box* part, with removals | **finding**: `OpsActOnDiffedTree` fails |
| `bridge` | *mutation*: every operation, two changes by others between any two reads, four things a client may write. *batch*: three submodules, one nested, two actions of others. *changes*: two views, two repositories, three listings of up to four changes, a small byte limit. *content*: six requests of up to three reads, two writes. *launch*: every placement in both multiplexers, failing at any step. *worker*: two Git processes, any process killed at any step. *graph*: every history of five commits, four longer ones with the keys and the picker | Git acts on what the user confirmed (`MutationIsConfirmed`), a batch tells what it did (`BatchIsTold`), pages are of the listing asked for and the store keeps its limits (`SnapshotsHold`), an answer is one state of the repository (`ReadsAreOneState`), a launch starts once where it was asked to and reports what it left (`LaunchSafety`), a worker that answered or was cancelled leaves nothing running, one that failed or died nothing its guardian does not wait for (`WorkerLeavesNothing`), and what it started ends (`WorkerAlwaysEnds`), the graph is the picture of its history (`GraphIsDrawn`) |

**Runs that are sums.** `tui`, `bridge` and `config_sync` check several parts that
share no variable. `part` is chosen in the initial state, only that part moves, and
the others stay in one initial state: the state graph is the union of the parts'
graphs and their states add up where a product would multiply. An invariant of the
sum is an invariant of each part, and fairness is put on the steps of the part that
moves. The parts of a sum are not composed with each other because they meet only
in the interfaces listed above, each of which is an input of one model and a
property of another. What does share state is one module: statuses and polls with
the list and the power, the graph with statuses and selection, the Changes panel
with the active worktree.

### Bounds, and why they suffice

In `StatusScheduler` a repository's books touch another
one only through the permits, the polls and the rebuilds of the list, for which
two repositories are enough; one change between two queries is what the trailing
edge is about, and one command suffices to bypass the in-flight mark, to remove a
row under a query or to rebuild the list. Two changes, and power, are in the
liveness run. In `GraphLoader` two repositories, two filters and two commands
suffice to leave a key and return to it, or to edit the filters under a build and
back; with the worktree there are more keys than cache entries, so eviction
happens. In `ConfigSync` three edits are one whose snapshot is stale, one that makes it
so, and one more that undoes either; the proof has no such bound.

In `ChangesPanel` three keys are a selection, a prompt and its confirmation, with the
tree switched or changed between any two. In `CommitDetail` four inputs open a
detail, leave it, return and select a file, with answers of the first visit still to
come. In `GithubPanel` three touches leave a repository or a filter and return to it.
In `Discovery` two steps are a change that asks for a new watcher and one in the
meantime, before and during a cooldown or a sleep. The numbers of `ScrollPane` are
the code's, made small: `ChunkRows` = 3 stands for 1024, `HugeLineRows` = 2 for 256,
`U16Max` = 6 for the range of a scroll offset; the texts are just below and above each, one crosses a chunk
with a huge line. In `BridgeMutation` a single change can make one read old and the
second can hide it or hit another fact; the proof has no such bound. In
`SubmoduleBatch` a nested submodule between two others is what makes the order of the
stack visible. In `ChangeSnapshots` three listings are one replaced, one kept by
another view, and one too many for the byte limit. In `ContentReads` two writes move
a path away and back between reads of one answer. In `MuxLaunch` two changes are one
before the checks and one between them and the launch. In `GraphView` five commits are enough for each pair of
lanes to open, cross, join and be taken again, and the longer histories are those in
which three lanes do.

`GRAPH_CACHE_CAPACITY` is 32 and `MAX_CONSECUTIVE_ABORTS` is 2 in the code, two and one
here. `CHECK_DEADLOCK FALSE` stands in every configuration whose counters, at
their bounds, let panel, panes or user come to rest, or in which a request, a batch,
a launch or a process ends: neither is an error. Symmetry is used in safety runs
only.

### Fairness

Weak fairness of the loop: `tokio` polls it, and its ticks do not
stop. Strong fairness of a watcher report and of the local poll: an event waits
in its channel until the loop, which keeps returning to it, takes it; and of a
query getting its permit, since the semaphore is fair. Weak fairness of timers,
queries, git commands and builds: each is a task of its own that ends. A periodic
fetch or a user's command is not assumed ever to come. In `GraphLoader` a status
query reports what is on disk in the end, which is what `StatusScheduler` shows,
and the local poll returns. In `ConfigSync` a save that has begun ends (the
holder of the lock is a process that runs), and every pane refreshes again: once a
second when it is visible, or when it wakes. In `PowerLoop` the probes read and
report, the loop takes a power event and a tick, the tick's timer elapses, `App`
handles what it is sent, and a command that was run inline ends; neither key nor
focus is ever assumed. In `ChangesPanel` the channel is handled, a
query that reads the disk ends, and the poll returns, strongly, as in
`StatusScheduler`. In `GithubPanel` the debounce fires and a call of `gh`, which has a
time limit, is answered. In `ContentWorker` each process that is alive goes on, the
guardian sees the end of its pipe, and a supervisor told to cancel does; Git itself
is not assumed to end.

## Findings

Five runs end in a violation of something the repository says:

* `VisibleTracksDisk`. A watcher event in `DeepSleep` is dropped because "the
  wake-time PollLocal rescans every repo anyway" (`app/mod.rs:818-820`), but a
  pane that wakes into `Doze` queues no poll, and dozing panes are not polled.
  The row shows the old status for as long as the pane dozes. The property assumes
  that no query fails and none overlaps another, so nothing else can leave the row
  behind. One poll on waking would not be enough: a query that was in flight when the
  change was dropped has read the old state, and makes the poll skip the row.
* `NeverResurrected`. A status change drops the cached graph so that the panel
  rebuilds "instead of resurrecting stale rows" (`app/actions.rs:164-167`). A
  build that read the refs before the change still caches its rows after it. If
  the panel turns away before the reload is done, or if the cursor had moved
  before the status came in, the old rows come back from the cache, and no later
  status differs. `RestIsKnown` says that there is no other way to this state.
* `StaleReportsDropped`. When the list becomes empty the panel is replaced by a
  new one whose generation starts at zero (`app/mod.rs:619-625`). A build of the old
  panel can then report under the generation of the next repository's first
  build: its rows are shown and cached under that repository, or its error is.
  `LatchIsBuild` and `RowsAreOfKey` are therefore checked for lists that do not
  become empty.
* `ThemePersisted`. "`Enter` saves the choice to `config.toml`" (`README.md:609`),
  but a save writes only what differs from the pane's snapshot, and a reload
  advances the snapshot for the membership alone. If another process saved
  another theme since, choosing the theme of the snapshot writes nothing, the file
  keeps the other theme, and the pane reports success.
* `OpsActOnDiffedTree`. File operations are meant to "act on the same tree the diffs
  come from" (`app/launch/mod.rs:97-99`), but removing a worktree clears
  `active_worktree` at once while its files stay listed, so that until the refresh is
  back a discard of a listed file runs in the repository instead.

The others came up while modelling and have no run. The models do what the code does
there, and the properties exempt the case by name where they meet it:

* A missing root puts a hint line above the list, and clicks are one row off
  (`repo_list/render.rs:93`; `missing` in `RepoRows`).
* Removing a repository does not sort again (`app/repo_admin.rs:131`), although a nested
  submodule is meant to stay with its parent (`app/mod.rs:491`): without its parent it
  may belong elsewhere, and is moved there by the next sort (`sorted` in `RepoRows`).
* A change in a nested listed repository may go to the outer one alone
  (`watcher.rs:127`; `InnerFirst` in `Discovery`), and a clone two levels below a root
  starts no discovery (`watcher.rs:138`), although the scan would find it.
* Unfolding all branches looks the selection up after the rows it is an index of are
  gone, and the cursor jumps (`git_graph/mod.rs:738`; `jumped` in `GraphView`).
* New filters drop the folds and keep the folded rows (`git_graph/mod.rs:639`). Until a
  build lands, the first fold looks the selection up in those stale rows
  (`git_graph/mod.rs:782`), and the cursor may leave a commit that is still shown. It
  takes several keys in a row (fold a branch, select another row, change a filter
  and change it back during the build, fold another), more than the bound; `Toggles`
  in `GraphView` sets `jumped` on a fold in every other case.
* A further parent of a merge that a lane already waits for gets no line
  (`git/graph/mod.rs:442`).
* A label is cut at a byte, which panics inside a multi-byte character
  (`git/graph_render.rs:103`). Not modelled.
* A right click opens the context menu over a visible search, which keeps the keys
  (`app/input.rs:89`).
* A process stays in the registry while its pipes are drained after it was reaped
  (`git/process.rs:190`): a longer window than the few microseconds of the comment.
* A refetch keeps the selected index, not the item (`github_panel.rs:138`).

Three observations are no findings, as nothing in the repository says what
should happen: after the last repository is removed the graph panel keeps its rows
(`RemoveRepo`), and after a worktree is removed under it, until the next selection
(`RemoveWorktree`, and the last disjunct of `SelectedShowsDisk`). And
`main.rs:227` sets `ui.frame_rate` to the command line's value after the snapshot
was taken, so the first save of a run, whatever it is for, writes that value over
the one in the file.

## Proofs

Eight modules prove about eighteen components, for every value of the constants that
satisfies the named assumptions of the module. TLC checks the inductive invariants'
conclusions on the instances above; the proofs have no such bounds.

**`StatusSchedulerProofs`**, for every finite set of repositories:
`TypeCorrect`, `InFlightNeverLeaks` (`[]InFlightIsReal`), `MarksAlwaysConsumed`
(`[]MarksAreConsumed`), `SpinnerAlwaysHasWork` (`[]SpinnerHasWork`),
`NoChangeEverForgotten` (`[]NoChangeForgotten`) and `QueriesNeverOverlap`
(`[]OneQueryUnlessForced`).
The invariants are not inductive alone. The channel must be well typed, task
sets finite (a fresh tag has to exist), and the books of a repository that is not
listed must be in step with tasks that still run for it: a stale completion clears
the mark of a newer query, which is harmless only because a mark never claims less
than is there. The inductive invariant conjoins `TypeInv` (types, finiteness),
`Marks` (`InFlightIsReal` and `MarksAreConsumed`), `SpinnerHasWork` and
`NoChangeForgotten`. The proof treats the channel as the set of its messages
(`MsgsAppend`, `MsgsTail`, `MsgsConcat`), so that appending, taking the head and
discarding are set facts, and has one step for each action. `QueriesNeverOverlap`
counts instead: `Budget`, the forced queries and the mark of a repository, is not
below the number of its tasks and of its completions in the channel (`ResultsOf`). A
completion leaves the channel in the step that clears its mark, and a query starts in
a step that sets a mark or is counted as forced; lemmas say how appending, taking the
head and discarding change the count.

**`GraphLoaderProofs`**, for any repositories, trees, filters and capacity, and any
number of changes, commands and failures: `LatchAlwaysBuild` (`[]LatchIsBuild`),
`RowsAlwaysOfKey` (`[]RowsAreOfKey`), `NeverReplays` (`[]NoReplay`), `RestAlwaysKnown`
(`[]RestIsKnown`), `StaleReportsNeverCount` (`Spec => StaleReportsDropped`) and
`TypeCorrect` (`[]TypeOK`). All but the last
assume `NeverEmpty`, that some repository cannot be removed: an empty list restarts the
generations, an old build is then taken for a new one, and `graph_reset` shows what
breaks. The methods of the panel nest, so each is first described as an operator
(`Loaded`, `Resumed`, `Settled`, `Failed`, `Refreshed`), and a step of the system uses
what the methods leave behind, never how. The inductive invariant `Inv` has these parts:

* `Latched`: while the latch is set, exactly one build is of the current generation,
  and it is of the key and the repository of the panel (`Busy`); otherwise there is
  none (`Idle`); a reload that is owed has a build or a detail view to wait for, and
  edited filters owe one (`Edited`).
* `Debt`: the builds started, and the one owed, are no more than was asked.
* rows and cache entries are of their keys.
* `CatchesUp`: what is older than the status of its row is excused or will be replaced.
  A cache entry had its reload given up, or its reload is pending; a build that has
  read owes another, or the cursor moved off its row, and no entry of its path is
  left to serve it; the rows shown have a load pending, an error, an abort, or an entry
  whose reload was given up.
* `Follows`: the panel shows the active tree, or else the selected repository, or a
  tree it kept, unless the cursor moved and its `SelectRepo` is still to come.

Builds leave only by their own report, and a current one is of the panel's repository,
which gives the action property.

The types say that the cache and its order agree within the capacity. `Types`
adds that no key is in the order twice (`Once`): only then does taking a key out before
it is appended, or the head when there is no room, leave a place (`TidyForgets`,
`TidyInserts`). What is left of the order is a recursive function (`Without`), of which
`WithoutIs` says what it keeps.

**`PanelProofs`** is about three panels and the list of repositories. For `GithubPanel`: `RowsAlwaysOfTarget`
(`[]RowsAreOfTarget`), from
`FiltersAssumption`. The rows carry what they answer; the invariant says that every
snapshot of the cache answers its own question (`CacheOK`), that a call somebody waits
for has such a snapshot to report to (`CallsOK`), and that rows are of their title
(`Titled`), which `Prune`, a change of the filter and a late answer each keep for a
reason of their own.

For `ChangesPanel`: `DiffAlwaysOfBox` (`[]DiffIsOfBox`), from `PathsAssumption`,
`ParentAssumption` and `DiskAssumption`, for any number of edits
and keys. The property speaks of the diff that is open; the invariant `BoxInv` adds what
its future rests on: a diff still under way is of the chosen file and of the tree of the
list (`LateDiffs`), the list is titled by the tree it was filled from (`IsBox`), and
while it shows a repository's own files no other tree is active (`OwnContext`). A
`ShowDiff` in the channel is what makes an outdated diff harmless, so every handler is
shown to leave it there (`Carries`) or to handle it. Filling the list keeps the choice
only if the list was of the same tree (`SetFilesIs`, `Refilled`): otherwise choice and
diff are dropped together.

For `CommitDetail`: `DetailAlwaysChosen` (`[]DetailIsChosen`), from
`FileCountAssumption` and `DetailAssumption`, for any number of inputs. `DetInv` says
what each message that is under way may be. While the highlight is `Undecided`, its
debounce runs or has run, and older diffs may still come; once it is not, every diff
under way is of the highlight (`OfHighlight`). This needs `AskedOnce`: a `ShowCommitDiff`
waits in the channel only when no debounce does, and never behind the files of another
commit (`DiffsFirst`), so that handling those files cannot leave it behind under the
new detail. A click is answered because nothing but its own files can open a detail
while it counts (`OfClick`).

For `Discovery`: `ListAlwaysFollows` (`[]ListFollowsDisk`), from
`PlacesAssumption`, for any sites, nesting and number of steps. What is written down of
a change depends on the watcher it went to, so the invariant is first about watchers:
a generation names one watcher only, the newest is the one the list asked for, and one
that is not built yet has noticed nothing (`Slots`, `OnItsWay`). A notice then counts only
for a repository that its watcher knows (`Known`): a change of a nested repository may go
to the one around it, and be dropped there without a record. `Routed` says where a
change on its way is written down (a pending status has a timer, a discovery that is due
has been asked for), and `Away` that what the user removed is no pin, and is excluded
wherever the walk would find it again.

TLC checks `BoxInv` and `DetInv` on the instance of the run `tui`.

**`ShellProofs`** is about the frame around the panels. For `AppShell`:
`ShellTypeCorrect` and `InputAlwaysLands` (`[]InputLands`), from `ShellBounds`. The three
orders of the overlays agree because at most one is open and none under the help
(`OneOverlay`); a deferred press is of the frame on the screen (`PressIsOfFrame`), and a
list of choices answers the pick that waits (`ChoicesAnswer`).

For `ProcessGroups`: `ProcTypeCorrect` and `ProcessesAreEnded` (`[]ProcessesEnd`), from
`OpsAssumption`. `ThreadInv` says what the place of a thread means for its process;
`RegistryInv` that the registry is exactly what is in flight until the quit takes its
snapshot, and that after it nothing is started.

For `PowerLoop`: `PowerAlwaysHolds` (`[]PowerHolds`), from `PowerBounds`, for any number
of inputs, failed probes and commands run inline, in whatever order reports and events
are taken. The property speaks of a system at rest; the invariant says where the last
verdict is until then. The last one on its way to the loop is the probe's, and if none
is on its way the loop has it (`LoopFollows`); the last one on its way to App is the
loop's, and if none is App has it (`AppFollows`). The second holds only once the loop
was told something: after a command ran inline App may have the verdict of an earlier
loop, and it is the unconditional first report that ends this.

For `ConfigSync`, for any panes, editors,
repositories, themes, first file and number of edits and failures: `TypeCorrect`, `MergesCurrentFile` (`[]ReadIsFile`),
`SharesMembership` (`Spec => Shared`, the refinement of `SharedMembership`) and
`ThemeIsKept` (`Spec => ThemeKept`).
The argument: let an *edit* be what one user does to the two sets (`Edit`). The lemma
`MergedIsEdit` says that merging an edit of any old membership is an edit of the
current one. So it suffices that every save under way is an edit of its process's
snapshot (`SavesEdit`), which needs that a process starts from the membership of
its snapshot (`StartsFrom`), that without a file the snapshot is the default
(`NothingYet`), and that the merge sees the file it replaces (`ReadIsFile`, with
`OneHolder` and `TypeOK`). For the theme, `ThemeOfChoice` says that only a user's
choice sets it apart from the snapshot. `Drop` may leave
the pin in place because of one order of events: a pane that still has a repository
excluded pins it, while another pane, where a rescan brought it back, removes it;
the removal then excludes the repository and does not undo the pin it never knew.

**`BridgeProofs`** is about four parts. For `ContentWorker`: `WorkerTypeCorrect` and
`NothingIsLeft` (`[]WorkerLeavesNothing`), from `GitsAssumption`. Where the executor
can be follows from the step of the supervisor (`InStepWith`), so that the one moment
in which a signal to the group misses a child, before it has joined, is one in which
the supervisor is alive and waits; the guardian is there before the executor
(`GuardianIsFirst`) and is the last to die (`GuardianIsLast`), and an answer or the word
of a cancellation comes after it (`ReplyIsLast`).

For `MuxLaunch`: `LaunchIsSafe` (`[]LaunchSafety`), from `LaunchBounds` and
`NoneIsNoAnswer`, for any number of changes by other programs. The steps of every
request to execute are written out once (`Flat`), and the rest uses only their order
(`WellOrdered`): everything is checked before the one creation, and again between it
and the command. A fact of the world that moved fails every check to come, so if the
client's facts did not hold when the request began, or when the pane was made, some
fact has moved whose check was not passed since (`BeganStale`, `MadeStale`,
`SessionStale`); with the order of the steps this means that they did hold. The pane
is as far as the steps are until the answer (`PaneFollows`). That `desktop_owner`
finds the nearest owner is proved by giving the answer of its walk in closed form
(`Above`), which satisfies the walk's equation, and by showing that only one function
does (`OneWalk`: where two differed there would be no last place).

For `BridgeMutation`: `MutationTypeCorrect` and `MutationAlwaysConfirmed`
(`[]MutationIsConfirmed`), from `InputsAssumption`, for any number of changes. Each
sequence of reads is shown to settle what its operation acts on (`Settles`: every use
is followed by a check of the same fact), once for the composition of the code
(`Parts`, `Planned`) and then for each operation (`Previewed`, `ExecutedReads`). Versions
only grow (`Versions`), so a check that finds the confirmed version finds what every
read before it found (`Seen`, `Shown`, `FactsChecked`).

For `SubmoduleBatch`: `BatchAlwaysTold` (`[]BatchIsTold`), from `BatchAssumption`, for
any tree of submodules in any order of listing, and any number of moves of heads and
submodules between the steps. The walk is a stack of frames, each a listing of one
repository and a place in it. `Walk` says what the stack has to do with the answer so
far: the frames are of different repositories, completed ones but for the first
(`Stack`); of the entries of a frame, exactly those before its place are in the answer
(`Pending`); and what is in the answer is below the first repository or a completed one
(`Tree`). So the entry that is next was not answered yet, and when a repository is
completed nothing below it was, and no frame is of it (`Nesting`): the frame that is
opened for it meets nothing twice. `BatchComes` is the other half, for actions that
update and for runs in which nothing moves: whatever is below a completed repository is
in the answer, in some frame, or in the frame about to be opened (`Complete`).
`GitOnChecked` carries the check of a pull to its git command.

**`BridgeReadsProofs`** is about two parts. For `ChangeSnapshots`: `SnapshotsAlwaysHold`
(`[]SnapshotsHold`), from `SnapAssumption`, for any repositories, views, sizes and limits, and any set of sorted listings. It has
three parts:

* the pages. `IsView` says of each view that what it got is a prefix of the listing
  begun under its id, up to the next page if there is one. What the store holds was
  begun under the id it has (`FromBegun`), so an id that is found current names the
  view's own listing; a page ends where the next one starts (`PageEnds`), also in
  the last page, and the two halves join (`PageFollows`).
* the store. Every operation is one of two kinds: it holds no more than before in a
  table that is not larger (`LessIsStore`, with `CompactedIs` for the table), or it
  inserts what was found to fit (`InsertKeeps`). The byte count is a fold over the
  repositories; it is characterised by one function on their subsets (`IsSum`), for
  which taking out one repository is proved whatever the order of the fold
  (`SumSplit`).
* the lookups (`LookupsHold`) are a fact about one sorted listing: the binary search
  finds what is there and nothing else (`FindFinds`: the equation of the search has one
  solution, because of two that differ there would be a shortest range on which they
  do), a match lies on the page that is said to hold it (`OnItsPage`), and going forth
  and back returns (`ForthAndBack`).

For `ContentReads`: `ReadsAlwaysOneState` (`[]ReadsAreOneState`), from
`ReadAssumption` and `NoneIsNoResult`, for any commits, staged files, settings and
requests, and any number of writes between any two reads. The property is about what
was true in the past, so the invariant has to say, of what a request holds halfway,
from which instants it is:

* `Then`: the disk moves one way. HEAD goes through the commits, an index entry is
  replaced by one that was staged later, objects are only lost, settings only counted.
  Every write keeps it (`WriteFollows`).
* `Pinned`: a value that was found after an instant `b` (`After`) and one that was found
  by an earlier instant `w` (`Until`) and is the same one was there from `w` to `b`.
  This is what the second pass is for.
* `Snap` and `Looks`: what a pass holds after the steps it has done. HEAD, index and
  references were each read at an instant between its beginning and now, in this order,
  each item was asked for after them, and the settings were read before them. That
  nothing is read in another order follows from the stages of the steps (`Rising`,
  `Left`).
* `Faithful` and `Met`: what a pass that is done tells. Each item is told as it was at
  some instant; in a snapshot there is also one instant for all that is told of HEAD,
  and one at which the index lacked what it is told to lack and all that was found had
  been written. The recheck of the fast path, or the reading of the objects on the slow
  one, is what leads from `Snap` to these (`FastComplete`, `SlowComplete`).
* the settings: those of the answer are not above the ones at any of these instants,
  nor above those each value was read under. If the second pass finds the same, they
  lie between two equal numbers.
* `Working`: the phases of a request, each with what is left to do (`Starting`,
  `OnFirst`, `InBetween`, `OnSecond`, `Compared`, `Merging`).

`AnswersOK` says that the request is in one of these phases or its reply is sound. A
write keeps each phase (`WorkingLater`), a step leads to the next or ends the request
(`WorkingStep`). If `Same` compared only the settings of the two passes, the proof
would break where the second pass is compared (`SecondDone`).

**`ViewProofs`** is about `ScrollPane` and `RepoRows`.

`ScrollPane`: `PaneAlwaysShows` (`[]PaneShowsText`), from
`PaneBounds`, for any texts, sizes, chunk lengths and bounds of the integers, and any
number of loads, resizes, keys, presses and drags between two frames. The reference,
`WholeText`, wraps everything; the code wraps a window around what is visible, found
through the sparse index it kept. The proof goes in four steps:

* closed forms. The partial sums of the rows of the lines (`Sums`) are what every
  count and every index entry is about: the whole text has `f[N]` rows and row `f[i - 1] + r`
  of it is row `r` of line `i` (`WholeIs`), counting line by line until the viewport is
  exceeded gives the same sum cut off (`RowsExactIs`), and entry `k` of the index is the
  sum before chunk `k` (`IndexIs`).
* the window. The range of lines that `WindowRange` finds by chunks covers the visible
  rows (`WindowSpans`), and what is built from it, line by line, is at each line the
  slice of the whole text up to that line (`Gives`, `GivesLine`, `WindowShows`): no row
  is skipped at a chunk's edge, none comes twice, and a huge line is entered in its
  middle.
* the cache. `CacheIsRight` says that a kept index with the number of the text that is
  shown (a message's always) was counted of that text, for the width it carries and up
  to the viewport it carries (`Right`). Every load, key, resize and drag keeps this (one
  lemma per action), and `PaneRetarget` counts anew exactly what may have changed
  (`RetargetReady`). If it kept the index of another width, the proof would break there.
* the bar. The widest text that needs no bar, and the thumb's length and place, are
  divisions; `GaugeIs` and `ThumbIs` are the inequalities that make the offset reach the
  last row and the thumb stay on its track, also at the bound of 16 bits.

`RepoRows`: `RowsAlwaysHold` (`[](RowsHold /\ RowsTypeOK)`), from `RowsBounds`, for any
repositories nested in any way, any statuses, and any order of reports, sorts,
discoveries, additions and removals. `RowsHold` is not inductive: that the rows which
are drawn are those of the list says nothing about the next list, and `strayed` tells of
the step that was taken. The inductive invariant adds (`Sound`) that no repository is
listed twice, that its rows are those of its repositories (`RowsNow`) and that the
selection is one of them. The argument:

* the rows. What `FlattenSeq` makes of the repositories' rows has a closed form
  (`RowsNowIs`): a row is displayed just when its repository is listed and shows it
  (`Shows`), one repository's rows below the other's (`Stacked`).
* the order. `Ordered` puts each entry where the number of entries before it says, so
  that a list sorted by differing keys has each repository once (`OrderedIs`). A group's
  anchor is found along the parents, which lie ever deeper in one another, so that it
  has no parent (`AnchorIs`, by the number of repositories around it). All keys of
  a group lie between those of the anchor and of its last member, and whatever is
  squeezed between two keys of one group has the same anchor (`GroupedIs`).
* the selection. `Kept` says what `resync_rows` promises of the row that was selected:
  it is selected still if its repository shows it, else its repository is. Sorting and
  synchronising leave the entries of what stays alone (`Alike`), so that the promise
  passes through both (`KeptOn`); unfolding only adds rows (`Grows`).
* a removal selects the neighbour on rows that are already out of date
  (`RemoveRepo` does not rebuild them). It is right because everything above the
  neighbour's row is as before (`AboveSame`): its place on the old rows is a place on
  the new ones.

**`GraphViewProofs`**: `GraphAlwaysDrawn` (`[]GraphIsDrawn`), from `RefsAssumption` and
`HistoriesAssumption`, for any history, refs and filters, any limit of rows, and any
number of commits, ref moves, loads, keys and clicks. The inductive invariant is
`ViewInv`. That the picture is the history says nothing about the next picture, so it
says what the view was made of: the rows are a build of some revision of the history
(`Filled`), the folded list is the projection of the rows if anything is folded
(`Projecting`), marks and selection are of the list on the screen (`Marked`, `Placed`),
the filters were offered (`Offered`, `Picks`). The argument:

* the walk. What a walk reaches is the least set with the roots that is closed under
  parents (`Least`), children before parents. A new commit leads to older ones only, so that the
  build of an old revision is the same in the longer history (`Grown`).
* the lanes. Below each row the lanes hold what the rows so far await, each commit in
  one lane (`Awaiting`, `Single`); `Processed` says what one row does to them, whatever
  parents the commit has. Then lines are counted by a bijection between lanes and commits awaited,
  and the lane of a commit stands from its child's row to its own, because a lane
  changes hands only at the row of its commit.
* the segments. First-parent chains lead to later rows only, and a chain does not fork;
  rows off the trunk are joined if and only if their chains meet (`Segmented`).
* the folds. A projection keeps one row of each folded segment, so that every row is
  drawn or its branch is (`Stands`), and a count over the list gives every row once,
  shown or hidden (`Projected`).
* the selection. `Remarked` says what recomputing promises of the selected commit.
  `jumped` stays FALSE since a load and a fold look the commit up in the list that
  was on the screen; the two steps where the code does not are the findings above,
  and `Toggles` leaves them out of `jumped`.

Only model-checked: all liveness and everything with `ENABLED`, which are out of the
prover's reach; and `PanelsTypeOK` and `BridgeTypeOK`, which put the types of the
components side by side, some of them no part of an inductive invariant (the ranges of
counters). The functions that
`SubmoduleBatch`, `ChangeSnapshots`, `ScrollPane` and `GraphView` compute by recursion
(the listing, page starts, matches, sums, the binary search, rows and windows, walks,
lanes, segments) are proved about
without induction over data: a recursive function is unfolded to its defining
equation, which needs that a solution exists (`RecursExist`), and a claim about all its
values is made by looking at the least number, set or range for which it would fail
(`LeastNumber`, `LeastSet`, `Upward`).

## Not modelled

* **The extension** (`src/vscode-extension`): JavaScript, another program at the other
  end of a pipe, with state machines of its own (pending requests and their expiry,
  starts and stops of the backend, locks of mutations, generations of its views).
  They are left to a development of their own. The bridge is modelled against any
  order of requests, so that nothing here relies on what the extension does.
* **Update checker and diagnostics**: one request, shown once, and logging.
* **Reads of Git**: libgit2's status, diffs, refs and blobs are reads of one instant, or
  several of them where the code reads more than once and it matters
  (`ContentReads`, `BridgeMutation`, `GraphLoader`).
* **Drawing, themes, layout, parsing, command lines, JSON and TOML**: no state that
  another step reads. Exceptions are where what is drawn decides what a key does:
  the rows of `RepoRows`, the lanes of `GraphView`, the frames of `ScrollPane` and
  `AppShell`. A text selection is in `AppShell` as a gesture; that a redraw with other
  content below it drops it (`app/selection/mod.rs:136-145`) is not.
* **Symbolic links, malformed files, files edited by hand**: outside of the reads of
  `BridgeMutation` and `ContentReads`, which have links and the checks on them.
