------------------------------ MODULE Discovery ------------------------------
(***************************************************************************)
(* How the list of repositories follows the disk (src/watcher.rs,          *)
(* git/scanner.rs, and in app/mod.rs and app/repo_admin.rs the watcher     *)
(* slot, the discovery cooldown and the arms that discover): a change is   *)
(* noticed by a filesystem watcher, routed to a repository or to the root  *)
(* of the workspace, and handled; a change of the list asks for a new      *)
(* watcher, which a thread builds while the old one keeps watching.        *)
(*                                                                         *)
(* Abstractions.  A file is the part of a working copy it belongs to.  A   *)
(* cooldown is whether it runs; a timer may fire late, or early once a     *)
(* later discovery has started the cooldown anew.  An event and the        *)
(* actions it sends are one step, the two rebuilds of an AddRepo or        *)
(* RemoveRepo are one.  watch_worktree_dirs is on.  `gone' names what no   *)
(* watcher could tell of, which only a poll or the user brings back.       *)
(***************************************************************************)
EXTENDS Naturals, FiniteSets, Panels

CONSTANTS
  Sites,        \* places of working copies
  TopLevel,     \* those directly under a root
  Walked,       \* those within scan_depth of a root
  Managed,      \* those named by .repo/project.list
  Enclosing,    \* Enclosing[s]: the sites whose directory s is in
  InnerFirst,   \* the list has a nested repository before the one around it
  Shares,       \* Shares[s]: the site whose common git directory s uses
  Disks,        \* disks at startup: Sites -> Layouts
  Pins,         \* pinned_repos at startup
  MaxSteps      \* bound: changes of the disk and of the configuration

\* What .git is: absent, a git directory, a symlink to one, a gitdir: pointer
\* to one, a directory without HEAD.
Layouts == {None, "dir", "link", "file", "phantom"}

ASSUME PlacesAssumption ==
  /\ "root" \notin Sites
  /\ {TopLevel, Walked, Managed} \subseteq SUBSET Sites
  /\ Enclosing \in [Sites -> SUBSET Sites] /\ Shares \in [Sites -> Sites] /\ InnerFirst \in BOOLEAN
  /\ Disks \subseteq [Sites -> Layouts] /\ Pins \subseteq SUBSET Sites

VARIABLES
  onDisk, pinned, excluded,
  repoList,     \* repo_list.repos
  slot,         \* WatcherSlot, and whether its newest build failed
  watchers,     \* RepoWatchers that are built or being built
  events,       \* RepoChanged and ReposRootChanged ("root") in the channel
  asleep,       \* App.power is DeepSleep
  cooling,      \* last_discovery is within the cooldown
  discoveryPending,
  timers,       \* deferred discoveries that sleep
  deferred,     \* discovery_deferred
  stale,        \* repositories changed since they were asked for their status
  gone,         \* changes that were not noticed, or whose notice was dropped
  removed,      \* working copies the user removed from the list
  steps

discVars == <<onDisk, pinned, excluded, repoList, slot, watchers, events, asleep, cooling, discoveryPending, timers,
              deferred, stale, gone, removed, steps>>
configVars == <<pinned, excluded, removed>>
clockVars == <<cooling, discoveryPending, timers>>

-----------------------------------------------------------------------------
(* Discovery.                                                              *)

\* is_real_git_dir of s/.git; is_repo_root.
IsRepoRoot(d, s) == d[s] \in {"dir", "link", "file"}

\* What the tree walk of discover_repos promotes.
IsDirectory(d, s) == d[s] = "dir"

\* discover_repo_workspace_projects.
Projects(d) == {s \in Managed : IsRepoRoot(d, s)}

\* discover_repos: pins first, whatever is excluded.
Discovered(d, pins, exclusions) ==
  {s \in pins : IsRepoRoot(d, s)}
  \cup (({s \in Walked : IsDirectory(d, s)} \cup Projects(d)) \ exclusions)

-----------------------------------------------------------------------------
(* Routing.                                                                *)

Place(s, part) == [site |-> s, part |-> part]
RootChild == [site |-> None, part |-> "root"]

\* As if a commit concerned only the working copy that holds the common directory.
MutantMetadataOwners(repos, p) ==
  CASE p.part = "private" -> {p.site} \cap repos
    [] p.part = "shared" -> {Shares[p.site]} \cap repos
    [] OTHER -> {}
\* metadata_owners: HEAD and the index are their working copy's, refs are of
\* every listed one that shares the directory, the rest is nobody's.
MetadataOwners(repos, p) ==
  CASE p.part = "private" -> {p.site} \cap repos
    [] p.part = "shared" -> {s \in repos : Shares[s] = Shares[p.site]}
    [] OTHER -> {}

\* classify: a file of a working tree goes to the first listed repository it
\* is in, and the order of the list decides which is first.
Classify(repos, p) ==
  LET around == {s \in repos : s = p.site \/ s \in Enclosing[p.site]}
      first(s) == \A o \in around : o = s \/ IF InnerFirst THEN o \in Enclosing[s] ELSE s \in Enclosing[o]
  IN {s \in around : first(s)}

Route(w, p) ==
  CASE p = RootChild -> {"root"}
    [] p.part = "tree" -> Classify(w.repos, p)
    [] OTHER -> MetadataOwners(w.repos, p)

Targets(w) == UNION {Route(w, p) : p \in w.notices}

\* The directories RepoWatcher::new installs watches on.
Watches(w, p) ==
  CASE p = RootChild -> TRUE
    [] p.part = "tree" -> \E s \in w.repos : s = p.site \/ s \in Enclosing[p.site]
    [] p.part = "shared" -> \E s \in w.repos : Shares[s] = Shares[p.site]
    [] OTHER -> p.site \in w.repos

\* Whose row a change makes wrong.
Concerned(p) ==
  CASE p = RootChild -> {"root"}
    [] p.part = "shared" -> {o \in Sites : Shares[o] = Shares[p.site]}
    [] p.part = "noise" -> {}
    [] OTHER -> {p.site}

\* Those a watcher can tell: it knows them, and no listed repository around them comes first.
Knows(w, p) ==
  {s \in Concerned(p) :
     \/ s = "root"
     \/ s \in w.repos /\ (p.part = "tree" /\ ~InnerFirst => w.repos \cap Enclosing[s] = {})}

\* Every built watcher that watches the place notices the change.
Notice(p) ==
  LET sees(w) == w.ready /\ Watches(w, p)
  IN /\ watchers' = {[w EXCEPT !.notices = IF sees(w) THEN @ \cup {p} ELSE @] : w \in watchers}
     /\ gone' = gone \cup (Concerned(p) \ UNION {Knows(w, p) : w \in {v \in watchers : sees(v)}})

-----------------------------------------------------------------------------
(* The watcher slot.                                                       *)

\* rebuild_watcher: WatcherSlot::request, and the thread that builds.
Request(repos, ws) ==
  /\ slot' = [slot EXCEPT !.requested = @ + 1, !.failed = FALSE]
  /\ watchers' = ws \cup {[gen |-> slot.requested + 1, repos |-> repos, ready |-> FALSE, notices |-> {}]}

\* The watches of a build are in place.
Built(w) ==
  /\ w \in watchers /\ ~w.ready
  /\ watchers' = (watchers \ {w}) \cup {[w EXCEPT !.ready = TRUE]}
  /\ UNCHANGED <<onDisk, configVars, repoList, slot, events, asleep, clockVars, deferred, stale, gone, steps>>

\* RepoWatcher::new fails: the slot keeps what it has.
BuildFails(w) ==
  /\ w \in watchers /\ ~w.ready
  /\ watchers' = watchers \ {w}
  /\ slot' = [slot EXCEPT !.failed = @ \/ w.gen = slot.requested]
  /\ UNCHANGED <<onDisk, configVars, repoList, events, asleep, clockVars, deferred, stale, gone, steps>>

\* Dropping a watcher stops its debouncer: what it holds may not be sent any more.
Drops(ws) ==
  LET kept == watchers \ ws
      held == UNION {Concerned(p) : p \in UNION {w.notices : w \in ws}}
      told == UNION {UNION {Knows(w, p) : p \in w.notices} : w \in kept}
  IN /\ watchers' = kept
     /\ \/ events' = events \cup UNION {Targets(w) : w \in ws} /\ UNCHANGED gone
        \/ UNCHANGED events /\ gone' = gone \cup (held \ told)

\* WatcherSlot::install: only the newest request's watcher replaces the current one.
Install(w) ==
  /\ w \in watchers /\ w.ready /\ w.gen # slot.current
  /\ IF w.gen = slot.requested
     THEN slot' = [slot EXCEPT !.current = w.gen] /\ Drops({v \in watchers : v.gen = slot.current})
     ELSE UNCHANGED slot /\ Drops({w})
  /\ UNCHANGED <<onDisk, configVars, repoList, asleep, clockVars, deferred, stale, steps>>

\* The debounce is over: the routing task sends the events.
Deliver(w) ==
  /\ w \in watchers /\ w.notices # {}
  /\ watchers' = (watchers \ {w}) \cup {[w EXCEPT !.notices = {}]}
  /\ events' = events \cup Targets(w)
  /\ UNCHANGED <<onDisk, configVars, repoList, slot, asleep, clockVars, deferred, stale, gone, steps>>

-----------------------------------------------------------------------------
(* The event loop.                                                         *)

\* The statuses of repos are asked for; `told' is known again.
Refreshes(repos, told) == stale' = stale \ repos /\ gone' = gone \ (repos \cup told)

\* The list becomes `new', whose newcomers are asked for their status.
BecomesListed(new, told) ==
  /\ repoList' = new
  /\ IF new = repoList THEN UNCHANGED <<slot, watchers>> ELSE Request(new, watchers)
  /\ Refreshes(new \ repoList, told)

\* DiscoverNewRepos.
Discover ==
  /\ discoveryPending' = FALSE /\ cooling' = TRUE
  /\ BecomesListed(Discovered(onDisk, pinned, excluded), {"root"})
  /\ UNCHANGED <<onDisk, configVars>>

\* ReposRootChanged while awake: now, or once at the end of the cooldown.
RootChanged ==
  \/ ~cooling /\ Discover /\ UNCHANGED timers
  \/ /\ cooling /\ discoveryPending' = TRUE /\ timers' = IF discoveryPending THEN timers ELSE timers + 1
     /\ UNCHANGED <<onDisk, configVars, repoList, slot, watchers, cooling, stale, gone>>

HandleRoot ==
  /\ "root" \in events /\ events' = events \ {"root"}
  /\ \/ /\ asleep /\ deferred' = TRUE
        /\ UNCHANGED <<onDisk, configVars, repoList, slot, watchers, clockVars, stale, gone>>
     \/ ~asleep /\ RootChanged /\ UNCHANGED deferred
  /\ UNCHANGED <<asleep, steps>>

\* RepoChanged: dropped while deep asleep.
HandleRepo(s) ==
  /\ s \in events /\ events' = events \ {s}
  /\ IF asleep THEN gone' = gone \cup (stale \cap {s}) /\ UNCHANGED stale ELSE Refreshes({s}, {})
  /\ UNCHANGED <<onDisk, configVars, repoList, slot, watchers, asleep, clockVars, deferred, steps>>

\* The deferred DiscoverNewRepos is handled.
TimerFires ==
  /\ timers > 0 /\ timers' = timers - 1 /\ Discover
  /\ UNCHANGED <<events, asleep, deferred, steps>>

CooldownEnds ==
  /\ cooling /\ cooling' = FALSE
  /\ UNCHANGED <<onDisk, configVars, repoList, slot, watchers, events, asleep, discoveryPending, timers,
                 deferred, stale, gone, steps>>

\* Event::Power.
FallsAsleep ==
  /\ ~asleep /\ asleep' = TRUE
  /\ UNCHANGED <<onDisk, configVars, repoList, slot, watchers, events, clockVars, deferred, stale, gone, steps>>
Wakes ==
  /\ asleep /\ asleep' = FALSE /\ deferred' = FALSE
  /\ IF deferred THEN RootChanged
     ELSE UNCHANGED <<onDisk, configVars, repoList, slot, watchers, clockVars, stale, gone>>
  /\ UNCHANGED <<events, steps>>

\* PollLocal asks every listed repository; it discovers nothing.
PollSites ==
  /\ ~asleep /\ Refreshes(repoList, {})
  /\ UNCHANGED <<onDisk, configVars, repoList, slot, watchers, events, asleep, clockVars, deferred, steps>>

-----------------------------------------------------------------------------
(* The user.                                                               *)

Bounded == steps < MaxSteps /\ steps' = steps + 1

\* AddRepo, for a path that is a repository, and the discovery that follows it.
AddRepo(s) ==
  /\ Bounded /\ IsRepoRoot(onDisk, s)
  /\ pinned' = (IF s \in repoList THEN pinned ELSE pinned \cup {s})
  /\ removed' = removed \ {s} /\ UNCHANGED <<onDisk, excluded>>
  /\ discoveryPending' = FALSE /\ cooling' = TRUE
  /\ BecomesListed(Discovered(onDisk, pinned', excluded), {"root"})
  /\ UNCHANGED <<events, asleep, timers, deferred>>

\* RemoveRepo: unpinned, excluded when the walk would find it again.
RemoveSite(s) ==
  /\ Bounded /\ s \in repoList
  /\ pinned' = pinned \ {s} /\ UNCHANGED onDisk
  /\ removed' = (IF IsRepoRoot(onDisk, s) THEN removed \cup {s} ELSE removed)
  /\ excluded' = (IF s \in TopLevel \cup Walked \cup Managed /\ onDisk[s] \in {"dir", "link", "phantom"}
                  THEN excluded \cup {s} ELSE excluded)
  /\ discoveryPending' = FALSE /\ cooling' = TRUE
  /\ repoList' = Discovered(onDisk, pinned', excluded')
  /\ Request(repoList', watchers) /\ Refreshes(repoList' \ repoList, {"root"})
  /\ UNCHANGED <<events, asleep, timers, deferred>>

\* RescanRepos: nothing is excluded any more, everything is asked for.
RescanRepos ==
  /\ Bounded /\ excluded' = {} /\ removed' = {} /\ UNCHANGED <<onDisk, pinned>>
  /\ repoList' = Discovered(onDisk, pinned, {})
  /\ Request(repoList', watchers) /\ Refreshes(repoList', {"root"})
  /\ UNCHANGED <<events, asleep, clockVars, deferred>>

-----------------------------------------------------------------------------
(* Others on the disk.                                                     *)

\* A working copy is cloned, its directory appears, it turns into a repository
\* or it is deleted.  Only a child of a root is told apart from other files.
Changes(s, layout) ==
  /\ Bounded /\ onDisk[s] # layout
  /\ (layout # None => onDisk[s] = None \/ (onDisk[s] = "phantom" /\ layout = "dir"))
  /\ onDisk' = [onDisk EXCEPT ![s] = layout]
  /\ IF s \in TopLevel /\ None \in {onDisk[s], layout}
     THEN Notice(RootChild) ELSE gone' = gone \cup {"root"} /\ UNCHANGED watchers
  /\ removed' = removed \ {s}
  /\ UNCHANGED <<pinned, excluded, repoList, slot, events, asleep, clockVars, deferred, stale>>

\* A working copy is edited, or something is committed in it.
EditSite(s, part) ==
  /\ Bounded /\ IsRepoRoot(onDisk, s)
  /\ Notice(Place(s, part))
  /\ stale' = stale \cup Concerned(Place(s, part))
  /\ UNCHANGED <<onDisk, configVars, repoList, slot, events, asleep, clockVars, deferred>>

-----------------------------------------------------------------------------
\* App::new discovers, run asks for the first watcher and a poll.
DiscInit ==
  /\ onDisk \in Disks /\ pinned \in Pins /\ excluded = {} /\ removed = {}
  /\ repoList = Discovered(onDisk, pinned, {})
  /\ slot = [requested |-> 1, current |-> 0, failed |-> FALSE]
  /\ watchers = {[gen |-> 1, repos |-> repoList, ready |-> FALSE, notices |-> {}]}
  /\ events = {} /\ asleep = FALSE /\ cooling = FALSE /\ discoveryPending = FALSE /\ timers = 0 /\ deferred = FALSE
  /\ stale = {} /\ gone = {} /\ steps = 0

DiscNext ==
  \/ \E w \in watchers : Built(w) \/ BuildFails(w) \/ Install(w) \/ Deliver(w)
  \/ HandleRoot \/ TimerFires \/ CooldownEnds \/ FallsAsleep \/ Wakes \/ PollSites \/ RescanRepos
  \/ \E s \in Sites :
       \/ HandleRepo(s) \/ AddRepo(s) \/ RemoveSite(s)
       \/ \E layout \in {None, "dir", "phantom"} : Changes(s, layout)
       \/ \E part \in {"tree", "private", "shared", "noise"} : EditSite(s, part)

DiscSpec == DiscInit /\ [][DiscNext]_discVars

-----------------------------------------------------------------------------
DiscTypeOK ==
  /\ onDisk \in [Sites -> Layouts] /\ {pinned, excluded, repoList, stale, removed} \subseteq SUBSET Sites
  /\ {events, gone} \subseteq SUBSET (Sites \cup {"root"})
  /\ slot.requested \in Nat /\ slot.current \in 0..slot.requested /\ slot.failed \in BOOLEAN
  /\ \A w \in watchers : w.gen \in 1..slot.requested /\ w.repos \subseteq Sites
  /\ {asleep, cooling, discoveryPending, deferred} \subseteq BOOLEAN /\ timers \in 0..MaxSteps /\ steps \in 0..MaxSteps

Told == events \cup UNION {Targets(w) : w \in watchers}

\* A root change that was noticed leads to a discovery: it is in the channel,
\* deferred to the end of the cooldown or to the end of the sleep (the
\* leading and trailing edge of ReposRootChanged, the replay of Power).
DiscoveryIsComing ==
  /\ repoList # Discovered(onDisk, pinned, excluded) => "root" \in gone \cup Told \/ timers > 0 \/ deferred
  /\ (discoveryPending => timers > 0) /\ (deferred => asleep)

\* A change of a listed repository that was noticed asks for its status
\* (metadata_owners, classify): one that was not is left to the poll.
EditsAreRouted == stale \cap repoList \subseteq gone \cup Told

\* Once the newest watcher is built, it watches what is listed, and what an
\* older build finishes later never replaces it (WatcherSlot).
WatchesFollow ==
  /\ Cardinality({w \in watchers : w.gen = slot.current}) = (IF slot.current = 0 THEN 0 ELSE 1)
  /\ \A w \in watchers : w.gen = slot.requested => w.repos = repoList
  /\ slot.requested \notin {slot.current} \cup {w.gen : w \in watchers} => slot.failed

\* A working copy the user removed stays away until it is added or everything is rescanned
\* (RemoveRepo); a project of .repo/project.list whose .git is a gitdir: pointer comes back at once.
RemovedStaysAway == \A s \in removed \cap repoList : s \in Managed

\* The list, its watcher and its statuses follow the disk.
ListFollowsDisk == DiscoveryIsComing /\ EditsAreRouted /\ WatchesFollow /\ RemovedStaysAway
=============================================================================
