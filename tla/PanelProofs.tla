------------------------------ MODULE PanelProofs -----------------------------
(***************************************************************************)
(* Proofs about the list of repositories and three panels of the TUI, for  *)
(* any repositories, trees, files, items and orders of answers: the rows   *)
(* of GithubPanel were fetched for the repository and filter in its title, *)
(* the diff over the list of ChangesPanel is of the chosen file, read in   *)
(* the tree the list shows, CommitDetail shows the commit and the file     *)
(* chosen last, and the list of repositories, its watcher and the statuses *)
(* it asks for follow the disk (Discovery), for any layouts and any number *)
(* of changes, rebuilds, failures and sleeps.                              *)
(***************************************************************************)
EXTENDS GithubPanel, ChangesPanel, CommitDetail, Discovery,
  SequenceTheorems, FiniteSetTheorems, WellFoundedInduction, TLAPS

-----------------------------------------------------------------------------
(* The rows of the panel (GithubPanel).                                    *)

Data == [repo : GhRepos, filter : FilterIds, items : SUBSET Items]
Snapshot == [loading : BOOLEAN, fresh : BOOLEAN, data : Data \cup {None}, error : BOOLEAN]
State == [origin : {"unknown", "github", "none"}, probed : BOOLEAN, snaps : [FilterIds -> Snapshot]]
Panel ==
  [repo : GhRepos \cup {None}, label : FilterIds, rows : Data \cup {None},
   detail : [item : Items, loading : BOOLEAN] \cup {None}, status : {"Loading", "Ready", "NotGithub", "Error"}]

(* A snapshot holds the answer to its own question.                        *)
OwnAnswers(s, r) ==
  \A f \in FilterIds : s.snaps[f].data # None => s.snaps[f].data.repo = r /\ s.snaps[f].data.filter = f

CacheOK(cache) ==
  /\ cache \in [GhRepos -> State \cup {None}]
  /\ \A r \in GhRepos : cache[r] # None => OwnAnswers(cache[r], r)

(* A call that is waited for has a snapshot waiting for it.                *)
CallsOK(cs, cache) ==
  \A c \in cs :
    /\ c \in [repo : GhRepos, filter : FilterIds, live : BOOLEAN]
    /\ c.live => cache[c.repo] \in State /\ OwnAnswers(cache[c.repo], c.repo)

Titled(p) == p.rows # None => p.rows.repo = p.repo /\ p.rows.filter = p.label

GhInv ==
  /\ present \subseteq GhRepos /\ target \in GhRepos \cup {None} /\ filter \in FilterIds
  /\ forced \in BOOLEAN \cup {None} /\ settle \in BOOLEAN
  /\ CacheOK(ghCache)
  /\ CallsOK(calls, ghCache)
  /\ panel \in Panel /\ Titled(panel)
  /\ target # None => panel.repo = target /\ panel.label = filter

-----------------------------------------------------------------------------
(* The first filter exists, and `c' goes round among them.                 *)
LEMMA FiltersGoRound ==
  /\ 1 \in FilterIds
  /\ \A f \in FilterIds : (f % Cardinality(FilterIds)) + 1 \in FilterIds
<1>1. PICK n \in 1..3 : FilterIds = 1..n
  BY FiltersAssumption
<1>2. Cardinality(FilterIds) = n
  <2>1. Cardinality(1..n) = IF 1 > n THEN 0 ELSE n - 1 + 1
    BY <1>1, FS_Interval
  <2> QED BY <1>1, <2>1
<1>3. \A f \in 1..n : (f % n) + 1 \in 1..n
  BY <1>1
<1> QED BY <1>1, <1>2, <1>3

(* The panel is cleared before its title changes.                          *)
LEMMA SetTargetTitles ==
  ASSUME NEW p \in Panel, Titled(p), NEW r \in GhRepos \cup {None}, NEW f \in FilterIds
  PROVE  /\ SetTarget(p, r, f) \in Panel /\ Titled(SetTarget(p, r, f))
         /\ SetTarget(p, r, f).repo = r /\ SetTarget(p, r, f).label = f
<1>1. CASE p.repo # r \/ p.label # f
  BY <1>1 DEF SetTarget, Cleared, Panel, Titled
<1>2. CASE ~(p.repo # r \/ p.label # f)
  BY <1>2 DEF SetTarget, Panel, Titled
<1> QED BY <1>1, <1>2

(* Showing a snapshot shows its own answer.                                *)
LEMMA RefreshTitles ==
  ASSUME NEW p \in Panel, Titled(p), NEW cache, CacheOK(cache),
         NEW r \in GhRepos \cup {None}, NEW f \in FilterIds
  PROVE  /\ RefreshPanel(p, cache, r, f) \in Panel /\ Titled(RefreshPanel(p, cache, r, f))
         /\ RefreshPanel(p, cache, r, f).repo = r /\ RefreshPanel(p, cache, r, f).label = f
<1> DEFINE q == SetTarget(p, r, f)
<1>1. q \in Panel /\ Titled(q) /\ q.repo = r /\ q.label = f
  BY SetTargetTitles
<1>2. \A st \in {"Loading", "Ready", "NotGithub", "Error"} :
        /\ [q EXCEPT !.status = st] \in Panel /\ Titled([q EXCEPT !.status = st])
        /\ [q EXCEPT !.status = st].repo = r /\ [q EXCEPT !.status = st].label = f
        /\ [Cleared(q) EXCEPT !.status = st] \in Panel /\ Titled([Cleared(q) EXCEPT !.status = st])
        /\ [Cleared(q) EXCEPT !.status = st].repo = r /\ [Cleared(q) EXCEPT !.status = st].label = f
  BY <1>1 DEF Panel, Titled, Cleared
<1>3. ASSUME r # None, cache[r] # None, cache[r].snaps[f].data # None
      PROVE  LET t == [q EXCEPT !.status = "Ready", !.rows = cache[r].snaps[f].data] IN
             t \in Panel /\ Titled(t) /\ t.repo = r /\ t.label = f
  <2>1. cache[r] \in State /\ OwnAnswers(cache[r], r)
    BY <1>3 DEF CacheOK
  <2>2. cache[r].snaps[f].data \in Data
    BY <1>3, <2>1 DEF State, Snapshot
  <2> QED BY <1>1, <1>3, <2>1, <2>2 DEF Panel, Titled, OwnAnswers
<1> HIDE DEF q
<1> QED BY <1>1, <1>2, <1>3 DEF RefreshPanel, q

(* Looking up the remote leaves the snapshots as they are.                 *)
LEMMA ProbeKeeps ==
  ASSUME NEW s \in State, NEW r \in GhRepos, NEW force
  PROVE  Probe(s, r, force) \in State /\ Probe(s, r, force).snaps = s.snaps
BY DEF Probe, State

(* A request reserves the snapshot it asks for, and asks for no other.     *)
LEMMA RequestKeeps ==
  ASSUME GhInv, NEW f \in FilterIds, NEW force, NEW r \in GhRepos \cup {None}
  PROVE  /\ CacheOK(RequestGithub(ghCache, r, f, force).cache)
         /\ CallsOK(RequestGithub(ghCache, r, f, force).calls, RequestGithub(ghCache, r, f, force).cache)
<1> DEFINE s0 == IF ghCache[r] = None THEN EmptyState ELSE ghCache[r]
           s == Probe(s0, r, force)
           t == [s EXCEPT !.snaps[f].loading = TRUE]
<1>1. CASE r = None \/ ~gh
  BY <1>1 DEF RequestGithub, GhInv
<1>2. CASE r # None /\ gh
  <2>1. s0 \in State /\ OwnAnswers(s0, r)
    <3>1. EmptyState \in State /\ OwnAnswers(EmptyState, r)
      BY DEF EmptyState, EmptySnapshot, State, Snapshot, OwnAnswers
    <3> QED BY <3>1, <1>2 DEF GhInv, CacheOK
  <2>2. s \in State /\ OwnAnswers(s, r)
    BY <2>1, <1>2, ProbeKeeps DEF OwnAnswers
  <2> HIDE DEF s0, s
  <2>3. t \in State /\ OwnAnswers(t, r)
    <3>1. s.snaps[f] \in Snapshot /\ [s.snaps[f] EXCEPT !.loading = TRUE] \in Snapshot
      BY <2>2 DEF State, Snapshot
    <3>2. t \in State /\ t.snaps = [s.snaps EXCEPT ![f] = [s.snaps[f] EXCEPT !.loading = TRUE]]
      BY <2>2, <3>1 DEF State
    <3>3. \A h \in FilterIds : t.snaps[h].data = s.snaps[h].data
      BY <2>2, <3>1, <3>2 DEF State, Snapshot
    <3> QED BY <2>2, <3>2, <3>3 DEF OwnAnswers
  <2> HIDE DEF t
  <2>4. ASSUME NEW u \in State, OwnAnswers(u, r)
        PROVE  CacheOK([ghCache EXCEPT ![r] = u]) /\ CallsOK(calls, [ghCache EXCEPT ![r] = u])
    BY <2>4, <1>2 DEF GhInv, CacheOK, CallsOK
  <2>5. CASE MayFetch(s, f, force)
    <3>1. /\ RequestGithub(ghCache, r, f, force).cache = [ghCache EXCEPT ![r] = t]
          /\ RequestGithub(ghCache, r, f, force).calls = calls \cup {[repo |-> r, filter |-> f, live |-> TRUE]}
      BY <1>2, <2>5 DEF RequestGithub, s0, s, t
    <3>2. [ghCache EXCEPT ![r] = t][r] \in State /\ OwnAnswers([ghCache EXCEPT ![r] = t][r], r)
      BY <1>2, <2>3 DEF GhInv, CacheOK
    <3>3. CacheOK([ghCache EXCEPT ![r] = t]) /\ CallsOK(calls, [ghCache EXCEPT ![r] = t])
      BY <2>3, <2>4
    <3>4. [repo |-> r, filter |-> f, live |-> TRUE] \in [repo : GhRepos, filter : FilterIds, live : BOOLEAN]
      BY <1>2
    <3>5. CallsOK({[repo |-> r, filter |-> f, live |-> TRUE]}, [ghCache EXCEPT ![r] = t])
      <4>1. ASSUME NEW cache, cache[r] \in State, OwnAnswers(cache[r], r)
            PROVE  CallsOK({[repo |-> r, filter |-> f, live |-> TRUE]}, cache)
        <5> DEFINE x == [repo |-> r, filter |-> f, live |-> TRUE]
        <5>1. x.repo = r
          OBVIOUS
        <5>2. /\ x \in [repo : GhRepos, filter : FilterIds, live : BOOLEAN]
              /\ cache[x.repo] \in State /\ OwnAnswers(cache[x.repo], x.repo)
          BY <3>4, <4>1, <5>1
        <5> HIDE DEF x
        <5>3. \A c \in {x} : c = x
          OBVIOUS
        <5>4. CallsOK({x}, cache)
          BY <5>2, <5>3, Zenon DEF CallsOK
        <5> QED BY <5>4 DEF x
      <4> QED BY <4>1, <3>2
    <3>6. CallsOK(calls \cup {[repo |-> r, filter |-> f, live |-> TRUE]}, [ghCache EXCEPT ![r] = t])
      BY <3>3, <3>5 DEF CallsOK
    <3> QED BY <3>1, <3>3, <3>6
  <2>6. CASE ~MayFetch(s, f, force)
    <3>1. /\ RequestGithub(ghCache, r, f, force).cache = [ghCache EXCEPT ![r] = s]
          /\ RequestGithub(ghCache, r, f, force).calls = calls
      BY <1>2, <2>6 DEF RequestGithub, s0, s
    <3> QED BY <2>2, <2>4, <3>1
  <2> QED BY <2>5, <2>6
<1> QED BY <1>1, <1>2

(* Completing the snapshot a call was made for stores its own answer.      *)
LEMMA CompleteKeeps ==
  ASSUME NEW s \in State, NEW r \in GhRepos, OwnAnswers(s, r), NEW f \in FilterIds,
         NEW items \in Data \cup {None}, items # None => items.repo = r /\ items.filter = f
  PROVE  Complete(s, f, items) \in State /\ OwnAnswers(Complete(s, f, items), r)
<1>1. Complete(s, f, items) \in State
  BY DEF Complete, State, Snapshot
<1>2. \A h \in FilterIds \ {f} : Complete(s, f, items).snaps[h] = s.snaps[h]
  BY DEF Complete, State
<1>3. Complete(s, f, items).snaps[f].data = IF items = None THEN s.snaps[f].data ELSE items
  BY DEF Complete, State, Snapshot
<1> QED BY <1>1, <1>2, <1>3 DEF OwnAnswers

(* A cooldown forgets no answer.                                           *)
LEMMA LapsedKeeps ==
  ASSUME NEW s \in State, NEW r \in GhRepos, OwnAnswers(s, r)
  PROVE  Lapsed(s) \in State /\ OwnAnswers(Lapsed(s), r)
<1> DEFINE old(f) == [s.snaps[f] EXCEPT !.fresh = FALSE]
<1>1. \A f \in FilterIds : s.snaps[f] \in Snapshot
  BY DEF State
<1>2. \A f \in FilterIds : old(f) \in Snapshot /\ old(f).data = s.snaps[f].data
  BY <1>1 DEF Snapshot
<1>3. Lapsed(s) = [s EXCEPT !.probed = FALSE, !.snaps = [f \in FilterIds |-> old(f)]]
  BY DEF Lapsed
<1> HIDE DEF old
<1>4. [f \in FilterIds |-> old(f)] \in [FilterIds -> Snapshot]
  BY <1>2
<1>5. Lapsed(s) \in State /\ Lapsed(s).snaps = [f \in FilterIds |-> old(f)]
  <2> DEFINE snaps == [f \in FilterIds |-> old(f)]
  <2> HIDE DEF snaps
  <2>1. Lapsed(s) = [s EXCEPT !.probed = FALSE, !.snaps = snaps] /\ snaps \in [FilterIds -> Snapshot]
    BY <1>3, <1>4 DEF snaps
  <2>2. Lapsed(s) \in State /\ Lapsed(s).snaps = snaps
    BY <2>1 DEF State
  <2> QED BY <2>2 DEF snaps
<1> QED BY <1>2, <1>5 DEF OwnAnswers

(* What a repository that leaves had asked for is nobody's.                *)
LEMMA PrunedKeeps ==
  ASSUME GhInv, NEW r \in GhRepos
  PROVE  CacheOK(Pruned(r)) /\ CallsOK(Orphaned(r), Pruned(r))
<1>1. CacheOK(Pruned(r))
  BY DEF GhInv, CacheOK, Pruned
<1>2. ASSUME NEW c \in calls
      PROVE  LET o == [c EXCEPT !.live = c.live /\ c.repo # r] IN
             /\ o \in [repo : GhRepos, filter : FilterIds, live : BOOLEAN]
             /\ o.live => Pruned(r)[o.repo] \in State /\ OwnAnswers(Pruned(r)[o.repo], o.repo)
  <2>1. /\ c \in [repo : GhRepos, filter : FilterIds, live : BOOLEAN]
        /\ c.live => ghCache[c.repo] \in State /\ OwnAnswers(ghCache[c.repo], c.repo)
    BY <1>2 DEF GhInv, CallsOK
  <2> QED BY <2>1 DEF GhInv, CacheOK, Pruned
<1> QED BY <1>1, <1>2 DEF CallsOK, Orphaned

-----------------------------------------------------------------------------
(* At the start nothing was asked for and nothing is shown.                *)
LEMMA GhInitInv == GhInit => GhInv
<1> SUFFICES ASSUME GhInit PROVE GhInv
  OBVIOUS
<1>1. panel \in Panel /\ Titled(panel) /\ panel.repo = target /\ panel.label = filter
  BY FiltersGoRound DEF GhInit, Panel, Titled
<1>2. CacheOK(ghCache) /\ CallsOK(calls, ghCache)
  BY DEF GhInit, CacheOK, CallsOK
<1> QED BY <1>1, <1>2, FiltersGoRound DEF GhInit, GhInv

(* The selection is on r under the first filter, and so is the panel.      *)
LEMMA TouchKeeps ==
  ASSUME GhInv, NEW r \in GhRepos \cup {None}, TouchSelection(r)
  PROVE  /\ target' = r /\ filter' \in FilterIds /\ forced' = None /\ settle' \in BOOLEAN
         /\ panel' \in Panel /\ Titled(panel') /\ panel'.repo = r /\ panel'.label = filter'
BY FiltersGoRound, SetTargetTitles DEF GhInv, TouchSelection

(* What a request leaves behind when the panel follows it.                 *)
LEMMA RequestedKeeps ==
  ASSUME GhInv, NEW f \in FilterIds, NEW force, RequestAndRefresh(f, force)
  PROVE  /\ CacheOK(ghCache)' /\ CallsOK(calls, ghCache)'
         /\ panel' \in Panel /\ Titled(panel') /\ panel'.repo = target /\ panel'.label = f
<1>1. target \in GhRepos \cup {None} /\ panel \in Panel /\ Titled(panel)
  BY DEF GhInv
<1>2. /\ ghCache' = RequestGithub(ghCache, target, f, force).cache
      /\ calls' = RequestGithub(ghCache, target, f, force).calls
  BY DEF RequestAndRefresh
<1>5. panel' = RefreshPanel(panel, ghCache', target, f)
  BY <1>2 DEF RequestAndRefresh
<1>3. CacheOK(ghCache') /\ CallsOK(calls', ghCache')
  BY <1>1, <1>2, RequestKeeps
<1>4. panel' \in Panel /\ Titled(panel') /\ panel'.repo = target /\ panel'.label = f
  <2> DEFINE q == RefreshPanel(panel, ghCache', target, f)
  <2>1. q \in Panel /\ Titled(q) /\ q.repo = target /\ q.label = f
    BY <1>1, <1>3, RefreshTitles
  <2> QED BY <1>5, <2>1
<1> QED BY <1>3, <1>4 DEF CacheOK, CallsOK

(* Every key, selection, answer and timer keeps the invariant.             *)
LEMMA GhStepInv == GhInv /\ [GhNext]_ghVars => GhInv'
<1> SUFFICES ASSUME GhInv, [GhNext]_ghVars PROVE GhInv'
  OBVIOUS
<1>0. target \in GhRepos \cup {None} /\ filter \in FilterIds /\ present \subseteq GhRepos
  BY DEF GhInv
<1>1. CASE Retarget
  <2>1. PICK r \in present : TouchSelection(r)
    BY <1>1 DEF Retarget
  <2>2. UNCHANGED <<present, ghCache, calls>>
    BY <1>1 DEF Retarget
  <2> QED BY <1>0, <2>1, <2>2, TouchKeeps DEF GhInv, CacheOK, CallsOK, Titled
<1>2. CASE AddRepository
  <2>1. PICK r \in GhRepos \ present : present' = present \cup {r} /\ TouchSelection(r)
    BY <1>2 DEF AddRepository
  <2>2. UNCHANGED <<ghCache, calls>>
    BY <1>2 DEF AddRepository
  <2> QED BY <1>0, <2>1, <2>2, TouchKeeps DEF GhInv, CacheOK, CallsOK, Titled
<1>3. CASE RemoveRepository
  <2>1. PICK r \in present :
          /\ present' = present \ {r} /\ ghCache' = Pruned(r) /\ calls' = Orphaned(r)
          /\ IF present' # {} THEN \E t \in present' : (target # r => t = target) /\ TouchSelection(t)
             ELSE \/ TouchSelection(None)
                  \/ target' = None /\ UNCHANGED <<filter, forced, settle, panel>>
    BY <1>3 DEF RemoveRepository
  <2>2. CacheOK(ghCache') /\ CallsOK(calls', ghCache')
    BY <1>0, <2>1, PrunedKeeps
  <2>3. CASE \E t \in GhRepos \cup {None} : TouchSelection(t)
    BY <1>0, <2>1, <2>2, <2>3, TouchKeeps DEF GhInv, CacheOK, CallsOK, Titled
  <2>4. CASE target' = None /\ UNCHANGED <<filter, forced, settle, panel>>
    BY <1>0, <2>1, <2>2, <2>4 DEF GhInv, CacheOK, CallsOK, Titled
  <2> QED BY <1>0, <2>1, <2>3, <2>4
<1>4. CASE CycleFilter
  <2>1. filter' \in FilterIds /\ RequestAndRefresh(filter', TRUE) /\ UNCHANGED <<present, target, forced, settle>>
    BY <1>0, <1>4, FiltersGoRound DEF CycleFilter
  <2> QED BY <2>1, RequestedKeeps DEF GhInv, Titled
<1>5. CASE TogglePanel
  <2>1. forced' \in BOOLEAN /\ UNCHANGED <<present, target, filter, settle>>
    BY <1>5 DEF TogglePanel, ShowGithubPanel, GhInv
  <2>2. CASE RequestAndRefresh(filter, TRUE)
    BY <1>0, <2>1, <2>2, RequestedKeeps DEF GhInv, Titled
  <2>3. CASE UNCHANGED <<ghCache, calls, panel>>
    BY <2>1, <2>3 DEF GhInv, Titled, CacheOK, CallsOK
  <2> QED BY <1>5, <2>2, <2>3 DEF TogglePanel
<1>6. CASE OpenItem \/ CloseItem \/ ItemLoaded
  <2>1. UNCHANGED <<present, target, filter, forced, settle, ghCache, calls>>
    BY <1>6 DEF OpenItem, CloseItem, ItemLoaded
  <2>2. panel' \in Panel /\ panel'.rows = panel.rows /\ panel'.repo = panel.repo /\ panel'.label = panel.label
    <3>1. CASE OpenItem
      <4>1. panel.rows # None => panel.rows.items \subseteq Items
        BY DEF GhInv, Panel, Data
      <4>2. \E i \in Items : panel' = [panel EXCEPT !.detail = [item |-> i, loading |-> TRUE]]
        BY <3>1, <4>1 DEF OpenItem
      <4>3. PICK i \in Items : panel' = [panel EXCEPT !.detail = [item |-> i, loading |-> TRUE]]
        BY <4>2
      <4>4. [item |-> i, loading |-> TRUE] \in [item : Items, loading : BOOLEAN]
        OBVIOUS
      <4> QED BY <4>3, <4>4 DEF GhInv, Panel
    <3>2. CASE CloseItem
      BY <3>2 DEF CloseItem, GhInv, Panel
    <3>3. CASE ItemLoaded
      BY <3>3 DEF ItemLoaded, GhInv, Panel
    <3> QED BY <1>6, <3>1, <3>2, <3>3
  <2> QED BY <2>1, <2>2 DEF GhInv, Titled, CacheOK, CallsOK
<1>7. CASE SelectionSettled
  <2>1. RequestAndRefresh(filter, FALSE) /\ settle' \in BOOLEAN /\ UNCHANGED <<present, target, filter, forced>>
    BY <1>7 DEF SelectionSettled
  <2> QED BY <1>0, <2>1, RequestedKeeps DEF GhInv, Titled
<1>8. ASSUME NEW c \in calls, Fetched(c) PROVE GhInv'
  <2>1. /\ c \in [repo : GhRepos, filter : FilterIds, live : BOOLEAN]
        /\ c.live => ghCache[c.repo] \in State /\ OwnAnswers(ghCache[c.repo], c.repo)
    BY <1>8 DEF GhInv, CallsOK
  <2>2. PICK items \in {Rows(c.repo, c.filter, S) : S \in SUBSET Items} \cup {None} :
          ghCache' = IF c.live THEN [ghCache EXCEPT ![c.repo] = Complete(@, c.filter, items)] ELSE ghCache
    BY <1>8 DEF Fetched
  <2>3. items \in Data \cup {None} /\ (items # None => items.repo = c.repo /\ items.filter = c.filter)
    BY <2>1, <2>2 DEF Rows, Data
  <2>4. CacheOK(ghCache') /\ CallsOK(calls, ghCache')
    <3>1. CASE c.live
      <4> DEFINE t == Complete(ghCache[c.repo], c.filter, items)
      <4>1. c.repo \in GhRepos /\ c.filter \in FilterIds
        BY <2>1
      <4>2. t \in State /\ OwnAnswers(t, c.repo)
        BY <4>1, <2>1, <2>3, <3>1, CompleteKeeps
      <4> HIDE DEF t
      <4>3. ghCache' = [ghCache EXCEPT ![c.repo] = t]
        BY <2>2, <3>1 DEF t
      <4> QED BY <4>1, <4>2, <4>3 DEF GhInv, CacheOK, CallsOK
    <3>2. CASE ~c.live
      BY <2>2, <3>2 DEF GhInv, CacheOK, CallsOK
    <3> QED BY <3>1, <3>2
  <2>5. calls' = calls \ {c} /\ UNCHANGED <<present, target, filter, forced, settle>>
    BY <1>8 DEF Fetched
  <2>6. panel' = IF c.repo = target THEN RefreshPanel(panel, ghCache', target, filter) ELSE panel
    BY <1>8 DEF Fetched
  <2>7. /\ panel' \in Panel /\ Titled(panel')
        /\ target # None => panel'.repo = target /\ panel'.label = filter
    <3> DEFINE q == RefreshPanel(panel, ghCache', target, filter)
    <3>1. panel \in Panel /\ Titled(panel) /\ target \in GhRepos \cup {None} /\ filter \in FilterIds
      BY DEF GhInv
    <3>2. q \in Panel /\ Titled(q) /\ q.repo = target /\ q.label = filter
      BY <2>4, <3>1, RefreshTitles
    <3> HIDE DEF q
    <3>3. CASE c.repo = target
      <4>1. panel' = q
        BY <2>6, <3>3 DEF q
      <4> QED BY <3>2, <4>1 DEF Titled
    <3>4. CASE c.repo # target
      <4>1. panel' = panel
        BY <2>6, <3>4
      <4> QED BY <4>1 DEF GhInv, Titled
    <3> QED BY <3>3, <3>4
  <2> QED BY <2>4, <2>5, <2>7 DEF GhInv, Titled, CacheOK, CallsOK
<1>9. ASSUME NEW r \in GhRepos, Cooled(r) PROVE GhInv'
  <2> DEFINE t == Lapsed(ghCache[r])
  <2>1. ghCache[r] \in State /\ OwnAnswers(ghCache[r], r)
    BY <1>9 DEF Cooled, GhInv, CacheOK
  <2>2. t \in State /\ OwnAnswers(t, r)
    BY <2>1, LapsedKeeps
  <2>3. ghCache' = [ghCache EXCEPT ![r] = t] /\ UNCHANGED <<present, target, filter, forced, settle, panel, calls>>
    BY <1>9 DEF Cooled
  <2> HIDE DEF t
  <2>4. CacheOK(ghCache') /\ CallsOK(calls, ghCache')
    BY <1>9, <2>2, <2>3 DEF GhInv, CacheOK, CallsOK
  <2> QED BY <2>3, <2>4 DEF GhInv, Titled, CacheOK, CallsOK
<1>10. CASE UNCHANGED ghVars
  BY <1>10 DEF ghVars, GhInv, Titled, CacheOK, CallsOK
<1> QED BY <1>1, <1>2, <1>3, <1>4, <1>5, <1>6, <1>7, <1>8, <1>9, <1>10 DEF GhNext

(* The invariant holds throughout.                                         *)
THEOREM GhInvHolds == GhSpec => []GhInv
<1>1. GhInit => GhInv
  BY GhInitInv
<1>2. GhInv /\ [GhNext]_ghVars => GhInv'
  BY GhStepInv
<1> QED BY <1>1, <1>2, PTL DEF GhSpec

(* Late answers, answers to another filter and answers to a repository     *)
(* that was removed and added again never show under the panel's title     *)
(* (github_fetched, refresh_github_panel, prune_github_cache).             *)
THEOREM RowsAlwaysOfTarget == GhSpec => []RowsAreOfTarget
<1>1. GhInv => RowsAreOfTarget
  BY DEF GhInv, Titled, RowsAreOfTarget
<1> QED BY <1>1, GhInvHolds, PTL

-----------------------------------------------------------------------------
(* The diff over the list of changes (ChangesPanel).                       *)

Post ==
  [type : {"SelectRepo", "Refresh"}, owner : Repos, arg : Repos \cup {None}]
  \cup [type : {"SelectTree"}, owner : Repos, arg : Trees]
  \cup [type : {"ShowDiff", "Discard"}, owner : Repos, arg : Files]

(* A list is titled by the tree it was filled from and by its repository;  *)
(* the chosen file is one of its files, and a diff is open for a choice.   *)
IsBox(b) ==
  /\ b = [of |-> b.of, owner |-> b.owner, name |-> b.name, files |-> b.files, sel |-> b.sel,
          search |-> b.search, query |-> b.query, path |-> b.path, diff |-> b.diff]
  /\ b.of \in Paths \cup {None} /\ b.owner \in Repos \cup {None} /\ b.files \subseteq Files
  /\ b.name = b.of
  /\ b.of = None <=> b.owner = None
  /\ b.of \notin Trees => b.owner = b.of
  /\ b.path # None => b.path \in b.files /\ b.owner # None
  /\ b.diff # None => b.path # None

BoxTypes ==
  /\ DOMAIN disk \subseteq Paths /\ \A p \in DOMAIN disk : disk[p] \subseteq Files
  /\ listed \subseteq Repos /\ cursor \in Paths \cup {None}
  /\ status \in [Repos -> (SUBSET Files) \cup {None}]
  /\ prompt = None \/ prompt \in [owner : Repos, file : Files]
  /\ posted \in Seq(Post)
  /\ reads \subseteq [path : Paths, files : SUBSET Files]

(* A diff still to come is of the chosen file and the tree of the list.    *)
LateDiffs ==
  \A t \in diffs :
    /\ box.path # None /\ t.file = box.path
    /\ InContext /\ t.file \notin Pointers => t.tree = box.of

(* So is the one that is open, or another is to come.                      *)
OpenDiffs ==
  box.diff # None =>
    /\ box.diff.file = box.path \/ Coming \/ box.owner \notin listed
    /\ InContext /\ box.diff.file \notin Pointers => box.diff.tree = box.of

(* While the list is a repository's own, no other tree is active.          *)
OwnContext == box.of \in Repos \ Trees => active = None

BoxInv == BoxTypes /\ IsBox(box) /\ LateDiffs /\ OpenDiffs /\ OwnContext

(* Everything asked of the diff in p is asked in q.                        *)
Carries(p, q) ==
  \A i \in DOMAIN p : p[i].type = "ShowDiff" => \E j \in DOMAIN q : q[j] = p[i]

LEMMA CarriesAll ==
  ASSUME NEW p \in Seq(Post)
  PROVE  /\ Carries(p, p)
         /\ \A m \in Post : Append(p, m) \in Seq(Post) /\ Carries(p, Append(p, m))
                            /\ \E j \in DOMAIN Append(p, m) : Append(p, m)[j] = m
         /\ p # <<>> => Tail(p) \in Seq(Post) /\ Head(p) \in Post
         /\ p # <<>> => \A i \in DOMAIN p : p[i] # Head(p) => \E j \in DOMAIN Tail(p) : Tail(p)[j] = p[i]
         /\ p # <<>> /\ Head(p).type # "ShowDiff" => Carries(p, Tail(p))
<1>1. Carries(p, p)
  BY DEF Carries
<1>2. ASSUME NEW m \in Post
      PROVE  /\ Append(p, m) \in Seq(Post) /\ Carries(p, Append(p, m))
             /\ \E j \in DOMAIN Append(p, m) : Append(p, m)[j] = m
  <2>1. /\ Append(p, m) \in Seq(Post) /\ Len(Append(p, m)) = Len(p) + 1
        /\ \A i \in 1..Len(p) : Append(p, m)[i] = p[i]
        /\ Append(p, m)[Len(p) + 1] = m
    BY AppendProperties
  <2>2. DOMAIN p = 1..Len(p) /\ DOMAIN Append(p, m) = 1..(Len(p) + 1) /\ Len(p) \in Nat
    BY <2>1
  <2> QED BY <2>1, <2>2 DEF Carries
<1>3. p # <<>> => Tail(p) \in Seq(Post) /\ Head(p) \in Post
  BY HeadTailProperties
<1>4. ASSUME p # <<>>, NEW i \in DOMAIN p, p[i] # Head(p) PROVE \E j \in DOMAIN Tail(p) : Tail(p)[j] = p[i]
  <2>1. /\ Len(Tail(p)) = Len(p) - 1 /\ \A j \in 1..Len(Tail(p)) : Tail(p)[j] = p[j + 1]
        /\ Tail(p) \in Seq(Post)
    BY <1>4, HeadTailProperties
  <2>2. DOMAIN p = 1..Len(p) /\ DOMAIN Tail(p) = 1..(Len(p) - 1) /\ Len(p) \in Nat /\ Head(p) = p[1]
    BY <2>1, <1>4
  <2>3. i # 1
    BY <1>4, <2>2
  <2>4. i - 1 \in DOMAIN Tail(p) /\ (i - 1) + 1 = i
    BY <2>2, <2>3, <1>4
  <2> QED BY <2>1, <2>2, <2>4
<1>5. p # <<>> /\ Head(p).type # "ShowDiff" => Carries(p, Tail(p))
  BY <1>4 DEF Carries
<1> QED BY <1>1, <1>2, <1>3, <1>4, <1>5

(* What set_files leaves behind.  It keeps the chosen file and the diff    *)
(* only in a list of the same tree.                                        *)
LEMMA SetFilesIs ==
  ASSUME NEW b, IsBox(b), NEW files \in SUBSET Files, NEW of \in Paths \cup {None},
         NEW owner \in Repos \cup {None}, of = None <=> owner = None, of \notin Trees => owner = of
  PROVE  /\ IsBox(SetFiles(b, files, of, owner, of))
         /\ SetFiles(b, files, of, owner, of).of = of
         /\ SetFiles(b, files, of, owner, of).owner = owner
         /\ SetFiles(b, files, of, owner, of).files = files
         /\ IF Resets(b, files, of, owner)
            THEN /\ SetFiles(b, files, of, owner, of).path = None
                 /\ SetFiles(b, files, of, owner, of).diff = None
            ELSE /\ SetFiles(b, files, of, owner, of).path = b.path
                 /\ SetFiles(b, files, of, owner, of).diff = b.diff
                 /\ b.of = of /\ b.owner = owner
                 /\ b.path # None => b.path \in files
<1> DEFINE same == b.owner = owner /\ b.name = of
           c == [b EXCEPT !.of = of, !.owner = owner, !.name = of, !.files = files,
                          !.search = @ /\ same, !.query = IF same THEN @ ELSE Files]
           d == IF Resets(b, files, of, owner) THEN [c EXCEPT !.path = None, !.diff = None] ELSE c
           e == [d EXCEPT !.sel = Matched(d, Kept(b, same, files))]
<1>1. SetFiles(b, files, of, owner, of) = e
  BY DEF SetFiles
<1> DEFINE search == b.search /\ same
           query  == IF same THEN b.query ELSE Files
           c2     == [b EXCEPT !.of = of, !.owner = owner, !.name = of, !.files = files,
                               !.search = search, !.query = query]
<1>9. c = c2
  OBVIOUS
<1> HIDE DEF search, query, c
<1>2. c = [of |-> of, owner |-> owner, name |-> of, files |-> files, sel |-> b.sel,
           search |-> search, query |-> query, path |-> b.path, diff |-> b.diff]
  BY <1>9 DEF IsBox
<1> HIDE DEF c
<1>3. d = [of |-> of, owner |-> owner, name |-> of, files |-> files, sel |-> b.sel,
           search |-> search, query |-> query,
           path |-> IF Resets(b, files, of, owner) THEN None ELSE b.path,
           diff |-> IF Resets(b, files, of, owner) THEN None ELSE b.diff]
  BY <1>2
<1> HIDE DEF d
<1>4. e = [of |-> of, owner |-> owner, name |-> of, files |-> files, sel |-> e.sel,
           search |-> e.search, query |-> e.query,
           path |-> IF Resets(b, files, of, owner) THEN None ELSE b.path,
           diff |-> IF Resets(b, files, of, owner) THEN None ELSE b.diff]
  BY <1>3
<1> HIDE DEF e
<1>5. ~Resets(b, files, of, owner) => same /\ (b.files = files \/ b.path \in files)
  BY DEF Resets
<1>6. ~Resets(b, files, of, owner) => b.of = of /\ b.owner = owner /\ (b.path # None => b.path \in files)
  BY <1>5 DEF IsBox
<1>7. /\ e.of = of /\ e.owner = owner /\ e.name = of /\ e.files = files
      /\ e.path = IF Resets(b, files, of, owner) THEN None ELSE b.path
      /\ e.diff = IF Resets(b, files, of, owner) THEN None ELSE b.diff
  BY <1>4
<1>8. IsBox(e)
  <2>1. e = [of |-> e.of, owner |-> e.owner, name |-> e.name, files |-> e.files, sel |-> e.sel,
             search |-> e.search, query |-> e.query, path |-> e.path, diff |-> e.diff]
    BY <1>4, <1>7
  <2>2. e.path # None => e.path \in e.files /\ e.owner # None
    BY <1>6, <1>7 DEF IsBox
  <2>3. e.diff # None => e.path # None
    BY <1>7 DEF IsBox
  <2>4. e.of \in Paths \cup {None} /\ e.owner \in Repos \cup {None} /\ e.files \subseteq Files
        /\ e.name = e.of /\ (e.of = None <=> e.owner = None) /\ (e.of \notin Trees => e.owner = e.of)
    BY <1>7
  <2> QED BY <2>1, <2>2, <2>3, <2>4 DEF IsBox
<1> QED BY <1>1, <1>6, <1>7, <1>8

(* The list is filled again.                                               *)
LEMMA Refilled ==
  ASSUME BoxInv, NEW files \in SUBSET Files, NEW of \in Paths \cup {None},
         NEW owner \in Repos \cup {None}, of = None <=> owner = None, of \notin Trees => owner = of,
         box' = SetFiles(box, files, of, owner, of), listed' \subseteq listed,
         diffs' \in {{}, diffs}, Resets(box, files, of, owner) => diffs' = {},
         \/ diffs' = diffs /\ Carries(posted, posted')
         \/ \E j \in DOMAIN posted' : posted'[j] = Action("ShowDiff", owner, box.path)
         \/ Resets(box, files, of, owner),
         ~Resets(box, files, of, owner) /\ box.path # None /\ of \in Trees /\ active' = of => active = of,
         of \in Repos \ Trees => active' = None
  PROVE  IsBox(box)' /\ LateDiffs' /\ OpenDiffs' /\ OwnContext'
<1> DEFINE c == SetFiles(box, files, of, owner, of)
<1>4. /\ IsBox(c) /\ c.of = of /\ c.owner = owner /\ c.files = files
      /\ Resets(box, files, of, owner) => c.path = None /\ c.diff = None
      /\ ~Resets(box, files, of, owner) =>
           /\ c.path = box.path /\ c.diff = box.diff /\ box.of = of /\ box.owner = owner
  <2>1. IsBox(box)
    BY DEF BoxInv
  <2> HIDE DEF c
  <2>2. IsBox(c) /\ c.of = of /\ c.owner = owner /\ c.files = files
    BY <2>1, SetFilesIs DEF c
  <2>3. IF Resets(box, files, of, owner) THEN c.path = None /\ c.diff = None
        ELSE c.path = box.path /\ c.diff = box.diff /\ box.of = of /\ box.owner = owner
    BY <2>1, SetFilesIs DEF c
  <2> QED BY <2>2, <2>3
<1> HIDE DEF c
<1>1. /\ IsBox(box') /\ box'.of = of /\ box'.owner = owner /\ box'.files = files
      /\ Resets(box, files, of, owner) => box'.path = None /\ box'.diff = None
      /\ ~Resets(box, files, of, owner) =>
           /\ box'.path = box.path /\ box'.diff = box.diff /\ box.of = of /\ box.owner = owner
  BY <1>4 DEF c
<1>2. CASE Resets(box, files, of, owner)
  BY <1>1, <1>2 DEF LateDiffs, OpenDiffs, OwnContext
<1>3. CASE ~Resets(box, files, of, owner)
  <2>4. box.path # None /\ InContext' => InContext
    BY <1>1, <1>3 DEF InContext
  <2>1. LateDiffs'
    BY <1>1, <1>3, <2>4 DEF BoxInv, LateDiffs
  <2>2. ASSUME box'.diff # None PROVE box'.diff.file = box'.path \/ Coming' \/ box'.owner \notin listed'
    <3>1. box.diff # None
      BY <1>1, <1>3, <2>2
    <3>2. CASE \E j \in DOMAIN posted' : posted'[j] = Action("ShowDiff", owner, box.path)
      BY <1>1, <1>3, <3>2 DEF Coming, Action
    <3>3. CASE diffs' = diffs /\ Carries(posted, posted')
      <4>1. Coming => Coming'
        BY <1>1, <1>3, <3>3 DEF Coming, Action, Carries
      <4> QED BY <1>1, <1>3, <3>1, <4>1 DEF BoxInv, OpenDiffs
    <3> QED BY <1>3, <3>2, <3>3
  <2>3. box'.diff # None /\ InContext' /\ box'.diff.file \notin Pointers => box'.diff.tree = box'.of
    <3>1. box.diff # None => box.path # None
      BY DEF BoxInv, IsBox
    <3> QED BY <1>1, <1>3, <2>4, <3>1 DEF BoxInv, OpenDiffs
  <2> QED BY <1>1, <2>1, <2>2, <2>3 DEF OpenDiffs, OwnContext
<1> QED BY <1>2, <1>3

(* The list stays as it is, and so do the diffs on their way.              *)
LEMMA Steady ==
  ASSUME BoxInv, IsBox(box'), box'.of = box.of, box'.owner = box.owner, box'.path = box.path, box'.diff = box.diff,
         diffs' = diffs, listed' \subseteq listed, active' \in {active, None}, Carries(posted, posted')
  PROVE  IsBox(box)' /\ LateDiffs' /\ OpenDiffs' /\ OwnContext'
<1>1. InContext' => InContext
  BY PathsAssumption DEF InContext, Paths
<1>2. Coming => Coming'
  BY DEF Coming, Action, Carries
<1>3. LateDiffs' /\ OwnContext'
  BY <1>1 DEF BoxInv, LateDiffs, OwnContext
<1>4. OpenDiffs'
  BY <1>1, <1>2 DEF BoxInv, OpenDiffs
<1> QED BY <1>3, <1>4

LEMMA BoxInitInv == BoxInit => BoxInv
<1> SUFFICES ASSUME BoxInit PROVE BoxInv
  OBVIOUS
<1>1. /\ disk = Trees0 /\ listed = Repos /\ cursor \in Repos /\ status = [r \in Repos |-> None] /\ active = None
      /\ box = [EmptyBox EXCEPT !.of = cursor, !.owner = cursor, !.name = cursor]
      /\ prompt = None /\ posted = <<>> /\ reads = {} /\ diffs = {}
  BY DEF BoxInit
<1>2. box = [of |-> cursor, owner |-> cursor, name |-> cursor, files |-> {}, sel |-> None,
             search |-> FALSE, query |-> Files, path |-> None, diff |-> None]
  BY <1>1 DEF EmptyBox
<1>5. /\ box.of = cursor /\ box.owner = cursor /\ box.name = cursor /\ box.files = {}
      /\ box.sel = None /\ box.search = FALSE /\ box.query = Files /\ box.path = None /\ box.diff = None
  BY <1>2
<1>6. cursor \in Repos /\ cursor \in Paths /\ cursor # None
  BY <1>1, PathsAssumption DEF Paths
<1>3. IsBox(box)
  BY <1>2, <1>5, <1>6 DEF IsBox
<1>4. BoxTypes
  <2>1. DOMAIN disk \subseteq Paths /\ \A p \in DOMAIN disk : disk[p] \subseteq Files
    BY <1>1, DiskAssumption
  <2>2. posted \in Seq(Post)
    BY <1>1
  <2>3. status \in [Repos -> (SUBSET Files) \cup {None}]
    BY <1>1
  <2>4. listed \subseteq Repos /\ cursor \in Paths \cup {None} /\ prompt = None /\ reads = {}
    BY <1>1, <1>6
  <2> QED BY <2>1, <2>2, <2>3, <2>4 DEF BoxTypes
<1> QED BY <1>1, <1>3, <1>4, <1>5 DEF BoxInv, LateDiffs, OpenDiffs, OwnContext

(* What a key or a click posts, which nothing was waiting before.          *)
LEMMA KeyPosts ==
  ASSUME BoxInv, NEW p, Key(p), p \in Seq(Post)
  PROVE  posted' \in Seq(Post) /\ Carries(posted, posted') /\ reads' = reads
BY DEF Key, Idle, Carries

LEMMA OnePost == <<>> \in Seq(Post) /\ \A m \in Post : <<m>> \in Seq(Post)
OBVIOUS

(* Keys that leave the list alone.                                         *)
LEMMA MoveCursorKeeps == ASSUME BoxInv, MoveCursor PROVE BoxInv'
<1>1. PICK row \in listed \cup {w \in Worktrees : Parent[w] \in listed /\ w \in DOMAIN disk} :
        /\ cursor' = row
        /\ Key(<<IF row \in Trees THEN Action("SelectTree", Parent[row], row) ELSE Action("SelectRepo", row, row)>>)
  BY DEF MoveCursor
<1>2. UNCHANGED <<disk, listed, status, active, box, prompt, diffs>>
  BY DEF MoveCursor
<1>3. listed \subseteq Repos
  BY DEF BoxInv, BoxTypes
<1>4. row \in Paths /\ (row \notin Trees => row \in Repos)
  BY <1>1, <1>3 DEF Paths, Trees
<1> DEFINE m == IF row \in Trees THEN Action("SelectTree", Parent[row], row) ELSE Action("SelectRepo", row, row)
<1>5. m \in Post
  <2>1. CASE row \in Trees
    BY <2>1, ParentAssumption DEF Action, Post
  <2>2. CASE row \notin Trees
    BY <1>4, <2>2 DEF Action, Post
  <2> QED BY <2>1, <2>2
<1> HIDE DEF m
<1>6. posted' \in Seq(Post) /\ Carries(posted, posted') /\ reads' = reads
  BY <1>1, <1>5, OnePost, KeyPosts DEF m
<1>7. BoxTypes'
  BY <1>1, <1>2, <1>4, <1>6 DEF BoxInv, BoxTypes
<1> QED BY <1>2, <1>6, <1>7, Steady DEF BoxInv

LEMMA OpenSubmoduleKeeps == ASSUME BoxInv, OpenSubmodule PROVE BoxInv'
<1>1. PICK s \in Submodules : Key(<<Action("SelectTree", Parent[s], s)>>)
  BY DEF OpenSubmodule
<1>2. UNCHANGED <<disk, listed, cursor, status, active, box, prompt, diffs>>
  BY DEF OpenSubmodule, Untouched
<1>3. Action("SelectTree", Parent[s], s) \in Post
  BY ParentAssumption DEF Action, Post, Trees
<1>4. posted' \in Seq(Post) /\ Carries(posted, posted') /\ reads' = reads
  BY <1>1, <1>3, OnePost, KeyPosts
<1>5. BoxTypes'
  BY <1>2, <1>4 DEF BoxInv, BoxTypes
<1> QED BY <1>2, <1>4, <1>5, Steady DEF BoxInv

(* The chosen file is another one now, and its diff is asked for.          *)
LEMMA OpenDiffKeeps == ASSUME BoxInv, OpenDiff PROVE BoxInv'
<1>1. /\ box.sel \in box.files /\ box.owner # None /\ box' = [box EXCEPT !.path = box.sel] /\ diffs' = {}
      /\ Key(<<Action("ShowDiff", box.owner, box.sel)>>)
      /\ UNCHANGED <<disk, listed, cursor, status, active, prompt>>
  BY DEF OpenDiff
<1>2. box.sel \in Files /\ box.owner \in Repos /\ box.sel # None
  BY <1>1, PathsAssumption DEF BoxInv, IsBox
<1>3. Action("ShowDiff", box.owner, box.sel) \in Post
  BY <1>2 DEF Action, Post
<1>4. posted' \in Seq(Post) /\ reads' = reads /\ posted' = <<Action("ShowDiff", box.owner, box.sel)>>
  BY <1>1, <1>3, OnePost, KeyPosts DEF Key
<1>5. /\ box' = [of |-> box.of, owner |-> box.owner, name |-> box.name, files |-> box.files, sel |-> box.sel,
                 search |-> box.search, query |-> box.query, path |-> box.sel, diff |-> box.diff]
  BY <1>1 DEF BoxInv, IsBox
<1>6. IsBox(box')
  BY <1>1, <1>2, <1>5 DEF BoxInv, IsBox
<1>7. BoxTypes'
  BY <1>1, <1>4 DEF BoxInv, BoxTypes
<1>8. Coming'
  <2>1. DOMAIN posted' = {1} /\ posted'[1] = Action("ShowDiff", box.owner, box.sel)
    BY <1>4
  <2> QED BY <1>5, <2>1 DEF Coming, Action
<1>9. OpenDiffs'
  <2>1. InContext' => InContext
    BY <1>1, <1>5 DEF InContext
  <2> QED BY <1>5, <1>8, <2>1 DEF BoxInv, OpenDiffs
<1>10. LateDiffs' /\ OwnContext'
  BY <1>1, <1>5 DEF BoxInv, LateDiffs, OwnContext
<1> QED BY <1>6, <1>7, <1>9, <1>10 DEF BoxInv

LEMMA CloseDiffKeeps == ASSUME BoxInv, CloseDiff PROVE BoxInv'
<1>1. /\ box' = [box EXCEPT !.path = None, !.diff = None] /\ diffs' = {} /\ Key(<<>>)
      /\ UNCHANGED <<disk, listed, cursor, status, active, prompt>>
  BY DEF CloseDiff
<1>2. box' = [of |-> box.of, owner |-> box.owner, name |-> box.name, files |-> box.files, sel |-> box.sel,
              search |-> box.search, query |-> box.query, path |-> None, diff |-> None]
  BY <1>1 DEF BoxInv, IsBox
<1>3. posted' \in Seq(Post) /\ reads' = reads
  BY <1>1, OnePost, KeyPosts
<1>4. IsBox(box') /\ BoxTypes'
  BY <1>1, <1>2, <1>3 DEF BoxInv, BoxTypes, IsBox
<1> QED BY <1>1, <1>2, <1>4 DEF BoxInv, LateDiffs, OpenDiffs, OwnContext

LEMMA Searched ==
  ASSUME NEW a, IsBox(a), NEW on, NEW q, NEW b, b = [a EXCEPT !.search = on, !.query = q]
  PROVE  b = [of |-> a.of, owner |-> a.owner, name |-> a.name, files |-> a.files, sel |-> a.sel,
              search |-> on, query |-> q, path |-> a.path, diff |-> a.diff]
BY DEF IsBox

LEMMA TypeSearchKeeps == ASSUME BoxInv, TypeSearch PROVE BoxInv'
<1>1. PICK q, on :
        LET b == [box EXCEPT !.search = on, !.query = q] IN box' = [b EXCEPT !.sel = Matched(b, @)]
  BY DEF TypeSearch
<1>2. /\ box.diff = None /\ diffs' = {} /\ Key(<<>>) /\ UNCHANGED <<disk, listed, cursor, status, active, prompt>>
  BY DEF TypeSearch
<1> DEFINE b == [box EXCEPT !.search = on, !.query = q]
           sel == Matched(b, b.sel)
<1>3. b = [of |-> box.of, owner |-> box.owner, name |-> box.name, files |-> box.files, sel |-> box.sel,
           search |-> on, query |-> q, path |-> box.path, diff |-> box.diff]
  <2>1. b = [box EXCEPT !.search = on, !.query = q] /\ IsBox(box)
    BY DEF BoxInv
  <2> HIDE DEF b
  <2> QED BY <2>1, Searched
<1>4. box' = [b EXCEPT !.sel = sel]
  BY <1>1
<1> HIDE DEF b, sel
<1>5. box' = [of |-> box.of, owner |-> box.owner, name |-> box.name, files |-> box.files, sel |-> sel,
              search |-> on, query |-> q, path |-> box.path, diff |-> box.diff]
  BY <1>3, <1>4
<1>6. posted' \in Seq(Post) /\ reads' = reads
  BY <1>2, OnePost, KeyPosts
<1>7. IsBox(box') /\ BoxTypes'
  BY <1>2, <1>5, <1>6 DEF BoxInv, BoxTypes, IsBox
<1> QED BY <1>2, <1>5, <1>7 DEF BoxInv, LateDiffs, OpenDiffs, OwnContext

LEMMA StepFileKeeps == ASSUME BoxInv, StepFile PROVE BoxInv'
<1>1. PICK f : box' = [box EXCEPT !.sel = f]
  BY DEF StepFile
<1>2. Key(<<>>) /\ UNCHANGED <<disk, listed, cursor, status, active, prompt, diffs>>
  BY DEF StepFile
<1>3. box' = [of |-> box.of, owner |-> box.owner, name |-> box.name, files |-> box.files, sel |-> f,
              search |-> box.search, query |-> box.query, path |-> box.path, diff |-> box.diff]
  BY <1>1 DEF BoxInv, IsBox
<1>4. posted' \in Seq(Post) /\ Carries(posted, posted') /\ reads' = reads
  BY <1>2, OnePost, KeyPosts
<1>5. IsBox(box') /\ BoxTypes'
  BY <1>2, <1>3, <1>4 DEF BoxInv, BoxTypes, IsBox
<1> QED BY <1>2, <1>3, <1>4, <1>5, Steady DEF BoxInv

(* The dialog of a discard.                                                *)
LEMMA AskKeeps == ASSUME BoxInv, Ask PROVE BoxInv'
<1>1. PICK f \in box.files : prompt' = [owner |-> box.owner, file |-> f]
  BY DEF Ask
<1>2. /\ box.owner # None /\ Key(<<>>) /\ UNCHANGED <<disk, listed, cursor, status, active, box, diffs>>
  BY DEF Ask
<1>3. posted' \in Seq(Post) /\ Carries(posted, posted') /\ reads' = reads
  BY <1>2, OnePost, KeyPosts
<1>4. prompt' \in [owner : Repos, file : Files]
  BY <1>1, <1>2 DEF BoxInv, IsBox
<1>5. BoxTypes'
  BY <1>2, <1>3, <1>4 DEF BoxInv, BoxTypes
<1> QED BY <1>2, <1>3, <1>5, Steady DEF BoxInv

LEMMA AnswerKeeps == ASSUME BoxInv, Answer PROVE BoxInv'
<1>1. /\ prompt # None /\ prompt' = None /\ UNCHANGED <<disk, listed, cursor, status, active, box, diffs>>
      /\ Key(<<Action("Discard", prompt.owner, prompt.file)>>) \/ Key(<<>>)
  BY DEF Answer
<1>2. Action("Discard", prompt.owner, prompt.file) \in Post
  BY <1>1 DEF BoxInv, BoxTypes, Action, Post
<1>3. posted' \in Seq(Post) /\ Carries(posted, posted') /\ reads' = reads
  BY <1>1, <1>2, OnePost, KeyPosts
<1>4. BoxTypes'
  BY <1>1, <1>3 DEF BoxInv, BoxTypes
<1> QED BY <1>1, <1>3, <1>4, Steady DEF BoxInv

(* A list is filled again only for the tree it shows, or it starts anew.   *)
LEMMA KeepsTree ==
  ASSUME IsBox(box), NEW files, NEW of, NEW owner, ~Resets(box, files, of, owner)
  PROVE  box.of = of /\ box.owner = owner /\ (box.path # None => box.path \in files)
BY DEF Resets, IsBox

LEMMA RemoveWorktreeKeeps == ASSUME BoxInv, RemoveWorktree PROVE BoxInv'
<1>1. /\ cursor \in Worktrees /\ active' \in {active, None}
      /\ Key(<<Action("Refresh", Parent[cursor], None)>>)
      /\ UNCHANGED <<listed, cursor, status, box, prompt, diffs>>
      /\ disk' = [p \in DOMAIN disk \ {cursor} |-> disk[p]] \/ disk' = disk
  BY DEF RemoveWorktree
<1>2. Action("Refresh", Parent[cursor], None) \in Post
  BY <1>1, ParentAssumption DEF Action, Post, Trees
<1>3. posted' \in Seq(Post) /\ Carries(posted, posted') /\ reads' = reads
  BY <1>1, <1>2, OnePost, KeyPosts
<1>4. BoxTypes'
  BY <1>1, <1>3 DEF BoxInv, BoxTypes
<1> QED BY <1>1, <1>3, <1>4, Steady DEF BoxInv

LEMMA RemoveRepoKeeps == ASSUME BoxInv, RemoveRepo PROVE BoxInv'
<1>1. /\ listed' = listed \ {cursor} /\ active' \in {active, None} /\ UNCHANGED <<disk, status, prompt>>
  BY DEF RemoveRepo
<1>2. listed' \subseteq listed /\ listed \subseteq Repos /\ IsBox(box)
  BY <1>1 DEF BoxInv, BoxTypes
<1>3. CASE listed' = {}
  <2>1. cursor' = None /\ Fill(box, {}, None, None, None) /\ Key(<<>>)
    BY <1>3 DEF RemoveRepo
  <2>2. posted' \in Seq(Post) /\ Carries(posted, posted') /\ reads' = reads
    BY <2>1, OnePost, KeyPosts
  <2>3. BoxTypes'
    BY <1>1, <1>2, <2>1, <2>2 DEF BoxInv, BoxTypes
  <2>4. /\ box' = SetFiles(box, {}, None, None, None)
        /\ diffs' = IF Resets(box, {}, None, None) THEN {} ELSE diffs
    BY <2>1 DEF Fill
  <2>5. None \notin Trees /\ None \notin Repos
    BY PathsAssumption DEF Paths
  <2> QED BY <1>1, <1>2, <2>2, <2>3, <2>4, <2>5, Refilled DEF BoxInv
<1>4. CASE listed' # {}
  <2>1. PICK r \in listed' : cursor' = r /\ UNCHANGED <<box, diffs>> /\ Key(<<Action("SelectRepo", r, r)>>)
    BY <1>4 DEF RemoveRepo
  <2>2. Action("SelectRepo", r, r) \in Post /\ r \in Repos
    BY <1>2, <2>1 DEF Action, Post
  <2>3. posted' \in Seq(Post) /\ Carries(posted, posted') /\ reads' = reads
    BY <2>1, <2>2, OnePost, KeyPosts
  <2>4. BoxTypes'
    BY <1>1, <1>2, <2>1, <2>2, <2>3 DEF BoxInv, BoxTypes, Paths
  <2> QED BY <1>1, <1>2, <2>1, <2>3, <2>4, Steady DEF BoxInv
<1> QED BY <1>3, <1>4

LEMMA VanishKeeps == ASSUME BoxInv, NEW r \in Repos, Vanish(r) PROVE BoxInv'
<1>1. /\ listed' = listed \ {r} /\ active' \in {active, None} /\ UNCHANGED <<status, prompt, posted, reads>>
      /\ disk' = [p \in {q \in DOMAIN disk : RowRepo(q) # r} |-> disk[p]]
      /\ cursor' \in {cursor, None} \cup listed'
  BY DEF Vanish
<1>2. /\ listed' \subseteq listed /\ listed \subseteq Repos /\ IsBox(box)
      /\ posted' \in Seq(Post) /\ Carries(posted, posted')
  BY <1>1, CarriesAll DEF BoxInv, BoxTypes
<1>3. BoxTypes'
  BY <1>1, <1>2 DEF BoxInv, BoxTypes, Paths
<1>4. None \notin Trees /\ None \notin Repos
  BY PathsAssumption DEF Paths
<1>5. CASE active' # None
  BY <1>1, <1>2, <1>3, <1>5, Steady DEF Vanish, BoxInv
<1>6. CASE active' = None /\ cursor' = None
  <2>1. /\ box' = SetFiles(box, {}, None, None, None)
        /\ diffs' = IF Resets(box, {}, None, None) THEN {} ELSE diffs
    BY <1>6 DEF Vanish, Fill
  <2> QED BY <1>1, <1>2, <1>3, <1>4, <1>6, <2>1, Refilled DEF BoxInv
<1>7. CASE active' = None /\ cursor' # None
  <2> DEFINE s == RowRepo(cursor')
  <2>1. /\ box' = SetFiles(box, Files0(s), s, s, s)
        /\ diffs' = IF Resets(box, Files0(s), s, s) THEN {} ELSE diffs
    BY <1>7 DEF Vanish, Fill
  <2>2. cursor' \in Paths
    BY <1>3, <1>7 DEF BoxTypes
  <2>3. s \in Repos
    BY <2>2, ParentAssumption DEF RowRepo, Paths
  <2>4. Files0(s) \in SUBSET Files
    BY <2>3 DEF Files0, BoxInv, BoxTypes
  <2> HIDE DEF s
  <2>5. s \in Paths \cup {None} /\ s # None
    BY <1>4, <2>3 DEF Paths
  <2> QED BY <1>1, <1>2, <1>3, <1>4, <1>7, <2>1, <2>3, <2>4, <2>5, Refilled DEF BoxInv
<1> QED BY <1>5, <1>6, <1>7

LEMMA EditKeeps == ASSUME BoxInv, Edit PROVE BoxInv'
<1>1. UNCHANGED <<listed, cursor, status, active, box, prompt, posted, reads, diffs>>
  BY DEF Edit
<1>2. DOMAIN disk' \subseteq Paths /\ \A p \in DOMAIN disk' : disk'[p] \subseteq Files
  <2>1. CASE \E p \in DOMAIN disk : \E S \in Contents : S # disk[p] /\ disk' = [disk EXCEPT ![p] = S]
    BY <2>1, DiskAssumption DEF BoxInv, BoxTypes
  <2>2. CASE \E w \in Trees \cap DOMAIN disk : disk' = [p \in DOMAIN disk \ {w} |-> disk[p]]
    BY <2>2 DEF BoxInv, BoxTypes
  <2> QED BY <2>1, <2>2 DEF Edit
<1>3. BoxTypes'
  BY <1>1, <1>2 DEF BoxInv, BoxTypes
<1>4. Carries(posted, posted')
  BY <1>1, CarriesAll DEF BoxInv, BoxTypes
<1> QED BY <1>1, <1>3, <1>4, Steady DEF BoxInv

(* Nothing of the list changes, and nothing asked of the diff is lost.     *)
LEMMA PollKeeps == ASSUME BoxInv, PollLocal \/ \E p \in Paths : Read(p) PROVE BoxInv'
<1>1. UNCHANGED <<disk, listed, cursor, status, active, box, prompt, posted, diffs>>
  BY DEF PollLocal, Read
<1>2. reads' \subseteq [path : Paths, files : SUBSET Files]
  <2>1. CASE PollLocal
    BY <2>1 DEF PollLocal, BoxInv, BoxTypes
  <2>2. ASSUME NEW p \in Paths, Read(p) PROVE reads' \subseteq [path : Paths, files : SUBSET Files]
    BY <2>2 DEF Read, BoxInv, BoxTypes
  <2> QED BY <2>1, <2>2
<1>3. BoxTypes'
  BY <1>1, <1>2 DEF BoxInv, BoxTypes
<1>4. Carries(posted, posted')
  BY <1>1, CarriesAll DEF BoxInv, BoxTypes
<1> QED BY <1>1, <1>3, <1>4, Steady DEF BoxInv

(* The handler of another action takes it from the head of the channel.    *)
LEMMA TakesOther ==
  ASSUME BoxInv, NEW type, Taking(type), type # "ShowDiff"
  PROVE  /\ posted' \in Seq(Post) /\ Carries(posted, posted') /\ Head(posted) \in Post /\ Head(posted).type = type
BY CarriesAll DEF Taking, Idle, BoxInv, BoxTypes

LEMMA DiscardKeeps == ASSUME BoxInv, Discard \/ Refresh PROVE BoxInv'
<1>1. UNCHANGED <<listed, cursor, status, active, box, prompt, reads, diffs>>
  BY DEF Discard, Refresh
<1>2. posted' \in Seq(Post) /\ Carries(posted, posted')
  BY TakesOther DEF Discard, Refresh
<1>3. DOMAIN disk' \subseteq Paths /\ \A p \in DOMAIN disk' : disk'[p] \subseteq Files
  <2>1. CASE Refresh
    BY <2>1 DEF Refresh, BoxInv, BoxTypes
  <2>2. CASE Discard
    <3>1. disk' = disk \/ \E d, f : disk' = [disk EXCEPT ![d] = @ \ {f}]
      BY <2>2 DEF Discard
    <3>2. ASSUME NEW d, NEW f, disk' = [disk EXCEPT ![d] = @ \ {f}]
          PROVE  DOMAIN disk' \subseteq Paths /\ \A p \in DOMAIN disk' : disk'[p] \subseteq Files
      BY <3>2 DEF BoxInv, BoxTypes
    <3> QED BY <3>1, <3>2 DEF BoxInv, BoxTypes
  <2> QED BY <2>1, <2>2
<1>4. BoxTypes'
  BY <1>1, <1>2, <1>3 DEF BoxInv, BoxTypes
<1> QED BY <1>1, <1>2, <1>4, Steady DEF BoxInv

LEMMA SelectRepoKeeps == ASSUME BoxInv, SelectRepo PROVE BoxInv'
<1> DEFINE r == Head(posted).owner
<1>1. /\ active' = None /\ UNCHANGED <<disk, listed, cursor, status, prompt, reads>>
      /\ IF r \in listed THEN Fill(box, Files0(r), r, r, r) ELSE UNCHANGED <<box, diffs>>
  BY DEF SelectRepo
<1> HIDE DEF r
<1>2. posted' \in Seq(Post) /\ Carries(posted, posted')
  BY TakesOther DEF SelectRepo
<1>3. BoxTypes'
  BY <1>1, <1>2 DEF BoxInv, BoxTypes
<1>4. CASE r \notin listed
  BY <1>1, <1>2, <1>3, <1>4, Steady DEF BoxInv
<1>5. CASE r \in listed
  <2>1. r \in Repos /\ r \in Paths /\ r # None
    BY <1>5, PathsAssumption DEF BoxInv, BoxTypes, Paths
  <2>2. Files0(r) \in SUBSET Files
    BY <2>1 DEF Files0, BoxInv, BoxTypes
  <2>3. box' = SetFiles(box, Files0(r), r, r, r) /\ diffs' = IF Resets(box, Files0(r), r, r) THEN {} ELSE diffs
    BY <1>1, <1>5 DEF Fill
  <2> QED BY <1>1, <1>2, <1>3, <2>1, <2>2, <2>3, Refilled DEF BoxInv
<1> QED BY <1>4, <1>5

(* A tree that becomes active has an empty list, in which nothing is open. *)
LEMMA SelectTreeKeeps == ASSUME BoxInv, SelectTree PROVE BoxInv'
<1> DEFINE t == Head(posted).arg
<1>1. /\ active' = t /\ UNCHANGED <<disk, listed, cursor, status, prompt, reads>>
      /\ Fill(box, {}, t, Parent[t], t)
  BY DEF SelectTree
<1>2. /\ posted' \in Seq(Post) /\ Carries(posted, posted') /\ t \in Trees
  BY TakesOther DEF SelectTree, Post
<1> HIDE DEF t
<1>3. BoxTypes'
  BY <1>1, <1>2 DEF BoxInv, BoxTypes
<1>4. t \in Paths /\ Parent[t] \in Repos /\ t # None /\ Parent[t] # None
  BY <1>2, ParentAssumption, PathsAssumption DEF Paths
<1>5. box' = SetFiles(box, {}, t, Parent[t], t) /\ diffs' = IF Resets(box, {}, t, Parent[t]) THEN {} ELSE diffs
  BY <1>1 DEF Fill
<1>6. ~Resets(box, {}, t, Parent[t]) => box.path = None
  BY KeepsTree DEF BoxInv
<1> QED BY <1>1, <1>2, <1>3, <1>4, <1>5, <1>6, Refilled DEF BoxInv

(* The tree a diff is read from is that of the list, unless it is another  *)
(* repository's own file.                                                  *)
LEMMA DiffTreeIs ==
  ASSUME BoxInv, InContext, NEW f, f \notin Pointers, box.owner # None, box.owner \in listed
  PROVE  DiffTree(box.owner, f) = box.of
<1>1. DiffTree(box.owner, f) = IF active # None THEN active ELSE box.owner
  BY DEF DiffTree, FileOpDir
<1>2. box.of # None /\ box.of \in Paths /\ (box.of \notin Trees => box.owner = box.of)
  BY DEF BoxInv, IsBox
<1>3. CASE box.of \in Trees
  BY <1>1, <1>2, <1>3 DEF InContext
<1>4. CASE box.of \notin Trees
  BY <1>1, <1>2, <1>4 DEF BoxInv, OwnContext, Paths
<1> QED BY <1>3, <1>4

LEMMA ShowDiffKeeps == ASSUME BoxInv, ShowDiff PROVE BoxInv'
<1> DEFINE a == Head(posted)
<1>1. /\ posted # <<>> /\ a.type = "ShowDiff" /\ posted' = Tail(posted)
      /\ UNCHANGED <<disk, listed, cursor, status, active, box, prompt, reads>>
      /\ diffs' = IF box.owner # a.owner \/ box.path # a.arg THEN diffs
                  ELSE IF a.owner \notin listed THEN {}
                  ELSE {[tree |-> DiffTree(a.owner, a.arg), file |-> a.arg]}
  BY DEF ShowDiff, Taking, Idle
<1>2. /\ a \in Post /\ posted' \in Seq(Post)
      /\ \A i \in DOMAIN posted : posted[i] # a => \E j \in DOMAIN posted' : posted'[j] = posted[i]
  BY <1>1, CarriesAll DEF BoxInv, BoxTypes
<1>3. a.owner \in Repos /\ a.arg \in Files
  BY <1>1, <1>2 DEF Post
<1> HIDE DEF a
<1>4. a.owner # None /\ a.arg # None
  BY <1>3, PathsAssumption DEF Paths
<1>5. BoxTypes' /\ IsBox(box)'
  BY <1>1, <1>2 DEF BoxInv, BoxTypes
<1>6. OwnContext' /\ (InContext' <=> InContext)
  BY <1>1 DEF BoxInv, OwnContext, InContext
<1>7. CASE box.owner # a.owner \/ box.path # a.arg
  <2>1. Action("ShowDiff", box.owner, box.path) # a
    BY <1>7 DEF Action
  <2>2. Coming => Coming'
    BY <1>1, <1>2, <1>7, <2>1 DEF Coming
  <2>3. LateDiffs' /\ OpenDiffs'
    BY <1>1, <1>6, <1>7, <2>2 DEF BoxInv, LateDiffs, OpenDiffs
  <2> QED BY <1>5, <1>6, <2>3 DEF BoxInv
<1>8. CASE box.owner = a.owner /\ box.path = a.arg /\ a.owner \notin listed
  <2>1. LateDiffs' /\ OpenDiffs'
    BY <1>1, <1>6, <1>8 DEF BoxInv, LateDiffs, OpenDiffs
  <2> QED BY <1>5, <1>6, <2>1 DEF BoxInv
<1>9. CASE box.owner = a.owner /\ box.path = a.arg /\ a.owner \in listed
  <2> DEFINE t == [tree |-> DiffTree(a.owner, a.arg), file |-> a.arg]
  <2>1. diffs' = {t} /\ t.file = box.path /\ t.tree = DiffTree(box.owner, t.file)
    BY <1>1, <1>9
  <2> HIDE DEF t
  <2>2. LateDiffs'
    <3>1. InContext /\ t.file \notin Pointers => t.tree = box.of
      BY <1>4, <1>9, <2>1, DiffTreeIs
    <3> QED BY <1>1, <1>4, <1>6, <1>9, <2>1, <3>1 DEF LateDiffs
  <2>3. Coming'
    BY <1>1, <2>1 DEF Coming
  <2>4. OpenDiffs'
    BY <1>1, <1>6, <2>3 DEF BoxInv, OpenDiffs
  <2> QED BY <1>5, <1>6, <2>2, <2>4 DEF BoxInv
<1> QED BY <1>7, <1>8, <1>9

(* A list filled with the files of a tree of a listed repository.          *)
LEMMA FilledBox ==
  ASSUME NEW b, IsBox(b), NEW files \in SUBSET Files, NEW of \in Paths, NEW owner \in Repos,
         of \notin Trees => owner = of, NEW c, c = SetFiles(b, files, of, owner, of)
  PROVE  /\ IsBox(c) /\ c.owner = owner /\ c.files = files
         /\ Resets(b, files, of, owner) => c.path = None
         /\ ~Resets(b, files, of, owner) => c.path = b.path
<1>1. of # None /\ owner # None
  BY PathsAssumption DEF Paths
<1>2. of \in Paths \cup {None}
  OBVIOUS
<1>3. owner \in Repos \cup {None}
  OBVIOUS
<1>4. of = None <=> owner = None
  BY <1>1
<1>5. IsBox(SetFiles(b, files, of, owner, of))
  BY <1>2, <1>3, <1>4, SetFilesIs
<1>6. /\ SetFiles(b, files, of, owner, of).owner = owner
      /\ SetFiles(b, files, of, owner, of).files = files
  BY <1>2, <1>3, <1>4, SetFilesIs
<1>7. IF Resets(b, files, of, owner)
      THEN SetFiles(b, files, of, owner, of).path = None
      ELSE SetFiles(b, files, of, owner, of).path = b.path
  BY <1>2, <1>3, <1>4, SetFilesIs
<1> QED BY <1>5, <1>6, <1>7

(* Files that were read fill the list, and the open diff is asked again.   *)
LEMMA AppliedKeeps ==
  ASSUME BoxInv, NEW files \in SUBSET Files, NEW of \in Paths, NEW owner \in Repos, of \notin Trees => owner = of,
         Applied(files, of, owner), UNCHANGED <<listed, active>>, of \in Repos \ Trees => active = None
  PROVE  IsBox(box)' /\ LateDiffs' /\ OpenDiffs' /\ OwnContext' /\ posted' \in Seq(Post)
<1> DEFINE b == SetFiles(box, files, of, owner, of)
<1>1. /\ box' = b /\ diffs' = IF Resets(box, files, of, owner) \/ b.path # None THEN {} ELSE diffs
      /\ posted' = IF b.path = None \/ b.owner = None THEN posted
                   ELSE Append(posted, Action("ShowDiff", b.owner, b.path))
  BY DEF Applied, RefreshDiff
<1>2. of # None /\ owner # None
  BY PathsAssumption DEF Paths
<1>3. IsBox(box) /\ posted \in Seq(Post)
  BY DEF BoxInv, BoxTypes
<1>4. /\ IsBox(b) /\ b.owner = owner /\ b.files = files
      /\ Resets(box, files, of, owner) => b.path = None
      /\ ~Resets(box, files, of, owner) => b.path = box.path
  <2> HIDE DEF b
  <2>1. b = SetFiles(box, files, of, owner, of)
    BY DEF b
  <2> QED BY <1>3, <2>1, FilledBox
<1> HIDE DEF b
<1> DEFINE m == Action("ShowDiff", owner, b.path)
<1>5. b.path # None => m \in Post
  <2>1. b.path # None => b.path \in Files
    BY <1>4 DEF IsBox
  <2> QED BY <2>1 DEF Action, Post
<1>6. posted' = IF b.path = None THEN posted ELSE Append(posted, m)
  BY <1>1, <1>2, <1>4
<1> HIDE DEF m
<1>7. posted' \in Seq(Post)
  BY <1>3, <1>5, <1>6, CarriesAll
<1>8. \/ diffs' = diffs /\ Carries(posted, posted')
      \/ \E j \in DOMAIN posted' : posted'[j] = Action("ShowDiff", owner, box.path)
      \/ Resets(box, files, of, owner)
  <2>1. CASE ~Resets(box, files, of, owner) /\ b.path = None
    BY <1>1, <1>3, <1>6, <2>1, CarriesAll
  <2>2. CASE ~Resets(box, files, of, owner) /\ b.path # None
    <3>1. \E j \in DOMAIN posted' : posted'[j] = m
      BY <1>3, <1>5, <1>6, <2>2, CarriesAll
    <3> QED BY <1>4, <2>2, <3>1 DEF m
  <2> QED BY <2>1, <2>2
<1>9. box' = SetFiles(box, files, of, owner, of)
  BY <1>1 DEF b
<1>10. diffs' \in {{}, diffs} /\ (Resets(box, files, of, owner) => diffs' = {})
  BY <1>1
<1> QED BY <1>2, <1>7, <1>8, <1>9, <1>10, Refilled

LEMMA ReportsKeep == ASSUME BoxInv, NEW t \in reads, StatusUpdated(t) \/ WorktreeFilesLoaded(t) PROVE BoxInv'
<1>1. /\ t.path \in Paths /\ t.files \in SUBSET Files /\ reads' \subseteq reads
      /\ UNCHANGED <<disk, listed, cursor, active, prompt>>
  BY DEF StatusUpdated, WorktreeFilesLoaded, BoxInv, BoxTypes
<1>2. status' \in [Repos -> (SUBSET Files) \cup {None}]
  BY <1>1 DEF StatusUpdated, WorktreeFilesLoaded, BoxInv, BoxTypes
<1>3. CASE UNCHANGED <<box, diffs, posted>>
  <2>1. BoxTypes'
    BY <1>1, <1>2, <1>3 DEF BoxInv, BoxTypes
  <2>2. Carries(posted, posted')
    BY <1>3, CarriesAll DEF BoxInv, BoxTypes
  <2> QED BY <1>1, <1>3, <2>1, <2>2, Steady DEF BoxInv
<1>4. ASSUME NEW owner \in Repos, Applied(t.files, t.path, owner), t.path \notin Trees => owner = t.path,
             t.path \in Repos \ Trees => active = None
      PROVE  BoxInv'
  <2>1. IsBox(box)' /\ LateDiffs' /\ OpenDiffs' /\ OwnContext' /\ posted' \in Seq(Post)
    BY <1>1, <1>4, AppliedKeeps
  <2>2. BoxTypes'
    BY <1>1, <1>2, <2>1 DEF BoxInv, BoxTypes
  <2> QED BY <2>1, <2>2 DEF BoxInv
<1>5. CASE StatusUpdated(t)
  BY <1>3, <1>4, <1>5 DEF StatusUpdated
<1>6. CASE WorktreeFilesLoaded(t)
  BY <1>3, <1>4, <1>6, ParentAssumption DEF WorktreeFilesLoaded
<1> QED BY <1>5, <1>6

(* A diff that arrives is of the chosen file.                              *)
LEMMA DiffLoadedKeeps == ASSUME BoxInv, NEW t \in diffs, DiffLoaded(t) PROVE BoxInv'
<1>1. /\ diffs' = diffs \ {t} /\ box' = [box EXCEPT !.diff = t]
      /\ UNCHANGED <<disk, listed, cursor, status, active, prompt, posted, reads>>
  BY DEF DiffLoaded
<1>2. box' = [of |-> box.of, owner |-> box.owner, name |-> box.name, files |-> box.files, sel |-> box.sel,
              search |-> box.search, query |-> box.query, path |-> box.path, diff |-> t]
  BY <1>1 DEF BoxInv, IsBox
<1>3. box.path # None /\ t.file = box.path /\ (InContext /\ t.file \notin Pointers => t.tree = box.of)
  BY DEF BoxInv, LateDiffs
<1>4. InContext' <=> InContext
  BY <1>1, <1>2 DEF InContext
<1>5. BoxTypes' /\ IsBox(box)'
  BY <1>1, <1>2, <1>3 DEF BoxInv, BoxTypes, IsBox
<1>6. LateDiffs' /\ OwnContext'
  BY <1>1, <1>2, <1>4 DEF BoxInv, LateDiffs, OwnContext
<1>7. OpenDiffs'
  BY <1>2, <1>3, <1>4 DEF OpenDiffs
<1> QED BY <1>5, <1>6, <1>7 DEF BoxInv

LEMMA BoxStepInv == BoxInv /\ [BoxNext]_boxVars => BoxInv'
<1> SUFFICES ASSUME BoxInv, [BoxNext]_boxVars PROVE BoxInv'
  OBVIOUS
<1>1. CASE UNCHANGED boxVars
  BY <1>1 DEF boxVars, BoxInv, BoxTypes, IsBox, LateDiffs, OpenDiffs, OwnContext, InContext, Coming
<1>2. CASE \/ MoveCursor \/ OpenSubmodule \/ OpenDiff \/ CloseDiff \/ TypeSearch \/ StepFile \/ Ask \/ Answer
  BY <1>2, MoveCursorKeeps, OpenSubmoduleKeeps, OpenDiffKeeps, CloseDiffKeeps, TypeSearchKeeps,
     StepFileKeeps, AskKeeps, AnswerKeeps
<1>3. CASE RemoveWorktree \/ RemoveRepo \/ Edit \/ \E r \in Repos : Vanish(r)
  BY <1>3, RemoveWorktreeKeeps, RemoveRepoKeeps, EditKeeps, VanishKeeps
<1>4. CASE PollLocal \/ \E p \in Paths : Read(p)
  BY <1>4, PollKeeps
<1>5. CASE Handle
  BY <1>5, SelectRepoKeeps, SelectTreeKeeps, ShowDiffKeeps, DiscardKeeps DEF Handle
<1>6. CASE Reports \/ \E t \in diffs : DiffLoaded(t)
  BY <1>6, ReportsKeep, DiffLoadedKeeps DEF Reports
<1> QED BY <1>1, <1>2, <1>3, <1>4, <1>5, <1>6 DEF BoxNext

(* However late statuses and diffs report and whatever is removed, edited  *)
(* or discarded meanwhile, a diff over the list is of the chosen file or   *)
(* about to be replaced, that file is in the list, and the diff was read   *)
(* in the tree the list shows (file_list, start_diff).                     *)
THEOREM DiffAlwaysOfBox == BoxSpec => []DiffIsOfBox
<1>1. BoxInv => DiffIsOfBox
  BY DEF BoxInv, IsBox, OpenDiffs, DiffIsOfBox
<1> QED BY <1>1, BoxInitInv, BoxStepInv, PTL DEF BoxSpec

-----------------------------------------------------------------------------
(* The commit detail (CommitDetail).                                       *)

Msg ==
  [type : {"ShowCommitFiles", "CommitFilesLoaded", "GraphMenu"}, oid : Commits, file : {None}]
  \cup [type : {"ShowCommitDiff", "CommitDiffLoaded"}, oid : Commits, file : Nat]
  \cup {Passed} \cup {Act("CommitDiffSettled", None, None)}

IsFiles(m) == m.type \in {"ShowCommitFiles", "CommitFilesLoaded"}
IsDiff(m)  == m.type \in {"ShowCommitDiff", "CommitDiffLoaded"}
Opens(m)   == IsFiles(m) \/ m.type = "GraphMenu"

Sent(ch) == {ch[i] : i \in DOMAIN ch}
Under    == Sent(channel) \cup fetches

(* The highlight moved and its diff was not asked for yet.                 *)
Undecided == settling \/ \E m \in Sent(channel) : m.type = "CommitDiffSettled"

(* No files are handled before a diff that was asked for.                  *)
DiffsFirst(ch) ==
  \A i, j \in DOMAIN ch : i < j /\ ch[i].type = "CommitFilesLoaded" => ch[j].type # "ShowCommitDiff"

IsDetail(d) ==
  /\ d = [oid |-> d.oid, sel |-> d.sel, query |-> d.query, searching |-> d.searching,
          focused |-> d.focused, diff |-> d.diff]
  /\ d.oid \in Commits /\ d.query \in SUBSET Nat /\ d.searching \in BOOLEAN /\ d.focused \in BOOLEAN
  /\ d.diff \in [oid : Commits, file : Nat] \cup {None}
  /\ d.sel # None => d.sel \in Shown(d)

-----------------------------------------------------------------------------
(* What the channel holds.                                                 *)

LEMMA MessageFacts ==
  /\ Passed \in Msg /\ Passed.type = "Passed"
  /\ Act("CommitDiffSettled", None, None) \in Msg
  /\ \A c \in Commits, type \in {"ShowCommitFiles", "CommitFilesLoaded", "GraphMenu"} : Act(type, c, None) \in Msg
  /\ \A c \in Commits, f \in Nat, type \in {"ShowCommitDiff", "CommitDiffLoaded"} : Act(type, c, f) \in Msg
BY DEF Msg, Passed, Act

LEMMA AppendSent ==
  ASSUME NEW ch \in Seq(Msg), NEW m \in Msg, m.type # "ShowCommitDiff" \/ \A x \in Sent(ch) : x.type # "CommitFilesLoaded"
  PROVE  /\ Append(ch, m) \in Seq(Msg) /\ Sent(Append(ch, m)) = Sent(ch) \cup {m}
         /\ DiffsFirst(ch) => DiffsFirst(Append(ch, m))
<1>1. /\ Append(ch, m) \in Seq(Msg) /\ Len(Append(ch, m)) = Len(ch) + 1
      /\ \A i \in 1..Len(ch) : Append(ch, m)[i] = ch[i]
      /\ Append(ch, m)[Len(ch) + 1] = m
  BY AppendProperties
<1>2. DOMAIN ch = 1..Len(ch) /\ DOMAIN Append(ch, m) = 1..(Len(ch) + 1) /\ Len(ch) \in Nat
  BY <1>1
<1>3. Sent(Append(ch, m)) = Sent(ch) \cup {m}
  BY <1>1, <1>2 DEF Sent
<1>4. DiffsFirst(ch) => DiffsFirst(Append(ch, m))
  <2> SUFFICES ASSUME DiffsFirst(ch), NEW i \in 1..(Len(ch) + 1), NEW j \in 1..(Len(ch) + 1), i < j,
                      Append(ch, m)[i].type = "CommitFilesLoaded"
               PROVE  Append(ch, m)[j].type # "ShowCommitDiff"
    BY <1>2 DEF DiffsFirst
  <2>1. i \in 1..Len(ch) /\ (j \in 1..Len(ch) \/ j = Len(ch) + 1)
    BY <1>2
  <2>2. ch[i].type = "CommitFilesLoaded" /\ ch[i] \in Sent(ch)
    BY <1>1, <1>2, <2>1 DEF Sent
  <2> QED BY <1>1, <1>2, <2>1, <2>2 DEF DiffsFirst
<1> QED BY <1>1, <1>3, <1>4

LEMMA TailSent ==
  ASSUME NEW ch \in Seq(Msg), ch # <<>>
  PROVE  /\ Tail(ch) \in Seq(Msg) /\ Head(ch) \in Msg /\ Sent(ch) = Sent(Tail(ch)) \cup {Head(ch)}
         /\ DiffsFirst(ch) => DiffsFirst(Tail(ch))
         /\ DiffsFirst(ch) /\ Head(ch).type = "CommitFilesLoaded" => \A m \in Sent(Tail(ch)) : m.type # "ShowCommitDiff"
<1>1. /\ Len(Tail(ch)) = Len(ch) - 1 /\ \A j \in 1..Len(Tail(ch)) : Tail(ch)[j] = ch[j + 1]
      /\ Tail(ch) \in Seq(Msg) /\ Head(ch) \in Msg
  BY HeadTailProperties
<1>2. /\ DOMAIN ch = 1..Len(ch) /\ DOMAIN Tail(ch) = 1..(Len(ch) - 1)
      /\ Len(ch) \in Nat /\ Len(ch) # 0 /\ Head(ch) = ch[1]
  BY <1>1
<1>3. \A j \in 1..(Len(ch) - 1) : Tail(ch)[j] = ch[j + 1] /\ j + 1 \in 1..Len(ch)
  BY <1>1, <1>2
<1>4. \A i \in 1..Len(ch) : i = 1 \/ (i - 1 \in 1..(Len(ch) - 1) /\ Tail(ch)[i - 1] = ch[i])
  <2> SUFFICES ASSUME NEW i \in 1..Len(ch), i # 1 PROVE i - 1 \in 1..(Len(ch) - 1) /\ Tail(ch)[i - 1] = ch[i]
    OBVIOUS
  <2>1. i - 1 \in 1..(Len(ch) - 1) /\ (i - 1) + 1 = i
    BY <1>2
  <2> QED BY <1>3, <2>1
<1>5. Sent(ch) = Sent(Tail(ch)) \cup {Head(ch)}
  <2>1. Sent(ch) \subseteq Sent(Tail(ch)) \cup {Head(ch)}
    BY <1>2, <1>4 DEF Sent
  <2>2. Sent(Tail(ch)) \cup {Head(ch)} \subseteq Sent(ch)
    BY <1>2, <1>3 DEF Sent
  <2> QED BY <2>1, <2>2
<1>6. DiffsFirst(ch) => DiffsFirst(Tail(ch))
  <2> SUFFICES ASSUME DiffsFirst(ch), NEW i \in 1..(Len(ch) - 1), NEW j \in 1..(Len(ch) - 1), i < j,
                      Tail(ch)[i].type = "CommitFilesLoaded"
               PROVE  Tail(ch)[j].type # "ShowCommitDiff"
    BY <1>2 DEF DiffsFirst
  <2>1. i + 1 < j + 1
    BY <1>2
  <2> QED BY <1>2, <1>3, <2>1 DEF DiffsFirst
<1>7. ASSUME DiffsFirst(ch), Head(ch).type = "CommitFilesLoaded", NEW m \in Sent(Tail(ch))
      PROVE  m.type # "ShowCommitDiff"
  <2>1. PICK j \in 1..(Len(ch) - 1) : m = ch[j + 1]
    BY <1>2, <1>3, <1>7 DEF Sent
  <2>2. 1 < j + 1 /\ j + 1 \in 1..Len(ch) /\ 1 \in 1..Len(ch)
    BY <1>2
  <2> QED BY <1>2, <1>7, <2>1, <2>2 DEF DiffsFirst
<1> QED BY <1>1, <1>5, <1>6, <1>7

LEMMA PassingSent ==
  ASSUME NEW ch \in Seq(Msg), NEW types
  PROVE  /\ Passing(ch, types) \in Seq(Msg)
         /\ \A m \in Sent(Passing(ch, types)) : m = Passed \/ (m \in Sent(ch) /\ m.type \notin types)
         /\ \A m \in Sent(ch) : m.type \notin types => m \in Sent(Passing(ch, types))
         /\ DiffsFirst(ch) => DiffsFirst(Passing(ch, types))
<1> DEFINE p == Passing(ch, types)
<1>1. DOMAIN ch = 1..Len(ch) /\ Len(ch) \in Nat /\ \A i \in 1..Len(ch) : ch[i] \in Msg
  OBVIOUS
<1>2. p = [i \in 1..Len(ch) |-> IF ch[i].type \in types THEN Passed ELSE ch[i]]
  BY <1>1 DEF Passing
<1> HIDE DEF p
<1>3. p \in [1..Len(ch) -> Msg]
  BY <1>1, <1>2, MessageFacts
<1>4. p \in Seq(Msg)
  BY <1>1, <1>3, SeqDef
<1>5. DOMAIN p = DOMAIN ch /\ \A i \in DOMAIN ch : p[i] = IF ch[i].type \in types THEN Passed ELSE ch[i]
  BY <1>1, <1>2
<1>6. \A m \in Sent(p) : m = Passed \/ (m \in Sent(ch) /\ m.type \notin types)
  BY <1>5 DEF Sent
<1>7. \A m \in Sent(ch) : m.type \notin types => m \in Sent(p)
  BY <1>5 DEF Sent
<1>8. DiffsFirst(ch) => DiffsFirst(p)
  BY <1>5, MessageFacts DEF DiffsFirst
<1> QED BY <1>4, <1>6, <1>7, <1>8 DEF p

LEMMA DetailIsOpen == ASSUME NEW d, IsDetail(d) PROVE d # None
<1>1. d.sel \in Nat \cup {None}
  BY FileCountAssumption DEF IsDetail, Shown, AllFiles
<1>2. d \in Details
  BY <1>1 DEF IsDetail, Details
<1> QED BY <1>2, DetailAssumption

DetTypes ==
  /\ channel \in Seq(Msg)
  /\ fetches \subseteq {m \in Msg : m.type \in {"ShowCommitFiles", "ShowCommitDiff"}}
  /\ settling \in BOOLEAN /\ failed \in BOOLEAN /\ wanted \in Commits \cup {None}
  /\ detail # None => IsDetail(detail)

(* A diff that is open or under way is of the commit, if that has files.   *)
OneCommit ==
  detail # None /\ FileCount[detail.oid] # 0 =>
    /\ detail.diff # None => detail.diff.oid = detail.oid
    /\ \A m \in Under : IsDiff(m) => m.oid = detail.oid

(* A diff is asked for when the highlight has settled, and the debounce    *)
(* runs or has run, not both.                                              *)
AskedOnce ==
  /\ DiffsFirst(channel)
  /\ \A m \in Sent(channel) : m.type = "ShowCommitDiff" => ~Undecided
  /\ \A m \in Sent(channel) : m.type = "CommitDiffSettled" => ~settling

(* Once it has, what is under way is of the highlight; and that is shown   *)
(* if nothing is.                                                          *)
OfHighlight ==
  detail # None /\ detail.sel # None /\ ~Undecided =>
    /\ \A m \in Under : IsDiff(m) => m.oid = detail.oid /\ m.file = detail.sel
    /\ \/ failed
       \/ \E m \in Under : IsDiff(m) \/ Opens(m)
       \/ detail.diff = [oid |-> detail.oid, file |-> detail.sel]

(* While a click counts, no other commit is open or on its way, and its    *)
(* files are.                                                              *)
OfClick ==
  wanted # None =>
    /\ detail # None => detail.oid = wanted
    /\ \A m \in Under : Opens(m) => IsFiles(m) /\ m.oid = wanted
    /\ detail # None \/ failed \/ \E m \in Under : IsFiles(m)

DetInv == DetTypes /\ OneCommit /\ AskedOnce /\ OfHighlight /\ OfClick

LEMMA DetailInitInv == DetailInit => DetInv
<1> SUFFICES ASSUME DetailInit PROVE DetInv
  OBVIOUS
<1>1. /\ channel \in Seq(Msg) /\ Sent(channel) = {} /\ DiffsFirst(channel)
      /\ detail = None /\ wanted = None /\ fetches = {} /\ settling = FALSE /\ failed = FALSE
  BY DEF DetailInit, Sent, DiffsFirst
<1> QED BY <1>1 DEF DetInv, DetTypes, OneCommit, AskedOnce, OfHighlight, OfClick

(* The smallest match is one.                                              *)
LEMMA MatchIsShown == ASSUME NEW d, d.oid \in Commits PROVE MatchOf(d) # None => MatchOf(d) \in Shown(d)
<1> DEFINE S == Shown(d)
           Firsts == {1..f : f \in S}
<1>1. S \subseteq Nat
  BY FileCountAssumption DEF Shown, AllFiles
<1> HIDE DEF S
<1>2. CASE d.sel \in S \/ S = {}
  BY <1>2 DEF MatchOf, S
<1>3. CASE S # {} /\ d.sel \notin S
  <2>1. Firsts \subseteq FiniteSubsetsOf(Nat)
    <3> SUFFICES ASSUME NEW f \in S PROVE 1..f \in FiniteSubsetsOf(Nat)
      OBVIOUS
    <3>1. IsFiniteSet(1..f) /\ 1..f \subseteq Nat
      BY <1>1, FS_Interval
    <3> QED BY <3>1 DEF FiniteSubsetsOf
  <2>2. \E x \in Firsts : \A y \in Firsts : <<y, x>> \notin StrictSubsetOrdering(Nat)
    <3>1. Firsts # {}
      BY <1>3
    <3> HIDE DEF Firsts
    <3> QED BY <2>1, <3>1, FS_StrictSubsetOrderingWellFounded, WFMin
  <2>3. PICK f \in S : \A g \in S : <<1..g, 1..f>> \notin StrictSubsetOrdering(Nat)
    BY <2>2
  <2>4. ASSUME NEW g \in S PROVE f <= g
    <3> SUFFICES ASSUME g < f PROVE FALSE
      BY <1>1
    <3>1. 1..g \subseteq 1..f /\ f \in 1..f /\ f \notin 1..g /\ 1..f \subseteq Nat
      BY <1>1
    <3> QED BY <2>3, <3>1 DEF StrictSubsetOrdering
  <2>5. MatchOf(d) = CHOOSE h \in S : \A g \in S : h <= g
    BY <1>3 DEF MatchOf, S
  <2> QED BY <2>4, <2>5 DEF S
<1> QED BY <1>2, <1>3

LEMMA OpenedIs ==
  ASSUME NEW c \in Commits
  PROVE  /\ IsDetail(OpenedOn(c)) /\ OpenedOn(c).oid = c /\ OpenedOn(c).diff = None
         /\ FileCount[c] # 0 => OpenedOn(c).sel # None
BY FileCountAssumption DEF IsDetail, OpenedOn, Shown, AllFiles

LEMMA HasDiffIs == ASSUME NEW d, IsDetail(d) PROVE HasDiff(d) <=> d.sel # None
BY DetailIsOpen DEF HasDiff, IsDetail

(* A diff is asked for.                                                    *)
LEMMA ShowPosts ==
  ASSUME NEW ch \in Seq(Msg), DiffsFirst(ch), NEW d, IsDetail(d), d.sel # None, TryShowCommitDiff(d, ch),
         NEW ask, ask = Act("ShowCommitDiff", d.oid, d.sel)
  PROVE  /\ channel' \in Seq(Msg) /\ DiffsFirst(channel') /\ fetches' = {} /\ failed' = FALSE
         /\ ask \in Sent(channel') /\ ask.type = "ShowCommitDiff" /\ ask.oid = d.oid /\ ask.file = d.sel
         /\ \A m \in Sent(channel') :
              \/ m = ask \/ m.type = "Passed"
              \/ m \in Sent(ch) /\ m.type \notin {"CommitDiffSettled", "CommitFilesLoaded", "CommitDiffLoaded"}
<1>1. /\ channel' = Append(Unsettled(Unanswered(ch)), ask) /\ fetches' = {} /\ failed' = FALSE
  BY HasDiffIs DEF TryShowCommitDiff
<1>2. ask \in Msg /\ ask.type = "ShowCommitDiff" /\ ask.oid = d.oid /\ ask.file = d.sel
  <2>1. d.sel \in Nat /\ d.oid \in Commits
    BY FileCountAssumption DEF IsDetail, Shown, AllFiles
  <2> QED BY <2>1, MessageFacts DEF Act
<1> DEFINE a == Unanswered(ch)
           u == Unsettled(a)
<1>3. /\ a \in Seq(Msg) /\ DiffsFirst(a)
      /\ \A m \in Sent(a) : m = Passed \/ (m \in Sent(ch) /\ m.type \notin {"CommitFilesLoaded", "CommitDiffLoaded"})
  BY PassingSent DEF Unanswered
<1> HIDE DEF a
<1>4. /\ u \in Seq(Msg) /\ DiffsFirst(u)
      /\ \A m \in Sent(u) : m = Passed \/ (m \in Sent(a) /\ m.type \notin {"CommitDiffSettled"})
  BY <1>3, PassingSent DEF Unsettled
<1> HIDE DEF u
<1>5. \A m \in Sent(u) : m.type # "CommitFilesLoaded"
  BY <1>3, <1>4, MessageFacts
<1>6. Append(u, ask) \in Seq(Msg) /\ Sent(Append(u, ask)) = Sent(u) \cup {ask} /\ DiffsFirst(Append(u, ask))
  BY <1>2, <1>4, <1>5, AppendSent
<1>7. channel' = Append(u, ask)
  BY <1>1 DEF u, a
<1> QED BY <1>1, <1>2, <1>3, <1>4, <1>6, <1>7, MessageFacts

(* Nothing is asked for where nothing is highlighted.                      *)
LEMMA ShowNothing ==
  ASSUME NEW ch, NEW d, d = None \/ (IsDetail(d) /\ d.sel = None), TryShowCommitDiff(d, ch)
  PROVE  channel' = ch /\ UNCHANGED <<fetches, failed>>
BY DEF TryShowCommitDiff, HasDiff

(* The diff of the highlight is asked for.                                 *)
LEMMA ShowKeeps ==
  ASSUME NEW ch \in Seq(Msg), DiffsFirst(ch), \A m \in Sent(ch) : m.type # "ShowCommitDiff",
         NEW d, IsDetail(d), d.sel # None, TryShowCommitDiff(d, ch), detail' = d, settling' = FALSE,
         FileCount[d.oid] # 0 /\ d.diff # None => d.diff.oid = d.oid,
         wanted' \in Commits \cup {None},
         wanted' # None => d.oid = wanted' /\ \A m \in Sent(ch) : Opens(m) => IsFiles(m) /\ m.oid = wanted'
  PROVE  DetInv'
<1> DEFINE ask == Act("ShowCommitDiff", d.oid, d.sel)
<1>1. /\ channel' \in Seq(Msg) /\ DiffsFirst(channel') /\ fetches' = {} /\ failed' = FALSE
      /\ ask \in Sent(channel') /\ ask.type = "ShowCommitDiff" /\ ask.oid = d.oid /\ ask.file = d.sel
      /\ \A m \in Sent(channel') :
           \/ m = ask \/ m.type = "Passed"
           \/ m \in Sent(ch) /\ m.type \notin {"CommitDiffSettled", "CommitFilesLoaded", "CommitDiffLoaded"}
  BY ShowPosts
<1> HIDE DEF ask
<1>2. Under' = Sent(channel')
  BY <1>1 DEF Under
<1>3. \A m \in Sent(channel') : IsDiff(m) => m = ask
  BY <1>1 DEF IsDiff
<1>4. \A m \in Sent(channel') : m.type # "CommitDiffSettled"
  BY <1>1
<1>5. DetTypes'
  BY <1>1 DEF DetTypes
<1>6. OneCommit' /\ OfHighlight'
  BY <1>1, <1>2, <1>3 DEF OneCommit, OfHighlight, IsDiff
<1>7. AskedOnce'
  BY <1>1, <1>4 DEF AskedOnce, Undecided
<1>8. OfClick'
  BY <1>1, <1>2, DetailIsOpen DEF OfClick, Opens, IsFiles
<1> QED BY <1>5, <1>6, <1>7, <1>8 DEF DetInv

(* Files are asked for.                                                    *)
LEMMA AskPosts ==
  ASSUME NEW ch \in Seq(Msg), DiffsFirst(ch), NEW c \in Commits, AskFiles(c, ch)
  PROVE  /\ channel' \in Seq(Msg) /\ DiffsFirst(channel') /\ fetches' = {} /\ failed' = FALSE
         /\ \E m \in Sent(channel') : m.type = "ShowCommitFiles" /\ m.oid = c
         /\ \A m \in Sent(channel') :
              \/ m.type = "ShowCommitFiles" /\ m.oid = c
              \/ m.type = "Passed"
              \/ m \in Sent(ch) /\ m.type \notin {"CommitFilesLoaded", "CommitDiffLoaded"}
         /\ \A m \in Sent(ch) : m.type = "CommitDiffSettled" => m \in Sent(channel')
<1> DEFINE a == Unanswered(ch)
           m == Act("ShowCommitFiles", c, None)
<1>1. /\ channel' = Append(a, m) /\ fetches' = {} /\ failed' = FALSE
  BY DEF AskFiles
<1>2. m \in Msg /\ m.type = "ShowCommitFiles" /\ m.oid = c
  BY MessageFacts DEF Act
<1>3. /\ a \in Seq(Msg) /\ DiffsFirst(a)
      /\ \A x \in Sent(a) : x = Passed \/ (x \in Sent(ch) /\ x.type \notin {"CommitFilesLoaded", "CommitDiffLoaded"})
      /\ \A x \in Sent(ch) : x.type \notin {"CommitFilesLoaded", "CommitDiffLoaded"} => x \in Sent(a)
  BY PassingSent DEF Unanswered
<1> HIDE DEF a, m
<1>4. Append(a, m) \in Seq(Msg) /\ Sent(Append(a, m)) = Sent(a) \cup {m} /\ DiffsFirst(Append(a, m))
  BY <1>2, <1>3, AppendSent
<1> QED BY <1>1, <1>2, <1>3, <1>4, MessageFacts

(* When a key comes the channel holds results.                             *)
LEMMA InputFinds ==
  ASSUME Input
  PROVE  \A m \in Sent(channel) : m.type \in {"CommitFilesLoaded", "CommitDiffLoaded", "CommitDiffSettled", "Passed"}
BY DEF Input, Results, Sent

LEMMA ClickCommitKeeps == ASSUME DetInv, NEW c \in Commits, ClickCommit(c) PROVE DetInv'
<1>1. Input /\ detail' = None /\ wanted' = c /\ AskFiles(c, channel) /\ settling' = settling
  BY DEF ClickCommit
<1>2. channel \in Seq(Msg) /\ DiffsFirst(channel)
  BY DEF DetInv, DetTypes, AskedOnce
<1>3. /\ channel' \in Seq(Msg) /\ DiffsFirst(channel') /\ fetches' = {} /\ failed' = FALSE
      /\ \E m \in Sent(channel') : m.type = "ShowCommitFiles" /\ m.oid = c
      /\ \A m \in Sent(channel') :
           \/ m.type = "ShowCommitFiles" /\ m.oid = c
           \/ m.type = "Passed"
           \/ m \in Sent(channel) /\ m.type \notin {"CommitFilesLoaded", "CommitDiffLoaded"}
  BY <1>1, <1>2, AskPosts
<1>4. \A m \in Sent(channel) : m.type \in {"CommitFilesLoaded", "CommitDiffLoaded", "CommitDiffSettled", "Passed"}
  BY <1>1, InputFinds
<1>5. Under' = Sent(channel')
  BY <1>3 DEF Under
<1>6. DetTypes'
  BY <1>1, <1>3 DEF DetInv, DetTypes
<1>7. OneCommit' /\ OfHighlight'
  BY <1>1 DEF OneCommit, OfHighlight
<1>8. AskedOnce'
  BY <1>1, <1>3, <1>4 DEF DetInv, AskedOnce
<1>9. OfClick'
  BY <1>1, <1>3, <1>4, <1>5 DEF OfClick, Opens, IsFiles
<1> QED BY <1>6, <1>7, <1>8, <1>9 DEF DetInv

LEMMA MenuFilesKeeps == ASSUME DetInv, NEW c \in Commits, MenuFiles(c) PROVE DetInv'
<1> DEFINE m == Act("GraphMenu", c, None)
<1>1. /\ channel' = Append(channel, m) /\ wanted' = None
      /\ UNCHANGED <<detail, settling, fetches, failed>>
  BY DEF MenuFiles
<1>2. m \in Msg /\ m.type = "GraphMenu"
  BY MessageFacts DEF Act
<1> HIDE DEF m
<1>3. channel' \in Seq(Msg) /\ Sent(channel') = Sent(channel) \cup {m} /\ DiffsFirst(channel')
  BY <1>1, <1>2, AppendSent DEF DetInv, DetTypes, AskedOnce
<1>4. Under' = Under \cup {m} /\ (Undecided' <=> Undecided)
  BY <1>1, <1>2, <1>3 DEF Under, Undecided
<1>5. DetTypes' /\ OfClick'
  BY <1>1, <1>3 DEF DetInv, DetTypes, OfClick
<1>6. OneCommit' /\ OfHighlight'
  BY <1>1, <1>2, <1>4 DEF DetInv, OneCommit, OfHighlight, IsDiff, Opens
<1>7. AskedOnce'
  BY <1>1, <1>2, <1>3, <1>4 DEF DetInv, AskedOnce
<1> QED BY <1>5, <1>6, <1>7 DEF DetInv

LEMMA CloseDetailKeeps == ASSUME DetInv, CloseDetail PROVE DetInv'
<1> DEFINE a == Unanswered(channel)
<1>1. /\ detail' = None /\ wanted' = None /\ settling' = FALSE /\ fetches' = {}
      /\ channel' = Unsettled(a) /\ failed' = failed
  BY DEF CloseDetail
<1>2. a \in Seq(Msg) /\ DiffsFirst(a)
  BY PassingSent DEF DetInv, DetTypes, AskedOnce, Unanswered
<1> HIDE DEF a
<1>3. channel' \in Seq(Msg) /\ DiffsFirst(channel') /\ \A m \in Sent(channel') : m.type # "CommitDiffSettled"
  BY <1>1, <1>2, PassingSent, MessageFacts DEF Unsettled
<1>4. DetTypes' /\ OneCommit' /\ OfHighlight' /\ OfClick'
  BY <1>1, <1>3 DEF DetInv, DetTypes, OneCommit, OfHighlight, OfClick
<1>5. AskedOnce'
  BY <1>1, <1>3 DEF AskedOnce, Undecided
<1> QED BY <1>4, <1>5 DEF DetInv

(* The highlight moves: what was under way for it may still come.          *)
LEMMA FollowKeeps ==
  ASSUME DetInv, detail # None, Input, NEW d, IsDetail(d), d.oid = detail.oid, d.diff = detail.diff,
         NEW searching, Follow(d, searching)
  PROVE  DetInv'
<1> DEFINE a == IF searching THEN Unanswered(channel) ELSE channel
<1>1. /\ detail' = IF searching THEN [d EXCEPT !.diff = None] ELSE d
      /\ settling' = TRUE /\ wanted' = None /\ failed' = failed
      /\ fetches' = IF searching THEN {} ELSE fetches
      /\ channel' = Unsettled(a)
  BY DEF Follow
<1>2. a \in Seq(Msg) /\ DiffsFirst(a) /\ \A m \in Sent(a) : m = Passed \/ m \in Sent(channel)
  BY PassingSent DEF DetInv, DetTypes, AskedOnce, Unanswered
<1> HIDE DEF a
<1>3. /\ channel' \in Seq(Msg) /\ DiffsFirst(channel')
      /\ \A m \in Sent(channel') : m.type # "CommitDiffSettled" /\ (m = Passed \/ m \in Sent(channel))
  BY <1>1, <1>2, PassingSent, MessageFacts DEF Unsettled
<1>4. \A m \in Under' : m = Passed \/ m \in Under
  BY <1>1, <1>3 DEF Under
<1>5. /\ IsDetail(detail') /\ detail'.oid = detail.oid /\ detail'.diff \in {detail.diff, None}
  <2> DEFINE e == [d EXCEPT !.diff = None]
  <2>1. e = [oid |-> d.oid, sel |-> d.sel, query |-> d.query, searching |-> d.searching,
             focused |-> d.focused, diff |-> None]
    BY DEF IsDetail
  <2>2. IsDetail(e) /\ e.oid = d.oid /\ e.diff = None
    BY <2>1 DEF IsDetail, Shown
  <2> HIDE DEF e
  <2> QED BY <1>1, <2>2 DEF e
<1>6. \A m \in Sent(channel) : m.type # "ShowCommitDiff"
  BY InputFinds
<1>7. DetTypes'
  BY <1>1, <1>3, <1>5 DEF DetInv, DetTypes
<1>8. OneCommit'
  BY <1>4, <1>5, MessageFacts DEF DetInv, OneCommit, IsDiff
<1>9. OfHighlight' /\ OfClick'
  BY <1>1 DEF OfHighlight, OfClick, Undecided
<1>10. AskedOnce'
  BY <1>1, <1>3, <1>6, MessageFacts DEF AskedOnce
<1> QED BY <1>7, <1>8, <1>9, <1>10 DEF DetInv

LEMMA MoveHighlightKeeps == ASSUME DetInv, MoveHighlight PROVE DetInv'
<1>1. PICK f \in IF Shown(detail) = {} THEN {detail.sel, None} ELSE Shown(detail), focus \in {detail.focused, FALSE} :
        Follow([detail EXCEPT !.sel = f, !.focused = focus], detail.searching)
  BY DEF MoveHighlight
<1> DEFINE d == [detail EXCEPT !.sel = f, !.focused = focus]
<1>2. detail # None /\ Input /\ IsDetail(detail)
  BY DEF MoveHighlight, DetInv, DetTypes
<1>3. d = [oid |-> detail.oid, sel |-> f, query |-> detail.query, searching |-> detail.searching,
           focused |-> focus, diff |-> detail.diff]
  <2>1. PICK e : e = [detail EXCEPT !.sel = f, !.focused = focus]
    OBVIOUS
  <2>2. e = [oid |-> detail.oid, sel |-> f, query |-> detail.query, searching |-> detail.searching,
             focused |-> focus, diff |-> detail.diff]
    BY <1>2, <2>1 DEF IsDetail
  <2> QED BY <2>1, <2>2
<1>4. Follow(d, detail.searching)
  BY <1>1
<1> HIDE DEF d
<1>5. Shown(d) = Shown(detail) /\ (f # None => f \in Shown(detail))
  BY <1>2, <1>3 DEF Shown, IsDetail
<1>6. IsDetail(d) /\ d.oid = detail.oid /\ d.diff = detail.diff
  BY <1>2, <1>3, <1>5 DEF IsDetail
<1> QED BY <1>2, <1>4, <1>6, FollowKeeps

(* Fields of the detail that no message depends on change.                 *)
LEMMA DetailSteady ==
  ASSUME DetInv, detail # None, IsDetail(detail'), detail'.oid = detail.oid, detail'.sel = detail.sel,
         detail'.diff = detail.diff, UNCHANGED <<settling, channel, fetches, wanted, failed>>
  PROVE  DetInv'
<1>1. Under' = Under /\ (Undecided' <=> Undecided) /\ Sent(channel)' = Sent(channel)
  BY DEF Under, Undecided
<1>2. DetTypes' /\ AskedOnce'
  BY <1>1 DEF DetInv, DetTypes, AskedOnce
<1>3. OneCommit' /\ OfHighlight'
  BY <1>1 DEF DetInv, OneCommit, OfHighlight
<1>4. OfClick'
  BY <1>1, DetailIsOpen DEF DetInv, OfClick
<1> QED BY <1>2, <1>3, <1>4 DEF DetInv

LEMMA StartSearchKeeps == ASSUME DetInv, StartSearch PROVE DetInv'
<1>1. /\ detail # None /\ IsDetail(detail)
      /\ detail' = [detail EXCEPT !.searching = TRUE, !.query = AllFiles(detail.oid)]
      /\ UNCHANGED <<settling, channel, fetches, wanted, failed>>
  BY DEF StartSearch, DetInv, DetTypes
<1>2. detail' = [oid |-> detail.oid, sel |-> detail.sel, query |-> AllFiles(detail.oid), searching |-> TRUE,
                 focused |-> detail.focused, diff |-> detail.diff]
  BY <1>1 DEF IsDetail
<1>3. IsDetail(detail')
  <2>1. AllFiles(detail.oid) \in SUBSET Nat
    BY <1>1, FileCountAssumption DEF IsDetail, AllFiles
  <2>2. Shown(detail) \subseteq Shown(detail')
    BY <1>2 DEF Shown
  <2> QED BY <1>1, <1>2, <2>1, <2>2 DEF IsDetail
<1> QED BY <1>1, <1>2, <1>3, DetailSteady

LEMMA TurnFocusKeeps == ASSUME DetInv, TurnFocus PROVE DetInv'
<1>1. /\ detail # None /\ IsDetail(detail)
      /\ detail' = [detail EXCEPT !.focused = ~@]
      /\ UNCHANGED <<settling, channel, fetches, wanted, failed>>
  BY DEF TurnFocus, DetInv, DetTypes
<1> DEFINE other == ~detail.focused
<1>2. detail' = [detail EXCEPT !.focused = other] /\ other \in BOOLEAN
  BY <1>1
<1> HIDE DEF other
<1>3. detail' = [oid |-> detail.oid, sel |-> detail.sel, query |-> detail.query, searching |-> detail.searching,
                 focused |-> other, diff |-> detail.diff]
  BY <1>1, <1>2 DEF IsDetail
<1>4. IsDetail(detail')
  BY <1>1, <1>2, <1>3 DEF IsDetail, Shown
<1> QED BY <1>1, <1>3, <1>4, DetailSteady

LEMMA TypeFileSearchKeeps == ASSUME DetInv, TypeFileSearch PROVE DetInv'
<1>1. PICK q \in FileQueries \cup {AllFiles(detail.oid)}, on \in BOOLEAN :
        LET d == [detail EXCEPT !.query = q, !.searching = on]
        IN Follow([d EXCEPT !.sel = MatchOf(d)], TRUE)
  BY DEF TypeFileSearch
<1> DEFINE d == [detail EXCEPT !.query = q, !.searching = on]
           e == [d EXCEPT !.sel = MatchOf(d)]
<1>2. detail # None /\ Input /\ IsDetail(detail) /\ Follow(e, TRUE)
  BY <1>1 DEF TypeFileSearch, DetInv, DetTypes
<1>3. d = [oid |-> detail.oid, sel |-> detail.sel, query |-> q, searching |-> on,
           focused |-> detail.focused, diff |-> detail.diff]
  <2>1. PICK x : x = [detail EXCEPT !.query = q, !.searching = on]
    OBVIOUS
  <2>2. x = [oid |-> detail.oid, sel |-> detail.sel, query |-> q, searching |-> on,
             focused |-> detail.focused, diff |-> detail.diff]
    BY <1>2, <2>1 DEF IsDetail
  <2> QED BY <2>1, <2>2
<1> HIDE DEF d
<1>4. e = [oid |-> detail.oid, sel |-> MatchOf(d), query |-> q, searching |-> on,
           focused |-> detail.focused, diff |-> detail.diff]
  BY <1>3
<1> HIDE DEF e
<1>5. e.sel # None => e.sel \in Shown(e)
  <2>1. Shown(e) = Shown(d) /\ d.oid \in Commits
    BY <1>2, <1>3, <1>4 DEF Shown, IsDetail
  <2> QED BY <1>4, <2>1, MatchIsShown
<1>6. IsDetail(e) /\ e.oid = detail.oid /\ e.diff = detail.diff
  BY <1>2, <1>4, <1>5, FileCountAssumption, DetailAssumption DEF IsDetail, AllFiles
<1> QED BY <1>2, <1>6, FollowKeeps

LEMMA ShowDiffNowKeeps == ASSUME DetInv, ShowDiffNow PROVE DetInv'
<1>1. /\ detail # None /\ IsDetail(detail) /\ Input /\ TryShowCommitDiff(detail, channel)
      /\ detail' = [detail EXCEPT !.focused = ~detail.searching \/ HasDiff(detail)]
      /\ settling' = (settling /\ ~HasDiff(detail)) /\ wanted' = None
  BY DEF ShowDiffNow, DetInv, DetTypes
<1> DEFINE focus == ~detail.searching \/ HasDiff(detail)
<1>2. detail' = [oid |-> detail.oid, sel |-> detail.sel, query |-> detail.query, searching |-> detail.searching,
                 focused |-> focus, diff |-> detail.diff]
  BY <1>1 DEF IsDetail
<1>3. focus \in BOOLEAN
  OBVIOUS
<1> HIDE DEF focus
<1>4. IsDetail(detail') /\ Shown(detail') = Shown(detail)
  BY <1>1, <1>2, <1>3 DEF IsDetail, Shown
<1>5. \A m \in Sent(channel) : m.type # "ShowCommitDiff"
  BY <1>1, InputFinds
<1>6. CASE detail.sel # None
  <2>1. HasDiff(detail)
    BY <1>1, <1>6, HasDiffIs
  <2>2. channel \in Seq(Msg) /\ DiffsFirst(channel) /\ settling' = FALSE
    BY <1>1, <2>1 DEF DetInv, DetTypes, AskedOnce
  <2>3. FileCount[detail.oid] # 0 /\ detail.diff # None => detail.diff.oid = detail.oid
    BY <1>1 DEF DetInv, OneCommit
  <2>4. TryShowCommitDiff(detail', channel)
    BY <1>1, <1>2, <1>4, <2>1, DetailIsOpen DEF TryShowCommitDiff, HasDiff
  <2> QED BY <1>1, <1>2, <1>4, <1>5, <1>6, <2>2, <2>3, <2>4, ShowKeeps
<1>7. CASE detail.sel = None
  <2>1. ~HasDiff(detail) /\ channel' = channel /\ UNCHANGED <<fetches, failed>>
    BY <1>1, <1>7, ShowNothing DEF HasDiff
  <2>2. settling' = settling
    BY <1>1, <2>1 DEF DetInv, DetTypes
  <2>3. Under' = Under /\ (Undecided' <=> Undecided) /\ Sent(channel') = Sent(channel)
    BY <2>1, <2>2 DEF Under, Undecided
  <2>4. DetTypes' /\ AskedOnce'
    BY <1>1, <1>4, <2>1, <2>2, <2>3 DEF DetInv, DetTypes, AskedOnce
  <2>5. OneCommit' /\ OfHighlight' /\ OfClick'
    BY <1>1, <1>2, <1>7, <2>3 DEF DetInv, OneCommit, OfHighlight, OfClick
  <2> QED BY <2>4, <2>5 DEF DetInv
<1> QED BY <1>6, <1>7

LEMMA DebounceEndsKeeps == ASSUME DetInv, DebounceEnds PROVE DetInv'
<1> DEFINE m == Act("CommitDiffSettled", None, None)
<1>1. /\ settling /\ settling' = FALSE /\ channel' = Append(channel, m)
      /\ UNCHANGED <<detail, fetches, wanted, failed>>
  BY DEF DebounceEnds
<1>2. m \in Msg /\ m.type = "CommitDiffSettled"
  BY MessageFacts DEF Act
<1> HIDE DEF m
<1>3. channel' \in Seq(Msg) /\ Sent(channel') = Sent(channel) \cup {m} /\ DiffsFirst(channel')
  BY <1>1, <1>2, AppendSent DEF DetInv, DetTypes, AskedOnce
<1>4. Under' = Under \cup {m} /\ Undecided /\ Undecided'
  BY <1>1, <1>2, <1>3 DEF Under, Undecided
<1>5. DetTypes' /\ OneCommit'
  BY <1>1, <1>2, <1>3, <1>4 DEF DetInv, DetTypes, OneCommit, IsDiff
<1>6. OfHighlight' /\ AskedOnce'
  BY <1>1, <1>2, <1>3, <1>4 DEF DetInv, OfHighlight, AskedOnce
<1>7. OfClick'
  BY <1>1, <1>2, <1>4 DEF DetInv, OfClick, Opens, IsFiles
<1> QED BY <1>5, <1>6, <1>7 DEF DetInv

LEMMA ReadEndsKeeps == ASSUME DetInv, NEW t \in fetches, ReadEnds(t) PROVE DetInv'
<1> DEFINE m == Act(IF t.type = "ShowCommitFiles" THEN "CommitFilesLoaded" ELSE "CommitDiffLoaded", t.oid, t.file)
<1>1. /\ fetches' = fetches \ {t} /\ channel' = Append(channel, m)
      /\ UNCHANGED <<detail, settling, wanted, failed>>
  BY DEF ReadEnds
<1>2. t \in Msg /\ t.type \in {"ShowCommitFiles", "ShowCommitDiff"}
  BY DEF DetInv, DetTypes
<1>3. /\ m \in Msg /\ m.type \in {"CommitFilesLoaded", "CommitDiffLoaded"}
      /\ m.oid = t.oid /\ m.file = t.file /\ (IsFiles(m) <=> IsFiles(t)) /\ (IsDiff(m) <=> IsDiff(t))
  BY <1>2 DEF Msg, Act, Passed, IsFiles, IsDiff
<1>4. Opens(m) <=> Opens(t)
  BY <1>2, <1>3 DEF Opens
<1> HIDE DEF m
<1>5. channel' \in Seq(Msg) /\ Sent(channel') = Sent(channel) \cup {m} /\ DiffsFirst(channel')
  BY <1>1, <1>3, AppendSent DEF DetInv, DetTypes, AskedOnce
<1>6. t \in Under /\ Under' = (Sent(channel) \cup {m}) \cup (fetches \ {t}) /\ (Undecided' <=> Undecided)
  BY <1>1, <1>3, <1>5 DEF Under, Undecided
<1>7. \A x \in Under : x = t \/ x \in Under'
  BY <1>6 DEF Under
<1>8. m \in Under' /\ \A x \in Under' : x = m \/ x \in Under
  BY <1>6 DEF Under
<1>9. DetTypes' /\ AskedOnce'
  BY <1>1, <1>3, <1>5, <1>6 DEF DetInv, DetTypes, AskedOnce
<1>10. OneCommit'
  BY <1>1, <1>3, <1>6, <1>8 DEF DetInv, OneCommit
<1>11. OfHighlight'
  BY <1>1, <1>3, <1>4, <1>6, <1>7, <1>8 DEF DetInv, OfHighlight
<1>12. OfClick'
  BY <1>1, <1>3, <1>4, <1>6, <1>7, <1>8 DEF DetInv, OfClick
<1> QED BY <1>9, <1>10, <1>11, <1>12 DEF DetInv

LEMMA ReadFailsKeeps == ASSUME DetInv, NEW t \in fetches, ReadFails(t) PROVE DetInv'
<1>1. fetches' = fetches \ {t} /\ failed' = TRUE /\ UNCHANGED <<detail, settling, channel, wanted>>
  BY DEF ReadFails
<1>2. Under' \subseteq Under /\ (Undecided' <=> Undecided)
  BY <1>1 DEF Under, Undecided
<1>3. DetTypes' /\ AskedOnce'
  BY <1>1, <1>2 DEF DetInv, DetTypes, AskedOnce
<1>4. OneCommit' /\ OfHighlight' /\ OfClick'
  BY <1>1, <1>2 DEF DetInv, OneCommit, OfHighlight, OfClick
<1> QED BY <1>3, <1>4 DEF DetInv

(* The first message of the channel and the others.                        *)
LEMMA HeadFacts ==
  ASSUME DetInv, NEW type, Next0(type), NEW h, h = Head(channel), NEW rest, rest = Tail(channel)
  PROVE  /\ h \in Msg /\ h.type = type /\ rest \in Seq(Msg) /\ Sent(channel) = Sent(rest) \cup {h} /\ DiffsFirst(rest)
         /\ type = "CommitFilesLoaded" => \A m \in Sent(rest) : m.type # "ShowCommitDiff"
BY TailSent DEF Next0, DetInv, DetTypes, AskedOnce

LEMMA ShowCommitKeeps == ASSUME DetInv, ShowCommit PROVE DetInv'
<1> DEFINE h == Head(channel)
           rest == Tail(channel)
<1>1. /\ Next0("ShowCommitFiles") \/ Next0("ShowCommitDiff")
      /\ fetches' = fetches \cup {h} /\ channel' = rest
      /\ UNCHANGED <<detail, settling, wanted, failed>>
  BY DEF ShowCommit
<1>2. /\ h \in Msg /\ h.type \in {"ShowCommitFiles", "ShowCommitDiff"}
      /\ rest \in Seq(Msg) /\ Sent(channel) = Sent(rest) \cup {h} /\ DiffsFirst(rest)
  BY <1>1, HeadFacts
<1> HIDE DEF h, rest
<1>3. Under' = Under /\ (Undecided' <=> Undecided)
  BY <1>1, <1>2 DEF Under, Undecided
<1>4. DetTypes' /\ AskedOnce'
  BY <1>1, <1>2, <1>3 DEF DetInv, DetTypes, AskedOnce
<1>5. OneCommit' /\ OfHighlight' /\ OfClick'
  BY <1>1, <1>3 DEF DetInv, OneCommit, OfHighlight, OfClick
<1> QED BY <1>4, <1>5 DEF DetInv

LEMMA GraphMenuFilesKeeps == ASSUME DetInv, GraphMenuFiles PROVE DetInv'
<1> DEFINE h == Head(channel)
           rest == Tail(channel)
<1>1. /\ Next0("GraphMenu") /\ AskFiles(h.oid, rest) /\ UNCHANGED <<detail, settling, wanted>>
  BY DEF GraphMenuFiles
<1>2. /\ h \in Msg /\ h.type = "GraphMenu" /\ rest \in Seq(Msg) /\ Sent(channel) = Sent(rest) \cup {h}
      /\ DiffsFirst(rest)
  BY <1>1, HeadFacts
<1>3. h.oid \in Commits
  BY <1>2 DEF Msg, Passed, Act
<1> HIDE DEF h, rest
<1>4. /\ channel' \in Seq(Msg) /\ DiffsFirst(channel') /\ fetches' = {} /\ failed' = FALSE
      /\ \E m \in Sent(channel') : m.type = "ShowCommitFiles" /\ m.oid = h.oid
      /\ \A m \in Sent(channel') :
           \/ m.type = "ShowCommitFiles" /\ m.oid = h.oid
           \/ m.type = "Passed"
           \/ m \in Sent(rest) /\ m.type \notin {"CommitFilesLoaded", "CommitDiffLoaded"}
      /\ \A m \in Sent(rest) : m.type = "CommitDiffSettled" => m \in Sent(channel')
  BY <1>1, <1>2, <1>3, AskPosts
<1>5. Under' = Sent(channel') /\ h \in Under /\ Sent(rest) \subseteq Under
  BY <1>2, <1>4 DEF Under
<1>6. Undecided' <=> Undecided
  BY <1>1, <1>2, <1>4 DEF Undecided
<1>7. DetTypes' /\ AskedOnce'
  BY <1>1, <1>2, <1>4, <1>6 DEF DetInv, DetTypes, AskedOnce
<1>8. OneCommit' /\ OfHighlight'
  BY <1>1, <1>4, <1>5, <1>6 DEF DetInv, OneCommit, OfHighlight, IsDiff, Opens, IsFiles
<1>9. wanted' = None
  BY <1>1, <1>2, <1>5 DEF DetInv, OfClick, Opens, IsFiles
<1>10. OfClick'
  BY <1>9 DEF OfClick
<1> QED BY <1>7, <1>8, <1>10 DEF DetInv

LEMMA CommitDiffSettledKeeps == ASSUME DetInv, CommitDiffSettled PROVE DetInv'
<1> DEFINE h == Head(channel)
           rest == Tail(channel)
<1>1. /\ Next0("CommitDiffSettled") /\ TryShowCommitDiff(detail, rest) /\ UNCHANGED <<detail, settling, wanted>>
  BY DEF CommitDiffSettled
<1>2. /\ h \in Msg /\ h.type = "CommitDiffSettled" /\ rest \in Seq(Msg) /\ Sent(channel) = Sent(rest) \cup {h}
      /\ DiffsFirst(rest)
  BY <1>1, HeadFacts
<1> HIDE DEF h, rest
<1>3. ~settling /\ settling \in BOOLEAN /\ \A m \in Sent(rest) : m.type # "ShowCommitDiff"
  BY <1>2 DEF DetInv, DetTypes, AskedOnce, Undecided
<1>4. CASE detail # None /\ detail.sel # None
  <2>1. IsDetail(detail) /\ (FileCount[detail.oid] # 0 /\ detail.diff # None => detail.diff.oid = detail.oid)
    BY <1>4 DEF DetInv, DetTypes, OneCommit
  <2>2. wanted \in Commits \cup {None}
    BY DEF DetInv, DetTypes
  <2>3. wanted # None => detail.oid = wanted /\ \A m \in Sent(rest) : Opens(m) => IsFiles(m) /\ m.oid = wanted
    BY <1>2, <1>4 DEF DetInv, OfClick, Under
  <2> QED BY <1>1, <1>2, <1>3, <1>4, <2>1, <2>2, <2>3, ShowKeeps
<1>5. CASE detail = None \/ detail.sel = None
  <2>1. channel' = rest /\ UNCHANGED <<fetches, failed>>
    BY <1>1, <1>5, ShowNothing DEF DetInv, DetTypes
  <2>2. Under = Under' \cup {h}
    BY <1>2, <2>1 DEF Under
  <2>3. DetTypes' /\ OneCommit'
    BY <1>1, <1>2, <2>1, <2>2 DEF DetInv, DetTypes, OneCommit
  <2>4. OfHighlight' /\ AskedOnce'
    BY <1>1, <1>2, <1>3, <1>5, <2>1, <2>2 DEF DetInv, OfHighlight, AskedOnce
  <2>5. OfClick'
    BY <1>1, <1>2, <2>1, <2>2 DEF DetInv, OfClick, IsFiles
  <2> QED BY <2>3, <2>4, <2>5 DEF DetInv
<1> QED BY <1>4, <1>5

LEMMA CommitFilesLoadedKeeps == ASSUME DetInv, CommitFilesLoaded PROVE DetInv'
<1> DEFINE h == Head(channel)
           rest == Tail(channel)
           d == OpenedOn(h.oid)
<1>1. /\ Next0("CommitFilesLoaded") /\ detail' = d /\ TryShowCommitDiff(d, rest)
      /\ settling' = (settling /\ ~HasDiff(d)) /\ wanted' = wanted
  BY DEF CommitFilesLoaded
<1>2. /\ h \in Msg /\ h.type = "CommitFilesLoaded" /\ rest \in Seq(Msg) /\ Sent(channel) = Sent(rest) \cup {h}
      /\ DiffsFirst(rest) /\ \A m \in Sent(rest) : m.type # "ShowCommitDiff"
  BY <1>1, HeadFacts
<1>3. h.oid \in Commits
  BY <1>2 DEF Msg, Passed, Act
<1>4. IsDetail(d) /\ d.oid = h.oid /\ d.diff = None /\ (FileCount[h.oid] # 0 => d.sel # None)
  BY <1>3, OpenedIs
<1> HIDE DEF h, rest, d
<1>5. h \in Under /\ Sent(rest) \subseteq Under
  BY <1>2 DEF Under
<1>6. wanted # None => d.oid = wanted /\ \A m \in Sent(rest) : Opens(m) => IsFiles(m) /\ m.oid = wanted
  BY <1>2, <1>4, <1>5 DEF DetInv, OfClick, Opens, IsFiles
<1>7. CASE d.sel # None
  <2>1. HasDiff(d) /\ settling' = FALSE /\ wanted' \in Commits \cup {None}
    BY <1>1, <1>4, <1>7, HasDiffIs DEF DetInv, DetTypes
  <2> QED BY <1>1, <1>2, <1>4, <1>6, <1>7, <2>1, ShowKeeps
<1>8. CASE d.sel = None
  <2>1. ~HasDiff(d) /\ channel' = rest /\ UNCHANGED <<fetches, failed>>
    BY <1>1, <1>4, <1>8, ShowNothing DEF HasDiff
  <2>2. settling' = settling
    BY <1>1, <2>1 DEF DetInv, DetTypes
  <2>3. Under = Under' \cup {h} /\ (Undecided' <=> Undecided)
    BY <1>2, <2>1, <2>2 DEF Under, Undecided
  <2>4. DetTypes' /\ AskedOnce'
    BY <1>1, <1>2, <1>4, <2>1, <2>2, <2>3 DEF DetInv, DetTypes, AskedOnce
  <2>5. OneCommit' /\ OfHighlight'
    BY <1>1, <1>4, <1>8 DEF OneCommit, OfHighlight
  <2>6. OfClick'
    BY <1>1, <1>4, <1>6, <2>3, DetailIsOpen DEF DetInv, OfClick
  <2> QED BY <2>4, <2>5, <2>6 DEF DetInv
<1> QED BY <1>7, <1>8

LEMMA CommitDiffLoadedKeeps == ASSUME DetInv, CommitDiffLoaded PROVE DetInv'
<1> DEFINE h == Head(channel)
           rest == Tail(channel)
           diff == [oid |-> h.oid, file |-> h.file]
<1>1. /\ Next0("CommitDiffLoaded") /\ channel' = rest
      /\ detail' = IF detail = None THEN None ELSE [detail EXCEPT !.diff = diff]
      /\ UNCHANGED <<settling, fetches, wanted, failed>>
  BY DEF CommitDiffLoaded
<1>2. /\ h \in Msg /\ h.type = "CommitDiffLoaded" /\ rest \in Seq(Msg) /\ Sent(channel) = Sent(rest) \cup {h}
      /\ DiffsFirst(rest)
  BY <1>1, HeadFacts
<1>3. diff \in [oid : Commits, file : Nat] /\ diff.oid = h.oid /\ diff.file = h.file
  BY <1>2 DEF Msg, Passed, Act
<1>9. diff = [oid |-> h.oid, file |-> h.file]
  OBVIOUS
<1> HIDE DEF h, rest, diff
<1>4. Under = Under' \cup {h} /\ (Undecided' <=> Undecided)
  BY <1>1, <1>2 DEF Under, Undecided
<1>5. OfClick' /\ (detail' = None <=> detail = None) /\ (detail # None => IsDetail(detail')
        /\ detail'.oid = detail.oid /\ detail'.sel = detail.sel /\ detail'.diff = diff)
  <2>1. CASE detail = None
    <3>1. OfClick'
      BY <1>1, <1>2, <1>4, <2>1 DEF DetInv, OfClick, IsFiles
    <3> QED BY <1>1, <2>1, <3>1
  <2>2. CASE detail # None
    <3>1. detail' = [oid |-> detail.oid, sel |-> detail.sel, query |-> detail.query, searching |-> detail.searching,
                     focused |-> detail.focused, diff |-> diff]
      BY <1>1, <2>2 DEF DetInv, DetTypes, IsDetail
    <3>2. IsDetail(detail') /\ detail'.oid = detail.oid /\ detail'.sel = detail.sel /\ detail'.diff = diff
      BY <1>3, <2>2, <3>1 DEF DetInv, DetTypes, IsDetail, Shown
    <3>3. OfClick'
      BY <1>1, <1>2, <1>4, <2>2, <3>2, DetailIsOpen DEF DetInv, OfClick, IsFiles
    <3> QED BY <2>2, <3>2, <3>3, DetailIsOpen
  <2> QED BY <2>1, <2>2
<1>6. DetTypes' /\ AskedOnce'
  BY <1>1, <1>2, <1>4, <1>5 DEF DetInv, DetTypes, AskedOnce
<1>7. OneCommit'
  BY <1>2, <1>3, <1>4, <1>5 DEF DetInv, OneCommit, IsDiff
<1>8. OfHighlight'
  BY <1>1, <1>2, <1>3, <1>4, <1>5, <1>9 DEF DetInv, OfHighlight, IsDiff
<1> QED BY <1>5, <1>6, <1>7, <1>8 DEF DetInv

LEMMA IgnorePassedKeeps == ASSUME DetInv, IgnorePassed PROVE DetInv'
<1> DEFINE h == Head(channel)
           rest == Tail(channel)
<1>1. /\ Next0("Passed") /\ channel' = rest /\ UNCHANGED <<detail, settling, fetches, wanted, failed>>
  BY DEF IgnorePassed
<1>2. /\ h \in Msg /\ h.type = "Passed" /\ rest \in Seq(Msg) /\ Sent(channel) = Sent(rest) \cup {h} /\ DiffsFirst(rest)
  BY <1>1, HeadFacts
<1> HIDE DEF h, rest
<1>3. Under = Under' \cup {h} /\ (Undecided' <=> Undecided) /\ ~IsFiles(h) /\ ~IsDiff(h) /\ ~Opens(h)
  BY <1>1, <1>2 DEF Under, Undecided, IsFiles, IsDiff, Opens
<1>4. DetTypes' /\ AskedOnce'
  BY <1>1, <1>2, <1>3 DEF DetInv, DetTypes, AskedOnce
<1>5. OneCommit' /\ OfHighlight' /\ OfClick'
  BY <1>1, <1>3 DEF DetInv, OneCommit, OfHighlight, OfClick
<1> QED BY <1>4, <1>5 DEF DetInv

LEMMA DetailStepInv == DetInv /\ [DetailNext]_detailVars => DetInv'
<1> SUFFICES ASSUME DetInv, [DetailNext]_detailVars PROVE DetInv'
  OBVIOUS
<1>1. CASE UNCHANGED detailVars
  BY <1>1 DEF detailVars, DetInv, DetTypes, OneCommit, AskedOnce, OfHighlight, OfClick, Under, Undecided
<1>2. CASE \E c \in Commits : ClickCommit(c) \/ MenuFiles(c)
  BY <1>2, ClickCommitKeeps, MenuFilesKeeps
<1>3. CASE \/ CloseDetail \/ MoveHighlight \/ StartSearch \/ TypeFileSearch \/ ShowDiffNow \/ TurnFocus \/ DebounceEnds
  BY <1>3, CloseDetailKeeps, MoveHighlightKeeps, StartSearchKeeps, TypeFileSearchKeeps, ShowDiffNowKeeps,
     TurnFocusKeeps, DebounceEndsKeeps
<1>4. CASE \E t \in fetches : ReadEnds(t) \/ ReadFails(t)
  BY <1>4, ReadEndsKeeps, ReadFailsKeeps
<1>5. CASE \/ ShowCommit \/ GraphMenuFiles \/ CommitDiffSettled \/ CommitFilesLoaded \/ CommitDiffLoaded \/ IgnorePassed
  BY <1>5, ShowCommitKeeps, GraphMenuFilesKeeps, CommitDiffSettledKeeps, CommitFilesLoadedKeeps,
     CommitDiffLoadedKeeps, IgnorePassedKeeps
<1> QED BY <1>1, <1>2, <1>3, <1>4, <1>5 DEF DetailNext

(* However reads, debounces, searches and clicks follow each other, the    *)
(* commit detail shows the commit clicked last and, once its debounce and  *)
(* reads have ended, the diff of the highlighted file, unless a read       *)
(* failed (detail_generation, diff_select_generation).                     *)
THEOREM DetailAlwaysChosen == DetailSpec => []DetailIsChosen
<1>1. DetInv => DetailIsChosen
  <2> SUFFICES ASSUME DetInv PROVE DetailIsChosen
    OBVIOUS
  <2>1. AtRest => Under = {} /\ ~Undecided
    BY DEF AtRest, Under, Undecided, Sent
  <2>2. HighlightIsShown
    <3>1. detail # None /\ detail.sel # None => FileCount[detail.oid] # 0
      BY FileCountAssumption DEF DetInv, DetTypes, IsDetail, Shown, AllFiles
    <3> QED BY <2>1, <3>1 DEF DetInv, OneCommit, OfHighlight, HighlightIsShown
  <2>3. ClickedOpens
    BY <2>1 DEF DetInv, OfClick, ClickedOpens
  <2> QED BY <2>2, <2>3 DEF DetailIsChosen
<1> QED BY <1>1, DetailInitInv, DetailStepInv, PTL DEF DetailSpec

-----------------------------------------------------------------------------
(* The list of repositories (Discovery).                                   *)

Parts   == {"tree", "private", "shared", "noise"}
Spots   == [site : Sites, part : Parts] \cup {RootChild}
Watcher == [gen : Nat, repos : SUBSET Sites, ready : BOOLEAN, notices : SUBSET Spots]
Heads   == Sites \cup {"root"}

Types ==
  /\ onDisk \in [Sites -> Layouts]
  /\ pinned \in SUBSET Sites /\ excluded \in SUBSET Sites /\ repoList \in SUBSET Sites
  /\ stale \in SUBSET Sites /\ removed \in SUBSET Sites
  /\ slot \in [requested : Nat, current : Nat, failed : BOOLEAN]
  /\ watchers \in SUBSET Watcher

(* The generations of slot `s' and of the watchers `ws': each is one       *)
(* watcher's, the current one's is built, the newest one's is for the list *)
(* `repos', and one that is being built has noticed nothing.               *)
Slots(s, ws, repos) ==
  /\ \A w \in ws : w.gen >= 1 /\ w.gen <= s.requested
  /\ \A v, w \in ws : v.gen = w.gen => v = w
  /\ s.current <= s.requested
  /\ s.current # 0 => \E w \in ws : w.gen = s.current
  /\ \A w \in ws : w.gen = s.current => w.ready
  /\ \A w \in ws : w.gen = s.requested => w.repos = repos
  /\ s.requested # s.current /\ (\A w \in ws : w.gen # s.requested) => s.failed
  /\ \A w \in ws : ~w.ready => w.notices = {}

(* A change for `s' is in the channel, was missed, or was noticed by a     *)
(* watcher that knows whose it is.  Where a notice is routed to besides    *)
(* (the repository around it) does not count: dropping it is not recorded. *)
Known(s, evs, missed, ws) ==
  s \in evs \cup missed \/ \E w \in ws : \E p \in w.notices : s \in Knows(w, p)

OnItsWay ==
  /\ repoList # Discovered(onDisk, pinned, excluded) => Known("root", events, gone, watchers) \/ timers > 0 \/ deferred
  /\ timers \in Nat /\ (discoveryPending => timers > 0) /\ (deferred => asleep)

Routed == \A s \in stale \cap repoList : Known(s, events, gone, watchers)

(* What was removed is not pinned, and excluded where the walk finds it.   *)
Away ==
  /\ removed \cap pinned = {}
  /\ \A s \in removed : s \in Walked /\ IsDirectory(onDisk, s) => s \in excluded
  /\ removed \cap repoList \subseteq Managed

DiscInv == Types /\ Slots(slot, watchers, repoList) /\ OnItsWay /\ Routed /\ Away

-----------------------------------------------------------------------------
(* A watcher sends a notice at least to whom it knows (metadata_owners,    *)
(* classify).                                                              *)
LEMMA KnowsRoutes ==
  ASSUME NEW w \in Watcher, NEW p \in Spots
  PROVE  Knows(w, p) \subseteq Route(w, p) /\ Knows(w, p) \subseteq Concerned(p)
<1>1. Knows(w, p) \subseteq Concerned(p)
  BY DEF Knows
<1>2. ASSUME NEW s \in Knows(w, p) PROVE s \in Route(w, p)
  <2>1. CASE p = RootChild
    BY <2>1 DEF Knows, Concerned, Route, RootChild
  <2>2. CASE p # RootChild
    <3>1. p \in [site : Sites, part : Parts]
      BY <2>2 DEF Spots
    <3>2. p.site \in Sites /\ p.part \in Parts /\ p.site # "root"
      BY <3>1, PlacesAssumption
    <3>3. s \in Concerned(p) /\ (s = "root" \/ (s \in w.repos /\ (p.part = "tree" /\ ~InnerFirst => w.repos \cap Enclosing[s] = {})))
      BY <1>2 DEF Knows
    <3>4. CASE p.part = "tree"
      <4>1. s = p.site
        BY <2>2, <3>3, <3>4 DEF Concerned
      <4>2. s \in w.repos /\ (~InnerFirst => w.repos \cap Enclosing[s] = {})
        BY <3>2, <3>3, <3>4, <4>1
      <4>3. s \in Classify(w.repos, p)
        BY <4>1, <4>2 DEF Classify
      <4> QED BY <2>2, <3>4, <4>3 DEF Route
    <3>5. CASE p.part = "private"
      BY <2>2, <3>2, <3>3, <3>5 DEF Concerned, Route, MetadataOwners
    <3>6. CASE p.part = "shared"
      BY <2>2, <3>2, <3>3, <3>6, PlacesAssumption DEF Concerned, Route, MetadataOwners
    <3>7. CASE p.part = "noise"
      BY <2>2, <3>3, <3>7 DEF Concerned
    <3> QED BY <3>2, <3>4, <3>5, <3>6, <3>7 DEF Parts
  <2> QED BY <2>1, <2>2
<1> QED BY <1>1, <1>2

(* What was noticed is known when the notices of a watcher are sent.       *)
LEMMA TargetsKnown ==
  ASSUME NEW w \in Watcher, NEW p \in w.notices, NEW s \in Knows(w, p)
  PROVE  s \in Targets(w)
<1>1. p \in Spots
  BY DEF Watcher
<1> QED BY <1>1, KnowsRoutes DEF Targets

LEMMA KnownIsTold ==
  ASSUME watchers \in SUBSET Watcher, NEW s, Known(s, events, gone, watchers)
  PROVE  s \in gone \cup Told
<1>1. CASE s \in events \cup gone
  BY <1>1 DEF Told
<1>2. CASE \E w \in watchers : \E p \in w.notices : s \in Knows(w, p)
  <2>1. PICK w \in watchers : \E p \in w.notices : s \in Knows(w, p)
    BY <1>2
  <2>2. w \in Watcher
    BY <2>1
  <2>3. s \in Targets(w)
    BY <2>1, <2>2, TargetsKnown
  <2> QED BY <2>3 DEF Told
<1> QED BY <1>1, <1>2 DEF Known

(* The invariant says what the run checks.                                 *)
LEMMA InvImplies == DiscInv => ListFollowsDisk
<1> SUFFICES ASSUME DiscInv PROVE ListFollowsDisk
  OBVIOUS
<1>1. watchers \in SUBSET Watcher
  BY DEF DiscInv, Types
<1>2. DiscoveryIsComing
  <2>1. Known("root", events, gone, watchers) => "root" \in gone \cup Told
    BY <1>1, KnownIsTold
  <2> QED BY <2>1 DEF DiscInv, OnItsWay, DiscoveryIsComing
<1>3. EditsAreRouted
  <2>1. ASSUME NEW s \in stale \cap repoList PROVE s \in gone \cup Told
    <3>1. Known(s, events, gone, watchers)
      BY DEF DiscInv, Routed
    <3> QED BY <1>1, <3>1, KnownIsTold
  <2> QED BY <2>1 DEF EditsAreRouted
<1>4. WatchesFollow
  <2> DEFINE Cur == {w \in watchers : w.gen = slot.current}
  <2>1. Slots(slot, watchers, repoList)
    BY DEF DiscInv
  <2>2. Cardinality(Cur) = (IF slot.current = 0 THEN 0 ELSE 1)
    <3>1. CASE slot.current = 0
      <4>1. Cur = {}
        BY <2>1, <3>1 DEF Slots
      <4> QED BY <3>1, <4>1, FS_EmptySet
    <3>2. CASE slot.current # 0
      <4>1. PICK w \in watchers : w.gen = slot.current
        BY <2>1, <3>2 DEF Slots
      <4>2. Cur = {w}
        BY <2>1, <4>1 DEF Slots
      <4> QED BY <3>2, <4>2, FS_Singleton
    <3> QED BY <3>1, <3>2
  <2>3. slot.requested \notin {slot.current} \cup {w.gen : w \in watchers} => slot.failed
    BY <2>1 DEF Slots
  <2>4. \A w \in watchers : w.gen = slot.requested => w.repos = repoList
    BY <2>1 DEF Slots
  <2> QED BY <2>2, <2>3, <2>4 DEF WatchesFollow
<1>5. RemovedStaysAway
  BY DEF DiscInv, Away, RemovedStaysAway
<1> QED BY <1>2, <1>3, <1>4, <1>5 DEF ListFollowsDisk

-----------------------------------------------------------------------------
(* The watchers.                                                           *)

(* Whom a watcher knows depends on the list it was made for.               *)
LEMMA KnowsByList ==
  ASSUME NEW v, NEW w, v.repos = w.repos, NEW p
  PROVE  Knows(v, p) = Knows(w, p)
BY DEF Knows

(* A watcher that is built, or has sent what it held, is the same watcher. *)
LEMMA ReplacedKeeps ==
  ASSUME Types, Slots(slot, watchers, repoList), NEW w \in watchers, NEW n \in Watcher,
         n.gen = w.gen, n.repos = w.repos, w.ready => n.ready, ~n.ready => n.notices = {},
         watchers' = (watchers \ {w}) \cup {n}
  PROVE  watchers' \in SUBSET Watcher /\ Slots(slot, watchers', repoList)
<1>1. \A v \in watchers' : (v \in watchers /\ v # w) \/ v = n
  OBVIOUS
<1>2. n \in watchers' /\ \A v \in watchers : v \in watchers' \/ v = w
  OBVIOUS
<1>3. \A v \in watchers : v.gen = w.gen => v = w
  BY DEF Slots
<1>4. watchers' \in SUBSET Watcher
  BY DEF Types
<1>5. \A u, v \in watchers' : u.gen = v.gen => u = v
  BY <1>1, <1>3 DEF Slots
<1>6. slot.current # 0 => \E v \in watchers' : v.gen = slot.current
  BY <1>2 DEF Slots
<1>7. slot.requested # slot.current /\ (\A v \in watchers' : v.gen # slot.requested) => slot.failed
  BY <1>2 DEF Slots
<1>8. \A v \in watchers' :
         /\ v.gen >= 1 /\ v.gen <= slot.requested
         /\ (v.gen = slot.current => v.ready) /\ (v.gen = slot.requested => v.repos = repoList)
         /\ (~v.ready => v.notices = {})
  BY <1>1 DEF Slots
<1> QED BY <1>4, <1>5, <1>6, <1>7, <1>8 DEF Slots

(* A change that somebody notices is known, and nothing is forgotten.      *)
LEMMA NoticeKeeps ==
  ASSUME Types, Slots(slot, watchers, repoList), NEW p \in Spots, Notice(p)
  PROVE  /\ watchers' \in SUBSET Watcher /\ Slots(slot, watchers', repoList)
         /\ \A s : Known(s, events, gone, watchers) => Known(s, events, gone', watchers')
         /\ \A s \in Concerned(p) : Known(s, events, gone', watchers')
<1> DEFINE sees(w) == w.ready /\ Watches(w, p)
           n(w) == [w EXCEPT !.notices = IF sees(w) THEN @ \cup {p} ELSE @]
<1>1. /\ watchers' = {n(w) : w \in watchers}
      /\ gone' = gone \cup (Concerned(p) \ UNION {Knows(w, p) : w \in {v \in watchers : sees(v)}})
  BY DEF Notice
<1>2. ASSUME NEW w \in watchers
      PROVE  /\ n(w) \in Watcher /\ n(w) \in watchers'
             /\ n(w).gen = w.gen /\ n(w).repos = w.repos /\ n(w).ready = w.ready
             /\ w.notices \subseteq n(w).notices
             /\ (sees(w) => p \in n(w).notices)
             /\ (~w.ready => n(w).notices = w.notices)
             /\ \A q : Knows(n(w), q) = Knows(w, q)
  <2>1. w \in Watcher
    BY DEF Types
  <2>2. /\ n(w) \in Watcher
        /\ n(w).gen = w.gen /\ n(w).repos = w.repos /\ n(w).ready = w.ready
        /\ n(w).notices = IF sees(w) THEN w.notices \cup {p} ELSE w.notices
    <3> DEFINE m == IF sees(w) THEN w.notices \cup {p} ELSE w.notices
    <3>1. m \in SUBSET Spots /\ (~w.ready => m = w.notices)
      BY <2>1 DEF Watcher
    <3>2. n(w) = [w EXCEPT !.notices = m]
      OBVIOUS
    <3> HIDE DEF m, n
    <3>3. n(w) \in Watcher /\ n(w).gen = w.gen /\ n(w).repos = w.repos /\ n(w).ready = w.ready /\ n(w).notices = m
      BY <2>1, <3>1, <3>2 DEF Watcher
    <3> QED BY <3>3 DEF m
  <2>3. n(w) \in watchers'
    BY <1>1
  <2>4. \A q : Knows(n(w), q) = Knows(w, q)
    BY <2>2, KnowsByList
  <2> QED BY <2>2, <2>3, <2>4
<1>3. \A v \in watchers' : \E w \in watchers : v = n(w)
  BY <1>1
<1> HIDE DEF n, sees
<1>4. watchers' \in SUBSET Watcher
  BY <1>2, <1>3
<1>5. Slots(slot, watchers', repoList)
  <2>1. \A u, v \in watchers' : u.gen = v.gen => u = v
    BY <1>2, <1>3 DEF Slots
  <2>2. /\ slot.current # 0 => \E v \in watchers' : v.gen = slot.current
        /\ slot.requested # slot.current /\ (\A v \in watchers' : v.gen # slot.requested) => slot.failed
    BY <1>2 DEF Slots
  <2>3. \A v \in watchers' :
           /\ v.gen >= 1 /\ v.gen <= slot.requested
           /\ (v.gen = slot.current => v.ready) /\ (v.gen = slot.requested => v.repos = repoList)
           /\ (~v.ready => v.notices = {})
    BY <1>2, <1>3 DEF Slots
  <2> QED BY <2>1, <2>2, <2>3 DEF Slots
<1>6. ASSUME NEW s, Known(s, events, gone, watchers) PROVE Known(s, events, gone', watchers')
  <2>1. CASE s \in events \cup gone
    BY <1>1, <2>1 DEF Known
  <2>2. CASE \E w \in watchers : \E q \in w.notices : s \in Knows(w, q)
    BY <1>2, <2>2 DEF Known
  <2> QED BY <1>6, <2>1, <2>2 DEF Known
<1>7. ASSUME NEW s \in Concerned(p) PROVE Known(s, events, gone', watchers')
  <2>1. CASE \E w \in watchers : sees(w) /\ s \in Knows(w, p)
    BY <1>2, <2>1 DEF Known
  <2>2. CASE ~\E w \in watchers : sees(w) /\ s \in Knows(w, p)
    BY <1>1, <2>2 DEF Known
  <2> QED BY <2>1, <2>2
<1> QED BY <1>4, <1>5, <1>6, <1>7

(* What a dropped watcher held is sent or recorded.                        *)
LEMMA DropsKeeps ==
  ASSUME Types, NEW ws \in SUBSET watchers, Drops(ws), NEW s, Known(s, events, gone, watchers)
  PROVE  Known(s, events', gone', watchers')
<1>1. watchers' = watchers \ ws
  BY DEF Drops
<1>2. events \subseteq events' /\ gone \subseteq gone'
  BY DEF Drops
<1>3. CASE s \in events \cup gone
  BY <1>2, <1>3 DEF Known
<1>4. CASE \E w \in watchers : \E p \in w.notices : s \in Knows(w, p)
  <2>1. PICK w \in watchers : \E p \in w.notices : s \in Knows(w, p)
    BY <1>4
  <2>2. PICK p \in w.notices : s \in Knows(w, p)
    BY <2>1
  <2>3. w \in Watcher /\ p \in Spots
    BY DEF Types, Watcher
  <2>4. CASE w \notin ws
    BY <1>1, <2>2, <2>4 DEF Known
  <2>5. CASE w \in ws /\ events' = events \cup UNION {Targets(v) : v \in ws}
    <3>1. s \in Targets(w)
      BY <2>2, <2>3, TargetsKnown
    <3> QED BY <2>5, <3>1 DEF Known
  <2>6. CASE w \in ws /\ ~(events' = events \cup UNION {Targets(v) : v \in ws})
    <3> DEFINE held == UNION {Concerned(q) : q \in UNION {v.notices : v \in ws}}
               told == UNION {UNION {Knows(v, q) : q \in v.notices} : v \in watchers \ ws}
    <3>1. gone' = gone \cup (held \ told)
      BY <2>6 DEF Drops
    <3>2. s \in Concerned(p)
      BY <2>2, <2>3, KnowsRoutes
    <3>3. s \in held
      BY <2>6, <3>2
    <3>4. CASE s \in told
      BY <1>1, <3>4 DEF Known
    <3>5. CASE s \notin told
      BY <3>1, <3>3, <3>5 DEF Known
    <3> QED BY <3>4, <3>5
  <2> QED BY <2>4, <2>5, <2>6
<1> QED BY <1>3, <1>4 DEF Known

(* A request for the list `repos' outdates every watcher there is.         *)
LEMMA WatcherRequested ==
  ASSUME Types, Slots(slot, watchers, repoList), NEW repos \in SUBSET Sites, Request(repos, watchers)
  PROVE  /\ slot' \in [requested : Nat, current : Nat, failed : BOOLEAN]
         /\ watchers' \in SUBSET Watcher /\ Slots(slot', watchers', repos)
         /\ watchers \subseteq watchers'
<1> DEFINE n == [gen |-> slot.requested + 1, repos |-> repos, ready |-> FALSE, notices |-> {}]
<1>1. watchers' = watchers \cup {n}
  BY DEF Request
<1>2. n \in Watcher /\ n.gen = slot.requested + 1 /\ n.repos = repos /\ n.ready = FALSE /\ n.notices = {}
  BY DEF Types, Watcher
<1>3. /\ slot' \in [requested : Nat, current : Nat, failed : BOOLEAN]
      /\ slot'.requested = slot.requested + 1 /\ slot'.current = slot.current
  <2>1. slot' = [slot EXCEPT !.requested = slot.requested + 1, !.failed = FALSE]
    BY DEF Request
  <2>2. slot \in [requested : Nat, current : Nat, failed : BOOLEAN]
    BY DEF Types
  <2>3. PICK r \in Nat : r = slot.requested + 1
    BY <2>2
  <2>4. slot' \in [requested : Nat, current : Nat, failed : BOOLEAN]
    BY <2>1, <2>2, <2>3
  <2>5. slot'.requested = slot.requested + 1 /\ slot'.current = slot.current
    BY <2>1, <2>2, <2>3
  <2> QED BY <2>4, <2>5
<1> HIDE DEF n
<1>4. slot.requested \in Nat /\ slot.current \in Nat /\ \A w \in watchers : w.gen \in Nat
  BY DEF Types, Watcher
<1>5. \A w \in watchers : w.gen < slot.requested + 1
  BY <1>4 DEF Slots
<1>6. \A u, v \in watchers' : u.gen = v.gen => u = v
  BY <1>1, <1>2, <1>4, <1>5 DEF Slots
<1>7. /\ slot'.current <= slot'.requested
      /\ slot'.current # 0 => \E v \in watchers' : v.gen = slot'.current
      /\ ~\A v \in watchers' : v.gen # slot'.requested
  BY <1>1, <1>2, <1>3, <1>4 DEF Slots
<1>8. \A v \in watchers' :
         /\ v.gen >= 1 /\ v.gen <= slot'.requested
         /\ (v.gen = slot'.current => v.ready) /\ (v.gen = slot'.requested => v.repos = repos)
         /\ (~v.ready => v.notices = {})
  BY <1>1, <1>2, <1>3, <1>4, <1>5 DEF Slots
<1>9. Slots(slot', watchers', repos)
  BY <1>6, <1>7, <1>8 DEF Slots
<1> QED BY <1>1, <1>2, <1>3, <1>9 DEF Types

-----------------------------------------------------------------------------
(* The list.                                                               *)

(* More watchers, or more that is missed, forget nothing.                  *)
LEMMA MoreIsKnown ==
  ASSUME NEW s, NEW evs, NEW evs2, NEW missed, NEW missed2, NEW ws, NEW ws2,
         Known(s, evs, missed, ws), ws \subseteq ws2,
         s \in evs => s \in evs2, s \in missed => s \in missed2
  PROVE  Known(s, evs2, missed2, ws2)
BY DEF Known

LEMMA DiscoveredSites ==
  ASSUME NEW d, NEW pins \in SUBSET Sites, NEW exclusions
  PROVE  Discovered(d, pins, exclusions) \in SUBSET Sites
BY PlacesAssumption DEF Discovered, Projects

(* The list becomes `new', and at least its newcomers are asked.           *)
LEMMA Adopts ==
  ASSUME Types, Slots(slot, watchers, repoList), Routed, NEW new \in SUBSET Sites, repoList' = new,
         (new = repoList /\ UNCHANGED <<slot, watchers>>) \/ Request(new, watchers),
         NEW queried, new \ repoList \subseteq queried, Refreshes(queried, {"root"})
  PROVE  /\ slot' \in [requested : Nat, current : Nat, failed : BOOLEAN]
         /\ watchers' \in SUBSET Watcher /\ stale' \in SUBSET Sites
         /\ Slots(slot', watchers', repoList')
         /\ \A s \in stale' \cap repoList' : Known(s, events, gone', watchers')
<1>1. /\ slot' \in [requested : Nat, current : Nat, failed : BOOLEAN]
      /\ watchers' \in SUBSET Watcher /\ Slots(slot', watchers', repoList')
      /\ watchers \subseteq watchers'
  <2>1. CASE new = repoList /\ UNCHANGED <<slot, watchers>>
    BY <2>1 DEF Types
  <2>2. CASE Request(new, watchers)
    BY <2>2, WatcherRequested
  <2> QED BY <2>1, <2>2
<1>2. stale' = stale \ queried /\ gone' = gone \ (queried \cup {"root"})
  BY DEF Refreshes
<1>3. ASSUME NEW s \in stale' \cap repoList' PROVE Known(s, events, gone', watchers')
  <2>1. s \in stale \cap repoList /\ s \notin queried /\ s # "root"
    BY <1>2, PlacesAssumption
  <2>2. Known(s, events, gone, watchers)
    BY <2>1 DEF Routed
  <2> QED BY <1>1, <1>2, <2>1, <2>2, MoreIsKnown
<1> QED BY <1>1, <1>2, <1>3 DEF Types

(* Nothing that is gone to stay is discovered but a managed project.       *)
LEMMA AwayFollows ==
  ASSUME NEW gonesites \in SUBSET Sites, NEW d, NEW pins, NEW exclusions, gonesites \cap pins = {},
         \A s \in gonesites : s \in Walked /\ IsDirectory(d, s) => s \in exclusions
  PROVE  gonesites \cap Discovered(d, pins, exclusions) \subseteq Managed
BY DEF Discovered, Projects

(* The whole discovery: the list is what is on the disk.                   *)
LEMMA DiscoverKeeps ==
  ASSUME DiscInv, Discover
  PROVE  /\ Types'
         /\ Slots(slot', watchers', repoList') /\ Away'
         /\ repoList' = Discovered(onDisk', pinned', excluded')
         /\ \A s \in stale' \cap repoList' : Known(s, events, gone', watchers')
         /\ discoveryPending' = FALSE
<1> DEFINE new == Discovered(onDisk, pinned, excluded)
<1>1. /\ repoList' = new /\ UNCHANGED <<onDisk, pinned, excluded, removed>> /\ discoveryPending' = FALSE
      /\ BecomesListed(new, {"root"})
  BY DEF Discover, BecomesListed, configVars
<1>2. new \in SUBSET Sites
  BY DiscoveredSites DEF DiscInv, Types
<1> HIDE DEF new
<1>3. (new = repoList /\ UNCHANGED <<slot, watchers>>) \/ Request(new, watchers)
  BY <1>1 DEF BecomesListed
<1>4. Refreshes(new \ repoList, {"root"})
  BY <1>1 DEF BecomesListed
<1>5. Types /\ Slots(slot, watchers, repoList) /\ Routed
  BY DEF DiscInv
<1>6. /\ slot' \in [requested : Nat, current : Nat, failed : BOOLEAN]
      /\ watchers' \in SUBSET Watcher /\ stale' \in SUBSET Sites
      /\ Slots(slot', watchers', repoList')
      /\ \A s \in stale' \cap repoList' : Known(s, events, gone', watchers')
  BY <1>1, <1>2, <1>3, <1>4, <1>5, Adopts
<1>7. Away'
  <2>1. /\ removed \in SUBSET Sites /\ removed \cap pinned = {}
        /\ \A s \in removed : s \in Walked /\ IsDirectory(onDisk, s) => s \in excluded
    BY DEF DiscInv, Types, Away
  <2>2. removed \cap new \subseteq Managed
    BY <2>1, AwayFollows DEF new
  <2> QED BY <1>1, <2>1, <2>2 DEF Away, IsDirectory
<1>8. Types'
  BY <1>1, <1>2, <1>5, <1>6 DEF Types
<1> QED BY <1>1, <1>6, <1>7, <1>8 DEF new

(* Now, or once at the end of the cooldown.                                *)
LEMMA RootChangedKeeps ==
  ASSUME DiscInv, RootChanged
  PROVE  /\ Types' /\ Slots(slot', watchers', repoList') /\ Away'
         /\ timers' \in Nat /\ (discoveryPending' => timers' > 0)
         /\ repoList' = Discovered(onDisk', pinned', excluded') \/ timers' > 0
         /\ \A s \in stale' \cap repoList' : Known(s, events, gone', watchers')
<1>1. timers \in Nat /\ (discoveryPending => timers > 0)
  BY DEF DiscInv, OnItsWay
<1>2. CASE Discover /\ UNCHANGED timers
  BY <1>1, <1>2, DiscoverKeeps
<1>3. CASE /\ discoveryPending' = TRUE /\ timers' = IF discoveryPending THEN timers ELSE timers + 1
           /\ UNCHANGED <<onDisk, configVars, repoList, slot, watchers, cooling, stale, gone>>
  <2>1. timers' \in Nat /\ timers' > 0
    BY <1>1, <1>3
  <2>2. UNCHANGED <<onDisk, pinned, excluded, removed, repoList, slot, watchers, stale, gone>>
    BY <1>3 DEF configVars
  <2>3. Types' /\ Away'
    BY <2>2 DEF DiscInv, Types, Away, IsDirectory
  <2>4. Slots(slot', watchers', repoList') /\ \A s \in stale' \cap repoList' : Known(s, events, gone', watchers')
    BY <2>2 DEF DiscInv, Routed
  <2> QED BY <2>1, <2>3, <2>4
<1> QED BY <1>2, <1>3 DEF RootChanged

-----------------------------------------------------------------------------
(* The steps.                                                              *)

LEMMA DiscInitInv == DiscInit => DiscInv
<1> SUFFICES ASSUME DiscInit PROVE DiscInv
  OBVIOUS
<1> DEFINE w == [gen |-> 1, repos |-> repoList, ready |-> FALSE, notices |-> {}]
<1>1. /\ onDisk \in [Sites -> Layouts] /\ pinned \in SUBSET Sites
  BY PlacesAssumption DEF DiscInit
<1>2. repoList \in SUBSET Sites
  BY <1>1, DiscoveredSites DEF DiscInit
<1>3. w \in Watcher /\ watchers = {w} /\ w.gen = 1 /\ w.repos = repoList /\ w.ready = FALSE /\ w.notices = {}
  BY <1>2 DEF DiscInit, Watcher
<1>4. /\ slot \in [requested : Nat, current : Nat, failed : BOOLEAN]
      /\ slot.requested = 1 /\ slot.current = 0
  BY DEF DiscInit
<1>5. Types
  BY <1>1, <1>2, <1>3, <1>4 DEF DiscInit, Types
<1> HIDE DEF w
<1>6. Slots(slot, watchers, repoList)
  BY <1>3, <1>4 DEF Slots
<1>7. OnItsWay /\ Routed /\ Away
  BY DEF DiscInit, OnItsWay, Routed, Away
<1> QED BY <1>5, <1>6, <1>7 DEF DiscInv

(* A step that leaves the list and the configuration alone and forgets     *)
(* nothing but what it asks for.                                           *)
LEMMA QuietKeeps ==
  ASSUME DiscInv, UNCHANGED <<onDisk, pinned, excluded, removed, repoList, timers, discoveryPending, deferred, asleep>>,
         slot' \in [requested : Nat, current : Nat, failed : BOOLEAN],
         watchers' \in SUBSET Watcher, Slots(slot', watchers', repoList), stale' \in SUBSET Sites,
         Known("root", events, gone, watchers) => Known("root", events', gone', watchers'),
         \A s \in stale' \cap repoList : Known(s, events', gone', watchers')
  PROVE  DiscInv'
<1>1. Types'
  BY DEF DiscInv, Types
<1>2. OnItsWay'
  BY DEF DiscInv, OnItsWay
<1>3. Routed' /\ Away'
  BY DEF DiscInv, Routed, Away, IsDirectory
<1> QED BY <1>1, <1>2, <1>3 DEF DiscInv

LEMMA BuiltInv == ASSUME DiscInv, NEW w \in watchers, Built(w) PROVE DiscInv'
<1> DEFINE n == [w EXCEPT !.ready = TRUE]
<1>1. w \in Watcher /\ ~w.ready /\ w.notices = {}
  BY DEF DiscInv, Types, Slots, Built
<1>2. n \in Watcher /\ n.gen = w.gen /\ n.repos = w.repos /\ n.ready /\ n.notices = {}
  BY <1>1 DEF Watcher
<1>3. /\ watchers' = (watchers \ {w}) \cup {n}
      /\ UNCHANGED <<onDisk, pinned, excluded, removed, repoList, timers, discoveryPending, deferred, asleep>>
      /\ UNCHANGED <<slot, events, stale, gone>>
  BY DEF Built, configVars, clockVars
<1> HIDE DEF n
<1>4. Types /\ Slots(slot, watchers, repoList) /\ Routed
  BY DEF DiscInv
<1>5. watchers' \in SUBSET Watcher /\ Slots(slot, watchers', repoList)
  <2>1. Slots(slot, watchers', repoList) /\ n.repos = w.repos
    BY <1>1, <1>2, <1>3, <1>4, ReplacedKeeps
  <2>2. watchers' \in SUBSET Watcher
    BY <1>2, <1>3, <1>4 DEF Types
  <2> QED BY <2>1, <2>2
<1>6. ASSUME NEW s, Known(s, events, gone, watchers) PROVE Known(s, events', gone', watchers')
  BY <1>1, <1>3, <1>6 DEF Known
<1>7. \A s \in stale' \cap repoList : Known(s, events', gone', watchers')
  BY <1>3, <1>4, <1>6 DEF Routed
<1> QED BY <1>3, <1>4, <1>5, <1>6, <1>7, QuietKeeps DEF Types

LEMMA BuildFailsInv == ASSUME DiscInv, NEW w \in watchers, BuildFails(w) PROVE DiscInv'
<1>1. w \in Watcher /\ ~w.ready /\ w.notices = {} /\ Types /\ Slots(slot, watchers, repoList) /\ Routed
  BY DEF DiscInv, Types, Slots, BuildFails
<1>2. /\ watchers' = watchers \ {w}
      /\ UNCHANGED <<onDisk, pinned, excluded, removed, repoList, timers, discoveryPending, deferred, asleep>>
      /\ UNCHANGED <<events, stale, gone>>
  BY DEF BuildFails, configVars, clockVars
<1>3. /\ slot' \in [requested : Nat, current : Nat, failed : BOOLEAN]
      /\ slot'.requested = slot.requested /\ slot'.current = slot.current
      /\ slot'.failed = (slot.failed \/ w.gen = slot.requested)
  <2>1. PICK f \in BOOLEAN : f = (slot.failed \/ w.gen = slot.requested)
    BY <1>1 DEF Types
  <2>2. slot' = [slot EXCEPT !.failed = f]
    BY <2>1 DEF BuildFails
  <2>3. slot \in [requested : Nat, current : Nat, failed : BOOLEAN]
    BY <1>1 DEF Types
  <2>4. slot' \in [requested : Nat, current : Nat, failed : BOOLEAN]
    BY <2>2, <2>3
  <2>5. slot'.requested = slot.requested /\ slot'.current = slot.current /\ slot'.failed = f
    BY <2>2, <2>3
  <2> QED BY <2>1, <2>4, <2>5
<1>4. Slots(slot', watchers', repoList)
  <2>1. w.gen # slot.current
    BY <1>1 DEF Slots
  <2>2. slot'.current # 0 => \E v \in watchers' : v.gen = slot'.current
    BY <1>1, <1>2, <1>3, <2>1 DEF Slots
  <2>3. slot'.requested # slot'.current /\ (\A v \in watchers' : v.gen # slot'.requested) => slot'.failed
    BY <1>1, <1>2, <1>3 DEF Slots
  <2> QED BY <1>1, <1>2, <1>3, <2>2, <2>3 DEF Slots
<1>5. ASSUME NEW s, Known(s, events, gone, watchers) PROVE Known(s, events', gone', watchers')
  BY <1>1, <1>2, <1>5 DEF Known
<1>6. \A s \in stale' \cap repoList : Known(s, events', gone', watchers')
  BY <1>1, <1>2, <1>5 DEF Routed
<1> QED BY <1>1, <1>2, <1>3, <1>4, <1>5, <1>6, QuietKeeps DEF Types

LEMMA InstallInv == ASSUME DiscInv, NEW w \in watchers, Install(w) PROVE DiscInv'
<1>1. Types /\ Slots(slot, watchers, repoList) /\ Routed /\ w \in Watcher /\ w.ready /\ w.gen # slot.current
  BY DEF DiscInv, Types, Install
<1>2. UNCHANGED <<onDisk, pinned, excluded, removed, repoList, timers, discoveryPending, deferred, asleep, stale>>
  BY DEF Install, configVars, clockVars
<1>3. PICK ws \in SUBSET watchers :
        /\ w.gen = slot.requested => ws = {v \in watchers : v.gen = slot.current}
        /\ w.gen # slot.requested => ws = {w}
        /\ Drops(ws)
  BY DEF Install
<1>4. watchers' = watchers \ ws
  BY <1>3 DEF Drops
<1>5. /\ slot' \in [requested : Nat, current : Nat, failed : BOOLEAN]
      /\ slot'.requested = slot.requested /\ slot'.failed = slot.failed
      /\ slot'.current = IF w.gen = slot.requested THEN w.gen ELSE slot.current
  <2>1. slot \in [requested : Nat, current : Nat, failed : BOOLEAN] /\ w.gen \in Nat
    BY <1>1 DEF Types, Watcher
  <2>2. slot' = IF w.gen = slot.requested THEN [slot EXCEPT !.current = w.gen] ELSE slot
    BY DEF Install
  <2> QED BY <2>1, <2>2
<1>6. Slots(slot', watchers', repoList)
  <2>1. CASE w.gen = slot.requested
    <3>1. w \in watchers' /\ \A v \in watchers : v.gen = w.gen => v = w
      BY <1>1, <1>3, <1>4, <2>1 DEF Slots
    <3> QED BY <1>1, <1>4, <1>5, <2>1, <3>1 DEF Slots
  <2>2. CASE w.gen # slot.requested
    <3>1. slot'.current # 0 => \E v \in watchers' : v.gen = slot'.current
      BY <1>1, <1>3, <1>4, <1>5, <2>2 DEF Slots
    <3>2. slot'.requested # slot'.current /\ (\A v \in watchers' : v.gen # slot'.requested) => slot'.failed
      BY <1>1, <1>3, <1>4, <1>5, <2>2 DEF Slots
    <3> QED BY <1>1, <1>4, <1>5, <2>2, <3>1, <3>2 DEF Slots
  <2> QED BY <2>1, <2>2
<1>7. \A s : Known(s, events, gone, watchers) => Known(s, events', gone', watchers')
  BY <1>1, <1>3, DropsKeeps
<1>8. \A s \in stale' \cap repoList : Known(s, events', gone', watchers')
  BY <1>1, <1>2, <1>7 DEF Routed
<1> QED BY <1>1, <1>2, <1>4, <1>5, <1>6, <1>7, <1>8, QuietKeeps DEF Types

LEMMA DeliverInv == ASSUME DiscInv, NEW w \in watchers, Deliver(w) PROVE DiscInv'
<1> DEFINE n == [w EXCEPT !.notices = {}]
<1>1. Types /\ Slots(slot, watchers, repoList) /\ Routed /\ w \in Watcher
  BY DEF DiscInv, Types
<1>2. n \in Watcher /\ n.gen = w.gen /\ n.repos = w.repos /\ n.ready = w.ready /\ n.notices = {}
  BY <1>1 DEF Watcher
<1>3. /\ watchers' = (watchers \ {w}) \cup {n} /\ events' = events \cup Targets(w)
      /\ UNCHANGED <<onDisk, pinned, excluded, removed, repoList, timers, discoveryPending, deferred, asleep>>
      /\ UNCHANGED <<slot, stale, gone>>
  BY DEF Deliver, configVars, clockVars
<1> HIDE DEF n
<1>4. watchers' \in SUBSET Watcher /\ Slots(slot, watchers', repoList)
  <2>1. watchers' \in SUBSET Watcher
    BY <1>1, <1>2, <1>3 DEF Types
  <2>2. Slots(slot, watchers', repoList)
    BY <1>1, <1>2, <1>3, ReplacedKeeps
  <2> QED BY <2>1, <2>2
<1>5. ASSUME NEW s, Known(s, events, gone, watchers) PROVE Known(s, events', gone', watchers')
  <2>1. CASE \E p \in w.notices : s \in Knows(w, p)
    <3>1. s \in Targets(w)
      BY <1>1, <2>1, TargetsKnown
    <3> QED BY <1>3, <3>1 DEF Known
  <2>2. CASE ~\E p \in w.notices : s \in Knows(w, p)
    BY <1>3, <1>5, <2>2 DEF Known
  <2> QED BY <2>1, <2>2
<1>6. \A s \in stale' \cap repoList : Known(s, events', gone', watchers')
  BY <1>1, <1>3, <1>5 DEF Routed
<1> QED BY <1>1, <1>3, <1>4, <1>5, <1>6, QuietKeeps DEF Types

(* "root" is no place.                                                     *)
LEMMA RootChangeInv ==
  ASSUME DiscInv, RootChanged, deferred' => asleep', \A s \in Sites : s \in events => s \in events'
  PROVE  DiscInv'
<1>1. /\ Types' /\ Slots(slot', watchers', repoList') /\ Away'
      /\ timers' \in Nat /\ (discoveryPending' => timers' > 0)
      /\ repoList' = Discovered(onDisk', pinned', excluded') \/ timers' > 0
      /\ \A s \in stale' \cap repoList' : Known(s, events, gone', watchers')
  BY RootChangedKeeps
<1>2. \A s \in stale' \cap repoList' : Known(s, events', gone', watchers')
  BY <1>1 DEF Known, Types
<1>3. OnItsWay'
  BY <1>1 DEF OnItsWay
<1> QED BY <1>1, <1>2, <1>3 DEF DiscInv, Routed

LEMMA HandleRootInv == ASSUME DiscInv, HandleRoot PROVE DiscInv'
<1>1. events' = events \ {"root"} /\ asleep' = asleep
  BY DEF HandleRoot
<1>2. \A s \in Sites : s \in events => s \in events'
  BY <1>1, PlacesAssumption
<1>3. CASE /\ asleep /\ deferred' = TRUE
           /\ UNCHANGED <<onDisk, configVars, repoList, slot, watchers, clockVars, stale, gone>>
  <2>1. UNCHANGED <<onDisk, pinned, excluded, removed, repoList, slot, watchers, timers, discoveryPending, stale, gone>>
    BY <1>3 DEF configVars, clockVars
  <2>2. Types' /\ Away' /\ Slots(slot', watchers', repoList')
    BY <2>1 DEF DiscInv, Types, Away, IsDirectory
  <2>3. OnItsWay'
    BY <1>1, <1>3, <2>1 DEF DiscInv, OnItsWay
  <2>4. Routed'
    BY <1>2, <2>1 DEF DiscInv, Types, Routed, Known
  <2> QED BY <2>2, <2>3, <2>4 DEF DiscInv
<1>4. CASE ~asleep /\ RootChanged /\ UNCHANGED deferred
  <2>1. deferred' => asleep'
    BY <1>1, <1>4 DEF DiscInv, OnItsWay
  <2> QED BY <1>2, <1>4, <2>1, RootChangeInv
<1> QED BY <1>3, <1>4 DEF HandleRoot

LEMMA HandleRepoInv == ASSUME DiscInv, NEW r \in Sites, HandleRepo(r) PROVE DiscInv'
<1>1. /\ events' = events \ {r}
      /\ UNCHANGED <<onDisk, pinned, excluded, removed, repoList, timers, discoveryPending, deferred, asleep, slot, watchers>>
  BY DEF HandleRepo, configVars, clockVars
<1>2. r # "root"
  BY PlacesAssumption
<1>3. Types /\ Slots(slot, watchers, repoList) /\ Routed
  BY DEF DiscInv
<1>4. \/ gone' = gone \cup (stale \cap {r}) /\ stale' = stale
      \/ gone' = gone \ {r} /\ stale' = stale \ {r}
  BY DEF HandleRepo, Refreshes
<1>5. stale' \in SUBSET Sites
  BY <1>3, <1>4 DEF Types
<1>6. Known("root", events, gone, watchers) => Known("root", events', gone', watchers')
  BY <1>1, <1>2, <1>4 DEF Known
<1>7. ASSUME NEW s \in stale' \cap repoList PROVE Known(s, events', gone', watchers')
  <2>1. Known(s, events, gone, watchers)
    BY <1>3, <1>4 DEF Routed
  <2> QED BY <1>1, <1>4, <2>1 DEF Known
<1> QED BY <1>1, <1>3, <1>5, <1>6, <1>7, QuietKeeps DEF Types

LEMMA TimerFiresInv == ASSUME DiscInv, TimerFires PROVE DiscInv'
<1>1. /\ timers' = timers - 1 /\ timers > 0 /\ Discover /\ UNCHANGED <<events, asleep, deferred>>
      /\ timers \in Nat /\ (deferred => asleep)
  BY DEF TimerFires, DiscInv, OnItsWay
<1>2. /\ Types' /\ Slots(slot', watchers', repoList') /\ Away'
      /\ repoList' = Discovered(onDisk', pinned', excluded')
      /\ \A s \in stale' \cap repoList' : Known(s, events, gone', watchers')
      /\ discoveryPending' = FALSE
  BY <1>1, DiscoverKeeps
<1>3. OnItsWay'
  BY <1>1, <1>2 DEF OnItsWay
<1>4. Routed'
  BY <1>1, <1>2 DEF Routed
<1> QED BY <1>2, <1>3, <1>4 DEF DiscInv

LEMMA WakesInv == ASSUME DiscInv, Wakes PROVE DiscInv'
<1>1. asleep' = FALSE /\ deferred' = FALSE /\ events' = events
  BY DEF Wakes
<1>2. CASE RootChanged
  BY <1>1, <1>2, RootChangeInv
<1>3. CASE ~deferred /\ UNCHANGED <<onDisk, configVars, repoList, slot, watchers, clockVars, stale, gone>>
  <2>1. UNCHANGED <<onDisk, pinned, excluded, removed, repoList, slot, watchers, timers, discoveryPending, stale, gone>>
    BY <1>3 DEF configVars, clockVars
  <2>2. Types' /\ Away' /\ Slots(slot', watchers', repoList') /\ Routed'
    BY <1>1, <2>1 DEF DiscInv, Types, Away, IsDirectory, Routed
  <2>3. OnItsWay'
    BY <1>1, <1>3, <2>1 DEF DiscInv, OnItsWay
  <2> QED BY <2>2, <2>3 DEF DiscInv
<1> QED BY <1>2, <1>3 DEF Wakes

LEMMA PollLocalInv == ASSUME DiscInv, PollSites PROVE DiscInv'
<1>1. /\ stale' = stale \ repoList /\ gone' = gone \ repoList /\ events' = events
      /\ UNCHANGED <<onDisk, pinned, excluded, removed, repoList, timers, discoveryPending, deferred, asleep, slot, watchers>>
  BY DEF PollSites, Refreshes, configVars, clockVars
<1>2. Types /\ Slots(slot, watchers, repoList)
  BY DEF DiscInv
<1>3. Known("root", events, gone, watchers) => Known("root", events', gone', watchers')
  BY <1>1, <1>2, PlacesAssumption DEF Known, Types
<1> QED BY <1>1, <1>2, <1>3, QuietKeeps DEF Types

(* The power probe and the end of the cooldown.                            *)
LEMMA ClockInv == ASSUME DiscInv, CooldownEnds \/ FallsAsleep PROVE DiscInv'
<1>1. /\ UNCHANGED <<onDisk, pinned, excluded, removed, repoList, timers, discoveryPending, deferred, slot, watchers, events, stale, gone>>
      /\ asleep' = asleep \/ asleep' = TRUE
  BY DEF CooldownEnds, FallsAsleep, configVars, clockVars
<1>2. Types' /\ Away' /\ Slots(slot', watchers', repoList') /\ Routed'
  BY <1>1 DEF DiscInv, Types, Away, IsDirectory, Routed
<1>3. OnItsWay'
  BY <1>1 DEF DiscInv, OnItsWay
<1> QED BY <1>2, <1>3 DEF DiscInv

-----------------------------------------------------------------------------
(* The user and the others.                                                *)

(* What the user commands ends in a discovery for the new configuration.   *)
LEMMA CommandInv ==
  ASSUME DiscInv, NEW queried, repoList' \ repoList \subseteq queried, Refreshes(queried, {"root"}),
         repoList' = Discovered(onDisk', pinned', excluded'), onDisk' = onDisk,
         pinned' \in SUBSET Sites, excluded' \in SUBSET Sites, removed' \in SUBSET Sites,
         (repoList' = repoList /\ UNCHANGED <<slot, watchers>>) \/ Request(repoList', watchers),
         removed' \cap pinned' = {},
         \A s \in removed' : s \in Walked /\ IsDirectory(onDisk, s) => s \in excluded',
         UNCHANGED <<events, asleep, timers, deferred>>, discoveryPending' => discoveryPending
  PROVE  DiscInv'
<1>1. repoList' \in SUBSET Sites
  BY DiscoveredSites
<1>2. Types /\ Slots(slot, watchers, repoList) /\ Routed
  BY DEF DiscInv
<1>3. PICK new \in SUBSET Sites : new = repoList'
  BY <1>1
<1>4. /\ slot' \in [requested : Nat, current : Nat, failed : BOOLEAN]
      /\ watchers' \in SUBSET Watcher /\ stale' \in SUBSET Sites
      /\ Slots(slot', watchers', repoList')
      /\ \A s \in stale' \cap repoList' : Known(s, events, gone', watchers')
  BY <1>2, <1>3, Adopts
<1>5. Types'
  BY <1>1, <1>2, <1>4 DEF Types
<1>6. OnItsWay'
  BY DEF DiscInv, OnItsWay
<1>7. Routed'
  BY <1>4 DEF Routed
<1>8. Away'
  <2>1. removed' \cap repoList' \subseteq Managed
    BY AwayFollows
  <2> QED BY <2>1 DEF Away, IsDirectory
<1> QED BY <1>4, <1>5, <1>6, <1>7, <1>8 DEF DiscInv

LEMMA AddRepoInv == ASSUME DiscInv, NEW r \in Sites, AddRepo(r) PROVE DiscInv'
<1>1. Types /\ Away
  BY DEF DiscInv
<1>2. /\ pinned' = (IF r \in repoList THEN pinned ELSE pinned \cup {r})
      /\ removed' = removed \ {r} /\ onDisk' = onDisk /\ excluded' = excluded /\ discoveryPending' = FALSE
      /\ UNCHANGED <<events, asleep, timers, deferred>>
      /\ BecomesListed(Discovered(onDisk, pinned', excluded), {"root"})
  BY DEF AddRepo
<1>3. /\ repoList' = Discovered(onDisk', pinned', excluded')
      /\ (repoList' = repoList /\ UNCHANGED <<slot, watchers>>) \/ Request(repoList', watchers)
      /\ Refreshes(repoList' \ repoList, {"root"})
  BY <1>2 DEF BecomesListed
<1>4. pinned' \in SUBSET Sites /\ excluded' \in SUBSET Sites /\ removed' \in SUBSET Sites
  BY <1>1, <1>2 DEF Types
<1>5. removed' \cap pinned' = {}
  BY <1>1, <1>2 DEF Away
<1>6. \A s \in removed' : s \in Walked /\ IsDirectory(onDisk, s) => s \in excluded'
  BY <1>1, <1>2 DEF Away
<1> QED BY <1>2, <1>3, <1>4, <1>5, <1>6, CommandInv

LEMMA RemoveRepoInv == ASSUME DiscInv, NEW r \in Sites, RemoveSite(r) PROVE DiscInv'
<1>1. Types /\ Away
  BY DEF DiscInv
<1>2. /\ pinned' = pinned \ {r} /\ onDisk' = onDisk /\ discoveryPending' = FALSE
      /\ removed' = (IF IsRepoRoot(onDisk, r) THEN removed \cup {r} ELSE removed)
      /\ excluded' = (IF r \in TopLevel \cup Walked \cup Managed /\ onDisk[r] \in {"dir", "link", "phantom"}
                      THEN excluded \cup {r} ELSE excluded)
      /\ UNCHANGED <<events, asleep, timers, deferred>>
      /\ repoList' = Discovered(onDisk', pinned', excluded') /\ Request(repoList', watchers)
      /\ Refreshes(repoList' \ repoList, {"root"})
  BY DEF RemoveSite
<1>4. pinned' \in SUBSET Sites /\ excluded' \in SUBSET Sites /\ removed' \in SUBSET Sites
  BY <1>1, <1>2 DEF Types
<1>5. removed' \cap pinned' = {}
  BY <1>1, <1>2 DEF Away
<1>6. \A s \in removed' : s \in Walked /\ IsDirectory(onDisk, s) => s \in excluded'
  BY <1>1, <1>2 DEF Away, IsDirectory
<1> QED BY <1>2, <1>4, <1>5, <1>6, CommandInv

LEMMA RescanReposInv == ASSUME DiscInv, RescanRepos PROVE DiscInv'
<1>1. /\ excluded' = {} /\ removed' = {} /\ onDisk' = onDisk /\ pinned' = pinned /\ discoveryPending' = discoveryPending
      /\ UNCHANGED <<events, asleep, timers, deferred>>
      /\ repoList' = Discovered(onDisk', pinned', excluded') /\ Request(repoList', watchers)
      /\ Refreshes(repoList', {"root"})
  BY DEF RescanRepos, clockVars
<1>2. pinned' \in SUBSET Sites
  BY <1>1 DEF DiscInv, Types
<1>3. repoList' \ repoList \subseteq repoList' /\ removed' \cap pinned' = {}
  BY <1>1
<1> QED BY <1>1, <1>2, <1>3, CommandInv

LEMMA ChangesInv ==
  ASSUME DiscInv, NEW r \in Sites, NEW layout \in {None, "dir", "phantom"}, Changes(r, layout)
  PROVE  DiscInv'
<1>1. Types /\ Slots(slot, watchers, repoList) /\ OnItsWay /\ Routed /\ Away
  BY DEF DiscInv
<1>2. /\ onDisk' = [onDisk EXCEPT ![r] = layout] /\ removed' = removed \ {r}
      /\ UNCHANGED <<pinned, excluded, repoList, slot, events, asleep, timers, discoveryPending, deferred, stale>>
  BY DEF Changes, clockVars
<1>3. /\ watchers' \in SUBSET Watcher /\ Slots(slot', watchers', repoList')
      /\ \A s : Known(s, events, gone, watchers) => Known(s, events, gone', watchers')
      /\ Known("root", events', gone', watchers')
  <2>1. CASE Notice(RootChild)
    <3>1. RootChild \in Spots /\ "root" \in Concerned(RootChild)
      BY DEF Spots, Concerned, RootChild
    <3>2. /\ watchers' \in SUBSET Watcher /\ Slots(slot, watchers', repoList)
          /\ \A s : Known(s, events, gone, watchers) => Known(s, events, gone', watchers')
          /\ \A s \in Concerned(RootChild) : Known(s, events, gone', watchers')
      BY <1>1, <2>1, <3>1, NoticeKeeps
    <3>3. Known("root", events', gone', watchers')
      BY <1>2, <3>1, <3>2
    <3> QED BY <1>2, <3>2, <3>3
  <2>2. CASE gone' = gone \cup {"root"} /\ UNCHANGED watchers
    BY <1>1, <1>2, <2>2 DEF Known, Types
  <2> QED BY <2>1, <2>2 DEF Changes
<1>4. Types'
  <2>1. layout \in Layouts
    BY DEF Layouts
  <2> QED BY <1>1, <1>2, <1>3, <2>1 DEF Types
<1>5. OnItsWay' /\ Routed'
  BY <1>1, <1>2, <1>3 DEF OnItsWay, Routed
<1>6. Away'
  <2>1. \A s \in Sites : s # r => onDisk'[s] = onDisk[s]
    BY <1>1, <1>2 DEF Types
  <2> QED BY <1>1, <1>2, <2>1 DEF Away, IsDirectory, Types
<1> QED BY <1>3, <1>4, <1>5, <1>6 DEF DiscInv

LEMMA EditInv ==
  ASSUME DiscInv, NEW r \in Sites, NEW part \in Parts, EditSite(r, part)
  PROVE  DiscInv'
<1> DEFINE p == Place(r, part)
<1>1. Types /\ Slots(slot, watchers, repoList) /\ Routed
  BY DEF DiscInv
<1>2. p \in [site : Sites, part : Parts] /\ p \in Spots /\ p.site = r /\ p.part = part
  BY DEF Place, Spots
<1>3. /\ Notice(p) /\ stale' = stale \cup Concerned(p)
      /\ UNCHANGED <<onDisk, pinned, excluded, removed, repoList, slot, events, asleep, timers, discoveryPending, deferred>>
  BY DEF EditSite, configVars, clockVars
<1> HIDE DEF p
<1>4. Concerned(p) \subseteq Sites
  <2>1. p # RootChild
    BY <1>2 DEF RootChild, Parts
  <2> QED BY <1>2, <2>1 DEF Concerned
<1>5. /\ watchers' \in SUBSET Watcher /\ Slots(slot, watchers', repoList)
      /\ \A s : Known(s, events, gone, watchers) => Known(s, events, gone', watchers')
      /\ \A s \in Concerned(p) : Known(s, events, gone', watchers')
  BY <1>1, <1>2, <1>3, NoticeKeeps
<1>6. Known("root", events, gone, watchers) => Known("root", events', gone', watchers')
  BY <1>3, <1>5
<1>7. \A s \in stale' \cap repoList : Known(s, events', gone', watchers')
  BY <1>1, <1>3, <1>5 DEF Routed
<1>8. stale' \in SUBSET Sites
  BY <1>1, <1>3, <1>4 DEF Types
<1> QED BY <1>1, <1>3, <1>5, <1>6, <1>7, <1>8, QuietKeeps DEF Types

LEMMA DiscStepInv == DiscInv /\ [DiscNext]_discVars => DiscInv'
<1> SUFFICES ASSUME DiscInv, [DiscNext]_discVars PROVE DiscInv'
  OBVIOUS
<1>1. CASE \E w \in watchers : Built(w) \/ BuildFails(w) \/ Install(w) \/ Deliver(w)
  BY <1>1, BuiltInv, BuildFailsInv, InstallInv, DeliverInv
<1>2. CASE HandleRoot \/ TimerFires \/ CooldownEnds \/ FallsAsleep \/ Wakes \/ PollSites \/ RescanRepos
  BY <1>2, HandleRootInv, TimerFiresInv, ClockInv, WakesInv, PollLocalInv, RescanReposInv
<1>3. CASE \E s \in Sites : HandleRepo(s) \/ AddRepo(s) \/ RemoveSite(s)
  BY <1>3, HandleRepoInv, AddRepoInv, RemoveRepoInv
<1>4. CASE \E s \in Sites : \E layout \in {None, "dir", "phantom"} : Changes(s, layout)
  BY <1>4, ChangesInv
<1>5. CASE \E s \in Sites : \E part \in {"tree", "private", "shared", "noise"} : EditSite(s, part)
  BY <1>5, EditInv DEF Parts
<1>6. CASE UNCHANGED discVars
  <2>1. /\ UNCHANGED <<onDisk, pinned, excluded, repoList, slot, watchers, events, asleep>>
        /\ UNCHANGED <<discoveryPending, timers, deferred, stale, gone, removed>>
    BY <1>6 DEF discVars
  <2>2. Types' /\ Away' /\ Slots(slot', watchers', repoList') /\ Routed'
    BY <2>1 DEF DiscInv, Types, Away, IsDirectory, Routed
  <2>3. OnItsWay'
    BY <2>1 DEF DiscInv, OnItsWay
  <2> QED BY <2>2, <2>3 DEF DiscInv
<1> QED BY <1>1, <1>2, <1>3, <1>4, <1>5, <1>6 DEF DiscNext

-----------------------------------------------------------------------------
(* The list follows the disk: a change that was noticed leads to a         *)
(* discovery or to a status, the newest watcher watches what is listed,    *)
(* and what the user removed stays away (App::handle_event,                *)
(* WatcherSlot::install, metadata_owners, RemoveRepo).                     *)
THEOREM ListAlwaysFollows == DiscSpec => []ListFollowsDisk
<1> QED BY DiscInitInv, DiscStepInv, InvImplies, PTL DEF DiscSpec

=============================================================================
