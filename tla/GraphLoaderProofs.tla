-------------------------- MODULE GraphLoaderProofs --------------------------
(***************************************************************************)
(* Proofs about the loading of the commit graph (GraphLoader), for any     *)
(* repositories, trees, filter settings, capacity and number of changes,   *)
(* commands and failures.                                                  *)
(*                                                                         *)
(* All but the types hold for lists that cannot become empty (NeverEmpty), *)
(* because an empty list restarts the generations (StaleReportsDropped     *)
(* fails there).  They say nothing of the order of the cache: which entry  *)
(* is evicted makes no difference to them.  Its size and its order come    *)
(* with the types, at the end.                                             *)
(***************************************************************************)
EXTENDS GraphLoader, WellFoundedInduction, TLAPS

NeverEmpty == Repos \ Removable # {}

(* Graph, whatever the order of the cache.                                 *)
Panel(order) ==
  [repo : Paths \cup {None}, options : Options, rows : Rows \cup {None},
   loading : BOOLEAN, error : BOOLEAN, inFlight : BOOLEAN, key : Keys \cup {None},
   needsReload : BOOLEAN, gen : Nat, aborts : Nat, detail : BOOLEAN,
   cache : [Keys -> Rows \cup {None}], used : {order}, life : Nat, builds : SUBSET Build]

CurrentOf(h) == {b \in h.builds : b.gen = h.gen}

(* No build is of a later generation.                                      *)
IsPanel(h) == h \in Panel(h.used) /\ \A b \in h.builds : b.gen <= h.gen

(* The current build is the one the panel waits for, or there is none.     *)
Busy(h) == \E b \in CurrentOf(h) : CurrentOf(h) = {b} /\ h.key = b.key /\ b.key.path = h.repo
Idle(h) == CurrentOf(h) = {} /\ h.key = None /\ ~h.loading

(* The filters were changed under the build.                               *)
Edited(h) == h.key # None /\ h.key # Key(h, h.key.path)

(* The panel as the next handler finds it.                                 *)
Latched(h) ==
  /\ IsPanel(h) /\ h.repo # None
  /\ IF h.inFlight THEN Busy(h) ELSE Idle(h)
  /\ h.needsReload => h.inFlight \/ h.detail
  /\ Edited(h) => h.needsReload

(* The builds started, and the one that is owed.                           *)
Debt(h) == h.gen + (IF h.needsReload THEN 1 ELSE 0)

-----------------------------------------------------------------------------
(* The methods of the panel.                                               *)

LEMMA KeyType ==
  ASSUME NEW h, IsPanel(h), NEW p \in Paths
  PROVE  Key(h, p) \in Keys /\ Key(h, p).path = p /\ Key(h, p).options = h.options
BY DEF IsPanel, Panel, Key, Keys

(* The build that is started is the only one of its generation.            *)
LEMMA SpawnLatches ==
  ASSUME NEW h, NEW p \in Paths, IsPanel(h), h.repo = p
  PROVE  LET t == Spawn(h, p) IN
         /\ IsPanel(t) /\ Busy(t) /\ ~Edited(t) /\ t.inFlight
         /\ t.needsReload = h.needsReload /\ t.gen = h.gen + 1 /\ t.repo = p
         /\ t.options = h.options /\ t.cache = h.cache /\ t.rows = h.rows
         /\ t.error = h.error /\ t.aborts = h.aborts /\ t.detail = h.detail
         /\ \A b \in CurrentOf(t) : b.read = 0
         /\ h.builds \subseteq t.builds
<1> DEFINE t == Spawn(h, p)
           n == [gen |-> h.gen + 1, life |-> h.life, key |-> Key(h, p), read |-> 0]
<1>1. n \in Build /\ n.gen = h.gen + 1 /\ n.key = Key(h, p) /\ n.read = 0
  BY KeyType DEF Build, IsPanel, Panel
<1>2. /\ t.gen = h.gen + 1 /\ t.inFlight = TRUE /\ t.key = Key(h, p)
      /\ t.repo = p /\ t.options = h.options /\ t.needsReload = h.needsReload
      /\ t.cache = h.cache /\ t.rows = h.rows /\ t.error = h.error
      /\ t.aborts = h.aborts /\ t.detail = h.detail
      /\ t.builds = h.builds \cup {n}
  BY DEF Spawn, IsPanel, Panel
<1>a. t \in Panel(t.used)
  <2>1. Key(h, p) \in Keys /\ h \in Panel(h.used)
    BY KeyType DEF IsPanel
  <2>2. h.gen + 1 \in Nat /\ h.builds \cup {n} \in SUBSET Build
    BY <1>1, <2>1 DEF Panel
  <2> HIDE DEF n
  <2>3. t = [h EXCEPT !.inFlight = TRUE, !.key = Key(h, p), !.gen = h.gen + 1, !.builds = h.builds \cup {n}]
    BY <2>1 DEF Spawn, Panel, n
  <2> HIDE DEF t
  <2> QED BY <2>1, <2>2, <2>3 DEF Panel
<1> HIDE DEF t, n
<1>3. h.gen \in Nat /\ \A b \in h.builds : b.gen \in Nat /\ b.gen <= h.gen
  BY DEF IsPanel, Panel, Build
<1>4. IsPanel(t)
  BY <1>1, <1>2, <1>a, <1>3 DEF IsPanel
<1>5. CurrentOf(t) = {n}
  BY <1>1, <1>2, <1>3 DEF CurrentOf
<1>6. ~Edited(t)
  BY <1>2 DEF Edited, Key
<1>7. Key(h, p).path = p
  BY KeyType
<1> QED BY <1>1, <1>2, <1>4, <1>5, <1>6, <1>7 DEF Busy, t

(* What loading a path leaves behind.  The build under way stays only if a *)
(* reload of the same repository has been remembered.                      *)
Loaded(h, p, t) ==
  /\ Latched(t) /\ t.repo = p /\ t.options = h.options /\ t.cache = h.cache
  /\ Debt(t) <= Debt(h) + 1 /\ h.builds \subseteq t.builds
  /\ t.rows # None => \/ h.repo = p /\ t.rows = h.rows
                      \/ t.rows = h.cache[Key(h, p)]
  /\ IF t.inFlight
     THEN \/ \A b \in CurrentOf(t) : b.read = 0
          \/ h.repo = p /\ h.inFlight /\ t.needsReload /\ CurrentOf(t) = CurrentOf(h)
     ELSE /\ t.rows = h.cache[Key(h, p)] /\ t.rows # None
          /\ h.repo = p => ~h.inFlight /\ ~h.needsReload

(* Closing the detail keeps the rest of a panel.                           *)
IsReset(u, w) ==
  /\ w \in Panel(w.used) /\ w.needsReload = FALSE /\ w.repo = u.repo /\ w.options = u.options
  /\ w.cache = u.cache /\ w.gen = u.gen /\ w.builds = u.builds /\ w.key = u.key /\ w.used = u.used
  /\ w.rows = u.rows

LEMMA ResetIs ==
  ASSUME NEW u, u \in Panel(u.used)
  PROVE  IsReset(u, ResetView(u))
<1> PICK w : w = ResetView(u)
  OBVIOUS
<1>1. w = [u EXCEPT !.detail = FALSE, !.needsReload = FALSE, !.aborts = 0]
  BY DEF ResetView
<1>2. w.needsReload = FALSE /\ w.repo = u.repo /\ w.options = u.options
  BY <1>1 DEF Panel
<1>3. w.cache = u.cache /\ w.gen = u.gen /\ w.builds = u.builds
  BY <1>1 DEF Panel
<1>4. w.key = u.key /\ w.used = u.used /\ w.rows = u.rows
  BY <1>1 DEF Panel
<1>5. w \in Panel(w.used)
  <2>1. PICK o : o = u.used
    OBVIOUS
  <2>2. u \in Panel(o)
    BY <2>1
  <2>3. w \in Panel(o)
    BY ONLY <1>1, <2>2 DEF Panel
  <2> QED BY ONLY <1>4, <2>1, <2>3
<1> QED BY <1>2, <1>3, <1>4, <1>5 DEF IsReset

(* A forced load is started, or remembered while the same one is running.  *)
LEMMA ForceLoads ==
  ASSUME NEW h, NEW p \in Paths, IsPanel(h), h.inFlight => Busy(h)
  PROVE  LET t == ForceReload(h, p) IN
         /\ Loaded(h, p, t) /\ t.inFlight
         /\ h.repo = p => t.rows = h.rows
<1> DEFINE t == ForceReload(h, p)
<1>1. CASE h.repo = p /\ h.inFlight
  <2>1. t = [h EXCEPT !.needsReload = TRUE]
    BY <1>1 DEF ForceReload
  <2> HIDE DEF t
  <2>2. h \in Panel(h.used)
    BY DEF IsPanel
  <2>3. /\ t.repo = p /\ t.options = h.options /\ t.cache = h.cache /\ t.rows = h.rows
        /\ t.inFlight /\ t.needsReload /\ t.gen = h.gen /\ t.key = h.key
        /\ t.builds = h.builds /\ t.used = h.used
    BY <1>1, <2>1, <2>2 DEF Panel
  <2>4. t \in Panel(t.used)
    BY <2>1, <2>2, <2>3 DEF Panel
  <2>5. IsPanel(t) /\ CurrentOf(t) = CurrentOf(h) /\ Busy(t)
    BY <1>1, <2>3, <2>4 DEF IsPanel, CurrentOf, Busy
  <2>6. Latched(t)
    BY <2>3, <2>5, PathsAssumption DEF Latched
  <2>7. Debt(t) <= Debt(h) + 1
    BY <2>2, <2>3 DEF Debt, Panel
  <2> QED BY <1>1, <2>3, <2>5, <2>6, <2>7 DEF Loaded, t
<1>2. CASE ~(h.repo = p /\ h.inFlight)
  <2> DEFINE u == [h EXCEPT !.repo = p, !.error = FALSE]
             w == ResetView([u EXCEPT !.loading = TRUE, !.rows = None])
             v == IF h.repo = p THEN u ELSE w
  <2>1. t = Spawn(v, p)
    BY <1>2 DEF ForceReload
  <2>2. h \in Panel(h.used)
    BY DEF IsPanel
  <2>3. /\ u.repo = p /\ u.options = h.options /\ u.cache = h.cache /\ u.rows = h.rows
        /\ u.needsReload = h.needsReload /\ u.gen = h.gen /\ u.builds = h.builds
        /\ u.used = h.used /\ u \in Panel(u.used)
    BY <2>2 DEF Panel
  <2>4. /\ w.repo = p /\ w.options = h.options /\ w.cache = h.cache /\ w.rows = None
        /\ w.needsReload = FALSE /\ w.gen = h.gen /\ w.builds = h.builds
        /\ w.used = h.used /\ w \in Panel(w.used)
    <3> DEFINE k == [u EXCEPT !.loading = TRUE, !.rows = None]
    <3> HIDE DEF u
    <3>1. /\ k \in Panel(k.used) /\ k.repo = u.repo /\ k.options = u.options /\ k.cache = u.cache
          /\ k.rows = None /\ k.gen = u.gen /\ k.builds = u.builds /\ k.used = u.used
      BY <2>3 DEF Panel
    <3>2. w = ResetView(k)
      OBVIOUS
    <3> HIDE DEF k, w
    <3>3. IsReset(k, w)
      BY <3>1, <3>2, ResetIs
    <3> QED BY <2>3, <3>1, <3>3 DEF IsReset
  <2> HIDE DEF u, w
  <2>5. /\ IsPanel(v) /\ v.repo = p /\ v.options = h.options /\ v.cache = h.cache
        /\ v.gen = h.gen /\ v.builds = h.builds /\ (v.needsReload => h.needsReload)
        /\ v.rows = IF h.repo = p THEN h.rows ELSE None
    BY <2>3, <2>4 DEF IsPanel
  <2> HIDE DEF v, t
  <2>6. /\ IsPanel(t) /\ Busy(t) /\ ~Edited(t) /\ t.inFlight
        /\ (t.needsReload => v.needsReload) /\ t.gen = v.gen + 1 /\ t.repo = p
        /\ t.options = v.options /\ t.cache = v.cache /\ t.rows = v.rows
        /\ \A b \in CurrentOf(t) : b.read = 0
        /\ v.builds \subseteq t.builds
    BY <2>1, <2>5, SpawnLatches
  <2>7. Latched(t)
    BY <2>6, PathsAssumption DEF Latched
  <2>8. Debt(t) <= Debt(h) + 1
    BY <2>2, <2>5, <2>6 DEF Debt, Panel
  <2> QED BY <2>5, <2>6, <2>7, <2>8 DEF Loaded, t
<1> QED BY <1>1, <1>2

(* A remembered reload is started, everything else stays.                  *)
Resumed(h, t) ==
  /\ Latched(t) /\ t.repo = h.repo /\ t.options = h.options /\ t.cache = h.cache
  /\ t.rows = h.rows /\ Debt(t) <= Debt(h) /\ h.builds \subseteq t.builds
  /\ t.inFlight = (h.inFlight \/ h.needsReload)
  /\ ~t.inFlight => t.error = h.error /\ t.aborts = h.aborts
  /\ \/ \A b \in CurrentOf(t) : b.read = 0
     \/ h.inFlight /\ CurrentOf(t) = CurrentOf(h) /\ t.needsReload = h.needsReload

LEMMA PendingResumes ==
  ASSUME NEW h, IsPanel(h), h.repo # None, IF h.inFlight THEN Busy(h) ELSE Idle(h),
         Edited(h) => h.needsReload
  PROVE  Resumed(h, ReloadPending(h))
<1> DEFINE t == [h EXCEPT !.needsReload = FALSE]
           n == ReloadPending(h)
<1>1. h \in Panel(h.used) /\ h.repo \in Paths
  BY DEF IsPanel, Panel
<1>2. /\ t.repo = h.repo /\ t.options = h.options /\ t.cache = h.cache /\ t.rows = h.rows
      /\ t.inFlight = h.inFlight /\ t.gen = h.gen /\ t.key = h.key /\ t.error = h.error
      /\ t.aborts = h.aborts /\ t.loading = h.loading /\ t.needsReload = FALSE
      /\ t.builds = h.builds /\ t.used = h.used /\ t \in Panel(t.used)
  BY <1>1 DEF Panel
<1>3. n = IF h.needsReload THEN ForceReload(t, h.repo) ELSE t
  BY DEF ReloadPending
<1> HIDE DEF t, n
<1>4. IsPanel(t) /\ CurrentOf(t) = CurrentOf(h) /\ (IF t.inFlight THEN Busy(t) ELSE Idle(t))
  BY <1>2 DEF IsPanel, CurrentOf, Busy, Idle
<1>5. CASE h.needsReload
  <2>1. Loaded(t, h.repo, n) /\ n.inFlight /\ n.rows = t.rows
    BY <1>1, <1>2, <1>3, <1>4, <1>5, ForceLoads
  <2>2. Debt(n) <= Debt(h)
    BY <1>1, <1>2, <1>5, <2>1 DEF Loaded, Debt, Panel
  <2> QED BY <1>2, <1>4, <1>5, <2>1, <2>2 DEF Loaded, Resumed, n
<1>6. CASE ~h.needsReload
  <2>1. n = t
    BY <1>3, <1>6
  <2>2. ~Edited(t)
    BY <1>2, <1>6 DEF Edited, Key
  <2>3. Latched(t)
    BY <1>2, <1>4, <2>2 DEF Latched
  <2>4. Debt(t) <= Debt(h)
    BY <1>1, <1>2 DEF Debt, Panel
  <2>5. ~h.inFlight => CurrentOf(t) = {}
    BY <1>2, <1>4 DEF Idle
  <2>6. h.needsReload = FALSE /\ t.inFlight = (h.inFlight \/ h.needsReload)
    BY <1>1, <1>2, <1>6 DEF Panel
  <2>7. \/ \A b \in CurrentOf(t) : b.read = 0
        \/ h.inFlight /\ CurrentOf(t) = CurrentOf(h) /\ t.needsReload = h.needsReload
    BY <1>2, <1>4, <2>5, <2>6
  <2> QED BY <1>2, <2>1, <2>3, <2>4, <2>6, <2>7 DEF Resumed, n
<1> QED BY <1>5, <1>6

(* Forgetting and inserting change the cache alone.                        *)
Recached(h, t) ==
  /\ IsPanel(t)
  /\ t.repo = h.repo /\ t.options = h.options /\ t.rows = h.rows /\ t.loading = h.loading
  /\ t.error = h.error /\ t.inFlight = h.inFlight /\ t.key = h.key
  /\ t.needsReload = h.needsReload /\ t.gen = h.gen /\ t.aborts = h.aborts
  /\ t.detail = h.detail /\ t.builds = h.builds

LEMMA Forgets ==
  ASSUME NEW h, IsPanel(h), NEW S
  PROVE  LET t == Forget(h, S) IN
         Recached(h, t) /\ t.cache = [k \in Keys |-> IF k \in S THEN None ELSE h.cache[k]]
<1> DEFINE n == [k \in Keys |-> IF k \in S THEN None ELSE h.cache[k]]
           o == Without(h.used, S)
           t == Forget(h, S)
<1>1. h \in Panel(h.used)
  BY DEF IsPanel
<1>2. n \in [Keys -> Rows \cup {None}]
  BY <1>1 DEF Panel
<1>3. t = [h EXCEPT !.cache = n, !.used = o]
  BY <1>1 DEF Forget, Panel
<1> HIDE DEF n, o, t
<1>4. /\ t.repo = h.repo /\ t.options = h.options /\ t.rows = h.rows /\ t.loading = h.loading
      /\ t.error = h.error /\ t.inFlight = h.inFlight /\ t.key = h.key
      /\ t.needsReload = h.needsReload /\ t.gen = h.gen /\ t.aborts = h.aborts
      /\ t.detail = h.detail /\ t.builds = h.builds /\ t.cache = n /\ t.used = o
  BY <1>1, <1>3 DEF Panel
<1>5. t \in Panel(t.used)
  BY <1>1, <1>2, <1>3, <1>4 DEF Panel
<1> QED BY <1>4, <1>5 DEF Recached, IsPanel, n, t

LEMMA Inserts ==
  ASSUME NEW h, IsPanel(h), NEW k \in Keys, NEW rows \in Rows
  PROVE  LET t == Insert(h, k, rows) IN
         /\ Recached(h, t) /\ t.cache[k] = rows
         /\ \A x \in Keys \ {k} : t.cache[x] \in {None, h.cache[x]}
         /\ h.cache[k] # None => \A x \in Keys \ {k} : t.cache[x] = h.cache[x]
<1> DEFINE full == h.cache[k] = None /\ Len(h.used) >= Capacity
           u == IF full THEN Forget(h, {Head(h.used)}) ELSE h
           o == Append(Without(u.used, {k}), k)
           t == Insert(h, k, rows)
<1>1. IsPanel(h) /\ Recached(h, h)
  BY DEF Recached
<1>2. /\ Recached(h, u) /\ \A x \in Keys : u.cache[x] \in {None, h.cache[x]}
      /\ h.cache[k] # None => u = h
  <2>1. CASE full
    <3> DEFINE S == {Head(h.used)}
    <3>1. u = Forget(h, S) /\ h.cache[k] = None
      BY <2>1
    <3> HIDE DEF S, u
    <3>2. /\ Recached(h, u)
          /\ u.cache = [x \in Keys |-> IF x \in S THEN None ELSE h.cache[x]]
      BY <3>1, Forgets
    <3> QED BY <3>1, <3>2
  <2>2. CASE ~full
    BY <1>1, <2>2
  <2> QED BY <2>1, <2>2
<1>3. u \in Panel(u.used)
  BY <1>2 DEF Recached, IsPanel
<1>4. t = [u EXCEPT !.cache = [u.cache EXCEPT ![k] = rows], !.used = o]
  BY <1>3 DEF Insert, Panel
<1> HIDE DEF full, u, o, t
<1>5. /\ t.repo = u.repo /\ t.options = u.options /\ t.rows = u.rows /\ t.loading = u.loading
      /\ t.error = u.error /\ t.inFlight = u.inFlight /\ t.key = u.key
      /\ t.needsReload = u.needsReload /\ t.gen = u.gen /\ t.aborts = u.aborts
      /\ t.detail = u.detail /\ t.builds = u.builds /\ t.cache = [u.cache EXCEPT ![k] = rows]
      /\ t.used = o
  BY <1>3, <1>4 DEF Panel
<1>6. [u.cache EXCEPT ![k] = rows] \in [Keys -> Rows \cup {None}]
  BY <1>3 DEF Panel
<1>7. t \in Panel(t.used)
  BY <1>3, <1>4, <1>5, <1>6 DEF Panel
<1>8. /\ t.cache[k] = rows /\ \A x \in Keys \ {k} : t.cache[x] = u.cache[x]
  BY <1>3, <1>5 DEF Panel
<1>9. Recached(h, t)
  BY <1>2, <1>5, <1>7 DEF Recached, IsPanel
<1> QED BY <1>2, <1>8, <1>9 DEF t

(* Rows are shown and cached, or built again for the filters of now.       *)
Settled(h, rows, t) ==
  /\ Latched(t) /\ t.repo = h.repo /\ t.options = h.options /\ Debt(t) <= Debt(h)
  /\ \A b \in CurrentOf(t) : b.read = 0
  /\ h.builds \subseteq t.builds
  /\ Edited(h) => t.inFlight /\ t.cache = h.cache /\ t.rows = h.rows
  /\ ~Edited(h) =>
       LET k == Key(h, h.repo) IN
       /\ t.rows = rows /\ t.inFlight = h.needsReload
       /\ t.cache[k] = rows
       /\ \A x \in Keys \ {k} : t.cache[x] \in {None, h.cache[x]}
       /\ h.cache[k] = rows => t.cache = h.cache

LEMMA RowsSettle ==
  ASSUME NEW h, IsPanel(h), CurrentOf(h) = {}, h.repo # None, NEW rows \in Rows,
         h.key # None => h.key.path = h.repo, Edited(h) => h.needsReload
  PROVE  Settled(h, rows, SetRows(h, rows))
<1> DEFINE t == SetRows(h, rows)
<1>1. h \in Panel(h.used) /\ h.repo \in Paths
  BY DEF IsPanel, Panel
<1>2. CASE Edited(h)
  <2> DEFINE u == [h EXCEPT !.key = None, !.inFlight = FALSE, !.needsReload = FALSE]
  <2>1. t = ForceReload(u, h.repo)
    BY <1>2 DEF SetRows, Edited
  <2>2. /\ u.repo = h.repo /\ u.options = h.options /\ u.cache = h.cache /\ u.rows = h.rows
        /\ u.inFlight = FALSE /\ u.gen = h.gen /\ u.needsReload = FALSE
        /\ u.builds = h.builds /\ u.used = h.used /\ u \in Panel(u.used)
    BY <1>1 DEF Panel
  <2> HIDE DEF u, t
  <2>3. IsPanel(u)
    BY <2>2 DEF IsPanel
  <2>4. Loaded(u, h.repo, t) /\ t.inFlight /\ t.rows = u.rows
    BY <1>1, <2>1, <2>2, <2>3, ForceLoads
  <2>5. Debt(t) <= Debt(h)
    BY <1>1, <1>2, <2>2, <2>4 DEF Loaded, Debt, Panel
  <2> QED BY <1>2, <2>2, <2>4, <2>5 DEF Loaded, Settled, t
<1>3. CASE ~Edited(h)
  <2> DEFINE k == Key(h, h.repo)
             i == Insert(h, k, rows)
             u == [i EXCEPT !.key = None, !.rows = rows, !.loading = FALSE, !.inFlight = FALSE,
                            !.aborts = 0]
  <2>1. t = ReloadPending(u)
    BY <1>3 DEF SetRows, Edited
  <2>2. k \in Keys
    BY <1>1, KeyType
  <2>3. /\ Recached(h, i) /\ i.cache[k] = rows
        /\ \A x \in Keys \ {k} : i.cache[x] \in {None, h.cache[x]}
        /\ h.cache[k] # None => \A x \in Keys \ {k} : i.cache[x] = h.cache[x]
    BY <2>2, Inserts
  <2>4. i \in Panel(i.used)
    BY <2>3 DEF Recached, IsPanel
  <2> HIDE DEF i, k
  <2>5. /\ u.repo = h.repo /\ u.options = h.options /\ u.cache = i.cache /\ u.rows = rows
        /\ u.inFlight = FALSE /\ u.gen = h.gen /\ u.needsReload = h.needsReload /\ u.key = None
        /\ u.loading = FALSE /\ u.builds = h.builds /\ u.used = i.used
    BY <2>3, <2>4 DEF Panel, Recached
  <2>6. u \in Panel(u.used)
    BY <2>4, <2>5 DEF Panel
  <2> HIDE DEF u, t
  <2>7. IsPanel(u) /\ Idle(u) /\ ~Edited(u)
    BY <2>5, <2>6 DEF IsPanel, Idle, CurrentOf, Edited
  <2>8. Resumed(u, t)
    BY <2>1, <2>5, <2>7, PendingResumes
  <2>9. Debt(t) <= Debt(h)
    BY <2>5, <2>8 DEF Resumed, Debt
  <2>10. h.cache[k] = rows => i.cache = h.cache
    <3>1. h.cache \in [Keys -> Rows \cup {None}] /\ i.cache \in [Keys -> Rows \cup {None}]
      BY <1>1, <2>4 DEF Panel
    <3> QED BY <2>3, <3>1, PathsAssumption
  <2>11. t.inFlight = h.needsReload
    BY <1>1, <2>5, <2>8 DEF Resumed, Panel
  <2> QED BY <1>3, <2>3, <2>5, <2>8, <2>9, <2>10, <2>11 DEF Resumed, Settled, k, t
<1> QED BY <1>2, <1>3

(* A path is loaded from the cache, or built.                              *)
LEMMA RepoLoads ==
  ASSUME NEW h, NEW p \in Paths, IsPanel(h), h.inFlight => Busy(h)
  PROVE  Loaded(h, p, LoadRepo(h, p))
<1> DEFINE t == LoadRepo(h, p)
           hit == h.cache[Key(h, p)]
<1>1. CASE hit = None \/ (h.repo = p /\ h.inFlight)
  BY <1>1, ForceLoads DEF LoadRepo
<1>2. CASE ~(hit = None \/ (h.repo = p /\ h.inFlight))
  <2> DEFINE u == [h EXCEPT !.repo = p, !.error = FALSE, !.gen = @ + 1, !.key = None]
             w == ResetView(u)
             v == IF h.repo = p THEN u ELSE w
  <2>1. t = SetRows(v, hit)
    BY <1>2 DEF LoadRepo
  <2>2. h \in Panel(h.used)
    BY DEF IsPanel
  <2>3. /\ u.repo = p /\ u.options = h.options /\ u.cache = h.cache
        /\ u.needsReload = h.needsReload /\ u.gen = h.gen + 1 /\ u.builds = h.builds
        /\ u.key = None /\ u.used = h.used
    BY <2>2 DEF Panel
  <2>a. u \in Panel(u.used)
    <3>1. h.gen + 1 \in Nat
      BY <2>2 DEF Panel
    <3> QED BY <2>2, <2>3, <3>1 DEF Panel
  <2>4. /\ w.repo = p /\ w.options = h.options /\ w.cache = h.cache
        /\ w.needsReload = FALSE /\ w.gen = h.gen + 1 /\ w.builds = h.builds
        /\ w.key = None /\ w.used = h.used /\ w \in Panel(w.used)
    <3>1. w = ResetView(u)
      OBVIOUS
    <3> HIDE DEF u, w
    <3>2. IsReset(u, w)
      BY <2>a, <3>1, ResetIs
    <3> QED BY <2>3, <3>2 DEF IsReset
  <2> HIDE DEF u, w
  <2>5. h.gen \in Nat /\ \A b \in h.builds : b.gen \in Nat /\ b.gen <= h.gen
    BY <2>2 DEF IsPanel, Panel, Build
  <2>6. IsPanel(u) /\ IsPanel(w) /\ CurrentOf(u) = {} /\ CurrentOf(w) = {}
    BY <2>3, <2>a, <2>4, <2>5 DEF IsPanel, CurrentOf
  <2>7. /\ IsPanel(v) /\ v.repo = p /\ v.options = h.options /\ v.cache = h.cache
        /\ v.gen = h.gen + 1 /\ v.key = None /\ CurrentOf(v) = {} /\ v.builds = h.builds
        /\ v.needsReload \in BOOLEAN
        /\ IF h.repo = p THEN v.needsReload = h.needsReload ELSE v.needsReload = FALSE
    BY <2>2, <2>3, <2>4, <2>6 DEF Panel
  <2>8. hit \in Rows /\ Key(v, p) = Key(h, p)
    <3>1. Key(h, p) \in Keys /\ Key(v, p) = Key(h, p)
      BY <2>7, KeyType DEF Key
    <3> QED BY <1>2, <2>2, <3>1 DEF Panel
  <2> HIDE DEF v, t, hit
  <2>9. ~Edited(v) /\ Settled(v, hit, t)
    BY <2>1, <2>7, <2>8, RowsSettle, PathsAssumption DEF Edited
  <2>10. Debt(v) <= Debt(h) + 1
    BY <2>2, <2>5, <2>7 DEF Debt, Panel
  <2>11. Debt(t) <= Debt(h) + 1
    <3>1. Debt(t) \in Nat /\ Debt(v) \in Nat /\ Debt(h) \in Nat
      BY <2>2, <2>7, <2>9 DEF Settled, Latched, IsPanel, Panel, Debt
    <3> QED BY <2>9, <2>10, <3>1 DEF Settled
  <2>12. /\ Latched(t) /\ t.repo = p /\ t.options = h.options /\ t.rows = hit
         /\ t.inFlight = v.needsReload
         /\ \A b \in CurrentOf(t) : b.read = 0
        /\ h.builds \subseteq t.builds
    BY <2>7, <2>9 DEF Settled
  <2>13. t.cache = h.cache
    <3>1. v.cache[Key(v, v.repo)] = hit
      BY <2>7, <2>8 DEF hit
    <3> QED BY <2>7, <2>9, <3>1 DEF Settled
  <2>14. hit # None
    BY <2>8, PathsAssumption
  <2>15. h.repo = p => ~h.inFlight /\ h.needsReload = v.needsReload
    BY <1>2, <2>7 DEF hit
  <2> QED BY <2>11, <2>12, <2>13, <2>14, <2>15 DEF Loaded, hit, t
<1> QED BY <1>1, <1>2

(* A build that failed or was aborted leaves an error or one more abort,   *)
(* unless a remembered reload follows.                                     *)
Failed(h, t) ==
  /\ Latched(t) /\ t.repo = h.repo /\ t.options = h.options /\ t.cache = h.cache
  /\ t.rows = h.rows /\ Debt(t) <= Debt(h) /\ h.builds \subseteq t.builds
  /\ \A b \in CurrentOf(t) : b.read = 0
  /\ ~t.inFlight => t.error \/ t.aborts > h.aborts

LEMMA ErrorFails ==
  ASSUME NEW h, IsPanel(h), CurrentOf(h) = {}, h.repo # None
  PROVE  Failed(h, SetError(h))
<1> DEFINE u == [h EXCEPT !.error = TRUE, !.loading = FALSE, !.inFlight = FALSE, !.key = None]
           t == SetError(h)
<1>1. t = ReloadPending(u)
  BY DEF SetError
<1>2. h \in Panel(h.used)
  BY DEF IsPanel
<1>3. /\ u.repo = h.repo /\ u.options = h.options /\ u.cache = h.cache /\ u.rows = h.rows
      /\ u.inFlight = FALSE /\ u.gen = h.gen /\ u.needsReload = h.needsReload
      /\ u.key = None /\ u.loading = FALSE /\ u.error = TRUE /\ u.builds = h.builds
      /\ u.used = h.used /\ u \in Panel(u.used)
  BY <1>2 DEF Panel
<1> HIDE DEF u, t
<1>4. IsPanel(u) /\ Idle(u) /\ ~Edited(u)
  BY <1>3 DEF IsPanel, Idle, CurrentOf, Edited
<1>5. Resumed(u, t)
  BY <1>1, <1>3, <1>4, PendingResumes
<1>6. Debt(u) = Debt(h)
  BY <1>3 DEF Debt
<1>7. CurrentOf(u) = {}
  BY <1>4 DEF Idle
<1> QED BY <1>3, <1>5, <1>6, <1>7 DEF Resumed, Failed, t

LEMMA AbortFails ==
  ASSUME NEW h, IsPanel(h), CurrentOf(h) = {}, h.repo # None, h.inFlight
  PROVE  Failed(h, AbortLoad(h))
<1> DEFINE u == [h EXCEPT !.inFlight = FALSE, !.key = None, !.loading = FALSE, !.aborts = @ + 1]
           w == [u EXCEPT !.needsReload = FALSE, !.error = TRUE]
           t == AbortLoad(h)
<1>1. t = IF u.aborts > MaxAborts THEN w ELSE ReloadPending(u)
  BY DEF AbortLoad
<1>2. h \in Panel(h.used) /\ h.aborts \in Nat
  BY DEF IsPanel, Panel
<1>3. /\ u.repo = h.repo /\ u.options = h.options /\ u.cache = h.cache /\ u.rows = h.rows
      /\ u.inFlight = FALSE /\ u.gen = h.gen /\ u.needsReload = h.needsReload
      /\ u.key = None /\ u.loading = FALSE /\ u.aborts = h.aborts + 1 /\ u.builds = h.builds
      /\ u.used = h.used
  BY <1>2 DEF Panel
<1>4. u \in Panel(u.used)
  <2>1. h.aborts + 1 \in Nat
    BY <1>2
  <2> QED BY <1>2, <1>3, <2>1 DEF Panel
<1>5. /\ w.repo = h.repo /\ w.options = h.options /\ w.cache = h.cache /\ w.rows = h.rows
      /\ w.inFlight = FALSE /\ w.gen = h.gen /\ w.needsReload = FALSE
      /\ w.key = None /\ w.loading = FALSE /\ w.error = TRUE /\ w.builds = h.builds
      /\ w.used = h.used /\ w \in Panel(w.used)
  BY <1>3, <1>4 DEF Panel
<1> HIDE DEF u, w, t
<1>6. IsPanel(u) /\ Idle(u) /\ ~Edited(u)
  BY <1>3, <1>4 DEF IsPanel, Idle, CurrentOf, Edited
<1>7. CASE u.aborts > MaxAborts
  <2>1. IsPanel(w) /\ Idle(w) /\ ~Edited(w)
    BY <1>5 DEF IsPanel, Idle, CurrentOf, Edited
  <2>2. Latched(w)
    BY <1>5, <2>1 DEF Latched
  <2>3. Debt(w) <= Debt(h)
    BY <1>2, <1>5 DEF Debt, Panel
  <2>4. CurrentOf(w) = {}
    BY <2>1 DEF Idle
  <2> QED BY <1>1, <1>5, <1>7, <2>2, <2>3, <2>4 DEF Failed, t
<1>8. CASE ~(u.aborts > MaxAborts)
  <2>1. Resumed(u, t)
    BY <1>1, <1>3, <1>6, <1>8, PendingResumes
  <2>2. Debt(u) = Debt(h)
    BY <1>3 DEF Debt
  <2>3. CurrentOf(u) = {}
    BY <1>6 DEF Idle
  <2> QED BY <1>2, <1>3, <2>1, <2>2, <2>3 DEF Resumed, Failed, t
<1> QED BY <1>7, <1>8

(* An active tree is built from disk, or once its open detail is closed.   *)
Refreshed(h, p, t) ==
  /\ Latched(t) /\ t.repo = p /\ t.options = h.options /\ Debt(t) <= Debt(h) + 1
  /\ t.cache = [k \in Keys |-> IF k.path = p THEN None ELSE h.cache[k]]
  /\ t.rows = h.rows /\ h.builds \subseteq t.builds
  /\ t.inFlight \/ (t.error = h.error /\ t.aborts = h.aborts /\ ~h.inFlight)

LEMMA TreeRefreshes ==
  ASSUME NEW h, NEW p \in Paths, Latched(h), h.repo = p
  PROVE  Refreshed(h, p, RefreshTree(h, p))
<1> DEFINE S == {k \in Keys : k.path = p}
           u == Forget(h, S)
           w == [u EXCEPT !.needsReload = TRUE]
           t == RefreshTree(h, p)
<1>1. t = IF u.detail THEN w ELSE ForceReload(u, p)
  BY DEF RefreshTree, Invalidate
<1>2. Recached(h, u) /\ u.cache = [k \in Keys |-> IF k \in S THEN None ELSE h.cache[k]]
  BY Forgets DEF Latched
<1>3. u.cache = [k \in Keys |-> IF k.path = p THEN None ELSE h.cache[k]]
  BY <1>2
<1> HIDE DEF S, u, t
<1>4. IsPanel(u) /\ u \in Panel(u.used) /\ CurrentOf(u) = CurrentOf(h) /\ IsPanel(h)
  BY <1>2 DEF Recached, IsPanel, CurrentOf, Latched
<1>5. IF u.inFlight THEN Busy(u) ELSE Idle(u)
  BY <1>2, <1>4 DEF Recached, Latched, Busy, Idle
<1>6. Debt(u) = Debt(h) /\ Debt(h) \in Nat
  BY <1>2, <1>4 DEF Recached, Debt, IsPanel, Panel
<1>7. CASE u.detail
  <2>1. /\ w.repo = u.repo /\ w.options = u.options /\ w.cache = u.cache /\ w.rows = u.rows
        /\ w.inFlight = u.inFlight /\ w.gen = u.gen /\ w.needsReload = TRUE
        /\ w.key = u.key /\ w.loading = u.loading /\ w.error = u.error /\ w.builds = u.builds
        /\ w.aborts = u.aborts /\ w.detail = u.detail /\ w.used = u.used
    BY <1>4 DEF Panel
  <2>2. w \in Panel(w.used)
    BY <1>4, <2>1 DEF Panel
  <2> HIDE DEF w
  <2>3. IsPanel(w) /\ IF w.inFlight THEN Busy(w) ELSE Idle(w)
    BY <1>4, <1>5, <2>1, <2>2 DEF IsPanel, Busy, Idle, CurrentOf
  <2>4. Latched(w)
    BY <1>2, <1>7, <2>1, <2>3 DEF Latched, Recached
  <2>5. Debt(w) <= Debt(u) + 1
    BY <1>4, <2>1 DEF Debt, Panel
  <2> QED BY <1>1, <1>2, <1>3, <1>6, <1>7, <2>1, <2>4, <2>5 DEF Recached, Refreshed, t
<1>8. CASE ~u.detail
  <2>1. t = ForceReload(u, p)
    BY <1>1, <1>8
  <2>2. Loaded(u, p, t) /\ t.inFlight /\ (u.repo = p => t.rows = u.rows)
    BY <1>4, <1>5, <2>1, ForceLoads
  <2> QED BY <1>2, <1>3, <1>6, <2>2 DEF Recached, Loaded, Refreshed, t
<1> QED BY <1>7, <1>8

-----------------------------------------------------------------------------
(* The inductive invariant.                                                *)

(* The rows are of the panel's repository and filters, but for those that  *)
(* wait for a build or were left by one that failed; the cache is right.   *)
RowsInv(h) ==
  /\ h.rows # None =>
       /\ h.rows.key.path = h.repo
       /\ h.rows.key.options = h.options \/ h.inFlight \/ h.error \/ h.aborts > 0
  /\ \A k \in Keys : h.cache[k] # None => h.cache[k].key = k

(* What is shown, cached or read is behind the status of its repository    *)
(* (kn) only as long as a reload is under way, as the cursor has moved on  *)
(* (away), or as the history d tells of it.                                *)
Behind(k, version, kn) == k.path \in Repos /\ version < kn[k.path]

EntriesCatchUp(h, d, kn) ==
  \A k \in Keys :
    h.cache[k] # None /\ Behind(k, h.cache[k].version, kn) =>
      k \in d \/ (Pending(h) /\ k = Key(h, h.repo))

BuildCatchesUp(h, kn, away) ==
  \A b \in CurrentOf(h) :
    b.read > 0 /\ Behind(b.key, b.read, kn) =>
      /\ h.needsReload \/ away
      /\ \A k \in Keys : k.path = b.key.path => h.cache[k] = None

RowsCatchUp(h, d, kn, away) ==
  h.rows # None /\ Behind(Key(h, h.repo), h.rows.version, kn) =>
    Pending(h) \/ away \/ h.error \/ h.aborts > 0 \/ Key(h, h.repo) \in d

CatchesUp(h, d, kn, away) ==
  /\ \A k \in d : h.cache[k] # None
  /\ EntriesCatchUp(h, d, kn) /\ BuildCatchesUp(h, kn, away) /\ RowsCatchUp(h, d, kn, away)

(* The cursor is on a row whose SelectRepo or SelectWorktree is to come.   *)
Away(p, rows) == p # None /\ RowOf(p) \in rows

(* Otherwise the panel shows the active tree or the selected repository,   *)
(* or it kept a tree that is active no longer.                             *)
Follows ==
  /\ active # None => g.repo = active
  /\ active = None /\ ~Away(posted, listed) => g.repo \in Trees \/ g.repo = selected

Books ==
  /\ refs \in [Paths -> Nat] /\ known \in [Repos -> Nat]
  /\ \A r \in Repos : known[r] <= refs[r]
  /\ listed \subseteq Repos /\ Repos \ Removable \subseteq listed /\ selected \in listed
  /\ active \in Trees \cup {None} /\ posted \in Paths \cup {None}
  /\ asked \in Nat

Inv ==
  /\ NeverEmpty /\ Latched(g) /\ RowsInv(g) /\ Debt(g) <= asked
  /\ Books /\ Follows /\ CatchesUp(g, dropped, known, Away(posted, listed))

-----------------------------------------------------------------------------
(* How the invariant survives a change of the panel.                       *)

(* The history remembers.                                                  *)
LEMMA DroppedCached ==
  ASSUME NEW t, Becomes(t)
  PROVE  \A k \in dropped' : t.cache[k] # None
BY DEF Becomes

LEMMA DroppedNow ==
  ASSUME NEW t, Becomes(t), NEW k \in Keys, t.cache[k] # None
  PROVE  /\ g' = t
         /\ t.cache[k] = g.cache[k] =>
              /\ k \in dropped => k \in dropped'
              /\ Pending(g) /\ GivenUp(g, t) /\ k = Key(g, g.repo) => k \in dropped'
         /\ t.cache[k] # g.cache[k] /\ posted # None => k \in dropped'
BY DEF Becomes

(* A panel about to load: what it caches is what g caches, and behind the  *)
(* statuses kn only where g accounts for it.                               *)
Prepared(h, kn) ==
  /\ IsPanel(h) /\ h.repo = g.repo /\ h.rows = g.rows /\ h.inFlight = g.inFlight
  /\ h.needsReload = g.needsReload /\ h.gen = g.gen /\ CurrentOf(h) = CurrentOf(g)
  /\ h.inFlight => Busy(h)
  /\ \A k \in Keys : h.cache[k] # None => h.cache[k] = g.cache[k]
  /\ \A k \in Keys :
       h.cache[k] # None /\ Behind(k, h.cache[k].version, kn) =>
         k \in dropped \/ (Pending(g) /\ k = Key(g, g.repo))
  /\ \A b \in CurrentOf(h) :
       b.read > 0 /\ Behind(b.key, b.read, kn) =>
         \A k \in Keys : k.path = b.key.path => h.cache[k] = None

Holds(t, d, kn, away) ==
  Latched(t) /\ RowsInv(t) /\ CatchesUp(t, d, kn, away) /\ Debt(t) <= asked'

LEMMA LoadHolds ==
  ASSUME Inv, NEW h, NEW kn, NEW away, Prepared(h, kn), NEW p \in Paths,
         NEW t, Loaded(h, p, t), Loads(t)
  PROVE  g' = t /\ Holds(t, dropped', kn, away)
<1>1. /\ Latched(t) /\ t.repo = p /\ t.options = h.options /\ t.cache = h.cache
      /\ IsPanel(h) /\ Becomes(t) /\ asked' = asked + 1 /\ asked \in Nat /\ g' = t
  BY DEF Loaded, Prepared, Loads, Becomes, Inv, Books
<1>2. h.cache \in [Keys -> Rows \cup {None}] /\ t.needsReload \in BOOLEAN
  BY <1>1 DEF IsPanel, Panel, Latched
<1>3. Key(h, p) \in Keys /\ Key(h, p).path = p /\ Key(h, p).options = h.options
      /\ Key(t, t.repo) = Key(h, p)
  BY <1>1, KeyType DEF Key
<1>4. RowsInv(t)
  <2>1. \A k \in Keys : t.cache[k] # None => t.cache[k].key = k
    BY <1>1 DEF Prepared, Inv, RowsInv
  <2>2. t.rows # None => t.rows.key.path = p
    BY <1>1, <1>3, <2>1 DEF Loaded, Prepared, Inv, RowsInv
  <2>3. t.rows # None => t.rows.key.options = t.options \/ t.inFlight
    BY <1>1, <1>3, <2>1 DEF Loaded
  <2> QED BY <1>1, <2>1, <2>2, <2>3 DEF RowsInv
<1>5. EntriesCatchUp(t, dropped', kn)
  <2> SUFFICES ASSUME NEW k \in Keys, t.cache[k] # None, Behind(k, t.cache[k].version, kn)
               PROVE  k \in dropped' \/ (Pending(t) /\ k = Key(t, t.repo))
    BY DEF EntriesCatchUp
  <2>1. t.cache[k] = g.cache[k] /\ (k \in dropped \/ (Pending(g) /\ k = Key(g, g.repo)))
    BY <1>1 DEF Prepared
  <2>2. CASE k \in dropped
    BY <1>1, <2>1, <2>2, DroppedNow
  <2>3. CASE Pending(g) /\ k = Key(g, g.repo) /\ GivenUp(g, t)
    BY <1>1, <2>1, <2>3, DroppedNow
  <2>4. CASE Pending(g) /\ k = Key(g, g.repo) /\ ~GivenUp(g, t)
    <3>1. g.repo = p /\ g.options = t.options /\ h.repo = p
      BY <1>1, <2>4 DEF GivenUp, Prepared
    <3>2. t.inFlight
      BY <2>4, <3>1 DEF Loaded, Prepared, Pending
    <3> QED BY <1>1, <2>4, <3>1, <3>2, PathsAssumption DEF Pending, Key
  <2> QED BY <2>1, <2>2, <2>3, <2>4
<1>6. BuildCatchesUp(t, kn, away)
  <2> SUFFICES ASSUME NEW b \in CurrentOf(t), b.read > 0, Behind(b.key, b.read, kn)
               PROVE  /\ t.needsReload \/ away
                      /\ \A k \in Keys : k.path = b.key.path => t.cache[k] = None
    BY DEF BuildCatchesUp
  <2>1. ~ \A c \in CurrentOf(t) : c.read = 0
    OBVIOUS
  <2>2. t.inFlight
    BY <1>1, <2>1 DEF Latched, Idle
  <2>3. t.needsReload /\ CurrentOf(t) = CurrentOf(h)
    BY <2>1, <2>2 DEF Loaded
  <2> QED BY <1>1, <2>3 DEF Prepared
<1>7. RowsCatchUp(t, dropped', kn, away)
  <2> SUFFICES ASSUME t.rows # None, Behind(Key(t, t.repo), t.rows.version, kn), ~t.inFlight
               PROVE  Key(t, t.repo) \in dropped'
    BY <1>1, PathsAssumption DEF RowsCatchUp, Pending
  <2> DEFINE k == Key(t, t.repo)
  <2>1. t.rows = t.cache[k] /\ (h.repo = p => ~h.inFlight /\ ~h.needsReload)
    BY <1>1, <1>3 DEF Loaded
  <2>2. ~(Pending(g) /\ k = Key(g, g.repo))
    BY <1>1, <1>3, <2>1 DEF Prepared, Pending, Key
  <2>3. k \in Keys /\ k \in dropped /\ t.cache[k] # None /\ t.cache[k] = g.cache[k]
    BY <1>1, <1>3, <2>1, <2>2 DEF Prepared
  <2>4. k \in dropped'
    BY <1>1, <2>3, DroppedNow
  <2> QED BY <2>4
<1>8. Debt(t) <= asked'
  <2>1. Debt(h) = Debt(g) /\ Debt(g) <= asked /\ Debt(t) <= Debt(h) + 1
    BY DEF Prepared, Loaded, Inv, Debt
  <2>2. Debt(t) \in Nat /\ Debt(h) \in Nat
    BY <1>1 DEF Latched, IsPanel, Panel, Debt
  <2> QED BY <1>1, <2>1, <2>2
<1> QED BY <1>1, <1>4, <1>5, <1>6, <1>7, <1>8, DroppedCached DEF Holds, CatchesUp

(* A panel that only lost cache entries or its open detail.                *)
Quiet(t, kn) ==
  /\ IsPanel(t) /\ t.repo = g.repo /\ t.options = g.options /\ t.rows = g.rows
  /\ t.loading = g.loading /\ t.error = g.error /\ t.inFlight = g.inFlight /\ t.key = g.key
  /\ t.needsReload = g.needsReload /\ t.gen = g.gen /\ t.aborts = g.aborts
  /\ CurrentOf(t) = CurrentOf(g)
  /\ t.needsReload => t.inFlight \/ t.detail
  /\ \A k \in Keys :
       t.cache[k] # g.cache[k] => t.cache[k] = None /\ \A v \in Nat : ~Behind(k, v, kn)
  /\ \A r \in Repos : kn[r] \in Nat /\ kn[r] <= known[r]

(* Lower statuses leave nothing behind that was not.                       *)
LEMMA BehindLess ==
  ASSUME Inv, NEW kn, \A r \in Repos : kn[r] \in Nat /\ kn[r] <= known[r],
         NEW k \in Keys, NEW v \in Nat, Behind(k, v, kn)
  PROVE  Behind(k, v, known)
<1>1. kn[k.path] \in Nat /\ kn[k.path] <= known[k.path] /\ known[k.path] \in Nat /\ v < kn[k.path]
      /\ k.path \in Repos
  BY DEF Behind, Inv, Books
<1> QED BY <1>1 DEF Behind

(* Types of what is cached, shown and read.                                *)
LEMMA Versions ==
  ASSUME Inv
  PROVE  /\ g \in Panel(g.used) /\ g.repo \in Paths
         /\ \A k \in Keys : g.cache[k] # None => g.cache[k] \in Rows /\ g.cache[k].version \in Nat
         /\ g.rows # None => g.rows \in Rows /\ g.rows.version \in Nat
         /\ \A b \in CurrentOf(g) : b \in Build /\ b.key \in Keys /\ b.read \in Nat
<1>1. g \in Panel(g.used) /\ g.repo # None
  BY DEF Inv, Latched, IsPanel
<1>2. /\ g.cache \in [Keys -> Rows \cup {None}] /\ g.rows \in Rows \cup {None}
      /\ g.builds \subseteq Build /\ g.repo \in Paths
  BY <1>1 DEF Panel
<1> QED BY <1>1, <1>2 DEF Rows, Build, CurrentOf

LEMMA QuietHolds ==
  ASSUME Inv, NEW kn, NEW t, Quiet(t, kn), Becomes(t),
         NEW away, Away(posted, listed) => away,
         asked' \in Nat /\ asked <= asked'
  PROVE  g' = t /\ Holds(t, dropped', kn, away)
<1> USE DEF Quiet
<1>1. g' = t /\ Latched(t) /\ Pending(t) = Pending(g)
  BY DEF Becomes, Inv, Latched, Busy, Idle, Edited, Key, Pending
<1>2. RowsInv(t)
  BY DEF Inv, RowsInv
<1>3. EntriesCatchUp(t, dropped', kn)
  <2> SUFFICES ASSUME NEW k \in Keys, t.cache[k] # None, Behind(k, t.cache[k].version, kn)
               PROVE  k \in dropped' \/ (Pending(t) /\ k = Key(t, t.repo))
    BY DEF EntriesCatchUp
  <2>1. t.cache[k] = g.cache[k] /\ Behind(k, g.cache[k].version, known)
    BY BehindLess, Versions
  <2>2. k \in dropped \/ (Pending(g) /\ k = Key(g, g.repo))
    BY <2>1 DEF Inv, CatchesUp, EntriesCatchUp
  <2>3. k \in dropped => k \in dropped'
    BY <2>1, DroppedNow
  <2> QED BY <1>1, <2>2, <2>3 DEF Key
<1>4. BuildCatchesUp(t, kn, away)
  <2> SUFFICES ASSUME NEW b \in CurrentOf(g), b.read > 0, Behind(b.key, b.read, kn)
               PROVE  /\ t.needsReload \/ away
                      /\ \A k \in Keys : k.path = b.key.path => t.cache[k] = None
    BY DEF BuildCatchesUp
  <2>1. Behind(b.key, b.read, known)
    BY BehindLess, Versions
  <2> QED BY <2>1 DEF Inv, CatchesUp, BuildCatchesUp
<1>5. RowsCatchUp(t, dropped', kn, away)
  <2> SUFFICES ASSUME t.rows # None, Behind(Key(t, t.repo), t.rows.version, kn),
                      ~(Pending(t) \/ away \/ t.error \/ t.aborts > 0)
               PROVE  Key(t, t.repo) \in dropped'
    BY DEF RowsCatchUp
  <2> DEFINE k == Key(t, t.repo)
  <2>1. k = Key(g, g.repo) /\ k \in Keys
    BY KeyType, Versions DEF Key, Inv, Latched
  <2>2. Behind(k, g.rows.version, known)
    BY <2>1, BehindLess, Versions
  <2>3. k \in dropped
    BY <1>1, <2>1, <2>2 DEF Inv, CatchesUp, RowsCatchUp
  <2>4. g.cache[k] # None
    BY <2>3 DEF Inv, CatchesUp
  <2>5. t.cache[k] = g.cache[k]
    BY <2>1, Versions
  <2> QED BY <2>1, <2>3, <2>4, <2>5, DroppedNow
<1>6. Debt(t) <= asked'
  <2>1. Debt(t) = Debt(g) /\ Debt(g) \in Nat
    BY Versions DEF Debt, Panel
  <2> QED BY <2>1 DEF Inv, Books
<1> QED BY <1>1, <1>2, <1>3, <1>4, <1>5, <1>6, DroppedCached DEF Holds, CatchesUp

(* The same where the panel's own action asks for no load and the cursor   *)
(* has moved on.                                                           *)
LEMMA QuietTurns ==
  ASSUME Inv, NEW kn, NEW t, Quiet(t, kn), Turns(t), Away(posted', listed')
  PROVE  /\ g' = t /\ asked' \in Nat /\ g'.repo = g.repo
         /\ Holds(g', dropped', kn, Away(posted', listed'))
<1> DEFINE away == Away(posted', listed')
<1>1. Becomes(t) /\ asked' = asked /\ asked' \in Nat /\ asked <= asked' /\ away
  BY DEF Turns, Inv, Books
<1> HIDE DEF away
<1>2. g' = t /\ Holds(t, dropped', kn, away)
  <2>1. Quiet(t, kn) /\ Becomes(t) /\ (Away(posted, listed) => away)
    BY <1>1
  <2>2. asked' \in Nat /\ asked <= asked'
    BY <1>1
  <2> QED BY <2>1, <2>2, QuietHolds
<1>3. t.repo = g.repo
  BY DEF Quiet
<1> USE DEF away
<1> QED BY <1>1, <1>2, <1>3

(* The panel after it forgot some paths.                                   *)
LEMMA RecachedPrepared ==
  ASSUME Inv, NEW h, Recached(g, h), \A k \in Keys : h.cache[k] \in {None, g.cache[k]},
         NEW kn, \A r \in Repos : kn[r] \in Nat /\ kn[r] <= known[r]
  PROVE  Prepared(h, kn)
<1>1. /\ IsPanel(h) /\ h.repo = g.repo /\ h.rows = g.rows /\ h.inFlight = g.inFlight
      /\ h.needsReload = g.needsReload /\ h.gen = g.gen /\ CurrentOf(h) = CurrentOf(g)
      /\ h.key = g.key
  BY DEF Recached, CurrentOf
<1>2. h.inFlight => Busy(h)
  BY <1>1 DEF Busy, Inv, Latched
<1>3. \A k \in Keys : h.cache[k] # None => h.cache[k] = g.cache[k]
  OBVIOUS
<1>4. ASSUME NEW k \in Keys, h.cache[k] # None, Behind(k, h.cache[k].version, kn)
      PROVE  k \in dropped \/ (Pending(g) /\ k = Key(g, g.repo))
  <2>1. Behind(k, g.cache[k].version, known) /\ g.cache[k] # None
    BY <1>4, BehindLess, Versions
  <2> QED BY <2>1 DEF Inv, CatchesUp, EntriesCatchUp
<1>5. ASSUME NEW b \in CurrentOf(h), b.read > 0, Behind(b.key, b.read, kn),
             NEW k \in Keys, k.path = b.key.path
      PROVE  h.cache[k] = None
  <2>1. Behind(b.key, b.read, known) /\ b \in CurrentOf(g)
    BY <1>1, <1>5, BehindLess, Versions
  <2> QED BY <1>5, <2>1 DEF Inv, CatchesUp, BuildCatchesUp
<1> QED BY <1>1, <1>2, <1>3, <1>4, <1>5 DEF Prepared

(* A remembered reload that is started now.                                *)
LEMMA ResumedHolds ==
  ASSUME Inv, NEW h, NEW t, Resumed(h, t), Turns(t), Debt(h) = Debt(g),
         h.repo = g.repo, h.options = g.options, h.cache = g.cache, h.rows = g.rows,
         h.inFlight = g.inFlight, h.needsReload = g.needsReload, h.error = g.error,
         h.aborts = g.aborts, CurrentOf(h) = CurrentOf(g)
  PROVE  g' = t /\ Holds(t, dropped', known, Away(posted, listed))
<1>1. /\ g' = t /\ Becomes(t) /\ asked' = asked /\ asked \in Nat /\ Latched(t)
      /\ Key(t, t.repo) = Key(g, g.repo)
  BY DEF Turns, Becomes, Resumed, Inv, Books, Key
<1>2. Pending(g) => Pending(t)
  BY <1>1 DEF Resumed, Pending
<1>3. ~t.inFlight => ~g.inFlight /\ t.error = g.error /\ t.aborts = g.aborts
  <2>1. g.inFlight \in BOOLEAN /\ g.needsReload \in BOOLEAN
    BY Versions DEF Panel
  <2> QED BY <2>1 DEF Resumed
<1>4. RowsInv(t)
  BY <1>3 DEF RowsInv, Resumed, Inv
<1>5. EntriesCatchUp(t, dropped', known)
  <2> SUFFICES ASSUME NEW k \in Keys, t.cache[k] # None, Behind(k, t.cache[k].version, known)
               PROVE  k \in dropped' \/ (Pending(t) /\ k = Key(t, t.repo))
    BY DEF EntriesCatchUp
  <2>1. t.cache[k] = g.cache[k]
    BY DEF Resumed
  <2>2. k \in dropped \/ (Pending(g) /\ k = Key(g, g.repo))
    BY <2>1 DEF Inv, CatchesUp, EntriesCatchUp
  <2> QED BY <1>1, <1>2, <2>1, <2>2, DroppedNow
<1>6. BuildCatchesUp(t, known, Away(posted, listed))
  <2> SUFFICES ASSUME NEW b \in CurrentOf(t), b.read > 0, Behind(b.key, b.read, known)
               PROVE  /\ t.needsReload \/ Away(posted, listed)
                      /\ \A k \in Keys : k.path = b.key.path => t.cache[k] = None
    BY DEF BuildCatchesUp
  <2>1. CurrentOf(t) = CurrentOf(g) /\ t.needsReload = g.needsReload /\ t.cache = g.cache
    BY DEF Resumed
  <2> QED BY <2>1 DEF Inv, CatchesUp, BuildCatchesUp
<1>7. RowsCatchUp(t, dropped', known, Away(posted, listed))
  <2> SUFFICES ASSUME t.rows # None, Behind(Key(t, t.repo), t.rows.version, known),
                      ~(Pending(t) \/ Away(posted, listed) \/ t.error \/ t.aborts > 0)
               PROVE  Key(t, t.repo) \in dropped'
    BY DEF RowsCatchUp
  <2> DEFINE k == Key(g, g.repo)
  <2>1. k \in Keys /\ ~t.inFlight /\ t.rows = g.rows /\ t.cache = g.cache
    BY <1>1, KeyType, Versions, PathsAssumption DEF Pending, Resumed, Inv, Latched
  <2>2. k \in dropped
    BY <1>1, <1>2, <1>3, <2>1 DEF Inv, CatchesUp, RowsCatchUp
  <2>3. g.cache[k] # None
    BY <2>2 DEF Inv, CatchesUp
  <2> QED BY <1>1, <2>1, <2>2, <2>3, DroppedNow
<1>8. Debt(t) <= asked'
  <2>1. Debt(t) \in Nat /\ Debt(g) \in Nat
    BY <1>1, Versions DEF Latched, IsPanel, Panel, Debt
  <2> QED BY <1>1, <2>1 DEF Resumed, Inv
<1> QED BY <1>1, <1>4, <1>5, <1>6, <1>7, <1>8, DroppedCached DEF Holds, CatchesUp

(* A tree is refreshed.  No status is of a tree.                           *)
LEMMA TreeHolds ==
  ASSUME Inv, NEW h, Recached(g, h), \A k \in Keys : h.cache[k] \in {None, g.cache[k]},
         g.repo \in Trees, NEW t, Refreshed(h, g.repo, t), Loads(t),
         NEW kn, \A r \in Repos : kn[r] \in Nat /\ kn[r] <= known[r], NEW away
  PROVE  g' = t /\ Holds(t, dropped', kn, away)
<1>1. /\ g' = t /\ Becomes(t) /\ asked' = asked + 1 /\ asked \in Nat /\ Latched(t)
      /\ t.repo = g.repo /\ g.repo \notin Repos /\ t.options = g.options /\ t.rows = g.rows
  BY PathsAssumption DEF Loads, Becomes, Refreshed, Inv, Books, Recached
<1>2. \A k \in Keys : t.cache[k] # None => t.cache[k] = g.cache[k]
  BY DEF Refreshed
<1>3. RowsInv(t)
  BY <1>1, <1>2 DEF RowsInv, Inv, Refreshed, Recached
<1>4. EntriesCatchUp(t, dropped', kn)
  <2> SUFFICES ASSUME NEW k \in Keys, t.cache[k] # None, Behind(k, t.cache[k].version, kn)
               PROVE  k \in dropped'
    BY DEF EntriesCatchUp
  <2>1. t.cache[k] = g.cache[k] /\ Behind(k, g.cache[k].version, known)
    BY <1>2, BehindLess, Versions
  <2>2. k # Key(g, g.repo)
    BY <1>1, <2>1 DEF Behind, Key
  <2>3. k \in dropped
    BY <2>1, <2>2 DEF Inv, CatchesUp, EntriesCatchUp
  <2> QED BY <1>1, <2>1, <2>3, DroppedNow
<1>5. BuildCatchesUp(t, kn, away)
  BY <1>1 DEF BuildCatchesUp, Behind, Latched, Busy, Idle
<1>6. RowsCatchUp(t, dropped', kn, away)
  BY <1>1 DEF RowsCatchUp, Behind, Key
<1>7. Debt(t) <= asked'
  <2>1. Debt(t) \in Nat /\ Debt(g) \in Nat /\ Debt(h) = Debt(g)
    BY <1>1, Versions DEF Latched, IsPanel, Panel, Debt, Recached
  <2> QED BY <1>1, <2>1 DEF Refreshed, Inv
<1> QED BY <1>1, <1>3, <1>4, <1>5, <1>6, <1>7, DroppedCached DEF Holds, CatchesUp

-----------------------------------------------------------------------------
(* Reports.                                                                *)

LEMMA DoneIs ==
  ASSUME Inv, NEW b \in g.builds
  PROVE  LET d == Done(b) IN
         /\ IsPanel(d) /\ d.repo = g.repo /\ d.options = g.options /\ d.rows = g.rows
         /\ d.loading = g.loading /\ d.error = g.error /\ d.inFlight = g.inFlight
         /\ d.key = g.key /\ d.needsReload = g.needsReload /\ d.gen = g.gen
         /\ d.aborts = g.aborts /\ d.detail = g.detail /\ d.cache = g.cache
         /\ CurrentOf(d) = CurrentOf(g) \ {b} /\ d.builds = g.builds \ {b}
<1> DEFINE d == Done(b)
<1>1. g \in Panel(g.used) /\ \A x \in g.builds : x.gen <= g.gen
  BY DEF Inv, Latched, IsPanel
<1>2. /\ d.repo = g.repo /\ d.options = g.options /\ d.rows = g.rows
      /\ d.loading = g.loading /\ d.error = g.error /\ d.inFlight = g.inFlight
      /\ d.key = g.key /\ d.needsReload = g.needsReload /\ d.gen = g.gen
      /\ d.aborts = g.aborts /\ d.detail = g.detail /\ d.cache = g.cache
      /\ d.builds = g.builds \ {b} /\ d.used = g.used
  BY <1>1 DEF Done, Panel
<1>3. d \in Panel(d.used)
  BY <1>1, <1>2 DEF Done, Panel
<1> HIDE DEF d
<1> QED BY <1>1, <1>2, <1>3 DEF IsPanel, CurrentOf, d

(* The current build is the one that is waited for.                        *)
LEMMA CurrentIs ==
  ASSUME Inv, NEW b \in g.builds, b.gen = g.gen
  PROVE  /\ g.inFlight /\ CurrentOf(g) = {b} /\ g.key = b.key /\ b.key.path = g.repo
         /\ b \in Build /\ b.key \in Keys /\ CurrentOf(Done(b)) = {} /\ Pending(g)
<1>1. b \in CurrentOf(g)
  BY DEF CurrentOf
<1>2. g.inFlight /\ CurrentOf(g) = {b} /\ g.key = b.key /\ b.key.path = g.repo
  BY <1>1 DEF Inv, Latched, Busy, Idle
<1> QED BY <1>1, <1>2, DoneIs, Versions DEF Pending, Inv, Latched

(* Rows come in.  If they are behind, their reload has been remembered, or *)
(* the history notes them because the cursor has moved on.                 *)
LEMMA RowsHold ==
  ASSUME Inv, NEW b \in g.builds, b.gen = g.gen, b.read > 0,
         NEW t, t = SetRows(Done(b), [key |-> b.key, version |-> b.read]), Turns(t)
  PROVE  g' = t /\ Holds(t, dropped', known, Away(posted, listed))
<1> DEFINE d == Done(b)
           k == Key(g, g.repo)
           rows == [key |-> b.key, version |-> b.read]
<1>1. /\ g.inFlight /\ CurrentOf(g) = {b} /\ g.key = b.key /\ b.key.path = g.repo
      /\ b \in Build /\ b.key \in Keys /\ CurrentOf(d) = {} /\ Pending(g)
  BY CurrentIs
<1>2. /\ IsPanel(d) /\ d.repo = g.repo /\ d.options = g.options /\ d.rows = g.rows
      /\ d.key = g.key /\ d.needsReload = g.needsReload /\ d.gen = g.gen
      /\ d.cache = g.cache /\ Key(d, d.repo) = k
  BY DoneIs DEF Key
<1>3. rows \in Rows /\ rows.key = b.key /\ rows.version = b.read /\ rows # None
  BY <1>1, PathsAssumption DEF Rows, Build
<1>4. Edited(d) = Edited(g) /\ (Edited(g) => g.needsReload)
  BY <1>2 DEF Edited, Key, Inv, Latched
<1> HIDE DEF d, rows
<1>5. Settled(d, rows, t)
  BY <1>1, <1>2, <1>3, <1>4, RowsSettle DEF d, rows, Inv, Latched
<1>6. /\ g' = t /\ Becomes(t) /\ asked' = asked /\ asked \in Nat /\ Latched(t)
      /\ t.repo = g.repo /\ Key(t, t.repo) = k /\ t.options = g.options
  BY <1>2, <1>5 DEF Turns, Becomes, Settled, Inv, Books, Key
<1>7. k \in Keys /\ k.path = g.repo /\ k.options = g.options
  BY Versions, KeyType DEF Inv, Latched
<1>8. ~Edited(g) => b.key = k
  BY <1>1, PathsAssumption DEF Edited
<1>9. Debt(t) <= asked'
  <2>1. Debt(d) = Debt(g) /\ Debt(t) \in Nat /\ Debt(g) \in Nat
    BY <1>2, <1>6, Versions DEF Latched, IsPanel, Panel, Debt
  <2> QED BY <1>5, <1>6, <2>1 DEF Settled, Inv
<1>10. BuildCatchesUp(t, known, Away(posted, listed))
  BY <1>5 DEF BuildCatchesUp, Settled
<1>11. CASE Edited(g)
  <2>1. t.inFlight /\ t.cache = g.cache /\ t.rows = g.rows /\ Pending(t)
    BY <1>2, <1>4, <1>5, <1>6, <1>11 DEF Settled, Pending, Inv, Latched
  <2>2. RowsInv(t)
    BY <1>6, <2>1 DEF RowsInv, Inv
  <2>3. EntriesCatchUp(t, dropped', known)
    BY <1>6, <2>1, DroppedNow DEF EntriesCatchUp, Inv, CatchesUp
  <2>4. RowsCatchUp(t, dropped', known, Away(posted, listed))
    BY <2>1 DEF RowsCatchUp
  <2> QED BY <1>6, <1>9, <1>10, <2>2, <2>3, <2>4, DroppedCached DEF Holds, CatchesUp
<1>12. CASE ~Edited(g)
  <2>1. /\ t.rows = rows /\ t.inFlight = g.needsReload /\ t.cache[k] = rows
        /\ \A x \in Keys \ {k} : t.cache[x] \in {None, g.cache[x]}
    BY <1>2, <1>4, <1>5, <1>12 DEF Settled
  <2>2. RowsInv(t)
    <3>1. rows.key = k
      BY <1>3, <1>8, <1>12
    <3> QED BY <1>6, <1>7, <2>1, <3>1 DEF RowsInv, Inv
  <2>3. Behind(k, rows.version, known) => Pending(t) \/ (k \in dropped' /\ Away(posted, listed))
    <3> SUFFICES ASSUME Behind(k, b.read, known), ~g.needsReload
                 PROVE  k \in dropped' /\ Away(posted, listed)
      BY <1>3, <1>6, <2>1 DEF Pending, Inv, Latched
    <3>1. Behind(b.key, b.read, known) /\ b \in CurrentOf(g)
      BY <1>1, <1>8, <1>12
    <3>2. Away(posted, listed) /\ g.cache[k] = None
      BY <1>1, <1>7, <3>1 DEF Inv, CatchesUp, BuildCatchesUp
    <3> QED BY <1>3, <1>6, <1>7, <2>1, <3>2, DroppedNow DEF Away
  <2>4. EntriesCatchUp(t, dropped', known)
    <3> SUFFICES ASSUME NEW x \in Keys, t.cache[x] # None, Behind(x, t.cache[x].version, known)
                 PROVE  x \in dropped' \/ (Pending(t) /\ x = Key(t, t.repo))
      BY DEF EntriesCatchUp
    <3>1. CASE x = k
      BY <1>6, <2>1, <2>3, <3>1
    <3>2. CASE x # k
      <4>1. t.cache[x] = g.cache[x]
        BY <2>1, <3>2
      <4>2. x \in dropped
        BY <3>2, <4>1 DEF Inv, CatchesUp, EntriesCatchUp
      <4> QED BY <1>6, <4>1, <4>2, DroppedNow
    <3> QED BY <3>1, <3>2
  <2>5. RowsCatchUp(t, dropped', known, Away(posted, listed))
    BY <1>6, <2>1, <2>3 DEF RowsCatchUp
  <2> QED BY <1>6, <1>9, <1>10, <2>2, <2>4, <2>5, DroppedCached DEF Holds, CatchesUp
<1> QED BY <1>11, <1>12

(* A build fails.  What its reload left behind goes into the history.      *)
LEMMA FailureHolds ==
  ASSUME Inv, NEW b \in g.builds, b.gen = g.gen, NEW t, Failed(Done(b), t), Turns(t)
  PROVE  g' = t /\ Holds(t, dropped', known, Away(posted, listed))
<1> DEFINE d == Done(b)
           k == Key(g, g.repo)
<1>1. Pending(g) /\ g.repo # None
  BY CurrentIs DEF Inv, Latched
<1>2. /\ IsPanel(d) /\ d.repo = g.repo /\ d.options = g.options /\ d.rows = g.rows
      /\ d.needsReload = g.needsReload /\ d.gen = g.gen /\ d.aborts = g.aborts
      /\ d.cache = g.cache
  BY DoneIs
<1> HIDE DEF d
<1>3. /\ g' = t /\ Becomes(t) /\ asked' = asked /\ asked \in Nat /\ Latched(t)
      /\ t.repo = g.repo /\ Key(t, t.repo) = k /\ t.options = g.options /\ t.rows = g.rows
      /\ t.cache = g.cache
      /\ \A c \in CurrentOf(t) : c.read = 0
      /\ ~t.inFlight => t.error \/ t.aborts > g.aborts
  BY <1>2 DEF Turns, Becomes, Failed, Inv, Books, Key, d
<1>4. Pending(t) \/ GivenUp(g, t)
  BY <1>1, <1>3 DEF Pending, GivenUp
<1>5. ~t.inFlight => t.error \/ t.aborts > 0
  BY <1>3, Versions DEF Panel, Latched, IsPanel
<1>6. RowsInv(t)
  BY <1>3, <1>5 DEF RowsInv, Inv
<1>7. EntriesCatchUp(t, dropped', known)
  <2> SUFFICES ASSUME NEW x \in Keys, t.cache[x] # None, Behind(x, t.cache[x].version, known)
               PROVE  x \in dropped' \/ (Pending(t) /\ x = Key(t, t.repo))
    BY DEF EntriesCatchUp
  <2>1. x \in dropped \/ x = k
    BY <1>3 DEF Inv, CatchesUp, EntriesCatchUp
  <2>2. CASE x \in dropped
    BY <1>3, <2>2, DroppedNow
  <2>3. CASE x = k
    BY <1>1, <1>3, <1>4, <2>3, DroppedNow
  <2> QED BY <2>1, <2>2, <2>3
<1>8. BuildCatchesUp(t, known, Away(posted, listed))
  BY <1>3 DEF BuildCatchesUp
<1>9. RowsCatchUp(t, dropped', known, Away(posted, listed))
  BY <1>1, <1>3, <1>5 DEF RowsCatchUp, Pending
<1>10. Debt(t) <= asked'
  <2>1. Debt(d) = Debt(g) /\ Debt(t) \in Nat /\ Debt(g) \in Nat
    BY <1>2, <1>3, Versions DEF Latched, IsPanel, Panel, Debt
  <2> QED BY <1>3, <2>1 DEF Failed, Inv, d
<1> QED BY <1>3, <1>6, <1>7, <1>8, <1>9, <1>10, DroppedCached DEF Holds, CatchesUp

-----------------------------------------------------------------------------
(* The actions.                                                            *)

LEMMA Again ==
  ASSUME Inv, Holds(g', dropped', known', Away(posted', listed')), Books', Follows'
  PROVE  Inv'
BY DEF Inv, Holds

LEMMA GPrepared == ASSUME Inv PROVE Prepared(g, known) /\ Recached(g, g)
<1>1. Recached(g, g)
  BY DEF Recached, Inv, Latched
<1>2. known \in [Repos -> Nat]
  BY DEF Inv, Books
<1>3. \A r \in Repos : known[r] \in Nat /\ known[r] <= known[r]
  BY <1>2
<1> QED BY <1>1, <1>3, RecachedPrepared

LEMMA GQuiet == ASSUME Inv PROVE Quiet(g, known)
<1>1. known \in [Repos -> Nat]
  BY DEF Inv, Books
<1>2. \A r \in Repos : known[r] \in Nat /\ known[r] <= known[r]
  BY <1>1
<1> QED BY <1>2 DEF Quiet, Inv, Latched

LEMMA ActiveIs ==
  ASSUME Inv, active # None
  PROVE  active \in Trees /\ g.repo = active /\ active \notin Repos
BY PathsAssumption DEF Inv, Books, Follows

(* sync_selection: the active tree is refreshed, or the selected repository*)
(* is loaded.                                                              *)
LEMMA SyncedHolds ==
  ASSUME Inv, NEW h, Recached(g, h), \A k \in Keys : h.cache[k] \in {None, g.cache[k]},
         NEW kn, \A r \in Repos : kn[r] \in Nat /\ kn[r] <= known[r], NEW away,
         NEW sel \in Repos, NEW act \in {None, active}, Loads(Synced(h, sel, act))
  PROVE  Holds(g', dropped', kn, away) /\ g'.repo = IF act # None THEN act ELSE sel
<1> DEFINE t == Synced(h, sel, act)
<1>1. CASE act # None
  <2>1. act \in Trees /\ g.repo = act /\ act \in Paths
    BY <1>1, ActiveIs DEF Paths
  <2>2. Latched(h) /\ h.repo = act
    BY <2>1 DEF Recached, Latched, Inv, Busy, Idle, CurrentOf, Edited, Key
  <2>3. t = RefreshTree(h, act)
    BY <1>1 DEF Synced
  <2> HIDE DEF t
  <2>4. Refreshed(h, act, t)
    BY <2>1, <2>2, <2>3, TreeRefreshes
  <2>5. g' = t /\ Holds(t, dropped', kn, away)
    BY <2>1, <2>4, TreeHolds DEF t
  <2> QED BY <1>1, <2>4, <2>5 DEF Refreshed
<1>2. CASE act = None
  <2>1. sel # None /\ sel \in Paths
    BY PathsAssumption DEF Paths
  <2>2. t = LoadRepo(h, sel)
    BY <1>2, <2>1 DEF Synced
  <2> HIDE DEF t
  <2>3. Prepared(h, kn)
    BY RecachedPrepared
  <2>4. Loaded(h, sel, t)
    BY <2>1, <2>2, <2>3, RepoLoads DEF Prepared
  <2>5. g' = t /\ Holds(t, dropped', kn, away)
    BY <2>1, <2>3, <2>4, LoadHolds DEF t
  <2> QED BY <1>2, <2>4, <2>5 DEF Loaded
<1> QED BY <1>1, <1>2

LEMMA ForgetsSome ==
  ASSUME Inv, NEW h, Recached(g, h), \A k \in Keys : h.cache[k] \in {None, g.cache[k]}, NEW S
  PROVE  /\ Recached(g, Forget(h, S))
         /\ \A k \in Keys : Forget(h, S).cache[k] \in {None, g.cache[k]}
<1> DEFINE t == Forget(h, S)
<1>1. IsPanel(h)
  BY DEF Recached
<1>2. Recached(h, t) /\ t.cache = [k \in Keys |-> IF k \in S THEN None ELSE h.cache[k]]
  BY <1>1, Forgets
<1> HIDE DEF t
<1>3. Recached(g, t)
  BY <1>2 DEF Recached
<1>4. \A k \in Keys : t.cache[k] \in {None, g.cache[k]}
  BY <1>2
<1> QED BY <1>3, <1>4 DEF t

(* Rows have left or entered the list.                                     *)
LEMMA DiscoveryKeeps ==
  ASSUME Inv, NEW rows \in SUBSET Repos, Repos \ Removable \subseteq rows, NEW sel \in rows,
         NEW versions \in [Repos -> Nat], \A r \in Repos : versions[r] <= known[r],
         NEW act \in {None, active},
         NEW h, Recached(g, h), \A k \in Keys : h.cache[k] \in {None, g.cache[k]},
         Discovers(rows, sel, versions, act, h),
         refs' = refs, posted' \in Paths \cup {None}
  PROVE  Inv'
<1>1. PICK S \in SUBSET Repos :
        LET gone == rows \ S
            t    == Forget(h, {k \in Keys : k.path \in gone})
        IN
        /\ (S \ rows) \cup gone \subseteq Removable
        /\ listed' = S
        /\ selected' \in Reanchored(sel, S)
        /\ known' = [r \in Repos |-> IF r \in S \cap rows THEN versions[r] ELSE 0]
        /\ active' = IF act # None /\ Parent[act] \in gone THEN None ELSE act
        /\ Loads(Synced(t, selected', active'))
  BY DEF Discovers
<1> DEFINE t == Forget(h, {k \in Keys : k.path \in rows \ S})
<1>2. Repos \ Removable \subseteq S /\ S # {}
  BY <1>1 DEF Inv, NeverEmpty
<1>3. selected' \in S /\ listed' = S /\ active' \in {None, active}
  BY <1>1, <1>2 DEF Reanchored
<1>4. /\ known' \in [Repos -> Nat]
      /\ \A r \in Repos : known'[r] \in Nat /\ known'[r] <= known[r] /\ known[r] \in Nat
  BY <1>1 DEF Inv, Books
<1>5. Recached(g, t) /\ \A k \in Keys : t.cache[k] \in {None, g.cache[k]}
  BY ForgetsSome
<1>6. Loads(Synced(t, selected', active'))
  BY <1>1
<1> HIDE DEF t
<1>7. /\ Holds(g', dropped', known', Away(posted', listed'))
      /\ g'.repo = IF active' # None THEN active' ELSE selected'
  BY <1>3, <1>4, <1>5, <1>6, SyncedHolds
<1>8. Books'
  <2>1. asked' \in Nat
    BY <1>6 DEF Loads, Inv, Books
  <2>2. \A r \in Repos : refs[r] \in Nat /\ known[r] <= refs[r]
    BY DEF Inv, Books, Paths
  <2>3. \A r \in Repos : known'[r] <= refs'[r]
    BY <1>4, <2>2
  <2> QED BY <1>2, <1>3, <1>4, <2>1, <2>3 DEF Inv, Books
<1>9. Follows'
  BY <1>7 DEF Follows
<1> QED BY <1>7, <1>8, <1>9, Again

(* A status with other refs: whatever is cached of the repository is       *)
(* forgotten, and the panel reloads if it shows it.                        *)
LEMMA StatusKeeps ==
  ASSUME Inv, NEW r \in Repos, NEW v \in known[r]..refs[r], StatusUpdated(r, v)
  PROVE  Inv'
<1> DEFINE S  == {k \in Keys : k.path = r}
           h  == Forget(g, S)
           u  == [h EXCEPT !.needsReload = TRUE]
           kn == [known EXCEPT ![r] = v]
           away == Away(posted, listed)
           shown == selected = r /\ active = None
<1>1. /\ r \in listed /\ v > known[r] /\ v <= refs[r] /\ known' = kn
      /\ Loads(IF ~shown THEN h ELSE IF h.detail THEN u ELSE LoadRepo(h, r))
      /\ UNCHANGED <<refs, listed, selected, active, posted>>
  BY DEF StatusUpdated, Invalidate
<1>2. known \in [Repos -> Nat] /\ refs \in [Paths -> Nat] /\ r \in Paths
  BY DEF Inv, Books, Paths
<1>3. v \in Nat /\ kn \in [Repos -> Nat] /\ kn[r] = v
      /\ \A q \in Repos \ {r} : kn[q] = known[q]
  BY <1>1, <1>2
<1>4. /\ Recached(g, h)
      /\ \A k \in Keys : h.cache[k] = IF k.path = r THEN None ELSE g.cache[k]
  <2>1. h.cache = [k \in Keys |-> IF k \in S THEN None ELSE g.cache[k]] /\ Recached(g, h)
    BY Forgets DEF Inv, Latched
  <2> QED BY <2>1
<1>5. Books'
  <2>1. \A q \in Repos : known'[q] <= refs'[q]
    BY <1>1, <1>2, <1>3 DEF Inv, Books
  <2>2. asked' \in Nat
    BY <1>1 DEF Loads, Inv, Books
  <2> QED BY <1>1, <1>2, <1>3, <2>1, <2>2 DEF Inv, Books
\* What was not behind is behind now only if it is of r.
<1>6. ASSUME NEW k \in Keys, NEW n, Behind(k, n, kn), k.path # r
      PROVE  Behind(k, n, known)
  BY <1>3, <1>6 DEF Behind
<1> HIDE DEF kn, h, S
<1>7. \A b \in CurrentOf(g) : b.key \in Keys /\ b.key.path = g.repo
  BY Versions DEF Inv, Latched, Busy, Idle
<1>8. CASE shown /\ ~h.detail
  <2> DEFINE t == LoadRepo(h, r)
  <2>1. Loads(t)
    BY <1>1, <1>8
  <2>2. Prepared(h, kn)
    <3>1. /\ IsPanel(h) /\ h.repo = g.repo /\ h.rows = g.rows /\ h.inFlight = g.inFlight
          /\ h.needsReload = g.needsReload /\ h.gen = g.gen /\ CurrentOf(h) = CurrentOf(g)
          /\ h.inFlight => Busy(h)
      BY <1>4 DEF Recached, CurrentOf, Inv, Latched, Busy
    <3>2. \A k \in Keys : h.cache[k] # None => h.cache[k] = g.cache[k] /\ k.path # r
      BY <1>4
    <3>3. ASSUME NEW k \in Keys, h.cache[k] # None, Behind(k, h.cache[k].version, kn)
          PROVE  k \in dropped \/ (Pending(g) /\ k = Key(g, g.repo))
      BY <1>6, <3>2, <3>3 DEF Inv, CatchesUp, EntriesCatchUp
    <3>4. ASSUME NEW b \in CurrentOf(g), b.read > 0, Behind(b.key, b.read, kn),
                 NEW k \in Keys, k.path = b.key.path
          PROVE  h.cache[k] = None
      <4>1. CASE b.key.path = r
        BY <1>4, <3>4, <4>1
      <4>2. CASE b.key.path # r
        <5>1. Behind(b.key, b.read, known)
          BY <1>6, <1>7, <3>4, <4>2
        <5>2. g.cache[k] = None
          BY <3>4, <5>1 DEF Inv, CatchesUp, BuildCatchesUp
        <5> QED BY <1>4, <5>2
      <4> QED BY <4>1, <4>2
    <3> QED BY <3>1, <3>2, <3>3, <3>4 DEF Prepared
  <2>3. Loaded(h, r, t)
    BY <1>2, <2>2, RepoLoads DEF Prepared
  <2> HIDE DEF t
  <2>4. g' = t /\ Holds(t, dropped', kn, away)
    BY <1>2, <2>1, <2>2, <2>3, LoadHolds
  <2>5. Follows'
    BY <1>1, <1>8, <2>3, <2>4 DEF Follows, Loaded
  <2> QED BY <1>1, <1>5, <2>4, <2>5, Again
<1>9. CASE ~(shown /\ ~h.detail)
  <2> DEFINE t == IF shown THEN u ELSE h
  <2>1. Loads(t)
    BY <1>1, <1>9
  <2>2. h \in Panel(h.used) /\ IsPanel(h) /\ h.needsReload \in BOOLEAN
    BY <1>4 DEF Recached, IsPanel, Panel
  <2>3. /\ u.repo = h.repo /\ u.options = h.options /\ u.cache = h.cache /\ u.rows = h.rows
        /\ u.inFlight = h.inFlight /\ u.gen = h.gen /\ u.needsReload = TRUE
        /\ u.key = h.key /\ u.loading = h.loading /\ u.error = h.error /\ u.builds = h.builds
        /\ u.aborts = h.aborts /\ u.detail = h.detail /\ u.used = h.used
        /\ u \in Panel(u.used)
    BY <2>2 DEF Panel
  <2>4. /\ IsPanel(t) /\ t.repo = g.repo /\ t.options = g.options /\ t.cache = h.cache
        /\ t.rows = g.rows /\ t.inFlight = g.inFlight /\ t.gen = g.gen /\ t.key = g.key
        /\ t.loading = g.loading /\ t.error = g.error /\ t.builds = g.builds
        /\ t.aborts = g.aborts /\ t.detail = g.detail
        /\ IF shown THEN t.needsReload = TRUE /\ t.detail ELSE t.needsReload = g.needsReload
    BY <1>4, <1>9, <2>2, <2>3 DEF Recached, IsPanel
  <2> HIDE DEF t, u
  <2>5. /\ g' = t /\ Becomes(t) /\ asked' = asked + 1 /\ asked \in Nat
        /\ CurrentOf(t) = CurrentOf(g) /\ Key(t, t.repo) = Key(g, g.repo)
    BY <2>1, <2>4 DEF Loads, Becomes, CurrentOf, Key, Inv, Books
  <2>6. Latched(t)
    BY <2>4, <2>5 DEF Inv, Latched, Busy, Idle, Edited, Key
  <2>7. g.repo = r => shown \/ away
    <3>1. g.repo = r => active = None /\ r \notin Trees
      BY ActiveIs, PathsAssumption
    <3> QED BY <3>1 DEF Inv, Follows
  <2>8. shown => Pending(t)
    BY <2>4 DEF Pending, Inv, Latched
  <2>9. Pending(g) => Pending(t)
    BY <2>4, <2>8 DEF Pending
  <2>10. RowsInv(t)
    BY <1>4, <2>4 DEF RowsInv, Inv
  <2>11. EntriesCatchUp(t, dropped', kn)
    <3> SUFFICES ASSUME NEW k \in Keys, t.cache[k] # None, Behind(k, t.cache[k].version, kn)
                 PROVE  k \in dropped' \/ (Pending(t) /\ k = Key(t, t.repo))
      BY DEF EntriesCatchUp
    <3>1. t.cache[k] = g.cache[k] /\ k.path # r
      BY <1>4, <2>4
    <3>2. k \in dropped \/ (Pending(g) /\ k = Key(g, g.repo))
      BY <1>6, <3>1 DEF Inv, CatchesUp, EntriesCatchUp
    <3> QED BY <2>5, <2>9, <3>1, <3>2, DroppedNow
  <2>12. BuildCatchesUp(t, kn, away)
    <3> SUFFICES ASSUME NEW b \in CurrentOf(g), b.read > 0, Behind(b.key, b.read, kn)
                 PROVE  /\ t.needsReload \/ away
                        /\ \A k \in Keys : k.path = b.key.path => t.cache[k] = None
      BY <2>5 DEF BuildCatchesUp
    <3>1. CASE b.key.path = r
      BY <1>4, <1>7, <2>4, <2>7, <3>1
    <3>2. CASE b.key.path # r
      <4>1. Behind(b.key, b.read, known)
        BY <1>6, <1>7, <3>2
      <4> QED BY <1>4, <2>4, <4>1 DEF Inv, CatchesUp, BuildCatchesUp
    <3> QED BY <3>1, <3>2
  <2>13. RowsCatchUp(t, dropped', kn, away)
    <3> DEFINE k == Key(g, g.repo)
    <3> SUFFICES ASSUME t.rows # None, Behind(k, t.rows.version, kn),
                        ~(Pending(t) \/ away \/ t.error \/ t.aborts > 0)
                 PROVE  k \in dropped'
      BY <2>5 DEF RowsCatchUp
    <3>1. k \in Keys /\ k.path = g.repo
      BY KeyType, Versions DEF Inv, Latched
    <3>2. k.path # r
      BY <2>7, <2>8, <3>1
    <3>3. k \in dropped
      BY <1>6, <2>4, <2>9, <3>1, <3>2 DEF Inv, CatchesUp, RowsCatchUp
    <3>4. g.cache[k] # None /\ t.cache[k] = g.cache[k]
      BY <1>4, <2>4, <3>1, <3>2, <3>3 DEF Inv, CatchesUp
    <3> QED BY <2>5, <3>1, <3>3, <3>4, DroppedNow
  <2>14. Debt(t) <= asked'
    <3>1. Debt(t) <= Debt(g) + 1 /\ Debt(g) \in Nat /\ Debt(t) \in Nat
      BY <2>4, Versions DEF Debt, Panel, IsPanel
    <3> QED BY <2>5, <3>1 DEF Inv
  <2>15. Follows'
    BY <1>1, <2>4, <2>5 DEF Inv, Follows
  <2>16. Holds(g', dropped', known', Away(posted', listed'))
    BY <1>1, <2>5, <2>6, <2>10, <2>11, <2>12, <2>13, <2>14, DroppedCached DEF Holds, CatchesUp
  <2> QED BY <1>5, <2>15, <2>16, Again
<1> QED BY <1>8, <1>9

(* Most handlers leave disk, list and selection alone.                     *)
LEMMA PollKeeps == ASSUME Inv, PollTree PROVE Inv'
<1> DEFINE t == RefreshTree(g, active)
<1>1. active \in Trees /\ g.repo = active /\ active \in Paths
  BY ActiveIs DEF PollTree, Paths
<1>2. Refreshed(g, active, t)
  BY <1>1, TreeRefreshes DEF Inv
<1>3. Loads(t) /\ UNCHANGED <<refs, listed, selected, known, active, posted>>
  BY DEF PollTree, listVars
<1> HIDE DEF t
<1>4. known \in [Repos -> Nat]
  BY DEF Inv, Books
<1>5. g' = t /\ Holds(t, dropped', known, Away(posted, listed))
  BY <1>1, <1>2, <1>3, <1>4, GPrepared, TreeHolds
<1>6. Books' /\ Follows'
  BY <1>1, <1>2, <1>3, <1>5 DEF Refreshed, Loads, Inv, Books, Follows
<1> QED BY <1>3, <1>5, <1>6, Again

LEMMA DiscoverKeeps == ASSUME Inv, DiscoverNewRepos PROVE Inv'
<1>1. known \in [Repos -> Nat] /\ \A r \in Repos : known[r] <= known[r]
  <2>1. known \in [Repos -> Nat]
    BY DEF Inv, Books
  <2> QED BY <2>1
<1>2. Discovers(listed, selected, known, active, g) /\ refs' = refs /\ posted' = posted
  BY DEF DiscoverNewRepos
<1> QED BY <1>1, <1>2, GPrepared, DiscoveryKeeps DEF Inv, Books

LEMMA RescanKeeps == ASSUME Inv, Rescan PROVE Inv'
<1> DEFINE h == Forget(g, Keys)
<1>1. PICK S \in SUBSET Repos :
        /\ (S \ listed) \cup (listed \ S) \subseteq Removable
        /\ listed' = S /\ selected' \in Reanchored(selected, S)
  BY DEF Rescan
<1>2. /\ known' = [r \in Repos |-> 0] /\ posted = None
      /\ Loads(Synced(h, selected', active))
      /\ UNCHANGED <<refs, active, posted>>
  BY DEF Rescan
<1>3. Repos \ Removable \subseteq S /\ S # {} /\ selected' \in S
  BY <1>1 DEF Inv, NeverEmpty, Books, Reanchored
<1>4. Recached(g, h) /\ \A k \in Keys : h.cache[k] \in {None, g.cache[k]}
  BY GPrepared, ForgetsSome
<1> HIDE DEF h
<1>5. refs \in [Paths -> Nat] /\ known \in [Repos -> Nat] /\ \A r \in Repos : refs[r] \in Nat
  BY DEF Inv, Books, Paths
<1>6. \A r \in Repos : known'[r] \in Nat /\ known'[r] <= known[r] /\ known'[r] <= refs[r]
  BY <1>2, <1>5
<1>7. /\ Holds(g', dropped', known', Away(posted', listed'))
      /\ g'.repo = IF active # None THEN active ELSE selected'
  BY <1>2, <1>3, <1>4, <1>6, SyncedHolds
<1>8. known' \in [Repos -> Nat] /\ asked' \in Nat
  BY <1>2 DEF Loads, Inv, Books
<1>9. Books' /\ Follows'
  BY <1>1, <1>2, <1>3, <1>5, <1>6, <1>7, <1>8 DEF Inv, Books, Follows
<1> QED BY <1>7, <1>9, Again

(* A cursor move or an added row: the panel follows by the posted action.  *)
LEMMA CursorKeeps == ASSUME Inv, NEW p \in Paths, Cursor(p) PROVE Inv'
<1>1. /\ RowOf(p) \in listed /\ selected' = RowOf(p) /\ posted' = p /\ Turns(g)
      /\ UNCHANGED <<refs, listed, known, active>>
  BY DEF Cursor, Posts
<1>2. p # None
  BY PathsAssumption
<1>3. Away(posted', listed')
  BY <1>1, <1>2 DEF Away
<1>4. /\ g'.repo = g.repo /\ asked' \in Nat
      /\ Holds(g', dropped', known', Away(posted', listed'))
  BY <1>1, <1>3, GQuiet, QuietTurns
<1>5. Books' /\ Follows'
  BY <1>1, <1>3, <1>4 DEF Inv, Books, Follows
<1> QED BY <1>4, <1>5, Again

LEMMA AddKeeps == ASSUME Inv, NEW r \in Repos, AddRepo(r) PROVE Inv'
<1> DEFINE rows == listed \cup {r}
<1>1. selected \in listed /\ selected # None
  BY PathsAssumption DEF Inv, Books, Paths
<1>2. posted' = r /\ refs' = refs /\ r \in Paths /\ r # None
  BY PathsAssumption DEF AddRepo, Posts, Paths
<1>3. CASE Discovers(rows, selected, known, active, g)
  <2>1. known \in [Repos -> Nat]
    BY DEF Inv, Books
  <2>2. \A q \in Repos : known[q] <= known[q]
    BY <2>1
  <2>3. /\ rows \in SUBSET Repos /\ Repos \ Removable \subseteq rows /\ selected \in rows
        /\ active \in {None, active}
    BY <1>1 DEF Inv, Books
  <2> HIDE DEF rows
  <2> QED BY <1>2, <1>3, <2>1, <2>2, <2>3, GPrepared, DiscoveryKeeps
<1>4. CASE /\ listed' = rows /\ selected' = selected /\ Turns(g)
           /\ UNCHANGED <<known, active>>
  <2>1. Away(posted', listed')
    BY <1>2, <1>4 DEF Away, RowOf
  <2>2. /\ g'.repo = g.repo /\ asked' \in Nat
        /\ Holds(g', dropped', known', Away(posted', listed'))
    BY <1>4, <2>1, GQuiet, QuietTurns
  <2>3. Books' /\ Follows'
    BY <1>1, <1>2, <1>4, <2>1, <2>2 DEF Inv, Books, Follows
  <2> QED BY <2>2, <2>3, Again
<1> QED BY <1>1, <1>3, <1>4 DEF AddRepo

(* Of a removed repository nothing is cached, and its status is gone.      *)
LEMMA RemoveKeeps == ASSUME Inv, NEW r \in Repos, RemoveRepo(r) PROVE Inv'
<1> DEFINE rest == listed \ {r}
           ver  == [known EXCEPT ![r] = 0]
           S    == {k \in Keys : k.path = r}
           t    == Forget(g, S)
<1>1. PICK sel \in Repos \cup {None}, act \in {active, None} :
        /\ r \in listed \cap Removable
        /\ AfterRemoval(r, sel)
        /\ \/ /\ listed' = rest /\ selected' = sel /\ known' = ver /\ active' = act
              /\ Turns(t)
           \/ Discovers(rest, sel, ver, act, t)
  BY DEF RemoveRepo, Invalidate
<1>2. Repos \ Removable \subseteq rest /\ rest # {} /\ rest \in SUBSET Repos
  BY <1>1 DEF Inv, NeverEmpty, Books
<1>3. sel \in rest /\ posted' = sel /\ refs' = refs /\ sel \in Paths /\ sel # None
  BY <1>1, <1>2, PathsAssumption DEF AfterRemoval, Posts, Paths
<1>4. known \in [Repos -> Nat] /\ refs \in [Paths -> Nat]
  BY DEF Inv, Books
<1>5. ver \in [Repos -> Nat] /\ ver[r] = 0 /\ \A q \in Repos : ver[q] \in Nat /\ ver[q] <= known[q]
  BY <1>4
<1>6. Recached(g, t) /\ \A k \in Keys : t.cache[k] = IF k.path = r THEN None ELSE g.cache[k]
  <2>1. t.cache = [k \in Keys |-> IF k \in S THEN None ELSE g.cache[k]] /\ Recached(g, t)
    BY Forgets DEF Inv, Latched
  <2> QED BY <2>1
<1> HIDE DEF ver, t, S
<1>7. CASE Discovers(rest, sel, ver, act, t)
  <2>1. \A k \in Keys : t.cache[k] \in {None, g.cache[k]}
    BY <1>6
  <2> HIDE DEF rest
  <2>2. act \in {None, active} /\ rest \in SUBSET Repos /\ sel \in rest
    BY <1>2, <1>3
  <2>3. ver \in [Repos -> Nat] /\ \A q \in Repos : ver[q] <= known[q]
    BY <1>5
  <2>4. refs' = refs /\ posted' \in Paths \cup {None}
    BY <1>3
  <2>5. Repos \ Removable \subseteq rest /\ Recached(g, t)
    BY <1>2, <1>6
  <2> QED BY <1>7, <2>1, <2>2, <2>3, <2>4, <2>5, DiscoveryKeeps
<1>8. CASE listed' = rest /\ selected' = sel /\ known' = ver /\ active' = act /\ Turns(t)
  <2>1. Away(posted', listed')
    BY <1>2, <1>3, <1>8 DEF Away, RowOf
  <2>2. \A k \in Keys : t.cache[k] # g.cache[k] =>
          t.cache[k] = None /\ \A v \in Nat : ~Behind(k, v, ver)
    BY <1>5, <1>6 DEF Behind
  <2>3. Quiet(t, ver)
    BY <1>5, <1>6, <2>2 DEF Quiet, Recached, CurrentOf, Inv, Latched
  <2>4. Turns(t) /\ ver = known'
    BY <1>8
  <2>5. /\ g'.repo = g.repo /\ asked' \in Nat
        /\ Holds(g', dropped', ver, Away(posted', listed'))
    BY <2>1, <2>3, <2>4, QuietTurns
  <2>6. Books'
    <3>1. \A q \in Repos : known'[q] <= refs'[q]
      BY <1>3, <1>4, <1>5, <1>8 DEF Inv, Books, Paths
    <3> QED BY <1>2, <1>3, <1>4, <1>5, <1>8, <2>5, <3>1 DEF Inv, Books
  <2>7. Follows'
    BY <1>8, <2>1, <2>5 DEF Inv, Follows
  <2> QED BY <2>4, <2>5, <2>6, <2>7, Again
<1> QED BY <1>1, <1>7, <1>8

LEMMA RemoveTreeKeeps == ASSUME Inv, RemoveWorktree PROVE Inv'
<1>1. /\ posted = None /\ active # None /\ active' = None /\ Turns(g)
      /\ UNCHANGED <<refs, listed, selected, known, posted>>
  BY DEF RemoveWorktree, listVars
<1>2. g' = g /\ Holds(g, dropped', known, Away(posted, listed)) /\ asked' = asked
  BY <1>1, GQuiet, QuietHolds DEF Turns, Inv, Books
<1>3. Books' /\ Follows'
  BY <1>1, <1>2, ActiveIs DEF Inv, Books, Follows
<1> QED BY <1>1, <1>2, <1>3, Again

(* The posted selection arrives, or its row has left the list meanwhile.   *)
LEMMA SelectRepoKeeps == ASSUME Inv, SelectRepo PROVE Inv'
<1>1. /\ posted \in Repos /\ posted # None /\ posted' = None /\ active' = None
      /\ selected' = IF posted \in listed THEN posted ELSE selected
      /\ IF posted \in listed THEN Loads(LoadRepo(g, posted)) ELSE Turns(g)
      /\ UNCHANGED <<refs, listed, known>>
  BY DEF SelectRepo
<1>2. ~Away(posted', listed')
  BY <1>1 DEF Away
<1>3. CASE posted \in listed
  <2> DEFINE t == LoadRepo(g, posted)
  <2>1. Loaded(g, posted, t) /\ Loads(t)
    BY <1>1, <1>3, GPrepared, RepoLoads DEF Prepared, Paths
  <2> HIDE DEF t
  <2>2. g' = t /\ Holds(t, dropped', known, Away(posted', listed'))
    BY <1>1, <2>1, GPrepared, LoadHolds DEF Paths
  <2>3. Books' /\ Follows'
    BY <1>1, <1>3, <2>1, <2>2 DEF Loaded, Loads, Inv, Books, Follows
  <2> QED BY <1>1, <2>2, <2>3, Again
<1>4. CASE posted \notin listed
  <2>1. ~Away(posted, listed)
    BY <1>1, <1>4 DEF Away, RowOf
  <2>2. g' = g /\ Holds(g, dropped', known, Away(posted', listed')) /\ asked' = asked
    BY <1>1, <1>4, <2>1, GQuiet, QuietHolds DEF Turns, Inv, Books
  <2>3. Books' /\ Follows'
    BY <1>1, <1>4, <2>1, <2>2, ActiveIs DEF Inv, Books, Follows
  <2> QED BY <1>1, <2>2, <2>3, Again
<1> QED BY <1>3, <1>4

LEMMA SelectTreeKeeps == ASSUME Inv, SelectTree PROVE Inv'
<1>1. /\ posted \in Trees /\ posted # None /\ posted' = None
      /\ UNCHANGED <<refs, listed, selected, known>>
      /\ \/ active' = posted /\ Loads(LoadRepo(g, posted))
         \/ Parent[posted] \notin listed /\ active' = active /\ Turns(g)
  BY DEF SelectTree, listVars
<1>2. ~Away(posted', listed') /\ posted \in Paths /\ posted \notin Repos
  BY <1>1, PathsAssumption DEF Away, Paths
<1>3. CASE active' = posted /\ Loads(LoadRepo(g, posted))
  <2> DEFINE t == LoadRepo(g, posted)
  <2>1. Loaded(g, posted, t) /\ Loads(t)
    BY <1>2, <1>3, GPrepared, RepoLoads DEF Prepared
  <2> HIDE DEF t
  <2>2. g' = t /\ Holds(t, dropped', known, Away(posted', listed'))
    BY <1>2, <2>1, GPrepared, LoadHolds
  <2>3. Books' /\ Follows'
    BY <1>1, <1>2, <1>3, <2>1, <2>2 DEF Loaded, Loads, Inv, Books, Follows
  <2> QED BY <1>1, <2>2, <2>3, Again
<1>4. CASE Parent[posted] \notin listed /\ active' = active /\ Turns(g)
  <2>1. ~Away(posted, listed)
    BY <1>2, <1>4 DEF Away, RowOf
  <2>2. g' = g /\ Holds(g, dropped', known, Away(posted', listed')) /\ asked' = asked
    BY <1>4, <2>1, GQuiet, QuietHolds DEF Turns, Inv, Books
  <2>3. Books' /\ Follows'
    BY <1>1, <1>4, <2>1, <2>2 DEF Inv, Books, Follows
  <2> QED BY <1>1, <2>2, <2>3, Again
<1> QED BY <1>1, <1>3, <1>4

(* What the user does to the panel.                                        *)
LEMMA CommandKeeps ==
  ASSUME Inv, NEW t, Holds(t, dropped', known, Away(posted, listed)), g' = t, Loads(t),
         UNCHANGED <<refs, listed, selected, known, active, posted>>,
         t.repo = g.repo \/ (t.repo = IF active # None THEN active ELSE selected)
  PROVE  Inv'
<1>1. Books' /\ Follows'
  BY DEF Loads, Inv, Books, Follows
<1> QED BY <1>1, Again

LEMMA SortKeeps == ASSUME Inv, CycleSortOrder PROVE Inv'
<1> DEFINE t == Synced(g, selected, active)
<1>1. Loads(t) /\ UNCHANGED <<refs, listed, selected, known, active, posted>>
  BY DEF CycleSortOrder, Command, listVars
<1>2. known \in [Repos -> Nat] /\ selected \in Repos /\ active \in {None, active}
  BY DEF Inv, Books
<1>3. \A r \in Repos : known[r] \in Nat /\ known[r] <= known[r]
  BY <1>2
<1>4. /\ Holds(g', dropped', known, Away(posted, listed))
      /\ g'.repo = IF active # None THEN active ELSE selected
  BY <1>1, <1>2, <1>3, GPrepared, SyncedHolds
<1>5. g' = t
  BY <1>1 DEF Loads, Becomes
<1> HIDE DEF t
<1> QED BY <1>1, <1>4, <1>5, CommandKeeps

LEMMA ShowKeeps == ASSUME Inv, ShowGitGraph PROVE Inv'
<1> DEFINE t == IF active # None THEN RefreshTree(g, active) ELSE ForceReload(g, selected)
<1>1. selected \in Paths /\ selected # None
  BY PathsAssumption DEF Inv, Books, Paths
<1>2. Loads(t) /\ UNCHANGED <<refs, listed, selected, known, active, posted>>
  BY <1>1 DEF ShowGitGraph, Command, listVars
<1>3. CASE active # None
  <2>1. active \in Trees /\ g.repo = active /\ active \in Paths
    BY <1>3, ActiveIs DEF Paths
  <2>2. Refreshed(g, active, t)
    BY <1>3, <2>1, TreeRefreshes DEF Inv
  <2>3. known \in [Repos -> Nat]
    BY DEF Inv, Books
  <2>4. \A r \in Repos : known[r] \in Nat /\ known[r] <= known[r]
    BY <2>3
  <2> HIDE DEF t
  <2>5. g' = t /\ Holds(t, dropped', known, Away(posted, listed))
    BY <1>2, <2>1, <2>2, <2>4, GPrepared, TreeHolds
  <2> QED BY <1>2, <1>3, <2>1, <2>2, <2>5, CommandKeeps DEF Refreshed
<1>4. CASE active = None
  <2>1. Loaded(g, selected, t)
    BY <1>1, <1>4, GPrepared, ForceLoads DEF Prepared
  <2> HIDE DEF t
  <2>2. g' = t /\ Holds(t, dropped', known, Away(posted, listed))
    BY <1>1, <1>2, <2>1, GPrepared, LoadHolds
  <2> QED BY <1>2, <1>4, <2>1, <2>2, CommandKeeps DEF Loaded
<1> QED BY <1>3, <1>4

LEMMA OptionsKeep == ASSUME Inv, NEW o \in Options, SetOptions(o) PROVE Inv'
<1> DEFINE h == [g EXCEPT !.options = o]
           t == LoadRepo(h, g.repo)
<1>1. g.repo \in Paths /\ g.repo # None /\ g \in Panel(g.used)
  BY Versions DEF Inv, Latched
<1>2. Loads(t) /\ UNCHANGED <<refs, listed, selected, known, active, posted>>
  BY <1>1 DEF SetOptions, Command, listVars
<1>3. /\ h.repo = g.repo /\ h.cache = g.cache /\ h.rows = g.rows
      /\ h.inFlight = g.inFlight /\ h.gen = g.gen /\ h.needsReload = g.needsReload
      /\ h.key = g.key /\ h.builds = g.builds /\ h.used = g.used
      /\ h \in Panel(h.used)
  BY <1>1 DEF Panel
<1> HIDE DEF h
<1>4. Prepared(h, known)
  <2>1. IsPanel(h) /\ CurrentOf(h) = CurrentOf(g) /\ (h.inFlight => Busy(h))
    BY <1>3 DEF IsPanel, CurrentOf, Busy, Inv, Latched
  <2> QED BY <1>3, <2>1, GPrepared DEF Prepared
<1>5. Loaded(h, g.repo, t)
  BY <1>1, <1>4, RepoLoads DEF Prepared
<1> HIDE DEF t
<1>6. g' = t /\ Holds(t, dropped', known, Away(posted, listed))
  BY <1>1, <1>2, <1>4, <1>5, LoadHolds
<1> QED BY <1>2, <1>5, <1>6, CommandKeeps DEF Loaded

(* Steps that ask for no load.                                             *)
LEMMA TurnKeeps ==
  ASSUME Inv, NEW t, Holds(t, dropped', known, Away(posted, listed)), g' = t,
         asked' = asked, t.repo = g.repo,
         UNCHANGED <<refs, listed, selected, known, active, posted>>
  PROVE  Inv'
<1>1. Books' /\ Follows'
  BY DEF Inv, Books, Follows
<1> QED BY <1>1, Again

LEMMA OpenKeeps == ASSUME Inv, OpenDetail PROVE Inv'
<1> DEFINE t == [g EXCEPT !.detail = TRUE]
<1>1. Turns(t) /\ UNCHANGED <<refs, listed, selected, known, active, posted>>
  BY DEF OpenDetail, listVars
<1>2. g \in Panel(g.used)
  BY Versions
<1>3. /\ t.repo = g.repo /\ t.options = g.options /\ t.cache = g.cache /\ t.rows = g.rows
      /\ t.inFlight = g.inFlight /\ t.gen = g.gen /\ t.needsReload = g.needsReload
      /\ t.key = g.key /\ t.loading = g.loading /\ t.error = g.error /\ t.builds = g.builds
      /\ t.aborts = g.aborts /\ t.detail = TRUE /\ t.used = g.used
      /\ t \in Panel(t.used)
  BY <1>2 DEF Panel
<1> HIDE DEF t
<1>4. Quiet(t, known)
  BY <1>3, GQuiet DEF Quiet, IsPanel, CurrentOf
<1>5. Becomes(t) /\ asked' = asked /\ asked' \in Nat /\ asked <= asked'
  BY <1>1 DEF Turns, Inv, Books
<1>6. g' = t /\ Holds(t, dropped', known, Away(posted, listed))
  BY <1>4, <1>5, QuietHolds
<1> QED BY <1>1, <1>3, <1>5, <1>6, TurnKeeps

LEMMA CloseKeeps == ASSUME Inv, CloseDetail PROVE Inv'
<1> DEFINE h == [g EXCEPT !.detail = FALSE]
           t == ReloadPending(h)
<1>1. Turns(t) /\ UNCHANGED <<refs, listed, selected, known, active, posted>>
  BY DEF CloseDetail, listVars
<1>2. g \in Panel(g.used)
  BY Versions
<1>3. /\ h.repo = g.repo /\ h.options = g.options /\ h.cache = g.cache /\ h.rows = g.rows
      /\ h.inFlight = g.inFlight /\ h.gen = g.gen /\ h.needsReload = g.needsReload
      /\ h.key = g.key /\ h.loading = g.loading /\ h.error = g.error /\ h.builds = g.builds
      /\ h.aborts = g.aborts /\ h.used = g.used /\ h \in Panel(h.used)
  BY <1>2 DEF Panel
<1> HIDE DEF h
<1>4. /\ IsPanel(h) /\ CurrentOf(h) = CurrentOf(g) /\ Debt(h) = Debt(g) /\ h.repo # None
      /\ IF h.inFlight THEN Busy(h) ELSE Idle(h)
      /\ Edited(h) => h.needsReload
  BY <1>3 DEF Inv, Latched, IsPanel, CurrentOf, Busy, Idle, Edited, Key, Debt
<1>5. Resumed(h, t)
  BY <1>4, PendingResumes
<1> HIDE DEF t
<1>6. g' = t /\ Holds(t, dropped', known, Away(posted, listed))
  BY <1>1, <1>3, <1>4, <1>5, ResumedHolds
<1>7. t.repo = g.repo /\ asked' = asked
  BY <1>1, <1>3, <1>5 DEF Resumed, Turns
<1> QED BY <1>1, <1>6, <1>7, TurnKeeps

(* Builds.  What is read now is not behind a status of before.             *)
LEMMA ReadKeeps == ASSUME Inv, NEW b \in g.builds, BuildReads(b) PROVE Inv'
<1> DEFINE n == [b EXCEPT !.read = refs[b.key.path]]
           t == [g EXCEPT !.builds = (g.builds \ {b}) \cup {n}]
<1>1. /\ b.read = 0 /\ b.gen = g.gen /\ g' = t
      /\ UNCHANGED <<refs, listed, selected, known, active, posted, dropped, asked>>
  BY DEF BuildReads, listVars
<1>2. /\ g.inFlight /\ CurrentOf(g) = {b} /\ g.key = b.key /\ b.key.path = g.repo
      /\ b \in Build /\ b.key \in Keys
  BY <1>1, CurrentIs
<1>3. refs \in [Paths -> Nat] /\ b.key.path \in Paths /\ g \in Panel(g.used)
  BY <1>2, Versions DEF Inv, Books
<1>4. n \in Build /\ n.key = b.key /\ n.gen = b.gen /\ n.read = refs[b.key.path]
  BY <1>2, <1>3 DEF Build
<1> HIDE DEF n
<1>5. /\ t.repo = g.repo /\ t.options = g.options /\ t.cache = g.cache /\ t.rows = g.rows
      /\ t.inFlight = g.inFlight /\ t.gen = g.gen /\ t.needsReload = g.needsReload
      /\ t.key = g.key /\ t.loading = g.loading /\ t.error = g.error
      /\ t.builds = (g.builds \ {b}) \cup {n}
      /\ t.aborts = g.aborts /\ t.detail = g.detail /\ t.used = g.used
  BY <1>3 DEF Panel
<1>6. t \in Panel(t.used)
  <2>1. (g.builds \ {b}) \cup {n} \in SUBSET Build
    BY <1>3, <1>4 DEF Panel
  <2> QED BY <1>3, <1>5, <2>1 DEF Panel
<1> HIDE DEF t
<1>7. IsPanel(t)
  BY <1>1, <1>4, <1>5, <1>6 DEF IsPanel, Inv, Latched
<1>8. CurrentOf(t) = {n}
  BY <1>1, <1>2, <1>4, <1>5 DEF CurrentOf
<1>9. Latched(t)
  BY <1>2, <1>4, <1>5, <1>7, <1>8 DEF Inv, Latched, Busy, Edited, Key
<1>10. RowsInv(t)
  BY <1>5 DEF Inv, RowsInv
<1>11. CatchesUp(t, dropped', known, Away(posted, listed))
  <2>1. b.key.path \in Repos => refs[b.key.path] \in Nat /\ known[b.key.path] <= refs[b.key.path]
    BY <1>3 DEF Inv, Books
  <2>2. known \in [Repos -> Nat]
    BY DEF Inv, Books
  <2>3. ~Behind(n.key, n.read, known)
    BY <1>4, <2>1, <2>2 DEF Behind
  <2>4. BuildCatchesUp(t, known, Away(posted, listed))
    BY <1>8, <2>3 DEF BuildCatchesUp
  <2>5. Pending(t) = Pending(g) /\ Key(t, t.repo) = Key(g, g.repo)
    BY <1>5 DEF Pending, Key
  <2> QED BY <1>1, <1>5, <2>4, <2>5 DEF Inv, CatchesUp, EntriesCatchUp, RowsCatchUp
<1>12. Debt(t) <= asked'
  BY <1>1, <1>5 DEF Inv, Debt
<1>13. Holds(t, dropped', known, Away(posted, listed))
  BY <1>9, <1>10, <1>11, <1>12 DEF Holds
<1> QED BY <1>1, <1>5, <1>13, TurnKeeps

(* What a report of the current build makes of the panel.                  *)
Taken(b, t) ==
  \/ b.read > 0 /\ t = SetRows(Done(b), [key |-> b.key, version |-> b.read])
  \/ t \in {SetError(Done(b)), AbortLoad(Done(b))}

LEMMA ReportKeeps ==
  ASSUME Inv, NEW b \in g.builds, NEW t, Report(b, t), b.gen = g.gen => Taken(b, t)
  PROVE  Inv'
<1> DEFINE d == Done(b)
<1>1. /\ Turns(IF b.gen = g.gen THEN t ELSE d)
      /\ UNCHANGED <<refs, listed, selected, known, active, posted>> /\ asked' = asked
  BY DEF Report, Done, Turns, listVars
<1>2. CASE b.gen = g.gen
  <2>1. /\ IsPanel(d) /\ d.repo = g.repo /\ g.repo # None /\ CurrentOf(d) = {} /\ d.inFlight
        /\ d.key = g.key /\ g.key = b.key /\ b.key.path = g.repo
        /\ b \in Build /\ b.key \in Keys /\ d.options = g.options /\ d.needsReload = g.needsReload
    BY <1>2, CurrentIs, DoneIs DEF Inv, Latched
  <2> HIDE DEF d
  <2>2. CASE b.read > 0 /\ t = SetRows(Done(b), [key |-> b.key, version |-> b.read])
    <3>1. g' = t /\ Holds(t, dropped', known, Away(posted, listed))
      BY <1>1, <1>2, <2>2, RowsHold
    <3>2. [key |-> b.key, version |-> b.read] \in Rows
      BY <2>1 DEF Rows, Build
    <3>3. Edited(d) => d.needsReload
      BY <2>1 DEF Edited, Key, Inv, Latched
    <3>4. t.repo = g.repo
      BY <2>1, <2>2, <3>2, <3>3, RowsSettle DEF Settled, d
    <3> QED BY <1>1, <3>1, <3>4, TurnKeeps
  <2>3. CASE t \in {SetError(Done(b)), AbortLoad(Done(b))}
    <3>1. Failed(Done(b), t)
      BY <2>1, <2>3, ErrorFails, AbortFails DEF d
    <3>2. g' = t /\ Holds(t, dropped', known, Away(posted, listed))
      BY <1>1, <1>2, <3>1, FailureHolds
    <3>3. t.repo = g.repo
      BY <2>1, <3>1 DEF Failed, d
    <3> QED BY <1>1, <3>2, <3>3, TurnKeeps
  <2> QED BY <1>2, <2>2, <2>3 DEF Taken
<1>3. CASE b.gen # g.gen
  <2>1. CurrentOf(d) = CurrentOf(g)
    BY <1>3, DoneIs DEF CurrentOf
  <2>2. Quiet(d, known)
    BY <2>1, DoneIs, GQuiet DEF Quiet
  <2>3. Becomes(d) /\ asked' = asked /\ asked' \in Nat /\ asked <= asked'
    BY <1>1, <1>3 DEF Turns, Inv, Books
  <2>4. d.repo = g.repo
    BY DoneIs
  <2> HIDE DEF d
  <2>5. g' = d /\ Holds(d, dropped', known, Away(posted, listed))
    BY <2>2, <2>3, QuietHolds
  <2> QED BY <1>1, <2>3, <2>4, <2>5, TurnKeeps
<1> QED BY <1>2, <1>3
(* The refs of a path move: no status tells of it yet.                     *)
LEMMA RefsKeep == ASSUME Inv, NEW p \in Paths, RefsMove(p) PROVE Inv'
<1>1. /\ refs' = [refs EXCEPT ![p] = @ + 1]
      /\ UNCHANGED <<listed, selected, known, active, posted, g, dropped, asked>>
  BY DEF RefsMove, listVars
<1>2. /\ refs \in [Paths -> Nat] /\ known \in [Repos -> Nat]
      /\ \A r \in Repos : known[r] <= refs[r]
  BY DEF Inv, Books
<1>3. refs' \in [Paths -> Nat] /\ \A r \in Repos : known[r] <= refs'[r]
  BY <1>1, <1>2 DEF Paths
<1>4. Books' /\ Follows'
  BY <1>1, <1>3 DEF Inv, Books, Follows
<1>5. Holds(g', dropped', known', Away(posted', listed'))
  BY <1>1 DEF Inv, Holds
<1> QED BY <1>4, <1>5, Again

LEMMA Idles == ASSUME Inv, UNCHANGED vars PROVE Inv'
BY DEF Inv, Books, Follows, vars, listVars

(* GitGraph::new, pointed at the first row of the list.                    *)
LEMMA InitInv == ASSUME NeverEmpty, Init PROVE Inv
<1>1. PICK o \in Options :
        g = Synced(Fresh([options |-> o, life |-> 0, builds |-> {}]), selected, None)
  BY DEF Init
<1> DEFINE h == Fresh([options |-> o, life |-> 0, builds |-> {}])
<1>2. /\ h.repo = None /\ h.options = o /\ h.rows = None /\ ~h.inFlight /\ ~h.needsReload
      /\ h.key = None /\ h.gen = 0 /\ h.builds = {} /\ h.cache = [k \in Keys |-> None]
      /\ h.used = <<>>
  BY DEF Fresh
<1>3. h \in Panel(h.used)
  BY DEF Fresh, Panel
<1>4. IsPanel(h)
  BY <1>2, <1>3 DEF IsPanel
<1>5. /\ listed \in SUBSET Repos /\ Repos \ Removable \subseteq listed /\ selected \in listed
      /\ selected \in Paths /\ selected # None
  BY PathsAssumption DEF Init, NeverEmpty, Paths
<1> HIDE DEF h
<1>6. g = LoadRepo(h, selected)
  BY <1>1, <1>5 DEF Synced, h
<1>7. Loaded(h, selected, g)
  BY <1>2, <1>4, <1>5, <1>6, RepoLoads
<1>8. h.cache[Key(h, selected)] = None /\ g.cache = h.cache
  BY <1>2, <1>4, <1>5, <1>7, KeyType DEF Loaded
<1>9. /\ Latched(g) /\ g.repo = selected /\ g.rows = None /\ g.inFlight
      /\ \A b \in CurrentOf(g) : b.read = 0
  BY <1>2, <1>5, <1>7, <1>8 DEF Loaded
<1>10. Debt(g) <= asked
  BY <1>2, <1>7 DEF Loaded, Debt, Init
<1>11. Books
  BY <1>5 DEF Init, Books, Paths
<1>12. Follows
  BY <1>9 DEF Init, Follows
<1>13. \A k \in Keys : g.cache[k] = None
  BY <1>2, <1>8
<1>14. RowsInv(g)
  BY <1>9, <1>13 DEF RowsInv
<1>15. CatchesUp(g, dropped, known, Away(posted, listed))
  <2>1. dropped = {}
    BY DEF Init
  <2> QED BY <2>1, <1>9, <1>13
          DEF CatchesUp, EntriesCatchUp, BuildCatchesUp, RowsCatchUp
<1> QED BY <1>9, <1>10, <1>11, <1>12, <1>14, <1>15 DEF Inv

LEMMA BuildsKeep == ASSUME Inv, Builds PROVE Inv'
<1>1. PICK b \in g.builds : BuildReads(b) \/ GraphLoaded(b) \/ BuildFails(b)
  BY DEF Builds
<1>2. CASE BuildReads(b)
  BY <1>2, ReadKeeps
<1>3. CASE GraphLoaded(b)
  <2> DEFINE t == SetRows(Done(b), [key |-> b.key, version |-> b.read])
  <2>1. Report(b, t) /\ (b.gen = g.gen => b.read > 0)
    BY <1>3 DEF GraphLoaded
  <2> QED BY <2>1, ReportKeeps DEF Taken
<1>4. CASE BuildFails(b)
  <2>1. CASE Report(b, SetError(Done(b)))
    BY <2>1, ReportKeeps DEF Taken
  <2>2. CASE Report(b, AbortLoad(Done(b)))
    BY <2>2, ReportKeeps DEF Taken
  <2> QED BY <1>4, <2>1, <2>2 DEF BuildFails
<1> QED BY <1>1, <1>2, <1>3, <1>4

LEMMA UserKeeps == ASSUME Inv, User PROVE Inv'
<1>1. ASSUME NEW p \in Paths, Cursor(p) PROVE Inv'
  BY <1>1, CursorKeeps
<1>2. ASSUME NEW r \in Repos, AddRepo(r) \/ RemoveRepo(r) PROVE Inv'
  BY <1>2, AddKeeps, RemoveKeeps
<1>3. ASSUME NEW o \in Options, SetOptions(o) PROVE Inv'
  BY <1>3, OptionsKeep
<1>4. CASE RemoveWorktree
  BY <1>4, RemoveTreeKeeps
<1>5. CASE CycleSortOrder
  BY <1>5, SortKeeps
<1>6. CASE Rescan
  BY <1>6, RescanKeeps
<1>7. CASE ShowGitGraph
  BY <1>7, ShowKeeps
<1>8. CASE OpenDetail
  BY <1>8, OpenKeeps
<1>9. CASE CloseDetail
  BY <1>9, CloseKeeps
<1> QED BY <1>1, <1>2, <1>3, <1>4, <1>5, <1>6, <1>7, <1>8, <1>9 DEF User

LEMMA StepInv == ASSUME Inv, [Next]_vars PROVE Inv'
<1>1. ASSUME NEW p \in Paths, RefsMove(p) PROVE Inv'
  BY <1>1, RefsKeep
<1>2. ASSUME NEW r \in Repos, NEW v \in known[r]..refs[r], StatusUpdated(r, v) PROVE Inv'
  BY <1>2, StatusKeeps
<1>3. CASE SelectRepo
  BY <1>3, SelectRepoKeeps
<1>4. CASE SelectTree
  BY <1>4, SelectTreeKeeps
<1>5. CASE PollTree
  BY <1>5, PollKeeps
<1>6. CASE DiscoverNewRepos
  BY <1>6, DiscoverKeeps
<1>7. CASE User
  BY <1>7, UserKeeps
<1>8. CASE Builds
  BY <1>8, BuildsKeep
<1>9. CASE UNCHANGED vars
  BY <1>9, Idles
<1> QED BY <1>1, <1>2, <1>3, <1>4, <1>5, <1>6, <1>7, <1>8, <1>9 DEF Next

-----------------------------------------------------------------------------
(* The results.                                                            *)

LEMMA InvAlways == NeverEmpty => (Spec => []Inv)
<1>1. NeverEmpty /\ Init => Inv
  BY InitInv
<1>2. Inv /\ [Next]_vars => Inv'
  BY StepInv
<1> QED BY <1>1, <1>2, PTL DEF Spec

(* The latch of the panel (load_in_flight) is set exactly while the build  *)
(* it waits for is running, whatever is loaded, polled, removed, fails or  *)
(* panics meanwhile, and a remembered reload has what will start it.       *)
THEOREM LatchAlwaysBuild == NeverEmpty => (Spec => []LatchIsBuild)
<1>1. Inv => LatchIsBuild
  BY DEF Inv, Latched, Busy, Idle, CurrentOf, Current, LatchIsBuild
<1> QED BY <1>1, InvAlways, PTL

(* The panel never shows the graph of another repository, nor rows of      *)
(* other filters without a reload to come, and the cache is never wrong.   *)
THEOREM RowsAlwaysOfKey == NeverEmpty => (Spec => []RowsAreOfKey)
<1>1. Inv => RowsAreOfKey
  <2> SUFFICES ASSUME Inv PROVE RowsAreOfKey
    OBVIOUS
  <2>1. RowsInv(g)
    BY DEF Inv
  <2> QED BY <2>1 DEF RowsInv, RowsAreOfKey
<1> QED BY <1>1, InvAlways, PTL

(* The panel starts no more builds and lookups than it was asked for, the  *)
(* one that is owed by needs_reload included.                              *)
THEOREM NeverReplays == NeverEmpty => (Spec => []NoReplay)
<1>1. Inv => NoReplay
  <2> SUFFICES ASSUME Inv PROVE g.gen <= asked
    BY DEF NoReplay
  <2>1. Debt(g) <= asked /\ asked \in Nat /\ g.gen \in Nat
    BY DEF Inv, Books, Latched, IsPanel, Panel
  <2> QED BY <2>1 DEF Debt
<1> QED BY <1>1, InvAlways, PTL

(* A graph at rest is not older than the status in its row, but for the    *)
(* cached graphs whose reload was given up.                                *)
THEOREM RestAlwaysKnown == NeverEmpty => (Spec => []RestIsKnown)
<1>1. Inv => RestIsKnown
  <2> SUFFICES ASSUME Inv, NEW r \in listed, AtRest(r),
                      ~(g.rows.version >= known[r])
               PROVE  Key(g, r) \in dropped
    BY DEF RestIsKnown
  <2>1. /\ g.repo = r /\ r \in Repos /\ g.rows # None /\ known[r] \in Nat
        /\ g.rows.version \in Nat
    BY Versions DEF AtRest, Inv, Books
  <2>2. ~Away(posted, listed) /\ ~Pending(g) /\ ~g.error /\ ~(g.aborts > 0)
    BY DEF AtRest, Away, Pending
  <2>3. Behind(Key(g, r), g.rows.version, known)
    BY <2>1 DEF Behind, Key
  <2> QED BY <2>1, <2>2, <2>3 DEF Inv, CatchesUp, RowsCatchUp
<1> QED BY <1>1, InvAlways, PTL
-----------------------------------------------------------------------------
(* Builds leave the panel by their report alone.                           *)

LEMMA SyncedStays ==
  ASSUME Inv, NEW h, Recached(g, h), NEW sel \in Repos, NEW act \in {None, active}
  PROVE  g.builds \subseteq Synced(h, sel, act).builds
<1>1. sel \in Paths /\ sel # None /\ h.builds = g.builds
  BY PathsAssumption DEF Paths, Recached
<1>2. CASE act # None
  <2>1. act \in Paths /\ g.repo = act
    BY <1>2, ActiveIs DEF Paths
  <2>2. Latched(h) /\ h.repo = act
    BY <2>1 DEF Recached, Inv, Latched, Busy, Idle, Edited, Key, CurrentOf
  <2>3. Refreshed(h, act, RefreshTree(h, act))
    BY <2>1, <2>2, TreeRefreshes
  <2> QED BY <1>1, <1>2, <2>3 DEF Synced, Refreshed
<1>3. CASE act = None
  <2>1. IsPanel(h) /\ (h.inFlight => Busy(h))
    BY DEF Recached, Inv, Latched, Busy, CurrentOf
  <2>2. Loaded(h, sel, LoadRepo(h, sel))
    BY <1>1, <2>1, RepoLoads
  <2> QED BY <1>1, <1>3, <2>2 DEF Synced, Loaded
<1> QED BY <1>2, <1>3

LEMMA DiscoveryStays ==
  ASSUME Inv, NEW rows, Repos \ Removable \subseteq rows, NEW sel \in Repos, NEW versions,
         NEW act \in {None, active}, NEW h,
         Recached(g, h), Discovers(rows, sel, versions, act, h)
  PROVE  g.builds \subseteq g'.builds
<1>1. PICK S \in SUBSET Repos :
        LET gone == rows \ S
            t    == Forget(h, {k \in Keys : k.path \in gone})
        IN
        /\ (S \ rows) \cup gone \subseteq Removable
        /\ selected' \in Reanchored(sel, S)
        /\ active' = IF act # None /\ Parent[act] \in gone THEN None ELSE act
        /\ Loads(Synced(t, selected', active'))
  BY DEF Discovers
<1> DEFINE t == Forget(h, {k \in Keys : k.path \in rows \ S})
<1>2. Recached(g, t)
  <2> DEFINE F == {k \in Keys : k.path \in rows \ S}
  <2>1. IsPanel(h) /\ t = Forget(h, F)
    BY DEF Recached
  <2> HIDE DEF t, F
  <2>2. Recached(h, t)
    BY <2>1, Forgets
  <2> QED BY <2>2 DEF Recached
<1>3. g' = Synced(t, selected', active')
  BY <1>1 DEF Loads, Becomes
<1> HIDE DEF t
<1>4. S # {} /\ active' \in {None, active}
  BY <1>1 DEF Inv, NeverEmpty
<1>5. selected' \in Repos
  BY <1>1, <1>4 DEF Reanchored
<1> QED BY <1>1, <1>2, <1>3, <1>4, <1>5, SyncedStays

(* A reload asked for by a status, a poll, a command, or the end of the    *)
(* detail leaves every running build running.                              *)
LEMMA LoadStays ==
  ASSUME Inv
  PROVE  /\ \A p \in Paths : /\ g.builds \subseteq LoadRepo(g, p).builds
                             /\ g.builds \subseteq ForceReload(g, p).builds
         /\ active # None => g.builds \subseteq RefreshTree(g, active).builds
<1>1. IsPanel(g) /\ (g.inFlight => Busy(g)) /\ Latched(g)
  BY DEF Inv, Latched
<1>2. ASSUME NEW p \in Paths
      PROVE  Loaded(g, p, LoadRepo(g, p)) /\ Loaded(g, p, ForceReload(g, p))
  BY <1>1, RepoLoads, ForceLoads
<1>3. active # None => Refreshed(g, active, RefreshTree(g, active))
  BY <1>1, ActiveIs, TreeRefreshes DEF Paths
<1> QED BY <1>2, <1>3 DEF Loaded, Refreshed

LEMMA StatusStays ==
  ASSUME Inv, NEW r \in Repos, NEW v, StatusUpdated(r, v)
  PROVE  g.builds \subseteq g'.builds
<1> DEFINE S == {k \in Keys : k.path = r}
           h == Forget(g, S)
           u == [h EXCEPT !.needsReload = TRUE]
<1>1. \/ g' = h \/ g' = u \/ g' = LoadRepo(h, r)
  BY DEF StatusUpdated, Invalidate, Loads, Becomes
<1>2. Recached(g, h)
  BY Forgets DEF Inv, Latched
<1> HIDE DEF S, h
<1>3. h \in Panel(h.used) /\ h.builds = g.builds /\ IsPanel(h) /\ (h.inFlight => Busy(h))
  BY <1>2 DEF Recached, IsPanel, Inv, Latched, Busy, CurrentOf
<1>4. u.builds = h.builds
  BY <1>3 DEF Panel
<1>5. Loaded(h, r, LoadRepo(h, r))
  BY <1>3, RepoLoads DEF Paths
<1> QED BY <1>1, <1>3, <1>4, <1>5 DEF Loaded

LEMMA DetailStays ==
  ASSUME Inv, OpenDetail \/ CloseDetail
  PROVE  g.builds \subseteq g'.builds
<1> DEFINE h == [g EXCEPT !.detail = FALSE]
           u == [g EXCEPT !.detail = TRUE]
<1>1. g' = u \/ g' = ReloadPending(h)
  BY DEF OpenDetail, CloseDetail, Turns, Becomes
<1>2. g \in Panel(g.used) /\ g.repo # None
  BY Versions DEF Inv, Latched
<1>3. /\ u.builds = g.builds
      /\ h.repo = g.repo /\ h.inFlight = g.inFlight /\ h.gen = g.gen
      /\ h.needsReload = g.needsReload /\ h.key = g.key /\ h.loading = g.loading
      /\ h.options = g.options /\ h.builds = g.builds /\ h.used = g.used /\ h \in Panel(h.used)
  BY <1>2 DEF Panel
<1> HIDE DEF h
<1>4. /\ IsPanel(h) /\ h.repo # None /\ IF h.inFlight THEN Busy(h) ELSE Idle(h)
      /\ Edited(h) => h.needsReload
  BY <1>2, <1>3 DEF Inv, Latched, IsPanel, CurrentOf, Busy, Idle, Edited, Key
<1>5. Resumed(h, ReloadPending(h))
  BY <1>4, PendingResumes
<1> QED BY <1>1, <1>3, <1>5 DEF Resumed

LEMMA OptionsStay ==
  ASSUME Inv, NEW o \in Options, SetOptions(o)
  PROVE  g.builds \subseteq g'.builds
<1> DEFINE h == [g EXCEPT !.options = o]
<1>1. g.repo \in Paths /\ g.repo # None /\ g \in Panel(g.used)
  BY Versions DEF Inv, Latched
<1>2. g' = LoadRepo(h, g.repo)
  BY <1>1 DEF SetOptions, Command, Loads, Becomes
<1>3. /\ h.repo = g.repo /\ h.inFlight = g.inFlight /\ h.gen = g.gen
      /\ h.key = g.key /\ h.builds = g.builds /\ h.used = g.used /\ h \in Panel(h.used)
  BY <1>1 DEF Panel
<1> HIDE DEF h
<1>4. IsPanel(h) /\ (h.inFlight => Busy(h))
  BY <1>3 DEF IsPanel, CurrentOf, Busy, Inv, Latched
<1>5. Loaded(h, g.repo, LoadRepo(h, g.repo))
  BY <1>1, <1>4, RepoLoads
<1> QED BY <1>2, <1>3, <1>5 DEF Loaded

LEMMA ListStays ==
  ASSUME Inv, NEW r \in Repos, AddRepo(r) \/ RemoveRepo(r) \/ DiscoverNewRepos \/ Rescan
  PROVE  g.builds \subseteq g'.builds
<1>1. Recached(g, g) /\ selected \in Repos /\ selected # None /\ selected \in listed
  BY GPrepared, PathsAssumption DEF Inv, Books, Paths
<1>2. CASE AddRepo(r)
  <2>1. g' = g \/ Discovers(listed \cup {r}, selected, known, active, g)
    BY <1>1, <1>2 DEF AddRepo, Turns, Becomes
  <2>2. Repos \ Removable \subseteq listed \cup {r}
    BY DEF Inv, Books
  <2> QED BY <1>1, <2>1, <2>2, DiscoveryStays
<1>3. CASE RemoveRepo(r)
  <2> DEFINE S == {k \in Keys : k.path = r}
             t == Forget(g, S)
  <2>1. PICK sel \in Repos \cup {None}, act \in {active, None} :
          /\ r \in Removable /\ AfterRemoval(r, sel)
          /\ g' = t \/ Discovers(listed \ {r}, sel, [known EXCEPT ![r] = 0], act, t)
    BY <1>3 DEF RemoveRepo, Invalidate, Turns, Becomes
  <2>2. Repos \ Removable \subseteq listed \ {r} /\ listed \ {r} # {}
    BY <2>1 DEF Inv, NeverEmpty, Books
  <2>3. sel \in Repos
    BY <2>1, <2>2 DEF AfterRemoval, Inv, Books
  <2>4. Recached(g, t)
    BY Forgets DEF Inv, Latched
  <2> HIDE DEF S, t
  <2>5. CASE g' = t
    BY <2>4, <2>5 DEF Recached
  <2>6. CASE Discovers(listed \ {r}, sel, [known EXCEPT ![r] = 0], act, t)
    BY <2>2, <2>3, <2>4, <2>6, DiscoveryStays
  <2> QED BY <2>1, <2>5, <2>6
<1>4. CASE DiscoverNewRepos
  <2>1. Repos \ Removable \subseteq listed
    BY DEF Inv, Books
  <2> QED BY <1>1, <1>4, <2>1, DiscoveryStays DEF DiscoverNewRepos
<1>5. CASE Rescan
  <2>1. PICK S \in SUBSET Repos : /\ (S \ listed) \cup (listed \ S) \subseteq Removable
                                  /\ selected' \in Reanchored(selected, S)
    BY <1>5 DEF Rescan
  <2>2. S # {}
    BY <2>1 DEF Inv, NeverEmpty, Books
  <2>3. selected' \in Repos
    BY <2>1, <2>2 DEF Reanchored
  <2>4. Recached(g, Forget(g, Keys))
    BY Forgets DEF Inv, Latched
  <2>5. g' = Synced(Forget(g, Keys), selected', active)
    BY <1>5 DEF Rescan, Loads, Becomes
  <2> QED BY <2>3, <2>4, <2>5, SyncedStays
<1> QED BY <1>2, <1>3, <1>4, <1>5

LEMMA BuildsStay ==
  ASSUME Inv, Next, ~Builds
  PROVE  g.builds \subseteq g'.builds
<1>1. ASSUME NEW p \in Paths, RefsMove(p) \/ Cursor(p) PROVE g.builds \subseteq g'.builds
  BY <1>1 DEF RefsMove, Cursor, Turns, Becomes
<1>2. ASSUME NEW r \in Repos, NEW v \in known[r]..refs[r], StatusUpdated(r, v)
      PROVE  g.builds \subseteq g'.builds
  BY <1>2, StatusStays
<1>3. CASE SelectRepo
  BY <1>3, LoadStays DEF SelectRepo, Loads, Turns, Becomes, Paths
<1>4. CASE SelectTree
  BY <1>4, LoadStays DEF SelectTree, Loads, Turns, Becomes, Paths
<1>5. CASE PollTree
  BY <1>5, LoadStays DEF PollTree, Loads, Becomes
<1>6. CASE DiscoverNewRepos \/ Rescan
  <2>1. PICK r \in Repos : r = selected
    BY DEF Inv, Books
  <2> QED BY <1>6, ListStays
<1>7. ASSUME NEW r \in Repos, AddRepo(r) \/ RemoveRepo(r) PROVE g.builds \subseteq g'.builds
  BY <1>7, ListStays
<1>8. ASSUME NEW o \in Options, SetOptions(o) PROVE g.builds \subseteq g'.builds
  BY <1>8, OptionsStay
<1>9. CASE RemoveWorktree
  BY <1>9 DEF RemoveWorktree, Turns, Becomes
<1>10. CASE CycleSortOrder
  <2>1. Recached(g, g) /\ selected \in Repos
    BY GPrepared DEF Inv, Books
  <2>2. g' = Synced(g, selected, active)
    BY <1>10 DEF CycleSortOrder, Command, Loads, Becomes
  <2> QED BY <2>1, <2>2, SyncedStays
<1>11. CASE ShowGitGraph
  <2>1. selected \in Paths /\ selected # None
    BY PathsAssumption DEF Inv, Books, Paths
  <2>2. g' = IF active # None THEN RefreshTree(g, active) ELSE ForceReload(g, selected)
    BY <1>11, <2>1 DEF ShowGitGraph, Command, Loads, Becomes
  <2> QED BY <2>1, <2>2, LoadStays
<1>12. CASE OpenDetail \/ CloseDetail
  BY <1>12, DetailStays
<1> QED BY <1>1, <1>2, <1>3, <1>4, <1>5, <1>6, <1>7, <1>8, <1>9, <1>10, <1>11, <1>12
        DEF Next, User

(* Of a report that is taken nothing remains but the build it starts.      *)
LEMMA TakenStays ==
  ASSUME Inv, NEW b \in g.builds, b.gen = g.gen, NEW t, Taken(b, t)
  PROVE  b.key.path = g.repo /\ g.builds \ {b} \subseteq t.builds
<1> DEFINE d == Done(b)
<1>1. /\ IsPanel(d) /\ d.repo = g.repo /\ g.repo # None /\ CurrentOf(d) = {} /\ d.inFlight
      /\ d.key = g.key /\ g.key = b.key /\ b.key.path = g.repo /\ d.builds = g.builds \ {b}
      /\ b \in Build /\ b.key \in Keys /\ d.options = g.options /\ d.needsReload = g.needsReload
  BY CurrentIs, DoneIs DEF Inv, Latched
<1> HIDE DEF d
<1>2. CASE b.read > 0 /\ t = SetRows(d, [key |-> b.key, version |-> b.read])
  <2>1. [key |-> b.key, version |-> b.read] \in Rows
    BY <1>1 DEF Rows, Build
  <2>2. Edited(d) => d.needsReload
    BY <1>1 DEF Edited, Key, Inv, Latched
  <2> QED BY <1>1, <1>2, <2>1, <2>2, RowsSettle DEF Settled
<1>3. CASE t \in {SetError(d), AbortLoad(d)}
  <2>1. Failed(d, t)
    BY <1>1, <1>3, ErrorFails, AbortFails
  <2> QED BY <1>1, <2>1 DEF Failed
<1> QED BY <1>2, <1>3 DEF Taken, d

(* The report of a build for another repository changes neither the rows   *)
(* nor the error of the panel, because only the build of the current       *)
(* generation is taken and that one is for the repository of the panel.    *)
(* Without NeverEmpty this is false: GitGraph::new begins again at         *)
(* generation 0 while builds of before are still running.                  *)
THEOREM StaleReportsNeverCount == NeverEmpty => (Spec => StaleReportsDropped)
<1> DEFINE Dropped ==
             \A b \in g.builds \ g'.builds :
               b.read > 0 /\ b.key.path # g.repo => g'.rows = g.rows /\ g'.error = g.error
<1>1. Inv /\ [Next]_vars => [Dropped]_vars
  <2> SUFFICES ASSUME Inv, Next, NEW b \in g.builds \ g'.builds,
                      b.read > 0, b.key.path # g.repo
               PROVE  g'.rows = g.rows /\ g'.error = g.error
    OBVIOUS
  <2>1. PICK c \in g.builds : BuildReads(c) \/ GraphLoaded(c) \/ BuildFails(c)
    BY BuildsStay DEF Builds
  <2>2. g \in Panel(g.used)
    BY Versions
  <2>3. CASE BuildReads(c)
    <3>1. c.read = 0 /\ g.builds \ {c} \subseteq g'.builds
      BY <2>2, <2>3 DEF BuildReads, Panel
    <3> QED BY <3>1
  <2>4. CASE ~BuildReads(c)
    <3>1. PICK t : /\ Report(c, t)
                   /\ c.gen = g.gen => Taken(c, t)
      BY <2>1, <2>4 DEF GraphLoaded, BuildFails, Taken
    <3>2. CASE c.gen = g.gen
      <4>1. g' = t /\ Taken(c, t)
        BY <3>1, <3>2 DEF Report, Turns, Becomes
      <4>2. c.key.path = g.repo /\ g.builds \ {c} \subseteq t.builds
        BY <3>2, <4>1, TakenStays
      <4> QED BY <4>1, <4>2
    <3>3. CASE c.gen # g.gen
      <4>1. g' = Done(c)
        BY <3>1, <3>3 DEF Report, Turns, Becomes, Done
      <4> QED BY <4>1, DoneIs
    <3> QED BY <3>2, <3>3
  <2> QED BY <2>3, <2>4
<1>2. StaleReportsDropped <=> [][Dropped]_vars
  BY DEF StaleReportsDropped
<1> HIDE DEF Dropped
<1> QED BY <1>1, <1>2, InvAlways, PTL DEF Spec

-----------------------------------------------------------------------------
(* Recursion: the order of the cache is filtered by a recursive function.   *)

(* A number with a property is the least one of some.                      *)
LEMMA LeastNumber ==
  ASSUME NEW T, T \subseteq Nat, T # {}
  PROVE  \E n \in T : \A m \in T : n <= m
<1>1. PICK n \in T : \A m \in T : ~ (<<m, n>> \in OpToRel(<, Nat))
  BY NatLessThanWellFounded, WFMin
<1>2. \A m \in T : ~(m < n)
  BY <1>1 DEF OpToRel
<1> QED BY <1>2

(* What holds of 0 and of a number if of the one before holds up to N.     *)
LEMMA Upward ==
  ASSUME NEW N \in Nat, NEW G, 0 \in G, \A n \in 1..N : n - 1 \in G => n \in G
  PROVE  \A n \in 0..N : n \in G
<1>1. PICK T : T = {n \in 0..N : n \notin G}
  OBVIOUS
<1>2. SUFFICES ASSUME T # {} PROVE FALSE
  BY <1>1
<1>3. T \subseteq Nat
  BY <1>1
<1>4. PICK n \in T : \A m \in T : n <= m
  BY <1>2, <1>3, LeastNumber
<1>5. n \in 0..N /\ n # 0
  BY <1>1
<1>6. n - 1 \in 0..N /\ n \in 1..N /\ ~(n <= n - 1)
  BY <1>5
<1>7. n - 1 \in G
  BY <1>1, <1>4, <1>6
<1> QED BY <1>1, <1>6, <1>7

(* Functions that go through the numbers up to N, one after the other.     *)
Recurs(f, N, base, op) == f = [n \in 0..N |-> IF n = 0 THEN base ELSE op[<<n, f[n - 1]>>]]

LEMMA RecursExist ==
  ASSUME NEW N, N \in Nat, NEW V, NEW base, base \in V, NEW op, op \in [(1..N) \X V -> V]
  PROVE  \E f \in [0..N -> V] : Recurs(f, N, base, op)
<1>1. PICK G : G = {m \in Nat : m <= N => \E f \in [0..m -> V] : Recurs(f, m, base, op)}
  OBVIOUS
<1>2. 0 \in G
  <2>1. PICK f : f = [n \in 0..0 |-> base]
    OBVIOUS
  <2>2. f \in [0..0 -> V] /\ Recurs(f, 0, base, op)
    BY <2>1 DEF Recurs
  <2> QED BY <1>1, <2>2
<1>3. ASSUME NEW m \in G PROVE m + 1 \in G
  <2>1. m \in Nat
    BY <1>1
  <2>2. SUFFICES ASSUME m + 1 <= N PROVE \E f \in [0..m + 1 -> V] : Recurs(f, m + 1, base, op)
    BY <1>1, <2>1
  <2>3. PICK f \in [0..m -> V] : Recurs(f, m, base, op)
    BY <1>1, <2>1, <2>2
  <2>4. PICK last : last = op[<<m + 1, f[m]>>]
    OBVIOUS
  <2>5. last \in V
    <3>1. f[m] \in V /\ m + 1 \in 1..N
      BY <2>1, <2>2
    <3> QED BY <2>4, <3>1
  <2>6. PICK h : h = [n \in 0..m + 1 |-> IF n = m + 1 THEN last ELSE f[n]]
    OBVIOUS
  <2>7. (\A n \in 0..m : h[n] = f[n]) /\ h[m + 1] = last
    BY <2>1, <2>6
  <2>8. ASSUME NEW n \in 0..m + 1
        PROVE  h[n] = IF n = 0 THEN base ELSE op[<<n, h[n - 1]>>]
    <3>1. CASE n = m + 1
      <4>1. h[n - 1] = f[m] /\ n # 0
        BY <2>1, <2>7, <3>1
      <4> QED BY <2>4, <2>7, <3>1, <4>1
    <3>2. CASE n \in 0..m
      <4>1. n # 0 => h[n - 1] = f[n - 1]
        BY <2>1, <2>7, <3>2
      <4>2. f[n] = IF n = 0 THEN base ELSE op[<<n, f[n - 1]>>]
        BY <2>3, <3>2 DEF Recurs
      <4> QED BY <2>7, <3>2, <4>1, <4>2
    <3> QED BY <2>1, <3>1, <3>2
  <2>9. Recurs(h, m + 1, base, op)
    BY <2>6, <2>8 DEF Recurs
  <2>10. \A n \in 0..m + 1 : h[n] \in V
    <3>1. \A n \in 0..m + 1 : n = m + 1 \/ n \in 0..m
      BY <2>1
    <3> QED BY <2>3, <2>5, <2>7, <3>1
  <2>11. h \in [0..m + 1 -> V]
    BY <2>6, <2>10
  <2> QED BY <2>9, <2>11
<1>4. N \in G
  <2>1. SUFFICES ASSUME Nat \ G # {} PROVE FALSE
    OBVIOUS
  <2>2. PICK n \in Nat \ G : \A m \in Nat \ G : n <= m
    BY <2>1, LeastNumber
  <2>3. n # 0 /\ n - 1 \in Nat
    BY <1>2, <2>2
  <2>4. n - 1 \in G
    BY <2>2, <2>3
  <2> QED BY <1>3, <2>2, <2>3, <2>4
<1> QED BY <1>1, <1>4

-----------------------------------------------------------------------------
(* Types.  They need no repository that stays: what the cache knows is in   *)
(* its order, once, and never more than its capacity.                      *)

Has(s, k) == \E i \in 1..Len(s) : s[i] = k
Once(s) == \A i, j \in 1..Len(s) : s[i] = s[j] => i = j

(* t is what the first n of s leave without S.                             *)
LeftOf(s, S, n, t) ==
  /\ t \in Seq(Keys) /\ Once(t) /\ Len(t) <= n
  /\ \A k \in Keys : Has(t, k) <=> k \notin S /\ \E i \in 1..n : s[i] = k
  /\ (\E i \in 1..n : s[i] \in S) => Len(t) < n

LEMMA LeftGrows ==
  ASSUME NEW s \in Seq(Keys), Once(s), NEW S, NEW n \in 1..Len(s), NEW t, LeftOf(s, S, n - 1, t)
  PROVE  LeftOf(s, S, n, IF s[n] \in S THEN t ELSE Append(t, s[n]))
<1>1. /\ t \in Seq(Keys) /\ Once(t) /\ Len(t) <= n - 1 /\ Len(t) \in Nat /\ n \in Nat
      /\ \A k \in Keys : Has(t, k) <=> k \notin S /\ \E i \in 1..(n - 1) : s[i] = k
      /\ (\E i \in 1..(n - 1) : s[i] \in S) => Len(t) < n - 1
  BY DEF LeftOf
<1>2. 1..n = 1..(n - 1) \cup {n}
  BY <1>1
<1>3. s[n] \in Keys
  OBVIOUS
<1>4. CASE s[n] \in S
  <2>1. \A k \in Keys : k \notin S => ((\E i \in 1..n : s[i] = k) <=> (\E i \in 1..(n - 1) : s[i] = k))
    BY <1>2, <1>4
  <2>2. Len(t) < n
    BY <1>1
  <2>3. \A k \in Keys : Has(t, k) <=> k \notin S /\ \E i \in 1..n : s[i] = k
    BY <1>1, <2>1
  <2> QED BY <1>1, <1>4, <2>2, <2>3 DEF LeftOf
<1>5. CASE s[n] \notin S
  <2>1. PICK u : u = Append(t, s[n])
    OBVIOUS
  <2>2. /\ u \in Seq(Keys) /\ Len(u) = Len(t) + 1 /\ u[Len(u)] = s[n]
        /\ \A i \in 1..Len(t) : u[i] = t[i]
    BY <1>1, <1>3, <2>1
  <2>3. ~Has(t, s[n])
    <3>1. \A i \in 1..(n - 1) : i \in 1..Len(s) /\ i # n
      BY <1>1
    <3>2. \A i \in 1..(n - 1) : s[i] # s[n]
      BY <3>1 DEF Once
    <3> QED BY <1>1, <1>3, <3>2
  <2>4. 1..Len(u) = 1..Len(t) \cup {Len(u)}
    BY <1>1, <2>2
  <2>5. \A k \in Keys : Has(u, k) <=> Has(t, k) \/ k = s[n]
    BY <2>2, <2>4 DEF Has
  <2>6. Once(u)
    <3>1. \A i \in 1..Len(t) : u[i] # s[n]
      BY <2>2, <2>3 DEF Has
    <3>2. \A i, j \in 1..Len(t) : u[i] = u[j] => i = j
      BY <1>1, <2>2 DEF Once
    <3> QED BY <2>2, <2>4, <3>1, <3>2 DEF Once
  <2>7. \A k \in Keys : Has(u, k) <=> k \notin S /\ \E i \in 1..n : s[i] = k
    BY <1>1, <1>2, <1>5, <2>5
  <2>8. Len(u) <= n
    BY <1>1, <2>2
  <2>9. (\E i \in 1..n : s[i] \in S) => Len(u) < n
    <3>1. SUFFICES ASSUME \E i \in 1..n : s[i] \in S PROVE Len(u) < n
      OBVIOUS
    <3>2. Len(t) < n - 1
      BY <1>1, <1>2, <1>5, <3>1
    <3> QED BY <1>1, <2>2, <3>2
  <2> QED BY <1>5, <2>1, <2>2, <2>6, <2>7, <2>8, <2>9 DEF LeftOf
<1> QED BY <1>4, <1>5

Keeps(f, s, S) ==
  f = [i \in 0..Len(s) |->
        IF i = 0 THEN <<>>
        ELSE IF s[i] \in S THEN f[i - 1] ELSE Append(f[i - 1], s[i])]

LEMMA WithoutIs ==
  ASSUME NEW s \in Seq(Keys), Once(s), NEW S
  PROVE  LeftOf(s, S, Len(s), Without(s, S))
<1>1. PICK N \in Nat : N = Len(s)
  OBVIOUS
<1>2. PICK V : V = Seq(Keys)
  OBVIOUS
<1>3. PICK op : op = [w \in (1..N) \X V |-> IF s[w[1]] \in S THEN w[2] ELSE Append(w[2], s[w[1]])]
  OBVIOUS
<1>4. op \in [(1..N) \X V -> V]
  <2>1. \A n \in 1..N : s[n] \in Keys
    BY <1>1
  <2>2. \A n \in 1..N, t \in V : Append(t, s[n]) \in V
    BY <1>2, <2>1
  <2> QED BY <1>3, <2>2
<1>5. <<>> \in V
  BY <1>2
<1>6. PICK f \in [0..N -> V] : Recurs(f, N, <<>>, op)
  BY <1>4, <1>5, RecursExist
<1>7. ASSUME NEW n \in 0..N
      PROVE  f[n] = IF n = 0 THEN <<>> ELSE IF s[n] \in S THEN f[n - 1] ELSE Append(f[n - 1], s[n])
  <2>1. f[n] = IF n = 0 THEN <<>> ELSE op[<<n, f[n - 1]>>]
    BY <1>6 DEF Recurs
  <2>2. CASE n # 0
    <3>1. n - 1 \in 0..N /\ n \in 1..N
      BY <2>2
    <3>2. f[n - 1] \in V
      BY <3>1
    <3>3. op[<<n, f[n - 1]>>] = IF s[n] \in S THEN f[n - 1] ELSE Append(f[n - 1], s[n])
      BY <1>3, <3>1, <3>2
    <3> QED BY <2>1, <2>2, <3>3
  <2> QED BY <2>1, <2>2
<1>8. Keeps(f, s, S)
  BY <1>1, <1>6, <1>7 DEF Keeps, Recurs
<1>9. PICK x : x = CHOOSE y : Keeps(y, s, S)
  OBVIOUS
<1>10. Keeps(x, s, S)
  BY <1>8, <1>9
<1>11. Without(s, S) = x[N]
  BY <1>1, <1>9 DEF Without, Keeps
<1>12. PICK G : G = {n \in 0..N : LeftOf(s, S, n, x[n])}
  OBVIOUS
<1>13. 0 \in G
  <2>1. x[0] = <<>>
    BY <1>1, <1>10 DEF Keeps
  <2>2. LeftOf(s, S, 0, <<>>)
    BY DEF LeftOf, Once, Has
  <2> QED BY <1>12, <2>1, <2>2
<1>14. ASSUME NEW n \in 1..N, n - 1 \in G PROVE n \in G
  <2>1. LeftOf(s, S, n - 1, x[n - 1]) /\ n \in 1..Len(s)
    BY <1>1, <1>12, <1>14
  <2>2. x[n] = IF s[n] \in S THEN x[n - 1] ELSE Append(x[n - 1], s[n])
    <3>1. n \in 0..Len(s) /\ n # 0
      BY <1>1, <1>14
    <3> QED BY <1>10, <3>1 DEF Keeps
  <2>3. LeftOf(s, S, n, x[n])
    BY <2>1, <2>2, LeftGrows
  <2> QED BY <1>12, <2>3
<1>15. \A n \in 0..N : n \in G
  <2>1. \A n \in 1..N : n - 1 \in G => n \in G
    BY <1>14
  <2> QED BY <1>13, <2>1, Upward
<1>16. N \in G
  BY <1>15
<1> QED BY <1>1, <1>11, <1>12, <1>16

(* The cache c has its keys in the order u.                                *)
Tidy(c, u) ==
  /\ c \in [Keys -> Rows \cup {None}] /\ u \in Seq(Keys) /\ Once(u) /\ Len(u) <= Capacity
  /\ \A k \in Keys : c[k] # None <=> Has(u, k)

Sound(h) == h \in Graph /\ Tidy(h.cache, h.used)

LEMMA TidyForgets ==
  ASSUME NEW c, NEW u, Tidy(c, u), NEW S, NEW d, d = [k \in Keys |-> IF k \in S THEN None ELSE c[k]]
  PROVE  Tidy(d, Without(u, S))
<1>1. u \in Seq(Keys) /\ Once(u) /\ Len(u) <= Capacity
  BY DEF Tidy
<1>2. LeftOf(u, S, Len(u), Without(u, S))
  BY <1>1, WithoutIs
<1>3. PICK t : t = Without(u, S)
  OBVIOUS
<1>4. /\ t \in Seq(Keys) /\ Once(t) /\ Len(t) <= Len(u)
      /\ \A k \in Keys : Has(t, k) <=> k \notin S /\ Has(u, k)
  BY <1>2, <1>3 DEF LeftOf, Has
<1>5. Len(t) <= Capacity
  BY <1>1, <1>4, CapacityAssumption
<1>6. \A k \in Keys : d[k] # None <=> Has(t, k)
  BY <1>4 DEF Tidy
<1>7. d \in [Keys -> Rows \cup {None}]
  BY DEF Tidy
<1> QED BY <1>3, <1>4, <1>5, <1>6, <1>7 DEF Tidy

(* There is room for a key that is there already, or where there is room.   *)
LEMMA TidyInserts ==
  ASSUME NEW c, NEW u, Tidy(c, u), NEW k \in Keys, NEW rows \in Rows,
         c[k] # None \/ Len(u) < Capacity, NEW d, d = [c EXCEPT ![k] = rows]
  PROVE  Tidy(d, Append(Without(u, {k}), k))
<1>1. u \in Seq(Keys) /\ Once(u) /\ Len(u) <= Capacity /\ Len(u) \in Nat
  BY DEF Tidy
<1>2. LeftOf(u, {k}, Len(u), Without(u, {k}))
  BY <1>1, WithoutIs
<1>3. PICK t : t = Without(u, {k})
  OBVIOUS
<1>4. /\ t \in Seq(Keys) /\ Once(t) /\ Len(t) <= Len(u) /\ Len(t) \in Nat
      /\ \A x \in Keys : Has(t, x) <=> x # k /\ Has(u, x)
      /\ Has(u, k) => Len(t) < Len(u)
  <2>1. /\ t \in Seq(Keys) /\ Once(t) /\ Len(t) <= Len(u)
        /\ \A x \in Keys : Has(t, x) <=> x \notin {k} /\ \E i \in 1..Len(u) : u[i] = x
        /\ (\E i \in 1..Len(u) : u[i] \in {k}) => Len(t) < Len(u)
    BY <1>2, <1>3 DEF LeftOf
  <2>2. \A x \in Keys : Has(u, x) <=> \E i \in 1..Len(u) : u[i] = x
    BY DEF Has
  <2>3. Has(u, k) => Len(t) < Len(u)
    BY <2>1 DEF Has
  <2> QED BY <2>1, <2>2, <2>3
<1>5. PICK v : v = Append(t, k)
  OBVIOUS
<1>6. v \in Seq(Keys) /\ Len(v) = Len(t) + 1 /\ v[Len(v)] = k /\ \A i \in 1..Len(t) : v[i] = t[i]
  BY <1>4, <1>5
<1>7. 1..Len(v) = 1..Len(t) \cup {Len(v)}
  BY <1>4, <1>6
<1>8. \A x \in Keys : Has(v, x) <=> Has(t, x) \/ x = k
  BY <1>6, <1>7 DEF Has
<1>9. Once(v)
  <2>1. \A i \in 1..Len(t) : v[i] # k
    BY <1>4, <1>6 DEF Has
  <2>2. \A i, j \in 1..Len(t) : v[i] = v[j] => i = j
    BY <1>4, <1>6 DEF Once
  <2> QED BY <1>6, <1>7, <2>1, <2>2 DEF Once
<1>10. Len(v) <= Capacity
  <2>1. c[k] # None => Has(u, k)
    BY DEF Tidy
  <2>2. Len(t) < Len(u) \/ Len(u) < Capacity
    BY <1>4, <2>1
  <2> QED BY <1>1, <1>4, <1>6, <2>2, CapacityAssumption
<1>11. \A x \in Keys : d[x] # None <=> Has(v, x)
  <2>1. rows # None
    BY PathsAssumption
  <2>2. \A x \in Keys : d[x] = IF x = k THEN rows ELSE c[x]
    BY DEF Tidy
  <2>3. \A x \in Keys : c[x] # None <=> Has(u, x)
    BY DEF Tidy
  <2> QED BY <1>4, <1>8, <2>1, <2>2, <2>3
<1>12. d \in [Keys -> Rows \cup {None}]
  BY DEF Tidy
<1> QED BY <1>3, <1>5, <1>6, <1>9, <1>10, <1>11, <1>12 DEF Tidy

LEMMA SoundForgets ==
  ASSUME NEW h, Sound(h), NEW S
  PROVE  Sound(Forget(h, S))
<1>1. PICK d : d = [k \in Keys |-> IF k \in S THEN None ELSE h.cache[k]]
  OBVIOUS
<1>2. PICK o : o = Without(h.used, S)
  OBVIOUS
<1>3. PICK t : t = [h EXCEPT !.cache = d, !.used = o]
  OBVIOUS
<1>4. h \in Graph /\ Tidy(h.cache, h.used)
  BY DEF Sound
<1>5. Tidy(d, o)
  BY <1>1, <1>2, <1>4, TidyForgets
<1>6. d \in [Keys -> Rows \cup {None}] /\ o \in Seq(Keys)
  BY <1>5 DEF Tidy
<1>7. t = Forget(h, S)
  BY <1>1, <1>2, <1>3, <1>4 DEF Forget, Graph
<1>8. t \in Graph /\ t.cache = d /\ t.used = o
  BY ONLY <1>3, <1>4, <1>6 DEF Graph
<1> QED BY <1>5, <1>7, <1>8 DEF Sound

LEMMA SoundInserts ==
  ASSUME NEW h, Sound(h), NEW k \in Keys, NEW rows \in Rows
  PROVE  Sound(Insert(h, k, rows))
<1> DEFINE full == h.cache[k] = None /\ Len(h.used) >= Capacity
<1>1. PICK w : w = IF full THEN Forget(h, {Head(h.used)}) ELSE h
  OBVIOUS
<1>2. Tidy(h.cache, h.used) /\ Len(h.used) \in Nat /\ Len(h.used) <= Capacity /\ Capacity \in Nat \ {0}
  BY CapacityAssumption DEF Sound, Tidy
<1>3. Sound(w) /\ (w.cache[k] # None \/ Len(w.used) < Capacity)
  <2>1. CASE full
    <3>1. w = Forget(h, {Head(h.used)})
      BY <1>1, <2>1
    <3>2. Sound(w)
      BY <3>1, SoundForgets
    <3>3. w.used = Without(h.used, {Head(h.used)})
      BY <3>1 DEF Forget, Sound, Graph
    <3>4. h.used \in Seq(Keys) /\ Once(h.used) /\ Len(h.used) > 0
      BY <1>2, <2>1 DEF Tidy
    <3>5. 1 \in 1..Len(h.used) /\ h.used[1] \in {Head(h.used)}
      BY <3>4
    <3>6. LeftOf(h.used, {Head(h.used)}, Len(h.used), w.used)
      BY <3>3, <3>4, WithoutIs
    <3>7. Len(w.used) < Len(h.used) /\ w.used \in Seq(Keys)
      BY <3>5, <3>6 DEF LeftOf
    <3>8. Len(w.used) < Capacity
      BY <1>2, <3>7
    <3> QED BY <3>2, <3>8
  <2>2. CASE ~full
    BY <1>1, <1>2, <2>2
  <2> QED BY <2>1, <2>2
<1>4. PICK d : d = [w.cache EXCEPT ![k] = rows]
  OBVIOUS
<1>5. PICK o : o = Append(Without(w.used, {k}), k)
  OBVIOUS
<1>6. PICK t : t = [w EXCEPT !.cache = d, !.used = o]
  OBVIOUS
<1>7. w \in Graph /\ Tidy(w.cache, w.used)
  BY <1>3 DEF Sound
<1>8. Tidy(d, o)
  BY <1>3, <1>4, <1>5, <1>7, TidyInserts
<1>9. d \in [Keys -> Rows \cup {None}] /\ o \in Seq(Keys)
  BY <1>8 DEF Tidy
<1>10. t = Insert(h, k, rows)
  BY <1>1, <1>4, <1>5, <1>6, <1>7 DEF Insert, Graph
<1>11. t \in Graph /\ t.cache = d /\ t.used = o
  BY ONLY <1>6, <1>7, <1>9 DEF Graph
<1> QED BY <1>8, <1>10, <1>11 DEF Sound

(* The methods of the panel keep it so.                                    *)
LEMMA SoundTurns ==
  ASSUME NEW h, Sound(h), NEW t, t \in Graph, t.cache = h.cache, t.used = h.used
  PROVE  Sound(t)
BY DEF Sound

LEMMA KeyIs ==
  ASSUME NEW h, h \in Graph, NEW p \in Paths
  PROVE  Key(h, p) \in Keys
BY DEF Graph, Key, Keys

LEMMA SoundSpawns ==
  ASSUME NEW h, Sound(h), NEW p \in Paths
  PROVE  Sound(Spawn(h, p))
<1>1. h \in Graph
  BY DEF Sound
<1>2. PICK k \in Keys : k = Key(h, p)
  BY <1>1, KeyIs
<1>3. PICK B : B = h.builds \cup {[gen |-> h.gen + 1, life |-> h.life, key |-> k, read |-> 0]}
  OBVIOUS
<1>4. B \in SUBSET Build /\ h.gen + 1 \in Nat
  BY <1>1, <1>3 DEF Graph, Build
<1>5. PICK t : t = [h EXCEPT !.inFlight = TRUE, !.key = k, !.gen = h.gen + 1, !.builds = B]
  OBVIOUS
<1>6. t = Spawn(h, p)
  BY <1>1, <1>2, <1>3, <1>5 DEF Spawn, Graph
<1>7. t \in Graph /\ t.cache = h.cache /\ t.used = h.used
  BY ONLY <1>1, <1>2, <1>4, <1>5 DEF Graph
<1> QED BY <1>6, <1>7, SoundTurns

LEMMA SoundForces ==
  ASSUME NEW h, Sound(h), NEW p \in Paths
  PROVE  Sound(ForceReload(h, p))
<1>1. h \in Graph
  BY DEF Sound
<1>2. CASE h.repo = p /\ h.inFlight
  <2>1. PICK t : t = [h EXCEPT !.needsReload = TRUE]
    OBVIOUS
  <2>2. t \in Graph /\ t.cache = h.cache /\ t.used = h.used
    BY ONLY <1>1, <2>1 DEF Graph
  <2>3. ForceReload(h, p) = t
    BY <1>2, <2>1 DEF ForceReload
  <2> QED BY <2>2, <2>3, SoundTurns
<1>3. CASE ~(h.repo = p /\ h.inFlight)
  <2>1. PICK t : t = [h EXCEPT !.repo = p, !.error = FALSE]
    OBVIOUS
  <2>2. t \in Graph /\ t.cache = h.cache /\ t.used = h.used
    BY ONLY <1>1, <2>1, p \in Paths DEF Graph
  <2>3. PICK u : u = [t EXCEPT !.loading = TRUE, !.rows = None]
    OBVIOUS
  <2>4. u \in Graph /\ u.cache = h.cache /\ u.used = h.used
    BY ONLY <2>2, <2>3 DEF Graph
  <2>5. PICK w : w = ResetView(u)
    OBVIOUS
  <2>6. w \in Graph /\ w.cache = h.cache /\ w.used = h.used
    BY ONLY <2>4, <2>5 DEF Graph, ResetView
  <2>7. Sound(t) /\ Sound(w)
    BY <2>2, <2>6, SoundTurns
  <2>8. ForceReload(h, p) = Spawn(IF h.repo = p THEN t ELSE w, p)
    BY <1>3, <2>1, <2>3, <2>5 DEF ForceReload
  <2>9. Sound(IF h.repo = p THEN t ELSE w)
    BY <2>7
  <2> QED BY <2>8, <2>9, SoundSpawns
<1> QED BY <1>2, <1>3

LEMMA SoundPending ==
  ASSUME NEW h, Sound(h)
  PROVE  Sound(ReloadPending(h))
<1>1. h \in Graph
  BY DEF Sound
<1>2. PICK t : t = [h EXCEPT !.needsReload = FALSE]
  OBVIOUS
<1>3. t \in Graph /\ t.cache = h.cache /\ t.used = h.used
  BY ONLY <1>1, <1>2 DEF Graph
<1>4. Sound(t)
  BY <1>3, SoundTurns
<1>5. CASE h.needsReload /\ h.repo # None
  <2>1. ReloadPending(h) = ForceReload(t, h.repo)
    BY <1>2, <1>5 DEF ReloadPending
  <2>2. h.repo \in Paths
    BY <1>1, <1>5 DEF Graph
  <2> QED BY <1>4, <2>1, <2>2, SoundForces
<1>6. CASE ~(h.needsReload /\ h.repo # None)
  BY <1>2, <1>4, <1>6 DEF ReloadPending
<1> QED BY <1>5, <1>6

LEMMA SoundRows ==
  ASSUME NEW h, Sound(h), NEW rows \in Rows
  PROVE  Sound(SetRows(h, rows))
<1>1. h \in Graph
  BY DEF Sound
<1>2. CASE h.key # None /\ h.key # Key(h, h.key.path)
  <2>1. PICK t : t = [h EXCEPT !.key = None, !.inFlight = FALSE, !.needsReload = FALSE]
    OBVIOUS
  <2>2. t \in Graph /\ t.cache = h.cache /\ t.used = h.used
    BY ONLY <1>1, <2>1 DEF Graph
  <2>3. SetRows(h, rows) = ForceReload(t, h.key.path)
    BY <1>2, <2>1 DEF SetRows
  <2>4. h.key.path \in Paths
    BY <1>1, <1>2 DEF Graph, Keys
  <2>5. Sound(t)
    BY <2>2, SoundTurns
  <2> QED BY <2>3, <2>4, <2>5, SoundForces
<1>3. CASE ~(h.key # None /\ h.key # Key(h, h.key.path))
  <2>1. PICK i : i = IF h.repo = None THEN h ELSE Insert(h, Key(h, h.repo), rows)
    OBVIOUS
  <2>2. Sound(i)
    <3>1. CASE h.repo = None
      BY <2>1, <3>1
    <3>2. CASE h.repo # None
      <4>1. h.repo \in Paths
        BY <1>1, <3>2 DEF Graph
      <4>2. Key(h, h.repo) \in Keys
        BY <1>1, <4>1, KeyIs
      <4> QED BY <2>1, <3>2, <4>2, SoundInserts
    <3> QED BY <3>1, <3>2
  <2>3. i \in Graph
    BY <2>2 DEF Sound
  <2>4. PICK t : t = [i EXCEPT !.key = None, !.rows = rows, !.loading = FALSE, !.inFlight = FALSE, !.aborts = 0]
    OBVIOUS
  <2>5. t \in Graph /\ t.cache = i.cache /\ t.used = i.used
    BY ONLY <2>3, <2>4, rows \in Rows DEF Graph
  <2>6. SetRows(h, rows) = ReloadPending(t)
    BY <1>3, <2>1, <2>4 DEF SetRows
  <2>7. Sound(t)
    BY <2>2, <2>5, SoundTurns
  <2> QED BY <2>6, <2>7, SoundPending
<1> QED BY <1>2, <1>3

LEMMA SoundLoads ==
  ASSUME NEW h, Sound(h), NEW p \in Paths
  PROVE  Sound(LoadRepo(h, p))
<1>1. h \in Graph
  BY DEF Sound
<1>2. PICK hit : hit = h.cache[Key(h, p)]
  OBVIOUS
<1>3. CASE hit = None \/ (h.repo = p /\ h.inFlight)
  <2>1. LoadRepo(h, p) = ForceReload(h, p)
    BY <1>2, <1>3 DEF LoadRepo
  <2> QED BY <2>1, SoundForces
<1>4. CASE ~(hit = None \/ (h.repo = p /\ h.inFlight))
  <2>1. PICK t : t = [h EXCEPT !.repo = p, !.error = FALSE, !.gen = h.gen + 1, !.key = None]
    OBVIOUS
  <2>2. h.gen + 1 \in Nat
    BY <1>1 DEF Graph
  <2>3. t \in Graph /\ t.cache = h.cache /\ t.used = h.used
    BY ONLY <1>1, <2>1, <2>2, p \in Paths DEF Graph
  <2>4. PICK w : w = ResetView(t)
    OBVIOUS
  <2>5. w \in Graph /\ w.cache = h.cache /\ w.used = h.used
    BY ONLY <2>3, <2>4 DEF Graph, ResetView
  <2>6. PICK v : v = IF h.repo = p THEN t ELSE w
    OBVIOUS
  <2>7. Sound(v)
    BY <2>3, <2>5, <2>6, SoundTurns
  <2>8. LoadRepo(h, p) = SetRows(v, hit)
    <3>1. t = [h EXCEPT !.repo = p, !.error = FALSE, !.gen = @ + 1, !.key = None]
      BY <1>1, <2>1 DEF Graph
    <3> QED BY <1>2, <1>4, <2>4, <2>6, <3>1 DEF LoadRepo
  <2>9. hit \in Rows
    <3>1. Key(h, p) \in Keys
      BY <1>1, KeyIs
    <3>2. hit \in Rows \cup {None}
      BY <1>1, <1>2, <3>1 DEF Graph
    <3> QED BY <1>4, <3>2
  <2> QED BY <2>7, <2>8, <2>9, SoundRows
<1> QED BY <1>3, <1>4

LEMMA SoundFails ==
  ASSUME NEW h, Sound(h)
  PROVE  Sound(SetError(h)) /\ Sound(AbortLoad(h))
<1>1. h \in Graph
  BY DEF Sound
<1>2. PICK t : t = [h EXCEPT !.error = TRUE, !.loading = FALSE, !.inFlight = FALSE, !.key = None]
  OBVIOUS
<1>3. t \in Graph /\ t.cache = h.cache /\ t.used = h.used
  BY ONLY <1>1, <1>2 DEF Graph
<1>4. PICK u : u = [h EXCEPT !.inFlight = FALSE, !.key = None, !.loading = FALSE, !.aborts = h.aborts + 1]
  OBVIOUS
<1>5. h.aborts + 1 \in Nat
  BY <1>1 DEF Graph
<1>6. u \in Graph /\ u.cache = h.cache /\ u.used = h.used
  BY ONLY <1>1, <1>4, <1>5 DEF Graph
<1>7. PICK w : w = [u EXCEPT !.needsReload = FALSE, !.error = TRUE]
  OBVIOUS
<1>8. w \in Graph /\ w.cache = h.cache /\ w.used = h.used
  BY ONLY <1>6, <1>7 DEF Graph
<1>9. Sound(t) /\ Sound(u) /\ Sound(w)
  BY <1>3, <1>6, <1>8, SoundTurns
<1>10. SetError(h) = ReloadPending(t)
  BY <1>2 DEF SetError
<1>11. AbortLoad(h) \in {h, w, ReloadPending(u)}
  <2>1. u = [h EXCEPT !.inFlight = FALSE, !.key = None, !.loading = FALSE, !.aborts = @ + 1]
    BY <1>1, <1>4 DEF Graph
  <2> QED BY <1>7, <2>1 DEF AbortLoad
<1> QED BY <1>9, <1>10, <1>11, SoundPending

LEMMA FreshIs ==
  ASSUME NEW h, h.options \in Options, h.life \in Nat, h.builds \in SUBSET Build
  PROVE  Sound(Fresh(h))
<1>1. PICK t : t = Fresh(h)
  OBVIOUS
<1>2. PICK c : c = [k \in Keys |-> None]
  OBVIOUS
<1>3. t.cache = c /\ t.used = <<>>
  BY <1>1, <1>2 DEF Fresh
<1>4. c \in [Keys -> Rows \cup {None}] /\ <<>> \in Seq(Keys)
  BY <1>2
<1>5. h.life + 1 \in Nat
  OBVIOUS
<1>6. t \in Graph
  BY <1>1, <1>2, <1>4, <1>5 DEF Fresh, Graph
<1>7. Tidy(c, <<>>)
  BY <1>2, <1>4, CapacityAssumption DEF Tidy, Once, Has
<1> QED BY <1>1, <1>3, <1>6, <1>7 DEF Sound

LEMMA SoundTrees ==
  ASSUME NEW h, Sound(h), NEW p \in Paths
  PROVE  Sound(RefreshTree(h, p))
<1>1. PICK t : t = Invalidate(h, p)
  OBVIOUS
<1>2. Sound(t)
  BY <1>1, SoundForgets DEF Invalidate
<1>3. PICK u : u = [t EXCEPT !.needsReload = TRUE]
  OBVIOUS
<1>4. u \in Graph /\ u.cache = t.cache /\ u.used = t.used
  <2>1. t \in Graph
    BY <1>2 DEF Sound
  <2> QED BY ONLY <1>3, <2>1 DEF Graph
<1>5. Sound(u)
  BY <1>2, <1>4, SoundTurns
<1>6. RefreshTree(h, p) \in {u, ForceReload(t, p)}
  BY <1>1, <1>3 DEF RefreshTree
<1> QED BY <1>2, <1>5, <1>6, SoundForces

LEMMA SoundSyncs ==
  ASSUME NEW h, Sound(h), NEW sel \in Repos \cup {None}, NEW act \in Trees \cup {None}
  PROVE  Sound(Synced(h, sel, act))
<1>1. CASE act # None
  BY <1>1, SoundTrees DEF Synced, Paths
<1>2. CASE act = None /\ sel # None
  BY <1>2, SoundLoads DEF Synced, Paths
<1>3. CASE act = None /\ sel = None
  <2>1. h.options \in Options /\ h.life \in Nat /\ h.builds \in SUBSET Build
    BY DEF Sound, Graph
  <2> QED BY <1>3, <2>1, FreshIs DEF Synced
<1> QED BY <1>1, <1>2, <1>3

Types ==
  /\ refs \in [Paths -> Nat] /\ known \in [Repos -> Nat]
  /\ listed \subseteq Repos /\ selected \in listed \cup {None}
  /\ active \in Trees \cup {None} /\ posted \in Paths \cup {None}
  /\ Sound(g) /\ dropped \subseteq Keys /\ asked \in Nat
  /\ changes \in Nat /\ commands \in Nat /\ failures \in Nat

(* The panel of the next state.                                            *)
PanelTyped == Sound(g') /\ dropped' \subseteq Keys /\ asked' \in Nat

LEMMA PanelTypes ==
  ASSUME Types, NEW t, Sound(t), Loads(t) \/ Turns(t)
  PROVE  PanelTyped
<1>1. Becomes(t) /\ asked' \in {asked, asked + 1} /\ asked \in Nat /\ dropped \subseteq Keys /\ Sound(g)
  BY DEF Loads, Turns, Types
<1>2. g' = t
  BY <1>1 DEF Becomes
<1>3. dropped' \subseteq Keys
  <2>1. PICK left : left = IF Pending(g) /\ GivenUp(g, t) THEN {Key(g, g.repo)} ELSE {}
    OBVIOUS
  <2>2. left \subseteq Keys
    <3>1. CASE Pending(g)
      <4>1. g \in Graph
        BY <1>1 DEF Sound
      <4>2. g.repo \in Paths
        BY <3>1, <4>1 DEF Pending, Graph
      <4>3. Key(g, g.repo) \in Keys
        BY <4>1, <4>2, KeyIs
      <4> QED BY <2>1, <4>3
    <3>2. CASE ~Pending(g)
      BY <2>1, <3>2
    <3> QED BY <3>1, <3>2
  <2>3. dropped' = {k \in dropped \cup left : t.cache[k] # None /\ t.cache[k] = g.cache[k]} \cup
                   {k \in Keys : posted # None /\ t.cache[k] \notin {None, g.cache[k]}}
    BY <1>1, <2>1 DEF Becomes
  <2> QED BY <1>1, <2>2, <2>3
<1> QED BY <1>1, <1>2, <1>3 DEF PanelTyped

(* The list is where it was.                                               *)
LEMMA SameListTypes ==
  ASSUME Types, PanelTyped, UNCHANGED <<refs, listVars>>, active' \in Trees \cup {None}, posted' \in Paths \cup {None},
         changes' \in Nat, commands' \in Nat, failures' \in Nat
  PROVE  Types'
BY DEF Types, PanelTyped, listVars

LEMMA DiscoversTypes ==
  ASSUME Types, NEW rows, NEW sel, NEW versions \in [Repos -> Nat], NEW act \in Trees \cup {None}, NEW h, Sound(h),
         Discovers(rows, sel, versions, act, h)
  PROVE  /\ PanelTyped /\ changes' \in Nat /\ listed' \subseteq Repos /\ selected' \in listed' \cup {None}
         /\ known' \in [Repos -> Nat] /\ active' \in Trees \cup {None}
<1>1. changes' \in Nat
  BY DEF Discovers, Types
<1>2. PICK S \in SUBSET Repos :
         /\ listed' = S /\ selected' \in Reanchored(sel, S)
         /\ known' = [r \in Repos |-> IF r \in S \cap rows THEN versions[r] ELSE 0]
         /\ active' = IF act # None /\ Parent[act] \in rows \ S THEN None ELSE act
         /\ Loads(Synced(Forget(h, {k \in Keys : k.path \in rows \ S}), selected', active'))
  BY DEF Discovers
<1>3. selected' \in listed' \cup {None}
  BY <1>2 DEF Reanchored
<1>4. known' \in [Repos -> Nat]
  BY <1>2
<1>5. active' \in Trees \cup {None}
  BY <1>2
<1>6. selected' \in Repos \cup {None}
  BY <1>2, <1>3
<1>7. PICK u : u = Forget(h, {k \in Keys : k.path \in rows \ S})
  OBVIOUS
<1>8. Sound(u)
  BY <1>7, SoundForgets
<1>9. PICK t : t = Synced(u, selected', active')
  OBVIOUS
<1>10. Sound(t)
  BY <1>5, <1>6, <1>8, <1>9, SoundSyncs
<1>11. Loads(t)
  BY <1>2, <1>7, <1>9
<1>12. PanelTyped
  BY <1>10, <1>11, PanelTypes
<1> QED BY <1>1, <1>2, <1>3, <1>4, <1>5, <1>12

-----------------------------------------------------------------------------
(* The steps.                                                              *)

LEMMA TypedNow ==
  ASSUME Types
  PROVE  /\ refs \in [Paths -> Nat] /\ known \in [Repos -> Nat]
         /\ listed \subseteq Repos /\ selected \in listed \cup {None} /\ selected \in Repos \cup {None}
         /\ active \in Trees \cup {None} /\ posted \in Paths \cup {None}
         /\ Sound(g) /\ g \in Graph /\ dropped \subseteq Keys /\ asked \in Nat
         /\ changes \in Nat /\ commands \in Nat /\ failures \in Nat
         /\ commands + 1 \in Nat /\ changes + 1 \in Nat /\ failures + 1 \in Nat
BY DEF Types, Sound

(* g with a field replaced.                                                *)
LEMMA DetailIs ==
  ASSUME NEW h, Sound(h)
  PROVE  /\ Sound([h EXCEPT !.needsReload = TRUE])
         /\ Sound([h EXCEPT !.detail = TRUE]) /\ Sound([h EXCEPT !.detail = FALSE])
<1>1. h \in Graph
  BY DEF Sound
<1>2. PICK t : t = [h EXCEPT !.needsReload = TRUE]
  OBVIOUS
<1>3. t \in Graph /\ t.cache = h.cache /\ t.used = h.used
  BY ONLY <1>1, <1>2 DEF Graph
<1>4. PICK u : u = [h EXCEPT !.detail = TRUE]
  OBVIOUS
<1>5. u \in Graph /\ u.cache = h.cache /\ u.used = h.used
  BY ONLY <1>1, <1>4 DEF Graph
<1>6. PICK w : w = [h EXCEPT !.detail = FALSE]
  OBVIOUS
<1>7. w \in Graph /\ w.cache = h.cache /\ w.used = h.used
  BY ONLY <1>1, <1>6 DEF Graph
<1> QED BY <1>2, <1>3, <1>4, <1>5, <1>6, <1>7, SoundTurns

LEMMA StatusTyped ==
  ASSUME Types, NEW r \in Repos, NEW v \in Nat, StatusUpdated(r, v)
  PROVE  Types'
<1>1. PICK t : t = Invalidate(g, r)
  OBVIOUS
<1>2. Sound(t)
  BY <1>1, TypedNow, SoundForgets DEF Invalidate
<1>3. PICK u : u = [t EXCEPT !.needsReload = TRUE]
  OBVIOUS
<1>4. PICK w : w = LoadRepo(t, r)
  OBVIOUS
<1>5. Sound(u) /\ Sound(w)
  BY <1>2, <1>3, <1>4, DetailIs, SoundLoads DEF Paths
<1>6. PICK x : x = IF ~(selected = r /\ active = None) THEN t ELSE IF t.detail THEN u ELSE w
  OBVIOUS
<1>7. Sound(x)
  BY <1>2, <1>5, <1>6
<1>8. Loads(x)
  BY <1>1, <1>3, <1>4, <1>6 DEF StatusUpdated
<1>9. PanelTyped
  BY <1>7, <1>8, PanelTypes
<1>10. /\ known' = [known EXCEPT ![r] = v]
       /\ UNCHANGED <<refs, listed, selected, active, posted, countVars>>
  BY DEF StatusUpdated
<1>11. known' \in [Repos -> Nat]
  BY <1>10, TypedNow
<1> QED BY <1>9, <1>10, <1>11, TypedNow DEF Types, PanelTyped, countVars

LEMMA PollTyped ==
  ASSUME Types, PollTree
  PROVE  Types'
<1>1. active \in Paths
  BY TypedNow DEF PollTree, Paths
<1>2. Sound(RefreshTree(g, active)) /\ Loads(RefreshTree(g, active))
  BY <1>1, TypedNow, SoundTrees DEF PollTree
<1>3. PanelTyped
  BY <1>2, PanelTypes
<1> QED BY <1>3, TypedNow, SameListTypes DEF PollTree, countVars

LEMMA DiscoverTyped ==
  ASSUME Types, DiscoverNewRepos
  PROVE  Types'
<1>1. /\ PanelTyped /\ changes' \in Nat /\ listed' \subseteq Repos /\ selected' \in listed' \cup {None}
      /\ known' \in [Repos -> Nat] /\ active' \in Trees \cup {None}
  BY TypedNow, DiscoversTypes DEF DiscoverNewRepos
<1> QED BY <1>1, TypedNow DEF DiscoverNewRepos, Types, PanelTyped

LEMMA RescanTyped ==
  ASSUME Types, Rescan
  PROVE  Types'
<1>1. PICK S \in SUBSET Repos : listed' = S /\ selected' \in Reanchored(selected, S)
  BY DEF Rescan
<1>2. selected' \in listed' \cup {None} /\ selected' \in Repos \cup {None} /\ listed' \subseteq Repos
  BY <1>1 DEF Reanchored
<1>3. PICK u : u = Forget(g, Keys)
  OBVIOUS
<1>4. Sound(u)
  BY <1>3, TypedNow, SoundForgets
<1>5. PICK t : t = Synced(u, selected', active)
  OBVIOUS
<1>6. Sound(t)
  BY <1>2, <1>4, <1>5, TypedNow, SoundSyncs
<1>7. Loads(t)
  BY <1>3, <1>5 DEF Rescan
<1>8. PanelTyped
  BY <1>6, <1>7, PanelTypes
<1>9. /\ known' = [r \in Repos |-> 0] /\ commands' = commands + 1
      /\ UNCHANGED <<refs, active, posted, changes, failures>>
  BY DEF Rescan
<1>10. known' \in [Repos -> Nat]
  BY <1>9
<1> QED BY <1>2, <1>8, <1>9, <1>10, TypedNow DEF Types, PanelTyped

LEMMA CommandTyped ==
  ASSUME Types, NEW t, Sound(t), Command(t)
  PROVE  Types'
<1>1. PanelTyped
  BY PanelTypes DEF Command
<1> QED BY <1>1, TypedNow, SameListTypes DEF Command

LEMMA CursorTyped ==
  ASSUME Types, NEW p \in Paths, Cursor(p)
  PROVE  Types'
<1>1. PanelTyped
  BY TypedNow, PanelTypes DEF Cursor
<1>2. selected' \in listed' \cup {None} /\ listed' = listed /\ known' = known /\ active' = active
  BY DEF Cursor
<1>3. posted' = p /\ commands' = commands + 1 /\ UNCHANGED <<refs, changes, failures>>
  BY DEF Cursor, Posts
<1> QED BY <1>1, <1>2, <1>3, TypedNow DEF Types, PanelTyped

LEMMA AddTyped ==
  ASSUME Types, NEW r \in Repos, AddRepo(r)
  PROVE  Types'
<1>1. posted' \in Paths \cup {None} /\ commands' \in Nat /\ refs' = refs /\ failures' = failures
  BY TypedNow DEF AddRepo, Posts, Paths
<1>2. PICK rows : rows = listed \cup {r}
  OBVIOUS
<1>3. PICK sel : sel = IF selected = None THEN r ELSE selected
  OBVIOUS
<1>4. /\ PanelTyped /\ changes' \in Nat /\ listed' \subseteq Repos /\ selected' \in listed' \cup {None}
      /\ known' \in [Repos -> Nat] /\ active' \in Trees \cup {None}
  <2>1. CASE listed' = rows /\ selected' = sel /\ Turns(g) /\ UNCHANGED <<known, active, changes>>
    <3>1. PanelTyped
      BY <2>1, TypedNow, PanelTypes
    <3>2. sel \in rows
      BY <1>2, <1>3, TypedNow
    <3> QED BY <1>2, <2>1, <3>1, <3>2, TypedNow
  <2>2. CASE Discovers(rows, sel, known, active, g)
    BY <2>2, TypedNow, DiscoversTypes
  <2> QED BY <1>2, <1>3, <2>1, <2>2 DEF AddRepo
<1> QED BY <1>1, <1>4, TypedNow DEF Types, PanelTyped

LEMMA RemoveTyped ==
  ASSUME Types, NEW r \in Repos, RemoveRepo(r)
  PROVE  Types'
<1>1. PICK rest : rest = listed \ {r}
  OBVIOUS
<1>2. PICK ver : ver = [known EXCEPT ![r] = 0]
  OBVIOUS
<1>3. PICK t : t = Invalidate(g, r)
  OBVIOUS
<1>4. Sound(t) /\ ver \in [Repos -> Nat]
  BY <1>2, <1>3, TypedNow, SoundForgets DEF Invalidate
<1>5. PICK sel \in Repos \cup {None}, act \in {active, None} :
         /\ AfterRemoval(r, sel)
         /\ \/ /\ listed' = rest /\ selected' = sel /\ known' = ver /\ active' = act
               /\ Turns(t) /\ UNCHANGED changes
            \/ Discovers(rest, sel, ver, act, t)
  BY <1>1, <1>2, <1>3 DEF RemoveRepo
<1>6. act \in Trees \cup {None}
  BY TypedNow
<1>7. (sel = None \/ sel \in rest) /\ posted' \in Paths \cup {None} /\ commands' \in Nat /\ refs' = refs /\ failures' = failures
  <2>1. CASE rest = {}
    BY <1>1, <1>5, <2>1, TypedNow DEF AfterRemoval, Acts
  <2>2. CASE rest # {}
    BY <1>1, <1>5, <2>2, TypedNow DEF AfterRemoval, Posts, Paths
  <2> QED BY <2>1, <2>2
<1>8. /\ PanelTyped /\ changes' \in Nat /\ listed' \subseteq Repos /\ selected' \in listed' \cup {None}
      /\ known' \in [Repos -> Nat] /\ active' \in Trees \cup {None}
  <2>1. CASE /\ listed' = rest /\ selected' = sel /\ known' = ver /\ active' = act
             /\ Turns(t) /\ UNCHANGED changes
    <3>1. PanelTyped
      BY <1>4, <2>1, PanelTypes
    <3> QED BY <1>1, <1>4, <1>6, <1>7, <2>1, <3>1, TypedNow
  <2>2. CASE Discovers(rest, sel, ver, act, t)
    BY <1>4, <1>6, <2>2, DiscoversTypes
  <2> QED BY <1>5, <2>1, <2>2
<1> QED BY <1>7, <1>8, TypedNow DEF Types, PanelTyped

LEMMA SelectTyped ==
  ASSUME Types, SelectRepo \/ SelectTree
  PROVE  Types'
<1>1. CASE SelectRepo
  <2>1. posted \in Paths /\ posted' = None /\ active' = None
    BY <1>1, TypedNow DEF SelectRepo
  <2>2. Sound(LoadRepo(g, posted))
    BY <2>1, TypedNow, SoundLoads
  <2>3. PanelTyped
    BY <1>1, <2>2, TypedNow, PanelTypes DEF SelectRepo
  <2>4. selected' \in listed' \cup {None} /\ UNCHANGED <<refs, listed, known, changes, commands, failures>>
    BY <1>1, TypedNow DEF SelectRepo, countVars
  <2> QED BY <2>1, <2>3, <2>4, TypedNow DEF Types, PanelTyped
<1>2. CASE SelectTree
  <2>1. posted \in Trees /\ posted \in Paths /\ posted' = None
    BY <1>2, TypedNow DEF SelectTree
  <2>2. Sound(LoadRepo(g, posted))
    BY <2>1, TypedNow, SoundLoads
  <2>3. PanelTyped
    BY <1>2, <2>2, TypedNow, PanelTypes DEF SelectTree
  <2>4. active' \in Trees \cup {None} /\ UNCHANGED <<refs, listVars, changes, commands, failures>>
    BY <1>2, <2>1, TypedNow DEF SelectTree, countVars
  <2> QED BY <2>1, <2>3, <2>4, TypedNow, SameListTypes
<1> QED BY <1>1, <1>2

LEMMA OptionsTyped ==
  ASSUME Types, NEW o \in Options, SetOptions(o)
  PROVE  Types'
<1>1. PICK t : t = [g EXCEPT !.options = o]
  OBVIOUS
<1>2. t \in Graph /\ t.cache = g.cache /\ t.used = g.used
  <2>1. PICK h \in Graph : h = g
    BY TypedNow
  <2>2. t = [h EXCEPT !.options = o]
    BY <1>1, <2>1
  <2>3. t \in Graph /\ t.cache = h.cache /\ t.used = h.used
    BY ONLY <2>2, h \in Graph, o \in Options DEF Graph
  <2> QED BY <2>1, <2>3
<1>3. Sound(t)
  BY <1>2, TypedNow, SoundTurns
<1>4. CASE g.repo # None
  <2>1. g.repo \in Paths
    BY <1>4, TypedNow DEF Graph
  <2>2. Sound(LoadRepo(t, g.repo))
    BY <1>3, <2>1, SoundLoads
  <2>3. Command(LoadRepo(t, g.repo))
    BY <1>1, <1>4 DEF SetOptions
  <2> QED BY <2>2, <2>3, CommandTyped
<1>5. CASE g.repo = None
  <2>1. Command(t)
    BY <1>1, <1>5 DEF SetOptions
  <2> QED BY <1>3, <2>1, CommandTyped
<1> QED BY <1>4, <1>5

LEMMA SortTyped ==
  ASSUME Types, CycleSortOrder
  PROVE  Types'
<1>1. Sound(Synced(g, selected, active))
  BY TypedNow, SoundSyncs
<1> QED BY <1>1, CommandTyped DEF CycleSortOrder

LEMMA ShowTyped ==
  ASSUME Types, ShowGitGraph
  PROVE  Types'
<1>1. PICK t : t = IF active # None THEN RefreshTree(g, active)
                   ELSE IF selected # None THEN ForceReload(g, selected) ELSE g
  OBVIOUS
<1>2. Sound(t)
  <2>1. CASE active # None
    <3>1. active \in Paths
      BY <2>1, TypedNow DEF Paths
    <3> QED BY <1>1, <2>1, <3>1, TypedNow, SoundTrees
  <2>2. CASE active = None /\ selected # None
    <3>1. selected \in Paths
      BY <2>2, TypedNow DEF Paths
    <3> QED BY <1>1, <2>2, <3>1, TypedNow, SoundForces
  <2>3. CASE active = None /\ selected = None
    BY <1>1, <2>3, TypedNow
  <2> QED BY <2>1, <2>2, <2>3
<1>3. Command(t)
  BY <1>1 DEF ShowGitGraph
<1> QED BY <1>2, <1>3, CommandTyped

LEMMA TurnsTyped ==
  ASSUME Types, RemoveWorktree \/ OpenDetail \/ CloseDetail
  PROVE  Types'
<1>1. CASE RemoveWorktree
  <2>1. PanelTyped
    BY <1>1, TypedNow, PanelTypes DEF RemoveWorktree
  <2> QED BY <1>1, <2>1, TypedNow, SameListTypes DEF RemoveWorktree
<1>2. CASE OpenDetail
  <2>1. PICK t : t = [g EXCEPT !.detail = TRUE]
    OBVIOUS
  <2>2. Sound(t)
    BY <2>1, TypedNow, DetailIs
  <2>3. PanelTyped
    BY <1>2, <2>1, <2>2, PanelTypes DEF OpenDetail
  <2> QED BY <1>2, <2>3, TypedNow, SameListTypes DEF OpenDetail
<1>3. CASE CloseDetail
  <2>1. PICK t : t = [g EXCEPT !.detail = FALSE]
    OBVIOUS
  <2>2. Sound(ReloadPending(t))
    BY <2>1, TypedNow, DetailIs, SoundPending
  <2>3. PanelTyped
    BY <1>3, <2>1, <2>2, PanelTypes DEF CloseDetail
  <2> QED BY <1>3, <2>3, TypedNow, SameListTypes DEF CloseDetail, countVars
<1> QED BY <1>1, <1>2, <1>3

LEMMA BuildTyped ==
  ASSUME Types, NEW b \in g.builds, BuildReads(b) \/ GraphLoaded(b) \/ BuildFails(b)
  PROVE  Types'
<1>1. PICK h : h = g
  OBVIOUS
<1>2. h \in Graph /\ Sound(h) /\ b \in Build
  <2>1. h \in Graph /\ Sound(h)
    BY <1>1, TypedNow
  <2>2. h.builds \in SUBSET Build
    BY <2>1 DEF Graph
  <2> QED BY <1>1, <2>1, <2>2
<1>3. ASSUME NEW B, B \in SUBSET Build
      PROVE  Sound([h EXCEPT !.builds = B])
  <2>1. PICK t : t = [h EXCEPT !.builds = B]
    OBVIOUS
  <2>2. t \in Graph /\ t.cache = h.cache /\ t.used = h.used
    BY ONLY <1>2, <1>3, <2>1 DEF Graph
  <2> QED BY <1>2, <2>1, <2>2, SoundTurns
<1>4. h.builds \in SUBSET Build /\ b.key \in Keys /\ b.key.path \in Paths
  BY <1>2 DEF Graph, Build, Keys
<1>5. CASE BuildReads(b)
  <2>1. PICK n : n = [b EXCEPT !.read = refs[b.key.path]]
    OBVIOUS
  <2>2. n \in Build
    <3>1. refs[b.key.path] \in Nat
      BY <1>4, TypedNow
    <3> QED BY <1>2, <2>1, <3>1 DEF Build
  <2>3. PICK B : B = (h.builds \ {b}) \cup {n}
    OBVIOUS
  <2>4. B \in SUBSET Build
    BY <1>4, <2>2, <2>3
  <2>5. g' = [h EXCEPT !.builds = B]
    BY <1>1, <1>2, <1>5, <2>1, <2>3 DEF BuildReads, Graph
  <2>6. Sound(g')
    BY <1>3, <2>4, <2>5
  <2>7. PanelTyped
    BY <1>5, <2>6, TypedNow DEF BuildReads, PanelTyped
  <2> QED BY <1>5, <2>7, TypedNow, SameListTypes DEF BuildReads, countVars
<1>6. PICK d : d = Done(b)
  OBVIOUS
<1>7. Sound(d) /\ d = [g EXCEPT !.builds = @ \ {b}]
  <2>1. d = [h EXCEPT !.builds = h.builds \ {b}]
    BY <1>1, <1>2, <1>6 DEF Done, Graph
  <2>2. h.builds \ {b} \in SUBSET Build
    BY <1>4
  <2> QED BY <1>3, <1>6, <2>1, <2>2 DEF Done
<1>8. ASSUME NEW t, Sound(t), Report(b, t), failures' \in Nat
      PROVE  Types'
  <2>1. PICK x : x = IF b.gen = g.gen THEN t ELSE d
    OBVIOUS
  <2>2. Sound(x) /\ Turns(x)
    BY <1>7, <1>8, <2>1 DEF Report
  <2>3. PanelTyped
    BY <2>2, PanelTypes
  <2> QED BY <1>8, <2>3, TypedNow, SameListTypes DEF Report
<1>9. CASE GraphLoaded(b)
  <2>1. PICK rows : rows = [key |-> b.key, version |-> b.read]
    OBVIOUS
  <2>2. rows \in Rows
    BY <1>2, <1>4, <2>1 DEF Rows, Build
  <2>3. Sound(SetRows(d, rows))
    BY <1>7, <2>2, SoundRows
  <2>4. Report(b, SetRows(d, rows)) /\ failures' \in Nat
    BY <1>6, <1>9, <2>1, TypedNow DEF GraphLoaded
  <2> QED BY <1>8, <2>3, <2>4
<1>10. CASE BuildFails(b)
  <2>1. Sound(SetError(d)) /\ Sound(AbortLoad(d))
    BY <1>7, SoundFails
  <2>2. failures' \in Nat /\ (Report(b, SetError(d)) \/ Report(b, AbortLoad(d)))
    BY <1>6, <1>10, TypedNow DEF BuildFails
  <2> QED BY <1>8, <2>1, <2>2
<1> QED BY <1>5, <1>9, <1>10

LEMMA InitTyped ==
  ASSUME Init
  PROVE  Types
<1>1. PICK o \in Options : g = Synced(Fresh([options |-> o, life |-> 0, builds |-> {}]), selected, None)
  BY DEF Init
<1>2. PICK h : h = [options |-> o, life |-> 0, builds |-> {}]
  OBVIOUS
<1>3. h.options \in Options /\ h.life \in Nat /\ h.builds \in SUBSET Build
  BY <1>2
<1>4. PICK u : u = Fresh(h)
  OBVIOUS
<1>5. Sound(u)
  BY <1>3, <1>4, FreshIs
<1>6. listed \subseteq Repos /\ selected \in listed \cup {None} /\ selected \in Repos \cup {None}
  BY DEF Init
<1>7. Sound(Synced(u, selected, None))
  BY <1>5, <1>6, SoundSyncs
<1>8. Sound(g)
  BY <1>1, <1>2, <1>4, <1>7
<1> QED BY <1>6, <1>8 DEF Init, Types

LEMMA RefsTyped ==
  ASSUME Types, NEW p \in Paths, RefsMove(p)
  PROVE  Types'
<1>1. refs' \in [Paths -> Nat] /\ changes' \in Nat
  BY TypedNow DEF RefsMove
<1> QED BY <1>1 DEF RefsMove, Types, listVars

LEMMA UserTyped ==
  ASSUME Types, User
  PROVE  Types'
BY CursorTyped, AddTyped, RemoveTyped, OptionsTyped, TurnsTyped, SortTyped, RescanTyped, ShowTyped DEF User

LEMMA StepTyped ==
  ASSUME Types, [Next]_vars
  PROVE  Types'
<1>1. CASE \E p \in Paths : RefsMove(p)
  BY <1>1, RefsTyped
<1>2. CASE \E r \in Repos : \E v \in known[r]..refs[r] : StatusUpdated(r, v)
  <2>0. PICK r \in Repos : \E v \in known[r]..refs[r] : StatusUpdated(r, v)
    BY <1>2
  <2>1. PICK v \in known[r]..refs[r] : StatusUpdated(r, v)
    BY <2>0
  <2>2. known[r] \in Nat /\ refs[r] \in Nat
    BY TypedNow DEF Paths
  <2>3. v \in Nat
    BY <2>1, <2>2
  <2> QED BY <2>1, <2>3, StatusTyped
<1>3. CASE SelectRepo \/ SelectTree
  BY <1>3, SelectTyped
<1>4. CASE PollTree
  BY <1>4, PollTyped
<1>5. CASE DiscoverNewRepos
  BY <1>5, DiscoverTyped
<1>6. CASE User
  BY <1>6, UserTyped
<1>7. CASE Builds
  BY <1>7, BuildTyped DEF Builds
<1>8. CASE UNCHANGED vars
  BY <1>8 DEF Types, vars, listVars, countVars
<1> QED BY <1>1, <1>2, <1>3, <1>4, <1>5, <1>6, <1>7, <1>8 DEF Next

(* The variables have their types, and the cache of graphs (GraphCache)    *)
(* stays within its capacity: its order names every cached key, and no     *)
(* other.  This needs no repository that stays.                            *)
THEOREM TypeCorrect == Spec => []TypeOK
<1>1. Init => Types
  BY InitTyped
<1>2. Types /\ [Next]_vars => Types'
  BY StepTyped
<1>3. Types => TypeOK
  <2>1. SUFFICES ASSUME Types PROVE TypeOK
    OBVIOUS
  <2>2. Tidy(g.cache, g.used)
    BY <2>1 DEF Types, Sound
  <2>3. \A k \in Keys : (g.cache[k] # None) = (\E i \in DOMAIN g.used : g.used[i] = k)
    <3>1. DOMAIN g.used = 1..Len(g.used)
      BY <2>2 DEF Tidy
    <3> QED BY <2>2, <3>1 DEF Tidy, Has
  <2>4. Len(g.used) <= Capacity
    BY <2>2 DEF Tidy
  <2> QED BY <2>1, <2>3, <2>4, TypedNow DEF TypeOK
<1> QED BY <1>1, <1>2, <1>3, PTL DEF Spec
=============================================================================
