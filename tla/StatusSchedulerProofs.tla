---------------------- MODULE StatusSchedulerProofs -----------------------
(***************************************************************************)
(* Proofs about StatusScheduler, for any number of repositories, permits,  *)
(* changes and commands.                                                   *)
(***************************************************************************)
EXTENDS StatusScheduler, FiniteSetTheorems, SequenceTheorems, TLAPS

(* The channel as a set: what the invariants say of it.                    *)
Msgs(s) == {s[i] : i \in DOMAIN s}

LEMMA MsgsEmpty == Msgs(<<>>) = {}
BY DEF Msgs

LEMMA MsgsAppend ==
  ASSUME NEW S, NEW s \in Seq(S), NEW e \in S
  PROVE  Append(s, e) \in Seq(S) /\ Msgs(Append(s, e)) = Msgs(s) \cup {e}
<1>1. /\ Append(s, e) \in Seq(S) /\ Len(Append(s, e)) = Len(s) + 1
      /\ \A i \in 1..Len(s) : Append(s, e)[i] = s[i]
      /\ Append(s, e)[Len(s) + 1] = e
  BY AppendProperties
<1>2. /\ Len(s) \in Nat /\ DOMAIN s = 1..Len(s)
      /\ DOMAIN Append(s, e) = 1..(Len(s) + 1)
  BY <1>1, LenProperties
<1>3. ASSUME NEW x \in Msgs(Append(s, e)) PROVE x \in Msgs(s) \cup {e}
  BY <1>1, <1>2 DEF Msgs
<1>4. Msgs(s) \subseteq Msgs(Append(s, e))
  BY <1>1, <1>2 DEF Msgs
<1>5. e \in Msgs(Append(s, e))
  BY <1>1, <1>2 DEF Msgs
<1> QED BY <1>1, <1>3, <1>4, <1>5

LEMMA MsgsTail ==
  ASSUME NEW S, NEW s \in Seq(S), s # <<>>
  PROVE  /\ Head(s) \in S /\ Tail(s) \in Seq(S)
         /\ Msgs(s) = Msgs(Tail(s)) \cup {Head(s)}
<1>1. /\ Head(s) \in S /\ Tail(s) \in Seq(S) /\ Len(Tail(s)) = Len(s) - 1
      /\ \A i \in 1..Len(Tail(s)) : Tail(s)[i] = s[i + 1]
  BY HeadTailProperties
<1>2. /\ Len(s) \in Nat \ {0} /\ DOMAIN s = 1..Len(s)
      /\ DOMAIN Tail(s) = 1..(Len(s) - 1)
  BY <1>1, LenProperties, EmptySeq
<1>3. Head(s) = s[1]
  BY <1>2
<1>4. ASSUME NEW i \in DOMAIN s PROVE s[i] \in Msgs(Tail(s)) \cup {Head(s)}
  <2>1. CASE i = 1
    BY <2>1, <1>3
  <2>2. CASE i # 1
    <3>1. i - 1 \in DOMAIN Tail(s) /\ Tail(s)[i - 1] = s[i]
      BY <2>2, <1>1, <1>2
    <3> QED BY <3>1 DEF Msgs
  <2> QED BY <2>1, <2>2
<1>5. Head(s) \in Msgs(s)
  BY <1>2, <1>3 DEF Msgs
<1>6. Msgs(Tail(s)) \subseteq Msgs(s)
  BY <1>1, <1>2 DEF Msgs
<1> QED BY <1>1, <1>4, <1>5, <1>6 DEF Msgs

LEMMA MsgsConcat ==
  ASSUME NEW S, NEW s \in Seq(S), NEW t \in Seq(S)
  PROVE  s \o t \in Seq(S) /\ Msgs(s \o t) = Msgs(s) \cup Msgs(t)
<1>1. /\ s \o t \in Seq(S) /\ Len(s \o t) = Len(s) + Len(t)
      /\ \A i \in 1..(Len(s) + Len(t)) :
           (s \o t)[i] = IF i <= Len(s) THEN s[i] ELSE t[i - Len(s)]
  BY ConcatProperties
<1>2. /\ Len(s) \in Nat /\ DOMAIN s = 1..Len(s)
      /\ Len(t) \in Nat /\ DOMAIN t = 1..Len(t)
      /\ DOMAIN (s \o t) = 1..(Len(s) + Len(t))
  BY <1>1, LenProperties
<1>3. Msgs(s \o t) \subseteq Msgs(s) \cup Msgs(t)
  BY <1>1, <1>2 DEF Msgs
<1>4. Msgs(s) \subseteq Msgs(s \o t)
  BY <1>1, <1>2 DEF Msgs
<1>5. ASSUME NEW i \in DOMAIN t PROVE t[i] \in Msgs(s \o t)
  <2>1. Len(s) + i \in DOMAIN (s \o t) /\ (s \o t)[Len(s) + i] = t[i]
    BY <1>1, <1>2
  <2> QED BY <2>1 DEF Msgs
<1> QED BY <1>1, <1>3, <1>4, <1>5 DEF Msgs

-----------------------------------------------------------------------------
(* Type correctness.  That a fresh tag exists needs the tasks of a         *)
(* repository to be finitely many, so this is part of the induction.       *)

TypeInv == TypeOK /\ \A r \in Repos : IsFiniteSet(queries[r])

(* Every query that is spawned is well formed: with n tasks already there, *)
(* one of the n + 1 tags 0..n is free.                                     *)
LEMMA FreeTagExists ==
  ASSUME TypeInv, NEW r \in Repos
  PROVE  FreeTag(r) \in Nat
<1> DEFINE Q == queries[r]
<1> DEFINE n == Cardinality(Q)
<1>1. Q \subseteq Query /\ IsFiniteSet(Q) /\ n \in Nat
  BY FS_CardinalityType DEF TypeInv, TypeOK
<1>2. \E i \in 0..n : \A q \in Q : q.tag # i
  <2> SUFFICES ASSUME \A i \in 0..n : \E q \in Q : q.tag = i
               PROVE  FALSE
    OBVIOUS
  <2> DEFINE f == [i \in 0..n |-> CHOOSE q \in Q : q.tag = i]
  <2>1. f \in [0..n -> Q] /\ \A i \in 0..n : f[i].tag = i
    OBVIOUS
  <2>2. IsFiniteSet(0..n) /\ Cardinality(0..n) = n + 1
    BY <1>1, FS_Interval
  <2> HIDE DEF f
  <2>3. Cardinality(Q) < Cardinality(0..n)
    BY <1>1, <2>2
  <2> HIDE DEF Q, n
  <2>4. \E x, y \in 0..n : x # y /\ f[x] = f[y]
    BY <1>1, <2>1, <2>2, <2>3, FS_PigeonHole
  <2> QED BY <2>1, <2>4
<1>3. FreeTag(r) \in 0..n
  BY <1>2 DEF FreeTag
<1> QED BY <1>1, <1>3

LEMMA NewQueryType ==
  ASSUME TypeInv, NEW r \in Repos, NEW kind \in {"local", "fetch"}
  PROVE  NewQuery(r, kind) \in Query /\ NewQuery(r, kind).stage = "waiting"
BY FreeTagExists DEF NewQuery, Query

LEMMA StartedType ==
  ASSUME NEW q \in Query, NEW n \in Nat
  PROVE  [q EXCEPT !.stage = "running", !.read = n] \in Query
BY DEF Query

LEMMA SpawnedType ==
  ASSUME TypeInv, NEW S \in SUBSET Repos, NEW kind \in {"local", "fetch"}
  PROVE  /\ Spawned(S, kind) \in [Repos -> SUBSET Query]
         /\ \A r \in Repos : /\ IsFiniteSet(Spawned(S, kind)[r])
                             /\ queries[r] \subseteq Spawned(S, kind)[r]
         /\ \A r \in S : \E q \in Spawned(S, kind)[r] : q.stage = "waiting"
<1>1. ASSUME NEW r \in Repos
      PROVE  /\ Spawned(S, kind)[r] \in SUBSET Query /\ IsFiniteSet(Spawned(S, kind)[r])
             /\ queries[r] \subseteq Spawned(S, kind)[r]
             /\ r \in S => \E q \in Spawned(S, kind)[r] : q.stage = "waiting"
  <2>1. NewQuery(r, kind) \in Query /\ NewQuery(r, kind).stage = "waiting"
    BY NewQueryType
  <2>2. queries[r] \in SUBSET Query /\ IsFiniteSet(queries[r])
    BY DEF TypeInv, TypeOK
  <2>3. IsFiniteSet(queries[r] \cup {NewQuery(r, kind)})
    BY <2>2, FS_AddElement
  <2> QED BY <2>1, <2>2, <2>3 DEF Spawned
<1>2. Spawned(S, kind) \in [Repos -> SUBSET Query]
  BY <1>1 DEF Spawned
<1> QED BY <1>1, <1>2

(* What App::schedule_refresh does to the marks its caller hands it.       *)
ScheduleOutcome(r, p, d, s, c) ==
  /\ cooling' = c
  /\ p \subseteq pending' /\ pending' \subseteq p \cup ({r} \cap rows)
  /\ d \subseteq dirty' /\ dirty' \subseteq d \cup ({r} \cap p)
  /\ s \ {r} \subseteq scheduled' /\ scheduled' \subseteq s \cup {r}
  /\ queries' \in [Repos -> SUBSET Query]
  /\ \A x \in Repos : IsFiniteSet(queries'[x]) /\ queries[x] \subseteq queries'[x]
  /\ pending' = p \/ \E q \in queries'[r] : q.stage = "waiting"
  /\ timers' \in [Repos -> Nat] /\ \A x \in Repos : timers[x] <= timers'[x]
  /\ scheduled' \subseteq s \/ timers'[r] > 0
  /\ r \in rows => r \in pending' \cup scheduled'
  /\ r \in rows => \/ r \in dirty' \cup scheduled'
                   \/ \E q \in queries'[r] : q.stage = "waiting"

LEMMA ScheduleEffect ==
  ASSUME TypeInv, NEW r \in Repos, NEW p \in SUBSET Repos, NEW d \in SUBSET Repos,
         NEW s \in SUBSET Repos, NEW c \in SUBSET Repos,
         ScheduleRefresh(r, p, d, s, c)
  PROVE  ScheduleOutcome(r, p, d, s, c)
<1> USE DEF ScheduleRefresh, ScheduleOutcome
<1>0. /\ queries \in [Repos -> SUBSET Query] /\ timers \in [Repos -> Nat]
      /\ \A x \in Repos : IsFiniteSet(queries[x])
  BY DEF TypeInv, TypeOK
<1>1. CASE r \in p
  BY <1>0, <1>1
<1>2. CASE r \notin p /\ r \notin c
  <2>1. /\ Spawned({r} \cap rows, "local") \in [Repos -> SUBSET Query]
        /\ \A x \in Repos : /\ IsFiniteSet(Spawned({r} \cap rows, "local")[x])
                            /\ queries[x] \subseteq Spawned({r} \cap rows, "local")[x]
        /\ \A x \in {r} \cap rows :
             \E q \in Spawned({r} \cap rows, "local")[x] : q.stage = "waiting"
    BY SpawnedType
  <2>2. /\ queries' = Spawned({r} \cap rows, "local") /\ timers' = timers
        /\ cooling' = c /\ dirty' = d /\ scheduled' = s \ {r}
        /\ pending' = IF r \in rows THEN p \cup {r} ELSE p
    BY <1>2
  <2>3. \A x \in Repos : timers[x] <= timers'[x]
    BY <1>0, <2>2
  <2> HIDE DEF ScheduleRefresh
  <2>4. r \in rows => \E q \in queries'[r] : q.stage = "waiting"
    BY <2>1, <2>2
  <2>5. /\ queries' \in [Repos -> SUBSET Query]
        /\ \A x \in Repos : IsFiniteSet(queries'[x]) /\ queries[x] \subseteq queries'[x]
    BY <2>1, <2>2
  <2> QED BY <1>0, <2>2, <2>3, <2>4, <2>5
<1>3. CASE r \notin p /\ r \in c
  BY <1>0, <1>3
<1> QED BY <1>1, <1>2, <1>3

LEMMA ScheduleType ==
  ASSUME TypeInv, NEW r \in Repos, NEW p \in SUBSET Repos, NEW d \in SUBSET Repos,
         NEW s \in SUBSET Repos, NEW c \in SUBSET Repos,
         ScheduleRefresh(r, p, d, s, c)
  PROVE  /\ pending' \subseteq Repos /\ dirty' \subseteq Repos
         /\ scheduled' \subseteq Repos /\ cooling' \subseteq Repos
         /\ timers' \in [Repos -> Nat] /\ queries' \in [Repos -> SUBSET Query]
         /\ \A x \in Repos : IsFiniteSet(queries'[x])
<1>1. ScheduleOutcome(r, p, d, s, c)
  BY ScheduleEffect
<1> QED BY <1>1 DEF ScheduleOutcome, TypeInv, TypeOK

LEMMA ActionTypes ==
  ASSUME NEW r \in Repos
  PROVE  /\ \A op \in RepoOps : For(op, r) \in Action
         /\ \A n \in Nat : [op |-> "RepoStatusUpdated", id |-> r, status |-> n] \in Action
         /\ \A op \in BareOps : Bare(op) \in Action
BY DEF For, Bare, Action

LEMMA HeadType ==
  ASSUME TypeInv, actions # <<>>
  PROVE  /\ Head(actions) \in Action /\ Tail(actions) \in Seq(Action)
         /\ Msgs(actions) = Msgs(Tail(actions)) \cup {Head(actions)}
         /\ Head(actions).op \in RepoOps \cup {"RepoStatusUpdated"}
              => Head(actions).id \in Repos
         /\ Head(actions).op = "RepoStatusUpdated" => Head(actions).status \in Nat
<1>1. actions \in Seq(Action)
  BY DEF TypeInv, TypeOK
<1>2. /\ Head(actions) \in Action /\ Tail(actions) \in Seq(Action)
      /\ Msgs(actions) = Msgs(Tail(actions)) \cup {Head(actions)}
  BY <1>1, MsgsTail
<1>3. \A a \in Action : /\ a.op \in RepoOps \cup {"RepoStatusUpdated"} => a.id \in Repos
                        /\ a.op = "RepoStatusUpdated" => a.status \in Nat
  BY DEF Action, BareOps, RepoOps
<1> QED BY <1>2, <1>3

(* The actions a rescan queues for the rows it adds.                       *)
LEMMA OrderingType ==
  ASSUME TypeInv, NEW S \in SUBSET Repos, NEW f \in Orderings(S)
  PROVE  /\ [i \in DOMAIN f |-> For("RefreshRepo", f[i])] \in Seq(Action)
         /\ Msgs([i \in DOMAIN f |-> For("RefreshRepo", f[i])])
              = {For("RefreshRepo", x) : x \in S}
<1>1. IsFiniteSet(S)
  BY ReposAssumption, FS_Subset
<1>2. Cardinality(S) \in Nat
  BY <1>1, FS_CardinalityType
<1>3. /\ f \in [1..Cardinality(S) -> S] /\ DOMAIN f = 1..Cardinality(S)
      /\ \A x \in S : \E i \in DOMAIN f : f[i] = x
  BY DEF Orderings
<1>4. \A x \in S : For("RefreshRepo", x) \in Action
  BY ActionTypes DEF RepoOps
<1>5. [i \in DOMAIN f |-> For("RefreshRepo", f[i])] \in [1..Cardinality(S) -> Action]
  BY <1>3, <1>4
<1>6. [i \in DOMAIN f |-> For("RefreshRepo", f[i])] \in Seq(Action)
  BY <1>2, <1>5, SeqDef
<1>7. Msgs([i \in DOMAIN f |-> For("RefreshRepo", f[i])])
        = {For("RefreshRepo", x) : x \in S}
  BY <1>3 DEF Msgs
<1> QED BY <1>6, <1>7

LEMMA TypeInit == Init => TypeInv
<1> SUFFICES ASSUME Init PROVE TypeInv
  OBVIOUS
<1>1. <<Bare("PollLocal")>> \in Seq(Action)
  BY DEF Action, Bare, BareOps
<1>2. \A r \in Repos : IsFiniteSet(queries[r])
  BY FS_EmptySet DEF Init
<1> QED BY <1>1, <1>2 DEF Init, TypeInv, TypeOK, Powers

(* One step of the environment or of the event side of the loop.           *)
LEMMA TypeEvent ==
  ASSUME TypeInv,
         \/ Environment \/ Tick \/ DrainDone
         \/ \E r \in Repos : RepoChanged(r)
  PROVE  TypeInv'
<1> USE DEF TypeInv, TypeOK, diskVars, rowVars, bookVars, taskVars, histVars, countVars
<1>0. ASSUME NEW a \in Action PROVE Append(actions, a) \in Seq(Action)
  BY <1>0, MsgsAppend
<1>1. CASE \E r \in Repos : Edit(r)
  <2> PICK r \in Repos : Edit(r)
    BY <1>1
  <2>1. disk' \in [Repos -> Nat] /\ changes' \in Nat
    <3>1. disk' = [disk EXCEPT ![r] = disk[r] + 1] /\ changes' = changes + 1
      BY DEF Edit
    <3>2. disk \in [Repos -> Nat] /\ changes \in Nat
      OBVIOUS
    <3> HIDE DEF TypeInv, TypeOK
    <3> QED BY <3>1, <3>2
  <2>2. watch' \subseteq Repos
    <3>1. watch' = watch \/ watch' = watch \cup {r}
      BY DEF Edit
    <3>2. watch \subseteq Repos
      OBVIOUS
    <3> HIDE DEF TypeInv, TypeOK
    <3> QED BY <3>1, <3>2
  <2> QED BY <2>1, <2>2 DEF Edit
<1>2. CASE \E r \in Repos : CloneOrDelete(r)
  <2> PICK r \in Repos : CloneOrDelete(r)
    BY <1>2
  <2>1. disk' \in [Repos -> Nat] /\ changes' \in Nat
    <3>1. disk' = [disk EXCEPT ![r] = disk[r] + 1] /\ changes' = changes + 1
      BY DEF CloneOrDelete
    <3>2. disk \in [Repos -> Nat] /\ changes \in Nat
      OBVIOUS
    <3> HIDE DEF TypeInv, TypeOK
    <3> QED BY <3>1, <3>2
  <2>2. watch' \subseteq Repos /\ exists' \subseteq Repos
    <3>1. watch' = watch \/ watch' = watch \cup {r}
      BY DEF CloneOrDelete
    <3>2. exists' = exists \ {r} \/ exists' = exists \cup {r}
      BY DEF CloneOrDelete
    <3>3. watch \subseteq Repos /\ exists \subseteq Repos
      OBVIOUS
    <3> HIDE DEF TypeInv, TypeOK
    <3> QED BY <3>1, <3>2, <3>3
  <2> QED BY <2>1, <2>2 DEF CloneOrDelete
<1>3. CASE LocalTimer
  <2>1. Bare("PollLocal") \in Action
    BY DEF Action, Bare, BareOps
  <2> QED BY <1>0, <1>3, <2>1 DEF LocalTimer, Post
<1>4. CASE FetchTimer
  <2>1. Bare("PollFetch") \in Action
    BY DEF Action, Bare, BareOps
  <2> QED BY <1>0, <1>4, <2>1, BoundsAssumption DEF FetchTimer, Post
<1>5. CASE RootChanged
  <2>1. Bare("DiscoverNewRepos") \in Action
    BY DEF Action, Bare, BareOps
  <2> QED BY <1>0, <1>5, <2>1 DEF RootChanged, Post
<1>6. CASE UserCommand
  <2>1. \A op \in Commands \cap BareOps : Bare(op) \in Action
    BY DEF Action, Bare
  <2>2. \A op \in Commands \cap RepoOps, r \in rows \cup exists : For(op, r) \in Action
    BY DEF Action, For
  <2>3. actions' \in Seq(Action) /\ draining' = TRUE
    BY <1>0, <1>6, <2>1, <2>2 DEF UserCommand, Post
  <2> QED BY <1>6, <2>3 DEF UserCommand
<1>7. CASE \E to \in Powers : PowerChanged(to)
  BY <1>7 DEF PowerChanged
<1>8. CASE Tick
  BY <1>8 DEF Tick
<1>9. CASE DrainDone
  BY <1>9 DEF DrainDone
<1>10. CASE \E r \in Repos : RepoChanged(r)
  <2> PICK r \in Repos : RepoChanged(r)
    BY <1>10
  <2>1. For("RefreshRepo", r) \in Action
    BY DEF Action, For, RepoOps
  <2> QED BY <1>0, <2>1 DEF RepoChanged, Post
<1> QED BY <1>1, <1>2, <1>3, <1>4, <1>5, <1>6, <1>7, <1>8, <1>9, <1>10 DEF Environment

LEMMA TypeBackground ==
  ASSUME TypeInv, Background
  PROVE  TypeInv'
<1> USE DEF TypeInv, TypeOK, diskVars, rowVars, bookVars, taskVars, histVars, countVars
<1>0. ASSUME NEW a \in Action PROVE Append(actions, a) \in Seq(Action)
  BY <1>0, MsgsAppend
<1> PICK r \in Repos : \/ CooldownElapses(r) \/ TimerFires(r)
                       \/ QueryStarts(r) \/ QueryFinishes(r) \/ GitOpEnds(r)
  BY DEF Background
<1>1. CASE CooldownElapses(r)
  BY <1>1 DEF CooldownElapses
<1>2. CASE TimerFires(r)
  <2>1. For("RefreshRepoAfterCooldown", r) \in Action
    BY DEF Action, For, RepoOps
  <2>2. actions' \in Seq(Action)
    BY <1>0, <1>2, <2>1 DEF TimerFires
  <2>3. timers' \in [Repos -> Nat]
    BY <1>2 DEF TimerFires
  <2> QED BY <1>2, <2>2, <2>3 DEF TimerFires
<1>3. CASE QueryStarts(r)
  <2> PICK q \in queries[r] :
        /\ queries' = [queries EXCEPT ![r] = (@ \ {q}) \cup
             {[q EXCEPT !.stage = "running", !.read = IF r \in exists THEN disk[r] ELSE 0]}]
        /\ seen' = [seen EXCEPT ![r] = IF r \in rows /\ disk[r] > @ THEN disk[r] ELSE @]
        /\ missed' = missed \ {r}
        /\ UNCHANGED <<diskVars, watch, power, rowVars, bookVars, timers, ops, actions,
                       draining, forced, countVars>>
    BY <1>3 DEF QueryStarts
  <2> DEFINE started == [q EXCEPT !.stage = "running",
                                  !.read = IF r \in exists THEN disk[r] ELSE 0]
  <2>0. q \in Query /\ (IF r \in exists THEN disk[r] ELSE 0) \in Nat
    OBVIOUS
  <2>1. started \in Query
    BY <2>0, StartedType
  <2>2. IsFiniteSet((queries[r] \ {q}) \cup {started})
    BY FS_AddElement, FS_RemoveElement
  <2>3. queries' \in [Repos -> SUBSET Query] /\ \A x \in Repos : IsFiniteSet(queries'[x])
    BY <2>1, <2>2
  <2>4. seen' \in [Repos -> Nat] /\ missed' \subseteq Repos
    OBVIOUS
  <2>5. /\ UNCHANGED <<exists, hidden, disk, watch, power, rows, shown, gitOp, pending, dirty>>
        /\ UNCHANGED <<scheduled, cooling, timers, ops, actions, draining, forced>>
        /\ UNCHANGED <<changes, commands, failures>>
    OBVIOUS
  <2> HIDE DEF Query
  <2>6. TypeOK'
    BY <2>3, <2>4, <2>5
  <2> QED BY <2>3, <2>6
<1>4. CASE QueryFinishes(r)
  <2> PICK q \in queries[r] :
        /\ queries' = [queries EXCEPT ![r] = @ \ {q}]
        /\ QuerySucceeds(r, q) \/ QueryFails(r, q)
        /\ UNCHANGED <<diskVars, watch, power, rowVars, bookVars, timers, ops, draining,
                       histVars, changes, commands>>
    BY <1>4 DEF QueryFinishes
  <2>1. queries' \in [Repos -> SUBSET Query] /\ \A x \in Repos : IsFiniteSet(queries'[x])
    BY FS_RemoveElement
  <2>2. q.read \in Nat
    BY DEF Query
  <2>3. CASE QuerySucceeds(r, q)
    <3>1. [op |-> "RepoStatusUpdated", id |-> r, status |-> q.read] \in Action
      BY <2>2 DEF Action
    <3> QED BY <1>0, <2>1, <2>3, <3>1 DEF QuerySucceeds
  <2>4. CASE QueryFails(r, q)
    <3>1. For("StatusQueryDone", r) \in Action /\ Bare("DiscoverNewRepos") \in Action
      BY DEF Action, For, Bare, RepoOps, BareOps
    <3>2. /\ Append(actions, For("StatusQueryDone", r)) \in Seq(Action)
          /\ <<Bare("DiscoverNewRepos")>> \in Seq(Action) /\ <<>> \in Seq(Action)
      BY <1>0, <3>1
    <3>3. actions' \in Seq(Action)
      BY <2>4, <3>2, MsgsConcat DEF QueryFails
    <3>4. failures' \in Nat
      BY <2>4 DEF QueryFails
    <3> QED BY <2>1, <3>3, <3>4
  <2> QED BY <2>3, <2>4
<1>5. CASE GitOpEnds(r)
  <2>1. \A op \in {"GitOpComplete", "RefreshRepo"} : For(op, r) \in Action
    BY DEF Action, For, RepoOps
  <2>2. actions' \in Seq(Action)
    BY <1>0, <1>5, <2>1 DEF GitOpEnds
  <2>3. ops' \in [Repos -> Nat]
    BY <1>5 DEF GitOpEnds
  <2> QED BY <1>5, <2>2, <2>3 DEF GitOpEnds
<1> QED BY <1>1, <1>2, <1>3, <1>4, <1>5

LEMMA TypeResync ==
  ASSUME TypeInv, actions # <<>>, NEW h \in SUBSET Repos, Resync(h)
  PROVE  TypeInv'
<1> DEFINE found == exists \ h
<1> DEFINE added == found \ rows
<1>1. exists \subseteq Repos /\ found \subseteq Repos /\ added \subseteq Repos
  BY DEF TypeInv, TypeOK
<1>2. actions' \in Seq(Action)
  <2> PICK order \in Orderings(added) :
        actions' = Tail(actions) \o [i \in DOMAIN order |-> For("RefreshRepo", order[i])]
    BY DEF Resync
  <2> HIDE DEF added
  <2> QED BY <1>1, HeadType, OrderingType, MsgsConcat
<1>3. /\ hidden' = h /\ rows' = found
      /\ shown' \in [Repos -> Nat] /\ gitOp' \in [Repos -> BOOLEAN]
      /\ seen' \in [Repos -> Nat] /\ forced' \in [Repos -> Nat]
  <2>1. hidden' = h /\ rows' = found
    BY DEF Resync
  <2>2. shown' \in [Repos -> Nat] /\ seen' \in [Repos -> Nat]
    BY DEF Resync, TypeInv, TypeOK
  <2>3. forced' \in [Repos -> Nat]
    BY DEF Resync, TypeInv, TypeOK
  <2>4. gitOp' \in [Repos -> BOOLEAN]
    BY DEF Resync, TypeInv, TypeOK
  <2> QED BY <2>1, <2>2, <2>3, <2>4
<1>4. /\ pending' \subseteq pending /\ dirty' \subseteq dirty
      /\ scheduled' \subseteq scheduled /\ cooling' \subseteq cooling
      /\ UNCHANGED <<exists, disk, watch, power, timers, queries, ops, draining, missed>>
      /\ UNCHANGED <<changes, commands, failures>>
  BY DEF Resync, taskVars, countVars
<1> HIDE DEF found, added
<1> QED BY <1>1, <1>2, <1>3, <1>4 DEF TypeInv, TypeOK

LEMMA TypeCompleted ==
  ASSUME TypeInv, actions # <<>>, NEW r \in Repos, NEW f \in [Repos -> Nat],
         Completed(r, f)
  PROVE  TypeInv'
<1> USE DEF TypeInv, TypeOK
<1>1. actions' \in Seq(Action) /\ shown' = f /\ gitOp' \in [Repos -> BOOLEAN]
  BY HeadType DEF Completed
<1>2. /\ pending' \subseteq Repos /\ dirty' \subseteq Repos
      /\ scheduled' \subseteq Repos /\ cooling' \subseteq Repos
      /\ timers' \in [Repos -> Nat] /\ queries' \in [Repos -> SUBSET Query]
      /\ \A x \in Repos : IsFiniteSet(queries'[x])
  <2>1. CASE r \in dirty
    <3>1. ScheduleRefresh(r, pending \ {r}, dirty \ {r}, scheduled, cooling \cup {r})
      BY <2>1 DEF Completed
    <3>2. /\ pending \ {r} \in SUBSET Repos /\ dirty \ {r} \in SUBSET Repos
          /\ scheduled \in SUBSET Repos /\ cooling \cup {r} \in SUBSET Repos
      OBVIOUS
    <3> HIDE DEF TypeInv, TypeOK
    <3> QED BY <3>1, <3>2, ScheduleType
  <2>2. CASE r \notin dirty
    BY <2>2 DEF Completed
  <2> QED BY <2>1, <2>2
<1>3. /\ UNCHANGED <<exists, hidden, disk, watch, power, rows, ops, draining>>
      /\ UNCHANGED <<seen, missed, forced, changes, commands, failures>>
  BY DEF Completed, diskVars, histVars, countVars
<1> QED BY <1>1, <1>2, <1>3

LEMMA TypePoll ==
  ASSUME TypeInv, NEW op, NEW kind \in {"local", "fetch"}, Poll(op, kind)
  PROVE  TypeInv'
<1> DEFINE idle == {r \in rows : ~gitOp[r] /\ r \notin pending}
<1>1. idle \subseteq Repos
  BY DEF TypeInv, TypeOK
<1>2. queries' = Spawned(idle, kind) /\ pending' = pending \cup idle
  BY DEF Poll
<1> HIDE DEF idle
<1>3. /\ queries' \in [Repos -> SUBSET Query]
      /\ \A x \in Repos : IsFiniteSet(queries'[x])
  BY <1>1, <1>2, SpawnedType
<1>4. actions' \in Seq(Action)
  BY HeadType DEF Poll, Next1
<1>5. /\ UNCHANGED <<exists, hidden, disk, watch, power, rows, shown, gitOp, dirty>>
      /\ UNCHANGED <<scheduled, cooling, timers, ops, draining, seen, missed, forced>>
      /\ UNCHANGED <<changes, commands, failures>>
  BY DEF Poll, diskVars, rowVars, histVars, countVars
<1> QED BY <1>1, <1>2, <1>3, <1>4, <1>5 DEF TypeInv, TypeOK

LEMMA TypeHandle ==
  ASSUME TypeInv, HandleAction
  PROVE  TypeInv'
<1> USE DEF TypeInv, TypeOK, diskVars, rowVars, bookVars, taskVars, histVars, countVars
<1>0. actions # <<>>
  BY DEF HandleAction, RefreshRepo, RefreshRepoAfterCooldown, StatusQueryDone,
         RepoStatusUpdated, PollLocal, PollFetch, Poll, RefreshAll, GitPush, GitOpComplete,
         DiscoverNewRepos, AddRepo, RemoveRepo, RescanRepos, SaveFailed, Next1
<1>H. /\ Tail(actions) \in Seq(Action)
      /\ Head(actions).op \in RepoOps \cup {"RepoStatusUpdated"} => Head(actions).id \in Repos
      /\ Head(actions).op = "RepoStatusUpdated" => Head(actions).status \in Nat
  BY <1>0, HeadType
<1> DEFINE r == Head(actions).id
<1>1. CASE RefreshRepo
  <2>1. r \in Repos
    BY <1>1, <1>H DEF RefreshRepo, Next1, RepoOps
  <2>2. ScheduleRefresh(r, pending, dirty, scheduled, cooling)
    BY <1>1 DEF RefreshRepo
  <2> HIDE DEF r
  <2>3. /\ pending' \subseteq Repos /\ dirty' \subseteq Repos
        /\ scheduled' \subseteq Repos /\ cooling' \subseteq Repos
        /\ timers' \in [Repos -> Nat] /\ queries' \in [Repos -> SUBSET Query]
        /\ \A x \in Repos : IsFiniteSet(queries'[x])
    BY <2>1, <2>2, ScheduleType
  <2> QED BY <1>1, <1>H, <2>3 DEF RefreshRepo
<1>2. CASE RefreshRepoAfterCooldown
  <2>1. r \in Repos
    BY <1>2, <1>H DEF RefreshRepoAfterCooldown, Next1, RepoOps
  <2>2. CASE r \in scheduled
    <3>1. ScheduleRefresh(r, pending, dirty, scheduled \ {r}, cooling)
      BY <1>2, <2>2 DEF RefreshRepoAfterCooldown
    <3>2. scheduled \ {r} \in SUBSET Repos
      OBVIOUS
    <3> HIDE DEF r
    <3>3. /\ pending' \subseteq Repos /\ dirty' \subseteq Repos
          /\ scheduled' \subseteq Repos /\ cooling' \subseteq Repos
          /\ timers' \in [Repos -> Nat] /\ queries' \in [Repos -> SUBSET Query]
          /\ \A x \in Repos : IsFiniteSet(queries'[x])
      BY <2>1, <3>1, <3>2, ScheduleType
    <3> QED BY <1>2, <1>H, <3>3 DEF RefreshRepoAfterCooldown
  <2>3. CASE r \notin scheduled
    BY <1>2, <1>H, <2>3 DEF RefreshRepoAfterCooldown
  <2> QED BY <2>2, <2>3
<1>3. CASE StatusQueryDone
  <2>1. r \in Repos /\ Completed(r, shown)
    BY <1>3, <1>H DEF StatusQueryDone, Next1, RepoOps
  <2> HIDE DEF r
  <2> QED BY <1>0, <2>1, TypeCompleted
<1>4. CASE RepoStatusUpdated
  <2> DEFINE f == IF r \in rows THEN [shown EXCEPT ![r] = Head(actions).status] ELSE shown
  <2>1. r \in Repos /\ f \in [Repos -> Nat] /\ Completed(r, f)
    BY <1>4, <1>H DEF RepoStatusUpdated, Next1, RepoOps
  <2> HIDE DEF r, f
  <2> QED BY <1>0, <2>1, TypeCompleted
<1>5. CASE PollLocal
  BY <1>5, TypePoll DEF PollLocal
<1>6. CASE PollFetch
  BY <1>6, TypePoll DEF PollFetch
<1>7. CASE RefreshAll
  <2>1. queries' \in [Repos -> SUBSET Query] /\ \A x \in Repos : IsFiniteSet(queries'[x])
    BY <1>7, SpawnedType DEF RefreshAll
  <2>2. gitOp' \in [Repos -> BOOLEAN] /\ forced' \in [Repos -> Nat]
    BY <1>7 DEF RefreshAll
  <2> QED BY <1>7, <1>H, <2>1, <2>2 DEF RefreshAll
<1>8. CASE GitPush
  <2>1. gitOp' \in [Repos -> BOOLEAN]
    BY <1>8 DEF GitPush
  <2>2. ops' \in [Repos -> Nat]
    <3>1. r \in Repos
      BY <1>8, <1>H DEF GitPush, Next1, RepoOps
    <3>2. ops \in [Repos -> Nat]
      OBVIOUS
    <3>3. [ops EXCEPT ![r] = @ + 1] \in [Repos -> Nat]
      <4> HIDE DEF TypeInv, TypeOK, r
      <4> QED BY <3>1, <3>2
    <3>4. ops' \in {ops, [ops EXCEPT ![r] = @ + 1]}
      BY <1>8 DEF GitPush
    <3> QED BY <3>2, <3>3, <3>4
  <2> QED BY <1>8, <1>H, <2>1, <2>2 DEF GitPush
<1>9. CASE GitOpComplete
  <2>1. For("RefreshRepo", r) \in Action
    BY <1>9, <1>H, ActionTypes DEF GitOpComplete, Next1, RepoOps
  <2>2. actions' \in Seq(Action)
    BY <1>9, <1>H, <2>1, MsgsAppend DEF GitOpComplete
  <2> QED BY <1>9, <2>2 DEF GitOpComplete
<1>10. CASE DiscoverNewRepos
  BY <1>0, <1>10, TypeResync DEF DiscoverNewRepos
<1>11. CASE AddRepo
  BY <1>0, <1>11, TypeResync DEF AddRepo
<1>12. CASE RemoveRepo
  <2>1. (IF r \in rows THEN hidden \cup {r} ELSE hidden) \in SUBSET Repos
    OBVIOUS
  <2> QED BY <1>0, <1>12, <2>1, TypeResync DEF RemoveRepo
<1>13. CASE RescanRepos
  <2>1. Append(Tail(actions), Bare("PollLocal")) \in Seq(Action)
    <3>1. Bare("PollLocal") \in Action
      BY DEF Bare, Action, BareOps
    <3> QED BY <1>H, <3>1, MsgsAppend
  <2>2. /\ shown' \in [Repos -> Nat] /\ gitOp' \in [Repos -> BOOLEAN]
        /\ seen' \in [Repos -> Nat] /\ forced' \in [Repos -> Nat]
        /\ hidden' \subseteq Repos /\ rows' \subseteq Repos
    BY <1>13 DEF RescanRepos
  <2> QED BY <1>13, <2>1, <2>2 DEF RescanRepos
<1>14. CASE SaveFailed
  BY <1>14, <1>H DEF SaveFailed
<1> QED BY <1>1, <1>2, <1>3, <1>4, <1>5, <1>6, <1>7, <1>8, <1>9, <1>10, <1>11, <1>12,
           <1>13, <1>14 DEF HandleAction

LEMMA TypeNext == TypeInv /\ [Next]_vars => TypeInv'
<1> SUFFICES ASSUME TypeInv, [Next]_vars PROVE TypeInv'
  OBVIOUS
<1>1. CASE \/ Environment \/ Tick \/ DrainDone
           \/ \E r \in Repos : RepoChanged(r)
  BY <1>1, TypeEvent
<1>2. CASE HandleAction
  BY <1>2, TypeHandle
<1>3. CASE Background
  BY <1>3, TypeBackground
<1>4. CASE UNCHANGED vars
  BY <1>4 DEF TypeInv, TypeOK, vars, diskVars, rowVars, bookVars, taskVars, histVars,
              countVars
<1> QED BY <1>1, <1>2, <1>3, <1>4 DEF Next

(* The bookkeeping of the loop stays well typed: every mark, spinner,      *)
(* task, timer and queued action belongs to a repository that may exist,   *)
(* and no counter of sleeping tasks or running commands goes below zero.   *)
THEOREM TypeCorrect == Spec => []TypeOK
<1>1. TypeInv => TypeOK
  BY DEF TypeInv
<1> QED BY TypeInit, TypeNext, <1>1, PTL DEF Spec

-----------------------------------------------------------------------------
(* The channel loses nothing: a step appends to it, and a handler takes    *)
(* its head and nothing else.                                              *)

LEMMA QueuedMsgs ==
  /\ \A a : Queued(a) <=> a \in Msgs(actions)
  /\ \A a : Queued(a)' <=> a \in Msgs(actions')
BY DEF Queued, Msgs

IsResult(m, r) == m.op \in {"StatusQueryDone", "RepoStatusUpdated"} /\ m.id = r

LEMMA ResultMsgs ==
  /\ \A r : QueuedResult(r) <=> \E m \in Msgs(actions) : IsResult(m, r)
  /\ \A r : QueuedResult(r)' <=> \E m \in Msgs(actions') : IsResult(m, r)
BY DEF QueuedResult, Msgs, IsResult

LEMMA ResyncChannel ==
  ASSUME TypeInv, actions # <<>>, NEW h \in SUBSET Repos, Resync(h)
  PROVE  /\ Msgs(Tail(actions)) \subseteq Msgs(actions')
         /\ \A x \in (exists \ h) \ rows : For("RefreshRepo", x) \in Msgs(actions')
<1> DEFINE added == (exists \ h) \ rows
<1> PICK order \in Orderings(added) :
      actions' = Tail(actions) \o [i \in DOMAIN order |-> For("RefreshRepo", order[i])]
  BY DEF Resync
<1>1. added \in SUBSET Repos
  BY DEF TypeInv, TypeOK
<1> HIDE DEF added
<1>2. /\ [i \in DOMAIN order |-> For("RefreshRepo", order[i])] \in Seq(Action)
      /\ Msgs([i \in DOMAIN order |-> For("RefreshRepo", order[i])])
           = {For("RefreshRepo", x) : x \in added}
  BY <1>1, OrderingType
<1>3. Msgs(actions') = Msgs(Tail(actions)) \cup {For("RefreshRepo", x) : x \in added}
  <2>0. PICK queue, rest : queue = [i \in DOMAIN order |-> For("RefreshRepo", order[i])] /\ rest = Tail(actions)
    OBVIOUS
  <2>1. rest \in Seq(Action) /\ queue \in Seq(Action)
    BY <1>2, <2>0, HeadType
  <2>2. actions' = rest \o queue
    BY <2>0
  <2>3. Msgs(queue) = {For("RefreshRepo", x) : x \in added}
    BY <1>2, <2>0
  <2>4. Msgs(rest \o queue) = Msgs(rest) \cup Msgs(queue)
    BY ONLY <2>1, MsgsConcat
  <2> QED BY <2>0, <2>2, <2>3, <2>4
<1> QED BY <1>3 DEF added

LEMMA TailAppend ==
  ASSUME TypeInv, actions # <<>>, NEW a \in Action
  PROVE  Msgs(Append(Tail(actions), a)) = Msgs(Tail(actions)) \cup {a}
<1> DEFINE t == Tail(actions)
<1>1. t \in Seq(Action)
  BY HeadType
<1> HIDE DEF t
<1>2. Msgs(Append(t, a)) = Msgs(t) \cup {a}
  BY <1>1, MsgsAppend
<1> QED BY <1>2 DEF t

LEMMA HandlerChannel ==
  ASSUME TypeInv, HandleAction
  PROVE  /\ actions # <<>>
         /\ Msgs(actions) = Msgs(Tail(actions)) \cup {Head(actions)}
         /\ Msgs(Tail(actions)) \subseteq Msgs(actions')
<1>0. actions # <<>>
  BY DEF HandleAction, RefreshRepo, RefreshRepoAfterCooldown, StatusQueryDone,
         RepoStatusUpdated, PollLocal, PollFetch, Poll, RefreshAll, GitPush, GitOpComplete,
         DiscoverNewRepos, AddRepo, RemoveRepo, RescanRepos, SaveFailed, Next1
<1>1. /\ Tail(actions) \in Seq(Action)
      /\ Msgs(actions) = Msgs(Tail(actions)) \cup {Head(actions)}
      /\ Head(actions).op \in RepoOps \cup {"RepoStatusUpdated"} => Head(actions).id \in Repos
  BY <1>0, HeadType
<1>2. Msgs(Tail(actions)) \subseteq Msgs(actions')
  <2>1. CASE actions' = Tail(actions)
    BY <2>1
  <2>2. CASE GitOpComplete
    <3>1. For("RefreshRepo", Head(actions).id) \in Action
      BY <2>2, <1>1, ActionTypes DEF GitOpComplete, Next1, RepoOps
    <3>2. Msgs(Append(Tail(actions), For("RefreshRepo", Head(actions).id)))
            = Msgs(Tail(actions)) \cup {For("RefreshRepo", Head(actions).id)}
      BY <1>0, <3>1, TailAppend
    <3>3. actions' = Append(Tail(actions), For("RefreshRepo", Head(actions).id))
      BY <2>2 DEF GitOpComplete
    <3> QED BY <3>2, <3>3
  <2>3. CASE RescanRepos
    <3>1. Bare("PollLocal") \in Action
      BY DEF Bare, Action, BareOps
    <3>2. Msgs(Append(Tail(actions), Bare("PollLocal")))
            = Msgs(Tail(actions)) \cup {Bare("PollLocal")}
      BY <1>0, <3>1, TailAppend
    <3>3. actions' = Append(Tail(actions), Bare("PollLocal"))
      BY <2>3 DEF RescanRepos
    <3> QED BY <3>2, <3>3
  <2>4. CASE \E h \in SUBSET Repos : Resync(h)
    BY <1>0, <2>4, ResyncChannel
  <2>5. hidden \subseteq Repos /\ exists \subseteq Repos
    BY DEF TypeInv, TypeOK
  <2>6. CASE DiscoverNewRepos
    BY <2>4, <2>5, <2>6 DEF DiscoverNewRepos
  <2>7. CASE AddRepo
    <3>1. hidden \ {Head(actions).id} \in SUBSET Repos
      BY <2>5
    <3> QED BY <2>4, <2>5, <2>7, <3>1 DEF AddRepo
  <2>8. CASE RemoveRepo
    <3>1. Head(actions).id \in Repos
      BY <1>1, <2>8 DEF RemoveRepo, Next1, RepoOps
    <3>2. hidden \cup {Head(actions).id} \in SUBSET Repos
      BY <2>5, <3>1
    <3> QED BY <2>4, <2>5, <2>8, <3>2 DEF RemoveRepo
  <2>9. CASE \/ RefreshRepo \/ RefreshRepoAfterCooldown \/ StatusQueryDone
             \/ RepoStatusUpdated \/ PollLocal \/ PollFetch \/ RefreshAll \/ GitPush
             \/ SaveFailed
    <3>1. actions' = Tail(actions)
      BY <2>9 DEF RefreshRepo, RefreshRepoAfterCooldown, StatusQueryDone, RepoStatusUpdated,
                  Completed, PollLocal, PollFetch, Poll, RefreshAll, GitPush, SaveFailed
    <3> QED BY <2>1, <3>1
  <2> QED BY <2>2, <2>3, <2>6, <2>7, <2>8, <2>9 DEF HandleAction
<1> QED BY <1>0, <1>1, <1>2

LEMMA AppendChannel ==
  ASSUME TypeInv, NEW a \in Action
  PROVE  Msgs(Append(actions, a)) = Msgs(actions) \cup {a}
<1>1. actions \in Seq(Action)
  BY DEF TypeInv, TypeOK
<1> QED BY <1>1, MsgsAppend

Outside == \/ Environment \/ Tick \/ DrainDone \/ Background
           \/ \E r \in Repos : RepoChanged(r)

(* A query that ends leaves its completion in the channel.                 *)
LEMMA QueryFinishesChannel ==
  ASSUME TypeInv, NEW r \in Repos, QueryFinishes(r)
  PROVE  /\ Msgs(actions) \subseteq Msgs(actions')
         /\ \E m \in Msgs(actions') : IsResult(m, r)
<1> PICK q \in queries[r] : QuerySucceeds(r, q) \/ QueryFails(r, q)
  BY DEF QueryFinishes
<1>1. CASE QuerySucceeds(r, q)
  <2> DEFINE m == [op |-> "RepoStatusUpdated", id |-> r, status |-> q.read]
  <2>1. q \in Query
    BY DEF TypeInv, TypeOK
  <2>2. m \in Action /\ IsResult(m, r)
    BY <2>1, ActionTypes DEF IsResult, Query
  <2>3. actions' = Append(actions, m)
    BY <1>1 DEF QuerySucceeds
  <2> HIDE DEF m
  <2> QED BY <2>2, <2>3, AppendChannel
<1>2. CASE QueryFails(r, q)
  <2> DEFINE m == For("StatusQueryDone", r)
  <2> DEFINE gone == IF q.kind = "local" /\ r \notin exists
                     THEN <<Bare("DiscoverNewRepos")>> ELSE <<>>
  <2> DEFINE s == Append(actions, m)
  <2>1. m \in Action /\ IsResult(m, r)
    BY ActionTypes DEF IsResult, For, RepoOps
  <2>2. gone \in Seq(Action)
    <3>1. Bare("DiscoverNewRepos") \in Action
      BY DEF Bare, Action, BareOps
    <3> QED BY <3>1
  <2>3. actions' = s \o gone
    BY <1>2 DEF QueryFails
  <2>4. s \in Seq(Action)
    <3>1. actions \in Seq(Action)
      BY DEF TypeInv, TypeOK
    <3> HIDE DEF m
    <3> QED BY <2>1, <3>1, MsgsAppend
  <2>5. Msgs(s) = Msgs(actions) \cup {m}
    BY <2>1, AppendChannel
  <2> HIDE DEF m, gone, s
  <2>6. Msgs(s) \subseteq Msgs(s \o gone)
    BY <2>2, <2>4, MsgsConcat
  <2> QED BY <2>1, <2>3, <2>5, <2>6
<1> QED BY <1>1, <1>2

LEMMA OutsideChannel ==
  ASSUME TypeInv, Outside
  PROVE  /\ Msgs(actions) \subseteq Msgs(actions')
         /\ UNCHANGED <<rows, gitOp, pending, dirty, scheduled>>
<1> USE DEF rowVars, bookVars
<1>0. ASSUME NEW a \in Action, actions' = Append(actions, a)
      PROVE  Msgs(actions) \subseteq Msgs(actions')
  BY <1>0, AppendChannel
<1>1. CASE Environment
  <2>1. UNCHANGED <<rows, gitOp, pending, dirty, scheduled>>
    BY <1>1 DEF Environment, Edit, CloneOrDelete, LocalTimer, FetchTimer, RootChanged,
                UserCommand, PowerChanged
  <2>2. \/ actions' = actions
        \/ \E op \in BareOps : actions' = Append(actions, Bare(op))
        \/ \E op \in RepoOps, r \in Repos : actions' = Append(actions, For(op, r))
    BY <1>1 DEF Environment, Edit, CloneOrDelete, LocalTimer, FetchTimer, RootChanged,
                UserCommand, PowerChanged, Post, BareOps, TypeInv, TypeOK
  <2>3. /\ \A op \in BareOps : Bare(op) \in Action
        /\ \A op \in RepoOps, r \in Repos : For(op, r) \in Action
    BY DEF Bare, For, Action
  <2> QED BY <1>0, <2>1, <2>2, <2>3
<1>2. CASE Tick \/ DrainDone
  BY <1>2 DEF Tick, DrainDone
<1>3. CASE \E r \in Repos : RepoChanged(r)
  <2> PICK r \in Repos : RepoChanged(r)
    BY <1>3
  <2>1. For("RefreshRepo", r) \in Action
    BY ActionTypes DEF RepoOps
  <2>2. actions' \in {actions, Append(actions, For("RefreshRepo", r))}
    BY DEF RepoChanged, Post
  <2>3. UNCHANGED <<rows, gitOp, pending, dirty, scheduled>>
    BY DEF RepoChanged
  <2> QED BY <1>0, <2>1, <2>2, <2>3
<1>4. CASE Background
  <2> PICK r \in Repos : \/ CooldownElapses(r) \/ TimerFires(r)
                         \/ QueryStarts(r) \/ QueryFinishes(r) \/ GitOpEnds(r)
    BY <1>4 DEF Background
  <2>1. UNCHANGED <<rows, gitOp, pending, dirty, scheduled>>
    BY DEF CooldownElapses, TimerFires, QueryStarts, QueryFinishes, GitOpEnds
  <2>2. CASE CooldownElapses(r) \/ QueryStarts(r)
    <3>1. actions' = actions
      BY <2>2 DEF CooldownElapses, QueryStarts
    <3> QED BY <2>1, <3>1
  <2>3. CASE TimerFires(r) \/ GitOpEnds(r)
    <3>1. \A op \in RepoOps : For(op, r) \in Action
      BY ActionTypes
    <3>2. \E op \in RepoOps : actions' = Append(actions, For(op, r))
      BY <2>3 DEF TimerFires, GitOpEnds, RepoOps
    <3> QED BY <1>0, <2>1, <3>1, <3>2
  <2>4. CASE QueryFinishes(r)
    BY <2>1, <2>4, QueryFinishesChannel
  <2> QED BY <2>2, <2>3, <2>4
<1> QED BY <1>1, <1>2, <1>3, <1>4 DEF Outside

-----------------------------------------------------------------------------
(* What a handler does to the marks, in one statement: it starts no less   *)
(* than it finds, a mark it leaves or sets has its consumer.               *)

Waiting(x) == \E q \in queries[x] : q.stage = "waiting"

MarksKept ==
  /\ \A x \in Repos : queries[x] \subseteq queries'[x] /\ timers[x] <= timers'[x]
  /\ pending' \subseteq rows'
  /\ \A x \in pending' : Waiting(x)' \/ (x \in pending /\ ~IsResult(Head(actions), x))
  /\ dirty' \subseteq pending'
  /\ \A x \in scheduled' : \/ timers'[x] > 0
                           \/ /\ x \in scheduled
                              /\ Head(actions) # For("RefreshRepoAfterCooldown", x)

LEMMA CompletedMarks ==
  ASSUME TypeInv, pending \subseteq rows, dirty \subseteq pending, NEW f,
         NEW r \in Repos, IsResult(Head(actions), r), Completed(r, f)
  PROVE  MarksKept
<1>1. \A x : IsResult(Head(actions), x) <=> x = r
  BY DEF IsResult
<1>2. \A x : Head(actions) # For("RefreshRepoAfterCooldown", x)
  BY DEF IsResult, For
<1>3. rows' = rows
  BY DEF Completed
<1>4. queries \in [Repos -> SUBSET Query] /\ timers \in [Repos -> Nat]
  BY DEF TypeInv, TypeOK
<1>5. CASE r \in dirty
  <2>1. ScheduleRefresh(r, pending \ {r}, dirty \ {r}, scheduled, cooling \cup {r})
    BY <1>5 DEF Completed
  <2>2. /\ pending \ {r} \in SUBSET Repos /\ dirty \ {r} \in SUBSET Repos
        /\ scheduled \in SUBSET Repos /\ cooling \cup {r} \in SUBSET Repos
    BY DEF TypeInv, TypeOK
  <2>3. ScheduleOutcome(r, pending \ {r}, dirty \ {r}, scheduled, cooling \cup {r})
    BY <2>1, <2>2, ScheduleEffect
  <2> QED BY <1>1, <1>2, <1>3, <2>3 DEF ScheduleOutcome, MarksKept, Waiting
<1>6. CASE r \notin dirty
  <2>1. /\ pending' = pending \ {r} /\ dirty' = dirty /\ scheduled' = scheduled
        /\ timers' = timers /\ queries' = queries
    BY <1>6 DEF Completed
  <2>2. \A x \in Repos : timers[x] <= timers'[x]
    BY <1>4, <2>1
  <2> QED BY <1>1, <1>2, <1>3, <1>6, <2>1, <2>2 DEF MarksKept
<1> QED BY <1>5, <1>6

LEMMA ResyncMarks ==
  ASSUME TypeInv, pending \subseteq rows, dirty \subseteq pending,
         Head(actions).op \in {"DiscoverNewRepos", "AddRepo", "RemoveRepo"},
         NEW h, Resync(h)
  PROVE  MarksKept
<1>1. /\ rows' = exists \ h
      /\ pending' = pending \ (rows \ (exists \ h))
      /\ dirty' = dirty \ (rows \ (exists \ h))
      /\ scheduled' = scheduled \ (rows \ (exists \ h))
      /\ queries' = queries /\ timers' = timers
  BY DEF Resync, taskVars
<1>2. \A x : ~IsResult(Head(actions), x) /\ Head(actions) # For("RefreshRepoAfterCooldown", x)
  BY DEF IsResult, For
<1>3. \A x \in Repos : timers[x] <= timers'[x]
  BY <1>1 DEF TypeInv, TypeOK
<1> QED BY <1>1, <1>2, <1>3 DEF MarksKept

LEMMA PollMarks ==
  ASSUME TypeInv, pending \subseteq rows, dirty \subseteq pending,
         NEW S \in SUBSET rows, NEW kind \in {"local", "fetch"},
         Head(actions).op \in {"PollLocal", "PollFetch", "RefreshAll"},
         pending' = pending \cup S, queries' = Spawned(S, kind),
         UNCHANGED <<rows, dirty, scheduled, timers>>
  PROVE  MarksKept
<1>1. S \in SUBSET Repos
  BY DEF TypeInv, TypeOK
<1>2. /\ \A x \in Repos : queries[x] \subseteq queries'[x]
      /\ \A x \in S : \E q \in queries'[x] : q.stage = "waiting"
  BY <1>1, SpawnedType
<1>3. \A x : ~IsResult(Head(actions), x) /\ Head(actions) # For("RefreshRepoAfterCooldown", x)
  BY DEF IsResult, For
<1>4. \A x \in Repos : timers[x] <= timers'[x]
  BY DEF TypeInv, TypeOK
<1> QED BY <1>2, <1>3, <1>4 DEF MarksKept, Waiting

LEMMA HandlerMarks ==
  ASSUME TypeInv, pending \subseteq rows, dirty \subseteq pending, HandleAction
  PROVE  MarksKept
<1> USE DEF rowVars, bookVars, taskVars
<1> DEFINE r == Head(actions).id
<1>0. /\ queries \in [Repos -> SUBSET Query] /\ timers \in [Repos -> Nat]
      /\ \A x \in Repos : timers[x] <= timers[x]
      /\ pending \in SUBSET Repos /\ dirty \in SUBSET Repos /\ cooling \in SUBSET Repos
      /\ scheduled \in SUBSET Repos /\ hidden \subseteq Repos /\ exists \subseteq Repos
  BY DEF TypeInv, TypeOK
<1>H. Head(actions).op \in RepoOps \cup {"RepoStatusUpdated"} => r \in Repos
  BY HandlerChannel, HeadType
<1>1. CASE RefreshRepo
  <2>1. r \in Repos /\ ScheduleRefresh(r, pending, dirty, scheduled, cooling)
        /\ Head(actions).op = "RefreshRepo" /\ rows' = rows
    BY <1>1, <1>H DEF RefreshRepo, Next1, RepoOps
  <2> HIDE DEF r
  <2>2. ScheduleOutcome(r, pending, dirty, scheduled, cooling)
    BY <1>0, <2>1, ScheduleEffect
  <2>3. \A x : ~IsResult(Head(actions), x)
               /\ Head(actions) # For("RefreshRepoAfterCooldown", x)
    BY <2>1 DEF IsResult, For
  <2> QED BY <2>1, <2>2, <2>3 DEF ScheduleOutcome, MarksKept, Waiting
<1>2. CASE RefreshRepoAfterCooldown
  <2>1. r \in Repos /\ Head(actions).op = "RefreshRepoAfterCooldown" /\ rows' = rows
    BY <1>2, <1>H DEF RefreshRepoAfterCooldown, Next1, RepoOps
  <2>2. \A x : ~IsResult(Head(actions), x)
    BY <2>1 DEF IsResult
  <2>3. \A x : Head(actions) = For("RefreshRepoAfterCooldown", x) => x = r
    BY DEF For
  <2>4. CASE r \in scheduled
    <3>1. ScheduleRefresh(r, pending, dirty, scheduled \ {r}, cooling)
      BY <1>2, <2>4 DEF RefreshRepoAfterCooldown
    <3> HIDE DEF r
    <3>2. scheduled \ {r} \in SUBSET Repos
      BY <1>0
    <3>3. ScheduleOutcome(r, pending, dirty, scheduled \ {r}, cooling)
      BY <1>0, <2>1, <3>1, <3>2, ScheduleEffect
    <3> QED BY <2>1, <2>2, <2>3, <3>3 DEF ScheduleOutcome, MarksKept, Waiting
  <2>5. CASE r \notin scheduled
    <3>1. UNCHANGED <<pending, dirty, scheduled, timers, queries>>
      BY <1>2, <2>5 DEF RefreshRepoAfterCooldown
    <3> HIDE DEF r
    <3> QED BY <1>0, <2>1, <2>2, <2>3, <2>5, <3>1 DEF MarksKept
  <2> QED BY <2>4, <2>5
<1>3. CASE StatusQueryDone
  <2>1. r \in Repos /\ IsResult(Head(actions), r) /\ Completed(r, shown)
    BY <1>3, <1>H DEF StatusQueryDone, Next1, RepoOps, IsResult
  <2> HIDE DEF r
  <2> QED BY <2>1, CompletedMarks
<1>4. CASE RepoStatusUpdated
  <2>1. /\ r \in Repos /\ IsResult(Head(actions), r)
        /\ Completed(r, IF r \in rows THEN [shown EXCEPT ![r] = Head(actions).status]
                                      ELSE shown)
    BY <1>4, <1>H DEF RepoStatusUpdated, Next1, IsResult
  <2> HIDE DEF r
  <2> QED BY <2>1, CompletedMarks
<1>5. CASE PollLocal \/ PollFetch
  <2> DEFINE idle == {x \in rows : ~gitOp[x] /\ x \notin pending}
  <2>1. PICK kind \in {"local", "fetch"} :
          /\ Head(actions).op \in {"PollLocal", "PollFetch"}
          /\ pending' = pending \cup idle /\ queries' = Spawned(idle, kind)
          /\ UNCHANGED <<rows, dirty, scheduled, timers>>
    BY <1>5 DEF PollLocal, PollFetch, Poll, Next1
  <2> QED BY <2>1, PollMarks
<1>6. CASE RefreshAll
  <2>1. /\ Head(actions).op = "RefreshAll"
        /\ pending' = pending \cup rows /\ queries' = Spawned(rows, "fetch")
        /\ UNCHANGED <<rows, dirty, scheduled, timers>>
    BY <1>6 DEF RefreshAll, Next1
  <2> QED BY <2>1, PollMarks
<1>7. CASE GitPush \/ GitOpComplete \/ SaveFailed
  <2>1. Head(actions).op \in {"GitPush", "GitOpComplete", "AddRepo", "RemoveRepo", "RescanRepos"}
    BY <1>7 DEF GitPush, GitOpComplete, SaveFailed, Next1
  <2>2. UNCHANGED <<rows, pending, dirty, scheduled, timers, queries>>
    BY <1>7 DEF GitPush, GitOpComplete, SaveFailed
  <2>3. \A x : ~IsResult(Head(actions), x)
               /\ Head(actions) # For("RefreshRepoAfterCooldown", x)
    BY <2>1 DEF IsResult, For
  <2> QED BY <1>0, <2>2, <2>3 DEF MarksKept
<1>8. CASE DiscoverNewRepos \/ AddRepo \/ RemoveRepo
  BY <1>8, ResyncMarks DEF DiscoverNewRepos, AddRepo, RemoveRepo, Next1
<1>9. CASE RescanRepos
  <2>1. pending' = {} /\ dirty' = {} /\ scheduled' = {} /\ timers' = timers /\ queries' = queries
    BY <1>9 DEF RescanRepos
  <2> QED BY <1>0, <2>1 DEF MarksKept
<1> QED BY <1>1, <1>2, <1>3, <1>4, <1>5, <1>6, <1>7, <1>8, <1>9 DEF HandleAction

-----------------------------------------------------------------------------
(* The same for what stands behind a spinner and behind an unread change.  *)

Work(x) ==
  \/ ops[x] > 0
  \/ Queued(For("GitOpComplete", x)) \/ Queued(For("RefreshRepo", x))
  \/ x \in pending \/ x \in scheduled

LEMMA MessageSurvives ==
  ASSUME TypeInv, HandleAction, NEW a, Queued(a), a # Head(actions)
  PROVE  Queued(a)'
BY HandlerChannel, QueuedMsgs

(* A handler that takes nothing away keeps the work of every row.          *)
LEMMA WorkSurvives ==
  ASSUME TypeInv, HandleAction, NEW x \in Repos, Work(x),
         ops[x] <= ops'[x],
         x \in pending => x \in pending' \cup scheduled',
         x \in scheduled => x \in pending' \cup scheduled',
         \/ Head(actions).op \notin {"GitOpComplete", "RefreshRepo"}
         \/ Head(actions).id # x
  PROVE  Work(x)'
<1>1. ops[x] \in Nat /\ (ops[x] > 0 => ops'[x] > 0)
  <2>1. TypeInv'
    BY TypeHandle
  <2>2. ops \in [Repos -> Nat]
    BY DEF TypeInv, TypeOK
  <2>3. ops' \in [Repos -> Nat]
    BY <2>1 DEF TypeInv, TypeOK
  <2>4. ops[x] \in Nat /\ ops'[x] \in Nat
    BY <2>2, <2>3
  <2> QED BY <2>4
<1>2. Head(actions) \notin {For("GitOpComplete", x), For("RefreshRepo", x)}
  BY DEF For
<1>3. /\ Queued(For("GitOpComplete", x)) => Queued(For("GitOpComplete", x))'
      /\ Queued(For("RefreshRepo", x)) => Queued(For("RefreshRepo", x))'
  BY <1>2, MessageSurvives
<1> QED BY <1>1, <1>3 DEF Work

LEMMA SpinnerHandler ==
  ASSUME TypeInv, HandleAction, SpinnerHasWork
  PROVE  SpinnerHasWork'
<1> USE DEF rowVars, bookVars, taskVars
<1> DEFINE r == Head(actions).id
<1>0. /\ ops \in [Repos -> Nat] /\ gitOp \in [Repos -> BOOLEAN] /\ rows \subseteq Repos
      /\ \A x \in Repos : ops[x] <= ops[x]
      /\ pending \in SUBSET Repos /\ dirty \in SUBSET Repos /\ cooling \in SUBSET Repos
      /\ scheduled \in SUBSET Repos /\ rows' \subseteq Repos
  <2>1. TypeInv'
    BY TypeHandle
  <2> QED BY <2>1 DEF TypeInv, TypeOK
<1>H. Head(actions).op \in RepoOps \cup {"RepoStatusUpdated"} => r \in Repos
  BY HandlerChannel, HeadType
<1> SUFFICES ASSUME NEW x \in rows', gitOp'[x] PROVE Work(x)'
  BY DEF SpinnerHasWork, Work
<1>W. x \in rows /\ gitOp[x] => Work(x)
  BY DEF SpinnerHasWork, Work
<1>1. CASE RefreshRepo
  <2>1. /\ r \in Repos /\ ScheduleRefresh(r, pending, dirty, scheduled, cooling)
        /\ Head(actions).op = "RefreshRepo" /\ UNCHANGED <<rows, gitOp, ops>>
    BY <1>1, <1>H DEF RefreshRepo, Next1, RepoOps
  <2>2. ScheduleOutcome(r, pending, dirty, scheduled, cooling)
    BY <1>0, <2>1, ScheduleEffect
  <2>3. CASE x = r
    BY <2>1, <2>2, <2>3 DEF ScheduleOutcome, Work
  <2>4. CASE x # r
    BY <1>0, <1>W, <2>1, <2>2, <2>4, WorkSurvives DEF ScheduleOutcome
  <2> QED BY <2>3, <2>4
<1>2. CASE RefreshRepoAfterCooldown
  <2>1. r \in Repos /\ Head(actions).op = "RefreshRepoAfterCooldown"
        /\ UNCHANGED <<rows, gitOp, ops>>
    BY <1>2, <1>H DEF RefreshRepoAfterCooldown, Next1, RepoOps
  <2>2. CASE r \in scheduled
    <3>1. ScheduleRefresh(r, pending, dirty, scheduled \ {r}, cooling)
      BY <1>2, <2>2 DEF RefreshRepoAfterCooldown
    <3>2. scheduled \ {r} \in SUBSET Repos
      BY <1>0
    <3>3. ScheduleOutcome(r, pending, dirty, scheduled \ {r}, cooling)
      BY <1>0, <2>1, <3>1, <3>2, ScheduleEffect
    <3>4. CASE x = r
      BY <2>1, <3>3, <3>4 DEF ScheduleOutcome, Work
    <3>5. CASE x # r
      BY <1>0, <1>W, <2>1, <3>3, <3>5, WorkSurvives DEF ScheduleOutcome
    <3> QED BY <3>4, <3>5
  <2>3. CASE r \notin scheduled
    <3>1. UNCHANGED <<pending, scheduled>>
      BY <1>2, <2>3 DEF RefreshRepoAfterCooldown
    <3> QED BY <1>0, <1>W, <2>1, <3>1, WorkSurvives
  <2> QED BY <2>2, <2>3
<1>3. CASE StatusQueryDone \/ RepoStatusUpdated
  <2>1. PICK f : Completed(r, f)
    BY <1>3 DEF StatusQueryDone, RepoStatusUpdated
  <2>2. /\ r \in Repos /\ Head(actions).op \in {"StatusQueryDone", "RepoStatusUpdated"}
    BY <1>3, <1>H DEF StatusQueryDone, RepoStatusUpdated, Next1, RepoOps
  <2>3. /\ rows' = rows /\ ops' = ops
        /\ gitOp' = IF r \in rows THEN [gitOp EXCEPT ![r] = FALSE] ELSE gitOp
    BY <2>1 DEF Completed
  <2>4. x # r /\ gitOp[x]
    BY <1>0, <2>3
  <2>5. CASE r \in dirty
    <3>1. ScheduleRefresh(r, pending \ {r}, dirty \ {r}, scheduled, cooling \cup {r})
      BY <2>1, <2>5 DEF Completed
    <3>2. /\ pending \ {r} \in SUBSET Repos /\ dirty \ {r} \in SUBSET Repos
          /\ cooling \cup {r} \in SUBSET Repos
      BY <1>0, <2>2
    <3>3. ScheduleOutcome(r, pending \ {r}, dirty \ {r}, scheduled, cooling \cup {r})
      BY <1>0, <2>2, <3>1, <3>2, ScheduleEffect
    <3> QED BY <1>0, <1>W, <2>2, <2>3, <2>4, <3>3, WorkSurvives DEF ScheduleOutcome
  <2>6. CASE r \notin dirty
    <3>1. pending' = pending \ {r} /\ scheduled' = scheduled
      BY <2>1, <2>6 DEF Completed
    <3> QED BY <1>0, <1>W, <2>2, <2>3, <2>4, <3>1, WorkSurvives
  <2> QED BY <2>5, <2>6
<1>4. CASE PollLocal \/ PollFetch
  <2>1. /\ Head(actions).op \in {"PollLocal", "PollFetch"} /\ pending \subseteq pending'
        /\ UNCHANGED <<rows, gitOp, ops, scheduled>>
    BY <1>4 DEF PollLocal, PollFetch, Poll, Next1
  <2> QED BY <1>0, <1>W, <2>1, WorkSurvives
<1>5. CASE RefreshAll
  BY <1>5 DEF RefreshAll, Work
<1>6. CASE GitPush
  <2>1. r \in Repos /\ Head(actions).op = "GitPush" /\ UNCHANGED <<rows, pending, scheduled>>
    BY <1>6, <1>H DEF GitPush, Next1, RepoOps
  <2>2. CASE r \in rows /\ x = r
    <3>1. ops' = [ops EXCEPT ![r] = @ + 1]
      BY <1>6, <2>2 DEF GitPush
    <3>2. ops'[x] = ops[x] + 1 /\ ops[x] \in Nat
      BY <1>0, <2>1, <2>2, <3>1
    <3> QED BY <3>2 DEF Work
  <2>3. CASE ~(r \in rows /\ x = r)
    <3>1. ops' \in {ops, [ops EXCEPT ![r] = @ + 1]}
          /\ gitOp' \in {gitOp, [gitOp EXCEPT ![r] = TRUE]}
          /\ (r \notin rows => gitOp' = gitOp)
      BY <1>6 DEF GitPush
    <3>2. gitOp[x] /\ x \in rows
      BY <1>0, <2>1, <2>3, <3>1
    <3>3. ops[x] <= ops'[x]
      BY <1>0, <2>1, <3>1
    <3> QED BY <1>0, <1>W, <2>1, <3>2, <3>3, WorkSurvives
  <2> QED BY <2>2, <2>3
<1>7. CASE GitOpComplete
  <2>1. /\ Head(actions).op = "GitOpComplete" /\ r \in Repos
        /\ actions' = Append(Tail(actions), For("RefreshRepo", r))
        /\ UNCHANGED <<rows, gitOp, ops, pending, scheduled>>
    BY <1>7, <1>H DEF GitOpComplete, Next1, RepoOps
  <2>2. CASE x = r
    <3>1. For("RefreshRepo", r) \in Action
      BY <2>1, ActionTypes DEF RepoOps
    <3>2. For("RefreshRepo", x) \in Msgs(actions')
      BY <2>1, <2>2, <3>1, HandlerChannel, TailAppend
    <3>3. Queued(For("RefreshRepo", x))'
      BY <3>2, QueuedMsgs
    <3> QED BY <3>3 DEF Work
  <2>3. CASE x # r
    BY <1>0, <1>W, <2>1, <2>3, WorkSurvives
  <2> QED BY <2>2, <2>3
<1>8. CASE DiscoverNewRepos \/ AddRepo \/ RemoveRepo
  <2>1. PICK h : Resync(h)
    BY <1>8 DEF DiscoverNewRepos, AddRepo, RemoveRepo
  <2>2. Head(actions).op \in {"DiscoverNewRepos", "AddRepo", "RemoveRepo"}
    BY <1>8 DEF DiscoverNewRepos, AddRepo, RemoveRepo, Next1
  <2>3. /\ rows' = exists \ h /\ ops' = ops
        /\ pending' = pending \ (rows \ (exists \ h))
        /\ scheduled' = scheduled \ (rows \ (exists \ h))
    BY <2>1 DEF Resync
  <2>4. x \in rows /\ gitOp[x]
    BY <1>0, <2>1, <2>3 DEF Resync
  <2> QED BY <1>0, <1>W, <2>2, <2>3, <2>4, WorkSurvives
<1>9. CASE RescanRepos
  BY <1>0, <1>9 DEF RescanRepos
<1>10. CASE SaveFailed
  <2>1. Head(actions).op \in {"AddRepo", "RemoveRepo", "RescanRepos"}
        /\ UNCHANGED <<rows, gitOp, ops, pending, scheduled>>
    BY <1>10 DEF SaveFailed
  <2> QED BY <1>0, <1>W, <2>1, WorkSurvives
<1> QED BY <1>1, <1>2, <1>3, <1>4, <1>5, <1>6, <1>7, <1>8, <1>9, <1>10 DEF HandleAction

(* What stands behind a change that no query has read.                     *)
Covered(x) ==
  \/ x \in watch \cup dirty \cup scheduled \cup missed
  \/ Queued(For("RefreshRepo", x)) \/ Queued(For("GitOpComplete", x)) \/ ops[x] > 0
  \/ Waiting(x)
  \/ x \notin pending /\ Queued(Bare("PollLocal"))

(* A handler that takes nothing away keeps every change covered.           *)
LEMMA CoverSurvives ==
  ASSUME TypeInv, HandleAction, NEW x \in Repos, Covered(x),
         x \in dirty \cup scheduled => x \in dirty' \cup scheduled' \/ Waiting(x)',
         x \in pending' => x \in pending \/ Waiting(x)',
         ops[x] <= ops'[x], queries[x] \subseteq queries'[x],
         UNCHANGED <<watch, missed>>,
         Head(actions).op # "PollLocal",
         \/ Head(actions).op \notin {"GitOpComplete", "RefreshRepo"}
         \/ Head(actions).id # x
  PROVE  Covered(x)'
<1>1. ops[x] > 0 => ops'[x] > 0
  <2>1. TypeInv'
    BY TypeHandle
  <2>2. ops \in [Repos -> Nat]
    BY DEF TypeInv, TypeOK
  <2>3. ops' \in [Repos -> Nat]
    BY <2>1 DEF TypeInv, TypeOK
  <2>4. ops[x] \in Nat /\ ops'[x] \in Nat
    BY <2>2, <2>3
  <2> QED BY <2>4
<1>2. Head(actions) \notin {For("GitOpComplete", x), For("RefreshRepo", x), Bare("PollLocal")}
  BY DEF For, Bare
<1>3. /\ Queued(For("GitOpComplete", x)) => Queued(For("GitOpComplete", x))'
      /\ Queued(For("RefreshRepo", x)) => Queued(For("RefreshRepo", x))'
      /\ Queued(Bare("PollLocal")) => Queued(Bare("PollLocal"))'
  BY <1>2, MessageSurvives
<1>4. Waiting(x) => Waiting(x)'
  BY DEF Waiting
<1> QED BY <1>1, <1>3, <1>4 DEF Covered

LEMMA CoverHandler ==
  ASSUME TypeInv, HandleAction, SpinnerHasWork, NoChangeForgotten
  PROVE  NoChangeForgotten'
<1> USE DEF diskVars, rowVars, bookVars, taskVars, histVars
<1> DEFINE r == Head(actions).id
<1>0. /\ ops \in [Repos -> Nat] /\ rows \subseteq Repos /\ queries \in [Repos -> SUBSET Query]
      /\ \A x \in Repos : ops[x] <= ops[x]
      /\ pending \in SUBSET Repos /\ dirty \in SUBSET Repos /\ cooling \in SUBSET Repos
      /\ scheduled \in SUBSET Repos /\ rows' \subseteq Repos
      /\ disk \in [Repos -> Nat] /\ seen \in [Repos -> Nat]
  <2>1. TypeInv'
    BY TypeHandle
  <2> QED BY <2>1 DEF TypeInv, TypeOK
<1>H. Head(actions).op \in RepoOps \cup {"RepoStatusUpdated"} => r \in Repos
  BY HandlerChannel, HeadType
<1> SUFFICES ASSUME NEW x \in rows', seen'[x] < disk'[x] PROVE Covered(x)'
  BY DEF NoChangeForgotten, Covered, Waiting
<1>W. x \in rows /\ seen[x] < disk[x] => Covered(x)
  BY DEF NoChangeForgotten, Covered, Waiting
<1>1. CASE RefreshRepo
  <2>1. /\ r \in Repos /\ ScheduleRefresh(r, pending, dirty, scheduled, cooling)
        /\ Head(actions).op = "RefreshRepo" /\ UNCHANGED <<rows, disk, seen, watch, missed, ops>>
    BY <1>1, <1>H DEF RefreshRepo, Next1, RepoOps
  <2>2. ScheduleOutcome(r, pending, dirty, scheduled, cooling)
    BY <1>0, <2>1, ScheduleEffect
  <2>3. CASE x = r
    BY <2>1, <2>2, <2>3 DEF ScheduleOutcome, Covered, Waiting
  <2>4. CASE x # r
    BY <1>0, <1>W, <2>1, <2>2, <2>4, CoverSurvives DEF ScheduleOutcome
  <2> QED BY <2>3, <2>4
<1>2. CASE RefreshRepoAfterCooldown
  <2>1. r \in Repos /\ Head(actions).op = "RefreshRepoAfterCooldown"
        /\ UNCHANGED <<rows, disk, seen, watch, missed, ops>>
    BY <1>2, <1>H DEF RefreshRepoAfterCooldown, Next1, RepoOps
  <2>2. CASE r \in scheduled
    <3>1. ScheduleRefresh(r, pending, dirty, scheduled \ {r}, cooling)
      BY <1>2, <2>2 DEF RefreshRepoAfterCooldown
    <3>2. scheduled \ {r} \in SUBSET Repos
      BY <1>0
    <3>3. ScheduleOutcome(r, pending, dirty, scheduled \ {r}, cooling)
      BY <1>0, <2>1, <3>1, <3>2, ScheduleEffect
    <3>4. CASE x = r
      BY <2>1, <3>3, <3>4 DEF ScheduleOutcome, Covered, Waiting
    <3>5. CASE x # r
      BY <1>0, <1>W, <2>1, <3>3, <3>5, CoverSurvives DEF ScheduleOutcome
    <3> QED BY <3>4, <3>5
  <2>3. CASE r \notin scheduled
    <3>1. UNCHANGED <<pending, dirty, scheduled, queries>>
      BY <1>2, <2>3 DEF RefreshRepoAfterCooldown
    <3> QED BY <1>0, <1>W, <2>1, <3>1, CoverSurvives
  <2> QED BY <2>2, <2>3
<1>3. CASE StatusQueryDone \/ RepoStatusUpdated
  <2>1. PICK f : Completed(r, f)
    BY <1>3 DEF StatusQueryDone, RepoStatusUpdated
  <2>2. /\ r \in Repos /\ Head(actions).op \in {"StatusQueryDone", "RepoStatusUpdated"}
    BY <1>3, <1>H DEF StatusQueryDone, RepoStatusUpdated, Next1, RepoOps
  <2>3. UNCHANGED <<rows, disk, seen, watch, missed, ops>>
    BY <2>1 DEF Completed
  <2>5. CASE r \in dirty
    <3>1. ScheduleRefresh(r, pending \ {r}, dirty \ {r}, scheduled, cooling \cup {r})
      BY <2>1, <2>5 DEF Completed
    <3>2. /\ pending \ {r} \in SUBSET Repos /\ dirty \ {r} \in SUBSET Repos
          /\ cooling \cup {r} \in SUBSET Repos
      BY <1>0, <2>2
    <3>3. ScheduleOutcome(r, pending \ {r}, dirty \ {r}, scheduled, cooling \cup {r})
      BY <1>0, <2>2, <3>1, <3>2, ScheduleEffect
    <3>4. CASE x = r
      BY <2>3, <3>3, <3>4 DEF ScheduleOutcome, Covered, Waiting
    <3>5. CASE x # r
      BY <1>0, <1>W, <2>2, <2>3, <3>3, <3>5, CoverSurvives DEF ScheduleOutcome
    <3> QED BY <3>4, <3>5
  <2>6. CASE r \notin dirty
    <3>1. pending' = pending \ {r} /\ UNCHANGED <<dirty, scheduled, queries>>
      BY <2>1, <2>6 DEF Completed
    <3> QED BY <1>0, <1>W, <2>2, <2>3, <3>1, CoverSurvives
  <2> QED BY <2>5, <2>6
<1>4. CASE PollLocal \/ PollFetch
  <2> DEFINE idle == {y \in rows : ~gitOp[y] /\ y \notin pending}
  <2>1. PICK kind \in {"local", "fetch"} :
          /\ pending' = pending \cup idle /\ queries' = Spawned(idle, kind)
          /\ UNCHANGED <<rows, disk, seen, watch, missed, gitOp, ops, dirty, scheduled>>
    BY <1>4 DEF PollLocal, PollFetch, Poll
  <2>2. idle \in SUBSET Repos
    BY <1>0
  <2>3. Head(actions).op \in {"PollLocal", "PollFetch"}
    BY <1>4 DEF PollLocal, PollFetch, Poll, Next1
  <2>4. CASE x \in idle
    <3> HIDE DEF idle
    <3> QED BY <2>1, <2>2, <2>4, SpawnedType DEF Covered, Waiting
  <2>5. CASE x \notin idle
    <3>1. x \in pending' <=> x \in pending
      BY <2>1, <2>5
    <3>2. queries[x] \subseteq queries'[x]
      <4> HIDE DEF idle
      <4> QED BY <1>0, <2>1, <2>2, SpawnedType
    <3>3. /\ Covered(x) /\ (gitOp[x] => Work(x)) /\ (gitOp[x] \/ x \in pending)
      BY <1>W, <2>1, <2>5 DEF SpinnerHasWork, Work
    <3>4. \A a : Queued(a) /\ a.op \in {"RefreshRepo", "GitOpComplete"} => Queued(a)'
      BY <2>3, MessageSurvives
    <3>5. /\ Queued(For("RefreshRepo", x)) => Queued(For("RefreshRepo", x))'
          /\ Queued(For("GitOpComplete", x)) => Queued(For("GitOpComplete", x))'
      BY <3>4 DEF For
    <3>6. Waiting(x) => Waiting(x)'
      BY <3>2 DEF Waiting
    <3>7. x \in pending /\ Covered(x) => Covered(x)'
      BY <2>1, <3>1, <3>5, <3>6 DEF Covered
    <3>8. Work(x) /\ x \notin pending => Covered(x)'
      BY <2>1, <3>5 DEF Covered, Work
    <3> QED BY <3>3, <3>7, <3>8
  <2> QED BY <2>4, <2>5
<1>5. CASE RefreshAll
  <2>1. queries' = Spawned(rows, "fetch") /\ rows' = rows
    BY <1>5 DEF RefreshAll
  <2> QED BY <1>0, <2>1, SpawnedType DEF Covered, Waiting
<1>6. CASE GitPush
  <2>1. /\ r \in Repos /\ Head(actions).op = "GitPush"
        /\ UNCHANGED <<rows, disk, seen, watch, missed, pending, dirty, scheduled, queries>>
    BY <1>6, <1>H DEF GitPush, Next1, RepoOps
  <2>2. ops' \in {ops, [ops EXCEPT ![r] = @ + 1]}
    BY <1>6 DEF GitPush
  <2>3. ops[x] <= ops'[x]
    BY <1>0, <2>1, <2>2
  <2> QED BY <1>0, <1>W, <2>1, <2>3, CoverSurvives
<1>7. CASE GitOpComplete
  <2>1. /\ Head(actions).op = "GitOpComplete" /\ r \in Repos
        /\ actions' = Append(Tail(actions), For("RefreshRepo", r))
        /\ UNCHANGED <<rows, disk, seen, watch, missed, ops, pending, dirty, scheduled, queries>>
    BY <1>7, <1>H DEF GitOpComplete, Next1, RepoOps
  <2>2. CASE x = r
    <3>1. For("RefreshRepo", r) \in Action
      BY <2>1, ActionTypes DEF RepoOps
    <3>2. For("RefreshRepo", x) \in Msgs(actions')
      BY <2>1, <2>2, <3>1, HandlerChannel, TailAppend
    <3>3. Queued(For("RefreshRepo", x))'
      BY <3>2, QueuedMsgs
    <3> QED BY <3>3 DEF Covered
  <2>3. CASE x # r
    BY <1>0, <1>W, <2>1, <2>3, CoverSurvives
  <2> QED BY <2>2, <2>3
<1>8. CASE DiscoverNewRepos \/ AddRepo \/ RemoveRepo
  <2>1. Head(actions).op \in {"DiscoverNewRepos", "AddRepo", "RemoveRepo"}
    BY <1>8 DEF DiscoverNewRepos, AddRepo, RemoveRepo, Next1
  <2>2. PICK h \in SUBSET Repos : Resync(h)
    <3>1. hidden \in SUBSET Repos /\ hidden \ {r} \in SUBSET Repos
          /\ (r \in rows => hidden \cup {r} \in SUBSET Repos)
      BY <1>0 DEF TypeInv, TypeOK
    <3> QED BY <1>8, <3>1 DEF DiscoverNewRepos, AddRepo, RemoveRepo
  <2>3. /\ rows' = exists \ h
        /\ UNCHANGED <<disk, watch, missed, ops, queries>>
        /\ pending' = pending \ (rows \ (exists \ h))
        /\ dirty' = dirty \ (rows \ (exists \ h))
        /\ scheduled' = scheduled \ (rows \ (exists \ h))
    BY <2>2 DEF Resync
  <2>4. CASE x \in rows
    <3>1. seen'[x] = seen[x]
      BY <1>0, <2>2, <2>3, <2>4 DEF Resync
    <3> QED BY <1>0, <1>W, <2>1, <2>3, <2>4, <3>1, CoverSurvives
  <2>5. CASE x \notin rows
    <3>1. For("RefreshRepo", x) \in Msgs(actions')
      BY <2>2, <2>3, <2>5, HandlerChannel, ResyncChannel
    <3>2. Queued(For("RefreshRepo", x))'
      BY <3>1, QueuedMsgs
    <3> QED BY <3>2 DEF Covered
  <2> QED BY <2>4, <2>5
<1>9. CASE RescanRepos
  <2>1. Bare("PollLocal") \in Action
    BY ActionTypes, <1>0 DEF Bare, Action, BareOps
  <2>2. Bare("PollLocal") \in Msgs(actions')
    BY <1>9, <2>1, HandlerChannel, TailAppend DEF RescanRepos
  <2>3. Queued(Bare("PollLocal"))'
    BY <2>2, QueuedMsgs
  <2> QED BY <1>9, <2>3 DEF RescanRepos, Covered
<1>10. CASE SaveFailed
  <2>1. /\ Head(actions).op \in {"AddRepo", "RemoveRepo", "RescanRepos"}
        /\ UNCHANGED <<rows, disk, seen, watch, missed, ops, pending, dirty, scheduled, queries>>
    BY <1>10 DEF SaveFailed
  <2> QED BY <1>0, <1>W, <2>1, CoverSurvives
<1> QED BY <1>1, <1>2, <1>3, <1>4, <1>5, <1>6, <1>7, <1>8, <1>9, <1>10 DEF HandleAction

-----------------------------------------------------------------------------
(* Steps outside the handlers: events, timers, queries, git commands.      *)

(* A task that ends leaves its message.                                    *)
LEMMA OutsideTasks ==
  ASSUME TypeInv, Outside, NEW x \in Repos
  PROVE  /\ queries[x] # {} => queries'[x] # {} \/ QueuedResult(x)'
         /\ timers[x] > 0 => timers'[x] > 0 \/ Queued(For("RefreshRepoAfterCooldown", x))'
         /\ ops[x] > 0 => \/ ops'[x] > 0
                          \/ Queued(For("GitOpComplete", x))' \/ Queued(For("RefreshRepo", x))'
<1> USE DEF taskVars
<1>0. queries \in [Repos -> SUBSET Query] /\ timers \in [Repos -> Nat] /\ ops \in [Repos -> Nat]
  BY DEF TypeInv, TypeOK
<1>1. CASE Environment \/ Tick \/ DrainDone \/ \E r \in Repos : RepoChanged(r)
  <2>1. UNCHANGED taskVars
    BY <1>1 DEF Environment, Edit, CloneOrDelete, LocalTimer, FetchTimer, RootChanged,
                UserCommand, PowerChanged, Tick, DrainDone, RepoChanged
  <2> QED BY <2>1
<1>2. CASE Background
  <2> PICK r \in Repos : \/ CooldownElapses(r) \/ TimerFires(r)
                         \/ QueryStarts(r) \/ QueryFinishes(r) \/ GitOpEnds(r)
    BY <1>2 DEF Background
  <2>1. CASE CooldownElapses(r)
    BY <2>1 DEF CooldownElapses
  <2>2. CASE TimerFires(r)
    <3>1. For("RefreshRepoAfterCooldown", r) \in Action
      BY ActionTypes DEF RepoOps
    <3>2. For("RefreshRepoAfterCooldown", r) \in Msgs(actions')
      BY <2>2, <3>1, AppendChannel DEF TimerFires
    <3>3. Queued(For("RefreshRepoAfterCooldown", r))'
      BY <3>2, QueuedMsgs
    <3>4. timers' = [timers EXCEPT ![r] = @ - 1] /\ UNCHANGED <<queries, ops>>
      BY <2>2 DEF TimerFires
    <3>5. CASE x = r
      BY <3>3, <3>4, <3>5
    <3>6. CASE x # r
      BY <1>0, <3>4, <3>6
    <3> QED BY <3>5, <3>6
  <2>3. CASE QueryStarts(r)
    <3>1. PICK q, s : queries' = [queries EXCEPT ![r] = (@ \ {q}) \cup {s}]
      BY <2>3 DEF QueryStarts
    <3>2. UNCHANGED <<timers, ops>>
      BY <2>3 DEF QueryStarts
    <3>3. queries[x] # {} => queries'[x] # {}
      BY <1>0, <3>1
    <3> QED BY <3>2, <3>3
  <2>4. CASE QueryFinishes(r)
    <3>1. QueuedResult(r)'
      BY <2>4, QueryFinishesChannel, ResultMsgs
    <3>2. UNCHANGED <<timers, ops>> /\ \A y \in Repos : y # r => queries'[y] = queries[y]
      BY <1>0, <2>4 DEF QueryFinishes
    <3> QED BY <3>1, <3>2
  <2>5. CASE GitOpEnds(r)
    <3>1. PICK op \in {"GitOpComplete", "RefreshRepo"} : actions' = Append(actions, For(op, r))
      BY <2>5 DEF GitOpEnds
    <3>2. For(op, r) \in Action
      BY ActionTypes DEF RepoOps
    <3>3. For(op, r) \in Msgs(actions')
      BY <3>1, <3>2, AppendChannel
    <3>4. Queued(For("GitOpComplete", r))' \/ Queued(For("RefreshRepo", r))'
      BY <3>3, QueuedMsgs
    <3>5. UNCHANGED <<timers, queries>> /\ \A y \in Repos : y # r => ops'[y] = ops[y]
      BY <1>0, <2>5 DEF GitOpEnds
    <3> QED BY <3>4, <3>5
  <2> QED BY <2>1, <2>2, <2>3, <2>4, <2>5
<1> QED BY <1>1, <1>2 DEF Outside

(* A change is reported, a report becomes a refresh, and a query that      *)
(* starts reads the change.                                                *)
LEMMA OutsideCover ==
  ASSUME TypeInv, Outside, NEW x \in rows, seen'[x] < disk'[x],
         seen[x] < disk[x] => Covered(x)
  PROVE  Covered(x)'
<1> USE DEF diskVars, histVars
<1>0. /\ queries \in [Repos -> SUBSET Query] /\ ops \in [Repos -> Nat]
      /\ disk \in [Repos -> Nat] /\ seen \in [Repos -> Nat] /\ x \in Repos
  BY DEF TypeInv, TypeOK
<1>1. /\ \A a : Queued(a) => Queued(a)'
      /\ UNCHANGED <<rows, gitOp, pending, dirty, scheduled>>
  BY OutsideChannel, QueuedMsgs
<1>2. ops[x] > 0 => ops'[x] > 0 \/ Queued(For("GitOpComplete", x))'
                                \/ Queued(For("RefreshRepo", x))'
  BY <1>0, OutsideTasks
<1>3. ASSUME Covered(x), x \in watch \cup missed => Covered(x)', Waiting(x) => Waiting(x)'
      PROVE  Covered(x)'
  BY <1>1, <1>2, <1>3 DEF Covered
<1>4. CASE \E r \in Repos : Edit(r) \/ CloneOrDelete(r)
  <2> PICK r \in Repos : Edit(r) \/ CloneOrDelete(r)
    BY <1>4
  <2>1. /\ watch' = IF r \in rows THEN watch \cup {r} ELSE watch
        /\ disk' = [disk EXCEPT ![r] = @ + 1]
        /\ UNCHANGED <<seen, missed, queries>>
    BY DEF Edit, CloneOrDelete, taskVars
  <2>2. CASE x = r
    BY <2>1, <2>2 DEF Covered
  <2>3. CASE x # r
    <3>1. Covered(x)
      BY <1>0, <2>1, <2>3
    <3>2. x \in watch \cup missed => Covered(x)'
      BY <2>1 DEF Covered
    <3> QED BY <1>3, <2>1, <3>1, <3>2 DEF Waiting
  <2> QED BY <2>2, <2>3
<1>5. CASE \/ LocalTimer \/ FetchTimer \/ RootChanged \/ UserCommand
           \/ \E to \in Powers : PowerChanged(to)
           \/ Tick \/ DrainDone
           \/ \E r \in Repos : CooldownElapses(r) \/ TimerFires(r) \/ GitOpEnds(r)
  <2>1. UNCHANGED <<disk, seen, watch, missed, queries>>
    BY <1>5 DEF LocalTimer, FetchTimer, RootChanged, UserCommand, PowerChanged, Tick,
                DrainDone, CooldownElapses, TimerFires, GitOpEnds, taskVars
  <2>2. x \in watch \cup missed => Covered(x)'
    BY <2>1 DEF Covered
  <2> QED BY <1>3, <2>1, <2>2 DEF Waiting
<1>6. CASE \E r \in Repos : RepoChanged(r)
  <2> PICK r \in Repos : RepoChanged(r)
    BY <1>6
  <2>1. UNCHANGED <<disk, seen, queries>> /\ watch' = watch \ {r} /\ missed \subseteq missed'
    BY DEF RepoChanged, taskVars
  <2>2. r \in missed' \/ Queued(For("RefreshRepo", r))'
    <3>1. For("RefreshRepo", r) \in Action
      BY ActionTypes DEF RepoOps
    <3>2. CASE actions' = Append(actions, For("RefreshRepo", r))
      <4>1. For("RefreshRepo", r) \in Msgs(actions')
        BY <3>1, <3>2, AppendChannel
      <4> QED BY <4>1, QueuedMsgs
    <3> QED BY <3>2 DEF RepoChanged, Post
  <2>3. x \in watch \cup missed => Covered(x)'
    BY <2>1, <2>2 DEF Covered
  <2> QED BY <1>3, <2>1, <2>3 DEF Waiting
<1>7. CASE \E r \in Repos : QueryStarts(r)
  <2> PICK r \in Repos : QueryStarts(r)
    BY <1>7
  <2>1. PICK q, s : queries' = [queries EXCEPT ![r] = (@ \ {q}) \cup {s}]
    BY DEF QueryStarts
  <2>2. /\ seen' = [seen EXCEPT ![r] = IF r \in rows /\ disk[r] > @ THEN disk[r] ELSE @]
        /\ missed' = missed \ {r} /\ UNCHANGED <<disk, watch>>
    BY DEF QueryStarts
  <2>3. x # r
    BY <1>0, <2>2
  <2>4. seen'[x] = seen[x] /\ queries'[x] = queries[x]
    BY <1>0, <2>1, <2>2, <2>3
  <2>5. x \in watch \cup missed => Covered(x)'
    BY <2>2, <2>3 DEF Covered
  <2> QED BY <1>3, <2>2, <2>4, <2>5 DEF Waiting
<1>8. CASE \E r \in Repos : QueryFinishes(r)
  <2> PICK r \in Repos : QueryFinishes(r)
    BY <1>8
  <2>1. PICK q \in queries[r] : q.stage = "running" /\ queries' = [queries EXCEPT ![r] = @ \ {q}]
    BY DEF QueryFinishes
  <2>2. UNCHANGED <<disk, seen, watch, missed>>
    BY DEF QueryFinishes
  <2>3. Waiting(x) => Waiting(x)'
    BY <1>0, <2>1 DEF Waiting
  <2>4. x \in watch \cup missed => Covered(x)'
    BY <2>2 DEF Covered
  <2> QED BY <1>3, <2>2, <2>3, <2>4
<1> QED BY <1>4, <1>5, <1>6, <1>7, <1>8 DEF Outside, Environment, Background

-----------------------------------------------------------------------------
(* The inductive invariant.  A spinner needs to be known to have work for  *)
(* a poll that skips its row not to forget a change, and the marks need to *)
(* be within the rows for a rescan not to drop one that is in use.         *)
Marks == InFlightIsReal /\ MarksAreConsumed
IInv  == TypeInv /\ Marks /\ SpinnerHasWork /\ NoChangeForgotten

LEMMA MarksNext == TypeInv /\ Marks /\ (HandleAction \/ Outside) => Marks'
<1> SUFFICES ASSUME TypeInv, Marks, HandleAction \/ Outside PROVE Marks'
  OBVIOUS
<1> USE DEF Marks, InFlightIsReal, MarksAreConsumed
<1>0. pending \subseteq Repos /\ scheduled \subseteq Repos /\ rows \subseteq Repos
  BY DEF TypeInv, TypeOK
<1>1. CASE Outside
  <2>1. /\ \A a : Queued(a) => Queued(a)' /\ \A x : QueuedResult(x) => QueuedResult(x)'
        /\ UNCHANGED <<rows, pending, dirty, scheduled>>
    BY <1>1, OutsideChannel, QueuedMsgs, ResultMsgs
  <2>2. \A x \in Repos : queries[x] # {} => queries'[x] # {} \/ QueuedResult(x)'
    BY <1>1, OutsideTasks
  <2>3. \A x \in Repos : timers[x] > 0 =>
          timers'[x] > 0 \/ Queued(For("RefreshRepoAfterCooldown", x))'
    BY <1>1, OutsideTasks
  <2>4. ASSUME NEW x \in pending' PROVE x \in rows' /\ (queries'[x] # {} \/ QueuedResult(x)')
    <3>1. x \in rows /\ x \in Repos /\ (queries[x] # {} \/ QueuedResult(x))
      BY <1>0, <2>1
    <3>2. x \in rows'
      BY <2>1, <3>1
    <3>3. queries'[x] # {} \/ QueuedResult(x)'
      <4>1. QueuedResult(x) => QueuedResult(x)'
        BY <1>1, OutsideChannel, ResultMsgs
      <4>2. queries[x] # {} => queries'[x] # {} \/ QueuedResult(x)'
        BY <2>2, <3>1
      <4> QED BY <3>1, <4>1, <4>2
    <3> QED BY <3>2, <3>3
  <2>5. MarksAreConsumed'
    BY <1>0, <2>1, <2>3
  <2> QED BY <2>4, <2>5
<1>2. CASE HandleAction
  <2>1. MarksKept
    BY <1>2, HandlerMarks
  <2>2. TypeInv'
    BY <1>2, TypeHandle
  <2>3. ASSUME NEW x \in pending' PROVE x \in rows' /\ (queries'[x] # {} \/ QueuedResult(x)')
    <3>1. x \in rows' /\ x \in Repos
      BY <2>1, <2>2 DEF MarksKept, TypeInv, TypeOK
    <3>2. CASE Waiting(x)'
      BY <3>1, <3>2 DEF Waiting
    <3>3. CASE x \in pending /\ ~IsResult(Head(actions), x)
      <4>1. queries[x] # {} => queries'[x] # {}
        BY <2>1, <3>1 DEF MarksKept
      <4>2. QueuedResult(x) => QueuedResult(x)'
        BY <1>2, <3>3, HandlerChannel, ResultMsgs
      <4> QED BY <3>1, <3>3, <4>1, <4>2
    <3> QED BY <2>1, <3>2, <3>3 DEF MarksKept
  <2>4. ASSUME NEW x \in scheduled'
        PROVE  timers'[x] > 0 \/ Queued(For("RefreshRepoAfterCooldown", x))'
    <3>1. CASE x \in scheduled /\ Head(actions) # For("RefreshRepoAfterCooldown", x)
      <4>1. timers[x] > 0 => timers'[x] > 0
        <5>1. timers \in [Repos -> Nat] /\ scheduled' \in SUBSET Repos
          BY <1>0, <2>2 DEF TypeInv, TypeOK
        <5>2. timers' \in [Repos -> Nat]
          BY <2>2 DEF TypeInv, TypeOK
        <5>3. x \in Repos
          BY <2>4, <5>1
        <5>4. timers[x] \in Nat /\ timers'[x] \in Nat
          BY <5>1, <5>2, <5>3
        <5>5. timers[x] <= timers'[x]
          BY <2>1, <3>1, <5>3 DEF MarksKept
        <5> QED BY <5>4, <5>5
      <4>2. Queued(For("RefreshRepoAfterCooldown", x)) =>
              Queued(For("RefreshRepoAfterCooldown", x))'
        BY <1>2, <3>1, MessageSurvives
      <4> QED BY <3>1, <4>1, <4>2
    <3> QED BY <2>1, <3>1 DEF MarksKept
  <2>5. dirty' \subseteq pending'
    BY <2>1 DEF MarksKept
  <2> QED BY <2>3, <2>4, <2>5
<1> QED BY <1>1, <1>2

LEMMA SpinnerOutside == TypeInv /\ SpinnerHasWork /\ Outside => SpinnerHasWork'
<1> SUFFICES ASSUME TypeInv, SpinnerHasWork, Outside, NEW x \in rows', gitOp'[x]
             PROVE  Work(x)'
  BY DEF SpinnerHasWork, Work
<1>1. /\ \A a : Queued(a) => Queued(a)'
      /\ UNCHANGED <<rows, gitOp, pending, dirty, scheduled>>
  BY OutsideChannel, QueuedMsgs
<1>2. x \in Repos /\ Work(x)
  BY <1>1 DEF SpinnerHasWork, Work, TypeInv, TypeOK
<1>3. ops[x] > 0 => ops'[x] > 0 \/ Queued(For("GitOpComplete", x))'
                                \/ Queued(For("RefreshRepo", x))'
  BY <1>2, OutsideTasks
<1> QED BY <1>1, <1>2, <1>3 DEF Work

LEMMA CoverOutside == TypeInv /\ NoChangeForgotten /\ Outside => NoChangeForgotten'
<1> SUFFICES ASSUME TypeInv, NoChangeForgotten, Outside,
                    NEW x \in rows', seen'[x] < disk'[x]
             PROVE  Covered(x)'
  BY DEF NoChangeForgotten, Covered, Waiting
<1>1. x \in rows
  BY OutsideChannel
<1>2. seen[x] < disk[x] => Covered(x)
  BY <1>1 DEF NoChangeForgotten, Covered, Waiting
<1> QED BY <1>1, <1>2, OutsideCover

LEMMA IInvInit == Init => IInv
<1> SUFFICES ASSUME Init PROVE IInv
  OBVIOUS
<1>1. TypeInv
  BY TypeInit
<1>2. Queued(Bare("PollLocal"))
  BY DEF Init, Queued
<1> QED BY <1>1, <1>2
        DEF Init, IInv, Marks, InFlightIsReal, MarksAreConsumed, SpinnerHasWork,
            NoChangeForgotten, TypeInv, TypeOK

LEMMA IInvNext == IInv /\ [Next]_vars => IInv'
<1> SUFFICES ASSUME IInv, [Next]_vars PROVE IInv'
  OBVIOUS
<1> USE DEF IInv
<1>1. TypeInv'
  BY TypeNext
<1>2. CASE HandleAction
  <2>1. SpinnerHasWork' /\ NoChangeForgotten'
    BY <1>2, SpinnerHandler, CoverHandler
  <2> QED BY <1>1, <1>2, <2>1, MarksNext
<1>3. CASE Outside
  BY <1>1, <1>3, MarksNext, SpinnerOutside, CoverOutside
<1>4. CASE UNCHANGED vars
  BY <1>1, <1>4
     DEF vars, diskVars, rowVars, bookVars, taskVars, histVars, Marks, InFlightIsReal,
         MarksAreConsumed, SpinnerHasWork, NoChangeForgotten, Queued, QueuedResult
<1> QED BY <1>2, <1>3, <1>4 DEF Next, Outside

LEMMA IInvAlways == Spec => []IInv
BY IInvInit, IInvNext, PTL DEF Spec

(* The in-flight mark is never leaked: whatever order events, results,     *)
(* rescans and failures come in, a repository in pending_status is a       *)
(* listed row and has a query or its completion under way.                 *)
THEOREM InFlightNeverLeaks == Spec => []InFlightIsReal
<1>1. IInv => InFlightIsReal
  BY DEF IInv, Marks
<1> QED BY IInvAlways, <1>1, PTL

(* dirty_repos stays inside pending_status, and every repository in        *)
(* refresh_scheduled has a timer asleep or its action in the channel.      *)
THEOREM MarksAlwaysConsumed == Spec => []MarksAreConsumed
<1>1. IInv => MarksAreConsumed
  BY DEF IInv, Marks
<1> QED BY IInvAlways, <1>1, PTL

(* No row spins without something under way that will stop it.             *)
THEOREM SpinnerAlwaysHasWork == Spec => []SpinnerHasWork
<1>1. IInv => SpinnerHasWork
  BY DEF IInv
<1> QED BY IInvAlways, <1>1, PTL

(* While the pane is not deep asleep no change of a listed repository is   *)
(* ever forgotten: until a query has read it, something that leads to a    *)
(* query is under way.                                                     *)
THEOREM NoChangeEverForgotten == Spec => []NoChangeForgotten
<1>1. IInv => NoChangeForgotten
  BY DEF IInv
<1> QED BY IInvAlways, <1>1, PTL
-----------------------------------------------------------------------------
(* How many queries of one repository are under way.  A completion leaves  *)
(* the channel in the step that clears its mark, and a query starts in the *)
(* step that sets one or counts as forced.                                 *)
ResultsOf(s, r) == {i \in DOMAIN s : IsResult(s[i], r)}
Count(s, r)     == Cardinality(ResultsOf(s, r))
One(b)          == IF b THEN 1 ELSE 0

LEMMA CountType ==
  ASSUME NEW s \in Seq(Action), NEW r
  PROVE  IsFiniteSet(ResultsOf(s, r)) /\ Count(s, r) \in Nat
<1>1. Len(s) \in Nat /\ DOMAIN s = 1..Len(s)
  BY LenProperties
<1>2. IsFiniteSet(DOMAIN s)
  BY <1>1, FS_Interval
<1>3. IsFiniteSet(ResultsOf(s, r))
  BY <1>2, FS_Subset DEF ResultsOf
<1> QED BY <1>3, FS_CardinalityType DEF Count

LEMMA CountAppend ==
  ASSUME NEW s \in Seq(Action), NEW e \in Action, NEW r
  PROVE  Count(Append(s, e), r) = Count(s, r) + One(IsResult(e, r))
<1> DEFINE n == Len(s) + 1
<1>1. /\ Len(s) \in Nat /\ DOMAIN s = 1..Len(s)
      /\ Append(s, e) \in Seq(Action) /\ Len(Append(s, e)) = n
      /\ \A i \in 1..Len(s) : Append(s, e)[i] = s[i]
      /\ Append(s, e)[n] = e
  BY LenProperties, AppendProperties
<1>2. DOMAIN Append(s, e) = 1..n
  BY <1>1, LenProperties
<1>3. IsFiniteSet(ResultsOf(s, r)) /\ Cardinality(ResultsOf(s, r)) \in Nat
  BY CountType DEF Count
<1>4. n \notin ResultsOf(s, r)
  BY <1>1 DEF ResultsOf
<1>5. CASE IsResult(e, r)
  <2>1. ResultsOf(Append(s, e), r) = ResultsOf(s, r) \cup {n}
    BY <1>1, <1>2, <1>5 DEF ResultsOf
  <2> QED BY <1>3, <1>4, <1>5, <2>1, FS_AddElement DEF Count, One
<1>6. CASE ~IsResult(e, r)
  <2>1. ResultsOf(Append(s, e), r) = ResultsOf(s, r)
    BY <1>1, <1>2, <1>6 DEF ResultsOf
  <2> QED BY <1>3, <1>6, <2>1 DEF Count, One
<1> QED BY <1>5, <1>6

LEMMA CountTail ==
  ASSUME NEW s \in Seq(Action), s # <<>>, NEW r
  PROVE  Count(s, r) = Count(Tail(s), r) + One(IsResult(Head(s), r))
<1> DEFINE t == Tail(s)
           S == ResultsOf(t, r)
           T == ResultsOf(s, r) \ {1}
           f == [i \in S |-> i + 1]
<1>1. /\ t \in Seq(Action) /\ Len(t) = Len(s) - 1
      /\ \A i \in 1..Len(t) : t[i] = s[i + 1]
  BY HeadTailProperties
<1>2. /\ Len(s) \in Nat \ {0} /\ DOMAIN s = 1..Len(s) /\ DOMAIN t = 1..(Len(s) - 1)
      /\ Head(s) = s[1]
  BY <1>1, LenProperties, EmptySeq
<1>3. /\ IsFiniteSet(S) /\ Cardinality(S) \in Nat
      /\ IsFiniteSet(ResultsOf(s, r)) /\ Cardinality(ResultsOf(s, r)) \in Nat
  BY <1>1, CountType DEF Count
<1>4. \A i \in S : i \in 1..(Len(s) - 1) /\ i + 1 \in T
  BY <1>1, <1>2 DEF ResultsOf
<1>5. \A i \in T : i - 1 \in S
  BY <1>1, <1>2 DEF ResultsOf
<1>6. f \in Bijection(S, T)
  <2> HIDE DEF S, T
  <2>1. f \in [S -> T]
    BY <1>4
  <2>2. \A i, j \in S : f[i] = f[j] => i = j
    BY <1>4
  <2>3. \A j \in T : \E i \in S : f[i] = j
    <3> SUFFICES ASSUME NEW j \in T PROVE \E i \in S : f[i] = j
      OBVIOUS
    <3>1. j - 1 \in S /\ j \in Int
      BY <1>2, <1>5 DEF T, ResultsOf
    <3> QED BY <3>1
  <2> QED BY <2>1, <2>2, <2>3 DEF Bijection, Injection, Surjection, IsInjective
<1>7. Cardinality(T) = Cardinality(S)
  <2> HIDE DEF S, T, f
  <2> QED BY <1>3, <1>6, FS_Bijection DEF ExistsBijection
<1>8. 1 \in ResultsOf(s, r) <=> IsResult(Head(s), r)
  BY <1>2 DEF ResultsOf
<1>9. Cardinality(T) = IF IsResult(Head(s), r) THEN Cardinality(ResultsOf(s, r)) - 1
                       ELSE Cardinality(ResultsOf(s, r))
  BY <1>3, <1>8, FS_RemoveElement
<1> QED
  <2> HIDE DEF T, f
  <2> QED BY <1>3, <1>7, <1>9 DEF Count, One

LEMMA CountConcat ==
  ASSUME NEW s \in Seq(Action), NEW t \in Seq(Action), NEW r,
         \A i \in DOMAIN t : ~IsResult(t[i], r)
  PROVE  Count(s \o t, r) = Count(s, r)
<1>1. /\ Len(s) \in Nat /\ DOMAIN s = 1..Len(s)
      /\ Len(t) \in Nat /\ DOMAIN t = 1..Len(t)
      /\ s \o t \in Seq(Action) /\ Len(s \o t) = Len(s) + Len(t)
      /\ \A i \in 1..(Len(s) + Len(t)) :
           (s \o t)[i] = IF i <= Len(s) THEN s[i] ELSE t[i - Len(s)]
  BY LenProperties, ConcatProperties
<1>2. DOMAIN (s \o t) = 1..(Len(s) + Len(t))
  BY <1>1, LenProperties
<1>3. ASSUME NEW i \in DOMAIN (s \o t), i \notin DOMAIN s
      PROVE  ~IsResult((s \o t)[i], r)
  BY <1>1, <1>2, <1>3
<1>4. \A i \in DOMAIN s : i \in DOMAIN (s \o t) /\ (s \o t)[i] = s[i]
  BY <1>1, <1>2
<1>5. ResultsOf(s \o t, r) = ResultsOf(s, r)
  BY <1>3, <1>4 DEF ResultsOf
<1> QED BY <1>5 DEF Count

(* The budget of x: how much more may be under way.                        *)
Budget(x) == forced[x] + One(x \in pending)

LEMMA InFlightIs ==
  ASSUME TypeInv, NEW x \in Repos
  PROVE  /\ InFlight(x) = Cardinality(queries[x]) + Count(actions, x)
         /\ Cardinality(queries[x]) \in Nat /\ Count(actions, x) \in Nat
         /\ forced[x] \in Nat
<1>1. IsFiniteSet(queries[x]) /\ actions \in Seq(Action) /\ forced[x] \in Nat
  BY DEF TypeInv, TypeOK
<1>2. Results(x) = ResultsOf(actions, x)
  BY DEF Results, ResultsOf, IsResult
<1> QED BY <1>1, <1>2, CountType, FS_CardinalityType DEF InFlight, Count

LEMMA InFlightNext ==
  ASSUME TypeInv', NEW x \in Repos
  PROVE  /\ InFlight(x)' = Cardinality(queries'[x]) + Count(actions', x)
         /\ Cardinality(queries'[x]) \in Nat /\ Count(actions', x) \in Nat
         /\ forced'[x] \in Nat
<1>1. IsFiniteSet(queries'[x]) /\ actions' \in Seq(Action) /\ forced'[x] \in Nat
  BY DEF TypeInv, TypeOK
<1>2. Results(x)' = ResultsOf(actions', x)
  BY DEF Results, ResultsOf, IsResult
<1> QED BY <1>1, <1>2, CountType, FS_CardinalityType DEF InFlight, Count

LEMMA SpawnedCount ==
  ASSUME TypeInv, NEW S, NEW kind, NEW x \in Repos
  PROVE  Cardinality(Spawned(S, kind)[x]) <= Cardinality(queries[x]) + One(x \in S)
<1>1. IsFiniteSet(queries[x]) /\ Cardinality(queries[x]) \in Nat
  BY FS_CardinalityType DEF TypeInv
<1>2. Spawned(S, kind)[x] = IF x \in S THEN queries[x] \cup {NewQuery(x, kind)} ELSE queries[x]
  BY DEF Spawned
<1>3. Cardinality(queries[x] \cup {NewQuery(x, kind)}) <= Cardinality(queries[x]) + 1
  <2>1. Cardinality(queries[x] \cup {NewQuery(x, kind)})
          = IF NewQuery(x, kind) \in queries[x] THEN Cardinality(queries[x]) ELSE Cardinality(queries[x]) + 1
    BY <1>1, FS_AddElement
  <2> QED BY <1>1, <2>1
<1> QED BY <1>1, <1>2, <1>3 DEF One

(* A refresh that is scheduled starts a query only with a mark.            *)
LEMMA ScheduleCount ==
  ASSUME TypeInv, NEW r \in Repos, NEW p, NEW d, NEW s, NEW c, NEW x \in Repos,
         ScheduleRefresh(r, p, d, s, c)
  PROVE  Cardinality(queries'[x]) + One(x \in p) <= Cardinality(queries[x]) + One(x \in pending')
<1>0. Cardinality(queries[x]) \in Nat
  BY InFlightIs
<1>1. CASE pending' = p /\ queries' = queries
  BY <1>0, <1>1 DEF One
<1>2. CASE r \notin p /\ pending' = (IF r \in rows THEN p \cup {r} ELSE p)
           /\ queries' = Spawned({r} \cap rows, "local")
  <2>1. Cardinality(queries'[x]) <= Cardinality(queries[x]) + One(x \in {r} \cap rows)
    BY <1>2, SpawnedCount
  <2>2. Spawned({r} \cap rows, "local")[x]
          = IF x \in {r} \cap rows THEN queries[x] \cup {NewQuery(x, "local")} ELSE queries[x]
    BY DEF Spawned
  <2>3. IsFiniteSet(queries[x] \cup {NewQuery(x, "local")}) /\ IsFiniteSet(queries[x])
    BY FS_AddElement DEF TypeInv
  <2>4. Cardinality(queries'[x]) \in Nat
    BY <1>2, <2>2, <2>3, FS_CardinalityType
  <2>5. One(x \in {r} \cap rows) + One(x \in p) <= One(x \in pending')
    BY <1>2 DEF One
  <2>6. One(x \in {r} \cap rows) \in Nat /\ One(x \in p) \in Nat /\ One(x \in pending') \in Nat
    BY DEF One
  <2> QED BY <1>0, <2>1, <2>4, <2>5, <2>6
<1> QED BY <1>1, <1>2 DEF ScheduleRefresh

(* What a handler may do: the head leaves the channel, and what starts is  *)
(* marked or forced.                                                       *)
Spends(x) ==
  /\ Count(actions', x) = Count(Tail(actions), x)
  /\ Cardinality(queries'[x]) + Budget(x)
       <= Cardinality(queries[x]) + Budget(x)' + One(IsResult(Head(actions), x))

LEMMA CompletedCount ==
  ASSUME TypeInv, actions # <<>>, NEW r \in Repos, NEW n, NEW x \in Repos,
         IsResult(Head(actions), r), Completed(r, n)
  PROVE  Spends(x)
<1>0. /\ Cardinality(queries[x]) \in Nat /\ forced[x] \in Nat
      /\ actions' = Tail(actions) /\ forced' = forced
  BY InFlightIs DEF Completed, histVars
<1>1. One(x \in pending) <= One(x \in pending \ {r}) + One(IsResult(Head(actions), x))
  BY DEF One, IsResult
<1>2. /\ One(x \in pending) \in Nat /\ One(x \in pending \ {r}) \in Nat
      /\ One(x \in pending') \in Nat /\ One(IsResult(Head(actions), x)) \in Nat
  BY DEF One
<1>3. Cardinality(queries'[x]) + One(x \in pending \ {r})
        <= Cardinality(queries[x]) + One(x \in pending')
      /\ Cardinality(queries'[x]) \in Nat
  <2>1. CASE ScheduleRefresh(r, pending \ {r}, dirty \ {r}, scheduled, cooling \cup {r})
    <3>1. IsFiniteSet(queries'[x])
      <4>1. /\ pending \ {r} \in SUBSET Repos /\ dirty \ {r} \in SUBSET Repos
            /\ scheduled \in SUBSET Repos /\ cooling \cup {r} \in SUBSET Repos
        BY DEF TypeInv, TypeOK
      <4> QED BY <2>1, <4>1, ScheduleType
    <3> QED BY <2>1, <3>1, ScheduleCount, FS_CardinalityType
  <2>2. CASE pending' = pending \ {r} /\ queries' = queries
    BY <1>0, <1>2, <2>2
  <2> QED BY <2>1, <2>2 DEF Completed
<1>4. PICK q, q1, f, p, p1, p2, m \in Nat :
        /\ q = Cardinality(queries[x]) /\ q1 = Cardinality(queries'[x]) /\ f = forced[x]
        /\ p = One(x \in pending) /\ p1 = One(x \in pending') /\ p2 = One(x \in pending \ {r})
        /\ m = One(IsResult(Head(actions), x))
  BY <1>0, <1>2, <1>3
<1>5. p <= p2 + m /\ q1 + p2 <= q + p1
  BY <1>1, <1>3, <1>4
<1>6. q1 + (f + p) <= q + (f + p1) + m
  BY <1>5
<1>7. Budget(x) = f + p /\ Budget(x)' = f + p1
  BY <1>0, <1>4 DEF Budget
<1> QED BY <1>0, <1>4, <1>6, <1>7 DEF Spends

LEMMA ResyncCount ==
  ASSUME TypeInv, actions # <<>>, NEW h \in SUBSET Repos, Resync(h), NEW x \in Repos
  PROVE  Spends(x)
<1> DEFINE added == (exists \ h) \ rows
<1>0. Cardinality(queries[x]) \in Nat /\ forced[x] \in Nat
  BY InFlightIs
<1>1. /\ queries' = queries /\ pending' = pending \ (rows \ (exists \ h))
      /\ forced' = [r \in Repos |-> IF r \in rows \ (exists \ h) THEN forced[r] + 1 ELSE forced[r]]
  BY DEF Resync, taskVars
<1>2. Budget(x) <= Budget(x)' /\ Budget(x) \in Nat /\ Budget(x)' \in Nat
  BY <1>0, <1>1 DEF Budget, One
<1>3. Count(actions', x) = Count(Tail(actions), x)
  <2> PICK order \in Orderings(added) :
        actions' = Tail(actions) \o [i \in DOMAIN order |-> For("RefreshRepo", order[i])]
    BY DEF Resync
  <2> DEFINE queue == [i \in DOMAIN order |-> For("RefreshRepo", order[i])]
  <2>1. added \in SUBSET Repos
    BY DEF TypeInv, TypeOK
  <2> HIDE DEF added
  <2>2. Tail(actions) \in Seq(Action) /\ queue \in Seq(Action)
    BY <2>1, OrderingType, HeadType
  <2>3. \A i \in DOMAIN queue : ~IsResult(queue[i], x)
    BY DEF For, IsResult
  <2>4. actions' = Tail(actions) \o queue
    OBVIOUS
  <2> HIDE DEF queue
  <2>5. Count(Tail(actions) \o queue, x) = Count(Tail(actions), x)
    BY <2>2, <2>3, CountConcat
  <2> QED BY <2>4, <2>5
<1>4. One(IsResult(Head(actions), x)) \in Nat
  BY DEF One
<1> QED BY <1>0, <1>1, <1>2, <1>3, <1>4 DEF Spends

LEMMA PollCount ==
  ASSUME TypeInv, actions # <<>>, NEW op, NEW kind, Poll(op, kind), NEW x \in Repos
  PROVE  Spends(x)
<1> DEFINE idle == {r \in rows : ~gitOp[r] /\ r \notin pending}
<1>0. Cardinality(queries[x]) \in Nat /\ forced[x] \in Nat
  BY InFlightIs
<1>1. /\ actions' = Tail(actions) /\ forced' = forced
      /\ pending' = pending \cup idle /\ queries' = Spawned(idle, kind)
  BY DEF Poll, histVars
<1>2. x \in idle => x \notin pending
  OBVIOUS
<1> HIDE DEF idle
<1>a. Cardinality(queries'[x]) <= Cardinality(queries[x]) + One(x \in idle)
  BY <1>1, SpawnedCount
<1>3. One(x \in idle) + One(x \in pending) <= One(x \in pending')
  BY <1>1, <1>2 DEF One
<1>4. /\ One(x \in idle) \in Nat /\ One(x \in pending) \in Nat /\ One(x \in pending') \in Nat
      /\ One(IsResult(Head(actions), x)) \in Nat
  BY DEF One
<1>5. Cardinality(queries'[x]) \in Nat
  <2>1. IsFiniteSet(queries[x]) /\ IsFiniteSet(queries[x] \cup {NewQuery(x, kind)})
    BY FS_AddElement DEF TypeInv
  <2>2. queries'[x] \in {queries[x], queries[x] \cup {NewQuery(x, kind)}}
    BY <1>1 DEF Spawned
  <2> QED BY <2>1, <2>2, FS_CardinalityType
<1>6. Budget(x) = forced[x] + One(x \in pending) /\ Budget(x)' = forced[x] + One(x \in pending')
  BY <1>1 DEF Budget
<1>7. PICK c, d, f, i, p, n \in Nat :
        /\ c = Cardinality(queries[x]) /\ d = Cardinality(queries'[x]) /\ f = forced[x]
        /\ i = One(x \in idle) /\ p = One(x \in pending) /\ n = One(x \in pending')
  BY <1>0, <1>4, <1>5
<1>8. d + (f + p) <= c + (f + n)
  <2>1. d <= c + i /\ i + p <= n
    BY <1>a, <1>3, <1>7
  <2> QED BY ONLY <1>7, <2>1
<1>9. Cardinality(queries'[x]) + Budget(x)
        <= Cardinality(queries[x]) + Budget(x)' + One(IsResult(Head(actions), x))
  <2>1. PICK r \in Nat : r = One(IsResult(Head(actions), x))
    BY <1>4
  <2>2. d + (f + p) <= c + (f + n) + r
    BY ONLY <1>7, <1>8, <2>1
  <2> QED BY ONLY <1>6, <1>7, <2>1, <2>2
<1> QED BY <1>1, <1>9 DEF Spends

LEMMA RefreshAllCount ==
  ASSUME TypeInv, TypeInv', actions # <<>>, RefreshAll, NEW x \in Repos
  PROVE  Spends(x)
<1>0. Cardinality(queries[x]) \in Nat /\ forced[x] \in Nat /\ Cardinality(queries'[x]) \in Nat
  BY InFlightIs, InFlightNext
<1>1. /\ actions' = Tail(actions) /\ pending' = pending \cup rows
      /\ queries' = Spawned(rows, "fetch")
      /\ forced' = [r \in Repos |-> IF r \in rows THEN forced[r] + 1 ELSE forced[r]]
  BY DEF RefreshAll
<1>2. Cardinality(queries'[x]) <= Cardinality(queries[x]) + One(x \in rows)
  BY <1>1, SpawnedCount
<1>3. forced'[x] = forced[x] + One(x \in rows)
  <2>1. forced'[x] = IF x \in rows THEN forced[x] + 1 ELSE forced[x]
    BY <1>1
  <2> QED BY <1>0, <2>1 DEF One
<1>4. One(x \in pending) <= One(x \in pending')
  <2>1. x \in pending => x \in pending'
    BY <1>1
  <2> QED BY <2>1 DEF One
<1>6. /\ Budget(x) = forced[x] + One(x \in pending)
      /\ Budget(x)' = forced[x] + One(x \in rows) + One(x \in pending')
  BY <1>3 DEF Budget
<1>5. /\ One(x \in rows) \in Nat /\ One(x \in pending) \in Nat /\ One(x \in pending') \in Nat
      /\ One(IsResult(Head(actions), x)) \in Nat
  BY DEF One
<1>7. Count(actions', x) = Count(Tail(actions), x)
  BY <1>1
<1> QED BY <1>0, <1>2, <1>4, <1>5, <1>6, <1>7 DEF Spends

LEMMA HandlerCount ==
  ASSUME TypeInv, TypeInv', HandleAction, NEW x \in Repos
  PROVE  actions # <<>> /\ Spends(x)
<1> SUFFICES Spends(x)
  BY HandlerChannel
<1>0. /\ actions # <<>> /\ Cardinality(queries[x]) \in Nat /\ forced[x] \in Nat
      /\ Cardinality(queries'[x]) \in Nat
      /\ One(IsResult(Head(actions), x)) \in Nat /\ One(x \in pending) \in Nat
      /\ One(x \in pending') \in Nat
  BY HandlerChannel, InFlightIs, InFlightNext DEF One
<1>t. /\ Head(actions).op \in RepoOps \cup {"RepoStatusUpdated"} => Head(actions).id \in Repos
      /\ Tail(actions) \in Seq(Action)
  BY <1>0, HeadType
<1>s. ASSUME NEW r \in Repos, NEW p \in SUBSET Repos, NEW d \in SUBSET Repos,
             NEW s \in SUBSET Repos, NEW c \in SUBSET Repos, ScheduleRefresh(r, p, d, s, c),
             p = pending, actions' = Tail(actions), forced' = forced
      PROVE  Spends(x)
  <2>1. Cardinality(queries'[x]) + One(x \in pending) <= Cardinality(queries[x]) + One(x \in pending')
    BY <1>s, ScheduleCount
  <2> QED BY <1>0, <1>s, <2>1 DEF Spends, Budget
<1>u. ASSUME UNCHANGED <<queries, pending, forced>>, Count(actions', x) = Count(Tail(actions), x)
      PROVE  Spends(x)
  BY <1>0, <1>u DEF Spends, Budget
<1>y. /\ pending \in SUBSET Repos /\ dirty \in SUBSET Repos /\ scheduled \in SUBSET Repos
      /\ cooling \in SUBSET Repos /\ hidden \in SUBSET Repos /\ exists \in SUBSET Repos
      /\ rows \in SUBSET Repos
  BY DEF TypeInv, TypeOK
<1>1. CASE RefreshRepo
  <2>1. Head(actions).id \in Repos
    BY <1>1, <1>t DEF RefreshRepo, Next1, RepoOps
  <2> QED BY <1>1, <1>s, <1>y, <2>1 DEF RefreshRepo, histVars
<1>2. CASE RefreshRepoAfterCooldown
  <2> DEFINE r == Head(actions).id
  <2>1. r \in Repos
    BY <1>2, <1>t DEF RefreshRepoAfterCooldown, Next1, RepoOps
  <2>2. actions' = Tail(actions) /\ forced' = forced
    BY <1>2 DEF RefreshRepoAfterCooldown, histVars
  <2>3. CASE ScheduleRefresh(r, pending, dirty, scheduled \ {r}, cooling)
    <3>1. scheduled \ {r} \in SUBSET Repos
      BY <1>y
    <3> QED BY <1>s, <1>y, <2>1, <2>2, <2>3, <3>1
  <2>4. CASE UNCHANGED <<bookVars, timers, queries>>
    BY <1>u, <2>2, <2>4 DEF bookVars
  <2> QED BY <1>2, <2>3, <2>4 DEF RefreshRepoAfterCooldown
<1>3. CASE StatusQueryDone
  <2>1. Head(actions).id \in Repos /\ IsResult(Head(actions), Head(actions).id)
    BY <1>3, <1>t DEF StatusQueryDone, Next1, RepoOps, IsResult
  <2> QED BY <1>0, <1>3, <2>1, CompletedCount DEF StatusQueryDone
<1>4. CASE RepoStatusUpdated
  <2> DEFINE r == Head(actions).id
             n == IF r \in rows THEN [shown EXCEPT ![r] = Head(actions).status] ELSE shown
  <2>1. r \in Repos /\ IsResult(Head(actions), r)
    BY <1>4, <1>t DEF RepoStatusUpdated, Next1, RepoOps, IsResult
  <2>2. Completed(r, n)
    BY <1>4 DEF RepoStatusUpdated
  <2> HIDE DEF r, n
  <2> QED BY <1>0, <2>1, <2>2, CompletedCount
<1>5. CASE PollLocal
  BY <1>0, <1>5, PollCount DEF PollLocal
<1>6. CASE PollFetch
  BY <1>0, <1>6, PollCount DEF PollFetch
<1>7. CASE RefreshAll
  BY <1>0, <1>7, RefreshAllCount
<1>8. CASE GitPush
  BY <1>8, <1>u DEF GitPush, bookVars, histVars
<1>9. CASE GitOpComplete
  <2> DEFINE m == For("RefreshRepo", Head(actions).id)
  <2>1. m \in Action /\ ~IsResult(m, x)
    BY <1>9, <1>t, ActionTypes DEF GitOpComplete, Next1, RepoOps, IsResult, For
  <2>2. actions' = Append(Tail(actions), m) /\ UNCHANGED <<queries, pending, forced>>
    BY <1>9 DEF GitOpComplete, bookVars, taskVars, histVars
  <2>3. Count(Tail(actions), x) \in Nat
    BY <1>t, CountType
  <2> HIDE DEF m
  <2>4. Count(actions', x) = Count(Tail(actions), x) + 0
    BY <1>t, <2>1, <2>2, CountAppend DEF One
  <2> QED BY <1>u, <2>2, <2>3, <2>4
<1>10. CASE DiscoverNewRepos \/ AddRepo \/ RemoveRepo
  <2>1. PICK h : h \subseteq Repos /\ Resync(h)
    <3>1. CASE DiscoverNewRepos
      BY <1>y, <3>1 DEF DiscoverNewRepos
    <3>2. CASE AddRepo
      BY <1>y, <3>2 DEF AddRepo
    <3>3. CASE RemoveRepo
      BY <1>y, <3>3 DEF RemoveRepo
    <3> QED BY <1>10, <3>1, <3>2, <3>3
  <2> QED BY <1>0, <2>1, ResyncCount
<1>11. CASE RescanRepos
  <2> DEFINE m == Bare("PollLocal")
  <2>1. m \in Action /\ ~IsResult(m, x)
    BY DEF Bare, Action, BareOps, IsResult
  <2>2. /\ actions' = Append(Tail(actions), m) /\ queries' = queries /\ pending' = {}
        /\ forced' = [r \in Repos |-> forced[r] + 1]
    BY <1>11 DEF RescanRepos, taskVars
  <2>3. Count(Tail(actions), x) \in Nat
    BY <1>t, CountType
  <2> HIDE DEF m
  <2>4. Count(actions', x) = Count(Tail(actions), x) + 0
    BY <1>t, <2>1, <2>2, CountAppend DEF One
  <2>5. Budget(x) <= Budget(x)' /\ Budget(x) \in Nat /\ Budget(x)' \in Nat
    BY <1>0, <2>2 DEF Budget, One
  <2> QED BY <1>0, <2>2, <2>3, <2>4, <2>5 DEF Spends
<1>12. CASE SaveFailed
  BY <1>12, <1>u DEF SaveFailed, bookVars, taskVars, histVars
<1> QED BY <1>0, <1>1, <1>2, <1>3, <1>4, <1>5, <1>6, <1>7, <1>8, <1>9, <1>10, <1>11, <1>12
        DEF HandleAction

(* Elsewhere a query only becomes a completion.                            *)
Turns(x) ==
  /\ Cardinality(queries'[x]) + Count(actions', x) <= Cardinality(queries[x]) + Count(actions, x)
  /\ forced' = forced /\ pending' = pending

LEMMA PostCount ==
  ASSUME TypeInv, NEW m \in Action, actions' = Append(actions, m), NEW x \in Repos
  PROVE  Count(actions', x) = Count(actions, x) + One(IsResult(m, x))
<1>1. actions \in Seq(Action)
  BY DEF TypeInv, TypeOK
<1> QED BY <1>1, CountAppend

LEMMA StartsCount ==
  ASSUME TypeInv, NEW r \in Repos, QueryStarts(r), NEW x \in Repos
  PROVE  Turns(x)
<1>0. /\ queries \in [Repos -> SUBSET Query] /\ IsFiniteSet(queries[x])
      /\ Cardinality(queries[x]) \in Nat /\ Count(actions, x) \in Nat
  BY InFlightIs DEF TypeInv, TypeOK
<1>1. PICK q, s : q \in queries[r] /\ queries' = [queries EXCEPT ![r] = (@ \ {q}) \cup {s}]
  BY DEF QueryStarts
<1>2. actions' = actions /\ forced' = forced /\ pending' = pending
  BY DEF QueryStarts, bookVars
<1>3. Cardinality(queries'[x]) <= Cardinality(queries[x]) /\ Cardinality(queries'[x]) \in Nat
  <2>1. CASE x = r
    <3>1. queries'[x] = (queries[x] \ {q}) \cup {s} /\ q \in queries[x]
      BY <1>0, <1>1, <2>1
    <3>2. IsFiniteSet(queries[x] \ {q}) /\ Cardinality(queries[x] \ {q}) = Cardinality(queries[x]) - 1
      BY <1>0, <3>1, FS_RemoveElement
    <3>3. /\ IsFiniteSet((queries[x] \ {q}) \cup {s})
          /\ Cardinality((queries[x] \ {q}) \cup {s})
               = IF s \in queries[x] \ {q} THEN Cardinality(queries[x] \ {q})
                 ELSE Cardinality(queries[x] \ {q}) + 1
      BY <3>2, FS_AddElement
    <3>4. Cardinality((queries[x] \ {q}) \cup {s}) \in Nat
      BY <3>3, FS_CardinalityType
    <3> QED BY <1>0, <3>1, <3>2, <3>3, <3>4
  <2>2. CASE x # r
    BY <1>0, <1>1, <2>2
  <2> QED BY <2>1, <2>2
<1> QED BY <1>0, <1>2, <1>3 DEF Turns

LEMMA FinishesCount ==
  ASSUME TypeInv, NEW r \in Repos, QueryFinishes(r), NEW x \in Repos
  PROVE  Turns(x)
<1>0. /\ queries \in [Repos -> SUBSET Query] /\ IsFiniteSet(queries[x])
      /\ Cardinality(queries[x]) \in Nat /\ Count(actions, x) \in Nat
      /\ actions \in Seq(Action)
  BY InFlightIs DEF TypeInv, TypeOK
<1>1. PICK q \in queries[r] : /\ queries' = [queries EXCEPT ![r] = @ \ {q}]
                              /\ QuerySucceeds(r, q) \/ QueryFails(r, q)
  BY DEF QueryFinishes
<1>2. forced' = forced /\ pending' = pending
  BY DEF QueryFinishes, bookVars, histVars
<1>3. q \in Query
  BY <1>0
<1>4. Count(actions', x) = Count(actions, x) + One(x = r)
  <2>1. CASE QuerySucceeds(r, q)
    <3> DEFINE m == [op |-> "RepoStatusUpdated", id |-> r, status |-> q.read]
    <3>1. m \in Action /\ (IsResult(m, x) <=> x = r)
      BY <1>3, ActionTypes DEF IsResult, Query
    <3>2. actions' = Append(actions, m)
      BY <2>1 DEF QuerySucceeds
    <3> HIDE DEF m
    <3>3. Count(actions', x) = Count(actions, x) + One(IsResult(m, x))
      BY <3>1, <3>2, PostCount
    <3> QED BY <3>1, <3>3 DEF One
  <2>2. CASE QueryFails(r, q)
    <3> DEFINE m == For("StatusQueryDone", r)
               gone == IF q.kind = "local" /\ r \notin exists
                       THEN <<Bare("DiscoverNewRepos")>> ELSE <<>>
    <3>1. m \in Action /\ (IsResult(m, x) <=> x = r)
      BY ActionTypes DEF IsResult, For, RepoOps
    <3>2. gone \in Seq(Action) /\ \A i \in DOMAIN gone : ~IsResult(gone[i], x)
      <4>1. Bare("DiscoverNewRepos") \in Action /\ ~IsResult(Bare("DiscoverNewRepos"), x)
        BY DEF Bare, Action, BareOps, IsResult
      <4> QED BY <4>1
    <3>3. actions' = Append(actions, m) \o gone
      BY <2>2 DEF QueryFails
    <3> HIDE DEF m, gone
    <3>4. /\ Append(actions, m) \in Seq(Action)
          /\ Count(Append(actions, m), x) = Count(actions, x) + One(IsResult(m, x))
      BY <1>0, <3>1, CountAppend, AppendProperties
    <3>5. Count(Append(actions, m) \o gone, x) = Count(Append(actions, m), x)
      BY <3>2, <3>4, CountConcat
    <3> QED BY <3>1, <3>3, <3>4, <3>5 DEF One
  <2> QED BY <1>1, <2>1, <2>2
<1>5. Cardinality(queries'[x]) = Cardinality(queries[x]) - One(x = r)
  <2>1. CASE x = r
    <3>1. queries'[x] = queries[x] \ {q} /\ q \in queries[x]
      BY <1>0, <1>1, <2>1
    <3>2. Cardinality(queries[x] \ {q}) = Cardinality(queries[x]) - 1
      BY <1>0, <3>1, FS_RemoveElement
    <3> QED BY <2>1, <3>1, <3>2 DEF One
  <2>2. CASE x # r
    BY <1>0, <1>1, <2>2 DEF One
  <2> QED BY <2>1, <2>2
<1>6. One(x = r) \in Nat
  BY DEF One
<1> QED BY <1>0, <1>2, <1>4, <1>5, <1>6 DEF Turns

LEMMA OutsideCount ==
  ASSUME TypeInv, Outside, NEW x \in Repos
  PROVE  Turns(x)
<1>0. Cardinality(queries[x]) \in Nat /\ Count(actions, x) \in Nat
  BY InFlightIs
<1>1. CASE Environment \/ Tick \/ DrainDone \/ \E r \in Repos : RepoChanged(r)
  <2>1. UNCHANGED <<queries, forced, pending>>
    BY <1>1 DEF Environment, Edit, CloneOrDelete, LocalTimer, FetchTimer, RootChanged,
                UserCommand, PowerChanged, Tick, DrainDone, RepoChanged, taskVars, bookVars,
                histVars
  <2>2. \/ actions' = actions
        \/ \E op \in BareOps : actions' = Append(actions, Bare(op))
        \/ \E op \in UserOps \cap RepoOps, r \in Repos : actions' = Append(actions, For(op, r))
    BY <1>1, CommandsAssumption
       DEF Environment, Edit, CloneOrDelete, LocalTimer, FetchTimer, RootChanged,
           UserCommand, PowerChanged, Tick, DrainDone, RepoChanged, Post, BareOps, RepoOps,
           UserOps, TypeInv, TypeOK
  <2>3. /\ \A op \in BareOps : Bare(op) \in Action /\ ~IsResult(Bare(op), x)
        /\ \A op \in UserOps \cap RepoOps, r \in Repos :
             For(op, r) \in Action /\ ~IsResult(For(op, r), x)
    BY DEF Bare, For, Action, IsResult, BareOps, UserOps
  <2>4. Count(actions', x) = Count(actions, x)
    <3>1. ASSUME NEW m \in Action, ~IsResult(m, x), actions' = Append(actions, m)
          PROVE  Count(actions', x) = Count(actions, x)
      BY <1>0, <3>1, PostCount DEF One
    <3> QED BY <2>2, <2>3, <3>1
  <2> QED BY <1>0, <2>1, <2>4 DEF Turns
<1>2. CASE Background
  <2> PICK r \in Repos : \/ CooldownElapses(r) \/ TimerFires(r)
                         \/ QueryStarts(r) \/ QueryFinishes(r) \/ GitOpEnds(r)
    BY <1>2 DEF Background
  <2>1. CASE CooldownElapses(r)
    BY <1>0, <2>1 DEF CooldownElapses, taskVars, histVars, Turns
  <2>2. CASE TimerFires(r) \/ GitOpEnds(r)
    <3>1. PICK op \in {"RefreshRepoAfterCooldown", "GitOpComplete", "RefreshRepo"} :
            actions' = Append(actions, For(op, r))
      BY <2>2 DEF TimerFires, GitOpEnds
    <3>2. For(op, r) \in Action /\ ~IsResult(For(op, r), x)
      BY ActionTypes DEF RepoOps, For, IsResult
    <3>3. Count(actions', x) = Count(actions, x) + 0
      BY <3>1, <3>2, PostCount DEF One
    <3>4. UNCHANGED <<queries, forced, pending>>
      BY <2>2 DEF TimerFires, GitOpEnds, bookVars, histVars
    <3> QED BY <1>0, <3>3, <3>4 DEF Turns
  <2> QED BY <2>1, <2>2, StartsCount, FinishesCount
<1> QED BY <1>1, <1>2 DEF Outside

LEMMA OneQueryInit == Init => OneQueryUnlessForced
<1> SUFFICES ASSUME Init, NEW x \in Repos PROVE InFlight(x) <= Budget(x)
  BY DEF OneQueryUnlessForced, Budget, One
<1>1. TypeInv
  BY TypeInit
<1>2. actions = <<Bare("PollLocal")>> /\ queries[x] = {} /\ forced[x] = 0 /\ pending = {}
  BY DEF Init
<1>3. ResultsOf(actions, x) = {}
  BY <1>2 DEF ResultsOf, IsResult, Bare
<1>4. Cardinality(queries[x]) = 0 /\ Count(actions, x) = 0
  BY <1>2, <1>3, FS_EmptySet DEF Count
<1>5. InFlight(x) = 0
  BY <1>1, <1>4, InFlightIs
<1> QED BY <1>2, <1>5 DEF Budget, One

LEMMA OneQueryNext == TypeInv /\ OneQueryUnlessForced /\ [Next]_vars => OneQueryUnlessForced'
<1> SUFFICES ASSUME TypeInv, OneQueryUnlessForced, [Next]_vars, NEW x \in Repos
             PROVE  (InFlight(x) <= Budget(x))'
  BY DEF OneQueryUnlessForced, Budget, One
<1>0. TypeInv'
  BY TypeNext
<1>1. /\ InFlight(x) = Cardinality(queries[x]) + Count(actions, x)
      /\ Cardinality(queries[x]) \in Nat /\ Count(actions, x) \in Nat /\ forced[x] \in Nat
      /\ InFlight(x) <= Budget(x)
  BY InFlightIs DEF OneQueryUnlessForced, Budget, One
<1>2. /\ InFlight(x)' = Cardinality(queries'[x]) + Count(actions', x)
      /\ Cardinality(queries'[x]) \in Nat /\ Count(actions', x) \in Nat /\ forced'[x] \in Nat
  BY <1>0, InFlightNext
<1>3. Budget(x) \in Nat /\ Budget(x)' \in Nat
  BY <1>1, <1>2 DEF Budget, One
<1>4. CASE HandleAction
  <2>1. actions # <<>> /\ Spends(x)
    BY <1>0, <1>4, HandlerCount
  <2>2. actions \in Seq(Action) /\ Tail(actions) \in Seq(Action)
    BY <2>1, HeadType DEF TypeInv, TypeOK
  <2>3. Count(actions, x) = Count(Tail(actions), x) + One(IsResult(Head(actions), x))
    BY <2>1, <2>2, CountTail
  <2>4. Count(Tail(actions), x) \in Nat /\ One(IsResult(Head(actions), x)) \in Nat
    BY <2>2, CountType DEF One
  <2> QED BY <1>1, <1>2, <1>3, <2>1, <2>3, <2>4 DEF Spends
<1>5. CASE Outside
  <2>1. Turns(x)
    BY <1>5, OutsideCount
  <2>2. Budget(x)' = Budget(x)
    BY <2>1 DEF Turns, Budget
  <2> QED BY <1>1, <1>2, <1>3, <2>1, <2>2 DEF Turns
<1>6. CASE UNCHANGED vars
  <2>1. UNCHANGED <<queries, actions, forced, pending>>
    BY <1>6 DEF vars, taskVars, histVars, bookVars
  <2> QED BY <1>1, <1>2, <1>3, <2>1 DEF Budget
<1> QED BY <1>4, <1>5, <1>6 DEF Next, Outside

(* However polls, watcher refreshes, timers and completions interleave, no *)
(* two queries of one repository are under way, but for one more with each *)
(* refresh of everything, rescan or removal.                               *)
THEOREM QueriesNeverOverlap == Spec => []OneQueryUnlessForced
<1>1. Init => TypeInv /\ OneQueryUnlessForced
  BY TypeInit, OneQueryInit
<1>2. TypeInv /\ OneQueryUnlessForced /\ [Next]_vars => (TypeInv /\ OneQueryUnlessForced)'
  BY TypeNext, OneQueryNext
<1> QED BY <1>1, <1>2, PTL DEF Spec
=============================================================================
