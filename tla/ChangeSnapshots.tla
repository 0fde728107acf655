-------------------------- MODULE ChangeSnapshots ---------------------------
(***************************************************************************)
(* The bridge's store of change listings (src/bridge/changes/mod.rs and    *)
(* search.rs): a view begins a listing of a repository, then asks for its  *)
(* pages, for one change, for matches.  One listing is kept per repository *)
(* and shared by all views; a new one replaces it, idle ones expire, and   *)
(* the store refuses to outgrow its memory limit.                          *)
(*                                                                         *)
(* Abstractions.  A change is its key, and a listing the keys in the       *)
(* collector's order; sizes are small numbers; a repository's identity is a*)
(* version.  Time is counted in sweep intervals.  Collecting a listing     *)
(* reads the identity before and after it.                                 *)
(***************************************************************************)
EXTENDS Naturals, Sequences, FiniteSets, SequencesExt, FiniteSetsExt, Panels

CONSTANTS
  SnapRepos,     \* repositories of the workspace
  Views,         \* clients that page through listings
  Size,          \* size of each change; its domain is 1..n, in order
  Listings0,     \* listings a repository may have
  MaxPageBytes, MaxPageItems, MaxCacheBytes,
  Tables,        \* entries a table may have room for
  SparseTable,   \* a table this small is never compacted
  Expiry,        \* sweep intervals until an idle listing expires
  MaxTime,       \* bound: sweep intervals
  MaxReplaced,   \* bound: repositories replaced on disk
  MaxListings    \* bound: listings begun

Changes == DOMAIN Size

ASSUME SnapAssumption ==
  /\ IsFiniteSet(SnapRepos) /\ None \notin SnapRepos
  /\ Size \in Seq(Nat) /\ Listings0 \subseteq Seq(Changes)
  /\ \A list \in Listings0 : \A i, j \in DOMAIN list : i < j => list[i] < list[j]   \* collected in order
  /\ {MaxPageBytes, MaxPageItems, MaxCacheBytes, SparseTable, Expiry, MaxTime, MaxReplaced, MaxListings}
       \subseteq Nat
  /\ Tables \subseteq Nat /\ 0 \in Tables /\ \A n \in 0..Cardinality(SnapRepos) : \E c \in Tables : c >= n
  /\ None \notin Nat /\ None \notin [id : Nat, identity : Nat, records : Listings0, bytes : Nat, touched : Nat]

VARIABLES
  identity,   \* RepositoryIdentity of each repository, as a version
  entries,    \* Snapshots::entries
  capacity,   \* of that table
  bytes,      \* Snapshots::bytes
  sequence, swept, now,
  views,      \* what each view asked and was answered
  begun       \* listing of every id handed out

snapVars == <<identity, entries, capacity, bytes, sequence, swept, now, views, begun>>

-----------------------------------------------------------------------------
(* Sizes and pages.                                                        *)

TooLarge(list) == \E i \in DOMAIN list : Size[list[i]] + 1 > MaxPageBytes

SumOfSizes(list) ==
  LET sum[n \in 0..Len(list)] == IF n = 0 THEN 0 ELSE sum[n - 1] + Size[list[n]] IN sum[Len(list)]

\* page_boundaries: indices (from 0) at which a page starts.
NoPage == [starts |-> {0}, bytes |-> 0, items |-> 0]
WithItem(page, n, size) ==
  IF page.items > 0 /\ (page.items >= MaxPageItems \/ page.bytes + size > MaxPageBytes)
  THEN [starts |-> page.starts \cup {n - 1}, bytes |-> size, items |-> 1]
  ELSE [starts |-> page.starts, bytes |-> page.bytes + size, items |-> page.items + 1]

PageStarts == [list \in Listings0 |->
  LET page[n \in 0..Len(list)] == IF n = 0 THEN NoPage ELSE WithItem(page[n - 1], n, Size[list[n]] + 1)
  IN page[Len(list)].starts]

\* snapshot_size: one for the entry itself.
SnapshotBytes(list) == 1 + SumOfSizes(list)

\* HashMap: entries it can hold before it grows; what it is charged is that.
TableFor(n) == CHOOSE c \in Tables : c >= n /\ \A d \in Tables : d >= n => c <= d

Held(e) == {r \in SnapRepos : e[r] # None}
Total(e) == MapThenSumSet(LAMBDA r : e[r].bytes, Held(e))
Compacted(e, c) == IF c > Max({Cardinality(Held(e)) * 4, SparseTable}) THEN TableFor(Cardinality(Held(e))) ELSE c

-----------------------------------------------------------------------------
(* The store: operators on [entries, capacity, bytes, swept].              *)

Store == [entries |-> entries, capacity |-> capacity, bytes |-> bytes, swept |-> swept]

Expired(s) == now - s.touched >= Expiry

Expire(st, force) ==
  IF ~force /\ st.swept # None /\ now - st.swept < 1 THEN st
  ELSE LET left == [r \in SnapRepos |-> IF st.entries[r] # None THEN
                                          IF Expired(st.entries[r]) THEN None ELSE st.entries[r]
                                        ELSE None]
       IN [entries |-> left, capacity |-> Compacted(left, st.capacity), bytes |-> Total(left), swept |-> now]

Dropped(st, r) ==
  LET left == [st.entries EXCEPT ![r] = None] IN
  [st EXCEPT !.entries = left, !.bytes = @ - st.entries[r].bytes, !.capacity = Compacted(left, @)]

\* Some other listing's id is accepted.
MutantIsCurrent(st, r, id) ==
  /\ st.entries[r] # None
  /\ LET s == st.entries[r] IN ~Expired(s) /\ s.identity = identity[r]

\* Snapshots::current
IsCurrent(st, r, id) ==
  /\ st.entries[r] # None
  /\ LET s == st.entries[r] IN ~Expired(s) /\ s.id = id /\ s.identity = identity[r]

\* ... which drops the listing it finds expired.
AfterCurrent(st, r) ==
  IF st.entries[r] = None THEN st ELSE IF Expired(st.entries[r]) THEN Dropped(st, r) ELSE st

Touched(st, r) == [st EXCEPT !.entries[r].touched = now]

\* growth_table and fits_table
Grown(st, r) ==
  LET n == Cardinality(Held(st.entries)) IN
  IF st.entries[r] # None \/ n < st.capacity THEN st.capacity ELSE TableFor(n + 1)

\* The table is not charged.
MutantFits(st, r, size) ==
  st.bytes - (IF st.entries[r] = None THEN 0 ELSE st.entries[r].bytes) + size <= MaxCacheBytes

Fits(st, r, size) ==
  st.bytes - (IF st.entries[r] = None THEN 0 ELSE st.entries[r].bytes) + size + Grown(st, r)
    <= MaxCacheBytes

Insert(st, r, s) ==
  [st EXCEPT !.capacity = Grown(st, r), !.entries[r] = s,
             !.bytes = @ - (IF st.entries[r] = None THEN 0 ELSE st.entries[r].bytes) + s.bytes]

Becomes(st) ==
  /\ entries' = st.entries /\ capacity' = st.capacity /\ bytes' = st.bytes /\ swept' = st.swept

-----------------------------------------------------------------------------
(* What a view is answered.                                                *)

NoListing == [repo |-> None, id |-> 0, got |-> <<>>, next |-> None]

\* page_by_id: the changes from one start to the next.
NextStart(s, cursor) == {n \in PageStarts[s.records] : n > cursor}
PageOf(s, cursor) ==
  SubSeq(s.records, cursor + 1, IF NextStart(s, cursor) = {} THEN Len(s.records) ELSE Min(NextStart(s, cursor)))

Answered(v, r, id, s, cursor) ==
  views' = [views EXCEPT ![v] =
    [repo |-> r, id |-> id,
     got  |-> (IF cursor = 0 THEN <<>> ELSE @.got) \o PageOf(s, cursor),
     next |-> IF NextStart(s, cursor) = {} THEN None ELSE Min(NextStart(s, cursor))]]

Refused(v) == views' = [views EXCEPT ![v] = NoListing]

SnapInit ==
  /\ identity = [r \in SnapRepos |-> 0] /\ entries = [r \in SnapRepos |-> None]
  /\ capacity = 0 /\ bytes = 0 /\ sequence = 0 /\ swept = None /\ now = 0
  /\ views = [v \in Views |-> NoListing] /\ begun = <<>>

\* Snapshots::begin; a repository replaced while it is listed is refused.
Begin(v, r, list, replaced) ==
  /\ sequence < MaxListings
  /\ identity' = IF replaced THEN [identity EXCEPT ![r] = @ + 1] ELSE identity
  /\ replaced => identity[r] < MaxReplaced
  /\ LET st == Expire(Store, FALSE)
         s == [id |-> sequence + 1, identity |-> identity[r], records |-> list,
               bytes |-> SnapshotBytes(list), touched |-> now]
         again == Expire(st, TRUE)
         room == IF Fits(st, r, s.bytes) THEN st ELSE again IN
     IF replaced \/ TooLarge(list) \/ s.bytes > MaxCacheBytes
     THEN Becomes(st) /\ Refused(v) /\ UNCHANGED <<sequence, begun>>
     ELSE IF ~Fits(room, r, s.bytes)
     THEN Becomes(room) /\ Refused(v) /\ UNCHANGED <<sequence, begun>>
     ELSE /\ Becomes(Insert(room, r, s)) /\ sequence' = sequence + 1
          /\ begun' = Append(begun, list) /\ Answered(v, r, s.id, s, 0)
  /\ UNCHANGED now

\* changes_next
NextPage(v) ==
  /\ views[v].next # None
  /\ LET r == views[v].repo
         st == Expire(Store, FALSE) IN
     IF IsCurrent(st, r, views[v].id)
     THEN IF views[v].next \in PageStarts[st.entries[r].records]
          THEN Becomes(Touched(st, r)) /\ Answered(v, r, views[v].id, st.entries[r], views[v].next)
          ELSE Becomes(st) /\ Refused(v)
     ELSE Becomes(AfterCurrent(st, r)) /\ Refused(v)
  /\ UNCHANGED <<identity, sequence, now, begun>>

\* changes_find and changes_search keep the listing alive.
Lookup(v) ==
  /\ views[v].repo # None
  /\ LET r == views[v].repo
         st == Expire(Store, FALSE) IN
     IF IsCurrent(st, r, views[v].id)
     THEN Becomes(Touched(st, r)) /\ UNCHANGED views
     ELSE Becomes(AfterCurrent(st, r)) /\ Refused(v)
  /\ UNCHANGED <<identity, sequence, now, begun>>

\* changes_release
ReleaseListing(v) ==
  /\ views[v].repo # None /\ Refused(v)
  /\ LET r == views[v].repo
         st == Expire(Store, FALSE) IN
     Becomes(IF IsCurrent(st, r, views[v].id) THEN Dropped(st, r) ELSE AfterCurrent(st, r))
  /\ UNCHANGED <<identity, sequence, now, begun>>

\* The ids start again.
MutantInitialize ==
  /\ Held(entries) # {}
  /\ entries' = [r \in SnapRepos |-> None] /\ capacity' = 0 /\ bytes' = 0 /\ swept' = None
  /\ sequence' = 0
  /\ UNCHANGED <<identity, now, views, begun>>

\* Another initialize: Snapshots::clear (the sequence goes on).
Initialize ==
  /\ Held(entries) # {}
  /\ entries' = [r \in SnapRepos |-> None] /\ capacity' = 0 /\ bytes' = 0 /\ swept' = None
  /\ UNCHANGED <<identity, sequence, now, views, begun>>

Tick == now < MaxTime /\ now' = now + 1
        /\ UNCHANGED <<identity, entries, capacity, bytes, sequence, swept, views, begun>>

Replace(r) ==
  /\ identity[r] < MaxReplaced /\ identity' = [identity EXCEPT ![r] = @ + 1]
  /\ UNCHANGED <<entries, capacity, bytes, sequence, swept, now, views, begun>>

SnapNext ==
  \/ \E v \in Views, r \in SnapRepos, list \in Listings0, replaced \in BOOLEAN : Begin(v, r, list, replaced)
  \/ \E v \in Views : NextPage(v) \/ Lookup(v) \/ ReleaseListing(v)
  \/ Initialize \/ Tick \/ \E r \in SnapRepos : Replace(r)

SnapSpec == SnapInit /\ [][SnapNext]_snapVars

-----------------------------------------------------------------------------
(* snapshots.find and .search over one listing, as the code computes them. *)

\* The binary search: the index (from 1) of a change, None when absent.
Find(list, c) ==
  LET f[w \in (0..Len(list)) \X (0..Len(list))] ==
        LET lower == w[1]
            upper == w[2]
            middle == lower + (upper - lower) \div 2 IN
        IF lower >= upper THEN None
        ELSE IF list[middle + 1] < c THEN f[<<middle + 1, upper>>]
        ELSE IF list[middle + 1] > c THEN f[<<lower, middle>>]
        ELSE middle + 1
  IN f[<<0, Len(list)>>]

\* The matches' positions, the step to the next one and its page.
MatchesOf(list, S) ==
  LET found[n \in 0..Len(list)] ==
        IF n = 0 THEN <<>> ELSE IF list[n] \in S THEN Append(found[n - 1], n) ELSE found[n - 1]
  IN found[Len(list)]

StepTo(count, direction, position) ==
  IF count = 0 THEN None
  ELSE CASE direction = "first" -> 0
         [] direction = "next" -> IF position = None THEN 0 ELSE (position + 1) % count
         [] direction = "previous" -> IF position \in {None, 0} THEN count - 1 ELSE position - 1

PageHolding(list, i) == Max({n \in PageStarts[list] : n < i})

\* A change is found exactly when it is listed; going forth and back among
\* the matches returns, and each is on the page that is said to hold it.
LookupsAgree == [list \in Listings0 |->
  /\ \A c \in Changes :
       Find(list, c) = IF c \in Range(list) THEN CHOOSE i \in DOMAIN list : list[i] = c ELSE None
  /\ \A S \in SUBSET Changes :
       LET m == MatchesOf(list, S) IN
       \A p \in 0..Len(m) - 1 :
         /\ StepTo(Len(m), "previous", StepTo(Len(m), "next", p)) = p
         /\ list[m[p + 1]] \in Range(PageOf([records |-> list], PageHolding(list, m[p + 1])))]

-----------------------------------------------------------------------------
SnapTypeOK ==
  /\ identity \in [SnapRepos -> 0..MaxReplaced]
  /\ \A r \in Held(entries) :
       /\ entries[r].id \in 1..sequence /\ entries[r].identity \in 0..MaxReplaced
       /\ entries[r].records \in Seq(Changes) /\ entries[r].touched \in 0..now
  /\ capacity \in Tables /\ bytes \in 0..MaxCacheBytes
  /\ sequence \in 0..MaxListings /\ Len(begun) = sequence
  /\ swept \in 0..now \cup {None} /\ now \in 0..MaxTime
  /\ \A v \in Views : views[v].id \in 0..sequence

\* What a view was answered comes from the one listing it began or follows,
\* and from nothing that another view, an expiry or a replaced repository
\* put in its place: the pages are that listing from its start, whole when
\* there is no next page; finding and searching agree with it.
PagesAreOneListing ==
  \A v \in Views : views[v].repo # None =>
    LET list == begun[views[v].id] IN
    /\ IsPrefix(views[v].got, list)
    /\ views[v].next = None => views[v].got = list
    /\ views[v].next # None => views[v].next = Len(views[v].got)
    /\ LookupsAgree[list]

\* The store's byte count is what it holds, so that it neither outgrows its
\* limit nor refuses for ever: with the table it fits the limit.
StoreIsBounded ==
  /\ bytes = Total(entries)
  /\ bytes + capacity <= MaxCacheBytes

\* Pages belong together and what the server keeps for them is bounded
\* (src/bridge/changes/mod.rs).
SnapshotsHold == PagesAreOneListing /\ StoreIsBounded
=============================================================================
