-------------------------- MODULE BridgeReadsProofs ---------------------------
(***************************************************************************)
(* Proofs about what the bridge reads for the extension.                   *)
(*                                                                         *)
(* What a content request answers was true together (ContentReads), for    *)
(* any commits, settings and files, any requests and any number of writes  *)
(* by other programs between the reads.  The disk only moves forward, so a *)
(* value found at two instants was there between them.  The proof follows  *)
(* a pass step by step: what it holds at an instant was true since an      *)
(* earlier one, or shows itself at the recheck; and then a request through *)
(* its passes.                                                             *)
(*                                                                         *)
(* The pages, lookups and sizes of the change listings (ChangeSnapshots)   *)
(* belong to one listing each and stay within the limit, for any           *)
(* repositories, views and listings, and any number of requests, expiries  *)
(* and replaced repositories.                                              *)
(***************************************************************************)
EXTENDS ContentReads, ChangeSnapshots, SequenceTheorems, FiniteSetTheorems, WellFoundedInduction, TLAPS

-----------------------------------------------------------------------------
(* The disk moves one way: HEAD through the commits, the index through      *)
(* what is staged, lost objects and settings only grow.                     *)
Rank(h) == IF h = None THEN 0 ELSE CHOOSE i \in DOMAIN Commits : Commits[i] = h
Pos(o) == CHOOSE i \in DOMAIN Staged : Staged[i] = o
Disk == [head : {None} \cup Range(Commits), index : [Paths -> {None} \cup Range(Staged)],
         lost : SUBSET Losable, used : 0..Len(Staged), config : Nat, replacements : Nat, place : Nat]
DiskOK(d) == d \in Disk /\ \A p \in Paths : d.index[p] # None => Pos(d.index[p]) <= d.used

(* e may follow d: an entry that is in e and was not in d was staged since. *)
Then(d, e) ==
  /\ Rank(d.head) <= Rank(e.head) /\ d.lost \subseteq e.lost /\ d.used <= e.used
  /\ d.config <= e.config /\ d.replacements <= e.replacements /\ d.place <= e.place
  /\ \A p \in Paths : e.index[p] # None => e.index[p] = d.index[p] \/ Pos(e.index[p]) > d.used

(* Commits and Staged as functions, of which None is no element.           *)
LEMMA Seqs ==
  /\ Len(Commits) \in Nat /\ DOMAIN Commits = 1..Len(Commits)
  /\ Len(Staged) \in Nat /\ DOMAIN Staged = 1..Len(Staged)
  /\ \A i \in DOMAIN Commits : Commits[i] \in Range(Commits) /\ Commits[i] # None
  /\ \A i \in DOMAIN Staged : Staged[i] \in Range(Staged) /\ Staged[i] # None
BY LenProperties, ReadAssumption DEF Range

(* A commit has one rank; None, an unborn HEAD, comes before all.          *)
LEMMA RankIs ==
  /\ \A i \in DOMAIN Commits : Rank(Commits[i]) = i
  /\ \A h \in {None} \cup Range(Commits) : Rank(h) \in Nat /\ (Rank(h) = 0 <=> h = None)
  /\ \A h, g \in {None} \cup Range(Commits) : Rank(h) = Rank(g) => h = g
<1>1. \A i \in DOMAIN Commits : Rank(Commits[i]) = i
  BY ReadAssumption, Seqs DEF Rank
<1>2. \A h \in Range(Commits) : \E i \in DOMAIN Commits : h = Commits[i]
  BY DEF Range
<1>3. Rank(None) = 0
  BY DEF Rank
<1> QED BY <1>1, <1>2, <1>3, Seqs

(* What can be staged has one position.                                    *)
LEMMA PosIs ==
  /\ \A i \in DOMAIN Staged : Pos(Staged[i]) = i
  /\ \A o \in Range(Staged) : Pos(o) \in Nat
<1>1. \A i \in DOMAIN Staged : Pos(Staged[i]) = i
  BY ReadAssumption, Seqs DEF Pos
<1> QED BY <1>1, Seqs DEF Range

(* The fields of a disk.                                                   *)
LEMMA DiskFields ==
  ASSUME NEW d, DiskOK(d)
  PROVE  /\ d.head \in {None} \cup Range(Commits) /\ Rank(d.head) \in Nat
         /\ d.used \in Nat /\ d.config \in Nat /\ d.replacements \in Nat /\ d.place \in Nat
         /\ \A p \in Paths : d.index[p] # None => Pos(d.index[p]) \in Nat /\ Pos(d.index[p]) <= d.used
<1>1. d \in Disk /\ \A p \in Paths : d.index[p] # None => Pos(d.index[p]) <= d.used
  BY DEF DiskOK
<1>2. d.used \in Nat
  BY <1>1, Seqs DEF Disk
<1>3. \A p \in Paths : d.index[p] # None => d.index[p] \in Range(Staged)
  BY <1>1 DEF Disk
<1> QED BY <1>1, <1>2, <1>3, RankIs, PosIs DEF Disk

(* A disk may follow itself.                                               *)
LEMMA ThenSame == ASSUME NEW d, DiskOK(d) PROVE Then(d, d)
BY DiskFields DEF Then

(* What follows what follows d follows d.                                  *)
LEMMA ThenAll ==
  ASSUME NEW d, NEW e, NEW f, DiskOK(d), DiskOK(e), DiskOK(f), Then(d, e), Then(e, f)
  PROVE  Then(d, f)
<1>1. \A p \in Paths : f.index[p] # None => f.index[p] = d.index[p] \/ Pos(f.index[p]) > d.used
  <2> TAKE p \in Paths
  <2> HAVE f.index[p] # None
  <2>1. CASE Pos(f.index[p]) > e.used
    BY <2>1, DiskFields DEF Then
  <2>2. CASE f.index[p] = e.index[p]
    BY <2>2 DEF Then
  <2> QED BY <2>1, <2>2 DEF Then
<1> QED BY <1>1, DiskFields DEF Then

(* Whatever another program writes moves the disk forward.                 *)
LEMMA WriteFollows ==
  ASSUME DiskOK(disk), Write
  PROVE  DiskOK(disk') /\ Then(disk, disk')
<1> USE DiskFields
<1>0. disk \in Disk
  BY DEF DiskOK
<1>1. ASSUME NEW i \in DOMAIN Commits,
             IF disk.head = None THEN i = 1 ELSE i > 1 /\ Commits[i - 1] = disk.head,
             disk' = [disk EXCEPT !.head = Commits[i]]
      PROVE  DiskOK(disk') /\ Then(disk, disk')
  <2>1. Rank(disk.head) <= i /\ Rank(Commits[i]) = i
    <3>1. CASE disk.head = None
      BY <3>1, <1>1, RankIs, Seqs
    <3>2. CASE disk.head # None
      <4>1. i \in Nat /\ i > 1 /\ i - 1 \in DOMAIN Commits /\ Commits[i - 1] = disk.head
        BY <3>2, <1>1, Seqs
      <4> QED BY <4>1, RankIs
    <3> QED BY <3>1, <3>2
  <2>2. PICK h : h = Commits[i]
    OBVIOUS
  <2>3. h \in Range(Commits)
    BY <2>2, Seqs
  <2>4. disk' \in Disk /\ disk'.head = h /\ disk'.index = disk.index /\ disk'.lost = disk.lost
        /\ disk'.used = disk.used /\ disk'.config = disk.config /\ disk'.replacements = disk.replacements
        /\ disk'.place = disk.place
    BY <1>0, <1>1, <2>2, <2>3 DEF Disk
  <2> QED BY <2>1, <2>2, <2>4 DEF DiskOK, Then
<1>2. ASSUME NEW p \in Paths, disk.used < Len(Staged),
             disk' = [disk EXCEPT !.index[p] = Staged[disk.used + 1], !.used = @ + 1]
      PROVE  DiskOK(disk') /\ Then(disk, disk')
  <2>1. disk.used + 1 \in DOMAIN Staged
    BY <1>2, Seqs
  <2>2. PICK o : o = Staged[disk.used + 1]
    OBVIOUS
  <2>3. o \in Range(Staged) /\ Pos(o) = disk.used + 1 /\ o # None
    BY <2>1, <2>2, Seqs, PosIs
  <2>4. PICK ix : ix = [disk.index EXCEPT ![p] = o]
    OBVIOUS
  <2>5. ix \in [Paths -> {None} \cup Range(Staged)] /\ ix[p] = o /\ \A q \in Paths : q # p => ix[q] = disk.index[q]
    BY <2>3, <2>4, <1>0 DEF Disk
  <2>9. PICK n : n = disk.used + 1
    OBVIOUS
  <2>10. n \in 0..Len(Staged)
    BY <2>9, <2>1, Seqs
  <2>6. disk' = [disk EXCEPT !.index = ix, !.used = n]
    BY <1>2, <2>2, <2>4, <2>9
  <2>7. disk' \in Disk /\ disk'.head = disk.head /\ disk'.index = ix /\ disk'.lost = disk.lost
        /\ disk'.used = n /\ disk'.config = disk.config /\ disk'.replacements = disk.replacements
        /\ disk'.place = disk.place
    BY <1>0, <2>10, <2>5, <2>6 DEF Disk
  <2>8. \A q \in Paths : ix[q] # None => Pos(ix[q]) <= disk.used + 1 /\ (ix[q] = disk.index[q] \/ Pos(ix[q]) > disk.used)
    BY <2>3, <2>5
  <2> QED BY <2>7, <2>8, <2>9 DEF DiskOK, Then
<1>3. ASSUME NEW p \in Paths, disk' = [disk EXCEPT !.index[p] = None]
      PROVE  DiskOK(disk') /\ Then(disk, disk')
  <2>4. PICK ix : ix = [disk.index EXCEPT ![p] = None]
    OBVIOUS
  <2>5. ix \in [Paths -> {None} \cup Range(Staged)] /\ ix[p] = None /\ \A q \in Paths : q # p => ix[q] = disk.index[q]
    BY <2>4, <1>0 DEF Disk
  <2>6. disk' = [disk EXCEPT !.index = ix]
    BY <1>3, <2>4
  <2>7. disk' \in Disk /\ disk'.head = disk.head /\ disk'.index = ix /\ disk'.lost = disk.lost
        /\ disk'.used = disk.used /\ disk'.config = disk.config /\ disk'.replacements = disk.replacements
        /\ disk'.place = disk.place
    BY <1>0, <2>5, <2>6 DEF Disk
  <2>8. \A q \in Paths : ix[q] # None => ix[q] = disk.index[q]
    BY <2>5
  <2> QED BY <2>7, <2>8 DEF DiskOK, Then
<1>4. ASSUME NEW o \in Losable, disk' = [disk EXCEPT !.lost = @ \cup {o}]
      PROVE  DiskOK(disk') /\ Then(disk, disk')
  <2>1. PICK l : l = disk.lost \cup {o}
    OBVIOUS
  <2>2. disk' = [disk EXCEPT !.lost = l] /\ l \in SUBSET Losable /\ disk.lost \subseteq l
    BY <2>1, <1>4, <1>0 DEF Disk
  <2>3. disk' \in Disk /\ disk'.head = disk.head /\ disk'.index = disk.index /\ disk'.lost = l
        /\ disk'.used = disk.used /\ disk'.config = disk.config /\ disk'.replacements = disk.replacements
        /\ disk'.place = disk.place
    BY <1>0, <2>2 DEF Disk
  <2> QED BY <2>2, <2>3 DEF DiskOK, Then
<1>5. ASSUME NEW s \in Settings, disk[s] = 0, disk' = [disk EXCEPT ![s] = 1]
      PROVE  DiskOK(disk') /\ Then(disk, disk')
  <2>1. CASE s = "config"
    <3>1. disk' \in Disk /\ disk'.head = disk.head /\ disk'.index = disk.index /\ disk'.lost = disk.lost
          /\ disk'.used = disk.used /\ disk'.config = 1 /\ disk'.replacements = disk.replacements
          /\ disk'.place = disk.place /\ disk.config = 0
      BY <1>0, <1>5, <2>1 DEF Disk
    <3> QED BY <3>1 DEF DiskOK, Then
  <2>2. CASE s = "replacements"
    <3>1. disk' \in Disk /\ disk'.head = disk.head /\ disk'.index = disk.index /\ disk'.lost = disk.lost
          /\ disk'.used = disk.used /\ disk'.config = disk.config /\ disk'.replacements = 1
          /\ disk'.place = disk.place /\ disk.replacements = 0
      BY <1>0, <1>5, <2>2 DEF Disk
    <3> QED BY <3>1 DEF DiskOK, Then
  <2>3. CASE s = "place"
    <3>1. disk' \in Disk /\ disk'.head = disk.head /\ disk'.index = disk.index /\ disk'.lost = disk.lost
          /\ disk'.used = disk.used /\ disk'.config = disk.config /\ disk'.replacements = disk.replacements
          /\ disk'.place = 1 /\ disk.place = 0
      BY <1>0, <1>5, <2>3 DEF Disk
    <3> QED BY <3>1 DEF DiskOK, Then
  <2> QED BY <2>1, <2>2, <2>3, <1>5 DEF Settings
<1> QED BY <1>1, <1>2, <1>3, <1>4, <1>5 DEF Write

-----------------------------------------------------------------------------
(* What a read finds.                                                      *)

(* A value with its fields.                                                *)
Value(r) == r = [oid |-> r.oid, head |-> r.head, as |-> r.as]

(* A result is a value or one of the errors, and never two of them.        *)
LEMMA Results ==
  /\ \A o, c, d : LET r == Found(o, c, d) IN
       IsValue(r) /\ Value(r) /\ r.oid = o /\ r.head = c /\ r.as = d.replacements
  /\ \A code : ~IsValue(Failed(code)) /\ Failed(code).error = code
  /\ ~IsValue(Absent) /\ ~IsValue(Unsupported) /\ ~IsValue(Broken)
  /\ Absent # Unsupported /\ Absent # Broken /\ Unsupported # Broken
  /\ Absent.error # "ok" /\ Unsupported.error # "ok" /\ Broken.error # "ok"
  /\ \A r, code : IsValue(r) => r # Failed(code)
<1>1. \A o, c, d : LET r == Found(o, c, d) IN
       IsValue(r) /\ Value(r) /\ r.oid = o /\ r.head = c /\ r.as = d.replacements
  BY DEF Found, IsValue, Value
<1>2. \A code : ~IsValue(Failed(code)) /\ Failed(code).error = code
  BY DEF Failed, IsValue
<1>3. \A r, code : IsValue(r) => r # Failed(code)
  BY <1>2
<1>4. Absent.error = "content_not_found" /\ Unsupported.error = "unsupported_content" /\ Broken.error = "repository_error"
  BY <1>2 DEF Absent, Unsupported, Broken
<1> QED BY <1>1, <1>2, <1>3, <1>4 DEF Absent, Unsupported, Broken

(* What TruthNow says of an instant at which the repository is there.      *)
LEMMA TruthIs ==
  ASSUME NEW items, NEW w, w.place = 0
  PROVE  LET truth == TruthNow(items, w) IN
         /\ truth # Replaced
         /\ truth.config = w.config /\ truth.replacements = w.replacements
         /\ \A i \in DOMAIN items : truth.results[i] = Truth(items[i], w)
<1>1. TruthNow(items, w) = [config |-> w.config, replacements |-> w.replacements,
                            results |-> [i \in DOMAIN items |-> Truth(items[i], w)]]
  BY DEF TruthNow, Answer
<1>2. DOMAIN TruthNow(items, w) = {"config", "replacements", "results"} /\ DOMAIN Replaced = {"error"}
  BY <1>1 DEF Replaced, Failed
<1>3. "error" \notin {"config", "replacements", "results"} /\ "error" \in {"error"}
  OBVIOUS
<1>4. TruthNow(items, w) # Replaced
  BY <1>2, <1>3
<1> QED BY <1>1, <1>4

(* A value that was found after the instant b, and one found before w.     *)
After(item, r, b) ==
  /\ Value(r) /\ r.oid # None /\ r.oid \notin b.lost /\ Kind[r.oid] \in {"file", "link"}
  /\ item.ref = "index" => /\ r.head = None /\ Pos(r.oid) \in Nat
                           /\ b.index[item.path] = r.oid \/ Pos(r.oid) > b.used
  /\ item.ref = "HEAD" => /\ r.head \in Range(Commits) /\ r.oid = Tree[r.head][item.path]
                          /\ Rank(b.head) <= Rank(r.head)
  /\ Named(item) => /\ r.head = item.ref /\ r.oid = Tree[item.ref][item.path]
                    /\ Kind[item.ref] = "commit" /\ item.ref \notin b.lost

Until(item, r, w) ==
  /\ item.ref = "index" => Pos(r.oid) <= w.used
  /\ item.ref = "HEAD" => Rank(r.head) <= Rank(w.head)

(* A value that is found before w and again after b is there from w to b.  *)
LEMMA Pinned ==
  ASSUME NEW item, item.path \in Paths, NEW r, NEW w, NEW b, DiskOK(w), DiskOK(b), Then(w, b),
         After(item, r, b), Until(item, r, w)
  PROVE  Truth(item, w) = [oid |-> r.oid, head |-> r.head, as |-> w.replacements]
<1>1. r.oid # None /\ r.oid \notin w.lost /\ Kind[r.oid] \in {"file", "link"}
  BY DEF After, Then
<1>2. CASE item.ref = "index"
  <2>1. RefError(item, w.head, w.lost) = None
    BY <1>2 DEF RefError, Named
  <2>2. b.index[item.path] = r.oid
    BY <1>2, DiskFields DEF After, Until, Then
  <2>3. w.index[item.path] = r.oid
    BY <1>2, <1>1, <2>2, DiskFields DEF After, Until, Then
  <2> QED BY <1>1, <1>2, <2>1, <2>3 DEF After, Truth, EntryAt, Described, Found
<1>3. CASE item.ref = "HEAD"
  <2>1. w.head = r.head /\ w.head # None
    <3>1. r.head \in Range(Commits) /\ Rank(b.head) <= Rank(r.head) /\ Rank(r.head) <= Rank(w.head)
      BY <1>3 DEF After, Until
    <3>2. Rank(w.head) <= Rank(b.head)
      BY DEF Then
    <3>3. w.head \in {None} \cup Range(Commits) /\ Rank(w.head) \in Nat
      BY DiskFields
    <3>4. Rank(b.head) \in Nat
      BY DiskFields
    <3>5. Rank(r.head) \in Nat
      BY <3>1, RankIs
    <3>6. Rank(w.head) = Rank(r.head)
      BY <3>1, <3>2, <3>3, <3>4, <3>5
    <3>7. w.head = r.head
      BY <3>1, <3>3, <3>6, RankIs
    <3>8. r.head # None
      BY <3>1, Seqs DEF Range
    <3> QED BY <3>7, <3>8
  <2>2. RefError(item, w.head, w.lost) = None
    BY <1>3, <2>1 DEF RefError, Named
  <2>3. EntryAt(item, w.head, w.index) = r.oid /\ Referred(item, w.head) = r.head
    BY <1>3, <2>1 DEF After, EntryAt, Referred
  <2> QED BY <1>1, <1>3, <2>2, <2>3 DEF Truth, Described, Found
<1>4. CASE Named(item)
  <2>1. item.ref # "HEAD" /\ item.ref # "index"
    BY <1>4 DEF Named
  <2>2. RefError(item, w.head, w.lost) = None
    BY <1>4, <2>1 DEF RefError, After, Then
  <2>3. EntryAt(item, w.head, w.index) = r.oid /\ Referred(item, w.head) = r.head
    BY <1>4, <2>1 DEF After, EntryAt, Referred
  <2> QED BY <1>1, <2>1, <2>2, <2>3 DEF Truth, Described, Found
<1> QED BY <1>2, <1>3, <1>4 DEF Named

(* The same with the commit given, which is how the content is read.       *)
Told(item, r) == IF item.ref = "HEAD" THEN r.head ELSE None
At(w, h) == [w EXCEPT !.head = h]

(* The content read under the commit that was told is that of HEAD.        *)
LEMMA PinnedHead ==
  ASSUME NEW item, NEW r, NEW w, NEW b, DiskOK(w), DiskOK(b), Then(w, b), After(item, r, b), Until(item, r, w)
  PROVE  Truth(item, At(w, Told(item, r))) = Truth(item, w)
<1>0. w \in Disk
  BY DEF DiskOK
<1>1. CASE item.ref = "HEAD"
  <2>1. w.head = r.head
    BY <1>1, DiskFields, RankIs DEF After, Until, Then
  <2>2. At(w, r.head) = w
    BY <2>1, <1>0 DEF At, Disk
  <2> QED BY <1>1, <2>2 DEF Told
<1>2. CASE item.ref # "HEAD"
  <2>1. PICK v : v = At(w, None)
    OBVIOUS
  <2>2. v.head = None /\ v.index = w.index /\ v.lost = w.lost /\ v.replacements = w.replacements
    BY <2>1, <1>0 DEF At, Disk
  <2>3. RefError(item, None, w.lost) = RefError(item, w.head, w.lost)
    BY <1>2 DEF RefError
  <2>4. EntryAt(item, None, w.index) = EntryAt(item, w.head, w.index)
    BY <1>2 DEF EntryAt, Referred
  <2>5. \A e : Described(item, e, None, v) = Described(item, e, w.head, w)
    BY <1>2, <2>2 DEF Described, Referred, Found
  <2>6. Truth(item, v) = Truth(item, w)
    BY <2>2, <2>3, <2>4, <2>5 DEF Truth
  <2> QED BY <1>2, <2>1, <2>6 DEF Told
<1> QED BY <1>1, <1>2

-----------------------------------------------------------------------------
(* The steps of a pass and their order.                                    *)

(* The steps of a pass come in the order of their stages, n items being     *)
(* asked for.                                                              *)
StepsOf(n) == {"config", "replacements", "head", "index", "refs", "query", "look", "objects", "recheck"} \X (0..n)
Stage(n, s) ==
  CASE s[1] = "config" -> 1 [] s[1] = "replacements" -> 2 [] s[1] = "head" -> 3 [] s[1] = "index" -> 4
    [] s[1] = "refs" -> 5 [] s[1] \in {"query", "look"} -> 5 + s[2] [] s[1] = "objects" -> 6
    [] s[1] = "recheck" -> 6 + n

Rising(n, X) == X \in Seq(StepsOf(n)) /\ \A i, j \in DOMAIN X : i < j => Stage(n, X[i]) < Stage(n, X[j])

(* Rising steps followed by later rising steps rise.                       *)
LEMMA Joined ==
  ASSUME NEW n \in Nat, NEW A, NEW B, Rising(n, A), Rising(n, B),
         \A a \in Range(A), b \in Range(B) : Stage(n, a) < Stage(n, b)
  PROVE  Rising(n, A \o B) /\ Range(A \o B) = Range(A) \cup Range(B)
<1>1. /\ A \in Seq(StepsOf(n)) /\ B \in Seq(StepsOf(n))
      /\ \A i, j \in DOMAIN A : i < j => Stage(n, A[i]) < Stage(n, A[j])
      /\ \A i, j \in DOMAIN B : i < j => Stage(n, B[i]) < Stage(n, B[j])
  BY DEF Rising
<1>2. /\ Len(A) \in Nat /\ Len(B) \in Nat /\ DOMAIN A = 1..Len(A) /\ DOMAIN B = 1..Len(B)
      /\ A \o B \in Seq(StepsOf(n)) /\ DOMAIN (A \o B) = 1..Len(A) + Len(B)
      /\ \A i \in 1..Len(A) + Len(B) : (A \o B)[i] = IF i <= Len(A) THEN A[i] ELSE B[i - Len(A)]
  BY <1>1, LenProperties, ConcatProperties
<1>3. Range(A \o B) = Range(A) \cup Range(B)
  BY <1>1, RangeConcatenation
<1>4. ASSUME NEW i \in DOMAIN (A \o B), NEW j \in DOMAIN (A \o B), i < j
      PROVE  Stage(n, (A \o B)[i]) < Stage(n, (A \o B)[j])
  <2>1. CASE j <= Len(A)
    BY <2>1, <1>1, <1>2, <1>4
  <2>2. CASE i <= Len(A) /\ j > Len(A)
    <3>1. (A \o B)[i] = A[i] /\ i \in DOMAIN A /\ (A \o B)[j] = B[j - Len(A)] /\ j - Len(A) \in DOMAIN B
      BY <2>2, <1>2, <1>4
    <3>2. A[i] \in Range(A) /\ B[j - Len(A)] \in Range(B)
      BY <3>1 DEF Range
    <3> QED BY <3>1, <3>2
  <2>3. CASE i > Len(A)
    <3>1. (A \o B)[i] = B[i - Len(A)] /\ i - Len(A) \in DOMAIN B /\ (A \o B)[j] = B[j - Len(A)] /\ j - Len(A) \in DOMAIN B
          /\ i - Len(A) < j - Len(A)
      BY <2>3, <1>2, <1>4
    <3> QED BY <3>1, <1>1
  <2> QED BY <2>1, <2>2, <2>3, <1>2, <1>4
<1> QED BY <1>2, <1>3, <1>4 DEF Rising

(* One step rises.                                                         *)
LEMMA OneRises ==
  ASSUME NEW n \in Nat, NEW s \in StepsOf(n)
  PROVE  Rising(n, <<s>>) /\ Range(<<s>>) = {s}
BY DEF Rising, Range

(* No step at all rises.                                                   *)
LEMMA NoneRises == \A n : Rising(n, <<>>) /\ Range(<<>>) = {}
BY DEF Rising, Range

(* The steps of a pass that are not of one item.                           *)
LEMMA DoIs ==
  ASSUME NEW n \in Nat
  PROVE  \A name \in {"config", "replacements", "head", "index", "refs", "objects", "recheck"} : Do(name) \in StepsOf(n)
BY DEF Do, StepsOf

(* The same step for each item rises, and is every such step.              *)
LEMMA EachIs ==
  ASSUME NEW items, items \in Seq(Range(items)), NEW n, n = Len(items), NEW step \in {"query", "look"}
  PROVE  /\ Rising(n, EachItem(step, items))
         /\ Range(EachItem(step, items)) = {<<step, i>> : i \in 1..n}
<1>1. n \in Nat /\ DOMAIN items = 1..n
  BY LenProperties
<1>2. EachItem(step, items) = [i \in 1..n |-> <<step, i>>]
  BY <1>1 DEF EachItem
<1>3. \A i \in 1..n : <<step, i>> \in StepsOf(n) /\ Stage(n, <<step, i>>) = 5 + i
  BY <1>1 DEF StepsOf, Stage
<1>4. EachItem(step, items) \in Seq(StepsOf(n))
  BY <1>1, <1>2, <1>3, SeqDef
<1> QED BY <1>2, <1>3, <1>4 DEF Rising, Range

-----------------------------------------------------------------------------
(* X is what is left of the steps All.                                     *)
Left(n, X, All) ==
  /\ Rising(n, X) /\ Range(X) \subseteq All
  /\ \A s \in Range(X), t \in All : Stage(n, s) < Stage(n, t) => t \in Range(X)

(* At the start everything is left.                                        *)
LEMMA LeftAll == ASSUME NEW n, NEW X, Rising(n, X) PROVE Left(n, X, Range(X))
BY DEF Left

(* The first of a sequence and the rest.                                   *)
LEMMA HeadTail ==
  ASSUME NEW T, NEW X \in Seq(T), X # <<>>
  PROVE  /\ Head(X) = X[1] /\ Tail(X) \in Seq(T) /\ 1 \in DOMAIN X /\ DOMAIN X = 1..Len(X) /\ Len(X) \in Nat
         /\ DOMAIN Tail(X) = 1..(Len(X) - 1) /\ Len(Tail(X)) = Len(X) - 1
         /\ \A i \in 1..(Len(X) - 1) : Tail(X)[i] = X[i + 1]
BY LenProperties, HeadTailProperties, EmptySeq

(* When the first step that is left is done, all before it are and none after it. *)
LEMMA LeftNext ==
  ASSUME NEW n \in Nat, NEW X, NEW All, Left(n, X, All), X # <<>>
  PROVE  LET s == Head(X) IN
         /\ s \in All /\ s \in StepsOf(n) /\ Left(n, Tail(X), All) /\ All \ Range(Tail(X)) = (All \ Range(X)) \cup {s}
         /\ \A t \in All : Stage(n, t) < Stage(n, s) => t \in All \ Range(X)
         /\ \A t \in All : Stage(n, s) < Stage(n, t) => t \notin All \ Range(X)
         /\ s \notin All \ Range(X)
<1>1. X \in Seq(StepsOf(n)) /\ \A i, j \in DOMAIN X : i < j => Stage(n, X[i]) < Stage(n, X[j])
  BY DEF Left, Rising
<1>2. /\ Head(X) = X[1] /\ Tail(X) \in Seq(StepsOf(n)) /\ 1 \in DOMAIN X /\ DOMAIN X = 1..Len(X) /\ Len(X) \in Nat
      /\ DOMAIN Tail(X) = 1..(Len(X) - 1)
      /\ \A i \in 1..(Len(X) - 1) : Tail(X)[i] = X[i + 1]
  BY <1>1, HeadTail
<1>3. Head(X) \in Range(X) /\ Head(X) \in StepsOf(n)
  BY <1>1, <1>2, ElementOfSeq DEF Range
<1>4. \A i \in DOMAIN X : X[i] \in StepsOf(n) /\ Stage(n, X[i]) \in Nat
  <2>1. \A s \in StepsOf(n) : Stage(n, s) \in Nat
    BY DEF Stage, StepsOf
  <2> QED BY <2>1, <1>1, <1>2, ElementOfSeq
<1>5. \A t \in Range(X) : t = Head(X) \/ Stage(n, Head(X)) < Stage(n, t)
  <2> TAKE t \in Range(X)
  <2>1. PICK i \in DOMAIN X : t = X[i]
    BY DEF Range
  <2>2. i = 1 \/ 1 < i
    BY <1>2
  <2> QED BY <2>1, <2>2, <1>1, <1>2
<1>6. \A t \in Range(X) : ~(Stage(n, t) < Stage(n, Head(X)))
  BY <1>2, <1>3, <1>4, <1>5 DEF Range
<1>7. Range(Tail(X)) = Range(X) \ {Head(X)}
  <2>1. ASSUME NEW t \in Range(Tail(X)) PROVE t \in Range(X) \ {Head(X)}
    <3>1. PICK i \in 1..(Len(X) - 1) : t = X[i + 1]
      BY <1>2 DEF Range
    <3>2. i + 1 \in DOMAIN X /\ 1 < i + 1
      BY <1>2
    <3>3. Stage(n, X[1]) < Stage(n, X[i + 1])
      BY <3>2, <1>1, <1>2
    <3> QED BY <3>1, <3>2, <3>3, <1>2, <1>4 DEF Range
  <2>2. ASSUME NEW t \in Range(X) \ {Head(X)} PROVE t \in Range(Tail(X))
    <3>1. PICK i \in DOMAIN X : t = X[i]
      BY DEF Range
    <3>2. i - 1 \in 1..(Len(X) - 1) /\ i = (i - 1) + 1
      BY <3>1, <1>2
    <3>3. Tail(X)[i - 1] = X[i]
      BY <3>2, <1>2
    <3> QED BY <3>1, <3>2, <3>3, <1>2 DEF Range
  <2> QED BY <2>1, <2>2
<1>8. Rising(n, Tail(X))
  <2>1. ASSUME NEW i \in DOMAIN Tail(X), NEW j \in DOMAIN Tail(X), i < j
        PROVE  Stage(n, Tail(X)[i]) < Stage(n, Tail(X)[j])
    <3>1. i + 1 \in DOMAIN X /\ j + 1 \in DOMAIN X /\ i + 1 < j + 1 /\ Tail(X)[i] = X[i + 1] /\ Tail(X)[j] = X[j + 1]
      BY <2>1, <1>2
    <3> QED BY <3>1, <1>1
  <2> QED BY <2>1, <1>2 DEF Rising
<1>9. Left(n, Tail(X), All)
  <2>1. ASSUME NEW s \in Range(Tail(X)), NEW t \in All, Stage(n, s) < Stage(n, t) PROVE t \in Range(Tail(X))
    <3>1. s \in Range(X) /\ t \in Range(X) /\ Stage(n, Head(X)) < Stage(n, s)
      BY <2>1, <1>5, <1>7 DEF Left
    <3>2. t # Head(X)
      BY <3>1, <2>1, <1>6
    <3> QED BY <3>1, <3>2, <1>7
  <2> QED BY <2>1, <1>7, <1>8 DEF Left
<1> QED BY <1>3, <1>6, <1>7, <1>9 DEF Left

(* The next step of what is left of a pass and then comes R.               *)
LEMMA NextOf ==
  ASSUME NEW T, NEW X \in Seq(T), NEW R \in Seq(T), X # <<>>
  PROVE  X \o R # <<>> /\ Head(X \o R) = Head(X) /\ Tail(X \o R) = Tail(X) \o R
<1>1. /\ Head(X) = X[1] /\ Tail(X) \in Seq(T) /\ Len(X) \in Nat /\ Len(X) >= 1
      /\ Len(Tail(X)) = Len(X) - 1 /\ \A i \in 1..(Len(X) - 1) : Tail(X)[i] = X[i + 1]
  BY HeadTail
<1>2. /\ X \o R \in Seq(T) /\ Len(X \o R) = Len(X) + Len(R) /\ Len(R) \in Nat
      /\ \A i \in 1..Len(X) + Len(R) : (X \o R)[i] = IF i <= Len(X) THEN X[i] ELSE R[i - Len(X)]
  BY ConcatProperties, LenProperties
<1>3. X \o R # <<>>
  BY <1>1, <1>2, EmptySeq
<1>4. /\ Head(X \o R) = (X \o R)[1] /\ Tail(X \o R) \in Seq(T)
      /\ Len(Tail(X \o R)) = Len(X) + Len(R) - 1
      /\ \A i \in 1..(Len(X) + Len(R) - 1) : Tail(X \o R)[i] = (X \o R)[i + 1]
  BY <1>2, <1>3, HeadTail
<1>5. /\ Tail(X) \o R \in Seq(T) /\ Len(Tail(X) \o R) = Len(X) - 1 + Len(R)
      /\ \A i \in 1..(Len(X) - 1 + Len(R)) :
           (Tail(X) \o R)[i] = IF i <= Len(X) - 1 THEN Tail(X)[i] ELSE R[i - (Len(X) - 1)]
  BY <1>1, ConcatProperties
<1>6. \A i \in 1..(Len(X) + Len(R) - 1) : Tail(X \o R)[i] = (Tail(X) \o R)[i]
  <2> TAKE i \in 1..(Len(X) + Len(R) - 1)
  <2>1. Tail(X \o R)[i] = (X \o R)[i + 1] /\ i + 1 \in 1..Len(X) + Len(R)
    BY <1>1, <1>2, <1>4
  <2>2. CASE i <= Len(X) - 1
    BY <2>1, <2>2, <1>1, <1>2, <1>5
  <2>3. CASE ~(i <= Len(X) - 1)
    <3>1. (i + 1) - Len(X) = i - (Len(X) - 1) /\ ~(i + 1 <= Len(X))
      BY <2>3, <1>1
    <3> QED BY <2>1, <2>3, <3>1, <1>1, <1>2, <1>5
  <2> QED BY <2>2, <2>3
<1>7. Len(Tail(X \o R)) = Len(Tail(X) \o R)
  BY <1>1, <1>2, <1>4, <1>5
<1>8. Tail(X \o R) = Tail(X) \o R
  BY <1>1, <1>2, <1>4, <1>5, <1>6, <1>7, SeqEqual
<1> QED BY <1>1, <1>2, <1>3, <1>4, <1>8

(* A step that is there if cond, and a step for each of n items.           *)
If(cond, step) == IF cond THEN {Do(step)} ELSE {}
Each(step, n) == {<<step, i>> : i \in 1..n}

(* The stage of each step.                                                 *)
LEMMA StageIs ==
  ASSUME NEW n \in Nat
  PROVE  /\ Stage(n, Do("config")) = 1 /\ Stage(n, Do("replacements")) = 2 /\ Stage(n, Do("head")) = 3
         /\ Stage(n, Do("index")) = 4 /\ Stage(n, Do("refs")) = 5 /\ Stage(n, Do("objects")) = 6
         /\ Stage(n, Do("recheck")) = 6 + n
         /\ \A i : Stage(n, <<"query", i>>) = 5 + i /\ Stage(n, <<"look", i>>) = 5 + i
BY DEF Stage, Do

(* Each step by its name.                                                  *)
LEMMA DoSteps ==
  ASSUME NEW n \in Nat
  PROVE  /\ Do("config") \in StepsOf(n) /\ Do("replacements") \in StepsOf(n) /\ Do("head") \in StepsOf(n)
         /\ Do("index") \in StepsOf(n) /\ Do("refs") \in StepsOf(n) /\ Do("objects") \in StepsOf(n)
         /\ Do("recheck") \in StepsOf(n)
BY DoIs

(* The steps X rise from stage l to stage h.                               *)
Span(n, X, l, h) == Rising(n, X) /\ \A s \in Range(X) : Stage(n, s) \in l..h

(* Steps that follow others from a later stage on.                         *)
LEMMA SpanJoined ==
  ASSUME NEW n \in Nat, NEW A, NEW B, NEW l \in Nat, NEW m \in Nat, NEW k \in Nat, NEW h \in Nat,
         Span(n, A, l, m), Span(n, B, k, h), l <= k, m < k, m <= h
  PROVE  Span(n, A \o B, l, h) /\ Range(A \o B) = Range(A) \cup Range(B)
<1>1. Rising(n, A) /\ Rising(n, B) /\ \A a \in Range(A), b \in Range(B) : Stage(n, a) < Stage(n, b)
  BY DEF Span
<1>2. Rising(n, A \o B) /\ Range(A \o B) = Range(A) \cup Range(B)
  BY <1>1, Joined
<1>3. \A s \in Range(A) \cup Range(B) : Stage(n, s) \in l..h
  BY DEF Span
<1> QED BY <1>2, <1>3 DEF Span

(* One step.                                                               *)
LEMMA SpanDo ==
  ASSUME NEW n \in Nat, NEW step, Do(step) \in StepsOf(n), NEW l \in Nat, Stage(n, Do(step)) = l
  PROVE  Span(n, <<Do(step)>>, l, l) /\ Range(<<Do(step)>>) = {Do(step)}
<1>1. Rising(n, <<Do(step)>>) /\ Range(<<Do(step)>>) = {Do(step)}
  BY OneRises
<1> QED BY <1>1 DEF Span

(* A step that is there only for some requests.                            *)
LEMMA SpanWhen ==
  ASSUME NEW n \in Nat, NEW items
  PROVE  /\ Span(n, When(Mentions(items, "HEAD"), "head"), 3, 3)
         /\ Range(When(Mentions(items, "HEAD"), "head")) = If(Mentions(items, "HEAD"), "head")
         /\ Span(n, When(Mentions(items, "index"), "index"), 4, 4)
         /\ Range(When(Mentions(items, "index"), "index")) = If(Mentions(items, "index"), "index")
         /\ Span(n, When(MentionsCommit(items), "refs"), 5, 5)
         /\ Range(When(MentionsCommit(items), "refs")) = If(MentionsCommit(items), "refs")
<1>1. /\ Span(n, <<Do("head")>>, 3, 3) /\ Range(<<Do("head")>>) = {Do("head")}
      /\ Span(n, <<Do("index")>>, 4, 4) /\ Range(<<Do("index")>>) = {Do("index")}
      /\ Span(n, <<Do("refs")>>, 5, 5) /\ Range(<<Do("refs")>>) = {Do("refs")}
  <2>1. Do("head") \in StepsOf(n) /\ Do("index") \in StepsOf(n) /\ Do("refs") \in StepsOf(n)
    BY DoSteps
  <2>2. Stage(n, Do("head")) = 3 /\ Stage(n, Do("index")) = 4 /\ Stage(n, Do("refs")) = 5
    BY StageIs
  <2>3. Span(n, <<Do("head")>>, 3, 3) /\ Range(<<Do("head")>>) = {Do("head")}
    BY <2>1, <2>2, SpanDo
  <2>4. Span(n, <<Do("index")>>, 4, 4) /\ Range(<<Do("index")>>) = {Do("index")}
    BY <2>1, <2>2, SpanDo
  <2>5. Span(n, <<Do("refs")>>, 5, 5) /\ Range(<<Do("refs")>>) = {Do("refs")}
    BY <2>1, <2>2, SpanDo
  <2> QED BY <2>3, <2>4, <2>5
<1>2. Range(<<>>) = {} /\ Span(n, <<>>, 3, 3) /\ Span(n, <<>>, 4, 4) /\ Span(n, <<>>, 5, 5)
  BY NoneRises DEF Span
<1>3. /\ Span(n, When(Mentions(items, "HEAD"), "head"), 3, 3)
      /\ Range(When(Mentions(items, "HEAD"), "head")) = If(Mentions(items, "HEAD"), "head")
  BY <1>1, <1>2 DEF When, If
<1>4. /\ Span(n, When(Mentions(items, "index"), "index"), 4, 4)
      /\ Range(When(Mentions(items, "index"), "index")) = If(Mentions(items, "index"), "index")
  BY <1>1, <1>2 DEF When, If
<1>5. /\ Span(n, When(MentionsCommit(items), "refs"), 5, 5)
      /\ Range(When(MentionsCommit(items), "refs")) = If(MentionsCommit(items), "refs")
  BY <1>1, <1>2 DEF When, If
<1> QED BY <1>3, <1>4, <1>5

(* A step for each item.                                                   *)
LEMMA SpanEach ==
  ASSUME NEW items, items \in Seq(Range(items)), NEW n, n = Len(items), NEW step \in {"query", "look"}
  PROVE  Span(n, EachItem(step, items), 6, 5 + n) /\ Range(EachItem(step, items)) = Each(step, n)
<1>1. Rising(n, EachItem(step, items)) /\ Range(EachItem(step, items)) = Each(step, n) /\ n \in Nat
  BY EachIs, LenProperties DEF Each
<1>2. \A s \in Each(step, n) : \E i \in 1..n : s = <<step, i>>
  BY DEF Each
<1>3. \A i \in 1..n : Stage(n, <<step, i>>) = 5 + i /\ 5 + i \in 6..(5 + n)
  <2> TAKE i \in 1..n
  <2>1. Stage(n, <<step, i>>) = 5 + i
    <3>1. CASE step = "query"
      BY <3>1, <1>1, StageIs
    <3>2. CASE step = "look"
      BY <3>2, <1>1, StageIs
    <3> QED BY <3>1, <3>2
  <2> QED BY <2>1, <1>1
<1> QED BY <1>1, <1>2, <1>3 DEF Span

(* The steps every snapshot starts with.                                   *)
LEMMA SpanStart ==
  ASSUME NEW n \in Nat
  PROVE  LET A == <<Do("config"), Do("replacements")>> IN
         Span(n, A, 1, 2) /\ Range(A) = {Do("config"), Do("replacements")}
<1> DEFINE A == <<Do("config"), Do("replacements")>>
<1>1. A \in Seq(StepsOf(n)) /\ DOMAIN A = 1..2 /\ A[1] = Do("config") /\ A[2] = Do("replacements")
  BY DoIs
<1> HIDE DEF A
<1>2. Range(A) = {Do("config"), Do("replacements")}
  BY <1>1 DEF Range
<1>3. Stage(n, Do("config")) = 1 /\ Stage(n, Do("replacements")) = 2
  BY StageIs
<1>4. Rising(n, A)
  BY <1>1, <1>3 DEF Rising
<1> QED BY <1>2, <1>3, <1>4 DEF Span, A

(* The steps of a snapshot that asks git for each item.                    *)
LEMMA FastIs ==
  ASSUME NEW items, items \in Seq(Range(items)), NEW n, n = Len(items)
  PROVE  /\ Rising(n, SnapshotSteps(items, TRUE))
         /\ Range(SnapshotSteps(items, TRUE)) =
              (({Do("config"), Do("replacements")} \cup If(Mentions(items, "HEAD"), "head"))
               \cup ((If(MentionsCommit(items), "refs") \cup Each("query", n)) \cup {Do("recheck")}))
<1>1. n \in Nat
  BY LenProperties
<1>0. 3 \in Nat /\ 4 \in Nat /\ 5 \in Nat /\ 6 \in Nat /\ 6 + n \in Nat
  BY <1>1
<1> DEFINE A == <<Do("config"), Do("replacements")>>
           H == When(Mentions(items, "HEAD"), "head")
           C == When(MentionsCommit(items), "refs")
           Q == EachItem("query", items)
           E == <<Do("recheck")>>
<1>2. Span(n, A, 1, 2) /\ Range(A) = {Do("config"), Do("replacements")}
  BY <1>1, SpanStart
<1>3. Span(n, H, 3, 3) /\ Range(H) = If(Mentions(items, "HEAD"), "head")
  BY <1>1, SpanWhen
<1>4. Span(n, C, 5, 5) /\ Range(C) = If(MentionsCommit(items), "refs")
  BY <1>1, SpanWhen
<1>5. Span(n, Q, 6, 5 + n) /\ Range(Q) = Each("query", n)
  BY SpanEach
<1>6. Span(n, E, 6 + n, 6 + n) /\ Range(E) = {Do("recheck")}
  BY <1>1, <1>0, DoSteps, StageIs, SpanDo
<1>12. SnapshotSteps(items, TRUE) = (A \o H) \o ((C \o Q) \o E)
  <2>1. SnapshotSteps(items, TRUE) = A \o H \o (C \o Q \o E)
    BY DEF SnapshotSteps
  <2> QED BY <2>1
<1> HIDE DEF A, H, C, Q, E
<1>7. 5 + n \in Nat /\ 6 + n \in Nat
  BY <1>1
<1>8. Span(n, A \o H, 1, 3) /\ Range(A \o H) = Range(A) \cup Range(H)
  BY <1>1, <1>2, <1>3, SpanJoined
<1>9. Span(n, C \o Q, 5, 5 + n) /\ Range(C \o Q) = Range(C) \cup Range(Q)
  BY <1>1, <1>4, <1>5, <1>7, SpanJoined
<1>10. Span(n, (C \o Q) \o E, 5, 6 + n) /\ Range((C \o Q) \o E) = Range(C \o Q) \cup Range(E)
  BY <1>1, <1>6, <1>7, <1>9, SpanJoined
<1>11. Span(n, (A \o H) \o ((C \o Q) \o E), 1, 6 + n)
       /\ Range((A \o H) \o ((C \o Q) \o E)) = Range(A \o H) \cup Range((C \o Q) \o E)
  BY <1>1, <1>7, <1>8, <1>10, SpanJoined
<1> QED BY <1>2, <1>3, <1>4, <1>5, <1>6, <1>8, <1>9, <1>10, <1>11, <1>12 DEF Span

(* The steps of a snapshot that reads the objects at its end.              *)
LEMMA SlowIs ==
  ASSUME NEW items, items \in Seq(Range(items)), NEW n, n = Len(items)
  PROVE  /\ Rising(n, SnapshotSteps(items, FALSE))
         /\ Range(SnapshotSteps(items, FALSE)) =
              (({Do("config"), Do("replacements")} \cup If(Mentions(items, "HEAD"), "head"))
               \cup ((If(Mentions(items, "index"), "index") \cup If(MentionsCommit(items), "refs")) \cup {Do("objects")}))
<1>1. n \in Nat
  BY LenProperties
<1>0. 3 \in Nat /\ 4 \in Nat /\ 5 \in Nat /\ 6 \in Nat /\ 6 + n \in Nat
  BY <1>1
<1> DEFINE A == <<Do("config"), Do("replacements")>>
           H == When(Mentions(items, "HEAD"), "head")
           I == When(Mentions(items, "index"), "index")
           C == When(MentionsCommit(items), "refs")
           E == <<Do("objects")>>
<1>2. Span(n, A, 1, 2) /\ Range(A) = {Do("config"), Do("replacements")}
  BY <1>1, SpanStart
<1>3. Span(n, H, 3, 3) /\ Range(H) = If(Mentions(items, "HEAD"), "head")
  BY <1>1, SpanWhen
<1>4. Span(n, C, 5, 5) /\ Range(C) = If(MentionsCommit(items), "refs")
  BY <1>1, SpanWhen
<1>5. Span(n, I, 4, 4) /\ Range(I) = If(Mentions(items, "index"), "index")
  BY <1>1, SpanWhen
<1>6. Span(n, E, 6, 6) /\ Range(E) = {Do("objects")}
  BY <1>1, <1>0, DoSteps, StageIs, SpanDo
<1>12. SnapshotSteps(items, FALSE) = (A \o H) \o ((I \o C) \o E)
  <2>1. SnapshotSteps(items, FALSE) = A \o H \o (I \o C \o E)
    BY DEF SnapshotSteps
  <2> QED BY <2>1
<1> HIDE DEF A, H, C, I, E
<1>8. Span(n, A \o H, 1, 3) /\ Range(A \o H) = Range(A) \cup Range(H)
  BY <1>1, <1>2, <1>3, SpanJoined
<1>9. Span(n, I \o C, 4, 5) /\ Range(I \o C) = Range(I) \cup Range(C)
  BY <1>1, <1>4, <1>5, SpanJoined
<1>10. Span(n, (I \o C) \o E, 4, 6) /\ Range((I \o C) \o E) = Range(I \o C) \cup Range(E)
  BY <1>1, <1>6, <1>9, SpanJoined
<1>11. Span(n, (A \o H) \o ((I \o C) \o E), 1, 6)
       /\ Range((A \o H) \o ((I \o C) \o E)) = Range(A \o H) \cup Range((I \o C) \o E)
  BY <1>1, <1>8, <1>10, SpanJoined
<1> QED BY <1>2, <1>3, <1>4, <1>5, <1>6, <1>8, <1>9, <1>10, <1>11, <1>12 DEF Span

(* The steps of a pass of the bridge's own reader.                         *)
LEMMA LooksAre ==
  ASSUME NEW items, items \in Seq(Range(items)), NEW n, n = Len(items)
  PROVE  /\ Rising(n, PassSteps(items))
         /\ Range(PassSteps(items)) = If(Mentions(items, "index"), "index") \cup Each("look", n)
<1>1. n \in Nat
  BY LenProperties
<1>0. 3 \in Nat /\ 4 \in Nat /\ 5 \in Nat /\ 6 \in Nat /\ 6 + n \in Nat
  BY <1>1
<1> DEFINE I == When(Mentions(items, "index"), "index")
           Q == EachItem("look", items)
<1>2. Span(n, I, 4, 4) /\ Range(I) = If(Mentions(items, "index"), "index")
  BY <1>1, SpanWhen
<1>3. Span(n, Q, 6, 5 + n) /\ Range(Q) = Each("look", n)
  BY SpanEach
<1>4. PassSteps(items) = I \o Q
  BY DEF PassSteps
<1> HIDE DEF I, Q
<1>5. 5 + n \in Nat
  BY <1>1
<1>6. Span(n, I \o Q, 4, 5 + n) /\ Range(I \o Q) = Range(I) \cup Range(Q)
  BY <1>1, <1>2, <1>3, <1>5, SpanJoined
<1> QED BY <1>2, <1>3, <1>4, <1>6 DEF Span

-----------------------------------------------------------------------------
(* The steps of a request: two passes, what is between them, what follows. *)
Snaps(kind) == kind \in {"metadata", "verified"}
PassOf(kind, items, fast) == IF Snaps(kind) THEN SnapshotSteps(items, fast) ELSE PassSteps(items)
Between(kind) ==
  CASE kind = "verified" -> <<Do("content"), Do("again")>> [] kind = "single" -> <<Do("scope"), Do("first"), Do("again")>>
    [] OTHER -> <<Do("again")>>
AtEnd(kind) ==
  CASE kind = "batch" -> <<Do("scope"), Do("merge")>> [] kind = "single" -> <<Do("second")>>
    [] OTHER -> <<Do("compare"), Do("scope")>>
Kinds == {"metadata", "verified", "batch", "single"}
AnyStep(n) == StepsOf(n) \cup {Do(s) : s \in {"scope", "again", "content", "first", "compare", "merge", "second"}}

(* The steps of a pass rise, whichever pass it is.                         *)
LEMMA PassIs ==
  ASSUME NEW items, items \in Seq(Range(items)), NEW n, n = Len(items), NEW kind, NEW fast \in BOOLEAN
  PROVE  LET S == PassOf(kind, items, fast) IN
         n \in Nat /\ Rising(n, S) /\ Left(n, S, Range(S)) /\ S \in Seq(AnyStep(n))
<1>1. Rising(n, PassOf(kind, items, fast))
  BY FastIs, SlowIs, LooksAre DEF PassOf
<1>2. \A X : Rising(n, X) => X \in Seq(AnyStep(n))
  BY SeqMonotonic DEF Rising, AnyStep
<1> QED BY <1>1, <1>2, LeftAll, LenProperties

(* The concatenation, for the lemmas that regroup it.                      *)
Cat(a, b) == a \o b

(* Concatenation stays within the sequences over a set.                    *)
LEMMA CatIs ==
  ASSUME NEW T, NEW a \in Seq(T), NEW b \in Seq(T)
  PROVE  Cat(a, b) \in Seq(T)
BY ConcatProperties DEF Cat

(* Concatenation can be regrouped,                                         *)
LEMMA CatAssociative ==
  ASSUME NEW T, NEW a \in Seq(T), NEW b \in Seq(T), NEW c \in Seq(T)
  PROVE  Cat(Cat(a, b), c) = Cat(a, Cat(b, c))
BY ConcatAssociative DEF Cat

(* as the steps of a request are.                                          *)
LEMMA Regrouped ==
  ASSUME NEW T, NEW a \in Seq(T), NEW b \in Seq(T), NEW c \in Seq(T), NEW d \in Seq(T)
  PROVE  Cat(Cat(Cat(Cat(a, b), c), b), d) = Cat(a, Cat(b, Cat(c, Cat(b, d))))
<1>1. Cat(b, d) \in Seq(T) /\ Cat(a, b) \in Seq(T)
  BY CatIs
<1>2. Cat(c, Cat(b, d)) \in Seq(T) /\ Cat(Cat(a, b), c) \in Seq(T)
  BY <1>1, CatIs
<1>3. Cat(Cat(Cat(Cat(a, b), c), b), d) = Cat(Cat(Cat(a, b), c), Cat(b, d))
  BY <1>2, CatAssociative
<1>4. Cat(Cat(Cat(a, b), c), Cat(b, d)) = Cat(Cat(a, b), Cat(c, Cat(b, d)))
  BY <1>1, CatAssociative
<1>5. Cat(Cat(a, b), Cat(c, Cat(b, d))) = Cat(a, Cat(b, Cat(c, Cat(b, d))))
  BY <1>2, CatAssociative
<1> QED BY <1>3, <1>4, <1>5

(* A request is two equal passes, with steps between and after them.       *)
LEMMA StepsAre ==
  ASSUME NEW items, items \in Seq(Range(items)), NEW kind \in Kinds, NEW fast \in BOOLEAN
  PROVE  LET S == PassOf(kind, items, fast) IN
         Steps(kind, items, fast) = <<Do("scope")>> \o (S \o (Between(kind) \o (S \o AtEnd(kind))))
<1> DEFINE S == PassOf(kind, items, fast)
           T == AnyStep(Len(items))
           A == <<Do("scope")>>
           B == Between(kind)
           E == AtEnd(kind)
<1>1. S \in Seq(T)
  BY PassIs
<1>2. A \in Seq(T) /\ B \in Seq(T) /\ E \in Seq(T)
  <2>1. \A s \in {"scope", "again", "content", "first", "compare", "merge", "second"} : Do(s) \in T
    BY DEF AnyStep
  <2> HIDE DEF T
  <2>2. A \in Seq(T)
    BY <2>1
  <2>3. CASE kind = "metadata"
    BY <2>1, <2>3, <2>2 DEF Between, AtEnd
  <2>4. CASE kind = "verified"
    BY <2>1, <2>4, <2>2 DEF Between, AtEnd
  <2>5. CASE kind = "batch"
    BY <2>1, <2>5, <2>2 DEF Between, AtEnd
  <2>6. CASE kind = "single"
    BY <2>1, <2>6, <2>2 DEF Between, AtEnd
  <2> QED BY <2>3, <2>4, <2>5, <2>6 DEF Kinds
<1>3. Steps(kind, items, fast) = (((A \o S) \o B) \o S) \o E
  <2>1. Steps(kind, items, fast) = A \o S \o B \o S \o E
    BY DEF Steps, PassOf, Snaps, Between, AtEnd, Kinds
  <2> QED BY <2>1
<1> HIDE DEF S, T, A, B, E
<1>4. Cat(Cat(Cat(Cat(A, S), B), S), E) = Cat(A, Cat(S, Cat(B, Cat(S, E))))
  BY <1>1, <1>2, Regrouped
<1> QED BY <1>3, <1>4 DEF S, A, B, E, Cat

-----------------------------------------------------------------------------
(* What a query tells.                                                     *)

(* t tells of a file what r tells.                                         *)
Like(r, t) == IF IsValue(r) THEN SameFile(r, t) ELSE r = t

(* An entry is described as a file, or is not supported.                   *)
LEMMA DescribedIs ==
  ASSUME NEW item, NEW e, NEW g, NEW d
  PROVE  LET r == Described(item, e, g, d)
             c == IF item.ref = "index" THEN None ELSE Referred(item, g)
         IN \/ Kind[e] \in {"file", "link"} /\ IsValue(r) /\ Value(r) /\ r.oid = e /\ r.head = c /\ r.as = d.replacements
            \/ Kind[e] \notin {"file", "link"} /\ r = Unsupported /\ ~IsValue(r)
BY Results DEF Described

(* The description depends on when it was made only in its settings.       *)
LEMMA DescribedAlike ==
  ASSUME NEW item, NEW e, NEW g, NEW c, NEW d
  PROVE  Like(Described(item, e, g, c), Described(item, e, g, d))
BY DescribedIs DEF Like, SameFile

(* What a reader says of one item, read at the instants of a chain of      *)
(* disks: r is an answer after b, before u, of the instant w; the errors    *)
(* in `broken' may be of no instant.                                       *)
Tells(item, r, b, u, w) ==
  /\ IsValue(r) => After(item, r, b) /\ Until(item, r, u) /\ r.oid # None
  /\ Like(r, Truth(item, w))

(* What git says of the index at d, checked at e for what it did not find. *)
LEMMA QueriedIndex ==
  ASSUME NEW item, item.path \in Paths, item.ref = "index", NEW p, NEW b, NEW d, NEW e, DiskOK(b), DiskOK(d), DiskOK(e),
         Then(b, d), Then(d, e), NEW r, r = Queried(item, p, d),
         r = Absent /\ RefError(item, p.head, p.refs) = None => EntryAt(item, p.head, e.index) = None
  PROVE  /\ \E w \in {d, e} : Tells(item, r, b, d, w)
         /\ r = Absent => e.index[item.path] = None
         /\ IsValue(r) => r.as = d.replacements
<1> DEFINE o == d.index[item.path]
<1>1. /\ \A g, lost : RefError(item, g, lost) = None
      /\ \A g, index : EntryAt(item, g, index) = index[item.path]
  BY DEF RefError, Named, EntryAt
<1>2. r = IF o = None \/ o \in d.lost THEN Absent ELSE Described(item, o, p.head, d)
  BY <1>1 DEF Queried
<1>3. CASE o = None \/ o \in d.lost
  <2>1. r = Absent /\ e.index[item.path] = None
    BY <1>1, <1>2, <1>3
  <2>2. Truth(item, e) = Absent
    BY <1>1, <2>1 DEF Truth
  <2> QED BY <2>1, <2>2, Results DEF Tells, Like
<1>4. CASE o # None /\ o \notin d.lost
  <2>1. r = Described(item, o, p.head, d) /\ Truth(item, d) = Described(item, o, d.head, d)
    BY <1>1, <1>2, <1>4 DEF Truth
  <2>2. CASE Kind[o] \in {"file", "link"}
    <3>1. IsValue(r) /\ Value(r) /\ r.oid = o /\ r.head = None /\ r.as = d.replacements
      BY <2>1, <2>2, DescribedIs
    <3>2. SameFile(r, Truth(item, d))
      BY <3>1, <2>1, <2>2, DescribedIs DEF SameFile
    <3>3. o \notin b.lost /\ Pos(o) \in Nat /\ Pos(o) <= d.used /\ (b.index[item.path] = o \/ Pos(o) > b.used)
      BY <1>4, DiskFields DEF Then
    <3>4. After(item, r, b) /\ Until(item, r, d)
      BY <1>4, <2>2, <3>1, <3>3 DEF After, Until, Named
    <3> QED BY <1>4, <3>1, <3>2, <3>4, Results DEF Tells, Like, Absent
  <2>3. CASE Kind[o] \notin {"file", "link"}
    <3>1. r = Unsupported /\ ~IsValue(r) /\ Truth(item, d) = Unsupported
      BY <2>1, <2>3, DescribedIs
    <3> QED BY <3>1, Results DEF Tells, Like
  <2> QED BY <2>2, <2>3
<1> QED BY <1>3, <1>4

(* What git says of HEAD as it was at h.                                   *)
LEMMA QueriedHead ==
  ASSUME NEW item, item.path \in Paths, item.ref = "HEAD", NEW p, NEW b, NEW h, NEW d, NEW e,
         DiskOK(b), DiskOK(h), DiskOK(d), Then(b, h), Then(h, d), p.head = h.head, NEW r, r = Queried(item, p, d),
         r = Absent /\ RefError(item, p.head, p.refs) = None => EntryAt(item, p.head, e.index) = None
  PROVE  Tells(item, r, b, d, h) /\ (IsValue(r) => r.as = d.replacements)
<1> DEFINE o == Tree[h.head][item.path]
<1>1. /\ \A g, lost : RefError(item, g, lost) = IF g = None THEN Absent ELSE None
      /\ \A g, index : EntryAt(item, g, index) = Tree[g][item.path]
      /\ \A g : Referred(item, g) = g
  BY DEF RefError, Named, EntryAt, Referred
<1>2. CASE h.head = None
  <2>1. RefError(item, p.head, p.refs) = Absent /\ RefError(item, h.head, h.lost) = Absent
    BY <1>1, <1>2
  <2>2. r = Absent /\ Truth(item, h) = Absent
    BY <2>1, NoneIsNoResult DEF Queried, Truth
  <2> QED BY <2>2, Results DEF Tells, Like
<1>3. CASE h.head # None
  <2>0. RefError(item, p.head, p.refs) = None /\ RefError(item, h.head, h.lost) = None
    BY <1>1, <1>3
  <2>1. r = IF o = None \/ o \in d.lost \/ h.head \in d.lost THEN Absent ELSE Described(item, o, h.head, d)
    BY <1>1, <2>0 DEF Queried
  <2>2. Truth(item, h) = IF o = None THEN Absent ELSE IF o \in h.lost THEN Broken ELSE Described(item, o, h.head, h)
    BY <1>1, <2>0 DEF Truth
  <2>3. CASE o = None \/ o \in d.lost \/ h.head \in d.lost
    <3>1. r = Absent /\ o = None
      BY <1>1, <2>0, <2>1, <2>3
    <3> QED BY <2>2, <3>1, Results DEF Tells, Like
  <2>4. CASE ~(o = None \/ o \in d.lost \/ h.head \in d.lost)
    <3>1. r = Described(item, o, h.head, d) /\ Truth(item, h) = Described(item, o, h.head, h)
      BY <2>1, <2>2, <2>4 DEF Then
    <3>2. Like(r, Truth(item, h))
      BY <3>1, DescribedAlike
    <3>3. ASSUME IsValue(r) PROVE After(item, r, b) /\ Until(item, r, d) /\ r.oid # None /\ r.as = d.replacements
      <4>1. Kind[o] \in {"file", "link"} /\ Value(r) /\ r.oid = o /\ r.head = h.head /\ r.as = d.replacements
        BY <3>1, <3>3, <1>1, DescribedIs
      <4>2. h.head \in Range(Commits) /\ Rank(b.head) <= Rank(h.head) /\ Rank(h.head) <= Rank(d.head)
        BY <1>3, DiskFields DEF Then
      <4>3. o # None /\ o \notin b.lost
        BY <2>4 DEF Then
      <4> QED BY <4>1, <4>2, <4>3 DEF After, Until, Named
    <3> QED BY <3>2, <3>3 DEF Tells
  <2> QED BY <2>3, <2>4
<1> QED BY <1>2, <1>3

(* What git says of a commit that is named, its references read at l.      *)
LEMMA QueriedNamed ==
  ASSUME NEW item, item.path \in Paths, Named(item), NEW p, NEW b, NEW l, NEW d, NEW e,
         DiskOK(b), DiskOK(l), DiskOK(d), DiskOK(e), Then(b, l), Then(l, d), Then(d, e), p.refs = l.lost,
         NEW r, r = Queried(item, p, d),
         r = Absent /\ RefError(item, p.head, p.refs) = None =>
           item.ref \notin e.lost /\ EntryAt(item, p.head, e.index) = None
  PROVE  /\ \E w \in {l, d, e} : Tells(item, r, b, d, w)
         /\ IsValue(r) => r.as = d.replacements
<1> DEFINE o == Tree[item.ref][item.path]
<1>0. item.ref # "HEAD" /\ item.ref # "index"
  BY DEF Named
<1>1. /\ \A g, lost : RefError(item, g, lost) =
           IF item.ref \in lost THEN Absent ELSE IF Kind[item.ref] # "commit" THEN Unsupported ELSE None
      /\ \A g, index : EntryAt(item, g, index) = o
      /\ \A g : Referred(item, g) = item.ref
  BY <1>0 DEF RefError, Named, EntryAt, Referred
<1>2. CASE item.ref \in l.lost
  <2>1. RefError(item, p.head, p.refs) = Absent /\ RefError(item, l.head, l.lost) = Absent
    BY <1>1, <1>2
  <2>2. r = Absent /\ Truth(item, l) = Absent
    BY <2>1, NoneIsNoResult DEF Queried, Truth
  <2> QED BY <2>2, Results DEF Tells, Like
<1>3. CASE item.ref \notin l.lost /\ Kind[item.ref] # "commit"
  <2>1. RefError(item, p.head, p.refs) = Unsupported /\ RefError(item, l.head, l.lost) = Unsupported
    BY <1>1, <1>3
  <2>2. r = Unsupported /\ Truth(item, l) = Unsupported
    BY <2>1, NoneIsNoResult DEF Queried, Truth
  <2> QED BY <2>2, Results DEF Tells, Like
<1>4. CASE item.ref \notin l.lost /\ Kind[item.ref] = "commit"
  <2>0. RefError(item, p.head, p.refs) = None
    BY <1>1, <1>4
  <2>1. r = IF o = None \/ o \in d.lost \/ item.ref \in d.lost THEN Absent ELSE Described(item, o, p.head, d)
    BY <1>0, <1>1, <2>0 DEF Queried
  <2>2. CASE o = None \/ o \in d.lost \/ item.ref \in d.lost
    <3>1. r = Absent /\ o = None /\ item.ref \notin e.lost
      BY <1>1, <2>0, <2>1, <2>2
    <3>2. RefError(item, e.head, e.lost) = None
      BY <1>1, <1>4, <3>1
    <3>3. Truth(item, e) = Absent
      BY <1>1, <3>1, <3>2 DEF Truth
    <3> QED BY <3>1, <3>3, Results DEF Tells, Like
  <2>3. CASE ~(o = None \/ o \in d.lost \/ item.ref \in d.lost)
    <3>0. RefError(item, d.head, d.lost) = None
      BY <1>1, <1>4, <2>3
    <3>1. r = Described(item, o, p.head, d) /\ Truth(item, d) = Described(item, o, d.head, d)
      BY <1>1, <2>1, <2>3, <3>0 DEF Truth
    <3>2. Described(item, o, p.head, d) = Described(item, o, d.head, d)
      BY <1>1 DEF Described
    <3>3. Like(r, Truth(item, d))
      BY <3>1, <3>2, DescribedAlike
    <3>4. ASSUME IsValue(r) PROVE After(item, r, b) /\ Until(item, r, d) /\ r.oid # None /\ r.as = d.replacements
      <4>1. Kind[o] \in {"file", "link"} /\ Value(r) /\ r.oid = o /\ r.head = item.ref /\ r.as = d.replacements
        BY <3>1, <3>4, <1>0, <1>1, DescribedIs
      <4>2. o # None /\ o \notin b.lost /\ item.ref \notin b.lost
        BY <2>3 DEF Then
      <4> QED BY <1>0, <1>4, <4>1, <4>2 DEF After, Until, Named
    <3> QED BY <3>3, <3>4 DEF Tells
  <2> QED BY <2>2, <2>3
<1> QED BY <1>2, <1>3, <1>4

(* What was found by w was found by any later instant.                     *)
LEMMA UntilLater ==
  ASSUME NEW item, NEW r, NEW b, NEW w, NEW u, DiskOK(w), DiskOK(u), Then(w, u),
         After(item, r, b), Until(item, r, w)
  PROVE  Until(item, r, u)
<1>1. r.head \in Range(Commits) => Rank(r.head) \in Nat
  BY RankIs
<1> QED BY <1>1, DiskFields DEF After, Until, Then

(* Canonical and Looked: an entry whose object is looked for at d.         *)
Entry(item, g, index, refs, d, v) ==
  LET none == RefError(item, g, refs)
      e == EntryAt(item, g, index)
  IN IF none # None THEN none ELSE IF e = None THEN Absent ELSE IF e \in d.lost THEN Broken ELSE Described(item, e, g, v)

(* What is told of an entry read at w was so at w, if its object is there. *)
LEMMA EntryIs ==
  ASSUME NEW item, item.path \in Paths, NEW b, NEW w, NEW d, DiskOK(b), DiskOK(w), DiskOK(d), Then(b, w), Then(w, d),
         NEW g, NEW index, NEW refs, NEW v, NEW r, r = Entry(item, g, index, refs, d, v),
         item.ref = "index" => index = w.index,
         item.ref = "HEAD" => g = w.head,
         Named(item) => refs = w.lost
  PROVE  /\ r = Broken \/ Tells(item, r, b, w, w)
         /\ IsValue(r) => r.as = v.replacements
         /\ item.ref = "index" /\ r = Absent => w.index[item.path] = None
<1> DEFINE e == EntryAt(item, w.head, w.index)
<1>1. RefError(item, g, refs) = RefError(item, w.head, w.lost)
  BY DEF RefError, Named
<1>2. EntryAt(item, g, index) = e
  BY DEF EntryAt, Referred, Named
<1>3. CASE RefError(item, w.head, w.lost) # None
  <2>1. r = RefError(item, w.head, w.lost) /\ Truth(item, w) = r
    BY <1>1, <1>3 DEF Entry, Truth
  <2>2. r \in {Absent, Unsupported} /\ item.ref # "index"
    BY <2>1, <1>3 DEF RefError, Named
  <2> QED BY <2>1, <2>2, Results DEF Tells, Like
<1>4. CASE RefError(item, w.head, w.lost) = None
  <2>1. r = IF e = None THEN Absent ELSE IF e \in d.lost THEN Broken ELSE Described(item, e, g, v)
    BY <1>1, <1>2, <1>4 DEF Entry
  <2>2. Truth(item, w) = IF e = None THEN Absent ELSE IF e \in w.lost THEN Broken ELSE Described(item, e, w.head, w)
    BY <1>4 DEF Truth
  <2>3. CASE e = None
    <3>1. r = Absent /\ Truth(item, w) = Absent
      BY <2>1, <2>2, <2>3
    <3>2. item.ref = "index" => w.index[item.path] = None
      BY <2>3 DEF EntryAt
    <3> QED BY <3>1, <3>2, Results DEF Tells, Like
  <2>4. CASE e # None /\ e \in d.lost
    BY <2>1, <2>4, Results
  <2>5. CASE e # None /\ e \notin d.lost
    <3>1. r = Described(item, e, g, v) /\ Truth(item, w) = Described(item, e, w.head, w)
      BY <2>1, <2>2, <2>5 DEF Then
    <3>2. Described(item, e, g, v) = Described(item, e, w.head, v)
      BY DEF Described, Referred, Named
    <3>3. Like(r, Truth(item, w))
      BY <3>1, <3>2, DescribedAlike
    <3>4. r # Absent
      BY <3>1, DescribedIs, Results DEF Absent
    <3>5. ASSUME IsValue(r) PROVE After(item, r, b) /\ Until(item, r, w) /\ r.oid # None /\ r.as = v.replacements
      <4>1. /\ Kind[e] \in {"file", "link"} /\ Value(r) /\ r.oid = e /\ r.as = v.replacements
            /\ r.head = IF item.ref = "index" THEN None ELSE Referred(item, w.head)
        BY <3>1, <3>2, <3>5, DescribedIs
      <4>2. e \notin b.lost
        BY <2>5 DEF Then
      <4>3. CASE item.ref = "index"
        <5>1. e = w.index[item.path] /\ Pos(e) \in Nat /\ Pos(e) <= w.used /\ (b.index[item.path] = e \/ Pos(e) > b.used)
          BY <4>3, <2>5, DiskFields DEF EntryAt, Then
        <5> QED BY <2>5, <4>1, <4>2, <4>3, <5>1 DEF After, Until, Named
      <4>4. CASE item.ref = "HEAD"
        <5>1. w.head # None
          BY <4>4, <1>4, NoneIsNoResult DEF RefError
        <5>2. e = Tree[w.head][item.path] /\ r.head = w.head
          BY <4>1, <4>4 DEF EntryAt, Referred
        <5>3. w.head \in Range(Commits) /\ Rank(b.head) <= Rank(w.head) /\ Rank(w.head) <= Rank(w.head)
          BY <5>1, DiskFields DEF Then
        <5> QED BY <2>5, <4>1, <4>2, <4>4, <5>2, <5>3 DEF After, Until, Named
      <4>5. CASE Named(item)
        <5>1. e = Tree[item.ref][item.path] /\ r.head = item.ref /\ item.ref # "HEAD" /\ item.ref # "index"
          BY <4>1, <4>5 DEF EntryAt, Referred, Named
        <5>2. item.ref \notin w.lost /\ Kind[item.ref] = "commit"
          BY <4>5, <5>1, <1>4, NoneIsNoResult DEF RefError
        <5>3. item.ref \notin b.lost
          BY <5>2 DEF Then
        <5> QED BY <2>5, <4>1, <4>2, <4>5, <5>1, <5>2, <5>3 DEF After, Until, Named
      <4> QED BY <4>3, <4>4, <4>5 DEF Named
    <3> QED BY <3>3, <3>4, <3>5 DEF Tells
  <2> QED BY <2>3, <2>4, <2>5
<1> QED BY <1>3, <1>4

-----------------------------------------------------------------------------
(* What a snapshot holds, and what a pass holds.                           *)

(* The items of a request.                                                 *)
Items(s) == s \in Seq(Range(s)) /\ \A i \in DOMAIN s : s[i].path \in Paths

(* An instant of the request for s, H being what was true.                 *)
Past(s, w, H) == DiskOK(w) /\ TruthNow(s, w) \in H

(* A pass with its fields.                                                 *)
IsPass(p) == p = [config |-> p.config, replacements |-> p.replacements, head |-> p.head,
                  index |-> p.index, refs |-> p.refs, results |-> p.results]

(* A snapshot that began after b and has done the steps `done' at u: HEAD   *)
(* was read at h, the index at x and the references at l.                  *)
SnapAt(s, p, done, b, h, x, l, u, H) ==
  /\ Past(s, h, H) /\ Past(s, x, H) /\ Past(s, l, H)
  /\ Then(b, h) /\ Then(h, x) /\ Then(x, l) /\ Then(l, u)
  /\ Do("config") \in done => p.config \in Nat /\ b.config <= p.config /\ p.config <= h.config
  /\ Do("replacements") \in done =>
       p.replacements \in Nat /\ b.replacements <= p.replacements /\ p.replacements <= h.replacements
  /\ Do("head") \in done => p.head = h.head
  /\ Do("index") \in done => p.index = x.index
  /\ Do("refs") \in done => p.refs = l.lost
  /\ \A i \in DOMAIN s : <<"query", i>> \in done =>
       \E d : Past(s, d, H) /\ Then(l, d) /\ Then(d, u) /\ p.results[i] = Queried(s[i], p, d)

Snap(s, p, done, b, u, H) == \E h, x, l : SnapAt(s, p, done, b, h, x, l, u, H)

(* The same of a pass of the bridge's own reader.                          *)
LooksAt(s, p, done, b, x, u, H) ==
  /\ Past(s, x, H) /\ Then(b, x) /\ Then(x, u)
  /\ Do("index") \in done => p.index = x.index
  /\ \A i \in DOMAIN s : <<"look", i>> \in done =>
       \E d : Past(s, d, H) /\ Then(x, d) /\ Then(d, u) /\ p.results[i] = Looked(s[i], p.index, d)

Looks(s, p, done, b, u, H) == \E x : LooksAt(s, p, done, b, x, u, H)

(* A pass that is done: every item is told as it was at some instant;      *)
(* of a snapshot, that instant is under the settings of the answer, one     *)
(* such instant is that of everything told of HEAD, and at one the index    *)
(* lacks what it is told to lack and all that was found had been there.     *)
Instant(s, a, w, u, H) ==
  Past(s, w, H) /\ Then(w, u) /\ a.config <= w.config /\ a.replacements <= w.replacements
Faithful(s, a, b, u, H) ==
  /\ DOMAIN a.results = DOMAIN s
  /\ \A i \in DOMAIN s :
       /\ IsValue(a.results[i]) => After(s[i], a.results[i], b) /\ Until(s[i], a.results[i], u)
       /\ a.results[i] = Broken \/ \E w : Past(s, w, H) /\ Then(w, u) /\ Like(a.results[i], Truth(s[i], w))
Met(s, a, b, u, H) ==
  /\ a.config \in Nat /\ b.config <= a.config /\ a.replacements \in Nat /\ b.replacements <= a.replacements
  /\ \A i \in DOMAIN s : IsValue(a.results[i]) =>
       a.results[i].as \in Nat /\ a.replacements <= a.results[i].as /\ a.results[i].as <= u.replacements
  /\ \E w : Instant(s, a, w, u, H) /\ \A i \in DOMAIN s : s[i].ref = "HEAD" => Like(a.results[i], Truth(s[i], w))
  /\ \A i \in DOMAIN s : \E w : Instant(s, a, w, u, H) /\ Like(a.results[i], Truth(s[i], w))
  /\ \E w : /\ Instant(s, a, w, u, H)
            /\ \A i \in DOMAIN s :
                 /\ IsValue(a.results[i]) => Until(s[i], a.results[i], w)
                 /\ s[i].ref = "index" /\ a.results[i] = Absent => w.index[s[i].path] = None

-----------------------------------------------------------------------------
(* A snapshot that passed its recheck is one that is done.                 *)
LEMMA FastComplete ==
  ASSUME NEW s, Items(s), NEW p, NEW done, NEW b, DiskOK(b), NEW u, NEW H, Past(s, u, H), Snap(s, p, done, b, u, H),
         DOMAIN p.results = DOMAIN s, Do("config") \in done, Do("replacements") \in done,
         Mentions(s, "HEAD") => Do("head") \in done, MentionsCommit(s) => Do("refs") \in done,
         \A i \in DOMAIN s : <<"query", i>> \in done,
         \A i \in DOMAIN s : p.results[i] = Absent /\ RefError(s[i], p.head, p.refs) = None =>
           ~(Named(s[i]) /\ s[i].ref \in u.lost) /\ EntryAt(s[i], p.head, u.index) = None,
         NEW a, a.config = p.config, a.replacements = p.replacements, a.results = p.results
  PROVE  Faithful(s, a, b, u, H) /\ Met(s, a, b, u, H)
<1>1. PICK h, x, l : SnapAt(s, p, done, b, h, x, l, u, H)
  BY DEF Snap
<1> DEFINE r(i) == p.results[i]
<1>2. /\ DiskOK(h) /\ DiskOK(x) /\ DiskOK(l) /\ DiskOK(u)
      /\ Then(b, h) /\ Then(h, x) /\ Then(x, l) /\ Then(l, u)
  BY <1>1 DEF SnapAt, Past
<1>3. Then(b, l) /\ Then(h, l) /\ Then(h, u) /\ Then(b, u)
  BY <1>2, ThenAll
<1>4. /\ p.config \in Nat /\ b.config <= p.config /\ p.config <= h.config
      /\ p.replacements \in Nat /\ b.replacements <= p.replacements /\ p.replacements <= h.replacements
      /\ Mentions(s, "HEAD") => p.head = h.head
      /\ MentionsCommit(s) => p.refs = l.lost
  BY <1>1 DEF SnapAt
<1>5. \A w : Past(s, w, H) /\ Then(h, w) /\ Then(w, u) => Instant(s, a, w, u, H)
  <2> TAKE w
  <2> HAVE Past(s, w, H) /\ Then(h, w) /\ Then(w, u)
  <2>1. p.config <= w.config /\ p.replacements <= w.replacements
    BY <1>2, <1>4, DiskFields DEF Past, Then
  <2> QED BY <2>1 DEF Instant
<1>6. Instant(s, a, h, u, H) /\ Instant(s, a, l, u, H) /\ Instant(s, a, u, u, H)
  BY <1>1, <1>2, <1>3, <1>5, ThenSame DEF SnapAt
<1>7. ASSUME NEW i \in DOMAIN s
      PROVE  /\ IsValue(r(i)) => /\ After(s[i], r(i), b) /\ Until(s[i], r(i), u)
                                 /\ r(i).as \in Nat /\ a.replacements <= r(i).as /\ r(i).as <= u.replacements
             /\ s[i].ref = "HEAD" => Like(r(i), Truth(s[i], h))
             /\ \E w : Instant(s, a, w, u, H) /\ Like(r(i), Truth(s[i], w))
             /\ s[i].ref = "index" /\ r(i) = Absent => u.index[s[i].path] = None
  <2>1. PICK d : Past(s, d, H) /\ Then(l, d) /\ Then(d, u) /\ r(i) = Queried(s[i], p, d)
    BY <1>1, <1>7 DEF SnapAt
  <2>2. DiskOK(d) /\ Then(b, d) /\ Then(h, d) /\ s[i].path \in Paths
    BY <2>1, <1>2, <1>3, <1>7, ThenAll DEF Past, Items
  <2>3. Instant(s, a, d, u, H)
    BY <1>5, <2>1, <2>2
  <2>4. /\ \E w \in {h, l, d, u} : Tells(s[i], r(i), b, d, w)
        /\ s[i].ref = "HEAD" => Tells(s[i], r(i), b, d, h)
        /\ s[i].ref = "index" /\ r(i) = Absent => u.index[s[i].path] = None
        /\ IsValue(r(i)) => r(i).as = d.replacements
    <3>1. CASE s[i].ref = "index"
      <4>1. r(i) = Absent /\ RefError(s[i], p.head, p.refs) = None => EntryAt(s[i], p.head, u.index) = None
        OBVIOUS
      <4> QED BY <3>1, <4>1, <1>2, <2>1, <2>2, QueriedIndex
    <3>2. CASE s[i].ref = "HEAD"
      <4>1. r(i) = Absent /\ RefError(s[i], p.head, p.refs) = None => EntryAt(s[i], p.head, u.index) = None
        OBVIOUS
      <4>2. p.head = h.head
        BY <3>2, <1>4 DEF Mentions
      <4>3. Tells(s[i], r(i), b, d, h) /\ (IsValue(r(i)) => r(i).as = d.replacements)
        <5>1. PICK q : q = r(i)
          OBVIOUS
        <5>2. DiskOK(h) /\ DiskOK(d) /\ Then(b, h) /\ Then(h, d) /\ s[i].path \in Paths /\ q = Queried(s[i], p, d)
          BY <5>1, <1>2, <2>1, <2>2
        <5>3. q = Absent /\ RefError(s[i], p.head, p.refs) = None => EntryAt(s[i], p.head, u.index) = None
          BY <4>1, <5>1
        <5>4. Tells(s[i], q, b, d, h) /\ (IsValue(q) => q.as = d.replacements)
          BY <3>2, <4>2, <5>2, <5>3, QueriedHead
        <5> QED BY <5>1, <5>4
      <4> QED BY <3>2, <4>3
    <3>3. CASE Named(s[i])
      <4>1. r(i) = Absent /\ RefError(s[i], p.head, p.refs) = None =>
              s[i].ref \notin u.lost /\ EntryAt(s[i], p.head, u.index) = None
        BY <3>3
      <4>2. p.refs = l.lost
        BY <3>3, <1>4 DEF MentionsCommit
      <4>3. s[i].ref # "HEAD" /\ s[i].ref # "index"
        BY <3>3 DEF Named
      <4> QED BY <3>3, <4>1, <4>2, <4>3, <1>2, <1>3, <2>1, <2>2, QueriedNamed
    <3> QED BY <3>1, <3>2, <3>3 DEF Named
  <2>5. ASSUME IsValue(r(i)) PROVE After(s[i], r(i), b) /\ Until(s[i], r(i), u)
    <3>1. After(s[i], r(i), b) /\ Until(s[i], r(i), d)
      BY <2>4, <2>5 DEF Tells
    <3> QED BY <3>1, <1>2, <2>1, <2>2, UntilLater
  <2>6. ASSUME IsValue(r(i)) PROVE r(i).as \in Nat /\ a.replacements <= r(i).as /\ r(i).as <= u.replacements
    BY <2>1, <2>3, <2>4, <2>6, DiskFields DEF Instant, Past, Then
  <2> QED BY <1>6, <2>3, <2>4, <2>5, <2>6 DEF Tells
<1>8. Faithful(s, a, b, u, H)
  BY <1>7 DEF Faithful, Instant
<1>9. Met(s, a, b, u, H)
  BY <1>4, <1>6, <1>7 DEF Met
<1> QED BY <1>8, <1>9

(* A snapshot whose objects were all there is one that is done.            *)
LEMMA SlowComplete ==
  ASSUME NEW s, Items(s), NEW p, NEW done, NEW b, DiskOK(b), NEW u, NEW H, Past(s, u, H), Snap(s, p, done, b, u, H),
         Do("config") \in done, Do("replacements") \in done,
         Mentions(s, "HEAD") => Do("head") \in done, MentionsCommit(s) => Do("refs") \in done,
         Mentions(s, "index") => Do("index") \in done,
         NEW a, a.config = p.config, a.replacements = p.replacements, DOMAIN a.results = DOMAIN s,
         \A i \in DOMAIN s : a.results[i] = Canonical(s[i], p, u) /\ a.results[i] # Broken
  PROVE  Faithful(s, a, b, u, H) /\ Met(s, a, b, u, H)
<1>1. PICK h, x, l : SnapAt(s, p, done, b, h, x, l, u, H)
  BY DEF Snap
<1> DEFINE r(i) == a.results[i]
<1>2. /\ DiskOK(h) /\ DiskOK(x) /\ DiskOK(l) /\ DiskOK(u)
      /\ Then(b, h) /\ Then(h, x) /\ Then(x, l) /\ Then(l, u)
  BY <1>1 DEF SnapAt, Past
<1>3. Then(b, l) /\ Then(h, l) /\ Then(h, u) /\ Then(b, u) /\ Then(b, x) /\ Then(x, u)
  BY <1>2, ThenAll
<1>4. /\ p.config \in Nat /\ b.config <= p.config /\ p.config <= h.config
      /\ p.replacements \in Nat /\ b.replacements <= p.replacements /\ p.replacements <= h.replacements
      /\ Mentions(s, "HEAD") => p.head = h.head
      /\ MentionsCommit(s) => p.refs = l.lost
      /\ Mentions(s, "index") => p.index = x.index
  BY <1>1 DEF SnapAt
<1>5. \A w : Past(s, w, H) /\ Then(h, w) /\ Then(w, u) => Instant(s, a, w, u, H)
  <2> TAKE w
  <2> HAVE Past(s, w, H) /\ Then(h, w) /\ Then(w, u)
  <2>1. p.config <= w.config /\ p.replacements <= w.replacements
    BY <1>2, <1>4, DiskFields DEF Past, Then
  <2> QED BY <2>1 DEF Instant
<1>6. Instant(s, a, h, u, H) /\ Instant(s, a, l, u, H) /\ Instant(s, a, x, u, H) /\ Instant(s, a, u, u, H)
  BY <1>1, <1>2, <1>3, <1>5, ThenSame DEF SnapAt
<1>7. ASSUME NEW i \in DOMAIN s
      PROVE  /\ IsValue(r(i)) => /\ After(s[i], r(i), b) /\ Until(s[i], r(i), u) /\ Until(s[i], r(i), x)
                                 /\ r(i).as \in Nat /\ a.replacements <= r(i).as /\ r(i).as <= u.replacements
             /\ s[i].ref = "HEAD" => Like(r(i), Truth(s[i], h))
             /\ \E w : Instant(s, a, w, u, H) /\ Like(r(i), Truth(s[i], w))
             /\ s[i].ref = "index" /\ r(i) = Absent => x.index[s[i].path] = None
  <2>0. s[i].path \in Paths
    BY <1>7 DEF Items
  <2>1. r(i) = Entry(s[i], p.head, p.index, p.refs, u, u) /\ r(i) # Broken
    BY <1>7 DEF Canonical, Entry
  <2>2. \E w \in {h, x, l} :
          /\ Tells(s[i], r(i), b, w, w)
          /\ s[i].ref = "HEAD" => w = h
          /\ s[i].ref = "index" => w = x
          /\ IsValue(r(i)) => r(i).as = u.replacements
          /\ s[i].ref = "index" /\ r(i) = Absent => w.index[s[i].path] = None
    <3>1. CASE s[i].ref = "index"
      <4>1. p.index = x.index /\ ~Named(s[i]) /\ s[i].ref # "HEAD"
        BY <3>1, <1>4 DEF Mentions, Named
      <4> QED BY <3>1, <4>1, <1>2, <1>3, <2>0, <2>1, EntryIs
    <3>2. CASE s[i].ref = "HEAD"
      <4>1. p.head = h.head /\ ~Named(s[i]) /\ s[i].ref # "index"
        BY <3>2, <1>4 DEF Mentions, Named
      <4> QED BY <3>2, <4>1, <1>2, <1>3, <2>0, <2>1, EntryIs
    <3>3. CASE Named(s[i])
      <4>1. p.refs = l.lost /\ s[i].ref # "HEAD" /\ s[i].ref # "index"
        BY <3>3, <1>4 DEF MentionsCommit, Named
      <4> QED BY <3>3, <4>1, <1>2, <1>3, <2>0, <2>1, EntryIs
    <3> QED BY <3>1, <3>2, <3>3 DEF Named
  <2>3. PICK w \in {h, x, l} :
          /\ Tells(s[i], r(i), b, w, w)
          /\ s[i].ref = "HEAD" => w = h
          /\ s[i].ref = "index" => w = x
          /\ IsValue(r(i)) => r(i).as = u.replacements
          /\ s[i].ref = "index" /\ r(i) = Absent => w.index[s[i].path] = None
    BY <2>2
  <2>4. ASSUME IsValue(r(i)) PROVE After(s[i], r(i), b) /\ Until(s[i], r(i), x) /\ Until(s[i], r(i), u)
    <3>1. After(s[i], r(i), b) /\ Until(s[i], r(i), w) /\ DiskOK(w) /\ Then(w, u)
      BY <2>3, <2>4, <1>2, <1>3 DEF Tells
    <3>2. Until(s[i], r(i), u)
      BY <3>1, <1>2, UntilLater
    <3>3. CASE s[i].ref = "index"
      BY <3>1, <3>2, <3>3, <2>3
    <3>4. CASE s[i].ref = "HEAD"
      <4>1. Until(s[i], r(i), h)
        BY <3>1, <3>4, <2>3
      <4>2. Until(s[i], r(i), x)
        BY <3>1, <4>1, <1>2, UntilLater
      <4> QED BY <3>1, <3>2, <4>2
    <3>5. CASE Named(s[i])
      BY <3>1, <3>2, <3>5 DEF Until, Named
    <3> QED BY <3>3, <3>4, <3>5 DEF Named
  <2>5. ASSUME IsValue(r(i)) PROVE r(i).as \in Nat /\ a.replacements <= r(i).as /\ r(i).as <= u.replacements
    BY <1>2, <1>6, <2>3, <2>5, DiskFields DEF Instant
  <2> QED BY <1>6, <2>3, <2>4, <2>5 DEF Tells
<1>8. Faithful(s, a, b, u, H)
  BY <1>7 DEF Faithful, Instant
<1>9. Met(s, a, b, u, H)
  BY <1>4, <1>6, <1>7 DEF Met
<1> QED BY <1>8, <1>9

(* A pass of which every item was looked at is one that is done.           *)
LEMMA LooksComplete ==
  ASSUME NEW s, Items(s), NEW p, NEW done, NEW b, DiskOK(b), NEW u, NEW H, DiskOK(u), Looks(s, p, done, b, u, H),
         DOMAIN p.results = DOMAIN s, Mentions(s, "index") => Do("index") \in done,
         \A i \in DOMAIN s : <<"look", i>> \in done,
         NEW a, a.results = p.results
  PROVE  Faithful(s, a, b, u, H)
<1>1. PICK x : LooksAt(s, p, done, b, x, u, H)
  BY DEF Looks
<1>2. DiskOK(x) /\ Past(s, x, H) /\ Then(b, x) /\ Then(x, u) /\ (Mentions(s, "index") => p.index = x.index)
  BY <1>1 DEF LooksAt, Past
<1>3. ASSUME NEW i \in DOMAIN s
      PROVE  /\ IsValue(p.results[i]) => After(s[i], p.results[i], b) /\ Until(s[i], p.results[i], u)
             /\ p.results[i] = Broken \/ \E w : Past(s, w, H) /\ Then(w, u) /\ Like(p.results[i], Truth(s[i], w))
  <2>1. PICK d : Past(s, d, H) /\ Then(x, d) /\ Then(d, u) /\ p.results[i] = Looked(s[i], p.index, d)
    BY <1>1, <1>3 DEF LooksAt
  <2>2. DiskOK(d) /\ Then(b, d) /\ Then(d, d) /\ s[i].path \in Paths
    BY <2>1, <1>2, <1>3, ThenAll, ThenSame DEF Past, Items
  <2>3. PICK v : v = [d EXCEPT !.replacements = 0]
    OBVIOUS
  <2>4. PICK r : r = p.results[i]
    OBVIOUS
  <2>5. r = Entry(s[i], d.head, p.index, d.lost, d, v)
    BY <2>1, <2>3, <2>4 DEF Looked, Entry
  <2>6. \E w \in {x, d} : r = Broken \/ Tells(s[i], r, b, w, w)
    <3>1. CASE s[i].ref = "index"
      <4>1. p.index = x.index /\ ~Named(s[i]) /\ s[i].ref # "HEAD"
        BY <3>1, <1>2, <1>3 DEF Mentions, Named
      <4> QED BY <3>1, <4>1, <1>2, <2>1, <2>2, <2>5, EntryIs
    <3>2. CASE s[i].ref # "index"
      BY <3>2, <1>2, <2>1, <2>2, <2>5, EntryIs
    <3> QED BY <3>1, <3>2
  <2>7. PICK w \in {x, d} : r = Broken \/ Tells(s[i], r, b, w, w)
    BY <2>6
  <2>8. DiskOK(w) /\ Past(s, w, H) /\ Then(w, u)
    BY <2>1, <2>2, <1>2
  <2>9. ASSUME IsValue(r) PROVE After(s[i], r, b) /\ Until(s[i], r, u)
    <3>1. r # Broken
      BY <2>9, Results
    <3>2. After(s[i], r, b) /\ Until(s[i], r, w)
      BY <3>1, <2>7, <2>9 DEF Tells
    <3> QED BY <3>2, <2>8, UntilLater
  <2> QED BY <2>4, <2>7, <2>8, <2>9 DEF Tells
<1> QED BY <1>3 DEF Faithful

(* Steps of different names are different.                                 *)
LEMMA Apart ==
  /\ \A a, b : Do(a) = Do(b) <=> a = b
  /\ \A a, i : (<<"query", i>> = Do(a) => a = "query") /\ (<<"look", i>> = Do(a) => a = "look")
  /\ \A i, j : (<<"query", i>> = <<"query", j>> <=> i = j) /\ (<<"look", i>> = <<"look", j>> <=> i = j)
BY DEF Do

(* A query depends on what the pass read of HEAD and of references.        *)
LEMMA QueriedSame ==
  ASSUME NEW item, NEW p, NEW q, q.head = p.head, q.refs = p.refs, NEW d
  PROVE  Queried(item, q, d) = Queried(item, p, d)
BY DEF Queried

(* A snapshot starts, goes on while the disk moves, and takes its steps.   *)
LEMMA SnapStarts ==
  ASSUME NEW s, NEW p, NEW u, NEW H, Past(s, u, H)
  PROVE  Snap(s, p, {}, u, u, H)
BY ThenSame DEF Snap, SnapAt, Past

(* It holds what it holds while other programs write.                      *)
LEMMA SnapLater ==
  ASSUME NEW s, NEW p, NEW done, NEW b, NEW u, NEW H, DiskOK(u), Snap(s, p, done, b, u, H),
         NEW v, DiskOK(v), Then(u, v), NEW G, H \subseteq G
  PROVE  Snap(s, p, done, b, v, G)
<1>1. PICK h, x, l : SnapAt(s, p, done, b, h, x, l, u, H)
  BY DEF Snap
<1>2. \A w : Past(s, w, H) => Past(s, w, G) /\ DiskOK(w)
  BY DEF Past
<1>3. \A w : DiskOK(w) /\ Then(w, u) => Then(w, v)
  BY ThenAll
<1>4. SnapAt(s, p, done, b, h, x, l, v, G)
  <2>1. Then(l, v)
    BY <1>1, <1>2, <1>3 DEF SnapAt
  <2>2. \A i \in DOMAIN s : <<"query", i>> \in done =>
       \E d : Past(s, d, G) /\ Then(l, d) /\ Then(d, v) /\ p.results[i] = Queried(s[i], p, d)
    BY <1>1, <1>2, <1>3 DEF SnapAt
  <2> QED BY <1>1, <1>2, <2>1, <2>2 DEF SnapAt
<1> QED BY <1>4 DEF Snap

(* The configuration is read.                                              *)
LEMMA SnapConfig ==
  ASSUME NEW s, NEW p, NEW done, NEW b, DiskOK(b), NEW u, NEW H, Past(s, u, H), Snap(s, p, done, b, u, H),
         NEW q, q.config = u.config,
         Do("replacements") \notin done, Do("head") \notin done, Do("index") \notin done, Do("refs") \notin done,
         \A i \in DOMAIN s : <<"query", i>> \notin done
  PROVE  Snap(s, q, done \cup {Do("config")}, b, u, H)
<1>1. PICK h, x, l : SnapAt(s, p, done, b, h, x, l, u, H)
  BY DEF Snap
<1>2. DiskOK(u) /\ DiskOK(h) /\ DiskOK(x) /\ DiskOK(l) /\ Then(b, h) /\ Then(h, x) /\ Then(x, l) /\ Then(l, u)
  BY <1>1 DEF SnapAt, Past
<1>3. Then(b, u) /\ Then(u, u)
  BY <1>2, ThenAll, ThenSame
<1>4. q.config \in Nat /\ b.config <= q.config /\ q.config <= u.config
  BY <1>2, <1>3, DiskFields DEF Then
<1>5. SnapAt(s, q, done \cup {Do("config")}, b, u, u, u, u, H)
  BY <1>3, <1>4, Apart DEF SnapAt
<1> QED BY <1>5 DEF Snap

(* The replacements are read.                                              *)
LEMMA SnapReplacements ==
  ASSUME NEW s, NEW p, NEW done, NEW b, DiskOK(b), NEW u, NEW H, Past(s, u, H), Snap(s, p, done, b, u, H),
         NEW q, q.replacements = u.replacements, q.config = p.config,
         Do("head") \notin done, Do("index") \notin done, Do("refs") \notin done,
         \A i \in DOMAIN s : <<"query", i>> \notin done
  PROVE  Snap(s, q, done \cup {Do("replacements")}, b, u, H)
<1>1. PICK h, x, l : SnapAt(s, p, done, b, h, x, l, u, H)
  BY DEF Snap
<1>2. DiskOK(u) /\ DiskOK(h) /\ DiskOK(x) /\ DiskOK(l) /\ Then(b, h) /\ Then(h, x) /\ Then(x, l) /\ Then(l, u)
  BY <1>1 DEF SnapAt, Past
<1>3. Then(b, u) /\ Then(u, u) /\ Then(h, u)
  BY <1>2, ThenAll, ThenSame
<1>4. q.replacements \in Nat /\ b.replacements <= q.replacements /\ q.replacements <= u.replacements
  BY <1>2, <1>3, DiskFields DEF Then
<1>5. Do("config") \in done => q.config \in Nat /\ b.config <= q.config /\ q.config <= u.config
  BY <1>1, <1>2, <1>3, DiskFields DEF Then, SnapAt
<1>6. SnapAt(s, q, done \cup {Do("replacements")}, b, u, u, u, u, H)
  BY <1>3, <1>4, <1>5, Apart DEF SnapAt
<1> QED BY <1>6 DEF Snap

(* HEAD is read.                                                           *)
LEMMA SnapHead ==
  ASSUME NEW s, NEW p, NEW done, NEW b, DiskOK(b), NEW u, NEW H, Past(s, u, H), Snap(s, p, done, b, u, H),
         NEW q, q.head = u.head, q.config = p.config, q.replacements = p.replacements,
         Do("index") \notin done, Do("refs") \notin done,
         \A i \in DOMAIN s : <<"query", i>> \notin done
  PROVE  Snap(s, q, done \cup {Do("head")}, b, u, H)
<1>1. PICK h, x, l : SnapAt(s, p, done, b, h, x, l, u, H)
  BY DEF Snap
<1>2. DiskOK(u) /\ DiskOK(h) /\ DiskOK(x) /\ DiskOK(l) /\ Then(b, h) /\ Then(h, x) /\ Then(x, l) /\ Then(l, u)
  BY <1>1 DEF SnapAt, Past
<1>3. Then(b, u) /\ Then(u, u) /\ Then(h, u)
  BY <1>2, ThenAll, ThenSame
<1>4. Do("replacements") \in done =>
        q.replacements \in Nat /\ b.replacements <= q.replacements /\ q.replacements <= u.replacements
  BY <1>1, <1>2, <1>3, DiskFields DEF Then, SnapAt
<1>5. Do("config") \in done => q.config \in Nat /\ b.config <= q.config /\ q.config <= u.config
  BY <1>1, <1>2, <1>3, DiskFields DEF Then, SnapAt
<1>6. SnapAt(s, q, done \cup {Do("head")}, b, u, u, u, u, H)
  BY <1>3, <1>4, <1>5, Apart DEF SnapAt
<1> QED BY <1>6 DEF Snap

(* The index is read.                                                      *)
LEMMA SnapIndex ==
  ASSUME NEW s, NEW p, NEW done, NEW b, DiskOK(b), NEW u, NEW H, Past(s, u, H), Snap(s, p, done, b, u, H),
         NEW q, q.index = u.index, q.config = p.config, q.replacements = p.replacements, q.head = p.head,
         Do("refs") \notin done, \A i \in DOMAIN s : <<"query", i>> \notin done
  PROVE  Snap(s, q, done \cup {Do("index")}, b, u, H)
<1>1. PICK h, x, l : SnapAt(s, p, done, b, h, x, l, u, H)
  BY DEF Snap
<1>2. DiskOK(u) /\ DiskOK(h) /\ DiskOK(x) /\ DiskOK(l) /\ Then(b, h) /\ Then(h, x) /\ Then(x, l) /\ Then(l, u)
  BY <1>1 DEF SnapAt, Past
<1>3. Then(u, u) /\ Then(h, u)
  BY <1>2, ThenAll, ThenSame
<1>6. SnapAt(s, q, done \cup {Do("index")}, b, h, u, u, u, H)
  BY <1>1, <1>3, Apart DEF SnapAt
<1> QED BY <1>6 DEF Snap

(* The references are read.                                                *)
LEMMA SnapRefs ==
  ASSUME NEW s, NEW p, NEW done, NEW b, DiskOK(b), NEW u, NEW H, Past(s, u, H), Snap(s, p, done, b, u, H),
         NEW q, q.refs = u.lost, q.config = p.config, q.replacements = p.replacements, q.head = p.head, q.index = p.index,
         \A i \in DOMAIN s : <<"query", i>> \notin done
  PROVE  Snap(s, q, done \cup {Do("refs")}, b, u, H)
<1>1. PICK h, x, l : SnapAt(s, p, done, b, h, x, l, u, H)
  BY DEF Snap
<1>2. DiskOK(u) /\ DiskOK(h) /\ DiskOK(x) /\ DiskOK(l) /\ Then(b, h) /\ Then(h, x) /\ Then(x, l) /\ Then(l, u)
  BY <1>1 DEF SnapAt, Past
<1>3. Then(u, u) /\ Then(x, u)
  BY <1>2, ThenAll, ThenSame
<1>6. SnapAt(s, q, done \cup {Do("refs")}, b, h, x, u, u, H)
  BY <1>1, <1>3, Apart DEF SnapAt
<1> QED BY <1>6 DEF Snap

(* An item is asked for.                                                   *)
LEMMA SnapQuery ==
  ASSUME NEW s, NEW p, NEW done, NEW b, DiskOK(b), NEW u, NEW H, Past(s, u, H), Snap(s, p, done, b, u, H),
         NEW j \in DOMAIN s, NEW q, q.config = p.config, q.replacements = p.replacements, q.head = p.head,
         q.index = p.index, q.refs = p.refs, q.results[j] = Queried(s[j], p, u),
         \A i \in DOMAIN s : i # j => q.results[i] = p.results[i]
  PROVE  Snap(s, q, done \cup {<<"query", j>>}, b, u, H)
<1>1. PICK h, x, l : SnapAt(s, p, done, b, h, x, l, u, H)
  BY DEF Snap
<1>2. DiskOK(u) /\ DiskOK(l) /\ Then(l, u) /\ Then(u, u)
  BY <1>1, ThenSame DEF SnapAt, Past
<1>3. \A i \in DOMAIN s : <<"query", i>> \in done \cup {<<"query", j>>} =>
       \E d : Past(s, d, H) /\ Then(l, d) /\ Then(d, u) /\ q.results[i] = Queried(s[i], q, d)
  <2> TAKE i \in DOMAIN s
  <2> HAVE <<"query", i>> \in done \cup {<<"query", j>>}
  <2>1. CASE i = j
    BY <2>1, <1>2, QueriedSame
  <2>2. CASE i # j
    <3>1. PICK d : Past(s, d, H) /\ Then(l, d) /\ Then(d, u) /\ p.results[i] = Queried(s[i], p, d)
      BY <2>2, <1>1, Apart DEF SnapAt
    <3> QED BY <2>2, <3>1, QueriedSame
  <2> QED BY <2>1, <2>2
<1>4. \A a : Do(a) \in done \cup {<<"query", j>>} => Do(a) \in done \/ a = "query"
  BY Apart
<1>6. SnapAt(s, q, done \cup {<<"query", j>>}, b, h, x, l, u, H)
  BY <1>1, <1>3, <1>4 DEF SnapAt
<1> QED BY <1>6 DEF Snap

-----------------------------------------------------------------------------
(* A pass of the bridge's own reader starts,                               *)
LEMMA LooksStarts ==
  ASSUME NEW s, NEW p, NEW u, NEW H, Past(s, u, H)
  PROVE  Looks(s, p, {}, u, u, H)
BY ThenSame DEF Looks, LooksAt, Past

(* goes on while other programs write,                                     *)
LEMMA LooksLater ==
  ASSUME NEW s, NEW p, NEW done, NEW b, NEW u, NEW H, DiskOK(u), Looks(s, p, done, b, u, H),
         NEW v, DiskOK(v), Then(u, v), NEW G, H \subseteq G
  PROVE  Looks(s, p, done, b, v, G)
<1>1. PICK x : LooksAt(s, p, done, b, x, u, H)
  BY DEF Looks
<1>2. \A w : Past(s, w, H) => Past(s, w, G) /\ DiskOK(w)
  BY DEF Past
<1>3. \A w : DiskOK(w) /\ Then(w, u) => Then(w, v)
  BY ThenAll
<1>4. LooksAt(s, p, done, b, x, v, G)
  BY <1>1, <1>2, <1>3 DEF LooksAt
<1> QED BY <1>4 DEF Looks

(* reads the index,                                                        *)
LEMMA LooksIndex ==
  ASSUME NEW s, NEW p, NEW done, NEW b, DiskOK(b), NEW u, NEW H, Past(s, u, H), Looks(s, p, done, b, u, H),
         NEW q, q.index = u.index, \A i \in DOMAIN s : <<"look", i>> \notin done
  PROVE  Looks(s, q, done \cup {Do("index")}, b, u, H)
<1>1. PICK x : LooksAt(s, p, done, b, x, u, H)
  BY DEF Looks
<1>2. Then(b, u) /\ Then(u, u)
  BY <1>1, ThenAll, ThenSame DEF LooksAt, Past
<1>3. LooksAt(s, q, done \cup {Do("index")}, b, u, u, H)
  BY <1>2, Apart DEF LooksAt
<1> QED BY <1>3 DEF Looks

(* and looks at an item.                                                   *)
LEMMA LooksLook ==
  ASSUME NEW s, NEW p, NEW done, NEW b, DiskOK(b), NEW u, NEW H, Past(s, u, H), Looks(s, p, done, b, u, H),
         NEW j \in DOMAIN s, NEW q, q.index = p.index, q.results[j] = Looked(s[j], p.index, u),
         \A i \in DOMAIN s : i # j => q.results[i] = p.results[i]
  PROVE  Looks(s, q, done \cup {<<"look", j>>}, b, u, H)
<1>1. PICK x : LooksAt(s, p, done, b, x, u, H)
  BY DEF Looks
<1>2. Then(x, u) /\ Then(u, u)
  BY <1>1, ThenSame DEF LooksAt, Past
<1>3. \A i \in DOMAIN s : <<"look", i>> \in done \cup {<<"look", j>>} =>
       \E d : Past(s, d, H) /\ Then(x, d) /\ Then(d, u) /\ q.results[i] = Looked(s[i], q.index, d)
  <2> TAKE i \in DOMAIN s
  <2> HAVE <<"look", i>> \in done \cup {<<"look", j>>}
  <2>1. CASE i = j
    BY <2>1, <1>2
  <2>2. CASE i # j
    BY <2>2, <1>1, Apart DEF LooksAt
  <2> QED BY <2>1, <2>2
<1>4. LooksAt(s, q, done \cup {<<"look", j>>}, b, x, u, H)
  BY <1>1, <1>3, Apart DEF LooksAt
<1> QED BY <1>4 DEF Looks

-----------------------------------------------------------------------------
(* A pass that is done stays one.                                          *)
LEMMA FaithfulLater ==
  ASSUME NEW s, NEW a, NEW b, NEW u, NEW H, DiskOK(u), Faithful(s, a, b, u, H),
         NEW v, DiskOK(v), Then(u, v), NEW G, H \subseteq G
  PROVE  Faithful(s, a, b, v, G)
<1>1. \A w : Past(s, w, H) => Past(s, w, G) /\ DiskOK(w)
  BY DEF Past
<1>2. \A w : DiskOK(w) /\ Then(w, u) => Then(w, v)
  BY ThenAll
<1>3. ASSUME NEW i \in DOMAIN s
      PROVE  /\ IsValue(a.results[i]) => After(s[i], a.results[i], b) /\ Until(s[i], a.results[i], v)
             /\ a.results[i] = Broken \/ \E w : Past(s, w, G) /\ Then(w, v) /\ Like(a.results[i], Truth(s[i], w))
  <2>1. IsValue(a.results[i]) => After(s[i], a.results[i], b) /\ Until(s[i], a.results[i], u)
    BY <1>3 DEF Faithful
  <2>2. IsValue(a.results[i]) => Until(s[i], a.results[i], v)
    BY <2>1, UntilLater
  <2>3. a.results[i] = Broken \/ \E w : Past(s, w, H) /\ Then(w, u) /\ Like(a.results[i], Truth(s[i], w))
    BY <1>3 DEF Faithful
  <2>4. a.results[i] = Broken \/ \E w : Past(s, w, G) /\ Then(w, v) /\ Like(a.results[i], Truth(s[i], w))
    BY <2>3, <1>1, <1>2
  <2> QED BY <2>1, <2>2, <2>4
<1> QED BY <1>3 DEF Faithful

(* The instants at which it met stay.                                      *)
LEMMA MetLater ==
  ASSUME NEW s, NEW a, NEW b, NEW u, NEW H, DiskOK(u), Met(s, a, b, u, H),
         NEW v, DiskOK(v), Then(u, v), NEW G, H \subseteq G
  PROVE  Met(s, a, b, v, G)
<1>1. \A w : Instant(s, a, w, u, H) => Instant(s, a, w, v, G)
  BY ThenAll DEF Past, Instant
<1>2. \A i \in DOMAIN s : IsValue(a.results[i]) =>
       a.results[i].as \in Nat /\ a.replacements <= a.results[i].as /\ a.results[i].as <= v.replacements
  BY DiskFields DEF Met, Then
<1>3. \E w : Instant(s, a, w, v, G) /\ \A i \in DOMAIN s : s[i].ref = "HEAD" => Like(a.results[i], Truth(s[i], w))
  BY <1>1 DEF Met
<1>4. \A i \in DOMAIN s : \E w : Instant(s, a, w, v, G) /\ Like(a.results[i], Truth(s[i], w))
  BY <1>1 DEF Met
<1>5. \E w : /\ Instant(s, a, w, v, G)
             /\ \A i \in DOMAIN s :
                 /\ IsValue(a.results[i]) => Until(s[i], a.results[i], w)
                 /\ s[i].ref = "index" /\ a.results[i] = Absent => w.index[s[i].path] = None
  BY <1>1 DEF Met
<1> QED BY <1>2, <1>3, <1>4, <1>5 DEF Met

-----------------------------------------------------------------------------
(* One step of a pass.                                                     *)

(* A request with its fields.                                              *)
IsJob(j) == j = [kind |-> j.kind, items |-> j.items, todo |-> j.todo, pass |-> j.pass,
                 first |-> j.first, shown |-> j.shown, reply |-> j.reply]

(* What each step does.                                                    *)
LEMMA AdvancedIs ==
  ASSUME NEW job
  PROVE  /\ Advanced(job, Do("scope")) = Scope(job)
         /\ Advanced(job, Do("config")) = [job EXCEPT !.pass = [job.pass EXCEPT !.config = disk.config]]
         /\ Advanced(job, Do("replacements")) = [job EXCEPT !.pass = [job.pass EXCEPT !.replacements = disk.replacements]]
         /\ Advanced(job, Do("head")) = [job EXCEPT !.pass = [job.pass EXCEPT !.head = disk.head]]
         /\ Advanced(job, Do("index")) = [job EXCEPT !.pass = [job.pass EXCEPT !.index = disk.index]]
         /\ Advanced(job, Do("refs")) = [job EXCEPT !.pass = [job.pass EXCEPT !.refs = disk.lost]]
         /\ \A i : Advanced(job, <<"query", i>>) = Query(job, i)
         /\ Advanced(job, Do("recheck")) = Recheck(job)
         /\ Advanced(job, Do("objects")) = Objects(job)
         /\ \A i : Advanced(job, <<"look", i>>) = Look(job, i)
         /\ Advanced(job, Do("content")) = Content(job)
         /\ Advanced(job, Do("again")) = [job EXCEPT !.first = Pass(job), !.pass = NoPass(Len(job.items))]
         /\ Advanced(job, Do("compare")) = Compare(job)
         /\ Advanced(job, Do("merge")) = Merge(job)
         /\ Advanced(job, Do("first")) = First(job)
         /\ Advanced(job, Do("second")) = Second(job)
<1>1. Advanced(job, Do("scope")) = Scope(job)
  BY DEF Advanced, Do
<1>2. Advanced(job, Do("config")) = [job EXCEPT !.pass = [job.pass EXCEPT !.config = disk.config]]
  BY DEF Advanced, Do
<1>3. Advanced(job, Do("replacements")) = [job EXCEPT !.pass = [job.pass EXCEPT !.replacements = disk.replacements]]
  BY DEF Advanced, Do
<1>4. Advanced(job, Do("head")) = [job EXCEPT !.pass = [job.pass EXCEPT !.head = disk.head]]
  BY DEF Advanced, Do
<1>5. Advanced(job, Do("index")) = [job EXCEPT !.pass = [job.pass EXCEPT !.index = disk.index]]
  BY DEF Advanced, Do
<1>6. Advanced(job, Do("refs")) = [job EXCEPT !.pass = [job.pass EXCEPT !.refs = disk.lost]]
  BY DEF Advanced, Do, Refs
<1>7. \A i : Advanced(job, <<"query", i>>) = Query(job, i)
  BY DEF Advanced
<1>8. Advanced(job, Do("recheck")) = Recheck(job)
  BY DEF Advanced, Do
<1>9. Advanced(job, Do("objects")) = Objects(job)
  BY DEF Advanced, Do
<1>10. \A i : Advanced(job, <<"look", i>>) = Look(job, i)
  BY DEF Advanced
<1>11. Advanced(job, Do("content")) = Content(job)
  BY DEF Advanced, Do
<1>12. Advanced(job, Do("again")) = [job EXCEPT !.first = Pass(job), !.pass = NoPass(Len(job.items))]
  BY DEF Advanced, Do
<1>13. Advanced(job, Do("compare")) = Compare(job)
  BY DEF Advanced, Do
<1>14. Advanced(job, Do("merge")) = Merge(job)
  BY DEF Advanced, Do
<1>15. Advanced(job, Do("first")) = First(job)
  BY DEF Advanced, Do
<1>16. Advanced(job, Do("second")) = Second(job)
  BY DEF Advanced, Do
<1> QED BY <1>1, <1>2, <1>3, <1>4, <1>5, <1>6, <1>7, <1>8, <1>9, <1>10, <1>11, <1>12, <1>13, <1>14, <1>15, <1>16

(* The next step of a pass, and what is done before and after it.          *)
LEMMA NextStep ==
  ASSUME NEW n \in Nat, NEW X, X # <<>>, NEW All, Left(n, X, All), NEW done, done = All \ Range(X),
         NEW s, s = Head(X)
  PROVE  /\ s \in All /\ s \notin done /\ Left(n, Tail(X), All) /\ All \ Range(Tail(X)) = done \cup {s}
         /\ \A t : Stage(n, s) < Stage(n, t) => t \notin done
         /\ \A t \in All : Stage(n, t) < Stage(n, s) => t \in done
BY LeftNext

-----------------------------------------------------------------------------
(* A pass X of which is left; its last step of a snapshot checks it.       *)
LastRead(fast) == Do(IF fast THEN "recheck" ELSE "objects")

During(s, kind, fast, X, p, b, u, H) ==
  LET All == Range(PassOf(kind, s, fast))
      done == All \ Range(X)
      a == Answer(p.config, p.replacements, p.results)
  IN /\ IsPass(p) /\ DOMAIN p.results = DOMAIN s
     /\ Left(Len(s), X, All)
     /\ IF ~Snaps(kind) THEN Looks(s, p, done, b, u, H)
        ELSE IF LastRead(fast) \in done THEN Faithful(s, a, b, u, H) /\ Met(s, a, b, u, H)
        ELSE Snap(s, p, done, b, u, H)

(* A pass starts with nothing done.                                        *)
LEMMA DuringStarts ==
  ASSUME NEW s, Items(s), NEW kind, NEW fast \in BOOLEAN, NEW u, NEW H, Past(s, u, H)
  PROVE  During(s, kind, fast, PassOf(kind, s, fast), NoPass(Len(s)), u, u, H)
<1>1. s \in Seq(Range(s)) /\ DOMAIN s = 1..Len(s)
  BY LenProperties DEF Items
<1>2. Left(Len(s), PassOf(kind, s, fast), Range(PassOf(kind, s, fast)))
  BY <1>1, PassIs
<1>3. IsPass(NoPass(Len(s))) /\ DOMAIN NoPass(Len(s)).results = DOMAIN s
  BY <1>1 DEF NoPass, IsPass
<1>4. Range(PassOf(kind, s, fast)) \ Range(PassOf(kind, s, fast)) = {}
  OBVIOUS
<1>5. \A p : Snap(s, p, {}, u, u, H) /\ Looks(s, p, {}, u, u, H)
  BY SnapStarts, LooksStarts
<1> QED BY <1>2, <1>3, <1>4, <1>5 DEF During

(* A pass goes on while other programs write.                              *)
LEMMA DuringLater ==
  ASSUME NEW s, NEW kind, NEW fast, NEW X, NEW p, NEW b, NEW u, NEW H, DiskOK(u), During(s, kind, fast, X, p, b, u, H),
         NEW v, DiskOK(v), Then(u, v), NEW G, H \subseteq G
  PROVE  During(s, kind, fast, X, p, b, v, G)
<1> DEFINE done == Range(PassOf(kind, s, fast)) \ Range(X)
           a == Answer(p.config, p.replacements, p.results)
<1>1. CASE ~Snaps(kind)
  BY <1>1, LooksLater DEF During
<1>2. CASE Snaps(kind) /\ LastRead(fast) \in done
  <2>1. Faithful(s, a, b, u, H) /\ Met(s, a, b, u, H)
    BY <1>2 DEF During
  <2>2. Faithful(s, a, b, v, G)
    BY <2>1, FaithfulLater
  <2>3. Met(s, a, b, v, G)
    BY <2>1, MetLater
  <2> QED BY <1>2, <2>2, <2>3 DEF During
<1>3. CASE Snaps(kind) /\ LastRead(fast) \notin done
  BY <1>3, SnapLater DEF During
<1> QED BY <1>1, <1>2, <1>3

(* A step of a pass ends the request with a failure or is one of During.   *)
Goes(job, q, fast, X, b, H) ==
  \/ \E code : q = End(job, code, None)
  \/ \E p : q = [job EXCEPT !.pass = p] /\ During(job.items, job.kind, fast, X, p, b, disk, H)

(* A request that ends keeps what it had.                                  *)
LEMMA EndIs ==
  ASSUME NEW job, IsJob(job), job.todo # <<>>, NEW code, NEW answer
  PROVE  LET q == End(job, code, answer) IN
         /\ q # job /\ q.todo = <<>> /\ IsJob(q) /\ q.items = job.items /\ q.kind = job.kind
         /\ q.reply = [code |-> code, answer |-> answer] /\ q.pass = job.pass /\ q.first = job.first /\ q.shown = job.shown
<1>1. PICK q : q = End(job, code, answer)
  OBVIOUS
<1>2. PICK r : r = [code |-> code, answer |-> answer]
  OBVIOUS
<1>3. q = [job EXCEPT !.todo = <<>>, !.reply = r]
  BY <1>1, <1>2 DEF End
<1>4. IsJob(q) /\ q.todo = <<>> /\ q.reply = r /\ q.items = job.items /\ q.kind = job.kind
      /\ q.pass = job.pass /\ q.first = job.first /\ q.shown = job.shown
  BY <1>3 DEF IsJob
<1> QED BY <1>1, <1>2, <1>4

(* No step after `step' is done.                                           *)
InOrder(n, step, done) == \A t : Stage(n, step) < Stage(n, t) => t \notin done

ReadStep(step) == step \in {Do("config"), Do("replacements"), Do("head"), Do("index"), Do("refs")}
Reads(job, q, step) ==
  /\ Advanced(job, step) = [job EXCEPT !.pass = q]
  /\ IsPass(q) /\ q.results = job.pass.results

(* The steps that read the repository for the whole of a snapshot.         *)
LEMMA SnapReads ==
  ASSUME NEW job, NEW s, Items(s), NEW n, n = Len(s), NEW p, p = job.pass, IsPass(p), NEW done, NEW b, DiskOK(b), NEW H,
         Past(s, disk, H), Snap(s, p, done, b, disk, H),
         NEW step, ReadStep(step),
         InOrder(n, step, done)
  PROVE  \E q : Reads(job, q, step) /\ Snap(s, q, done \cup {step}, b, disk, H)
<1>1. n \in Nat /\ DOMAIN s = 1..n /\ s \in Seq(Range(s))
  BY LenProperties DEF Items
<1>2. /\ Stage(n, Do("config")) = 1 /\ Stage(n, Do("replacements")) = 2 /\ Stage(n, Do("head")) = 3
      /\ Stage(n, Do("index")) = 4 /\ Stage(n, Do("refs")) = 5
      /\ \A i : Stage(n, <<"query", i>>) = 5 + i
  BY <1>1, StageIs
<1>3. \A i \in DOMAIN s : <<"query", i>> \notin done
  <2> TAKE i \in DOMAIN s
  <2>1. 5 + i > 5 /\ 5 + i \in Int /\ Stage(n, <<"query", i>>) = 5 + i
    BY <1>1, <1>2
  <2>2. Stage(n, step) \in 1..5
    BY <1>2 DEF ReadStep
  <2> QED BY <2>1, <2>2 DEF InOrder
<1>4. CASE step = Do("config")
  <2>1. PICK q : q = [p EXCEPT !.config = disk.config]
    OBVIOUS
  <2>2. /\ IsPass(q) /\ q.config = disk.config
        /\ q.results = p.results
    BY <2>1 DEF IsPass
  <2>3. Do("replacements") \notin done /\ Do("head") \notin done /\ Do("index") \notin done /\ Do("refs") \notin done
    BY <1>2, <1>4 DEF InOrder
  <2>4. Snap(s, q, done \cup {step}, b, disk, H)
    BY <1>3, <1>4, <2>2, <2>3, SnapConfig
  <2> QED BY <1>4, <2>1, <2>2, <2>4, AdvancedIs DEF Reads
<1>5. CASE step = Do("replacements")
  <2>1. PICK q : q = [p EXCEPT !.replacements = disk.replacements]
    OBVIOUS
  <2>2. /\ IsPass(q) /\ q.replacements = disk.replacements
        /\ q.config = p.config /\ q.results = p.results
    BY <2>1 DEF IsPass
  <2>3. Do("head") \notin done /\ Do("index") \notin done /\ Do("refs") \notin done
    BY <1>2, <1>5 DEF InOrder
  <2>4. Snap(s, q, done \cup {step}, b, disk, H)
    BY <1>3, <1>5, <2>2, <2>3, SnapReplacements
  <2> QED BY <1>5, <2>1, <2>2, <2>4, AdvancedIs DEF Reads
<1>6. CASE step = Do("head")
  <2>1. PICK q : q = [p EXCEPT !.head = disk.head]
    OBVIOUS
  <2>2. /\ IsPass(q) /\ q.head = disk.head
        /\ q.config = p.config /\ q.replacements = p.replacements /\ q.results = p.results
    BY <2>1 DEF IsPass
  <2>3. Do("index") \notin done /\ Do("refs") \notin done
    BY <1>2, <1>6 DEF InOrder
  <2>4. Snap(s, q, done \cup {step}, b, disk, H)
    BY <1>3, <1>6, <2>2, <2>3, SnapHead
  <2> QED BY <1>6, <2>1, <2>2, <2>4, AdvancedIs DEF Reads
<1>7. CASE step = Do("index")
  <2>1. PICK q : q = [p EXCEPT !.index = disk.index]
    OBVIOUS
  <2>2. /\ IsPass(q) /\ q.index = disk.index
        /\ q.config = p.config /\ q.replacements = p.replacements /\ q.head = p.head /\ q.results = p.results
    BY <2>1 DEF IsPass
  <2>3. Do("refs") \notin done
    BY <1>2, <1>7 DEF InOrder
  <2>4. Snap(s, q, done \cup {step}, b, disk, H)
    BY <1>3, <1>7, <2>2, <2>3, SnapIndex
  <2> QED BY <1>7, <2>1, <2>2, <2>4, AdvancedIs DEF Reads
<1>8. CASE step = Do("refs")
  <2>1. PICK q : q = [p EXCEPT !.refs = disk.lost]
    OBVIOUS
  <2>2. /\ IsPass(q) /\ q.refs = disk.lost
        /\ q.config = p.config /\ q.replacements = p.replacements /\ q.head = p.head /\ q.index = p.index /\ q.results = p.results
    BY <2>1 DEF IsPass
  <2>4. Snap(s, q, done \cup {step}, b, disk, H)
    BY <1>3, <1>8, <2>2, SnapRefs
  <2> QED BY <1>8, <2>1, <2>2, <2>4, AdvancedIs DEF Reads
<1> QED BY <1>4, <1>5, <1>6, <1>7, <1>8 DEF ReadStep

(* A step of a snapshot that asks git for each item.                       *)
LEMMA FastStep ==
  ASSUME NEW job, IsJob(job), job.todo # <<>>, Items(job.items), Snaps(job.kind), NEW X, X # <<>>, NEW b, DiskOK(b), NEW H,
         Past(job.items, disk, H), During(job.items, job.kind, TRUE, X, job.pass, b, disk, H)
  PROVE  Goes(job, Advanced(job, Head(X)), TRUE, Tail(X), b, H)
<1>0. PICK s : s = job.items
  OBVIOUS
<1>01. PICK n : n = Len(s)
  OBVIOUS
<1>02. PICK p : p = job.pass
  OBVIOUS
<1>03. PICK All : All = Range(PassOf(job.kind, s, TRUE))
  OBVIOUS
<1>04. PICK done : done = All \ Range(X)
  OBVIOUS
<1>05. PICK step : step = Head(X)
  OBVIOUS
<1>06. PICK late : late = Do("recheck")
  OBVIOUS
<1>1. n \in Nat /\ DOMAIN s = 1..n /\ s \in Seq(Range(s))
  BY <1>0, <1>01, LenProperties DEF Items
<1>100. /\ Stage(n, Do("config")) = 1 /\ Stage(n, Do("replacements")) = 2 /\ Stage(n, Do("head")) = 3
        /\ Stage(n, Do("index")) = 4 /\ Stage(n, Do("refs")) = 5 /\ Stage(n, late) = 6 + n
        /\ \A i \in DOMAIN s : Stage(n, <<"query", i>>) = 5 + i /\ 5 + i > 5 /\ 5 + i < 6 + n
  <2>1. /\ Stage(n, Do("config")) = 1 /\ Stage(n, Do("replacements")) = 2 /\ Stage(n, Do("head")) = 3
        /\ Stage(n, Do("index")) = 4 /\ Stage(n, Do("refs")) = 5 /\ Stage(n, Do("recheck")) = 6 + n
    BY <1>1, StageIs
  <2>2. \A i \in DOMAIN s : Stage(n, <<"query", i>>) = 5 + i
    BY <1>1, StageIs
  <2>3. \A i \in DOMAIN s : 5 + i > 5 /\ 5 + i < 6 + n
    BY <1>1
  <2> QED BY <1>06, <2>1, <2>2, <2>3
<1>2. All = (({Do("config"), Do("replacements")} \cup If(Mentions(s, "HEAD"), "head"))
               \cup ((If(MentionsCommit(s), "refs") \cup Each("query", n)) \cup {late}))
  BY <1>1, <1>01, <1>03, <1>06, FastIs DEF PassOf
<1>3. /\ step \in All /\ step \notin done /\ Left(n, Tail(X), All) /\ All \ Range(Tail(X)) = done \cup {step}
      /\ \A t : Stage(n, step) < Stage(n, t) => t \notin done
      /\ \A t \in All : Stage(n, t) < Stage(n, step) => t \in done
  <2>1. Left(n, X, All)
    BY <1>0, <1>01, <1>03 DEF During
  <2> QED BY <1>04, <1>05, <1>1, <2>1, NextStep
<1>4. step \in {Do("config"), Do("replacements"), Do("head"), Do("refs"), late} \/ \E i \in 1..n : step = <<"query", i>>
  BY <1>2, <1>3 DEF If, Each
<1>5. LastRead(TRUE) = late
  BY <1>06 DEF LastRead
<1>6. IsPass(p) /\ DOMAIN p.results = DOMAIN s
  BY <1>0, <1>02 DEF During
<1>7. late \notin done
  <2>1. step # late => Stage(n, step) < Stage(n, late)
    <3>1. CASE \E i \in 1..n : step = <<"query", i>>
      <4>1. PICK i \in 1..n : step = <<"query", i>>
        BY <3>1
      <4>2. Stage(n, step) = 5 + i /\ Stage(n, late) = 6 + n
        BY <4>1, <1>1, <1>06, <1>100
      <4> QED BY <4>2, <1>1
    <3>2. CASE step \in {Do("config"), Do("replacements"), Do("head"), Do("refs")}
      BY <3>2, <1>1, <1>06, <1>100
    <3> QED BY <3>1, <3>2, <1>4
  <2> QED BY <2>1, <1>3
<1>8. Snap(s, p, done, b, disk, H)
  BY <1>0, <1>02, <1>03, <1>04, <1>5, <1>7 DEF During
<1>9. \A q : step # late /\ IsPass(q) /\ DOMAIN q.results = DOMAIN s /\ Snap(s, q, done \cup {step}, b, disk, H)
        => During(s, job.kind, TRUE, Tail(X), q, b, disk, H)
  <2> TAKE q
  <2> HAVE step # late /\ IsPass(q) /\ DOMAIN q.results = DOMAIN s /\ Snap(s, q, done \cup {step}, b, disk, H)
  <2>1. late \notin done \cup {step}
    BY <1>7
  <2> QED BY <2>1, <1>01, <1>03, <1>3, <1>5 DEF During
<1>99. Past(s, disk, H)
  BY <1>0
<1>10. CASE step \in {Do("config"), Do("replacements"), Do("head"), Do("refs")}
  <2>1. PICK q : Reads(job, q, step) /\ Snap(s, q, done \cup {step}, b, disk, H)
    <3>1. /\ Items(s) /\ n = Len(s) /\ p = job.pass /\ IsPass(p) /\ Past(s, disk, H) /\ Snap(s, p, done, b, disk, H)
          /\ ReadStep(step)
          /\ InOrder(n, step, done)
      BY <1>0, <1>01, <1>02, <1>3, <1>6, <1>8, <1>99, <1>10 DEF InOrder, ReadStep
    <3> QED BY <3>1, SnapReads
  <2>2. step # late
    BY <1>06, <1>10, Apart
  <2> QED BY <1>0, <1>02, <1>05, <1>6, <1>9, <2>1, <2>2 DEF Goes, Reads
<1>14. ASSUME NEW i \in 1..n, step = <<"query", i>>
       PROVE  Goes(job, Advanced(job, Head(X)), TRUE, Tail(X), b, H)
  <2>0. PICK r : r = Queried(s[i], p, disk)
    OBVIOUS
  <2>1. PICK res : res = [p.results EXCEPT ![i] = r]
    OBVIOUS
  <2>2. DOMAIN res = DOMAIN s /\ res[i] = r /\ \A j \in DOMAIN s : j # i => res[j] = p.results[j]
    BY <2>1, <1>1, <1>6
  <2>3. PICK q : q = [p EXCEPT !.results = res]
    OBVIOUS
  <2>4. /\ IsPass(q) /\ q.results = res /\ q.config = p.config /\ q.replacements = p.replacements
        /\ q.head = p.head /\ q.index = p.index /\ q.refs = p.refs
    BY <2>3, <1>6 DEF IsPass
  <2>5. i \in DOMAIN s /\ q.results[i] = Queried(s[i], p, disk) /\ \A j \in DOMAIN s : j # i => q.results[j] = p.results[j]
    BY <2>0, <2>2, <2>4, <1>1
  <2>6. Snap(s, q, done \cup {step}, b, disk, H)
    BY <1>8, <1>99, <1>14, <2>4, <2>5, SnapQuery
  <2>7. step # late
    BY <1>06, <1>14, Apart
  <2>8. Advanced(job, step) = [job EXCEPT !.pass = q]
    <3>1. Advanced(job, step) = Query(job, i)
      BY <1>14, AdvancedIs
    <3>2. Query(job, i) = [job EXCEPT !.pass = [job.pass EXCEPT !.results = [job.pass.results EXCEPT ![i] = Queried(job.items[i], job.pass, disk)]]]
      BY DEF Query
    <3> QED BY <3>1, <3>2, <1>0, <1>02, <2>0, <2>1, <2>3
  <2> QED BY <1>0, <1>05, <1>9, <2>2, <2>4, <2>6, <2>7, <2>8 DEF Goes
<1>15. CASE step = late
  <2>1. Advanced(job, Head(X)) = Recheck(job)
    BY <1>05, <1>06, <1>15, AdvancedIs
  <2>2. CASE \E code : Recheck(job) = End(job, code, None)
    BY <2>1, <2>2 DEF Goes
  <2>3. CASE \A code : Recheck(job) # End(job, code, None)
    <3>0. Recheck(job) = job /\ \A i \in DOMAIN s : p.results[i] = Absent /\ RefError(s[i], p.head, p.refs) = None =>
           ~(Named(s[i]) /\ s[i].ref \in disk.lost) /\ EntryAt(s[i], p.head, disk.index) = None
      BY <2>3, <1>0, <1>02 DEF Recheck, Fails, Stale
    <3>1. /\ Do("config") \in done /\ Do("replacements") \in done
          /\ Mentions(s, "HEAD") => Do("head") \in done
          /\ MentionsCommit(s) => Do("refs") \in done
          /\ \A i \in DOMAIN s : <<"query", i>> \in done
      <4>1. Stage(n, step) = 6 + n
        BY <1>1, <1>06, <1>15, StageIs
      <4>2. Do("config") \in done /\ Do("replacements") \in done
        BY <4>1, <1>1, <1>2, <1>3, <1>100
      <4>3. ASSUME Mentions(s, "HEAD") PROVE Do("head") \in done
        <5>1. Do("head") \in All
          BY <4>3, <1>2 DEF If
        <5> QED BY <5>1, <4>1, <1>1, <1>3, <1>100
      <4>4. ASSUME MentionsCommit(s) PROVE Do("refs") \in done
        <5>1. Do("refs") \in All
          BY <4>4, <1>2 DEF If
        <5> QED BY <5>1, <4>1, <1>1, <1>3, <1>100
      <4>5. ASSUME NEW i \in DOMAIN s PROVE <<"query", i>> \in done
        <5>1. <<"query", i>> \in All
          BY <4>5, <1>1, <1>2 DEF Each
        <5>2. Stage(n, <<"query", i>>) = 5 + i
          BY <1>100, <4>5
        <5> QED BY <5>1, <5>2, <4>1, <4>5, <1>1, <1>3
      <4> QED BY <4>2, <4>3, <4>4, <4>5
    <3>2. PICK a : a = Answer(p.config, p.replacements, p.results)
      OBVIOUS
    <3>3. a.config = p.config /\ a.replacements = p.replacements /\ a.results = p.results
      BY <3>2 DEF Answer
    <3>4. Items(s)
      BY <1>0
    <3>5. Faithful(s, a, b, disk, H) /\ Met(s, a, b, disk, H)
      BY <3>0, <3>1, <3>3, <3>4, <1>99, <1>6, <1>8, FastComplete
    <3>6. During(s, job.kind, TRUE, Tail(X), p, b, disk, H)
      <4>1. late \in done \cup {step}
        BY <1>15
      <4> QED BY <4>1, <3>2, <3>5, <1>01, <1>03, <1>3, <1>5, <1>6 DEF During
    <3>7. job = [job EXCEPT !.pass = p]
      BY <1>02 DEF IsJob
    <3> QED BY <2>1, <3>0, <3>6, <3>7, <1>0 DEF Goes
  <2> QED BY <2>2, <2>3
<1>16. step = Head(X)
  BY <1>05
<1> QED BY <1>4, <1>10, <1>14, <1>15, <1>16

(* A step of a snapshot that reads the objects at its end.                 *)
LEMMA SlowStep ==
  ASSUME NEW job, IsJob(job), job.todo # <<>>, Items(job.items), Snaps(job.kind), NEW X, X # <<>>, NEW b, DiskOK(b), NEW H,
         Past(job.items, disk, H), During(job.items, job.kind, FALSE, X, job.pass, b, disk, H)
  PROVE  Goes(job, Advanced(job, Head(X)), FALSE, Tail(X), b, H)
<1>0. PICK s : s = job.items
  OBVIOUS
<1>01. PICK n : n = Len(s)
  OBVIOUS
<1>02. PICK p : p = job.pass
  OBVIOUS
<1>03. PICK All : All = Range(PassOf(job.kind, s, FALSE))
  OBVIOUS
<1>04. PICK done : done = All \ Range(X)
  OBVIOUS
<1>05. PICK step : step = Head(X)
  OBVIOUS
<1>1. n \in Nat /\ DOMAIN s = 1..n /\ s \in Seq(Range(s))
  BY <1>0, <1>01, LenProperties DEF Items
<1>3. /\ step \in All /\ step \notin done /\ Left(n, Tail(X), All) /\ All \ Range(Tail(X)) = done \cup {step}
      /\ \A t : Stage(n, step) < Stage(n, t) => t \notin done
      /\ \A t \in All : Stage(n, t) < Stage(n, step) => t \in done
  <2>1. Left(n, X, All)
    BY <1>0, <1>01, <1>03 DEF During
  <2> QED BY <1>04, <1>05, <1>1, <2>1, NextStep
<1>6. IsPass(p) /\ DOMAIN p.results = DOMAIN s
  BY <1>0, <1>02 DEF During
<1>99. Past(s, disk, H) /\ Items(s)
  BY <1>0
<1>06. PICK late : late = Do("objects")
  OBVIOUS
<1>100. /\ Stage(n, Do("config")) = 1 /\ Stage(n, Do("replacements")) = 2 /\ Stage(n, Do("head")) = 3
        /\ Stage(n, Do("index")) = 4 /\ Stage(n, Do("refs")) = 5 /\ Stage(n, late) = 6
  BY <1>1, <1>06, StageIs
<1>2. All = (({Do("config"), Do("replacements")} \cup If(Mentions(s, "HEAD"), "head"))
               \cup ((If(Mentions(s, "index"), "index") \cup If(MentionsCommit(s), "refs")) \cup {late}))
  BY <1>1, <1>01, <1>03, <1>06, SlowIs DEF PassOf
<1>4. ReadStep(step) \/ step = late
  BY <1>2, <1>3 DEF If, ReadStep
<1>5. LastRead(FALSE) = late
  BY <1>06 DEF LastRead
<1>7. late \notin done
  <2>1. step # late => Stage(n, step) < Stage(n, late)
    BY <1>4, <1>100 DEF ReadStep
  <2> QED BY <2>1, <1>3
<1>8. Snap(s, p, done, b, disk, H)
  BY <1>0, <1>02, <1>03, <1>04, <1>5, <1>7 DEF During
<1>10. CASE ReadStep(step)
  <2>0. /\ Items(s) /\ n = Len(s) /\ p = job.pass /\ IsPass(p) /\ Past(s, disk, H) /\ Snap(s, p, done, b, disk, H)
        /\ ReadStep(step) /\ InOrder(n, step, done)
    BY <1>01, <1>02, <1>3, <1>6, <1>8, <1>99, <1>10 DEF InOrder
  <2>1. PICK q : Reads(job, q, step) /\ Snap(s, q, done \cup {step}, b, disk, H)
    BY <2>0, SnapReads
  <2>2. step # late
    BY <1>06, <1>10, Apart DEF ReadStep
  <2>3. late \notin done \cup {step}
    BY <2>2, <1>7
  <2>4. During(s, job.kind, FALSE, Tail(X), q, b, disk, H)
    BY <2>1, <2>3, <1>01, <1>02, <1>03, <1>3, <1>5, <1>6 DEF During, Reads
  <2> QED BY <1>0, <1>05, <2>1, <2>4 DEF Goes, Reads
<1>15. CASE step = late
  <2>1. Advanced(job, Head(X)) = Objects(job)
    BY <1>05, <1>06, <1>15, AdvancedIs
  <2>2. CASE \E code : Objects(job) = End(job, code, None)
    BY <2>1, <2>2 DEF Goes
  <2>3. CASE \A code : Objects(job) # End(job, code, None)
    <3>1. PICK res : res = [i \in DOMAIN s |-> Canonical(s[i], p, disk)]
      OBVIOUS
    <3>2. DOMAIN res = DOMAIN s /\ \A i \in DOMAIN s : res[i] = Canonical(s[i], p, disk)
      BY <3>1
    <3>3. Objects(job) = IF \E i \in DOMAIN s : res[i] = Broken THEN End(job, "stale_target", None)
                         ELSE [job EXCEPT !.pass = [job.pass EXCEPT !.results = res]]
      BY <3>1, <1>0, <1>02 DEF Objects, Stale
    <3>4. PICK q : q = [p EXCEPT !.results = res]
      OBVIOUS
    <3>5. Objects(job) = [job EXCEPT !.pass = q] /\ \A i \in DOMAIN s : res[i] # Broken
      BY <3>3, <3>4, <2>3, <1>02
    <3>6. IsPass(q) /\ q.results = res /\ q.config = p.config /\ q.replacements = p.replacements
      BY <3>4, <1>6 DEF IsPass
    <3>7. PICK a : a = Answer(q.config, q.replacements, q.results)
      OBVIOUS
    <3>8. a.config = p.config /\ a.replacements = p.replacements /\ a.results = res
      BY <3>6, <3>7 DEF Answer
    <3>9. /\ Do("config") \in done /\ Do("replacements") \in done
          /\ Mentions(s, "HEAD") => Do("head") \in done
          /\ Mentions(s, "index") => Do("index") \in done
          /\ MentionsCommit(s) => Do("refs") \in done
      BY <1>2, <1>3, <1>15, <1>100 DEF If
    <3>10. Faithful(s, a, b, disk, H) /\ Met(s, a, b, disk, H)
      BY <3>2, <3>5, <3>8, <3>9, <1>99, <1>8, SlowComplete
    <3>11. During(s, job.kind, FALSE, Tail(X), q, b, disk, H)
      <4>1. late \in done \cup {step}
        BY <1>15
      <4> QED BY <4>1, <3>2, <3>6, <3>7, <3>10, <1>01, <1>03, <1>3, <1>5, <1>6 DEF During
    <3> QED BY <2>1, <3>5, <3>11, <1>0 DEF Goes
  <2> QED BY <2>2, <2>3
<1> QED BY <1>4, <1>10, <1>15

(* A step of a pass of the bridge's own reader.                            *)
LEMMA LooksStep ==
  ASSUME NEW job, IsJob(job), job.todo # <<>>, Items(job.items), ~Snaps(job.kind), NEW fast, NEW X, X # <<>>, NEW b, DiskOK(b),
         NEW H, Past(job.items, disk, H), During(job.items, job.kind, fast, X, job.pass, b, disk, H)
  PROVE  Goes(job, Advanced(job, Head(X)), fast, Tail(X), b, H)
<1>0. PICK s : s = job.items
  OBVIOUS
<1>01. PICK n : n = Len(s)
  OBVIOUS
<1>02. PICK p : p = job.pass
  OBVIOUS
<1>03. PICK All : All = Range(PassOf(job.kind, s, fast))
  OBVIOUS
<1>04. PICK done : done = All \ Range(X)
  OBVIOUS
<1>05. PICK step : step = Head(X)
  OBVIOUS
<1>1. n \in Nat /\ DOMAIN s = 1..n /\ s \in Seq(Range(s))
  BY <1>0, <1>01, LenProperties DEF Items
<1>3. /\ step \in All /\ step \notin done /\ Left(n, Tail(X), All) /\ All \ Range(Tail(X)) = done \cup {step}
      /\ \A t : Stage(n, step) < Stage(n, t) => t \notin done
      /\ \A t \in All : Stage(n, t) < Stage(n, step) => t \in done
  <2>1. Left(n, X, All)
    BY <1>0, <1>01, <1>03 DEF During
  <2> QED BY <1>04, <1>05, <1>1, <2>1, NextStep
<1>6. IsPass(p) /\ DOMAIN p.results = DOMAIN s
  BY <1>0, <1>02 DEF During
<1>99. Past(s, disk, H) /\ Items(s)
  BY <1>0
<1>100. Stage(n, Do("index")) = 4 /\ \A i : Stage(n, <<"look", i>>) = 5 + i
  BY <1>1, StageIs
<1>2. All = If(Mentions(s, "index"), "index") \cup Each("look", n)
  BY <1>1, <1>01, <1>03, LooksAre DEF PassOf
<1>8. Looks(s, p, done, b, disk, H)
  BY <1>0, <1>02, <1>03, <1>04 DEF During
<1>9. \A q : IsPass(q) /\ DOMAIN q.results = DOMAIN s /\ Looks(s, q, done \cup {step}, b, disk, H)
        => During(s, job.kind, fast, Tail(X), q, b, disk, H)
  BY <1>01, <1>03, <1>3 DEF During
<1>10. CASE step = Do("index")
  <2>1. PICK q : q = [p EXCEPT !.index = disk.index]
    OBVIOUS
  <2>2. IsPass(q) /\ q.index = disk.index /\ q.results = p.results
    BY <2>1, <1>6 DEF IsPass
  <2>3. ASSUME NEW i \in DOMAIN s PROVE <<"look", i>> \notin done
    <3>1. Stage(n, step) = 4 /\ Stage(n, <<"look", i>>) = 5 + i /\ 5 + i > 4
      BY <1>1, <1>10, <1>100, <2>3
    <3> QED BY <1>3, <3>1
  <2>4. Looks(s, q, done \cup {step}, b, disk, H)
    BY <1>8, <1>99, <1>10, <2>2, <2>3, LooksIndex
  <2>5. Advanced(job, step) = [job EXCEPT !.pass = q]
    BY <1>02, <1>10, <2>1, AdvancedIs
  <2> QED BY <1>0, <1>05, <1>6, <1>9, <2>2, <2>4, <2>5 DEF Goes
<1>14. ASSUME NEW i \in 1..n, step = <<"look", i>>
       PROVE  Goes(job, Advanced(job, Head(X)), fast, Tail(X), b, H)
  <2>0. PICK r : r = Looked(s[i], p.index, disk)
    OBVIOUS
  <2>1. PICK res : res = [p.results EXCEPT ![i] = r]
    OBVIOUS
  <2>2. DOMAIN res = DOMAIN s /\ res[i] = r /\ \A j \in DOMAIN s : j # i => res[j] = p.results[j]
    BY <2>1, <1>1, <1>6
  <2>3. PICK q : q = [p EXCEPT !.results = res]
    OBVIOUS
  <2>4. IsPass(q) /\ q.results = res /\ q.index = p.index
    BY <2>3, <1>6 DEF IsPass
  <2>5. i \in DOMAIN s /\ q.results[i] = Looked(s[i], p.index, disk) /\ \A j \in DOMAIN s : j # i => q.results[j] = p.results[j]
    BY <2>0, <2>2, <2>4, <1>1
  <2>6. Looks(s, q, done \cup {step}, b, disk, H)
    BY <1>8, <1>99, <1>14, <2>4, <2>5, LooksLook
  <2>8. Advanced(job, step) = [job EXCEPT !.pass = q]
    <3>1. Advanced(job, step) = Look(job, i)
      BY <1>14, AdvancedIs
    <3>2. Look(job, i) = [job EXCEPT !.pass = [job.pass EXCEPT !.results = [job.pass.results EXCEPT ![i] = Looked(job.items[i], job.pass.index, disk)]]]
      BY DEF Look
    <3> QED BY <3>1, <3>2, <1>0, <1>02, <2>0, <2>1, <2>3
  <2> QED BY <1>0, <1>05, <1>9, <2>2, <2>4, <2>6, <2>8 DEF Goes
<1>15. step = Do("index") \/ \E i \in 1..n : step = <<"look", i>>
  BY <1>2, <1>3 DEF If, Each
<1> QED BY <1>10, <1>14, <1>15

(* A step of any pass.                                                     *)
LEMMA PassStep ==
  ASSUME NEW job, IsJob(job), job.todo # <<>>, Items(job.items), NEW fast, fast \in BOOLEAN, NEW X, X # <<>>, NEW b, DiskOK(b),
         NEW H, Past(job.items, disk, H), During(job.items, job.kind, fast, X, job.pass, b, disk, H)
  PROVE  Goes(job, Advanced(job, Head(X)), fast, Tail(X), b, H)
<1>1. CASE ~Snaps(job.kind)
  BY <1>1, LooksStep
<1>2. CASE Snaps(job.kind) /\ fast = TRUE
  BY <1>2, FastStep
<1>3. CASE Snaps(job.kind) /\ fast = FALSE
  BY <1>3, SlowStep
<1> QED BY <1>1, <1>2, <1>3

-----------------------------------------------------------------------------
(* What makes an answer sound.                                             *)

(* What ReadsAreOneState asks of a reply.                                  *)
WasSoIn(H, i, told) ==
  told \in {Broken, Failed("stale_target")} \/
  \E truth \in H \ {Replaced} :
    IF IsValue(told) THEN SameFile(told, truth.results[i]) ELSE told = truth.results[i]
TogetherIn(H, answer, S) ==
  \E truth \in H \ {Replaced} :
    /\ truth.config = answer.config /\ truth.replacements = answer.replacements
    /\ \A i \in S : truth.results[i] = answer.results[i]
Sound(kind, s, code, answer, H) ==
  LET told == answer.results
      ok == code = "ok"
      lacks(i) == s[i].ref = "index" /\ told[i] = Absent
  IN /\ ok /\ kind = "verified" => answer \in H
     /\ ok /\ kind = "metadata" =>
          /\ TogetherIn(H, answer, {i \in DOMAIN told : IsValue(told[i]) \/ lacks(i)})
          /\ TogetherIn(H, answer, {i \in DOMAIN told : s[i].ref = "HEAD"})
          /\ \A i \in DOMAIN told : TogetherIn(H, answer, {i})
     /\ ok /\ kind = "batch" =>
          \E truth \in H \ {Replaced} :
            \A i \in DOMAIN told : IsValue(told[i]) => SameFile(told[i], truth.results[i])
     /\ (IF ok THEN kind \in {"batch", "single"} ELSE Replaced \notin H) =>
          \A i \in DOMAIN told : WasSoIn(H, i, told[i])

(* What is true of an item is a value under the settings, or an error.     *)
LEMMA TruthRange ==
  ASSUME NEW item, NEW w
  PROVE  \/ Truth(item, w) \in {Absent, Unsupported, Broken}
         \/ /\ IsValue(Truth(item, w)) /\ Value(Truth(item, w))
            /\ Truth(item, w).as = w.replacements
<1>1. RefError(item, w.head, w.lost) \in {None, Absent, Unsupported}
  BY DEF RefError
<1>2. \A e, g : \/ Described(item, e, g, w) = Unsupported
                \/ /\ IsValue(Described(item, e, g, w)) /\ Value(Described(item, e, g, w))
                   /\ Described(item, e, g, w).as = w.replacements
  BY DescribedIs
<1> QED BY <1>1, <1>2 DEF Truth

(* What tells the same as the truth under the same settings is the truth.  *)
LEMMA LikeIs ==
  ASSUME NEW item, NEW w, NEW r, Like(r, Truth(item, w))
  PROVE  /\ ~IsValue(r) => r = Truth(item, w) /\ r \in {Absent, Unsupported, Broken}
         /\ IsValue(r) /\ Value(r) /\ r.as = w.replacements => r = Truth(item, w)
<1>1. CASE ~IsValue(r)
  BY <1>1, TruthRange DEF Like
<1>2. CASE IsValue(r)
  <2>1. SameFile(r, Truth(item, w))
    BY <1>2 DEF Like
  <2>2. Value(Truth(item, w)) /\ Truth(item, w).as = w.replacements /\ Truth(item, w).oid = r.oid /\ Truth(item, w).head = r.head
    BY <2>1, TruthRange, Results DEF SameFile
  <2> QED BY <1>2, <2>2 DEF Value
<1> QED BY <1>1, <1>2

(* An instant at which the repository is there is one of H.                *)
LEMMA PastTruth ==
  ASSUME NEW s, NEW w, NEW H, Past(s, w, H), w.place = 0 \/ Replaced \notin H
  PROVE  \E truth \in H \ {Replaced} :
           /\ truth.config = w.config /\ truth.replacements = w.replacements
           /\ \A i \in DOMAIN s : truth.results[i] = Truth(s[i], w)
<1>1. w.place = 0
  BY DEF Past, TruthNow
<1>2. TruthNow(s, w) \in H
  BY DEF Past
<1> QED BY <1>1, <1>2, TruthIs

(* Of a pass that is done each result was so at one instant.               *)
LEMMA ToldWas ==
  ASSUME NEW s, NEW a, NEW b, NEW u, DiskOK(u), NEW H, Faithful(s, a, b, u, H), u.place = 0 \/ Replaced \notin H,
         NEW i \in DOMAIN s
  PROVE  WasSoIn(H, i, a.results[i])
<1>1. PICK r : r = a.results[i]
  OBVIOUS
<1>2. CASE r = Broken
  BY <1>1, <1>2 DEF WasSoIn
<1>3. CASE r # Broken
  <2>1. PICK w : Past(s, w, H) /\ Then(w, u) /\ Like(r, Truth(s[i], w))
    BY <1>1, <1>3 DEF Faithful
  <2>2. w.place = 0 \/ Replaced \notin H
    BY <2>1, DiskFields DEF Past, Then
  <2>3. PICK truth \in H \ {Replaced} : truth.results[i] = Truth(s[i], w)
    BY <2>1, <2>2, PastTruth
  <2> QED BY <1>1, <2>1, <2>3 DEF WasSoIn, Like
<1> QED BY <1>2, <1>3

(* A result that is not a value is one of three errors.                    *)
LEMMA ToldError ==
  ASSUME NEW s, NEW a, NEW b, NEW u, NEW H, Faithful(s, a, b, u, H), NEW i \in DOMAIN s, ~IsValue(a.results[i])
  PROVE  a.results[i] \in {Absent, Unsupported, Broken} /\ a.results[i].error # "ok"
<1>1. PICK r : r = a.results[i]
  OBVIOUS
<1>2. r \in {Absent, Unsupported, Broken}
  <2>1. r = Broken \/ \E w : Like(r, Truth(s[i], w))
    BY <1>1 DEF Faithful
  <2> QED BY <1>1, <2>1, LikeIs
<1> QED BY <1>1, <1>2, Results

-----------------------------------------------------------------------------
(* The first of the two passes of a request, told before a.                *)
FirstAt(kind, s, first, shown, a, H, b, d) ==
  /\ DiskOK(b) /\ Past(s, d, H) /\ Then(d, a) /\ Faithful(s, first, b, d, H)
  /\ Snaps(kind) => Met(s, first, b, d, H)
  /\ kind = "single" => d.place = 0
  /\ kind = "verified" =>
       /\ IsValue(first.results[1])
       /\ \E c : /\ Past(s, c, H) /\ Then(d, c) /\ Then(c, a)
                 /\ shown = Answer(c.config, c.replacements, <<Truth(s[1], At(c, Told(s[1], first.results[1])))>>)
FirstOK(kind, s, first, shown, a, H) == \E b, d : FirstAt(kind, s, first, shown, a, H, b, d)

(* The first pass stays what it was while other programs write.            *)
LEMMA FirstLater ==
  ASSUME NEW kind, NEW s, NEW first, NEW shown, NEW a, DiskOK(a), NEW H, FirstOK(kind, s, first, shown, a, H),
         NEW v, DiskOK(v), Then(a, v), NEW G, H \subseteq G
  PROVE  FirstOK(kind, s, first, shown, v, G)
<1>1. PICK b, d : FirstAt(kind, s, first, shown, a, H, b, d)
  BY DEF FirstOK
<1>2. \A w : Past(s, w, H) => Past(s, w, G) /\ DiskOK(w)
  BY DEF Past
<1>3. \A w : DiskOK(w) /\ Then(w, a) => Then(w, v)
  BY ThenAll
<1>4. DiskOK(d) /\ Then(d, d)
  BY <1>1, ThenSame DEF FirstAt, Past
<1>5. Faithful(s, first, b, d, G)
  BY <1>1, <1>4, FaithfulLater DEF FirstAt
<1>6. Snaps(kind) => Met(s, first, b, d, G)
  BY <1>1, <1>4, MetLater DEF FirstAt
<1>7. FirstAt(kind, s, first, shown, v, G, b, d)
  BY <1>1, <1>2, <1>3, <1>4, <1>5, <1>6 DEF FirstAt
<1> QED BY <1>7 DEF FirstOK

(* Both passes: the second began at b and ended by u.                      *)
Both(kind, s, first, shown, told, b, u, H) ==
  /\ Past(s, b, H) /\ Then(b, u) /\ FirstOK(kind, s, first, shown, b, H)
  /\ Faithful(s, told, b, u, H) /\ (Snaps(kind) => Met(s, told, b, u, H))

(* An answer that ends a request early with an error.                      *)
LEMMA ErrorSound ==
  ASSUME NEW kind, NEW s, NEW a, NEW b, NEW u, DiskOK(u), NEW H, Faithful(s, a, b, u, H),
         NEW i \in DOMAIN s, ~IsValue(a.results[i])
  PROVE  Sound(kind, s, a.results[i].error, a, H)
<1>1. a.results[i].error # "ok"
  BY ToldError
<1>2. DOMAIN a.results = DOMAIN s
  BY DEF Faithful
<1>3. Replaced \notin H => \A j \in DOMAIN s : WasSoIn(H, j, a.results[j])
  BY ToldWas
<1> QED BY <1>1, <1>2, <1>3 DEF Sound

(* The answer of a single read, told alike by both passes.                 *)
LEMMA SecondSound ==
  ASSUME NEW s, DOMAIN s = 1..1, NEW first, NEW shown, NEW told, NEW b, NEW u, DiskOK(u), NEW H,
         Both("single", s, first, shown, told, b, u, H), told.results[1] = first.results[1]
  PROVE  Sound("single", s, "ok", told, H)
<1>1. PICK f, d : FirstAt("single", s, first, shown, b, H, f, d)
  BY DEF Both, FirstOK
<1>2. DiskOK(d) /\ d.place = 0 /\ Faithful(s, first, f, d, H)
  BY <1>1 DEF FirstAt, Past
<1>3. DOMAIN told.results = DOMAIN s
  BY DEF Both, Faithful
<1>4. WasSoIn(H, 1, told.results[1])
  BY <1>2, ToldWas
<1>5. \A i \in DOMAIN told.results : WasSoIn(H, i, told.results[i])
  BY <1>3, <1>4
<1> QED BY <1>5 DEF Sound

(* Two results are merged into one of them, or into a stale target.        *)
LEMMA MergedIs ==
  ASSUME NEW a, NEW b
  PROVE  /\ IsValue(Merged(a, b)) => a = b /\ Merged(a, b) = a
         /\ Merged(a, b) \in {a, b, Failed("stale_target")}
BY Results DEF Merged

(* The answer of a batch, the results of both passes merged.               *)
LEMMA MergeSound ==
  ASSUME NEW s, Items(s), NEW first, NEW shown, NEW told, NEW b, NEW u, DiskOK(u), u.place = 0, NEW H,
         Both("batch", s, first, shown, told, b, u, H), NEW a, DOMAIN a.results = DOMAIN s,
         \A i \in DOMAIN s : a.results[i] = Merged(first.results[i], told.results[i])
  PROVE  Sound("batch", s, "ok", a, H)
<1>1. PICK f, d : FirstAt("batch", s, first, shown, b, H, f, d)
  BY DEF Both, FirstOK
<1>2. /\ DiskOK(d) /\ DiskOK(b) /\ Then(d, b) /\ Then(b, u) /\ Past(s, b, H)
      /\ Faithful(s, first, f, d, H) /\ Faithful(s, told, b, u, H)
  BY <1>1 DEF FirstAt, Past, Both
<1>3. b.place = 0 /\ d.place = 0
  BY <1>2, DiskFields DEF Then
<1>4. PICK truth \in H \ {Replaced} : \A i \in DOMAIN s : truth.results[i] = Truth(s[i], b)
  BY <1>2, <1>3, PastTruth
<1>5. ASSUME NEW i \in DOMAIN s, IsValue(a.results[i]) PROVE SameFile(a.results[i], truth.results[i])
  <2>1. PICK r : r = first.results[i]
    OBVIOUS
  <2>2. a.results[i] = r /\ told.results[i] = r /\ IsValue(r)
    BY <2>1, <1>5, MergedIs
  <2>3. After(s[i], r, b) /\ Until(s[i], r, d)
    <3>1. IsValue(told.results[i]) => After(s[i], told.results[i], b)
      BY <1>2, <1>5 DEF Faithful
    <3>2. IsValue(first.results[i]) => Until(s[i], first.results[i], d)
      BY <1>2, <1>5 DEF Faithful
    <3> QED BY <3>1, <3>2, <2>1, <2>2
  <2>4. Until(s[i], r, b) /\ Then(b, b) /\ s[i].path \in Paths
    BY <2>3, <1>2, <1>5, UntilLater, ThenSame DEF Items
  <2>5. Truth(s[i], b) = [oid |-> r.oid, head |-> r.head, as |-> b.replacements]
    BY <2>3, <2>4, <1>2, Pinned
  <2>6. SameFile(r, Truth(s[i], b))
    BY <2>5 DEF SameFile, IsValue
  <2> QED BY <2>2, <2>6, <1>4, <1>5
<1>6. ASSUME NEW i \in DOMAIN s PROVE WasSoIn(H, i, a.results[i])
  <2>1. WasSoIn(H, i, first.results[i]) /\ WasSoIn(H, i, told.results[i])
    BY <1>2, <1>3, ToldWas
  <2>2. WasSoIn(H, i, Failed("stale_target"))
    BY DEF WasSoIn
  <2> QED BY <2>1, <2>2, MergedIs
<1> QED BY <1>4, <1>5, <1>6 DEF Sound

(* The content that was streamed between two equal snapshots.              *)
LEMMA VerifiedSound ==
  ASSUME NEW s, DOMAIN s = 1..1, NEW first, NEW shown, NEW b, NEW u, DiskOK(u), u.place = 0, NEW H,
         Both("verified", s, first, shown, first, b, u, H)
  PROVE  Sound("verified", s, "ok", shown, H)
<1>1. PICK f, d : FirstAt("verified", s, first, shown, b, H, f, d)
  BY DEF Both, FirstOK
<1>2. PICK r : r = first.results[1]
  OBVIOUS
<1>3. PICK c : /\ Past(s, c, H) /\ Then(d, c) /\ Then(c, b)
               /\ shown = Answer(c.config, c.replacements, <<Truth(s[1], At(c, Told(s[1], r)))>>)
  BY <1>1, <1>2 DEF FirstAt
<1>4. /\ DiskOK(d) /\ DiskOK(b) /\ DiskOK(c) /\ Then(b, u)
      /\ Faithful(s, first, f, d, H) /\ Faithful(s, first, b, u, H) /\ IsValue(r)
  BY <1>1, <1>2, <1>3 DEF FirstAt, Past, Both
<1>5. After(s[1], r, b) /\ Until(s[1], r, d)
  BY <1>2, <1>4 DEF Faithful
<1>6. Until(s[1], r, c)
  BY <1>3, <1>4, <1>5, UntilLater
<1>7. Truth(s[1], At(c, Told(s[1], r))) = Truth(s[1], c)
  BY <1>3, <1>4, <1>5, <1>6, PinnedHead
<1>8. c.place = 0
  <2>1. Then(c, u)
    BY <1>3, <1>4, ThenAll
  <2> QED BY <2>1, <1>4, DiskFields DEF Then
<1>9. <<Truth(s[1], c)>> = [i \in DOMAIN s |-> Truth(s[i], c)]
  OBVIOUS
<1>10. shown = TruthNow(s, c)
  BY <1>3, <1>7, <1>8, <1>9 DEF TruthNow
<1> QED BY <1>3, <1>10 DEF Sound, Past

(* The answer of two equal snapshots.                                      *)
LEMMA MetadataSound ==
  ASSUME NEW s, Items(s), NEW a, NEW shown, NEW b, NEW u, DiskOK(u), u.place = 0, NEW H,
         Both("metadata", s, a, shown, a, b, u, H)
  PROVE  Sound("metadata", s, "ok", a, H)
<1>1. PICK f, d : FirstAt("metadata", s, a, shown, b, H, f, d)
  BY DEF Both, FirstOK
<1>2. /\ DiskOK(d) /\ DiskOK(b) /\ Then(d, b) /\ Then(b, u)
      /\ Faithful(s, a, b, u, H) /\ Met(s, a, f, d, H) /\ Met(s, a, b, u, H)
  BY <1>1 DEF FirstAt, Past, Both, Snaps
<1>3. DOMAIN a.results = DOMAIN s
  BY <1>2 DEF Faithful
<1>4. /\ a.config \in Nat /\ b.config <= a.config /\ a.replacements \in Nat /\ b.replacements <= a.replacements
      /\ d.config <= b.config /\ d.replacements <= b.replacements
  BY <1>2 DEF Met, Then
<1>5. ASSUME NEW w, Instant(s, a, w, d, H)
      PROVE  /\ DiskOK(w) /\ Then(w, b) /\ Past(s, w, H) /\ w.place = 0
             /\ w.config = a.config /\ w.replacements = a.replacements
  <2>1. DiskOK(w) /\ Past(s, w, H) /\ Then(w, d) /\ a.config <= w.config /\ a.replacements <= w.replacements
    BY <1>5 DEF Instant, Past
  <2>2. Then(w, b) /\ Then(w, u)
    BY <2>1, <1>2, ThenAll
  <2>3. w.place = 0
    BY <2>1, <2>2, DiskFields DEF Then
  <2>4. w.config <= d.config /\ w.replacements <= d.replacements
    BY <2>1 DEF Then
  <2>5. w.config = a.config /\ w.replacements = a.replacements
    BY <2>1, <2>4, <1>2, <1>4, DiskFields
  <2> QED BY <2>1, <2>2, <2>3, <2>5
<1>6. ASSUME NEW i \in DOMAIN s, IsValue(a.results[i])
      PROVE  After(s[i], a.results[i], b) /\ Value(a.results[i]) /\ a.results[i].as = a.replacements
  <2>1. After(s[i], a.results[i], b)
    BY <1>2, <1>6 DEF Faithful
  <2>2. a.results[i].as \in Nat /\ a.replacements <= a.results[i].as /\ a.results[i].as <= d.replacements
    BY <1>2, <1>6 DEF Met
  <2>3. a.results[i].as = a.replacements
    BY <2>2, <1>2, <1>4, DiskFields
  <2> QED BY <2>1, <2>3 DEF After
<1>7. ASSUME NEW i \in DOMAIN s, NEW w, Instant(s, a, w, d, H), Like(a.results[i], Truth(s[i], w))
      PROVE  Truth(s[i], w) = a.results[i]
  <2>1. PICK r : r = a.results[i]
    OBVIOUS
  <2>2. IsValue(r) => Value(r) /\ r.as = w.replacements
    BY <2>1, <1>5, <1>6, <1>7
  <2>3. Like(r, Truth(s[i], w))
    BY <2>1, <1>7
  <2> QED BY <2>1, <2>2, <2>3, LikeIs
<1>8. ASSUME NEW w, Instant(s, a, w, d, H), NEW S, S \subseteq DOMAIN s, \A i \in S : Truth(s[i], w) = a.results[i]
      PROVE  TogetherIn(H, a, S)
  <2>1. /\ Past(s, w, H) /\ w.place = 0 /\ w.config = a.config /\ w.replacements = a.replacements
    BY <1>5, <1>8
  <2>2. PICK truth \in H \ {Replaced} :
           /\ truth.config = w.config /\ truth.replacements = w.replacements
           /\ \A i \in DOMAIN s : truth.results[i] = Truth(s[i], w)
    BY <2>1, PastTruth
  <2> QED BY <2>1, <2>2, <1>8 DEF TogetherIn
<1> DEFINE lacks(i) == s[i].ref = "index" /\ a.results[i] = Absent
           P == {i \in DOMAIN a.results : IsValue(a.results[i]) \/ lacks(i)}
<1>9. TogetherIn(H, a, P)
  <2>1. PICK w : /\ Instant(s, a, w, d, H)
                 /\ \A i \in DOMAIN s :
                      /\ IsValue(a.results[i]) => Until(s[i], a.results[i], w)
                      /\ s[i].ref = "index" /\ a.results[i] = Absent => w.index[s[i].path] = None
    BY <1>2 DEF Met
  <2>2. DiskOK(w) /\ Then(w, b) /\ w.replacements = a.replacements
    BY <1>5, <2>1
  <2>3. ASSUME NEW i \in DOMAIN s, IsValue(a.results[i]) PROVE Truth(s[i], w) = a.results[i]
    <3>1. PICK r : r = a.results[i]
      OBVIOUS
    <3>2. After(s[i], r, b) /\ Value(r) /\ r.as = w.replacements /\ Until(s[i], r, w) /\ s[i].path \in Paths
      BY <3>1, <2>1, <2>2, <2>3, <1>6 DEF Items
    <3>3. Truth(s[i], w) = [oid |-> r.oid, head |-> r.head, as |-> w.replacements]
      BY <3>2, <2>2, <1>2, Pinned
    <3> QED BY <3>1, <3>2, <3>3 DEF Value
  <2>4. ASSUME NEW i \in DOMAIN s, lacks(i) PROVE Truth(s[i], w) = a.results[i]
    <3>1. w.index[s[i].path] = None /\ s[i].ref = "index"
      BY <2>1, <2>4
    <3>2. RefError(s[i], w.head, w.lost) = None /\ EntryAt(s[i], w.head, w.index) = None
      BY <3>1 DEF RefError, Named, EntryAt
    <3> QED BY <3>2, <2>4 DEF Truth
  <2>5. P \subseteq DOMAIN s /\ \A i \in P : Truth(s[i], w) = a.results[i]
    BY <2>3, <2>4, <1>3
  <2> HIDE DEF P
  <2> QED BY <2>1, <2>5, <1>8
<1>10. TogetherIn(H, a, {i \in DOMAIN a.results : s[i].ref = "HEAD"})
  <2>1. PICK w : Instant(s, a, w, d, H) /\ \A i \in DOMAIN s : s[i].ref = "HEAD" => Like(a.results[i], Truth(s[i], w))
    BY <1>2 DEF Met
  <2>2. PICK S : S = {i \in DOMAIN a.results : s[i].ref = "HEAD"}
    OBVIOUS
  <2>3. S \subseteq DOMAIN s /\ \A i \in S : Truth(s[i], w) = a.results[i]
    BY <2>1, <2>2, <1>3, <1>7
  <2> QED BY <2>1, <2>2, <2>3, <1>8
<1>11. \A i \in DOMAIN a.results : TogetherIn(H, a, {i})
  <2> TAKE i \in DOMAIN a.results
  <2>1. PICK w : Instant(s, a, w, d, H) /\ Like(a.results[i], Truth(s[i], w))
    BY <1>2, <1>3 DEF Met
  <2>2. {i} \subseteq DOMAIN s /\ \A j \in {i} : Truth(s[j], w) = a.results[j]
    BY <2>1, <1>3, <1>7
  <2> QED BY <2>1, <2>2, <1>8
<1> QED BY <1>9, <1>10, <1>11 DEF Sound

(* The content of a file, streamed.                                        *)
LEMMA ContentIs ==
  ASSUME NEW job, IsJob(job), NEW told, told = job.pass.results[1]
  PROVE  LET q == Content(job) IN
         \/ ~IsValue(told) /\ q = End(job, told.error, Pass(job))
         \/ q = End(job, "repository_error", None)
         \/ IsValue(told) /\ q = [job EXCEPT !.shown =
              Answer(disk.config, disk.replacements, <<Truth(job.items[1], At(disk, Told(job.items[1], told)))>>)]
BY DEF Content, Told, At, Fails

(* The property is that a reply is sound,                                  *)
LEMMA ReplyIs ==
  ASSUME asked # None, asked.reply # None, asked.reply.answer # None
  PROVE  ReadsAreOneState <=> Sound(asked.kind, asked.items, asked.reply.code, asked.reply.answer, heard)
BY DEF ReadsAreOneState, Replied, Sound, WasSo, WasSoIn, Together, TogetherIn

(* if there is one.                                                        *)
LEMMA NoReplyIs ==
  ASSUME asked = None \/ asked.reply = None \/ asked.reply.answer = None
  PROVE  ReadsAreOneState
BY DEF ReadsAreOneState, Replied

-----------------------------------------------------------------------------
(* The phases of a request.                                                *)

(* The second pass and what follows it.                                    *)
Rest(kind, s, fast) == PassOf(kind, s, fast) \o AtEnd(kind)

(* Where a request is, u being the disk and H what was true since it began. *)
Starting(j, fast) ==
  /\ j.todo = <<Do("scope")>> \o (PassOf(j.kind, j.items, fast) \o (Between(j.kind) \o Rest(j.kind, j.items, fast)))
  /\ j.pass = NoPass(Len(j.items))
OnFirst(j, fast, u, H) ==
  \E X, b : /\ DiskOK(b) /\ During(j.items, j.kind, fast, X, j.pass, b, u, H)
            /\ j.todo = X \o (Between(j.kind) \o Rest(j.kind, j.items, fast))
InBetween(j, fast, u, H) ==
  /\ FirstOK(j.kind, j.items, Pass(j), j.shown, u, H)
  /\ \/ j.todo = <<Do("again")>> \o Rest(j.kind, j.items, fast)
     \/ j.kind = "single" /\ j.todo = <<Do("first"), Do("again")>> \o Rest(j.kind, j.items, fast)
OnSecond(j, fast, u, H) ==
  \E X, b : /\ Past(j.items, b, H) /\ Then(b, u) /\ FirstOK(j.kind, j.items, j.first, j.shown, b, H)
            /\ During(j.items, j.kind, fast, X, j.pass, b, u, H) /\ j.todo = X \o AtEnd(j.kind)
Compared(j, u, H) ==
  /\ Snaps(j.kind) /\ j.todo = <<Do("scope")>> /\ Pass(j) = j.first
  /\ \E b : Both(j.kind, j.items, j.first, j.shown, j.first, b, u, H)
Merging(j, H) ==
  /\ j.kind = "batch" /\ j.todo = <<Do("merge")>>
  /\ \E b, v : DiskOK(v) /\ v.place = 0 /\ Both(j.kind, j.items, j.first, j.shown, Pass(j), b, v, H)
Working(j, u, H) ==
  \E fast \in BOOLEAN :
    \/ Starting(j, fast) \/ OnFirst(j, fast, u, H) \/ InBetween(j, fast, u, H)
    \/ OnSecond(j, fast, u, H) \/ Compared(j, u, H) \/ Merging(j, H)

(* Both passes stay what they were while other programs write.             *)
LEMMA BothLater ==
  ASSUME NEW kind, NEW s, NEW first, NEW shown, NEW told, NEW b, NEW u, DiskOK(u), NEW H,
         Both(kind, s, first, shown, told, b, u, H), NEW v, DiskOK(v), Then(u, v), NEW G, H \subseteq G
  PROVE  Both(kind, s, first, shown, told, b, v, G)
<1>1. Past(s, b, G) /\ DiskOK(b) /\ Then(b, v) /\ Then(b, b)
  BY ThenAll, ThenSame DEF Both, Past
<1>2. FirstOK(kind, s, first, shown, b, G)
  BY <1>1, FirstLater DEF Both
<1>3. Faithful(s, told, b, v, G)
  BY FaithfulLater DEF Both
<1>4. Snaps(kind) => Met(s, told, b, v, G)
  BY MetLater DEF Both
<1> QED BY <1>1, <1>2, <1>3, <1>4 DEF Both

(* A request stays in its phase while other programs write.                *)
LEMMA WorkingLater ==
  ASSUME NEW j, NEW u, DiskOK(u), NEW H, Working(j, u, H), NEW v, DiskOK(v), Then(u, v), NEW G, H \subseteq G
  PROVE  Working(j, v, G)
<1>1. PICK fast \in BOOLEAN :
        \/ Starting(j, fast) \/ OnFirst(j, fast, u, H) \/ InBetween(j, fast, u, H)
        \/ OnSecond(j, fast, u, H) \/ Compared(j, u, H) \/ Merging(j, H)
  BY DEF Working
<1>2. CASE OnFirst(j, fast, u, H)
  <2>1. PICK X, b : /\ DiskOK(b) /\ During(j.items, j.kind, fast, X, j.pass, b, u, H)
                    /\ j.todo = X \o (Between(j.kind) \o Rest(j.kind, j.items, fast))
    BY <1>2 DEF OnFirst
  <2>2. During(j.items, j.kind, fast, X, j.pass, b, v, G)
    BY <2>1, DuringLater
  <2> QED BY <2>1, <2>2 DEF OnFirst, Working
<1>3. CASE InBetween(j, fast, u, H)
  <2>1. FirstOK(j.kind, j.items, Pass(j), j.shown, v, G)
    BY <1>3, FirstLater DEF InBetween
  <2> QED BY <1>3, <2>1 DEF InBetween, Working
<1>4. CASE OnSecond(j, fast, u, H)
  <2>1. PICK X, b : /\ Past(j.items, b, H) /\ Then(b, u) /\ FirstOK(j.kind, j.items, j.first, j.shown, b, H)
                    /\ During(j.items, j.kind, fast, X, j.pass, b, u, H) /\ j.todo = X \o AtEnd(j.kind)
    BY <1>4 DEF OnSecond
  <2>2. During(j.items, j.kind, fast, X, j.pass, b, v, G)
    BY <2>1, DuringLater
  <2>3. Past(j.items, b, G) /\ DiskOK(b) /\ Then(b, v) /\ Then(b, b)
    BY <2>1, ThenAll, ThenSame DEF Past
  <2>4. FirstOK(j.kind, j.items, j.first, j.shown, b, G)
    BY <2>1, <2>3, FirstLater
  <2> QED BY <2>1, <2>2, <2>3, <2>4 DEF OnSecond, Working
<1>5. CASE Compared(j, u, H)
  <2>1. \E b : Both(j.kind, j.items, j.first, j.shown, j.first, b, v, G)
    BY <1>5, BothLater DEF Compared
  <2> QED BY <1>5, <2>1 DEF Compared, Working
<1>6. CASE Merging(j, H)
  <2>1. \E b, w : DiskOK(w) /\ w.place = 0 /\ Both(j.kind, j.items, j.first, j.shown, Pass(j), b, w, G)
    BY <1>6, BothLater, ThenSame DEF Merging
  <2> QED BY <1>6, <2>1 DEF Merging, Working
<1>7. CASE Starting(j, fast)
  BY <1>7 DEF Working
<1> QED BY <1>1, <1>2, <1>3, <1>4, <1>5, <1>6, <1>7

-----------------------------------------------------------------------------
(* A pass of which nothing is left is done.                                *)
LEMMA DuringDone ==
  ASSUME NEW s, Items(s), NEW kind, NEW fast, fast \in BOOLEAN, NEW p, NEW b, DiskOK(b), NEW u, NEW H, DiskOK(u),
         During(s, kind, fast, <<>>, p, b, u, H), NEW a, a = Answer(p.config, p.replacements, p.results)
  PROVE  Faithful(s, a, b, u, H) /\ (Snaps(kind) => Met(s, a, b, u, H))
<1>1. PICK n : n = Len(s)
  OBVIOUS
<1>2. s \in Seq(Range(s)) /\ DOMAIN s = 1..n
  BY <1>1, LenProperties DEF Items
<1>3. PICK All : All = Range(PassOf(kind, s, fast))
  OBVIOUS
<1>4. Range(<<>>) = {} /\ All \ {} = All
  BY NoneRises
<1>5. CASE Snaps(kind)
  <2>1. LastRead(fast) \in All
    <3>1. CASE fast = TRUE
      BY <3>1, <1>1, <1>2, <1>3, <1>5, FastIs DEF LastRead, PassOf
    <3>2. CASE fast = FALSE
      BY <3>2, <1>1, <1>2, <1>3, <1>5, SlowIs DEF LastRead, PassOf
    <3> QED BY <3>1, <3>2
  <2> QED BY <2>1, <1>3, <1>4, <1>5 DEF During
<1>6. CASE ~Snaps(kind)
  <2>1. All = If(Mentions(s, "index"), "index") \cup Each("look", n)
    BY <1>1, <1>2, <1>3, <1>6, LooksAre DEF PassOf
  <2>2. (Mentions(s, "index") => Do("index") \in All) /\ \A i \in DOMAIN s : <<"look", i>> \in All
    BY <2>1, <1>2 DEF If, Each
  <2>3. Looks(s, p, All, b, u, H) /\ DOMAIN p.results = DOMAIN s
    BY <1>3, <1>4, <1>6 DEF During
  <2>4. a.results = p.results
    BY DEF Answer
  <2>5. Faithful(s, a, b, u, H)
    BY <2>2, <2>3, <2>4, LooksComplete
  <2> QED BY <1>6, <2>5
<1> QED BY <1>5, <1>6

-----------------------------------------------------------------------------
(* One step and then the rest.                                             *)
LEMMA OneThen ==
  ASSUME NEW T, NEW x, x \in T, NEW R, R \in Seq(T)
  PROVE  <<x>> \o R # <<>> /\ Head(<<x>> \o R) = x /\ Tail(<<x>> \o R) = R /\ Len(<<x>> \o R) = 1 + Len(R) /\ Len(R) \in Nat
<1>1. PICK one : one = <<x>>
  OBVIOUS
<1>2. one \in Seq(T) /\ one # <<>> /\ Head(one) = x /\ Tail(one) = <<>> /\ Len(one) = 1
  BY <1>1
<1>3. one \o R # <<>> /\ Head(one \o R) = Head(one) /\ Tail(one \o R) = Tail(one) \o R
  BY <1>2, NextOf
<1>4. Len(one \o R) = 1 + Len(R) /\ Len(R) \in Nat
  BY <1>2, ConcatProperties, LenProperties
<1>5. <<>> \o R = R
  BY ConcatEmptySeq
<1> QED BY <1>1, <1>2, <1>3, <1>4, <1>5

(* A sequence whose first element is x.                                    *)
LEMMA Split ==
  ASSUME NEW T, NEW x, x \in T, NEW B, B \in Seq(T), NEW A, A \in Seq(T), Len(A) = 1 + Len(B), A[1] = x,
         \A i \in 1..Len(B) : A[1 + i] = B[i], NEW R, R \in Seq(T)
  PROVE  A \o R = <<x>> \o (B \o R) /\ B \o R \in Seq(T)
<1>1. PICK one : one = <<x>>
  OBVIOUS
<1>2. one \in Seq(T) /\ Len(one) = 1 /\ one[1] = x
  BY <1>1
<1>3. Len(B) \in Nat
  BY LenProperties
<1>4. /\ one \o B \in Seq(T) /\ Len(one \o B) = 1 + Len(B)
      /\ \A i \in 1..1 + Len(B) : (one \o B)[i] = IF i <= 1 THEN one[i] ELSE B[i - 1]
  <2>1. /\ one \o B \in Seq(T) /\ Len(one \o B) = Len(one) + Len(B)
        /\ \A i \in 1..Len(one) + Len(B) : (one \o B)[i] = IF i <= Len(one) THEN one[i] ELSE B[i - Len(one)]
    BY <1>2, ConcatProperties
  <2> QED BY <2>1, <1>2
<1>5. \A i \in 1..Len(A) : A[i] = (one \o B)[i]
  <2> TAKE i \in 1..Len(A)
  <2>1. CASE i = 1
    BY <2>1, <1>2, <1>3, <1>4
  <2>2. CASE i # 1
    <3>1. i - 1 \in 1..Len(B) /\ i = 1 + (i - 1) /\ ~(i <= 1) /\ i \in 1..1 + Len(B)
      BY <2>2, <1>3
    <3>2. A[1 + (i - 1)] = B[i - 1]
      BY <3>1
    <3> QED BY <3>1, <3>2, <1>4
  <2> QED BY <2>1, <2>2
<1>6. A = one \o B
  BY <1>4, <1>5, SeqEqual
<1>7. Cat(Cat(one, B), R) = Cat(one, Cat(B, R)) /\ Cat(B, R) \in Seq(T)
  BY <1>2, CatAssociative, CatIs
<1> QED BY <1>1, <1>6, <1>7 DEF Cat

(* Two steps and then the rest.                                            *)
LEMMA TwoThen ==
  ASSUME NEW T, NEW x, x \in T, NEW y, y \in T, NEW R, R \in Seq(T)
  PROVE  <<x, y>> \o R = <<x>> \o (<<y>> \o R) /\ <<y>> \o R \in Seq(T)
<1>1. PICK A : A = <<x, y>>
  OBVIOUS
<1>2. PICK B : B = <<y>>
  OBVIOUS
<1>3. A \in Seq(T) /\ B \in Seq(T) /\ Len(B) = 1 /\ Len(A) = 1 + Len(B) /\ A[1] = x /\ \A i \in 1..Len(B) : A[1 + i] = B[i]
  BY <1>1, <1>2
<1> QED BY <1>1, <1>2, <1>3, Split

(* Three steps and then the rest.                                          *)
LEMMA ThreeThen ==
  ASSUME NEW T, NEW x, x \in T, NEW y, y \in T, NEW z, z \in T, NEW R, R \in Seq(T)
  PROVE  <<x, y, z>> \o R = <<x>> \o (<<y, z>> \o R) /\ <<y, z>> \o R \in Seq(T)
<1>1. PICK A : A = <<x, y, z>>
  OBVIOUS
<1>2. PICK B : B = <<y, z>>
  OBVIOUS
<1>3. A \in Seq(T) /\ B \in Seq(T) /\ Len(B) = 2 /\ Len(A) = 1 + Len(B) /\ A[1] = x /\ A[2] = B[1] /\ A[3] = B[2]
  BY <1>1, <1>2
<1>4. \A i \in 1..Len(B) : A[1 + i] = B[i]
  BY <1>3
<1> QED BY <1>1, <1>2, <1>3, <1>4, Split

(* The parts of a request are sequences of steps.                          *)
LEMMA Parts ==
  ASSUME NEW s, Items(s), NEW kind, kind \in Kinds, NEW fast, fast \in BOOLEAN, NEW T, T = AnyStep(Len(s))
  PROVE  /\ PassOf(kind, s, fast) \in Seq(T) /\ Between(kind) \in Seq(T) /\ AtEnd(kind) \in Seq(T)
         /\ Rest(kind, s, fast) \in Seq(T) /\ Between(kind) \o Rest(kind, s, fast) \in Seq(T)
         /\ PassOf(kind, s, fast) \o (Between(kind) \o Rest(kind, s, fast)) \in Seq(T)
         /\ \A name \in {"scope", "again", "content", "first", "compare", "merge", "second"} : Do(name) \in T
         /\ Seq(StepsOf(Len(s))) \subseteq Seq(T)
<1>1. \A name \in {"scope", "again", "content", "first", "compare", "merge", "second"} : Do(name) \in T
  BY DEF AnyStep
<1>2. PassOf(kind, s, fast) \in Seq(T)
  BY PassIs DEF Items
<1>3. Between(kind) \in Seq(T)
  <2>1. \A x, y, z \in T : <<x>> \in Seq(T) /\ <<x, y>> \in Seq(T) /\ <<x, y, z>> \in Seq(T)
    OBVIOUS
  <2> QED BY <1>1, <2>1 DEF Between
<1>4. AtEnd(kind) \in Seq(T)
  <2>1. \A x, y \in T : <<x>> \in Seq(T) /\ <<x, y>> \in Seq(T)
    OBVIOUS
  <2> QED BY <1>1, <2>1 DEF AtEnd
<1>5. Rest(kind, s, fast) \in Seq(T)
  BY <1>2, <1>4, ConcatProperties DEF Rest
<1>6. Between(kind) \o Rest(kind, s, fast) \in Seq(T)
  BY <1>3, <1>5, ConcatProperties
<1>7. PassOf(kind, s, fast) \o (Between(kind) \o Rest(kind, s, fast)) \in Seq(T)
  BY <1>2, <1>6, ConcatProperties
<1>8. StepsOf(Len(s)) \subseteq T
  BY DEF AnyStep
<1>9. Seq(StepsOf(Len(s))) \subseteq Seq(T)
  BY <1>8, SeqMonotonic
<1> QED BY <1>1, <1>2, <1>3, <1>4, <1>5, <1>6, <1>7, <1>9

(* A request that is answered, and what a step makes of one.               *)
Reported(j, H) ==
  j.todo = <<>> /\ (j.reply = None \/ j.reply.answer = None \/ Sound(j.kind, j.items, j.reply.code, j.reply.answer, H))
Taken(j) ==
  LET q == Advanced(j, Head(j.todo)) IN IF q.todo = <<>> THEN q ELSE [q EXCEPT !.todo = Tail(@)]
Good(j, q, u, H) ==
  /\ IsJob(q) /\ q.items = j.items /\ q.kind = j.kind
  /\ Reported(q, H) \/ (q.reply = None /\ Working(q, u, H))

(* A request that was not answered yet.                                    *)
Asked(j) ==
  /\ IsJob(j) /\ Items(j.items) /\ j.kind \in Kinds /\ j.todo # <<>> /\ j.reply = None
  /\ j.kind \in {"verified", "single"} => DOMAIN j.items = 1..1

(* What j has to do is A and then R.                                       *)
ToDo(j, A, R) == j.todo = A \o R

(* A step that ends the request.                                           *)
LEMMA EndGood ==
  ASSUME NEW j, Asked(j), NEW code, NEW answer, Advanced(j, Head(j.todo)) = End(j, code, answer), NEW u, NEW H,
         answer = None \/ Sound(j.kind, j.items, code, answer, H)
  PROVE  Good(j, Taken(j), u, H)
<1>1. PICK q : q = End(j, code, answer)
  OBVIOUS
<1>2. /\ q.todo = <<>> /\ IsJob(q) /\ q.items = j.items /\ q.kind = j.kind
      /\ q.reply = [code |-> code, answer |-> answer]
  BY <1>1, EndIs DEF Asked
<1>3. Taken(j) = q
  BY <1>1, <1>2 DEF Taken
<1>4. q.reply.code = code /\ q.reply.answer = answer
  BY <1>2
<1> QED BY <1>2, <1>3, <1>4 DEF Good, Reported

(* A step that is taken leaves the steps after it,                         *)
LEMMA TakenIs ==
  ASSUME NEW j, Asked(j), NEW q, q = Advanced(j, Head(j.todo)), IsJob(q), q.todo = j.todo, q.reply = j.reply,
         NEW r, r = Taken(j)
  PROVE  /\ IsJob(r) /\ r.todo = Tail(j.todo) /\ r.pass = q.pass /\ r.first = q.first /\ r.shown = q.shown
         /\ r.items = q.items /\ r.kind = q.kind /\ r.reply = None
<1>1. r = [q EXCEPT !.todo = Tail(j.todo)]
  BY DEF Taken, Asked
<1>3. /\ IsJob(r) /\ r.todo = Tail(j.todo) /\ r.pass = q.pass /\ r.first = q.first /\ r.shown = q.shown
      /\ r.items = q.items /\ r.kind = q.kind /\ r.reply = q.reply
  BY <1>1 DEF IsJob
<1> QED BY <1>3 DEF Asked

(* if it does nothing else,                                                *)
LEMMA TakenSame ==
  ASSUME NEW j, Asked(j), Advanced(j, Head(j.todo)) = j, NEW r, r = Taken(j)
  PROVE  /\ IsJob(r) /\ r.todo = Tail(j.todo) /\ r.pass = j.pass /\ r.first = j.first /\ r.shown = j.shown
         /\ r.items = j.items /\ r.kind = j.kind /\ r.reply = None
BY TakenIs DEF Asked

(* or changes the pass.                                                    *)
LEMMA TakenPass ==
  ASSUME NEW j, Asked(j), NEW p, Advanced(j, Head(j.todo)) = [j EXCEPT !.pass = p],
         NEW r, r = Taken(j)
  PROVE  /\ IsJob(r) /\ r.todo = Tail(j.todo) /\ r.pass = p /\ r.first = j.first /\ r.shown = j.shown
         /\ r.items = j.items /\ r.kind = j.kind /\ r.reply = None
<1>1. PICK q : q = [j EXCEPT !.pass = p]
  OBVIOUS
<1>2. IsJob(q) /\ q.todo = j.todo /\ q.reply = j.reply /\ q.pass = p /\ q.first = j.first /\ q.shown = j.shown
      /\ q.items = j.items /\ q.kind = j.kind
  BY <1>1 DEF Asked, IsJob
<1>3. q = Advanced(j, Head(j.todo))
  BY <1>1
<1> QED BY <1>2, <1>3, TakenIs

(* What a pass answers is in the pass.                                     *)
LEMMA PassSame ==
  ASSUME NEW r, NEW j, r.pass = j.pass
  PROVE  Pass(r) = Pass(j)
BY DEF Pass

-----------------------------------------------------------------------------
(* The identity is looked at, and the first pass starts.                   *)
LEMMA StartingStep ==
  ASSUME NEW j, Asked(j), NEW fast, fast \in BOOLEAN, NEW H, Past(j.items, disk, H), Starting(j, fast)
  PROVE  Good(j, Taken(j), disk, H)
<1>1. PICK T : T = AnyStep(Len(j.items))
  OBVIOUS
<1>2. PICK R : R = Between(j.kind) \o Rest(j.kind, j.items, fast)
  OBVIOUS
<1>3. PICK S : S = PassOf(j.kind, j.items, fast)
  OBVIOUS
<1>4. S \in Seq(T) /\ R \in Seq(T) /\ S \o R \in Seq(T) /\ Do("scope") \in T /\ Between(j.kind) \in Seq(T)
      /\ Rest(j.kind, j.items, fast) \in Seq(T)
  BY <1>1, <1>2, <1>3, Parts DEF Asked
<1>5. j.todo = <<Do("scope")>> \o (S \o R)
  BY <1>2, <1>3 DEF Starting
<1>6. Head(j.todo) = Do("scope") /\ Tail(j.todo) = S \o R /\ Len(j.todo) = 1 + Len(S \o R)
  BY <1>4, <1>5, OneThen
<1>7. Len(j.todo) > 1
  <2>1. Len(S \o R) = Len(S) + Len(R) /\ Len(S) \in Nat /\ Len(R) \in Nat
    BY <1>4, ConcatProperties, LenProperties
  <2>2. Len(R) = Len(Between(j.kind)) + Len(Rest(j.kind, j.items, fast)) /\ Len(Rest(j.kind, j.items, fast)) \in Nat
    BY <1>2, <1>4, ConcatProperties, LenProperties
  <2>3. Len(Between(j.kind)) \in 1..3
    <3>1. \A x, y, z : Len(<<x>>) = 1 /\ Len(<<x, y>>) = 2 /\ Len(<<x, y, z>>) = 3
      OBVIOUS
    <3> QED BY <3>1 DEF Between
  <2>4. Len(R) >= 1
    <3>1. PICK k : k = Len(Between(j.kind))
      OBVIOUS
    <3>2. PICK m : m = Len(Rest(j.kind, j.items, fast))
      OBVIOUS
    <3>3. Len(R) = k + m /\ k \in 1..3 /\ m \in Nat
      BY <2>2, <2>3, <3>1, <3>2
    <3> QED BY <3>3
  <2> QED BY <1>6, <2>1, <2>4
<1>8. CASE disk.place # 0
  <2>1. Advanced(j, Head(j.todo)) = End(j, "stale_target", None)
    BY <1>6, <1>8, AdvancedIs DEF Scope, Stale
  <2> QED BY <2>1, EndGood
<1>9. CASE disk.place = 0
  <2>1. Advanced(j, Head(j.todo)) = j
    BY <1>6, <1>7, <1>9, AdvancedIs DEF Scope
  <2>2. PICK r : r = Taken(j)
    OBVIOUS
  <2>3. /\ IsJob(r) /\ r.todo = Tail(j.todo) /\ r.pass = j.pass /\ r.items = j.items /\ r.kind = j.kind /\ r.reply = None
    BY <2>1, <2>2, TakenSame
  <2>4. During(j.items, j.kind, fast, S, NoPass(Len(j.items)), disk, disk, H)
    BY <1>3, DuringStarts DEF Asked
  <2>5. During(r.items, r.kind, fast, S, r.pass, disk, disk, H)
    BY <2>3, <2>4 DEF Starting
  <2>6. r.todo = S \o (Between(r.kind) \o Rest(r.kind, r.items, fast))
    BY <2>3, <1>2, <1>6
  <2>7. OnFirst(r, fast, disk, H)
    BY <2>5, <2>6 DEF OnFirst, Past
  <2> QED BY <2>2, <2>3, <2>7 DEF Good, Working
<1> QED BY <1>8, <1>9

(* The second pass starts.                                                 *)
LEMMA AgainStep ==
  ASSUME NEW j, Asked(j), NEW fast, fast \in BOOLEAN, NEW H, Past(j.items, disk, H),
         FirstOK(j.kind, j.items, Pass(j), j.shown, disk, H),
         ToDo(j, <<Do("again")>>, Rest(j.kind, j.items, fast))
  PROVE  Good(j, Taken(j), disk, H)
<1>1. PICK T : T = AnyStep(Len(j.items))
  OBVIOUS
<1>3. PICK S : S = PassOf(j.kind, j.items, fast)
  OBVIOUS
<1>4. Rest(j.kind, j.items, fast) \in Seq(T) /\ Do("again") \in T
  BY <1>1, Parts DEF Asked
<1>6. Head(j.todo) = Do("again") /\ Tail(j.todo) = Rest(j.kind, j.items, fast)
  BY <1>4, OneThen DEF ToDo
<1>7. PICK q : q = [j EXCEPT !.first = Pass(j), !.pass = NoPass(Len(j.items))]
  OBVIOUS
<1>8. /\ IsJob(q) /\ q.todo = j.todo /\ q.reply = j.reply /\ q.pass = NoPass(Len(j.items)) /\ q.first = Pass(j)
      /\ q.shown = j.shown /\ q.items = j.items /\ q.kind = j.kind
  BY <1>7 DEF Asked, IsJob
<1>9. q = Advanced(j, Head(j.todo))
  BY <1>6, <1>7, AdvancedIs
<1>10. PICK r : r = Taken(j)
  OBVIOUS
<1>11. /\ IsJob(r) /\ r.todo = Tail(j.todo) /\ r.pass = q.pass /\ r.first = q.first /\ r.shown = q.shown
       /\ r.items = q.items /\ r.kind = q.kind /\ r.reply = None
  <2>1. IsJob(q) /\ q.todo = j.todo /\ q.reply = j.reply
    BY <1>8
  <2> QED BY <2>1, <1>9, <1>10, TakenIs
<1>12. During(j.items, j.kind, fast, S, NoPass(Len(j.items)), disk, disk, H)
  BY <1>3, DuringStarts DEF Asked
<1>13. During(r.items, r.kind, fast, S, r.pass, disk, disk, H)
  BY <1>8, <1>11, <1>12
<1>14. r.todo = S \o AtEnd(r.kind)
  BY <1>3, <1>6, <1>8, <1>11 DEF Rest
<1>15. /\ Past(r.items, disk, H) /\ Then(disk, disk)
       /\ FirstOK(r.kind, r.items, r.first, r.shown, disk, H)
  BY <1>8, <1>11, ThenSame DEF Past
<1>16. OnSecond(r, fast, disk, H)
  BY <1>13, <1>14, <1>15 DEF OnSecond
<1> QED BY <1>8, <1>10, <1>11, <1>16 DEF Good, Working

(* What a step within a pass leaves: a job that is good, or one with the   *)
(* rest of the pass still to do.                                           *)
Onward(j, r, fast, X, R, b, H) ==
  \/ Good(j, r, disk, H)
  \/ /\ IsJob(r) /\ r.items = j.items /\ r.kind = j.kind /\ r.first = j.first /\ r.shown = j.shown /\ r.reply = None
     /\ r.todo = Tail(X) \o R /\ During(r.items, r.kind, fast, Tail(X), r.pass, b, disk, H)

(* A step within the first pass, and within the second.                    *)
LEMMA MidFirst ==
  ASSUME NEW j, Asked(j), NEW fast, fast \in BOOLEAN, NEW H, Past(j.items, disk, H), NEW X, X # <<>>, NEW b, DiskOK(b),
         During(j.items, j.kind, fast, X, j.pass, b, disk, H), NEW R, R \in Seq(AnyStep(Len(j.items))), ToDo(j, X, R),
         NEW r, r = Taken(j)
  PROVE  Onward(j, r, fast, X, R, b, H)
<1>1. PICK T : T = AnyStep(Len(j.items))
  OBVIOUS
<1>2. X \in Seq(T) /\ R \in Seq(T)
  <2>1. X \in Seq(StepsOf(Len(j.items)))
    BY DEF During, Left, Rising
  <2>2. Seq(StepsOf(Len(j.items))) \subseteq Seq(T)
    BY <1>1, Parts DEF Asked
  <2> QED BY <1>1, <2>1, <2>2
<1>3. Head(j.todo) = Head(X) /\ Tail(j.todo) = Tail(X) \o R
  BY <1>2, NextOf DEF ToDo
<1>4. IsJob(j) /\ j.todo # <<>> /\ Items(j.items)
  BY DEF Asked
<1>5. Goes(j, Advanced(j, Head(X)), fast, Tail(X), b, H)
  BY <1>4, PassStep
<1>6. CASE \E code : Advanced(j, Head(X)) = End(j, code, None)
  BY <1>3, <1>6, EndGood DEF Onward
<1>7. CASE \E p : Advanced(j, Head(X)) = [j EXCEPT !.pass = p] /\ During(j.items, j.kind, fast, Tail(X), p, b, disk, H)
  <2>1. PICK p : Advanced(j, Head(X)) = [j EXCEPT !.pass = p] /\ During(j.items, j.kind, fast, Tail(X), p, b, disk, H)
    BY <1>7
  <2>3. /\ IsJob(r) /\ r.todo = Tail(j.todo) /\ r.pass = p /\ r.first = j.first /\ r.shown = j.shown
        /\ r.items = j.items /\ r.kind = j.kind /\ r.reply = None
    <3>1. Advanced(j, Head(j.todo)) = [j EXCEPT !.pass = p]
      BY <1>3, <2>1
    <3> QED BY <3>1, TakenPass
  <2> QED BY <1>3, <2>1, <2>3 DEF Onward
<1> QED BY <1>5, <1>6, <1>7 DEF Goes

(* From the first pass to the second.                                      *)
LEMMA BetweenStep ==
  ASSUME NEW j, Asked(j), NEW fast, fast \in BOOLEAN, NEW H, Past(j.items, disk, H), InBetween(j, fast, disk, H)
  PROVE  Good(j, Taken(j), disk, H)
<1>1. FirstOK(j.kind, j.items, Pass(j), j.shown, disk, H)
  BY DEF InBetween
<1>2. PICK R : R = Rest(j.kind, j.items, fast)
  OBVIOUS
<1>3. CASE j.todo = <<Do("again")>> \o R
  BY <1>1, <1>2, <1>3, AgainStep DEF ToDo
<1>4. CASE j.kind = "single" /\ j.todo = <<Do("first"), Do("again")>> \o R
  <2>0. PICK T : T = AnyStep(Len(j.items))
    OBVIOUS
  <2>1. R \in Seq(T) /\ Do("first") \in T /\ Do("again") \in T
    BY <1>2, <2>0, Parts DEF Asked
  <2>2. j.todo = <<Do("first")>> \o (<<Do("again")>> \o R) /\ <<Do("again")>> \o R \in Seq(T)
    <3>1. <<Do("first"), Do("again")>> \o R = <<Do("first")>> \o (<<Do("again")>> \o R) /\ <<Do("again")>> \o R \in Seq(T)
      BY ONLY <2>1, TwoThen
    <3> QED BY <1>4, <3>1
  <2>3. Head(j.todo) = Do("first") /\ Tail(j.todo) = <<Do("again")>> \o R
    BY <2>1, <2>2, OneThen
  <2>4. PICK told : told = j.pass.results[1]
    OBVIOUS
  <2>5. Advanced(j, Head(j.todo)) = IF IsValue(told) THEN j ELSE End(j, told.error, Pass(j))
    BY <2>3, <2>4, AdvancedIs DEF First
  <2>6. CASE IsValue(told)
    <3>1. PICK r : r = Taken(j)
      OBVIOUS
    <3>2. /\ IsJob(r) /\ r.todo = Tail(j.todo) /\ r.pass = j.pass /\ r.first = j.first /\ r.shown = j.shown
          /\ r.items = j.items /\ r.kind = j.kind /\ r.reply = None
      BY <2>5, <2>6, <3>1, TakenSame
    <3>3. Pass(r) = Pass(j)
      BY <3>2, PassSame
    <3>4. r.todo = <<Do("again")>> \o Rest(r.kind, r.items, fast)
      BY <1>2, <2>3, <3>2
    <3>5. InBetween(r, fast, disk, H)
      BY <1>1, <3>2, <3>3, <3>4 DEF InBetween
    <3> QED BY <3>1, <3>2, <3>5 DEF Good, Working
  <2>7. CASE ~IsValue(told)
    <3>1. PICK b, d : FirstAt(j.kind, j.items, Pass(j), j.shown, disk, H, b, d)
      BY <1>1 DEF FirstOK
    <3>2. Faithful(j.items, Pass(j), b, d, H) /\ DiskOK(d)
      BY <3>1 DEF FirstAt, Past
    <3>3. 1 \in DOMAIN j.items /\ Pass(j).results[1] = told
      BY <1>4, <2>4 DEF Asked, Pass, Answer
    <3>4. Sound(j.kind, j.items, told.error, Pass(j), H)
      BY <2>7, <3>2, <3>3, ErrorSound
    <3> QED BY <2>5, <2>7, <3>4, EndGood
  <2> QED BY <2>6, <2>7
<1> QED BY <1>2, <1>3, <1>4 DEF InBetween

(* The first pass is done.                                                 *)
LEMMA FirstDone ==
  ASSUME NEW j, Asked(j), NEW fast, fast \in BOOLEAN, NEW H, Past(j.items, disk, H), NEW b, DiskOK(b),
         Faithful(j.items, Pass(j), b, disk, H), Snaps(j.kind) => Met(j.items, Pass(j), b, disk, H),
         ToDo(j, Between(j.kind), Rest(j.kind, j.items, fast))
  PROVE  Good(j, Taken(j), disk, H)
<1>1. PICK R : R = Rest(j.kind, j.items, fast)
  OBVIOUS
<1>2. PICK T : T = AnyStep(Len(j.items))
  OBVIOUS
<1>3. R \in Seq(T) /\ Do("again") \in T /\ Do("content") \in T /\ Do("scope") \in T /\ Do("first") \in T
  BY <1>1, <1>2, Parts DEF Asked
<1>4. DiskOK(disk) /\ Then(disk, disk)
  BY ThenSame DEF Past
<1>5. CASE j.kind \in {"metadata", "batch"}
  <2>1. FirstAt(j.kind, j.items, Pass(j), j.shown, disk, H, b, disk)
    BY <1>4, <1>5 DEF FirstAt
  <2>2. ToDo(j, <<Do("again")>>, Rest(j.kind, j.items, fast))
    BY <1>5 DEF ToDo, Between
  <2>3. FirstOK(j.kind, j.items, Pass(j), j.shown, disk, H)
    BY <2>1 DEF FirstOK
  <2> QED BY <2>2, <2>3, AgainStep
<1>6. CASE j.kind = "verified"
  <2>1. j.todo = <<Do("content"), Do("again")>> \o R
    BY <1>1, <1>6 DEF ToDo, Between
  <2>2. j.todo = <<Do("content")>> \o (<<Do("again")>> \o R) /\ <<Do("again")>> \o R \in Seq(T)
    <3>1. <<Do("content"), Do("again")>> \o R = <<Do("content")>> \o (<<Do("again")>> \o R) /\ <<Do("again")>> \o R \in Seq(T)
      BY ONLY <1>3, TwoThen
    <3> QED BY <2>1, <3>1
  <2>3. Head(j.todo) = Do("content") /\ Tail(j.todo) = <<Do("again")>> \o R
    BY <1>3, <2>2, OneThen
  <2>4. PICK told : told = j.pass.results[1]
    OBVIOUS
  <2>5. 1 \in DOMAIN j.items /\ Pass(j).results[1] = told
    BY <1>6, <2>4 DEF Asked, Pass, Answer
  <2>6. PICK show : show = Answer(disk.config, disk.replacements, <<Truth(j.items[1], At(disk, Told(j.items[1], told)))>>)
    OBVIOUS
  <2>7. \/ ~IsValue(told) /\ Advanced(j, Head(j.todo)) = End(j, told.error, Pass(j))
        \/ Advanced(j, Head(j.todo)) = End(j, "repository_error", None)
        \/ IsValue(told) /\ Advanced(j, Head(j.todo)) = [j EXCEPT !.shown = show]
    <3>1. Advanced(j, Head(j.todo)) = Content(j)
      BY <2>3, AdvancedIs
    <3> QED BY <3>1, <2>4, <2>6, ContentIs DEF Asked
  <2>8. CASE ~IsValue(told) /\ Advanced(j, Head(j.todo)) = End(j, told.error, Pass(j))
    <3>1. Sound(j.kind, j.items, told.error, Pass(j), H)
      BY <1>4, <2>5, <2>8, ErrorSound
    <3> QED BY <2>8, <3>1, EndGood
  <2>9. CASE Advanced(j, Head(j.todo)) = End(j, "repository_error", None)
    BY <2>9, EndGood
  <2>10. CASE IsValue(told) /\ Advanced(j, Head(j.todo)) = [j EXCEPT !.shown = show]
    <3>1. PICK q : q = [j EXCEPT !.shown = show]
      OBVIOUS
    <3>2. /\ IsJob(q) /\ q.todo = j.todo /\ q.reply = j.reply /\ q.pass = j.pass /\ q.first = j.first
          /\ q.shown = show /\ q.items = j.items /\ q.kind = j.kind
      BY <3>1 DEF Asked, IsJob
    <3>3. PICK r : r = Taken(j)
      OBVIOUS
    <3>4. /\ IsJob(r) /\ r.todo = Tail(j.todo) /\ r.pass = q.pass /\ r.first = q.first /\ r.shown = q.shown
          /\ r.items = q.items /\ r.kind = q.kind /\ r.reply = None
      <4>1. q = Advanced(j, Head(j.todo)) /\ IsJob(q) /\ q.todo = j.todo /\ q.reply = j.reply
        BY <2>10, <3>1, <3>2
      <4> QED BY <4>1, <3>3, TakenIs
    <3>5. Pass(r) = Pass(j)
      BY <3>2, <3>4, PassSame
    <3>6. FirstAt(r.kind, r.items, Pass(r), r.shown, disk, H, b, disk)
      <4>1. /\ IsValue(Pass(j).results[1])
            /\ show = Answer(disk.config, disk.replacements, <<Truth(j.items[1], At(disk, Told(j.items[1], Pass(j).results[1])))>>)
        BY <2>5, <2>6, <2>10
      <4> QED BY <4>1, <1>4, <1>6, <3>2, <3>4, <3>5 DEF FirstAt
    <3>7. r.todo = <<Do("again")>> \o Rest(r.kind, r.items, fast)
      BY <1>1, <2>3, <3>2, <3>4
    <3>8. InBetween(r, fast, disk, H)
      BY <3>6, <3>7 DEF InBetween, FirstOK
    <3> QED BY <3>2, <3>3, <3>4, <3>8 DEF Good, Working
  <2> QED BY <2>7, <2>8, <2>9, <2>10
<1>7. CASE j.kind = "single"
  <2>1. j.todo = <<Do("scope"), Do("first"), Do("again")>> \o R
    BY <1>1, <1>7 DEF ToDo, Between
  <2>2. j.todo = <<Do("scope")>> \o (<<Do("first"), Do("again")>> \o R) /\ <<Do("first"), Do("again")>> \o R \in Seq(T)
    <3>1. /\ <<Do("scope"), Do("first"), Do("again")>> \o R = <<Do("scope")>> \o (<<Do("first"), Do("again")>> \o R)
          /\ <<Do("first"), Do("again")>> \o R \in Seq(T)
      BY <1>3, ThreeThen
    <3> QED BY <2>1, <3>1
  <2>3. /\ Head(j.todo) = Do("scope") /\ Tail(j.todo) = <<Do("first"), Do("again")>> \o R
        /\ Len(j.todo) = 1 + Len(<<Do("first"), Do("again")>> \o R)
    BY <1>3, <2>2, OneThen
  <2>4. Len(j.todo) > 1
    <3>1. /\ <<Do("first"), Do("again")>> \o R = <<Do("first")>> \o (<<Do("again")>> \o R)
          /\ <<Do("again")>> \o R \in Seq(T)
      BY ONLY <1>3, TwoThen
    <3>2. Len(<<Do("first")>> \o (<<Do("again")>> \o R)) = 1 + Len(<<Do("again")>> \o R) /\ Len(<<Do("again")>> \o R) \in Nat
      BY <1>3, <3>1, OneThen
    <3>3. PICK k : k = Len(<<Do("again")>> \o R)
      OBVIOUS
    <3>4. k \in Nat /\ Len(j.todo) = 1 + (1 + k)
      BY <2>3, <3>1, <3>2, <3>3
    <3> QED BY <3>4
  <2>5. CASE disk.place # 0
    <3>1. Advanced(j, Head(j.todo)) = End(j, "stale_target", None)
      BY <2>3, <2>5, AdvancedIs DEF Scope, Stale
    <3> QED BY <3>1, EndGood
  <2>6. CASE disk.place = 0
    <3>1. Advanced(j, Head(j.todo)) = j
      BY <2>3, <2>4, <2>6, AdvancedIs DEF Scope
    <3>2. PICK r : r = Taken(j)
      OBVIOUS
    <3>3. /\ IsJob(r) /\ r.todo = Tail(j.todo) /\ r.pass = j.pass /\ r.first = j.first /\ r.shown = j.shown
          /\ r.items = j.items /\ r.kind = j.kind /\ r.reply = None
      BY <3>1, <3>2, TakenSame
    <3>4. Pass(r) = Pass(j)
      BY <3>3, PassSame
    <3>5. FirstAt(r.kind, r.items, Pass(r), r.shown, disk, H, b, disk)
      BY <1>4, <1>7, <2>6, <3>3, <3>4 DEF FirstAt
    <3>6. r.todo = <<Do("first"), Do("again")>> \o Rest(r.kind, r.items, fast)
      BY <1>1, <2>3, <3>3
    <3>7. InBetween(r, fast, disk, H)
      BY <1>7, <3>3, <3>5, <3>6 DEF InBetween, FirstOK
    <3> QED BY <3>2, <3>3, <3>7 DEF Good, Working
  <2> QED BY <2>5, <2>6 DEF Past, DiskOK
<1> QED BY <1>5, <1>6, <1>7 DEF Asked, Kinds

(* A step of the first pass.                                               *)
LEMMA FirstPassStep ==
  ASSUME NEW j, Asked(j), NEW fast, fast \in BOOLEAN, NEW H, Past(j.items, disk, H), OnFirst(j, fast, disk, H)
  PROVE  Good(j, Taken(j), disk, H)
<1>1. PICK X, b : /\ DiskOK(b) /\ During(j.items, j.kind, fast, X, j.pass, b, disk, H)
                  /\ j.todo = X \o (Between(j.kind) \o Rest(j.kind, j.items, fast))
  BY DEF OnFirst
<1>2. PICK R : R = Between(j.kind) \o Rest(j.kind, j.items, fast)
  OBVIOUS
<1>3. R \in Seq(AnyStep(Len(j.items))) /\ ToDo(j, X, R)
  BY <1>1, <1>2, Parts DEF Asked, ToDo
<1>4. CASE X # <<>>
  <2>1. PICK r : r = Taken(j)
    OBVIOUS
  <2>2. \/ Good(j, r, disk, H)
        \/ /\ IsJob(r) /\ r.items = j.items /\ r.kind = j.kind /\ r.first = j.first /\ r.shown = j.shown /\ r.reply = None
           /\ r.todo = Tail(X) \o R /\ During(r.items, r.kind, fast, Tail(X), r.pass, b, disk, H)
    <3>1. X # <<>> /\ DiskOK(b) /\ During(j.items, j.kind, fast, X, j.pass, b, disk, H)
      BY <1>1, <1>4
    <3>2. R \in Seq(AnyStep(Len(j.items))) /\ ToDo(j, X, R)
      BY <1>3
    <3>3. Asked(j) /\ fast \in BOOLEAN /\ Past(j.items, disk, H)
      OBVIOUS
    <3>4. Onward(j, r, fast, X, R, b, H)
      BY ONLY <2>1, <3>1, <3>2, <3>3, MidFirst
    <3> QED BY <3>4 DEF Onward
  <2>3. CASE /\ IsJob(r) /\ r.items = j.items /\ r.kind = j.kind /\ r.first = j.first /\ r.shown = j.shown /\ r.reply = None
             /\ r.todo = Tail(X) \o R /\ During(r.items, r.kind, fast, Tail(X), r.pass, b, disk, H)
    <3>1. r.todo = Tail(X) \o (Between(r.kind) \o Rest(r.kind, r.items, fast))
      BY <1>2, <2>3
    <3>2. OnFirst(r, fast, disk, H)
      BY <1>1, <2>3, <3>1 DEF OnFirst
    <3> QED BY <2>1, <2>3, <3>2 DEF Good, Working
  <2> QED BY <2>1, <2>2, <2>3
<1>5. CASE X = <<>>
  <2>1. j.todo = R
    BY <1>3, <1>5, ConcatEmptySeq DEF ToDo
  <2>2. During(j.items, j.kind, fast, <<>>, j.pass, b, disk, H) /\ DiskOK(disk) /\ Items(j.items)
    BY <1>1, <1>5 DEF Past, Asked
  <2>3. Faithful(j.items, Pass(j), b, disk, H) /\ (Snaps(j.kind) => Met(j.items, Pass(j), b, disk, H))
    BY <1>1, <2>2, DuringDone DEF Pass
  <2>4. ToDo(j, Between(j.kind), Rest(j.kind, j.items, fast))
    BY <1>2, <2>1 DEF ToDo
  <2> QED BY <1>1, <2>3, <2>4, FirstDone
<1> QED BY <1>4, <1>5

-----------------------------------------------------------------------------
(* The inductive invariant and the theorem.                                *)

(* The fields of what a pass answers.                                      *)
LEMMA PassFieldsAre ==
  ASSUME NEW j
  PROVE  Pass(j).config = j.pass.config /\ Pass(j).replacements = j.pass.replacements /\ Pass(j).results = j.pass.results
BY DEF Pass, Answer

(* The second pass is done.                                                *)
LEMMA SecondDone ==
  ASSUME NEW j, Asked(j), NEW H, Past(j.items, disk, H), NEW b,
         Both(j.kind, j.items, j.first, j.shown, Pass(j), b, disk, H), j.todo = AtEnd(j.kind)
  PROVE  Good(j, Taken(j), disk, H)
<1>1. DiskOK(disk)
  BY DEF Past
<1>2. CASE Snaps(j.kind)
  <2>1. AtEnd(j.kind) = <<Do("compare"), Do("scope")>>
    BY <1>2 DEF Snaps, AtEnd
  <2>2. Head(j.todo) = Do("compare") /\ Tail(j.todo) = <<Do("scope")>>
    BY <2>1
  <2>3. Advanced(j, Head(j.todo)) = IF Pass(j) = j.first THEN j ELSE End(j, "stale_target", None)
    BY <2>2, AdvancedIs DEF Compare, Same, Stale
  <2>4. CASE Pass(j) # j.first
    BY <2>3, <2>4, EndGood
  <2>5. CASE Pass(j) = j.first
    <3>1. PICK r : r = Taken(j)
      OBVIOUS
    <3>2. /\ IsJob(r) /\ r.todo = Tail(j.todo) /\ r.pass = j.pass /\ r.first = j.first /\ r.shown = j.shown
          /\ r.items = j.items /\ r.kind = j.kind /\ r.reply = None
      BY <2>3, <2>5, <3>1, TakenSame
    <3>3. Pass(r) = Pass(j)
      BY <3>2, PassSame
    <3>4. Compared(r, disk, H)
      BY <1>2, <2>2, <2>5, <3>2, <3>3 DEF Compared
    <3> QED BY <3>1, <3>2, <3>4 DEF Good, Working
  <2> QED BY <2>4, <2>5
<1>3. CASE j.kind = "batch"
  <2>1. AtEnd(j.kind) = <<Do("scope"), Do("merge")>>
    BY <1>3 DEF AtEnd
  <2>2. Head(j.todo) = Do("scope") /\ Tail(j.todo) = <<Do("merge")>> /\ Len(j.todo) > 1
    BY <2>1
  <2>3. CASE disk.place # 0
    <3>1. Advanced(j, Head(j.todo)) = End(j, "stale_target", None)
      BY <2>2, <2>3, AdvancedIs DEF Scope, Stale
    <3> QED BY <3>1, EndGood
  <2>4. CASE disk.place = 0
    <3>0. Advanced(j, Head(j.todo)) = j
      BY <2>2, <2>4, AdvancedIs DEF Scope
    <3>1. PICK r : r = Taken(j)
      OBVIOUS
    <3>2. /\ IsJob(r) /\ r.todo = Tail(j.todo) /\ r.pass = j.pass /\ r.first = j.first /\ r.shown = j.shown
          /\ r.items = j.items /\ r.kind = j.kind /\ r.reply = None
      BY <3>0, <3>1, TakenSame
    <3>3. Pass(r) = Pass(j)
      BY <3>2, PassSame
    <3>4. Merging(r, H)
      BY <1>1, <1>3, <2>2, <2>4, <3>2, <3>3 DEF Merging
    <3> QED BY <3>1, <3>2, <3>4 DEF Good, Working
  <2> QED BY <2>3, <2>4
<1>4. CASE j.kind = "single"
  <2>1. AtEnd(j.kind) = <<Do("second")>>
    BY <1>4 DEF AtEnd
  <2>2. Head(j.todo) = Do("second")
    BY <2>1
  <2>3. PICK told : told = j.pass.results[1]
    OBVIOUS
  <2>4. 1 \in DOMAIN j.items /\ DOMAIN j.items = 1..1 /\ Pass(j).results[1] = told
    BY <1>4, <2>3, PassFieldsAre DEF Asked
  <2>5. Advanced(j, Head(j.todo)) = IF told = j.first.results[1] THEN End(j, "ok", Pass(j))
                                    ELSE IF IsValue(told) \/ told = Absent THEN End(j, "stale_target", None)
                                    ELSE End(j, told.error, Pass(j))
    BY <2>2, <2>3, AdvancedIs DEF Second, Ok, Stale
  <2>6. CASE told = j.first.results[1]
    <3>1. Sound("single", j.items, "ok", Pass(j), H)
      BY <1>1, <1>4, <2>4, <2>6, SecondSound
    <3> QED BY <1>4, <2>5, <2>6, <3>1, EndGood
  <2>7. CASE told # j.first.results[1] /\ (IsValue(told) \/ told = Absent)
    BY <2>5, <2>7, EndGood
  <2>8. CASE told # j.first.results[1] /\ ~(IsValue(told) \/ told = Absent)
    <3>1. Faithful(j.items, Pass(j), b, disk, H)
      BY DEF Both
    <3>2. Sound(j.kind, j.items, told.error, Pass(j), H)
      BY <1>1, <2>4, <2>8, <3>1, ErrorSound
    <3> QED BY <2>5, <2>8, <3>2, EndGood
  <2> QED BY <2>6, <2>7, <2>8
<1> QED BY <1>2, <1>3, <1>4 DEF Asked, Kinds, Snaps

(* A step of the second pass.                                              *)
LEMMA SecondPassStep ==
  ASSUME NEW j, Asked(j), NEW fast, fast \in BOOLEAN, NEW H, Past(j.items, disk, H), OnSecond(j, fast, disk, H)
  PROVE  Good(j, Taken(j), disk, H)
<1>1. PICK X, b : /\ Past(j.items, b, H) /\ Then(b, disk) /\ FirstOK(j.kind, j.items, j.first, j.shown, b, H)
                  /\ During(j.items, j.kind, fast, X, j.pass, b, disk, H) /\ j.todo = X \o AtEnd(j.kind)
  BY DEF OnSecond
<1>2. PICK R : R = AtEnd(j.kind)
  OBVIOUS
<1>3. R \in Seq(AnyStep(Len(j.items))) /\ ToDo(j, X, R) /\ DiskOK(b)
  BY <1>1, <1>2, Parts DEF Asked, ToDo, Past
<1>4. CASE X # <<>>
  <2>1. PICK r : r = Taken(j)
    OBVIOUS
  <2>2. \/ Good(j, r, disk, H)
        \/ /\ IsJob(r) /\ r.items = j.items /\ r.kind = j.kind /\ r.first = j.first /\ r.shown = j.shown /\ r.reply = None
           /\ r.todo = Tail(X) \o R /\ During(r.items, r.kind, fast, Tail(X), r.pass, b, disk, H)
    <3>1. X # <<>> /\ DiskOK(b) /\ During(j.items, j.kind, fast, X, j.pass, b, disk, H)
      BY <1>1, <1>3, <1>4
    <3>2. R \in Seq(AnyStep(Len(j.items))) /\ ToDo(j, X, R)
      BY <1>3
    <3>3. Asked(j) /\ fast \in BOOLEAN /\ Past(j.items, disk, H)
      OBVIOUS
    <3>4. Onward(j, r, fast, X, R, b, H)
      BY ONLY <2>1, <3>1, <3>2, <3>3, MidFirst
    <3> QED BY <3>4 DEF Onward
  <2>3. CASE /\ IsJob(r) /\ r.items = j.items /\ r.kind = j.kind /\ r.first = j.first /\ r.shown = j.shown /\ r.reply = None
             /\ r.todo = Tail(X) \o R /\ During(r.items, r.kind, fast, Tail(X), r.pass, b, disk, H)
    <3>1. r.todo = Tail(X) \o AtEnd(r.kind)
      BY <1>2, <2>3
    <3>2. Past(r.items, b, H) /\ Then(b, disk) /\ FirstOK(r.kind, r.items, r.first, r.shown, b, H)
      BY <1>1, <2>3
    <3>3. OnSecond(r, fast, disk, H)
      BY <2>3, <3>1, <3>2 DEF OnSecond
    <3> QED BY <2>1, <2>3, <3>3 DEF Good, Working
  <2> QED BY <2>1, <2>2, <2>3
<1>5. CASE X = <<>>
  <2>1. j.todo = AtEnd(j.kind)
    BY <1>2, <1>3, <1>5, ConcatEmptySeq DEF ToDo
  <2>2. During(j.items, j.kind, fast, <<>>, j.pass, b, disk, H) /\ DiskOK(disk) /\ Items(j.items)
    BY <1>1, <1>5 DEF Past, Asked
  <2>3. Faithful(j.items, Pass(j), b, disk, H) /\ (Snaps(j.kind) => Met(j.items, Pass(j), b, disk, H))
    BY <1>3, <2>2, DuringDone DEF Pass
  <2>4. Both(j.kind, j.items, j.first, j.shown, Pass(j), b, disk, H)
    BY <1>1, <2>3 DEF Both
  <2> QED BY <2>1, <2>4, SecondDone
<1> QED BY <1>4, <1>5

(* The identity is looked at again after two equal snapshots.              *)
LEMMA ComparedStep ==
  ASSUME NEW j, Asked(j), NEW H, Past(j.items, disk, H), Compared(j, disk, H)
  PROVE  Good(j, Taken(j), disk, H)
<1>1. DiskOK(disk) /\ Items(j.items)
  BY DEF Past, Asked
<1>2. j.todo = <<Do("scope")>>
  BY DEF Compared
<1>3. Head(j.todo) = Do("scope") /\ ~(Len(j.todo) > 1)
  BY <1>2
<1>4. Advanced(j, Head(j.todo)) = IF disk.place # 0 THEN End(j, "stale_target", None)
                                  ELSE End(j, "ok", IF j.kind = "verified" THEN j.shown ELSE Pass(j))
  BY <1>3, AdvancedIs DEF Scope, Stale, Ok
<1>5. CASE disk.place # 0
  BY <1>4, <1>5, EndGood
<1>6. PICK b : Both(j.kind, j.items, j.first, j.shown, j.first, b, disk, H)
  BY DEF Compared
<1>7. CASE disk.place = 0 /\ j.kind = "verified"
  <2>1. DOMAIN j.items = 1..1
    BY <1>7 DEF Asked
  <2>2. Sound("verified", j.items, "ok", j.shown, H)
    BY <1>1, <1>6, <1>7, <2>1, VerifiedSound
  <2> QED BY <1>4, <1>7, <2>2, EndGood
<1>8. CASE disk.place = 0 /\ j.kind = "metadata"
  <2>1. Sound("metadata", j.items, "ok", j.first, H)
    BY <1>1, <1>6, <1>8, MetadataSound
  <2>2. Sound("metadata", j.items, "ok", Pass(j), H)
    BY <2>1 DEF Compared
  <2> QED BY <1>4, <1>8, <2>2, EndGood
<1> QED BY <1>5, <1>7, <1>8 DEF Compared, Snaps

(* Both passes of a batch are merged.                                      *)
LEMMA MergingStep ==
  ASSUME NEW j, Asked(j), NEW H, Past(j.items, disk, H), Merging(j, H)
  PROVE  Good(j, Taken(j), disk, H)
<1>1. j.kind = "batch" /\ Head(j.todo) = Do("merge") /\ Items(j.items)
  BY DEF Merging, Asked
<1>2. PICK res : res = [i \in DOMAIN j.items |-> Merged(j.first.results[i], j.pass.results[i])]
  OBVIOUS
<1>3. PICK a : a = Answer(None, None, res)
  OBVIOUS
<1>4. a.results = res
  BY <1>3 DEF Answer
<1>5. DOMAIN a.results = DOMAIN j.items
      /\ \A i \in DOMAIN j.items : a.results[i] = Merged(j.first.results[i], Pass(j).results[i])
  BY <1>2, <1>4, PassFieldsAre
<1>6. Advanced(j, Head(j.todo)) = End(j, "ok", a)
  BY <1>1, <1>2, <1>3, AdvancedIs DEF Merge, Ok
<1>7. PICK b, v : DiskOK(v) /\ v.place = 0 /\ Both(j.kind, j.items, j.first, j.shown, Pass(j), b, v, H)
  BY DEF Merging
<1>8. Sound("batch", j.items, "ok", a, H)
  BY <1>1, <1>5, <1>7, MergeSound
<1> QED BY <1>1, <1>6, <1>8, EndGood

(* A step in any phase.                                                    *)
LEMMA WorkingStep ==
  ASSUME NEW j, Asked(j), NEW H, Past(j.items, disk, H), Working(j, disk, H)
  PROVE  Good(j, Taken(j), disk, H)
<1>1. PICK fast \in BOOLEAN :
        \/ Starting(j, fast) \/ OnFirst(j, fast, disk, H) \/ InBetween(j, fast, disk, H)
        \/ OnSecond(j, fast, disk, H) \/ Compared(j, disk, H) \/ Merging(j, H)
  BY DEF Working
<1> QED BY <1>1, StartingStep, FirstPassStep, BetweenStep, SecondPassStep, ComparedStep, MergingStep

-----------------------------------------------------------------------------
(* The inductive invariant.                                                *)
AnswersOK ==
  /\ DiskOK(disk)
  /\ \/ asked = None
     \/ /\ IsJob(asked) /\ Items(asked.items) /\ asked.kind \in Kinds /\ TruthNow(asked.items, disk) \in heard
        /\ asked.kind \in {"verified", "single"} => DOMAIN asked.items = 1..1
        /\ Reported(asked, heard) \/ (asked.reply = None /\ Working(asked, disk, heard))

(* The invariant implies the property,                                     *)
LEMMA AnswersHold == AnswersOK => ReadsAreOneState
BY ReplyIs, NoReplyIs DEF AnswersOK, Reported

(* holds at the start                                                      *)
LEMMA AnswersInit == ReadInit => AnswersOK
<1> SUFFICES ASSUME ReadInit PROVE AnswersOK
  OBVIOUS
<1>1. PICK head \in {None, Commits[1]}, p \in Paths, used \in {0, 1} :
       disk = [head |-> head, index |-> [q \in Paths |-> IF q = p /\ used = 1 THEN Staged[1] ELSE None],
               lost |-> {}, used |-> used, config |-> 0, replacements |-> 0, place |-> 0]
  BY DEF ReadInit
<1>2. PICK ix : ix = [q \in Paths |-> IF q = p /\ used = 1 THEN Staged[1] ELSE None]
  OBVIOUS
<1>3. 1 \in DOMAIN Commits /\ 1 \in DOMAIN Staged /\ Len(Staged) >= 1
  BY Seqs, ReadAssumption
<1>4. head \in {None} \cup Range(Commits) /\ Staged[1] \in Range(Staged) /\ Pos(Staged[1]) = 1
  BY <1>3, Seqs, PosIs
<1>5. ix \in [Paths -> {None} \cup Range(Staged)] /\ \A q \in Paths : ix[q] # None => used = 1 /\ ix[q] = Staged[1]
  BY <1>2, <1>4
<1>6. used \in 0..Len(Staged)
  BY <1>3, Seqs
<1>7. disk = [head |-> head, index |-> ix, lost |-> {}, used |-> used, config |-> 0, replacements |-> 0, place |-> 0]
  BY <1>1, <1>2
<1>8. disk \in Disk /\ disk.index = ix /\ disk.used = used
  BY <1>4, <1>5, <1>6, <1>7 DEF Disk
<1>9. \A q \in Paths : disk.index[q] # None => Pos(disk.index[q]) <= disk.used
  BY <1>4, <1>5, <1>8
<1>10. DiskOK(disk)
  BY <1>8, <1>9 DEF DiskOK
<1> QED BY <1>10 DEF ReadInit, AnswersOK

(* and is kept by every step.                                              *)
LEMMA AnswersNext == AnswersOK /\ [ReadNext]_readVars => AnswersOK'
<1> SUFFICES ASSUME AnswersOK, [ReadNext]_readVars PROVE AnswersOK'
  OBVIOUS
<1>0. DiskOK(disk)
  BY DEF AnswersOK
<1>1. ASSUME NEW kind \in {"metadata", "verified", "batch", "single"}, NEW items \in Requests, NEW fast \in BOOLEAN,
             Ask(kind, items, fast)
      PROVE  AnswersOK'
  <2>1. PICK q : q = asked'
    OBVIOUS
  <2>2. /\ IsJob(q) /\ q.kind = kind /\ q.items = items /\ q.todo = Steps(kind, items, fast) /\ q.pass = NoPass(Len(items))
        /\ q.reply = None
    <3>1. PICK steps : steps = Steps(kind, items, fast)
      OBVIOUS
    <3>2. PICK none : none = NoPass(Len(items))
      OBVIOUS
    <3>3. q = [kind |-> kind, items |-> items, todo |-> steps, pass |-> none, first |-> None, shown |-> None, reply |-> None]
      BY <1>1, <2>1, <3>1, <3>2 DEF Ask
    <3> QED BY <3>1, <3>2, <3>3 DEF IsJob
  <2>3. Items(items) /\ kind \in Kinds
    BY ReadAssumption DEF Items, Kinds
  <2>4. kind \in {"verified", "single"} => DOMAIN items = 1..1
    <3>1. kind \in {"verified", "single"} => Len(items) = 1
      BY <1>1 DEF Ask
    <3>2. DOMAIN items = 1..Len(items)
      BY <2>3, LenProperties DEF Items
    <3> QED BY <3>1, <3>2
  <2>5. Starting(q, fast)
    BY <2>2, <2>3, StepsAre DEF Starting, Rest, Items
  <2>6. disk' = disk /\ heard' = {TruthNow(items, disk)}
    BY <1>1 DEF Ask
  <2>7. Working(q, disk, heard')
    BY <2>5 DEF Working
  <2> QED BY <1>0, <2>1, <2>2, <2>3, <2>4, <2>6, <2>7 DEF AnswersOK
<1>2. CASE Step
  <2>1. asked # None /\ asked.todo # <<>> /\ disk' = disk /\ heard' = heard /\ asked' = Taken(asked)
    BY <1>2 DEF Step, Taken
  <2>2. Asked(asked) /\ Past(asked.items, disk, heard) /\ Working(asked, disk, heard)
    BY <2>1 DEF AnswersOK, Asked, Reported, Past
  <2>3. Good(asked, asked', disk, heard)
    BY <2>1, <2>2, WorkingStep
  <2> QED BY <1>0, <2>1, <2>2, <2>3 DEF AnswersOK, Good, Asked, Past
<1>3. CASE GitFails
  <2>1. asked # None /\ asked.todo # <<>> /\ disk' = disk /\ heard' = heard /\ asked' = End(asked, "repository_error", None)
    BY <1>3 DEF GitFails, Fails
  <2>2. IsJob(asked) /\ TruthNow(asked.items, disk) \in heard
    BY <2>1 DEF AnswersOK
  <2>3. PICK q : q = asked'
    OBVIOUS
  <2>4. IsJob(q) /\ q.todo = <<>> /\ q.items = asked.items /\ q.kind = asked.kind /\ q.reply = [code |-> "repository_error", answer |-> None]
    BY <2>1, <2>2, <2>3, EndIs
  <2>5. Reported(q, heard)
    BY <2>4 DEF Reported
  <2> QED BY <2>1, <2>3, <2>4, <2>5 DEF AnswersOK
<1>4. CASE Write
  <2>1. asked # None /\ asked.todo # <<>> /\ asked' = asked /\ heard' = heard \cup {TruthNow(asked.items, disk')}
    BY <1>4 DEF Write
  <2>2. DiskOK(disk') /\ Then(disk, disk')
    BY <1>0, <1>4, WriteFollows
  <2>3. asked.reply = None /\ Working(asked, disk, heard)
    BY <2>1 DEF AnswersOK, Reported
  <2>4. PICK v : v = disk'
    OBVIOUS
  <2>5. PICK G : G = heard'
    OBVIOUS
  <2>6. Working(asked, v, G)
    BY <1>0, <2>1, <2>2, <2>3, <2>4, <2>5, WorkingLater
  <2> QED BY <2>1, <2>2, <2>3, <2>4, <2>5, <2>6 DEF AnswersOK
<1>5. CASE UNCHANGED readVars
  BY <1>5 DEF AnswersOK, readVars
<1> QED BY <1>1, <1>2, <1>3, <1>4, <1>5 DEF ReadNext

(* Whatever other programs write between the reads of a request, in any    *)
(* order and any number of times, an answer was true at one instant        *)
(* since it asked: metadata that was found together with what the index    *)
(* lacks and the settings it is read under, all that is said of HEAD,      *)
(* verified content as a whole and the values of a batch together (the     *)
(* passes and the rechecks of content_worker/metadata.rs and               *)
(* changes/blob.rs).                                                       *)
THEOREM ReadsAlwaysOneState == ReadSpec => []ReadsAreOneState
<1>1. AnswersOK /\ [ReadNext]_readVars => AnswersOK'
  BY AnswersNext
<1> QED BY AnswersInit, AnswersHold, <1>1, PTL DEF ReadSpec


-----------------------------------------------------------------------------
(* The listings of the changes (ChangeSnapshots).                          *)

(* A fold over the subsets of H: one element of each is picked, the rest   *)
(* folded first.                                                           *)
Picks(c, H) == \A s \in SUBSET H : s # {} => c[s] \in s
FoldAt(g, c, base, op, s) == IF s = {} THEN base ELSE op[<<c[s], g[s \ {c[s]}]>>]
IsFold(g, H, c, base, op) == g = [s \in SUBSET H |-> FoldAt(g, c, base, op, s)]

(* A number with a property is the least one of some.                      *)
LEMMA LeastNumber ==
  ASSUME NEW T, T \subseteq Nat, T # {}
  PROVE  \E n \in T : \A m \in T : n <= m
<1>1. PICK n \in T : \A m \in T : ~ (<<m, n>> \in OpToRel(<, Nat))
  BY NatLessThanWellFounded, WFMin
<1>2. \A m \in T : ~(m < n)
  BY <1>1 DEF OpToRel
<1> QED BY <1>2

(* A set of finite sets has one of which no other is a part.               *)
LEMMA LeastSet ==
  ASSUME NEW T, NEW H, IsFiniteSet(H), T \subseteq SUBSET H, T # {}
  PROVE  \E s \in T : \A t \in T : t \subseteq s => t = s
<1>1. \A s \in T : IsFiniteSet(s) /\ Cardinality(s) \in Nat
  BY FS_Subset, FS_CardinalityType
<1>2. PICK N : N = {n \in Nat : \E s \in T : Cardinality(s) = n}
  OBVIOUS
<1>3. PICK n \in N : \A m \in N : n <= m
  <2>1. N \subseteq Nat /\ N # {}
    BY <1>1, <1>2
  <2> QED BY <2>1, LeastNumber
<1>4. PICK s \in T : Cardinality(s) = n
  BY <1>2, <1>3
<1>5. ASSUME NEW t \in T, t \subseteq s PROVE t = s
  <2>1. Cardinality(t) \in N
    BY <1>1, <1>2
  <2>2. Cardinality(t) <= Cardinality(s) /\ (Cardinality(s) = Cardinality(t) => s = t)
    BY <1>1, <1>5, FS_Subset
  <2>3. Cardinality(s) <= Cardinality(t)
    BY <1>3, <1>4, <2>1
  <2> QED BY <1>1, <2>2, <2>3
<1> QED BY <1>5

(* Folds exist.                                                            *)
LEMMA FoldExists ==
  ASSUME NEW H, IsFiniteSet(H), NEW c, Picks(c, H), NEW V, NEW base \in V, NEW op \in [H \X V -> V]
  PROVE  \E g \in [SUBSET H -> V] : IsFold(g, H, c, base, op)
<1>1. PICK G : G = {n \in Nat : \E g \in [SUBSET H -> V] :
                      \A s \in SUBSET H : Cardinality(s) <= n => g[s] = FoldAt(g, c, base, op, s)}
  OBVIOUS
<1>2. \A s \in SUBSET H : IsFiniteSet(s) /\ Cardinality(s) \in Nat /\ (Cardinality(s) = 0 <=> s = {})
  BY FS_Subset, FS_CardinalityType, FS_EmptySet
<1>3. 0 \in G
  <2>1. PICK g : g = [s \in SUBSET H |-> base]
    OBVIOUS
  <2>2. g \in [SUBSET H -> V]
    BY <2>1
  <2>3. \A s \in SUBSET H : Cardinality(s) <= 0 => g[s] = FoldAt(g, c, base, op, s)
    BY <1>2, <2>1 DEF FoldAt
  <2> QED BY <1>1, <2>2, <2>3
<1>4. ASSUME NEW n \in G PROVE n + 1 \in G
  <2>1. n \in Nat
    BY <1>1
  <2>2. PICK g \in [SUBSET H -> V] : \A s \in SUBSET H : Cardinality(s) <= n => g[s] = FoldAt(g, c, base, op, s)
    BY <1>1
  <2>3. PICK h : h = [s \in SUBSET H |-> FoldAt(g, c, base, op, s)]
    OBVIOUS
  <2>4. h \in [SUBSET H -> V]
    <3>1. ASSUME NEW s \in SUBSET H, s # {} PROVE op[<<c[s], g[s \ {c[s]}]>>] \in V
      <4>1. c[s] \in H /\ s \ {c[s]} \in SUBSET H
        BY <3>1 DEF Picks
      <4>2. g[s \ {c[s]}] \in V
        BY <4>1
      <4> QED BY <4>1, <4>2
    <3> QED BY <2>3, <3>1 DEF FoldAt
  <2>5. ASSUME NEW s \in SUBSET H, Cardinality(s) <= n + 1 PROVE h[s] = FoldAt(h, c, base, op, s)
    <3>1. h[s] = FoldAt(g, c, base, op, s)
      BY <2>3
    <3>2. CASE s = {}
      BY <3>1, <3>2 DEF FoldAt
    <3>3. CASE s # {}
      <4>1. PICK t : t = s \ {c[s]}
        OBVIOUS
      <4>2. t \in SUBSET H /\ c[s] \in s
        BY <3>3, <4>1 DEF Picks
      <4>3. Cardinality(t) = Cardinality(s) - 1
        BY <1>2, <4>1, <4>2, FS_RemoveElement
      <4>4. Cardinality(t) <= n
        BY <1>2, <2>1, <2>5, <4>3
      <4>5. g[t] = FoldAt(g, c, base, op, t) /\ h[t] = FoldAt(g, c, base, op, t)
        BY <2>2, <2>3, <4>2, <4>4
      <4> QED BY <3>1, <3>3, <4>1, <4>5 DEF FoldAt
    <3> QED BY <3>2, <3>3
  <2> QED BY <1>1, <2>1, <2>4, <2>5
<1>5. \A n \in Nat : n \in G
  <2>1. SUFFICES ASSUME Nat \ G # {} PROVE FALSE
    OBVIOUS
  <2>2. PICK n \in Nat \ G : \A m \in Nat \ G : n <= m
    BY <2>1, LeastNumber
  <2>3. n # 0 /\ n - 1 \in Nat
    BY <1>3, <2>2
  <2>4. n - 1 \in G
    BY <2>2, <2>3
  <2>5. n - 1 + 1 \in G
    BY <1>4, <2>4
  <2> QED BY <2>2, <2>5
<1>6. Cardinality(H) \in G
  BY <1>2, <1>5
<1>7. PICK g \in [SUBSET H -> V] : \A s \in SUBSET H : Cardinality(s) <= Cardinality(H) => g[s] = FoldAt(g, c, base, op, s)
  BY <1>1, <1>6
<1>8. \A s \in SUBSET H : g[s] = FoldAt(g, c, base, op, s)
  BY <1>7, FS_Subset
<1>9. g = [s \in SUBSET H |-> FoldAt(g, c, base, op, s)]
  BY <1>8
<1> QED BY <1>9 DEF IsFold

(* The bytes of the listing of r, and of all of those in S.                *)
Bytes(e, r) == IF e[r] = None THEN 0 ELSE e[r].bytes
Sized(e) == \A r \in SnapRepos : Bytes(e, r) \in Nat

AnyOf(H) == [s \in SUBSET H |-> CHOOSE x \in s : TRUE]
Adds(e, H) == [w \in H \X Nat |-> Bytes(e, w[1]) + w[2]]
IsSum(g, e) == g \in [SUBSET SnapRepos -> Nat] /\ IsFold(g, SnapRepos, AnyOf(SnapRepos), 0, Adds(e, SnapRepos))

LEMMA AnyPicks == \A H : Picks(AnyOf(H), H)
BY DEF Picks, AnyOf

LEMMA SumExists ==
  ASSUME NEW e, Sized(e)
  PROVE  \E g : IsSum(g, e)
<1>1. PICK op : op = Adds(e, SnapRepos)
  OBVIOUS
<1>2. op \in [SnapRepos \X Nat -> Nat]
  BY <1>1 DEF Adds, Sized
<1>3. \E g \in [SUBSET SnapRepos -> Nat] : IsFold(g, SnapRepos, AnyOf(SnapRepos), 0, op)
  BY <1>2, AnyPicks, SnapAssumption, FoldExists
<1> QED BY <1>1, <1>3 DEF IsSum

(* One of the listings and the others.                                     *)
LEMMA SumAt ==
  ASSUME NEW e, NEW g, IsSum(g, e), NEW s, s \in SUBSET SnapRepos
  PROVE  /\ g[s] \in Nat
         /\ s = {} => g[s] = 0
         /\ s # {} => \E x \in s : x = AnyOf(SnapRepos)[s] /\ g[s] = Bytes(e, x) + g[s \ {x}]
<1>1. g[s] \in Nat
  BY DEF IsSum
<1>2. g[s] = FoldAt(g, AnyOf(SnapRepos), 0, Adds(e, SnapRepos), s)
  BY DEF IsSum, IsFold
<1>3. s = {} => g[s] = 0
  BY <1>2 DEF FoldAt
<1>4. ASSUME s # {} PROVE \E x \in s : x = AnyOf(SnapRepos)[s] /\ g[s] = Bytes(e, x) + g[s \ {x}]
  <2>1. PICK x : x = AnyOf(SnapRepos)[s]
    OBVIOUS
  <2>2. x \in s
    BY <1>4, <2>1, AnyPicks DEF Picks
  <2>3. PICK v : v = g[s \ {x}]
    OBVIOUS
  <2>4. v \in Nat
    BY <2>3 DEF IsSum
  <2>5. Adds(e, SnapRepos)[<<x, v>>] = Bytes(e, x) + v
    BY <2>2, <2>4 DEF Adds
  <2>6. g[s] = Adds(e, SnapRepos)[<<x, v>>]
    BY <1>2, <1>4, <2>1, <2>3 DEF FoldAt
  <2> QED BY <2>1, <2>2, <2>3, <2>5, <2>6
<1> QED BY <1>1, <1>3, <1>4

LEMMA SumSplit ==
  ASSUME NEW e, Sized(e), NEW g, IsSum(g, e), NEW S, S \in SUBSET SnapRepos, NEW r, r \in S
  PROVE  g[S] = Bytes(e, r) + g[S \ {r}]
<1>1. PICK T : T = {s \in SUBSET SnapRepos : \E x \in s : g[s] # Bytes(e, x) + g[s \ {x}]}
  OBVIOUS
<1>2. SUFFICES ASSUME T # {} PROVE FALSE
  BY <1>1
<1>3. PICK s \in T : \A t \in T : t \subseteq s => t = s
  <2>1. T \subseteq SUBSET SnapRepos /\ IsFiniteSet(SnapRepos)
    BY <1>1, SnapAssumption
  <2> QED BY <1>2, <2>1, LeastSet
<1>4. s \in SUBSET SnapRepos /\ s # {}
  BY <1>1
<1>5. PICK p \in s : g[s] # Bytes(e, p) + g[s \ {p}]
  BY <1>1
<1>6. PICK x \in s : g[s] = Bytes(e, x) + g[s \ {x}]
  <2>1. \E x \in s : x = AnyOf(SnapRepos)[s] /\ g[s] = Bytes(e, x) + g[s \ {x}]
    BY <1>4, SumAt
  <2> QED BY <2>1
<1>7. x # p
  BY <1>5, <1>6
<1>8. PICK t : t = s \ {x}
  OBVIOUS
<1>9. PICK u : u = s \ {p}
  OBVIOUS
<1>10. PICK z : z = s \ {x, p}
  OBVIOUS
<1>11. /\ t \in SUBSET SnapRepos /\ p \in t /\ t \subseteq s /\ t # s /\ t \ {p} = z
       /\ u \in SUBSET SnapRepos /\ x \in u /\ u \subseteq s /\ u # s /\ u \ {x} = z /\ z \in SUBSET SnapRepos
  BY <1>4, <1>7, <1>8, <1>9, <1>10
<1>12. t \notin T /\ u \notin T
  BY <1>3, <1>11
<1>13. g[t] = Bytes(e, p) + g[z]
  BY <1>1, <1>11, <1>12
<1>14. g[u] = Bytes(e, x) + g[z]
  BY <1>1, <1>11, <1>12
<1>15. Bytes(e, p) \in Nat /\ Bytes(e, x) \in Nat /\ g[z] \in Nat /\ g[t] \in Nat /\ g[u] \in Nat
  BY <1>4, <1>11 DEF IsSum, Sized
<1> QED BY <1>5, <1>6, <1>8, <1>9, <1>13, <1>14, <1>15

(* Less of each is not more of all.                                        *)
LEMMA SumLess ==
  ASSUME NEW e, NEW f, Sized(e), Sized(f), NEW g, NEW h, IsSum(g, e), IsSum(h, f),
         NEW S, S \in SUBSET SnapRepos, \A x \in S : Bytes(f, x) <= Bytes(e, x)
  PROVE  h[S] <= g[S]
<1>1. PICK T : T = {s \in SUBSET S : ~(h[s] <= g[s])}
  OBVIOUS
<1>2. SUFFICES ASSUME T # {} PROVE FALSE
  BY <1>1
<1>3. PICK s \in T : \A t \in T : t \subseteq s => t = s
  <2>1. T \subseteq SUBSET SnapRepos /\ IsFiniteSet(SnapRepos)
    BY <1>1, SnapAssumption
  <2> QED BY <1>2, <2>1, LeastSet
<1>4. s \in SUBSET SnapRepos /\ s \in SUBSET S /\ ~(h[s] <= g[s])
  BY <1>1
<1>5. g[s] \in Nat /\ h[s] \in Nat
  BY <1>4, SumAt
<1>6. s # {}
  <2>1. s = {} => g[s] = 0 /\ h[s] = 0
    BY <1>4, SumAt
  <2> QED BY <1>4, <2>1
<1>7. PICK x \in s : TRUE
  BY <1>6
<1>8. PICK t : t = s \ {x}
  OBVIOUS
<1>9. t \in SUBSET SnapRepos /\ t \in SUBSET S /\ t \subseteq s /\ t # s
  BY <1>4, <1>8
<1>10. h[t] <= g[t]
  BY <1>1, <1>3, <1>9
<1>11. g[s] = Bytes(e, x) + g[t]
  BY <1>4, <1>8, SumSplit
<1>12. h[s] = Bytes(f, x) + h[t]
  BY <1>4, <1>8, SumSplit
<1>13. Bytes(f, x) <= Bytes(e, x) /\ Bytes(e, x) \in Nat /\ Bytes(f, x) \in Nat
  BY <1>4 DEF Sized
<1>14. g[t] \in Nat /\ h[t] \in Nat
  BY <1>9, SumAt
<1> QED BY <1>4, <1>10, <1>11, <1>12, <1>13, <1>14

(* Nothing is left out that has bytes.                                     *)
LEMMA SumHeld ==
  ASSUME NEW e, Sized(e), NEW g, IsSum(g, e)
  PROVE  g[Held(e)] = g[SnapRepos]
<1>1. PICK K : K = Held(e)
  OBVIOUS
<1>2. K \in SUBSET SnapRepos /\ \A r \in SnapRepos \ K : Bytes(e, r) = 0
  BY <1>1 DEF Held, Bytes
<1>3. PICK T : T = {s \in SUBSET SnapRepos : K \subseteq s /\ g[s] # g[K]}
  OBVIOUS
<1>4. SUFFICES ASSUME T # {} PROVE FALSE
  BY <1>1, <1>2, <1>3
<1>5. PICK s \in T : \A t \in T : t \subseteq s => t = s
  <2>1. T \subseteq SUBSET SnapRepos /\ IsFiniteSet(SnapRepos)
    BY <1>3, SnapAssumption
  <2> QED BY <1>4, <2>1, LeastSet
<1>6. s \in SUBSET SnapRepos /\ K \subseteq s /\ g[s] # g[K]
  BY <1>3
<1>7. PICK x \in s : x \notin K
  BY <1>6
<1>8. PICK t : t = s \ {x}
  OBVIOUS
<1>9. t \in SUBSET SnapRepos /\ K \subseteq t /\ t \subseteq s /\ t # s
  BY <1>6, <1>7, <1>8
<1>10. g[t] = g[K]
  BY <1>3, <1>5, <1>9
<1>11. g[s] = Bytes(e, x) + g[t]
  BY <1>6, <1>8, SumSplit
<1>12. g[t] \in Nat /\ Bytes(e, x) = 0
  BY <1>2, <1>6, <1>7, <1>9, SumAt
<1> QED BY <1>6, <1>10, <1>11, <1>12

(* Functions that go through the numbers up to N, one after the other.     *)
Recurs(f, N, base, op) == f = [n \in 0..N |-> IF n = 0 THEN base ELSE op[<<n, f[n - 1]>>]]

LEMMA RecursExist ==
  ASSUME NEW N, N \in Nat, NEW V, NEW base, base \in V, NEW op, op \in [(1..N) \X V -> V]
  PROVE  \E f \in [0..N -> V] : Recurs(f, N, base, op)
<1>1. PICK G : G = {m \in Nat : m <= N => \E f \in [0..m -> V] : Recurs(f, m, base, op)}
  OBVIOUS
<1>2. 0 \in G
  <2>1. PICK f : f = [n \in 0..0 |-> base]
    OBVIOUS
  <2>2. f \in [0..0 -> V] /\ Recurs(f, 0, base, op)
    BY <2>1 DEF Recurs
  <2> QED BY <1>1, <2>2
<1>3. ASSUME NEW m \in G PROVE m + 1 \in G
  <2>1. m \in Nat
    BY <1>1
  <2>2. SUFFICES ASSUME m + 1 <= N PROVE \E f \in [0..m + 1 -> V] : Recurs(f, m + 1, base, op)
    BY <1>1, <2>1
  <2>3. PICK f \in [0..m -> V] : Recurs(f, m, base, op)
    BY <1>1, <2>1, <2>2
  <2>4. PICK last : last = op[<<m + 1, f[m]>>]
    OBVIOUS
  <2>5. last \in V
    <3>1. f[m] \in V /\ m + 1 \in 1..N
      BY <2>1, <2>2
    <3> QED BY <2>4, <3>1
  <2>6. PICK h : h = [n \in 0..m + 1 |-> IF n = m + 1 THEN last ELSE f[n]]
    OBVIOUS
  <2>7. (\A n \in 0..m : h[n] = f[n]) /\ h[m + 1] = last
    BY <2>1, <2>6
  <2>8. ASSUME NEW n \in 0..m + 1
        PROVE  h[n] = IF n = 0 THEN base ELSE op[<<n, h[n - 1]>>]
    <3>1. CASE n = m + 1
      <4>1. h[n - 1] = f[m] /\ n # 0
        BY <2>1, <2>7, <3>1
      <4> QED BY <2>4, <2>7, <3>1, <4>1
    <3>2. CASE n \in 0..m
      <4>1. n # 0 => h[n - 1] = f[n - 1]
        BY <2>1, <2>7, <3>2
      <4>2. f[n] = IF n = 0 THEN base ELSE op[<<n, f[n - 1]>>]
        BY <2>3, <3>2 DEF Recurs
      <4> QED BY <2>7, <3>2, <4>1, <4>2
    <3> QED BY <2>1, <3>1, <3>2
  <2>9. Recurs(h, m + 1, base, op)
    BY <2>6, <2>8 DEF Recurs
  <2>10. \A n \in 0..m + 1 : h[n] \in V
    <3>1. \A n \in 0..m + 1 : n = m + 1 \/ n \in 0..m
      BY <2>1
    <3> QED BY <2>3, <2>5, <2>7, <3>1
  <2>11. h \in [0..m + 1 -> V]
    BY <2>6, <2>10
  <2> QED BY <2>9, <2>11
<1>4. N \in G
  <2>1. SUFFICES ASSUME Nat \ G # {} PROVE FALSE
    OBVIOUS
  <2>2. PICK n \in Nat \ G : \A m \in Nat \ G : n <= m
    BY <2>1, LeastNumber
  <2>3. n # 0 /\ n - 1 \in Nat
    BY <1>2, <2>2
  <2>4. n - 1 \in G
    BY <2>2, <2>3
  <2> QED BY <1>3, <2>2, <2>3, <2>4
<1> QED BY <1>1, <1>4

(* Sizes are numbers.                                                      *)
SumOf(f, list) == f = [n \in 0..Len(list) |-> IF n = 0 THEN 0 ELSE f[n - 1] + Size[list[n]]]

LEMMA SizesAreNumbers ==
  ASSUME NEW list, list \in Listings0
  PROVE  SnapshotBytes(list) \in Nat
<1>1. list \in Seq(Changes)
  BY SnapAssumption
<1>2. PICK N \in Nat : N = Len(list) /\ DOMAIN list = 1..N
  BY <1>1
<1>3. \A n \in 1..N : Size[list[n]] \in Nat
  <2>1. \A n \in 1..N : list[n] \in Changes
    BY <1>1, <1>2
  <2>2. Size \in Seq(Nat)
    BY SnapAssumption
  <2>3. \A c \in DOMAIN Size : Size[c] \in Nat
    BY <2>2
  <2> QED BY <2>1, <2>3 DEF Changes
<1>4. PICK op : op = [w \in (1..N) \X Nat |-> w[2] + Size[list[w[1]]]]
  OBVIOUS
<1>5. op \in [(1..N) \X Nat -> Nat]
  BY <1>3, <1>4
<1>6. PICK f \in [0..N -> Nat] : Recurs(f, N, 0, op)
  BY <1>5, RecursExist
<1>7. ASSUME NEW n \in 0..N PROVE f[n] = IF n = 0 THEN 0 ELSE f[n - 1] + Size[list[n]]
  <2>1. f[n] = IF n = 0 THEN 0 ELSE op[<<n, f[n - 1]>>]
    BY <1>6 DEF Recurs
  <2>2. CASE n # 0
    <3>1. n - 1 \in 0..N /\ n \in 1..N
      BY <2>2
    <3>2. f[n - 1] \in Nat
      BY <3>1
    <3> QED BY <1>4, <2>1, <2>2, <3>1, <3>2
  <2> QED BY <2>1, <2>2
<1>8. SumOf(f, list)
  BY <1>2, <1>6, <1>7 DEF SumOf, Recurs
<1>9. PICK g : g = CHOOSE x : SumOf(x, list)
  OBVIOUS
<1>10. SumOf(g, list)
  BY <1>8, <1>9
<1>11. SumOfSizes(list) = g[N]
  BY <1>2, <1>9 DEF SumOfSizes, SumOf
<1>12. g[N] \in Nat
  <2>1. PICK T : T = {n \in 0..N : g[n] \notin Nat}
    OBVIOUS
  <2>2. SUFFICES ASSUME T # {} PROVE FALSE
    BY <2>1
  <2>3. T \subseteq Nat
    BY <2>1
  <2>4. PICK n \in T : \A m \in T : n <= m
    BY <2>2, <2>3, LeastNumber
  <2>5. n \in 0..N /\ g[n] \notin Nat
    BY <2>1
  <2>6. g[n] = IF n = 0 THEN 0 ELSE g[n - 1] + Size[list[n]]
    BY <1>2, <1>10, <2>5 DEF SumOf
  <2>7. n # 0 /\ n - 1 \in 0..N /\ n \in 1..N
    BY <2>5, <2>6
  <2>8. g[n - 1] \in Nat
    BY <2>1, <2>4, <2>7
  <2> QED BY <1>3, <2>5, <2>6, <2>7, <2>8
<1> QED BY <1>11, <1>12 DEF SnapshotBytes

(* The starts of the pages are before the entries.                         *)
IsPage(p, N) == /\ p.starts \in SUBSET (0..N) /\ 0 \in p.starts /\ (\A x \in p.starts : x = 0 \/ x < N)
                /\ p.bytes \in Nat /\ p.items \in Nat
Pages(N) == {p \in [starts : SUBSET (0..N), bytes : Nat, items : Nat] : IsPage(p, N)}

PageFrom(f, list) == f = [n \in 0..Len(list) |-> IF n = 0 THEN NoPage ELSE WithItem(f[n - 1], n, Size[list[n]] + 1)]

LEMMA NoPageIs == \A N \in Nat : NoPage \in Pages(N)
BY DEF NoPage, Pages, IsPage

LEMMA WithItemIs ==
  ASSUME NEW N, N \in Nat, NEW p, p \in Pages(N), NEW n, n \in 1..N, NEW size, size \in Nat
  PROVE  WithItem(p, n, size) \in Pages(N)
<1>1. /\ p.starts \in SUBSET (0..N) /\ 0 \in p.starts /\ (\A x \in p.starts : x = 0 \/ x < N)
      /\ p.bytes \in Nat /\ p.items \in Nat
  BY DEF Pages, IsPage
<1>2. PICK t : t = p.starts \cup {n - 1}
  OBVIOUS
<1>3. t \in SUBSET (0..N) /\ 0 \in t /\ \A x \in t : x = 0 \/ x < N
  BY <1>1, <1>2
<1>4. PICK q : q = [starts |-> t, bytes |-> size, items |-> 1]
  OBVIOUS
<1>5. q \in Pages(N)
  BY <1>3, <1>4 DEF Pages, IsPage
<1>6. PICK r : r = [starts |-> p.starts, bytes |-> p.bytes + size, items |-> p.items + 1]
  OBVIOUS
<1>7. p.bytes + size \in Nat /\ p.items + 1 \in Nat
  BY <1>1
<1>8. r \in Pages(N)
  BY <1>1, <1>6, <1>7 DEF Pages, IsPage
<1>9. WithItem(p, n, size) = q \/ WithItem(p, n, size) = r
  BY <1>2, <1>4, <1>6 DEF WithItem
<1> QED BY <1>5, <1>8, <1>9

LEMMA StartsAreIn ==
  ASSUME NEW list, list \in Listings0
  PROVE  /\ PageStarts[list] \subseteq 0..Len(list) /\ 0 \in PageStarts[list]
         /\ \A x \in PageStarts[list] : x = 0 \/ x < Len(list)
<1>1. list \in Seq(Changes)
  BY SnapAssumption
<1>2. PICK N \in Nat : N = Len(list) /\ DOMAIN list = 1..N
  BY <1>1
<1>3. \A n \in 1..N : Size[list[n]] + 1 \in Nat
  <2>1. \A n \in 1..N : list[n] \in Changes
    BY <1>1, <1>2
  <2>2. Size \in Seq(Nat)
    BY SnapAssumption
  <2>3. \A c \in DOMAIN Size : Size[c] \in Nat
    BY <2>2
  <2> QED BY <2>1, <2>3 DEF Changes
<1>4. PICK V : V = Pages(N)
  OBVIOUS
<1>5. PICK op : op = [w \in (1..N) \X V |-> WithItem(w[2], w[1], Size[list[w[1]]] + 1)]
  OBVIOUS
<1>6. op \in [(1..N) \X V -> V]
  <2>1. ASSUME NEW n \in 1..N, NEW p \in V PROVE WithItem(p, n, Size[list[n]] + 1) \in V
    <3>1. PICK size \in Nat : size = Size[list[n]] + 1
      BY <1>3
    <3>2. WithItem(p, n, size) \in Pages(N)
      BY <1>4, <3>1, WithItemIs
    <3> QED BY <1>4, <3>1, <3>2
  <2> QED BY <1>5, <2>1
<1>7. NoPage \in V
  BY <1>4, NoPageIs
<1>8. PICK f \in [0..N -> V] : Recurs(f, N, NoPage, op)
  BY <1>6, <1>7, RecursExist
<1>9. ASSUME NEW n \in 0..N PROVE f[n] = IF n = 0 THEN NoPage ELSE WithItem(f[n - 1], n, Size[list[n]] + 1)
  <2>1. f[n] = IF n = 0 THEN NoPage ELSE op[<<n, f[n - 1]>>]
    BY <1>8 DEF Recurs
  <2>2. CASE n # 0
    <3>1. n - 1 \in 0..N /\ n \in 1..N
      BY <2>2
    <3>2. f[n - 1] \in V
      BY <3>1
    <3> QED BY <1>5, <2>1, <2>2, <3>1, <3>2
  <2> QED BY <2>1, <2>2
<1>10. PageFrom(f, list)
  BY <1>2, <1>8, <1>9 DEF PageFrom, Recurs
<1>11. PICK g : g = CHOOSE x : PageFrom(x, list)
  OBVIOUS
<1>12. PageFrom(g, list)
  BY <1>10, <1>11
<1>13. PageStarts[list] = g[N].starts
  BY <1>2, <1>11 DEF PageStarts, PageFrom
<1>14. g[N] \in Pages(N)
  <2>1. PICK T : T = {n \in 0..N : g[n] \notin Pages(N)}
    OBVIOUS
  <2>2. SUFFICES ASSUME T # {} PROVE FALSE
    BY <2>1
  <2>3. T \subseteq Nat
    BY <2>1
  <2>4. PICK n \in T : \A m \in T : n <= m
    BY <2>2, <2>3, LeastNumber
  <2>5. n \in 0..N /\ g[n] \notin Pages(N)
    BY <2>1
  <2>6. g[n] = IF n = 0 THEN NoPage ELSE WithItem(g[n - 1], n, Size[list[n]] + 1)
    BY <1>2, <1>12, <2>5 DEF PageFrom
  <2>7. n # 0
    BY <2>5, <2>6, NoPageIs
  <2>8. n - 1 \in 0..N /\ n \in 1..N
    BY <2>5, <2>7
  <2>9. g[n - 1] \in Pages(N)
    BY <2>1, <2>4, <2>8
  <2>10. PICK size \in Nat : size = Size[list[n]] + 1
    BY <1>3, <2>8
  <2>11. WithItem(g[n - 1], n, size) \in Pages(N)
    BY <2>8, <2>9, WithItemIs
  <2> QED BY <2>5, <2>6, <2>7, <2>10, <2>11
<1>15. IsPage(g[N], N)
  BY <1>14 DEF Pages
<1> QED BY <1>2, <1>13, <1>15 DEF IsPage

(* The matches are entries.                                                *)
FoundIn(f, list, S) ==
  f = [n \in 0..Len(list) |->
        IF n = 0 THEN <<>> ELSE IF list[n] \in S THEN Append(f[n - 1], n) ELSE f[n - 1]]

LEMMA MatchesAreIn ==
  ASSUME NEW list, list \in Listings0, NEW S
  PROVE  MatchesOf(list, S) \in Seq(1..Len(list))
<1>1. list \in Seq(Changes)
  BY SnapAssumption
<1>2. PICK N \in Nat : N = Len(list)
  BY <1>1
<1>3. PICK V : V = Seq(1..N)
  OBVIOUS
<1>4. PICK op : op = [w \in (1..N) \X V |-> IF list[w[1]] \in S THEN Append(w[2], w[1]) ELSE w[2]]
  OBVIOUS
<1>5. op \in [(1..N) \X V -> V]
  <2>1. \A n \in 1..N, s \in V : Append(s, n) \in V
    BY <1>3
  <2> QED BY <1>4, <2>1
<1>6. <<>> \in V
  BY <1>3
<1>7. PICK f \in [0..N -> V] : Recurs(f, N, <<>>, op)
  BY <1>5, <1>6, RecursExist
<1>8. ASSUME NEW n \in 0..N
      PROVE  f[n] = IF n = 0 THEN <<>> ELSE IF list[n] \in S THEN Append(f[n - 1], n) ELSE f[n - 1]
  <2>1. f[n] = IF n = 0 THEN <<>> ELSE op[<<n, f[n - 1]>>]
    BY <1>7 DEF Recurs
  <2>2. CASE n # 0
    <3>1. n - 1 \in 0..N /\ n \in 1..N
      BY <2>2
    <3>2. f[n - 1] \in V
      BY <3>1
    <3>3. op[<<n, f[n - 1]>>] = IF list[n] \in S THEN Append(f[n - 1], n) ELSE f[n - 1]
      BY <1>4, <3>1, <3>2
    <3> QED BY <2>1, <2>2, <3>3
  <2> QED BY <2>1, <2>2
<1>9. FoundIn(f, list, S)
  BY <1>2, <1>7, <1>8 DEF FoundIn, Recurs
<1>10. PICK g : g = CHOOSE x : FoundIn(x, list, S)
  OBVIOUS
<1>11. FoundIn(g, list, S)
  BY <1>9, <1>10
<1>12. MatchesOf(list, S) = g[N]
  BY <1>2, <1>10 DEF MatchesOf, FoundIn
<1>13. g[N] \in V
  <2>1. PICK T : T = {n \in 0..N : g[n] \notin V}
    OBVIOUS
  <2>2. SUFFICES ASSUME T # {} PROVE FALSE
    BY <2>1
  <2>3. T \subseteq Nat
    BY <2>1
  <2>4. PICK n \in T : \A m \in T : n <= m
    BY <2>2, <2>3, LeastNumber
  <2>5. n \in 0..N /\ g[n] \notin V
    BY <2>1
  <2>6. g[n] = IF n = 0 THEN <<>> ELSE IF list[n] \in S THEN Append(g[n - 1], n) ELSE g[n - 1]
    BY <1>2, <1>11, <2>5 DEF FoundIn
  <2>7. n # 0
    BY <1>6, <2>5, <2>6
  <2>8. n - 1 \in 0..N /\ n \in 1..N
    BY <2>5, <2>7
  <2>9. g[n - 1] \in V
    BY <2>1, <2>4, <2>8
  <2>10. Append(g[n - 1], n) \in V
    BY <1>3, <2>8, <2>9
  <2> QED BY <2>5, <2>6, <2>7, <2>9, <2>10
<1> QED BY <1>2, <1>3, <1>12, <1>13

(* The binary search.                                                      *)
Searches(f, list, c) ==
  f = [w \in (0..Len(list)) \X (0..Len(list)) |->
        LET lower == w[1]
            upper == w[2]
            middle == lower + (upper - lower) \div 2 IN
        IF lower >= upper THEN None
        ELSE IF list[middle + 1] < c THEN f[<<middle + 1, upper>>]
        ELSE IF list[middle + 1] > c THEN f[<<lower, middle>>]
        ELSE middle + 1]

(* What it looks for among the entries after `lower' and up to `upper'.    *)
Sought(list, c, lower, upper) ==
  IF \E i \in lower + 1..upper : list[i] = c THEN CHOOSE i \in lower + 1..upper : list[i] = c ELSE None

Sorted(list, N) ==
  /\ N \in Nat /\ Len(list) = N /\ DOMAIN list = 1..N /\ \A i \in 1..N : list[i] \in Nat
  /\ \A i, j \in 1..N : i < j => list[i] < list[j]

LEMMA ListsAreSorted ==
  ASSUME NEW list, list \in Listings0
  PROVE  \E N \in Nat : Sorted(list, N)
<1>1. list \in Seq(Changes)
  BY SnapAssumption
<1>2. PICK N \in Nat : N = Len(list) /\ DOMAIN list = 1..N
  BY <1>1
<1>3. \A i \in 1..N : list[i] \in Nat
  <2>1. \A n \in 1..N : list[n] \in Changes
    BY <1>1, <1>2
  <2>2. Size \in Seq(Nat)
    BY SnapAssumption
  <2>3. \A c \in DOMAIN Size : c \in Nat
    BY <2>2
  <2> QED BY <2>1, <2>3 DEF Changes
<1>4. \A i, j \in 1..N : i < j => list[i] < list[j]
  BY <1>2, SnapAssumption
<1> QED BY <1>2, <1>3, <1>4 DEF Sorted

Hit(list, c, lower, upper, i) == i \in lower + 1..upper /\ list[i] = c

LEMMA FoundIs ==
  ASSUME NEW list, NEW N, Sorted(list, N), NEW c, NEW lower, lower \in 0..N, NEW upper, upper \in 0..N,
         NEW i, Hit(list, c, lower, upper, i)
  PROVE  Sought(list, c, lower, upper) = i
<1>0. i \in lower + 1..upper /\ list[i] = c
  BY DEF Hit
<1>1. N \in Nat /\ lower \in Nat /\ upper \in Nat /\ lower + 1..upper \subseteq 1..N
  BY DEF Sorted
<1>2. \A j \in lower + 1..upper : list[j] = c => j = i
  <2>1. SUFFICES ASSUME NEW j \in lower + 1..upper, list[j] = c, j # i PROVE FALSE
    OBVIOUS
  <2>2. i \in 1..N /\ j \in 1..N /\ list[i] \in Nat
    BY <1>0, <1>1 DEF Sorted
  <2>3. i < j \/ j < i
    BY <1>1, <2>1, <2>2
  <2>4. list[i] < list[j] \/ list[j] < list[i]
    BY <2>2, <2>3 DEF Sorted
  <2> QED BY <1>0, <2>1, <2>2, <2>4
<1>3. PICK x : x = CHOOSE j \in lower + 1..upper : list[j] = c
  OBVIOUS
<1>4. x \in lower + 1..upper /\ list[x] = c
  BY <1>0, <1>3
<1> QED BY <1>0, <1>2, <1>3, <1>4 DEF Sought

LEMMA FoundNone ==
  ASSUME NEW list, NEW c, NEW lower, NEW upper, ~\E i \in lower + 1..upper : list[i] = c
  PROVE  Sought(list, c, lower, upper) = None
BY DEF Sought

LEMMA Halves ==
  ASSUME NEW a, a \in Nat, NEW b, b \in Nat, a < b
  PROVE  \E m \in Nat : m = a + (b - a) \div 2 /\ a <= m /\ m < b
<1>1. PICK d \in Nat : d = b - a /\ d > 0
  OBVIOUS
<1>2. PICK h : h = d \div 2
  OBVIOUS
<1>3. h \in Nat /\ h < d
  BY <1>1, <1>2
<1>4. a + h \in Nat /\ a <= a + h /\ a + h < b
  BY <1>1, <1>3
<1> QED BY <1>1, <1>2, <1>4

(* A half of it holds what is looked for.                                  *)
LEMMA FoundHalf ==
  ASSUME NEW list, NEW N, Sorted(list, N), NEW c, c \in Nat, NEW lower, lower \in 0..N, NEW upper, upper \in 0..N,
         lower < upper, NEW m, m \in Nat, lower <= m, m < upper
  PROVE  Sought(list, c, lower, upper) =
           IF list[m + 1] < c THEN Sought(list, c, m + 1, upper)
           ELSE IF list[m + 1] > c THEN Sought(list, c, lower, m)
           ELSE m + 1
<1>1. N \in Nat /\ lower \in Nat /\ upper \in Nat /\ lower + 1..upper \subseteq 1..N
      /\ m + 1 \in lower + 1..upper /\ m \in 0..N /\ m + 1 \in 0..N
  BY DEF Sorted
<1>2. \A i \in lower + 1..upper : list[i] \in Nat /\ list[m + 1] \in Nat
  BY <1>1 DEF Sorted
<1>3. \A i \in lower + 1..upper : (i < m + 1 => list[i] < list[m + 1]) /\ (m + 1 < i => list[m + 1] < list[i])
  BY <1>1 DEF Sorted
<1>4. CASE list[m + 1] < c
  <2>1. \A i \in lower + 1..upper : list[i] = c => i \in m + 1 + 1..upper
    BY <1>1, <1>2, <1>3, <1>4
  <2>2. m + 1 + 1..upper \subseteq lower + 1..upper
    BY <1>1
  <2>3. CASE \E i \in lower + 1..upper : list[i] = c
    <3>1. PICK i \in lower + 1..upper : list[i] = c
      BY <2>3
    <3>2. i \in m + 1 + 1..upper
      BY <2>1, <3>1
    <3>3. Sought(list, c, lower, upper) = i
      <4>1. Hit(list, c, lower, upper, i)
        BY <3>1 DEF Hit
      <4> QED BY <4>1, FoundIs
    <3>4. Sought(list, c, m + 1, upper) = i
      <4>1. Hit(list, c, m + 1, upper, i)
        BY <3>1, <3>2 DEF Hit
      <4> QED BY <1>1, <4>1, FoundIs
    <3> QED BY <1>4, <3>3, <3>4
  <2>4. CASE ~\E i \in lower + 1..upper : list[i] = c
    <3>1. Sought(list, c, lower, upper) = None
      BY <2>4, FoundNone
    <3>2. Sought(list, c, m + 1, upper) = None
      BY <2>2, <2>4, FoundNone
    <3> QED BY <1>4, <3>1, <3>2
  <2> QED BY <2>3, <2>4
<1>5. CASE list[m + 1] > c
  <2>1. \A i \in lower + 1..upper : list[i] = c => i \in lower + 1..m
    BY <1>1, <1>2, <1>3, <1>5
  <2>2. lower + 1..m \subseteq lower + 1..upper
    BY <1>1
  <2>5. ~(list[m + 1] < c)
    BY <1>1, <1>2, <1>5
  <2>3. CASE \E i \in lower + 1..upper : list[i] = c
    <3>1. PICK i \in lower + 1..upper : list[i] = c
      BY <2>3
    <3>2. i \in lower + 1..m
      BY <2>1, <3>1
    <3>3. Sought(list, c, lower, upper) = i
      <4>1. Hit(list, c, lower, upper, i)
        BY <3>1 DEF Hit
      <4> QED BY <4>1, FoundIs
    <3>4. Sought(list, c, lower, m) = i
      <4>1. Hit(list, c, lower, m, i)
        BY <3>1, <3>2 DEF Hit
      <4> QED BY <1>1, <4>1, FoundIs
    <3> QED BY <1>5, <2>5, <3>3, <3>4
  <2>4. CASE ~\E i \in lower + 1..upper : list[i] = c
    <3>1. Sought(list, c, lower, upper) = None
      BY <2>4, FoundNone
    <3>2. Sought(list, c, lower, m) = None
      BY <2>2, <2>4, FoundNone
    <3> QED BY <1>5, <2>5, <3>1, <3>2
  <2> QED BY <2>3, <2>4
<1>6. CASE ~(list[m + 1] < c) /\ ~(list[m + 1] > c)
  <2>1. list[m + 1] = c
    BY <1>1, <1>2, <1>6
  <2>2. Sought(list, c, lower, upper) = m + 1
    <3>1. Hit(list, c, lower, upper, m + 1)
      BY <1>1, <2>1 DEF Hit
    <3> QED BY <3>1, FoundIs
  <2> QED BY <1>6, <2>2
<1> QED BY <1>4, <1>5, <1>6

LEMMA FindFinds ==
  ASSUME NEW list, NEW N, Sorted(list, N), NEW c, c \in Nat
  PROVE  Find(list, c) = Sought(list, c, 0, N)
<1>1. N \in Nat /\ Len(list) = N
  BY DEF Sorted
<1>2. PICK W : W = (0..N) \X (0..N)
  OBVIOUS
<1>3. PICK h : h = [w \in W |-> Sought(list, c, w[1], w[2])]
  OBVIOUS
<1>4. ASSUME NEW lower \in 0..N, NEW upper \in 0..N, NEW m, m = lower + (upper - lower) \div 2
      PROVE  Sought(list, c, lower, upper) =
               IF lower >= upper THEN None
               ELSE IF list[m + 1] < c THEN Sought(list, c, m + 1, upper)
               ELSE IF list[m + 1] > c THEN Sought(list, c, lower, m)
               ELSE m + 1
  <2>1. CASE lower >= upper
    <3>1. ~\E i \in lower + 1..upper : list[i] = c
      BY <1>1, <2>1
    <3> QED BY <2>1, <3>1, FoundNone
  <2>2. CASE lower < upper
    <3>1. lower \in Nat /\ upper \in Nat
      BY <1>1
    <3>2. m \in Nat /\ lower <= m /\ m < upper
      BY <1>4, <2>2, <3>1, Halves
    <3>3. Sought(list, c, lower, upper) =
           IF list[m + 1] < c THEN Sought(list, c, m + 1, upper)
           ELSE IF list[m + 1] > c THEN Sought(list, c, lower, m)
           ELSE m + 1
      BY <2>2, <3>2, FoundHalf
    <3>4. ~(lower >= upper)
      BY <2>2, <3>1
    <3> QED BY <3>3, <3>4
  <2> QED BY <1>1, <2>1, <2>2
<1>5. ASSUME NEW lower \in 0..N, NEW upper \in 0..N, lower < upper, NEW m, m = lower + (upper - lower) \div 2
      PROVE  m \in Nat /\ lower <= m /\ m < upper /\ m \in 0..N /\ m + 1 \in 0..N
  <2>1. lower \in Nat /\ upper \in Nat
    BY <1>1
  <2>2. m \in Nat /\ lower <= m /\ m < upper
    BY <1>5, <2>1, Halves
  <2> QED BY <1>1, <2>1, <2>2
<1>6. Searches(h, list, c)
  <2>1. ASSUME NEW w \in W, NEW lower, lower = w[1], NEW upper, upper = w[2],
               NEW m, m = lower + (upper - lower) \div 2
        PROVE  h[w] = IF lower >= upper THEN None
                      ELSE IF list[m + 1] < c THEN h[<<m + 1, upper>>]
                      ELSE IF list[m + 1] > c THEN h[<<lower, m>>]
                      ELSE m + 1
    <3>1. lower \in 0..N /\ upper \in 0..N /\ h[w] = Sought(list, c, lower, upper)
      BY <1>2, <1>3, <2>1
    <3>2. CASE lower >= upper
      BY <1>4, <2>1, <3>1, <3>2
    <3>3. CASE lower < upper
      <4>1. m \in 0..N /\ m + 1 \in 0..N
        BY <1>5, <2>1, <3>1, <3>3
      <4>2. h[<<m + 1, upper>>] = Sought(list, c, m + 1, upper) /\ h[<<lower, m>>] = Sought(list, c, lower, m)
        BY <1>2, <1>3, <3>1, <4>1
      <4> QED BY <1>4, <2>1, <3>1, <4>2
    <3> QED BY <1>1, <3>1, <3>2, <3>3
  <2>2. \A w \in W : h[w] = LET lower == w[1]
                               upper == w[2]
                               middle == lower + (upper - lower) \div 2 IN
                           IF lower >= upper THEN None
                           ELSE IF list[middle + 1] < c THEN h[<<middle + 1, upper>>]
                           ELSE IF list[middle + 1] > c THEN h[<<lower, middle>>]
                           ELSE middle + 1
    BY <2>1
  <2>3. h = [w \in W |-> h[w]]
    BY <1>3
  <2> QED BY <1>1, <1>2, <2>2, <2>3 DEF Searches
<1>7. PICK g : g = CHOOSE x : Searches(x, list, c)
  OBVIOUS
<1>8. Searches(g, list, c)
  BY <1>6, <1>7
<1>9. Find(list, c) = g[<<0, N>>]
  BY <1>1, <1>7 DEF Find, Searches
<1>10. ASSUME NEW w \in W, NEW lower, lower = w[1], NEW upper, upper = w[2],
              NEW m, m = lower + (upper - lower) \div 2
       PROVE  g[w] = IF lower >= upper THEN None
                     ELSE IF list[m + 1] < c THEN g[<<m + 1, upper>>]
                     ELSE IF list[m + 1] > c THEN g[<<lower, m>>]
                     ELSE m + 1
  BY <1>1, <1>2, <1>8, <1>10 DEF Searches
<1>11. \A lower, upper \in 0..N : g[<<lower, upper>>] = Sought(list, c, lower, upper)
  <2>1. PICK T : T = {n \in Nat : \E lower, upper \in 0..N : n = (IF lower >= upper THEN 0 ELSE upper - lower)
                                     /\ g[<<lower, upper>>] # Sought(list, c, lower, upper)}
    OBVIOUS
  <2>2. ASSUME NEW lower \in 0..N, NEW upper \in 0..N PROVE (IF lower >= upper THEN 0 ELSE upper - lower) \in Nat
    OBVIOUS
  <2>3. SUFFICES ASSUME T # {} PROVE FALSE
    BY <2>1, <2>2
  <2>4. T \subseteq Nat
    BY <2>1
  <2>5. PICK n \in T : \A k \in T : n <= k
    BY <2>3, <2>4, LeastNumber
  <2>6. PICK lower \in 0..N, upper \in 0..N : n = (IF lower >= upper THEN 0 ELSE upper - lower)
                                     /\ g[<<lower, upper>>] # Sought(list, c, lower, upper)
    BY <2>1
  <2>7. PICK m : m = lower + (upper - lower) \div 2
    OBVIOUS
  <2>8. PICK w : w = <<lower, upper>>
    OBVIOUS
  <2>9. w \in W /\ w[1] = lower /\ w[2] = upper
    BY <1>2, <2>8
  <2>10. g[<<lower, upper>>] = IF lower >= upper THEN None
                     ELSE IF list[m + 1] < c THEN g[<<m + 1, upper>>]
                     ELSE IF list[m + 1] > c THEN g[<<lower, m>>]
                     ELSE m + 1
    BY <1>10, <2>7, <2>8, <2>9
  <2>11. CASE lower >= upper
    BY <1>4, <2>6, <2>7, <2>10, <2>11
  <2>12. CASE lower < upper
    <3>1. m \in Nat /\ lower <= m /\ m < upper /\ m \in 0..N /\ m + 1 \in 0..N
      BY <1>5, <2>7, <2>12
    <3>2. ASSUME NEW a \in 0..N, NEW b \in 0..N, (IF a >= b THEN 0 ELSE b - a) < n
          PROVE  g[<<a, b>>] = Sought(list, c, a, b)
      <4>1. PICK k \in Nat : k = (IF a >= b THEN 0 ELSE b - a)
        BY <2>2
      <4>2. k < n
        BY <3>2, <4>1
      <4>3. k \notin T
        BY <2>4, <2>5, <4>1, <4>2
      <4> QED BY <2>1, <4>1, <4>3
    <3>3. n = upper - lower /\ n > 0
      BY <2>6, <2>12
    <3>4. (IF m + 1 >= upper THEN 0 ELSE upper - (m + 1)) < n
      BY <3>1, <3>3
    <3>5. (IF lower >= m THEN 0 ELSE m - lower) < n
      BY <3>1, <3>3
    <3>6. g[<<m + 1, upper>>] = Sought(list, c, m + 1, upper)
      BY <3>1, <3>2, <3>4
    <3>7. g[<<lower, m>>] = Sought(list, c, lower, m)
      BY <3>1, <3>2, <3>5
    <3>8. Sought(list, c, lower, upper) =
               IF lower >= upper THEN None
               ELSE IF list[m + 1] < c THEN Sought(list, c, m + 1, upper)
               ELSE IF list[m + 1] > c THEN Sought(list, c, lower, m)
               ELSE m + 1
      BY <1>4, <2>7
    <3> QED BY <2>6, <2>10, <3>6, <3>7, <3>8
  <2> QED BY <1>1, <2>11, <2>12
<1> QED BY <1>1, <1>9, <1>11

(* The greatest and the least of some numbers.                             *)
LEMMA MaxIs ==
  ASSUME NEW T, NEW b, b \in Nat, T \subseteq 0..b, T # {}
  PROVE  Max(T) \in T /\ \A x \in T : x <= Max(T)
<1>1. PICK D : D = {d \in Nat : b - d \in T}
  OBVIOUS
<1>2. D \subseteq Nat /\ D # {}
  <2>1. PICK x \in T : TRUE
    OBVIOUS
  <2>2. x \in 0..b
    OBVIOUS
  <2>3. b - x \in Nat /\ b - (b - x) = x
    BY <2>2
  <2> QED BY <1>1, <2>1, <2>3
<1>3. PICK d \in D : \A k \in D : d <= k
  BY <1>2, LeastNumber
<1>4. PICK m : m = b - d
  OBVIOUS
<1>5. m \in T /\ d \in Nat
  BY <1>1, <1>3, <1>4
<1>6. \A x \in T : x <= m
  <2>1. SUFFICES ASSUME NEW x \in T PROVE x <= m
    OBVIOUS
  <2>2. x \in 0..b
    OBVIOUS
  <2>3. b - x \in Nat /\ b - (b - x) = x
    BY <2>2
  <2>4. d <= b - x
    BY <1>1, <1>3, <2>1, <2>3
  <2> QED BY <1>4, <1>5, <2>2, <2>4
<1>7. \E y \in T : \A x \in T : y >= x
  <2>1. \A x \in T : x \in Nat
    OBVIOUS
  <2> QED BY <1>5, <1>6, <2>1
<1>8. PICK z : z = Max(T)
  OBVIOUS
<1>9. z \in T /\ \A x \in T : z >= x
  BY <1>7, <1>8 DEF Max
<1>10. \A x \in T : x \in Nat
  OBVIOUS
<1>11. \A x \in T : x <= z
  BY <1>9, <1>10
<1> QED BY <1>8, <1>9, <1>11

LEMMA MinIs ==
  ASSUME NEW T, T \subseteq Nat, T # {}
  PROVE  Min(T) \in T /\ \A x \in T : Min(T) <= x
<1>1. \E y \in T : \A x \in T : y <= x
  BY LeastNumber
<1> QED BY <1>1 DEF Min

(* A page is the entries from one start to the next.                       *)
PageEnd(list, cursor) ==
  IF {n \in PageStarts[list] : n > cursor} = {} THEN Len(list) ELSE Min({n \in PageStarts[list] : n > cursor})

LEMMA PageEnds ==
  ASSUME NEW list, list \in Listings0, NEW cursor, cursor \in Nat, cursor <= Len(list)
  PROVE  /\ PageEnd(list, cursor) \in Nat /\ cursor <= PageEnd(list, cursor) /\ PageEnd(list, cursor) <= Len(list)
         /\ \A n \in PageStarts[list] : n > cursor => PageEnd(list, cursor) <= n
         /\ {n \in PageStarts[list] : n > cursor} # {} => PageEnd(list, cursor) > cursor
<1>1. PICK N \in Nat : N = Len(list)
  BY ListsAreSorted DEF Sorted
<1>2. PICK S : S = PageStarts[list]
  OBVIOUS
<1>3. S \subseteq 0..N
  BY <1>1, <1>2, StartsAreIn
<1>4. PICK T : T = {n \in S : n > cursor}
  OBVIOUS
<1>5. T \subseteq 0..N /\ T \subseteq Nat /\ \A n \in T : n > cursor
  <2>1. \A n \in T : n \in S /\ n > cursor
    BY <1>4
  <2>2. \A n \in S : n \in 0..N /\ n \in Nat
    BY <1>3
  <2> QED BY <2>1, <2>2
<1>6. PICK e : e = PageEnd(list, cursor)
  OBVIOUS
<1>7. e = IF T = {} THEN N ELSE Min(T)
  BY <1>1, <1>2, <1>4, <1>6 DEF PageEnd
<1>8. CASE T = {}
  <2>1. e = N
    BY <1>7, <1>8
  <2> QED BY <1>1, <1>2, <1>4, <1>6, <1>8, <2>1
<1>9. CASE T # {}
  <2>1. e \in T /\ \A x \in T : e <= x
    BY <1>5, <1>7, <1>9, MinIs
  <2>2. e \in Nat /\ e <= N /\ e > cursor
    BY <1>1, <1>5, <2>1
  <2>3. \A n \in PageStarts[list] : n > cursor => e <= n
    BY <1>2, <1>4, <2>1
  <2>4. cursor <= e
    BY <2>2
  <2> QED BY <1>1, <1>6, <2>2, <2>3, <2>4
<1> QED BY <1>8, <1>9

LEMMA PageIs ==
  ASSUME NEW s, NEW list, s.records = list, NEW cursor
  PROVE  PageOf(s, cursor) = SubSeq(list, cursor + 1, PageEnd(list, cursor))
BY DEF PageOf, PageEnd, NextStart

LEMMA OnItsPage ==
  ASSUME NEW list, list \in Listings0, NEW i, i \in 1..Len(list)
  PROVE  list[i] \in Range(PageOf([records |-> list], PageHolding(list, i)))
<1>1. PICK N \in Nat : N = Len(list) /\ Sorted(list, N)
  BY ListsAreSorted DEF Sorted
<1>2. PICK S : S = PageStarts[list]
  OBVIOUS
<1>3. S \subseteq 0..N /\ 0 \in S
  BY <1>1, <1>2, StartsAreIn
<1>4. PICK T : T = {n \in S : n < i}
  OBVIOUS
<1>5. i \in Nat /\ i >= 1 /\ i <= N
  BY <1>1
<1>6. T \subseteq 0..N /\ T # {}
  <2>1. 0 < i
    BY <1>5
  <2>2. 0 \in T
    BY <1>3, <1>4, <2>1
  <2>3. T \subseteq S
    BY <1>4
  <2> QED BY <1>3, <2>2, <2>3
<1>7. PICK c : c = PageHolding(list, i)
  OBVIOUS
<1>8. c = Max(T)
  BY <1>2, <1>4, <1>7 DEF PageHolding
<1>9. c \in T /\ \A x \in T : x <= c
  BY <1>1, <1>6, <1>8, MaxIs
<1>10. c \in Nat /\ c < i /\ c <= N
  BY <1>4, <1>5, <1>6, <1>9
<1>11. PICK e : e = PageEnd(list, c)
  OBVIOUS
<1>12. e \in Nat /\ c <= e /\ e <= N /\ \A n \in S : n > c => e <= n
  BY <1>1, <1>2, <1>10, <1>11, PageEnds
<1>13. i <= e
  <2>1. CASE {n \in S : n > c} = {}
    <3>1. e = N
      BY <1>1, <1>2, <1>11, <2>1 DEF PageEnd
    <3> QED BY <1>5, <3>1
  <2>2. CASE {n \in S : n > c} # {}
    <3>1. PICK U : U = {n \in S : n > c}
      OBVIOUS
    <3>2. U \subseteq Nat /\ U # {}
      <4>1. U \subseteq S
        BY <3>1
      <4>2. \A n \in S : n \in Nat
        BY <1>3
      <4> QED BY <2>2, <3>1, <4>1, <4>2
    <3>3. e = Min(U)
      BY <1>2, <1>11, <2>2, <3>1 DEF PageEnd
    <3>4. e \in U
      BY <3>2, <3>3, MinIs
    <3>5. e \in S /\ e > c
      BY <3>1, <3>4
    <3>6. e \notin T
      BY <1>9, <1>10, <1>12, <3>5
    <3> QED BY <1>4, <1>5, <1>12, <3>5, <3>6
  <2> QED BY <2>1, <2>2
<1>14. PICK s : s = [records |-> list]
  OBVIOUS
<1>15. PICK p : p = PageOf(s, c)
  OBVIOUS
<1>16. p = SubSeq(list, c + 1, e)
  BY <1>11, <1>14, <1>15, PageIs
<1>17. /\ Len(p) = e - c /\ p \in Seq(Nat) /\ \A k \in 1..e - c : p[k] = list[c + k]
  <2>1. \A k \in c + 1..e : list[k] \in Nat
    <3>1. \A k \in c + 1..e : k \in 1..N
      BY <1>10, <1>12
    <3> QED BY <1>1, <3>1 DEF Sorted
  <2>2. c + 1 \in Int /\ e \in Int
    BY <1>10, <1>12
  <2>3. PICK a \in Int : a = c + 1
    BY <2>2
  <2>4. /\ SubSeq(list, a, e) \in Seq(Nat)
        /\ Len(SubSeq(list, a, e)) = IF a <= e THEN e - a + 1 ELSE 0
        /\ \A k \in 1..e - a + 1 : SubSeq(list, a, e)[k] = list[a + k - 1]
    BY <2>1, <2>2, <2>3, SubSeqProperties
  <2>5. e - a + 1 = e - c /\ \A k \in 1..e - c : a + k - 1 = c + k
    BY <1>10, <1>12, <2>3
  <2>6. Len(p) = e - c
    BY <1>10, <1>12, <1>13, <1>16, <2>3, <2>4, <2>5
  <2> QED BY <1>16, <2>3, <2>4, <2>5, <2>6
<1>18. i - c \in 1..e - c /\ c + (i - c) = i
  BY <1>5, <1>10, <1>12, <1>13
<1>19. p[i - c] = list[i] /\ DOMAIN p = 1..e - c
  BY <1>17, <1>18
<1>20. list[i] \in Range(p)
  BY <1>18, <1>19 DEF Range
<1> QED BY <1>7, <1>14, <1>15, <1>20

LEMMA ForthAndBack ==
  ASSUME NEW n, n \in Nat, NEW p, p \in 0..n - 1
  PROVE  StepTo(n, "previous", StepTo(n, "next", p)) = p
<1>1. p \in Nat /\ p < n /\ n # 0 /\ None \notin Nat
  BY SnapAssumption
<1>2. StepTo(n, "next", p) = (p + 1) % n
  BY <1>1 DEF StepTo
<1>3. CASE p + 1 < n
  <2>1. (p + 1) % n = p + 1
    BY <1>1, <1>3
  <2>2. p + 1 \notin {None, 0} /\ (p + 1) - 1 = p
    BY <1>1
  <2> QED BY <1>1, <1>2, <2>1, <2>2 DEF StepTo
<1>4. CASE p + 1 = n
  <2>1. (p + 1) % n = 0
    BY <1>1, <1>4
  <2>2. n - 1 = p
    BY <1>1, <1>4
  <2> QED BY <1>1, <1>2, <2>1, <2>2 DEF StepTo
<1> QED BY <1>1, <1>3, <1>4

LEMMA LookupsHold == \A list \in Listings0 : LookupsAgree[list]
<1> SUFFICES ASSUME NEW list \in Listings0 PROVE LookupsAgree[list]
  OBVIOUS
<1>1. PICK N \in Nat : N = Len(list) /\ Sorted(list, N)
  BY ListsAreSorted DEF Sorted
<1>2. ASSUME NEW c \in Changes
      PROVE  Find(list, c) = IF c \in Range(list) THEN CHOOSE i \in DOMAIN list : list[i] = c ELSE None
  <2>1. Size \in Seq(Nat)
    BY SnapAssumption
  <2>2. c \in Nat
    BY <2>1 DEF Changes
  <2>3. Find(list, c) = Sought(list, c, 0, N)
    BY <1>1, <2>2, FindFinds
  <2>4. 0 + 1..N = DOMAIN list
    BY <1>1 DEF Sorted
  <2>5. (\E i \in 0 + 1..N : list[i] = c) <=> c \in Range(list)
    BY <2>4 DEF Range
  <2>6. Sought(list, c, 0, N) = IF c \in Range(list) THEN CHOOSE i \in DOMAIN list : list[i] = c ELSE None
    BY <2>4, <2>5 DEF Sought
  <2> QED BY <2>3, <2>6
<1>3. ASSUME NEW S \in SUBSET Changes, NEW m, m = MatchesOf(list, S), NEW p \in 0..Len(m) - 1
      PROVE  /\ StepTo(Len(m), "previous", StepTo(Len(m), "next", p)) = p
             /\ list[m[p + 1]] \in Range(PageOf([records |-> list], PageHolding(list, m[p + 1])))
  <2>1. m \in Seq(1..N)
    BY <1>1, <1>3, MatchesAreIn
  <2>2. PICK n \in Nat : n = Len(m)
    BY <2>1
  <2>3. StepTo(Len(m), "previous", StepTo(Len(m), "next", p)) = p
    BY <2>2, ForthAndBack
  <2>4. PICK i : i = m[p + 1]
    OBVIOUS
  <2>5. p + 1 \in 1..n
    BY <2>2
  <2>6. i \in 1..Len(list)
    BY <1>1, <2>1, <2>2, <2>4, <2>5
  <2>7. list[i] \in Range(PageOf([records |-> list], PageHolding(list, i)))
    BY <2>6, OnItsPage
  <2> QED BY <2>3, <2>4, <2>7
<1> QED BY <1>2, <1>3 DEF LookupsAgree

AddsUp(h, e) ==
  h = [s \in SUBSET Held(e) |-> IF s = {} THEN 0 ELSE e[CHOOSE x \in s : TRUE].bytes + h[s \ {CHOOSE x \in s : TRUE}]]

LEMMA TotalUnfolds ==
  ASSUME NEW e
  PROVE  Total(e) = (CHOOSE h : AddsUp(h, e))[Held(e)]
BY DEF Total, MapThenSumSet, MapThenFoldSet, AddsUp

LEMMA TotalIs ==
  ASSUME NEW e, Sized(e), NEW g, IsSum(g, e)
  PROVE  Total(e) = g[SnapRepos] /\ Total(e) \in Nat
<1>1. PICK H : H = Held(e)
  OBVIOUS
<1>2. H \in SUBSET SnapRepos /\ IsFiniteSet(H) /\ \A x \in H : Bytes(e, x) = e[x].bytes
  <2>1. H \in SUBSET SnapRepos /\ \A x \in H : Bytes(e, x) = e[x].bytes
    BY <1>1 DEF Held, Bytes
  <2> QED BY <2>1, SnapAssumption, FS_Subset
<1>0. \A s : s \in SUBSET SnapRepos /\ s # {} => \E y \in s : y = AnyOf(SnapRepos)[s] /\ g[s] = Bytes(e, y) + g[s \ {y}]
  <2> SUFFICES ASSUME NEW s, s \in SUBSET SnapRepos, s # {}
               PROVE  \E y \in s : y = AnyOf(SnapRepos)[s] /\ g[s] = Bytes(e, y) + g[s \ {y}]
    OBVIOUS
  <2> QED BY SumAt
<1>3. ASSUME NEW s \in SUBSET H, s # {}, NEW x, x = CHOOSE y \in s : TRUE
      PROVE  x \in s /\ g[s] = e[x].bytes + g[s \ {x}]
  <2>1. s \in SUBSET SnapRepos /\ x \in s
    BY <1>2, <1>3
  <2>2. AnyOf(SnapRepos)[s] = x
    BY <1>3, <2>1 DEF AnyOf
  <2>3. \E y \in s : y = AnyOf(SnapRepos)[s] /\ g[s] = Bytes(e, y) + g[s \ {y}]
    BY <1>0, <1>3, <2>1
  <2>4. g[s] = Bytes(e, x) + g[s \ {x}]
    BY <2>2, <2>3
  <2>5. x \in H /\ Bytes(e, x) = e[x].bytes
    BY <1>2, <2>1
  <2> QED BY <2>1, <2>4, <2>5
<1>4. g[{}] = 0
  BY SumAt
<1>5. PICK h : h = [s \in SUBSET H |-> g[s]]
  OBVIOUS
<1>6. AddsUp(h, e)
  <2>1. ASSUME NEW s \in SUBSET H, NEW x, x = CHOOSE y \in s : TRUE
        PROVE  h[s] = IF s = {} THEN 0 ELSE e[x].bytes + h[s \ {x}]
    <3>1. CASE s = {}
      BY <1>4, <1>5, <3>1
    <3>2. CASE s # {}
      <4>1. g[s] = e[x].bytes + g[s \ {x}]
        BY <1>3, <2>1, <3>2
      <4>2. s \ {x} \in SUBSET H
        OBVIOUS
      <4> QED BY <1>5, <3>2, <4>1, <4>2
    <3> QED BY <3>1, <3>2
  <2>2. \A s \in SUBSET H :
          h[s] = IF s = {} THEN 0 ELSE e[CHOOSE y \in s : TRUE].bytes + h[s \ {CHOOSE y \in s : TRUE}]
    BY <2>1
  <2>3. h = [s \in SUBSET H |-> h[s]]
    BY <1>5
  <2>4. h = [s \in SUBSET H |->
          IF s = {} THEN 0 ELSE e[CHOOSE y \in s : TRUE].bytes + h[s \ {CHOOSE y \in s : TRUE}]]
    BY <2>2, <2>3
  <2> QED BY <1>1, <2>4 DEF AddsUp
<1>7. PICK k : k = CHOOSE h2 : AddsUp(h2, e)
  OBVIOUS
<1>8. AddsUp(k, e)
  BY <1>6, <1>7
<1>9. Total(e) = k[H]
  BY <1>1, <1>7, TotalUnfolds
<1>10. k[H] = g[H]
  <2>1. PICK T : T = {s \in SUBSET H : k[s] # g[s]}
    OBVIOUS
  <2>2. SUFFICES ASSUME T # {} PROVE FALSE
    BY <2>1
  <2>3. T \subseteq SUBSET H
    BY <2>1
  <2>4. PICK s \in T : \A t \in T : t \subseteq s => t = s
    BY <1>2, <2>2, <2>3, LeastSet
  <2>5. s \in SUBSET H /\ k[s] # g[s]
    BY <2>1
  <2>6. PICK x : x = CHOOSE y \in s : TRUE
    OBVIOUS
  <2>7. k[s] = IF s = {} THEN 0 ELSE e[x].bytes + k[s \ {x}]
    BY <1>1, <1>8, <2>5, <2>6 DEF AddsUp
  <2>8. s # {}
    BY <1>4, <2>5, <2>7
  <2>9. x \in s /\ g[s] = e[x].bytes + g[s \ {x}]
    BY <1>3, <2>5, <2>6, <2>8
  <2>10. PICK t : t = s \ {x}
    OBVIOUS
  <2>11. t \in SUBSET H /\ t \subseteq s /\ t # s
    BY <2>5, <2>9, <2>10
  <2>12. k[t] = g[t]
    BY <2>1, <2>4, <2>11
  <2> QED BY <2>5, <2>7, <2>8, <2>9, <2>10, <2>12
<1>11. g[H] = g[SnapRepos]
  BY <1>1, SumHeld
<1>12. g[SnapRepos] \in Nat
  BY SumAt
<1> QED BY <1>9, <1>10, <1>11, <1>12

LEMMA TotalNone ==
  ASSUME NEW e, \A r \in SnapRepos : e[r] = None
  PROVE  Total(e) = 0
<1>1. Sized(e) /\ Held(e) = {}
  BY DEF Sized, Bytes, Held
<1>2. PICK g : IsSum(g, e)
  BY <1>1, SumExists
<1>3. g[{}] = 0
  BY <1>2, SumAt
<1>4. g[Held(e)] = g[SnapRepos]
  BY <1>1, <1>2, SumHeld
<1> QED BY <1>1, <1>2, <1>3, <1>4, TotalIs

LEMMA TotalLess ==
  ASSUME NEW e, Sized(e), NEW f, Sized(f), \A r \in SnapRepos : Bytes(f, r) <= Bytes(e, r)
  PROVE  Total(f) <= Total(e) /\ Total(e) \in Nat /\ Total(f) \in Nat
<1>1. PICK g : IsSum(g, e)
  BY SumExists
<1>2. PICK h : IsSum(h, f)
  BY SumExists
<1>3. h[SnapRepos] <= g[SnapRepos]
  BY <1>1, <1>2, SumLess
<1>4. Total(e) = g[SnapRepos] /\ Total(e) \in Nat
  BY <1>1, TotalIs
<1>5. Total(f) = h[SnapRepos] /\ Total(f) \in Nat
  BY <1>2, TotalIs
<1> QED BY <1>3, <1>4, <1>5

LEMMA TotalChanged ==
  ASSUME NEW e, Sized(e), NEW f, Sized(f), NEW r, r \in SnapRepos,
         \A x \in SnapRepos : x # r => Bytes(f, x) = Bytes(e, x)
  PROVE  Total(f) = Total(e) - Bytes(e, r) + Bytes(f, r)
<1>1. PICK g : IsSum(g, e)
  BY SumExists
<1>2. PICK h : IsSum(h, f)
  BY SumExists
<1>3. PICK S : S = SnapRepos \ {r}
  OBVIOUS
<1>4. S \in SUBSET SnapRepos
  BY <1>3
<1>5. \A x \in S : Bytes(f, x) \in Nat /\ Bytes(e, x) \in Nat /\ Bytes(f, x) = Bytes(e, x)
  BY <1>3 DEF Sized
<1>6. \A x \in S : Bytes(f, x) <= Bytes(e, x) /\ Bytes(e, x) <= Bytes(f, x)
  BY <1>5
<1>7. h[S] <= g[S] /\ g[S] <= h[S]
  BY <1>1, <1>2, <1>4, <1>6, SumLess
<1>8. g[S] \in Nat /\ h[S] \in Nat
  BY <1>1, <1>2, <1>4, SumAt
<1>9. g[SnapRepos] = Bytes(e, r) + g[S]
  BY <1>1, <1>3, SumSplit
<1>10. h[SnapRepos] = Bytes(f, r) + h[S]
  BY <1>2, <1>3, SumSplit
<1>11. Total(e) = g[SnapRepos] /\ Total(f) = h[SnapRepos]
  BY <1>1, <1>2, TotalIs
<1>12. Bytes(e, r) \in Nat /\ Bytes(f, r) \in Nat
  BY DEF Sized
<1> QED BY <1>7, <1>8, <1>9, <1>10, <1>11, <1>12

(* What the store holds, and what it is after a step.                      *)
Stored == [id : Nat, identity : Nat, records : Listings0, bytes : Nat, touched : Nat]
Stores == [entries : [SnapRepos -> Stored \cup {None}], capacity : Tables, bytes : Nat, swept : Nat \cup {None}]
Within(st) == st.bytes = Total(st.entries) /\ st.bytes + st.capacity <= MaxCacheBytes
IsStore(st) == st \in Stores /\ Within(st)

(* f holds nothing that e does not hold.                                   *)
Fewer(f, e) ==
  \A r \in SnapRepos : f[r] # None => e[r] # None /\ f[r].id = e[r].id /\ f[r].records = e[r].records

LEMMA HolderIs ==
  ASSUME NEW st, st \in Stores, NEW r, r \in SnapRepos
  PROVE  /\ st.entries[r] = None \/ st.entries[r] \in Stored
         /\ None \notin Stored
         /\ Bytes(st.entries, r) \in Nat
         /\ st.capacity \in Nat /\ st.capacity \in Tables
<1>1. None \notin Stored /\ Tables \subseteq Nat
  BY SnapAssumption DEF Stored
<1>2. st.entries \in [SnapRepos -> Stored \cup {None}] /\ st.capacity \in Tables
  BY DEF Stores
<1>3. PICK x : x = st.entries[r]
  OBVIOUS
<1>4. x = None \/ x \in Stored
  BY <1>2, <1>3
<1>5. x # None => x.bytes \in Nat
  BY <1>4 DEF Stored
<1>6. Bytes(st.entries, r) = IF x = None THEN 0 ELSE x.bytes
  BY <1>3 DEF Bytes
<1>7. Bytes(st.entries, r) \in Nat
  BY <1>5, <1>6
<1> QED BY <1>1, <1>2, <1>3, <1>4, <1>7

LEMMA StoreSized ==
  ASSUME NEW st, st \in Stores
  PROVE  Sized(st.entries)
<1>1. \A r \in SnapRepos : Bytes(st.entries, r) \in Nat
  <2> SUFFICES ASSUME NEW r, r \in SnapRepos PROVE Bytes(st.entries, r) \in Nat
    OBVIOUS
  <2> QED BY HolderIs
<1> QED BY <1>1 DEF Sized

LEMMA HeldIs ==
  ASSUME NEW e
  PROVE  /\ IsFiniteSet(Held(e)) /\ Cardinality(Held(e)) \in Nat
         /\ Cardinality(Held(e)) \in 0..Cardinality(SnapRepos)
<1>1. Held(e) \in SUBSET SnapRepos
  BY DEF Held
<1>2. IsFiniteSet(Held(e)) /\ Cardinality(Held(e)) <= Cardinality(SnapRepos)
  BY <1>1, SnapAssumption, FS_Subset
<1>3. Cardinality(Held(e)) \in Nat /\ Cardinality(SnapRepos) \in Nat
  BY <1>2, SnapAssumption, FS_CardinalityType
<1> QED BY <1>2, <1>3

LEMMA TableIs ==
  ASSUME NEW n, n \in 0..Cardinality(SnapRepos)
  PROVE  /\ TableFor(n) \in Tables
         /\ \A d \in Tables : d >= n => TableFor(n) <= d
<1>1. PICK T : T = {d \in Tables : d >= n}
  OBVIOUS
<1>2. T \subseteq Nat /\ T # {}
  BY <1>1, SnapAssumption
<1>3. PICK c \in T : \A d \in T : c <= d
  BY <1>2, LeastNumber
<1>4. \E x \in Tables : x >= n /\ \A d \in Tables : d >= n => x <= d
  BY <1>1, <1>3
<1>5. PICK t : t = TableFor(n)
  OBVIOUS
<1>6. t \in Tables /\ t >= n /\ \A d \in Tables : d >= n => t <= d
  BY <1>4, <1>5 DEF TableFor
<1> QED BY <1>5, <1>6

(* Compacting a table never enlarges it.                                   *)
LEMMA CompactedIs ==
  ASSUME NEW e, NEW c, c \in Tables
  PROVE  Compacted(e, c) \in Tables /\ Compacted(e, c) <= c
<1>1. PICK n \in Nat : n = Cardinality(Held(e)) /\ n \in 0..Cardinality(SnapRepos)
  BY HeldIs
<1>2. PICK S : S = {n * 4, SparseTable}
  OBVIOUS
<1>3. SparseTable \in Nat /\ c \in Nat
  BY SnapAssumption
<1>4. PICK b \in Nat : b = n * 4 + SparseTable
  BY <1>3
<1>5. S \subseteq 0..b /\ S # {}
  <2>1. n * 4 \in 0..b /\ SparseTable \in 0..b
    BY <1>3, <1>4
  <2> QED BY <1>2, <2>1
<1>6. Max(S) \in Nat /\ n * 4 <= Max(S)
  <2>1. Max(S) \in S /\ \A x \in S : x <= Max(S)
    BY <1>5, MaxIs
  <2>2. Max(S) \in 0..b
    BY <1>5, <2>1
  <2> QED BY <1>2, <2>1, <2>2
<1>7. PICK m \in Nat : m = Max(S)
  BY <1>6
<1>8. Compacted(e, c) = IF c > m THEN TableFor(n) ELSE c
  BY <1>1, <1>2, <1>7 DEF Compacted
<1>9. ASSUME c > m PROVE TableFor(n) \in Tables /\ TableFor(n) <= c
  <2>1. c >= n
    BY <1>3, <1>6, <1>7, <1>9
  <2> QED BY <1>1, <2>1, TableIs
<1> QED BY <1>3, <1>8, <1>9

(* The table grows to one that exists, when a listing is new.              *)
LEMMA GrownIs ==
  ASSUME NEW st, st \in Stores, NEW r, r \in SnapRepos
  PROVE  Grown(st, r) \in Tables
<1>1. PICK n \in Nat : n = Cardinality(Held(st.entries))
  BY HeldIs
<1>2. Grown(st, r) = IF st.entries[r] # None \/ n < st.capacity THEN st.capacity ELSE TableFor(n + 1)
  BY <1>1 DEF Grown
<1>3. st.capacity \in Tables
  BY HolderIs
<1>4. ASSUME st.entries[r] = None PROVE TableFor(n + 1) \in Tables
  <2>1. PICK H : H = Held(st.entries)
    OBVIOUS
  <2>2. r \notin H /\ H \cup {r} \in SUBSET SnapRepos
    BY <1>4, <2>1 DEF Held
  <2>3. IsFiniteSet(H)
    BY <2>1, HeldIs
  <2>4. Cardinality(H \cup {r}) = n + 1
    BY <1>1, <2>1, <2>2, <2>3, FS_AddElement
  <2>5. Cardinality(H \cup {r}) <= Cardinality(SnapRepos) /\ Cardinality(SnapRepos) \in Nat
    BY <2>2, SnapAssumption, FS_Subset, FS_CardinalityType
  <2>6. n + 1 \in 0..Cardinality(SnapRepos)
    BY <2>4, <2>5
  <2> QED BY <2>6, TableIs
<1> QED BY <1>2, <1>3, <1>4

(* Fewer listings in a table that is not larger fit where all did.         *)
LEMMA LessIsStore ==
  ASSUME NEW st, IsStore(st), NEW f, f \in [SnapRepos -> Stored \cup {None}],
         \A x \in SnapRepos : Bytes(f, x) <= Bytes(st.entries, x),
         NEW c, c \in Tables, c <= st.capacity, NEW w, w \in Nat \cup {None},
         NEW t, t = [entries |-> f, capacity |-> c, bytes |-> Total(f), swept |-> w]
  PROVE  IsStore(t)
<1>1. st \in Stores /\ st.bytes = Total(st.entries) /\ st.bytes + st.capacity <= MaxCacheBytes
  BY DEF IsStore, Within
<1>2. Sized(st.entries)
  BY <1>1, StoreSized
<1>3. t.entries = f /\ t.capacity = c /\ t.bytes = Total(f) /\ t.swept = w
  OBVIOUS
<1>4. Sized(f)
  <2>1. ASSUME NEW x \in SnapRepos PROVE Bytes(f, x) \in Nat
    <3>1. f[x] = None \/ f[x] \in Stored
      OBVIOUS
    <3> QED BY <3>1 DEF Bytes, Stored
  <2> QED BY <2>1 DEF Sized
<1>5. Total(f) <= Total(st.entries) /\ Total(st.entries) \in Nat /\ Total(f) \in Nat
  BY <1>2, <1>4, TotalLess
<1>6. t \in Stores
  <2>1. t \in [entries : [SnapRepos -> Stored \cup {None}], capacity : Tables, bytes : Nat, swept : Nat \cup {None}]
    BY <1>5
  <2> QED BY <2>1 DEF Stores
<1>7. c \in Nat /\ st.capacity \in Nat /\ MaxCacheBytes \in Nat
  <2>1. st.capacity \in Tables
    BY <1>1 DEF Stores
  <2> QED BY <2>1, SnapAssumption
<1>8. t.bytes + t.capacity <= MaxCacheBytes
  BY <1>1, <1>3, <1>5, <1>7
<1> QED BY <1>3, <1>6, <1>8 DEF IsStore, Within

LEMMA ExpireKeeps ==
  ASSUME NEW st, IsStore(st), NEW force, now \in Nat
  PROVE  IsStore(Expire(st, force)) /\ Fewer(Expire(st, force).entries, st.entries)
<1>1. st \in Stores
  BY DEF IsStore
<1>2. PICK e : e = st.entries
  OBVIOUS
<1>3. PICK f : f = [r \in SnapRepos |-> IF e[r] # None THEN IF Expired(e[r]) THEN None ELSE e[r] ELSE None]
  OBVIOUS
<1>4. PICK t : t = [entries |-> f, capacity |-> Compacted(f, st.capacity), bytes |-> Total(f), swept |-> now]
  OBVIOUS
<1>5. Expire(st, force) = st \/ Expire(st, force) = t
  BY <1>2, <1>3, <1>4 DEF Expire
<1>6. Fewer(e, e)
  BY DEF Fewer
<1>7. \A r \in SnapRepos : f[r] = None \/ f[r] = e[r]
  BY <1>3
<1>8. Fewer(f, e)
  BY <1>7 DEF Fewer
<1>9. \A r \in SnapRepos : e[r] = None \/ e[r] \in Stored
  BY <1>1, <1>2, HolderIs
<1>10. f \in [SnapRepos -> Stored \cup {None}]
  BY <1>3, <1>9
<1>11. ASSUME NEW r \in SnapRepos PROVE Bytes(f, r) <= Bytes(e, r)
  <2>1. Bytes(e, r) \in Nat
    BY <1>1, <1>2, HolderIs
  <2>2. Bytes(f, r) = 0 \/ Bytes(f, r) = Bytes(e, r)
    BY <1>7 DEF Bytes
  <2> QED BY <2>1, <2>2
<1>12. PICK c : c = Compacted(f, st.capacity)
  OBVIOUS
<1>13. c \in Tables /\ c <= st.capacity
  <2>1. st.capacity \in Tables
    BY <1>1 DEF Stores
  <2> QED BY <1>12, <2>1, CompactedIs
<1>14. t = [entries |-> f, capacity |-> c, bytes |-> Total(f), swept |-> now]
  BY <1>4, <1>12
<1>15. IsStore(t)
  BY <1>2, <1>10, <1>11, <1>13, <1>14, LessIsStore
<1>16. t.entries = f
  BY <1>4
<1> QED BY <1>2, <1>5, <1>6, <1>8, <1>15, <1>16

LEMMA DroppedKeeps ==
  ASSUME NEW st, IsStore(st), NEW r, r \in SnapRepos, st.entries[r] # None
  PROVE  IsStore(Dropped(st, r)) /\ Fewer(Dropped(st, r).entries, st.entries)
<1>1. st \in Stores /\ st.bytes = Total(st.entries)
  BY DEF IsStore, Within
<1>2. PICK e : e = st.entries
  OBVIOUS
<1>3. e \in [SnapRepos -> Stored \cup {None}] /\ st.capacity \in Tables /\ st.swept \in Nat \cup {None}
  BY <1>1, <1>2 DEF Stores
<1>4. PICK f : f = [e EXCEPT ![r] = None]
  OBVIOUS
<1>5. f \in [SnapRepos -> Stored \cup {None}] /\ f[r] = None /\ \A x \in SnapRepos : x # r => f[x] = e[x]
  BY <1>3, <1>4
<1>6. Fewer(f, e)
  BY <1>5 DEF Fewer
<1>7. Sized(e)
  BY <1>1, <1>2, StoreSized
<1>8. Bytes(f, r) = 0 /\ \A x \in SnapRepos : x # r => Bytes(f, x) = Bytes(e, x)
  BY <1>5 DEF Bytes
<1>9. \A x \in SnapRepos : Bytes(f, x) <= Bytes(e, x)
  <2>1. \A x \in SnapRepos : Bytes(e, x) \in Nat
    BY <1>7 DEF Sized
  <2> QED BY <1>8, <2>1
<1>10. Sized(f)
  BY <1>7, <1>8 DEF Sized
<1>11. Total(f) = Total(e) - Bytes(e, r) + Bytes(f, r)
  BY <1>7, <1>8, <1>10, TotalChanged
<1>12. PICK c : c = Compacted(f, st.capacity)
  OBVIOUS
<1>13. c \in Tables /\ c <= st.capacity
  BY <1>3, <1>12, CompactedIs
<1>14. Total(e) \in Nat /\ Total(f) \in Nat /\ Bytes(e, r) \in Nat /\ e[r].bytes = Bytes(e, r)
  <2>1. Total(f) <= Total(e) /\ Total(e) \in Nat /\ Total(f) \in Nat
    BY <1>7, <1>9, <1>10, TotalLess
  <2>2. Bytes(e, r) \in Nat
    BY <1>7 DEF Sized
  <2> QED BY <1>2, <2>1, <2>2 DEF Bytes
<1>15. Total(f) = st.bytes - e[r].bytes
  BY <1>1, <1>2, <1>8, <1>11, <1>14
<1>16. PICK t : t = Dropped(st, r)
  OBVIOUS
<1>17. t = [entries |-> f, capacity |-> c, bytes |-> Total(f), swept |-> st.swept]
  <2>1. t = [st EXCEPT !.entries = f, !.bytes = @ - e[r].bytes, !.capacity = Compacted(f, @)]
    BY <1>2, <1>4, <1>16 DEF Dropped
  <2>2. PICK b : b = Total(f)
    OBVIOUS
  <2>3. t = [st EXCEPT !.entries = f, !.bytes = b, !.capacity = c]
    BY <1>12, <1>15, <2>1, <2>2
  <2>4. st = [entries |-> st.entries, capacity |-> st.capacity, bytes |-> st.bytes, swept |-> st.swept]
    BY <1>1 DEF Stores
  <2> QED BY <2>2, <2>3, <2>4
<1>18. IsStore(t)
  BY <1>2, <1>3, <1>5, <1>9, <1>13, <1>17, LessIsStore
<1>19. t.entries = f
  BY <1>17
<1> QED BY <1>2, <1>6, <1>16, <1>18, <1>19

LEMMA AfterCurrentKeeps ==
  ASSUME NEW st, IsStore(st), NEW r, r \in SnapRepos
  PROVE  IsStore(AfterCurrent(st, r)) /\ Fewer(AfterCurrent(st, r).entries, st.entries)
<1>1. Fewer(st.entries, st.entries)
  BY DEF Fewer
<1>2. AfterCurrent(st, r) = st \/ (st.entries[r] # None /\ AfterCurrent(st, r) = Dropped(st, r))
  BY DEF AfterCurrent
<1> QED BY <1>1, <1>2, DroppedKeeps

LEMMA TouchedKeeps ==
  ASSUME NEW st, IsStore(st), NEW r, r \in SnapRepos, st.entries[r] # None, now \in Nat
  PROVE  IsStore(Touched(st, r)) /\ Fewer(Touched(st, r).entries, st.entries)
<1>1. st \in Stores /\ st.bytes = Total(st.entries)
  BY DEF IsStore, Within
<1>2. PICK e : e = st.entries
  OBVIOUS
<1>3. e \in [SnapRepos -> Stored \cup {None}] /\ st.capacity \in Tables /\ st.swept \in Nat \cup {None}
  BY <1>1, <1>2 DEF Stores
<1>4. PICK x : x = [e[r] EXCEPT !.touched = now]
  OBVIOUS
<1>5. e[r] \in Stored
  BY <1>2, <1>3
<1>6. x \in Stored /\ x.bytes = e[r].bytes /\ x.id = e[r].id /\ x.records = e[r].records
  BY <1>4, <1>5 DEF Stored
<1>7. x # None
  BY <1>6, SnapAssumption DEF Stored
<1>8. PICK f : f = [e EXCEPT ![r] = x]
  OBVIOUS
<1>9. f \in [SnapRepos -> Stored \cup {None}] /\ f[r] = x /\ \A y \in SnapRepos : y # r => f[y] = e[y]
  BY <1>3, <1>6, <1>8
<1>10. Fewer(f, e)
  BY <1>2, <1>6, <1>9 DEF Fewer
<1>11. \A y \in SnapRepos : Bytes(f, y) = Bytes(e, y)
  BY <1>2, <1>6, <1>7, <1>9 DEF Bytes
<1>12. Sized(e)
  BY <1>1, <1>2, StoreSized
<1>13. \A y \in SnapRepos : Bytes(f, y) <= Bytes(e, y)
  <2>1. \A y \in SnapRepos : Bytes(e, y) \in Nat
    BY <1>12 DEF Sized
  <2> QED BY <1>11, <2>1
<1>14. Sized(f)
  BY <1>11, <1>12 DEF Sized
<1>15. Total(f) = Total(e)
  <2>1. Total(f) = Total(e) - Bytes(e, r) + Bytes(f, r)
    BY <1>11, <1>12, <1>14, TotalChanged
  <2>2. Total(e) \in Nat
    BY <1>12, <1>13, <1>14, TotalLess
  <2>3. Bytes(e, r) \in Nat /\ Bytes(f, r) = Bytes(e, r)
    BY <1>11, <1>12 DEF Sized
  <2> QED BY <2>1, <2>2, <2>3
<1>16. PICK t : t = Touched(st, r)
  OBVIOUS
<1>17. t = [entries |-> f, capacity |-> st.capacity, bytes |-> Total(f), swept |-> st.swept]
  <2>1. st = [entries |-> e, capacity |-> st.capacity, bytes |-> Total(f), swept |-> st.swept]
    BY <1>1, <1>2, <1>15 DEF Stores
  <2>2. t = [st EXCEPT !.entries = [e EXCEPT ![r] = x]]
    BY <1>2, <1>4, <1>16 DEF Touched
  <2>3. t = [st EXCEPT !.entries = f]
    BY <1>8, <2>2
  <2> QED BY <2>1, <2>3
<1>18. st.capacity <= st.capacity
  <2>1. st.capacity \in Nat
    BY <1>1, HolderIs
  <2> QED BY <2>1
<1>19. IsStore(t)
  BY <1>2, <1>3, <1>9, <1>13, <1>17, <1>18, LessIsStore
<1>20. t.entries = f
  BY <1>17
<1> QED BY <1>2, <1>10, <1>16, <1>19, <1>20

(* What is inserted was found to fit.                                      *)
LEMMA InsertKeeps ==
  ASSUME NEW st, IsStore(st), NEW r, r \in SnapRepos, NEW s, s \in Stored, Fits(st, r, s.bytes)
  PROVE  /\ IsStore(Insert(st, r, s)) /\ Insert(st, r, s).entries[r] = s
         /\ \A x \in SnapRepos : x # r => Insert(st, r, s).entries[x] = st.entries[x]
<1>1. st \in Stores /\ st.bytes = Total(st.entries)
  BY DEF IsStore, Within
<1>2. PICK e : e = st.entries
  OBVIOUS
<1>3. e \in [SnapRepos -> Stored \cup {None}] /\ st.swept \in Nat \cup {None}
  BY <1>1, <1>2 DEF Stores
<1>4. PICK f : f = [e EXCEPT ![r] = s]
  OBVIOUS
<1>5. f \in [SnapRepos -> Stored \cup {None}] /\ f[r] = s /\ \A y \in SnapRepos : y # r => f[y] = e[y]
  BY <1>3, <1>4
<1>6. s # None /\ s.bytes \in Nat
  BY SnapAssumption DEF Stored
<1>7. Bytes(f, r) = s.bytes /\ \A y \in SnapRepos : y # r => Bytes(f, y) = Bytes(e, y)
  BY <1>5, <1>6 DEF Bytes
<1>8. Sized(e)
  BY <1>1, <1>2, StoreSized
<1>9. Sized(f)
  BY <1>6, <1>7, <1>8 DEF Sized
<1>10. Total(f) = Total(e) - Bytes(e, r) + Bytes(f, r)
  BY <1>7, <1>8, <1>9, TotalChanged
<1>11. PICK b : b = Total(f)
  OBVIOUS
<1>12. b = st.bytes - Bytes(e, r) + s.bytes
  BY <1>1, <1>2, <1>7, <1>10, <1>11
<1>13. b \in Nat
  <2>1. \A y \in SnapRepos : Bytes(f, y) <= Bytes(f, y)
    BY <1>9 DEF Sized
  <2> QED BY <1>9, <1>11, <2>1, TotalLess
<1>14. PICK c : c = Grown(st, r)
  OBVIOUS
<1>15. c \in Tables
  BY <1>1, <1>14, GrownIs
<1>16. b + c <= MaxCacheBytes
  BY <1>2, <1>12, <1>14 DEF Fits, Bytes
<1>17. PICK t : t = Insert(st, r, s)
  OBVIOUS
<1>18. t = [entries |-> f, capacity |-> c, bytes |-> b, swept |-> st.swept]
  <2>1. t = [st EXCEPT !.capacity = c, !.entries = [e EXCEPT ![r] = s], !.bytes = st.bytes - Bytes(e, r) + s.bytes]
    BY <1>1, <1>2, <1>14, <1>17 DEF Insert, Bytes, Stores
  <2>2. t = [st EXCEPT !.capacity = c, !.entries = f, !.bytes = b]
    BY <1>4, <1>12, <2>1
  <2>3. st = [entries |-> st.entries, capacity |-> st.capacity, bytes |-> st.bytes, swept |-> st.swept]
    BY <1>1 DEF Stores
  <2> QED BY <2>2, <2>3
<1>19. t.entries = f /\ t.capacity = c /\ t.bytes = b
  BY <1>18
<1>20. t \in Stores
  <2>1. t \in [entries : [SnapRepos -> Stored \cup {None}], capacity : Tables, bytes : Nat, swept : Nat \cup {None}]
    BY <1>3, <1>5, <1>13, <1>15, <1>18
  <2> QED BY <2>1 DEF Stores
<1>21. IsStore(t)
  BY <1>11, <1>16, <1>19, <1>20 DEF IsStore, Within
<1> QED BY <1>2, <1>5, <1>17, <1>19, <1>21

(* What a view was answered is the start of the listing it follows.        *)
IsView(w, bg) ==
  /\ w.repo = None => w.next = None
  /\ w.repo # None =>
       /\ w.repo \in SnapRepos /\ w.id \in 1..Len(bg)
       /\ \E k \in 0..Len(bg[w.id]) :
            /\ w.got = SubSeq(bg[w.id], 1, k)
            /\ w.next = None => k = Len(bg[w.id])
            /\ w.next # None => w.next = k

(* What the store holds was begun under its id.                            *)
FromBegun(e, bg) ==
  \A r \in SnapRepos : e[r] # None => e[r].id \in 1..Len(bg) /\ e[r].records = bg[e[r].id]

SnapInv ==
  /\ identity \in [SnapRepos -> Nat] /\ now \in Nat
  /\ IsStore(Store)
  /\ begun \in Seq(Listings0) /\ sequence = Len(begun)
  /\ FromBegun(entries, begun)
  /\ DOMAIN views = Views
  /\ \A v \in Views : IsView(views[v], begun)

LEMMA FewerBegun ==
  ASSUME NEW f, NEW e, Fewer(f, e), NEW bg, FromBegun(e, bg)
  PROVE  FromBegun(f, bg)
BY DEF Fewer, FromBegun

LEMMA FewerAll ==
  ASSUME NEW g, NEW f, NEW e, Fewer(g, f), Fewer(f, e)
  PROVE  Fewer(g, e)
BY DEF Fewer

(* Another listing leaves what the earlier ones were.                      *)
LEMMA BegunMore ==
  ASSUME NEW bg, bg \in Seq(Listings0), NEW list, list \in Listings0, NEW c, c = Append(bg, list)
  PROVE  /\ c \in Seq(Listings0) /\ Len(c) = Len(bg) + 1 /\ c[Len(bg) + 1] = list
         /\ \A i \in 1..Len(bg) : i \in 1..Len(c) /\ c[i] = bg[i]
<1>1. Len(bg) \in Nat /\ c \in Seq(Listings0) /\ Len(c) = Len(bg) + 1
  OBVIOUS
<1>2. c[Len(bg) + 1] = list
  OBVIOUS
<1>3. \A i \in 1..Len(bg) : c[i] = bg[i]
  OBVIOUS
<1>4. \A i \in 1..Len(bg) : i \in 1..Len(c)
  BY <1>1
<1> QED BY <1>1, <1>2, <1>3, <1>4

LEMMA ViewsStay ==
  ASSUME NEW bg, NEW c, \A i \in 1..Len(bg) : i \in 1..Len(c) /\ c[i] = bg[i], NEW w, IsView(w, bg)
  PROVE  IsView(w, c)
<1>1. w.repo = None => w.next = None
  BY DEF IsView
<1>2. ASSUME w.repo # None
      PROVE  /\ w.repo \in SnapRepos /\ w.id \in 1..Len(c) /\ c[w.id] = bg[w.id]
             /\ \E k \in 0..Len(bg[w.id]) :
                  /\ w.got = SubSeq(bg[w.id], 1, k)
                  /\ w.next = None => k = Len(bg[w.id])
                  /\ w.next # None => w.next = k
  BY <1>2 DEF IsView
<1> QED BY <1>1, <1>2 DEF IsView

LEMMA BegunStays ==
  ASSUME NEW bg, NEW c, \A i \in 1..Len(bg) : i \in 1..Len(c) /\ c[i] = bg[i], NEW e, FromBegun(e, bg)
  PROVE  FromBegun(e, c)
BY DEF FromBegun

LEMMA NoView == \A bg : IsView(NoListing, bg)
BY DEF IsView, NoListing

(* A page goes on where the pages before it ended.                         *)
GoesOn(list, s, cursor, got) ==
  \E k \in 0..Len(list) :
    /\ (IF cursor = 0 THEN <<>> ELSE got) \o PageOf(s, cursor) = SubSeq(list, 1, k)
    /\ NextStart(s, cursor) = {} => k = Len(list)
    /\ NextStart(s, cursor) # {} => Min(NextStart(s, cursor)) = k

LEMMA PageFollows ==
  ASSUME NEW list, list \in Listings0, NEW s, s.records = list, NEW cursor, cursor \in 0..Len(list),
         NEW got, cursor # 0 => got = SubSeq(list, 1, cursor)
  PROVE  GoesOn(list, s, cursor, got)
<1>1. list \in Seq(Changes)
  BY SnapAssumption
<1>2. PICK N \in Nat : N = Len(list)
  BY <1>1
<1>3. cursor \in Nat /\ cursor <= N
  BY <1>2
<1>4. PICK k : k = PageEnd(list, cursor)
  OBVIOUS
<1>5. k \in Nat /\ cursor <= k /\ k <= N
  BY <1>2, <1>3, <1>4, PageEnds
<1>6. PICK q : q = IF cursor = 0 THEN <<>> ELSE got
  OBVIOUS
<1>7. q = SubSeq(list, 1, cursor)
  <2>1. SubSeq(list, 1, 0) = <<>>
    BY <1>1
  <2> QED BY <1>6, <2>1
<1>8. PageOf(s, cursor) = SubSeq(list, cursor + 1, k)
  BY <1>4, PageIs
<1>9. SubSeq(list, 1, cursor) \o SubSeq(list, cursor + 1, k) = SubSeq(list, 1, k)
  <2>1. \A m \in 1..Len(list) + 1 : \A i \in m - 1..Len(list) : \A n \in i..Len(list) :
          SubSeq(list, m, i) \o SubSeq(list, i + 1, n) = SubSeq(list, m, n)
    BY <1>1, ConcatAdjacentSubSeq
  <2>2. 1 \in 1..Len(list) + 1 /\ cursor \in 1 - 1..Len(list) /\ k \in cursor..Len(list)
    BY <1>2, <1>3, <1>5
  <2> QED BY <2>1, <2>2
<1>10. q \o PageOf(s, cursor) = SubSeq(list, 1, k)
  BY <1>7, <1>8, <1>9
<1>11. NextStart(s, cursor) = {n \in PageStarts[list] : n > cursor}
  BY DEF NextStart
<1>12. /\ NextStart(s, cursor) = {} => k = N
       /\ NextStart(s, cursor) # {} => Min(NextStart(s, cursor)) = k
  BY <1>2, <1>4, <1>11 DEF PageEnd
<1>13. k \in 0..Len(list)
  BY <1>2, <1>5
<1> QED BY <1>2, <1>6, <1>10, <1>12, <1>13 DEF GoesOn

(* The answer of a page.                                                   *)
LEMMA AnsweredIs ==
  ASSUME NEW v, v \in Views, NEW r, r \in SnapRepos, NEW bg, bg \in Seq(Listings0), NEW id, id \in 1..Len(bg),
         NEW s, s.records = bg[id], NEW cursor, cursor \in 0..Len(bg[id]),
         cursor # 0 => views[v].got = SubSeq(bg[id], 1, cursor),
         DOMAIN views = Views, \A u \in Views : IsView(views[u], bg), Answered(v, r, id, s, cursor)
  PROVE  DOMAIN views' = Views /\ \A u \in Views : IsView(views'[u], bg)
<1>1. PICK w : w = [repo |-> r, id |-> id, got |-> (IF cursor = 0 THEN <<>> ELSE views[v].got) \o PageOf(s, cursor),
                    next |-> IF NextStart(s, cursor) = {} THEN None ELSE Min(NextStart(s, cursor))]
  OBVIOUS
<1>2. views' = [views EXCEPT ![v] = w]
  BY <1>1 DEF Answered
<1>3. DOMAIN views' = Views /\ \A u \in Views : views'[u] = IF u = v THEN w ELSE views[u]
  BY <1>2
<1>4. PICK list : list = bg[id]
  OBVIOUS
<1>5. list \in Listings0
  BY <1>4
<1>6. PICK k \in 0..Len(list) :
           /\ (IF cursor = 0 THEN <<>> ELSE views[v].got) \o PageOf(s, cursor) = SubSeq(list, 1, k)
           /\ NextStart(s, cursor) = {} => k = Len(list)
           /\ NextStart(s, cursor) # {} => Min(NextStart(s, cursor)) = k
  <2>1. s.records = list /\ cursor \in 0..Len(list) /\ (cursor # 0 => views[v].got = SubSeq(list, 1, cursor))
    BY <1>4
  <2>2. PICK g : g = views[v].got
    OBVIOUS
  <2>3. cursor # 0 => g = SubSeq(list, 1, cursor)
    BY <2>1, <2>2
  <2>4. GoesOn(list, s, cursor, g)
    BY <1>5, <2>1, <2>3, PageFollows
  <2> QED BY <2>2, <2>4 DEF GoesOn
<1>7. Len(list) \in Nat /\ None \notin Nat /\ None \notin SnapRepos
  BY <1>5, SnapAssumption
<1>8. w.repo = r /\ w.id = id /\ w.got = SubSeq(list, 1, k)
  BY <1>1, <1>6
<1>9. w.next = IF NextStart(s, cursor) = {} THEN None ELSE k
  BY <1>1, <1>6
<1>10. k # None
  BY <1>7
<1>11. (w.next = None => k = Len(list)) /\ (w.next # None => w.next = k)
  BY <1>6, <1>9, <1>10
<1>12. IsView(w, bg)
  BY <1>4, <1>7, <1>8, <1>11 DEF IsView
<1> QED BY <1>3, <1>12

LEMMA RefusedIs ==
  ASSUME NEW v, v \in Views, NEW bg, DOMAIN views = Views, \A u \in Views : IsView(views[u], bg), Refused(v)
  PROVE  DOMAIN views' = Views /\ \A u \in Views : IsView(views'[u], bg)
<1>1. views' = [views EXCEPT ![v] = NoListing]
  BY DEF Refused
<1>2. DOMAIN views' = Views /\ \A u \in Views : views'[u] = IF u = v THEN NoListing ELSE views[u]
  BY <1>1
<1> QED BY <1>2, NoView

LEMMA StoreIs ==
  ASSUME NEW t, IsStore(t), Becomes(t)
  PROVE  IsStore(Store') /\ entries' = t.entries
<1>1. t \in Stores
  BY DEF IsStore
<1>2. t = [entries |-> t.entries, capacity |-> t.capacity, bytes |-> t.bytes, swept |-> t.swept]
  BY <1>1 DEF Stores
<1>3. Store' = [entries |-> t.entries, capacity |-> t.capacity, bytes |-> t.bytes, swept |-> t.swept]
  BY DEF Becomes, Store
<1>4. Store' = t
  BY <1>2, <1>3
<1> QED BY <1>4 DEF Becomes

(* A step that adds nothing to the store and begins nothing.               *)
LEMMA SnapKept ==
  ASSUME SnapInv, NEW t, IsStore(t), Fewer(t.entries, entries), Becomes(t),
         UNCHANGED <<sequence, begun>>, now' \in Nat, identity' \in [SnapRepos -> Nat],
         DOMAIN views' = Views, \A v \in Views : IsView(views'[v], begun)
  PROVE  SnapInv'
<1>1. IsStore(Store') /\ entries' = t.entries
  BY StoreIs
<1>2. FromBegun(entries, begun) /\ begun \in Seq(Listings0) /\ sequence = Len(begun)
  BY DEF SnapInv
<1>3. FromBegun(entries', begun')
  BY <1>1, <1>2, FewerBegun
<1> QED BY <1>1, <1>2, <1>3 DEF SnapInv

(* What expires when the store is entered.                                 *)
LEMMA Entering ==
  ASSUME SnapInv, NEW force, NEW st, st = Expire(Store, force)
  PROVE  IsStore(st) /\ Fewer(st.entries, entries) /\ FromBegun(st.entries, begun)
<1>1. IsStore(Store) /\ now \in Nat /\ FromBegun(entries, begun)
  BY DEF SnapInv
<1>2. Store.entries = entries
  BY DEF Store
<1>3. IsStore(st) /\ Fewer(st.entries, entries)
  BY <1>1, <1>2, ExpireKeeps
<1> QED BY <1>1, <1>3, FewerBegun

LEMMA RefusedStep ==
  ASSUME SnapInv, NEW t, IsStore(t), Fewer(t.entries, entries), Becomes(t), NEW v, v \in Views, Refused(v),
         UNCHANGED <<sequence, begun, now>>, identity' \in [SnapRepos -> Nat]
  PROVE  SnapInv'
<1>1. DOMAIN views = Views /\ (\A u \in Views : IsView(views[u], begun)) /\ now \in Nat
  BY DEF SnapInv
<1>2. DOMAIN views' = Views /\ \A u \in Views : IsView(views'[u], begun)
  BY <1>1, RefusedIs
<1> QED BY <1>1, <1>2, SnapKept

LEMMA BeginStep ==
  ASSUME SnapInv, NEW v, v \in Views, NEW r, r \in SnapRepos, NEW list, list \in Listings0, NEW replaced,
         Begin(v, r, list, replaced)
  PROVE  SnapInv'
<1>1. /\ identity \in [SnapRepos -> Nat] /\ now \in Nat /\ begun \in Seq(Listings0) /\ sequence = Len(begun)
      /\ DOMAIN views = Views /\ \A u \in Views : IsView(views[u], begun)
  BY DEF SnapInv
<1>2. identity' \in [SnapRepos -> Nat] /\ now' = now
  <2>1. identity' = identity \/ identity' = [identity EXCEPT ![r] = identity[r] + 1]
    BY DEF Begin
  <2>2. identity[r] + 1 \in Nat
    BY <1>1
  <2>3. now' = now
    BY DEF Begin
  <2> QED BY <1>1, <2>1, <2>2, <2>3
<1>3. PICK st : st = Expire(Store, FALSE)
  OBVIOUS
<1>4. PICK again : again = Expire(st, TRUE)
  OBVIOUS
<1>5. PICK s : s = [id |-> sequence + 1, identity |-> identity[r], records |-> list,
                    bytes |-> SnapshotBytes(list), touched |-> now]
  OBVIOUS
<1>6. PICK room : room = IF Fits(st, r, s.bytes) THEN st ELSE again
  OBVIOUS
<1>7. IsStore(st) /\ Fewer(st.entries, entries)
  BY <1>3, Entering
<1>8. IsStore(again) /\ Fewer(again.entries, entries)
  <2>1. IsStore(again) /\ Fewer(again.entries, st.entries)
    BY <1>1, <1>4, <1>7, ExpireKeeps
  <2> QED BY <1>7, <2>1, FewerAll
<1>9. IsStore(room) /\ Fewer(room.entries, entries)
  BY <1>6, <1>7, <1>8
<1>10. s \in Stored
  <2>1. sequence + 1 \in Nat /\ identity[r] \in Nat
    BY <1>1
  <2>2. SnapshotBytes(list) \in Nat
    BY SizesAreNumbers
  <2> QED BY <1>1, <1>5, <2>1, <2>2 DEF Stored
<1>11. \/ Becomes(st) /\ Refused(v) /\ UNCHANGED <<sequence, begun>>
       \/ Becomes(room) /\ Refused(v) /\ UNCHANGED <<sequence, begun>>
       \/ /\ Fits(room, r, s.bytes) /\ Becomes(Insert(room, r, s)) /\ sequence' = sequence + 1
          /\ begun' = Append(begun, list) /\ Answered(v, r, s.id, s, 0)
  BY <1>3, <1>4, <1>5, <1>6 DEF Begin
<1>12. CASE Becomes(st) /\ Refused(v) /\ UNCHANGED <<sequence, begun>>
  BY <1>2, <1>7, <1>12, RefusedStep
<1>13. CASE Becomes(room) /\ Refused(v) /\ UNCHANGED <<sequence, begun>>
  BY <1>2, <1>9, <1>13, RefusedStep
<1>14. CASE /\ Fits(room, r, s.bytes) /\ Becomes(Insert(room, r, s)) /\ sequence' = sequence + 1
            /\ begun' = Append(begun, list) /\ Answered(v, r, s.id, s, 0)
  <2>1. PICK t : t = Insert(room, r, s)
    OBVIOUS
  <2>2. IsStore(t) /\ t.entries[r] = s /\ \A x \in SnapRepos : x # r => t.entries[x] = room.entries[x]
    BY <1>9, <1>10, <1>14, <2>1, InsertKeeps
  <2>3. IsStore(Store') /\ entries' = t.entries
    BY <1>14, <2>1, <2>2, StoreIs
  <2>4. PICK c : c = begun'
    OBVIOUS
  <2>5. c = Append(begun, list)
    BY <1>14, <2>4
  <2>6. /\ c \in Seq(Listings0) /\ Len(c) = Len(begun) + 1 /\ c[Len(begun) + 1] = list
        /\ \A i \in 1..Len(begun) : i \in 1..Len(c) /\ c[i] = begun[i]
    BY <1>1, <2>5, BegunMore
  <2>7. s.id = Len(begun) + 1 /\ s.id \in 1..Len(c) /\ s.records = list /\ c[s.id] = list
    <3>1. s.id = Len(begun) + 1 /\ s.records = list
      BY <1>1, <1>5
    <3>2. Len(begun) \in Nat
      BY <1>1
    <3> QED BY <2>6, <3>1, <3>2
  <2>8. FromBegun(room.entries, c)
    <3>1. FromBegun(entries, begun)
      BY DEF SnapInv
    <3>2. FromBegun(room.entries, begun)
      BY <1>9, <3>1, FewerBegun
    <3> QED BY <2>6, <3>2, BegunStays
  <2>9. FromBegun(t.entries, c)
    BY <2>2, <2>7, <2>8 DEF FromBegun
  <2>10. \A u \in Views : IsView(views[u], c)
    BY <1>1, <2>6, ViewsStay
  <2>11. DOMAIN views' = Views /\ \A u \in Views : IsView(views'[u], c)
    <3>1. PICK id : id = s.id
      OBVIOUS
    <3>2. id \in 1..Len(c) /\ s.records = c[id] /\ Answered(v, r, id, s, 0)
      BY <1>14, <2>7, <3>1
    <3>3. 0 \in 0..Len(c[id])
      <4>1. Len(c[id]) \in Nat
        BY <2>7, <3>1, SnapAssumption
      <4> QED BY <4>1
    <3> QED BY <1>1, <2>6, <2>10, <3>2, <3>3, AnsweredIs
  <2>12. sequence' = Len(c)
    BY <1>1, <1>14, <2>6
  <2> QED BY <1>1, <1>2, <2>3, <2>4, <2>6, <2>9, <2>11, <2>12 DEF SnapInv
<1> QED BY <1>11, <1>12, <1>13, <1>14

(* A listing that is current is the one the view began.                    *)
LEMMA CurrentIs ==
  ASSUME NEW st, NEW bg, FromBegun(st.entries, bg), NEW r, r \in SnapRepos, NEW id, IsCurrent(st, r, id)
  PROVE  st.entries[r] # None /\ st.entries[r].records = bg[id] /\ id \in 1..Len(bg)
BY DEF FromBegun, IsCurrent

LEMMA NextPageStep ==
  ASSUME SnapInv, NEW v, v \in Views, NextPage(v)
  PROVE  SnapInv'
<1>1. /\ identity \in [SnapRepos -> Nat] /\ now \in Nat /\ begun \in Seq(Listings0)
      /\ DOMAIN views = Views /\ \A u \in Views : IsView(views[u], begun)
  BY DEF SnapInv
<1>2. PICK w : w = views[v]
  OBVIOUS
<1>3. w.next # None /\ identity' = identity /\ UNCHANGED <<sequence, now, begun>>
  BY <1>2 DEF NextPage
<1>4. IsView(w, begun)
  BY <1>1, <1>2
<1>5. w.repo \in SnapRepos /\ w.id \in 1..Len(begun)
  BY <1>3, <1>4 DEF IsView
<1>6. PICK k \in 0..Len(begun[w.id]) : w.got = SubSeq(begun[w.id], 1, k) /\ w.next = k
  BY <1>3, <1>4 DEF IsView
<1>7. PICK r : r = w.repo
  OBVIOUS
<1>8. PICK st : st = Expire(Store, FALSE)
  OBVIOUS
<1>9. IsStore(st) /\ Fewer(st.entries, entries) /\ FromBegun(st.entries, begun)
  BY <1>8, Entering
<1>10. \/ IsCurrent(st, r, w.id) /\ Becomes(Touched(st, r)) /\ Answered(v, r, w.id, st.entries[r], w.next)
       \/ Becomes(st) /\ Refused(v)
       \/ Becomes(AfterCurrent(st, r)) /\ Refused(v)
  BY <1>2, <1>7, <1>8 DEF NextPage
<1>11. CASE IsCurrent(st, r, w.id) /\ Becomes(Touched(st, r)) /\ Answered(v, r, w.id, st.entries[r], w.next)
  <2>1. st.entries[r] # None /\ st.entries[r].records = begun[w.id]
    <3>1. r \in SnapRepos /\ FromBegun(st.entries, begun)
      BY <1>5, <1>7, <1>9
    <3>2. PICK i : i = w.id
      OBVIOUS
    <3>3. IsCurrent(st, r, i)
      BY <1>11, <3>2
    <3> QED BY <3>1, <3>2, <3>3, CurrentIs
  <2>2. PICK t : t = Touched(st, r)
    OBVIOUS
  <2>3. IsStore(t) /\ Fewer(t.entries, st.entries)
    BY <1>1, <1>5, <1>7, <1>9, <2>1, <2>2, TouchedKeeps
  <2>4. Fewer(t.entries, entries)
    BY <1>9, <2>3, FewerAll
  <2>5. PICK s : s = st.entries[r]
    OBVIOUS
  <2>6. PICK id : id = w.id
    OBVIOUS
  <2>7. s.records = begun[id] /\ id \in 1..Len(begun) /\ k \in 0..Len(begun[id]) /\ Answered(v, r, id, s, k)
    BY <1>5, <1>6, <1>11, <2>1, <2>5, <2>6
  <2>8. k # 0 => views[v].got = SubSeq(begun[id], 1, k)
    BY <1>2, <1>6, <2>6
  <2>9. DOMAIN views' = Views /\ \A u \in Views : IsView(views'[u], begun)
    BY <1>1, <1>5, <1>7, <2>7, <2>8, AnsweredIs
  <2>10. Becomes(t) /\ now' \in Nat /\ identity' \in [SnapRepos -> Nat] /\ UNCHANGED <<sequence, begun>>
    BY <1>1, <1>3, <1>11, <2>2
  <2> QED BY <2>3, <2>4, <2>9, <2>10, SnapKept
<1>12. CASE Becomes(st) /\ Refused(v)
  BY <1>1, <1>3, <1>9, <1>12, RefusedStep
<1>13. CASE Becomes(AfterCurrent(st, r)) /\ Refused(v)
  <2>1. PICK t : t = AfterCurrent(st, r)
    OBVIOUS
  <2>2. IsStore(t) /\ Fewer(t.entries, st.entries)
    BY <1>5, <1>7, <1>9, <2>1, AfterCurrentKeeps
  <2>3. Fewer(t.entries, entries)
    BY <1>9, <2>2, FewerAll
  <2> QED BY <1>1, <1>3, <1>13, <2>1, <2>2, <2>3, RefusedStep
<1> QED BY <1>10, <1>11, <1>12, <1>13

LEMMA LookupStep ==
  ASSUME SnapInv, NEW v, v \in Views, Lookup(v)
  PROVE  SnapInv'
<1>1. /\ identity \in [SnapRepos -> Nat] /\ now \in Nat
      /\ DOMAIN views = Views /\ \A u \in Views : IsView(views[u], begun)
  BY DEF SnapInv
<1>2. PICK w : w = views[v]
  OBVIOUS
<1>3. w.repo # None /\ identity' = identity /\ UNCHANGED <<sequence, now, begun>>
  BY <1>2 DEF Lookup
<1>4. w.repo \in SnapRepos
  BY <1>1, <1>2, <1>3 DEF IsView
<1>5. PICK r : r = w.repo
  OBVIOUS
<1>6. PICK st : st = Expire(Store, FALSE)
  OBVIOUS
<1>7. IsStore(st) /\ Fewer(st.entries, entries)
  BY <1>6, Entering
<1>8. \/ IsCurrent(st, r, w.id) /\ Becomes(Touched(st, r)) /\ UNCHANGED views
      \/ Becomes(AfterCurrent(st, r)) /\ Refused(v)
  BY <1>2, <1>5, <1>6 DEF Lookup
<1>9. CASE IsCurrent(st, r, w.id) /\ Becomes(Touched(st, r)) /\ UNCHANGED views
  <2>1. st.entries[r] # None
    BY <1>9 DEF IsCurrent
  <2>2. PICK t : t = Touched(st, r)
    OBVIOUS
  <2>3. IsStore(t) /\ Fewer(t.entries, st.entries)
    BY <1>1, <1>4, <1>5, <1>7, <2>1, <2>2, TouchedKeeps
  <2>4. Fewer(t.entries, entries)
    BY <1>7, <2>3, FewerAll
  <2>5. Becomes(t) /\ now' \in Nat /\ identity' \in [SnapRepos -> Nat]
    BY <1>1, <1>3, <1>9, <2>2
  <2>6. DOMAIN views' = Views /\ \A u \in Views : IsView(views'[u], begun)
    BY <1>1, <1>9
  <2> QED BY <1>3, <2>3, <2>4, <2>5, <2>6, SnapKept
<1>10. CASE Becomes(AfterCurrent(st, r)) /\ Refused(v)
  <2>1. PICK t : t = AfterCurrent(st, r)
    OBVIOUS
  <2>2. IsStore(t) /\ Fewer(t.entries, st.entries)
    BY <1>4, <1>5, <1>7, <2>1, AfterCurrentKeeps
  <2>3. Fewer(t.entries, entries)
    BY <1>7, <2>2, FewerAll
  <2> QED BY <1>1, <1>3, <1>10, <2>1, <2>2, <2>3, RefusedStep
<1> QED BY <1>8, <1>9, <1>10

LEMMA ReleaseStep ==
  ASSUME SnapInv, NEW v, v \in Views, ReleaseListing(v)
  PROVE  SnapInv'
<1>1. /\ identity \in [SnapRepos -> Nat] /\ now \in Nat
      /\ DOMAIN views = Views /\ \A u \in Views : IsView(views[u], begun)
  BY DEF SnapInv
<1>2. PICK w : w = views[v]
  OBVIOUS
<1>3. w.repo # None /\ Refused(v) /\ identity' = identity /\ UNCHANGED <<sequence, now, begun>>
  BY <1>2 DEF ReleaseListing
<1>4. w.repo \in SnapRepos
  BY <1>1, <1>2, <1>3 DEF IsView
<1>5. PICK r : r = w.repo
  OBVIOUS
<1>6. PICK st : st = Expire(Store, FALSE)
  OBVIOUS
<1>7. IsStore(st) /\ Fewer(st.entries, entries)
  BY <1>6, Entering
<1>8. PICK t : t = IF IsCurrent(st, r, w.id) THEN Dropped(st, r) ELSE AfterCurrent(st, r)
  OBVIOUS
<1>9. Becomes(t)
  BY <1>2, <1>5, <1>6, <1>8 DEF ReleaseListing
<1>10. IsStore(t) /\ Fewer(t.entries, st.entries)
  <2>1. CASE IsCurrent(st, r, w.id)
    <3>1. st.entries[r] # None
      BY <2>1 DEF IsCurrent
    <3>2. t = Dropped(st, r)
      BY <1>8, <2>1
    <3> QED BY <1>4, <1>5, <1>7, <3>1, <3>2, DroppedKeeps
  <2>2. CASE ~IsCurrent(st, r, w.id)
    BY <1>4, <1>5, <1>7, <1>8, <2>2, AfterCurrentKeeps
  <2> QED BY <2>1, <2>2
<1>11. Fewer(t.entries, entries)
  BY <1>7, <1>10, FewerAll
<1> QED BY <1>1, <1>3, <1>9, <1>10, <1>11, RefusedStep

(* The empty store.                                                        *)
LEMMA EmptyIs ==
  ASSUME NEW f, f = [r \in SnapRepos |-> None],
         NEW t, t = [entries |-> f, capacity |-> 0, bytes |-> 0, swept |-> None]
  PROVE  IsStore(t) /\ \A e : Fewer(t.entries, e)
<1>1. Total(f) = 0
  BY TotalNone
<1>2. 0 \in Tables /\ MaxCacheBytes \in Nat
  BY SnapAssumption
<1>3. t \in Stores
  BY <1>2 DEF Stores
<1>4. \A e : Fewer(t.entries, e)
  BY DEF Fewer
<1>5. t.bytes = 0 /\ t.capacity = 0 /\ t.entries = f
  OBVIOUS
<1>6. t.bytes + t.capacity <= MaxCacheBytes
  BY <1>2, <1>5
<1> QED BY <1>1, <1>3, <1>4, <1>5, <1>6 DEF IsStore, Within

LEMMA InitializeStep ==
  ASSUME SnapInv, Initialize
  PROVE  SnapInv'
<1>1. /\ identity \in [SnapRepos -> Nat] /\ now \in Nat
      /\ DOMAIN views = Views /\ \A u \in Views : IsView(views[u], begun)
  BY DEF SnapInv
<1>2. PICK f : f = [r \in SnapRepos |-> None]
  OBVIOUS
<1>3. PICK t : t = [entries |-> f, capacity |-> 0, bytes |-> 0, swept |-> None]
  OBVIOUS
<1>4. IsStore(t) /\ Fewer(t.entries, entries)
  BY <1>2, <1>3, EmptyIs
<1>5. Becomes(t) /\ UNCHANGED <<identity, sequence, now, views, begun>>
  BY <1>2, <1>3 DEF Initialize, Becomes
<1> QED BY <1>1, <1>4, <1>5, SnapKept

LEMMA SnapInitHolds ==
  ASSUME SnapInit
  PROVE  SnapInv
<1>1. identity \in [SnapRepos -> Nat] /\ now \in Nat
  BY DEF SnapInit
<1>2. IsStore(Store)
  <2>1. PICK f : f = [r \in SnapRepos |-> None]
    OBVIOUS
  <2>2. Store = [entries |-> f, capacity |-> 0, bytes |-> 0, swept |-> None]
    BY <2>1 DEF SnapInit, Store
  <2> QED BY <2>1, <2>2, EmptyIs
<1>3. begun \in Seq(Listings0) /\ sequence = Len(begun)
  BY DEF SnapInit
<1>4. FromBegun(entries, begun)
  BY DEF SnapInit, FromBegun
<1>5. DOMAIN views = Views /\ \A v \in Views : IsView(views[v], begun)
  BY NoView DEF SnapInit
<1> QED BY <1>1, <1>2, <1>3, <1>4, <1>5 DEF SnapInv

LEMMA SnapStays ==
  ASSUME SnapInv, UNCHANGED <<entries, capacity, bytes, sequence, swept, views, begun>>,
         now' \in Nat, identity' \in [SnapRepos -> Nat]
  PROVE  SnapInv'
<1>1. Store' = Store
  BY DEF Store
<1> QED BY <1>1 DEF SnapInv

LEMMA SnapStep ==
  ASSUME SnapInv, [SnapNext]_snapVars
  PROVE  SnapInv'
<1>1. identity \in [SnapRepos -> Nat] /\ now \in Nat
  BY DEF SnapInv
<1>2. CASE \E v \in Views, r \in SnapRepos, list \in Listings0, replaced \in BOOLEAN : Begin(v, r, list, replaced)
  BY <1>2, BeginStep
<1>3. CASE \E v \in Views : NextPage(v) \/ Lookup(v) \/ ReleaseListing(v)
  BY <1>3, NextPageStep, LookupStep, ReleaseStep
<1>4. CASE Initialize
  BY <1>4, InitializeStep
<1>5. CASE Tick
  <2>1. now' \in Nat
    BY <1>1, <1>5 DEF Tick
  <2> QED BY <1>1, <1>5, <2>1, SnapStays DEF Tick
<1>6. CASE \E r \in SnapRepos : Replace(r)
  <2>1. PICK r \in SnapRepos : Replace(r)
    BY <1>6
  <2>2. identity' = [identity EXCEPT ![r] = identity[r] + 1] /\ identity[r] + 1 \in Nat
    BY <1>1, <2>1 DEF Replace
  <2>3. identity' \in [SnapRepos -> Nat]
    BY <1>1, <2>2
  <2> QED BY <1>1, <2>1, <2>3, SnapStays DEF Replace
<1>7. CASE UNCHANGED snapVars
  BY <1>1, <1>7, SnapStays DEF snapVars
<1> QED BY <1>2, <1>3, <1>4, <1>5, <1>6, <1>7 DEF SnapNext

LEMMA StartIsPrefix ==
  ASSUME NEW list, list \in Listings0, NEW k, k \in 0..Len(list), NEW got, got = SubSeq(list, 1, k)
  PROVE  IsPrefix(got, list) /\ Len(got) = k /\ (k = Len(list) => got = list)
<1>1. list \in Seq(Changes)
  BY SnapAssumption
<1>2. PICK N \in Nat : N = Len(list) /\ k \in Nat /\ k <= N
  BY <1>1
<1>3. Len(got) = k
  BY <1>1, <1>2
<1>4. SubSeq(got, 1, k) = got
  <2>1. got \in Seq(Changes)
    BY <1>1, <1>2
  <2> QED BY <1>3, <2>1, SubSeqFull
<1>5. k = N => got = list
  BY <1>1, <1>2, SubSeqFull
<1>6. Len(got) <= Len(list) /\ SubSeq(got, 1, Len(got)) = SubSeq(list, 1, Len(got))
  BY <1>2, <1>3, <1>4
<1> QED BY <1>2, <1>3, <1>5, <1>6 DEF IsPrefix

LEMMA SnapInvIsEnough ==
  ASSUME SnapInv
  PROVE  SnapshotsHold
<1>1. begun \in Seq(Listings0) /\ \A v \in Views : IsView(views[v], begun)
  BY DEF SnapInv
<1>2. StoreIsBounded
  <2>1. IsStore(Store)
    BY DEF SnapInv
  <2> QED BY <2>1 DEF IsStore, Within, Store, StoreIsBounded
<1>3. ASSUME NEW v \in Views, views[v].repo # None, NEW list, list = begun[views[v].id]
      PROVE  /\ IsPrefix(views[v].got, list)
             /\ views[v].next = None => views[v].got = list
             /\ views[v].next # None => views[v].next = Len(views[v].got)
             /\ LookupsAgree[list]
  <2>1. PICK w : w = views[v]
    OBVIOUS
  <2>2. w.id \in 1..Len(begun)
    BY <1>1, <1>3, <2>1 DEF IsView
  <2>3. PICK k \in 0..Len(list) : /\ w.got = SubSeq(list, 1, k)
                                  /\ w.next = None => k = Len(list)
                                  /\ w.next # None => w.next = k
    BY <1>1, <1>3, <2>1 DEF IsView
  <2>4. list \in Listings0
    BY <1>1, <1>3, <2>1, <2>2
  <2>5. PICK got : got = w.got
    OBVIOUS
  <2>6. IsPrefix(got, list) /\ Len(got) = k /\ (k = Len(list) => got = list)
    <3>1. got = SubSeq(list, 1, k) /\ k \in 0..Len(list)
      BY <2>3, <2>5
    <3> QED BY <2>4, <3>1, StartIsPrefix
  <2>7. LookupsAgree[list]
    BY <2>4, LookupsHold
  <2> QED BY <2>1, <2>3, <2>5, <2>6, <2>7
<1>4. PagesAreOneListing
  BY <1>3 DEF PagesAreOneListing
<1> QED BY <1>2, <1>4 DEF SnapshotsHold

(* Pages belong together and what the server keeps for them is bounded.    *)
THEOREM SnapshotsAlwaysHold == SnapSpec => []SnapshotsHold
<1>1. SnapInit => SnapInv
  BY SnapInitHolds
<1>2. SnapInv /\ [SnapNext]_snapVars => SnapInv'
  BY SnapStep
<1>3. SnapInv => SnapshotsHold
  BY SnapInvIsEnough
<1> QED BY <1>1, <1>2, <1>3, PTL DEF SnapSpec

=============================================================================
