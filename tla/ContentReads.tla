----------------------------- MODULE ContentReads -----------------------------
(***************************************************************************)
(* How the bridge reads what a path holds in HEAD, in the index or in a    *)
(* commit (src/bridge/content_worker/metadata.rs and runner.rs, and        *)
(* src/bridge/changes/blob.rs) while Git is working in the repository:     *)
(* nothing is locked, so every reader takes the answer twice and refuses   *)
(* one that moved.  Four readers: the worker's metadata and its verified   *)
(* content, each through one cat-file process (fast) or through separate   *)
(* Git commands, and the bridge's own batch and single look-ups.           *)
(*                                                                         *)
(* Abstractions.  An object is its id, and Kind says what it is; the tree  *)
(* of a commit never changes, so reading it is not a step of its own; the  *)
(* Git configuration, the replacement refs and the identity of the         *)
(* repository are versions.  All paths of a request fit one ls-files       *)
(* command.  HEAD and the index do not return to a commit or an entry they *)
(* left (an index path may be empty more than once).                       *)
(***************************************************************************)
EXTENDS Naturals, Sequences, Functions, Panels

CONSTANTS
  Commits,     \* sequence of commits HEAD visits
  Paths,
  Tree,        \* Tree[c][p]: what p is in commit c, an object or None
  Kind,        \* "file", "link", "other" or "commit", of every object
  Staged,      \* objects the index may come to hold, in this order
  Losable,     \* objects that may vanish from the repository
  Requests,    \* sequences of items [ref, path] a client may ask for
  MaxWrites    \* bound: changes made by Git while a request runs

ASSUME ReadAssumption ==
  /\ Commits \in Seq(Range(Commits)) /\ Len(Commits) > 0 /\ None \notin Range(Commits)
  /\ Staged \in Seq(Range(Staged)) /\ Len(Staged) > 0 /\ None \notin Range(Staged)
  /\ \A i, j \in DOMAIN Commits : Commits[i] = Commits[j] => i = j
  /\ \A i, j \in DOMAIN Staged : Staged[i] = Staged[j] => i = j
  /\ \A items \in Requests : items \in Seq(Range(items)) /\ \A i \in DOMAIN items : items[i].path \in Paths

Settings == {"config", "replacements", "place"}

VARIABLES
  disk,     \* [head, index, lost, used, config, replacements, place]; used counts Staged
  written,  \* changes so far (bounded)
  asked,    \* the request being answered, or None
  heard     \* every truth since it began

readVars == <<disk, written, asked, heard>>

-----------------------------------------------------------------------------
(* Answers.  A value is an object and where it was found; an error is a    *)
(* string.                                                                 *)

Found(o, commit, d) == [oid |-> o, head |-> commit, as |-> d.replacements]

IsValue(result) == DOMAIN result # {} /\ "oid" \in DOMAIN result
Failed(code) == [error |-> code]
Absent == Failed("content_not_found")
Unsupported == Failed("unsupported_content")
Broken == Failed("repository_error")

ASSUME NoneIsNoResult == None \notin {Absent, Unsupported, Broken}

Named(item) == item.ref \notin {"HEAD", "index"}

\* The commit an item is looked up in.
Referred(item, head) == IF item.ref = "HEAD" THEN head ELSE item.ref

\* What is at an item: an object, or None.
EntryAt(item, head, index) ==
  IF item.ref = "index" THEN index[item.path] ELSE Tree[Referred(item, head)][item.path]

\* Why an item has no entry: the reference itself is missing or no commit.
RefError(item, head, lost) ==
  IF item.ref = "HEAD" /\ head = None THEN Absent
  ELSE IF ~Named(item) THEN None
  ELSE IF item.ref \in lost THEN Absent
  ELSE IF Kind[item.ref] # "commit" THEN Unsupported
  ELSE None

\* An entry as an answer, its object being there.
Described(item, e, head, d) ==
  IF Kind[e] \notin {"file", "link"} THEN Unsupported
  ELSE Found(e, IF item.ref = "index" THEN None ELSE Referred(item, head), d)

\* Reference: what is true of an item, all read at one instant.
Truth(item, d) ==
  LET none == RefError(item, d.head, d.lost) IN
  IF none # None THEN none
  ELSE LET e == EntryAt(item, d.head, d.index) IN
       IF e = None THEN Absent
       ELSE IF e \in d.lost THEN Broken
       ELSE Described(item, e, d.head, d)

Answer(config, replacements, results) ==
  [config |-> config, replacements |-> replacements, results |-> results]

\* All of it at one instant, in the repository that was asked about.
Replaced == Failed("another repository")
TruthNow(items, d) ==
  IF d.place # 0 THEN Replaced
  ELSE Answer(d.config, d.replacements, [i \in DOMAIN items |-> Truth(items[i], d)])

-----------------------------------------------------------------------------
(* What a reader does, in order.                                           *)

Do(step) == <<step, 0>>
When(cond, step) == IF cond THEN <<Do(step)>> ELSE <<>>
Mentions(items, ref) == \E i \in DOMAIN items : items[i].ref = ref
MentionsCommit(items) == \E i \in DOMAIN items : Named(items[i])
EachItem(step, items) == [i \in DOMAIN items |-> <<step, i>>]

\* snapshot
SnapshotSteps(items, fast) ==
  <<Do("config"), Do("replacements")>> \o When(Mentions(items, "HEAD"), "head") \o
  IF fast THEN When(MentionsCommit(items), "refs") \o EachItem("query", items) \o <<Do("recheck")>>
  ELSE When(Mentions(items, "index"), "index") \o When(MentionsCommit(items), "refs") \o <<Do("objects")>>

\* batch_pass
PassSteps(items) == When(Mentions(items, "index"), "index") \o EachItem("look", items)

Steps(kind, items, fast) ==
  CASE kind = "metadata" -> <<Do("scope")>> \o SnapshotSteps(items, fast) \o <<Do("again")>>
                              \o SnapshotSteps(items, fast) \o <<Do("compare"), Do("scope")>>
    [] kind = "verified" -> <<Do("scope")>> \o SnapshotSteps(items, fast) \o <<Do("content"), Do("again")>>
                              \o SnapshotSteps(items, fast) \o <<Do("compare"), Do("scope")>>
    [] kind = "batch" -> <<Do("scope")>> \o PassSteps(items) \o <<Do("again")>>
                              \o PassSteps(items) \o <<Do("scope"), Do("merge")>>
    [] kind = "single" -> <<Do("scope")>> \o PassSteps(items) \o <<Do("scope"), Do("first"), Do("again")>>
                              \o PassSteps(items) \o <<Do("second")>>

NoPass(n) == [config |-> None, replacements |-> None, head |-> None, index |-> None, refs |-> {},
              results |-> [i \in 1..n |-> None]]

-----------------------------------------------------------------------------
(* One step of a reader: job [kind, items, todo, pass, first, shown,       *)
(* reply] to job.                                                          *)

End(job, code, answer) == [job EXCEPT !.todo = <<>>, !.reply = [code |-> code, answer |-> answer]]
Stale(job) == End(job, "stale_target", None)
Fails(job) == End(job, "repository_error", None)

Pass(job) == Answer(job.pass.config, job.pass.replacements, job.pass.results)
Ok(job, answer) == End(job, "ok", answer)

\* check_scope; RepositoryIdentity::read
Scope(job) ==
  IF disk.place # 0 THEN Stale(job)
  ELSE IF Len(job.todo) > 1 THEN job
  ELSE Ok(job, IF job.kind = "verified" THEN job.shown ELSE Pass(job))

\* The references of the request that name an object: batch_objects.
Refs(job) == [job EXCEPT !.pass.refs = disk.lost]

\* CatFile::query and the match on it in mode_results.
Queried(item, pass, d) ==
  LET none == RefError(item, pass.head, pass.refs)
      e == EntryAt(item, pass.head, d.index)
  IN IF none # None THEN none
     ELSE IF e = None \/ e \in d.lost \/ (item.ref # "index" /\ Referred(item, pass.head) \in d.lost) THEN Absent
     ELSE Described(item, e, pass.head, d)

Query(job, i) == [job EXCEPT !.pass.results[i] = Queried(job.items[i], job.pass, disk)]

\* An object that was missing is looked for among the entries: if one names it,
\* the repository moved, or the object is gone.
Recheck(job) ==
  LET missing == {i \in DOMAIN job.items :
                    /\ job.pass.results[i] = Absent
                    /\ RefError(job.items[i], job.pass.head, job.pass.refs) = None}
  IN IF \E i \in missing : Named(job.items[i]) /\ job.items[i].ref \in disk.lost THEN Fails(job)
     ELSE IF \E i \in missing : EntryAt(job.items[i], job.pass.head, disk.index) # None THEN Stale(job)
     ELSE job

\* canonical_results, from the entries on.
Canonical(item, pass, d) ==
  LET none == RefError(item, pass.head, pass.refs)
      e == EntryAt(item, pass.head, pass.index)
  IN IF none # None THEN none
     ELSE IF e = None THEN Absent
     ELSE IF e \in d.lost THEN Broken
     ELSE Described(item, e, pass.head, d)

Objects(job) ==
  LET results == [i \in DOMAIN job.items |-> Canonical(job.items[i], job.pass, disk)]
  IN IF \E i \in DOMAIN job.items : results[i] = Broken THEN Stale(job)
     ELSE [job EXCEPT !.pass.results = results]

\* blob_value: every item resolves HEAD for itself, an index item is looked up in
\* the index of the pass; replacements do not apply.
Looked(item, index, d) ==
  LET none == RefError(item, d.head, d.lost)
      e == EntryAt(item, d.head, index)
  IN IF none # None THEN none
     ELSE IF e = None THEN Absent
     ELSE IF e \in d.lost THEN Broken
     ELSE Described(item, e, d.head, [d EXCEPT !.replacements = 0])

Look(job, i) == [job EXCEPT !.pass.results[i] = Looked(job.items[i], job.pass.index, disk)]

\* git show --textconv of the pinned reference, streamed to the client.
Content(job) ==
  LET item == job.items[1]
      told == job.pass.results[1]
      head == IF item.ref = "HEAD" THEN told.head ELSE None
      now == Truth(item, [disk EXCEPT !.head = head])
  IN IF ~IsValue(told) THEN End(job, told.error, Pass(job))
     ELSE IF ~IsValue(now) THEN Fails(job)
     ELSE [job EXCEPT !.shown = Answer(disk.config, disk.replacements, <<now>>)]

\* Only the settings of the two snapshots are compared.
MutantSame(a, b) == a.config = b.config /\ a.replacements = b.replacements

\* Two snapshots agree.
Same(a, b) == a = b

Compare(job) == IF Same(Pass(job), job.first) THEN job ELSE Stale(job)

\* batch_result
Merged(a, b) ==
  IF a = b THEN a
  ELSE LET wrong(r) == ~IsValue(r) /\ r # Absent
       IN IF wrong(a) THEN a ELSE IF wrong(b) THEN b ELSE Failed("stale_target")

Merge(job) ==
  Ok(job, Answer(None, None, [i \in DOMAIN job.items |-> Merged(job.first.results[i], job.pass.results[i])]))

\* metadata: an error of the first look is the answer.
First(job) ==
  LET told == job.pass.results[1] IN
  IF IsValue(told) THEN job ELSE End(job, told.error, Pass(job))

Second(job) ==
  LET told == job.pass.results[1] IN
  IF told = job.first.results[1] THEN Ok(job, Pass(job))
  ELSE IF IsValue(told) \/ told = Absent THEN Stale(job)
  ELSE End(job, told.error, Pass(job))

Advanced(job, step) ==
  CASE step[1] = "scope" -> Scope(job)
    [] step[1] = "config" -> [job EXCEPT !.pass.config = disk.config]
    [] step[1] = "replacements" -> [job EXCEPT !.pass.replacements = disk.replacements]
    [] step[1] = "head" -> [job EXCEPT !.pass.head = disk.head]
    [] step[1] = "index" -> [job EXCEPT !.pass.index = disk.index]
    [] step[1] = "refs" -> Refs(job)
    [] step[1] = "query" -> Query(job, step[2])
    [] step[1] = "recheck" -> Recheck(job)
    [] step[1] = "objects" -> Objects(job)
    [] step[1] = "look" -> Look(job, step[2])
    [] step[1] = "content" -> Content(job)
    [] step[1] = "again" -> [job EXCEPT !.first = Pass(job), !.pass = NoPass(Len(job.items))]
    [] step[1] = "compare" -> Compare(job)
    [] step[1] = "merge" -> Merge(job)
    [] step[1] = "first" -> First(job)
    [] step[1] = "second" -> Second(job)

-----------------------------------------------------------------------------
ReadInit ==
  /\ \E head \in {None, Commits[1]}, p \in Paths, used \in {0, 1} :
       disk = [head |-> head, index |-> [q \in Paths |-> IF q = p /\ used = 1 THEN Staged[1] ELSE None],
               lost |-> {}, used |-> used, config |-> 0, replacements |-> 0, place |-> 0]
  /\ written = 0
  /\ asked = None
  /\ heard = {}

\* A client asks.
Ask(kind, items, fast) ==
  /\ asked = None
  /\ kind \in {"verified", "single"} => Len(items) = 1
  /\ kind \in {"batch", "single"} => fast
  /\ asked' = [kind |-> kind, items |-> items, todo |-> Steps(kind, items, fast), pass |-> NoPass(Len(items)),
               first |-> None, shown |-> None, reply |-> None]
  /\ heard' = {TruthNow(items, disk)}
  /\ UNCHANGED <<disk, written>>

\* The reader takes its next step.
Step ==
  /\ asked # None
  /\ asked.todo # <<>>
  /\ LET job == Advanced(asked, Head(asked.todo)) IN
     asked' = IF job.todo = <<>> THEN job ELSE [job EXCEPT !.todo = Tail(@)]
  /\ UNCHANGED <<disk, written, heard>>

\* A Git command fails, or its output is refused.
GitFails ==
  /\ asked # None
  /\ asked.todo # <<>>
  /\ asked' = Fails(asked)
  /\ UNCHANGED <<disk, written, heard>>

\* Git, a user or another program changes the repository.
Write ==
  /\ written < MaxWrites
  /\ asked # None
  /\ asked.todo # <<>>
  /\ written' = written + 1
  /\ \/ \E i \in DOMAIN Commits :
          /\ IF disk.head = None THEN i = 1 ELSE i > 1 /\ Commits[i - 1] = disk.head
          /\ disk' = [disk EXCEPT !.head = Commits[i]]
     \/ \E p \in Paths :
          /\ disk.used < Len(Staged)
          /\ disk' = [disk EXCEPT !.index[p] = Staged[disk.used + 1], !.used = @ + 1]
     \/ \E p \in Paths : disk.index[p] # None /\ disk' = [disk EXCEPT !.index[p] = None]
     \/ \E o \in Losable \ disk.lost : disk' = [disk EXCEPT !.lost = @ \cup {o}]
     \/ \E s \in Settings : disk[s] = 0 /\ disk' = [disk EXCEPT ![s] = 1]
  /\ heard' = heard \cup {TruthNow(asked.items, disk')}
  /\ UNCHANGED asked

ReadNext ==
  \/ \E kind \in {"metadata", "verified", "batch", "single"}, items \in Requests, fast \in BOOLEAN :
       Ask(kind, items, fast)
  \/ Step
  \/ GitFails
  \/ Write

ReadSpec == ReadInit /\ [][ReadNext]_readVars

-----------------------------------------------------------------------------
(* Properties.                                                             *)

ReadTypeOK ==
  /\ disk.head \in {None} \cup {Commits[i] : i \in DOMAIN Commits}
  /\ disk.index \in [Paths -> {None} \cup {Staged[i] : i \in DOMAIN Staged}]
  /\ disk.lost \subseteq Losable
  /\ disk.used \in 0..Len(Staged)
  /\ \A s \in Settings : disk[s] \in 0..1
  /\ written \in 0..MaxWrites
  /\ asked # None => /\ asked.items \in Requests
                     /\ asked.reply # None => asked.todo = <<>>

SameFile(told, true) == IsValue(true) /\ told.oid = true.oid /\ told.head = true.head

\* What one item is told was so at some instant; a failure says nothing of it.
WasSo(i, told) ==
  told \in {Broken, Failed("stale_target")} \/
  \E truth \in heard \ {Replaced} :
    IF IsValue(told) THEN SameFile(told, truth.results[i]) ELSE told = truth.results[i]

\* The settings of an answer and what it says of the items S were so at one instant.
Together(answer, S) ==
  \E truth \in heard \ {Replaced} :
    /\ truth.config = answer.config /\ truth.replacements = answer.replacements
    /\ \A i \in S : truth.results[i] = answer.results[i]

Replied == IF asked = None THEN FALSE ELSE IF asked.reply = None THEN FALSE ELSE asked.reply.answer # None

\* An answer a client is given was true at one instant of its request: the
\* metadata that was found together with what the index lacks and the
\* configuration it is read under, all that is said of HEAD, the content that
\* was streamed, the values of a batch together, and every error that says what
\* is not there (of whatever repository is at the path by then: the verified
\* and the single reader return it before they look at the identity again);
\* commits, staging, lost objects, edits of the configuration and a replaced
\* repository never mix into one of these.  The errors of a request are not
\* always of one instant: an error names no object, so that two looks that both
\* meet one cannot be told from one (metadata and verified_content in
\* content_worker/metadata.rs; metadata and metadata_batch in changes/blob.rs).
ReadsAreOneState ==
  Replied =>
    LET answer == asked.reply.answer
        told == answer.results
        ok == asked.reply.code = "ok"
        lacks(i) == asked.items[i].ref = "index" /\ told[i] = Absent
    IN /\ ok /\ asked.kind = "verified" => answer \in heard
       /\ ok /\ asked.kind = "metadata" =>
            /\ Together(answer, {i \in DOMAIN told : IsValue(told[i]) \/ lacks(i)})
            /\ Together(answer, {i \in DOMAIN told : asked.items[i].ref = "HEAD"})
            /\ \A i \in DOMAIN told : Together(answer, {i})
       /\ ok /\ asked.kind = "batch" =>
            \E truth \in heard \ {Replaced} :
              \A i \in DOMAIN told : IsValue(told[i]) => SameFile(told[i], truth.results[i])
       /\ (IF ok THEN asked.kind \in {"batch", "single"} ELSE Replaced \notin heard) =>
            \A i \in DOMAIN told : WasSo(i, told[i])
=============================================================================
