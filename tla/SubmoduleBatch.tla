--------------------------- MODULE SubmoduleBatch ---------------------------
(***************************************************************************)
(* The bridge's submodule action (src/bridge/submodule/actions.rs): one git*)
(* command per submodule, depth first, each preceded by a check that the   *)
(* repository, the parent and the entry are still those listed when the    *)
(* parent was entered; `pull_with_submodules' pulls the parent first.  Git *)
(* may fail or be cut off, and other programs change the repositories      *)
(* between any two steps.                                                  *)
(*                                                                         *)
(* Abstractions.  An entry (urls, index and HEAD ids, strategies, remote)  *)
(* is a version and whether the submodule is initialized; heads are        *)
(* versions too.  One check reads everything at once.  Every URL is set,   *)
(* so `sync' skips nothing.  Paths, symlinks and cycles are not modelled.  *)
(***************************************************************************)
EXTENDS Naturals, Sequences, FiniteSets, SequencesExt

CONSTANTS
  Order,          \* the submodules, in path order
  ParentOf,       \* the repository of each: Top or another one
  Top,            \* the repository the action is for
  Listings,       \* which are listed at the start
  Initialized,    \* and initialized
  NoUpdate,       \* configured with update = none
  MaxSubmodules,  \* MAX_SUBMODULES
  MaxMoves        \* bound: changes made by other programs

Subs == Range(Order)

ASSUME BatchAssumption ==
  /\ Order \in Seq(Subs) /\ IsInjective(Order)
  /\ ParentOf \in [Subs -> Subs \cup {Top}] /\ Top \notin Subs
  /\ MaxSubmodules \in Nat /\ MaxMoves \in Nat

VARIABLES
  head,       \* HEAD of the top repository: branch and commit
  subs,       \* of each submodule: listed by its parent, initialized, entry, HEAD
  action,     \* Request::operation
  expected,   \* the head the request, and then the follow-up, is about
  step,
  initial,    \* initial_heads: the children the parent pull may touch
  frames, completed, skipped,
  total,      \* `count': entries listed so far
  late,       \* the deadline has passed
  reply,
  ran,        \* submodules git was run in, with the head last checked
  moves

batchVars == <<head, subs, action, expected, step, initial, frames, completed, skipped, total, late,
               reply, ran, moves>>

Actions == {"sync", "update", "pull_latest", "pull_with_submodules"}
Pulls == action = "pull_with_submodules"
Updates == action \in {"update", "pull_with_submodules"}

-----------------------------------------------------------------------------
(* Reading.                                                                *)

Entry(s) ==
  [sub |-> s, entry |-> subs[s].entry, init |-> subs[s].init,
   head |-> IF subs[s].init /\ action # "sync" THEN subs[s].head ELSE 0,
   skip |-> CASE action = "sync" -> FALSE
              [] Updates -> s \in NoUpdate
              [] OTHER -> ~subs[s].init]

ListedIn(r) ==
  LET first[n \in 0..Len(Order)] ==
        IF n = 0 THEN <<>>
        ELSE IF ParentOf[Order[n]] = r /\ subs[Order[n]].listed THEN Append(first[n - 1], Order[n])
        ELSE first[n - 1]
  IN first[Len(Order)]
Entries(r) == [i \in 1..Len(ListedIn(r)) |-> Entry(ListedIn(r)[i])]

HeadOf(r) == IF r = Top THEN head ELSE subs[r].head

Frame(r) == [repo |-> r, head |-> HeadOf(r), entries |-> Entries(r), index |-> 1]

\* Scope::submodule_repositories: what is initialized all the way down.
Ancestors == [s \in Subs |->
  {a \in Subs : \A C \in SUBSET Subs : s \in C /\ (\A x \in C : ParentOf[x] \in C \cup {Top}) => a \in C}]
Present(s) == subs[s].listed /\ subs[s].init
Descendants == {s \in Subs : \A a \in Ancestors[s] : Present(a)}

-----------------------------------------------------------------------------
(* Answering.                                                              *)

Reply(code) ==
  /\ reply' = code /\ step' = "end"
  /\ UNCHANGED <<initial, frames, completed, skipped, total>>

\* An error after the parent's pull is passed on as it is.
MutantFailure(code) ==
  Reply(IF code = "outcome_unknown" \/ Pulls THEN code
        ELSE IF completed # <<>> \/ skipped # <<>> THEN "partial_failure"
        ELSE code)

\* failure, and the wrapping of everything that follows the parent's pull.
Failure(code) ==
  Reply(IF code = "outcome_unknown" THEN code
        ELSE IF Pulls \/ completed # <<>> \/ skipped # <<>> THEN "partial_failure"
        ELSE code)

\* run_batch_scoped up to its loop.
Open(r) ==
  IF Len(Entries(r)) > MaxSubmodules THEN Failure("invalid_request")
  ELSE /\ frames' = <<Frame(r)>> /\ total' = Len(Entries(r)) /\ step' = "check"
       /\ UNCHANGED <<completed, skipped, reply>>

-----------------------------------------------------------------------------
(* The steps of one action.                                                *)

BatchInit ==
  /\ head = [branch |-> 0, oid |-> 0]
  /\ \E L \in Listings :
       subs = [s \in Subs |-> [listed |-> s \in L, init |-> s \in Initialized, entry |-> 0, head |-> 0]]
  /\ action \in Actions
  /\ expected = head /\ step = "start" /\ initial = <<>> /\ frames = <<>>
  /\ completed = <<>> /\ skipped = <<>> /\ total = 0 /\ late = FALSE
  /\ reply = "" /\ ran = <<>> /\ moves = 0

Start ==
  /\ step = "start"
  /\ IF head # expected THEN Reply("stale_target")
     ELSE IF ~Pulls THEN Open(Top) /\ UNCHANGED initial
     ELSE IF Cardinality(Descendants) > MaxSubmodules THEN Reply("invalid_request")
     ELSE /\ initial' = [s \in Descendants |-> subs[s].head]
          /\ step' = "pull"
          /\ UNCHANGED <<frames, completed, skipped, total, reply>>
  /\ UNCHANGED <<head, subs, action, expected, late, ran, moves>>

\* The outcomes of a command: it never started, it was cut off, it failed.
GitStops == \E code \in {"git_error", "outcome_unknown"} : Failure(code)

ParentPull ==
  /\ step = "pull"
  /\ UNCHANGED <<action, expected, late, moves>>
  /\ \/ /\ head # expected /\ Reply("stale_target") /\ UNCHANGED <<head, subs, ran>>
     \/ /\ head = expected /\ late /\ Reply("timeout") /\ UNCHANGED <<head, subs, ran>>
     \/ /\ head = expected /\ ~late
        /\ ran' = Append(ran, [sub |-> Top, head |-> 0])
        /\ \/ /\ \E code \in {"git_error", "outcome_unknown"} : Reply(code)
              /\ UNCHANGED <<head, subs>>
           \/ \* it moves HEAD; one entry may change with it
              /\ head' = [head EXCEPT !.oid = @ + 1]
              /\ \/ UNCHANGED subs
                 \/ \E s \in Subs : subs' = [subs EXCEPT ![s].entry = @ + 1]
                 \/ \E s \in Subs : subs' = [subs EXCEPT ![s].listed = ~@]
              /\ step' = "pulled"
              /\ UNCHANGED <<initial, frames, completed, skipped, total, reply>>

FollowUp ==
  /\ step = "pulled"
  /\ IF head.branch # expected.branch
     THEN Failure("stale_target") /\ UNCHANGED expected
     ELSE expected' = head /\ Open(Top) /\ UNCHANGED initial
  /\ UNCHANGED <<head, subs, action, late, ran, moves>>

TopFrame == Last(frames)
AtEntry == TopFrame.entries[TopFrame.index]
MovedOn == [frames EXCEPT ![Len(frames)].index = @ + 1]

\* Still the repository, the parent and the entry that were listed?
Unchanged ==
  /\ head = expected
  /\ HeadOf(TopFrame.repo) = TopFrame.head
  /\ ListedIn(TopFrame.repo) = [i \in 1..Len(TopFrame.entries) |-> TopFrame.entries[i].sub]
  /\ Entry(AtEntry.sub) = AtEntry

\* The heads recorded before the pull are not compared.
MutantMoved(e) == FALSE

\* A child the parent pull found already there, at the head it had then?
Moved(e) == e.sub \in DOMAIN initial /\ initial[e.sub] # e.head
Skips(e) == (Pulls /\ (~e.init \/ e.sub \notin DOMAIN initial)) \/ e.skip

Check ==
  /\ step = "check" /\ frames # <<>> /\ TopFrame.index <= Len(TopFrame.entries)
  /\ IF ~Unchanged \/ (Pulls /\ AtEntry.init /\ Moved(AtEntry))
     THEN Failure("stale_target")
     ELSE IF Skips(AtEntry)
     THEN /\ skipped' = Append(skipped, AtEntry.sub) /\ frames' = MovedOn
          /\ UNCHANGED <<step, initial, completed, total, reply>>
     ELSE IF late THEN Failure("timeout")
     ELSE step' = "git" /\ UNCHANGED <<initial, frames, completed, skipped, total, reply>>
  /\ UNCHANGED <<head, subs, action, expected, late, ran, moves>>

RunSubmoduleGit ==
  /\ step = "git"
  /\ ran' = Append(ran, [sub |-> AtEntry.sub, head |-> AtEntry.head])
  /\ \/ GitStops /\ UNCHANGED subs
     \/ \* the checkout is gone by the time the follow-up looks at it
        /\ Pulls /\ ~subs[AtEntry.sub].init /\ Failure("stale_target") /\ UNCHANGED subs
     \/ /\ subs' = [subs EXCEPT ![AtEntry.sub].init = @ \/ (action = "update"),
                                ![AtEntry.sub].head = IF action = "sync" THEN @ ELSE @ + 1]
        /\ completed' = Append(completed, AtEntry.sub)
        /\ step' = IF Updates THEN "nest" ELSE "check"
        /\ frames' = IF Updates THEN frames ELSE MovedOn
        /\ UNCHANGED <<initial, skipped, total, reply>>
  /\ UNCHANGED <<head, action, expected, late, moves>>

\* An updated submodule's own submodules come next.
Nest ==
  /\ step = "nest"
  /\ LET c == AtEntry.sub
         n == Len(Entries(c)) IN
     IF late THEN Failure("timeout")
     ELSE IF ~subs[c].init THEN Failure("repository_error")
     ELSE IF total + n > MaxSubmodules THEN Failure("invalid_request")
     ELSE /\ frames' = Append(MovedOn, Frame(c)) /\ total' = total + n /\ step' = "check"
          /\ UNCHANGED <<initial, completed, skipped, reply>>
  /\ UNCHANGED <<head, subs, action, expected, late, ran, moves>>

Leave ==
  /\ step = "check" /\ frames # <<>> /\ TopFrame.index > Len(TopFrame.entries)
  /\ frames' = Front(frames)
  /\ UNCHANGED <<head, subs, action, expected, step, initial, completed, skipped, total, late, reply,
                 ran, moves>>

\* Children the follow-up never reached are reported as skipped.
Unreached == DOMAIN initial \ (Range(completed) \cup Range(skipped))

Finish ==
  /\ step = "check" /\ frames = <<>>
  /\ step' = "end"
  /\ IF Pulls /\ Len(completed) + Len(skipped) + Cardinality(Unreached) > MaxSubmodules
     THEN reply' = "partial_failure" /\ UNCHANGED skipped
     ELSE reply' = "ok" /\ skipped' = skipped \o SetToSeq(Unreached)
  /\ UNCHANGED <<head, subs, action, expected, initial, frames, completed, total, late, ran, moves>>

-----------------------------------------------------------------------------
\* Somebody else commits, checks out, edits .gitmodules or removes a checkout.
Move ==
  /\ step # "end" /\ moves < MaxMoves /\ moves' = moves + 1
  /\ \/ \E f \in {"branch", "oid"} : head' = [head EXCEPT ![f] = @ + 1] /\ UNCHANGED subs
     \/ \E s \in Subs :
          /\ \/ subs' = [subs EXCEPT ![s].entry = @ + 1]
             \/ subs' = [subs EXCEPT ![s].head = @ + 1]
             \/ subs' = [subs EXCEPT ![s].listed = ~@]
             \/ subs' = [subs EXCEPT ![s].init = FALSE]
          /\ UNCHANGED head
  /\ UNCHANGED <<action, expected, step, initial, frames, completed, skipped, total, late, reply, ran>>

Deadline ==
  /\ step # "end" /\ ~late /\ late' = TRUE
  /\ UNCHANGED <<head, subs, action, expected, step, initial, frames, completed, skipped, total, reply,
                 ran, moves>>

BatchNext ==
  \/ Start \/ ParentPull \/ FollowUp \/ Check \/ RunSubmoduleGit \/ Nest \/ Leave \/ Finish
  \/ Move \/ Deadline

BatchSpec == BatchInit /\ [][BatchNext]_batchVars

-----------------------------------------------------------------------------
Heads == [branch : Nat, oid : Nat]

BatchTypeOK ==
  /\ head \in Heads /\ expected \in Heads
  /\ subs \in [Subs -> [listed : BOOLEAN, init : BOOLEAN, entry : Nat, head : Nat]]
  /\ action \in Actions
  /\ step \in {"start", "pull", "pulled", "check", "git", "nest", "end"}
  /\ DOMAIN initial \subseteq Subs
  /\ completed \in Seq(Subs) /\ skipped \in Seq(Subs) /\ total \in 0..Len(Order)
  /\ late \in BOOLEAN /\ moves \in 0..MaxMoves
  /\ reply \in {"", "ok", "stale_target", "invalid_request", "repository_error", "timeout",
                "git_error", "outcome_unknown", "partial_failure"}

\* The submodules git ran in.
TouchedSubs == {ran[i].sub : i \in DOMAIN ran} \ {Top}

\* The answer says what happened.  A success names each submodule once: the
\* completed ones are those git ran in, and every child the pull knew of and
\* every submodule of a completed one is there.  An error that promises
\* nothing was done follows no git command.
BatchReport ==
  /\ reply = "ok" =>
       /\ IsInjective(completed \o skipped)
       /\ Range(completed) = TouchedSubs
       /\ DOMAIN initial \subseteq Range(completed \o skipped)
       /\ Updates /\ moves = 0 =>
            \A s \in Subs : subs[s].listed /\ ParentOf[s] \in Range(completed) \cup {Top}
                              => s \in Range(completed \o skipped)
  /\ reply \in {"stale_target", "invalid_request", "repository_error", "timeout"} => ran = <<>>

\* Pulling a repository touches only submodules that were checked out when
\* the user asked, and only at the commit they were at then: it clones
\* nothing and never moves work done meanwhile.
PullTouchesKnown ==
  Pulls => \A i \in DOMAIN ran :
             ran[i].sub # Top => ran[i].sub \in DOMAIN initial /\ ran[i].head = initial[ran[i].sub]

\* A batch tells what it did, and touches nothing else than what it may
\* (src/bridge/submodule/actions.rs).
BatchIsTold == BatchReport /\ PullTouchesKnown
=============================================================================
