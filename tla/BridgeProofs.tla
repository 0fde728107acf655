------------------------------ MODULE BridgeProofs ------------------------------
(***************************************************************************)
(* Proofs about four parts of the bridge that share no state.  A content   *)
(* request leaves no process behind (ContentWorker), for any number of Git *)
(* processes and wherever the supervisor is killed.  A launch makes what   *)
(* was chosen and tells what it made (MuxLaunch), for any number of        *)
(* changes by other programs and any depth of processes.  A mutation acts  *)
(* on what its user confirmed (BridgeMutation), for any number of changes  *)
(* by other programs and anything a client may write to the process.  A    *)
(* batch over submodules tells what it did with each (SubmoduleBatch), for *)
(* any tree of submodules and any number of moves while it works.          *)
(***************************************************************************)
EXTENDS ContentWorker, MuxLaunch, BridgeMutation, SubmoduleBatch, SequenceTheorems, FiniteSetTheorems, WellFoundedInduction, TLAPS

-----------------------------------------------------------------------------
(* The processes of a content request (ContentWorker).                     *)

(* Where the executor can be while the supervisor goes through its steps.  *)
InStepWith ==
  /\ supervisor \in {"reading", "guarded"} => executor = "none"
  /\ supervisor = "forking" => executor \in {"forked", "joined", "gated", "dead"}
  /\ supervisor = "gate" => executor \in {"gated", "dead"}
  /\ supervisor = "running" => executor \in {"working", "dead"}

(* Git runs only in an executor that was let go, or that has ended since.  *)
GitsAreOfExecutor == executor \notin {"working", "dead"} => working = 0

(* The guardian outlives the supervisor, and what it kills stays dead.     *)
GuardianIsLast == guardian = "dead" => Gone /\ Nothing

(* Without a guardian nothing was started.                                 *)
GuardianIsFirst ==
  guardian = "none" => executor = "none" /\ supervisor \in {"reading", "returned", "dead"}

(* The reply is the supervisor's last word, and an answer, or the word of  *)
(* a cancellation, follows the signal to the group.                        *)
ReplyIsLast ==
  /\ told # "none" => supervisor = "returned"
  /\ told \in {"ok", "cancelled"} => guardian = "dead"

WorkerInv ==
  /\ WorkerTypeOK /\ InStepWith /\ GitsAreOfExecutor
  /\ GuardianIsFirst /\ GuardianIsLast /\ ReplyIsLast

(* Before the guardian is started nothing runs.                           *)
LEMMA WorkerInitInv == WorkerInit => WorkerInv
BY GitsAssumption
   DEF WorkerInit, WorkerInv, WorkerTypeOK, InStepWith, GitsAreOfExecutor, GuardianIsFirst, GuardianIsLast,
       ReplyIsLast, Gone, Nothing

(* The signal reaches everything, unless a child is still outside.         *)
LEMMA KilledIsNothing ==
  ASSUME WorkerInv, KillGroup, executor \notin {"forked", "joined"}
  PROVE  /\ executor' \in {"none", "dead"} /\ working' = 0 /\ guardian' = "dead"
         /\ executor # "none" => executor' = "dead"
         /\ executor = "none" => executor' = "none"
<1>1. CASE InGroup
  BY <1>1 DEF KillGroup, InGroup
<1>2. CASE ~InGroup
  BY <1>2 DEF KillGroup, InGroup, WorkerInv, WorkerTypeOK, GitsAreOfExecutor
<1> QED BY <1>1, <1>2

(* Every step of the worker, the client or the machine keeps the invariant.*)
LEMMA WorkerStepInv == WorkerInv /\ [WorkerNext]_workerVars => WorkerInv'
<1> SUFFICES ASSUME WorkerInv, [WorkerNext]_workerVars PROVE WorkerInv'
  OBVIOUS
<1> USE GitsAssumption
    DEF WorkerInv, WorkerTypeOK, InStepWith, GitsAreOfExecutor, GuardianIsFirst, GuardianIsLast,
        ReplyIsLast, Gone, Nothing
<1>1. CASE StartGuardian
  BY <1>1 DEF StartGuardian
<1>2. CASE ForkExecutor
  BY <1>2 DEF ForkExecutor
<1>3. CASE Spawned
  BY <1>3 DEF Spawned
<1>4. CASE OpenGate
  BY <1>4 DEF OpenGate
<1>5. CASE SeesExit
  BY <1>5, KilledIsNothing DEF SeesExit
<1>6. CASE JoinGroup
  BY <1>6 DEF JoinGroup
<1>7. CASE ExecuteExecutor
  BY <1>7 DEF ExecuteExecutor
<1>8. CASE GateCloses
  BY <1>8 DEF GateCloses
<1>9. CASE StartGit
  BY <1>9 DEF StartGit
<1>10. CASE GitEnds
  BY <1>10 DEF GitEnds
<1>11. CASE ExecutorEnds
  BY <1>11 DEF ExecutorEnds
<1>12. CASE Cancels
  BY <1>12, KilledIsNothing DEF Cancels
<1>13. CASE GivesUp
  BY <1>13 DEF GivesUp
<1>14. CASE Killed
  BY <1>14 DEF Killed
<1>15. CASE ClientLeaves
  BY <1>15 DEF ClientLeaves
<1>16. CASE GuardianWakes
  BY <1>16, KilledIsNothing DEF GuardianWakes
<1>17. CASE UNCHANGED workerVars
  BY <1>17 DEF workerVars
<1> QED
  BY <1>1, <1>2, <1>3, <1>4, <1>5, <1>6, <1>7, <1>8, <1>9, <1>10, <1>11, <1>12, <1>13, <1>14,
     <1>15, <1>16, <1>17 DEF WorkerNext, Supervises, Executes

(* The invariant holds throughout.                                         *)
THEOREM WorkerInvHolds == WorkerSpec => []WorkerInv
<1>1. WorkerInit => WorkerInv
  BY WorkerInitInv
<1>2. WorkerInv /\ [WorkerNext]_workerVars => WorkerInv'
  BY WorkerStepInv
<1> QED BY <1>1, <1>2, PTL DEF WorkerSpec

(* The processes and the reply keep their types (the state of supervise).  *)
THEOREM WorkerTypeCorrect == WorkerSpec => []WorkerTypeOK
<1>1. WorkerInv => WorkerTypeOK
  BY DEF WorkerInv
<1> QED BY <1>1, WorkerInvHolds, PTL

(* Where a request was answered or cancelled nothing of it runs, and where *)
(* its supervisor gave up or was killed, at whichever step, nothing runs   *)
(* or the guardian still waits (supervise, cleanup_guardian, guard).       *)
THEOREM NothingIsLeft == WorkerSpec => []WorkerLeavesNothing
<1>1. WorkerInv => WorkerLeavesNothing
  BY DEF WorkerInv, WorkerTypeOK, GitsAreOfExecutor, GuardianIsFirst, GuardianIsLast, ReplyIsLast,
         WorkerLeavesNothing, Nothing
<1> QED BY <1>1, WorkerInvHolds, PTL

-----------------------------------------------------------------------------
(* Launches (MuxLaunch).  The steps of a request to execute, written out.  *)

StepNames ==
  {"repo", "launcher", "choice", "layout", "create", "response", "tab", "id", "run", "unsupported"}

(* u is the n words of s, and then the m words of t.                       *)
Joins(s, t, u, n, m) ==
  /\ s \in Seq(StepNames) /\ t \in Seq(StepNames) /\ u \in Seq(StepNames)
  /\ n \in Nat /\ m \in Nat /\ Len(s) = n /\ Len(t) = m /\ Len(u) = n + m
  /\ \A i \in 1..n : u[i] = s[i]
  /\ \A i \in 1..m : u[n + i] = t[i]

LEMMA JoinedIs ==
  ASSUME NEW s, NEW t, NEW u, NEW n, NEW m, Joins(s, t, u, n, m)
  PROVE  s \o t = u
<1> USE DEF Joins
<1>1. /\ s \o t \in Seq(StepNames) /\ Len(s \o t) = n + m
      /\ \A i \in 1..(n + m) : (s \o t)[i] = IF i <= n THEN s[i] ELSE t[i - n]
  BY ConcatProperties
<1>2. ASSUME NEW i \in 1..Len(u) PROVE u[i] = (s \o t)[i]
  <2>1. CASE i <= n
    BY <1>1, <2>1
  <2>2. CASE ~(i <= n)
    <3>1. i - n \in 1..m /\ n + (i - n) = i
      BY <1>1, <2>2
    <3>2. u[n + (i - n)] = t[i - n]
      BY <3>1
    <3> QED BY <1>1, <2>2, <3>1, <3>2
  <2> QED BY <2>1, <2>2
<1> QED BY <1>1, <1>2, SeqEqual

BeforeCreate  == <<"repo", "launcher", "choice", "repo", "launcher">>
ToTab   == <<"repo", "launcher", "choice", "tab", "launcher", "choice">>
ToType  == <<"id", "repo", "launcher", "choice", "run">>
CreateOnly == <<"create">>
CreateInTab   == <<"create", "repo", "launcher", "choice", "tab", "launcher", "choice">>
CreateAndType   == <<"create", "id", "repo", "launcher", "choice", "run">>
CreateInTabAndType == <<"create", "repo", "launcher", "choice", "tab", "launcher", "choice",
                "id", "repo", "launcher", "choice", "run">>
Desktop     == <<"layout", "create", "response">>
Unsupported == <<"unsupported">>

LEMMA PrefixIs == Checks \o <<"repo", "launcher">> = BeforeCreate
<1>1. Joins(Checks, <<"repo", "launcher">>, BeforeCreate, 3, 2)
  BY DEF Joins, Checks, BeforeCreate, StepNames
<1> QED BY <1>1, JoinedIs

LEMMA ToTabIs == Checks \o <<"tab", "launcher", "choice">> = ToTab
<1>1. Joins(Checks, <<"tab", "launcher", "choice">>, ToTab, 3, 3)
  BY DEF Joins, Checks, ToTab, StepNames
<1> QED BY <1>1, JoinedIs

LEMMA ToTypeIs == BeforeRun \o <<"run">> = ToType
<1>1. Joins(BeforeRun, <<"run">>, ToType, 4, 1)
  BY DEF Joins, BeforeRun, ToType, StepNames
<1> QED BY <1>1, JoinedIs

LEMMA HerdrIs ==
  /\ CreateOnly \o <<>> = CreateOnly
  /\ CreateOnly \o ToTab = CreateInTab /\ CreateOnly \o ToType = CreateAndType
  /\ CreateInTab \o <<>> = CreateInTab /\ CreateInTab \o ToType = CreateInTabAndType
<1>1. Joins(CreateOnly, <<>>, CreateOnly, 1, 0)
  BY DEF Joins, CreateOnly, StepNames
<1>2. Joins(CreateOnly, ToTab, CreateInTab, 1, 6)
  BY DEF Joins, CreateOnly, ToTab, CreateInTab, StepNames
<1>3. Joins(CreateOnly, ToType, CreateAndType, 1, 5)
  BY DEF Joins, CreateOnly, ToType, CreateAndType, StepNames
<1>4. Joins(CreateInTab, <<>>, CreateInTab, 7, 0)
  BY DEF Joins, CreateInTab, StepNames
<1>5. Joins(CreateInTab, ToType, CreateInTabAndType, 7, 5)
  BY DEF Joins, CreateInTab, ToType, CreateInTabAndType, StepNames
<1> QED BY <1>1, <1>2, <1>3, <1>4, <1>5, JoinedIs

LEMMA ExecutedIs ==
  ASSUME NEW r
  PROVE  /\ r.plan = "spawn" => Executed(r) = CreateOnly
         /\ r.plan = "desktop" => Executed(r) = Desktop
         /\ r.plan = "herdr" =>
              Executed(r) = IF r.choice = "tab" THEN IF r.command THEN CreateInTabAndType ELSE CreateInTab
                            ELSE IF r.command THEN CreateAndType ELSE CreateOnly
         /\ r.plan \notin {"spawn", "desktop", "herdr"} => Executed(r) = Unsupported
<1>1. r.plan = "herdr" =>
        Executed(r) = (CreateOnly \o (IF r.choice = "tab" THEN Checks \o <<"tab", "launcher", "choice">>
                                      ELSE <<>>))
                      \o (IF r.command THEN BeforeRun \o <<"run">> ELSE <<>>)
  BY DEF Executed, CreateOnly
<1>2. r.plan = "herdr" =>
        Executed(r) = IF r.choice = "tab" THEN IF r.command THEN CreateInTabAndType ELSE CreateInTab
                      ELSE IF r.command THEN CreateAndType ELSE CreateOnly
  BY <1>1, ToTabIs, ToTypeIs, HerdrIs
<1>3. /\ r.plan = "spawn" => Executed(r) = CreateOnly
      /\ r.plan = "desktop" => Executed(r) = Desktop
      /\ r.plan \notin {"spawn", "desktop", "herdr"} => Executed(r) = Unsupported
  BY DEF Executed, CreateOnly, Desktop, Unsupported
<1> QED BY <1>2, <1>3

(* What matters of them: everything is checked before the only creation,   *)
(* and again between it and the command.                                   *)
WellOrdered(s, types) ==
  /\ Len(s) \in Nat /\ Len(s) > 5
  /\ s[1] = "repo" /\ s[2] = "launcher" /\ s[3] = "choice"
  /\ \A n \in 1..Len(s) : s[n] \in StepNames
  /\ \A n \in 1..Len(s) : s[n] = "create" => n > 5 /\ \A m \in 1..Len(s) : s[m] = "create" => m = n
  /\ \A n \in 1..Len(s) : s[n] = "run" =>
       /\ types /\ n = Len(s) /\ n > 10
       /\ s[n - 3] = "repo" /\ s[n - 2] = "launcher" /\ s[n - 1] = "choice"
       /\ \E c \in 1..(n - 4) : s[c] = "create"
  /\ types => s[Len(s)] = "run"
  /\ \E n \in 1..Len(s) : s[n] \in {"create", "unsupported"}

LEMMA Flat ==
  /\ WellOrdered(BeforeCreate \o CreateOnly, FALSE) /\ WellOrdered(BeforeCreate \o Desktop, FALSE)
  /\ WellOrdered(BeforeCreate \o CreateInTab, FALSE) /\ WellOrdered(BeforeCreate \o CreateAndType, TRUE)
  /\ WellOrdered(BeforeCreate \o CreateInTabAndType, TRUE) /\ WellOrdered(BeforeCreate \o Unsupported, FALSE)
<1>1. WellOrdered(BeforeCreate \o CreateOnly, FALSE)
  <2> DEFINE u == <<"repo", "launcher", "choice", "repo", "launcher", "create">>
  <2>1. Joins(BeforeCreate, CreateOnly, u, 5, 1)
    BY DEF Joins, BeforeCreate, CreateOnly, StepNames
  <2>2. WellOrdered(u, FALSE)
    BY DEF WellOrdered, StepNames
  <2> QED BY <2>1, <2>2, JoinedIs
<1>2. WellOrdered(BeforeCreate \o Desktop, FALSE)
  <2> DEFINE u == <<"repo", "launcher", "choice", "repo", "launcher", "layout", "create", "response">>
  <2>1. Joins(BeforeCreate, Desktop, u, 5, 3)
    BY DEF Joins, BeforeCreate, Desktop, StepNames
  <2>2. WellOrdered(u, FALSE)
    BY DEF WellOrdered, StepNames
  <2> QED BY <2>1, <2>2, JoinedIs
<1>3. WellOrdered(BeforeCreate \o CreateInTab, FALSE)
  <2> DEFINE u == <<"repo", "launcher", "choice", "repo", "launcher", "create",
                    "repo", "launcher", "choice", "tab", "launcher", "choice">>
  <2>1. Joins(BeforeCreate, CreateInTab, u, 5, 7)
    BY DEF Joins, BeforeCreate, CreateInTab, StepNames
  <2>2. WellOrdered(u, FALSE)
    BY DEF WellOrdered, StepNames
  <2> QED BY <2>1, <2>2, JoinedIs
<1>4. WellOrdered(BeforeCreate \o CreateAndType, TRUE)
  <2> DEFINE u == <<"repo", "launcher", "choice", "repo", "launcher", "create",
                    "id", "repo", "launcher", "choice", "run">>
  <2>1. Joins(BeforeCreate, CreateAndType, u, 5, 6)
    BY DEF Joins, BeforeCreate, CreateAndType, StepNames
  <2>2. WellOrdered(u, TRUE)
    BY DEF WellOrdered, StepNames
  <2> QED BY <2>1, <2>2, JoinedIs
<1>5. WellOrdered(BeforeCreate \o CreateInTabAndType, TRUE)
  <2> DEFINE u == <<"repo", "launcher", "choice", "repo", "launcher", "create",
                    "repo", "launcher", "choice", "tab", "launcher", "choice",
                    "id", "repo", "launcher", "choice", "run">>
  <2>1. Joins(BeforeCreate, CreateInTabAndType, u, 5, 12)
    BY DEF Joins, BeforeCreate, CreateInTabAndType, StepNames
  <2>2. WellOrdered(u, TRUE)
    BY DEF WellOrdered, StepNames
  <2> QED BY <2>1, <2>2, JoinedIs
<1>6. WellOrdered(BeforeCreate \o Unsupported, FALSE)
  <2> DEFINE u == <<"repo", "launcher", "choice", "repo", "launcher", "unsupported">>
  <2>1. Joins(BeforeCreate, Unsupported, u, 5, 1)
    BY DEF Joins, BeforeCreate, Unsupported, StepNames
  <2>2. WellOrdered(u, FALSE)
    BY DEF WellOrdered, StepNames
  <2> QED BY <2>1, <2>2, JoinedIs
<1> QED BY <1>1, <1>2, <1>3, <1>4, <1>5, <1>6

LEMMA LaunchKinds ==
  ASSUME NEW r \in Launches
  PROVE  /\ r.ask \in {"launchers", "choices", "list", "goto", "execute", "tui"}
         /\ r.command \in BOOLEAN
BY DEF Launches, Asked

LEMMA Ordered ==
  ASSUME NEW r \in Launches, r.ask = "execute"
  PROVE  WellOrdered(LaunchSteps(r), r.plan = "herdr" /\ r.command)
<1>1. r.command \in BOOLEAN
  BY LaunchKinds
<1>2. LaunchSteps(r) = BeforeCreate \o Executed(r)
  BY PrefixIs DEF LaunchSteps
<1>3. CASE r.plan = "herdr" /\ r.command
  <2>1. Executed(r) \in {CreateInTabAndType, CreateAndType}
    BY <1>3, ExecutedIs
  <2>2. WellOrdered(LaunchSteps(r), TRUE)
    BY <1>2, <2>1, Flat
  <2> QED BY <1>3, <2>2
<1>4. CASE ~(r.plan = "herdr" /\ r.command)
  <2>1. Executed(r) \in {CreateOnly, Desktop, CreateInTab, Unsupported}
    BY <1>1, <1>4, ExecutedIs
  <2>2. WellOrdered(LaunchSteps(r), FALSE)
    BY <1>2, <2>1, Flat
  <2> QED BY <1>4, <2>2
<1> QED BY <1>3, <1>4


LEMMA OtherSteps ==
  ASSUME NEW r \in Launches
  PROVE  /\ Len(LaunchSteps(r)) \in Nat
         /\ \A n \in 1..Len(LaunchSteps(r)) :
              /\ LaunchSteps(r)[n] = "focus" => r.ask = "goto" /\ n > 2 /\ LaunchSteps(r)[2] = "session"
              /\ LaunchSteps(r)[n] \in {"look", "menu", "sessions"} => r.ask \notin {"execute", "goto"}
<1>1. CASE r.ask = "execute"
  <2>1. WellOrdered(LaunchSteps(r), r.plan = "herdr" /\ r.command)
    BY <1>1, Ordered
  <2> QED BY <1>1, <2>1 DEF WellOrdered, StepNames
<1>2. CASE r.ask = "tui"
  <2>1. Joins(CreateOnly, <<"id", "run">>, <<"create", "id", "run">>, 1, 2)
    BY DEF Joins, CreateOnly, StepNames
  <2>2. TuiExecuted(r) \in {Desktop, CreateOnly, Unsupported, <<"create", "id", "run">>}
    BY <2>1, JoinedIs, HerdrIs DEF TuiExecuted, Desktop, CreateOnly, Unsupported
  <2>3. \A s \in {Desktop, CreateOnly, Unsupported, <<"create", "id", "run">>} :
          Len(s) \in Nat /\ \A n \in 1..Len(s) : s[n] \notin {"focus", "look", "menu", "sessions"}
    BY DEF Desktop, CreateOnly, Unsupported
  <2>4. LaunchSteps(r) = TuiExecuted(r)
    BY <1>2 DEF LaunchSteps
  <2> QED BY <2>2, <2>3, <2>4
<1>3. CASE r.ask = "goto"
  BY <1>3 DEF LaunchSteps
<1>4. CASE r.ask = "choices"
  BY <1>4 DEF LaunchSteps
<1>5. CASE r.ask = "launchers"
  BY <1>5 DEF LaunchSteps
<1>6. CASE r.ask = "list"
  BY <1>6 DEF LaunchSteps
<1> QED BY <1>1, <1>2, <1>3, <1>4, <1>5, <1>6, LaunchKinds

-----------------------------------------------------------------------------
(* The world moves only forward, so a fact that is not as the client was   *)
(* told fails every check to come: what was passed since it moved does not *)
(* include its check.                                                      *)
Told == {"repo", "launcher", "pane"}
Words(fact) == CASE fact = "pane" -> {"choice", "layout"} [] fact = "repo" -> {"repo"}
                 [] fact = "launcher" -> {"launcher"} [] fact = "session" -> {"session"} [] OTHER -> {}

StepAt(i) == LaunchSteps(launch)[i]
Behind(fact) == seen[fact] < world[fact]
Unchecked(fact, from) == Behind(fact) /\ \A i \in from..at : StepAt(i) \notin Words(fact)

LaunchTypes ==
  /\ world \in [WorldFacts -> Nat] /\ seen \in [WorldFacts -> Nat]
  /\ \A f \in WorldFacts : seen[f] <= world[f]
  /\ own \in Nat /\ own <= world["repo"]
  /\ launch \in Launches \cup {None} /\ at \in Nat
  /\ launch # None => at <= Len(LaunchSteps(launch))
  /\ fresh \in [began : BOOLEAN, made : BOOLEAN, session : BOOLEAN]
  /\ pane \in {"none", "made", "ran", "focused"}

Executing == launch # None /\ launch.ask = "execute"

(* What was not as told when the request began, or when the pane was made. *)
BeganStale == Executing /\ ~fresh.began => \E f \in Told : Unchecked(f, 1)
MadeStale ==
  Executing /\ ~fresh.made =>
    \A c \in 1..at : StepAt(c) = "create" => \E f \in Told : Unchecked(f, c)
SessionStale == launch # None /\ launch.ask = "goto" /\ ~fresh.session => Unchecked("session", 1)

(* The pane is as far as the steps are, until the answer.                  *)
PaneFollows ==
  Executing /\ answer = None =>
    pane = IF \E i \in 1..at : StepAt(i) = "run" THEN "ran"
           ELSE IF \E i \in 1..at : StepAt(i) = "create" THEN "made" ELSE "none"

(* A plan that cannot be executed stops at its last step.                  *)
Supported == Executing => \A i \in 1..at : StepAt(i) # "unsupported"

LaunchInv ==
  /\ LaunchTypes /\ BeganStale /\ MadeStale /\ SessionStale /\ PaneFollows /\ Supported
  /\ LaunchReport /\ LaunchAsChosen

LEMMA LaunchInitInv == LaunchInit => LaunchInv
<1> SUFFICES ASSUME LaunchInit PROVE LaunchInv
  OBVIOUS
<1> USE DEF LaunchInit
<1>1. world \in [WorldFacts -> Nat] /\ seen \in [WorldFacts -> Nat] /\ world["repo"] = 0
      /\ \A f \in WorldFacts : seen[f] <= world[f]
  BY DEF WorldFacts
<1>2. fresh \in [began : BOOLEAN, made : BOOLEAN, session : BOOLEAN]
  OBVIOUS
<1>3. LaunchTypes
  BY <1>1, <1>2 DEF LaunchTypes
<1> QED BY <1>3 DEF LaunchInv, BeganStale, MadeStale, SessionStale, PaneFollows, Supported,
                    LaunchReport, LaunchAsChosen, Executing

(* The next step is one of the request's.                                  *)
LEMMA NextIs ==
  ASSUME LaunchInv, Serving, at < Len(LaunchSteps(launch))
  PROVE  /\ launch \in Launches /\ launch # None /\ answer = None
         /\ at + 1 \in 1..Len(LaunchSteps(launch)) /\ NextStep = StepAt(at + 1)
         /\ at \in Nat /\ Len(LaunchSteps(launch)) \in Nat
         /\ at + 1 \in Nat /\ at + 1 <= Len(LaunchSteps(launch))
<1>1. launch \in Launches /\ launch # None /\ answer = None /\ at \in Nat
  BY DEF LaunchInv, LaunchTypes, Serving
<1>2. Len(LaunchSteps(launch)) \in Nat
  BY <1>1, OtherSteps
<1> QED BY <1>1, <1>2 DEF NextStep, StepAt

(* Nothing has moved that is checked before the creation, when that is     *)
(* next; nor anything since the creation, when the command is.             *)
LEMMA BeganBefore ==
  ASSUME LaunchInv, Executing, Serving, at < Len(LaunchSteps(launch)), NextStep \in Acts
  PROVE  fresh.began
<1> DEFINE s == LaunchSteps(launch)
<1>1. /\ launch \in Launches /\ launch.ask = "execute" /\ at + 1 \in 1..Len(s) /\ at \in Nat
      /\ s[at + 1] \in {"create", "run", "focus"} /\ answer = None
  BY NextIs DEF Executing, Acts, StepAt
<1>2. WellOrdered(s, launch.plan = "herdr" /\ launch.command)
  BY <1>1, Ordered
<1>3. s[at + 1] # "focus"
  BY <1>1, OtherSteps
<1>4. at + 1 > 5 /\ s[1] = "repo" /\ s[2] = "launcher" /\ s[3] = "choice"
  BY <1>1, <1>2, <1>3 DEF WellOrdered
<1>5. 1 \in 1..at /\ 2 \in 1..at /\ 3 \in 1..at
  BY <1>1, <1>4
<1>6. fresh.began \in BOOLEAN
  BY DEF LaunchInv, LaunchTypes
<1>7. ASSUME NEW f \in Told, Unchecked(f, 1) PROVE FALSE
  <2>1. \A i \in 1..at : s[i] \notin Words(f)
    BY <1>7 DEF Unchecked, StepAt
  <2>2. "repo" \notin Words(f) /\ "launcher" \notin Words(f) /\ "choice" \notin Words(f)
    BY <1>4, <1>5, <2>1
  <2> QED BY <2>2 DEF Told, Words
<1> QED BY <1>6, <1>7 DEF LaunchInv, BeganStale

LEMMA MadeBefore ==
  ASSUME LaunchInv, Executing, Serving, at < Len(LaunchSteps(launch)), NextStep = "run"
  PROVE  fresh.made
<1> DEFINE s == LaunchSteps(launch)
<1>1. /\ launch \in Launches /\ launch.ask = "execute" /\ at + 1 \in 1..Len(s) /\ at \in Nat
      /\ s[at + 1] = "run"
  BY NextIs DEF Executing, StepAt
<1>2. WellOrdered(s, launch.plan = "herdr" /\ launch.command)
  BY <1>1, Ordered
<1> DEFINE n == at + 1
<1>3. /\ n > 10 /\ s[n - 3] = "repo" /\ s[n - 2] = "launcher" /\ s[n - 1] = "choice"
      /\ \E c \in 1..(n - 4) : s[c] = "create"
  BY <1>1, <1>2 DEF WellOrdered
<1>4. PICK c \in 1..(n - 4) : s[c] = "create"
  BY <1>3
<1>5. c \in 1..at /\ n - 3 \in c..at /\ n - 2 \in c..at /\ n - 1 \in c..at
  BY <1>1, <1>3
<1>6. fresh.made \in BOOLEAN
  BY DEF LaunchInv, LaunchTypes
<1>7. ASSUME NEW f \in Told, Unchecked(f, c) PROVE FALSE
  <2>1. \A i \in c..at : s[i] \notin Words(f)
    BY <1>7 DEF Unchecked, StepAt
  <2> HIDE DEF s
  <2>2. "repo" \notin Words(f) /\ "launcher" \notin Words(f) /\ "choice" \notin Words(f)
    BY <1>3, <1>5, <2>1
  <2> QED BY <2>2 DEF Told, Words
<1>8. ~fresh.made => \E f \in Told : Unchecked(f, c)
  BY <1>4, <1>5 DEF LaunchInv, MadeStale, StepAt
<1> QED BY <1>6, <1>7, <1>8

(* The steps done stay done.                                               *)
LEMMA MoreSteps ==
  ASSUME at \in Nat, at' = at + 1, launch' = launch, launch # None
  PROVE  \A from \in Nat : \A i \in from..at' : StepAt(i)' = StepAt(i) /\ (i \in from..at \/ i = at + 1)
BY DEF StepAt

LEMMA Checked ==
  ASSUME LaunchInv, Passes, NEW f \in Told \cup {"session"}, NEW from \in Nat, Unchecked(f, from),
         launch.ask \in {"execute", "goto"}
  PROVE  Unchecked(f, from)'
<1>1. /\ at < Len(LaunchSteps(launch)) /\ Serving /\ Holds(NextStep)
      /\ at' = at + 1 /\ launch' = launch /\ world' = world
  BY DEF Passes
<1>2. /\ launch \in Launches /\ launch # None /\ NextStep = StepAt(at + 1) /\ at \in Nat
      /\ at + 1 \in 1..Len(LaunchSteps(launch))
  BY <1>1, NextIs
<1>3. seen' = seen
  BY <1>2, OtherSteps DEF Passes, StepAt
<1>4. StepAt(at + 1) \notin Words(f)
  <2>1. world[f] # seen[f]
    BY DEF Unchecked, Behind, LaunchInv, LaunchTypes, Told, WorldFacts
  <2> QED BY <1>1, <1>2, <2>1 DEF Holds, Words, Told
<1>5. \A i \in from..at' : StepAt(i)' \notin Words(f)
  BY <1>1, <1>2, <1>4, MoreSteps DEF Unchecked
<1> QED BY <1>1, <1>3, <1>5 DEF Unchecked, Behind


(* A request that begins has done nothing.                                 *)
LEMMA AskKeeps == ASSUME LaunchInv, LaunchAsk PROVE LaunchInv'
<1> USE DEF LaunchInv, LaunchTypes
<1>1. PICK r \in Launches : launch' = r
  BY DEF LaunchAsk
<1>2. /\ at' = 0 /\ own' = 0 /\ pane' = "none" /\ answer' = None /\ world' = world /\ seen' = seen
      /\ fresh' = [began |-> AllSeen, made |-> FALSE, session |-> AsSeen("session")]
  BY DEF LaunchAsk
<1>3. LaunchTypes'
  <2>1. fresh' \in [began : BOOLEAN, made : BOOLEAN, session : BOOLEAN]
    <3>1. AllSeen \in BOOLEAN /\ AsSeen("session") \in BOOLEAN
      BY DEF AllSeen, AsSeen
    <3> QED BY <1>2, <3>1
  <2>2. world["repo"] \in Nat /\ Len(LaunchSteps(r)) \in Nat
    BY OtherSteps DEF WorldFacts
  <2> QED BY <1>1, <1>2, <2>1, <2>2
<1>4. \A f \in WorldFacts : world[f] # seen[f] => Unchecked(f, 1)'
  BY <1>2 DEF Unchecked, Behind
<1>5. BeganStale'
  <2>1. ASSUME ~fresh'.began PROVE \E f \in Told : Unchecked(f, 1)'
    <3>1. \E f \in Told : world[f] # seen[f]
      BY <1>2, <2>1 DEF AllSeen, AsSeen, Told
    <3> QED BY <1>4, <3>1 DEF Told, WorldFacts
  <2> QED BY <2>1 DEF BeganStale
<1>6. SessionStale'
  BY <1>2, <1>4 DEF SessionStale, AsSeen, WorldFacts
<1>7. MadeStale' /\ PaneFollows' /\ Supported' /\ LaunchReport' /\ LaunchAsChosen'
  BY <1>2 DEF MadeStale, PaneFollows, Supported, LaunchReport, LaunchAsChosen, Executing
<1> QED BY <1>3, <1>5, <1>6, <1>7

LEMMA PassesKeeps == ASSUME LaunchInv, Passes PROVE LaunchInv'
<1> USE DEF LaunchInv
<1>1. /\ at < Len(LaunchSteps(launch)) /\ Serving /\ NextStep \in Looks
      /\ at' = at + 1 /\ UNCHANGED <<world, launch, pane, fresh, answer>>
  BY DEF Passes
<1>2. /\ launch \in Launches /\ launch # None /\ NextStep = StepAt(at + 1) /\ at \in Nat
      /\ at + 1 <= Len(LaunchSteps(launch)) /\ answer = None
  BY <1>1, NextIs
<1>3. LaunchTypes'
  <2> USE DEF LaunchTypes
  <2>1. /\ world["repo"] \in Nat /\ world["pane"] \in Nat
        /\ world["launcher"] \in Nat /\ world["session"] \in Nat
    BY DEF WorldFacts
  <2>2. own' \in {own, world["repo"]}
    BY DEF Passes
  <2>3. seen' \in [WorldFacts -> Nat] /\ \A f \in WorldFacts : seen'[f] <= world[f]
    <3>1. seen' \in {seen, [seen EXCEPT !["pane"] = world["pane"], !["repo"] = own],
                     [seen EXCEPT !["launcher"] = world["launcher"]],
                     [seen EXCEPT !["session"] = world["session"]]}
      BY DEF Passes
    <3>2. CASE seen' = [seen EXCEPT !["pane"] = world["pane"], !["repo"] = own]
      BY <2>1, <3>2 DEF WorldFacts
    <3>3. CASE seen' = [seen EXCEPT !["launcher"] = world["launcher"]]
      BY <2>1, <3>3 DEF WorldFacts
    <3>4. CASE seen' = [seen EXCEPT !["session"] = world["session"]]
      BY <2>1, <3>4 DEF WorldFacts
    <3>5. CASE seen' = seen
      BY <3>5
    <3> QED BY <3>1, <3>2, <3>3, <3>4, <3>5
  <2>4. own' \in Nat /\ own' <= world'["repo"]
    BY <1>1, <2>1, <2>2
  <2>5. launch' \in Launches \cup {None} /\ at' \in Nat /\ (launch' # None => at' <= Len(LaunchSteps(launch')))
    BY <1>1, <1>2
  <2>6. world' = world /\ fresh' = fresh /\ pane' = pane
    BY <1>1
  <2> QED BY <2>3, <2>4, <2>5, <2>6
<1>4. ASSUME NEW f \in Told \cup {"session"}, NEW from \in Nat, Unchecked(f, from),
             launch.ask \in {"execute", "goto"}
      PROVE  Unchecked(f, from)'
  BY <1>4, Checked
<1>5. BeganStale'
  BY <1>1, <1>4 DEF BeganStale, Executing
<1>6. SessionStale'
  BY <1>1, <1>4 DEF SessionStale
<1>7. \A i \in 1..at' : StepAt(i)' = StepAt(i) /\ (i \in 1..at \/ i = at + 1)
  BY <1>1, <1>2, MoreSteps
<1>8. StepAt(at + 1) \notin {"create", "run"}
  BY <1>1, <1>2 DEF Looks
<1>9. MadeStale'
  <2> SUFFICES ASSUME Executing, ~fresh.made, NEW c \in 1..at', StepAt(c)' = "create"
               PROVE  \E f \in Told : Unchecked(f, c)'
    BY <1>1 DEF MadeStale, Executing
  <2>1. c \in 1..at /\ StepAt(c) = "create" /\ c \in Nat
    BY <1>7, <1>8
  <2>2. \E f \in Told : Unchecked(f, c)
    BY <2>1 DEF MadeStale
  <2> QED BY <1>4, <2>1, <2>2 DEF Executing
<1>10. \A w \in {"create", "run"} : (\E i \in 1..at' : StepAt(i)' = w) <=> (\E i \in 1..at : StepAt(i) = w)
  BY <1>1, <1>2, <1>7, <1>8
<1>11. PaneFollows'
  BY <1>1, <1>10 DEF PaneFollows, Executing
<1>12. LaunchReport' /\ LaunchAsChosen'
  BY <1>1, <1>2 DEF LaunchReport, LaunchAsChosen
<1>13. Supported'
  <2>1. StepAt(at + 1) # "unsupported"
    BY <1>2 DEF Passes, Holds
  <2> QED BY <1>1, <1>7, <2>1 DEF Supported, Executing
<1> QED BY <1>3, <1>5, <1>6, <1>9, <1>11, <1>12, <1>13

(* An answer changes neither the steps nor the pane.                       *)
LEMMA AnswerKeeps ==
  ASSUME LaunchInv, launch # None, answer = None, UNCHANGED <<world, seen, launch, at, own, pane, fresh>>,
         Executing => \/ answer' \in {"partial_completion", "outcome_unknown"}
                      \/ answer' # "ok" /\ pane = "none"
                      \/ /\ answer' = "ok"
                         /\ pane = IF launch.plan = "herdr" /\ launch.command THEN "ran" ELSE "made"
  PROVE  LaunchInv'
<1>1. \A f, from : Unchecked(f, from)' <=> Unchecked(f, from)
  BY DEF Unchecked, Behind, StepAt
<1>2. \A i : StepAt(i)' = StepAt(i)
  BY DEF StepAt
<1>3. LaunchTypes'
  BY DEF LaunchInv, LaunchTypes
<1>4. BeganStale' /\ SessionStale' /\ MadeStale'
  BY <1>1, <1>2 DEF LaunchInv, BeganStale, SessionStale, MadeStale, Executing
<1>5. PaneFollows' /\ Supported'
  BY <1>2 DEF LaunchInv, PaneFollows, Supported, Executing
<1>6. LaunchAsChosen' /\ LaunchReport'
  BY DEF LaunchInv, LaunchAsChosen, LaunchReport, Executing
<1> QED BY <1>3, <1>4, <1>5, <1>6 DEF LaunchInv


(* What was made is what the request was at.                               *)
LEMMA PaneBefore ==
  ASSUME LaunchInv, Executing, Serving, at < Len(LaunchSteps(launch))
  PROVE  /\ NextStep = "create" => pane = "none"
         /\ ~Made(launch) => pane = "none"
         /\ NextStep = "run" => pane = "made"
<1> DEFINE s == LaunchSteps(launch)
<1>1. /\ launch \in Launches /\ launch.ask = "execute" /\ at + 1 \in 1..Len(s) /\ at \in Nat
      /\ NextStep = s[at + 1] /\ answer = None /\ Len(s) \in Nat
  BY NextIs DEF Executing, StepAt
<1>2. WellOrdered(s, launch.plan = "herdr" /\ launch.command)
  BY <1>1, Ordered
<1>3. pane = IF \E i \in 1..at : s[i] = "run" THEN "ran"
             ELSE IF \E i \in 1..at : s[i] = "create" THEN "made" ELSE "none"
  BY <1>1 DEF LaunchInv, PaneFollows, StepAt
<1> HIDE DEF s
<1>4. \A i \in 1..at : i \in 1..Len(s) /\ i # at + 1
  BY <1>1
<1>5. \A i \in 1..at : s[i] # "run"
  <2> SUFFICES ASSUME NEW i \in 1..at, s[i] = "run" PROVE FALSE
    OBVIOUS
  <2>1. i = Len(s)
    BY <1>2, <1>4 DEF WellOrdered
  <2> QED BY <1>1, <2>1
<1>6. NextStep = "create" => \A i \in 1..at : s[i] # "create"
  BY <1>1, <1>2, <1>4 DEF WellOrdered
<1>7. NextStep = "run" => \E i \in 1..at : s[i] = "create"
  <2> SUFFICES ASSUME NextStep = "run" PROVE \E i \in 1..at : s[i] = "create"
    OBVIOUS
  <2>1. \E c \in 1..(at + 1 - 4) : s[c] = "create"
    BY <1>1, <1>2 DEF WellOrdered
  <2> QED BY <1>1, <2>1
<1>8. ~Made(launch) => \A i \in 1..at : s[i] # "create"
  BY DEF Made, s
<1> QED BY <1>3, <1>5, <1>6, <1>7, <1>8

LEMMA RefusesKeeps == ASSUME LaunchInv, Refuses PROVE LaunchInv'
<1>1. /\ at < Len(LaunchSteps(launch)) /\ Serving /\ launch # None /\ answer = None
      /\ answer' = Code(launch, NextStep) /\ UNCHANGED <<world, seen, launch, at, own, pane, fresh>>
  BY DEF Refuses, Serving
<1>2. answer' \in {"error", "outcome_unknown", "partial_completion", "stale_launcher", "session_error",
                   "invalid_request", "stale_target"}
  BY <1>1 DEF Code
<1>3. Executing => \/ answer' \in {"partial_completion", "outcome_unknown"} \/ pane = "none"
  BY <1>1, PaneBefore DEF Code, Executing
<1> QED BY <1>1, <1>2, <1>3, AnswerKeeps

LEMMA FailsKeeps == ASSUME LaunchInv, FailsToRun PROVE LaunchInv'
<1>1. /\ at < Len(LaunchSteps(launch)) /\ Serving /\ launch # None /\ answer = None /\ NextStep \in Acts
      /\ UNCHANGED <<world, seen, launch, at, own, pane, fresh>>
      /\ answer' = IF launch.ask = "tui" THEN "error"
                   ELSE IF NextStep = "run" THEN "partial_completion" ELSE "session_error"
  BY DEF FailsToRun, Serving
<1>2. Executing => NextStep # "focus"
  BY <1>1, NextIs, OtherSteps DEF Executing, StepAt
<1>3. Executing => \/ answer' = "partial_completion" \/ pane = "none"
  BY <1>1, <1>2, PaneBefore DEF Executing, Acts
<1> QED BY <1>1, <1>3, AnswerKeeps

LEMMA SucceedsKeeps == ASSUME LaunchInv, Succeeds PROVE LaunchInv'
<1> DEFINE s == LaunchSteps(launch)
<1>1. /\ at = Len(s) /\ launch # None /\ launch \in Launches /\ answer = None
      /\ answer' = "ok" /\ UNCHANGED <<world, seen, launch, at, own, pane, fresh>>
  BY DEF Succeeds, Serving, LaunchInv, LaunchTypes
<1>2. Executing => pane = IF launch.plan = "herdr" /\ launch.command THEN "ran" ELSE "made"
  <2> SUFFICES ASSUME Executing
               PROVE  pane = IF launch.plan = "herdr" /\ launch.command THEN "ran" ELSE "made"
    OBVIOUS
  <2>1. WellOrdered(s, launch.plan = "herdr" /\ launch.command)
    BY <1>1, Ordered DEF Executing
  <2>2. pane = IF \E i \in 1..Len(s) : s[i] = "run" THEN "ran"
               ELSE IF \E i \in 1..Len(s) : s[i] = "create" THEN "made" ELSE "none"
    BY <1>1 DEF LaunchInv, PaneFollows, StepAt
  <2> HIDE DEF s
  <2>3. (\E i \in 1..Len(s) : s[i] = "run") <=> (launch.plan = "herdr" /\ launch.command)
    BY <2>1 DEF WellOrdered
  <2>4. \E i \in 1..Len(s) : s[i] = "create"
    <3>1. \A i \in 1..Len(s) : s[i] # "unsupported"
      BY <1>1 DEF LaunchInv, Supported, StepAt, s
    <3> QED BY <2>1, <3>1 DEF WellOrdered
  <2> QED BY <2>2, <2>3, <2>4
<1> QED BY <1>1, <1>2, AnswerKeeps

(* Focusing is asked of a session that was there.                          *)
LEMMA SessionBefore ==
  ASSUME LaunchInv, Serving, at < Len(LaunchSteps(launch)), NextStep \in Acts, launch.ask = "goto"
  PROVE  fresh.session
<1> DEFINE s == LaunchSteps(launch)
<1>1. /\ at + 1 \in 1..Len(s) /\ at \in Nat /\ s[at + 1] \in {"create", "run", "focus"} /\ launch # None
  BY NextIs DEF Acts, StepAt
<1>2. s = <<"own", "session", "path", "session", "focus">>
  BY DEF LaunchSteps
<1>3. 2 \in 1..at /\ s[2] = "session"
  BY <1>1, <1>2
<1>4. fresh.session \in BOOLEAN
  BY DEF LaunchInv, LaunchTypes
<1>5. ~Unchecked("session", 1)
  BY <1>3 DEF Unchecked, StepAt, Words
<1> QED BY <1>1, <1>4, <1>5 DEF LaunchInv, SessionStale

(* Only a request to go somewhere focuses.                                 *)
LEMMA OnlyGotoFocuses ==
  ASSUME LaunchInv, Serving, at < Len(LaunchSteps(launch)), NextStep = "focus"
  PROVE  launch.ask = "goto"
BY NextIs, OtherSteps DEF StepAt

(* The order of what is made, wherever the request is.                     *)
LEMMA OneOfEach ==
  ASSUME LaunchInv, Executing, Serving, at < Len(LaunchSteps(launch))
  PROVE  /\ NextStep = "create" => \A i \in 1..at : StepAt(i) # "create"
         /\ \A i \in 1..at : StepAt(i) # "run"
<1> DEFINE s == LaunchSteps(launch)
<1>1. /\ launch \in Launches /\ launch.ask = "execute" /\ at + 1 \in 1..Len(s) /\ at \in Nat
      /\ NextStep = s[at + 1] /\ Len(s) \in Nat
  BY NextIs DEF Executing, StepAt
<1>2. WellOrdered(s, launch.plan = "herdr" /\ launch.command)
  BY <1>1, Ordered
<1> HIDE DEF s
<1>3. \A i \in 1..at : i \in 1..Len(s) /\ i # at + 1
  BY <1>1
<1>4. \A i \in 1..at : s[i] # "run"
  <2> SUFFICES ASSUME NEW i \in 1..at, s[i] = "run" PROVE FALSE
    OBVIOUS
  <2>1. i = Len(s)
    BY <1>2, <1>3 DEF WellOrdered
  <2> QED BY <1>1, <2>1
<1>5. NextStep = "create" => \A i \in 1..at : s[i] # "create"
  BY <1>1, <1>2, <1>3 DEF WellOrdered
<1> QED BY <1>4, <1>5 DEF StepAt, s

(* Whatever the program did before it was given up, the answer tells.      *)
LEMMA LingersKeeps == ASSUME LaunchInv, Lingers PROVE LaunchInv'
<1>1. /\ at < Len(LaunchSteps(launch)) /\ Serving /\ launch # None /\ launch \in Launches /\ NextStep \in Acts
      /\ UNCHANGED <<world, seen, launch, at, own, fresh>> /\ pane' \in {pane, Result}
      /\ launch.ask # "tui" => answer' \in {"partial_completion", "outcome_unknown"}
  BY NextIs DEF Lingers, Serving, TooLate
<1>2. \A f, from : Unchecked(f, from)' <=> Unchecked(f, from)
  BY <1>1 DEF Unchecked, Behind, StepAt
<1>3. \A i : StepAt(i)' = StepAt(i)
  BY <1>1 DEF StepAt
<1>4. LaunchTypes'
  BY <1>1 DEF LaunchInv, LaunchTypes, Result
<1>5. BeganStale' /\ SessionStale' /\ MadeStale'
  BY <1>1, <1>2, <1>3 DEF LaunchInv, BeganStale, SessionStale, MadeStale, Executing
<1>6. Executing => answer' \in {"partial_completion", "outcome_unknown"}
  BY <1>1 DEF Executing
<1>7. Executing => answer' # None
  BY <1>6, NoneIsNoAnswer DEF Answers
<1>8. PaneFollows' /\ Supported' /\ LaunchReport'
  BY <1>1, <1>3, <1>6, <1>7 DEF LaunchInv, PaneFollows, Supported, LaunchReport, Executing
<1>9. Executing => fresh.began /\ (Result = "ran" => fresh.made)
  <2> SUFFICES ASSUME Executing PROVE fresh.began /\ (Result = "ran" => fresh.made)
    OBVIOUS
  <2>1. fresh.began
    BY <1>1, BeganBefore
  <2>2. Result = "ran" => NextStep = "run"
    BY <1>1 DEF Acts, Result
  <2> QED BY <1>1, <2>1, <2>2, MadeBefore
<1>10. Result = "focused" => fresh.session
  <2>1. Result = "focused" => NextStep = "focus"
    BY <1>1 DEF Acts, Result
  <2> QED BY <1>1, <2>1, OnlyGotoFocuses, SessionBefore
<1>11. LaunchAsChosen'
  BY <1>1, <1>9, <1>10 DEF LaunchInv, LaunchAsChosen, Executing
<1> QED BY <1>4, <1>5, <1>8, <1>11 DEF LaunchInv

(* A pane is made, a command typed or a session focused.                   *)
LEMMA RunsKeeps == ASSUME LaunchInv, Runs PROVE LaunchInv'
<1>1. /\ at < Len(LaunchSteps(launch)) /\ Serving /\ NextStep \in Acts
      /\ at' = at + 1 /\ pane' = Result /\ UNCHANGED <<world, launch, own, answer>>
      /\ fresh' = IF NextStep = "create" THEN [fresh EXCEPT !.made = AllSeen] ELSE fresh
      /\ seen' = [seen EXCEPT !["tab"] = world["tab"]]
  BY DEF Runs
<1>2. /\ launch \in Launches /\ launch # None /\ NextStep = StepAt(at + 1) /\ at \in Nat
      /\ at + 1 <= Len(LaunchSteps(launch)) /\ answer = None
  BY <1>1, NextIs
<1>3. AllSeen \in BOOLEAN
  BY DEF AllSeen, AsSeen
<1>4. /\ fresh' \in [began : BOOLEAN, made : BOOLEAN, session : BOOLEAN]
      /\ fresh'.began = fresh.began /\ fresh'.session = fresh.session
      /\ fresh'.made = IF NextStep = "create" THEN AllSeen ELSE fresh.made
  BY <1>1, <1>3 DEF LaunchInv, LaunchTypes
<1>5. /\ seen' \in [WorldFacts -> Nat] /\ \A f \in WorldFacts : seen'[f] <= world[f]
      /\ \A f \in Told \cup {"session"} : seen'[f] = seen[f]
  <2>1. "tab" \in WorldFacts /\ Told \cup {"session"} \subseteq WorldFacts \ {"tab"}
    BY DEF WorldFacts, Told
  <2>2. /\ seen \in [WorldFacts -> Nat] /\ world \in [WorldFacts -> Nat]
        /\ \A f \in WorldFacts : seen[f] <= world[f]
    BY DEF LaunchInv, LaunchTypes
  <2>3. \A f \in WorldFacts : seen'[f] = IF f = "tab" THEN world[f] ELSE seen[f]
    BY <1>1, <2>1, <2>2
  <2>4. seen' \in [WorldFacts -> Nat]
    BY <1>1, <2>1, <2>2
  <2> QED BY <2>1, <2>2, <2>3, <2>4
<1>6. LaunchTypes'
  <2>1. pane' \in {"none", "made", "ran", "focused"}
    BY <1>1 DEF Result
  <2> QED BY <1>1, <1>2, <1>4, <1>5, <2>1 DEF LaunchInv, LaunchTypes
<1>7. \A i \in 1..at' : StepAt(i)' = StepAt(i) /\ (i \in 1..at \/ i = at + 1)
  BY <1>1, <1>2, MoreSteps
<1>8. Executing => fresh.began
  BY <1>1, BeganBefore
<1>9. BeganStale'
  BY <1>1, <1>4, <1>8 DEF BeganStale, Executing
<1>10. SessionStale'
  BY <1>1, <1>4, SessionBefore DEF SessionStale
<1>11. NextStep # "focus" \/ ~Executing
  BY <1>1, OnlyGotoFocuses DEF Executing
<1>12. Executing /\ NextStep = "run" => fresh.made
  BY <1>1, MadeBefore
<1>13. MadeStale'
  <2> SUFFICES ASSUME Executing, ~fresh'.made, NEW c \in 1..at', StepAt(c)' = "create"
               PROVE  \E f \in Told : Unchecked(f, c)'
    BY <1>1 DEF MadeStale, Executing
  <2>1. NextStep = "create" /\ ~AllSeen
    BY <1>1, <1>4, <1>11, <1>12 DEF Acts
  <2>2. c = at + 1
    BY <1>1, <1>7, <2>1, OneOfEach
  <2>3. PICK f \in Told : world[f] # seen[f]
    BY <2>1 DEF AllSeen, AsSeen, Told
  <2>4. seen'[f] < world'[f]
    <3>1. f \in WorldFacts
      BY <2>3 DEF Told, WorldFacts
    <3>2. seen[f] \in Nat /\ world[f] \in Nat /\ seen[f] <= world[f]
      BY <3>1 DEF LaunchInv, LaunchTypes
    <3>3. seen'[f] = seen[f] /\ world'[f] = world[f]
      BY <1>1, <1>5, <2>3
    <3> QED BY <2>3, <3>2, <3>3
  <2>5. \A i \in c..at' : StepAt(i)' = "create"
    BY <1>1, <1>2, <2>2
  <2>6. "create" \notin Words(f)
    BY DEF Words, Told
  <2> QED BY <2>4, <2>5, <2>6 DEF Unchecked, Behind
<1>14. Supported'
  <2>1. StepAt(at + 1) # "unsupported"
    BY <1>1, <1>2 DEF Acts
  <2> QED BY <1>1, <1>7, <2>1 DEF LaunchInv, Supported, Executing
<1>15. PaneFollows'
  <2> SUFFICES ASSUME Executing
               PROVE  pane' = IF \E i \in 1..at' : StepAt(i)' = "run" THEN "ran"
                              ELSE IF \E i \in 1..at' : StepAt(i)' = "create" THEN "made" ELSE "none"
    BY <1>1 DEF PaneFollows, Executing
  <2>1. \E i \in 1..at' : StepAt(i)' = NextStep
    <3>1. at + 1 \in 1..at'
      BY <1>1, <1>2
    <3> QED BY <1>2, <1>7, <3>1
  <2>2. NextStep = "create" => ~(\E i \in 1..at' : StepAt(i)' = "run")
    BY <1>1, <1>2, <1>7, OneOfEach
  <2>3. CASE NextStep = "create"
    BY <1>1, <2>1, <2>2, <2>3 DEF Result
  <2>4. CASE NextStep = "run"
    BY <1>1, <2>1, <2>4 DEF Result
  <2> QED BY <1>1, <1>11, <2>3, <2>4 DEF Acts
<1>16. LaunchReport'
  BY <1>1, <1>2 DEF LaunchReport
<1>17. LaunchAsChosen'
  <2>1. Executing => (pane' = "ran" => fresh'.made)
    BY <1>1, <1>4, <1>11, <1>12 DEF Acts, Result
  <2>2. pane' = "focused" => fresh'.session
    <3>1. pane' = "focused" => NextStep = "focus"
      BY <1>1 DEF Acts, Result
    <3> QED BY <1>1, <1>4, <3>1, OnlyGotoFocuses, SessionBefore
  <2> QED BY <1>1, <1>4, <1>8, <2>1, <2>2 DEF LaunchAsChosen, Executing
<1> QED BY <1>6, <1>9, <1>10, <1>13, <1>14, <1>15, <1>16, <1>17 DEF LaunchInv

LEMMA HearsKeeps == ASSUME LaunchInv, Hears PROVE LaunchInv'
<1>1. /\ launch' = None /\ at' = 0 /\ own' = 0 /\ pane' = "none" /\ world' = world /\ seen' = seen
      /\ fresh' = [began |-> FALSE, made |-> FALSE, session |-> FALSE]
  BY DEF Hears
<1>2. LaunchTypes'
  <2>1. world["repo"] \in Nat
    BY DEF LaunchInv, LaunchTypes, WorldFacts
  <2> QED BY <1>1, <2>1 DEF LaunchInv, LaunchTypes
<1> QED BY <1>1, <1>2 DEF LaunchInv, BeganStale, MadeStale, SessionStale, PaneFollows, Supported,
                          LaunchReport, LaunchAsChosen, Executing

(* What has moved has moved, whatever moves next.                          *)
LEMMA ElsewhereKeeps == ASSUME LaunchInv, NEW fact \in WorldFacts, Elsewhere(fact) PROVE LaunchInv'
<1>1. /\ world' = [world EXCEPT ![fact] = @ + 1] /\ UNCHANGED <<seen, launch, at, own, pane, fresh, answer>>
  BY DEF Elsewhere
<1>2. world' \in [WorldFacts -> Nat] /\ \A f \in WorldFacts : world[f] <= world'[f]
  BY <1>1 DEF LaunchInv, LaunchTypes
<1>3. LaunchTypes'
  <2>1. world["repo"] \in Nat /\ world'["repo"] \in Nat /\ world["repo"] <= world'["repo"]
    BY <1>2 DEF LaunchInv, LaunchTypes, WorldFacts
  <2>2. \A f \in WorldFacts : seen[f] <= world'[f]
    BY <1>2 DEF LaunchInv, LaunchTypes
  <2> QED BY <1>1, <1>2, <2>1, <2>2 DEF LaunchInv, LaunchTypes
<1>4. \A i : StepAt(i)' = StepAt(i)
  BY <1>1 DEF StepAt
<1>5. ASSUME NEW f \in Told \cup {"session"}, NEW from, Unchecked(f, from) PROVE Unchecked(f, from)'
  <2>1. seen[f] < world'[f]
    <3>1. f \in WorldFacts
      BY <1>5 DEF Told, WorldFacts
    <3>2. seen[f] \in Nat /\ world[f] \in Nat /\ world'[f] \in Nat /\ world[f] <= world'[f]
      BY <1>2, <3>1 DEF LaunchInv, LaunchTypes
    <3>3. seen[f] < world[f]
      BY <1>5 DEF Unchecked, Behind
    <3> QED BY <3>2, <3>3
  <2> QED BY <1>1, <1>4, <1>5, <2>1 DEF Unchecked, Behind
<1>6. BeganStale' /\ MadeStale' /\ SessionStale'
  BY <1>1, <1>4, <1>5 DEF LaunchInv, BeganStale, MadeStale, SessionStale, Executing
<1>7. PaneFollows' /\ Supported'
  BY <1>1, <1>4 DEF LaunchInv, PaneFollows, Supported, Executing
<1>8. LaunchReport' /\ LaunchAsChosen'
  BY <1>1 DEF LaunchInv, LaunchReport, LaunchAsChosen
<1> QED BY <1>3, <1>6, <1>7, <1>8 DEF LaunchInv

LEMMA LaunchStepInv == LaunchInv /\ [LaunchNext]_launchVars => LaunchInv'
<1> SUFFICES ASSUME LaunchInv, [LaunchNext]_launchVars PROVE LaunchInv'
  OBVIOUS
<1>1. CASE UNCHANGED launchVars
  BY <1>1 DEF launchVars, LaunchInv, LaunchTypes, BeganStale, MadeStale, SessionStale, PaneFollows, Supported,
              LaunchReport, LaunchAsChosen, Executing, Unchecked, Behind, StepAt
<1> QED BY <1>1, AskKeeps, PassesKeeps, RefusesKeeps, RunsKeeps, FailsKeeps, LingersKeeps, SucceedsKeeps,
           HearsKeeps, ElsewhereKeeps DEF LaunchNext

-----------------------------------------------------------------------------
(* The owner of a process.  The walk over its ancestors asks each of them  *)
(* the same: is there a pane of tmux from here up, before the root of the  *)
(* desktop?                                                                *)
Above(panes, root, n) ==
  IF \E p \in panes : n <= p /\ (root < n \/ p < root) THEN "tmux" ELSE "herdr-app"

Walks(f, panes, root) ==
  f = [n \in 0..Deep |-> IF n = root THEN "herdr-app"
                         ELSE IF n \in panes THEN "tmux"
                         ELSE IF n = Deep THEN "herdr-app" ELSE f[n + 1]]

LEMMA AboveWalks ==
  ASSUME NEW panes \in SUBSET (0..Deep), NEW root \in 0..Deep
  PROVE  Walks([n \in 0..Deep |-> Above(panes, root, n)], panes, root)
<1> DEFINE f == [n \in 0..Deep |-> Above(panes, root, n)]
<1>1. ASSUME NEW n \in 0..Deep
      PROVE  Above(panes, root, n) = IF n = root THEN "herdr-app" ELSE IF n \in panes THEN "tmux"
                                     ELSE IF n = Deep THEN "herdr-app" ELSE f[n + 1]
  <2>1. CASE n = root
    BY <2>1, LaunchBounds DEF Above
  <2>2. CASE n # root /\ n \in panes
    BY <2>2, LaunchBounds DEF Above
  <2>3. CASE n # root /\ n \notin panes /\ n = Deep
    BY <2>3, LaunchBounds DEF Above
  <2>4. CASE n # root /\ n \notin panes /\ n # Deep
    <3>1. n + 1 \in 0..Deep /\ f[n + 1] = Above(panes, root, n + 1)
      BY <2>4, LaunchBounds
    <3>2. \A p \in panes : n <= p /\ (root < n \/ p < root) <=> n + 1 <= p /\ (root < n + 1 \/ p < root)
      BY <2>4, LaunchBounds
    <3> QED BY <2>4, <3>1, <3>2 DEF Above
  <2> QED BY <2>1, <2>2, <2>3, <2>4
<1> QED BY <1>1 DEF Walks

LEMMA OneWalk ==
  ASSUME NEW panes, NEW root, NEW f, NEW g, Walks(f, panes, root), Walks(g, panes, root)
  PROVE  \A n \in 0..Deep : f[n] = g[n]
<1> DEFINE Bad   == {n \in 0..Deep : f[n] # g[n]}
           Rests == {n..Deep : n \in Bad}
<1>1. Rests \subseteq FiniteSubsetsOf(Nat)
  <2> SUFFICES ASSUME NEW n \in Bad PROVE n..Deep \in FiniteSubsetsOf(Nat)
    OBVIOUS
  <2>1. n \in Int /\ Deep \in Int /\ n..Deep \subseteq Nat
    BY LaunchBounds
  <2>2. IsFiniteSet(n..Deep)
    BY <2>1, FS_Interval
  <2> QED BY <2>1, <2>2 DEF FiniteSubsetsOf
<1>2. ASSUME NEW n \in Bad
      PROVE  n + 1 \in Bad /\ <<(n + 1)..Deep, n..Deep>> \in StrictSubsetOrdering(Nat)
  <2>1. n \in Nat /\ n \in 0..Deep /\ f[n] # g[n]
    BY <1>2, LaunchBounds
  <2>2. n # Deep /\ n # root /\ n \notin panes /\ f[n] = f[n + 1] /\ g[n] = g[n + 1]
    BY <2>1 DEF Walks
  <2>3. n + 1 \in Bad
    BY <2>1, <2>2, LaunchBounds
  <2>4. (n + 1)..Deep \subseteq n..Deep /\ n \in n..Deep /\ n \notin (n + 1)..Deep /\ n..Deep \subseteq Nat
    BY <2>1, LaunchBounds
  <2> QED BY <2>3, <2>4 DEF StrictSubsetOrdering
<1> HIDE DEF Bad
<1>3. Rests = {}
  <2> SUFFICES ASSUME Rests # {} PROVE FALSE
    OBVIOUS
  <2>1. \E x \in Rests : \A y \in Rests : <<y, x>> \notin StrictSubsetOrdering(Nat)
    BY <1>1, FS_StrictSubsetOrderingWellFounded, WFMin
  <2> QED BY <1>2, <2>1
<1> QED BY <1>3 DEF Bad

LEMMA OwnerIs ==
  ASSUME NEW panes \in SUBSET (0..Deep), NEW root \in 0..Deep
  PROVE  DesktopOwner(panes, root) = Above(panes, root, 0)
<1> DEFINE walk == CHOOSE f : Walks(f, panes, root)
<1>1. DesktopOwner(panes, root) = walk[0]
  BY DEF DesktopOwner, Walks
<1>2. Walks(walk, panes, root)
  BY AboveWalks
<1>3. 0 \in 0..Deep
  BY LaunchBounds
<1> DEFINE above == [n \in 0..Deep |-> Above(panes, root, n)]
<1>4. Walks(above, panes, root)
  BY AboveWalks
<1>5. above[0] = Above(panes, root, 0)
  BY <1>3
<1> HIDE DEF walk, above
<1>6. walk[0] = above[0]
  BY <1>2, <1>3, <1>4, OneWalk
<1> QED BY <1>1, <1>5, <1>6

LEMMA NearestOwnerHolds == NearestOwner
<1> SUFFICES ASSUME NEW panes \in SUBSET (0..Deep), NEW root \in 0..Deep
             PROVE  DesktopOwner(panes, root) = "tmux" <=> \E p \in panes : p < root
  BY DEF NearestOwner
<1>1. Above(panes, root, 0) = "tmux" <=> \E p \in panes : p < root
  BY LaunchBounds DEF Above
<1> QED BY <1>1, OwnerIs

(* Whatever is changed in other windows and programs between its steps, a  *)
(* request to launch creates, types into or focuses only what the client   *)
(* was shown, and its answer tells what it left behind; the owner of a     *)
(* process is the nearest pane above it (bridge/launcher, session/env).    *)
THEOREM LaunchIsSafe == LaunchSpec => []LaunchSafety
<1>1. LaunchInv => LaunchSafety
  BY NearestOwnerHolds DEF LaunchInv, LaunchSafety
<1> QED BY <1>1, LaunchInitInv, LaunchStepInv, PTL DEF LaunchSpec

-----------------------------------------------------------------------------
(* What a mutation acts on (BridgeMutation).                               *)

(* Facts that must be 0; the others are noted, marked or used.             *)
Required == {"inside", "plain", "listed", "dest"}

(* Only the walk to a file is marked.                                      *)
Step ==
  {s \in [fact : Facts, how : {"note", "must", "use", "mark"}] :
     (s.fact \in Required <=> s.how = "must") /\ (s.how = "mark" => s.fact = "dirs")}

ChecksFact(s, f) == \E x \in Range(s) : x.fact = f /\ x.how # "use"

(* Whatever is used of what git acts on is checked afterwards.             *)
Settles(s, acts) ==
  \A i \in 1..Len(s) : s[i].fact \in acts =>
    \E j \in i..Len(s) : s[j].fact = s[i].fact /\ s[j].how # "use"

-----------------------------------------------------------------------------
(* Sequences of reads.                                                     *)

(* A read by itself.                                                       *)
LEMMA OneRead ==
  ASSUME NEW f \in Facts
  PROVE  /\ f \notin Required => Note(f) \in Seq(Step) /\ Range(Note(f)) = {[fact |-> f, how |-> "note"]}
         /\ f \notin Required => Use(f) \in Seq(Step) /\ Range(Use(f)) = {[fact |-> f, how |-> "use"]}
         /\ f \in Required => Must(f) \in Seq(Step) /\ Range(Must(f)) = {[fact |-> f, how |-> "must"]}
BY DEF Note, Use, Must, Step, Range

(* Reads one after another.                                                *)
LEMMA Reads ==
  ASSUME NEW a \in Seq(Step), NEW b \in Seq(Step)
  PROVE  a \o b \in Seq(Step) /\ Range(a \o b) = Range(a) \cup Range(b)
BY ConcatProperties, RangeConcatenation

(* Three of them.                                                          *)
LEMMA Reads3 ==
  ASSUME NEW a \in Seq(Step), NEW b \in Seq(Step), NEW c \in Seq(Step)
  PROVE  (a \o b) \o c \in Seq(Step) /\ Range((a \o b) \o c) = Range(a) \cup Range(b) \cup Range(c)
<1> DEFINE d == a \o b
<1>1. d \in Seq(Step) /\ Range(d) = Range(a) \cup Range(b)
  BY Reads
<1> HIDE DEF d
<1>2. d \o c \in Seq(Step) /\ Range(d \o c) = Range(d) \cup Range(c)
  BY <1>1, Reads
<1> QED BY <1>1, <1>2 DEF d

(* A note checks, and so does what must be 0.                               *)
LEMMA ReadChecks ==
  ASSUME NEW s, NEW f, NEW how \in {"note", "must"}, [fact |-> f, how |-> how] \in Range(s)
  PROVE  ChecksFact(s, f)
BY DEF ChecksFact

(* None.                                                                   *)
LEMMA NoRead == <<>> \in Seq(Step) /\ Range(<<>>) = {}
BY DEF Range

(* A sequence that uses nothing git acts on settles.                       *)
LEMMA NothingUsed ==
  ASSUME NEW acts, NEW s \in Seq(Step), \A x \in Range(s) : x.how = "use" => x.fact \notin acts
  PROVE  Settles(s, acts)
<1>1. \A i \in 1..Len(s) : s[i] \in Range(s)
  BY RangeEquality
<1> QED BY <1>1 DEF Settles

(* What is used first may be checked by what is read next.                 *)
LEMMA CheckedNext ==
  ASSUME NEW acts, NEW a \in Seq(Step), NEW b \in Seq(Step), Settles(b, acts),
         \A x \in Range(a) : x.how = "use" /\ x.fact \in acts => ChecksFact(b, x.fact)
  PROVE  Settles(a \o b, acts)
<1> DEFINE c == a \o b
<1>1. /\ c \in Seq(Step) /\ Len(c) = Len(a) + Len(b) /\ Len(a) \in Nat /\ Len(b) \in Nat
      /\ \A i \in 1..(Len(a) + Len(b)) : c[i] = IF i <= Len(a) THEN a[i] ELSE b[i - Len(a)]
  BY ConcatProperties, LenProperties
<1> HIDE DEF c
<1> SUFFICES ASSUME NEW i \in 1..Len(c), c[i].fact \in acts
             PROVE  \E j \in i..Len(c) : c[j].fact = c[i].fact /\ c[j].how # "use"
  BY DEF Settles, c
<1>2. CASE i <= Len(a) /\ c[i].how = "use"
  <2>1. c[i] = a[i] /\ a[i] \in Range(a)
    BY <1>1, <1>2, RangeEquality
  <2>2. PICK x \in Range(b) : x.fact = c[i].fact /\ x.how # "use"
    BY <2>1, <1>2 DEF ChecksFact
  <2>3. PICK k \in 1..Len(b) : b[k] = x
    BY RangeEquality
  <2>4. Len(a) + k \in i..Len(c) /\ ~(Len(a) + k <= Len(a)) /\ Len(a) + k - Len(a) = k
    BY <1>1, <1>2
  <2>5. c[Len(a) + k] = b[k]
    BY <1>1, <2>4
  <2> QED BY <2>2, <2>3, <2>4, <2>5
<1>3. CASE i <= Len(a) /\ c[i].how # "use"
  <2>1. i \in i..Len(c)
    BY <1>1
  <2> QED BY <1>3, <2>1
<1>4. CASE ~(i <= Len(a))
  <2>1. i - Len(a) \in 1..Len(b) /\ i \in 1..(Len(a) + Len(b))
    BY <1>1, <1>4
  <2>2. c[i] = b[i - Len(a)]
    BY <1>1, <1>4, <2>1
  <2>3. PICK j \in (i - Len(a))..Len(b) : b[j].fact = b[i - Len(a)].fact /\ b[j].how # "use"
    BY <2>1, <2>2 DEF Settles
  <2>4. Len(a) + j \in i..Len(c) /\ ~(Len(a) + j <= Len(a)) /\ Len(a) + j - Len(a) = j
    BY <1>1, <1>4, <2>1
  <2>5. c[Len(a) + j] = b[j]
    BY <1>1, <2>4
  <2> QED BY <2>2, <2>3, <2>4, <2>5
<1> QED BY <1>2, <1>3, <1>4

(* The rest of a sequence settles too; its head is settled there, or here. *)
LEMMA Onwards ==
  ASSUME NEW acts, NEW s \in Seq(Step), s # <<>>, Settles(s, acts)
  PROVE  /\ Head(s) \in Step /\ Tail(s) \in Seq(Step) /\ Settles(Tail(s), acts)
         /\ Range(s) = {Head(s)} \cup Range(Tail(s))
         /\ Head(s).fact \in acts /\ Head(s).how = "use" => ChecksFact(Tail(s), Head(s).fact)
<1> DEFINE t == Tail(s)
<1>1. /\ Head(s) \in Step /\ Head(s) = s[1] /\ t \in Seq(Step) /\ Len(s) \in Nat \ {0} /\ Len(t) = Len(s) - 1
      /\ \A i \in 1..Len(t) : t[i] = s[i + 1]
  BY HeadTailProperties, EmptySeq
<1> HIDE DEF t
<1>2. Settles(t, acts)
  <2> SUFFICES ASSUME NEW i \in 1..Len(t), t[i].fact \in acts
               PROVE  \E j \in i..Len(t) : t[j].fact = t[i].fact /\ t[j].how # "use"
    BY DEF Settles
  <2>1. PICK j \in (i + 1)..Len(s) : s[j].fact = s[i + 1].fact /\ s[j].how # "use"
    BY <1>1 DEF Settles
  <2>2. j - 1 \in i..Len(t) /\ t[j - 1] = s[j]
    BY <1>1
  <2> QED BY <2>1, <2>2, <1>1
<1>3. Range(s) = {Head(s)} \cup Range(t)
  <2>1. Range(s) = {s[i] : i \in 1..Len(s)} /\ Range(t) = {t[i] : i \in 1..Len(t)}
    BY <1>1, RangeEquality
  <2>2. ASSUME NEW x \in Range(s) PROVE x \in {Head(s)} \cup Range(t)
    <3>1. PICK i \in 1..Len(s) : x = s[i]
      BY <2>1
    <3>2. CASE i = 1
      BY <3>1, <3>2, <1>1
    <3>3. CASE i # 1
      <4>1. i - 1 \in 1..Len(t) /\ t[i - 1] = s[i]
        BY <3>3, <1>1
      <4> QED BY <4>1, <3>1, <2>1
    <3> QED BY <3>2, <3>3
  <2>3. ASSUME NEW x \in Range(t) PROVE x \in Range(s)
    <3>1. PICK i \in 1..Len(t) : x = t[i]
      BY <2>1
    <3>2. i + 1 \in 1..Len(s) /\ t[i] = s[i + 1]
      BY <1>1
    <3> QED BY <3>1, <3>2, <2>1
  <2>4. Head(s) \in Range(s)
    BY <2>1, <1>1
  <2> QED BY <2>2, <2>3, <2>4
<1>4. ASSUME Head(s).fact \in acts, Head(s).how = "use" PROVE ChecksFact(t, Head(s).fact)
  <2>1. PICK j \in 1..Len(s) : s[j].fact = s[1].fact /\ s[j].how # "use"
    BY <1>1, <1>4 DEF Settles
  <2>2. j - 1 \in 1..Len(t) /\ t[j - 1] = s[j]
    BY <2>1, <1>1, <1>4
  <2> QED BY <2>1, <2>2, <1>1, RangeEquality DEF ChecksFact
<1> QED BY <1>1, <1>2, <1>3, <1>4 DEF t

-----------------------------------------------------------------------------
(* The reads of the operations.                                            *)

(* The parts the plans are made of.                                        *)
LEMMA Parts ==
  /\ Repository \in Seq(Step) /\ Range(Repository) = {[fact |-> "root", how |-> "note"]}
  /\ FilePath \in Seq(Step) /\ Range(FilePath) = {[fact |-> "inside", how |-> "must"]}
  /\ Prepare \in Seq(Step)
  /\ Range(Prepare) = {[fact |-> "root", how |-> "note"], [fact |-> "inside", how |-> "must"],
                       [fact |-> "plain", how |-> "must"], [fact |-> "index", how |-> "use"],
                       [fact |-> "file", how |-> "use"]}
  /\ Arguments \in Seq(Step)
  /\ Range(Arguments) = {[fact |-> "head", how |-> "use"], [fact |-> "index", how |-> "use"]}
  /\ SyncHead \in Seq(Step)
  /\ Range(SyncHead) = {[fact |-> "branch", how |-> "note"], [fact |-> "head", how |-> "note"]}
<1>1. Repository \in Seq(Step) /\ Range(Repository) = {[fact |-> "root", how |-> "note"]}
  BY OneRead DEF Repository, Facts, Required
<1>2. FilePath \in Seq(Step) /\ Range(FilePath) = {[fact |-> "inside", how |-> "must"]}
  BY OneRead DEF FilePath, Facts, Required
<1>3. /\ Must("plain") \in Seq(Step) /\ Range(Must("plain")) = {[fact |-> "plain", how |-> "must"]}
      /\ Use("index") \in Seq(Step) /\ Range(Use("index")) = {[fact |-> "index", how |-> "use"]}
      /\ Use("file") \in Seq(Step) /\ Range(Use("file")) = {[fact |-> "file", how |-> "use"]}
      /\ Use("head") \in Seq(Step) /\ Range(Use("head")) = {[fact |-> "head", how |-> "use"]}
      /\ Note("branch") \in Seq(Step) /\ Range(Note("branch")) = {[fact |-> "branch", how |-> "note"]}
      /\ Note("head") \in Seq(Step) /\ Range(Note("head")) = {[fact |-> "head", how |-> "note"]}
  BY OneRead DEF Facts, Required
<1>4. /\ Repository \o FilePath \in Seq(Step)
      /\ Range(Repository \o FilePath) = Range(Repository) \cup Range(FilePath)
  BY <1>1, <1>2, Reads
<1>5. /\ (Repository \o FilePath) \o Must("plain") \in Seq(Step)
      /\ Range((Repository \o FilePath) \o Must("plain"))
           = Range(Repository \o FilePath) \cup Range(Must("plain"))
  BY <1>3, <1>4, Reads
<1>6. /\ ((Repository \o FilePath) \o Must("plain")) \o Use("index") \in Seq(Step)
      /\ Range(((Repository \o FilePath) \o Must("plain")) \o Use("index"))
           = Range((Repository \o FilePath) \o Must("plain")) \cup Range(Use("index"))
  BY <1>3, <1>5, Reads
<1>7. Prepare \in Seq(Step)
      /\ Range(Prepare) = Range(((Repository \o FilePath) \o Must("plain")) \o Use("index")) \cup Range(Use("file"))
  BY <1>3, <1>6, Reads DEF Prepare
<1>8. Arguments \in Seq(Step) /\ Range(Arguments) = Range(Use("head")) \cup Range(Use("index"))
  BY <1>3, Reads DEF Arguments
<1>9. SyncHead \in Seq(Step) /\ Range(SyncHead) = Range(Note("branch")) \cup Range(Note("head"))
  BY <1>3, Reads DEF SyncHead
<1> QED BY <1>1, <1>2, <1>3, <1>4, <1>5, <1>6, <1>7, <1>8, <1>9

(* The two reads of the directories on the way to a file.                  *)
WalkReads == {[fact |-> "dirs", how |-> "mark"], [fact |-> "dirs", how |-> "note"]}

(* A file is noted on a way that is marked and noted, and nothing is used. *)
LEMMA EntryDrops ==
  ASSUME NEW f \in {"file", "old"}
  PROVE  /\ WorkingEntry(f) \in Seq(Step)
         /\ Range(WorkingEntry(f)) = WalkReads \cup {[fact |-> f, how |-> "note"]}
<1> DEFINE m == Mark("dirs")
           d == Note("dirs")
           n == Note(f)
<1>1. /\ d \in Seq(Step) /\ Range(d) = {[fact |-> "dirs", how |-> "note"]}
      /\ n \in Seq(Step) /\ Range(n) = {[fact |-> f, how |-> "note"]}
  BY OneRead DEF Facts, Required
<1>2. m \in Seq(Step) /\ Range(m) = {[fact |-> "dirs", how |-> "mark"]}
  BY DEF Mark, Step, Range, Facts, Required
<1> HIDE DEF m, d, n
<1> DEFINE v == (m \o n) \o n
           w == (v \o n) \o n
<1>3. v \in Seq(Step) /\ Range(v) = Range(m) \cup Range(n)
  BY <1>1, <1>2, Reads3
<1> HIDE DEF v
<1>4. w \in Seq(Step) /\ Range(w) = Range(m) \cup Range(n)
  BY <1>1, <1>3, Reads3
<1> HIDE DEF w
<1>5. (w \o d) \o n \in Seq(Step) /\ Range((w \o d) \o n) = Range(m) \cup Range(d) \cup Range(n)
  BY <1>1, <1>4, Reads3
<1>6. WorkingEntry(f) = (w \o d) \o n
  BY DEF WorkingEntry, m, d, n, v, w
<1> QED BY <1>1, <1>2, <1>5, <1>6 DEF WalkReads

(* The identity of a file covers whatever its operation uses.              *)
LEMMA IdentityNotes ==
  ASSUME NEW op
  PROVE  /\ Identity(op) \in Seq(Step)
         /\ Range(Identity(op)) =
              WalkReads \cup {[fact |-> f, how |-> "note"] :
                            f \in {"branch", "head", "index", "file"}
                                 \cup (IF op = "discard_rename" THEN {"old"} ELSE {})}
<1> DEFINE e == IF op = "discard_rename" THEN WorkingEntry("old") ELSE <<>>
           n1 == Note("branch") \o Note("head")
           n2 == n1 \o Note("index")
           n3 == n2 \o WorkingEntry("file")
<1>1. /\ Note("branch") \in Seq(Step) /\ Range(Note("branch")) = {[fact |-> "branch", how |-> "note"]}
      /\ Note("head") \in Seq(Step) /\ Range(Note("head")) = {[fact |-> "head", how |-> "note"]}
      /\ Note("index") \in Seq(Step) /\ Range(Note("index")) = {[fact |-> "index", how |-> "note"]}
  BY OneRead DEF Facts, Required
<1>2. /\ e \in Seq(Step)
      /\ Range(e) = IF op = "discard_rename"
                    THEN WalkReads \cup {[fact |-> "old", how |-> "note"]} ELSE {}
  BY EntryDrops, NoRead
<1>3. n1 \in Seq(Step) /\ Range(n1) = Range(Note("branch")) \cup Range(Note("head"))
  BY <1>1, Reads
<1> HIDE DEF n1, e
<1>4. n2 \in Seq(Step) /\ Range(n2) = Range(n1) \cup Range(Note("index"))
  BY <1>1, <1>3, Reads
<1> HIDE DEF n2
<1>5. n3 \in Seq(Step) /\ Range(n3) = Range(n2) \cup Range(WorkingEntry("file"))
  BY <1>4, EntryDrops, Reads
<1> HIDE DEF n3
<1>6. n3 \o e \in Seq(Step) /\ Range(n3 \o e) = Range(n3) \cup Range(e)
  BY <1>2, <1>5, Reads
<1>7. Identity(op) = n3 \o e
  BY DEF Identity, e, n1, n2, n3
<1>8. Range(WorkingEntry("file")) = WalkReads \cup {[fact |-> "file", how |-> "note"]}
  BY EntryDrops
<1> QED BY <1>1, <1>2, <1>3, <1>4, <1>5, <1>6, <1>7, <1>8

(* A fetch notes the folder, the repository, the branch and the remotes.   *)
LEMMA Fetched ==
  /\ FetchSelection \in Seq(Step)
  /\ Range(FetchSelection) = {[fact |-> f, how |-> "note"] : f \in {"root", "repo", "branch", "config"}}
<1> DEFINE r == Note("repo")
           b == Note("branch")
           c == Note("config")
           s1 == (Repository \o r) \o b
           s2 == (s1 \o c) \o Repository
           s3 == (s2 \o r) \o b
<1>1. /\ r \in Seq(Step) /\ Range(r) = {[fact |-> "repo", how |-> "note"]}
      /\ b \in Seq(Step) /\ Range(b) = {[fact |-> "branch", how |-> "note"]}
      /\ c \in Seq(Step) /\ Range(c) = {[fact |-> "config", how |-> "note"]}
  BY OneRead DEF Facts, Required
<1> HIDE DEF r, b, c
<1>2. s1 \in Seq(Step) /\ Range(s1) = Range(Repository) \cup Range(r) \cup Range(b)
  BY <1>1, Parts, Reads3
<1> HIDE DEF s1
<1>3. s2 \in Seq(Step) /\ Range(s2) = Range(s1) \cup Range(c) \cup Range(Repository)
  BY <1>1, <1>2, Parts, Reads3
<1> HIDE DEF s2
<1>4. s3 \in Seq(Step) /\ Range(s3) = Range(s2) \cup Range(r) \cup Range(b)
  BY <1>1, <1>3, Reads3
<1>5. FetchSelection = s3
  BY DEF FetchSelection, s1, s2, r, b, c
<1> QED BY <1>1, <1>2, <1>3, <1>4, <1>5, Parts

(* A removal notes folder, repository and worktree and requires the last.  *)
LEMMA Selected ==
  /\ WorktreeSelection \in Seq(Step)
  /\ Range(WorktreeSelection) = {[fact |-> "root", how |-> "note"], [fact |-> "repo", how |-> "note"],
                                 [fact |-> "worktree", how |-> "note"], [fact |-> "listed", how |-> "must"]}
<1> DEFINE r == Note("repo")
           w == Note("worktree")
           l == Must("listed")
           s1 == (Repository \o Repository) \o l
           s2 == (s1 \o r) \o w
<1>1. /\ r \in Seq(Step) /\ Range(r) = {[fact |-> "repo", how |-> "note"]}
      /\ w \in Seq(Step) /\ Range(w) = {[fact |-> "worktree", how |-> "note"]}
      /\ l \in Seq(Step) /\ Range(l) = {[fact |-> "listed", how |-> "must"]}
  BY OneRead DEF Facts, Required
<1> HIDE DEF r, w, l
<1>2. s1 \in Seq(Step) /\ Range(s1) = Range(Repository) \cup Range(l)
  BY <1>1, Parts, Reads3
<1> HIDE DEF s1
<1>3. s2 \in Seq(Step) /\ Range(s2) = Range(s1) \cup Range(r) \cup Range(w)
  BY <1>1, <1>2, Reads3
<1> HIDE DEF s2
<1>4. s2 \o l \in Seq(Step) /\ Range(s2 \o l) = Range(s2) \cup Range(l)
  BY <1>1, <1>3, Reads
<1>5. WorktreeSelection = s2 \o l
  BY DEF WorktreeSelection, s1, s2, r, w, l
<1> QED BY <1>1, <1>2, <1>3, <1>4, <1>5, Parts

(* The plan of a file mutation reads, and then identifies what it read.    *)
LEMMA Planned ==
  ASSUME NEW op
  PROVE  /\ FilePlan(op) \in Seq(Step)
         /\ Range(FilePlan(op)) =
              {[fact |-> "inside", how |-> "must"]} \cup Range(Identity(op))
                \cup (IF op = "delete_untracked" THEN {} ELSE Range(Arguments))
         /\ \A acts : Settles(FilePlan(op), acts)
<1> DEFINE a == IF op = "delete_untracked" THEN <<>> ELSE Arguments
           s1 == (FilePath \o a) \o FilePath
<1>1. a \in Seq(Step) /\ Range(a) = IF op = "delete_untracked" THEN {} ELSE Range(Arguments)
  BY Parts, NoRead
<1> HIDE DEF a
<1>3. s1 \in Seq(Step) /\ Range(s1) = Range(FilePath) \cup Range(a)
  BY <1>1, Parts, Reads3
<1> HIDE DEF s1
<1>4. Identity(op) \in Seq(Step)
  BY IdentityNotes
<1>5. s1 \o Identity(op) \in Seq(Step) /\ Range(s1 \o Identity(op)) = Range(s1) \cup Range(Identity(op))
  BY <1>3, <1>4, Reads
<1>6. FilePlan(op) = s1 \o Identity(op)
  BY DEF FilePlan, s1, a
<1>7. \A x \in Range(Identity(op)) : x.how # "use"
  BY IdentityNotes DEF WalkReads
<1>8. \A acts : Settles(Identity(op), acts)
  BY <1>4, <1>7, NothingUsed
<1>9. \A x \in Range(s1) : x.how = "use" => ChecksFact(Identity(op), x.fact)
  <2> SUFFICES ASSUME NEW x \in Range(s1), x.how = "use" PROVE ChecksFact(Identity(op), x.fact)
    OBVIOUS
  <2>1. x.fact \in {"head", "index"}
    BY <1>1, <1>3, Parts
  <2>2. [fact |-> x.fact, how |-> "note"] \in Range(Identity(op))
    BY <2>1, IdentityNotes
  <2> QED BY <2>2 DEF ChecksFact
<1>10. \A acts : Settles(s1 \o Identity(op), acts)
  BY <1>3, <1>4, <1>8, <1>9, CheckedNext
<1> QED BY <1>1, <1>3, <1>5, <1>6, <1>10, Parts

(* Everything git acts on and that need not be 0 is noted by the preview.  *)
LEMMA Previewed ==
  ASSUME operation \in Operations
  PROVE  /\ Preview(operation) \in Seq(Step)
         /\ \A f \in ActsOn \ Required : [fact |-> f, how |-> "note"] \in Range(Preview(operation))
<1>1. CASE operation \in Destructive
  <2> DEFINE s == (Prepare \o FilePlan(operation)) \o Repository
  <2>1. s \in Seq(Step) /\ Range(s) = Range(Prepare) \cup Range(FilePlan(operation)) \cup Range(Repository)
    BY Parts, Planned, Reads3
  <2>2. Preview(operation) = s
    BY <1>1 DEF Preview, Destructive
  <2> HIDE DEF s
  <2>3. Range(Identity(operation)) \subseteq Range(s) /\ Range(Repository) \subseteq Range(s)
    BY <2>1, Planned
  <2>4. [fact |-> "root", how |-> "note"] \in Range(s)
    BY <2>3, Parts
  <2>5. \A f \in {"branch", "head", "index", "file"} : [fact |-> f, how |-> "note"] \in Range(s)
    BY <2>3, IdentityNotes
  <2>6. operation = "discard_rename" => [fact |-> "old", how |-> "note"] \in Range(s)
    BY <2>3, IdentityNotes
  <2> QED BY <1>1, <2>1, <2>2, <2>4, <2>5, <2>6 DEF ActsOn, Destructive
<1>2. CASE operation = "repo_sync"
  <2>1. Preview(operation) = SyncHead
    BY <1>2 DEF Preview, Destructive
  <2> QED BY <1>2, <2>1, Parts DEF ActsOn
<1>3. CASE operation = "repo_fetch"
  <2>1. Preview(operation) = FetchSelection \o FetchSelection
    BY <1>3 DEF Preview, Destructive
  <2>2. FetchSelection \o FetchSelection \in Seq(Step) /\ Range(FetchSelection \o FetchSelection) = Range(FetchSelection)
    BY Fetched, Reads
  <2> QED BY <1>3, <2>1, <2>2, Fetched DEF ActsOn
<1>4. CASE operation = "worktree_remove"
  <2>1. Preview(operation) = WorktreeSelection \o WorktreeSelection
    BY <1>4 DEF Preview, Destructive
  <2>2. /\ WorktreeSelection \o WorktreeSelection \in Seq(Step)
        /\ Range(WorktreeSelection \o WorktreeSelection) = Range(WorktreeSelection)
    BY Selected, Reads
  <2> QED BY <1>4, <2>1, <2>2, Selected DEF ActsOn, Required
<1>5. CASE operation = "worktree_create"
  <2>1. Preview(operation) = (Repository \o Must("dest")) \o Repository
    BY <1>5 DEF Preview, Destructive
  <2>2. Must("dest") \in Seq(Step)
    BY OneRead DEF Facts, Required
  <2> DEFINE s == (Repository \o Must("dest")) \o Repository
  <2>3. s \in Seq(Step) /\ Range(Repository) \subseteq Range(s)
    BY <2>2, Parts, Reads3
  <2> HIDE DEF s
  <2> QED BY <1>5, <2>1, <2>3, Parts DEF ActsOn, Required, s
<1>6. CASE operation = "stage"
  <2>1. Preview(operation) = <<>>
    BY <1>6 DEF Preview, Destructive
  <2> QED BY <1>6, <2>1, NoRead DEF ActsOn, Required
<1> QED BY <1>1, <1>2, <1>3, <1>4, <1>5, <1>6 DEF Operations, Destructive

(* Executing checks everything git acts on, after using it.                *)
LEMMA ExecutedReads ==
  ASSUME operation \in Operations
  PROVE  /\ Execute(operation) \in Seq(Step)
         /\ Settles(Execute(operation), ActsOn)
         /\ \A f \in ActsOn : ChecksFact(Execute(operation), f)
<1>1. CASE operation \in Destructive
  <2> DEFINE a == Prepare \o Repository
             s == a \o FilePlan(operation)
  <2>1. a \in Seq(Step) /\ Range(a) = Range(Prepare) \cup Range(Repository)
    BY Parts, Reads
  <2> HIDE DEF a
  <2>2. s \in Seq(Step) /\ Range(s) = Range(a) \cup Range(FilePlan(operation))
    BY <2>1, Planned, Reads
  <2>3. Range(Identity(operation)) \subseteq Range(FilePlan(operation))
    BY Planned
  <2>4. \A f \in {"branch", "head", "index", "file"} :
          [fact |-> f, how |-> "note"] \in Range(FilePlan(operation))
    BY <2>3, IdentityNotes
  <2>5. \A x \in Range(a) : x.how = "use" => x.fact \in {"index", "file"}
    BY <2>1, Parts
  <2>6. \A x \in Range(a) : x.how = "use" => ChecksFact(FilePlan(operation), x.fact)
    BY <2>4, <2>5 DEF ChecksFact
  <2>7. Settles(s, ActsOn)
    BY <2>1, <2>6, Planned, CheckedNext
  <2>8. Execute(operation) = s
    BY <1>1 DEF Execute, Destructive, a
  <2> HIDE DEF s
  <2>9. \A f \in {"branch", "head", "index", "file"} : ChecksFact(s, f)
    BY <2>2, <2>4 DEF ChecksFact
  <2>10. ChecksFact(s, "root")
    <3>1. [fact |-> "root", how |-> "note"] \in Range(s)
      BY <2>1, <2>2, Parts
    <3> QED BY <3>1, ReadChecks
  <2>11. operation = "discard_rename" => [fact |-> "old", how |-> "note"] \in Range(s)
    BY <2>2, <2>3, IdentityNotes
  <2>12. operation = "discard_rename" => ChecksFact(s, "old")
    BY <2>11 DEF ChecksFact
  <2> QED BY <1>1, <2>2, <2>7, <2>8, <2>9, <2>10, <2>12 DEF ActsOn, Destructive
<1>2. CASE operation = "repo_sync"
  <2> DEFINE u == Use("branch")
             b == (Repository \o SyncHead) \o u
             a == b \o Repository
             s == a \o SyncHead
  <2>1. u \in Seq(Step) /\ Range(u) = {[fact |-> "branch", how |-> "use"]}
    BY OneRead DEF Facts, Required
  <2> HIDE DEF u
  <2>2. b \in Seq(Step) /\ Range(b) = Range(Repository) \cup Range(SyncHead) \cup Range(u)
    BY <2>1, Parts, Reads3
  <2> HIDE DEF b
  <2>3. a \in Seq(Step) /\ Range(a) = Range(Repository) \cup Range(SyncHead) \cup Range(u)
    BY <2>2, Parts, Reads
  <2> HIDE DEF a
  <2>4. Settles(SyncHead, ActsOn)
    BY Parts, NothingUsed
  <2>5. \A x \in Range(a) : x.how = "use" => ChecksFact(SyncHead, x.fact)
    BY <2>1, <2>3, Parts DEF ChecksFact
  <2>6. Settles(s, ActsOn)
    BY <2>3, <2>4, <2>5, Parts, CheckedNext
  <2>7. s \in Seq(Step) /\ Range(s) = Range(a) \cup Range(SyncHead)
    BY <2>3, Parts, Reads
  <2>8. Execute(operation) = s
    BY <1>2 DEF Execute, Destructive, a, b, u
  <2> HIDE DEF s
  <2>9. ChecksFact(s, "branch") /\ ChecksFact(s, "head")
    <3>1. [fact |-> "branch", how |-> "note"] \in Range(s) /\ [fact |-> "head", how |-> "note"] \in Range(s)
      BY <2>7, Parts
    <3> QED BY <3>1, ReadChecks
  <2> QED BY <1>2, <2>6, <2>7, <2>8, <2>9 DEF ActsOn
<1>3. CASE operation = "repo_fetch"
  <2> DEFINE s == FetchSelection \o FetchSelection
  <2>1. Execute(operation) = s
    BY <1>3 DEF Execute, Destructive
  <2>2. s \in Seq(Step) /\ Range(s) = Range(FetchSelection)
    BY Fetched, Reads
  <2> HIDE DEF s
  <2>3. Settles(s, ActsOn)
    BY <2>2, Fetched, NothingUsed
  <2>4. \A f \in {"root", "repo", "branch", "config"} : ChecksFact(s, f)
    <3>1. \A f \in {"root", "repo", "branch", "config"} : [fact |-> f, how |-> "note"] \in Range(s)
      BY <2>2, Fetched
    <3> QED BY <3>1, ReadChecks
  <2> QED BY <1>3, <2>1, <2>2, <2>3, <2>4 DEF ActsOn
<1>4. CASE operation = "worktree_remove"
  <2> DEFINE s == WorktreeSelection \o WorktreeSelection
  <2>1. Execute(operation) = s
    BY <1>4 DEF Execute, Destructive
  <2>2. s \in Seq(Step) /\ Range(s) = Range(WorktreeSelection)
    BY Selected, Reads
  <2> HIDE DEF s
  <2>3. Settles(s, ActsOn)
    BY <2>2, Selected, NothingUsed
  <2>4. \A f \in {"root", "repo", "worktree", "listed"} : ChecksFact(s, f)
    BY <2>2, Selected DEF ChecksFact
  <2> QED BY <1>4, <2>1, <2>2, <2>3, <2>4 DEF ActsOn
<1>5. CASE operation = "worktree_create"
  <2> DEFINE d == Must("dest")
             s == (Repository \o d) \o Repository
  <2>1. d \in Seq(Step) /\ Range(d) = {[fact |-> "dest", how |-> "must"]}
    BY OneRead DEF Facts, Required
  <2>2. Execute(operation) = s
    BY <1>5 DEF Execute, Destructive
  <2> HIDE DEF d
  <2>3. s \in Seq(Step) /\ Range(s) = Range(Repository) \cup Range(d)
    BY <2>1, Parts, Reads3
  <2> HIDE DEF s
  <2>4. Settles(s, ActsOn)
    BY <2>1, <2>3, Parts, NothingUsed
  <2>5. ChecksFact(s, "root") /\ ChecksFact(s, "dest")
    BY <2>1, <2>3, Parts DEF ChecksFact
  <2> QED BY <1>5, <2>2, <2>3, <2>4, <2>5 DEF ActsOn
<1>6. CASE operation = "stage"
  <2> DEFINE a == (Prepare \o Repository) \o Arguments
             s == a \o FilePath
  <2>1. a \in Seq(Step) /\ Range(a) = Range(Prepare) \cup Range(Repository) \cup Range(Arguments)
    BY Parts, Reads3
  <2>2. Execute(operation) = s
    BY <1>6 DEF Execute, Destructive
  <2> HIDE DEF a
  <2>3. s \in Seq(Step) /\ Range(s) = Range(a) \cup Range(FilePath)
    BY <2>1, Parts, Reads
  <2> HIDE DEF s
  <2>4. ActsOn = {"inside", "plain"}
    BY <1>6 DEF ActsOn
  <2>5. \A x \in Range(s) : x.how = "use" => x.fact \notin ActsOn
    BY <2>1, <2>3, <2>4, Parts
  <2>6. Settles(s, ActsOn)
    BY <2>3, <2>5, NothingUsed
  <2>7. ChecksFact(s, "inside") /\ ChecksFact(s, "plain")
    BY <2>1, <2>3, Parts DEF ChecksFact
  <2> QED BY <2>2, <2>3, <2>4, <2>6, <2>7
<1> QED BY <1>1, <1>2, <1>3, <1>4, <1>5, <1>6 DEF Operations, Destructive

-----------------------------------------------------------------------------
(* The invariant.                                                          *)

(* Versions only grow, and nobody has seen one that is still to come.      *)
Versions ==
  /\ facts \in [Facts -> Nat] /\ confirmed \in [Facts -> Nat] /\ changes \in 0..MaxChanges
  /\ token \in [Facts -> SUBSET Nat] /\ used \in [Facts -> SUBSET Nat]
  /\ \A f \in Facts : facts[f] <= changes /\ confirmed[f] <= facts[f]
  /\ \A f \in Facts : \A v \in token[f] \cup used[f] : v <= facts[f]

Control ==
  /\ operation \in Operations /\ todo \in Seq(Step)
  /\ phase \in {"preview", "asking", "execute", "end"}
  /\ input \in Seq({"initialize", "mutation", "other"}) /\ scope \in BOOLEAN

(* A preview notes everything by its end.                                  *)
Shown ==
  phase = "preview" =>
    \A f \in ActsOn \ Required : token[f] # {} \/ [fact |-> f, how |-> "note"] \in Range(todo)

(* What the user saw is older than the confirmation.                       *)
Seen ==
  phase \in {"asking", "execute"} =>
    \A f \in ActsOn \ Required : token[f] # {} /\ \A v \in token[f] : v <= confirmed[f]

(* What was used is younger; it is as confirmed, or a check is to come.    *)
FactsChecked ==
  phase = "execute" =>
    /\ Settles(todo, ActsOn)
    /\ \A f \in ActsOn :
         /\ \A w \in used[f] : confirmed[f] <= w
         /\ ChecksFact(todo, f) \/ used[f] = {confirmed[f]}

Once ==
  /\ phase = "end" => gits \in {0, 1}
  /\ phase # "end" => gits = 0
  /\ phase \in {"preview", "asking"} => used = Unread

Inv == Versions /\ Control /\ Shown /\ Seen /\ FactsChecked /\ Once /\ RunsAsConfirmed

(* Git acts on facts.                                                      *)
LEMMA ActsOnFacts == operation \in Operations => ActsOn \subseteq Facts
BY DEF Operations, ActsOn, Facts

(* At the start the preview has everything to read.                        *)
LEMMA InitInv == MutationInit => Inv
<1> SUFFICES ASSUME MutationInit PROVE Inv
  OBVIOUS
<1>1. operation \in Operations /\ todo = Preview(operation) /\ phase = "preview"
  BY DEF MutationInit
<1>2. /\ todo \in Seq(Step)
      /\ \A f \in ActsOn \ Required : [fact |-> f, how |-> "note"] \in Range(todo)
  BY <1>1, Previewed
<1>3. Versions
  BY InputsAssumption DEF MutationInit, Versions, Unread
<1>4. Control
  BY <1>1, <1>2, EmptySeq DEF MutationInit, Control
<1>5. Shown /\ Seen /\ FactsChecked /\ Once /\ RunsAsConfirmed
  BY <1>1, <1>2 DEF MutationInit, Shown, Seen, FactsChecked, Once, RunsAsConfirmed
<1> QED BY <1>3, <1>4, <1>5 DEF Inv

(* A check of something git acts on finds it as it was when confirmed.     *)
LEMMA CheckConfirms ==
  ASSUME Inv, phase = "execute", NEW s \in Step, s.how # "use", s.fact \in ActsOn, ~Rejects(s)
  PROVE  facts[s.fact] = confirmed[s.fact]
<1>1. s.fact \in Facts /\ facts[s.fact] \in Nat /\ confirmed[s.fact] \in Nat /\ confirmed[s.fact] <= facts[s.fact]
  BY DEF Inv, Versions, Step
<1>2. CASE s.how = "must"
  BY <1>1, <1>2 DEF Rejects
<1>3. CASE s.how = "note"
  <2>1. s.fact \notin Required
    BY <1>3 DEF Step
  <2>2. token[s.fact] # {} /\ \A v \in token[s.fact] : v <= confirmed[s.fact]
    BY <2>1 DEF Inv, Seen
  <2>3. token[s.fact] \subseteq {facts[s.fact]}
    BY <1>3 DEF Rejects
  <2> QED BY <1>1, <2>2, <2>3
<1>4. s.how # "mark"
  <2>1. "dirs" \notin ActsOn
    BY DEF Inv, Control, Operations, ActsOn
  <2> QED BY <2>1 DEF Step
<1> QED BY <1>2, <1>3, <1>4 DEF Step

(* Every change, read, line and command keeps the invariant.               *)
LEMMA StepInv == Inv /\ [MutationNext]_mutationVars => Inv'
<1> SUFFICES ASSUME Inv, [MutationNext]_mutationVars PROVE Inv'
  OBVIOUS
<1>0. ActsOn \subseteq Facts
  BY ActsOnFacts DEF Inv, Control
<1>1. CASE Change
  <2>1. PICK f \in Facts : facts' = [facts EXCEPT ![f] = @ + 1]
    <3>1. PICK x \in Range(Preview(operation) \o Execute(operation)) : facts' = [facts EXCEPT ![x.fact] = @ + 1]
      BY <1>1 DEF Change
    <3>2. Range(Preview(operation) \o Execute(operation)) \subseteq Step
      BY Previewed, ExecutedReads, Reads, RangeOfSeq DEF Inv, Control
    <3> QED BY <3>1, <3>2 DEF Step
  <2>2. /\ phase \in {"preview", "asking", "execute"} /\ changes < MaxChanges /\ changes' = changes + 1
        /\ UNCHANGED <<operation, phase, todo, token, used, confirmed, input, scope, gits>>
    BY <1>1 DEF Change
  <2>3. Versions'
    BY <2>1, <2>2, InputsAssumption DEF Inv, Versions
  <2>4. Control' /\ Shown' /\ Seen' /\ FactsChecked' /\ Once' /\ RunsAsConfirmed'
    BY <2>2 DEF Inv, Control, Shown, Seen, FactsChecked, Once, RunsAsConfirmed, ActsOn
  <2> QED BY <2>3, <2>4 DEF Inv
<1>2. CASE ReadPreview
  <2> DEFINE s == Head(todo)
  <2>1. /\ phase = "preview" /\ todo # <<>>
        /\ UNCHANGED <<facts, changes, operation, used, confirmed, input, scope, gits>>
    BY <1>2 DEF ReadPreview
  <2>2. s \in Step /\ Tail(todo) \in Seq(Step) /\ Range(todo) = {s} \cup Range(Tail(todo))
    <3>1. Settles(todo, {})
      BY DEF Settles
    <3> QED BY <2>1, <3>1, Onwards DEF Inv, Control
  <2>3. CASE Rejects(s)
    <3>1. phase' = "end" /\ todo' = <<>> /\ token' = token
      BY <1>2, <2>3 DEF ReadPreview
    <3>2. Versions' /\ Control'
      BY <2>1, <3>1, NoRead DEF Inv, Versions, Control
    <3> QED BY <2>1, <3>1, <3>2 DEF Inv, Shown, Seen, FactsChecked, Once, RunsAsConfirmed
  <2>4. CASE ~Rejects(s)
    <3> HIDE DEF s
    <3>1. /\ phase' = phase /\ todo' = Tail(todo)
          /\ token' = IF s.how \in {"note", "mark"} THEN [token EXCEPT ![s.fact] = {facts[s.fact]}] ELSE token
      BY <1>2, <2>4 DEF ReadPreview, Noted, s
    <3>2. s.fact \in Facts
      BY <2>2 DEF Step
    <3>3. Versions'
      BY <2>1, <3>1, <3>2 DEF Inv, Versions
    <3>4. Control'
      BY <2>1, <2>2, <3>1 DEF Inv, Control
    <3>5. Shown'
      <4> SUFFICES ASSUME NEW f \in ActsOn \ Required
                   PROVE  token'[f] # {} \/ [fact |-> f, how |-> "note"] \in Range(todo')
        BY <2>1 DEF Shown, ActsOn
      <4>1. f \in Facts /\ (token[f] # {} \/ [fact |-> f, how |-> "note"] \in Range(todo))
        BY <1>0, <2>1 DEF Inv, Shown
      <4>2. CASE s = [fact |-> f, how |-> "note"]
        <5>1. token' = [token EXCEPT ![f] = {facts[f]}]
          BY <3>1, <4>2
        <5> QED BY <4>1, <5>1 DEF Inv, Versions
      <4>3. CASE s # [fact |-> f, how |-> "note"]
        <5>1. token[f] # {} => token'[f] # {}
          BY <3>1, <3>2, <4>1 DEF Inv, Versions
        <5> QED BY <2>2, <3>1, <4>1, <4>3, <5>1
      <4> QED BY <4>2, <4>3
    <3> QED BY <2>1, <3>1, <3>3, <3>4, <3>5 DEF Inv, Seen, FactsChecked, Once, RunsAsConfirmed
  <2> QED BY <2>3, <2>4
<1>3. CASE Confirm
  <2>1. /\ phase = "preview" /\ todo = <<>> /\ phase' = "asking" /\ confirmed' = facts /\ input' \in Inputs
        /\ UNCHANGED <<facts, changes, operation, todo, token, used, scope, gits>>
    BY <1>3 DEF Confirm
  <2>2. Versions' /\ Control'
    BY <2>1, InputsAssumption DEF Inv, Versions, Control
  <2>3. Seen'
    <3> SUFFICES ASSUME NEW f \in ActsOn \ Required
                 PROVE  token'[f] # {} /\ \A v \in token'[f] : v <= confirmed'[f]
      BY <2>1 DEF Seen, ActsOn
    <3>1. f \in Facts /\ token[f] # {}
      BY <1>0, <2>1, NoRead DEF Inv, Shown
    <3> QED BY <2>1, <3>1 DEF Inv, Versions
  <2> QED BY <2>1, <2>2, <2>3 DEF Inv, Shown, FactsChecked, Once, RunsAsConfirmed
<1>4. ASSUME Finished, phase \in {"asking", "execute"}, UNCHANGED <<facts, changes, operation, token, used, confirmed>>,
             scope' = scope, gits' = gits \/ (gits' = gits + 1 /\ phase = "execute" /\ todo = <<>>)
      PROVE  Inv'
  <2>1. phase' = "end" /\ todo' = <<>> /\ input' = <<>>
    BY <1>4 DEF Finished
  <2>2. Versions' /\ Control'
    BY <1>4, <2>1, NoRead DEF Inv, Versions, Control
  <2>3. gits = 0
    BY <1>4 DEF Inv, Once
  <2>4. RunsAsConfirmed'
    <3>1. CASE gits' = gits
      BY <2>3, <3>1 DEF RunsAsConfirmed
    <3>2. CASE gits' # gits
      <4>1. \A f \in ActsOn : ~ChecksFact(todo, f)
        BY <1>4, <3>2, NoRead DEF ChecksFact
      <4>2. \A f \in ActsOn : used[f] = {confirmed[f]}
        BY <1>4, <3>2, <4>1 DEF Inv, FactsChecked
      <4> QED BY <1>4, <4>2 DEF RunsAsConfirmed, ActsOn
    <3> QED BY <3>1, <3>2
  <2> QED BY <1>4, <2>1, <2>2, <2>3, <2>4 DEF Inv, Shown, Seen, FactsChecked, Once
<1>5. CASE ReadLine
  <2>1. /\ phase = "asking" /\ input # <<>>
        /\ UNCHANGED <<facts, changes, operation, used, confirmed, gits>>
    BY <1>5 DEF ReadLine
  <2>2. Tail(input) \in Seq({"initialize", "mutation", "other"})
    BY <2>1, HeadTailProperties DEF Inv, Control
  <2>3. CASE Finished /\ UNCHANGED <<scope, token>>
    BY <1>4, <2>1, <2>3
  <2>4. CASE /\ scope' = TRUE /\ input' = Tail(input) /\ ~Rejects(Repository[1])
             /\ token' = [token EXCEPT !["root"] = {facts["root"]}] /\ UNCHANGED <<phase, todo>>
    <3>1. "root" \in Facts /\ "root" \notin Required
      BY DEF Facts, Required
    <3>2. Versions'
      BY <2>1, <2>4, <3>1 DEF Inv, Versions
    <3>3. Control'
      BY <2>1, <2>2, <2>4 DEF Inv, Control
    <3>4. token["root"] \subseteq {facts["root"]}
      BY <2>4 DEF Rejects, Repository, Note
    <3>5. Seen'
      <4> SUFFICES ASSUME NEW f \in ActsOn \ Required
                   PROVE  token'[f] # {} /\ \A v \in token'[f] : v <= confirmed'[f]
        BY <2>1 DEF Seen, ActsOn
      <4>1. f \in Facts /\ token[f] # {} /\ \A v \in token[f] : v <= confirmed[f]
        BY <1>0, <2>1 DEF Inv, Seen
      <4>2. token'[f] = token[f]
        BY <2>4, <3>1, <3>4, <4>1 DEF Inv, Versions
      <4> QED BY <2>1, <4>1, <4>2
    <3> QED BY <2>1, <2>4, <3>2, <3>3, <3>5 DEF Inv, Shown, FactsChecked, Once, RunsAsConfirmed
  <2>5. CASE phase' = "execute" /\ todo' = Execute(operation) /\ input' = Tail(input) /\ UNCHANGED <<scope, token>>
    <3>1. operation \in Operations
      BY DEF Inv, Control
    <3>2. Versions'
      BY <2>1, <2>5 DEF Inv, Versions
    <3>3. Control'
      BY <2>1, <2>2, <2>5, <3>1, ExecutedReads DEF Inv, Control
    <3>4. ActsOn' = ActsOn
      BY <2>1 DEF ActsOn
    <3>5. Seen'
      BY <2>1, <2>5, <3>4 DEF Inv, Seen
    <3>6. Settles(todo', ActsOn') /\ \A f \in ActsOn' : ChecksFact(todo', f)
      BY <2>5, <3>1, <3>4, ExecutedReads
    <3>7. used' = Unread
      BY <2>1 DEF Inv, Once
    <3>8. FactsChecked'
      BY <1>0, <3>4, <3>6, <3>7 DEF FactsChecked, Unread
    <3> QED BY <2>1, <2>5, <3>2, <3>3, <3>5, <3>8 DEF Inv, Shown, Once, RunsAsConfirmed
  <2> QED BY <1>5, <2>3, <2>4, <2>5 DEF ReadLine
<1>6. CASE Closed
  BY <1>4, <1>6 DEF Closed
<1>7. CASE ReadAgain
  <2> DEFINE s == Head(todo)
  <2>1. /\ phase = "execute" /\ todo # <<>>
        /\ UNCHANGED <<facts, changes, operation, confirmed, scope, gits>>
    BY <1>7 DEF ReadAgain
  <2>2. Settles(todo, ActsOn)
    BY <2>1 DEF Inv, FactsChecked
  <2>3. /\ s \in Step /\ Tail(todo) \in Seq(Step) /\ Settles(Tail(todo), ActsOn)
        /\ Range(todo) = {s} \cup Range(Tail(todo))
        /\ s.fact \in ActsOn /\ s.how = "use" => ChecksFact(Tail(todo), s.fact)
    BY <2>1, <2>2, Onwards DEF Inv, Control
  <2>4. CASE Rejects(s)
    <3>1. Finished /\ UNCHANGED <<token, used>>
      BY <1>7, <2>4 DEF ReadAgain
    <3> QED BY <1>4, <2>1, <3>1
  <2>5. CASE ~Rejects(s)
    <3> HIDE DEF s
    <3>1. /\ phase' = phase /\ input' = input /\ todo' = Tail(todo)
          /\ used' = [used EXCEPT ![s.fact] = @ \cup {facts[s.fact]}]
          /\ token' = IF s.how \in {"note", "mark"} THEN [token EXCEPT ![s.fact] = {facts[s.fact]}] ELSE token
      BY <1>7, <2>5 DEF ReadAgain, Noted, s
    <3>2. s.fact \in Facts
      BY <2>3 DEF Step
    <3>3. Versions'
      <4>1. token' \in [Facts -> SUBSET Nat] /\ used' \in [Facts -> SUBSET Nat]
        BY <3>1, <3>2 DEF Inv, Versions
      <4>2. \A f \in Facts : \A v \in token'[f] \cup used'[f] : v <= facts[f]
        BY <3>1, <3>2 DEF Inv, Versions
      <4> QED BY <2>1, <4>1, <4>2 DEF Inv, Versions
    <3>4. Control'
      BY <2>1, <2>3, <3>1 DEF Inv, Control
    <3>5. ActsOn' = ActsOn
      BY <2>1 DEF ActsOn
    <3>6. s.how # "use" /\ s.fact \in ActsOn => facts[s.fact] = confirmed[s.fact]
      BY <2>1, <2>3, <2>5, CheckConfirms
    <3>7. Seen'
      <4> SUFFICES ASSUME NEW f \in ActsOn \ Required
                   PROVE  token'[f] # {} /\ \A v \in token'[f] : v <= confirmed[f]
        BY <2>1, <3>1, <3>5 DEF Seen
      <4>1. f \in Facts /\ token[f] # {} /\ (\A v \in token[f] : v <= confirmed[f]) /\ confirmed[f] \in Nat
        BY <1>0, <2>1 DEF Inv, Seen, Versions
      <4>2. CASE s.how \in {"note", "mark"} /\ s.fact = f
        <5>1. token'[f] = {facts[f]} /\ facts[f] = confirmed[f]
          BY <3>1, <3>6, <4>1, <4>2 DEF Inv, Versions
        <5> QED BY <4>1, <5>1
      <4>3. CASE ~(s.how \in {"note", "mark"} /\ s.fact = f)
        <5>1. token'[f] = token[f]
          BY <3>1, <3>2, <4>1, <4>3 DEF Inv, Versions
        <5> QED BY <4>1, <5>1
      <4> QED BY <4>2, <4>3
    <3>8. FactsChecked'
      <4> SUFFICES ASSUME NEW f \in ActsOn
                   PROVE  /\ \A w \in used'[f] : confirmed[f] <= w
                          /\ ChecksFact(todo', f) \/ used'[f] = {confirmed[f]}
        BY <2>1, <2>3, <3>1, <3>5 DEF FactsChecked
      <4>1. /\ f \in Facts /\ confirmed[f] <= facts[f] /\ facts[f] \in Nat /\ confirmed[f] \in Nat /\ used[f] \subseteq Nat
            /\ \A w \in used[f] : confirmed[f] <= w /\ w <= facts[f]
            /\ ChecksFact(todo, f) \/ used[f] = {confirmed[f]}
        BY <1>0, <2>1 DEF Inv, Versions, FactsChecked
      <4>2. CASE s.fact = f
        <5>1. used'[f] = used[f] \cup {facts[f]}
          BY <3>1, <4>1, <4>2 DEF Inv, Versions
        <5>2. CASE s.how = "use"
          BY <2>3, <3>1, <4>1, <4>2, <5>1, <5>2
        <5>3. CASE s.how # "use"
          <6>1. facts[f] = confirmed[f]
            BY <3>6, <4>2, <5>3
          <6>2. \A w \in used[f] : w = confirmed[f]
            BY <4>1, <6>1
          <6> QED BY <4>1, <5>1, <6>1, <6>2
        <5> QED BY <5>2, <5>3
      <4>3. CASE s.fact # f
        <5>1. used'[f] = used[f]
          BY <3>1, <3>2, <4>1, <4>3 DEF Inv, Versions
        <5>2. ChecksFact(todo, f) => ChecksFact(todo', f)
          BY <2>3, <3>1, <4>3 DEF ChecksFact
        <5> QED BY <4>1, <5>1, <5>2
      <4> QED BY <4>2, <4>3
    <3> QED BY <2>1, <3>1, <3>3, <3>4, <3>7, <3>8 DEF Inv, Shown, Once, RunsAsConfirmed
  <2> QED BY <2>4, <2>5
<1>8. CASE RunGit
  BY <1>4, <1>8 DEF RunGit, GitAnswered
<1>9. CASE WorkerKilled
  BY <1>4, <1>9 DEF WorkerKilled
<1>10. CASE UNCHANGED mutationVars
  BY <1>10 DEF mutationVars, Inv, Versions, Control, Shown, Seen, FactsChecked, Once, RunsAsConfirmed, ActsOn
<1> QED BY <1>1, <1>2, <1>3, <1>5, <1>6, <1>7, <1>8, <1>9, <1>10 DEF MutationNext

(* The invariant holds throughout.                                         *)
THEOREM InvHolds == MutationSpec => []Inv
<1>1. MutationInit => Inv
  BY InitInv
<1>2. Inv /\ [MutationNext]_mutationVars => Inv'
  BY StepInv
<1> QED BY <1>1, <1>2, PTL DEF MutationSpec

(* The client's and the process's state keep their types.                  *)
THEOREM MutationTypeCorrect == MutationSpec => []MutationTypeOK
<1>1. Inv => MutationTypeOK
  <2> SUFFICES ASSUME Inv PROVE MutationTypeOK
    OBVIOUS
  <2>1. \A f \in Facts : facts[f] \in 0..MaxChanges /\ confirmed[f] \in 0..MaxChanges
    BY InputsAssumption DEF Inv, Versions
  <2>2. \A f \in Facts : token[f] \subseteq 0..MaxChanges /\ used[f] \subseteq 0..MaxChanges
    <3> SUFFICES ASSUME NEW f \in Facts, NEW v \in token[f] \cup used[f] PROVE v \in 0..MaxChanges
      OBVIOUS
    <3>1. v \in Nat /\ v <= facts[f] /\ facts[f] \in Nat /\ facts[f] <= MaxChanges
      BY <2>1 DEF Inv, Versions
    <3> QED BY <3>1, InputsAssumption
  <2>3. /\ facts \in [Facts -> 0..MaxChanges] /\ confirmed \in [Facts -> 0..MaxChanges]
        /\ token \in [Facts -> SUBSET (0..MaxChanges)] /\ used \in [Facts -> SUBSET (0..MaxChanges)]
    BY <2>1, <2>2 DEF Inv, Versions
  <2>4. todo \in Seq([fact : Facts, how : {"note", "must", "use", "mark"}])
    <3>1. Step \subseteq [fact : Facts, how : {"note", "must", "use", "mark"}]
      BY DEF Step
    <3> QED BY <3>1, SeqMonotonic DEF Inv, Control
  <2>5. gits \in Nat
    BY DEF Inv, Once
  <2> QED BY <2>3, <2>4, <2>5 DEF Inv, Versions, Control, MutationTypeOK
<1> QED BY <1>1, InvHolds, PTL

(* What git acts on is what the user confirmed, and it runs once: whatever *)
(* else changes while a preview or a check reads, and whatever is written  *)
(* to the process (mutation.rs, file_identity.rs, serve_inner).            *)
THEOREM MutationAlwaysConfirmed == MutationSpec => []MutationIsConfirmed
<1>1. Inv => MutationIsConfirmed
  BY DEF Inv, Control, Once, MutationIsConfirmed, RunsOnce
<1> QED BY <1>1, InvHolds, PTL

-----------------------------------------------------------------------------
(* What a batch of submodules does and tells (SubmoduleBatch).             *)

(* A number with a property is the least one of some.                      *)
LEMMA LeastNumber ==
  ASSUME NEW T, T \subseteq Nat, T # {}
  PROVE  \E n \in T : \A m \in T : n <= m
<1>1. PICK n \in T : \A m \in T : ~ (<<m, n>> \in OpToRel(<, Nat))
  BY NatLessThanWellFounded, WFMin
<1>2. \A m \in T : ~(m < n)
  BY <1>1 DEF OpToRel
<1> QED BY <1>2

(* One more at the end of a sequence.                                      *)
LEMMA AppendRange ==
  ASSUME NEW s, s \in Seq(Subs), NEW e, e \in Subs, NEW t, t = Append(s, e)
  PROVE  /\ t \in Seq(Subs) /\ Range(t) = Range(s) \cup {e}
         /\ (IsInjective(s) /\ e \notin Range(s)) => IsInjective(t)
<1>1. /\ t \in Seq(Subs) /\ Len(t) = Len(s) + 1 /\ DOMAIN t = 1..Len(s) + 1 /\ Len(s) \in Nat
      /\ DOMAIN s = 1..Len(s) /\ t[Len(s) + 1] = e /\ \A i \in 1..Len(s) : t[i] = s[i]
  BY AppendProperties
<1>2. Range(t) = Range(s) \cup {e}
  BY <1>1 DEF Range
<1>3. (IsInjective(s) /\ e \notin Range(s)) => IsInjective(t)
  BY <1>1 DEF Range, IsInjective
<1> QED BY <1>1, <1>2, <1>3

(* The submodules that a listing of r has: its own, each once (modules.rs).*)
Listing(l, r, n) ==
  /\ l \in Seq(Subs) /\ IsInjective(l)
  /\ Range(l) = {s \in Subs : ParentOf[s] = r /\ subs[s].listed /\ \E i \in 1..n : Order[i] = s}

FirstOf(f, r, m) ==
  f = [n \in 0..m |->
        IF n = 0 THEN <<>>
        ELSE IF ParentOf[Order[n]] = r /\ subs[Order[n]].listed THEN Append(f[n - 1], Order[n])
        ELSE f[n - 1]]

LEMMA ListedExists ==
  ASSUME NEW r
  PROVE  \E f : FirstOf(f, r, Len(Order))
<1>1. PICK N \in Nat : N = Len(Order) /\ DOMAIN Order = 1..N
  BY BatchAssumption
<1>2. PICK G : G = {m \in Nat : \E f : FirstOf(f, r, m)}
  OBVIOUS
<1>3. 0 \in G
  <2>1. PICK f : f = [n \in 0..0 |-> <<>>]
    OBVIOUS
  <2>2. FirstOf(f, r, 0)
    BY <2>1 DEF FirstOf
  <2> QED BY <1>2, <2>2
<1>4. ASSUME NEW m \in G PROVE m + 1 \in G
  <2>1. m \in Nat
    BY <1>2
  <2>2. PICK f : FirstOf(f, r, m)
    BY <1>2
  <2>3. PICK last : last = IF ParentOf[Order[m + 1]] = r /\ subs[Order[m + 1]].listed
                           THEN Append(f[m], Order[m + 1]) ELSE f[m]
    OBVIOUS
  <2>4. PICK h : h = [n \in 0..m + 1 |-> IF n = m + 1 THEN last ELSE f[n]]
    OBVIOUS
  <2>5. \A n \in 0..m : h[n] = f[n]
    BY <2>1, <2>4
  <2>6. h[m + 1] = last
    BY <2>1, <2>4
  <2>7. ASSUME NEW n \in 0..m + 1
        PROVE  h[n] = IF n = 0 THEN <<>>
                      ELSE IF ParentOf[Order[n]] = r /\ subs[Order[n]].listed THEN Append(h[n - 1], Order[n])
                      ELSE h[n - 1]
    <3>1. CASE n = m + 1
      <4>1. h[n - 1] = f[m] /\ n # 0
        BY <2>1, <2>5, <3>1
      <4> QED BY <2>3, <2>6, <3>1, <4>1
    <3>2. CASE n \in 0..m
      <4>1. h[n] = f[n]
        BY <2>5, <3>2
      <4>2. n # 0 => h[n - 1] = f[n - 1]
        BY <2>1, <2>5, <3>2
      <4>3. f[n] = IF n = 0 THEN <<>>
                      ELSE IF ParentOf[Order[n]] = r /\ subs[Order[n]].listed THEN Append(f[n - 1], Order[n])
                      ELSE f[n - 1]
        BY <2>2, <3>2 DEF FirstOf
      <4> QED BY <4>1, <4>2, <4>3
    <3> QED BY <2>1, <3>1, <3>2
  <2>8. FirstOf(h, r, m + 1)
    BY <2>4, <2>7 DEF FirstOf
  <2> QED BY <1>2, <2>1, <2>8
<1>5. N \in G
  <2>1. SUFFICES ASSUME Nat \ G # {} PROVE FALSE
    OBVIOUS
  <2>2. PICK n \in Nat \ G : \A m \in Nat \ G : n <= m
    BY <2>1, LeastNumber
  <2>3. n # 0 /\ n - 1 \in Nat
    BY <1>3, <2>2
  <2>4. n - 1 \in G
    BY <2>2, <2>3
  <2> QED BY <1>4, <2>2, <2>3, <2>4
<1> QED BY <1>1, <1>2, <1>5

LEMMA ListedFacts ==
  ASSUME NEW r, NEW l, l = ListedIn(r)
  PROVE  /\ l \in Seq(Subs) /\ IsInjective(l)
         /\ Range(l) = {s \in Subs : ParentOf[s] = r /\ subs[s].listed}
<1>1. PICK f : FirstOf(f, r, Len(Order)) /\ l = f[Len(Order)]
  <2>1. PICK f : f = CHOOSE g : FirstOf(g, r, Len(Order))
    OBVIOUS
  <2>2. FirstOf(f, r, Len(Order))
    BY <2>1, ListedExists
  <2>3. l = f[Len(Order)]
    BY <2>1 DEF ListedIn, FirstOf
  <2> QED BY <2>2, <2>3
<1>2. PICK N \in Nat : N = Len(Order) /\ DOMAIN Order = 1..N
  BY BatchAssumption
<1>3. \A i \in 1..N : Order[i] \in Subs /\ \A j \in 1..N : Order[i] = Order[j] => i = j
  BY <1>2, BatchAssumption DEF IsInjective
<1>4. f[0] = <<>>
  <2>1. 0 \in 0..Len(Order)
    BY <1>2
  <2> QED BY <1>1, <2>1 DEF FirstOf
<1>5. ASSUME NEW n \in 1..N
      PROVE  f[n] = IF ParentOf[Order[n]] = r /\ subs[Order[n]].listed THEN Append(f[n - 1], Order[n])
                    ELSE f[n - 1]
  <2>1. n \in 0..Len(Order) /\ n # 0
    BY <1>2
  <2> QED BY <1>1, <2>1 DEF FirstOf
<1>6. Listing(f[0], r, 0)
  BY <1>4 DEF Listing, IsInjective, Range
<1>7. ASSUME NEW n \in 1..N, Listing(f[n - 1], r, n - 1) PROVE Listing(f[n], r, n)
  <2>1. PICK a : a = f[n - 1]
    OBVIOUS
  <2>2. PICK o \in Subs : o = Order[n]
    BY <1>3
  <2>3. a \in Seq(Subs) /\ IsInjective(a)
        /\ Range(a) = {s \in Subs : ParentOf[s] = r /\ subs[s].listed /\ \E i \in 1..n - 1 : Order[i] = s}
    BY <1>7, <2>1 DEF Listing
  <2>4. o \notin Range(a)
    BY <1>2, <1>3, <2>2, <2>3
  <2>5. \A s : (\E i \in 1..n : Order[i] = s) <=> (\E i \in 1..n - 1 : Order[i] = s) \/ s = o
    BY <1>2, <2>2
  <2>6. CASE ParentOf[o] = r /\ subs[o].listed
    <3>1. PICK b : b = Append(a, o)
      OBVIOUS
    <3>2. f[n] = b
      BY <1>5, <2>1, <2>2, <2>6, <3>1
    <3>5. a \in Seq(Subs) /\ IsInjective(a)
      BY <2>3
    <3>6. /\ b \in Seq(Subs) /\ Range(b) = Range(a) \cup {o}
          /\ (IsInjective(a) /\ o \notin Range(a)) => IsInjective(b)
      BY <3>1, <3>5, AppendRange
    <3>3. b \in Seq(Subs) /\ IsInjective(b) /\ Range(b) = Range(a) \cup {o}
      BY <2>4, <3>5, <3>6
    <3>4. Range(b) = {s \in Subs : ParentOf[s] = r /\ subs[s].listed /\ \E i \in 1..n : Order[i] = s}
      BY <2>3, <2>5, <2>6, <3>3
    <3> QED BY <3>2, <3>3, <3>4 DEF Listing
  <2>7. CASE ~(ParentOf[o] = r /\ subs[o].listed)
    <3>1. f[n] = a
      BY <1>5, <2>1, <2>2, <2>7
    <3>2. Range(a) = {s \in Subs : ParentOf[s] = r /\ subs[s].listed /\ \E i \in 1..n : Order[i] = s}
      BY <2>3, <2>5, <2>7
    <3> QED BY <2>3, <3>1, <3>2 DEF Listing
  <2> QED BY <2>6, <2>7
<1>8. Listing(f[N], r, N)
  <2>1. PICK T : T = {n \in 0..N : ~Listing(f[n], r, n)}
    OBVIOUS
  <2>2. SUFFICES ASSUME T # {} PROVE FALSE
    BY <1>2, <2>1
  <2>5. T \subseteq Nat
    BY <1>2, <2>1
  <2>3. PICK n \in T : \A m \in T : n <= m
    BY <2>2, <2>5, LeastNumber
  <2>4. n \in 1..N /\ n - 1 \in 0..N /\ n - 1 \notin T
    BY <1>2, <1>6, <2>1, <2>3
  <2> QED BY <1>7, <2>1, <2>3, <2>4
<1>9. \A s \in Subs : \E i \in 1..N : Order[i] = s
  BY <1>2 DEF Subs, Range
<1> QED BY <1>1, <1>2, <1>8, <1>9 DEF Listing

(* Frames, and what is known of a stack of them: f is the stack, c and k   *)
(* the completed and skipped submodules, `nest' says that the last frame's *)
(* entry is completed and its own submodules come next.                    *)
EntryRecs == [sub : Subs, entry : Nat, init : BOOLEAN, head : Nat, skip : BOOLEAN]
FrameRecs == [repo : Subs \cup {Top}, head : Heads \cup Nat, entries : Seq(EntryRecs), index : Nat]

SubAt(f, n) == f.entries[n].sub

IsFrame(f) ==
  /\ f \in FrameRecs /\ f.index >= 1 /\ f.index <= Len(f.entries) + 1
  /\ \A m \in 1..Len(f.entries) : SubAt(f, m) \in Subs /\ ParentOf[SubAt(f, m)] = f.repo
  /\ \A m, n \in 1..Len(f.entries) : SubAt(f, m) = SubAt(f, n) => m = n

\* Entries before this one are done.
Past(fs, i, nest) == IF nest /\ i = Len(fs) THEN fs[i].index + 1 ELSE fs[i].index

Stack(fs, c) ==
  /\ fs \in Seq(FrameRecs)
  /\ \A i \in 1..Len(fs) : IsFrame(fs[i]) /\ fs[i].repo \in c \cup {Top}
  /\ \A i, j \in 1..Len(fs) : fs[i].repo = fs[j].repo => i = j

Pending(fs, d, nest) ==
  \A i \in 1..Len(fs) : \A n \in 1..Len(fs[i].entries) :
    SubAt(fs[i], n) \in d <=> n < Past(fs, i, nest)

Tree(c, d) == \A s \in d : s \in Subs /\ ParentOf[s] \in c \cup {Top}

\* The entry that the last frame is at.
Busy(fs) == fs # <<>> /\ fs[Len(fs)].index <= Len(fs[Len(fs)].entries)
Current(fs) == SubAt(fs[Len(fs)], fs[Len(fs)].index)

Nesting(fs, c, d) ==
  /\ Busy(fs) /\ Current(fs) \in c
  /\ \A s \in d : ParentOf[s] # Current(fs)
  /\ \A i \in 1..Len(fs) : fs[i].repo # Current(fs)

Apart(c, k) ==
  /\ c \in Seq(Subs) /\ k \in Seq(Subs) /\ IsInjective(c) /\ IsInjective(k)
  /\ Range(c) \cap Range(k) = {}

Walk(fs, c, k, nest) ==
  /\ Apart(c, k)
  /\ Stack(fs, Range(c)) /\ Pending(fs, Range(c) \cup Range(k), nest)
  /\ Tree(Range(c), Range(c) \cup Range(k))
  /\ nest => Nesting(fs, Range(c), Range(c) \cup Range(k))

\* The submodules of L all come, or have come.
Complete(fs, c, d, nest, L) ==
  \A s \in L : ParentOf[s] \in c \cup {Top} =>
    \/ s \in d
    \/ \E i \in 1..Len(fs) : \E n \in 1..Len(fs[i].entries) : SubAt(fs[i], n) = s
    \/ nest /\ ParentOf[s] = Current(fs)

\* The last frame at its next entry.
Moved1(fs) == [fs EXCEPT ![Len(fs)].index = @ + 1]

LEMMA WalkOpen ==
  ASSUME NEW f, IsFrame(f), f.repo = Top, f.index = 1, NEW fs, fs = <<f>>
  PROVE  Walk(fs, <<>>, <<>>, FALSE)
<1>1. fs \in Seq(FrameRecs) /\ Len(fs) = 1 /\ fs[1] = f
  BY DEF IsFrame
<1>7. PICK c : c = <<>>
  OBVIOUS
<1>2. c = <<>> /\ c \in Seq(Subs) /\ Range(c) = {} /\ IsInjective(c)
  BY <1>7 DEF Range, IsInjective
<1>3. Stack(fs, {})
  BY <1>1 DEF Stack
<1>4. Pending(fs, {}, FALSE)
  BY <1>1 DEF Pending, Past
<1>5. Tree({}, {})
  BY DEF Tree
<1>6. Apart(c, c)
  BY <1>2 DEF Apart
<1> QED BY <1>2, <1>3, <1>4, <1>5, <1>6 DEF Walk

(* Facts of a stack and its last frame.                                    *)
LEMMA LastFrame ==
  ASSUME NEW fs, NEW c, Stack(fs, c), Busy(fs)
  PROVE  /\ Len(fs) \in Nat \ {0} /\ IsFrame(fs[Len(fs)])
         /\ fs[Len(fs)].index \in 1..Len(fs[Len(fs)].entries)
         /\ Current(fs) \in Subs /\ ParentOf[Current(fs)] = fs[Len(fs)].repo
<1>1. Len(fs) \in Nat /\ Len(fs) # 0
  BY DEF Stack, Busy
<1>2. IsFrame(fs[Len(fs)])
  BY <1>1 DEF Stack
<1>3. PICK f : f = fs[Len(fs)]
  OBVIOUS
<1>4. f.index \in Nat /\ f.index >= 1 /\ f.index <= Len(f.entries) /\ f.entries \in Seq(EntryRecs)
  BY <1>2, <1>3 DEF IsFrame, FrameRecs, Busy
<1>5. Len(f.entries) \in Nat
  BY <1>4
<1>6. f.index \in 1..Len(f.entries)
  BY <1>4, <1>5
<1>7. SubAt(f, f.index) \in Subs /\ ParentOf[SubAt(f, f.index)] = f.repo
  BY <1>2, <1>3, <1>6 DEF IsFrame
<1> QED BY <1>1, <1>2, <1>3, <1>6, <1>7 DEF Current

(* Moving on keeps everything else.                                        *)
MovedTo(gs, fs) ==
  /\ gs \in Seq(FrameRecs) /\ Len(gs) = Len(fs) /\ gs # <<>>
  /\ \A i \in 1..Len(fs) : gs[i].repo = fs[i].repo /\ gs[i].entries = fs[i].entries
  /\ \A i \in 1..Len(fs) - 1 : gs[i] = fs[i]
  /\ gs[Len(fs)].index = fs[Len(fs)].index + 1

LEMMA MovedFacts ==
  ASSUME NEW fs, NEW c, Stack(fs, c), Busy(fs)
  PROVE  MovedTo(Moved1(fs), fs) /\ Stack(Moved1(fs), c)
<1> SUFFICES ASSUME NEW gs, gs = Moved1(fs) PROVE MovedTo(gs, fs) /\ Stack(gs, c)
  OBVIOUS
<1>0. fs \in Seq(FrameRecs) /\ Len(fs) \in Nat \ {0}
  BY LastFrame DEF Stack
<1>1. PICK N \in Nat \ {0} : N = Len(fs) /\ DOMAIN fs = 1..N
  BY <1>0
<1>2. PICK f : f = fs[N]
  OBVIOUS
<1>3. IsFrame(f) /\ f.index \in 1..Len(f.entries)
  BY <1>1, <1>2, LastFrame
<1>4. PICK g : g = [f EXCEPT !.index = @ + 1]
  OBVIOUS
<1>5. gs = [fs EXCEPT ![N] = g]
  BY <1>1, <1>2, <1>4 DEF Moved1
<1>6. f \in FrameRecs
  BY <1>3 DEF IsFrame
<1>7. g \in FrameRecs /\ g.repo = f.repo /\ g.entries = f.entries /\ g.index = f.index + 1
  BY <1>4, <1>6 DEF FrameRecs
<1>8. f.index \in Nat /\ Len(f.entries) \in Nat
  BY <1>6 DEF FrameRecs
<1>9. IsFrame(g)
  <2>1. g.index >= 1 /\ g.index <= Len(g.entries) + 1
    BY <1>3, <1>7, <1>8
  <2>2. \A m : SubAt(g, m) = SubAt(f, m)
    BY <1>7 DEF SubAt
  <2>3. /\ \A m \in 1..Len(f.entries) : SubAt(f, m) \in Subs /\ ParentOf[SubAt(f, m)] = f.repo
        /\ \A m, n \in 1..Len(f.entries) : SubAt(f, m) = SubAt(f, n) => m = n
    BY <1>3 DEF IsFrame
  <2>4. /\ \A m \in 1..Len(g.entries) : SubAt(g, m) \in Subs /\ ParentOf[SubAt(g, m)] = g.repo
        /\ \A m, n \in 1..Len(g.entries) : SubAt(g, m) = SubAt(g, n) => m = n
    BY <1>7, <2>2, <2>3
  <2> QED BY <1>7, <2>1, <2>4 DEF IsFrame
<1>10. fs \in Seq(FrameRecs)
  BY DEF Stack
<1>11. gs \in Seq(FrameRecs) /\ Len(gs) = N /\ gs[N] = g /\ \A i \in 1..N : i # N => gs[i] = fs[i]
  BY <1>1, <1>5, <1>7, <1>10
<1>12. \A i \in 1..N : IsFrame(gs[i]) /\ gs[i].repo = fs[i].repo /\ gs[i].entries = fs[i].entries
  BY <1>1, <1>2, <1>7, <1>9, <1>11 DEF Stack
<1>13. Stack(gs, c)
  BY <1>1, <1>11, <1>12 DEF Stack
<1>14. \A i \in 1..N - 1 : gs[i] = fs[i]
  BY <1>1, <1>11
<1>15. gs # <<>>
  BY <1>1, <1>11
<1> QED BY <1>1, <1>2, <1>7, <1>11, <1>12, <1>13, <1>14, <1>15 DEF MovedTo

(* One more submodule is done, then the last frame moves on.               *)
LEMMA PendingMoved ==
  ASSUME NEW fs, NEW c, Stack(fs, c), Busy(fs), NEW gs, gs = Moved1(fs), NEW d, NEW e,
         Pending(fs, d, FALSE), e = d \cup {Current(fs)}
  PROVE  Pending(gs, e, FALSE)
<1>1. PICK N \in Nat \ {0} : N = Len(fs)
  BY LastFrame
<1>2. /\ Len(gs) = N /\ gs[N].index = fs[N].index + 1
      /\ \A i \in 1..N : gs[i].repo = fs[i].repo /\ gs[i].entries = fs[i].entries
      /\ \A i \in 1..N - 1 : gs[i] = fs[i]
  <2>1. /\ Len(gs) = Len(fs)
        /\ \A i \in 1..Len(fs) : gs[i].repo = fs[i].repo /\ gs[i].entries = fs[i].entries
        /\ \A i \in 1..Len(fs) - 1 : gs[i] = fs[i]
        /\ gs[Len(fs)].index = fs[Len(fs)].index + 1
    BY MovedFacts DEF MovedTo
  <2> QED BY <1>1, <2>1
<1>3. /\ IsFrame(fs[N]) /\ fs[N].index \in 1..Len(fs[N].entries)
      /\ Current(fs) \in Subs /\ ParentOf[Current(fs)] = fs[N].repo
  BY <1>1, LastFrame
<1>4. ASSUME NEW i \in 1..N, NEW n \in 1..Len(gs[i].entries)
      PROVE  SubAt(gs[i], n) \in e <=> n < gs[i].index
  <2>1. n \in 1..Len(fs[i].entries) /\ SubAt(gs[i], n) = SubAt(fs[i], n)
    BY <1>2, <1>4 DEF SubAt
  <2>2. SubAt(fs[i], n) \in d <=> n < fs[i].index
    BY <1>1, <1>4, <2>1 DEF Pending, Past
  <2>3. CASE i = N
    <3>1. SubAt(fs[N], n) = Current(fs) <=> n = fs[N].index
      BY <1>1, <1>3, <2>1, <2>3 DEF Current, IsFrame
    <3>2. fs[N].index \in Nat /\ Len(fs[N].entries) \in Nat
      BY <1>3 DEF IsFrame, FrameRecs
    <3>3. n \in Nat
      BY <2>1, <2>3, <3>2
    <3> QED BY <1>2, <2>1, <2>2, <2>3, <3>1, <3>2, <3>3
  <2>4. CASE i # N
    <3>1. gs[i] = fs[i]
      BY <1>1, <1>2, <2>4
    <3>2. ParentOf[SubAt(fs[i], n)] = fs[i].repo
      BY <1>1, <2>1 DEF Stack, IsFrame
    <3>3. fs[i].repo # fs[N].repo
      BY <1>1, <2>4 DEF Stack
    <3>4. SubAt(fs[i], n) # Current(fs)
      BY <1>3, <3>2, <3>3
    <3> QED BY <2>1, <2>2, <3>1, <3>4
  <2> QED BY <2>3, <2>4
<1> QED BY <1>2, <1>4 DEF Pending, Past

(* ... or stays, to go into it.                                            *)
LEMMA PendingNests ==
  ASSUME NEW fs, NEW c, Stack(fs, c), Busy(fs), NEW d, NEW e,
         Pending(fs, d, FALSE), e = d \cup {Current(fs)}
  PROVE  Pending(fs, e, TRUE)
<1>1. PICK gs : gs = Moved1(fs)
  OBVIOUS
<1>2. Pending(gs, e, FALSE)
  BY <1>1, PendingMoved
<1>3. PICK N \in Nat \ {0} : N = Len(fs)
  BY LastFrame
<1>4. /\ Len(gs) = N /\ gs[N].index = fs[N].index + 1
      /\ \A i \in 1..N : gs[i].repo = fs[i].repo /\ gs[i].entries = fs[i].entries
      /\ \A i \in 1..N - 1 : gs[i] = fs[i]
  <2>1. /\ Len(gs) = Len(fs)
        /\ \A i \in 1..Len(fs) : gs[i].repo = fs[i].repo /\ gs[i].entries = fs[i].entries
        /\ \A i \in 1..Len(fs) - 1 : gs[i] = fs[i]
        /\ gs[Len(fs)].index = fs[Len(fs)].index + 1
    BY <1>1, MovedFacts DEF MovedTo
  <2> QED BY <1>3, <2>1
<1>5. ASSUME NEW i \in 1..N, NEW n \in 1..Len(fs[i].entries)
      PROVE  SubAt(fs[i], n) \in e <=> n < Past(fs, i, TRUE)
  <2>1. n \in 1..Len(gs[i].entries) /\ SubAt(gs[i], n) = SubAt(fs[i], n)
    BY <1>4, <1>5 DEF SubAt
  <2>2. SubAt(gs[i], n) \in e <=> n < gs[i].index
    BY <1>2, <1>4, <2>1 DEF Pending, Past
  <2>3. gs[i].index = Past(fs, i, TRUE)
    BY <1>3, <1>4 DEF Past
  <2> QED BY <2>1, <2>2, <2>3
<1> QED BY <1>3, <1>5 DEF Pending

(* The current entry of a walk is not done, and none below it.             *)
LEMMA CurrentNew ==
  ASSUME NEW fs, NEW c, NEW k, Walk(fs, c, k, FALSE), Busy(fs)
  PROVE  /\ Current(fs) \in Subs /\ Current(fs) \notin Range(c) \cup Range(k)
         /\ ParentOf[Current(fs)] \in Range(c) \cup {Top}
         /\ \A s \in Range(c) \cup Range(k) : ParentOf[s] # Current(fs)
         /\ \A i \in 1..Len(fs) : fs[i].repo # Current(fs)
<1>1. Stack(fs, Range(c)) /\ Pending(fs, Range(c) \cup Range(k), FALSE) /\ Tree(Range(c), Range(c) \cup Range(k))
  BY DEF Walk
<1>2. PICK N \in Nat \ {0} : N = Len(fs)
  BY <1>1, LastFrame
<1>3. /\ IsFrame(fs[N]) /\ fs[N].index \in 1..Len(fs[N].entries)
      /\ Current(fs) \in Subs /\ ParentOf[Current(fs)] = fs[N].repo
  BY <1>1, <1>2, LastFrame
<1>4. fs[N].index \in Nat
  BY <1>3 DEF IsFrame, FrameRecs
<1>5. Current(fs) \notin Range(c) \cup Range(k)
  BY <1>1, <1>2, <1>3, <1>4 DEF Pending, Past, Current
<1>6. fs[N].repo \in Range(c) \cup {Top}
  BY <1>1, <1>2 DEF Stack
<1>7. Current(fs) # Top
  BY <1>3, BatchAssumption
<1>8. \A s \in Range(c) \cup Range(k) : ParentOf[s] # Current(fs)
  BY <1>1, <1>5, <1>7 DEF Tree
<1>9. \A i \in 1..Len(fs) : fs[i].repo # Current(fs)
  BY <1>1, <1>5, <1>7 DEF Stack
<1> QED BY <1>3, <1>5, <1>6, <1>8, <1>9

(* An entry is skipped.                                                    *)
LEMMA WalkSkip ==
  ASSUME NEW fs, NEW c, NEW k, Walk(fs, c, k, FALSE), Busy(fs), NEW t, t = Append(k, Current(fs))
  PROVE  Walk(Moved1(fs), c, t, FALSE) /\ Range(t) = Range(k) \cup {Current(fs)}
<1>1. /\ Stack(fs, Range(c)) /\ Pending(fs, Range(c) \cup Range(k), FALSE)
      /\ Tree(Range(c), Range(c) \cup Range(k)) /\ Apart(c, k)
  BY DEF Walk
<1>2. PICK s \in Subs : s = Current(fs)
  BY CurrentNew
<1>3. s \notin Range(c) \cup Range(k) /\ ParentOf[s] \in Range(c) \cup {Top}
  BY <1>2, CurrentNew
<1>4. t \in Seq(Subs) /\ Range(t) = Range(k) \cup {s} /\ IsInjective(t)
  <2>1. k \in Seq(Subs) /\ t = Append(k, s) /\ IsInjective(k)
    BY <1>1, <1>2 DEF Apart
  <2>2. /\ t \in Seq(Subs) /\ Range(t) = Range(k) \cup {s}
        /\ (IsInjective(k) /\ s \notin Range(k)) => IsInjective(t)
    BY <2>1, AppendRange
  <2> QED BY <1>3, <2>1, <2>2
<1>5. Apart(c, t)
  BY <1>1, <1>3, <1>4 DEF Apart
<1>6. Stack(Moved1(fs), Range(c))
  BY <1>1, MovedFacts
<1>7. PICK d : d = Range(c) \cup Range(k)
  OBVIOUS
<1>8. PICK e : e = Range(c) \cup Range(t)
  OBVIOUS
<1>9. e = d \cup {Current(fs)} /\ e = d \cup {s}
  BY <1>2, <1>4, <1>7, <1>8
<1>10. Pending(Moved1(fs), e, FALSE)
  <2>1. PICK gs : gs = Moved1(fs)
    OBVIOUS
  <2>2. Pending(fs, d, FALSE) /\ e = d \cup {Current(fs)}
    BY <1>1, <1>7, <1>9
  <2>3. Pending(gs, e, FALSE)
    BY <1>1, <2>1, <2>2, PendingMoved
  <2> QED BY <2>1, <2>3
<1>11. Tree(Range(c), e)
  <2>1. Tree(Range(c), d)
    BY <1>1, <1>7
  <2> QED BY <1>3, <1>9, <2>1 DEF Tree
<1> QED BY <1>2, <1>4, <1>5, <1>6, <1>8, <1>10, <1>11 DEF Walk

(* An entry is completed: what follows for either way on.                  *)
LEMMA WalkRun ==
  ASSUME NEW fs, NEW c, NEW k, Walk(fs, c, k, FALSE), Busy(fs), NEW t, t = Append(c, Current(fs))
  PROVE  /\ Walk(Moved1(fs), t, k, FALSE) /\ Walk(fs, t, k, TRUE)
         /\ Range(t) = Range(c) \cup {Current(fs)}
<1>1. /\ Stack(fs, Range(c)) /\ Pending(fs, Range(c) \cup Range(k), FALSE)
      /\ Tree(Range(c), Range(c) \cup Range(k)) /\ Apart(c, k)
  BY DEF Walk
<1>2. PICK s \in Subs : s = Current(fs)
  BY CurrentNew
<1>3. s \notin Range(c) \cup Range(k) /\ ParentOf[s] \in Range(c) \cup {Top}
  BY <1>2, CurrentNew
<1>4. t \in Seq(Subs) /\ Range(t) = Range(c) \cup {s} /\ IsInjective(t)
  <2>1. c \in Seq(Subs) /\ t = Append(c, s) /\ IsInjective(c)
    BY <1>1, <1>2 DEF Apart
  <2>2. /\ t \in Seq(Subs) /\ Range(t) = Range(c) \cup {s}
        /\ (IsInjective(c) /\ s \notin Range(c)) => IsInjective(t)
    BY <2>1, AppendRange
  <2> QED BY <1>3, <2>1, <2>2
<1>5. Apart(t, k)
  BY <1>1, <1>3, <1>4 DEF Apart
<1>6. Stack(fs, Range(t))
  BY <1>1, <1>4 DEF Stack
<1>7. PICK d : d = Range(c) \cup Range(k)
  OBVIOUS
<1>8. PICK e : e = Range(t) \cup Range(k)
  OBVIOUS
<1>9. e = d \cup {Current(fs)} /\ e = d \cup {s}
  BY <1>2, <1>4, <1>7, <1>8
<1>10. Pending(fs, d, FALSE) /\ e = d \cup {Current(fs)}
  BY <1>1, <1>7, <1>9
<1>11. Pending(Moved1(fs), e, FALSE)
  <2>1. PICK gs : gs = Moved1(fs)
    OBVIOUS
  <2>3. Pending(gs, e, FALSE)
    BY <1>1, <1>10, <2>1, PendingMoved
  <2> QED BY <2>1, <2>3
<1>12. Pending(fs, e, TRUE)
  BY <1>1, <1>10, PendingNests
<1>13. Tree(Range(t), e)
  <2>1. Tree(Range(c), d)
    BY <1>1, <1>7
  <2> QED BY <1>3, <1>4, <1>9, <2>1 DEF Tree
<1>14. Stack(Moved1(fs), Range(t))
  BY <1>6, MovedFacts
<1>15. Nesting(fs, Range(t), e)
  <2>1. \A x \in d : ParentOf[x] # s
    BY <1>2, <1>7, CurrentNew
  <2>2. \A i \in 1..Len(fs) : fs[i].repo # s
    BY <1>2, CurrentNew
  <2>3. ParentOf[s] # s
    <3>1. PICK N \in Nat \ {0} : N = Len(fs)
      BY <1>1, LastFrame
    <3>2. ParentOf[s] = fs[N].repo
      BY <1>1, <1>2, <3>1, LastFrame
    <3>3. N \in 1..Len(fs)
      BY <3>1
    <3> QED BY <2>2, <3>2, <3>3
  <2> QED BY <1>2, <1>4, <1>9, <2>1, <2>2, <2>3 DEF Nesting
<1>16. Walk(Moved1(fs), t, k, FALSE)
  BY <1>5, <1>8, <1>11, <1>13, <1>14 DEF Walk
<1>17. Walk(fs, t, k, TRUE)
  BY <1>5, <1>6, <1>8, <1>12, <1>13, <1>15 DEF Walk
<1> QED BY <1>2, <1>4, <1>16, <1>17

(* The submodules of a completed one come next.                            *)
LEMMA WalkNest ==
  ASSUME NEW fs, NEW c, NEW k, Walk(fs, c, k, TRUE),
         NEW f, IsFrame(f), f.repo = Current(fs), f.index = 1, NEW gs, gs = Append(Moved1(fs), f)
  PROVE  Walk(gs, c, k, FALSE)
<1>1. PICK d : d = Range(c) \cup Range(k)
  OBVIOUS
<1>2. /\ Stack(fs, Range(c)) /\ Pending(fs, d, TRUE) /\ Tree(Range(c), d) /\ Apart(c, k)
      /\ Nesting(fs, Range(c), d)
  BY <1>1 DEF Walk
<1>3. /\ Busy(fs) /\ Current(fs) \in Range(c) /\ (\A s \in d : ParentOf[s] # Current(fs))
      /\ \A i \in 1..Len(fs) : fs[i].repo # Current(fs)
  BY <1>2 DEF Nesting
<1>4. PICK N \in Nat \ {0} : N = Len(fs)
  BY <1>2, <1>3, LastFrame
<1>5. PICK ms : ms = Moved1(fs)
  OBVIOUS
<1>6. MovedTo(ms, fs) /\ Stack(ms, Range(c))
  BY <1>2, <1>3, <1>5, MovedFacts
<1>7. /\ ms \in Seq(FrameRecs) /\ Len(ms) = N
      /\ \A i \in 1..N : ms[i].repo = fs[i].repo /\ ms[i].entries = fs[i].entries
      /\ \A i \in 1..N - 1 : ms[i] = fs[i]
      /\ ms[N].index = fs[N].index + 1
  BY <1>4, <1>6 DEF MovedTo
<1>8. f \in FrameRecs
  BY DEF IsFrame
<1>9. /\ gs \in Seq(FrameRecs) /\ Len(gs) = N + 1 /\ gs[N + 1] = f /\ \A i \in 1..N : gs[i] = ms[i]
  BY <1>5, <1>7, <1>8, AppendProperties
<1>10. \A i \in 1..N + 1 : i = N + 1 \/ i \in 1..N
  OBVIOUS
<1>11. Stack(gs, Range(c))
  <2>1. \A i \in 1..N : IsFrame(ms[i]) /\ ms[i].repo \in Range(c) \cup {Top} /\ ms[i].repo # f.repo
    BY <1>3, <1>4, <1>6, <1>7 DEF Stack
  <2>2. \A i, j \in 1..N : ms[i].repo = ms[j].repo => i = j
    BY <1>6, <1>7 DEF Stack
  <2>3. \A i \in 1..N + 1 : IsFrame(gs[i]) /\ gs[i].repo \in Range(c) \cup {Top}
    BY <1>3, <1>9, <1>10, <2>1
  <2>4. \A i, j \in 1..N + 1 : gs[i].repo = gs[j].repo => i = j
    BY <1>9, <1>10, <2>1, <2>2
  <2> QED BY <1>9, <2>3, <2>4 DEF Stack
<1>12. Pending(gs, d, FALSE)
  <2>1. ASSUME NEW i \in 1..N, NEW n \in 1..Len(gs[i].entries)
        PROVE  SubAt(gs[i], n) \in d <=> n < gs[i].index
    <3>1. gs[i] = ms[i] /\ n \in 1..Len(fs[i].entries) /\ SubAt(gs[i], n) = SubAt(fs[i], n)
      BY <1>7, <1>9, <2>1 DEF SubAt
    <3>2. SubAt(fs[i], n) \in d <=> n < Past(fs, i, TRUE)
      BY <1>2, <1>4, <3>1 DEF Pending
    <3>3. Past(fs, i, TRUE) = ms[i].index
      BY <1>4, <1>7 DEF Past
    <3> QED BY <3>1, <3>2, <3>3
  <2>2. ASSUME NEW n \in 1..Len(f.entries) PROVE ~(SubAt(f, n) \in d) /\ ~(n < f.index)
    <3>1. ParentOf[SubAt(f, n)] = Current(fs)
      BY <2>2 DEF IsFrame
    <3>2. n \in Nat /\ n >= 1
      BY <1>8, <2>2 DEF FrameRecs
    <3> QED BY <1>3, <3>1, <3>2
  <2> QED BY <1>9, <1>10, <2>1, <2>2 DEF Pending, Past
<1> QED BY <1>1, <1>2, <1>11, <1>12 DEF Walk

(* A frame that is through is left.                                        *)
LEMMA WalkLeave ==
  ASSUME NEW fs, NEW c, NEW k, Walk(fs, c, k, FALSE), fs # <<>>, NEW gs, gs = Front(fs)
  PROVE  /\ Walk(gs, c, k, FALSE)
         /\ gs \in Seq(FrameRecs) /\ Len(gs) = Len(fs) - 1 /\ \A i \in 1..Len(gs) : gs[i] = fs[i]
<1>1. PICK d : d = Range(c) \cup Range(k)
  OBVIOUS
<1>2. Stack(fs, Range(c)) /\ Pending(fs, d, FALSE) /\ Tree(Range(c), d) /\ Apart(c, k)
  BY <1>1 DEF Walk
<1>3. fs \in Seq(FrameRecs)
  BY <1>2 DEF Stack
<1>4. PICK N \in Nat \ {0} : N = Len(fs)
  BY <1>3
<1>5. gs \in Seq(FrameRecs) /\ Len(gs) = N - 1 /\ \A i \in 1..N - 1 : gs[i] = fs[i]
  BY <1>3, <1>4, SubSeqProperties DEF Front
<1>6. N - 1 \in Nat /\ \A i \in 1..N - 1 : i \in 1..N
  BY <1>4
<1>7. Stack(gs, Range(c))
  <2>1. \A i \in 1..N - 1 : IsFrame(gs[i]) /\ gs[i].repo \in Range(c) \cup {Top}
    BY <1>2, <1>4, <1>5, <1>6 DEF Stack
  <2>2. \A i, j \in 1..N - 1 : gs[i].repo = gs[j].repo => i = j
    BY <1>2, <1>4, <1>5, <1>6 DEF Stack
  <2> QED BY <1>5, <2>1, <2>2 DEF Stack
<1>8. Pending(gs, d, FALSE)
  <2>1. ASSUME NEW i \in 1..N - 1, NEW n \in 1..Len(gs[i].entries)
        PROVE  SubAt(gs[i], n) \in d <=> n < gs[i].index
    <3>1. i \in 1..N /\ gs[i] = fs[i]
      BY <1>5, <1>6
    <3> QED BY <1>2, <1>4, <3>1 DEF Pending, Past
  <2> QED BY <1>5, <2>1 DEF Pending, Past
<1> QED BY <1>1, <1>2, <1>4, <1>5, <1>7, <1>8 DEF Walk

LEMMA CompleteOpen ==
  ASSUME NEW f, NEW fs, fs = <<f>>, NEW L, NEW d,
         \A s \in L : ParentOf[s] = Top => \E n \in 1..Len(f.entries) : SubAt(f, n) = s
  PROVE  Complete(fs, {}, d, FALSE, L)
<1>1. Len(fs) = 1 /\ fs[1] = f
  OBVIOUS
<1>2. 1 \in 1..Len(fs)
  BY <1>1
<1> QED BY <1>1, <1>2 DEF Complete

LEMMA CompleteMoved ==
  ASSUME NEW fs, NEW c, Stack(fs, c), Busy(fs), NEW d, NEW e, d \subseteq e, NEW L,
         Complete(fs, c, d, FALSE, L)
  PROVE  Complete(Moved1(fs), c, e, FALSE, L)
<1>1. PICK gs : gs = Moved1(fs)
  OBVIOUS
<1>2. MovedTo(gs, fs)
  BY <1>1, MovedFacts
<1>3. Len(gs) = Len(fs) /\ \A i \in 1..Len(fs) : gs[i].entries = fs[i].entries
  BY <1>2 DEF MovedTo
<1>4. Complete(gs, c, e, FALSE, L)
  BY <1>3 DEF Complete, SubAt
<1> QED BY <1>1, <1>4

LEMMA CompleteNests ==
  ASSUME NEW fs, NEW c, NEW d, NEW b, NEW e, d \subseteq e, b = c \cup {Current(fs)}, NEW L,
         Complete(fs, c, d, FALSE, L)
  PROVE  Complete(fs, b, e, TRUE, L)
BY DEF Complete

LEMMA CompleteNest ==
  ASSUME NEW fs, NEW c, Stack(fs, c), Busy(fs), NEW d, NEW L, Complete(fs, c, d, TRUE, L),
         NEW f, IsFrame(f), NEW gs, gs = Append(Moved1(fs), f),
         \A s \in L : ParentOf[s] = Current(fs) => \E n \in 1..Len(f.entries) : SubAt(f, n) = s
  PROVE  Complete(gs, c, d, FALSE, L)
<1>1. PICK ms : ms = Moved1(fs)
  OBVIOUS
<1>2. MovedTo(ms, fs)
  BY <1>1, MovedFacts
<1>3. PICK N \in Nat \ {0} : N = Len(fs)
  BY LastFrame
<1>4. ms \in Seq(FrameRecs) /\ Len(ms) = N /\ \A i \in 1..N : ms[i].entries = fs[i].entries
  BY <1>2, <1>3 DEF MovedTo
<1>5. f \in FrameRecs
  BY DEF IsFrame
<1>6. Len(gs) = N + 1 /\ gs[N + 1] = f /\ \A i \in 1..N : gs[i] = ms[i]
  BY <1>1, <1>4, <1>5, AppendProperties
<1>7. ASSUME NEW s \in L, ParentOf[s] \in c \cup {Top}, s \notin d
      PROVE  \E i \in 1..Len(gs) : \E n \in 1..Len(gs[i].entries) : SubAt(gs[i], n) = s
  <2>1. CASE ParentOf[s] = Current(fs)
    <3>1. N + 1 \in 1..Len(gs)
      BY <1>6
    <3> QED BY <1>6, <2>1, <3>1
  <2>2. CASE ParentOf[s] # Current(fs)
    <3>1. PICK i \in 1..Len(fs) : \E n \in 1..Len(fs[i].entries) : SubAt(fs[i], n) = s
      BY <1>7, <2>2 DEF Complete
    <3>2. i \in 1..Len(gs) /\ gs[i].entries = fs[i].entries
      BY <1>3, <1>4, <1>6
    <3> QED BY <3>1, <3>2 DEF SubAt
  <2> QED BY <2>1, <2>2
<1> QED BY <1>7 DEF Complete

LEMMA CompleteLeave ==
  ASSUME NEW fs, NEW c, NEW k, Walk(fs, c, k, FALSE), fs # <<>>, fs[Len(fs)].index > Len(fs[Len(fs)].entries),
         NEW L, NEW d, d = Range(c) \cup Range(k),
         NEW gs, gs = Front(fs), Complete(fs, Range(c), d, FALSE, L)
  PROVE  Complete(gs, Range(c), d, FALSE, L)
<1>1. /\ gs \in Seq(FrameRecs) /\ Len(gs) = Len(fs) - 1 /\ \A i \in 1..Len(gs) : gs[i] = fs[i]
  BY WalkLeave
<1>2. Stack(fs, Range(c)) /\ Pending(fs, d, FALSE)
  BY DEF Walk
<1>3. PICK N \in Nat \ {0} : N = Len(fs)
  <2>1. fs \in Seq(FrameRecs)
    BY <1>2 DEF Stack
  <2> QED BY <2>1
<1>4. IsFrame(fs[N])
  BY <1>2, <1>3 DEF Stack
<1>5. Len(fs[N].entries) \in Nat /\ fs[N].index \in Nat
  BY <1>4 DEF IsFrame, FrameRecs
<1>6. ASSUME NEW n \in 1..Len(fs[N].entries) PROVE SubAt(fs[N], n) \in d
  <2>1. SubAt(fs[N], n) \in d <=> n < fs[N].index
    BY <1>2, <1>3 DEF Pending, Past
  <2>2. fs[N].index > Len(fs[N].entries)
    BY <1>3
  <2> QED BY <1>5, <2>1, <2>2
<1>7. \A i \in 1..N : i = N \/ i \in 1..Len(gs)
  BY <1>1, <1>3
<1>8. ASSUME NEW s \in L, ParentOf[s] \in Range(c) \cup {Top}
      PROVE  s \in d \/ \E i \in 1..Len(gs) : \E n \in 1..Len(gs[i].entries) : SubAt(gs[i], n) = s
  <2>1. s \in d \/ \E i \in 1..N : \E n \in 1..Len(fs[i].entries) : SubAt(fs[i], n) = s
    BY <1>3, <1>8 DEF Complete
  <2>2. ASSUME NEW i \in 1..N, NEW n \in 1..Len(fs[i].entries), SubAt(fs[i], n) = s, s \notin d
        PROVE  i \in 1..Len(gs) /\ n \in 1..Len(gs[i].entries) /\ SubAt(gs[i], n) = s
    <3>1. i # N
      BY <1>6, <2>2
    <3>2. i \in 1..Len(gs)
      BY <1>7, <3>1
    <3> QED BY <1>1, <2>2, <3>2
  <2> QED BY <2>1, <2>2
<1> QED BY <1>8 DEF Complete

(* A set as a sequence.                                                    *)
LEMMA SeqOfSet ==
  ASSUME NEW S, S \subseteq Subs, NEW t, t = SetToSeq(S)
  PROVE  t \in Seq(Subs) /\ IsInjective(t) /\ Range(t) = S /\ Len(t) = Cardinality(S)
<1>1. IsFiniteSet(Subs)
  <2>1. PICK N \in Nat : N = Len(Order) /\ DOMAIN Order = 1..N
    BY BatchAssumption
  <2>2. Order \in Surjection(1..N, Subs)
    <3>1. Order \in [1..N -> Subs]
      BY <2>1, BatchAssumption
    <3>2. \A s \in Subs : \E i \in 1..N : Order[i] = s
      BY <2>1 DEF Subs, Range
    <3> QED BY <3>1, <3>2 DEF Surjection
  <2>3. IsFiniteSet(1..N)
    BY <2>1, FS_Interval
  <2> QED BY <2>2, <2>3, FS_Surjection
<1>2. IsFiniteSet(S)
  BY <1>1, FS_Subset
<1>3. PICK N \in Nat : N = Cardinality(S) /\ ExistsBijection(1..N, S)
  BY <1>2, FS_CardinalityType
<1>4. \E f \in [1..N -> S] : IsInjective(f)
  <2>1. PICK f : f \in Bijection(1..N, S)
    BY <1>3 DEF ExistsBijection
  <2>2. f \in [1..N -> S] /\ IsInjective(f)
    BY <2>1 DEF Bijection, Injection
  <2> QED BY <2>2
<1>5. t \in [1..N -> S] /\ IsInjective(t)
  BY <1>3, <1>4 DEF SetToSeq
<1>6. t \in Injection(1..N, S)
  <2>1. DOMAIN t = 1..N
    BY <1>5
  <2>2. \A i, j \in 1..N : t[i] = t[j] => i = j
    BY <1>5, <2>1 DEF IsInjective
  <2> QED BY <1>5, <2>2 DEF Injection
<1>7. t \in Surjection(1..N, S)
  <2>1. Cardinality(1..N) = N
    BY <1>3, FS_Interval
  <2> QED BY <1>2, <1>3, <1>6, <2>1, FS_Injection
<1>8. Range(t) = S
  BY <1>5, <1>7 DEF Range, Surjection
<1>9. t \in Seq(S) /\ Len(t) = N
  BY <1>5
<1>10. t \in Seq(Subs)
  BY <1>9
<1> QED BY <1>3, <1>5, <1>8, <1>9, <1>10

LEMMA JoinOnce ==
  ASSUME NEW a, a \in Seq(Subs), NEW b, b \in Seq(Subs), IsInjective(a), IsInjective(b),
         Range(a) \cap Range(b) = {}, NEW t, t = a \o b
  PROVE  t \in Seq(Subs) /\ IsInjective(t) /\ Range(t) = Range(a) \cup Range(b)
<1>1. PICK M \in Nat : M = Len(a) /\ DOMAIN a = 1..M
  OBVIOUS
<1>2. PICK N \in Nat : N = Len(b) /\ DOMAIN b = 1..N
  OBVIOUS
<1>3. t \in Seq(Subs) /\ Len(t) = M + N
      /\ \A i \in 1..M + N : t[i] = IF i <= M THEN a[i] ELSE b[i - M]
  BY <1>1, <1>2, ConcatProperties
<1>4. DOMAIN t = 1..M + N
  BY <1>3
<1>5. \A i \in 1..M + N : (i \in 1..M /\ i <= M) \/ (i - M \in 1..N /\ ~(i <= M))
  BY <1>1, <1>2
<1>6. ASSUME NEW i \in 1..M + N
      PROVE  (i \in 1..M /\ t[i] = a[i] /\ t[i] \in Range(a)) \/ (i - M \in 1..N /\ t[i] = b[i - M] /\ t[i] \in Range(b))
  BY <1>1, <1>2, <1>3, <1>5 DEF Range
<1>7. IsInjective(t)
  <2>1. ASSUME NEW i \in 1..M + N, NEW j \in 1..M + N, t[i] = t[j] PROVE i = j
    <3>1. CASE i \in 1..M /\ t[i] = a[i] /\ t[i] \in Range(a)
      <4>1. j \in 1..M /\ t[j] = a[j]
        BY <1>6, <2>1, <3>1
      <4> QED BY <1>1, <2>1, <3>1, <4>1 DEF IsInjective
    <3>2. CASE i - M \in 1..N /\ t[i] = b[i - M] /\ t[i] \in Range(b)
      <4>1. j - M \in 1..N /\ t[j] = b[j - M]
        BY <1>6, <2>1, <3>2
      <4>2. i - M = j - M
        BY <1>2, <2>1, <3>2, <4>1 DEF IsInjective
      <4> QED BY <1>1, <4>2
    <3> QED BY <1>6, <3>1, <3>2
  <2> QED BY <1>4, <2>1 DEF IsInjective
<1>8. Range(t) = Range(a) \cup Range(b)
  <2>1. Range(t) \subseteq Range(a) \cup Range(b)
    BY <1>4, <1>6 DEF Range
  <2>2. ASSUME NEW i \in 1..M PROVE a[i] \in Range(t)
    <3>1. i \in 1..M + N /\ i <= M
      BY <1>1, <1>2
    <3>2. t[i] = a[i]
      BY <1>3, <3>1
    <3> QED BY <1>4, <3>1, <3>2 DEF Range
  <2>3. ASSUME NEW i \in 1..N PROVE b[i] \in Range(t)
    <3>1. i + M \in 1..M + N /\ ~(i + M <= M) /\ (i + M) - M = i
      BY <1>1, <1>2
    <3>2. t[i + M] = b[i]
      BY <1>3, <3>1
    <3> QED BY <1>4, <3>1, <3>2 DEF Range
  <2>4. Range(a) \subseteq Range(t)
    BY <1>1, <2>2 DEF Range
  <2>5. Range(b) \subseteq Range(t)
    BY <1>2, <2>3 DEF Range
  <2> QED BY <2>1, <2>4, <2>5
<1> QED BY <1>3, <1>7, <1>8

SubRecs == [listed : BOOLEAN, init : BOOLEAN, entry : Nat, head : Nat]
Listed == {s \in Subs : subs[s].listed}
GitRuns == [sub : Subs \cup {Top}, head : Nat]
TouchedBy(q) == {q[i].sub : i \in DOMAIN q} \ {Top}

BatchTypes ==
  /\ head \in Heads /\ expected \in Heads /\ subs \in [Subs -> SubRecs]
  /\ action \in Actions /\ DOMAIN initial \subseteq Subs
  /\ ran \in Seq(GitRuns) /\ moves \in Nat

(* Which steps there are, and what is already there in each.               *)
BatchSteps ==
  /\ step \in {"start", "pull", "pulled", "check", "git", "nest", "end"}
  /\ step # "end" => reply = ""
  /\ step \in {"start", "pull", "pulled"} => frames = <<>> /\ completed = <<>> /\ skipped = <<>>
  /\ step \in {"start", "pull"} => ran = <<>>
  /\ step \in {"pull", "pulled"} => Pulls
  /\ ~Pulls => initial = <<>> /\ \A i \in DOMAIN ran : ran[i].sub # Top
  /\ step # "end" => Range(completed) = TouchedBy(ran)

BatchWalks == step \in {"check", "git", "nest"} => Walk(frames, completed, skipped, step = "nest")

BatchComes ==
  (step \in {"check", "git", "nest"} /\ moves = 0 /\ Updates) =>
    Complete(frames, Range(completed), Range(completed) \cup Range(skipped), step = "nest", Listed)

(* Git is run in what was checked.                                         *)
GitOnChecked ==
  step = "git" =>
    /\ Busy(frames)
    /\ Pulls => /\ Current(frames) \in DOMAIN initial
                /\ AtEntry.head = initial[Current(frames)]

BatchInv ==
  BatchTypes /\ BatchSteps /\ BatchWalks /\ BatchComes /\ GitOnChecked /\ BatchReport /\ PullTouchesKnown

LEMMA EntryFacts ==
  ASSUME BatchTypes, NEW s, s \in Subs
  PROVE  Entry(s) \in EntryRecs /\ Entry(s).sub = s
<1>1. subs[s] \in SubRecs
  BY DEF BatchTypes
<1>2. subs[s].entry \in Nat /\ subs[s].init \in BOOLEAN /\ subs[s].head \in Nat
  BY <1>1 DEF SubRecs
<1>3. PICK h : h = IF subs[s].init /\ action # "sync" THEN subs[s].head ELSE 0
  OBVIOUS
<1>4. PICK k : k = CASE action = "sync" -> FALSE
                     [] Updates -> s \in NoUpdate
                     [] OTHER -> ~subs[s].init
  OBVIOUS
<1>5. h \in Nat
  BY <1>2, <1>3
<1>6. k \in BOOLEAN
  <2>1. \A S : (s \in S) \in BOOLEAN
    OBVIOUS
  <2>2. CASE action = "sync"
    <3>1. ~Updates
      BY <2>2 DEF Updates
    <3> QED BY <1>4, <2>2, <3>1
  <2>3. CASE action # "sync" /\ Updates
    BY <1>4, <2>1, <2>3
  <2>4. CASE action # "sync" /\ ~Updates
    BY <1>2, <1>4, <2>4
  <2> QED BY <2>2, <2>3, <2>4
<1>7. Entry(s) = [sub |-> s, entry |-> subs[s].entry, init |-> subs[s].init, head |-> h, skip |-> k]
  BY <1>3, <1>4 DEF Entry
<1> QED BY <1>2, <1>5, <1>6, <1>7 DEF EntryRecs

LEMMA FrameFacts ==
  ASSUME BatchTypes, NEW r, r \in Subs \cup {Top}, NEW f, f = Frame(r)
  PROVE  /\ IsFrame(f) /\ f.repo = r /\ f.index = 1
         /\ \A s \in Listed : ParentOf[s] = r => \E n \in 1..Len(f.entries) : SubAt(f, n) = s
<1>1. PICK l : l = ListedIn(r)
  OBVIOUS
<1>2. l \in Seq(Subs) /\ IsInjective(l) /\ Range(l) = {s \in Subs : ParentOf[s] = r /\ subs[s].listed}
  BY <1>1, ListedFacts
<1>3. PICK N \in Nat : N = Len(l) /\ DOMAIN l = 1..N
  BY <1>2
<1>4. PICK e : e = [i \in 1..N |-> Entry(l[i])]
  OBVIOUS
<1>5. e = Entries(r)
  BY <1>1, <1>3, <1>4 DEF Entries
<1>6. \A i \in 1..N : l[i] \in Subs /\ ParentOf[l[i]] = r /\ \A j \in 1..N : l[i] = l[j] => i = j
  BY <1>2, <1>3 DEF IsInjective, Range
<1>7. \A i \in 1..N : e[i] \in EntryRecs /\ e[i].sub = l[i]
  BY <1>4, <1>6, EntryFacts
<1>8. e \in Seq(EntryRecs) /\ Len(e) = N
  BY <1>3, <1>4, <1>7
<1>9. HeadOf(r) \in Heads \cup Nat
  <2>1. r # Top => subs[r] \in SubRecs
    BY DEF BatchTypes
  <2> QED BY <2>1 DEF HeadOf, SubRecs, BatchTypes
<1>10. f = [repo |-> r, head |-> HeadOf(r), entries |-> e, index |-> 1]
  BY <1>5 DEF Frame
<1>11. f \in FrameRecs
  BY <1>8, <1>9, <1>10 DEF FrameRecs
<1>12. f.repo = r /\ f.entries = e /\ f.index = 1
  BY <1>10
<1>13. IsFrame(f)
  BY <1>3, <1>6, <1>7, <1>8, <1>11, <1>12 DEF IsFrame, SubAt
<1>14. \A s \in Listed : ParentOf[s] = r => \E n \in 1..N : l[n] = s
  <2>1. \A s \in Listed : ParentOf[s] = r => s \in Range(l)
    BY <1>2 DEF Listed
  <2> QED BY <1>3, <2>1 DEF Range
<1> QED BY <1>7, <1>8, <1>12, <1>13, <1>14 DEF SubAt

LEMMA MemberIsBoolean == \A x, S : (x \in S) \in BOOLEAN
<1> SUFFICES ASSUME NEW x, NEW S PROVE (x \in S) \in BOOLEAN
  OBVIOUS
<1> QED OBVIOUS

LEMMA NothingIn == DOMAIN <<>> = {}
<1>1. PICK z : z = <<>>
  OBVIOUS
<1>2. z \in Seq({}) /\ Len(z) = 0
  BY <1>1
<1>3. DOMAIN z = 1..0
  BY <1>2
<1> QED BY <1>1, <1>3

LEMMA BatchInitInv == BatchInit => BatchInv
<1> SUFFICES ASSUME BatchInit PROVE BatchInv
  OBVIOUS
<1>1. /\ head = [branch |-> 0, oid |-> 0] /\ action \in Actions
      /\ expected = head /\ step = "start" /\ initial = <<>> /\ frames = <<>>
      /\ completed = <<>> /\ skipped = <<>> /\ reply = "" /\ ran = <<>> /\ moves = 0
  BY DEF BatchInit
<1>2. PICK L : subs = [s \in Subs |-> [listed |-> s \in L, init |-> s \in Initialized, entry |-> 0, head |-> 0]]
  BY DEF BatchInit
<1>3. BatchTypes
  <2>1. head \in Heads /\ expected \in Heads
    BY <1>1 DEF Heads
  <2>2. \A x, S : (x \in S) \in BOOLEAN
    BY MemberIsBoolean
  <2>3. ASSUME NEW a, a \in BOOLEAN, NEW b, b \in BOOLEAN
        PROVE  [listed |-> a, init |-> b, entry |-> 0, head |-> 0] \in SubRecs
    BY <2>3 DEF SubRecs
  <2>4. subs \in [Subs -> SubRecs]
    BY <1>2, <2>2, <2>3
  <2>5. DOMAIN initial = {}
    BY <1>1, NothingIn
  <2>6. <<>> \in Seq(GitRuns)
    OBVIOUS
  <2> QED BY <1>1, <2>1, <2>4, <2>5, <2>6 DEF BatchTypes
<1>4. DOMAIN ran = {} /\ DOMAIN completed = {}
  BY <1>1, NothingIn
<1>5. Range(completed) = {} /\ TouchedBy(ran) = {}
  BY <1>4 DEF TouchedBy, Range
<1>6. BatchSteps
  BY <1>1, <1>4, <1>5 DEF BatchSteps
<1>7. BatchWalks /\ BatchComes /\ GitOnChecked /\ BatchReport
  BY <1>1 DEF BatchWalks, BatchComes, GitOnChecked, BatchReport
<1>8. PullTouchesKnown
  BY <1>4 DEF PullTouchesKnown
<1> QED BY <1>3, <1>6, <1>7, <1>8 DEF BatchInv

(* One more run of git.                                                    *)
OneMore(t, q, e) ==
  /\ t \in Seq(GitRuns) /\ TouchedBy(t) = TouchedBy(q) \cup ({e.sub} \ {Top})
  /\ \A i \in DOMAIN t : (i \in DOMAIN q /\ t[i] = q[i]) \/ t[i] = e

LEMMA RanMore ==
  ASSUME NEW q, q \in Seq(GitRuns), NEW e, e \in GitRuns
  PROVE  OneMore(Append(q, e), q, e)
<1> SUFFICES ASSUME NEW t, t = Append(q, e) PROVE OneMore(t, q, e)
  OBVIOUS
<1>1. PICK N \in Nat : N = Len(q) /\ DOMAIN q = 1..N
  OBVIOUS
<1>2. t \in Seq(GitRuns) /\ Len(t) = N + 1 /\ t[N + 1] = e /\ \A i \in 1..N : t[i] = q[i]
  BY <1>1, AppendProperties
<1>3. DOMAIN t = 1..N + 1
  BY <1>2
<1>4. \A i \in 1..N + 1 : i \in 1..N \/ i = N + 1
  OBVIOUS
<1>5. TouchedBy(t) = TouchedBy(q) \cup ({e.sub} \ {Top})
  <2>1. TouchedBy(t) \subseteq TouchedBy(q) \cup ({e.sub} \ {Top})
    BY <1>1, <1>2, <1>3, <1>4 DEF TouchedBy
  <2>2. TouchedBy(q) \subseteq TouchedBy(t)
    BY <1>1, <1>2, <1>3 DEF TouchedBy
  <2>3. N + 1 \in DOMAIN t
    BY <1>3
  <2>4. {e.sub} \ {Top} \subseteq TouchedBy(t)
    BY <1>2, <2>3 DEF TouchedBy
  <2> QED BY <2>1, <2>2, <2>4
<1> QED BY <1>1, <1>2, <1>3, <1>4, <1>5 DEF OneMore

Refusals == {"stale_target", "invalid_request", "repository_error", "timeout"}

(* After an answer nothing else has to hold.                               *)
LEMMA EndedInv ==
  ASSUME BatchInv, BatchTypes', action' = action, step' = "end", initial' = initial, BatchReport', PullTouchesKnown',
         ~Pulls => \A i \in DOMAIN ran' : ran'[i].sub # Top
  PROVE  BatchInv'
<1>1. BatchSteps'
  BY DEF BatchInv, BatchSteps, Pulls
<1>2. BatchWalks' /\ BatchComes' /\ GitOnChecked'
  BY DEF BatchWalks, BatchComes, GitOnChecked
<1> QED BY <1>1, <1>2 DEF BatchInv

(* An answer that is no success, after no more git.                        *)
LEMMA RefusedInv ==
  ASSUME BatchInv, action' = action, step' = "end", initial' = initial, ran' = ran, BatchTypes',
         reply' # "ok", reply' \in Refusals => ran = <<>>
  PROVE  BatchInv'
<1>1. BatchReport'
  BY DEF BatchReport, Refusals
<1>2. PullTouchesKnown'
  BY DEF BatchInv, PullTouchesKnown, Pulls
<1>3. ~Pulls => \A i \in DOMAIN ran' : ran'[i].sub # Top
  BY DEF BatchInv, BatchSteps
<1> QED BY <1>1, <1>2, <1>3, EndedInv

LEMMA NothingRan ==
  ASSUME BatchInv, step # "end", ~Pulls, completed = <<>>
  PROVE  ran = <<>>
<1>1. ran \in Seq(GitRuns)
  BY DEF BatchInv, BatchTypes
<1>2. Range(completed) = {}
  BY NothingIn DEF Range
<1>3. \A i \in DOMAIN ran : ran[i].sub # Top
  BY DEF BatchInv, BatchSteps
<1>4. TouchedBy(ran) = {}
  BY <1>2 DEF BatchInv, BatchSteps
<1>5. \A i \in DOMAIN ran : FALSE
  BY <1>3, <1>4 DEF TouchedBy
<1>6. PICK N \in Nat : N = Len(ran) /\ DOMAIN ran = 1..N
  BY <1>1
<1>7. N = 0
  BY <1>5, <1>6
<1> QED BY <1>1, <1>6, <1>7

(* A failure refuses only when git never ran.                              *)
LEMMA FailureRefuses ==
  ASSUME BatchInv, step # "end", NEW code, code # "ok", Failure(code)
  PROVE  /\ step' = "end" /\ reply' # "ok" /\ initial' = initial
         /\ reply' \in Refusals => ran = <<>> /\ reply' = code
<1>1. /\ step' = "end" /\ initial' = initial
      /\ reply' = IF code = "outcome_unknown" THEN code
                  ELSE IF Pulls \/ completed # <<>> \/ skipped # <<>> THEN "partial_failure"
                  ELSE code
  BY DEF Failure, Reply
<1>2. reply' # "ok"
  BY <1>1
<1>3. ASSUME reply' \in Refusals PROVE ran = <<>> /\ reply' = code
  <2>1. ~Pulls /\ completed = <<>> /\ reply' = code
    BY <1>1, <1>3 DEF Refusals
  <2> QED BY <2>1, NothingRan
<1> QED BY <1>1, <1>2, <1>3

(* The first frame.                                                        *)
LEMMA OpenWalks ==
  ASSUME BatchTypes, completed = <<>>, skipped = <<>>, NEW fs, fs = <<Frame(Top)>>
  PROVE  Walk(fs, completed, skipped, FALSE) /\ Complete(fs, Range(completed), Range(completed) \cup Range(skipped), FALSE, Listed)
<1>1. PICK f : f = Frame(Top)
  OBVIOUS
<1>2. /\ IsFrame(f) /\ f.repo = Top /\ f.index = 1
      /\ \A s \in Listed : ParentOf[s] = Top => \E n \in 1..Len(f.entries) : SubAt(f, n) = s
  BY <1>1, FrameFacts
<1>3. fs = <<f>>
  BY <1>1
<1>4. Walk(fs, <<>>, <<>>, FALSE)
  BY <1>2, <1>3, WalkOpen
<1>5. PICK d : d = Range(completed) \cup Range(skipped)
  OBVIOUS
<1>6. Complete(fs, {}, d, FALSE, Listed)
  BY <1>2, <1>3, CompleteOpen
<1>7. Range(completed) = {}
  BY NothingIn DEF Range
<1> QED BY <1>4, <1>5, <1>6, <1>7

LEMMA OpenInv ==
  ASSUME BatchInv, step \in {"start", "pulled"}, Open(Top), BatchTypes',
         action' = action, initial' = initial, subs' = subs, ran' = ran, moves' = moves
  PROVE  BatchInv'
<1>1. CASE Len(Entries(Top)) > MaxSubmodules
  <2>1. Failure("invalid_request")
    BY <1>1 DEF Open
  <2>2. /\ step' = "end" /\ reply' # "ok"
        /\ reply' \in Refusals => ran = <<>>
    BY <2>1, FailureRefuses
  <2> QED BY <2>2, RefusedInv
<1>2. CASE ~(Len(Entries(Top)) > MaxSubmodules)
  <2>1. /\ frames' = <<Frame(Top)>> /\ step' = "check"
        /\ completed' = completed /\ skipped' = skipped /\ reply' = reply
    BY <1>2 DEF Open
  <2>2. completed = <<>> /\ skipped = <<>> /\ BatchTypes /\ reply = ""
    BY DEF BatchInv, BatchSteps
  <2>3. PICK fs : fs = frames'
    OBVIOUS
  <2>4. /\ Walk(fs, completed, skipped, FALSE)
        /\ Complete(fs, Range(completed), Range(completed) \cup Range(skipped), FALSE, Listed)
    BY <2>1, <2>2, <2>3, OpenWalks
  <2>5. BatchSteps'
    BY <2>1 DEF BatchInv, BatchSteps, Pulls
  <2>6. Listed' = Listed
    BY DEF Listed
  <2>7. BatchWalks' /\ BatchComes'
    BY <2>1, <2>3, <2>4, <2>6 DEF BatchWalks, BatchComes
  <2>8. GitOnChecked' /\ BatchReport'
    BY <2>1, <2>2 DEF GitOnChecked, BatchReport
  <2>9. PullTouchesKnown'
    BY DEF BatchInv, PullTouchesKnown, Pulls
  <2> QED BY <2>5, <2>7, <2>8, <2>9 DEF BatchInv
<1> QED BY <1>1, <1>2

LEMMA StartInv == ASSUME BatchInv, Start PROVE BatchInv'
<1>1. /\ step = "start" /\ head' = head /\ subs' = subs /\ action' = action /\ expected' = expected
      /\ ran' = ran /\ moves' = moves
  BY DEF Start
<1>2. BatchTypes /\ ran = <<>> /\ reply = ""
  BY <1>1 DEF BatchInv, BatchSteps
<1>3. ASSUME NEW code, code \in Refusals, Reply(code) PROVE BatchInv'
  <2>1. step' = "end" /\ initial' = initial /\ reply' = code
    BY <1>3 DEF Reply
  <2>2. BatchTypes'
    BY <1>1, <1>2, <2>1 DEF BatchTypes
  <2>3. reply' # "ok"
    BY <1>3, <2>1 DEF Refusals
  <2> QED BY <1>1, <1>2, <2>1, <2>2, <2>3, RefusedInv
<1>4. CASE head # expected
  <2>1. Reply("stale_target")
    BY <1>4 DEF Start
  <2> QED BY <1>3, <2>1 DEF Refusals
<1>5. CASE head = expected /\ ~Pulls
  <2>1. Open(Top) /\ initial' = initial
    BY <1>5 DEF Start
  <2>2. BatchTypes'
    BY <1>1, <1>2, <2>1 DEF BatchTypes
  <2> QED BY <1>1, <2>1, <2>2, OpenInv
<1>6. CASE head = expected /\ Pulls /\ Cardinality(Descendants) > MaxSubmodules
  <2>1. Reply("invalid_request")
    BY <1>6 DEF Start
  <2> QED BY <1>3, <2>1 DEF Refusals
<1>7. CASE head = expected /\ Pulls /\ ~(Cardinality(Descendants) > MaxSubmodules)
  <2>1. /\ initial' = [s \in Descendants |-> subs[s].head] /\ step' = "pull"
        /\ frames' = frames /\ completed' = completed /\ skipped' = skipped /\ reply' = reply
    BY <1>7 DEF Start
  <2>2. DOMAIN initial' \subseteq Subs
    BY <2>1 DEF Descendants
  <2>3. BatchTypes'
    BY <1>1, <1>2, <2>2 DEF BatchTypes
  <2>4. BatchSteps'
    BY <1>1, <1>7, <2>1 DEF BatchInv, BatchSteps, Pulls
  <2>5. BatchWalks' /\ BatchComes' /\ GitOnChecked' /\ BatchReport'
    BY <1>2, <2>1 DEF BatchWalks, BatchComes, GitOnChecked, BatchReport
  <2>6. PullTouchesKnown'
    BY <1>1, <1>2, NothingIn DEF PullTouchesKnown
  <2> QED BY <2>3, <2>4, <2>5, <2>6 DEF BatchInv
<1> QED BY <1>4, <1>5, <1>6, <1>7

LEMMA ParentPullInv == ASSUME BatchInv, ParentPull PROVE BatchInv'
<1>1. step = "pull" /\ action' = action /\ expected' = expected /\ moves' = moves
  BY DEF ParentPull
<1>2. BatchTypes /\ ran = <<>> /\ reply = "" /\ Pulls
  BY <1>1 DEF BatchInv, BatchSteps
<1>3. ASSUME NEW code, code \in Refusals, Reply(code), head' = head, subs' = subs, ran' = ran PROVE BatchInv'
  <2>1. step' = "end" /\ initial' = initial /\ reply' = code
    BY <1>3 DEF Reply
  <2>2. BatchTypes'
    BY <1>1, <1>2, <1>3, <2>1 DEF BatchTypes
  <2>3. reply' # "ok"
    BY <1>3, <2>1 DEF Refusals
  <2> QED BY <1>1, <1>2, <1>3, <2>1, <2>2, <2>3, RefusedInv
<1>4. CASE head # expected /\ Reply("stale_target") /\ UNCHANGED <<head, subs, ran>>
  BY <1>3, <1>4 DEF Refusals
<1>5. CASE head = expected /\ late /\ Reply("timeout") /\ UNCHANGED <<head, subs, ran>>
  BY <1>3, <1>5 DEF Refusals
<1>6. CASE /\ head = expected /\ ~late
           /\ ran' = Append(ran, [sub |-> Top, head |-> 0])
           /\ \/ /\ \E code \in {"git_error", "outcome_unknown"} : Reply(code)
                 /\ UNCHANGED <<head, subs>>
              \/ /\ head' = [head EXCEPT !.oid = @ + 1]
                 /\ \/ UNCHANGED subs
                    \/ \E s \in Subs : subs' = [subs EXCEPT ![s].entry = @ + 1]
                    \/ \E s \in Subs : subs' = [subs EXCEPT ![s].listed = ~@]
                 /\ step' = "pulled"
                 /\ UNCHANGED <<initial, frames, completed, skipped, total, reply>>
  <2>1. PICK t : t = ran'
    OBVIOUS
  <2>2. PICK e : e = [sub |-> Top, head |-> 0]
    OBVIOUS
  <2>7. e \in GitRuns /\ e.sub = Top
    BY <2>2 DEF GitRuns
  <2>8. /\ t \in Seq(GitRuns) /\ TouchedBy(t) = TouchedBy(ran) \cup ({e.sub} \ {Top})
        /\ \A i \in DOMAIN t : (i \in DOMAIN ran /\ t[i] = ran[i]) \/ t[i] = e
    <3>1. ran \in Seq(GitRuns)
      BY <1>2 DEF BatchTypes
    <3>2. t = Append(ran, e)
      BY <1>6, <2>1, <2>2
    <3>3. OneMore(t, ran, e)
      BY <2>7, <3>1, <3>2, RanMore
    <3> QED BY <3>3 DEF OneMore
  <2>3. TouchedBy(t) = TouchedBy(ran) /\ \A i \in DOMAIN t : t[i].sub = Top
    BY <1>2, <2>7, <2>8, NothingIn
  <2>4. ASSUME initial' = initial PROVE PullTouchesKnown'
    BY <2>1, <2>3 DEF PullTouchesKnown
  <2>5. CASE (\E code \in {"git_error", "outcome_unknown"} : Reply(code)) /\ UNCHANGED <<head, subs>>
    <3>1. step' = "end" /\ initial' = initial /\ reply' \in {"git_error", "outcome_unknown"}
      BY <2>5 DEF Reply
    <3>2. BatchTypes'
      BY <1>1, <1>2, <2>1, <2>8, <2>5, <3>1 DEF BatchTypes
    <3>3. BatchReport'
      BY <3>1 DEF BatchReport
    <3> QED BY <1>1, <1>2, <2>4, <3>1, <3>2, <3>3, EndedInv
  <2>6. CASE /\ head' = [head EXCEPT !.oid = @ + 1]
             /\ \/ UNCHANGED subs
                \/ \E s \in Subs : subs' = [subs EXCEPT ![s].entry = @ + 1]
                \/ \E s \in Subs : subs' = [subs EXCEPT ![s].listed = ~@]
             /\ step' = "pulled"
             /\ UNCHANGED <<initial, frames, completed, skipped, total, reply>>
    <3>1. head' \in Heads
      <4>1. head \in Heads
        BY <1>2 DEF BatchTypes
      <4> QED BY <2>6, <4>1 DEF Heads
    <3>2. subs' \in [Subs -> SubRecs]
      <4>1. subs \in [Subs -> SubRecs]
        BY <1>2 DEF BatchTypes
      <4>2. CASE UNCHANGED subs
        BY <4>1, <4>2
      <4>3. CASE \E s \in Subs : subs' = [subs EXCEPT ![s].entry = @ + 1]
        BY <4>1, <4>3 DEF SubRecs
      <4>4. CASE \E s \in Subs : subs' = [subs EXCEPT ![s].listed = ~@]
        <5>1. PICK s \in Subs : subs' = [subs EXCEPT ![s].listed = ~@]
          BY <4>4
        <5>2. PICK b \in BOOLEAN : b = ~subs[s].listed
          OBVIOUS
        <5>3. subs[s] \in SubRecs
          BY <4>1
        <5>4. [subs[s] EXCEPT !.listed = b] \in SubRecs
          BY <5>3 DEF SubRecs
        <5>5. subs' = [subs EXCEPT ![s] = [subs[s] EXCEPT !.listed = b]]
          BY <5>1, <5>2
        <5> QED BY <4>1, <5>4, <5>5
      <4> QED BY <2>6, <4>2, <4>3, <4>4
    <3>3. BatchTypes'
      BY <1>1, <1>2, <2>1, <2>8, <2>6, <3>1, <3>2 DEF BatchTypes
    <3>4. BatchSteps'
      <4>1. Range(completed) = TouchedBy(ran) /\ completed = <<>> /\ skipped = <<>> /\ frames = <<>>
        BY <1>1 DEF BatchInv, BatchSteps
      <4> QED BY <1>1, <1>2, <2>1, <2>3, <2>6, <4>1 DEF BatchSteps, Pulls
    <3>5. BatchWalks' /\ BatchComes' /\ GitOnChecked' /\ BatchReport'
      BY <1>2, <2>6 DEF BatchWalks, BatchComes, GitOnChecked, BatchReport
    <3> QED BY <2>4, <2>6, <3>3, <3>4, <3>5 DEF BatchInv
  <2> QED BY <1>6, <2>5, <2>6
<1> QED BY <1>4, <1>5, <1>6 DEF ParentPull

LEMMA FollowUpInv == ASSUME BatchInv, FollowUp PROVE BatchInv'
<1>1. /\ step = "pulled" /\ head' = head /\ subs' = subs /\ action' = action
      /\ ran' = ran /\ moves' = moves
  BY DEF FollowUp
<1>2. BatchTypes
  BY DEF BatchInv
<1>3. CASE head.branch # expected.branch
  <2>1. Failure("stale_target") /\ expected' = expected
    BY <1>3 DEF FollowUp
  <2>2. /\ step' = "end" /\ reply' # "ok" /\ initial' = initial
        /\ reply' \in Refusals => ran = <<>>
    BY <1>1, <2>1, FailureRefuses
  <2>3. BatchTypes'
    BY <1>1, <1>2, <2>1, <2>2 DEF BatchTypes
  <2> QED BY <1>1, <2>2, <2>3, RefusedInv
<1>4. CASE head.branch = expected.branch
  <2>1. expected' = head /\ Open(Top) /\ initial' = initial
    BY <1>4 DEF FollowUp
  <2>2. BatchTypes'
    BY <1>1, <1>2, <2>1 DEF BatchTypes
  <2> QED BY <1>1, <2>1, <2>2, OpenInv
<1> QED BY <1>3, <1>4

LEMMA AtCurrent == TopFrame = frames[Len(frames)] /\ AtEntry.sub = Current(frames) /\ MovedOn = Moved1(frames)
BY DEF TopFrame, AtEntry, MovedOn, Moved1, Current, SubAt, Last

LEMMA FailedInv ==
  ASSUME BatchInv, step # "end", NEW code, code # "ok", Failure(code), BatchTypes', action' = action, ran' = ran
  PROVE  BatchInv'
<1>1. /\ step' = "end" /\ reply' # "ok" /\ initial' = initial
      /\ reply' \in Refusals => ran = <<>>
  BY FailureRefuses
<1> QED BY <1>1, RefusedInv

LEMMA FailureKeeps == ASSUME NEW code, Failure(code) PROVE initial' = initial /\ step' = "end"
BY DEF Failure, Reply

LEMMA CheckInv == ASSUME BatchInv, Check PROVE BatchInv'
<1>1. /\ step = "check" /\ head' = head /\ subs' = subs /\ action' = action /\ expected' = expected
      /\ ran' = ran /\ moves' = moves
  BY DEF Check
<1>2. BatchTypes /\ BatchSteps /\ BatchWalks /\ BatchComes /\ PullTouchesKnown
  BY DEF BatchInv
<1>3. Busy(frames)
  BY AtCurrent DEF Check, Busy
<1>4. ASSUME NEW code, code # "ok", Failure(code) PROVE BatchInv'
  <2>1. initial' = initial
    BY <1>4, FailureKeeps
  <2>2. BatchTypes'
    BY <1>1, <1>2, <2>1 DEF BatchTypes
  <2> QED BY <1>1, <1>4, <2>2, FailedInv
<1>5. CASE ~Unchanged \/ (Pulls /\ AtEntry.init /\ Moved(AtEntry))
  <2>1. Failure("stale_target")
    BY <1>5 DEF Check
  <2> QED BY <1>4, <2>1
<1>6. CASE ~(~Unchanged \/ (Pulls /\ AtEntry.init /\ Moved(AtEntry))) /\ Skips(AtEntry)
  <2>1. /\ skipped' = Append(skipped, AtEntry.sub) /\ frames' = MovedOn
        /\ step' = step /\ initial' = initial /\ completed' = completed /\ reply' = reply
    BY <1>6 DEF Check
  <2>2. Walk(frames, completed, skipped, FALSE)
    BY <1>1, <1>2 DEF BatchWalks
  <2>3. PICK t : t = skipped'
    OBVIOUS
  <2>4. t = Append(skipped, Current(frames)) /\ frames' = Moved1(frames)
    BY <2>1, <2>3, AtCurrent
  <2>5. Walk(Moved1(frames), completed, t, FALSE) /\ Range(t) = Range(skipped) \cup {Current(frames)}
    BY <1>3, <2>2, <2>4, WalkSkip
  <2>6. BatchTypes'
    BY <1>1, <1>2, <2>1 DEF BatchTypes
  <2>7. BatchSteps'
    BY <1>1, <1>2, <2>1 DEF BatchSteps, Pulls
  <2>8. BatchWalks'
    BY <1>1, <2>1, <2>3, <2>4, <2>5 DEF BatchWalks
  <2>9. Listed' = Listed
    BY <1>1 DEF Listed
  <2>10. BatchComes'
    <3>1. ASSUME moves = 0, Updates
          PROVE  Complete(Moved1(frames), Range(completed), Range(completed) \cup Range(t), FALSE, Listed)
      <4>1. PICK d : d = Range(completed) \cup Range(skipped)
        OBVIOUS
      <4>2. PICK e : e = Range(completed) \cup Range(t)
        OBVIOUS
      <4>3. Complete(frames, Range(completed), d, FALSE, Listed)
        BY <1>1, <1>2, <3>1, <4>1 DEF BatchComes
      <4>4. d \subseteq e
        BY <2>5, <4>1, <4>2
      <4>5. Stack(frames, Range(completed))
        BY <2>2 DEF Walk
      <4>6. Complete(Moved1(frames), Range(completed), e, FALSE, Listed)
        BY <1>3, <4>3, <4>4, <4>5, CompleteMoved
      <4> QED BY <4>2, <4>6
    <3> QED BY <1>1, <2>1, <2>3, <2>4, <2>9, <3>1 DEF BatchComes, Updates
  <2>11. GitOnChecked' /\ BatchReport' /\ PullTouchesKnown'
    BY <1>1, <1>2, <2>1 DEF GitOnChecked, BatchReport, PullTouchesKnown, Pulls, BatchSteps
  <2> QED BY <2>6, <2>7, <2>8, <2>10, <2>11 DEF BatchInv
<1>7. CASE ~(~Unchanged \/ (Pulls /\ AtEntry.init /\ Moved(AtEntry))) /\ ~Skips(AtEntry) /\ late
  <2>1. Failure("timeout")
    BY <1>7 DEF Check
  <2> QED BY <1>4, <2>1
<1>8. CASE ~(~Unchanged \/ (Pulls /\ AtEntry.init /\ Moved(AtEntry))) /\ ~Skips(AtEntry) /\ ~late
  <2>1. /\ step' = "git" /\ initial' = initial /\ frames' = frames /\ completed' = completed
        /\ skipped' = skipped /\ reply' = reply
    BY <1>8 DEF Check
  <2>2. BatchTypes'
    BY <1>1, <1>2, <2>1 DEF BatchTypes
  <2>3. BatchSteps'
    BY <1>1, <1>2, <2>1 DEF BatchSteps, Pulls
  <2>4. BatchWalks'
    BY <1>1, <1>2, <2>1 DEF BatchWalks
  <2>5. BatchComes'
    BY <1>1, <1>2, <2>1 DEF BatchComes, Updates, Listed
  <2>6. Pulls => Current(frames) \in DOMAIN initial /\ AtEntry.head = initial[Current(frames)]
    BY <1>8, AtCurrent DEF Skips, Moved
  <2>7. GitOnChecked'
    BY <1>1, <1>3, <2>1, <2>6 DEF GitOnChecked, Pulls, AtEntry, TopFrame
  <2>8. BatchReport' /\ PullTouchesKnown'
    BY <1>1, <1>2, <2>1 DEF BatchReport, PullTouchesKnown, Pulls, BatchSteps
  <2> QED BY <2>2, <2>3, <2>4, <2>5, <2>7, <2>8 DEF BatchInv
<1> QED BY <1>5, <1>6, <1>7, <1>8

LEMMA RunInv == ASSUME BatchInv, RunSubmoduleGit PROVE BatchInv'
<1>1. /\ step = "git" /\ head' = head /\ action' = action /\ expected' = expected /\ moves' = moves
      /\ ran' = Append(ran, [sub |-> AtEntry.sub, head |-> AtEntry.head])
  BY DEF RunSubmoduleGit
<1>2. BatchTypes /\ BatchSteps /\ BatchWalks /\ BatchComes /\ PullTouchesKnown /\ GitOnChecked
  BY DEF BatchInv
<1>3. Walk(frames, completed, skipped, FALSE) /\ Busy(frames)
  BY <1>1, <1>2 DEF BatchWalks, GitOnChecked
<1>4. Stack(frames, Range(completed))
  BY <1>3 DEF Walk
<1>5. PICK c \in Subs : c = Current(frames)
  BY <1>3, <1>4, LastFrame
<1>6. AtEntry \in EntryRecs
  <2>1. PICK f : f = frames[Len(frames)]
    OBVIOUS
  <2>2. IsFrame(f) /\ f.index \in 1..Len(f.entries)
    BY <1>3, <1>4, <2>1, LastFrame
  <2>3. f.entries \in Seq(EntryRecs)
    BY <2>2 DEF IsFrame, FrameRecs
  <2>4. f.entries[f.index] \in EntryRecs
    BY <2>2, <2>3
  <2> QED BY <2>1, <2>4, AtCurrent DEF AtEntry
<1>7. PICK e : e = [sub |-> AtEntry.sub, head |-> AtEntry.head]
  OBVIOUS
<1>8. e \in GitRuns /\ e.sub = c /\ e.head = AtEntry.head /\ c # Top
  <2>1. AtEntry.sub = c /\ AtEntry.head \in Nat
    BY <1>5, <1>6, AtCurrent DEF EntryRecs
  <2> QED BY <1>7, <2>1, BatchAssumption DEF GitRuns
<1>9. PICK q : q = ran'
  OBVIOUS
<1>10. OneMore(q, ran, e)
  <2>1. ran \in Seq(GitRuns)
    BY <1>2 DEF BatchTypes
  <2> QED BY <1>1, <1>7, <1>8, <1>9, <2>1, RanMore
<1>11. q \in Seq(GitRuns) /\ TouchedBy(q) = TouchedBy(ran) \cup {c}
  BY <1>8, <1>10 DEF OneMore
<1>12. ASSUME initial' = initial PROVE PullTouchesKnown'
  <2>1. ASSUME Pulls, NEW i \in DOMAIN q, q[i].sub # Top
        PROVE  q[i].sub \in DOMAIN initial /\ q[i].head = initial[q[i].sub]
    <3>1. CASE i \in DOMAIN ran /\ q[i] = ran[i]
      BY <1>2, <2>1, <3>1 DEF PullTouchesKnown
    <3>2. CASE q[i] = e
      BY <1>1, <1>2, <1>5, <1>8, <2>1, <3>2 DEF GitOnChecked
    <3> QED BY <1>10, <3>1, <3>2 DEF OneMore
  <2> QED BY <1>1, <1>9, <1>12, <2>1 DEF PullTouchesKnown, Pulls
<1>13. ~Pulls => \A i \in DOMAIN q : q[i].sub # Top
  <2>1. ~Pulls => \A i \in DOMAIN ran : ran[i].sub # Top
    BY <1>2 DEF BatchSteps
  <2> QED BY <1>8, <1>10, <2>1 DEF OneMore
<1>14. ASSUME step' = "end", initial' = initial, subs' = subs, reply' # "ok", reply' \notin Refusals PROVE BatchInv'
  <2>1. BatchTypes'
    BY <1>1, <1>2, <1>9, <1>11, <1>14 DEF BatchTypes
  <2>2. BatchReport'
    BY <1>14 DEF BatchReport, Refusals
  <2>3. PullTouchesKnown'
    BY <1>12, <1>14
  <2> QED BY <1>1, <1>9, <1>13, <1>14, <2>1, <2>2, <2>3, EndedInv
<1>15. CASE GitStops /\ UNCHANGED subs
  <2>1. PICK code \in {"git_error", "outcome_unknown"} : Failure(code)
    BY <1>15 DEF GitStops
  <2>2. step' = "end" /\ initial' = initial /\ reply' # "ok" /\ reply' \notin Refusals
    BY <2>1 DEF Failure, Reply, Refusals
  <2> QED BY <1>14, <1>15, <2>2
<1>16. CASE Pulls /\ ~subs[AtEntry.sub].init /\ Failure("stale_target") /\ UNCHANGED subs
  <2>1. step' = "end" /\ initial' = initial /\ reply' # "ok" /\ reply' \notin Refusals
    BY <1>16 DEF Failure, Reply, Refusals
  <2> QED BY <1>14, <1>16, <2>1
<1>17. CASE /\ subs' = [subs EXCEPT ![AtEntry.sub].init = @ \/ (action = "update"),
                                    ![AtEntry.sub].head = IF action = "sync" THEN @ ELSE @ + 1]
            /\ completed' = Append(completed, AtEntry.sub)
            /\ step' = IF Updates THEN "nest" ELSE "check"
            /\ frames' = IF Updates THEN frames ELSE MovedOn
            /\ UNCHANGED <<initial, skipped, total, reply>>
  <2>1. /\ subs' \in [Subs -> SubRecs] /\ \A s \in Subs : subs'[s].listed = subs[s].listed
    <3>1. subs \in [Subs -> SubRecs]
      BY <1>2 DEF BatchTypes
    <3>2. PICK p : p = subs[c]
      OBVIOUS
    <3>3. p \in SubRecs
      BY <3>1, <3>2
    <3>4. p.listed \in BOOLEAN /\ p.init \in BOOLEAN /\ p.entry \in Nat /\ p.head \in Nat
      BY <3>3 DEF SubRecs
    <3>5. PICK n : n = [p EXCEPT !.init = @ \/ (action = "update"),
                                 !.head = IF action = "sync" THEN @ ELSE @ + 1]
      OBVIOUS
    <3>6. n \in SubRecs /\ n.listed = p.listed
      <4>1. PICK b : b = (p.init \/ (action = "update"))
        OBVIOUS
      <4>2. PICK h : h = IF action = "sync" THEN p.head ELSE p.head + 1
        OBVIOUS
      <4>3. b \in BOOLEAN
        BY <4>1
      <4>4. h \in Nat
        BY <3>4, <4>2
      <4>5. n = [p EXCEPT !.init = b, !.head = h]
        BY <3>5, <4>1, <4>2
      <4> QED BY <3>3, <4>3, <4>4, <4>5 DEF SubRecs
    <3>7. subs' = [subs EXCEPT ![c] = n]
      BY <1>5, <1>17, <3>1, <3>2, <3>5, AtCurrent
    <3> QED BY <3>1, <3>2, <3>6, <3>7
  <2>2. BatchTypes'
    BY <1>1, <1>2, <1>9, <1>11, <1>17, <2>1 DEF BatchTypes
  <2>3. Listed' = Listed
    BY <2>1 DEF Listed
  <2>4. PICK t : t = completed'
    OBVIOUS
  <2>5. t = Append(completed, Current(frames)) /\ MovedOn = Moved1(frames)
    BY <1>17, <2>4, AtCurrent
  <2>6. /\ Walk(Moved1(frames), t, skipped, FALSE) /\ Walk(frames, t, skipped, TRUE)
        /\ Range(t) = Range(completed) \cup {c}
    BY <1>3, <1>5, <2>5, WalkRun
  <2>7. BatchSteps'
    <3>1. TouchedBy(ran') = Range(completed')
      <4>1. Range(completed) = TouchedBy(ran)
        BY <1>1, <1>2 DEF BatchSteps
      <4> QED BY <1>9, <1>11, <2>4, <2>6, <4>1
    <3>2. ~Pulls => initial' = <<>>
      BY <1>2, <1>17 DEF BatchSteps
    <3>3. reply' = ""
      BY <1>1, <1>2, <1>17 DEF BatchSteps
    <3>4. step' \in {"check", "nest"}
      BY <1>17
    <3>5. Pulls' <=> Pulls
      BY <1>1 DEF Pulls
    <3> QED BY <1>9, <1>13, <3>1, <3>2, <3>3, <3>4, <3>5 DEF BatchSteps
  <2>8. BatchWalks'
    BY <1>17, <2>4, <2>5, <2>6 DEF BatchWalks
  <2>9. BatchComes'
    <3>1. ASSUME moves = 0, Updates
          PROVE  Complete(frames, Range(t), Range(t) \cup Range(skipped), TRUE, Listed)
      <4>1. PICK d : d = Range(completed) \cup Range(skipped)
        OBVIOUS
      <4>2. PICK x : x = Range(t) \cup Range(skipped)
        OBVIOUS
      <4>3. PICK b : b = Range(t)
        OBVIOUS
      <4>4. Complete(frames, Range(completed), d, FALSE, Listed)
        BY <1>1, <1>2, <3>1, <4>1 DEF BatchComes
      <4>5. d \subseteq x /\ b = Range(completed) \cup {Current(frames)}
        BY <1>5, <2>6, <4>1, <4>2, <4>3
      <4>6. Complete(frames, b, x, TRUE, Listed)
        BY <4>4, <4>5, CompleteNests
      <4> QED BY <4>2, <4>3, <4>6
    <3>2. Updates' <=> Updates
      BY <1>1 DEF Updates
    <3>3. Updates => step' = "nest" /\ frames' = frames
      BY <1>17
    <3> QED BY <1>1, <1>17, <2>3, <2>4, <3>1, <3>2, <3>3 DEF BatchComes
  <2>10. GitOnChecked' /\ BatchReport'
    BY <1>1, <1>2, <1>17 DEF GitOnChecked, BatchReport, BatchSteps
  <2>11. PullTouchesKnown'
    BY <1>12, <1>17
  <2> QED BY <2>2, <2>7, <2>8, <2>9, <2>10, <2>11 DEF BatchInv
<1> QED BY <1>15, <1>16, <1>17 DEF RunSubmoduleGit

LEMMA NestInv == ASSUME BatchInv, Nest PROVE BatchInv'
<1>1. /\ step = "nest" /\ head' = head /\ subs' = subs /\ action' = action /\ expected' = expected
      /\ ran' = ran /\ moves' = moves
  BY DEF Nest
<1>2. BatchTypes /\ BatchSteps /\ BatchWalks /\ BatchComes /\ PullTouchesKnown
  BY DEF BatchInv
<1>3. Walk(frames, completed, skipped, TRUE)
  BY <1>1, <1>2 DEF BatchWalks
<1>4. Stack(frames, Range(completed)) /\ Nesting(frames, Range(completed), Range(completed) \cup Range(skipped))
  BY <1>3 DEF Walk
<1>5. Busy(frames)
  BY <1>4 DEF Nesting
<1>6. PICK c \in Subs : c = Current(frames)
  BY <1>4, <1>5, LastFrame
<1>7. AtEntry.sub = c /\ MovedOn = Moved1(frames)
  BY <1>6, AtCurrent
<1>8. ASSUME NEW code, code # "ok", Failure(code) PROVE BatchInv'
  <2>1. initial' = initial
    BY <1>8, FailureKeeps
  <2>2. BatchTypes'
    BY <1>1, <1>2, <2>1 DEF BatchTypes
  <2> QED BY <1>1, <1>8, <2>2, FailedInv
<1>9. CASE Failure("timeout") \/ Failure("repository_error") \/ Failure("invalid_request")
  BY <1>8, <1>9
<1>10. CASE /\ frames' = Append(MovedOn, Frame(AtEntry.sub)) /\ step' = "check"
            /\ UNCHANGED <<initial, completed, skipped, reply>>
  <2>1. PICK f : f = Frame(c)
    OBVIOUS
  <2>2. /\ IsFrame(f) /\ f.repo = c /\ f.index = 1
        /\ \A s \in Listed : ParentOf[s] = c => \E n \in 1..Len(f.entries) : SubAt(f, n) = s
    BY <1>2, <2>1, FrameFacts
  <2>3. PICK gs : gs = frames'
    OBVIOUS
  <2>4. gs = Append(Moved1(frames), f)
    BY <1>7, <1>10, <2>1, <2>3
  <2>5. Walk(gs, completed, skipped, FALSE)
    BY <1>3, <1>6, <2>2, <2>4, WalkNest
  <2>6. BatchTypes'
    BY <1>1, <1>2, <1>10 DEF BatchTypes
  <2>7. BatchSteps'
    BY <1>1, <1>2, <1>10 DEF BatchSteps, Pulls
  <2>8. BatchWalks'
    BY <1>10, <2>3, <2>5 DEF BatchWalks
  <2>9. Listed' = Listed
    BY <1>1 DEF Listed
  <2>10. BatchComes'
    <3>1. ASSUME moves = 0, Updates
          PROVE  Complete(gs, Range(completed), Range(completed) \cup Range(skipped), FALSE, Listed)
      <4>1. PICK d : d = Range(completed) \cup Range(skipped)
        OBVIOUS
      <4>2. Complete(frames, Range(completed), d, TRUE, Listed)
        BY <1>1, <1>2, <3>1, <4>1 DEF BatchComes
      <4>3. \A s \in Listed : ParentOf[s] = Current(frames) => \E n \in 1..Len(f.entries) : SubAt(f, n) = s
        BY <1>6, <2>2
      <4>4. Complete(gs, Range(completed), d, FALSE, Listed)
        BY <1>4, <1>5, <2>2, <2>4, <4>2, <4>3, CompleteNest
      <4> QED BY <4>1, <4>4
    <3> QED BY <1>1, <1>10, <2>3, <2>9, <3>1 DEF BatchComes, Updates
  <2>11. GitOnChecked' /\ BatchReport' /\ PullTouchesKnown'
    BY <1>1, <1>2, <1>10 DEF GitOnChecked, BatchReport, PullTouchesKnown, Pulls, BatchSteps
  <2> QED BY <2>6, <2>7, <2>8, <2>10, <2>11 DEF BatchInv
<1> QED BY <1>9, <1>10 DEF Nest

LEMMA LeaveInv == ASSUME BatchInv, Leave PROVE BatchInv'
<1>1. /\ step = "check" /\ frames # <<>> /\ TopFrame.index > Len(TopFrame.entries) /\ frames' = Front(frames)
      /\ UNCHANGED <<head, subs, action, expected, step, initial, completed, skipped, total, late, reply,
                     ran, moves>>
  BY DEF Leave
<1>2. BatchTypes /\ BatchSteps /\ BatchWalks /\ BatchComes /\ BatchReport /\ PullTouchesKnown
  BY DEF BatchInv
<1>3. Walk(frames, completed, skipped, FALSE)
  BY <1>1, <1>2 DEF BatchWalks
<1>4. PICK gs : gs = frames'
  OBVIOUS
<1>5. gs = Front(frames) /\ frames[Len(frames)].index > Len(frames[Len(frames)].entries)
  BY <1>1, <1>4, AtCurrent
<1>6. Walk(gs, completed, skipped, FALSE)
  BY <1>1, <1>3, <1>5, WalkLeave
<1>7. BatchTypes'
  BY <1>1, <1>2 DEF BatchTypes
<1>8. BatchSteps'
  BY <1>1, <1>2 DEF BatchSteps, Pulls
<1>9. BatchWalks'
  BY <1>1, <1>4, <1>6 DEF BatchWalks
<1>10. BatchComes'
  <2>1. ASSUME moves = 0, Updates
        PROVE  Complete(gs, Range(completed), Range(completed) \cup Range(skipped), FALSE, Listed)
    <3>1. PICK d : d = Range(completed) \cup Range(skipped)
      OBVIOUS
    <3>2. Complete(frames, Range(completed), d, FALSE, Listed)
      BY <1>1, <1>2, <2>1, <3>1 DEF BatchComes
    <3>3. Complete(gs, Range(completed), d, FALSE, Listed)
      BY <1>1, <1>3, <1>5, <3>1, <3>2, CompleteLeave
    <3> QED BY <3>1, <3>3
  <2> QED BY <1>1, <1>4, <2>1 DEF BatchComes, Updates, Listed
<1>11. GitOnChecked' /\ BatchReport' /\ PullTouchesKnown'
  BY <1>1, <1>2 DEF GitOnChecked, BatchReport, PullTouchesKnown, Pulls, BatchSteps
<1> QED BY <1>7, <1>8, <1>9, <1>10, <1>11 DEF BatchInv

LEMMA FinishInv == ASSUME BatchInv, Finish PROVE BatchInv'
<1>1. /\ step = "check" /\ frames = <<>> /\ step' = "end"
      /\ UNCHANGED <<head, subs, action, expected, initial, frames, completed, total, late, ran, moves>>
  BY DEF Finish
<1>2. BatchTypes /\ BatchSteps /\ BatchWalks /\ BatchComes /\ PullTouchesKnown
  BY DEF BatchInv
<1>3. BatchTypes'
  BY <1>1, <1>2 DEF BatchTypes
<1>4. PullTouchesKnown'
  BY <1>1, <1>2 DEF PullTouchesKnown, Pulls
<1>5. ~Pulls => \A i \in DOMAIN ran' : ran'[i].sub # Top
  BY <1>1, <1>2 DEF BatchSteps
<1>6. CASE reply' = "partial_failure"
  <2>1. BatchReport'
    BY <1>6 DEF BatchReport
  <2> QED BY <1>1, <1>3, <1>4, <1>5, <2>1, EndedInv
<1>7. CASE reply' = "ok" /\ skipped' = skipped \o SetToSeq(Unreached)
  <2>1. Apart(completed, skipped)
    BY <1>1, <1>2 DEF BatchWalks, Walk
  <2>2. /\ completed \in Seq(Subs) /\ skipped \in Seq(Subs) /\ IsInjective(completed) /\ IsInjective(skipped)
        /\ Range(completed) \cap Range(skipped) = {}
    BY <2>1 DEF Apart
  <2>3. PICK U : U = Unreached
    OBVIOUS
  <2>4. PICK t : t = SetToSeq(U)
    OBVIOUS
  <2>5. U \subseteq Subs /\ U \cap Range(completed) = {} /\ U \cap Range(skipped) = {}
        /\ DOMAIN initial \subseteq U \cup Range(completed) \cup Range(skipped)
    BY <1>2, <2>3 DEF Unreached, BatchTypes
  <2>6. t \in Seq(Subs) /\ IsInjective(t) /\ Range(t) = U
    BY <2>4, <2>5, SeqOfSet
  <2>7. PICK k : k = skipped'
    OBVIOUS
  <2>8. k = skipped \o t
    BY <1>7, <2>3, <2>4, <2>7
  <2>9. k \in Seq(Subs) /\ IsInjective(k) /\ Range(k) = Range(skipped) \cup U
    <3>1. Range(skipped) \cap Range(t) = {}
      BY <2>5, <2>6
    <3>2. k \in Seq(Subs) /\ IsInjective(k) /\ Range(k) = Range(skipped) \cup Range(t)
      BY <2>2, <2>6, <2>8, <3>1, JoinOnce
    <3> QED BY <2>6, <3>2
  <2>10. PICK all : all = completed \o k
    OBVIOUS
  <2>11. IsInjective(all) /\ Range(all) = Range(completed) \cup Range(k)
    <3>1. Range(completed) \cap Range(k) = {}
      BY <2>2, <2>5, <2>9
    <3> QED BY <2>2, <2>9, <2>10, <3>1, JoinOnce
  <2>12. Range(completed) = TouchedSubs
    BY <1>1, <1>2 DEF BatchSteps, TouchedBy, TouchedSubs
  <2>13. DOMAIN initial \subseteq Range(all)
    BY <2>5, <2>9, <2>11
  <2>14. ASSUME Updates, moves = 0, NEW s \in Subs, subs[s].listed, ParentOf[s] \in Range(completed) \cup {Top}
         PROVE  s \in Range(all)
    <3>1. PICK d : d = Range(completed) \cup Range(skipped)
      OBVIOUS
    <3>2. Complete(frames, Range(completed), d, FALSE, Listed)
      BY <1>1, <1>2, <2>14, <3>1 DEF BatchComes
    <3>3. s \in Listed
      BY <2>14 DEF Listed
    <3>4. Len(frames) = 0
      BY <1>1
    <3>5. s \in d
      BY <2>14, <3>2, <3>3, <3>4 DEF Complete
    <3> QED BY <2>9, <2>11, <3>1, <3>5
  <2>15. BatchReport'
    <3>1. completed' \o skipped' = all
      BY <1>1, <2>7, <2>10
    <3>2. TouchedSubs' = TouchedSubs
      BY <1>1 DEF TouchedSubs
    <3> QED BY <1>1, <1>7, <2>11, <2>12, <2>13, <2>14, <3>1, <3>2 DEF BatchReport, Updates
  <2> QED BY <1>1, <1>3, <1>4, <1>5, <2>15, EndedInv
<1> QED BY <1>6, <1>7 DEF Finish

LEMMA MoveInv == ASSUME BatchInv, Move PROVE BatchInv'
<1>1. /\ step # "end" /\ moves' = moves + 1
      /\ UNCHANGED <<action, expected, step, initial, frames, completed, skipped, total, late, reply, ran>>
  BY DEF Move
<1>2. BatchTypes /\ BatchSteps /\ BatchWalks /\ PullTouchesKnown /\ GitOnChecked
  BY DEF BatchInv
<1>3. head \in Heads /\ subs \in [Subs -> SubRecs]
  BY <1>2 DEF BatchTypes
<1>4. head' \in Heads
  <2>1. CASE \E f \in {"branch", "oid"} : head' = [head EXCEPT ![f] = @ + 1]
    BY <1>3, <2>1 DEF Heads
  <2>2. CASE head' = head
    BY <1>3, <2>2
  <2> QED BY <2>1, <2>2 DEF Move
<1>5. subs' \in [Subs -> SubRecs]
  <2>1. CASE subs' = subs
    BY <1>3, <2>1
  <2>2. CASE \E s \in Subs : subs' = [subs EXCEPT ![s].entry = @ + 1]
    BY <1>3, <2>2 DEF SubRecs
  <2>3. CASE \E s \in Subs : subs' = [subs EXCEPT ![s].head = @ + 1]
    BY <1>3, <2>3 DEF SubRecs
  <2>4. CASE \E s \in Subs : subs' = [subs EXCEPT ![s].listed = ~@]
    BY <1>3, <2>4 DEF SubRecs
  <2>5. CASE \E s \in Subs : subs' = [subs EXCEPT ![s].init = FALSE]
    BY <1>3, <2>5 DEF SubRecs
  <2> QED BY <2>1, <2>2, <2>3, <2>4, <2>5 DEF Move
<1>6. BatchTypes'
  BY <1>1, <1>2, <1>4, <1>5 DEF BatchTypes
<1>7. BatchSteps'
  BY <1>1, <1>2 DEF BatchSteps, Pulls
<1>8. BatchWalks'
  BY <1>1, <1>2 DEF BatchWalks
<1>9. moves' # 0
  BY <1>1, <1>2 DEF BatchTypes
<1>10. BatchComes'
  BY <1>9 DEF BatchComes
<1>11. GitOnChecked'
  BY <1>1, <1>2 DEF GitOnChecked, Pulls, AtEntry, TopFrame
<1>12. BatchReport' /\ PullTouchesKnown'
  BY <1>1, <1>2 DEF BatchReport, PullTouchesKnown, Pulls, BatchSteps
<1> QED BY <1>6, <1>7, <1>8, <1>10, <1>11, <1>12 DEF BatchInv

LEMMA StillInv ==
  ASSUME BatchInv, UNCHANGED <<head, subs, action, expected, step, initial, frames, completed, skipped,
                               reply, ran, moves>>
  PROVE  BatchInv'
<1>1. BatchTypes' /\ BatchSteps' /\ BatchWalks'
  BY DEF BatchInv, BatchTypes, BatchSteps, BatchWalks, Pulls
<1>2. BatchComes' /\ GitOnChecked'
  BY DEF BatchInv, BatchComes, GitOnChecked, Updates, Pulls, Listed, AtEntry, TopFrame
<1>3. BatchReport' /\ PullTouchesKnown'
  BY DEF BatchInv, BatchReport, PullTouchesKnown, Pulls, Updates, TouchedSubs
<1> QED BY <1>1, <1>2, <1>3 DEF BatchInv

LEMMA BatchStepInv == BatchInv /\ [BatchNext]_batchVars => BatchInv'
<1> SUFFICES ASSUME BatchInv, [BatchNext]_batchVars PROVE BatchInv'
  OBVIOUS
<1>1. CASE Start
  BY <1>1, StartInv
<1>2. CASE ParentPull
  BY <1>2, ParentPullInv
<1>3. CASE FollowUp
  BY <1>3, FollowUpInv
<1>4. CASE Check
  BY <1>4, CheckInv
<1>5. CASE RunSubmoduleGit
  BY <1>5, RunInv
<1>6. CASE Nest
  BY <1>6, NestInv
<1>7. CASE Leave
  BY <1>7, LeaveInv
<1>8. CASE Finish
  BY <1>8, FinishInv
<1>9. CASE Move
  BY <1>9, MoveInv
<1>10. CASE Deadline
  BY <1>10, StillInv DEF Deadline
<1>11. CASE UNCHANGED batchVars
  BY <1>11, StillInv DEF batchVars
<1> QED BY <1>1, <1>2, <1>3, <1>4, <1>5, <1>6, <1>7, <1>8, <1>9, <1>10, <1>11 DEF BatchNext

(* A batch tells what it did and touches nothing else than what it may     *)
(* (run_batch_scoped, pull_with_submodules): what it says is completed is  *)
(* where git ran, each submodule is named once and none is left out, a     *)
(* refusal follows no git command, and a pull of a repository goes only    *)
(* where there was a checkout, at the commit it had when the user asked.   *)
THEOREM BatchAlwaysTold == BatchSpec => []BatchIsTold
<1>1. BatchInv => BatchIsTold
  BY DEF BatchInv, BatchIsTold
<1> QED BY <1>1, BatchInitInv, BatchStepInv, PTL DEF BatchSpec

================================================================================
