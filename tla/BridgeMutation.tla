--------------------------- MODULE BridgeMutation ---------------------------
(***************************************************************************)
(* The bridge's mutations (src/bridge/mod.rs, mutation.rs, file_identity.rs,*)
(* fetch, worktree_plan): a preview reads what a command would act on and  *)
(* answers with its identity; the user confirms; a process started for one *)
(* mutation reads it all again, refuses if anything differs, and only then *)
(* runs git.  Other programs change the repository between any two reads.  *)
(*                                                                         *)
(* Abstractions.  What is read is a set of facts, each a version that every*)
(* change increases: a file is its inode and times, HEAD and the index     *)
(* their object ids (contents that come back unseen are not modelled).  An *)
(* operation is the sequence of its reads; those whose value is neither    *)
(* compared nor used for the command are left out.                         *)
(***************************************************************************)
EXTENDS Naturals, Sequences, Functions

CONSTANTS
  Inputs,       \* what clients write to a mutation process, line by line
  MaxChanges    \* bound: changes, in all, made by other programs

ASSUME InputsAssumption ==
  MaxChanges \in Nat /\ Inputs \subseteq Seq({"initialize", "mutation", "other"})

Operations == {"discard", "discard_rename", "delete_untracked", "stage", "repo_sync",
               "repo_fetch", "worktree_create", "worktree_remove"}

Facts ==
  {"root",       \* workspace folder: its directory
   "inside",     \* 0: the file's parent directories lie inside the repository
   "plain",      \* 0: the path belongs to no submodule
   "repo",       \* RepositoryIdentity: git and common directories
   "branch", "head", "index", "config",
   "file", "old", \* the file and, for a rename, its former path
   "dirs",       \* the parent directories themselves: (dev, inode) of each
   "worktree",   \* RepositoryIdentity of the linked worktree
   "listed",     \* 0: the worktree is registered and holds no workspace folder
   "dest"}       \* 0: the new worktree's path is free

VARIABLES
  facts,      \* version of every fact
  changes,
  operation,
  phase,      \* what the client or the process is doing
  todo,       \* reads still to do
  token,      \* the versions the preview answered with; of dirs, the last walk's
  used,       \* the versions the command was built from and checked against
  confirmed,  \* the facts as they were when the user confirmed
  input,      \* lines the mutation process has not read
  scope,      \* it has been initialized
  gits        \* git commands it ran

mutationVars == <<facts, changes, operation, phase, todo, token, used, confirmed, input, scope, gits>>

-----------------------------------------------------------------------------
(* Reads.  Note: hashed into the token, or compared with it.  Must: refuse *)
(* unless 0.  Use: the command or the decision is made from it.  Mark: kept *)
(* for a note of the same call, and compared with nothing before it.       *)

Note(f) == <<[fact |-> f, how |-> "note"]>>
Must(f) == <<[fact |-> f, how |-> "must"]>>
Use(f)  == <<[fact |-> f, how |-> "use"]>>
Mark(f) == <<[fact |-> f, how |-> "mark"]>>

Repository == Note("root")              \* Scope::repository
FilePath   == Must("inside")            \* validate_file_path
Prepare    == Repository \o FilePath \o Must("plain") \o Use("index") \o Use("file")
Arguments  == Use("head") \o Use("index")

\* working_entry: walk to the directory, stat, open and stat, read and stat (or,
\* of a link, only read), stat, walk again, stat.  Only the two walks of one call
\* are compared, the directories are not hashed.  A missing entry ends it at the
\* first stat.
WorkingEntry(f) ==
  Mark("dirs") \o Note(f) \o Note(f) \o Note(f) \o Note(f) \o Note("dirs") \o Note(f)

\* The index left out of the identity.
MutantIdentity(op) ==
  Note("branch") \o Note("head") \o WorkingEntry("file")
  \o (IF op = "discard_rename" THEN WorkingEntry("old") ELSE <<>>)

\* What file_identity::plan hashes.
Identity(op) ==
  Note("branch") \o Note("head") \o Note("index") \o WorkingEntry("file")
  \o (IF op = "discard_rename" THEN WorkingEntry("old") ELSE <<>>)

\* file_identity::plan
FilePlan(op) ==
  FilePath \o (IF op = "delete_untracked" THEN <<>> ELSE Arguments) \o FilePath \o Identity(op)

SyncHead == Note("branch") \o Note("head")     \* verify_sync_head

\* fetch::selection
FetchSelection ==
  Repository \o Note("repo") \o Note("branch") \o Note("config")
  \o Repository \o Note("repo") \o Note("branch")

WorktreeSelection ==
  Repository \o Repository \o Must("listed") \o Note("repo") \o Note("worktree") \o Must("listed")

Destructive == {"discard", "discard_rename", "delete_untracked"}

Preview(op) ==
  CASE op \in Destructive       -> Prepare \o FilePlan(op) \o Repository
    [] op = "repo_sync"         -> SyncHead       \* the status the panel shows
    [] op = "repo_fetch"        -> FetchSelection \o FetchSelection
    [] op = "worktree_remove"   -> WorktreeSelection \o WorktreeSelection
    [] op = "worktree_create"   -> Repository \o Must("dest") \o Repository
    [] op = "stage"             -> <<>>

Execute(op) ==
  CASE op \in Destructive       -> Prepare \o Repository \o FilePlan(op)
    [] op = "repo_sync"         -> Repository \o SyncHead \o Use("branch") \o Repository \o SyncHead
    [] op = "repo_fetch"        -> FetchSelection \o FetchSelection
    [] op = "worktree_remove"   -> WorktreeSelection \o WorktreeSelection
    [] op = "worktree_create"   -> Repository \o Must("dest") \o Repository
    [] op = "stage"             -> Prepare \o Repository \o Arguments \o FilePath

-----------------------------------------------------------------------------
(* The client: preview, confirm, write to the mutation process.            *)

Unread == [f \in Facts |-> {}]

MutationInit ==
  /\ facts = [f \in Facts |-> 0] /\ changes = 0
  /\ operation \in Operations
  /\ phase = "preview"
  /\ todo = Preview(operation)
  /\ token = Unread /\ used = Unread
  /\ confirmed = facts
  /\ input = <<>> /\ scope = FALSE /\ gits = 0

\* Another program changes what the operation reads.
Change ==
  /\ phase \in {"preview", "asking", "execute"}
  /\ changes < MaxChanges /\ changes' = changes + 1
  /\ \E s \in Range(Preview(operation) \o Execute(operation)) :
       facts' = [facts EXCEPT ![s.fact] = @ + 1]
  /\ UNCHANGED <<operation, phase, todo, token, used, confirmed, input, scope, gits>>

\* The next read finds what it compares different.
Rejects(s) ==
  \/ s.how = "must" /\ facts[s.fact] # 0
  \/ s.how = "note" /\ ~(token[s.fact] \subseteq {facts[s.fact]})

\* What later reads are compared with.
Noted(s) ==
  IF s.how \in {"note", "mark"} THEN [token EXCEPT ![s.fact] = {facts[s.fact]}] ELSE token

ReadPreview ==
  /\ phase = "preview" /\ todo # <<>>
  /\ IF Rejects(Head(todo))
     THEN phase' = "end" /\ todo' = <<>> /\ UNCHANGED token
     ELSE /\ todo' = Tail(todo)
          /\ token' = Noted(Head(todo))
          /\ UNCHANGED phase
  /\ UNCHANGED <<facts, changes, operation, used, confirmed, input, scope, gits>>

\* The user has seen the preview and confirms; a process is started and fed.
Confirm ==
  /\ phase = "preview" /\ todo = <<>>
  /\ phase' = "asking" /\ confirmed' = facts
  /\ input' \in Inputs
  /\ UNCHANGED <<facts, changes, operation, todo, token, used, scope, gits>>

-----------------------------------------------------------------------------
(* The mutation process: serve_inner with mutation_once.                   *)

Finished == phase' = "end" /\ todo' = <<>> /\ input' = <<>>

ReadLine ==
  /\ phase = "asking" /\ input # <<>>
  /\ \/ \* the first initialize: is the workspace still the one that was shown?
        /\ ~scope /\ Head(input) = "initialize"
        /\ IF Rejects(Repository[1])
           THEN Finished /\ UNCHANGED <<scope, token>>
           ELSE /\ scope' = TRUE /\ input' = Tail(input)
                /\ token' = [token EXCEPT !["root"] = {facts["root"]}]
                /\ UNCHANGED <<phase, todo>>
     \/ \* anything else first, and a line that is no request: answered, over
        /\ \/ ~scope /\ Head(input) # "initialize"
           \/ scope /\ Head(input) # "mutation"
        /\ Finished /\ UNCHANGED <<scope, token>>
     \/ /\ scope /\ Head(input) = "mutation"
        /\ phase' = "execute" /\ todo' = Execute(operation) /\ input' = Tail(input)
        /\ UNCHANGED <<scope, token>>
  /\ UNCHANGED <<facts, changes, operation, used, confirmed, gits>>

\* stdin closes.
Closed ==
  /\ phase = "asking" /\ input = <<>>
  /\ Finished
  /\ UNCHANGED <<facts, changes, operation, token, used, confirmed, scope, gits>>

ReadAgain ==
  /\ phase = "execute" /\ todo # <<>>
  /\ LET s == Head(todo) IN
     IF Rejects(s)
     THEN Finished /\ UNCHANGED <<token, used>>
     ELSE /\ todo' = Tail(todo)
          /\ used' = [used EXCEPT ![s.fact] = @ \cup {facts[s.fact]}]
          /\ token' = Noted(s)
          /\ UNCHANGED <<phase, input>>
  /\ UNCHANGED <<facts, changes, operation, confirmed, scope, gits>>

\* The process goes on with the next line.
MutantAnswered == phase' = "asking" /\ UNCHANGED <<todo, input>>

\* mutation::run: whether it succeeds or not, the process answers and exits.
GitAnswered == Finished

RunGit ==
  /\ phase = "execute" /\ todo = <<>>
  /\ gits' = gits + 1
  /\ GitAnswered
  /\ UNCHANGED <<facts, changes, operation, token, used, confirmed, scope>>

WorkerKilled ==
  /\ phase \in {"asking", "execute"}
  /\ Finished
  /\ UNCHANGED <<facts, changes, operation, token, used, confirmed, scope, gits>>

MutationNext ==
  Change \/ ReadPreview \/ Confirm \/ ReadLine \/ Closed \/ ReadAgain \/ RunGit \/ WorkerKilled

MutationSpec == MutationInit /\ [][MutationNext]_mutationVars

-----------------------------------------------------------------------------
\* What git acts on: an operation is only as safe as what it checked.  The parent
\* directories are not in it: others may be put in their place between preview and
\* execution, if the entry in them is the same file.
ActsOn ==
  CASE operation = "discard"          -> {"root", "head", "index", "file"}
    [] operation = "discard_rename"   -> {"root", "head", "index", "file", "old"}
    [] operation = "delete_untracked" -> {"root", "file"}
    [] operation = "repo_sync"        -> {"branch", "head"}
    [] operation = "repo_fetch"       -> {"root", "repo", "branch", "config"}
    [] operation = "worktree_remove"  -> {"root", "repo", "worktree", "listed"}
    [] operation = "worktree_create"  -> {"root", "dest"}
    [] operation = "stage"            -> {"inside", "plain"}

MutationTypeOK ==
  /\ facts \in [Facts -> 0..MaxChanges] /\ confirmed \in [Facts -> 0..MaxChanges]
  /\ operation \in Operations /\ changes \in 0..MaxChanges
  /\ phase \in {"preview", "asking", "execute", "end"}
  /\ todo \in Seq([fact : Facts, how : {"note", "must", "use", "mark"}])
  /\ token \in [Facts -> SUBSET (0..MaxChanges)] /\ used \in [Facts -> SUBSET (0..MaxChanges)]
  /\ input \in Seq({"initialize", "mutation", "other"})
  /\ scope \in BOOLEAN /\ gits \in Nat

\* When git runs, everything it acts on was read as it stood when the user
\* confirmed: whatever changes while a preview or a check is reading, no
\* command mixes two states of the repository or replaces one unseen.
RunsAsConfirmed ==
  gits > 0 => \A f \in ActsOn : used[f] = {confirmed[f]}

\* A mutation process runs git once, whatever else it is sent.
RunsOnce == gits <= 1

\* What runs is what was confirmed, and it runs at most once per process
\* (src/bridge/mutation.rs, serve_inner's mutation mode).
MutationIsConfirmed == RunsAsConfirmed /\ RunsOnce
=============================================================================
