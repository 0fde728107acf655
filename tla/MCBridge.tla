-------------------------------- MODULE MCBridge --------------------------------
(***************************************************************************)
(* The parts of the bridge, and the commit graph that it and the TUI draw, *)
(* model-checked as a sum: `part' is chosen in the initial state and only  *)
(* that part moves, the others stay in one of their initial states.  The   *)
(* state graph is the union of the parts'.                                 *)
(***************************************************************************)
EXTENDS BridgeMutation, SubmoduleBatch, ChangeSnapshots, ContentReads, MuxLaunch, ContentWorker, GraphView, TLC

VARIABLE
  part

bridgeVars == <<part, mutationVars, batchVars, snapVars, readVars, launchVars, workerVars, viewVars>>

MCInputs ==
  {<<"initialize", "mutation", "mutation">>, <<"other", "initialize", "mutation">>,
   <<"mutation">>, <<"initialize", "initialize", "mutation">>}
MCOrder == <<"a", "x", "b">>
MCParentOf == "a" :> "top" @@ "b" :> "top" @@ "x" :> "a"
MCListings == {{"a", "x", "b"}, {"a", "x"}}
MCSize == <<1, 4, 1, 1>>
MCListings0 == {<<1, 2, 3>>, <<1, 3, 4>>}
MCCommits == <<"c1", "c2">>
MCTree == "c1" :> ("f" :> "a" @@ "g" :> None) @@ "c2" :> ("f" :> "b" @@ "g" :> "s")
MCKind ==
  "c1" :> "commit" @@ "c2" :> "commit" @@ "a" :> "file" @@ "b" :> "link" @@ "s" :> "other"
  @@ "x" :> "file" @@ "y" :> "file" @@ "z" :> "other"
MCItem(r, p) == [ref |-> r, path |-> p]
MCRequests ==
  {<<MCItem("HEAD", "f"), MCItem("index", "f")>>, <<MCItem("index", "f"), MCItem("index", "g")>>,
   <<MCItem("HEAD", "f"), MCItem("HEAD", "g"), MCItem("a", "f")>>,
   <<MCItem("HEAD", "f")>>, <<MCItem("index", "f")>>, <<MCItem("c2", "f")>>}
MCStaged == <<"x", "y", "z">>
MCNames == {"main", "dev", "origin", "tag", "stash"}
MCRefKind ==
  "main" :> "local" @@ "dev" :> "local" @@ "origin" :> "remote" @@ "tag" :> "tag" @@ "stash" :> "stash"
MCUpstream == [n \in MCNames |-> IF n = "main" THEN "origin" ELSE None]
MCAuthorOf == [c \in 1..7 |-> IF c % 2 = 0 THEN "x" ELSE "y"]
MCRefs(main, dev, origin, tag) ==
  "main" :> main @@ "dev" :> dev @@ "origin" :> origin @@ "tag" :> tag @@ "stash" :> 0
MCParents(n) == {<<p>> : p \in 1..(n - 1)}
  \cup UNION {{<<p, q>> : q \in (1..(n - 1)) \ {p}} : p \in 1..(n - 1)}

\* Every history of five commits without further steps, and four longer ones:
\* side branches, a criss-cross, an octopus and branches side by side.
MCHistories ==
  {[parents |-> << <<>>, <<1>>, c, d, e>>, refs |-> MCRefs(5, 4, 3, 0), keys |-> 0] :
      c \in MCParents(3), d \in MCParents(4), e \in MCParents(5)}
  \cup {[parents |-> << <<>>, <<1>>, <<1>>, <<3>>, <<2, 4>>, <<2>> >>, refs |-> MCRefs(5, 6, 4, 0), keys |-> 2],
        [parents |-> << <<>>, <<1>>, <<1>>, <<2, 3>>, <<3, 2>>, <<4, 5>> >>, refs |-> MCRefs(6, 0, 0, 1), keys |-> 2],
        [parents |-> << <<>>, <<1>>, <<1>>, <<1>>, <<1, 2, 3, 4>>, <<4>> >>, refs |-> MCRefs(5, 6, 0, 2), keys |-> 1],
        [parents |-> << <<>>, <<1>>, <<1>>, <<1>>, <<4>>, <<1>> >>, refs |-> MCRefs(6, 5, 3, 2), keys |-> 2]}

BridgeInit ==
  /\ part \in {"mutation", "batch", "changes", "content", "launch", "worker", "graph"}
  /\ MutationInit /\ (part # "mutation" => operation = "discard")
  /\ BatchInit /\ (part # "batch" => action = "sync" /\ \A s \in Subs : subs[s].listed)
  /\ SnapInit
  /\ ReadInit /\ (part # "content" => disk.head = None /\ disk.used = 0 /\ \A p \in Paths : disk.index[p] = None)
  /\ LaunchInit
  /\ WorkerInit
  /\ ViewInit /\ (part # "graph" => keysLeft = 0 /\ parents = << <<>>, <<1>>, <<1>>, <<1>>, <<1>> >>)

BridgeNext ==
  \/ part = "mutation" /\ MutationNext /\ UNCHANGED <<part, batchVars, snapVars, readVars, launchVars, workerVars, viewVars>>
  \/ part = "batch" /\ BatchNext /\ UNCHANGED <<part, mutationVars, snapVars, readVars, launchVars, workerVars, viewVars>>
  \/ part = "changes" /\ SnapNext /\ UNCHANGED <<part, mutationVars, batchVars, readVars, launchVars, workerVars, viewVars>>
  \/ part = "content" /\ ReadNext /\ UNCHANGED <<part, mutationVars, batchVars, snapVars, launchVars, workerVars, viewVars>>
  \/ part = "launch" /\ LaunchNext /\ UNCHANGED <<part, mutationVars, batchVars, snapVars, readVars, workerVars, viewVars>>
  \/ part = "worker" /\ WorkerNext /\ UNCHANGED <<part, mutationVars, batchVars, snapVars, readVars, launchVars, viewVars>>
  \/ /\ part = "graph" /\ ViewNext
     /\ UNCHANGED <<part, mutationVars, batchVars, snapVars, readVars, launchVars, workerVars>>

\* The fairness of the worker's processes, on the steps of the worker.
BridgeFairness ==
  /\ WF_workerVars(part = "worker" /\ Supervises)
  /\ WF_workerVars(part = "worker" /\ Executes)
  /\ WF_workerVars(part = "worker" /\ GuardianWakes)
  /\ WF_workerVars(part = "worker" /\ supervisor = "running" /\ Cancels)

BridgeSpec == BridgeInit /\ [][BridgeNext]_bridgeVars /\ BridgeFairness

-----------------------------------------------------------------------------
\* Every part keeps its variables in their types (the state of a mutation, a
\* batch of submodules, the change snapshots, a content read, a launch, the
\* content worker's processes and the graph panel).
BridgeTypeOK ==
  /\ part = "mutation" => MutationTypeOK
  /\ part = "batch" => BatchTypeOK
  /\ part = "changes" => SnapTypeOK
  /\ part = "content" => ReadTypeOK
  /\ part = "launch" => LaunchTypeOK
  /\ part = "worker" => WorkerTypeOK
  /\ part = "graph" => ViewTypeOK

\* What the worker started ends (ContentWorker!WorkerEnds).
WorkerAlwaysEnds == part = "worker" => WorkerEnds
=============================================================================
