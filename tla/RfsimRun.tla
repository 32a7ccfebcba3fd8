------------------------------ MODULE RfsimRun ------------------------------
(***************************************************************************)
(* The lifecycle of virtual runs: synthran.lifecycle._run_rfsim with       *)
(* network/, experiment/, live_preflight.py and amber_experiment_runtime.  *)
(*                                                                         *)
(* Nothing locks anything here.  Any number of processes may execute the   *)
(* same command, for one run or for several, on one pair of nodes; each    *)
(* finds its place by looking which files of its run exist, and the only   *)
(* exclusion is that of mkdir.  A process may fail or be killed after      *)
(* every step.                                                             *)
(***************************************************************************)
EXTENDS FiniteSets

CONSTANTS
  Procs,   \* processes on the controller
  Runs     \* run identifiers, of one operator

Nobody == "nobody"
ASSUME NamesAssumption == Nobody \notin Runs

VARIABLES
  \* files of a run
  prep,      \* preparations/<run>, and whether it holds the nodes' host keys
  lease,     \* the reservation in authority.env: none, the active one, a past one
  seat,      \* authority.env holds an allocation
  flight,    \* live-preflight.json is ready and fresh
  man,       \* runs/<run> and the status in its manifest.json
  evd,       \* network-evidence.json
  exp,       \* experiments/<run> and the status in its manifest.json
  verdict,   \* experiment-evidence.json
  \* the node pair
  kube,      \* imaged, Kubernetes and tools ready
  space,     \* the namespace open5gs exists
  core, ue,  \* run label of the UPF and gNB, and of the srsUE workloads
  sidecar,   \* whose edge broker is patched into the srsUE Deployment
  objs,      \* runs with experiment objects in the namespace
  ports,     \* whose port-forward holds the central MQTT port
  \* a process
  pc, cur,   \* its place and run
  seen,      \* what its last observation said
  named,     \* it knows the srsUE Deployment (ue_deployment)
  good       \* run_accepted, and cleanup_errors is empty

papers   == <<prep, lease, seat, flight>>
results  == <<man, evd, exp, verdict>>
network  == <<space, core, ue>>
guests   == <<sidecar, objs, ports>>
nodes    == <<kube, network, guests>>
memory   == <<seen, named, good>>
vars == <<prep, lease, seat, flight, man, evd, exp, verdict,
          kube, space, core, ue, sidecar, objs, ports,
          pc, cur, seen, named, good>>

Somebody == Runs \cup {Nobody}

Init ==
  /\ prep = [r \in Runs |-> "none"]
  /\ lease = [r \in Runs |-> "none"] /\ seat = [r \in Runs |-> FALSE]
  /\ flight = [r \in Runs |-> FALSE]
  /\ man = [r \in Runs |-> "none"] /\ evd = [r \in Runs |-> "none"]
  /\ exp = [r \in Runs |-> "none"] /\ verdict = [r \in Runs |-> "none"]
  /\ kube = FALSE /\ space = FALSE
  /\ core = Nobody /\ ue = Nobody
  /\ sidecar = Nobody /\ objs = {} /\ ports = Nobody
  /\ pc = [p \in Procs |-> "idle"] /\ cur = [p \in Procs |-> Nobody]
  /\ seen = [p \in Procs |-> FALSE] /\ named = [p \in Procs |-> FALSE]
  /\ good = [p \in Procs |-> FALSE]

-----------------------------------------------------------------------------
At(p, label) == pc[p] = label
Goto(p, label) == pc' = [pc EXCEPT ![p] = label] /\ UNCHANGED cur

\* The command is over, for whatever reason.
End(p) ==
  /\ pc' = [pc EXCEPT ![p] = "idle"] /\ cur' = [cur EXCEPT ![p] = Nobody]
  /\ seen' = [seen EXCEPT ![p] = FALSE] /\ named' = [named EXCEPT ![p] = FALSE]
  /\ good' = [good EXCEPT ![p] = FALSE]

\* A probe says yes only of what is so; it may also fail.
Observe(p, fact) ==
  /\ \E answer \in BOOLEAN :
       /\ answer => fact
       /\ seen' = [seen EXCEPT ![p] = answer]
  /\ UNCHANGED <<named, good>>

Forget(p) == seen' = [seen EXCEPT ![p] = FALSE] /\ UNCHANGED <<named, good>>

\* verify_network_path: the workloads bear the run's label, and cell, tunnel
\* and routes are up.  Whether they are is left open: the srsUE session may be
\* lost or come back at any time, so each look at it may fail.
NetworkOf(r) == core = r /\ ue = r

\* run_live_preflight: reservation and allocation are those on file, the
\* cluster is ready and has no namespace open5gs.  An allocation is checked
\* only under the reservation it was made for, and lasts as long.
AuthorityOf(r) == lease[r] = "active" /\ seat[r]
MayDeploy(r) == AuthorityOf(r) /\ kube /\ ~space

\* Mutant of ProvenNetwork: the evidence is enough.
ReadyNetwork(r) == evd[r] = "ready"

\* load_path_proven_network.
ProvenNetwork(r) == man[r] = "proven" /\ evd[r] = "ready"

Wiped ==
  /\ space' = FALSE /\ core' = Nobody /\ ue' = Nobody
  /\ sidecar' = Nobody /\ objs' = {} /\ ports' = Nobody

-----------------------------------------------------------------------------
(* Infrastructure (network/resources.py).                                  *)

Start(p, r) ==
  /\ At(p, "idle")
  /\ cur' = [cur EXCEPT ![p] = r]
  /\ pc' = [pc EXCEPT ![p] = IF prep[r] = "none" THEN "prepare" ELSE "authority"]
  /\ UNCHANGED <<papers, results, nodes, memory>>

\* Controller and tool checks lie between prep_dir.exists() and mkdir().
MakePreparation(p) == LET r == cur[p] IN
  /\ At(p, "prepare") /\ prep[r] = "none"
  /\ prep' = [prep EXCEPT ![r] = "bare"]
  /\ Goto(p, "reserve")
  /\ UNCHANGED <<lease, seat, flight, results, nodes, memory>>

\* An active reservation is used, or one is made; one that was made by a
\* process that died before it wrote the file is found again by the next.
Reserve(p) ==
  /\ At(p, "reserve")
  /\ lease' = [lease EXCEPT ![cur[p]] = "active"]
  /\ Goto(p, "allocate")
  /\ UNCHANGED <<prep, seat, flight, results, nodes, memory>>

\* Mutant of Allocate: an allocation that is found is not put on file.
AllocateUnrecorded(p) ==
  /\ At(p, "allocate") /\ lease[cur[p]] = "active"
  /\ seat' \in {seat, [seat EXCEPT ![cur[p]] = TRUE]}
  /\ Goto(p, "image")
  /\ UNCHANGED <<prep, lease, flight, results, nodes, memory>>

\* An allocation of the operator is used; any other is freed first.
Allocate(p) ==
  /\ At(p, "allocate") /\ lease[cur[p]] = "active"
  /\ seat' = [seat EXCEPT ![cur[p]] = TRUE]
  /\ Goto(p, "image")
  /\ UNCHANGED <<prep, lease, flight, results, nodes, memory>>

\* The upstream playbook resets both nodes; its first contact with them
\* writes known_hosts.
Image(p) ==
  /\ At(p, "image")
  /\ Wiped /\ kube' = FALSE
  /\ prep' = [prep EXCEPT ![cur[p]] = "trusted"]
  /\ Goto(p, "tools")
  /\ UNCHANGED <<lease, seat, flight, results, memory>>

\* Cluster, network foundation and tools are ready when the playbooks end.
Tools(p) ==
  /\ At(p, "tools")
  /\ kube' = TRUE
  /\ Goto(p, "authority")
  /\ UNCHANGED <<papers, results, network, guests, memory>>

Preparation(p) ==
  \/ MakePreparation(p) \/ Reserve(p) \/ Allocate(p)
  \/ Image(p) \/ Tools(p)

-----------------------------------------------------------------------------
(* Authority (live_preflight.py).                                          *)

\* A directory with both ids and host keys counts as prepared, whatever its
\* manifest says; a deployment manifest, whatever its status, ends the
\* question of authority.
Authority(p) == LET r == cur[p] IN
  /\ At(p, "authority") /\ prep[r] = "trusted"
  /\ Goto(p, IF man[r] \notin {"none", "bare"} THEN "session"
             ELSE IF flight[r] THEN "deploy" ELSE "probe")
  /\ UNCHANGED <<papers, results, nodes, memory>>

Probe(p) ==
  /\ At(p, "probe")
  /\ Observe(p, MayDeploy(cur[p]))
  /\ Goto(p, "preflight")
  /\ UNCHANGED <<papers, results, nodes>>

\* The report is saved before it is judged.
SavePreflight(p) ==
  /\ At(p, "preflight")
  /\ flight' = [flight EXCEPT ![cur[p]] = seen[p]]
  /\ IF seen[p] THEN Goto(p, "deploy") /\ Forget(p) ELSE End(p)
  /\ UNCHANGED <<prep, lease, seat, results, nodes>>

\* Once a run has its directory, nothing asks for its authority again: what
\* becomes of it from then on is not recorded.
Asked(r) == man[r] = "none"

\* Evidence older than DEFAULT_EVIDENCE_MAX_AGE.
PreflightAges(r) ==
  /\ flight[r] /\ Asked(r)
  /\ flight' = [flight EXCEPT ![r] = FALSE]
  /\ UNCHANGED <<prep, lease, seat, results, nodes, pc, cur, memory>>

-----------------------------------------------------------------------------
(* Deployment (network/runtime.py, golden-path-deploy.yml).                *)

\* Mutant of MakeDeployment: an existing run directory is used.
MakeDeploymentAgain(p) == LET r == cur[p] IN
  /\ At(p, "deploy") /\ flight[r]
  /\ man' = [man EXCEPT ![r] = "bare"]
  /\ Goto(p, "manifest")
  /\ UNCHANGED <<papers, evd, exp, verdict, nodes, memory>>

MakeDeployment(p) == LET r == cur[p] IN
  /\ At(p, "deploy") /\ flight[r] /\ man[r] = "none"
  /\ man' = [man EXCEPT ![r] = "bare"]
  /\ Goto(p, "manifest")
  /\ UNCHANGED <<papers, evd, exp, verdict, nodes, memory>>

DeploymentRunning(p) ==
  /\ At(p, "manifest")
  /\ man' = [man EXCEPT ![cur[p]] = "running"]
  /\ Goto(p, "playbook")
  /\ UNCHANGED <<papers, evd, exp, verdict, nodes, memory>>

\* What the charts change comes back without a run label; what they leave as
\* it is keeps the label it has.
Playbook(p) ==
  /\ At(p, "playbook") /\ kube
  /\ space' = TRUE
  /\ core' \in {core, Nobody} /\ ue' \in {ue, Nobody}
  /\ sidecar' \in {sidecar, Nobody}
  /\ Goto(p, "label")
  /\ UNCHANGED <<papers, results, kube, objs, ports, memory>>

LabelNetwork(p) ==
  /\ At(p, "label") /\ space
  /\ core' = cur[p] /\ ue' = cur[p]
  /\ Goto(p, "deployed")
  /\ UNCHANGED <<papers, results, kube, space, guests, memory>>

DeploymentEnds(p) ==
  /\ At(p, "deployed")
  /\ man' = [man EXCEPT ![cur[p]] = "deployed"]
  /\ Goto(p, "session")
  /\ UNCHANGED <<papers, evd, exp, verdict, nodes, memory>>

DeploymentFails(p) ==
  /\ pc[p] \in {"playbook", "label", "deployed"}
  /\ man' = [man EXCEPT ![cur[p]] = "failed"]
  /\ End(p)
  /\ UNCHANGED <<papers, evd, exp, verdict, nodes>>

Deployment(p) ==
  \/ MakeDeployment(p) \/ DeploymentRunning(p) \/ Playbook(p)
  \/ LabelNetwork(p) \/ DeploymentEnds(p) \/ DeploymentFails(p)

-----------------------------------------------------------------------------
(* Session (verify_network_path, save_network_evidence).                   *)

\* Evidence that exists is not looked at; load_deployment_manifest.
Session(p) == LET r == cur[p] IN
  /\ At(p, "session")
  /\ IF evd[r] # "none"
       THEN Goto(p, "workload")
       ELSE man[r] \in {"deployed", "proven"} /\ Goto(p, "verify")
  /\ UNCHANGED <<papers, results, nodes, memory>>

Verify(p) ==
  /\ At(p, "verify")
  /\ Observe(p, NetworkOf(cur[p]))
  /\ Goto(p, "evidence")
  /\ UNCHANGED <<papers, results, nodes>>

\* Mutant of SaveEvidence: the manifest is written first.
SaveEvidenceLater(p) ==
  /\ At(p, "evidence")
  /\ IF seen[p] THEN Goto(p, "prove") /\ Forget(p) ELSE End(p)
  /\ UNCHANGED <<papers, results, nodes>>

\* The report is saved before it is judged.
SaveEvidence(p) ==
  /\ At(p, "evidence")
  /\ evd' = [evd EXCEPT ![cur[p]] = IF seen[p] THEN "ready" ELSE "unready"]
  /\ IF seen[p] THEN Goto(p, "prove") /\ Forget(p) ELSE End(p)
  /\ UNCHANGED <<papers, man, exp, verdict, nodes>>

Prove(p) == LET r == cur[p] IN
  /\ At(p, "prove")
  /\ man' = [man EXCEPT ![r] = IF @ = "deployed" THEN "proven" ELSE @]
  /\ Goto(p, "workload")
  /\ UNCHANGED <<papers, evd, exp, verdict, nodes, memory>>

-----------------------------------------------------------------------------
(* Workload (amber_experiment_runtime.py, experiment/live.py, rfsim.py).   *)

\* Evidence that exists is not looked at here either.
Workload(p) == LET r == cur[p] IN
  /\ At(p, "workload")
  /\ IF verdict[r] # "none"
       THEN Goto(p, "acceptance")
       ELSE /\ ProvenNetwork(r) /\ NetworkOf(r) /\ ports = Nobody
            /\ Goto(p, "open")
  /\ UNCHANGED <<papers, results, nodes, memory>>

OpenExperiment(p) == LET r == cur[p] IN
  /\ At(p, "open") /\ exp[r] = "none"
  /\ exp' = [exp EXCEPT ![r] = "open"]
  /\ Goto(p, "plan")
  /\ UNCHANGED <<papers, man, evd, verdict, nodes, memory>>

\* _write_failure_artifacts: the manifest, then the evidence.
PlanFails(p) ==
  /\ At(p, "plan")
  /\ exp' = [exp EXCEPT ![cur[p]] = "failed"]
  /\ Goto(p, "refuse")
  /\ UNCHANGED <<papers, man, evd, verdict, nodes, memory>>

Refuse(p) ==
  /\ At(p, "refuse")
  /\ verdict' = [verdict EXCEPT ![cur[p]] = "rejected"]
  /\ End(p)
  /\ UNCHANGED <<papers, man, evd, exp, nodes>>

\* Finds the srsUE Deployment by its label; from here on it goes by name.  The
\* objects are made, or not even the first.
Apply(p) ==
  /\ At(p, "plan") /\ ue = cur[p]
  /\ named' = [named EXCEPT ![p] = TRUE]
  /\ \/ objs' = objs \cup {cur[p]} /\ Goto(p, "patch")
     \/ UNCHANGED objs /\ Goto(p, "unforward")
  /\ UNCHANGED <<papers, results, kube, network, sidecar, ports, seen, good>>

\* The patch carries the label of the run as well, and replaces the pod.
Patch(p) ==
  /\ At(p, "patch") /\ space
  /\ sidecar' = cur[p] /\ ue' = cur[p]
  /\ Goto(p, "forward")
  /\ UNCHANGED <<papers, results, kube, space, core, objs, ports, memory>>

\* The session is brought back (reconcile_rfsim_runtime, for as long as
\* RFSIM_RECOVERY_ATTEMPTS allow), the edge bridge is connected and the network
\* proven once more before the port-forward is started.
Forward(p) ==
  /\ At(p, "forward")
  /\ sidecar = cur[p] /\ NetworkOf(cur[p]) /\ ports = Nobody
  /\ ports' = cur[p]
  /\ Goto(p, "collect")
  /\ UNCHANGED <<papers, results, kube, network, sidecar, objs, memory>>

\* Telemetry is complete, and the network is proven again behind it.
Collect(p) ==
  /\ At(p, "collect")
  /\ sidecar = cur[p] /\ ports = cur[p] /\ NetworkOf(cur[p])
  /\ good' = [good EXCEPT ![p] = TRUE]
  /\ Goto(p, "unforward")
  /\ UNCHANGED <<papers, results, nodes, seen, named>>

Body == {"plan", "patch", "forward", "collect"}

BodyFails(p) ==
  /\ pc[p] \in Body
  /\ Goto(p, "unforward")
  /\ UNCHANGED <<papers, results, nodes, memory>>

Measure(p) ==
  \/ OpenExperiment(p) \/ PlanFails(p) \/ Refuse(p)
  \/ Apply(p) \/ Patch(p) \/ Forward(p) \/ Collect(p)
  \/ BodyFails(p)

-----------------------------------------------------------------------------
(* The finally block; every step of it is tried, its errors are collected. *)

Note(p, error) ==
  /\ good' = [good EXCEPT ![p] = @ /\ ~error]
  /\ UNCHANGED seen

\* Its own forward is stopped or not; the port must be free afterwards.
Unforward(p) ==
  /\ At(p, "unforward")
  /\ ports' \in IF ports = cur[p] THEN {cur[p], Nobody} ELSE {ports}
  /\ Note(p, ports' # Nobody) /\ UNCHANGED named
  /\ Goto(p, "unpatch")
  /\ UNCHANGED <<papers, results, kube, network, sidecar, objs>>

\* The broker is removed and the session brought back once more, or not.
Unpatch(p) ==
  /\ At(p, "unpatch") /\ named[p] /\ space
  /\ sidecar' = Nobody
  /\ \E back \in BOOLEAN : (back => NetworkOf(cur[p])) /\ Note(p, ~back)
  /\ named' = [named EXCEPT ![p] = FALSE]
  /\ Goto(p, "delete")
  /\ UNCHANGED <<papers, results, kube, network, objs, ports>>

\* There is nothing to restore, or it failed.
SkipUnpatch(p) ==
  /\ At(p, "unpatch")
  /\ Note(p, named[p]) /\ named' = [named EXCEPT ![p] = FALSE]
  /\ Goto(p, "delete")
  /\ UNCHANGED <<papers, results, nodes>>

\* Mutant of Delete: a failure is not collected.
DeleteQuietly(p) ==
  /\ At(p, "delete")
  /\ objs' \in {objs, objs \ {cur[p]}} /\ UNCHANGED memory
  /\ Goto(p, "reverify")
  /\ UNCHANGED <<papers, results, kube, network, sidecar, ports>>

Delete(p) ==
  /\ At(p, "delete")
  /\ \/ objs' = objs \ {cur[p]} /\ UNCHANGED memory
     \/ UNCHANGED objs /\ Note(p, TRUE) /\ UNCHANGED named
  /\ Goto(p, "reverify")
  /\ UNCHANGED <<papers, results, kube, network, sidecar, ports>>

Reverify(p) ==
  /\ At(p, "reverify")
  /\ \/ NetworkOf(cur[p]) /\ UNCHANGED memory
     \/ Note(p, TRUE) /\ UNCHANGED named
  /\ Goto(p, "judge")
  /\ UNCHANGED <<papers, results, nodes>>

\* The evidence, then the manifest: Judge and Report.
Judge(p) ==
  /\ At(p, "judge")
  /\ verdict' = [verdict EXCEPT ![cur[p]] =
                   IF good[p] THEN "accepted" ELSE "rejected"]
  /\ Goto(p, "report")
  /\ UNCHANGED <<papers, man, evd, exp, nodes, memory>>

Report(p) ==
  /\ At(p, "report")
  /\ exp' = [exp EXCEPT ![cur[p]] = IF good[p] THEN "accepted" ELSE "failed"]
  /\ IF good[p] THEN Goto(p, "acceptance") /\ UNCHANGED memory ELSE End(p)
  /\ UNCHANGED <<papers, man, evd, verdict, nodes>>

Accept(p) ==
  /\ At(p, "acceptance") /\ verdict[cur[p]] = "accepted"
  /\ End(p)
  /\ UNCHANGED <<papers, results, nodes>>

CleanUp(p) ==
  \/ Unforward(p) \/ Unpatch(p) \/ SkipUnpatch(p) \/ Delete(p)
  \/ Reverify(p) \/ Judge(p) \/ Report(p)

-----------------------------------------------------------------------------
(* What may happen at any time.                                            *)

\* An error that nobody handles, a refusal, an interrupt, a crash.
Die(p) ==
  /\ ~At(p, "idle")
  /\ End(p)
  /\ UNCHANGED <<papers, results, nodes>>

\* The reservation ends; the nodes stay as they are or get another tenant.
Lapse ==
  /\ \E r \in Runs : lease[r] = "active"
  /\ lease' = [r \in Runs |->
                 IF lease[r] # "none" /\ Asked(r) THEN "past" ELSE lease[r]]
  /\ UNCHANGED nodes \/ (Wiped /\ kube' = FALSE)
  /\ UNCHANGED <<prep, seat, flight, results, pc, cur, memory>>

Step(p) ==
  \/ \E r \in Runs : Start(p, r)
  \/ Preparation(p)
  \/ Authority(p) \/ Probe(p) \/ SavePreflight(p)
  \/ Deployment(p)
  \/ Session(p) \/ Verify(p) \/ SaveEvidence(p) \/ Prove(p)
  \/ Workload(p) \/ Measure(p) \/ CleanUp(p) \/ Accept(p)
  \/ Die(p)

Next ==
  \/ \E p \in Procs : Step(p)
  \/ \E r \in Runs : PreflightAges(r)
  \/ Lapse

Spec == Init /\ [][Next]_vars

-----------------------------------------------------------------------------
(* Properties.                                                             *)

Deploying  == {"manifest", "playbook", "label", "deployed"}
Concluding == {"unforward", "unpatch", "delete", "reverify", "judge"}
Measuring  == Body \cup Concluding
Places == { "idle", "prepare", "reserve", "allocate", "image", "tools",
            "authority", "probe", "preflight", "deploy", "session",
            "verify", "evidence", "prove", "workload", "open", "refuse",
            "report", "acceptance" } \cup Deploying \cup Measuring

\* Every file, the nodes and the processes are in a state the code knows, and
\* authority.env names a reservation and an allocation as soon as it counts.
TypeOK ==
  /\ prep \in [Runs -> {"none", "bare", "trusted"}]
  /\ lease \in [Runs -> {"none", "active", "past"}] /\ seat \in [Runs -> BOOLEAN]
  /\ \A r \in Runs : prep[r] = "trusted" => lease[r] # "none" /\ seat[r]
  /\ flight \in [Runs -> BOOLEAN]
  /\ man \in [Runs -> {"none", "bare", "running", "failed", "deployed", "proven"}]
  /\ evd \in [Runs -> {"none", "unready", "ready"}]
  /\ exp \in [Runs -> {"none", "open", "failed", "accepted"}]
  /\ verdict \in [Runs -> {"none", "rejected", "accepted"}]
  /\ kube \in BOOLEAN /\ space \in BOOLEAN
  /\ core \in Somebody /\ ue \in Somebody
  /\ sidecar \in Somebody /\ objs \subseteq Runs /\ ports \in Somebody
  /\ pc \in [Procs -> Places] /\ cur \in [Procs -> Somebody]
  /\ \A p \in Procs : At(p, "idle") <=> cur[p] = Nobody
  /\ seen \in [Procs -> BOOLEAN] /\ named \in [Procs -> BOOLEAN]
  /\ good \in [Procs -> BOOLEAN]

\* Never two processes that deploy or measure for one run, however many were
\* started and whatever became of earlier ones (the two run_directory.mkdir()).
OneWorker ==
  \A p, q \in Procs :
    /\ p # q /\ cur[p] = cur[q]
    /\ pc[p] \in Deploying \cup Measuring
    => pc[q] \notin Deploying \cup Measuring

\* A status on file stands on the evidence it refers to, also when a process
\* dies between the two writes: the manifest of the network on its evidence,
\* the manifest of the experiment on its verdict, an acceptance on a network
\* that was proven (save_network_evidence, the end of execute_amber_experiment).
StatusIsBacked ==
  \A r \in Runs :
    /\ man[r] = "proven" => evd[r] # "none"
    /\ exp[r] # "none" => man[r] = "proven"
    /\ exp[r] = "accepted" => verdict[r] = "accepted"
    /\ verdict[r] = "accepted" => exp[r] \in {"open", "accepted"}
    /\ verdict[r] = "rejected" => exp[r] \in {"open", "failed"}

\* A workload is accepted only when nothing of it is left on the nodes, while
\* other runs deploy and measure there (the finally block,
\* _cleanup_live_resources).
AcceptedIsClean ==
  [][ \A r \in Runs :
        verdict[r] # "accepted" /\ verdict'[r] = "accepted" =>
          sidecar # r /\ r \notin objs /\ ports # r ]_vars

\* The files of all runs keep the promise of VirtualHistory, whatever is
\* repeated, resumed or killed.
Deployments == [r \in Runs |->
  IF man[r] \in {"none", "bare"} THEN "new"
  ELSE IF man[r] = "running" THEN "deploying" ELSE man[r]]
Promise == INSTANCE VirtualHistory WITH network <- Deployments
KeepsHistory == Promise!Spec

\* A worker of run r was killed halfway: its directory is made but its
\* deployment has no result, or its experiment has no verdict.
HalfDone(r) ==
  /\ \A p \in Procs : cur[p] = r => pc[p] \notin Deploying \cup Measuring \cup {"refuse"}
  /\ \/ man[r] \in {"bare", "running"}
     \/ exp[r] # "none" /\ verdict[r] = "none"

\* What a killed worker left halfway no later command of any process takes up,
\* tidies or judges: the directory refuses a second mkdir, and neither
\* load_deployment_manifest nor load_path_proven_network accepts its status.
HalfDoneForGood ==
  [][ \A r \in Runs : HalfDone(r) =>
        /\ HalfDone(r)'
        /\ man'[r] = man[r] /\ exp'[r] = exp[r] /\ verdict'[r] = verdict[r] ]_vars

\* The port-forward of run r outlived the process that started it.
Orphaned(r) ==
  /\ ports = r
  /\ \A p \in Procs : cur[p] = r => pc[p] \notin Measuring

\* No command frees the port from such a forward, those of its own run
\* included; until the nodes are wiped every workload is refused for it, and
\* none that is being measured gets its telemetry (_local_port_free,
\* _wait_unique_remote_listener, _reap_owned_remote_listeners).
PortStaysTaken ==
  [][ \A r \in Runs : Orphaned(r) =>
        /\ Orphaned(r)' \/ (ports' = Nobody /\ ~space')
        /\ \A p \in Procs : At(p, "forward") => pc'[p] # "collect" ]_vars

\* docs/backend-contract.md: "network" remains open until the readiness gates
\* pass - so a command that has closed it has ready evidence.
ClosedIsReady ==
  \A p \in Procs : At(p, "workload") => evd[cur[p]] = "ready"
=============================================================================
