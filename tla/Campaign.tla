------------------------------ MODULE Campaign ------------------------------
(***************************************************************************)
(* A campaign of research runs: execute_amber_campaign and                 *)
(* analyze_amber_campaign (research/amber_campaign.py) inside the          *)
(* CampaignRuntimeSession (research/campaign_runtime.py), each run being   *)
(* execute_amber_research_experiment (research/amber_runtime.py) around    *)
(* execute_amber_experiment and the Measurement.                           *)
(*                                                                         *)
(* The session keeps one edge sidecar for all runs, so that the UE's pod   *)
(* is not replaced between them, refuses to go on when it was, and puts    *)
(* the network back in the end.  What it has to put back it knows from     *)
(* memory only.  A command may be killed anywhere and given again.         *)
(***************************************************************************)
EXTENDS Measurement

CONSTANTS
  N,         \* scheduled runs
  Loaded,    \* those whose condition has a load
  MaxKills   \* bound: times the command is killed

ASSUME CampaignAssumption == N \in Nat \ {0} /\ Loaded \subseteq 1..N /\ MaxKills \in Nat

Runs == 1..N

VARIABLES
  patched,    \* the UE's deployment has the campaign's sidecar
  objects,    \* owners of labelled objects in the cluster; 0 is the campaign
  \* memory of the command
  pc, at,
  good,       \* run_accepted
  observed, patchRequested, objectsRequested, failed,
  \* files
  dirs,       \* run directories
  iot,        \* iot-evidence-v2.json: ready or not
  summary,    \* research-summary-v2.json
  result,     \* <campaign>-amber-campaign-v2.json
  evidence,   \* <campaign>-campaign-runtime.json
  analysis,
  kills,
  epochs      \* epochs a run was measured in (history)

cluster == <<patched, objects>>
memory  == <<good, observed, patchRequested, objectsRequested, failed>>
runFiles == <<dirs, iot, summary>>
history == <<kills, epochs>>
vars == <<epoch, ue, drifts, stable, loaded, stage, sound, up, held, flaws, gap,
          cal, calOwns, calibrations, patched, objects, pc, at, good, observed,
          patchRequested, objectsRequested, failed, dirs, iot, summary, result,
          evidence, analysis, kills, epochs>>

Init ==
  /\ MeasurementInit
  /\ patched = FALSE /\ objects = {}
  /\ pc = "idle" /\ at = 1 /\ good = FALSE
  /\ observed = {} /\ patchRequested = FALSE /\ objectsRequested = FALSE /\ failed = FALSE
  /\ dirs = {} /\ iot = [r \in Runs |-> "none"] /\ summary = [r \in Runs |-> "none"]
  /\ result = [completed |-> 0, failed |-> 0]
  /\ evidence = [status |-> "none", patched |-> FALSE]
  /\ analysis = FALSE /\ kills = 0
  /\ epochs = [r \in Runs |-> {}]

\* _write_evidence before the end.
Progress(pinned, requested) ==
  evidence' = [status |-> IF pinned = 0 THEN "initializing" ELSE "active",
               patched |-> requested]

-----------------------------------------------------------------------------
(* The session begins.                                                     *)

Enter ==
  /\ pc = "idle" /\ (Overlap \/ cal = "off")
  /\ pc' = "next" /\ at' = 1 /\ good' = FALSE
  /\ stable' = 0 /\ observed' = {}
  /\ patchRequested' = FALSE /\ objectsRequested' = FALSE /\ failed' = FALSE
  /\ Progress(0, FALSE)
  /\ UNCHANGED <<pod, lifecycle, up, bench, cluster, runFiles, result, analysis, history>>

\* The run is over before it has touched the network: its directory exists, or
\* the checks and the planning before it fail, which may leave the directory.
Refuse ==
  /\ pc = "next" /\ at \in Runs
  /\ dirs' \in {dirs, dirs \cup {at}}
  /\ pc' = "failed"
  /\ UNCHANGED <<measurement, cluster, at, memory, iot, summary, result, evidence, analysis, history>>

\* Mutant of StartRun: a directory that exists is used again.
StartRunAgain ==
  /\ pc = "next" /\ at \in Runs
  /\ dirs' = dirs \cup {at} /\ good' = FALSE
  /\ pc' = "objects"
  /\ UNCHANGED <<measurement, cluster, at, observed, patchRequested, objectsRequested,
                 failed, iot, summary, result, evidence, analysis, history>>

StartRun ==
  /\ pc = "next" /\ at \in Runs \ dirs
  /\ dirs' = dirs \cup {at} /\ good' = FALSE
  /\ pc' = "objects"
  /\ UNCHANGED <<measurement, cluster, at, observed, patchRequested, objectsRequested,
                 failed, iot, summary, result, evidence, analysis, history>>

-----------------------------------------------------------------------------
(* A run, up to its measurement.  Any step may fail.                       *)

Fail ==
  /\ pc \in {"objects", "patch", "reconcile", "configure", "transport", "telemetry"}
  /\ pc' = "cleanup"
  /\ UNCHANGED <<measurement, cluster, at, memory, runFiles, result, evidence, analysis, history>>

\* _render_experiment_objects, and kubectl apply for each.
ApplyObjects ==
  /\ pc = "objects"
  /\ observed' = observed \cup {at} /\ objectsRequested' = TRUE
  /\ Progress(stable, patchRequested)
  /\ \E applied \in SUBSET {0, at} :
       /\ objects' = objects \cup applied
       /\ pc' = IF applied = {0, at} THEN "patch" ELSE "cleanup"
  /\ UNCHANGED <<measurement, patched, at, good, patchRequested, failed, runFiles,
                 result, analysis, history>>

\* _render_edge_patch: the same patch for every run, so that only the first
\* replaces the pod.
Patch ==
  /\ pc = "patch"
  /\ patchRequested' = TRUE
  /\ \/ /\ patched' = TRUE /\ pc' = "reconcile"
        /\ IF patched THEN UNCHANGED <<epoch, ue, up>>
           ELSE epoch' = epoch + 1 /\ ue' = epoch' /\ up' = up \ InPod
     \/ pc' = "cleanup" /\ UNCHANGED <<patched, epoch, ue, up>>
  /\ UNCHANGED <<drifts, stable, lifecycle, bench, objects, at, good, observed,
                 objectsRequested, failed, runFiles, result, evidence, analysis, history>>

\* _reconcile_runtime: the first run starts the radio anew and pins the epoch,
\* the others must find it.
Reconcile ==
  /\ pc = "reconcile"
  /\ \/ stable = 0 /\ Reset /\ stable' = epoch' /\ Progress(stable', patchRequested)
     \/ epoch = stable /\ UNCHANGED <<epoch, ue, up, stable, evidence>>
  /\ pc' = "configure"
  /\ UNCHANGED <<drifts, lifecycle, bench, cluster, at, memory, runFiles,
                 result, analysis, history>>

ReconcileFails ==
  /\ pc = "reconcile" /\ stable = 0 /\ Reset
  /\ pc' = "cleanup"
  /\ UNCHANGED <<drifts, stable, lifecycle, bench, cluster, at, memory, runFiles,
                 result, evidence, analysis, history>>

\* Edge configuration, reload in place in the UE's pod, proof of the network.
Configure ==
  /\ pc = "configure" /\ SameUe
  /\ Progress(stable, patchRequested)
  /\ pc' = "transport"
  /\ UNCHANGED <<measurement, cluster, at, memory, runFiles, result, analysis, history>>

\* Collector, transport and publisher up to the gate (IotRun).
StartTransport ==
  /\ pc = "transport"
  /\ BeginMeasurement(at \in Loaded)
  /\ epochs' = [epochs EXCEPT ![at] = {epoch}]
  /\ pc' = "measure"
  /\ UNCHANGED <<cluster, at, memory, runFiles, result, evidence, analysis, kills>>

MeasureRun ==
  /\ pc = "measure" /\ Measure
  /\ UNCHANGED <<pc, cluster, at, memory, runFiles, result, evidence, analysis, history>>

Measured ==
  /\ pc = "measure" /\ stage = "over"
  /\ pc' = IF sound THEN "telemetry" ELSE "cleanup"
  /\ UNCHANGED <<measurement, cluster, at, memory, runFiles, result, evidence, analysis, history>>

\* The publisher has sent, everything has arrived, the path is as before.
AcceptTelemetry ==
  /\ pc = "telemetry"
  /\ good' = TRUE /\ pc' = "cleanup"
  /\ UNCHANGED <<measurement, cluster, at, observed, patchRequested, objectsRequested,
                 failed, runFiles, result, evidence, analysis, history>>

\* Mutant of CleanUp: the pod is not looked at after the run.
CleanUpBlindly ==
  /\ pc = "cleanup"
  /\ \E gone \in {{}, {at}}, clean \in BOOLEAN :
       /\ objects' = objects \ gone
       /\ clean => gone = {at}
       /\ iot' = [iot EXCEPT ![at] = IF good /\ clean THEN "ready" ELSE "failed"]
  /\ pc' = "judge"
  /\ UNCHANGED <<measurement, patched, at, memory, dirs, summary, result, evidence,
                 analysis, history>>

\* The finally block with _cleanup_live_resources: the session has emptied the
\* sidecar's cleanup patch and put its comparison in place of the reconciliation;
\* where nothing is pinned yet the radio is started anew here.
CleanUp ==
  /\ pc = "cleanup"
  /\ \E gone \in {{}, {at}}, clean \in BOOLEAN, looked \in BOOLEAN :
       /\ objects' = objects \ gone
       /\ \/ /\ looked /\ stable = 0 /\ Reset
             /\ stable' = epoch' /\ Progress(stable', patchRequested)
          \/ ~looked /\ stable = 0 /\ Reset /\ UNCHANGED <<stable, evidence>>
          \/ (~looked \/ stable # 0) /\ UNCHANGED <<epoch, ue, up, stable, evidence>>
       /\ clean => gone = {at} /\ looked /\ stable \in {0, epoch}
       /\ iot' = [iot EXCEPT ![at] = IF good /\ clean THEN "ready" ELSE "failed"]
  /\ pc' = "judge"
  /\ UNCHANGED <<drifts, lifecycle, bench, patched, at, memory, dirs, summary,
                 result, analysis, history>>

-----------------------------------------------------------------------------
(* Judgement.                                                              *)

\* infrastructure_valid, as far as it is not the telemetry's.
PathValid == iot[at] = "ready" /\ ~flaws

\* Mutant of Verdict: the scientific gate does not raise.
VerdictAnyway(v) ==
  /\ summary' = [summary EXCEPT ![at] = v]
  /\ pc' = IF v = "invalid" THEN "failed" ELSE "record"

\* The summary is saved before the gates raise.
Verdict(v) ==
  /\ summary' = [summary EXCEPT ![at] = v]
  /\ pc' = IF v = "valid" THEN "record" ELSE "failed"

Judge ==
  /\ pc = "judge"
  /\ \/ iot[at] = "ready" /\ Verdict("invalid")
     \/ PathValid /\ \E v \in {"valid", "unscientific"} : Verdict(v)
     \/ pc' = "failed" /\ UNCHANGED summary
  /\ UNCHANGED <<measurement, cluster, at, memory, dirs, iot, result, evidence,
                 analysis, history>>

\* Mutant of Record: the next run is counted.
RecordAhead ==
  /\ pc = "record"
  /\ result' = [completed |-> at + 1, failed |-> 0]
  /\ at' = at + 1 /\ pc' = "next"
  /\ UNCHANGED <<measurement, cluster, memory, runFiles, evidence, analysis, history>>

Record ==
  /\ pc = "record"
  /\ result' = [completed |-> at, failed |-> 0]
  /\ at' = at + 1 /\ pc' = "next"
  /\ UNCHANGED <<measurement, cluster, memory, runFiles, evidence, analysis, history>>

\* The summary does not fit the schedule or those before it: this is found
\* outside the try block, so that no result tells of the run.
Mismatch ==
  /\ pc = "record"
  /\ failed' = TRUE /\ pc' = "restore"
  /\ UNCHANGED <<measurement, cluster, at, good, observed, patchRequested,
                 objectsRequested, runFiles, result, evidence, analysis, history>>

\* An exception in a run: the result names it, the session is left.
RecordFailure ==
  /\ pc = "failed"
  /\ result' = [completed |-> at - 1, failed |-> at]
  /\ failed' = TRUE /\ pc' = "restore"
  /\ UNCHANGED <<measurement, cluster, at, good, observed, patchRequested,
                 objectsRequested, runFiles, evidence, analysis, history>>

AllRecorded ==
  /\ pc = "next" /\ at = N + 1
  /\ pc' = "restore"
  /\ UNCHANGED <<measurement, cluster, at, memory, runFiles, result, evidence, analysis, history>>

-----------------------------------------------------------------------------
(* __exit__.                                                               *)

Close(status) ==
  /\ evidence' = [status |-> status, patched |-> patchRequested]
  /\ pc' = "idle"
  /\ UNCHANGED <<drifts, stable, lifecycle, bench, at, memory, runFiles, result,
                 analysis, history>>

Ending == IF failed THEN "aborted"
          ELSE IF observed = Runs THEN "complete" ELSE "incomplete"

\* The patch that removes the sidecar replaces the pod; the radio is started anew.
Unpatched ==
  /\ patched' = FALSE
  /\ epoch' = epoch + 1 /\ ue' = IF patched THEN epoch' ELSE ue
  /\ up' = up \ (IF patched THEN InPod ELSE {"route", "probe"})

Restore ==
  /\ pc = "restore"
  /\ IF patchRequested THEN Unpatched ELSE UNCHANGED <<patched, epoch, ue, up>>
  /\ objects' = IF objectsRequested THEN objects \ {0} ELSE objects
  /\ Close(Ending)

\* It stops at the first step that fails.
RestoreFails ==
  /\ pc = "restore"
  /\ \/ UNCHANGED <<patched, epoch, ue, up, objects>>
     \/ /\ patchRequested /\ Unpatched
        /\ objects' \in {objects, IF objectsRequested THEN objects \ {0} ELSE objects}
  /\ Close("cleanup-failed")

-----------------------------------------------------------------------------
\* Mutant of Analyze: a run without a summary is passed over.
AnalyzeWhatThereIs ==
  /\ \A r \in Runs : summary[r] # "invalid"
  /\ analysis' = TRUE
  /\ UNCHANGED <<measurement, cluster, pc, at, memory, runFiles, result, evidence, history>>

\* analyze_amber_campaign, over the summaries of all runs,
\* the scientifically invalid ones included.
Analyze ==
  /\ \A r \in Runs : summary[r] \in {"valid", "unscientific"}
  /\ analysis' = TRUE
  /\ UNCHANGED <<measurement, cluster, pc, at, memory, runFiles, result, evidence, history>>

\* The thread that samples ends with its process.
Kill ==
  /\ pc # "idle" /\ kills < MaxKills
  /\ kills' = kills + 1 /\ pc' = "idle"
  /\ stage' = "off" /\ held' = {} /\ up' = up \ {"sampler"}
  /\ UNCHANGED <<pod, stable, loaded, sound, flaws, gap, bench, cluster, at, memory,
                 runFiles, result, evidence, analysis, epochs>>

\* While the run's telemetry is under way its epochs are kept.
Measuring == pc \in {"measure", "telemetry"}

EpochsKept == epochs' = IF Measuring THEN [epochs EXCEPT ![at] = @ \cup {epoch'}] ELSE epochs

Surroundings ==
  /\ Drift \/ GnbDrift \/ \E i \in Instruments : InstrumentEnds(i)
  /\ EpochsKept
  /\ UNCHANGED <<cluster, pc, at, memory, runFiles, result, evidence, analysis, kills>>

CalibrateCapacity ==
  /\ (Overlap \/ pc = "idle")
  /\ Calibrate
  /\ EpochsKept
  /\ UNCHANGED <<cluster, pc, at, memory, runFiles, result, evidence, analysis, kills>>

Next ==
  \/ Enter \/ Refuse \/ StartRun \/ Fail \/ ApplyObjects \/ Patch
  \/ Reconcile \/ ReconcileFails \/ Configure \/ StartTransport
  \/ MeasureRun \/ Measured \/ AcceptTelemetry
  \/ CleanUp \/ Judge \/ Record \/ Mismatch \/ RecordFailure \/ AllRecorded
  \/ Restore \/ RestoreFails \/ Analyze \/ Kill
  \/ Surroundings \/ CalibrateCapacity

Spec == Init /\ [][Next]_vars

-----------------------------------------------------------------------------
Places == {"idle", "next", "objects", "patch", "reconcile", "configure", "transport",
           "measure", "telemetry", "cleanup", "judge", "record", "failed", "restore"}

TypeOK ==
  /\ epoch \in Nat /\ ue \in 1..epoch /\ drifts \in 0..MaxDrifts /\ stable \in 0..epoch
  /\ loaded \in BOOLEAN /\ stage \in Stages /\ sound \in BOOLEAN
  /\ up \subseteq Instruments /\ held \subseteq Instruments
  /\ flaws \in BOOLEAN /\ gap \in BOOLEAN
  /\ cal \in {"off", "route", "serve", "measure", "stop", "unroute"}
  /\ calOwns \in BOOLEAN /\ calibrations \in 0..MaxCalibrations
  /\ patched \in BOOLEAN /\ objects \subseteq {0} \cup Runs
  /\ pc \in Places /\ at \in 1..(N + 1) /\ good \in BOOLEAN
  /\ observed \subseteq Runs /\ patchRequested \in BOOLEAN
  /\ objectsRequested \in BOOLEAN /\ failed \in BOOLEAN
  /\ dirs \subseteq Runs /\ iot \in [Runs -> {"none", "failed", "ready"}]
  /\ summary \in [Runs -> {"none", "invalid", "unscientific", "valid"}]
  /\ result \in [completed : 0..N, failed : 0..N]
  /\ evidence \in [status : {"none", "initializing", "active", "complete", "aborted",
                             "incomplete", "cleanup-failed"}, patched : BOOLEAN]
  /\ analysis \in BOOLEAN /\ kills \in 0..MaxKills
  /\ epochs \in [Runs -> SUBSET Nat]

\* What is analysed was measured with one pod and one PDU session throughout,
\* however often the command was killed and given again.
AnalysedShareEpoch ==
  analysis => \A r, s \in Runs : \A d \in epochs[r], e \in epochs[s] : d = e

\* A run is taken as valid only when nothing it needs was missing in its window
\* and nothing that disturbs the next one is left of it.
ValidIsMeasured ==
  [][\A r \in Runs : summary'[r] # summary[r] /\ summary'[r] # "invalid" =>
       /\ ~gap
       /\ up \cap {"server", "sampler"} = {}]_vars

\* A session that ends well has put back what it had changed itself.
OwnIsRestored ==
  evidence.status \in {"complete", "aborted"} /\ evidence.patched =>
    ~patched /\ 0 \notin objects

\* "restores the accepted network exactly once on exit" (amber_campaign.py),
\* whatever the session was: the limit of OwnIsRestored.
ClosedIsRestored ==
  evidence.status \in {"complete", "aborted"} => ~patched /\ 0 \notin objects

\* The evidence is complete only when every run of the schedule is on file as
\* valid, and so is the result.
CompleteIsComplete ==
  evidence.status = "complete" =>
    /\ \A r \in Runs : summary[r] = "valid" /\ iot[r] = "ready"
    /\ result = [completed |-> N, failed |-> 0]

\* The summaries on file are those CampaignSchedule allows, however often the
\* command failed, was killed or was given again: no run is judged out of turn
\* or twice.
Schedule == INSTANCE CampaignSchedule WITH judged <- summary, analysed <- analysis
KeepsSchedule == Schedule!Spec

\* A run that is not valid ends the campaign, so what is analysed in spite of
\* the gates is the last run of the schedule or none: the limit of
\* AnalysedIsScientific.
OnlyTheLastIsDoubtful == analysis => \A r \in Runs : r # N => summary[r] = "valid"

\* The command that began the runs has ended, however it did; one that was
\* given again has not asked the cluster for anything.
Over ==
  /\ dirs # {}
  /\ \/ pc = "idle"
     \/ pc \in {"next", "failed", "restore"} /\ at = 1 /\ ~objectsRequested

\* A campaign is measured by one command or not at all.  Giving the command
\* again adds no run, judges none and takes nothing away that a killed one left
\* in the cluster, since what to put back was in its memory
\* (run_directory.mkdir, CampaignRuntimeSession.__exit__); runs without a
\* summary keep the campaign from its analysis for good.
OverForGood ==
  [][Over =>
       /\ Over'
       /\ UNCHANGED <<dirs, iot, summary, epochs, patched, objects>>
       /\ (\E r \in Runs : summary[r] = "none") => ~analysis']_vars

\* "Failed or invalid runs remain in the evidence set but are excluded from
\* scientific summaries according to explicit validity gates"
\* (docs/experiment.md).
AnalysedIsScientific == analysis => \A r \in Runs : summary[r] = "valid"
=============================================================================
