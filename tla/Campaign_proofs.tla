--------------------------- MODULE Campaign_proofs ---------------------------
(***************************************************************************)
(* Proofs about Campaign, for any number of runs, any schedule of loads    *)
(* and any number of replaced pods, calibrations and killed commands.      *)
(*                                                                         *)
(* A command that is given again is refused at the first run of which a    *)
(* directory exists, so that runs are measured by one command only: that   *)
(* is SessionInv.  The rest says what this command knows of the runs       *)
(* behind it and of the one it is at.                                      *)
(***************************************************************************)
EXTENDS Campaign, TLAPS

Running   == {"objects", "patch", "reconcile", "configure", "transport",
              "measure", "telemetry", "cleanup", "judge", "record"}
Preparing == {"objects", "patch", "reconcile", "configure", "transport"}
Infra(r)  == summary[r] \in {"valid", "unscientific"}

\* Directories and summaries are those of one session.
SessionInv ==
  /\ pc \in Running \cup {"failed"} => at \in Runs
  /\ pc \in Running => at \in dirs
  /\ pc # "idle" /\ at > 1 => 1 \in dirs
  /\ dirs # {} => 1 \in dirs
  /\ \A r \in Runs : summary[r] # "none" => r \in dirs
  /\ pc \in Running \ {"record"} => summary[at] = "none"
  /\ pc # "idle" /\ failed => pc = "restore"
  /\ pc = "restore" /\ ~failed => at = N + 1

\* The runs before the current one are on file as valid.
CompletionInv ==
  /\ pc # "idle" => \A r \in Runs : r < at => summary[r] = "valid" /\ iot[r] = "ready"
  /\ pc # "idle" /\ ~failed /\ at > 1 => result = [completed |-> at - 1, failed |-> 0]
  /\ pc = "record" => summary[at] = "valid" /\ iot[at] = "ready"
  /\ CompleteIsComplete

\* What was changed is remembered until it is put back.
RestoreInv ==
  /\ evidence.status \in {"complete", "aborted"} => pc = "idle"
  /\ pc = "patch" \/ patchRequested => objectsRequested
  /\ OwnIsRestored

\* The epoch the command has seen first, against those of the current run.
PinInv ==
  /\ epoch # 0
  /\ pc \in Running \ {"cleanup", "judge", "record"} => ~good
  /\ pc \in {"configure", "transport", "measure", "telemetry"} => stable # 0
  /\ pc \in {"cleanup", "judge"} /\ good => stable # 0
  /\ pc \in {"measure", "telemetry"} \/ (pc = "cleanup" /\ good)
       => epochs[at] \subseteq stable..epoch
  /\ pc = "judge" /\ iot[at] = "ready" => good /\ epochs[at] \subseteq {stable}

\* The runs that count were measured in that epoch.
AgreeInv ==
  /\ pc \in Running \/ (pc = "next" /\ at > 1) =>
       \A r \in Runs : Infra(r) => stable # 0 /\ epochs[r] \subseteq {stable}
  /\ \A r, s \in Runs : Infra(r) /\ Infra(s) =>
       \A d \in epochs[r], e \in epochs[s] : d = e
  /\ analysis => \A r \in Runs : Infra(r)

Early == SetUps \cup {"origin", "window", "post"}
Clear == up \cap {"server", "sampler"} = {}

\* Servers and samplers are held while there are any, and gone with a sound run.
ClearInv ==
  /\ pc # "idle" => cal = "off"
  /\ pc # "measure" => stage \in {"off", "over"}
  /\ 1 \notin dirs \/ pc \in Preparing \cup {"record"} \/ (pc = "next" /\ at > 1) => Clear
  /\ stage \in Early => ~sound
  /\ stage \in Early \/ (stage = "stop" /\ sound) => up \cap {"server", "sampler"} \subseteq held
  /\ stage = "over" /\ sound /\ ~flaws => Clear
  /\ pc = "telemetry" \/ (pc \in {"cleanup", "judge"} /\ good) => sound /\ stage = "over"

\* What has been set up is held until the end.
HeldInv ==
  /\ stage \in {"server", "client"} => loaded
  /\ loaded /\ stage \in {"client", "sampler", "probe", "origin", "window"} => "server" \in held
  /\ loaded /\ stage \in {"sampler", "probe", "origin", "window"} => "client" \in held
  /\ stage \in {"probe", "origin", "window"} => "sampler" \in held
  /\ stage \in {"origin", "window"} => "probe" \in held

\* What was missing in the window is noticed there, or the pods are others in
\* the end.
GapInv ==
  /\ stage \in {"server", "client", "sampler", "probe", "origin", "window"} /\ epoch = stable
       => "route" \in up
  /\ stage = "window" /\ gap => ~(Needed \subseteq up)
  /\ stage = "post" /\ gap => epoch # stable
  /\ pc \in {"measure", "telemetry"} \/ (pc = "cleanup" /\ good) =>
       (stage \in {"stop", "over"} /\ sound /\ gap => epoch # stable)
  /\ pc = "judge" /\ iot[at] = "ready" => ~gap
-----------------------------------------------------------------------------
\* The types, apart.
EpochTypes == epoch \in Nat /\ ue \in 1..epoch /\ drifts \in 0..MaxDrifts /\ stable \in 0..epoch

StageTypes ==
  /\ loaded \in BOOLEAN /\ stage \in Stages /\ sound \in BOOLEAN
  /\ flaws \in BOOLEAN /\ gap \in BOOLEAN

UpTypes == up \subseteq Instruments /\ held \subseteq Instruments

BenchTypes ==
  /\ cal \in {"off", "route", "serve", "measure", "stop", "unroute"}
  /\ calOwns \in BOOLEAN /\ calibrations \in 0..MaxCalibrations

CommandTypes ==
  /\ patched \in BOOLEAN /\ objects \subseteq {0} \cup Runs
  /\ pc \in Places /\ at \in 1..(N + 1) /\ good \in BOOLEAN
  /\ observed \subseteq Runs /\ patchRequested \in BOOLEAN
  /\ objectsRequested \in BOOLEAN /\ failed \in BOOLEAN

FileTypes ==
  /\ dirs \subseteq Runs /\ iot \in [Runs -> {"none", "failed", "ready"}]
  /\ summary \in [Runs -> {"none", "invalid", "unscientific", "valid"}]
  /\ result \in [completed : 0..N, failed : 0..N]
  /\ analysis \in BOOLEAN

EvidenceTypes ==
  /\ evidence \in [status : {"none", "initializing", "active", "complete", "aborted",
                             "incomplete", "cleanup-failed"}, patched : BOOLEAN]
  /\ kills \in 0..MaxKills

EpochsTypes == epochs \in [Runs -> SUBSET Nat]

LEMMA Constants ==
  /\ N \in Nat /\ N >= 1 /\ Runs = 1..N /\ Loaded \subseteq Runs /\ 1 \in Runs
  /\ MaxDrifts \in Nat /\ MaxCalibrations \in Nat /\ MaxKills \in Nat
  BY CampaignAssumption, MeasurementAssumption DEF Runs

Types == /\ EpochTypes /\ StageTypes /\ UpTypes /\ BenchTypes
         /\ CommandTypes /\ FileTypes /\ EvidenceTypes /\ EpochsTypes

LEMMA Parts == TypeOK <=> Types
  BY Zenon DEF TypeOK, Types, EpochTypes, StageTypes, UpTypes, BenchTypes, CommandTypes,
     FileTypes, EvidenceTypes, EpochsTypes

LEMMA EpochTypesStep == EpochTypes /\ [Next]_vars => EpochTypes'
  <1> SUFFICES ASSUME EpochTypes, [Next]_vars PROVE EpochTypes'
    OBVIOUS
  <1> USE Constants DEF pod, lifecycle, bench, measurement, cluster, memory, runFiles, history, EpochTypes
  <1>1. CASE Enter
    BY <1>1 DEF Enter, Progress
  <1>2. CASE Refuse
    BY <1>2 DEF Refuse
  <1>3. CASE StartRun
    BY <1>3 DEF StartRun
  <1>4. CASE Fail
    BY <1>4 DEF Fail
  <1>5. CASE ApplyObjects
    BY <1>5 DEF ApplyObjects, Progress
  <1>6. CASE Patch
    BY <1>6 DEF Patch
  <1>7. CASE Reconcile
    BY <1>7 DEF Reconcile, Reset, Progress
  <1>7a. CASE ReconcileFails
    BY <1>7a DEF ReconcileFails, Reset
  <1>8. CASE Configure
    BY <1>8 DEF Configure, Progress
  <1>9. CASE StartTransport
    BY <1>9 DEF StartTransport, BeginMeasurement
  <1>10. CASE Measured
    BY <1>10 DEF Measured
  <1>11. CASE AcceptTelemetry
    BY <1>11 DEF AcceptTelemetry
  <1>12. CASE CleanUp
    BY <1>12 DEF CleanUp, Reset, Progress
  <1>13. CASE Judge
    BY <1>13 DEF Judge, Verdict, PathValid
  <1>14. CASE Record
    BY <1>14 DEF Record
  <1>14a. CASE Mismatch
    BY <1>14a DEF Mismatch
  <1>15. CASE RecordFailure
    BY <1>15 DEF RecordFailure
  <1>16. CASE AllRecorded
    BY <1>16 DEF AllRecorded
  <1>17. CASE Restore
    BY <1>17 DEF Restore, Close, Unpatched, Ending
  <1>18. CASE RestoreFails
    BY <1>18 DEF RestoreFails, Close, Unpatched
  <1>19. CASE Analyze
    BY <1>19 DEF Analyze
  <1>20. CASE Kill
    BY <1>20 DEF Kill
  <1>21. CASE MeasureRun
    <2>1. CASE InstallRoute
      BY <1>21, <2>1 DEF MeasureRun, InstallRoute
    <2>2. CASE ProvePath
      BY <1>21, <2>2 DEF MeasureRun, ProvePath
    <2>3. CASE StartInstrument
      BY <1>21, <2>3 DEF MeasureRun, StartInstrument
    <2>4. CASE SetUpFails
      BY <1>21, <2>4 DEF MeasureRun, SetUpFails
    <2>5. CASE OpenWindow
      BY <1>21, <2>5 DEF MeasureRun, OpenWindow
    <2>6. CASE CloseWindow
      BY <1>21, <2>6 DEF MeasureRun, CloseWindow
    <2>7. CASE ProveAgain
      BY <1>21, <2>7 DEF MeasureRun, ProveAgain
    <2>8. CASE MeasurementFails
      BY <1>21, <2>8 DEF MeasureRun, MeasurementFails
    <2>9. CASE StopInstruments
      BY <1>21, <2>9 DEF MeasureRun, StopInstruments
    <2> QED
      BY <1>21, <2>1, <2>2, <2>3, <2>4, <2>5, <2>6, <2>7, <2>8, <2>9 DEF MeasureRun, Measure
  <1>22. CASE Surroundings
    <2>1. CASE Drift
      BY <1>22, <2>1 DEF Surroundings, Drift, Noticed
    <2>1a. CASE GnbDrift
      BY <1>22, <2>1a DEF Surroundings, GnbDrift, Noticed
    <2>2. ASSUME NEW i \in Instruments, InstrumentEnds(i) PROVE EpochTypes'
      BY <1>22, <2>2 DEF Surroundings, InstrumentEnds, Noticed
    <2> QED
      BY <1>22, <2>1, <2>1a, <2>2 DEF Surroundings
  <1>23. CASE CalibrateCapacity
    <2>1. CASE CalStart
      BY <1>23, <2>1 DEF CalibrateCapacity, CalStart, Reset, Noticed
    <2>2. CASE CalServe
      BY <1>23, <2>2 DEF CalibrateCapacity, CalServe, CalGoto
    <2>3. CASE CalMeasure
      BY <1>23, <2>3 DEF CalibrateCapacity, CalMeasure, CalGoto
    <2>4. CASE CalStop
      BY <1>23, <2>4 DEF CalibrateCapacity, CalStop, CalGoto
    <2>5. CASE CalUnroute
      BY <1>23, <2>5 DEF CalibrateCapacity, CalUnroute, CalGoto, Noticed
    <2>6. CASE CalRoute
      BY <1>23, <2>6 DEF CalibrateCapacity, CalRoute, CalGoto, Noticed
    <2> QED
      BY <1>23, <2>1, <2>2, <2>3, <2>4, <2>5, <2>6 DEF CalibrateCapacity, Calibrate
  <1>24. CASE UNCHANGED vars
    BY <1>24 DEF vars
  <1> QED
    BY <1>1, <1>2, <1>3, <1>4, <1>5, <1>6, <1>7, <1>7a, <1>8, <1>9, <1>10, <1>11, <1>12, <1>13, <1>14, <1>14a, <1>15, <1>16, <1>17, <1>18, <1>19, <1>20, <1>21, <1>22, <1>23, <1>24 DEF Next

LEMMA StageTypesStep == StageTypes /\ [Next]_vars => StageTypes'
  <1> SUFFICES ASSUME StageTypes, [Next]_vars PROVE StageTypes'
    OBVIOUS
  <1> USE Constants DEF pod, lifecycle, bench, measurement, cluster, memory, runFiles, history, StageTypes, Stages, SetUps, Instruments, After
  <1>1. CASE Enter
    BY <1>1 DEF Enter, Progress
  <1>2. CASE Refuse
    BY <1>2 DEF Refuse
  <1>3. CASE StartRun
    BY <1>3 DEF StartRun
  <1>4. CASE Fail
    BY <1>4 DEF Fail
  <1>5. CASE ApplyObjects
    BY <1>5 DEF ApplyObjects, Progress
  <1>6. CASE Patch
    BY <1>6 DEF Patch
  <1>7. CASE Reconcile
    BY <1>7 DEF Reconcile, Reset, Progress
  <1>7a. CASE ReconcileFails
    BY <1>7a DEF ReconcileFails, Reset
  <1>8. CASE Configure
    BY <1>8 DEF Configure, Progress
  <1>9. CASE StartTransport
    <2>1. stage' = "route" /\ sound' = FALSE /\ flaws' = FALSE /\ gap' = FALSE
      BY <1>9 DEF StartTransport, BeginMeasurement
    <2>2. loaded' \in BOOLEAN
      <3>1. loaded' = (at \in Loaded)
        BY <1>9 DEF StartTransport, BeginMeasurement
      <3> QED
        BY ONLY <3>1
    <2> QED
      BY <2>1, <2>2
  <1>10. CASE Measured
    BY <1>10 DEF Measured
  <1>11. CASE AcceptTelemetry
    BY <1>11 DEF AcceptTelemetry
  <1>12. CASE CleanUp
    BY <1>12 DEF CleanUp, Reset, Progress
  <1>13. CASE Judge
    BY <1>13 DEF Judge, Verdict, PathValid
  <1>14. CASE Record
    BY <1>14 DEF Record
  <1>14a. CASE Mismatch
    BY <1>14a DEF Mismatch
  <1>15. CASE RecordFailure
    BY <1>15 DEF RecordFailure
  <1>16. CASE AllRecorded
    BY <1>16 DEF AllRecorded
  <1>17. CASE Restore
    BY <1>17 DEF Restore, Close, Unpatched, Ending
  <1>18. CASE RestoreFails
    BY <1>18 DEF RestoreFails, Close, Unpatched
  <1>19. CASE Analyze
    BY <1>19 DEF Analyze
  <1>20. CASE Kill
    BY <1>20 DEF Kill
  <1>21. CASE MeasureRun
    <2>1. CASE InstallRoute
      BY <1>21, <2>1 DEF MeasureRun, InstallRoute
    <2>2. CASE ProvePath
      BY <1>21, <2>2 DEF MeasureRun, ProvePath
    <2>3. CASE StartInstrument
      BY <1>21, <2>3 DEF MeasureRun, StartInstrument
    <2>4. CASE SetUpFails
      BY <1>21, <2>4 DEF MeasureRun, SetUpFails
    <2>5. CASE OpenWindow
      BY <1>21, <2>5 DEF MeasureRun, OpenWindow
    <2>6. CASE CloseWindow
      BY <1>21, <2>6 DEF MeasureRun, CloseWindow
    <2>7. CASE ProveAgain
      BY <1>21, <2>7 DEF MeasureRun, ProveAgain
    <2>8. CASE MeasurementFails
      BY <1>21, <2>8 DEF MeasureRun, MeasurementFails
    <2>9. CASE StopInstruments
      BY <1>21, <2>9 DEF MeasureRun, StopInstruments
    <2> QED
      BY <1>21, <2>1, <2>2, <2>3, <2>4, <2>5, <2>6, <2>7, <2>8, <2>9 DEF MeasureRun, Measure
  <1>22. CASE Surroundings
    <2>1. CASE Drift
      BY <1>22, <2>1 DEF Surroundings, Drift, Noticed
    <2>1a. CASE GnbDrift
      BY <1>22, <2>1a DEF Surroundings, GnbDrift, Noticed
    <2>2. ASSUME NEW i \in Instruments, InstrumentEnds(i) PROVE StageTypes'
      BY <1>22, <2>2 DEF Surroundings, InstrumentEnds, Noticed
    <2> QED
      BY <1>22, <2>1, <2>1a, <2>2 DEF Surroundings
  <1>23. CASE CalibrateCapacity
    <2>1. CASE CalStart
      BY <1>23, <2>1 DEF CalibrateCapacity, CalStart, Reset, Noticed
    <2>2. CASE CalServe
      BY <1>23, <2>2 DEF CalibrateCapacity, CalServe, CalGoto
    <2>3. CASE CalMeasure
      BY <1>23, <2>3 DEF CalibrateCapacity, CalMeasure, CalGoto
    <2>4. CASE CalStop
      BY <1>23, <2>4 DEF CalibrateCapacity, CalStop, CalGoto
    <2>5. CASE CalUnroute
      BY <1>23, <2>5 DEF CalibrateCapacity, CalUnroute, CalGoto, Noticed
    <2>6. CASE CalRoute
      BY <1>23, <2>6 DEF CalibrateCapacity, CalRoute, CalGoto, Noticed
    <2> QED
      BY <1>23, <2>1, <2>2, <2>3, <2>4, <2>5, <2>6 DEF CalibrateCapacity, Calibrate
  <1>24. CASE UNCHANGED vars
    BY <1>24 DEF vars
  <1> QED
    BY <1>1, <1>2, <1>3, <1>4, <1>5, <1>6, <1>7, <1>7a, <1>8, <1>9, <1>10, <1>11, <1>12, <1>13, <1>14, <1>14a, <1>15, <1>16, <1>17, <1>18, <1>19, <1>20, <1>21, <1>22, <1>23, <1>24 DEF Next

LEMMA UpTypesStep == UpTypes /\ [Next]_vars => UpTypes'
  <1> SUFFICES ASSUME UpTypes, [Next]_vars PROVE UpTypes'
    OBVIOUS
  <1> USE Constants DEF pod, lifecycle, bench, measurement, cluster, memory, runFiles, history, UpTypes, Instruments, InPod
  <1>1. CASE Enter
    BY <1>1 DEF Enter, Progress
  <1>2. CASE Refuse
    BY <1>2 DEF Refuse
  <1>3. CASE StartRun
    BY <1>3 DEF StartRun
  <1>4. CASE Fail
    BY <1>4 DEF Fail
  <1>5. CASE ApplyObjects
    BY <1>5 DEF ApplyObjects, Progress
  <1>6. CASE Patch
    BY <1>6 DEF Patch
  <1>7. CASE Reconcile
    BY <1>7 DEF Reconcile, Reset, Progress
  <1>7a. CASE ReconcileFails
    BY <1>7a DEF ReconcileFails, Reset
  <1>8. CASE Configure
    BY <1>8 DEF Configure, Progress
  <1>9. CASE StartTransport
    BY <1>9 DEF StartTransport, BeginMeasurement
  <1>10. CASE Measured
    BY <1>10 DEF Measured
  <1>11. CASE AcceptTelemetry
    BY <1>11 DEF AcceptTelemetry
  <1>12. CASE CleanUp
    BY <1>12 DEF CleanUp, Reset, Progress
  <1>13. CASE Judge
    BY <1>13 DEF Judge, Verdict, PathValid
  <1>14. CASE Record
    BY <1>14 DEF Record
  <1>14a. CASE Mismatch
    BY <1>14a DEF Mismatch
  <1>15. CASE RecordFailure
    BY <1>15 DEF RecordFailure
  <1>16. CASE AllRecorded
    BY <1>16 DEF AllRecorded
  <1>17. CASE Restore
    BY <1>17 DEF Restore, Close, Unpatched, Ending
  <1>18. CASE RestoreFails
    BY <1>18 DEF RestoreFails, Close, Unpatched
  <1>19. CASE Analyze
    BY <1>19 DEF Analyze
  <1>20. CASE Kill
    BY <1>20 DEF Kill
  <1>21. CASE MeasureRun
    <2>1. CASE InstallRoute
      BY <1>21, <2>1 DEF MeasureRun, InstallRoute
    <2>2. CASE ProvePath
      BY <1>21, <2>2 DEF MeasureRun, ProvePath
    <2>3. CASE StartInstrument
      BY <1>21, <2>3 DEF MeasureRun, StartInstrument
    <2>4. CASE SetUpFails
      <3>1. PICK rest \in Leftover(stage) : up' = up \cup rest[1] /\ held' = held \cup rest[2]
        BY <1>21, <2>4 DEF SetUpFails
      <3>2. stage \in Instruments \cup {"path"}
        BY <1>21, <2>4 DEF SetUpFails, SetUps
      <3>3. rest[1] \subseteq Instruments /\ rest[2] \subseteq Instruments
        BY <3>1, <3>2 DEF Leftover
      <3> QED
        BY <3>1, <3>3
    <2>5. CASE OpenWindow
      BY <1>21, <2>5 DEF MeasureRun, OpenWindow
    <2>6. CASE CloseWindow
      BY <1>21, <2>6 DEF MeasureRun, CloseWindow
    <2>7. CASE ProveAgain
      BY <1>21, <2>7 DEF MeasureRun, ProveAgain
    <2>8. CASE MeasurementFails
      BY <1>21, <2>8 DEF MeasureRun, MeasurementFails
    <2>9. CASE StopInstruments
      BY <1>21, <2>9 DEF MeasureRun, StopInstruments
    <2> QED
      BY <1>21, <2>1, <2>2, <2>3, <2>4, <2>5, <2>6, <2>7, <2>8, <2>9 DEF MeasureRun, Measure
  <1>22. CASE Surroundings
    <2>1. CASE Drift
      BY <1>22, <2>1 DEF Surroundings, Drift, Noticed
    <2>1a. CASE GnbDrift
      BY <1>22, <2>1a DEF Surroundings, GnbDrift, Noticed
    <2>2. ASSUME NEW i \in Instruments, InstrumentEnds(i) PROVE UpTypes'
      BY <1>22, <2>2 DEF Surroundings, InstrumentEnds, Noticed
    <2> QED
      BY <1>22, <2>1, <2>1a, <2>2 DEF Surroundings
  <1>23. CASE CalibrateCapacity
    <2>1. CASE CalStart
      BY <1>23, <2>1 DEF CalibrateCapacity, CalStart, Reset, Noticed
    <2>2. CASE CalServe
      BY <1>23, <2>2 DEF CalibrateCapacity, CalServe, CalGoto
    <2>3. CASE CalMeasure
      BY <1>23, <2>3 DEF CalibrateCapacity, CalMeasure, CalGoto
    <2>4. CASE CalStop
      BY <1>23, <2>4 DEF CalibrateCapacity, CalStop, CalGoto
    <2>5. CASE CalUnroute
      BY <1>23, <2>5 DEF CalibrateCapacity, CalUnroute, CalGoto, Noticed
    <2>6. CASE CalRoute
      BY <1>23, <2>6 DEF CalibrateCapacity, CalRoute, CalGoto, Noticed
    <2> QED
      BY <1>23, <2>1, <2>2, <2>3, <2>4, <2>5, <2>6 DEF CalibrateCapacity, Calibrate
  <1>24. CASE UNCHANGED vars
    BY <1>24 DEF vars
  <1> QED
    BY <1>1, <1>2, <1>3, <1>4, <1>5, <1>6, <1>7, <1>7a, <1>8, <1>9, <1>10, <1>11, <1>12, <1>13, <1>14, <1>14a, <1>15, <1>16, <1>17, <1>18, <1>19, <1>20, <1>21, <1>22, <1>23, <1>24 DEF Next

LEMMA BenchTypesStep == BenchTypes /\ [Next]_vars => BenchTypes'
  <1> SUFFICES ASSUME BenchTypes, [Next]_vars PROVE BenchTypes'
    OBVIOUS
  <1> USE Constants DEF pod, lifecycle, bench, measurement, cluster, memory, runFiles, history, BenchTypes
  <1>1. CASE Enter
    BY <1>1 DEF Enter, Progress
  <1>2. CASE Refuse
    BY <1>2 DEF Refuse
  <1>3. CASE StartRun
    BY <1>3 DEF StartRun
  <1>4. CASE Fail
    BY <1>4 DEF Fail
  <1>5. CASE ApplyObjects
    BY <1>5 DEF ApplyObjects, Progress
  <1>6. CASE Patch
    BY <1>6 DEF Patch
  <1>7. CASE Reconcile
    BY <1>7 DEF Reconcile, Reset, Progress
  <1>7a. CASE ReconcileFails
    BY <1>7a DEF ReconcileFails, Reset
  <1>8. CASE Configure
    BY <1>8 DEF Configure, Progress
  <1>9. CASE StartTransport
    BY <1>9 DEF StartTransport, BeginMeasurement
  <1>10. CASE Measured
    BY <1>10 DEF Measured
  <1>11. CASE AcceptTelemetry
    BY <1>11 DEF AcceptTelemetry
  <1>12. CASE CleanUp
    BY <1>12 DEF CleanUp, Reset, Progress
  <1>13. CASE Judge
    BY <1>13 DEF Judge, Verdict, PathValid
  <1>14. CASE Record
    BY <1>14 DEF Record
  <1>14a. CASE Mismatch
    BY <1>14a DEF Mismatch
  <1>15. CASE RecordFailure
    BY <1>15 DEF RecordFailure
  <1>16. CASE AllRecorded
    BY <1>16 DEF AllRecorded
  <1>17. CASE Restore
    BY <1>17 DEF Restore, Close, Unpatched, Ending
  <1>18. CASE RestoreFails
    BY <1>18 DEF RestoreFails, Close, Unpatched
  <1>19. CASE Analyze
    BY <1>19 DEF Analyze
  <1>20. CASE Kill
    BY <1>20 DEF Kill
  <1>21. CASE MeasureRun
    <2>1. CASE InstallRoute
      BY <1>21, <2>1 DEF MeasureRun, InstallRoute
    <2>2. CASE ProvePath
      BY <1>21, <2>2 DEF MeasureRun, ProvePath
    <2>3. CASE StartInstrument
      BY <1>21, <2>3 DEF MeasureRun, StartInstrument
    <2>4. CASE SetUpFails
      BY <1>21, <2>4 DEF MeasureRun, SetUpFails
    <2>5. CASE OpenWindow
      BY <1>21, <2>5 DEF MeasureRun, OpenWindow
    <2>6. CASE CloseWindow
      BY <1>21, <2>6 DEF MeasureRun, CloseWindow
    <2>7. CASE ProveAgain
      BY <1>21, <2>7 DEF MeasureRun, ProveAgain
    <2>8. CASE MeasurementFails
      BY <1>21, <2>8 DEF MeasureRun, MeasurementFails
    <2>9. CASE StopInstruments
      BY <1>21, <2>9 DEF MeasureRun, StopInstruments
    <2> QED
      BY <1>21, <2>1, <2>2, <2>3, <2>4, <2>5, <2>6, <2>7, <2>8, <2>9 DEF MeasureRun, Measure
  <1>22. CASE Surroundings
    <2>1. CASE Drift
      BY <1>22, <2>1 DEF Surroundings, Drift, Noticed
    <2>1a. CASE GnbDrift
      BY <1>22, <2>1a DEF Surroundings, GnbDrift, Noticed
    <2>2. ASSUME NEW i \in Instruments, InstrumentEnds(i) PROVE BenchTypes'
      BY <1>22, <2>2 DEF Surroundings, InstrumentEnds, Noticed
    <2> QED
      BY <1>22, <2>1, <2>1a, <2>2 DEF Surroundings
  <1>23. CASE CalibrateCapacity
    <2>1. CASE CalStart
      BY <1>23, <2>1 DEF CalStart
    <2>2. CASE CalServe
      BY <1>23, <2>2 DEF CalibrateCapacity, CalServe, CalGoto
    <2>3. CASE CalMeasure
      BY <1>23, <2>3 DEF CalibrateCapacity, CalMeasure, CalGoto
    <2>4. CASE CalStop
      BY <1>23, <2>4 DEF CalibrateCapacity, CalStop, CalGoto
    <2>5. CASE CalUnroute
      BY <1>23, <2>5 DEF CalibrateCapacity, CalUnroute, CalGoto, Noticed
    <2>6. CASE CalRoute
      <3>1. calibrations' \in 0..MaxCalibrations /\ cal' \in {"serve", "off"}
        BY <1>23, <2>6 DEF CalRoute, CalGoto
      <3>2. calOwns' \in BOOLEAN
        BY <1>23, <2>6, Zenon DEF CalRoute
      <3> QED
        BY <3>1, <3>2
    <2> QED
      BY <1>23, <2>1, <2>2, <2>3, <2>4, <2>5, <2>6 DEF CalibrateCapacity, Calibrate
  <1>24. CASE UNCHANGED vars
    BY <1>24 DEF vars
  <1> QED
    BY <1>1, <1>2, <1>3, <1>4, <1>5, <1>6, <1>7, <1>7a, <1>8, <1>9, <1>10, <1>11, <1>12, <1>13, <1>14, <1>14a, <1>15, <1>16, <1>17, <1>18, <1>19, <1>20, <1>21, <1>22, <1>23, <1>24 DEF Next

LEMMA CommandTypesStep == CommandTypes /\ SessionInv /\ [Next]_vars => CommandTypes'
  <1> SUFFICES ASSUME CommandTypes, SessionInv, [Next]_vars PROVE CommandTypes'
    OBVIOUS
  <1> USE Constants DEF pod, lifecycle, bench, measurement, cluster, memory, runFiles, history, CommandTypes, Places, SessionInv, Running
  <1>1. CASE Enter
    <2>1. /\ pc' = "next" /\ at' = 1 /\ good' = FALSE /\ observed' = {}
          /\ patchRequested' = FALSE /\ objectsRequested' = FALSE /\ failed' = FALSE
          /\ UNCHANGED <<patched, objects>>
      BY <1>1 DEF Enter
    <2>2. at' \in 1..(N + 1) /\ observed' \subseteq Runs /\ objects' \subseteq {0} \cup Runs
      BY <2>1
    <2> QED
      BY <2>1, <2>2, Zenon
  <1>2. CASE Refuse
    BY <1>2 DEF Refuse
  <1>3. CASE StartRun
    BY <1>3 DEF StartRun
  <1>4. CASE Fail
    BY <1>4 DEF Fail
  <1>5. CASE ApplyObjects
    BY <1>5 DEF ApplyObjects, Progress
  <1>6. CASE Patch
    BY <1>6 DEF Patch
  <1>7. CASE Reconcile
    BY <1>7 DEF Reconcile, Reset, Progress
  <1>7a. CASE ReconcileFails
    BY <1>7a DEF ReconcileFails, Reset
  <1>8. CASE Configure
    BY <1>8 DEF Configure, Progress
  <1>9. CASE StartTransport
    BY <1>9 DEF StartTransport, BeginMeasurement
  <1>10. CASE Measured
    BY <1>10 DEF Measured
  <1>11. CASE AcceptTelemetry
    BY <1>11 DEF AcceptTelemetry
  <1>12. CASE CleanUp
    BY <1>12 DEF CleanUp, Reset, Progress
  <1>13. CASE Judge
    BY <1>13 DEF Judge, Verdict, PathValid
  <1>14. CASE Record
    BY <1>14 DEF Record
  <1>14a. CASE Mismatch
    BY <1>14a DEF Mismatch
  <1>15. CASE RecordFailure
    BY <1>15 DEF RecordFailure
  <1>16. CASE AllRecorded
    BY <1>16 DEF AllRecorded
  <1>17. CASE Restore
    BY <1>17 DEF Restore, Close, Unpatched, Ending
  <1>18. CASE RestoreFails
    BY <1>18 DEF RestoreFails, Close, Unpatched
  <1>19. CASE Analyze
    BY <1>19 DEF Analyze
  <1>20. CASE Kill
    BY <1>20 DEF Kill
  <1>21. CASE MeasureRun
    <2>1. CASE InstallRoute
      BY <1>21, <2>1 DEF MeasureRun, InstallRoute
    <2>2. CASE ProvePath
      BY <1>21, <2>2 DEF MeasureRun, ProvePath
    <2>3. CASE StartInstrument
      BY <1>21, <2>3 DEF MeasureRun, StartInstrument
    <2>4. CASE SetUpFails
      BY <1>21, <2>4 DEF MeasureRun, SetUpFails
    <2>5. CASE OpenWindow
      BY <1>21, <2>5 DEF MeasureRun, OpenWindow
    <2>6. CASE CloseWindow
      BY <1>21, <2>6 DEF MeasureRun, CloseWindow
    <2>7. CASE ProveAgain
      BY <1>21, <2>7 DEF MeasureRun, ProveAgain
    <2>8. CASE MeasurementFails
      BY <1>21, <2>8 DEF MeasureRun, MeasurementFails
    <2>9. CASE StopInstruments
      BY <1>21, <2>9 DEF MeasureRun, StopInstruments
    <2> QED
      BY <1>21, <2>1, <2>2, <2>3, <2>4, <2>5, <2>6, <2>7, <2>8, <2>9 DEF MeasureRun, Measure
  <1>22. CASE Surroundings
    <2>1. CASE Drift
      BY <1>22, <2>1 DEF Surroundings, Drift, Noticed
    <2>1a. CASE GnbDrift
      BY <1>22, <2>1a DEF Surroundings, GnbDrift, Noticed
    <2>2. ASSUME NEW i \in Instruments, InstrumentEnds(i) PROVE CommandTypes'
      BY <1>22, <2>2 DEF Surroundings, InstrumentEnds, Noticed
    <2> QED
      BY <1>22, <2>1, <2>1a, <2>2 DEF Surroundings
  <1>23. CASE CalibrateCapacity
    <2>1. CASE CalStart
      BY <1>23, <2>1 DEF CalibrateCapacity, CalStart, Reset, Noticed
    <2>2. CASE CalServe
      BY <1>23, <2>2 DEF CalibrateCapacity, CalServe, CalGoto
    <2>3. CASE CalMeasure
      BY <1>23, <2>3 DEF CalibrateCapacity, CalMeasure, CalGoto
    <2>4. CASE CalStop
      BY <1>23, <2>4 DEF CalibrateCapacity, CalStop, CalGoto
    <2>5. CASE CalUnroute
      BY <1>23, <2>5 DEF CalibrateCapacity, CalUnroute, CalGoto, Noticed
    <2>6. CASE CalRoute
      BY <1>23, <2>6 DEF CalibrateCapacity, CalRoute, CalGoto, Noticed
    <2> QED
      BY <1>23, <2>1, <2>2, <2>3, <2>4, <2>5, <2>6 DEF CalibrateCapacity, Calibrate
  <1>24. CASE UNCHANGED vars
    BY <1>24 DEF vars
  <1> QED
    BY <1>1, <1>2, <1>3, <1>4, <1>5, <1>6, <1>7, <1>7a, <1>8, <1>9, <1>10, <1>11, <1>12, <1>13, <1>14, <1>14a, <1>15, <1>16, <1>17, <1>18, <1>19, <1>20, <1>21, <1>22, <1>23, <1>24 DEF Next

LEMMA FileTypesStep == FileTypes /\ CommandTypes /\ SessionInv /\ [Next]_vars => FileTypes'
  <1> SUFFICES ASSUME FileTypes, CommandTypes, SessionInv, [Next]_vars PROVE FileTypes'
    OBVIOUS
  <1> USE Constants DEF pod, lifecycle, bench, measurement, cluster, memory, runFiles, history, FileTypes, CommandTypes, SessionInv, Running
  <1>1. CASE Enter
    BY <1>1 DEF Enter, Progress
  <1>2. CASE Refuse
    BY <1>2 DEF Refuse
  <1>3. CASE StartRun
    BY <1>3 DEF StartRun
  <1>4. CASE Fail
    BY <1>4 DEF Fail
  <1>5. CASE ApplyObjects
    BY <1>5 DEF ApplyObjects, Progress
  <1>6. CASE Patch
    BY <1>6 DEF Patch
  <1>7. CASE Reconcile
    BY <1>7 DEF Reconcile, Reset, Progress
  <1>7a. CASE ReconcileFails
    BY <1>7a DEF ReconcileFails, Reset
  <1>8. CASE Configure
    BY <1>8 DEF Configure, Progress
  <1>9. CASE StartTransport
    BY <1>9 DEF StartTransport, BeginMeasurement
  <1>10. CASE Measured
    BY <1>10 DEF Measured
  <1>11. CASE AcceptTelemetry
    BY <1>11 DEF AcceptTelemetry
  <1>12. CASE CleanUp
    BY <1>12 DEF CleanUp, Reset, Progress
  <1>13. CASE Judge
    BY <1>13 DEF Judge, Verdict, PathValid
  <1>14. CASE Record
    BY <1>14 DEF Record
  <1>14a. CASE Mismatch
    BY <1>14a DEF Mismatch
  <1>15. CASE RecordFailure
    BY <1>15 DEF RecordFailure
  <1>16. CASE AllRecorded
    BY <1>16 DEF AllRecorded
  <1>17. CASE Restore
    BY <1>17 DEF Restore, Close, Unpatched, Ending
  <1>18. CASE RestoreFails
    BY <1>18 DEF RestoreFails, Close, Unpatched
  <1>19. CASE Analyze
    BY <1>19 DEF Analyze
  <1>20. CASE Kill
    BY <1>20 DEF Kill
  <1>21. CASE MeasureRun
    <2>1. CASE InstallRoute
      BY <1>21, <2>1 DEF MeasureRun, InstallRoute
    <2>2. CASE ProvePath
      BY <1>21, <2>2 DEF MeasureRun, ProvePath
    <2>3. CASE StartInstrument
      BY <1>21, <2>3 DEF MeasureRun, StartInstrument
    <2>4. CASE SetUpFails
      BY <1>21, <2>4 DEF MeasureRun, SetUpFails
    <2>5. CASE OpenWindow
      BY <1>21, <2>5 DEF MeasureRun, OpenWindow
    <2>6. CASE CloseWindow
      BY <1>21, <2>6 DEF MeasureRun, CloseWindow
    <2>7. CASE ProveAgain
      BY <1>21, <2>7 DEF MeasureRun, ProveAgain
    <2>8. CASE MeasurementFails
      BY <1>21, <2>8 DEF MeasureRun, MeasurementFails
    <2>9. CASE StopInstruments
      BY <1>21, <2>9 DEF MeasureRun, StopInstruments
    <2> QED
      BY <1>21, <2>1, <2>2, <2>3, <2>4, <2>5, <2>6, <2>7, <2>8, <2>9 DEF MeasureRun, Measure
  <1>22. CASE Surroundings
    <2>1. CASE Drift
      BY <1>22, <2>1 DEF Surroundings, Drift, Noticed
    <2>1a. CASE GnbDrift
      BY <1>22, <2>1a DEF Surroundings, GnbDrift, Noticed
    <2>2. ASSUME NEW i \in Instruments, InstrumentEnds(i) PROVE FileTypes'
      BY <1>22, <2>2 DEF Surroundings, InstrumentEnds, Noticed
    <2> QED
      BY <1>22, <2>1, <2>1a, <2>2 DEF Surroundings
  <1>23. CASE CalibrateCapacity
    <2>1. CASE CalStart
      BY <1>23, <2>1 DEF CalibrateCapacity, CalStart, Reset, Noticed
    <2>2. CASE CalServe
      BY <1>23, <2>2 DEF CalibrateCapacity, CalServe, CalGoto
    <2>3. CASE CalMeasure
      BY <1>23, <2>3 DEF CalibrateCapacity, CalMeasure, CalGoto
    <2>4. CASE CalStop
      BY <1>23, <2>4 DEF CalibrateCapacity, CalStop, CalGoto
    <2>5. CASE CalUnroute
      BY <1>23, <2>5 DEF CalibrateCapacity, CalUnroute, CalGoto, Noticed
    <2>6. CASE CalRoute
      BY <1>23, <2>6 DEF CalibrateCapacity, CalRoute, CalGoto, Noticed
    <2> QED
      BY <1>23, <2>1, <2>2, <2>3, <2>4, <2>5, <2>6 DEF CalibrateCapacity, Calibrate
  <1>24. CASE UNCHANGED vars
    BY <1>24 DEF vars
  <1> QED
    BY <1>1, <1>2, <1>3, <1>4, <1>5, <1>6, <1>7, <1>7a, <1>8, <1>9, <1>10, <1>11, <1>12, <1>13, <1>14, <1>14a, <1>15, <1>16, <1>17, <1>18, <1>19, <1>20, <1>21, <1>22, <1>23, <1>24 DEF Next

LEMMA EvidenceTypesStep == EvidenceTypes /\ CommandTypes /\ [Next]_vars => EvidenceTypes'
  <1> SUFFICES ASSUME EvidenceTypes, CommandTypes, [Next]_vars PROVE EvidenceTypes'
    OBVIOUS
  <1> USE Constants DEF pod, lifecycle, bench, measurement, cluster, memory, runFiles, history, EvidenceTypes, CommandTypes
  <1>1. CASE Enter
    BY <1>1 DEF Enter, Progress
  <1>2. CASE Refuse
    BY <1>2 DEF Refuse
  <1>3. CASE StartRun
    BY <1>3 DEF StartRun
  <1>4. CASE Fail
    BY <1>4 DEF Fail
  <1>5. CASE ApplyObjects
    BY <1>5 DEF ApplyObjects, Progress
  <1>6. CASE Patch
    BY <1>6 DEF Patch
  <1>7. CASE Reconcile
    BY <1>7 DEF Reconcile, Reset, Progress
  <1>7a. CASE ReconcileFails
    BY <1>7a DEF ReconcileFails, Reset
  <1>8. CASE Configure
    BY <1>8 DEF Configure, Progress
  <1>9. CASE StartTransport
    BY <1>9 DEF StartTransport, BeginMeasurement
  <1>10. CASE Measured
    BY <1>10 DEF Measured
  <1>11. CASE AcceptTelemetry
    BY <1>11 DEF AcceptTelemetry
  <1>12. CASE CleanUp
    BY <1>12 DEF CleanUp, Reset, Progress
  <1>13. CASE Judge
    BY <1>13 DEF Judge, Verdict, PathValid
  <1>14. CASE Record
    BY <1>14 DEF Record
  <1>14a. CASE Mismatch
    BY <1>14a DEF Mismatch
  <1>15. CASE RecordFailure
    BY <1>15 DEF RecordFailure
  <1>16. CASE AllRecorded
    BY <1>16 DEF AllRecorded
  <1>17. CASE Restore
    BY <1>17 DEF Restore, Close, Unpatched, Ending
  <1>18. CASE RestoreFails
    BY <1>18 DEF RestoreFails, Close, Unpatched
  <1>19. CASE Analyze
    BY <1>19 DEF Analyze
  <1>20. CASE Kill
    BY <1>20 DEF Kill
  <1>21. CASE MeasureRun
    <2>1. CASE InstallRoute
      BY <1>21, <2>1 DEF MeasureRun, InstallRoute
    <2>2. CASE ProvePath
      BY <1>21, <2>2 DEF MeasureRun, ProvePath
    <2>3. CASE StartInstrument
      BY <1>21, <2>3 DEF MeasureRun, StartInstrument
    <2>4. CASE SetUpFails
      BY <1>21, <2>4 DEF MeasureRun, SetUpFails
    <2>5. CASE OpenWindow
      BY <1>21, <2>5 DEF MeasureRun, OpenWindow
    <2>6. CASE CloseWindow
      BY <1>21, <2>6 DEF MeasureRun, CloseWindow
    <2>7. CASE ProveAgain
      BY <1>21, <2>7 DEF MeasureRun, ProveAgain
    <2>8. CASE MeasurementFails
      BY <1>21, <2>8 DEF MeasureRun, MeasurementFails
    <2>9. CASE StopInstruments
      BY <1>21, <2>9 DEF MeasureRun, StopInstruments
    <2> QED
      BY <1>21, <2>1, <2>2, <2>3, <2>4, <2>5, <2>6, <2>7, <2>8, <2>9 DEF MeasureRun, Measure
  <1>22. CASE Surroundings
    <2>1. CASE Drift
      BY <1>22, <2>1 DEF Surroundings, Drift, Noticed
    <2>1a. CASE GnbDrift
      BY <1>22, <2>1a DEF Surroundings, GnbDrift, Noticed
    <2>2. ASSUME NEW i \in Instruments, InstrumentEnds(i) PROVE EvidenceTypes'
      BY <1>22, <2>2 DEF Surroundings, InstrumentEnds, Noticed
    <2> QED
      BY <1>22, <2>1, <2>1a, <2>2 DEF Surroundings
  <1>23. CASE CalibrateCapacity
    <2>1. CASE CalStart
      BY <1>23, <2>1 DEF CalibrateCapacity, CalStart, Reset, Noticed
    <2>2. CASE CalServe
      BY <1>23, <2>2 DEF CalibrateCapacity, CalServe, CalGoto
    <2>3. CASE CalMeasure
      BY <1>23, <2>3 DEF CalibrateCapacity, CalMeasure, CalGoto
    <2>4. CASE CalStop
      BY <1>23, <2>4 DEF CalibrateCapacity, CalStop, CalGoto
    <2>5. CASE CalUnroute
      BY <1>23, <2>5 DEF CalibrateCapacity, CalUnroute, CalGoto, Noticed
    <2>6. CASE CalRoute
      BY <1>23, <2>6 DEF CalibrateCapacity, CalRoute, CalGoto, Noticed
    <2> QED
      BY <1>23, <2>1, <2>2, <2>3, <2>4, <2>5, <2>6 DEF CalibrateCapacity, Calibrate
  <1>24. CASE UNCHANGED vars
    BY <1>24 DEF vars
  <1> QED
    BY <1>1, <1>2, <1>3, <1>4, <1>5, <1>6, <1>7, <1>7a, <1>8, <1>9, <1>10, <1>11, <1>12, <1>13, <1>14, <1>14a, <1>15, <1>16, <1>17, <1>18, <1>19, <1>20, <1>21, <1>22, <1>23, <1>24 DEF Next

LEMMA EpochsTypesStep == EpochsTypes /\ EpochTypes /\ CommandTypes /\ [Next]_vars => EpochsTypes'
  <1> SUFFICES ASSUME EpochsTypes, EpochTypes, CommandTypes, [Next]_vars PROVE EpochsTypes'
    OBVIOUS
  <1> USE Constants DEF pod, lifecycle, bench, measurement, cluster, memory, runFiles, history, EpochsTypes, EpochTypes, CommandTypes
  <1>1. CASE Enter
    BY <1>1 DEF Enter, Progress
  <1>2. CASE Refuse
    BY <1>2 DEF Refuse
  <1>3. CASE StartRun
    BY <1>3 DEF StartRun
  <1>4. CASE Fail
    BY <1>4 DEF Fail
  <1>5. CASE ApplyObjects
    BY <1>5 DEF ApplyObjects, Progress
  <1>6. CASE Patch
    BY <1>6 DEF Patch
  <1>7. CASE Reconcile
    BY <1>7 DEF Reconcile, Reset, Progress
  <1>7a. CASE ReconcileFails
    BY <1>7a DEF ReconcileFails, Reset
  <1>8. CASE Configure
    BY <1>8 DEF Configure, Progress
  <1>9. CASE StartTransport
    BY <1>9 DEF StartTransport, BeginMeasurement
  <1>10. CASE Measured
    BY <1>10 DEF Measured
  <1>11. CASE AcceptTelemetry
    BY <1>11 DEF AcceptTelemetry
  <1>12. CASE CleanUp
    BY <1>12 DEF CleanUp, Reset, Progress
  <1>13. CASE Judge
    BY <1>13 DEF Judge, Verdict, PathValid
  <1>14. CASE Record
    BY <1>14 DEF Record
  <1>14a. CASE Mismatch
    BY <1>14a DEF Mismatch
  <1>15. CASE RecordFailure
    BY <1>15 DEF RecordFailure
  <1>16. CASE AllRecorded
    BY <1>16 DEF AllRecorded
  <1>17. CASE Restore
    BY <1>17 DEF Restore, Close, Unpatched, Ending
  <1>18. CASE RestoreFails
    BY <1>18 DEF RestoreFails, Close, Unpatched
  <1>19. CASE Analyze
    BY <1>19 DEF Analyze
  <1>20. CASE Kill
    BY <1>20 DEF Kill
  <1>21. CASE MeasureRun
    <2>1. CASE InstallRoute
      BY <1>21, <2>1 DEF MeasureRun, InstallRoute
    <2>2. CASE ProvePath
      BY <1>21, <2>2 DEF MeasureRun, ProvePath
    <2>3. CASE StartInstrument
      BY <1>21, <2>3 DEF MeasureRun, StartInstrument
    <2>4. CASE SetUpFails
      BY <1>21, <2>4 DEF MeasureRun, SetUpFails
    <2>5. CASE OpenWindow
      BY <1>21, <2>5 DEF MeasureRun, OpenWindow
    <2>6. CASE CloseWindow
      BY <1>21, <2>6 DEF MeasureRun, CloseWindow
    <2>7. CASE ProveAgain
      BY <1>21, <2>7 DEF MeasureRun, ProveAgain
    <2>8. CASE MeasurementFails
      BY <1>21, <2>8 DEF MeasureRun, MeasurementFails
    <2>9. CASE StopInstruments
      BY <1>21, <2>9 DEF MeasureRun, StopInstruments
    <2> QED
      BY <1>21, <2>1, <2>2, <2>3, <2>4, <2>5, <2>6, <2>7, <2>8, <2>9 DEF MeasureRun, Measure
  <1>22. CASE Surroundings
    <2>1. CASE Drift \/ GnbDrift
      <3>1. epoch' \in Nat
        BY <1>22, <2>1 DEF Drift, GnbDrift
      <3>2. CASE Measuring
        <4>1. epochs' = [epochs EXCEPT ![at] = @ \cup {epoch'}]
          BY <1>22, <2>1, <3>2 DEF Surroundings, EpochsKept
        <4> QED
          BY <3>1, <4>1
      <3>3. CASE ~Measuring
        BY <1>22, <2>1, <3>3 DEF Surroundings, EpochsKept
      <3> QED
        BY <3>2, <3>3
    <2>2. ASSUME NEW i \in Instruments, InstrumentEnds(i) PROVE EpochsTypes'
      BY <1>22, <2>2 DEF Surroundings, EpochsKept, InstrumentEnds, Noticed
    <2> QED
      BY <1>22, <2>1, <2>2 DEF Surroundings
  <1>23. CASE CalibrateCapacity
    <2>1. CASE CalStart
      <3>1. epoch' \in Nat
        BY <1>23, <2>1 DEF CalStart, Reset
      <3>2. CASE Measuring
        <4>1. epochs' = [epochs EXCEPT ![at] = @ \cup {epoch'}]
          BY <1>23, <2>1, <3>2 DEF CalibrateCapacity, EpochsKept
        <4> QED
          BY <3>1, <4>1
      <3>3. CASE ~Measuring
        BY <1>23, <2>1, <3>3 DEF CalibrateCapacity, EpochsKept
      <3> QED
        BY <3>2, <3>3
    <2>2. CASE CalServe
      BY <1>23, <2>2 DEF CalibrateCapacity, EpochsKept, CalServe, CalGoto
    <2>3. CASE CalMeasure
      BY <1>23, <2>3 DEF CalibrateCapacity, EpochsKept, CalMeasure, CalGoto
    <2>4. CASE CalStop
      BY <1>23, <2>4 DEF CalibrateCapacity, EpochsKept, CalStop, CalGoto
    <2>5. CASE CalUnroute
      BY <1>23, <2>5 DEF CalibrateCapacity, EpochsKept, CalUnroute, CalGoto, Noticed
    <2>6. CASE CalRoute
      BY <1>23, <2>6 DEF CalibrateCapacity, EpochsKept, CalRoute, CalGoto, Noticed
    <2> QED
      BY <1>23, <2>1, <2>2, <2>3, <2>4, <2>5, <2>6 DEF CalibrateCapacity, Calibrate
  <1>24. CASE UNCHANGED vars
    BY <1>24 DEF vars
  <1> QED
    BY <1>1, <1>2, <1>3, <1>4, <1>5, <1>6, <1>7, <1>7a, <1>8, <1>9, <1>10, <1>11, <1>12, <1>13, <1>14, <1>14a, <1>15, <1>16, <1>17, <1>18, <1>19, <1>20, <1>21, <1>22, <1>23, <1>24 DEF Next

LEMMA SessionStep == SessionInv /\ CommandTypes /\ FileTypes /\ [Next]_vars => SessionInv'
  <1> SUFFICES ASSUME SessionInv, CommandTypes, FileTypes, [Next]_vars PROVE SessionInv'
    OBVIOUS
  <1> USE Constants DEF pod, lifecycle, bench, measurement, cluster, memory, runFiles, history, SessionInv, CommandTypes, FileTypes, Running, Places
  <1>1. CASE Enter
    BY <1>1 DEF Enter, Progress
  <1>2. CASE Refuse
    BY <1>2 DEF Refuse
  <1>3. CASE StartRun
    BY <1>3 DEF StartRun
  <1>4. CASE Fail
    BY <1>4 DEF Fail
  <1>5. CASE ApplyObjects
    BY <1>5 DEF ApplyObjects, Progress
  <1>6. CASE Patch
    BY <1>6 DEF Patch
  <1>7. CASE Reconcile
    BY <1>7 DEF Reconcile, Reset, Progress
  <1>7a. CASE ReconcileFails
    BY <1>7a DEF ReconcileFails, Reset
  <1>8. CASE Configure
    BY <1>8 DEF Configure, Progress
  <1>9. CASE StartTransport
    BY <1>9 DEF StartTransport, BeginMeasurement
  <1>10. CASE Measured
    BY <1>10 DEF Measured
  <1>11. CASE AcceptTelemetry
    BY <1>11 DEF AcceptTelemetry
  <1>12. CASE CleanUp
    BY <1>12 DEF CleanUp, Reset, Progress
  <1>13. CASE Judge
    BY <1>13 DEF Judge, Verdict, PathValid
  <1>14. CASE Record
    BY <1>14 DEF Record
  <1>14a. CASE Mismatch
    BY <1>14a DEF Mismatch
  <1>15. CASE RecordFailure
    BY <1>15 DEF RecordFailure
  <1>16. CASE AllRecorded
    BY <1>16 DEF AllRecorded
  <1>17. CASE Restore
    BY <1>17 DEF Restore, Close, Unpatched, Ending
  <1>18. CASE RestoreFails
    BY <1>18 DEF RestoreFails, Close, Unpatched
  <1>19. CASE Analyze
    BY <1>19 DEF Analyze
  <1>20. CASE Kill
    BY <1>20 DEF Kill
  <1>21. CASE MeasureRun
    <2>1. CASE InstallRoute
      BY <1>21, <2>1 DEF MeasureRun, InstallRoute
    <2>2. CASE ProvePath
      BY <1>21, <2>2 DEF MeasureRun, ProvePath
    <2>3. CASE StartInstrument
      BY <1>21, <2>3 DEF MeasureRun, StartInstrument
    <2>4. CASE SetUpFails
      BY <1>21, <2>4 DEF MeasureRun, SetUpFails
    <2>5. CASE OpenWindow
      BY <1>21, <2>5 DEF MeasureRun, OpenWindow
    <2>6. CASE CloseWindow
      BY <1>21, <2>6 DEF MeasureRun, CloseWindow
    <2>7. CASE ProveAgain
      BY <1>21, <2>7 DEF MeasureRun, ProveAgain
    <2>8. CASE MeasurementFails
      BY <1>21, <2>8 DEF MeasureRun, MeasurementFails
    <2>9. CASE StopInstruments
      BY <1>21, <2>9 DEF MeasureRun, StopInstruments
    <2> QED
      BY <1>21, <2>1, <2>2, <2>3, <2>4, <2>5, <2>6, <2>7, <2>8, <2>9 DEF MeasureRun, Measure
  <1>22. CASE Surroundings
    <2>1. CASE Drift
      BY <1>22, <2>1 DEF Surroundings, Drift, Noticed
    <2>1a. CASE GnbDrift
      BY <1>22, <2>1a DEF Surroundings, GnbDrift, Noticed
    <2>2. ASSUME NEW i \in Instruments, InstrumentEnds(i) PROVE SessionInv'
      BY <1>22, <2>2 DEF Surroundings, InstrumentEnds, Noticed
    <2> QED
      BY <1>22, <2>1, <2>1a, <2>2 DEF Surroundings
  <1>23. CASE CalibrateCapacity
    <2>1. CASE CalStart
      BY <1>23, <2>1 DEF CalibrateCapacity, CalStart, Reset, Noticed
    <2>2. CASE CalServe
      BY <1>23, <2>2 DEF CalibrateCapacity, CalServe, CalGoto
    <2>3. CASE CalMeasure
      BY <1>23, <2>3 DEF CalibrateCapacity, CalMeasure, CalGoto
    <2>4. CASE CalStop
      BY <1>23, <2>4 DEF CalibrateCapacity, CalStop, CalGoto
    <2>5. CASE CalUnroute
      BY <1>23, <2>5 DEF CalibrateCapacity, CalUnroute, CalGoto, Noticed
    <2>6. CASE CalRoute
      BY <1>23, <2>6 DEF CalibrateCapacity, CalRoute, CalGoto, Noticed
    <2> QED
      BY <1>23, <2>1, <2>2, <2>3, <2>4, <2>5, <2>6 DEF CalibrateCapacity, Calibrate
  <1>24. CASE UNCHANGED vars
    BY <1>24 DEF vars
  <1> QED
    BY <1>1, <1>2, <1>3, <1>4, <1>5, <1>6, <1>7, <1>7a, <1>8, <1>9, <1>10, <1>11, <1>12, <1>13, <1>14, <1>14a, <1>15, <1>16, <1>17, <1>18, <1>19, <1>20, <1>21, <1>22, <1>23, <1>24 DEF Next

LEMMA CompletionStep == CompletionInv /\ RestoreInv /\ SessionInv /\ CommandTypes /\ FileTypes /\ EvidenceTypes /\ [Next]_vars => CompletionInv'
  <1> SUFFICES ASSUME CompletionInv, RestoreInv, SessionInv, CommandTypes, FileTypes, EvidenceTypes, [Next]_vars PROVE CompletionInv'
    OBVIOUS
  <1> USE Constants DEF pod, lifecycle, bench, measurement, cluster, memory, runFiles, history, CompletionInv, CompleteIsComplete, RestoreInv, SessionInv, CommandTypes, FileTypes, EvidenceTypes, Running, Places
  <1>1. CASE Enter
    BY <1>1 DEF Enter, Progress
  <1>2. CASE Refuse
    BY <1>2 DEF Refuse
  <1>3. CASE StartRun
    BY <1>3 DEF StartRun
  <1>4. CASE Fail
    BY <1>4 DEF Fail
  <1>5. CASE ApplyObjects
    BY <1>5 DEF ApplyObjects, Progress
  <1>6. CASE Patch
    BY <1>6 DEF Patch
  <1>7. CASE Reconcile
    BY <1>7 DEF Reconcile, Reset, Progress
  <1>7a. CASE ReconcileFails
    BY <1>7a DEF ReconcileFails, Reset
  <1>8. CASE Configure
    BY <1>8 DEF Configure, Progress
  <1>9. CASE StartTransport
    BY <1>9 DEF StartTransport, BeginMeasurement
  <1>10. CASE Measured
    BY <1>10 DEF Measured
  <1>11. CASE AcceptTelemetry
    BY <1>11 DEF AcceptTelemetry
  <1>12. CASE CleanUp
    BY <1>12 DEF CleanUp, Reset, Progress
  <1>13. CASE Judge
    BY <1>13 DEF Judge, Verdict, PathValid
  <1>14. CASE Record
    BY <1>14 DEF Record
  <1>14a. CASE Mismatch
    BY <1>14a DEF Mismatch
  <1>15. CASE RecordFailure
    BY <1>15 DEF RecordFailure
  <1>16. CASE AllRecorded
    BY <1>16 DEF AllRecorded
  <1>17. CASE Restore
    BY <1>17 DEF Restore, Close, Unpatched, Ending
  <1>18. CASE RestoreFails
    BY <1>18 DEF RestoreFails, Close, Unpatched
  <1>19. CASE Analyze
    BY <1>19 DEF Analyze
  <1>20. CASE Kill
    BY <1>20 DEF Kill
  <1>21. CASE MeasureRun
    <2>1. CASE InstallRoute
      BY <1>21, <2>1 DEF MeasureRun, InstallRoute
    <2>2. CASE ProvePath
      BY <1>21, <2>2 DEF MeasureRun, ProvePath
    <2>3. CASE StartInstrument
      BY <1>21, <2>3 DEF MeasureRun, StartInstrument
    <2>4. CASE SetUpFails
      BY <1>21, <2>4 DEF MeasureRun, SetUpFails
    <2>5. CASE OpenWindow
      BY <1>21, <2>5 DEF MeasureRun, OpenWindow
    <2>6. CASE CloseWindow
      BY <1>21, <2>6 DEF MeasureRun, CloseWindow
    <2>7. CASE ProveAgain
      BY <1>21, <2>7 DEF MeasureRun, ProveAgain
    <2>8. CASE MeasurementFails
      BY <1>21, <2>8 DEF MeasureRun, MeasurementFails
    <2>9. CASE StopInstruments
      BY <1>21, <2>9 DEF MeasureRun, StopInstruments
    <2> QED
      BY <1>21, <2>1, <2>2, <2>3, <2>4, <2>5, <2>6, <2>7, <2>8, <2>9 DEF MeasureRun, Measure
  <1>22. CASE Surroundings
    <2>1. CASE Drift
      BY <1>22, <2>1 DEF Surroundings, Drift, Noticed
    <2>1a. CASE GnbDrift
      BY <1>22, <2>1a DEF Surroundings, GnbDrift, Noticed
    <2>2. ASSUME NEW i \in Instruments, InstrumentEnds(i) PROVE CompletionInv'
      BY <1>22, <2>2 DEF Surroundings, InstrumentEnds, Noticed
    <2> QED
      BY <1>22, <2>1, <2>1a, <2>2 DEF Surroundings
  <1>23. CASE CalibrateCapacity
    <2>1. CASE CalStart
      BY <1>23, <2>1 DEF CalibrateCapacity, CalStart, Reset, Noticed
    <2>2. CASE CalServe
      BY <1>23, <2>2 DEF CalibrateCapacity, CalServe, CalGoto
    <2>3. CASE CalMeasure
      BY <1>23, <2>3 DEF CalibrateCapacity, CalMeasure, CalGoto
    <2>4. CASE CalStop
      BY <1>23, <2>4 DEF CalibrateCapacity, CalStop, CalGoto
    <2>5. CASE CalUnroute
      BY <1>23, <2>5 DEF CalibrateCapacity, CalUnroute, CalGoto, Noticed
    <2>6. CASE CalRoute
      BY <1>23, <2>6 DEF CalibrateCapacity, CalRoute, CalGoto, Noticed
    <2> QED
      BY <1>23, <2>1, <2>2, <2>3, <2>4, <2>5, <2>6 DEF CalibrateCapacity, Calibrate
  <1>24. CASE UNCHANGED vars
    BY <1>24 DEF vars
  <1> QED
    BY <1>1, <1>2, <1>3, <1>4, <1>5, <1>6, <1>7, <1>7a, <1>8, <1>9, <1>10, <1>11, <1>12, <1>13, <1>14, <1>14a, <1>15, <1>16, <1>17, <1>18, <1>19, <1>20, <1>21, <1>22, <1>23, <1>24 DEF Next

LEMMA RestoreStep == RestoreInv /\ EvidenceTypes /\ CommandTypes /\ [Next]_vars => RestoreInv'
  <1> SUFFICES ASSUME RestoreInv, EvidenceTypes, CommandTypes, [Next]_vars PROVE RestoreInv'
    OBVIOUS
  <1> USE Constants DEF pod, lifecycle, bench, measurement, cluster, memory, runFiles, history, RestoreInv, OwnIsRestored, EvidenceTypes, CommandTypes
  <1>1. CASE Enter
    BY <1>1 DEF Enter, Progress
  <1>2. CASE Refuse
    BY <1>2 DEF Refuse
  <1>3. CASE StartRun
    BY <1>3 DEF StartRun
  <1>4. CASE Fail
    BY <1>4 DEF Fail
  <1>5. CASE ApplyObjects
    BY <1>5 DEF ApplyObjects, Progress
  <1>6. CASE Patch
    BY <1>6 DEF Patch
  <1>7. CASE Reconcile
    BY <1>7 DEF Reconcile, Reset, Progress
  <1>7a. CASE ReconcileFails
    BY <1>7a DEF ReconcileFails, Reset
  <1>8. CASE Configure
    BY <1>8 DEF Configure, Progress
  <1>9. CASE StartTransport
    BY <1>9 DEF StartTransport, BeginMeasurement
  <1>10. CASE Measured
    BY <1>10 DEF Measured
  <1>11. CASE AcceptTelemetry
    BY <1>11 DEF AcceptTelemetry
  <1>12. CASE CleanUp
    BY <1>12 DEF CleanUp, Reset, Progress
  <1>13. CASE Judge
    BY <1>13 DEF Judge, Verdict, PathValid
  <1>14. CASE Record
    BY <1>14 DEF Record
  <1>14a. CASE Mismatch
    BY <1>14a DEF Mismatch
  <1>15. CASE RecordFailure
    BY <1>15 DEF RecordFailure
  <1>16. CASE AllRecorded
    BY <1>16 DEF AllRecorded
  <1>17. CASE Restore
    BY <1>17 DEF Restore, Close, Unpatched, Ending
  <1>18. CASE RestoreFails
    BY <1>18 DEF RestoreFails, Close, Unpatched
  <1>19. CASE Analyze
    BY <1>19 DEF Analyze
  <1>20. CASE Kill
    BY <1>20 DEF Kill
  <1>21. CASE MeasureRun
    <2>1. CASE InstallRoute
      BY <1>21, <2>1 DEF MeasureRun, InstallRoute
    <2>2. CASE ProvePath
      BY <1>21, <2>2 DEF MeasureRun, ProvePath
    <2>3. CASE StartInstrument
      BY <1>21, <2>3 DEF MeasureRun, StartInstrument
    <2>4. CASE SetUpFails
      BY <1>21, <2>4 DEF MeasureRun, SetUpFails
    <2>5. CASE OpenWindow
      BY <1>21, <2>5 DEF MeasureRun, OpenWindow
    <2>6. CASE CloseWindow
      BY <1>21, <2>6 DEF MeasureRun, CloseWindow
    <2>7. CASE ProveAgain
      BY <1>21, <2>7 DEF MeasureRun, ProveAgain
    <2>8. CASE MeasurementFails
      BY <1>21, <2>8 DEF MeasureRun, MeasurementFails
    <2>9. CASE StopInstruments
      BY <1>21, <2>9 DEF MeasureRun, StopInstruments
    <2> QED
      BY <1>21, <2>1, <2>2, <2>3, <2>4, <2>5, <2>6, <2>7, <2>8, <2>9 DEF MeasureRun, Measure
  <1>22. CASE Surroundings
    <2>1. CASE Drift
      BY <1>22, <2>1 DEF Surroundings, Drift, Noticed
    <2>1a. CASE GnbDrift
      BY <1>22, <2>1a DEF Surroundings, GnbDrift, Noticed
    <2>2. ASSUME NEW i \in Instruments, InstrumentEnds(i) PROVE RestoreInv'
      BY <1>22, <2>2 DEF Surroundings, InstrumentEnds, Noticed
    <2> QED
      BY <1>22, <2>1, <2>1a, <2>2 DEF Surroundings
  <1>23. CASE CalibrateCapacity
    <2>1. CASE CalStart
      BY <1>23, <2>1 DEF CalibrateCapacity, CalStart, Reset, Noticed
    <2>2. CASE CalServe
      BY <1>23, <2>2 DEF CalibrateCapacity, CalServe, CalGoto
    <2>3. CASE CalMeasure
      BY <1>23, <2>3 DEF CalibrateCapacity, CalMeasure, CalGoto
    <2>4. CASE CalStop
      BY <1>23, <2>4 DEF CalibrateCapacity, CalStop, CalGoto
    <2>5. CASE CalUnroute
      BY <1>23, <2>5 DEF CalibrateCapacity, CalUnroute, CalGoto, Noticed
    <2>6. CASE CalRoute
      BY <1>23, <2>6 DEF CalibrateCapacity, CalRoute, CalGoto, Noticed
    <2> QED
      BY <1>23, <2>1, <2>2, <2>3, <2>4, <2>5, <2>6 DEF CalibrateCapacity, Calibrate
  <1>24. CASE UNCHANGED vars
    BY <1>24 DEF vars
  <1> QED
    BY <1>1, <1>2, <1>3, <1>4, <1>5, <1>6, <1>7, <1>7a, <1>8, <1>9, <1>10, <1>11, <1>12, <1>13, <1>14, <1>14a, <1>15, <1>16, <1>17, <1>18, <1>19, <1>20, <1>21, <1>22, <1>23, <1>24 DEF Next

LEMMA PinStep == PinInv /\ SessionInv /\ EpochTypes /\ CommandTypes /\ FileTypes /\ EpochsTypes /\ [Next]_vars => PinInv'
  <1> SUFFICES ASSUME PinInv, SessionInv, EpochTypes, CommandTypes, FileTypes, EpochsTypes, [Next]_vars PROVE PinInv'
    OBVIOUS
  <1> USE Constants DEF pod, lifecycle, bench, measurement, cluster, memory, runFiles, history, PinInv, SessionInv, EpochTypes, CommandTypes, FileTypes, EpochsTypes, Running, Measuring
  <1>1. CASE Enter
    BY <1>1 DEF Enter, Progress
  <1>2. CASE Refuse
    BY <1>2 DEF Refuse
  <1>3. CASE StartRun
    BY <1>3 DEF StartRun
  <1>4. CASE Fail
    BY <1>4 DEF Fail
  <1>5. CASE ApplyObjects
    BY <1>5 DEF ApplyObjects, Progress
  <1>6. CASE Patch
    BY <1>6 DEF Patch
  <1>7. CASE Reconcile
    BY <1>7 DEF Reconcile, Reset, Progress
  <1>7a. CASE ReconcileFails
    BY <1>7a DEF ReconcileFails, Reset
  <1>8. CASE Configure
    BY <1>8 DEF Configure, Progress
  <1>9. CASE StartTransport
    BY <1>9 DEF StartTransport, BeginMeasurement
  <1>10. CASE Measured
    BY <1>10 DEF Measured
  <1>11. CASE AcceptTelemetry
    BY <1>11 DEF AcceptTelemetry
  <1>12. CASE CleanUp
    BY <1>12 DEF CleanUp, Reset, Progress
  <1>13. CASE Judge
    BY <1>13 DEF Judge, Verdict, PathValid
  <1>14. CASE Record
    BY <1>14 DEF Record
  <1>14a. CASE Mismatch
    BY <1>14a DEF Mismatch
  <1>15. CASE RecordFailure
    BY <1>15 DEF RecordFailure
  <1>16. CASE AllRecorded
    BY <1>16 DEF AllRecorded
  <1>17. CASE Restore
    BY <1>17 DEF Restore, Close, Unpatched, Ending
  <1>18. CASE RestoreFails
    BY <1>18 DEF RestoreFails, Close, Unpatched
  <1>19. CASE Analyze
    BY <1>19 DEF Analyze
  <1>20. CASE Kill
    BY <1>20 DEF Kill
  <1>21. CASE MeasureRun
    <2>1. CASE InstallRoute
      BY <1>21, <2>1 DEF MeasureRun, InstallRoute
    <2>2. CASE ProvePath
      BY <1>21, <2>2 DEF MeasureRun, ProvePath
    <2>3. CASE StartInstrument
      BY <1>21, <2>3 DEF MeasureRun, StartInstrument
    <2>4. CASE SetUpFails
      BY <1>21, <2>4 DEF MeasureRun, SetUpFails
    <2>5. CASE OpenWindow
      BY <1>21, <2>5 DEF MeasureRun, OpenWindow
    <2>6. CASE CloseWindow
      BY <1>21, <2>6 DEF MeasureRun, CloseWindow
    <2>7. CASE ProveAgain
      BY <1>21, <2>7 DEF MeasureRun, ProveAgain
    <2>8. CASE MeasurementFails
      BY <1>21, <2>8 DEF MeasureRun, MeasurementFails
    <2>9. CASE StopInstruments
      BY <1>21, <2>9 DEF MeasureRun, StopInstruments
    <2> QED
      BY <1>21, <2>1, <2>2, <2>3, <2>4, <2>5, <2>6, <2>7, <2>8, <2>9 DEF MeasureRun, Measure
  <1>22. CASE Surroundings
    <2>1. CASE Drift
      BY <1>22, <2>1 DEF Surroundings, EpochsKept, Drift, Noticed
    <2>1a. CASE GnbDrift
      BY <1>22, <2>1a DEF Surroundings, EpochsKept, GnbDrift, Noticed
    <2>2. ASSUME NEW i \in Instruments, InstrumentEnds(i) PROVE PinInv'
      BY <1>22, <2>2 DEF Surroundings, EpochsKept, InstrumentEnds, Noticed
    <2> QED
      BY <1>22, <2>1, <2>1a, <2>2 DEF Surroundings
  <1>23. CASE CalibrateCapacity
    <2>1. CASE CalStart
      BY <1>23, <2>1 DEF CalibrateCapacity, EpochsKept, CalStart, Reset, Noticed
    <2>2. CASE CalServe
      BY <1>23, <2>2 DEF CalibrateCapacity, EpochsKept, CalServe, CalGoto
    <2>3. CASE CalMeasure
      BY <1>23, <2>3 DEF CalibrateCapacity, EpochsKept, CalMeasure, CalGoto
    <2>4. CASE CalStop
      BY <1>23, <2>4 DEF CalibrateCapacity, EpochsKept, CalStop, CalGoto
    <2>5. CASE CalUnroute
      BY <1>23, <2>5 DEF CalibrateCapacity, EpochsKept, CalUnroute, CalGoto, Noticed
    <2>6. CASE CalRoute
      BY <1>23, <2>6 DEF CalibrateCapacity, EpochsKept, CalRoute, CalGoto, Noticed
    <2> QED
      BY <1>23, <2>1, <2>2, <2>3, <2>4, <2>5, <2>6 DEF CalibrateCapacity, Calibrate
  <1>24. CASE UNCHANGED vars
    BY <1>24 DEF vars
  <1> QED
    BY <1>1, <1>2, <1>3, <1>4, <1>5, <1>6, <1>7, <1>7a, <1>8, <1>9, <1>10, <1>11, <1>12, <1>13, <1>14, <1>14a, <1>15, <1>16, <1>17, <1>18, <1>19, <1>20, <1>21, <1>22, <1>23, <1>24 DEF Next

LEMMA AgreeStep == AgreeInv /\ PinInv /\ SessionInv /\ CommandTypes /\ FileTypes /\ EpochsTypes /\ [Next]_vars => AgreeInv'
  <1> SUFFICES ASSUME AgreeInv, PinInv, SessionInv, CommandTypes, FileTypes, EpochsTypes, [Next]_vars PROVE AgreeInv'
    OBVIOUS
  <1> USE Constants DEF pod, lifecycle, bench, measurement, cluster, memory, runFiles, history, AgreeInv, PinInv, SessionInv, CommandTypes, FileTypes, EpochsTypes, Infra, Running, Measuring
  <1>1. CASE Enter
    BY <1>1 DEF Enter, Progress
  <1>2. CASE Refuse
    BY <1>2 DEF Refuse
  <1>3. CASE StartRun
    BY <1>3 DEF StartRun
  <1>4. CASE Fail
    BY <1>4 DEF Fail
  <1>5. CASE ApplyObjects
    BY <1>5 DEF ApplyObjects, Progress
  <1>6. CASE Patch
    BY <1>6 DEF Patch
  <1>7. CASE Reconcile
    BY <1>7 DEF Reconcile, Reset, Progress
  <1>7a. CASE ReconcileFails
    BY <1>7a DEF ReconcileFails, Reset
  <1>8. CASE Configure
    BY <1>8 DEF Configure, Progress
  <1>9. CASE StartTransport
    BY <1>9 DEF StartTransport, BeginMeasurement
  <1>10. CASE Measured
    BY <1>10 DEF Measured
  <1>11. CASE AcceptTelemetry
    BY <1>11 DEF AcceptTelemetry
  <1>12. CASE CleanUp
    BY <1>12 DEF CleanUp, Reset, Progress
  <1>13. CASE Judge
    <2>1. /\ at \in Runs /\ summary[at] = "none" /\ pc = "judge"
          /\ UNCHANGED <<epochs, stable, analysis, at>> /\ pc' \in {"record", "failed"}
      BY <1>13 DEF Judge, Verdict
    <2>2. ~analysis
      BY <2>1
    <2>3. CASE UNCHANGED summary
      BY <2>1, <2>3
    <2>4. ASSUME NEW v \in {"invalid", "valid", "unscientific"}, Verdict(v),
                 v # "invalid" => PathValid
          PROVE  AgreeInv'
      <3>1. summary' = [summary EXCEPT ![at] = v]
        BY <2>4 DEF Verdict
      <3>2. v # "invalid" => stable # 0 /\ epochs[at] \subseteq {stable}
        BY <2>1, <2>4 DEF PathValid
      <3>3. \A r \in Runs : Infra(r)' => stable # 0 /\ epochs[r] \subseteq {stable}
        <4> SUFFICES ASSUME NEW r \in Runs, Infra(r)'
                     PROVE  stable # 0 /\ epochs[r] \subseteq {stable}
          OBVIOUS
        <4>1. CASE r = at
          BY <2>1, <3>1, <3>2, <4>1
        <4>2. CASE r # at
          BY <2>1, <3>1, <4>2
        <4> QED
          BY <4>1, <4>2
      <3> QED
        BY <2>1, <2>2, <3>3
    <2> QED
      BY <1>13, <2>3, <2>4 DEF Judge
  <1>14. CASE Record
    BY <1>14 DEF Record
  <1>14a. CASE Mismatch
    BY <1>14a DEF Mismatch
  <1>15. CASE RecordFailure
    BY <1>15 DEF RecordFailure
  <1>16. CASE AllRecorded
    BY <1>16 DEF AllRecorded
  <1>17. CASE Restore
    BY <1>17 DEF Restore, Close, Unpatched, Ending
  <1>18. CASE RestoreFails
    BY <1>18 DEF RestoreFails, Close, Unpatched
  <1>19. CASE Analyze
    BY <1>19 DEF Analyze
  <1>20. CASE Kill
    BY <1>20 DEF Kill
  <1>21. CASE MeasureRun
    <2>1. CASE InstallRoute
      BY <1>21, <2>1 DEF MeasureRun, InstallRoute
    <2>2. CASE ProvePath
      BY <1>21, <2>2 DEF MeasureRun, ProvePath
    <2>3. CASE StartInstrument
      BY <1>21, <2>3 DEF MeasureRun, StartInstrument
    <2>4. CASE SetUpFails
      BY <1>21, <2>4 DEF MeasureRun, SetUpFails
    <2>5. CASE OpenWindow
      BY <1>21, <2>5 DEF MeasureRun, OpenWindow
    <2>6. CASE CloseWindow
      BY <1>21, <2>6 DEF MeasureRun, CloseWindow
    <2>7. CASE ProveAgain
      BY <1>21, <2>7 DEF MeasureRun, ProveAgain
    <2>8. CASE MeasurementFails
      BY <1>21, <2>8 DEF MeasureRun, MeasurementFails
    <2>9. CASE StopInstruments
      BY <1>21, <2>9 DEF MeasureRun, StopInstruments
    <2> QED
      BY <1>21, <2>1, <2>2, <2>3, <2>4, <2>5, <2>6, <2>7, <2>8, <2>9 DEF MeasureRun, Measure
  <1>22. CASE Surroundings
    <2>1. CASE Drift
      BY <1>22, <2>1 DEF Surroundings, EpochsKept, Drift, Noticed
    <2>1a. CASE GnbDrift
      BY <1>22, <2>1a DEF Surroundings, EpochsKept, GnbDrift, Noticed
    <2>2. ASSUME NEW i \in Instruments, InstrumentEnds(i) PROVE AgreeInv'
      BY <1>22, <2>2 DEF Surroundings, EpochsKept, InstrumentEnds, Noticed
    <2> QED
      BY <1>22, <2>1, <2>1a, <2>2 DEF Surroundings
  <1>23. CASE CalibrateCapacity
    <2>1. CASE CalStart
      BY <1>23, <2>1 DEF CalibrateCapacity, EpochsKept, CalStart, Reset, Noticed
    <2>2. CASE CalServe
      BY <1>23, <2>2 DEF CalibrateCapacity, EpochsKept, CalServe, CalGoto
    <2>3. CASE CalMeasure
      BY <1>23, <2>3 DEF CalibrateCapacity, EpochsKept, CalMeasure, CalGoto
    <2>4. CASE CalStop
      BY <1>23, <2>4 DEF CalibrateCapacity, EpochsKept, CalStop, CalGoto
    <2>5. CASE CalUnroute
      BY <1>23, <2>5 DEF CalibrateCapacity, EpochsKept, CalUnroute, CalGoto, Noticed
    <2>6. CASE CalRoute
      BY <1>23, <2>6 DEF CalibrateCapacity, EpochsKept, CalRoute, CalGoto, Noticed
    <2> QED
      BY <1>23, <2>1, <2>2, <2>3, <2>4, <2>5, <2>6 DEF CalibrateCapacity, Calibrate
  <1>24. CASE UNCHANGED vars
    BY <1>24 DEF vars
  <1> QED
    BY <1>1, <1>2, <1>3, <1>4, <1>5, <1>6, <1>7, <1>7a, <1>8, <1>9, <1>10, <1>11, <1>12, <1>13, <1>14, <1>14a, <1>15, <1>16, <1>17, <1>18, <1>19, <1>20, <1>21, <1>22, <1>23, <1>24 DEF Next

LEMMA HeldStep == HeldInv /\ ClearInv /\ StageTypes /\ [Next]_vars => HeldInv'
  <1> SUFFICES ASSUME HeldInv, ClearInv, StageTypes, [Next]_vars PROVE HeldInv'
    OBVIOUS
  <1> USE Constants DEF pod, lifecycle, bench, measurement, cluster, memory, runFiles, history, HeldInv, ClearInv, StageTypes, After, SetUps, Instruments
  <1>1. CASE Enter
    BY <1>1 DEF Enter, Progress
  <1>2. CASE Refuse
    BY <1>2 DEF Refuse
  <1>3. CASE StartRun
    BY <1>3 DEF StartRun
  <1>4. CASE Fail
    BY <1>4 DEF Fail
  <1>5. CASE ApplyObjects
    BY <1>5 DEF ApplyObjects, Progress
  <1>6. CASE Patch
    BY <1>6 DEF Patch
  <1>7. CASE Reconcile
    BY <1>7 DEF Reconcile, Reset, Progress
  <1>7a. CASE ReconcileFails
    BY <1>7a DEF ReconcileFails, Reset
  <1>8. CASE Configure
    BY <1>8 DEF Configure, Progress
  <1>9. CASE StartTransport
    BY <1>9 DEF StartTransport, BeginMeasurement
  <1>10. CASE Measured
    BY <1>10 DEF Measured
  <1>11. CASE AcceptTelemetry
    BY <1>11 DEF AcceptTelemetry
  <1>12. CASE CleanUp
    BY <1>12 DEF CleanUp, Reset, Progress
  <1>13. CASE Judge
    BY <1>13 DEF Judge, Verdict, PathValid
  <1>14. CASE Record
    BY <1>14 DEF Record
  <1>14a. CASE Mismatch
    BY <1>14a DEF Mismatch
  <1>15. CASE RecordFailure
    BY <1>15 DEF RecordFailure
  <1>16. CASE AllRecorded
    BY <1>16 DEF AllRecorded
  <1>17. CASE Restore
    BY <1>17 DEF Restore, Close, Unpatched, Ending
  <1>18. CASE RestoreFails
    BY <1>18 DEF RestoreFails, Close, Unpatched
  <1>19. CASE Analyze
    BY <1>19 DEF Analyze
  <1>20. CASE Kill
    BY <1>20 DEF Kill
  <1>21. CASE MeasureRun
    <2>1. CASE InstallRoute
      BY <1>21, <2>1 DEF MeasureRun, InstallRoute
    <2>2. CASE ProvePath
      BY <1>21, <2>2 DEF MeasureRun, ProvePath
    <2>3. CASE StartInstrument
      BY <1>21, <2>3 DEF MeasureRun, StartInstrument
    <2>4. CASE SetUpFails
      BY <1>21, <2>4 DEF MeasureRun, SetUpFails
    <2>5. CASE OpenWindow
      BY <1>21, <2>5 DEF MeasureRun, OpenWindow
    <2>6. CASE CloseWindow
      BY <1>21, <2>6 DEF MeasureRun, CloseWindow
    <2>7. CASE ProveAgain
      BY <1>21, <2>7 DEF MeasureRun, ProveAgain
    <2>8. CASE MeasurementFails
      BY <1>21, <2>8 DEF MeasureRun, MeasurementFails
    <2>9. CASE StopInstruments
      BY <1>21, <2>9 DEF MeasureRun, StopInstruments
    <2> QED
      BY <1>21, <2>1, <2>2, <2>3, <2>4, <2>5, <2>6, <2>7, <2>8, <2>9 DEF MeasureRun, Measure
  <1>22. CASE Surroundings
    <2>1. CASE Drift
      BY <1>22, <2>1 DEF Surroundings, Drift, Noticed
    <2>1a. CASE GnbDrift
      BY <1>22, <2>1a DEF Surroundings, GnbDrift, Noticed
    <2>2. ASSUME NEW i \in Instruments, InstrumentEnds(i) PROVE HeldInv'
      BY <1>22, <2>2 DEF Surroundings, InstrumentEnds, Noticed
    <2> QED
      BY <1>22, <2>1, <2>1a, <2>2 DEF Surroundings
  <1>23. CASE CalibrateCapacity
    <2>1. CASE CalStart
      BY <1>23, <2>1 DEF CalibrateCapacity, CalStart, Reset, Noticed
    <2>2. CASE CalServe
      BY <1>23, <2>2 DEF CalibrateCapacity, CalServe, CalGoto
    <2>3. CASE CalMeasure
      BY <1>23, <2>3 DEF CalibrateCapacity, CalMeasure, CalGoto
    <2>4. CASE CalStop
      BY <1>23, <2>4 DEF CalibrateCapacity, CalStop, CalGoto
    <2>5. CASE CalUnroute
      BY <1>23, <2>5 DEF CalibrateCapacity, CalUnroute, CalGoto, Noticed
    <2>6. CASE CalRoute
      BY <1>23, <2>6 DEF CalibrateCapacity, CalRoute, CalGoto, Noticed
    <2> QED
      BY <1>23, <2>1, <2>2, <2>3, <2>4, <2>5, <2>6 DEF CalibrateCapacity, Calibrate
  <1>24. CASE UNCHANGED vars
    BY <1>24 DEF vars
  <1> QED
    BY <1>1, <1>2, <1>3, <1>4, <1>5, <1>6, <1>7, <1>7a, <1>8, <1>9, <1>10, <1>11, <1>12, <1>13, <1>14, <1>14a, <1>15, <1>16, <1>17, <1>18, <1>19, <1>20, <1>21, <1>22, <1>23, <1>24 DEF Next

LEMMA GapStep ==
  Overlap = FALSE /\ GapInv /\ HeldInv /\ ClearInv /\ PinInv /\ SessionInv
    /\ EpochTypes /\ StageTypes /\ CommandTypes /\ FileTypes /\ [Next]_vars => GapInv'
  <1> SUFFICES ASSUME Overlap = FALSE, GapInv, HeldInv, ClearInv, PinInv, SessionInv, EpochTypes, StageTypes,
                      CommandTypes, FileTypes, [Next]_vars
               PROVE  GapInv'
    OBVIOUS
  <1> USE Constants DEF pod, lifecycle, bench, measurement, cluster, memory, runFiles, history, GapInv, HeldInv, ClearInv, EpochTypes, StageTypes, After, SetUps, Instruments, InPod, Needed, Early, Healthy, ProveNetwork, SameUe, PinInv, SessionInv, CommandTypes, FileTypes, Running
  <1>1. CASE Enter
    BY <1>1 DEF Enter, Progress
  <1>2. CASE Refuse
    BY <1>2 DEF Refuse
  <1>3. CASE StartRun
    BY <1>3 DEF StartRun
  <1>4. CASE Fail
    BY <1>4 DEF Fail
  <1>5. CASE ApplyObjects
    BY <1>5 DEF ApplyObjects, Progress
  <1>6. CASE Patch
    BY <1>6 DEF Patch
  <1>7. CASE Reconcile
    BY <1>7 DEF Reconcile, Reset, Progress
  <1>7a. CASE ReconcileFails
    BY <1>7a DEF ReconcileFails, Reset
  <1>8. CASE Configure
    BY <1>8 DEF Configure, Progress
  <1>9. CASE StartTransport
    BY <1>9 DEF StartTransport, BeginMeasurement
  <1>10. CASE Measured
    BY <1>10 DEF Measured
  <1>11. CASE AcceptTelemetry
    BY <1>11 DEF AcceptTelemetry
  <1>12. CASE CleanUp
    BY <1>12 DEF CleanUp, Reset, Progress
  <1>13. CASE Judge
    BY <1>13 DEF Judge, Verdict, PathValid
  <1>14. CASE Record
    BY <1>14 DEF Record
  <1>14a. CASE Mismatch
    BY <1>14a DEF Mismatch
  <1>15. CASE RecordFailure
    BY <1>15 DEF RecordFailure
  <1>16. CASE AllRecorded
    BY <1>16 DEF AllRecorded
  <1>17. CASE Restore
    BY <1>17 DEF Restore, Close, Unpatched, Ending
  <1>18. CASE RestoreFails
    BY <1>18 DEF RestoreFails, Close, Unpatched
  <1>19. CASE Analyze
    BY <1>19 DEF Analyze
  <1>20. CASE Kill
    BY <1>20 DEF Kill
  <1>21. CASE MeasureRun
    <2>1. CASE InstallRoute
      BY <1>21, <2>1 DEF MeasureRun, InstallRoute
    <2>2. CASE ProvePath
      BY <1>21, <2>2 DEF MeasureRun, ProvePath
    <2>3. CASE StartInstrument
      BY <1>21, <2>3 DEF MeasureRun, StartInstrument
    <2>4. CASE SetUpFails
      BY <1>21, <2>4 DEF MeasureRun, SetUpFails
    <2>5. CASE OpenWindow
      BY <1>21, <2>5 DEF MeasureRun, OpenWindow
    <2>6. CASE CloseWindow
      BY <1>21, <2>6 DEF MeasureRun, CloseWindow
    <2>7. CASE ProveAgain
      BY <1>21, <2>7 DEF MeasureRun, ProveAgain
    <2>8. CASE MeasurementFails
      BY <1>21, <2>8 DEF MeasureRun, MeasurementFails
    <2>9. CASE StopInstruments
      BY <1>21, <2>9 DEF MeasureRun, StopInstruments
    <2> QED
      BY <1>21, <2>1, <2>2, <2>3, <2>4, <2>5, <2>6, <2>7, <2>8, <2>9 DEF MeasureRun, Measure
  <1>22. CASE Surroundings
    <2>1. CASE Drift
      BY <1>22, <2>1 DEF Surroundings, Drift, Noticed
    <2>1a. CASE GnbDrift
      BY <1>22, <2>1a DEF Surroundings, GnbDrift, Noticed
    <2>2. ASSUME NEW i \in Instruments, InstrumentEnds(i) PROVE GapInv'
      BY <1>22, <2>2 DEF Surroundings, InstrumentEnds, Noticed
    <2> QED
      BY <1>22, <2>1, <2>1a, <2>2 DEF Surroundings
  <1>23. CASE CalibrateCapacity
    <2>1. CASE CalStart
      BY <1>23, <2>1 DEF CalibrateCapacity, CalStart, Reset, Noticed
    <2>2. CASE CalServe
      BY <1>23, <2>2 DEF CalibrateCapacity, CalServe, CalGoto
    <2>3. CASE CalMeasure
      BY <1>23, <2>3 DEF CalibrateCapacity, CalMeasure, CalGoto
    <2>4. CASE CalStop
      BY <1>23, <2>4 DEF CalibrateCapacity, CalStop, CalGoto
    <2>5. CASE CalUnroute
      BY <1>23, <2>5 DEF CalibrateCapacity, CalUnroute, CalGoto, Noticed
    <2>6. CASE CalRoute
      BY <1>23, <2>6 DEF CalibrateCapacity, CalRoute, CalGoto, Noticed
    <2> QED
      BY <1>23, <2>1, <2>2, <2>3, <2>4, <2>5, <2>6 DEF CalibrateCapacity, Calibrate
  <1>24. CASE UNCHANGED vars
    BY <1>24 DEF vars
  <1> QED
    BY <1>1, <1>2, <1>3, <1>4, <1>5, <1>6, <1>7, <1>7a, <1>8, <1>9, <1>10, <1>11, <1>12, <1>13, <1>14, <1>14a, <1>15, <1>16, <1>17, <1>18, <1>19, <1>20, <1>21, <1>22, <1>23, <1>24 DEF Next

LEMMA ClearStep == Overlap = FALSE /\ ClearInv /\ SessionInv /\ PinInv /\ StageTypes /\ CommandTypes /\ [Next]_vars => ClearInv'
  <1> SUFFICES ASSUME Overlap = FALSE, ClearInv, SessionInv, PinInv, StageTypes, CommandTypes, [Next]_vars PROVE ClearInv'
    OBVIOUS
  <1> USE Constants DEF pod, lifecycle, bench, measurement, cluster, memory, runFiles, history, ClearInv, SessionInv, PinInv, StageTypes, CommandTypes, After, SetUps, Instruments, InPod, Clear, Early, Running, Preparing
  <1>1. CASE Enter
    BY <1>1 DEF Enter, Progress
  <1>2. CASE Refuse
    BY <1>2 DEF Refuse
  <1>3. CASE StartRun
    BY <1>3 DEF StartRun
  <1>4. CASE Fail
    BY <1>4 DEF Fail
  <1>5. CASE ApplyObjects
    BY <1>5 DEF ApplyObjects, Progress
  <1>6. CASE Patch
    BY <1>6 DEF Patch
  <1>7. CASE Reconcile
    BY <1>7 DEF Reconcile, Reset, Progress
  <1>7a. CASE ReconcileFails
    BY <1>7a DEF ReconcileFails, Reset
  <1>8. CASE Configure
    BY <1>8 DEF Configure, Progress
  <1>9. CASE StartTransport
    BY <1>9 DEF StartTransport, BeginMeasurement
  <1>10. CASE Measured
    BY <1>10 DEF Measured
  <1>11. CASE AcceptTelemetry
    BY <1>11 DEF AcceptTelemetry
  <1>12. CASE CleanUp
    BY <1>12 DEF CleanUp, Reset, Progress
  <1>13. CASE Judge
    BY <1>13 DEF Judge, Verdict, PathValid
  <1>14. CASE Record
    BY <1>14 DEF Record
  <1>14a. CASE Mismatch
    BY <1>14a DEF Mismatch
  <1>15. CASE RecordFailure
    BY <1>15 DEF RecordFailure
  <1>16. CASE AllRecorded
    BY <1>16 DEF AllRecorded
  <1>17. CASE Restore
    BY <1>17 DEF Restore, Close, Unpatched, Ending
  <1>18. CASE RestoreFails
    BY <1>18 DEF RestoreFails, Close, Unpatched
  <1>19. CASE Analyze
    BY <1>19 DEF Analyze
  <1>20. CASE Kill
    BY <1>20 DEF Kill
  <1>21. CASE MeasureRun
    <2>1. CASE InstallRoute
      BY <1>21, <2>1 DEF MeasureRun, InstallRoute
    <2>2. CASE ProvePath
      BY <1>21, <2>2 DEF MeasureRun, ProvePath
    <2>3. CASE StartInstrument
      BY <1>21, <2>3 DEF MeasureRun, StartInstrument
    <2>4. CASE SetUpFails
      BY <1>21, <2>4 DEF MeasureRun, SetUpFails
    <2>5. CASE OpenWindow
      BY <1>21, <2>5 DEF MeasureRun, OpenWindow
    <2>6. CASE CloseWindow
      BY <1>21, <2>6 DEF MeasureRun, CloseWindow
    <2>7. CASE ProveAgain
      BY <1>21, <2>7 DEF MeasureRun, ProveAgain
    <2>8. CASE MeasurementFails
      BY <1>21, <2>8 DEF MeasureRun, MeasurementFails
    <2>9. CASE StopInstruments
      BY <1>21, <2>9 DEF MeasureRun, StopInstruments
    <2> QED
      BY <1>21, <2>1, <2>2, <2>3, <2>4, <2>5, <2>6, <2>7, <2>8, <2>9 DEF MeasureRun, Measure
  <1>22. CASE Surroundings
    <2>1. CASE Drift
      BY <1>22, <2>1 DEF Surroundings, Drift, Noticed
    <2>1a. CASE GnbDrift
      BY <1>22, <2>1a DEF Surroundings, GnbDrift, Noticed
    <2>2. ASSUME NEW i \in Instruments, InstrumentEnds(i) PROVE ClearInv'
      BY <1>22, <2>2 DEF Surroundings, InstrumentEnds, Noticed
    <2> QED
      BY <1>22, <2>1, <2>1a, <2>2 DEF Surroundings
  <1>23. CASE CalibrateCapacity
    <2>1. CASE CalStart
      BY <1>23, <2>1 DEF CalibrateCapacity, CalStart, Reset, Noticed
    <2>2. CASE CalServe
      BY <1>23, <2>2 DEF CalibrateCapacity, CalServe, CalGoto
    <2>3. CASE CalMeasure
      BY <1>23, <2>3 DEF CalibrateCapacity, CalMeasure, CalGoto
    <2>4. CASE CalStop
      BY <1>23, <2>4 DEF CalibrateCapacity, CalStop, CalGoto
    <2>5. CASE CalUnroute
      BY <1>23, <2>5 DEF CalibrateCapacity, CalUnroute, CalGoto, Noticed
    <2>6. CASE CalRoute
      BY <1>23, <2>6 DEF CalibrateCapacity, CalRoute, CalGoto, Noticed
    <2> QED
      BY <1>23, <2>1, <2>2, <2>3, <2>4, <2>5, <2>6 DEF CalibrateCapacity, Calibrate
  <1>24. CASE UNCHANGED vars
    BY <1>24 DEF vars
  <1> QED
    BY <1>1, <1>2, <1>3, <1>4, <1>5, <1>6, <1>7, <1>7a, <1>8, <1>9, <1>10, <1>11, <1>12, <1>13, <1>14, <1>14a, <1>15, <1>16, <1>17, <1>18, <1>19, <1>20, <1>21, <1>22, <1>23, <1>24 DEF Next

-----------------------------------------------------------------------------
Inv == TypeOK /\ SessionInv /\ CompletionInv /\ RestoreInv /\ PinInv /\ AgreeInv

\* Where no calibration runs beside a session.
AloneInv == ClearInv /\ HeldInv /\ GapInv

LEMMA TypesInit == Init => TypeOK
  <1> SUFFICES ASSUME Init PROVE Types
    BY Parts
  <1>1. EpochTypes
    BY Constants DEF Init, MeasurementInit, EpochTypes
  <1>2. StageTypes /\ UpTypes
    BY DEF Init, MeasurementInit, StageTypes, UpTypes, Stages
  <1>3. BenchTypes
    <2>1. cal = "off" /\ calOwns = FALSE /\ calibrations = 0
      BY DEF Init, MeasurementInit
    <2>2. calibrations \in 0..MaxCalibrations
      BY <2>1, Constants
    <2> QED
      BY <2>1, <2>2 DEF BenchTypes
  <1>4. CommandTypes
    <2>1. at = 1 /\ observed = {} /\ objects = {}
      BY DEF Init
    <2>2. at \in 1..(N + 1) /\ observed \subseteq Runs /\ objects \subseteq {0} \cup Runs
      BY <2>1, Constants
    <2> QED
      BY <2>2 DEF Init, CommandTypes, Places
  <1>5. FileTypes
    <2>1. result \in [completed : 0..N, failed : 0..N]
      BY Constants DEF Init
    <2> QED
      BY <2>1 DEF Init, FileTypes
  <1>6. EvidenceTypes
    BY Constants DEF Init, EvidenceTypes
  <1>7. EpochsTypes
    BY DEF Init, EpochsTypes
  <1> QED
    BY <1>1, <1>2, <1>3, <1>4, <1>5, <1>6, <1>7 DEF Types

LEMMA InitInv == Init => Inv
  <1> SUFFICES ASSUME Init PROVE Inv
    OBVIOUS
  <1>1. SessionInv
    BY Constants DEF Init, SessionInv, Running
  <1>2. CompletionInv
    BY Constants DEF Init, CompletionInv, CompleteIsComplete
  <1>3. RestoreInv
    BY DEF Init, RestoreInv, OwnIsRestored
  <1>4. PinInv
    BY DEF Init, MeasurementInit, PinInv, Running
  <1>5. AgreeInv
    BY Constants DEF Init, AgreeInv, Infra, Running
  <1> QED
    BY <1>1, <1>2, <1>3, <1>4, <1>5, TypesInit DEF Inv

LEMMA InitAlone == Init => AloneInv
  BY DEF Init, MeasurementInit, AloneInv, ClearInv, HeldInv, GapInv, Clear, Early, SetUps,
     Instruments, Preparing

LEMMA TypesNext ==
  TypeOK /\ SessionInv /\ [Next]_vars => TypeOK'
  <1> SUFFICES ASSUME TypeOK, SessionInv, [Next]_vars PROVE Types'
    BY Zenon DEF TypeOK, Types, EpochTypes, StageTypes, UpTypes, BenchTypes, CommandTypes,
       FileTypes, EvidenceTypes, EpochsTypes
  <1> QED
    BY Parts, EpochTypesStep, StageTypesStep, UpTypesStep, BenchTypesStep, CommandTypesStep,
       FileTypesStep, EvidenceTypesStep, EpochsTypesStep DEF Types

LEMMA Step == Inv /\ [Next]_vars => Inv'
  BY Parts, TypesNext, SessionStep, CompletionStep, RestoreStep, PinStep, AgreeStep DEF Inv, Types

LEMMA AloneStep == Overlap = FALSE /\ Inv /\ AloneInv /\ [Next]_vars => AloneInv'
  BY Parts, HeldStep, GapStep, ClearStep DEF Inv, AloneInv, Types

LEMMA InvHolds == Spec => []Inv
  BY InitInv, Step, PTL DEF Spec

LEMMA AloneHolds == ASSUME Overlap = FALSE PROVE Spec => []AloneInv
  <1>1. Inv /\ AloneInv /\ [Next]_vars => AloneInv'
    BY AloneStep
  <1> QED
    BY InvHolds, InitAlone, <1>1, PTL DEF Spec

-----------------------------------------------------------------------------
\* The state has its types, for every schedule (amber_campaign.py,
\* campaign_runtime.py, amber_runtime.py).
THEOREM TypeCorrect == Spec => []TypeOK
  <1>1. Inv => TypeOK
    BY DEF Inv
  <1> QED
    BY <1>1, InvHolds, PTL

\* What a campaign's analysis compares was measured with one pod and one PDU
\* session, however many commands were killed on the way
\* (CampaignRuntimeSession._reconcile_runtime).
THEOREM AnalysisSharesEpoch == Spec => []AnalysedShareEpoch
  <1>1. Inv => AnalysedShareEpoch
    BY DEF Inv, AgreeInv, AnalysedShareEpoch
  <1> QED
    BY <1>1, InvHolds, PTL

\* A session whose evidence says that it ended well has taken its sidecar and
\* its objects away, if it had put them there (CampaignRuntimeSession.__exit__).
THEOREM OwnRestored == Spec => []OwnIsRestored
  <1>1. Inv => OwnIsRestored
    BY DEF Inv, RestoreInv
  <1> QED
    BY <1>1, InvHolds, PTL

\* Evidence that says complete stands for a result and summaries that are
\* (execute_amber_campaign, _write_evidence).
THEOREM CompleteComplete == Spec => []CompleteIsComplete
  <1>1. Inv => CompleteIsComplete
    BY DEF Inv, CompletionInv
  <1> QED
    BY <1>1, InvHolds, PTL

\* Where no calibration is run beside a campaign, a run that counts had all its
\* instruments throughout its window (AmberResearchMeasurementLifecycle).
THEOREM ValidRunsMeasured == ASSUME Overlap = FALSE PROVE Spec => ValidIsMeasured
  <1> DEFINE Counted ==
        \A r \in Runs : summary'[r] # summary[r] /\ summary'[r] # "invalid" =>
          /\ ~gap
          /\ up \cap {"server", "sampler"} = {}
  <1>1. ASSUME Inv, AloneInv, [Next]_vars PROVE [Counted]_vars
    <2> SUFFICES ASSUME NEW r \in Runs, summary'[r] # summary[r], summary'[r] # "invalid"
                 PROVE  ~gap /\ up \cap {"server", "sampler"} = {}
      OBVIOUS
    <2>1. Judge
      BY <1>1 DEF Next, vars, runFiles, measurement, lifecycle, Enter, Refuse, StartRun, Fail,
         ApplyObjects, Patch, Reconcile, ReconcileFails, Configure, StartTransport, MeasureRun, Measured,
         AcceptTelemetry, CleanUp, Record, Mismatch, RecordFailure, AllRecorded, Restore, RestoreFails,
         Close, Analyze, Kill, Surroundings, CalibrateCapacity
    <2>2. at \in Runs /\ pc = "judge" /\ summary \in [Runs -> {"none", "invalid", "unscientific", "valid"}]
      BY <1>1, <2>1, Parts DEF Judge, Inv, SessionInv, Running, Types, FileTypes
    <2>3. PathValid
      BY <2>1, <2>2 DEF Judge, Verdict
    <2>4. iot[at] = "ready" /\ ~flaws
      BY <2>3 DEF PathValid
    <2>5. good
      BY <1>1, <2>2, <2>4 DEF Inv, PinInv
    <2> QED
      BY <1>1, <2>2, <2>4, <2>5 DEF AloneInv, ClearInv, GapInv, Clear
  <1>2. Inv /\ AloneInv /\ [Next]_vars => [Counted]_vars
    BY <1>1
  <1>3. Spec => []AloneInv
    BY AloneHolds
  <1>4. Spec => [][Counted]_vars
    BY <1>2, <1>3, InvHolds, PTL DEF Spec
  <1> QED
    BY <1>4 DEF ValidIsMeasured

-----------------------------------------------------------------------------
(* The schedule.                                                           *)

\* Only Judge and Analyze write what the schedule is about.
LEMMA SummariesStay ==
  ASSUME [Next]_vars, ~Judge, ~Analyze
  PROVE  UNCHANGED <<summary, analysis>>
  BY DEF Next, vars, runFiles, measurement, lifecycle, Enter, Refuse, StartRun, Fail,
     ApplyObjects, Patch, Reconcile, ReconcileFails, Configure, StartTransport, MeasureRun, Measured,
     AcceptTelemetry, CleanUp, Record, Mismatch, RecordFailure, AllRecorded, Restore, RestoreFails,
     Close, Kill, Surroundings, CalibrateCapacity

LEMMA JudgedInTurn ==
  ASSUME Inv, Judge
  PROVE  [Schedule!Next]_<<summary, analysis>>
  <1>1. pc = "judge" /\ analysis' = analysis
    BY DEF Judge
  <1>2. at \in Runs /\ summary[at] = "none"
    BY <1>1 DEF Inv, SessionInv, Running
  <1>3. \A q \in Runs : q < at => summary[q] = "valid"
    BY <1>1 DEF Inv, CompletionInv
  <1>4. CASE summary' = summary
    BY <1>1, <1>4
  <1>5. ASSUME NEW v \in Schedule!Judgements, Verdict(v)
        PROVE  Schedule!Next
    <2>1. summary' = [summary EXCEPT ![at] = v]
      BY <1>5 DEF Verdict
    <2>2. Schedule!Judge(at, v)
      BY <1>1, <1>2, <1>3, <2>1 DEF Schedule!Judge, Schedule!Scheduled, Runs
    <2> QED
      BY <1>2, <2>2 DEF Schedule!Next, Schedule!Scheduled, Runs
  <1>6. \/ summary' = summary
        \/ \E v \in Schedule!Judgements : Verdict(v)
    BY DEF Judge, Schedule!Judgements
  <1> QED
    BY <1>4, <1>5, <1>6

\* A step of the command is one of its schedule.
LEMMA ScheduledStep ==
  ASSUME Inv, [Next]_vars
  PROVE  [Schedule!Next]_<<summary, analysis>>
  <1>1. CASE Judge
    BY <1>1, JudgedInTurn
  <1>2. CASE Analyze
    <2>1. Schedule!Analyse
      BY <1>2 DEF Analyze, runFiles, Schedule!Analyse, Schedule!Scheduled, Runs
    <2> QED
      BY <2>1 DEF Schedule!Next
  <1>3. CASE ~Judge /\ ~Analyze
    BY <1>3, SummariesStay
  <1> QED
    BY <1>1, <1>2, <1>3

\* Whatever fails, is killed or is given again: runs are judged in the order of
\* the schedule, each once, none after one that was not valid, and only all of
\* them are analysed (execute_amber_campaign, analyze_amber_campaign).
THEOREM ScheduleKept == Spec => KeepsSchedule
  <1>1. Init => Schedule!Init
    BY DEF Init, Schedule!Init, Schedule!Scheduled, Runs
  <1>2. Inv /\ [Next]_vars => [Schedule!Next]_<<summary, analysis>>
    BY ScheduledStep
  <1> QED
    BY <1>1, <1>2, InvHolds, PTL DEF Spec, KeepsSchedule, Schedule!Spec

\* No step of a schedule breaks the prefix of valid runs; where one was not
\* valid, none is judged any more.
LEMMA ScheduleStep ==
  ASSUME DOMAIN summary = Runs, Schedule!PrefixIsValid,
         [Schedule!Next]_<<summary, analysis>>
  PROVE  /\ Schedule!PrefixIsValid'
         /\ \/ \A r \in Runs : summary[r] = "valid"
            \/ \E r \in Runs : summary[r] \in {"invalid", "unscientific"}
            => summary' = summary
  <1>1. CASE summary' = summary
    BY <1>1 DEF Schedule!PrefixIsValid
  <1>2. CASE \E r \in Runs, v \in Schedule!Judgements : Schedule!Judge(r, v)
    <2>1. PICK r \in Runs, v \in Schedule!Judgements : Schedule!Judge(r, v)
      BY <1>2
    <2>2. /\ summary[r] = "none" /\ summary' = [summary EXCEPT ![r] = v]
          /\ \A q \in Runs : q < r => summary[q] = "valid"
      BY <2>1 DEF Schedule!Judge, Schedule!Scheduled, Runs
    <2>3. ASSUME NEW s \in Runs, summary[s] \in {"invalid", "unscientific"} PROVE FALSE
      <3>1. CASE s < r
        BY <2>2, <2>3, <3>1
      <3>2. CASE r < s
        <4>1. summary[s] # "none" => summary[r] = "valid"
          BY <3>2 DEF Schedule!PrefixIsValid, Schedule!Scheduled, Runs
        <4> QED
          BY <2>2, <2>3, <4>1
      <3>3. CASE r = s
        BY <2>2, <2>3, <3>3
      <3> QED
        BY <3>1, <3>2, <3>3, Constants
    <2>4. ASSUME NEW s \in Runs, NEW q \in Runs, summary'[s] # "none", q < s
          PROVE  summary'[q] = "valid"
      <3>1. CASE s = r
        BY <2>2, <2>4, <3>1, Constants
      <3>2. CASE s # r
        <4>1. summary[s] # "none"
          BY <2>2, <2>4, <3>2
        <4>2. summary[q] = "valid"
          BY <2>4, <4>1 DEF Schedule!PrefixIsValid, Schedule!Scheduled, Runs
        <4> QED
          BY <2>2, <4>2
      <3> QED
        BY <3>1, <3>2
    <2>5. Schedule!PrefixIsValid'
      BY <2>4 DEF Schedule!PrefixIsValid, Schedule!Scheduled, Runs
    <2> QED
      BY <2>2, <2>3, <2>5
  <1> QED
    BY <1>1, <1>2 DEF Schedule!Next, Schedule!Analyse, Schedule!Scheduled, Runs

LEMMA SummariesOfRuns == Inv => DOMAIN summary = Runs
  BY Parts DEF Inv, Types, FileTypes

LEMMA PrefixHolds == Spec => []Schedule!PrefixIsValid
  <1>1. Init => Schedule!PrefixIsValid
    BY DEF Init, Schedule!PrefixIsValid, Schedule!Scheduled, Runs
  <1>2. Inv /\ Schedule!PrefixIsValid /\ [Next]_vars => Schedule!PrefixIsValid'
    BY ScheduleStep, ScheduledStep, SummariesOfRuns
  <1> QED
    BY <1>1, <1>2, InvHolds, PTL DEF Spec

\* Behind a run that was not valid nothing is judged any more, in any command,
\* and nothing behind the last (Schedule!EndIsFinal).
THEOREM EndFinal == Spec => Schedule!EndIsFinal
  <1>1. Inv /\ Schedule!PrefixIsValid /\ [Next]_vars =>
          [(\A r \in Schedule!Scheduled : summary[r] = "valid")
           \/ (\E r \in Schedule!Scheduled : summary[r] \in {"invalid", "unscientific"})
           => summary' = summary]_<<summary, analysis>>
    BY ScheduleStep, ScheduledStep, SummariesOfRuns DEF Schedule!Scheduled, Runs
  <1> QED
    BY <1>1, InvHolds, PrefixHolds, PTL DEF Spec, Schedule!EndIsFinal

\* An analysis in spite of the gates is one of a campaign whose last run failed
\* them; all the others are valid (OnlyTheLastIsDoubtful).
THEOREM DoubtIsLimited == Spec => []OnlyTheLastIsDoubtful
  <1>1. ASSUME Inv, Schedule!PrefixIsValid PROVE OnlyTheLastIsDoubtful
    <2> SUFFICES ASSUME analysis, NEW r \in Runs, r # N PROVE summary[r] = "valid"
      BY DEF OnlyTheLastIsDoubtful
    <2>1. N \in Runs /\ r < N
      BY Constants
    <2>2. summary[N] # "none"
      BY <1>1, <2>1 DEF Inv, AgreeInv, Infra
    <2> QED
      BY <1>1, <2>1, <2>2 DEF Schedule!PrefixIsValid, Schedule!Scheduled, Runs
  <1>2. Inv /\ Schedule!PrefixIsValid => OnlyTheLastIsDoubtful
    BY <1>1
  <1> QED
    BY <1>2, InvHolds, PrefixHolds, PTL

-----------------------------------------------------------------------------
(* The command that is given again.                                        *)

LEMMA OverStays ==
  ASSUME Inv, [Next]_vars, Over
  PROVE  /\ Over'
         /\ UNCHANGED <<dirs, iot, summary, epochs, patched, objects>>
         /\ (\E r \in Runs : summary[r] = "none") => ~analysis'
  <1>0. /\ 1 \in dirs /\ pc \in {"idle", "next", "failed", "restore"}
        /\ pc = "idle" \/ (at = 1 /\ ~objectsRequested /\ ~patchRequested)
    BY DEF Over, Inv, SessionInv, RestoreInv
  <1>1. /\ Over'
        /\ UNCHANGED <<dirs, iot, summary, epochs, patched, objects>>
    <2>1. CASE RecordFailure \/ Analyze \/ Kill
      BY <1>0, <2>1 DEF Over, RecordFailure, Analyze, Kill, runFiles, cluster,
                        history, memory
    <2>6. CASE AllRecorded
      BY <1>0, <2>6, Constants DEF AllRecorded
    <2>7. CASE Enter
      <3>1. /\ pc' = "next" /\ at' = 1 /\ ~objectsRequested' /\ dirs' = dirs
            /\ iot' = iot /\ summary' = summary /\ epochs' = epochs
            /\ patched' = patched /\ objects' = objects
        BY <2>7 DEF Enter, runFiles, cluster, history
      <3> QED
        BY <1>0, <3>1 DEF Over
    <2>2. CASE Refuse
      BY <1>0, <2>2 DEF Over, Refuse, cluster, memory, history
    <2>3. CASE Restore \/ RestoreFails
      BY <1>0, <2>3 DEF Over, Restore, RestoreFails, Close, runFiles, history
    <2>4. CASE Surroundings \/ CalibrateCapacity
      BY <1>0, <2>4 DEF Over, Surroundings, CalibrateCapacity, EpochsKept, Measuring, cluster,
                        memory, runFiles
    <2>5. CASE UNCHANGED vars
      BY <2>5 DEF Over, vars
    <2> QED
      BY <1>0, <2>1, <2>2, <2>3, <2>4, <2>5, <2>6, <2>7
         DEF Next, StartRun, Fail, ApplyObjects, Patch, Reconcile, ReconcileFails, Configure,
             StartTransport, MeasureRun, Measured, AcceptTelemetry, CleanUp, Judge, Record, Mismatch
  <1>2. ASSUME NEW r \in Runs, summary[r] = "none" PROVE ~analysis'
    <2>1. ~analysis
      BY <1>2 DEF Inv, AgreeInv, Infra
    <2>2. ~Analyze
      BY <1>2 DEF Analyze
    <2>3. ~Judge
      BY <1>0 DEF Judge
    <2> QED
      BY <2>1, <2>2, <2>3, SummariesStay
  <1> QED
    BY <1>1, <1>2

\* A campaign is measured by one command or not at all (OverForGood): once that
\* command has ended, giving it again neither adds, judges nor takes away.
THEOREM OverIsOver == Spec => OverForGood
  <1>1. Inv /\ [Next]_vars =>
          [Over =>
             /\ Over'
             /\ UNCHANGED <<dirs, iot, summary, epochs, patched, objects>>
             /\ (\E r \in Runs : summary[r] = "none") => ~analysis']_vars
    BY OverStays
  <1> QED
    BY <1>1, InvHolds, PTL DEF Spec, OverForGood
=============================================================================
