---------------------------- MODULE Measurement ----------------------------
(***************************************************************************)
(* The measurement of one research run (AmberResearchMeasurementLifecycle  *)
(* in research/amber_runtime.py, with instrumentation.py, sampling.py and  *)
(* iperf.py): a route to the target in the UE's pod, a load server and its *)
(* client, a sampler thread and a probe are set up one after the other,    *)
(* watched through the window and taken down; errors of the last part are  *)
(* kept, not raised.  Beside it the calibration (research/runtime.py),     *)
(* which uses the same route and the same port.                            *)
(***************************************************************************)
EXTENDS Naturals

CONSTANTS
  MaxDrifts,       \* bound: times a pod of the UE or the gNB is replaced by itself
  MaxCalibrations, \* bound: calibrations
  Overlap          \* a calibration may run while a run measures

ASSUME MeasurementAssumption ==
  MaxDrifts \in Nat /\ MaxCalibrations \in Nat /\ Overlap \in BOOLEAN

VARIABLES
  epoch,    \* UE's pod, gNB's pod and PDU session there are
  ue,       \* the epoch with which the UE's pod has come
  drifts,
  stable,   \* those the command has seen first, or 0
  loaded,   \* the condition of the run has a load
  stage,    \* where the lifecycle is
  sound,    \* run() got through its window and both proofs of the network
  up,       \* instruments that exist on the nodes
  held,     \* instruments the lifecycle will take down
  flaws,    \* instrumentation_errors
  gap,      \* something was missing in the window (history)
  cal, calOwns, calibrations   \* the calibration, and whether the route is its own

pod       == <<epoch, ue, drifts>>
lifecycle == <<loaded, stage, sound, held, flaws, gap>>
bench     == <<cal, calOwns, calibrations>>
measurement == <<epoch, ue, drifts, stable, loaded, stage, sound, up, held, flaws,
                 gap, cal, calOwns, calibrations>>

Instruments == {"route", "server", "client", "sampler", "probe"}
InPod       == {"route", "client", "probe"}
SetUps      == Instruments \cup {"path"}
Stages      == SetUps \cup {"off", "origin", "window", "post", "stop", "over"}
Needed      == {"route", "sampler", "probe"}
                 \cup (IF loaded THEN {"server", "client"} ELSE {})

After == [route   |-> "path",
          path    |-> IF loaded THEN "server" ELSE "sampler",
          server  |-> "client",
          client  |-> "sampler",
          sampler |-> "probe",
          probe   |-> "origin"]

MeasurementInit ==
  /\ epoch = 1 /\ ue = 1 /\ drifts = 0 /\ stable = 0
  /\ loaded = FALSE /\ stage = "off" /\ sound = FALSE
  /\ up = {} /\ held = {} /\ flaws = FALSE /\ gap = FALSE
  /\ cal = "off" /\ calOwns = FALSE /\ calibrations = 0

\* What is missing while the window is open stays on record.
Noticed == gap' = (gap \/ (stage = "window" /\ ~Needed \subseteq up'))

-----------------------------------------------------------------------------
(* The lifecycle.                                                          *)

BeginMeasurement(load) ==
  /\ loaded' = load /\ stage' = "route" /\ sound' = FALSE
  /\ held' = {} /\ flaws' = FALSE /\ gap' = FALSE
  /\ UNCHANGED <<pod, stable, up, bench>>

\* _install_target_route: a route that is there already is nobody's to remove.
InstallRoute ==
  /\ stage = "route"
  /\ up' = up \cup {"route"}
  /\ held' = IF "route" \in up THEN held ELSE held \cup {"route"}
  /\ stage' = After[stage]
  /\ UNCHANGED <<pod, stable, loaded, sound, flaws, gap, bench>>

\* The UE's pod is the one the command has seen first.
SameUe == ue <= stable

\* _require_network_ready: the network is proven as it is now, and the UE has the
\* pod and the PDU address of the run.  The gNB's pod is not compared, and an
\* address may be given out again, so that only another UE's pod is always seen.
ProveNetwork == SameUe

ProvePath ==
  /\ stage = "path" /\ ProveNetwork /\ "route" \in up
  /\ stage' = After[stage]
  /\ UNCHANGED <<pod, stable, loaded, sound, up, held, flaws, gap, bench>>

PortTaken == cal \in {"measure", "stop"}

StartInstrument ==
  /\ stage \in {"server", "client", "sampler", "probe"}
  /\ stage = "server" => ~PortTaken
  /\ stage \in {"client", "probe"} => SameUe
  /\ up' = up \cup {stage} /\ held' = held \cup {stage}
  /\ stage' = After[stage]
  /\ UNCHANGED <<pod, stable, loaded, sound, flaws, gap, bench>>

\* What a failure leaves: a route or a server whose own cleanup failed too, a
\* client that does not connect, a sampler whose first sample failed.
Leftover(i) ==
  IF i \in {"route", "server"} THEN {<<{}, {}>>, <<{i}, {}>>}
  ELSE IF i = "client" THEN {<<{}, {}>>, <<{i}, {i}>>}
  ELSE IF i = "sampler" THEN {<<{}, {}>>, <<{}, {i}>>}
  ELSE {<<{}, {}>>}

SetUpFails ==
  /\ stage \in SetUps
  /\ \E rest \in Leftover(stage) :
       up' = up \cup rest[1] /\ held' = held \cup rest[2]
  /\ stage' = "stop"
  /\ UNCHANGED <<pod, stable, loaded, sound, flaws, gap, bench>>

\* release_replay_start_gate and wait_replay_start_origin.
OpenWindow ==
  /\ stage = "origin"
  /\ \/ stage' = "window" /\ gap' = ~(Needed \subseteq up)
     \/ stage' = "stop" /\ UNCHANGED gap
  /\ UNCHANGED <<pod, stable, loaded, sound, up, held, flaws, bench>>

\* _health_check, at least four times a second and once after the deadline.
Healthy == held \ {"route"} \subseteq up

CloseWindow ==
  /\ stage = "window" /\ Healthy
  /\ stage' = "post"
  /\ UNCHANGED <<pod, stable, loaded, sound, up, held, flaws, gap, bench>>

ProveAgain ==
  /\ stage = "post" /\ ProveNetwork
  /\ sound' = TRUE /\ stage' = "stop"
  /\ UNCHANGED <<pod, stable, loaded, up, held, flaws, gap, bench>>

MeasurementFails ==
  /\ stage \in {"window", "post"}
  /\ stage' = "stop"
  /\ UNCHANGED <<pod, stable, loaded, sound, up, held, flaws, gap, bench>>

\* Mutant of StopInstruments: a server that cannot be reaped is no error.
StopInstrumentsQuietly ==
  /\ stage = "stop"
  /\ \E left \in SUBSET (held \cap up) :
       /\ up' = (up \ held) \cup left
       /\ flaws' \in {flaws, TRUE}
       /\ left \cap {"route", "sampler"} # {} \/ "route" \in held \ up => flaws'
  /\ held' = {} /\ stage' = "over"
  /\ UNCHANGED <<pod, stable, loaded, sound, gap, bench>>

\* _stop_instrumentation: what cannot be stopped is given up with an error.
\* Client and probe end here; in the pod they may run on for a while.
StopInstruments ==
  /\ stage = "stop"
  /\ \E left \in SUBSET (held \cap up) :
       /\ up' = (up \ held) \cup left
       /\ flaws' \in {flaws, TRUE}
       /\ left \cap {"route", "server", "sampler"} # {} \/ "route" \in held \ up => flaws'
  /\ held' = {} /\ stage' = "over"
  /\ UNCHANGED <<pod, stable, loaded, sound, gap, bench>>

Measure ==
  \/ InstallRoute \/ ProvePath \/ StartInstrument \/ SetUpFails
  \/ OpenWindow \/ CloseWindow \/ ProveAgain \/ MeasurementFails
  \/ StopInstruments

-----------------------------------------------------------------------------
(* The nodes.                                                              *)

\* The UE's pod is replaced, with all that was in it.
Drift ==
  /\ drifts < MaxDrifts
  /\ drifts' = drifts + 1 /\ epoch' = epoch + 1 /\ ue' = epoch'
  /\ up' = up \ InPod
  /\ Noticed
  /\ UNCHANGED <<stable, loaded, stage, sound, held, flaws, bench>>

\* The gNB's pod is replaced; the route goes if the tunnel does.
GnbDrift ==
  /\ drifts < MaxDrifts
  /\ drifts' = drifts + 1 /\ epoch' = epoch + 1
  /\ up' \in {up, up \ {"route"}}
  /\ Noticed
  /\ UNCHANGED ue
  /\ UNCHANGED <<stable, loaded, stage, sound, held, flaws, bench>>

\* reconcile_rfsim_runtime (RfsimRecovery): new gNB, broker and srsUE, and with
\* them a new PDU session.  The route goes with the tunnel, and the probe with
\* every python3 in the UE's container; the pod stays.
Reset == epoch' = epoch + 1 /\ UNCHANGED ue /\ up' = up \ {"route", "probe"}

InstrumentEnds(i) ==
  /\ i \in up \ {"route"}
  /\ up' = up \ {i}
  /\ Noticed
  /\ UNCHANGED <<pod, stable, loaded, stage, sound, held, flaws, bench>>

-----------------------------------------------------------------------------
(* The calibration.                                                        *)

\* It starts the radio anew, whoever uses it, and may fail in that.
CalStart ==
  /\ cal = "off" /\ calibrations < MaxCalibrations
  /\ calibrations' = calibrations + 1
  /\ Reset /\ Noticed
  /\ cal' \in {"route", "off"}
  /\ UNCHANGED <<drifts, stable, loaded, stage, sound, held, flaws, calOwns>>

CalGoto(place) ==
  cal' = place /\ UNCHANGED <<pod, stable, loaded, stage, sound, held, flaws>>

\* The tools are looked for, the route is added unless it is there.
CalRoute ==
  /\ cal = "route"
  /\ \/ /\ calOwns' = ("route" \notin up)
        /\ up' = up \cup {"route"} /\ Noticed
        /\ CalGoto("serve")
     \/ CalGoto("off") /\ UNCHANGED <<up, gap, calOwns>>
  /\ UNCHANGED calibrations

\* The server starts unless its port is taken, or its start fails.
CalServe ==
  /\ cal = "serve"
  /\ \/ "server" \notin up /\ CalGoto("measure")
     \/ CalGoto("unroute")
  /\ UNCHANGED <<up, gap, calOwns, calibrations>>

CalMeasure ==
  /\ cal = "measure"
  /\ CalGoto("stop")
  /\ UNCHANGED <<up, gap, calOwns, calibrations>>

CalStop ==
  /\ cal = "stop"
  /\ CalGoto("unroute")
  /\ UNCHANGED <<up, gap, calOwns, calibrations>>

CalUnroute ==
  /\ cal = "unroute"
  /\ up' \in IF calOwns THEN {up, up \ {"route"}} ELSE {up}
  /\ calOwns' = FALSE /\ Noticed
  /\ CalGoto("off")
  /\ UNCHANGED calibrations

Calibrate == CalStart \/ CalRoute \/ CalServe \/ CalMeasure \/ CalStop \/ CalUnroute
=============================================================================
