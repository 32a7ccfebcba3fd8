------------------------------- MODULE IotRun -------------------------------
(***************************************************************************)
(* The telemetry part of one workload, as execute_amber_experiment and     *)
(* r2lab/iot_workload.py run it over IotTransport: the collector, the      *)
(* publisher (iot_publisher.py) with its replay thread and MQTT callbacks, *)
(* the judgement, and the finally block that stops everything and writes   *)
(* the evidence.                                                           *)
(*                                                                         *)
(* Telemetry is sent with QoS 0 on every leg, so that a reading in flight  *)
(* arrives once or is lost; control messages have QoS 1 and are counted    *)
(* as sets.  Events are sent in order.                                     *)
(***************************************************************************)
EXTENDS IotTransport, FiniteSets

CONSTANTS
  MaxEvents,  \* readings the source decoded
  Sensors

ASSUME IotAssumption == MaxEvents \in Nat /\ IsFiniteSet(Sensors)

Events == 1..MaxEvents

VARIABLES
  \* the publisher
  gate,       \* research barrier: absent, closed, or released
  worker,     \* place of the replay thread
  next,       \* the event it is at
  errors,     \* the publisher has errors
  cancel, done, complete,
  memo,       \* what the thread has read of the evidence file
  \* between publisher and collector
  flight,     \* readings on their way
  wave,       \* sensors whose start or end canary is on its way
  \* the collector
  collector, trouble,
  started, ended,   \* canaries it has seen
  got,        \* how often telemetry.jsonl has an event
  \* the command
  pc, good, file

replay    == <<gate, worker, next, errors, cancel, done, complete, memo>>
mqtt      == <<flight, wave>>
receiver  == <<collector, trouble, started, ended, got>>
command   == <<pc, good, file>>
vars == <<transport, gate, worker, next, errors, cancel, done, complete, memo,
          flight, wave, collector, trouble, started, ended, got, pc, good, file>>

\* ready and live_transport of iot-evidence.json.
Verdicts == {"none", "failed", "ready"}
Sections == {"none", "publisher", "full"}
Files    == [ready : Verdicts, section : Sections]

Init ==
  /\ TransportInit
  /\ gate \in {"absent", "closed"} /\ worker = "none" /\ next = 1
  /\ errors = FALSE /\ cancel = FALSE /\ done = FALSE /\ complete = FALSE
  /\ memo = [ready |-> "none", section |-> "none"]
  /\ flight = {} /\ wave = [start |-> {}, end |-> {}]
  /\ collector = "off" /\ trouble = FALSE
  /\ started = {} /\ ended = {} /\ got = [e \in Events |-> 0]
  /\ pc = "collector" /\ good = FALSE
  /\ file = [ready |-> "none", section |-> "none"]

Goto(place) == pc' = place /\ UNCHANGED <<good, file>>
Fail        == Goto("cancel")

-----------------------------------------------------------------------------
(* MQTT.                                                                   *)

\* Mutant of Arrives: a reading is sent again when its acknowledgement is late.
ArrivesAgain(e) ==
  /\ e \in flight /\ collector = "ready" /\ got[e] < 2
  /\ got' = [got EXCEPT ![e] = @ + 1]
  /\ flight' \in {flight, flight \ {e}}
  /\ UNCHANGED <<transport, replay, wave, collector, trouble, started, ended, command>>

Arrives(e) ==
  /\ e \in flight /\ collector = "ready"
  /\ got' = [got EXCEPT ![e] = @ + 1]
  /\ flight' = flight \ {e}
  /\ UNCHANGED <<transport, replay, wave, collector, trouble, started, ended, command>>

Lost(e) ==
  /\ e \in flight
  /\ flight' = flight \ {e}
  /\ UNCHANGED <<transport, replay, wave, receiver, command>>

\* It may arrive again.
StartCanaryArrives(s) ==
  /\ s \in wave.start /\ collector = "ready"
  /\ started' = started \cup {s}
  /\ UNCHANGED <<transport, replay, mqtt, collector, trouble, ended, got, command>>

EndCanaryArrives(s) ==
  /\ s \in wave.end /\ collector = "ready"
  /\ ended' = ended \cup {s}
  /\ UNCHANGED <<transport, replay, mqtt, collector, trouble, started, got, command>>

\* on_disconnect of the collector; it reconnects by itself, but the error stays.
CollectorDrops ==
  /\ collector = "ready" /\ ~trouble
  /\ trouble' = TRUE
  /\ UNCHANGED <<transport, replay, mqtt, collector, started, ended, got, command>>

\* on_disconnect of a publisher's client.
PublisherDrops ==
  /\ worker # "none" /\ ~errors /\ ~done /\ ~cancel
  /\ errors' = TRUE
  /\ UNCHANGED <<transport, gate, worker, next, cancel, done, complete, memo,
                 mqtt, receiver, command>>

Messages ==
  \/ \E e \in Events : Arrives(e) \/ Lost(e)
  \/ \E s \in Sensors : StartCanaryArrives(s) \/ EndCanaryArrives(s)
  \/ CollectorDrops \/ PublisherDrops

-----------------------------------------------------------------------------
(* The replay thread.                                                      *)

Stopping == cancel \/ errors

Work(place) == worker' = place /\ UNCHANGED <<transport, receiver, command>>

\* Mutant of AwaitStart: the gate is not waited for.
StartAtOnce ==
  /\ worker = "gate"
  /\ Work(IF cancel THEN "leave" ELSE "replay")
  /\ UNCHANGED <<gate, next, errors, cancel, done, complete, memo, mqtt>>

\* _await_replay_start.
AwaitStart ==
  /\ worker = "gate" /\ (cancel \/ gate # "closed")
  /\ Work(IF cancel THEN "leave" ELSE "replay")
  /\ UNCHANGED <<gate, next, errors, cancel, done, complete, memo, mqtt>>

\* Waits for the time of the next event, or for the end of the run.
Replay ==
  /\ worker = "replay"
  /\ Work(IF Stopping THEN "leave" ELSE IF next \in Events THEN "publish" ELSE "finish")
  /\ UNCHANGED <<gate, next, errors, cancel, done, complete, memo, mqtt>>

\* A publish that times out may have been sent all the same.
Publish ==
  /\ worker = "publish"
  /\ \/ flight' = flight \cup {next} /\ UNCHANGED errors
     \/ flight' \in {flight, flight \cup {next}} /\ errors' = TRUE
  /\ next' = next + 1
  /\ Work("replay")
  /\ UNCHANGED <<gate, cancel, done, complete, memo, wave>>

\* End canaries, up to the first that fails.
Finish ==
  /\ worker = "finish"
  /\ \E sent \in SUBSET Sensors :
       /\ wave' = [wave EXCEPT !.end = sent]
       /\ errors' \in {errors, TRUE}
       /\ ~errors' => sent = Sensors
       /\ complete' = ~errors'
  /\ Work("leave")
  /\ UNCHANGED <<gate, next, cancel, done, memo, flight>>

\* finally: the event is set before the file is written; _persist reads the
\* evidence, puts its own section into it and writes it back.
Leave ==
  /\ worker = "leave"
  /\ done' = TRUE
  /\ Work("read")
  /\ UNCHANGED <<gate, next, errors, cancel, complete, memo, mqtt>>

PersistRead ==
  /\ worker = "read"
  /\ memo' = file
  /\ Work("write")
  /\ UNCHANGED <<gate, next, errors, cancel, done, complete, mqtt>>

PersistWrite ==
  /\ worker = "write"
  /\ file' = [memo EXCEPT !.section = "publisher"]
  /\ worker' = "dead"
  /\ UNCHANGED <<transport, gate, next, errors, cancel, done, complete, memo,
                 mqtt, receiver, pc, good>>

Worker == AwaitStart \/ Replay \/ Publish \/ Finish \/ Leave \/ PersistRead \/ PersistWrite

-----------------------------------------------------------------------------
(* The command, up to the judgement.  Every wait may time out.             *)

\* Mutant of GiveUp: the end canaries are waited for without a deadline.
GiveUpButCanaries ==
  /\ pc \in {"collector", "ports", "clients", "barrier", "measure",
             "wait", "pairs", "paths"}
  /\ Fail
  /\ UNCHANGED <<transport, replay, mqtt, receiver>>

GiveUp ==
  /\ pc \in {"collector", "ports", "clients", "barrier", "measure",
             "wait", "canaries", "pairs", "paths"}
  /\ Fail
  /\ UNCHANGED <<transport, replay, mqtt, receiver>>

StartCollector ==
  /\ pc = "collector"
  /\ collector' = "ready"
  /\ Goto("ports")
  /\ UNCHANGED <<transport, replay, mqtt, trouble, started, ended, got>>

CheckPorts ==
  /\ pc = "ports" /\ PortsFree
  /\ Goto("hop")
  /\ UNCHANGED <<transport, replay, mqtt, receiver>>

Hop ==
  /\ pc = "hop" /\ StartHop
  /\ Goto("await")
  /\ UNCHANGED <<replay, mqtt, receiver>>

AwaitHop ==
  /\ pc = "await" /\ HopReady
  /\ Goto(IF hop = Len(Chain) THEN "clients" ELSE "hop")
  /\ UNCHANGED <<replay, mqtt, receiver>>

HopFails ==
  /\ pc \in {"hop", "await"} /\ Rollback
  /\ Fail
  /\ UNCHANGED <<replay, mqtt, receiver>>

\* All clients connected and all start canaries published; otherwise start()
\* stops the session itself and raises.
Connect ==
  /\ pc = "clients"
  /\ \E sent \in SUBSET Sensors :
       /\ wave' = [wave EXCEPT !.start = sent]
       /\ Goto(IF sent = Sensors THEN "barrier" ELSE "cancel")
  /\ UNCHANGED <<transport, replay, flight, receiver>>

\* wait_start_canaries, then the thread is started.
Barrier ==
  /\ pc = "barrier" /\ started = Sensors /\ ~trouble
  /\ worker' = "gate"
  /\ Goto("measure")
  /\ UNCHANGED <<transport, gate, next, errors, cancel, done, complete, memo, mqtt, receiver>>

\* The measurement lifecycle of a research run releases the gate.
Release ==
  /\ pc = "measure"
  /\ gate' = IF gate = "closed" THEN "released" ELSE gate
  /\ Goto("wait")
  /\ UNCHANGED <<transport, worker, next, errors, cancel, done, complete, memo, mqtt, receiver>>

\* publisher.wait; timing may be out of bounds.
Wait ==
  /\ pc = "wait" /\ done /\ ~errors /\ complete
  /\ Goto("canaries")
  /\ UNCHANGED <<transport, replay, mqtt, receiver>>

Canaries ==
  /\ pc = "canaries" /\ ended = Sensors /\ ~trouble
  /\ Goto("pairs")
  /\ UNCHANGED <<transport, replay, mqtt, receiver>>

\* Mutant of Reconcile: end canaries stand for the readings before them.
ReconcileCanaries ==
  /\ pc = "pairs" /\ ~trouble
  /\ Goto("paths")
  /\ UNCHANGED <<transport, replay, mqtt, receiver>>

\* wait_expected_pairs, then reconcile_source_and_transport on what was read.
Reconcile ==
  /\ pc = "pairs" /\ ~trouble
  /\ \A e \in Events : got[e] = 1
  /\ Goto("paths")
  /\ UNCHANGED <<transport, replay, mqtt, receiver>>

\* Snapshot, counters and path.
Accept ==
  /\ pc = "paths" /\ link
  /\ good' = TRUE /\ pc' = "cancel"
  /\ UNCHANGED <<transport, replay, mqtt, receiver, file>>

-----------------------------------------------------------------------------
(* The finally block.                                                      *)

CancelReplay ==
  /\ pc = "cancel"
  /\ cancel' = TRUE
  /\ Goto("join")
  /\ UNCHANGED <<transport, gate, worker, next, errors, done, complete, memo, mqtt, receiver>>

\* Mutant of Join: the thread is not waited for.
JoinNot ==
  /\ pc = "join"
  /\ Goto("persist")
  /\ UNCHANGED <<transport, replay, mqtt, receiver>>

\* join(timeout=5): only a publish, which may take publish_timeout_seconds,
\* outlasts it.
Join ==
  /\ pc = "join" /\ worker \in {"none", "dead", "publish", "finish"}
  /\ Goto("persist")
  /\ UNCHANGED <<transport, replay, mqtt, receiver>>

\* disconnect, done, _persist; also by a start() that fails with its clients
\* connected.
PersistLast ==
  /\ pc = "persist"
  /\ done' = TRUE
  /\ \/ file' = [file EXCEPT !.section = "publisher"]
     \/ worker = "none" /\ UNCHANGED file
  /\ pc' = "unsubscribe"
  /\ UNCHANGED <<transport, gate, worker, next, errors, cancel, complete, memo,
                 mqtt, receiver, good>>

StopCollector ==
  /\ pc = "unsubscribe"
  /\ collector' = "off"
  /\ Goto(IF session = "open" THEN "hops" ELSE "judge")
  /\ UNCHANGED <<transport, replay, mqtt, trouble, started, ended, got>>

StopTransport ==
  /\ pc = "hops" /\ StopHops
  /\ Goto("reap")
  /\ UNCHANGED <<replay, mqtt, receiver>>

ReapTransport ==
  /\ pc = "reap" /\ (ReapLeft \/ NothingToReap)
  /\ Goto("certify")
  /\ UNCHANGED <<replay, mqtt, receiver>>

CertifyTransport ==
  /\ pc = "certify" /\ Certify
  /\ Goto("judge")
  /\ UNCHANGED <<replay, mqtt, receiver>>

\* The rest of the cleanup may fail too.
Judge ==
  /\ pc = "judge"
  /\ file' \in {[ready   |-> verdict, section |-> IF good THEN "full" ELSE "none"] :
                  verdict \in {"failed"} \cup IF good /\ CleanupValid THEN {"ready"} ELSE {}}
  /\ pc' = "over"
  /\ UNCHANGED <<transport, replay, mqtt, receiver, good>>

\* The gate goes after the run, with whoever still waits at it.
RemoveGate ==
  /\ pc = "over" /\ gate = "closed"
  /\ gate' = "released"
  /\ UNCHANGED <<transport, worker, next, errors, cancel, done, complete, memo,
                 mqtt, receiver, command>>

Steps ==
  \/ StartCollector \/ CheckPorts \/ Hop \/ AwaitHop \/ HopFails
  \/ Connect \/ Barrier \/ Release \/ Wait \/ Canaries \/ Reconcile \/ Accept
  \/ CancelReplay \/ Join \/ PersistLast \/ StopCollector
  \/ StopTransport \/ ReapTransport \/ CertifyTransport \/ Judge \/ RemoveGate

Next ==
  \/ Steps \/ GiveUp \/ Worker \/ Messages
  \/ (Surroundings /\ UNCHANGED <<replay, mqtt, receiver, command>>)

Spec == Init /\ [][Next]_vars

\* The thread and the command go on; every wait of the command has a timeout.
FairSpec == Spec /\ WF_vars(Steps \/ GiveUp) /\ WF_vars(Worker)

-----------------------------------------------------------------------------
Places == {"collector", "ports", "hop", "await", "clients", "barrier", "measure",
           "wait", "canaries", "pairs", "paths", "cancel", "join", "persist",
           "unsubscribe", "hops", "reap", "certify", "judge", "over"}

TypeOK ==
  /\ backend \in {"rfsim", "r2lab"}
  /\ near \subseteq Hops /\ far \in [Hops -> {"none", "coming", "up"}]
  /\ foreign \subseteq Ports /\ owned \in [Hops -> {"none", "own", "other"}]
  /\ hop \in 1..Len(Chain) /\ session \in {"none", "open", "stopped"}
  /\ soiled \in BOOLEAN /\ misread \subseteq Ports /\ link \in BOOLEAN /\ outages \in 0..MaxOutages
  /\ gate \in {"absent", "closed", "released"}
  /\ worker \in {"none", "gate", "replay", "publish", "finish", "leave", "read", "write", "dead"}
  /\ next \in 1..(MaxEvents + 1)
  /\ errors \in BOOLEAN /\ cancel \in BOOLEAN /\ done \in BOOLEAN /\ complete \in BOOLEAN
  /\ memo \in Files /\ file \in Files
  /\ flight \subseteq Events
  /\ wave \in [start : SUBSET Sensors, end : SUBSET Sensors]
  /\ collector \in {"off", "ready"} /\ trouble \in BOOLEAN
  /\ started \subseteq Sensors /\ ended \subseteq Sensors
  /\ got \in [Events -> 0..1]
  /\ pc \in Places /\ good \in BOOLEAN

\* The workload keeps what IotDelivery promises of an accepted one.
Delivery == INSTANCE IotDelivery WITH recorded <- got, accepted <- file.ready = "ready"
KeepsDelivery == Delivery!Spec

\* No reading is sent before the collector has seen the start canary of every
\* sensor and, in a research run, before the measurement has released the gate:
\* not even by a thread that is still waiting when its run has failed.
NoEarlyTelemetry ==
  next > 1 => started = Sensors /\ (gate # "absent" => gate = "released")

\* The evidence of an accepted workload is the one the command has written; the
\* replay thread, which writes the same file, is over and cannot write again.
ReadyEvidenceStays ==
  file.ready = "ready" => file.section = "full" /\ worker = "dead"

\* A session that says its cleanup is valid has left no listener on the node, and
\* none that comes up later, however often the link fails and whoever else listens
\* there: but for the ports of which it misread an answer, somebody else's listener
\* for its own when the hop was ready, or a failed probe for a closed port in the
\* final look.  The limit of ReadyIsClean.
CertifiedIsClean == CleanupValid => NothingElseLeft

\* Every workload is judged, and its thread ends.
RunEnds == <>[](pc = "over" /\ worker \in {"none", "dead"})

\* "fail closed when exact rollback/cleanup cannot be proven"
\* (docs/operator-guide.md): accepted evidence stands for a node without
\* listeners of the run.
ReadyIsClean == file.ready = "ready" => NothingLeft

\* "Rollback and cleanup must operate on the exact resources proven to belong
\* to the current run" (CONTRIBUTING.md): what somebody else listens on goes
\* only by itself.
LeavesForeign == [][\A h \in foreign : h \notin foreign' => pc' = pc]_vars

\* What becomes of somebody else's listener: it goes by itself, or it held a
\* port when the hop was taken for ready, was recorded as the run's and is killed
\* in the end (_wait_unique_remote_listener); on R2Lab it is left alone.  The
\* limit of LeavesForeign.
KillsWhatItRecorded ==
  [][\A h \in foreign : h \notin foreign' /\ pc' # pc =>
       backend = "rfsim" /\ owned[h] = "other"]_vars
=============================================================================
