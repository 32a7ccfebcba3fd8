---------------------------- MODULE IotRun_proofs ----------------------------
(***************************************************************************)
(* Proofs about IotRun, for any number of readings and sensors and either  *)
(* backend; with any number of outages and other listeners too, unless a   *)
(* theorem says otherwise.                                                 *)
(***************************************************************************)
EXTENDS IotRun, TLAPS

\* A reading is in one place at most.
SentInv ==
  /\ worker = "publish" => next \in Events
  /\ \A e \in flight : got[e] = 0 /\ e < next
  /\ \A e \in Events : e >= next => got[e] = 0

Before == {"collector", "ports", "hop", "await", "clients", "barrier", "measure", "wait",
           "canaries", "pairs", "paths", "cancel", "join"}
Settled == {"read", "write", "dead"}

\* Nothing is sent before the start canaries and the gate.
EarlyInv ==
  /\ pc \in {"collector", "ports", "hop", "await", "clients", "barrier"} => worker = "none"
  /\ worker # "none" => started = Sensors
  /\ worker \in {"none", "gate"} => next = 1
  /\ worker \in {"replay", "publish", "finish"} \/ next > 1 => gate # "closed"

\* An accepted run has waited for its thread.
WriterInv ==
  /\ pc \in Before /\ done => worker \in Settled
  /\ pc \in {"canaries", "pairs", "paths"} => worker \in Settled
  /\ pc \in Before \ {"cancel", "join"} => ~good
  /\ good => worker \in Settled
  /\ good /\ pc \notin Before => worker = "dead"
  /\ file.ready = "ready" => pc = "over" /\ good /\ file.section = "full"
  /\ memo.ready # "ready"

\* An accepted run has seen every reading.
AllInv == pc = "paths" \/ good => \A e \in Events : got[e] = 1

\* Listeners of the chain that have not come up yet: only the hop that is waited
\* for has one, but for ports at which somebody else's listener was taken for it.
ComingInv ==
  /\ pc \in {"collector", "ports", "hop"} \/ session # "none" =>
       \A h \in Ports \ misread : far[h] # "coming"
  /\ pc = "await" => \A h \in Ports \ misread : far[h] = "coming" => h = Here
  /\ pc \in {"collector", "ports", "hop", "await"} => session = "none"
  /\ pc \in {"hops", "reap", "certify"} => session = "open"
  /\ CleanupValid => NothingElseLeft

-----------------------------------------------------------------------------
\* The types, apart.
ChainTypes ==
  /\ backend \in {"rfsim", "r2lab"} /\ near \subseteq Hops
  /\ far \in [Hops -> {"none", "coming", "up"}] /\ foreign \subseteq Ports
  /\ owned \in [Hops -> {"none", "own", "other"}]

LastHop == IF backend = "rfsim" THEN 3 ELSE 4

HopTypes == hop \in 1..LastHop /\ session \in {"none", "open", "stopped"}

WeatherTypes ==
  /\ soiled \in BOOLEAN /\ misread \subseteq Ports
  /\ link \in BOOLEAN /\ outages \in 0..MaxOutages

ReplayTypes ==
  /\ gate \in {"absent", "closed", "released"}
  /\ worker \in {"none", "gate", "replay", "publish", "finish", "leave", "read", "write", "dead"}
  /\ errors \in BOOLEAN /\ cancel \in BOOLEAN /\ done \in BOOLEAN /\ complete \in BOOLEAN

FileTypes == memo \in Files /\ file \in Files

MqttTypes ==
  /\ wave \in [start : SUBSET Sensors, end : SUBSET Sensors]
  /\ collector \in {"off", "ready"} /\ trouble \in BOOLEAN
  /\ started \subseteq Sensors /\ ended \subseteq Sensors

SentTypes ==
  next \in 1..(MaxEvents + 1) /\ flight \subseteq Events /\ got \in [Events -> 0..1]

PlaceTypes == pc \in Places /\ good \in BOOLEAN

Types == /\ ChainTypes /\ HopTypes /\ WeatherTypes /\ ReplayTypes
         /\ FileTypes /\ MqttTypes /\ SentTypes /\ PlaceTypes

LEMMA ChainLength ==
  /\ Len(Chain) = LastHop /\ \A i \in 1..LastHop : Chain[i] \in Hops
  /\ \A i, j \in 1..LastHop : Chain[i] = Chain[j] => i = j
  BY DEF Chain, Hops, LastHop

LEMMA Parts == TypeOK <=> Types
  BY ChainLength, Zenon DEF TypeOK, Types, ChainTypes, HopTypes, WeatherTypes, ReplayTypes,
     FileTypes, MqttTypes, SentTypes, PlaceTypes

LEMMA BackendStays == [Next]_vars => backend' = backend
  <1> SUFFICES ASSUME [Next]_vars PROVE backend' = backend
    OBVIOUS
  <1> USE DEF Goto, Fail, Work, replay, mqtt, receiver, command, transport, chain, standing, weather
  <1>1. CASE StartCollector
    BY <1>1 DEF StartCollector
  <1>2. CASE CheckPorts
    BY <1>2 DEF CheckPorts
  <1>3. CASE Hop
    BY <1>3 DEF Hop, StartHop
  <1>4. CASE AwaitHop
    BY <1>4 DEF AwaitHop, HopReady
  <1>5. CASE HopFails
    BY <1>5 DEF HopFails, Rollback, Reap
  <1>6. CASE Connect
    BY <1>6 DEF Connect
  <1>7. CASE Barrier
    BY <1>7 DEF Barrier
  <1>8. CASE Release
    BY <1>8 DEF Release
  <1>9. CASE Wait
    BY <1>9 DEF Wait
  <1>10. CASE Canaries
    BY <1>10 DEF Canaries
  <1>11. CASE Reconcile
    BY <1>11 DEF Reconcile
  <1>12. CASE Accept
    BY <1>12 DEF Accept
  <1>13. CASE CancelReplay
    BY <1>13 DEF CancelReplay
  <1>14. CASE Join
    BY <1>14 DEF Join
  <1>15. CASE PersistLast
    BY <1>15 DEF PersistLast
  <1>16. CASE StopCollector
    BY <1>16 DEF StopCollector
  <1>17. CASE StopTransport
    BY <1>17 DEF StopTransport, StopHops
  <1>18. CASE ReapTransport
    BY <1>18 DEF ReapTransport, ReapLeft, NothingToReap, Reap
  <1>19. CASE CertifyTransport
    BY <1>19 DEF CertifyTransport, Certify
  <1>20. CASE Judge
    BY <1>20 DEF Judge
  <1>21. CASE RemoveGate
    BY <1>21 DEF RemoveGate
  <1>22. CASE GiveUp
    BY <1>22 DEF GiveUp
  <1>23. CASE AwaitStart
    BY <1>23 DEF AwaitStart
  <1>24. CASE Replay
    BY <1>24 DEF Replay
  <1>25. CASE Publish
    BY <1>25 DEF Publish
  <1>26. CASE Finish
    BY <1>26 DEF Finish
  <1>27. CASE Leave
    BY <1>27 DEF Leave
  <1>28. CASE PersistRead
    BY <1>28 DEF PersistRead
  <1>29. CASE PersistWrite
    BY <1>29 DEF PersistWrite
  <1>30. CASE Messages
    <2>1. ASSUME NEW e \in Events, Arrives(e) PROVE backend' = backend
      BY <1>30, <2>1 DEF Arrives
    <2>2. ASSUME NEW e \in Events, Lost(e) PROVE backend' = backend
      BY <1>30, <2>2 DEF Lost
    <2>3. ASSUME NEW s \in Sensors, StartCanaryArrives(s) PROVE backend' = backend
      BY <1>30, <2>3 DEF StartCanaryArrives
    <2>4. ASSUME NEW s \in Sensors, EndCanaryArrives(s) PROVE backend' = backend
      BY <1>30, <2>4 DEF EndCanaryArrives
    <2>5. CASE CollectorDrops
      BY <1>30, <2>5 DEF CollectorDrops
    <2>6. CASE PublisherDrops
      BY <1>30, <2>6 DEF PublisherDrops
    <2> QED
      BY <1>30, <2>1, <2>2, <2>3, <2>4, <2>5, <2>6 DEF Messages
  <1>31. CASE Surroundings /\ UNCHANGED <<replay, mqtt, receiver, command>>
    <2>1. ASSUME NEW h \in Hops, FarComesUp(h) PROVE backend' = backend
      BY <1>31, <2>1 DEF FarComesUp
    <2>2. ASSUME NEW h \in Hops, FarEnds(h) PROVE backend' = backend
      BY <1>31, <2>2 DEF FarEnds
    <2>3. ASSUME NEW h \in Hops, ForeignTakes(h) PROVE backend' = backend
      BY <1>31, <2>3 DEF ForeignTakes
    <2>4. ASSUME NEW h \in Hops, ForeignLeaves(h) PROVE backend' = backend
      BY <1>31, <2>4 DEF ForeignLeaves
    <2>5. CASE RelayAccepts
      BY <1>31, <2>5 DEF RelayAccepts
    <2>6. CASE LinkChanges
      BY <1>31, <2>6 DEF LinkChanges
    <2> QED
      BY <1>31, <2>1, <2>2, <2>3, <2>4, <2>5, <2>6 DEF Surroundings
  <1>32. CASE UNCHANGED vars
    BY <1>32 DEF vars
  <1> QED
    BY <1>1, <1>2, <1>3, <1>4, <1>5, <1>6, <1>7, <1>8, <1>9, <1>10, <1>11, <1>12, <1>13, <1>14, <1>15, <1>16, <1>17, <1>18, <1>19, <1>20, <1>21, <1>22, <1>23, <1>24, <1>25, <1>26, <1>27, <1>28, <1>29, <1>30, <1>31, <1>32 DEF Next, Steps, Worker

LEMMA ChainTypesStep == ChainTypes /\ HopTypes /\ [Next]_vars => ChainTypes'
  <1> SUFFICES ASSUME ChainTypes, HopTypes, [Next]_vars PROVE ChainTypes'
    OBVIOUS
  <1> USE DEF Goto, Fail, Work, replay, mqtt, receiver, command, transport, chain, standing, weather, ChainTypes, Hops, Ports
  <1>1. CASE StartCollector
    BY <1>1 DEF StartCollector
  <1>2. CASE CheckPorts
    BY <1>2 DEF CheckPorts
  <1>3. CASE Hop
    <2>1. Here \in Hops
      BY ChainLength DEF HopTypes, Here
    <2> QED
      BY <1>3, <2>1 DEF Hop, StartHop
  <1>4. CASE AwaitHop
    BY <1>4 DEF AwaitHop, HopReady
  <1>5. CASE HopFails
    BY <1>5 DEF HopFails, Rollback, Reap
  <1>6. CASE Connect
    BY <1>6 DEF Connect
  <1>7. CASE Barrier
    BY <1>7 DEF Barrier
  <1>8. CASE Release
    BY <1>8 DEF Release
  <1>9. CASE Wait
    BY <1>9 DEF Wait
  <1>10. CASE Canaries
    BY <1>10 DEF Canaries
  <1>11. CASE Reconcile
    BY <1>11 DEF Reconcile
  <1>12. CASE Accept
    BY <1>12 DEF Accept
  <1>13. CASE CancelReplay
    BY <1>13 DEF CancelReplay
  <1>14. CASE Join
    BY <1>14 DEF Join
  <1>15. CASE PersistLast
    BY <1>15 DEF PersistLast
  <1>16. CASE StopCollector
    BY <1>16 DEF StopCollector
  <1>17. CASE StopTransport
    BY <1>17 DEF StopTransport, StopHops
  <1>18. CASE ReapTransport
    <2>1. CASE NothingToReap
      BY <1>18, <2>1 DEF ReapTransport, NothingToReap
    <2>2. CASE ReapLeft
      <3>1. PICK left \in SUBSET Ports : Reap(left)
        BY <2>2 DEF ReapLeft
      <3>2. far' \in [Hops -> {"none", "coming", "up"}] /\ foreign' \subseteq Ports
        BY <3>1 DEF Reap
      <3> QED
        BY <2>2, <3>2 DEF ReapLeft
    <2> QED
      BY <1>18, <2>1, <2>2 DEF ReapTransport
  <1>19. CASE CertifyTransport
    BY <1>19 DEF CertifyTransport, Certify
  <1>20. CASE Judge
    BY <1>20 DEF Judge
  <1>21. CASE RemoveGate
    BY <1>21 DEF RemoveGate
  <1>22. CASE GiveUp
    BY <1>22 DEF GiveUp
  <1>23. CASE AwaitStart
    BY <1>23 DEF AwaitStart
  <1>24. CASE Replay
    BY <1>24 DEF Replay
  <1>25. CASE Publish
    BY <1>25 DEF Publish
  <1>26. CASE Finish
    BY <1>26 DEF Finish
  <1>27. CASE Leave
    BY <1>27 DEF Leave
  <1>28. CASE PersistRead
    BY <1>28 DEF PersistRead
  <1>29. CASE PersistWrite
    BY <1>29 DEF PersistWrite
  <1>30. CASE Messages
    <2>1. ASSUME NEW e \in Events, Arrives(e) PROVE ChainTypes'
      BY <1>30, <2>1 DEF Arrives
    <2>2. ASSUME NEW e \in Events, Lost(e) PROVE ChainTypes'
      BY <1>30, <2>2 DEF Lost
    <2>3. ASSUME NEW s \in Sensors, StartCanaryArrives(s) PROVE ChainTypes'
      BY <1>30, <2>3 DEF StartCanaryArrives
    <2>4. ASSUME NEW s \in Sensors, EndCanaryArrives(s) PROVE ChainTypes'
      BY <1>30, <2>4 DEF EndCanaryArrives
    <2>5. CASE CollectorDrops
      BY <1>30, <2>5 DEF CollectorDrops
    <2>6. CASE PublisherDrops
      BY <1>30, <2>6 DEF PublisherDrops
    <2> QED
      BY <1>30, <2>1, <2>2, <2>3, <2>4, <2>5, <2>6 DEF Messages
  <1>31. CASE Surroundings /\ UNCHANGED <<replay, mqtt, receiver, command>>
    <2>1. ASSUME NEW h \in Hops, FarComesUp(h) PROVE ChainTypes'
      BY <1>31, <2>1 DEF FarComesUp
    <2>2. ASSUME NEW h \in Hops, FarEnds(h) PROVE ChainTypes'
      BY <1>31, <2>2 DEF FarEnds
    <2>3. ASSUME NEW h \in Hops, ForeignTakes(h) PROVE ChainTypes'
      BY <1>31, <2>3 DEF ForeignTakes
    <2>4. ASSUME NEW h \in Hops, ForeignLeaves(h) PROVE ChainTypes'
      BY <1>31, <2>4 DEF ForeignLeaves
    <2>5. CASE RelayAccepts
      BY <1>31, <2>5 DEF RelayAccepts
    <2>6. CASE LinkChanges
      BY <1>31, <2>6 DEF LinkChanges
    <2> QED
      BY <1>31, <2>1, <2>2, <2>3, <2>4, <2>5, <2>6 DEF Surroundings
  <1>32. CASE UNCHANGED vars
    BY <1>32 DEF vars
  <1> QED
    BY <1>1, <1>2, <1>3, <1>4, <1>5, <1>6, <1>7, <1>8, <1>9, <1>10, <1>11, <1>12, <1>13, <1>14, <1>15, <1>16, <1>17, <1>18, <1>19, <1>20, <1>21, <1>22, <1>23, <1>24, <1>25, <1>26, <1>27, <1>28, <1>29, <1>30, <1>31, <1>32 DEF Next, Steps, Worker

LEMMA HopTypesStep == HopTypes /\ [Next]_vars => HopTypes'
  <1> SUFFICES ASSUME HopTypes, [Next]_vars PROVE HopTypes'
    OBVIOUS
  <1> USE DEF Goto, Fail, Work, replay, mqtt, receiver, command, transport, chain, standing, weather, HopTypes, LastHop
  <1>1. CASE StartCollector
    BY <1>1 DEF StartCollector
  <1>2. CASE CheckPorts
    BY <1>2 DEF CheckPorts
  <1>3. CASE Hop
    BY <1>3 DEF Hop, StartHop
  <1>4. CASE AwaitHop
    <2>1. \/ UNCHANGED <<backend, hop>> /\ session' = "open"
          \/ UNCHANGED <<backend, session>> /\ hop' = hop + 1 /\ hop # LastHop
      BY <1>4, ChainLength DEF AwaitHop, HopReady
    <2> QED
      BY <2>1
  <1>5. CASE HopFails
    BY <1>5 DEF HopFails, Rollback, Reap
  <1>6. CASE Connect
    BY <1>6 DEF Connect
  <1>7. CASE Barrier
    BY <1>7 DEF Barrier
  <1>8. CASE Release
    BY <1>8 DEF Release
  <1>9. CASE Wait
    BY <1>9 DEF Wait
  <1>10. CASE Canaries
    BY <1>10 DEF Canaries
  <1>11. CASE Reconcile
    BY <1>11 DEF Reconcile
  <1>12. CASE Accept
    BY <1>12 DEF Accept
  <1>13. CASE CancelReplay
    BY <1>13 DEF CancelReplay
  <1>14. CASE Join
    BY <1>14 DEF Join
  <1>15. CASE PersistLast
    BY <1>15 DEF PersistLast
  <1>16. CASE StopCollector
    BY <1>16 DEF StopCollector
  <1>17. CASE StopTransport
    BY <1>17 DEF StopTransport, StopHops
  <1>18. CASE ReapTransport
    BY <1>18 DEF ReapTransport, ReapLeft, NothingToReap, Reap
  <1>19. CASE CertifyTransport
    BY <1>19 DEF CertifyTransport, Certify
  <1>20. CASE Judge
    BY <1>20 DEF Judge
  <1>21. CASE RemoveGate
    BY <1>21 DEF RemoveGate
  <1>22. CASE GiveUp
    BY <1>22 DEF GiveUp
  <1>23. CASE AwaitStart
    BY <1>23 DEF AwaitStart
  <1>24. CASE Replay
    BY <1>24 DEF Replay
  <1>25. CASE Publish
    BY <1>25 DEF Publish
  <1>26. CASE Finish
    BY <1>26 DEF Finish
  <1>27. CASE Leave
    BY <1>27 DEF Leave
  <1>28. CASE PersistRead
    BY <1>28 DEF PersistRead
  <1>29. CASE PersistWrite
    BY <1>29 DEF PersistWrite
  <1>30. CASE Messages
    <2>1. ASSUME NEW e \in Events, Arrives(e) PROVE HopTypes'
      BY <1>30, <2>1 DEF Arrives
    <2>2. ASSUME NEW e \in Events, Lost(e) PROVE HopTypes'
      BY <1>30, <2>2 DEF Lost
    <2>3. ASSUME NEW s \in Sensors, StartCanaryArrives(s) PROVE HopTypes'
      BY <1>30, <2>3 DEF StartCanaryArrives
    <2>4. ASSUME NEW s \in Sensors, EndCanaryArrives(s) PROVE HopTypes'
      BY <1>30, <2>4 DEF EndCanaryArrives
    <2>5. CASE CollectorDrops
      BY <1>30, <2>5 DEF CollectorDrops
    <2>6. CASE PublisherDrops
      BY <1>30, <2>6 DEF PublisherDrops
    <2> QED
      BY <1>30, <2>1, <2>2, <2>3, <2>4, <2>5, <2>6 DEF Messages
  <1>31. CASE Surroundings /\ UNCHANGED <<replay, mqtt, receiver, command>>
    <2>1. ASSUME NEW h \in Hops, FarComesUp(h) PROVE HopTypes'
      BY <1>31, <2>1 DEF FarComesUp
    <2>2. ASSUME NEW h \in Hops, FarEnds(h) PROVE HopTypes'
      BY <1>31, <2>2 DEF FarEnds
    <2>3. ASSUME NEW h \in Hops, ForeignTakes(h) PROVE HopTypes'
      BY <1>31, <2>3 DEF ForeignTakes
    <2>4. ASSUME NEW h \in Hops, ForeignLeaves(h) PROVE HopTypes'
      BY <1>31, <2>4 DEF ForeignLeaves
    <2>5. CASE RelayAccepts
      BY <1>31, <2>5 DEF RelayAccepts
    <2>6. CASE LinkChanges
      BY <1>31, <2>6 DEF LinkChanges
    <2> QED
      BY <1>31, <2>1, <2>2, <2>3, <2>4, <2>5, <2>6 DEF Surroundings
  <1>32. CASE UNCHANGED vars
    BY <1>32 DEF vars
  <1> QED
    BY <1>1, <1>2, <1>3, <1>4, <1>5, <1>6, <1>7, <1>8, <1>9, <1>10, <1>11, <1>12, <1>13, <1>14, <1>15, <1>16, <1>17, <1>18, <1>19, <1>20, <1>21, <1>22, <1>23, <1>24, <1>25, <1>26, <1>27, <1>28, <1>29, <1>30, <1>31, <1>32 DEF Next, Steps, Worker

LEMMA WeatherTypesStep == WeatherTypes /\ [Next]_vars => WeatherTypes'
  <1> SUFFICES ASSUME WeatherTypes, [Next]_vars PROVE WeatherTypes'
    OBVIOUS
  <1> USE DEF Goto, Fail, Work, replay, mqtt, receiver, command, transport, chain, standing, weather, WeatherTypes
  <1>1. CASE StartCollector
    BY <1>1 DEF StartCollector
  <1>2. CASE CheckPorts
    BY <1>2 DEF CheckPorts
  <1>3. CASE Hop
    BY <1>3 DEF Hop, StartHop
  <1>4. CASE AwaitHop
    BY <1>4 DEF AwaitHop, HopReady
  <1>5. CASE HopFails
    BY <1>5 DEF HopFails, Rollback, Reap
  <1>6. CASE Connect
    BY <1>6 DEF Connect
  <1>7. CASE Barrier
    BY <1>7 DEF Barrier
  <1>8. CASE Release
    BY <1>8 DEF Release
  <1>9. CASE Wait
    BY <1>9 DEF Wait
  <1>10. CASE Canaries
    BY <1>10 DEF Canaries
  <1>11. CASE Reconcile
    BY <1>11 DEF Reconcile
  <1>12. CASE Accept
    BY <1>12 DEF Accept
  <1>13. CASE CancelReplay
    BY <1>13 DEF CancelReplay
  <1>14. CASE Join
    BY <1>14 DEF Join
  <1>15. CASE PersistLast
    BY <1>15 DEF PersistLast
  <1>16. CASE StopCollector
    BY <1>16 DEF StopCollector
  <1>17. CASE StopTransport
    BY <1>17 DEF StopTransport, StopHops
  <1>18. CASE ReapTransport
    BY <1>18 DEF ReapTransport, ReapLeft, NothingToReap, Reap
  <1>19. CASE CertifyTransport
    BY <1>19 DEF CertifyTransport, Certify
  <1>20. CASE Judge
    BY <1>20 DEF Judge
  <1>21. CASE RemoveGate
    BY <1>21 DEF RemoveGate
  <1>22. CASE GiveUp
    BY <1>22 DEF GiveUp
  <1>23. CASE AwaitStart
    BY <1>23 DEF AwaitStart
  <1>24. CASE Replay
    BY <1>24 DEF Replay
  <1>25. CASE Publish
    BY <1>25 DEF Publish
  <1>26. CASE Finish
    BY <1>26 DEF Finish
  <1>27. CASE Leave
    BY <1>27 DEF Leave
  <1>28. CASE PersistRead
    BY <1>28 DEF PersistRead
  <1>29. CASE PersistWrite
    BY <1>29 DEF PersistWrite
  <1>30. CASE Messages
    <2>1. ASSUME NEW e \in Events, Arrives(e) PROVE WeatherTypes'
      BY <1>30, <2>1 DEF Arrives
    <2>2. ASSUME NEW e \in Events, Lost(e) PROVE WeatherTypes'
      BY <1>30, <2>2 DEF Lost
    <2>3. ASSUME NEW s \in Sensors, StartCanaryArrives(s) PROVE WeatherTypes'
      BY <1>30, <2>3 DEF StartCanaryArrives
    <2>4. ASSUME NEW s \in Sensors, EndCanaryArrives(s) PROVE WeatherTypes'
      BY <1>30, <2>4 DEF EndCanaryArrives
    <2>5. CASE CollectorDrops
      BY <1>30, <2>5 DEF CollectorDrops
    <2>6. CASE PublisherDrops
      BY <1>30, <2>6 DEF PublisherDrops
    <2> QED
      BY <1>30, <2>1, <2>2, <2>3, <2>4, <2>5, <2>6 DEF Messages
  <1>31. CASE Surroundings /\ UNCHANGED <<replay, mqtt, receiver, command>>
    <2>1. ASSUME NEW h \in Hops, FarComesUp(h) PROVE WeatherTypes'
      BY <1>31, <2>1 DEF FarComesUp
    <2>2. ASSUME NEW h \in Hops, FarEnds(h) PROVE WeatherTypes'
      BY <1>31, <2>2 DEF FarEnds
    <2>3. ASSUME NEW h \in Hops, ForeignTakes(h) PROVE WeatherTypes'
      BY <1>31, <2>3 DEF ForeignTakes
    <2>4. ASSUME NEW h \in Hops, ForeignLeaves(h) PROVE WeatherTypes'
      BY <1>31, <2>4 DEF ForeignLeaves
    <2>5. CASE RelayAccepts
      BY <1>31, <2>5 DEF RelayAccepts
    <2>6. CASE LinkChanges
      <3>1. outages' \in 0..MaxOutages /\ UNCHANGED <<soiled, misread>>
        BY <1>31, <2>6, TransportAssumption DEF LinkChanges
      <3>2. link' \in BOOLEAN
        BY <1>31, <2>6, Zenon DEF LinkChanges
      <3> QED
        BY <3>1, <3>2, Zenon
    <2> QED
      BY <1>31, <2>1, <2>2, <2>3, <2>4, <2>5, <2>6 DEF Surroundings
  <1>32. CASE UNCHANGED vars
    BY <1>32 DEF vars
  <1> QED
    BY <1>1, <1>2, <1>3, <1>4, <1>5, <1>6, <1>7, <1>8, <1>9, <1>10, <1>11, <1>12, <1>13, <1>14, <1>15, <1>16, <1>17, <1>18, <1>19, <1>20, <1>21, <1>22, <1>23, <1>24, <1>25, <1>26, <1>27, <1>28, <1>29, <1>30, <1>31, <1>32 DEF Next, Steps, Worker

LEMMA ReplayTypesStep == ReplayTypes /\ [Next]_vars => ReplayTypes'
  <1> SUFFICES ASSUME ReplayTypes, [Next]_vars PROVE ReplayTypes'
    OBVIOUS
  <1> USE DEF Goto, Fail, Work, replay, mqtt, receiver, command, transport, chain, standing, weather, ReplayTypes
  <1>1. CASE StartCollector
    BY <1>1 DEF StartCollector
  <1>2. CASE CheckPorts
    BY <1>2 DEF CheckPorts
  <1>3. CASE Hop
    BY <1>3 DEF Hop, StartHop
  <1>4. CASE AwaitHop
    BY <1>4 DEF AwaitHop, HopReady
  <1>5. CASE HopFails
    BY <1>5 DEF HopFails, Rollback, Reap
  <1>6. CASE Connect
    BY <1>6 DEF Connect
  <1>7. CASE Barrier
    BY <1>7 DEF Barrier
  <1>8. CASE Release
    BY <1>8 DEF Release
  <1>9. CASE Wait
    BY <1>9 DEF Wait
  <1>10. CASE Canaries
    BY <1>10 DEF Canaries
  <1>11. CASE Reconcile
    BY <1>11 DEF Reconcile
  <1>12. CASE Accept
    BY <1>12 DEF Accept
  <1>13. CASE CancelReplay
    BY <1>13 DEF CancelReplay
  <1>14. CASE Join
    BY <1>14 DEF Join
  <1>15. CASE PersistLast
    BY <1>15 DEF PersistLast
  <1>16. CASE StopCollector
    BY <1>16 DEF StopCollector
  <1>17. CASE StopTransport
    BY <1>17 DEF StopTransport, StopHops
  <1>18. CASE ReapTransport
    BY <1>18 DEF ReapTransport, ReapLeft, NothingToReap, Reap
  <1>19. CASE CertifyTransport
    BY <1>19 DEF CertifyTransport, Certify
  <1>20. CASE Judge
    BY <1>20 DEF Judge
  <1>21. CASE RemoveGate
    BY <1>21 DEF RemoveGate
  <1>22. CASE GiveUp
    BY <1>22 DEF GiveUp
  <1>23. CASE AwaitStart
    BY <1>23 DEF AwaitStart
  <1>24. CASE Replay
    BY <1>24 DEF Replay
  <1>25. CASE Publish
    BY <1>25 DEF Publish
  <1>26. CASE Finish
    BY <1>26 DEF Finish
  <1>27. CASE Leave
    BY <1>27 DEF Leave
  <1>28. CASE PersistRead
    BY <1>28 DEF PersistRead
  <1>29. CASE PersistWrite
    BY <1>29 DEF PersistWrite
  <1>30. CASE Messages
    <2>1. ASSUME NEW e \in Events, Arrives(e) PROVE ReplayTypes'
      BY <1>30, <2>1 DEF Arrives
    <2>2. ASSUME NEW e \in Events, Lost(e) PROVE ReplayTypes'
      BY <1>30, <2>2 DEF Lost
    <2>3. ASSUME NEW s \in Sensors, StartCanaryArrives(s) PROVE ReplayTypes'
      BY <1>30, <2>3 DEF StartCanaryArrives
    <2>4. ASSUME NEW s \in Sensors, EndCanaryArrives(s) PROVE ReplayTypes'
      BY <1>30, <2>4 DEF EndCanaryArrives
    <2>5. CASE CollectorDrops
      BY <1>30, <2>5 DEF CollectorDrops
    <2>6. CASE PublisherDrops
      BY <1>30, <2>6 DEF PublisherDrops
    <2> QED
      BY <1>30, <2>1, <2>2, <2>3, <2>4, <2>5, <2>6 DEF Messages
  <1>31. CASE Surroundings /\ UNCHANGED <<replay, mqtt, receiver, command>>
    <2>1. ASSUME NEW h \in Hops, FarComesUp(h) PROVE ReplayTypes'
      BY <1>31, <2>1 DEF FarComesUp
    <2>2. ASSUME NEW h \in Hops, FarEnds(h) PROVE ReplayTypes'
      BY <1>31, <2>2 DEF FarEnds
    <2>3. ASSUME NEW h \in Hops, ForeignTakes(h) PROVE ReplayTypes'
      BY <1>31, <2>3 DEF ForeignTakes
    <2>4. ASSUME NEW h \in Hops, ForeignLeaves(h) PROVE ReplayTypes'
      BY <1>31, <2>4 DEF ForeignLeaves
    <2>5. CASE RelayAccepts
      BY <1>31, <2>5 DEF RelayAccepts
    <2>6. CASE LinkChanges
      BY <1>31, <2>6 DEF LinkChanges
    <2> QED
      BY <1>31, <2>1, <2>2, <2>3, <2>4, <2>5, <2>6 DEF Surroundings
  <1>32. CASE UNCHANGED vars
    BY <1>32 DEF vars
  <1> QED
    BY <1>1, <1>2, <1>3, <1>4, <1>5, <1>6, <1>7, <1>8, <1>9, <1>10, <1>11, <1>12, <1>13, <1>14, <1>15, <1>16, <1>17, <1>18, <1>19, <1>20, <1>21, <1>22, <1>23, <1>24, <1>25, <1>26, <1>27, <1>28, <1>29, <1>30, <1>31, <1>32 DEF Next, Steps, Worker

LEMMA FileTypesStep == FileTypes /\ [Next]_vars => FileTypes'
  <1> SUFFICES ASSUME FileTypes, [Next]_vars PROVE FileTypes'
    OBVIOUS
  <1> USE DEF Goto, Fail, Work, replay, mqtt, receiver, command, transport, chain, standing, weather, FileTypes, Files, Verdicts, Sections
  <1>1. CASE StartCollector
    BY <1>1 DEF StartCollector
  <1>2. CASE CheckPorts
    BY <1>2 DEF CheckPorts
  <1>3. CASE Hop
    BY <1>3 DEF Hop, StartHop
  <1>4. CASE AwaitHop
    BY <1>4 DEF AwaitHop, HopReady
  <1>5. CASE HopFails
    BY <1>5 DEF HopFails, Rollback, Reap
  <1>6. CASE Connect
    BY <1>6 DEF Connect
  <1>7. CASE Barrier
    BY <1>7 DEF Barrier
  <1>8. CASE Release
    BY <1>8 DEF Release
  <1>9. CASE Wait
    BY <1>9 DEF Wait
  <1>10. CASE Canaries
    BY <1>10 DEF Canaries
  <1>11. CASE Reconcile
    BY <1>11 DEF Reconcile
  <1>12. CASE Accept
    BY <1>12 DEF Accept
  <1>13. CASE CancelReplay
    BY <1>13 DEF CancelReplay
  <1>14. CASE Join
    BY <1>14 DEF Join
  <1>15. CASE PersistLast
    BY <1>15 DEF PersistLast
  <1>16. CASE StopCollector
    BY <1>16 DEF StopCollector
  <1>17. CASE StopTransport
    BY <1>17 DEF StopTransport, StopHops
  <1>18. CASE ReapTransport
    BY <1>18 DEF ReapTransport, ReapLeft, NothingToReap, Reap
  <1>19. CASE CertifyTransport
    BY <1>19 DEF CertifyTransport, Certify
  <1>20. CASE Judge
    BY <1>20 DEF Judge
  <1>21. CASE RemoveGate
    BY <1>21 DEF RemoveGate
  <1>22. CASE GiveUp
    BY <1>22 DEF GiveUp
  <1>23. CASE AwaitStart
    BY <1>23 DEF AwaitStart
  <1>24. CASE Replay
    BY <1>24 DEF Replay
  <1>25. CASE Publish
    BY <1>25 DEF Publish
  <1>26. CASE Finish
    BY <1>26 DEF Finish
  <1>27. CASE Leave
    BY <1>27 DEF Leave
  <1>28. CASE PersistRead
    BY <1>28 DEF PersistRead
  <1>29. CASE PersistWrite
    BY <1>29 DEF PersistWrite
  <1>30. CASE Messages
    <2>1. ASSUME NEW e \in Events, Arrives(e) PROVE FileTypes'
      BY <1>30, <2>1 DEF Arrives
    <2>2. ASSUME NEW e \in Events, Lost(e) PROVE FileTypes'
      BY <1>30, <2>2 DEF Lost
    <2>3. ASSUME NEW s \in Sensors, StartCanaryArrives(s) PROVE FileTypes'
      BY <1>30, <2>3 DEF StartCanaryArrives
    <2>4. ASSUME NEW s \in Sensors, EndCanaryArrives(s) PROVE FileTypes'
      BY <1>30, <2>4 DEF EndCanaryArrives
    <2>5. CASE CollectorDrops
      BY <1>30, <2>5 DEF CollectorDrops
    <2>6. CASE PublisherDrops
      BY <1>30, <2>6 DEF PublisherDrops
    <2> QED
      BY <1>30, <2>1, <2>2, <2>3, <2>4, <2>5, <2>6 DEF Messages
  <1>31. CASE Surroundings /\ UNCHANGED <<replay, mqtt, receiver, command>>
    <2>1. ASSUME NEW h \in Hops, FarComesUp(h) PROVE FileTypes'
      BY <1>31, <2>1 DEF FarComesUp
    <2>2. ASSUME NEW h \in Hops, FarEnds(h) PROVE FileTypes'
      BY <1>31, <2>2 DEF FarEnds
    <2>3. ASSUME NEW h \in Hops, ForeignTakes(h) PROVE FileTypes'
      BY <1>31, <2>3 DEF ForeignTakes
    <2>4. ASSUME NEW h \in Hops, ForeignLeaves(h) PROVE FileTypes'
      BY <1>31, <2>4 DEF ForeignLeaves
    <2>5. CASE RelayAccepts
      BY <1>31, <2>5 DEF RelayAccepts
    <2>6. CASE LinkChanges
      BY <1>31, <2>6 DEF LinkChanges
    <2> QED
      BY <1>31, <2>1, <2>2, <2>3, <2>4, <2>5, <2>6 DEF Surroundings
  <1>32. CASE UNCHANGED vars
    BY <1>32 DEF vars
  <1> QED
    BY <1>1, <1>2, <1>3, <1>4, <1>5, <1>6, <1>7, <1>8, <1>9, <1>10, <1>11, <1>12, <1>13, <1>14, <1>15, <1>16, <1>17, <1>18, <1>19, <1>20, <1>21, <1>22, <1>23, <1>24, <1>25, <1>26, <1>27, <1>28, <1>29, <1>30, <1>31, <1>32 DEF Next, Steps, Worker

LEMMA MqttTypesStep == MqttTypes /\ [Next]_vars => MqttTypes'
  <1> SUFFICES ASSUME MqttTypes, [Next]_vars PROVE MqttTypes'
    OBVIOUS
  <1> USE DEF Goto, Fail, Work, replay, mqtt, receiver, command, transport, chain, standing, weather, MqttTypes
  <1>1. CASE StartCollector
    BY <1>1 DEF StartCollector
  <1>2. CASE CheckPorts
    BY <1>2 DEF CheckPorts
  <1>3. CASE Hop
    BY <1>3 DEF Hop, StartHop
  <1>4. CASE AwaitHop
    BY <1>4 DEF AwaitHop, HopReady
  <1>5. CASE HopFails
    BY <1>5 DEF HopFails, Rollback, Reap
  <1>6. CASE Connect
    BY <1>6 DEF Connect
  <1>7. CASE Barrier
    BY <1>7 DEF Barrier
  <1>8. CASE Release
    BY <1>8 DEF Release
  <1>9. CASE Wait
    BY <1>9 DEF Wait
  <1>10. CASE Canaries
    BY <1>10 DEF Canaries
  <1>11. CASE Reconcile
    BY <1>11 DEF Reconcile
  <1>12. CASE Accept
    BY <1>12 DEF Accept
  <1>13. CASE CancelReplay
    BY <1>13 DEF CancelReplay
  <1>14. CASE Join
    BY <1>14 DEF Join
  <1>15. CASE PersistLast
    BY <1>15 DEF PersistLast
  <1>16. CASE StopCollector
    BY <1>16 DEF StopCollector
  <1>17. CASE StopTransport
    BY <1>17 DEF StopTransport, StopHops
  <1>18. CASE ReapTransport
    BY <1>18 DEF ReapTransport, ReapLeft, NothingToReap, Reap
  <1>19. CASE CertifyTransport
    BY <1>19 DEF CertifyTransport, Certify
  <1>20. CASE Judge
    BY <1>20 DEF Judge
  <1>21. CASE RemoveGate
    BY <1>21 DEF RemoveGate
  <1>22. CASE GiveUp
    BY <1>22 DEF GiveUp
  <1>23. CASE AwaitStart
    BY <1>23 DEF AwaitStart
  <1>24. CASE Replay
    BY <1>24 DEF Replay
  <1>25. CASE Publish
    BY <1>25 DEF Publish
  <1>26. CASE Finish
    BY <1>26 DEF Finish
  <1>27. CASE Leave
    BY <1>27 DEF Leave
  <1>28. CASE PersistRead
    BY <1>28 DEF PersistRead
  <1>29. CASE PersistWrite
    BY <1>29 DEF PersistWrite
  <1>30. CASE Messages
    <2>1. ASSUME NEW e \in Events, Arrives(e) PROVE MqttTypes'
      BY <1>30, <2>1 DEF Arrives
    <2>2. ASSUME NEW e \in Events, Lost(e) PROVE MqttTypes'
      BY <1>30, <2>2 DEF Lost
    <2>3. ASSUME NEW s \in Sensors, StartCanaryArrives(s) PROVE MqttTypes'
      BY <1>30, <2>3 DEF StartCanaryArrives
    <2>4. ASSUME NEW s \in Sensors, EndCanaryArrives(s) PROVE MqttTypes'
      BY <1>30, <2>4 DEF EndCanaryArrives
    <2>5. CASE CollectorDrops
      BY <1>30, <2>5 DEF CollectorDrops
    <2>6. CASE PublisherDrops
      BY <1>30, <2>6 DEF PublisherDrops
    <2> QED
      BY <1>30, <2>1, <2>2, <2>3, <2>4, <2>5, <2>6 DEF Messages
  <1>31. CASE Surroundings /\ UNCHANGED <<replay, mqtt, receiver, command>>
    <2>1. ASSUME NEW h \in Hops, FarComesUp(h) PROVE MqttTypes'
      BY <1>31, <2>1 DEF FarComesUp
    <2>2. ASSUME NEW h \in Hops, FarEnds(h) PROVE MqttTypes'
      BY <1>31, <2>2 DEF FarEnds
    <2>3. ASSUME NEW h \in Hops, ForeignTakes(h) PROVE MqttTypes'
      BY <1>31, <2>3 DEF ForeignTakes
    <2>4. ASSUME NEW h \in Hops, ForeignLeaves(h) PROVE MqttTypes'
      BY <1>31, <2>4 DEF ForeignLeaves
    <2>5. CASE RelayAccepts
      BY <1>31, <2>5 DEF RelayAccepts
    <2>6. CASE LinkChanges
      BY <1>31, <2>6 DEF LinkChanges
    <2> QED
      BY <1>31, <2>1, <2>2, <2>3, <2>4, <2>5, <2>6 DEF Surroundings
  <1>32. CASE UNCHANGED vars
    BY <1>32 DEF vars
  <1> QED
    BY <1>1, <1>2, <1>3, <1>4, <1>5, <1>6, <1>7, <1>8, <1>9, <1>10, <1>11, <1>12, <1>13, <1>14, <1>15, <1>16, <1>17, <1>18, <1>19, <1>20, <1>21, <1>22, <1>23, <1>24, <1>25, <1>26, <1>27, <1>28, <1>29, <1>30, <1>31, <1>32 DEF Next, Steps, Worker

LEMMA SentTypesStep == SentTypes /\ SentInv /\ EarlyInv /\ [Next]_vars => SentTypes'
  <1> SUFFICES ASSUME SentTypes, SentInv, EarlyInv, [Next]_vars PROVE SentTypes'
    OBVIOUS
  <1> USE DEF Goto, Fail, Work, replay, mqtt, receiver, command, transport, chain, standing, weather, SentTypes, SentInv, EarlyInv, Events
  <1>1. CASE StartCollector
    BY <1>1 DEF StartCollector
  <1>2. CASE CheckPorts
    BY <1>2 DEF CheckPorts
  <1>3. CASE Hop
    BY <1>3 DEF Hop, StartHop
  <1>4. CASE AwaitHop
    BY <1>4 DEF AwaitHop, HopReady
  <1>5. CASE HopFails
    BY <1>5 DEF HopFails, Rollback, Reap
  <1>6. CASE Connect
    BY <1>6 DEF Connect
  <1>7. CASE Barrier
    BY <1>7 DEF Barrier
  <1>8. CASE Release
    BY <1>8 DEF Release
  <1>9. CASE Wait
    BY <1>9 DEF Wait
  <1>10. CASE Canaries
    BY <1>10 DEF Canaries
  <1>11. CASE Reconcile
    BY <1>11 DEF Reconcile
  <1>12. CASE Accept
    BY <1>12 DEF Accept
  <1>13. CASE CancelReplay
    BY <1>13 DEF CancelReplay
  <1>14. CASE Join
    BY <1>14 DEF Join
  <1>15. CASE PersistLast
    BY <1>15 DEF PersistLast
  <1>16. CASE StopCollector
    BY <1>16 DEF StopCollector
  <1>17. CASE StopTransport
    BY <1>17 DEF StopTransport, StopHops
  <1>18. CASE ReapTransport
    BY <1>18 DEF ReapTransport, ReapLeft, NothingToReap, Reap
  <1>19. CASE CertifyTransport
    BY <1>19 DEF CertifyTransport, Certify
  <1>20. CASE Judge
    BY <1>20 DEF Judge
  <1>21. CASE RemoveGate
    BY <1>21 DEF RemoveGate
  <1>22. CASE GiveUp
    BY <1>22 DEF GiveUp
  <1>23. CASE AwaitStart
    BY <1>23 DEF AwaitStart
  <1>24. CASE Replay
    BY <1>24 DEF Replay
  <1>25. CASE Publish
    <2>1. next \in Events /\ next' = next + 1 /\ got' = got /\ flight' \subseteq flight \cup {next}
      BY <1>25 DEF Publish
    <2> QED
      BY <2>1, IotAssumption
  <1>26. CASE Finish
    BY <1>26 DEF Finish
  <1>27. CASE Leave
    BY <1>27 DEF Leave
  <1>28. CASE PersistRead
    BY <1>28 DEF PersistRead
  <1>29. CASE PersistWrite
    BY <1>29 DEF PersistWrite
  <1>30. CASE Messages
    <2>1. ASSUME NEW e \in Events, Arrives(e) PROVE SentTypes'
      BY <1>30, <2>1 DEF Arrives
    <2>2. ASSUME NEW e \in Events, Lost(e) PROVE SentTypes'
      BY <1>30, <2>2 DEF Lost
    <2>3. ASSUME NEW s \in Sensors, StartCanaryArrives(s) PROVE SentTypes'
      BY <1>30, <2>3 DEF StartCanaryArrives
    <2>4. ASSUME NEW s \in Sensors, EndCanaryArrives(s) PROVE SentTypes'
      BY <1>30, <2>4 DEF EndCanaryArrives
    <2>5. CASE CollectorDrops
      BY <1>30, <2>5 DEF CollectorDrops
    <2>6. CASE PublisherDrops
      BY <1>30, <2>6 DEF PublisherDrops
    <2> QED
      BY <1>30, <2>1, <2>2, <2>3, <2>4, <2>5, <2>6 DEF Messages
  <1>31. CASE Surroundings /\ UNCHANGED <<replay, mqtt, receiver, command>>
    <2>1. ASSUME NEW h \in Hops, FarComesUp(h) PROVE SentTypes'
      BY <1>31, <2>1 DEF FarComesUp
    <2>2. ASSUME NEW h \in Hops, FarEnds(h) PROVE SentTypes'
      BY <1>31, <2>2 DEF FarEnds
    <2>3. ASSUME NEW h \in Hops, ForeignTakes(h) PROVE SentTypes'
      BY <1>31, <2>3 DEF ForeignTakes
    <2>4. ASSUME NEW h \in Hops, ForeignLeaves(h) PROVE SentTypes'
      BY <1>31, <2>4 DEF ForeignLeaves
    <2>5. CASE RelayAccepts
      BY <1>31, <2>5 DEF RelayAccepts
    <2>6. CASE LinkChanges
      BY <1>31, <2>6 DEF LinkChanges
    <2> QED
      BY <1>31, <2>1, <2>2, <2>3, <2>4, <2>5, <2>6 DEF Surroundings
  <1>32. CASE UNCHANGED vars
    BY <1>32 DEF vars
  <1> QED
    BY <1>1, <1>2, <1>3, <1>4, <1>5, <1>6, <1>7, <1>8, <1>9, <1>10, <1>11, <1>12, <1>13, <1>14, <1>15, <1>16, <1>17, <1>18, <1>19, <1>20, <1>21, <1>22, <1>23, <1>24, <1>25, <1>26, <1>27, <1>28, <1>29, <1>30, <1>31, <1>32 DEF Next, Steps, Worker

LEMMA PlaceTypesStep == PlaceTypes /\ [Next]_vars => PlaceTypes'
  <1> SUFFICES ASSUME PlaceTypes, [Next]_vars PROVE PlaceTypes'
    OBVIOUS
  <1> USE DEF Goto, Fail, Work, replay, mqtt, receiver, command, transport, chain, standing, weather, PlaceTypes, Places
  <1>1. CASE StartCollector
    BY <1>1 DEF StartCollector
  <1>2. CASE CheckPorts
    BY <1>2 DEF CheckPorts
  <1>3. CASE Hop
    BY <1>3 DEF Hop, StartHop
  <1>4. CASE AwaitHop
    BY <1>4 DEF AwaitHop, HopReady
  <1>5. CASE HopFails
    BY <1>5 DEF HopFails, Rollback, Reap
  <1>6. CASE Connect
    BY <1>6 DEF Connect
  <1>7. CASE Barrier
    BY <1>7 DEF Barrier
  <1>8. CASE Release
    BY <1>8 DEF Release
  <1>9. CASE Wait
    BY <1>9 DEF Wait
  <1>10. CASE Canaries
    BY <1>10 DEF Canaries
  <1>11. CASE Reconcile
    BY <1>11 DEF Reconcile
  <1>12. CASE Accept
    BY <1>12 DEF Accept
  <1>13. CASE CancelReplay
    BY <1>13 DEF CancelReplay
  <1>14. CASE Join
    BY <1>14 DEF Join
  <1>15. CASE PersistLast
    BY <1>15 DEF PersistLast
  <1>16. CASE StopCollector
    BY <1>16 DEF StopCollector
  <1>17. CASE StopTransport
    BY <1>17 DEF StopTransport, StopHops
  <1>18. CASE ReapTransport
    BY <1>18 DEF ReapTransport, ReapLeft, NothingToReap, Reap
  <1>19. CASE CertifyTransport
    BY <1>19 DEF CertifyTransport, Certify
  <1>20. CASE Judge
    BY <1>20 DEF Judge
  <1>21. CASE RemoveGate
    BY <1>21 DEF RemoveGate
  <1>22. CASE GiveUp
    BY <1>22 DEF GiveUp
  <1>23. CASE AwaitStart
    BY <1>23 DEF AwaitStart
  <1>24. CASE Replay
    BY <1>24 DEF Replay
  <1>25. CASE Publish
    BY <1>25 DEF Publish
  <1>26. CASE Finish
    BY <1>26 DEF Finish
  <1>27. CASE Leave
    BY <1>27 DEF Leave
  <1>28. CASE PersistRead
    BY <1>28 DEF PersistRead
  <1>29. CASE PersistWrite
    BY <1>29 DEF PersistWrite
  <1>30. CASE Messages
    <2>1. ASSUME NEW e \in Events, Arrives(e) PROVE PlaceTypes'
      BY <1>30, <2>1 DEF Arrives
    <2>2. ASSUME NEW e \in Events, Lost(e) PROVE PlaceTypes'
      BY <1>30, <2>2 DEF Lost
    <2>3. ASSUME NEW s \in Sensors, StartCanaryArrives(s) PROVE PlaceTypes'
      BY <1>30, <2>3 DEF StartCanaryArrives
    <2>4. ASSUME NEW s \in Sensors, EndCanaryArrives(s) PROVE PlaceTypes'
      BY <1>30, <2>4 DEF EndCanaryArrives
    <2>5. CASE CollectorDrops
      BY <1>30, <2>5 DEF CollectorDrops
    <2>6. CASE PublisherDrops
      BY <1>30, <2>6 DEF PublisherDrops
    <2> QED
      BY <1>30, <2>1, <2>2, <2>3, <2>4, <2>5, <2>6 DEF Messages
  <1>31. CASE Surroundings /\ UNCHANGED <<replay, mqtt, receiver, command>>
    <2>1. ASSUME NEW h \in Hops, FarComesUp(h) PROVE PlaceTypes'
      BY <1>31, <2>1 DEF FarComesUp
    <2>2. ASSUME NEW h \in Hops, FarEnds(h) PROVE PlaceTypes'
      BY <1>31, <2>2 DEF FarEnds
    <2>3. ASSUME NEW h \in Hops, ForeignTakes(h) PROVE PlaceTypes'
      BY <1>31, <2>3 DEF ForeignTakes
    <2>4. ASSUME NEW h \in Hops, ForeignLeaves(h) PROVE PlaceTypes'
      BY <1>31, <2>4 DEF ForeignLeaves
    <2>5. CASE RelayAccepts
      BY <1>31, <2>5 DEF RelayAccepts
    <2>6. CASE LinkChanges
      BY <1>31, <2>6 DEF LinkChanges
    <2> QED
      BY <1>31, <2>1, <2>2, <2>3, <2>4, <2>5, <2>6 DEF Surroundings
  <1>32. CASE UNCHANGED vars
    BY <1>32 DEF vars
  <1> QED
    BY <1>1, <1>2, <1>3, <1>4, <1>5, <1>6, <1>7, <1>8, <1>9, <1>10, <1>11, <1>12, <1>13, <1>14, <1>15, <1>16, <1>17, <1>18, <1>19, <1>20, <1>21, <1>22, <1>23, <1>24, <1>25, <1>26, <1>27, <1>28, <1>29, <1>30, <1>31, <1>32 DEF Next, Steps, Worker

LEMMA SentStep == SentInv /\ SentTypes /\ EarlyInv /\ ReplayTypes /\ [Next]_vars => SentInv'
  <1> SUFFICES ASSUME SentInv, SentTypes, EarlyInv, ReplayTypes, [Next]_vars PROVE SentInv'
    OBVIOUS
  <1> USE DEF Goto, Fail, Work, replay, mqtt, receiver, command, transport, chain, standing, weather, SentInv, SentTypes, EarlyInv, ReplayTypes, Events
  <1>1. CASE StartCollector
    BY <1>1 DEF StartCollector
  <1>2. CASE CheckPorts
    BY <1>2 DEF CheckPorts
  <1>3. CASE Hop
    BY <1>3 DEF Hop, StartHop
  <1>4. CASE AwaitHop
    BY <1>4 DEF AwaitHop, HopReady
  <1>5. CASE HopFails
    BY <1>5 DEF HopFails, Rollback, Reap
  <1>6. CASE Connect
    BY <1>6 DEF Connect
  <1>7. CASE Barrier
    BY <1>7 DEF Barrier
  <1>8. CASE Release
    BY <1>8 DEF Release
  <1>9. CASE Wait
    BY <1>9 DEF Wait
  <1>10. CASE Canaries
    BY <1>10 DEF Canaries
  <1>11. CASE Reconcile
    BY <1>11 DEF Reconcile
  <1>12. CASE Accept
    BY <1>12 DEF Accept
  <1>13. CASE CancelReplay
    BY <1>13 DEF CancelReplay
  <1>14. CASE Join
    BY <1>14 DEF Join
  <1>15. CASE PersistLast
    BY <1>15 DEF PersistLast
  <1>16. CASE StopCollector
    BY <1>16 DEF StopCollector
  <1>17. CASE StopTransport
    BY <1>17 DEF StopTransport, StopHops
  <1>18. CASE ReapTransport
    BY <1>18 DEF ReapTransport, ReapLeft, NothingToReap, Reap
  <1>19. CASE CertifyTransport
    BY <1>19 DEF CertifyTransport, Certify
  <1>20. CASE Judge
    BY <1>20 DEF Judge
  <1>21. CASE RemoveGate
    BY <1>21 DEF RemoveGate
  <1>22. CASE GiveUp
    BY <1>22 DEF GiveUp
  <1>23. CASE AwaitStart
    BY <1>23 DEF AwaitStart
  <1>24. CASE Replay
    BY <1>24 DEF Replay
  <1>25. CASE Publish
    <2>1. next \in Events /\ next' = next + 1 /\ got' = got /\ worker' = "replay"
      BY <1>25 DEF Publish
    <2>2. \A e \in flight' : e \in flight \/ e = next
      BY <1>25 DEF Publish
    <2>3. next \in Nat /\ flight \subseteq Events /\ \A e \in Events : e \in Nat
      BY <2>1, IotAssumption
    <2>4. ASSUME NEW e \in flight' PROVE got[e] = 0 /\ e < next + 1
      <3>1. CASE e \in flight
        BY <2>3, <3>1
      <3>2. CASE e = next
        BY <2>1, <2>3, <3>2
      <3> QED
        BY <2>2, <3>1, <3>2
    <2>5. \A e \in Events : e >= next + 1 => got[e] = 0
      BY <2>3
    <2> QED
      BY <2>1, <2>4, <2>5
  <1>26. CASE Finish
    BY <1>26 DEF Finish
  <1>27. CASE Leave
    BY <1>27 DEF Leave
  <1>28. CASE PersistRead
    BY <1>28 DEF PersistRead
  <1>29. CASE PersistWrite
    BY <1>29 DEF PersistWrite
  <1>30. CASE Messages
    <2>1. ASSUME NEW e \in Events, Arrives(e) PROVE SentInv'
      BY <1>30, <2>1 DEF Arrives
    <2>2. ASSUME NEW e \in Events, Lost(e) PROVE SentInv'
      BY <1>30, <2>2 DEF Lost
    <2>3. ASSUME NEW s \in Sensors, StartCanaryArrives(s) PROVE SentInv'
      BY <1>30, <2>3 DEF StartCanaryArrives
    <2>4. ASSUME NEW s \in Sensors, EndCanaryArrives(s) PROVE SentInv'
      BY <1>30, <2>4 DEF EndCanaryArrives
    <2>5. CASE CollectorDrops
      BY <1>30, <2>5 DEF CollectorDrops
    <2>6. CASE PublisherDrops
      BY <1>30, <2>6 DEF PublisherDrops
    <2> QED
      BY <1>30, <2>1, <2>2, <2>3, <2>4, <2>5, <2>6 DEF Messages
  <1>31. CASE Surroundings /\ UNCHANGED <<replay, mqtt, receiver, command>>
    <2>1. ASSUME NEW h \in Hops, FarComesUp(h) PROVE SentInv'
      BY <1>31, <2>1 DEF FarComesUp
    <2>2. ASSUME NEW h \in Hops, FarEnds(h) PROVE SentInv'
      BY <1>31, <2>2 DEF FarEnds
    <2>3. ASSUME NEW h \in Hops, ForeignTakes(h) PROVE SentInv'
      BY <1>31, <2>3 DEF ForeignTakes
    <2>4. ASSUME NEW h \in Hops, ForeignLeaves(h) PROVE SentInv'
      BY <1>31, <2>4 DEF ForeignLeaves
    <2>5. CASE RelayAccepts
      BY <1>31, <2>5 DEF RelayAccepts
    <2>6. CASE LinkChanges
      BY <1>31, <2>6 DEF LinkChanges
    <2> QED
      BY <1>31, <2>1, <2>2, <2>3, <2>4, <2>5, <2>6 DEF Surroundings
  <1>32. CASE UNCHANGED vars
    BY <1>32 DEF vars
  <1> QED
    BY <1>1, <1>2, <1>3, <1>4, <1>5, <1>6, <1>7, <1>8, <1>9, <1>10, <1>11, <1>12, <1>13, <1>14, <1>15, <1>16, <1>17, <1>18, <1>19, <1>20, <1>21, <1>22, <1>23, <1>24, <1>25, <1>26, <1>27, <1>28, <1>29, <1>30, <1>31, <1>32 DEF Next, Steps, Worker

LEMMA EarlyStep == EarlyInv /\ MqttTypes /\ ReplayTypes /\ [Next]_vars => EarlyInv'
  <1> SUFFICES ASSUME EarlyInv, MqttTypes, ReplayTypes, [Next]_vars PROVE EarlyInv'
    OBVIOUS
  <1> USE DEF Goto, Fail, Work, replay, mqtt, receiver, command, transport, chain, standing, weather, EarlyInv, MqttTypes, ReplayTypes
  <1>1. CASE StartCollector
    BY <1>1 DEF StartCollector
  <1>2. CASE CheckPorts
    BY <1>2 DEF CheckPorts
  <1>3. CASE Hop
    BY <1>3 DEF Hop, StartHop
  <1>4. CASE AwaitHop
    BY <1>4 DEF AwaitHop, HopReady
  <1>5. CASE HopFails
    BY <1>5 DEF HopFails, Rollback, Reap
  <1>6. CASE Connect
    BY <1>6 DEF Connect
  <1>7. CASE Barrier
    BY <1>7 DEF Barrier
  <1>8. CASE Release
    BY <1>8 DEF Release
  <1>9. CASE Wait
    BY <1>9 DEF Wait
  <1>10. CASE Canaries
    BY <1>10 DEF Canaries
  <1>11. CASE Reconcile
    BY <1>11 DEF Reconcile
  <1>12. CASE Accept
    BY <1>12 DEF Accept
  <1>13. CASE CancelReplay
    BY <1>13 DEF CancelReplay
  <1>14. CASE Join
    BY <1>14 DEF Join
  <1>15. CASE PersistLast
    BY <1>15 DEF PersistLast
  <1>16. CASE StopCollector
    BY <1>16 DEF StopCollector
  <1>17. CASE StopTransport
    BY <1>17 DEF StopTransport, StopHops
  <1>18. CASE ReapTransport
    BY <1>18 DEF ReapTransport, ReapLeft, NothingToReap, Reap
  <1>19. CASE CertifyTransport
    BY <1>19 DEF CertifyTransport, Certify
  <1>20. CASE Judge
    BY <1>20 DEF Judge
  <1>21. CASE RemoveGate
    BY <1>21 DEF RemoveGate
  <1>22. CASE GiveUp
    BY <1>22 DEF GiveUp
  <1>23. CASE AwaitStart
    BY <1>23 DEF AwaitStart
  <1>24. CASE Replay
    BY <1>24 DEF Replay
  <1>25. CASE Publish
    BY <1>25 DEF Publish
  <1>26. CASE Finish
    BY <1>26 DEF Finish
  <1>27. CASE Leave
    BY <1>27 DEF Leave
  <1>28. CASE PersistRead
    BY <1>28 DEF PersistRead
  <1>29. CASE PersistWrite
    BY <1>29 DEF PersistWrite
  <1>30. CASE Messages
    <2>1. ASSUME NEW e \in Events, Arrives(e) PROVE EarlyInv'
      BY <1>30, <2>1 DEF Arrives
    <2>2. ASSUME NEW e \in Events, Lost(e) PROVE EarlyInv'
      BY <1>30, <2>2 DEF Lost
    <2>3. ASSUME NEW s \in Sensors, StartCanaryArrives(s) PROVE EarlyInv'
      BY <1>30, <2>3 DEF StartCanaryArrives
    <2>4. ASSUME NEW s \in Sensors, EndCanaryArrives(s) PROVE EarlyInv'
      BY <1>30, <2>4 DEF EndCanaryArrives
    <2>5. CASE CollectorDrops
      BY <1>30, <2>5 DEF CollectorDrops
    <2>6. CASE PublisherDrops
      BY <1>30, <2>6 DEF PublisherDrops
    <2> QED
      BY <1>30, <2>1, <2>2, <2>3, <2>4, <2>5, <2>6 DEF Messages
  <1>31. CASE Surroundings /\ UNCHANGED <<replay, mqtt, receiver, command>>
    <2>1. ASSUME NEW h \in Hops, FarComesUp(h) PROVE EarlyInv'
      BY <1>31, <2>1 DEF FarComesUp
    <2>2. ASSUME NEW h \in Hops, FarEnds(h) PROVE EarlyInv'
      BY <1>31, <2>2 DEF FarEnds
    <2>3. ASSUME NEW h \in Hops, ForeignTakes(h) PROVE EarlyInv'
      BY <1>31, <2>3 DEF ForeignTakes
    <2>4. ASSUME NEW h \in Hops, ForeignLeaves(h) PROVE EarlyInv'
      BY <1>31, <2>4 DEF ForeignLeaves
    <2>5. CASE RelayAccepts
      BY <1>31, <2>5 DEF RelayAccepts
    <2>6. CASE LinkChanges
      BY <1>31, <2>6 DEF LinkChanges
    <2> QED
      BY <1>31, <2>1, <2>2, <2>3, <2>4, <2>5, <2>6 DEF Surroundings
  <1>32. CASE UNCHANGED vars
    BY <1>32 DEF vars
  <1> QED
    BY <1>1, <1>2, <1>3, <1>4, <1>5, <1>6, <1>7, <1>8, <1>9, <1>10, <1>11, <1>12, <1>13, <1>14, <1>15, <1>16, <1>17, <1>18, <1>19, <1>20, <1>21, <1>22, <1>23, <1>24, <1>25, <1>26, <1>27, <1>28, <1>29, <1>30, <1>31, <1>32 DEF Next, Steps, Worker

LEMMA WriterStep == WriterInv /\ EarlyInv /\ ReplayTypes /\ FileTypes /\ PlaceTypes /\ [Next]_vars => WriterInv'
  <1> SUFFICES ASSUME WriterInv, EarlyInv, ReplayTypes, FileTypes, PlaceTypes, [Next]_vars PROVE WriterInv'
    OBVIOUS
  <1> USE DEF Goto, Fail, Work, replay, mqtt, receiver, command, transport, chain, standing, weather, WriterInv, EarlyInv, ReplayTypes, FileTypes, PlaceTypes, Places, Before, Settled, Files, Verdicts, Sections, Stopping
  <1>1. CASE StartCollector
    BY <1>1 DEF StartCollector
  <1>2. CASE CheckPorts
    BY <1>2 DEF CheckPorts
  <1>3. CASE Hop
    BY <1>3 DEF Hop, StartHop
  <1>4. CASE AwaitHop
    BY <1>4 DEF AwaitHop, HopReady
  <1>5. CASE HopFails
    BY <1>5 DEF HopFails, Rollback, Reap
  <1>6. CASE Connect
    BY <1>6 DEF Connect
  <1>7. CASE Barrier
    BY <1>7 DEF Barrier
  <1>8. CASE Release
    BY <1>8 DEF Release
  <1>9. CASE Wait
    BY <1>9 DEF Wait
  <1>10. CASE Canaries
    BY <1>10 DEF Canaries
  <1>11. CASE Reconcile
    BY <1>11 DEF Reconcile
  <1>12. CASE Accept
    BY <1>12 DEF Accept
  <1>13. CASE CancelReplay
    BY <1>13 DEF CancelReplay
  <1>14. CASE Join
    BY <1>14 DEF Join
  <1>15. CASE PersistLast
    BY <1>15 DEF PersistLast
  <1>16. CASE StopCollector
    BY <1>16 DEF StopCollector
  <1>17. CASE StopTransport
    BY <1>17 DEF StopTransport, StopHops
  <1>18. CASE ReapTransport
    BY <1>18 DEF ReapTransport, ReapLeft, NothingToReap, Reap
  <1>19. CASE CertifyTransport
    BY <1>19 DEF CertifyTransport, Certify
  <1>20. CASE Judge
    BY <1>20 DEF Judge
  <1>21. CASE RemoveGate
    BY <1>21 DEF RemoveGate
  <1>22. CASE GiveUp
    BY <1>22 DEF GiveUp
  <1>23. CASE AwaitStart
    BY <1>23 DEF AwaitStart
  <1>24. CASE Replay
    BY <1>24 DEF Replay
  <1>25. CASE Publish
    BY <1>25 DEF Publish
  <1>26. CASE Finish
    BY <1>26 DEF Finish
  <1>27. CASE Leave
    BY <1>27 DEF Leave
  <1>28. CASE PersistRead
    BY <1>28 DEF PersistRead
  <1>29. CASE PersistWrite
    BY <1>29 DEF PersistWrite
  <1>30. CASE Messages
    <2>1. ASSUME NEW e \in Events, Arrives(e) PROVE WriterInv'
      BY <1>30, <2>1 DEF Arrives
    <2>2. ASSUME NEW e \in Events, Lost(e) PROVE WriterInv'
      BY <1>30, <2>2 DEF Lost
    <2>3. ASSUME NEW s \in Sensors, StartCanaryArrives(s) PROVE WriterInv'
      BY <1>30, <2>3 DEF StartCanaryArrives
    <2>4. ASSUME NEW s \in Sensors, EndCanaryArrives(s) PROVE WriterInv'
      BY <1>30, <2>4 DEF EndCanaryArrives
    <2>5. CASE CollectorDrops
      BY <1>30, <2>5 DEF CollectorDrops
    <2>6. CASE PublisherDrops
      BY <1>30, <2>6 DEF PublisherDrops
    <2> QED
      BY <1>30, <2>1, <2>2, <2>3, <2>4, <2>5, <2>6 DEF Messages
  <1>31. CASE Surroundings /\ UNCHANGED <<replay, mqtt, receiver, command>>
    <2>1. ASSUME NEW h \in Hops, FarComesUp(h) PROVE WriterInv'
      BY <1>31, <2>1 DEF FarComesUp
    <2>2. ASSUME NEW h \in Hops, FarEnds(h) PROVE WriterInv'
      BY <1>31, <2>2 DEF FarEnds
    <2>3. ASSUME NEW h \in Hops, ForeignTakes(h) PROVE WriterInv'
      BY <1>31, <2>3 DEF ForeignTakes
    <2>4. ASSUME NEW h \in Hops, ForeignLeaves(h) PROVE WriterInv'
      BY <1>31, <2>4 DEF ForeignLeaves
    <2>5. CASE RelayAccepts
      BY <1>31, <2>5 DEF RelayAccepts
    <2>6. CASE LinkChanges
      BY <1>31, <2>6 DEF LinkChanges
    <2> QED
      BY <1>31, <2>1, <2>2, <2>3, <2>4, <2>5, <2>6 DEF Surroundings
  <1>32. CASE UNCHANGED vars
    BY <1>32 DEF vars
  <1> QED
    BY <1>1, <1>2, <1>3, <1>4, <1>5, <1>6, <1>7, <1>8, <1>9, <1>10, <1>11, <1>12, <1>13, <1>14, <1>15, <1>16, <1>17, <1>18, <1>19, <1>20, <1>21, <1>22, <1>23, <1>24, <1>25, <1>26, <1>27, <1>28, <1>29, <1>30, <1>31, <1>32 DEF Next, Steps, Worker

LEMMA AllStep == AllInv /\ WriterInv /\ SentInv /\ SentTypes /\ PlaceTypes /\ [Next]_vars => AllInv'
  <1> SUFFICES ASSUME AllInv, WriterInv, SentInv, SentTypes, PlaceTypes, [Next]_vars PROVE AllInv'
    OBVIOUS
  <1> USE DEF Goto, Fail, Work, replay, mqtt, receiver, command, transport, chain, standing, weather, AllInv, WriterInv, SentInv, SentTypes, PlaceTypes, Before
  <1>1. CASE StartCollector
    BY <1>1 DEF StartCollector
  <1>2. CASE CheckPorts
    BY <1>2 DEF CheckPorts
  <1>3. CASE Hop
    BY <1>3 DEF Hop, StartHop
  <1>4. CASE AwaitHop
    BY <1>4 DEF AwaitHop, HopReady
  <1>5. CASE HopFails
    BY <1>5 DEF HopFails, Rollback, Reap
  <1>6. CASE Connect
    BY <1>6 DEF Connect
  <1>7. CASE Barrier
    BY <1>7 DEF Barrier
  <1>8. CASE Release
    BY <1>8 DEF Release
  <1>9. CASE Wait
    BY <1>9 DEF Wait
  <1>10. CASE Canaries
    BY <1>10 DEF Canaries
  <1>11. CASE Reconcile
    BY <1>11 DEF Reconcile
  <1>12. CASE Accept
    BY <1>12 DEF Accept
  <1>13. CASE CancelReplay
    BY <1>13 DEF CancelReplay
  <1>14. CASE Join
    BY <1>14 DEF Join
  <1>15. CASE PersistLast
    BY <1>15 DEF PersistLast
  <1>16. CASE StopCollector
    BY <1>16 DEF StopCollector
  <1>17. CASE StopTransport
    BY <1>17 DEF StopTransport, StopHops
  <1>18. CASE ReapTransport
    BY <1>18 DEF ReapTransport, ReapLeft, NothingToReap, Reap
  <1>19. CASE CertifyTransport
    BY <1>19 DEF CertifyTransport, Certify
  <1>20. CASE Judge
    BY <1>20 DEF Judge
  <1>21. CASE RemoveGate
    BY <1>21 DEF RemoveGate
  <1>22. CASE GiveUp
    BY <1>22 DEF GiveUp
  <1>23. CASE AwaitStart
    BY <1>23 DEF AwaitStart
  <1>24. CASE Replay
    BY <1>24 DEF Replay
  <1>25. CASE Publish
    BY <1>25 DEF Publish
  <1>26. CASE Finish
    BY <1>26 DEF Finish
  <1>27. CASE Leave
    BY <1>27 DEF Leave
  <1>28. CASE PersistRead
    BY <1>28 DEF PersistRead
  <1>29. CASE PersistWrite
    BY <1>29 DEF PersistWrite
  <1>30. CASE Messages
    <2>1. ASSUME NEW e \in Events, Arrives(e) PROVE AllInv'
      BY <1>30, <2>1 DEF Arrives
    <2>2. ASSUME NEW e \in Events, Lost(e) PROVE AllInv'
      BY <1>30, <2>2 DEF Lost
    <2>3. ASSUME NEW s \in Sensors, StartCanaryArrives(s) PROVE AllInv'
      BY <1>30, <2>3 DEF StartCanaryArrives
    <2>4. ASSUME NEW s \in Sensors, EndCanaryArrives(s) PROVE AllInv'
      BY <1>30, <2>4 DEF EndCanaryArrives
    <2>5. CASE CollectorDrops
      BY <1>30, <2>5 DEF CollectorDrops
    <2>6. CASE PublisherDrops
      BY <1>30, <2>6 DEF PublisherDrops
    <2> QED
      BY <1>30, <2>1, <2>2, <2>3, <2>4, <2>5, <2>6 DEF Messages
  <1>31. CASE Surroundings /\ UNCHANGED <<replay, mqtt, receiver, command>>
    <2>1. ASSUME NEW h \in Hops, FarComesUp(h) PROVE AllInv'
      BY <1>31, <2>1 DEF FarComesUp
    <2>2. ASSUME NEW h \in Hops, FarEnds(h) PROVE AllInv'
      BY <1>31, <2>2 DEF FarEnds
    <2>3. ASSUME NEW h \in Hops, ForeignTakes(h) PROVE AllInv'
      BY <1>31, <2>3 DEF ForeignTakes
    <2>4. ASSUME NEW h \in Hops, ForeignLeaves(h) PROVE AllInv'
      BY <1>31, <2>4 DEF ForeignLeaves
    <2>5. CASE RelayAccepts
      BY <1>31, <2>5 DEF RelayAccepts
    <2>6. CASE LinkChanges
      BY <1>31, <2>6 DEF LinkChanges
    <2> QED
      BY <1>31, <2>1, <2>2, <2>3, <2>4, <2>5, <2>6 DEF Surroundings
  <1>32. CASE UNCHANGED vars
    BY <1>32 DEF vars
  <1> QED
    BY <1>1, <1>2, <1>3, <1>4, <1>5, <1>6, <1>7, <1>8, <1>9, <1>10, <1>11, <1>12, <1>13, <1>14, <1>15, <1>16, <1>17, <1>18, <1>19, <1>20, <1>21, <1>22, <1>23, <1>24, <1>25, <1>26, <1>27, <1>28, <1>29, <1>30, <1>31, <1>32 DEF Next, Steps, Worker

LEMMA HereStays == ASSUME UNCHANGED <<backend, hop>> PROVE Here' = Here
  BY DEF Here, Chain

LEMMA ComingFrame ==
  ASSUME ComingInv, UNCHANGED <<backend, far, hop, session, soiled, misread, pc>>
  PROVE  ComingInv'
  <1>1. Here' = Here /\ CleanupValid' = CleanupValid /\ NothingElseLeft' = NothingElseLeft
    BY HereStays DEF CleanupValid, NothingElseLeft
  <1> QED
    BY <1>1 DEF ComingInv

LEMMA ComingStep == ComingInv /\ ChainTypes /\ HopTypes /\ [Next]_vars => ComingInv'
  <1> SUFFICES ASSUME ComingInv, ChainTypes, HopTypes, [Next]_vars PROVE ComingInv'
    OBVIOUS
  <1> USE DEF Goto, Fail, Work, replay, mqtt, receiver, command, transport, chain, standing, weather, ComingInv, ChainTypes, HopTypes
  <1>1. CASE StartCollector
    BY <1>1 DEF StartCollector, CleanupValid, NothingElseLeft
  <1>2. CASE CheckPorts
    BY <1>2 DEF CheckPorts, CleanupValid, NothingElseLeft
  <1>3. CASE Hop
    <2>1. Here' = Here /\ UNCHANGED <<session, soiled, misread>> /\ pc = "hop" /\ pc' = "await"
      BY <1>3, HereStays DEF Hop, StartHop
    <2>2. \A i \in Ports : far'[i] = "coming" => far[i] = "coming" \/ i = Here
      BY <1>3 DEF Hop, StartHop, Hops, Ports
    <2> QED
      BY <2>1, <2>2 DEF CleanupValid
  <1>4. CASE AwaitHop
    <2>1. UNCHANGED <<far, backend>> /\ pc = "await" /\ pc' \in {"clients", "hop"}
            /\ session' \in {"open", session} /\ (pc' = "hop" => session' = session)
      BY <1>4 DEF AwaitHop, HopReady
    <2>2. misread \subseteq misread' /\ (Here \in Ports /\ far[Here] # "up" => Here \in misread')
      BY <1>4 DEF AwaitHop, HopReady
    <2>3. \A h \in Ports \ misread' : far[h] # "coming"
      BY <2>1, <2>2
    <2> QED
      BY <2>1, <2>3 DEF CleanupValid
  <1>5. CASE HopFails
    BY <1>5 DEF HopFails, Rollback, Reap, CleanupValid, NothingElseLeft
  <1>6. CASE Connect
    BY <1>6 DEF Connect, CleanupValid, NothingElseLeft
  <1>7. CASE Barrier
    BY <1>7 DEF Barrier, CleanupValid, NothingElseLeft
  <1>8. CASE Release
    BY <1>8 DEF Release, CleanupValid, NothingElseLeft
  <1>9. CASE Wait
    BY <1>9 DEF Wait, CleanupValid, NothingElseLeft
  <1>10. CASE Canaries
    BY <1>10 DEF Canaries, CleanupValid, NothingElseLeft
  <1>11. CASE Reconcile
    BY <1>11 DEF Reconcile, CleanupValid, NothingElseLeft
  <1>12. CASE Accept
    BY <1>12 DEF Accept, CleanupValid, NothingElseLeft
  <1>13. CASE CancelReplay
    BY <1>13 DEF CancelReplay, CleanupValid, NothingElseLeft
  <1>14. CASE Join
    BY <1>14 DEF Join, CleanupValid, NothingElseLeft
  <1>15. CASE PersistLast
    BY <1>15 DEF PersistLast, CleanupValid, NothingElseLeft
  <1>16. CASE StopCollector
    BY <1>16 DEF StopCollector, CleanupValid, NothingElseLeft
  <1>17. CASE StopTransport
    BY <1>17 DEF StopTransport, StopHops, CleanupValid, NothingElseLeft
  <1>18. CASE ReapTransport
    <2>1. CASE NothingToReap
      BY <1>18, <2>1 DEF ReapTransport, NothingToReap, CleanupValid, NothingElseLeft
    <2>2. CASE ReapLeft
      <3>1. PICK left \in SUBSET Ports : Reap(left) /\ soiled' = (soiled \/ left # {} \/ ~link)
        BY <2>2 DEF ReapLeft
      <3>2. \A i \in Hops : far'[i] = far[i] \/ far'[i] = "none"
        BY <3>1 DEF Reap
      <3>3. pc = "reap" /\ pc' = "certify" /\ session' = session /\ misread' = misread /\ (~soiled' => ~soiled)
        BY <1>18, <2>2, <3>1 DEF ReapTransport, ReapLeft
      <3>4. CleanupValid' => NothingElseLeft
        BY <3>3 DEF CleanupValid
      <3> QED
        BY <3>2, <3>3, <3>4 DEF Hops, Ports, NothingElseLeft
    <2> QED
      BY <1>18, <2>1, <2>2 DEF ReapTransport
  <1>19. CASE CertifyTransport
    <2>1. /\ UNCHANGED <<far, hop, backend>> /\ pc = "certify" /\ pc' = "judge"
          /\ session' = "stopped" /\ (~soiled' => Closed)
          /\ misread' = misread \cup {h \in Ports : far[h] = "up" /\ SaysClosed(h)}
      BY <1>19 DEF CertifyTransport, Certify
    <2>2. \A h \in Ports \ misread : far[h] # "coming"
      BY <1>19 DEF CertifyTransport
    <2>3. Closed => \A h \in Ports \ misread' : far[h] = "none"
      BY <2>1, <2>2 DEF Closed, Hops, Ports
    <2> QED
      BY <2>1, <2>2, <2>3 DEF CleanupValid, NothingElseLeft
  <1>20. CASE Judge
    BY <1>20 DEF Judge, CleanupValid, NothingElseLeft
  <1>21. CASE RemoveGate
    BY <1>21 DEF RemoveGate, CleanupValid, NothingElseLeft
  <1>22. CASE GiveUp
    BY <1>22 DEF GiveUp, CleanupValid, NothingElseLeft
  <1>23. CASE AwaitStart
    BY <1>23, ComingFrame DEF AwaitStart
  <1>24. CASE Replay
    BY <1>24, ComingFrame DEF Replay
  <1>25. CASE Publish
    BY <1>25, ComingFrame DEF Publish
  <1>26. CASE Finish
    BY <1>26, ComingFrame DEF Finish
  <1>27. CASE Leave
    BY <1>27, ComingFrame DEF Leave
  <1>28. CASE PersistRead
    BY <1>28, ComingFrame DEF PersistRead
  <1>29. CASE PersistWrite
    BY <1>29, ComingFrame DEF PersistWrite
  <1>30. CASE Messages
    <2>1. ASSUME NEW e \in Events, Arrives(e) PROVE ComingInv'
      BY <1>30, <2>1, ComingFrame DEF Arrives
    <2>2. ASSUME NEW e \in Events, Lost(e) PROVE ComingInv'
      BY <1>30, <2>2, ComingFrame DEF Lost
    <2>3. ASSUME NEW s \in Sensors, StartCanaryArrives(s) PROVE ComingInv'
      BY <1>30, <2>3, ComingFrame DEF StartCanaryArrives
    <2>4. ASSUME NEW s \in Sensors, EndCanaryArrives(s) PROVE ComingInv'
      BY <1>30, <2>4, ComingFrame DEF EndCanaryArrives
    <2>5. CASE CollectorDrops
      BY <1>30, <2>5, ComingFrame DEF CollectorDrops
    <2>6. CASE PublisherDrops
      BY <1>30, <2>6, ComingFrame DEF PublisherDrops
    <2> QED
      BY <1>30, <2>1, <2>2, <2>3, <2>4, <2>5, <2>6 DEF Messages
  <1>31. CASE Surroundings /\ UNCHANGED <<replay, mqtt, receiver, command>>
    <2>1. ASSUME NEW h \in Hops, FarComesUp(h) PROVE ComingInv'
      <3>1. Here' = Here /\ UNCHANGED <<pc, session, soiled, misread>>
        BY <1>31, <2>1, HereStays DEF FarComesUp, FarEnds
      <3>2. \A i \in Hops : far'[i] = "coming" => far[i] = "coming"
        BY <1>31, <2>1 DEF FarComesUp, FarEnds
      <3>3. NothingElseLeft => NothingElseLeft'
        BY <1>31, <2>1 DEF FarComesUp, FarEnds, NothingElseLeft
      <3>4. CleanupValid' => CleanupValid
        BY <3>1 DEF CleanupValid
      <3> QED
        BY <3>1, <3>2, <3>3, <3>4 DEF Hops, Ports
    <2>2. ASSUME NEW h \in Hops, FarEnds(h) PROVE ComingInv'
      <3>1. Here' = Here /\ UNCHANGED <<pc, session, soiled, misread>>
        BY <1>31, <2>2, HereStays DEF FarComesUp, FarEnds
      <3>2. \A i \in Hops : far'[i] = "coming" => far[i] = "coming"
        BY <1>31, <2>2 DEF FarComesUp, FarEnds
      <3>3. NothingElseLeft => NothingElseLeft'
        BY <1>31, <2>2 DEF FarComesUp, FarEnds, NothingElseLeft
      <3>4. CleanupValid' => CleanupValid
        BY <3>1 DEF CleanupValid
      <3> QED
        BY <3>1, <3>2, <3>3, <3>4 DEF Hops, Ports
    <2>3. ASSUME NEW h \in Hops, ForeignTakes(h) PROVE ComingInv'
      BY <1>31, <2>3, ComingFrame DEF ForeignTakes
    <2>4. ASSUME NEW h \in Hops, ForeignLeaves(h) PROVE ComingInv'
      BY <1>31, <2>4, ComingFrame DEF ForeignLeaves
    <2>5. CASE RelayAccepts
      <3>1. Here' = Here /\ UNCHANGED <<pc, session, soiled, misread>>
        BY <1>31, <2>5, HereStays DEF RelayAccepts
      <3>2. \A i \in Ports : far'[i] = far[i]
        BY <1>31, <2>5 DEF RelayAccepts, Ports
      <3> QED
        BY <3>1, <3>2 DEF CleanupValid, NothingElseLeft
    <2>6. CASE LinkChanges
      BY <1>31, <2>6, ComingFrame DEF LinkChanges
    <2> QED
      BY <1>31, <2>1, <2>2, <2>3, <2>4, <2>5, <2>6 DEF Surroundings
  <1>32. CASE UNCHANGED vars
    BY <1>32, ComingFrame DEF vars
  <1> QED
    BY <1>1, <1>2, <1>3, <1>4, <1>5, <1>6, <1>7, <1>8, <1>9, <1>10, <1>11, <1>12, <1>13, <1>14, <1>15, <1>16, <1>17, <1>18, <1>19, <1>20, <1>21, <1>22, <1>23, <1>24, <1>25, <1>26, <1>27, <1>28, <1>29, <1>30, <1>31, <1>32 DEF Next, Steps, Worker

-----------------------------------------------------------------------------
Inv == TypeOK /\ SentInv /\ EarlyInv /\ WriterInv /\ AllInv

LEMMA NoOutageYet == 0 \in 0..MaxOutages
  BY TransportAssumption

LEMMA InitInv == Init => Inv
  <1> SUFFICES ASSUME Init PROVE Inv
    OBVIOUS
  <1> USE DEF Init, TransportInit
  <1>1. ChainTypes /\ HopTypes
    BY DEF ChainTypes, HopTypes, LastHop, Hops
  <1>2. WeatherTypes
    <2>1. outages = 0 /\ soiled = FALSE /\ misread = {} /\ link = TRUE
      OBVIOUS
    <2> QED
      BY <2>1, NoOutageYet, Zenon DEF WeatherTypes
  <1>6. ReplayTypes /\ PlaceTypes
    BY DEF ReplayTypes, PlaceTypes, Places
  <1>3. FileTypes /\ MqttTypes
    BY DEF FileTypes, MqttTypes, Files, Verdicts, Sections
  <1>4. SentTypes
    BY IotAssumption DEF SentTypes
  <1>5. SentInv /\ EarlyInv /\ WriterInv /\ AllInv
    BY DEF SentInv, EarlyInv, WriterInv, AllInv
  <1> QED
    BY <1>1, <1>2, <1>3, <1>4, <1>5, <1>6, Parts DEF Inv, Types

LEMMA TypesNext == TypeOK /\ SentInv /\ EarlyInv /\ [Next]_vars => TypeOK'
  <1> SUFFICES ASSUME TypeOK, SentInv, EarlyInv, [Next]_vars PROVE TypeOK'
    OBVIOUS
  <1>1. ChainTypes' /\ HopTypes' /\ WeatherTypes' /\ ReplayTypes' /\ FileTypes'
          /\ MqttTypes' /\ SentTypes' /\ PlaceTypes'
    BY Parts, ChainTypesStep, HopTypesStep, WeatherTypesStep, ReplayTypesStep, FileTypesStep,
       MqttTypesStep, SentTypesStep, PlaceTypesStep DEF Types
  <1>2. Len(Chain)' = LastHop'
    BY ChainLength, BackendStays DEF Chain, LastHop
  <1> QED
    BY <1>1, <1>2, Zenon DEF TypeOK, ChainTypes, HopTypes, WeatherTypes, ReplayTypes,
       FileTypes, MqttTypes, SentTypes, PlaceTypes

LEMMA Step == Inv /\ [Next]_vars => Inv'
  BY Parts, TypesNext, SentStep, EarlyStep, WriterStep, AllStep DEF Inv, Types

LEMMA InvHolds == Spec => []Inv
  BY InitInv, Step, PTL DEF Spec

-----------------------------------------------------------------------------
\* The state has its types; among them, that a reading is recorded once at most.
THEOREM TypeCorrect == Spec => []TypeOK
  <1>1. Inv => TypeOK
    BY DEF Inv
  <1> QED
    BY <1>1, InvHolds, PTL

\* No reading is sent before every start canary has been seen and the gate, if
\* there is one, has been released (_await_replay_start, wait_start_canaries).
THEOREM TelemetryNotEarly == Spec => []NoEarlyTelemetry
  <1>1. Inv => NoEarlyTelemetry
    BY DEF Inv, TypeOK, EarlyInv, NoEarlyTelemetry
  <1> QED
    BY <1>1, InvHolds, PTL

\* The replay thread does not touch the evidence of an accepted run: by the
\* time it is written the thread is over (stop, _persist, the finally block).
THEOREM AcceptedEvidenceStays == Spec => []ReadyEvidenceStays
  <1>1. Inv => ReadyEvidenceStays
    BY DEF Inv, WriterInv, Before, ReadyEvidenceStays
  <1> QED
    BY <1>1, InvHolds, PTL

\* The workload implements IotDelivery: nothing is recorded twice, it is
\* accepted only when everything is recorded, and stays accepted.
THEOREM DeliveryKept == Spec => KeepsDelivery
  <1>1. Init => Delivery!Init
    BY DEF Init, Delivery!Init
  <1>2. ASSUME Inv, [Next]_vars PROVE [Delivery!Next]_(Delivery!vars)
    <2> USE DEF Goto, Fail, Work, replay, mqtt, receiver, command, transport, Delivery!vars
    <2>1. CASE \E e \in Events : Arrives(e)
      <3>1. PICK e \in Events : Arrives(e)
        BY <2>1
      <3>2. got[e] = 0 /\ got \in [Events -> 0..1]
        BY <1>2, <3>1 DEF Inv, TypeOK, SentInv, Arrives
      <3>3. got' = [got EXCEPT ![e] = 1] /\ UNCHANGED file
        BY <3>1, <3>2 DEF Arrives
      <3> QED
        BY <3>2, <3>3 DEF Delivery!Next, Delivery!Record
    <2>2. CASE Judge
      <3>1. UNCHANGED got /\ (file'.ready = "ready" => good) /\ file.ready # "ready"
        BY <1>2, <2>2 DEF Judge, Inv, WriterInv
      <3>2. CASE file'.ready = "ready"
        BY <1>2, <3>1, <3>2 DEF Inv, AllInv, Delivery!Next, Delivery!Accept
      <3>3. CASE file'.ready # "ready"
        BY <3>1, <3>3
      <3> QED
        BY <3>2, <3>3
    <2>3. CASE PersistWrite
      <3>1. UNCHANGED got /\ file'.ready = memo.ready
        BY <1>2, <2>3 DEF PersistWrite, Inv, TypeOK, Files
      <3>2. memo.ready # "ready" /\ file.ready # "ready"
        BY <1>2, <2>3 DEF PersistWrite, Inv, WriterInv, Before
      <3> QED
        BY <3>1, <3>2
    <2>4. CASE PersistLast
      <3>1. UNCHANGED got /\ file'.ready = file.ready
        BY <1>2, <2>4 DEF PersistLast, Inv, TypeOK, Files
      <3> QED
        BY <3>1
    <2>5. CASE ~((\E e \in Events : Arrives(e)) \/ Judge \/ PersistWrite \/ PersistLast)
      <3>1. UNCHANGED <<got, file>>
        BY <1>2, <2>5 DEF Next, Steps, StartCollector, CheckPorts, Hop, AwaitHop, HopFails,
           Connect, Barrier, Release, Wait, Canaries, Reconcile, Accept, CancelReplay, Join,
           StopCollector, StopTransport, ReapTransport, CertifyTransport, RemoveGate, GiveUp,
           Worker, AwaitStart, Replay, Publish, Finish, Leave, PersistRead, Messages, Lost,
           StartCanaryArrives, EndCanaryArrives, CollectorDrops, PublisherDrops, vars
      <3> QED
        BY <3>1
    <2> QED
      BY <2>1, <2>2, <2>3, <2>4, <2>5
  <1>3. Inv /\ [Next]_vars => [Delivery!Next]_(Delivery!vars)
    BY <1>2
  <1>4. Spec => Delivery!Init /\ [][Delivery!Next]_(Delivery!vars)
    BY <1>1, <1>3, InvHolds, PTL DEF Spec
  <1> QED
    BY <1>4 DEF KeepsDelivery, Delivery!Spec

\* However often the link fails and whoever else listens on the node, a session
\* that certifies its cleanup has left no listener behind, nor one that is about to
\* come up, but at a port of which it misread an answer (stop and evidence of the
\* transport sessions, _remote_port_is_closed).
THEOREM CertifiedSessionsAreClean == Spec => []CertifiedIsClean
  <1> DEFINE J == Inv /\ ComingInv
  <1>1. Init => J
    BY InitInv DEF Init, TransportInit, ComingInv, CleanupValid, Hops, Ports
  <1>2. J /\ [Next]_vars => J'
    BY Step, ComingStep, Parts DEF Inv, Types
  <1>3. J => CertifiedIsClean
    BY DEF ComingInv, CertifiedIsClean
  <1>4. Spec => []J
    BY <1>1, <1>2, PTL DEF Spec
  <1> QED
    BY <1>3, <1>4, PTL

\* The evidence is ready only behind a cleanup that was certified.
CertifiedInv == file.ready = "ready" => CleanupValid

LEMMA CertifiedStep ==
  ASSUME Inv, CertifiedInv, [Next]_vars
  PROVE  CertifiedInv'
  <1> USE DEF Goto, Fail, Work, replay, mqtt, receiver, command, transport, chain, standing,
              weather, CertifiedInv, CleanupValid
  <1>0. /\ file \in Files /\ memo.ready # "ready"
        /\ file.ready = "ready" => pc = "over" /\ worker = "dead"
    BY DEF Inv, TypeOK, WriterInv, Before
  <1>1. CASE Judge
    BY <1>1 DEF Judge
  <1>2. CASE PersistWrite
    <2>1. file'.ready = memo.ready
      BY <1>2 DEF PersistWrite, Inv, TypeOK, Files
    <2> QED
      BY <1>0, <2>1
  <1>3. CASE PersistLast
    <2>1. file'.ready = file.ready /\ UNCHANGED <<session, soiled>>
      BY <1>0, <1>3 DEF PersistLast, Files
    <2> QED
      BY <2>1
  <1>4. CASE AwaitHop \/ ReapTransport \/ CertifyTransport
    BY <1>0, <1>4 DEF AwaitHop, ReapTransport, CertifyTransport
  <1>5. CASE ~(Judge \/ PersistWrite \/ PersistLast \/ AwaitHop \/ ReapTransport
               \/ CertifyTransport)
    <2>1. UNCHANGED <<file, session, soiled>>
      BY <1>5
         DEF Next, Steps, StartCollector, CheckPorts, Hop, StartHop, HopFails, Rollback,
             Connect, Barrier, Release, Wait, Canaries, Reconcile, Accept, CancelReplay,
             Join, StopCollector, StopTransport, StopHops, RemoveGate, GiveUp, Worker,
             AwaitStart, Replay, Publish, Finish, Leave, PersistRead, Messages, Arrives,
             Lost, StartCanaryArrives, EndCanaryArrives, CollectorDrops, PublisherDrops,
             Surroundings, FarComesUp, FarEnds, RelayAccepts, ForeignTakes, ForeignLeaves,
             LinkChanges, vars
    <2> QED
      BY <2>1
  <1> QED
    BY <1>1, <1>2, <1>3, <1>4, <1>5

\* Accepted evidence stands for a node without listeners of the run, but at a port
\* of which the session misread an answer: what the code makes of "fail closed"
\* (ReadyIsClean, docs/operator-guide.md).
THEOREM AcceptedNodesAreClean ==
  Spec => [](file.ready = "ready" => CleanupValid /\ NothingElseLeft)
  <1>1. Init => CertifiedInv
    BY DEF Init, CertifiedInv
  <1>2. Inv /\ CertifiedInv /\ [Next]_vars => CertifiedInv'
    BY CertifiedStep
  <1>3. CertifiedInv /\ CertifiedIsClean
          => (file.ready = "ready" => CleanupValid /\ NothingElseLeft)
    BY DEF CertifiedInv, CertifiedIsClean
  <1>4. Spec => []CertifiedIsClean
    BY CertifiedSessionsAreClean
  <1> QED
    BY <1>1, <1>2, <1>3, <1>4, InvHolds, PTL DEF Spec

\* An accepted workload has every reading (Delivery!AcceptedHasAll).
THEOREM AcceptedIsDelivered == Spec => []Delivery!AcceptedHasAll
  <1>1. Inv => Delivery!AcceptedHasAll
    BY DEF Inv, WriterInv, AllInv, Delivery!AcceptedHasAll
  <1> QED
    BY <1>1, InvHolds, PTL

\* It stays accepted, and its record is never added to: what is on its way when
\* the evidence is written is no reading of the run (Delivery!AcceptedIsFinal).
THEOREM DeliveryIsFinal == Spec => Delivery!AcceptedIsFinal
  <1>1. ASSUME Delivery!AcceptedHasAll, [Delivery!Next]_(Delivery!vars)
        PROVE  [file.ready = "ready" =>
                  (file.ready = "ready")' /\ got' = got]_(Delivery!vars)
    <2>1. CASE \E e \in Events : Delivery!Record(e)
      BY <1>1, <2>1 DEF Delivery!Record, Delivery!AcceptedHasAll
    <2>2. CASE Delivery!Accept
      BY <2>2 DEF Delivery!Accept
    <2> QED
      BY <1>1, <2>1, <2>2 DEF Delivery!Next
  <1>2. Delivery!AcceptedHasAll /\ [Delivery!Next]_(Delivery!vars)
          => [file.ready = "ready" =>
                (file.ready = "ready")' /\ got' = got]_(Delivery!vars)
    BY <1>1
  <1>3. Spec => [][Delivery!Next]_(Delivery!vars)
    BY DeliveryKept DEF KeepsDelivery, Delivery!Spec
  <1> QED
    BY <1>2, <1>3, AcceptedIsDelivered, PTL DEF Delivery!AcceptedIsFinal

-----------------------------------------------------------------------------
(* Other listeners.                                                        *)

\* One listens on a port at a time.
PortInv == \A h \in Hops : far[h] = "up" => h \notin foreign

LEMMA ListenersStay ==
  ASSUME [Next]_vars
  PROVE  \/ UNCHANGED <<far, foreign>>
         \/ Surroundings /\ pc' = pc
         \/ StartHop
         \/ backend = "rfsim" /\ \E left \in SUBSET Ports : Reap(left)
  BY DEF Next, Steps, StartCollector, CheckPorts, Hop, AwaitHop, HopReady, HopFails, Rollback,
         Connect, Barrier, Release, Wait, Canaries, Reconcile, Accept, CancelReplay, Join,
         PersistLast, StopCollector, StopTransport, StopHops, ReapTransport, ReapLeft,
         NothingToReap, CertifyTransport, Certify, Judge, RemoveGate, GiveUp, Worker,
         AwaitStart, Replay, Publish, Finish, Leave, PersistRead, PersistWrite, Messages,
         Arrives, Lost, StartCanaryArrives, EndCanaryArrives, CollectorDrops,
         PublisherDrops, Goto, Fail, Work, transport, chain, command, vars

LEMMA PortStep ==
  ASSUME ChainTypes, PortInv, [Next]_vars
  PROVE  PortInv'
  <1> SUFFICES ASSUME NEW h \in Hops, far'[h] = "up" PROVE h \notin foreign'
    BY DEF PortInv
  <1>1. CASE UNCHANGED <<far, foreign>>
    BY <1>1 DEF PortInv
  <1>2. CASE Surroundings
    BY <1>2 DEF Surroundings, FarComesUp, FarEnds, RelayAccepts, ForeignTakes, ForeignLeaves,
                LinkChanges, Listens, ChainTypes, PortInv, chain
  <1>3. CASE StartHop
    BY <1>3 DEF StartHop, ChainTypes, PortInv
  <1>4. ASSUME NEW left \in SUBSET Ports, Reap(left) PROVE h \notin foreign'
    BY <1>4 DEF Reap, PortInv
  <1> QED
    BY <1>1, <1>2, <1>3, <1>4, ListenersStay

\* A listener of somebody else is killed only if it was there when its port was
\* taken for the run's, and only on RFSIM (KillsWhatItRecorded); any number of
\* outages and of listeners that come and go.
THEOREM OthersAreLeftAlone == Spec => KillsWhatItRecorded
  <1>1. Init => PortInv
    BY DEF Init, TransportInit, PortInv
  <1>2. Inv /\ PortInv /\ [Next]_vars => PortInv'
    BY PortStep, Parts DEF Inv, Types
  <1>3. ASSUME Inv, PortInv, [Next]_vars, NEW h \in foreign, h \notin foreign', pc' # pc
        PROVE  backend = "rfsim" /\ owned[h] = "other"
    <2>1. PICK left \in SUBSET Ports : backend = "rfsim" /\ Reap(left)
      BY <1>3, ListenersStay DEF StartHop
    <2>2. h \in Recorded /\ h \notin left
      BY <1>3, <2>1 DEF Reap
    <2>3. far[h] # "up" /\ Listens(h)
      BY <1>3, <2>2 DEF PortInv, Listens, Recorded, Ports, Hops
    <2> QED
      BY <2>1, <2>2, <2>3 DEF Reap
  <1>4. Inv /\ PortInv /\ [Next]_vars =>
          [\A h \in foreign : h \notin foreign' /\ pc' # pc =>
             backend = "rfsim" /\ owned[h] = "other"]_vars
    BY <1>3
  <1> QED
    BY <1>1, <1>2, <1>4, InvHolds, PTL DEF Spec, KillsWhatItRecorded
=============================================================================
