---------------------------- MODULE IotTransport ----------------------------
(***************************************************************************)
(* The way from the publisher on the controller to the edge broker: a      *)
(* chain of hops, each an SSH process here (near) with what it runs or     *)
(* binds on the other node (far).  On RFSIM (iot_edge_transport.py) a      *)
(* kubectl port-forward and the counted ingress; on R2Lab                  *)
(* (r2lab/iot_transport.py) a relay that runs one process on the UE for    *)
(* each client, a reverse forward and the ingress; the last hop on either  *)
(* is a forward that listens here only.                                    *)
(*                                                                         *)
(* The far part comes up some time after the near one and may outlive it.  *)
(* While the link is down every SSH command fails, which the probes of a   *)
(* port take for a port that is closed.  An SSH process that breaks while  *)
(* readings flow is seen only in the errors of the publisher's clients.    *)
(***************************************************************************)
EXTENDS Naturals, Sequences

CONSTANTS
  MaxOutages,  \* bound: times the link to the nodes goes down
  Foreign      \* somebody else on the node may listen on the same ports

ASSUME TransportAssumption == MaxOutages \in Nat /\ Foreign \in BOOLEAN

VARIABLES
  backend,   \* rfsim or r2lab
  near,      \* hops whose local process runs
  far,       \* remote part of a hop: none, coming or up
  foreign,   \* hops whose port somebody else holds
  owned,     \* whose listener was recorded as the run's (owned_remote_pids)
  hop,       \* position in the chain that start() is at
  session,   \* none, open, stopped
  soiled,    \* the session has cleanup errors
  misread,   \* history: ports of which an answer was taken for what it was not
  link, outages

chain     == <<near, far, foreign, owned, hop>>
standing  == <<session, soiled, misread>>
weather   == <<link, outages>>
transport == <<backend, near, far, foreign, owned, hop,
               session, soiled, misread, link, outages>>

Chain == IF backend = "rfsim" THEN <<"edge", "ingress", "forward">>
         ELSE <<"relay", "reverse", "ingress", "forward">>
Hops    == {"edge", "relay", "reverse", "ingress", "forward"}
Ports   == {"edge", "reverse", "ingress"}   \* listened on at the core node
Here    == Chain[hop]

TransportInit ==
  /\ backend \in {"rfsim", "r2lab"}
  /\ near = {} /\ far = [h \in Hops |-> "none"] /\ foreign = {}
  /\ owned = [h \in Hops |-> "none"]
  /\ hop = 1 /\ session = "none" /\ soiled = FALSE /\ misread = {}
  /\ link = TRUE /\ outages = 0

Listens(h) == far[h] = "up" \/ h \in foreign

\* _remote_port_is_closed: the probe did not succeed.
SaysClosed(h) == ~link \/ ~Listens(h)

\* Nothing of the run listens on the node, or will.
NothingLeft == \A h \in Ports : far[h] = "none"

\* Nothing but what a misread answer hides.
NothingElseLeft == \A h \in Ports \ misread : far[h] = "none"

-----------------------------------------------------------------------------
(* The far side.                                                           *)

FarComesUp(h) ==
  /\ far[h] = "coming" /\ h \notin foreign
  /\ far' = [far EXCEPT ![h] = "up"]
  /\ UNCHANGED <<backend, near, foreign, owned, hop, standing, weather>>

\* It could not bind its port, or it ended; an SSH process ends with it.
FarEnds(h) ==
  /\ far[h] # "none"
  /\ far' = [far EXCEPT ![h] = "none"]
  /\ near' = IF h = "relay" THEN near ELSE near \ {h}
  /\ UNCHANGED <<backend, foreign, owned, hop, standing, weather>>

\* A client of the relay; its process is registered after it was started,
\* which may be after terminate_children has looked.
RelayAccepts ==
  /\ {"relay", "reverse"} \subseteq near /\ far["relay"] = "none"
  /\ far' = [far EXCEPT !["relay"] = "coming"]
  /\ UNCHANGED <<backend, near, foreign, owned, hop, standing, weather>>

ForeignTakes(h) ==
  /\ Foreign /\ h \in Ports /\ ~Listens(h)
  /\ foreign' = foreign \cup {h}
  /\ UNCHANGED <<backend, near, far, owned, hop, standing, weather>>

ForeignLeaves(h) ==
  /\ h \in foreign
  /\ foreign' = foreign \ {h}
  /\ UNCHANGED <<backend, near, far, owned, hop, standing, weather>>

LinkChanges ==
  /\ link => outages < MaxOutages
  /\ link' = ~link /\ outages' = IF link THEN outages + 1 ELSE outages
  /\ UNCHANGED <<backend, chain, standing>>

Surroundings ==
  \/ \E h \in Hops : \/ FarComesUp(h) \/ FarEnds(h)
                     \/ ForeignTakes(h) \/ ForeignLeaves(h)
  \/ RelayAccepts \/ LinkChanges

-----------------------------------------------------------------------------
(* start(): the ports are free, then one hop after the other.              *)

PortsFree ==
  /\ \A h \in Ports \cap {Chain[i] : i \in 1..Len(Chain)} : SaysClosed(h)
  /\ backend = "r2lab" => link /\ far["relay"] # "up"

StartHop ==
  /\ Here \notin near
  /\ near' = near \cup {Here}
  /\ far' = IF Here \in Ports THEN [far EXCEPT ![Here] = "coming"] ELSE far
  /\ UNCHANGED <<backend, foreign, owned, hop, standing, weather>>

\* Somebody listens, and the process that was started has not ended; on RFSIM
\* whoever owns the socket is recorded.  It need not be what was started.
HopReady ==
  /\ Here \in near
  /\ Here \in Ports => link /\ Listens(Here)
  /\ owned' = IF backend = "rfsim" /\ Here \in Ports
              THEN [owned EXCEPT ![Here] =
                      IF far[Here] = "up" THEN "own" ELSE "other"]
              ELSE owned
  /\ IF hop = Len(Chain) THEN session' = "open" /\ UNCHANGED hop
     ELSE hop' = hop + 1 /\ UNCHANGED session
  /\ misread' = IF Here \in Ports /\ far[Here] # "up" THEN misread \cup {Here} ELSE misread
  /\ UNCHANGED <<backend, near, far, foreign, soiled, weather>>

\* _reap_owned_remote_listeners on the ports whose listener was recorded: a
\* listener may resist TERM and KILL, and every listener left is an error.
Recorded == {h \in Ports : owned[h] # "none"}

Reap(left) ==
  /\ left \subseteq {h \in Recorded : Listens(h)}
  /\ {h \in Recorded : Listens(h) /\ owned[h] # (IF far[h] = "up" THEN "own" ELSE "other")}
       \subseteq left
  /\ ~link => left = {h \in Recorded : Listens(h)}
  /\ far' = [h \in Hops |-> IF h \in Recorded \ left /\ far[h] = "up" THEN "none" ELSE far[h]]
  /\ foreign' = {h \in foreign : h \notin Recorded \/ h \in left}

\* A start that fails stops what it started; errors are not kept.
Rollback ==
  /\ near' = {}
  /\ IF backend = "rfsim" THEN \E left \in SUBSET Ports : Reap(left)
     ELSE UNCHANGED <<far, foreign>>
  /\ UNCHANGED <<backend, owned, hop, standing, weather>>

-----------------------------------------------------------------------------
(* stop() and evidence().                                                  *)

StopHops ==
  /\ session = "open"
  /\ near' = {}
  /\ UNCHANGED <<backend, far, foreign, owned, hop, standing, weather>>

\* RFSIM, when a port has not closed by itself.
ReapLeft ==
  /\ backend = "rfsim" /\ ~\A h \in {"edge", "ingress"} : SaysClosed(h)
  /\ \E left \in SUBSET Ports :
       /\ Reap(left)
       /\ soiled' = (soiled \/ left # {} \/ ~link)
  /\ UNCHANGED <<backend, near, owned, hop, session, misread, weather>>

NothingToReap ==
  /\ backend = "r2lab" \/ \A h \in {"edge", "ingress"} : SaysClosed(h)
  /\ UNCHANGED transport

\* The final look at every port.  The probe for relay processes on the UE
\* raises when it does not get through.
\* Mutant of Closed: the ingress is not looked at.
ClosedButIngress ==
  /\ \A h \in Ports \ {"ingress"} : SaysClosed(h)
  /\ backend = "r2lab" => link /\ far["relay"] # "up"

Closed ==
  /\ \A h \in Ports : SaysClosed(h)
  /\ backend = "r2lab" => link /\ far["relay"] # "up"

Certify ==
  /\ session' = "stopped"
  /\ soiled' = (soiled \/ ~Closed)
  /\ misread' = misread \cup {h \in Ports : far[h] = "up" /\ SaysClosed(h)}
  /\ UNCHANGED <<backend, chain, weather>>

CleanupValid == session = "stopped" /\ ~soiled
=============================================================================
