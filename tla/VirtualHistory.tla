--------------------------- MODULE VirtualHistory ---------------------------
(***************************************************************************)
(* What the files of virtual runs promise together: a run is deployed at   *)
(* most once, its network is proven only after that, its workload is       *)
(* judged only on a proven network, and a judgement is final.              *)
(***************************************************************************)
CONSTANT Runs

VARIABLES
  network,    \* how far the network of a run got
  verdict     \* the judgement of its workload

Networks == {"new", "deploying", "failed", "deployed", "proven"}
Verdicts == {"none", "rejected", "accepted"}

Init ==
  /\ network = [r \in Runs |-> "new"]
  /\ verdict = [r \in Runs |-> "none"]

Advance(r, from, to) ==
  /\ network[r] = from
  /\ network' = [network EXCEPT ![r] = to]
  /\ UNCHANGED verdict

Judge(r) ==
  /\ network[r] = "proven" /\ verdict[r] = "none"
  /\ \E v \in {"rejected", "accepted"} : verdict' = [verdict EXCEPT ![r] = v]
  /\ UNCHANGED network

Next ==
  \E r \in Runs :
    \/ Advance(r, "new", "deploying")
    \/ Advance(r, "deploying", "deployed")
    \/ Advance(r, "deploying", "failed")
    \/ Advance(r, "deployed", "proven")
    \/ Judge(r)

Spec == Init /\ [][Next]_<<network, verdict>>

-----------------------------------------------------------------------------
\* A run that is judged stands on a proven network.
JudgedIsProven == \A r \in Runs : verdict[r] # "none" => network[r] = "proven"

\* A deployment that ended is never begun again, a proof is never taken back
\* and a judgement never changed.
NothingIsTakenBack ==
  [][ \A r \in Runs :
        /\ network[r] # "new" => network'[r] # "new"
        /\ network[r] \in {"deployed", "failed"} => network'[r] # "deploying"
        /\ network[r] \in {"failed", "proven"} => network'[r] = network[r]
        /\ verdict[r] # "none" => verdict'[r] = verdict[r]
    ]_<<network, verdict>>
=============================================================================
