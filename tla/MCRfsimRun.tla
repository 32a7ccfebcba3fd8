----------------------------- MODULE MCRfsimRun -----------------------------
(***************************************************************************)
(* Two processes: for one run from its first command on, or for two runs   *)
(* that have been prepared on one pair of nodes.  Both runs from their     *)
(* first command on would be too many states, and so would be a            *)
(* reservation of two runs that ends without another tenant.               *)
(***************************************************************************)
EXTENDS RfsimRun, Naturals, TLC

CONSTANTS p1, p2, r1, r2

MCProcs == {p1, p2}
MCRuns  == {r1, r2}
Interchangeable == Permutations(MCProcs) \cup Permutations(Runs)

\* Both runs were prepared under one reservation, one after the other.
Prepared ==
  /\ prep = [r \in Runs |-> "trusted"]
  /\ lease = [r \in Runs |-> "active"] /\ seat = [r \in Runs |-> TRUE]
  /\ flight = [r \in Runs |-> FALSE]
  /\ man = [r \in Runs |-> "none"] /\ evd = [r \in Runs |-> "none"]
  /\ exp = [r \in Runs |-> "none"] /\ verdict = [r \in Runs |-> "none"]
  /\ kube = TRUE /\ space = FALSE
  /\ core = Nobody /\ ue = Nobody
  /\ sidecar = Nobody /\ objs = {} /\ ports = Nobody
  /\ pc = [p \in Procs |-> "idle"] /\ cur = [p \in Procs |-> Nobody]
  /\ seen = [p \in Procs |-> FALSE] /\ named = [p \in Procs |-> FALSE]
  /\ good = [p \in Procs |-> FALSE]

Begun == {r \in Runs : prep[r] # "none" \/ \E p \in Procs : cur[p] = r}

OneOrPrepared == Cardinality(Begun) <= 1 \/ \A r \in Runs : prep[r] # "none"

\* Nodes on which two runs were prepared go to somebody else.
NodesAreTaken == Cardinality(Begun) = 2 /\ lease' # lease => ~kube'

MCSpec == (Init \/ Prepared) /\ [][Next /\ OneOrPrepared' /\ NodesAreTaken]_vars
=============================================================================
