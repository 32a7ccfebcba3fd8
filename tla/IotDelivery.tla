---------------------------- MODULE IotDelivery ----------------------------
(***************************************************************************)
(* What an accepted workload says of its telemetry (docs/experiment.md:    *)
(* the run's events, each delivered through the 5G session): a reading is  *)
(* recorded once at most, a workload is accepted when each has been        *)
(* recorded, and that stays so.                                            *)
(***************************************************************************)
EXTENDS Naturals

CONSTANT Events     \* the readings the source decoded

VARIABLES
  recorded,  \* how often telemetry.jsonl has an event
  accepted   \* the evidence says ready

vars == <<recorded, accepted>>

Init == recorded = [e \in Events |-> 0] /\ accepted = FALSE

Record(e) ==
  /\ recorded[e] = 0
  /\ recorded' = [recorded EXCEPT ![e] = 1]
  /\ UNCHANGED accepted

Accept ==
  /\ \A e \in Events : recorded[e] = 1
  /\ accepted' = TRUE
  /\ UNCHANGED recorded

Next == Accept \/ \E e \in Events : Record(e)

Spec == Init /\ [][Next]_vars

-----------------------------------------------------------------------------
\* An accepted workload has every reading, each recorded exactly once, for good.
AcceptedHasAll == accepted => \A e \in Events : recorded[e] = 1
AcceptedIsFinal == [][accepted => accepted' /\ recorded' = recorded]_vars
=============================================================================
