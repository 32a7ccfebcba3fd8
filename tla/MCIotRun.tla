------------------------------ MODULE MCIotRun ------------------------------
(***************************************************************************)
(* Two readings and two sensors: one may be lost, or early, while the      *)
(* other is not.                                                           *)
(***************************************************************************)
EXTENDS IotRun, TLC

CONSTANTS s1, s2

MCSensors == {s1, s2}
Interchangeable == Permutations(MCSensors)
=============================================================================
