-------------------------- MODULE MCNetworkSampler --------------------------
(***************************************************************************)
(* An interval of two ticks, so that a sample may end between two points;  *)
(* a window of five intervals, the least that a cadence is asked for.      *)
(***************************************************************************)
EXTENDS NetworkSampler
=============================================================================
