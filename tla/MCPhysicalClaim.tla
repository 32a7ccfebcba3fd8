-------------------------- MODULE MCPhysicalClaim --------------------------
(***************************************************************************)
(* The testbed for TLC: one radio, a qfit UE (host and USB rail) for the   *)
(* first run and a qhat UE (one PDU plug) for the second.                  *)
(***************************************************************************)
EXTENDS PhysicalClaim, TLC

CONSTANTS p1, p2, r1, r2

MCRuns    == {r1, r2}
MCDevices == {"n300", "qfit-host", "qfit-usb", "qhat"}
MCRadio   == [r \in MCRuns |-> "n300"]
MCUeRails == r1 :> <<"qfit-host", "qfit-usb">> @@ r2 :> <<"qhat">>
MCSlow    == {"qfit-host"}

Interchangeable == Permutations({p1, p2})
=============================================================================
