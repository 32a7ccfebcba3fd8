----------------------------- MODULE MCCampaign -----------------------------
(***************************************************************************)
(* Three runs: a baseline and two with a load.                             *)
(***************************************************************************)
EXTENDS Campaign

MCLoaded == {2, 3}
=============================================================================
