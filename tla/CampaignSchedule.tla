-------------------------- MODULE CampaignSchedule --------------------------
(***************************************************************************)
(* What the summaries of a campaign say together, whoever writes them:     *)
(* runs are judged in the order of the schedule, each once and for good,   *)
(* none after a run that was not valid, and the analysis is one of all.    *)
(***************************************************************************)
EXTENDS Naturals

CONSTANT N     \* scheduled runs

VARIABLES
  judged,    \* the summary of a run
  analysed

Scheduled == 1..N
Judgements == {"invalid", "unscientific", "valid"}

Init == judged = [r \in Scheduled |-> "none"] /\ analysed = FALSE

Judge(r, v) ==
  /\ judged[r] = "none"
  /\ \A q \in Scheduled : q < r => judged[q] = "valid"
  /\ judged' = [judged EXCEPT ![r] = v]
  /\ UNCHANGED analysed

Analyse ==
  /\ \A r \in Scheduled : judged[r] \in {"unscientific", "valid"}
  /\ analysed' = TRUE
  /\ UNCHANGED judged

Next == Analyse \/ \E r \in Scheduled, v \in Judgements : Judge(r, v)

Spec == Init /\ [][Next]_<<judged, analysed>>

-----------------------------------------------------------------------------
\* Only a prefix of the schedule is judged, all of it valid but the last.
PrefixIsValid ==
  \A r, q \in Scheduled : judged[r] # "none" /\ q < r => judged[q] = "valid"

\* Where the schedule has come to its end, or to a run that is not valid,
\* nothing is judged any more.
EndIsFinal ==
  [][(\A r \in Scheduled : judged[r] = "valid")
     \/ (\E r \in Scheduled : judged[r] \in {"invalid", "unscientific"})
     => judged' = judged]_<<judged, analysed>>
=============================================================================
