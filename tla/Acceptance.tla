----------------------------- MODULE Acceptance -----------------------------
(***************************************************************************)
(* The ordered acceptance record of a physical run                         *)
(* (synthran/r2lab/acceptance.py).  A record is the sequence of the stages *)
(* that were judged, each with its outcome; "not reached" is derived and   *)
(* never stored.                                                           *)
(***************************************************************************)
EXTENDS Naturals, SequencesExt

\* STAGE_ORDER.
StageOrder == << "resource-authority", "slices-foundation", "kubernetes",
                 "open5gs", "gnb-n2", "ue-management", "cell-acquisition",
                 "registration", "pdu-session", "user-plane", "workload" >>

Stages  == { StageOrder[i] : i \in 1..Len(StageOrder) }
Outcome == { "passed", "failed" }
Item    == [stage : Stages, outcome : Outcome]

\* The value of next_stage and failed_stage when the code returns None.
NoStage == "none"

\* PhysicalAcceptance.__post_init__: the two reasons to refuse a record.
Contiguous(ev) ==
  /\ Len(ev) <= Len(StageOrder)
  /\ \A i \in 1..Len(ev) : ev[i].stage = StageOrder[i]

NothingAfterFailure(ev) ==
  \A i \in 1..Len(ev) : ev[i].outcome = "failed" => i = Len(ev)

WellFormed(ev) == Contiguous(ev) /\ NothingAfterFailure(ev)

\* The last judged stage failed: nothing more may be recorded.
Blocked(ev) == ev # << >> /\ Last(ev).outcome = "failed"

NextStage(ev) ==
  IF Blocked(ev) \/ Len(ev) = Len(StageOrder)
    THEN NoStage
    ELSE StageOrder[Len(ev) + 1]

Accepted(ev) ==
  /\ Len(ev) = Len(StageOrder)
  /\ Last(ev).stage = "workload"
  /\ Last(ev).outcome = "passed"

FailedStage(ev) ==
  LET failed == { i \in 1..Len(ev) : ev[i].outcome = "failed" }
  IN  IF failed = {} THEN NoStage
      ELSE ev[CHOOSE i \in failed : \A j \in failed : i <= j].stage

\* record() refuses every stage but the next one.
CanRecord(ev, stage) == stage # NoStage /\ NextStage(ev) = stage

Record(ev, stage, outcome) ==
  Append(ev, [stage |-> stage, outcome |-> outcome])

\* Mutant of PassIfNext: the stage is passed without looking.
PassAnyway(ev, stage) == Record(ev, stage, "passed")

\* _pass_functional_path and _pass_current_ue_path pass a stage only when it
\* is the next one.
PassIfNext(ev, stage) ==
  IF CanRecord(ev, stage) THEN Record(ev, stage, "passed") ELSE ev

OutcomeFor(ev, stage) ==
  LET index == CHOOSE i \in 1..Len(StageOrder) : StageOrder[i] = stage
  IN  IF index <= Len(ev) THEN ev[index].outcome ELSE "not-reached"

Passed(ev, stage) == OutcomeFor(ev, stage) = "passed"

\* evidence[:-1]: the record without its last, failed stage.
WithoutLast(ev) == Front(ev)

\* The record of the first n stages, all passed.
Passes(n) == [i \in 1..n |-> [stage |-> StageOrder[i], outcome |-> "passed"]]

\* Every record the constructor accepts.
Ledgers ==
  { Passes(n) : n \in 0..Len(StageOrder) }
    \cup { Record(Passes(n), StageOrder[n + 1], "failed")
             : n \in 0..(Len(StageOrder) - 1) }
=============================================================================
