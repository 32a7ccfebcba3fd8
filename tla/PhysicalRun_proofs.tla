------------------------- MODULE PhysicalRun_proofs -------------------------
(***************************************************************************)
(* Proofs about acceptance records (Acceptance) and about PhysicalRun, for *)
(* any number of runs and of workload attempts.                            *)
(***************************************************************************)
EXTENDS PhysicalRun, TLAPS

-----------------------------------------------------------------------------
(* Acceptance records.                                                     *)

\* The record that failed at stage n + 1.
FailedAt(n) == Record(Passes(n), StageOrder[n + 1], "failed")

LEMMA StageOrderIsInjective ==
  /\ Len(StageOrder) = 11
  /\ \A i, j \in 1..11 : StageOrder[i] = StageOrder[j] => i = j
  /\ \A i \in 1..11 : StageOrder[i] \in Stages /\ StageOrder[i] # NoStage
  /\ StageOrder[11] = "workload"
BY DEF StageOrder, Stages, NoStage

LEMMA PassesShape ==
  ASSUME NEW n \in 0..11
  PROVE  /\ Passes(n) \in Seq(Item) /\ Len(Passes(n)) = n
         /\ \A i \in 1..n : /\ Passes(n)[i].stage = StageOrder[i]
                            /\ Passes(n)[i].outcome = "passed"
BY StageOrderIsInjective DEF Passes, Item, Outcome

LEMMA FailedShape ==
  ASSUME NEW n \in 0..10
  PROVE  /\ FailedAt(n) \in Seq(Item) /\ Len(FailedAt(n)) = n + 1
         /\ \A i \in 1..n : FailedAt(n)[i] = Passes(n)[i]
         /\ FailedAt(n)[n + 1].stage = StageOrder[n + 1]
         /\ FailedAt(n)[n + 1].outcome = "failed"
<1>1. n \in 0..11 /\ n + 1 \in 1..11
  OBVIOUS
<1>2. Passes(n) \in Seq(Item) /\ Len(Passes(n)) = n
  BY <1>1, PassesShape
<1>3. [stage |-> StageOrder[n + 1], outcome |-> "failed"] \in Item
  BY <1>1, StageOrderIsInjective DEF Item, Outcome
<1> QED
  BY <1>2, <1>3 DEF FailedAt, Record

LEMMA LedgerCases ==
  ASSUME NEW ev \in Ledgers
  PROVE  \/ \E n \in 0..11 : ev = Passes(n)
         \/ \E n \in 0..10 : ev = FailedAt(n)
BY StageOrderIsInjective DEF Ledgers, FailedAt

LEMMA LedgerIntro ==
  /\ \A n \in 0..11 : Passes(n) \in Ledgers
  /\ \A n \in 0..10 : FailedAt(n) \in Ledgers
BY StageOrderIsInjective DEF Ledgers, FailedAt

\* failed_stage answers the stage a record stopped at, and nothing for one
\* that did not stop.
LEMMA FailedStageOf ==
  /\ \A n \in 0..11 : FailedStage(Passes(n)) = NoStage
  /\ \A n \in 0..10 : FailedStage(FailedAt(n)) = StageOrder[n + 1]
<1>1. ASSUME NEW n \in 0..11 PROVE FailedStage(Passes(n)) = NoStage
  <2>1. /\ Len(Passes(n)) = n
        /\ \A i \in 1..n : Passes(n)[i].outcome = "passed"
    BY <1>1, PassesShape
  <2>2. { i \in 1..Len(Passes(n)) : Passes(n)[i].outcome = "failed" } = {}
    BY <2>1
  <2> QED
    BY <2>2 DEF FailedStage
<1>2. ASSUME NEW n \in 0..10
      PROVE  FailedStage(FailedAt(n)) = StageOrder[n + 1]
  <2> DEFINE ev == FailedAt(n)
             F == { i \in 1..Len(ev) : ev[i].outcome = "failed" }
  <2>1. n \in Nat /\ n \in 0..11
    OBVIOUS
  <2>2. /\ Len(ev) = n + 1
        /\ ev[n + 1].stage = StageOrder[n + 1] /\ ev[n + 1].outcome = "failed"
        /\ \A i \in 1..n : ev[i] = Passes(n)[i]
    BY FailedShape
  <2>3. \A i \in 1..n : Passes(n)[i].outcome = "passed"
    BY <2>1, PassesShape
  <2>4. \A i \in 1..n : ev[i].outcome = "passed"
    BY <2>2, <2>3
  <2> HIDE DEF ev
  <2>5. \A i \in 1..(n + 1) : i \in 1..n \/ i = n + 1
    BY <2>1
  <2>6. F = {n + 1}
    BY <2>1, <2>2, <2>4, <2>5
  <2>7. (CHOOSE i \in F : \A j \in F : i <= j) = n + 1
    BY <2>1, <2>6
  <2>8. F # {}
    BY <2>6
  <2>9. FailedStage(ev) = ev[n + 1].stage
    BY <2>7, <2>8 DEF FailedStage
  <2> QED
    BY <2>2, <2>9 DEF ev
<1> QED
  BY <1>1, <1>2

\* A record that did not fail is not blocked, one that failed is.
LEMMA BlockedOf ==
  /\ \A n \in 0..11 : ~Blocked(Passes(n))
  /\ \A n \in 0..10 : Blocked(FailedAt(n))
<1>1. ASSUME NEW n \in 0..11, Blocked(Passes(n)) PROVE FALSE
  <2>1. Passes(n) \in Seq(Item) /\ Passes(n) # << >> /\ Len(Passes(n)) = n
    BY <1>1, PassesShape DEF Blocked
  <2>2. n \in 1..n
    BY <2>1
  <2>3. Passes(n)[n].outcome = "passed"
    BY <1>1, <2>2, PassesShape
  <2> QED
    BY <1>1, <2>1, <2>3 DEF Blocked, Last
<1>2. ASSUME NEW n \in 0..10 PROVE Blocked(FailedAt(n))
  <2>1. FailedAt(n) \in Seq(Item) /\ Len(FailedAt(n)) = n + 1
    BY <1>2, FailedShape
  <2>2. FailedAt(n)[n + 1].outcome = "failed"
    BY <1>2, FailedShape
  <2>3. n + 1 # 0
    OBVIOUS
  <2> QED
    BY <2>1, <2>2, <2>3 DEF Blocked, Last
<1> QED
  BY <1>1, <1>2

\* evidence[:-1] of a failed record is the record of what passed before.
LEMMA WithoutLastOf ==
  ASSUME NEW n \in 0..10
  PROVE  WithoutLast(FailedAt(n)) = Passes(n)
<1> DEFINE ev == FailedAt(n)
<1>1. n \in Nat /\ n \in 0..11
  OBVIOUS
<1>2. ev \in Seq(Item) /\ Len(ev) = n + 1 /\ \A i \in 1..n : ev[i] = Passes(n)[i]
  BY FailedShape
<1>3. Passes(n) \in Seq(Item) /\ Len(Passes(n)) = n
  BY <1>1, PassesShape
<1> HIDE DEF ev
<1>4. WithoutLast(ev) \in Seq(Item) /\ Len(WithoutLast(ev)) = n
  BY <1>1, <1>2 DEF WithoutLast, Front
<1>5. \A i \in 1..n : WithoutLast(ev)[i] = ev[i]
  BY <1>1, <1>2 DEF WithoutLast, Front
<1> QED
  BY <1>2, <1>3, <1>4, <1>5 DEF ev

\* Ledgers holds nothing that the constructor refuses: the two checks of
\* PhysicalAcceptance.__post_init__ pass.
THEOREM LedgersAreWellFormed == \A ev \in Ledgers : WellFormed(ev)
<1>1. ASSUME NEW n \in 0..11 PROVE WellFormed(Passes(n))
  <2>1. Len(Passes(n)) = n
    BY <1>1, PassesShape
  <2>2. n <= 11
    OBVIOUS
  <2> QED
    BY <1>1, <2>1, <2>2, PassesShape, StageOrderIsInjective
       DEF WellFormed, Contiguous, NothingAfterFailure
<1>2. ASSUME NEW n \in 0..10 PROVE WellFormed(FailedAt(n))
  <2>1. n \in Nat /\ n \in 0..11 /\ n + 1 <= 11
    OBVIOUS
  <2>2. \A i \in 1..n : /\ FailedAt(n)[i].stage = StageOrder[i]
                        /\ FailedAt(n)[i].outcome = "passed"
    <3>1. \A i \in 1..n : FailedAt(n)[i] = Passes(n)[i]
      BY <1>2, FailedShape
    <3>2. \A i \in 1..n : /\ Passes(n)[i].stage = StageOrder[i]
                          /\ Passes(n)[i].outcome = "passed"
      BY <2>1, PassesShape
    <3> QED
      BY <3>1, <3>2
  <2>3. Len(FailedAt(n)) = n + 1
    BY <1>2, FailedShape
  <2>4. FailedAt(n)[n + 1].stage = StageOrder[n + 1]
    BY <1>2, FailedShape
  <2>5. \A i \in 1..(n + 1) : i \in 1..n \/ i = n + 1
    BY <2>1
  <2>6. Contiguous(FailedAt(n))
    BY <2>1, <2>2, <2>3, <2>4, <2>5, StageOrderIsInjective DEF Contiguous
  <2>7. NothingAfterFailure(FailedAt(n))
    BY <2>2, <2>3, <2>5 DEF NothingAfterFailure
  <2> QED
    BY <2>6, <2>7 DEF WellFormed
<1> QED
  BY <1>1, <1>2, LedgerCases

LEMMA SameItems ==
  ASSUME NEW a \in Seq(Item), NEW b \in Seq(Item), Len(a) = Len(b),
         \A i \in 1..Len(a) : a[i].stage = b[i].stage /\ a[i].outcome = b[i].outcome
  PROVE  a = b
<1>1. \A i \in 1..Len(a) : a[i] \in Item /\ b[i] \in Item
  OBVIOUS
<1>2. \A x, y \in Item : x.stage = y.stage /\ x.outcome = y.outcome => x = y
  BY DEF Item
<1>3. \A i \in 1..Len(a) : a[i] = b[i]
  BY <1>1, <1>2
<1> QED
  BY <1>3

\* Ledgers holds everything that the constructor accepts.
THEOREM WellFormedAreLedgers ==
  \A ev \in Seq(Item) : WellFormed(ev) => ev \in Ledgers
<1> SUFFICES ASSUME NEW ev \in Seq(Item), WellFormed(ev) PROVE ev \in Ledgers
  OBVIOUS
<1>1. Len(ev) \in 0..11 /\ \A i \in 1..Len(ev) : ev[i].outcome \in Outcome
  <2>1. Len(ev) \in Nat /\ \A i \in 1..Len(ev) : ev[i] \in Item
    OBVIOUS
  <2>2. Len(ev) <= 11
    BY StageOrderIsInjective DEF WellFormed, Contiguous
  <2>3. Len(ev) \in 0..11
    <3>1. \A k \in Nat : k <= 11 => k \in 0..11
      OBVIOUS
    <3> QED
      BY <2>1, <2>2, <3>1
  <2>4. \A x \in Item : x.outcome \in Outcome
    BY DEF Item
  <2> QED
    BY <2>1, <2>3, <2>4
<1>2. PICK n \in 0..11 : Len(ev) = n
  BY <1>1
<1>3. /\ \A i \in 1..n : ev[i].stage = StageOrder[i]
      /\ \A i \in 1..n : ev[i].outcome = "failed" => i = n
  BY <1>2 DEF WellFormed, Contiguous, NothingAfterFailure
<1>4. \A i \in 1..n : ev[i].outcome = "passed" \/ i = n
  BY <1>1, <1>2, <1>3 DEF Outcome
<1>5. CASE n = 0 \/ ev[n].outcome = "passed"
  <2>1. \A i \in 1..n : ev[i].outcome = "passed"
    BY <1>4, <1>5
  <2>2. Passes(n) \in Seq(Item) /\ Len(Passes(n)) = n
    BY PassesShape
  <2>3. \A i \in 1..n : /\ Passes(n)[i].stage = StageOrder[i]
                        /\ Passes(n)[i].outcome = "passed"
    BY PassesShape
  <2>4. ev = Passes(n)
    BY <1>2, <1>3, <2>1, <2>2, <2>3, SameItems
  <2> QED
    BY <2>4, LedgerIntro
<1>6. CASE n # 0 /\ ev[n].outcome = "failed"
  <2>1. PICK m \in 0..10 : n = m + 1
    <3>1. n - 1 \in 0..10 /\ n = (n - 1) + 1
      BY <1>6
    <3> QED
      BY <3>1
  <2>2. FailedAt(m) \in Seq(Item) /\ Len(FailedAt(m)) = n
    BY <2>1, FailedShape
  <2>3. m \in 0..11 /\ \A i \in 1..n : i # n => i \in 1..m
    BY <2>1
  <2>4. \A i \in 1..m : /\ FailedAt(m)[i].stage = StageOrder[i]
                        /\ FailedAt(m)[i].outcome = "passed"
    <3>1. \A i \in 1..m : FailedAt(m)[i] = Passes(m)[i]
      BY FailedShape
    <3>2. \A i \in 1..m : /\ Passes(m)[i].stage = StageOrder[i]
                          /\ Passes(m)[i].outcome = "passed"
      BY <2>3, PassesShape
    <3> QED
      BY <3>1, <3>2
  <2>5. FailedAt(m)[n].stage = StageOrder[n] /\ FailedAt(m)[n].outcome = "failed"
    BY <2>1, FailedShape
  <2>6. \A i \in 1..n : /\ FailedAt(m)[i].stage = ev[i].stage
                        /\ FailedAt(m)[i].outcome = ev[i].outcome
    BY <1>3, <1>4, <1>6, <2>3, <2>4, <2>5
  <2>7. ev = FailedAt(m)
    BY <1>2, <2>2, <2>6, SameItems
  <2> QED
    BY <2>7, LedgerIntro
<1>7. n = 0 \/ ev[n].outcome \in Outcome
  BY <1>1, <1>2
<1> QED
  BY <1>5, <1>6, <1>7 DEF Outcome


\* The record that is reopened failed at the workload, and is then the record
\* of the ten stages before it.
LEMMA ReopenedRecord ==
  ASSUME NEW ev \in Ledgers, FailedStage(ev) = "workload"
  PROVE  ev = FailedAt(10) /\ WithoutLast(ev) = Passes(10)
<1>1. \A n \in 0..11 : ev # Passes(n)
  BY FailedStageOf DEF NoStage
<1>2. PICK n \in 0..10 : ev = FailedAt(n)
  BY <1>1, LedgerCases
<1>3. StageOrder[n + 1] = StageOrder[11] /\ n + 1 \in 1..11
  BY <1>2, FailedStageOf, StageOrderIsInjective
<1>4. n = 10
  BY <1>3, StageOrderIsInjective
<1> QED
  BY <1>2, <1>4, WithoutLastOf

\* An accepted record is the one of eleven passed stages.
LEMMA AcceptedRecord ==
  ASSUME NEW ev \in Ledgers, Accepted(ev)
  PROVE  ev = Passes(11)
<1>1. Len(ev) = 11 /\ Last(ev).outcome = "passed"
  BY StageOrderIsInjective DEF Accepted
<1>2. ASSUME NEW n \in 0..10, ev = FailedAt(n) PROVE FALSE
  <2>1. Len(FailedAt(n)) = n + 1 /\ FailedAt(n)[n + 1].outcome = "failed"
    BY <1>2, FailedShape
  <2> QED
    BY <1>1, <1>2, <2>1 DEF Last
<1>3. PICK n \in 0..11 : ev = Passes(n)
  BY <1>2, LedgerCases
<1> QED
  BY <1>1, <1>3, PassesShape

LEMMA LedgerLength ==
  ASSUME NEW ev \in Ledgers
  PROVE  ev \in Seq(Item) /\ Len(ev) \in 0..11
<1>1. ASSUME NEW n \in 0..11, ev = Passes(n) PROVE ev \in Seq(Item) /\ Len(ev) = n
  BY <1>1, PassesShape
<1>2. ASSUME NEW n \in 0..10, ev = FailedAt(n)
      PROVE  ev \in Seq(Item) /\ Len(ev) = n + 1
  BY <1>2, FailedShape
<1> QED
  BY <1>1, <1>2, LedgerCases

LEMMA LongestRecord ==
  ASSUME NEW ev \in Ledgers, NEW new \in Ledgers, Len(ev) = 11,
         IsStrictPrefix(ev, new)
  PROVE  FALSE
<1>1. ev \in Seq(Item) /\ new \in Seq(Item) /\ Len(new) \in 0..11
  BY LedgerLength
<1>2. 11 <= Len(new) /\ SubSeq(ev, 1, 11) = SubSeq(new, 1, 11) /\ ev # new
  BY DEF IsStrictPrefix, IsPrefix
<1>3. Len(new) = 11
  BY <1>1, <1>2
<1>4. ASSUME NEW s \in Seq(Item), Len(s) = 11
      PROVE  \A i \in 1..11 : s[i] = SubSeq(s, 1, 11)[i]
  BY <1>4
<1>5. \A i \in 1..11 : ev[i] = new[i]
  BY <1>1, <1>2, <1>3, <1>4
<1> QED
  BY <1>1, <1>2, <1>3, <1>5

\* What passed is passed in every longer record, and in the record of ten
\* stages that a reopened workload leaves.
LEMMA PassedInPrefix ==
  ASSUME NEW ev \in Ledgers, NEW new \in Ledgers, IsStrictPrefix(ev, new),
         NEW s \in Stages, Passed(ev, s)
  PROVE  Passed(new, s)
<1> DEFINE index == CHOOSE i \in 1..Len(StageOrder) : StageOrder[i] = s
<1>1. index \in 1..11
  BY StageOrderIsInjective DEF Stages
<1> HIDE DEF index
<1>2. /\ ev \in Seq(Item) /\ new \in Seq(Item)
      /\ Len(ev) \in 0..11 /\ Len(new) \in 0..11
  BY LedgerLength
<1>3. index <= Len(ev) /\ ev[index].outcome = "passed"
  BY DEF Passed, OutcomeFor, index
<1>4. Len(ev) <= Len(new) /\ SubSeq(ev, 1, Len(ev)) = SubSeq(new, 1, Len(ev))
  BY DEF IsStrictPrefix, IsPrefix
<1>5. index \in 1..Len(ev) /\ index \in 1..Len(new)
  BY <1>1, <1>2, <1>3, <1>4
<1>6. SubSeq(ev, 1, Len(ev))[index] = ev[index]
  BY <1>2, <1>5
<1>7. SubSeq(new, 1, Len(ev))[index] = new[index]
  BY <1>2, <1>4, <1>5
<1>8. ev[index] = new[index]
  BY <1>4, <1>6, <1>7
<1>9. index <= Len(new) /\ new[index].outcome = "passed"
  BY <1>3, <1>5, <1>8
<1> QED
  BY <1>9 DEF Passed, OutcomeFor, index

LEMMA PassedBeforeWorkload ==
  ASSUME NEW s \in Stages, Passed(FailedAt(10), s)
  PROVE  Passed(Passes(10), s)
<1> DEFINE index == CHOOSE i \in 1..Len(StageOrder) : StageOrder[i] = s
<1>1. index \in 1..11
  BY StageOrderIsInjective DEF Stages
<1> HIDE DEF index
<1>2. FailedAt(10)[index].outcome = "passed"
  BY DEF Passed, OutcomeFor, index
<1>3. FailedAt(10)[10 + 1].outcome = "failed"
  BY FailedShape
<1>4. index \in 1..10
  BY <1>1, <1>2, <1>3
<1>5. 10 \in 0..11
  OBVIOUS
<1>6. Len(Passes(10)) = 10 /\ Passes(10)[index].outcome = "passed"
  BY <1>4, <1>5, PassesShape
<1>7. index <= Len(Passes(10))
  BY <1>4, <1>6
<1> QED
  BY <1>6, <1>7 DEF Passed, OutcomeFor, index

-----------------------------------------------------------------------------
(* What recording does to a record.                                        *)

\* outcome_for in terms of the position of a stage.
LEMMA PassedOf ==
  ASSUME NEW i \in 1..11
  PROVE  /\ \A n \in 0..11 : Passed(Passes(n), StageOrder[i]) <=> i <= n
         /\ \A n \in 0..10 : Passed(FailedAt(n), StageOrder[i]) <=> i <= n
<1>1. (CHOOSE k \in 1..Len(StageOrder) : StageOrder[k] = StageOrder[i]) = i
  BY StageOrderIsInjective
<1>2. ASSUME NEW n \in 0..11
      PROVE  Passed(Passes(n), StageOrder[i]) <=> i <= n
  <2>1. Len(Passes(n)) = n
    BY <1>2, PassesShape
  <2>2. \A j \in 1..n : Passes(n)[j].outcome = "passed"
    BY <1>2, PassesShape
  <2>3. i <= n => i \in 1..n
    BY <1>2
  <2> QED
    BY <1>1, <2>1, <2>2, <2>3 DEF Passed, OutcomeFor
<1>3. ASSUME NEW n \in 0..10
      PROVE  Passed(FailedAt(n), StageOrder[i]) <=> i <= n
  <2>1. Len(FailedAt(n)) = n + 1
    BY <1>3, FailedShape
  <2>2. FailedAt(n)[n + 1].outcome = "failed"
    BY <1>3, FailedShape
  <2>3. n \in 0..11
    BY <1>3
  <2>4. \A j \in 1..n : FailedAt(n)[j] = Passes(n)[j]
    BY <1>3, FailedShape
  <2>5. \A j \in 1..n : Passes(n)[j].outcome = "passed"
    BY <2>3, PassesShape
  <2>6. i <= n => FailedAt(n)[i].outcome = "passed"
    BY <2>4, <2>5
  <2>7. i <= n + 1 <=> i <= n \/ i = n + 1
    BY <1>3
  <2> QED
    BY <1>1, <2>1, <2>2, <2>6, <2>7 DEF Passed, OutcomeFor
<1> QED
  BY <1>2, <1>3

\* next_stage answers the stage after the passed ones.
LEMMA CanRecordOf ==
  ASSUME NEW s
  PROVE  /\ \A n \in 0..10 : CanRecord(Passes(n), s) <=> s = StageOrder[n + 1]
         /\ ~CanRecord(Passes(11), s)
         /\ \A n \in 0..10 : ~CanRecord(FailedAt(n), s)
<1>1. ASSUME NEW n \in 0..10
      PROVE  CanRecord(Passes(n), s) <=> s = StageOrder[n + 1]
  <2>1. n \in 0..11 /\ n + 1 \in 1..11 /\ n # 11
    BY <1>1
  <2>2. Len(Passes(n)) = n /\ ~Blocked(Passes(n))
    BY <2>1, PassesShape, BlockedOf
  <2>3. NextStage(Passes(n)) = StageOrder[n + 1]
    BY <2>1, <2>2, StageOrderIsInjective DEF NextStage
  <2>4. StageOrder[n + 1] # NoStage
    BY <2>1, StageOrderIsInjective
  <2> QED
    BY <2>3, <2>4 DEF CanRecord
<1>2. ~CanRecord(Passes(11), s)
  <2>1. 11 \in 0..11
    OBVIOUS
  <2>2. Len(Passes(11)) = Len(StageOrder)
    BY <2>1, PassesShape, StageOrderIsInjective
  <2> QED
    BY <2>2 DEF CanRecord, NextStage
<1>3. ASSUME NEW n \in 0..10 PROVE ~CanRecord(FailedAt(n), s)
  BY <1>3, BlockedOf DEF CanRecord, NextStage
<1> QED
  BY <1>1, <1>2, <1>3

LEMMA RecordPassed ==
  ASSUME NEW n \in 0..10
  PROVE  Record(Passes(n), StageOrder[n + 1], "passed") = Passes(n + 1)
<1>1. n \in 0..11 /\ n + 1 \in 0..11 /\ n + 1 \in 1..11
  OBVIOUS
<1> DEFINE item == [stage |-> StageOrder[n + 1], outcome |-> "passed"]
<1>2. item \in Item
  BY <1>1, StageOrderIsInjective DEF Item, Outcome
<1>3. Passes(n) \in Seq(Item) /\ Len(Passes(n)) = n
  BY <1>1, PassesShape
<1>4. Passes(n + 1) \in Seq(Item) /\ Len(Passes(n + 1)) = n + 1
  BY <1>1, PassesShape
<1>5. Passes(n + 1) = [i \in 1..(n + 1) |->
                         [stage |-> StageOrder[i], outcome |-> "passed"]]
  BY DEF Passes
<1>6. Passes(n) = [i \in 1..n |-> [stage |-> StageOrder[i], outcome |-> "passed"]]
  BY DEF Passes
<1>7. Append(Passes(n), item) \in Seq(Item) /\ Len(Append(Passes(n), item)) = n + 1
  BY <1>2, <1>3
<1>8. \A i \in 1..(n + 1) : Append(Passes(n), item)[i] = Passes(n + 1)[i]
  <2> SUFFICES ASSUME NEW i \in 1..(n + 1)
               PROVE  Append(Passes(n), item)[i] = Passes(n + 1)[i]
    OBVIOUS
  <2>1. CASE i = n + 1
    BY <1>1, <1>3, <1>5, <2>1
  <2>2. CASE i \in 1..n
    BY <1>3, <1>5, <1>6, <2>2
  <2>3. i = n + 1 \/ i \in 1..n
    OBVIOUS
  <2> QED
    BY <2>1, <2>2, <2>3
<1>9. Append(Passes(n), item) = Passes(n + 1)
  BY <1>4, <1>7, <1>8
<1> QED
  BY <1>9 DEF Record

\* Longer records extend shorter ones.
LEMMA PrefixOf ==
  /\ \A n, m \in 0..11 : n < m => IsStrictPrefix(Passes(n), Passes(m))
  /\ \A n \in 0..11, m \in 0..10 :
       n <= m => IsStrictPrefix(Passes(n), FailedAt(m))
<1>1. ASSUME NEW n \in 0..11, NEW ev \in Seq(Item), n < Len(ev),
             \A i \in 1..n : ev[i] = Passes(n)[i]
      PROVE  IsStrictPrefix(Passes(n), ev)
  <2>1. Passes(n) \in Seq(Item) /\ Len(Passes(n)) = n
    BY <1>1, PassesShape
  <2>2. SubSeq(Passes(n), 1, n) = SubSeq(ev, 1, n)
    <3>1. /\ SubSeq(Passes(n), 1, n) \in Seq(Item)
          /\ Len(SubSeq(Passes(n), 1, n)) = n
      BY <1>1, <2>1
    <3>2. SubSeq(ev, 1, n) \in Seq(Item) /\ Len(SubSeq(ev, 1, n)) = n
      BY <1>1
    <3>3. \A i \in 1..n : SubSeq(Passes(n), 1, n)[i] = Passes(n)[i]
      BY <1>1, <2>1
    <3>4. \A i \in 1..n : SubSeq(ev, 1, n)[i] = ev[i]
      BY <1>1
    <3> QED
      BY <1>1, <3>1, <3>2, <3>3, <3>4
  <2> QED
    BY <1>1, <2>1, <2>2 DEF IsStrictPrefix, IsPrefix
<1>2. ASSUME NEW n \in 0..11, NEW m \in 0..11, n < m
      PROVE  IsStrictPrefix(Passes(n), Passes(m))
  <2>1. Passes(m) \in Seq(Item) /\ Len(Passes(m)) = m
    BY <1>2, PassesShape
  <2>2. \A i \in 1..n : i \in 1..m
    BY <1>2
  <2>3. \A i \in 1..n : Passes(m)[i] = Passes(n)[i]
    BY <2>2 DEF Passes
  <2> QED
    BY <1>1, <1>2, <2>1, <2>3
<1>3. ASSUME NEW n \in 0..11, NEW m \in 0..10, n <= m
      PROVE  IsStrictPrefix(Passes(n), FailedAt(m))
  <2>1. FailedAt(m) \in Seq(Item) /\ Len(FailedAt(m)) = m + 1
    BY <1>3, FailedShape
  <2>2. \A i \in 1..n : i \in 1..m
    BY <1>3
  <2>3. \A i \in 1..m : FailedAt(m)[i] = Passes(m)[i]
    BY <1>3, FailedShape
  <2>4. \A i \in 1..n : Passes(m)[i] = Passes(n)[i]
    BY <2>2 DEF Passes
  <2>5. n < m + 1
    BY <1>3
  <2> QED
    BY <1>1, <1>3, <2>1, <2>2, <2>3, <2>4, <2>5
<1> QED
  BY <1>2, <1>3

\* Recording what may be recorded makes a longer record.
LEMMA RecordExtends ==
  ASSUME NEW ev \in Ledgers, NEW s, CanRecord(ev, s), NEW o \in Outcome
  PROVE  /\ ~Blocked(ev)
         /\ Record(ev, s, o) \in Ledgers
         /\ IsStrictPrefix(ev, Record(ev, s, o))
<1>1. PICK n \in 0..11 : ev = Passes(n)
  BY LedgerCases, CanRecordOf
<1>2. n \in 0..10 /\ s = StageOrder[n + 1]
  <2>1. n # 11
    BY <1>1, CanRecordOf
  <2>2. n \in 0..10
    BY <2>1
  <2> QED
    BY <1>1, <2>2, CanRecordOf
<1>3. CASE o = "passed"
  <2>1. Record(ev, s, o) = Passes(n + 1)
    BY <1>1, <1>2, <1>3, RecordPassed
  <2>2. n + 1 \in 0..11 /\ n < n + 1
    BY <1>2
  <2> QED
    BY <1>1, <2>1, <2>2, BlockedOf, LedgerIntro, PrefixOf
<1>4. CASE o = "failed"
  <2>1. Record(ev, s, o) = FailedAt(n)
    BY <1>1, <1>2, <1>4 DEF FailedAt
  <2>2. n <= n
    OBVIOUS
  <2> QED
    BY <1>1, <1>2, <2>1, <2>2, BlockedOf, LedgerIntro, PrefixOf
<1> QED
  BY <1>3, <1>4 DEF Outcome

\* Passing a stage if it is the next one changes nothing, or makes the record
\* of some passed stages one stage longer.
LEMMA PassIfNextOf ==
  ASSUME NEW s
  PROVE  /\ \A n \in 0..11 : \E m \in 0..11 :
              n <= m /\ PassIfNext(Passes(n), s) = Passes(m)
         /\ \A n \in 0..10 : PassIfNext(FailedAt(n), s) = FailedAt(n)
<1>1. ASSUME NEW n \in 0..11, CanRecord(Passes(n), s)
      PROVE  \E m \in 0..11 : n <= m /\ PassIfNext(Passes(n), s) = Passes(m)
  <2>1. n # 11
    BY <1>1, CanRecordOf
  <2>2. n \in 0..10 /\ n + 1 \in 0..11 /\ n <= n + 1
    BY <2>1
  <2>3. s = StageOrder[n + 1]
    BY <1>1, <2>2, CanRecordOf
  <2>4. PassIfNext(Passes(n), s) = Passes(n + 1)
    BY <1>1, <2>2, <2>3, RecordPassed DEF PassIfNext
  <2> QED
    BY <2>2, <2>4
<1>2. ASSUME NEW n \in 0..11, ~CanRecord(Passes(n), s)
      PROVE  \E m \in 0..11 : n <= m /\ PassIfNext(Passes(n), s) = Passes(m)
  BY <1>2 DEF PassIfNext
<1>3. \A n \in 0..10 : PassIfNext(FailedAt(n), s) = FailedAt(n)
  BY CanRecordOf DEF PassIfNext
<1> QED
  BY <1>1, <1>2, <1>3

-----------------------------------------------------------------------------
(* Physical runs.                                                          *)

\* What the files say at the places of a command where it relies on what it
\* read before: a gNB is deployed and awaited for a staged run only, a gNB is
\* proven again only for a run whose start passed, a workload is taken back
\* only after it failed, and an attempt has its directory.
PlaceOK ==
  /\ pc # "idle" => cur \in dir
  /\ pc \in {"deploy", "annotate", "poll-n2"} => cur \in staged
  /\ pc = "resume-n2" => Passed(ledger[cur], "gnb-n2")
  /\ pc = "reopen-write" => FailedStage(ledger[cur]) = "workload"
  /\ pc \in {"broker", "collect", "cleanup"} =>
       attempt \in AttemptIds /\ attempts[cur][attempt] # Missing

\* TypeOK in parts: the record of a run, its attempts, the cluster, the rest.
RecordOK ==
  /\ dir \subseteq Runs /\ staged \subseteq dir /\ started \subseteq staged
  /\ ledger \in [Runs -> Ledgers]
  /\ blame \in [Runs -> 0..MaxAttempts]

TrailOK ==
  /\ result \in [Runs -> Results]
  /\ retries \in [Runs -> 0..MaxAttempts]
  /\ attempts \in [Runs -> [AttemptIds -> (SUBSET Files) \cup {Missing}]]

ClusterOK ==
  /\ owner \in Somebody /\ core \in BOOLEAN /\ pdu \in BOOLEAN
  /\ gnb \in Gnbs /\ broker \in Brokers

CommandOK ==
  /\ claim \in Somebody /\ power \in BOOLEAN
  /\ pc \in Labels
  /\ IF pc = "idle" THEN cur = Nobody ELSE cur \in Runs

MemoryOK ==
  attempt \in 0..MaxAttempts /\ good \in BOOLEAN /\ outcome \in Results

IInv ==
  /\ RecordOK /\ TrailOK /\ ClusterOK /\ CommandOK /\ MemoryOK
  /\ PlaceOK /\ EvidenceIsBound

LEMMA TypeInParts ==
  TypeOK <=> RecordOK /\ TrailOK /\ ClusterOK /\ CommandOK /\ MemoryOK
BY DEF TypeOK, RecordOK, TrailOK, ClusterOK, CommandOK, MemoryOK

\* The values of these parts that the module names.
LEMMA NamedValues ==
  /\ NoResult \in Results /\ Nobody \in Somebody /\ 0 \in 0..MaxAttempts
  /\ NoGnb \in Gnbs /\ NoBroker \in Brokers
  /\ AttemptIds \subseteq 0..MaxAttempts
  /\ \A r \in Runs : r \in Somebody /\ r # Nobody
BY MaxAttemptsAssumption, NobodyAssumption
   DEF NoResult, Results, Somebody, NoGnb, Gnbs, NoBroker, Brokers, AttemptIds

\* Deleting objects leaves a broker of the right kind.
LEMMA DeletedBrokers ==
  ASSUME broker \in Brokers PROVE Deleted \subseteq Brokers
BY NamedValues DEF Deleted, Brokers

-----------------------------------------------------------------------------
(* What the writes of this module do to an acceptance record.              *)

\* The two stages the other sections of physical-run.json depend on.
Kept(old, new) ==
  /\ Passed(old, "open5gs") <=> Passed(new, "open5gs")
  /\ Passed(old, "gnb-n2") <=> Passed(new, "gnb-n2")

\* A record stays, grows, or loses a failed workload.
Moves(old, new) ==
  \/ new = old
  \/ ~Blocked(old) /\ IsStrictPrefix(old, new)
  \/ FailedStage(old) = "workload" /\ new = WithoutLast(old)

LEMMA StageNumbers ==
  /\ "open5gs" = StageOrder[4] /\ "gnb-n2" = StageOrder[5]
  /\ "ue-management" = StageOrder[6] /\ "cell-acquisition" = StageOrder[7]
  /\ "registration" = StageOrder[8] /\ "pdu-session" = StageOrder[9]
  /\ "user-plane" = StageOrder[10] /\ "workload" = StageOrder[11]
BY DEF StageOrder

LEMMA RecordLater ==
  ASSUME NEW ev \in Ledgers, NEW k \in 6..11, CanRecord(ev, StageOrder[k]),
         NEW o \in Outcome
  PROVE  /\ Record(ev, StageOrder[k], o) \in Ledgers
         /\ Kept(ev, Record(ev, StageOrder[k], o))
         /\ Moves(ev, Record(ev, StageOrder[k], o))
<1> DEFINE new == Record(ev, StageOrder[k], o)
<1>1. new \in Ledgers /\ ~Blocked(ev) /\ IsStrictPrefix(ev, new)
  BY RecordExtends
<1>2. PICK n \in 0..11 : ev = Passes(n)
  BY LedgerCases, CanRecordOf
<1>3. n # 11
  BY <1>2, CanRecordOf
<1>4. n \in 0..10 /\ n + 1 \in 1..11 /\ k \in 1..11
  BY <1>3
<1>5. n + 1 = k
  BY <1>2, <1>4, CanRecordOf, StageOrderIsInjective
<1>6. new \in {Passes(n + 1), FailedAt(n)}
  BY <1>2, <1>4, <1>5, RecordPassed DEF FailedAt, Outcome
<1>7. /\ 4 \in 1..11 /\ 5 \in 1..11 /\ n + 1 \in 0..11
      /\ 4 <= n /\ 5 <= n /\ 4 <= n + 1 /\ 5 <= n + 1
  BY <1>4, <1>5
<1>8. /\ Passed(ev, StageOrder[4]) /\ Passed(ev, StageOrder[5])
      /\ Passed(new, StageOrder[4]) /\ Passed(new, StageOrder[5])
  BY <1>2, <1>4, <1>6, <1>7, PassedOf
<1> QED
  BY <1>1, <1>8, StageNumbers DEF Kept, Moves

LEMMA PassLater ==
  ASSUME NEW ev \in Ledgers, NEW k \in 6..11
  PROVE  /\ PassIfNext(ev, StageOrder[k]) \in Ledgers
         /\ Kept(ev, PassIfNext(ev, StageOrder[k]))
         /\ Moves(ev, PassIfNext(ev, StageOrder[k]))
<1>1. CASE CanRecord(ev, StageOrder[k])
  BY <1>1, RecordLater DEF PassIfNext, Outcome
<1>2. CASE ~CanRecord(ev, StageOrder[k])
  BY <1>2 DEF PassIfNext, Kept, Moves
<1> QED
  BY <1>1, <1>2

\* The three stages that a session proves at once.
Session(ev) ==
  PassIfNext(PassIfNext(PassIfNext(ev,
    "cell-acquisition"), "registration"), "pdu-session")

LEMMA PassSession ==
  ASSUME NEW ev \in Ledgers
  PROVE  Session(ev) \in Ledgers /\ Kept(ev, Session(ev)) /\ Moves(ev, Session(ev))
<1> DEFINE a == PassIfNext(ev, StageOrder[7])
           b == PassIfNext(a, StageOrder[8])
           c == PassIfNext(b, StageOrder[9])
<1>1. Session(ev) = c
  BY StageNumbers DEF Session
<1>2. 7 \in 6..11 /\ 8 \in 6..11 /\ 9 \in 6..11
  OBVIOUS
<1>3. a \in Ledgers /\ Kept(ev, a)
  BY <1>2, PassLater
<1>4. b \in Ledgers /\ Kept(a, b)
  BY <1>2, <1>3, PassLater
<1>5. c \in Ledgers /\ Kept(b, c)
  BY <1>2, <1>4, PassLater
<1>6. Kept(ev, c)
  BY <1>3, <1>4, <1>5 DEF Kept
<1>7. Moves(ev, c)
  <2>1. CASE \E n \in 0..10 : ev = FailedAt(n)
    <3>1. a = ev /\ b = a /\ c = b
      BY <2>1, PassIfNextOf
    <3> QED
      BY <3>1 DEF Moves
  <2>2. ASSUME NEW n \in 0..11, ev = Passes(n) PROVE Moves(ev, c)
    <3>1. PICK i \in 0..11 : n <= i /\ a = Passes(i)
      BY <2>2, PassIfNextOf
    <3>2. PICK j \in 0..11 : i <= j /\ b = Passes(j)
      BY <3>1, PassIfNextOf
    <3>3. PICK k \in 0..11 : j <= k /\ c = Passes(k)
      BY <3>2, PassIfNextOf
    <3>4. n = k \/ n < k
      BY <3>1, <3>2, <3>3
    <3> QED
      BY <2>2, <3>3, <3>4, PrefixOf, BlockedOf DEF Moves
  <2> QED
    BY <2>1, <2>2, LedgerCases
<1> QED
  BY <1>1, <1>5, <1>6, <1>7

LEMMA ReopenKeeps ==
  ASSUME NEW ev \in Ledgers, FailedStage(ev) = "workload"
  PROVE  /\ WithoutLast(ev) \in Ledgers
         /\ Kept(ev, WithoutLast(ev)) /\ Moves(ev, WithoutLast(ev))
<1>1. ev = FailedAt(10) /\ WithoutLast(ev) = Passes(10)
  BY ReopenedRecord
<1>2. 10 \in 0..10 /\ 10 \in 0..11 /\ 4 \in 1..11 /\ 5 \in 1..11
  OBVIOUS
<1>3. WithoutLast(ev) \in Ledgers
  BY <1>1, <1>2, LedgerIntro
<1>4. /\ Passed(FailedAt(10), StageOrder[4]) /\ Passed(FailedAt(10), StageOrder[5])
      /\ Passed(Passes(10), StageOrder[4]) /\ Passed(Passes(10), StageOrder[5])
  BY <1>2, PassedOf
<1> QED
  BY <1>1, <1>3, <1>4, StageNumbers DEF Kept, Moves

LEMMA FoundationRecord ==
  /\ Passes(4) \in Ledgers /\ Moves(<< >>, Passes(4))
  /\ Passed(Passes(4), "open5gs") /\ ~Passed(Passes(4), "gnb-n2")
  /\ << >> \in Ledgers /\ ~Passed(<< >>, "open5gs") /\ ~Passed(<< >>, "gnb-n2")
<1>1. Passes(0) = << >>
  BY PassesShape
<1>2. 0 \in 0..11 /\ 4 \in 0..11 /\ 4 \in 1..11 /\ 5 \in 1..11 /\ 0 < 4
  OBVIOUS
<1>3. Passes(4) \in Ledgers /\ Passes(0) \in Ledgers
  BY <1>2, LedgerIntro
<1>4. ~Blocked(Passes(0)) /\ IsStrictPrefix(Passes(0), Passes(4))
  BY <1>2, BlockedOf, PrefixOf
<1>5. /\ Passed(Passes(4), StageOrder[4]) /\ ~Passed(Passes(4), StageOrder[5])
      /\ ~Passed(Passes(0), StageOrder[4]) /\ ~Passed(Passes(0), StageOrder[5])
  BY <1>2, PassedOf
<1> QED
  BY <1>1, <1>3, <1>4, <1>5, StageNumbers DEF Moves

LEMMA StartRecord ==
  ASSUME NEW ev \in Ledgers, CanRecord(ev, "gnb-n2")
  PROVE  /\ Record(ev, "gnb-n2", "passed") \in Ledgers
         /\ Moves(ev, Record(ev, "gnb-n2", "passed"))
         /\ Passed(ev, "open5gs") /\ ~Passed(ev, "gnb-n2")
         /\ Passed(Record(ev, "gnb-n2", "passed"), "open5gs")
         /\ Passed(Record(ev, "gnb-n2", "passed"), "gnb-n2")
<1>1. PICK n \in 0..11 : ev = Passes(n)
  BY LedgerCases, CanRecordOf
<1>2. n # 11
  BY <1>1, CanRecordOf
<1>3. n \in 0..10 /\ n + 1 \in 1..11 /\ 4 \in 1..11 /\ 5 \in 1..11
  BY <1>2
<1>4. n + 1 = 5
  BY <1>1, <1>3, CanRecordOf, StageNumbers, StageOrderIsInjective
<1>5. n = 4 /\ 4 \in 0..11 /\ 5 \in 0..11 /\ 4 \in 0..10
  BY <1>3, <1>4
<1>6. Record(ev, "gnb-n2", "passed") = Passes(5)
  BY <1>1, <1>4, <1>5, RecordPassed, StageNumbers
<1>7. /\ Passed(Passes(4), StageOrder[4]) /\ ~Passed(Passes(4), StageOrder[5])
      /\ Passed(Passes(5), StageOrder[4]) /\ Passed(Passes(5), StageOrder[5])
  BY <1>3, <1>5, PassedOf
<1>8. /\ Record(ev, "gnb-n2", "passed") \in Ledgers
      /\ ~Blocked(ev) /\ IsStrictPrefix(ev, Record(ev, "gnb-n2", "passed"))
  BY RecordExtends DEF Outcome
<1> QED
  BY <1>1, <1>5, <1>6, <1>7, <1>8, StageNumbers DEF Moves

-----------------------------------------------------------------------------
(* The steps, one by one.                                                  *)

\* Commands begin with the resources of their run, and end.
LEMMA ResourceSteps ==
  ASSUME IInv,
         \/ \E r \in Runs : Prepare(r)
         \/ \E r \in Runs : PrepareFails(r)
         \/ \E r \in Runs : Reconcile(r)
         \/ \E r \in Runs : Release(r)
         \/ \E r \in Runs : Retire(r)
         \/ Keep
         \/ CleanUpRun
         \/ StopGnb
         \/ PowerOff
  PROVE  IInv'
<1> USE NamedValues DEF IInv, At, Goto, End
<1>1. ASSUME NEW r \in Runs, Prepare(r) PROVE IInv'
  <2>1. TrailOK' /\ ClusterOK' /\ MemoryOK'
    BY <1>1 DEF Prepare, TrailOK, ClusterOK, MemoryOK, trail, cluster, memory
  <2>2. RecordOK'
    BY <1>1 DEF Prepare, RecordOK, CommandOK, record
  <2>3. CommandOK'
    BY <1>1 DEF Prepare, CommandOK, Labels
  <2>4. PlaceOK'
    BY <1>1 DEF Prepare, PlaceOK, CommandOK, record, trail, memory
  <2>5. EvidenceIsBound'
    BY <1>1 DEF Prepare, EvidenceIsBound, record
  <2> QED
    BY <2>1, <2>2, <2>3, <2>4, <2>5
<1>2. ASSUME NEW r \in Runs, PrepareFails(r) PROVE IInv'
  <2>1. TrailOK' /\ ClusterOK' /\ MemoryOK'
    BY <1>2 DEF PrepareFails, TrailOK, ClusterOK, MemoryOK, trail, cluster, memory
  <2>2. RecordOK'
    BY <1>2 DEF PrepareFails, RecordOK, CommandOK, record
  <2>3. CommandOK'
    BY <1>2 DEF PrepareFails, CommandOK, Labels
  <2>4. PlaceOK'
    BY <1>2 DEF PrepareFails, PlaceOK, CommandOK, record, trail, memory
  <2>5. EvidenceIsBound'
    BY <1>2 DEF PrepareFails, EvidenceIsBound, record
  <2> QED
    BY <2>1, <2>2, <2>3, <2>4, <2>5
<1>3. ASSUME NEW r \in Runs, Reconcile(r) PROVE IInv'
  <2>1. RecordOK' /\ TrailOK' /\ ClusterOK' /\ MemoryOK'
    BY <1>3 DEF Reconcile, RecordOK, TrailOK, ClusterOK, MemoryOK, record, trail, cluster, memory
  <2>2. CommandOK'
    BY <1>3 DEF Reconcile, CommandOK, Labels
  <2>3. PlaceOK'
    BY <1>3 DEF Reconcile, PlaceOK, CommandOK, record, trail, memory
  <2>4. EvidenceIsBound'
    BY <1>3 DEF Reconcile, EvidenceIsBound, record
  <2> QED
    BY <2>1, <2>2, <2>3, <2>4
<1>4. ASSUME NEW r \in Runs, Release(r) PROVE IInv'
  <2>1. RecordOK' /\ TrailOK' /\ ClusterOK' /\ MemoryOK'
    BY <1>4 DEF Release, RecordOK, TrailOK, ClusterOK, MemoryOK, record, trail, cluster, memory
  <2>2. CommandOK'
    BY <1>4 DEF Release, CommandOK, Labels
  <2>3. PlaceOK'
    BY <1>4 DEF Release, PlaceOK, CommandOK, record, trail, memory
  <2>4. EvidenceIsBound'
    BY <1>4 DEF Release, EvidenceIsBound, record
  <2> QED
    BY <2>1, <2>2, <2>3, <2>4
<1>5. ASSUME NEW r \in Runs, Retire(r) PROVE IInv'
  <2>1. RecordOK' /\ TrailOK' /\ MemoryOK'
    BY <1>5 DEF Retire, RecordOK, TrailOK, MemoryOK, record, trail, memory
  <2>2. ClusterOK'
    BY <1>5 DEF Retire, ClusterOK, CommandOK
  <2>3. CommandOK'
    BY <1>5 DEF Retire, CommandOK, Labels
  <2>4. PlaceOK'
    BY <1>5 DEF Retire, PlaceOK, CommandOK, record, trail, memory
  <2>5. EvidenceIsBound'
    BY <1>5 DEF Retire, EvidenceIsBound, record
  <2> QED
    BY <2>1, <2>2, <2>3, <2>4, <2>5
<1>6. CASE Keep
  <2>1. RecordOK' /\ TrailOK' /\ ClusterOK'
    BY <1>6 DEF Keep, RecordOK, TrailOK, ClusterOK, record, trail, cluster
  <2>2. CommandOK'
    BY <1>6 DEF Keep, CommandOK, Labels
  <2>3. MemoryOK'
    BY <1>6 DEF Keep, MemoryOK, CommandOK
  <2>4. PlaceOK'
    BY <1>6 DEF Keep, PlaceOK, CommandOK, record, trail, memory
  <2>5. EvidenceIsBound'
    BY <1>6 DEF Keep, EvidenceIsBound, record
  <2> QED
    BY <2>1, <2>2, <2>3, <2>4, <2>5
<1>7. CASE CleanUpRun
  <2>1. RecordOK' /\ TrailOK' /\ ClusterOK' /\ MemoryOK'
    BY <1>7 DEF CleanUpRun, RecordOK, TrailOK, ClusterOK, MemoryOK, record, trail, cluster, memory
  <2>2. CommandOK'
    BY <1>7 DEF CleanUpRun, CommandOK, Labels
  <2>3. PlaceOK'
    BY <1>7 DEF CleanUpRun, PlaceOK, CommandOK, record, trail, memory
  <2>4. EvidenceIsBound'
    BY <1>7 DEF CleanUpRun, EvidenceIsBound, record
  <2> QED
    BY <2>1, <2>2, <2>3, <2>4
<1>8. CASE StopGnb
  <2>1. RecordOK' /\ TrailOK' /\ MemoryOK'
    BY <1>8 DEF StopGnb, RecordOK, TrailOK, MemoryOK, record, trail, memory
  <2>2. ClusterOK'
    BY <1>8 DEF StopGnb, ClusterOK, CommandOK, Gnbs
  <2>3. CommandOK'
    BY <1>8 DEF StopGnb, CommandOK, Labels
  <2>4. PlaceOK'
    BY <1>8 DEF StopGnb, PlaceOK, CommandOK, record, trail, memory
  <2>5. EvidenceIsBound'
    BY <1>8 DEF StopGnb, EvidenceIsBound, record
  <2> QED
    BY <2>1, <2>2, <2>3, <2>4, <2>5
<1>9. CASE PowerOff
  <2>1. RecordOK' /\ TrailOK'
    BY <1>9 DEF PowerOff, RecordOK, TrailOK, record, trail
  <2>2. ClusterOK'
    BY <1>9 DEF PowerOff, ClusterOK, CommandOK
  <2>3. CommandOK'
    BY <1>9 DEF PowerOff, CommandOK, Labels
  <2>4. MemoryOK'
    BY <1>9 DEF PowerOff, MemoryOK, CommandOK
  <2>5. PlaceOK'
    BY <1>9 DEF PowerOff, PlaceOK, CommandOK, record, trail, memory
  <2>6. EvidenceIsBound'
    BY <1>9 DEF PowerOff, EvidenceIsBound, record
  <2> QED
    BY <2>1, <2>2, <2>3, <2>4, <2>5, <2>6
<1> QED
  BY <1>1, <1>2, <1>3, <1>4, <1>5, <1>6, <1>7, <1>8, <1>9

\* Commands work on the cluster without a word in the record.
LEMMA ClusterSteps ==
  ASSUME IInv,
         \/ Handoff
         \/ RelabelGnb
         \/ RelabelNamespace
         \/ Deploy
         \/ Annotate
         \/ RestartProven
         \/ ResumeFoundation
         \/ ResumeN2
         \/ ResumeUe
  PROVE  IInv'
<1> USE NamedValues DEF IInv, At, Goto, End
<1>1. CASE Handoff
  <2>1. RecordOK' /\ TrailOK' /\ MemoryOK'
    BY <1>1 DEF Handoff, RecordOK, TrailOK, MemoryOK, record, trail, memory
  <2>2. ClusterOK'
    BY <1>1 DEF Handoff, ClusterOK, CommandOK, Gnbs
  <2>3. CommandOK'
    BY <1>1 DEF Handoff, CommandOK, Labels
  <2>4. PlaceOK'
    BY <1>1 DEF Handoff, PlaceOK, CommandOK, record, trail, memory
  <2>5. EvidenceIsBound'
    BY <1>1 DEF Handoff, EvidenceIsBound, record
  <2> QED
    BY <2>1, <2>2, <2>3, <2>4, <2>5
<1>2. CASE RelabelGnb
  <2>1. RecordOK' /\ TrailOK' /\ MemoryOK'
    BY <1>2 DEF RelabelGnb, RecordOK, TrailOK, MemoryOK, record, trail, memory
  <2>2. ClusterOK'
    BY <1>2 DEF RelabelGnb, ClusterOK, CommandOK, Gnbs
  <2>3. CommandOK'
    BY <1>2 DEF RelabelGnb, CommandOK, Labels
  <2>4. PlaceOK'
    BY <1>2 DEF RelabelGnb, PlaceOK, CommandOK, record, trail, memory
  <2>5. EvidenceIsBound'
    BY <1>2 DEF RelabelGnb, EvidenceIsBound, record
  <2> QED
    BY <2>1, <2>2, <2>3, <2>4, <2>5
<1>3. CASE RelabelNamespace
  <2>1. RecordOK' /\ TrailOK' /\ MemoryOK'
    BY <1>3 DEF RelabelNamespace, RecordOK, TrailOK, MemoryOK, record, trail, memory
  <2>2. ClusterOK'
    BY <1>3 DEF RelabelNamespace, ClusterOK, CommandOK
  <2>3. CommandOK'
    BY <1>3 DEF RelabelNamespace, CommandOK, Labels
  <2>4. PlaceOK'
    BY <1>3 DEF RelabelNamespace, PlaceOK, CommandOK, record, trail, memory
  <2>5. EvidenceIsBound'
    BY <1>3 DEF RelabelNamespace, EvidenceIsBound, record
  <2> QED
    BY <2>1, <2>2, <2>3, <2>4, <2>5
<1>4. CASE Deploy
  <2>1. RecordOK' /\ TrailOK' /\ MemoryOK'
    BY <1>4 DEF Deploy, RecordOK, TrailOK, MemoryOK, record, trail, memory
  <2>2. ClusterOK'
    BY <1>4 DEF Deploy, ClusterOK, CommandOK, Gnbs
  <2>3. CommandOK'
    BY <1>4 DEF Deploy, CommandOK, Labels
  <2>4. PlaceOK'
    BY <1>4 DEF Deploy, PlaceOK, CommandOK, record, trail, memory
  <2>5. EvidenceIsBound'
    BY <1>4 DEF Deploy, EvidenceIsBound, record
  <2> QED
    BY <2>1, <2>2, <2>3, <2>4, <2>5
<1>5. CASE Annotate
  <2>1. RecordOK' /\ TrailOK' /\ MemoryOK'
    BY <1>5 DEF Annotate, RecordOK, TrailOK, MemoryOK, record, trail, memory
  <2>2. ClusterOK'
    BY <1>5 DEF Annotate, ClusterOK, CommandOK, Gnbs
  <2>3. CommandOK'
    BY <1>5 DEF Annotate, CommandOK, Labels
  <2>4. PlaceOK'
    BY <1>5 DEF Annotate, PlaceOK, CommandOK, record, trail, memory
  <2>5. EvidenceIsBound'
    BY <1>5 DEF Annotate, EvidenceIsBound, record
  <2> QED
    BY <2>1, <2>2, <2>3, <2>4, <2>5
<1>6. CASE RestartProven
  <2>1. RecordOK' /\ TrailOK' /\ ClusterOK' /\ MemoryOK'
    BY <1>6 DEF RestartProven, RecordOK, TrailOK, ClusterOK, MemoryOK, record, trail, cluster, memory
  <2>2. CommandOK'
    BY <1>6 DEF RestartProven, CommandOK, Labels
  <2>3. PlaceOK'
    BY <1>6 DEF RestartProven, PlaceOK, CommandOK, record, trail, memory
  <2>4. EvidenceIsBound'
    BY <1>6 DEF RestartProven, EvidenceIsBound, record
  <2> QED
    BY <2>1, <2>2, <2>3, <2>4
<1>7. CASE ResumeFoundation
  <2>1. RecordOK' /\ TrailOK' /\ MemoryOK'
    BY <1>7 DEF ResumeFoundation, RecordOK, TrailOK, MemoryOK, record, trail, memory
  <2>2. ClusterOK'
    BY <1>7 DEF ResumeFoundation, ClusterOK, CommandOK
  <2>3. CommandOK'
    BY <1>7 DEF ResumeFoundation, CommandOK, Labels
  <2>4. PlaceOK'
    BY <1>7 DEF ResumeFoundation, PlaceOK, CommandOK, record, trail, memory, Evidence
  <2>5. EvidenceIsBound'
    BY <1>7 DEF ResumeFoundation, EvidenceIsBound, record
  <2> QED
    BY <2>1, <2>2, <2>3, <2>4, <2>5
<1>8. CASE ResumeN2
  <2>1. RecordOK' /\ TrailOK' /\ ClusterOK' /\ MemoryOK'
    BY <1>8 DEF ResumeN2, RecordOK, TrailOK, ClusterOK, MemoryOK, record, trail, cluster, memory
  <2>2. CommandOK'
    BY <1>8 DEF ResumeN2, CommandOK, Labels
  <2>3. PlaceOK'
    BY <1>8 DEF ResumeN2, PlaceOK, CommandOK, record, trail, memory, EvidenceIsBound
  <2>4. EvidenceIsBound'
    BY <1>8 DEF ResumeN2, EvidenceIsBound, record
  <2> QED
    BY <2>1, <2>2, <2>3, <2>4
<1>9. CASE ResumeUe
  <2>1. RecordOK' /\ TrailOK' /\ MemoryOK'
    BY <1>9 DEF ResumeUe, RecordOK, TrailOK, MemoryOK, record, trail, memory
  <2>2. ClusterOK'
    BY <1>9 DEF ResumeUe, ClusterOK, CommandOK
  <2>3. CommandOK'
    BY <1>9 DEF ResumeUe, CommandOK, Labels
  <2>4. PlaceOK'
    BY <1>9 DEF ResumeUe, PlaceOK, CommandOK, record, trail, memory
  <2>5. EvidenceIsBound'
    BY <1>9 DEF ResumeUe, EvidenceIsBound, record
  <2> QED
    BY <2>1, <2>2, <2>3, <2>4, <2>5
<1> QED
  BY <1>1, <1>2, <1>3, <1>4, <1>5, <1>6, <1>7, <1>8, <1>9

\* Attempts of the workload, except for their verdict.
LEMMA WorkloadSteps ==
  ASSUME IInv,
         \/ SkipWorkload
         \/ BeginAttempt
         \/ StartBroker
         \/ FailEarly
         \/ Collect
         \/ Cleanup
         \/ Report
         \/ ReopenRecord
  PROVE  IInv'
<1> USE NamedValues DEF IInv, At, Goto, End
<1>1. CASE SkipWorkload
  <2>1. RecordOK' /\ TrailOK' /\ ClusterOK' /\ MemoryOK'
    BY <1>1 DEF SkipWorkload, RecordOK, TrailOK, ClusterOK, MemoryOK, record, trail, cluster, memory
  <2>2. CommandOK'
    BY <1>1 DEF SkipWorkload, CommandOK, Labels
  <2>3. PlaceOK'
    BY <1>1 DEF SkipWorkload, PlaceOK, CommandOK, record, trail, memory
  <2>4. EvidenceIsBound'
    BY <1>1 DEF SkipWorkload, EvidenceIsBound, record
  <2> QED
    BY <2>1, <2>2, <2>3, <2>4
<1>2. CASE BeginAttempt
  <2>1. RecordOK' /\ ClusterOK'
    BY <1>2 DEF BeginAttempt, RecordOK, ClusterOK, record, cluster
  <2>2. TrailOK'
    BY <1>2 DEF BeginAttempt, TrailOK, CommandOK
  <2>3. CommandOK'
    BY <1>2 DEF BeginAttempt, CommandOK, Labels
  <2>4. MemoryOK'
    BY <1>2 DEF BeginAttempt, MemoryOK, CommandOK
  <2>5. PlaceOK'
    <3>1. PICK n \in AttemptIds :
            attempt' = n /\ attempts' = [attempts EXCEPT ![cur][n] = {}]
      BY <1>2 DEF BeginAttempt
    <3>2. cur \in Runs /\ cur \in dir
      BY <1>2 DEF BeginAttempt, PlaceOK, CommandOK
    <3>3. attempts'[cur][n] = {}
      BY <3>1, <3>2 DEF TrailOK
    <3>4. {} # Missing
      BY DEF Missing
    <3> QED
      BY <1>2, <3>1, <3>2, <3>3, <3>4 DEF BeginAttempt, PlaceOK
  <2>6. EvidenceIsBound'
    BY <1>2 DEF BeginAttempt, EvidenceIsBound, record
  <2> QED
    BY <2>1, <2>2, <2>3, <2>4, <2>5, <2>6
<1>3. CASE StartBroker
  <2>1. RecordOK' /\ TrailOK' /\ MemoryOK'
    BY <1>3 DEF StartBroker, RecordOK, TrailOK, MemoryOK, record, trail, memory
  <2>2. ClusterOK'
    BY <1>3 DEF StartBroker, ClusterOK, CommandOK, MemoryOK, BrokerOf, Brokers
  <2>3. CommandOK'
    BY <1>3 DEF StartBroker, CommandOK, Labels
  <2>4. PlaceOK'
    BY <1>3 DEF StartBroker, PlaceOK, CommandOK, record, trail, memory
  <2>5. EvidenceIsBound'
    BY <1>3 DEF StartBroker, EvidenceIsBound, record
  <2> QED
    BY <2>1, <2>2, <2>3, <2>4, <2>5
<1>4. CASE FailEarly
  <2>1. RecordOK' /\ TrailOK' /\ ClusterOK' /\ MemoryOK'
    BY <1>4 DEF FailEarly, RecordOK, TrailOK, ClusterOK, MemoryOK, record, trail, cluster, memory
  <2>2. CommandOK'
    BY <1>4 DEF FailEarly, CommandOK, Labels
  <2>3. PlaceOK'
    BY <1>4 DEF FailEarly, PlaceOK, CommandOK, record, trail, memory
  <2>4. EvidenceIsBound'
    BY <1>4 DEF FailEarly, EvidenceIsBound, record
  <2> QED
    BY <2>1, <2>2, <2>3, <2>4
<1>5. CASE Collect
  <2>1. RecordOK' /\ ClusterOK'
    BY <1>5 DEF Collect, RecordOK, ClusterOK, record, cluster
  <2>2. TrailOK'
    BY <1>5 DEF Collect, TrailOK, CommandOK, PlaceOK, Files, Missing
  <2>3. CommandOK'
    BY <1>5 DEF Collect, CommandOK, Labels
  <2>4. MemoryOK'
    BY <1>5 DEF Collect, MemoryOK, CommandOK
  <2>5. PlaceOK'
    BY <1>5 DEF Collect, PlaceOK, CommandOK, record, trail, memory, TrailOK, Missing
  <2>6. EvidenceIsBound'
    BY <1>5 DEF Collect, EvidenceIsBound, record
  <2> QED
    BY <2>1, <2>2, <2>3, <2>4, <2>5, <2>6
<1>6. CASE Cleanup
  <2>1. RecordOK'
    BY <1>6 DEF Cleanup, RecordOK, record
  <2>2. TrailOK'
    BY <1>6 DEF Cleanup, TrailOK, CommandOK, PlaceOK, Files, Missing
  <2>3. ClusterOK'
    BY <1>6, DeletedBrokers DEF Cleanup, ClusterOK, CommandOK
  <2>4. CommandOK'
    BY <1>6 DEF Cleanup, CommandOK, Labels
  <2>5. MemoryOK'
    <3>1. PICK deleted \in BOOLEAN, proven \in BOOLEAN :
            outcome' = [attempt |-> attempt,
                        accepted |-> good /\ (deleted /\ proven /\ N2Up(cur) /\ pdu),
                        clean |-> (deleted /\ proven /\ N2Up(cur) /\ pdu)]
      BY <1>6 DEF Cleanup
    <3>2. /\ (deleted /\ proven /\ N2Up(cur) /\ pdu) \in BOOLEAN
          /\ (good /\ (deleted /\ proven /\ N2Up(cur) /\ pdu)) \in BOOLEAN
      OBVIOUS
    <3>4. outcome' \in Results
      BY <3>1, <3>2 DEF MemoryOK, Results
    <3> QED
      BY <1>6, <3>4 DEF Cleanup, MemoryOK
  <2>6. PlaceOK'
    BY <1>6 DEF Cleanup, PlaceOK, CommandOK, record, trail, memory
  <2>7. EvidenceIsBound'
    BY <1>6 DEF Cleanup, EvidenceIsBound, record
  <2> QED
    BY <2>1, <2>2, <2>3, <2>4, <2>5, <2>6, <2>7
<1>7. CASE Report
  <2>1. RecordOK' /\ ClusterOK' /\ MemoryOK'
    BY <1>7 DEF Report, RecordOK, ClusterOK, MemoryOK, record, cluster, memory
  <2>2. TrailOK'
    BY <1>7 DEF Report, TrailOK, CommandOK, MemoryOK
  <2>3. CommandOK'
    BY <1>7 DEF Report, CommandOK, Labels
  <2>4. PlaceOK'
    BY <1>7 DEF Report, PlaceOK, CommandOK, record, trail, memory
  <2>5. EvidenceIsBound'
    BY <1>7 DEF Report, EvidenceIsBound, record
  <2> QED
    BY <2>1, <2>2, <2>3, <2>4, <2>5
<1>8. CASE ReopenRecord
  <2>1. RecordOK' /\ MemoryOK'
    BY <1>8 DEF ReopenRecord, RecordOK, MemoryOK, record, memory
  <2>2. TrailOK'
    BY <1>8, MaxAttemptsAssumption DEF ReopenRecord, TrailOK, CommandOK, MayReopen
  <2>3. ClusterOK'
    BY <1>8 DEF ReopenRecord, ClusterOK, CommandOK
  <2>4. CommandOK'
    BY <1>8 DEF ReopenRecord, CommandOK, Labels
  <2>5. PlaceOK'
    BY <1>8 DEF ReopenRecord, PlaceOK, CommandOK, record, trail, memory, Evidence
  <2>6. EvidenceIsBound'
    BY <1>8 DEF ReopenRecord, EvidenceIsBound, record
  <2> QED
    BY <2>1, <2>2, <2>3, <2>4, <2>5, <2>6
<1> QED
  BY <1>1, <1>2, <1>3, <1>4, <1>5, <1>6, <1>7, <1>8

\* What happens around a command.
LEMMA OtherSteps ==
  ASSUME IInv,
         \/ Abort
         \/ CoreBreaks
         \/ UeDrops
         \/ Joins
         \/ BrokerEnds
         \/ ClusterReplaced
  PROVE  IInv'
<1> USE NamedValues DEF IInv, At, Goto, End
<1>1. CASE Abort
  <2>1. RecordOK' /\ TrailOK'
    BY <1>1 DEF Abort, RecordOK, TrailOK, record, trail
  <2>2. ClusterOK'
    BY <1>1, DeletedBrokers DEF Abort, HalfDone, ClusterOK, CommandOK, cluster
  <2>3. CommandOK'
    BY <1>1 DEF Abort, HalfDone, CommandOK, Labels
  <2>4. MemoryOK'
    BY <1>1 DEF Abort, MemoryOK, CommandOK
  <2>5. PlaceOK'
    BY <1>1 DEF Abort, PlaceOK, CommandOK, record, trail, memory
  <2>6. EvidenceIsBound'
    BY <1>1 DEF Abort, EvidenceIsBound, record
  <2> QED
    BY <2>1, <2>2, <2>3, <2>4, <2>5, <2>6
<1>2. CASE CoreBreaks
  <2>1. RecordOK' /\ TrailOK' /\ MemoryOK' /\ CommandOK'
    BY <1>2 DEF CoreBreaks, RecordOK, TrailOK, MemoryOK, CommandOK, record, trail, memory
  <2>2. ClusterOK'
    BY <1>2 DEF CoreBreaks, ClusterOK, CommandOK
  <2>3. PlaceOK'
    BY <1>2 DEF CoreBreaks, PlaceOK, CommandOK, record, trail, memory
  <2>4. EvidenceIsBound'
    BY <1>2 DEF CoreBreaks, EvidenceIsBound, record
  <2> QED
    BY <2>1, <2>2, <2>3, <2>4
<1>3. CASE UeDrops
  <2>1. RecordOK' /\ TrailOK' /\ MemoryOK' /\ CommandOK'
    BY <1>3 DEF UeDrops, RecordOK, TrailOK, MemoryOK, CommandOK, record, trail, memory
  <2>2. ClusterOK'
    BY <1>3 DEF UeDrops, ClusterOK, CommandOK
  <2>3. PlaceOK'
    BY <1>3 DEF UeDrops, PlaceOK, CommandOK, record, trail, memory
  <2>4. EvidenceIsBound'
    BY <1>3 DEF UeDrops, EvidenceIsBound, record
  <2> QED
    BY <2>1, <2>2, <2>3, <2>4
<1>4. CASE ClusterReplaced
  <2>1. RecordOK' /\ TrailOK' /\ MemoryOK' /\ CommandOK'
    BY <1>4 DEF ClusterReplaced, RecordOK, TrailOK, MemoryOK, CommandOK, record, trail, memory
  <2>2. ClusterOK'
    BY <1>4 DEF ClusterReplaced, ClusterOK, CommandOK
  <2>3. PlaceOK'
    BY <1>4 DEF ClusterReplaced, PlaceOK, CommandOK, record, trail, memory
  <2>4. EvidenceIsBound'
    BY <1>4 DEF ClusterReplaced, EvidenceIsBound, record
  <2> QED
    BY <2>1, <2>2, <2>3, <2>4
<1>5. CASE Joins \/ BrokerEnds
  <2>1. RecordOK' /\ TrailOK' /\ MemoryOK' /\ CommandOK'
    BY <1>5 DEF Joins, BrokerEnds, RecordOK, TrailOK, MemoryOK, CommandOK, record, trail, memory
  <2>2. ClusterOK'
    BY <1>5 DEF Joins, BrokerEnds, ClusterOK, Gnbs
  <2>3. PlaceOK'
    BY <1>5 DEF Joins, BrokerEnds, PlaceOK, CommandOK, record, trail, memory
  <2>4. EvidenceIsBound'
    BY <1>5 DEF Joins, BrokerEnds, EvidenceIsBound, record
  <2> QED
    BY <2>1, <2>2, <2>3, <2>4
<1> QED
  BY <1>1, <1>2, <1>3, <1>4, <1>5

-----------------------------------------------------------------------------
(* The steps that write a record.                                          *)

\* Writing a record that keeps the two stages disturbs nothing else.
LEMMA Written ==
  ASSUME IInv, cur \in Runs, NEW new \in Ledgers, Kept(ledger[cur], new),
         Write(new), UNCHANGED <<dir, staged, started>>,
         blame' \in [Runs -> 0..MaxAttempts]
  PROVE  RecordOK' /\ EvidenceIsBound'
<1>1. RecordOK'
  BY DEF IInv, RecordOK, Write
<1>2. \A r \in Runs : Kept(ledger[r], ledger'[r])
  BY DEF IInv, RecordOK, Write, Kept
<1>3. EvidenceIsBound'
  BY <1>2 DEF IInv, EvidenceIsBound, Kept
<1> QED
  BY <1>1, <1>3

LEMMA FoundationStep ==
  ASSUME IInv, AcceptFoundation
  PROVE  IInv' /\ Moves(ledger[cur], ledger'[cur])
<1> USE DEF IInv, At, Goto
<1>1. cur \in Runs /\ ledger[cur] = << >> /\ ledger' = [ledger EXCEPT ![cur] = Passes(4)]
  BY DEF AcceptFoundation, Evidence, Write, CommandOK
<1>2. ledger'[cur] = Passes(4) /\ \A r \in Runs \ {cur} : ledger'[r] = ledger[r]
  BY <1>1 DEF RecordOK
<1>3. TrailOK' /\ ClusterOK' /\ MemoryOK' /\ CommandOK'
  BY DEF AcceptFoundation, TrailOK, ClusterOK, MemoryOK, CommandOK, Labels, trail, memory
<1>4. RecordOK'
  BY <1>1, FoundationRecord DEF AcceptFoundation, RecordOK
<1>5. PlaceOK'
  BY DEF AcceptFoundation, PlaceOK
<1>6. EvidenceIsBound'
  BY <1>1, <1>2, FoundationRecord DEF AcceptFoundation, EvidenceIsBound
<1> QED
  BY <1>1, <1>2, <1>3, <1>4, <1>5, <1>6, FoundationRecord

LEMMA BindStep ==
  ASSUME IInv, BindStart
  PROVE  IInv' /\ Moves(ledger[cur], ledger'[cur])
<1> USE DEF IInv, At, Goto
<1> DEFINE new == Record(ledger[cur], "gnb-n2", "passed")
<1>1. /\ cur \in Runs /\ ledger[cur] \in Ledgers /\ CanRecord(ledger[cur], "gnb-n2")
      /\ ledger' = [ledger EXCEPT ![cur] = new]
  BY DEF BindStart, Evidence, Write, CommandOK, RecordOK
<1>2. ledger'[cur] = new /\ \A r \in Runs \ {cur} : ledger'[r] = ledger[r]
  BY <1>1 DEF RecordOK
<1>3. /\ new \in Ledgers /\ Moves(ledger[cur], new)
      /\ Passed(ledger[cur], "open5gs") /\ ~Passed(ledger[cur], "gnb-n2")
      /\ Passed(new, "open5gs") /\ Passed(new, "gnb-n2")
  BY <1>1, StartRecord
<1>4. cur \in staged
  BY DEF BindStart, PlaceOK
<1> HIDE DEF new
<1>5. TrailOK' /\ ClusterOK' /\ MemoryOK' /\ CommandOK'
  BY DEF BindStart, TrailOK, ClusterOK, MemoryOK, CommandOK, Labels, trail, cluster,
         memory
<1>6. RecordOK'
  BY <1>1, <1>3, <1>4 DEF BindStart, RecordOK
<1>7. PlaceOK'
  BY DEF BindStart, PlaceOK
<1>8. EvidenceIsBound'
  BY <1>2, <1>3, <1>4 DEF BindStart, EvidenceIsBound
<1> QED
  BY <1>2, <1>3, <1>5, <1>6, <1>7, <1>8

LEMMA StageStep ==
  ASSUME IInv, Stage
  PROVE  IInv' /\ UNCHANGED ledger
<1> USE DEF IInv, At, Goto
<1>1. cur \in Runs /\ cur \in dir /\ UNCHANGED ledger
  BY DEF Stage, CommandOK, PlaceOK
<1>2. TrailOK' /\ ClusterOK' /\ MemoryOK' /\ CommandOK'
  BY DEF Stage, TrailOK, ClusterOK, MemoryOK, CommandOK, Labels, trail, cluster,
         memory
<1>3. RecordOK' /\ cur \in staged'
  BY <1>1 DEF Stage, RecordOK
<1>4. PlaceOK'
  BY <1>1, <1>3 DEF Stage, PlaceOK
<1>5. EvidenceIsBound'
  <2>1. CASE cur \in staged
    BY <2>1 DEF Stage, EvidenceIsBound
  <2>2. CASE cur \notin staged
    <3>1. NextStage(ledger[cur]) = "gnb-n2" /\ staged' = staged \cup {cur}
      BY <2>2 DEF Stage, Evidence
    <3>2. Passed(ledger[cur], "open5gs")
      BY <1>1, <3>1, StartRecord DEF CanRecord, NoStage, RecordOK
    <3> QED
      BY <3>1, <3>2 DEF Stage, EvidenceIsBound
  <2> QED
    BY <2>1, <2>2
<1> QED
  BY <1>1, <1>2, <1>3, <1>4, <1>5

LEMMA PathStep ==
  ASSUME IInv, Path
  PROVE  IInv' /\ Moves(ledger[cur], ledger'[cur])
<1> USE DEF IInv, At, Goto
<1>1. cur \in Runs /\ ledger[cur] \in Ledgers
  BY DEF Path, CommandOK, RecordOK
<1>2. TrailOK' /\ ClusterOK' /\ MemoryOK' /\ CommandOK'
  BY DEF Path, TrailOK, ClusterOK, MemoryOK, CommandOK, Labels, trail, cluster,
         memory
<1>3. PlaceOK'
  BY DEF Path, PlaceOK
<1>4. CASE UNCHANGED ledger
  <2>1. RecordOK' /\ EvidenceIsBound'
    BY <1>4 DEF Path, RecordOK, EvidenceIsBound
  <2> QED
    BY <1>2, <1>3, <1>4, <2>1 DEF Moves
<1>5. CASE Write(PassIfNext(ledger[cur], "ue-management"))
  <2> DEFINE new == PassIfNext(ledger[cur], "ue-management")
  <2>1. 6 \in 6..11
    OBVIOUS
  <2>2. new \in Ledgers /\ Kept(ledger[cur], new) /\ Moves(ledger[cur], new)
    BY <1>1, <2>1, PassLater, StageNumbers
  <2> HIDE DEF new
  <2>3. blame' \in [Runs -> 0..MaxAttempts] /\ UNCHANGED <<dir, staged, started>>
    BY DEF Path, RecordOK
  <2>4. RecordOK' /\ EvidenceIsBound'
    BY <1>1, <1>5, <2>2, <2>3, Written DEF new
  <2>5. ledger'[cur] = new
    BY <1>1, <1>5 DEF Write, RecordOK, new
  <2> QED
    BY <1>2, <1>3, <2>2, <2>4, <2>5
<1> QED
  BY <1>4, <1>5 DEF Path, Evidence

LEMMA ConnectStep ==
  ASSUME IInv, Connect
  PROVE  IInv' /\ Moves(ledger[cur], ledger'[cur])
<1> USE DEF IInv, At, Goto
<1> DEFINE new == Session(ledger[cur])
<1>1. cur \in Runs /\ ledger[cur] \in Ledgers
  BY DEF Connect, CommandOK, RecordOK
<1>2. TrailOK' /\ ClusterOK' /\ MemoryOK' /\ CommandOK'
  BY DEF Connect, TrailOK, ClusterOK, MemoryOK, CommandOK, Labels, trail, memory
<1>3. PlaceOK'
  BY DEF Connect, PlaceOK
<1>4. new \in Ledgers /\ Kept(ledger[cur], new) /\ Moves(ledger[cur], new)
  BY <1>1, PassSession
<1>5. Write(new)
  BY DEF Connect, Session, Evidence
<1> HIDE DEF new
<1>6. blame' \in [Runs -> 0..MaxAttempts] /\ UNCHANGED <<dir, staged, started>>
  BY DEF Connect, RecordOK
<1>7. RecordOK' /\ EvidenceIsBound'
  BY <1>1, <1>4, <1>5, <1>6, Written
<1>8. ledger'[cur] = new
  BY <1>1, <1>5 DEF Write, RecordOK
<1> QED
  BY <1>2, <1>3, <1>4, <1>7, <1>8

LEMMA ProbeStep ==
  ASSUME IInv, Probe
  PROVE  IInv' /\ Moves(ledger[cur], ledger'[cur])
<1> USE NamedValues DEF IInv, At, Goto, End
<1>1. /\ cur \in Runs /\ ledger[cur] \in Ledgers
      /\ CanRecord(ledger[cur], StageOrder[10])
  BY StageNumbers DEF Probe, CommandOK, RecordOK, Evidence
<1>2. TrailOK' /\ ClusterOK'
  BY DEF Probe, TrailOK, ClusterOK, trail, cluster
<1>3. CommandOK' /\ MemoryOK'
  BY <1>1 DEF Probe, CommandOK, MemoryOK, Labels, memory
<1>4. PlaceOK'
  BY DEF Probe, PlaceOK
<1>5. PICK o \in Outcome : Write(Record(ledger[cur], StageOrder[10], o))
  BY StageNumbers DEF Probe, Evidence, Outcome
<1> DEFINE new == Record(ledger[cur], StageOrder[10], o)
<1>6. 10 \in 6..11
  OBVIOUS
<1>7. new \in Ledgers /\ Kept(ledger[cur], new) /\ Moves(ledger[cur], new)
  BY <1>1, <1>6, RecordLater
<1>8. Write(new)
  BY <1>5
<1> HIDE DEF new
<1>9. blame' \in [Runs -> 0..MaxAttempts] /\ UNCHANGED <<dir, staged, started>>
  BY DEF Probe, RecordOK
<1>10. RecordOK' /\ EvidenceIsBound'
  BY <1>1, <1>7, <1>8, <1>9, Written
<1>11. ledger'[cur] = new
  BY <1>1, <1>8 DEF Write, RecordOK
<1> QED
  BY <1>2, <1>3, <1>4, <1>7, <1>10, <1>11

LEMMA ReopenStep ==
  ASSUME IInv, ReopenWrite
  PROVE  IInv' /\ Moves(ledger[cur], ledger'[cur])
<1> USE DEF IInv, At, Goto
<1> DEFINE new == WithoutLast(ledger[cur])
<1>1. /\ cur \in Runs /\ ledger[cur] \in Ledgers
      /\ FailedStage(ledger[cur]) = "workload"
  BY DEF ReopenWrite, CommandOK, RecordOK, PlaceOK
<1>2. TrailOK' /\ ClusterOK' /\ MemoryOK' /\ CommandOK'
  BY DEF ReopenWrite, TrailOK, ClusterOK, MemoryOK, CommandOK, Labels, trail,
         cluster, memory
<1>3. PlaceOK'
  BY DEF ReopenWrite, PlaceOK
<1>4. new \in Ledgers /\ Kept(ledger[cur], new) /\ Moves(ledger[cur], new)
  BY <1>1, ReopenKeeps
<1>5. Write(new)
  BY DEF ReopenWrite, Evidence
<1> HIDE DEF new
<1>6. blame' \in [Runs -> 0..MaxAttempts] /\ UNCHANGED <<dir, staged, started>>
  BY NamedValues DEF ReopenWrite, RecordOK
<1>7. RecordOK' /\ EvidenceIsBound'
  BY <1>1, <1>4, <1>5, <1>6, Written
<1>8. ledger'[cur] = new
  BY <1>1, <1>5 DEF Write, RecordOK
<1> QED
  BY <1>2, <1>3, <1>4, <1>7, <1>8

LEMMA JudgeStep ==
  ASSUME IInv, Judge
  PROVE  IInv' /\ Moves(ledger[cur], ledger'[cur])
<1> USE DEF IInv, At, Goto
<1>1. /\ cur \in Runs /\ ledger[cur] \in Ledgers
      /\ CanRecord(ledger[cur], StageOrder[11])
  BY StageNumbers DEF Judge, CommandOK, RecordOK, Evidence
<1>2. TrailOK' /\ ClusterOK' /\ MemoryOK' /\ CommandOK'
  BY DEF Judge, TrailOK, ClusterOK, MemoryOK, CommandOK, Labels, trail, cluster,
         memory
<1>3. PlaceOK'
  BY DEF Judge, PlaceOK
<1>4. PICK o \in Outcome : Write(Record(ledger[cur], StageOrder[11], o))
  BY StageNumbers DEF Judge, Evidence, Outcome
<1> DEFINE new == Record(ledger[cur], StageOrder[11], o)
<1>5. 11 \in 6..11
  OBVIOUS
<1>6. new \in Ledgers /\ Kept(ledger[cur], new) /\ Moves(ledger[cur], new)
  BY <1>1, <1>5, RecordLater
<1>7. Write(new)
  BY <1>4
<1> HIDE DEF new
<1>8. blame' \in [Runs -> 0..MaxAttempts] /\ UNCHANGED <<dir, staged, started>>
  BY DEF Judge, RecordOK, MemoryOK
<1>9. RecordOK' /\ EvidenceIsBound'
  BY <1>1, <1>6, <1>7, <1>8, Written
<1>10. ledger'[cur] = new
  BY <1>1, <1>7 DEF Write, RecordOK
<1> QED
  BY <1>2, <1>3, <1>6, <1>9, <1>10

-----------------------------------------------------------------------------
(* All steps together.                                                     *)

LEMMA InitHolds == ASSUME Init PROVE IInv
<1> USE NamedValues DEF Init
<1>1. RecordOK
  BY FoundationRecord DEF RecordOK
<1>2. TrailOK
  BY DEF TrailOK
<1>3. ClusterOK
  BY DEF ClusterOK, LegacyGnb, NoGnb, Gnbs
<1>4. CommandOK /\ MemoryOK
  BY DEF CommandOK, MemoryOK, Labels
<1>5. PlaceOK
  BY DEF PlaceOK
<1>6. EvidenceIsBound
  BY FoundationRecord DEF EvidenceIsBound
<1> QED
  BY <1>1, <1>2, <1>3, <1>4, <1>5, <1>6 DEF IInv

LEMMA StutterHolds == ASSUME IInv, UNCHANGED vars PROVE IInv'
BY DEF vars, IInv, RecordOK, TrailOK, ClusterOK, CommandOK, MemoryOK, PlaceOK,
       EvidenceIsBound

\* Only these write a record, and each that of the run at hand.
Writers ==
  \/ AcceptFoundation \/ BindStart \/ Path \/ Connect \/ Probe
  \/ ReopenWrite \/ Judge

LEMMA WritersMove ==
  ASSUME IInv, Writers
  PROVE  IInv' /\ Moves(ledger[cur], ledger'[cur])
BY FoundationStep, BindStep, PathStep, ConnectStep, ProbeStep, ReopenStep, JudgeStep
   DEF Writers

LEMMA NextHolds == ASSUME IInv, Next PROVE IInv'
<1>1. CASE \E r \in Runs : Command(r)
  BY <1>1, ResourceSteps DEF Command
<1>2. CASE Network
  BY <1>2, ClusterSteps, StageStep, WritersMove DEF Network, Writers
<1>3. CASE Resume
  BY <1>3, ClusterSteps, WorkloadSteps, WritersMove DEF Resume, Writers
<1>4. CASE Workload
  BY <1>4, WorkloadSteps, WritersMove DEF Workload, Writers
<1>5. CASE Ending
  BY <1>5, ResourceSteps DEF Ending
<1>6. CASE Abort \/ CoreBreaks \/ UeDrops \/ Joins \/ BrokerEnds \/ ClusterReplaced
  BY <1>6, OtherSteps
<1> QED
  BY <1>1, <1>2, <1>3, <1>4, <1>5, <1>6 DEF Next

\* The strengthening holds in every state, for any number of runs and attempts.
THEOREM Invariance == Spec => []IInv
<1>1. Init => IInv
  BY InitHolds
<1>2. IInv /\ [Next]_vars => IInv'
  BY NextHolds, StutterHolds
<1> QED
  BY <1>1, <1>2, PTL DEF Spec

\* Files, cluster and command are always in a state the code knows; every
\* acceptance record that reaches the disk is one its constructor accepts
\* (PhysicalAcceptance.__post_init__).
THEOREM TypeCorrect == Spec => []TypeOK
<1>1. IInv => TypeOK
  BY TypeInParts DEF IInv
<1> QED
  BY <1>1, Invariance, PTL

\* However runs are interrupted and resumed, a gNB start is bound exactly when
\* its stage passed, and only to what was staged upon an accepted foundation
\* (PhysicalRunEvidence.bind_staging, bind_gnb_start).
THEOREM EvidenceBound == Spec => []EvidenceIsBound
<1>1. IInv => EvidenceIsBound
  BY DEF IInv
<1> QED
  BY <1>1, Invariance, PTL

-----------------------------------------------------------------------------
(* PhysicalRun implements AcceptanceLedger.                                *)

\* The abstract specification speaks of the same records.
LEMMA SameRecords ==
  /\ Promise!Ledgers = Ledgers
  /\ \A ev : /\ Promise!Blocked(ev) = Blocked(ev)
             /\ Promise!FailedStage(ev) = FailedStage(ev)
             /\ Promise!WithoutLast(ev) = WithoutLast(ev)
             /\ Promise!Accepted(ev) = Accepted(ev)
  /\ \A old, new : Promise!IsStrictPrefix(old, new) = IsStrictPrefix(old, new)
  /\ Promise!Passes(0) = Passes(0) /\ Promise!NoStage = NoStage
  /\ Promise!Stages = Stages
  /\ \A ev, s : Promise!Passed(ev, s) = Passed(ev, s)
<1>1. Promise!StageOrder = StageOrder
  BY DEF Promise!StageOrder, StageOrder
<1>2. Promise!Ledgers = Ledgers
  BY <1>1 DEF Promise!Ledgers, Ledgers, Promise!Passes, Passes, Promise!Record, Record
<1>3. \A ev : Promise!Blocked(ev) = Blocked(ev)
  BY DEF Promise!Blocked, Blocked, Promise!Last, Last
<1>4. \A ev : Promise!FailedStage(ev) = FailedStage(ev)
  BY DEF Promise!FailedStage, FailedStage, Promise!NoStage, NoStage
<1>5. \A ev : Promise!WithoutLast(ev) = WithoutLast(ev)
  BY DEF Promise!WithoutLast, WithoutLast, Promise!Front, Front
<1>6. \A old, new : Promise!IsStrictPrefix(old, new) = IsStrictPrefix(old, new)
  BY DEF Promise!IsStrictPrefix, IsStrictPrefix, Promise!IsPrefix, IsPrefix
<1>7. \A ev : Promise!Accepted(ev) = Accepted(ev)
  BY <1>1 DEF Promise!Accepted, Accepted, Promise!Last, Last
<1>8. Promise!Passes(0) = Passes(0) /\ Promise!NoStage = NoStage
  BY <1>1 DEF Promise!Passes, Passes, Promise!NoStage, NoStage
<1>9. Promise!Stages = Stages
  BY <1>1 DEF Promise!Stages, Stages
<1>10. \A ev, s : Promise!Passed(ev, s) = Passed(ev, s)
  BY <1>1 DEF Promise!Passed, Passed, Promise!OutcomeFor, OutcomeFor
<1> QED
  BY <1>2, <1>3, <1>4, <1>5, <1>6, <1>7, <1>8, <1>9, <1>10

\* A step writes no record, or that of the run at hand.
LEMMA WhoWrites ==
  ASSUME IInv, [Next]_vars
  PROVE  \/ UNCHANGED ledger
         \/ /\ Writers /\ cur \in Runs
            /\ ledger' = [ledger EXCEPT ![cur] = ledger'[cur]]
<1> USE DEF IInv, At, record
<1>1. ASSUME NEW r \in Runs, Command(r) PROVE UNCHANGED ledger
  BY <1>1 DEF Command, Prepare, PrepareFails, Reconcile, Release, Retire
<1>2. CASE Ending \/ Abort \/ CoreBreaks \/ UeDrops \/ Joins \/ BrokerEnds \/ ClusterReplaced
  BY <1>2 DEF Ending, Keep, CleanUpRun, StopGnb, PowerOff, Abort, CoreBreaks, UeDrops, Joins, BrokerEnds,
              ClusterReplaced
<1>3. CASE Writers
  <2>1. cur \in Runs
    BY <1>3 DEF Writers, AcceptFoundation, BindStart, Path, Connect, Probe,
                ReopenWrite, Judge, CommandOK
  <2>2. UNCHANGED ledger \/ \E new : ledger' = [ledger EXCEPT ![cur] = new]
    BY <1>3 DEF Writers, AcceptFoundation, BindStart, Path, Connect, Probe,
                ReopenWrite, Judge, Write
  <2> QED
    BY <1>3, <2>1, <2>2 DEF RecordOK
<1>4. CASE Network /\ ~Writers
  BY <1>4 DEF Network, Writers, Handoff, RelabelGnb, RelabelNamespace, Stage, Deploy,
              Annotate, RestartProven
<1>5. CASE Resume /\ ~Writers
  BY <1>5 DEF Resume, Writers, ResumeFoundation, ResumeN2, ResumeUe, ReopenRecord
<1>6. CASE Workload /\ ~Writers
  BY <1>6 DEF Workload, Writers, SkipWorkload, BeginAttempt, StartBroker, FailEarly,
              Collect, Cleanup, Report
<1>7. CASE UNCHANGED vars
  BY <1>7 DEF vars
<1> QED
  BY <1>1, <1>2, <1>3, <1>4, <1>5, <1>6, <1>7 DEF Next

LEMMA StepKeepsPromise ==
  ASSUME IInv, [Next]_vars, IInv'
  PROVE  [Promise!Next]_ledger
<1>1. CASE UNCHANGED ledger
  BY <1>1
<1>2. CASE /\ Writers /\ cur \in Runs
           /\ ledger' = [ledger EXCEPT ![cur] = ledger'[cur]]
  <2>1. ledger[cur] \in Ledgers /\ ledger'[cur] \in Ledgers
    BY <1>2 DEF IInv, RecordOK
  <2>2. CASE ledger'[cur] = ledger[cur]
    BY <1>2, <2>2 DEF IInv, RecordOK
  <2>3. CASE ~Blocked(ledger[cur]) /\ IsStrictPrefix(ledger[cur], ledger'[cur])
    BY <1>2, <2>1, <2>3, SameRecords DEF Promise!Next, Promise!Extend
  <2>4. CASE /\ FailedStage(ledger[cur]) = "workload"
             /\ ledger'[cur] = WithoutLast(ledger[cur])
    <3>1. ledger' = [ledger EXCEPT ![cur] = Promise!WithoutLast(ledger[cur])]
      BY <1>2, <2>4, SameRecords
    <3> QED
      BY <1>2, <2>4, <3>1, SameRecords DEF Promise!Next, Promise!Reopen
  <2> QED
    BY <1>2, <2>2, <2>3, <2>4, WritersMove DEF Moves
<1> QED
  BY <1>1, <1>2, WhoWrites

\* The lifecycle implements the promise of AcceptanceLedger: whatever is
\* resumed, retried or interrupted, the record of a run grows in the order of
\* its stages, stops at a failure, and gives back at most a failed workload.
THEOREM PromiseKept == Spec => KeepsPromise
<1>1. Init => Promise!Init
  BY DEF Init, Promise!Init
<1>2. IInv /\ [Next]_vars /\ IInv' => [Promise!Next]_ledger
  BY StepKeepsPromise
<1> QED
  BY <1>1, <1>2, Invariance, PTL DEF Spec, KeepsPromise, Promise!Spec

-----------------------------------------------------------------------------
(* What AcceptanceLedger promises, and therefore what every lifecycle that *)
(* implements it keeps.                                                    *)

\* The two actions of AcceptanceLedger, in the words of Acceptance.
Extended(r) ==
  /\ ~Blocked(ledger[r])
  /\ \E new \in Ledgers :
       IsStrictPrefix(ledger[r], new) /\ ledger' = [ledger EXCEPT ![r] = new]

Reopened(r) ==
  /\ FailedStage(ledger[r]) = "workload"
  /\ ledger' = [ledger EXCEPT ![r] = WithoutLast(ledger[r])]

LEMMA PromisedSteps == Promise!Next => \E r \in Runs : Extended(r) \/ Reopened(r)
<1>1. ASSUME NEW r \in Runs, Promise!Extend(r) PROVE Extended(r)
  BY <1>1, SameRecords DEF Promise!Extend, Extended
<1>2. ASSUME NEW r \in Runs, Promise!Reopen(r) PROVE Reopened(r)
  <2>1. ledger' = [ledger EXCEPT ![r] = Promise!WithoutLast(ledger[r])]
    BY <1>2 DEF Promise!Reopen
  <2> QED
    BY <1>2, <2>1, SameRecords DEF Promise!Reopen, Reopened
<1> QED
  BY <1>1, <1>2 DEF Promise!Next

\* The inductive invariant.
TypedLedger == ledger \in [Runs -> Ledgers]

LEMMA TypedLedgerInvariant == Promise!Spec => []TypedLedger
<1>1. Promise!Init => TypedLedger
  <2>1. Passes(0) = << >>
    BY PassesShape
  <2> QED
    BY <2>1, LedgerIntro DEF Promise!Init, TypedLedger
<1>2. TypedLedger /\ [Promise!Next]_ledger => TypedLedger'
  <2> SUFFICES ASSUME TypedLedger, [Promise!Next]_ledger PROVE TypedLedger'
    OBVIOUS
  <2>1. ASSUME NEW r \in Runs, Extended(r) PROVE TypedLedger'
    BY <2>1 DEF Extended, TypedLedger
  <2>2. ASSUME NEW r \in Runs, Reopened(r) PROVE TypedLedger'
    BY <2>2, ReopenedRecord, LedgerIntro DEF Reopened, TypedLedger
  <2> QED
    BY <2>1, <2>2, PromisedSteps DEF TypedLedger
<1> QED
  BY <1>1, <1>2, PTL DEF Promise!Spec

\* Every record is one its constructor accepts.
THEOREM LedgerIsWellFormed == Promise!Spec => []Promise!AllWellFormed
<1>1. TypedLedger => Promise!AllWellFormed
  BY SameRecords DEF Promise!AllWellFormed, TypedLedger
<1> QED
  BY <1>1, TypedLedgerInvariant, PTL

\* An accepted run stays accepted: nothing can be recorded after its last
\* stage, and what may be taken back is a failure.
THEOREM AcceptedForGood == Promise!Spec => Promise!AcceptanceIsFinal
<1>1. TypedLedger /\ [Promise!Next]_ledger =>
        [ \A r \in Runs : Accepted(ledger[r]) => ledger'[r] = ledger[r] ]_ledger
  <2> SUFFICES ASSUME TypedLedger, Promise!Next, NEW r \in Runs, Accepted(ledger[r])
               PROVE  ledger'[r] = ledger[r]
    OBVIOUS
  <2>1. ledger[r] \in Ledgers /\ ledger[r] = Passes(11)
    BY AcceptedRecord DEF TypedLedger
  <2>2. Len(ledger[r]) = 11
    BY <2>1, PassesShape
  <2>3. ~Extended(r)
    BY <2>1, <2>2, LongestRecord DEF Extended
  <2>4. ~Reopened(r)
    BY <2>1, FailedStageOf DEF Reopened, NoStage
  <2>5. ASSUME NEW s \in Runs \ {r}, Extended(s) \/ Reopened(s)
        PROVE  ledger'[r] = ledger[r]
    BY <2>5 DEF Extended, Reopened, TypedLedger
  <2> QED
    BY <2>3, <2>4, <2>5, PromisedSteps
<1>2. TypedLedger /\ [Promise!Next]_ledger =>
        [ \A r \in Runs : Promise!Accepted(ledger[r]) => ledger'[r] = ledger[r] ]_ledger
  BY <1>1, SameRecords
<1> QED
  BY <1>2, TypedLedgerInvariant, PTL DEF Promise!Spec, Promise!AcceptanceIsFinal

\* A stage that passed is never taken back, and a run that failed at a stage
\* other than its workload is stopped for good.
THEOREM PassesStay == Promise!Spec => Promise!PassesAreKept
<1>1. TypedLedger /\ [Promise!Next]_ledger =>
        [ \A r \in Runs :
            /\ \A s \in Stages : Passed(ledger[r], s) => Passed(ledger'[r], s)
            /\ FailedStage(ledger[r]) \notin {NoStage, "workload"}
                 => ledger'[r] = ledger[r] ]_ledger
  <2> SUFFICES ASSUME TypedLedger, Promise!Next, NEW r \in Runs
               PROVE  /\ \A s \in Stages :
                           Passed(ledger[r], s) => Passed(ledger'[r], s)
                      /\ FailedStage(ledger[r]) \notin {NoStage, "workload"}
                           => ledger'[r] = ledger[r]
    OBVIOUS
  <2>1. ledger[r] \in Ledgers
    BY DEF TypedLedger
  <2>2. CASE Extended(r)
    <3>1. PICK new \in Ledgers :
            IsStrictPrefix(ledger[r], new) /\ ledger'[r] = new
      BY <2>2 DEF Extended, TypedLedger
    <3>2. \A s \in Stages : Passed(ledger[r], s) => Passed(ledger'[r], s)
      BY <2>1, <3>1, PassedInPrefix
    <3>3. FailedStage(ledger[r]) = NoStage
      BY <2>1, <2>2, LedgerCases, FailedStageOf, BlockedOf DEF Extended
    <3> QED
      BY <3>2, <3>3
  <2>3. CASE Reopened(r)
    <3>1. /\ FailedStage(ledger[r]) = "workload"
          /\ ledger'[r] = WithoutLast(ledger[r])
      BY <2>3 DEF Reopened, TypedLedger
    <3>2. ledger[r] = FailedAt(10) /\ ledger'[r] = Passes(10)
      BY <2>1, <3>1, ReopenedRecord
    <3> QED
      BY <3>1, <3>2, PassedBeforeWorkload
  <2>4. ASSUME NEW s \in Runs \ {r}, Extended(s) \/ Reopened(s)
        PROVE  ledger'[r] = ledger[r]
    BY <2>4 DEF Extended, Reopened, TypedLedger
  <2> QED
    BY <2>2, <2>3, <2>4, PromisedSteps
<1>2. TypedLedger /\ [Promise!Next]_ledger =>
        [ \A r \in Runs :
            /\ \A s \in Promise!Stages : Promise!Passed(ledger[r], s) => Promise!Passed(ledger'[r], s)
            /\ Promise!FailedStage(ledger[r]) \notin {Promise!NoStage, "workload"}
                 => ledger'[r] = ledger[r] ]_ledger
  BY <1>1, SameRecords
<1> QED
  BY <1>2, TypedLedgerInvariant, PTL DEF Promise!Spec, Promise!PassesAreKept

\* So in the lifecycle: whatever commands do to a run that was accepted, its
\* record stays; and they take back no stage that passed.
THEOREM RecordsAreKept == Spec => Promise!AcceptanceIsFinal /\ Promise!PassesAreKept
BY PromiseKept, AcceptedForGood, PassesStay, PTL DEF KeepsPromise

-----------------------------------------------------------------------------
(* Who owns what.                                                          *)

\* At the places of a command.  A gNB that is up has a Deployment, and one
\* that is labelled has its namespace; nothing is relabelled under a gNB that
\* is up; a command that deploys, waits for N2 or brings a run back owns the
\* namespace, and one that stages owns it unless its gNB was started before.
Converged == { "core", "reopen", "reopen-write", "resume-n2", "resume-ue",
               "deploy", "annotate", "poll-n2" }

Ownership ==
  /\ gnb.running => gnb.present
  /\ gnb.running /\ gnb.label # Nobody => owner = gnb.label
  /\ pc \in {"relabel-gnb", "relabel-namespace"} => ~gnb.running
  /\ pc \in Converged => owner = cur
  /\ pc = "stage" => owner = cur \/ cur \in started

\* A started gNB is down before the power goes off, and the outcome that is
\* about to be judged is that of the present attempt.
Endings ==
  /\ pc = "power-off" /\ cur \in started => ~gnb.running
  /\ pc = "collect" \/ (pc = "cleanup" /\ good) => broker = BrokerOf(cur, attempt)
  /\ good => pc \in {"cleanup", "judge", "report", "acceptance", "stop", "power-off"}
  /\ pc = "judge" =>
       /\ outcome.attempt = attempt
       /\ outcome.accepted => broker = NoBroker \/ broker.ending

OInv == IInv /\ Ownership /\ WorkloadHasAuthority /\ Endings

LEMMA OwnershipInit == ASSUME Init PROVE OInv
<1>1. IInv
  BY InitHolds
<1>2. Ownership
  <2>1. gnb.running => gnb.present /\ gnb.label = Nobody
    <3>1. PICK on \in BOOLEAN : gnb \in {NoGnb, [NoGnb EXCEPT !.present = TRUE, !.running = on]}
      BY DEF Init, LegacyGnb
    <3>2. CASE gnb = NoGnb
      BY <3>2 DEF NoGnb
    <3>3. CASE gnb = [NoGnb EXCEPT !.present = TRUE, !.running = on]
      <4>1. gnb.label = Nobody /\ gnb.present
        BY <3>3 DEF NoGnb
      <4> QED
        BY <4>1
    <3> QED
      BY <3>1, <3>2, <3>3
  <2>2. pc = "idle"
    BY DEF Init
  <2> QED
    BY <2>1, <2>2 DEF Ownership, Converged
<1>3. WorkloadHasAuthority /\ Endings
  BY DEF Init, WorkloadHasAuthority, Endings
<1> QED
  BY <1>1, <1>2, <1>3 DEF OInv

\* An accepted run has started its gNB.
LEMMA AcceptedWasStarted ==
  ASSUME IInv, NEW r \in Runs, Accepted(ledger[r])
  PROVE  r \in started
<1>1. ledger[r] = Passes(11)
  BY AcceptedRecord DEF IInv, RecordOK
<1>2. 11 \in 0..11 /\ 5 \in 1..11 /\ 5 <= 11
  OBVIOUS
<1>3. Passed(ledger[r], "gnb-n2")
  BY <1>1, <1>2, PassedOf, StageNumbers
<1> QED
  BY <1>3 DEF IInv, EvidenceIsBound

\* The steps of a command that change the gNB or its namespace.
LEMMA OwnershipMoves ==
  ASSUME OInv,
         \/ Handoff
         \/ RelabelGnb
         \/ RelabelNamespace
         \/ Deploy
         \/ Annotate
         \/ ResumeFoundation
         \/ StopGnb
  PROVE  Ownership'
<1> USE DEF OInv, Ownership, Converged, At, Goto
<1>0. /\ gnb \in Gnbs
      /\ pc # "idle" => cur \in Runs /\ cur # Nobody
  BY NamedValues DEF IInv, ClusterOK, CommandOK
<1> USE DEF Gnbs
<1>1. CASE Handoff
  <2>1. gnb' = [gnb EXCEPT !.running = FALSE] /\ owner' = owner /\ cur' = cur
    BY <1>1 DEF Handoff
  <2>2. ~gnb'.running
    BY <1>0, <2>1
  <2>3. pc' \in {"relabel-gnb", "relabel-namespace"} \/ (pc' = "core" /\ owner = cur)
    BY <1>1 DEF Handoff
  <2> QED
    BY <2>1, <2>2, <2>3
<1>2. CASE RelabelGnb
  BY <1>0, <1>2 DEF RelabelGnb
<1>3. CASE RelabelNamespace
  BY <1>0, <1>3 DEF RelabelNamespace
<1>4. CASE Deploy
  BY <1>0, <1>4 DEF Deploy
<1>5. CASE Annotate
  BY <1>0, <1>5 DEF Annotate
<1>6. CASE ResumeFoundation
  BY <1>0, <1>6 DEF ResumeFoundation
<1>7. CASE StopGnb
  BY <1>0, <1>7 DEF StopGnb
<1> QED
  BY <1>1, <1>2, <1>3, <1>4, <1>5, <1>6, <1>7

\* The other steps of a command reach a place only with what it needs.
LEMMA OwnershipStays ==
  ASSUME OInv, UNCHANGED <<gnb, owner>>, started \subseteq started',
         \/ \E r \in Runs : Prepare(r) \/ PrepareFails(r) \/ Release(r) \/ Retire(r)
         \/ \E r \in Runs : Reconcile(r)
         \/ AcceptFoundation \/ Stage \/ BindStart \/ RestartProven
         \/ Path \/ Connect \/ Probe
         \/ ResumeN2 \/ ResumeUe \/ ReopenRecord \/ ReopenWrite
         \/ Workload \/ Keep \/ CleanUpRun \/ PowerOff
         \/ CoreBreaks \/ UeDrops \/ BrokerEnds \/ UNCHANGED vars
  PROVE  Ownership'
<1> USE DEF OInv, Ownership, Converged, At, Goto, End
<1>1. ASSUME NEW r \in Runs,
             Prepare(r) \/ PrepareFails(r) \/ Release(r) \/ Retire(r)
      PROVE  Ownership'
  BY <1>1 DEF Prepare, PrepareFails, Release, Retire
<1>2. ASSUME NEW r \in Runs, Reconcile(r) PROVE Ownership'
  BY <1>2, AcceptedWasStarted DEF Reconcile
<1>3. CASE AcceptFoundation \/ BindStart \/ RestartProven
  BY <1>3 DEF AcceptFoundation, BindStart, RestartProven
<1>4. CASE Stage
  BY <1>4 DEF Stage
<1>5. CASE Path \/ Connect \/ Probe
  BY <1>5 DEF Path, Connect, Probe
<1>6. CASE ResumeN2 \/ ResumeUe
  BY <1>6 DEF ResumeN2, ResumeUe, N2Up
<1>7. CASE ReopenRecord \/ ReopenWrite
  BY <1>7 DEF ReopenRecord, ReopenWrite
<1>8. CASE Workload
  BY <1>8 DEF Workload, SkipWorkload, BeginAttempt, StartBroker, FailEarly,
              Collect, Cleanup, Judge, Report
<1>9. CASE Keep \/ CleanUpRun \/ PowerOff
  BY <1>9 DEF Keep, CleanUpRun, PowerOff
<1>10. CASE CoreBreaks \/ UeDrops \/ BrokerEnds \/ UNCHANGED vars
  BY <1>10 DEF CoreBreaks, UeDrops, BrokerEnds, vars
<1> QED
  BY <1>1, <1>2, <1>3, <1>4, <1>5, <1>6, <1>7, <1>8, <1>9, <1>10

\* Joining the core shows in a log only.
LEMMA JoinsOnlyHears ==
  ASSUME IInv, Joins
  PROVE  /\ gnb'.present = gnb.present /\ gnb'.label = gnb.label
         /\ gnb'.annotation = gnb.annotation /\ gnb'.running = gnb.running
         /\ UNCHANGED <<owner, claim, started, pc, cur, attempt, good, outcome, broker>>
<1>1. gnb \in Gnbs
  BY DEF IInv, ClusterOK
<1> QED
  BY <1>1 DEF Joins, Gnbs, record, memory

\* The steps that leave the gNB and its namespace alone; no step takes a bound
\* start back.
LEMMA OwnershipUntouched ==
  ASSUME OInv, [Next]_vars
  PROVE  /\ started \subseteq started'
         /\ \/ UNCHANGED <<gnb, owner>>
            \/ Handoff \/ RelabelGnb \/ RelabelNamespace \/ Deploy \/ Annotate
            \/ ResumeFoundation \/ StopGnb \/ Abort \/ Joins \/ ClusterReplaced
<1> USE DEF At, record, cluster
<1>1. ASSUME NEW r \in Runs, Command(r) PROVE UNCHANGED <<gnb, owner, started>>
  BY <1>1 DEF Command, Prepare, PrepareFails, Reconcile, Release, Retire
<1>2. CASE Network
  <2>1. started \subseteq started'
    BY <1>2 DEF Network, Handoff, RelabelGnb, RelabelNamespace, AcceptFoundation,
                Stage, Deploy, Annotate, BindStart, RestartProven, Path, Connect, Probe
  <2>2. CASE AcceptFoundation \/ Stage \/ BindStart \/ RestartProven
    BY <2>1, <2>2 DEF AcceptFoundation, Stage, BindStart, RestartProven
  <2>3. CASE Path \/ Connect \/ Probe
    BY <2>1, <2>3 DEF Path, Connect, Probe
  <2> QED
    BY <1>2, <2>1, <2>2, <2>3 DEF Network
<1>3. CASE Resume
  BY <1>3 DEF Resume, ResumeFoundation, ResumeN2, ResumeUe, ReopenRecord, ReopenWrite
<1>4. CASE Workload
  BY <1>4 DEF Workload, SkipWorkload, BeginAttempt, StartBroker, FailEarly,
              Collect, Cleanup, Judge, Report
<1>5. CASE Ending
  BY <1>5 DEF Ending, Keep, CleanUpRun, StopGnb, PowerOff
<1>6. CASE Abort \/ CoreBreaks \/ UeDrops \/ Joins \/ BrokerEnds \/ ClusterReplaced
  BY <1>6 DEF Abort, CoreBreaks, UeDrops, Joins, BrokerEnds, ClusterReplaced
<1>7. CASE UNCHANGED vars
  BY <1>7 DEF vars
<1> QED
  BY <1>1, <1>2, <1>3, <1>4, <1>5, <1>6, <1>7 DEF Next

LEMMA OwnershipStep == ASSUME OInv, [Next]_vars PROVE Ownership'
<1>1. CASE \/ Handoff \/ RelabelGnb \/ RelabelNamespace \/ Deploy \/ Annotate
           \/ ResumeFoundation \/ StopGnb
  BY <1>1, OwnershipMoves
<1>2. CASE Abort
  <2>1. gnb' = gnb /\ pc' = "idle"
    BY <1>2 DEF Abort, HalfDone, End, cluster
  <2>2. owner' = owner \/ (owner \in {Nobody, cur} /\ owner' = cur)
    BY <1>2 DEF Abort, HalfDone, cluster
  <2> QED
    BY <2>1, <2>2 DEF OInv, Ownership, Converged
<1>3. CASE ClusterReplaced
  BY <1>3 DEF ClusterReplaced, Ownership, Converged, NoGnb, At
<1>4. CASE /\ UNCHANGED <<gnb, owner>>
           /\ ~(\/ Handoff \/ RelabelGnb \/ RelabelNamespace \/ Deploy \/ Annotate
                \/ ResumeFoundation \/ StopGnb \/ Abort \/ Joins \/ ClusterReplaced)
  BY <1>4, OwnershipUntouched, OwnershipStays
     DEF Next, Command, Network, Resume, Ending
<1>5. CASE Joins
  BY <1>5, JoinsOnlyHears DEF OInv, Ownership, Converged
<1> QED
  BY <1>1, <1>2, <1>3, <1>4, <1>5, OwnershipUntouched

-----------------------------------------------------------------------------
(* What a workload runs on, and how a run ends.                            *)

\* The places of an attempt.
Attempting == { "broker", "collect", "cleanup" }

\* An attempt begins upon a fresh proof, and no other command runs meanwhile.
LEMMA AuthorityStep ==
  ASSUME OInv, [Next]_vars
  PROVE  WorkloadHasAuthority'
<1> USE DEF At, Goto, End, record, cluster
<1>1. SUFFICES ASSUME pc' \in Attempting
               PROVE  /\ claim' = cur' /\ owner' = cur' /\ gnb'.running
                      /\ gnb'.present /\ gnb'.label = cur' /\ gnb'.annotation = cur'
  BY DEF WorkloadHasAuthority, Attempting, GnbBoundTo
<1>2. CASE BeginAttempt
  BY <1>2 DEF BeginAttempt, Authority, N2Up, GnbBoundTo
<1>3. CASE /\ pc \in Attempting
           /\ UNCHANGED <<claim, owner, gnb, cur>>
  BY <1>3 DEF OInv, WorkloadHasAuthority, Attempting, GnbBoundTo
<1>4. ASSUME NEW r \in Runs, Command(r) PROVE FALSE
  BY <1>1, <1>4 DEF Command, Prepare, PrepareFails, Reconcile, Release, Retire, Attempting
<1>5. CASE Network
  <2>1. pc' \notin Attempting
    BY <1>5 DEF Network, Handoff, RelabelGnb, RelabelNamespace, AcceptFoundation, Stage,
                Deploy, Annotate, BindStart, RestartProven, Path, Connect, Probe, Attempting
  <2> QED
    BY <1>1, <2>1
<1>6. CASE Resume
  BY <1>1, <1>6 DEF Resume, ResumeFoundation, ResumeN2, ResumeUe, ReopenRecord,
                    ReopenWrite, Attempting
<1>7. CASE Workload /\ ~BeginAttempt
  BY <1>1, <1>3, <1>7 DEF Workload, SkipWorkload, StartBroker, FailEarly, Collect,
                          Cleanup, Judge, Report, Attempting
<1>8. CASE Ending \/ Abort
  BY <1>1, <1>8 DEF Ending, Keep, CleanUpRun, StopGnb, PowerOff, Abort, Attempting
<1>9. CASE CoreBreaks \/ UeDrops \/ Joins \/ BrokerEnds \/ UNCHANGED vars
  <2>1. CASE Joins
    BY <1>1, <2>1, JoinsOnlyHears DEF OInv, WorkloadHasAuthority, Attempting, GnbBoundTo
  <2> QED
    BY <1>1, <1>3, <1>9, <2>1 DEF CoreBreaks, UeDrops, BrokerEnds, vars
<1>10. CASE ClusterReplaced
  BY <1>1, <1>10 DEF ClusterReplaced, Attempting
<1> QED
  BY <1>2, <1>4, <1>5, <1>6, <1>7, <1>8, <1>9, <1>10 DEF Next

\* A release goes straight to the power only for a run that was never started.
LEMMA PowerOffStep ==
  ASSUME OInv, [Next]_vars
  PROVE  (pc = "power-off" /\ cur \in started => ~gnb.running)'
<1> SUFFICES ASSUME pc' = "power-off", cur' \in started' PROVE ~gnb'.running
  OBVIOUS
<1> USE DEF At, Goto, End, record, cluster, memory, OInv, Endings
<1>1. CASE StopGnb
  BY <1>1 DEF StopGnb, IInv, ClusterOK, Gnbs
<1>2. ASSUME NEW r \in Runs, Command(r) PROVE ~gnb'.running
  BY <1>2 DEF Command, Prepare, PrepareFails, Reconcile, Release, Retire
<1>3. CASE Network \/ Resume
  <2>1. pc' # "power-off"
    BY <1>3 DEF Network, Handoff, RelabelGnb, RelabelNamespace, AcceptFoundation, Stage,
                Deploy, Annotate, BindStart, RestartProven, Path, Connect, Probe, Resume,
                ResumeFoundation, ResumeN2, ResumeUe, ReopenRecord, ReopenWrite
  <2> QED
    BY <2>1
<1>4. CASE Workload
  BY <1>4 DEF Workload, SkipWorkload, BeginAttempt, StartBroker, FailEarly, Collect,
              Cleanup, Judge, Report
<1>5. CASE Keep \/ CleanUpRun \/ PowerOff \/ Abort
  BY <1>5 DEF Keep, CleanUpRun, PowerOff, Abort
<1>6. CASE Joins
  BY <1>6, JoinsOnlyHears
<1>7. CASE CoreBreaks \/ UeDrops \/ BrokerEnds \/ UNCHANGED vars
  BY <1>7 DEF CoreBreaks, UeDrops, BrokerEnds, vars
<1>8. CASE ClusterReplaced
  BY <1>8 DEF ClusterReplaced
<1> QED
  BY <1>1, <1>2, <1>3, <1>4, <1>5, <1>6, <1>7, <1>8 DEF Next, Ending

\* The good end of a collection is that of the attempt whose broker is up, and
\* is known to no later command.
LEMMA GoodStep ==
  ASSUME OInv, [Next]_vars
  PROVE  /\ (pc = "collect" \/ (pc = "cleanup" /\ good) => broker = BrokerOf(cur, attempt))'
         /\ (good => pc \in {"cleanup", "judge", "report", "acceptance", "stop",
                             "power-off"})'
<1> USE DEF At, Goto, End, record, cluster, memory, OInv, Endings
<1>1. ASSUME NEW r \in Runs, Command(r)
      PROVE  pc' \notin {"collect", "cleanup"} /\ ~good'
  BY <1>1 DEF Command, Prepare, PrepareFails, Reconcile, Release, Retire
<1>2. CASE Network
  <2>1. CASE Handoff \/ RelabelGnb \/ RelabelNamespace \/ AcceptFoundation \/ Stage
             \/ Deploy \/ Annotate
    <3>1. pc' \notin {"collect", "cleanup"}
      BY <2>1 DEF Handoff, RelabelGnb, RelabelNamespace, AcceptFoundation, Stage, Deploy,
                  Annotate
    <3>2. ~good'
      BY <2>1 DEF Handoff, RelabelGnb, RelabelNamespace, AcceptFoundation, Stage, Deploy,
                  Annotate
    <3> QED
      BY <3>1, <3>2
  <2>2. CASE BindStart \/ RestartProven \/ Path \/ Connect \/ Probe
    <3>1. pc' \notin {"collect", "cleanup"}
      BY <2>2 DEF BindStart, RestartProven, Path, Connect, Probe
    <3>2. ~good'
      BY <2>2 DEF BindStart, RestartProven, Path, Connect, Probe
    <3> QED
      BY <3>1, <3>2
  <2> QED
    BY <1>2, <2>1, <2>2 DEF Network
<1>3. CASE Resume
  <2>1. pc' \notin {"collect", "cleanup"} /\ ~good'
    BY <1>3 DEF Resume, ResumeFoundation, ResumeN2, ResumeUe, ReopenRecord, ReopenWrite
  <2> QED
    BY <2>1
<1>4. CASE SkipWorkload \/ BeginAttempt \/ FailEarly \/ Judge \/ Report
  <2>1. pc' # "collect" /\ (pc' = "cleanup" => ~good')
    BY <1>4 DEF SkipWorkload, BeginAttempt, FailEarly, Judge, Report
  <2>2. good' => pc' \in {"report", "acceptance"}
    BY <1>4 DEF SkipWorkload, BeginAttempt, FailEarly, Judge, Report
  <2> QED
    BY <2>1, <2>2
<1>5. CASE StartBroker
  BY <1>5 DEF StartBroker
<1>6. CASE Collect
  BY <1>6 DEF Collect
<1>7. CASE Cleanup
  <2>1. pc' = "judge"
    BY <1>7 DEF Cleanup
  <2> QED
    BY <2>1
<1>8. CASE Keep \/ PowerOff \/ Abort
  BY <1>8 DEF Keep, PowerOff, Abort
<1>9. CASE CleanUpRun \/ StopGnb
  BY <1>9 DEF CleanUpRun, StopGnb
<1>10. CASE BrokerEnds
  BY <1>10 DEF BrokerEnds, BrokerOf
<1>11. CASE CoreBreaks \/ UeDrops \/ UNCHANGED vars
  BY <1>11 DEF CoreBreaks, UeDrops, vars
<1>12. CASE Joins
  BY <1>12, JoinsOnlyHears
<1>13. CASE ClusterReplaced
  BY <1>13 DEF ClusterReplaced
<1> QED
  BY <1>1, <1>2, <1>3, <1>4, <1>5, <1>6, <1>7, <1>8, <1>9, <1>10, <1>11, <1>12, <1>13
     DEF Next, Workload, Ending

\* An attempt that is judged a success had its broker deleted.
LEMMA JudgedStep ==
  ASSUME OInv, [Next]_vars
  PROVE  (pc = "judge" => /\ outcome.attempt = attempt
                          /\ outcome.accepted => broker = NoBroker \/ broker.ending)'
<1> SUFFICES ASSUME pc' = "judge"
             PROVE  /\ outcome'.attempt = attempt'
                    /\ outcome'.accepted => broker' = NoBroker \/ broker'.ending
  OBVIOUS
<1> USE DEF At, Goto, End, record, cluster, memory, OInv, Endings
<1>1. CASE Cleanup
  <2>1. PICK deleted \in BOOLEAN, proven \in BOOLEAN :
          /\ IF deleted THEN broker' \in Deleted ELSE broker' = broker
          /\ outcome' = [attempt |-> attempt,
                         accepted |-> good /\ (deleted /\ proven /\ N2Up(cur) /\ pdu),
                         clean |-> (deleted /\ proven /\ N2Up(cur) /\ pdu)]
    BY <1>1 DEF Cleanup
  <2>2. attempt' = attempt /\ pc = "cleanup"
    BY <1>1 DEF Cleanup
  <2>3. outcome'.attempt = attempt'
    BY <2>1, <2>2
  <2>4. outcome'.accepted => good /\ deleted
    BY <2>1
  <2>5. ASSUME good, deleted PROVE broker' = NoBroker \/ broker'.ending
    <3>1. broker = BrokerOf(cur, attempt) /\ broker \in Brokers
      BY <2>2, <2>5 DEF IInv, ClusterOK
    <3>2. broker' \in {NoBroker, [broker EXCEPT !.ending = TRUE]}
      BY <2>1, <2>5, <3>1 DEF Deleted
    <3> QED
      BY <3>1, <3>2 DEF Brokers
  <2> QED
    BY <2>3, <2>4, <2>5
<1>2. ASSUME NEW r \in Runs, Command(r) PROVE FALSE
  BY <1>2 DEF Command, Prepare, PrepareFails, Reconcile, Release, Retire
<1>3. CASE Network \/ Resume
  <2>1. pc' # "judge"
    BY <1>3 DEF Network, Handoff, RelabelGnb, RelabelNamespace, AcceptFoundation, Stage,
                Deploy, Annotate, BindStart, RestartProven, Path, Connect, Probe, Resume,
                ResumeFoundation, ResumeN2, ResumeUe, ReopenRecord, ReopenWrite
  <2> QED
    BY <2>1
<1>4. CASE Workload /\ ~Cleanup
  BY <1>4 DEF Workload, SkipWorkload, BeginAttempt, StartBroker, FailEarly, Collect,
              Judge, Report
<1>5. CASE Ending \/ Abort
  BY <1>5 DEF Ending, Keep, CleanUpRun, StopGnb, PowerOff, Abort
<1>6. CASE Joins
  BY <1>6, JoinsOnlyHears
<1>7. CASE CoreBreaks \/ UeDrops \/ UNCHANGED vars
  BY <1>7 DEF CoreBreaks, UeDrops, vars
<1>8. CASE BrokerEnds
  BY <1>8 DEF BrokerEnds
<1>9. CASE ClusterReplaced
  BY <1>9 DEF ClusterReplaced
<1> QED
  BY <1>1, <1>2, <1>3, <1>4, <1>5, <1>6, <1>7, <1>8, <1>9 DEF Next

LEMMA EndingStep == ASSUME OInv, [Next]_vars PROVE Endings'
BY PowerOffStep, GoodStep, JudgedStep DEF Endings

\* Ownership holds in every state, for any number of runs and attempts.
THEOREM OwnershipInvariance == Spec => []OInv
<1>1. Init => OInv
  BY OwnershipInit
<1>2. OInv /\ [Next]_vars => OInv'
  BY NextHolds, StutterHolds, OwnershipStep, AuthorityStep, EndingStep DEF OInv
<1> QED
  BY <1>1, <1>2, PTL DEF Spec

\* While an attempt runs, its run holds the claim and everything it runs on
\* carries its name (the re-proof before the workload, workload_boundary.py).
THEOREM AttemptHasAuthority == Spec => []WorkloadHasAuthority
<1>1. OInv => WorkloadHasAuthority
  BY DEF OInv
<1> QED
  BY <1>1, OwnershipInvariance, PTL

\* A gNB that is up is relabelled by nobody and stopped only by its own run
\* (_handoff_namespace, the ownership check of the playbook).
THEOREM NobodyTakesOver == Spec => NoTakeover
<1> DEFINE A == gnb.running /\ gnb.label # Nobody =>
                  \/ gnb' = NoGnb
                  \/ /\ gnb'.label = gnb.label /\ owner' \in {owner, gnb.label}
                     /\ gnb'.running \/ cur = gnb.label
<1>1. ASSUME OInv, [Next]_vars PROVE A
  <2> SUFFICES ASSUME gnb.running, gnb.label # Nobody
               PROVE  \/ gnb' = NoGnb
                      \/ /\ gnb'.label = gnb.label /\ owner' \in {owner, gnb.label}
                         /\ gnb'.running \/ cur = gnb.label
    OBVIOUS
  <2> USE DEF At
  <2>1. /\ gnb.present /\ owner = gnb.label
        /\ pc \notin {"relabel-gnb", "relabel-namespace"}
    BY <1>1 DEF OInv, Ownership
  <2>2. gnb \in Gnbs
    BY <1>1 DEF OInv, IInv, ClusterOK
  <2>3. CASE UNCHANGED <<gnb, owner>>
    BY <2>3
  <2>4. CASE Handoff
    BY <2>4 DEF Handoff, Legacy
  <2>5. CASE RelabelGnb \/ RelabelNamespace
    BY <2>1, <2>5 DEF RelabelGnb, RelabelNamespace
  <2>6. CASE Deploy
    <3>1. gnb.label = cur
      BY <2>1, <2>6 DEF Deploy, DeployAllowed, GnbBoundTo
    <3> QED
      BY <2>2, <2>6, <3>1 DEF Deploy
  <2>7. CASE Annotate
    BY <2>2, <2>7 DEF Annotate
  <2>8. CASE ResumeFoundation
    BY <2>1, <2>8 DEF ResumeFoundation
  <2>9. CASE StopGnb
    BY <2>2, <2>9 DEF StopGnb, GnbBoundTo
  <2>10. CASE Abort
    <3>1. gnb' = gnb /\ (owner' = owner \/ owner \in {Nobody, cur})
      BY <2>10 DEF Abort, HalfDone, cluster
    <3>2. owner' \in {owner, cur}
      BY <2>10 DEF Abort, HalfDone, cluster
    <3> QED
      BY <2>1, <3>1, <3>2
  <2>11. CASE ClusterReplaced
    BY <2>11 DEF ClusterReplaced
  <2>12. CASE Joins
    BY <1>1, <2>1, <2>12, JoinsOnlyHears DEF OInv
  <2> QED
    BY <1>1, <2>3, <2>4, <2>5, <2>6, <2>7, <2>8, <2>9, <2>10, <2>11, <2>12,
       OwnershipUntouched
<1>2. Spec => [][A]_vars
  BY <1>1, OwnershipInvariance, PTL DEF Spec
<1> QED
  BY <1>2 DEF NoTakeover

\* A run whose gNB start was bound keeps its claim until that gNB is stopped,
\* unless the lease is gone (cli._release, release_physical_resources).
THEOREM StartedIsStopped == Spec => StartedGnbIsStopped
<1> DEFINE A == \A r \in started :
                  claim = r /\ claim' # r /\ pc = "power-off" => ~gnb.running
<1>1. ASSUME OInv, [Next]_vars, NEW r \in started,
             claim = r, claim' # r, pc = "power-off"
      PROVE  ~gnb.running
  <2>1. r \in Runs /\ cur \in Runs
    BY <1>1 DEF OInv, IInv, RecordOK, CommandOK
  <2>2. claim = cur
    <3> USE <1>1 DEF At, record, cluster
    <3>1. CASE PowerOff
      BY <3>1 DEF PowerOff
    <3>2. \A q \in Runs : ~Command(q)
      BY DEF Command, Prepare, PrepareFails, Reconcile, Release, Retire
    <3>3. ~Network
      BY DEF Network, Handoff, RelabelGnb, RelabelNamespace, AcceptFoundation, Stage,
             Deploy, Annotate, BindStart, RestartProven, Path, Connect, Probe
    <3>4. ~Resume
      BY DEF Resume, ResumeFoundation, ResumeN2, ResumeUe, ReopenRecord, ReopenWrite
    <3>5. ~Workload
      BY DEF Workload, SkipWorkload, BeginAttempt, StartBroker, FailEarly, Collect,
             Cleanup, Judge, Report
    <3>6. ~Keep /\ ~CleanUpRun /\ ~StopGnb /\ ~ClusterReplaced
      BY DEF Keep, CleanUpRun, StopGnb, ClusterReplaced
    <3>7. ~Abort /\ ~CoreBreaks /\ ~UeDrops /\ ~Joins /\ ~BrokerEnds /\ ~UNCHANGED vars
      BY DEF Abort, CoreBreaks, UeDrops, Joins, BrokerEnds, vars
    <3> QED
      BY <3>1, <3>2, <3>3, <3>4, <3>5, <3>6, <3>7 DEF Next, Ending
  <2> QED
    BY <1>1, <2>2 DEF OInv, Endings
<1>2. OInv /\ [Next]_vars => A
  BY <1>1
<1>3. Spec => [][A]_vars
  BY <1>2, OwnershipInvariance, PTL DEF Spec
<1> QED
  BY <1>3 DEF StartedGnbIsStopped

-----------------------------------------------------------------------------
(* Who accepts a workload.                                                 *)

\* Only a judged workload makes a record accepted.
LEMMA RecordEarlier ==
  ASSUME NEW ev \in Ledgers, NEW s, s # "workload", NEW o
  PROVE  ~Accepted(Record(ev, s, o))
<1>1. ev \in Seq(Item)
  BY LedgerLength
<1>2. Last(Record(ev, s, o)).stage = s
  BY <1>1 DEF Record, Last
<1> QED
  BY <1>2 DEF Accepted

LEMMA PassEarlier ==
  ASSUME NEW ev \in Ledgers, NEW k \in 6..10, ~Accepted(ev)
  PROVE  /\ PassIfNext(ev, StageOrder[k]) \in Ledgers
         /\ ~Accepted(PassIfNext(ev, StageOrder[k]))
<1>1. k \in 6..11 /\ k \in 1..11 /\ 11 \in 1..11 /\ k # 11
  OBVIOUS
<1>2. StageOrder[k] # "workload"
  BY <1>1, StageOrderIsInjective
<1> QED
  BY <1>1, <1>2, PassLater, RecordEarlier DEF PassIfNext

LEMMA OnlyJudgeAccepts ==
  ASSUME IInv, Writers, ~Judge, ~Accepted(ledger[cur])
  PROVE  ~Accepted(ledger'[cur])
<1> DEFINE old == ledger[cur]
<1> USE DEF At
<1>1. cur \in Runs
  BY DEF Writers, AcceptFoundation, BindStart, Path, Connect, Probe, ReopenWrite,
         IInv, CommandOK
<1>2. old \in Ledgers /\ \A new : Write(new) => ledger'[cur] = new
  BY <1>1 DEF IInv, RecordOK, Write
<1>3. CASE AcceptFoundation
  <2>1. Write(Passes(4)) /\ 4 \in 0..11
    BY <1>3 DEF AcceptFoundation
  <2>2. Len(ledger'[cur]) = 4
    BY <1>2, <2>1, PassesShape
  <2> QED
    BY <2>2, StageOrderIsInjective DEF Accepted
<1>4. CASE BindStart
  BY <1>2, <1>4, RecordEarlier DEF BindStart, Evidence
<1>5. CASE Path
  <2>1. 6 \in 6..10
    OBVIOUS
  <2> QED
    BY <1>2, <1>5, <2>1, PassEarlier, StageNumbers DEF Path, Evidence
<1>6. CASE Connect
  <2> DEFINE a == PassIfNext(old, StageOrder[7])
             b == PassIfNext(a, StageOrder[8])
             c == PassIfNext(b, StageOrder[9])
  <2>1. 7 \in 6..10 /\ 8 \in 6..10 /\ 9 \in 6..10
    OBVIOUS
  <2>2. a \in Ledgers /\ ~Accepted(a)
    BY <1>2, <2>1, PassEarlier
  <2>3. b \in Ledgers /\ ~Accepted(b)
    BY <2>1, <2>2, PassEarlier
  <2>4. ~Accepted(c)
    BY <2>1, <2>3, PassEarlier
  <2>5. Write(c)
    BY <1>6, StageNumbers DEF Connect, Evidence
  <2> QED
    BY <1>2, <2>4, <2>5
<1>7. CASE Probe
  BY <1>2, <1>7, RecordEarlier DEF Probe, Evidence
<1>8. CASE ReopenWrite
  <2>1. ledger'[cur] = WithoutLast(old) /\ FailedStage(old) = "workload"
    BY <1>2, <1>8 DEF ReopenWrite, Evidence, IInv, PlaceOK
  <2>2. ledger'[cur] = Passes(10) /\ 10 \in 0..11
    BY <1>2, <2>1, ReopenedRecord
  <2>3. Len(ledger'[cur]) = 10
    BY <2>2, PassesShape
  <2> QED
    BY <2>3, StageOrderIsInjective DEF Accepted
<1> QED
  BY <1>3, <1>4, <1>5, <1>6, <1>7, <1>8 DEF Writers

\* A workload is accepted only when no Deployment keeps the central broker any
\* more, and the outcome judged is that of the attempt the record names
\* (execute_physical_iot_workload, its cleanup proof).
THEOREM AcceptedWithCleanup == Spec => AcceptedIsClean
<1> DEFINE A == \A r \in Runs : ~Accepted(ledger[r]) /\ Accepted(ledger'[r]) =>
                  /\ broker = NoBroker \/ broker.ending
                  /\ outcome.clean /\ outcome.attempt = blame'[r]
<1>1. ASSUME OInv, [Next]_vars, NEW r \in Runs,
             ~Accepted(ledger[r]), Accepted(ledger'[r])
      PROVE  /\ broker = NoBroker \/ broker.ending
             /\ outcome.clean /\ outcome.attempt = blame'[r]
  <2>1. IInv /\ ~UNCHANGED ledger
    BY <1>1 DEF OInv
  <2>2. Writers /\ cur \in Runs /\ ledger' = [ledger EXCEPT ![cur] = ledger'[cur]]
    BY <1>1, <2>1, WhoWrites
  <2>3. r = cur
    BY <1>1, <2>1, <2>2 DEF IInv, RecordOK
  <2>4. Judge
    BY <1>1, <2>1, <2>2, <2>3, OnlyJudgeAccepts
  <2>5. /\ ledger[cur] \in Ledgers /\ blame'[cur] = attempt
        /\ ledger'[cur] = Record(ledger[cur], "workload",
             IF outcome.accepted /\ outcome.clean THEN "passed" ELSE "failed")
    BY <2>1, <2>2, <2>4 DEF Judge, Write, Evidence, IInv, RecordOK
  <2>6. outcome.accepted /\ outcome.clean
    <3> SUFFICES ASSUME ~(outcome.accepted /\ outcome.clean) PROVE FALSE
      OBVIOUS
    <3>1. ledger'[cur] = Record(ledger[cur], "workload", "failed")
      BY <2>5
    <3>2. ledger[cur] \in Seq(Item)
      BY <2>5, LedgerLength
    <3>3. Last(ledger'[cur]).outcome = "failed"
      BY <3>1, <3>2 DEF Record, Last
    <3> QED
      BY <1>1, <2>3, <3>3 DEF Accepted
  <2> QED
    BY <1>1, <2>3, <2>4, <2>5, <2>6 DEF OInv, Endings, Judge, At
<1>2. OInv /\ [Next]_vars => A
  BY <1>1
<1>3. Spec => [][A]_vars
  BY <1>2, OwnershipInvariance, PTL DEF Spec
<1> QED
  BY <1>3 DEF AcceptedIsClean

-----------------------------------------------------------------------------
(* The claim, as a register.                                               *)

\* Whoever holds the claim has a run directory.
ClaimHasDirectory == claim # Nobody => claim \in dir

\* The claim and the run directories change together, when a run is prepared,
\* or the claim alone goes, when it is released or retired.
LEMMA WhoClaims ==
  ASSUME IInv, [Next]_vars
  PROVE  \/ UNCHANGED <<claim, dir>>
         \/ \E r \in Runs \ dir : claim = Nobody /\ claim' = r /\ dir' = dir \cup {r}
         \/ dir' = dir /\ claim' = Nobody
<1> USE DEF At
<1>1. ASSUME NEW r \in Runs, Command(r)
      PROVE  \/ UNCHANGED <<claim, dir>>
             \/ r \notin dir /\ claim = Nobody /\ claim' = r /\ dir' = dir \cup {r}
             \/ dir' = dir /\ claim' = Nobody
  BY <1>1 DEF Command, Prepare, PrepareFails, Reconcile, Release, Retire
<1>2. CASE Network
  BY <1>2 DEF Network, Handoff, RelabelGnb, RelabelNamespace, AcceptFoundation, Stage,
              Deploy, Annotate, BindStart, RestartProven, Path, Connect, Probe
<1>3. CASE Resume
  BY <1>3 DEF Resume, ResumeFoundation, ResumeN2, ResumeUe, ReopenRecord, ReopenWrite
<1>4. CASE Workload
  BY <1>4 DEF Workload, SkipWorkload, BeginAttempt, StartBroker, FailEarly, Collect,
              Cleanup, Judge, Report
<1>5. CASE Ending \/ Abort \/ CoreBreaks \/ UeDrops \/ Joins \/ BrokerEnds \/ ClusterReplaced \/ UNCHANGED vars
  BY <1>5 DEF Ending, Keep, CleanUpRun, StopGnb, PowerOff, Abort, CoreBreaks, UeDrops, Joins, BrokerEnds,
              ClusterReplaced, vars
<1> QED
  BY <1>1, <1>2, <1>3, <1>4, <1>5 DEF Next

LEMMA RegisterStep ==
  ASSUME IInv, ClaimHasDirectory, [Next]_vars
  PROVE  ClaimHasDirectory' /\ [Register!Next]_<<Holders, Spent>>
<1> USE NamedValues DEF ClaimHasDirectory
<1>1. dir \subseteq Runs /\ claim \in Somebody
  BY DEF IInv, RecordOK, CommandOK
<1>2. CASE UNCHANGED <<claim, dir>>
  BY <1>2 DEF Holders, Spent
<1>3. ASSUME NEW r \in Runs \ dir, claim = Nobody, claim' = r, dir' = dir \cup {r}
      PROVE  ClaimHasDirectory' /\ Register!Take(r)
  <2>1. r \in Runs /\ r # Nobody /\ r \in dir'
    BY <1>3
  <2>2. Holders = {} /\ Holders' = {r}
    BY <1>3, <2>1 DEF Holders
  <2>3. Spent = dir /\ Spent' = dir
    BY <1>1, <1>3 DEF Spent
  <2> QED
    BY <1>3, <2>1, <2>2, <2>3 DEF Register!Take
<1>4. ASSUME dir' = dir, claim' = Nobody, claim # Nobody
      PROVE  ClaimHasDirectory' /\ claim \in Runs /\ Register!Leave(claim)
  BY <1>1, <1>4 DEF Register!Leave, Holders, Spent
<1> QED
  BY <1>2, <1>3, <1>4, WhoClaims DEF Register!Next

\* The claim of the lifecycle keeps the promise of ClaimRegister: one run has
\* the testbed at a time, and each run has it once (_write_claim).
THEOREM RegisterKept == Spec => KeepsRegister
<1>1. Init => ClaimHasDirectory /\ Register!Init
  BY NamedValues DEF Init, ClaimHasDirectory, Register!Init, Holders, Spent
<1>2. IInv /\ ClaimHasDirectory /\ [Next]_vars =>
        ClaimHasDirectory' /\ [Register!Next]_<<Holders, Spent>>
  BY RegisterStep
<1> QED
  BY <1>1, <1>2, Invariance, PTL DEF Spec, KeepsRegister, Register!Spec

-----------------------------------------------------------------------------
(* What no command of a run gets past.                                     *)

\* A gNB is about to be annotated when its run has just deployed it.
LEMMA WhoAnnotates ==
  ASSUME IInv, [Next]_vars, pc' = "annotate"
  PROVE  Deploy \/ (pc = "annotate" /\ cur' = cur /\ ~Annotate)
<1> USE DEF At, Goto, End
<1>1. ASSUME NEW r \in Runs, Command(r) PROVE pc = "annotate" /\ cur' = cur /\ ~Annotate
  BY <1>1 DEF Command, Prepare, PrepareFails, Reconcile, Release, Retire
<1>2. CASE Network
  BY <1>2 DEF Network, Handoff, RelabelGnb, RelabelNamespace, AcceptFoundation, Stage,
              Deploy, Annotate, BindStart, RestartProven, Path, Connect, Probe
<1>3. CASE Resume
  BY <1>3 DEF Resume, ResumeFoundation, ResumeN2, ResumeUe, ReopenRecord, ReopenWrite
<1>4. CASE Workload
  BY <1>4 DEF Workload, SkipWorkload, BeginAttempt, StartBroker, FailEarly, Collect,
              Cleanup, Judge, Report
<1>5. CASE Ending \/ Abort
  BY <1>5 DEF Ending, Keep, CleanUpRun, StopGnb, PowerOff, Abort
<1>6. CASE CoreBreaks \/ UeDrops \/ Joins \/ BrokerEnds \/ ClusterReplaced \/ UNCHANGED vars
  BY <1>6 DEF CoreBreaks, UeDrops, Joins, BrokerEnds, ClusterReplaced, Annotate, vars
<1> QED
  BY <1>1, <1>2, <1>3, <1>4, <1>5, <1>6 DEF Next

\* A start is bound by one step only.
LEMMA WhoStarts ==
  ASSUME IInv, [Next]_vars
  PROVE  started' = started \/ BindStart
<1> USE DEF At, record
<1>1. ASSUME NEW r \in Runs, Command(r) PROVE started' = started
  BY <1>1 DEF Command, Prepare, PrepareFails, Reconcile, Release, Retire
<1>2. CASE Network
  BY <1>2 DEF Network, Handoff, RelabelGnb, RelabelNamespace, AcceptFoundation, Stage,
              Deploy, Annotate, RestartProven, Path, Connect, Probe
<1>3. CASE Resume
  BY <1>3 DEF Resume, ResumeFoundation, ResumeN2, ResumeUe, ReopenRecord, ReopenWrite
<1>4. CASE Workload
  BY <1>4 DEF Workload, SkipWorkload, BeginAttempt, StartBroker, FailEarly, Collect,
              Cleanup, Judge, Report
<1>5. CASE Ending \/ Abort \/ CoreBreaks \/ UeDrops \/ Joins \/ BrokerEnds \/ ClusterReplaced \/ UNCHANGED vars
  BY <1>5 DEF Ending, Keep, CleanUpRun, StopGnb, PowerOff, Abort, CoreBreaks, UeDrops, Joins, BrokerEnds,
              ClusterReplaced, vars
<1> QED
  BY <1>1, <1>2, <1>3, <1>4, <1>5 DEF Next

\* A Deployment that carries the annotation of another run, or none, shuts a run
\* out until the cluster is imaged again: the handoff relabels it and leaves the
\* annotation, and the playbook asks for both (_handoff_namespace).
THEOREM ShutOutStays == Spec => ShutOutForGood
<1> DEFINE A == \A r \in Runs : ShutOut(r) =>
                  \/ gnb' = NoGnb
                  \/ ShutOut(r)' /\ (r \in started' => r \in started)
<1>1. ASSUME OInv, [Next]_vars, NEW r \in Runs, ShutOut(r), gnb' # NoGnb
      PROVE  ShutOut(r)' /\ (r \in started' => r \in started)
  <2> USE DEF At
  <2>1. IInv /\ gnb.present /\ gnb.annotation # r /\ ~(pc = "annotate" /\ cur = r)
    BY <1>1 DEF OInv, ShutOut
  <2>2. gnb \in Gnbs
    BY <2>1 DEF IInv, ClusterOK
  <2>3. Deploy => cur # r
    BY <2>1 DEF Deploy, DeployAllowed, GnbBoundTo
  <2>4. gnb'.present /\ gnb'.annotation # r
    <3>1. CASE Handoff \/ RelabelGnb \/ StopGnb \/ Deploy
      BY <2>1, <2>2, <3>1 DEF Handoff, RelabelGnb, StopGnb, Deploy, Gnbs
    <3>2. CASE Annotate
      BY <2>1, <2>2, <3>2 DEF Annotate
    <3>3. CASE RelabelNamespace \/ ResumeFoundation \/ Abort
      BY <2>1, <3>3 DEF RelabelNamespace, ResumeFoundation, Abort, HalfDone, cluster
    <3>4. CASE ClusterReplaced
      BY <1>1, <3>4 DEF ClusterReplaced
    <3>5. CASE Joins
      BY <2>1, <3>5, JoinsOnlyHears
    <3> QED
      BY <1>1, <2>1, <3>1, <3>2, <3>3, <3>4, <3>5, OwnershipUntouched
  <2>5. ~(pc' = "annotate" /\ cur' = r)
    <3> SUFFICES ASSUME pc' = "annotate" PROVE cur' # r
      OBVIOUS
    <3>1. CASE Deploy
      BY <2>3, <3>1 DEF Deploy
    <3> QED
      BY <1>1, <2>1, <3>1, WhoAnnotates
  <2>6. r \in started' => r \in started
    <3>1. BindStart => cur # r /\ started' = started \cup {cur}
      BY <2>1 DEF BindStart, N2Up, GnbBoundTo
    <3> QED
      BY <1>1, <2>1, <3>1, WhoStarts
  <2> QED
    BY <2>4, <2>5, <2>6 DEF ShutOut
<1>2. OInv /\ [Next]_vars => A
  <2> SUFFICES ASSUME OInv, [Next]_vars, NEW r \in Runs, ShutOut(r), gnb' # NoGnb
               PROVE  ShutOut(r)' /\ (r \in started' => r \in started)
    OBVIOUS
  <2> QED
    BY <1>1
<1>3. Spec => [][A]_vars
  BY <1>2, OwnershipInvariance, PTL DEF Spec
<1> QED
  BY <1>3 DEF ShutOutForGood

\* A record whose next stage is the workload is blocked by nothing, and no other
\* stage can be recorded in it.
LEMMA BeforeWorkload ==
  ASSUME NEW ev \in Ledgers, NextStage(ev) = "workload"
  PROVE  /\ \A s : CanRecord(ev, s) => s = "workload"
         /\ \A s : s # "workload" => PassIfNext(ev, s) = ev
         /\ FailedStage(ev) = NoStage /\ ev # << >>
<1>1. CanRecord(ev, "workload")
  BY StageOrderIsInjective DEF CanRecord, NoStage
<1>2. \A s : CanRecord(ev, s) => s = "workload"
  BY DEF CanRecord
<1>3. ev = Passes(10)
  <2>1. CASE \E n \in 0..10 : ev = FailedAt(n)
    BY <1>1, <2>1, CanRecordOf
  <2>2. ASSUME NEW n \in 0..11, ev = Passes(n) PROVE n = 10
    <3>1. n # 11
      BY <1>1, <2>2, CanRecordOf
    <3>2. n \in 0..10 /\ n + 1 \in 1..11 /\ 11 \in 1..11
      BY <3>1
    <3>3. StageOrder[n + 1] = StageOrder[11]
      BY <1>1, <2>2, <3>2, CanRecordOf, StageOrderIsInjective
    <3>4. n + 1 = 11
      BY <3>2, <3>3, StageOrderIsInjective
    <3> QED
      BY <3>2, <3>4
  <2> QED
    BY <2>1, <2>2, LedgerCases
<1>4. 10 \in 0..11
  OBVIOUS
<1>5. FailedStage(ev) = NoStage
  BY <1>3, <1>4, FailedStageOf
<1>6. Len(ev) = 10
  BY <1>3, <1>4, PassesShape
<1>7. ev # << >>
  BY <1>6
<1> QED
  BY <1>2, <1>5, <1>7 DEF PassIfNext

\* Only the verdict of an attempt moves a record whose next stage is the workload.
LEMMA OnlyJudgeMoves ==
  ASSUME IInv, Writers, ~Judge, NextStage(ledger[cur]) = "workload"
  PROVE  ledger'[cur] = ledger[cur]
<1> DEFINE old == ledger[cur]
<1> USE DEF At
<1>1. cur \in Runs
  BY DEF Writers, AcceptFoundation, BindStart, Path, Connect, Probe, ReopenWrite,
         IInv, CommandOK
<1>2. old \in Ledgers /\ \A new : Write(new) => ledger'[cur] = new
  BY <1>1 DEF IInv, RecordOK, Write
<1>3. /\ \A s : CanRecord(old, s) => s = "workload"
      /\ \A s : s # "workload" => PassIfNext(old, s) = old
      /\ FailedStage(old) = NoStage /\ old # << >> /\ NoStage # "workload"
  BY <1>2, BeforeWorkload DEF NoStage
<1>4. CASE AcceptFoundation \/ BindStart \/ Probe
  BY <1>3, <1>4 DEF AcceptFoundation, BindStart, Probe, Evidence
<1>5. CASE Path
  BY <1>2, <1>3, <1>5 DEF Path, Evidence
<1>6. CASE Connect
  BY <1>2, <1>3, <1>6 DEF Connect, Evidence
<1>7. CASE ReopenWrite
  BY <1>3, <1>7 DEF ReopenWrite, IInv, PlaceOK
<1> QED
  BY <1>4, <1>5, <1>6, <1>7 DEF Writers

\* Who touches attempts and retry records: a new attempt, a retry, and the steps
\* of an attempt, which stay with their own run.
Judging == Attempting \cup {"judge"}

LEMMA WhoAttempts ==
  ASSUME IInv, [Next]_vars, ~BeginAttempt, ~ReopenRecord
  PROVE  \/ /\ UNCHANGED <<attempts, retries>>
            /\ pc' \in Judging => pc \in Judging /\ cur' = cur
         \/ /\ pc \in Judging /\ cur \in Runs /\ retries' = retries /\ cur' = cur
            /\ \A r \in Runs : r # cur => attempts'[r] = attempts[r]
<1> USE DEF At, Goto, End, trail, Judging, Attempting
<1>1. ASSUME NEW r \in Runs, Command(r)
      PROVE  UNCHANGED <<attempts, retries>> /\ (pc' \in Judging => pc \in Judging /\ cur' = cur)
  BY <1>1 DEF Command, Prepare, PrepareFails, Reconcile, Release, Retire
<1>2. CASE Network
  BY <1>2 DEF Network, Handoff, RelabelGnb, RelabelNamespace, AcceptFoundation, Stage,
              Deploy, Annotate, BindStart, RestartProven, Path, Connect, Probe
<1>3. CASE Resume
  BY <1>3 DEF Resume, ResumeFoundation, ResumeN2, ResumeUe, ReopenWrite
<1>4. CASE Workload
  <2>1. CASE SkipWorkload \/ StartBroker \/ FailEarly \/ Judge \/ Report
    BY <2>1 DEF SkipWorkload, StartBroker, FailEarly, Judge, Report
  <2>2. CASE Collect \/ Cleanup
    BY <2>2 DEF Collect, Cleanup, IInv, CommandOK, TrailOK
  <2> QED
    BY <1>4, <2>1, <2>2 DEF Workload
<1>5. CASE Ending \/ Abort
  BY <1>5 DEF Ending, Keep, CleanUpRun, StopGnb, PowerOff, Abort
<1>6. CASE CoreBreaks \/ UeDrops \/ Joins \/ BrokerEnds \/ ClusterReplaced \/ UNCHANGED vars
  BY <1>6 DEF CoreBreaks, UeDrops, Joins, BrokerEnds, ClusterReplaced, vars
<1> QED
  BY <1>1, <1>2, <1>3, <1>4, <1>5, <1>6 DEF Next

\* A first attempt that ended before it was judged strands its run: no command
\* makes another attempt, and the workload stays the next stage for good
\* (next_workload_attempt_id).
THEOREM StrandedStays == Spec => StrandedForGood
<1> DEFINE A == \A r \in Runs : Stranded(r) => Stranded(r)'
<1>1. ASSUME IInv, [Next]_vars, NEW r \in Runs, Stranded(r)
      PROVE  Stranded(r)'
  <2> USE DEF At
  <2>1. /\ NextStage(ledger[r]) = "workload" /\ retries[r] = 0
        /\ attempts[r][1] # Missing /\ ~(cur = r /\ pc \in Judging)
    BY <1>1 DEF Stranded, Judging, Attempting
  <2>2. ledger'[r] = ledger[r]
    <3>1. CASE UNCHANGED ledger
      BY <3>1
    <3>2. CASE Writers /\ cur \in Runs /\ ledger' = [ledger EXCEPT ![cur] = ledger'[cur]]
      <4>1. CASE cur = r
        BY <1>1, <2>1, <3>2, <4>1, OnlyJudgeMoves DEF Judge, Judging
      <4>2. CASE cur # r
        BY <1>1, <3>2, <4>2 DEF IInv, RecordOK
      <4> QED
        BY <4>1, <4>2
    <3> QED
      BY <1>1, <3>1, <3>2, WhoWrites
  <2>3. BeginAttempt => cur # r
    BY <2>1 DEF BeginAttempt, NextAttempt, Unused
  <2>4. ReopenRecord /\ cur = r => UNCHANGED retries
    <3>1. ledger[r] \in Ledgers
      BY <1>1 DEF IInv, RecordOK
    <3>2. FailedStage(ledger[r]) # "workload"
      BY <2>1, <3>1, BeforeWorkload DEF NoStage
    <3> QED
      BY <3>2 DEF ReopenRecord, Evidence
  <2>5. /\ retries'[r] = retries[r] /\ attempts'[r][1] # Missing
        /\ ~(cur' = r /\ pc' \in Judging)
    <3>1. CASE BeginAttempt
      BY <1>1, <2>1, <2>3, <3>1 DEF BeginAttempt, IInv, TrailOK, record
    <3>2. CASE ReopenRecord
      BY <1>1, <2>1, <2>4, <3>2 DEF ReopenRecord, Goto, IInv, TrailOK, Judging, Attempting
    <3>3. CASE ~BeginAttempt /\ ~ReopenRecord
      BY <1>1, <2>1, <3>3, WhoAttempts
    <3> QED
      BY <3>1, <3>2, <3>3
  <2> QED
    BY <2>1, <2>2, <2>5 DEF Stranded, Judging, Attempting
<1>2. IInv /\ [Next]_vars => A
  BY <1>1
<1>3. Spec => [][A]_vars
  BY <1>2, Invariance, PTL DEF Spec
<1> QED
  BY <1>3 DEF StrandedForGood

-----------------------------------------------------------------------------
(* What a retry goes by.                                                   *)

\* An attempt has its evidence file before it is judged, and a result names an
\* attempt that was judged.
ResultsHaveEvidence ==
  /\ \A r \in Runs : result[r] # NoResult =>
       /\ result[r].attempt \in AttemptIds
       /\ "experiment-evidence" \in attempts[r][result[r].attempt]
  /\ pc \in {"judge", "report"} =>
       /\ outcome.attempt \in AttemptIds
       /\ "experiment-evidence" \in attempts[cur][outcome.attempt]
  /\ pc = "reopen-write" => result[cur].clean

RInv == IInv /\ ResultsHaveEvidence

\* The other steps leave attempts, results and outcome alone.
LEMMA WhoReports ==
  ASSUME IInv, [Next]_vars,
         ~BeginAttempt, ~Collect, ~Cleanup, ~Report, ~ReopenRecord
  PROVE  /\ UNCHANGED <<attempts, result>>
         /\ pc' \in {"judge", "report"} => pc \in {"judge", "report"} /\ UNCHANGED <<cur, outcome>>
         /\ pc' = "reopen-write" => pc = "reopen-write" /\ cur' = cur
<1> USE DEF At, Goto, End, trail, memory
<1>1. ASSUME NEW r \in Runs, Command(r)
      PROVE  UNCHANGED <<attempts, result>> /\ pc' \notin {"judge", "report", "reopen-write"}
  BY <1>1 DEF Command, Prepare, PrepareFails, Reconcile, Release, Retire
<1>2. CASE Network
  BY <1>2 DEF Network, Handoff, RelabelGnb, RelabelNamespace, AcceptFoundation, Stage,
              Deploy, Annotate, BindStart, RestartProven, Path, Connect, Probe
<1>3. CASE Resume
  BY <1>3 DEF Resume, ResumeFoundation, ResumeN2, ResumeUe, ReopenWrite
<1>4. CASE Workload
  BY <1>4 DEF Workload, SkipWorkload, StartBroker, FailEarly, Judge
<1>5. CASE Ending \/ Abort
  BY <1>5 DEF Ending, Keep, CleanUpRun, StopGnb, PowerOff, Abort
<1>6. CASE CoreBreaks \/ UeDrops \/ Joins \/ BrokerEnds \/ ClusterReplaced \/ UNCHANGED vars
  BY <1>6 DEF CoreBreaks, UeDrops, Joins, BrokerEnds, ClusterReplaced, vars
<1> QED
  BY <1>1, <1>2, <1>3, <1>4, <1>5, <1>6 DEF Next

LEMMA ResultStep == ASSUME RInv, [Next]_vars PROVE ResultsHaveEvidence'
<1> USE DEF At, Goto
<1>1. /\ result \in [Runs -> Results]
      /\ attempts \in [Runs -> [AttemptIds -> (SUBSET Files) \cup {Missing}]]
      /\ pc # "idle" => cur \in Runs
  BY DEF RInv, IInv, TrailOK, CommandOK
<1>2. CASE BeginAttempt
  <2>1. PICK n \in AttemptIds :
          attempts[cur][n] = Missing /\ attempts' = [attempts EXCEPT ![cur][n] = {}]
    BY <1>2 DEF BeginAttempt, NextAttempt, Unused
  <2>2. cur \in Runs /\ result' = result /\ pc' = "broker"
    BY <1>1, <1>2 DEF BeginAttempt
  <2>3. \A r \in Runs : \A m \in AttemptIds :
          "experiment-evidence" \in attempts[r][m] => attempts'[r][m] = attempts[r][m]
    BY <1>1, <2>1, <2>2 DEF Missing
  <2>4. ASSUME NEW r \in Runs, result'[r] # NoResult
        PROVE  /\ result'[r].attempt \in AttemptIds
               /\ "experiment-evidence" \in attempts'[r][result'[r].attempt]
    <3>1. /\ result[r].attempt \in AttemptIds
          /\ "experiment-evidence" \in attempts[r][result[r].attempt]
      BY <2>2, <2>4 DEF RInv, ResultsHaveEvidence
    <3> QED
      BY <2>2, <2>3, <3>1
  <2> QED
    BY <2>2, <2>4 DEF ResultsHaveEvidence
<1>3. CASE Collect \/ Cleanup
  <2>1. /\ cur \in Runs /\ attempt \in AttemptIds /\ result' = result /\ cur' = cur
        /\ \A r \in Runs : \A m \in AttemptIds : attempts[r][m] \subseteq attempts'[r][m]
    <3>1. cur \in Runs /\ attempt \in AttemptIds /\ result' = result /\ cur' = cur
      BY <1>1, <1>3 DEF Collect, Cleanup, RInv, IInv, PlaceOK
    <3>2. PICK file \in Files : attempts' = [attempts EXCEPT ![cur][attempt] = @ \cup {file}]
      BY <1>3 DEF Collect, Cleanup, Files
    <3>3. \A r \in Runs : \A m \in AttemptIds :
            attempts'[r][m] = IF r = cur /\ m = attempt THEN attempts[r][m] \cup {file}
                              ELSE attempts[r][m]
      BY <1>1, <3>1, <3>2
    <3> QED
      BY <3>1, <3>3
  <2>0. ASSUME NEW r \in Runs, result'[r] # NoResult
        PROVE  /\ result'[r].attempt \in AttemptIds
               /\ "experiment-evidence" \in attempts'[r][result'[r].attempt]
    <3>1. /\ result[r].attempt \in AttemptIds
          /\ "experiment-evidence" \in attempts[r][result[r].attempt]
      BY <2>1, <2>0 DEF RInv, ResultsHaveEvidence
    <3> QED
      BY <2>1, <3>1
  <2>2. CASE Collect
    BY <2>0, <2>2 DEF Collect, ResultsHaveEvidence
  <2>3. CASE Cleanup
    <3>1. /\ outcome'.attempt = attempt /\ pc' = "judge"
          /\ "experiment-evidence" \in attempts'[cur][attempt]
      BY <1>1, <2>1, <2>3 DEF Cleanup
    <3> QED
      BY <2>0, <2>1, <3>1 DEF ResultsHaveEvidence
  <2> QED
    BY <1>3, <2>2, <2>3
<1>4. CASE Report
  BY <1>1, <1>4 DEF Report, RInv, ResultsHaveEvidence
<1>5. CASE ReopenRecord
  <2>1. UNCHANGED <<result, attempts, cur>> /\ cur \in Runs
    BY <1>1, <1>5 DEF ReopenRecord
  <2>2. pc' = "reopen-write" => MayReopen(cur)
    BY <1>5 DEF ReopenRecord
  <2>3. ~RecoveryEligible(cur) \/ result[cur] = NoResult
    BY <2>1 DEF RInv, ResultsHaveEvidence, RecoveryEligible, Files
  <2>4. pc' = "reopen-write" => result'[cur'].clean
    BY <2>1, <2>2, <2>3 DEF MayReopen
  <2>5. pc' \notin {"judge", "report"}
    BY <1>5 DEF ReopenRecord
  <2> QED
    BY <2>1, <2>4, <2>5 DEF RInv, ResultsHaveEvidence
<1>6. CASE ~BeginAttempt /\ ~Collect /\ ~Cleanup /\ ~Report /\ ~ReopenRecord
  BY <1>6, WhoReports DEF RInv, ResultsHaveEvidence
<1> QED
  BY <1>2, <1>3, <1>4, <1>5, <1>6

\* The recovery of an unclean attempt never applies: the result that it goes by
\* is written after the evidence file that excludes it, and a workload is
\* reopened on a proven cleanup or not at all (_require_early_failure_scope).
THEOREM RecoveryNeverApplies == Spec => []RecoveryIsDead
<1>1. Init => ResultsHaveEvidence
  BY DEF Init, ResultsHaveEvidence
<1>2. RInv /\ IInv' /\ [Next]_vars => RInv'
  BY ResultStep DEF RInv
<1>3. RInv => RecoveryIsDead
  BY DEF RInv, ResultsHaveEvidence, RecoveryIsDead, RecoveryEligible, Files
<1>4. Init /\ IInv => RInv
  BY <1>1 DEF RInv
<1> QED
  BY <1>2, <1>3, <1>4, Invariance, PTL DEF Spec
=============================================================================
