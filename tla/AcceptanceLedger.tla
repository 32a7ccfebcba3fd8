-------------------------- MODULE AcceptanceLedger --------------------------
(***************************************************************************)
(* What the acceptance records of all physical runs promise together: the  *)
(* record of a run only grows, in the order of the stages, and stops at a  *)
(* failure; the one thing that may be taken back is a failed workload.     *)
(***************************************************************************)
EXTENDS Acceptance

CONSTANT Runs

VARIABLE ledger     \* [Runs -> Ledgers]; << >> when there is no record

Init == ledger = [r \in Runs |-> << >>]

\* One or several stages are judged.
Extend(r) ==
  /\ ~Blocked(ledger[r])
  /\ \E new \in Ledgers :
       /\ IsStrictPrefix(ledger[r], new)
       /\ ledger' = [ledger EXCEPT ![r] = new]

\* A failed workload is tried again.
Reopen(r) ==
  /\ FailedStage(ledger[r]) = "workload"
  /\ ledger' = [ledger EXCEPT ![r] = WithoutLast(@)]

Next == \E r \in Runs : Extend(r) \/ Reopen(r)

Spec == Init /\ [][Next]_ledger

-----------------------------------------------------------------------------
\* Every record is one the constructor accepts.
AllWellFormed == \A r \in Runs : ledger[r] \in Ledgers

\* An accepted run stays accepted.
AcceptanceIsFinal ==
  [][ \A r \in Runs : Accepted(ledger[r]) => ledger'[r] = ledger[r] ]_ledger

\* A stage that passed is never taken back, and a failed stage other than the
\* workload ends the record for good.
PassesAreKept ==
  [][ \A r \in Runs :
        /\ \A s \in Stages : Passed(ledger[r], s) => Passed(ledger'[r], s)
        /\ FailedStage(ledger[r]) \notin {NoStage, "workload"}
             => ledger'[r] = ledger[r] ]_ledger
=============================================================================
