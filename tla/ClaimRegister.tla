--------------------------- MODULE ClaimRegister ---------------------------
(***************************************************************************)
(* What the claim on the testbed promises, however its file is written and *)
(* removed: one run holds it at a time, and each run holds it once at most.*)
(***************************************************************************)
CONSTANT Runs

VARIABLES
  holders,  \* the run that holds the claim, if there is one
  spent     \* runs that will never hold it (again)

Init == holders = {} /\ spent = {}

Take(r) ==
  /\ holders = {} /\ r \notin spent
  /\ holders' = {r}
  /\ UNCHANGED spent

Leave(r) ==
  /\ holders = {r}
  /\ holders' = {}
  /\ spent' = spent \cup {r}

\* A run that gets no claim, and whose identifier is used up all the same.
GiveUp(r) ==
  /\ r \notin holders
  /\ spent' = spent \cup {r}
  /\ UNCHANGED holders

Next == \E r \in Runs : Take(r) \/ Leave(r) \/ GiveUp(r)

Spec == Init /\ [][Next]_<<holders, spent>>

-----------------------------------------------------------------------------
\* No two runs hold the claim, and whoever holds it is not spent.
OneHolder == (\A r, s \in holders : r = s) /\ holders \cap spent = {}

\* A run that let the claim go never holds it again, and the claim never goes
\* from one run to another at once.
HeldOnce ==
  [][ /\ spent \subseteq spent'
      /\ spent \cap holders' = {}
      /\ \A r \in holders \ holders' : r \in spent' /\ holders' = {}
    ]_<<holders, spent>>
=============================================================================
