------------------------- MODULE Dependencies_proofs -------------------------
(***************************************************************************)
(* Proofs about Dependencies, for any commits and runs, and any number of  *)
(* new locks, edits and kills.                                             *)
(***************************************************************************)
EXTENDS Dependencies, TLAPS

-----------------------------------------------------------------------------
(* The invariant.                                                          *)

CheckoutTypes ==
  /\ dir \in {None, "partial", "clone"}
  /\ dir = "clone" => head \in Commits
  /\ dir # "clone" => head = None
  /\ tree \in Files /\ indexLock \in BOOLEAN

PeopleTypes ==
  /\ lock \in Commits /\ locks \in 0..MaxLocks
  /\ edited \in BOOLEAN /\ edits \in 0..MaxEdits

SyncTypes ==
  /\ sync \in {"off", "clone", "fetch", "checkout", "switch"}
  /\ want \in Commits \cup {None} /\ kills \in 0..MaxKills /\ blamed \in BOOLEAN
  /\ sync # "off" => want \in Commits
  /\ sync = "clone" => dir = None

RunTypes ==
  /\ run \in [Runs -> {"off", "valid", "worktree", "over"}]
  /\ commit \in [Runs -> Commits \cup {None}]
  /\ copy \in [Runs -> Commits \cup {None}]
  /\ read \in [Runs -> SUBSET (Files \cup {"edited"})]

\* A run has read nothing before it begins, and its worktree is of its commit.
Isolation ==
  \A r \in Runs :
    /\ run[r] = "off" => read[r] = {}
    /\ run[r] = "worktree" => copy[r] = commit[r]
    /\ r \in Isolated => read[r] \subseteq {commit[r]}

\* While the lock file stays and nobody edits, a sync wants the commit that a
\* run has found, and the files are of that commit.
Quiet ==
  /\ edits = 0 => ~edited
  /\ locks = 0 /\ sync # "off" => want = lock
  /\ locks = 0 /\ edits = 0 =>
       \A r \in Runs :
         /\ run[r] = "valid" =>
              dir = "clone" /\ head = lock /\ tree = lock /\ commit[r] = lock
         /\ r \in Direct => read[r] \subseteq {commit[r]}

Inv == CheckoutTypes /\ PeopleTypes /\ SyncTypes /\ RunTypes /\ Isolation /\ Quiet

LEMMA InitInv == Init => Inv
<1> SUFFICES ASSUME Init PROVE Inv
  OBVIOUS
<1> USE DependenciesAssumption DEF Init, None
<1>1. 0 \in 0..MaxLocks /\ 0 \in 0..MaxEdits /\ 0 \in 0..MaxKills
  OBVIOUS
<1>2. CheckoutTypes /\ PeopleTypes /\ SyncTypes
  BY <1>1, Zenon DEF CheckoutTypes, PeopleTypes, SyncTypes, Files
<1>3. RunTypes
  <2>1. run \in [Runs -> {"off", "valid", "worktree", "over"}]
    OBVIOUS
  <2>2. commit \in [Runs -> Commits \cup {None}] /\ copy \in [Runs -> Commits \cup {None}]
    OBVIOUS
  <2>3. read \in [Runs -> SUBSET (Files \cup {"edited"})]
    OBVIOUS
  <2> QED
    BY <2>1, <2>2, <2>3 DEF RunTypes
<1>4. \A r \in Runs : run[r] = "off" /\ read[r] = {}
  OBVIOUS
<1>5. Isolation
  BY <1>4 DEF Isolation
<1>6. Quiet
  <2>1. \A r \in Direct : r \in Runs
    BY DEF Runs
  <2> QED
    BY <1>4 DEF Quiet
<1> QED
  BY <1>2, <1>3, <1>5, <1>6 DEF Inv

-----------------------------------------------------------------------------
(* Steps.                                                                  *)

\* A sync changes what runs read only when no run relies on it.
LEMMA SyncInv ==
  ASSUME Inv, Sync
  PROVE  Inv'
<1> USE DependenciesAssumption DEF None
<1>1. CheckoutTypes /\ PeopleTypes /\ SyncTypes /\ RunTypes /\ Isolation /\ Quiet
  BY DEF Inv
<1>2. UNCHANGED <<people, runs>>
  BY DEF Sync, SyncStart, Clone, Fetch, CheckoutStart, CheckoutEnd, Kill
<1>3. PeopleTypes' /\ RunTypes' /\ Isolation'
  BY <1>1, <1>2 DEF PeopleTypes, RunTypes, Isolation, people, runs
<1>4. ASSUME CheckoutTypes', SyncTypes',
             locks = 0 /\ sync' # "off" => want' = lock,
             locks = 0 /\ edits = 0 /\ (\E r \in Runs : run[r] = "valid")
               => dir' = "clone" /\ head' = lock /\ tree' = lock
      PROVE  Inv'
  <2>1. Quiet'
    BY <1>1, <1>2, <1>4 DEF Quiet, people, runs
  <2> QED
    BY <1>3, <1>4, <2>1 DEF Inv
\* What a run relies on.
<1>5. ASSUME locks = 0, edits = 0, NEW r \in Runs, run[r] = "valid"
      PROVE  dir = "clone" /\ head = lock /\ tree = lock
  BY <1>1, <1>5 DEF Quiet
<1>6. CASE SyncStart
  <2>1. CheckoutTypes'
    BY <1>1, <1>6 DEF CheckoutTypes, SyncStart, checkout
  <2>2. SyncTypes'
    BY <1>1, <1>6 DEF SyncTypes, PeopleTypes, SyncStart, checkout
  <2> QED
    BY <1>4, <1>5, <1>6, <2>1, <2>2 DEF SyncStart, checkout
<1>7. CASE Clone
  <2>1. CheckoutTypes'
    BY <1>1, <1>7 DEF CheckoutTypes, Clone, Cloned, Files
  <2>2. SyncTypes'
    BY <1>1, <1>7 DEF SyncTypes, Clone
  <2> QED
    BY <1>1, <1>4, <1>5, <1>7, <2>1, <2>2 DEF Clone, Quiet, SyncTypes
<1>8. CASE Fetch
  <2>1. CheckoutTypes' /\ SyncTypes'
    BY <1>1, <1>8 DEF CheckoutTypes, SyncTypes, Fetch, checkout
  <2> QED
    BY <1>1, <1>4, <1>5, <1>8, <2>1 DEF Fetch, Quiet, checkout
<1>9. CASE CheckoutStart
  <2>1. CheckoutTypes'
    BY <1>1, <1>9 DEF CheckoutTypes, CheckoutStart, Files
  <2>2. SyncTypes'
    BY <1>1, <1>9 DEF SyncTypes, CheckoutStart
  <2> QED
    BY <1>1, <1>4, <1>5, <1>9, <2>1, <2>2 DEF CheckoutStart, Quiet
<1>10. CASE CheckoutEnd
  <2>1. CheckoutTypes' /\ SyncTypes'
    BY <1>1, <1>10 DEF CheckoutTypes, SyncTypes, CheckoutEnd, Switched, Files
  <2> QED
    BY <1>1, <1>4, <1>10, <2>1 DEF CheckoutEnd, Switched, Quiet
<1>11. CASE Kill
  <2>1. sync # "off" /\ sync' = "off" /\ kills' \in 0..MaxKills
    BY <1>1, <1>11 DEF Kill, SyncTypes
  <2>2. SyncTypes'
    BY <1>1, <1>11, <2>1 DEF SyncTypes, Kill
  <2>3. CASE UNCHANGED checkout
    BY <1>1, <1>4, <1>5, <2>1, <2>2, <2>3 DEF CheckoutTypes, checkout
  <2>4. CASE sync = "clone" /\ Cloned /\ UNCHANGED indexLock
    BY <1>1, <1>4, <1>5, <2>1, <2>2, <2>4 DEF CheckoutTypes, SyncTypes, Cloned, Files
  <2>5. CASE sync = "clone" /\ dir' = "partial" /\ UNCHANGED <<head, tree, indexLock>>
    BY <1>1, <1>4, <1>5, <2>1, <2>2, <2>5 DEF CheckoutTypes, SyncTypes
  <2>6. CASE sync = "switch" /\ Switched
    BY <1>1, <1>4, <2>1, <2>2, <2>6 DEF CheckoutTypes, SyncTypes, Switched, Files, Quiet
  <2> QED
    BY <1>11, <2>3, <2>4, <2>5, <2>6 DEF Kill
<1> QED
  BY <1>6, <1>7, <1>8, <1>9, <1>10, <1>11 DEF Sync

LEMMA PeopleInv ==
  ASSUME Inv, Pin \/ Edit \/ Undo
  PROVE  Inv'
<1> USE DependenciesAssumption
<1>1. CheckoutTypes /\ PeopleTypes /\ SyncTypes /\ RunTypes /\ Isolation /\ Quiet
  BY DEF Inv
<1>2. UNCHANGED <<checkout, syncing, runs>>
  BY DEF Pin, Edit, Undo
<1>3. CheckoutTypes' /\ SyncTypes' /\ RunTypes' /\ Isolation'
  BY <1>1, <1>2 DEF CheckoutTypes, SyncTypes, RunTypes, Isolation, checkout, syncing, runs
<1>4. CASE Pin
  <2>1. PeopleTypes' /\ locks' # 0
    BY <1>1, <1>4 DEF PeopleTypes, Pin
  <2> QED
    BY <1>1, <1>3, <1>4, <2>1 DEF Inv, Quiet, Pin
<1>5. CASE Edit
  <2>1. PeopleTypes' /\ edits' # 0
    BY <1>1, <1>5 DEF PeopleTypes, Edit
  <2> QED
    BY <1>1, <1>2, <1>3, <1>5, <2>1 DEF Inv, Quiet, Edit, syncing
<1>6. CASE Undo
  <2>1. PeopleTypes' /\ edits' # 0
    BY <1>1, <1>6 DEF PeopleTypes, Quiet, Undo
  <2> QED
    BY <1>1, <1>2, <1>3, <1>6, <2>1 DEF Inv, Quiet, Undo, syncing
<1> QED
  BY <1>4, <1>5, <1>6

LEMMA RunInv ==
  ASSUME Inv, NEW r \in Runs,
         Validate(r) \/ AddWorktree(r) \/ ReadWorktree(r) \/ ReadCheckout(r) \/ End(r)
  PROVE  Inv'
<1> USE DependenciesAssumption DEF None
<1>1. CheckoutTypes /\ PeopleTypes /\ SyncTypes /\ RunTypes /\ Isolation /\ Quiet
  BY DEF Inv
<1>2. UNCHANGED <<checkout, people, syncing>>
  BY DEF Validate, AddWorktree, ReadWorktree, ReadCheckout, End
<1>3. CheckoutTypes' /\ PeopleTypes' /\ SyncTypes'
  BY <1>1, <1>2 DEF CheckoutTypes, PeopleTypes, SyncTypes, checkout, people, syncing
<1>4. ASSUME RunTypes', Isolation',
             locks = 0 /\ edits = 0 =>
               \A q \in Runs :
                 /\ run'[q] = "valid" => run[q] = "valid" \/ (head = lock /\ ~Dirty /\ dir = "clone")
                 /\ run'[q] = "valid" => commit'[q] = lock
                 /\ q \in Direct => read'[q] \subseteq {commit'[q]}
      PROVE  Inv'
  <2>1. Quiet'
    BY <1>1, <1>2, <1>4 DEF Quiet, Dirty, checkout, people, syncing
  <2> QED
    BY <1>3, <1>4, <2>1 DEF Inv
<1>5. CASE Validate(r)
  <2>1. RunTypes'
    BY <1>1, <1>5 DEF RunTypes, PeopleTypes, Validate
  <2>2. Isolation'
    BY <1>1, <1>5 DEF RunTypes, Isolation, Validate
  <2> QED
    BY <1>1, <1>4, <1>5, <2>1, <2>2 DEF RunTypes, Isolation, Quiet, Validate
<1>6. CASE AddWorktree(r)
  <2>1. RunTypes'
    BY <1>1, <1>6 DEF RunTypes, AddWorktree
  <2>2. Isolation'
    BY <1>1, <1>6 DEF RunTypes, Isolation, AddWorktree
  <2> QED
    BY <1>1, <1>4, <1>6, <2>1, <2>2 DEF RunTypes, Quiet, AddWorktree
<1>7. CASE ReadWorktree(r)
  <2>1. copy[r] \in Files
    BY <1>1 DEF RunTypes, Files
  <2>2. RunTypes'
    BY <1>1, <1>7, <2>1 DEF RunTypes, ReadWorktree
  <2>3. Isolation'
    BY <1>1, <1>7 DEF RunTypes, Isolation, ReadWorktree
  <2> QED
    BY <1>1, <1>4, <1>7, <2>2, <2>3 DEF RunTypes, Isolation, Quiet, ReadWorktree
<1>8. CASE ReadCheckout(r)
  <2>1. r \notin Isolated /\ tree \in Files
    BY <1>1, <1>8 DEF ReadCheckout, CheckoutTypes
  <2>2. RunTypes'
    BY <1>1, <1>8, <2>1 DEF RunTypes, ReadCheckout
  <2>3. Isolation'
    BY <1>1, <1>8, <2>1 DEF RunTypes, Isolation, ReadCheckout
  <2> QED
    BY <1>1, <1>4, <1>8, <2>2, <2>3 DEF RunTypes, Quiet, ReadCheckout
<1>9. CASE End(r)
  <2>1. RunTypes'
    BY <1>1, <1>9 DEF RunTypes, End
  <2>2. Isolation'
    BY <1>1, <1>9 DEF RunTypes, Isolation, End
  <2> QED
    BY <1>1, <1>4, <1>9, <2>1, <2>2 DEF RunTypes, Quiet, End
<1> QED
  BY <1>5, <1>6, <1>7, <1>8, <1>9

-----------------------------------------------------------------------------
(* What holds of every checkout.                                           *)

\* Worktrees are of the commit of their run, and while lock file and files are
\* left alone a sync does not move the checkout away from it.
THEOREM Invariance == Spec => []Inv
<1>1. Inv /\ [Next]_vars => Inv'
  <2> SUFFICES ASSUME Inv, [Next]_vars PROVE Inv'
    OBVIOUS
  <2>1. CASE UNCHANGED vars
    BY <2>1 DEF vars, Inv, CheckoutTypes, PeopleTypes, SyncTypes, RunTypes,
       Isolation, Quiet
  <2> QED
    BY <2>1, SyncInv, PeopleInv, RunInv DEF Next
<1> QED
  BY InitInv, <1>1, PTL DEF Spec

\* The types of Dependencies.
THEOREM TypeCorrect == Spec => []TypeOK
<1>1. Inv => TypeOK
  BY DEF Inv, CheckoutTypes, PeopleTypes, SyncTypes, RunTypes, TypeOK
<1> QED
  BY Invariance, <1>1, PTL

\* A run in a worktree reads the commit it names, whatever happens to the
\* checkout.
THEOREM WorktreeLocked == Spec => []WorktreeIsLocked
<1>1. Inv => WorktreeIsLocked
  BY DEF Inv, Isolation, WorktreeIsLocked, Runs
<1> QED
  BY Invariance, <1>1, PTL

\* A run that reads the checkout reads the commit it names for as long as lock
\* file and files are left alone, whatever syncs are made or killed.
THEOREM CheckoutLocked == Spec => []CheckoutIsLocked
<1>1. Inv => CheckoutIsLocked
  BY DEF Inv, Quiet, CheckoutIsLocked, Runs
<1> QED
  BY Invariance, <1>1, PTL

\* Both together, as the run checks them (upstream_roles.py makes a worktree,
\* amber_planner.py and ue_ansible.py read the checkout itself).
THEOREM ReadsLocked == Spec => []ReadsItsCommit
BY WorktreeLocked, CheckoutLocked, PTL DEF ReadsItsCommit

\* A checkout that is half made: only the commands of git would complete it, and
\* _sync_one asks git status before it gives any (dependencies.py:306).
LEMMA HalfMadeStep ==
  ASSUME Inv, Next, HalfMade
  PROVE  HalfMade' /\ \A r \in Runs : run[r] = "off" => run'[r] = "off"
<1> USE DEF HalfMade
<1>1. CASE SyncStart
  BY <1>1 DEF SyncStart, Dirty, checkout, runs, None
<1>2. ~(Clone \/ Fetch \/ CheckoutStart \/ CheckoutEnd \/ Kill)
  BY DEF Clone, Fetch, CheckoutStart, CheckoutEnd, Kill
<1>3. CASE Pin \/ Edit \/ Undo
  BY <1>3 DEF Pin, Edit, Undo, checkout, syncing, runs
<1>4. ASSUME NEW r \in Runs,
             Validate(r) \/ AddWorktree(r) \/ ReadWorktree(r) \/ ReadCheckout(r) \/ End(r)
      PROVE  HalfMade' /\ \A q \in Runs : run[q] = "off" => run'[q] = "off"
  <2>1. ~Validate(r)
    BY DEF Validate, Dirty
  <2>2. HalfMade'
    BY <1>4 DEF Validate, AddWorktree, ReadWorktree, ReadCheckout, End, checkout, syncing
  <2>3. \A q \in Runs : run[q] = "off" => run'[q] = "off"
    BY <1>4, <2>1 DEF AddWorktree, ReadWorktree, ReadCheckout, End, Inv, RunTypes
  <2> QED
    BY <2>2, <2>3
<1> QED
  BY <1>1, <1>2, <1>3, <1>4 DEF Next, Sync

\* A checkout that a sync has left half made is refused by every later sync as
\* locally changed, and keeps every run from beginning (_sync_one,
\* dependencies.py:306-333). No assumption on the constants is needed.
THEOREM HalfMadeStays == Spec => HalfMadeForGood
<1>1. Inv /\ [Next]_vars =>
        (HalfMade => HalfMade' /\ \A r \in Runs : run[r] = "off" => run'[r] = "off")
  <2>1. CASE UNCHANGED vars
    BY <2>1 DEF vars, HalfMade
  <2> QED
    BY <2>1, HalfMadeStep
<1> QED
  BY Invariance, <1>1, PTL DEF Spec, HalfMadeForGood
=============================================================================
