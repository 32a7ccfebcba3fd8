---------------------------- MODULE Dependencies ----------------------------
(***************************************************************************)
(* One managed checkout below .deps (dependencies.py): `synthran deps      *)
(* sync` clones it and detaches it at the commit of the lock file, and     *)
(* runs look whether it is there and clean, and then use it: some through  *)
(* a worktree of their own, some directly.                                 *)
(*                                                                         *)
(* git itself is external: a clone with --no-checkout leaves HEAD at the   *)
(* tip of a branch and no file, which `git status` shows as changes; a     *)
(* killed checkout leaves files of two commits and index.lock.             *)
(***************************************************************************)
EXTENDS Naturals

CONSTANTS
  Commits, Tip,     \* commits of the dependency, and the one its branch names
  Isolated, Direct, \* runs that make a worktree; runs that read the checkout
  MaxLocks,         \* bound: times the lock file names another commit
  MaxEdits,         \* bound: times somebody changes a file
  MaxKills          \* bound: times a sync is killed

ASSUME DependenciesAssumption ==
  /\ Tip \in Commits /\ Isolated \cap Direct = {}
  /\ MaxLocks \in Nat /\ MaxEdits \in Nat /\ MaxKills \in Nat

VARIABLES
  lock, locks,      \* commit in dependencies.lock.yml, and how often it changed
  dir, head, tree,  \* the checkout: kind, its HEAD, the commit its files are of
  indexLock,        \* .git/index.lock is there
  edited, edits,    \* somebody has changed a file
  sync, want,       \* place of the sync, and the commit it was started for
  kills,
  run, commit, copy, \* place of a run, its commit, the commit of its worktree
  read,             \* what it has read (history)
  blamed            \* a sync found local changes that nobody made (history)

checkout == <<dir, head, tree, indexLock>>
people   == <<lock, locks, edited, edits>>
syncing  == <<sync, want, kills, blamed>>
runs     == <<run, commit, copy, read>>
vars     == <<lock, locks, dir, head, tree, indexLock, edited, edits,
              sync, want, kills, run, commit, copy, read, blamed>>

Runs   == Isolated \cup Direct
Files  == Commits \cup {"none", "mixed"}
None   == "none"

Init ==
  /\ lock \in Commits /\ locks = 0
  /\ dir = None /\ head = None /\ tree = None /\ indexLock = FALSE
  /\ edited = FALSE /\ edits = 0
  /\ sync = "off" /\ want = None /\ kills = 0
  /\ run = [r \in Runs |-> "off"] /\ commit = [r \in Runs |-> None]
  /\ copy = [r \in Runs |-> None] /\ read = [r \in Runs |-> {}]
  /\ blamed = FALSE

\* git status --porcelain prints something.
Dirty == edited \/ tree # head

-----------------------------------------------------------------------------
(* _sync_one.                                                              *)

\* Mutant of SyncStart: the commit that is there is checked out, not the lock's.
SyncOfHead ==
  /\ sync = "off"
  /\ want' = head
  /\ sync' = IF dir = None THEN "clone" ELSE "fetch"
  /\ UNCHANGED <<checkout, people, kills, runs, blamed>>

SyncStart ==
  /\ sync = "off"
  /\ want' = lock
  /\ \/ dir = None /\ sync' = "clone" /\ UNCHANGED blamed
     \/ dir = "clone" /\ ~Dirty /\ sync' = "fetch" /\ UNCHANGED blamed
     \/ dir = "clone" /\ Dirty /\ blamed' = (blamed \/ ~edited) /\ UNCHANGED sync
     \/ dir = "partial" /\ sync' \in {"off", "fetch"} /\ UNCHANGED blamed
  /\ UNCHANGED <<checkout, people, kills, runs>>

Cloned == dir' = "clone" /\ head' = Tip /\ tree' = None

\* git takes away what a failed clone has made.
Clone ==
  /\ sync = "clone"
  /\ \/ Cloned /\ sync' = "fetch"
     \/ sync' = "off" /\ UNCHANGED <<dir, head, tree>>
  /\ UNCHANGED <<indexLock, people, want, kills, runs, blamed>>

Fetch ==
  /\ sync = "fetch"
  /\ sync' \in {"checkout", "off"}
  /\ UNCHANGED <<checkout, people, want, kills, runs, blamed>>

\* It fetches the files it needs, and stops before it writes when that fails,
\* when index.lock is there or when a changed file is in the way.
CheckoutStart ==
  /\ sync = "checkout"
  /\ \/ /\ ~indexLock /\ indexLock' = TRUE
        /\ tree' = IF tree = want THEN tree ELSE "mixed"
        /\ sync' = "switch"
     \/ sync' = "off" /\ UNCHANGED <<indexLock, tree>>
  /\ UNCHANGED <<dir, head, people, want, kills, runs, blamed>>

Switched == dir' = "clone" /\ head' = want /\ tree' = want /\ indexLock' = FALSE

CheckoutEnd ==
  /\ sync = "switch" /\ Switched
  /\ sync' = "off"
  /\ UNCHANGED <<people, want, kills, runs, blamed>>

\* The process of git may die with the command or go on to its end.
Kill ==
  /\ sync # "off" /\ kills < MaxKills
  /\ kills' = kills + 1 /\ sync' = "off"
  /\ \/ UNCHANGED checkout
     \/ sync = "clone" /\ Cloned /\ UNCHANGED indexLock
     \/ sync = "clone" /\ dir' = "partial" /\ UNCHANGED <<head, tree, indexLock>>
     \/ sync = "switch" /\ Switched
  /\ UNCHANGED <<people, want, runs, blamed>>

-----------------------------------------------------------------------------
(* People at the repository.                                               *)

Pin ==
  /\ locks < MaxLocks
  /\ lock' \in Commits \ {lock} /\ locks' = locks + 1
  /\ UNCHANGED <<checkout, edited, edits, syncing, runs>>

Edit ==
  /\ dir = "clone" /\ ~edited /\ edits < MaxEdits
  /\ edited' = TRUE /\ edits' = edits + 1
  /\ UNCHANGED <<lock, locks, checkout, syncing, runs>>

Undo ==
  /\ edited /\ edited' = FALSE
  /\ UNCHANGED <<lock, locks, edits, checkout, syncing, runs>>

-----------------------------------------------------------------------------
(* Runs.                                                                   *)

\* Mutant of Validate: only HEAD is compared, git status is not asked.
ValidateHead(r) ==
  /\ run[r] = "off"
  /\ dir = "clone" /\ head = lock
  /\ run' = [run EXCEPT ![r] = "valid"]
  /\ commit' = [commit EXCEPT ![r] = lock]
  /\ UNCHANGED <<checkout, people, syncing, copy, read>>

\* validate_fiveg_checkout, _verify_amber_checkout.
Validate(r) ==
  /\ run[r] = "off"
  /\ dir = "clone" /\ head = lock /\ ~Dirty
  /\ run' = [run EXCEPT ![r] = "valid"]
  /\ commit' = [commit EXCEPT ![r] = lock]
  /\ UNCHANGED <<checkout, people, syncing, copy, read>>

\* Mutant of AddWorktree: git worktree add --detach <path>, without the commit.
AddWorktreeOfHead(r) ==
  /\ run[r] = "valid" /\ r \in Isolated
  /\ run' = [run EXCEPT ![r] = "worktree"]
  /\ copy' = [copy EXCEPT ![r] = head]
  /\ UNCHANGED <<checkout, people, syncing, commit, read>>

AddWorktree(r) ==
  /\ run[r] = "valid" /\ r \in Isolated
  /\ run' = [run EXCEPT ![r] = "worktree"]
  /\ copy' = [copy EXCEPT ![r] = commit[r]]
  /\ UNCHANGED <<checkout, people, syncing, commit, read>>

\* The worktree is not what another command changes; the checkout is.
ReadWorktree(r) ==
  /\ run[r] = "worktree"
  /\ read' = [read EXCEPT ![r] = @ \cup {copy[r]}]
  /\ UNCHANGED <<checkout, people, syncing, run, commit, copy>>

ReadCheckout(r) ==
  /\ run[r] = "valid" /\ r \in Direct
  /\ read' = [read EXCEPT ![r] = @ \cup {IF edited THEN "edited" ELSE tree}]
  /\ UNCHANGED <<checkout, people, syncing, run, commit, copy>>

End(r) ==
  /\ run[r] \in {"valid", "worktree"}
  /\ run' = [run EXCEPT ![r] = "over"]
  /\ UNCHANGED <<checkout, people, syncing, commit, copy, read>>

Sync == SyncStart \/ Clone \/ Fetch \/ CheckoutStart \/ CheckoutEnd \/ Kill

Next ==
  \/ Sync \/ Pin \/ Edit \/ Undo
  \/ \E r \in Runs : \/ Validate(r) \/ AddWorktree(r) \/ ReadWorktree(r)
                     \/ ReadCheckout(r) \/ End(r)

Spec == Init /\ [][Next]_vars

-----------------------------------------------------------------------------
(* Properties.                                                             *)

\* The type of every variable; a checkout that is not a clone has no HEAD.
TypeOK ==
  /\ lock \in Commits /\ want \in Commits \cup {None}
  /\ dir \in {None, "partial", "clone"} /\ tree \in Files
  /\ head \in IF dir = "clone" THEN Commits ELSE {None}
  /\ {indexLock, edited, blamed} \subseteq BOOLEAN
  /\ locks \in 0..MaxLocks /\ edits \in 0..MaxEdits /\ kills \in 0..MaxKills
  /\ sync \in {"off", "clone", "fetch", "checkout", "switch"}
  /\ run \in [Runs -> {"off", "valid", "worktree", "over"}]
  /\ \A r \in Runs :
       /\ {commit[r], copy[r]} \subseteq Commits \cup {None}
       /\ read[r] \subseteq Files \cup {"edited"}

\* A run in a worktree reads the commit that it names in its evidence, also
\* when the checkout is synchronised to another commit, edited or left half
\* switched after the run has looked at it.
WorktreeIsLocked == \A r \in Isolated : read[r] \subseteq {commit[r]}

\* A run that reads the checkout itself does so as long as the lock file stays
\* and nobody edits: a sync beside it, or one that is killed, changes nothing
\* under it.
CheckoutIsLocked ==
  locks = 0 /\ edits = 0 => \A r \in Direct : read[r] \subseteq {commit[r]}

\* A run reads the commit it names: in a worktree whatever happens, directly as
\* long as lock file and files are left alone.
ReadsItsCommit == WorktreeIsLocked /\ CheckoutIsLocked

\* Not kept by the code once the lock file may change: neither the planner of
\* Amber nor the role of a UE looks at the checkout again.
DirectIsLocked == edits = 0 => \A r \in Direct : read[r] \subseteq {commit[r]}

\* "has local changes; refusing to change its checkout" (dependencies.py:308)
\* is said of a checkout that somebody has changed.
RefusedIsEdited == ~blamed

\* HEAD and the files are of two commits, and no sync is at work on them.
HalfMade == dir = "clone" /\ tree # head /\ sync = "off"

\* What RefusedIsEdited leaves: a checkout that a failed or killed sync has left
\* half made stays so, whatever commands are given after that. Every sync
\* refuses it as changed, and no run begins until somebody takes it away.
HalfMadeForGood ==
  [][HalfMade => HalfMade' /\ \A r \in Runs : run[r] = "off" => run'[r] = "off"]_vars
=============================================================================
