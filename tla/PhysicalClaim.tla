--------------------------- MODULE PhysicalClaim ----------------------------
(***************************************************************************)
(* The workspace claim on exact R2Lab hardware: synthran/r2lab/resources.py*)
(* (prepare, reconcile, release), stale_claim.py (retirement), provider.py *)
(* (verified power transitions) and cli._release.                          *)
(*                                                                         *)
(* Several command-line processes share one workspace.  The claim is the   *)
(* file active.json; it is created exclusively, filled afterwards, and     *)
(* removed by a release or by a retirement.  Every file operation and      *)
(* every provider command is a step, and a process may die between any two *)
(* of them.                                                                *)
(***************************************************************************)
EXTENDS Naturals, Sequences, FiniteSets

CONSTANTS
  Procs,      \* command-line processes
  Runs,       \* run identifiers
  Devices,    \* power-controlled devices of the testbed
  Radio,      \* [Runs -> Devices]: topology.radio
  UeRails,    \* [Runs -> Seq(Devices)]: what powers the UE, in power-on order
  Slow,       \* devices whose power-off is asynchronous (qfit hosts)
  SerialUse,  \* TRUE: the operator runs one command per run at a time
  MaxFaults   \* bound on crashes, lost commands, unknown answers, lease ends

ASSUME TopologyAssumption ==
  /\ Radio \in [Runs -> Devices]
  /\ UeRails \in [Runs -> Seq(Devices)]
  /\ Slow \subseteq Devices
ASSUME SerialUseAssumption == SerialUse \in BOOLEAN
ASSUME MaxFaultsAssumption == MaxFaults \in Nat

VARIABLES
  claim,     \* active.json
  dir,       \* [Runs -> ...]: the run directory and topology file
  manifest,  \* [Runs -> ...]: manifest.json
  retired,   \* runs with an archived claim (retired-claim.json)
  power,     \* [Devices -> ...]
  lease,     \* the slice holds a current lease
  stale,     \* processes at work when the lease was last lost
  faults,    \* faults so far
  bound,     \* runs whose physical-run.json has a gNB start
  deployed,  \* the run whose marks the gNB Deployment has
  pc, op, run, todo   \* the processes

files == <<claim, dir, manifest, retired>>
env   == <<power, lease, stale, faults>>
gnb   == <<bound, deployed>>
vars  == <<claim, dir, manifest, retired, power, lease, stale, faults,
           bound, deployed, pc, op, run, todo>>

\* A process that runs no command has no run; nor has a Deployment of others.
NoRun == "none"

NoClaim  == [state |-> "none"]
Torn(r)  == [state |-> "torn", run |-> r]     \* created, not yet filled
Whole(r) == [state |-> "whole", run |-> r]
Claims   == {NoClaim} \cup { Torn(r) : r \in Runs } \cup { Whole(r) : r \in Runs }

Labels == { "idle", "topology", "claim-check", "claim-create", "claim-fill",
            "undo", "gateway", "claim-match", "lease", "stop-gnb", "drive",
            "verify", "work", "retire-read", "retire-reread", "retire-unlink",
            "unlink", "manifest" }

\* One transition of a plan; "look" asks for the current state first.
Move == [dev : Devices, to : {"on", "off"}, look : BOOLEAN]

DeviceOf(r) ==
  {Radio[r]} \cup { UeRails[r][i] : i \in 1..Len(UeRails[r]) }

\* prepare_physical_resources switches the radio on without looking, a qfit
\* host and its USB rail only when they are seen off; reconcile looks first
\* everywhere.  Release goes the other way and ends with the radio.
PowerOn(r, lookAtRadio) ==
  << [dev |-> Radio[r], to |-> "on", look |-> lookAtRadio] >> \o
  [i \in 1..Len(UeRails[r]) |->
     [dev |-> UeRails[r][i], to |-> "on", look |-> TRUE]]

\* Mutant of PowerOff: the radio is forgotten.
PowerOffUeOnly(r) ==
  LET n == Len(UeRails[r])
  IN  [i \in 1..n |->
         [dev |-> UeRails[r][n + 1 - i], to |-> "off", look |-> FALSE]]

PowerOff(r) ==
  LET n == Len(UeRails[r])
  IN  [i \in 1..n |->
         [dev |-> UeRails[r][n + 1 - i], to |-> "off", look |-> FALSE]]
      \o << [dev |-> Radio[r], to |-> "off", look |-> FALSE] >>

Plan(o, r) == IF o = "release" THEN PowerOff(r) ELSE PowerOn(r, o = "reconcile")

\* What a status query answers: a host that is shutting down still says on.
Seen(d) == IF power[d] = "off" THEN "off" ELSE "on"

Init ==
  /\ claim = NoClaim
  /\ dir = [r \in Runs |-> "absent"]
  /\ manifest = [r \in Runs |-> "absent"]
  /\ retired = {}
  /\ power = [d \in Devices |-> "off"]
  /\ lease = TRUE
  /\ stale = {}
  /\ faults = 0
  /\ bound = {} /\ deployed = NoRun
  /\ pc = [p \in Procs |-> "idle"]
  /\ op = [p \in Procs |-> "prepare"]
  /\ run = [p \in Procs |-> NoRun]
  /\ todo = [p \in Procs |-> << >>]

-----------------------------------------------------------------------------
Goto(p, label) == pc' = [pc EXCEPT ![p] = label]

\* The command of a process is over; it forgets everything.
End(p) ==
  /\ pc' = [pc EXCEPT ![p] = "idle"]
  /\ op' = [op EXCEPT ![p] = "prepare"]
  /\ run' = [run EXCEPT ![p] = NoRun]
  /\ todo' = [todo EXCEPT ![p] = << >>]
  /\ stale' = stale \ {p}

Fault == faults < MaxFaults /\ faults' = faults + 1

MayStart(p, r) ==
  /\ pc[p] = "idle"
  /\ SerialUse => \A q \in Procs : pc[q] # "idle" => run[q] # r

\* Mutant of StartRun: an existing run directory is prepared once more.
StartRunOver(p, r) ==
  /\ MayStart(p, r)
  /\ run' = [run EXCEPT ![p] = r]
  /\ dir' = [dir EXCEPT ![r] = "bare"]
  /\ op' = [op EXCEPT ![p] = "prepare"]
  /\ Goto(p, "topology")
  /\ UNCHANGED <<gnb, claim, manifest, retired, env, todo>>

\* synthran run --radio r2lab: a fresh run directory is prepared, an existing
\* one is reconciled.
StartRun(p, r) ==
  /\ MayStart(p, r)
  /\ run' = [run EXCEPT ![p] = r]
  /\ \/ /\ dir[r] = "absent"
        /\ dir' = [dir EXCEPT ![r] = "bare"]
        /\ op' = [op EXCEPT ![p] = "prepare"]
        /\ Goto(p, "topology")
     \/ /\ dir[r] # "absent"
        /\ op' = [op EXCEPT ![p] = "reconcile"]
        /\ Goto(p, "claim-match")
        /\ UNCHANGED dir
  /\ UNCHANGED <<gnb, claim, manifest, retired, env, todo>>

\* Mutant of StartRelease: the run identifier of the command line gets lost.
StartReleaseOfNothing(p, r) ==
  /\ MayStart(p, r)
  /\ dir[r] # "absent"
  /\ op' = [op EXCEPT ![p] = "release"]
  /\ Goto(p, "gateway")
  /\ UNCHANGED <<gnb, files, env, run, todo>>

\* synthran release: without a run directory there is nothing to do.
StartRelease(p, r) ==
  /\ MayStart(p, r)
  /\ dir[r] # "absent"
  /\ run' = [run EXCEPT ![p] = r]
  /\ op' = [op EXCEPT ![p] = "release"]
  /\ Goto(p, "gateway")
  /\ UNCHANGED <<gnb, files, env, todo>>

WriteTopology(p) ==
  /\ pc[p] = "topology"
  /\ dir' = [dir EXCEPT ![run[p]] = "topology"]
  /\ Goto(p, "claim-check")
  /\ UNCHANGED <<gnb, claim, manifest, retired, env, op, run, todo>>

\* _write_claim: look for active.json ...
ClaimCheck(p) ==
  /\ pc[p] = "claim-check"
  /\ Goto(p, IF claim = NoClaim THEN "claim-create" ELSE "undo")
  /\ UNCHANGED <<gnb, files, env, op, run, todo>>

\* Mutant of ClaimCreate: opened without O_EXCL.
ClaimCreateShared(p) ==
  /\ pc[p] = "claim-create"
  /\ claim' = Torn(run[p])
  /\ Goto(p, "claim-fill")
  /\ UNCHANGED <<gnb, dir, manifest, retired, env, op, run, todo>>

\* ... create it exclusively ...
ClaimCreate(p) ==
  /\ pc[p] = "claim-create"
  /\ IF claim = NoClaim
       THEN claim' = Torn(run[p]) /\ Goto(p, "claim-fill")
       ELSE Goto(p, "undo") /\ UNCHANGED claim
  /\ UNCHANGED <<gnb, dir, manifest, retired, env, op, run, todo>>

\* ... and fill it.  The open descriptor reaches the file only while the
\* name still leads to it.
ClaimFill(p) ==
  /\ pc[p] = "claim-fill"
  /\ claim' = IF claim = Torn(run[p]) THEN Whole(run[p]) ELSE claim
  /\ Goto(p, "lease")
  /\ UNCHANGED <<gnb, dir, manifest, retired, env, op, run, todo>>

\* A topology or claim that cannot be written.  The failed claim is unlinked,
\* whoever active.json belongs to by now.
TopologyFails(p) ==
  /\ pc[p] = "topology"
  /\ Fault
  /\ Goto(p, "undo")
  /\ UNCHANGED <<gnb, files, power, lease, stale, op, run, todo>>

ClaimFillFails(p) ==
  /\ pc[p] = "claim-fill"
  /\ Fault
  /\ claim' = NoClaim
  /\ Goto(p, "undo")
  /\ UNCHANGED <<gnb, dir, manifest, retired, power, lease, stale, op, run, todo>>

\* The handler of a preparation that got no claim; its errors are swallowed,
\* and the run identifier is then spent.
Undo(p) ==
  /\ pc[p] = "undo"
  /\ \E left \in {"absent", "bare", dir[run[p]]} :
       dir' = [dir EXCEPT ![run[p]] = left]
  /\ End(p)
  /\ UNCHANGED <<gnb, claim, manifest, retired, power, lease, faults>>

\* load_topology and _require_claim open reconcile and release.
OwnsClaim(p) == dir[run[p]] = "topology" /\ claim = Whole(run[p])

ClaimMatch(p) ==
  /\ pc[p] = "claim-match"
  /\ OwnsClaim(p)
  /\ Goto(p, "lease")
  /\ UNCHANGED <<gnb, files, env, op, run, todo>>

\* The lease is looked at once, before the first command to the hardware.  A
\* release is handed stop_gnb if the run has a bound start; its evidence is read
\* before the claim is matched, between which a single command per run binds none.
LeaseCheck(p) ==
  /\ pc[p] = "lease"
  /\ lease
  /\ todo' = [todo EXCEPT ![p] = Plan(op[p], run[p])]
  /\ Goto(p, IF op[p] = "release" /\ run[p] \in bound THEN "stop-gnb" ELSE "drive")
  /\ UNCHANGED <<gnb, files, env, op, run>>

\* stop_role_managed_gnb scales the Deployment down, marks and all, if it is there
\* and has the marks of this run.
StopGnb(p) ==
  /\ pc[p] = "stop-gnb"
  /\ deployed = run[p]
  /\ Goto(p, "drive")
  /\ UNCHANGED <<gnb, files, env, op, run, todo>>

-----------------------------------------------------------------------------
(* The plan of power transitions, one device after another.                *)

Next1(p) == Head(todo[p])
Finish1(p) == todo' = [todo EXCEPT ![p] = Tail(@)]

Look(p) ==
  /\ pc[p] = "drive" /\ todo[p] # << >>
  /\ Next1(p).look /\ Seen(Next1(p).dev) = Next1(p).to
  /\ Finish1(p)
  /\ UNCHANGED <<gnb, files, env, pc, op, run>>

\* The command reaches the device, or is lost without a trace.
After(d, to) ==
  IF to = "off" /\ d \in Slow /\ power[d] # "off" THEN "stopping" ELSE to

Mutate(p) ==
  /\ pc[p] = "drive" /\ todo[p] # << >>
  /\ Next1(p).look => Seen(Next1(p).dev) # Next1(p).to
  /\ \/ /\ power' = [power EXCEPT ![Next1(p).dev] =
                       After(Next1(p).dev, Next1(p).to)]
        /\ UNCHANGED faults
     \/ Fault /\ UNCHANGED power
  /\ Goto(p, "verify")
  /\ UNCHANGED <<gnb, files, lease, stale, op, run, todo>>

\* Mutant of Verify: the exit code of the command is believed.
VerifyExitCode(p) ==
  /\ pc[p] = "verify"
  /\ Finish1(p)
  /\ Goto(p, "drive")
  /\ UNCHANGED <<gnb, files, env, op, run>>

\* Only the observed state confirms a transition, never the exit code.
Verify(p) ==
  /\ pc[p] = "verify"
  /\ Seen(Next1(p).dev) = Next1(p).to
  /\ Finish1(p)
  /\ Goto(p, "drive")
  /\ UNCHANGED <<gnb, files, env, op, run>>

\* A qfit host on its way down is polled; anything else is looked at once.
StillStopping(p) == power[Next1(p).dev] = "stopping" /\ Next1(p).to = "off"

\* verify_physical_authority closes a reconciliation.
Authority(p) == OwnsClaim(p) /\ power[Radio[run[p]]] = "on"

Driven(p) == pc[p] = "drive" /\ todo[p] = << >>

Prepared(p) ==
  /\ Driven(p) /\ op[p] = "prepare"
  /\ manifest' = [manifest EXCEPT ![run[p]] = "held"]
  /\ Goto(p, "work")
  /\ UNCHANGED <<gnb, claim, dir, retired, env, op, run, todo>>

Reconciled(p) ==
  /\ Driven(p) /\ op[p] = "reconcile" /\ Authority(p)
  /\ Goto(p, "work")
  /\ UNCHANGED <<gnb, files, env, op, run, todo>>

-----------------------------------------------------------------------------
(* The end of a run.                                                       *)

\* The run's gNB is deployed under its marks and the start recorded; a resumed run
\* whose gNB is gone deploys it again.
StartGnb(p) ==
  /\ pc[p] = "work"
  /\ bound' = bound \cup {run[p]}
  /\ deployed' = run[p]
  /\ UNCHANGED <<files, env, pc, op, run, todo>>

\* The run is accepted, which takes a bound start: the same process releases ...
Cleanup(p) ==
  /\ pc[p] = "work"
  /\ run[p] \in bound
  /\ op' = [op EXCEPT ![p] = "release"]
  /\ Goto(p, "claim-match")
  /\ UNCHANGED <<gnb, files, env, run, todo>>

\* ... or ends with --keep-resources or an error and keeps them.
Leave(p) ==
  /\ pc[p] = "work"
  /\ End(p)
  /\ UNCHANGED <<gnb, files, power, lease, faults>>

PoweredOff(p) ==
  /\ Driven(p) /\ op[p] = "release"
  /\ Goto(p, "unlink")
  /\ UNCHANGED <<gnb, files, env, op, run, todo>>

\* The claim was matched when the release began; its name is unlinked now.
Unlink(p) ==
  /\ pc[p] = "unlink"
  /\ claim # NoClaim
  /\ claim' = NoClaim
  /\ Goto(p, "manifest")
  /\ UNCHANGED <<gnb, dir, manifest, retired, env, op, run, todo>>

WriteReleased(p) ==
  /\ pc[p] = "manifest"
  /\ manifest[run[p]] # "absent"
  /\ manifest' = [manifest EXCEPT ![run[p]] = "released"]
  /\ End(p)
  /\ UNCHANGED <<gnb, claim, dir, retired, power, lease, faults>>

\* Mutant of Gateway: a release never retires a claim.
GatewayWithoutRetirement(p) ==
  /\ pc[p] = "gateway"
  /\ dir[run[p]] = "topology"
  /\ Goto(p, "claim-match")
  /\ UNCHANGED <<gnb, files, env, op, run, todo>>

\* synthran release asks Faraday first: with a lease it releases, without one
\* it retires the claim and leaves the hardware alone.  A question that does not
\* get through, after the gateway has answered, says that there is no lease.
Gateway(p) ==
  /\ pc[p] = "gateway"
  /\ dir[run[p]] = "topology"
  /\ \/ /\ Goto(p, IF lease THEN "claim-match" ELSE "retire-read")
        /\ UNCHANGED faults
     \/ lease /\ Fault /\ Goto(p, "retire-read")
  /\ UNCHANGED <<gnb, files, power, lease, stale, op, run, todo>>

RetireRead(p) ==
  /\ pc[p] = "retire-read"
  /\ claim = Whole(run[p])
  /\ retired' = retired \cup {run[p]}
  /\ Goto(p, "retire-reread")
  /\ UNCHANGED <<gnb, claim, dir, manifest, env, op, run, todo>>

RetireReread(p) ==
  /\ pc[p] = "retire-reread"
  /\ claim = Whole(run[p])
  /\ Goto(p, "retire-unlink")
  /\ UNCHANGED <<gnb, files, env, op, run, todo>>

RetireUnlink(p) ==
  /\ pc[p] = "retire-unlink"
  /\ claim # NoClaim
  /\ claim' = NoClaim
  /\ End(p)
  /\ UNCHANGED <<gnb, dir, manifest, retired, power, lease, faults>>

-----------------------------------------------------------------------------
(* Refusals, crashes and the testbed.                                      *)

Refused(p) ==
  \/ pc[p] = "claim-match" /\ ~OwnsClaim(p)
  \/ pc[p] = "lease" /\ ~lease
  \/ pc[p] = "stop-gnb" /\ deployed # run[p]
  \/ /\ pc[p] = "verify" /\ Seen(Next1(p).dev) # Next1(p).to
     /\ ~StillStopping(p)
  \/ Driven(p) /\ op[p] = "reconcile" /\ ~Authority(p)
  \/ pc[p] \in {"unlink", "retire-unlink"} /\ claim = NoClaim
  \/ pc[p] = "manifest" /\ manifest[run[p]] = "absent"
  \/ pc[p] = "gateway" /\ dir[run[p]] # "topology"
  \/ pc[p] \in {"retire-read", "retire-reread"} /\ claim # Whole(run[p])

\* A check fails: the command ends with an error and undoes nothing.
Raise(p) ==
  /\ Refused(p)
  /\ End(p)
  /\ UNCHANGED <<gnb, files, power, lease, faults>>

\* The process dies, or a status answer, a poll or the transport gives up on
\* it; in either case nothing more is written.
Crash(p) ==
  /\ pc[p] # "idle"
  /\ Fault
  /\ End(p)
  /\ UNCHANGED <<gnb, files, power, lease>>

\* A qfit host that was told to stop is down at last.
PowerDown(d) ==
  /\ power[d] = "stopping"
  /\ power' = [power EXCEPT ![d] = "off"]
  /\ UNCHANGED <<gnb, files, lease, stale, faults, pc, op, run, todo>>

LeaseEnds ==
  /\ lease
  /\ Fault
  /\ lease' = FALSE
  /\ stale' = stale \cup { p \in Procs : pc[p] # "idle" }
  /\ UNCHANGED <<gnb, files, power, pc, op, run, todo>>

LeaseReturns ==
  /\ ~lease
  /\ lease' = TRUE
  /\ UNCHANGED <<gnb, files, power, stale, faults, pc, op, run, todo>>

\* While the slice holds no lease, somebody else switches the devices.
Tenant(d) ==
  /\ ~lease
  /\ \E s \in {"on", "off"} : power' = [power EXCEPT ![d] = s]
  /\ UNCHANGED <<gnb, files, lease, stale, faults, pc, op, run, todo>>

\* The cluster is replaced, the Deployment removed or marked by others, or the
\* locked commit that the marks name changes.
GnbLost ==
  /\ deployed # NoRun
  /\ Fault
  /\ deployed' = NoRun
  /\ UNCHANGED <<files, power, lease, stale, bound, pc, op, run, todo>>

-----------------------------------------------------------------------------
Step(p) ==
  \/ WriteTopology(p) \/ ClaimCheck(p) \/ ClaimCreate(p) \/ ClaimFill(p)
  \/ Undo(p) \/ ClaimMatch(p) \/ LeaseCheck(p) \/ StopGnb(p)
  \/ Look(p) \/ Mutate(p) \/ Verify(p) \/ Prepared(p) \/ Reconciled(p)
  \/ StartGnb(p) \/ Cleanup(p) \/ Leave(p) \/ PoweredOff(p) \/ Unlink(p)
  \/ WriteReleased(p)
  \/ Gateway(p) \/ RetireRead(p) \/ RetireReread(p) \/ RetireUnlink(p)
  \/ Raise(p)

Break(p) == TopologyFails(p) \/ ClaimFillFails(p) \/ Crash(p)

Testbed ==
  \/ \E d \in Devices : PowerDown(d) \/ Tenant(d)
  \/ LeaseEnds
  \/ LeaseReturns
  \/ GnbLost

Next ==
  \/ \E p \in Procs, r \in Runs : StartRun(p, r) \/ StartRelease(p, r)
  \/ \E p \in Procs : Step(p) \/ Break(p)
  \/ Testbed

Spec == Init /\ [][Next]_vars

\* A process that is not killed goes on, a host that was told to stop stops,
\* and the operator does not forget to release a run.
Fairness ==
  /\ \A p \in Procs : WF_vars(Step(p))
  /\ \A d \in Devices : WF_vars(PowerDown(d))
  /\ \A r \in Runs : SF_vars(\E p \in Procs : StartRelease(p, r))

FairSpec == Spec /\ Fairness

-----------------------------------------------------------------------------
(* Properties.                                                             *)

\* Every file, device and process is in one of the states the code knows.
TypeOK ==
  /\ claim \in Claims
  /\ dir \in [Runs -> {"absent", "bare", "topology"}]
  /\ manifest \in [Runs -> {"absent", "held", "released"}]
  /\ retired \subseteq Runs
  /\ power \in [Devices -> {"on", "stopping", "off"}]
  /\ lease \in BOOLEAN
  /\ stale \subseteq Procs
  /\ faults \in 0..MaxFaults
  /\ bound \subseteq Runs /\ deployed \in Runs \cup {NoRun}
  /\ pc \in [Procs -> Labels]
  /\ op \in [Procs -> {"prepare", "reconcile", "release"}]
  /\ run \in [Procs -> Runs \cup {NoRun}]
  /\ \A p \in Procs : pc[p] # "idle" => run[p] \in Runs
  /\ todo \in [Procs -> Seq(Move)]
  /\ \A p \in Procs : pc[p] = "verify" => todo[p] # << >>

\* While a command drives the hardware, works with it, or is about to remove
\* the claim, active.json is the complete claim of its own run; while it fills
\* the claim the file is the one it created.  The claim is checked once at the
\* start of a command (_require_claim) and never again, so this is what keeps
\* two runs from driving the same radio (resources.py, stale_claim.py).
Holding == {"lease", "stop-gnb", "drive", "verify", "work", "unlink",
            "retire-reread", "retire-unlink"}

HoldersOwnClaim ==
  \A p \in Procs :
    /\ pc[p] \in Holding => claim = Whole(run[p])
    /\ pc[p] = "claim-fill" => claim = Torn(run[p])

\* The complete claim of a run disappears only when the run was retired (its
\* claim archived first), or when its release saw the radio and the UE off -
\* unless the lease was lost under that release.
Proven(p) == p \in stale \/ \A d \in DeviceOf(run[p]) : power[d] = "off"

ClaimLeavesProperly ==
  [][ \A r \in Runs :
        claim = Whole(r) /\ claim' # Whole(r) =>
          \/ r \in retired
          \/ \E p \in Procs : pc[p] = "unlink" /\ run[p] = r /\ Proven(p) ]_vars

\* A run that is being worked with has its radio, and what powers its UE, on;
\* a host that a crashed release told to stop is the exception, and so is a
\* command whose lease was lost.
WorkHasHardware ==
  \A p \in Procs : pc[p] = "work" /\ p \notin stale =>
    \A d \in DeviceOf(run[p]) : d \in Slow \/ power[d] = "on"

\* A run that was released, or whose claim was retired, never holds the claim
\* again: its directory is kept, and reconcile needs the claim it lost.
ClaimIsNeverRegained ==
  [][ \A r \in Runs :
        (manifest[r] = "released" \/ r \in retired) /\ claim # Whole(r)
          => claim' # Whole(r) ]_vars

\* The claim is the register of ClaimRegister, also when commands overlap: the
\* exclusive creation of active.json and the run directory, which is made once,
\* are enough for that (_write_claim, prepare_physical_resources).
Claiming == {"topology", "claim-check", "claim-create", "claim-fill", "undo"}
Holders == { r \in Runs : claim = Whole(r) }
Spent ==
  { r \in Runs : /\ dir[r] # "absent" /\ claim # Whole(r)
                 /\ \A p \in Procs : pc[p] \in Claiming => run[p] # r }
Register == INSTANCE ClaimRegister WITH holders <- Holders, spent <- Spent
KeepsRegister == Register!Spec

\* A claim that was created and not filled, by a process that died in between,
\* is nobody's: no release, no retirement and no preparation gets past it.
Abandoned(r) == claim = Torn(r) /\ \A p \in Procs : pc[p] # "claim-fill"
AbandonedForGood == [][ \A r \in Runs : Abandoned(r) => Abandoned(r)' ]_vars

\* The lease is held, and the Deployment of a start that the run has bound is not
\* there or not the run's any more: stop_role_managed_gnb refuses.
Stuck(r) == lease /\ r \in bound /\ deployed # r

\* An operator who keeps asking gets rid of a complete claim, whatever the lease
\* does and wherever commands die; unless the run is stuck, and then for good
\* until the run is resumed or the lease ends (release_physical_resources,
\* stop_role_managed_gnb, retire_if_lease_absent).
ClaimIsReleased ==
  \A r \in Runs : []<>(claim # Whole(r)) \/ <>[]Stuck(r)

\* Without that exception: a claim does not outlive the releases of its operator.
ClaimAlwaysGoes == \A r \in Runs : []<>(claim # Whole(r))

\* "Retire a matching local claim only after explicit lease loss is proven"
\* (retire_if_lease_absent).
RetiresWithoutLease ==
  [][ \A p \in Procs : pc[p] = "gateway" /\ pc'[p] = "retire-read" => ~lease ]_vars

\* The module comment of stale_claim.py: losing the lease must not leave the
\* workspace permanently locked by an obsolete claim.
LeaseLossUnlocks == <>[]~lease => []<>(claim = NoClaim)

\* The comment over the second read in retire_stale_claim: a concurrent claim
\* replacement cannot be mistaken for the claim that was just archived.
RetirementTakesItsOwnClaim ==
  [][ \A p \in Procs :
        pc[p] = "retire-unlink" /\ pc'[p] = "idle" /\ claim' # claim
          => claim = Whole(run[p]) ]_vars
=============================================================================
