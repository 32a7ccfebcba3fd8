---------------------------- MODULE PhysicalRun -----------------------------
(***************************************************************************)
(* The lifecycle of physical runs: synthran.lifecycle._run_r2lab and       *)
(* cli._release, with the functions of synthran/r2lab they call and the    *)
(* shared cluster they act upon.                                           *)
(*                                                                         *)
(* One command runs at a time (PhysicalClaim has the interleavings); it    *)
(* may end in an error or be killed after every step, and any run may be   *)
(* started, resumed or released next.  What a command knows it reads from  *)
(* the files of its run, so only its place (pc) and the workload attempt   *)
(* it is executing are its own.                                            *)
(***************************************************************************)
EXTENDS Acceptance, FiniteSets

CONSTANTS
  Runs,         \* run identifiers
  MaxAttempts   \* workload attempts of a run (999 in the code)

ASSUME MaxAttemptsAssumption == MaxAttempts \in Nat \ {0}

Nobody == "nobody"
ASSUME NobodyAssumption == Nobody \notin Runs

VARIABLES
  \* files of a run
  dir,       \* runs that have a run directory
  ledger,    \* physical-run.json: acceptance; << >> without the file
  staged,    \* runs whose physical-run.json has the staged section
  started,   \* runs whose physical-run.json has the gnb_start section
  blame,     \* the attempt that the source of the workload item names
  result,    \* physical-workload-result.json
  retries,   \* number of workload-retries records
  attempts,  \* files of every attempt directory
  \* workspace and testbed
  claim,     \* holder of active.json
  power,     \* the radio and what powers the UE are on
  owner,     \* run label of the Open5GS namespace
  core,      \* Kubernetes, Open5GS and its networks are healthy
  gnb,       \* the Deployment srsran-gnb, and whether a log that verify_n2
             \* reads, of its pod or of the AMF, tells of an N2 association
  pdu,       \* the UE has a PDU session
  broker,    \* whose attempt holds the central MQTT port of the core node
  \* the command
  pc, cur, attempt, good, outcome

record  == <<ledger, staged, started, blame>>
trail   == <<result, retries, attempts>>
cluster == <<owner, core, gnb, pdu, broker>>
memory  == <<attempt, good, outcome>>
vars    == <<dir, ledger, staged, started, blame, result, retries, attempts,
             claim, power, owner, core, gnb, pdu, broker,
             pc, cur, attempt, good, outcome>>

Somebody == Runs \cup {Nobody}
AttemptIds == 1..MaxAttempts

\* An attempt directory that was never made, and the files that matter in one.
Missing == {"missing"}
Files   == {"logs", "experiment-evidence"}

NoResult == [attempt |-> 0, accepted |-> FALSE, clean |-> FALSE]
Results  == [attempt : 0..MaxAttempts, accepted : BOOLEAN, clean : BOOLEAN]

NoGnb == [present |-> FALSE, label |-> Nobody, annotation |-> Nobody,
          running |-> FALSE, heard |-> FALSE]
Gnbs  == [present : BOOLEAN, label : Somebody, annotation : Somebody,
          running : BOOLEAN, heard : BOOLEAN]
\* A Deployment from before runs were labelled.
LegacyGnb(on) == [NoGnb EXCEPT !.present = TRUE, !.running = on]

\* A broker whose Deployment is deleted holds the port until its pod is gone.
NoBroker == [run |-> Nobody, attempt |-> 0, ending |-> FALSE]
Brokers  == [run : Somebody, attempt : 0..MaxAttempts, ending : BOOLEAN]
BrokerOf(r, n) == [run |-> r, attempt |-> n, ending |-> FALSE]

Init ==
  /\ dir = {} /\ staged = {} /\ started = {}
  /\ ledger = [r \in Runs |-> << >>]
  /\ blame = [r \in Runs |-> 0]
  /\ result = [r \in Runs |-> NoResult]
  /\ retries = [r \in Runs |-> 0]
  /\ attempts = [r \in Runs |-> [n \in AttemptIds |-> Missing]]
  /\ claim = Nobody /\ power = FALSE
  /\ owner = Nobody /\ core \in BOOLEAN /\ pdu = FALSE
  /\ gnb \in {NoGnb, LegacyGnb(FALSE), LegacyGnb(TRUE)}
  /\ broker = NoBroker
  /\ pc = "idle" /\ cur = Nobody
  /\ attempt = 0 /\ good = FALSE /\ outcome = NoResult

-----------------------------------------------------------------------------
\* verify_physical_authority: the PDU of the radio is on, and the UE answers
\* SSH and has its modem (_wait_management with one attempt).
Authority(r) == claim = r /\ power

\* What an N2 association and a session of the UE are made of.
Serving == gnb.running /\ core /\ power

\* Mutant of N2Up: the log of the gNB is enough.
N2InLog(r) == gnb.running /\ gnb.heard

\* verify_n2: the namespace, the label and the annotation are those of this run,
\* its one pod is ready, and a log tells of an association - of now or before.
GnbBoundTo(r) == gnb.present /\ gnb.label = r /\ gnb.annotation = r
N2Up(r) == owner = r /\ GnbBoundTo(r) /\ gnb.running /\ gnb.heard

\* The check of the playbook before it deploys.
DeployAllowed(r) == ~gnb.present \/ GnbBoundTo(r)

Evidence == ledger[cur]
Write(ev) == ledger' = [ledger EXCEPT ![cur] = ev]

At(label)   == pc = label
Goto(label) == pc' = label

\* The command is over, for whatever reason.
End ==
  /\ pc' = "idle" /\ cur' = Nobody
  /\ attempt' = 0 /\ good' = FALSE /\ outcome' = NoResult

-----------------------------------------------------------------------------
(* Resources (resources.py; in full in PhysicalClaim).                     *)

Prepare(r) ==
  /\ At("idle") /\ r \notin dir /\ claim = Nobody
  /\ dir' = dir \cup {r}
  /\ claim' = r
  /\ power' = TRUE
  /\ cur' = r /\ Goto("handoff")
  /\ UNCHANGED <<record, trail, cluster, memory>>

\* The claim was written but the hardware did not come up.
PrepareFails(r) ==
  /\ At("idle") /\ r \notin dir /\ claim = Nobody
  /\ dir' = dir \cup {r}
  /\ claim' = r
  /\ UNCHANGED <<record, trail, power, cluster, pc, cur, memory>>

\* A resumed run re-proves the present behind its history when it has one and
\* was not accepted; the foundation is accepted when it never was.
Reconcile(r) ==
  /\ At("idle") /\ r \in dir /\ claim = r
  /\ power' = TRUE
  /\ cur' = r
  /\ Goto( IF ~Passed(ledger[r], "open5gs") THEN "handoff"
           ELSE IF Accepted(ledger[r]) THEN "stage" ELSE "resume-foundation" )
  /\ UNCHANGED <<dir, record, trail, claim, cluster, memory>>

-----------------------------------------------------------------------------
(* accept_topology_foundation.                                             *)

Legacy == owner = Nobody /\ gnb.label = Nobody

\* Besides the run itself one previous run may be the owner of what is there:
\* the present owner of the namespace, or the one the command line names.
MayTakeOver ==
  \E previous \in Runs : {owner, gnb.label} \subseteq {cur, previous, Nobody}

\* Mutant of Handoff: whatever gNB is there is scaled to zero.
HandoffByForce ==
  /\ At("handoff") /\ Authority(cur)
  /\ MayTakeOver
  /\ gnb' = [gnb EXCEPT !.running = FALSE]
  /\ Goto(IF gnb.present THEN "relabel-gnb" ELSE "relabel-namespace")
  /\ UNCHANGED <<dir, record, trail, claim, power, owner, core, pdu, broker,
                 cur, memory>>

Handoff ==
  /\ At("handoff") /\ Authority(cur)
  /\ MayTakeOver
  /\ gnb.running => Legacy
  /\ gnb' = [gnb EXCEPT !.running = FALSE]
  /\ LET changed == owner # cur \/ (gnb.present /\ gnb.label # cur)
     IN  Goto(IF ~changed THEN "core"
              ELSE IF gnb.present THEN "relabel-gnb" ELSE "relabel-namespace")
  /\ UNCHANGED <<dir, record, trail, claim, power, owner, core, pdu, broker,
                 cur, memory>>

\* kubectl label deployment/srsran-gnb; the annotation is left as it is.
RelabelGnb ==
  /\ At("relabel-gnb")
  /\ gnb' = [gnb EXCEPT !.label = cur]
  /\ Goto("relabel-namespace")
  /\ UNCHANGED <<dir, record, trail, claim, power, owner, core, pdu, broker,
                 cur, memory>>

RelabelNamespace ==
  /\ At("relabel-namespace")
  /\ owner' = cur
  /\ Goto("core")
  /\ UNCHANGED <<dir, record, trail, claim, power, core, gnb, pdu, broker,
                 cur, memory>>

\* Open5GS is reconciled when it is not ready; then four stages pass at once.
AcceptFoundation ==
  /\ At("core") /\ owner = cur
  /\ core' = TRUE
  /\ Evidence = << >>
  /\ Write(Passes(4))
  /\ Goto("stage")
  /\ UNCHANGED <<dir, staged, started, blame, trail, claim, power, owner, gnb,
                 pdu, broker, cur, memory>>

-----------------------------------------------------------------------------
(* stage_n3xx_gnb and start_n3xx_gnb.                                      *)

\* The payload says deployment_bound, but the Deployment is not looked at.
Stage ==
  /\ At("stage")
  /\ IF cur \in staged
       THEN UNCHANGED staged
       ELSE /\ NextStage(Evidence) = "gnb-n2" /\ owner = cur
            /\ ~gnb.running
            /\ staged' = staged \cup {cur}
  /\ Goto(IF cur \in started THEN "path" ELSE "deploy")
  /\ UNCHANGED <<dir, ledger, started, blame, trail, claim, power, cluster,
                 cur, memory>>

\* The playbook deploys through the upstream role, which labels ...
Deploy ==
  /\ At("deploy") /\ DeployAllowed(cur)
  /\ gnb' = [gnb EXCEPT !.present = TRUE, !.label = cur, !.running = TRUE]
  /\ Goto("annotate")
  /\ UNCHANGED <<dir, record, trail, claim, power, owner, core, pdu, broker,
                 cur, memory>>

\* ... and annotates the Deployment afterwards.
Annotate ==
  /\ At("annotate")
  /\ gnb' = [gnb EXCEPT !.annotation = cur]
  /\ Goto("poll-n2")
  /\ UNCHANGED <<dir, record, trail, claim, power, owner, core, pdu, broker,
                 cur, memory>>

\* Mutant of BindStart: the start is bound in a write of its own.
BindStartAlone ==
  /\ At("poll-n2") /\ N2Up(cur) /\ cur \notin started
  /\ started' = started \cup {cur}
  /\ Goto("poll-n2")
  /\ UNCHANGED <<dir, ledger, staged, blame, trail, claim, power, cluster, cur,
                 memory>>

\* N2 was seen often enough in a row.  A first start is recorded and passes
\* its stage in the same write; a restart of a resumed run records nothing.
BindStart ==
  /\ At("poll-n2") /\ N2Up(cur) /\ cur \notin started
  /\ claim # Nobody
  /\ started' = started \cup {cur}
  /\ CanRecord(Evidence, "gnb-n2")
  /\ Write(Record(Evidence, "gnb-n2", "passed"))
  /\ Goto("path")
  /\ UNCHANGED <<dir, staged, blame, trail, claim, power, cluster, cur, memory>>

RestartProven ==
  /\ At("poll-n2") /\ N2Up(cur) /\ cur \in started
  /\ Goto("resume-ue")
  /\ UNCHANGED <<dir, record, trail, claim, power, cluster, cur, memory>>

-----------------------------------------------------------------------------
(* continue_physical_path and activate_physical_ue.                        *)

UeStages == {"ue-management", "cell-acquisition", "registration", "pdu-session"}

\* From here on nothing is done for a stage that already passed.
Path ==
  /\ At("path")
  /\ LET next == NextStage(Evidence)
     IN  IF next \in UeStages
           THEN /\ Authority(cur) /\ N2Up(cur)
                /\ Write(PassIfNext(Evidence, "ue-management"))
                /\ Goto("connect")
           ELSE /\ Goto(IF next = "user-plane" THEN "probe" ELSE "workload")
                /\ UNCHANGED ledger
  /\ UNCHANGED <<dir, staged, started, blame, trail, claim, power, cluster,
                 cur, memory>>

\* A session that is already there is taken over, otherwise the UE connects.
Connect ==
  /\ At("connect")
  /\ pdu \/ (Authority(cur) /\ N2Up(cur) /\ Serving)
  /\ pdu' = TRUE
  /\ Write(PassIfNext(PassIfNext(PassIfNext(Evidence,
             "cell-acquisition"), "registration"), "pdu-session"))
  /\ Goto("probe")
  /\ UNCHANGED <<dir, staged, started, blame, trail, claim, power, owner, core,
                 gnb, broker, cur, memory>>

\* prove_user_plane; a probe that fails is recorded and ends the command.
Probe ==
  /\ At("probe") /\ N2Up(cur)
  /\ CanRecord(Evidence, "user-plane")
  /\ \/ /\ pdu
        /\ Write(Record(Evidence, "user-plane", "passed"))
        /\ Goto("workload")
        /\ UNCHANGED <<cur, memory>>
     \/ /\ Write(Record(Evidence, "user-plane", "failed"))
        /\ End
  /\ UNCHANGED <<dir, staged, started, blame, trail, claim, power, cluster>>

-----------------------------------------------------------------------------
(* reconcile_live_resume.                                                  *)

\* The present core is converged again; the namespace must be ours, or free.
ResumeFoundation ==
  /\ At("resume-foundation")
  /\ owner \in {Nobody, cur}
  /\ core' = TRUE
  /\ owner' = cur
  /\ Goto(IF Passed(Evidence, "gnb-n2") THEN "resume-n2" ELSE "reopen")
  /\ UNCHANGED <<dir, record, trail, claim, power, gnb, pdu, broker, cur, memory>>

\* A gNB that is up is left alone; otherwise the playbook deploys it again.
ResumeN2 ==
  /\ At("resume-n2")
  /\ \/ N2Up(cur) /\ Goto("resume-ue")
     \/ Goto("deploy")
  /\ UNCHANGED <<dir, record, trail, claim, power, cluster, cur, memory>>

ResumeUe ==
  /\ At("resume-ue")
  /\ IF Passed(Evidence, "user-plane")
       THEN N2Up(cur) /\ (pdu \/ Serving) /\ pdu' = TRUE
       ELSE UNCHANGED pdu
  /\ Goto("reopen")
  /\ UNCHANGED <<dir, record, trail, claim, power, owner, core, gnb, broker,
                 cur, memory>>

\* _require_early_failure_scope: the attempt left none of the later files.
RecoveryEligible(r) ==
  attempts[r][result[r].attempt] \cap (Files \cup Missing) = {}

\* recover_failed_workload reads the last result file.  An unclean attempt
\* that is eligible is cleaned up now.
MayReopen(r) ==
  /\ result[r] # NoResult /\ ~result[r].accepted
  /\ result[r].clean \/ RecoveryEligible(r)
  /\ retries[r] < MaxAttempts

ReopenRecord ==
  /\ At("reopen")
  /\ IF FailedStage(Evidence) = "workload"
       THEN /\ MayReopen(cur)
            /\ broker' = IF result[cur].clean THEN broker ELSE NoBroker
            /\ retries' = [retries EXCEPT ![cur] = @ + 1]
            /\ Goto("reopen-write")
       ELSE Goto("stage") /\ UNCHANGED <<broker, retries>>
  /\ UNCHANGED <<dir, record, result, attempts, claim, power, owner, core, gnb,
                 pdu, cur, memory>>

\* Mutant of ReopenWrite: the UE path is taken back with the workload.
ReopenWritePath ==
  /\ At("reopen-write")
  /\ Write(Passes(5))
  /\ blame' = [blame EXCEPT ![cur] = 0]
  /\ Goto("stage")
  /\ UNCHANGED <<dir, staged, started, trail, claim, power, cluster, cur, memory>>

ReopenWrite ==
  /\ At("reopen-write")
  /\ Write(WithoutLast(Evidence))
  /\ blame' = [blame EXCEPT ![cur] = 0]
  /\ Goto("stage")
  /\ UNCHANGED <<dir, staged, started, trail, claim, power, cluster, cur, memory>>

-----------------------------------------------------------------------------
(* run_physical_iot_workload, execute_physical_workload_handoff and        *)
(* execute_physical_iot_workload.                                          *)

\* next_workload_attempt_id: the first attempt needs an unused directory,
\* a later one the first unused number.
Unused(r) == { n \in AttemptIds : attempts[r][n] = Missing }

NextAttempt(r, n) ==
  /\ n \in Unused(r)
  /\ IF retries[r] = 0 THEN n = 1
     ELSE n > 1 /\ \A m \in Unused(r) : m = 1 \/ n <= m

SkipWorkload ==
  /\ At("workload") /\ NextStage(Evidence) # "workload"
  /\ Goto("acceptance")
  /\ UNCHANGED <<dir, record, trail, claim, power, cluster, cur, memory>>

\* Authority and N2 are proven again, then the attempt makes its directory.
BeginAttempt ==
  /\ At("workload") /\ NextStage(Evidence) = "workload"
  /\ Authority(cur) /\ N2Up(cur)
  /\ \E n \in AttemptIds :
       /\ NextAttempt(cur, n)
       /\ attempt' = n
       /\ attempts' = [attempts EXCEPT ![cur][n] = {}]
  /\ Goto("broker")
  /\ UNCHANGED <<dir, record, result, retries, claim, power, cluster, cur,
                 good, outcome>>

\* The port of the central broker must be free; then the broker is applied.
StartBroker ==
  /\ At("broker") /\ broker = NoBroker
  /\ broker' = BrokerOf(cur, attempt)
  /\ Goto("collect")
  /\ UNCHANGED <<dir, record, trail, claim, power, owner, core, gnb, pdu, cur,
                 memory>>

\* Any error up to here leads to the same cleanup.
FailEarly ==
  /\ pc \in {"broker", "collect"}
  /\ Goto("cleanup")
  /\ UNCHANGED <<dir, record, trail, claim, power, cluster, cur, memory>>

\* Telemetry is collected and reconciled; N2 is proven once more.
Collect ==
  /\ At("collect")
  /\ attempts' = [attempts EXCEPT ![cur][attempt] = @ \cup {"logs"}]
  /\ good' \in {FALSE, N2Up(cur) /\ pdu}
  /\ Goto("cleanup")
  /\ UNCHANGED <<dir, record, result, retries, claim, power, cluster, cur,
                 attempt, outcome>>

\* The objects of this attempt are deleted: its broker is gone, or it is going;
\* nobody else's broker is touched.
Deleted ==
  IF broker = BrokerOf(cur, attempt)
    THEN {NoBroker, [broker EXCEPT !.ending = TRUE]} ELSE {broker}

\* Mutant of Cleanup: the error of the deletion is not kept.
CleanupForgiving ==
  /\ At("cleanup")
  /\ broker' \in Deleted \cup {broker}
  /\ attempts' = [attempts EXCEPT ![cur][attempt] = @ \cup {"experiment-evidence"}]
  /\ \E clean \in {FALSE, N2Up(cur) /\ pdu} :
       outcome' = [attempt |-> attempt, accepted |-> good /\ clean, clean |-> clean]
  /\ Goto("judge")
  /\ UNCHANGED <<dir, record, result, retries, claim, power, owner, core, gnb,
                 pdu, cur, attempt, good>>

\* Cleanup is proven when the deletion succeeded, the probe of the port says it
\* is free - which a probe that SSH refuses says too, so that it is no guard -
\* and N2 and the route of the UE still hold.  The evidence file of the
\* experiment is written in every case.
Cleanup ==
  /\ At("cleanup")
  /\ \E deleted \in BOOLEAN, proven \in BOOLEAN :
       LET clean == deleted /\ proven /\ N2Up(cur) /\ pdu
       IN  /\ IF deleted THEN broker' \in Deleted ELSE broker' = broker
           /\ outcome' = [attempt |-> attempt, accepted |-> good /\ clean,
                          clean |-> clean]
  /\ attempts' = [attempts EXCEPT ![cur][attempt] = @ \cup {"experiment-evidence"}]
  /\ Goto("judge")
  /\ UNCHANGED <<dir, record, result, retries, claim, power, owner, core, gnb,
                 pdu, cur, attempt, good>>

\* The evidence is written first ...
Judge ==
  /\ At("judge")
  /\ CanRecord(Evidence, "workload")
  /\ Write(Record(Evidence, "workload",
                  IF outcome.accepted /\ outcome.clean THEN "passed" ELSE "failed"))
  /\ blame' = [blame EXCEPT ![cur] = attempt]
  /\ Goto("report")
  /\ UNCHANGED <<dir, staged, started, trail, claim, power, cluster, cur, memory>>

\* ... and the result of the attempt second.
Report ==
  /\ At("report")
  /\ result' = [result EXCEPT ![cur] = outcome]
  /\ Goto("acceptance")
  /\ UNCHANGED <<dir, record, retries, attempts, claim, power, cluster, cur, memory>>

-----------------------------------------------------------------------------
(* The end of a run, and synthran release.                                 *)

\* Resources are kept on request, and whenever the run was not accepted.
Keep ==
  /\ At("acceptance")
  /\ End
  /\ UNCHANGED <<dir, record, trail, claim, power, cluster>>

CleanUpRun ==
  /\ At("acceptance") /\ Accepted(Evidence)
  /\ Goto("stop")
  /\ UNCHANGED <<dir, record, trail, claim, power, cluster, cur, memory>>

\* Mutant of Release: the gNB is left to itself.
ReleaseHardwareOnly(r) ==
  /\ At("idle") /\ r \in dir /\ claim = r
  /\ cur' = r
  /\ Goto("power-off")
  /\ UNCHANGED <<dir, record, trail, claim, power, cluster, memory>>

\* cli._release stops the gNB only when its start was bound.
Release(r) ==
  /\ At("idle") /\ r \in dir /\ claim = r
  /\ cur' = r
  /\ Goto(IF r \in started THEN "stop" ELSE "power-off")
  /\ UNCHANGED <<dir, record, trail, claim, power, cluster, memory>>

\* stop_role_managed_gnb.
StopGnb ==
  /\ At("stop") /\ claim = cur
  /\ GnbBoundTo(cur)
  /\ gnb' = [gnb EXCEPT !.running = FALSE]
  /\ Goto("power-off")
  /\ UNCHANGED <<dir, record, trail, claim, power, owner, core, pdu, broker,
                 cur, memory>>

PowerOff ==
  /\ At("power-off") /\ claim = cur
  /\ power' = FALSE /\ pdu' = FALSE
  /\ claim' = Nobody
  /\ End
  /\ UNCHANGED <<dir, record, trail, owner, core, gnb, broker>>

\* Without a lease the claim is archived and nothing else is touched.  What the
\* next tenant does to the hardware does not matter here: every command starts
\* with the hardware of its run (PhysicalClaim).
Retire(r) ==
  /\ At("idle") /\ claim = r
  /\ claim' = Nobody
  /\ pdu' = FALSE
  /\ UNCHANGED <<dir, record, trail, power, owner, core, gnb, broker, pc, cur,
                 memory>>

-----------------------------------------------------------------------------
(* What happens around a command.                                          *)

\* What the step at hand may have done when it fails half-way: Open5GS is
\* reconciled and its namespace labelled again, the UE is connected, or
\* stopped after it did not connect, the broker is deleted, the radio or the
\* UE is off.
HalfDone ==
  \/ UNCHANGED <<power, cluster>>
  \/ /\ At("core")
     /\ core' = TRUE
     /\ UNCHANGED <<power, owner, gnb, pdu, broker>>
  \/ /\ At("resume-foundation") /\ owner \in {Nobody, cur}
     /\ core' = TRUE /\ owner' \in {owner, cur}
     /\ UNCHANGED <<power, gnb, pdu, broker>>
  \/ /\ pc \in {"connect", "resume-ue"} /\ N2Up(cur) /\ Serving
     /\ pdu' = TRUE
     /\ UNCHANGED <<power, owner, core, gnb, broker>>
  \/ /\ At("connect")
     /\ pdu' = FALSE
     /\ UNCHANGED <<power, owner, core, gnb, broker>>
  \/ /\ At("cleanup")
     /\ broker' \in Deleted
     /\ UNCHANGED <<power, owner, core, gnb, pdu>>
  \/ /\ At("power-off")
     /\ power' \in BOOLEAN /\ pdu' = FALSE
     /\ UNCHANGED <<owner, core, gnb, broker>>

\* A step is refused, fails, or the process is killed in it: the command ends
\* and writes nothing more.
Abort ==
  /\ ~At("idle")
  /\ HalfDone
  /\ End
  /\ UNCHANGED <<dir, record, trail, claim>>

\* The core breaks down, and with it the sessions it carries.
CoreBreaks ==
  /\ core
  /\ core' = FALSE /\ pdu' = FALSE
  /\ UNCHANGED <<dir, record, trail, claim, power, owner, gnb, broker, pc, cur,
                 memory>>

UeDrops ==
  /\ pdu
  /\ pdu' = FALSE
  /\ UNCHANGED <<dir, record, trail, claim, power, owner, core, gnb, broker,
                 pc, cur, memory>>

\* The gNB joins the core; its log and that of the AMF keep the line whatever
\* comes after (a line about a loss takes nothing back, n2.py).
Joins ==
  /\ Serving /\ ~gnb.heard
  /\ gnb' = [gnb EXCEPT !.heard = TRUE]
  /\ UNCHANGED <<dir, record, trail, claim, power, owner, core, pdu, broker,
                 pc, cur, memory>>

\* The pod of a deleted broker terminates.
BrokerEnds ==
  /\ broker.ending
  /\ broker' = NoBroker
  /\ UNCHANGED <<dir, record, trail, claim, power, owner, core, gnb, pdu,
                 pc, cur, memory>>

\* Between two commands the nodes are imaged again (a new SLICES experiment):
\* the next command finds an empty cluster.
ClusterReplaced ==
  /\ At("idle") /\ owner # Nobody
  /\ owner' = Nobody /\ core' = FALSE /\ gnb' = NoGnb /\ pdu' = FALSE
  /\ broker' = NoBroker
  /\ UNCHANGED <<dir, record, trail, claim, power, pc, cur, memory>>

-----------------------------------------------------------------------------
Network ==
  \/ Handoff \/ RelabelGnb \/ RelabelNamespace \/ AcceptFoundation
  \/ Stage \/ Deploy \/ Annotate \/ BindStart \/ RestartProven
  \/ Path \/ Connect \/ Probe

Resume == ResumeFoundation \/ ResumeN2 \/ ResumeUe \/ ReopenRecord \/ ReopenWrite

Workload ==
  \/ SkipWorkload \/ BeginAttempt \/ StartBroker \/ FailEarly \/ Collect
  \/ Cleanup \/ Judge \/ Report

Ending == Keep \/ CleanUpRun \/ StopGnb \/ PowerOff

Command(r) ==
  Prepare(r) \/ PrepareFails(r) \/ Reconcile(r) \/ Release(r) \/ Retire(r)

Next ==
  \/ \E r \in Runs : Command(r)
  \/ Network \/ Resume \/ Workload \/ Ending
  \/ Abort \/ CoreBreaks \/ UeDrops \/ Joins \/ BrokerEnds \/ ClusterReplaced

Spec == Init /\ [][Next]_vars

-----------------------------------------------------------------------------
(* Properties.                                                             *)

Labels == { "idle", "handoff", "relabel-gnb", "relabel-namespace", "core",
            "stage", "deploy", "annotate", "poll-n2", "path", "connect",
            "probe", "resume-foundation", "resume-n2", "resume-ue", "reopen",
            "reopen-write", "workload", "broker", "collect", "cleanup",
            "judge", "report", "acceptance", "stop", "power-off" }

\* Every file, the cluster and the command are in a state the code knows; in
\* particular every acceptance record is one its constructor accepts.
TypeOK ==
  /\ dir \subseteq Runs /\ staged \subseteq dir /\ started \subseteq staged
  /\ ledger \in [Runs -> Ledgers]
  /\ blame \in [Runs -> 0..MaxAttempts]
  /\ result \in [Runs -> Results]
  /\ retries \in [Runs -> 0..MaxAttempts]
  /\ attempts \in [Runs -> [AttemptIds -> (SUBSET Files) \cup {Missing}]]
  /\ claim \in Somebody /\ power \in BOOLEAN
  /\ owner \in Somebody /\ core \in BOOLEAN /\ pdu \in BOOLEAN
  /\ gnb \in Gnbs /\ broker \in Brokers
  /\ pc \in Labels
  /\ IF pc = "idle" THEN cur = Nobody ELSE cur \in Runs
  /\ attempt \in 0..MaxAttempts /\ good \in BOOLEAN /\ outcome \in Results

\* The records of all runs keep the promise of AcceptanceLedger, whatever is
\* resumed, retried or interrupted (acceptance.py, workload_retry.py).
Promise == INSTANCE AcceptanceLedger
KeepsPromise == Promise!Spec

\* The three sections of physical-run.json agree: the gNB is bound exactly
\* when its stage passed, and only to something that was staged
\* (PhysicalRunEvidence.bind_gnb_start; start_n3xx_gnb).
EvidenceIsBound ==
  \A r \in Runs :
    /\ r \in started <=> Passed(ledger[r], "gnb-n2")
    /\ r \in started => r \in staged
    /\ r \in staged => Passed(ledger[r], "open5gs")

\* A gNB that is up is relabelled by nobody, stopped only by its own run, and
\* keeps its namespace: a run that finds another one's gNB running gives up
\* (_handoff_namespace, the ownership check of the playbook).
NoTakeover ==
  [][ gnb.running /\ gnb.label # Nobody =>
        \/ gnb' = NoGnb          \* the cluster is gone
        \/ /\ gnb'.label = gnb.label /\ owner' \in {owner, gnb.label}
           /\ gnb'.running \/ cur = gnb.label ]_vars

\* While an attempt runs, its run holds the claim and everything it runs on
\* carries its name (the re-proof before the workload, workload_boundary.py).
WorkloadHasAuthority ==
  pc \in {"broker", "collect", "cleanup"} =>
    claim = cur /\ owner = cur /\ GnbBoundTo(cur) /\ gnb.running

\* A workload is accepted only when no Deployment, of any attempt of any run,
\* keeps the central broker - at most a pod that is terminating has the port -
\* and its own result is on file or being written
\* (execute_physical_iot_workload, its cleanup proof).
AcceptedIsClean ==
  [][ \A r \in Runs : ~Accepted(ledger[r]) /\ Accepted(ledger'[r]) =>
        /\ broker = NoBroker \/ broker.ending
        /\ outcome.clean /\ outcome.attempt = blame'[r] ]_vars

\* A run whose gNB start was bound keeps its claim until that gNB is stopped,
\* unless the lease is gone (cli._release, release_physical_resources).
StartedGnbIsStopped ==
  [][ \A r \in started :
        claim = r /\ claim' # r /\ pc = "power-off" => ~gnb.running ]_vars

\* Read as a register, active.json keeps the promise of ClaimRegister: one run
\* has the testbed at a time, and each run has it once (_write_claim).
Holders == {claim} \ {Nobody}
Spent == { r \in dir : claim # r }
Register == INSTANCE ClaimRegister WITH holders <- Holders, spent <- Spent
KeepsRegister == Register!Spec

\* A Deployment that carries the annotation of another run, or none, shuts a run
\* out: nothing that run does binds it, and its gNB start is never recorded,
\* until the cluster is imaged again (_handoff_namespace, which leaves
\* the annotation, and the ownership check of the playbook).
ShutOut(r) ==
  gnb.present /\ gnb.annotation # r /\ ~(pc = "annotate" /\ cur = r)
ShutOutForGood ==
  [][ \A r \in Runs : ShutOut(r) =>
        \/ gnb' = NoGnb
        \/ ShutOut(r)' /\ (r \in started' => r \in started) ]_vars

\* A first attempt that ended before it was judged leaves its directory, and no
\* command of the run gets past it: the workload stays the next stage for good
\* (next_workload_attempt_id).
Stranded(r) ==
  /\ NextStage(ledger[r]) = "workload"
  /\ retries[r] = 0 /\ attempts[r][1] # Missing
  /\ ~(cur = r /\ pc \in {"broker", "collect", "cleanup", "judge"})
StrandedForGood == [][ \A r \in Runs : Stranded(r) => Stranded(r)' ]_vars

\* The recovery of an unclean attempt never applies: the result it goes by is
\* written after the evidence file that excludes it, so a workload is reopened
\* on a proven cleanup or not at all (_require_early_failure_scope).
RecoveryIsDead ==
  /\ \A r \in Runs : result[r] # NoResult => ~RecoveryEligible(r)
  /\ pc = "reopen-write" => result[cur].clean

\* docs/r2lab-integration.md: with a current lease, cleanup releases a claim
\* only after exact off/clean state is proven - for every run.
ReleaseIsClean ==
  [][ \A r \in Runs :
        claim = r /\ claim' # r /\ pc = "power-off" =>
          ~(gnb.running /\ gnb.label = r) ]_vars

\* _cleanup_central_port: a workload is accepted only when the port of the
\* central broker was seen to be free.  A probe that SSH refuses says so too.
AcceptedPortIsFree ==
  [][ \A r \in Runs : ~Accepted(ledger[r]) /\ Accepted(ledger'[r]) =>
        broker = NoBroker ]_vars

\* n3xx.py: a start is bound on a stable proof of N2, twelve in a row.  Each of
\* them may be the same line of a log, of an association that is over.
StartIsAssociated ==
  [][ \A r \in Runs : r \notin started /\ r \in started' => Serving ]_vars

\* acceptance.py: staging evidence proves artifact-bound Deployment ownership.
\* Then the playbook, which refuses a Deployment that is not bound to the run,
\* lets a run that was staged start its gNB.
StagedRunMayDeploy ==
  pc = "deploy" => DeployAllowed(cur)

\* The docstring of recover_failed_workload: only a failure whose cleanup is
\* currently proven is reopened, so the result it goes by is that of the
\* attempt that failed.
ReopensTheFailedAttempt ==
  pc = "reopen-write" => result[cur].attempt = blame[cur]

\* The same docstring: an attempt that failed before proving cleanup, no later
\* than the central broker stage, is eligible for live recovery.
EarlyFailureIsEligible ==
  \A r \in Runs :
    result[r] # NoResult /\ ~result[r].clean
      /\ "logs" \notin attempts[r][result[r].attempt]
        => RecoveryEligible(r)
=============================================================================
