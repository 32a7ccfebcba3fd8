# SynthRAN: TLA+ specifications and proofs

SynthRAN runs reproducible 5G experiments from one command line. A *physical*
run (`synthran run --radio r2lab`) takes a radio and a UE of the R2Lab testbed,
brings up Open5GS and an srsRAN gNB on nodes of the SLICES testbed, connects the
UE, sends IoT telemetry through the 5G session, and judges every stage of that
in an ordered acceptance record. A *virtual* run (`--radio rfsim`) does the same
without radio hardware. There is no server: everything is done by short-lived
command-line processes that find out from files, and from the testbed, what
earlier processes did. That is what these modules are about: commands that
overlap, that die half-way, that are resumed, retried and released.

Paths below are relative to `src/synthran/` unless they start with `src/`.

## 1. Inventory

| Component | State it keeps | Operations | What makes it correct |
|---|---|---|---|
| Acceptance record (`r2lab/acceptance.py`) | `physical-run.json`: ordered stage outcomes, `staged`, `gnb_start` | record, pass, fail, bind staging, bind start | stages contiguous; nothing after a failure; start bound exactly when its stage passed |
| Workspace claim (`r2lab/resources.py`, `stale_claim.py`) | `active.json`, `r2lab-topology.json`, `manifest.json`, archived claims | prepare, reconcile, release, retire | one run drives a radio at a time; the claim leaves only after proven power-off, or without a lease |
| Power transitions (`r2lab/provider.py`) | none (the device has it) | command, observe, confirm | only the observation confirms |
| Release (`cli.py: _release`) | none | gateway query, retire or release | a claim can always be got rid of |
| Physical lifecycle (`lifecycle.py: _run_r2lab`) | none (files) | prepare or reconcile, resume, foundation, stage, start, path, workload, accept, clean up | history is not mistaken for the present |
| Foundation and ownership (`r2lab/foundation_topology.py`, `foundation_convergence.py`, `live_cluster.py`) | label of the Open5GS namespace; label and annotation of the Deployment `srsran-gnb` | handoff, relabel, reconcile, accept | a running gNB is never taken from another run |
| gNB (`r2lab/n3xx.py`, `upstream_roles.py`, `ue.py`, playbook `src/deploy/ansible/r2lab-srsran-gnb.yml`) | the Deployment | stage, deploy, annotate, prove N2, stop | start bound to the gNB that was proven; stopped before the claim goes |
| UE (`r2lab/ue_activation.py`, `lifecycle.py`, `ue_ansible.py`) | PDU session | connect, observe, stop, probe | the session stages pass together, on an observation |
| Live resume (`r2lab/reconciliation.py`) | `live-resume.json` | re-prove foundation, N2, UE; reopen the workload | see lifecycle |
| Workload boundary and retry (`r2lab/workload_boundary.py`, `workload_retry.py`, `iot_lifecycle.py`) | result file, `workload-retries/`, attempt directories | run attempt, judge, reopen, number attempts | only a failed workload is taken back |
| IoT workload (`r2lab/iot_workload.py`, `iot_transport.py`) | broker on the core node, port, logs, experiment evidence | check ports, start broker, collect, clean up | accepted only when cleaned up |
| IoT pipeline (`iot_source.py`, `iot_publisher.py`, `iot_edge_transport.py`, `r2lab/iot_transport.py`, `experiment/r2lab.py`, `ingress.py`, `iot_collector.py`) | MQTT clients and replay thread; SSH processes here and listeners on the node; canaries and records; `iot-evidence.json`, written by two parties | connect, send canaries, wait at the gate, replay, persist; start, roll back, stop, reap and certify a chain of forwards; count, reconcile | nothing is sent early; acceptance rests on every reading; evidence is not written over; a certified transport has left nothing |
| RFSIM lifecycle (`lifecycle.py: _run_rfsim`, `network/`, `live_preflight.py`) | `authority.env`, `live-preflight.json`, the network manifest and evidence; labels of the namespace `open5gs` | prepare, verify authority, deploy, verify session | one deployment per run; a status stands on its evidence |
| RFSIM experiment (`amber_experiment_runtime.py`, `experiment/`) | experiment manifest and evidence; objects, edge broker and port-forward on the nodes | plan, apply, patch, forward, collect, clean up, judge | judged once, on a proven network; accepted only when cleaned up |
| Campaigns (`research/`) | run directories with IoT evidence and summary; result, session evidence, analysis; pinned pod and PDU, flags of what to restore (memory only); route, server, client, sampler, probe on the nodes | enter, run the schedule, measure, judge, record, restore; calibrate; analyse | runs that are compared were measured alike and whole; the network is put back |
| Streaming and events (`ansible_streaming.py`, `run_events.py`) | pipe, queue, output, current task, deferred failures | read, announce, heartbeat, defer, take back, time out, kill | terminates; reports what ran and what stands; loses no line |
| Managed dependencies (`dependencies.py`, `fiveg_ansible.py`, worktrees in `r2lab/upstream_roles.py` and `network/runtime.py`) | the lock file; a git checkout below `.deps`, with HEAD, files, `index.lock`; a worktree for each run | sync (clone, fetch, check out); validate; make a worktree, read it, remove it | what a run reads is the commit it names |
| Network sampler (`research/sampling.py`) | thread, next deadline, count, stop event, error | start, sample, check, stop, judge the cadence | a cadence that is kept is time covered |
| Controller, privacy, inventories | files | check, render, redact | pure input and output |

How they interact: `cli.py` dispatches to `lifecycle.py` or to `_release`; the
lifecycle calls the functions of `r2lab/` one after the other and passes state
between them **through `physical-run.json`**, which each of them reads, extends
and writes. `resources.py` owns the claim; everything that touches hardware or
cluster calls `verify_physical_authority` or compares `active.json` with its run
at its start, and relies on that comparison until it ends. Cluster state is read
with `kubectl` over SSH and changed by Ansible playbooks that run for minutes.

What is hard: overlapping processes on one claim file; a process killed
between any two writes; a lease that ends while hardware is driven; commands to
devices that are lost, or act later than they answer; a record of passed stages
that says nothing about the present; several files written one after the other
that are read together; ownership carried by three independent marks
(namespace label, Deployment label, Deployment annotation); inside one command a
replay thread, MQTT callbacks, a sampler thread and a pipe reader; processes on
other nodes that come up after, and outlive, the SSH process that started them;
an SSH failure that looks like the answer "no". `PROJECT.json` lists
every such hazard with its line and the property that covers it.

## 2. Modules

| Module | Models | Lines up with |
|---|---|---|
| `Acceptance` | the acceptance record as operators | `r2lab/acceptance.py` |
| `AcceptanceLedger` | what the records of all runs promise (abstract specification) | the contract of `acceptance.py` and `workload_retry.py` |
| `ClaimRegister` | what the claim on the testbed promises (abstract specification) | the contract of `active.json` |
| `PhysicalClaim` | processes that prepare, reconcile, release and retire, step by step; refines `ClaimRegister` | `r2lab/resources.py`, `stale_claim.py`, `provider.py`, `cli._release` |
| `PhysicalRun` | the whole life of physical runs on one cluster; extends `Acceptance`, refines `AcceptanceLedger` and `ClaimRegister` | `lifecycle._run_r2lab` and the functions of `r2lab/` it calls |
| `VirtualHistory` | what the files of virtual runs promise (abstract specification) | the statuses in the manifests and `load_path_proven_network` |
| `RfsimRun` | processes that execute virtual runs on one pair of nodes, step by step; refines `VirtualHistory` | `lifecycle._run_rfsim` and everything it calls |
| `AnsibleStream` | one call of the playbook runner: playbook, pipe, reader thread, queue, main loop | `ansible_streaming.py` |
| `IotTransport` | the chain of SSH hops of either backend, with what runs at its far end | `iot_edge_transport.py`, `r2lab/iot_transport.py`, the relay of `experiment/r2lab.py`, `ingress.py` |
| `IotDelivery` | what an accepted workload says of its readings (abstract specification) | `reconcile_source_and_transport`, `docs/experiment.md` |
| `IotRun` | publisher, collector and the command over `IotTransport`; refines `IotDelivery` | `iot_publisher.py`, `iot_collector.py`, `iot_source.py`, the telemetry part of `amber_experiment_runtime.py` and `r2lab/iot_workload.py` |
| `Measurement` | instruments of one research run, and the calibration beside it | `research/amber_runtime.py`, `instrumentation.py`, `iperf.py`, `sampling.py`, `calibrate_capacity` |
| `CampaignSchedule` | what the summaries of a campaign say together (abstract specification) | the loop of `execute_amber_campaign`, the filter of `analyze_amber_campaign` |
| `Campaign` | the schedule, the session, the files; extends `Measurement`, refines `CampaignSchedule` | `research/amber_campaign.py`, `campaign_runtime.py`, `amber_runtime.py` |
| `NetworkSampler` | the sampler's thread, its grid of deadlines, and the command that watches, stops and judges it | `research/sampling.py`, `research/amber_runtime.py` |
| `Dependencies` | one managed checkout with the syncs that change it and the runs that use it | `dependencies.py`, `fiveg_ansible.py`, `r2lab/upstream_roles.py`, `iot_source.py` |
| `MCPhysicalClaim`, `MCPhysicalRun`, `MCRfsimRun`, `MCAnsibleStream`, `MCIotRun`, `MCCampaign`, `MCNetworkSampler`, `MCDependencies` | the instances TLC checks | |
| `*_proofs` | theorems about the module they extend | |

`PhysicalRun` and `RfsimRun` take the telemetry of a workload as one outcome and
every playbook as one step; `IotRun` and `AnsibleStream` are what is inside
these. `Campaign` in turn takes `IotRun` as one outcome, between `Measured` and
`CleanUp`, and has the instruments around it, of which `NetworkSampler` opens
one: what is `up` or dead there is the thread here. `Dependencies` lies beside
all of them: it is where the playbooks that they run come from.

The two physical modules look at the same system at two grains. `PhysicalClaim`
has every file operation and every device command as a step of one of several
processes and reduces the experiment to the label `work`. `PhysicalRun` has one
command at a time and reduces claim and hardware to `claim` and `power`, whose
steps (`Prepare`, `Reconcile`, `PowerOff`, `Retire`) are what `PhysicalClaim`
shows of them: a claim that is held excludes the other run, and work starts with
the hardware on. That both take the claim for the same thing is what their
common abstract specification, `ClaimRegister`, is for. `PhysicalRun` has in
exchange the record, the cluster, the attempts and the way a command is
interrupted at every place.

### PhysicalClaim

`claim` is `active.json` (absent, created but not filled, complete); `dir` the
run directory with or without its topology file; `manifest` and `retired` the
other files; `power` the devices, where `stopping` is a qfit host on its way
down, which still answers "on". A process runs one command; `pc` is its place
and `todo` what is left of its plan of power transitions. `ClaimCheck`,
`ClaimCreate` and `ClaimFill` are the three steps of `_write_claim`;
`RetireRead`, `RetireReread`, `RetireUnlink` those of `retire_stale_claim`;
`Look`, `Mutate`, `Verify` a verified transition. `Crash` ends a process at any
place and writes nothing. `LeaseEnds` puts the processes at work into `stale`:
from then on somebody else may switch their devices (`Tenant`), and properties
about hardware except them.

`bound` are the runs whose `physical-run.json` has a gNB start, `deployed` is the
run whose marks the Deployment has; `StartGnb` sets both while the run is worked
with, and `GnbLost` takes the Deployment away. A release of a run with a bound
start is handed `stop_gnb`, and `StopGnb` is its step between the lease check and the
first power command: it goes on only with a Deployment that has the run's marks,
and otherwise the release fails with the claim in place. The order of `stop_gnb` and of a running
gNB is `PhysicalRun`'s. `Gateway` is the two questions of `retire_if_lease_absent`: the
gateway must answer, and any exit status but 0 of the second question is taken for the
loss of the lease, one of SSH too, so that a fault may retire a claim with a lease.

`SerialUse` states an assumption about the operator: one command per run at a
time. Nothing in the code enforces it; `claim_retire_race` shows what it is for.

### PhysicalRun

Variables are grouped as files of a run, the shared testbed, and the command at
hand (`pc`, `cur`, `attempt`, `good`, `outcome`). The command reads everything
else from the files, as the code does: `Evidence` is what `read_json` returns.
`Abort` ends a command at any place, and `HalfDone` says what the step it was in
may have done by then. `CoreBreaks`, `UeDrops` and `ClusterReplaced` are the
testbed moving between and under commands.

`gnb.heard` says that a log which `verify_n2` reads tells of an N2 association. The
proof of N2 (`N2Up`) asks for the marks, a running gNB and that line; the line stays
when core or radio go. Whether there is an association is `Serving`. `Authority`, in
contrast, is about the present: `verify_physical_authority` looks at the power of the
radio and then asks the UE for SSH and its modem, hence `power`. `broker.ending`
says that the broker's Deployment is deleted while its pod still has the port.

A few facts about the code that the model has and a reader may not expect:

- A proof of N2 may be the line of an association that is over, twelve times in a
  row: a start may be bound on it (`StartIsAssociated`, refuted).
- The probe of the broker's port that ends the cleanup takes a failing SSH for a
  free port. It is no guard of `Cleanup`: what the acceptance does rest on is
  the deletion, N2 and the route of the UE.
- Only a user-plane and a workload failure are ever recorded; everything else
  raises and leaves the record as it was. A failed user plane is never taken
  back: such a run can only be released.
- After a failed stage there is no next stage, so a resumed command falls
  through to the acceptance check, which raises. It has then reported the
  workload as resumed (`lifecycle.py:593-595`), but nothing is cleaned up.
- A first attempt that crashed before its verdict leaves a directory and no
  retry record; `next_workload_attempt_id` refuses the run from then on.
- A Deployment that was deployed and not yet annotated is refused by the
  playbook, also for the run it belongs to.

### RfsimRun

A virtual run has no claim and no lock. A process that executes `synthran run
--radio rfsim` finds its place by looking which files exist, and the only
exclusion is that of two `mkdir` calls. So the module has any number of processes
for any number of runs of one operator, all on one pair of nodes, and every file
operation and every change of the cluster is a step of its own; `Die` ends a
process at any place.

| Variable | In the code |
|---|---|
| `prep`, `lease`, `seat` | `preparations/<run>` (exists, has host keys), reservation and allocation in its `authority.env` |
| `flight` | `live-preflight.json` is ready and younger than `DEFAULT_EVIDENCE_MAX_AGE` |
| `man`, `evd` | `runs/<run>/manifest.json` (`bare`: the directory without it; `deployed` is `deployed-unverified`, `proven` is `path-proven`) and `network-evidence.json` |
| `exp`, `verdict` | `experiments/<run>/manifest.json` (`open`: any status before the last) and `experiment-evidence.json` |
| `kube`, `space`, `core`, `ue` | the cluster is prepared; the namespace exists; run labels of UPF and gNB (one variable, always set together) and of the srsUE |
| `sidecar`, `objs`, `ports` | whose edge broker is patched into the srsUE, whose objects exist, whose forward holds the central MQTT port |
| `seen`, `named`, `good` | what a process holds in its hands: the result of its last observation; `ue_deployment`; `run_accepted` with no cleanup error |

Observations are separate from the writes that record them (`Probe` and
`SavePreflight`, `Verify` and `SaveEvidence`), so that the world may change in
between. An observation may fail although what it looks for is there; it never
succeeds when it is not (`NetworkOf`, `MayDeploy`). Whether cell, tunnel and routes are up
is left open in this way. `_cleanup_live_resources` is `Unforward`, `Unpatch` or
`SkipUnpatch`, `Delete`, `Reverify`, each of which may note an error and goes on, then
`Judge` and `Report` write the two files. `Lapse` ends the reservation, and
gives the nodes to another tenant or leaves them as they are.

Facts about the code that the model has and a reader may not expect:

- A deployment that failed, or died after its directory was made, is final: no
  later command of that run gets past it. Nothing cleans up after it either.
- Once a deployment manifest exists nobody asks for reservation and
  allocation again. `Asked` uses this: the model does not follow the authority of a
  run any further.
- A workload that was refused or judged rejected is final too, and a command that
  was killed while its forward was up keeps the port, so that every later
  workload on this controller refuses until the forward is gone.
- Two processes may verify one session at the same time, and the later evidence
  replaces the earlier, ready or not. The manifest stays `path-proven`. This is why
  `StatusIsBacked` says that evidence exists and not that it is ready.

### AnsibleStream

A line is known by its position in `written`; `moved` and `taken` count how far
the reader thread and the main loop are, so that queue and pipe need no copies.
A kind of line is all the loop tells apart: a header of a visible or another task,
of a handler or a play, a status, `...ignoring`, other text. Reports are kept as
sets of header and failure positions. `holder` is a process that the playbook
leaves behind with the pipe open. `Kill` ends the playbook alone, as
`_kill_process_tree` does in spite of its name, and `MayClose` is what CPython
does when a file is closed while another thread reads it: it waits.

The reader ends on the end of the file, which is before the end of a playbook that
has closed its output (`child = "silent"`, `ReadEnd`), or on an exception such as a
line that is not UTF-8 (`ReadFails`, remembered in `broken`). It then puts its
`None` and closes the file, and the main loop goes to `process.wait()` (`Wait`), which
looks at no deadline. Failures are told one after the other (`Tell`), so that a call
may break off between them.

### IotTransport and IotRun

A hop has a near part (the SSH process here) and a far part (`far`: none,
coming, up), which comes up later and may end, or outlive the near one. `foreign`
is somebody else on one of its ports. Probes see a listener, not whose it is, and
see nothing while `link` is down. `Recorded` are the ports whose listener was
written down as the run's when the hop was ready, `Reap` kills what was written
down. `misread` is a history variable: the ports of which an answer was taken for
what it was not, because somebody else answered for the hop, or because the probe of the final look
failed and counted as closed. `IotRun` adds the publisher with its thread (`worker`), the readings under
way (`flight`), the canaries (`wave`), the collector, the command (`pc`) and the
evidence file, of which `memo` is the copy the thread has read. Its finally
block is one action per call: cancel, join, persist, stop the collector, the
three parts of `transport.stop()`, judge.

### Measurement and Campaign

`epoch` names the pods of UE and gNB with the PDU session, `ue` the epoch in which
the UE's pod began. A patch that changes the Deployment, `Drift` and the restoration
replace the UE's pod, and what was in it is gone; `GnbDrift` replaces the gNB's and
leaves the UE's. Only the session compares the whole epoch, in `Reconcile`; the proofs of a run compare the UE's pod
and the PDU address (`SameUe`), and an address may be given out again. `Reset` begins an epoch without a new pod: it is the reset of the radio
in `reconcile_rfsim_runtime`, which a session calls before it has pinned anything
and a calibration always calls: it starts the radio anew whoever is using it, and
kills the `python3` in the UE's container, which is the probe. `up` are the instruments that exist, `held` those the lifecycle
knows it has to take down; the two differ after failed starts, deaths and kills.
`gap` and `epochs` are history variables that no action reads. A command of the
campaign may be killed at any place and given again; `patchRequested`,
`objectsRequested` and `observed` are then lost, as in the code.

Facts about the code that the models have and a reader may not expect:

- A summary that does not fit the schedule is found outside the `try` block
  (`Mismatch`): the command ends and the result does not tell of the run.
- A campaign that is given again stops at its first run, whose directory exists.
  It then overwrites result and evidence (`aborted`, nothing completed), and puts
  back nothing that the killed command had patched: it does not know of it. Its
  `cleanup_valid` is true all the same.
- The sidecar patch of the first run replaces the UE's pod, so that a capacity
  calibrated before a campaign belongs to a pod that no run of it is measured in.
- Objects with the label of one run, left by a failed cleanup of that run, are not
  deleted by the session's restoration.
- Errors of the instruments' stop never reach the cleanup section of the IoT
  evidence; only the summary knows of them.
- A `start()` of the RFSIM transport that fails rolls back and drops the errors of
  the rollback; the session is `None` and nothing is certified for it.
- A client or a probe inside the pod may run on for a while after its SSH process.

### NetworkSampler

Time is counted in ticks from `start()`. `deadline` is `_next_deadline`, `begun`
the start of the sample in progress; a sample ends, and a thread wakes, at any
time after it may. `main` is the place of the command: before the window, in it
(`opened`), after it (`closed`), in `stop()`. `covered`, `inside` and `prompt` are
history variables. `Missed` is `_verify_cadence` in whole numbers. The condition
`elapsed < minimum_window` and the ratio are those of the code; the floor of five
seconds in `max(5.0, ...)` is part of the constant `MinWindow`.

### Dependencies

`dir`, `head`, `tree` and `indexLock` are the checkout: whether it is there, its
HEAD, the commit its files are of (`mixed` while git switches them), and git's own
lock. A sync is the chain of its git commands; `Kill` ends it in any of them,
with or without the git process it has started. `Isolated` runs make a worktree of
the commit they have validated (foundation, gNB, RFSIM deployment); `Direct` runs
read the checkout itself after validating it once (the planner of Amber, the
copy of a UE role). What git leaves behind is modelled from its own behaviour: a
clone with `--no-checkout` has every file of HEAD as deleted in `git status`.

## 3. Runs

Nine passing runs, with the instance in their `.cfg`:

**`claim_safety`** (`MCPhysicalClaim`, 1.86 million states). Two processes, two
runs that share one radio, a qfit UE (two rails, asynchronous power-off) and a
qhat UE (one plug), at most two faults (crash, lost command, failed write, end
of the lease, a lease check that does not get through, a lost Deployment). Two processes are enough for every race here, since each of the
three races is between one holder and one intruder; two faults allow a crash and
a lease loss, or two crashed releases of one run. The theorems below have no such bound.
`HoldersOwnClaim`: whoever drives hardware or is about to unlink owns the whole
claim. `ClaimLeavesProperly`: the claim goes with everything off or with an
archived claim. `WorkHasHardware`: work starts and goes on with radio and plugs
on; a qfit host is excepted, because a host told to stop by a crashed release
still answers "on" to the reconciliation, and so is a command under which the lease
ended. `KeepsRegister` refines
`ClaimRegister`: one run holds the claim at a time, each once, also after crashes
between its files. The processes are interchangeable (symmetry).

**`claim_liveness`** (`FairSpec`, no symmetry, one fault, 720 thousand states).
`ClaimIsReleased`: a complete claim leaves the workspace, unless its run is `Stuck`
for good: the lease is held, a gNB start is bound, and the Deployment is gone or has other
marks, which `stop_gnb` refuses. A run that is stuck now and then is no excuse; and a
lease that ends lets the claim be retired. That there is such a place at all is
`ClaimAlwaysGoes`, refuted below.

**`run_lifecycle`** (`MCPhysicalRun`, 1.64 million states). Two runs on one
cluster, two workload attempts each. Two runs are what an ownership conflict
needs; two attempts are what a retry needs. `KeepsPromise` is the refinement of
`AcceptanceLedger`; `EvidenceIsBound` relates the three sections of the record;
`WorkloadHasAuthority` relates a running attempt to claim, namespace, label,
annotation and gNB; `NoTakeover`, `StartedGnbIsStopped` and `AcceptedIsClean`
say what a step may never do. `AcceptedIsClean` says that an accepted workload leaves no
broker but a pod that is terminating. Runs are interchangeable (symmetry). Deadlock is
not checked: when both run identifiers are spent nothing is left to do.

**`rfsim_lifecycle`** (`MCRfsimRun`, 1.1 million states). Two processes, and either
one run from its first command on, or two runs that are prepared on the same nodes
under one reservation when the behaviour begins (`Prepared`, a state the
preparations of two runs lead to). Two processes are enough for the races over
one directory, two prepared runs for runs that deploy over each other, patch
the same srsUE and wait for the same port. Both runs from their first command on
have many times the states, nearly all of which differ in how the preparations
interleave (`OneOrPrepared` leaves them out). Where two runs are prepared, the
reservation ends only with the nodes going to another tenant (`NodesAreTaken`);
that it ends and nobody comes is covered where there is one run. The theorems
need neither bound.
`OneWorker`: the two `mkdir` calls let one process deploy or measure.
`StatusIsBacked`: the manifests of network and experiment agree with the evidence,
at every place where a process may die between two writes. `KeepsHistory` is
the refinement of `VirtualHistory`. `AcceptedIsClean`: who accepts a workload has
left nothing of it. Deadlock is checked: a process can always be started. Processes
and runs are interchangeable (symmetry).

**`stream`** (`MCAnsibleStream`, `FairSpec`, 2.9 million states). One call with up to
three lines of any kind: a header with two statuses, a failure with what takes it
back and something after it, or two headers and one status. `AnnouncedRan`,
`FailuresStand`: what is reported, also by a call that breaks off while it reports.
`OutputIsRead`: a call that timed out has no playbook behind it, and one that has stopped to read has nothing
in the pipe and waits at most for a playbook that has closed its output; a reader that failed is
excepted. `CallEnds`: as long as the call reads it keeps its deadline, so that it ends,
breaks off, or is `Stuck` in one of two places for good: in `process.wait()` behind a reader that ended
before the playbook, or in the `close` of a file in which the reader waits for a
process the playbook has left behind. That there are such places is `CallIsOver`, refuted below. A call that broke off (`raise`) may wait for a reader that a
still running playbook blocks, which is why it is excepted. Deadlock is not
checked: a call ends.

**`iot_run`** (`MCIotRun`, `FairSpec`, 2.65 million states). Two readings and two
sensors, either backend, with and without a research gate, one outage of the link to
the nodes and nobody else on the ports. One reading may be lost, or early, while the other is not;
one sensor silent while the other is not. `KeepsDelivery` refines
`IotDelivery`. `NoEarlyTelemetry` relates thread, canaries and gate.
`ReadyEvidenceStays` relates the file to the thread that also writes it.
`CertifiedIsClean` relates the cleanup proof to the node: outside of the ports in
`misread`, nothing is left of a certified transport, and nothing comes up later. An outage is where this
could go wrong, since every probe, kill and forward fails in it; a hop rolled back, or a
listener not reaped, must be noticed by the final look or be one it misreads. `RunEnds`: the command
judges and the thread ends, in every failure. Deadlock is not checked: a
workload ends.

**`campaign`** (`MCCampaign`, 4.5 million states). Three runs (a baseline and two with
a load: the first pins the epoch, the second and third have one before them), two
drifts, two kills, one calibration between commands. `AnalysedShareEpoch`
relates the epochs of all runs that are analysed. `ValidIsMeasured`: a summary
that counts belongs to a window in which nothing was missing, and leaves no server
or sampler to the next run. `CompleteIsComplete`: what the evidence of the session
says of the files. `OverForGood`: a command that is given again adds no run to those
of the command before, judges none and takes nothing away. `KeepsSchedule` is the
refinement of `CampaignSchedule`: over all executions together, runs are judged
in the order of the schedule, each once, none after one that was not valid.

**`sampler`** (`MCNetworkSampler`, 3.1 million states). Eight intervals of two
ticks, so that samples end on and between points of the grid, and a cadence is
judged from the fifth on. `KeptIsCovered` relates the samples counted to the
intervals they were begun in, `PromptIsKept` the judgement to the pace of every
sample.
Deadlock is not checked: the command ends.

**`deps_sync`** (`MCDependencies`, 268 thousand states). Two commits, one of which
is the tip of the branch, a lock file that changes twice, an edit, two kills; one
run with a worktree and one without. Two commits are what a run and a sync can
disagree about. `ReadsItsCommit` has two parts: `WorktreeIsLocked` holds whatever is
done to the checkout; `CheckoutIsLocked` relates what a run without a worktree reads
to syncs that go on beside it while the lock file stays. Deadlock is not checked: runs end.

Three runs find the violation of something the repository says; `PROJECT.json`
quotes it under `findings`:

| Run | What the code does |
|---|---|
| `claim_retire_race` | two overlapping releases of one run: the second unlinks the claim of a new run |
| `run_reopen_stale` | a retry trusts the cleanup proof of an earlier attempt |
| `rfsim_closed_ready` | after a failed verification the next command closes the network stage on its evidence |

Further properties that the repository states and the code does not keep are in the
modules, without a run of their own. Each is refuted by the configuration of the
run named, with its properties replaced by this one and the constants given:

| Property | Configuration | What the code does |
|---|---|---|
| `PhysicalClaim!LeaseLossUnlocks` | `claim_liveness`, `MaxFaults = 2` | a crash while `active.json` is written locks the workspace for good, also after the lease is lost (`r2lab/stale_claim.py:3-5`) |
| `PhysicalClaim!HoldersOwnClaim`, `ClaimLeavesProperly` | `claim_safety`, `SerialUse = FALSE` | a release takes the claim from under another command of its own run: the claim is compared once (`r2lab/resources.py:732`) and unlinked by name |
| `PhysicalClaim!ClaimAlwaysGoes` | `claim_liveness` | a run whose gNB start is bound and whose Deployment is gone, foreign, or of another locked commit is refused by every release (`r2lab/upstream_roles.py:594-610`), and as long as the lease is held nothing else removes its claim |
| `PhysicalClaim!RetiresWithoutLease` | `claim_liveness` | any exit status but 0 of the lease check, an SSH failure too, retires the claim with the hardware on (`r2lab/stale_claim.py:190`: "only after explicit lease loss is proven") |
| `PhysicalRun!AcceptedPortIsFree` | `run_lifecycle` | the probe of the port takes a failing SSH for a free port (`iot_edge_transport.py:289-293`), so that a workload is accepted while the terminating broker has the port |
| `PhysicalRun!StartIsAssociated` | `run_lifecycle` | the proofs of N2 read logs (`r2lab/live_cluster.py:387`): a start is bound on an association that is over (`r2lab/n3xx.py:385`: "stable physical gNB/N2 proof") |
| `PhysicalRun!ReleaseIsClean` | `run_lifecycle` | a run that dies between the deployment of its gNB and the binding of the start is released with the gNB running |
| `PhysicalRun!StagedRunMayDeploy` | `run_lifecycle` | staging says the Deployment is bound; after a handoff the playbook refuses it |
| `PhysicalRun!EarlyFailureIsEligible` | `run_lifecycle` | no attempt is ever eligible for the early recovery |
| `AnsibleStream!CompleteOutput` | `stream`, `MaxLines = 2` | lines queued between the empty queue and the look at child and reader are not in the output (`ansible_streaming.py:239`: "retaining complete raw output") |
| `AnsibleStream!CallIsOver` | `stream`, `MaxLines = 1` | `process.wait()` has no deadline, and is reached while the playbook runs when the reader fails or the playbook closes its output; and a timed-out call waits in `close` for as long as a process the playbook left behind holds the pipe |
| `IotRun!LeavesForeign` | `iot_run`, `Foreign = TRUE` | whoever listens when the hop is ready is recorded as the run's and killed at the end (`src/CONTRIBUTING.md:42`) |
| `Campaign!ValidIsMeasured` | `campaign`, `Overlap = TRUE` | a calibration that began before a run removes the route they share in its window, and nothing looks at the route after it |
| `IotRun!ReadyIsClean` | `iot_run` | the probe takes every failure of its SSH command for a closed port (`iot_edge_transport.py:289-293`), so that a transport stopped while the link is down reaps nothing (530-566), certifies a clean node, and the workload is accepted with its listener left (`src/docs/operator-guide.md:341`: "fail closed when exact rollback/cleanup cannot be proven") |
| `Campaign!ClosedIsRestored` | `campaign` | a second command knows nothing of the sidecar and objects of the one that was killed, and says `aborted` with `cleanup_valid` (`research/amber_campaign.py:117-119`: "restores the accepted network exactly once on exit") |
| `Campaign!AnalysedIsScientific` | `campaign` | the summary is saved before the validity gates raise (`research/amber_runtime.py:773`, 799-802) and the analysis asks for `infrastructure_valid` only (`research/amber_campaign.py:260`): a last run that fails its scientific gate is analysed with the others (`src/docs/experiment.md:141`: "excluded from scientific summaries") |
| `NetworkSampler!WindowIsCovered` | `sampler` | the cadence is judged over the life of the sampler (`research/sampling.py:350-365`), so that samples before the window make up for those missing in it; the summary asks for two samples in the window (`research/__init__.py:646`; `src/docs/experiment.md:94`: "Requested cadence is not evidence of achieved cadence") |
| `Dependencies!RefusedIsEdited` | `deps_sync` | a fetch that fails after `clone --no-checkout`, or a kill before the checkout is over, leaves a checkout that `git status` shows as changed; every later sync refuses it for "local changes" nobody made (`dependencies.py:308`), every run refuses it too, until somebody removes it by hand |
| `Dependencies!DirectIsLocked` | `deps_sync` | a sync to a new lock file switches the checkout under a run that reads it without a worktree, and nothing looks at it again (`src/docs/dependencies.md`: "start from the exact locked commit") |

**Fairness** (`PhysicalClaim!Fairness`). Weak fairness of each process's steps:
a process that is not killed goes on, its commands and polls have timeouts. Weak
fairness of `PowerDown`: a host told to stop stops. Strong fairness of
`StartRelease` for each run is an assumption about the operator, who asks for a
release again and again; strong, because the command is possible only while
no other command of that run is active. Nothing is assumed about the lease.
In `AnsibleStream`: weak fairness of the reader thread, of the main loop and of
time (`DeadlinePasses`). Nothing is assumed of the playbook, nor of what it leaves
behind.
In `IotRun`: weak fairness of the thread, and of `Steps \/ GiveUp`: every wait
of the command has a deadline. Nothing is assumed about messages or the
nodes.

**Bounds.** `MaxFaults` and the number of processes, runs and devices, and
`MaxAttempts`, bound the physical and virtual runs; `MaxAttempts` is 999 in the
code. `MaxLines`, `MaxEvents`, the number of sensors, `MaxOutages`, `N`,
`MaxDrifts`, `MaxKills` and `MaxCalibrations` bound the others. One outage may begin
and end at any place, so that each probe, kill or start can be the one that fails;
`CertifiedIsClean` is proved for any number of outages, with and without foreign listeners. `MaxTime` bounds the sampler, `MaxLocks` and
`MaxEdits` what people do to a checkout.

Each property has a mutant, an operator next to the definition it replaces,
that reproduces a plausible bug and makes TLC violate that property.

## 4. Proofs

TLAPS checks the following for every value of the constants, from the named
assumptions in the modules (`TopologyAssumption`, `SerialUseAssumption`,
`MaxFaultsAssumption`, `MaxAttemptsAssumption`, `NobodyAssumption`,
`NamesAssumption`, `SamplerAssumption`, `DependenciesAssumption`).

- `PhysicalRun_proofs`, first part: what the operators of `Acceptance` do to the
  set `Ledgers`.
  `Ledgers` is finite and explicit (a passed prefix, perhaps one failure), so
  that recording, passing and reopening are shown by cases on their shape rather
  than by induction. `LedgersAreWellFormed` and `WellFormedAreLedgers` show that the
  set is exactly what the constructor accepts.
- `PhysicalClaim_proofs`: `TypeCorrect`; then, under `SerialUse`, `Invariance` of
  `IInv == TypeOK /\ Serial /\ Located /\ Fresh /\ Used /\ HoldersOwnClaim`.
  `HoldersOwnClaim` alone is not inductive: a second command for the same run,
  or a preparation of a run that is already held, would break it. `Serial` (no
  two commands are about one run) excludes the first. The other three are about
  the files: a command past its topology has one (`Located`), a run that is still
  being claimed was never released or retired (`Fresh`), and a run that has a
  manifest or an archived claim has a directory and is never prepared again
  (`Used`). `HoldersOwnTheirClaim` follows, and `RetirementIsItsOwn`: the race of
  `claim_retire_race` needs overlapping commands. A release is at the same place of this
  argument before and in `stop_gnb`.
  `CourseInvariance` adds `OnCourse` for every command: each device of its run is
  where the command wants it or still in its plan, it has a lease unless the
  lease was lost under it, and a claim is archived before it is retired. Since
  the claim has one holder, no other command can undo what is done; the tenant
  can only without a lease, which makes the command `stale`. `WorkFindsItsHardware`
  and `ClaimLeavesAsItShould` follow, for any wiring and number of devices.
- `PhysicalClaim_proofs`, without `SerialUse`: `RegisterKept`, the refinement of
  `ClaimRegister`. It needs less than the ownership of claims. `AnyUseInvariance` has
  only that a run directory has one maker (`MakersDirectory`) and that a run that
  holds the claim, or has left a manifest or an archived claim, is past claiming
  (`PastClaiming`); a second command for a run may take its claim away early, but
  can neither bring it back nor give it to another run. From the register alone
  follow `ClaimIsHeldOnce`, and `ClaimIsSpent` from the same invariant.
- `PhysicalRun_proofs`: `Invariance` of `IInv`, a conjunction of the types (in five
  parts), of `EvidenceIsBound` and of `PlaceOK`, which says what the files hold
  at certain places of a command: a gNB is deployed only for a staged run, N2 is
  proven again only for a run whose start passed, a workload is taken back only
  after it failed, a running attempt has its directory. `PlaceOK` makes
  `EvidenceIsBound` inductive and gives what the refinement needs: `PromiseKept`
  maps the steps that write a record to `Extend` or `Reopen` of
  `AcceptanceLedger` and all others to stuttering. There is one lemma per group
  of actions for the types and one per writing step for the record.
  `OwnershipInvariance` is a second layer, with `IInv`: `Ownership` (a gNB that is up
  under a label has its namespace, nothing is relabelled under it, a command that
  deploys or resumes owns the namespace), `WorkloadHasAuthority`, which is inductive
  upon it, and `Endings` (what holds before the power goes off and before an
  outcome is judged). `NobodyTakesOver`, `StartedIsStopped`, `AttemptHasAuthority` and
  `AcceptedWithCleanup` follow; the last also shows that only `Judge` accepts.
  `RegisterKept` shows that this model, too, implements `ClaimRegister`.
  Of `AcceptanceLedger` alone, the last part shows that records stay well-formed
  (`LedgerIsWellFormed`), that an acceptance is final and that passes are kept
  (`RecordsAreKept`); with `PromiseKept` this holds of the files.

- `RfsimRun_proofs`: `TypeCorrect` shows `TypeInv`, the types and what a process
  knows of the authority file at its place. `OneWorker` is not inductive: that
  another process is past the directory says nothing about one that is about to
  make it. `FileInv` says what the files of a run hold at every place of a process
  (`PlaceOK`), which files stand on which (`Backed`), and that no second process
  is between a `mkdir` and the end of what it guards (`Alone`). A step that only
  moves one process, or changes the nodes, is shown once in a lemma (`Fits`) and
  cited for all of them; steps that write a file are shown each. `OnlyOneWorks` and
  `StatusStands` follow, and `HistoryKept` maps each write to a step of
  `VirtualHistory`. Since the specification of the history holds of the files,
  `NothingTakenBack` follows from `VirtualHistory` alone. `AcceptedClean` rests on a
  small invariant of its own: a process that is good at a place of the cleanup has
  its forward, its broker and its objects behind it, and nobody else is there to
  put them back (`OneWorker`).

- `AnsibleStream_proofs`: `Inv` adds to the types that `...ignoring` follows a failure
  in the output (`IgnoringFollows`), that no header lies between the current one and
  what was taken (`CurrentIsTask`), that the deferred failures are those that stand
  (`DeferredStand`; popping the last is right because of `IgnoringFollows`), and
  that they are told at the end only (`ToldLast`). `EndInv`, which gives `OutputHasBeenRead`, says
  what the reader has seen when it ends without an exception.
- `IotRun_proofs`: four small invariants. `SentInv` (what is under way has not been
  recorded and is behind the thread) makes the types inductive: nothing is
  recorded twice. `EarlyInv` gives `NoEarlyTelemetry`. `WriterInv` says that an
  accepted command waited for its thread and that the thread never read an accepted
  file, which gives `ReadyEvidenceStays`. `AllInv` gives the refinement.
  `ComingInv` (a listener that is coming belongs to the hop that is awaited, or to one
  that is misread) gives `CertifiedIsClean`, for any outages and foreign
  listeners, and `CertifiedInv` carries it to the evidence.
- `Campaign_proofs`: `SessionInv` says that runs are measured by one command only,
  since a second finds a directory. `PinInv` and `AgreeInv` follow the epochs from
  window to judgement and give `AnalysedShareEpoch`, for any number of drifts
  and kills; `CompletionInv` and `RestoreInv` give the two properties of the
  session's evidence. With `Overlap = FALSE`, `ClearInv` (servers and samplers
  are held while there are any), `HeldInv` and `GapInv` (what was missing in a
  window is either still missing or in the past of another epoch) give
  `ValidIsMeasured`. `SessionInv` and `CompletionInv` also give `ScheduleKept`: the run
  that is judged has no summary yet and those before it are valid.

- `NetworkSampler_proofs`: `Deadline` shows that the next deadline is the first point
  of the grid after now. `Apart` says that every sample so far lies in an interval of its
  own before the deadline, and the one in progress after it, so that `covered` and
  `count` agree: this is what `KeptIsCovered` needs, and what bounds the count. `Grid`
  says where the deadline is as long as every sample was prompt, which gives
  `PromptIsKept`. The arithmetic is that of points `k * Interval` for any interval.
- `Dependencies_proofs`: `Isolation` follows a run from its validation to what it reads
  and gives `WorktreeIsLocked`. `Quiet` says that, with the lock file and the files left
  alone, a sync wants the commit that a run has found, so that its checkout writes
  nothing; with `CheckoutTypes` and `SyncTypes` (a clone is made only where there is
  nothing) it gives `CheckoutIsLocked`.

**How far refuted statements hold.** The second table of section 3 has statements
of the repository that the code does not keep. For five rows of it, what remains
is proved:

| Statement | What is proved |
|---|---|
| `AnsibleStream!CompleteOutput`, `CallIsOver` | `OutputHasBeenRead`: unless the reader failed, what is missing had been read from the pipe, and a call that waits without a deadline waits for a playbook that has closed its output; a call that timed out leaves no playbook |
| `Campaign!ClosedIsRestored` | `OwnRestored`: a session that ends well has put back what it had patched and created itself |
| `Campaign!AnalysedIsScientific` | `DoubtIsLimited`: only the last run of the schedule may be analysed against its gates, since no run is judged behind one that is not valid |
| `IotRun!LeavesForeign` | `OthersAreLeftAlone`: only a listener that was recorded as the run's own is killed, and none on R2Lab, whatever the outages |
| `IotRun!ReadyIsClean` | `AcceptedNodesAreClean`: it holds, whatever the outages and whoever else listens, but for ports of which a probe was misread |

**What cannot be undone.** Several hazards leave something that no command of
SynthRAN gets past. That they do is an action property each (`...ForGood`,
`...Stays...`), which TLC checks with the constants of the run named and TLAPS proves
in general. An operator who meets one of them need not try again:

| Theorem | After | For good | With the run |
|---|---|---|---|
| `PhysicalClaim_proofs!TornStaysTorn` (under `SerialUse`) | a process died between creating and filling `active.json` | nothing prepares, releases or retires | `claim_safety` |
| `PhysicalRun_proofs!ShutOutStays` | the gNB carries another run's annotation, or none | the run binds and starts no gNB, until the cluster is imaged | `run_lifecycle` |
| `PhysicalRun_proofs!StrandedStays` | the first workload attempt died before its verdict | the workload stays the next stage | `run_lifecycle` |
| `PhysicalRun_proofs!RecoveryNeverApplies` | an unclean attempt | the recovery written for it never applies | `run_lifecycle` |
| `RfsimRun_proofs!HalfDoneIsLost` | a process died in a deployment or an experiment | the run keeps its files as they are | `rfsim_lifecycle` |
| `RfsimRun_proofs!ForwardIsNotReaped` | a process died with its port-forward up | every workload is refused until the nodes are wiped | `rfsim_lifecycle` |
| `Campaign_proofs!OverIsOver` | the command that began the runs has ended | giving it again adds, judges and takes away nothing | `campaign` |
| `Campaign_proofs!EndFinal` | a run that is not valid, or the last run | no run is judged | `campaign` |
| `Dependencies_proofs!HalfMadeStays` | a sync failed or died between clone and checkout | every sync refuses, no run begins | `deps_sync` |

In each of these proofs the condition has to exclude the process that is still at
work on the matter (`Abandoned`, `Stranded`, `HalfDone`, `Orphaned`, `Over`); without
that it is not stable. `ShutOutStays` needs the ownership invariant (a command that
deploys has the label and namespace already), `StrandedStays` the one of the record,
`RecoveryNeverApplies` one of its own (a result is written after the evidence
file that excludes it), `ForwardIsNotReaped` another (a forward belongs to a run
whose experiment was opened), `OverIsOver` the `SessionInv` of the campaign, since a
second command finds a directory.

Every safety property of the passing runs is thus proved; those of
`PhysicalClaim`, its types and the register apart, under `SerialUse`, and `ValidIsMeasured`
without overlapping calibrations, as in the runs.

Only model-checked: liveness under fairness (`ClaimIsReleased`, `CallEnds`,
`RunEnds`). It stays with
TLC, as would anything about ENABLED and properties that need induction over
data or RECURSIVE operators: the installed provers cannot treat them. These
modules have no recursive operator.

## 5. Not modelled

- `execute_physical_iot_workload` of `experiment/r2lab.py` (769-1320) and
  `execute_research_experiment` with `research/collector.py`: nothing calls them;
  the lifecycle uses `r2lab/iot_workload.py` and `research/amber_runtime.py`.
- Byte counters of the ingress, snapshots, timing bounds of the publisher: their
  failure is a wait of `IotRun` that gives up. The ingress counts on after its
  snapshot; nothing is decided by the difference.
- The relay child that is registered after `terminate_children` has looked: it is
  in `RelayAccepts` and seen by the final probe of the UE; what is left there
  is no part of `NothingLeft`.
- Planning of the source (`amber_planner.py`), metrics, statistics, log parsing,
  Parquet, rendering of objects and configurations; `run_events.py`.
- `slices_controller.py`, `privacy.py`, `upstream_overlay.py`, inventories and the
  parsing of the lock file: input and output without shared state.
- A sampler thread that outlives `stop()`, which has then given up on it, may append
  one more sample: the run is already refused.
- `_wait_for_broker` of the RFSIM reconciliation may find the line it waits for in the
  log of the broker before the reset; how far the broker is, is part of the outcome of
  `Reconcile`.
- Of the RFSIM preparation: its own manifest, which nothing reads; controller,
  inventory and digest checks, which refuse and change nothing. `Die` covers them.
- Poll counters (N2 in a row, PDU status, qfit attempts): each poll is one step
  that succeeds or gives up.
- Parsing of modem, AMF and power-switch output; digests, which are
  abstracted to the run they belong to; SLICES allocation renewal; paths.
- The migration of failed UE stages written by older versions: the present code
  never writes them.
- The commit is in the middle of a move of modules. `live_cluster.py`,
  `amber_experiment_runtime.py`, `pdu_transport_probe.py`, `experiment/r2lab.py`,
  `r2lab/iot_workload.py`, `r2lab/iot_transport.py` and `research/sampling.py`,
  `iperf.py`, `iperf_toolchain.py`, `collector.py` import modules that do not exist
  (`synthran.experiment.runtime`, `experiment_runtime`, `experiment_resources`,
  `network_runtime`, `rfsim_runtime`, `r2lab.runtime`, `mqtt_collector`, `iot`);
  the modules here model what their functions say.
- `recover_failed_workload` is called with the default experiment root
  (`r2lab/reconciliation.py:515`), not with the one on the command line; the
  model has one root.

## 6. Plan

1. (done) `Acceptance`, `AcceptanceLedger`, `PhysicalClaim`, `PhysicalRun`, their
   runs, types, the claim invariant, the evidence invariant, the refinement.
2. (done) `VirtualHistory`, `RfsimRun`, their runs, types, the file invariant, the
   refinement and the clean acceptance.
3. (done) `ClaimRegister` and its refinement by both physical models; how far the
   refuted statements hold; what cannot be undone.
4. (done) `AnsibleStream`; `IotTransport`, `IotDelivery`, `IotRun`; `Measurement`,
   `CampaignSchedule`, `Campaign`; `NetworkSampler`; `Dependencies`; their runs and the
   proofs of their safety properties.
5. `Polling` (`r2lab/n3xx.py`, `provider.py`, `resources.py`, `network/runtime.py`):
   consecutive proofs and attempt limits, with their arithmetic proved.
6. The composition of `Campaign` with `RfsimRun`: a campaign and an ordinary virtual
   run on one pair of nodes patch the same srsUE.
