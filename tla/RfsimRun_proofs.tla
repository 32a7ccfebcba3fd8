--------------------------- MODULE RfsimRun_proofs ---------------------------
(***************************************************************************)
(* Proofs about RfsimRun, for any number of processes and of runs.         *)
(***************************************************************************)
EXTENDS RfsimRun, TLAPS

Commands == Places \ {"idle"}

\* TypeOK in parts: the papers of a run, its results, the nodes, a process.
PaperOK ==
  /\ prep \in [Runs -> {"none", "bare", "trusted"}]
  /\ lease \in [Runs -> {"none", "active", "past"}]
  /\ seat \in [Runs -> BOOLEAN] /\ flight \in [Runs -> BOOLEAN]
  /\ \A r \in Runs : prep[r] = "trusted" => lease[r] # "none" /\ seat[r]

ResultOK ==
  /\ man \in [Runs -> {"none", "bare", "running", "failed", "deployed", "proven"}]
  /\ evd \in [Runs -> {"none", "unready", "ready"}]
  /\ exp \in [Runs -> {"none", "open", "failed", "accepted"}]
  /\ verdict \in [Runs -> {"none", "rejected", "accepted"}]

NodeOK ==
  /\ kube \in BOOLEAN /\ space \in BOOLEAN
  /\ core \in Somebody /\ ue \in Somebody
  /\ sidecar \in Somebody /\ objs \subseteq Runs /\ ports \in Somebody

ProcessOK ==
  /\ pc \in [Procs -> Places] /\ cur \in [Procs -> Somebody]
  /\ \A p \in Procs : At(p, "idle") <=> cur[p] = Nobody

MemoryOK ==
  /\ seen \in [Procs -> BOOLEAN] /\ named \in [Procs -> BOOLEAN]
  /\ good \in [Procs -> BOOLEAN]

LEMMA TypeInParts ==
  TypeOK <=> PaperOK /\ ResultOK /\ NodeOK /\ ProcessOK /\ MemoryOK
BY DEF TypeOK, PaperOK, ResultOK, NodeOK, ProcessOK, MemoryOK

\* What a process knows of the papers of its run while it prepares it.
Preparing(p) ==
  /\ At(p, "allocate") => lease[cur[p]] # "none"
  /\ At(p, "image") => lease[cur[p]] # "none" /\ seat[cur[p]]

-----------------------------------------------------------------------------
(* How a process moves.                                                    *)

\* A process goes to another place of its command, or its command ends.
LEMMA GotoProcess ==
  ASSUME ProcessOK, NEW p \in Procs, NEW l \in Commands, ~At(p, "idle"), Goto(p, l)
  PROVE  /\ ProcessOK' /\ cur[p] \in Runs /\ cur' = cur /\ pc'[p] = l
         /\ \A q \in Procs : q # p => pc'[q] = pc[q]
BY DEF ProcessOK, Commands, Goto, At, Somebody

LEMMA EndProcess ==
  ASSUME ProcessOK, MemoryOK, NEW p \in Procs, End(p)
  PROVE  /\ ProcessOK' /\ MemoryOK' /\ pc'[p] = "idle" /\ ~good'[p]
         /\ \A q \in Procs : q # p =>
              /\ pc'[q] = pc[q] /\ cur'[q] = cur[q]
              /\ named'[q] = named[q] /\ good'[q] = good[q]
<1>1. "idle" \in Places /\ Nobody \in Somebody
  BY DEF Places, Somebody
<1> QED
  BY <1>1 DEF ProcessOK, MemoryOK, End, At

LEMMA PlacesAreCommands ==
  /\ {"prepare", "reserve", "allocate", "image", "tools", "authority", "probe",
      "preflight", "deploy", "session", "verify", "evidence", "prove",
      "workload", "open", "refuse", "report", "acceptance"} \subseteq Commands
  /\ Deploying \subseteq Commands /\ Measuring \subseteq Commands
BY DEF Commands, Places, Deploying, Measuring, Body, Concluding

-----------------------------------------------------------------------------
(* Types.                                                                  *)

\* A command keeps the types and what a process knows of its papers.
TypeInv ==
  /\ PaperOK /\ ResultOK /\ NodeOK /\ ProcessOK /\ MemoryOK
  /\ \A p \in Procs : Preparing(p)

LEMMA InitialTypes ==
  Init => TypeInv
<1> SUFFICES ASSUME Init PROVE TypeInv
  OBVIOUS
<1>1. PaperOK /\ ResultOK /\ NodeOK /\ MemoryOK
  BY DEF Init, PaperOK, ResultOK, NodeOK, MemoryOK, Somebody
<1>2. ProcessOK /\ \A p \in Procs : Preparing(p)
  BY DEF Init, ProcessOK, Preparing, At, Places, Somebody
<1> QED
  BY <1>1, <1>2 DEF TypeInv

\* What is left alone keeps its type.
LEMMA SameParts ==
  /\ PaperOK /\ UNCHANGED papers => PaperOK'
  /\ ResultOK /\ UNCHANGED results => ResultOK'
  /\ NodeOK /\ UNCHANGED nodes => NodeOK'
  /\ MemoryOK /\ UNCHANGED memory => MemoryOK'
BY DEF PaperOK, ResultOK, NodeOK, MemoryOK, papers, results, nodes, network,
       guests, memory

\* A process that leaves the papers alone and does not go where it relies on
\* them leaves Preparing as it is.
LEMMA SamePreparing ==
  ASSUME TypeInv, NEW p \in Procs, UNCHANGED <<lease, seat>>,
         pc'[p] \notin {"allocate", "image"},
         \A q \in Procs : q # p => pc'[q] = pc[q] /\ cur'[q] = cur[q]
  PROVE  \A q \in Procs : Preparing(q)'
BY DEF TypeInv, Preparing, At

LEMMA PreparationTypes ==
  ASSUME TypeInv, NEW p \in Procs, Preparation(p)
  PROVE  TypeInv'
<1>1. CASE MakePreparation(p)
  BY <1>1, SameParts, SamePreparing, GotoProcess, PlacesAreCommands
     DEF TypeInv, PaperOK, MakePreparation, At
<1>2. CASE Reserve(p)
  <2>1. ProcessOK' /\ cur[p] \in Runs /\ cur' = cur
    BY <1>2, GotoProcess, PlacesAreCommands DEF TypeInv, Reserve, At
  <2>2. PaperOK'
    BY <1>2, <2>1 DEF TypeInv, PaperOK, Reserve
  <2>3. \A q \in Procs : Preparing(q)'
    BY <1>2, <2>1 DEF TypeInv, PaperOK, ProcessOK, Preparing, Reserve, Goto, At
  <2> QED
    BY <1>2, <2>1, <2>2, <2>3, SameParts DEF TypeInv, Reserve
<1>3. CASE Allocate(p)
  <2>1. ProcessOK' /\ cur[p] \in Runs /\ cur' = cur
    BY <1>3, GotoProcess, PlacesAreCommands DEF TypeInv, Allocate, At
  <2>2. PaperOK'
    BY <1>3, <2>1 DEF TypeInv, PaperOK, Allocate
  <2>3. \A q \in Procs : Preparing(q)'
    BY <1>3, <2>1 DEF TypeInv, PaperOK, ProcessOK, Preparing, Allocate, Goto, At
  <2> QED
    BY <1>3, <2>1, <2>2, <2>3, SameParts DEF TypeInv, Allocate
<1>4. CASE Image(p)
  <2>1. /\ ProcessOK' /\ cur[p] \in Runs /\ cur' = cur /\ pc'[p] = "tools"
        /\ \A q \in Procs : q # p => pc'[q] = pc[q]
    BY <1>4, GotoProcess, PlacesAreCommands DEF TypeInv, Image, At
  <2>2. PaperOK'
    BY <1>4, <2>1 DEF TypeInv, PaperOK, Preparing, Image
  <2>3. NodeOK'
    BY <1>4 DEF TypeInv, NodeOK, Image, Wiped, Somebody
  <2> QED
    BY <1>4, <2>1, <2>2, <2>3, SameParts, SamePreparing DEF TypeInv, Image
<1>5. CASE Tools(p)
  <2>1. NodeOK'
    BY <1>5 DEF TypeInv, NodeOK, Tools, network, guests
  <2> QED
    BY <1>5, <2>1, SameParts, SamePreparing, GotoProcess, PlacesAreCommands
       DEF TypeInv, Tools, At, papers
<1> QED
  BY <1>1, <1>2, <1>3, <1>4, <1>5 DEF Preparation

\* Every other step of a command leaves the papers' ids alone.
LEMMA GotoTypes ==
  ASSUME TypeInv, NEW p \in Procs, NEW l \in Commands \ {"allocate", "image"},
         ~At(p, "idle"), Goto(p, l), UNCHANGED <<lease, seat>>,
         PaperOK', ResultOK', NodeOK', MemoryOK'
  PROVE  TypeInv'
BY GotoProcess, SamePreparing DEF TypeInv

LEMMA EndTypes ==
  ASSUME TypeInv, NEW p \in Procs, End(p), UNCHANGED <<lease, seat>>,
         PaperOK', ResultOK', NodeOK'
  PROVE  TypeInv'
BY EndProcess, SamePreparing DEF TypeInv

LEMMA RunOf ==
  ASSUME TypeInv, NEW p \in Procs, ~At(p, "idle")
  PROVE  cur[p] \in Runs /\ cur[p] \in Somebody /\ cur[p] # Nobody
BY NamesAssumption DEF TypeInv, ProcessOK, Somebody

LEMMA AuthorityTypes ==
  ASSUME TypeInv, NEW p \in Procs,
         Authority(p) \/ Probe(p) \/ SavePreflight(p) \/ Accept(p) \/ Die(p)
  PROVE  TypeInv'
<1>1. CASE Authority(p)
  BY <1>1, SameParts, GotoTypes, PlacesAreCommands DEF TypeInv, Authority, At, papers
<1>2. CASE Probe(p)
  <2>1. MemoryOK'
    BY <1>2 DEF TypeInv, MemoryOK, Probe, Observe
  <2> QED
    BY <1>2, <2>1, SameParts, GotoTypes, PlacesAreCommands
       DEF TypeInv, Probe, At, papers
<1>3. CASE SavePreflight(p)
  <2>1. PaperOK'
    BY <1>3 DEF TypeInv, PaperOK, MemoryOK, SavePreflight
  <2>2. CASE seen[p]
    <3>1. MemoryOK'
      BY <1>3, <2>2 DEF TypeInv, MemoryOK, SavePreflight, Forget
    <3> QED
      BY <1>3, <2>1, <2>2, <3>1, SameParts, GotoTypes, PlacesAreCommands
         DEF TypeInv, SavePreflight, At
  <2>3. CASE ~seen[p]
    BY <1>3, <2>1, <2>3, SameParts, EndTypes DEF TypeInv, SavePreflight
  <2> QED
    BY <2>2, <2>3
<1>4. CASE Accept(p) \/ Die(p)
  BY <1>4, SameParts, EndTypes DEF TypeInv, Accept, Die, papers
<1> QED
  BY <1>1, <1>2, <1>3, <1>4

LEMMA DeploymentTypes ==
  ASSUME TypeInv, NEW p \in Procs, Deployment(p)
  PROVE  TypeInv'
<1>1. CASE MakeDeployment(p) \/ DeploymentRunning(p) \/ DeploymentEnds(p)
  <2>1. ResultOK'
    BY <1>1 DEF TypeInv, ResultOK, MakeDeployment, DeploymentRunning, DeploymentEnds
  <2> QED
    BY <1>1, <2>1, SameParts, GotoTypes, PlacesAreCommands
       DEF TypeInv, MakeDeployment, DeploymentRunning, DeploymentEnds, At,
           Deploying, papers
<1>2. CASE Playbook(p) \/ LabelNetwork(p)
  <2>1. ~At(p, "idle")
    BY <1>2 DEF Playbook, LabelNetwork, At
  <2>2. NodeOK'
    BY <1>2, <2>1, RunOf
       DEF TypeInv, NodeOK, Playbook, LabelNetwork, guests, Somebody
  <2> QED
    BY <1>2, <2>1, <2>2, SameParts, GotoTypes, PlacesAreCommands
       DEF TypeInv, Playbook, LabelNetwork, Deploying, papers
<1>3. CASE DeploymentFails(p)
  <2>1. ResultOK'
    BY <1>3 DEF TypeInv, ResultOK, DeploymentFails
  <2> QED
    BY <1>3, <2>1, SameParts, EndTypes DEF TypeInv, DeploymentFails, papers
<1> QED
  BY <1>1, <1>2, <1>3 DEF Deployment

LEMMA SessionTypes ==
  ASSUME TypeInv, NEW p \in Procs,
         Session(p) \/ Verify(p) \/ SaveEvidence(p) \/ Prove(p) \/ Workload(p)
  PROVE  TypeInv'
<1>1. CASE Session(p)
  BY <1>1, SameParts, GotoTypes, PlacesAreCommands DEF TypeInv, Session, At, papers
<1>2. CASE Verify(p)
  <2>1. MemoryOK'
    BY <1>2 DEF TypeInv, MemoryOK, Verify, Observe
  <2> QED
    BY <1>2, <2>1, SameParts, GotoTypes, PlacesAreCommands
       DEF TypeInv, Verify, At, papers
<1>3. CASE SaveEvidence(p)
  <2>1. ResultOK'
    BY <1>3 DEF TypeInv, ResultOK, SaveEvidence
  <2>2. CASE seen[p]
    <3>1. MemoryOK'
      BY <1>3, <2>2 DEF TypeInv, MemoryOK, SaveEvidence, Forget
    <3> QED
      BY <1>3, <2>1, <2>2, <3>1, SameParts, GotoTypes, PlacesAreCommands
         DEF TypeInv, SaveEvidence, At, papers
  <2>3. CASE ~seen[p]
    BY <1>3, <2>1, <2>3, SameParts, EndTypes DEF TypeInv, SaveEvidence, papers
  <2> QED
    BY <2>2, <2>3
<1>4. CASE Prove(p)
  <2>1. ResultOK'
    BY <1>4 DEF TypeInv, ResultOK, Prove
  <2> QED
    BY <1>4, <2>1, SameParts, GotoTypes, PlacesAreCommands
       DEF TypeInv, Prove, At, papers
<1>5. CASE Workload(p)
  BY <1>5, SameParts, GotoTypes, PlacesAreCommands DEF TypeInv, Workload, At, papers
<1> QED
  BY <1>1, <1>2, <1>3, <1>4, <1>5

LEMMA MeasureTypes ==
  ASSUME TypeInv, NEW p \in Procs, Measure(p)
  PROVE  TypeInv'
<1> USE PlacesAreCommands DEF Measuring, Body, Concluding
<1>1. CASE OpenExperiment(p) \/ PlanFails(p)
  <2>1. ResultOK'
    BY <1>1 DEF TypeInv, ResultOK, OpenExperiment, PlanFails
  <2> QED
    BY <1>1, <2>1, SameParts, GotoTypes
       DEF TypeInv, OpenExperiment, PlanFails, At, papers
<1>2. CASE Refuse(p)
  <2>1. ResultOK'
    BY <1>2 DEF TypeInv, ResultOK, Refuse
  <2> QED
    BY <1>2, <2>1, SameParts, EndTypes DEF TypeInv, Refuse, papers
<1>3. CASE Apply(p)
  <2>1. ~At(p, "idle")
    BY <1>3 DEF Apply, At
  <2>2. NodeOK' /\ MemoryOK'
    BY <1>3, <2>1, RunOf DEF TypeInv, NodeOK, MemoryOK, Apply, network
  <2> QED
    BY <1>3, <2>1, <2>2, SameParts, GotoTypes DEF TypeInv, Apply, papers
<1>4. CASE Patch(p) \/ Forward(p)
  <2>1. ~At(p, "idle")
    BY <1>4 DEF Patch, Forward, At
  <2>2. NodeOK'
    BY <1>4, <2>1, RunOf DEF TypeInv, NodeOK, Patch, Forward, network
  <2> QED
    BY <1>4, <2>1, <2>2, SameParts, GotoTypes DEF TypeInv, Patch, Forward, papers
<1>5. CASE Collect(p)
  <2>1. MemoryOK'
    BY <1>5 DEF TypeInv, MemoryOK, Collect
  <2> QED
    BY <1>5, <2>1, SameParts, GotoTypes DEF TypeInv, Collect, At, papers
<1>6. CASE BodyFails(p)
  BY <1>6, SameParts, GotoTypes DEF TypeInv, BodyFails, At, papers
<1> QED
  BY <1>1, <1>2, <1>3, <1>4, <1>5, <1>6 DEF Measure

LEMMA CleanUpTypes ==
  ASSUME TypeInv, NEW p \in Procs, CleanUp(p)
  PROVE  TypeInv'
<1> USE PlacesAreCommands DEF Measuring, Body, Concluding
<1>1. CASE Unforward(p)
  <2>1. NodeOK' /\ MemoryOK'
    BY <1>1 DEF TypeInv, NodeOK, MemoryOK, Unforward, Note, network, Somebody
  <2> QED
    BY <1>1, <2>1, SameParts, GotoTypes DEF TypeInv, Unforward, At, papers
<1>2. CASE Unpatch(p)
  <2>1. NodeOK' /\ MemoryOK'
    BY <1>2 DEF TypeInv, NodeOK, MemoryOK, Unpatch, Note, network, Somebody
  <2> QED
    BY <1>2, <2>1, SameParts, GotoTypes DEF TypeInv, Unpatch, At, papers
<1>3. CASE SkipUnpatch(p)
  <2>1. MemoryOK'
    BY <1>3 DEF TypeInv, MemoryOK, SkipUnpatch, Note
  <2> QED
    BY <1>3, <2>1, SameParts, GotoTypes DEF TypeInv, SkipUnpatch, At, papers
<1>4. CASE Delete(p)
  <2>1. NodeOK' /\ MemoryOK'
    BY <1>4 DEF TypeInv, NodeOK, MemoryOK, Delete, Note, network, memory
  <2> QED
    BY <1>4, <2>1, SameParts, GotoTypes DEF TypeInv, Delete, At, papers
<1>5. CASE Reverify(p)
  <2>1. MemoryOK'
    BY <1>5 DEF TypeInv, MemoryOK, Reverify, Note, memory
  <2> QED
    BY <1>5, <2>1, SameParts, GotoTypes DEF TypeInv, Reverify, At, papers
<1>6. CASE Judge(p)
  <2>1. ResultOK'
    BY <1>6 DEF TypeInv, ResultOK, Judge
  <2> QED
    BY <1>6, <2>1, SameParts, GotoTypes DEF TypeInv, Judge, At, papers
<1>7. CASE Report(p)
  <2>1. ResultOK'
    BY <1>7 DEF TypeInv, ResultOK, Report
  <2> QED
    BY <1>7, <2>1, SameParts, GotoTypes, EndTypes DEF TypeInv, Report, At, papers
<1> QED
  BY <1>1, <1>2, <1>3, <1>4, <1>5, <1>6, <1>7 DEF CleanUp

\* Whatever happens.
LEMMA TypeStep ==
  ASSUME TypeInv, [Next]_vars
  PROVE  TypeInv'
<1>1. ASSUME NEW p \in Procs, Step(p) PROVE TypeInv'
  <2>1. CASE \E r \in Runs : Start(p, r)
    <3>1. PICK r \in Runs : Start(p, r)
      BY <2>1
    <3>2. ProcessOK'
      BY <3>1, NamesAssumption DEF TypeInv, ProcessOK, Start, At, Places, Somebody
    <3>3. /\ pc'[p] \notin {"allocate", "image"}
          /\ \A q \in Procs : q # p => pc'[q] = pc[q] /\ cur'[q] = cur[q]
      BY <3>1 DEF TypeInv, ProcessOK, Start
    <3> QED
      BY <3>1, <3>2, <3>3, SameParts, SamePreparing DEF TypeInv, Start, papers
  <2> QED
    BY <1>1, <2>1, PreparationTypes, AuthorityTypes, DeploymentTypes,
       SessionTypes, MeasureTypes, CleanUpTypes DEF Step
<1>2. ASSUME NEW r \in Runs, PreflightAges(r) PROVE TypeInv'
  <2>1. PaperOK' /\ ProcessOK' /\ \A p \in Procs : Preparing(p)'
    BY <1>2 DEF TypeInv, PaperOK, ProcessOK, Preparing, PreflightAges, At
  <2> QED
    BY <1>2, <2>1, SameParts DEF TypeInv, PreflightAges
<1>3. CASE Lapse
  <2>1. PaperOK'
    BY <1>3 DEF TypeInv, PaperOK, Lapse
  <2>2. NodeOK'
    BY <1>3, SameParts DEF TypeInv, NodeOK, Lapse, Wiped, Somebody
  <2>3. ProcessOK'
    BY <1>3 DEF TypeInv, ProcessOK, Lapse, At
  <2>4. \A p \in Procs : Preparing(p)'
    <3> SUFFICES ASSUME NEW p \in Procs, pc[p] \in {"allocate", "image"}
                 PROVE  Preparing(p)'
      BY <1>3 DEF Lapse, Preparing, At
    <3>1. cur[p] \in Runs
      BY RunOf DEF At
    <3> QED
      BY <1>3, <3>1 DEF TypeInv, Lapse, Preparing, At
  <2> QED
    BY <1>3, <2>1, <2>2, <2>3, <2>4, SameParts DEF TypeInv, Lapse
<1>4. CASE UNCHANGED vars
  BY <1>4 DEF TypeInv, PaperOK, ResultOK, NodeOK, ProcessOK, MemoryOK, Preparing,
              At, vars
<1> QED
  BY <1>1, <1>2, <1>3, <1>4 DEF Next

\* Every file, the nodes and the processes are in a state the code knows
\* (TypeOK), whatever processes are killed and whenever authority ends.
THEOREM TypeCorrect == Spec => []TypeOK
<1>1. Spec => []TypeInv
  BY InitialTypes, TypeStep, PTL DEF Spec
<1>2. TypeInv => TypeOK
  BY TypeInParts DEF TypeInv
<1> QED
  BY <1>1, <1>2, PTL

-----------------------------------------------------------------------------
(* The results of a run and the places of its processes.                   *)

\* Those who write the manifests of a run, or its verdict.
Workers == Deploying \cup Measuring \cup {"refuse", "report"}

\* What the results of its run are at the places of a process.
PlaceOK(p) == LET r == cur[p] IN
  /\ At(p, "manifest") => man[r] = "bare"
  /\ pc[p] \in {"playbook", "label", "deployed"} => man[r] = "running"
  /\ pc[p] \in {"verify", "evidence", "prove"} => man[r] \in {"deployed", "proven"}
  /\ At(p, "prove") => evd[r] # "none"
  /\ At(p, "open") => man[r] = "proven"
  /\ pc[p] \in Measuring => exp[r] = "open" /\ verdict[r] = "none"
  /\ At(p, "report") =>
       exp[r] = "open" /\ verdict[r] = IF good[p] THEN "accepted" ELSE "rejected"
  /\ At(p, "refuse") => exp[r] = "failed" /\ verdict[r] = "none"

\* StatusIsBacked, of one run.
Backed(r) ==
  /\ man[r] = "proven" => evd[r] # "none"
  /\ exp[r] # "none" => man[r] = "proven"
  /\ exp[r] = "accepted" => verdict[r] = "accepted"
  /\ verdict[r] = "accepted" => exp[r] \in {"open", "accepted"}
  /\ verdict[r] = "rejected" => exp[r] \in {"open", "failed"}

Alone ==
  \A p, q \in Procs :
    p # q /\ cur[p] = cur[q] /\ pc[p] \in Workers => pc[q] \notin Workers

FileInv ==
  /\ \A p \in Procs : PlaceOK(p)
  /\ \A r \in Runs : Backed(r)
  /\ Alone

Unattended(r) == \A q \in Procs : cur[q] = r => pc[q] \notin Workers

\* A deployment that ended has no worker before its experiment is opened.
LEMMA NobodyWorks ==
  ASSUME TypeInv, FileInv, NEW r \in Runs,
         man[r] \in {"none", "deployed"} \/ (man[r] = "proven" /\ exp[r] = "none")
  PROVE  Unattended(r)
<1> SUFFICES ASSUME NEW q \in Procs, cur[q] = r, pc[q] \in Workers PROVE FALSE
  BY DEF Unattended
<1>1. PlaceOK(q) /\ Backed(r)
  BY DEF FileInv
<1> QED
  BY <1>1 DEF PlaceOK, Backed, At, Workers, Deploying

\* What a step of p must do to keep all this: it writes files of its own run
\* only, takes nothing back that others rely on, writes what workers rely on
\* as the only worker, and becomes a worker where there is none.
Fits(p) ==
  /\ \A q \in Procs : q # p => pc'[q] = pc[q] /\ cur'[q] = cur[q] /\ good'[q] = good[q]
  /\ \A r \in Runs : r # cur[p] =>
       man'[r] = man[r] /\ evd'[r] = evd[r] /\ exp'[r] = exp[r] /\ verdict'[r] = verdict[r]
  /\ \A r \in Runs : r = cur[p] =>
       /\ Backed(r)'
       /\ man[r] \in {"deployed", "proven"} => man'[r] \in {man[r], "proven"}
       /\ evd[r] # "none" => evd'[r] # "none"
  /\ \/ pc[p] \in Workers \/ Unattended(cur[p])
     \/ man' = man /\ exp' = exp /\ verdict' = verdict
  /\ PlaceOK(p)'
  /\ pc'[p] \in Workers =>
       cur'[p] = cur[p] /\ (pc[p] \in Workers \/ Unattended(cur[p]))

LEMMA FitsKeeps ==
  ASSUME TypeInv, TypeInv', FileInv, NEW p \in Procs, Fits(p)
  PROVE  FileInv'
<1>1. \A r \in Runs : Backed(r)'
  <2> TAKE r \in Runs
  <2>1. CASE r = cur[p]
    BY <2>1 DEF Fits, Backed
  <2>2. CASE r # cur[p]
    BY <2>2 DEF Fits, Backed, FileInv
  <2> QED
    BY <2>1, <2>2
<1>2. ASSUME NEW q \in Procs PROVE PlaceOK(q)'
  <2>1. CASE q = p
    BY <2>1 DEF Fits
  <2>2. CASE q # p /\ (cur[q] = Nobody \/ cur[q] # cur[p])
    <3>1. pc'[q] = pc[q] /\ cur'[q] = cur[q] /\ good'[q] = good[q] /\ PlaceOK(q)
      BY <2>2 DEF Fits, FileInv
    <3>2. CASE At(q, "idle")
      BY <3>1, <3>2 DEF PlaceOK, At, Measuring, Body, Concluding
    <3>3. CASE ~At(q, "idle")
      <4>1. cur[q] \in Runs /\ cur[q] # cur[p]
        BY <2>2, <3>3, RunOf
      <4> QED
        BY <3>1, <4>1 DEF Fits, PlaceOK, At
    <3> QED
      BY <3>2, <3>3
  <2>3. CASE q # p /\ cur[q] # Nobody /\ cur[q] = cur[p]
    <3>1. /\ pc'[q] = pc[q] /\ cur'[q] = cur[q] /\ good'[q] = good[q] /\ PlaceOK(q)
          /\ cur[q] \in Runs
      BY <2>3 DEF Fits, FileInv, TypeInv, ProcessOK, Somebody
    <3>2. CASE pc[q] \in Workers
      <4>1. pc[p] \notin Workers /\ ~Unattended(cur[p])
        BY <2>3, <3>2 DEF FileInv, Alone, Unattended
      <4>2. man' = man /\ exp' = exp /\ verdict' = verdict
        BY <4>1 DEF Fits
      <4> QED
        BY <2>3, <3>1, <3>2, <4>2 DEF Fits, PlaceOK, At
    <3>3. CASE pc[q] \notin Workers
      BY <2>3, <3>1, <3>3 DEF Fits, PlaceOK, At, Workers, Deploying
    <3> QED
      BY <3>2, <3>3
  <2> QED
    BY <2>1, <2>2, <2>3
<1>3. Alone'
  <2> SUFFICES ASSUME NEW a \in Procs, NEW b \in Procs, a # b, cur'[a] = cur'[b],
                      pc'[a] \in Workers, pc'[b] \in Workers
               PROVE  FALSE
    BY DEF Alone
  <2>1. CASE a = p
    <3>1. cur[a] = cur[b] /\ pc[b] \in Workers
      BY <2>1 DEF Fits
    <3> QED
      BY <2>1, <3>1 DEF Fits, FileInv, Alone, Unattended
  <2>2. CASE b = p
    <3>1. cur[a] = cur[b] /\ pc[a] \in Workers
      BY <2>2 DEF Fits
    <3> QED
      BY <2>2, <3>1 DEF Fits, FileInv, Alone, Unattended
  <2>3. CASE a # p /\ b # p
    BY <2>3 DEF Fits, FileInv, Alone
  <2> QED
    BY <2>1, <2>2, <2>3
<1> QED
  BY <1>1, <1>2, <1>3 DEF FileInv

\* Steps that leave the results alone and make nobody a worker.
LEMMA GotoFits ==
  ASSUME TypeInv, FileInv, NEW p \in Procs, NEW l \in Commands, ~At(p, "idle"),
         Goto(p, l), UNCHANGED results, l \in Workers => pc[p] \in Workers,
         \A q \in Procs : q # p => good'[q] = good[q],
         PlaceOK(p)'
  PROVE  Fits(p)
<1>1. /\ cur' = cur /\ pc'[p] = l
      /\ \A q \in Procs : q # p => pc'[q] = pc[q]
  BY GotoProcess DEF TypeInv
<1> QED
  BY <1>1 DEF Fits, FileInv, Backed, results

\* A command that ends where its files fit.
LEMMA EndFits ==
  ASSUME TypeInv, FileInv, NEW p \in Procs, End(p), UNCHANGED results
  PROVE  Fits(p)
<1>1. /\ pc'[p] = "idle"
      /\ \A q \in Procs : q # p =>
           pc'[q] = pc[q] /\ cur'[q] = cur[q] /\ good'[q] = good[q]
  BY EndProcess DEF TypeInv
<1>2. PlaceOK(p)' /\ pc'[p] \notin Workers
  BY <1>1 DEF PlaceOK, At, Workers, Deploying, Measuring, Body, Concluding
<1> QED
  BY <1>1, <1>2 DEF Fits, FileInv, Backed, results

\* Places without obligations.
Free == Commands \ (Workers \cup {"verify", "evidence", "prove", "open"})

LEMMA FreePlaces ==
  /\ {"prepare", "reserve", "allocate", "image", "tools", "authority", "probe",
      "preflight", "deploy", "session", "workload", "acceptance"} \subseteq Free
  /\ \A p \in Procs : pc[p] \in Free => PlaceOK(p)
BY PlacesAreCommands
   DEF Free, PlaceOK, At, Workers, Deploying, Measuring, Body, Concluding

LEMMA GotoFree ==
  ASSUME TypeInv, FileInv, NEW p \in Procs, NEW l \in Free, ~At(p, "idle"),
         Goto(p, l), UNCHANGED results,
         \A q \in Procs : q # p => good'[q] = good[q]
  PROVE  Fits(p)
<1>1. l \in Commands /\ l \notin Workers
  BY DEF Free
<1>2. cur' = cur /\ pc'[p] = l /\ ProcessOK'
  BY <1>1, GotoProcess DEF TypeInv
<1>3. PlaceOK(p)'
  BY <1>2 DEF Free, PlaceOK, At, Workers, Deploying, Measuring, Body, Concluding
<1> QED
  BY <1>1, <1>3, GotoFits

LEMMA QuietFits ==
  ASSUME TypeInv, FileInv, NEW p \in Procs,
         \/ \E r \in Runs : Start(p, r)
         \/ Preparation(p) \/ Authority(p) \/ Probe(p) \/ SavePreflight(p)
         \/ Accept(p) \/ Die(p)
  PROVE  Fits(p)
<1> USE FreePlaces
<1>1. CASE \E r \in Runs : Start(p, r)
  <2>1. PICK r \in Runs : Start(p, r)
    BY <1>1
  <2>2. /\ pc'[p] \in {"prepare", "authority"} /\ UNCHANGED results
        /\ \A q \in Procs : q # p =>
             pc'[q] = pc[q] /\ cur'[q] = cur[q] /\ good'[q] = good[q]
    BY <2>1 DEF TypeInv, ProcessOK, Start, memory
  <2>3. PlaceOK(p)' /\ pc'[p] \notin Workers
    BY <2>2 DEF PlaceOK, At, Workers, Deploying, Measuring, Body, Concluding
  <2> QED
    BY <2>2, <2>3 DEF Fits, FileInv, Backed, results
<1>2. CASE Preparation(p)
  BY <1>2, GotoFree
     DEF Preparation, MakePreparation, Reserve, Allocate, Image, Tools, At, memory
<1>3. CASE Authority(p)
  BY <1>3, GotoFree DEF Authority, At, memory
<1>4. CASE Probe(p)
  BY <1>4, GotoFree DEF Probe, At, Observe
<1>5. CASE SavePreflight(p)
  BY <1>5, GotoFree, EndFits DEF SavePreflight, At, Forget
<1>6. CASE Accept(p) \/ Die(p)
  BY <1>6, EndFits DEF Accept, Die
<1> QED
  BY <1>1, <1>2, <1>3, <1>4, <1>5, <1>6

\* The step of a process that writes results itself.
LEMMA Moved ==
  ASSUME TypeInv, NEW p \in Procs, NEW l \in Commands, ~At(p, "idle"), Goto(p, l),
         UNCHANGED memory
  PROVE  /\ cur[p] \in Runs /\ cur' = cur /\ pc'[p] = l /\ good' = good
         /\ \A q \in Procs : q # p => pc'[q] = pc[q]
BY GotoProcess DEF TypeInv, memory

LEMMA DeploymentFits ==
  ASSUME TypeInv, FileInv, NEW p \in Procs, Deployment(p)
  PROVE  Fits(p)
<1> USE PlacesAreCommands DEF Deploying
<1> DEFINE r == cur[p]
<1>0. ~At(p, "idle") /\ r \in Runs
  BY RunOf DEF Deployment, MakeDeployment, DeploymentRunning, Playbook, LabelNetwork,
               DeploymentEnds, DeploymentFails, At
<1>1. PlaceOK(p) /\ Backed(r)
  BY <1>0 DEF FileInv
<1>2. CASE MakeDeployment(p)
  <2>1. Unattended(r)
    BY <1>0, <1>2, NobodyWorks DEF MakeDeployment
  <2>2. /\ cur' = cur /\ pc'[p] = "manifest" /\ good' = good
        /\ \A q \in Procs : q # p => pc'[q] = pc[q]
    BY <1>0, <1>2, Moved DEF MakeDeployment
  <2>3. man' = [man EXCEPT ![r] = "bare"] /\ evd' = evd /\ exp' = exp /\ verdict' = verdict
    BY <1>2 DEF MakeDeployment
  <2>4. PlaceOK(p)'
    BY <1>0, <2>2, <2>3
       DEF TypeInv, ResultOK, PlaceOK, At, Measuring, Body, Concluding
  <2>5. Backed(r)'
    BY <1>0, <1>1, <1>2, <2>2, <2>3 DEF TypeInv, ResultOK, Backed, MakeDeployment
  <2> QED
    BY <1>0, <1>2, <2>1, <2>2, <2>3, <2>4, <2>5
       DEF TypeInv, ResultOK, Fits, Backed, MakeDeployment
<1>3. CASE DeploymentRunning(p) \/ DeploymentEnds(p)
  <2>1. /\ cur' = cur /\ pc'[p] \in {"playbook", "session"} /\ good' = good
        /\ \A q \in Procs : q # p => pc'[q] = pc[q]
        /\ DeploymentRunning(p) => pc'[p] = "playbook"
        /\ DeploymentEnds(p) => pc'[p] = "session"
    BY <1>0, <1>3, Moved DEF DeploymentRunning, DeploymentEnds, At
  <2>2. /\ man' = [man EXCEPT ![r] = IF pc'[p] = "playbook" THEN "running" ELSE "deployed"]
        /\ evd' = evd /\ exp' = exp /\ verdict' = verdict
        /\ man[r] \in {"bare", "running"} /\ pc[p] \in Workers
    BY <1>1, <1>3, <2>1 DEF DeploymentRunning, DeploymentEnds, PlaceOK, At, Workers
  <2>3. PlaceOK(p)'
    BY <1>0, <2>1, <2>2
       DEF TypeInv, ResultOK, PlaceOK, At, Measuring, Body, Concluding
  <2> QED
    BY <1>0, <1>1, <2>1, <2>2, <2>3 DEF TypeInv, ResultOK, Fits, Backed
<1>4. CASE Playbook(p) \/ LabelNetwork(p)
  <2>1. /\ UNCHANGED results /\ UNCHANGED memory
        /\ pc[p] \in {"playbook", "label"}
        /\ \E l \in {"label", "deployed"} : Goto(p, l)
    BY <1>4 DEF Playbook, LabelNetwork, At
  <2>2. PICK l \in {"label", "deployed"} : Goto(p, l)
    BY <2>1
  <2>3. cur' = cur /\ pc'[p] = l /\ good' = good
    BY <1>0, <2>1, <2>2, Moved
  <2>4. PlaceOK(p)'
    BY <1>1, <2>1, <2>3
       DEF PlaceOK, At, results, Measuring, Body, Concluding
  <2> QED
    BY <1>0, <2>1, <2>2, <2>3, <2>4, GotoFits DEF Workers
<1>5. CASE DeploymentFails(p)
  <2>1. /\ pc'[p] = "idle"
        /\ \A q \in Procs : q # p =>
             pc'[q] = pc[q] /\ cur'[q] = cur[q] /\ good'[q] = good[q]
    BY <1>5, EndProcess DEF TypeInv, DeploymentFails
  <2>2. PlaceOK(p)' /\ pc'[p] \notin Workers
    BY <2>1 DEF PlaceOK, At, Workers, Measuring, Body, Concluding
  <2>3. man[r] = "running" /\ pc[p] \in Workers
    BY <1>1, <1>5 DEF DeploymentFails, PlaceOK, Workers
  <2> QED
    BY <1>0, <1>1, <1>5, <2>1, <2>2, <2>3
       DEF TypeInv, ResultOK, Fits, Backed, DeploymentFails
<1> QED
  BY <1>2, <1>3, <1>4, <1>5 DEF Deployment

LEMMA SessionFits ==
  ASSUME TypeInv, FileInv, NEW p \in Procs,
         Session(p) \/ Verify(p) \/ SaveEvidence(p) \/ Prove(p) \/ Workload(p)
  PROVE  Fits(p)
<1> USE PlacesAreCommands, FreePlaces
<1> DEFINE r == cur[p]
<1>0. ~At(p, "idle") /\ r \in Runs
  BY RunOf DEF Session, Verify, SaveEvidence, Prove, Workload, At
<1>1. PlaceOK(p) /\ Backed(r)
  BY <1>0 DEF FileInv
<1>2. ASSUME NEW l \in {"verify", "evidence", "prove", "open"}
      PROVE  l \in Commands /\ l \notin Workers
  BY DEF Workers, Deploying, Measuring, Body, Concluding
<1>3. CASE Session(p) \/ Workload(p)
  <2>1. UNCHANGED results /\ UNCHANGED memory
    BY <1>3 DEF Session, Workload
  <2>2. CASE Goto(p, "workload") \/ Goto(p, "acceptance")
    BY <1>0, <2>1, <2>2, GotoFree DEF memory
  <2>3. CASE Goto(p, "verify") /\ man[r] \in {"deployed", "proven"}
    <3>1. cur' = cur /\ pc'[p] = "verify"
      BY <1>0, <1>2, <2>1, <2>3, Moved
    <3>2. PlaceOK(p)'
      BY <2>1, <2>3, <3>1
         DEF PlaceOK, At, results, Deploying, Measuring, Body, Concluding
    <3> QED
      BY <1>0, <1>2, <2>1, <2>3, <3>2, GotoFits DEF memory
  <2>4. CASE Goto(p, "open") /\ ProvenNetwork(r)
    <3>1. cur' = cur /\ pc'[p] = "open"
      BY <1>0, <1>2, <2>1, <2>4, Moved
    <3>2. PlaceOK(p)'
      BY <2>1, <2>4, <3>1
         DEF ProvenNetwork, PlaceOK, At, results, Deploying, Measuring, Body, Concluding
    <3> QED
      BY <1>0, <1>2, <2>1, <2>4, <3>2, GotoFits DEF memory
  <2> QED
    BY <1>3, <2>2, <2>3, <2>4 DEF Session, Workload
<1>4. CASE Verify(p)
  <2>1. /\ UNCHANGED results /\ Goto(p, "evidence") /\ At(p, "verify")
        /\ good' = good
    BY <1>4 DEF Verify, Observe
  <2>2. cur' = cur /\ pc'[p] = "evidence"
    BY <1>0, <1>2, <2>1, GotoProcess DEF TypeInv
  <2>3. PlaceOK(p)'
    BY <1>1, <2>1, <2>2
       DEF PlaceOK, At, results, Deploying, Measuring, Body, Concluding
  <2> QED
    BY <1>0, <1>2, <2>1, <2>3, GotoFits
<1>5. CASE SaveEvidence(p)
  <2>1. /\ man' = man /\ exp' = exp /\ verdict' = verdict
        /\ evd' = [evd EXCEPT ![r] = IF seen[p] THEN "ready" ELSE "unready"]
        /\ man[r] \in {"deployed", "proven"}
    BY <1>1, <1>5 DEF SaveEvidence, PlaceOK, At
  <2>2. Backed(r) /\ evd'[r] # "none"
    BY <1>0, <1>1, <2>1 DEF TypeInv, ResultOK
  <2>3. \A s \in Runs : s = r => Backed(s)'
    BY <2>1, <2>2 DEF Backed
  <2>4. CASE seen[p]
    <3>1. Goto(p, "prove") /\ good' = good
      BY <1>5, <2>4 DEF SaveEvidence, Forget
    <3>2. /\ cur' = cur /\ pc'[p] = "prove"
          /\ \A q \in Procs : q # p => pc'[q] = pc[q]
      BY <1>0, <1>2, <3>1, GotoProcess DEF TypeInv
    <3>3. PlaceOK(p)' /\ pc'[p] \notin Workers
      BY <1>2, <2>1, <2>2, <3>2
         DEF PlaceOK, At, Deploying, Measuring, Body, Concluding
    <3> QED
      BY <1>0, <2>1, <2>2, <2>3, <3>1, <3>2, <3>3 DEF TypeInv, ResultOK, Fits
  <2>5. CASE ~seen[p]
    <3>1. /\ pc'[p] = "idle"
          /\ \A q \in Procs : q # p =>
               pc'[q] = pc[q] /\ cur'[q] = cur[q] /\ good'[q] = good[q]
      BY <1>5, <2>5, EndProcess DEF TypeInv, SaveEvidence
    <3>2. PlaceOK(p)' /\ pc'[p] \notin Workers
      BY <3>1 DEF PlaceOK, At, Workers, Deploying, Measuring, Body, Concluding
    <3> QED
      BY <1>0, <2>1, <2>2, <2>3, <3>1, <3>2 DEF TypeInv, ResultOK, Fits
  <2> QED
    BY <2>4, <2>5
<1>6. CASE Prove(p)
  <2>1. /\ man' = [man EXCEPT ![r] = IF man[r] = "deployed" THEN "proven" ELSE man[r]]
        /\ evd' = evd /\ exp' = exp /\ verdict' = verdict
        /\ man[r] \in {"deployed", "proven"} /\ evd[r] # "none"
    BY <1>0, <1>1, <1>6 DEF TypeInv, ResultOK, Prove, PlaceOK, At
  <2>2. /\ cur' = cur /\ pc'[p] = "workload" /\ good' = good
        /\ \A q \in Procs : q # p => pc'[q] = pc[q]
    BY <1>0, <1>6, Moved DEF Prove
  <2>3. PlaceOK(p)' /\ pc'[p] \notin Workers
    BY <2>2 DEF PlaceOK, At, Workers, Deploying, Measuring, Body, Concluding
  <2>4. Unattended(r) \/ man' = man
    <3>1. CASE man[r] = "deployed"
      BY <1>0, <3>1, NobodyWorks
    <3>2. CASE man[r] = "proven"
      BY <1>0, <2>1, <3>2 DEF TypeInv, ResultOK
    <3> QED
      BY <2>1, <3>1, <3>2
  <2> QED
    BY <1>0, <1>1, <2>1, <2>2, <2>3, <2>4 DEF TypeInv, ResultOK, Fits, Backed
<1> QED
  BY <1>3, <1>4, <1>5, <1>6

LEMMA MeasureFits ==
  ASSUME TypeInv, FileInv, NEW p \in Procs, Measure(p)
  PROVE  Fits(p)
<1> USE PlacesAreCommands DEF Measuring, Body, Concluding
<1> DEFINE r == cur[p]
<1>0. ~At(p, "idle") /\ r \in Runs
  BY RunOf DEF Measure, OpenExperiment, PlanFails, Refuse, Apply, Patch, Forward,
               Collect, BodyFails, At
<1>1. PlaceOK(p) /\ Backed(r)
  BY <1>0 DEF FileInv
<1>2. CASE OpenExperiment(p)
  <2>1. man[r] = "proven" /\ exp[r] = "none" /\ verdict[r] = "none"
    BY <1>0, <1>1, <1>2 DEF TypeInv, ResultOK, OpenExperiment, PlaceOK, Backed
  <2>2. Unattended(r)
    BY <1>0, <2>1, NobodyWorks
  <2>3. /\ cur' = cur /\ pc'[p] = "plan" /\ good' = good
        /\ \A q \in Procs : q # p => pc'[q] = pc[q]
    BY <1>0, <1>2, Moved DEF OpenExperiment
  <2>4. exp' = [exp EXCEPT ![r] = "open"] /\ UNCHANGED <<man, evd, verdict>>
    BY <1>2 DEF OpenExperiment
  <2>5. PlaceOK(p)'
    BY <1>0, <2>1, <2>3, <2>4 DEF TypeInv, ResultOK, PlaceOK, At, Deploying
  <2> QED
    BY <1>0, <1>1, <2>1, <2>2, <2>3, <2>4, <2>5 DEF TypeInv, ResultOK, Fits, Backed
<1>3. CASE PlanFails(p)
  <2>1. exp[r] = "open" /\ verdict[r] = "none" /\ pc[p] \in Workers
    BY <1>1, <1>3 DEF PlanFails, PlaceOK, At, Workers
  <2>2. /\ cur' = cur /\ pc'[p] = "refuse" /\ good' = good
        /\ \A q \in Procs : q # p => pc'[q] = pc[q]
    BY <1>0, <1>3, Moved DEF PlanFails
  <2>3. exp' = [exp EXCEPT ![r] = "failed"] /\ UNCHANGED <<man, evd, verdict>>
    BY <1>3 DEF PlanFails
  <2>4. PlaceOK(p)'
    BY <1>0, <2>1, <2>2, <2>3 DEF TypeInv, ResultOK, PlaceOK, At, Deploying
  <2> QED
    BY <1>0, <1>1, <2>1, <2>2, <2>3, <2>4 DEF TypeInv, ResultOK, Fits, Backed
<1>4. CASE Refuse(p)
  <2>1. exp[r] = "failed" /\ verdict[r] = "none" /\ pc[p] \in Workers
    BY <1>1, <1>4 DEF Refuse, PlaceOK, At, Workers
  <2>2. /\ pc'[p] = "idle"
        /\ \A q \in Procs : q # p =>
             pc'[q] = pc[q] /\ cur'[q] = cur[q] /\ good'[q] = good[q]
    BY <1>4, EndProcess DEF TypeInv, Refuse
  <2>3. PlaceOK(p)' /\ pc'[p] \notin Workers
    BY <2>2 DEF PlaceOK, At, Workers, Deploying
  <2>4. verdict' = [verdict EXCEPT ![r] = "rejected"] /\ UNCHANGED <<man, evd, exp>>
    BY <1>4 DEF Refuse
  <2> QED
    BY <1>0, <1>1, <2>1, <2>2, <2>3, <2>4 DEF TypeInv, ResultOK, Fits, Backed
<1>5. CASE Apply(p) \/ Patch(p) \/ Forward(p) \/ Collect(p) \/ BodyFails(p)
  <2>1. /\ pc[p] \in Measuring /\ UNCHANGED results
        /\ \E l \in Measuring : Goto(p, l)
        /\ \A q \in Procs : q # p => good'[q] = good[q]
    BY <1>5 DEF TypeInv, MemoryOK, Apply, Patch, Forward, Collect, BodyFails, At, memory
  <2>2. PICK l \in Measuring : Goto(p, l)
    BY <2>1
  <2>3. cur' = cur /\ pc'[p] = l
    BY <1>0, <2>2, GotoProcess DEF TypeInv
  <2>4. PlaceOK(p)'
    BY <1>1, <2>1, <2>3 DEF PlaceOK, At, results, Deploying
  <2> QED
    BY <1>0, <2>1, <2>2, <2>4, GotoFits DEF Workers
<1> QED
  BY <1>2, <1>3, <1>4, <1>5 DEF Measure

LEMMA CleanUpFits ==
  ASSUME TypeInv, FileInv, NEW p \in Procs, CleanUp(p)
  PROVE  Fits(p)
<1> USE PlacesAreCommands, FreePlaces DEF Measuring, Body, Concluding
<1> DEFINE r == cur[p]
<1>0. ~At(p, "idle") /\ r \in Runs
  BY RunOf DEF CleanUp, Unforward, Unpatch, SkipUnpatch, Delete, Reverify, Judge,
               Report, At
<1>1. PlaceOK(p) /\ Backed(r)
  BY <1>0 DEF FileInv
<1>2. CASE Unforward(p) \/ Unpatch(p) \/ SkipUnpatch(p) \/ Delete(p) \/ Reverify(p)
  <2>1. /\ pc[p] \in Measuring /\ UNCHANGED results
        /\ \E l \in Measuring : Goto(p, l)
        /\ \A q \in Procs : q # p => good'[q] = good[q]
    BY <1>2 DEF TypeInv, MemoryOK, Unforward, Unpatch, SkipUnpatch, Delete, Reverify,
                Note, At, memory
  <2>2. PICK l \in Measuring : Goto(p, l)
    BY <2>1
  <2>3. cur' = cur /\ pc'[p] = l
    BY <1>0, <2>2, GotoProcess DEF TypeInv
  <2>4. PlaceOK(p)'
    BY <1>1, <2>1, <2>3 DEF PlaceOK, At, results, Deploying
  <2> QED
    BY <1>0, <2>1, <2>2, <2>4, GotoFits DEF Workers
<1>3. CASE Judge(p)
  <2>1. exp[r] = "open" /\ verdict[r] = "none" /\ pc[p] \in Workers
    BY <1>1, <1>3 DEF Judge, PlaceOK, At, Workers
  <2>2. /\ cur' = cur /\ pc'[p] = "report" /\ good' = good
        /\ \A q \in Procs : q # p => pc'[q] = pc[q]
    BY <1>0, <1>3, Moved DEF Judge
  <2>3. /\ verdict' = [verdict EXCEPT ![r] = IF good[p] THEN "accepted" ELSE "rejected"]
        /\ UNCHANGED <<man, evd, exp>>
    BY <1>3 DEF Judge
  <2>4. PlaceOK(p)'
    BY <1>0, <2>1, <2>2, <2>3 DEF TypeInv, ResultOK, PlaceOK, At, Deploying
  <2> QED
    BY <1>0, <1>1, <2>1, <2>2, <2>3, <2>4 DEF TypeInv, ResultOK, Fits, Backed
<1>4. CASE Report(p)
  <2>1. /\ exp[r] = "open" /\ pc[p] \in Workers
        /\ verdict[r] = IF good[p] THEN "accepted" ELSE "rejected"
    BY <1>1, <1>4 DEF Report, PlaceOK, At, Workers
  <2>2. /\ exp' = [exp EXCEPT ![r] = IF good[p] THEN "accepted" ELSE "failed"]
        /\ UNCHANGED <<man, evd, verdict>>
    BY <1>4 DEF Report
  <2>3. /\ pc'[p] \in {"idle", "acceptance"}
        /\ \A q \in Procs : q # p =>
             pc'[q] = pc[q] /\ cur'[q] = cur[q] /\ good'[q] = good[q]
    <3>1. CASE good[p]
      BY <1>0, <1>4, <3>1, Moved DEF Report, Free
    <3>2. CASE ~good[p]
      BY <1>4, <3>2, EndProcess DEF TypeInv, Report
    <3> QED
      BY <3>1, <3>2
  <2>4. PlaceOK(p)' /\ pc'[p] \notin Workers
    BY <2>3 DEF PlaceOK, At, Workers, Deploying
  <2> QED
    BY <1>0, <1>1, <2>1, <2>2, <2>3, <2>4 DEF TypeInv, ResultOK, Fits, Backed
<1> QED
  BY <1>2, <1>3, <1>4 DEF CleanUp

LEMMA StepFits ==
  ASSUME TypeInv, FileInv, NEW p \in Procs, Step(p)
  PROVE  Fits(p)
BY QuietFits, DeploymentFits, SessionFits, MeasureFits, CleanUpFits DEF Step

LEMMA FileStep ==
  ASSUME TypeInv, TypeInv', FileInv, [Next]_vars
  PROVE  FileInv'
<1>1. CASE \E p \in Procs : Step(p)
  BY <1>1, StepFits, FitsKeeps
<1>2. CASE (\E r \in Runs : PreflightAges(r)) \/ Lapse \/ UNCHANGED vars
  <2>1. UNCHANGED results /\ UNCHANGED <<pc, cur, good>>
    BY <1>2 DEF PreflightAges, Lapse, vars, memory, results
  <2> QED
    BY <2>1 DEF FileInv, PlaceOK, Backed, Alone, At, results
<1> QED
  BY <1>1, <1>2 DEF Next

\* The inductive invariant of the files of all runs.
THEOREM Invariance == Spec => [](TypeInv /\ FileInv)
<1>1. Init => FileInv
  BY NamesAssumption
     DEF Init, FileInv, PlaceOK, Backed, Alone, At, Workers, Deploying, Measuring,
         Body, Concluding
<1>2. TypeInv /\ FileInv /\ [Next]_vars => (TypeInv /\ FileInv)'
  BY TypeStep, FileStep
<1> QED
  BY <1>1, <1>2, InitialTypes, PTL DEF Spec

\* Two processes never deploy or measure for one run (OneWorker): mkdir is
\* enough, whatever is killed and repeated.
THEOREM OnlyOneWorks == Spec => []OneWorker
<1>1. FileInv => OneWorker
  BY DEF FileInv, Alone, OneWorker, Workers
<1> QED
  BY <1>1, Invariance, PTL

\* A status on file stands on the evidence it refers to (StatusIsBacked), also
\* when a process dies between two writes.
THEOREM StatusStands == Spec => []StatusIsBacked
<1>1. FileInv => StatusIsBacked
  BY DEF FileInv, Backed, StatusIsBacked
<1> QED
  BY <1>1, Invariance, PTL

-----------------------------------------------------------------------------
(* The promise of VirtualHistory.                                          *)

\* How far a network got, by the status of its manifest.
Reached(status) ==
  IF status \in {"none", "bare"} THEN "new"
  ELSE IF status = "running" THEN "deploying" ELSE status

LEMMA ManifestMoves ==
  ASSUME ResultOK, NEW r \in Runs, NEW status, man' = [man EXCEPT ![r] = status]
  PROVE  /\ Deployments[r] = Reached(man[r])
         /\ Deployments' = [Deployments EXCEPT ![r] = Reached(status)]
BY DEF ResultOK, Deployments, Reached

LEMMA Promised ==
  ASSUME TypeInv, FileInv, [Next]_vars
  PROVE  [Promise!Next]_<<Deployments, verdict>>
<1> USE DEF TypeInv
<1>1. CASE man' = man /\ verdict' = verdict
  BY <1>1 DEF Deployments
<1>2. ASSUME NEW p \in Procs,
             \/ MakeDeployment(p) \/ DeploymentRunning(p) \/ DeploymentEnds(p)
             \/ DeploymentFails(p) \/ Prove(p)
      PROVE  [Promise!Next]_<<Deployments, verdict>>
  <2> DEFINE r == cur[p]
  <2>1. r \in Runs /\ PlaceOK(p) /\ verdict' = verdict
    BY <1>2, RunOf DEF FileInv, MakeDeployment, DeploymentRunning, DeploymentEnds,
                       DeploymentFails, Prove, At
  <2>2. CASE MakeDeployment(p)
    <3>1. man[r] = "none" /\ man' = [man EXCEPT ![r] = "bare"]
      BY <2>2 DEF MakeDeployment
    <3>2. Deployments' = Deployments
      BY <2>1, <3>1, ManifestMoves DEF Deployments, Reached
    <3> QED
      BY <2>1, <3>2
  <2>3. CASE DeploymentRunning(p)
    <3>1. man[r] = "bare" /\ man' = [man EXCEPT ![r] = "running"]
      BY <2>1, <2>3 DEF DeploymentRunning, PlaceOK, At
    <3>2. Promise!Advance(r, "new", "deploying")
      BY <2>1, <3>1, ManifestMoves DEF Reached, Promise!Advance
    <3> QED
      BY <2>1, <3>2 DEF Promise!Next
  <2>4. CASE DeploymentEnds(p)
    <3>1. man[r] = "running" /\ man' = [man EXCEPT ![r] = "deployed"]
      BY <2>1, <2>4 DEF DeploymentEnds, PlaceOK, At
    <3>2. Promise!Advance(r, "deploying", "deployed")
      BY <2>1, <3>1, ManifestMoves DEF Reached, Promise!Advance
    <3> QED
      BY <2>1, <3>2 DEF Promise!Next
  <2>5. CASE DeploymentFails(p)
    <3>1. man[r] = "running" /\ man' = [man EXCEPT ![r] = "failed"]
      BY <2>1, <2>5 DEF DeploymentFails, PlaceOK, At
    <3>2. Promise!Advance(r, "deploying", "failed")
      BY <2>1, <3>1, ManifestMoves DEF Reached, Promise!Advance
    <3> QED
      BY <2>1, <3>2 DEF Promise!Next
  <2>6. CASE Prove(p)
    <3>1. /\ man[r] \in {"deployed", "proven"}
          /\ man' = [man EXCEPT ![r] = "proven"]
      BY <2>1, <2>6 DEF ResultOK, Prove, PlaceOK, At
    <3>2. Promise!Advance(r, "deployed", "proven") \/ Deployments' = Deployments
      BY <2>1, <3>1, ManifestMoves DEF Reached, Deployments, Promise!Advance
    <3> QED
      BY <2>1, <3>2 DEF Promise!Next
  <2> QED
    BY <1>2, <2>2, <2>3, <2>4, <2>5, <2>6
<1>3. ASSUME NEW p \in Procs, Refuse(p) \/ Judge(p)
      PROVE  [Promise!Next]_<<Deployments, verdict>>
  <2> DEFINE r == cur[p]
  <2>1. r \in Runs /\ PlaceOK(p) /\ Backed(r) /\ man' = man
    BY <1>3, RunOf DEF FileInv, Refuse, Judge, At
  <2>2. man[r] = "proven" /\ verdict[r] = "none"
    BY <1>3, <2>1
       DEF Refuse, Judge, PlaceOK, Backed, At, Measuring, Concluding
  <2>3. \E v \in {"rejected", "accepted"} : verdict' = [verdict EXCEPT ![r] = v]
    BY <1>3 DEF Refuse, Judge
  <2>4. Deployments[r] = "proven" /\ Deployments' = Deployments
    BY <2>1, <2>2 DEF Deployments
  <2>5. Promise!Judge(r)
    BY <2>2, <2>3, <2>4 DEF Promise!Judge
  <2> QED
    BY <2>1, <2>5 DEF Promise!Next
<1>4. ASSUME NEW p \in Procs, Step(p)
      PROVE  [Promise!Next]_<<Deployments, verdict>>
  <2>1. CASE (\E r \in Runs : Start(p, r)) \/ Preparation(p) \/ Authority(p)
             \/ Probe(p) \/ SavePreflight(p) \/ Accept(p) \/ Die(p)
    BY <1>1, <2>1
       DEF Start, Preparation, MakePreparation, Reserve, Allocate, Image, Tools,
           Authority, Probe, SavePreflight, Accept, Die, results
  <2>2. CASE Deployment(p)
    BY <1>1, <1>2, <2>2 DEF Deployment, Playbook, LabelNetwork, results
  <2>3. CASE Session(p) \/ Verify(p) \/ SaveEvidence(p) \/ Prove(p) \/ Workload(p)
    BY <1>1, <1>2, <2>3 DEF Session, Verify, SaveEvidence, Workload, results
  <2>4. CASE Measure(p)
    BY <1>1, <1>3, <2>4
       DEF Measure, OpenExperiment, PlanFails, Apply, Patch, Forward, Collect,
           BodyFails, results
  <2>5. CASE CleanUp(p)
    BY <1>1, <1>3, <2>5
       DEF CleanUp, Unforward, Unpatch, SkipUnpatch, Delete, Reverify, Report, results
  <2> QED
    BY <1>4, <2>1, <2>2, <2>3, <2>4, <2>5 DEF Step
<1>5. CASE (\E r \in Runs : PreflightAges(r)) \/ Lapse \/ UNCHANGED vars
  BY <1>1, <1>5 DEF PreflightAges, Lapse, vars, results
<1> QED
  BY <1>4, <1>5 DEF Next

\* The files of virtual runs implement VirtualHistory (KeepsHistory): a network
\* is deployed once, proven only after that, and judged once.
THEOREM HistoryKept == Spec => KeepsHistory
<1>1. Init => Promise!Init
  BY DEF Init, Deployments, Promise!Init
<1>2. TypeInv /\ FileInv /\ [Next]_vars => [Promise!Next]_<<Deployments, verdict>>
  BY Promised
<1> QED
  BY <1>1, <1>2, Invariance, PTL DEF Spec, KeepsHistory, Promise!Spec

\* What VirtualHistory says of a step of it: no deployment, proof or judgement
\* is taken back by any process.
THEOREM NothingTakenBack == Spec => Promise!NothingIsTakenBack
<1>1. TypeInv /\ [Promise!Next]_<<Deployments, verdict>> =>
        [ \A r \in Runs :
            /\ Deployments[r] # "new" => Deployments'[r] # "new"
            /\ Deployments[r] \in {"deployed", "failed"} => Deployments'[r] # "deploying"
            /\ Deployments[r] \in {"failed", "proven"} => Deployments'[r] = Deployments[r]
            /\ verdict[r] # "none" => verdict'[r] = verdict[r]
        ]_<<Deployments, verdict>>
  <2> SUFFICES ASSUME TypeInv, Promise!Next, NEW r \in Runs
               PROVE  /\ Deployments[r] # "new" => Deployments'[r] # "new"
                      /\ Deployments[r] \in {"deployed", "failed"} =>
                           Deployments'[r] # "deploying"
                      /\ Deployments[r] \in {"failed", "proven"} =>
                           Deployments'[r] = Deployments[r]
                      /\ verdict[r] # "none" => verdict'[r] = verdict[r]
    OBVIOUS
  <2>1. /\ DOMAIN Deployments = Runs /\ DOMAIN verdict = Runs
        /\ Deployments = [s \in Runs |-> Deployments[s]]
        /\ verdict = [s \in Runs |-> verdict[s]]
    BY DEF Deployments, TypeInv, ResultOK
  <2> QED
    BY <2>1 DEF Promise!Next, Promise!Advance, Promise!Judge
<1>2. Spec => [][Promise!Next]_<<Deployments, verdict>>
  BY HistoryKept DEF KeepsHistory, Promise!Spec
<1> QED
  BY <1>1, <1>2, Invariance, PTL DEF Promise!NothingIsTakenBack

-----------------------------------------------------------------------------
(* What a workload leaves on the nodes.                                    *)

\* How far the finally block of a workload that may still be accepted got.
CleanSoFar(p) == LET r == cur[p] IN
  /\ good[p] => pc[p] \in Concluding \cup {"report", "acceptance"}
  /\ pc[p] \in {"patch", "forward", "collect"} => named[p]
  /\ good[p] /\ pc[p] \in {"unforward", "unpatch"} => named[p]
  /\ good[p] /\ pc[p] \in {"unpatch", "delete", "reverify", "judge"} => ports # r
  /\ good[p] /\ pc[p] \in {"delete", "reverify", "judge"} => sidecar # r
  /\ good[p] /\ pc[p] \in {"reverify", "judge"} => r \notin objs

CleanInv == \A p \in Procs : CleanSoFar(p)

\* A step of p adds guests of its own run only, and only while it measures.
Hosts(p) ==
  /\ \A q \in Procs : q # p =>
       /\ pc'[q] = pc[q] /\ cur'[q] = cur[q]
       /\ named'[q] = named[q] /\ good'[q] = good[q]
  /\ sidecar' \in {sidecar, Nobody} \/ (pc[p] \in Measuring /\ sidecar' = cur[p])
  /\ objs' \subseteq objs \/ (pc[p] \in Measuring /\ objs' = objs \cup {cur[p]})
  /\ ports' \in {ports, Nobody} \/ (pc[p] \in Measuring /\ ports' = cur[p])

LEMMA HostsKeeps ==
  ASSUME TypeInv, FileInv, CleanInv, NEW p \in Procs, Hosts(p), CleanSoFar(p)'
  PROVE  CleanInv'
<1> SUFFICES ASSUME NEW q \in Procs, q # p PROVE CleanSoFar(q)'
  BY DEF CleanInv
<1>1. /\ pc'[q] = pc[q] /\ cur'[q] = cur[q]
      /\ named'[q] = named[q] /\ good'[q] = good[q] /\ CleanSoFar(q)
  BY DEF Hosts, CleanInv
<1>2. CASE pc[q] \in Measuring
  <2>1. cur[q] \in Runs /\ cur[q] # Nobody
    BY <1>2, RunOf DEF At, Measuring, Body, Concluding
  <2>2. cur[p] # cur[q] \/ pc[p] \notin Measuring
    BY <1>2 DEF FileInv, Alone, Workers
  <2> QED
    BY <1>1, <2>1, <2>2 DEF Hosts, CleanSoFar
<1>3. CASE pc[q] \notin Measuring
  BY <1>1, <1>3 DEF CleanSoFar, Measuring, Body, Concluding
<1> QED
  BY <1>2, <1>3

\* Steps outside the workload: no guest of the nodes is added.
LEMMA OutsideKeeps ==
  ASSUME TypeInv, FileInv, CleanInv, NEW p \in Procs, pc[p] \notin Measuring,
         \A q \in Procs : q # p =>
           /\ pc'[q] = pc[q] /\ cur'[q] = cur[q]
           /\ named'[q] = named[q] /\ good'[q] = good[q],
         pc'[p] \notin {"patch", "forward", "collect"} \cup Concluding,
         good'[p] => good[p] /\ pc'[p] \in {"report", "acceptance"},
         sidecar' \in {sidecar, Nobody}, objs' \subseteq objs, ports' \in {ports, Nobody}
  PROVE  CleanInv'
<1>1. CleanSoFar(p)'
  BY DEF CleanSoFar, Concluding
<1>2. Hosts(p)
  BY DEF Hosts
<1> QED
  BY <1>1, <1>2, HostsKeeps

\* A process that goes on outside the workload knows nothing good yet.
LEMMA NotYetGood ==
  ASSUME CleanInv, NEW p \in Procs, pc[p] \notin Concluding \cup {"report", "acceptance"}
  PROVE  ~good[p]
BY DEF CleanInv, CleanSoFar

LEMMA EndClean ==
  ASSUME TypeInv, FileInv, CleanInv, NEW p \in Procs, End(p), UNCHANGED guests
  PROVE  CleanInv'
<1>1. /\ pc'[p] = "idle" /\ ~good'[p]
      /\ \A q \in Procs : q # p =>
           /\ pc'[q] = pc[q] /\ cur'[q] = cur[q]
           /\ named'[q] = named[q] /\ good'[q] = good[q]
  BY EndProcess DEF TypeInv
<1>2. CleanSoFar(p)'
  BY <1>1 DEF CleanSoFar
<1>3. Hosts(p)
  BY <1>1 DEF Hosts, guests
<1> QED
  BY <1>2, <1>3, HostsKeeps

LEMMA OutsideGoto ==
  ASSUME TypeInv, FileInv, CleanInv, NEW p \in Procs, NEW l \in Commands,
         ~At(p, "idle"), pc[p] \notin Measuring \cup {"report", "acceptance"},
         Goto(p, l), l \notin {"patch", "forward", "collect"} \cup Concluding,
         named' = named, good' = good,
         sidecar' \in {sidecar, Nobody}, objs' \subseteq objs, ports' \in {ports, Nobody}
  PROVE  CleanInv'
<1>1. cur' = cur /\ pc'[p] = l /\ \A q \in Procs : q # p => pc'[q] = pc[q]
  BY GotoProcess DEF TypeInv
<1>2. ~good[p]
  BY NotYetGood DEF Measuring
<1> QED
  BY <1>1, <1>2, OutsideKeeps

LEMMA FreeIsOutside ==
  ASSUME NEW l \in Free \cup Deploying \cup {"verify", "evidence", "prove", "open"}
  PROVE  /\ l \notin Measuring /\ l # "report"
         /\ l \notin {"patch", "forward", "collect"} \cup Concluding
BY DEF Free, Workers, Deploying, Measuring, Body, Concluding

LEMMA OutsideClean ==
  ASSUME TypeInv, FileInv, CleanInv, NEW p \in Procs,
         \/ \E r \in Runs : Start(p, r)
         \/ Preparation(p) \/ Authority(p) \/ Probe(p) \/ SavePreflight(p)
         \/ Deployment(p)
         \/ Session(p) \/ Verify(p) \/ SaveEvidence(p) \/ Prove(p) \/ Workload(p)
         \/ Accept(p) \/ Die(p)
  PROVE  CleanInv'
<1> USE PlacesAreCommands, FreePlaces, FreeIsOutside DEF Deploying
<1>1. CASE \E r \in Runs : Start(p, r)
  <2>1. PICK r \in Runs : Start(p, r)
    BY <1>1
  <2>2. /\ pc'[p] \in {"prepare", "authority"} /\ At(p, "idle")
        /\ UNCHANGED memory /\ UNCHANGED guests
        /\ \A q \in Procs : q # p => pc'[q] = pc[q] /\ cur'[q] = cur[q]
    BY <2>1 DEF TypeInv, ProcessOK, Start, nodes
  <2>3. ~good[p] /\ pc[p] \notin Measuring
    BY <2>2, NotYetGood DEF At, Measuring, Body, Concluding
  <2> QED
    BY <2>2, <2>3, OutsideKeeps DEF memory, guests
<1>2. CASE Preparation(p)
  BY <1>2, OutsideGoto
     DEF Preparation, MakePreparation, Reserve, Allocate, Image, Tools, Wiped, At,
         memory, nodes, guests
<1>3. CASE Authority(p)
  BY <1>3, OutsideGoto DEF Authority, At, memory, nodes, guests
<1>4. CASE Probe(p)
  BY <1>4, OutsideGoto DEF Probe, At, Observe, nodes, guests
<1>5. CASE SavePreflight(p)
  BY <1>5, OutsideGoto, EndClean DEF SavePreflight, Forget, At, nodes, guests
<1>6. CASE Deployment(p)
  BY <1>6, OutsideGoto, EndClean
     DEF Deployment, MakeDeployment, DeploymentRunning, Playbook, LabelNetwork,
         DeploymentEnds, DeploymentFails, At, memory, nodes, guests
<1>7. CASE Session(p)
  BY <1>7, OutsideGoto DEF Session, At, memory, nodes, guests
<1>8. CASE Verify(p)
  BY <1>8, OutsideGoto DEF Verify, At, Observe, nodes, guests
<1>9. CASE SaveEvidence(p)
  BY <1>9, OutsideGoto, EndClean DEF SaveEvidence, Forget, At, nodes, guests
<1>10. CASE Prove(p)
  BY <1>10, OutsideGoto DEF Prove, At, memory, nodes, guests
<1>11. CASE Workload(p)
  BY <1>11, OutsideGoto DEF Workload, At, memory, nodes, guests
<1>12. CASE Accept(p) \/ Die(p)
  BY <1>12, EndClean DEF Accept, Die, nodes
<1> QED
  BY <1>1, <1>2, <1>3, <1>4, <1>5, <1>6, <1>7, <1>8, <1>9, <1>10, <1>11, <1>12

LEMMA MeasureClean ==
  ASSUME TypeInv, FileInv, CleanInv, NEW p \in Procs, Measure(p)
  PROVE  CleanInv'
<1> USE PlacesAreCommands DEF Measuring, Body, Concluding
<1>0. ~At(p, "idle") /\ cur[p] \in Runs /\ CleanSoFar(p)
  BY RunOf DEF CleanInv, Measure, OpenExperiment, PlanFails, Refuse, Apply, Patch,
               Forward, Collect, BodyFails, At
<1>1. CASE Refuse(p)
  BY <1>1, EndClean DEF Refuse, nodes
<1>2. CASE ~Refuse(p)
  <2>1. \E l \in Measuring \cup {"refuse"} : Goto(p, l)
    BY <1>2 DEF Measure, OpenExperiment, PlanFails, Apply, Patch, Forward, Collect,
                BodyFails
  <2>2. PICK l \in Measuring \cup {"refuse"} : Goto(p, l)
    BY <2>1
  <2>3. /\ cur' = cur /\ pc'[p] = l
        /\ \A q \in Procs : q # p => pc'[q] = pc[q]
    BY <1>0, <2>2, GotoProcess DEF TypeInv
  <2>4. CASE OpenExperiment(p) \/ PlanFails(p) \/ BodyFails(p)
    <3>1. UNCHANGED memory /\ UNCHANGED guests
      BY <2>4 DEF OpenExperiment, PlanFails, BodyFails, nodes
    <3>2. ~good[p] /\ pc'[p] \in {"plan", "refuse", "unforward"}
      BY <1>0, <2>4 DEF TypeInv, ProcessOK, OpenExperiment, PlanFails, BodyFails,
                        Goto, At, CleanSoFar
    <3> QED
      BY <2>3, <3>1, <3>2, HostsKeeps DEF Hosts, CleanSoFar, memory, guests
  <2>5. CASE Apply(p)
    <3>1. /\ ~good[p] /\ good' = good /\ pc'[p] \in {"patch", "unforward"}
          /\ named'[p] /\ \A q \in Procs : q # p => named'[q] = named[q]
      BY <1>0, <2>5 DEF TypeInv, ProcessOK, MemoryOK, Apply, Goto, At, CleanSoFar
    <3>2. /\ sidecar' = sidecar /\ ports' = ports
          /\ objs' \in {objs, objs \cup {cur[p]}} /\ pc[p] \in Measuring
      BY <2>5 DEF Apply, At
    <3> QED
      BY <2>3, <3>1, <3>2, HostsKeeps DEF Hosts, CleanSoFar
  <2>6. CASE Patch(p) \/ Forward(p)
    <3>1. /\ ~good[p] /\ UNCHANGED memory /\ named[p]
          /\ pc'[p] \in {"forward", "collect"}
      BY <1>0, <2>6 DEF TypeInv, ProcessOK, Patch, Forward, Goto, At, CleanSoFar
    <3>2. /\ sidecar' \in {sidecar, cur[p]} /\ ports' \in {ports, cur[p]}
          /\ objs' = objs /\ pc[p] \in Measuring
      BY <2>6 DEF Patch, Forward, At
    <3> QED
      BY <2>3, <3>1, <3>2, HostsKeeps DEF Hosts, CleanSoFar, memory
  <2>7. CASE Collect(p)
    <3>1. /\ named' = named /\ named[p] /\ pc'[p] = "unforward"
          /\ \A q \in Procs : q # p => good'[q] = good[q]
      BY <1>0, <2>7 DEF TypeInv, ProcessOK, MemoryOK, Collect, Goto, At, CleanSoFar
    <3>2. UNCHANGED guests
      BY <2>7 DEF Collect, nodes
    <3> QED
      BY <2>3, <3>1, <3>2, HostsKeeps DEF Hosts, CleanSoFar, guests
  <2> QED
    BY <1>2, <2>4, <2>5, <2>6, <2>7 DEF Measure
<1> QED
  BY <1>1, <1>2

LEMMA CleanUpClean ==
  ASSUME TypeInv, FileInv, CleanInv, NEW p \in Procs, CleanUp(p)
  PROVE  CleanInv'
<1> USE PlacesAreCommands, NamesAssumption DEF Measuring, Body, Concluding
<1>0. ~At(p, "idle") /\ cur[p] \in Runs /\ cur[p] # Nobody /\ CleanSoFar(p)
  BY RunOf DEF CleanInv, CleanUp, Unforward, Unpatch, SkipUnpatch, Delete, Reverify,
               Judge, Report, At
<1>1. CASE Report(p) /\ ~good[p]
  BY <1>1, EndClean DEF Report, nodes
<1>2. CASE CleanUp(p) /\ ~(Report(p) /\ ~good[p])
  <2>1. \E l \in Commands : Goto(p, l)
    BY <1>2 DEF CleanUp, Unforward, Unpatch, SkipUnpatch, Delete, Reverify, Judge, Report
  <2>2. PICK l \in Commands : Goto(p, l)
    BY <2>1
  <2>3. /\ cur' = cur /\ pc'[p] = l
        /\ \A q \in Procs : q # p => pc'[q] = pc[q]
    BY <1>0, <2>2, GotoProcess DEF TypeInv
  <2>4. /\ good'[p] => good[p]
        /\ \A q \in Procs : q # p => good'[q] = good[q] /\ named'[q] = named[q]
    BY <1>2 DEF TypeInv, MemoryOK, CleanUp, Unforward, Unpatch, SkipUnpatch, Delete,
                Reverify, Judge, Report, Note, memory
  <2>5. CASE Unforward(p)
    <3>1. /\ At(p, "unforward") /\ pc'[p] = "unpatch" /\ named' = named
          /\ sidecar' = sidecar /\ objs' = objs /\ ports' \in {ports, Nobody}
          /\ good'[p] => ports' = Nobody
      BY <1>0, <2>5 DEF TypeInv, ProcessOK, MemoryOK, Unforward, Goto, Note
    <3> QED
      BY <1>0, <2>3, <2>4, <3>1, HostsKeeps DEF Hosts, CleanSoFar, At
  <2>6. CASE Unpatch(p)
    <3>1. /\ At(p, "unpatch") /\ pc'[p] = "delete"
          /\ sidecar' = Nobody /\ objs' = objs /\ ports' = ports
      BY <2>6 DEF TypeInv, ProcessOK, Unpatch, Goto
    <3> QED
      BY <1>0, <2>3, <2>4, <3>1, HostsKeeps DEF Hosts, CleanSoFar, At
  <2>7. CASE SkipUnpatch(p)
    <3>1. /\ At(p, "unpatch") /\ pc'[p] = "delete" /\ UNCHANGED guests
          /\ good'[p] => ~named[p]
      BY <2>7 DEF TypeInv, ProcessOK, MemoryOK, SkipUnpatch, Goto, Note, nodes
    <3>2. ~good'[p]
      BY <1>0, <2>4, <3>1 DEF CleanSoFar, At
    <3> QED
      BY <2>3, <2>4, <3>1, <3>2, HostsKeeps DEF Hosts, CleanSoFar, guests
  <2>8. CASE Delete(p)
    <3>1. /\ At(p, "delete") /\ pc'[p] = "reverify"
          /\ sidecar' = sidecar /\ ports' = ports /\ objs' \subseteq objs
          /\ good'[p] => cur[p] \notin objs'
      BY <2>8 DEF TypeInv, ProcessOK, MemoryOK, Delete, Goto, Note
    <3> QED
      BY <1>0, <2>3, <2>4, <3>1, HostsKeeps DEF Hosts, CleanSoFar, At
  <2>9. CASE Reverify(p) \/ Judge(p) \/ (Report(p) /\ good[p])
    <3>1. /\ UNCHANGED guests
          /\ \/ At(p, "reverify") /\ pc'[p] = "judge"
             \/ At(p, "judge") /\ pc'[p] = "report"
             \/ At(p, "report") /\ pc'[p] = "acceptance"
      BY <2>9 DEF TypeInv, ProcessOK, Reverify, Judge, Report, Goto, nodes
    <3> QED
      BY <1>0, <2>3, <2>4, <3>1, HostsKeeps DEF Hosts, CleanSoFar, At, guests
  <2> QED
    BY <1>2, <2>5, <2>6, <2>7, <2>8, <2>9 DEF CleanUp
<1> QED
  BY <1>1, <1>2

LEMMA CleanStep ==
  ASSUME TypeInv, FileInv, CleanInv, [Next]_vars
  PROVE  CleanInv'
<1>1. CASE \E p \in Procs : Step(p)
  BY <1>1, OutsideClean, MeasureClean, CleanUpClean DEF Step
<1>2. CASE (\E r \in Runs : PreflightAges(r)) \/ UNCHANGED vars
  <2>1. UNCHANGED guests /\ UNCHANGED <<pc, cur, named, good>>
    BY <1>2 DEF PreflightAges, nodes, guests, memory, vars
  <2> QED
    BY <2>1 DEF CleanInv, CleanSoFar, guests
<1>3. CASE Lapse
  <2>1. /\ UNCHANGED <<pc, cur, named, good>>
        /\ UNCHANGED guests \/ (sidecar' = Nobody /\ objs' = {} /\ ports' = Nobody)
    BY <1>3 DEF Lapse, Wiped, nodes, memory
  <2>2. ASSUME NEW p \in Procs PROVE CleanSoFar(p)'
    <3>1. CASE pc[p] \in Measuring
      <4>1. cur[p] # Nobody /\ CleanSoFar(p)
        BY <3>1, RunOf DEF CleanInv, At, Measuring, Body, Concluding
      <4> QED
        BY <2>1, <4>1 DEF CleanSoFar, guests
    <3>2. CASE pc[p] \notin Measuring
      BY <2>1, <3>2 DEF CleanInv, CleanSoFar, Measuring, Body, Concluding
    <3> QED
      BY <3>1, <3>2
  <2> QED
    BY <2>2 DEF CleanInv
<1> QED
  BY <1>1, <1>2, <1>3 DEF Next

\* Only Judge accepts, and then nothing of the workload is left on the nodes.
LEMMA AcceptsClean ==
  ASSUME TypeInv, FileInv, CleanInv, [Next]_vars, NEW r \in Runs,
         verdict[r] # "accepted", verdict'[r] = "accepted"
  PROVE  sidecar # r /\ r \notin objs /\ ports # r
<1>1. PICK p \in Procs : Refuse(p) \/ Judge(p)
  BY DEF Next, Step, Start, Preparation, MakePreparation, Reserve, Allocate, Image,
         Tools, Authority, Probe, SavePreflight, Deployment, MakeDeployment,
         DeploymentRunning, Playbook, LabelNetwork, DeploymentEnds, DeploymentFails,
         Session, Verify, SaveEvidence, Prove, Workload, Measure, OpenExperiment,
         PlanFails, Apply, Patch, Forward, Collect, BodyFails, CleanUp, Unforward,
         Unpatch, SkipUnpatch, Delete, Reverify, Report, Accept, Die,
         PreflightAges, Lapse, results, vars
<1>2. Judge(p) /\ cur[p] = r /\ good[p]
  BY <1>1 DEF TypeInv, ResultOK, Refuse, Judge
<1> QED
  BY <1>2 DEF CleanInv, CleanSoFar, Judge, At

\* A workload is accepted only when its broker, its objects and its port-forward
\* are gone (AcceptedIsClean), while other runs measure on the same nodes.
THEOREM AcceptedClean == Spec => AcceptedIsClean
<1>1. Init => CleanInv
  BY DEF Init, CleanInv, CleanSoFar
<1>2. TypeInv /\ FileInv /\ CleanInv /\ [Next]_vars => CleanInv'
  BY CleanStep
<1>3. TypeInv /\ FileInv /\ CleanInv /\ [Next]_vars =>
        [ \A r \in Runs :
            verdict[r] # "accepted" /\ verdict'[r] = "accepted" =>
              sidecar # r /\ r \notin objs /\ ports # r ]_vars
  BY AcceptsClean
<1> QED
  BY <1>1, <1>2, <1>3, Invariance, PTL DEF Spec, AcceptedIsClean

-----------------------------------------------------------------------------
(* What a killed worker leaves behind.                                     *)

\* A run with nothing to its name but a directory has no experiment.
LEMMA NoExperimentYet ==
  ASSUME FileInv, NEW r \in Runs, man[r] \in {"bare", "running"}
  PROVE  exp[r] = "none"
BY DEF FileInv, Backed

\* No process writes results of a run whose worker was killed halfway, or becomes
\* its worker.
LEMMA WritesOwnResults ==
  ASSUME TypeInv, FileInv, NEW p \in Procs, Step(p), NEW r \in Runs, HalfDone(r)
  PROVE  /\ man'[r] = man[r] /\ exp'[r] = exp[r] /\ verdict'[r] = verdict[r]
         /\ pc'[p] \in Deploying \cup Measuring \cup {"refuse"} => cur'[p] # r
<1>1. Fits(p)
  BY StepFits
<1>2. CASE cur[p] # r
  <2>1. /\ man'[r] = man[r] /\ exp'[r] = exp[r] /\ verdict'[r] = verdict[r]
        /\ pc'[p] \in Workers => cur'[p] = cur[p]
    BY <1>1, <1>2 DEF Fits
  <2> QED
    BY <1>2, <2>1 DEF Workers
<1>3. CASE cur[p] = r
  <2>1. /\ pc[p] \notin Deploying \cup Measuring \cup {"refuse"} /\ PlaceOK(p)
        /\ cur[p] # Nobody
    BY <1>3, NamesAssumption DEF HalfDone, FileInv
  <2>2. pc[p] # "report"
    <3>1. At(p, "report") => verdict[r] # "none" /\ exp[r] = "open"
      BY <1>3, <2>1 DEF PlaceOK
    <3>2. At(p, "report") => man[r] \notin {"bare", "running"}
      BY <3>1, NoExperimentYet
    <3> QED
      BY <3>1, <3>2 DEF HalfDone, At
  <2>3. ~At(p, "idle")
    BY <2>1 DEF TypeInv, ProcessOK
  <2>4. CASE MakeDeployment(p) \/ OpenExperiment(p) \/ Prove(p)
    <3>1. ~OpenExperiment(p)
      BY <1>3, <2>1 DEF OpenExperiment, HalfDone, PlaceOK, At
    <3>2. ~MakeDeployment(p)
      BY <1>3 DEF MakeDeployment, HalfDone, FileInv, Backed
    <3>3. Prove(p) /\ man[r] \in {"deployed", "proven"}
      BY <1>3, <2>1, <2>4, <3>1, <3>2 DEF Prove, PlaceOK, At
    <3>4. exp[r] # "none" /\ man[r] = "proven"
      BY <3>3 DEF HalfDone, FileInv, Backed
    <3>5. cur' = cur /\ pc'[p] = "workload"
      BY <2>3, <3>3, Moved, PlacesAreCommands DEF Prove
    <3> QED
      BY <1>3, <3>3, <3>4, <3>5
         DEF TypeInv, ResultOK, Prove, Deploying, Measuring, Body, Concluding
  <2>5. CASE ~(MakeDeployment(p) \/ OpenExperiment(p) \/ Prove(p))
    <3>1. \/ Preparation(p) \/ Authority(p) \/ Probe(p) \/ SavePreflight(p)
          \/ Session(p) \/ Verify(p) \/ SaveEvidence(p) \/ Workload(p)
          \/ Accept(p) \/ Die(p)
      BY <2>1, <2>2, <2>3, <2>5
         DEF Step, Start, Deployment, DeploymentRunning, Playbook, LabelNetwork,
             DeploymentEnds, DeploymentFails, Measure, PlanFails, Refuse, Apply,
             Patch, Forward, Collect, BodyFails, CleanUp, Unforward, Unpatch,
             SkipUnpatch, Delete, Reverify, Judge, Report, At, Deploying,
             Measuring, Body, Concluding
    <3>2. man' = man /\ exp' = exp /\ verdict' = verdict
      BY <3>1 DEF Preparation, MakePreparation, Reserve, Allocate, Image, Tools,
                  Authority, Probe, SavePreflight, Session, Verify, SaveEvidence,
                  Workload, Accept, Die, results
    <3>3. pc'[p] \in Free \cup {"idle", "verify", "evidence", "prove", "open"}
      BY <3>1, FreePlaces
         DEF TypeInv, ProcessOK, Preparation, MakePreparation, Reserve, Allocate,
             Image, Tools, Authority, Probe, SavePreflight, Session, Verify,
             SaveEvidence, Workload, Accept, Die, Goto, End
    <3>4. pc'[p] \notin Deploying \cup Measuring \cup {"refuse"}
      BY <3>3 DEF Free, Workers, Deploying, Measuring, Body, Concluding
    <3> QED
      BY <3>2, <3>4
  <2> QED
    BY <2>4, <2>5
<1> QED
  BY <1>2, <1>3

LEMMA HalfDoneStays ==
  ASSUME TypeInv, FileInv, [Next]_vars, NEW r \in Runs, HalfDone(r)
  PROVE  /\ HalfDone(r)'
         /\ man'[r] = man[r] /\ exp'[r] = exp[r] /\ verdict'[r] = verdict[r]
<1>1. ASSUME NEW p \in Procs, Step(p)
      PROVE  /\ HalfDone(r)'
             /\ man'[r] = man[r] /\ exp'[r] = exp[r] /\ verdict'[r] = verdict[r]
  <2>1. /\ man'[r] = man[r] /\ exp'[r] = exp[r] /\ verdict'[r] = verdict[r]
        /\ pc'[p] \in Deploying \cup Measuring \cup {"refuse"} => cur'[p] # r
    BY <1>1, WritesOwnResults
  <2>2. \A q \in Procs : q # p => pc'[q] = pc[q] /\ cur'[q] = cur[q]
    BY <1>1, StepFits DEF Fits
  <2> QED
    BY <2>1, <2>2 DEF HalfDone
<1>2. CASE (\E s \in Runs : PreflightAges(s)) \/ Lapse \/ UNCHANGED vars
  <2>1. UNCHANGED results /\ UNCHANGED <<pc, cur>>
    BY <1>2 DEF PreflightAges, Lapse, vars, results
  <2> QED
    BY <2>1 DEF HalfDone, results
<1> QED
  BY <1>1, <1>2 DEF Next

\* What a killed worker left halfway stays as it is (HalfDoneForGood), whatever
\* is started afterwards: the run can only be given up.
THEOREM HalfDoneIsLost == Spec => HalfDoneForGood
<1>1. TypeInv /\ FileInv /\ [Next]_vars =>
        [ \A r \in Runs : HalfDone(r) =>
            /\ HalfDone(r)'
            /\ man'[r] = man[r] /\ exp'[r] = exp[r] /\ verdict'[r] = verdict[r] ]_vars
  BY HalfDoneStays
<1> QED
  BY <1>1, Invariance, PTL DEF Spec, HalfDoneForGood

\* A port-forward belongs to a run whose experiment was opened.
ForwardInv == \A r \in Runs : ports = r => exp[r] # "none"

\* The steps that touch the port, and what becomes of experiments in any step.
LEMMA PortMoves ==
  ASSUME TypeInv, FileInv, NEW p \in Procs, Step(p)
  PROVE  \/ ports' = ports
         \/ Image(p) /\ ports' = Nobody /\ ~space'
         \/ Forward(p) /\ ports = Nobody /\ ports' = cur[p]
         \/ Unforward(p) /\ ports = cur[p] /\ ports' = Nobody
<1>1. CASE Image(p) \/ Forward(p) \/ Unforward(p)
  BY <1>1 DEF Image, Forward, Unforward, Wiped
<1>2. CASE ~(Image(p) \/ Forward(p) \/ Unforward(p))
  BY <1>2
     DEF Step, Start, Preparation, MakePreparation, Reserve, Allocate, Tools,
         Authority, Probe, SavePreflight, Deployment, MakeDeployment,
         DeploymentRunning, Playbook, LabelNetwork, DeploymentEnds, DeploymentFails,
         Session, Verify, SaveEvidence, Prove, Workload, Measure, OpenExperiment,
         PlanFails, Refuse, Apply, Patch, Collect, BodyFails, CleanUp, Unpatch,
         SkipUnpatch, Delete, Reverify, Judge, Report, Accept, Die, nodes, guests
<1> QED
  BY <1>1, <1>2

LEMMA ExperimentStays ==
  ASSUME TypeInv, FileInv, [Next]_vars, NEW r \in Runs, exp[r] # "none"
  PROVE  exp'[r] # "none"
<1>1. ASSUME NEW p \in Procs, Step(p) PROVE exp'[r] # "none"
  <2>1. \/ exp' = exp
        \/ \E s \in {"open", "failed", "accepted"} : exp' = [exp EXCEPT ![cur[p]] = s]
    BY <1>1
       DEF Step, Start, Preparation, MakePreparation, Reserve, Allocate, Image,
           Tools, Authority, Probe, SavePreflight, Deployment, MakeDeployment,
           DeploymentRunning, Playbook, LabelNetwork, DeploymentEnds,
           DeploymentFails, Session, Verify, SaveEvidence, Prove, Workload,
           Measure, OpenExperiment, PlanFails, Refuse, Apply, Patch, Forward,
           Collect, BodyFails, CleanUp, Unforward, Unpatch, SkipUnpatch, Delete,
           Reverify, Judge, Report, Accept, Die, results
  <2> QED
    BY <2>1 DEF TypeInv, ResultOK
<1>2. CASE (\E s \in Runs : PreflightAges(s)) \/ Lapse \/ UNCHANGED vars
  BY <1>2 DEF PreflightAges, Lapse, vars, results
<1> QED
  BY <1>1, <1>2 DEF Next

LEMMA ForwardStep ==
  ASSUME TypeInv, FileInv, ForwardInv, [Next]_vars
  PROVE  ForwardInv'
<1> SUFFICES ASSUME NEW r \in Runs, ports' = r PROVE exp'[r] # "none"
  BY DEF ForwardInv
<1>1. CASE ports = r
  BY <1>1, ExperimentStays DEF ForwardInv
<1>2. CASE ports # r
  <2>1. r # Nobody
    BY NamesAssumption
  <2>2. PICK p \in Procs : Forward(p) /\ cur[p] = r
    BY <1>2, <2>1, PortMoves DEF Next, PreflightAges, Lapse, Wiped, nodes, guests, vars
  <2>3. exp[r] = "open"
    BY <2>2 DEF FileInv, PlaceOK, Forward, At, Measuring, Body
  <2> QED
    BY <2>3, ExperimentStays
<1> QED
  BY <1>1, <1>2

\* A process begins to measure a run only when it opens its experiment.
LEMMA MeasuresAfresh ==
  ASSUME TypeInv, FileInv, NEW p \in Procs, Step(p),
         pc'[p] \in Measuring, pc[p] \notin Measuring
  PROVE  OpenExperiment(p)
<1> USE DEF Measuring, Body, Concluding
<1>1. CASE \/ \E r \in Runs : Start(p, r)
           \/ Preparation(p) \/ Authority(p) \/ Probe(p) \/ SavePreflight(p)
           \/ Accept(p) \/ Die(p)
  BY <1>1 DEF TypeInv, ProcessOK, Start, Preparation, MakePreparation, Reserve,
              Allocate, Image, Tools, Authority, Probe, SavePreflight, Accept, Die,
              Goto, End
<1>2. CASE \/ Deployment(p) \/ Session(p) \/ Verify(p) \/ SaveEvidence(p)
           \/ Prove(p) \/ Workload(p)
  BY <1>2 DEF TypeInv, ProcessOK, Deployment, MakeDeployment, DeploymentRunning,
              Playbook, LabelNetwork, DeploymentEnds, DeploymentFails, Session,
              Verify, SaveEvidence, Prove, Workload, Goto, End
<1>3. CASE Measure(p) \/ CleanUp(p)
  BY <1>3 DEF TypeInv, ProcessOK, Measure, PlanFails, Refuse, Apply, Patch, Forward,
              Collect, BodyFails, CleanUp, Unforward, Unpatch, SkipUnpatch, Delete,
              Reverify, Judge, Report, At, Goto, End
<1> QED
  BY <1>1, <1>2, <1>3 DEF Step

LEMMA TakenStays ==
  ASSUME TypeInv, FileInv, ForwardInv, [Next]_vars, NEW r \in Runs, Orphaned(r)
  PROVE  /\ Orphaned(r)' \/ (ports' = Nobody /\ ~space')
         /\ \A p \in Procs : At(p, "forward") => pc'[p] # "collect"
<1>1. r # Nobody /\ exp[r] # "none" /\ ports = r
  BY NamesAssumption DEF Orphaned, ForwardInv
<1>2. ASSUME NEW p \in Procs, Step(p)
      PROVE  /\ Orphaned(r)' \/ (ports' = Nobody /\ ~space')
             /\ \A q \in Procs : At(q, "forward") => pc'[q] # "collect"
  <2>1. \A q \in Procs : q # p => pc'[q] = pc[q] /\ cur'[q] = cur[q]
    BY <1>2, StepFits DEF Fits
  <2>2. ports' = r \/ (ports' = Nobody /\ ~space')
    <3>1. ~(Unforward(p) /\ ports = cur[p])
      BY <1>1 DEF Orphaned, Unforward, At, Measuring, Concluding
    <3> QED
      BY <1>1, <1>2, <3>1, PortMoves
  <2>3. cur'[p] = r => pc'[p] \notin Measuring
    <3> SUFFICES ASSUME cur'[p] = r, pc'[p] \in Measuring PROVE FALSE
      OBVIOUS
    <3>1. cur[p] = r
      BY <1>2, StepFits DEF Fits, Workers
    <3>2. OpenExperiment(p)
      BY <1>2, <3>1, MeasuresAfresh DEF Orphaned
    <3> QED
      BY <1>1, <3>1, <3>2 DEF OpenExperiment
  <2>4. At(p, "forward") => pc'[p] # "collect"
    <3> SUFFICES ASSUME At(p, "forward"), pc'[p] = "collect" PROVE FALSE
      OBVIOUS
    <3>1. Forward(p) \/ BodyFails(p) \/ Die(p)
      BY <1>2 DEF Step, Start, Preparation, MakePreparation, Reserve, Allocate, Image,
            Tools, Authority, Probe, SavePreflight, Deployment, MakeDeployment,
            DeploymentRunning, Playbook, LabelNetwork, DeploymentEnds,
            DeploymentFails, Session, Verify, SaveEvidence, Prove, Workload,
            Measure, OpenExperiment, PlanFails, Refuse, Apply, Patch, Collect,
            CleanUp, Unforward, Unpatch, SkipUnpatch, Delete, Reverify, Judge,
            Report, Accept, At
    <3> QED
      BY <1>1, <3>1 DEF TypeInv, ProcessOK, Forward, BodyFails, Die, Goto, End
  <2>5. \A q \in Procs : At(q, "forward") => pc'[q] # "collect"
    BY <2>1, <2>4 DEF At
  <2> QED
    BY <2>1, <2>2, <2>3, <2>5 DEF Orphaned
<1>3. CASE (\E s \in Runs : PreflightAges(s)) \/ Lapse \/ UNCHANGED vars
  <2>1. /\ UNCHANGED <<pc, cur>>
        /\ ports' = ports \/ (ports' = Nobody /\ ~space')
    BY <1>3 DEF PreflightAges, Lapse, Wiped, nodes, guests, vars
  <2> QED
    BY <2>1 DEF Orphaned, At
<1> QED
  BY <1>2, <1>3 DEF Next

\* A port-forward that outlived its process keeps the port until the nodes are
\* wiped (PortStaysTaken): no run whatever gets its telemetry until then.
THEOREM ForwardIsNotReaped == Spec => PortStaysTaken
<1>1. Init => ForwardInv
  BY NamesAssumption DEF Init, ForwardInv
<1>2. TypeInv /\ FileInv /\ ForwardInv /\ [Next]_vars => ForwardInv'
  BY ForwardStep
<1>3. TypeInv /\ FileInv /\ ForwardInv /\ [Next]_vars =>
        [ \A r \in Runs : Orphaned(r) =>
            /\ Orphaned(r)' \/ (ports' = Nobody /\ ~space')
            /\ \A p \in Procs : At(p, "forward") => pc'[p] # "collect" ]_vars
  BY TakenStays
<1> QED
  BY <1>1, <1>2, <1>3, Invariance, PTL DEF Spec, PortStaysTaken
=============================================================================
