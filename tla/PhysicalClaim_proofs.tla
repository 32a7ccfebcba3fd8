------------------------ MODULE PhysicalClaim_proofs ------------------------
(***************************************************************************)
(* Proofs about PhysicalClaim, for any number of processes, runs and       *)
(* devices, any wiring and any number of faults.                           *)
(***************************************************************************)
EXTENDS PhysicalClaim, TLAPS

-----------------------------------------------------------------------------
(* The plans are sequences of moves.                                       *)

\* Whatever a command is about to do to the hardware is a sequence of
\* transitions of devices (prepare, reconcile and release in resources.py).
LEMMA PlanType ==
  ASSUME NEW o, NEW r \in Runs
  PROVE  Plan(o, r) \in Seq(Move)
<1> DEFINE n == Len(UeRails[r])
<1>1. UeRails[r] \in Seq(Devices) /\ Radio[r] \in Devices
  BY TopologyAssumption
<1>2. n \in Nat /\ \A i \in 1..n : UeRails[r][i] \in Devices
  BY <1>1
<1>3. ASSUME NEW b \in BOOLEAN PROVE PowerOn(r, b) \in Seq(Move)
  <2>1. [i \in 1..n |-> [dev |-> UeRails[r][i], to |-> "on", look |-> TRUE]]
          \in Seq(Move)
    BY <1>2 DEF Move
  <2>2. << [dev |-> Radio[r], to |-> "on", look |-> b] >> \in Seq(Move)
    BY <1>1, <1>3 DEF Move
  <2> QED
    BY <2>1, <2>2 DEF PowerOn
<1>4. PowerOff(r) \in Seq(Move)
  <2>1. \A i \in 1..n : n + 1 - i \in 1..n
    BY <1>2
  <2>2. [i \in 1..n |->
           [dev |-> UeRails[r][n + 1 - i], to |-> "off", look |-> FALSE]]
          \in Seq(Move)
    BY <1>2, <2>1 DEF Move
  <2>3. << [dev |-> Radio[r], to |-> "off", look |-> FALSE] >> \in Seq(Move)
    BY <1>1 DEF Move
  <2> QED
    BY <2>2, <2>3 DEF PowerOff
<1> QED
  BY <1>3, <1>4 DEF Plan

-----------------------------------------------------------------------------
(* Type correctness.                                                       *)

\* Commands start, write their files and get their claim.
LEMMA TypeOfClaiming ==
  ASSUME TypeOK, NEW p \in Procs,
         \/ \E r \in Runs : StartRun(p, r) \/ StartRelease(p, r)
         \/ WriteTopology(p) \/ ClaimCheck(p) \/ ClaimCreate(p) \/ ClaimFill(p)
         \/ TopologyFails(p) \/ ClaimFillFails(p) \/ Undo(p)
         \/ ClaimMatch(p) \/ LeaseCheck(p) \/ StopGnb(p)
  PROVE  TypeOK'
<1> USE DEF TypeOK, Goto, files, env, gnb
<1>1. ASSUME NEW r \in Runs, StartRun(p, r) PROVE TypeOK'
  BY <1>1 DEF StartRun, MayStart, Labels
<1>2. ASSUME NEW r \in Runs, StartRelease(p, r) PROVE TypeOK'
  BY <1>2 DEF StartRelease, MayStart, Labels
<1>3. CASE WriteTopology(p)
  BY <1>3 DEF WriteTopology, Labels
<1>4. CASE ClaimCheck(p)
  BY <1>4 DEF ClaimCheck, Labels
<1>5. CASE ClaimCreate(p)
  <2>1. claim' \in Claims /\ run[p] \in Runs
    BY <1>5 DEF ClaimCreate, Claims
  <2>2. pc' \in [Procs -> Labels]
          /\ \A q \in Procs : pc'[q] # "verify" \/ pc'[q] = pc[q]
    BY <1>5 DEF ClaimCreate, Labels
  <2>3. \A q \in Procs : pc'[q] # "idle" => run[q] \in Runs
    BY <1>5, <2>1 DEF ClaimCreate
  <2> QED
    BY <1>5, <2>1, <2>2, <2>3 DEF ClaimCreate
<1>6. CASE ClaimFill(p)
  BY <1>6 DEF ClaimFill, Claims, Labels
<1>7. CASE TopologyFails(p)
  BY <1>7, MaxFaultsAssumption DEF TopologyFails, Fault, Labels
<1>8. CASE ClaimFillFails(p)
  BY <1>8, MaxFaultsAssumption DEF ClaimFillFails, Fault, Claims, Labels
<1>9. CASE Undo(p)
  <2>1. dir' \in [Runs -> {"absent", "bare", "topology"}]
    BY <1>9 DEF Undo
  <2>2. \A q \in Procs : pc'[q] # "idle" => q # p /\ pc'[q] = pc[q]
    BY <1>9 DEF Undo, End
  <2> QED
    BY <1>9, <2>1, <2>2 DEF Undo, End, Labels
<1>10. CASE ClaimMatch(p)
  BY <1>10 DEF ClaimMatch, Labels
<1>11. CASE LeaseCheck(p)
  BY <1>11, PlanType DEF LeaseCheck, Labels
<1>12. CASE StopGnb(p)
  BY <1>12 DEF StopGnb, Labels
<1> QED
  BY <1>1, <1>2, <1>3, <1>4, <1>5, <1>6, <1>7, <1>8, <1>9, <1>10, <1>11, <1>12

\* Commands drive the hardware, work with it and release it.
LEMMA TypeOfDriving ==
  ASSUME TypeOK, NEW p \in Procs,
         \/ Look(p) \/ Mutate(p) \/ Verify(p) \/ Prepared(p) \/ Reconciled(p)
         \/ StartGnb(p) \/ Cleanup(p) \/ Leave(p) \/ PoweredOff(p) \/ Unlink(p)
         \/ WriteReleased(p)
  PROVE  TypeOK'
<1> USE DEF TypeOK, Goto, files, env, gnb
<1>1. todo[p] \in Seq(Move)
  OBVIOUS
<1>2. todo[p] # << >> =>
        /\ Tail(todo[p]) \in Seq(Move)
        /\ Next1(p) \in Move
  BY <1>1 DEF Next1
<1>3. CASE Look(p)
  BY <1>2, <1>3 DEF Look, Finish1
<1>4. CASE Mutate(p)
  <2>1. Next1(p).dev \in Devices /\ Next1(p).to \in {"on", "off"}
    BY <1>2, <1>4 DEF Mutate, Move
  <2>2. After(Next1(p).dev, Next1(p).to) \in {"on", "stopping", "off"}
    BY <2>1 DEF After
  <2>3. power' \in [Devices -> {"on", "stopping", "off"}]
    BY <1>4, <2>2 DEF Mutate, Fault
  <2>4. faults' \in 0..MaxFaults
    BY <1>4, MaxFaultsAssumption DEF Mutate, Fault
  <2>5. pc' \in [Procs -> Labels] /\ \A q \in Procs \ {p} : pc'[q] = pc[q]
    BY <1>4 DEF Mutate, Labels
  <2>6. \A q \in Procs : pc'[q] = "verify" => todo[q] # << >>
    BY <1>4, <2>5 DEF Mutate
  <2>7. \A q \in Procs : pc'[q] # "idle" => run[q] \in Runs
    BY <1>4, <2>5 DEF Mutate
  <2> QED
    BY <1>4, <2>3, <2>4, <2>5, <2>6, <2>7 DEF Mutate
<1>5. CASE Verify(p)
  BY <1>2, <1>5 DEF Verify, Finish1, Labels
<1>6. CASE Prepared(p)
  BY <1>6 DEF Prepared, Driven, Labels
<1>7. CASE Reconciled(p)
  BY <1>7 DEF Reconciled, Driven, Labels
<1>8. CASE StartGnb(p) \/ Cleanup(p)
  BY <1>8 DEF StartGnb, Cleanup, Labels
<1>9. CASE Leave(p)
  BY <1>9 DEF Leave, End, Labels
<1>10. CASE PoweredOff(p)
  BY <1>10 DEF PoweredOff, Driven, Labels
<1>11. CASE Unlink(p)
  BY <1>11 DEF Unlink, Claims, Labels
<1>12. CASE WriteReleased(p)
  BY <1>12 DEF WriteReleased, End, Labels
<1> QED
  BY <1>3, <1>4, <1>5, <1>6, <1>7, <1>8, <1>9, <1>10, <1>11, <1>12

\* Retirement, refusals, crashes and the testbed.
LEMMA TypeOfTheRest ==
  ASSUME TypeOK,
         \/ \E p \in Procs :
              \/ Gateway(p) \/ RetireRead(p) \/ RetireReread(p)
              \/ RetireUnlink(p) \/ Raise(p) \/ Crash(p)
         \/ Testbed
  PROVE  TypeOK'
<1> USE DEF TypeOK, Goto, End, files, env, gnb
<1>1. ASSUME NEW p \in Procs, Gateway(p) PROVE TypeOK'
  <2>1. faults' \in 0..MaxFaults
    BY <1>1, MaxFaultsAssumption DEF Gateway, Fault
  <2>2. /\ pc' \in [Procs -> Labels] /\ pc[p] # "idle"
        /\ \A q \in Procs : q = p \/ pc'[q] = pc[q]
        /\ pc'[p] # "verify"
    BY <1>1 DEF Gateway, Labels
  <2> QED
    BY <1>1, <2>1, <2>2 DEF Gateway
<1>2. ASSUME NEW p \in Procs, RetireRead(p) PROVE TypeOK'
  BY <1>2 DEF RetireRead, Labels
<1>3. ASSUME NEW p \in Procs, RetireReread(p) PROVE TypeOK'
  BY <1>3 DEF RetireReread, Labels
<1>4. ASSUME NEW p \in Procs, RetireUnlink(p) PROVE TypeOK'
  BY <1>4 DEF RetireUnlink, Claims, Labels
<1>5. ASSUME NEW p \in Procs, Raise(p) PROVE TypeOK'
  BY <1>5 DEF Raise, Labels
<1>6. ASSUME NEW p \in Procs, Crash(p) PROVE TypeOK'
  BY <1>6, MaxFaultsAssumption DEF Crash, Fault, Labels
<1>7. ASSUME NEW d \in Devices, PowerDown(d) PROVE TypeOK'
  BY <1>7 DEF PowerDown
<1>8. ASSUME NEW d \in Devices, Tenant(d) PROVE TypeOK'
  BY <1>8 DEF Tenant
<1>9. CASE LeaseEnds
  <2>1. faults' \in 0..MaxFaults
    BY <1>9, MaxFaultsAssumption DEF LeaseEnds, Fault
  <2>2. stale' \subseteq Procs /\ lease' \in BOOLEAN
    BY <1>9 DEF LeaseEnds
  <2> QED
    BY <1>9, <2>1, <2>2 DEF LeaseEnds
<1>10. CASE LeaseReturns
  BY <1>10 DEF LeaseReturns
<1>11. CASE GnbLost
  BY <1>11, MaxFaultsAssumption DEF GnbLost, Fault
<1> QED
  BY <1>1, <1>2, <1>3, <1>4, <1>5, <1>6, <1>7, <1>8, <1>9, <1>10, <1>11 DEF Testbed

LEMMA TypeStep ==
  ASSUME TypeOK, [Next]_vars
  PROVE  TypeOK'
<1>1. CASE UNCHANGED vars
  BY <1>1 DEF TypeOK, vars, gnb
<1>2. CASE Next
  BY <1>2, TypeOfClaiming, TypeOfDriving, TypeOfTheRest
     DEF Next, Step, Break
<1> QED
  BY <1>1, <1>2

\* Every file, device and process is in one of the states the code knows,
\* whatever the processes, the testbed and the faults do.
THEOREM TypeCorrect == Spec => []TypeOK
<1>1. Init => TypeOK
  BY MaxFaultsAssumption DEF Init, TypeOK, Claims, Labels
<1>2. TypeOK /\ [Next]_vars => TypeOK'
  BY TypeStep
<1> QED
  BY <1>1, <1>2, PTL DEF Spec

-----------------------------------------------------------------------------
(* One command per run at a time: the holders of the claim.                *)

\* No two commands are about the same run.
Serial ==
  \A p, q \in Procs :
    p # q /\ pc[p] # "idle" /\ pc[q] # "idle" => run[p] # run[q]

\* A command that is past its topology has one.
Located ==
  \A p \in Procs :
    pc[p] \notin {"idle", "topology", "undo", "gateway", "claim-match"}
      => dir[run[p]] = "topology"

\* A run that is still being claimed was never released or retired.
Fresh ==
  \A p \in Procs :
    pc[p] \in Claiming => manifest[run[p]] = "absent" /\ run[p] \notin retired

\* A run that was prepared once is never prepared again.
Used ==
  \A r \in Runs :
    manifest[r] # "absent" \/ r \in retired => dir[r] = "topology"

IInv == TypeOK /\ Serial /\ Located /\ Fresh /\ Used /\ HoldersOwnClaim

\* The contents of active.json tell the runs apart.
LEMMA ClaimKinds ==
  /\ \A r : NoClaim # Whole(r) /\ NoClaim # Torn(r)
  /\ \A r, s : Torn(r) # Whole(s)
  /\ \A r, s : Whole(r) = Whole(s) => r = s
  /\ \A r, s : Torn(r) = Torn(s) => r = s
BY DEF NoClaim, Whole, Torn

\* A command that goes on is about the run it was about; the step of one
\* process is no step of another.
LEMMA RunIsKept ==
  ASSUME TypeOK, NEW p \in Procs, Step(p) \/ Break(p)
  PROVE  /\ pc[p] # "idle"
         /\ \A q \in Procs \ {p} : pc'[q] = pc[q] /\ run'[q] = run[q]
         /\ pc'[p] # "idle" => run'[p] = run[p]
<1> USE DEF TypeOK, Goto, End, files, env, gnb
<1>1. CASE Break(p)
  BY <1>1 DEF Break, TopologyFails, ClaimFillFails, Crash
<1>2. CASE WriteTopology(p) \/ ClaimCheck(p) \/ ClaimCreate(p) \/ ClaimFill(p)
           \/ Undo(p) \/ ClaimMatch(p) \/ LeaseCheck(p) \/ StopGnb(p)
  BY <1>2 DEF WriteTopology, ClaimCheck, ClaimCreate, ClaimFill, Undo,
              ClaimMatch, LeaseCheck, StopGnb
<1>3. CASE Look(p) \/ Mutate(p) \/ Verify(p) \/ Prepared(p) \/ Reconciled(p)
           \/ StartGnb(p) \/ Cleanup(p) \/ Leave(p)
  BY <1>3 DEF Look, Mutate, Verify, Prepared, Reconciled, Driven, StartGnb, Cleanup, Leave
<1>4. CASE PoweredOff(p) \/ Unlink(p) \/ WriteReleased(p) \/ Gateway(p)
           \/ RetireRead(p) \/ RetireReread(p) \/ RetireUnlink(p)
  BY <1>4 DEF PoweredOff, Driven, Unlink, WriteReleased, Gateway, RetireRead,
              RetireReread, RetireUnlink
<1>5. CASE Raise(p)
  BY <1>5 DEF Raise, Refused, Driven
<1> QED
  BY <1>1, <1>2, <1>3, <1>4, <1>5 DEF Step

\* The testbed runs no command and writes no file.
LEMMA TestbedStep ==
  ASSUME Testbed
  PROVE  UNCHANGED <<claim, dir, manifest, retired, pc, run>>
BY DEF Testbed, PowerDown, Tenant, LeaseEnds, LeaseReturns, GnbLost, files

LEMMA SerialStep ==
  ASSUME SerialUse, TypeOK, Serial, Next
  PROVE  Serial'
<1>1. ASSUME NEW p \in Procs, NEW r \in Runs, StartRun(p, r) \/ StartRelease(p, r)
      PROVE  Serial'
  <2>1. /\ \A q \in Procs \ {p} : pc'[q] = pc[q] /\ run'[q] = run[q]
        /\ run'[p] = r
    BY <1>1 DEF StartRun, StartRelease, MayStart, Goto, TypeOK
  <2>2. \A q \in Procs : pc[q] # "idle" => run[q] # r
    BY <1>1 DEF StartRun, StartRelease, MayStart
  <2> QED
    BY <2>1, <2>2 DEF Serial
<1>2. ASSUME NEW p \in Procs, Step(p) \/ Break(p) PROVE Serial'
  BY <1>2, RunIsKept DEF Serial
<1>3. CASE Testbed
  BY <1>3, TestbedStep DEF Serial
<1> QED
  BY <1>1, <1>2, <1>3 DEF Next

\* A command writes the files of its own run only.
LEMMA FilesOfOthers ==
  ASSUME TypeOK, NEW p \in Procs, Step(p) \/ Break(p),
         NEW r \in Runs, r # run[p]
  PROVE  /\ dir'[r] = dir[r] /\ manifest'[r] = manifest[r]
         /\ r \in retired' <=> r \in retired
<1> USE DEF TypeOK, Goto, End, files, env, gnb
<1>1. CASE Break(p)
  BY <1>1 DEF Break, TopologyFails, ClaimFillFails, Crash
<1>2. CASE WriteTopology(p) \/ ClaimCheck(p) \/ ClaimCreate(p) \/ ClaimFill(p)
           \/ Undo(p) \/ ClaimMatch(p) \/ LeaseCheck(p) \/ StopGnb(p)
  BY <1>2 DEF WriteTopology, ClaimCheck, ClaimCreate, ClaimFill, Undo,
              ClaimMatch, LeaseCheck, StopGnb
<1>3. CASE Look(p) \/ Mutate(p) \/ Verify(p) \/ Prepared(p) \/ Reconciled(p)
           \/ StartGnb(p) \/ Cleanup(p) \/ Leave(p)
  BY <1>3 DEF Look, Mutate, Verify, Prepared, Reconciled, Driven, StartGnb, Cleanup, Leave
<1>4. CASE PoweredOff(p) \/ Unlink(p) \/ WriteReleased(p) \/ Gateway(p)
           \/ RetireRead(p) \/ RetireReread(p) \/ RetireUnlink(p)
  BY <1>4 DEF PoweredOff, Driven, Unlink, WriteReleased, Gateway, RetireRead,
              RetireReread, RetireUnlink
<1>5. CASE Raise(p)
  BY <1>5 DEF Raise
<1> QED
  BY <1>1, <1>2, <1>3, <1>4, <1>5 DEF Step

\* What Located, Fresh and Used say of a command and its run, kept by the steps
\* of that command.
LEMMA OwnFiles ==
  ASSUME TypeOK, Located, Fresh, Used, NEW p \in Procs, Step(p) \/ Break(p)
  PROVE  /\ pc'[p] \notin {"idle", "topology", "undo", "gateway", "claim-match"}
              => dir'[run[p]] = "topology"
         /\ pc'[p] \in Claiming
              => manifest'[run[p]] = "absent" /\ run[p] \notin retired'
         /\ manifest'[run[p]] # "absent" \/ run[p] \in retired'
              => dir'[run[p]] = "topology"
<1> USE DEF TypeOK, Located, Fresh, Used, Claiming, Goto, End, files, env, gnb
<1>1. CASE Break(p)
  BY <1>1 DEF Break, TopologyFails, ClaimFillFails, Crash
<1>2. CASE WriteTopology(p) \/ ClaimCheck(p) \/ ClaimCreate(p) \/ ClaimFill(p)
           \/ Undo(p)
  BY <1>2 DEF WriteTopology, ClaimCheck, ClaimCreate, ClaimFill, Undo
<1>3. CASE ClaimMatch(p) \/ LeaseCheck(p) \/ StopGnb(p) \/ Look(p) \/ Mutate(p) \/ Verify(p)
           \/ Prepared(p) \/ Reconciled(p) \/ StartGnb(p) \/ Cleanup(p) \/ Leave(p)
  <2>1. CASE ClaimMatch(p) \/ LeaseCheck(p) \/ StopGnb(p) \/ Look(p) \/ Verify(p)
    BY <2>1 DEF ClaimMatch, OwnsClaim, LeaseCheck, StopGnb, Look, Verify
  <2>2. CASE Mutate(p)
    BY <2>2 DEF Mutate
  <2>3. CASE Prepared(p)
    BY <2>3 DEF Prepared, Driven
  <2>4. CASE Reconciled(p)
    BY <2>4 DEF Reconciled, Driven
  <2>5. CASE StartGnb(p) \/ Cleanup(p)
    BY <2>5 DEF StartGnb, Cleanup
  <2>6. CASE Leave(p)
    BY <2>6 DEF Leave
  <2> QED
    BY <1>3, <2>1, <2>2, <2>3, <2>4, <2>5, <2>6
<1>4. CASE PoweredOff(p) \/ Unlink(p) \/ WriteReleased(p) \/ Gateway(p)
           \/ RetireRead(p) \/ RetireReread(p) \/ RetireUnlink(p)
  BY <1>4 DEF PoweredOff, Driven, Unlink, WriteReleased, Gateway, RetireRead,
              RetireReread, RetireUnlink
<1>5. CASE Raise(p)
  BY <1>5 DEF Raise, Refused, Driven
<1> QED
  BY <1>1, <1>2, <1>3, <1>4, <1>5 DEF Step

LEMMA FilesStep ==
  ASSUME SerialUse, TypeOK, Serial, Located, Fresh, Used, Next
  PROVE  Located' /\ Fresh' /\ Used'
<1>1. ASSUME NEW p \in Procs, NEW r \in Runs, StartRun(p, r)
      PROVE  Located' /\ Fresh' /\ Used'
  <2>1. /\ \A q \in Procs \ {p} : pc'[q] = pc[q] /\ run'[q] = run[q]
        /\ run'[p] = r /\ pc'[p] \in {"topology", "claim-match"}
        /\ pc'[p] = "topology" => dir[r] = "absent"
        /\ \A s \in Runs : s # r \/ dir[r] # "absent" => dir'[s] = dir[s]
        /\ UNCHANGED <<manifest, retired>>
    BY <1>1 DEF StartRun, MayStart, Goto, TypeOK
  <2>2. \A q \in Procs : pc[q] # "idle" => run[q] # r /\ run[q] \in Runs
    BY <1>1 DEF StartRun, MayStart, TypeOK
  <2>3. Located'
    BY <2>1, <2>2 DEF Located
  <2>4. Fresh'
    BY <2>1, <2>2 DEF Fresh, Used, Claiming
  <2>5. Used'
    BY <2>1, <2>2 DEF Used
  <2> QED
    BY <2>3, <2>4, <2>5
<1>2. ASSUME NEW p \in Procs, NEW r \in Runs, StartRelease(p, r)
      PROVE  Located' /\ Fresh' /\ Used'
  BY <1>2 DEF StartRelease, MayStart, Goto, TypeOK, files, Located, Fresh, Used,
              Claiming
<1>3. ASSUME NEW p \in Procs, Step(p) \/ Break(p)
      PROVE  Located' /\ Fresh' /\ Used'
  <2>1. /\ pc[p] # "idle"
        /\ \A q \in Procs \ {p} : pc'[q] = pc[q] /\ run'[q] = run[q]
        /\ pc'[p] # "idle" => run'[p] = run[p]
    BY <1>3, RunIsKept
  <2>2. \A q \in Procs \ {p} :
          pc[q] # "idle" => run[q] # run[p] /\ run[q] \in Runs
    BY <2>1 DEF Serial, TypeOK
  <2>3. Located'
    BY <1>3, <2>1, <2>2, OwnFiles, FilesOfOthers DEF Located
  <2>4. Fresh'
    BY <1>3, <2>1, <2>2, OwnFiles, FilesOfOthers DEF Fresh, Claiming
  <2>5. Used'
    BY <1>3, OwnFiles, FilesOfOthers DEF Used
  <2> QED
    BY <2>3, <2>4, <2>5
<1>4. CASE Testbed
  BY <1>4, TestbedStep DEF Located, Fresh, Used
<1> QED
  BY <1>1, <1>2, <1>3, <1>4 DEF Next

\* A command changes active.json only when nobody holds the claim or it does
\* so itself, and afterwards it holds what it should.
LEMMA OwnClaim ==
  ASSUME TypeOK, HoldersOwnClaim, NEW p \in Procs, Step(p) \/ Break(p)
  PROVE  /\ \/ claim' = claim
            \/ claim \in {NoClaim, Torn(run[p]), Whole(run[p])}
         /\ pc'[p] \in Holding => claim' = Whole(run[p])
         /\ pc'[p] = "claim-fill" => claim' = Torn(run[p])
<1> USE DEF TypeOK, HoldersOwnClaim, Holding, Goto, End, files, env, gnb
<1>1. CASE Break(p)
  BY <1>1 DEF Break, TopologyFails, ClaimFillFails, Crash
<1>2. CASE WriteTopology(p) \/ ClaimCheck(p) \/ Undo(p) \/ Raise(p)
  BY <1>2 DEF WriteTopology, ClaimCheck, Undo, Raise, Refused, Driven
<1>3. CASE ClaimCreate(p)
  BY <1>3 DEF ClaimCreate
<1>4. CASE ClaimFill(p)
  BY <1>4 DEF ClaimFill
<1>5. CASE ClaimMatch(p) \/ LeaseCheck(p) \/ StopGnb(p) \/ Look(p) \/ Verify(p)
  BY <1>5 DEF ClaimMatch, OwnsClaim, LeaseCheck, StopGnb, Look, Verify
<1>6. CASE Mutate(p)
  BY <1>6 DEF Mutate
<1>7. CASE Prepared(p) \/ PoweredOff(p) \/ StartGnb(p) \/ Cleanup(p) \/ Leave(p)
  BY <1>7 DEF Prepared, PoweredOff, Driven, StartGnb, Cleanup, Leave
<1>8. CASE Reconciled(p)
  BY <1>8 DEF Reconciled, Driven
<1>9. CASE Unlink(p) \/ WriteReleased(p) \/ RetireUnlink(p)
  BY <1>9 DEF Unlink, WriteReleased, RetireUnlink
<1>10. CASE Gateway(p) \/ RetireRead(p) \/ RetireReread(p)
  BY <1>10 DEF Gateway, RetireRead, RetireReread
<1> QED
  BY <1>1, <1>2, <1>3, <1>4, <1>5, <1>6, <1>7, <1>8, <1>9, <1>10 DEF Step

LEMMA HolderStep ==
  ASSUME SerialUse, TypeOK, Serial, HoldersOwnClaim, Next
  PROVE  HoldersOwnClaim'
<1>1. ASSUME NEW p \in Procs, NEW r \in Runs, StartRun(p, r) \/ StartRelease(p, r)
      PROVE  HoldersOwnClaim'
  BY <1>1 DEF StartRun, StartRelease, Goto, TypeOK, files, HoldersOwnClaim,
              Holding
<1>2. ASSUME NEW p \in Procs, Step(p) \/ Break(p) PROVE HoldersOwnClaim'
  <2>1. /\ pc[p] # "idle"
        /\ \A q \in Procs \ {p} : pc'[q] = pc[q] /\ run'[q] = run[q]
        /\ pc'[p] # "idle" => run'[p] = run[p]
    BY <1>2, RunIsKept
  <2>2. \A q \in Procs \ {p} : pc[q] # "idle" => run[q] # run[p]
    BY <2>1 DEF Serial
  <2>3. ASSUME NEW q \in Procs \ {p}
        PROVE  /\ pc[q] \in Holding => claim' = Whole(run[q])
               /\ pc[q] = "claim-fill" => claim' = Torn(run[q])
    <3>1. /\ pc[q] \in Holding => claim = Whole(run[q])
          /\ pc[q] = "claim-fill" => claim = Torn(run[q])
          /\ pc[q] \in Holding => pc[q] # "idle"
      BY DEF HoldersOwnClaim, Holding
    <3>2. pc[q] \in Holding \cup {"claim-fill"} =>
            claim \notin {NoClaim, Torn(run[p]), Whole(run[p])}
      BY <2>2, <3>1, ClaimKinds
    <3> QED
      BY <1>2, <3>1, <3>2, OwnClaim
  <2>4. /\ pc'[p] \in Holding => claim' = Whole(run[p]) /\ run'[p] = run[p]
        /\ pc'[p] = "claim-fill" => claim' = Torn(run[p]) /\ run'[p] = run[p]
    BY <1>2, <2>1, OwnClaim DEF Holding
  <2> QED
    BY <2>1, <2>3, <2>4 DEF HoldersOwnClaim
<1>3. CASE Testbed
  BY <1>3, TestbedStep DEF HoldersOwnClaim
<1> QED
  BY <1>1, <1>2, <1>3 DEF Next

\* The inductive invariant of serial use.
THEOREM Invariance ==
  ASSUME SerialUse
  PROVE  Spec => []IInv
<1>1. Init => IInv
  <2>1. Init => TypeOK
    BY MaxFaultsAssumption DEF Init, TypeOK, Claims, Labels
  <2> QED
    BY <2>1 DEF Init, IInv, Serial, Located, Fresh, Claiming, Used,
                HoldersOwnClaim, Holding
<1>2. IInv /\ [Next]_vars => IInv'
  <2> SUFFICES ASSUME IInv, [Next]_vars PROVE IInv'
    OBVIOUS
  <2>1. CASE UNCHANGED vars
    BY <2>1 DEF IInv, TypeOK, Serial, Located, Fresh, Used, HoldersOwnClaim, vars
  <2>2. CASE Next
    BY <2>2, TypeStep, SerialStep, FilesStep, HolderStep DEF IInv
  <2> QED
    BY <2>1, <2>2
<1> QED
  BY <1>1, <1>2, PTL DEF Spec

\* When the operator runs one command per run at a time, a command that drives
\* the hardware, works with it or removes the claim does so under the complete
\* claim of its own run, although it looked at active.json once: no two runs
\* ever drive the testbed together.
THEOREM HoldersOwnTheirClaim ==
  ASSUME SerialUse
  PROVE  Spec => []HoldersOwnClaim
<1>1. IInv => HoldersOwnClaim
  BY DEF IInv
<1> QED
  BY <1>1, Invariance, PTL

-----------------------------------------------------------------------------
(* Any use: commands of one run may overlap.                               *)

\* A command that has made its run directory, and has not begun to release it.
Making(p) == pc[p] # "idle" /\ op[p] = "prepare"

\* The directory is there while its maker is, and has no second maker.
MakersDirectory ==
  /\ \A p \in Procs : pc[p] \in Claiming => op[p] = "prepare"
  /\ \A p \in Procs : Making(p) => dir[run[p]] # "absent"
  /\ \A p, q \in Procs : Making(p) /\ Making(q) /\ run[p] = run[q] => p = q

\* Who holds the claim, or has left anything behind but its directory, is past
\* claiming it.
PastClaiming ==
  \A r \in Runs :
    manifest[r] # "absent" \/ r \in retired \/ claim = Whole(r) =>
      /\ dir[r] # "absent"
      /\ \A p \in Procs : pc[p] \in Claiming => run[p] # r

UInv == TypeOK /\ MakersDirectory /\ PastClaiming

\* A command that is making a directory was doing so before; the others go on
\* with what they do.
LEMMA MakingIsKept ==
  ASSUME TypeOK, MakersDirectory, NEW p \in Procs, Step(p) \/ Break(p)
  PROVE  /\ Making(p)' => Making(p)
         /\ pc'[p] \in Claiming => pc[p] \in Claiming /\ op'[p] = op[p]
         /\ \A q \in Procs \ {p} : op'[q] = op[q]
<1> USE DEF TypeOK, Claiming, Making, Goto, End, files, env, gnb
<1>1. CASE Break(p)
  BY <1>1 DEF Break, TopologyFails, ClaimFillFails, Crash
<1>2. CASE WriteTopology(p) \/ ClaimCheck(p) \/ ClaimCreate(p) \/ ClaimFill(p)
           \/ Undo(p) \/ ClaimMatch(p) \/ LeaseCheck(p) \/ StopGnb(p)
  BY <1>2 DEF WriteTopology, ClaimCheck, ClaimCreate, ClaimFill, Undo,
              ClaimMatch, LeaseCheck, StopGnb
<1>3. CASE Look(p) \/ Mutate(p) \/ Verify(p) \/ Prepared(p) \/ Reconciled(p)
           \/ StartGnb(p) \/ Cleanup(p) \/ Leave(p)
  BY <1>3 DEF Look, Mutate, Verify, Prepared, Reconciled, Driven, StartGnb, Cleanup, Leave
<1>4. CASE PoweredOff(p) \/ Unlink(p) \/ WriteReleased(p) \/ Gateway(p)
           \/ RetireRead(p) \/ RetireReread(p) \/ RetireUnlink(p)
  BY <1>4 DEF PoweredOff, Driven, Unlink, WriteReleased, Gateway, RetireRead,
              RetireReread, RetireUnlink
<1>5. CASE Raise(p)
  BY <1>5 DEF Raise
<1> QED
  BY <1>1, <1>2, <1>3, <1>4, <1>5 DEF Step

\* What a command may do to the claim, to its directory and to the traces of
\* its run, step by step.
LEMMA ClaimAndDirectory ==
  ASSUME TypeOK, NEW p \in Procs, Step(p) \/ Break(p)
  PROVE  \/ /\ claim' = claim /\ manifest' = manifest /\ retired' = retired
            /\ \/ dir' = dir
               \/ pc[p] = "topology" /\ dir' = [dir EXCEPT ![run[p]] = "topology"]
               \/ Undo(p)
         \/ /\ claim' = claim /\ dir' = dir
            /\ Prepared(p) \/ WriteReleased(p) \/ RetireRead(p)
         \/ /\ UNCHANGED <<dir, manifest, retired>>
            /\ \/ claim = NoClaim /\ claim' = Torn(run[p])
               \/ ClaimFill(p)
               \/ claim' = NoClaim
<1> USE DEF TypeOK, Goto, End, files, env, gnb
<1>1. CASE Break(p)
  BY <1>1 DEF Break, TopologyFails, ClaimFillFails, Crash
<1>2. CASE WriteTopology(p) \/ ClaimCheck(p) \/ ClaimCreate(p) \/ ClaimFill(p)
           \/ Undo(p) \/ ClaimMatch(p) \/ LeaseCheck(p) \/ StopGnb(p)
  BY <1>2 DEF WriteTopology, ClaimCheck, ClaimCreate, ClaimFill, Undo,
              ClaimMatch, LeaseCheck, StopGnb
<1>3. CASE Look(p) \/ Mutate(p) \/ Verify(p) \/ Prepared(p) \/ Reconciled(p)
           \/ StartGnb(p) \/ Cleanup(p) \/ Leave(p)
  BY <1>3 DEF Look, Mutate, Verify, Prepared, Reconciled, Driven, StartGnb, Cleanup, Leave
<1>4. CASE PoweredOff(p) \/ Unlink(p) \/ WriteReleased(p) \/ Gateway(p)
           \/ RetireRead(p) \/ RetireReread(p) \/ RetireUnlink(p)
  BY <1>4 DEF PoweredOff, Driven, Unlink, WriteReleased, Gateway, RetireRead,
              RetireReread, RetireUnlink
<1>5. CASE Raise(p)
  BY <1>5 DEF Raise
<1> QED
  BY <1>1, <1>2, <1>3, <1>4, <1>5 DEF Step

\* A directory is never taken from under its maker, and gets no second one.
LEMMA MakersStep ==
  ASSUME TypeOK, MakersDirectory, Next
  PROVE  MakersDirectory'
<1>1. ASSUME NEW p \in Procs, NEW r \in Runs, StartRun(p, r) \/ StartRelease(p, r)
      PROVE  MakersDirectory'
  <2>1. /\ \A q \in Procs \ {p} : pc'[q] = pc[q] /\ run'[q] = run[q] /\ op'[q] = op[q]
        /\ run'[p] = r /\ pc'[p] \notin {"idle"} /\ pc[p] = "idle"
        /\ \/ /\ pc'[p] = "topology" /\ op'[p] = "prepare"
              /\ dir[r] = "absent" /\ dir' = [dir EXCEPT ![r] = "bare"]
           \/ /\ pc'[p] \in {"claim-match", "gateway"} /\ op'[p] # "prepare"
              /\ dir' = dir
    BY <1>1 DEF StartRun, StartRelease, MayStart, Goto, TypeOK, files
  <2>2. \A q \in Procs \ {p} : Making(q)' => Making(q) /\ run'[q] = run[q]
    BY <2>1 DEF Making
  <2>3. \A s \in Runs : dir[s] # "absent" => dir'[s] # "absent"
    BY <2>1 DEF TypeOK
  <2>4. \A q \in Procs : Making(q) => run[q] \in Runs
    BY DEF Making, TypeOK
  <2>5. \A q \in Procs : pc'[q] \in Claiming => op'[q] = "prepare"
    BY <2>1 DEF MakersDirectory, Claiming
  <2>6. ASSUME NEW q \in Procs, Making(q)' PROVE dir'[run'[q]] # "absent"
    <3>1. CASE q = p
      BY <2>1, <2>6, <3>1 DEF TypeOK, Making
    <3>2. CASE q # p
      BY <2>2, <2>3, <2>4, <2>6, <3>2 DEF MakersDirectory
    <3> QED
      BY <3>1, <3>2
  <2>7. ASSUME NEW q \in Procs, NEW s \in Procs, Making(q)', Making(s)',
               run'[q] = run'[s], q # s
        PROVE  FALSE
    <3>1. CASE q # p /\ s # p
      BY <2>2, <2>7, <3>1 DEF MakersDirectory
    <3>2. CASE q = p
      <4>1. dir[r] = "absent" /\ run[s] = r /\ Making(s)
        BY <2>1, <2>2, <2>7, <3>2 DEF Making
      <4> QED
        BY <4>1 DEF MakersDirectory
    <3>3. CASE s = p
      <4>1. dir[r] = "absent" /\ run[q] = r /\ Making(q)
        BY <2>1, <2>2, <2>7, <3>3 DEF Making
      <4> QED
        BY <4>1 DEF MakersDirectory
    <3> QED
      BY <3>1, <3>2, <3>3
  <2> QED
    BY <2>5, <2>6, <2>7 DEF MakersDirectory
<1>2. ASSUME NEW p \in Procs, Step(p) \/ Break(p) PROVE MakersDirectory'
  <2>1. /\ pc[p] # "idle" /\ run[p] \in Runs
        /\ \A q \in Procs \ {p} : pc'[q] = pc[q] /\ run'[q] = run[q] /\ op'[q] = op[q]
        /\ pc'[p] # "idle" => run'[p] = run[p]
        /\ Making(p)' => Making(p)
        /\ pc'[p] \in Claiming => pc[p] \in Claiming /\ op'[p] = op[p]
    BY <1>2, RunIsKept, MakingIsKept DEF TypeOK
  <2>2. \A q \in Procs : Making(q)' => Making(q) /\ run'[q] = run[q]
    BY <2>1 DEF Making
  <2>3. \A q \in Procs : Making(q)' => dir'[run[q]] # "absent"
    <3>1. \A q \in Procs : Making(q)' => dir[run[q]] # "absent" /\ run[q] \in Runs
      BY <2>2 DEF MakersDirectory, Making, TypeOK
    <3>2. \/ dir' = dir
          \/ dir' = [dir EXCEPT ![run[p]] = "topology"]
          \/ Undo(p)
      BY <1>2, ClaimAndDirectory
    <3>3. CASE Undo(p)
      <4>1. /\ pc[p] \in Claiming /\ pc'[p] = "idle"
            /\ \A s \in Runs : s # run[p] => dir'[s] = dir[s]
        BY <3>3 DEF Undo, End, TypeOK, Claiming
      <4>2. Making(p) /\ ~Making(p)'
        BY <4>1 DEF MakersDirectory, Making, Claiming
      <4>3. \A q \in Procs : Making(q)' => run[q] # run[p]
        BY <2>2, <4>2 DEF MakersDirectory
      <4> QED
        BY <3>1, <4>1, <4>3
    <3> QED
      BY <3>1, <3>2, <3>3 DEF TypeOK
  <2>4. \A q \in Procs : pc'[q] \in Claiming => op'[q] = "prepare"
    BY <2>1 DEF MakersDirectory
  <2> QED
    BY <2>2, <2>3, <2>4 DEF MakersDirectory
<1>3. CASE Testbed
  BY <1>3, TestbedStep DEF MakersDirectory, Making, Testbed, PowerDown, Tenant,
     LeaseEnds, LeaseReturns, GnbLost
<1> QED
  BY <1>1, <1>2, <1>3 DEF Next

\* Nobody claims for a run that has had its claim.
LEMMA PastStep ==
  ASSUME UInv, Next
  PROVE  PastClaiming'
<1> USE DEF UInv
<1>1. ASSUME NEW p \in Procs, NEW r \in Runs, StartRun(p, r) \/ StartRelease(p, r)
      PROVE  PastClaiming'
  <2>1. /\ \A q \in Procs \ {p} : pc'[q] = pc[q] /\ run'[q] = run[q]
        /\ run'[p] = r /\ UNCHANGED <<claim, manifest, retired>>
        /\ \/ /\ pc'[p] = "topology"
              /\ dir[r] = "absent" /\ dir' = [dir EXCEPT ![r] = "bare"]
           \/ /\ pc'[p] \in {"claim-match", "gateway"}
              /\ dir' = dir
    BY <1>1 DEF StartRun, StartRelease, MayStart, Goto, TypeOK, files
  <2> QED
    BY <2>1 DEF PastClaiming, TypeOK, Claiming
<1>2. ASSUME NEW p \in Procs, Step(p) \/ Break(p) PROVE PastClaiming'
  <2>1. /\ pc[p] # "idle" /\ run[p] \in Runs
        /\ \A q \in Procs : pc'[q] \in Claiming => pc[q] \in Claiming /\ run'[q] = run[q]
    BY <1>2, RunIsKept, MakingIsKept DEF TypeOK, Claiming
  <2>2. \A s \in Runs : dir[s] # "absent" /\ ~(Undo(p) /\ s = run[p]) => dir'[s] # "absent"
    BY <1>2, ClaimAndDirectory DEF Undo, End, TypeOK
  <2>3. ASSUME NEW s \in Runs,
               manifest'[s] # "absent" \/ s \in retired' \/ claim' = Whole(s),
               manifest[s] # "absent" \/ s \in retired \/ claim = Whole(s)
        PROVE  dir'[s] # "absent" /\ \A q \in Procs : pc'[q] \in Claiming => run'[q] # s
    <3>1. dir[s] # "absent" /\ \A q \in Procs : pc[q] \in Claiming => run[q] # s
      BY <2>3 DEF PastClaiming
    <3>2. ~(Undo(p) /\ s = run[p])
      BY <3>1 DEF Undo, Claiming
    <3> QED
      BY <2>1, <2>2, <3>1, <3>2
  <2>4. ASSUME NEW s \in Runs,
               manifest'[s] # "absent" \/ s \in retired' \/ claim' = Whole(s),
               manifest[s] = "absent" /\ s \notin retired /\ claim # Whole(s)
        PROVE  dir'[s] # "absent" /\ \A q \in Procs : pc'[q] \in Claiming => run'[q] # s
    <3>1. s = run[p] /\ dir' = dir /\ (Prepared(p) \/ ClaimFill(p))
      BY <1>2, <2>4, ClaimAndDirectory, ClaimKinds
         DEF Prepared, WriteReleased, RetireRead, ClaimFill, TypeOK, Driven
    <3>2. Making(p) /\ pc'[p] \notin Claiming
      BY <2>1, <3>1
         DEF Prepared, Driven, ClaimFill, Goto, Making, MakersDirectory, Claiming, TypeOK
    <3>3. \A q \in Procs : pc'[q] \in Claiming => q # p /\ Making(q) /\ run'[q] = run[q]
      BY <2>1, <3>2 DEF Making, MakersDirectory, Claiming
    <3> QED
      BY <3>1, <3>2, <3>3 DEF MakersDirectory
  <2> QED
    BY <2>3, <2>4 DEF PastClaiming
<1>3. CASE Testbed
  BY <1>3, TestbedStep DEF PastClaiming
<1> QED
  BY <1>1, <1>2, <1>3 DEF Next

\* The inductive invariant of any use.
THEOREM AnyUseInvariance == Spec => []UInv
<1>1. Init => UInv
  BY MaxFaultsAssumption
     DEF Init, UInv, TypeOK, Claims, Labels, MakersDirectory, Making, PastClaiming, Claiming,
         NoClaim, Whole
<1>2. UInv /\ [Next]_vars => UInv'
  <2> SUFFICES ASSUME UInv, [Next]_vars PROVE UInv'
    OBVIOUS
  <2>1. CASE UNCHANGED vars
    BY <2>1 DEF UInv, TypeOK, MakersDirectory, Making, PastClaiming, vars
  <2>2. CASE Next
    BY <2>2, TypeStep, MakersStep, PastStep DEF UInv
  <2> QED
    BY <2>1, <2>2
<1> QED
  BY <1>1, <1>2, PTL DEF Spec

\* Whatever the operator runs at once, a run that was released or retired
\* never holds the claim again: _write_claim is reached by fresh runs only.
THEOREM ClaimIsSpent == Spec => ClaimIsNeverRegained
<1>1. UInv /\ [Next]_vars =>
        [ \A r \in Runs :
            (manifest[r] = "released" \/ r \in retired) /\ claim # Whole(r)
              => claim' # Whole(r) ]_vars
  <2> SUFFICES ASSUME UInv, Next, NEW r \in Runs,
                      manifest[r] = "released" \/ r \in retired,
                      claim # Whole(r), claim' = Whole(r)
               PROVE  FALSE
    BY DEF vars
  <2>1. PICK p \in Procs : ClaimFill(p)
    <3>1. ASSUME NEW p \in Procs, Step(p) \/ Break(p) PROVE ClaimFill(p)
      BY <3>1, ClaimAndDirectory, ClaimKinds DEF UInv
    <3>2. ASSUME NEW p \in Procs, NEW s \in Runs, StartRun(p, s) \/ StartRelease(p, s)
          PROVE  FALSE
      BY <3>2 DEF StartRun, StartRelease, files
    <3>3. CASE Testbed
      BY <3>3, TestbedStep
    <3> QED
      BY <3>1, <3>2, <3>3 DEF Next
  <2>2. pc[p] \in Claiming /\ r = run[p]
    BY <2>1, ClaimKinds DEF ClaimFill, Claiming
  <2> QED
    BY <2>2 DEF UInv, PastClaiming
<1> QED
  BY <1>1, AnyUseInvariance, PTL DEF Spec, ClaimIsNeverRegained

\* The claim does not change hands and no run is used up: what the register
\* sees of a step.
LEMMA Unseen ==
  ASSUME \A r \in Runs : claim' = Whole(r) <=> claim = Whole(r),
         \A r \in Runs : dir'[r] # "absent" <=> dir[r] # "absent",
         \A r \in Runs : (\A p \in Procs : pc'[p] \in Claiming => run'[p] # r)
                           <=> (\A p \in Procs : pc[p] \in Claiming => run[p] # r)
  PROVE  UNCHANGED <<Holders, Spent>>
BY DEF Holders, Spent

\* A command that starts makes a directory and claims for it in the same step,
\* so its run is not spent yet.
LEMMA StartIsUnseen ==
  ASSUME UInv, NEW p \in Procs, NEW r \in Runs, StartRun(p, r) \/ StartRelease(p, r)
  PROVE  UNCHANGED <<Holders, Spent>>
<1>1. /\ \A q \in Procs \ {p} : pc'[q] = pc[q] /\ run'[q] = run[q]
      /\ run'[p] = r /\ pc[p] = "idle" /\ claim' = claim
      /\ \/ /\ pc'[p] = "topology"
            /\ dir[r] = "absent" /\ dir' = [dir EXCEPT ![r] = "bare"]
         \/ /\ pc'[p] \in {"claim-match", "gateway"}
            /\ dir' = dir
  BY DEF UInv, StartRun, StartRelease, MayStart, Goto, TypeOK, files
<1>2. \A s \in Runs \ {r} :
        /\ dir'[s] = dir[s]
        /\ (\A q \in Procs : pc'[q] \in Claiming => run'[q] # s)
             <=> (\A q \in Procs : pc[q] \in Claiming => run[q] # s)
  BY <1>1 DEF UInv, TypeOK, Claiming
<1>3. r \in Spent' <=> r \in Spent
  <2>1. CASE pc'[p] = "topology"
    BY <1>1, <2>1 DEF Spent, Claiming
  <2>2. CASE pc'[p] # "topology"
    <3>1. (\A q \in Procs : pc'[q] \in Claiming => run'[q] # r)
             <=> (\A q \in Procs : pc[q] \in Claiming => run[q] # r)
      BY <1>1, <2>2 DEF Claiming
    <3> QED
      BY <1>1, <2>2, <3>1 DEF Spent
  <2> QED
    BY <2>1, <2>2
<1> QED
  BY <1>1, <1>2, <1>3 DEF Holders, Spent

\* A command that goes on claiming changes neither who claims nor who holds.
LEMMA ClaimingGoesOn ==
  ASSUME UInv, NEW p \in Procs, Step(p) \/ Break(p),
         pc'[p] \in Claiming <=> pc[p] \in Claiming
  PROVE  \A r \in Runs : (\A q \in Procs : pc'[q] \in Claiming => run'[q] # r)
                           <=> (\A q \in Procs : pc[q] \in Claiming => run[q] # r)
BY RunIsKept DEF UInv, Claiming

\* A step that leaves active.json alone uses up at most its own run.
LEMMA StepOfFiles ==
  ASSUME UInv, NEW p \in Procs, Step(p) \/ Break(p), claim' = claim
  PROVE  [Register!Next]_<<Holders, Spent>>
<1>1. Holders' = Holders
  BY DEF Holders
<1>2. /\ pc[p] # "idle" /\ run[p] \in Runs
      /\ \A q \in Procs \ {p} : pc'[q] = pc[q] /\ run'[q] = run[q]
      /\ pc'[p] \in Claiming => pc[p] \in Claiming /\ run'[p] = run[p]
  BY RunIsKept, MakingIsKept DEF UInv, TypeOK, Claiming
<1>3. \A s \in Runs : s # run[p] => (s \in Spent' <=> s \in Spent)
  <2> SUFFICES ASSUME NEW s \in Runs, s # run[p] PROVE s \in Spent' <=> s \in Spent
    OBVIOUS
  <2>1. dir'[s] = dir[s]
    BY FilesOfOthers DEF UInv
  <2>2. (\A q \in Procs : pc'[q] \in Claiming => run'[q] # s)
          <=> (\A q \in Procs : pc[q] \in Claiming => run[q] # s)
    BY <1>2
  <2> QED
    BY <2>1, <2>2 DEF Spent
<1>4. run[p] \in Spent => run[p] \in Spent'
  <2> SUFFICES ASSUME run[p] \in Spent PROVE run[p] \in Spent'
    OBVIOUS
  <2>1. dir[run[p]] # "absent" /\ pc[p] \notin Claiming
    BY DEF Spent
  <2>2. dir'[run[p]] # "absent"
    BY <1>2, <2>1, ClaimAndDirectory DEF UInv, TypeOK, Undo, Claiming
  <2> QED
    BY <1>2, <2>1, <2>2 DEF Spent
<1>5. run[p] \in Spent' /\ run[p] \notin Spent => run[p] \notin Holders
  BY DEF Spent, Holders
<1>6. CASE Spent' = Spent
  BY <1>1, <1>6
<1>7. CASE Spent' # Spent
  <2>1. run[p] \in Spent' /\ run[p] \notin Spent /\ Spent' = Spent \cup {run[p]}
    BY <1>2, <1>3, <1>4, <1>7 DEF Spent
  <2>2. Register!GiveUp(run[p])
    BY <1>1, <1>5, <2>1 DEF Register!GiveUp
  <2> QED
    BY <1>2, <2>2 DEF Register!Next
<1> QED
  BY <1>6, <1>7

\* A step that writes or unlinks active.json takes the claim, or leaves it, or
\* uses up its own run.
LEMMA StepOfClaim ==
  ASSUME UInv, NEW p \in Procs, Step(p) \/ Break(p), claim' # claim
  PROVE  [Register!Next]_<<Holders, Spent>>
<1>1. /\ pc[p] # "idle" /\ run[p] \in Runs
      /\ \A q \in Procs \ {p} : pc'[q] = pc[q] /\ run'[q] = run[q]
      /\ pc'[p] \in Claiming => pc[p] \in Claiming /\ run'[p] = run[p]
  BY RunIsKept, MakingIsKept DEF UInv, TypeOK, Claiming
<1>2. /\ dir' = dir
      /\ \/ claim = NoClaim /\ claim' = Torn(run[p])
         \/ ClaimFill(p)
         \/ claim' = NoClaim
  BY ClaimAndDirectory DEF UInv
<1>3. pc[p] \in Claiming => dir[run[p]] # "absent" /\ claim # Whole(run[p])
  BY <1>1 DEF UInv, MakersDirectory, Making, PastClaiming
<1>4. CASE ClaimFill(p)
  <2>1. /\ pc[p] = "claim-fill" /\ pc'[p] = "lease"
        /\ claim = Torn(run[p]) /\ claim' = Whole(run[p])
    BY <1>4 DEF ClaimFill, Goto, UInv, TypeOK
  <2>2. Holders = {} /\ Holders' = {run[p]} /\ run[p] \notin Spent
    BY <1>1, <2>1, ClaimKinds DEF Holders, Spent, Claiming
  <2>3. run[p] \notin Spent'
    BY <2>1 DEF Spent
  <2>4. ASSUME NEW s \in Runs, s # run[p] PROVE s \in Spent' <=> s \in Spent
    <3>1. (\A q \in Procs : pc'[q] \in Claiming => run'[q] # s)
            <=> (\A q \in Procs : pc[q] \in Claiming => run[q] # s)
      BY <1>1, <2>4
    <3> QED
      BY <1>2, <2>1, <2>4, <3>1, ClaimKinds DEF Spent
  <2>5. Spent' = Spent
    BY <2>2, <2>3, <2>4 DEF Spent
  <2> QED
    BY <1>1, <2>2, <2>5 DEF Register!Take, Register!Next
<1>5. ASSUME ~ClaimFill(p), pc'[p] \in Claiming <=> pc[p] \in Claiming
      PROVE  [Register!Next]_<<Holders, Spent>>
  <2>1. \A r \in Runs : (\A q \in Procs : pc'[q] \in Claiming => run'[q] # r)
                           <=> (\A q \in Procs : pc[q] \in Claiming => run[q] # r)
    BY <1>5, ClaimingGoesOn
  <2>2. CASE \A r \in Runs : claim # Whole(r)
    <3>1. \A r \in Runs : claim' # Whole(r)
      BY <1>2, <1>5, ClaimKinds
    <3> QED
      BY <1>2, <2>1, <2>2, <3>1, Unseen
  <2>3. ASSUME NEW r \in Runs, claim = Whole(r) PROVE Register!Leave(r)
    <3>1. claim' = NoClaim
      BY <1>2, <1>5, <2>3, ClaimKinds
    <3>2. Holders = {r} /\ Holders' = {}
      BY <2>3, <3>1, ClaimKinds DEF Holders
    <3>3. r \in Spent'
      BY <1>2, <2>1, <2>3, <3>1, ClaimKinds DEF UInv, PastClaiming, Spent
    <3>4. \A s \in Runs : s # r => (s \in Spent' <=> s \in Spent)
      BY <1>2, <2>1, <2>3, <3>1, ClaimKinds DEF Spent
    <3>5. Spent' = Spent \cup {r}
      BY <3>3, <3>4 DEF Spent
    <3> QED
      BY <3>2, <3>5 DEF Register!Leave
  <2> QED
    BY <2>2, <2>3 DEF Register!Next
<1>6. ~ClaimFill(p) => (pc'[p] \in Claiming <=> pc[p] \in Claiming)
  <2> USE DEF UInv, TypeOK, Claiming, Goto, End, files, env, gnb
  <2>1. CASE Break(p)
    BY <2>1 DEF Break, TopologyFails, ClaimFillFails, Crash
  <2>2. CASE Step(p)
    BY <2>2 DEF Step, WriteTopology, ClaimCheck, ClaimCreate, Undo,
             ClaimMatch, LeaseCheck, StopGnb, Look, Mutate, Verify, Prepared, Reconciled,
             StartGnb, Cleanup, Leave, PoweredOff, Unlink, WriteReleased, Gateway,
             RetireRead, RetireReread, RetireUnlink, Raise, Refused, Driven
  <2> QED
    BY <2>1, <2>2
<1> QED
  BY <1>4, <1>5, <1>6

\* The claim of the workspace is the register of ClaimRegister, whatever the
\* operator runs at once, whatever dies and whoever unlinks whose claim.
THEOREM RegisterKept == Spec => KeepsRegister
<1>1. Init => Register!Init
  BY ClaimKinds DEF Init, Register!Init, Holders, Spent
<1>2. UInv /\ [Next]_vars => [Register!Next]_<<Holders, Spent>>
  <2> SUFFICES ASSUME UInv, [Next]_vars PROVE [Register!Next]_<<Holders, Spent>>
    OBVIOUS
  <2>1. ASSUME NEW p \in Procs, Step(p) \/ Break(p)
        PROVE  [Register!Next]_<<Holders, Spent>>
    BY <2>1, StepOfFiles, StepOfClaim
  <2>2. ASSUME NEW p \in Procs, NEW r \in Runs, StartRun(p, r) \/ StartRelease(p, r)
        PROVE  [Register!Next]_<<Holders, Spent>>
    BY <2>2, StartIsUnseen
  <2>3. CASE Testbed \/ UNCHANGED vars
    BY <2>3, TestbedStep DEF vars, Holders, Spent
  <2> QED
    BY <2>1, <2>2, <2>3 DEF Next
<1> QED
  BY <1>1, <1>2, AnyUseInvariance, PTL DEF Spec, KeepsRegister, Register!Spec

\* What the register promises of the claim: one run holds it at a time, a run
\* that let it go never holds it again, and it is never handed over at once.
THEOREM ClaimIsHeldOnce == Spec => []Register!OneHolder /\ Register!HeldOnce
<1>1. Register!Init => Register!OneHolder
  BY DEF Register!Init, Register!OneHolder
<1>2. Register!OneHolder /\ [Register!Next]_<<Holders, Spent>> => Register!OneHolder'
  BY DEF Register!Next, Register!OneHolder, Register!Take, Register!Leave, Register!GiveUp
<1>3. Register!OneHolder /\ [Register!Next]_<<Holders, Spent>> =>
        [ /\ Spent \subseteq Spent'
          /\ Spent \cap Holders' = {}
          /\ \A r \in Holders \ Holders' : r \in Spent' /\ Holders' = {}
        ]_<<Holders, Spent>>
  BY DEF Register!Next, Register!OneHolder, Register!Take, Register!Leave, Register!GiveUp
<1> QED
  BY <1>1, <1>2, <1>3, RegisterKept, PTL DEF KeepsRegister, Register!Spec, Register!HeldOnce

\* Under serial use the claim that a retirement unlinks is the one it archived.
THEOREM RetirementIsItsOwn ==
  ASSUME SerialUse
  PROVE  Spec => RetirementTakesItsOwnClaim
<1>1. IInv => \A p \in Procs : pc[p] = "retire-unlink" => claim = Whole(run[p])
  BY DEF IInv, HoldersOwnClaim, Holding
<1>2. IInv => [ \A p \in Procs :
                  pc[p] = "retire-unlink" /\ pc'[p] = "idle" /\ claim' # claim
                    => claim = Whole(run[p]) ]_vars
  BY <1>1
<1> QED
  BY <1>2, Invariance, PTL DEF RetirementTakesItsOwnClaim

\* Under serial use a claim that was left torn stays so for good, and with it
\* the workspace stays locked: no command of the program removes it
\* (_write_claim creates the file and fills it afterwards).
THEOREM TornStaysTorn ==
  ASSUME SerialUse
  PROVE  Spec => AbandonedForGood
<1>1. ASSUME IInv, IInv', [Next]_vars, NEW r \in Runs, Abandoned(r)
      PROVE  Abandoned(r)'
  <2> USE DEF Abandoned
  <2>1. claim = Torn(r) /\ \A p \in Procs : pc[p] # "claim-fill"
    BY <1>1
  <2>2. \A p \in Procs : pc[p] \notin Holding
    BY <1>1, <2>1, ClaimKinds DEF IInv, HoldersOwnClaim
  <2>3. claim' = claim
    <3>1. ASSUME NEW p \in Procs, Step(p) \/ Break(p) PROVE claim' = claim
      <4>1. ~(Unlink(p) \/ RetireUnlink(p) \/ ClaimFill(p) \/ ClaimFillFails(p))
        BY <2>1, <2>2 DEF Unlink, RetireUnlink, ClaimFill, ClaimFillFails, Holding
      <4> QED
        BY <2>1, <3>1, <4>1, ClaimKinds
           DEF Step, Break, files, WriteTopology, ClaimCheck, ClaimCreate, Undo,
               ClaimMatch, LeaseCheck, StopGnb, Look, Mutate, Verify, Prepared, Reconciled,
               StartGnb, Cleanup, Leave, PoweredOff, WriteReleased, Gateway,
               RetireRead, RetireReread, Raise, TopologyFails, Crash
    <3>2. ASSUME NEW p \in Procs, NEW s \in Runs, StartRun(p, s) \/ StartRelease(p, s)
          PROVE  claim' = claim
      BY <3>2 DEF StartRun, StartRelease, files
    <3> QED
      BY <1>1, <3>1, <3>2, TestbedStep DEF Next, vars
  <2>4. \A p \in Procs : pc'[p] # "claim-fill"
    <3>1. ASSUME NEW p \in Procs, pc'[p] = "claim-fill" PROVE pc[p] = "claim-fill"
      <4>1. claim' = Torn(run'[p])
        BY <1>1, <3>1 DEF IInv, HoldersOwnClaim
      <4>2. ASSUME NEW q \in Procs, Step(q) \/ Break(q) PROVE pc[p] = "claim-fill"
        <5>1. CASE q # p
          BY <1>1, <3>1, <4>2, <5>1, RunIsKept DEF IInv
        <5>2. CASE q = p
          <6>1. ~ClaimCreate(p) \/ claim # NoClaim
            BY <2>1, ClaimKinds
          <6> QED
            BY <1>1, <2>1, <3>1, <4>2, <5>2, ClaimKinds
               DEF IInv, TypeOK, Goto, End, files, env, gnb, Step, Break, WriteTopology,
                   ClaimCheck, ClaimCreate, ClaimFill, Undo, ClaimMatch, LeaseCheck, StopGnb,
                   Look, Mutate, Verify, Prepared, Reconciled, StartGnb, Cleanup, Leave,
                   PoweredOff, Unlink, WriteReleased, Gateway, RetireRead,
                   RetireReread, RetireUnlink, Raise, TopologyFails,
                   ClaimFillFails, Crash
        <5> QED
          BY <5>1, <5>2
      <4>3. ASSUME NEW q \in Procs, NEW s \in Runs, StartRun(q, s) \/ StartRelease(q, s)
            PROVE  pc[p] = "claim-fill"
        BY <1>1, <3>1, <4>3 DEF StartRun, StartRelease, Goto, IInv, TypeOK
      <4> QED
        BY <1>1, <3>1, <4>2, <4>3, TestbedStep DEF Next, vars
    <3> QED
      BY <2>1, <3>1
  <2> QED
    BY <2>1, <2>3, <2>4
<1>2. Spec => [][ \A r \in Runs : Abandoned(r) => Abandoned(r)' ]_vars
  <2>1. IInv /\ IInv' /\ [Next]_vars => [ \A r \in Runs : Abandoned(r) => Abandoned(r)' ]_vars
    BY <1>1
  <2> QED
    BY <2>1, Invariance, PTL DEF Spec
<1> QED
  BY <1>2 DEF AbandonedForGood

-----------------------------------------------------------------------------
(* What the plans have done to the hardware.                               *)

\* What a command wants of its devices.  A host that a crashed release told to
\* stop still answers that it is on, so "on" says nothing about it.
Aim(p) == IF op[p] = "release" THEN "off" ELSE "on"
Reached(d, to) ==
  IF to = "off" THEN power[d] = "off" ELSE d \in Slow \/ power[d] = "on"

Driving == {"stop-gnb", "drive", "verify"}
Live    == Driving \cup {"work", "unlink"}

\* Only a slow device is ever seen on its way down.
Rails == \A d \in Devices : power[d] = "stopping" => d \in Slow

\* A command whose lease was not lost under it has one.
LeasedOne(p) == pc[p] \in Live /\ p \notin stale => lease

\* A device of the run that is not yet where the command wants it is still in
\* the plan; after the plan all of them are there.
HeadingOne(p) ==
  pc[p] \in Driving => \A i \in 1..Len(todo[p]) : todo[p][i].to = Aim(p)

ToDo(p, d) == \E i \in 1..Len(todo[p]) : todo[p][i].dev = d

PendingOne(p) ==
  p \notin stale =>
    /\ pc[p] \in Driving =>
         \A d \in DeviceOf(run[p]) : Reached(d, Aim(p)) \/ ToDo(p, d)
    /\ pc[p] = "work" => \A d \in DeviceOf(run[p]) : Reached(d, "on")
    /\ pc[p] = "unlink" => \A d \in DeviceOf(run[p]) : Reached(d, "off")

\* A claim is archived before it is retired.
ArchivedOne(p) ==
  pc[p] \in {"retire-reread", "retire-unlink"} => run[p] \in retired

OnCourse(p) == LeasedOne(p) /\ HeadingOne(p) /\ PendingOne(p) /\ ArchivedOne(p)

HInv == IInv /\ Rails /\ \A p \in Procs : OnCourse(p)

LEMMA Joined ==
  ASSUME NEW a \in Seq(Move), NEW b \in Seq(Move)
  PROVE  /\ Len(a \o b) = Len(a) + Len(b)
         /\ \A i \in 1..Len(a) : (a \o b)[i] = a[i]
         /\ \A i \in 1..Len(b) : (a \o b)[Len(a) + i] = b[i]
OBVIOUS

\* A plan moves all devices of a run, and all of them the same way.
LEMMA PlanAims ==
  ASSUME NEW o, NEW r \in Runs
  PROVE  /\ \A i \in 1..Len(Plan(o, r)) :
              Plan(o, r)[i].to = IF o = "release" THEN "off" ELSE "on"
         /\ \A d \in DeviceOf(r) : \E i \in 1..Len(Plan(o, r)) : Plan(o, r)[i].dev = d
<1> DEFINE n == Len(UeRails[r])
<1>1. UeRails[r] \in Seq(Devices) /\ Radio[r] \in Devices /\ n \in Nat
  BY TopologyAssumption
<1>2. CASE o = "release"
  <2> DEFINE ue == [i \in 1..n |->
                      [dev |-> UeRails[r][n + 1 - i], to |-> "off", look |-> FALSE]]
             radio == << [dev |-> Radio[r], to |-> "off", look |-> FALSE] >>
  <2>1. Plan(o, r) = ue \o radio
    BY <1>2 DEF Plan, PowerOff
  <2>2. \A i \in 1..n : n + 1 - i \in 1..n /\ n + 1 - (n + 1 - i) = i
    BY <1>1
  <2>3. ue \in Seq(Move) /\ radio \in Seq(Move) /\ Len(ue) = n /\ Len(radio) = 1
    BY <1>1, <2>2 DEF Move
  <2>4. \A i \in 1..n : ue[i].to = "off" /\ ue[n + 1 - i].dev = UeRails[r][i]
    BY <1>1, <2>2
  <2>5. radio[1].to = "off" /\ radio[1].dev = Radio[r]
    OBVIOUS
  <2> HIDE DEF ue, radio
  <2>6. /\ Len(Plan(o, r)) = n + 1 /\ Plan(o, r)[n + 1] = radio[1]
        /\ \A i \in 1..n : Plan(o, r)[i] = ue[i]
    <3>1. /\ Len(ue \o radio) = n + 1 /\ (ue \o radio)[n + 1] = radio[1]
          /\ \A i \in 1..n : (ue \o radio)[i] = ue[i]
      <4>1. 1 \in 1..Len(radio) /\ Len(ue) + 1 = n + 1
        BY <1>1, <2>3
      <4>2. (ue \o radio)[Len(ue) + 1] = radio[1] /\ Len(ue \o radio) = n + 1
        BY <2>3, <4>1, Joined
      <4>3. \A i \in 1..n : (ue \o radio)[i] = ue[i]
        BY <2>3, Joined
      <4> QED
        BY <4>1, <4>2, <4>3
    <3> QED
      BY <2>1, <3>1
  <2>7. ASSUME NEW d \in DeviceOf(r)
        PROVE  \E i \in 1..Len(Plan(o, r)) : Plan(o, r)[i].dev = d
    <3>1. CASE d = Radio[r]
      BY <1>1, <2>5, <2>6, <3>1
    <3>2. CASE \E i \in 1..n : d = UeRails[r][i]
      <4>1. PICK i \in 1..n : d = UeRails[r][i]
        BY <3>2
      <4>2. Plan(o, r)[n + 1 - i].dev = d /\ n + 1 - i \in 1..(n + 1)
        BY <1>1, <2>2, <2>4, <2>6, <4>1
      <4> QED
        BY <2>6, <4>2
    <3> QED
      BY <3>1, <3>2 DEF DeviceOf
  <2>8. ASSUME NEW i \in 1..Len(Plan(o, r)) PROVE Plan(o, r)[i].to = "off"
    <3>1. i \in 1..n \/ i = n + 1
      BY <1>1, <2>6
    <3> QED
      BY <2>4, <2>5, <2>6, <3>1
  <2> QED
    BY <1>2, <2>7, <2>8
<1>3. CASE o # "release"
  <2> DEFINE radio == << [dev |-> Radio[r], to |-> "on", look |-> o = "reconcile"] >>
             ue == [i \in 1..n |-> [dev |-> UeRails[r][i], to |-> "on", look |-> TRUE]]
  <2>1. Plan(o, r) = radio \o ue
    BY <1>3 DEF Plan, PowerOn
  <2>2. ue \in Seq(Move) /\ radio \in Seq(Move) /\ Len(ue) = n /\ Len(radio) = 1
    BY <1>1 DEF Move
  <2>3. \A i \in 1..n : ue[i].to = "on" /\ ue[i].dev = UeRails[r][i]
    OBVIOUS
  <2>4. radio[1].to = "on" /\ radio[1].dev = Radio[r]
    OBVIOUS
  <2> HIDE DEF ue, radio
  <2>5. /\ Len(Plan(o, r)) = n + 1 /\ Plan(o, r)[1] = radio[1]
        /\ \A i \in 1..n : i + 1 \in 1..(n + 1) /\ Plan(o, r)[i + 1] = ue[i]
    <3>1. /\ Len(radio \o ue) = 1 + n /\ (radio \o ue)[1] = radio[1]
          /\ \A i \in 1..n : (radio \o ue)[1 + i] = ue[i]
      BY <1>1, <2>2, Joined
    <3>2. 1 + n = n + 1 /\ \A i \in 1..n : i + 1 \in 1..(n + 1) /\ 1 + i = i + 1
      BY <1>1
    <3> QED
      BY <2>1, <3>1, <3>2
  <2>6. ASSUME NEW d \in DeviceOf(r)
        PROVE  \E i \in 1..Len(Plan(o, r)) : Plan(o, r)[i].dev = d
    <3>1. CASE d = Radio[r]
      BY <1>1, <2>4, <2>5, <3>1
    <3>2. CASE \E i \in 1..n : d = UeRails[r][i]
      BY <2>3, <2>5, <3>2
    <3> QED
      BY <3>1, <3>2 DEF DeviceOf
  <2>7. ASSUME NEW i \in 1..Len(Plan(o, r)) PROVE Plan(o, r)[i].to = "on"
    <3>1. i = 1 \/ (i - 1 \in 1..n /\ (i - 1) + 1 = i)
      BY <1>1, <2>5
    <3>2. \A j \in 1..n : Plan(o, r)[j + 1].to = "on"
      BY <2>3, <2>5
    <3>3. Plan(o, r)[1].to = "on"
      BY <2>4, <2>5
    <3> QED
      BY <3>1, <3>2, <3>3
  <2> QED
    BY <1>3, <2>6, <2>7
<1> QED
  BY <1>2, <1>3

\* Crossing off the first move of a plan.
LEMMA CrossOff ==
  ASSUME NEW plan \in Seq(Move), plan # << >>
  PROVE  /\ Tail(plan) \in Seq(Move) /\ Head(plan) = plan[1] /\ 1 \in 1..Len(plan)
         /\ \A i \in 1..Len(Tail(plan)) :
              i + 1 \in 1..Len(plan) /\ Tail(plan)[i] = plan[i + 1]
         /\ \A i \in 1..Len(plan) :
              i = 1 \/ (i - 1 \in 1..Len(Tail(plan)) /\ Tail(plan)[i - 1] = plan[i])
OBVIOUS

LEMMA OnlyHolder ==
  ASSUME IInv, NEW p \in Procs, NEW q \in Procs, p # q, pc[p] \in Holding
  PROVE  pc[q] \notin Holding
<1>1. pc[p] # "idle" /\ claim = Whole(run[p])
  BY DEF IInv, HoldersOwnClaim, Holding
<1>2. pc[q] \in Holding => pc[q] # "idle" /\ claim = Whole(run[q])
  BY DEF IInv, HoldersOwnClaim, Holding
<1> QED
  BY <1>1, <1>2, ClaimKinds DEF IInv, Serial

\* A command touches the hardware by its plan only, the lease never, and of the
\* other commands nothing.
LEMMA HardwareIsKept ==
  ASSUME TypeOK, NEW p \in Procs, Step(p) \/ Break(p)
  PROVE  /\ Mutate(p) \/ UNCHANGED power
         /\ lease' = lease /\ retired \subseteq retired'
         /\ p \in stale' => p \in stale
         /\ pc'[p] # "idle" => stale' = stale
         /\ \A q \in Procs \ {p} :
              /\ pc'[q] = pc[q] /\ run'[q] = run[q]
              /\ op'[q] = op[q] /\ todo'[q] = todo[q]
              /\ q \in stale' <=> q \in stale
<1> USE DEF TypeOK, Goto, End, files, env, gnb
<1>1. CASE Break(p)
  BY <1>1 DEF Break, TopologyFails, ClaimFillFails, Crash
<1>2. CASE WriteTopology(p) \/ ClaimCheck(p) \/ ClaimCreate(p) \/ ClaimFill(p)
           \/ Undo(p) \/ ClaimMatch(p) \/ LeaseCheck(p) \/ StopGnb(p)
  BY <1>2 DEF WriteTopology, ClaimCheck, ClaimCreate, ClaimFill, Undo,
              ClaimMatch, LeaseCheck, StopGnb
<1>3. CASE Look(p) \/ Verify(p) \/ Prepared(p) \/ Reconciled(p)
           \/ StartGnb(p) \/ Cleanup(p) \/ Leave(p)
  BY <1>3 DEF Look, Finish1, Verify, Prepared, Reconciled, Driven, StartGnb, Cleanup, Leave
<1>4. CASE PoweredOff(p) \/ Unlink(p) \/ WriteReleased(p) \/ Gateway(p)
           \/ RetireRead(p) \/ RetireReread(p) \/ RetireUnlink(p)
  BY <1>4 DEF PoweredOff, Driven, Unlink, WriteReleased, Gateway, RetireRead,
              RetireReread, RetireUnlink
<1>5. CASE Raise(p)
  BY <1>5 DEF Raise
<1>6. CASE Mutate(p)
  BY <1>6 DEF Mutate
<1> QED
  BY <1>1, <1>2, <1>3, <1>4, <1>5, <1>6 DEF Step

LEMMA RailsStep == ASSUME TypeOK, Rails, Next PROVE Rails'
<1> USE DEF TypeOK, Rails, files, env, gnb
<1>1. ASSUME NEW p \in Procs, Mutate(p) PROVE Rails'
  <2>1. Next1(p) \in Move
    BY <1>1, CrossOff DEF Mutate, Next1
  <2>2. Next1(p).to # "stopping"
    BY <2>1 DEF Move
  <2>3. \/ UNCHANGED power
        \/ power' = [power EXCEPT ![Next1(p).dev] = After(Next1(p).dev, Next1(p).to)]
    BY <1>1 DEF Mutate
  <2>4. After(Next1(p).dev, Next1(p).to) = "stopping" => Next1(p).dev \in Slow
    BY <2>2 DEF After
  <2> QED
    BY <2>3, <2>4
<1>2. ASSUME NEW p \in Procs, Step(p) \/ Break(p), ~Mutate(p) PROVE Rails'
  BY <1>2, HardwareIsKept
<1>3. ASSUME NEW p \in Procs, NEW r \in Runs, StartRun(p, r) \/ StartRelease(p, r)
      PROVE  Rails'
  BY <1>3 DEF StartRun, StartRelease
<1>4. CASE Testbed
  BY <1>4 DEF Testbed, PowerDown, Tenant, LeaseEnds, LeaseReturns, GnbLost
<1> QED
  BY <1>1, <1>2, <1>3, <1>4 DEF Next

\* A device that answers as it should is where it should be.
LEMMA SeenIsReached ==
  ASSUME TypeOK, Rails, NEW d \in Devices, NEW to \in {"on", "off"}, Seen(d) = to
  PROVE  Reached(d, to)
BY DEF TypeOK, Rails, Seen, Reached

\* The moves of a command that is driving.
LEMMA DrivingMoves ==
  ASSUME HInv, NEW p \in Procs, LeaseCheck(p) \/ Look(p) \/ Mutate(p) \/ Verify(p)
  PROVE  OnCourse(p)'
<1> USE DEF Goto, files, env, gnb, Driving, Live
<1>1. /\ TypeOK /\ Rails /\ OnCourse(p) /\ todo[p] \in Seq(Move)
      /\ pc \in [Procs -> Labels] /\ todo \in [Procs -> Seq(Move)]
  BY DEF HInv, IInv, TypeOK
<1>2. CASE LeaseCheck(p)
  <2>1. /\ pc'[p] \in {"stop-gnb", "drive"} /\ todo'[p] = Plan(op[p], run[p]) /\ lease
        /\ run[p] \in Runs
        /\ UNCHANGED <<op, run, lease, stale, power, retired>>
    BY <1>1, <1>2 DEF LeaseCheck, TypeOK
  <2>2. /\ \A i \in 1..Len(todo'[p]) : todo'[p][i].to = Aim(p)'
        /\ \A d \in DeviceOf(run[p]) : ToDo(p, d)'
    BY <2>1, PlanAims DEF Aim, ToDo
  <2> QED
    BY <2>1, <2>2 DEF OnCourse, LeasedOne, HeadingOne, PendingOne, ArchivedOne
<1>3. CASE Look(p) \/ Verify(p)
  <2>1. /\ pc[p] \in Driving /\ pc'[p] = "drive" /\ todo[p] # << >>
        /\ todo'[p] = Tail(todo[p]) /\ Seen(Head(todo[p]).dev) = Head(todo[p]).to
        /\ UNCHANGED <<op, run, lease, stale, power, retired>>
    BY <1>1, <1>3 DEF Look, Verify, Next1, Finish1, TypeOK
  <2>2. Head(todo[p]) \in Move /\ Head(todo[p]) = todo[p][1] /\ 1 \in 1..Len(todo[p])
    BY <1>1, <2>1, CrossOff
  <2>3. Head(todo[p]).to = Aim(p)
    BY <1>1, <2>1, <2>2 DEF OnCourse, HeadingOne
  <2>4. Reached(Head(todo[p]).dev, Aim(p))
    BY <1>1, <2>1, <2>2, <2>3, SeenIsReached DEF Move
  <2>5. HeadingOne(p)'
    <3>1. \A i \in 1..Len(todo'[p]) : todo'[p][i].to = Aim(p)
      BY <1>1, <2>1, CrossOff DEF OnCourse, HeadingOne
    <3> QED
      BY <2>1, <3>1 DEF HeadingOne, Aim
  <2>6. \A d : ToDo(p, d) => d = Head(todo[p]).dev \/ ToDo(p, d)'
    <3> SUFFICES ASSUME NEW d, ToDo(p, d), d # Head(todo[p]).dev PROVE ToDo(p, d)'
      OBVIOUS
    <3>1. PICK i \in 1..Len(todo[p]) : todo[p][i].dev = d
      BY DEF ToDo
    <3>2. i # 1
      BY <2>2, <3>1
    <3>3. i - 1 \in 1..Len(Tail(todo[p])) /\ Tail(todo[p])[i - 1] = todo[p][i]
      BY <1>1, <2>1, <3>2, CrossOff
    <3> QED
      BY <2>1, <3>1, <3>3 DEF ToDo
  <2>7. PendingOne(p)'
    <3>1. p \notin stale =>
            \A d \in DeviceOf(run[p]) : Reached(d, Aim(p)) \/ ToDo(p, d)'
      BY <1>1, <2>1, <2>4, <2>6 DEF OnCourse, PendingOne
    <3> QED
      BY <2>1, <3>1 DEF PendingOne, Reached, Aim
  <2> QED
    BY <1>1, <2>1, <2>5, <2>7 DEF OnCourse, LeasedOne, ArchivedOne
<1>4. CASE Mutate(p)
  <2>1. /\ pc[p] = "drive" /\ pc'[p] = "verify" /\ todo[p] # << >>
        /\ UNCHANGED <<op, run, todo, lease, stale, retired>>
        /\ \A d \in Devices : d # Head(todo[p]).dev => power'[d] = power[d]
    BY <1>1, <1>4 DEF Mutate, Next1, TypeOK
  <2>2. Head(todo[p]) = todo[p][1] /\ 1 \in 1..Len(todo[p])
    BY <1>1, <2>1, CrossOff
  <2>3. ToDo(p, Head(todo[p]).dev)
    BY <2>2 DEF ToDo
  <2>4. DeviceOf(run[p]) \subseteq Devices
    BY <1>1, <2>1, TopologyAssumption DEF DeviceOf, TypeOK
  <2>5. PendingOne(p)'
    BY <1>1, <2>1, <2>3, <2>4 DEF OnCourse, PendingOne, Reached, Aim, ToDo
  <2>6. HeadingOne(p)'
    BY <1>1, <2>1 DEF OnCourse, HeadingOne, Aim
  <2> QED
    BY <1>1, <2>1, <2>5, <2>6 DEF OnCourse, LeasedOne, ArchivedOne
<1> QED
  BY <1>2, <1>3, <1>4

\* The other steps of a command reach a place only with what it needs.
LEMMA OtherMoves ==
  ASSUME HInv, NEW p \in Procs, Step(p) \/ Break(p),
         ~(LeaseCheck(p) \/ Look(p) \/ Mutate(p) \/ Verify(p))
  PROVE  OnCourse(p)'
<1> USE DEF Goto, End, files, env, gnb, Driving, Live
<1>1. TypeOK /\ OnCourse(p) /\ pc \in [Procs -> Labels]
  BY DEF HInv, IInv, TypeOK
<1>2. CASE Prepared(p) \/ Reconciled(p) \/ PoweredOff(p)
  <2>1. /\ pc[p] = "drive" /\ todo[p] = << >>
        /\ UNCHANGED <<op, run, power, lease, stale, retired>>
        /\ \/ pc'[p] = "work" /\ op[p] # "release"
           \/ pc'[p] = "unlink" /\ op[p] = "release"
    BY <1>1, <1>2 DEF Prepared, Reconciled, PoweredOff, Driven
  <2>2. p \notin stale => \A d \in DeviceOf(run[p]) : Reached(d, Aim(p))
    BY <1>1, <2>1 DEF OnCourse, PendingOne, ToDo
  <2> QED
    BY <1>1, <2>1, <2>2
       DEF OnCourse, LeasedOne, HeadingOne, PendingOne, ArchivedOne, Reached, Aim
<1>3. CASE pc'[p] \notin Live \cup {"retire-reread", "retire-unlink"}
  BY <1>3 DEF OnCourse, LeasedOne, HeadingOne, PendingOne, ArchivedOne
<1>4. CASE RetireRead(p) \/ RetireReread(p)
  BY <1>1, <1>4 DEF RetireRead, RetireReread, OnCourse, LeasedOne, HeadingOne,
                    PendingOne, ArchivedOne
<1>5. ASSUME Break(p) PROVE pc'[p] \notin Live \cup {"retire-reread", "retire-unlink"}
  BY <1>1, <1>5 DEF Break, TopologyFails, ClaimFillFails, Crash
<1>6. ASSUME \/ WriteTopology(p) \/ ClaimCheck(p) \/ ClaimCreate(p) \/ ClaimFill(p)
             \/ Undo(p) \/ ClaimMatch(p) \/ Cleanup(p) \/ Leave(p) \/ Unlink(p)
             \/ WriteReleased(p) \/ Gateway(p) \/ RetireUnlink(p) \/ Raise(p)
      PROVE  pc'[p] \notin Live \cup {"retire-reread", "retire-unlink"}
  BY <1>1, <1>6 DEF WriteTopology, ClaimCheck, ClaimCreate, ClaimFill, Undo, ClaimMatch,
     Cleanup, Leave, Unlink, WriteReleased, Gateway, RetireUnlink, Raise
<1>7. CASE StopGnb(p) \/ StartGnb(p)
  <2>1. /\ UNCHANGED <<op, run, todo, power, lease, stale, retired>>
        /\ \/ pc[p] = "stop-gnb" /\ pc'[p] = "drive"
           \/ pc[p] = "work" /\ pc'[p] = "work"
    BY <1>1, <1>7 DEF StopGnb, StartGnb
  <2> QED
    BY <1>1, <2>1 DEF OnCourse, LeasedOne, HeadingOne, PendingOne, ArchivedOne, Reached,
                      Aim, ToDo
<1> QED
  BY <1>2, <1>3, <1>4, <1>5, <1>6, <1>7 DEF Step

\* A command disturbs no other one: only one of them drives at a time.
LEMMA OthersStay ==
  ASSUME HInv, NEW p \in Procs, Step(p) \/ Break(p), NEW q \in Procs, p # q
  PROVE  OnCourse(q)'
<1>1. TypeOK /\ OnCourse(q)
  BY DEF HInv, IInv
<1>2. /\ pc'[q] = pc[q] /\ run'[q] = run[q] /\ op'[q] = op[q] /\ todo'[q] = todo[q]
      /\ q \in stale' <=> q \in stale
      /\ lease' = lease /\ retired \subseteq retired'
      /\ Mutate(p) \/ UNCHANGED power
  BY <1>1, HardwareIsKept
<1>3. pc[q] \in Live => UNCHANGED power
  BY <1>2, OnlyHolder DEF Mutate, HInv, Live, Driving, Holding
<1> QED
  BY <1>1, <1>2, <1>3 DEF OnCourse, LeasedOne, HeadingOne, PendingOne, ArchivedOne,
                          Reached, Aim, ToDo, Live, Driving

\* A new command is at none of these places.
LEMMA StartsOnCourse ==
  ASSUME HInv, NEW p \in Procs, NEW r \in Runs, StartRun(p, r) \/ StartRelease(p, r),
         NEW q \in Procs
  PROVE  OnCourse(q)'
<1> USE DEF OnCourse, LeasedOne, HeadingOne, PendingOne, ArchivedOne, Live, Driving
<1>1. TypeOK /\ OnCourse(q)
  BY DEF HInv, IInv
<1>2. /\ UNCHANGED <<retired, power, lease, stale, todo>>
      /\ pc'[p] \in {"topology", "claim-match", "gateway"}
      /\ q # p => pc'[q] = pc[q] /\ run'[q] = run[q] /\ op'[q] = op[q]
  BY <1>1 DEF StartRun, StartRelease, MayStart, Goto, TypeOK, files, env, gnb
<1>3. CASE q = p
  BY <1>2, <1>3
<1>4. CASE q # p
  BY <1>1, <1>2, <1>4 DEF Reached, Aim, ToDo
<1> QED
  BY <1>3, <1>4

\* The testbed turns a device only when it was told to, or when the lease of
\* every command at work has been lost.
LEMMA TestbedOnCourse ==
  ASSUME HInv, Testbed, NEW q \in Procs
  PROVE  OnCourse(q)'
<1> USE DEF OnCourse, LeasedOne, HeadingOne, PendingOne, ArchivedOne, files, ToDo, Aim
<1>1. TypeOK /\ Rails /\ OnCourse(q) /\ power \in [Devices -> {"on", "stopping", "off"}]
  BY DEF HInv, IInv, TypeOK
<1>2. ASSUME NEW d \in Devices, PowerDown(d) PROVE OnCourse(q)'
  <2>1. \A e, to : Reached(e, to) => Reached(e, to)'
    <3> SUFFICES ASSUME NEW e, NEW to, Reached(e, to) PROVE Reached(e, to)'
      OBVIOUS
    <3>1. power[d] = "stopping" /\ d \in Slow /\ power' = [power EXCEPT ![d] = "off"]
      BY <1>1, <1>2 DEF PowerDown, Rails
    <3>2. CASE e = d
      BY <1>1, <3>1, <3>2 DEF Reached
    <3>3. CASE e # d
      BY <1>1, <3>1, <3>3 DEF Reached
    <3> QED
      BY <3>2, <3>3
  <2>2. UNCHANGED <<lease, stale, pc, op, run, todo, retired>>
    BY <1>2 DEF PowerDown
  <2> QED
    BY <1>1, <2>1, <2>2
<1>3. ASSUME NEW d \in Devices, Tenant(d) PROVE OnCourse(q)'
  <2>1. ~lease /\ UNCHANGED <<lease, stale, pc, op, run, todo, retired>>
    BY <1>3 DEF Tenant
  <2>2. pc[q] \in Live => q \in stale
    BY <1>1, <2>1
  <2> QED
    BY <1>1, <2>1, <2>2 DEF Live, Driving
<1>4. CASE LeaseEnds
  <2>1. /\ UNCHANGED <<power, pc, op, run, todo, retired>>
        /\ pc[q] # "idle" => q \in stale'
        /\ q \in stale => q \in stale'
    BY <1>4 DEF LeaseEnds
  <2> QED
    BY <1>1, <2>1 DEF Live, Driving, Reached
<1>5. CASE LeaseReturns
  BY <1>1, <1>5 DEF LeaseReturns, Reached
<1>6. CASE GnbLost
  BY <1>1, <1>6 DEF GnbLost, Reached
<1> QED
  BY <1>2, <1>3, <1>4, <1>5, <1>6 DEF Testbed

\* The course of every command is kept, for any wiring and number of faults.
THEOREM CourseInvariance ==
  ASSUME SerialUse
  PROVE  Spec => []HInv
<1>1. Init => Rails /\ \A p \in Procs : OnCourse(p)
  BY DEF Init, Rails, OnCourse, LeasedOne, HeadingOne, PendingOne, ArchivedOne, Live,
         Driving
<1>2. HInv /\ IInv' /\ [Next]_vars => HInv'
  <2> SUFFICES ASSUME HInv, IInv', [Next]_vars PROVE HInv'
    OBVIOUS
  <2>1. CASE UNCHANGED vars
    BY <2>1 DEF HInv, vars, Rails, OnCourse, LeasedOne, HeadingOne, PendingOne,
                ArchivedOne, Live, Driving, Reached, Aim, ToDo
  <2>2. CASE Next
    <3>1. Rails'
      BY <2>2, RailsStep DEF HInv, IInv
    <3>2. ASSUME NEW q \in Procs PROVE OnCourse(q)'
      BY <2>2, DrivingMoves, OtherMoves, OthersStay, StartsOnCourse, TestbedOnCourse
         DEF Next, Step
    <3> QED
      BY <3>1, <3>2 DEF HInv
  <2> QED
    BY <2>1, <2>2
<1>3. Init /\ IInv => HInv
  BY <1>1 DEF HInv
<1> QED
  BY <1>2, <1>3, Invariance, PTL DEF Spec

\* Under serial use a run that is worked with has its radio and what powers its
\* UE on, whatever the exit codes said (_verified_transition in provider.py).
THEOREM WorkFindsItsHardware ==
  ASSUME SerialUse
  PROVE  Spec => []WorkHasHardware
<1>1. HInv => WorkHasHardware
  BY DEF HInv, OnCourse, PendingOne, WorkHasHardware, Reached
<1> QED
  BY <1>1, CourseInvariance, PTL

\* Under serial use the complete claim of a run disappears only when it was
\* archived, or after its release saw everything off
\* (release_physical_resources, retire_stale_claim).
THEOREM ClaimLeavesAsItShould ==
  ASSUME SerialUse
  PROVE  Spec => ClaimLeavesProperly
<1> DEFINE A == \A r \in Runs :
                  claim = Whole(r) /\ claim' # Whole(r) =>
                    \/ r \in retired
                    \/ \E p \in Procs : pc[p] = "unlink" /\ run[p] = r /\ Proven(p)
<1>1. ASSUME HInv, [Next]_vars, NEW r \in Runs, claim = Whole(r), claim' # Whole(r)
      PROVE  \/ r \in retired
             \/ \E p \in Procs : pc[p] = "unlink" /\ run[p] = r /\ Proven(p)
  <2> USE DEF files, env, gnb
  <2>1. TypeOK /\ HoldersOwnClaim /\ ~UNCHANGED vars
    BY <1>1 DEF HInv, IInv, vars
  <2>2. PICK p \in Procs : Step(p) \/ Break(p)
    <3>1. ASSUME NEW p \in Procs, NEW s \in Runs, StartRun(p, s) \/ StartRelease(p, s)
          PROVE  FALSE
      BY <1>1, <3>1 DEF StartRun, StartRelease
    <3>2. CASE Testbed
      BY <1>1, <3>2, TestbedStep
    <3> QED
      BY <1>1, <2>1, <3>1, <3>2 DEF Next
  <2>3. CASE Unlink(p)
    <3>1. run[p] = r /\ pc[p] = "unlink"
      BY <1>1, <2>1, <2>3, ClaimKinds DEF Unlink, HoldersOwnClaim, Holding
    <3>2. Proven(p)
      BY <1>1, <3>1 DEF HInv, OnCourse, PendingOne, Proven, Reached
    <3> QED
      BY <3>1, <3>2
  <2>4. CASE RetireUnlink(p)
    <3>1. run[p] = r /\ pc[p] = "retire-unlink"
      BY <1>1, <2>1, <2>4, ClaimKinds DEF RetireUnlink, HoldersOwnClaim, Holding
    <3> QED
      BY <1>1, <3>1 DEF HInv, OnCourse, ArchivedOne
  <2>5. CASE ClaimCreate(p) \/ ClaimFill(p) \/ ClaimFillFails(p)
    BY <1>1, <2>1, <2>5, ClaimKinds DEF ClaimCreate, ClaimFill, ClaimFillFails,
                                        HoldersOwnClaim
  <2>6. CASE ~(Unlink(p) \/ RetireUnlink(p) \/ ClaimCreate(p) \/ ClaimFill(p)
               \/ ClaimFillFails(p))
    BY <1>1, <2>2, <2>6
       DEF Step, Break, WriteTopology, ClaimCheck, Undo, ClaimMatch, LeaseCheck, StopGnb, Look,
           Mutate, Verify, Prepared, Reconciled, StartGnb, Cleanup, Leave, PoweredOff,
           WriteReleased, Gateway, RetireRead, RetireReread, Raise, TopologyFails, Crash
  <2> QED
    BY <2>3, <2>4, <2>5, <2>6
<1>2. HInv /\ [Next]_vars => A
  BY <1>1
<1>3. Spec => [][A]_vars
  BY <1>2, CourseInvariance, PTL DEF Spec
<1> QED
  BY <1>3 DEF ClaimLeavesProperly
=============================================================================
