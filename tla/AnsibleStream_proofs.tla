------------------------ MODULE AnsibleStream_proofs ------------------------
(***************************************************************************)
(* Proofs about AnsibleStream, for any number of lines.  The inductive     *)
(* invariant adds to the types: the lines an "...ignoring" may follow, what *)
(* current and deferred say of the lines taken so far, and that nothing is  *)
(* told before the call has returned.                                      *)
(***************************************************************************)
EXTENDS AnsibleStream, TLAPS

\* Ansible takes back a failure on the line after it.
IgnoringFollows ==
  \A i \in 1..Len(written) : written[i] = "ignoring" => i > 1 /\ written[i - 1] = "failed"

\* No other header has been taken since the current one.
CurrentIsTask ==
  current # 0 => \A j \in (current + 1)..taken : written[j] \notin Headers

DeferredStand == deferred = {i \in 1..taken : Stands(i)}

\* Nothing is told before the playbook is dead and its last line is taken.
ToldLast ==
  /\ pc \in {"tell", "returned"} => child = "dead"
  /\ pc = "returned" => told = IF rc # 0 THEN deferred ELSE {}
  /\ told \subseteq deferred
  /\ told # {} => rc # 0 /\ child = "dead" /\ pc \in {"tell", "returned", "raise", "raised"}

Inv == TypeOK /\ IgnoringFollows /\ CurrentIsTask /\ DeferredStand /\ ToldLast /\ AnnouncedRan


-----------------------------------------------------------------------------
\* The playbook writes at the end only.
LEMMA AppendKeeps ==
  ASSUME NEW s \in Seq(Kinds), NEW k \in Kinds
  PROVE  /\ Append(s, k) \in Seq(Kinds)
         /\ Len(Append(s, k)) = Len(s) + 1
         /\ \A i \in 1..Len(s) : Append(s, k)[i] = s[i]
         /\ Append(s, k)[Len(s) + 1] = k
  OBVIOUS

\* The types, apart for the lines and for what steers the two threads.
LineTypes ==
  /\ written \in Seq(Kinds) /\ moved \in 0..Len(written) /\ taken \in 0..moved
  /\ current \in 0..taken /\ deferred \subseteq 1..taken
  /\ announced \subseteq 1..taken /\ beats \subseteq 1..taken /\ told \subseteq 1..taken

PlaceTypes ==
  /\ child \in {"running", "silent", "dead"} /\ rc \in {0, 1}
  /\ reader \in {"read", "put", "close", "dead"} /\ pc \in Places \cup Endings

FlagTypes ==
  /\ holder \in BOOLEAN /\ ended \in BOOLEAN /\ broken \in BOOLEAN /\ open \in BOOLEAN /\ late \in BOOLEAN
  /\ ended <=> reader \in {"close", "dead"}
  /\ reader = "dead" => ~open

LEMMA Parts == TypeOK <=> LineTypes /\ PlaceTypes /\ FlagTypes
  BY Zenon DEF TypeOK, LineTypes, PlaceTypes, FlagTypes

LEMMA InitInv == Init => Inv
  <1> SUFFICES ASSUME Init PROVE Inv
    OBVIOUS
  <1>1. TypeOK
    <2>1. LineTypes
      BY DEF Init, LineTypes
    <2>2. PlaceTypes
      BY DEF Init, PlaceTypes, Places, Endings
    <2>3. FlagTypes
      BY DEF Init, FlagTypes
    <2> QED
      BY <2>1, <2>2, <2>3, Parts
  <1>2. IgnoringFollows /\ CurrentIsTask /\ DeferredStand /\ ToldLast /\ AnnouncedRan
    BY DEF Init, IgnoringFollows, CurrentIsTask, DeferredStand, ToldLast, AnnouncedRan
  <1> QED
    BY <1>1, <1>2 DEF Inv

LEMMA LineTypesStep == LineTypes /\ [Next]_vars => LineTypes'
  <1> SUFFICES ASSUME LineTypes, [Next]_vars PROVE LineTypes'
    OBVIOUS
  <1>1. ASSUME NEW k \in Kinds, Write(k) PROVE LineTypes'
    <2>1. written' \in Seq(Kinds) /\ Len(written') = Len(written) + 1
      BY <1>1, AppendKeeps DEF Write, LineTypes
    <2> QED
      BY <1>1, <2>1 DEF Write, LineTypes, thread, loop, reports
  <1>2. CASE CloseOutput \/ Exit \/ LetGo \/ DeadlinePasses \/ ReadFails \/ ReadEnd \/ PutNone \/ ReaderCloses
             \/ TopLate \/ TopQuiet \/ GetNone \/ GetTimesOut \/ Poll \/ Raise
             \/ Kill \/ Shut \/ Wait \/ Return \/ UNCHANGED vars
    <2>1. UNCHANGED <<written, moved, taken, current, deferred, announced, beats, told>>
      BY <1>2 DEF Wait, Return, CloseOutput, ReadFails, Exit, LetGo, DeadlinePasses, ReadEnd, PutNone, ReaderCloses, TopLate,
         TopQuiet, GetNone, GetTimesOut, Poll, Raise, Kill, Shut, vars, process, thread,
         loop, reports
    <2> QED
      BY <2>1 DEF LineTypes
  <1>3. CASE ReadLine
    BY <1>3 DEF ReadLine, LineTypes, process, loop, reports
  <1>4. CASE TopHeartbeat
    BY <1>4 DEF TopHeartbeat, Announce, LineTypes, process, thread, loop
  <1>5. CASE Tell
    BY <1>5 DEF Tell, Untold, LineTypes, process, thread, loop
  <1>6. CASE GetLine
    <2>1. taken' = taken + 1 /\ taken' \in 0..moved' /\ UNCHANGED <<written, moved, beats, told>>
      BY <1>6 DEF GetLine, LineTypes, process, thread
    <2>2. current' \in 0..taken'
      BY <1>6, <2>1 DEF GetLine, LineTypes
    <2>3. announced' \subseteq 1..taken'
      <3>1. \A h \in announced' : h \in announced \/ (current # 0 /\ h = current)
        BY <1>6 DEF GetLine, AnnounceIfRun, Announce
      <3>2. taken \in Nat
        BY DEF LineTypes
      <3>3. \A h \in announced : h \in 1..taken
        BY DEF LineTypes
      <3>4. current # 0 => current \in 1..taken
        BY <3>2 DEF LineTypes
      <3>5. taken' = taken + 1
        BY <2>1
      <3>6. ASSUME NEW h \in announced' PROVE h \in 1..(taken + 1)
        BY <3>1, <3>2, <3>3, <3>4
      <3> QED
        BY <3>5, <3>6
    <2>4. deferred' \subseteq 1..taken'
      <3>1. deferred' \subseteq deferred \cup {taken + 1}
        BY <1>6 DEF GetLine, Defer, Latest
      <3> QED
        BY <2>1, <3>1 DEF LineTypes
    <2> QED
      BY <2>1, <2>2, <2>3, <2>4 DEF LineTypes
  <1> QED
    BY <1>1, <1>2, <1>3, <1>4, <1>5, <1>6 DEF Next, Main, Reader

LEMMA PlaceTypesStep == PlaceTypes /\ [Next]_vars => PlaceTypes'
  <1> SUFFICES ASSUME PlaceTypes, [Next]_vars PROVE PlaceTypes'
    OBVIOUS
  <1> USE DEF PlaceTypes, Places, Endings, process, thread
  <1>1. ASSUME NEW k \in Kinds, Write(k) PROVE PlaceTypes'
    BY <1>1 DEF Write
  <1>2. CASE CloseOutput \/ Exit \/ LetGo \/ DeadlinePasses \/ Reader
    BY <1>2 DEF CloseOutput, Exit, LetGo, DeadlinePasses, Reader, ReadLine, ReadFails, ReadEnd, PutNone, ReaderCloses
  <1>3. CASE TopLate \/ TopQuiet \/ TopHeartbeat \/ GetLine \/ GetNone \/ GetTimesOut
    BY <1>3 DEF TopLate, TopQuiet, TopHeartbeat, GetLine, GetNone, GetTimesOut
  <1>4. CASE Poll \/ Wait \/ Tell \/ Return \/ Kill \/ Shut \/ Raise \/ UNCHANGED vars
    BY <1>4 DEF Poll, Wait, Tell, Return, Kill, Shut, Raise, vars
  <1> QED
    BY <1>1, <1>2, <1>3, <1>4 DEF Next, Main

LEMMA FlagTypesStep == FlagTypes /\ PlaceTypes /\ [Next]_vars => FlagTypes'
  <1> SUFFICES ASSUME FlagTypes, PlaceTypes, [Next]_vars PROVE FlagTypes'
    OBVIOUS
  <1>1. CASE (\E k \in Kinds : Write(k)) \/ CloseOutput \/ Exit \/ Wait \/ Tell \/ TopLate \/ TopQuiet \/ TopHeartbeat
             \/ GetLine \/ GetNone \/ GetTimesOut \/ Poll \/ Kill \/ Raise
             \/ ReadLine \/ UNCHANGED vars
    <2>1. UNCHANGED <<holder, ended, broken, open, late, reader>>
      BY <1>1 DEF Write, CloseOutput, Exit, Wait, Tell, TopLate, TopQuiet, TopHeartbeat, GetLine, GetNone,
         GetTimesOut, Poll, Kill, Raise, ReadLine, vars, process, thread
    <2> QED
      BY <2>1 DEF FlagTypes
  <1>2. CASE LetGo
    BY <1>2, Zenon DEF LetGo, FlagTypes, thread
  <1>3. CASE DeadlinePasses
    BY <1>3, Zenon DEF DeadlinePasses, FlagTypes, process, thread
  <1>4. CASE ReadEnd \/ ReadFails
    <2>1. /\ reader = "read" /\ reader' = "put" /\ UNCHANGED <<holder, ended, open, late>>
          /\ broken' = broken \/ broken' = TRUE
      BY <1>4 DEF ReadEnd, ReadFails, process
    <2> QED
      BY <2>1 DEF FlagTypes
  <1>5. CASE PutNone
    <2>1. ended' = TRUE /\ reader' = "close" /\ UNCHANGED <<holder, broken, open, late>>
      BY <1>5 DEF PutNone, process
    <2> QED
      BY <2>1 DEF FlagTypes
  <1>6. CASE ReaderCloses
    <2>1. reader = "close" /\ open' = FALSE /\ reader' = "dead" /\ UNCHANGED <<holder, ended, broken, late>>
      BY <1>6 DEF ReaderCloses, process
    <2> QED
      BY <2>1 DEF FlagTypes
  <1>7. CASE Return \/ Shut
    <2>1. open' = FALSE /\ UNCHANGED <<reader, holder, ended, broken, late>>
      BY <1>7 DEF Return, Shut, process, thread
    <2> QED
      BY <2>1 DEF FlagTypes
  <1> QED
    BY <1>1, <1>2, <1>3, <1>4, <1>5, <1>6, <1>7 DEF Next, Main, Reader

LEMMA TypeStep == TypeOK /\ [Next]_vars => TypeOK'
  <1>1. (LineTypes /\ PlaceTypes /\ FlagTypes)' => TypeOK'
    BY Zenon DEF TypeOK, LineTypes, PlaceTypes, FlagTypes
  <1> QED
    BY <1>1, Parts, LineTypesStep, PlaceTypesStep, FlagTypesStep

-----------------------------------------------------------------------------
\* What is said of the lines taken so far does not change with a line written.
LEMMA WriteStep ==
  ASSUME Inv, NEW k \in Kinds, Write(k), TypeOK'
  PROVE  Inv'
  <1>1. /\ Len(written') = Len(written) + 1
        /\ \A i \in 1..Len(written) : written'[i] = written[i]
        /\ written'[Len(written) + 1] = k
    BY AppendKeeps DEF Write, Inv, TypeOK
  <1>2. taken \in Nat /\ Len(written) \in Nat /\ taken <= Len(written) /\ current \in 0..taken
    BY DEF Inv, TypeOK
  <1>3. UNCHANGED <<pc, child, rc, taken, current, deferred, announced, beats, told>>
    BY DEF Write, loop, reports
  <1>4. IgnoringFollows'
    <2> SUFFICES ASSUME NEW i \in 1..(Len(written) + 1), written'[i] = "ignoring"
                 PROVE  i > 1 /\ written'[i - 1] = "failed"
      BY <1>1 DEF IgnoringFollows
    <2>1. CASE i = Len(written) + 1
      <3>1. MayFollow("ignoring") /\ k = "ignoring"
        BY <1>1, <2>1 DEF Write
      <3>2. written # <<>> /\ written[Len(written)] = "failed"
        BY <3>1 DEF MayFollow
      <3>3. Len(written) >= 1
        BY <3>2, <1>2 DEF Inv, TypeOK
      <3> QED
        BY <1>1, <1>2, <2>1, <3>2, <3>3
    <2>2. CASE i # Len(written) + 1
      <3>1. i \in 1..Len(written) /\ written[i] = "ignoring"
        BY <1>1, <1>2, <2>2
      <3>2. i > 1 /\ written[i - 1] = "failed"
        BY <3>1 DEF Inv, IgnoringFollows
      <3> QED
        BY <1>1, <1>2, <3>1, <3>2
    <2> QED
      BY <2>1, <2>2
  <1>5. \A i \in 1..taken : written'[i] = written[i]
    BY <1>1, <1>2
  <1>6. CurrentIsTask'
    BY <1>2, <1>3, <1>5 DEF Inv, CurrentIsTask
  <1>7. \A i \in 1..taken : Stands(i)' <=> Stands(i)
    BY <1>2, <1>3, <1>5 DEF Stands
  <1>8. DeferredStand'
    BY <1>3, <1>7 DEF Inv, DeferredStand
  <1>9. ToldLast'
    BY <1>3 DEF Inv, ToldLast
  <1>10. AnnouncedRan'
    <2> SUFFICES ASSUME NEW h \in announced, h \notin beats
                 PROVE  \E i \in 1..taken : written'[i] = "ok" /\ TaskOf(h, i)'
      BY <1>3 DEF AnnouncedRan
    <2>1. PICK i \in 1..taken : written[i] = "ok" /\ TaskOf(h, i)
      BY DEF Inv, AnnouncedRan
    <2>2. h \in Nat /\ h >= 1
      BY <1>2 DEF Inv, TypeOK
    <2>3. TaskOf(h, i)'
      BY <1>2, <1>5, <2>1, <2>2 DEF TaskOf
    <2> QED
      BY <1>5, <2>1, <2>3
  <1> QED
    BY <1>4, <1>6, <1>8, <1>9, <1>10 DEF Inv

\* Taking a line.
LEMMA LineStep ==
  ASSUME Inv, GetLine, TypeOK'
  PROVE  Inv'
  <1> DEFINE kind == written[taken + 1]
  <1>1. /\ taken \in Nat /\ Len(written) \in Nat /\ taken + 1 <= Len(written)
        /\ current \in 0..taken /\ deferred \subseteq 1..taken /\ announced \subseteq 1..taken
    BY DEF Inv, TypeOK, GetLine
  <1>2. /\ taken' = taken + 1 /\ written' = written /\ beats' = beats /\ pc = "get" /\ pc' = "top"
        /\ told' = told /\ child' = child /\ rc' = rc
        /\ current' = IF kind \in Titles THEN taken + 1 ELSE IF kind = "play" THEN 0 ELSE current
        /\ AnnounceIfRun(kind) /\ Defer(kind)
    BY DEF GetLine, process
  <1> HIDE DEF kind
  <1>3. kind = written[taken + 1]
    BY DEF kind
  <1>4. IgnoringFollows'
    BY <1>2 DEF Inv, IgnoringFollows
  <1>5. CurrentIsTask'
    BY <1>1, <1>2, <1>3 DEF Inv, CurrentIsTask, Headers
  <1>6. \A i \in 1..taken : Stands(i)' <=> (Stands(i) /\ ~(i = taken /\ kind = "ignoring"))
    BY <1>1, <1>2, <1>3 DEF Stands
  <1>7. \A i : i = taken + 1 => (Stands(i)' <=> kind = "failed")
    BY <1>1, <1>2, <1>3 DEF Stands
  <1>8. DeferredStand'
    <2>1. CASE kind = "ignoring"
      <3>1. taken >= 1 /\ written[taken] = "failed"
        <4>1. taken + 1 \in 1..Len(written) /\ (taken + 1) - 1 = taken /\ written[taken + 1] = "ignoring"
          BY <1>1, <1>3, <2>1
        <4>2. taken + 1 > 1 /\ written[(taken + 1) - 1] = "failed"
          BY <4>1 DEF Inv, IgnoringFollows
        <4> QED
          BY <1>1, <4>1, <4>2
      <3>2. taken \in deferred
        BY <1>1, <3>1 DEF Inv, DeferredStand, Stands
      <3>3. Latest = {taken}
        <4>1. \A j \in deferred : j \in Nat /\ j <= taken
          BY <1>1
        <4>2. ASSUME NEW i \in Latest PROVE i = taken
          BY <1>1, <3>2, <4>1, <4>2 DEF Latest
        <4>3. taken \in Latest
          BY <3>2, <4>1 DEF Latest
        <4> QED
          BY <4>2, <4>3
      <3>4. deferred' = deferred \ {taken}
        BY <1>2, <2>1, <3>3 DEF Defer
      <3> QED
        BY <1>1, <1>2, <1>6, <1>7, <2>1, <3>4 DEF Inv, DeferredStand
    <2>2. CASE kind = "failed"
      <3>1. deferred' = deferred \cup {taken + 1}
        BY <1>2, <2>2 DEF Defer
      <3> QED
        BY <1>1, <1>2, <1>6, <1>7, <2>2, <3>1 DEF Inv, DeferredStand
    <2>3. CASE kind \notin {"ignoring", "failed"}
      <3>1. deferred' = deferred
        BY <1>2, <2>3 DEF Defer
      <3> QED
        BY <1>1, <1>2, <1>6, <1>7, <2>3, <3>1 DEF Inv, DeferredStand
    <2> QED
      BY <2>1, <2>2, <2>3
  <1>9. ToldLast'
    BY <1>2 DEF Inv, ToldLast
  <1>10. AnnouncedRan'
    <2> SUFFICES ASSUME NEW h \in announced', h \notin beats
                 PROVE  \E i \in 1..(taken + 1) : written[i] = "ok" /\ TaskOf(h, i)
      BY <1>2 DEF AnnouncedRan, TaskOf
    <2>1. CASE h \in announced
      BY <1>1, <2>1 DEF Inv, AnnouncedRan
    <2>2. CASE h \notin announced
      <3>1. kind = "ok" /\ h = current /\ current # 0
        BY <1>2, <2>2 DEF AnnounceIfRun, Announce
      <3>2. \A j \in (current + 1)..taken : written[j] \notin Headers
        BY <3>1 DEF Inv, CurrentIsTask
      <3>3. written[taken + 1] = "ok" /\ written[taken + 1] \notin Headers
        BY <1>3, <3>1 DEF Headers, Titles
      <3>4. \A j \in (current + 1)..(taken + 1) : j \in (current + 1)..taken \/ j = taken + 1
        BY <1>1
      <3>5. current < taken + 1
        BY <1>1
      <3>6. TaskOf(current, taken + 1)
        BY <3>2, <3>3, <3>4, <3>5 DEF TaskOf
      <3> QED
        BY <1>1, <3>1, <3>3, <3>6
    <2> QED
      BY <2>1, <2>2
  <1> QED
    BY <1>4, <1>5, <1>8, <1>9, <1>10 DEF Inv

\* The steps that move no line leave the sentences about lines as they are.
LEMMA Framed ==
  ASSUME Inv, TypeOK', UNCHANGED <<written, taken, current, deferred>>, ToldLast',
         announced' \subseteq announced \cup beats', beats \subseteq beats'
  PROVE  Inv'
  <1>1. IgnoringFollows' /\ CurrentIsTask'
    BY DEF Inv, IgnoringFollows, CurrentIsTask
  <1>2. DeferredStand'
    BY DEF Inv, DeferredStand, Stands
  <1>3. AnnouncedRan'
    BY DEF Inv, AnnouncedRan, TaskOf
  <1> QED
    BY <1>1, <1>2, <1>3 DEF Inv

LEMMA Step == Inv /\ [Next]_vars => Inv'
  <1> SUFFICES ASSUME Inv, [Next]_vars PROVE Inv'
    OBVIOUS
  <1>t. TypeOK'
    BY TypeStep DEF Inv
  <1>1. ASSUME NEW k \in Kinds, Write(k) PROVE Inv'
    BY <1>1, <1>t, WriteStep
  <1>2. CASE GetLine
    BY <1>2, <1>t, LineStep
  <1>3. CASE CloseOutput \/ Exit \/ LetGo \/ DeadlinePasses \/ Reader
    <2>1. UNCHANGED <<taken, current, deferred, announced, beats, told, pc, written>>
      BY <1>3 DEF CloseOutput, Exit, LetGo, DeadlinePasses, Reader, ReadLine, ReadFails, ReadEnd, PutNone,
         ReaderCloses, process, thread, loop, reports
    <2>2. child = "dead" => child' = "dead" /\ rc' = rc
      BY <1>3 DEF CloseOutput, Exit, LetGo, DeadlinePasses, Reader, ReadLine, ReadFails, ReadEnd,
         PutNone, ReaderCloses, process
    <2>3. ToldLast'
      BY <2>1, <2>2 DEF Inv, ToldLast
    <2> QED
      BY <1>t, <2>1, <2>3, Framed
  <1>4. CASE TopLate \/ TopQuiet \/ GetNone \/ GetTimesOut \/ Poll \/ Kill
    <2>1. /\ UNCHANGED <<taken, current, deferred, announced, beats, told, written>>
          /\ pc \in Places \ {"tell", "raise"} /\ pc' \notin {"tell", "returned"}
      BY <1>4 DEF TopLate, TopQuiet, GetNone, GetTimesOut, Poll, Kill,
         process, thread, loop, reports, Places
    <2>2. ToldLast'
      BY <2>1 DEF Inv, ToldLast, Places
    <2> QED
      BY <1>t, <2>1, <2>2, Framed
  <1>4a. CASE Raise \/ Shut \/ Wait
    <2>1. /\ UNCHANGED <<taken, current, deferred, announced, beats, told, written, rc, child>>
          /\ pc \in {"raise", "raised", "tell"} => pc' \in {"raise", "raised"}
          /\ pc # "returned" /\ pc' # "returned"
          /\ pc' = "tell" => child = "dead"
      BY <1>4a DEF Raise, Shut, Wait, process, thread, loop, reports
    <2>2. ToldLast'
      BY <2>1 DEF Inv, ToldLast
    <2> QED
      BY <1>t, <2>1, <2>2, Framed
  <1>5. CASE TopHeartbeat
    <2>1. /\ UNCHANGED <<taken, current, deferred, told, written>>
          /\ pc = "top" /\ pc' = "get"
          /\ announced' \subseteq announced \cup beats' /\ beats \subseteq beats'
      BY <1>5 DEF TopHeartbeat, Announce, process, thread, loop, reports
    <2>2. ToldLast'
      BY <2>1 DEF Inv, ToldLast
    <2> QED
      BY <1>t, <2>1, <2>2, Framed
  <1>6. CASE Tell
    <2>1. /\ UNCHANGED <<taken, current, deferred, written, announced, beats, rc, child, pc>>
          /\ pc = "tell"
      BY <1>6 DEF Tell, process, thread, loop
    <2>2. rc # 0 /\ told' \subseteq deferred
      BY <1>6 DEF Tell, Untold, Inv, ToldLast
    <2>3. ToldLast'
      BY <2>1, <2>2 DEF Inv, ToldLast
    <2> QED
      BY <1>t, <2>1, <2>3, Framed
  <1>6a. CASE Return
    <2>1. /\ UNCHANGED <<taken, current, deferred, written, announced, beats, told, rc, child>>
          /\ pc = "tell" /\ pc' = "returned" /\ Untold = {}
      BY <1>6a DEF Return, process, thread, loop, reports
    <2>2. told = IF rc # 0 THEN deferred ELSE {}
      BY <2>1 DEF Untold, Inv, ToldLast
    <2>3. ToldLast'
      BY <2>1, <2>2 DEF Inv, ToldLast
    <2> QED
      BY <1>t, <2>1, <2>3, Framed
  <1>7. CASE UNCHANGED vars
    <2>1. ToldLast'
      BY <1>7 DEF vars, Inv, ToldLast
    <2> QED
      BY <1>7, <1>t, <2>1, Framed DEF vars
  <1> QED
    BY <1>1, <1>2, <1>3, <1>4, <1>4a, <1>5, <1>6, <1>6a, <1>7 DEF Next, Main

LEMMA InvHolds == Spec => []Inv
  <1>1. Init => Inv
    BY InitInv
  <1>2. Inv /\ [Next]_vars => Inv'
    BY Step
  <1> QED
    BY <1>1, <1>2, PTL DEF Spec

-----------------------------------------------------------------------------
\* Lines pass in order and a file the reader has left is closed, whatever the
\* playbook writes (run_streaming_ansible_command, _stream_output).
THEOREM TypeCorrect == Spec => []TypeOK
  <1>1. Inv => TypeOK
    BY DEF Inv
  <1> QED
    BY <1>1, InvHolds, PTL

\* Every announced task has run: it was current when a host had done it or when
\* a heartbeat was due.
THEOREM AnnouncedHaveRun == Spec => []AnnouncedRan
  <1>1. Inv => AnnouncedRan
    BY DEF Inv
  <1> QED
    BY <1>1, InvHolds, PTL

\* What is told after a failure is what stands in the output, however failures
\* and "...ignoring" lines are mixed, and however the call ends.
THEOREM FailuresToldStand == Spec => []FailuresStand
  <1>1. Inv => FailuresStand
    BY DEF Inv, ToldLast, DeferredStand, FailuresStand
  <1> QED
    BY <1>1, InvHolds, PTL

-----------------------------------------------------------------------------
(* What has been read when the call ends.                                  *)

\* Until the call breaks off, only the reader closes the file, and it has seen
\* the end of it unless it failed.
EndInv ==
  /\ OutputIsRead
  /\ ~open /\ pc \notin Endings => reader = "dead"
  /\ reader # "read" /\ ~broken /\ pc \notin {"expired", "raised"} =>
       child # "running" /\ ~holder /\ moved = Len(written)
  /\ pc \in {"wait", "tell", "returned"} => reader # "read"

LEMMA EndStep ==
  ASSUME Inv, EndInv, [Next]_vars
  PROVE  EndInv'
  <1> USE DEF EndInv, OutputIsRead, Endings, process, thread
  <1>0. TypeOK
    BY DEF Inv
  <1>1. CASE \E kind \in Kinds : Write(kind)
    <2>1. /\ child = "running" /\ child' = child /\ open' = open /\ broken' = broken
          /\ UNCHANGED <<holder, reader, moved, pc>>
      BY <1>1 DEF Write
    <2> QED
      BY <2>1
  <1>2. CASE CloseOutput \/ Exit \/ LetGo
    BY <1>2 DEF CloseOutput, Exit, LetGo
  <1>3. CASE DeadlinePasses \/ UNCHANGED vars
    BY <1>3 DEF DeadlinePasses, vars
  <1>4. CASE ReadLine
    BY <1>4 DEF ReadLine
  <1>4a. CASE ReadFails
    BY <1>4a DEF ReadFails
  <1>5. CASE ReadEnd
    <2>1. pc \notin Endings => moved = Len(written) /\ ~HasWriter
      BY <1>5 DEF ReadEnd
    <2>2. holder \in BOOLEAN
      BY <1>0 DEF TypeOK
    <2> QED
      BY <1>5, <2>1, <2>2 DEF ReadEnd, HasWriter
  <1>6. CASE PutNone \/ ReaderCloses
    BY <1>6 DEF PutNone, ReaderCloses
  <1>7. CASE TopLate \/ TopQuiet \/ TopHeartbeat \/ GetLine \/ GetTimesOut \/ Raise
    BY <1>7 DEF TopLate, TopQuiet, TopHeartbeat, GetLine, GetTimesOut, Raise
  <1>8. CASE GetNone
    BY <1>0, <1>8 DEF GetNone, TypeOK
  <1>9. CASE Poll \/ Wait \/ Tell \/ Return \/ Kill \/ Shut
    BY <1>9 DEF Poll, Wait, Tell, Return, Kill, Shut
  <1> QED
    BY <1>1, <1>2, <1>3, <1>4, <1>4a, <1>5, <1>6, <1>7, <1>8, <1>9 DEF Next, Main, Reader

\* A call that times out leaves no playbook running, and one that has stopped
\* to read has the whole output in its queue and only a playbook without output
\* before it, unless its reader failed (OutputIsRead).
THEOREM OutputHasBeenRead == Spec => []OutputIsRead
  <1>1. Init => EndInv
    BY DEF Init, EndInv, OutputIsRead, Endings
  <1>2. Inv /\ EndInv /\ [Next]_vars => EndInv'
    BY EndStep
  <1>3. EndInv => OutputIsRead
    BY DEF EndInv
  <1> QED
    BY <1>1, <1>2, <1>3, InvHolds, PTL DEF Spec
=============================================================================
