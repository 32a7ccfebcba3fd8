--------------------------- MODULE AnsibleStream ---------------------------
(***************************************************************************)
(* One call of run_streaming_ansible_command (ansible_streaming.py): the   *)
(* playbook writes lines into a pipe, a reader thread moves them into a    *)
(* queue and ends it with None, and the main loop turns them into reports  *)
(* while it watches a deadline.  The reader may end before the playbook:   *)
(* on a line it cannot decode, or because the playbook closes its output.  *)
(*                                                                         *)
(* Lines are known by their position in what the playbook wrote.  Pipe and *)
(* queue are first in, first out, so that two counters say what is where:  *)
(* lines 1..taken are in output_lines, taken+1..moved in the queue, the    *)
(* rest is in the pipe.                                                    *)
(***************************************************************************)
EXTENDS Naturals, Sequences

CONSTANT MaxLines   \* bound: lines the playbook writes
ASSUME MaxLinesAssumption == MaxLines \in Nat

VARIABLES
  written,    \* kinds of the lines the playbook has written
  child,      \* the playbook: running, silent (it has closed its output) or dead
  rc,         \* its exit status
  holder,     \* a process it left behind has the write end of the pipe
  reader,     \* place of the reader thread
  moved,      \* lines the reader has put into the queue
  ended,      \* None is in the queue
  broken,     \* the reader ended on an exception (history)
  open,       \* process.stdout is not closed
  pc,         \* place of the main loop
  late,       \* monotonic() > deadline
  taken,      \* lines in output_lines
  current,    \* header that gave current_task; 0: None
  deferred,   \* deferred_failures
  announced, beats, told  \* headers and failures that were reported

process == <<written, child, rc, holder>>
thread  == <<reader, moved, ended, broken>>
loop    == <<taken, current, deferred>>
reports == <<announced, beats, told>>
vars == <<written, child, rc, holder, reader, moved, ended, broken, open,
          pc, late, taken, current, deferred, announced, beats, told>>

\* A visible task, another task, and what else the loop tells apart; "ok" is
\* also changed, "failed" also fatal and unreachable.
Titles   == {"visible", "hidden", "handler"}
Headers  == Titles \cup {"play"}
Statuses == {"ok", "skipping", "failed"}
Kinds    == Headers \cup Statuses \cup {"ignoring", "text"}

Places  == {"top", "get", "poll", "wait", "tell", "kill", "shut", "raise"}
Endings == {"returned", "expired", "raised"}

Init ==
  /\ written = <<>> /\ child = "running" /\ rc = 0 /\ holder \in BOOLEAN
  /\ reader = "read" /\ moved = 0 /\ ended = FALSE /\ broken = FALSE /\ open = TRUE
  /\ pc = "top" /\ late = FALSE
  /\ taken = 0 /\ current = 0 /\ deferred = {}
  /\ announced = {} /\ beats = {} /\ told = {}

Over == pc \in Endings

-----------------------------------------------------------------------------
(* The playbook.                                                           *)

\* Ansible says "...ignoring" on the line after the failure it is about.
MayFollow(kind) ==
  kind = "ignoring" => written # <<>> /\ written[Len(written)] = "failed"

Write(kind) ==
  /\ child = "running" /\ open /\ Len(written) < MaxLines
  /\ MayFollow(kind)
  /\ written' = Append(written, kind)
  /\ UNCHANGED <<child, rc, holder, thread, open, pc, late, loop, reports>>

CloseOutput ==
  /\ child = "running"
  /\ child' = "silent"
  /\ UNCHANGED <<written, rc, holder, thread, open, pc, late, loop, reports>>

\* With a rescue block a playbook succeeds in spite of a failure.
Exit ==
  /\ child # "dead"
  /\ child' = "dead" /\ rc' \in {0, 1}
  /\ UNCHANGED <<written, holder, thread, open, pc, late, loop, reports>>

LetGo ==
  /\ child # "running" /\ holder
  /\ holder' = FALSE
  /\ UNCHANGED <<written, child, rc, thread, open, pc, late, loop, reports>>

DeadlinePasses ==
  /\ ~late /\ ~Over
  /\ late' = TRUE
  /\ UNCHANGED <<process, thread, open, pc, loop, reports>>

-----------------------------------------------------------------------------
(* The reader thread.                                                      *)

HasWriter == child = "running" \/ holder

ReadLine ==
  /\ reader = "read" /\ open /\ moved < Len(written)
  /\ moved' = moved + 1
  /\ UNCHANGED <<process, reader, ended, broken, open, pc, late, loop, reports>>

\* A line that is not UTF-8, or another exception: what is in the pipe is left
\* there.
ReadFails ==
  /\ reader = "read" /\ open /\ moved < Len(written)
  /\ broken' = TRUE /\ reader' = "put"
  /\ UNCHANGED <<process, moved, ended, open, pc, late, loop, reports>>

\* End of file, whether the playbook goes on or not, or the error of a file
\* closed under it.
ReadEnd ==
  /\ reader = "read"
  /\ open => moved = Len(written) /\ ~HasWriter
  /\ reader' = "put"
  /\ UNCHANGED <<process, moved, ended, broken, open, pc, late, loop, reports>>

PutNone ==
  /\ reader = "put"
  /\ ended' = TRUE /\ reader' = "close"
  /\ UNCHANGED <<process, moved, broken, open, pc, late, loop, reports>>

\* Mutant of ReaderCloses: the file is left to the main loop.
ReaderEnds ==
  /\ reader = "close"
  /\ reader' = "dead"
  /\ UNCHANGED <<process, moved, ended, broken, open, pc, late, loop, reports>>

ReaderCloses ==
  /\ reader = "close"
  /\ open' = FALSE /\ reader' = "dead"
  /\ UNCHANGED <<process, moved, ended, broken, pc, late, loop, reports>>

Reader == ReadLine \/ ReadFails \/ ReadEnd \/ PutNone \/ ReaderCloses

-----------------------------------------------------------------------------
(* The main loop.                                                          *)

Announce ==
  announced' = IF current # 0 /\ written[current] \in {"visible", "handler"}
               THEN announced \cup {current} ELSE announced

TopLate ==
  /\ pc = "top" /\ late
  /\ pc' = "kill"
  /\ UNCHANGED <<process, thread, open, late, loop, reports>>

\* Mutant of TopQuiet: the deadline is not looked at on every pass.
TopPatient ==
  /\ pc = "top"
  /\ pc' = "get"
  /\ UNCHANGED <<process, thread, open, late, loop, reports>>

TopQuiet ==
  /\ pc = "top" /\ ~late
  /\ pc' = "get"
  /\ UNCHANGED <<process, thread, open, late, loop, reports>>

\* The current task has run for another heartbeat interval.
TopHeartbeat ==
  /\ pc = "top" /\ ~late /\ current # 0
  /\ beats' = beats \cup {current} /\ Announce
  /\ pc' = "get"
  /\ UNCHANGED <<process, thread, open, late, loop, told>>

\* Mutant of AnnounceIfRun: every host status is taken for evidence.
AnnounceAnyway(kind) ==
  IF kind \in Statuses THEN Announce ELSE UNCHANGED announced

AnnounceIfRun(kind) ==
  IF kind = "ok" THEN Announce ELSE UNCHANGED announced

Latest == {i \in deferred : \A j \in deferred : j <= i}

\* Mutant of Defer: an ignored failure is kept.
DeferAll(kind) ==
  deferred' = IF kind = "failed" THEN deferred \cup {taken + 1} ELSE deferred

Defer(kind) ==
  deferred' = IF kind = "failed" THEN deferred \cup {taken + 1}
              ELSE IF kind = "ignoring" THEN deferred \ Latest ELSE deferred

GetLine ==
  /\ pc = "get" /\ taken < moved
  /\ taken' = taken + 1
  /\ LET kind == written[taken + 1]
     IN /\ current' = IF kind \in Titles THEN taken + 1
                      ELSE IF kind = "play" THEN 0 ELSE current
        /\ AnnounceIfRun(kind)
        /\ Defer(kind)
  /\ pc' = "top"
  /\ UNCHANGED <<process, thread, open, late, beats, told>>

GetNone ==
  /\ pc = "get" /\ taken = moved /\ ended
  /\ pc' = "wait"
  /\ UNCHANGED <<process, thread, open, late, loop, reports>>

GetTimesOut ==
  /\ pc = "get" /\ taken = moved /\ ~ended
  /\ pc' = "poll"
  /\ UNCHANGED <<process, thread, open, late, loop, reports>>

Poll ==
  /\ pc = "poll"
  /\ pc' = IF child = "dead" /\ reader = "dead" THEN "wait" ELSE "top"
  /\ UNCHANGED <<process, thread, open, late, loop, reports>>

\* process.wait() without a timeout.
Wait ==
  /\ pc = "wait" /\ child = "dead"
  /\ pc' = "tell"
  /\ UNCHANGED <<process, thread, open, late, loop, reports>>

Untold == IF rc # 0 THEN deferred \ told ELSE {}

\* Failures are told in their order.
Tell ==
  /\ pc = "tell"
  /\ \E i \in Untold :
       /\ \A j \in Untold : i <= j
       /\ told' = told \cup {i}
  /\ UNCHANGED <<process, thread, open, pc, late, loop, announced, beats>>

Return ==
  /\ pc = "tell" /\ Untold = {}
  /\ open' = FALSE
  /\ pc' = "returned"
  /\ UNCHANGED <<process, thread, late, loop, reports>>

\* Mutant of Kill: terminate() without the kill() that follows it.
Terminate ==
  /\ pc = "kill"
  /\ \/ child' = "dead" /\ rc' = 1
     \/ UNCHANGED <<child, rc>>
  /\ pc' = IF child' = "dead" THEN "shut" ELSE "wait"
  /\ UNCHANGED <<written, holder, thread, open, late, loop, reports>>

\* _kill_process_tree: terminate, then kill; of the tree, only the playbook.
Kill ==
  /\ pc = "kill"
  /\ child' = "dead"
  /\ rc' = IF child = "dead" THEN rc ELSE 1
  /\ pc' = "shut"
  /\ UNCHANGED <<written, holder, thread, open, late, loop, reports>>

\* The file is not closed while the reader waits in it for more.
MayClose == ~(reader = "read" /\ open /\ moved = Len(written) /\ HasWriter)

Shut ==
  /\ pc \in {"shut", "raise"} /\ MayClose
  /\ open' = FALSE
  /\ pc' = IF pc = "shut" THEN "expired" ELSE "raised"
  /\ UNCHANGED <<process, thread, late, loop, reports>>

\* A report that cannot be written, or an interrupt.
Raise ==
  /\ pc \in {"top", "get", "wait", "tell"}
  /\ pc' = "raise"
  /\ UNCHANGED <<process, thread, open, late, loop, reports>>

Main ==
  \/ TopLate \/ TopQuiet \/ TopHeartbeat
  \/ GetLine \/ GetNone \/ GetTimesOut
  \/ Poll \/ Wait \/ Tell \/ Return \/ Kill \/ Shut

Next ==
  \/ \E kind \in Kinds : Write(kind)
  \/ CloseOutput \/ Exit \/ LetGo \/ DeadlinePasses
  \/ Reader \/ Main \/ Raise

Spec == Init /\ [][Next]_vars

\* Threads go on and time passes; nothing is assumed of the playbook and of what
\* it leaves behind.
Fairness == WF_vars(Reader) /\ WF_vars(Main) /\ WF_vars(DeadlinePasses)
FairSpec == Spec /\ Fairness

-----------------------------------------------------------------------------
\* Types; lines pass from the playbook to the reader to the loop, and a file
\* the reader has left is closed.
TypeOK ==
  /\ written \in Seq(Kinds)
  /\ child \in {"running", "silent", "dead"} /\ rc \in {0, 1} /\ holder \in BOOLEAN
  /\ reader \in {"read", "put", "close", "dead"}
  /\ moved \in 0..Len(written)
  /\ broken \in BOOLEAN
  /\ ended \in BOOLEAN /\ (ended <=> reader \in {"close", "dead"})
  /\ open \in BOOLEAN /\ (reader = "dead" => ~open)
  /\ pc \in Places \cup Endings /\ late \in BOOLEAN
  /\ taken \in 0..moved
  /\ current \in 0..taken
  /\ deferred \subseteq 1..taken
  /\ announced \subseteq 1..taken /\ beats \subseteq 1..taken
  /\ told \subseteq 1..taken

\* header is the task of the line at position i.
TaskOf(header, i) ==
  header < i /\ \A j \in (header + 1)..i : written[j] \notin Headers

\* A task is announced only on evidence that it ran: a host has done it, or it
\* was still the current task when a heartbeat was due.  A task that every host
\* skipped is never announced (parse_ansible_line's docstring, CONTRIBUTING).
AnnouncedRan ==
  \A h \in announced :
    h \in beats \/ \E i \in 1..taken : written[i] = "ok" /\ TaskOf(h, i)

\* A failure in the output, which the line after it does not take back.
Stands(i) ==
  written[i] = "failed" /\ ~(i < taken /\ written[i + 1] = "ignoring")

\* A call that returns has told exactly the failures that stand in its output
\* when the playbook failed, and none when it succeeded; one that breaks off
\* while it tells them has told some of them, and no other call tells any.
FailuresStand ==
  LET standing == {i \in 1..taken : Stands(i)}
  IN /\ pc = "returned" => told = IF rc # 0 THEN standing ELSE {}
     /\ told \subseteq standing
     /\ told # {} => rc # 0 /\ pc \in {"tell", "returned", "raise", "raised"}

\* The call waits for the playbook and looks at no deadline, or cannot close a
\* file in which the reader waits for a process the playbook has left behind.
Stuck ==
  \/ pc = "wait" /\ child # "dead"
  \/ pc = "shut" /\ ~MayClose

\* While the call reads it keeps its deadline, whatever the playbook does: it
\* ends, breaks off, or is stuck for good in one of the two places that have none.
CallEnds == <>[](Over \/ pc = "raise" \/ Stuck)

\* The call is over some time: the limit of CallEnds.
CallIsOver == <>(Over \/ pc = "raise")

\* A call that times out leaves no playbook running.  One that has stopped to
\* read has the whole output on its side of the pipe, and only a playbook that
\* has closed its output still runs, unless the reader failed: the limit of
\* CompleteOutput.
OutputIsRead ==
  /\ pc \in {"shut", "expired", "tell", "returned"} => child = "dead"
  /\ pc \in {"wait", "tell", "returned"} /\ ~broken =>
       child # "running" /\ ~holder /\ moved = Len(written)

\* "retaining complete raw output" (docstring of run_streaming_ansible_command):
\* the result of a call has every line the playbook wrote.
CompleteOutput == pc = "returned" => taken = Len(written)
=============================================================================
