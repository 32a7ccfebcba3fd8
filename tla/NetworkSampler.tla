--------------------------- MODULE NetworkSampler ---------------------------
(***************************************************************************)
(* The network sampler of a research run (ResearchNetworkSampler in        *)
(* research/sampling.py): a thread that takes a sample at every point of a *)
(* grid, unless the one before is not over, and the command that starts    *)
(* it, watches it through the measurement window, stops it and judges the  *)
(* cadence it has kept.                                                    *)
(*                                                                         *)
(* Time is counted in ticks from start().  Samples take any time, threads  *)
(* wake up at any time after they may: nothing forces the pace.            *)
(***************************************************************************)
EXTENDS Naturals

CONSTANTS
  Interval,   \* ticks between two points of the grid
  MinWindow,  \* ticks below which no cadence is asked for
  Window,     \* ticks of the measurement window
  Grace,      \* ticks the command waits for the thread
  MaxTime     \* bound: ticks

ASSUME SamplerAssumption ==
  /\ Interval \in Nat \ {0} /\ Window \in Nat \ {0} /\ MaxTime \in Nat
  /\ MinWindow \in Nat /\ MinWindow >= 5 * Interval
  /\ Grace \in Nat /\ Grace > Interval

VARIABLES
  now,
  thread,     \* place of the thread
  deadline,   \* _next_deadline
  begun,      \* when the sample in progress was begun
  count,      \* _sample_count
  stop,       \* the event _stop
  error,      \* _error
  main,       \* place of the command
  opened, closed, \* begin and end of the window; 0: not yet
  since,      \* when the command began to join the thread
  verdict,    \* what stop() said
  covered, last, \* intervals in which a sample was begun, and the latest (history)
  inside,     \* samples that were begun in the window (history)
  prompt      \* every sample was over before the next point (history)

records  == <<covered, last, inside, prompt>>
sampling == <<deadline, begun, count, records>>
command  == <<main, opened, closed, since, verdict>>
vars     == <<now, thread, deadline, begun, count, stop, error, main,
              opened, closed, since, verdict, covered, last, inside, prompt>>

Init ==
  /\ now = 0 /\ thread = "none" /\ deadline = 0 /\ begun = 0 /\ count = 0
  /\ stop = FALSE /\ error = FALSE
  /\ main = "start" /\ opened = 0 /\ closed = 0 /\ since = 0 /\ verdict = "none"
  /\ covered = 0 /\ last = 0 /\ inside = 0 /\ prompt = TRUE

Tick ==
  /\ now < MaxTime /\ main # "over"
  /\ now' = now + 1
  /\ UNCHANGED <<thread, sampling, stop, error, command>>

\* Mutant of FutureDeadline: counted from the end of the sample.
FromNow(point, t) == IF point > t THEN point ELSE t + Interval

\* _future_deadline: the first point of the grid after t.
FutureDeadline(point, t) ==
  IF point > t THEN point
  ELSE point + ((t - point) \div Interval + 1) * Interval

-----------------------------------------------------------------------------
(* The thread.                                                             *)

Wake ==
  /\ thread = "wait" /\ ~stop /\ now >= deadline
  /\ thread' = "sample" /\ begun' = now
  /\ UNCHANGED <<now, deadline, count, records, stop, error, command>>

Sampled ==
  /\ count' = count + 1
  /\ LET k == begun \div Interval
     IN  /\ last' = k
         /\ covered' = IF count = 0 \/ k > last THEN covered + 1 ELSE covered
  /\ inside' = IF main \in {"start", "run"} \/ begun < opened \/ (closed > 0 /\ begun >= closed)
                 THEN inside ELSE inside + 1
  /\ prompt' = (prompt /\ now < deadline + Interval)

\* Mutant of SampleEnds: what was missed is made up for.
CatchUp ==
  /\ thread = "sample" /\ Sampled
  /\ thread' = "wait" /\ deadline' = deadline + Interval
  /\ UNCHANGED <<now, begun, stop, error, command>>

\* Mutant of SampleEnds: the interval is added twice.
SkipAPoint ==
  /\ thread = "sample" /\ Sampled
  /\ thread' = "wait"
  /\ deadline' = FutureDeadline(deadline + Interval, now) + Interval
  /\ UNCHANGED <<now, begun, stop, error, command>>

SampleEnds ==
  /\ thread = "sample" /\ Sampled
  /\ thread' = "wait"
  /\ deadline' = FutureDeadline(deadline + Interval, now)
  /\ UNCHANGED <<now, begun, stop, error, command>>

SampleFails ==
  /\ thread = "sample"
  /\ thread' = "ended" /\ error' = TRUE /\ stop' = TRUE
  /\ UNCHANGED <<now, sampling, command>>

Quit ==
  /\ thread = "wait" /\ stop
  /\ thread' = "ended"
  /\ UNCHANGED <<now, sampling, stop, error, command>>

-----------------------------------------------------------------------------
(* The command.                                                            *)

\* start() takes the first sample itself.
Start ==
  /\ main = "start"
  /\ \/ /\ Sampled /\ thread' = "wait" /\ main' = "run"
        /\ deadline' = FutureDeadline(Interval, now)
        /\ UNCHANGED verdict
     \/ /\ main' = "over" /\ verdict' = "failed"
        /\ UNCHANGED <<deadline, count, records, thread>>
  /\ UNCHANGED <<now, begun, stop, error, opened, closed, since>>

OpenWindow ==
  /\ main = "run" /\ now > 0
  /\ main' = "open" /\ opened' = now
  /\ UNCHANGED <<now, thread, sampling, stop, error, closed, since, verdict>>

\* check() has found nothing at the end of the window.
CloseWindow ==
  /\ main = "open" /\ now >= opened + Window /\ ~error
  /\ main' = "post" /\ closed' = now
  /\ UNCHANGED <<now, thread, sampling, stop, error, opened, since, verdict>>

\* check(), another instrument or the proof of the network fails.
Abort ==
  /\ main \in {"run", "open"}
  /\ main' = "post"
  /\ UNCHANGED <<now, thread, sampling, stop, error, opened, closed, since, verdict>>

Stop ==
  /\ main = "post"
  /\ stop' = TRUE /\ main' = "join" /\ since' = now
  /\ UNCHANGED <<now, thread, sampling, error, opened, closed, verdict>>

\* _verify_cadence, with _MINIMUM_CADENCE_RATIO = 0.80.
Missed ==
  /\ now >= MinWindow
  /\ 5 * count < 4 * (now \div Interval)

Join ==
  /\ main = "join" /\ thread = "ended"
  /\ verdict' = IF error THEN "failed" ELSE IF Missed THEN "rejected" ELSE "kept"
  /\ main' = "over"
  /\ UNCHANGED <<now, thread, sampling, stop, error, opened, closed, since>>

JoinTimesOut ==
  /\ main = "join" /\ thread # "ended" /\ now >= since + Grace
  /\ main' = "over" /\ verdict' = "stuck"
  /\ UNCHANGED <<now, thread, sampling, stop, error, opened, closed, since>>

Thread  == Wake \/ SampleEnds \/ SampleFails \/ Quit
Command == Start \/ OpenWindow \/ CloseWindow \/ Abort \/ Stop \/ Join \/ JoinTimesOut

Next == Tick \/ Thread \/ Command

Spec == Init /\ [][Next]_vars

-----------------------------------------------------------------------------
(* Properties.                                                             *)

\* The type of every variable; every point is one of the grid.
TypeOK ==
  /\ now \in 0..MaxTime /\ begun \in 0..now
  /\ covered \in 0..count /\ inside \in 0..count /\ last \in 0..now
  /\ opened \in 0..now /\ closed \in 0..now /\ since \in 0..now
  /\ deadline \in 0..(MaxTime + Interval) /\ deadline % Interval = 0
  /\ count \in 0..(MaxTime + 1)
  /\ {stop, error, prompt} \subseteq BOOLEAN
  /\ thread \in {"none", "wait", "sample", "ended"}
  /\ main \in {"start", "run", "open", "post", "join", "over"}
  /\ verdict \in {"none", "kept", "rejected", "failed", "stuck"}

\* The ratio the command judges by is one of time covered: samples that come
\* late are not made up for by several in one interval, so that a cadence that
\* is kept means a sample in four of five intervals since start().
KeptIsCovered ==
  verdict = "kept" /\ now >= MinWindow
    => 5 * covered >= 4 * (now \div Interval)

\* A sampler whose samples are all over before the next point, and that is
\* stopped in time, is never rejected: the sample missed when the command ends
\* between two points, and the first one taken by start(), are allowed for.
PromptIsKept == prompt /\ now < deadline + Interval => verdict # "rejected"

\* "Requested cadence is not evidence of achieved cadence" and a run that misses
\* it "must fail" (docs/experiment.md:94 and 106): a cadence that was kept is
\* one that the measurement window was sampled with.
WindowIsCovered ==
  verdict = "kept" /\ closed > 0
    => 5 * inside >= 4 * ((closed - opened) \div Interval)
=============================================================================
