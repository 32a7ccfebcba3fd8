------------------------ MODULE NetworkSampler_proofs ------------------------
(***************************************************************************)
(* Proofs about NetworkSampler, for any interval, window and times.        *)
(***************************************************************************)
EXTENDS NetworkSampler, Integers, TLAPS

-----------------------------------------------------------------------------
(* The grid.                                                               *)

\* A time lies in the interval that its quotient numbers.
LEMMA Division ==
  ASSUME NEW a \in Nat
  PROVE  /\ a \div Interval \in Nat
         /\ (a \div Interval) * Interval <= a
         /\ a < (a \div Interval) * Interval + Interval
BY SamplerAssumption

\* Points of the grid are ordered as their numbers.
LEMMA Monotone ==
  ASSUME NEW k \in Int, NEW n \in Int, k * Interval < n * Interval
  PROVE  k < n
BY SamplerAssumption

\* The next deadline is a point of the grid, after t, and the same point when it
\* is already after t.
LEMMA Deadline ==
  ASSUME NEW p \in Nat, NEW t \in Nat
  PROVE  \E g \in Nat : /\ FutureDeadline(p * Interval, t) = g * Interval
                        /\ g * Interval > t
                        /\ p * Interval > t => g = p
                        /\ p * Interval <= t + Interval => g * Interval <= t + Interval
<1>1. CASE p * Interval > t
  BY <1>1 DEF FutureDeadline
<1>2. CASE ~(p * Interval > t)
  <2>1. p * Interval \in Nat /\ t - p * Interval \in Nat
    BY <1>2, SamplerAssumption
  <2> DEFINE q == (t - p * Interval) \div Interval
  <2>2. /\ q \in Nat
        /\ q * Interval <= t - p * Interval
        /\ t - p * Interval < q * Interval + Interval
    BY <2>1, Division
  <2> HIDE DEF q
  <2>3. p + q + 1 \in Nat
    BY <2>2
  <2>4. (p + q + 1) * Interval = p * Interval + (q + 1) * Interval
    BY <2>2, SamplerAssumption
  <2>5. (q + 1) * Interval = q * Interval + Interval /\ q * Interval \in Nat
    BY <2>2, SamplerAssumption
  <2>6. FutureDeadline(p * Interval, t) = (p + q + 1) * Interval
    BY <1>2, <2>4 DEF FutureDeadline, q
  <2>7. (p + q + 1) * Interval > t /\ (p + q + 1) * Interval <= t + Interval
    BY <2>1, <2>2, <2>4, <2>5, SamplerAssumption
  <2> QED
    BY <1>2, <2>3, <2>6, <2>7
<1> QED
  BY <1>1, <1>2

-----------------------------------------------------------------------------
(* The invariant.                                                          *)

Types ==
  /\ now \in 0..MaxTime /\ begun \in 0..now
  /\ opened \in 0..now /\ closed \in 0..now /\ since \in 0..now
  /\ count \in Nat /\ inside \in 0..count /\ last \in 0..now
  /\ stop \in BOOLEAN /\ error \in BOOLEAN /\ prompt \in BOOLEAN
  /\ thread \in {"none", "wait", "sample", "ended"}
  /\ main \in {"start", "run", "open", "post", "join", "over"}
  /\ verdict \in {"none", "kept", "rejected", "failed", "stuck"}

\* The deadline is a point of the grid, at most an interval away; it is the
\* next one for as long as no sample was late.
Grid ==
  /\ \E g \in Nat : deadline = g * Interval
  /\ deadline <= now + Interval
  /\ thread # "none" /\ prompt => deadline = count * Interval

\* Every sample so far lies in an interval of its own, before the deadline; the
\* one in progress lies after it.
Apart ==
  /\ covered = count
  /\ thread = "none" => count = 0 /\ begun = 0 /\ last = 0 /\ deadline = 0
  /\ thread # "none" => count >= 1 /\ count <= last + 1 /\ last * Interval < deadline
  /\ thread = "sample" => deadline <= begun

\* What the command has judged is what the thread has left.
Judged ==
  /\ main = "start" => thread = "none"
  /\ thread = "none" => main \in {"start", "over"} /\ verdict \in {"none", "failed"}
  /\ error => thread = "ended"
  /\ verdict = "none" <=> main # "over"
  /\ verdict \in {"kept", "rejected"} => thread = "ended"
  /\ verdict = "kept" => ~error /\ ~Missed
  /\ verdict = "rejected" => Missed

Inv == Types /\ Grid /\ Apart /\ Judged

-----------------------------------------------------------------------------
(* A sample.                                                               *)

\* A sample taken at or after the deadline lies in an interval of its own.
LEMMA NewInterval ==
  ASSUME Types, Grid, Apart, thread = "sample"
  PROVE  begun \div Interval > last
<1> DEFINE k == begun \div Interval
<1>1. k \in Nat /\ begun < k * Interval + Interval
  BY Division DEF Types
<1>2. PICK g \in Nat : deadline = g * Interval
  BY DEF Grid
<1>3. last \in Nat /\ last * Interval < g * Interval
  BY <1>2 DEF Types, Apart
<1> HIDE DEF k
<1>4. last < g
  BY <1>3, Monotone
<1>5. g * Interval < k * Interval + Interval
  BY <1>1, <1>2, SamplerAssumption DEF Types, Apart
<1>6. (k + 1) * Interval = k * Interval + Interval
  BY <1>1, SamplerAssumption
<1>7. g < k + 1
  BY <1>1, <1>5, <1>6, Monotone
<1> QED
  BY <1>1, <1>3, <1>4, <1>7 DEF k

LEMMA InitInv == Init => Inv
<1> SUFFICES ASSUME Init PROVE Inv
  OBVIOUS
<1>1. deadline = 0 * Interval
  BY SamplerAssumption DEF Init
<1>2. Types
  <2>1. 0 \in Nat /\ 0 \in 0..MaxTime /\ 0 \in 0..0
    BY SamplerAssumption
  <2> QED
    BY <2>1, Zenon DEF Init, Types
<1>3. Grid
  BY <1>1, SamplerAssumption DEF Init, Grid
<1>4. Apart
  BY DEF Init, Apart
<1>5. Judged
  BY DEF Init, Judged
<1> QED
  BY <1>2, <1>3, <1>4, <1>5 DEF Inv

\* A sample that ends keeps types, grid and distance.
LEMMA EndInv ==
  ASSUME Inv, SampleEnds
  PROVE  Inv'
<1> USE SamplerAssumption
<1>1. Types /\ Grid /\ Apart /\ thread = "sample"
  BY DEF Inv, SampleEnds
<1> DEFINE k == begun \div Interval
<1>2. k \in Nat /\ k * Interval <= begun
  BY <1>1, Division DEF Types
<1>3. k > last
  BY <1>1, NewInterval
<1> HIDE DEF k
<1>4. k <= now
  BY <1>1, <1>2 DEF Types
<1>5. last' = k /\ count' = count + 1 /\ covered' = covered + 1
  BY <1>3 DEF SampleEnds, Sampled, k
<1>6. PICK p \in Nat : deadline = p * Interval
  BY <1>1 DEF Grid
<1>7. p + 1 \in Nat /\ deadline + Interval = (p + 1) * Interval
  BY <1>6
<1>8. deadline + Interval <= now + Interval
  BY <1>1, <1>6 DEF Types, Apart
<1>9. PICK g \in Nat : /\ deadline' = g * Interval
                       /\ g * Interval > now
                       /\ deadline + Interval > now => g = p + 1
                       /\ g * Interval <= now + Interval
  <2>1. now \in Nat /\ deadline' = FutureDeadline((p + 1) * Interval, now)
    BY <1>1, <1>7 DEF SampleEnds, Types
  <2>2. PICK g \in Nat :
            /\ FutureDeadline((p + 1) * Interval, now) = g * Interval
            /\ g * Interval > now
            /\ (p + 1) * Interval > now => g = p + 1
            /\ (p + 1) * Interval <= now + Interval => g * Interval <= now + Interval
    <3> HIDE SamplerAssumption
    <3> QED
      BY <1>7, <2>1, Deadline, Zenon
  <2> QED
    BY <1>7, <1>8, <2>1, <2>2
<1>10. Types'
  BY <1>1, <1>4, <1>5 DEF Types, SampleEnds, Sampled, command
<1>11. Grid'
  <2>1. deadline' <= now' + Interval
    BY <1>9 DEF SampleEnds
  <2>2. ASSUME prompt' PROVE deadline' = count' * Interval
    <3>1. prompt /\ now < deadline + Interval
      BY <2>2 DEF SampleEnds, Sampled
    <3>2. deadline = count * Interval /\ count \in Nat
      BY <1>1, <3>1 DEF Grid, Types
    <3>3. deadline' = deadline + Interval
      BY <1>6, <1>7, <1>9, <3>1 DEF Types
    <3> QED
      BY <1>5, <3>2, <3>3
  <2> QED
    BY <1>9, <2>1, <2>2 DEF Grid
<1>12. Apart'
  <2>1. k * Interval < deadline'
    BY <1>1, <1>2, <1>9 DEF Types
  <2> QED
    BY <1>1, <1>2, <1>3, <1>5, <2>1 DEF Apart, Types, SampleEnds
<1>13. Judged'
  BY DEF Inv, Judged, SampleEnds, command
<1> QED
  BY <1>10, <1>11, <1>12, <1>13 DEF Inv

LEMMA StartInv ==
  ASSUME Inv, Start
  PROVE  Inv'
<1> USE SamplerAssumption
<1>1. /\ thread = "none" /\ count = 0 /\ covered = 0 /\ begun = 0 /\ last = 0
      /\ now \in Nat /\ main = "start"
  BY DEF Inv, Types, Apart, Judged, Start
<1>2. CASE main' = "over"
  BY <1>1, <1>2 DEF Inv, Types, Grid, Apart, Judged, Start, records, Missed
<1>3. CASE main' # "over"
  <2>1. /\ Sampled /\ thread' = "wait" /\ main' = "run"
        /\ deadline' = FutureDeadline(1 * Interval, now)
        /\ UNCHANGED <<now, verdict, begun, stop, error, opened, closed, since>>
    BY <1>3 DEF Start
  <2>2. 1 * Interval <= now + Interval
    BY <1>1
  <2>3. PICK g \in Nat : /\ deadline' = g * Interval
                         /\ g * Interval > now
                         /\ 1 * Interval > now => g = 1
                         /\ g * Interval <= now + Interval
    BY <1>1, <2>1, <2>2, Deadline
  <2>4. begun \div Interval = 0
    BY <1>1
  <2>5. last' = 0 /\ count' = 1 /\ covered' = 1
    BY <1>1, <2>1, <2>4 DEF Sampled
  <2>6. Types'
    BY <1>1, <2>1, <2>5 DEF Inv, Types, Sampled
  <2>7. Grid'
    <3>1. ASSUME prompt' PROVE deadline' = count' * Interval
      <4>1. now < Interval
        <5>1. now < deadline + Interval
          BY <2>1, <3>1 DEF Sampled
        <5>2. deadline = 0
          BY <1>1 DEF Inv, Grid, Apart
        <5> QED
          BY <5>1, <5>2
      <4> QED
        BY <1>1, <2>3, <2>5, <4>1
    <3> QED
      BY <2>1, <2>3, <3>1 DEF Grid
  <2>8. Apart'
    BY <1>1, <2>1, <2>3, <2>5 DEF Apart
  <2>9. Judged'
    BY <1>1, <2>1 DEF Inv, Judged
  <2> QED
    BY <2>6, <2>7, <2>8, <2>9 DEF Inv
<1> QED
  BY <1>2, <1>3

LEMMA NextInv == Inv /\ [Next]_vars => Inv'
<1> SUFFICES ASSUME Inv, [Next]_vars PROVE Inv'
  OBVIOUS
<1> USE SamplerAssumption
<1>1. Types /\ Grid /\ Apart /\ Judged
  BY DEF Inv
<1>2. CASE Tick
  <2>1. Types'
    BY <1>1, <1>2 DEF Types, Tick, sampling, records, command
  <2>2. Grid'
    <3>1. deadline' = deadline /\ deadline \in Nat /\ now' = now + 1
      BY <1>1, <1>2 DEF Grid, Tick, sampling
    <3> QED
      BY <1>1, <1>2, <3>1 DEF Types, Grid, Tick, sampling, records
  <2>3. Apart'
    BY <1>1, <1>2 DEF Apart, Tick, sampling, records
  <2>4. Judged'
    BY <1>1, <1>2 DEF Judged, Tick, command
  <2> QED
    BY <2>1, <2>2, <2>3, <2>4 DEF Inv
<1>3. CASE SampleEnds
  BY <1>3, EndInv
<1>4. CASE Start
  BY <1>4, StartInv
<1>5. CASE Wake
  BY <1>1, <1>5 DEF Inv, Types, Grid, Apart, Judged, Missed, Wake, records, command
<1>6. CASE SampleFails
  BY <1>1, <1>6 DEF Inv, Types, Grid, Apart, Judged, Missed,
     SampleFails, sampling, records, command
<1>7. CASE Quit
  BY <1>1, <1>7 DEF Inv, Types, Grid, Apart, Judged, Missed,
     Quit, sampling, records, command
<1>8. CASE OpenWindow \/ CloseWindow \/ Abort \/ Stop \/ JoinTimesOut
  <2>1. UNCHANGED <<now, thread, deadline, begun, count, error, covered, last, inside, prompt>>
    BY <1>8 DEF OpenWindow, CloseWindow, Abort, Stop, JoinTimesOut, sampling, records
  <2>2. Types'
    <3>1. now \in Nat /\ now \in 0..now
      BY <1>1 DEF Types
    <3>2. opened' \in 0..now /\ closed' \in 0..now /\ since' \in 0..now /\ stop' \in BOOLEAN
      BY <1>1, <1>8, <3>1 DEF Types, OpenWindow, CloseWindow, Abort, Stop, JoinTimesOut
    <3>3. /\ main' \in {"start", "run", "open", "post", "join", "over"}
          /\ verdict' \in {"none", "kept", "rejected", "failed", "stuck"}
      BY <1>1, <1>8 DEF Types, OpenWindow, CloseWindow, Abort, Stop, JoinTimesOut
    <3> QED
      BY <1>1, <2>1, <3>2, <3>3 DEF Types
  <2>3. Grid'
    BY <1>1, <2>1 DEF Grid
  <2>4. Apart'
    BY <1>1, <2>1 DEF Apart
  <2>5. Judged'
    BY <1>1, <1>8, <2>1 DEF Judged, Missed, OpenWindow, CloseWindow, Abort, Stop, JoinTimesOut
  <2> QED
    BY <2>2, <2>3, <2>4, <2>5 DEF Inv
<1>9. CASE Join
  BY <1>1, <1>9 DEF Inv, Types, Grid, Apart, Judged, Missed, Join, sampling, records
<1>10. CASE UNCHANGED vars
  BY <1>1, <1>10 DEF Inv, Types, Grid, Apart, Judged, Missed, vars
<1> QED
  BY <1>2, <1>3, <1>4, <1>5, <1>6, <1>7, <1>8, <1>9, <1>10 DEF Next, Thread, Command

-----------------------------------------------------------------------------
(* What holds of every run.                                                *)

\* Every sample lies in an interval of its own, every deadline on the grid, and
\* what the command judged stands.
THEOREM Invariance == Spec => []Inv
<1>1. Inv /\ [Next]_vars => Inv'
  BY NextInv
<1> QED
  BY InitInv, <1>1, PTL DEF Spec

\* The types of NetworkSampler: no more samples than points of the grid.
THEOREM TypeCorrect == Spec => []TypeOK
<1>1. Inv => TypeOK
  <2> SUFFICES ASSUME Inv PROVE TypeOK
    OBVIOUS
  <2> USE SamplerAssumption
  <2>1. Types /\ Grid /\ Apart
    BY DEF Inv
  <2>2. PICK g \in Nat : deadline = g * Interval
    BY <2>1 DEF Grid
  <2>3. deadline % Interval = 0
    BY <2>2
  <2>4. deadline \in 0..(MaxTime + Interval)
    BY <2>1, <2>2 DEF Types, Grid
  <2>5. count \in 0..(MaxTime + 1) /\ covered \in 0..count
    BY <2>1 DEF Types, Apart
  <2> QED
    BY <2>1, <2>3, <2>4, <2>5 DEF Types, TypeOK
<1> QED
  BY Invariance, <1>1, PTL

\* A cadence that was kept is one of intervals covered.
THEOREM KeptCovers == Spec => []KeptIsCovered
<1>1. Inv => KeptIsCovered
  BY SamplerAssumption DEF Inv, Types, Apart, Judged, Missed, KeptIsCovered
<1> QED
  BY Invariance, <1>1, PTL

\* A prompt sampler that is stopped in time is not rejected.
THEOREM PromptKept == Spec => []PromptIsKept
<1>1. Inv => PromptIsKept
  <2> SUFFICES ASSUME Inv, prompt, now < deadline + Interval, verdict = "rejected"
               PROVE  FALSE
    BY DEF PromptIsKept
  <2> USE SamplerAssumption
  <2>1. /\ now \in Nat /\ count \in Nat /\ 5 * count < 4 * (now \div Interval)
        /\ deadline = count * Interval
    BY DEF Inv, Types, Grid, Judged, Missed
  <2> DEFINE n == now \div Interval
  <2>2. n \in Nat /\ n * Interval <= now
    BY <2>1, Division
  <2> HIDE DEF n
  <2>3. n * Interval < (count + 1) * Interval
    BY <2>1, <2>2
  <2>4. n < count + 1
    BY <2>1, <2>2, <2>3, Monotone
  <2> QED
    BY <2>1, <2>2, <2>4 DEF n
<1> QED
  BY Invariance, <1>1, PTL
=============================================================================
