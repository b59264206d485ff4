------------------------ MODULE RunnerExecutionProofs ------------------------
(***************************************************************************)
(* For every set of envelopes, number of heartbeats in flight, margin and  *)
(* timer limit: a lease that is over stays over, its expiry only grows,    *)
(* and while it is open its timer covers the deadline, or the wall clock   *)
(* was set back while a renewal armed it anew.                             *)
(*                                                                         *)
(* For every set of signed tasks, number of executions, guard capacity,    *)
(* lease and clock: the replay guards let a signed task through once, and  *)
(* what an execution returns is accepted by the platform and is what       *)
(* happened.                                                               *)
(***************************************************************************)
EXTENDS RunnerExecution, SetInduction, SequenceTheorems

(* The lease.                                                              *)

\* Only an open lease has a timer: what keeps a late timer from re-arming.
TimerOnlyOpen == ~IsOpen => timer = NoTimer

\* The inductive invariant.
LeaseInv == LeaseTypeOK /\ TimerOnlyOpen /\ TimerCoversDeadline

lvars == <<clockVars, leaseVars>>

\* What a step may do to the clocks: wall time gains nothing on elapsed time.
ClockStep ==
  /\ elapsed' \in Nat /\ wall' \in 0..MaxClock /\ stepsBack' \in 0..MaxStepsBack
  /\ elapsed' - elapsed >= wall' - wall /\ stepsBack' >= stepsBack

\* What a step leaves of the types, apart from flags, envelope and timer.
RestTyped == lastRead' \in Nat /\ renewal' \in [Heartbeats -> Envelopes \cup {NoEnvelope}]

\* What verifiedTask lets through, as numbers.
LEMMA EnvelopeFacts ==
  /\ \A e \in Envelopes : e.expiry \in Nat
  /\ margin \in Nat /\ maxTimerDelay \in Nat /\ maxTimerDelay > 0 /\ taskExpiresAt \in Nat
  /\ MaxClock \in Nat /\ MaxStepsBack \in Nat
BY LeaseAssumption DEF VerifiedTask

\* #scheduleExpiry before the deadline arms a timer that does not lie in the
\* past and, however the delay is cut, fires no later than the deadline.
LEMMA ArmedCovers ==
  ASSUME NEW x \in Nat, NEW c, c.elapsed \in Nat, c.wall \in Nat, c.wall < x - margin
  PROVE  Armed(x, c) \in Nat /\ Armed(x, c) - c.elapsed <= x - margin - c.wall
BY EnvelopeFacts DEF Armed

\* The clock, read again, has gained nothing on elapsed time; it shows less
\* only when it was set back.
LEMMA ReadAgainFacts ==
  ASSUME NEW c, c.elapsed \in Nat, c.wall \in 0..MaxClock, c.stepsBack \in 0..MaxStepsBack,
         NEW d \in ReadAgain(c)
  PROVE  /\ d.elapsed \in Nat /\ d.wall \in 0..MaxClock /\ d.stepsBack \in 0..MaxStepsBack
         /\ d.elapsed - c.elapsed >= d.wall - c.wall /\ d.stepsBack >= c.stepsBack
         /\ d.wall < c.wall => d.stepsBack > 0
<1>1. d.wall \in 0..MaxClock /\ d.stepsBack <= MaxStepsBack
  BY DEF ReadAgain
<1>2. CASE d = c
  BY <1>2
<1>3. CASE d = [elapsed |-> c.elapsed + 1, wall |-> c.wall + 1, stepsBack |-> c.stepsBack]
  <2>1. d.elapsed = c.elapsed + 1 /\ d.wall = c.wall + 1 /\ d.stepsBack = c.stepsBack
    BY <1>3
  <2> QED
    BY <1>1, <2>1, EnvelopeFacts
<1>4. CASE d = [elapsed |-> c.elapsed, wall |-> c.wall - 1, stepsBack |-> c.stepsBack + 1]
  <2>1. d.elapsed = c.elapsed /\ d.wall = c.wall - 1 /\ d.stepsBack = c.stepsBack + 1
    BY <1>4
  <2> QED
    BY <1>1, <2>1, EnvelopeFacts
<1> QED
  BY <1>2, <1>3, <1>4 DEF ReadAgain

\* What the clock shows now.
LEMMA ClockFacts ==
  ASSUME LeaseTypeOK
  PROVE  /\ Clock.elapsed = elapsed /\ Clock.wall = wall /\ Clock.stepsBack = stepsBack
         /\ elapsed \in Nat /\ wall \in 0..MaxClock /\ stepsBack \in 0..MaxStepsBack
         /\ wall \in Nat /\ lastRead \in Nat
BY EnvelopeFacts DEF LeaseTypeOK, Clock

\* What is left of the time before a timer and before a deadline.
LEMMA TimeLeft ==
  \A t, d \in Int, e0, e1, w0, w1 \in Nat :
    t - e0 <= d - w0 /\ e1 - e0 >= w1 - w0 => t - e1 <= d - w1
OBVIOUS

\* A step that leaves the clocks alone.
LEMMA ClockStands ==
  ASSUME LeaseTypeOK, UNCHANGED clockVars
  PROVE  ClockStep
BY ClockFacts DEF ClockStep, clockVars

\* No renewal is under way when create() returns.
LEMMA RenewalTyped == LeaseInit => renewal \in [Heartbeats -> Envelopes \cup {NoEnvelope}]
<1> SUFFICES ASSUME LeaseInit PROVE renewal \in [Heartbeats -> Envelopes \cup {NoEnvelope}]
  OBVIOUS
<1>1. renewal = [h \in Heartbeats |-> NoEnvelope]
  BY DEF LeaseInit
<1> HIDE DEF NoEnvelope
<1> QED
  BY <1>1

\* create() establishes the invariant.
LEMMA LeaseInitInv == LeaseInit => LeaseInv
<1> SUFFICES ASSUME LeaseInit PROVE LeaseInv
  OBVIOUS
<1>1. envelope \in Envelopes /\ envelope.expiry \in Nat
  BY EnvelopeFacts DEF LeaseInit
<1>2. wall \in 0..MaxClock /\ elapsed = wall /\ stepsBack \in 0..MaxStepsBack /\ lastRead = wall
  BY EnvelopeFacts DEF LeaseInit
<1>3. closed = FALSE /\ aborted \in BOOLEAN /\ (aborted <=> wall >= Deadline)
  BY DEF LeaseInit
<1>t. elapsed \in Nat /\ wall \in Nat /\ Clock.elapsed = elapsed /\ Clock.wall = wall
  BY <1>2, EnvelopeFacts DEF Clock
<1>4. timer = (IF aborted THEN NoTimer ELSE Armed(envelope.expiry, Clock))
  BY DEF LeaseInit
<1>5. ASSUME ~aborted PROVE timer \in Nat /\ timer - elapsed <= Deadline - wall
  <2>1. wall < envelope.expiry - margin
    BY <1>1, <1>3, <1>5, <1>t, EnvelopeFacts DEF Deadline
  <2> QED
    BY <1>1, <1>4, <1>5, <1>t, <2>1, ArmedCovers DEF Deadline
<1>6. LeaseTypeOK
  <2>1. timer \in Nat \cup {NoTimer, DeadTimer}
    BY <1>4, <1>5
  <2> QED
    BY <1>1, <1>2, <1>3, <1>t, <2>1, RenewalTyped DEF LeaseTypeOK
<1>7. TimerOnlyOpen /\ TimerCoversDeadline
  BY <1>3, <1>4, <1>5 DEF TimerOnlyOpen, TimerCoversDeadline, IsOpen
<1> QED
  BY <1>6, <1>7 DEF LeaseInv

\* #expire, in whichever call: the rest of the invariant needs no timer.
LEMMA ExpireInv ==
  ASSUME LeaseInv, ClockStep, RestTyped, Expire, envelope' \in Envelopes, UNCHANGED closed
  PROVE  LeaseInv'
BY DEF LeaseInv, LeaseTypeOK, TimerOnlyOpen, TimerCoversDeadline, Expire, IsOpen, ClockStep,
       RestTyped

\* A step that leaves envelope, timer and flags alone: the time left before the
\* timer shrinks as fast as the time left before the deadline.
LEMMA QuietInv ==
  ASSUME LeaseInv, ClockStep, RestTyped, UNCHANGED <<envelope, closed, aborted, timer>>
  PROVE  LeaseInv'
<1>1. LeaseTypeOK
  BY DEF LeaseInv
<1>2. LeaseTypeOK' /\ TimerOnlyOpen' /\ Deadline' = Deadline
  BY <1>1 DEF LeaseInv, LeaseTypeOK, TimerOnlyOpen, IsOpen, ClockStep, RestTyped, Deadline
<1>3. ASSUME IsOpen'
      PROVE  \/ timer' \in Nat /\ timer' - elapsed' <= Deadline' - wall'
             \/ timer' = DeadTimer /\ stepsBack' > 0
  <2>1. IsOpen
    BY <1>3 DEF IsOpen
  <2>2. CASE timer \in Nat /\ timer - elapsed <= Deadline - wall
    <3>1. elapsed \in Nat /\ wall \in Nat /\ elapsed' \in Nat /\ wall' \in Nat
      BY <1>1, ClockFacts, EnvelopeFacts DEF ClockStep
    <3>2. Deadline \in Int
      BY <1>1, EnvelopeFacts DEF Deadline, LeaseTypeOK
    <3>3. elapsed' - elapsed >= wall' - wall
      BY DEF ClockStep
    <3>t. timer \in Int /\ timer - elapsed <= Deadline - wall
      BY <2>2
    <3>4. timer - elapsed' <= Deadline - wall'
      BY <3>t, <3>1, <3>2, <3>3, TimeLeft
    <3> QED
      BY <1>2, <2>2, <3>4
  <2>3. CASE timer = DeadTimer /\ stepsBack > 0
    BY <1>1, <2>3, EnvelopeFacts DEF ClockStep, LeaseTypeOK
  <2> QED
    BY <2>1, <2>2, <2>3 DEF LeaseInv, TimerCoversDeadline
<1> QED
  BY <1>2, <1>3 DEF LeaseInv, TimerCoversDeadline

\* #scheduleExpiry reads its clock: an open lease is over or armed anew.
LEMMA ScheduleInv ==
  ASSUME LeaseInv, IsOpen, ClockStep, RestTyped, UNCHANGED closed, envelope' \in Envelopes,
         NEW c, ClockShows(c), Schedule(envelope'.expiry, c)
  PROVE  LeaseInv'
<1>1. envelope'.expiry \in Nat /\ c.elapsed \in Nat /\ c.wall \in Nat
      /\ elapsed' = c.elapsed /\ wall' = c.wall
  BY EnvelopeFacts DEF ClockShows, ClockStep
<1>2. CASE Expire
  BY <1>2, ExpireInv
<1>3. CASE /\ c.wall < envelope'.expiry - margin /\ timer' = Armed(envelope'.expiry, c)
           /\ UNCHANGED aborted
  <2>1. timer' \in Nat /\ timer' - elapsed' <= Deadline' - wall'
    BY <1>1, <1>3, ArmedCovers DEF Deadline
  <2> QED
    BY <1>3, <2>1 DEF LeaseInv, LeaseTypeOK, TimerOnlyOpen, TimerCoversDeadline, IsOpen,
                      ClockStep, RestTyped
<1> QED
  BY <1>2, <1>3 DEF Schedule

\* What a renewal ends with: refused, taken over, or taken over without a timer.
LEMMA TakeOverInv ==
  ASSUME LeaseInv, IsOpen, NEW e \in Envelopes, TakeOver(e), UNCHANGED closed,
         renewal' \in [Heartbeats -> Envelopes \cup {NoEnvelope}]
  PROVE  LeaseInv'
<1>0. LeaseTypeOK
  BY DEF LeaseInv
<1>1. PICK c \in ReadAgain(Clock) :
        \/ /\ ClockShows(c) /\ lastRead' = IF c.wall >= wall THEN c.wall ELSE wall
           /\ UNCHANGED <<envelope, timer, aborted>>
        \/ /\ c.wall >= wall /\ envelope' = e
           /\ \E d \in ReadAgain(c) :
                /\ ClockShows(d)
                /\ \/ d.wall < c.wall /\ timer' = DeadTimer /\ lastRead' = c.wall /\ UNCHANGED aborted
                   \/ d.wall >= c.wall /\ Schedule(e.expiry, d) /\ lastRead' = d.wall
  BY DEF TakeOver
<1>2. /\ c.elapsed \in Nat /\ c.wall \in 0..MaxClock /\ c.stepsBack \in 0..MaxStepsBack
      /\ c.elapsed - elapsed >= c.wall - wall /\ c.stepsBack >= stepsBack
  BY <1>0, <1>1, ClockFacts, ReadAgainFacts
<1>3. CASE /\ ClockShows(c) /\ lastRead' = IF c.wall >= wall THEN c.wall ELSE wall
           /\ UNCHANGED <<envelope, timer, aborted>>
  <2>1. ClockStep
    BY <1>2, <1>3 DEF ClockShows, ClockStep
  <2>2. RestTyped
    BY <1>0, <1>2, <1>3, ClockFacts, EnvelopeFacts DEF RestTyped
  <2> QED
    BY <1>3, <2>1, <2>2, QuietInv
<1>4. ASSUME envelope' = e, NEW d \in ReadAgain(c), ClockShows(d),
             \/ d.wall < c.wall /\ timer' = DeadTimer /\ lastRead' = c.wall /\ UNCHANGED aborted
             \/ d.wall >= c.wall /\ Schedule(e.expiry, d) /\ lastRead' = d.wall
      PROVE  LeaseInv'
  <2>1. /\ d.elapsed \in Nat /\ d.wall \in 0..MaxClock /\ d.stepsBack \in 0..MaxStepsBack
        /\ d.elapsed - c.elapsed >= d.wall - c.wall /\ d.stepsBack >= c.stepsBack
        /\ d.wall < c.wall => d.stepsBack > 0
    BY <1>2, <1>4, ReadAgainFacts
  <2>2. d.elapsed - elapsed >= d.wall - wall /\ d.stepsBack >= stepsBack
    <3>1. \A e0, e1, e2, w0, w1, w2 \in Nat :
            e1 - e0 >= w1 - w0 /\ e2 - e1 >= w2 - w1 => e2 - e0 >= w2 - w0
      OBVIOUS
    <3>2. c.wall \in Nat /\ d.wall \in Nat /\ c.stepsBack \in Nat /\ d.stepsBack \in Nat
      BY <1>2, <2>1, EnvelopeFacts
    <3> QED
      BY <1>0, <1>2, <2>1, <3>1, <3>2, ClockFacts, EnvelopeFacts
  <2>3. ClockStep
    BY <1>4, <2>1, <2>2 DEF ClockShows, ClockStep
  <2>4. RestTyped
    BY <1>2, <1>4, <2>1, EnvelopeFacts DEF RestTyped
  <2>5. CASE d.wall < c.wall /\ timer' = DeadTimer /\ UNCHANGED aborted
    <3>1. stepsBack' > 0 /\ IsOpen'
      BY <1>4, <2>1, <2>5 DEF ClockShows, IsOpen
    <3> QED
      BY <1>4, <2>3, <2>4, <2>5, <3>1 DEF LeaseInv, LeaseTypeOK, TimerOnlyOpen,
         TimerCoversDeadline, ClockStep, RestTyped
  <2>6. CASE Schedule(e.expiry, d)
    BY <1>4, <2>3, <2>4, <2>6, ScheduleInv
  <2> QED
    BY <1>4, <2>5, <2>6
<1> QED
  BY <1>1, <1>3, <1>4

\* Every step of the lease and of its clocks preserves the invariant.
LEMMA LeaseStepInv == LeaseInv /\ [LeaseNext]_lvars => LeaseInv'
<1> SUFFICES ASSUME LeaseInv, [LeaseNext]_lvars PROVE LeaseInv'
  OBVIOUS
<1> USE DEF lvars
<1>t. LeaseTypeOK
  BY DEF LeaseInv
<1>r. wall \in Nat /\ lastRead \in Nat
  BY <1>t, ClockFacts
<1>e. envelope \in Envelopes
  BY <1>t DEF LeaseTypeOK
<1>1. CASE AssertActive /\ UNCHANGED clockVars
  <2>1. RestTyped /\ ClockStep /\ UNCHANGED <<envelope, closed>>
    BY <1>1, <1>r, <1>t, ClockStands DEF AssertActive, RestTyped, LeaseTypeOK
  <2>2. CASE Expire
    BY <1>e, <2>1, <2>2, ExpireInv
  <2>3. CASE UNCHANGED <<aborted, timer>>
    BY <2>1, <2>3, QuietInv
  <2> QED
    BY <1>1, <2>2, <2>3 DEF AssertActive
<1>2. ASSUME NEW h \in Heartbeats, NEW e \in Envelopes,
             RenewBegins(h, e), UNCHANGED clockVars
      PROVE  LeaseInv'
  <2>1. RestTyped /\ ClockStep /\ UNCHANGED <<envelope, closed>>
    BY <1>2, <1>r, <1>t, ClockStands DEF RenewBegins, RestTyped, LeaseTypeOK
  <2>2. CASE Expire
    BY <1>e, <2>1, <2>2, ExpireInv
  <2>3. CASE UNCHANGED <<aborted, timer>>
    BY <2>1, <2>3, QuietInv
  <2> QED
    BY <1>2, <2>2, <2>3 DEF RenewBegins
<1>3. ASSUME NEW h \in Heartbeats, RenewFails(h), UNCHANGED clockVars
      PROVE  LeaseInv'
  <2>1. RestTyped /\ ClockStep /\ UNCHANGED <<envelope, closed, aborted, timer>>
    BY <1>3, <1>r, <1>t, ClockStands DEF RenewFails, RestTyped, LeaseTypeOK
  <2> QED
    BY <2>1, QuietInv
<1>4. ASSUME NEW h \in Heartbeats, RenewEnds(h)
      PROVE  LeaseInv'
  <2>1. renewal' \in [Heartbeats -> Envelopes \cup {NoEnvelope}] /\ UNCHANGED closed
    BY <1>4, <1>t DEF LeaseTypeOK, RenewEnds
  <2>2. CASE IsActive /\ TakeOver(renewal[h])
    <3>1. renewal[h] \in Envelopes /\ IsOpen
      BY <1>4, <1>t, <2>2 DEF LeaseTypeOK, RenewEnds, IsActive
    <3> QED
      BY <2>1, <2>2, <3>1, TakeOverInv
  <2>3. CASE /\ lastRead' = IF IsOpen /\ ClockOk THEN wall ELSE lastRead
             /\ IF IsExpiring THEN Expire ELSE UNCHANGED <<timer, aborted>>
             /\ UNCHANGED <<envelope, clockVars>>
    <3>1. RestTyped /\ ClockStep
      BY <1>r, <1>t, <2>1, <2>3, ClockStands DEF RestTyped
    <3>2. CASE Expire
      BY <1>e, <2>1, <2>3, <3>1, <3>2, ExpireInv
    <3>3. CASE UNCHANGED <<timer, aborted>>
      BY <2>1, <2>3, <3>1, <3>3, QuietInv
    <3> QED
      BY <2>3, <3>2, <3>3
  <2> QED
    BY <1>4, <2>2, <2>3 DEF RenewEnds
<1>5. CASE CloseLease /\ UNCHANGED clockVars
  BY <1>5 DEF CloseLease, LeaseInv, LeaseTypeOK, TimerOnlyOpen, TimerCoversDeadline, IsOpen,
              clockVars
<1>6. CASE TimerFires
  <2>0. IsOpen /\ UNCHANGED <<closed, envelope, renewal>>
    BY <1>6 DEF TimerFires, LeaseInv, TimerOnlyOpen, NoTimer
  <2>1. CASE /\ Expire /\ lastRead' = IF ClockOk THEN wall ELSE lastRead
             /\ UNCHANGED clockVars
    <3>1. RestTyped /\ ClockStep
      BY <1>r, <1>t, <2>0, <2>1, ClockStands DEF RestTyped, LeaseTypeOK
    <3> QED
      BY <1>e, <2>0, <2>1, <3>1, ExpireInv
  <2>2. ASSUME NEW c \in ReadAgain(Clock), ClockShows(c),
               \/ c.wall < wall /\ Expire /\ lastRead' = wall
               \/ c.wall >= wall /\ Schedule(envelope.expiry, c) /\ lastRead' = c.wall
        PROVE  LeaseInv'
    <3>1. /\ c.elapsed \in Nat /\ c.wall \in 0..MaxClock /\ c.stepsBack \in 0..MaxStepsBack
          /\ c.elapsed - elapsed >= c.wall - wall /\ c.stepsBack >= stepsBack
      BY <1>t, <2>2, ClockFacts, ReadAgainFacts
    <3>2. ClockStep
      BY <2>2, <3>1 DEF ClockShows, ClockStep
    <3>3. RestTyped
      BY <1>r, <1>t, <2>0, <2>2, <3>1, EnvelopeFacts DEF RestTyped, LeaseTypeOK
    <3>4. CASE Expire
      BY <1>e, <2>0, <3>2, <3>3, <3>4, ExpireInv
    <3>5. CASE Schedule(envelope.expiry, c)
      BY <1>e, <2>0, <2>2, <3>2, <3>3, <3>5, ScheduleInv
    <3> QED
      BY <2>2, <3>4, <3>5
  <2> QED
    BY <1>6, <2>1, <2>2 DEF TimerFires
<1>7. CASE (TimePasses \/ StepBack) /\ UNCHANGED leaseVars
  <2>1. ClockStep
    BY <1>7, <1>t, EnvelopeFacts DEF TimePasses, StepBack, LeaseTypeOK, ClockStep
  <2>2. RestTyped /\ UNCHANGED <<envelope, closed, aborted, timer>>
    BY <1>7, <1>t DEF leaseVars, RestTyped, LeaseTypeOK
  <2> QED
    BY <2>1, <2>2, QuietInv
<1>8. CASE UNCHANGED lvars
  <2>1. RestTyped /\ ClockStep /\ UNCHANGED <<envelope, closed, aborted, timer>>
    BY <1>8, <1>t, ClockStands DEF leaseVars, RestTyped, LeaseTypeOK
  <2> QED
    BY <2>1, QuietInv
<1> QED
  BY <1>1, <1>2, <1>3, <1>4, <1>5, <1>6, <1>7, <1>8 DEF LeaseNext, LeaseStep

\* While a lease is open its timer fires no later than the deadline of the
\* envelope in force (#scheduleExpiry and everything that calls it); the one
\* exception is a clock set back between the two readings a renewal ends with.
THEOREM TimerCoversDeadlineAlways == LeaseSpec => []TimerCoversDeadline
<1>1. LeaseInv => TimerCoversDeadline
  BY DEF LeaseInv
<1> QED
  BY <1>1, LeaseInitInv, LeaseStepInv, PTL DEF LeaseSpec, lvars

\* acceptRenewal, the timer and close never bring back a lease that is over,
\* nor replace its envelope ("An expired grant can never be resurrected").
THEOREM NoResurrectionAlways == LeaseSpec => NoResurrection
<1>1. LeaseInv /\ [LeaseNext]_lvars
        => [~IsOpen => ~IsOpen' /\ UNCHANGED <<envelope, timer>>]_lvars
  <2> SUFFICES ASSUME LeaseInv, LeaseNext, ~IsOpen
               PROVE  ~IsOpen' /\ UNCHANGED <<envelope, timer>>
    OBVIOUS
  <2>1. timer = NoTimer
    BY DEF LeaseInv, TimerOnlyOpen
  <2>2. ~IsActive /\ ~IsExpiring
    BY DEF IsActive, IsExpiring
  <2>3. CASE AssertActive
    BY <2>2, <2>3 DEF AssertActive, IsOpen
  <2>4. CASE \E h \in Heartbeats, e \in Envelopes : RenewBegins(h, e)
    BY <2>2, <2>4 DEF RenewBegins, IsOpen
  <2>5. CASE \E h \in Heartbeats : RenewFails(h) \/ RenewEnds(h)
    BY <2>2, <2>5 DEF RenewFails, RenewEnds, IsOpen
  <2>6. CASE CloseLease
    BY <2>1, <2>6 DEF CloseLease, IsOpen
  <2>7. CASE TimerFires
    BY <2>1, <2>7 DEF TimerFires, NoTimer
  <2>8. CASE UNCHANGED leaseVars
    BY <2>8 DEF leaseVars, IsOpen
  <2> QED
    BY <2>3, <2>4, <2>5, <2>6, <2>7, <2>8 DEF LeaseNext, LeaseStep
<1> QED
  BY <1>1, LeaseInitInv, LeaseStepInv, PTL DEF LeaseSpec, NoResurrection, lvars

\* Whatever the order in which heartbeats are answered, acceptRenewal never
\* shortens the lease.
THEOREM ExpiryMonotoneAlways == LeaseSpec => ExpiryMonotone
<1>1. LeaseInv /\ [LeaseNext]_lvars => [envelope'.expiry >= envelope.expiry]_lvars
  <2> SUFFICES ASSUME LeaseInv, LeaseNext PROVE envelope'.expiry >= envelope.expiry
    OBVIOUS
  <2>1. envelope.expiry \in Nat
    BY EnvelopeFacts DEF LeaseInv, LeaseTypeOK
  <2>2. ASSUME NEW h \in Heartbeats, RenewEnds(h)
        PROVE  envelope'.expiry >= envelope.expiry
    <3>1. renewal[h] \in Envelopes
      BY <2>2 DEF LeaseInv, LeaseTypeOK, RenewEnds
    <3>2. renewal[h].expiry \in Nat
      BY <3>1, EnvelopeFacts
    <3>3. CASE Extends(renewal[h]) /\ envelope' = renewal[h]
      BY <2>1, <3>2, <3>3 DEF Extends
    <3>4. CASE UNCHANGED envelope
      BY <2>1, <3>4
    <3>5. TakeOver(renewal[h]) => envelope' = renewal[h] \/ UNCHANGED envelope
      BY DEF TakeOver
    <3> QED
      BY <2>2, <3>3, <3>4, <3>5 DEF RenewEnds
  <2>3. (\E h \in Heartbeats : RenewEnds(h)) \/ UNCHANGED envelope
    BY DEF LeaseNext, LeaseStep, AssertActive, RenewBegins, RenewFails, CloseLease, TimerFires,
           leaseVars
  <2> QED
    BY <2>1, <2>2, <2>3
<1> QED
  BY <1>1, LeaseInitInv, LeaseStepInv, PTL DEF LeaseSpec, ExpiryMonotone, lvars

\* Both together: whatever heartbeats, clocks and timers do, a lease goes
\* forward only (acceptRenewal, #scheduleExpiry, close).
THEOREM LeaseForwardAlways == LeaseSpec => LeaseGoesForward
  BY NoResurrectionAlways, ExpiryMonotoneAlways, PTL DEF LeaseGoesForward
-----------------------------------------------------------------------------
(* Claims, executions and bundles.                                         *)

\* A record is an event when it has these fields and no other.
IsEvent(ev) ==
  ev = [task |-> ev.task, sequence |-> ev.sequence, type |-> ev.type, at |-> ev.at,
        previous |-> ev.previous, digest |-> ev.digest]

\* The digest before the i-th event.
Before(events, i) == IF i = 1 THEN Genesis ELSE events[i - 1].digest

\* A sequence of events, whatever they are.
EventSeq(events) ==
  /\ events \in Seq(Range(events))
  /\ \A i \in 1..Len(events) : IsEvent(events[i])

\* The chain of an execution of the task with this identity.
Chain(events, identity) ==
  /\ EventSeq(events) /\ Len(events) <= maxEvents
  /\ \A i \in 1..Len(events) :
       /\ events[i].digest = Body(events[i]) /\ events[i].previous = Before(events, i)
       /\ events[i].sequence = i /\ events[i].task = identity /\ events[i].at \in Nat

\* Its readings of the clock never go back, and lie between these two.
InOrder(events, from, to) ==
  /\ \A i \in 1..Len(events) : from <= events[i].at /\ events[i].at <= to
  /\ \A i \in 2..Len(events) : events[i - 1].at <= events[i].at

\* Everything before the last event is of the host, the last is terminal.
Reported(events, n) == \A i \in 1..n : events[i].type \in EventTypes
EndsWith(events, terminal) ==
  LET n == Len(events) IN n > 0 /\ events[n].type = terminal /\ Reported(events, n - 1)

RunFields == {"pc", "task", "leased", "readAt", "startedAt", "abortAt", "signalled", "terminal",
              "events", "outcome", "bundle"}
IsRun(r) == r = [f \in RunFields |-> r[f]]

\* The life of an execution.
Silent == {"keys", "claimed", "package", "preflight"}
Hosted == {"package", "preflight", "streaming", "ending", "published", "cleanup"}
Alive == Silent \cup Hosted

Genuine(b) ==
  b.receipt.status = "completed" =>
    /\ EndsWith(b.events, "completed")
    /\ b.events[Len(b.events)].at < b.leaseExpiry - margin

\* What an execution returns.
BundleOK(b) ==
  /\ b = [task |-> b.task, leaseExpiry |-> b.leaseExpiry, events |-> b.events, receipt |-> b.receipt]
  /\ b.task \in SignedTasks /\ b.receipt.task = TaskIdentity(b.task)
  /\ Chain(b.events, TaskIdentity(b.task))
  /\ BundleVerifies(b) /\ Genuine(b)

\* What is always true of the locals of an execution.
RunOK(r) ==
  /\ IsRun(r)
  /\ r.pc \in Alive =>
       r.task \in SignedTasks /\ r.leased \in BOOLEAN /\ r.readAt \in Nat /\ r.startedAt \in Nat
  /\ r.pc \in Silent => r.events = <<>>
  /\ r.pc = "claimed" => r.task.issuedAt <= r.readAt + skew
  /\ r.pc \in Hosted =>
       /\ r.task.issuedAt <= r.startedAt + skew /\ r.startedAt <= r.readAt
       /\ Chain(r.events, TaskIdentity(r.task)) /\ InOrder(r.events, r.startedAt, r.readAt)
  /\ r.pc \in {"streaming", "ending"} => Reported(r.events, Len(r.events))
  /\ r.pc = "published" => EndsWith(r.events, r.terminal)
  /\ r.pc = "cleanup" /\ r.outcome = "completed" => EndsWith(r.events, "completed")
  /\ r.pc = "receipt" => BundleOK(r.bundle)

\* A claim that was granted is not forgotten while its task can be claimed.
Remembered(t) ==
  \/ ~guard.durable /\ t.expiresAt <= guardRead
  \/ \E n \in nonces : n.key = Key(t) /\ n.expiry = t.expiresAt

GuardInv ==
  /\ guard \in Guards /\ guardRead \in Nat /\ claims \in Seq(SignedTasks)
  /\ \A i \in 1..Len(claims) : Remembered(claims[i])
  /\ ClaimsSound

RunsInv == run = [e \in Executions |-> run[e]] /\ \A e \in Executions : RunOK(run[e])

\* The inductive invariant.
ExecInv == LeaseInv /\ GuardInv /\ RunsInv

-----------------------------------------------------------------------------
\* The assumptions on the constants, for the steps that need them.
LEMMA TaskFacts ==
  /\ \A t \in SignedTasks : /\ t.fencing \in Nat /\ t.issuedAt \in Nat /\ t.expiresAt \in Nat
                            /\ t.leaseExpiry \in Nat
  /\ \A g \in Guards : g.durable \in BOOLEAN
  /\ skew \in Nat /\ maxEvents \in Nat /\ margin \in Nat /\ MaxClock \in Nat
BY TaskAssumption, LeaseAssumption DEF ValidTask

\* Whatever an execution does, its lease and its clocks take their own steps.
LEMMA ExecLeaseStep == [ExecNext]_vars => [LeaseNext]_lvars
<1> SUFFICES ASSUME [ExecNext]_vars PROVE [LeaseNext]_lvars
  OBVIOUS
<1>1. ASSUME NEW e \in Executions, ExecStep(e), UNCHANGED clockVars
      PROVE  [LeaseNext]_lvars
  <2>1. AssertActive \/ UNCHANGED leaseVars
    BY <1>1 DEF ExecStep, Submit, KeyUnavailable, Admit, Claimed, PackageUnusable, PackageReady,
                LeaseTimer, HostFails, HostAborted, PreflightOk, HostProgress, HostTerminal,
                PublishTerminal, HostReturns, Complete, Publish, Alone
  <2> QED
    BY <1>1, <2>1 DEF LeaseNext, lvars
<1>2. CASE Restart /\ UNCHANGED clockVars
  BY <1>2 DEF Restart, LeaseNext, LeaseStep
<1>3. CASE LeaseStep /\ UNCHANGED execVars
  BY <1>3 DEF LeaseNext
<1>4. CASE (TimePasses \/ StepBack) /\ UNCHANGED <<leaseVars, execVars>>
  BY <1>4 DEF LeaseNext
<1>5. CASE UNCHANGED vars
  BY <1>5 DEF vars, lvars
<1> QED
  BY <1>1, <1>2, <1>3, <1>4, <1>5 DEF ExecNext

-----------------------------------------------------------------------------
\* A guard that is not asked remembers what it did.
LEMMA GuardSame ==
  ASSUME GuardInv, UNCHANGED <<guard, nonces, guardRead, claims>>
  PROVE  GuardInv'
BY DEF GuardInv, Remembered, Key, ClaimsSound, ExecutedOnce, FencingOrdered

\* The guard drops the nonces whose time is over: those tasks cannot come back.
LEMMA HeldRemembers ==
  ASSUME GuardInv, wall \in Nat, NEW t \in SignedTasks, Remembered(t),
         guard' = guard, guardRead' = wall, guard.durable \/ wall >= guardRead,
         Held \subseteq nonces'
  PROVE  Remembered(t)'
<1>1. t.expiresAt \in Nat /\ guardRead \in Nat
  BY TaskFacts DEF GuardInv
<1>2. CASE ~guard.durable /\ t.expiresAt <= guardRead
  BY <1>1, <1>2 DEF Remembered
<1>3. CASE \E n \in nonces : n.key = Key(t) /\ n.expiry = t.expiresAt
  <2>1. PICK n \in nonces : n.key = Key(t) /\ n.expiry = t.expiresAt
    BY <1>3
  <2>2. CASE n \in Held
    BY <2>1, <2>2 DEF Remembered, Key
  <2>3. CASE n \notin Held
    BY <1>1, <2>1, <2>3 DEF Remembered, Held
  <2> QED
    BY <2>2, <2>3
<1> QED
  BY <1>2, <1>3 DEF Remembered

\* A claim is granted for a task that was not claimed before, and in the order
\* of its fencing token.
LEMMA ClaimIsNew ==
  ASSUME GuardInv, wall \in Nat, NEW t \in SignedTasks, ClaimResult(t) = "true"
  PROVE  /\ \A i \in 1..Len(claims) : claims[i] # t
         /\ \A i \in 1..Len(claims) : claims[i].id = t.id => claims[i].fencing <= t.fencing
         /\ guard.durable \/ wall >= guardRead
<1>1. /\ guard.durable \/ ~(wall < guardRead) 
      /\ ~(t.expiresAt <= wall) /\ ~(\E n \in Held : n.key = Key(t)) /\ ~IsFenced(t)
  BY DEF ClaimResult
<1>2. guardRead \in Nat /\ t.expiresAt \in Nat /\ t.fencing \in Nat
  BY TaskFacts DEF GuardInv
<1>3. \A i \in 1..Len(claims) : claims[i] # t
  <2> SUFFICES ASSUME NEW i \in 1..Len(claims), claims[i] = t PROVE FALSE
    OBVIOUS
  <2>1. Remembered(t)
    BY DEF GuardInv
  <2>2. CASE ~guard.durable /\ t.expiresAt <= guardRead
    BY <1>1, <1>2, <2>2
  <2>3. CASE \E n \in nonces : n.key = Key(t) /\ n.expiry = t.expiresAt
    BY <1>1, <1>2, <2>3 DEF Held
  <2> QED
    BY <2>1, <2>2, <2>3 DEF Remembered
<1>4. \A i \in 1..Len(claims) : claims[i].id = t.id => claims[i].fencing <= t.fencing
  <2>1. \A i \in 1..Len(claims) : claims[i].fencing \in Nat
    BY TaskFacts, LenProperties, ElementOfSeq DEF GuardInv
  <2> QED
    BY <1>1, <1>2, <2>1 DEF IsFenced
<1> QED
  BY <1>1, <1>2, <1>3, <1>4

\* Each guard keeps what it has to remember, and what is promised of it.
LEMMA AdmitGuard ==
  ASSUME ExecInv, NEW e \in Executions, Admit(e)
  PROVE  GuardInv'
<1> DEFINE r == run[e]
<1>1. GuardInv /\ wall \in Nat /\ RunOK(r) /\ r.pc = "keys" /\ guard' = guard
  BY TaskFacts DEF ExecInv, LeaseInv, LeaseTypeOK, RunsInv, Admit
<1>2. r.task \in SignedTasks
  BY <1>1 DEF RunOK, Alive, Silent
<1>3. claims \in Seq(SignedTasks) /\ Len(claims) \in Nat /\ guardRead \in Nat /\ guard \in Guards
      /\ \A i \in 1..Len(claims) : claims[i] \in SignedTasks /\ Remembered(claims[i])
  BY <1>1, LenProperties, ElementOfSeq DEF GuardInv
<1>4. CASE /\ ClaimResult(r.task) = "true"
           /\ nonces' = Held \cup {[key |-> Key(r.task), expiry |-> r.task.expiresAt]}
           /\ claims' = Append(claims, r.task) /\ guardRead' = wall
  <2>t. PICK t \in SignedTasks : t = r.task
    BY <1>2
  <2> HIDE DEF r
  <2>1. /\ \A i \in 1..Len(claims) : claims[i] # t
        /\ \A i \in 1..Len(claims) : claims[i].id = t.id => claims[i].fencing <= t.fencing
        /\ guard.durable \/ wall >= guardRead
    BY <1>1, <1>4, <2>t, ClaimIsNew
  <2>2. \A u \in SignedTasks : Remembered(u) => Remembered(u)'
    BY <1>1, <1>4, <2>1, HeldRemembers
  <2>3. /\ claims' \in Seq(SignedTasks) /\ Len(claims') = Len(claims) + 1
        /\ claims'[Len(claims) + 1] = t
        /\ \A i \in 1..Len(claims) : claims'[i] = claims[i]
    BY <1>3, <1>4, <2>t, AppendProperties
  <2>4. Remembered(t)'
    <3>1. Key(t)' = Key(t)
      BY <1>1 DEF Key
    <3>2. [key |-> Key(t), expiry |-> t.expiresAt] \in nonces'
      BY <1>4, <2>t
    <3> QED
      BY <3>1, <3>2 DEF Remembered
  <2>5. \A i \in 1..Len(claims') : Remembered(claims[i])'
    <3> SUFFICES ASSUME NEW i \in 1..Len(claims') PROVE Remembered(claims[i])'
      OBVIOUS
    <3>1. PICK u : u = claims'[i]
      OBVIOUS
    <3>2. Remembered(u)'
      <4>1. CASE i = Len(claims) + 1
        BY <2>3, <2>4, <3>1, <4>1
      <4>2. CASE i \in 1..Len(claims)
        BY <1>3, <2>2, <2>3, <3>1, <4>2
      <4> QED
        BY <1>3, <2>3, <4>1, <4>2
    <3> QED
      BY <3>1, <3>2 DEF Remembered, Key
  <2>6. ExecutedOnce'
    BY <1>1, <1>3, <2>1, <2>3 DEF GuardInv, ClaimsSound, ExecutedOnce
  <2>7. FencingOrdered'
    BY SMTT(20), <1>1, <1>3, <2>1, <2>3 DEF GuardInv, ClaimsSound, FencingOrdered
  <2> QED
    BY <1>1, <1>3, <1>4, <2>3, <2>5, <2>6, <2>7 DEF GuardInv, ClaimsSound
<1>5. CASE /\ ClaimResult(r.task) # "true" /\ UNCHANGED claims
           /\ IF wall >= guardRead THEN nonces' = Held /\ guardRead' = wall
                                   ELSE UNCHANGED <<nonces, guardRead>>
  <2>1. CASE wall >= guardRead
    <3>1. \A u \in SignedTasks : Remembered(u) => Remembered(u)'
      BY <1>1, <1>5, <2>1, HeldRemembers
    <3>2. \A i \in 1..Len(claims) : Remembered(claims[i])'
      BY <1>3, <1>5, <3>1
    <3> QED
      BY <1>1, <1>3, <1>5, <2>1, <3>2 DEF GuardInv, ClaimsSound, ExecutedOnce, FencingOrdered
  <2>2. CASE ~(wall >= guardRead)
    BY <1>1, <1>5, <2>2, GuardSame
  <2> QED
    BY <2>1, <2>2
<1> QED
  BY <1>1, <1>4, <1>5, GuardSame DEF Admit

-----------------------------------------------------------------------------
\* A sequence is one of the things in it.
LEMMA SeqOfItsRange ==
  ASSUME NEW S, NEW s \in Seq(S)
  PROVE  s \in Seq(Range(s))
<1> DEFINE n == Len(s)
<1>1. n \in Nat /\ DOMAIN s = 1..n /\ s = [i \in 1..n |-> s[i]]
  BY LenProperties
<1>2. \A i \in 1..n : s[i] \in Range(s)
  BY <1>1 DEF Range
<1> HIDE DEF n
<1>3. s \in [1..n -> Range(s)]
  BY <1>1, <1>2
<1> QED
  BY <1>1, <1>3, SeqDef

\* An event added to a sequence of events.
LEMMA AppendEvent ==
  ASSUME NEW s, EventSeq(s), NEW ev, IsEvent(ev)
  PROVE  LET t == Append(s, ev) IN
         /\ EventSeq(t) /\ Len(s) \in Nat /\ Len(t) = Len(s) + 1 /\ t[Len(s) + 1] = ev
         /\ \A i \in 1..Len(s) : t[i] = s[i]
<1> DEFINE t == Append(s, ev)
<1> DEFINE S == Range(s) \cup {ev}
<1>1. s \in Seq(S)
  <2>1. s \in Seq(Range(s)) /\ Range(s) \subseteq S
    BY DEF EventSeq
  <2> HIDE DEF S
  <2> QED
    BY <2>1, SeqMonotonic
<1>2. ev \in S
  OBVIOUS
<1> HIDE DEF S
<1>3. /\ t \in Seq(S) /\ Len(s) \in Nat /\ Len(t) = Len(s) + 1 /\ t[Len(s) + 1] = ev
      /\ \A i \in 1..Len(s) : t[i] = s[i]
  BY <1>1, <1>2, AppendProperties, LenProperties
<1> HIDE DEF t
<1>4. t \in Seq(Range(t))
  BY <1>3, SeqOfItsRange
<1>5. \A i \in 1..Len(t) : IsEvent(t[i])
  <2> SUFFICES ASSUME NEW i \in 1..Len(t) PROVE IsEvent(t[i])
    OBVIOUS
  <2>1. i \in 1..Len(s) \/ i = Len(s) + 1
    BY <1>3
  <2>2. \A j \in 1..Len(s) : IsEvent(s[j])
    BY DEF EventSeq
  <2> QED
    BY <1>3, <2>1, <2>2
<1> QED
  BY <1>3, <1>4, <1>5 DEF EventSeq, t

\* The digest a new event goes by.
LEMMA LastOf ==
  ASSUME NEW s, EventSeq(s)
  PROVE  LastDigest(s) = IF Len(s) = 0 THEN Genesis ELSE s[Len(s)].digest
<1>1. s = <<>> <=> Len(s) = 0
  BY EmptySeq DEF EventSeq
<1> QED
  BY <1>1 DEF LastDigest, Last

\* createRunnerEvent prolongs the chain.
LEMMA ChainGrows ==
  ASSUME NEW s, NEW identity, NEW type, NEW at \in Nat, Chain(s, identity), Len(s) < maxEvents
  PROVE  LET t == Append(s, Sealed([task |-> identity, sequence |-> Len(s) + 1, type |-> type,
                                    at |-> at, previous |-> LastDigest(s)]))
         IN  /\ Chain(t, identity) /\ Len(s) \in Nat /\ Len(t) = Len(s) + 1
             /\ t[Len(t)].type = type /\ t[Len(t)].at = at
             /\ \A i \in 1..Len(s) : t[i] = s[i]
<1> DEFINE ev == Sealed([task |-> identity, sequence |-> Len(s) + 1, type |-> type,
                         at |-> at, previous |-> LastDigest(s)])
<1> DEFINE t == Append(s, ev)
<1>1. /\ IsEvent(ev) /\ ev.task = identity /\ ev.sequence = Len(s) + 1 /\ ev.type = type
      /\ ev.at = at /\ ev.previous = LastDigest(s) /\ ev.digest = Body(ev)
  BY DEF Sealed, IsEvent, Body
<1> HIDE DEF ev
<1>2. /\ EventSeq(t) /\ Len(s) \in Nat /\ Len(t) = Len(s) + 1 /\ t[Len(s) + 1] = ev
      /\ \A i \in 1..Len(s) : t[i] = s[i]
  BY <1>1, AppendEvent DEF Chain
<1> HIDE DEF t
<1>3. LastDigest(s) = IF Len(s) = 0 THEN Genesis ELSE s[Len(s)].digest
  BY LastOf DEF Chain
<1>4. ASSUME NEW i \in 1..Len(t)
      PROVE  /\ t[i].digest = Body(t[i]) /\ t[i].previous = Before(t, i)
             /\ t[i].sequence = i /\ t[i].task = identity /\ t[i].at \in Nat
  <2>1. CASE i \in 1..Len(s)
    <3>1. t[i] = s[i] /\ Before(t, i) = Before(s, i)
      BY <1>2, <2>1 DEF Before
    <3> QED
      BY <2>1, <3>1 DEF Chain
  <2>2. CASE i = Len(s) + 1
    <3>1. Before(t, i) = LastDigest(s)
      BY <1>2, <1>3, <2>2 DEF Before
    <3> QED
      BY <1>1, <1>2, <2>2, <3>1
  <2> QED
    BY <1>2, <2>1, <2>2
<1>5. Len(t) <= maxEvents
  BY <1>2, TaskFacts
<1>6. Chain(t, identity)
  BY <1>2, <1>4, <1>5 DEF Chain
<1>7. t[Len(t)].type = type /\ t[Len(t)].at = at
  BY <1>1, <1>2
<1> QED
  BY <1>2, <1>6, <1>7 DEF t, ev

\* An execution that ended without a receipt leaves nothing to hold.
LEMMA GoneOK ==
  ASSUME NEW why, why \notin Alive \cup {"receipt"}
  PROVE  RunOK(Gone(why))
<1>1. IsRun(IdleRun)
  BY DEF IsRun, RunFields, IdleRun
<1>2. IsRun(Gone(why)) /\ Gone(why).pc = why
  BY <1>1 DEF IsRun, RunFields, Gone
<1> QED
  BY <1>2 DEF RunOK, Alive, Silent, Hosted

\* The run of one execution changes and stays as it should be.
LEMMA BecomesOK ==
  ASSUME RunsInv, NEW e \in Executions, NEW r, RunOK(r), Becomes(e, r)
  PROVE  RunsInv'
<1>1. /\ run' = [run EXCEPT ![e] = r] /\ run = [x \in Executions |-> run[x]]
  BY DEF RunsInv, Becomes
<1>2. /\ run' = [x \in Executions |-> run'[x]]
      /\ \A x \in Executions : run'[x] = IF x = e THEN r ELSE run[x]
  BY <1>1
<1>3. \A x \in Executions : RunOK(run'[x])
  BY <1>2 DEF RunsInv
<1> QED
  BY <1>2, <1>3 DEF RunsInv

\* What the locals keep when one of these two changes.
LEMMA SetAbort ==
  ASSUME NEW r, RunOK(r), NEW s, NEW a
  PROVE  RunOK([r EXCEPT !.signalled = s, !.abortAt = a])
<1> DEFINE t == [r EXCEPT !.signalled = s, !.abortAt = a]
<1>1. IsRun(r)
  BY DEF RunOK
<1>i. IsRun(t)
  BY <1>1 DEF IsRun, RunFields
<1>2. /\ t.pc = r.pc /\ t.task = r.task /\ t.leased = r.leased /\ t.readAt = r.readAt
      /\ t.startedAt = r.startedAt /\ t.terminal = r.terminal /\ t.events = r.events
      /\ t.outcome = r.outcome /\ t.bundle = r.bundle
  BY <1>1 DEF IsRun, RunFields
<1> HIDE DEF t
<1>3. RunOK(t)
  BY <1>i, <1>2 DEF RunOK
<1> QED
  BY <1>3 DEF t

\* Once its outcome is decided an execution only has to clean up.
LEMMA DecidedOK ==
  ASSUME NEW r, RunOK(r), r.pc \in Hosted, NEW o, o = "completed" => EndsWith(r.events, "completed")
  PROVE  RunOK(Decided(r, o))
<1> DEFINE t == Decided(r, o)
<1>1. IsRun(r)
  BY DEF RunOK
<1>i. IsRun(t)
  BY <1>1 DEF IsRun, RunFields, Decided
<1>2. /\ t.pc = "cleanup" /\ t.task = r.task /\ t.leased = r.leased
      /\ t.readAt = r.readAt /\ t.startedAt = r.startedAt /\ t.events = r.events /\ t.outcome = o
  BY <1>1 DEF IsRun, RunFields, Decided
<1> HIDE DEF t
<1>3. r.pc \in Alive
  BY DEF Alive
<1>4. RunOK(t)
  BY <1>i, <1>2, <1>3 DEF RunOK, Alive, Silent, Hosted
<1> QED
  BY <1>4 DEF t

LEMMA ReturnedOK ==
  ASSUME NEW e, RunOK(run[e]), run[e].pc \in Hosted, NEW o,
         o = "completed" => EndsWith(run[e].events, "completed")
  PROVE  RunOK(Returned(run[e], o))
BY DecidedOK DEF Returned

\* The first readings of the clock, and the empty chain.
LEMMA NothingYet ==
  ASSUME NEW identity, NEW from, NEW to
  PROVE  Chain(<<>>, identity) /\ InOrder(<<>>, from, to) /\ Reported(<<>>, Len(<<>>))
<1>1. <<>> \in Seq(Range(<<>>)) /\ Len(<<>>) = 0
  BY EmptySeq
<1>2. EventSeq(<<>>)
  BY <1>1 DEF EventSeq
<1> QED
  BY <1>1, <1>2, TaskFacts DEF Chain, InOrder, Reported

\* An execution that nobody hosts yet: it starts, or it is refused.
LEMMA SubmitRuns ==
  ASSUME ExecInv, NEW e \in Executions, NEW t \in SignedTasks, NEW l \in BOOLEAN, Submit(e, t, l)
  PROVE  RunsInv'
<1> DEFINE n == [IdleRun EXCEPT !.pc = "keys", !.task = t, !.leased = l]
<1>1. IsRun(IdleRun)
  BY DEF IsRun, RunFields, IdleRun
<1>2. IsRun(n)
  BY <1>1 DEF IsRun, RunFields
<1>3. /\ n.pc = "keys" /\ n.task = t /\ n.leased = l /\ n.readAt = IdleRun.readAt
      /\ n.startedAt = IdleRun.startedAt /\ n.events = IdleRun.events
  BY <1>1 DEF IsRun, RunFields
<1>4. IdleRun.readAt = 0 /\ IdleRun.startedAt = 0 /\ IdleRun.events = <<>>
  BY DEF IdleRun
<1>5. Becomes(e, n)
  BY DEF Submit
<1> HIDE DEF n
<1>6. RunOK(n)
  BY <1>2, <1>3, <1>4 DEF RunOK, Alive, Silent, Hosted
<1> QED
  BY <1>5, <1>6, BecomesOK DEF ExecInv

LEMMA AdmitRuns ==
  ASSUME ExecInv, NEW e \in Executions, Admit(e)
  PROVE  RunsInv'
<1>1. wall \in Nat /\ RunOK(run[e]) /\ RunsInv /\ run[e].pc = "keys"
  BY TaskFacts DEF ExecInv, LeaseInv, LeaseTypeOK, RunsInv, Admit
<1>2. CASE Becomes(e, Gone("refused"))
  BY <1>1, <1>2, GoneOK, BecomesOK DEF Alive, Silent, Hosted
<1>3. CASE IsAdmissible(run[e]) /\ Becomes(e, [run[e] EXCEPT !.pc = "claimed", !.readAt = wall])
  <2>1. PICK r : r = run[e]
    OBVIOUS
  <2> DEFINE n == [r EXCEPT !.pc = "claimed", !.readAt = wall]
  <2>2. IsRun(r)
    BY <1>1, <2>1 DEF RunOK
  <2>3. IsRun(n)
    BY <2>2 DEF IsRun, RunFields
  <2>4. /\ n.pc = "claimed" /\ n.task = r.task /\ n.leased = r.leased /\ n.readAt = wall
        /\ n.startedAt = r.startedAt /\ n.events = r.events
    BY <2>2 DEF IsRun, RunFields
  <2>5. r.task.issuedAt <= wall + skew
    BY <1>3, <2>1 DEF IsAdmissible, IsTimely
  <2>6. Becomes(e, n)
    BY <1>3, <2>1
  <2> HIDE DEF n
  <2>7. RunOK(r) /\ r.pc = "keys"
    BY <1>1, <2>1
  <2>8. RunOK(n)
    BY <1>1, <2>3, <2>4, <2>5, <2>7 DEF RunOK, Alive, Silent, Hosted
  <2> QED
    BY <1>1, <2>6, <2>8, BecomesOK
<1> QED
  BY <1>2, <1>3 DEF Admit

\* The package is looked at: the readings of the clock begin.
LEMMA ClaimedRuns ==
  ASSUME ExecInv, NEW e \in Executions, Claimed(e)
  PROVE  RunsInv'
<1>1. wall \in Nat /\ RunOK(run[e]) /\ RunsInv /\ run[e].pc = "claimed"
  BY TaskFacts DEF ExecInv, LeaseInv, LeaseTypeOK, RunsInv, Claimed, Alone
<1>2. CASE Becomes(e, Gone("lost"))
  BY <1>1, <1>2, GoneOK, BecomesOK DEF Alive, Silent, Hosted
<1>3. CASE /\ ReadOk(run[e])
           /\ Becomes(e, [run[e] EXCEPT !.pc = "package", !.readAt = wall, !.startedAt = wall])
  <2>1. PICK r : r = run[e]
    OBVIOUS
  <2> DEFINE n == [r EXCEPT !.pc = "package", !.readAt = wall, !.startedAt = wall]
  <2>2. IsRun(r)
    BY <1>1, <2>1 DEF RunOK
  <2>3. IsRun(n)
    BY <2>2 DEF IsRun, RunFields
  <2>4. /\ n.pc = "package" /\ n.task = r.task /\ n.leased = r.leased /\ n.readAt = wall
        /\ n.startedAt = wall /\ n.events = r.events
    BY <2>2 DEF IsRun, RunFields
  <2>5. wall >= r.readAt /\ Becomes(e, n)
    BY <1>3, <2>1 DEF ReadOk
  <2> HIDE DEF n
  <2>6. RunOK(r) /\ r.pc = "claimed"
    BY <1>1, <2>1
  <2>7. /\ r.task \in SignedTasks /\ r.leased \in BOOLEAN /\ r.readAt \in Nat /\ r.events = <<>>
        /\ r.task.issuedAt <= r.readAt + skew
    BY <2>6 DEF RunOK, Alive, Silent
  <2>8. r.task.issuedAt <= wall + skew
    BY <1>1, <2>5, <2>7, TaskFacts
  <2>9. RunOK(n)
    BY <1>1, <2>3, <2>4, <2>7, <2>8, NothingYet DEF RunOK, Alive, Silent, Hosted
  <2> QED
    BY <1>1, <2>5, <2>9, BecomesOK
<1> QED
  BY <1>2, <1>3 DEF Claimed, Alone

\* The package is sealed; what is still to be read of the clock lies ahead.
LEMMA PackageRuns ==
  ASSUME ExecInv, NEW e \in Executions, PackageUnusable(e) \/ PackageReady(e)
  PROVE  RunsInv'
<1>1. wall \in Nat /\ RunOK(run[e]) /\ RunsInv /\ run[e].pc = "package"
  BY TaskFacts DEF ExecInv, LeaseInv, LeaseTypeOK, RunsInv, PackageUnusable, PackageReady, Alone
<1>2. PICK r : r = run[e]
  OBVIOUS
<1>3. RunOK(r) /\ r.pc = "package" /\ r.pc \in Hosted /\ IsRun(r)
  BY <1>1, <1>2 DEF Hosted, RunOK
<1>4. CASE Becomes(e, Decided(r, "failed"))
  BY <1>1, <1>3, <1>4, DecidedOK, BecomesOK
<1>5. ASSUME ReadOk(r), NEW s, s = [r EXCEPT !.readAt = wall, !.startedAt = wall]
      PROVE  RunOK(s) /\ IsRun(s) /\ s.pc = "package"
  <2>1. IsRun(s)
    BY <1>3, <1>5 DEF IsRun, RunFields
  <2>2. /\ s.pc = "package" /\ s.task = r.task /\ s.leased = r.leased /\ s.readAt = wall
        /\ s.startedAt = wall /\ s.events = r.events
    BY <1>3, <1>5 DEF IsRun, RunFields
  <2>3. /\ r.task \in SignedTasks /\ r.leased \in BOOLEAN /\ r.readAt \in Nat /\ r.events = <<>>
        /\ r.startedAt \in Nat /\ r.task.issuedAt <= r.startedAt + skew /\ r.startedAt <= r.readAt
    BY <1>3 DEF RunOK, Alive, Silent, Hosted
  <2>4. wall >= r.readAt
    BY <1>5 DEF ReadOk
  <2>5. r.task.issuedAt <= wall + skew
    <3>1. r.task.issuedAt \in Nat /\ skew \in Nat
      BY <2>3, TaskFacts
    <3> QED
      BY <1>1, <2>3, <2>4, <3>1
  <2> QED
    BY <1>1, <2>1, <2>2, <2>3, <2>5, NothingYet DEF RunOK, Alive, Silent, Hosted
<1>6. CASE ReadOk(r) /\ Becomes(e, Decided([r EXCEPT !.readAt = wall, !.startedAt = wall], "cancelled"))
  <2>1. PICK s : s = [r EXCEPT !.readAt = wall, !.startedAt = wall]
    OBVIOUS
  <2>2. RunOK(s) /\ s.pc \in Hosted
    BY <1>5, <1>6, <2>1 DEF Hosted
  <2> QED
    BY <1>1, <1>6, <2>1, <2>2, DecidedOK, BecomesOK
<1>7. ASSUME ReadOk(r), NEW s, s = [r EXCEPT !.readAt = wall, !.startedAt = wall], NEW a,
             Becomes(e, [s EXCEPT !.pc = "preflight", !.abortAt = a])
      PROVE  RunsInv'
  <2>3. RunOK(s) /\ IsRun(s) /\ s.pc = "package"
    BY <1>5, <1>7
  <2> DEFINE n == [s EXCEPT !.pc = "preflight", !.abortAt = a]
  <2>4. IsRun(n)
    BY <2>3 DEF IsRun, RunFields
  <2>5. /\ n.pc = "preflight" /\ n.task = s.task /\ n.leased = s.leased /\ n.readAt = s.readAt
        /\ n.startedAt = s.startedAt /\ n.events = s.events
    BY <2>3 DEF IsRun, RunFields
  <2>6. Becomes(e, n)
    BY <1>7
  <2> HIDE DEF n
  <2>7. RunOK(n)
    BY <2>3, <2>4, <2>5 DEF RunOK, Alive, Silent, Hosted
  <2> QED
    BY <1>1, <2>6, <2>7, BecomesOK
<1>8. CASE PackageUnusable(e)
  BY <1>2, <1>4, <1>8 DEF PackageUnusable, Alone
<1>9. CASE PackageReady(e)
  <2>1. PICK s : s = [r EXCEPT !.readAt = wall, !.startedAt = wall]
    OBVIOUS
  <2>2. PICK a : a = IF r.leased THEN NoTimer ELSE elapsed + RunDeadline(r) - wall
    OBVIOUS
  <2>3. Becomes(e, IF ~ReadOk(r) THEN Decided(r, "failed")
                   ELSE IF wall >= RunDeadline(r) THEN Decided(s, "cancelled")
                   ELSE [s EXCEPT !.pc = "preflight", !.abortAt = a])
    BY <1>2, <1>9, <2>1, <2>2 DEF PackageReady, Alone
  <2> QED
    BY <1>4, <1>6, <1>7, <2>1, <2>3
<1> QED
  BY <1>8, <1>9

\* The host works, stops, or is stopped.
LEMMA HostRuns ==
  ASSUME ExecInv, NEW e \in Executions,
         \/ LeaseTimer(e) \/ HostFails(e) \/ HostAborted(e) \/ PreflightOk(e)
         \/ (\E type \in {"completed", "failed"} : HostTerminal(e, type)) \/ HostReturns(e)
  PROVE  RunsInv'
<1>1. RunsInv /\ RunOK(run[e])
  BY DEF ExecInv, RunsInv
<1>2. PICK r : r = run[e]
  OBVIOUS
<1>3. RunOK(r) /\ IsRun(r)
  BY <1>1, <1>2 DEF RunOK
<1>4. CASE LeaseTimer(e)
  <2>1. Becomes(e, [r EXCEPT !.signalled = TRUE, !.abortAt = NoTimer])
    BY <1>2, <1>4 DEF LeaseTimer, Alone
  <2>2. RunOK([r EXCEPT !.signalled = TRUE, !.abortAt = NoTimer])
    BY <1>3, SetAbort
  <2> QED
    BY <1>1, <2>1, <2>2, BecomesOK
<1>5. CASE HostFails(e) \/ HostAborted(e)
  BY <1>1, <1>5, ReturnedOK, BecomesOK DEF HostFails, HostAborted, Alone, Hosted
<1>6. CASE HostReturns(e)
  <2>1. run[e].pc = "published" /\ Becomes(e, Returned(run[e], run[e].terminal))
    BY <1>6 DEF HostReturns, Alone
  <2>2. EndsWith(run[e].events, run[e].terminal) /\ run[e].pc \in Hosted
    BY <1>1, <2>1 DEF RunOK, Hosted
  <2> QED
    BY <1>1, <2>1, <2>2, ReturnedOK, BecomesOK
<1>7. CASE PreflightOk(e)
  <2> DEFINE n == [r EXCEPT !.pc = "streaming"]
  <2>1. r.pc = "preflight" /\ Becomes(e, n)
    BY <1>2, <1>7 DEF PreflightOk, Alone
  <2>2. IsRun(n)
    BY <1>3 DEF IsRun, RunFields
  <2>3. /\ n.pc = "streaming" /\ n.task = r.task /\ n.leased = r.leased /\ n.readAt = r.readAt
        /\ n.startedAt = r.startedAt /\ n.events = r.events
    BY <1>3 DEF IsRun, RunFields
  <2> HIDE DEF n
  <2>4. r.events = <<>>
    BY <1>3, <2>1 DEF RunOK, Silent
  <2>5. RunOK(n)
    BY <1>3, <2>1, <2>2, <2>3, <2>4, NothingYet DEF RunOK, Alive, Silent, Hosted
  <2> QED
    BY <1>1, <2>1, <2>5, BecomesOK
<1>8. ASSUME NEW type, HostTerminal(e, type) PROVE RunsInv'
  <2> DEFINE n == [r EXCEPT !.pc = "ending", !.terminal = type]
  <2>1. r.pc = "streaming" /\ Becomes(e, n)
    BY <1>2, <1>8 DEF HostTerminal, Alone
  <2>2. IsRun(n)
    BY <1>3 DEF IsRun, RunFields
  <2>3. /\ n.pc = "ending" /\ n.task = r.task /\ n.leased = r.leased /\ n.readAt = r.readAt
        /\ n.startedAt = r.startedAt /\ n.events = r.events
    BY <1>3 DEF IsRun, RunFields
  <2> HIDE DEF n
  <2>4. RunOK(n)
    BY <1>3, <2>1, <2>2, <2>3 DEF RunOK, Alive, Silent, Hosted
  <2> QED
    BY <1>1, <2>1, <2>4, BecomesOK
<1> QED
  BY <1>4, <1>5, <1>6, <1>7, <1>8

\* A chain that grows at a reading not before the last one stays in order.
LEMMA OrderGrows ==
  ASSUME NEW s, NEW t, NEW identity, Chain(s, identity), NEW from \in Nat, NEW to \in Nat,
         NEW at \in Nat, InOrder(s, from, to), from <= to, to <= at,
         Len(t) = Len(s) + 1, t[Len(t)].at = at, \A i \in 1..Len(s) : t[i] = s[i]
  PROVE  InOrder(t, from, at)
<1>1. Len(s) \in Nat /\ \A i \in 1..Len(s) : s[i].at \in Nat
  BY LenProperties DEF Chain, EventSeq
<1>2. ASSUME NEW i \in 1..Len(t) PROVE from <= t[i].at /\ t[i].at <= at
  <2>1. CASE i \in 1..Len(s)
    BY <1>1, <2>1 DEF InOrder
  <2>2. CASE i = Len(t)
    BY <2>2
  <2> QED
    BY <1>1, <2>1, <2>2
<1>3. ASSUME NEW i \in 2..Len(t) PROVE t[i - 1].at <= t[i].at
  <2>1. CASE i \in 2..Len(s)
    <3>1. t[i - 1] = s[i - 1] /\ t[i] = s[i]
      BY <1>1, <2>1
    <3> QED
      BY <2>1, <3>1 DEF InOrder
  <2>2. CASE i = Len(t)
    <3>1. i - 1 \in 1..Len(s)
      BY <1>1, <2>2
    <3>2. t[i - 1].at <= to /\ t[i - 1].at \in Nat
      BY <1>1, <3>1 DEF InOrder
    <3> QED
      BY <2>2, <3>2
  <2> QED
    BY <1>1, <2>1, <2>2
<1> QED
  BY <1>2, <1>3 DEF InOrder

\* The host publishes an event, or the execution fails because it may not.
LEMMA PublishRuns ==
  ASSUME ExecInv, NEW e \in Executions, HostProgress(e) \/ PublishTerminal(e)
  PROVE  RunsInv'
<1>1. wall \in Nat /\ RunOK(run[e]) /\ RunsInv
  BY TaskFacts DEF ExecInv, LeaseInv, LeaseTypeOK, RunsInv
<1>2. PICK r : r = run[e]
  OBVIOUS
<1>3. RunOK(r) /\ IsRun(r)
  BY <1>1, <1>2 DEF RunOK
<1>4. ASSUME NEW type, NEW next,
             \/ r.pc = "streaming" /\ next = "streaming" /\ type \in EventTypes
             \/ r.pc = "ending" /\ next = "published" /\ type = r.terminal,
             Publish(e, r.pc, type, next)
      PROVE  RunsInv'
  <2>1. CASE Becomes(e, Returned(run[e], "failed"))
    BY <1>1, <1>2, <1>4, <2>1, ReturnedOK, BecomesOK DEF Hosted
  <2>2. CASE CanAppend(r) /\ Becomes(e, [Recorded(r, type) EXCEPT !.pc = next])
    <3>1. wall >= r.readAt /\ Len(r.events) < maxEvents
      BY <2>2 DEF CanAppend, ReadOk
    <3>2. /\ r.task \in SignedTasks /\ r.leased \in BOOLEAN /\ r.readAt \in Nat /\ r.startedAt \in Nat
          /\ r.task.issuedAt <= r.startedAt + skew /\ r.startedAt <= r.readAt
          /\ Chain(r.events, TaskIdentity(r.task)) /\ InOrder(r.events, r.startedAt, r.readAt)
          /\ Reported(r.events, Len(r.events))
      BY <1>3, <1>4 DEF RunOK, Alive, Silent, Hosted
    <3> DEFINE ev == Append(r.events, Sealed([task |-> TaskIdentity(r.task),
                                  sequence |-> Len(r.events) + 1, type |-> type, at |-> wall,
                                  previous |-> LastDigest(r.events)]))
    <3>3. /\ Chain(ev, TaskIdentity(r.task)) /\ Len(r.events) \in Nat /\ Len(ev) = Len(r.events) + 1
          /\ ev[Len(ev)].type = type /\ ev[Len(ev)].at = wall
          /\ \A i \in 1..Len(r.events) : ev[i] = r.events[i]
      BY <1>1, <3>1, <3>2, ChainGrows
    <3> DEFINE n == [Recorded(r, type) EXCEPT !.pc = next]
    <3>4. IsRun(n)
      BY <1>3 DEF IsRun, RunFields, Recorded
    <3>5. /\ n.pc = next /\ n.task = r.task /\ n.leased = r.leased /\ n.readAt = wall
          /\ n.startedAt = r.startedAt /\ n.events = ev /\ n.terminal = r.terminal
      BY <1>3 DEF IsRun, RunFields, Recorded
    <3>6. Becomes(e, n)
      BY <2>2
    <3> HIDE DEF ev, n
    <3>7. InOrder(ev, r.startedAt, wall) /\ r.startedAt <= wall
      <4>1. PICK old, from, to : old = r.events /\ from = r.startedAt /\ to = r.readAt
        OBVIOUS
      <4>2. /\ Chain(old, TaskIdentity(r.task)) /\ from \in Nat /\ to \in Nat /\ from <= to
            /\ InOrder(old, from, to) /\ to <= wall
        BY <1>1, <3>1, <3>2, <4>1
      <4>3. Len(ev) = Len(old) + 1 /\ ev[Len(ev)].at = wall /\ \A i \in 1..Len(old) : ev[i] = old[i]
        BY <3>3, <4>1
      <4>4. InOrder(ev, from, wall)
        BY <1>1, <4>2, <4>3, OrderGrows
      <4> QED
        BY <1>1, <4>1, <4>2, <4>4
    <3>8. type \in EventTypes => Reported(ev, Len(ev))
      BY SMTT(20), <3>2, <3>3 DEF Reported
    <3>9. EndsWith(ev, type)
      BY <3>2, <3>3 DEF EndsWith, Reported
    <3>10. RunOK(n)
      BY <1>1, <1>4, <3>2, <3>3, <3>4, <3>5, <3>7, <3>8, <3>9 DEF RunOK, Alive, Silent, Hosted
    <3> QED
      BY <1>1, <3>6, <3>10, BecomesOK
  <2> QED
    BY <1>2, <1>4, <2>1, <2>2 DEF Publish
<1>5. CASE HostProgress(e)
  BY <1>2, <1>4, <1>5 DEF HostProgress, Publish
<1>6. CASE PublishTerminal(e)
  BY <1>2, <1>4, <1>6 DEF PublishTerminal, Publish
<1> QED
  BY <1>5, <1>6

-----------------------------------------------------------------------------
\* The digest an event goes by is the last one of what comes before it.
LEMMA BeforeIsLast ==
  ASSUME NEW s, EventSeq(s), NEW i \in 1..Len(s)
  PROVE  LastDigest(SubSeq(s, 1, i - 1)) = Before(s, i)
<1>1. Len(s) \in Nat /\ \A j \in 1..Len(s) : s[j] \in Range(s)
  BY LenProperties, ElementOfSeq DEF EventSeq
<1>2. CASE i = 1
  BY <1>2, SubSeqEmpty DEF LastDigest, Before
<1>3. CASE i # 1
  <2> DEFINE t == SubSeq(s, 1, i - 1)
  <2>1. \A j \in 1..(i - 1) : s[j] \in Range(s)
    BY <1>1
  <2>2. /\ t \in Seq(Range(s)) /\ Len(t) = i - 1
        /\ \A j \in 1..(i - 1) : t[j] = s[j]
    BY <1>1, <1>3, <2>1, SubSeqProperties, i - 1 \in Int
  <2> HIDE DEF t
  <2>3. t # <<>>
    BY <1>1, <1>3, <2>2, EmptySeq
  <2>4. LastDigest(t) = t[i - 1].digest
    BY <2>2, <2>3 DEF LastDigest, Last
  <2> QED
    BY <1>1, <1>3, <2>2, <2>4 DEF Before, t
<1> QED
  BY <1>2, <1>3

LEMMA ChainIsVerified ==
  ASSUME NEW s, NEW identity, Chain(s, identity)
  PROVE  ChainVerifies(s, identity)
BY BeforeIsLast DEF Chain, ChainVerifies

\* What an execution returns: the chain, in order and in time, with its receipt.
LEMMA ReceiptBundle ==
  ASSUME NEW t \in SignedTasks, NEW s, NEW started \in Nat, NEW read \in Nat, NEW now \in Nat,
         NEW x \in Nat, NEW rc, NEW b,
         t.issuedAt <= started + skew, started <= read, read <= now, now < t.expiresAt, now < x,
         Chain(s, TaskIdentity(t)), InOrder(s, started, read),
         rc.task = TaskIdentity(t), rc.startedAt = started, rc.completedAt = now,
         rc.eventCount = Len(s), rc.finalDigest = LastDigest(s), ReceiptValid(rc),
         b = [task |-> t, leaseExpiry |-> x, events |-> s, receipt |-> rc]
  PROVE  BundleVerifies(b)
<1>1. /\ t.issuedAt \in Nat /\ t.expiresAt \in Nat /\ skew \in Nat
  BY TaskFacts
<1>2. Len(s) \in Nat /\ \A i \in 1..Len(s) : s[i].at \in Nat
  BY LenProperties DEF Chain, EventSeq
<1>3. b.task = t /\ b.leaseExpiry = x /\ b.events = s /\ b.receipt = rc
  OBVIOUS
<1>4. ChainVerifies(s, TaskIdentity(t))
  BY ChainIsVerified
<1>5. started >= t.issuedAt - skew
  BY <1>1
<1> DEFINE at(i) == IF i = 0 THEN started ELSE s[i].at
<1> DEFINE hardExpiry == IF t.expiresAt <= x THEN t.expiresAt ELSE x
<1>6. now < hardExpiry /\ hardExpiry \in Nat
  BY <1>1
<1>7. ASSUME NEW i \in 1..Len(s)
      PROVE  at(i - 1) <= at(i) /\ at(i) <= now /\ at(i) < hardExpiry
  <2>1. s[i].at \in Nat /\ started <= s[i].at /\ s[i].at <= read
    BY <1>2 DEF InOrder
  <2>2. i - 1 # 0 => s[i - 1].at <= s[i].at
    BY <1>2 DEF InOrder
  <2> HIDE DEF hardExpiry
  <2>3. at(i - 1) <= at(i)
    BY <1>2, <2>1, <2>2
  <2>4. at(i) = s[i].at
    BY <1>2
  <2> QED
    BY <1>6, <2>1, <2>3, <2>4
<1> QED
  BY <1>3, <1>4, <1>5, <1>6, <1>7 DEF BundleVerifies

\* The chain is closed with a receipt, or nothing is returned.
LEMMA CompleteRuns ==
  ASSUME ExecInv, NEW e \in Executions, Complete(e)
  PROVE  RunsInv'
<1>1. wall \in Nat /\ RunOK(run[e]) /\ RunsInv /\ run[e].pc = "cleanup" /\ envelope \in Envelopes
  BY TaskFacts DEF ExecInv, LeaseInv, LeaseTypeOK, RunsInv, Complete, Alone
<1>2. PICK r : r = run[e]
  OBVIOUS
<1>3. RunOK(r) /\ IsRun(r) /\ r.pc = "cleanup"
  BY <1>1, <1>2 DEF RunOK
<1>4. PICK x : x = LeaseExpiry(r)
  OBVIOUS
<1>5. PICK rc : rc = ReceiptOf(r)
  OBVIOUS
<1>6. PICK b : b = [task |-> r.task, leaseExpiry |-> x, events |-> r.events, receipt |-> rc]
  OBVIOUS
<1>7. Becomes(e, IF ~ReadOk(r) \/ wall >= r.task.expiresAt \/ wall >= x THEN Gone("lost")
                 ELSE IF ReceiptValid(rc) THEN [Gone("receipt") EXCEPT !.bundle = b]
                 ELSE Gone("unsigned"))
  BY <1>2, <1>4, <1>5, <1>6 DEF Complete, Alone
<1>8. ASSUME NEW why \in {"lost", "unsigned"}, Becomes(e, Gone(why)) PROVE RunsInv'
  BY <1>1, <1>8, GoneOK, BecomesOK DEF Alive, Silent, Hosted
<1>9. CASE /\ ReadOk(r) /\ ~(wall >= r.task.expiresAt) /\ ~(wall >= x) /\ ReceiptValid(rc)
           /\ Becomes(e, [Gone("receipt") EXCEPT !.bundle = b])
  <2>1. /\ r.task \in SignedTasks /\ r.leased \in BOOLEAN /\ r.readAt \in Nat /\ r.startedAt \in Nat
        /\ r.task.issuedAt <= r.startedAt + skew /\ r.startedAt <= r.readAt
        /\ Chain(r.events, TaskIdentity(r.task)) /\ InOrder(r.events, r.startedAt, r.readAt)
        /\ r.outcome = "completed" => EndsWith(r.events, "completed")
    BY <1>3 DEF RunOK, Alive, Silent, Hosted
  <2>2. x \in Nat
    BY <1>1, <1>4, <2>1, TaskFacts, EnvelopeFacts DEF LeaseExpiry
  <2>3. r.readAt <= wall /\ wall < r.task.expiresAt /\ wall < x
    BY <1>1, <1>9, <2>1, <2>2, TaskFacts DEF ReadOk
  <2>4. /\ rc.task = TaskIdentity(r.task) /\ rc.startedAt = r.startedAt /\ rc.completedAt = wall
        /\ rc.eventCount = Len(r.events) /\ rc.finalDigest = LastDigest(r.events)
        /\ rc.status = FinalStatus(r)
    BY <1>5 DEF ReceiptOf
  <2>5. BundleVerifies(b)
    <3>1. PICK t, s, started, read : /\ t = r.task /\ s = r.events /\ started = r.startedAt
                                     /\ read = r.readAt
      OBVIOUS
    <3>2. /\ t \in SignedTasks /\ started \in Nat /\ read \in Nat
          /\ t.issuedAt <= started + skew /\ started <= read /\ read <= wall
          /\ wall < t.expiresAt /\ Chain(s, TaskIdentity(t)) /\ InOrder(s, started, read)
          /\ rc.task = TaskIdentity(t) /\ rc.startedAt = started /\ rc.completedAt = wall
          /\ rc.eventCount = Len(s) /\ rc.finalDigest = LastDigest(s)
          /\ b = [task |-> t, leaseExpiry |-> x, events |-> s, receipt |-> rc]
      BY <1>6, <2>1, <2>3, <2>4, <3>1
    <3> QED
      BY <1>1, <1>9, <2>2, <2>3, <3>2, ReceiptBundle
  <2>6. b.task = r.task /\ b.leaseExpiry = x /\ b.events = r.events /\ b.receipt = rc
    BY <1>6
  <2>7. Genuine(b)
    <3> SUFFICES ASSUME rc.status = "completed"
                 PROVE  /\ EndsWith(r.events, "completed")
                        /\ r.events[Len(r.events)].at < x - margin
      BY <2>6 DEF Genuine
    <3>1. r.outcome = "completed" /\ ~(wall >= x - margin)
      BY <1>4, <2>4 DEF FinalStatus
    <3>2. EndsWith(r.events, "completed") /\ Len(r.events) \in Nat /\ Len(r.events) > 0
      BY <2>1, <3>1, LenProperties DEF EndsWith, Chain, EventSeq
    <3>3. PICK n : n = Len(r.events)
      OBVIOUS
    <3>4. PICK at : at = r.events[n].at
      OBVIOUS
    <3>5. at \in Nat /\ at <= r.readAt
      BY <2>1, <3>2, <3>3, <3>4 DEF Chain, InOrder
    <3>6. at < x - margin
      BY <1>1, <2>1, <2>2, <2>3, <3>1, <3>5, TaskFacts
    <3> QED
      BY <3>2, <3>3, <3>4, <3>6
  <2>8. BundleOK(b)
    BY <1>6, <2>1, <2>4, <2>5, <2>6, <2>7 DEF BundleOK
  <2> DEFINE n == [Gone("receipt") EXCEPT !.bundle = b]
  <2>9. IsRun(IdleRun)
    BY DEF IsRun, RunFields, IdleRun
  <2>10. IsRun(n) /\ n.pc = "receipt" /\ n.bundle = b
    BY <2>9 DEF IsRun, RunFields, Gone
  <2>11. Becomes(e, n)
    BY <1>9
  <2> HIDE DEF n
  <2>12. RunOK(n)
    BY <2>8, <2>10 DEF RunOK, Alive, Silent, Hosted
  <2> QED
    BY <1>1, <2>11, <2>12, BecomesOK
<1> QED
  BY <1>7, <1>8, <1>9

\* After a restart only what was returned is left.
LEMMA RestartRuns ==
  ASSUME ExecInv, Restart
  PROVE  RunsInv'
<1>1. RunsInv /\ RunOK(Gone("crashed"))
  BY GoneOK DEF ExecInv, Alive, Silent, Hosted
<1>2. run' = [e \in Executions |-> IF run[e].pc \in {"idle", "receipt"} THEN run[e]
                                   ELSE Gone("crashed")]
  BY DEF Restart
<1>3. \A e \in Executions : run'[e] = run[e] \/ run'[e] = Gone("crashed")
  BY <1>2
<1>4. run' = [e \in Executions |-> run'[e]]
  BY <1>2
<1>5. \A e \in Executions : RunOK(run'[e])
  BY <1>1, <1>3 DEF RunsInv
<1> QED
  BY <1>4, <1>5 DEF RunsInv

-----------------------------------------------------------------------------
\* No guard has granted anything yet.
LEMMA ExecInitInv == ExecInit => ExecInv
<1> SUFFICES ASSUME ExecInit PROVE ExecInv
  OBVIOUS
<1>1. LeaseInv
  BY LeaseInitInv DEF ExecInit
<1>2. GuardInv
  <2>1. claims = <<>> /\ Len(claims) = 0 /\ claims \in Seq(SignedTasks)
    BY EmptySeq DEF ExecInit
  <2> QED
    BY <2>1 DEF ExecInit, GuardInv, ClaimsSound, ExecutedOnce, FencingOrdered
<1>3. RunsInv
  <2>1. RunOK(Gone("idle")) /\ Gone("idle") = IdleRun
    <3>1. RunOK(Gone("idle"))
      BY GoneOK DEF Alive, Silent, Hosted
    <3>2. Gone("idle") = IdleRun
      <4>1. IsRun(IdleRun) /\ IdleRun.pc = "idle"
        BY DEF IsRun, RunFields, IdleRun
      <4> QED
        BY <4>1 DEF IsRun, RunFields, Gone
    <3> QED
      BY <3>1, <3>2
  <2>2. run = [e \in Executions |-> IdleRun]
    BY DEF ExecInit
  <2>3. \A e \in Executions : run[e] = IdleRun
    BY <2>2
  <2>4. \A e \in Executions : RunOK(run[e])
    BY <2>1, <2>3
  <2>5. run = [e \in Executions |-> run[e]]
    BY <2>2
  <2> QED
    BY <2>4, <2>5 DEF RunsInv
<1> QED
  BY <1>1, <1>2, <1>3 DEF ExecInv

\* Every step keeps the invariant.
LEMMA ExecStepInv == ExecInv /\ [ExecNext]_vars => ExecInv'
<1> SUFFICES ASSUME ExecInv, [ExecNext]_vars PROVE ExecInv'
  OBVIOUS
<1>1. LeaseInv'
  BY ExecLeaseStep, LeaseStepInv DEF ExecInv
<1>2. ASSUME UNCHANGED run PROVE RunsInv'
  BY <1>2 DEF ExecInv, RunsInv
<1>3. ASSUME NEW e \in Executions, ExecStep(e) PROVE GuardInv' /\ RunsInv'
  <2>1. CASE Admit(e)
    BY <1>3, <2>1, AdmitGuard, AdmitRuns
  <2>2. CASE ~Admit(e)
    <3>1. GuardInv'
      <4>1. UNCHANGED <<guard, nonces, guardRead, claims>>
        BY <1>3, <2>2
        DEF ExecStep, Submit, KeyUnavailable, Claimed, PackageUnusable, PackageReady,
            LeaseTimer, HostFails, HostAborted, PreflightOk, HostProgress, HostTerminal,
            PublishTerminal, HostReturns, Complete, Publish, Alone
      <4> QED
        BY <4>1, GuardSame DEF ExecInv
    <3>2. CASE KeyUnavailable(e)
      <4>1. RunOK(Gone("refused")) /\ Becomes(e, Gone("refused"))
        BY <3>2, GoneOK DEF KeyUnavailable, Alive, Silent, Hosted
      <4> QED
        BY <3>1, <4>1, BecomesOK DEF ExecInv
    <3> QED
      BY <1>3, <2>2, <3>1, <3>2, SubmitRuns, ClaimedRuns, PackageRuns, HostRuns, PublishRuns,
         CompleteRuns DEF ExecStep
  <2> QED
    BY <2>1, <2>2
<1>4. ASSUME Restart PROVE GuardInv' /\ RunsInv'
  <2>1. GuardInv /\ UNCHANGED <<guard, nonces, guardRead, claims>>
    BY <1>4 DEF Restart, ExecInv
  <2> QED
    BY <1>4, <2>1, RestartRuns, GuardSame
<1>5. ASSUME UNCHANGED execVars PROVE GuardInv' /\ RunsInv'
  <2>1. GuardInv /\ UNCHANGED <<guard, nonces, guardRead, claims, run>>
    BY <1>5 DEF execVars, ExecInv
  <2> QED
    BY <1>2, <2>1, GuardSame
<1> QED
  BY <1>1, <1>3, <1>4, <1>5 DEF ExecInv, ExecNext, vars

\* Every replay guard, whatever its capacity, lets each signed task through
\* once and the attempts of a task in their order: what the nonces, dropped and
\* kept, and the watermarks are for (claim() of runner-replay-guard.ts and
\* runner-durable-store.ts).
THEOREM EachTaskClaimedOnce == ExecSpec => []ClaimsSound
<1>1. ExecInv => ClaimsSound
  BY DEF ExecInv, GuardInv
<1> QED
  BY <1>1, ExecInitInv, ExecStepInv, PTL DEF ExecSpec

-----------------------------------------------------------------------------
\* Events with the same digest are the same event.
LEMMA SameDigest ==
  ASSUME NEW x, NEW y, IsEvent(x), IsEvent(y), x.digest = Body(x), y.digest = Body(y),
         x.digest = y.digest
  PROVE  x = y
<1>1. Body(x) = Body(y)
  OBVIOUS
<1>2. /\ x.task = y.task /\ x.sequence = y.sequence /\ x.type = y.type /\ x.at = y.at
      /\ x.previous = y.previous
  BY <1>1 DEF Body
<1> QED
  BY <1>2 DEF IsEvent

\* A chain is told by its length and its last digest: going back from its end,
\* each event is the one whose digest the next one names.
LEMMA SameChain ==
  ASSUME NEW s, NEW t, NEW i1, NEW i2, EventSeq(s), EventSeq(t),
         ChainVerifies(s, i1), ChainVerifies(t, i2),
         Len(t) = Len(s), LastDigest(t) = LastDigest(s)
  PROVE  t = s
<1>1. PICK n \in Nat : n = Len(s)
  BY LenProperties DEF EventSeq
<1>2. \A i \in 1..n : /\ IsEvent(s[i]) /\ s[i].digest = Body(s[i]) /\ s[i].previous = Before(s, i)
                      /\ IsEvent(t[i]) /\ t[i].digest = Body(t[i]) /\ t[i].previous = Before(t, i)
  BY SMTT(20), <1>1, BeforeIsLast DEF ChainVerifies, EventSeq
<1> DEFINE K == {k \in Nat : k < n => t[n - k] = s[n - k]}
<1>3. 0 \in K
  <2> SUFFICES ASSUME 0 < n PROVE t[n] = s[n]
    OBVIOUS
  <2>1. t[n].digest = s[n].digest
    BY <1>1, LastOf
  <2> QED
    BY <1>2, <2>1, SameDigest
<1>4. ASSUME NEW k \in Nat, k \in K PROVE k + 1 \in K
  <2> SUFFICES ASSUME k + 1 < n PROVE t[n - (k + 1)] = s[n - (k + 1)]
    OBVIOUS
  <2>1. PICK i \in 2..n : i = n - k
    OBVIOUS
  <2>2. t[i] = s[i] /\ n - (k + 1) = i - 1 /\ i - 1 \in 1..n
    BY <1>4, <2>1
  <2>3. Before(t, i) = Before(s, i)
    BY <1>2, <2>2
  <2>4. t[i - 1].digest = s[i - 1].digest
    BY <2>1, <2>3 DEF Before
  <2> QED
    BY <1>2, <2>2, <2>4, SameDigest
<1> HIDE DEF K
<1>5. Nat \subseteq K
  BY <1>3, <1>4, InductionOnNat
<1>6. ASSUME NEW i \in 1..n PROVE t[i] = s[i]
  <2>1. n - i \in Nat /\ n - i < n /\ n - (n - i) = i
    OBVIOUS
  <2>2. n - i \in K
    BY <1>5, <2>1
  <2> QED
    BY <2>1, <2>2 DEF K
<1> DEFINE S == Range(s) \cup Range(t)
<1>7. Range(s) \subseteq S /\ Range(t) \subseteq S
  OBVIOUS
<1> HIDE DEF S
<1>8. s \in Seq(S) /\ t \in Seq(S)
  BY <1>7, SeqMonotonic DEF EventSeq
<1> QED
  BY <1>1, <1>6, <1>8, SeqEqual

\* A sequence over events is a sequence of events.
LEMMA EventsOf ==
  ASSUME NEW S, \A ev \in S : IsEvent(ev), NEW t \in Seq(S)
  PROVE  EventSeq(t)
<1>1. t \in Seq(Range(t))
  BY SeqOfItsRange
<1>2. \A i \in 1..Len(t) : t[i] \in S
  BY ElementOfSeq
<1> QED
  BY <1>1, <1>2 DEF EventSeq

\* What a chain becomes on its way is still a sequence of events.
LEMMA StillEvents ==
  ASSUME NEW s, EventSeq(s), NEW t \in OnTheWay(s)
  PROVE  EventSeq(t)
<1> DEFINE S == Range(s)
<1> DEFINE changed(ev) ==
      {[ev EXCEPT !.type = type] : type \in {"completed", "failed"} \cup EventTypes}
      \cup {[ev EXCEPT !.at = at] : at \in 0..MaxClock}
<1>1. s \in Seq(S) /\ Len(s) \in Nat /\ DOMAIN s = 1..Len(s)
  BY LenProperties DEF EventSeq
<1>2. \A i \in 1..Len(s) : s[i] \in S
  BY <1>1, ElementOfSeq
<1>3. \A ev \in S : IsEvent(ev)
  BY <1>1 DEF EventSeq, Range
<1> HIDE DEF S
<1>4. ASSUME NEW i \in 1..Len(s), t = RemoveAt(s, i) PROVE EventSeq(t)
  <2>1. \A j \in 1..(i - 1) : s[j] \in S
    BY <1>1, <1>2
  <2>2. \A j \in (i + 1)..Len(s) : s[j] \in S
    BY <1>1, <1>2
  <2>3. SubSeq(s, 1, i - 1) \in Seq(S)
    BY <1>1, <2>1, SubSeqProperties, i - 1 \in Int
  <2>4. SubSeq(s, i + 1, Len(s)) \in Seq(S)
    BY <1>1, <2>2, SubSeqProperties, i + 1 \in Int
  <2>5. t \in Seq(S)
    BY <1>4, <2>3, <2>4, ConcatProperties DEF RemoveAt
  <2> QED
    BY <1>3, <2>5, EventsOf
<1>5. ASSUME NEW i \in 1..Len(s), t = InsertAt(s, i, s[i]) PROVE EventSeq(t)
  <2>1. \A j \in 1..(i - 1) : s[j] \in S
    BY <1>1, <1>2
  <2>2. \A j \in i..Len(s) : s[j] \in S
    BY <1>1, <1>2
  <2>3. SubSeq(s, 1, i - 1) \in Seq(S)
    BY <1>1, <2>1, SubSeqProperties, i - 1 \in Int
  <2>4. SubSeq(s, i, Len(s)) \in Seq(S)
    BY <1>1, <2>2, SubSeqProperties
  <2>5. SubSeq(s, 1, i - 1) \o <<s[i]>> \in Seq(S)
    BY <1>2, <2>3, ConcatProperties
  <2>6. t \in Seq(S)
    BY <1>5, <2>4, <2>5, ConcatProperties DEF InsertAt
  <2> QED
    BY <1>3, <2>6, EventsOf
<1>6. ASSUME NEW i \in 1..Len(s), NEW k \in 1..Len(s),
             t = [s EXCEPT ![i] = s[k], ![k] = s[i]]
      PROVE  EventSeq(t)
  <2>1. PICK u : u = [s EXCEPT ![i] = s[k]]
    OBVIOUS
  <2>2. u \in Seq(S) /\ Len(u) = Len(s)
    BY <1>1, <1>2, <2>1, ExceptSeq
  <2>3. t = [u EXCEPT ![k] = s[i]]
    BY <1>6, <2>1
  <2>4. t \in Seq(S)
    BY <1>2, <2>2, <2>3, ExceptSeq
  <2> QED
    BY <1>3, <2>4, EventsOf
<1>7. ASSUME NEW ev, IsEvent(ev), NEW x \in changed(ev) PROVE IsEvent(x) /\ IsEvent(Sealed(x))
  <2>1. IsEvent(Sealed(x))
    BY DEF Sealed, IsEvent, Body
  <2>2. CASE \E y : x = [ev EXCEPT !.type = y]
    BY <1>7, <2>1, <2>2 DEF IsEvent
  <2>3. CASE \E y : x = [ev EXCEPT !.at = y]
    BY <1>7, <2>1, <2>3 DEF IsEvent
  <2> QED
    BY <1>7, <2>2, <2>3
<1>8. ASSUME NEW i \in 1..Len(s), NEW x \in changed(s[i]),
             t = [s EXCEPT ![i] = x] \/ t = [s EXCEPT ![i] = Sealed(x)]
      PROVE  EventSeq(t)
  <2>1. PICK y : t = [s EXCEPT ![i] = y] /\ IsEvent(y)
    BY <1>2, <1>3, <1>7, <1>8
  <2> DEFINE S2 == S \cup {y}
  <2>2. s \in Seq(S2) /\ y \in S2 /\ \A ev \in S2 : IsEvent(ev)
    BY <1>1, <1>3, <2>1, SeqMonotonic
  <2> HIDE DEF S2
  <2>3. t \in Seq(S2)
    BY <2>1, <2>2, ExceptSeq
  <2> QED
    BY <2>2, <2>3, EventsOf
<1> DEFINE at == 1..Len(s)
           put(i, X) == {[s EXCEPT ![i] = x] : x \in X}
           P1 == {RemoveAt(s, i) : i \in at}
           P2 == {InsertAt(s, i, s[i]) : i \in at}
           P3 == {[s EXCEPT ![i] = s[k], ![k] = s[i]] : i, k \in at}
           P4 == UNION {put(i, changed(s[i]) \cup {Sealed(x) : x \in changed(s[i])}) : i \in at}
<1>9. OnTheWay(s) = P1 \cup P2 \cup P3 \cup P4
  BY DEF OnTheWay
<1> HIDE DEF changed
<1>10. CASE t \in P1 \cup P2
  BY <1>4, <1>5, <1>10
<1>11. CASE t \in P3
  BY <1>6, <1>11
<1>12. CASE t \in P4
  <2>1. PICK i \in at : t \in put(i, changed(s[i]) \cup {Sealed(x) : x \in changed(s[i])})
    BY <1>12
  <2> QED
    BY <1>8, <2>1
<1> HIDE DEF P1, P2, P3, P4
<1> QED
  BY <1>9, <1>10, <1>11, <1>12

\* What the platform accepts with the receipt of a bundle is the bundle.
LEMMA OnlyTheWholeChain ==
  ASSUME NEW b, BundleOK(b)
  PROVE  /\ \A events \in OnTheWay(b.events) \ {b.events} :
              ~BundleVerifies([b EXCEPT !.events = events])
         /\ \A t \in SignedTasks :
              BundleVerifies([b EXCEPT !.task = t]) => TaskIdentity(t) = TaskIdentity(b.task)
<1>1. /\ b = [task |-> b.task, leaseExpiry |-> b.leaseExpiry, events |-> b.events,
              receipt |-> b.receipt]
      /\ b.receipt.task = TaskIdentity(b.task) /\ EventSeq(b.events) /\ BundleVerifies(b)
  BY DEF BundleOK, Chain
<1>2. ASSUME NEW t \in OnTheWay(b.events), BundleVerifies([b EXCEPT !.events = t])
      PROVE  t = b.events
  <2>1. PICK c : c = [b EXCEPT !.events = t]
    OBVIOUS
  <2>2. c.events = t /\ c.receipt = b.receipt
    BY <1>1, <2>1
  <2>3. /\ ChainVerifies(t, TaskIdentity(c.task)) /\ b.receipt.eventCount = Len(t)
        /\ b.receipt.finalDigest = LastDigest(t)
    BY <1>2, <2>1, <2>2 DEF BundleVerifies
  <2>4. /\ ChainVerifies(b.events, TaskIdentity(b.task)) /\ b.receipt.eventCount = Len(b.events)
        /\ b.receipt.finalDigest = LastDigest(b.events)
    BY <1>1 DEF BundleVerifies
  <2> QED
    BY <1>1, <2>3, <2>4, StillEvents, SameChain
<1>3. ASSUME NEW t \in SignedTasks, BundleVerifies([b EXCEPT !.task = t])
      PROVE  TaskIdentity(t) = TaskIdentity(b.task)
  <2>1. PICK c : c = [b EXCEPT !.task = t]
    OBVIOUS
  <2>2. c.task = t /\ c.receipt = b.receipt
    BY <1>1, <2>1
  <2>3. c.receipt.task = TaskIdentity(c.task)
    BY <1>3, <2>1 DEF BundleVerifies
  <2> QED
    BY <1>1, <2>2, <2>3
<1> QED
  BY <1>2, <1>3

\* Whatever became of the lease, the clock and the host, the platform accepts
\* what an execution returns, a completed receipt tells of a completed run, and
\* no other chain and no other task passes with that receipt (appendEvent and
\* the receipt of runner-executor.ts against bindRunnerExecutionBundle).
THEOREM BundlesAreGenuine == ExecSpec => []BundlesGenuine
<1>1. ExecInv => BundlesGenuine
  <2> SUFFICES ASSUME ExecInv, NEW b \in Receipts
               PROVE  /\ BundleVerifies(b)
                      /\ b.receipt.status = "completed" =>
                           LET n == Len(b.events)
                           IN  /\ n > 0 /\ b.events[n].type = "completed"
                               /\ b.events[n].at < b.leaseExpiry - margin
                               /\ \A i \in 1..(n - 1) : b.events[i].type \in EventTypes
                      /\ \A events \in OnTheWay(b.events) \ {b.events} :
                           ~BundleVerifies([b EXCEPT !.events = events])
                      /\ \A t \in SignedTasks :
                           BundleVerifies([b EXCEPT !.task = t])
                             => TaskIdentity(t) = TaskIdentity(b.task)
    BY DEF BundlesGenuine, ReturnedBundlesVerify, CompletedIsGenuine, OnlyWholeChainsVerify
  <2>1. BundleOK(b)
    BY DEF Receipts, ExecInv, RunsInv, RunOK
  <2>2. BundleVerifies(b) /\ Genuine(b)
    BY <2>1 DEF BundleOK
  <2> QED
    BY <2>1, <2>2, OnlyTheWholeChain DEF Genuine, EndsWith, Reported
<1> QED
  BY <1>1, ExecInitInv, ExecStepInv, PTL DEF ExecSpec
=============================================================================
