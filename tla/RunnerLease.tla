----------------------------- MODULE RunnerLease -----------------------------
(***************************************************************************)
(* RunnerLeaseState (packages/core/src/runner-lease.ts): the verified lease *)
(* of one platform-signed task, renewed by heartbeat responses whose        *)
(* verification is asynchronous, and expired by a timer.  The wall clock    *)
(* the code reads may step back; its reader then refuses to answer.  Timers *)
(* run on elapsed time, which never does.                                  *)
(***************************************************************************)
EXTENDS Integers, FiniteSets

CONSTANTS
  Envelopes,      \* signed envelopes of renewals: [id, own, expiry]
  Heartbeats,     \* renewal calls that can be in flight at once
  taskExpiresAt,  \* expiresAt of the task: signed, the same in every envelope
  margin,         \* RUNNER_LEASE_SAFETY_MARGIN_MS
  maxTimerDelay,  \* MAX_TIMER_DELAY_MS
  MaxClock,       \* bound: clock readings
  MaxStepsBack    \* bound: how often the wall clock steps back

\* What verifiedTask lets through: the lease ends no later than the task.
VerifiedTask(e) == e.expiry \in Nat /\ e.own \in BOOLEAN /\ e.expiry <= taskExpiresAt

ASSUME LeaseAssumption ==
  /\ \A e \in Envelopes : VerifiedTask(e)
  /\ taskExpiresAt \in Nat /\ margin \in Nat \ {0} /\ maxTimerDelay \in Nat \ {0}
  /\ MaxClock \in Nat /\ MaxStepsBack \in Nat

VARIABLES
  elapsed, wall, stepsBack,
  envelope,   \* #envelope (and #task, which differs from it in the expiry only)
  closed,     \* #closed
  aborted,    \* whether #controller has aborted
  timer,      \* elapsed time at which #timer fires, NoTimer or DeadTimer
  lastRead,   \* `previous` of capturedClock
  renewal     \* per heartbeat: the envelope being verified, or NoEnvelope

clockVars == <<elapsed, wall, stepsBack>>
leaseVars == <<envelope, closed, aborted, timer, lastRead, renewal>>

\* DeadTimer: #timer holds a timer that was cleared and never armed again.
NoTimer == -1
DeadTimer == -2
NoEnvelope == [id |-> "none", own |-> FALSE, expiry |-> 0]

----------------------------------------------------------------------------
\* capturedClock: a reading before the previous one throws.
ClockOk == wall >= lastRead

Deadline == envelope.expiry - margin
IsOpen == ~closed /\ ~aborted

\* The expiry test of assertActive.
PastDeadline == wall >= Deadline \/ wall >= taskExpiresAt

\* assertActive returns normally; IsExpiring: it aborts the signal and throws.
IsActive == IsOpen /\ ClockOk /\ ~PastDeadline
IsExpiring == IsOpen /\ ClockOk /\ PastDeadline

\* Some handlers read the clock more than once: what it can show (external)
\* when it is read again, it having shown c before.
Clock == [elapsed |-> elapsed, wall |-> wall, stepsBack |-> stepsBack]
ReadAgain(c) ==
  {d \in {c, [elapsed |-> c.elapsed + 1, wall |-> c.wall + 1, stepsBack |-> c.stepsBack],
              [elapsed |-> c.elapsed, wall |-> c.wall - 1, stepsBack |-> c.stepsBack + 1]} :
     d.wall \in 0..MaxClock /\ d.stepsBack <= MaxStepsBack}
ClockShows(c) == elapsed' = c.elapsed /\ wall' = c.wall /\ stepsBack' = c.stepsBack

\* #expire.
Expire == aborted' = TRUE /\ timer' = NoTimer

\* The timer #scheduleExpiry arms for an open lease of expiry e, when the clock
\* shows c.  In the variant it is armed for the instant the lease itself ends.
ArmedLate(e, c) ==
  LET remaining == e - c.wall
  IN  c.elapsed + (IF remaining < maxTimerDelay THEN remaining ELSE maxTimerDelay)
Armed(e, c) ==
  LET remaining == e - margin - c.wall
  IN  c.elapsed + (IF remaining < maxTimerDelay THEN remaining ELSE maxTimerDelay)

\* #scheduleExpiry, when the clock it reads shows c and does not throw.
Schedule(e, c) ==
  \/ c.wall >= e - margin /\ Expire
  \/ c.wall < e - margin /\ timer' = Armed(e, c) /\ UNCHANGED aborted

----------------------------------------------------------------------------
\* create(), called at time 0: the verified initial envelope is accepted before
\* its deadline, and the constructor reads the clock again.
LeaseInit ==
  /\ wall \in {w \in {0, 1} : w <= MaxClock} /\ elapsed = wall /\ stepsBack = 0
  /\ envelope \in {e \in Envelopes : e.own /\ 0 < e.expiry - margin}
  /\ 0 < taskExpiresAt
  /\ closed = FALSE
  /\ aborted \in BOOLEAN /\ (aborted <=> wall >= Deadline)
  /\ timer = IF aborted THEN NoTimer ELSE Armed(envelope.expiry, Clock)
  /\ lastRead = wall
  /\ renewal = [h \in Heartbeats |-> NoEnvelope]

\* assertActive called by a user of the lease, whatever its result.
AssertActive ==
  /\ lastRead' = IF IsOpen /\ ClockOk THEN wall ELSE lastRead
  /\ \/ IsExpiring /\ Expire
     \/ ~IsExpiring /\ UNCHANGED <<aborted, timer>>
  /\ UNCHANGED <<envelope, closed, renewal>>

\* acceptRenewal up to the key lookup it awaits.
RenewBegins(h, e) ==
  /\ renewal[h] = NoEnvelope
  /\ lastRead' = IF IsOpen /\ ClockOk THEN wall ELSE lastRead
  /\ \/ /\ IsActive
        /\ renewal' = [renewal EXCEPT ![h] = e]
        /\ UNCHANGED <<aborted, timer>>
     \/ IsExpiring /\ Expire /\ UNCHANGED renewal
     \/ ~IsActive /\ ~IsExpiring /\ UNCHANGED <<renewal, aborted, timer>>
  /\ UNCHANGED <<envelope, closed>>

\* The renewal is for the own task and for longer, and still worth having when
\* the clock shows c.
Extends(e) == e.own /\ e.expiry > envelope.expiry
WorthHaving(e, c) == e.expiry > c.wall + margin

\* acceptRenewal after the lookup: the key may be unavailable or the signature
\* wrong (the call ends), otherwise the second assertActive and the rest.
RenewFails(h) ==
  /\ renewal[h] # NoEnvelope
  /\ renewal' = [renewal EXCEPT ![h] = NoEnvelope]
  /\ UNCHANGED <<envelope, closed, aborted, timer, lastRead>>

\* The rest of acceptRenewal, the second assertActive having succeeded: the
\* clock is read for the expiry of the renewal and then, task and envelope
\* replaced and the timer cleared, by #scheduleExpiry.  A clock set back in
\* between makes that throw and leaves the lease open without a timer.
TakeOver(e) ==
  \E c \in ReadAgain(Clock) :
    \/ /\ c.wall < wall \/ ~WorthHaving(e, c)
       /\ ClockShows(c)
       /\ lastRead' = IF c.wall >= wall THEN c.wall ELSE wall
       /\ UNCHANGED <<envelope, timer, aborted>>
    \/ /\ c.wall >= wall /\ WorthHaving(e, c)
       /\ envelope' = e
       /\ \E d \in ReadAgain(c) :
            /\ ClockShows(d)
            /\ \/ d.wall < c.wall /\ timer' = DeadTimer /\ lastRead' = c.wall
                  /\ UNCHANGED aborted
               \/ d.wall >= c.wall /\ Schedule(e.expiry, d) /\ lastRead' = d.wall

\* The variant trusts the check made before the await.
RenewEndsUnchecked(h) ==
  /\ renewal[h] # NoEnvelope
  /\ renewal' = [renewal EXCEPT ![h] = NoEnvelope]
  /\ Extends(renewal[h]) /\ TakeOver(renewal[h])
  /\ UNCHANGED closed

RenewEnds(h) ==
  /\ renewal[h] # NoEnvelope
  /\ renewal' = [renewal EXCEPT ![h] = NoEnvelope]
  /\ \/ IsActive /\ Extends(renewal[h]) /\ TakeOver(renewal[h])
     \/ /\ ~IsActive \/ ~Extends(renewal[h])
        /\ lastRead' = IF IsOpen /\ ClockOk THEN wall ELSE lastRead
        /\ IF IsExpiring THEN Expire ELSE UNCHANGED <<timer, aborted>>
        /\ UNCHANGED <<envelope, clockVars>>
  /\ UNCHANGED closed

CloseLease ==
  /\ closed' = TRUE /\ aborted' = TRUE /\ timer' = NoTimer
  /\ UNCHANGED <<envelope, lastRead, renewal>>

\* The timer callback: expire, or have #scheduleExpiry read the clock again
\* and re-arm when the delay was capped or the timer early; here a clock that
\* cannot be read expires the lease.
\* The variant does nothing when the deadline is not reached.
TimerFiresOnce ==
  /\ timer >= 0 /\ elapsed >= timer
  /\ lastRead' = IF ClockOk THEN wall ELSE lastRead
  /\ \/ (ClockOk => wall >= Deadline) /\ Expire
     \/ ClockOk /\ wall < Deadline /\ timer' = NoTimer /\ UNCHANGED aborted
  /\ UNCHANGED <<envelope, closed, renewal, clockVars>>

TimerFires ==
  /\ timer >= 0 /\ elapsed >= timer
  /\ \/ /\ ClockOk => wall >= Deadline
        /\ Expire
        /\ lastRead' = IF ClockOk THEN wall ELSE lastRead
        /\ UNCHANGED clockVars
     \/ /\ ClockOk /\ wall < Deadline
        /\ \E c \in ReadAgain(Clock) :
             /\ ClockShows(c)
             /\ \/ c.wall < wall /\ Expire /\ lastRead' = wall
                \/ c.wall >= wall /\ Schedule(envelope.expiry, c) /\ lastRead' = c.wall
  /\ UNCHANGED <<envelope, closed, renewal>>

\* The clocks (external).
TimePasses ==
  /\ wall < MaxClock
  /\ elapsed' = elapsed + 1 /\ wall' = wall + 1 /\ UNCHANGED stepsBack

StepBack ==
  /\ wall > 0 /\ stepsBack < MaxStepsBack
  /\ wall' = wall - 1 /\ stepsBack' = stepsBack + 1 /\ UNCHANGED elapsed

\* What happens to a lease by itself: the heartbeat loop and the timer.
LeaseStep ==
  \/ /\ \/ \E h \in Heartbeats, e \in Envelopes : RenewBegins(h, e)
        \/ \E h \in Heartbeats : RenewFails(h)
        \/ CloseLease
     /\ UNCHANGED clockVars
  \/ \E h \in Heartbeats : RenewEnds(h)
  \/ TimerFires

LeaseNext ==
  \/ LeaseStep
  \/ AssertActive /\ UNCHANGED clockVars
  \/ (TimePasses \/ StepBack) /\ UNCHANGED leaseVars

LeaseSpec == LeaseInit /\ [][LeaseNext]_<<clockVars, leaseVars>>

\* Due timers are served.
LeaseFairness == WF_<<clockVars, leaseVars>>(TimerFires)

FairLeaseSpec == LeaseSpec /\ LeaseFairness

----------------------------------------------------------------------------
LeaseTypeOK ==
  /\ elapsed \in Nat /\ wall \in 0..MaxClock /\ stepsBack \in 0..MaxStepsBack
  /\ envelope \in Envelopes
  /\ closed \in BOOLEAN /\ aborted \in BOOLEAN
  /\ timer \in Nat \cup {NoTimer, DeadTimer}
  /\ lastRead \in Nat
  /\ renewal \in [Heartbeats -> Envelopes \cup {NoEnvelope}]

\* While a lease is open its timer fires no later than the deadline of the
\* envelope in force, whatever renewals, capped delays and clock steps came
\* before -- unless the clock was set back between the two readings a renewal
\* ends with: that lease is open and nothing will abort it.
TimerCoversDeadline ==
  IsOpen => \/ timer \in Nat /\ timer - elapsed <= Deadline - wall
            \/ timer = DeadTimer /\ stepsBack > 0

\* A lease that was aborted or closed never comes back: no renewal that was
\* under way replaces its envelope ("An expired grant can never be resurrected
\* by a delayed heartbeat response", runner-lease.ts:259).
NoResurrection ==
  [][~IsOpen => ~IsOpen' /\ UNCHANGED <<envelope, timer>>]_<<clockVars, leaseVars>>

\* Concurrent heartbeats answered in any order never shorten the lease.
ExpiryMonotone == [][envelope'.expiry >= envelope.expiry]_<<clockVars, leaseVars>>

\* A lease only goes forward: to its end, and to a later expiry until then.
LeaseGoesForward == NoResurrection /\ ExpiryMonotone

\* A lease whose deadline has passed is aborted even if nobody asks for it,
\* unless a clock set back during its renewal has left it without a timer.
DeadlineAborts == []<>(~IsOpen \/ wall < Deadline \/ timer = DeadTimer)
=============================================================================
