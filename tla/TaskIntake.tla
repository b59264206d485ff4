------------------------------ MODULE TaskIntake ------------------------------
(***************************************************************************)
(* TaskIntakeGate (packages/core/src/task-intake-approval.ts): a runner's  *)
(* gate before a task is launched.  The owner's decision races the intake  *)
(* timeout, which is cut short by the lease of the task; whoever watches   *)
(* the gate drains its events in batches.                                  *)
(***************************************************************************)
EXTENDS Integers, Sequences, FiniteSets

CONSTANTS
  IntakeTasks,
  leaseExpiresAt,        \* per task, as its request says it
  timeout,               \* policy.timeoutMs, or its default
  MaxIntakeNow           \* bound: clock readings

ASSUME IntakeAssumption ==
  /\ IsFiniteSet(IntakeTasks)
  /\ leaseExpiresAt \in [IntakeTasks -> Nat]
  /\ timeout \in Nat \ {0} /\ MaxIntakeNow \in Nat

VARIABLES
  requireOwnerApproval,  \* policy, fixed for the life of the gate
  intakeNow,
  record,   \* records: per task [state, expiresAt, decidedAt], or NoRecord
  events,   \* events: the state changes not yet drained
  drained   \* history: the events drained so far, in the order of the calls

intakeVars == <<requireOwnerApproval, intakeNow, record, events, drained>>

NoRecord == [state |-> "none", expiresAt |-> 0, decidedAt |-> 0]

----------------------------------------------------------------------------
Change(t, from, to) == [task |-> t, previousState |-> from, newState |-> to]
Event(t, from, to) == events' = Append(events, Change(t, from, to))

\* The earlier of the policy timeout and the end of the lease.
ExpiryPolicyOnly(t) == intakeNow + timeout
Expiry(t) ==
  IF intakeNow + timeout < leaseExpiresAt[t] THEN intakeNow + timeout ELSE leaseExpiresAt[t]

IsDue(t) == record[t].state = "pending" /\ intakeNow >= record[t].expiresAt

\* canLaunch.
CanLaunch(t) == record[t].state \in {"approved", "auto_accepted"}

IntakeInit ==
  /\ requireOwnerApproval \in BOOLEAN
  /\ intakeNow = 0
  /\ record = [t \in IntakeTasks |-> NoRecord]
  /\ events = <<>> /\ drained = <<>>

\* submit: a task is taken once.
Submit(t) ==
  LET initial == IF requireOwnerApproval THEN "pending" ELSE "auto_accepted"
  IN  /\ record[t] = NoRecord
      /\ record' = [record EXCEPT ![t] =
           [state |-> initial, expiresAt |-> Expiry(t), decidedAt |-> intakeNow]]
      /\ Event(t, "none", initial)
      /\ UNCHANGED <<requireOwnerApproval, intakeNow, drained>>

\* decide on a task that is no longer pending throws; past the expiry it
\* expires the task and throws, before that it takes the owner's word.
Decide(t, approved) ==
  LET to == IF IsDue(t) THEN "expired" ELSE IF approved THEN "approved" ELSE "declined"
  IN  /\ record[t].state = "pending"
      /\ record' = [record EXCEPT ![t].state = to, ![t].decidedAt = intakeNow]
      /\ Event(t, "pending", to)
      /\ UNCHANGED <<requireOwnerApproval, intakeNow, drained>>

\* expirePending: all due records at once, in the order of the map (any order
\* here).
Orders(S) ==
  {o \in [1..Cardinality(S) -> S] :
     /\ \A i, j \in DOMAIN o : o[i] = o[j] => i = j
     /\ \A t \in S : \E i \in DOMAIN o : o[i] = t}
ExpirePending ==
  LET due == {t \in IntakeTasks : IsDue(t)}
  IN  /\ due # {}
      /\ record' = [t \in IntakeTasks |->
                      IF t \in due
                        THEN [record[t] EXCEPT !.state = "expired", !.decidedAt = intakeNow]
                        ELSE record[t]]
      /\ \E o \in Orders(due) :
           events' = events \o [i \in DOMAIN o |-> Change(o[i], "pending", "expired")]
      /\ UNCHANGED <<requireOwnerApproval, intakeNow, drained>>

DrainEvents ==
  /\ events # <<>>
  /\ drained' = drained \o events /\ events' = <<>>
  /\ UNCHANGED <<requireOwnerApproval, intakeNow, record>>

IntakeTick ==
  /\ intakeNow < MaxIntakeNow
  /\ intakeNow' = intakeNow + 1 /\ UNCHANGED <<requireOwnerApproval, record, events, drained>>

IntakeNext ==
  \/ \E t \in IntakeTasks : Submit(t) \/ \E approved \in BOOLEAN : Decide(t, approved)
  \/ ExpirePending \/ DrainEvents \/ IntakeTick

IntakeSpec == IntakeInit /\ [][IntakeNext]_intakeVars

----------------------------------------------------------------------------
\* A task that may be launched where the policy asks for the owner was approved
\* by the owner while the lease it was offered under still ran, and within the
\* time the policy grants.
ApprovedInTime ==
  \A t \in IntakeTasks : requireOwnerApproval /\ CanLaunch(t) =>
    /\ record[t].state = "approved"
    /\ record[t].decidedAt < leaseExpiresAt[t]
    /\ record[t].decidedAt < record[t].expiresAt

\* What is drained, followed by what is still held, and where it speaks of a task.
EventLog == drained \o events
Told(t) == {i \in DOMAIN EventLog : EventLog[i].task = t}

\* The events tell each task's life as an unbroken path from its submission to
\* its present state.
EventsTellTheState ==
  \A t \in IntakeTasks :
    /\ (Told(t) = {}) = (record[t] = NoRecord)
    /\ \A i \in Told(t) :
         /\ (\A j \in Told(t) : j >= i) => EventLog[i].previousState = "none"
         /\ (\A j \in Told(t) : j <= i) => EventLog[i].newState = record[t].state
         /\ \A j \in Told(t) :
              i < j /\ (\A k \in Told(t) : k <= i \/ k >= j)
                => EventLog[i].newState = EventLog[j].previousState

\* Approved, declined and expired are final: a decision that lost the race to
\* the timeout, or a second decision, changes nothing.
DecidedIsFinal ==
  [][\A t \in IntakeTasks :
       record[t].state \notin {"none", "pending"} => record'[t] = record[t]]_intakeVars

\* A launch has an owner's approval that came in time and was never undone, and
\* the events tell how it came about (task-intake-approval.ts).
IntakeSound == [](ApprovedInTime /\ EventsTellTheState) /\ DecidedIsFinal
=============================================================================
