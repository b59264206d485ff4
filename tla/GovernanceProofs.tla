--------------------------- MODULE GovernanceProofs ---------------------------
(***************************************************************************)
(* The two approval gates, for every set of tasks, leases, previews and    *)
(* writes: the intake gate launches nothing late or undone and its events  *)
(* tell how it came about; the write engine executes nothing but what a    *)
(* reviewer approved.                                                      *)
(***************************************************************************)
EXTENDS TaskIntake, WriteApproval, RecallPorts, Organisation, SetInduction, SequenceTheorems

RecordStates == {"none", "pending", "approved", "declined", "expired", "auto_accepted"}
TaskRecords == [state : RecordStates, expiresAt : Nat, decidedAt : Nat]
RecordChanges == [task : IntakeTasks, previousState : RecordStates, newState : RecordStates]

IntakeTypeOK ==
  /\ requireOwnerApproval \in BOOLEAN /\ intakeNow \in Nat
  /\ record \in [IntakeTasks -> TaskRecords]
  /\ events \in Seq(RecordChanges) /\ drained \in Seq(RecordChanges)

\* A record is there from its submission on and never outlives its lease; what
\* the owner approved was decided before it expired, and a gate that asks the
\* owner accepts nothing by itself.
RecordsInTime ==
  \A t \in IntakeTasks :
    /\ (record[t].state = "none") = (record[t] = NoRecord)
    /\ record[t] # NoRecord => record[t].expiresAt <= leaseExpiresAt[t]
    /\ record[t].state = "approved" => record[t].decidedAt < record[t].expiresAt
    /\ record[t].state = "auto_accepted" => ~requireOwnerApproval

IntakeInv == IntakeTypeOK /\ RecordsInTime /\ EventsTellTheState

\* An event log that grows by `news`: each task it speaks of at most once, as
\* a change from its state before the step to its state after it, and exactly
\* the tasks whose record the step touches.
Tells(news) ==
  /\ news \in Seq(RecordChanges)
  /\ \A i, j \in DOMAIN news : news[i].task = news[j].task => i = j
  /\ \A i \in DOMAIN news :
       /\ news[i].previousState = record[news[i].task].state
       /\ news[i].newState = record'[news[i].task].state
       /\ record'[news[i].task] # NoRecord
  /\ \A t \in IntakeTasks :
       (\A i \in DOMAIN news : news[i].task # t) => record'[t] = record[t]

\* The bounds of the intake gate's constants.
LEMMA IntakeFacts ==
  /\ leaseExpiresAt \in [IntakeTasks -> Nat] /\ timeout \in Nat /\ IsFiniteSet(IntakeTasks)
BY IntakeAssumption

\* Whatever tells the changes keeps the story unbroken.
LEMMA LogGrows ==
  ASSUME IntakeInv, NEW news, Tells(news), EventLog' = EventLog \o news,
         record' \in [IntakeTasks -> TaskRecords]
  PROVE  EventsTellTheState'
<1> DEFINE n == Len(EventLog)
<1>1. EventLog \in Seq(RecordChanges) /\ news \in Seq(RecordChanges) /\ n \in Nat
  BY DEF IntakeInv, IntakeTypeOK, EventLog, Tells
<1>2. /\ EventLog' \in Seq(RecordChanges) /\ Len(EventLog') = n + Len(news)
      /\ DOMAIN EventLog = 1..n /\ DOMAIN news = 1..Len(news)
      /\ DOMAIN EventLog' = 1..(n + Len(news))
      /\ \A i \in 1..n : EventLog'[i] = EventLog[i]
      /\ \A i \in 1..(n + Len(news)) : i > n => EventLog'[i] = news[i - n]
  BY <1>1
<1>3. ASSUME NEW t \in IntakeTasks
      PROVE  /\ (Told(t)' = {}) = (record'[t] = NoRecord)
             /\ \A i \in Told(t)' :
                  /\ (\A j \in Told(t)' : j >= i) => EventLog'[i].previousState = "none"
                  /\ (\A j \in Told(t)' : j <= i) => EventLog'[i].newState = record'[t].state
                  /\ \A j \in Told(t)' :
                       i < j /\ (\A k \in Told(t)' : k <= i \/ k >= j)
                         => EventLog'[i].newState = EventLog'[j].previousState
  <2>0. /\ Told(t) \subseteq 1..n /\ Told(t) = {i \in 1..n : EventLog[i].task = t}
        /\ Told(t)' = {i \in 1..(n + Len(news)) : EventLog'[i].task = t}
    BY <1>2 DEF Told
  <2>a. /\ (Told(t) = {}) = (record[t] = NoRecord)
        /\ \A i \in Told(t) :
             /\ (\A j \in Told(t) : j >= i) => EventLog[i].previousState = "none"
             /\ (\A j \in Told(t) : j <= i) => EventLog[i].newState = record[t].state
             /\ \A j \in Told(t) :
                  i < j /\ (\A k \in Told(t) : k <= i \/ k >= j)
                    => EventLog[i].newState = EventLog[j].previousState
    BY DEF IntakeInv, EventsTellTheState
  <2>1. CASE \A i \in DOMAIN news : news[i].task # t
    <3>1. Told(t)' = Told(t)
      <4>1. ASSUME NEW i \in 1..(n + Len(news)), i > n PROVE EventLog'[i].task # t
        <5>1. i - n \in DOMAIN news
          BY <1>1, <1>2, <4>1
        <5> QED
          BY <5>1, <4>1, <1>2, <2>1
      <4>2. 1..n \subseteq 1..(n + Len(news))
        BY <1>1
      <4> QED
        BY <2>0, <4>1, <4>2, <1>2
    <3>2. record'[t] = record[t]
      BY <2>1 DEF Tells
    <3>3. \A i \in Told(t) : EventLog'[i] = EventLog[i]
      BY <1>2, <2>0
    <3>4. (Told(t)' = {}) = (record'[t] = NoRecord)
      BY <3>1, <3>2, <2>a
    <3>5. ASSUME NEW i \in Told(t)'
          PROVE  /\ (\A j \in Told(t)' : j >= i) => EventLog'[i].previousState = "none"
                 /\ (\A j \in Told(t)' : j <= i) => EventLog'[i].newState = record'[t].state
                 /\ \A j \in Told(t)' :
                      i < j /\ (\A k \in Told(t)' : k <= i \/ k >= j)
                        => EventLog'[i].newState = EventLog'[j].previousState
      <4>1. i \in Told(t) /\ EventLog'[i] = EventLog[i]
        BY <3>1, <3>3, <3>5
      <4>2. (\A j \in Told(t)' : j >= i) => EventLog'[i].previousState = "none"
        BY <4>1, <3>1, <2>a
      <4>3. (\A j \in Told(t)' : j <= i) => EventLog'[i].newState = record'[t].state
        BY <4>1, <3>1, <3>2, <2>a
      <4>4. ASSUME NEW j \in Told(t)', i < j, \A k \in Told(t)' : k <= i \/ k >= j
            PROVE  EventLog'[i].newState = EventLog'[j].previousState
        <5>1. j \in Told(t) /\ EventLog'[j] = EventLog[j]
          BY <3>1, <3>3, <4>4
        <5>2. \A k \in Told(t) : k <= i \/ k >= j
          BY <3>1, <4>4
        <5> QED
          BY <4>1, <4>4, <5>1, <5>2, <2>a
      <4> QED
        BY <4>2, <4>3, <4>4
    <3> QED
      BY <3>4, <3>5
  <2>2. CASE \E i \in DOMAIN news : news[i].task = t
    <3>1. PICK m \in DOMAIN news : news[m].task = t
      BY <2>2
    <3>2. \A i \in DOMAIN news : news[i].task = t => i = m
      BY <3>1 DEF Tells
    <3>3. /\ news[m].previousState = record[t].state
          /\ news[m].newState = record'[t].state /\ record'[t] # NoRecord
      BY <3>1 DEF Tells
    <3>4. n + m \in 1..(n + Len(news)) /\ n + m > n /\ EventLog'[n + m] = news[m]
      BY <1>1, <1>2, <3>1
    <3>5. Told(t)' = Told(t) \cup {n + m}
      <4>1. ASSUME NEW i \in 1..(n + Len(news)), i > n, EventLog'[i].task = t PROVE i = n + m
        <5>1. i - n \in DOMAIN news /\ EventLog'[i] = news[i - n]
          BY <1>1, <1>2, <4>1
        <5>2. i - n = m
          BY <5>1, <4>1, <3>2
        <5> QED
          BY <5>2, <1>1, <1>2, <4>1
      <4>2. \A i \in 1..n : i \in 1..(n + Len(news)) /\ ~(i > n)
        BY <1>1
      <4>3. \A i \in 1..(n + Len(news)) : ~(i > n) => i \in 1..n
        BY <1>1
      <4>4. n + m \in Told(t)'
        BY <2>0, <3>4, <3>1
      <4> QED
        BY <2>0, <4>1, <4>2, <4>3, <4>4, <1>2
    <3>6. \A i \in Told(t) : EventLog'[i] = EventLog[i] /\ i < n + m /\ i \in Nat
      BY <1>1, <1>2, <2>0, <3>4
    <3>7. n + m \in Nat
      BY <3>4, <1>1
    <3>9. Told(t)' # {} /\ record'[t] # NoRecord
      BY <3>5, <3>3
    <3>10. ASSUME NEW i \in Told(t)', \A j \in Told(t)' : j >= i
           PROVE  EventLog'[i].previousState = "none"
      <4>1. CASE i \in Told(t)
        BY <4>1, <3>10, <3>5, <3>6, <2>a
      <4>2. CASE i \notin Told(t)
        <5>1. i = n + m
          BY <4>2, <3>5
        <5>2. Told(t) = {}
          BY <5>1, <3>10, <3>5, <3>6, <3>7
        <5>3. record[t].state = "none"
          BY <5>2, <2>a DEF NoRecord
        <5> QED
          BY <5>1, <5>3, <3>3, <3>4
      <4> QED
        BY <4>1, <4>2
    <3>11. ASSUME NEW i \in Told(t)', \A j \in Told(t)' : j <= i
           PROVE  EventLog'[i].newState = record'[t].state
      <4>1. i = n + m
        BY <3>5, <3>6, <3>7, <3>11
      <4> QED
        BY <4>1, <3>3, <3>4
    <3>12. ASSUME NEW i \in Told(t)', NEW j \in Told(t)', i < j,
                  \A k \in Told(t)' : k <= i \/ k >= j
           PROVE  EventLog'[i].newState = EventLog'[j].previousState
      <4>1. i \in Told(t)
        BY <3>5, <3>6, <3>7, <3>12
      <4>2. CASE j \in Told(t)
        <5>1. \A k \in Told(t) : k <= i \/ k >= j
          BY <3>12, <3>5
        <5>2. EventLog[i].newState = EventLog[j].previousState
          BY <4>1, <4>2, <3>12, <5>1, <2>a
        <5> QED
          BY <4>1, <4>2, <3>6, <5>2
      <4>3. CASE j = n + m
        <5>1. \A k \in Told(t) : k <= i
          BY <4>3, <3>12, <3>5, <3>6, <3>7
        <5> QED
          BY <5>1, <4>1, <4>3, <3>3, <3>4, <3>6, <2>a
      <4> QED
        BY <4>2, <4>3, <3>5
    <3> QED
      BY <3>9, <3>10, <3>11, <3>12
  <2> QED
    BY <2>1, <2>2
<1> QED
  BY <1>3 DEF EventsTellTheState

\* What no step may do to a decided record.
DecidedStays ==
  \A t \in IntakeTasks : record[t].state \notin {"none", "pending"} => record'[t] = record[t]

\* A new gate has no records and no events.
LEMMA IntakeInitInv == IntakeInit => IntakeInv
<1> SUFFICES ASSUME IntakeInit PROVE IntakeInv
  OBVIOUS
<1>1. \A t \in IntakeTasks : record[t] = NoRecord
  BY DEF IntakeInit
<1>2. IntakeTypeOK
  <2>1. NoRecord \in TaskRecords
    BY DEF NoRecord, TaskRecords, RecordStates
  <2>2. record \in [IntakeTasks -> TaskRecords]
    BY <2>1 DEF IntakeInit
  <2> QED
    BY <2>2 DEF IntakeInit, IntakeTypeOK
<1>3. RecordsInTime
  BY <1>1 DEF RecordsInTime, NoRecord
<1>4. \A t \in IntakeTasks : Told(t) = {}
  <2>1. EventLog = <<>>
    BY DEF IntakeInit, EventLog
  <2> QED
    BY <2>1 DEF Told
<1> QED
  BY <1>1, <1>2, <1>3, <1>4 DEF IntakeInv, EventsTellTheState

\* One event appended is a log that grows by it.
LEMMA OneEvent ==
  ASSUME IntakeTypeOK, NEW t, NEW from, NEW to, Event(t, from, to), UNCHANGED drained,
         Change(t, from, to) \in RecordChanges
  PROVE  /\ events' \in Seq(RecordChanges)
         /\ EventLog' = EventLog \o <<Change(t, from, to)>>
<1>1. events' = events \o <<Change(t, from, to)>>
  BY DEF Event, IntakeTypeOK
<1> HIDE DEF Change
<1> QED
  BY <1>1 DEF IntakeTypeOK, EventLog

\* submit.
LEMMA SubmitInv ==
  ASSUME IntakeInv, NEW t \in IntakeTasks, Submit(t)
  PROVE  IntakeInv' /\ DecidedStays
<1> DEFINE initial == IF requireOwnerApproval THEN "pending" ELSE "auto_accepted"
           new == [state |-> initial, expiresAt |-> Expiry(t), decidedAt |-> intakeNow]
<1>1. Expiry(t) \in Nat /\ Expiry(t) <= leaseExpiresAt[t]
  BY IntakeFacts DEF Expiry, IntakeInv, IntakeTypeOK
<1>2. /\ record[t] = NoRecord /\ record' = [record EXCEPT ![t] = new]
      /\ Event(t, "none", initial) /\ UNCHANGED <<requireOwnerApproval, intakeNow, drained>>
  BY DEF Submit
<1>3. new \in TaskRecords /\ new # NoRecord /\ initial \in RecordStates
  BY <1>1 DEF TaskRecords, RecordStates, NoRecord, IntakeInv, IntakeTypeOK
<1>4. /\ record' \in [IntakeTasks -> TaskRecords]
      /\ record'[t] = new /\ \A u \in IntakeTasks \ {t} : record'[u] = record[u]
  BY <1>2, <1>3 DEF IntakeInv, IntakeTypeOK
<1>5. Change(t, "none", initial) \in RecordChanges
  BY DEF Change, RecordChanges, RecordStates
<1>6. events' \in Seq(RecordChanges) /\ EventLog' = EventLog \o <<Change(t, "none", initial)>>
  BY <1>2, <1>5, OneEvent DEF IntakeInv
<1>7. Tells(<<Change(t, "none", initial)>>)
  BY <1>2, <1>3, <1>4, <1>5 DEF Tells, Change, NoRecord
<1>8. EventsTellTheState'
  BY <1>4, <1>6, <1>7, LogGrows
<1>9. IntakeTypeOK'
  BY <1>2, <1>4, <1>6 DEF IntakeInv, IntakeTypeOK
<1>10. RecordsInTime'
  BY <1>1, <1>2, <1>3, <1>4 DEF IntakeInv, RecordsInTime, NoRecord
<1>11. DecidedStays
  BY <1>2, <1>4 DEF DecidedStays, NoRecord
<1> QED
  BY <1>8, <1>9, <1>10, <1>11 DEF IntakeInv

\* decide.
LEMMA DecideInv ==
  ASSUME IntakeInv, NEW t \in IntakeTasks, NEW approved \in BOOLEAN, Decide(t, approved)
  PROVE  IntakeInv' /\ DecidedStays
<1> DEFINE to == IF IsDue(t) THEN "expired" ELSE IF approved THEN "approved" ELSE "declined"
           new == [record[t] EXCEPT !.state = to, !.decidedAt = intakeNow]
<1>1. /\ record[t].state = "pending"
      /\ record' = [record EXCEPT ![t].state = to, ![t].decidedAt = intakeNow]
      /\ Event(t, "pending", to) /\ UNCHANGED <<requireOwnerApproval, intakeNow, drained>>
  BY DEF Decide
<1>2. to \in {"expired", "approved", "declined"} /\ (to = "approved" => intakeNow < record[t].expiresAt)
  BY <1>1 DEF IsDue, IntakeInv, IntakeTypeOK, TaskRecords
<1> HIDE DEF to
<1>3. /\ record[t] \in TaskRecords /\ intakeNow \in Nat
  BY DEF IntakeInv, IntakeTypeOK
<1>4. /\ new \in TaskRecords /\ new.state = to /\ new.decidedAt = intakeNow
      /\ new.expiresAt = record[t].expiresAt
  BY <1>2, <1>3 DEF TaskRecords, RecordStates
<1>5. /\ record' \in [IntakeTasks -> TaskRecords]
      /\ record'[t] = new /\ \A u \in IntakeTasks \ {t} : record'[u] = record[u]
  BY <1>1, <1>4 DEF IntakeInv, IntakeTypeOK
<1>6. Change(t, "pending", to) \in RecordChanges
  BY <1>2 DEF Change, RecordChanges, RecordStates
<1>7. events' \in Seq(RecordChanges) /\ EventLog' = EventLog \o <<Change(t, "pending", to)>>
  BY <1>1, <1>6, OneEvent DEF IntakeInv
<1>8. record[t] # NoRecord /\ new # NoRecord
  <2>1. NoRecord.state = "none"
    BY DEF NoRecord
  <2> QED
    BY <2>1, <1>1, <1>2, <1>4
<1> HIDE DEF new
<1>9. Tells(<<Change(t, "pending", to)>>)
  <2>1. /\ record[t].state = "pending" /\ record'[t].state = to /\ record'[t] # NoRecord
        /\ \A u \in IntakeTasks \ {t} : record'[u] = record[u]
    BY <1>1, <1>4, <1>5, <1>8
  <2> QED
    BY <2>1, <1>6 DEF Tells, Change
<1>10. EventsTellTheState'
  BY <1>5, <1>7, <1>9, LogGrows
<1>11. IntakeTypeOK'
  BY <1>1, <1>5, <1>7 DEF IntakeInv, IntakeTypeOK
<1>12. RecordsInTime'
  BY <1>1, <1>2, <1>4, <1>5, <1>8 DEF IntakeInv, RecordsInTime
<1>13. DecidedStays
  BY <1>1, <1>5 DEF DecidedStays
<1> QED
  BY <1>10, <1>11, <1>12, <1>13 DEF IntakeInv

\* expirePending: a permutation of the due records is appended.
LEMMA ExpirePendingInv ==
  ASSUME IntakeInv, ExpirePending
  PROVE  IntakeInv' /\ DecidedStays
<1> DEFINE due == {t \in IntakeTasks : IsDue(t)}
<1>1. PICK o \in Orders(due) :
        events' = events \o [i \in DOMAIN o |-> Change(o[i], "pending", "expired")]
  BY DEF ExpirePending
<1> DEFINE news == [i \in DOMAIN o |-> Change(o[i], "pending", "expired")]
<1>2. /\ UNCHANGED <<requireOwnerApproval, intakeNow, drained>>
      /\ record' = [t \in IntakeTasks |->
                      IF t \in due
                        THEN [record[t] EXCEPT !.state = "expired", !.decidedAt = intakeNow]
                        ELSE record[t]]
  BY DEF ExpirePending
<1>3. Cardinality(due) \in Nat
  BY IntakeFacts, FS_Subset, FS_CardinalityType
<1>4. /\ DOMAIN o = 1..Cardinality(due) /\ \A i \in DOMAIN o : o[i] \in due
      /\ \A i, j \in DOMAIN o : o[i] = o[j] => i = j
      /\ \A t \in due : \E i \in DOMAIN o : o[i] = t
  BY <1>1 DEF Orders
<1>5. \A t \in due : record[t].state = "pending" /\ record[t] # NoRecord
  BY DEF IsDue, NoRecord
<1>6. ASSUME NEW t \in due
      PROVE  /\ record'[t] \in TaskRecords /\ record'[t].state = "expired"
             /\ record'[t] # NoRecord /\ record'[t].expiresAt = record[t].expiresAt
  <2>1. record[t] \in TaskRecords /\ intakeNow \in Nat
    BY DEF IntakeInv, IntakeTypeOK
  <2>2. record'[t] = [record[t] EXCEPT !.state = "expired", !.decidedAt = intakeNow]
    BY <1>2
  <2>3. /\ record'[t] \in TaskRecords /\ record'[t].state = "expired"
        /\ record'[t].expiresAt = record[t].expiresAt
    BY <2>1, <2>2 DEF TaskRecords, RecordStates
  <2> QED
    BY <2>3 DEF NoRecord
<1>7. \A t \in IntakeTasks \ due : record'[t] = record[t]
  BY <1>2
<1>8. record' \in [IntakeTasks -> TaskRecords]
  <2>1. \A t \in IntakeTasks : record'[t] \in TaskRecords
    BY <1>6, <1>7 DEF IntakeInv, IntakeTypeOK
  <2>2. record' = [t \in IntakeTasks |-> record'[t]]
    BY <1>2
  <2> QED
    BY <2>1, <2>2
<1> HIDE DEF due
<1>9. due \subseteq IntakeTasks
  BY DEF due
<1>10. \A i \in DOMAIN o : news[i] \in RecordChanges /\ news[i] = Change(o[i], "pending", "expired")
  BY <1>4, <1>9 DEF Change, RecordChanges, RecordStates
<1>11. news \in Seq(RecordChanges) /\ DOMAIN news = DOMAIN o
  BY <1>3, <1>4, <1>10
<1>12. Tells(news)
  <2>1. ASSUME NEW i \in DOMAIN news
        PROVE  /\ news[i].task = o[i] /\ o[i] \in due
               /\ news[i].previousState = record[news[i].task].state
               /\ news[i].newState = record'[news[i].task].state
               /\ record'[news[i].task] # NoRecord
    BY <1>4, <1>5, <1>6, <1>10, <1>11 DEF Change
  <2>2. ASSUME NEW t \in IntakeTasks, \A i \in DOMAIN news : news[i].task # t
        PROVE  record'[t] = record[t]
    BY <2>1, <2>2, <1>4, <1>7, <1>11
  <2>3. \A i, j \in DOMAIN news : news[i].task = news[j].task => i = j
    BY <2>1, <1>4, <1>11
  <2> HIDE DEF news
  <2> QED
    BY <2>1, <2>2, <2>3, <1>11 DEF Tells
<1>13. EventLog' = EventLog \o news /\ events' \in Seq(RecordChanges)
  <2> HIDE DEF news
  <2>1. events' = events \o news
    BY <1>1 DEF news
  <2>2. events \in Seq(RecordChanges) /\ drained \in Seq(RecordChanges) /\ news \in Seq(RecordChanges)
    BY <1>11 DEF IntakeInv, IntakeTypeOK
  <2>3. drained \o (events \o news) = (drained \o events) \o news
    BY <2>2
  <2> QED
    <3>1. EventLog' = drained \o (events \o news)
      BY <2>1, <1>2 DEF EventLog
    <3>2. events' \in Seq(RecordChanges)
      BY <2>1, <2>2
    <3> QED
      BY <2>3, <3>1, <3>2 DEF EventLog
<1> HIDE DEF news
<1>14. EventsTellTheState'
  BY <1>8, <1>12, <1>13, LogGrows
<1>15. IntakeTypeOK'
  BY <1>2, <1>8, <1>13 DEF IntakeInv, IntakeTypeOK
<1>16. RecordsInTime'
  BY <1>2, <1>5, <1>6, <1>7 DEF IntakeInv, RecordsInTime
<1>17. DecidedStays
  BY <1>5, <1>7 DEF DecidedStays
<1> QED
  BY <1>14, <1>15, <1>16, <1>17 DEF IntakeInv

\* Every step, and stuttering.
LEMMA IntakeStepInv == IntakeInv /\ [IntakeNext]_intakeVars => IntakeInv' /\ DecidedStays
<1> SUFFICES ASSUME IntakeInv, [IntakeNext]_intakeVars PROVE IntakeInv' /\ DecidedStays
  OBVIOUS
<1>1. ASSUME NEW t \in IntakeTasks, Submit(t) PROVE IntakeInv' /\ DecidedStays
  BY <1>1, SubmitInv
<1>2. ASSUME NEW t \in IntakeTasks, NEW approved \in BOOLEAN, Decide(t, approved)
      PROVE  IntakeInv' /\ DecidedStays
  BY <1>2, DecideInv
<1>3. CASE ExpirePending
  BY <1>3, ExpirePendingInv
<1>4. ASSUME UNCHANGED record, UNCHANGED EventLog, UNCHANGED requireOwnerApproval, IntakeTypeOK'
      PROVE  IntakeInv' /\ DecidedStays
  <2>1. EventsTellTheState'
    <3>1. \A t : Told(t)' = Told(t)
      BY <1>4 DEF Told
    <3> QED
      BY <3>1, <1>4 DEF IntakeInv, EventsTellTheState, NoRecord
  <2>2. RecordsInTime'
    BY <1>4 DEF IntakeInv, RecordsInTime
  <2> QED
    BY <2>1, <2>2, <1>4 DEF IntakeInv, DecidedStays
<1>5. CASE DrainEvents
  <2>1. UNCHANGED EventLog /\ IntakeTypeOK'
    BY <1>5 DEF DrainEvents, EventLog, IntakeInv, IntakeTypeOK
  <2> QED
    BY <2>1, <1>4, <1>5 DEF DrainEvents
<1>6. CASE IntakeTick
  <2>1. UNCHANGED EventLog /\ IntakeTypeOK'
    BY <1>6 DEF IntakeTick, EventLog, IntakeInv, IntakeTypeOK
  <2> QED
    BY <2>1, <1>4, <1>6 DEF IntakeTick
<1>7. CASE UNCHANGED intakeVars
  <2>1. UNCHANGED EventLog /\ IntakeTypeOK'
    BY <1>7 DEF intakeVars, EventLog, IntakeInv, IntakeTypeOK
  <2> QED
    BY <2>1, <1>4, <1>7 DEF intakeVars
<1> QED
  BY <1>1, <1>2, <1>3, <1>5, <1>6, <1>7 DEF IntakeNext

\* The launch gate of task-intake-approval.ts, whatever the tasks, their leases
\* and the timeout: what may be launched under a policy that asks the owner was
\* approved in time (submit, decide, expirePending), the events lead without a
\* gap to the present state (drainEvents), and decisions are never undone.
THEOREM IntakeGate == IntakeSpec => IntakeSound
<1>1. IntakeInv => ApprovedInTime /\ EventsTellTheState
  <2> SUFFICES ASSUME IntakeInv, NEW t \in IntakeTasks, requireOwnerApproval, CanLaunch(t)
               PROVE  /\ record[t].state = "approved"
                      /\ record[t].decidedAt < leaseExpiresAt[t]
                      /\ record[t].decidedAt < record[t].expiresAt
    BY DEF ApprovedInTime, IntakeInv
  <2>1. record[t].state = "approved" /\ record[t] # NoRecord
    BY DEF CanLaunch, IntakeInv, RecordsInTime, NoRecord
  <2>2. /\ record[t].decidedAt \in Nat /\ record[t].expiresAt \in Nat
        /\ leaseExpiresAt[t] \in Nat
    BY IntakeFacts DEF IntakeInv, IntakeTypeOK, TaskRecords
  <2> QED
    BY <2>1, <2>2 DEF IntakeInv, RecordsInTime
<1>2. IntakeInv /\ [IntakeNext]_intakeVars =>
        [\A t \in IntakeTasks :
           record[t].state \notin {"none", "pending"} => record'[t] = record[t]]_intakeVars
  BY IntakeStepInv DEF DecidedStays
<1> QED
  BY <1>1, <1>2, IntakeInitInv, IntakeStepInv, PTL DEF IntakeSpec, IntakeSound, DecidedIsFinal

-------------------------------------------------------------------------------
PreviewStates == {"preview_validated", "approved", "denied", "executing", "failed", "success"}
Entries == [state : PreviewStates, write : Writes, attempt : Nat]
Outcomes == {"threw", "success", "failed"}

WriteTypeOK ==
  /\ writeNow \in Nat /\ consumed \subseteq Writes
  /\ entry \in [Previews -> Entries \cup {NoPreview}]
  /\ \A d \in decisions : d.preview \in Previews /\ d.attempt \in Nat
  /\ \A c \in executorCalls : /\ c.preview \in Previews /\ c.attempt \in Nat
                              /\ c.outcome \in Outcomes

\* What the executor answered is behind its preview: a failure moved it to a
\* later attempt, a success ended it.  So no answer belongs to an attempt that
\* is still executing.
AnswersBehind ==
  \A c \in executorCalls :
    /\ Previewed(c.preview)
    /\ c.outcome = "failed" => c.attempt < entry[c.preview].attempt
    /\ c.outcome = "success" => entry[c.preview].state = "success"

WriteInv == WriteTypeOK /\ AnswersBehind /\ EveryCallApproved /\ OneAnswerPerApproval

\* What no step may do: start a call for a write that succeeded, or take a
\* verdict back.
StepIsAllowed ==
  \A p \in Previews :
    /\ entry'[p].state = "executing" /\ entry[p].state # "executing"
         => KeyOf(entry[p].write) \notin consumed
    /\ entry[p].state \in {"denied", "success"} => entry'[p] = entry[p]

\* A preview is a record of its three fields, and no placeholder is one.
LEMMA EntryFacts ==
  ASSUME WriteTypeOK, NEW p \in Previews
  PROVE  /\ Previewed(p) => entry[p] \in Entries
         /\ entry[p].state \in PreviewStates => Previewed(p)
         /\ ~Previewed(p) => entry[p].state = "none"
BY DEF WriteTypeOK, Previewed, NoPreview, Entries, PreviewStates

\* The engine starts empty.
LEMMA WriteInitInv == WriteInit => WriteInv
<1> SUFFICES ASSUME WriteInit PROVE WriteInv
  OBVIOUS
<1>1. /\ writeNow = 0 /\ entry = [p \in Previews |-> NoPreview]
      /\ consumed = {} /\ decisions = {} /\ executorCalls = {}
  BY DEF WriteInit
<1>2. \A p \in Previews : entry[p].state = "none"
  BY <1>1 DEF NoPreview
<1>3. WriteTypeOK
  <2> HIDE DEF NoPreview
  <2> QED
    BY <1>1 DEF WriteTypeOK
<1>4. EveryCallApproved
  BY <1>1, <1>2 DEF EveryCallApproved
<1> QED
  BY <1>1, <1>3, <1>4 DEF WriteInv, AnswersBehind, OneAnswerPerApproval

\* createPreview: a preview nobody called for yet.
LEMMA CreatePreviewInv ==
  ASSUME WriteInv, NEW p \in Previews, NEW w \in Writes, CreatePreview(p, w)
  PROVE  WriteInv' /\ StepIsAllowed
<1> DEFINE new == [state |-> "preview_validated", write |-> w, attempt |-> 1]
<1>1. /\ ~Previewed(p) /\ entry' = [entry EXCEPT ![p] = new]
      /\ UNCHANGED <<writeNow, consumed, decisions, executorCalls>>
  BY DEF CreatePreview
<1>2. new \in Entries /\ new # NoPreview /\ new.state = "preview_validated"
  <2>1. new.state # NoPreview.state
    BY DEF NoPreview
  <2> QED
    BY <2>1 DEF Entries, PreviewStates
<1> HIDE DEF new
<1>3. /\ entry' \in [Previews -> Entries \cup {NoPreview}]
      /\ entry'[p] = new /\ \A q \in Previews \ {p} : entry'[q] = entry[q]
  BY <1>1, <1>2 DEF WriteInv, WriteTypeOK
<1>4. \A c \in executorCalls : c.preview \in Previews \ {p}
  BY <1>1 DEF WriteInv, WriteTypeOK, AnswersBehind, Previewed
<1>5. WriteTypeOK'
  BY <1>1, <1>3 DEF WriteInv, WriteTypeOK
<1>6. AnswersBehind'
  BY <1>1, <1>3, <1>4 DEF WriteInv, AnswersBehind, Previewed
<1>7. EveryCallApproved'
  BY <1>1, <1>2, <1>3, <1>4 DEF WriteInv, EveryCallApproved, DigestOf
<1>8. OneAnswerPerApproval'
  BY <1>1 DEF WriteInv, OneAnswerPerApproval
<1>9. StepIsAllowed
  BY <1>1, <1>2, <1>3, EntryFacts DEF StepIsAllowed, WriteInv
<1> QED
  BY <1>5, <1>6, <1>7, <1>8, <1>9 DEF WriteInv

\* A reviewer's decision, whatever write it was shown.
LEMMA ReviewInv ==
  ASSUME WriteInv, NEW p \in Previews, NEW w \in Writes, NEW a \in BOOLEAN,
         NEW x \in 0..MaxWriteNow, Review(p, w, a, x)
  PROVE  WriteInv' /\ StepIsAllowed
<1>1. /\ Previewed(p) /\ UNCHANGED <<writeNow, entry, consumed, executorCalls>>
      /\ decisions' = decisions \cup
           {[preview |-> p, digest |-> DigestOf(w), attempt |-> entry[p].attempt,
             approved |-> a, expiresAt |-> x]}
  BY DEF Review
<1>2. entry[p].attempt \in Nat
  BY <1>1, EntryFacts DEF WriteInv, Entries
<1>3. WriteTypeOK'
  BY <1>1, <1>2 DEF WriteInv, WriteTypeOK
<1>4. EveryCallApproved'
  BY <1>1 DEF WriteInv, EveryCallApproved
<1>5. AnswersBehind' /\ OneAnswerPerApproval' /\ StepIsAllowed
  BY <1>1 DEF WriteInv, AnswersBehind, OneAnswerPerApproval, StepIsAllowed, Previewed
<1> QED
  BY <1>3, <1>4, <1>5 DEF WriteInv

\* A preview p that was not decided for good moves to a state s, with its write
\* and its attempt: the approval it needs there is the one of its attempt.
LEMMA MovesInv ==
  ASSUME WriteInv, NEW p \in Previews, NEW s \in PreviewStates, Previewed(p),
         entry' = [entry EXCEPT ![p].state = s],
         UNCHANGED <<writeNow, consumed, decisions, executorCalls>>,
         entry[p].state \notin {"denied", "success"},
         s = "executing" => KeyOf(entry[p].write) \notin consumed,
         s \in {"approved", "executing", "failed", "success"} =>
           \E d \in decisions : /\ d.preview = p /\ d.approved
                                /\ d.attempt = entry[p].attempt
                                /\ d.digest = DigestOf(entry[p].write)
  PROVE  WriteInv' /\ StepIsAllowed
<1>1. entry[p] \in Entries
  BY EntryFacts DEF WriteInv
<1>2. /\ [entry[p] EXCEPT !.state = s] \in Entries
      /\ [entry[p] EXCEPT !.state = s].state = s
      /\ [entry[p] EXCEPT !.state = s].write = entry[p].write
      /\ [entry[p] EXCEPT !.state = s].attempt = entry[p].attempt
  BY <1>1 DEF Entries
<1>3. /\ entry'[p] \in Entries /\ entry'[p].state = s
      /\ entry'[p].write = entry[p].write /\ entry'[p].attempt = entry[p].attempt
      /\ \A q \in Previews \ {p} : entry'[q] = entry[q]
      /\ entry' \in [Previews -> Entries \cup {NoPreview}]
  BY <1>2 DEF WriteInv, WriteTypeOK
<1>4. Previewed(p)'
  BY <1>3, EntryFacts DEF Previewed, NoPreview, Entries, PreviewStates
<1>5. WriteTypeOK'
  BY <1>3 DEF WriteInv, WriteTypeOK
<1>6. AnswersBehind'
  BY <1>3, <1>4 DEF WriteInv, WriteTypeOK, AnswersBehind, Previewed
<1>7. EveryCallApproved'
  BY <1>3 DEF WriteInv, WriteTypeOK, EveryCallApproved, DigestOf
<1>8. OneAnswerPerApproval'
  BY DEF WriteInv, OneAnswerPerApproval
<1>9. StepIsAllowed
  BY <1>3 DEF StepIsAllowed
<1> QED
  BY <1>5, <1>6, <1>7, <1>8, <1>9 DEF WriteInv

\* submitDecision: only an approval of the present attempt passes the guard.
LEMMA SubmitDecisionInv ==
  ASSUME WriteInv, NEW d \in decisions, SubmitDecision(d)
  PROVE  WriteInv' /\ StepIsAllowed
<1> DEFINE s == IF d.approved THEN "approved" ELSE "denied"
<1>1. /\ entry[d.preview].state = "preview_validated"
      /\ d.approved => GuardAllows(d)
      /\ entry' = [entry EXCEPT ![d.preview].state = s]
      /\ UNCHANGED <<writeNow, consumed, decisions, executorCalls>>
  BY DEF SubmitDecision
<1>2. d.preview \in Previews
  BY DEF WriteInv, WriteTypeOK
<1>3. Previewed(d.preview)
  BY <1>1, <1>2, EntryFacts DEF WriteInv, PreviewStates
<1>4. s \in PreviewStates /\ (d.approved <=> s = "approved") /\ s \in {"approved", "denied"}
  BY DEF PreviewStates
<1>5. s = "approved" => /\ d.approved /\ d.attempt = entry[d.preview].attempt
                        /\ d.digest = DigestOf(entry[d.preview].write)
  BY <1>1, <1>4 DEF GuardAllows
<1> HIDE DEF s
<1> QED
  BY <1>1, <1>2, <1>3, <1>4, <1>5, MovesInv

\* execute: the approval that made it executable is still that of the attempt.
LEMMA ExecuteInv ==
  ASSUME WriteInv, NEW p \in Previews, Execute(p)
  PROVE  WriteInv' /\ StepIsAllowed
<1>1. /\ Previewed(p) /\ KeyOf(entry[p].write) \notin consumed
      /\ entry[p].state \in {"approved", "failed"}
      /\ entry' = [entry EXCEPT ![p].state = "executing"]
      /\ UNCHANGED <<writeNow, consumed, decisions, executorCalls>>
  BY DEF Execute, Cached, Executable
<1>2. \E d \in decisions : /\ d.preview = p /\ d.approved
                           /\ d.attempt = entry[p].attempt
                           /\ d.digest = DigestOf(entry[p].write)
  BY <1>1 DEF WriteInv, EveryCallApproved
<1> QED
  BY <1>1, <1>2, MovesInv DEF PreviewStates

\* The call c of an executing preview p comes back: it was approved, and no
\* earlier call of its attempt was answered.
LEMMA CallReturns ==
  ASSUME WriteInv, NEW p \in Previews, entry[p].state = "executing", NEW c,
         c.preview = p, c.attempt = entry[p].attempt, c.outcome \in Outcomes,
         executorCalls' = executorCalls \cup {c}, UNCHANGED <<writeNow, decisions>>,
         consumed' \subseteq Writes,
         entry' \in [Previews -> Entries \cup {NoPreview}],
         \A q \in Previews \ {p} : entry'[q] = entry[q],
         entry'[p] \in Entries, entry'[p].write = entry[p].write,
         \/ entry'[p].attempt = entry[p].attempt
         \/ entry'[p].attempt > entry[p].attempt /\ entry'[p].state = "preview_validated",
         c.outcome = "failed" => entry'[p].attempt > entry[p].attempt,
         c.outcome = "success" => entry'[p].state = "success",
         entry'[p].state # "executing"
  PROVE  WriteInv' /\ StepIsAllowed
<1>1. Previewed(p) /\ entry[p] \in Entries /\ entry[p].attempt \in Nat
  BY EntryFacts DEF WriteInv, PreviewStates, Entries
<1>2. Previewed(p)' /\ entry'[p].attempt \in Nat
  <2>1. entry'[p].state # NoPreview.state
    BY DEF Entries, PreviewStates, NoPreview
  <2> QED
    BY <2>1 DEF Entries, Previewed
<1>3. WriteTypeOK'
  BY <1>1 DEF WriteInv, WriteTypeOK
<1>4. \A b \in executorCalls : b.preview = p => b.outcome # "success"
  BY DEF WriteInv, AnswersBehind
<1>5. AnswersBehind'
  <2>1. ASSUME NEW b \in executorCalls
        PROVE  /\ Previewed(b.preview)'
               /\ b.outcome = "failed" => b.attempt < entry'[b.preview].attempt
               /\ b.outcome = "success" => entry'[b.preview].state = "success"
    <3>1. CASE b.preview = p
      BY <3>1, <1>1, <1>2, <1>4 DEF WriteInv, WriteTypeOK, AnswersBehind
    <3>2. CASE b.preview # p
      BY <3>2 DEF WriteInv, WriteTypeOK, AnswersBehind, Previewed
    <3> QED
      BY <3>1, <3>2
  <2> QED
    BY <2>1, <1>1, <1>2 DEF AnswersBehind
<1>6. PICK d \in decisions : /\ d.preview = p /\ d.approved
                            /\ d.attempt = entry[p].attempt
                            /\ d.digest = DigestOf(entry[p].write)
  BY DEF WriteInv, EveryCallApproved
<1>7. EveryCallApproved'
  <2>1. ASSUME NEW q \in Previews,
               entry'[q].state \in {"approved", "executing", "failed", "success"}
        PROVE  \E e \in decisions : /\ e.preview = q /\ e.approved
                                    /\ e.attempt = entry'[q].attempt
                                    /\ e.digest = DigestOf(entry'[q].write)
    BY <2>1, <1>6 DEF WriteInv, EveryCallApproved, DigestOf
  <2>2. ASSUME NEW q \in Previews, NEW b \in executorCalls \cup {c}, b.preview = q
        PROVE  \E e \in decisions : /\ e.preview = q /\ e.approved
                                    /\ e.attempt = b.attempt
                                    /\ e.digest = DigestOf(entry'[q].write)
    BY <2>2, <1>6 DEF WriteInv, EveryCallApproved, DigestOf
  <2> QED
    BY <2>1, <2>2 DEF EveryCallApproved, DigestOf
<1>8. OneAnswerPerApproval'
  <2>1. ASSUME NEW b \in executorCalls, b.preview = p, b.attempt = entry[p].attempt
        PROVE  b.outcome = "threw"
    BY <2>1, <1>1, <1>4 DEF WriteInv, WriteTypeOK, AnswersBehind, Outcomes
  <2> QED
    BY <2>1 DEF WriteInv, OneAnswerPerApproval
<1>9. StepIsAllowed
  BY DEF StepIsAllowed
<1> QED
  BY <1>3, <1>5, <1>7, <1>8, <1>9 DEF WriteInv

\* The executor throws, succeeds or fails.
LEMMA ExecutorInv ==
  ASSUME WriteInv, NEW p \in Previews,
         ExecutorThrows(p) \/ ExecutorSucceeds(p) \/ ExecutorFails(p)
  PROVE  WriteInv' /\ StepIsAllowed
<1> DEFINE Call(outcome) == [preview |-> p, attempt |-> entry[p].attempt, outcome |-> outcome,
                             nth |-> Cardinality(CallsOf(p))]
<1>1. entry[p].state = "executing"
  BY DEF ExecutorThrows, ExecutorSucceeds, ExecutorFails
<1>2. /\ entry[p] \in Entries /\ entry \in [Previews -> Entries \cup {NoPreview}]
      /\ consumed \subseteq Writes
  BY <1>1, EntryFacts DEF WriteInv, WriteTypeOK, PreviewStates
<1>3. \A o \in Outcomes : /\ Call(o).preview = p /\ Call(o).attempt = entry[p].attempt
                         /\ Call(o).outcome = o
  OBVIOUS
<1>4. \A s \in PreviewStates :
        LET new == [entry[p] EXCEPT !.state = s]
        IN  new \in Entries /\ new.state = s /\ new.write = entry[p].write /\ new.attempt = entry[p].attempt
  BY <1>2 DEF Entries
<1> HIDE DEF Call
<1>5. CASE ExecutorThrows(p)
  <2>1. /\ entry' = [entry EXCEPT ![p].state = "failed"]
        /\ executorCalls' = executorCalls \cup {Call("threw")}
        /\ UNCHANGED <<writeNow, consumed, decisions>>
    BY <1>5 DEF ExecutorThrows, Call
  <2>2. /\ entry'[p] = [entry[p] EXCEPT !.state = "failed"]
        /\ \A q \in Previews \ {p} : entry'[q] = entry[q]
    BY <2>1, <1>2
  <2>3. /\ entry'[p] \in Entries /\ entry'[p].state = "failed"
        /\ entry'[p].write = entry[p].write /\ entry'[p].attempt = entry[p].attempt
        /\ entry' \in [Previews -> Entries \cup {NoPreview}]
    BY <1>2, <1>4, <2>1, <2>2 DEF PreviewStates
  <2>4. Call("threw").outcome = "threw" /\ "threw" \in Outcomes
    BY <1>3 DEF Outcomes
  <2> QED
    BY <1>1, <1>2, <1>3, <2>1, <2>2, <2>3, <2>4, CallReturns
<1>6. CASE ExecutorSucceeds(p)
  <2>1. /\ entry' = [entry EXCEPT ![p].state = "success"]
        /\ executorCalls' = executorCalls \cup {Call("success")}
        /\ consumed' = consumed \cup {entry[p].write}
        /\ UNCHANGED <<writeNow, decisions>>
    BY <1>6 DEF ExecutorSucceeds, Call, KeyOf
  <2>2. /\ entry'[p] = [entry[p] EXCEPT !.state = "success"]
        /\ \A q \in Previews \ {p} : entry'[q] = entry[q]
    BY <2>1, <1>2
  <2>3. /\ entry'[p] \in Entries /\ entry'[p].state = "success"
        /\ entry'[p].write = entry[p].write /\ entry'[p].attempt = entry[p].attempt
        /\ entry' \in [Previews -> Entries \cup {NoPreview}]
    BY <1>2, <1>4, <2>1, <2>2 DEF PreviewStates
  <2>4. /\ Call("success").outcome = "success" /\ "success" \in Outcomes
        /\ consumed' \subseteq Writes
    BY <1>2, <1>3, <2>1 DEF Outcomes, Entries
  <2> QED
    BY <1>1, <1>2, <1>3, <2>1, <2>2, <2>3, <2>4, CallReturns
<1>7. CASE ExecutorFails(p)
  <2> DEFINE new == [state |-> "preview_validated", write |-> entry[p].write,
                     attempt |-> entry[p].attempt + 1]
  <2>1. /\ entry' = [entry EXCEPT ![p].state = "preview_validated", ![p].attempt = @ + 1]
        /\ executorCalls' = executorCalls \cup {Call("failed")}
        /\ UNCHANGED <<writeNow, consumed, decisions>>
    BY <1>7 DEF ExecutorFails, Call
  <2>2. /\ entry'[p] = [entry[p] EXCEPT !.state = "preview_validated", !.attempt = @ + 1]
        /\ \A q \in Previews \ {p} : entry'[q] = entry[q]
    BY <2>1, <1>2
  <2>3. /\ entry'[p] \in Entries /\ entry'[p].state = "preview_validated"
        /\ entry'[p].write = entry[p].write /\ entry'[p].attempt > entry[p].attempt
        /\ entry' \in [Previews -> Entries \cup {NoPreview}]
    BY <1>2, <2>1, <2>2 DEF PreviewStates, Entries
  <2>4. Call("failed").outcome = "failed" /\ "failed" \in Outcomes
    BY <1>3 DEF Outcomes
  <2> QED
    BY <1>1, <1>2, <1>3, <2>1, <2>2, <2>3, <2>4, CallReturns
<1> QED
  BY <1>5, <1>6, <1>7

\* Every step, and stuttering.
LEMMA WriteStepInv == WriteInv /\ [WriteNext]_writeVars => WriteInv' /\ StepIsAllowed
<1> SUFFICES ASSUME WriteInv, [WriteNext]_writeVars PROVE WriteInv' /\ StepIsAllowed
  OBVIOUS
<1>1. ASSUME NEW p \in Previews, NEW w \in Writes, CreatePreview(p, w)
      PROVE  WriteInv' /\ StepIsAllowed
  BY <1>1, CreatePreviewInv
<1>2. ASSUME NEW p \in Previews, NEW w \in Writes, NEW a \in BOOLEAN, NEW x \in 0..MaxWriteNow,
             Review(p, w, a, x)
      PROVE  WriteInv' /\ StepIsAllowed
  BY <1>2, ReviewInv
<1>3. ASSUME NEW d \in decisions, SubmitDecision(d) PROVE WriteInv' /\ StepIsAllowed
  BY <1>3, SubmitDecisionInv
<1>4. ASSUME NEW p \in Previews,
             Execute(p) \/ ExecutorThrows(p) \/ ExecutorSucceeds(p) \/ ExecutorFails(p)
      PROVE  WriteInv' /\ StepIsAllowed
  BY <1>4, ExecuteInv, ExecutorInv
<1>5. CASE WriteTick \/ UNCHANGED writeVars
  <2>1. /\ UNCHANGED <<entry, consumed, decisions, executorCalls>>
        /\ writeNow' \in Nat
    BY <1>5 DEF WriteTick, writeVars, WriteInv, WriteTypeOK
  <2> QED
    BY <2>1 DEF WriteInv, WriteTypeOK, AnswersBehind, Previewed, EveryCallApproved,
                OneAnswerPerApproval, StepIsAllowed
<1> QED
  BY <1>1, <1>2, <1>3, <1>4, <1>5 DEF WriteNext

\* write-approval-engine.ts, whatever the previews, the writes and the order in
\* which decisions, executions and answers interleave: the executor is called
\* for nothing but an approved attempt, an approval pays for one answer, a
\* succeeded write is not started again, and verdicts are final.
THEOREM WriteGate == WriteSpec => WritesSound
<1>1. WriteInv => EveryCallApproved /\ OneAnswerPerApproval
  BY DEF WriteInv
<1>2. WriteInv /\ [WriteNext]_writeVars =>
        [\A p \in Previews :
           entry'[p].state = "executing" /\ entry[p].state # "executing"
             => KeyOf(entry[p].write) \notin consumed]_writeVars
  BY WriteStepInv DEF StepIsAllowed
<1>3. WriteInv /\ [WriteNext]_writeVars =>
        [\A p \in Previews :
           entry[p].state \in {"denied", "success"} => entry'[p] = entry[p]]_writeVars
  BY WriteStepInv DEF StepIsAllowed
<1> QED
  BY <1>1, <1>2, <1>3, WriteInitInv, WriteStepInv, PTL
     DEF WriteSpec, WritesSound, NoCallAfterSuccess, VerdictsFinal
-----------------------------------------------------------------------------
(* The memory of a position.                                               *)

MemoryRecords ==
  [workspace : {Pinned[c].workspace : c \in Callers},
   scope : {Pinned[c].scope : c \in Callers},
   session : {q.session : q \in WriteRequests},
   content : {Content(q) : q \in WriteRequests},
   active : BOOLEAN, version : Nat,
   key : {IdempotencyKey(q) : q \in WriteRequests}, req : WriteRequests]
CallFields == {"pc", "kind", "req", "mode", "memory", "tries", "code", "result", "warned"}
CallPcs == {"idle", "version", "capabilities", "post", "readback", "recall", "done", "failed"}

\* What the mem server holds: no key twice, each memory under the key and in
\* the scope of the request that wrote it.
MemoriesInv ==
  /\ memories \in Seq(MemoryRecords)
  /\ \A i \in DOMAIN memories :
       /\ memories[i].key = IdempotencyKey(memories[i].req)
       /\ memories[i].scope = memories[i].req.scope
  /\ \A i, j \in DOMAIN memories : memories[i].key = memories[j].key => i = j

\* A call that got past the scope check writes into its own scope; one that
\* has a memory in hand has the one with the content of its request, and a
\* recall that succeeded has live memories of its scope.
HasWritten(request, memory) ==
  memory.id \in DOMAIN memories /\ memories[memory.id].content = Content(request)

CallSound(c, l) ==
  /\ l = [f \in CallFields |-> l[f]]
  /\ l.pc \in CallPcs
  /\ l.pc \in {"version", "capabilities"} => l.kind \in {"write", "recall"}
  /\ l.pc \in {"post", "readback"} => l.kind = "write"
  /\ l.pc = "recall" => l.kind = "recall"
  /\ l.pc \in {"version", "capabilities", "post"} /\ l.kind = "write" =>
       l.req \in WriteRequests /\ l.req.scope = Pinned[c].scope
  /\ l.pc = "readback" => HasWritten(l.req, l.memory)
  /\ l.pc = "done" /\ l.kind = "write" => HasWritten(l.req, l.result)
  /\ l.pc = "done" /\ l.kind = "recall" =>
       \A i \in DOMAIN l.result : l.result[i].scope = Pinned[c].scope /\ l.result[i].active

CallsInv ==
  /\ calls = [c \in Callers |-> calls[c]]
  /\ \A c \in Callers : CallSound(c, calls[c])

PortInv == MemoriesInv /\ CallsInv

\* A memory once held keeps its place and its content.
MemoriesStay ==
  /\ DOMAIN memories \subseteq DOMAIN memories'
  /\ \A i \in DOMAIN memories : memories'[i].content = memories[i].content

\* A call that fails, or degrades an optional recall, claims nothing.
LEMMA FailsSound ==
  ASSUME NEW c \in Callers, NEW l, l = [f \in CallFields |-> l[f]], NEW code
  PROVE  CallSound(c, Fails(l, code))
<1>1. CASE l.kind = "recall" /\ l.mode = "optional" /\ code = "MEMORY_UNAVAILABLE"
  <2> DEFINE n == [l EXCEPT !.pc = "done", !.result = <<>>, !.warned = TRUE]
  <2>1. Fails(l, code) = n
    BY <1>1 DEF Fails
  <2>2. n.pc = "done" /\ n.kind = "recall" /\ n.result = <<>> /\ n = [f \in CallFields |-> n[f]]
    BY <1>1 DEF CallFields
  <2> HIDE DEF n
  <2> QED
    BY <2>1, <2>2 DEF CallSound, CallPcs
<1>2. CASE ~(l.kind = "recall" /\ l.mode = "optional" /\ code = "MEMORY_UNAVAILABLE")
  <2> DEFINE n == [l EXCEPT !.pc = "failed", !.code = code]
  <2>1. Fails(l, code) = n
    BY <1>2 DEF Fails
  <2>2. n.pc = "failed" /\ n = [f \in CallFields |-> n[f]]
    BY DEF CallFields
  <2> HIDE DEF n
  <2> QED
    BY <2>1, <2>2 DEF CallSound, CallPcs
<1> QED
  BY <1>1, <1>2

\* A step of one call, over memories that stay.
LEMMA OneCallMoves ==
  ASSUME CallsInv, MemoriesStay, NEW c \in Callers, NEW l,
         calls' = [calls EXCEPT ![c] = l], CallSound(c, l)'
  PROVE  CallsInv'
<1>1. \A d \in Callers : calls'[d] = IF d = c THEN l ELSE calls[d]
  BY DEF CallsInv
<1>2. calls' = [d \in Callers |-> calls'[d]]
  BY DEF CallsInv
<1>3. ASSUME NEW d \in Callers PROVE CallSound(d, calls[d])'
  <2>1. CASE d = c
    <3>1. calls'[d] = l
      BY <1>1, <2>1
    <3> QED
      BY <2>1, <3>1 DEF CallSound, HasWritten
  <2>2. CASE d # c
    <3>1. calls'[d] = calls[d] /\ CallSound(d, calls[d])
      BY <1>1, <2>2 DEF CallsInv
    <3> QED
      BY <3>1 DEF CallSound, HasWritten, MemoriesStay
  <2> QED
    BY <2>1, <2>2
<1> QED
  BY <1>2, <1>3 DEF CallsInv

\* The calls as they start: none has anything in hand.
LEMMA PortInitInv == PortInit => PortInv
<1> SUFFICES ASSUME PortInit PROVE PortInv
  OBVIOUS
<1>1. MemoriesInv
  BY DEF PortInit, MemoriesInv
<1>2. ASSUME NEW c \in Callers PROVE CallSound(c, calls[c])
  <2>1. calls[c] = NoCall
    BY DEF PortInit
  <2>2. NoCall = [f \in CallFields |-> NoCall[f]] /\ NoCall.pc = "idle"
    BY DEF NoCall, CallFields
  <2> QED
    BY <2>1, <2>2 DEF CallSound, CallPcs
<1> QED
  BY <1>1, <1>2 DEF PortInit, PortInv, CallsInv
\* A step of one call that leaves the server's memories alone.
LEMMA CallMoves ==
  ASSUME PortInv, UNCHANGED memories, NEW c \in Callers, NEW l,
         calls' = [calls EXCEPT ![c] = l], CallSound(c, l)
  PROVE  PortInv'
<1>1. MemoriesInv' /\ MemoriesStay
  BY DEF PortInv, MemoriesInv, MemoriesStay
<1>2. CallSound(c, l)'
  BY DEF CallSound, HasWritten
<1> QED
  BY <1>1, <1>2, OneCallMoves DEF PortInv

\* The steps of a call that ask the server nothing it stores.
LEMMA StartsInv ==
  ASSUME PortInv, NEW c \in Callers, WriteStarts(c) \/ RecallStarts(c)
  PROVE  PortInv'
<1>1. CASE WriteStarts(c)
  <2>1. PICK q \in WriteRequests :
          calls' = [calls EXCEPT ![c] =
            IF ~ValidWrite(q)
            THEN Fails([NoCall EXCEPT !.kind = "write", !.req = q, !.tries = calls[c].tries + 1],
                       "MEMORY_RECORD_INVALID")
            ELSE IF ~InScope(q, Pinned[c])
            THEN Fails([NoCall EXCEPT !.kind = "write", !.req = q, !.tries = calls[c].tries + 1],
                       "MEMORY_SCOPE_MISMATCH")
            ELSE [[NoCall EXCEPT !.kind = "write", !.req = q, !.tries = calls[c].tries + 1]
                    EXCEPT !.pc = "version"]]
    BY <1>1 DEF WriteStarts
  <2> DEFINE l == [NoCall EXCEPT !.kind = "write", !.req = q, !.tries = calls[c].tries + 1]
             n == [l EXCEPT !.pc = "version"]
  <2>2. l = [f \in CallFields |-> l[f]]
    BY DEF NoCall, CallFields
  <2>3. /\ n = [f \in CallFields |-> n[f]]
        /\ n.pc = "version" /\ n.kind = "write" /\ n.req = q
    BY DEF NoCall, CallFields
  <2>4. PICK m : /\ calls' = [calls EXCEPT ![c] = m]
                 /\ \/ \E code : m = Fails(l, code)
                    \/ InScope(q, Pinned[c]) /\ m = n
    BY <2>1
  <2> HIDE DEF l, n
  <2>6. ASSUME InScope(q, Pinned[c]) PROVE CallSound(c, n)
    BY <2>3, <2>6 DEF CallSound, CallPcs, InScope
  <2>7. CallSound(c, m)
    BY <2>2, <2>4, <2>6, FailsSound
  <2> QED
    BY <1>1, <2>4, <2>7, CallMoves DEF WriteStarts
<1>2. CASE RecallStarts(c)
  <2>1. PICK m \in RecallModes :
          calls' = [calls EXCEPT ![c] = [NoCall EXCEPT !.kind = "recall", !.mode = m,
                                                       !.pc = "version"]]
    BY <1>2 DEF RecallStarts
  <2> DEFINE n == [NoCall EXCEPT !.kind = "recall", !.mode = m, !.pc = "version"]
  <2>2. n = [f \in CallFields |-> n[f]] /\ n.pc = "version" /\ n.kind = "recall"
    BY DEF NoCall, CallFields
  <2>3. calls' = [calls EXCEPT ![c] = n]
    BY <2>1
  <2> HIDE DEF n
  <2>4. CallSound(c, n)
    BY <2>2 DEF CallSound, CallPcs
  <2> QED
    BY <1>2, <2>3, <2>4, CallMoves DEF RecallStarts
<1> QED
  BY <1>1, <1>2

\* The preflight lets a call on or fails it.
LEMMA PreflightInv ==
  ASSUME PortInv, NEW c \in Callers, CheckVersion(c) \/ CheckCapabilities(c) \/ RequestFails(c)
  PROVE  PortInv'
<1>1. CallSound(c, calls[c]) /\ UNCHANGED memories
  BY DEF PortInv, CallsInv, CheckVersion, CheckCapabilities, RequestFails
<1>2. PICK n : /\ calls' = [calls EXCEPT ![c] = n]
               /\ \/ \E code : n = Fails(calls[c], code)
                  \/ calls[c].pc = "version" /\ n = [calls[c] EXCEPT !.pc = "capabilities"]
                  \/ /\ calls[c].pc = "capabilities"
                     /\ n = [calls[c] EXCEPT !.pc = IF calls[c].kind = "write" THEN "post"
                                                    ELSE "recall"]
  <2>1. CASE CheckVersion(c)
    BY <2>1 DEF CheckVersion, PortInv, CallsInv
  <2>2. CASE CheckCapabilities(c)
    BY <2>2 DEF CheckCapabilities, PortInv, CallsInv
  <2>3. CASE RequestFails(c)
    BY <2>3 DEF RequestFails, PortInv, CallsInv
  <2> QED
    BY <2>1, <2>2, <2>3
<1>3. CASE \E code : n = Fails(calls[c], code)
  <2>1. calls[c] = [f \in CallFields |-> calls[c][f]]
    BY <1>1 DEF CallSound
  <2>2. CallSound(c, n)
    BY <1>3, <2>1, FailsSound
  <2> QED
    BY <1>1, <1>2, <2>2, CallMoves
<1>4. CASE calls[c].pc = "version" /\ n = [calls[c] EXCEPT !.pc = "capabilities"]
  <2>1. /\ n = [f \in CallFields |-> n[f]] /\ n.pc = "capabilities"
        /\ n.kind = calls[c].kind /\ n.req = calls[c].req
    BY <1>1, <1>4 DEF CallSound, CallFields
  <2>2. CallSound(c, n)
    BY <1>1, <1>4, <2>1 DEF CallSound, CallPcs
  <2> QED
    BY <1>1, <1>2, <2>2, CallMoves
<1>5. CASE /\ calls[c].pc = "capabilities"
           /\ n = [calls[c] EXCEPT !.pc = IF calls[c].kind = "write" THEN "post" ELSE "recall"]
  <2>1. /\ n = [f \in CallFields |-> n[f]]
        /\ n.pc = IF calls[c].kind = "write" THEN "post" ELSE "recall"
        /\ n.kind = calls[c].kind /\ n.req = calls[c].req
    BY <1>1, <1>5 DEF CallSound, CallFields
  <2>2. CallSound(c, n)
    BY <1>1, <1>5, <2>1 DEF CallSound, CallPcs
  <2> QED
    BY <1>1, <1>2, <2>2, CallMoves
<1> QED
  BY <1>2, <1>3, <1>4, <1>5

\* The read-back and the recall: success only with what the checks let through.
LEMMA AnswersInv ==
  ASSUME PortInv, NEW c \in Callers, ReadBack(c) \/ Recall(c)
  PROVE  PortInv'
<1>1. /\ CallSound(c, calls[c]) /\ calls[c] = [f \in CallFields |-> calls[c][f]]
      /\ UNCHANGED memories
  BY DEF PortInv, CallsInv, CallSound, ReadBack, Recall
<1>2. CASE ReadBack(c)
  <2>1. PICK n : /\ calls' = [calls EXCEPT ![c] = n]
                 /\ \/ \E code : n = Fails(calls[c], code)
                    \/ n = [calls[c] EXCEPT !.pc = "done", !.result = calls[c].memory]
    BY <1>2 DEF ReadBack
  <2>2. CASE \E code : n = Fails(calls[c], code)
    <3>1. CallSound(c, n)
      BY <1>1, <2>2, FailsSound
    <3> QED
      BY <1>1, <2>1, <3>1, CallMoves
  <2>3. CASE n = [calls[c] EXCEPT !.pc = "done", !.result = calls[c].memory]
    <3>1. /\ n = [f \in CallFields |-> n[f]] /\ n.pc = "done"
          /\ n.kind = calls[c].kind /\ n.req = calls[c].req /\ n.result = calls[c].memory
      BY <1>1, <2>3 DEF CallFields
    <3>2. calls[c].kind = "write" /\ HasWritten(calls[c].req, calls[c].memory)
      BY <1>1, <1>2 DEF ReadBack, CallSound
    <3>3. CallSound(c, n)
      BY <3>1, <3>2 DEF CallSound, CallPcs
    <3> QED
      BY <1>1, <2>1, <3>3, CallMoves
  <2> QED
    BY <2>1, <2>2, <2>3
<1>3. CASE Recall(c)
  <2>1. PICK hits :
          calls' = [calls EXCEPT ![c] =
            IF RecallAccepted(hits, Pinned[c])
            THEN [calls[c] EXCEPT !.pc = "done", !.result = hits]
            ELSE Fails(calls[c], "MEMORY_SCOPE_MISMATCH")]
    BY <1>3 DEF Recall, PortInv, CallsInv
  <2>2. CASE ~RecallAccepted(hits, Pinned[c])
    <3>1. CallSound(c, Fails(calls[c], "MEMORY_SCOPE_MISMATCH"))
      BY <1>1, FailsSound
    <3> QED
      BY <1>1, <2>1, <2>2, <3>1, CallMoves
  <2>3. CASE RecallAccepted(hits, Pinned[c])
    <3> DEFINE n == [calls[c] EXCEPT !.pc = "done", !.result = hits]
    <3>1. /\ n = [f \in CallFields |-> n[f]] /\ n.pc = "done"
          /\ n.kind = calls[c].kind /\ n.result = hits
      BY <1>1 DEF CallFields
    <3>2. calls[c].kind = "recall"
      BY <1>1, <1>3 DEF Recall, CallSound
    <3>3. \A i \in DOMAIN hits : hits[i].scope = Pinned[c].scope /\ hits[i].active
      BY <2>3 DEF RecallAccepted, HitAccepted
    <3>4. calls' = [calls EXCEPT ![c] = n]
      BY <2>1, <2>3
    <3> HIDE DEF n
    <3>5. CallSound(c, n)
      BY <3>1, <3>2, <3>3 DEF CallSound, CallPcs
    <3> QED
      BY <1>1, <3>4, <3>5, CallMoves
  <2> QED
    BY <2>2, <2>3
<1> QED
  BY <1>2, <1>3
\* The server stores a request under a key it does not hold: all memories stay
\* and the new one is the last.
LEMMA StoreInv ==
  ASSUME MemoriesInv, NEW c \in Callers, NEW q \in WriteRequests, q.scope = Pinned[c].scope,
         Known(q) = {}, memories' = Append(memories, Stored(q, Pinned[c]))
  PROVE  /\ MemoriesInv' /\ MemoriesStay
         /\ DOMAIN memories' = 1..(Len(memories) + 1) /\ Len(memories) \in Nat
         /\ memories'[Len(memories) + 1] = Stored(q, Pinned[c])
<1> DEFINE m == Stored(q, Pinned[c])
           n == Len(memories)
<1>1. /\ m \in MemoryRecords /\ m.key = IdempotencyKey(q) /\ m.req = q
      /\ m.scope = m.req.scope
  BY DEF Stored, MemoryRecords
<1> HIDE DEF m
<1>2. memories \in Seq(MemoryRecords) /\ n \in Nat /\ DOMAIN memories = 1..n
  BY DEF MemoriesInv
<1>3. /\ memories' = Append(memories, m)
  BY DEF m
<1>4. /\ memories' \in Seq(MemoryRecords) /\ DOMAIN memories' = 1..(n + 1)
      /\ \A i \in 1..n : memories'[i] = memories[i]
      /\ memories'[n + 1] = m
  BY <1>1, <1>2, <1>3
<1>5. MemoriesStay
  BY <1>2, <1>4 DEF MemoriesStay
<1>6. \A i \in 1..n : memories[i].key # m.key
  BY <1>1, <1>2 DEF Known
<1>7. \A i \in DOMAIN memories' :
        /\ memories'[i].key = IdempotencyKey(memories'[i].req)
        /\ memories'[i].scope = memories'[i].req.scope
  BY <1>1, <1>2, <1>4 DEF MemoriesInv
<1>8. ASSUME NEW i \in DOMAIN memories', NEW j \in DOMAIN memories',
             memories'[i].key = memories'[j].key
      PROVE  i = j
  <2>1. CASE i \in 1..n /\ j \in 1..n
    BY <1>2, <1>4, <1>8, <2>1 DEF MemoriesInv
  <2>2. CASE i = n + 1 \/ j = n + 1
    BY <1>2, <1>4, <1>6, <1>8, <2>2
  <2> QED
    BY <1>2, <1>4, <2>1, <2>2
<1>9. MemoriesInv'
  BY <1>4, <1>7, <1>8 DEF MemoriesInv
<1> QED
  BY <1>2, <1>4, <1>5, <1>9 DEF m

\* The post: stored anew, replayed to a call with the same content, or refused;
\* when the reply is lost the call knows nothing of what was stored.
LEMMA RememberInv ==
  ASSUME PortInv, NEW c \in Callers, Remember(c) \/ RememberReplyLost(c)
  PROVE  PortInv'
<1> DEFINE q == calls[c].req
           n == Len(memories)
<1>1. /\ CallSound(c, calls[c]) /\ calls[c] = [f \in CallFields |-> calls[c][f]]
      /\ calls[c].pc = "post" /\ calls[c].kind = "write"
  BY DEF PortInv, CallsInv, CallSound, Remember, RememberReplyLost
<1>2. q \in WriteRequests /\ q.scope = Pinned[c].scope
  BY <1>1 DEF CallSound
<1>3. CASE Known(q) = {} /\ memories' = Append(memories, Stored(q, Pinned[c]))
  <2>1. /\ MemoriesInv' /\ MemoriesStay
        /\ DOMAIN memories' = 1..(n + 1) /\ n \in Nat
        /\ memories'[n + 1] = Stored(q, Pinned[c])
    <3> HIDE DEF q
    <3> QED
      BY <1>2, <1>3, StoreInv DEF PortInv
  <2>2. CASE Remember(c)
    <3> DEFINE l == [calls[c] EXCEPT !.pc = "readback",
                       !.memory = [id |-> n + 1, version |-> memories'[n + 1].version]]
    <3>1. calls' = [calls EXCEPT ![c] = l]
      BY <1>3, <2>2 DEF Remember
    <3>2. /\ l = [f \in CallFields |-> l[f]] /\ l.pc = "readback" /\ l.kind = "write"
          /\ l.req = q /\ l.memory.id = n + 1
      BY <1>1 DEF CallFields
    <3>3. memories'[n + 1].content = Content(q)
      BY <2>1 DEF Stored
    <3> HIDE DEF l, q
    <3>4. PICK r : r = l
      OBVIOUS
    <3>5. CallSound(c, r)'
      BY <2>1, <3>2, <3>3, <3>4 DEF CallSound, CallPcs, HasWritten
    <3>6. CallsInv'
      BY <2>1, <3>1, <3>4, <3>5, OneCallMoves DEF PortInv
    <3> QED
      BY <2>1, <3>6 DEF PortInv
  <2>3. CASE RememberReplyLost(c)
    <3>1. PICK r : r = Fails(calls[c], "MEMORY_UNAVAILABLE")
      OBVIOUS
    <3>2. calls' = [calls EXCEPT ![c] = r]
      BY <2>3, <3>1 DEF RememberReplyLost
    <3>3. r = [calls[c] EXCEPT !.pc = "failed", !.code = "MEMORY_UNAVAILABLE"]
      BY <1>1, <3>1 DEF Fails
    <3>4. r = [f \in CallFields |-> r[f]] /\ r.pc = "failed"
      BY <1>1, <3>3 DEF CallFields
    <3>5. CallSound(c, r)'
      BY <3>4 DEF CallSound, CallPcs
    <3>6. CallsInv'
      BY <2>1, <3>2, <3>5, OneCallMoves DEF PortInv
    <3> QED
      BY <2>1, <3>6 DEF PortInv
  <2> QED
    BY <2>2, <2>3
<1>4. CASE Remember(c) /\ Known(q) # {}
  <2>1. PICK i \in DOMAIN memories :
          /\ UNCHANGED memories
          /\ calls' = [calls EXCEPT ![c] =
               IF memories[i].content # Content(q) THEN Fails(calls[c], "MEMORY_CONFLICT")
               ELSE IF ~ReadbackMatches(memories[i], q, Pinned[c])
                 THEN Fails(calls[c], "MEMORY_READBACK_MISMATCH")
               ELSE [calls[c] EXCEPT !.pc = "readback",
                       !.memory = [id |-> i, version |-> memories'[i].version]]]
    <3>1. (CHOOSE k \in Known(q) : TRUE) \in DOMAIN memories
      BY <1>4 DEF Known
    <3> QED
      BY <1>4, <3>1 DEF Remember, PortInv, CallsInv
  <2>2. CASE \E code : calls' = [calls EXCEPT ![c] = Fails(calls[c], code)]
    <3>1. PICK code : calls' = [calls EXCEPT ![c] = Fails(calls[c], code)]
      BY <2>2
    <3>2. CallSound(c, Fails(calls[c], code))
      BY <1>1, FailsSound
    <3> QED
      BY <2>1, <3>1, <3>2, CallMoves
  <2>3. CASE /\ memories[i].content = Content(q)
             /\ calls' = [calls EXCEPT ![c] =
                  [calls[c] EXCEPT !.pc = "readback",
                     !.memory = [id |-> i, version |-> memories'[i].version]]]
    <3> DEFINE l == [calls[c] EXCEPT !.pc = "readback",
                       !.memory = [id |-> i, version |-> memories'[i].version]]
    <3>1. /\ l = [f \in CallFields |-> l[f]] /\ l.pc = "readback" /\ l.kind = "write"
          /\ l.req = q /\ l.memory.id = i
      BY <1>1 DEF CallFields
    <3>2. calls' = [calls EXCEPT ![c] = l]
      BY <2>3
    <3> HIDE DEF l, q
    <3>3. CallSound(c, l)
      BY <2>3, <3>1 DEF CallSound, CallPcs, HasWritten
    <3> QED
      BY <2>1, <3>2, <3>3, CallMoves
  <2> QED
    BY <2>1, <2>2, <2>3
<1> QED
  BY <1>3, <1>4 DEF Remember, RememberReplyLost

\* An upgrade, another token, a memory forgotten or given feedback: contents,
\* keys and scopes of the memories stay.
LEMMA ServerChangesInv ==
  ASSUME PortInv, ServerChanges
  PROVE  PortInv'
<1>1. CASE UNCHANGED memories
  BY <1>1 DEF ServerChanges, PortInv, MemoriesInv, CallsInv, CallSound, HasWritten
<1>2. CASE \E i \in DOMAIN memories :
             \/ memories' = [memories EXCEPT ![i].active = FALSE]
             \/ memories' = [memories EXCEPT ![i].version = @ + 1]
  <2>1. PICK i \in DOMAIN memories, m \in MemoryRecords :
          /\ memories' = [memories EXCEPT ![i] = m]
          /\ m.content = memories[i].content /\ m.key = memories[i].key
          /\ m.scope = memories[i].scope /\ m.req = memories[i].req
    <3>1. PICK i \in DOMAIN memories :
            \/ memories' = [memories EXCEPT ![i].active = FALSE]
            \/ memories' = [memories EXCEPT ![i].version = @ + 1]
      BY <1>2
    <3>2. memories[i] \in MemoryRecords
      BY DEF PortInv, MemoriesInv
    <3>3. PICK m : m = IF memories' = [memories EXCEPT ![i].active = FALSE]
                       THEN [memories[i] EXCEPT !.active = FALSE]
                       ELSE [memories[i] EXCEPT !.version = @ + 1]
      OBVIOUS
    <3>4. memories' = [memories EXCEPT ![i] = m]
      BY <3>1, <3>3
    <3>5. /\ m \in MemoryRecords
          /\ m.content = memories[i].content /\ m.key = memories[i].key
          /\ m.scope = memories[i].scope /\ m.req = memories[i].req
      <4>1. CASE m = [memories[i] EXCEPT !.active = FALSE]
        BY <3>2, <4>1 DEF MemoryRecords
      <4>2. CASE m = [memories[i] EXCEPT !.version = @ + 1]
        BY <3>2, <4>2 DEF MemoryRecords
      <4> QED
        BY <3>3, <4>1, <4>2
    <3> QED
      BY <3>4, <3>5
  <2>2. memories \in Seq(MemoryRecords) /\ DOMAIN memories' = DOMAIN memories
    BY <2>1 DEF PortInv, MemoriesInv
  <2>3. \A k \in DOMAIN memories : memories'[k] = IF k = i THEN m ELSE memories[k]
    BY <2>1
  <2>4. memories' \in Seq(MemoryRecords)
    BY <2>1, <2>2
  <2>5. \A k \in DOMAIN memories :
          /\ memories'[k].content = memories[k].content /\ memories'[k].key = memories[k].key
          /\ memories'[k].scope = memories[k].scope /\ memories'[k].req = memories[k].req
    BY <2>1, <2>3
  <2>6. MemoriesInv'
    BY <2>2, <2>4, <2>5 DEF PortInv, MemoriesInv
  <2>7. UNCHANGED calls
    BY DEF ServerChanges
  <2>8. ASSUME NEW c \in Callers PROVE CallSound(c, calls[c])'
    BY <2>2, <2>5, <2>7 DEF PortInv, CallsInv, CallSound, HasWritten
  <2>9. CallsInv'
    BY <2>7, <2>8 DEF PortInv, CallsInv
  <2> QED
    BY <2>6, <2>9 DEF PortInv
<1> QED
  BY <1>1, <1>2 DEF ServerChanges

\* Every step of the adapters and of the server, and those of the context CLI.
LEMMA PortStepInv == PortInv /\ [PortNext]_portVars => PortInv'
<1> SUFFICES ASSUME PortInv, [PortNext]_portVars PROVE PortInv'
  OBVIOUS
<1>1. ASSUME NEW c \in Callers, WriteStarts(c) \/ RecallStarts(c) PROVE PortInv'
  BY <1>1, StartsInv
<1>2. ASSUME NEW c \in Callers, CheckVersion(c) \/ CheckCapabilities(c) \/ RequestFails(c)
      PROVE  PortInv'
  BY <1>2, PreflightInv
<1>3. ASSUME NEW c \in Callers, Remember(c) \/ RememberReplyLost(c) PROVE PortInv'
  BY <1>3, RememberInv
<1>4. ASSUME NEW c \in Callers, ReadBack(c) \/ Recall(c) PROVE PortInv'
  BY <1>4, AnswersInv
<1>5. CASE ServerChanges
  BY <1>5, ServerChangesInv
<1>6. CASE UNCHANGED <<memories, calls>>
  BY <1>6 DEF PortInv, MemoriesInv, CallsInv, CallSound, HasWritten
<1>7. ContextNext \/ UNCHANGED portVars => UNCHANGED <<memories, calls>>
  BY DEF ContextNext, ContextSpawns, ContextKilled, ContextSpawnError, ContextCloses, portVars
<1> QED
  BY <1>1, <1>2, <1>3, <1>4, <1>5, <1>6, <1>7 DEF PortNext, MemoryNext

\* A turn's outcome is remembered once, with the content it was given, and no
\* call reads or writes a memory of another scope: for every set of callers,
\* requests and server revisions, whatever replies are lost and retried.
THEOREM MemoryIsolated == PortSpec => []MemorySound
<1>1. PortInv => MemorySound
  <2> SUFFICES ASSUME PortInv PROVE MemorySound
    OBVIOUS
  <2>1. ASSUME NEW i \in DOMAIN memories, NEW j \in DOMAIN memories, i # j
        PROVE  LET a == memories[i].req  b == memories[j].req IN
               <<a.instance, a.session, a.turn, a.position, a.digest>>
                 # <<b.instance, b.session, b.turn, b.position, b.digest>>
    BY <2>1 DEF PortInv, MemoriesInv, IdempotencyKey
  <2>2. RememberedOnce
    BY <2>1 DEF PortInv, CallsInv, CallSound, HasWritten, RememberedOnce
  <2>3. ScopesIsolated
    BY DEF PortInv, MemoriesInv, CallsInv, CallSound, ScopesIsolated
  <2> QED
    BY <2>2, <2>3 DEF MemorySound
<1> QED
  BY <1>1, PortInitInv, PortStepInv, PTL DEF PortSpec
-----------------------------------------------------------------------------
(* The organisation and its permissions.                                   *)

ApplyFields == {"pc", "current", "scan", "next"}
ApplyPcs ==
  {"idle", "scan", "declare", "write", "audit", "permissions", "unlogged", "done", "failed"}
TurnFields == {"pc", "pos", "org", "perm", "calm"}

\* The segments of the paths a scope can be: those of the bootstrap document,
\* the work territory of a hire, the directories of the tree.
Segments == PathSegments \cup Positions \cup {"work", "positions", "context"}

\* A model is about positions and gives each a memory scope that is a path.
AboutPositions(m) ==
  /\ DOMAIN m \subseteq Positions
  /\ \A p \in DOMAIN m : m[p].memoryScope \in Seq(Segments)

AuditEntries == [hired : SUBSET Positions, dismissed : SUBSET Positions,
                 moved : SUBSET Positions, budget : SUBSET Positions]

\* An apply compares with the bootstrap document or with a model that was
\* published, writes only what it validated, and goes on to the audit log and
\* the permissions only with what it has published.
ApplySound(l) ==
  /\ l = [f \in ApplyFields |-> l[f]] /\ l.pc \in ApplyPcs
  /\ l.pc = "declare" => DOMAIN l.scan \subseteq Positions
  /\ l.pc \in {"scan", "declare", "write", "audit", "permissions", "unlogged"} =>
       l.current \in published \cup {Bootstrap}
  /\ l.pc \in {"write", "audit", "permissions"} => AboutPositions(l.next)
  /\ l.pc = "write" => ValidOrganization(l.next)
  /\ l.pc \in {"audit", "permissions", "unlogged"} => l.next \in published

AppliesInv ==
  /\ applies = [a \in Appliers |-> applies[a]]
  /\ \A a \in Appliers : ApplySound(applies[a])

FilesInv ==
  /\ DOMAIN tree \subseteq Positions
  /\ auditLog \in Seq(AuditEntries)
  /\ \A m \in published : ValidOrganization(m) /\ AboutPositions(m)
  /\ orgFile # None => orgFile \in published
  /\ PermissionsFollowModel

HireTold(p) ==
  \/ \E i \in DOMAIN auditLog : p \in auditLog[i].hired
  \/ \E a \in Appliers : applies[a].pc \in {"audit", "unlogged"}
                           /\ p \in DOMAIN applies[a].next \ DOMAIN applies[a].current

\* Not only the hires of the model that org.json holds now: an apply may still
\* compare with one it read earlier, and finds no hire in what that one has.
EveryHireTold == \A m \in published : \A p \in DOMAIN m \ DOMAIN Bootstrap : HireTold(p)

\* While the files are not torn at most one apply is between its writes, and
\* org.json is the model it wrote; with none between them the files agree.
FilesTogether ==
  /\ torn \in BOOLEAN
  /\ ~torn => \A a \in Appliers : Writing(a) =>
       /\ orgFile = applies[a].next
       /\ \A b \in Appliers : Writing(b) => b = a
  /\ FilesAgree

\* A turn that is still calm finds the files settled, with the model it read.
TurnInv ==
  /\ turn = [f \in TurnFields |-> turn[f]]
  /\ turn.pc \in {"package", "permissions"} /\ turn.calm =>
       Settled /\ orgFile # None /\ turn.org = orgFile
  /\ TurnReadsOneApply

OrgInv == AppliesInv /\ FilesInv /\ EveryHireTold /\ FilesTogether /\ TurnInv

\* The bootstrap document is about positions, too.
LEMMA BootstrapFacts == AboutPositions(Bootstrap)
<1>1. PathSegments \subseteq Segments
  BY DEF Segments
<1>2. \A p \in DOMAIN Bootstrap : Bootstrap[p].memoryScope \in Seq(Segments)
  BY <1>1, OrgAssumption
<1> QED
  BY <1>2, OrgAssumption DEF AboutPositions

\* No apply has begun and no file is there.
LEMMA OrgInitInv == OrgInit => OrgInv
<1> SUFFICES ASSUME OrgInit PROVE OrgInv
  OBVIOUS
<1>1. ASSUME NEW a \in Appliers PROVE ApplySound(applies[a])
  <2>1. applies[a] = Idle
    BY DEF OrgInit
  <2>2. Idle = [f \in ApplyFields |-> Idle[f]] /\ Idle.pc = "idle"
    BY DEF Idle, ApplyFields
  <2> QED
    BY <2>1, <2>2 DEF ApplySound, ApplyPcs
<1>2. AppliesInv
  BY <1>1 DEF OrgInit, AppliesInv
<1>3. FilesInv
  BY OrgAssumption DEF OrgInit, FilesInv, PermissionsFollowModel
<1>4. EveryHireTold
  BY DEF OrgInit, EveryHireTold
<1>5. ASSUME NEW a \in Appliers PROVE ~Writing(a)
  <2>1. applies[a] = Idle
    BY DEF OrgInit
  <2>2. Idle.pc = "idle"
    BY DEF Idle
  <2> QED
    BY <2>1, <2>2 DEF Writing
<1>6. FilesTogether
  BY <1>5 DEF OrgInit, FilesTogether, FilesAgree
<1>7. TurnInv
  <2>1. NoTurn = [f \in TurnFields |-> NoTurn[f]] /\ NoTurn.pc = "idle"
    BY DEF NoTurn, TurnFields
  <2> QED
    BY <2>1 DEF OrgInit, TurnInv, TurnReadsOneApply
<1> QED
  BY <1>2, <1>3, <1>4, <1>6, <1>7 DEF OrgInv

\* A step that neither begins nor ends a write of the files, and moves no turn.
LEMMA FilesUntouched ==
  ASSUME OrgInv, UNCHANGED <<orgFile, permFile, published, torn, turn>>,
         \A b \in Appliers : Writing(b)' = Writing(b),
         \A b \in Appliers : Writing(b) => applies'[b].next = applies[b].next
  PROVE  FilesTogether' /\ TurnInv'
<1>1. Settled' = Settled
  BY DEF Settled
<1>2. FilesAgree'
  BY <1>1 DEF OrgInv, FilesTogether, FilesAgree
<1>3. torn' \in BOOLEAN
  BY DEF OrgInv, FilesTogether
<1>4. ASSUME ~torn', NEW a \in Appliers, Writing(a)'
      PROVE  /\ orgFile' = applies'[a].next
             /\ \A b \in Appliers : Writing(b)' => b = a
  <2>1. Writing(a) /\ ~torn
    BY <1>4
  <2>2. orgFile = applies[a].next /\ \A b \in Appliers : Writing(b) => b = a
    BY <2>1 DEF OrgInv, FilesTogether
  <2> QED
    BY <2>1, <2>2
<1>5. FilesTogether'
  BY <1>2, <1>3, <1>4 DEF FilesTogether
<1>6. TurnInv'
  BY <1>1 DEF OrgInv, TurnInv, TurnReadsOneApply
<1> QED
  BY <1>5, <1>6

\* A turn that is calm sees no apply between its writes: what such an apply
\* does next is not its concern.
LEMMA TurnNotCalm ==
  ASSUME OrgInv, NEW a \in Appliers, Writing(a), UNCHANGED <<turn, published>>
  PROVE  TurnInv'
<1>1. ~(turn.pc \in {"package", "permissions"} /\ turn.calm)
  BY DEF OrgInv, TurnInv, Settled
<1> QED
  BY <1>1 DEF OrgInv, TurnInv, TurnReadsOneApply

\* A step of one apply, over models that were published for good.
LEMMA OneApplyMoves ==
  ASSUME AppliesInv, published \subseteq published', NEW a \in Appliers, NEW l,
         applies' = [applies EXCEPT ![a] = l], ApplySound(l)'
  PROVE  /\ AppliesInv'
         /\ \A b \in Appliers : applies'[b] = IF b = a THEN l ELSE applies[b]
<1>1. \A b \in Appliers : applies'[b] = IF b = a THEN l ELSE applies[b]
  BY DEF AppliesInv
<1>2. applies' = [b \in Appliers |-> applies'[b]]
  BY DEF AppliesInv
<1>3. ASSUME NEW b \in Appliers PROVE ApplySound(applies[b])'
  <2>1. CASE b = a
    <3>1. applies'[b] = l
      BY <1>1, <2>1
    <3> QED
      BY <3>1 DEF ApplySound
  <2>2. CASE b # a
    <3>1. applies'[b] = applies[b] /\ ApplySound(applies[b])
      BY <1>1, <2>2 DEF AppliesInv
    <3> QED
      BY <3>1 DEF ApplySound
  <2> QED
    BY <2>1, <2>2
<1> QED
  BY <1>1, <1>2, <1>3 DEF AppliesInv

\* A step of one apply before its first write, or one that writes nothing.
LEMMA ApplyMoves ==
  ASSUME OrgInv, UNCHANGED <<tree, orgFile, auditLog, permFile, published, torn, turn>>,
         NEW a \in Appliers, NEW l, applies' = [applies EXCEPT ![a] = l], ApplySound(l),
         applies[a].pc \notin {"audit", "permissions", "unlogged"},
         l.pc \notin {"audit", "permissions", "unlogged"}
  PROVE  OrgInv'
<1>1. ApplySound(l)'
  BY DEF ApplySound
<1>2. AppliesInv' /\ \A b \in Appliers : applies'[b] = IF b = a THEN l ELSE applies[b]
  BY <1>1, OneApplyMoves DEF OrgInv
<1>3. FilesInv'
  BY DEF OrgInv, FilesInv, PermissionsFollowModel
<1>4. EveryHireTold'
  <2>1. \A b \in Appliers : applies[b].pc \in {"audit", "unlogged"} => applies'[b] = applies[b]
    BY <1>2
  <2>2. \A p : HireTold(p) => HireTold(p)'
    BY <2>1 DEF HireTold
  <2> QED
    BY <2>2 DEF OrgInv, EveryHireTold
<1>5. FilesTogether' /\ TurnInv'
  <2>1. \A b \in Appliers : Writing(b)' = Writing(b)
    BY <1>2 DEF Writing
  <2>2. \A b \in Appliers : Writing(b) => applies'[b].next = applies[b].next
    BY <1>2 DEF Writing
  <2> QED
    BY <2>1, <2>2, FilesUntouched
<1> QED
  BY <1>2, <1>3, <1>4, <1>5 DEF OrgInv

\* What an apply makes of the tree and of the model it read.
LEMMA AppliedModel ==
  ASSUME FilesInv, NEW cur \in published \cup {Bootstrap}, NEW s, DOMAIN s \subseteq Positions
  PROVE  AboutPositions([p \in DOMAIN s |-> AppliedRole(cur, p, s[p].reportTo)])
<1> DEFINE next == [p \in DOMAIN s |-> AppliedRole(cur, p, s[p].reportTo)]
<1>1. AboutPositions(cur)
  BY BootstrapFacts DEF FilesInv
<1>2. ASSUME NEW p \in DOMAIN s PROVE next[p].memoryScope \in Seq(Segments)
  <2>1. next[p].memoryScope = IF p \in DOMAIN cur THEN cur[p].memoryScope ELSE <<"work", p>>
    BY DEF AppliedRole
  <2>2. <<"work", p>> \in Seq(Segments)
    <3>1. "work" \in Segments /\ p \in Segments
      BY <1>2 DEF Segments
    <3> QED
      BY <3>1
  <2> QED
    BY <1>1, <2>1, <2>2 DEF AboutPositions
<1>3. DOMAIN next = DOMAIN s
  OBVIOUS
<1> HIDE DEF next
<1>4. AboutPositions(next)
  BY <1>2, <1>3 DEF AboutPositions
<1> QED
  BY <1>4 DEF next

\* A failed apply.
LEMMA FailedSound ==
  ApplySound([Idle EXCEPT !.pc = "failed"]) /\ [Idle EXCEPT !.pc = "failed"].pc = "failed"
<1> DEFINE l == [Idle EXCEPT !.pc = "failed"]
<1>1. l.pc = "failed" /\ l = [f \in ApplyFields |-> l[f]]
  BY DEF Idle, ApplyFields
<1> HIDE DEF l
<1>2. ApplySound(l)
  BY <1>1 DEF ApplySound, ApplyPcs
<1> QED
  BY <1>1, <1>2 DEF l

\* The steps of an apply before its first write.
LEMMA ApplyReadsInv ==
  ASSUME OrgInv, NEW a \in Appliers, ApplyLoad(a) \/ ApplyScan(a) \/ ApplyDeclare(a)
  PROVE  OrgInv'
<1>1. /\ ApplySound(applies[a]) /\ applies[a] = [f \in ApplyFields |-> applies[a][f]]
      /\ UNCHANGED <<orgFile, auditLog, permFile, published, tree, torn, turn>>
  BY DEF OrgInv, AppliesInv, ApplySound, ApplyLoad, ApplyScan, ApplyDeclare
<1>3. CASE ApplyLoad(a)
  <2> DEFINE l == [Idle EXCEPT !.pc = "scan",
                     !.current = IF orgFile = None THEN Bootstrap ELSE orgFile]
  <2>1. /\ l = [f \in ApplyFields |-> l[f]] /\ l.pc = "scan"
        /\ l.current = IF orgFile = None THEN Bootstrap ELSE orgFile
    BY DEF Idle, ApplyFields
  <2>2. applies' = [applies EXCEPT ![a] = l] /\ applies[a].pc = "idle"
    BY <1>3 DEF ApplyLoad
  <2> HIDE DEF l
  <2>3. ApplySound(l)
    BY <2>1 DEF ApplySound, ApplyPcs, OrgInv, FilesInv
  <2> QED
    BY <1>1, <2>1, <2>2, <2>3, ApplyMoves
<1>4. CASE ApplyScan(a)
  <2> DEFINE s == [p \in DOMAIN tree |-> [reportTo |-> tree[p].reportTo]]
             l == [applies[a] EXCEPT !.pc = "declare", !.scan = s]
  <2>1. DOMAIN s \subseteq Positions
    BY DEF OrgInv, FilesInv
  <2>2. applies' = [applies EXCEPT ![a] = l] /\ applies[a].pc = "scan"
    BY <1>4 DEF ApplyScan, OrgInv, AppliesInv
  <2> HIDE DEF s
  <2>3. /\ l = [f \in ApplyFields |-> l[f]] /\ l.pc = "declare" /\ l.scan = s
        /\ l.current = applies[a].current
    BY <1>1 DEF ApplyFields
  <2> HIDE DEF l
  <2>4. ApplySound(l)
    BY <1>1, <2>1, <2>2, <2>3 DEF ApplySound, ApplyPcs
  <2> QED
    BY <1>1, <2>2, <2>3, <2>4, ApplyMoves
<1>5. CASE ApplyDeclare(a)
  <2> DEFINE s == applies[a].scan
             next == [p \in DOMAIN s |-> AppliedRole(applies[a].current, p, s[p].reportTo)]
             l == [applies[a] EXCEPT !.pc = "write", !.next = next, !.scan = None]
  <2>1. applies[a].pc = "declare"
    BY <1>5 DEF ApplyDeclare
  <2>2. AboutPositions(next)
    <3>1. applies[a].current \in published \cup {Bootstrap} /\ DOMAIN s \subseteq Positions
      BY <1>1, <2>1 DEF ApplySound
    <3> HIDE DEF s
    <3> QED
      BY <3>1, AppliedModel DEF OrgInv
  <2>3. \/ applies' = [applies EXCEPT ![a] = [Idle EXCEPT !.pc = "failed"]]
        \/ applies' = [applies EXCEPT ![a] = l] /\ ValidOrganization(next)
    BY <1>5 DEF ApplyDeclare, OrgInv, AppliesInv
  <2> HIDE DEF next
  <2>4. /\ l = [f \in ApplyFields |-> l[f]] /\ l.pc = "write" /\ l.next = next
        /\ l.current = applies[a].current
    BY <1>1 DEF ApplyFields
  <2> HIDE DEF l
  <2>5. ValidOrganization(next) => ApplySound(l)
    BY <1>1, <2>1, <2>2, <2>4 DEF ApplySound, ApplyPcs
  <2>6. CASE applies' = [applies EXCEPT ![a] = [Idle EXCEPT !.pc = "failed"]]
    BY <1>1, <2>1, <2>6, FailedSound, ApplyMoves
  <2>7. CASE applies' = [applies EXCEPT ![a] = l] /\ ValidOrganization(next)
    BY <1>1, <2>1, <2>4, <2>5, <2>7, ApplyMoves
  <2> QED
    BY <2>3, <2>6, <2>7
<1> QED
  BY <1>3, <1>4, <1>5

\* An apply that breaks off between its writes leaves the files torn; what it
\* hired and did not log stays known.
LEMMA AbortsInv ==
  ASSUME OrgInv, NEW a \in Appliers, ApplyAborts(a)
  PROVE  OrgInv'
<1> DEFINE f == [Idle EXCEPT !.pc = "failed"]
           u == [applies[a] EXCEPT !.pc = "unlogged"]
           l == IF applies[a].pc = "audit" THEN u ELSE f
<1>1. /\ ApplySound(applies[a]) /\ applies[a] = [x \in ApplyFields |-> applies[a][x]]
      /\ UNCHANGED <<orgFile, auditLog, permFile, published, tree, turn>>
      /\ torn' = (torn \/ Writing(a))
      /\ applies[a].pc \in {"write", "audit", "permissions"}
  BY DEF OrgInv, AppliesInv, ApplySound, ApplyAborts, Writing
<1>2. applies' = [applies EXCEPT ![a] = l]
  BY DEF ApplyAborts, OrgInv, AppliesInv
<1>3. ApplySound(f) /\ f.pc = "failed"
  BY FailedSound
<1>4. /\ u = [x \in ApplyFields |-> u[x]] /\ u.pc = "unlogged"
      /\ u.next = applies[a].next /\ u.current = applies[a].current
  BY <1>1 DEF ApplyFields
<1> HIDE DEF f, u
<1>5. CASE applies[a].pc = "write"
  <2>1. torn' = torn
    BY <1>1, <1>5 DEF OrgInv, FilesTogether, Writing
  <2>2. applies' = [applies EXCEPT ![a] = f]
    BY <1>2, <1>5
  <2> QED
    BY <1>1, <1>3, <1>5, <2>1, <2>2, ApplyMoves
<1>6. CASE applies[a].pc \in {"audit", "permissions"}
  <2>1. PICK r : r = l
    OBVIOUS
  <2>2. r = IF applies[a].pc = "audit" THEN u ELSE f
    BY <2>1
  <2>3. ApplySound(u) \/ applies[a].pc # "audit"
    BY <1>1, <1>4 DEF ApplySound, ApplyPcs
  <2>4. ApplySound(r)'
    BY <1>1, <1>3, <2>2, <2>3 DEF ApplySound
  <2>5. applies' = [applies EXCEPT ![a] = r] /\ published \subseteq published'
    BY <1>1, <1>2, <2>1
  <2> HIDE DEF l
  <2>6. AppliesInv' /\ \A b \in Appliers : applies'[b] = IF b = a THEN r ELSE applies[b]
    BY <2>4, <2>5, OneApplyMoves DEF OrgInv
  <2>7. FilesInv'
    BY <1>1 DEF OrgInv, FilesInv, PermissionsFollowModel
  <2>8. EveryHireTold'
    <3>1. \A b \in Appliers : applies[b].pc \in {"audit", "unlogged"} =>
            /\ applies'[b].pc \in {"audit", "unlogged"}
            /\ applies'[b].next = applies[b].next /\ applies'[b].current = applies[b].current
      BY <1>4, <1>6, <2>2, <2>6
    <3>2. \A p : HireTold(p) => HireTold(p)'
      BY <1>1, <3>1 DEF HireTold
    <3> QED
      BY <1>1, <3>2 DEF OrgInv, EveryHireTold
  <2>9. Writing(a) /\ torn' = TRUE
    BY <1>1, <1>6 DEF Writing
  <2>10. FilesTogether'
    BY <2>9 DEF FilesTogether, FilesAgree, Settled
  <2>11. TurnInv'
    BY <1>1, <2>9, TurnNotCalm
  <2> QED
    BY <2>6, <2>7, <2>8, <2>10, <2>11 DEF OrgInv
<1> QED
  BY <1>1, <1>5, <1>6

\* org.json is replaced by a model that was validated; who is new in it is new
\* to the model read as well, or was told when that one was published.  The
\* files are torn from here on only if another apply is between its writes.
LEMMA WriteModelInv ==
  ASSUME OrgInv, NEW a \in Appliers, ApplyWriteModel(a)
  PROVE  OrgInv'
<1> DEFINE l == [applies[a] EXCEPT !.pc = "audit"]
<1>1. /\ ApplySound(applies[a]) /\ applies[a] = [f \in ApplyFields |-> applies[a][f]]
      /\ applies[a].pc = "write"
  BY DEF OrgInv, AppliesInv, ApplySound, ApplyWriteModel
<1>2. /\ ValidOrganization(applies[a].next) /\ AboutPositions(applies[a].next)
      /\ applies[a].current \in published \cup {Bootstrap}
  BY <1>1 DEF ApplySound
<1>3. /\ orgFile' = applies[a].next /\ published' = published \cup {applies[a].next}
      /\ UNCHANGED <<tree, auditLog, permFile>>
  BY DEF ApplyWriteModel
<1>4. applies' = [applies EXCEPT ![a] = l]
  BY DEF ApplyWriteModel, OrgInv, AppliesInv
<1>5. /\ l = [f \in ApplyFields |-> l[f]] /\ l.pc = "audit"
      /\ l.next = applies[a].next /\ l.current = applies[a].current
  BY <1>1 DEF ApplyFields
<1> HIDE DEF l
<1>6. PICK r : r = l
  OBVIOUS
<1>7. ApplySound(r)'
  BY <1>2, <1>3, <1>5, <1>6 DEF ApplySound, ApplyPcs
<1>8. published \subseteq published' /\ applies' = [applies EXCEPT ![a] = r]
  BY <1>3, <1>4, <1>6
<1>9. AppliesInv' /\ \A b \in Appliers : applies'[b] = IF b = a THEN r ELSE applies[b]
  BY <1>7, <1>8, OneApplyMoves DEF OrgInv
<1>10. FilesInv'
  BY <1>2, <1>3 DEF OrgInv, FilesInv, PermissionsFollowModel
<1>11. EveryHireTold'
  <2> SUFFICES ASSUME NEW m \in published \cup {applies[a].next},
                      NEW p \in DOMAIN m \ DOMAIN Bootstrap
               PROVE  HireTold(p)'
    BY <1>3 DEF EveryHireTold
  <2>1. HireTold(p) => HireTold(p)'
    <3>1. \A b \in Appliers :
            applies[b].pc \in {"audit", "unlogged"} => applies'[b] = applies[b]
      BY <1>1, <1>9
    <3> QED
      BY <1>3, <3>1 DEF HireTold
  <2>2. CASE m \in published
    BY <2>1, <2>2 DEF OrgInv, EveryHireTold
  <2>3. CASE m = applies[a].next
    <3>1. CASE p \in DOMAIN applies[a].current
      <4>1. applies[a].current \in published
        BY <1>2, <3>1
      <4> QED
        BY <2>1, <3>1, <4>1 DEF OrgInv, EveryHireTold
    <3>2. CASE p \notin DOMAIN applies[a].current
      <4>1. applies'[a] = r
        BY <1>9
      <4> QED
        BY <1>5, <1>6, <2>3, <3>2, <4>1 DEF HireTold
    <3> QED
      BY <3>1, <3>2
  <2> QED
    BY <2>2, <2>3
<1>12. FilesTogether'
  <2>1. applies'[a].pc = "audit" /\ applies'[a].next = applies[a].next
    BY <1>5, <1>6, <1>9
  <2>2. \A b \in Appliers : b # a => Writing(b)' = Writing(b)
    BY <1>9 DEF Writing
  <2>3. Writing(a)' /\ ~Writing(a)
    BY <1>1, <2>1 DEF Writing
  <2>4. torn' = \E b \in Appliers : Writing(b)
    BY DEF ApplyWriteModel
  <2>5. FilesAgree'
    BY <2>3 DEF FilesAgree, Settled
  <2>6. ASSUME ~torn', NEW b \in Appliers, Writing(b)' PROVE b = a
    BY <2>2, <2>4, <2>6
  <2>7. torn' \in BOOLEAN
    BY <2>4
  <2> QED
    BY <1>3, <2>1, <2>5, <2>6, <2>7 DEF FilesTogether
<1>13. TurnInv'
  <2>1. turn = [f \in TurnFields |-> turn[f]]
    BY DEF OrgInv, TurnInv
  <2>2. turn' = [turn EXCEPT !.calm = turn.calm /\ turn.pc = "running"]
    BY DEF ApplyWriteModel
  <2>3. /\ turn' = [f \in TurnFields |-> turn'[f]] /\ turn'.pc = turn.pc
        /\ turn'.org = turn.org /\ turn'.perm = turn.perm
        /\ turn'.calm = (turn.calm /\ turn.pc = "running")
    BY <2>1, <2>2 DEF TurnFields
  <2>4. TurnReadsOneApply'
    BY <1>3, <2>3 DEF OrgInv, TurnInv, TurnReadsOneApply
  <2> QED
    BY <2>3, <2>4 DEF TurnInv
<1> QED
  BY <1>9, <1>10, <1>11, <1>12, <1>13 DEF OrgInv

\* The entry is appended: what was pending in this apply is told by the log.
LEMMA AuditInv ==
  ASSUME OrgInv, NEW a \in Appliers, ApplyAudit(a)
  PROVE  OrgInv'
<1> DEFINE l == [applies[a] EXCEPT !.pc = "permissions"]
           e == Changes(applies[a].current, applies[a].next)
           n == Len(auditLog)
<1>1. /\ ApplySound(applies[a]) /\ applies[a] = [f \in ApplyFields |-> applies[a][f]]
      /\ applies[a].pc = "audit"
  BY DEF OrgInv, AppliesInv, ApplySound, ApplyAudit
<1>2. /\ applies[a].next \in published /\ AboutPositions(applies[a].next)
      /\ applies[a].current \in published \cup {Bootstrap}
  BY <1>1 DEF ApplySound
<1>3. UNCHANGED <<tree, orgFile, permFile, published>> /\ auditLog' = Append(auditLog, e)
  BY DEF ApplyAudit
<1>4. applies' = [applies EXCEPT ![a] = l]
  BY DEF ApplyAudit, OrgInv, AppliesInv
<1>5. /\ l = [f \in ApplyFields |-> l[f]] /\ l.pc = "permissions"
      /\ l.next = applies[a].next /\ l.current = applies[a].current
  BY <1>1 DEF ApplyFields
<1>6. e \in AuditEntries /\ e.hired = DOMAIN applies[a].next \ DOMAIN applies[a].current
  <2>1. AboutPositions(applies[a].current)
    BY <1>2, BootstrapFacts DEF OrgInv, FilesInv
  <2>2. DOMAIN applies[a].current \subseteq Positions /\ DOMAIN applies[a].next \subseteq Positions
    BY <1>2, <2>1 DEF AboutPositions
  <2> QED
    BY <2>2 DEF Changes, AuditEntries
<1> HIDE DEF l, e
<1>7. /\ auditLog' \in Seq(AuditEntries) /\ DOMAIN auditLog' = 1..(n + 1)
      /\ DOMAIN auditLog = 1..n /\ n \in Nat
      /\ \A i \in 1..n : auditLog'[i] = auditLog[i]
      /\ auditLog'[n + 1] = e
  BY <1>3, <1>6 DEF OrgInv, FilesInv
<1>8. ApplySound(l)
  BY <1>1, <1>2, <1>5 DEF ApplySound, ApplyPcs
<1>9. AppliesInv' /\ \A b \in Appliers : applies'[b] = IF b = a THEN l ELSE applies[b]
  <2>1. PICK r : r = l
    OBVIOUS
  <2>2. ApplySound(r)'
    BY <1>3, <1>8, <2>1 DEF ApplySound
  <2>3. applies' = [applies EXCEPT ![a] = r] /\ published \subseteq published'
    BY <1>3, <1>4, <2>1
  <2>4. AppliesInv' /\ \A b \in Appliers : applies'[b] = IF b = a THEN r ELSE applies[b]
    BY <2>2, <2>3, OneApplyMoves DEF OrgInv
  <2> QED
    BY <2>1, <2>4
<1>10. FilesInv'
  BY <1>3, <1>7 DEF OrgInv, FilesInv, PermissionsFollowModel
<1>11. EveryHireTold'
  <2> SUFFICES ASSUME NEW m \in published, NEW p \in DOMAIN m \ DOMAIN Bootstrap
               PROVE  HireTold(p)'
    BY <1>3 DEF EveryHireTold
  <2>2. HireTold(p)
    BY DEF OrgInv, EveryHireTold
  <2>3. CASE \E i \in DOMAIN auditLog : p \in auditLog[i].hired
    BY <1>7, <2>3 DEF HireTold
  <2>4. ASSUME NEW b \in Appliers, applies[b].pc \in {"audit", "unlogged"},
               p \in DOMAIN applies[b].next \ DOMAIN applies[b].current
        PROVE  HireTold(p)'
    <3>1. CASE b = a
      <4>1. p \in auditLog'[n + 1].hired /\ n + 1 \in DOMAIN auditLog'
        BY <1>6, <1>7, <2>4, <3>1
      <4> QED
        BY <4>1 DEF HireTold
    <3>2. CASE b # a
      <4>1. applies'[b] = applies[b]
        BY <1>9, <3>2
      <4> QED
        BY <2>4, <4>1 DEF HireTold
    <3> QED
      BY <3>1, <3>2
  <2> QED
    BY <2>2, <2>3, <2>4 DEF HireTold
<1>12. FilesTogether' /\ TurnInv'
  <2>1. applies'[a] = l
    BY <1>9
  <2>2. \A b \in Appliers : Writing(b)' = Writing(b)
    BY <1>1, <1>5, <1>9, <2>1 DEF Writing
  <2>3. \A b \in Appliers : applies'[b].next = applies[b].next
    BY <1>5, <1>9, <2>1
  <2>4. UNCHANGED <<turn, torn>>
    BY DEF ApplyAudit
  <2> QED
    BY <1>3, <2>2, <2>3, <2>4, FilesUntouched
<1> QED
  BY <1>9, <1>10, <1>11, <1>12 DEF OrgInv

\* The permissions of a model that was published: of the one in org.json, if
\* the files are not torn.
LEMMA WritePermissionsInv ==
  ASSUME OrgInv, NEW a \in Appliers, ApplyWritePermissions(a)
  PROVE  OrgInv'
<1> DEFINE l == [Idle EXCEPT !.pc = "done"]
<1>1. ApplySound(applies[a]) /\ applies[a].pc = "permissions"
  BY DEF OrgInv, AppliesInv, ApplyWritePermissions
<1>2. /\ applies[a].next \in published /\ permFile' = DerivePermissions(applies[a].next)
      /\ UNCHANGED <<tree, orgFile, auditLog, published>> /\ applies' = [applies EXCEPT ![a] = l]
  BY <1>1 DEF ApplySound, ApplyWritePermissions
<1>3. l.pc = "done" /\ l = [f \in ApplyFields |-> l[f]]
  BY DEF Idle, ApplyFields
<1> HIDE DEF l
<1>4. PICK r : r = l
  OBVIOUS
<1>5. AppliesInv' /\ \A b \in Appliers : applies'[b] = IF b = a THEN r ELSE applies[b]
  <2>1. ApplySound(r)'
    BY <1>3, <1>4 DEF ApplySound, ApplyPcs
  <2>2. applies' = [applies EXCEPT ![a] = r] /\ published \subseteq published'
    BY <1>2, <1>4
  <2> QED
    BY <2>1, <2>2, OneApplyMoves DEF OrgInv
<1>6. FilesInv'
  BY <1>2 DEF OrgInv, FilesInv, PermissionsFollowModel
<1>7. EveryHireTold'
  <2>1. \A b \in Appliers : applies[b].pc \in {"audit", "unlogged"} => applies'[b] = applies[b]
    BY <1>1, <1>5
  <2>2. \A p : HireTold(p) => HireTold(p)'
    BY <1>2, <2>1 DEF HireTold
  <2> QED
    BY <1>2, <2>2 DEF OrgInv, EveryHireTold
<1>8. Writing(a) /\ UNCHANGED <<turn, torn>>
  BY <1>1 DEF Writing, ApplyWritePermissions
<1>9. FilesTogether'
  <2>1. torn' \in BOOLEAN /\ torn' = torn
    BY <1>8 DEF OrgInv, FilesTogether
  <2>2. CASE torn
    BY <2>1, <2>2 DEF FilesTogether, FilesAgree, Settled
  <2>3. CASE ~torn
    <3>1. orgFile = applies[a].next /\ \A b \in Appliers : Writing(b) => b = a
      BY <1>8, <2>3 DEF OrgInv, FilesTogether
    <3>2. ASSUME NEW b \in Appliers PROVE ~Writing(b)'
      <4>1. CASE b = a
        BY <1>3, <1>4, <1>5, <4>1 DEF Writing
      <4>2. CASE b # a
        BY <1>5, <3>1, <4>2 DEF Writing
      <4> QED
        BY <4>1, <4>2
    <3>3. FilesAgree'
      BY <1>2, <3>1 DEF FilesAgree
    <3> QED
      BY <2>1, <3>2, <3>3 DEF FilesTogether
  <2> QED
    BY <2>1, <2>2, <2>3
<1>10. TurnInv'
  BY <1>2, <1>8, TurnNotCalm
<1> QED
  BY <1>5, <1>6, <1>7, <1>9, <1>10 DEF OrgInv
\* The operator adds, changes and removes directories of positions only.
LEMMA EditTreeInv ==
  ASSUME OrgInv, EditTree
  PROVE  OrgInv'
<1>1. UNCHANGED <<orgFile, auditLog, permFile, published, applies, torn, turn>>
  BY DEF EditTree
<1>2. DOMAIN tree' \subseteq Positions
  <2>1. DOMAIN tree \subseteq Positions
    BY DEF OrgInv, FilesInv
  <2>2. \/ \E p \in Positions : DOMAIN tree' = DOMAIN tree \cup {p}
        \/ DOMAIN tree' \subseteq DOMAIN tree
    BY DEF EditTree
  <2> QED
    BY <2>1, <2>2
<1>3. AppliesInv'
  BY <1>1 DEF OrgInv, AppliesInv, ApplySound
<1>4. FilesInv'
  BY <1>1, <1>2 DEF OrgInv, FilesInv, PermissionsFollowModel
<1>5. EveryHireTold'
  BY <1>1 DEF OrgInv, EveryHireTold, HireTold
<1>6. FilesTogether' /\ TurnInv'
  BY <1>1, FilesUntouched DEF Writing
<1> QED
  BY <1>3, <1>4, <1>5, <1>6 DEF OrgInv

\* The steps of turn run and task delegate, which only read the files.
TurnReads ==
  (\E p \in Positions : TurnLoadsModel(p)) \/ TurnLoadsPackage \/ TurnLoadsPermissions
DelegateReads ==
  \/ SealEnvelope \/ DelegateReadsModel
  \/ DelegateAdmits \/ DelegateStartsChild \/ DelegateChildSettles

\* A turn begins calm when the files are settled, and reads the permissions of
\* the model it read while it is.
LEMMA TurnReadsInv ==
  ASSUME OrgInv, TurnReads
  PROVE  TurnInv'
<1>1. /\ turn = [f \in TurnFields |-> turn[f]]
      /\ UNCHANGED <<orgFile, permFile, published, applies, torn>>
  BY DEF OrgInv, TurnInv, TurnReads, TurnLoadsModel, TurnLoadsPackage, TurnLoadsPermissions
<1>2. Settled' = Settled
  BY <1>1 DEF Settled, Writing
<1>3. ASSUME turn'.pc = "failed", turn' = [f \in TurnFields |-> turn'[f]] PROVE TurnInv'
  BY <1>3 DEF TurnInv, TurnReadsOneApply
<1>4. ASSUME NEW p \in Positions, TurnLoadsModel(p) PROVE TurnInv'
  <2> DEFINE m == IF orgFile = None THEN Bootstrap ELSE orgFile
             n == [NoTurn EXCEPT !.pc = "package", !.pos = p, !.org = m,
                                 !.calm = Settled /\ orgFile # None]
             f == [NoTurn EXCEPT !.pc = "failed"]
  <2>1. turn' = n \/ turn' = f
    BY <1>4 DEF TurnLoadsModel
  <2>2. f = [x \in TurnFields |-> f[x]] /\ f.pc = "failed"
    BY DEF NoTurn, TurnFields
  <2>3. /\ n = [x \in TurnFields |-> n[x]] /\ n.pc = "package" /\ n.org = m
        /\ n.calm = (Settled /\ orgFile # None)
    BY DEF NoTurn, TurnFields
  <2> HIDE DEF n, f
  <2>4. CASE turn' = n
    BY <1>1, <1>2, <2>3, <2>4 DEF TurnInv, TurnReadsOneApply
  <2>5. CASE turn' = f
    BY <1>3, <2>2, <2>5
  <2> QED
    BY <2>1, <2>4, <2>5
<1>5. CASE TurnLoadsPackage
  <2>1. turn.pc = "package" /\ (\/ turn' = [turn EXCEPT !.pc = "permissions"]
                                \/ turn' = [turn EXCEPT !.pc = "failed"])
    BY <1>5 DEF TurnLoadsPackage
  <2>2. /\ turn' = [x \in TurnFields |-> turn'[x]]
        /\ turn'.pc \in {"permissions", "failed"}
        /\ turn'.org = turn.org /\ turn'.calm = turn.calm
    BY <1>1, <2>1 DEF TurnFields
  <2> QED
    BY <1>1, <1>2, <2>1, <2>2 DEF OrgInv, TurnInv, TurnReadsOneApply
<1>6. CASE TurnLoadsPermissions
  <2>1. turn.pc = "permissions"
    BY <1>6 DEF TurnLoadsPermissions
  <2>2. CASE turn' = [turn EXCEPT !.pc = "failed"]
    <3>1. turn' = [x \in TurnFields |-> turn'[x]] /\ turn'.pc = "failed"
      BY <1>1, <2>2 DEF TurnFields
    <3> QED
      BY <1>3, <3>1
  <2>3. CASE permFile # None /\ turn' = [turn EXCEPT !.pc = "running", !.perm = permFile]
    <3>1. /\ turn' = [x \in TurnFields |-> turn'[x]] /\ turn'.pc = "running"
          /\ turn'.perm = permFile /\ turn'.org = turn.org /\ turn'.calm = turn.calm
      BY <1>1, <2>3 DEF TurnFields
    <3>2. \E m \in published : permFile = DerivePermissions(m)
      BY <2>3 DEF OrgInv, FilesInv, PermissionsFollowModel
    <3>3. turn.calm => permFile = DerivePermissions(turn.org)
      BY <2>1 DEF OrgInv, TurnInv, FilesTogether, FilesAgree
    <3> QED
      BY <1>1, <3>1, <3>2, <3>3 DEF TurnInv, TurnReadsOneApply
  <2> QED
    BY <1>6, <2>2, <2>3 DEF TurnLoadsPermissions
<1> QED
  BY <1>4, <1>5, <1>6 DEF TurnReads

LEMMA ReadsInv ==
  ASSUME OrgInv, TurnReads \/ DelegateReads \/ UNCHANGED orgVars
  PROVE  OrgInv'
<1>1. UNCHANGED <<tree, orgFile, auditLog, permFile, published, applies, torn>>
  BY DEF TurnReads, DelegateReads, TurnLoadsModel, TurnLoadsPackage, TurnLoadsPermissions,
         SealEnvelope, DelegateReadsModel, DelegateAdmits, DelegateStartsChild,
         DelegateChildSettles, orgVars
<1>2. AppliesInv'
  BY <1>1 DEF OrgInv, AppliesInv, ApplySound
<1>3. FilesInv'
  BY <1>1 DEF OrgInv, FilesInv, PermissionsFollowModel
<1>4. EveryHireTold'
  BY <1>1 DEF OrgInv, EveryHireTold, HireTold
<1>5. FilesTogether'
  BY <1>1 DEF OrgInv, FilesTogether, FilesAgree, Settled, Writing
<1>6. TurnInv'
  <2>1. DelegateReads \/ UNCHANGED orgVars => UNCHANGED turn
    BY DEF DelegateReads, SealEnvelope, DelegateReadsModel, DelegateAdmits,
           DelegateStartsChild, DelegateChildSettles, orgVars
  <2>2. UNCHANGED turn => TurnInv'
    BY <1>1, FilesUntouched DEF Writing
  <2> QED
    BY <2>1, <2>2, TurnReadsInv
<1> QED
  BY <1>2, <1>3, <1>4, <1>5, <1>6 DEF OrgInv

LEMMA OrgStepInv == OrgInv /\ [OrgNext]_orgVars => OrgInv'
<1> SUFFICES ASSUME OrgInv, [OrgNext]_orgVars PROVE OrgInv'
  OBVIOUS
<1>1. ASSUME NEW a \in Appliers,
             ApplyLoad(a) \/ ApplyScan(a) \/ ApplyDeclare(a) \/ ApplyAborts(a)
      PROVE  OrgInv'
  BY <1>1, ApplyReadsInv, AbortsInv
<1>2. ASSUME NEW a \in Appliers,
             ApplyWriteModel(a) \/ ApplyAudit(a) \/ ApplyWritePermissions(a)
      PROVE  OrgInv'
  BY <1>2, WriteModelInv, AuditInv, WritePermissionsInv
<1>3. CASE EditTree
  BY <1>3, EditTreeInv
<1>4. CASE TurnReads \/ DelegateReads \/ UNCHANGED orgVars
  BY <1>4, ReadsInv
<1> QED
  BY <1>1, <1>2, <1>3, <1>4 DEF OrgNext, TurnReads, DelegateReads

\* However applies, the operator and failures between the writes interleave:
\* org.json is a valid organisation, permissions.json derives from one that was
\* published, and from this one when the last apply wrote alone and to the end;
\* so does what a turn reads meanwhile.  The audit log tells every hire but
\* those of an apply that broke off before its entry.
THEOREM OrganisationConsistent == OrgSpec => []PermissionsSound
<1>1. OrgInv => PermissionsSound
  <2> SUFFICES ASSUME OrgInv PROVE PermissionsSound
    OBVIOUS
  <2>1. OrgFileValid /\ PermissionsFollowModel
    BY DEF OrgInv, FilesInv, OrgFileValid
  <2>2. HiresLogged
    BY DEF OrgInv, FilesInv, EveryHireTold, HireTold, HiresLogged, Changes
  <2>3. FilesAgree /\ TurnReadsOneApply
    BY DEF OrgInv, FilesTogether, TurnInv
  <2> QED
    BY <2>1, <2>2, <2>3 DEF PermissionsSound
<1> QED
  BY <1>1, OrgInitInv, OrgStepInv, PTL DEF OrgSpec
-----------------------------------------------------------------------------
(* What a delegation may see.                                              *)

\* A scope contains a path when the path begins with it.
LEMMA ContainsIsPrefix ==
  ASSUME NEW X, NEW s \in Seq(X), NEW t \in Seq(X)
  PROVE  ScopeContains(s, t) <=> Len(s) <= Len(t) /\ \A i \in 1..Len(s) : s[i] = t[i]
<1>1. CASE Len(s) <= Len(t)
  <2>1. SubSeq(s, 1, Len(s)) = s
    OBVIOUS
  <2> DEFINE u == SubSeq(t, 1, Len(s))
  <2>2. u \in Seq(X) /\ Len(u) = Len(s) /\ \A i \in 1..Len(s) : u[i] = t[i]
    BY <1>1
  <2> HIDE DEF u
  <2>3. s = u <=> \A i \in 1..Len(s) : s[i] = t[i]
    <3>1. ASSUME \A i \in 1..Len(s) : s[i] = t[i] PROVE s = u
      <4>1. \A i \in 1..Len(s) : s[i] = u[i]
        BY <2>2, <3>1
      <4> QED
        BY <2>2, <4>1, SeqEqual
    <3> QED
      BY <2>2, <3>1
  <2> QED
    BY <1>1, <2>1, <2>3 DEF ScopeContains, IsPrefix, u
<1>2. CASE ~(Len(s) <= Len(t))
  BY <1>2 DEF ScopeContains, IsPrefix
<1> QED
  BY <1>1, <1>2

\* Containers are ordered, and of two containers of one path one contains the
\* other.
LEMMA ContainersOrdered ==
  ASSUME NEW X, NEW s \in Seq(X), NEW t \in Seq(X), NEW u \in Seq(X)
  PROVE  /\ ScopeContains(s, t) /\ ScopeContains(t, u) => ScopeContains(s, u)
         /\ ScopeContains(s, u) /\ ScopeContains(t, u) =>
              ScopeContains(s, t) \/ ScopeContains(t, s)
         /\ ScopeContains(s, t) /\ s # t => Len(s) < Len(t)
<1>1. /\ ScopeContains(s, t) <=> Len(s) <= Len(t) /\ \A i \in 1..Len(s) : s[i] = t[i]
      /\ ScopeContains(t, s) <=> Len(t) <= Len(s) /\ \A i \in 1..Len(t) : t[i] = s[i]
      /\ ScopeContains(t, u) <=> Len(t) <= Len(u) /\ \A i \in 1..Len(t) : t[i] = u[i]
      /\ ScopeContains(s, u) <=> Len(s) <= Len(u) /\ \A i \in 1..Len(s) : s[i] = u[i]
  BY ContainsIsPrefix
<1>2. Len(s) \in Nat /\ Len(t) \in Nat /\ Len(u) \in Nat
  OBVIOUS
<1>3. ScopeContains(s, t) /\ ScopeContains(t, u) => ScopeContains(s, u)
  BY <1>1, <1>2
<1>4. ScopeContains(s, u) /\ ScopeContains(t, u) => ScopeContains(s, t) \/ ScopeContains(t, s)
  BY <1>1, <1>2
<1>5. ScopeContains(s, t) /\ Len(s) = Len(t) => s = t
  BY <1>1, SeqEqual
<1> QED
  BY <1>1, <1>2, <1>3, <1>4, <1>5

\* Dropping the scopes another one contains loses no path.
LEMMA WidestContainer ==
  ASSUME NEW X, NEW S \in SUBSET Seq(X), NEW path \in Seq(X),
         NEW container \in S, ScopeContains(container, path)
  PROVE  \E s \in S : /\ ScopeContains(s, path)
                      /\ \A o \in S : o # s => ~ScopeContains(o, s)
<1> DEFINE C == {s \in S : ScopeContains(s, path)}
           L == {Len(s) : s \in C}
<1>1. L \subseteq Nat /\ L # {}
  <2>1. \A s \in C : Len(s) \in Nat
    OBVIOUS
  <2>2. C # {}
    OBVIOUS
  <2> HIDE DEF C
  <2> QED
    BY <2>1, <2>2
<1> HIDE DEF L
<1>2. PICK n \in L : \A m \in L : n <= m
  BY <1>1, LeastNat
<1>3. PICK s \in C : \A o \in C : Len(s) <= Len(o)
  BY <1>2 DEF L
<1>4. ASSUME NEW o \in S, o # s, ScopeContains(o, s) PROVE FALSE
  <2>1. ScopeContains(o, path) /\ Len(o) < Len(s)
    BY <1>3, <1>4, ContainersOrdered
  <2>2. Len(s) <= Len(o)
    BY <1>3, <2>1
  <2>3. Len(o) \in Nat /\ Len(s) \in Nat
    BY <1>3
  <2> QED
    BY <2>1, <2>2, <2>3
<1> QED
  BY <1>3, <1>4

\* The intersection of two sets of scopes contains exactly the paths that both
\* contain.
LEMMA IntersectionIsBoth ==
  ASSUME NEW X, NEW left, left \subseteq Seq(X), NEW right, right \subseteq Seq(X),
         NEW path \in Seq(X)
  PROVE  (\E s \in IntersectContextScopes(left, right) : ScopeContains(s, path))
           <=> /\ \E a \in left : ScopeContains(a, path)
               /\ \E b \in right : ScopeContains(b, path)
<1> DEFINE both == {b \in right : \E a \in left : ScopeContains(a, b)}
                   \cup {a \in left : \E b \in right : ScopeContains(b, a)}
<1>1. IntersectContextScopes(left, right)
        = {s \in both : ~\E o \in both : o # s /\ ScopeContains(o, s)}
  BY DEF IntersectContextScopes
<1>2. both \in SUBSET Seq(X)
  OBVIOUS
<1>3. ASSUME NEW s \in both, ScopeContains(s, path)
      PROVE  /\ \E a \in left : ScopeContains(a, path)
             /\ \E b \in right : ScopeContains(b, path)
  <2>1. CASE s \in right /\ \E a \in left : ScopeContains(a, s)
    BY <1>3, <2>1, ContainersOrdered
  <2>2. CASE s \in left /\ \E b \in right : ScopeContains(b, s)
    BY <1>3, <2>2, ContainersOrdered
  <2> QED
    BY <2>1, <2>2
<1>4. ASSUME NEW a \in left, ScopeContains(a, path), NEW b \in right, ScopeContains(b, path)
      PROVE  \E s \in both : ScopeContains(s, path)
  <2>1. ScopeContains(a, b) \/ ScopeContains(b, a)
    BY <1>4, ContainersOrdered
  <2> QED
    BY <1>4, <2>1
<1> HIDE DEF both
<1>5. ASSUME NEW t \in both, ScopeContains(t, path)
      PROVE  \E s \in both : /\ ScopeContains(s, path)
                            /\ \A o \in both : o # s => ~ScopeContains(o, s)
  BY <1>2, <1>5, WidestContainer, SMTT(60)
<1> QED
  BY <1>1, <1>2, <1>3, <1>4, <1>5

\* The directory of a position of a valid organisation is a path of positions.
LEMMA DirectoryIsPath ==
  ASSUME NEW m, ReportingLinesSound(m), NEW p \in DOMAIN m
  PROVE  DirectorySegments(m, p) \in Seq(DOMAIN m)
<1> DEFINE N == Cardinality(Positions)
           Chains == Seq(DOMAIN m) \ {<<>>}
           Grown(s) == IF Head(s) \in DOMAIN m /\ m[Head(s)].reportTo # Root
                       THEN <<m[Head(s)].reportTo>> \o s ELSE s
           Climbs(g, n) == g = [k \in 0..n |-> IF k = 0 THEN <<p>> ELSE Grown(g[k-1])]
<1>1. N \in Nat
  BY OrgAssumption, FS_CardinalityType
<1>2. ASSUME NEW s \in Chains PROVE Grown(s) \in Chains
  <2>1. CASE Head(s) \in DOMAIN m /\ m[Head(s)].reportTo # Root
    <3>1. m[Head(s)].reportTo \in DOMAIN m
      BY <2>1 DEF ReportingLinesSound
    <3> DEFINE r == m[Head(s)].reportTo
    <3>2. Grown(s) = <<r>> \o s
      BY <2>1
    <3> HIDE DEF r
    <3>3. r \in DOMAIN m /\ s \in Seq(DOMAIN m)
      BY <1>2, <3>1 DEF r
    <3>4. <<r>> \o s \in Seq(DOMAIN m) /\ <<r>> \o s # <<>>
      BY <3>3
    <3> QED
      BY <3>2, <3>4
  <2>2. CASE ~(Head(s) \in DOMAIN m /\ m[Head(s)].reportTo # Root)
    BY <1>2, <2>2
  <2> QED
    BY <2>1, <2>2
<1>3. <<p>> \in Chains
  OBVIOUS
<1> HIDE DEF N, Chains, Grown
<1> DEFINE S == {n \in Nat : \E g \in [0..n -> Chains] : Climbs(g, n)}
<1>4. 0 \in S
  <2> DEFINE g == [k \in 0..0 |-> <<p>>]
  <2>1. g \in [0..0 -> Chains] /\ Climbs(g, 0)
    BY <1>3
  <2> QED
    BY <2>1
<1>5. ASSUME NEW n \in Nat, n \in S PROVE n + 1 \in S
  <2>1. PICK g \in [0..n -> Chains] : Climbs(g, n)
    BY <1>5
  <2> DEFINE h == [k \in 0..(n + 1) |-> IF k <= n THEN g[k] ELSE Grown(g[n])]
  <2>2. h \in [0..(n + 1) -> Chains]
    <3>1. Grown(g[n]) \in Chains
      BY <1>2
    <3> QED
      BY <3>1
  <2>3. ASSUME NEW k \in 0..(n + 1)
        PROVE  h[k] = IF k = 0 THEN <<p>> ELSE Grown(h[k-1])
    <3>1. CASE k = 0
      BY <2>1, <3>1
    <3>2. CASE k \in 1..n
      <4>1. g[k] = Grown(g[k-1])
        BY <2>1, <3>2
      <4>2. h[k] = g[k] /\ h[k-1] = g[k-1]
        BY <3>2
      <4> QED
        BY <3>2, <4>1, <4>2
    <3>3. CASE k = n + 1
      <4>1. h[k] = Grown(g[n]) /\ h[k-1] = g[n]
        BY <3>3
      <4> QED
        BY <3>3, <4>1
    <3> QED
      BY <3>1, <3>2, <3>3
  <2>4. Climbs(h, n + 1)
    BY <2>3
  <2>5. n + 1 \in Nat
    OBVIOUS
  <2> HIDE DEF h, Climbs
  <2> QED
    BY <2>2, <2>4, <2>5
<1>6. Nat \subseteq S
  <2> HIDE DEF S
  <2> QED
    BY <1>4, <1>5, InductionOnNat
<1>7. \E g : Climbs(g, N)
  BY <1>1, <1>6
<1>8. PICK up : Climbs(up, N) /\ DirectorySegments(m, p) = up[N]
  <2> DEFINE u == CHOOSE g : Climbs(g, N)
  <2>1. Climbs(u, N)
    BY <1>7
  <2>2. DirectorySegments(m, p) = u[N]
    BY DEF DirectorySegments, N, Grown
  <2> QED
    BY <2>1, <2>2
<1> DEFINE T == {n \in Nat : n <= N => up[n] \in Chains}
<1>9. 0 \in T
  BY <1>1, <1>3, <1>8
<1>10. ASSUME NEW n \in Nat, n \in T PROVE n + 1 \in T
  <2> SUFFICES ASSUME n + 1 <= N PROVE up[n + 1] \in Chains
    OBVIOUS
  <2>1. up[n] \in Chains
    BY <1>1, <1>10
  <2>2. up[n + 1] = Grown(up[n])
    BY <1>1, <1>8
  <2> QED
    BY <1>2, <2>1, <2>2
<1>11. Nat \subseteq T
  <2> HIDE DEF T
  <2> QED
    BY <1>9, <1>10, InductionOnNat
<1>12. up[N] \in Chains
  <2>1. N \in T
    BY <1>1, <1>11
  <2> QED
    BY <1>1, <2>1
<1> QED
  BY <1>8, <1>12 DEF Chains
\* What a position may see: paths, each of them.
LEMMA ScopesArePaths ==
  ASSUME NEW m, AboutPositions(m), ReportingLinesSound(m), NEW p \in DOMAIN m
  PROVE  ContextScope(m, p) \subseteq Seq(Segments)
<1>1. Seq(DOMAIN m) \subseteq Seq(Segments)
  BY DEF AboutPositions, Segments
<1> DEFINE d == DirectorySegments(m, p)
<1>2. d \in Seq(Segments)
  BY <1>1, DirectoryIsPath
<1> HIDE DEF d
<1>3. /\ <<>> \in Seq(Segments) /\ <<"context">> \in Seq(Segments)
      /\ <<"positions">> \o d \in Seq(Segments)
  <2>1. "positions" \in Segments /\ "context" \in Segments
    BY DEF Segments
  <2> HIDE DEF Segments
  <2>2. <<"positions">> \in Seq(Segments) /\ <<"context">> \in Seq(Segments)
    BY <2>1
  <2> QED
    BY <1>2, <2>2
<1>4. m[p].memoryScope \in Seq(Segments)
  BY DEF AboutPositions
<1> QED
  BY <1>3, <1>4 DEF ContextScope, d

\* The scope of a delegation over one organisation: the tools both sides have,
\* and the paths both sides may read.
LEMMA ScopeIsBoth ==
  ASSUME NEW m, AboutPositions(m), ReportingLinesSound(m),
         NEW w \in DOMAIN m, Owner \in DOMAIN m,
         NEW perm, perm = DerivePermissions(m),
         NEW scope, scope = EffectiveScope(perm[Owner], perm[w])
  PROVE  /\ scope.allow = perm[Owner].allow \cap perm[w].allow
         /\ \A path \in UNION {perm[p].read : p \in DOMAIN perm} :
              (\E s \in scope.read : ScopeContains(s, path))
                <=> ContextAllowed(perm, Owner, path) /\ ContextAllowed(perm, w, path)
<1>1. /\ DOMAIN perm = DOMAIN m
      /\ \A p \in DOMAIN m :
           /\ perm[p].read = ContextScope(m, p)
           /\ perm[p].allow = AllowedTools(m[p])
           /\ perm[p].deny = m[p].toolDeny
  BY DEF DerivePermissions
<1>2. /\ scope.allow = (perm[Owner].allow \cap perm[w].allow) \ (perm[Owner].deny \cup perm[w].deny)
      /\ scope.read = IntersectContextScopes(perm[Owner].read, perm[w].read)
  BY DEF EffectiveScope
<1>3. scope.allow = perm[Owner].allow \cap perm[w].allow
  BY <1>1, <1>2 DEF AllowedTools
<1>4. \A p \in DOMAIN perm : perm[p].read \subseteq Seq(Segments)
  BY <1>1, ScopesArePaths
<1>5. ASSUME NEW path \in UNION {perm[p].read : p \in DOMAIN perm}
      PROVE  (\E s \in scope.read : ScopeContains(s, path))
               <=> ContextAllowed(perm, Owner, path) /\ ContextAllowed(perm, w, path)
  <2>1. path \in Seq(Segments)
    BY <1>4
  <2>2. perm[Owner].read \subseteq Seq(Segments) /\ perm[w].read \subseteq Seq(Segments)
    BY <1>1, <1>4
  <2>3. (\E s \in scope.read : ScopeContains(s, path))
          <=> /\ \E a \in perm[Owner].read : ScopeContains(a, path)
              /\ \E b \in perm[w].read : ScopeContains(b, path)
    BY <1>2, <2>1, <2>2, IntersectionIsBoth
  <2> QED
    BY <1>1, <2>3 DEF ContextAllowed
<1> QED
  BY <1>3, <1>5

Attempts == [task : Tasks, child : Children, attempt : Nat, retryOf : Tasks \cup {None}]
DelegFields == {"pc", "env", "org", "scope", "policy", "terminal"}
DelegPcs == {"idle", "parse", "permissions", "child", "hosted", "exit"}

\* A delegation works on a model that was published; from its admission on its
\* scope is what that very model derives for the owner and a direct report.
DelegInv ==
  /\ deleg = [f \in DelegFields |-> deleg[f]] /\ deleg.pc \in DelegPcs
  /\ deleg.pc \in {"parse", "permissions"} =>
       /\ deleg.env.task \in Tasks /\ deleg.env.child \in Children
       /\ deleg.env.attempt \in Nat /\ deleg.env.retryOf \in Tasks \cup {None}
  /\ deleg.pc \in {"permissions", "child", "hosted"} => deleg.org \in published
  /\ deleg.pc \in {"child", "hosted"} =>
       LET perm == DerivePermissions(deleg.org)
           w == deleg.env.worker
       IN /\ {Owner, w} \subseteq DOMAIN deleg.org
          /\ deleg.org[w].reportTo = Owner
          /\ deleg.scope = EffectiveScope(perm[Owner], perm[w])
  /\ deleg.pc = "hosted" => deleg.policy = HostPolicy(deleg.scope)

HistoryInv == history \in Seq(Attempts) /\ RetryChainLinear

DelegationInv == OrgInv /\ DelegInv /\ HistoryInv

\* An admissible envelope extends the chain by one.
LEMMA ChainExtended ==
  ASSUME NEW h \in Seq(Attempts), NEW e, Admissible(e, h),
         NEW r \in Attempts, r.task = e.task, r.child = e.child,
         r.attempt = e.attempt, r.retryOf = e.retryOf
  PROVE  Append(h, r) \in Seq(Attempts) /\ ValidHistory(Append(h, r))
<1> DEFINE n == Len(h)
           g == Append(h, r)
<1>1. /\ g \in Seq(Attempts) /\ n \in Nat /\ DOMAIN h = 1..n /\ DOMAIN g = 1..(n + 1)
      /\ \A i \in 1..n : g[i] = h[i]
      /\ g[n + 1] = r
  OBVIOUS
<1> HIDE DEF g
<1>2. ValidHistory(h) /\ \A i \in 1..n : h[i].task # r.task /\ h[i].child # r.child
  BY <1>1 DEF Admissible
<1>3. ASSUME NEW i \in 1..(n + 1), NEW j \in 1..(n + 1), i # j
      PROVE  g[i].task # g[j].task /\ g[i].child # g[j].child
  <2>1. CASE i \in 1..n /\ j \in 1..n
    BY <1>1, <1>2, <1>3, <2>1 DEF ValidHistory
  <2>2. CASE i = n + 1 \/ j = n + 1
    BY <1>1, <1>2, <1>3, <2>2
  <2> QED
    BY <1>1, <2>1, <2>2
<1>4. ASSUME NEW i \in 1..(n + 1)
      PROVE  g[i].attempt = i /\ g[i].retryOf = IF i = 1 THEN None ELSE g[i-1].task
  <2>1. CASE i \in 1..n
    BY <1>1, <1>2, <2>1 DEF ValidHistory
  <2>2. CASE i = n + 1
    <3>1. CASE n = 0
      <4>1. h = <<>>
        BY <3>1
      <4> QED
        BY <1>1, <2>2, <3>1, <4>1 DEF Admissible
    <3>2. CASE n # 0
      <4>1. h # <<>> /\ n \in 1..n
        BY <1>1, <3>2
      <4>2. h[n].attempt = n
        BY <1>1, <1>2, <4>1 DEF ValidHistory
      <4>3. r.retryOf = h[n].task /\ r.attempt = h[n].attempt + 1
        BY <4>1 DEF Admissible, Last
      <4>4. g[n] = h[n] /\ i # 1 /\ i - 1 = n
        BY <1>1, <2>2, <4>1
      <4> QED
        BY <1>1, <2>2, <4>2, <4>3, <4>4
    <3> QED
      BY <3>1, <3>2
  <2> QED
    BY <1>1, <2>1, <2>2
<1>5. ValidHistory(g)
  BY <1>1, <1>3, <1>4 DEF ValidHistory
<1> QED
  BY <1>1, <1>5 DEF g
LEMMA DelegationInitInv == OrgInit => DelegInv /\ HistoryInv
<1> SUFFICES ASSUME OrgInit PROVE DelegInv /\ HistoryInv
  OBVIOUS
<1>1. deleg = NoDeleg /\ NoDeleg = [f \in DelegFields |-> NoDeleg[f]] /\ NoDeleg.pc = "idle"
  BY DEF OrgInit, NoDeleg, DelegFields
<1>2. DelegInv
  BY <1>1 DEF DelegInv, DelegPcs
<1>3. HistoryInv
  BY DEF OrgInit, HistoryInv, RetryChainLinear, ValidHistory
<1> QED
  BY <1>2, <1>3

\* An exit, with a terminal or without, says nothing of models or scopes.
LEMMA ExitSound ==
  ASSUME deleg' = DelegateExit
         \/ (DelegInv /\ deleg' = [deleg EXCEPT !.pc = "exit", !.terminal = TRUE])
  PROVE  DelegInv'
<1>1. deleg' = [f \in DelegFields |-> deleg'[f]] /\ deleg'.pc = "exit"
  <2>1. CASE deleg' = DelegateExit
    BY <2>1 DEF DelegateExit, NoDeleg, DelegFields
  <2>2. CASE DelegInv /\ deleg' = [deleg EXCEPT !.pc = "exit", !.terminal = TRUE]
    BY <2>2 DEF DelegInv, DelegFields
  <2> QED
    BY <2>1, <2>2
<1> QED
  BY <1>1 DEF DelegInv, DelegPcs

\* An envelope is sealed; its parse reads the organisation.
LEMMA EnvelopeInv ==
  ASSUME DelegationInv, SealEnvelope \/ DelegateReadsModel
  PROVE  DelegInv' /\ HistoryInv'
<1>1. HistoryInv' /\ published' = published
  BY DEF DelegationInv, HistoryInv, RetryChainLinear, SealEnvelope, DelegateReadsModel
<1>2. CASE SealEnvelope
  <2>1. PICK t \in Tasks, c \in Children, n \in 1..MaxAttempt, r \in Tasks \cup {None},
             w \in Positions :
          deleg' = [NoDeleg EXCEPT !.pc = "parse",
                      !.env = [task |-> t, child |-> c, attempt |-> n, retryOf |-> r,
                               worker |-> w, org |-> orgFile, perm |-> permFile]]
    BY <1>2 DEF SealEnvelope
  <2>2. /\ deleg' = [f \in DelegFields |-> deleg'[f]] /\ deleg'.pc = "parse"
        /\ deleg'.env.task = t /\ deleg'.env.child = c
        /\ deleg'.env.attempt = n /\ deleg'.env.retryOf = r
    BY <2>1 DEF NoDeleg, DelegFields
  <2>3. n \in Nat
    OBVIOUS
  <2> QED
    BY <1>1, <2>2, <2>3 DEF DelegInv, DelegPcs
<1>3. CASE DelegateReadsModel
  <2>1. CASE deleg' = DelegateExit
    BY <1>1, <2>1, ExitSound
  <2>2. CASE orgFile # None /\ deleg' = [deleg EXCEPT !.pc = "permissions", !.org = orgFile]
    <3>1. /\ deleg' = [f \in DelegFields |-> deleg'[f]] /\ deleg'.pc = "permissions"
          /\ deleg'.org = orgFile /\ deleg'.env = deleg.env
      BY <2>2 DEF DelegationInv, DelegInv, DelegFields
    <3>2. orgFile \in published
      BY <2>2 DEF DelegationInv, OrgInv, FilesInv
    <3>3. deleg.pc = "parse"
      BY <1>3 DEF DelegateReadsModel
    <3> QED
      BY <1>1, <3>1, <3>2, <3>3 DEF DelegationInv, DelegInv, DelegPcs
  <2> QED
    BY <1>3, <2>1, <2>2 DEF DelegateReadsModel
<1> QED
  BY <1>2, <1>3

\* The admission: the permissions are those the organisation read derives, and
\* the delegation goes to the end of the chain.
LEMMA AdmitsInv ==
  ASSUME DelegationInv, DelegateAdmits
  PROVE  DelegInv' /\ HistoryInv'
<1>1. UNCHANGED published /\ deleg.pc = "permissions"
  BY DEF DelegateAdmits
<1>2. CASE deleg' = DelegateExit /\ history' = history
  BY <1>2, ExitSound DEF DelegationInv, HistoryInv, RetryChainLinear
<1>3. CASE /\ AppliedStateSound(deleg.org, permFile)
           /\ Admissible(deleg.env, history)
           /\ RouteAllowed(deleg.env, deleg.org, permFile)
           /\ deleg' = [deleg EXCEPT !.pc = "child",
                          !.scope = EffectiveScope(permFile[Owner], permFile[deleg.env.worker])]
           /\ history' = Append(history, [task |-> deleg.env.task, child |-> deleg.env.child,
                                attempt |-> deleg.env.attempt, retryOf |-> deleg.env.retryOf])
  <2> DEFINE s == EffectiveScope(permFile[Owner], permFile[deleg.env.worker])
  <2>1. /\ deleg' = [f \in DelegFields |-> deleg'[f]] /\ deleg'.pc = "child"
        /\ deleg'.org = deleg.org /\ deleg'.env = deleg.env /\ deleg'.scope = s
    <3> HIDE DEF s
    <3> QED
      BY <1>3 DEF DelegationInv, DelegInv, DelegFields, s
  <2>2. permFile = DerivePermissions(deleg.org)
    BY <1>3 DEF AppliedStateSound
  <2>3. /\ {Owner, deleg.env.worker} \subseteq DOMAIN deleg.org
        /\ deleg.org[deleg.env.worker].reportTo = Owner
    <3>1. DOMAIN permFile = DOMAIN deleg.org
      BY <2>2 DEF DerivePermissions
    <3> QED
      BY <1>3, <3>1 DEF RouteAllowed
  <2>4. deleg.org \in published
    BY <1>1 DEF DelegationInv, DelegInv
  <2>5. DelegInv'
    BY <1>1, <2>1, <2>2, <2>3, <2>4 DEF DelegInv, DelegPcs
  <2> DEFINE r == [task |-> deleg.env.task, child |-> deleg.env.child,
                   attempt |-> deleg.env.attempt, retryOf |-> deleg.env.retryOf]
  <2>6. /\ r \in Attempts /\ r.task = deleg.env.task /\ r.child = deleg.env.child
        /\ r.attempt = deleg.env.attempt /\ r.retryOf = deleg.env.retryOf
    BY <1>1 DEF DelegationInv, DelegInv, Attempts
  <2> HIDE DEF r
  <2>7. history' \in Seq(Attempts) /\ ValidHistory(history')
    <3>1. history \in Seq(Attempts) /\ history' = Append(history, r)
      BY <1>3 DEF DelegationInv, HistoryInv, r
    <3>2. Append(history, r) \in Seq(Attempts) /\ ValidHistory(Append(history, r))
      BY <1>3, <2>6, <3>1, ChainExtended
    <3> QED
      BY <3>1, <3>2
  <2>8. HistoryInv'
    BY <2>7 DEF HistoryInv, RetryChainLinear, ValidHistory
  <2> QED
    BY <2>5, <2>8
<1> QED
  BY <1>2, <1>3 DEF DelegateAdmits

\* The child keeps the scope it was admitted with; its Host's policy is made
\* of that scope.
LEMMA ChildInv ==
  ASSUME DelegationInv, DelegateStartsChild \/ DelegateChildSettles
  PROVE  DelegInv' /\ HistoryInv'
<1>1. HistoryInv' /\ published' = published
  BY DEF DelegationInv, HistoryInv, RetryChainLinear, DelegateStartsChild, DelegateChildSettles
<1>2. CASE deleg' = DelegateExit \/ deleg' = [deleg EXCEPT !.pc = "exit", !.terminal = TRUE]
  BY <1>1, <1>2, ExitSound DEF DelegationInv
<1>3. CASE /\ deleg.pc = "child"
           /\ deleg' = [deleg EXCEPT !.pc = "hosted", !.policy = HostPolicy(deleg.scope)]
  <2>1. /\ deleg' = [f \in DelegFields |-> deleg'[f]] /\ deleg'.pc = "hosted"
        /\ deleg'.org = deleg.org /\ deleg'.env = deleg.env /\ deleg'.scope = deleg.scope
        /\ deleg'.policy = HostPolicy(deleg.scope)
    BY <1>3 DEF DelegationInv, DelegInv, DelegFields
  <2>2. /\ deleg.org \in published
        /\ LET perm == DerivePermissions(deleg.org)
               w == deleg.env.worker
           IN /\ {Owner, w} \subseteq DOMAIN deleg.org
              /\ deleg.org[w].reportTo = Owner
              /\ deleg.scope = EffectiveScope(perm[Owner], perm[w])
    BY <1>3 DEF DelegationInv, DelegInv
  <2>3. LET perm == DerivePermissions(deleg'.org)
            w == deleg'.env.worker
        IN /\ {Owner, w} \subseteq DOMAIN deleg'.org
           /\ deleg'.org[w].reportTo = Owner
           /\ deleg'.scope = EffectiveScope(perm[Owner], perm[w])
    BY <2>1, <2>2
  <2>4. deleg'.policy = HostPolicy(deleg'.scope)
    BY <2>1
  <2> QED
    BY <1>1, <2>1, <2>2, <2>3, <2>4 DEF DelegInv, DelegPcs
<1> QED
  BY <1>2, <1>3 DEF DelegateStartsChild, DelegateChildSettles

\* Everything else leaves the delegation alone; an apply may publish meanwhile.
LEMMA DelegationStepInv == DelegationInv /\ [OrgNext]_orgVars => DelegationInv'
<1> SUFFICES ASSUME DelegationInv, [OrgNext]_orgVars PROVE DelegationInv'
  OBVIOUS
<1>1. OrgInv'
  BY OrgStepInv DEF DelegationInv
<1>2. CASE SealEnvelope \/ DelegateReadsModel
  BY <1>1, <1>2, EnvelopeInv DEF DelegationInv
<1>3. CASE DelegateAdmits
  BY <1>1, <1>3, AdmitsInv DEF DelegationInv
<1>4. CASE DelegateStartsChild \/ DelegateChildSettles
  BY <1>1, <1>4, ChildInv DEF DelegationInv
<1>5. CASE UNCHANGED <<deleg, history>> /\ published \subseteq published'
  <2>1. DelegInv'
    BY <1>5 DEF DelegationInv, DelegInv
  <2>2. HistoryInv'
    BY <1>5 DEF DelegationInv, HistoryInv, RetryChainLinear
  <2> QED
    BY <1>1, <2>1, <2>2 DEF DelegationInv
<1>6. ASSUME NEW a \in Appliers,
             \/ ApplyLoad(a) \/ ApplyScan(a) \/ ApplyDeclare(a) \/ ApplyWriteModel(a)
             \/ ApplyAudit(a) \/ ApplyWritePermissions(a) \/ ApplyAborts(a)
      PROVE  UNCHANGED <<deleg, history>> /\ published \subseteq published'
  BY <1>6 DEF ApplyLoad, ApplyScan, ApplyDeclare, ApplyWriteModel, ApplyAudit,
              ApplyWritePermissions, ApplyAborts
<1>7. ASSUME \/ EditTree \/ \E p \in Positions : TurnLoadsModel(p)
             \/ TurnLoadsPackage \/ TurnLoadsPermissions \/ UNCHANGED orgVars
      PROVE  UNCHANGED <<deleg, history>> /\ published \subseteq published'
  BY <1>7 DEF EditTree, TurnLoadsModel, TurnLoadsPackage, TurnLoadsPermissions, orgVars
<1> QED
  BY <1>2, <1>3, <1>4, <1>5, <1>6, <1>7 DEF OrgNext

\* Whatever is applied between its reads, a child run has the permissions one
\* published organisation gives both sides, neither more nor less, and the
\* delegations of a turn are one retry chain.
THEOREM DelegationStaysInScope == OrgSpec => []DelegationSound
<1>1. DelegationInv => DelegationSound
  <2> SUFFICES ASSUME DelegationInv PROVE DelegationSound
    OBVIOUS
  <2>1. ASSUME deleg.pc \in {"child", "hosted"} PROVE ChildScopeCoherent
    <3> DEFINE m == deleg.org
               w == deleg.env.worker
               perm == DerivePermissions(m)
               scope == deleg.scope
               paths == UNION {perm[p].read : p \in DOMAIN perm}
               both(path) == ContextAllowed(perm, Owner, path) /\ ContextAllowed(perm, w, path)
    <3>1. m \in published /\ ValidOrganization(m) /\ AboutPositions(m)
      BY <2>1 DEF DelegationInv, DelegInv, OrgInv, FilesInv
    <3>2. /\ w \in DOMAIN m /\ Owner \in DOMAIN m /\ m[w].reportTo = Owner
          /\ scope = EffectiveScope(perm[Owner], perm[w])
      BY <2>1 DEF DelegationInv, DelegInv
    <3>3. /\ scope.allow = perm[Owner].allow \cap perm[w].allow
          /\ \A path \in paths :
               (\E s \in scope.read : ScopeContains(s, path)) <=> both(path)
      <4>1. ReportingLinesSound(m)
        BY <3>1 DEF ValidOrganization
      <4> HIDE DEF m, w, perm, scope
      <4>2. perm = DerivePermissions(m)
        BY DEF perm
      <4> QED
        BY <3>1, <3>2, <4>1, <4>2, ScopeIsBoth
    <3>4. deleg.pc = "hosted" =>
            \A path \in paths :
              (\E s \in deleg.policy.read : ScopeContains(s, path))
                <=> both(path) /\ deleg.policy.allow # {}
      <4> SUFFICES ASSUME deleg.pc = "hosted", NEW path \in paths
                   PROVE  (\E s \in deleg.policy.read : ScopeContains(s, path))
                            <=> both(path) /\ deleg.policy.allow # {}
        OBVIOUS
      <4>1. deleg.policy.read = IF deleg.policy.allow = {} THEN {} ELSE scope.read
        <5>1. deleg.policy = HostPolicy(scope)
          BY DEF DelegationInv, DelegInv
        <5> HIDE DEF scope
        <5> QED
          BY <5>1 DEF HostPolicy
      <4>2. (\E s \in scope.read : ScopeContains(s, path)) <=> both(path)
        BY <3>3
      <4> HIDE DEF both, scope, paths
      <4> QED
        BY <4>1, <4>2
    <3> QED
      BY <3>2, <3>3, <3>4 DEF ChildScopeCoherent
  <2>2. ChildScopeCoherent
    BY <2>1 DEF ChildScopeCoherent
  <2>3. RetryChainLinear
    BY DEF DelegationInv, HistoryInv
  <2> QED
    BY <2>2, <2>3 DEF DelegationSound
<1>2. OrgInit => DelegationInv
  BY OrgInitInv, DelegationInitInv DEF DelegationInv
<1> QED
  BY <1>1, <1>2, DelegationStepInv, PTL DEF OrgSpec
=============================================================================
