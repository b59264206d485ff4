-------------------------- MODULE JobRunnerProofs --------------------------
(***************************************************************************)
(* For every number of slots, queue size, window and set of actors and job *)
(* ids: the runner keeps its types, never gives an actor two requests in   *)
(* flight, neither exceeds nor wastes its slots, and forgets an admission  *)
(* or a start within its window only for want of room.  The answer loop it *)
(* runs keeps the sessions and the FAQ of different requests apart,        *)
(* whatever the capacities of the two stores.                              *)
(***************************************************************************)
EXTENDS DigitalEmployee, SetInduction, FiniteSetTheorems, SequenceTheorems, TLAPS

\* The inductive invariant: the two safety properties need the exact
\* correspondence between the calls, the queue and the two actor sets.
IInv == TypeOK /\ Bookkeeping /\ ActorExclusive /\ SlotsConserved

\* #setBounded keeps a map of entries a map of entries.
LEMMA SetBoundedType ==
  ASSUME NEW K, NEW map \in [K -> Entry], NEW put, NEW max,
         \A k \in DOMAIN put : put[k] \in Entry
  PROVE  SetBounded(map, put, max) \in [K -> Entry]
<1>1. NoEntry \in Entry
  BY DEF NoEntry, Entry
<1> DEFINE new == [k \in DOMAIN map |-> IF k \in DOMAIN put THEN put[k] ELSE map[k]]
<1>2. \A k \in K : new[k] \in Entry
  OBVIOUS
<1> HIDE DEF new
<1>3. \A k \in K : \A b \in BOOLEAN : (IF b THEN new[k] ELSE NoEntry) \in Entry
  BY <1>1, <1>2
<1> QED
  BY <1>1, <1>2, <1>3 DEF SetBounded, new

\* #prune keeps a map of entries a map of entries.
LEMMA PrunedType ==
  ASSUME NEW K, NEW map \in [K -> Entry], NEW window
  PROVE  Pruned(map, window) \in [K -> Entry]
BY DEF Pruned, NoEntry, Entry

\* #recordJob keeps the seen-jobs map well formed.
LEMMA RecordJobType ==
  ASSUME TypeOK, NEW map \in [JobIds -> Entry], NEW j \in JobIds \cup {NoJob}
  PROVE  RecordJob(map, j) \in [JobIds -> Entry]
<1> DEFINE put == [k \in {j} |-> [at |-> now, n |-> inserts + 1]]
<1>1. \A k \in DOMAIN put : put[k] \in Entry
  BY LimitsAssumption DEF TypeOK, Entry
<1> HIDE DEF put
<1>2. SetBounded(map, put, maxSeenJobs) \in [JobIds -> Entry]
  BY <1>1, SetBoundedType
<1> QED
  BY <1>2 DEF RecordJob, put

\* The bookkeeping of a start keeps the cooldown map well formed.
LEMMA RecordStartsType ==
  ASSUME TypeOK, NEW map \in [Actors -> Entry], NEW started \in Seq(Calls),
         NEW who \in [Calls -> Actors]
  PROVE  RecordStarts(map, started, who) \in [Actors -> Entry]
<1> DEFINE A == {who[started[i]] : i \in 1..Len(started)}
           place(a) == CHOOSE i \in 1..Len(started) : who[started[i]] = a
           put == [a \in A |-> [at |-> now, n |-> inserts + 1 + place(a)]]
<1>1. \A a \in A : place(a) \in 1..Len(started)
  OBVIOUS
<1>2. Len(started) \in Nat
  OBVIOUS
<1> HIDE DEF place
<1>3. \A a \in A : place(a) \in Nat
  BY <1>1, <1>2
<1>4. \A a \in DOMAIN put : put[a] \in Entry
  <2>1. now \in Nat /\ inserts \in Nat
    BY LimitsAssumption DEF TypeOK
  <2>2. \A a \in A : inserts + 1 + place(a) \in Nat
    BY <2>1, <1>3
  <2>3. \A a \in A : put[a] = [at |-> now, n |-> inserts + 1 + place(a)]
    OBVIOUS
  <2>4. DOMAIN put = A
    OBVIOUS
  <2> HIDE DEF put, A
  <2>5. ASSUME NEW a \in A PROVE put[a] \in Entry
    <3> DEFINE m == inserts + 1 + place(a)
    <3>1. m \in Nat
      BY <2>2
    <3>2. put[a] = [at |-> now, n |-> m]
      BY <2>3
    <3> HIDE DEF m
    <3> QED
      BY <2>1, <3>1, <3>2 DEF Entry
  <2> QED
    BY <2>4, <2>5
<1> HIDE DEF put, A
<1>5. SetBounded(map, put, maxTrackedActors) \in [Actors -> Entry]
  BY <1>4, SetBoundedType
<1> QED
  BY <1>5 DEF RecordStarts, put, place, A

\* With the invariant, the drain of a finishing task starts the head of the
\* queue if there is one, and nothing else.
LEMMA DrainStartsHead ==
  ASSUME IInv, NEW c \in Calls, phase[c] = "running"
  PROVE  /\ DrainCount(running - 1) = IF queue = <<>> THEN 0 ELSE 1
         /\ running >= 1
<1> DEFINE R == {x \in Calls : phase[x] = "running"}
<1>1. IsFiniteSet(Calls)
  BY FS_Interval, LimitsAssumption DEF Calls
<1>2. IsFiniteSet(R)
  BY <1>1, FS_Subset
<1>3. running >= 1
  <2>1. Cardinality(R) \in Nat /\ (Cardinality(R) = 0 <=> R = {})
    BY <1>2, FS_CardinalityType, FS_EmptySet
  <2>2. c \in R
    OBVIOUS
  <2> QED
    BY <2>1, <2>2 DEF IInv, SlotsConserved
<1>4. Len(queue) \in Nat /\ (queue # <<>> => Len(queue) >= 1)
  BY DEF IInv, TypeOK
<1> QED
  BY <1>3, <1>4, LimitsAssumption
  DEF DrainCount, IInv, TypeOK, SlotsConserved, Bookkeeping

\* The initial state satisfies the inductive invariant.
LEMMA InitIInv == Init => IInv
<1> SUFFICES ASSUME Init PROVE IInv
  OBVIOUS
<1>1. TypeOK
  <2>1. now \in 0..MaxClock /\ running \in Nat /\ inserts \in Nat
    BY LimitsAssumption DEF Init
  <2>8. closed \in BOOLEAN
    BY Zenon DEF Init
  <2>2. runningActors \in SUBSET Actors /\ queuedActors \in SUBSET Actors
    BY DEF Init
  <2>3. queue \in Seq(Calls) /\ Len(queue) <= maxQueueSize
    BY LimitsAssumption DEF Init
  <2>4. seenJobs \in [JobIds -> Entry] /\ lastStartedByActor \in [Actors -> Entry]
    BY DEF Init, NoEntry, Entry
  <2>5. phase \in [Calls -> Phases]
    BY DEF Init, Phases
  <2>6. actor \in [Calls -> Actors] /\ job \in [Calls -> JobIds \cup {NoJob}]
    BY DEF Init, Actors
  <2>7. acceptedAt \in [Calls -> Nat \cup {Absent}] /\ startedAt \in [Calls -> Nat \cup {Absent}]
    BY DEF Init
  <2> QED
    BY <2>1, <2>2, <2>3, <2>4, <2>5, <2>6, <2>7, <2>8 DEF TypeOK
<1>2. {x \in Calls : phase[x] = "running"} = {} /\ {x \in Calls : phase[x] = "queued"} = {}
  BY DEF Init
<1>3. Bookkeeping
  BY <1>2 DEF Init, Bookkeeping
<1>4. ActorExclusive
  BY DEF Init, ActorExclusive, InFlight
<1>5. SlotsConserved
  <2>1. running = 0 /\ queue = <<>> /\ 0 <= maxConcurrent
    BY LimitsAssumption DEF Init
  <2>2. Cardinality({x \in Calls : phase[x] = "running"}) = 0
    BY <1>2, FS_EmptySet
  <2> QED
    BY <2>1, <2>2 DEF SlotsConserved
<1> QED
  BY <1>1, <1>3, <1>4, <1>5 DEF IInv

\* A direct start keeps the invariant.
LEMMA RunStartsIInv ==
  ASSUME IInv, NEW c \in Calls, NEW raw \in RawActors, NEW j \in JobIds \cup {NoJob},
         RunStarts(c, raw, j)
  PROVE  IInv'
<1> DEFINE a == ActorOf(raw)
           R == {x \in Calls : phase[x] = "running"}
           seen == Pruned(seenJobs, dedupeWindow)
           last == Pruned(lastStartedByActor, cooldown)
<1>1. a \in Actors
  BY DEF ActorOf, Actors
<1>2. seen \in [JobIds -> Entry] /\ last \in [Actors -> Entry]
  BY PrunedType DEF IInv, TypeOK
<1>3. a \notin runningActors /\ a \notin queuedActors
  BY DEF RunStarts, Refusal, IsBusy
<1>4. phase[c] = "new" /\ c \in Calls
  BY DEF RunStarts, IsNextCall
<1>5. queue = <<>>
  <2>1. running < maxConcurrent /\ running \in Nat
    BY DEF RunStarts, IInv, TypeOK
  <2>2. queue # <<>> => running = maxConcurrent
    BY DEF IInv, SlotsConserved
  <2> QED
    BY <2>1, <2>2, LimitsAssumption
<1> HIDE DEF a, seen, last
<1>6. TypeOK'
  <2>1. seenJobs' \in [JobIds -> Entry]
    BY <1>2, RecordJobType DEF RunStarts, seen, IInv
  <2>2. lastStartedByActor' \in [Actors -> Entry]
    <3>1. [actor EXCEPT ![c] = a] \in [Calls -> Actors]
      BY <1>1 DEF IInv, TypeOK
    <3>2. <<c>> \in Seq(Calls)
      OBVIOUS
    <3>3. RecordStarts(last, <<c>>, [actor EXCEPT ![c] = a]) \in [Actors -> Entry]
      BY <1>2, <3>1, <3>2, RecordStartsType DEF IInv
    <3> QED
      BY <3>3 DEF RunStarts, last, a
  <2>3. runningActors' \in SUBSET Actors
    BY <1>1 DEF RunStarts, IInv, TypeOK, a
  <2>4. actor' \in [Calls -> Actors] /\ job' \in [Calls -> JobIds \cup {NoJob}]
    BY <1>1 DEF RunStarts, Identify, IInv, TypeOK, a
  <2>5. now \in Nat
    BY LimitsAssumption DEF IInv, TypeOK
  <2>6. acceptedAt' \in [Calls -> Nat \cup {Absent}] /\ startedAt' \in [Calls -> Nat \cup {Absent}]
    BY <2>5 DEF RunStarts, Identify, IInv, TypeOK
  <2>7. phase' \in [Calls -> Phases]
    BY DEF RunStarts, IInv, TypeOK, Phases
  <2>8. now' \in 0..MaxClock /\ running' \in Nat /\ inserts' \in Nat
    <3>1. now \in 0..MaxClock /\ running \in Nat /\ inserts \in Nat
      BY DEF IInv, TypeOK
    <3>2. now' = now /\ running' \in {running, running + 1} /\ inserts' \in {inserts + 1, inserts + 2}
      BY DEF RunStarts
    <3> QED
      BY <3>1, <3>2
  <2>11. closed' \in BOOLEAN
    BY Zenon DEF RunStarts, IInv, TypeOK
  <2>9. queuedActors' \in SUBSET Actors /\ queue' \in Seq(Calls) /\ Len(queue') <= maxQueueSize
    BY DEF RunStarts, IInv, TypeOK
  <2> QED
    BY <2>1, <2>2, <2>3, <2>4, <2>6, <2>7, <2>8, <2>9, <2>11 DEF TypeOK
<1>7. \A x \in Calls : /\ phase'[x] = IF x = c THEN "running" ELSE phase[x]
                       /\ actor'[x] = IF x = c THEN a ELSE actor[x]
  BY DEF RunStarts, Identify, IInv, TypeOK, a
<1>8. Bookkeeping'
  <2>1. runningActors' = runningActors \cup {a} /\ queuedActors' = queuedActors
    BY DEF RunStarts, a
  <2>2. {x \in Calls : phase'[x] = "running"} = R \cup {c}
    BY <1>7
  <2>3. {x \in Calls : phase'[x] = "queued"} = {x \in Calls : phase[x] = "queued"}
    BY <1>4, <1>7
  <2>4. runningActors' = {actor'[x] : x \in {y \in Calls : phase'[y] = "running"}}
    BY <2>1, <2>2, <1>4, <1>7 DEF IInv, Bookkeeping
  <2>5. queuedActors' = {actor'[x] : x \in {y \in Calls : phase'[y] = "queued"}}
    BY <2>1, <2>3, <1>4, <1>7 DEF IInv, Bookkeeping
  <2>6. queue' = queue /\ closed' = closed
    BY DEF RunStarts
  <2> QED
    BY <2>4, <2>5, <2>6, <1>4, <1>5, <1>7 DEF IInv, Bookkeeping
<1>9. ActorExclusive'
  <2>1. \A x \in Calls : InFlight(x) => actor[x] # a
    BY <1>3 DEF InFlight, IInv, Bookkeeping
  <2> QED
    BY <2>1, <1>4, <1>7 DEF IInv, ActorExclusive, InFlight
<1>10. SlotsConserved'
  <2>1. IsFiniteSet(R)
    <3>1. IsFiniteSet(Calls)
      BY FS_Interval, LimitsAssumption DEF Calls
    <3> QED
      BY <3>1, FS_Subset
  <2>2. Cardinality(R \cup {c}) = Cardinality(R) + 1
    BY <2>1, <1>4, FS_AddElement
  <2>3. {x \in Calls : phase'[x] = "running"} = R \cup {c}
    BY <1>7
  <2>4. running' = running + 1 /\ running < maxConcurrent /\ queue' = <<>>
    BY <1>5 DEF RunStarts
  <2>5. running = Cardinality(R) /\ running \in Nat
    BY DEF IInv, SlotsConserved, TypeOK
  <2>6. running' = Cardinality({x \in Calls : phase'[x] = "running"})
    BY <2>2, <2>3, <2>4, <2>5
  <2>7. running' <= maxConcurrent
    BY <2>4, <2>5, LimitsAssumption
  <2> QED
    BY <2>4, <2>6, <2>7 DEF SlotsConserved
<1> QED
  BY <1>6, <1>8, <1>9, <1>10 DEF IInv

\* Queueing a request keeps the invariant.
LEMMA RunEnqueuesIInv ==
  ASSUME IInv, NEW c \in Calls, NEW raw \in RawActors, NEW j \in JobIds \cup {NoJob},
         RunEnqueues(c, raw, j)
  PROVE  IInv'
<1> DEFINE a == ActorOf(raw)
           seen == Pruned(seenJobs, dedupeWindow)
           last == Pruned(lastStartedByActor, cooldown)
<1>1. a \in Actors
  BY DEF ActorOf, Actors
<1>2. seen \in [JobIds -> Entry] /\ last \in [Actors -> Entry]
  BY PrunedType DEF IInv, TypeOK
<1>3. a \notin runningActors /\ a \notin queuedActors
  BY DEF RunEnqueues, Refusal, IsBusy
<1>4. phase[c] = "new" /\ c \in Calls
  BY DEF RunEnqueues, IsNextCall
<1>5. queue' = Append(queue, c) /\ queue \in Seq(Calls)
  BY DEF RunEnqueues, IInv, TypeOK
<1> HIDE DEF a, seen, last
<1>6. TypeOK'
  <2>1. seenJobs' \in [JobIds -> Entry]
    BY <1>2, RecordJobType DEF RunEnqueues, seen, IInv
  <2>2. lastStartedByActor' \in [Actors -> Entry]
    BY <1>2 DEF RunEnqueues, last
  <2>3. queuedActors' \in SUBSET Actors
    BY <1>1 DEF RunEnqueues, IInv, TypeOK, a
  <2>4. actor' \in [Calls -> Actors] /\ job' \in [Calls -> JobIds \cup {NoJob}]
    BY <1>1 DEF RunEnqueues, Identify, IInv, TypeOK, a
  <2>5. now \in Nat
    BY LimitsAssumption DEF IInv, TypeOK
  <2>6. acceptedAt' \in [Calls -> Nat \cup {Absent}]
    BY <2>5 DEF RunEnqueues, Identify, IInv, TypeOK
  <2>7. phase' \in [Calls -> Phases]
    BY DEF RunEnqueues, IInv, TypeOK, Phases
  <2>8. queue' \in Seq(Calls) /\ Len(queue') <= maxQueueSize
    <3>1. Len(queue) \in Nat /\ Len(queue) < maxQueueSize
      <4>1. ~(Len(queue) >= maxQueueSize)
        BY Zenon DEF RunEnqueues, QueueFull
      <4>2. Len(queue) \in Nat
        BY <1>5
      <4> QED
        BY <4>1, <4>2, LimitsAssumption
    <3> QED
      BY <1>5, <3>1, LimitsAssumption
  <2>9. now' \in 0..MaxClock /\ running' \in Nat /\ inserts' \in Nat
    <3>1. now \in 0..MaxClock /\ running \in Nat /\ inserts \in Nat
      BY DEF IInv, TypeOK
    <3>2. now' = now /\ running' \in {running, running + 1} /\ inserts' \in {inserts + 1, inserts + 2}
      BY DEF RunEnqueues
    <3> QED
      BY <3>1, <3>2
  <2>11. closed' \in BOOLEAN
    BY Zenon DEF RunEnqueues, IInv, TypeOK
  <2>10. runningActors' \in SUBSET Actors /\ startedAt' \in [Calls -> Nat \cup {Absent}]
    BY DEF RunEnqueues, IInv, TypeOK
  <2> QED
    BY <2>1, <2>2, <2>3, <2>4, <2>6, <2>7, <2>8, <2>9, <2>10, <2>11 DEF TypeOK
<1>7. \A x \in Calls : /\ phase'[x] = IF x = c THEN "queued" ELSE phase[x]
                       /\ actor'[x] = IF x = c THEN a ELSE actor[x]
  BY DEF RunEnqueues, Identify, IInv, TypeOK, a
<1>8. Bookkeeping'
  <2>1. queuedActors' = queuedActors \cup {a} /\ runningActors' = runningActors
    BY DEF RunEnqueues, a
  <2>2. {x \in Calls : phase'[x] = "queued"} = {x \in Calls : phase[x] = "queued"} \cup {c}
    BY <1>7
  <2>3. {x \in Calls : phase'[x] = "running"} = {x \in Calls : phase[x] = "running"}
    BY <1>4, <1>7
  <2>4. queuedActors' = {actor'[x] : x \in {y \in Calls : phase'[y] = "queued"}}
    BY <2>1, <2>2, <1>4, <1>7 DEF IInv, Bookkeeping
  <2>5. runningActors' = {actor'[x] : x \in {y \in Calls : phase'[y] = "running"}}
    BY <2>1, <2>3, <1>4, <1>7 DEF IInv, Bookkeeping
  <2>6. /\ Len(queue') = Len(queue) + 1
        /\ queue'[Len(queue) + 1] = c
        /\ \A i \in 1..Len(queue) : queue'[i] = queue[i]
        /\ Len(queue) \in Nat
    BY <1>5
  <2>7. \A i \in 1..Len(queue) : queue[i] \in Calls /\ queue[i] # c
    BY <1>4, <1>5 DEF IInv, Bookkeeping
  <2>8. /\ \A i \in 1..Len(queue') : phase'[queue'[i]] = "queued"
        /\ \A i, k \in 1..Len(queue') : queue'[i] = queue'[k] => i = k
    BY <2>6, <2>7, <1>4, <1>7 DEF IInv, Bookkeeping
  <2>9. \A x \in Calls : phase'[x] = "queued" => \E i \in 1..Len(queue') : queue'[i] = x
    <3> SUFFICES ASSUME NEW x \in Calls, phase'[x] = "queued"
                 PROVE  \E i \in 1..Len(queue') : queue'[i] = x
      OBVIOUS
    <3>1. CASE x = c
      BY <3>1, <2>6
    <3>2. CASE x # c
      <4>1. PICK i \in 1..Len(queue) : queue[i] = x
        BY <3>2, <1>7 DEF IInv, Bookkeeping
      <4> QED
        BY <4>1, <2>6
    <3> QED
      BY <3>1, <3>2
  <2>10. closed' = FALSE
    BY DEF RunEnqueues, IInv, TypeOK
  <2> QED
    BY <2>4, <2>5, <2>8, <2>9, <2>10 DEF Bookkeeping
<1>9. ActorExclusive'
  <2>1. \A x \in Calls : InFlight(x) => actor[x] # a
    BY <1>3 DEF InFlight, IInv, Bookkeeping
  <2> QED
    BY <2>1, <1>4, <1>7 DEF IInv, ActorExclusive, InFlight
<1>10. SlotsConserved'
  <2>1. {x \in Calls : phase'[x] = "running"} = {x \in Calls : phase[x] = "running"}
    BY <1>4, <1>7
  <2>2. running' = running /\ running >= maxConcurrent
    BY DEF RunEnqueues
  <2>3. /\ running = Cardinality({x \in Calls : phase[x] = "running"})
        /\ running \in Nat /\ running <= maxConcurrent
    BY DEF IInv, SlotsConserved, TypeOK
  <2>4. running' = maxConcurrent /\ running' <= maxConcurrent
    BY <2>2, <2>3, LimitsAssumption
  <2>5. running' = Cardinality({x \in Calls : phase'[x] = "running"})
    BY <2>1, <2>2, <2>3, Zenon
  <2> QED
    BY <2>4, <2>5, Zenon DEF SlotsConserved
<1> QED
  BY <1>6, <1>8, <1>9, <1>10 DEF IInv

\* What the invariant says of the calls only depends on the calls, the queue,
\* the actor sets and the slot counter.
LEMMA SameCallsIInv ==
  ASSUME IInv, UNCHANGED <<running, runningActors, queuedActors, queue, closed, phase, actor>>
  PROVE  Bookkeeping' /\ ActorExclusive' /\ SlotsConserved'
<1>1. Bookkeeping'
  BY DEF IInv, Bookkeeping
<1>2. ActorExclusive'
  BY DEF IInv, ActorExclusive, InFlight
<1>3. SlotsConserved'
  BY DEF IInv, SlotsConserved
<1> QED
  BY <1>1, <1>2, <1>3

\* A refused request keeps the invariant.
LEMMA RunRefusedIInv ==
  ASSUME IInv, NEW raw \in RawActors, NEW j \in JobIds \cup {NoJob}, RunRefused(raw, j)
  PROVE  IInv'
<1>1. UNCHANGED <<now, running, runningActors, queuedActors, queue, inserts,
                  closed, phase, actor, job, acceptedAt, startedAt>>
  BY DEF RunRefused
<1>2. seenJobs' \in [JobIds -> Entry] /\ lastStartedByActor' \in [Actors -> Entry]
  BY PrunedType DEF RunRefused, IInv, TypeOK
<1>3. TypeOK'
  BY <1>1, <1>2 DEF IInv, TypeOK
<1> QED
  BY <1>1, <1>3, SameCallsIInv DEF IInv

\* The clock keeps the invariant.
LEMMA TickIInv ==
  ASSUME IInv, Tick
  PROVE  IInv'
<1>1. now' \in 0..MaxClock
  BY LimitsAssumption DEF Tick, IInv, TypeOK
<1>2. UNCHANGED <<running, runningActors, queuedActors, queue, seenJobs,
                  lastStartedByActor, inserts, closed, phase, actor, job, acceptedAt, startedAt>>
  BY DEF Tick
<1>3. TypeOK'
  BY <1>1, <1>2 DEF IInv, TypeOK
<1> QED
  BY <1>2, <1>3, SameCallsIInv DEF IInv

\* What follows the i-th element of a sequence.
LEMMA SuffixOf ==
  ASSUME NEW S, NEW s \in Seq(S), NEW i \in 1..Len(s)
  PROVE  /\ SubSeq(s, i + 1, Len(s)) \in Seq(S)
         /\ Len(SubSeq(s, i + 1, Len(s))) = Len(s) - i
         /\ \A k \in 1..(Len(s) - i) : SubSeq(s, i + 1, Len(s))[k] = s[k + i]
OBVIOUS

\* A sequence without its i-th element.
LEMMA WithoutIndex ==
  ASSUME NEW S, NEW s \in Seq(S), NEW i \in 1..Len(s)
  PROVE  LET t == SubSeq(s, 1, i - 1) \o SubSeq(s, i + 1, Len(s)) IN
         /\ t \in Seq(S)
         /\ Len(t) = Len(s) - 1
         /\ \A k \in 1..Len(t) : t[k] = IF k < i THEN s[k] ELSE s[k + 1]
<1> DEFINE u == SubSeq(s, 1, i - 1)
           v == SubSeq(s, i + 1, Len(s))
<1>1. /\ u \in Seq(S) /\ Len(u) = i - 1
      /\ \A k \in 1..(i - 1) : u[k] = s[k]
  OBVIOUS
<1>2. /\ v \in Seq(S) /\ Len(v) = Len(s) - i
      /\ \A k \in 1..(Len(s) - i) : v[k] = s[k + i]
  BY SuffixOf
<1>3. Len(s) \in Nat /\ i \in Nat
  OBVIOUS
<1> HIDE DEF u, v
<1>5. u \o v \in Seq(S) /\ Len(u \o v) = Len(s) - 1
  <2>1. u \o v \in Seq(S) /\ Len(u \o v) = Len(u) + Len(v)
    BY <1>1, <1>2, ConcatProperties
  <2> QED
    BY <2>1, <1>1, <1>2, <1>3
<1>6. ASSUME NEW k \in 1..Len(u \o v)
      PROVE  (u \o v)[k] = IF k < i THEN s[k] ELSE s[k + 1]
  <2>1. k \in 1..(Len(u) + Len(v)) /\ (u \o v)[k] = IF k <= Len(u) THEN u[k] ELSE v[k - Len(u)]
    BY <1>1, <1>2, <1>3, <1>5, ConcatProperties
  <2>2. CASE k < i
    BY <2>1, <2>2, <1>1, <1>3
  <2>3. CASE ~(k < i)
    <3>0. Len(u) = i - 1 /\ Len(v) = Len(s) - i
      BY <1>1, <1>2
    <3>1. k - Len(u) \in 1..(Len(s) - i) /\ (k - Len(u)) + i = k + 1 /\ ~(k <= Len(u))
      BY <2>1, <2>3, <3>0, <1>3
    <3>2. v[k - Len(u)] = s[(k - Len(u)) + i]
      BY <3>1, <1>2
    <3> QED
      BY <2>1, <2>3, <3>1, <3>2
  <2> QED
    BY <2>2, <2>3
<1>4. /\ u \o v \in Seq(S) /\ Len(u \o v) = Len(s) - 1
      /\ \A k \in 1..Len(u \o v) : (u \o v)[k] = IF k < i THEN s[k] ELSE s[k + 1]
  BY <1>5, <1>6
<1> QED
  BY <1>4 DEF u, v

\* A sequence without its head.
LEMMA WithoutHead ==
  ASSUME NEW S, NEW s \in Seq(S), Len(s) >= 1
  PROVE  /\ SubSeq(s, 2, Len(s)) \in Seq(S)
         /\ Len(SubSeq(s, 2, Len(s))) = Len(s) - 1
         /\ \A k \in 1..(Len(s) - 1) : SubSeq(s, 2, Len(s))[k] = s[k + 1]
<1>1. Len(s) \in Nat /\ 1 \in 1..Len(s) /\ 1 + 1 = 2
  OBVIOUS
<1>2. /\ SubSeq(s, 1 + 1, Len(s)) \in Seq(S)
      /\ Len(SubSeq(s, 1 + 1, Len(s))) = Len(s) - 1
      /\ \A k \in 1..(Len(s) - 1) : SubSeq(s, 1 + 1, Len(s))[k] = s[k + 1]
  BY <1>1, SuffixOf
<1> QED
  BY <1>1, <1>2, Zenon

\* A queue timer that fires keeps the invariant.
LEMMA QueueTimeoutIInv ==
  ASSUME IInv, NEW i \in 1..Len(queue), QueueTimeout(i)
  PROVE  IInv'
<1> DEFINE c == queue[i]
<1>1. queue \in Seq(Calls) /\ Len(queue) \in Nat /\ c \in Calls /\ phase[c] = "queued"
  BY DEF IInv, TypeOK, Bookkeeping
<1>2. /\ queue' \in Seq(Calls) /\ Len(queue') = Len(queue) - 1
      /\ \A k \in 1..Len(queue') : queue'[k] = IF k < i THEN queue[k] ELSE queue[k + 1]
  BY <1>1, WithoutIndex DEF QueueTimeout
<1>3. /\ queuedActors' = queuedActors \ {actor[c]}
      /\ phase' = [phase EXCEPT ![c] = "QUEUE_TIMEOUT"]
      /\ UNCHANGED <<now, running, runningActors, seenJobs, lastStartedByActor,
                     inserts, closed, actor, job, acceptedAt, startedAt>>
  BY DEF QueueTimeout
<1> HIDE DEF c
<1>4. \A x \in Calls : phase'[x] = IF x = c THEN "QUEUE_TIMEOUT" ELSE phase[x]
  BY <1>3 DEF IInv, TypeOK
<1>5. TypeOK'
  <2>1. phase' \in [Calls -> Phases]
    BY <1>1, <1>3 DEF IInv, TypeOK, Phases
  <2>2. queue' \in Seq(Calls) /\ Len(queue') <= maxQueueSize
    BY <1>1, <1>2, LimitsAssumption DEF IInv, TypeOK
  <2>3. queuedActors' \in SUBSET Actors
    BY <1>3 DEF IInv, TypeOK
  <2> QED
    BY <1>3, <2>1, <2>2, <2>3 DEF IInv, TypeOK
<1>6. {x \in Calls : phase'[x] = "running"} = {x \in Calls : phase[x] = "running"}
  BY <1>1, <1>4
<1>7. {x \in Calls : phase'[x] = "queued"} = {x \in Calls : phase[x] = "queued"} \ {c}
  BY <1>1, <1>4
<1>8. Bookkeeping'
  <2>1. \A k \in 1..Len(queue') : \E m \in 1..Len(queue) :
          /\ queue'[k] = queue[m] /\ m # i /\ m = IF k < i THEN k ELSE k + 1
    BY <1>1, <1>2
  <2>2. \A k \in 1..Len(queue') : queue'[k] \in Calls /\ queue'[k] # c /\ phase[queue'[k]] = "queued"
    BY <2>1, <1>1 DEF IInv, Bookkeeping, c
  <2>3. \A k \in 1..Len(queue') : phase'[queue'[k]] = "queued"
    BY <2>2, <1>4
  <2>4. \A k, l \in 1..Len(queue') : queue'[k] = queue'[l] => k = l
    BY <1>1, <1>2 DEF IInv, Bookkeeping
  <2>5. ASSUME NEW x \in Calls, phase'[x] = "queued"
        PROVE  \E k \in 1..Len(queue') : queue'[k] = x
    <3>1. x # c /\ phase[x] = "queued"
      BY <2>5, <1>4
    <3>2. PICK m \in 1..Len(queue) : queue[m] = x
      BY <3>1 DEF IInv, Bookkeeping
    <3>3. m # i
      BY <3>1, <3>2 DEF c
    <3>4. CASE m < i
      BY <3>2, <3>4, <1>1, <1>2
    <3>5. CASE m > i
      <4>1. (m - 1) \in 1..Len(queue') /\ ~(m - 1 < i)
        BY <3>5, <1>1, <1>2
      <4>2. queue'[m - 1] = queue[(m - 1) + 1] /\ (m - 1) + 1 = m
        BY <4>1, <1>2
      <4> QED
        BY <3>2, <4>1, <4>2
    <3> QED
      BY <3>3, <3>4, <3>5
  <2>6. runningActors' = {actor'[x] : x \in {y \in Calls : phase'[y] = "running"}}
    BY <1>3, <1>6 DEF IInv, Bookkeeping
  <2>7. queuedActors' = {actor'[x] : x \in {y \in Calls : phase'[y] = "queued"}}
    <3>1. \A x \in Calls : phase[x] = "queued" /\ x # c => actor[x] # actor[c]
      BY <1>1 DEF IInv, ActorExclusive, InFlight
    <3> QED
      BY <3>1, <1>1, <1>3, <1>7 DEF IInv, Bookkeeping
  <2>8. closed' = FALSE \/ queue' = <<>>
    <3>1. queue # <<>>
      BY <1>1
    <3>2. ~closed
      BY <3>1 DEF IInv, Bookkeeping
    <3> QED
      BY <3>2, <1>3 DEF IInv, TypeOK
  <2> QED
    BY <2>3, <2>4, <2>5, <2>6, <2>7, <2>8 DEF Bookkeeping
<1>9. ActorExclusive'
  BY <1>3, <1>4 DEF IInv, ActorExclusive, InFlight
<1>10. SlotsConserved'
  <2>1. queue # <<>>
    BY <1>1
  <2>2. /\ running = Cardinality({x \in Calls : phase[x] = "running"})
        /\ running <= maxConcurrent /\ running = maxConcurrent
    BY <2>1 DEF IInv, SlotsConserved
  <2>3. running' = running
    BY <1>3
  <2> QED
    BY <2>2, <2>3, <1>6 DEF SlotsConserved
<1> QED
  BY <1>5, <1>8, <1>9, <1>10 DEF IInv

\* Closing the runner keeps the invariant.
LEMMA CloseIInv ==
  ASSUME IInv, Close
  PROVE  IInv'
<1> DEFINE gone == {queue[i] : i \in 1..Len(queue)}
<1>1. gone = {x \in Calls : phase[x] = "queued"}
  BY DEF IInv, TypeOK, Bookkeeping
<1>2. /\ queue' = <<>>
      /\ queuedActors' = queuedActors \ {actor[d] : d \in gone}
      /\ phase' = [d \in Calls |-> IF d \in gone THEN "RUNNER_CLOSED" ELSE phase[d]]
      /\ UNCHANGED <<now, running, runningActors, seenJobs, lastStartedByActor,
                     inserts, actor, job, acceptedAt, startedAt>>
  BY DEF Close
<1> HIDE DEF gone
<1>3. \A x \in Calls : phase'[x] = IF phase[x] = "queued" THEN "RUNNER_CLOSED" ELSE phase[x]
  BY <1>1, <1>2
<1>4. queuedActors' = {}
  BY <1>1, <1>2 DEF IInv, Bookkeeping
<1>5. TypeOK'
  <2>1. phase' \in [Calls -> Phases]
    BY <1>2 DEF IInv, TypeOK, Phases
  <2>2. queue' \in Seq(Calls) /\ Len(queue') <= maxQueueSize
    BY <1>2, LimitsAssumption
  <2>3. closed' \in BOOLEAN
    BY Zenon DEF Close
  <2> QED
    BY <1>2, <1>4, <2>1, <2>2, <2>3 DEF IInv, TypeOK
<1>6. {x \in Calls : phase'[x] = "running"} = {x \in Calls : phase[x] = "running"}
  BY <1>3
<1>7. {x \in Calls : phase'[x] = "queued"} = {}
  BY <1>3
<1>8. Bookkeeping'
  <2>1. runningActors' = {actor'[x] : x \in {y \in Calls : phase'[y] = "running"}}
    BY <1>2, <1>6 DEF IInv, Bookkeeping
  <2>2. queuedActors' = {actor'[x] : x \in {y \in Calls : phase'[y] = "queued"}}
    BY <1>4, <1>7
  <2>3. \A x \in Calls : phase'[x] # "queued"
    BY <1>3
  <2>4. queue' = <<>> /\ 1..Len(queue') = {}
    BY <1>2
  <2> QED
    BY <2>1, <2>2, <2>3, <2>4 DEF Bookkeeping
<1>9. ActorExclusive'
  BY <1>2, <1>3 DEF IInv, ActorExclusive, InFlight
<1>10. SlotsConserved'
  <2>1. running' = running /\ queue' = <<>>
    BY <1>2
  <2> QED
    BY <1>6, <2>1 DEF IInv, SlotsConserved
<1> QED
  BY <1>5, <1>8, <1>9, <1>10 DEF IInv

\* A finishing task hands its slot to nobody when nothing waits.
LEMMA FinishIdleIInv ==
  ASSUME IInv, NEW c \in Calls, Finish(c), queue = <<>>
  PROVE  IInv'
<1>1. phase[c] = "running" /\ DrainCount(running - 1) = 0 /\ running >= 1
  BY DrainStartsHead DEF Finish
<1>2. SubSeq(queue, 1, 0) = <<>> /\ SubSeq(queue, 1, Len(queue)) = <<>> /\ Len(queue) = 0
  OBVIOUS
<1>3. {queue[i] : i \in 1..0} = {}
  OBVIOUS
<1>4. running \in Nat /\ inserts \in Nat
  BY DEF IInv, TypeOK
<1>5. /\ running' = running - 1
      /\ runningActors' = runningActors \ {actor[c]}
      /\ queuedActors' = queuedActors
      /\ queue' = <<>>
      /\ inserts' = inserts + 1
      /\ phase' = [d \in Calls |-> IF d = c THEN "settled" ELSE phase[d]]
      /\ startedAt' = [d \in Calls |-> startedAt[d]]
      /\ UNCHANGED <<now, seenJobs, closed, actor, job, acceptedAt>>
  BY <1>1, <1>2, <1>3, <1>4 DEF Finish
<1>6. lastStartedByActor' \in [Actors -> Entry]
  <2>1. lastStartedByActor' = RecordStarts(lastStartedByActor, <<>>, actor)
    BY <1>1, <1>2 DEF Finish
  <2>2. <<>> \in Seq(Calls)
    OBVIOUS
  <2> QED
    BY <2>1, <2>2, RecordStartsType DEF IInv, TypeOK
<1>7. \A x \in Calls : phase'[x] = IF x = c THEN "settled" ELSE phase[x]
  BY <1>5
<1>8. TypeOK'
  <2>1. phase' \in [Calls -> Phases] /\ startedAt' \in [Calls -> Nat \cup {Absent}]
    BY <1>5 DEF IInv, TypeOK, Phases
  <2>2. queue' \in Seq(Calls) /\ Len(queue') <= maxQueueSize
    BY <1>5, LimitsAssumption
  <2>3. running' \in Nat /\ inserts' \in Nat
    BY <1>1, <1>4, <1>5
  <2>4. runningActors' \in SUBSET Actors
    BY <1>5 DEF IInv, TypeOK
  <2> QED
    BY <1>5, <1>6, <2>1, <2>2, <2>3, <2>4 DEF IInv, TypeOK
<1> DEFINE R == {x \in Calls : phase[x] = "running"}
<1>9. {x \in Calls : phase'[x] = "running"} = R \ {c} /\ c \in R
  BY <1>1, <1>7
<1>10. {x \in Calls : phase'[x] = "queued"} = {x \in Calls : phase[x] = "queued"}
  BY <1>1, <1>7
<1>11. Bookkeeping'
  <2>1. runningActors' = {actor'[x] : x \in {y \in Calls : phase'[y] = "running"}}
    <3>1. \A x \in R : x # c => actor[x] # actor[c]
      BY <1>1 DEF IInv, ActorExclusive, InFlight
    <3> QED
      BY <3>1, <1>5, <1>9 DEF IInv, Bookkeeping
  <2>2. queuedActors' = {actor'[x] : x \in {y \in Calls : phase'[y] = "queued"}}
    BY <1>5, <1>10 DEF IInv, Bookkeeping
  <2>3. \A x \in Calls : phase'[x] # "queued"
    BY <1>7, <1>2 DEF IInv, Bookkeeping
  <2> QED
    BY <1>5, <2>1, <2>2, <2>3 DEF Bookkeeping
<1>12. ActorExclusive'
  BY <1>5, <1>7 DEF IInv, ActorExclusive, InFlight
<1>13. SlotsConserved'
  <2>1. IsFiniteSet(R)
    <3>1. IsFiniteSet(Calls)
      BY FS_Interval, LimitsAssumption DEF Calls
    <3> QED
      BY <3>1, FS_Subset
  <2>2. Cardinality(R \ {c}) = Cardinality(R) - 1
    BY <2>1, <1>9, FS_RemoveElement
  <2>3. running = Cardinality(R) /\ running <= maxConcurrent
    BY DEF IInv, SlotsConserved
  <2>4. running' = Cardinality({x \in Calls : phase'[x] = "running"})
    BY <2>2, <2>3, <1>5, <1>9
  <2>5. running' <= maxConcurrent
    BY <2>3, <1>4, <1>5, LimitsAssumption
  <2> QED
    BY <2>4, <2>5, <1>5 DEF SlotsConserved
<1> QED
  BY <1>8, <1>11, <1>12, <1>13 DEF IInv

\* A finishing task hands its slot to the head of the queue.
LEMMA FinishDrainsIInv ==
  ASSUME IInv, NEW c \in Calls, Finish(c), queue # <<>>
  PROVE  IInv'
<1> DEFINE h == queue[1]
           R == {x \in Calls : phase[x] = "running"}
           Q == {x \in Calls : phase[x] = "queued"}
<1>1. phase[c] = "running" /\ DrainCount(running - 1) = 1 /\ running >= 1
  BY DrainStartsHead DEF Finish
<1>2. /\ queue \in Seq(Calls) /\ Len(queue) \in Nat /\ Len(queue) >= 1
      /\ h \in Calls /\ phase[h] = "queued"
  BY DEF IInv, TypeOK, Bookkeeping
<1>3. {queue[i] : i \in 1..1} = {h} /\ {actor[d] : d \in {h}} = {actor[h]}
  OBVIOUS
<1>4. running \in Nat /\ inserts \in Nat /\ now \in Nat
  BY LimitsAssumption DEF IInv, TypeOK
<1>5. /\ running' = running
      /\ runningActors' = (runningActors \ {actor[c]}) \cup {actor[h]}
      /\ queuedActors' = queuedActors \ {actor[h]}
      /\ queue' = SubSeq(queue, 2, Len(queue))
      /\ inserts' = inserts + 2
      /\ phase' = [d \in Calls |-> IF d = c THEN "settled"
                                   ELSE IF d = h THEN "running" ELSE phase[d]]
      /\ startedAt' = [d \in Calls |-> IF d = h THEN now ELSE startedAt[d]]
      /\ UNCHANGED <<now, seenJobs, closed, actor, job, acceptedAt>>
  <2> DEFINE A == {actor[d] : d \in {queue[i] : i \in 1..1}}
  <2>1. A = {actor[h]}
    BY <1>3
  <2>2. running - 1 + 1 = running /\ inserts + 1 + 1 = inserts + 2 /\ 1 + 1 = 2
    BY <1>4
  <2>3. \A d : d \in {queue[i] : i \in 1..1} <=> d = h
    BY <1>3
  <2> HIDE DEF h
  <2> QED
    BY <1>1, <2>1, <2>2, <2>3 DEF Finish
<1>6. lastStartedByActor' \in [Actors -> Entry]
  <2>1. lastStartedByActor' = RecordStarts(lastStartedByActor, SubSeq(queue, 1, 1), actor)
    BY <1>1 DEF Finish
  <2>2. SubSeq(queue, 1, 1) \in Seq(Calls)
    BY <1>2
  <2> QED
    BY <2>1, <2>2, RecordStartsType DEF IInv, TypeOK
<1>7. /\ queue' \in Seq(Calls) /\ Len(queue') = Len(queue) - 1
      /\ \A k \in 1..Len(queue') : queue'[k] = queue[k + 1]
  <2>1. /\ SubSeq(queue, 2, Len(queue)) \in Seq(Calls)
        /\ Len(SubSeq(queue, 2, Len(queue))) = Len(queue) - 1
        /\ \A k \in 1..(Len(queue) - 1) : SubSeq(queue, 2, Len(queue))[k] = queue[k + 1]
    BY <1>2, WithoutHead
  <2>2. queue' = SubSeq(queue, 2, Len(queue))
    BY <1>5
  <2> QED
    BY <2>1, <2>2
<1> HIDE DEF h
<1>8. \A x \in Calls : phase'[x] = IF x = c THEN "settled"
                                   ELSE IF x = h THEN "running" ELSE phase[x]
  BY <1>5
<1>9. TypeOK'
  <2>1. phase' \in [Calls -> Phases]
    BY <1>5 DEF IInv, TypeOK, Phases
  <2>2. startedAt' \in [Calls -> Nat \cup {Absent}]
    BY <1>4, <1>5 DEF IInv, TypeOK
  <2>3. queue' \in Seq(Calls) /\ Len(queue') <= maxQueueSize
    BY <1>2, <1>7, LimitsAssumption DEF IInv, TypeOK
  <2>4. running' \in Nat /\ inserts' \in Nat
    BY <1>4, <1>5
  <2>5. runningActors' \in SUBSET Actors /\ queuedActors' \in SUBSET Actors
    BY <1>2, <1>5 DEF IInv, TypeOK
  <2> QED
    BY <1>5, <1>6, <2>1, <2>2, <2>3, <2>4, <2>5 DEF IInv, TypeOK
<1>10. c # h
  BY <1>1, <1>2
<1>11. {x \in Calls : phase'[x] = "running"} = (R \ {c}) \cup {h} /\ c \in R /\ h \notin R
  BY <1>1, <1>2, <1>8, <1>10
<1>12. {x \in Calls : phase'[x] = "queued"} = Q \ {h}
  BY <1>1, <1>2, <1>8
<1>13. Bookkeeping'
  <2>1. runningActors' = {actor'[x] : x \in {y \in Calls : phase'[y] = "running"}}
    <3>1. \A x \in R : x # c => actor[x] # actor[c]
      BY <1>1 DEF IInv, ActorExclusive, InFlight
    <3>2. runningActors = {actor[x] : x \in R}
      BY DEF IInv, Bookkeeping
    <3>3. runningActors' = (runningActors \ {actor[c]}) \cup {actor[h]} /\ actor' = actor
      BY <1>5
    <3>4. (runningActors \ {actor[c]}) \cup {actor[h]} = {actor[x] : x \in (R \ {c}) \cup {h}}
      BY <3>1, <3>2, <1>11
    <3> QED
      BY <3>3, <3>4, <1>11
  <2>2. queuedActors' = {actor'[x] : x \in {y \in Calls : phase'[y] = "queued"}}
    <3>1. \A x \in Q : x # h => actor[x] # actor[h]
      BY <1>2 DEF IInv, ActorExclusive, InFlight
    <3>2. queuedActors = {actor[x] : x \in Q}
      BY DEF IInv, Bookkeeping
    <3>3. queuedActors' = queuedActors \ {actor[h]} /\ actor' = actor
      BY <1>5
    <3>4. queuedActors \ {actor[h]} = {actor[x] : x \in Q \ {h}}
      BY <3>1, <3>2, <1>2
    <3> QED
      BY <3>3, <3>4, <1>12
  <2>3. \A k \in 1..Len(queue') : k + 1 \in 1..Len(queue) /\ k + 1 # 1
    BY <1>2, <1>7
  <2>4. \A k \in 1..Len(queue') : queue'[k] \in Calls /\ queue'[k] # h /\ phase[queue'[k]] = "queued"
    <3> SUFFICES ASSUME NEW k \in 1..Len(queue')
                 PROVE  queue'[k] \in Calls /\ queue'[k] # h /\ phase[queue'[k]] = "queued"
      OBVIOUS
    <3>1. queue'[k] = queue[k + 1] /\ k + 1 \in 1..Len(queue) /\ k + 1 # 1 /\ 1 \in 1..Len(queue)
      BY <2>3, <1>2, <1>7
    <3> QED
      BY <3>1, <1>2 DEF IInv, Bookkeeping, h
  <2>5. \A k \in 1..Len(queue') : phase'[queue'[k]] = "queued"
    BY <2>4, <1>1, <1>8
  <2>6. \A k, l \in 1..Len(queue') : queue'[k] = queue'[l] => k = l
    BY <2>3, <1>2, <1>7 DEF IInv, Bookkeeping
  <2>7. ASSUME NEW x \in Calls, phase'[x] = "queued"
        PROVE  \E k \in 1..Len(queue') : queue'[k] = x
    <3>1. x # h /\ phase[x] = "queued"
      BY <2>7, <1>8
    <3>2. PICK m \in 1..Len(queue) : queue[m] = x
      BY <3>1 DEF IInv, Bookkeeping
    <3>3. m - 1 \in 1..Len(queue') /\ (m - 1) + 1 = m
      BY <3>1, <3>2, <1>2, <1>7 DEF h
    <3> QED
      BY <3>2, <3>3, <1>7
  <2>8. ~closed'
    BY <1>5 DEF IInv, Bookkeeping
  <2> QED
    BY <2>1, <2>2, <2>5, <2>6, <2>7, <2>8 DEF Bookkeeping
<1>14. ActorExclusive'
  <2>1. InFlight(h) /\ (\A x \in Calls : InFlight(x)' => InFlight(x)) /\ UNCHANGED actor
    BY <1>2, <1>5, <1>8 DEF InFlight
  <2> QED
    BY <2>1 DEF IInv, ActorExclusive
<1>15. SlotsConserved'
  <2>1. IsFiniteSet(R)
    <3>1. IsFiniteSet(Calls)
      BY FS_Interval, LimitsAssumption DEF Calls
    <3> QED
      BY <3>1, FS_Subset
  <2>2. Cardinality(R \ {c}) = Cardinality(R) - 1 /\ IsFiniteSet(R \ {c})
    BY <2>1, <1>11, FS_RemoveElement
  <2>3. Cardinality((R \ {c}) \cup {h}) = Cardinality(R \ {c}) + 1
    BY <2>2, <1>11, FS_AddElement
  <2>4. running = Cardinality(R) /\ running <= maxConcurrent /\ running = maxConcurrent
    BY DEF IInv, SlotsConserved
  <2>6. running' = running
    BY <1>5
  <2>7. Cardinality((R \ {c}) \cup {h}) = running
    <3> HIDE DEF R
    <3> QED
      BY <2>2, <2>3, <2>4, <1>4
  <2>5. running' = Cardinality({x \in Calls : phase'[x] = "running"})
    BY <2>6, <2>7, <1>11
  <2> QED
    BY <2>4, <2>5, <2>6 DEF SlotsConserved
<1> QED
  BY <1>9, <1>13, <1>14, <1>15 DEF IInv

\* Every step of the runner keeps the inductive invariant.
LEMMA NextIInv == IInv /\ [Next]_runnerVars => IInv'
<1> SUFFICES ASSUME IInv, [Next]_runnerVars PROVE IInv'
  OBVIOUS
<1>1. CASE \E c \in Calls, raw \in RawActors, j \in JobIds \cup {NoJob} : RunStarts(c, raw, j)
  BY <1>1, RunStartsIInv
<1>2. CASE \E c \in Calls, raw \in RawActors, j \in JobIds \cup {NoJob} : RunEnqueues(c, raw, j)
  BY <1>2, RunEnqueuesIInv
<1>3. CASE \E raw \in RawActors, j \in JobIds \cup {NoJob} : RunRefused(raw, j)
  BY <1>3, RunRefusedIInv
<1>4. CASE \E c \in Calls : Finish(c)
  BY <1>4, FinishIdleIInv, FinishDrainsIInv
<1>5. CASE \E i \in 1..Len(queue) : QueueTimeout(i)
  BY <1>5, QueueTimeoutIInv
<1>6. CASE Close
  BY <1>6, CloseIInv
<1>7. CASE Tick
  BY <1>7, TickIInv
<1>8. CASE UNCHANGED runnerVars
  <2>1. UNCHANGED <<running, runningActors, queuedActors, queue, closed, phase, actor>>
    BY <1>8 DEF runnerVars
  <2>2. TypeOK'
    BY <1>8 DEF IInv, TypeOK, runnerVars
  <2> QED
    BY <2>1, <2>2, SameCallsIInv DEF IInv
<1> QED
  BY <1>1, <1>2, <1>3, <1>4, <1>5, <1>6, <1>7, <1>8 DEF Next

\* The fields of the runner keep their types and the queue its bound, for any
\* limits, actors, job ids and number of calls (job-runner.ts, #enqueue, #start).
THEOREM TypeCorrect == Spec => []TypeOK
<1>1. IInv => TypeOK
  BY DEF IInv
<1> QED
  BY <1>1, InitIInv, NextIInv, PTL DEF Spec

\* ACTOR_BUSY does what its message says: no actor ever has two requests queued
\* or running, for any limits (#assertAccepted, #start, #drain, timer, close).
THEOREM ActorExclusiveAlways == Spec => []ActorExclusive
<1>1. IInv => ActorExclusive
  BY DEF IInv
<1> QED
  BY <1>1, InitIInv, NextIInv, PTL DEF Spec

\* #running counts the running tasks, never exceeds maxConcurrent, and the queue
\* never waits while a slot is free, for any limits (#start, #drain).
THEOREM SlotsConservedAlways == Spec => []SlotsConserved
<1>1. IInv => SlotsConserved
  BY DEF IInv
<1> QED
  BY <1>1, InitIInv, NextIInv, PTL DEF Spec
-----------------------------------------------------------------------------
(* The bounded maps and their windows.                                     *)

\* The keys a map has seen since the call c was recorded, but for its own.
LaterKeys(K, recorded, key, c) ==
  {key[e] : e \in {x \in recorded : x > c}} \cap (K \ {key[c]})

\* The iteration order of a map is that of the records: what is behind an entry
\* was recorded after every call with its key.
Ordered(map, recorded, key) ==
  \A y, k \in Live(map) : map[y].n > map[k].n =>
    \A c \in recorded : key[c] = k => \E e \in recorded : e > c /\ key[e] = y

\* What the map forgot of a call was too old by then, or enough other keys were
\* recorded since.
Remembers(map, recorded, key, at, t, window, max) ==
  \A c \in recorded : key[c] \in DOMAIN map =>
    \/ map[key[c]].n > 0 /\ map[key[c]].at >= at[c]
    \/ t - at[c] >= window
    \/ Cardinality(LaterKeys(DOMAIN map, recorded, key, c)) >= max

\* Both together, for a map whose entries have numbers up to N; without a window
\* there is nothing to keep in order.
MapInv(map, recorded, key, at, t, window, max, N) ==
  /\ \A k \in DOMAIN map : map[k].n <= N
  /\ window > 0 => Ordered(map, recorded, key)
  /\ Remembers(map, recorded, key, at, t, window, max)

Accepted == {c \in Calls : acceptedAt[c] # Absent}
Started == {c \in Calls : startedAt[c] # Absent}
StartedBetween(c, d) ==
  {actor[e] : e \in {x \in (c + 1)..(d - 1) : startedAt[x] # Absent}} \ {actor[c]}

\* Calls are numbered, queued and started in the order they were accepted in.
InCallOrder ==
  /\ \A c \in Calls : /\ (phase[c] = "new") = (acceptedAt[c] = Absent)
                      /\ (phase[c] \in {"running", "settled"}) = (startedAt[c] # Absent)
                      /\ acceptedAt[c] <= now /\ startedAt[c] <= now
  /\ \A c, d \in Calls : c < d /\ phase[d] # "new" => phase[c] # "new"
  /\ \A i, k \in 1..Len(queue) : i < k => queue[i] < queue[k]
  /\ \A c \in Started : \A i \in 1..Len(queue) : c < queue[i]

\* A queued request has passed the test of its cooldown for good: later starts
\* only add to those in between.
QueuedIsCool ==
  \A c, d \in Calls :
    phase[d] = "queued" /\ startedAt[c] # Absent /\ actor[c] = actor[d] =>
      \/ now - startedAt[c] >= cooldown
      \/ Cardinality(StartedBetween(c, d)) >= maxTrackedActors

SeenInv ==
  MapInv(seenJobs, Accepted, job, acceptedAt, now, dedupeWindow, maxSeenJobs, inserts)
LastInv ==
  MapInv(lastStartedByActor, Started, actor, startedAt, now, cooldown, maxTrackedActors, inserts)

WindowsInv ==
  /\ InCallOrder /\ SeenInv /\ LastInv /\ QueuedIsCool
  /\ DedupeWithinCapacity /\ CooldownWithinCapacity

\* The two halves of #setBounded.
PutIn(map, put) == [k \in DOMAIN map |-> IF k \in DOMAIN put THEN put[k] ELSE map[k]]
Shrunk(map, max) ==
  [k \in DOMAIN map |->
     IF Cardinality({y \in Live(map) : map[y].n > map[k].n}) < max THEN map[k] ELSE NoEntry]

LEMMA SetBoundedHalves ==
  ASSUME NEW map, NEW put, NEW max
  PROVE  SetBounded(map, put, max) = Shrunk(PutIn(map, put), max)
BY DEF SetBounded, PutIn, Shrunk

\* Finitely many calls have finitely many keys.
LEMMA KeysFinite ==
  ASSUME NEW S \in SUBSET Calls, NEW key
  PROVE  IsFiniteSet({key[e] : e \in S})
<1> DEFINE T == {key[e] : e \in S}
           f == [e \in S |-> key[e]]
<1>1. IsFiniteSet(S)
  <2>1. IsFiniteSet(Calls)
    BY FS_Interval, LimitsAssumption DEF Calls
  <2> QED
    BY <2>1, FS_Subset
<1>2. f \in Surjection(S, T)
  BY DEF Surjection
<1> HIDE DEF f
<1> QED
  BY <1>1, <1>2, FS_Surjection

\* A larger set of keys has no fewer of them.
LEMMA MoreKeys ==
  ASSUME NEW T, IsFiniteSet(T), NEW S \in SUBSET T
  PROVE  Cardinality(S) \in Nat /\ Cardinality(T) \in Nat /\ Cardinality(S) <= Cardinality(T)
BY FS_Subset, FS_CardinalityType

LEMMA LaterKeysFinite ==
  ASSUME NEW K, NEW recorded \in SUBSET Calls, NEW key, NEW c
  PROVE  IsFiniteSet(LaterKeys(K, recorded, key, c))
<1> DEFINE S == {x \in recorded : x > c}
<1>1. IsFiniteSet({key[e] : e \in S})
  BY KeysFinite
<1> QED
  BY <1>1, FS_Subset DEF LaterKeys

\* What is recorded later only adds to the keys a map has seen since.
LEMMA LaterKeysGrow ==
  ASSUME NEW K, NEW recorded \in SUBSET Calls, NEW more \in SUBSET Calls, recorded \subseteq more,
         NEW key, NEW keyN, \A e \in recorded : keyN[e] = key[e], NEW c \in recorded
  PROVE  /\ Cardinality(LaterKeys(K, recorded, key, c)) \in Nat
         /\ Cardinality(LaterKeys(K, more, keyN, c)) \in Nat
         /\ Cardinality(LaterKeys(K, recorded, key, c)) <= Cardinality(LaterKeys(K, more, keyN, c))
<1>1. LaterKeys(K, recorded, key, c) \subseteq LaterKeys(K, more, keyN, c)
  BY DEF LaterKeys
<1>2. IsFiniteSet(LaterKeys(K, more, keyN, c))
  BY LaterKeysFinite
<1> QED
  BY <1>1, <1>2, MoreKeys

\* Evicting from the front of the map keeps it in order and forgets only what
\* enough others were recorded after.
LEMMA ShrunkKeeps ==
  ASSUME NEW K, NEW map \in [K -> Entry], NEW recorded \in SUBSET Calls, NEW key, NEW at,
         NEW t, NEW window, NEW max \in Nat,
         Ordered(map, recorded, key), Remembers(map, recorded, key, at, t, window, max)
  PROVE  /\ Ordered(Shrunk(map, max), recorded, key)
         /\ Remembers(Shrunk(map, max), recorded, key, at, t, window, max)
<1> DEFINE ev == Shrunk(map, max)
           younger(k) == {y \in Live(map) : map[y].n > map[k].n}
<1>1. /\ DOMAIN ev = K /\ DOMAIN map = K
      /\ \A k \in K : ev[k] = IF Cardinality(younger(k)) < max THEN map[k] ELSE NoEntry
  BY DEF Shrunk
<1> HIDE DEF ev
<1>2. \A k \in K : ev[k].n > 0 => ev[k] = map[k]
  <2>1. ~(NoEntry.n > 0)
    BY DEF NoEntry
  <2>2. \A k \in K : ev[k] = map[k] \/ ev[k] = NoEntry
    <3> HIDE DEF younger
    <3> QED
      BY <1>1
  <2> QED
    BY <2>1, <2>2
<1>3. Live(ev) \subseteq Live(map) /\ \A k \in Live(ev) : ev[k] = map[k]
  BY <1>1, <1>2 DEF Live
<1>4. Ordered(ev, recorded, key)
  BY <1>3 DEF Ordered
<1>5. ASSUME NEW c \in recorded, key[c] \in K
      PROVE  \/ ev[key[c]].n > 0 /\ ev[key[c]].at >= at[c]
             \/ t - at[c] >= window
             \/ Cardinality(LaterKeys(K, recorded, key, c)) >= max
  <2> DEFINE k == key[c]
  <2>1. CASE Cardinality(younger(k)) < max
    BY <2>1, <1>1, <1>5 DEF Remembers
  <2>2. CASE ~(Cardinality(younger(k)) < max) /\ map[k].n > 0
    <3>1. younger(k) \subseteq LaterKeys(K, recorded, key, c)
      <4> SUFFICES ASSUME NEW y \in younger(k) PROVE y \in LaterKeys(K, recorded, key, c)
        OBVIOUS
      <4>1. y \in K /\ y # k /\ map[y].n > map[k].n /\ y \in Live(map) /\ k \in Live(map)
        BY <1>1, <1>5, <2>2 DEF Live, Entry
      <4>2. PICK e \in recorded : e > c /\ key[e] = y
        BY <4>1 DEF Ordered
      <4> QED
        BY <4>1, <4>2 DEF LaterKeys
    <3>2. IsFiniteSet(LaterKeys(K, recorded, key, c))
      BY LaterKeysFinite
    <3> HIDE DEF younger
    <3>3. Cardinality(younger(k)) \in Nat /\ Cardinality(LaterKeys(K, recorded, key, c)) \in Nat
          /\ Cardinality(younger(k)) <= Cardinality(LaterKeys(K, recorded, key, c))
      BY <3>1, <3>2, MoreKeys
    <3> QED
      BY <2>2, <3>3
  <2>3. CASE ~(map[k].n > 0)
    BY <2>3, <1>1, <1>5 DEF Remembers
  <2> QED
    BY <2>1, <2>2, <2>3
<1>6. Remembers(ev, recorded, key, at, t, window, max)
  BY <1>1, <1>5 DEF Remembers
<1> QED
  BY <1>4, <1>6 DEF ev

\* Pruning forgets only what is too old.
LEMMA PrunedKeeps ==
  ASSUME NEW K, NEW map \in [K -> Entry], NEW recorded \in SUBSET Calls, NEW key,
         NEW at, \A c \in recorded : at[c] \in Int, NEW window \in Nat, NEW max, now \in Nat,
         Remembers(map, recorded, key, at, now, window, max)
  PROVE  /\ Ordered(map, recorded, key) => Ordered(Pruned(map, window), recorded, key)
         /\ Remembers(Pruned(map, window), recorded, key, at, now, window, max)
<1> DEFINE pr == Pruned(map, window)
<1>1. /\ DOMAIN pr = K /\ DOMAIN map = K
      /\ \A k \in K : pr[k] = IF map[k].n > 0 /\ now - map[k].at >= window THEN NoEntry ELSE map[k]
  BY DEF Pruned
<1> HIDE DEF pr
<1>2. Live(pr) \subseteq Live(map) /\ \A k \in Live(pr) : pr[k] = map[k]
  BY <1>1 DEF Live, NoEntry
<1>3. Ordered(map, recorded, key) => Ordered(pr, recorded, key)
  BY <1>2 DEF Ordered
<1>4. ASSUME NEW c \in recorded, key[c] \in K
      PROVE  \/ pr[key[c]].n > 0 /\ pr[key[c]].at >= at[c]
             \/ now - at[c] >= window
             \/ Cardinality(LaterKeys(K, recorded, key, c)) >= max
  <2>1. map[key[c]].at \in Nat /\ at[c] \in Int
    BY <1>4 DEF Entry
  <2>2. \/ map[key[c]].n > 0 /\ map[key[c]].at >= at[c]
        \/ now - at[c] >= window
        \/ Cardinality(LaterKeys(K, recorded, key, c)) >= max
    BY <1>1, <1>4 DEF Remembers
  <2> QED
    BY <1>1, <1>4, <2>1, <2>2
<1>5. Remembers(pr, recorded, key, at, now, window, max)
  BY <1>1, <1>4 DEF Remembers
<1> QED
  BY <1>3, <1>5 DEF pr

\* A record of a key that the map does not hold leaves its memory alone.
LEMMA OtherKeyKeeps ==
  ASSUME NEW K, NEW map, DOMAIN map = K, NEW recorded \in SUBSET Calls, NEW d \in Calls,
         NEW key, NEW keyN, NEW at, NEW atN, keyN[d] \notin K,
         \A c \in recorded : keyN[c] = key[c] /\ atN[c] = at[c],
         NEW t, NEW window, NEW max \in Nat,
         Ordered(map, recorded, key), Remembers(map, recorded, key, at, t, window, max)
  PROVE  /\ Ordered(map, recorded \cup {d}, keyN)
         /\ Remembers(map, recorded \cup {d}, keyN, atN, t, window, max)
<1>1. Ordered(map, recorded \cup {d}, keyN)
  BY DEF Ordered, Live
<1>2. ASSUME NEW c \in recorded \cup {d}, keyN[c] \in K
      PROVE  \/ map[keyN[c]].n > 0 /\ map[keyN[c]].at >= atN[c]
             \/ t - atN[c] >= window
             \/ Cardinality(LaterKeys(K, recorded \cup {d}, keyN, c)) >= max
  <2>1. c \in recorded /\ keyN[c] = key[c] /\ atN[c] = at[c]
    BY <1>2
  <2>2. /\ Cardinality(LaterKeys(K, recorded, key, c)) \in Nat
        /\ Cardinality(LaterKeys(K, recorded \cup {d}, keyN, c)) \in Nat
        /\ Cardinality(LaterKeys(K, recorded, key, c))
             <= Cardinality(LaterKeys(K, recorded \cup {d}, keyN, c))
    BY <2>1, LaterKeysGrow
  <2>3. \/ map[key[c]].n > 0 /\ map[key[c]].at >= at[c]
        \/ t - at[c] >= window
        \/ Cardinality(LaterKeys(K, recorded, key, c)) >= max
    BY <1>2, <2>1 DEF Remembers
  <2> QED
    BY <2>1, <2>2, <2>3
<1> QED
  BY <1>1, <1>2 DEF Remembers

\* While nothing is recorded, a map is as good as it was, later on too.
LEMMA MapStays ==
  ASSUME NEW K, NEW map \in [K -> Entry], NEW recorded \in SUBSET Calls, NEW key, NEW keyN, NEW at,
         \A c \in recorded : keyN[c] = key[c] /\ at[c] \in Int,
         NEW t \in Nat, NEW t2 \in Nat, t <= t2, NEW window \in Nat, NEW max \in Nat,
         NEW N \in Nat, NEW N2 \in Nat, N <= N2,
         MapInv(map, recorded, key, at, t, window, max, N)
  PROVE  MapInv(map, recorded, keyN, at, t2, window, max, N2)
<1>1. \A k \in K : map[k].n <= N2
  BY DEF MapInv, Entry
<1>2. window > 0 => Ordered(map, recorded, keyN)
  BY DEF MapInv, Ordered
<1>3. ASSUME NEW c \in recorded, keyN[c] \in K
      PROVE  \/ map[keyN[c]].n > 0 /\ map[keyN[c]].at >= at[c]
             \/ t2 - at[c] >= window
             \/ Cardinality(LaterKeys(K, recorded, keyN, c)) >= max
  <2>1. keyN[c] = key[c] /\ at[c] \in Int
    OBVIOUS
  <2>2. /\ Cardinality(LaterKeys(K, recorded, key, c)) \in Nat
        /\ Cardinality(LaterKeys(K, recorded, keyN, c)) \in Nat
        /\ Cardinality(LaterKeys(K, recorded, key, c)) <= Cardinality(LaterKeys(K, recorded, keyN, c))
    BY LaterKeysGrow
  <2>3. \/ map[key[c]].n > 0 /\ map[key[c]].at >= at[c]
        \/ t - at[c] >= window
        \/ Cardinality(LaterKeys(K, recorded, key, c)) >= max
    BY <1>3, <2>1 DEF MapInv, Remembers
  <2>4. t - at[c] >= window => t2 - at[c] >= window
    BY <2>1
  <2> QED
    BY <2>1, <2>2, <2>3, <2>4
<1> QED
  BY <1>1, <1>2, <1>3 DEF MapInv, Remembers

LEMMA MapPruned ==
  ASSUME NEW K, NEW map \in [K -> Entry], NEW recorded \in SUBSET Calls, NEW key, NEW at,
         \A c \in recorded : at[c] \in Int, now \in Nat, NEW window \in Nat, NEW max,
         NEW N \in Nat, MapInv(map, recorded, key, at, now, window, max, N)
  PROVE  MapInv(Pruned(map, window), recorded, key, at, now, window, max, N)
<1>1. \A k \in K : Pruned(map, window)[k].n <= N
  BY DEF MapInv, Pruned, NoEntry
<1>2. DOMAIN Pruned(map, window) = K
  BY DEF Pruned
<1> QED
  BY <1>1, <1>2, PrunedKeeps DEF MapInv

\* Without a window every record is old.
LEMMA MapWithoutWindow ==
  ASSUME NEW K, NEW map \in [K -> Entry], NEW recorded, NEW key, NEW at,
         NEW t \in Nat, \A c \in recorded : at[c] \in Int /\ at[c] <= t, NEW max,
         NEW N \in Nat, \A k \in K : map[k].n <= N
  PROVE  MapInv(map, recorded, key, at, t, 0, max, N)
<1>1. \A c \in recorded : t - at[c] >= 0
  OBVIOUS
<1> QED
  BY <1>1 DEF MapInv, Remembers

LEMMA MapOtherKey ==
  ASSUME NEW K, NEW map \in [K -> Entry], NEW recorded \in SUBSET Calls, NEW d \in Calls,
         NEW key, NEW keyN, NEW at, NEW atN, keyN[d] \notin K,
         \A c \in recorded : keyN[c] = key[c] /\ atN[c] = at[c],
         NEW t, NEW window \in Nat, NEW max \in Nat, NEW N \in Nat, NEW N2 \in Nat, N <= N2,
         window > 0, MapInv(map, recorded, key, at, t, window, max, N)
  PROVE  MapInv(map, recorded \cup {d}, keyN, atN, t, window, max, N2)
<1>1. \A k \in K : map[k].n <= N2
  BY DEF MapInv, Entry
<1>2. Ordered(map, recorded, key) /\ Remembers(map, recorded, key, at, t, window, max)
  BY DEF MapInv
<1>3. DOMAIN map = K
  OBVIOUS
<1>4. Ordered(map, recorded \cup {d}, keyN) /\ Remembers(map, recorded \cup {d}, keyN, atN, t, window, max)
  BY <1>2, <1>3, OtherKeyKeeps
<1> QED
  BY <1>1, <1>4 DEF MapInv

\* What #setBounded does for the call that was recorded last.
LEMMA MapRecords ==
  ASSUME NEW K, NEW map \in [K -> Entry], NEW recorded \in SUBSET Calls, NEW d \in Calls,
         \A c \in recorded : c < d,
         NEW key, NEW keyN, NEW at, NEW atN, keyN[d] \in K,
         NEW t \in Nat, atN[d] = t,
         \A c \in recorded : keyN[c] = key[c] /\ atN[c] = at[c] /\ at[c] \in Int /\ at[c] <= t,
         NEW window \in Nat, window > 0, NEW max \in Nat,
         NEW N \in Nat, NEW N2 \in Nat, NEW n \in Nat, N < n, n <= N2,
         NEW put, DOMAIN put = {keyN[d]}, put[keyN[d]] = [at |-> t, n |-> n],
         MapInv(map, recorded, key, at, t, window, max, N)
  PROVE  MapInv(SetBounded(map, put, max), recorded \cup {d}, keyN, atN, t, window, max, N2)
<1> DEFINE entry == [at |-> t, n |-> n]
           new == [k \in K |-> IF k = keyN[d] THEN entry ELSE map[k]]
<1>1. entry \in Entry /\ entry.at = t /\ entry.n = n
  BY DEF Entry
<1>2. PutIn(map, put) = new
  BY DEF PutIn
<1> HIDE DEF entry
<1>3. \A k \in K : map[k].n < entry.n
  <2>1. \A k \in K : map[k].n <= N /\ map[k].n \in Nat
    BY DEF MapInv, Entry
  <2> QED
    BY <1>1, <2>1
<1>4. new \in [K -> Entry] /\ \A k \in K : new[k].n <= N2 /\ new[k].n \in Nat
  BY <1>1, <1>3 DEF Entry
<1>5. Ordered(map, recorded, key) /\ Remembers(map, recorded, key, at, t, window, max)
  BY DEF MapInv
<1>6. /\ Ordered(new, recorded \cup {d}, keyN)
      /\ Remembers(new, recorded \cup {d}, keyN, atN, t, window, max)
  <2> DEFINE j == keyN[d]
  <2>1. DOMAIN new = K /\ new[j] = entry /\ \A k \in K : k # j => new[k] = map[k]
    OBVIOUS
  <2> HIDE DEF new
  <2>2. entry.n \in Nat /\ entry.n > 0 /\ \A k \in K : map[k].n \in Nat
    BY <1>1 DEF Entry
  <2>3. ASSUME NEW y \in Live(new), NEW k \in Live(new), new[y].n > new[k].n,
               NEW c \in recorded \cup {d}, keyN[c] = k
        PROVE  \E e \in recorded \cup {d} : e > c /\ keyN[e] = y
    <3>0. y \in K /\ k \in K
      BY <2>1, <2>3 DEF Live
    <3>1. k # j
      BY <1>1, <1>3, <2>1, <2>2, <2>3, <3>0
    <3>2. c \in recorded /\ key[c] = k /\ new[k] = map[k] /\ k \in Live(map) /\ c < d
      BY <2>1, <2>3, <3>0, <3>1 DEF Live
    <3>3. CASE y = j
      BY <3>2, <3>3
    <3>4. CASE y # j
      <4>1. y \in Live(map) /\ map[y].n > map[k].n
        BY <2>1, <2>3, <3>0, <3>2, <3>4 DEF Live
      <4> QED
        BY <1>5, <3>2, <4>1 DEF Ordered
    <3> QED
      BY <3>3, <3>4
  <2>4. Ordered(new, recorded \cup {d}, keyN)
    BY <2>3 DEF Ordered
  <2>5. ASSUME NEW c \in recorded \cup {d}, keyN[c] \in K
        PROVE  \/ new[keyN[c]].n > 0 /\ new[keyN[c]].at >= atN[c]
               \/ t - atN[c] >= window
               \/ Cardinality(LaterKeys(K, recorded \cup {d}, keyN, c)) >= max
    <3>1. CASE keyN[c] = j
      BY <1>1, <2>1, <2>2, <2>5, <3>1
    <3>2. CASE keyN[c] # j
      <4>1. c \in recorded /\ keyN[c] = key[c] /\ atN[c] = at[c] /\ new[keyN[c]] = map[key[c]]
        BY <2>1, <2>5, <3>2
      <4>2. /\ Cardinality(LaterKeys(K, recorded, key, c)) \in Nat
            /\ Cardinality(LaterKeys(K, recorded \cup {d}, keyN, c)) \in Nat
            /\ Cardinality(LaterKeys(K, recorded, key, c))
                 <= Cardinality(LaterKeys(K, recorded \cup {d}, keyN, c))
        BY <4>1, LaterKeysGrow
      <4>3. \/ map[key[c]].n > 0 /\ map[key[c]].at >= at[c]
            \/ t - at[c] >= window
            \/ Cardinality(LaterKeys(K, recorded, key, c)) >= max
        BY <1>5, <2>5, <4>1 DEF Remembers
      <4> QED
        BY <4>1, <4>2, <4>3
    <3> QED
      BY <3>1, <3>2
  <2> QED
    BY <2>1, <2>4, <2>5 DEF Remembers
<1> HIDE DEF new
<1>7. recorded \cup {d} \in SUBSET Calls
  OBVIOUS
<1>8. /\ Ordered(Shrunk(new, max), recorded \cup {d}, keyN)
      /\ Remembers(Shrunk(new, max), recorded \cup {d}, keyN, atN, t, window, max)
  BY <1>4, <1>6, <1>7, ShrunkKeeps
<1>9. \A k \in DOMAIN Shrunk(new, max) : Shrunk(new, max)[k].n <= N2
  BY <1>4 DEF Shrunk, NoEntry
<1>10. SetBounded(map, put, max) = Shrunk(new, max)
  BY <1>2, SetBoundedHalves
<1> QED
  BY <1>8, <1>9, <1>10 DEF MapInv

JobsBetween(c, d) ==
  {job[e] : e \in {x \in (c + 1)..(d - 1) : acceptedAt[x] # Absent}} \ {job[c], NoJob}

\* The types and limits the steps need.
LEMMA WindowFacts ==
  ASSUME IInv
  PROVE  /\ now \in Nat /\ inserts \in Nat /\ dedupeWindow \in Nat /\ cooldown \in Nat
         /\ maxSeenJobs \in Nat /\ maxTrackedActors \in Nat /\ Calls \subseteq Nat /\ Absent \in Int
         /\ seenJobs \in [JobIds -> Entry] /\ lastStartedByActor \in [Actors -> Entry]
         /\ acceptedAt \in [Calls -> Int] /\ startedAt \in [Calls -> Int]
         /\ job \in [Calls -> JobIds \cup {NoJob}] /\ actor \in [Calls -> Actors]
         /\ phase \in [Calls -> Phases] /\ Accepted \subseteq Calls /\ Started \subseteq Calls
<1>1. now \in Nat /\ dedupeWindow \in Nat /\ cooldown \in Nat /\ maxSeenJobs \in Nat
      /\ maxTrackedActors \in Nat /\ Calls \subseteq Nat /\ Absent \in Int
  BY LimitsAssumption DEF IInv, TypeOK, Calls, Absent
<1>2. acceptedAt \in [Calls -> Int] /\ startedAt \in [Calls -> Int]
  BY <1>1 DEF IInv, TypeOK
<1> QED
  BY <1>1, <1>2 DEF IInv, TypeOK, Accepted, Started

\* All calls accepted so far come before the next one.
LEMMA NextCallIsLast ==
  ASSUME IInv, InCallOrder, NEW c \in Calls, IsNextCall(c)
  PROVE  /\ c \notin Accepted /\ c \notin Started /\ Started \subseteq Accepted
         /\ \A x \in Accepted : x < c
<1>1. phase[c] = "new" /\ c \in Nat /\ Calls \subseteq Nat
  BY WindowFacts DEF IsNextCall
<1>2. Started \subseteq Accepted
  BY DEF Started, Accepted, InCallOrder
<1>3. ASSUME NEW x \in Accepted PROVE x < c
  <2>1. x \in Calls /\ phase[x] # "new" /\ x \in Nat
    BY <1>1 DEF Accepted, InCallOrder
  <2>2. ~(c < x)
    BY <1>1, <2>1 DEF InCallOrder
  <2> QED
    BY <1>1, <2>1, <2>2
<1> QED
  BY <1>1, <1>2, <1>3 DEF Accepted, InCallOrder

\* A call that passed #assertAccepted and #recordJob.
LEMMA AcceptKeepsSeen ==
  ASSUME IInv, InCallOrder, SeenInv, DedupeWithinCapacity,
         NEW c \in Calls, IsNextCall(c), NEW j \in JobIds \cup {NoJob},
         ~IsDuplicate(j, Pruned(seenJobs, dedupeWindow)),
         seenJobs' = RecordJob(Pruned(seenJobs, dedupeWindow), j),
         job' = [job EXCEPT ![c] = j], acceptedAt' = [acceptedAt EXCEPT ![c] = now],
         now' = now, inserts' \in Nat, inserts' >= inserts + 1
  PROVE  SeenInv' /\ DedupeWithinCapacity'
<1> DEFINE seen == Pruned(seenJobs, dedupeWindow)
<1>1. /\ now \in Nat /\ inserts \in Nat /\ dedupeWindow \in Nat /\ maxSeenJobs \in Nat
      /\ seenJobs \in [JobIds -> Entry] /\ acceptedAt \in [Calls -> Int]
      /\ job \in [Calls -> JobIds \cup {NoJob}] /\ Calls \subseteq Nat /\ Accepted \in SUBSET Calls
      /\ Absent \in Int
  BY WindowFacts
<1>2. \A x \in Accepted : x < c
  BY NextCallIsLast
<1>3. /\ job'[c] = j /\ acceptedAt'[c] = now /\ now # Absent
      /\ \A x \in Calls : x # c => job'[x] = job[x] /\ acceptedAt'[x] = acceptedAt[x]
  BY <1>1 DEF Absent
<1>4. Accepted' = Accepted \cup {c}
  BY <1>3 DEF Accepted
<1>5. \A x \in Accepted : /\ job'[x] = job[x] /\ acceptedAt'[x] = acceptedAt[x]
                          /\ acceptedAt[x] \in Int /\ acceptedAt[x] <= now
  <2>1. \A x \in Accepted : x # c /\ x \in Calls
    BY <1>1, <1>2
  <2> QED
    BY <1>1, <1>3, <2>1 DEF InCallOrder
<1>6. seen \in [JobIds -> Entry]
  BY <1>1, PrunedType
<1>7. MapInv(seen, Accepted, job, acceptedAt, now, dedupeWindow, maxSeenJobs, inserts)
  BY <1>1, <1>5, MapPruned DEF SeenInv
<1> HIDE DEF seen
<1>8. seenJobs' = RecordJob(seen, j)
  BY DEF seen
<1>9. SeenInv'
  <2> SUFFICES MapInv(seenJobs', Accepted \cup {c}, job', acceptedAt', now, dedupeWindow,
                      maxSeenJobs, inserts')
    BY <1>4 DEF SeenInv
  <2>1. CASE dedupeWindow = 0
    <3>1. seenJobs' = seen
      BY <1>8, <2>1 DEF RecordJob
    <3>2. \A k \in JobIds : seen[k].n <= inserts'
      <4>1. \A k \in JobIds : seen[k].n <= inserts /\ seen[k].n \in Nat
        BY <1>6, <1>7 DEF MapInv, Entry
      <4> QED
        BY <1>1, <4>1
    <3>3. \A x \in Accepted \cup {c} : acceptedAt'[x] \in Int /\ acceptedAt'[x] <= now
      BY <1>1, <1>3, <1>5
    <3>4. MapInv(seen, Accepted \cup {c}, job', acceptedAt', now, 0, maxSeenJobs, inserts')
      BY <1>1, <1>6, <3>2, <3>3, MapWithoutWindow
    <3> QED
      BY <2>1, <3>1, <3>4
  <2>2. CASE dedupeWindow > 0 /\ j = NoJob
    <3>1. seenJobs' = seen
      BY <1>8, <2>2 DEF RecordJob
    <3>2. job'[c] \notin JobIds /\ inserts <= inserts'
      BY <1>1, <1>3, <2>2, IdentityAssumption
    <3>3. MapInv(seen, Accepted \cup {c}, job', acceptedAt', now, dedupeWindow, maxSeenJobs, inserts')
      BY <1>1, <1>5, <1>6, <1>7, <2>2, <3>2, MapOtherKey
    <3> QED
      BY <3>1, <3>3
  <2>3. CASE dedupeWindow > 0 /\ j # NoJob
    <3> DEFINE put == [k \in {j} |-> [at |-> now, n |-> inserts + 1]]
    <3>1. seenJobs' = SetBounded(seen, put, maxSeenJobs)
      BY <1>8, <2>3 DEF RecordJob
    <3>2. /\ DOMAIN put = {job'[c]} /\ put[job'[c]] = [at |-> now, n |-> inserts + 1]
          /\ job'[c] \in JobIds
      BY <1>3, <2>3
    <3> HIDE DEF put
    <3>3. inserts + 1 \in Nat /\ inserts < inserts + 1 /\ inserts + 1 <= inserts'
      BY <1>1
    <3>4. MapInv(SetBounded(seen, put, maxSeenJobs), Accepted \cup {c}, job', acceptedAt', now,
                 dedupeWindow, maxSeenJobs, inserts')
      BY <1>1, <1>2, <1>3, <1>5, <1>6, <1>7, <2>3, <3>2, <3>3, MapRecords
    <3> QED
      BY <3>1, <3>4
  <2> QED
    BY <1>1, <2>1, <2>2, <2>3
<1>10. ASSUME NEW x \in Accepted, job[x] = j, j # NoJob, now - acceptedAt[x] < dedupeWindow
       PROVE  Cardinality(LaterKeys(JobIds, Accepted, job, x)) >= maxSeenJobs
  <2>1. acceptedAt[x] \in Int /\ acceptedAt[x] <= now /\ j \in JobIds
    BY <1>5, <1>10
  <2>2. \/ seen[j].n > 0 /\ seen[j].at >= acceptedAt[x]
        \/ Cardinality(LaterKeys(JobIds, Accepted, job, x)) >= maxSeenJobs
    BY <1>1, <1>6, <1>7, <1>10, <2>1 DEF MapInv, Remembers
  <2>3. ASSUME seen[j].n > 0, seen[j].at >= acceptedAt[x] PROVE FALSE
    <3>1. seen[j].at \in Nat
      BY <1>6, <2>1 DEF Entry
    <3>2. now - seen[j].at < dedupeWindow /\ dedupeWindow > 0
      BY <1>1, <1>10, <2>1, <2>3, <3>1
    <3> QED
      BY <1>10, <2>3, <3>2 DEF IsDuplicate, seen
  <2> QED
    BY <2>2, <2>3
<1>11. ASSUME NEW x \in Calls, NEW y \in Calls, x < y, x \in Accepted', y \in Accepted',
              job'[x] = job'[y], job'[x] # NoJob, acceptedAt'[y] - acceptedAt'[x] < dedupeWindow
       PROVE  Cardinality(JobsBetween(x, y)') >= maxSeenJobs
  <2>1. x \in Accepted /\ job'[x] = job[x] /\ x # c
    BY <1>1, <1>2, <1>4, <1>5, <1>11
  <2>2. CASE y = c
    <3>1. Cardinality(LaterKeys(JobIds, Accepted, job, x)) >= maxSeenJobs
      BY <1>3, <1>5, <1>10, <1>11, <2>1, <2>2
    <3>2. LaterKeys(JobIds, Accepted, job, x) \subseteq JobsBetween(x, y)'
      <4> SUFFICES ASSUME NEW e \in Accepted, e > x, job[e] \in JobIds, job[e] # job[x]
                   PROVE  job[e] \in JobsBetween(x, y)'
        BY DEF LaterKeys
      <4>1. e \in (x + 1)..(y - 1) /\ acceptedAt'[e] # Absent /\ job'[e] = job[e]
        BY <1>1, <1>2, <1>5, <2>2 DEF Accepted
      <4> QED
        BY <2>1, <4>1, IdentityAssumption DEF JobsBetween
    <3>3. IsFiniteSet(JobsBetween(x, y)')
      <4> DEFINE S == {z \in (x + 1)..(y - 1) : acceptedAt'[z] # Absent}
      <4>1. S \in SUBSET Calls
        BY LimitsAssumption DEF Calls
      <4> HIDE DEF S
      <4>2. IsFiniteSet({job'[e] : e \in S})
        BY <4>1, KeysFinite
      <4>3. JobsBetween(x, y)' = {job'[e] : e \in S} \ {job'[x], NoJob}
        BY DEF JobsBetween, S
      <4> QED
        BY <4>2, <4>3, FS_Subset
    <3> QED
      BY <1>1, <3>1, <3>2, <3>3, MoreKeys
  <2>3. CASE y # c
    <3>1. y \in Accepted /\ job'[y] = job[y] /\ y < c
      BY <1>2, <1>4, <1>5, <1>11, <2>3
    <3>2. JobsBetween(x, y)' = JobsBetween(x, y)
      <4>1. \A z \in (x + 1)..(y - 1) : z \in Calls /\ z # c
        <5>1. x \in 1..MaxCalls /\ y \in 1..MaxCalls /\ c \in 1..MaxCalls /\ MaxCalls \in Nat
          BY LimitsAssumption, <1>1, <3>1 DEF Calls
        <5> SUFFICES ASSUME NEW z \in (x + 1)..(y - 1) PROVE z \in 1..MaxCalls /\ z # c
          BY DEF Calls
        <5> QED
          BY <5>1, <3>1
      <4>2. \A z \in (x + 1)..(y - 1) : acceptedAt'[z] = acceptedAt[z] /\ job'[z] = job[z]
        BY <1>3, <4>1
      <4> QED
        BY <2>1, <4>2 DEF JobsBetween
    <3> QED
      BY <1>5, <1>11, <2>1, <3>1, <3>2 DEF DedupeWithinCapacity, JobsBetween, Accepted
  <2> QED
    BY <2>2, <2>3
<1>12. DedupeWithinCapacity'
  BY <1>11 DEF DedupeWithinCapacity, JobsBetween, Accepted
<1> QED
  BY <1>9, <1>12

\* Further starts only add to those between two calls.
LEMMA BetweenGrows ==
  ASSUME IInv, \A x \in Started : x \in Started' /\ actor'[x] = actor[x],
         NEW c \in Started, NEW d \in Calls
  PROVE  /\ Cardinality(StartedBetween(c, d)) \in Nat /\ Cardinality(StartedBetween(c, d)') \in Nat
         /\ Cardinality(StartedBetween(c, d)) <= Cardinality(StartedBetween(c, d)')
<1> DEFINE S == {x \in (c + 1)..(d - 1) : startedAt[x] # Absent}
           T == {x \in (c + 1)..(d - 1) : startedAt'[x] # Absent}
<1>1. \A x \in (c + 1)..(d - 1) : x \in Calls
  BY LimitsAssumption DEF Calls, Started
<1>2. S \subseteq T /\ T \in SUBSET Calls /\ \A x \in S : actor'[x] = actor[x]
  BY <1>1 DEF Started
<1>3. StartedBetween(c, d) = {actor[e] : e \in S} \ {actor[c]}
  BY DEF StartedBetween
<1>4. StartedBetween(c, d)' = {actor'[e] : e \in T} \ {actor'[c]}
  BY DEF StartedBetween
<1> HIDE DEF S, T
<1>5. StartedBetween(c, d) \subseteq StartedBetween(c, d)'
  BY <1>2, <1>3, <1>4
<1>6. IsFiniteSet(StartedBetween(c, d)')
  <2>1. IsFiniteSet({actor'[e] : e \in T})
    BY <1>2, KeysFinite
  <2> QED
    BY <2>1, <1>4, FS_Subset
<1> QED
  BY <1>5, <1>6, MoreKeys

\* Who passes the cooldown test of #assertAccepted is a cooldown away from all
\* starts of the actor, but for those the map had no room for.
LEMMA AcceptedIsCool ==
  ASSUME IInv, InCallOrder, LastInv, NEW d \in Calls, IsNextCall(d), NEW a \in Actors,
         ~IsCooling(a, Pruned(lastStartedByActor, cooldown)),
         NEW c \in Started, actor[c] = a
  PROVE  \/ now - startedAt[c] >= cooldown
         \/ Cardinality(StartedBetween(c, d)) >= maxTrackedActors
<1> DEFINE last == Pruned(lastStartedByActor, cooldown)
<1>1. /\ now \in Nat /\ inserts \in Nat /\ cooldown \in Nat /\ maxTrackedActors \in Nat
      /\ lastStartedByActor \in [Actors -> Entry] /\ startedAt \in [Calls -> Int]
      /\ Calls \subseteq Nat /\ Started \in SUBSET Calls /\ actor \in [Calls -> Actors]
  BY WindowFacts
<1>2. /\ last \in [Actors -> Entry]
      /\ MapInv(last, Started, actor, startedAt, now, cooldown, maxTrackedActors, inserts)
  BY <1>1, PrunedType, MapPruned DEF LastInv
<1>3. startedAt[c] \in Int
  BY <1>1
<1> HIDE DEF last
<1>4. \/ last[a].n > 0 /\ last[a].at >= startedAt[c]
      \/ now - startedAt[c] >= cooldown
      \/ Cardinality(LaterKeys(Actors, Started, actor, c)) >= maxTrackedActors
  BY <1>1, <1>2 DEF MapInv, Remembers
<1>5. CASE last[a].n > 0 /\ last[a].at >= startedAt[c]
  <2>1. last[a].at \in Nat
    BY <1>2 DEF Entry
  <2>2. ~(cooldown > 0 /\ now - last[a].at < cooldown)
    BY <1>5 DEF IsCooling, last
  <2>3. now - startedAt[c] >= now - last[a].at
    BY <1>1, <1>3, <1>5, <2>1
  <2>4. now - last[a].at >= cooldown \/ (cooldown = 0 /\ now - last[a].at \in Int)
    BY <1>1, <2>1, <2>2
  <2>5. startedAt[c] <= now
    BY <1>1 DEF InCallOrder
  <2> QED
    BY <1>1, <1>3, <2>1, <2>3, <2>4, <2>5
<1>6. CASE Cardinality(LaterKeys(Actors, Started, actor, c)) >= maxTrackedActors
  <2>1. \A x \in Started : x < d
    BY NextCallIsLast
  <2> DEFINE S == {x \in (c + 1)..(d - 1) : startedAt[x] # Absent}
  <2>2. StartedBetween(c, d) = {actor[e] : e \in S} \ {actor[c]} /\ S \in SUBSET Calls
    BY <1>1, LimitsAssumption DEF StartedBetween, Calls
  <2>3. \A e \in Started : e > c => e \in S
    BY <1>1, <2>1 DEF Started
  <2> HIDE DEF S
  <2>4. LaterKeys(Actors, Started, actor, c) \subseteq StartedBetween(c, d)
    BY <2>2, <2>3 DEF LaterKeys
  <2>5. IsFiniteSet(StartedBetween(c, d))
    <3>1. IsFiniteSet({actor[e] : e \in S})
      BY <2>2, KeysFinite
    <3> QED
      BY <3>1, <2>2, FS_Subset
  <2> QED
    BY <1>1, <1>6, <2>4, <2>5, MoreKeys
<1> QED
  BY <1>4, <1>5, <1>6

\* A start of d, the last one so far.
LEMMA StartKeepsLast ==
  ASSUME IInv, InCallOrder, CooldownWithinCapacity, NEW d \in Calls, d \notin Started,
         \A c \in Started : c < d,
         NEW map \in [Actors -> Entry],
         MapInv(map, Started, actor, startedAt, now, cooldown, maxTrackedActors, inserts),
         actor' \in [Calls -> Actors], \A c \in Started : actor'[c] = actor[c],
         \A c \in Calls : startedAt'[c] = IF c = d THEN now ELSE startedAt[c],
         lastStartedByActor' = RecordStarts(map, <<d>>, actor'),
         now' = now, inserts' \in Nat, inserts' >= inserts + 2,
         \A c \in Started : actor[c] = actor'[d] =>
            \/ now - startedAt[c] >= cooldown
            \/ Cardinality(StartedBetween(c, d)) >= maxTrackedActors
  PROVE  LastInv' /\ CooldownWithinCapacity'
<1>1. /\ now \in Nat /\ inserts \in Nat /\ cooldown \in Nat /\ maxTrackedActors \in Nat
      /\ startedAt \in [Calls -> Int] /\ Calls \subseteq Nat /\ Started \in SUBSET Calls
      /\ Absent \in Int
  BY WindowFacts
<1>2. Started' = Started \cup {d} /\ startedAt'[d] = now
  <2>1. startedAt'[d] = now /\ now # Absent
    BY <1>1 DEF Absent
  <2> QED
    BY <2>1 DEF Started
<1>3. \A c \in Started : /\ actor'[c] = actor[c] /\ startedAt'[c] = startedAt[c]
                         /\ startedAt[c] \in Int /\ startedAt[c] <= now
  BY <1>1 DEF InCallOrder
<1>4. LastInv'
  <2> SUFFICES MapInv(lastStartedByActor', Started \cup {d}, actor', startedAt', now, cooldown,
                      maxTrackedActors, inserts')
    BY <1>2 DEF LastInv
  <2>1. CASE cooldown = 0
    <3>1. lastStartedByActor' = map
      BY <2>1 DEF RecordStarts
    <3>2. \A k \in Actors : map[k].n <= inserts'
      <4>1. \A k \in Actors : map[k].n <= inserts /\ map[k].n \in Nat
        BY DEF MapInv, Entry
      <4> QED
        BY <1>1, <4>1
    <3>3. \A c \in Started \cup {d} : startedAt'[c] \in Int /\ startedAt'[c] <= now
      BY <1>1, <1>2, <1>3
    <3>4. MapInv(map, Started \cup {d}, actor', startedAt', now, 0, maxTrackedActors, inserts')
      BY <1>1, <3>2, <3>3, MapWithoutWindow
    <3> QED
      BY <2>1, <3>1, <3>4
  <2>2. CASE cooldown > 0
    <3> DEFINE started == <<d>>
               A == {actor'[started[i]] : i \in 1..Len(started)}
               place(a) == CHOOSE i \in 1..Len(started) : actor'[started[i]] = a
               put == [a \in A |-> [at |-> now, n |-> inserts + 1 + place(a)]]
    <3>1. lastStartedByActor' = SetBounded(map, put, maxTrackedActors)
      BY <2>2 DEF RecordStarts
    <3>2. Len(started) = 1 /\ started[1] = d /\ 1..1 = {1}
      OBVIOUS
    <3>3. A = {actor'[d]}
      BY <3>2
    <3>4. place(actor'[d]) = 1
      BY <3>2
    <3>5. DOMAIN put = {actor'[d]} /\ put[actor'[d]] = [at |-> now, n |-> inserts + 2]
      <4>1. inserts + 1 + 1 = inserts + 2
        BY <1>1
      <4> HIDE DEF place, A
      <4> QED
        BY <3>3, <3>4, <4>1
    <3> HIDE DEF put, A, place, started
    <3>6. inserts + 2 \in Nat /\ inserts < inserts + 2 /\ actor'[d] \in Actors
      BY <1>1
    <3>7. MapInv(SetBounded(map, put, maxTrackedActors), Started \cup {d}, actor', startedAt', now,
                 cooldown, maxTrackedActors, inserts')
      BY <1>1, <1>2, <1>3, <2>2, <3>5, <3>6, MapRecords
    <3> QED
      BY <3>1, <3>7
  <2> QED
    BY <1>1, <2>1, <2>2
<1>5. ASSUME NEW x \in Calls, NEW y \in Calls, x < y, x \in Started', y \in Started',
             actor'[x] = actor'[y], startedAt'[y] - startedAt'[x] < cooldown
      PROVE  Cardinality(StartedBetween(x, y)') >= maxTrackedActors
  <2>1. x \in Started
    BY <1>1, <1>2, <1>5
  <2>2. /\ Cardinality(StartedBetween(x, y)) \in Nat /\ Cardinality(StartedBetween(x, y)') \in Nat
        /\ Cardinality(StartedBetween(x, y)) <= Cardinality(StartedBetween(x, y)')
    BY <1>2, <1>3, <2>1, BetweenGrows
  <2>3. Cardinality(StartedBetween(x, y)) >= maxTrackedActors
    <3>1. CASE y = d
      BY <1>1, <1>2, <1>3, <1>5, <2>1, <3>1
    <3>2. CASE y # d
      <4>1. y \in Started
        BY <1>2, <1>5, <3>2
      <4> QED
        BY <1>3, <1>5, <2>1, <4>1 DEF CooldownWithinCapacity, StartedBetween, Started
    <3> QED
      BY <3>1, <3>2
  <2> QED
    BY <1>1, <2>2, <2>3
<1>6. CooldownWithinCapacity'
  BY <1>5 DEF CooldownWithinCapacity, StartedBetween, Started
<1> QED
  BY <1>4, <1>6

\* Steps that accept nothing: at most they prune the map of seen jobs.
LEMMA NothingAccepted ==
  ASSUME IInv, InCallOrder, SeenInv, DedupeWithinCapacity,
         UNCHANGED <<acceptedAt, job>>, now' \in Nat, now <= now', inserts' \in Nat, inserts <= inserts',
         seenJobs' \in {seenJobs, Pruned(seenJobs, dedupeWindow)}
  PROVE  SeenInv' /\ DedupeWithinCapacity'
<1>1. /\ now \in Nat /\ inserts \in Nat /\ dedupeWindow \in Nat /\ maxSeenJobs \in Nat
      /\ seenJobs \in [JobIds -> Entry] /\ acceptedAt \in [Calls -> Int] /\ Accepted \in SUBSET Calls
  BY WindowFacts
<1>2. \A c \in Accepted : acceptedAt[c] \in Int
  BY <1>1
<1>3. /\ seenJobs' \in [JobIds -> Entry]
      /\ MapInv(seenJobs', Accepted, job, acceptedAt, now, dedupeWindow, maxSeenJobs, inserts)
  BY <1>1, <1>2, PrunedType, MapPruned DEF SeenInv
<1>4. MapInv(seenJobs', Accepted, job, acceptedAt, now', dedupeWindow, maxSeenJobs, inserts')
  BY <1>1, <1>2, <1>3, MapStays
<1>5. Accepted' = Accepted
  BY DEF Accepted
<1> QED
  BY <1>4, <1>5 DEF SeenInv, DedupeWithinCapacity

\* Steps that start nothing: whatever else they do to the map of starts.
LEMMA NothingStarted ==
  ASSUME IInv, InCallOrder, LastInv, CooldownWithinCapacity,
         startedAt' = startedAt, \A c \in Started : actor'[c] = actor[c],
         now' \in Nat, now <= now', inserts' \in Nat, inserts <= inserts',
         lastStartedByActor' \in [Actors -> Entry],
         MapInv(lastStartedByActor', Started, actor, startedAt, now, cooldown, maxTrackedActors, inserts)
  PROVE  LastInv' /\ CooldownWithinCapacity'
<1>1. /\ now \in Nat /\ inserts \in Nat /\ cooldown \in Nat /\ maxTrackedActors \in Nat
      /\ lastStartedByActor \in [Actors -> Entry] /\ startedAt \in [Calls -> Int]
      /\ Started \in SUBSET Calls
  BY WindowFacts
<1>2. \A c \in Started : startedAt[c] \in Int
  BY <1>1
<1>4. MapInv(lastStartedByActor', Started, actor', startedAt, now', cooldown, maxTrackedActors, inserts')
  BY <1>1, <1>2, MapStays
<1>5. Started' = Started
  BY DEF Started
<1>6. ASSUME NEW x \in Calls, NEW y \in Calls, x < y, x \in Started', y \in Started',
             actor'[x] = actor'[y], startedAt'[y] - startedAt'[x] < cooldown
      PROVE  Cardinality(StartedBetween(x, y)') >= maxTrackedActors
  <2>1. x \in Started /\ y \in Started /\ actor[x] = actor[y]
    BY <1>5, <1>6
  <2>2. Cardinality(StartedBetween(x, y)) >= maxTrackedActors
    BY <1>6, <2>1 DEF CooldownWithinCapacity, StartedBetween, Started
  <2>3. /\ Cardinality(StartedBetween(x, y)) \in Nat /\ Cardinality(StartedBetween(x, y)') \in Nat
        /\ Cardinality(StartedBetween(x, y)) <= Cardinality(StartedBetween(x, y)')
    BY <1>5, <2>1, BetweenGrows
  <2> QED
    BY <1>1, <2>2, <2>3
<1>7. CooldownWithinCapacity'
  BY <1>6 DEF CooldownWithinCapacity, StartedBetween, Started
<1> QED
  BY <1>4, <1>5, <1>7 DEF LastInv

\* Who waits stays cool, whatever starts: nobody starts the same actor.
LEMMA QueuedStayCool ==
  ASSUME IInv, QueuedIsCool, now' \in Nat, now <= now', NEW d \in Calls, phase[d] = "queued",
         \A x \in Started : x \in Started' /\ actor'[x] = actor[x] /\ startedAt'[x] = startedAt[x],
         NEW c \in Calls, c \in Started' => c \in Started \/ actor'[c] # actor'[d],
         actor'[d] = actor[d], startedAt'[c] # Absent, actor'[c] = actor'[d]
  PROVE  \/ now' - startedAt'[c] >= cooldown
         \/ Cardinality(StartedBetween(c, d)') >= maxTrackedActors
<1>1. /\ now \in Nat /\ cooldown \in Nat /\ maxTrackedActors \in Nat /\ startedAt \in [Calls -> Int]
  BY WindowFacts
<1>2. c \in Started
  BY DEF Started
<1>3. \/ now - startedAt[c] >= cooldown
      \/ Cardinality(StartedBetween(c, d)) >= maxTrackedActors
  BY <1>2 DEF QueuedIsCool, Started
<1>4. /\ Cardinality(StartedBetween(c, d)) \in Nat /\ Cardinality(StartedBetween(c, d)') \in Nat
      /\ Cardinality(StartedBetween(c, d)) <= Cardinality(StartedBetween(c, d)')
  BY <1>2, BetweenGrows
<1>5. startedAt'[c] = startedAt[c] /\ startedAt[c] \in Int
  BY <1>1, <1>2
<1> QED
  BY <1>1, <1>3, <1>4, <1>5

\* A direct start keeps the windows.
LEMMA RunStartsWindows ==
  ASSUME IInv, IInv', WindowsInv, NEW c \in Calls, NEW raw \in RawActors, NEW j \in JobIds \cup {NoJob},
         RunStarts(c, raw, j)
  PROVE  WindowsInv'
<1> DEFINE a == ActorOf(raw)
           last == Pruned(lastStartedByActor, cooldown)
<1>1. /\ IsNextCall(c) /\ phase[c] = "new" /\ a \in Actors
      /\ ~IsDuplicate(j, Pruned(seenJobs, dedupeWindow)) /\ ~IsCooling(a, last)
  BY DEF RunStarts, Refusal, IsNextCall, ActorOf, Actors
<1>2. /\ now \in Nat /\ inserts \in Nat /\ cooldown \in Nat /\ maxTrackedActors \in Nat
      /\ lastStartedByActor \in [Actors -> Entry] /\ startedAt \in [Calls -> Int]
      /\ acceptedAt \in [Calls -> Int] /\ Calls \subseteq Nat /\ Started \in SUBSET Calls
      /\ actor \in [Calls -> Actors] /\ Absent \in Int /\ job \in [Calls -> JobIds \cup {NoJob}]
      /\ phase \in [Calls -> Phases]
  BY WindowFacts
<1>3. /\ actor' = [actor EXCEPT ![c] = a] /\ job' = [job EXCEPT ![c] = j]
      /\ acceptedAt' = [acceptedAt EXCEPT ![c] = now] /\ startedAt' = [startedAt EXCEPT ![c] = now]
      /\ phase' = [phase EXCEPT ![c] = "running"]
      /\ now' = now /\ queue' = queue /\ inserts' = inserts + 2
      /\ seenJobs' = RecordJob(Pruned(seenJobs, dedupeWindow), j)
      /\ lastStartedByActor' = RecordStarts(last, <<c>>, actor')
  BY DEF RunStarts, Identify
<1>4. c \notin Started /\ (\A x \in Started : x < c) /\ \A x \in Accepted : x < c
  BY <1>1, NextCallIsLast DEF WindowsInv
<1>5. queue = <<>>
  <2>1. running < maxConcurrent /\ running \in Nat
    BY DEF RunStarts, IInv, TypeOK
  <2>2. queue # <<>> => running = maxConcurrent
    BY DEF IInv, SlotsConserved
  <2> QED
    BY <2>1, <2>2, LimitsAssumption
<1>6. \A x \in Calls : phase[x] # "queued" /\ phase'[x] # "queued"
  BY <1>2, <1>3, <1>5 DEF IInv, Bookkeeping
<1>7. SeenInv' /\ DedupeWithinCapacity'
  <2>1. InCallOrder /\ SeenInv /\ DedupeWithinCapacity
    BY DEF WindowsInv
  <2>2. inserts' \in Nat /\ inserts' >= inserts + 1
    BY <1>2, <1>3
  <2> QED
    BY <1>1, <1>3, <2>1, <2>2, AcceptKeepsSeen
<1>8. LastInv' /\ CooldownWithinCapacity'
  <2>1. /\ last \in [Actors -> Entry]
        /\ MapInv(last, Started, actor, startedAt, now, cooldown, maxTrackedActors, inserts)
    BY <1>2, PrunedType, MapPruned DEF WindowsInv, LastInv
  <2>2. actor' \in [Calls -> Actors] /\ actor'[c] = a /\ \A x \in Started : actor'[x] = actor[x]
    BY <1>1, <1>2, <1>3, <1>4
  <2>3. \A x \in Calls : startedAt'[x] = IF x = c THEN now ELSE startedAt[x]
    BY <1>2, <1>3
  <2>4. ASSUME NEW x \in Started, actor[x] = actor'[c]
        PROVE  \/ now - startedAt[x] >= cooldown
               \/ Cardinality(StartedBetween(x, c)) >= maxTrackedActors
    BY <1>1, <2>2, <2>4, AcceptedIsCool DEF WindowsInv
  <2> HIDE DEF last, a
  <2> QED
    BY <1>2, <1>3, <1>4, <2>1, <2>2, <2>3, <2>4, StartKeepsLast DEF WindowsInv
<1>9. QueuedIsCool'
  BY <1>6 DEF QueuedIsCool
<1>10. InCallOrder'
  <2>1. \A x \in Calls : /\ phase'[x] = IF x = c THEN "running" ELSE phase[x]
                         /\ acceptedAt'[x] = IF x = c THEN now ELSE acceptedAt[x]
                         /\ startedAt'[x] = IF x = c THEN now ELSE startedAt[x]
    BY <1>2, <1>3
  <2>2. \A x \in Calls : /\ (phase'[x] = "new") = (acceptedAt'[x] = Absent)
                         /\ (phase'[x] \in {"running", "settled"}) = (startedAt'[x] # Absent)
                         /\ acceptedAt'[x] <= now' /\ startedAt'[x] <= now'
    BY <1>2, <1>3, <2>1 DEF WindowsInv, InCallOrder, Absent
  <2>3. ASSUME NEW x \in Calls, NEW y \in Calls, x < y, phase'[y] # "new" PROVE phase'[x] # "new"
    <3>1. CASE y = c
      BY <1>1, <1>2, <2>1, <2>3, <3>1 DEF IsNextCall, Calls
    <3>2. CASE y # c
      BY <2>1, <2>3, <3>2 DEF WindowsInv, InCallOrder
    <3> QED
      BY <3>1, <3>2
  <2>4. Len(queue') = 0
    BY <1>3, <1>5
  <2> QED
    BY <2>2, <2>3, <2>4 DEF InCallOrder
<1> QED
  BY <1>7, <1>8, <1>9, <1>10 DEF WindowsInv

\* What steps without a start leave of the map of starts.
LEMMA StartsPruned ==
  ASSUME IInv, LastInv, NEW map \in {lastStartedByActor, Pruned(lastStartedByActor, cooldown)}
  PROVE  /\ map \in [Actors -> Entry]
         /\ MapInv(map, Started, actor, startedAt, now, cooldown, maxTrackedActors, inserts)
<1>1. /\ now \in Nat /\ inserts \in Nat /\ cooldown \in Nat /\ maxTrackedActors \in Nat
      /\ lastStartedByActor \in [Actors -> Entry] /\ startedAt \in [Calls -> Int]
      /\ Started \in SUBSET Calls
  BY WindowFacts
<1>2. \A c \in Started : startedAt[c] \in Int
  BY <1>1
<1> QED
  BY <1>1, <1>2, PrunedType, MapPruned DEF LastInv

LEMMA StartsOfNobody ==
  ASSUME IInv, LastInv
  PROVE  LET map == RecordStarts(lastStartedByActor, <<>>, actor)
         IN  /\ map \in [Actors -> Entry]
             /\ MapInv(map, Started, actor, startedAt, now, cooldown, maxTrackedActors, inserts)
<1> DEFINE last == lastStartedByActor
           map == RecordStarts(last, <<>>, actor)
<1>1. /\ now \in Nat /\ inserts \in Nat /\ cooldown \in Nat /\ maxTrackedActors \in Nat
      /\ last \in [Actors -> Entry] /\ Started \in SUBSET Calls /\ actor \in [Calls -> Actors]
  BY WindowFacts
<1>2. <<>> \in Seq(Calls) /\ Len(<<>>) = 0 /\ 1..0 = {}
  OBVIOUS
<1>3. map \in [Actors -> Entry]
  BY <1>1, <1>2, RecordStartsType DEF IInv
<1>4. ASSUME cooldown = 0
      PROVE  MapInv(map, Started, actor, startedAt, now, cooldown, maxTrackedActors, inserts)
  <2>1. map = last
    BY <1>4 DEF RecordStarts
  <2> HIDE DEF map
  <2> QED
    BY <2>1 DEF LastInv
<1>5. ASSUME cooldown > 0
      PROVE  MapInv(map, Started, actor, startedAt, now, cooldown, maxTrackedActors, inserts)
  <2> DEFINE A == {actor[<<>>[i]] : i \in 1..Len(<<>>)}
             place(a) == CHOOSE i \in 1..Len(<<>>) : actor[<<>>[i]] = a
             put == [a \in A |-> [at |-> now, n |-> inserts + 1 + place(a)]]
  <2>1. map = SetBounded(last, put, maxTrackedActors)
    BY <1>5 DEF RecordStarts
  <2>2. DOMAIN put = {}
    BY <1>2
  <2> HIDE DEF put, A, place
  <2>3. PutIn(last, put) = last
    BY <1>1, <2>2 DEF PutIn
  <2>4. map = Shrunk(last, maxTrackedActors)
    BY <2>1, <2>3, SetBoundedHalves
  <2>5. \A k \in Actors : last[k].n <= inserts
    BY <1>1 DEF LastInv, MapInv
  <2>6. \A k \in Actors : map[k].n <= inserts
    <3>1. \A k \in Actors : map[k] = last[k] \/ map[k] = NoEntry
      BY <1>1, <2>4 DEF Shrunk
    <3>2. NoEntry.n <= inserts
      BY <1>1 DEF NoEntry
    <3> HIDE DEF map
    <3> QED
      BY <2>5, <3>1, <3>2
  <2>7. /\ Ordered(last, Started, actor)
        /\ Remembers(last, Started, actor, startedAt, now, cooldown, maxTrackedActors)
    BY <1>5 DEF LastInv, MapInv
  <2>8. /\ Ordered(map, Started, actor)
        /\ Remembers(map, Started, actor, startedAt, now, cooldown, maxTrackedActors)
    BY <1>1, <2>4, <2>7, ShrunkKeeps
  <2> HIDE DEF map
  <2>9. DOMAIN map = Actors
    BY <1>3
  <2> QED
    BY <2>6, <2>8, <2>9 DEF MapInv
<1>6. MapInv(map, Started, actor, startedAt, now, cooldown, maxTrackedActors, inserts)
  <2> HIDE DEF map
  <2> QED
    BY <1>1, <1>4, <1>5
<1> QED
  BY <1>3, <1>6

\* A queued request keeps the windows.
LEMMA RunEnqueuesWindows ==
  ASSUME IInv, IInv', WindowsInv, NEW c \in Calls, NEW raw \in RawActors, NEW j \in JobIds \cup {NoJob},
         RunEnqueues(c, raw, j)
  PROVE  WindowsInv'
<1> DEFINE a == ActorOf(raw)
           last == Pruned(lastStartedByActor, cooldown)
<1>1. /\ IsNextCall(c) /\ phase[c] = "new" /\ a \in Actors
      /\ ~IsDuplicate(j, Pruned(seenJobs, dedupeWindow)) /\ ~IsCooling(a, last)
  BY DEF RunEnqueues, Refusal, IsNextCall, ActorOf, Actors
<1>2. /\ now \in Nat /\ inserts \in Nat /\ cooldown \in Nat /\ maxTrackedActors \in Nat
      /\ startedAt \in [Calls -> Int] /\ acceptedAt \in [Calls -> Int] /\ Calls \subseteq Nat
      /\ Started \in SUBSET Calls /\ actor \in [Calls -> Actors] /\ Absent \in Int
      /\ job \in [Calls -> JobIds \cup {NoJob}] /\ phase \in [Calls -> Phases]
  BY WindowFacts
<1>3. /\ actor' = [actor EXCEPT ![c] = a] /\ job' = [job EXCEPT ![c] = j]
      /\ acceptedAt' = [acceptedAt EXCEPT ![c] = now] /\ startedAt' = startedAt
      /\ phase' = [phase EXCEPT ![c] = "queued"]
      /\ now' = now /\ queue' = Append(queue, c) /\ inserts' = inserts + 1
      /\ seenJobs' = RecordJob(Pruned(seenJobs, dedupeWindow), j)
      /\ lastStartedByActor' = last
  BY DEF RunEnqueues, Identify
<1>4. c \notin Started /\ (\A x \in Started : x < c) /\ \A x \in Accepted : x < c
  BY <1>1, NextCallIsLast DEF WindowsInv
<1>5. Started' = Started /\ \A x \in Started : actor'[x] = actor[x] /\ startedAt'[x] = startedAt[x]
  BY <1>2, <1>3, <1>4 DEF Started
<1>6. SeenInv' /\ DedupeWithinCapacity'
  <2>1. InCallOrder /\ SeenInv /\ DedupeWithinCapacity
    BY DEF WindowsInv
  <2>2. inserts' \in Nat /\ inserts' >= inserts + 1
    BY <1>2, <1>3
  <2> QED
    BY <1>1, <1>3, <2>1, <2>2, AcceptKeepsSeen
<1>7. LastInv' /\ CooldownWithinCapacity'
  <2>1. /\ last \in [Actors -> Entry]
        /\ MapInv(last, Started, actor, startedAt, now, cooldown, maxTrackedActors, inserts)
    BY StartsPruned DEF WindowsInv
  <2> HIDE DEF last
  <2> QED
    BY <1>2, <1>3, <1>5, <2>1, NothingStarted DEF WindowsInv
<1>8. ASSUME NEW x \in Calls, NEW d \in Calls, phase'[d] = "queued", startedAt'[x] # Absent,
             actor'[x] = actor'[d]
      PROVE  \/ now' - startedAt'[x] >= cooldown
             \/ Cardinality(StartedBetween(x, d)') >= maxTrackedActors
  <2>1. x \in Started
    BY <1>5, <1>8 DEF Started
  <2>2. CASE d = c
    <3>1. actor[x] = a
      BY <1>2, <1>3, <1>5, <1>8, <2>1, <2>2
    <3>2. \/ now - startedAt[x] >= cooldown
          \/ Cardinality(StartedBetween(x, c)) >= maxTrackedActors
      BY <1>1, <2>1, <3>1, AcceptedIsCool DEF WindowsInv
    <3>3. /\ Cardinality(StartedBetween(x, d)) \in Nat /\ Cardinality(StartedBetween(x, d)') \in Nat
          /\ Cardinality(StartedBetween(x, d)) <= Cardinality(StartedBetween(x, d)')
      BY <1>5, <2>1, BetweenGrows
    <3> QED
      BY <1>2, <1>3, <2>2, <3>2, <3>3
  <2>3. CASE d # c
    <3>1. phase[d] = "queued" /\ actor'[d] = actor[d]
      BY <1>2, <1>3, <1>8, <2>3
    <3>2. now' \in Nat /\ now <= now'
      BY <1>2, <1>3
    <3> QED
      BY <1>5, <1>8, <2>1, <3>1, <3>2, QueuedStayCool DEF WindowsInv
  <2> QED
    BY <2>2, <2>3
<1>9. QueuedIsCool'
  BY <1>8 DEF QueuedIsCool
<1>10. InCallOrder'
  <2>1. \A x \in Calls : /\ phase'[x] = IF x = c THEN "queued" ELSE phase[x]
                         /\ acceptedAt'[x] = IF x = c THEN now ELSE acceptedAt[x]
                         /\ startedAt'[x] = startedAt[x]
    BY <1>2, <1>3
  <2>2. \A x \in Calls : /\ (phase'[x] = "new") = (acceptedAt'[x] = Absent)
                         /\ (phase'[x] \in {"running", "settled"}) = (startedAt'[x] # Absent)
                         /\ acceptedAt'[x] <= now' /\ startedAt'[x] <= now'
    BY <1>1, <1>2, <1>3, <2>1 DEF WindowsInv, InCallOrder, Absent
  <2>3. ASSUME NEW x \in Calls, NEW y \in Calls, x < y, phase'[y] # "new" PROVE phase'[x] # "new"
    <3>1. CASE y = c
      BY <1>1, <1>2, <2>1, <2>3, <3>1 DEF IsNextCall, Calls
    <3>2. CASE y # c
      BY <2>1, <2>3, <3>2 DEF WindowsInv, InCallOrder
    <3> QED
      BY <3>1, <3>2
  <2>4. /\ queue \in Seq(Calls) /\ Len(queue) \in Nat /\ Len(queue') = Len(queue) + 1
        /\ \A i \in 1..Len(queue) : queue'[i] = queue[i] /\ queue[i] \in Calls
        /\ queue'[Len(queue) + 1] = c
    BY <1>3 DEF IInv, TypeOK
  <2>5. \A i \in 1..Len(queue) : queue[i] < c
    <3> TAKE i \in 1..Len(queue)
    <3>1. phase[queue[i]] = "queued" /\ queue[i] \in Calls
      BY <2>4 DEF IInv, Bookkeeping
    <3>2. queue[i] \in Accepted
      BY <3>1 DEF WindowsInv, InCallOrder, Accepted
    <3> QED
      BY <1>4, <3>2
  <2>6. \A i, k \in 1..Len(queue') : i < k => queue'[i] < queue'[k]
    BY <2>4, <2>5 DEF WindowsInv, InCallOrder
  <2>7. \A x \in Started' : \A i \in 1..Len(queue') : x < queue'[i]
    <3>1. \A x \in Started : \A i \in 1..Len(queue) : x < queue[i]
      BY DEF WindowsInv, InCallOrder
    <3> QED
      BY <1>4, <1>5, <2>4, <3>1
  <2> QED
    BY <2>2, <2>3, <2>6, <2>7 DEF InCallOrder
<1> QED
  BY <1>6, <1>7, <1>9, <1>10 DEF WindowsInv

\* Steps that neither accept nor start: calls end, the queue gets shorter, the
\* clock goes on.
LEMMA EndingKeepsWindows ==
  ASSUME IInv, WindowsInv, UNCHANGED <<acceptedAt, job, actor, startedAt>>,
         now' \in Nat, now <= now', inserts' \in Nat, inserts <= inserts',
         seenJobs' \in {seenJobs, Pruned(seenJobs, dedupeWindow)},
         lastStartedByActor' \in [Actors -> Entry],
         MapInv(lastStartedByActor', Started, actor, startedAt, now, cooldown, maxTrackedActors, inserts),
         \A x \in Calls : /\ (phase'[x] = "new") = (phase[x] = "new")
                          /\ (phase'[x] \in {"running", "settled"}) = (phase[x] \in {"running", "settled"})
                          /\ phase'[x] = "queued" => phase[x] = "queued",
         \A i, k \in 1..Len(queue') : i < k => queue'[i] < queue'[k],
         \A x \in Started : \A i \in 1..Len(queue') : x < queue'[i]
  PROVE  WindowsInv'
<1>1. now \in Nat /\ startedAt \in [Calls -> Int] /\ acceptedAt \in [Calls -> Int]
  BY WindowFacts
<1>2. Started' = Started
  BY DEF Started
<1>3. SeenInv' /\ DedupeWithinCapacity'
  BY NothingAccepted DEF WindowsInv
<1>4. LastInv' /\ CooldownWithinCapacity'
  <2>1. \A x \in Started : actor'[x] = actor[x]
    OBVIOUS
  <2> QED
    BY <2>1, NothingStarted DEF WindowsInv
<1>5. QueuedIsCool'
  <2> SUFFICES ASSUME NEW x \in Calls, NEW d \in Calls, phase'[d] = "queued", startedAt'[x] # Absent,
                      actor'[x] = actor'[d]
               PROVE  \/ now' - startedAt'[x] >= cooldown
                      \/ Cardinality(StartedBetween(x, d)') >= maxTrackedActors
    BY DEF QueuedIsCool
  <2>1. phase[d] = "queued" /\ actor'[d] = actor[d] /\ x \in Started
    BY DEF Started
  <2>2. \A y \in Started : y \in Started' /\ actor'[y] = actor[y] /\ startedAt'[y] = startedAt[y]
    BY <1>2
  <2> QED
    BY <2>1, <2>2, QueuedStayCool DEF WindowsInv
<1>6. InCallOrder'
  <2>1. \A x \in Calls : /\ (phase'[x] = "new") = (acceptedAt'[x] = Absent)
                         /\ (phase'[x] \in {"running", "settled"}) = (startedAt'[x] # Absent)
    BY DEF WindowsInv, InCallOrder
  <2>2. ASSUME NEW x \in Calls PROVE acceptedAt'[x] <= now' /\ startedAt'[x] <= now'
    <3>1. acceptedAt[x] <= now /\ startedAt[x] <= now
      BY DEF WindowsInv, InCallOrder
    <3>2. acceptedAt[x] \in Int /\ startedAt[x] \in Int
      BY <1>1
    <3> QED
      BY <1>1, <3>1, <3>2
  <2>3. \A x, y \in Calls : x < y /\ phase'[y] # "new" => phase'[x] # "new"
    BY DEF WindowsInv, InCallOrder
  <2> QED
    BY <1>2, <2>1, <2>2, <2>3 DEF InCallOrder
<1> QED
  BY <1>3, <1>4, <1>5, <1>6 DEF WindowsInv

\* The order of the queue, as it is.
LEMMA QueueFacts ==
  ASSUME IInv, WindowsInv
  PROVE  /\ queue \in Seq(Calls) /\ Len(queue) \in Nat
         /\ \A i \in 1..Len(queue) : queue[i] \in Calls /\ queue[i] \in Nat /\ phase[queue[i]] = "queued"
         /\ \A i, k \in 1..Len(queue) : i < k => queue[i] < queue[k]
         /\ \A x \in Started : x \in Nat /\ \A i \in 1..Len(queue) : x < queue[i]
         /\ \A x \in Calls : phase[x] = "queued" => \E i \in 1..Len(queue) : queue[i] = x
<1>1. queue \in Seq(Calls) /\ Calls \subseteq Nat /\ Started \subseteq Calls
  BY WindowFacts DEF IInv, TypeOK
<1>2. \A i \in 1..Len(queue) : queue[i] \in Calls /\ queue[i] \in Nat /\ phase[queue[i]] = "queued"
  <2>1. \A i \in 1..Len(queue) : queue[i] \in Calls
    BY <1>1
  <2> QED
    BY <1>1, <2>1 DEF IInv, Bookkeeping
<1>3. \A i, k \in 1..Len(queue) : i < k => queue[i] < queue[k]
  BY DEF WindowsInv, InCallOrder
<1>4. \A x \in Started : \A i \in 1..Len(queue) : x < queue[i]
  BY DEF WindowsInv, InCallOrder
<1>5. \A x \in Calls : phase[x] = "queued" => \E i \in 1..Len(queue) : queue[i] = x
  BY DEF IInv, Bookkeeping
<1> QED
  BY <1>1, <1>2, <1>3, <1>4, <1>5

\* Refusals, the clock, and steps that change nothing keep the windows.
LEMMA QuietWindows ==
  ASSUME IInv, WindowsInv, UNCHANGED <<acceptedAt, job, actor, startedAt, phase, queue, inserts>>,
         now' \in Nat, now <= now',
         seenJobs' \in {seenJobs, Pruned(seenJobs, dedupeWindow)},
         lastStartedByActor' \in {lastStartedByActor, Pruned(lastStartedByActor, cooldown)}
  PROVE  WindowsInv'
<1>1. /\ lastStartedByActor' \in [Actors -> Entry]
      /\ MapInv(lastStartedByActor', Started, actor, startedAt, now, cooldown, maxTrackedActors, inserts)
  BY StartsPruned DEF WindowsInv
<1>2. inserts \in Nat
  BY WindowFacts
<1>3. /\ \A i, k \in 1..Len(queue') : i < k => queue'[i] < queue'[k]
      /\ \A x \in Started : \A i \in 1..Len(queue') : x < queue'[i]
  BY QueueFacts
<1> QED
  BY <1>1, <1>2, <1>3, EndingKeepsWindows

\* A queue timer that fires keeps the windows.
LEMMA QueueTimeoutWindows ==
  ASSUME IInv, WindowsInv, NEW i \in 1..Len(queue), QueueTimeout(i)
  PROVE  WindowsInv'
<1> DEFINE c == queue[i]
<1>1. c \in Calls /\ phase[c] = "queued" /\ queue \in Seq(Calls) /\ Len(queue) \in Nat
  BY QueueFacts
<1>2. /\ Len(queue') = Len(queue) - 1
      /\ \A k \in 1..Len(queue') : queue'[k] = IF k < i THEN queue[k] ELSE queue[k + 1]
  BY <1>1, WithoutIndex DEF QueueTimeout
<1>3. /\ phase' = [phase EXCEPT ![c] = "QUEUE_TIMEOUT"]
      /\ UNCHANGED <<now, seenJobs, lastStartedByActor, inserts, actor, job, acceptedAt, startedAt>>
  BY DEF QueueTimeout
<1>4. now \in Nat /\ inserts \in Nat /\ phase \in [Calls -> Phases]
  BY WindowFacts
<1>5. /\ lastStartedByActor' \in [Actors -> Entry]
      /\ MapInv(lastStartedByActor', Started, actor, startedAt, now, cooldown, maxTrackedActors, inserts)
  BY <1>3, StartsPruned DEF WindowsInv
<1> HIDE DEF c
<1>6. \A x \in Calls : phase'[x] = IF x = c THEN "QUEUE_TIMEOUT" ELSE phase[x]
  BY <1>3, <1>4
<1>7. \A k \in 1..Len(queue') : \E m \in 1..Len(queue) : queue'[k] = queue[m] /\ (m = k \/ m = k + 1)
                                 /\ (m = k <=> k < i)
  BY <1>1, <1>2
<1>8. \A k, m \in 1..Len(queue') : k < m => queue'[k] < queue'[m]
  <2> SUFFICES ASSUME NEW k \in 1..Len(queue'), NEW m \in 1..Len(queue'), k < m
               PROVE  queue'[k] < queue'[m]
    OBVIOUS
  <2>1. PICK u \in 1..Len(queue) : queue'[k] = queue[u] /\ (u = k \/ u = k + 1) /\ (u = k <=> k < i)
    BY <1>7
  <2>2. PICK v \in 1..Len(queue) : queue'[m] = queue[v] /\ (v = m \/ v = m + 1) /\ (v = m <=> m < i)
    BY <1>7
  <2>3. u < v
    BY <1>1, <1>2, <2>1, <2>2
  <2> QED
    BY <2>1, <2>2, <2>3, QueueFacts
<1>9. \A x \in Started : \A k \in 1..Len(queue') : x < queue'[k]
  BY <1>7, QueueFacts
<1>10. \A x \in Calls : /\ (phase'[x] = "new") = (phase[x] = "new")
                        /\ (phase'[x] \in {"running", "settled"}) = (phase[x] \in {"running", "settled"})
                        /\ phase'[x] = "queued" => phase[x] = "queued"
  BY <1>1, <1>6 DEF c
<1> QED
  BY <1>3, <1>4, <1>5, <1>8, <1>9, <1>10, EndingKeepsWindows

\* Closing the runner keeps the windows.
LEMMA CloseWindows ==
  ASSUME IInv, WindowsInv, Close
  PROVE  WindowsInv'
<1> DEFINE gone == {queue[i] : i \in 1..Len(queue)}
<1>1. /\ queue' = <<>>
      /\ phase' = [d \in Calls |-> IF d \in gone THEN "RUNNER_CLOSED" ELSE phase[d]]
      /\ UNCHANGED <<now, seenJobs, lastStartedByActor, inserts, actor, job, acceptedAt, startedAt>>
  BY DEF Close
<1>2. \A d \in gone : phase[d] = "queued"
  BY QueueFacts
<1>3. now \in Nat /\ inserts \in Nat
  BY WindowFacts
<1>4. /\ lastStartedByActor' \in [Actors -> Entry]
      /\ MapInv(lastStartedByActor', Started, actor, startedAt, now, cooldown, maxTrackedActors, inserts)
  BY <1>1, StartsPruned DEF WindowsInv
<1> HIDE DEF gone
<1>5. \A x \in Calls : /\ (phase'[x] = "new") = (phase[x] = "new")
                       /\ (phase'[x] \in {"running", "settled"}) = (phase[x] \in {"running", "settled"})
                       /\ phase'[x] = "queued" => phase[x] = "queued"
  BY <1>1, <1>2
<1>6. Len(queue') = 0 /\ 1..0 = {}
  BY <1>1
<1>7. /\ \A i, k \in 1..Len(queue') : i < k => queue'[i] < queue'[k]
      /\ \A x \in Started : \A i \in 1..Len(queue') : x < queue'[i]
  BY <1>6
<1> QED
  BY <1>1, <1>3, <1>4, <1>5, <1>7, EndingKeepsWindows

\* A task that settles with nobody waiting keeps the windows.
LEMMA FinishIdleWindows ==
  ASSUME IInv, WindowsInv, NEW c \in Calls, Finish(c), queue = <<>>
  PROVE  WindowsInv'
<1>1. phase[c] = "running" /\ DrainCount(running - 1) = 0
  BY DrainStartsHead DEF Finish
<1>2. SubSeq(queue, 1, 0) = <<>> /\ SubSeq(queue, 1, Len(queue)) = <<>>
  OBVIOUS
<1>3. {queue[i] : i \in 1..0} = {}
  OBVIOUS
<1>4. /\ now \in Nat /\ inserts \in Nat /\ phase \in [Calls -> Phases] /\ startedAt \in [Calls -> Int]
  BY WindowFacts
<1>5. /\ queue' = <<>> /\ inserts' = inserts + 1
      /\ phase' = [d \in Calls |-> IF d = c THEN "settled" ELSE phase[d]]
      /\ startedAt' = [d \in Calls |-> startedAt[d]]
      /\ lastStartedByActor' = RecordStarts(lastStartedByActor, <<>>, actor)
      /\ UNCHANGED <<now, seenJobs, actor, job, acceptedAt>>
  <2> DEFINE k == DrainCount(running - 1)
             next == {queue[i] : i \in 1..k}
  <2>1. k = 0 /\ next = {}
    BY <1>1, <1>3
  <2>2. /\ queue' = SubSeq(queue, k + 1, Len(queue))
        /\ lastStartedByActor' = RecordStarts(lastStartedByActor, SubSeq(queue, 1, k), actor)
        /\ inserts' = inserts + 1 + k
        /\ phase' = [d \in Calls |-> IF d = c THEN "settled"
                                     ELSE IF d \in next THEN "running" ELSE phase[d]]
        /\ startedAt' = [d \in Calls |-> IF d \in next THEN now ELSE startedAt[d]]
        /\ UNCHANGED <<now, seenJobs, actor, job, acceptedAt>>
    BY DEF Finish
  <2> HIDE DEF k, next
  <2>3. SubSeq(queue, k + 1, Len(queue)) = <<>> /\ SubSeq(queue, 1, k) = <<>>
    BY <1>2, <2>1
  <2>4. inserts + 1 + k = inserts + 1
    BY <1>4, <2>1
  <2> QED
    BY <2>1, <2>2, <2>3, <2>4
<1>6. startedAt' = startedAt
  BY <1>4, <1>5
<1>7. /\ lastStartedByActor' \in [Actors -> Entry]
      /\ MapInv(lastStartedByActor', Started, actor, startedAt, now, cooldown, maxTrackedActors, inserts)
  BY <1>5, StartsOfNobody DEF WindowsInv
<1>8. \A x \in Calls : /\ (phase'[x] = "new") = (phase[x] = "new")
                       /\ (phase'[x] \in {"running", "settled"}) = (phase[x] \in {"running", "settled"})
                       /\ phase'[x] = "queued" => phase[x] = "queued"
  BY <1>1, <1>5
<1>9. Len(queue') = 0 /\ 1..0 = {}
  BY <1>5
<1>10. /\ \A i, k \in 1..Len(queue') : i < k => queue'[i] < queue'[k]
       /\ \A x \in Started : \A i \in 1..Len(queue') : x < queue'[i]
  BY <1>9
<1>11. inserts' \in Nat /\ inserts <= inserts' /\ now' \in Nat /\ now <= now'
  BY <1>4, <1>5
<1> QED
  BY <1>5, <1>6, <1>7, <1>8, <1>10, <1>11, EndingKeepsWindows

\* A task that settles and hands its slot to the head of the queue keeps the
\* windows: the head passed its test on admission and stayed cool since.
LEMMA FinishDrainsWindows ==
  ASSUME IInv, IInv', WindowsInv, NEW c \in Calls, Finish(c), queue # <<>>
  PROVE  WindowsInv'
<1> DEFINE h == queue[1]
<1>1. phase[c] = "running" /\ DrainCount(running - 1) = 1
  BY DrainStartsHead DEF Finish
<1>2. /\ queue \in Seq(Calls) /\ Len(queue) \in Nat /\ Len(queue) >= 1
      /\ h \in Calls /\ phase[h] = "queued" /\ 1 \in 1..Len(queue)
  BY QueueFacts
<1>3. /\ now \in Nat /\ inserts \in Nat /\ cooldown \in Nat /\ maxTrackedActors \in Nat
      /\ startedAt \in [Calls -> Int] /\ acceptedAt \in [Calls -> Int] /\ Calls \subseteq Nat
      /\ Started \in SUBSET Calls /\ actor \in [Calls -> Actors] /\ Absent \in Int
      /\ lastStartedByActor \in [Actors -> Entry]
  BY WindowFacts
<1>4. /\ queue' = SubSeq(queue, 2, Len(queue))
      /\ inserts' = inserts + 2
      /\ phase' = [d \in Calls |-> IF d = c THEN "settled"
                                   ELSE IF d = h THEN "running" ELSE phase[d]]
      /\ startedAt' = [d \in Calls |-> IF d = h THEN now ELSE startedAt[d]]
      /\ UNCHANGED <<now, seenJobs, actor, job, acceptedAt>>
  <2>1. inserts + 1 + 1 = inserts + 2 /\ 1 + 1 = 2
    BY <1>3
  <2>2. \A d : d \in {queue[i] : i \in 1..1} <=> d = h
    OBVIOUS
  <2> HIDE DEF h
  <2> QED
    BY <1>1, <2>1, <2>2 DEF Finish
<1>5. lastStartedByActor' = RecordStarts(lastStartedByActor, <<h>>, actor')
  <2>1. lastStartedByActor' = RecordStarts(lastStartedByActor, SubSeq(queue, 1, 1), actor)
    BY <1>1 DEF Finish
  <2>2. SubSeq(queue, 1, 1) = <<h>>
    <3> DEFINE one == SubSeq(queue, 1, 1)
    <3>1. one \in Seq(Calls) /\ Len(one) = 1 /\ one[1] = h
      BY <1>2
    <3> HIDE DEF one, h
    <3>2. <<h>> \in Seq(Calls) /\ Len(<<h>>) = 1 /\ <<h>>[1] = h
      BY <1>2
    <3>3. \A i \in 1..1 : i = 1
      OBVIOUS
    <3>4. one = <<h>>
      BY <3>1, <3>2, <3>3, SeqEqual
    <3> QED
      BY <3>4 DEF one
  <2> QED
    BY <1>4, <2>1, <2>2
<1>6. /\ Len(queue') = Len(queue) - 1
      /\ \A k \in 1..Len(queue') : queue'[k] = queue[k + 1] /\ k + 1 \in 1..Len(queue)
  <2>1. /\ Len(SubSeq(queue, 2, Len(queue))) = Len(queue) - 1
        /\ \A k \in 1..(Len(queue) - 1) : SubSeq(queue, 2, Len(queue))[k] = queue[k + 1]
    BY <1>2, WithoutHead
  <2> QED
    BY <1>2, <1>4, <2>1
<1>7. h \notin Started /\ \A x \in Started : x < h
  BY <1>2, QueueFacts DEF WindowsInv, InCallOrder, Started
<1>8. \A k \in 1..Len(queue') : h < queue'[k]
  <2> TAKE k \in 1..Len(queue')
  <2>1. queue'[k] = queue[k + 1] /\ k + 1 \in 1..Len(queue) /\ 1 < k + 1
    BY <1>2, <1>6
  <2> QED
    BY <1>2, <2>1, QueueFacts
<1> HIDE DEF h
<1>9. \A x \in Calls : /\ phase'[x] = IF x = c THEN "settled" ELSE IF x = h THEN "running" ELSE phase[x]
                       /\ startedAt'[x] = IF x = h THEN now ELSE startedAt[x]
  BY <1>4
<1>10. Started' = Started \cup {h}
  <2>1. now # Absent
    BY <1>3 DEF Absent
  <2> QED
    BY <1>2, <1>9, <2>1 DEF Started
<1>11. \A x \in Started : x \in Started' /\ actor'[x] = actor[x] /\ startedAt'[x] = startedAt[x]
  BY <1>3, <1>4, <1>7, <1>9, <1>10
<1>12. inserts' \in Nat /\ inserts' >= inserts + 2 /\ inserts <= inserts' /\ now' \in Nat /\ now <= now'
  BY <1>3, <1>4
<1>13. SeenInv' /\ DedupeWithinCapacity'
  BY <1>4, <1>12, NothingAccepted DEF WindowsInv
<1>14. LastInv' /\ CooldownWithinCapacity'
  <2>1. \A x \in Started : actor[x] = actor'[h] =>
           \/ now - startedAt[x] >= cooldown
           \/ Cardinality(StartedBetween(x, h)) >= maxTrackedActors
    BY <1>2, <1>3, <1>4 DEF WindowsInv, QueuedIsCool, Started
  <2>2. MapInv(lastStartedByActor, Started, actor, startedAt, now, cooldown, maxTrackedActors, inserts)
    BY DEF WindowsInv, LastInv
  <2>3. actor' \in [Calls -> Actors] /\ \A x \in Started : actor'[x] = actor[x]
    BY <1>3, <1>4
  <2>4. now' = now /\ \A x \in Calls : startedAt'[x] = IF x = h THEN now ELSE startedAt[x]
    BY <1>4, <1>9
  <2> QED
    BY <1>2, <1>3, <1>5, <1>7, <1>12, <2>1, <2>2, <2>3, <2>4, StartKeepsLast DEF WindowsInv
<1>15. QueuedIsCool'
  <2> SUFFICES ASSUME NEW x \in Calls, NEW d \in Calls, phase'[d] = "queued", startedAt'[x] # Absent,
                      actor'[x] = actor'[d]
               PROVE  \/ now' - startedAt'[x] >= cooldown
                      \/ Cardinality(StartedBetween(x, d)') >= maxTrackedActors
    BY DEF QueuedIsCool
  <2>1. phase[d] = "queued" /\ d # h /\ actor'[d] = actor[d] /\ actor'[h] = actor[h]
    BY <1>4, <1>9
  <2>2. actor[d] # actor[h]
    BY <1>2, <2>1 DEF IInv, ActorExclusive, InFlight
  <2>3. x \in Started' => x \in Started \/ actor'[x] # actor'[d]
    BY <1>10, <2>1, <2>2
  <2> QED
    BY <1>11, <1>12, <2>1, <2>3, QueuedStayCool DEF WindowsInv
<1>16. InCallOrder'
  <2>1. \A x \in Calls : /\ (phase'[x] = "new") = (acceptedAt'[x] = Absent)
                         /\ (phase'[x] \in {"running", "settled"}) = (startedAt'[x] # Absent)
                         /\ acceptedAt'[x] <= now' /\ startedAt'[x] <= now'
    BY <1>1, <1>2, <1>3, <1>4, <1>9 DEF WindowsInv, InCallOrder, Absent
  <2>2. \A x, y \in Calls : x < y /\ phase'[y] # "new" => phase'[x] # "new"
    BY <1>1, <1>2, <1>9 DEF WindowsInv, InCallOrder
  <2>3. \A i, k \in 1..Len(queue') : i < k => queue'[i] < queue'[k]
    <3> TAKE i, k \in 1..Len(queue')
    <3> HAVE i < k
    <3>1. /\ queue'[i] = queue[i + 1] /\ i + 1 \in 1..Len(queue)
          /\ queue'[k] = queue[k + 1] /\ k + 1 \in 1..Len(queue) /\ i + 1 < k + 1
      BY <1>2, <1>6
    <3> QED
      BY <3>1, QueueFacts
  <2>4. \A x \in Started' : \A i \in 1..Len(queue') : x < queue'[i]
    <3>1. \A x \in Started : \A i \in 1..Len(queue') : x < queue'[i]
      BY <1>6, QueueFacts
    <3> QED
      BY <1>8, <1>10, <3>1
  <2> QED
    BY <2>1, <2>2, <2>3, <2>4 DEF InCallOrder
<1> QED
  BY <1>13, <1>14, <1>15, <1>16 DEF WindowsInv

\* Refused calls, the clock, and steps of nobody.
LEMMA RunRefusedWindows ==
  ASSUME IInv, WindowsInv, NEW raw \in RawActors, NEW j \in JobIds \cup {NoJob}, RunRefused(raw, j)
  PROVE  WindowsInv'
<1>1. /\ UNCHANGED <<acceptedAt, job, actor, startedAt, phase, queue, inserts, now>>
      /\ seenJobs' = Pruned(seenJobs, dedupeWindow)
      /\ lastStartedByActor' = Pruned(lastStartedByActor, cooldown)
  BY DEF RunRefused
<1>2. now' \in Nat /\ now <= now'
  BY <1>1, WindowFacts
<1> QED
  BY <1>1, <1>2, QuietWindows

LEMMA TickWindows ==
  ASSUME IInv, WindowsInv, Tick
  PROVE  WindowsInv'
<1>1. /\ UNCHANGED <<acceptedAt, job, actor, startedAt, phase, queue, inserts, seenJobs, lastStartedByActor>>
      /\ now' = now + 1
  BY DEF Tick
<1>2. now' \in Nat /\ now <= now'
  BY <1>1, WindowFacts
<1> QED
  BY <1>1, <1>2, QuietWindows

\* Nothing is accepted or started at first, and the maps are empty.
LEMMA InitWindows == Init => WindowsInv
<1> SUFFICES ASSUME Init PROVE WindowsInv
  OBVIOUS
<1>1. /\ now = 0 /\ inserts = 0 /\ queue = <<>> /\ Len(queue) = 0 /\ 1..0 = {}
      /\ \A c \in Calls : /\ phase[c] = "new" /\ acceptedAt[c] = Absent /\ startedAt[c] = Absent
  BY DEF Init
<1>2. Accepted = {} /\ Started = {}
  BY <1>1 DEF Accepted, Started
<1>3. InCallOrder
  BY <1>1, <1>2 DEF InCallOrder, Absent
<1>4. SeenInv
  <2>1. seenJobs = [k \in JobIds |-> NoEntry]
    BY DEF Init
  <2>2. \A k \in DOMAIN seenJobs : seenJobs[k].n = 0
    BY <2>1 DEF NoEntry
  <2> QED
    BY <1>1, <1>2, <2>2 DEF SeenInv, MapInv, Ordered, Remembers, Live
<1>5. LastInv
  <2>1. lastStartedByActor = [a \in Actors |-> NoEntry]
    BY DEF Init
  <2>2. \A k \in DOMAIN lastStartedByActor : lastStartedByActor[k].n = 0
    BY <2>1 DEF NoEntry
  <2> QED
    BY <1>1, <1>2, <2>2 DEF LastInv, MapInv, Ordered, Remembers, Live
<1>6. QueuedIsCool /\ DedupeWithinCapacity /\ CooldownWithinCapacity
  BY <1>1 DEF QueuedIsCool, DedupeWithinCapacity, CooldownWithinCapacity
<1> QED
  BY <1>3, <1>4, <1>5, <1>6 DEF WindowsInv

\* Every step keeps the maps in call order and the windows with them.
LEMMA NextWindows == IInv /\ IInv' /\ WindowsInv /\ [Next]_runnerVars => WindowsInv'
<1> SUFFICES ASSUME IInv, IInv', WindowsInv, [Next]_runnerVars PROVE WindowsInv'
  OBVIOUS
<1>1. CASE \E c \in Calls, raw \in RawActors, j \in JobIds \cup {NoJob} : RunStarts(c, raw, j)
  BY <1>1, RunStartsWindows
<1>2. CASE \E c \in Calls, raw \in RawActors, j \in JobIds \cup {NoJob} : RunEnqueues(c, raw, j)
  BY <1>2, RunEnqueuesWindows
<1>3. CASE \E raw \in RawActors, j \in JobIds \cup {NoJob} : RunRefused(raw, j)
  BY <1>3, RunRefusedWindows
<1>4. CASE \E c \in Calls : Finish(c)
  BY <1>4, FinishIdleWindows, FinishDrainsWindows
<1>5. CASE \E i \in 1..Len(queue) : QueueTimeout(i)
  BY <1>5, QueueTimeoutWindows
<1>6. CASE Close
  BY <1>6, CloseWindows
<1>7. CASE Tick
  BY <1>7, TickWindows
<1>8. CASE UNCHANGED runnerVars
  <2>1. UNCHANGED <<acceptedAt, job, actor, startedAt, phase, queue, inserts, now, seenJobs,
                    lastStartedByActor>>
    BY <1>8 DEF runnerVars
  <2>2. now' \in Nat /\ now <= now'
    BY <2>1, WindowFacts
  <2> QED
    BY <2>1, <2>2, QuietWindows
<1> QED
  BY <1>1, <1>2, <1>3, <1>4, <1>5, <1>6, <1>7, <1>8 DEF Next

\* Neither map is trusted beyond its capacity, for any windows and limits: a job
\* id is admitted again within the dedupe window, and an actor starts again
\* within its cooldown (from the queue too), only after maxSeenJobs other ids
\* were recorded, or maxTrackedActors others started, in between (#prune,
\* #setBounded, #assertAccepted, #start).
THEOREM MapsWithinCapacityAlways == Spec => []MapsWithinCapacity
<1>1. IInv /\ WindowsInv => MapsWithinCapacity
  BY DEF IInv, WindowsInv, MapsWithinCapacity
<1>2. Init => IInv /\ WindowsInv
  BY InitIInv, InitWindows
<1>3. (IInv /\ WindowsInv) /\ [Next]_runnerVars => (IInv /\ WindowsInv)'
  BY NextIInv, NextWindows
<1> QED
  BY <1>1, <1>2, <1>3, PTL DEF Spec

-----------------------------------------------------------------------------
(* The answer loop over the runner (module DigitalEmployee).               *)

Utterances == [role : {"user", "assistant"}, call : Calls, outcome : EndStates \cup {"asked"}]
Subjects == Topics \cup {NoTopic}
\* Entries that answer the question they are filed under.
Faqs == [question : Subjects, answers : Subjects, hits : Nat, updatedAt : Nat]
GenuineFaqs == {e \in Faqs : e.answers = e.question}

\* The calls that are running.
RunningCalls == {c \in Calls : phase[c] = "running"}

\* An answer stands behind the question of the same request.
Paired(M) ==
  \A k \in 2..Len(M) :
    M[k].role = "assistant" => M[k - 1].role = "user" /\ M[k - 1].call = M[k].call

\* What sessions S hold while the calls in R are running, in the threads thr: whoever
\* runs has marked its session, if that still exists, and asked last in it.
SessionsInv(S, R, thr) ==
  \A id \in DOMAIN S :
    /\ S[id].messages \in Seq(Utterances) /\ Paired(S[id].messages)
    /\ S[id].state = "working" <=> \E c \in R : thr[c] = id
    /\ \A c \in R : thr[c] = id =>
         Len(S[id].messages) >= 1 /\ S[id].messages[Len(S[id].messages)] = Question(c)

\* Who is in flight has a thread of its actor's own.
OwnThreads ==
  /\ thread \in [Calls -> (Conversations \X Actors) \cup {NoThread}]
  /\ topic \in [Calls -> Subjects]
  /\ \A c \in Calls : InFlight(c) => \E conv \in Conversations : thread[c] = <<conv, actor[c]>>

EmployeeInv ==
  /\ IInv /\ OwnThreads /\ SessionsInv(sessions, RunningCalls, thread)
  /\ faq \in Seq(GenuineFaqs)

\* What is deleted disturbs nobody.
LEMMA DeleteKeeps ==
  ASSUME NEW S, NEW R, NEW thr, NEW ids, SessionsInv(S, R, thr)
  PROVE  SessionsInv(Delete(S, ids), R, thr)
<1> DEFINE T == Delete(S, ids)
<1>1. \A x \in DOMAIN T : x \in DOMAIN S /\ T[x] = S[x]
  BY DEF Delete
<1> HIDE DEF T
<1>2. SessionsInv(T, R, thr)
  BY <1>1 DEF SessionsInv
<1> QED
  BY <1>2 DEF T

\* getOrCreate finds the session, or begins it anew, and leaves of the others
\* those it does not delete.  A session active right now has not expired.
LEMMA CreatedFacts ==
  ASSUME NEW S, NEW id, now \in Nat
  PROVE  LET T == GetOrCreate(S, id) IN
         /\ id \in DOMAIN T
         /\ \A x \in DOMAIN T \ {id} : x \in DOMAIN S /\ T[x] = S[x]
         /\ (id \in DOMAIN S /\ T[id] = S[id]) \/ T[id].messages = <<>>
         /\ id \in DOMAIN S /\ S[id].lastActive = now => T[id] = S[id]
<1> DEFINE P == PruneSessions(S)
           last == Max({0} \cup {P[x].n : x \in DOMAIN P})
           s == Session("idle", <<>>, last + 1)
           E == EnsureCapacity(P)
           T == GetOrCreate(S, id)
<1>1. \A x \in DOMAIN P : x \in DOMAIN S /\ P[x] = S[x]
  BY DEF PruneSessions, Delete
<1>2. id \in DOMAIN S /\ S[id].lastActive = now => id \in DOMAIN P
  BY StoreAssumption DEF PruneSessions, Delete, Expired
<1>3. s.messages = <<>>
  BY DEF Session
<1>4. T = IF id \in DOMAIN P THEN P ELSE Put(E, id, s)
  BY DEF GetOrCreate
<1> HIDE DEF P, s, T
<1>5. \A x \in DOMAIN E : x \in DOMAIN P /\ E[x] = P[x]
  BY DEF EnsureCapacity, Delete
<1> HIDE DEF E
<1>6. CASE id \in DOMAIN P
  BY <1>1, <1>4, <1>6 DEF T
<1>7. CASE id \notin DOMAIN P
  <2>1. /\ DOMAIN T = DOMAIN E \cup {id} /\ T[id] = s
        /\ \A x \in DOMAIN E \ {id} : T[x] = E[x]
    BY <1>4, <1>7 DEF Put
  <2> QED
    BY <1>1, <1>2, <1>3, <1>5, <1>7, <2>1 DEF T
<1> QED
  BY <1>6, <1>7

\* The last messages after one more.
LEMMA LastNFacts ==
  ASSUME NEW M \in Seq(Utterances), NEW m \in Utterances, Paired(M),
         m.role = "assistant" /\ Len(M) >= 1 => M[Len(M)].role = "user" /\ M[Len(M)].call = m.call
  PROVE  LET L == LastN(Append(M, m), maxMessages) IN
         L \in Seq(Utterances) /\ Len(L) >= 1 /\ L[Len(L)] = m /\ Paired(L)
<1> DEFINE A == Append(M, m)
           L == LastN(A, maxMessages)
<1>1. /\ A \in Seq(Utterances) /\ Len(A) = Len(M) + 1 /\ A[Len(A)] = m
      /\ \A i \in 1..Len(M) : A[i] = M[i]
      /\ Len(M) \in Nat /\ maxMessages \in Nat \ {0}
  BY StoreAssumption
<1> HIDE DEF A
<1>2. Paired(A)
  <2> SUFFICES ASSUME NEW k \in 2..Len(A), A[k].role = "assistant"
               PROVE  A[k - 1].role = "user" /\ A[k - 1].call = A[k].call
    BY DEF Paired
  <2>1. CASE k = Len(A)
    <3>1. k - 1 = Len(M) /\ Len(M) \in 1..Len(M) /\ A[k - 1] = M[Len(M)] /\ A[k] = m
      BY <1>1, <2>1
    <3> QED
      BY <3>1
  <2>2. CASE k # Len(A)
    <3>1. k \in 2..Len(M) /\ k \in 1..Len(M) /\ k - 1 \in 1..Len(M)
      BY <1>1, <2>2
    <3> QED
      BY <1>1, <3>1 DEF Paired
  <2> QED
    BY <2>1, <2>2
<1> DEFINE Done == L \in Seq(Utterances) /\ Len(L) >= 1 /\ L[Len(L)] = m /\ Paired(L)
<1>3. ASSUME Len(A) <= maxMessages
      PROVE  Done
  <2>1. L = A
    BY <1>3 DEF LastN
  <2> QED
    BY <1>1, <1>2, <2>1
<1>4. ASSUME ~(Len(A) <= maxMessages)
      PROVE  Done
  <2> DEFINE d == Len(A) - maxMessages
  <2>1. d \in Nat /\ Len(A) = d + maxMessages /\ d \in 1..Len(A)
    BY <1>1, <1>4
  <2>2. L = SubSeq(A, d + 1, Len(A))
    BY <1>4 DEF LastN
  <2> HIDE DEF L, d
  <2>3. /\ L \in Seq(Utterances) /\ Len(L) = Len(A) - d
        /\ \A k \in 1..(Len(A) - d) : L[k] = A[k + d]
    BY <1>1, <2>1, <2>2, SuffixOf
  <2>4. Len(L) = maxMessages
    BY <1>1, <2>1, <2>3
  <2>5. L[Len(L)] = m
    <3>1. maxMessages \in 1..(Len(A) - d) /\ maxMessages + d = Len(A)
      BY <1>1, <2>1
    <3> QED
      BY <1>1, <2>3, <2>4, <3>1
  <2>6. Paired(L)
    <3> SUFFICES ASSUME NEW k \in 2..Len(L), L[k].role = "assistant"
                 PROVE  L[k - 1].role = "user" /\ L[k - 1].call = L[k].call
      BY DEF Paired
    <3>1. /\ k \in 1..(Len(A) - d) /\ k - 1 \in 1..(Len(A) - d) /\ k + d \in 2..Len(A)
          /\ (k - 1) + d = (k + d) - 1
      BY <1>1, <2>1, <2>4
    <3>2. L[k] = A[k + d] /\ L[k - 1] = A[(k + d) - 1]
      BY <2>3, <3>1
    <3> QED
      BY <1>2, <3>1, <3>2 DEF Paired
  <2> QED
    BY <1>1, <2>3, <2>4, <2>5, <2>6
<1>5. Done
  BY <1>3, <1>4
<1> QED
  BY <1>5 DEF A

LEMMA AppendFacts ==
  ASSUME NEW S, NEW id, NEW m \in Utterances, now \in Nat,
         id \in DOMAIN S =>
           /\ S[id].messages \in Seq(Utterances) /\ Paired(S[id].messages)
           /\ m.role = "assistant" /\ Len(S[id].messages) >= 1 =>
                /\ S[id].messages[Len(S[id].messages)].role = "user"
                /\ S[id].messages[Len(S[id].messages)].call = m.call
  PROVE  LET A == AppendMessage(S, id, m) IN
         /\ id \in DOMAIN A
         /\ \A x \in DOMAIN A \ {id} : x \in DOMAIN S /\ A[x] = S[x]
         /\ A[id].messages \in Seq(Utterances) /\ Paired(A[id].messages)
         /\ Len(A[id].messages) >= 1 /\ A[id].messages[Len(A[id].messages)] = m
         /\ A[id].lastActive = now
<1> DEFINE T == GetOrCreate(S, id)
           L == LastN(Append(T[id].messages, m), maxMessages)
           s == Session(T[id].state, L, T[id].n)
           A == AppendMessage(S, id, m)
<1>1. /\ id \in DOMAIN T
      /\ \A x \in DOMAIN T \ {id} : x \in DOMAIN S /\ T[x] = S[x]
      /\ (id \in DOMAIN S /\ T[id] = S[id]) \/ T[id].messages = <<>>
  BY CreatedFacts
<1>2. A = Put(T, id, s)
  BY DEF AppendMessage
<1> HIDE DEF T, A
<1>3. L \in Seq(Utterances) /\ Len(L) >= 1 /\ L[Len(L)] = m /\ Paired(L)
  <2> DEFINE M == T[id].messages
  <2>1. /\ M \in Seq(Utterances) /\ Paired(M)
        /\ m.role = "assistant" /\ Len(M) >= 1 =>
             M[Len(M)].role = "user" /\ M[Len(M)].call = m.call
    <3>1. CASE M = <<>>
      <4>1. M \in Seq(Utterances) /\ Len(M) = 0
        BY <3>1
      <4> HIDE DEF M
      <4> QED
        BY <4>1 DEF Paired
    <3>2. CASE id \in DOMAIN S /\ T[id] = S[id]
      BY <3>2
    <3> QED
      BY <1>1, <3>1, <3>2
  <2> HIDE DEF M
  <2>2. LET N == LastN(Append(M, m), maxMessages) IN
        N \in Seq(Utterances) /\ Len(N) >= 1 /\ N[Len(N)] = m /\ Paired(N)
    BY <2>1, LastNFacts
  <2> QED
    BY <2>2 DEF M
<1>4. s.messages = L /\ s.lastActive = now
  BY DEF Session
<1> HIDE DEF s, L
<1>5. /\ DOMAIN A = DOMAIN T /\ A[id] = s
      /\ \A x \in DOMAIN T \ {id} : A[x] = T[x]
  BY <1>1, <1>2 DEF Put
<1> QED
  BY <1>1, <1>3, <1>4, <1>5 DEF A

LEMMA StateFacts ==
  ASSUME NEW S, NEW id, NEW st, now \in Nat
  PROVE  LET B == SetState(S, id, st) IN
         /\ id \in DOMAIN B /\ B[id].state = st
         /\ \A x \in DOMAIN B \ {id} : x \in DOMAIN S /\ B[x] = S[x]
         /\ (id \in DOMAIN S /\ B[id].messages = S[id].messages) \/ B[id].messages = <<>>
         /\ id \in DOMAIN S /\ S[id].lastActive = now => B[id].messages = S[id].messages
<1> DEFINE T == GetOrCreate(S, id)
           s == Session(st, T[id].messages, T[id].n)
           B == SetState(S, id, st)
<1>1. /\ id \in DOMAIN T
      /\ \A x \in DOMAIN T \ {id} : x \in DOMAIN S /\ T[x] = S[x]
      /\ (id \in DOMAIN S /\ T[id] = S[id]) \/ T[id].messages = <<>>
      /\ id \in DOMAIN S /\ S[id].lastActive = now => T[id] = S[id]
  BY CreatedFacts
<1>2. B = Put(T, id, s)
  BY DEF SetState
<1> HIDE DEF T, B
<1>3. s.messages = T[id].messages /\ s.state = st
  BY DEF Session
<1> HIDE DEF s
<1>4. /\ DOMAIN B = DOMAIN T /\ B[id] = s
      /\ \A x \in DOMAIN T \ {id} : B[x] = T[x]
  BY <1>1, <1>2 DEF Put
<1> QED
  BY <1>1, <1>3, <1>4 DEF B

\* A call that begins in a thread where nobody runs marks the session and asks.
LEMMA BeginKeeps ==
  ASSUME NEW S, NEW F, NEW R, NEW thr, NEW top, NEW c \in Calls, now \in Nat,
         SessionsInv(S, R, thr), \A d \in R : thr[d] # thr[c]
  PROVE  SessionsInv(Begin([sessions |-> S, faq |-> F], c, thr, top).sessions, R \cup {c}, thr)
<1> DEFINE id == thr[c]
           q == Question(c)
           A == AppendMessage(S, id, q)
           B == SetState(A, id, "working")
<1>1. q \in Utterances /\ q.role = "user"
  BY DEF Question, Utterances, EndStates
<1> HIDE DEF q
<1>2. /\ id \in DOMAIN A
      /\ \A x \in DOMAIN A \ {id} : x \in DOMAIN S /\ A[x] = S[x]
      /\ A[id].messages \in Seq(Utterances) /\ Paired(A[id].messages)
      /\ Len(A[id].messages) >= 1 /\ A[id].messages[Len(A[id].messages)] = q
      /\ A[id].lastActive = now
  <2>1. id \in DOMAIN S => S[id].messages \in Seq(Utterances) /\ Paired(S[id].messages)
    BY DEF SessionsInv
  <2> HIDE DEF id
  <2> QED
    BY <1>1, <2>1, AppendFacts
<1> HIDE DEF A
<1>3. /\ id \in DOMAIN B /\ B[id].state = "working" /\ B[id].messages = A[id].messages
      /\ \A x \in DOMAIN B \ {id} : x \in DOMAIN A /\ B[x] = A[x]
  <2> HIDE DEF id
  <2> QED
    BY <1>2, StateFacts
<1>4. Begin([sessions |-> S, faq |-> F], c, thr, top).sessions = B
  BY DEF Begin, A, q
<1> HIDE DEF B
<1>5. SessionsInv(B, R \cup {c}, thr)
  <2> SUFFICES ASSUME NEW x \in DOMAIN B
               PROVE  /\ B[x].messages \in Seq(Utterances) /\ Paired(B[x].messages)
                      /\ B[x].state = "working" <=> \E d \in R \cup {c} : thr[d] = x
                      /\ \A d \in R \cup {c} : thr[d] = x =>
                           /\ Len(B[x].messages) >= 1
                           /\ B[x].messages[Len(B[x].messages)] = Question(d)
    BY DEF SessionsInv
  <2>1. CASE x = id
    BY <1>2, <1>3, <2>1 DEF q
  <2>2. CASE x # id
    <3>1. x \in DOMAIN S /\ B[x] = S[x] /\ thr[c] # x
      BY <1>2, <1>3, <2>2
    <3> QED
      BY <3>1 DEF SessionsInv
  <2> QED
    BY <2>1, <2>2
<1> QED
  BY <1>4, <1>5

\* A call that ends alone in its thread answers behind its question.
LEMMA EndKeeps ==
  ASSUME NEW S, NEW R, NEW c \in R, c \in Calls, NEW o \in EndStates, now \in Nat,
         SessionsInv(S, R, thread), \A d \in R \ {c} : thread[d] # thread[c]
  PROVE  SessionsInv(End(S, c, o), R \ {c}, thread)
<1> DEFINE id == thread[c]
           a == Answer(c, o)
           T == IF o \in {"answered", "escalated"} THEN AppendMessage(S, id, a) ELSE S
           st == EndStateOf(o)
           B == SetState(T, id, st)
<1>1. /\ \A x \in DOMAIN T \ {id} : x \in DOMAIN S /\ T[x] = S[x]
      /\ id \in DOMAIN T => T[id].messages \in Seq(Utterances) /\ Paired(T[id].messages)
  <2>1. CASE o \in {"answered", "escalated"}
    <3>1. a \in Utterances /\ a.role = "assistant" /\ a.call = c
      BY DEF Answer, Utterances
    <3>2. id \in DOMAIN S =>
            /\ S[id].messages \in Seq(Utterances) /\ Paired(S[id].messages)
            /\ S[id].messages[Len(S[id].messages)] = Question(c)
      BY DEF SessionsInv
    <3>3. Question(c).role = "user" /\ Question(c).call = c
      BY DEF Question
    <3> HIDE DEF a, id
    <3> DEFINE A == AppendMessage(S, id, a)
    <3>4. /\ \A x \in DOMAIN A \ {id} : x \in DOMAIN S /\ A[x] = S[x]
          /\ A[id].messages \in Seq(Utterances) /\ Paired(A[id].messages)
      BY <3>1, <3>2, <3>3, AppendFacts
    <3> HIDE DEF A
    <3>5. T = A
      BY <2>1 DEF A
    <3> HIDE DEF T
    <3> QED
      BY <3>4, <3>5
  <2>2. CASE o \notin {"answered", "escalated"}
    <3>1. T = S
      BY <2>2
    <3> HIDE DEF T
    <3> QED
      BY <3>1 DEF SessionsInv
  <2> QED
    BY <2>1, <2>2
<1>2. st # "working"
  BY DEF EndStateOf
<1>3. End(S, c, o) = B
  BY DEF End
<1> HIDE DEF T, st
<1>4. /\ id \in DOMAIN B /\ B[id].state = st
      /\ \A x \in DOMAIN B \ {id} : x \in DOMAIN T /\ B[x] = T[x]
      /\ (id \in DOMAIN T /\ B[id].messages = T[id].messages) \/ B[id].messages = <<>>
  <2> HIDE DEF id
  <2> QED
    BY StateFacts
<1> HIDE DEF B
<1>5. B[id].messages \in Seq(Utterances) /\ Paired(B[id].messages)
  <2>1. CASE B[id].messages = <<>>
    <3> DEFINE M == B[id].messages
    <3>1. M \in Seq(Utterances) /\ Len(M) = 0
      BY <2>1
    <3> HIDE DEF M
    <3>2. Paired(M)
      BY <3>1 DEF Paired
    <3> QED
      BY <3>1, <3>2 DEF M
  <2> QED
    BY <1>1, <1>4, <2>1
<1>6. SessionsInv(B, R \ {c}, thread)
  <2> SUFFICES ASSUME NEW x \in DOMAIN B
               PROVE  /\ B[x].messages \in Seq(Utterances) /\ Paired(B[x].messages)
                      /\ B[x].state = "working" <=> \E d \in R \ {c} : thread[d] = x
                      /\ \A d \in R \ {c} : thread[d] = x =>
                           /\ Len(B[x].messages) >= 1
                           /\ B[x].messages[Len(B[x].messages)] = Question(d)
    BY DEF SessionsInv
  <2>1. CASE x = id
    BY <1>2, <1>4, <1>5, <2>1
  <2>2. CASE x # id
    <3>1. x \in DOMAIN S /\ B[x] = S[x] /\ thread[c] # x
      BY <1>1, <1>4, <2>2
    <3> QED
      BY <3>1 DEF SessionsInv
  <2> QED
    BY <2>1, <2>2
<1> QED
  BY <1>3, <1>6

\* Nobody begins, or one does.
LEMMA BeginNobody ==
  ASSUME NEW st, NEW thr, NEW top
  PROVE  BeginAll(st, <<>>, thr, top) = st
<1>1. DOMAIN <<>> = {}
  OBVIOUS
<1> DEFINE Rest(it) == [s \in SUBSET {} |-> IF s = {} THEN st
                          ELSE LET x == Max(s) IN Begin(it[s \ {x}], <<>>[x], thr, top)]
           iter == CHOOSE it : it = Rest(it)
<1>2. \E it : it = Rest(it)
  <2> DEFINE it == [s \in SUBSET {} |-> st]
  <2>1. it = Rest(it)
    OBVIOUS
  <2> QED
    BY <2>1
<1>3. iter = Rest(iter)
  BY <1>2
<1>4. iter[{}] = st
  <2> HIDE DEF iter
  <2> QED
    BY <1>3
<1>5. BeginAll(st, <<>>, thr, top) = iter[{}]
  BY <1>1 DEF BeginAll, FoldLeft, MapThenFoldSet
<1> QED
  BY <1>4, <1>5

LEMMA BeginOne ==
  ASSUME NEW st, NEW c, NEW thr, NEW top
  PROVE  BeginAll(st, <<c>>, thr, top) = Begin(st, c, thr, top)
<1> DEFINE q == <<c>>
<1>1. DOMAIN q = {1} /\ q[1] = c
  OBVIOUS
<1>2. Max({1}) = 1
  BY DEF Max
<1> HIDE DEF q
<1> DEFINE Rest(it) == [s \in SUBSET {1} |-> IF s = {} THEN st
                          ELSE LET x == Max(s) IN Begin(it[s \ {x}], q[x], thr, top)]
           iter == CHOOSE it : it = Rest(it)
           b == Begin(st, c, thr, top)
<1>3. {1} \ {1} = {} /\ \A s \in SUBSET {1} : s # {} => s = {1}
  OBVIOUS
<1>4. \E it : it = Rest(it)
  <2> DEFINE it == [s \in SUBSET {1} |-> IF s = {} THEN st ELSE b]
  <2>1. it[{}] = st
    OBVIOUS
  <2> HIDE DEF b
  <2>2. \A s \in SUBSET {1} : it[s] = Rest(it)[s]
    <3> HIDE DEF it
    <3>1. it[{1} \ {1}] = st
      BY <1>3, <2>1
    <3>2. Begin(it[{1} \ {Max({1})}], q[Max({1})], thr, top) = b
      BY <1>1, <1>2, <3>1 DEF b
    <3> QED
      BY <1>3, <2>1, <3>2 DEF it
  <2>3. it = Rest(it)
    BY <2>2
  <2> QED
    BY <2>3
<1>5. iter = Rest(iter)
  BY <1>4
<1>6. iter[{1}] = b
  <2> HIDE DEF iter, b
  <2>1. iter[{}] = st
    BY <1>5
  <2>2. iter[{1}] = Begin(iter[{1} \ {Max({1})}], q[Max({1})], thr, top)
    BY <1>5
  <2>3. iter[{1} \ {1}] = st
    BY <1>3, <2>1
  <2> QED
    BY <1>1, <1>2, <2>2, <2>3 DEF b
<1>7. BeginAll(st, q, thr, top) = iter[{1}]
  BY <1>1 DEF BeginAll, FoldLeft, MapThenFoldSet
<1> QED
  BY <1>6, <1>7 DEF q

LEMMA SearchedKeeps ==
  ASSUME NEW F \in Seq(GenuineFaqs), NEW t
  PROVE  Searched(F, t) \in Seq(GenuineFaqs)
<1> DEFINE e(i) == IF F[i].question = t /\ F[i].hits < MaxHits
                   THEN [F[i] EXCEPT !.hits = @ + 1] ELSE F[i]
<1>1. ASSUME NEW i \in 1..Len(F)
      PROVE  e(i) \in GenuineFaqs
  <2>1. F[i] \in Faqs /\ F[i].answers = F[i].question
    BY ElementOfSeq DEF GenuineFaqs
  <2>2. [F[i] EXCEPT !.hits = @ + 1] \in GenuineFaqs
    <3> DEFINE f == F[i]
               h == f.hits + 1
               g == [f EXCEPT !.hits = h]
    <3>1. f \in Faqs /\ f.answers = f.question /\ h \in Nat
      BY <2>1 DEF Faqs
    <3> HIDE DEF f, h
    <3>2. g \in Faqs /\ g.answers = f.answers /\ g.question = f.question
      BY <3>1 DEF Faqs
    <3> HIDE DEF g
    <3>3. g \in GenuineFaqs
      BY <3>1, <3>2 DEF GenuineFaqs
    <3> QED
      BY <3>3 DEF f, g, h
  <2> QED
    BY <2>1, <2>2 DEF GenuineFaqs
<1> HIDE DEF e
<1>2. Len(F) \in Nat /\ [i \in 1..Len(F) |-> e(i)] \in Seq(GenuineFaqs)
  BY <1>1
<1> QED
  BY <1>2 DEF Searched, e

\* There is a first entry to evict.
LEMMA EvictedKeeps ==
  ASSUME NEW F \in Seq(GenuineFaqs)
  PROVE  Evicted(F) \in Seq(GenuineFaqs)
<1> DEFINE before(i, k) ==
             \/ F[i].hits < F[k].hits
             \/ F[i].hits = F[k].hits /\ F[i].updatedAt < F[k].updatedAt
             \/ F[i].hits = F[k].hits /\ F[i].updatedAt = F[k].updatedAt /\ i <= k
<1>1. CASE Len(F) <= maxFaqs
  BY <1>1 DEF Evicted
<1>2. CASE ~(Len(F) <= maxFaqs)
  <2>1. Len(F) \in Nat /\ maxFaqs \in Nat \ {0} /\ 1 \in 1..Len(F)
    BY <1>2, StoreAssumption
  <2>2. \A i \in 1..Len(F) : F[i].hits \in Nat /\ F[i].updatedAt \in Nat
    <3> SUFFICES ASSUME NEW i \in 1..Len(F)
                 PROVE  F[i].hits \in Nat /\ F[i].updatedAt \in Nat
      OBVIOUS
    <3>1. F[i] \in Faqs
      BY ElementOfSeq DEF GenuineFaqs
    <3> QED
      BY <3>1 DEF Faqs
  <2> DEFINE H == {F[i].hits : i \in 1..Len(F)}
  <2>3. PICK h \in H : \A m \in H : h <= m
    <3>1. H \subseteq Nat /\ H # {}
      BY <2>1, <2>2
    <3> HIDE DEF H
    <3> QED
      BY <3>1, LeastNat
  <2> DEFINE I == {i \in 1..Len(F) : F[i].hits = h}
             U == {F[i].updatedAt : i \in I}
  <2>4. PICK u \in U : \A m \in U : u <= m
    <3>1. U \subseteq Nat /\ U # {}
      BY <2>2, <2>3
    <3> HIDE DEF U
    <3> QED
      BY <3>1, LeastNat
  <2> DEFINE J == {i \in I : F[i].updatedAt = u}
  <2>5. PICK j \in J : \A m \in J : j <= m
    <3>1. J \subseteq Nat /\ J # {}
      BY <2>1, <2>4
    <3> HIDE DEF J
    <3> QED
      BY <3>1, LeastNat
  <2>6. j \in 1..Len(F) /\ \A k \in 1..Len(F) : before(j, k)
    <3>1. j \in 1..Len(F) /\ F[j].hits = h /\ F[j].updatedAt = u
      BY <2>5
    <3>2. ASSUME NEW k \in 1..Len(F)
          PROVE  before(j, k)
      <4>1. h <= F[k].hits /\ h \in Nat /\ F[k].hits \in Nat /\ F[k].updatedAt \in Nat /\ u \in Nat
        BY <2>2, <2>3, <3>1
      <4>2. F[k].hits = h => u <= F[k].updatedAt
        BY <2>4
      <4>3. F[k].hits = h /\ F[k].updatedAt = u => j <= k
        BY <2>5
      <4> QED
        BY <3>1, <4>1, <4>2, <4>3
    <3> QED
      BY <3>1, <3>2
  <2> HIDE DEF before
  <2> DEFINE o == CHOOSE i \in 1..Len(F) : \A k \in 1..Len(F) : before(i, k)
  <2>7. o \in 1..Len(F)
    BY <2>6
  <2>8. Evicted(F) = RemoveAt(F, o)
    BY <1>2 DEF Evicted, before
  <2> HIDE DEF o
  <2>9. RemoveAt(F, o) \in Seq(GenuineFaqs)
    BY <2>7, WithoutIndex DEF RemoveAt
  <2> QED
    BY <2>8, <2>9
<1> QED
  BY <1>1, <1>2

LEMMA AddKeeps ==
  ASSUME NEW F \in Seq(GenuineFaqs), NEW q \in Subjects, now \in Nat
  PROVE  AddFaq(F, q, q) \in Seq(GenuineFaqs)
<1> DEFINE same == {i \in 1..Len(F) : F[i].question = q}
           e(i) == IF i \in same
                   THEN [F[i] EXCEPT !.answers = q, !.updatedAt = now,
                                     !.hits = IF @ < MaxHits THEN @ + 1 ELSE @]
                   ELSE F[i]
           new == [question |-> q, answers |-> q, hits |-> 0, updatedAt |-> now]
<1>1. ASSUME NEW i \in 1..Len(F)
      PROVE  e(i) \in GenuineFaqs
  <2>1. F[i] \in Faqs /\ F[i].answers = F[i].question
    BY ElementOfSeq DEF GenuineFaqs
  <2>2. CASE i \in same
    <3> DEFINE hits == IF F[i].hits < MaxHits THEN F[i].hits + 1 ELSE F[i].hits
    <3>1. hits \in Nat
      BY <2>1 DEF Faqs
    <3>2. e(i) = [F[i] EXCEPT !.answers = q, !.updatedAt = now, !.hits = hits]
      BY <2>2
    <3> HIDE DEF hits, e
    <3>3. e(i) \in Faqs /\ e(i).answers = q /\ e(i).question = F[i].question
      BY <2>1, <3>1, <3>2 DEF Faqs
    <3> QED
      BY <2>2, <3>3 DEF GenuineFaqs
  <2>3. CASE i \notin same
    BY <2>1, <2>3 DEF GenuineFaqs
  <2> QED
    BY <2>2, <2>3
<1>2. Len(F) \in Nat
  OBVIOUS
<1>3. Evicted(Append(F, new)) \in Seq(GenuineFaqs)
  <2>1. new \in GenuineFaqs
    BY DEF GenuineFaqs, Faqs
  <2> HIDE DEF new
  <2>2. Append(F, new) \in Seq(GenuineFaqs)
    BY <2>1
  <2> QED
    BY <2>2, EvictedKeeps
<1> HIDE DEF e
<1>4. [i \in 1..Len(F) |-> e(i)] \in Seq(GenuineFaqs)
  BY <1>1, <1>2
<1>5. AddFaq(F, q, q) = IF q \in UnsafeTopics THEN F
                        ELSE IF same # {} THEN [i \in 1..Len(F) |-> e(i)]
                        ELSE Evicted(Append(F, new))
  BY DEF AddFaq, e
<1> HIDE DEF same, new
<1> QED
  BY <1>3, <1>4, <1>5

\* There is a last exchange if there is one.
LEMMA LastExchangeFacts ==
  ASSUME NEW M \in Seq(Utterances), Exchanges(M) # {}
  PROVE  LastExchange(M) \in Exchanges(M)
<1> DEFINE X == Exchanges(M)
           T == {Len(M) - p[2] : p \in X}
<1>1. \A p \in X : p[2] \in 1..Len(M) /\ Len(M) \in Nat
  BY DEF Exchanges
<1> HIDE DEF X
<1>2. PICK n \in T : \A m \in T : n <= m
  <2>1. T \subseteq Nat /\ T # {}
    BY <1>1 DEF X
  <2> HIDE DEF T
  <2> QED
    BY <2>1, LeastNat
<1>3. PICK p \in X : n = Len(M) - p[2]
  BY <1>2
<1>4. \A q \in X : q[2] <= p[2]
  <2> SUFFICES ASSUME NEW q \in X
               PROVE  q[2] <= p[2]
    OBVIOUS
  <2>1. n <= Len(M) - q[2]
    BY <1>2
  <2>2. q[2] \in Nat /\ p[2] \in Nat /\ Len(M) \in Nat
    BY <1>1, <1>3
  <2> HIDE DEF T
  <2> QED
    BY <1>3, <2>1, <2>2
<1>5. \E x \in X : \A q \in X : q[2] <= x[2]
  BY <1>3, <1>4
<1> QED
  BY <1>5 DEF LastExchange, X

\* Two calls in flight are in different threads: their actors differ.
LEMMA ThreadsApart ==
  ASSUME OwnThreads, ActorExclusive,
         NEW c \in Calls, NEW d \in Calls, c # d, InFlight(c), InFlight(d)
  PROVE  thread[c] # thread[d]
<1>1. PICK x \in Conversations : thread[c] = <<x, actor[c]>>
  BY DEF OwnThreads
<1>2. PICK y \in Conversations : thread[d] = <<y, actor[d]>>
  BY DEF OwnThreads
<1>3. actor[c] # actor[d]
  BY DEF ActorExclusive
<1> QED
  BY <1>1, <1>2, <1>3

\* The call a request makes gets a thread of its actor's own.
LEMMA AskKeeps ==
  ASSUME TypeOK, OwnThreads, NEW c \in Calls, NEW raw \in RawActors, NEW conv \in Conversations,
         NEW t \in Topics, Ask(c, raw, conv, t),
         actor' = [actor EXCEPT ![c] = ActorOf(raw)],
         \A d \in Calls : d # c => phase'[d] = phase[d]
  PROVE  OwnThreads'
<1> DEFINE a == ActorOf(raw)
<1>1. a \in Actors
  BY DEF ActorOf, Actors
<1>2. /\ thread' = [thread EXCEPT ![c] = <<conv, a>>]
      /\ topic' = [topic EXCEPT ![c] = t]
  BY DEF Ask, ThreadOf
<1>3. actor \in [Calls -> Actors]
  BY DEF TypeOK
<1> HIDE DEF a
<1>4. thread' \in [Calls -> (Conversations \X Actors) \cup {NoThread}]
  BY <1>1, <1>2 DEF OwnThreads
<1>5. topic' \in [Calls -> Subjects]
  BY <1>2 DEF OwnThreads, Subjects
<1>6. ASSUME NEW d \in Calls, InFlight(d)'
      PROVE  \E x \in Conversations : thread'[d] = <<x, actor'[d]>>
  <2>1. CASE d = c
    BY <1>2, <1>3, <2>1 DEF OwnThreads, a
  <2>2. CASE d # c
    <3>1. thread'[d] = thread[d] /\ actor'[d] = actor[d]
      BY <1>2, <1>3, <2>2 DEF OwnThreads
    <3>2. InFlight(d)
      BY <1>6, <2>2 DEF InFlight
    <3> QED
      BY <3>1, <3>2 DEF OwnThreads
  <2> QED
    BY <2>1, <2>2
<1> QED
  BY <1>4, <1>5, <1>6 DEF OwnThreads

LEMMA AnswerStartsKeeps ==
  ASSUME EmployeeInv, IInv', NEW c \in Calls, NEW raw \in RawActors, NEW conv \in Conversations,
         NEW t \in Topics, NEW j \in Requests, AnswerStarts(c, raw, conv, t, j)
  PROVE  EmployeeInv'
<1> DEFINE R == RunningCalls
           st == Begin([sessions |-> sessions, faq |-> faq], c, thread', topic')
<1>1. /\ RunStarts(c, raw, j) /\ Ask(c, raw, conv, t)
      /\ sessions' = st.sessions /\ faq' = st.faq
  BY DEF AnswerStarts
<1>2. /\ IInv /\ TypeOK /\ OwnThreads /\ SessionsInv(sessions, R, thread)
      /\ faq \in Seq(GenuineFaqs)
  BY DEF EmployeeInv, IInv
<1>3. /\ phase[c] = "new" /\ phase' = [phase EXCEPT ![c] = "running"]
      /\ actor' = [actor EXCEPT ![c] = ActorOf(raw)]
  BY <1>1 DEF RunStarts, Identify, IsNextCall
<1>4. phase \in [Calls -> Phases] /\ now \in Nat
  BY <1>2, LimitsAssumption DEF TypeOK
<1>5. R' = R \cup {c} /\ c \notin R /\ R \subseteq Calls
  BY <1>3, <1>4 DEF RunningCalls
<1>6. OwnThreads'
  BY <1>1, <1>2, <1>3, <1>4, AskKeeps
<1>7. \A d \in R : thread'[d] # thread'[c] /\ thread'[d] = thread[d]
  <2> SUFFICES ASSUME NEW d \in R
               PROVE  thread'[d] # thread'[c] /\ thread'[d] = thread[d]
    OBVIOUS
  <2>1. d \in Calls /\ d # c /\ phase'[d] = "running" /\ phase'[c] = "running"
    BY <1>3, <1>4, <1>5 DEF RunningCalls
  <2>2. PICK x \in Conversations : thread'[c] = <<x, actor'[c]>>
    BY <1>6, <2>1 DEF OwnThreads, InFlight
  <2>3. PICK y \in Conversations : thread'[d] = <<y, actor'[d]>>
    BY <1>6, <2>1 DEF OwnThreads, InFlight
  <2>4. actor'[c] # actor'[d]
    BY <2>1 DEF IInv, ActorExclusive, InFlight
  <2>5. thread'[d] = thread[d]
    BY <1>1, <1>2, <2>1 DEF Ask, OwnThreads
  <2> QED
    BY <2>2, <2>3, <2>4, <2>5
<1> HIDE DEF R
<1>8. SessionsInv(sessions, R, thread')
  BY <1>2, <1>7 DEF SessionsInv
<1>9. SessionsInv(sessions', R', thread')
  <2>1. SessionsInv(st.sessions, R \cup {c}, thread')
    BY <1>4, <1>7, <1>8, BeginKeeps
  <2> HIDE DEF st
  <2> QED
    BY <1>1, <1>5, <2>1
<1>10. faq' \in Seq(GenuineFaqs)
  <2>1. st.faq = Searched(faq, topic'[c])
    BY DEF Begin
  <2>2. Searched(faq, topic'[c]) \in Seq(GenuineFaqs)
    BY <1>2, SearchedKeeps
  <2> HIDE DEF st
  <2> QED
    BY <1>1, <2>1, <2>2
<1> QED
  BY <1>6, <1>9, <1>10 DEF EmployeeInv, R

LEMMA AnswerQueuesKeeps ==
  ASSUME EmployeeInv, IInv', NEW c \in Calls, NEW raw \in RawActors, NEW conv \in Conversations,
         NEW t \in Topics, NEW j \in Requests, AnswerQueues(c, raw, conv, t, j)
  PROVE  EmployeeInv'
<1> DEFINE R == RunningCalls
<1>1. /\ RunEnqueues(c, raw, j) /\ Ask(c, raw, conv, t)
      /\ sessions' = sessions /\ faq' = faq
  BY DEF AnswerQueues
<1>2. /\ IInv /\ TypeOK /\ OwnThreads /\ SessionsInv(sessions, R, thread)
      /\ faq \in Seq(GenuineFaqs)
  BY DEF EmployeeInv, IInv
<1>3. /\ phase[c] = "new" /\ phase' = [phase EXCEPT ![c] = "queued"]
      /\ actor' = [actor EXCEPT ![c] = ActorOf(raw)]
  BY <1>1 DEF RunEnqueues, Identify, IsNextCall
<1>4. phase \in [Calls -> Phases]
  BY <1>2 DEF TypeOK
<1>5. R' = R /\ c \notin R /\ R \subseteq Calls
  BY <1>3, <1>4 DEF RunningCalls
<1>6. OwnThreads'
  BY <1>1, <1>2, <1>3, <1>4, AskKeeps
<1>7. \A d \in R : thread'[d] = thread[d]
  BY <1>1, <1>2, <1>5 DEF Ask, OwnThreads
<1> HIDE DEF R
<1>8. SessionsInv(sessions, R, thread')
  BY <1>2, <1>7 DEF SessionsInv
<1> QED
  BY <1>1, <1>2, <1>5, <1>6, <1>8 DEF EmployeeInv, R

\* The steps of the runner that start nothing and end nothing running.
LEMMA QuietKeeps ==
  ASSUME EmployeeInv, IInv', UNCHANGED <<thread, topic>>, actor' = actor,
         \A d \in Calls : (phase'[d] = "running") = (phase[d] = "running"),
         \A d \in Calls : InFlight(d)' => InFlight(d),
         SessionsInv(sessions', RunningCalls, thread), faq' \in Seq(GenuineFaqs)
  PROVE  EmployeeInv'
<1>1. RunningCalls' = RunningCalls
  BY DEF RunningCalls
<1>2. OwnThreads'
  BY DEF EmployeeInv, OwnThreads
<1> QED
  BY <1>1, <1>2 DEF EmployeeInv

\* The end of a call on the two stores: its session, then that of whoever it lets in.
LEMMA AnswerEndsKeeps ==
  ASSUME EmployeeInv, IInv', NEW c \in Calls, NEW o \in EndStates, AnswerEnds(c, o)
  PROVE  EmployeeInv'
<1> DEFINE R == RunningCalls
           k == DrainCount(running - 1)
           next == {queue[i] : i \in 1..k}
           started == SubSeq(queue, 1, k)
           ended == [sessions |-> End(sessions, c, o), faq |-> faq]
           st == BeginAll(ended, started, thread, topic)
<1>1. /\ Finish(c) /\ sessions' = st.sessions /\ faq' = st.faq
      /\ thread' = thread /\ topic' = topic
  BY DEF AnswerEnds
<1>2. /\ IInv /\ TypeOK /\ OwnThreads /\ ActorExclusive /\ SessionsInv(sessions, R, thread)
      /\ faq \in Seq(GenuineFaqs)
  BY DEF EmployeeInv, IInv
<1>3. /\ phase \in [Calls -> Phases] /\ now \in Nat /\ queue \in Seq(Calls)
  BY <1>2, LimitsAssumption DEF TypeOK
<1>4. /\ phase[c] = "running" /\ actor' = actor
      /\ phase' = [d \in Calls |-> IF d = c THEN "settled"
                                   ELSE IF d \in next THEN "running" ELSE phase[d]]
  BY <1>1 DEF Finish
<1>5. c \in R /\ R \subseteq Calls
  BY <1>4 DEF RunningCalls
<1>6. SessionsInv(ended.sessions, R \ {c}, thread)
  <2>1. \A d \in R \ {c} : thread[d] # thread[c]
    BY <1>2, <1>4, ThreadsApart DEF RunningCalls, InFlight
  <2> HIDE DEF R
  <2>2. SessionsInv(End(sessions, c, o), R \ {c}, thread)
    BY <1>2, <1>3, <1>5, <2>1, EndKeeps
  <2> QED
    BY <2>2
<1>7. ASSUME NEW N \in SUBSET Calls, next = N, \A d \in N : phase[d] = "queued",
             SessionsInv(st.sessions, (R \ {c}) \cup N, thread), st.faq \in Seq(GenuineFaqs)
      PROVE  EmployeeInv'
  <2>1. R' = (R \ {c}) \cup N
    BY <1>3, <1>4, <1>7 DEF RunningCalls
  <2>2. \A d \in Calls : InFlight(d)' => InFlight(d)
    BY <1>3, <1>4, <1>7 DEF InFlight
  <2>3. OwnThreads'
    BY <1>1, <1>2, <1>4, <2>2 DEF OwnThreads
  <2> HIDE DEF R, st
  <2>4. SessionsInv(sessions', R', thread')
    BY <1>1, <1>7, <2>1
  <2> QED
    BY <1>1, <1>7, <2>3, <2>4 DEF EmployeeInv, R
<1>8. CASE queue = <<>>
  <2>1. k = 0
    BY <1>2, <1>4, <1>8, DrainStartsHead
  <2>2. next = {} /\ started = <<>>
    BY <1>8, <2>1
  <2>3. st = ended
    BY <2>2, BeginNobody
  <2>4. ended.faq = faq
    OBVIOUS
  <2> HIDE DEF st, ended, next, R
  <2> DEFINE N == {}
  <2>5. /\ N \in SUBSET Calls /\ next = N /\ \A d \in N : phase[d] = "queued"
        /\ (R \ {c}) \cup N = R \ {c}
    BY <2>2
  <2>6. SessionsInv(st.sessions, R \ {c}, thread) /\ st.faq \in Seq(GenuineFaqs)
    BY <1>2, <1>6, <2>3, <2>4
  <2> HIDE DEF N
  <2>7. SessionsInv(st.sessions, (R \ {c}) \cup N, thread)
    BY <2>5, <2>6
  <2> QED
    BY <1>7, <2>5, <2>6, <2>7
<1>9. CASE queue # <<>>
  <2> DEFINE h == queue[1]
  <2>1. k = 1
    BY <1>2, <1>4, <1>9, DrainStartsHead
  <2>2. Len(queue) \in Nat /\ Len(queue) >= 1 /\ h \in Calls
    BY <1>3, <1>9
  <2>3. phase[h] = "queued" /\ h # c
    BY <1>2, <1>4, <2>2 DEF IInv, Bookkeeping
  <2>4. next = {h}
    BY <2>1
  <2>5. started = <<h>>
    <3> HIDE DEF h, k
    <3> DEFINE one == SubSeq(queue, 1, 1)
    <3>1. one \in Seq(Calls) /\ Len(one) = 1 /\ one[1] = h
      BY <1>3, <2>2 DEF h
    <3> HIDE DEF one
    <3>2. one = <<h>>
      BY <3>1
    <3> QED
      BY <2>1, <3>2 DEF one
  <2>6. \A d \in R \ {c} : thread[d] # thread[h]
    BY <1>2, <2>2, <2>3, ThreadsApart DEF RunningCalls, InFlight
  <2> HIDE DEF h, R
  <2>7. st = Begin(ended, h, thread, topic)
    BY <2>5, BeginOne
  <2>8. ended = [sessions |-> ended.sessions, faq |-> faq]
    OBVIOUS
  <2>9. Begin(ended, h, thread, topic).faq = Searched(faq, topic[h])
    BY DEF Begin
  <2> HIDE DEF st, ended, next
  <2>10. SessionsInv(st.sessions, (R \ {c}) \cup {h}, thread)
    <3> DEFINE S == ended.sessions
    <3> HIDE DEF S
    <3>1. SessionsInv(Begin([sessions |-> S, faq |-> faq], h, thread, topic).sessions,
                      (R \ {c}) \cup {h}, thread)
      BY <1>3, <1>6, <2>2, <2>6, BeginKeeps DEF S
    <3>2. st = Begin([sessions |-> S, faq |-> faq], h, thread, topic)
      BY <2>7, <2>8 DEF S
    <3> QED
      BY <3>1, <3>2
  <2>11. st.faq \in Seq(GenuineFaqs)
    BY <1>2, <2>7, <2>9, SearchedKeeps
  <2> DEFINE N == {h}
  <2>12. /\ N \in SUBSET Calls /\ next = N /\ \A d \in N : phase[d] = "queued"
         /\ SessionsInv(st.sessions, (R \ {c}) \cup N, thread)
    BY <2>2, <2>3, <2>4, <2>10
  <2> HIDE DEF N
  <2> QED
    BY <1>7, <2>11, <2>12
<1> QED
  BY <1>8, <1>9

\* Feedback files the answer of one call under the question of the same call.
LEMMA FeedbackKeeps ==
  ASSUME EmployeeInv, IInv', NEW id, NEW authorized \in BOOLEAN, Feedback(id, authorized)
  PROVE  EmployeeInv'
<1> DEFINE S == AfterGet(sessions, id)
           M == S[id].messages
           p == LastExchange(M)
           stores == /\ id \in DOMAIN S /\ Exchanges(M) # {}
                     /\ S[id].state = "idle"
                     /\ M[p[2]].outcome = "answered"
                     /\ authorized
           qt == topic[M[p[1]].call]
           at == topic[M[p[2]].call]
<1>1. /\ sessions' = S /\ faq' = IF stores THEN AddFaq(faq, qt, at) ELSE faq
      /\ thread' = thread /\ topic' = topic /\ phase' = phase /\ actor' = actor
  BY DEF Feedback, runnerVars
<1>2. /\ IInv /\ TypeOK /\ OwnThreads /\ SessionsInv(sessions, RunningCalls, thread)
      /\ faq \in Seq(GenuineFaqs)
  BY DEF EmployeeInv, IInv
<1>3. SessionsInv(S, RunningCalls, thread)
  BY <1>2, DeleteKeeps DEF AfterGet
<1>4. faq' \in Seq(GenuineFaqs)
  <2>1. CASE stores
    <3>1. M \in Seq(Utterances) /\ Paired(M)
      BY <1>3, <2>1 DEF SessionsInv
    <3>2. p \in Exchanges(M)
      BY <2>1, <3>1, LastExchangeFacts
    <3> HIDE DEF M, p, S
    <3>3. /\ p[1] \in 1..Len(M) /\ p[2] \in 1..Len(M) /\ p[1] + 1 = p[2]
          /\ M[p[2]].role = "assistant"
      BY <3>2 DEF Exchanges
    <3>4. p[2] \in 2..Len(M) /\ p[2] - 1 = p[1]
      BY <3>1, <3>3
    <3>5. M[p[1]].call = M[p[2]].call
      BY <3>1, <3>3, <3>4 DEF Paired
    <3>6. M[p[1]] \in Utterances
      BY <3>1, <3>3, ElementOfSeq
    <3>7. qt \in Subjects /\ at = qt
      BY <1>2, <3>5, <3>6 DEF OwnThreads, Utterances
    <3>8. now \in Nat
      BY <1>2, LimitsAssumption DEF TypeOK
    <3> HIDE DEF qt, at
    <3>9. AddFaq(faq, qt, qt) \in Seq(GenuineFaqs)
      BY <1>2, <3>7, <3>8, AddKeeps
    <3>10. faq' = AddFaq(faq, qt, at)
      BY <1>1, <2>1 DEF qt, at
    <3> QED
      BY <3>7, <3>9, <3>10
  <2>2. CASE ~stores
    <3> HIDE DEF stores
    <3> QED
      BY <1>1, <1>2, <2>2
  <2> QED
    BY <2>1, <2>2
<1> HIDE DEF S, M, p, stores, qt, at
<1>5. /\ \A d \in Calls : (phase'[d] = "running") = (phase[d] = "running")
      /\ \A d \in Calls : InFlight(d)' => InFlight(d)
  BY <1>1 DEF InFlight
<1> QED
  BY <1>1, <1>3, <1>4, <1>5, QuietKeeps

LEMMA CloseSessionKeeps ==
  ASSUME EmployeeInv, IInv', NEW id, CloseSession(id)
  PROVE  EmployeeInv'
<1>1. /\ sessions' = Delete(sessions, {id}) /\ UNCHANGED <<thread, topic, faq>>
      /\ phase' = phase /\ actor' = actor
  BY DEF CloseSession, runnerVars
<1>2. SessionsInv(sessions', RunningCalls, thread)
  BY <1>1, DeleteKeeps DEF EmployeeInv
<1>3. faq' \in Seq(GenuineFaqs)
  BY <1>1 DEF EmployeeInv
<1>4. /\ \A d \in Calls : (phase'[d] = "running") = (phase[d] = "running")
      /\ \A d \in Calls : InFlight(d)' => InFlight(d)
  BY <1>1 DEF InFlight
<1> QED
  BY <1>1, <1>2, <1>3, <1>4, QuietKeeps

LEMMA EmployeeInitInv == EmployeeInit => EmployeeInv
<1> SUFFICES ASSUME EmployeeInit PROVE EmployeeInv
  OBVIOUS
<1>1. IInv
  BY InitIInv DEF EmployeeInit
<1>2. OwnThreads
  BY DEF EmployeeInit, OwnThreads, Init, InFlight, Subjects
<1>3. SessionsInv(sessions, RunningCalls, thread)
  BY DEF EmployeeInit, SessionsInv
<1>4. faq \in Seq(GenuineFaqs)
  BY DEF EmployeeInit
<1> QED
  BY <1>1, <1>2, <1>3, <1>4 DEF EmployeeInv

\* Every step of the employee is a step of its runner, or none.
LEMMA RunnerSteps == [EmployeeNext]_vars => [Next]_runnerVars
<1> SUFFICES ASSUME [EmployeeNext]_vars PROVE [Next]_runnerVars
  OBVIOUS
<1>1. ASSUME NEW c \in Calls, NEW raw \in RawActors, NEW conv \in Conversations, NEW t \in Topics,
             NEW j \in Requests, AnswerStarts(c, raw, conv, t, j) \/ AnswerQueues(c, raw, conv, t, j)
      PROVE  Next
  BY <1>1 DEF AnswerStarts, AnswerQueues, Requests, Next
<1>2. ASSUME NEW raw \in RawActors, NEW j \in Requests, AnswerRefused(raw, j)
      PROVE  Next
  BY <1>2 DEF AnswerRefused, Requests, Next
<1>3. ASSUME NEW c \in Calls, NEW o \in EndStates, AnswerEnds(c, o)
      PROVE  Next
  BY <1>3 DEF AnswerEnds, Next
<1>4. ASSUME NEW id \in Threads, NEW authorized \in BOOLEAN, Feedback(id, authorized)
      PROVE  UNCHANGED runnerVars
  BY <1>4 DEF Feedback
<1>5. ASSUME NEW id \in Threads, CloseSession(id)
      PROVE  UNCHANGED runnerVars
  BY <1>5 DEF CloseSession
<1>6. (\E i \in 1..Len(queue) : QueueTimeout(i)) \/ Close \/ Tick => Next
  BY DEF Next
<1>7. UNCHANGED vars => UNCHANGED runnerVars
  BY DEF vars
<1> QED
  BY <1>1, <1>2, <1>3, <1>4, <1>5, <1>6, <1>7 DEF EmployeeNext

LEMMA EmployeeStepInv == EmployeeInv /\ [EmployeeNext]_vars => EmployeeInv'
<1> SUFFICES ASSUME EmployeeInv, [EmployeeNext]_vars PROVE EmployeeInv'
  OBVIOUS
<1>1. IInv'
  BY RunnerSteps, NextIInv DEF EmployeeInv
<1>2. TypeOK /\ Bookkeeping /\ phase \in [Calls -> Phases] /\ queue \in Seq(Calls)
  BY DEF EmployeeInv, IInv, TypeOK
<1>3. ASSUME UNCHANGED storeVars, actor' = actor,
             \A d \in Calls : (phase'[d] = "running") = (phase[d] = "running"),
             \A d \in Calls : InFlight(d)' => InFlight(d)
      PROVE  EmployeeInv'
  <2>1. sessions' = sessions /\ faq' = faq /\ UNCHANGED <<thread, topic>>
    BY <1>3 DEF storeVars
  <2>2. SessionsInv(sessions', RunningCalls, thread) /\ faq' \in Seq(GenuineFaqs)
    BY <2>1 DEF EmployeeInv
  <2> QED
    BY <1>1, <1>3, <2>1, <2>2, QuietKeeps
<1>4. ASSUME UNCHANGED storeVars, actor' = actor, phase' = phase
      PROVE  EmployeeInv'
  <2>1. /\ \A d \in Calls : (phase'[d] = "running") = (phase[d] = "running")
        /\ \A d \in Calls : InFlight(d)' => InFlight(d)
    BY <1>4 DEF InFlight
  <2> QED
    BY <1>3, <1>4, <2>1
<1>5. ASSUME NEW c \in Calls, NEW raw \in RawActors, NEW conv \in Conversations, NEW t \in Topics,
             NEW j \in Requests, AnswerStarts(c, raw, conv, t, j) \/ AnswerQueues(c, raw, conv, t, j)
      PROVE  EmployeeInv'
  BY <1>1, <1>5, AnswerStartsKeeps, AnswerQueuesKeeps
<1>6. ASSUME NEW raw \in RawActors, NEW j \in Requests, AnswerRefused(raw, j)
      PROVE  EmployeeInv'
  <2>1. UNCHANGED storeVars /\ actor' = actor /\ phase' = phase
    BY <1>6 DEF AnswerRefused, RunRefused
  <2> QED
    BY <1>4, <2>1
<1>7. ASSUME NEW c \in Calls, NEW o \in EndStates, AnswerEnds(c, o)
      PROVE  EmployeeInv'
  BY <1>1, <1>7, AnswerEndsKeeps
<1>8. ASSUME NEW id \in Threads, NEW authorized \in BOOLEAN, Feedback(id, authorized)
      PROVE  EmployeeInv'
  BY <1>1, <1>8, FeedbackKeeps
<1>9. ASSUME NEW id \in Threads, CloseSession(id)
      PROVE  EmployeeInv'
  BY <1>1, <1>9, CloseSessionKeeps
<1>10. ASSUME NEW i \in 1..Len(queue), QueueTimeout(i), UNCHANGED storeVars
       PROVE  EmployeeInv'
  <2> DEFINE x == queue[i]
  <2>1. x \in Calls /\ phase[x] = "queued"
    BY <1>2 DEF Bookkeeping
  <2>2. phase' = [phase EXCEPT ![x] = "QUEUE_TIMEOUT"] /\ actor' = actor
    BY <1>10 DEF QueueTimeout
  <2> HIDE DEF x
  <2>3. /\ \A d \in Calls : (phase'[d] = "running") = (phase[d] = "running")
        /\ \A d \in Calls : InFlight(d)' => InFlight(d)
    BY <1>2, <2>1, <2>2 DEF InFlight
  <2> QED
    BY <1>3, <1>10, <2>2, <2>3
<1>11. ASSUME Close, UNCHANGED storeVars
       PROVE  EmployeeInv'
  <2> DEFINE gone == {queue[i] : i \in 1..Len(queue)}
  <2>1. \A d \in gone : d \in Calls /\ phase[d] = "queued"
    BY <1>2 DEF Bookkeeping
  <2>2. /\ phase' = [d \in Calls |-> IF d \in gone THEN "RUNNER_CLOSED" ELSE phase[d]]
        /\ actor' = actor
    BY <1>11 DEF Close
  <2> HIDE DEF gone
  <2>3. /\ \A d \in Calls : (phase'[d] = "running") = (phase[d] = "running")
        /\ \A d \in Calls : InFlight(d)' => InFlight(d)
    BY <1>2, <2>1, <2>2 DEF InFlight
  <2> QED
    BY <1>3, <1>11, <2>2, <2>3
<1>12. ASSUME Tick, UNCHANGED storeVars
       PROVE  EmployeeInv'
  BY <1>4, <1>12 DEF Tick
<1>13. CASE UNCHANGED vars
  <2>1. UNCHANGED storeVars /\ actor' = actor /\ phase' = phase
    BY <1>13 DEF vars, runnerVars
  <2> QED
    BY <1>4, <2>1
<1> QED
  BY <1>5, <1>6, <1>7, <1>8, <1>9, <1>10, <1>11, <1>12, <1>13 DEF EmployeeNext

\* Requests of different actors in one conversation never share a session, and
\* those of one actor follow each other: for every capacity, expiry, limit and
\* mix of evictions, queueing and outcomes, a session is marked as working exactly
\* while an answer of its thread runs, no kept answer stands behind another
\* request's question, and the FAQ answers what it is filed under
\* (digital-employee.ts, #runAnswerLoop and recordFeedback).
THEOREM AnswersKeepApart == EmployeeSpec => []AnswersSound
<1>1. EmployeeInv => AnswersSound
  <2> SUFFICES ASSUME EmployeeInv PROVE AnswersSound
    OBVIOUS
  <2>1. SessionsInv(sessions, RunningCalls, thread) /\ faq \in Seq(GenuineFaqs)
    BY DEF EmployeeInv
  <2>2. WorkingIffAnswering
    BY <2>1 DEF WorkingIffAnswering, SessionsInv, RunningCalls
  <2>3. TranscriptPaired
    BY <2>1 DEF TranscriptPaired, SessionsInv, Paired
  <2>4. FaqGenuine
    <3> SUFFICES ASSUME NEW i \in 1..Len(faq)
                 PROVE  faq[i].answers = faq[i].question
      BY DEF FaqGenuine
    <3>1. faq[i] \in GenuineFaqs
      BY <2>1, ElementOfSeq
    <3> QED
      BY <3>1 DEF GenuineFaqs
  <2> QED
    BY <2>2, <2>3, <2>4 DEF AnswersSound
<1> QED
  BY <1>1, EmployeeInitInv, EmployeeStepInv, PTL DEF EmployeeSpec

\* The runner inside the employee is the runner: whatever the answer loops, the
\* feedback and the closing of sessions do, its queue, slots and maps only move as
\* module JobRunner says, so that what is proved of it above holds in the employee
\* (digital-employee.ts, answer() through JobRunner.run).
THEOREM RunnerWithinEmployee == EmployeeSpec => Spec
<1>1. EmployeeInit => Init
  BY DEF EmployeeInit
<1> QED
  BY <1>1, RunnerSteps, PTL DEF EmployeeSpec, Spec
=============================================================================
