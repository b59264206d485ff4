------------------------------ MODULE JobRunner ------------------------------
(***************************************************************************)
(* The bounded in-process job runner (packages/core/src/job-runner.ts):    *)
(* admission of run(identity, task) calls, the bounded FIFO queue with its *)
(* per-entry timer, the concurrency limit, request deduplication, the      *)
(* per-actor cooldown and close().  All methods run to completion on one   *)
(* event loop, so each is one action; a task is everything between its     *)
(* start and the `finally` of #start.                                      *)
(***************************************************************************)
EXTENDS Integers, Sequences, FiniteSets

CONSTANTS
  RawActors,         \* actor ids as callers pass them
  Blank,             \* the raw actor id that trims to the empty string
  Anonymous,         \* what #validateIdentity turns a blank id into
  JobIds, NoJob,     \* normalised job ids, and the absent one
  maxConcurrent, maxQueueSize, queueTimeout, cooldown, dedupeWindow,
  maxSeenJobs, maxTrackedActors,
  MaxCalls,          \* bound: accepted run() calls of a behaviour
  MaxClock           \* bound: clock readings

ASSUME LimitsAssumption ==
  /\ maxConcurrent \in Nat \ {0} /\ maxQueueSize \in Nat
  /\ queueTimeout \in Nat \ {0} /\ cooldown \in Nat /\ dedupeWindow \in Nat
  /\ maxSeenJobs \in Nat \ {0} /\ maxTrackedActors \in Nat \ {0}
  /\ MaxCalls \in Nat /\ MaxClock \in Nat

ASSUME IdentityAssumption == NoJob \notin JobIds

VARIABLES
  now,                 \* the injected clock
  running,             \* #running
  runningActors,       \* #runningActors
  queuedActors,        \* #queuedActors
  queue,               \* #queue, a sequence of calls
  seenJobs,            \* #seenJobs: job id -> map entry
  lastStartedByActor,  \* #lastStartedByActor: actor -> map entry
  inserts,             \* insertions so far: what orders the entries of a Map
  closed,              \* #closed
  phase,               \* per call: not made yet, queued, running or its outcome
  actor, job,          \* per call: the normalised identity
  acceptedAt,          \* per call: when it was recorded (its timer runs from here)
  startedAt            \* per call: when its task started

runnerVars == <<now, running, runningActors, queuedActors, queue, seenJobs,
                lastStartedByActor, inserts, closed, phase, actor, job,
                acceptedAt, startedAt>>

Calls  == 1..MaxCalls
Actors == (RawActors \ {Blank}) \cup {Anonymous}
Absent == -1                     \* a call has not been accepted / started

\* A Map entry: its value and its place in the iteration order.
NoEntry == [at |-> 0, n |-> 0]
Entry   == [at : Nat, n : Nat]
Live(map) == {k \in DOMAIN map : map[k].n > 0}

Phases == {"new", "queued", "running", "settled", "QUEUE_TIMEOUT", "RUNNER_CLOSED"}

----------------------------------------------------------------------------
(* Helpers of the class.                                                   *)

\* #validateIdentity: a blank actor id becomes the shared anonymous actor.
ActorOf(raw) == IF raw = Blank THEN Anonymous ELSE raw

\* #prune on one of the two maps: entries whose age reached the window go.
Pruned(map, window) ==
  [k \in DOMAIN map |->
     IF map[k].n > 0 /\ now - map[k].at >= window THEN NoEntry ELSE map[k]]

\* #setBounded for the entries `put`: delete, set at the end of the iteration
\* order, and evict from its front until at most `max` are left.
\* The variant evicts once the map is full rather than once it is over-full.
SetBoundedTight(map, put, max) ==
  LET new == [k \in DOMAIN map |-> IF k \in DOMAIN put THEN put[k] ELSE map[k]]
      younger(k) == {y \in Live(new) : new[y].n > new[k].n}
  IN  [k \in DOMAIN map |->
         IF Cardinality(younger(k)) < max - 1 THEN new[k] ELSE NoEntry]

SetBounded(map, put, max) ==
  LET new == [k \in DOMAIN map |-> IF k \in DOMAIN put THEN put[k] ELSE map[k]]
      younger(k) == {y \in Live(new) : new[y].n > new[k].n}
  IN  [k \in DOMAIN map |->
         IF Cardinality(younger(k)) < max THEN new[k] ELSE NoEntry]

\* #recordJob.
RecordJob(map, j) ==
  IF j # NoJob /\ dedupeWindow > 0
    THEN SetBounded(map, [k \in {j} |-> [at |-> now, n |-> inserts + 1]], maxSeenJobs)
    ELSE map

\* The cooldown bookkeeping of #start for the calls started, in that order.
RecordStarts(map, started, who) ==
  LET A == {who[started[i]] : i \in 1..Len(started)}
      place(a) == CHOOSE i \in 1..Len(started) : who[started[i]] = a
  IN  IF cooldown > 0
        THEN SetBounded(map, [a \in A |-> [at |-> now, n |-> inserts + 1 + place(a)]],
                        maxTrackedActors)
        ELSE map

\* The three refusals of #assertAccepted, in its order; "" when accepted.
IsDuplicate(j, seen) ==
  /\ j # NoJob /\ dedupeWindow > 0
  /\ seen[j].n > 0 /\ now - seen[j].at < dedupeWindow

\* The variant forgets actors whose request is already running.
IsBusyQueued(a) == a \in queuedActors
IsBusy(a) == a \in runningActors \cup queuedActors

IsCooling(a, last) ==
  cooldown > 0 /\ last[a].n > 0 /\ now - last[a].at < cooldown

Refusal(a, j, seen, last) ==
  IF IsDuplicate(j, seen) THEN "DUPLICATE_REQUEST"
  ELSE IF IsBusy(a) THEN "ACTOR_BUSY"
  ELSE IF IsCooling(a, last) THEN "RATE_LIMITED"
  ELSE ""

\* The capacity test of run().
QueueFull == Len(queue) >= maxQueueSize

\* How many queued entries the loop of #drain starts once `busy` tasks run.
\* The variant leaves the last free slot unused.
DrainCountShort(busy) ==
  IF closed \/ busy + 1 >= maxConcurrent THEN 0
  ELSE IF Len(queue) <= maxConcurrent - busy THEN Len(queue)
  ELSE maxConcurrent - busy

DrainCount(busy) ==
  IF closed \/ busy >= maxConcurrent THEN 0
  ELSE IF Len(queue) <= maxConcurrent - busy THEN Len(queue)
  ELSE maxConcurrent - busy

----------------------------------------------------------------------------
Init ==
  /\ now = 0 /\ running = 0 /\ inserts = 0 /\ closed = FALSE /\ queue = <<>>
  /\ runningActors = {} /\ queuedActors = {}
  /\ seenJobs = [j \in JobIds |-> NoEntry]
  /\ lastStartedByActor = [a \in Actors |-> NoEntry]
  /\ phase = [c \in Calls |-> "new"]
  /\ actor = [c \in Calls |-> Anonymous]
  /\ job = [c \in Calls |-> NoJob]
  /\ acceptedAt = [c \in Calls |-> Absent]
  /\ startedAt = [c \in Calls |-> Absent]

\* Calls are numbered in the order they are accepted.
IsNextCall(c) == phase[c] = "new" /\ \A d \in 1..(c - 1) : phase[d] # "new"

\* run() refused by #assertAccepted or by the full queue: all it leaves is the
\* effect of #prune.  A refusal before that (closed runner, a task or identity
\* that is not one) leaves nothing and needs no action.
RunRefused(raw, j) ==
  LET seen == Pruned(seenJobs, dedupeWindow)
      last == Pruned(lastStartedByActor, cooldown)
  IN  /\ ~closed
      /\ \/ Refusal(ActorOf(raw), j, seen, last) # ""
         \/ running >= maxConcurrent /\ QueueFull
      /\ seenJobs' = seen
      /\ lastStartedByActor' = last
      /\ UNCHANGED <<now, running, runningActors, queuedActors, queue, inserts,
                     closed, phase, actor, job, acceptedAt, startedAt>>

Identify(c, a, j) ==
  /\ actor' = [actor EXCEPT ![c] = a]
  /\ job' = [job EXCEPT ![c] = j]
  /\ acceptedAt' = [acceptedAt EXCEPT ![c] = now]

\* run() with a free slot: recordJob and start.
RunStarts(c, raw, j) ==
  LET a    == ActorOf(raw)
      seen == Pruned(seenJobs, dedupeWindow)
      last == Pruned(lastStartedByActor, cooldown)
  IN  /\ IsNextCall(c) /\ ~closed
      /\ Refusal(a, j, seen, last) = ""
      /\ running < maxConcurrent
      /\ Identify(c, a, j)
      /\ seenJobs' = RecordJob(seen, j)
      /\ lastStartedByActor' = RecordStarts(last, <<c>>, [actor EXCEPT ![c] = a])
      /\ inserts' = inserts + 2
      /\ running' = running + 1
      /\ runningActors' = runningActors \cup {a}
      /\ phase' = [phase EXCEPT ![c] = "running"]
      /\ startedAt' = [startedAt EXCEPT ![c] = now]
      /\ UNCHANGED <<now, queuedActors, queue, closed>>

\* run() with every slot taken and room in the queue: recordJob and #enqueue,
\* which arms the entry's timer (bound: only while the clock can still reach it).
RunEnqueues(c, raw, j) ==
  LET a    == ActorOf(raw)
      seen == Pruned(seenJobs, dedupeWindow)
      last == Pruned(lastStartedByActor, cooldown)
  IN  /\ IsNextCall(c) /\ ~closed
      /\ Refusal(a, j, seen, last) = ""
      /\ running >= maxConcurrent /\ ~QueueFull
      /\ now + queueTimeout <= MaxClock
      /\ seenJobs' = RecordJob(seen, j)
      /\ lastStartedByActor' = last
      /\ inserts' = inserts + 1
      /\ queue' = Append(queue, c)
      /\ queuedActors' = queuedActors \cup {a}
      /\ phase' = [phase EXCEPT ![c] = "queued"]
      /\ Identify(c, a, j)
      /\ UNCHANGED <<now, running, runningActors, closed, startedAt>>

\* A task settles: the `finally` of #start releases its slot and drains.
Finish(c) ==
  LET k    == DrainCount(running - 1)
      next == {queue[i] : i \in 1..k}
      A    == {actor[d] : d \in next}
  IN  /\ phase[c] = "running"
      /\ running' = running - 1 + k
      /\ runningActors' = (runningActors \ {actor[c]}) \cup A
      /\ queuedActors' = queuedActors \ A
      /\ queue' = SubSeq(queue, k + 1, Len(queue))
      /\ lastStartedByActor' = RecordStarts(lastStartedByActor, SubSeq(queue, 1, k), actor)
      /\ inserts' = inserts + 1 + k
      /\ phase' = [d \in Calls |-> IF d = c THEN "settled"
                                   ELSE IF d \in next THEN "running" ELSE phase[d]]
      /\ startedAt' = [d \in Calls |-> IF d \in next THEN now ELSE startedAt[d]]
      /\ UNCHANGED <<now, seenJobs, closed, actor, job, acceptedAt>>

\* The timer of the entry at position i fires before the entry was drained.
\* The variant takes index 0 for "not found".
QueueTimeoutNotHead(i) ==
  /\ i \in 2..Len(queue)
  /\ now >= acceptedAt[queue[i]] + queueTimeout
  /\ queue' = SubSeq(queue, 1, i - 1) \o SubSeq(queue, i + 1, Len(queue))
  /\ queuedActors' = queuedActors \ {actor[queue[i]]}
  /\ phase' = [phase EXCEPT ![queue[i]] = "QUEUE_TIMEOUT"]
  /\ UNCHANGED <<now, running, runningActors, seenJobs, lastStartedByActor,
                 inserts, closed, actor, job, acceptedAt, startedAt>>

QueueTimeout(i) ==
  /\ i \in 1..Len(queue)
  /\ now >= acceptedAt[queue[i]] + queueTimeout
  /\ queue' = SubSeq(queue, 1, i - 1) \o SubSeq(queue, i + 1, Len(queue))
  /\ queuedActors' = queuedActors \ {actor[queue[i]]}
  /\ phase' = [phase EXCEPT ![queue[i]] = "QUEUE_TIMEOUT"]
  /\ UNCHANGED <<now, running, runningActors, seenJobs, lastStartedByActor,
                 inserts, closed, actor, job, acceptedAt, startedAt>>

\* close(): rejects every queued entry; running tasks go on.
Close ==
  LET gone == {queue[i] : i \in 1..Len(queue)}
  IN  /\ ~closed
      /\ closed' = TRUE
      /\ queue' = <<>>
      /\ queuedActors' = queuedActors \ {actor[d] : d \in gone}
      /\ phase' = [d \in Calls |-> IF d \in gone THEN "RUNNER_CLOSED" ELSE phase[d]]
      /\ UNCHANGED <<now, running, runningActors, seenJobs, lastStartedByActor,
                     inserts, actor, job, acceptedAt, startedAt>>

Tick ==
  /\ now < MaxClock
  /\ now' = now + 1
  /\ UNCHANGED <<running, runningActors, queuedActors, queue, seenJobs,
                 lastStartedByActor, inserts, closed, phase, actor, job, acceptedAt, startedAt>>

Next ==
  \/ \E c \in Calls, raw \in RawActors, j \in JobIds \cup {NoJob} :
       \/ RunStarts(c, raw, j)
       \/ RunEnqueues(c, raw, j)
  \/ \E raw \in RawActors, j \in JobIds \cup {NoJob} : RunRefused(raw, j)
  \/ \E c \in Calls : Finish(c)
  \/ \E i \in 1..Len(queue) : QueueTimeout(i)
  \/ Close
  \/ Tick

Spec == Init /\ [][Next]_runnerVars

\* Time passes and due timers are served; nothing makes a task finish.
TimerFairness ==
  /\ WF_runnerVars(Tick)
  /\ WF_runnerVars(\E i \in 1..Len(queue) : QueueTimeout(i))

FairSpec == Spec /\ TimerFairness

----------------------------------------------------------------------------
TypeOK ==
  /\ now \in 0..MaxClock
  /\ running \in Nat
  /\ runningActors \in SUBSET Actors /\ queuedActors \in SUBSET Actors
  /\ queue \in Seq(Calls) /\ Len(queue) <= maxQueueSize
  /\ seenJobs \in [JobIds -> Entry]
  /\ lastStartedByActor \in [Actors -> Entry]
  /\ inserts \in Nat
  /\ closed \in BOOLEAN
  /\ phase \in [Calls -> Phases]
  /\ actor \in [Calls -> Actors]
  /\ job \in [Calls -> JobIds \cup {NoJob}]
  /\ acceptedAt \in [Calls -> Nat \cup {Absent}]
  /\ startedAt \in [Calls -> Nat \cup {Absent}]

InFlight(c) == phase[c] \in {"queued", "running"}

\* The queue holds exactly the queued calls, each once, and the two actor sets
\* mirror the calls in flight; a closed runner has nothing queued.
Bookkeeping ==
  /\ \A i \in 1..Len(queue) : phase[queue[i]] = "queued"
  /\ \A c \in Calls : phase[c] = "queued" => \E i \in 1..Len(queue) : queue[i] = c
  /\ \A i, k \in 1..Len(queue) : queue[i] = queue[k] => i = k
  /\ runningActors = {actor[c] : c \in {x \in Calls : phase[x] = "running"}}
  /\ queuedActors = {actor[c] : c \in {x \in Calls : phase[x] = "queued"}}
  /\ closed => queue = <<>>

\* "This actor already has a request in progress": whatever mix of direct
\* starts, drains, timeouts and closing happened, no actor ever has two
\* requests queued or running.
ActorExclusive ==
  \A c, d \in Calls : c # d /\ InFlight(c) /\ InFlight(d) => actor[c] # actor[d]

\* The slot counter is exact and within the limit, and no slot idles while a
\* request waits: the only wake-up of the queue is the `finally` of a task.
SlotsConserved ==
  /\ running = Cardinality({c \in Calls : phase[c] = "running"})
  /\ running <= maxConcurrent
  /\ queue # <<>> => running = maxConcurrent

\* A job id is admitted twice inside the dedupe window only when at least
\* maxSeenJobs other ids were recorded in between (the bounded map forgot it).
DedupeWithinCapacity ==
  \A c, d \in Calls :
    /\ c < d /\ acceptedAt[c] # Absent /\ acceptedAt[d] # Absent
    /\ job[c] = job[d] /\ job[c] # NoJob
    /\ acceptedAt[d] - acceptedAt[c] < dedupeWindow
    => Cardinality({job[e] : e \in {x \in (c + 1)..(d - 1) : acceptedAt[x] # Absent}}
                     \ {job[c], NoJob}) >= maxSeenJobs

\* Although the cooldown is only tested on admission and a start may come from
\* the queue much later, two starts of one actor are a cooldown apart, unless
\* maxTrackedActors other actors started in between.
CooldownWithinCapacity ==
  \A c, d \in Calls :
    /\ c < d /\ startedAt[c] # Absent /\ startedAt[d] # Absent
    /\ actor[c] = actor[d]
    /\ startedAt[d] - startedAt[c] < cooldown
    => Cardinality({actor[e] : e \in {x \in (c + 1)..(d - 1) : startedAt[x] # Absent}}
                     \ {actor[c]}) >= maxTrackedActors

\* A queued request is started, timed out or rejected, even if no running
\* task ever finishes.
QueuedLeaves == \A c \in Calls : []<>(phase[c] # "queued")

\* The bounded maps of admissions (#seenJobs) and starts (#lastStartedByActor)
\* forget early only for want of room, and the queue keeps to its own.
MapsWithinCapacity == TypeOK /\ DedupeWithinCapacity /\ CooldownWithinCapacity
=============================================================================
