------------------------------ MODULE RunnerLoop ------------------------------
(***************************************************************************)
(* The long-running runner process (runnerStart of                         *)
(* packages/core/src/runner-lifecycle.ts) and the outbox it drains         *)
(* (InMemoryOutbox of runner-durable-store.ts): events and receipts are    *)
(* appended at any time, the loop delivers them over an unreliable         *)
(* transport with retries, and stop() or an external signal ends it.       *)
(* Steps end at an await.                                                  *)
(***************************************************************************)
EXTENDS Integers, FiniteSets

CONSTANTS
  maxSize,        \* DURABLE_OUTBOX_MAX_SIZE
  maxRetries,     \* DURABLE_OUTBOX_MAX_RETRIES
  batchLimit,     \* the 32 entries a drain takes
  pollInterval,   \* RUNNER_POLL_BASE_INTERVAL_MS
  baseBackoff,    \* RUNNER_TRANSPORT_BASE_BACKOFF_MS
  maxFailures,    \* RUNNER_MAX_CONSECUTIVE_FAILURES
  Stoppers,       \* callers of stop()
  MaxAppends,     \* bound: entries appended
  MaxLoopClock    \* bound: polls go on until then

ASSUME LoopAssumption ==
  /\ maxSize \in Nat \ {0} /\ maxRetries \in Nat \ {0} /\ batchLimit \in Nat \ {0}
  /\ pollInterval \in Nat \ {0} /\ baseBackoff \in Nat \ {0} /\ maxFailures \in Nat \ {0}
  /\ MaxAppends \in Nat /\ MaxLoopClock \in Nat

VARIABLES
  now,
  entries,        \* #entries, by sequence: [status, retryCount, nextRetryAt]
  nextSequence,   \* #nextSequence
  pc,             \* where the loop is
  batch,          \* sequences still to be handled by this drain, the first in hand
  processStatus, consecutiveFailures, stopped,
  signal,         \* whether abortController has aborted
  stopper,        \* per caller of stop(): idle, waiting or resolved
  received,       \* the platform: sequences it has received
  attempts,       \* history: deliveries tried, per sequence
  streak          \* history: transport failures since the last success

vars == <<now, entries, nextSequence, pc, batch, processStatus,
          consecutiveFailures, stopped, signal, stopper, received,
          attempts, streak>>

outboxVars == <<entries, nextSequence>>
loopVars == <<pc, batch, processStatus, consecutiveFailures, attempts, streak>>

Statuses == {"pending", "inflight", "acknowledged", "dead"}
Unset == -1
NewEntry == [status |-> "pending", retryCount |-> 0, nextRetryAt |-> Unset]

----------------------------------------------------------------------------
(* The outbox.                                                             *)

\* pending(limit): what a drain takes, ordered by sequence.
IsEligible(en) ==
  \/ en.status = "pending"
  \/ en.status = "inflight" /\ en.nextRetryAt # Unset /\ en.nextRetryAt <= now
Pending ==
  LET all == {s \in DOMAIN entries : IsEligible(entries[s])}
  IN  {s \in all : Cardinality({x \in all : x < s}) < batchLimit}

\* The entry in hand.
InHand == CHOOSE s \in batch : \A x \in batch : s <= x

IsSettled(en) == en.status \in {"acknowledged", "dead"}

Updated(s, f(_)) ==
  [x \in DOMAIN entries |-> IF x = s THEN f(entries[x]) ELSE entries[x]]

MarkInflight(s) ==
  Updated(s, LAMBDA en : IF IsSettled(en) THEN en ELSE [en EXCEPT !.status = "inflight"])

\* The variant gives up an entry without counting its attempts.
MarkRetryUncounted(s) ==
  Updated(s, LAMBDA en :
    IF IsSettled(en) THEN en
    ELSE [en EXCEPT !.status = "pending", !.nextRetryAt = now + baseBackoff * 2^en.retryCount])
MarkRetry(s) ==
  Updated(s, LAMBDA en :
    IF IsSettled(en) THEN en
    ELSE IF en.retryCount + 1 >= maxRetries
      THEN [en EXCEPT !.status = "dead", !.retryCount = @ + 1]
      ELSE [en EXCEPT !.status = "pending", !.retryCount = @ + 1,
                      !.nextRetryAt = now + baseBackoff * 2^en.retryCount])

Ack(s) == Updated(s, LAMBDA en : [en EXCEPT !.status = "acknowledged"])

\* compact(), with a variant that also drops what is on its way.
Only(S) == [s \in S |-> entries[s]]
CompactedHard == Only({s \in DOMAIN entries : entries[s].status = "pending"})
Compacted == Only({s \in DOMAIN entries : ~IsSettled(entries[s])})

----------------------------------------------------------------------------
\* runnerStart: the loop has set its status and is about to drain.
Init ==
  /\ now = 0 /\ entries = [s \in {} |-> NewEntry] /\ nextSequence = 1
  /\ pc = "drain" /\ batch = {} /\ processStatus = "idle"
  /\ consecutiveFailures = 0 /\ stopped = FALSE /\ signal = FALSE
  /\ stopper = [s \in Stoppers |-> "idle"]
  /\ received = {} /\ attempts = [s \in 1..MaxAppends |-> 0] /\ streak = 0

\* append() by the producer of events and receipts; at capacity it throws.
\* (Bound: appended while the clock can serve it.)
HasRoom == Cardinality(DOMAIN entries) < maxSize

AppendEntry ==
  /\ nextSequence <= MaxAppends
  /\ now + pollInterval * maxRetries * MaxAppends <= MaxLoopClock
  /\ HasRoom
  /\ entries' = [s \in DOMAIN entries \cup {nextSequence} |->
                   IF s = nextSequence THEN NewEntry ELSE entries[s]]
  /\ nextSequence' = nextSequence + 1
  /\ UNCHANGED <<now, loopVars, stopped, signal, stopper, received>>

Compact ==
  /\ entries' = Compacted
  /\ UNCHANGED <<now, nextSequence, loopVars, stopped, signal, stopper, received>>

\* The loop ends: setStatus("stopped"), and everyone awaiting `done` resolves.
LoopEnds ==
  /\ pc' = "ended" /\ batch' = {} /\ processStatus' = "stopped"
  /\ stopper' = [s \in Stoppers |-> IF stopper[s] = "waiting" THEN "resolved" ELSE stopper[s]]

\* drainOutbox takes its batch; with nothing to do the loop goes to sleep.
Drain ==
  /\ pc = "drain"
  /\ batch' = Pending
  /\ pc' = IF Pending = {} THEN "sleep" ELSE "next"
  /\ UNCHANGED <<now, outboxVars, processStatus, consecutiveFailures, attempts, streak,
                 stopped, signal, stopper, received>>

\* The first of the batch is marked in flight and sent; an abort ends the drain.
SendNext ==
  /\ pc = "next"
  /\ IF signal \/ batch = {}
       THEN pc' = "sleep" /\ batch' = {} /\ UNCHANGED entries
       ELSE pc' = "sending" /\ entries' = MarkInflight(InHand) /\ UNCHANGED batch
  /\ UNCHANGED <<now, nextSequence, processStatus, consecutiveFailures, attempts, streak,
                 stopped, signal, stopper, received>>

\* The transport answers: the platform has the entry, and it is acknowledged.
SendOk ==
  /\ pc = "sending"
  /\ received' = received \cup {InHand}
  /\ entries' = Ack(InHand)
  /\ batch' = batch \ {InHand} /\ pc' = "next"
  /\ consecutiveFailures' = 0 /\ streak' = 0
  /\ attempts' = [attempts EXCEPT ![InHand] = @ + 1]
  /\ UNCHANGED <<now, nextSequence, processStatus, stopped, signal, stopper>>

\* The transport fails; the platform may have received the entry all the same.
SendFails(lost) ==
  /\ pc = "sending"
  /\ received' = IF lost THEN received ELSE received \cup {InHand}
  /\ entries' = MarkRetry(InHand)
  /\ batch' = batch \ {InHand} /\ pc' = "next"
  /\ attempts' = [attempts EXCEPT ![InHand] = @ + 1]
  /\ streak' = IF streak < maxFailures THEN streak + 1 ELSE streak
  /\ UNCHANGED <<now, nextSequence, processStatus, consecutiveFailures, stopped,
                 signal, stopper>>

\* The poll timer: the degraded check, then the loop's own condition.
StatusAfterPoll ==
  IF consecutiveFailures >= maxFailures THEN "degraded"
  ELSE IF processStatus = "degraded" /\ consecutiveFailures = 0 THEN "idle"
  ELSE processStatus

PollTimer ==
  /\ pc = "sleep" /\ ~signal /\ now + pollInterval <= MaxLoopClock
  /\ now' = now + pollInterval
  /\ processStatus' = StatusAfterPoll
  /\ pc' = "drain"
  /\ UNCHANGED <<outboxVars, batch, consecutiveFailures, attempts, streak, stopped, signal,
                 stopper, received>>

\* The sleep is cut short, or not begun, because of the abort.
Wake ==
  /\ pc = "sleep" /\ signal
  /\ LoopEnds
  /\ UNCHANGED <<now, outboxVars, consecutiveFailures, attempts, streak, stopped, signal, received>>

\* The embedder's signal.
ExternalAbort ==
  /\ ~signal /\ signal' = TRUE
  /\ UNCHANGED <<now, outboxVars, loopVars, stopped, stopper, received>>

\* stop(): the second caller returns at once; the first sets the status, aborts
\* and waits for the loop.
Stop(s) ==
  /\ stopper[s] = "idle"
  /\ \/ /\ stopped /\ stopper' = [stopper EXCEPT ![s] = "resolved"]
        /\ UNCHANGED <<stopped, signal, processStatus>>
     \/ /\ ~stopped /\ stopped' = TRUE /\ signal' = TRUE
        /\ processStatus' = "stopping"
        /\ stopper' = [stopper EXCEPT ![s] = IF pc = "ended" THEN "resolved" ELSE "waiting"]
  /\ UNCHANGED <<now, outboxVars, pc, batch, consecutiveFailures, attempts, streak, received>>

LoopStep ==
  \/ Drain \/ SendNext \/ SendOk \/ (\E lost \in BOOLEAN : SendFails(lost)) \/ PollTimer \/ Wake

Next ==
  \/ AppendEntry \/ Compact \/ LoopStep \/ ExternalAbort
  \/ \E s \in Stoppers : Stop(s)

Spec == Init /\ [][Next]_vars

\* The loop goes on, its timer fires and every transport call is answered.
LoopFairness == WF_vars(LoopStep)

FairSpec == Spec /\ LoopFairness

----------------------------------------------------------------------------
TypeOK ==
  /\ now \in Nat /\ nextSequence \in Nat /\ Cardinality(DOMAIN entries) <= maxSize
  /\ \A s \in DOMAIN entries :
       entries[s].status \in Statuses /\ entries[s].retryCount \in 0..maxRetries
  /\ pc \in {"drain", "next", "sending", "sleep", "ended"}
  /\ processStatus \in {"idle", "degraded", "stopping", "stopped"}

StatusOf(s) == IF s \in DOMAIN entries THEN entries[s].status ELSE "absent"

\* An entry is given up, or leaves the outbox, only after the platform received
\* it or all its attempts were really made: not by compaction in the middle of
\* a delivery, nor by a lost answer.
NoEntryLost ==
  \A s \in 1..(nextSequence - 1) :
    StatusOf(s) \in {"absent", "acknowledged", "dead"} =>
      s \in received \/ attempts[s] = maxRetries

\* Stopping, however it interleaves with a delivery, leaves no entry in flight:
\* pending() would never return it again.
NothingInflightAtRest ==
  pc \in {"drain", "sleep", "ended"} =>
    \A s \in DOMAIN entries : entries[s].status # "inflight"

\* With the process kept running, every appended entry is delivered or dead.
EverySettles ==
  \A s \in 1..MaxAppends :
    []<>(signal \/ StatusOf(s) \in {"acknowledged", "dead", "absent"})

\* A stop or an abort ends the loop.
StopEnds == []<>(~signal \/ pc = "ended")

\* "Request graceful stop. Resolves when the process is fully stopped."
StopResolvesStopped ==
  \A s \in Stoppers : stopper[s] = "resolved" => processStatus = "stopped"

\* "ISO-8601 timestamp of next eligible retry": no delivery before it.
RetryNotBefore ==
  pc = "sending" /\ InHand \in DOMAIN entries => entries[InHand].nextRetryAt <= now

\* "Maximum consecutive transport failures before entering degraded mode."
DegradedAfterFailures ==
  pc = "drain" /\ now > 0 /\ streak >= maxFailures => processStatus # "idle"

\* The outbox stays within its size, loses nothing and forgets nothing, stops
\* included.
OutboxSound == TypeOK /\ NoEntryLost /\ NothingInflightAtRest

\* The loop gets through its entries, and ends when it is told to.
OutboxProgress == EverySettles /\ StopEnds
=============================================================================
