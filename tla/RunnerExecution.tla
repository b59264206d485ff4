--------------------------- MODULE RunnerExecution ---------------------------
(***************************************************************************)
(* One-shot execution of platform-signed tasks on a publisher's machine:   *)
(* executeOneShotRunnerTask (apps/cli/runner-executor.ts) with its replay  *)
(* guard (runner-replay-guard.ts, or the durable one of                    *)
(* runner-durable-store.ts), the lease of RunnerLease, and the host run it *)
(* wraps (runEmployeePackage of apps/cli/agent-run.ts).  Steps end at an   *)
(* await.  What the executor hands back is judged by the bundle            *)
(* verification of the platform side (runner-protocol.ts).                 *)
(***************************************************************************)
EXTENDS RunnerLease, Sequences, SequencesExt

CONSTANTS
  Executions,   \* calls of executeOneShotRunnerTask
  Followed,     \* bound: the executions followed past their claim
  SignedTasks,  \* [id, nonce, fencing, issuedAt, expiresAt, leaseExpiry, own]
  Guards,       \* replay guards to try: [durable, capacity]
  skew,         \* MAX_RUNNER_CLOCK_SKEW_MS
  maxEvents,    \* the 1024 events an execution may record
  EventTypes,   \* what a host reports before its terminal event
  Tools,        \* ... and which of it is the completion of a tool, by name
  maxActions,   \* the 128 tool names a receipt may count
  Genesis       \* RUNNER_EVENT_GENESIS_DIGEST

\* validateRunnerTask, and the one task the lease state matches.
ValidTask(t) ==
  /\ t.fencing \in Nat \ {0} /\ t.issuedAt \in Nat /\ t.own \in BOOLEAN
  /\ t.leaseExpiry \in Nat /\ t.expiresAt \in Nat /\ t.leaseExpiry <= t.expiresAt
  /\ t.own => t.expiresAt = taskExpiresAt

ASSUME TaskAssumption ==
  /\ \A t \in SignedTasks : ValidTask(t)
  /\ \A g \in Guards : g.durable \in BOOLEAN /\ g.capacity \in Nat \ {0}
  /\ skew \in Nat /\ maxEvents \in Nat /\ maxActions \in Nat
  /\ Tools \subseteq EventTypes

VARIABLES
  guard,      \* the replay guard in use
  nonces,     \* the guard's table of consumed nonces: [key, expiry]
  guardRead,  \* the in-memory guard's last clock reading
  claims,     \* tasks whose claim was granted, in that order: the fencing
              \* watermarks of one guard, the attempts table of the other
  run         \* per execution: its local variables

execVars == <<guard, nonces, guardRead, claims, run>>
vars == <<clockVars, leaseVars, execVars>>

\* The locals of a call: the task, whether it was given the lease state, the
\* last reading of its monotonicClock, startedAt, when its own timer fires and
\* whether its own controller has aborted (without lease state), the host's
\* terminal event, the event chain, the outcome so far, what it returned.
NoTask == [id |-> "none"]
NoBundle == [status |-> "none"]
IdleRun == [pc |-> "idle", task |-> NoTask, leased |-> FALSE, readAt |-> 0,
            startedAt |-> 0, abortAt |-> NoTimer, signalled |-> FALSE,
            terminal |-> "none", events |-> <<>>, outcome |-> "none",
            bundle |-> NoBundle]

\* A call that rejected, or died with its process, leaves nothing behind.
Gone(why) == [IdleRun EXCEPT !.pc = why]

Becomes(e, r) == run' = [run EXCEPT ![e] = r]

----------------------------------------------------------------------------
(* Replay guards.  A table key is what makes two claims collide: the nonce *)
(* of this Runner in memory, task and nonce in the durable store.          *)

Key(t) == IF guard.durable THEN <<t.id, t.nonce>> ELSE <<t.nonce>>

\* Entries still held when the in-memory guard has dropped the expired ones;
\* the durable store never drops any.
Held == {n \in nonces : guard.durable \/ n.expiry > wall}

IsFenced(t) == \E i \in 1..Len(claims) : claims[i].id = t.id /\ claims[i].fencing > t.fencing

\* The in-memory guard is full: its nonces, or its task watermarks.
IsFull(t) ==
  LET known == {claims[i].id : i \in 1..Len(claims)}
  IN  /\ ~guard.durable
      /\ \/ Cardinality(Held) >= guard.capacity
         \/ t.id \notin known /\ Cardinality(known) >= guard.capacity

\* claim(): true, false, or it throws (clock or capacity).
\* The variant forgets the fencing tokens.
ClaimResultUnfenced(t) ==
  IF ~guard.durable /\ wall < guardRead THEN "throws"
  ELSE IF t.expiresAt <= wall \/ (\E n \in Held : n.key = Key(t)) THEN "false"
  ELSE IF IsFull(t) THEN "throws"
  ELSE "true"

ClaimResult(t) ==
  IF ~guard.durable /\ wall < guardRead THEN "throws"
  ELSE IF t.expiresAt <= wall \/ (\E n \in Held : n.key = Key(t)) \/ IsFenced(t) THEN "false"
  ELSE IF IsFull(t) THEN "throws"
  ELSE "true"

----------------------------------------------------------------------------
(* Events and receipts, runner-protocol.ts.  Digests and signatures are    *)
(* ideal: the digest of a record is the record, and nobody but the Runner  *)
(* makes its receipts.                                                     *)

\* What task, event and receipt have in common (the lease is not part of it).
TaskIdentity(t) == <<t.id, t.fencing>>

LastDigest(events) == IF events = <<>> THEN Genesis ELSE Last(events).digest
Body(ev) == [task |-> ev.task, sequence |-> ev.sequence, type |-> ev.type, at |-> ev.at,
             previous |-> ev.previous]
Sealed(ev) == [task |-> ev.task, sequence |-> ev.sequence, type |-> ev.type, at |-> ev.at,
               previous |-> ev.previous, digest |-> Body(ev)]

ChainVerifies(events, identity) ==
  /\ Len(events) <= maxEvents
  /\ \A i \in 1..Len(events) :
       /\ events[i].digest = Body(events[i])
       /\ events[i].sequence = i /\ events[i].task = identity
       /\ events[i].previous = LastDigest(SubSeq(events, 1, i - 1))

ReceiptValid(rc) ==
  /\ rc.startedAt <= rc.completedAt
  /\ rc.eventCount = 0 <=> rc.finalDigest = Genesis
  /\ Cardinality(rc.actions) <= maxActions

----------------------------------------------------------------------------
(* The executor.                                                           *)

ExecInit ==
  /\ LeaseInit
  /\ guard \in Guards /\ nonces = {} /\ guardRead = 0 /\ claims = <<>>
  /\ run = [e \in Executions |-> IdleRun]

\* Its own clock, the lease expiry and the abort signal it goes by.
ReadOk(r) == wall >= r.readAt
LeaseExpiry(r) == IF r.leased THEN envelope.expiry ELSE r.task.leaseExpiry
Aborted(r) == IF r.leased THEN aborted ELSE r.signalled

\* An envelope is handed over; the platform key is being resolved.
Submit(e, t, withLease) ==
  /\ run[e].pc = "idle"
  /\ Becomes(e, [IdleRun EXCEPT !.pc = "keys", !.task = t, !.leased = withLease])
  /\ UNCHANGED <<leaseVars, guard, nonces, guardRead, claims>>

\* The platform key cannot be resolved or the signature does not verify.
KeyUnavailable(e) ==
  /\ run[e].pc = "keys" /\ Becomes(e, Gone("refused"))
  /\ UNCHANGED <<leaseVars, guard, nonces, guardRead, claims>>

\* The verified task passes the checks of identity and time, and of the lease.
IsTimely(r) ==
  (r.leased => r.task.own) /\ r.task.issuedAt <= wall + skew /\ wall < r.task.expiresAt
IsAdmissible(r) ==
  IsTimely(r) /\ IF r.leased THEN IsActive ELSE wall < r.task.leaseExpiry - margin

\* The key is there: checks, then the claim.  Failing any check rejects the
\* call before the nonce is consumed.  (A lease found to be over is expired.)
Admit(e) ==
  LET r == run[e]
      result == ClaimResult(r.task)
  IN
  /\ r.pc = "keys"
  /\ IF r.leased /\ IsTimely(r) THEN AssertActive ELSE UNCHANGED leaseVars
  /\ \/ /\ IsAdmissible(r) /\ result = "true"
        /\ nonces' = Held \cup {[key |-> Key(r.task), expiry |-> r.task.expiresAt]}
        /\ claims' = Append(claims, r.task)
        /\ guardRead' = wall
        /\ Becomes(e, [r EXCEPT !.pc = "claimed", !.readAt = wall])
     \/ /\ IsAdmissible(r) /\ result # "true"
        /\ IF wall >= guardRead THEN nonces' = Held /\ guardRead' = wall
                                ELSE UNCHANGED <<nonces, guardRead>>
        /\ Becomes(e, Gone("refused")) /\ UNCHANGED claims
     \/ /\ ~IsAdmissible(r) /\ Becomes(e, Gone("refused"))
        /\ UNCHANGED <<nonces, guardRead, claims>>
  /\ UNCHANGED guard

\* Steps of one execution that touch neither the guard nor the lease.
Alone(e, from, r) ==
  /\ run[e].pc \in from /\ Becomes(e, r)
  /\ UNCHANGED <<leaseVars, guard, nonces, guardRead, claims>>

\* After the claim the clock is read; a clock that went back loses the task.
Claimed(e) ==
  e \in Followed /\ Alone(e, {"claimed"},
    IF ReadOk(run[e])
      THEN [run[e] EXCEPT !.pc = "package", !.readAt = wall, !.startedAt = wall]
      ELSE Gone("lost"))

Decided(r, o) == [r EXCEPT !.pc = "cleanup", !.outcome = o, !.abortAt = NoTimer]

\* The local package is unavailable, is another one, or cannot take the input.
PackageUnusable(e) == Alone(e, {"package"}, Decided(run[e], "failed"))

RunDeadline(r) ==
  LET end == LeaseExpiry(r) - margin
  IN  IF r.task.expiresAt <= end THEN r.task.expiresAt ELSE end

\* The package is sealed: start the host before the deadline, or give up.
PackageReady(e) ==
  LET r == run[e]
      s == [r EXCEPT !.readAt = wall, !.startedAt = wall]
  IN  Alone(e, {"package"},
            IF ~ReadOk(r) THEN Decided(r, "failed")
            ELSE IF wall >= RunDeadline(r) THEN Decided(s, "cancelled")
            ELSE [s EXCEPT !.pc = "preflight",
                           !.abortAt = IF r.leased THEN NoTimer
                                       ELSE elapsed + RunDeadline(r) - wall])

\* The executor's own timer, when it has no lease state.
LeaseTimer(e) ==
  /\ run[e].abortAt # NoTimer /\ elapsed >= run[e].abortAt
  /\ Alone(e, {"preflight", "streaming", "ending", "published"},
           [run[e] EXCEPT !.signalled = TRUE, !.abortAt = NoTimer])

\* What the executor makes of the result of the host run: the signal wins.
Returned(r, result) == Decided(r, IF Aborted(r) THEN "cancelled" ELSE result)

\* appendEvent: the lease must be active (asking may expire it), the clock
\* readable and the chain not full, else it throws and nothing is recorded.
\* The variant asks neither the lease nor the clock.
CanAppendUnchecked(r) == Len(r.events) < maxEvents
CanAppend(r) ==
  /\ IF r.leased THEN IsActive ELSE wall < r.task.leaseExpiry - margin
  /\ ReadOk(r) /\ Len(r.events) < maxEvents

\* createRunnerEvent: the chain of digests, which identity and order go into.
Recorded(r, type) ==
  [r EXCEPT !.readAt = wall,
            !.events = Append(@, Sealed([task |-> TaskIdentity(r.task), sequence |-> Len(@) + 1,
                                         type |-> type, at |-> wall,
                                         previous |-> LastDigest(@)]))]

\* The host publishes an event: `next` is where the run goes on if it is recorded.
Publish(e, from, type, next) ==
  /\ run[e].pc = from
  /\ Becomes(e, IF CanAppend(run[e]) THEN [Recorded(run[e], type) EXCEPT !.pc = next]
                ELSE Returned(run[e], "failed"))
  /\ IF run[e].leased THEN AssertActive ELSE UNCHANGED leaseVars
  /\ UNCHANGED <<guard, nonces, guardRead, claims>>

----------------------------------------------------------------------------
(* The host run, runEmployeePackage.                                       *)

\* Inspection, digest, input, adapter, preflight or compatibility fails, the
\* stream breaks its contract, an output does not fit: a failed result.
HostFails(e) ==
  Alone(e, {"preflight", "streaming", "ending"}, Returned(run[e], "failed"))

\* The abort is noticed where an await races with the signal.
HostAborted(e) ==
  /\ Aborted(run[e])
  /\ Alone(e, {"preflight", "streaming", "published"}, Returned(run[e], "failed"))

PreflightOk(e) ==
  /\ ~Aborted(run[e])
  /\ Alone(e, {"preflight"}, [run[e] EXCEPT !.pc = "streaming"])

HostProgress(e) ==
  \E type \in EventTypes : Publish(e, "streaming", type, "streaming")

\* The terminal event arrives and the stream ends; it is not published yet.
HostTerminal(e, type) ==
  Alone(e, {"streaming"}, [run[e] EXCEPT !.pc = "ending", !.terminal = type])

\* The checked terminal event is published and the caller's handler awaited.
PublishTerminal(e) == Publish(e, "ending", run[e].terminal, "published")

HostReturns(e) == Alone(e, {"published"}, Returned(run[e], run[e].terminal))

----------------------------------------------------------------------------
\* The final checks override what was decided before.
FinalStatus(r) ==
  IF (r.leased /\ aborted) \/ wall >= LeaseExpiry(r) - margin THEN "cancelled" ELSE r.outcome

ReceiptOf(r) ==
  [task |-> TaskIdentity(r.task), status |-> FinalStatus(r), startedAt |-> r.startedAt,
   completedAt |-> wall, eventCount |-> Len(r.events), finalDigest |-> LastDigest(r.events),
   actions |-> {r.events[i].type : i \in 1..Len(r.events)} \cap Tools]

\* The snapshot is gone: final checks, receipt, and the frozen bundle.
\* A task or lease past its end, or a clock gone back, yields no receipt, and
\* a receipt that does not validate is not signed.
Complete(e) ==
  LET r == run[e]
      b == [task |-> r.task, leaseExpiry |-> LeaseExpiry(r), events |-> r.events,
            receipt |-> ReceiptOf(r)]
  IN  Alone(e, {"cleanup"},
            IF ~ReadOk(r) \/ wall >= r.task.expiresAt \/ wall >= LeaseExpiry(r)
              THEN Gone("lost")
            ELSE IF ReceiptValid(ReceiptOf(r)) THEN [Gone("receipt") EXCEPT !.bundle = b]
            ELSE Gone("unsigned"))

\* The process dies and comes back: memory is gone, the durable store is not.
\* (With the in-memory guard the code documents that a restart reopens the
\* replay window, so this is the durable guard's case only.)
Restart ==
  /\ guard.durable
  /\ run' = [e \in Executions |-> IF run[e].pc \in {"idle", "receipt"} THEN run[e]
                                  ELSE Gone("crashed")]
  /\ run' # run
  /\ CloseLease
  /\ UNCHANGED <<guard, nonces, guardRead, claims>>

ExecStep(e) ==
  \/ \E t \in SignedTasks, withLease \in BOOLEAN : Submit(e, t, withLease)
  \/ KeyUnavailable(e) \/ Admit(e) \/ Claimed(e) \/ PackageUnusable(e) \/ PackageReady(e)
  \/ LeaseTimer(e) \/ HostFails(e) \/ HostAborted(e) \/ PreflightOk(e) \/ HostProgress(e)
  \/ (\E type \in {"completed", "failed"} : HostTerminal(e, type))
  \/ PublishTerminal(e) \/ HostReturns(e) \/ Complete(e)

ExecNext ==
  \/ (\E e \in Executions : ExecStep(e)) /\ UNCHANGED clockVars
  \/ Restart /\ UNCHANGED clockVars
  \/ LeaseStep /\ UNCHANGED execVars
  \/ (TimePasses \/ StepBack) /\ UNCHANGED <<leaseVars, execVars>>

ExecSpec == ExecInit /\ [][ExecNext]_vars

----------------------------------------------------------------------------
\* The platform side: bindRunnerExecutionBundle on what an execution returned,
\* against the task of the envelope returned with it.
BundleVerifies(b) ==
  LET hardExpiry == IF b.task.expiresAt <= b.leaseExpiry THEN b.task.expiresAt ELSE b.leaseExpiry
      rc == b.receipt
      at(i) == IF i = 0 THEN rc.startedAt ELSE b.events[i].at
  IN  /\ rc.task = TaskIdentity(b.task) /\ ReceiptValid(rc)
      /\ ChainVerifies(b.events, TaskIdentity(b.task))
      /\ rc.eventCount = Len(b.events) /\ rc.finalDigest = LastDigest(b.events)
      /\ rc.startedAt >= b.task.issuedAt - skew
      /\ rc.completedAt < hardExpiry
      /\ \A i \in 1..Len(b.events) :
           at(i - 1) <= at(i) /\ at(i) <= rc.completedAt /\ at(i) < hardExpiry

Receipts == {run[e].bundle : e \in {x \in Executions : run[x].pc = "receipt"}}

----------------------------------------------------------------------------
\* A signed task is executed at most once: however often its envelope is
\* delivered, whatever the clock does, and for the durable guard across
\* restarts ("Claims survive process restarts", runner-durable-store.ts).
ExecutedOnce == \A i, k \in 1..Len(claims) : claims[i] = claims[k] => i = k

\* Attempts of one task are claimed in the order of their fencing tokens.
FencingOrdered ==
  \A i, k \in 1..Len(claims) :
    i < k /\ claims[i].id = claims[k].id => claims[i].fencing <= claims[k].fencing

\* Whatever happened to the lease, the clock and the host on the way, the
\* platform accepts the event chain and the receipt an execution returns.
ReturnedBundlesVerify == \A b \in Receipts : BundleVerifies(b)

\* A receipt says "completed" only if the chain ends with the one terminal
\* event of a completed run, recorded while the lease had its margin left.
CompletedIsGenuine ==
  \A b \in Receipts : b.receipt.status = "completed" =>
    LET n == Len(b.events)
    IN  /\ n > 0 /\ b.events[n].type = "completed" /\ b.events[n].at < b.leaseExpiry - margin
        /\ \A i \in 1..(n - 1) : b.events[i].type \in EventTypes

\* What can become of a chain on its way to the platform: events are dropped,
\* repeated, exchanged or changed, with their own digest made to fit or not.
OnTheWay(events) ==
  LET changed(ev) ==
        {[ev EXCEPT !.type = type] : type \in {"completed", "failed"} \cup EventTypes}
        \cup {[ev EXCEPT !.at = at] : at \in 0..MaxClock}
      put(i, X) == {[events EXCEPT ![i] = x] : x \in X}
      at == 1..Len(events)
  IN  {RemoveAt(events, i) : i \in at} \cup {InsertAt(events, i, events[i]) : i \in at}
      \cup {[events EXCEPT ![i] = events[k], ![k] = events[i]] : i, k \in at}
      \cup UNION {put(i, changed(events[i]) \cup {Sealed(x) : x \in changed(events[i])})
                     : i \in at}

\* Events travel unsigned beside their receipt: whatever became of them, or of
\* the task they are presented with, the platform accepts the receipt only
\* with the whole chain of that execution, as it was recorded.
OnlyWholeChainsVerify ==
  \A b \in Receipts :
    /\ \A events \in OnTheWay(b.events) \ {b.events} : ~BundleVerifies([b EXCEPT !.events = events])
    /\ \A t \in SignedTasks :
         BundleVerifies([b EXCEPT !.task = t]) => TaskIdentity(t) = TaskIdentity(b.task)

\* runner-executor.ts: once the nonce is consumed, the platform "receives an
\* auditable terminal outcome": no run ends in a receipt that cannot be signed.
ReceiptAlwaysSigned == \A e \in Executions : run[e].pc # "unsigned"

\* The replay guards let each signed task through once and its attempts in order.
ClaimsSound == ExecutedOnce /\ FencingOrdered

\* What an execution returns is accepted by the platform and is what happened.
BundlesGenuine == ReturnedBundlesVerify /\ CompletedIsGenuine /\ OnlyWholeChainsVerify
=============================================================================
