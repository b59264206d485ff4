------------------------------ MODULE HttpServer ------------------------------
(***************************************************************************)
(* createHttpServer (apps/server/server.ts): admission of requests with a  *)
(* concurrency limit and a bounded queue, clients that go away at any      *)
(* time, and shutdown.  A handler is one request; its steps end at an      *)
(* await.  A connection is destroyed before its close event is emitted.    *)
(***************************************************************************)
EXTENDS Integers, Sequences, FiniteSets, SequencesExt

CONSTANTS
  Requests,
  maxConcurrentRequests,
  maxQueuedRequests

ASSUME ServerAssumption ==
  maxConcurrentRequests \in Nat \ {0} /\ maxQueuedRequests \in Nat

VARIABLES
  active, waiters, stopping,
  shutdown,   \* what shutdownPromise resolved to: no, pending, drained, timeout
  handler,    \* per request: where its handler is
  gone,       \* per request: its connection is destroyed
  closeSeen,  \* per request: its close event was emitted
  ctl,        \* per request: its AbortController has aborted
  reply       \* per request: the status sent, or none

httpVars == <<active, waiters, stopping, shutdown, handler, gone, closeSeen, ctl, reply>>
clientVars == <<gone, closeSeen>>

Admitted == {"admitted", "reading", "answering"}

----------------------------------------------------------------------------
\* sendJson: nothing is sent on a destroyed connection.
Sent(r, status) == IF gone[r] THEN reply[r] ELSE status

\* A variant of pump that stops after one waiter, also a destroyed one.
PumpedOnce(busy, q) ==
  IF stopping \/ q = <<>> \/ busy = maxConcurrentRequests
    THEN [rest |-> q, taken |-> {}, in |-> {}]
    ELSE [rest |-> Tail(q), taken |-> {Head(q)}, in |-> {w \in {Head(q)} : ~gone[w]}]

\* pump with `busy` requests active: waiters are taken from the front until
\* the slots are full or none is left; those whose connection is destroyed are
\* skipped.  The result: who is taken off the queue, and who is let in.
Pumped(busy, q) ==
  LET liveUpTo(i) == Cardinality({k \in 1..i : ~gone[q[k]]})
      stops == {i \in 0..Len(q) :
                  stopping \/ i = Len(q) \/ busy + liveUpTo(i) >= maxConcurrentRequests}
      n == CHOOSE i \in stops : \A k \in stops : i <= k
      taken == {q[i] : i \in 1..n}
  IN  [rest |-> SubSeq(q, n + 1, Len(q)), taken |-> taken, in |-> {w \in taken : ~gone[w]}]

\* The handler of r ends after its slot was acquired: reply, then release.
\* The variant frees the slot without waking the queue.
EndsUnpumped(r, status) ==
  /\ active' = active - 1
  /\ handler' = [handler EXCEPT ![r] = "ended"]
  /\ reply' = [reply EXCEPT ![r] = Sent(r, status)]
  /\ UNCHANGED waiters
Ends(r, status) ==
  LET p == Pumped(active - 1, waiters)
  IN  /\ active' = active - 1 + Cardinality(p.in)
      /\ waiters' = p.rest
      /\ handler' = [x \in Requests |->
                     IF x = r \/ x \in p.taken \ p.in THEN "ended"
                     ELSE IF x \in p.in THEN "admitted" ELSE handler[x]]
      /\ reply' = [reply EXCEPT ![r] = Sent(r, status)]

----------------------------------------------------------------------------
HttpInit ==
  /\ active = 0 /\ waiters = <<>> /\ stopping = FALSE /\ shutdown = "no"
  /\ handler = [r \in Requests |-> "new"]
  /\ gone = [r \in Requests |-> FALSE] /\ closeSeen = [r \in Requests |-> FALSE]
  /\ ctl = [r \in Requests |-> FALSE]
  /\ reply = [r \in Requests |-> "none"]

IsNew(r) == handler[r] = "new" /\ shutdown \notin {"drained", "timeout"}

\* Health, authorisation, route and media type: answered without a slot.
Shortcut(r, status) ==
  /\ IsNew(r)
  /\ handler' = [handler EXCEPT ![r] = "ended"] /\ reply' = [reply EXCEPT ![r] = status]
  /\ UNCHANGED <<active, waiters, stopping, shutdown, clientVars, ctl>>

\* acquire, in its order: stopping, a free slot, a full queue, the queue.
Acquire(r) ==
  /\ IsNew(r)
  /\ \/ /\ stopping
        /\ handler' = [handler EXCEPT ![r] = "ended"] /\ reply' = [reply EXCEPT ![r] = "503"]
        /\ UNCHANGED <<active, waiters>>
     \/ /\ ~stopping /\ active < maxConcurrentRequests
        /\ active' = active + 1 /\ handler' = [handler EXCEPT ![r] = "admitted"]
        /\ UNCHANGED <<waiters, reply>>
     \/ /\ ~stopping /\ active >= maxConcurrentRequests /\ Len(waiters) >= maxQueuedRequests
        /\ handler' = [handler EXCEPT ![r] = "ended"] /\ reply' = [reply EXCEPT ![r] = "429"]
        /\ UNCHANGED <<active, waiters>>
     \/ /\ ~stopping /\ active >= maxConcurrentRequests /\ Len(waiters) < maxQueuedRequests
        /\ waiters' = Append(waiters, r) /\ handler' = [handler EXCEPT ![r] = "queued"]
        /\ UNCHANGED <<active, reply>>
  /\ UNCHANGED <<stopping, shutdown, clientVars, ctl>>

\* The handler goes on after acquire: its controller is registered.
Begin(r) ==
  /\ handler[r] = "admitted" /\ handler' = [handler EXCEPT ![r] = "reading"]
  /\ UNCHANGED <<active, waiters, stopping, shutdown, clientVars, ctl, reply>>

\* The body is read (a destroyed connection may fail it): a bad one is
\* refused, and nothing is asked of the employee for an aborted request or on
\* a server that is stopping.
MayAnswer(r) == ~ctl[r] /\ ~stopping

BodyRead(r, wellFormed) ==
  /\ handler[r] = "reading"
  /\ \/ /\ wellFormed /\ MayAnswer(r)
        /\ handler' = [handler EXCEPT ![r] = "answering"]
        /\ UNCHANGED <<active, waiters, reply>>
     \/ wellFormed /\ ~MayAnswer(r) /\ Ends(r, "503")
     \/ ~wellFormed /\ Ends(r, "400")
  /\ UNCHANGED <<stopping, shutdown, clientVars, ctl>>

\* employee.answer settles: with a status, or it throws, which is reported as
\* an invalid request even when it was the abort that made it throw.
AnswerReturns(r, outcome) ==
  /\ handler[r] = "answering"
  /\ Ends(r, IF outcome = "throws" THEN "400" ELSE IF ctl[r] THEN "503" ELSE outcome)
  /\ UNCHANGED <<stopping, shutdown, clientVars, ctl>>

\* removeQueuedWaiter: a waiter is in the queue at most once.
Without(q, r) ==
  IF \E i \in DOMAIN q : q[i] = r THEN RemoveAt(q, CHOOSE i \in DOMAIN q : q[i] = r) ELSE q

\* The client goes away; later the close event reaches whoever listens: the
\* waiter leaves the queue, the running handler is aborted.
ClientGone(r) ==
  /\ handler[r] \in Admitted \cup {"queued"} /\ ~gone[r]
  /\ gone' = [gone EXCEPT ![r] = TRUE]
  /\ UNCHANGED <<active, waiters, stopping, shutdown, handler, closeSeen, ctl, reply>>

CloseEvent(r) ==
  /\ gone[r] /\ ~closeSeen[r] /\ closeSeen' = [closeSeen EXCEPT ![r] = TRUE]
  /\ waiters' = Without(waiters, r)
  /\ handler' = IF handler[r] = "queued" THEN [handler EXCEPT ![r] = "ended"] ELSE handler
  /\ ctl' = [ctl EXCEPT ![r] = @ \/ handler[r] \in {"reading", "answering"}]
  /\ UNCHANGED <<active, stopping, shutdown, gone, reply>>

\* shutdown(): no more admission, waiters are sent away, handlers aborted.
Shutdown ==
  /\ ~stopping /\ stopping' = TRUE /\ shutdown' = "pending"
  /\ waiters' = <<>>
  /\ handler' = [r \in Requests |-> IF handler[r] = "queued" THEN "ended" ELSE handler[r]]
  /\ reply' = [r \in Requests |-> IF handler[r] = "queued" THEN Sent(r, "503") ELSE reply[r]]
  /\ ctl' = [r \in Requests |-> ctl[r] \/ handler[r] \in {"reading", "answering"}]
  /\ UNCHANGED <<active, clientVars>>

\* Idle, and the server has closed (no connection with a request is left).
Drained == active = 0 /\ \A r \in Requests : handler[r] \in {"new", "ended"}

ShutdownDrains ==
  /\ shutdown = "pending" /\ Drained /\ shutdown' = "drained"
  /\ UNCHANGED <<active, waiters, stopping, handler, clientVars, ctl, reply>>

\* The bounded wait is over: closeAllConnections.
ShutdownTimesOut ==
  /\ shutdown = "pending" /\ shutdown' = "timeout"
  /\ gone' = [r \in Requests |-> gone[r] \/ handler[r] \in Admitted]
  /\ UNCHANGED <<active, waiters, stopping, handler, closeSeen, ctl, reply>>

HandlerStep(r) ==
  \/ Begin(r) \/ (\E ok \in BOOLEAN : BodyRead(r, ok))
  \/ (\E o \in {"200", "400", "500", "throws"} : AnswerReturns(r, o))

HttpNext ==
  \/ \E r \in Requests :
       \/ Shortcut(r, "4xx") \/ Acquire(r) \/ HandlerStep(r)
       \/ ClientGone(r) \/ CloseEvent(r)
  \/ Shutdown \/ ShutdownDrains \/ ShutdownTimesOut

HttpSpec == HttpInit /\ [][HttpNext]_httpVars

\* A body arrives or its connection breaks (at the latest by Node's request
\* timeout), and employee.answer settles (its run has a deadline).  Clients
\* need not go away, and nobody need shut down.
HttpFairness == \A r \in Requests : WF_httpVars(HandlerStep(r))

FairHttpSpec == HttpSpec /\ HttpFairness

----------------------------------------------------------------------------
\* Every slot is held by exactly one handler that will release it, the limit
\* holds, and nobody waits while a slot is free or the server is stopping.
SlotsExact ==
  /\ active = Cardinality({r \in Requests : handler[r] \in Admitted})
  /\ active <= maxConcurrentRequests
  /\ waiters # <<>> => active = maxConcurrentRequests /\ ~stopping

\* "Stops admission, aborts Agent Host work": once shutdown was called the
\* employee works for nobody whose controller is not aborted, including the
\* handlers that shutdown overtook between their slot and their question.
StopReachesWork ==
  stopping => \A r \in Requests : handler[r] = "answering" => ctl[r]

\* A request ends without an answer only if its client has gone.
NobodyForgotten ==
  \A r \in Requests : handler[r] = "ended" => reply[r] # "none" \/ gone[r]

\* A shutdown that reports the server as drained left nobody working, and
\* nobody starts to afterwards.
DrainedMeansIdle == shutdown = "drained" => \A r \in Requests : handler[r] \notin Admitted

\* Every request is served or turned away, however many clients in front of it
\* leave.
EveryRequestEnds == \A r \in Requests : []<>(handler[r] \in {"new", "ended"})

\* Slots, answers and the shutdown agree with what the handlers really do.
ServerSound == SlotsExact /\ StopReachesWork /\ NobodyForgotten /\ DrainedMeansIdle
=============================================================================
