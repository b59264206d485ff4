----------------------------- MODULE StdioHost ------------------------------
(***************************************************************************)
(* An external agent host over stdio: the client adapter                   *)
(* (apps/cli/stdio-agent-host) composed with the hosts the repository      *)
(* ships (real-local-stdio-host, reference-stdio-host with its violation   *)
(* flags).                                                                 *)
(*                                                                         *)
(* One adapter object serves all callers and keeps one child.  ensureChild *)
(* reads and digests the executable before it spawns, so two callers may   *)
(* both find no child.  Requests and answers travel through pipes; an exit *)
(* may cut the last line short, and the bytes read so far stay in          *)
(* stdoutCarry.                                                            *)
(***************************************************************************)
EXTENDS AgentHostWire

CONSTANTS Calls,       \* probe() and run() invocations
          KindOf,      \* call -> "probe" or "run"
          SchemaOf,    \* call -> "none", "ok" or "bad" output schema
          Flags,       \* violation flags a spawned host may carry
          McpSettings, \* what the real-local host finds when it answers a run
          MaxKids,     \* bound on spawned children
          NoCall

ASSUME CallsAssumption ==
  /\ KindOf \in [Calls -> {"probe", "run"}]
  /\ SchemaOf \in [Calls -> {"none", "ok", "bad"}]
  /\ MaxKids \in Nat

VARIABLES client,  \* current child, exited, carry, pending ids, streams
          call,    \* call -> where the caller is
          kid,     \* child -> the host process and its two pipes
          disposal \* "no", "waiting" or "done"

stdioVars == <<client, call, kid, disposal>>

Kids == 1..MaxKids
HostId == "external"

-----------------------------------------------------------------------------
(* Lines. *)

Bare == [json |-> TRUE, protocol |-> "agent-host-stdio.v1", kind |-> "response",
         ok |-> TRUE, keys |-> {"protocol", "id", "kind", "ok"},
         id |-> NoCall, event |-> NoCall, result |-> NoCall]

GoodProbe == [keys |-> ProbeKeys, hostId |-> HostId, bounded |-> TRUE,
              status |-> "ready"]

Response(x, ok) ==
  [Bare EXCEPT !.id = x, !.ok = ok,
               !.keys = IF ok THEN @ ELSE @ \cup {"error"}]

ProbeAnswer(x, p) ==
  [Bare EXCEPT !.id = x, !.result = p, !.keys = @ \cup {"result"}]

(* code: an error code, or whether a completed output fits the schema. *)
HostEvent(x, type, code) ==
  [Bare EXCEPT !.id = x, !.kind = "event",
               !.keys = {"protocol", "id", "kind", "event"},
               !.event = [type |-> type, code |-> code, bounded |-> TRUE,
                          keys |-> EventKeys[type] \ (EventOptional \ {"output"})]]

(* The start of a line whose rest was lost. *)
Partial == [Bare EXCEPT !.json = FALSE, !.kind = "partial"]

-----------------------------------------------------------------------------
(* The hosts. *)

RecallRealMemory(p) ==
  CASE p.mem = "denied" -> "scope_denied"
    [] p.mem = "contract" -> "contract_unsupported"
    [] p.mem = "down" -> "service_unavailable"
    [] OTHER -> "ok"

(* The revision comes from the etag and must be the pinned one. *)
ReadRealDocument(p) ==
  CASE p.doc = "denied" -> "scope_denied"
    [] p.doc = "missing" -> "item_unavailable"
    [] p.doc = "down" -> "service_unavailable"
    [] p.doc = "stale" -> "revision_mismatch"
    [] OTHER -> "ok"

(* Matrix, grant and then the service, for the servers a run declares. *)
RealLocalMcpOutcome(p) ==
  IF p.servers = {} THEN "ok"
  ELSE IF ~p.matrix THEN "matrix_unsupported"
  ELSE IF p.grant # "ok" THEN p.grant
  ELSE IF "mem" \in p.servers /\ RecallRealMemory(p) # "ok" THEN RecallRealMemory(p)
  ELSE IF "doc" \in p.servers THEN ReadRealDocument(p) ELSE "ok"

Write(h, lines) == [h EXCEPT !.outbox = @ \o lines]

CancelledRun(x) ==
  <<HostEvent(x, "run.failed", "agent_host_cancelled"), Response(x, TRUE)>>

(* cancel only leaves a note that a later run of that id reads; the        *)
(* reference host also ends the run that is active.                        *)
ServeCancel(h, x) ==
  LET noted == [h EXCEPT !.cancelled = x]
  IN  IF "reference" \in h.flags /\ x \in h.running
      THEN Write([noted EXCEPT !.running = @ \ {x}], CancelledRun(x))
      ELSE noted

ServeRun(h, x) ==
  LET begun == Write(h, <<HostEvent(x, "run.started", "")>>)
  IN  IF h.cancelled = x THEN Write(begun, CancelledRun(x))
      ELSE [begun EXCEPT !.running = @ \cup {x}]

ServeProbe(h, x) ==
  Write(h, <<ProbeAnswer(x, IF "unknown_field" \in h.flags
                            THEN [GoodProbe EXCEPT !.keys = @ \cup {"extra"}]
                            ELSE GoodProbe)>>)

ServeLine(k) ==
  /\ kid[k].st = "alive" /\ kid[k].inbox # <<>>
  /\ LET h == [kid[k] EXCEPT !.inbox = Tail(@)]
         q == Head(kid[k].inbox)
     IN  kid' = [kid EXCEPT ![k] =
                  CASE q.kind = "probe" -> ServeProbe(h, q.call)
                    [] q.kind = "cancel" -> ServeCancel(h, q.call)
                    [] q.kind = "run" -> ServeRun(h, q.call)]
  /\ UNCHANGED <<client, call, disposal>>

(* What a host writes when a run's answer is there. *)
RunLines(h, x, code, fits) ==
  LET end == IF code = "ok" THEN HostEvent(x, "run.completed", fits)
             ELSE HostEvent(x, "run.failed", code)
  IN  <<end>>
      \o (IF "dup_terminal" \in h.flags THEN <<end>> ELSE <<>>)
      \o (IF "after_terminal" \in h.flags THEN <<HostEvent(x, "usage", "")>> ELSE <<>>)
      \o (IF "no_close" \in h.flags THEN <<>> ELSE <<Response(x, TRUE)>>)

(* A cancel that arrives while the answer is fetched changes nothing. *)
ServeOutcome(k, x) ==
  /\ kid[k].st = "alive" /\ x \in kid[k].running /\ "hang" \notin kid[k].flags
  /\ \E p \in McpSettings, fits \in {"fits", "misfit"} :
       kid' = [kid EXCEPT ![k] = Write([kid[k] EXCEPT !.running = @ \ {x}],
                 RunLines(kid[k], x, RealLocalMcpOutcome(p), fits))]
  /\ UNCHANGED <<client, call, disposal>>

-----------------------------------------------------------------------------
(* The client. *)

NoKid == [st |-> "none", termed |-> FALSE, flags |-> {}, inbox |-> <<>>,
          outbox |-> <<>>, running |-> {}, cancelled |-> NoCall]

StdioInit ==
  /\ client = [current |-> 0, exited |-> FALSE, carry |-> FALSE, pending |-> {},
               streams |-> [c \in {} |-> <<>>]]
  /\ call = [c \in Calls |-> [pc |-> "idle", kid |-> 0, out |-> <<>>, saw |-> FALSE,
                              result |-> "", timed |-> FALSE, cancelled |-> FALSE]]
  /\ kid = [k \in Kids |-> NoKid]
  /\ disposal = "no"

Ended(c, result) ==
  [call EXCEPT ![c] = [@ EXCEPT !.pc = "done", !.result = result, !.kid = 0,
                                !.saw = FALSE, !.timed = FALSE, !.cancelled = FALSE]]

FailStreams(cl, why) ==
  LET failed(st) == IF st.failure = "" THEN [st EXCEPT !.failure = why] ELSE st
  IN  [cl EXCEPT !.streams = [c \in DOMAIN @ |-> failed(@[c])]]

Terminated(kk, k) ==
  IF k = 0 \/ kk[k].st # "alive" THEN kk ELSE [kk EXCEPT ![k].termed = TRUE]

(* A stream for run c, nothing in it yet. *)
With(streams, c) ==
  [x \in DOMAIN streams \cup {c} |->
     IF x = c THEN [queue |-> <<>>, failure |-> ""] ELSE streams[x]]

(* probe(): a waiter and a line; run(): a stream and a line. *)
Send(c, cl, kk) ==
  /\ kid' = [kk EXCEPT ![cl.current].inbox =
               Append(@, [kind |-> KindOf[c], call |-> c])]
  /\ client' = IF KindOf[c] = "probe"
               THEN [cl EXCEPT !.pending = @ \cup {c}]
               ELSE [cl EXCEPT !.streams = With(@, c)]
  /\ call' = [call EXCEPT ![c].pc = "wait", ![c].kid = cl.current]

(* A schema that does not compile is refused before any exchange; a live   *)
(* child is used as it is; otherwise the executable is read and digested.  *)
StartCall(c) ==
  /\ call[c].pc = "idle" /\ disposal = "no"
  /\ IF KindOf[c] = "run" /\ SchemaOf[c] = "bad"
     THEN /\ call' = [Ended(c, "returned") EXCEPT
                        ![c].out = <<HostEvent(c, "run.failed", "output_schema_invalid").event>>]
          /\ UNCHANGED <<client, kid>>
     ELSE IF client.current # 0 /\ ~client.exited /\ kid[client.current].st = "alive"
     THEN Send(c, client, kid)
     ELSE call' = [call EXCEPT ![c].pc = "load"] /\ UNCHANGED <<client, kid>>
  /\ UNCHANGED disposal

(* The digest is the pinned one: spawn, and the child becomes the child of *)
(* the adapter, whoever else has spawned one meanwhile.                    *)
LoadAndSpawn(c) ==
  /\ call[c].pc = "load"
  /\ \/ call' = Ended(c, "digest_mismatch") /\ UNCHANGED <<client, kid>>
     \/ \E k \in Kids, flags \in Flags :
          /\ kid[k].st = "none" /\ \A j \in 1..(k-1) : kid[j].st # "none"
          /\ Send(c, [client EXCEPT !.current = k, !.exited = FALSE],
                  [kid EXCEPT ![k].st = "alive", ![k].flags = flags])
  /\ UNCHANGED disposal

(* The exit of any child the adapter ever spawned settles everything that  *)
(* waits.  What it wrote can still be read, the last line perhaps in part. *)
KidExits(k) ==
  /\ kid[k].st = "alive"
  /\ \E cut \in BOOLEAN :
       LET left == kid[k].outbox
       IN  kid' = [kid EXCEPT ![k] = [NoKid EXCEPT !.st = "dead",
                     !.outbox = IF cut /\ left # <<>> THEN Append(Front(left), Partial)
                                ELSE left]]
  /\ client' = [FailStreams(client, "stream_failed") EXCEPT !.exited = TRUE,
                                                            !.pending = {}]
  /\ call' = [c \in Calls |-> IF c \in client.pending
                              THEN [call[c] EXCEPT !.pc = "done", !.result = "adapter_exited"]
                              ELSE call[c]]
  /\ UNCHANGED disposal

(* A violation fails every stream and asks the current child to end. *)
Violation(cl, kk, why) ==
  /\ client' = FailStreams(cl, why)
  /\ kid' = Terminated(kk, cl.current)
  /\ UNCHANGED call

(* dispatchLine, after consumeStdout has put the carry in front. *)
Deliver(k) ==
  /\ kid[k].outbox # <<>>
  /\ LET l == Head(kid[k].outbox)
         read == [kid EXCEPT ![k].outbox = Tail(@)]
         cl == [client EXCEPT !.carry = FALSE]
         code == IF client.carry THEN "bad_framing" ELSE ParseHostLine(l)
     IN  IF l = Partial
         THEN /\ client' = [client EXCEPT !.carry = TRUE]
              /\ kid' = read /\ UNCHANGED call
         ELSE IF code # "ok" THEN Violation(cl, read, code)
         ELSE IF l.kind = "response" /\ l.id \in cl.pending
         THEN /\ client' = [cl EXCEPT !.pending = @ \ {l.id}]
              /\ call' = Ended(l.id, ProbeResult(l, HostId))
              /\ kid' = read
         ELSE IF l.id \in DOMAIN cl.streams
         THEN /\ client' = [cl EXCEPT !.streams[l.id].queue = Append(@, l)]
              /\ kid' = read /\ UNCHANGED call
         ELSE Violation(cl, read, "unsolicited")
  /\ UNCHANGED disposal

Without(streams, c) == [x \in DOMAIN streams \ {c} |-> streams[x]]

(* The loop of run(): the event to yield, and whether it is a terminal. *)
Yielded(c, e) ==
  IF e.type = "run.completed" /\ SchemaOf[c] = "ok" /\ e.code = "misfit"
  THEN HostEvent(c, "run.failed", "output_schema_mismatch").event ELSE e

RunReads(c) ==
  /\ call[c].pc = "wait" /\ c \in DOMAIN client.streams
  /\ LET st == client.streams[c]
         m == Head(st.queue)
         Leave(result) == /\ client' = [client EXCEPT !.streams = Without(@, c)]
                          /\ call' = Ended(c, result)
     IN  IF st.queue = <<>>
         THEN st.failure # "" /\ Leave(st.failure)
         ELSE IF m.kind = "event"
         THEN IF call[c].saw THEN Leave("terminal_contract_violated")
              ELSE /\ client' = [client EXCEPT !.streams[c].queue = Tail(@)]
                   /\ call' = [call EXCEPT ![c].out = Append(@, Yielded(c, m.event)),
                                           ![c].saw = m.event.type \in TerminalTypes]
         ELSE Leave(IF ~m.ok THEN "host_error"
                    ELSE IF call[c].saw THEN "returned"
                    ELSE "terminal_contract_violated")
  /\ UNCHANGED <<kid, disposal>>

\* The variant leaves the stream of an abandoned run in the table.
AbandonRunKept(c) ==
  /\ call[c].pc = "wait" /\ KindOf[c] = "run" /\ call[c].out # <<>>
  /\ call' = Ended(c, "abandoned")
  /\ UNCHANGED <<client, kid, disposal>>

(* The consumer of a run stops early: the stream is gone, the host goes on. *)
AbandonRun(c) ==
  /\ call[c].pc = "wait" /\ KindOf[c] = "run" /\ call[c].out # <<>>
  /\ client' = [client EXCEPT !.streams = Without(@, c)]
  /\ call' = Ended(c, "abandoned")
  /\ UNCHANGED <<kid, disposal>>

(* cancel(): a line to the current child, if one runs.  (The waiter for an *)
(* acknowledgement that no shipped host sends only expires.)               *)
Cancelled(c, cl, kk) ==
  IF cl.exited \/ cl.current = 0 \/ kk[cl.current].st # "alive" THEN kk
  ELSE [kk EXCEPT ![cl.current].inbox = Append(@, [kind |-> "cancel", call |-> c])]

CancelRun(c) ==
  /\ KindOf[c] = "run" /\ call[c].pc = "wait" /\ ~call[c].cancelled
  /\ kid' = Cancelled(c, client, kid)
  /\ call' = [call EXCEPT ![c].cancelled = TRUE]
  /\ UNCHANGED <<client, disposal>>

\* The variant only asks a host that is late with a run to cancel it.
CallTimesOutPolitely(c) ==
  /\ call[c].pc = "wait" /\ ~call[c].timed
  /\ IF KindOf[c] = "probe"
     THEN /\ client' = [client EXCEPT !.pending = @ \ {c}]
          /\ call' = Ended(c, "timeout")
          /\ UNCHANGED kid
     ELSE /\ kid' = Cancelled(c, client, kid)
          /\ call' = [call EXCEPT ![c].timed = TRUE]
          /\ UNCHANGED client
  /\ UNCHANGED disposal

CallTimesOut(c) ==
  /\ call[c].pc = "wait" /\ ~call[c].timed
  /\ IF KindOf[c] = "probe"
     THEN /\ client' = [client EXCEPT !.pending = @ \ {c}]
          /\ call' = Ended(c, "timeout")
          /\ UNCHANGED kid
     ELSE /\ client' = [client EXCEPT !.streams[c].failure =
                          IF @ = "" THEN "timeout" ELSE @]
          /\ kid' = Cancelled(c, client, Terminated(kid, call[c].kid))
          /\ call' = [call EXCEPT ![c].timed = TRUE]
  /\ UNCHANGED disposal

(* The embedder disposes of the adapter when no call is under way. *)
Dispose ==
  /\ disposal = "no" /\ \A c \in Calls : call[c].pc \in {"idle", "done"}
  /\ client' = FailStreams(client, "cleanup_failed")
  /\ kid' = Terminated(kid, client.current)
  /\ disposal' = "waiting"
  /\ UNCHANGED call

(* SIGTERM, then SIGKILL: dispose() resolves when that tree is gone. *)
Disposed ==
  /\ disposal = "waiting"
  /\ client.current # 0 => kid[client.current].st = "dead"
  /\ client' = [client EXCEPT !.exited = TRUE]
  /\ disposal' = "done"
  /\ UNCHANGED <<call, kid>>

StdioNext ==
  \/ \E c \in Calls : \/ StartCall(c) \/ LoadAndSpawn(c) \/ RunReads(c)
                      \/ AbandonRun(c) \/ CancelRun(c) \/ CallTimesOut(c)
  \/ \E k \in Kids : \/ ServeLine(k) \/ KidExits(k) \/ Deliver(k)
                     \/ \E x \in Calls : ServeOutcome(k, x)
  \/ Dispose \/ Disposed

(* The event loop runs, timers fire, what is in a pipe arrives.  Nothing   *)
(* is assumed of a host, not even that it ends when it is signalled.       *)
StdioFairness ==
  /\ \A c \in Calls : /\ WF_stdioVars(LoadAndSpawn(c)) /\ WF_stdioVars(RunReads(c))
                      /\ WF_stdioVars(CallTimesOut(c))
  /\ \A k \in Kids : WF_stdioVars(Deliver(k))

StdioSpec == StdioInit /\ [][StdioNext]_stdioVars /\ StdioFairness

-----------------------------------------------------------------------------
(* Properties. *)

(* A run() that returns has yielded a stream the wire contract accepts,    *)
(* whatever its host wrote, and no output that breaks the run's schema.    *)
ReturnedStreamAccepted ==
  \A c \in Calls :
    KindOf[c] = "run" /\ call[c].result = "returned" =>
      /\ ClassifyEventStream(call[c].out, FALSE) = "accept"
      /\ SchemaOf[c] = "ok" /\ Last(call[c].out).type = "run.completed" =>
           Last(call[c].out).code # "misfit"

(* Waiters and streams belong to callers that still wait: nothing is left  *)
(* behind in the two tables when a call is over, and nobody waits outside  *)
(* them.                                                                   *)
TablesMatchCallers ==
  /\ client.pending = {c \in Calls : call[c].pc = "wait" /\ KindOf[c] = "probe"}
  /\ DOMAIN client.streams = {c \in Calls : call[c].pc = "wait" /\ KindOf[c] = "run"}

(* Every call is answered although a host may hang, die, be replaced or    *)
(* break the protocol.                                                     *)
StdioCallsEnd == \A c \in Calls : []<>(call[c].pc \in {"idle", "done"})

(* "the detached process tree is always signalled on disposal": once       *)
(* dispose() has resolved, no host the adapter spawned is left running.    *)
DisposedMeansGone == disposal = "done" => \A k \in Kids : kid[k].st # "alive"

(* Streams that return are valid, and no table outlives its callers        *)
(* (stdio-agent-host.ts).                                                  *)
StdioSound == ReturnedStreamAccepted /\ TablesMatchCallers
=============================================================================
