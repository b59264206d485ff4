----------------------------- MODULE RecallPorts -----------------------------
(***************************************************************************)
(* Durable memory and workbench context of a turn.                         *)
(*                                                                         *)
(* The memory adapter (core/mem-http-memory-adapter) is pinned to one      *)
(* position scope of one mem server revision.  A call is a series of HTTP  *)
(* requests: version, capabilities, then the recall, or the write and its  *)
(* read-back.  Between two requests the server may be upgraded, the token  *)
(* replaced and a memory forgotten or touched; any reply may be lost after *)
(* the server acted on it, and callers retry.                              *)
(*                                                                         *)
(* The context adapter (core/context-cli-adapter) runs one child process   *)
(* whose exit, failure, flood of output and timeout race.                  *)
(***************************************************************************)
EXTENDS Naturals, FiniteSets, Sequences, SequencesExt

CONSTANTS Callers,          \* adapter calls
          Pinned,           \* caller -> configured scope of its adapter
          WriteRequests,    \* memory-write requests a caller may issue
          RecallModes,      \* "optional", "required"
          Revisions,        \* server revisions; the first is the pinned one
          Limit,            \* recall limit
          MaxMemories, MaxChanges, MaxTries,
          Bundles,          \* replies of the context adapter
          MaxItems, MaxBytes, MaxAge, MaxSkew, ArtifactScope, Clock,
          NoValue

VARIABLES memories,    \* what the mem server holds, in order of creation
          server,      \* its revision, features and the token's permissions
          calls,       \* caller -> local state
          changes,     \* changes of the server so far
          ctx          \* one recall through the context CLI

portVars == <<memories, server, calls, changes, ctx>>

-----------------------------------------------------------------------------
(* The two wire validators. *)

(* principal is always position.<positionId>. *)
Principal(position) == <<"position", position>>

(* validateMemoryWriteRequest: principal, then the task state. *)
ValidTaskState(q) == q.status \in {"completed", "failed", "cancelled"} /\ q.summaryBytes > 0

ValidWrite(q) == q.principal = Principal(q.position) /\ ValidTaskState(q)

\* The variant derives another key for every time of writing.
IdempotencyKeyTimed(q) == <<q.instance, q.session, q.turn, q.position, q.digest, q.at>>

(* What the idempotency key is computed from; recordedAt is not part of it. *)
IdempotencyKey(q) == <<q.instance, q.session, q.turn, q.position, q.digest>>

(* canonicalTaskState *)
Content(q) == [task |-> q.turn, status |-> q.status, digest |-> q.digest, at |-> q.at]

InScope(q, pin) ==
  q.instance = pin.instance /\ q.position = pin.position /\ q.scope = pin.scope

(* assertReadback *)
ReadbackMatches(m, q, pin) ==
  /\ m.workspace = pin.workspace /\ m.scope = pin.scope
  /\ m.session = q.session /\ m.active /\ m.content = Content(q)

(* The checks of a recall hit and of validateMemoryRecall. *)
HitAccepted(h, pin) ==
  /\ h.workspace = pin.workspace /\ h.scope = pin.scope
  /\ h.active /\ h.version = h.locatorVersion

RecallAccepted(hits, pin) ==
  Len(hits) <= Limit /\ \A i \in DOMAIN hits : HitAccepted(hits[i], pin)

(* validateContextBundle: exact scope, freshness window, bounds, the       *)
(* untrusted-data warning, and every digest computed again.                *)
BundleVerdict(b) ==
  IF b.scope # ArtifactScope THEN "CONTEXT_SCOPE_MISMATCH"
  ELSE IF b.retrievedAt > Clock + MaxSkew \/ b.retrievedAt + MaxAge < Clock
          \/ b.items > MaxItems \/ b.bytes > MaxBytes \/ ~b.warned
    THEN "CONTEXT_BUNDLE_INVALID"
  ELSE IF ~b.digestsMatch THEN "CONTEXT_CORRUPT_RECORD"
  ELSE "ok"

-----------------------------------------------------------------------------
NoCall == [pc |-> "idle", kind |-> NoValue, req |-> NoValue, mode |-> NoValue,
           memory |-> NoValue, tries |-> 0, code |-> NoValue, result |-> NoValue,
           warned |-> FALSE]
NoCtx == [pc |-> "idle", child |-> "none", code |-> NoValue]

PortInit ==
  /\ memories = <<>>
  /\ server = [revision |-> Revisions[1], memory |-> TRUE, token |-> "minimum"]
  /\ calls = [c \in Callers |-> NoCall]
  /\ changes = 0
  /\ ctx = NoCtx

Fails(l, code) ==
  IF l.kind = "recall" /\ l.mode = "optional" /\ code = "MEMORY_UNAVAILABLE"
  THEN [l EXCEPT !.pc = "done", !.result = <<>>, !.warned = TRUE]  \* degradedRecall
  ELSE [l EXCEPT !.pc = "failed", !.code = code]

(* writeTaskState: bindRequest, the token, then the preflight.  A caller   *)
(* that lost the answer may write again, the turn run anew, at a later time. *)
WriteStarts(c) ==
  /\ calls[c].pc = "idle" \/ (calls[c].pc = "failed" /\ calls[c].kind = "write"
                               /\ calls[c].tries < MaxTries)
  /\ \E q \in WriteRequests :
       /\ calls[c].pc = "failed" =>
            [q EXCEPT !.at = 0] = [calls[c].req EXCEPT !.at = 0]
       /\ LET l == [NoCall EXCEPT !.kind = "write", !.req = q, !.tries = calls[c].tries + 1]
          IN calls' = [calls EXCEPT ![c] =
               IF ~ValidWrite(q) THEN Fails(l, "MEMORY_RECORD_INVALID")
               ELSE IF ~InScope(q, Pinned[c]) THEN Fails(l, "MEMORY_SCOPE_MISMATCH")
               ELSE [l EXCEPT !.pc = "version"]]
  /\ UNCHANGED <<memories, server, changes, ctx>>

RecallStarts(c) ==
  /\ calls[c].pc = "idle"
  /\ \E m \in RecallModes :
       calls' = [calls EXCEPT ![c] = [NoCall EXCEPT !.kind = "recall", !.mode = m,
                                                    !.pc = "version"]]
  /\ UNCHANGED <<memories, server, changes, ctx>>

CheckVersion(c) ==
  /\ calls[c].pc = "version"
  /\ calls' = [calls EXCEPT ![c] =
        IF server.revision = Revisions[1] THEN [@ EXCEPT !.pc = "capabilities"]
        ELSE Fails(@, "MEMORY_REVISION_MISMATCH")]
  /\ UNCHANGED <<memories, server, changes, ctx>>

(* A token that can do more than read and write one scope is refused too. *)
CheckCapabilities(c) ==
  /\ calls[c].pc = "capabilities"
  /\ calls' = [calls EXCEPT ![c] =
        IF ~server.memory THEN Fails(@, "MEMORY_UNAVAILABLE")
        ELSE IF server.token # "minimum" THEN Fails(@, "MEMORY_DENIED")
        ELSE [@ EXCEPT !.pc = IF calls[c].kind = "write" THEN "post" ELSE "recall"]]
  /\ UNCHANGED <<memories, server, changes, ctx>>

(* POST /v1/memories as the server performs it: a known key is replayed    *)
(* when the payload is the same and a conflict when it is not.             *)
Stored(q, pin) ==
  [workspace |-> pin.workspace, scope |-> pin.scope, session |-> q.session,
   content |-> Content(q), active |-> TRUE, version |-> 1, key |-> IdempotencyKey(q),
   req |-> q]

Known(q) == {i \in DOMAIN memories : memories[i].key = IdempotencyKey(q)}

Remember(c) ==
  LET q == calls[c].req
      pin == Pinned[c]
      read(i) == [calls[c] EXCEPT !.pc = "readback", !.memory = [id |-> i,
                                 version |-> memories'[i].version]]
  IN /\ calls[c].pc = "post"
     /\ IF Known(q) = {}
        THEN /\ Len(memories) < MaxMemories
             /\ memories' = Append(memories, Stored(q, pin))
             /\ calls' = [calls EXCEPT ![c] = read(Len(memories) + 1)]
        ELSE LET i == CHOOSE k \in Known(q) : TRUE IN
             /\ UNCHANGED memories
             /\ calls' = [calls EXCEPT ![c] =
                  IF memories[i].content # Content(q) THEN Fails(@, "MEMORY_CONFLICT")
                  ELSE IF ~ReadbackMatches(memories[i], q, pin)
                    THEN Fails(@, "MEMORY_READBACK_MISMATCH")
                  ELSE read(i)]
     /\ UNCHANGED <<server, changes, ctx>>

(* The server acted, the reply did not arrive. *)
RememberReplyLost(c) ==
  LET q == calls[c].req IN
  /\ calls[c].pc = "post" /\ Known(q) = {} /\ Len(memories) < MaxMemories
  /\ memories' = Append(memories, Stored(q, Pinned[c]))
  /\ calls' = [calls EXCEPT ![c] = Fails(@, "MEMORY_UNAVAILABLE")]
  /\ UNCHANGED <<server, changes, ctx>>

(* GET of the memory just written: same memory, same version, same state. *)
ReadBack(c) ==
  LET l == calls[c]
      m == memories[l.memory.id]
  IN /\ l.pc = "readback"
     /\ calls' = [calls EXCEPT ![c] =
          IF ReadbackMatches(m, l.req, Pinned[c]) /\ m.version = l.memory.version
          THEN [l EXCEPT !.pc = "done", !.result = l.memory]
          ELSE Fails(l, "MEMORY_READBACK_MISMATCH")]
     /\ UNCHANGED <<memories, server, changes, ctx>>

(* POST /v1/durable-context/recall: whatever the server returns, the reply *)
(* is used only when every hit is of the pinned scope.  The locator names  *)
(* the version the server cites, which may be another than it holds.       *)
Hit(m, v) == [workspace |-> m.workspace, scope |-> m.scope, active |-> m.active,
              version |-> m.version, locatorVersion |-> v, content |-> m.content]

Recall(c) ==
  /\ calls[c].pc = "recall"
  /\ \E ids \in SUBSET DOMAIN memories, stale \in BOOLEAN :
       LET hits == [k \in 1..Cardinality(ids) |->
                      LET i == SetToSortSeq(ids, <)[k]
                      IN Hit(memories[i], IF stale THEN memories[i].version - 1
                                          ELSE memories[i].version)]
       IN calls' = [calls EXCEPT ![c] =
            IF RecallAccepted(hits, Pinned[c])
            THEN [@ EXCEPT !.pc = "done", !.result = hits]
            ELSE Fails(@, "MEMORY_SCOPE_MISMATCH")]
  /\ UNCHANGED <<memories, server, changes, ctx>>

(* requestJson and mapHttpError: fetch fails or times out, the status is   *)
(* an error, the body is too long or no JSON.  A timeout while the body is *)
(* being read is no MemoryPortError at all (untyped).                      *)
RequestFails(c) ==
  /\ calls[c].pc \in {"version", "capabilities", "post", "readback", "recall"}
  /\ \E code \in {"MEMORY_UNAVAILABLE", "MEMORY_DENIED", "MEMORY_NOT_FOUND",
                  "MEMORY_CONTRACT_UNSUPPORTED", "untyped"} :
       calls' = [calls EXCEPT ![c] = Fails(@, code)]
  /\ UNCHANGED <<memories, server, changes, ctx>>

(* The mem server meanwhile: upgrade, outage of the feature, another       *)
(* token, a memory forgotten or given feedback.                            *)
ServerChanges ==
  /\ changes < MaxChanges
  /\ changes' = changes + 1
  /\ \/ /\ \E rev \in Range(Revisions), on \in BOOLEAN, t \in {"minimum", "wider"} :
             server' = [revision |-> rev, memory |-> on, token |-> t]
        /\ UNCHANGED memories
     \/ /\ \E i \in DOMAIN memories :
             \/ memories' = [memories EXCEPT ![i].active = FALSE]
             \/ memories' = [memories EXCEPT ![i].version = @ + 1]
        /\ UNCHANGED server
  /\ UNCHANGED <<calls, ctx>>

-----------------------------------------------------------------------------
(* One recall through the context CLI: the child's exit, a spawn error, an *)
(* output flood and the timer race; the first settles the recall.          *)

ContextSpawns ==
  /\ ctx.pc = "idle"
  /\ ctx' = [ctx EXCEPT !.pc = "waiting", !.child = "running"]
  /\ UNCHANGED <<memories, server, calls, changes>>

(* Timer or flood: the child is killed and the recall is an outage. *)
ContextKilled ==
  /\ ctx.pc = "waiting" /\ ctx.child = "running"
  /\ ctx' = [pc |-> "settled", child |-> "killed", code |-> "CONTEXT_UNAVAILABLE"]
  /\ UNCHANGED <<memories, server, calls, changes>>

ContextSpawnError ==
  /\ ctx.pc = "waiting" /\ ctx.child = "running"
  /\ ctx' = [pc |-> "settled", child |-> "exited", code |-> "CONTEXT_UNAVAILABLE"]
  /\ UNCHANGED <<memories, server, calls, changes>>

(* close: exit 0 with a bundle to validate, or a failure that classifies   *)
(* what the child wrote on stderr (never as an outage).                    *)
ContextCloses ==
  /\ ctx.child = "running"
  /\ \/ \E b \in Bundles :
          ctx' = [pc |-> "settled", child |-> "exited", code |-> BundleVerdict(b)]
     \/ \E code \in {"CONTEXT_SCOPE_MISMATCH", "CONTEXT_NOT_FOUND", "CONTEXT_CORRUPT_RECORD",
                     "CONTEXT_CONFIGURATION_INVALID", "CONTEXT_DENIED"} :
          ctx' = [pc |-> "settled", child |-> "exited", code |-> code]
  /\ UNCHANGED <<memories, server, calls, changes>>

MemoryNext ==
  \/ \E c \in Callers :
       \/ WriteStarts(c) \/ RecallStarts(c) \/ CheckVersion(c) \/ CheckCapabilities(c)
       \/ Remember(c) \/ RememberReplyLost(c) \/ ReadBack(c) \/ Recall(c) \/ RequestFails(c)
  \/ ServerChanges

ContextNext == ContextSpawns \/ ContextKilled \/ ContextSpawnError \/ ContextCloses

(* The two adapters share nothing: a context recall is explored while the  *)
(* memory service rests in its initial state and the other way round.      *)
PortNext ==
  \/ ctx = NoCtx /\ MemoryNext
  \/ memories = <<>> /\ changes = 0 /\ (\A c \in Callers : calls[c] = NoCall) /\ ContextNext

PortSpec == PortInit /\ [][PortNext]_portVars

-----------------------------------------------------------------------------
(* A turn's outcome is remembered once: however many callers write it and  *)
(* however often a lost answer makes them write again, no two memories     *)
(* stand for the same turn and output, and a write that reported success   *)
(* is the memory it says, with the content it was given.                   *)
RememberedOnce ==
  /\ \A i, j \in DOMAIN memories : i # j =>
       LET a == memories[i].req  b == memories[j].req IN
       <<a.instance, a.session, a.turn, a.position, a.digest>>
         # <<b.instance, b.session, b.turn, b.position, b.digest>>
  /\ \A c \in Callers : (calls[c].kind = "write" /\ calls[c].pc = "done") =>
       memories[calls[c].result.id].content = Content(calls[c].req)

(* No position ever reads or writes another position's memory: what a      *)
(* recall returns is of the pinned scope, whatever the server answers, and *)
(* what the server holds was written through the scope it lies in.         *)
ScopesIsolated ==
  /\ \A c \in Callers : (calls[c].kind = "recall" /\ calls[c].pc = "done") =>
       \A i \in DOMAIN calls[c].result :
          calls[c].result[i].scope = Pinned[c].scope /\ calls[c].result[i].active
  /\ \A i \in DOMAIN memories : memories[i].scope = memories[i].req.scope

(* The memory of a turn is written once and read by its own position only, *)
(* whatever is lost, repeated or changed on the way (the mem adapter).      *)
MemorySound == RememberedOnce /\ ScopesIsolated
=============================================================================
