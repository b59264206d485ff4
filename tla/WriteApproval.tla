---------------------------- MODULE WriteApproval ----------------------------
(***************************************************************************)
(* WriteApprovalEngine (packages/core/src/write-approval-engine.ts and     *)
(* write-approval.ts): previews of writes, the decisions a reviewer takes  *)
(* on them, and the executions those decisions allow.  The executor is     *)
(* awaited, so several previews execute at once, and two previews of the   *)
(* same write have the same idempotency key.  Decisions travel: they may   *)
(* arrive late, twice, or after the preview went on to another attempt.    *)
(***************************************************************************)
EXTENDS Integers, FiniteSets

CONSTANTS
  Previews,     \* preview ids (randomUUID)
  Writes,       \* what is to be written: task, tool, target and effect
  Undeclared,   \* the writes whose tool the request does not declare
  MaxAttempts,  \* bound: attempts of one preview
  MaxThrows,    \* bound: executor calls of one preview that throw
  MaxWriteNow   \* bound: clock readings

ASSUME WriteAssumption ==
  /\ Undeclared \subseteq Writes
  /\ MaxAttempts \in Nat \ {0} /\ MaxThrows \in Nat /\ MaxWriteNow \in Nat

VARIABLES
  writeNow,
  entry,          \* entries: per preview [state, write, attempt], or NoEntry
  consumed,       \* consumedKeys and idempotencyCache: both keyed by the write
  decisions,      \* every decision a reviewer ever sent
  executorCalls  \* history: every executor call [preview, attempt, outcome]

writeVars == <<writeNow, entry, consumed, decisions, executorCalls>>

NoPreview == [state |-> "none"]
Previewed(p) == entry[p] # NoPreview

----------------------------------------------------------------------------
\* previewDigest and idempotencyKey are functions of the write (computePreview-
\* Digest, deriveIdempotencyKey): equal exactly for equal writes.
DigestOf(w) == w
KeyOf(w) == w

\* classifyApprovalGuard.  attempt and fencingToken are renewed together, so
\* the token of an attempt is the attempt.
GuardAllows(d) ==
  /\ d.digest = DigestOf(entry[d.preview].write)
  /\ d.attempt = entry[d.preview].attempt
  /\ KeyOf(entry[d.preview].write) \notin consumed
  /\ writeNow <= d.expiresAt

\* The two tests of execute: a cached success is returned instead, and the
\* state must be approved, or failed by an executor that threw.
CachedNever(p) == FALSE
Cached(p) == KeyOf(entry[p].write) \in consumed
Executable(p) == entry[p].state \in {"approved", "failed"}

----------------------------------------------------------------------------
WriteInit ==
  /\ writeNow = 0
  /\ entry = [p \in Previews |-> NoPreview]
  /\ consumed = {} /\ decisions = {} /\ executorCalls = {}

\* createPreview; an undeclared tool throws.
CreatePreview(p, w) ==
  /\ ~Previewed(p) /\ w \notin Undeclared
  /\ entry' = [entry EXCEPT ![p] = [state |-> "preview_validated", write |-> w, attempt |-> 1]]
  /\ UNCHANGED <<writeNow, consumed, decisions, executorCalls>>

\* A reviewer decides on the preview as displayed to it: the write it was
\* shown may have been altered (external).
Review(p, shown, approved, expiresAt) ==
  /\ Previewed(p)
  /\ decisions' = decisions \cup
       {[preview |-> p, digest |-> DigestOf(shown), attempt |-> entry[p].attempt,
         approved |-> approved, expiresAt |-> expiresAt]}
  /\ UNCHANGED <<writeNow, entry, consumed, executorCalls>>

\* submitDecision: a denial is taken without the guard, an approval with it.
SubmitDecision(d) ==
  /\ entry[d.preview].state = "preview_validated"
  /\ d.approved => GuardAllows(d)
  /\ entry' = [entry EXCEPT ![d.preview].state = IF d.approved THEN "approved" ELSE "denied"]
  /\ UNCHANGED <<writeNow, consumed, decisions, executorCalls>>

\* execute, up to the executor it awaits; a call on a cached key changes nothing.
Execute(p) ==
  /\ Previewed(p) /\ ~Cached(p) /\ Executable(p)
  /\ entry' = [entry EXCEPT ![p].state = "executing"]
  /\ UNCHANGED <<writeNow, consumed, decisions, executorCalls>>

\* The executor calls already made for the present attempt of a preview (all
\* of them threw, or it would not be the present attempt).
CallsOf(p) == {c \in executorCalls : c.preview = p /\ c.attempt = entry[p].attempt}

\* The executor throws: the approval stays good for another execute.
ExecutorThrows(p) ==
  /\ entry[p].state = "executing" /\ Cardinality(CallsOf(p)) < MaxThrows
  /\ entry' = [entry EXCEPT ![p].state = "failed"]
  /\ executorCalls' = executorCalls \cup {[preview |-> p, attempt |-> entry[p].attempt,
                           outcome |-> "threw", nth |-> Cardinality(CallsOf(p))]}
  /\ UNCHANGED <<writeNow, consumed, decisions>>

\* The executor returns a success: the key is consumed.
ExecutorSucceeds(p) ==
  /\ entry[p].state = "executing"
  /\ entry' = [entry EXCEPT ![p].state = "success"]
  /\ consumed' = consumed \cup {KeyOf(entry[p].write)}
  /\ executorCalls' = executorCalls \cup {[preview |-> p, attempt |-> entry[p].attempt,
                           outcome |-> "success", nth |-> Cardinality(CallsOf(p))]}
  /\ UNCHANGED <<writeNow, decisions>>

\* It returns a failure (with or without required compensation): the next
\* attempt needs an approval of its own.
ExecutorFails(p) ==
  /\ entry[p].state = "executing" /\ entry[p].attempt < MaxAttempts
  /\ entry' = [entry EXCEPT ![p].state = "preview_validated", ![p].attempt = @ + 1]
  /\ executorCalls' = executorCalls \cup {[preview |-> p, attempt |-> entry[p].attempt,
                           outcome |-> "failed", nth |-> Cardinality(CallsOf(p))]}
  /\ UNCHANGED <<writeNow, consumed, decisions>>

WriteTick ==
  /\ writeNow < MaxWriteNow
  /\ writeNow' = writeNow + 1 /\ UNCHANGED <<entry, consumed, decisions, executorCalls>>

WriteNext ==
  \/ \E p \in Previews, w \in Writes : CreatePreview(p, w)
  \/ \E p \in Previews, w \in Writes, a \in BOOLEAN, x \in 0..MaxWriteNow : Review(p, w, a, x)
  \/ \E d \in decisions : SubmitDecision(d)
  \/ \E p \in Previews :
       \/ Execute(p) \/ ExecutorThrows(p) \/ ExecutorSucceeds(p) \/ ExecutorFails(p)
  \/ WriteTick

WriteSpec == WriteInit /\ [][WriteNext]_writeVars

----------------------------------------------------------------------------
\* Every executor call belongs to an approval a reviewer gave to this preview,
\* for this very write and this very attempt: late, repeated, altered or
\* outdated decisions never let a write through.
EveryCallApproved ==
  \A p \in Previews :
    /\ entry[p].state \in {"approved", "executing", "failed", "success"} =>
         \E d \in decisions : /\ d.preview = p /\ d.approved
                              /\ d.attempt = entry[p].attempt
                              /\ d.digest = DigestOf(entry[p].write)
    /\ \A c \in executorCalls : c.preview = p =>
         \E d \in decisions : /\ d.preview = p /\ d.approved /\ d.attempt = c.attempt
                              /\ d.digest = DigestOf(entry[p].write)

\* An approval pays for one answer of the executor: once a call of an attempt
\* returned, success or failure, no other call of that attempt follows it.
OneAnswerPerApproval ==
  \A c1, c2 \in executorCalls :
    ( /\ c1.preview = c2.preview /\ c1.attempt = c2.attempt
      /\ c1.outcome # "threw" /\ c2.outcome # "threw" ) => c1 = c2

\* Once a write has succeeded no executor call for it starts, through whichever
\* preview and approval: execute returns the cached result.
NoCallAfterSuccess ==
  [][\A p \in Previews :
       entry'[p].state = "executing" /\ entry[p].state # "executing"
         => KeyOf(entry[p].write) \notin consumed]_writeVars

\* Denied and succeeded previews stay so, whatever decisions and execute calls
\* follow.
VerdictsFinal ==
  [][\A p \in Previews : entry[p].state \in {"denied", "success"} => entry'[p] = entry[p]]_writeVars

\* An approval lets one attempt of one write through, a write that succeeded is
\* not repeated, and verdicts are not taken back (write-approval-engine.ts).
WritesSound ==
  [](EveryCallApproved /\ OneAnswerPerApproval) /\ NoCallAfterSuccess /\ VerdictsFinal
=============================================================================
