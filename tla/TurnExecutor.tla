---------------------------- MODULE TurnExecutor ----------------------------
(***************************************************************************)
(* One governed turn: executeTurn of packages/engine with the policies it  *)
(* applies (permission gate, recall, budgets, approval verdicts, doom loop,*)
(* terminal schema), run by `turn run` with the file evidence sink.        *)
(*                                                                         *)
(* Several runs may be under way at once, for different turns or for the   *)
(* same turn retried by the Workbench.  They share the evidence directory, *)
(* the memory service and, when the embedder passes one ledger to several  *)
(* runs, the position budget.  Every await is a point where another run    *)
(* may step; a process may die at any of them.                             *)
(***************************************************************************)
EXTENDS Naturals, FiniteSets, Sequences, SequencesExt

CONSTANTS Runs, Turns, TurnOf,
          Requests,         \* run -> sealed requests it may be started with
          LedgerKeys,       \* (position, task, day) keys of the budget ledger
          Limit,            \* iteration cap of a position budget
          Texts,            \* model outputs; "good" satisfies the schema
          Repetition, Oscillation, Window,   \* DoomLoopConfig
          SinkFaults,       \* whether writing an evidence file may fail
          MaxTime, MaxCrashes,
          None

(* A request as its schema lets it through.                                *)
SealedRequest(q) ==
  /\ q # None /\ q.maxIterations \in Nat /\ q.key \in LedgerKeys \cup {None}
  /\ q.reads \in Seq(Seq(STRING)) /\ q.tools \in Seq(STRING)
  /\ q.approval \in {"none", "action", "stale_action", "single", "batch"}
  /\ q.verdicts \in Seq(Range(q.verdicts))
  /\ \A v \in Range(q.verdicts) :
       v.decision \in {"granted", "denied"} /\ v.expires \in Nat \cup {None}

(* The machine codes a record may carry, those a run may end with, what    *)
(* became of its approval, and the terminal reasons.                       *)
RecordCodes ==
  {"permission_denied", "context_budget_exceeded", "approval_preview_invalid",
   "approval_required", "approval_expired", "approval_denied", "iteration_cap",
   "output_invalid", "cancelled", "deadline_exceeded", "position_budget_exceeded",
   "internal_error", "turn_budget_exceeded", "doom_loop", "goal_met"}
Codes ==
  RecordCodes \cup {"permissions_invalid", "input_invalid", "output_schema_invalid",
                    "unavailable", "denied"}
Refs == {"none", "requested", "granted", "denied", "expired"}
TerminalReasons ==
  {"goal_met", "invalid_output_exhausted", "turn_budget_exceeded", "position_budget_exceeded",
   "iteration_cap", "doom_loop", "deadline_exceeded", "cancelled", "permission_denied",
   "memory_unavailable", "memory_denied", "context_unavailable", "context_denied",
   "engine_internal_error"}
DenialKinds == {"authority", "context", "position_unknown"}

(* A record of turn-evidence, with the fields the properties read.         *)
TurnRecords ==
  [run : Runs, code : RecordCodes, refs : Refs, reason : TerminalReasons,
   status : {"completed", "failed"}, iterations : Nat, maxIterations : Nat,
   permissions : [allowed : Nat, denied : SUBSET DenialKinds], startedAt : Nat, completedAt : Nat]

ASSUME TurnAssumption ==
  /\ IsFiniteSet(Runs) /\ TurnOf \in [Runs -> Turns]
  /\ Limit \in Nat /\ MaxTime \in Nat
  /\ None \notin Nat \cup LedgerKeys \cup Codes \cup TurnRecords
  /\ \A r \in Runs : \A q \in Requests[r] : SealedRequest(q)

VARIABLES s,          \* run -> local state of executeTurn and runTurn
          evidence,   \* turn -> evidence file, or None
          ledger,     \* key -> committed iterations
          taskState,  \* turns whose task state reached durable memory
          now, crashes

turnVars == <<s, evidence, ledger, taskState, now, crashes>>

-----------------------------------------------------------------------------
(* Pure policies. *)

(* Approval members of a request: a batch has at least two verdicts, no    *)
(* approval twice, one decision for all.                                   *)
ApprovalFieldsValid(q) ==
  /\ q.approval \in {"none", "action", "stale_action"} <=> q.verdicts = <<>>
  /\ q.approval = "single" => Len(q.verdicts) = 1
  /\ q.approval = "batch" =>
       /\ Len(q.verdicts) >= 2
       /\ \A i, j \in DOMAIN q.verdicts :
            /\ i # j => q.verdicts[i].id # q.verdicts[j].id
            /\ q.verdicts[i].decision = q.verdicts[j].decision

ValidTurnRequest(q) == q.maxIterations >= 1 /\ ApprovalFieldsValid(q)

(* The permission artifact, validated again on every read: an entry is     *)
(* filed under its own position, knows its tier and denies every write.    *)
ValidArtifact(perms) ==
  \A p \in DOMAIN perms :
    perms[p].position = p /\ perms[p].tier \in {"owner", "worker"} /\ perms[p].writes = "deny"

(* What a turn asks for: context paths, then tools.  A path is a sequence  *)
(* of names; one that leaves the workspace does not normalise.             *)
Asks(q) == [i \in DOMAIN q.reads |-> [kind |-> "context", what |-> q.reads[i]]]
           \o [i \in DOMAIN q.tools |-> [kind |-> "authority", what |-> q.tools[i]]]
Normalizes(path) == ".." \notin Range(path)
Permits(entry, ask) ==
  IF ask.kind = "authority" THEN ask.what \in entry.allow
  ELSE Normalizes(ask.what) /\ \E scope \in entry.read : IsPrefix(scope, ask.what)

(* The gate stops at the first denial and counts what it decided until     *)
(* then; an unknown position is one denial of its own.                     *)
DecisionSummary(q) ==
  IF q.permissions = None THEN [allowed |-> 0, denied |-> {}]
  ELSE IF q.position \notin DOMAIN q.permissions
    THEN [allowed |-> 0, denied |-> {"position_unknown"}]
  ELSE
    LET asks == Asks(q)
        entry == q.permissions[q.position]
        refused == {i \in DOMAIN asks : ~Permits(entry, asks[i])}
        first == {i \in refused : \A j \in refused : i <= j}
    IN [allowed |-> Cardinality({i \in DOMAIN asks : \A j \in refused : i < j}),
        denied |-> {asks[i].kind : i \in first}]

(* nowMs > expiresAt; a verdict without a bound (None) does not expire. *)
VerdictExpired(v) == v.expires # None /\ now > v.expires

(* checkPositionBudget on the usage last read; None is no declaration. *)
PositionExceeded(use, increment) == use + increment > Limit

RepetitionCount(h) ==
  LET same == {n \in 1..Len(h) : \A k \in 0..n-1 : h[Len(h)-k] = Last(h)}
  IN Cardinality(same)

OscillationCycles(h) ==
  LET n == Len(h)
      alternating == {k \in 1..n : \A d \in 0..k-1 :
                        h[n-d] = IF d % 2 = 0 THEN h[n] ELSE h[n-1]}
  IN IF n < 4 \/ h[n] = h[n-1] THEN 0 ELSE Cardinality(alternating) \div 4

Observed(h, text) ==
  LET all == Append(h, text) IN IF Len(all) > Window THEN Tail(all) ELSE all

DoomLoop(h) == RepetitionCount(h) >= Repetition \/ OscillationCycles(h) >= Oscillation

(* A recall port answers, is unavailable or refuses; an outage is fatal in *)
(* required mode only, a refusal always.                                   *)
RecallResults == {"items", "unavailable", "denied"}
RecallCode(mode, result) ==
  CASE mode = "off" \/ result = "items"                 -> None
    [] mode = "optional" /\ result = "unavailable"      -> None
    [] mode = "required" /\ result = "unavailable"      -> "unavailable"
    [] OTHER                                            -> "denied"

(* TerminalReason: several machine codes share one reason. *)
ReasonOf(code) ==
  CASE code \in {"approval_required", "approval_denied", "approval_expired"} -> "cancelled"
    [] code \in {"approval_preview_invalid", "internal_error"} -> "engine_internal_error"
    [] code = "context_budget_exceeded" -> "turn_budget_exceeded"
    [] code = "output_invalid" -> "invalid_output_exhausted"
    [] OTHER -> code

-----------------------------------------------------------------------------
Fresh == [pc |-> "new", req |-> None, started |-> FALSE, startedAt |-> None, attempt |-> 0,
          iterations |-> 0, used |-> 0, history |-> <<>>, consumed |-> FALSE, refs |-> "none",
          gateAt |-> None, code |-> None, onFail |-> "fail", terminal |-> None, exit |-> None]

TurnInit ==
  /\ s = [r \in Runs |-> Fresh]
  /\ evidence = [t \in Turns |-> None]
  /\ ledger = [k \in LedgerKeys |-> 0]
  /\ taskState = {}
  /\ now = 0 /\ crashes = 0

(* A run that stops has no further use for the state of its loop. *)
Settled(l, pc, code) ==
  [l EXCEPT !.pc = pc, !.code = code, !.history = <<>>, !.attempt = 0, !.used = 0]
Terminates(l, code) ==
  [Settled(l, "terminal", code) EXCEPT !.startedAt = None, !.iterations = 0]
Records(l, code, onFail) == [Settled(l, "evidence", code) EXCEPT !.onFail = onFail]

Local == UNCHANGED <<evidence, ledger, taskState, now, crashes>>

(* `turn run`: the envelope, the workspace files, the memory configuration *)
(* or the model port is unusable: exit 1 and no event at all.              *)
SpawnFails(r) ==
  /\ s[r].pc = "new"
  /\ s' = [s EXCEPT ![r].pc = "exited", ![r].exit = 1]
  /\ Local

(* The permission gate, before any event: an invalid artifact ends the run *)
(* without evidence, a denial only after its evidence.                     *)
PermissionGate(r) ==
  /\ s[r].pc = "new"
  /\ \E q \in Requests[r] :
       LET l == [s[r] EXCEPT !.req = q, !.startedAt = now] IN
       s' = [s EXCEPT ![r] =
              IF q.permissions # None /\ ~ValidArtifact(q.permissions)
                THEN Terminates(l, "permissions_invalid")
              ELSE IF DecisionSummary(q).denied # {}
                THEN Records(l, "permission_denied", "fail")
              ELSE [l EXCEPT !.pc = "prepare", !.started = TRUE]]
  /\ Local

(* After run.started: request and schema checks, memory recall, context    *)
(* recall, context assembly.  None of these failures leaves evidence.      *)
Prepare(r) ==
  LET q == s[r].req IN
  /\ s[r].pc = "prepare"
  /\ \E m \in RecallResults, c \in RecallResults :
       s' = [s EXCEPT ![r] =
              IF ~ValidTurnRequest(q) THEN Terminates(@, "input_invalid")
              ELSE IF q.schema = "bad" THEN Terminates(@, "output_schema_invalid")
              ELSE IF RecallCode(q.memory, m) # None
                THEN Terminates(@, RecallCode(q.memory, m))
              ELSE IF RecallCode(q.context, c) # None
                THEN Terminates(@, RecallCode(q.context, c))
              ELSE [@ EXCEPT !.pc = "gate"]]
  /\ Local

(* ledger.read, the byte cap of the assembled context, then the approval   *)
(* gate: every member is checked for expiry before the first verdict is    *)
(* emitted, and the run goes on to the model only when all are granted.    *)
ApprovalGate(r) ==
  LET q == s[r].req
      l == [s[r] EXCEPT !.gateAt = now,
                        !.used = IF q.key = None THEN 0 ELSE ledger[q.key]]
      loop == [l EXCEPT !.pc = "top", !.attempt = 1]
      members == Range(q.verdicts)
      refs(outcome) == [l EXCEPT !.refs = outcome]
  IN /\ s[r].pc = "gate"
     /\ s' = [s EXCEPT ![r] =
          CASE q.contextOver -> Records(l, "context_budget_exceeded", "fail")
            [] q.approval = "none" /\ ~q.contextOver -> loop
            [] q.approval = "stale_action" /\ ~q.contextOver ->
                 Records(l, "approval_preview_invalid", "fail")
            [] q.approval = "action" /\ ~q.contextOver ->
                 Records(refs("requested"), "approval_required", "fail")
            [] q.approval \in {"single", "batch"} /\ ~q.contextOver ->
                 IF \E v \in members : VerdictExpired(v)
                 THEN Records(refs("expired"), "approval_expired", "fail")
                 ELSE IF q.verdicts[1].decision = "denied"
                 THEN Records(refs("denied"), "approval_denied", "fail")
                 ELSE [loop EXCEPT !.refs = "granted"]]
     /\ Local

(* Head of the loop: cancellation, deadline, position budget against the   *)
(* usage last read, or one more model call.  A schema-less turn that used  *)
(* up its iterations stops with iteration_cap, one with a schema with      *)
(* invalid_output_exhausted.  The caller may abort at any time.            *)
LoopTop(r) ==
  LET q == s[r].req IN
  /\ s[r].pc = "top"
  /\ \E aborted \in BOOLEAN :
       s' = [s EXCEPT ![r] =
         CASE s[r].attempt > q.maxIterations /\ q.schema = "none" ->
                Records(@, "iteration_cap", "fail")
           [] s[r].attempt > q.maxIterations /\ q.schema # "none" ->
                Records(@, "output_invalid", "throw")
           [] s[r].attempt <= q.maxIterations /\ aborted ->
                Records(@, "cancelled", "swallow")
           [] s[r].attempt <= q.maxIterations /\ ~aborted ->
                IF q.deadline # None /\ now > q.deadline
                THEN Records(@, "deadline_exceeded", "fail")
                ELSE IF q.key # None /\ PositionExceeded(s[r].used, 1)
                THEN Records(@, "position_budget_exceeded", "fail")
                ELSE [@ EXCEPT !.pc = "model", !.consumed = TRUE]]
  /\ Local

(* model.complete returns a text, or throws: the catch block of the loop. *)
ModelAnswers(r) ==
  /\ s[r].pc = "model"
  /\ \/ \E text \in Texts :
          s' = [s EXCEPT ![r].pc = "commit", ![r].iterations = @ + 1,
                         ![r].history = Observed(s[r].history, text)]
     \/ s' = [s EXCEPT ![r] = Records(@, "internal_error", "swallow")]
  /\ Local

CommitUsage(r) ==
  LET k == s[r].req.key IN
  /\ s[r].pc = "commit"
  /\ ledger' = IF k = None THEN ledger ELSE [ledger EXCEPT ![k] = @ + 1]
  /\ s' = [s EXCEPT ![r].pc = "check"]
  /\ UNCHANGED <<evidence, taskState, now, crashes>>

(* The ledger is read again, so that what other runs committed meanwhile   *)
(* counts; then token budget, doom loop, schema.  Every model call here    *)
(* costs one token.                                                        *)
CheckAnswer(r) ==
  LET q == s[r].req
      l == [s[r] EXCEPT !.used = IF q.key = None THEN 0 ELSE ledger[q.key]]
      overTokens == q.maxTokens # None /\ s[r].attempt > q.maxTokens
      good == q.schema = "none" \/ Last(s[r].history) = "good"
  IN /\ s[r].pc = "check"
     /\ s' = [s EXCEPT ![r] =
          IF q.key # None /\ PositionExceeded(l.used, 0)
            THEN Records(l, "position_budget_exceeded", "fail")
          ELSE IF overTokens THEN Records(l, "turn_budget_exceeded", "fail")
          ELSE IF DoomLoop(l.history) THEN Records(l, "doom_loop", "fail")
          ELSE IF good THEN Records(l, "goal_met", "throw")
          ELSE [l EXCEPT !.pc = "top", !.attempt = @ + 1]]
     /\ Local

-----------------------------------------------------------------------------
(* FileEvidenceSink.write: one file for a turn, never replaced. *)

RecordOf(r) ==
  [run |-> r, code |-> s[r].code, refs |-> s[r].refs, reason |-> ReasonOf(s[r].code),
   status |-> IF s[r].code = "goal_met" THEN "completed" ELSE "failed",
   iterations |-> s[r].iterations, maxIterations |-> s[r].req.maxIterations,
   permissions |-> DecisionSummary(s[r].req),
   startedAt |-> s[r].startedAt, completedAt |-> now]

(* The conformance check of turn-evidence.v1. *)
ConformantRecord(rec) ==
  /\ rec.iterations <= rec.maxIterations
  /\ rec.status \in {"completed", "failed"} /\ rec.reason \in TerminalReasons
  /\ rec.refs \in Refs
  /\ rec.permissions.denied \subseteq DenialKinds
  /\ rec.startedAt <= rec.completedAt

(* serializeRecord accepts the record keys of RECORD_KEYS only; approvalRefs *)
(* (the refs of a batch) is not one of them.                               *)
Serializable(r) == ~(s[r].req.approval = "batch" /\ s[r].refs # "none")

\* Two variants: a completed turn is reported although it was not recorded,
\* and the catch block writes again and again.
WriteFailsCompletes(l) ==
  IF l.onFail = "fail" THEN Terminates(l, "internal_error") ELSE Terminates(l, l.code)
WriteFailsRetries(l) ==
  IF l.onFail = "fail" THEN Terminates(l, "internal_error")
  ELSE Records(l, "internal_error", "swallow")

(* Where a failed write leads: a governance stop fails closed, a write in  *)
(* the loop throws into the catch block, the catch block swallows it.      *)
WriteFails(l) ==
  CASE l.onFail = "fail"    -> Terminates(l, "internal_error")
    [] l.onFail = "throw"   -> Records(l, "internal_error", "swallow")
    [] l.onFail = "swallow" -> Terminates(l, l.code)

(* The checks of the record and the directories, then the look at the      *)
(* target; evidence ids are fresh, so an existing file is never identical. *)
EvidenceChecks(r) ==
  /\ s[r].pc = "evidence"
  /\ s' = [s EXCEPT ![r] =
        IF ~Serializable(r) \/ evidence[TurnOf[r]] # None
        THEN WriteFails(@) ELSE [@ EXCEPT !.pc = "link"]]
  /\ Local

\* The variant renames over an existing target.
EvidenceLinkReplaces(r) ==
  /\ s[r].pc = "link"
  /\ evidence' = [evidence EXCEPT ![TurnOf[r]] = RecordOf(r)]
  /\ s' = [s EXCEPT ![r] = Terminates(@, @.code)]
  /\ UNCHANGED <<ledger, taskState, now, crashes>>

(* link() refuses an existing target (EEXIST). *)
EvidenceLink(r) ==
  LET t == TurnOf[r] IN
  /\ s[r].pc = "link"
  /\ IF evidence[t] = None
     THEN /\ evidence' = [evidence EXCEPT ![t] = RecordOf(r)]
          /\ s' = [s EXCEPT ![r] = Terminates(@, @.code)]
     ELSE s' = [s EXCEPT ![r] = WriteFails(@)] /\ UNCHANGED evidence
  /\ UNCHANGED <<ledger, taskState, now, crashes>>

(* Disk full, permissions, a symbolic link in the way. *)
EvidenceIOError(r) ==
  /\ SinkFaults
  /\ s[r].pc \in {"evidence", "link"}
  /\ s' = [s EXCEPT ![r] = WriteFails(@)]
  /\ Local

(* The terminal event reaches runTurn.  run.completed with memory enabled  *)
(* first writes the task state; a failure that optional mode does not      *)
(* tolerate exits 1 and the event is never printed.                        *)
EmitTerminal(r) ==
  LET l == s[r]
      printed == [s EXCEPT ![r].pc = "exited", ![r].exit = 0, ![r].terminal = l.code]
  IN /\ l.pc = "terminal"
     /\ IF l.code # "goal_met" \/ l.req.memory = "off"
        THEN s' = printed /\ UNCHANGED taskState
        ELSE \/ s' = printed /\ taskState' = taskState \cup {TurnOf[r]}
             \/ /\ l.req.memory = "optional"        \* MEMORY_UNAVAILABLE
                /\ s' = printed /\ UNCHANGED taskState
             \/ /\ s' = [s EXCEPT ![r].pc = "exited", ![r].exit = 1]
                /\ UNCHANGED taskState
     /\ UNCHANGED <<evidence, ledger, now, crashes>>

Crash(r) ==
  /\ crashes < MaxCrashes
  /\ s[r].pc \notin {"new", "exited", "dead"}
  /\ s' = [s EXCEPT ![r].pc = "dead"]
  /\ crashes' = crashes + 1
  /\ UNCHANGED <<evidence, ledger, taskState, now>>

ClockTicks ==
  /\ now < MaxTime
  /\ now' = now + 1
  /\ UNCHANGED <<s, evidence, ledger, taskState, crashes>>

RunStep(r) ==
  \/ SpawnFails(r) \/ PermissionGate(r) \/ Prepare(r) \/ ApprovalGate(r)
  \/ LoopTop(r) \/ ModelAnswers(r) \/ CommitUsage(r) \/ CheckAnswer(r)
  \/ EvidenceChecks(r) \/ EvidenceLink(r) \/ EvidenceIOError(r)
  \/ EmitTerminal(r)

TurnNext == ClockTicks \/ \E r \in Runs : RunStep(r) \/ Crash(r)

(* A run that can step does: the model port and the memory adapter both    *)
(* answer or time out, file operations return.                             *)
TurnFairness == \A r \in Runs : WF_turnVars(RunStep(r))

TurnSpec == TurnInit /\ [][TurnNext]_turnVars /\ TurnFairness

-----------------------------------------------------------------------------
(* A completed turn is the evidence's word: run.completed is printed only  *)
(* by the run whose own record is in the turn's evidence file, so of two   *)
(* runs of one turn at most one completes; task state reaches durable      *)
(* memory only for such turns.                                             *)
CompletedIsRecorded ==
  /\ \A r \in Runs : s[r].terminal = "goal_met" =>
       LET e == evidence[TurnOf[r]] IN
       e # None /\ e.run = r /\ e.code = "goal_met" /\ e.status = "completed"
       /\ e.refs = s[r].refs
  /\ \A t \in taskState : evidence[t] # None /\ evidence[t].status = "completed"

(* "An unrecorded stop can never masquerade as a clean one": a governance  *)
(* stop the operator sees carries a code that the evidence carries too.    *)
Governed == {"permission_denied", "deadline_exceeded", "turn_budget_exceeded",
             "context_budget_exceeded", "position_budget_exceeded", "doom_loop",
             "iteration_cap", "approval_denied", "approval_expired",
             "approval_required", "output_invalid"}
GovernedStopRecorded ==
  \A r \in Runs : s[r].terminal \in Governed =>
     /\ evidence[TurnOf[r]] # None
     /\ evidence[TurnOf[r]].run = r /\ evidence[TurnOf[r]].code = s[r].terminal

(* No model call before the operator's verdict: a run with approvals       *)
(* reaches the model only when each member was granted and none had        *)
(* expired when the gate was passed; an approval request never reaches it. *)
NoModelWithoutVerdict ==
  \A r \in Runs : s[r].consumed =>
     /\ s[r].req.approval \notin {"action", "stale_action"}
     /\ \A i \in DOMAIN s[r].req.verdicts :
          LET v == s[r].req.verdicts[i] IN
          v.decision = "granted" /\ (v.expires # None => s[r].gateAt <= v.expires)

(* No model call before the permission gate: the artifact was valid, knew  *)
(* the position and permitted every path and tool the turn asked for, and  *)
(* a turn recorded as completed is not recorded with a denial.             *)
NoModelWithoutPermission ==
  /\ \A r \in Runs : (s[r].consumed /\ s[r].req.permissions # None) =>
       LET q == s[r].req IN
       /\ ValidArtifact(q.permissions) /\ q.position \in DOMAIN q.permissions
       /\ \A ask \in Range(Asks(q)) : Permits(q.permissions[q.position], ask)
  /\ \A t \in Turns : evidence[t] # None =>
       (evidence[t].permissions.denied # {} <=> evidence[t].code = "permission_denied")

(* Whichever path wrote it, a record in the evidence directory passes the  *)
(* engine's own conformance check: counters within their caps, a known     *)
(* reason, no negative duration (turn-evidence.ts).                        *)
RecordsConform == \A t \in Turns : evidence[t] # None => ConformantRecord(evidence[t])

(* Runs that share a position budget check it on usage that may be stale,  *)
(* yet overshoot it by at most one iteration for each other run.           *)
BudgetOvershoot ==
  \A k \in LedgerKeys :
     LET sharers == {r \in Runs : s[r].req # None /\ s[r].req.key = k}
     IN sharers # {} => ledger[k] <= Limit + Cardinality(sharers) - 1

(* Every run that has begun ends: the repair loop, the evidence write and  *)
(* its catch block cannot go round for ever.                               *)
EveryTurnEnds == \A r \in Runs : []<>(s[r].pc \in {"new", "exited", "dead"})

(* approval-events.test.ts: the evidence of an approval batch records one  *)
(* approvalRefs outcome for every member.  Where the sink works and the    *)
(* turn was not recorded before, a settled batch that the operator sees    *)
(* end is in the evidence.                                                 *)
BatchVerdictRecorded ==
  \A r \in Runs :
    (s[r].terminal # None /\ s[r].req.approval = "batch" /\ s[r].refs # "none") =>
       evidence[TurnOf[r]] # None /\ evidence[TurnOf[r]].refs = s[r].refs

(* The executor implements the contract the Workbench relies on. *)
Contract == INSTANCE TurnContract WITH
  phase   <- [r \in Runs |-> IF s[r].terminal # None THEN "ended"
                             ELSE IF s[r].started THEN "started" ELSE "new"],
  outcome <- [r \in Runs |-> IF s[r].terminal = None THEN None
                             ELSE IF s[r].terminal = "goal_met" THEN "completed" ELSE "failed"],
  record  <- [t \in Turns |-> IF evidence[t] = None THEN None
                              ELSE [run |-> evidence[t].run, status |-> evidence[t].status]]
ImplementsContract == Contract!Spec

(* What a turn prints, records, spends and asks permission for stays       *)
(* together, also with a second run of the turn beside it                  *)
(* (turn-executor.ts).                                                     *)
TurnGoverned ==
  /\ CompletedIsRecorded /\ GovernedStopRecorded /\ NoModelWithoutVerdict
  /\ NoModelWithoutPermission /\ RecordsConform /\ BudgetOvershoot
=============================================================================
