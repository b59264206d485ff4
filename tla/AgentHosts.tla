----------------------------- MODULE AgentHosts -----------------------------
(***************************************************************************)
(* The native agent hosts of the CLI: the adapters that run one employee   *)
(* turn in a vendor command (Qoder, CodeBuddy, Qwen, Claude) and turn its  *)
(* stdout into agent-host.v1 events.                                       *)
(*                                                                         *)
(* Each adapter's run() is an async generator.  Between two of its awaits  *)
(* the abort listener, the deadline timer, cancel(), the byte counters and *)
(* the child itself may act; a stop is recorded once (the first reason     *)
(* wins), signals the child if there is one, and is honoured at the next   *)
(* check.  The child writes lines in any order it likes.  The finally      *)
(* block kills the process tree, removes what was written to disk and      *)
(* leaves the table of active runs; only then is the terminal yielded.     *)
(*                                                                         *)
(* A line is its kind, an identifier and whether it carries what the       *)
(* adapter demands; error codes drop the vendor's prefix.  Text deltas are *)
(* held back until completion and are left out.                            *)
(***************************************************************************)
EXTENDS Naturals, FiniteSets, Sequences, SequencesExt

CONSTANTS HostRuns,      \* invocations of run()
          HostOf,        \* invocation -> the adapter it calls
          RunIdOf,       \* invocation -> request.runId
          CallIds,       \* tool call ids, assistant message ids, fingerprints
          Environments,  \* what the probe finds on the machine
          RunRequests,   \* the requests, by what validation looks at
          MaxEvents,     \* MAX_EVENTS, the lines an adapter reads
          NoRun          \* nobody, nothing yet

ASSUME HostsAssumption ==
  /\ HostOf \in [HostRuns -> {"qoder", "codebuddy", "qwen", "claude"}]
  /\ NoRun \notin HostRuns \cup CallIds
                   \cup {"aborted", "cancelled", "deadline", "stdout_limit", "stderr_limit",
                         "protocol"}

ZeroTool == {"codebuddy", "qwen", "claude"}

StopReasons == {"aborted", "cancelled", "deadline", "stdout_limit",
                "stderr_limit"}

ResultKinds == {"ok", "error", "max_turns", "bad_output", "bad_usage"}

(* The lines a child may write. *)
Lines ==
  [kind : {"junk", "note", "text", "foreign"}, id : {NoRun}, ok : {TRUE}]
    \cup [kind : {"response"}, id : {NoRun}, ok : BOOLEAN]
    \cup [kind : {"init", "tool_use"}, id : CallIds, ok : BOOLEAN]
    \cup [kind : {"tool_result", "assistant"}, id : CallIds, ok : {TRUE}]
    \cup [kind : {"result"}, id : ResultKinds, ok : {TRUE}]

VARIABLES hrun,     \* invocation -> the generator and its child
          active    \* host -> runId -> the invocation in activeRuns, or NoRun

hostVars == <<hrun, active>>

(* The first code whose condition holds; "completed" when none does. *)
FirstCode(checks) ==
  LET hits == {i \in DOMAIN checks : checks[i][1]}
      first == CHOOSE i \in hits : \A j \in hits : i <= j
  IN  IF hits = {} THEN "completed" ELSE checks[first][2]

-----------------------------------------------------------------------------
(* Probe, configuration and request validation. *)

(* Unconfigured discovery walks the candidates in order, past the names    *)
(* that do not exist, and stops at the first that is there, broken or not. *)
ProbeCommandCandidates(statuses) ==
  LET there == SelectSeq(statuses, LAMBDA x : x # "not_found")
  IN  IF there = <<>> THEN "not_found" ELSE there[1]

VersionIssue(status) ==
  CASE status = "not_found" -> "host_executable_not_found"
    [] status = "not_spawnable" -> "host_executable_not_spawnable"
    [] OTHER -> "host_version_probe_failed"

QoderProbe(e) ==
  LET status == ProbeCommandCandidates(e.statuses)
  IN  FirstCode(<< <<status # "installed", VersionIssue(status)>>,
                   <<~e.version, "version_not_conformance_verified">>,
                   <<~e.credential, "service_token_not_configured">> >>)

ClaudeProbe(e) ==
  LET status == e.statuses[1]
  IN  FirstCode(<< <<status # "installed", VersionIssue(status)>>,
                   <<~e.version, "version_not_conformance_verified">>,
                   <<e.windows, "host_platform_not_conformance_verified">>,
                   <<~e.credential, "api_key_not_configured">>,
                   <<~e.url, "base_url_invalid">> >>)

QwenProbe(e) ==
  LET status == e.statuses[1]
  IN  FirstCode(<< <<status # "installed", VersionIssue(status)>>,
                   <<~e.version, "version_not_conformance_verified">>,
                   <<e.windows, "host_platform_not_conformance_verified">>,
                   <<~e.credential, "api_key_not_configured">>,
                   <<~e.model, "model_not_configured">>,
                   <<~e.url, "base_url_invalid">> >>)

ConfigurationIssues(e) ==
  << <<~e.credential, "api_key_not_configured">>,
     <<~e.model, "model_not_configured">>,
     <<~e.url, "base_url_invalid">> >>

(* CodeBuddy reports configuration issues next to an executable's. *)
CodebuddyProbe(e) ==
  LET status == e.statuses[1]
  IN  FirstCode(<< <<status # "installed", VersionIssue(status)>>,
                   <<status = "installed" /\ ~e.version,
                     "version_not_conformance_verified">>,
                   <<status = "installed" /\ e.version /\ e.windows,
                     "host_platform_not_conformance_verified">> >>
                \o ConfigurationIssues(e))

(* Bounds, policy and features every adapter refuses alike. *)
PolicyIssues(q) ==
  << <<"default_allow" \in q.asks, "tool_policy_must_default_deny">>,
     <<"other_tool" \in q.asks, "tool_policy_unsupported">> >>

FeatureIssues(q) ==
  << <<"write" \in q.asks, "write_policy_unsupported">>,
     <<"network" \in q.asks, "network_policy_unsupported">>,
     <<"approval" \in q.asks, "approval_policy_unsupported">>,
     <<"attachments" \in q.asks, "attachments_unsupported">>,
     <<"mcp" \in q.asks, "mcp_unsupported">>,
     <<"resume" \in q.asks, "session_resume_unsupported">>,
     <<"turns" \in q.asks, "invalid_max_turns">>,
     <<q.deadline = "past", "deadline_elapsed">> >>

ZeroToolShape(q) ==
  << <<~q.ids, "invalid_run_id">>, <<~q.prompt, "invalid_prompt">>,
     <<q.schema = "bad", "output_schema_invalid">> >>
    \o PolicyIssues(q) \o FeatureIssues(q)

(* Only Qoder grants reads: a grant needs a read tool and a tool a grant.  *)
QoderShape(q) ==
  << <<~q.ids, "invalid_run_id">>, <<~q.prompt, "invalid_prompt">>,
     <<q.schema = "bad", "output_schema_invalid">> >>
    \o PolicyIssues(q)
    \o << <<q.grants # ("read_tool" \in q.asks),
            "filesystem_tool_policy_mismatch">> >>
    \o FeatureIssues(q)

(* Every granted file is a bounded regular file reached without a link; a  *)
(* file no grant covers is left out.                                       *)
InspectProjectionFiles(q) ==
  << <<q.dir # "directory", "working_directory_invalid">>,
     <<~IsInjective(q.files), "duplicate_workspace_file">>,
     <<\E f \in ToSet(q.files) : f.granted /\ f.kind = "link",
       "projection_symlink_denied">>,
     <<\E f \in ToSet(q.files) : f.granted /\ f.kind = "other",
       "projection_regular_file_required">>,
     <<\E f \in ToSet(q.files) : f.granted /\ f.kind = "large",
       "projection_file_too_large">> >>

PreflightCode(h, e, q) ==
  LET schema == << <<q.schema = "bad", "output_schema_invalid">> >>
      probe == CASE h = "qoder" -> QoderProbe(e)
                 [] h = "claude" -> ClaudeProbe(e)
                 [] h = "qwen" -> QwenProbe(e)
                 [] h = "codebuddy" -> CodebuddyProbe(e)
      shape == IF h = "qoder" THEN QoderShape(q) ELSE ZeroToolShape(q)
  IN  FirstCode(schema \o << <<probe # "completed", probe>> >>
                  \o shape \o InspectProjectionFiles(q))

-----------------------------------------------------------------------------
(* The stream protocols.  s is what the adapter remembers of the session;  *)
(* the answer is the new s and the events to yield.                        *)

Session == [init |-> NoRun, resp |-> FALSE, submitted |-> FALSE,
            result |-> NoRun, started |-> {}, completed |-> {},
            proto |-> "", lines |-> 0]

Quiet(s) == [s |-> s, ev |-> <<>>]
Refused(s, code) == Quiet([s EXCEPT !.proto = code])
Event(type, id) == [type |-> type, id |-> id]

(* Qoder sends the prompt once init and the control response are both in.  *)
MaybeSubmitPrompt(s) ==
  [s EXCEPT !.submitted = @ \/ (s.init # NoRun /\ s.resp)]

QoderInit(s, l) ==
  CASE ~l.ok -> Refused(s, "runtime_policy_mismatch")
    [] l.ok /\ s.init = NoRun ->
         [s |-> MaybeSubmitPrompt([s EXCEPT !.init = l.id]),
          ev |-> <<Event("run.started", NoRun)>>]
    [] l.ok /\ s.init # NoRun ->      \* a byte-equal re-init is tolerated
         IF l.id = s.init THEN Quiet(s) ELSE Refused(s, "duplicate_init")

QoderToolUse(s, l) ==
  CASE ~l.ok -> Refused(s, "runtime_tool_mismatch")
    [] l.ok /\ l.id \in s.started -> Refused(s, "duplicate_tool_call")
    [] OTHER -> [s |-> [s EXCEPT !.started = @ \cup {l.id}],
                 ev |-> <<Event("tool.started", l.id)>>]

QoderToolResult(s, l) ==
  IF l.id \in s.started \ s.completed
  THEN [s |-> [s EXCEPT !.completed = @ \cup {l.id}],
        ev |-> <<Event("tool.completed", l.id)>>]
  ELSE Refused(s, "unknown_tool_result")

QoderAccept(s, l) ==
  LET spoken == {"text", "foreign", "tool_use", "tool_result", "assistant", "result"}
  IN  CASE l.kind = "junk" -> Refused(s, "stream_invalid_event")
        [] l.kind = "response" ->
             IF l.ok /\ ~s.resp
             THEN Quiet(MaybeSubmitPrompt([s EXCEPT !.resp = TRUE]))
             ELSE Refused(s, "initialize_response_invalid")
        [] l.kind = "note" -> Quiet(s)
        [] l.kind \in spoken /\ s.result # NoRun ->
             Refused(s, IF l.kind = "result" THEN "duplicate_result"
                        ELSE "event_after_result")
        [] l.kind = "init" -> QoderInit(s, l)
        [] l.kind = "result" /\ s.init = NoRun /\ s.result = NoRun ->
             Refused([s EXCEPT !.result = l.id], "result_before_init")
        [] l.kind \in spoken \ {"result"} /\ s.init = NoRun /\ s.result = NoRun ->
             Refused(s, "init_required")
        [] OTHER ->
             CASE l.kind = "foreign" -> Refused(s, "session_id_mismatch")
               [] l.kind = "tool_use" -> QoderToolUse(s, l)
               [] l.kind = "tool_result" -> QoderToolResult(s, l)
               [] l.kind = "result" -> Quiet([s EXCEPT !.result = l.id])
               [] l.kind \in {"text", "assistant"} -> Quiet(s)

(* Zero-tool hosts: init once, then text and one result. *)
ZeroToolInit(s, l) ==
  CASE s.init # NoRun -> Refused(s, "duplicate_init")
    [] s.init = NoRun /\ ~l.ok -> Refused(s, "runtime_policy_mismatch")
    [] OTHER -> [s |-> [s EXCEPT !.init = l.id],
                 ev |-> <<Event("run.started", NoRun)>>]

(* s.started holds the assistant message ids seen. *)
ZeroToolAssistant(s, l) ==
  IF l.id \in s.started THEN Refused(s, "duplicate_assistant")
  ELSE Quiet([s EXCEPT !.started = @ \cup {l.id}])

(* What the three normalizers share; `other` is what the tail of accept()  *)
(* makes of the line.                                                      *)
ZeroToolAccept(s, l, other) ==
  CASE l.kind = "junk" -> Refused(s, "stream_invalid_event")
    [] l.kind # "junk" /\ s.result # NoRun ->
         Refused(s, IF l.kind = "result" THEN "duplicate_result"
                    ELSE "event_after_result")
    [] l.kind = "init" /\ s.result = NoRun -> ZeroToolInit(s, l)
    [] l.kind \notin {"junk", "init"} /\ s.result = NoRun /\ s.init = NoRun ->
         Refused(s, "init_required")
    [] OTHER ->
         CASE l.kind = "foreign" -> Refused(s, "session_id_mismatch")
           [] l.kind = "text" -> Quiet(s)
           [] l.kind = "assistant" -> ZeroToolAssistant(s, l)
           [] l.kind = "tool_use" -> Refused(s, "runtime_tool_mismatch")
           [] l.kind = "result" -> Quiet([s EXCEPT !.result = l.id])
           [] OTHER -> other

CodebuddyAccept(s, l) ==
  ZeroToolAccept(s, l,
    CASE l.kind = "note" -> Quiet(s)   \* status, rate limit
      [] l.kind = "response" -> Refused(s, "stream_unknown_event")
      [] OTHER -> Refused(s, "runtime_tool_mismatch"))

QwenAccept(s, l) ==
  ZeroToolAccept(s, l,
    IF l.kind = "note" THEN Refused(s, "stream_unknown_event")
    ELSE Refused(s, "runtime_tool_mismatch"))

ClaudeAccept(s, l) ==
  ZeroToolAccept(s, l,
    CASE l.kind = "note" -> Quiet(s)   \* api_retry, status
      [] l.kind = "response" -> Refused(s, "stream_unknown_event")
      [] OTHER -> Refused(s, "unexpected_user_event"))

Accept(h, s, l) ==
  CASE h = "qoder" -> QoderAccept(s, l)
    [] h = "codebuddy" -> CodebuddyAccept(s, l)
    [] h = "qwen" -> QwenAccept(s, l)
    [] h = "claude" -> ClaudeAccept(s, l)

-----------------------------------------------------------------------------
(* The verdict after the child's stdout has ended. *)

StoppedCode(reason) ==
  CASE reason \in {"aborted", "cancelled"} -> "run_cancelled"
    [] reason = "deadline" -> "deadline_exceeded"
    [] reason = "stdout_limit" -> "stdout_limit_exceeded"
    [] reason = "stderr_limit" -> "stderr_limit_exceeded"
    [] OTHER -> ""

CloseIssues(g) ==
  << <<g.child = "spawn_error", "spawn_failed">>,
     <<StoppedCode(g.reason) # "", StoppedCode(g.reason)>>,
     <<g.s.proto # "", g.s.proto>>,
     <<g.exit # 0, "process_failed">> >>

QoderVerdict(g) ==
  LET s == g.s
  IN  FirstCode(CloseIssues(g) \o
        << <<s.lines = 0, "no_response">>,
           <<s.init = NoRun, "init_missing">>,
           <<~s.resp, "initialize_response_missing">>,
           <<~s.submitted, "prompt_not_submitted">>,
           <<s.result = NoRun, "result_missing">>,
           <<s.result = "max_turns", "max_turns_exceeded">>,
           <<s.result = "error", "execution_failed">>,
           <<s.started # s.completed, "tool_result_missing">>,
           <<s.result = "bad_output", "output_schema_mismatch">> >>)

(* finish() of the three normalizers: usage is part of the contract. *)
ZeroToolVerdict(g) ==
  LET s == g.s
  IN  FirstCode(CloseIssues(g) \o
        << <<s.init = NoRun, "init_missing">>,
           <<s.result = NoRun, "result_missing">>,
           <<s.result = "max_turns", "max_turns_exceeded">>,
           <<s.result = "error", "execution_failed">>,
           <<s.result = "bad_output", "output_schema_mismatch">>,
           <<s.result = "bad_usage", "usage_invalid">> >>)

Verdict(h, g) == IF h = "qoder" THEN QoderVerdict(g) ELSE ZeroToolVerdict(g)

-----------------------------------------------------------------------------
(* The generator. *)

NewRun == [pc |-> "idle", reason |-> NoRun, child |-> "none", exit |-> 0,
           force |-> FALSE, killed |-> FALSE, disk |-> {}, s |-> Session,
           code |-> "", clean |-> TRUE, out |-> <<>>]

HostInit ==
  /\ hrun = [r \in HostRuns |-> NewRun]
  /\ active = [h \in {HostOf[r] : r \in HostRuns} |->
                 [i \in {RunIdOf[r] : r \in HostRuns} |-> NoRun]]

Put(r, g) == hrun' = [hrun EXCEPT ![r] = g]
(* Leaving the try block; what it knew of the session goes out of scope.   *)
Throw(g, code) ==
  [g EXCEPT !.code = code, !.pc = "finally",
            !.s = IF code = "completed" THEN @ ELSE Session,
            !.exit = IF code = "completed" THEN @ ELSE 0]
Failed(code) == [type |-> "run.failed", id |-> code]

(* A second run under a runId that is still active is refused at once. *)
Begin(r) ==
  /\ hrun[r].pc = "idle"
  /\ IF active[HostOf[r]][RunIdOf[r]] # NoRun
     THEN /\ Put(r, [hrun[r] EXCEPT !.pc = "done",
                                    !.out = <<Failed("run_already_active")>>])
          /\ UNCHANGED active
     ELSE /\ Put(r, [hrun[r] EXCEPT !.pc = "preflight"])
          /\ active' = [active EXCEPT ![HostOf[r]][RunIdOf[r]] = r]

\* The variant relies on SIGTERM and arms no timer.
StoppedGently(g, reason) ==
  IF g.reason # NoRun THEN g ELSE [g EXCEPT !.reason = reason]

(* stopActiveRun: only the first reason counts; a child is asked to end    *)
(* and the timer that will kill it is armed.                               *)
Stopped(g, reason) ==
  IF g.reason # NoRun THEN g
  ELSE [g EXCEPT !.reason = reason, !.force = (g.child = "alive")]

Registered(r) == active[HostOf[r]][RunIdOf[r]] = r

Armed(r) == hrun[r].pc \notin {"idle", "finally", "wait", "auth", "root",
                               "leave", "emit", "done"}

(* The abort listener and the deadline timer live until finally. *)
AbortOrDeadline(r, reason) ==
  /\ reason \in {"aborted", "deadline"}
  /\ Armed(r) /\ hrun[r].reason = NoRun
  /\ Put(r, Stopped(hrun[r], reason))
  /\ UNCHANGED active

(* cancel(runId) reaches the run until it has left activeRuns, also while  *)
(* it is cleaning up.                                                      *)
Cancel(r) ==
  /\ Registered(r) /\ hrun[r].reason = NoRun
  /\ Put(r, Stopped(hrun[r], "cancelled"))
  /\ UNCHANGED active

(* Probe, schema, request shape and projection, with a stop check before   *)
(* and after.                                                              *)
Preflight(r) ==
  /\ hrun[r].pc = "preflight"
  /\ \E e \in Environments, q \in RunRequests :
       LET g == hrun[r]
           code == PreflightCode(HostOf[r], e, q)
       IN  Put(r, IF g.reason # NoRun THEN Throw(g, StoppedCode(g.reason))
                  ELSE IF code # "completed" THEN Throw(g, code)
                  ELSE [g EXCEPT !.pc = "stage"])
  /\ UNCHANGED active

(* Qoder stages the copies of the granted files, each compared with the    *)
(* identity inspected before, and the credential payload; any of it may    *)
(* fail part-way.                                                          *)
StageQoder(r) ==
  /\ hrun[r].pc = "stage" /\ HostOf[r] = "qoder"
  /\ LET g == hrun[r]
         full == [g EXCEPT !.disk = {"root", "auth"}]
     IN  IF g.reason # NoRun THEN Put(r, Throw(g, StoppedCode(g.reason)))
         ELSE \/ Put(r, Throw(g, "adapter_failed"))
              \/ Put(r, Throw([g EXCEPT !.disk = {"root"}], "projection_changed_during_copy"))
              \/ Put(r, Throw(full, "adapter_failed"))
              \/ Put(r, [full EXCEPT !.pc = "prespawn"])
  /\ UNCHANGED active

(* The others stage empty directories and a settings file; the assets go   *)
(* into the prompt.                                                        *)
StageZeroTool(r) ==
  /\ hrun[r].pc = "stage" /\ HostOf[r] \in ZeroTool
  /\ LET g == hrun[r]
         rooted == [g EXCEPT !.disk = {"root"}]
     IN  IF g.reason # NoRun THEN Put(r, Throw(g, StoppedCode(g.reason)))
         ELSE \/ Put(r, Throw(g, "adapter_failed"))
              \/ Put(r, Throw(rooted, "adapter_failed"))
              \/ Put(r, [rooted EXCEPT !.pc = "prespawn"])
  /\ UNCHANGED active

(* The check before the spawn.  Qoder spawns in the same step; the others  *)
(* first look at their empty directories.                                  *)
PreSpawn(r) ==
  /\ hrun[r].pc = "prespawn"
  /\ LET g == hrun[r]
     IN  IF g.reason # NoRun THEN Put(r, Throw(g, StoppedCode(g.reason)))
         ELSE \/ Put(r, [g EXCEPT !.pc = "spawn"])
              \/ HostOf[r] # "qoder" /\ Put(r, Throw(g, "isolation_directory_not_empty"))
              \/ HostOf[r] = "codebuddy" /\ Put(r, Throw(g, "executable_changed"))
  /\ UNCHANGED active

(* A stop that came while no child existed is applied to the new child.    *)
AfterSpawn(g) ==
  IF g.reason = NoRun THEN g
  ELSE Stopped([g EXCEPT !.reason = NoRun], g.reason)

(* CodeBuddy checks once more; Qwen and Claude spawn whatever happened     *)
(* while they listed the directories.  Qoder never waited.                 *)
Spawn(r) ==
  /\ hrun[r].pc = "spawn"
  /\ LET g == hrun[r]
     IN  IF g.reason # NoRun /\ HostOf[r] \in {"qoder", "codebuddy"}
         THEN Put(r, Throw(g, StoppedCode(g.reason)))
         ELSE \E child \in {"alive", "spawn_error"} :
                Put(r, AfterSpawn([g EXCEPT !.child = child, !.pc = "read",
                                            !.s.submitted = HostOf[r] # "qoder"]))
  /\ UNCHANGED active

(* One line.  Once a reason is set lines are skipped; past MAX_EVENTS the  *)
(* run is stopped; an event to yield hands control to the consumer.        *)
ReadLine(r) ==
  /\ hrun[r].pc = "read" /\ hrun[r].child = "alive" /\ hrun[r].reason = NoRun
  /\ \E l \in Lines :
       LET g == hrun[r]
           a == Accept(HostOf[r], [g.s EXCEPT !.lines = g.s.lines + 1], l)
       IN  Put(r, IF g.s.lines = MaxEvents THEN Stopped(g, "stdout_limit")
                  ELSE IF a.s.proto # ""
                  THEN Stopped([g EXCEPT !.s = a.s], "protocol")
                  ELSE [g EXCEPT !.s = a.s, !.out = @ \o a.ev,
                                 !.pc = IF a.ev = <<>> THEN "read" ELSE "yield"])
  /\ UNCHANGED active

Consume(r) ==
  /\ hrun[r].pc = "yield"
  /\ Put(r, [hrun[r] EXCEPT !.pc = "read"])
  /\ UNCHANGED active

(* The consumer stops iterating: only the finally block runs. *)
Abandon(r) ==
  /\ hrun[r].pc = "yield"
  /\ Put(r, Throw(hrun[r], "abandoned"))
  /\ UNCHANGED active

(* stdout or stderr past its byte limit. *)
OutputLimit(r, reason) ==
  /\ reason \in {"stdout_limit", "stderr_limit"}
  /\ hrun[r].pc \in {"read", "yield"} /\ hrun[r].child = "alive"
  /\ hrun[r].reason = NoRun
  /\ Put(r, Stopped(hrun[r], reason))
  /\ UNCHANGED active

StdinError(r) ==
  /\ hrun[r].pc \in {"read", "yield"} /\ hrun[r].child = "alive"
  /\ hrun[r].s.proto = ""
  /\ Put(r, Stopped([hrun[r] EXCEPT !.s.proto = "stdin_failed"], "protocol"))
  /\ UNCHANGED active

(* Qoder's grace timer submits the prompt although no init has been seen.  *)
HandshakeGrace(r) ==
  /\ HostOf[r] = "qoder" /\ hrun[r].pc \in {"read", "yield"}
  /\ hrun[r].child = "alive" /\ hrun[r].reason = NoRun
  /\ ~hrun[r].s.submitted
  /\ Put(r, [hrun[r] EXCEPT !.s.submitted = TRUE])
  /\ UNCHANGED active

(* The child ends: by itself, on SIGTERM, or some time after SIGKILL. *)
ChildExits(r) ==
  /\ hrun[r].child = "alive"
  /\ \E code \in {0, 1} :
       Put(r, [hrun[r] EXCEPT !.child = "dead",
                              !.exit = IF hrun[r].code = "" THEN code ELSE 0])
  /\ UNCHANGED active

ForceKill(r) ==
  /\ hrun[r].force /\ hrun[r].child = "alive" /\ ~hrun[r].killed
  /\ Put(r, [hrun[r] EXCEPT !.killed = TRUE])
  /\ UNCHANGED active

(* stdout has ended and the child has closed: the verdict. *)
Conclude(r) ==
  /\ hrun[r].pc = "read" /\ hrun[r].child \in {"dead", "spawn_error"}
  /\ Put(r, Throw(hrun[r], Verdict(HostOf[r], hrun[r])))
  /\ UNCHANGED active

-----------------------------------------------------------------------------
(* The finally block. *)

Finally(r) ==
  /\ hrun[r].pc = "finally"
  /\ Put(r, [hrun[r] EXCEPT !.force = FALSE,
                            !.killed = @ \/ hrun[r].child = "alive",
                            !.pc = IF hrun[r].child = "none" THEN "auth" ELSE "wait"])
  /\ UNCHANGED active

(* The tree is gone, or the grace period is over and it is not. *)
WaitForExit(r) ==
  /\ hrun[r].pc = "wait"
  /\ Put(r, [hrun[r] EXCEPT !.pc = "auth",
                            !.clean = @ /\ hrun[r].child # "alive"])
  /\ UNCHANGED active

(* cleanupWithRetry: one of the attempts succeeds, or none does. *)
RemoveAuth(r) ==
  /\ hrun[r].pc = "auth"
  /\ IF "auth" \notin hrun[r].disk THEN Put(r, [hrun[r] EXCEPT !.pc = "root"])
     ELSE \/ Put(r, [hrun[r] EXCEPT !.pc = "root", !.disk = @ \ {"auth"}])
          \/ Put(r, [hrun[r] EXCEPT !.pc = "root", !.clean = FALSE])
  /\ UNCHANGED active

RemoveRunRoot(r) ==
  /\ hrun[r].pc = "root"
  /\ IF "root" \notin hrun[r].disk THEN Put(r, [hrun[r] EXCEPT !.pc = "leave"])
     ELSE \/ Put(r, [hrun[r] EXCEPT !.pc = "leave", !.disk = {}])
          \/ Put(r, [hrun[r] EXCEPT !.pc = "leave", !.clean = FALSE])
  /\ UNCHANGED active

\* The variant keeps the code of the run although cleaning up has failed.
LeaveRegardless(r) ==
  /\ hrun[r].pc = "leave"
  /\ active' = IF Registered(r)
               THEN [active EXCEPT ![HostOf[r]][RunIdOf[r]] = NoRun] ELSE active
  /\ Put(r, [hrun[r] EXCEPT !.pc = IF hrun[r].code = "abandoned" THEN "done" ELSE "emit"])

(* Leave activeRuns; a failed cleanup replaces whatever was to be said. *)
Leave(r) ==
  /\ hrun[r].pc = "leave"
  /\ active' = IF Registered(r)
               THEN [active EXCEPT ![HostOf[r]][RunIdOf[r]] = NoRun] ELSE active
  /\ Put(r, [hrun[r] EXCEPT
               !.pc = IF hrun[r].code = "abandoned" THEN "done" ELSE "emit",
               !.code = IF hrun[r].clean \/ @ = "abandoned" THEN @
                        ELSE "cleanup_failed"])

Emit(r) ==
  /\ hrun[r].pc = "emit"
  /\ Put(r, [hrun[r] EXCEPT
               !.pc = "done",
               !.out = Append(@, IF hrun[r].code = "completed"
                                 THEN Event("run.completed", NoRun)
                                 ELSE Failed(hrun[r].code))])
  /\ UNCHANGED active

HostStep(r) ==
  \/ Begin(r) \/ Preflight(r) \/ StageQoder(r) \/ StageZeroTool(r) \/ PreSpawn(r) \/ Spawn(r)
  \/ Consume(r) \/ Conclude(r) \/ Finally(r) \/ WaitForExit(r)
  \/ RemoveAuth(r) \/ RemoveRunRoot(r) \/ Leave(r) \/ Emit(r)

HostNext ==
  \E r \in HostRuns :
    \/ HostStep(r) \/ Cancel(r) \/ ReadLine(r) \/ Abandon(r) \/ StdinError(r)
    \/ HandshakeGrace(r) \/ ChildExits(r) \/ ForceKill(r)
    \/ \E reason \in StopReasons : AbortOrDeadline(r, reason) \/ OutputLimit(r, reason)

(* The event loop runs what is ready; the deadline and force timers fire;  *)
(* a process that was sent SIGKILL dies.                                   *)
KilledDies(r) == hrun[r].killed /\ ChildExits(r)

HostFairness ==
  \A r \in HostRuns :
    /\ WF_hostVars(HostStep(r) /\ hrun[r].pc # "idle")
    /\ WF_hostVars(AbortOrDeadline(r, "deadline"))
    /\ WF_hostVars(ForceKill(r)) /\ WF_hostVars(KilledDies(r))

HostSpec == HostInit /\ [][HostNext]_hostVars /\ HostFairness

-----------------------------------------------------------------------------
(* Properties. *)

(* classifyAgentHostEventStream: exactly one terminal, and it comes last. *)
Terminals == {"run.completed", "run.failed"}
ClassifyStream(events) ==
  LET ends == {k \in DOMAIN events : events[k].type \in Terminals}
  IN  IF ends = {Len(events)} THEN "accept" ELSE "terminal_contract_violated"

(* Whatever a child writes, whenever it is stopped and whatever cleaning   *)
(* up does, a consumer that reads to the end sees a stream the agent-host  *)
(* contract accepts: one terminal, last; nothing before run.started but a  *)
(* failure; each tool.completed after its tool.started, each at most once. *)
StreamAccepted ==
  \A r \in HostRuns :
    LET out == hrun[r].out
    IN  hrun[r].pc = "done" /\ hrun[r].code # "abandoned" =>
          /\ ClassifyStream(out) = "accept"
          /\ \A k \in DOMAIN out :
               /\ out[k].type # "run.failed" => out[1].type = "run.started"
               /\ out[k].type = "tool.completed" =>
                    \E j \in 1..(k-1) : out[j] = Event("tool.started", out[k].id)
               /\ \A j \in 1..(k-1) : out[j] # out[k]

(* A terminal other than cleanup_failed is a promise: the process tree is  *)
(* gone, the credential payload and the run root are off the disk, and the *)
(* run id is free again.                                                   *)
TerminalMeansClean ==
  \A r \in HostRuns :
    LET g == hrun[r]
    IN  g.pc = "done" /\ g.code \notin {"", "abandoned", "cleanup_failed"} =>
          g.child # "alive" /\ g.disk = {} /\ ~Registered(r)

(* run.completed is only said of a run whose child announced itself, got   *)
(* the prompt, returned a good result with every tool call answered, ended *)
(* by itself with exit code 0, and was not stopped: a cancel is admitted,  *)
(* which may come while the run is cleaned up.  Only Qoder's normalizer    *)
(* does not look at usage.                                                 *)
CompletedIsEarned ==
  \A r \in HostRuns :
    LET g == hrun[r]
    IN  g.code = "completed" =>
          /\ g.s.init # NoRun /\ g.s.submitted
          /\ g.s.result = "ok" \/ (HostOf[r] = "qoder" /\ g.s.result = "bad_usage")
          /\ g.child = "dead" /\ g.exit = 0 /\ ~g.killed
          /\ HostOf[r] = "qoder" => g.s.resp /\ g.s.started = g.s.completed
          /\ g.reason \in {NoRun, "cancelled"}

(* A run that has begun ends, however its child behaves: the deadline stops *)
(* it, SIGKILL follows SIGTERM, and cleaning up is bounded.                 *)
EveryHostRunEnds ==
  \A r \in HostRuns : []<>(hrun[r].pc \in {"idle", "done"})

(* The stream of a run is well-formed, and its terminal is earned and      *)
(* comes after the cleanup, in all four Hosts.                             *)
HostRunSound == StreamAccepted /\ TerminalMeansClean /\ CompletedIsEarned
=============================================================================
