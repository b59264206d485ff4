--------------------------- MODULE AgentHostWire ----------------------------
(***************************************************************************)
(* The agent-host.v1 wire contract (core/agent-host-wire, agent-host-stdio *)
(* and agent-host): which probes, requests, events and lines are accepted. *)
(* A value is the set of its field names and the facts the validators look *)
(* at; "bounded" stands for every length, pattern and type test at once.   *)
(***************************************************************************)
EXTENDS Naturals, FiniteSets, Sequences, SequencesExt

ProbeKeys == {"protocolVersion", "hostId", "displayName", "status",
              "available", "adapterStatus", "version", "capabilities",
              "capabilitySource", "issues"}

(* An unknown field fails closed, as does a probe of some other host. *)
ProbeWire(p, host) ==
  /\ p.keys \subseteq ProbeKeys /\ ProbeKeys \ {"version"} \subseteq p.keys
  /\ p.hostId = host /\ p.bounded
  /\ p.status \in {"installed", "ready", "not_ready", "not_found", "probe_failed"}

PolicyWire(p) ==
  /\ p.keys \subseteq {"tools", "filesystem", "network", "approval", "maxTurns"}
  /\ {"tools", "filesystem", "network", "approval"} \subseteq p.keys
  /\ p.toolDefault = "deny"
  /\ p.modes \subseteq {"read", "write"}
  /\ p.network \in {"deny", "host_policy", "allowlist"}
  /\ p.approval \in {"never", "required"}
  /\ "maxTurns" \in p.keys => p.maxTurns \in 1..10000

(* path and uri, command and url exclude each other. *)
AttachmentWire(a) ==
  \/ a.source = "path" /\ "path" \in a.keys /\ "uri" \notin a.keys
  \/ a.source = "uri" /\ "uri" \in a.keys /\ "path" \notin a.keys

McpServerWire(x) ==
  \/ /\ x.transport = "stdio" /\ {"name", "command"} \subseteq x.keys
     /\ x.keys \subseteq {"name", "transport", "command", "args", "environment"}
  \/ /\ x.transport = "http" /\ {"name", "url"} \subseteq x.keys
     /\ x.keys \subseteq {"name", "transport", "url", "headers"}

RequestKeys == {"runId", "employeeId", "workingDirectory", "workspaceFiles",
                "prompt", "instructions", "session", "attachments",
                "mcpServers", "outputSchema", "policy", "metadata", "deadline"}

(* The runtime's signal is no wire field; resume names a session, new none. *)
RunRequestWire(q) ==
  /\ q.keys \subseteq RequestKeys
  /\ {"runId", "employeeId", "workingDirectory", "prompt", "policy"} \subseteq q.keys
  /\ q.bounded
  /\ q.session \in {"none", "new", "resume_ref"}
  /\ \A a \in q.attachments : AttachmentWire(a)
  /\ \A x \in q.mcpServers : McpServerWire(x)
  /\ PolicyWire(q.policy)

EventKeys ==
  LET common == {"runId", "timestamp", "type"}
  IN  [t \in {"run.started", "assistant.delta", "tool.started",
              "tool.completed", "approval.required", "usage",
              "run.completed", "run.failed"} |->
        common \cup
        CASE t = "run.started" -> {"sessionRef"}
          [] t = "assistant.delta" -> {"text"}
          [] t = "tool.started" -> {"toolCallId", "toolName", "input"}
          [] t = "tool.completed" -> {"toolCallId", "toolName", "output", "isError"}
          [] t = "approval.required" -> {"approvalId", "toolName", "input"}
          [] t = "usage" -> {"inputTokens", "outputTokens", "totalTokens",
                             "reportedCost", "currency"}
          [] t = "run.completed" -> {"output", "sessionRef"}
          [] t = "run.failed" -> {"error"}]

EventOptional == {"sessionRef", "input", "output", "inputTokens",
                  "outputTokens", "totalTokens", "reportedCost", "currency"}

EventWire(e) ==
  /\ e.type \in DOMAIN EventKeys
  /\ e.keys \subseteq EventKeys[e.type]
  /\ EventKeys[e.type] \ EventOptional \subseteq e.keys
  /\ e.type = "run.completed" => "output" \in e.keys
  /\ e.bounded

TerminalTypes == {"run.completed", "run.failed"}

(* classifyAgentHostEventStream: valid events, exactly one terminal, last; *)
(* and, for a run that was cancelled, the frozen cancellation failure.     *)
ClassifyEventStream(events, cancelled) ==
  LET ends == {k \in DOMAIN events : events[k].type \in TerminalTypes}
  IN  IF \E k \in DOMAIN events : ~EventWire(events[k]) THEN "stream_failed"
      ELSE IF ends = {} \/ ends # {Len(events)} THEN "terminal_contract_violated"
      ELSE IF cancelled /\ Last(events).code # "agent_host_cancelled"
      THEN "cancelled"
      ELSE "accept"

(* parseAgentHostStdioHostLine: what one stdout line of a host is. *)
HostLineKeys(kind, ok) ==
  IF kind = "event" THEN {"protocol", "id", "kind", "event"}
  ELSE {"protocol", "id", "kind", "ok", IF ok THEN "result" ELSE "error"}

ParseHostLine(l) ==
  CASE ~l.json -> "bad_framing"
    [] l.json /\ l.protocol # "agent-host-stdio.v1" -> "protocol_mismatch"
    [] l.json /\ l.protocol = "agent-host-stdio.v1"
         /\ l.kind \notin {"event", "response"} -> "unknown_message"
    [] OTHER ->
         IF ~(l.keys \subseteq HostLineKeys(l.kind, l.ok)) THEN "bad_response"
         ELSE IF l.kind = "event" /\ ~EventWire(l.event) THEN "stream_failed"
         ELSE "ok"

(* parseAgentHostStdioRequest: a payload where the kind wants one. *)
ParseRequest(q) ==
  CASE q.kind \in {"run", "preflight"} ->
         IF RunRequestWire(q.payload) THEN "ok" ELSE "preflight_invalid"
    [] q.kind \in {"probe", "cancel"} -> "ok"
    [] OTHER -> "unknown_message"

(* probeResultFromStdioResponse. *)
ProbeResult(l, host) ==
  IF l.kind # "response" THEN "bad_response"
  ELSE IF ~l.ok THEN "host_error"
  ELSE IF ProbeWire(l.result, host) THEN "ok" ELSE "probe_invalid"

=============================================================================
