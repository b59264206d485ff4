----------------------------- MODULE MCAdapters -----------------------------
(***************************************************************************)
(* What runs an employee: the four Agent Hosts of the command line, the    *)
(* stdio adapter and the model ports of a turn.  They share no state, so   *)
(* one run checks them one at a time: `part` says whose turn it is and     *)
(* never changes.                                                          *)
(*                                                                         *)
(* A run of each Host, and a second one with the same id for one of them,  *)
(* of at most five events, over requests and environments that fail each   *)
(* check.  A probe and a run through the stdio adapter, two child          *)
(* processes, with fixtures that hang, repeat a terminal or add a field.   *)
(* Two calls of a model port, whose child writes at most three lines.      *)
(***************************************************************************)
EXTENDS AgentHosts, StdioHost, ModelPorts

CONSTANTS r1, r2, r3, r4, r5,  \* Host runs
          c1, c2               \* calls of the stdio adapter

MCHostOf ==
  (r1 :> "qoder") @@ (r2 :> "codebuddy") @@ (r3 :> "qwen") @@ (r4 :> "claude") @@ (r5 :> "qwen")
MCRunIdOf == [r \in HostRuns |-> "id"]

Usable == [statuses |-> <<"not_found", "installed">>, version |-> TRUE, credential |-> TRUE,
           windows |-> FALSE, model |-> TRUE, url |-> TRUE]
MCEnvironments ==
  {Usable, [Usable EXCEPT !.statuses = <<"installed">>],
   [Usable EXCEPT !.statuses = <<"not_found", "probe_failed">>],
   [Usable EXCEPT !.statuses = <<"installed">>, !.url = FALSE]}

Plain == [ids |-> TRUE, prompt |-> TRUE, schema |-> "ok", asks |-> {}, grants |-> FALSE,
          deadline |-> "none", dir |-> "directory", files |-> <<>>]
MCRunRequests ==
  {Plain, [Plain EXCEPT !.schema = "bad"], [Plain EXCEPT !.asks = {"network"}],
   [Plain EXCEPT !.asks = {"read_tool"}],
   [Plain EXCEPT !.asks = {"read_tool"}, !.grants = TRUE,
                 !.files = <<[granted |-> TRUE, kind |-> "link"]>>]}

\* Bound: one run at a time, besides a second one that is refused while its
\* runId is active.
OneRunAtATime ==
  /\ \A a, b \in HostRuns \ {r5} : a # b => hrun[a].pc = "idle" \/ hrun[b].pc = "idle"
  /\ hrun[r5].pc # "idle" => hrun[r5].out = <<Failed("run_already_active")>>

---------------------------------------------------------------------------
MCKindOf == (c1 :> "probe") @@ (c2 :> "run")
MCSchemaOf == (c1 :> "none") @@ (c2 :> "ok")
MCFlags == {{"reference", "dup_terminal"}, {"hang"}}
MCMcp ==
  {[servers |-> {"mem", "doc"}, matrix |-> TRUE, grant |-> "ok", mem |-> "ok", doc |-> "ok"]}

---------------------------------------------------------------------------
Line(type, detail) ==
  [type |-> type, detail |-> detail, conforms |-> TRUE, mine |-> TRUE, parent |-> FALSE,
   id |-> NoAnswer]
LoggedIn == Line("init", "claude_cli_oauth")
MCPortLines ==
  {LoggedIn, [LoggedIn EXCEPT !.conforms = FALSE],
   [Line("stream_event", "text") EXCEPT !.mine = FALSE],
   [Line("stream_event", "tool") EXCEPT !.parent = TRUE],
   [Line("assistant", "text") EXCEPT !.id = "m"],
   Line("notice", "status"), Line("result", "success"), Line("blank", ""), Line("junk", "")}
Ready == [engine |-> "claude-local", script |-> TRUE, binary |-> "supported",
          windows |-> FALSE, token |-> TRUE]
MCSettings ==
  {Ready, [Ready EXCEPT !.binary = "other"], [Ready EXCEPT !.engine = "none"],
   [Ready EXCEPT !.engine = "qoder"], [Ready EXCEPT !.engine = "qoder", !.token = FALSE],
   [Ready EXCEPT !.engine = "deterministic"],
   [Ready EXCEPT !.engine = "deterministic", !.script = FALSE]}
MCAdapterRuns ==
  {<<"run.started", "run.completed">>, <<"run.started", "run.failed">>, <<>>}

---------------------------------------------------------------------------
VARIABLE part

MCInit ==
  /\ HostInit /\ StdioInit /\ PortInit
  /\ part \in {"hosts", "stdio", "ports"}
  /\ part # "ports" => setting = Ready

MCNext ==
  \/ part = "hosts" /\ HostNext /\ UNCHANGED <<part, stdioVars, modelPortVars>>
  \/ part = "stdio" /\ StdioNext /\ UNCHANGED <<part, hostVars, modelPortVars>>
  \/ part = "ports" /\ PortNext /\ UNCHANGED <<part, hostVars, stdioVars>>

(* The fairness of each part, while it is its turn. *)
MCFairness ==
  /\ \A r \in HostRuns :
       /\ WF_hostVars(part = "hosts" /\ HostStep(r) /\ hrun[r].pc # "idle")
       /\ WF_hostVars(part = "hosts" /\ AbortOrDeadline(r, "deadline"))
       /\ WF_hostVars(part = "hosts" /\ ForceKill(r))
       /\ WF_hostVars(part = "hosts" /\ KilledDies(r))
  /\ \A c \in Calls :
       /\ WF_stdioVars(part = "stdio" /\ LoadAndSpawn(c))
       /\ WF_stdioVars(part = "stdio" /\ RunReads(c))
       /\ WF_stdioVars(part = "stdio" /\ CallTimesOut(c))
  /\ \A k \in Kids : WF_stdioVars(part = "stdio" /\ Deliver(k))
  /\ WF_modelPortVars(part = "ports" /\ \E c \in Completions : CompletionStep(c))
  /\ WF_modelPortVars(part = "ports" /\ \E c \in Completions : GraceOver(c))

MCSpec ==
  MCInit /\ [][MCNext]_<<part, hostVars, stdioVars, modelPortVars>> /\ MCFairness
=============================================================================
