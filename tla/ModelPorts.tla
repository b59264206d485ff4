----------------------------- MODULE ModelPorts -----------------------------
(***************************************************************************)
(* The model ports of `turn run`: how the command picks one before a turn  *)
(* (apps/cli/turn/turn-run, resolveModelPort) and how each answers the     *)
(* engine's calls of complete(), one after the other.                      *)
(*                                                                         *)
(* claude-local runs one child per call in a scratch directory.  Its lines *)
(* go through the stream normalizer; its close event, the deadline timer,  *)
(* the abort signal and the errors of its pipes race to settle the call,   *)
(* and only the first does.  A failed call signals its child and arms a    *)
(* kill timer; the child may go on writing.  qoder drives the Qoder        *)
(* adapter (module AgentHosts) and relies on its terminal events;          *)
(* deterministic replays a script.  The vendor command may be replaced     *)
(* after it was probed.                                                    *)
(***************************************************************************)
EXTENDS Naturals, FiniteSets, Sequences, SequencesExt

CONSTANTS Completions,   \* calls of complete(): 1, 2, ... in order
          Settings,      \* environments `turn run` may be started in
          PortLines,     \* what a child may write
          MaxPortLines,  \* bound: lines of one child
          ScriptLength,  \* answers of the deterministic script
          AdapterRuns,   \* what one run of the Qoder adapter yields
          NoAnswer

Engines == {"none", "deterministic", "claude-local", "qoder"}

ASSUME CompletionsAssumption ==
  /\ \A c \in Completions : c \in Nat \ {0} /\ (c > 1 => c - 1 \in Completions)
  /\ Settings \subseteq [engine : Engines, script : BOOLEAN, binary : {"supported", "other"},
                         windows : BOOLEAN, token : BOOLEAN]
  /\ NoAnswer \notin Engines \cup {"refused", "supported", "other", "zero", "success",
                                "text", "error"}
  /\ \A l \in PortLines :
       l.detail # NoAnswer /\ {l.conforms, l.mine, l.parent} \subseteq BOOLEAN

VARIABLES setting,   \* the environment
          aborted,   \* the signal of the turn
          port,      \* NoAnswer, "refused" or the port in use
          completion,\* call -> local state of complete()
          vendor,    \* call -> the child of a claude-local call
          replayed   \* answers the deterministic port has given

modelPortVars == <<setting, port, aborted, completion, vendor, replayed>>

-----------------------------------------------------------------------------
(* Resolution. *)

(* probeLocalClaude: the binary runs and is inside the version window. *)
LocalClaudeUsable(e) == e.binary = "supported"

(* The platform, then the probe of the selected command, then the token. *)
QoderUsable(e) == ~e.windows /\ e.binary = "supported" /\ e.token

PortResolves(e) ==
  \/ e.engine = "deterministic" /\ e.script
  \/ e.engine = "claude-local" /\ LocalClaudeUsable(e)
  \/ e.engine = "qoder" /\ QoderUsable(e)

(* A missing model is an environment fault: the command ends with exit 1   *)
(* before the turn has an event.                                           *)
ResolveModelPort ==
  /\ port = NoAnswer
  /\ port' = IF PortResolves(setting) THEN setting.engine ELSE "refused"
  /\ UNCHANGED <<setting, aborted, completion, vendor, replayed>>

BinaryReplaced ==
  /\ port # NoAnswer /\ setting.binary = "supported"
  /\ setting' = [setting EXCEPT !.binary = "other"]
  /\ UNCHANGED <<port, aborted, completion, vendor, replayed>>

-----------------------------------------------------------------------------
(* ClaudeZeroToolStreamNormalizer.  A line is its type, a detail (subtype, *)
(* block or delta type, key source), whether it is in the session, whether *)
(* it has a parent tool use, and a message id.                             *)

QuietParts == {"text", "thinking", "message", "stop", "ping"}

(* initialize(): the login, the empty tool set, cwd, mode and version. *)
InitConforms(l) == l.detail = "claude_cli_oauth" /\ l.conforms

NoStream == [init |-> FALSE, result |-> NoAnswer, ids |-> {}, refused |-> FALSE]
RefusedStream(n) == [n EXCEPT !.refused = TRUE]

StreamInit(n, l) ==
  IF n.init \/ ~InitConforms(l) THEN RefusedStream(n) ELSE [n EXCEPT !.init = TRUE]

(* Text and thinking pass; a tool block, a tool input or an unknown part   *)
(* does not.                                                               *)
StreamEvent(n, l) ==
  IF l.parent \/ l.detail \notin QuietParts THEN RefusedStream(n) ELSE n

StreamAssistant(n, l) ==
  IF l.parent \/ l.id \in n.ids \/ l.detail \notin {"text", "thinking"}
  THEN RefusedStream(n)
  ELSE [n EXCEPT !.ids = IF l.id = NoAnswer THEN @ ELSE @ \cup {l.id}]

StreamAccepts(n, l) ==
  CASE n.result # NoAnswer -> RefusedStream(n)
    [] n.result = NoAnswer /\ l.type = "init" -> StreamInit(n, l)
    [] n.result = NoAnswer /\ l.type # "init" /\ ~(n.init /\ l.mine) -> RefusedStream(n)
    [] OTHER ->
         CASE l.type = "stream_event" -> StreamEvent(n, l)
           [] l.type = "assistant" -> StreamAssistant(n, l)
           [] l.type = "result" -> [n EXCEPT !.result = l.detail]
           [] l.type = "notice" -> n    \* api_retry, status, rate limit
           [] OTHER -> RefusedStream(n)  \* user, permission_denied, unknown

(* finish(undefined): a successful result with text and usage. *)
StreamFinishes(n) == n.init /\ n.result = "success"

-----------------------------------------------------------------------------
(* complete() of claude-local. *)

NewCompletion == [pc |-> "idle", scratch |-> FALSE, stream |-> NoStream,
                  answer |-> NoAnswer]
NewVendor == [life |-> "none", version |-> NoAnswer, exit |-> NoAnswer, wrote |-> <<>>,
              read |-> 0, termed |-> FALSE, timer |-> FALSE]

PortInit ==
  /\ setting \in Settings
  /\ port = NoAnswer /\ aborted = FALSE
  /\ completion = [c \in Completions |-> NewCompletion]
  /\ vendor = [c \in Completions |-> NewVendor]
  /\ replayed = 0

Update(c, r) == completion' = [completion EXCEPT ![c] = r]
Alive(v) == v.life = "up"

(* killTree: SIGTERM now, SIGKILL after the grace; nothing for a child     *)
(* that has exited.                                                        *)
KillTree(v) == IF Alive(v) THEN [v EXCEPT !.termed = TRUE, !.timer = TRUE] ELSE v

(* The first settlement counts; the finally block signals a child that     *)
(* still runs and removes the scratch directory.  What a failed call has   *)
(* read is of no more use.                                                 *)
FailedCall(r) == [r EXCEPT !.pc = "cleanup", !.answer = "error", !.stream = NoStream]
Dropped(v) == [KillTree(v) EXCEPT !.wrote = <<>>, !.read = 0]

Fails(c) ==
  /\ Update(c, FailedCall(completion[c]))
  /\ vendor' = [vendor EXCEPT ![c] = Dropped(@)]

Answers(c) ==
  /\ Update(c, [completion[c] EXCEPT !.pc = "cleanup", !.answer = "text"])
  /\ vendor' = [vendor EXCEPT ![c] = KillTree(@)]

(* The engine awaits each call, and calls again only to have an answer     *)
(* repaired.                                                               *)
MayCall(c) ==
  /\ completion[c].pc = "idle" /\ port \notin {NoAnswer, "refused"}
  /\ c > 1 => completion[c - 1].pc = "returned" /\ completion[c - 1].answer # "error"

(* An aborted signal or an oversized prompt is refused before anything is  *)
(* created.                                                                *)
CompleteRefuses(c) ==
  /\ MayCall(c) /\ port # "deterministic"
  /\ aborted \/ port = "claude-local"   \* the prompt is too large
  /\ Update(c, [completion[c] EXCEPT !.pc = "returned", !.answer = "error"])
  /\ UNCHANGED <<setting, port, aborted, vendor, replayed>>

MakesScratch(c) ==
  /\ MayCall(c) /\ port # "deterministic" /\ ~aborted
  /\ \/ Update(c, [completion[c] EXCEPT !.pc = "prepared", !.scratch = TRUE])
     \/ Update(c, [completion[c] EXCEPT !.pc = "returned", !.answer = "error"])
  /\ UNCHANGED <<setting, port, aborted, vendor, replayed>>

(* spawn() and the listeners come in one step after the awaits: a signal   *)
(* aborted before is not heard any more.                                   *)
SpawnsClaude(c) ==
  /\ port = "claude-local" /\ completion[c].pc = "prepared"
  /\ Update(c, [completion[c] EXCEPT !.pc = "running"])
  /\ vendor' = [vendor EXCEPT ![c].life = "up", ![c].version = setting.binary]
  /\ UNCHANGED <<setting, port, aborted, replayed>>

(* realpath or spawn failed. *)
ClaudeSpawnFails(c) ==
  /\ port = "claude-local" /\ completion[c].pc = "prepared"
  /\ Fails(c)
  /\ UNCHANGED <<setting, port, aborted, replayed>>

(* Whoever listens settles its call. *)
Listening(c) == port = "claude-local" /\ completion[c].pc = "running"

SignalAborts ==
  /\ ~aborted /\ aborted' = TRUE
  /\ completion' = [c \in Completions |->
       IF Listening(c) THEN FailedCall(completion[c]) ELSE completion[c]]
  /\ vendor' = [c \in Completions |-> IF Listening(c) THEN Dropped(vendor[c]) ELSE vendor[c]]
  /\ UNCHANGED <<setting, port, replayed>>

-----------------------------------------------------------------------------
(* The child, and what its pipes and timers do to the call. *)

(* A child announces the version it has.  What it writes after its call    *)
(* has settled is thrown away and left out.                                *)
ChildWrites(c) ==
  /\ Alive(vendor[c]) /\ completion[c].pc = "running" /\ Len(vendor[c].wrote) < MaxPortLines
  /\ \E l \in PortLines :
       /\ l.type = "init" /\ l.conforms => vendor[c].version = "supported"
       /\ vendor' = [vendor EXCEPT ![c].wrote = Append(@, l)]
  /\ UNCHANGED <<setting, port, aborted, completion, replayed>>

Unread(c) == vendor[c].read < Len(vendor[c].wrote)

(* A blank line is skipped; a line that is no JSON, too long, says that    *)
(* nobody is logged in, or is refused by the normalizer fails the call.    *)
LineFails(n, l) == l.type = "junk" \/ (l.type # "blank" /\ StreamAccepts(n, l).refused)

PortReadsLine(c) ==
  /\ completion[c].pc = "running" /\ Unread(c)
  /\ LET l == vendor[c].wrote[vendor[c].read + 1]
         n == completion[c].stream
     IN IF LineFails(n, l)
        THEN Fails(c)
        ELSE /\ Update(c, [completion[c] EXCEPT !.stream =
                             IF l.type = "blank" THEN n ELSE StreamAccepts(n, l)])
             /\ vendor' = [vendor EXCEPT ![c].read = @ + 1]
  /\ UNCHANGED <<setting, port, aborted, replayed>>

(* The output limits, an error of the child or of its stdin. *)
PipeFails(c) ==
  /\ completion[c].pc = "running"
  /\ Fails(c)
  /\ UNCHANGED <<setting, port, aborted, replayed>>

\* The variant arms the timer with the first line of the child.
DeadlineFiresOnceHeard(c) ==
  /\ completion[c].pc = "running" /\ vendor[c].wrote # <<>>
  /\ Fails(c)
  /\ UNCHANGED <<setting, port, aborted, replayed>>

DeadlineFires(c) ==
  /\ completion[c].pc = "running"
  /\ Fails(c)
  /\ UNCHANGED <<setting, port, aborted, replayed>>

VendorExits(c) ==
  /\ Alive(vendor[c])
  /\ \E code \in {"zero", "other"} :
       vendor' = [vendor EXCEPT ![c].life = "exited", ![c].exit = code, ![c].timer = FALSE]
  /\ UNCHANGED <<setting, port, aborted, completion, replayed>>

GraceOver(c) ==
  /\ vendor[c].timer /\ Alive(vendor[c])
  /\ vendor' = [vendor EXCEPT ![c].life = "exited", ![c].exit = "other", ![c].timer = FALSE]
  /\ UNCHANGED <<setting, port, aborted, completion, replayed>>

(* The variant takes the output without looking at the exit code. *)
CloseGivesTextAnyExit(c) == StreamFinishes(completion[c].stream)

(* "close" follows the exit and the last line, unless a descendant keeps   *)
(* the pipes open; an exit code, then finish().                            *)
CloseGivesText(c) == vendor[c].exit = "zero" /\ StreamFinishes(completion[c].stream)

ChildCloses(c) ==
  /\ completion[c].pc = "running" /\ vendor[c].life = "exited" /\ ~Unread(c)
  /\ IF CloseGivesText(c) THEN Answers(c) ELSE Fails(c)
  /\ UNCHANGED <<setting, port, aborted, replayed>>

(* The promise returned to the engine settles after the finally block. *)
PortReturns(c) ==
  /\ completion[c].pc = "cleanup"
  /\ Update(c, [completion[c] EXCEPT !.pc = "returned", !.scratch = FALSE])
  /\ UNCHANGED <<setting, port, aborted, vendor, replayed>>

-----------------------------------------------------------------------------
(* complete() of the other two ports. *)

StartsAdapter(c) ==
  /\ port = "qoder" /\ completion[c].pc = "prepared"
  /\ Update(c, [completion[c] EXCEPT !.pc = "adapter"])
  /\ UNCHANGED <<setting, port, aborted, vendor, replayed>>

(* The for-await loop over the adapter's events: run.completed gives the   *)
(* text, anything else the terminal error or a missing terminal.           *)
AdapterGivesText(events) == Contains(events, "run.completed")

AdapterEnds(c) ==
  /\ port = "qoder" /\ completion[c].pc = "adapter"
  /\ \E events \in AdapterRuns :
       IF AdapterGivesText(events) THEN Answers(c) ELSE Fails(c)
  /\ UNCHANGED <<setting, port, aborted, replayed>>

(* One script entry per call; a call beyond the script fails. *)
Replays(c) ==
  /\ port = "deterministic" /\ MayCall(c)
  /\ LET more == ~aborted /\ replayed < ScriptLength
     IN /\ replayed' = IF more THEN replayed + 1 ELSE replayed
        /\ Update(c, [completion[c] EXCEPT !.pc = "returned",
                                           !.answer = IF more THEN "text" ELSE "error"])
  /\ UNCHANGED <<setting, port, aborted, vendor>>

-----------------------------------------------------------------------------
CompletionStep(c) ==
  \/ SpawnsClaude(c) \/ ClaudeSpawnFails(c) \/ PortReadsLine(c) \/ DeadlineFires(c)
  \/ ChildCloses(c) \/ PortReturns(c) \/ StartsAdapter(c) \/ AdapterEnds(c)

PortNext ==
  \/ ResolveModelPort \/ BinaryReplaced \/ SignalAborts
  \/ \E c \in Completions :
       \/ CompletionStep(c) \/ CompleteRefuses(c) \/ MakesScratch(c)
       \/ ChildWrites(c) \/ PipeFails(c) \/ VendorExits(c) \/ GraceOver(c) \/ Replays(c)

(* A call goes on (its child may hang, its deadline does not) and the      *)
(* grace of a child that was signalled is over some time.                  *)
PortFairness ==
  /\ WF_modelPortVars(\E c \in Completions : CompletionStep(c))
  /\ WF_modelPortVars(\E c \in Completions : GraceOver(c))

PortSpec == PortInit /\ [][PortNext]_modelPortVars /\ PortFairness

-----------------------------------------------------------------------------
(* Properties. *)

(* Type invariant. *)
PortTypeOK ==
  /\ port \in {NoAnswer, "refused", "deterministic", "claude-local", "qoder"}
  /\ \A c \in Completions :
       /\ completion[c].pc \in
            {"idle", "prepared", "running", "adapter", "cleanup", "returned"}
       /\ completion[c].answer \in {NoAnswer, "text", "error"}
       /\ vendor[c].read \in 0..Len(vendor[c].wrote)

(* A text of claude-local is the result of a child that announced the      *)
(* operator's login, an empty tool set and a supported version, said       *)
(* nothing but text and notices in one session, ended with one successful  *)
(* result, exited with zero and was never signalled (complete() and the    *)
(* normalizer), even when the command was replaced after the probe.        *)
GenuineText(v) ==
  LET said == {k \in DOMAIN v.wrote : v.wrote[k].type # "blank"}
  IN /\ v.exit = "zero" /\ ~v.termed /\ v.version = "supported" /\ v.read = Len(v.wrote)
     /\ \E first, last \in said :
          /\ first < last /\ \A k \in said : first <= k /\ k <= last
          /\ v.wrote[first].type = "init" /\ InitConforms(v.wrote[first])
          /\ v.wrote[last].type = "result" /\ v.wrote[last].detail = "success"
          /\ \A k \in said \ {first} : v.wrote[k].mine
          /\ \A k \in said \ {first, last} :
               \/ v.wrote[k].type = "notice"
               \/ /\ v.wrote[k].type \in {"stream_event", "assistant"}
                  /\ v.wrote[k].detail # "tool" /\ ~v.wrote[k].parent

PortTextGenuine ==
  \A c \in Completions :
    port = "claude-local" /\ completion[c].answer = "text" => GenuineText(vendor[c])

(* No call of complete() starts while a child of an earlier one lives, and *)
(* a call that has returned leaves no scratch directory and no child that  *)
(* is not about to be killed.                                              *)
OneVendorAtATime ==
  /\ \A c, d \in Completions : c < d /\ completion[d].pc # "idle" => ~Alive(vendor[c])
  /\ \A c \in Completions : completion[c].pc = "returned" =>
       /\ ~completion[c].scratch
       /\ Alive(vendor[c]) => vendor[c].termed /\ vendor[c].timer

PortsSound == PortTypeOK /\ PortTextGenuine /\ OneVendorAtATime

(* Whatever is under way, every call that was made returns and its child   *)
(* is gone in the end, also one that never writes and ignores SIGTERM      *)
(* (deadline and kill timer).                                              *)
Over(c) == completion[c].pc = "idle" \/ (completion[c].pc = "returned" /\ ~Alive(vendor[c]))
PortCallsEnd == []<>(\A c \in Completions : Over(c))
=============================================================================
