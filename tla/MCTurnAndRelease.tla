-------------------------- MODULE MCTurnAndRelease --------------------------
(***************************************************************************)
(* A governed turn and the publication of a release to npm.  They share no *)
(* state, so one run checks them one at a time: `part` says whose turn it  *)
(* is and never changes.                                                   *)
(*                                                                         *)
(* Two executions of one turn, or of two requests with one budget key,     *)
(* over requests that fail each gate, use both memory modes, carry single, *)
(* batch and mixed approvals, and repair a schema.  Two publications of    *)
(* two versions, read twice, tried twice, with a lag of one state and one  *)
(* release by hand.                                                        *)
(***************************************************************************)
EXTENDS TurnExecutor, NpmPublish, TLC

CONSTANTS r1, r2, k1    \* two runs, the budget key they share

Entry(p, writes) == [position |-> p, tier |-> "worker", writes |-> writes, allow |-> {"search"},
                     read |-> {<<"shared">>}]
Artifact == [worker |-> Entry("worker", "deny")]
Base == [permissions |-> Artifact, position |-> "worker", reads |-> <<<<"shared", "plan">>>>,
         tools |-> <<"search">>, schema |-> "none", memory |-> "off", context |-> "off",
         contextOver |-> FALSE, approval |-> "none", verdicts |-> <<>>,
         deadline |-> None, maxIterations |-> 1, maxTokens |-> None, key |-> None]
Decision(i, d, e) == [id |-> i, decision |-> d, expires |-> e]
MCTurnOf == [r \in {r1, r2} |-> "turn"]
Denials ==
  {[Base EXCEPT !.position = "stranger"], [Base EXCEPT !.tools = <<"search", "write">>],
   [Base EXCEPT !.reads = <<<<"shared", "..", "owner">>>>]}
Verdicts ==
  {[Base EXCEPT !.approval = "action"], [Base EXCEPT !.approval = "stale_action"],
   [Base EXCEPT !.approval = "single", !.verdicts = <<Decision(1, "denied", None)>>],
   [Base EXCEPT !.approval = "batch",
                !.verdicts = <<Decision(1, "granted", None), Decision(2, "granted", 0)>>],
   [Base EXCEPT !.approval = "batch",
                !.verdicts = <<Decision(1, "granted", None), Decision(2, "denied", None)>>]}
Invalid ==
  {[Base EXCEPT !.permissions = [worker |-> Entry("worker", "allow")]],
   [Base EXCEPT !.permissions = None, !.tools = <<"write">>, !.schema = "bad"],
   [Base EXCEPT !.maxIterations = 0],
   [Base EXCEPT !.approval = "batch",
                !.verdicts = <<Decision(1, "granted", None), Decision(1, "granted", None)>>]}
Ordinary ==
  {[Base EXCEPT !.contextOver = TRUE],
   [Base EXCEPT !.memory = "required", !.context = "optional"],
   [Base EXCEPT !.memory = "optional", !.context = "required"],
   [Base EXCEPT !.approval = "single", !.verdicts = <<Decision(1, "granted", 0)>>],
   [Base EXCEPT !.schema = "json", !.maxIterations = 2, !.key = k1]}
LongRepair == [Base EXCEPT !.schema = "json", !.maxIterations = 4, !.maxTokens = 3, !.deadline = 0]
MCRequests == (r1 :> Denials \cup Verdicts \cup Invalid \cup Ordinary \cup {LongRepair})
              @@ (r2 :> Ordinary)

---------------------------------------------------------------------------
Release(v, b, tag) ==
  [nameMatches |-> TRUE, manifest |-> v, release |-> v, public |-> TRUE, packed |-> v,
   packBytes |-> b, bytes |-> b, missing |-> "fail", marker |-> FALSE, tag |-> tag]
MCInputs ==
  {Release(1, "x", "latest"), Release(2, "y", "latest"), Release(1, "y", "repair"),
   [Release(2, "y", "latest") EXCEPT !.missing = "bootstrap-soft", !.marker = TRUE],
   [Release(1, "x", "latest") EXCEPT !.packBytes = "y"]}

---------------------------------------------------------------------------
VARIABLE part

MCInit ==
  /\ TurnInit /\ NpmInit
  /\ part \in {"turn", "npm"}
  /\ part # "npm" => ~history[1].exists

MCNext ==
  \/ part = "turn" /\ TurnNext /\ UNCHANGED <<part, npmVars>>
  \/ part = "npm" /\ NpmNext /\ UNCHANGED <<part, turnVars>>

(* The fairness of each part, while it is its turn. *)
MCFairness ==
  /\ \A r \in Runs : WF_turnVars(part = "turn" /\ RunStep(r))
  /\ WF_npmVars(part = "npm" /\ Fetch)
  /\ WF_npmVars(part = "npm" /\ Publish)
  /\ WF_npmVars(part = "npm" /\ NpmEnds)

MCSpec == MCInit /\ [][MCNext]_<<part, turnVars, npmVars>> /\ MCFairness
=============================================================================
