----------------------------- MODULE MCFrontDoor -----------------------------
(***************************************************************************)
(* What takes requests in and puts it there: the JobRunner, the DingTalk   *)
(* channel in front of it and the deploy command.  They share no state, so *)
(* one run checks them one at a time: `part` says whose turn it is and     *)
(* never changes.                                                          *)
(*                                                                         *)
(* One slot, one place in the queue and bounded maps of one entry for the  *)
(* JobRunner.  For the channel, two messages with one key, one of them not *)
(* usable, and one with a text of several segments; its duplicate cache    *)
(* holds one entry.  Two deploys to one place, of every channel, with two  *)
(* packages, and one crash or profile switch.                              *)
(***************************************************************************)
EXTENDS JobRunner, DingTalk, Deploy

Webhook == [https |-> TRUE, host |-> "oapi.dingtalk.com", port |-> 443, bare |-> TRUE]

MCMessages ==
  [m \in {"m1", "m2", "bad"} |->
    [key |-> IF m = "m2" THEN "k2" ELSE "k1", usable |-> m # "bad", webhook |-> Webhook,
     text |-> IF m = "m2" THEN <<"a", "n", "b", "c", "d">> ELSE <<>>]]

Http == [channel |-> "http", runtime |-> "agent-native", engine |-> "qoder", port |-> "none",
         token |-> TRUE, name |-> "n", pkg |-> "p"]
MCOptions ==
  {Http, [Http EXCEPT !.pkg = "q", !.port = "valid"], [Http EXCEPT !.token = FALSE],
   [Http EXCEPT !.channel = "console"], [Http EXCEPT !.channel = "lark"],
   [Http EXCEPT !.channel = "dingtalk"], [Http EXCEPT !.channel = "dingtalk", !.name = "m"]}

VARIABLE part

MCInit ==
  /\ Init /\ DingInit /\ DeployInit
  /\ part \in {"jobs", "dingtalk", "deploy"}
  /\ part # "deploy" => profile = CHOOSE x \in Profiles : TRUE

MCNext ==
  \/ part = "jobs" /\ Next /\ UNCHANGED <<part, dingVars, deployVars>>
  \/ part = "dingtalk" /\ DingNext /\ UNCHANGED <<part, runnerVars, deployVars>>
  \/ part = "deploy" /\ DeployNext /\ UNCHANGED <<part, runnerVars, dingVars>>

(* The fairness of each part, while it is its turn. *)
MCFairness ==
  /\ WF_runnerVars(part = "jobs" /\ Tick)
  /\ WF_runnerVars(part = "jobs" /\ \E i \in 1..Len(queue) : QueueTimeout(i))
  /\ WF_dingVars(part = "dingtalk" /\ WatchdogTick)
  /\ WF_dingVars(part = "dingtalk" /\ BackoffEnds)
  /\ WF_dingVars(part = "dingtalk" /\ RetentionTick)
  /\ WF_dingVars(part = "dingtalk" /\ ConnectTimesOut)
  /\ SF_dingVars(part = "dingtalk" /\ ConnectSucceeds)
  /\ \A d \in Deploys :
       /\ WF_deployVars(part = "deploy" /\ DeployStep(d))
       /\ WF_deployVars(/\ part = "deploy"
                        /\ ~run[d].connected \/ run[d].termed
                        /\ RuntimeStops(d))
       /\ WF_deployVars(part = "deploy" /\ RuntimeExits(d))

MCSpec == MCInit /\ [][MCNext]_<<part, runnerVars, dingVars, deployVars>> /\ MCFairness
=============================================================================
