------------------------------- MODULE Deploy -------------------------------
(***************************************************************************)
(* `deploy` (apps/cli/deploy): one local deployment slot, config.json,     *)
(* written under an advisory lock on .deploy.lock, and the HTTP runtime    *)
(* that a deploy spawns, activates in six phases and finally releases.     *)
(*                                                                         *)
(* The runtime inherits the descriptor of the lock (fd 4) and keeps it     *)
(* until it is autonomous or gone, so a deploy that dies does not free the *)
(* lock while its runtime may still be half activated.  Deploys, runtimes, *)
(* crashes, lost acknowledgements, timeouts and interrupts interleave.     *)
(* For DingTalk, deploy creates a remote application; the attempt is       *)
(* fenced in config.json before the call, whose outcome may stay unknown.  *)
(***************************************************************************)
EXTENDS Naturals, FiniteSets, Sequences

CONSTANTS Deploys,       \* `deploy` processes; each spawns at most one runtime
          Options,       \* command line inputs
          Profiles,      \* DWS profiles the operator may switch between
          MaxFaults,     \* crashes of processes, switches of the profile
          Nobody

ASSUME DeployAssumption == Nobody \notin Deploys \cup Profiles

VARIABLES slot,     \* config.json
          dep,      \* deploy -> where it is
          run,      \* deploy -> the runtime it spawned
          lease,    \* processes that hold the lock's open file description
          apps,     \* applications created at the provider: <<scope, creator>>
          profile,  \* the current DWS profile
          faults

deployVars == <<slot, dep, run, lease, apps, profile, faults>>

DeployPhases == <<"prepare", "commit", "activate", "listen", "detach", "release">>
Release == 6

-----------------------------------------------------------------------------
(* Inputs and the state file. *)

AgentEngines == {"claude-code", "qoder", "qwen-code", "codebuddy"}
Channels == {"dingtalk", "lark", "wecom", "console", "http"}

(* validateExplicitInputs, completeAutomationInputs and the two checks that *)
(* follow the prompts: --port is for http, http needs a token.             *)
InputsAccepted(o) ==
  /\ o.channel \in Channels /\ o.runtime = "agent-native" /\ o.engine \in AgentEngines
  /\ o.port = "none" \/ (o.port = "valid" /\ o.channel = "http")
  /\ o.channel = "http" => o.token

NoSlot == [channel |-> "none", name |-> Nobody, pkg |-> Nobody, outcome |-> "none",
           proc |-> Nobody, act |-> "none", prov |-> Nobody, op |-> Nobody]

Candidate(o) == [NoSlot EXCEPT !.channel = o.channel, !.name = o.name, !.pkg = o.pkg,
                               !.outcome = "pending"]

SameDeployment(a, b) == a.channel = b.channel /\ a.name = b.name /\ a.pkg = b.pkg

(* sanitizeConfig, the rules between fields: who may have a process, a     *)
(* provider, an operation, and which outcomes a channel has.               *)
AllowedOutcomes(channel) ==
  CASE channel = "http" -> {"pending", "ready", "failed"}
    [] channel \in {"lark", "wecom"} -> {"unsupported", "failed"}
    [] OTHER -> {"pending", "failed"}

ValidConfig(c) ==
  \/ c = NoSlot
  \/ /\ c.channel \in Channels /\ c.outcome \in AllowedOutcomes(c.channel)
     /\ c.proc # Nobody => c.channel = "http" /\ c.outcome \in {"ready", "pending"}
     /\ (c.proc = Nobody) <=> (c.act = "none")
     /\ c.prov # Nobody => c.channel = "dingtalk"
     /\ c.op # Nobody => c.channel = "dingtalk" /\ c.prov = Nobody
     /\ c.outcome = "ready" => c.proc # Nobody /\ c.act = "authorized"

-----------------------------------------------------------------------------
NoDep == [pc |-> "idle", opt |-> Nobody, prov |-> Nobody, op |-> Nobody, ph |-> 0,
          promoted |-> FALSE, acked |-> FALSE, scope |-> Nobody, result |-> "none",
          target |-> Nobody]
NoRuntime == [st |-> "none", inbox |-> 0, acked |-> 0, connected |-> FALSE,
          listening |-> FALSE, autonomous |-> FALSE, termed |-> FALSE]

DeployInit ==
  /\ slot = NoSlot
  /\ dep = [d \in Deploys |-> NoDep]
  /\ run = [d \in Deploys |-> NoRuntime]
  /\ lease = {} /\ apps = {} /\ faults = 0
  /\ profile \in Profiles

Parent(d) == <<"deploy", d>>
Child(d) == <<"runtime", d>>
Alive(d) == run[d].st \in {"run", "stopping"}

(* /health and the authorization probe of a runtime, and inspectHttpDeployment; *)
(* a probe may fail although the runtime is fine (seen).                   *)
Healthy(d) == run[d].st = "run" /\ run[d].listening
Inspect(c, seen) ==
  IF c.proc = Nobody THEN "absent"
  ELSE IF c.act # "authorized" THEN "unverified"
  ELSE IF ~Alive(c.proc) THEN "absent"
  ELSE IF Healthy(c.proc) /\ seen THEN "ready" ELSE "starting"

To(d, pc) == dep' = [dep EXCEPT ![d].pc = pc]

(* The end of deployImpl: the lock is released, the process exits, its IPC *)
(* channel closes.                                                         *)
LeaveDeploy(d, result, target) ==
  /\ dep' = [dep EXCEPT ![d] = [NoDep EXCEPT !.pc = "done", !.result = result,
                                             !.target = target]]
  /\ lease' = lease \ {Parent(d)}
  /\ run' = [run EXCEPT ![d].connected = FALSE]

Cand(d) == [Candidate(dep[d].opt) EXCEPT !.prov = dep[d].prov, !.op = dep[d].op]

Start(d) ==
  /\ dep[d].pc = "idle"
  /\ \E o \in Options :
       dep' = [dep EXCEPT ![d] = IF InputsAccepted(o)
                                 THEN [NoDep EXCEPT !.pc = "lock", !.opt = o]
                                 ELSE [NoDep EXCEPT !.pc = "done", !.result = "refused"]]
  /\ UNCHANGED <<slot, run, lease, apps, profile, faults>>

(* acquireDeploymentLock polls until the descriptor is free, the decision  *)
(* budget is used up or the operator interrupts.                           *)
AcquireLock(d) ==
  /\ dep[d].pc = "lock" /\ lease = {}
  /\ lease' = {Parent(d)}
  /\ To(d, "existing")
  /\ UNCHANGED <<slot, run, apps, profile, faults>>

LockTimesOut(d) ==
  /\ dep[d].pc = "lock"
  /\ dep' = [dep EXCEPT ![d] = [NoDep EXCEPT !.pc = "done", !.result = "lock_timeout"]]
  /\ UNCHANGED <<slot, run, lease, apps, profile, faults>>

(* What the state file says of the slot: a bound provider or an open       *)
(* create operation is never abandoned, a runtime that may live never      *)
(* replaced.                                                               *)
Examine(d) ==
  LET e == slot
      c == Cand(d)
      resumable(st) == /\ e.outcome \in {"ready", "pending"} /\ SameDeployment(e, c)
                       /\ c.channel = "http" /\ st = "ready"
  IN /\ dep[d].pc = "existing"
     /\ \E seen \in BOOLEAN, overwrite \in BOOLEAN :
          LET st == Inspect(e, seen) IN
          IF e.prov # Nobody /\ ~(c.channel = "dingtalk" /\ e.name = c.name)
          THEN LeaveDeploy(d, "unsupported", Nobody)
          ELSE IF e.op # Nobody /\ ~SameDeployment(e, c)
          THEN LeaveDeploy(d, "pending", Nobody)
          ELSE IF resumable(st)
          THEN To(d, "resume") /\ UNCHANGED <<lease, run>>
          ELSE IF (e.proc # Nobody /\ st # "absent") \/ (e.outcome # "none" /\ ~overwrite)
          THEN LeaveDeploy(d, "unsafe", Nobody)
          ELSE /\ dep' = [dep EXCEPT ![d].pc = "begin", ![d].prov = e.prov, ![d].op = e.op]
               /\ UNCHANGED <<lease, run>>
     /\ UNCHANGED <<slot, apps, profile, faults>>

(* Reuse of a live runtime: readback, promotion to ready, readback again.  *)
Resume(d) ==
  /\ dep[d].pc = "resume"
  /\ \E seen \in BOOLEAN :
       IF seen /\ Healthy(slot.proc)
       THEN /\ slot' = [slot EXCEPT !.outcome = "ready"]
            /\ dep' = [dep EXCEPT ![d].pc = "resumed", ![d].promoted = slot.outcome # "ready"]
            /\ UNCHANGED <<lease, run>>
       ELSE LeaveDeploy(d, "unsafe", Nobody) /\ UNCHANGED slot
  /\ UNCHANGED <<apps, profile, faults>>

Resumed(d) ==
  /\ dep[d].pc = "resumed"
  /\ \E seen \in BOOLEAN, saved \in BOOLEAN :
       IF seen /\ Healthy(slot.proc)
       THEN LeaveDeploy(d, "ready", slot.proc) /\ UNCHANGED slot
       ELSE /\ LeaveDeploy(d, "unsafe", Nobody)
            /\ slot' = IF dep[d].promoted /\ saved THEN [slot EXCEPT !.outcome = "pending"]
                       ELSE slot
  /\ UNCHANGED <<apps, profile, faults>>

(* The pending state of a fresh deployment, before any effect.  Lark,      *)
(* WeCom and the console end here: they only record their outcome.         *)
BeginDeploy(d) ==
  LET ch == dep[d].opt.channel IN
  /\ dep[d].pc = "begin"
  /\ \/ /\ ch = "http" /\ slot' = Cand(d) /\ To(d, "spawn") /\ UNCHANGED <<lease, run>>
     \/ /\ ch = "console" /\ slot' = Cand(d) /\ LeaveDeploy(d, "pending", Nobody)
     \/ /\ ch \in {"lark", "wecom"} /\ slot' = [Cand(d) EXCEPT !.outcome = "unsupported"]
        /\ LeaveDeploy(d, "unsupported", Nobody)
     \/ /\ ch = "dingtalk" /\ To(d, "session") /\ UNCHANGED <<slot, lease, run>>
     \/ LeaveDeploy(d, "failed", Nobody) /\ UNCHANGED slot     \* package changed, write failed
  /\ UNCHANGED <<apps, profile, faults>>

-----------------------------------------------------------------------------
(* deployHttp and the final verification. *)

SpawnRuntime(d) ==
  /\ dep[d].pc = "spawn"
  /\ \/ /\ run' = [run EXCEPT ![d] = [NoRuntime EXCEPT !.st = "run", !.connected = TRUE]]
        /\ lease' = lease \cup {Child(d)}
        /\ dep' = [dep EXCEPT ![d].pc = "save", ![d].ph = 1]
        /\ UNCHANGED slot
     \/ slot' = [Cand(d) EXCEPT !.outcome = "failed"] /\ LeaveDeploy(d, "failed", Nobody)
  /\ UNCHANGED <<apps, profile, faults>>

(* The state published before a phase; activate and listen change nothing. *)
PhaseState(d, ph) ==
  CASE ph = 1 -> [Cand(d) EXCEPT !.proc = d, !.act = "prepared"]
    [] ph \in {2, 5} -> [Cand(d) EXCEPT !.proc = d, !.act = "authorized"]
    [] ph = Release -> [slot EXCEPT !.outcome = "ready"]
    [] OTHER -> slot

SavePhase(d) ==
  /\ dep[d].pc = "save"
  /\ slot' = PhaseState(d, dep[d].ph)
  /\ To(d, "send")
  /\ UNCHANGED <<run, lease, apps, profile, faults>>

(* Where a failure leads: before the final verification to the cleanup,    *)
(* after it first to a state that is no longer ready; once the release was *)
(* sent, the state stays as it is and nobody is signalled.                 *)
FailurePc(ph) == IF ph <= 4 THEN "cleanup" ELSE "unpublish"

SaveFails(d) ==
  /\ dep[d].pc = "save"
  /\ \E renamed \in BOOLEAN :
       slot' = IF renamed THEN PhaseState(d, dep[d].ph) ELSE slot
  /\ To(d, IF dep[d].ph <= 4 THEN "cleanup" ELSE "reapOnly")
  /\ UNCHANGED <<run, lease, apps, profile, faults>>

(* The exact state is read back, from phase detach on with the health of   *)
(* the runtime, and the message is put on the channel.                     *)
SendPhase(d) ==
  LET ph == dep[d].ph
      ok == run[d].st = "run" /\ run[d].connected /\ (ph >= 5 => Healthy(d))
  IN /\ dep[d].pc = "send"
     /\ \E seen \in BOOLEAN :
          IF ok /\ seen
          THEN run' = [run EXCEPT ![d].inbox = ph] /\ To(d, "await")
          ELSE To(d, FailurePc(ph)) /\ UNCHANGED run
     /\ UNCHANGED <<slot, lease, apps, profile, faults>>

AckArrives(d) ==
  LET ph == dep[d].ph IN
  /\ dep[d].pc = "await" /\ run[d].acked = ph
  /\ dep' = [dep EXCEPT ![d].acked = (ph = Release),
       ![d].ph = IF ph \in {4, Release} THEN ph ELSE ph + 1,
       ![d].pc = CASE ph \in {1, 5} -> "save"
                   [] ph \in {2, 3} -> "send"
                   [] ph = 4 -> "poll"
                   [] ph = Release -> "final"]
  /\ UNCHANGED <<slot, run, lease, apps, profile, faults>>

(* A timer, an interrupt, or the runtime's exit or disconnect. *)
AckMissing(d) ==
  /\ dep[d].pc = "await"
  /\ To(d, IF dep[d].ph = Release THEN "final" ELSE FailurePc(dep[d].ph))
  /\ UNCHANGED <<slot, run, lease, apps, profile, faults>>

(* The readiness poll of deployHttp. *)
PollDeploy(d) ==
  /\ dep[d].pc = "poll"
  /\ \E seen \in BOOLEAN :
       IF seen /\ Healthy(d)
       THEN dep' = [dep EXCEPT ![d].pc = "save", ![d].ph = 5]
       ELSE To(d, "cleanup")
  /\ UNCHANGED <<slot, run, lease, apps, profile, faults>>

(* After the release: one more readback, and only an acknowledged release  *)
(* is reported as ready.                                                   *)
Final(d) ==
  /\ dep[d].pc = "final"
  /\ \E seen \in BOOLEAN :
       IF dep[d].acked /\ seen /\ Healthy(d)
       THEN LeaveDeploy(d, "ready", d) ELSE LeaveDeploy(d, "failed", Nobody)
  /\ UNCHANGED <<slot, apps, profile, faults>>

Unpublish(d) ==
  /\ dep[d].pc = "unpublish"
  /\ \/ slot' = [slot EXCEPT !.outcome = "pending"] /\ To(d, "cleanup")
     \/ To(d, "reapOnly") /\ UNCHANGED slot
  /\ UNCHANGED <<run, lease, apps, profile, faults>>

(* terminateSpawnedProcess: SIGTERM, SIGKILL, and an exit that is seen or  *)
(* not.  Only a runtime seen to end is recorded as failed.                 *)
Cleanup(d) ==
  /\ dep[d].pc \in {"cleanup", "reapOnly"}
  /\ run' = [run EXCEPT ![d].termed = TRUE]
  /\ To(d, IF dep[d].pc = "cleanup" THEN "reap" ELSE "reapQuietly")
  /\ UNCHANGED <<slot, lease, apps, profile, faults>>

\* The variant records the failure without having seen the runtime end.
ReapUnobserved(d) ==
  /\ dep[d].pc = "reap"
  /\ slot' = [Cand(d) EXCEPT !.outcome = "failed"] /\ LeaveDeploy(d, "failed", Nobody)
  /\ UNCHANGED <<apps, profile, faults>>

Reap(d) ==
  /\ dep[d].pc = "reap"
  /\ \E saved \in BOOLEAN :
       LET record(c) == slot' = IF saved THEN c ELSE slot IN
       \/ /\ ~Alive(d) /\ record([Cand(d) EXCEPT !.outcome = "failed"])
          /\ LeaveDeploy(d, "failed", Nobody)
       \/ /\ record([Cand(d) EXCEPT !.proc = d,
                       !.act = IF dep[d].ph = 1 THEN "prepared" ELSE "authorized"])
          /\ LeaveDeploy(d, "pending", Nobody)
  /\ UNCHANGED <<apps, profile, faults>>

(* The catch block: the state stays as the failed write left it. *)
ReapQuietly(d) ==
  /\ dep[d].pc = "reapQuietly"
  /\ LeaveDeploy(d, "failed", Nobody)
  /\ UNCHANGED <<slot, apps, profile, faults>>

-----------------------------------------------------------------------------
(* The runtime. *)

(* activatedConfig: the state file names this runtime, in the state the    *)
(* phase calls for.                                                        *)
ActivatedConfig(d, ph) ==
  /\ slot.channel = "http" /\ slot.proc = d
  /\ slot.act = IF ph = 1 THEN "prepared" ELSE "authorized"
  /\ slot.outcome = IF ph = Release THEN "ready" ELSE "pending"

RuntimeStep(d) ==
  LET ph == run[d].inbox IN
  /\ run[d].st = "run" /\ run[d].connected /\ ~run[d].termed
  /\ ph = run[d].acked + 1
  /\ ActivatedConfig(d, ph)
  /\ run' = [run EXCEPT ![d].acked = ph, ![d].listening = @ \/ ph = 4,
                        ![d].autonomous = (ph = Release),
                        ![d].connected = (ph # Release)]
  /\ lease' = IF ph = Release THEN lease \ {Child(d)} ELSE lease
  /\ UNCHANGED <<slot, dep, apps, profile, faults>>

\* The variant does not watch its IPC channel.
RuntimeStopsWhileConnected(d) ==
  /\ run[d].st = "run" /\ ~run[d].autonomous /\ run[d].connected
  /\ run' = [run EXCEPT ![d].st = "stopping", ![d].listening = FALSE,
                        ![d].connected = FALSE]
  /\ UNCHANGED <<slot, dep, lease, apps, profile, faults>>

(* The parent is gone, the state is another, the port is taken, the        *)
(* package differs, no message in time, a signal: stopRuntime.             *)
RuntimeStops(d) ==
  /\ run[d].st = "run" /\ ~run[d].autonomous
  /\ run' = [run EXCEPT ![d].st = "stopping", ![d].listening = FALSE,
                        ![d].connected = FALSE]
  /\ UNCHANGED <<slot, dep, lease, apps, profile, faults>>

RuntimeExits(d) ==
  /\ run[d].st = "stopping"
  /\ run' = [run EXCEPT ![d].st = "dead"]
  /\ lease' = lease \ {Child(d)}
  /\ UNCHANGED <<slot, dep, apps, profile, faults>>

-----------------------------------------------------------------------------
(* DingTalk: reconcileDingTalkApplication. *)

(* resolve and revalidate: the scope of the current profile, if readable.  *)
(* A state fenced for another scope is left byte for byte.                 *)
OpenSession(d) ==
  /\ dep[d].pc = "session"
  /\ \E ok \in BOOLEAN :
       IF ok /\ {dep[d].prov, dep[d].op} \subseteq {Nobody, profile}
       THEN /\ dep' = [dep EXCEPT ![d].pc = IF dep[d].prov = Nobody THEN "list" ELSE "get",
                                  ![d].scope = profile]
            /\ UNCHANGED <<lease, run>>
       ELSE LeaveDeploy(d, "pending", Nobody)
  /\ UNCHANGED <<slot, apps, profile, faults>>

(* The last state of a reconciliation: the candidate with what is known. *)
ConcludeDingTalk(d, outcome) ==
  /\ \/ slot' = [Cand(d) EXCEPT !.outcome = outcome]
     \/ UNCHANGED slot                                   \* the write failed
  /\ LeaveDeploy(d, outcome, Nobody)

(* The scope drifted, or an identity could not be read: preserveState. *)
Preserve(d) == LeaveDeploy(d, "pending", Nobody) /\ UNCHANGED slot

(* A bound application is read back, never created again. *)
GetBound(d) ==
  /\ dep[d].pc = "get"
  /\ \/ dep[d].scope = profile /\ (ConcludeDingTalk(d, "pending") \/ ConcludeDingTalk(d, "failed"))
     \/ Preserve(d)
  /\ UNCHANGED <<apps, profile, faults>>

HasApp(scope) == \E a \in apps : a[1] = scope

(* findExactApp: one, none (also of a listing that lags behind) or unclear. *)
ListApps(d) ==
  LET s == dep[d].scope IN
  /\ dep[d].pc = "list"
  /\ \/ HasApp(s) /\ To(d, "identify") /\ UNCHANGED <<slot, lease, run>>
     \/ /\ dep[d].op # Nobody
        /\ IF s = profile THEN ConcludeDingTalk(d, "pending") ELSE Preserve(d)
     \/ /\ dep[d].op = Nobody
        /\ \/ ConcludeDingTalk(d, "failed")
           \/ ConcludeDingTalk(d, "pending")                       \* not confirmed
           \/ IF s = profile THEN To(d, "fence") /\ UNCHANGED <<slot, lease, run>>
              ELSE Preserve(d)
  /\ UNCHANGED <<apps, profile, faults>>

(* onCreateAttempt: the operation is durable before the call. *)
Fence(d) ==
  /\ dep[d].pc = "fence"
  /\ \/ /\ slot' = [Cand(d) EXCEPT !.op = dep[d].scope]
        /\ dep' = [dep EXCEPT ![d].pc = "create", ![d].op = dep[d].scope]
        /\ UNCHANGED <<lease, run>>
     \/ Preserve(d)
  /\ UNCHANGED <<apps, profile, faults>>

(* +create: whatever comes back, the application may be there. *)
Create(d) ==
  /\ dep[d].pc = "create"
  /\ \/ /\ dep[d].scope # profile /\ Preserve(d) /\ UNCHANGED apps
     \/ /\ dep[d].scope = profile
        /\ \/ apps' = apps \cup {<<dep[d].scope, d>>}
           \/ UNCHANGED apps
        /\ dep' = [dep EXCEPT ![d].pc = "created"]
        /\ UNCHANGED <<slot, lease, run>>
  /\ UNCHANGED <<profile, faults>>

(* The reply names the application, says it exists already, or is unclear. *)
Created(d) ==
  /\ dep[d].pc = "created"
  /\ \/ HasApp(dep[d].scope) /\ To(d, "identify") /\ UNCHANGED <<slot, lease, run>>
     \/ IF dep[d].scope = profile THEN ConcludeDingTalk(d, "pending") ELSE Preserve(d)
  /\ UNCHANGED <<apps, profile, faults>>

(* readbackApp and revalidation, then onProviderIdentified: the provider   *)
(* takes the place of the operation.                                       *)
IdentifyApplication(d) ==
  /\ dep[d].pc = "identify"
  /\ \/ /\ dep[d].scope = profile
        /\ slot' = [Cand(d) EXCEPT !.prov = dep[d].scope, !.op = Nobody]
        /\ dep' = [dep EXCEPT ![d].pc = "bound", ![d].prov = dep[d].scope, ![d].op = Nobody]
        /\ UNCHANGED <<lease, run>>
     \/ dep[d].scope = profile /\ ConcludeDingTalk(d, "pending")      \* readback unclear
     \/ Preserve(d)
  /\ UNCHANGED <<apps, profile, faults>>

Bound(d) ==
  /\ dep[d].pc = "bound" /\ ConcludeDingTalk(d, "pending")
  /\ UNCHANGED <<apps, profile, faults>>

ProfileSwitches ==
  /\ faults < MaxFaults /\ \E d \in Deploys : dep[d].scope # Nobody
  /\ \E p \in Profiles \ {profile} : profile' = p
  /\ faults' = faults + 1
  /\ UNCHANGED <<slot, dep, run, lease, apps>>

-----------------------------------------------------------------------------
DeployCrashes(d) ==
  /\ faults < MaxFaults /\ Parent(d) \in lease
  /\ dep' = [dep EXCEPT ![d] = [NoDep EXCEPT !.pc = "dead"]]
  /\ lease' = lease \ {Parent(d)}
  /\ run' = [run EXCEPT ![d].connected = FALSE]
  /\ faults' = faults + 1
  /\ UNCHANGED <<slot, apps, profile>>

RuntimeCrashes(d) ==
  /\ faults < MaxFaults /\ Alive(d)
  /\ run' = [run EXCEPT ![d].st = "dead", ![d].listening = FALSE, ![d].connected = FALSE]
  /\ lease' = lease \ {Child(d)}
  /\ faults' = faults + 1
  /\ UNCHANGED <<slot, dep, apps, profile>>

DeployStep(d) ==
  \/ AcquireLock(d) \/ LockTimesOut(d) \/ Examine(d) \/ Resume(d) \/ Resumed(d)
  \/ BeginDeploy(d) \/ SpawnRuntime(d) \/ SavePhase(d) \/ SaveFails(d) \/ SendPhase(d)
  \/ AckArrives(d) \/ AckMissing(d) \/ PollDeploy(d) \/ Final(d) \/ Unpublish(d)
  \/ Cleanup(d) \/ Reap(d) \/ ReapQuietly(d)
  \/ OpenSession(d) \/ GetBound(d) \/ ListApps(d) \/ Fence(d) \/ Create(d) \/ Created(d)
  \/ IdentifyApplication(d) \/ Bound(d)

DeployNext ==
  \/ \E d \in Deploys :
       \/ Start(d) \/ DeployStep(d) \/ DeployCrashes(d)
       \/ RuntimeStep(d) \/ RuntimeStops(d) \/ RuntimeExits(d) \/ RuntimeCrashes(d)
  \/ ProfileSwitches

(* A deploy goes on: every wait of it has a timer.  A runtime that has     *)
(* lost its parent or was signalled notices, and a stopping one exits.     *)
DeployFairness ==
  \A d \in Deploys :
    /\ WF_deployVars(DeployStep(d))
    /\ WF_deployVars((~run[d].connected \/ run[d].termed) /\ RuntimeStops(d))
    /\ WF_deployVars(RuntimeExits(d))

DeploySpec == DeployInit /\ [][DeployNext]_deployVars /\ DeployFairness

-----------------------------------------------------------------------------
(* Properties. *)

(* No path writes a state file that sanitizeConfig would refuse to write,  *)
(* and with it the next deploy to read.                                    *)
DeployStateValid == ValidConfig(slot)

(* A runtime that serves on its own is the one the state file names, so a  *)
(* later deploy finds it: there is never a second one, and none that no    *)
(* state file knows, whatever crashed or got lost during its release.      *)
NoOrphanRuntime ==
  \A d \in Deploys : run[d].autonomous /\ Alive(d) => slot.proc = d /\ slot.act = "authorized"

(* "Ready" on the screen: the runtime had validated its release and served *)
(* requests, also when it was found alive by a later deploy and reused.    *)
ReadyMeansReleased ==
  \A d \in Deploys : dep[d].result = "ready" => run[dep[d].target].autonomous

(* A deployment recorded as failed has no runtime left, not even one that  *)
(* is still starting.                                                      *)
FailedMeansStopped == slot.outcome = "failed" => \A d \in Deploys : ~Alive(d)

(* The remote application is created at most once over all deploys and     *)
(* retries, and a bound provider is an application that exists.            *)
CreatedOnce ==
  /\ Cardinality(apps) <= 1
  /\ slot.prov # Nobody => HasApp(slot.prov)

(* docs/deploy.md: "Every parent loss before the child validates release   *)
(* makes the child exit in a bounded interval."  And every deploy ends.    *)
ParentLossEndsRuntime ==
  \A d \in Deploys :
    []<>(~(dep[d].pc \in {"done", "dead"} /\ run[d].st = "run" /\ ~run[d].autonomous))
EveryDeployEnds == \A d \in Deploys : []<>(dep[d].pc \in {"idle", "done", "dead"})

(* Over any number of deploys, crashes and retries (deploy/index.ts,      *)
(* channels.ts, dingtalk-provider.ts) the state file, the runtimes and the *)
(* remote application tell one story.                                      *)
DeploySound ==
  /\ DeployStateValid /\ NoOrphanRuntime /\ ReadyMeansReleased /\ FailedMeansStopped
  /\ CreatedOnce

(* A deploy ends whatever its child does, and a child that lost its parent *)
(* before the release ends too.                                            *)
DeployEnds == ParentLossEndsRuntime /\ EveryDeployEnds
=============================================================================
