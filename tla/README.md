# A TLA+ development of the digital-employee runtime

This directory models the repository's own control: what is admitted, queued, leased,
claimed, approved, run, delivered, recorded and published, and in which order. TLC
checks the models on small instances; TLAPS proves selected properties for all values
of the constants.

    tlc -workers 2 -config MCFrontDoor.cfg MCFrontDoor     # model-check one group
    tlapm JobRunnerProofs.tla                              # check the proofs

`PROJECT.json` lists the components, the runs, the source lines each definition stands
for, the mutants, the hazards the properties are aimed at, and the theorems.

## 1. The system

An *employee* answers questions or executes tasks with a model, tools and an agent host.
It is reached through a chat channel or the console, an HTTP server, a *runner* on a
publisher's machine that takes tasks signed by a platform, and the commands `turn run`,
`task delegate` and `deploy`. The whole program is asynchronous JavaScript: code between
two awaits is atomic, and everything around an await interleaves, with other calls of
the same process, with child processes and with other processes on the same files. That
is the grain of every model here: **an action ends where the code awaits, or where it
returns**.

| Component (source) | State it keeps | Operations | What makes it correct |
|---|---|---|---|
| JobRunner (`core/job-runner.ts`) | running counter, actors, FIFO queue with timers, seen jobs, last starts | run, finish + drain, queue timeout, close | one request per actor, slots exact and never idle, windows kept, no one waits for ever |
| DingTalk channel (`connectors/channels/dingtalk`) | stream supervisor, timers, duplicate cache, reply targets | start, stop, connect, watchdog, receive, reply | a message is answered once and whole, a lost stream returns, a stop takes down what was awaited |
| Deploy (`cli/deploy`) | `config.json`, lock, runtime process, remote application | deploy, six activation phases, release, stop | file, runtimes and application tell one story through crashes |
| Answer loop, SessionStore, FAQ (`core/digital-employee.ts` …) | ordered maps with expiry and capacity | answer, recordFeedback, evict | transcripts paired, FAQ genuine |
| Organisation (`cli/org`, `engine/org-permissions.ts`) | `org.json`, audit log, `permissions.json` | apply, hire, remove, readers in between | files of one apply wherever one wrote alone, every hire logged |
| Delegation (`engine/delegation.ts`, `cli/task/delegation-run.ts`) | history of one task, child run | delegate, settle | a child stays inside both sides' rights, a linear retry chain |
| Memory and context adapters (`core/mem-http-…`, `context-cli-…`) | remote memories, child process | remember, recall, run CLI | written once, read by its own position |
| Write approval (`core/write-approval*.ts`) | previews, consumed keys, results | createPreview, submitDecision, execute | each call approved, no repeat after a success |
| Task intake (`core/task-intake-approval.ts`) | records, events | submit, decide, expire, drain | approvals in time and final, events complete |
| Runner lease (`core/runner-lease.ts`) | envelope, abort signal, timer, last clock | create, assertActive, renew, close | no resurrection, no shortening, a timer for the deadline |
| Runner loop and outbox (`core/runner-lifecycle.ts`, `runner-durable-store.ts`) | entries, position, status | append, drain, ack, retry, stop | nothing lost, everything settles, the loop stops |
| HTTP server (`server/server.ts`) | active counter, waiters, controllers | admit, release, pump, shutdown | slots exact, shutdown reaches all work |
| Qualification suite (`core/adapter-qualification.ts`) | cases, resources, records, snapshots | run case, time out, finalise, publish | a qualification is earned, cases do not leak |
| One-shot executor, replay guards (`cli/runner-executor.ts`, `runner-replay-guard.ts`) | nonces, watermarks, event chain | claim, run, complete | executed once, every bundle verifies |
| Packages (`cli/employee-package.ts`, `core/employee-package-archive.ts`) | directories, archives, store | inspect, init, pack, verify, install, upgrade, roll back | what runs is what was inspected or packed |
| Turn executor and policies (`engine/`, `cli/turn`) | evidence files, budget ledger, task state | run a turn | governed, recorded, ended once |
| npm publication (`scripts/npm-publish-resilient.js`) | one job, the registry | verify, read, publish, report | what is reported is so |
| Agent Hosts (`cli/*-agent-host.ts`) | active runs, child, timers, staged files | probe, run, cancel | well-formed stream, earned terminal, cleaned up |
| Stdio adapter and hosts (`cli/stdio-agent-host.ts`, `core/agent-host-wire.ts`) | one child, pending ids, streams | probe, run, cancel, dispose | answers belong to their call, every call ends |
| Model ports (`cli/turn/*-model-port.ts`) | child, deadline, abort, kill timer | resolve, complete | an answer is the child's final word, every call ends |

How they interact. Channels and the HTTP server call `DigitalEmployee.answer`, which runs
its answer loop as a job of the JobRunner and updates both stores from inside it
(`DigitalEmployee` extends `JobRunner` and conjoins their steps). The runner process
polls the platform and drains the outbox; the executor takes a signed envelope and the
lease that heartbeats renew (`RunnerExecution` extends `RunnerLease`), claims the nonce,
wraps the Host run and hands back events and a receipt. A turn reads the permissions that
`org apply` derives, asks the memory and context ports, calls a model port and writes its
evidence; a delegation derives a child's rights from the same files (`Organisation` holds
both readers). Hosts are called by turns, tasks and the qualification suite.

What is hard to test here: callers that meet between two awaits; replies, decisions and
lines that arrive late, twice, cut or never; timers that race what they guard; clocks that
step back; children that ignore SIGTERM; processes that die between two files; caches
that lag; and maps, queues and counters at their limit. `PROJECT.json` ("hazards") lists
each at its line, with the properties that would catch it.

## 2. Modules

| Module | Models | Built on |
|---|---|---|
| `JobRunner` | the job runner | |
| `DigitalEmployee` | answer loop, sessions, FAQ, feedback | `JobRunner` |
| `JobRunnerProofs` | theorems about the runner and the answer loop over it | `DigitalEmployee`, `SetInduction` |
| `DingTalk` | channel adapter, supervisor, duplicate cache, segmented replies | |
| `Deploy` | deploy command, HTTP runtime, remote application | |
| `FrontDoorProofs` | theorems about the channel and the deploy command | `DingTalk`, `Deploy`, `SetInduction` |
| `Organisation` | org apply, derived permissions, turns and delegations that read them | |
| `RecallPorts` | memory over HTTP, context CLI | |
| `WriteApproval`, `TaskIntake` | the two approval gates | |
| `GovernanceProofs` | theorems about gates, memory, organisation, delegation | the four modules above, `SetInduction` |
| `RunnerLease` | the lease | |
| `RunnerExecution` | guards, one-shot executor, Host run, bundle verification | `RunnerLease` |
| `RunnerExecutionProofs` | theorems about the lease, claims and bundles | `RunnerExecution`, `SetInduction` |
| `RunnerLoop` | runnerStart and the outbox | |
| `HttpServer` | createHttpServer | |
| `RunnerServiceProofs` | theorems about the outbox, the server and the qualification suite | `RunnerLoop`, `HttpServer`, `Qualification`, `SetInduction` |
| `Qualification` | suite, cases, finalizers, record, snapshot | |
| `PackageInspect`, `PackageInit`, `PackageArchive` | reading, creating, archiving packages | |
| `TurnContract` | what a turn promises: the abstract specification | |
| `TurnExecutor` | executeTurn, its policies and the evidence sink | implements `TurnContract` |
| `TurnAndHostProofs` | theorems about the turn, its refinement, the Hosts and the model ports | `TurnExecutor`, `AgentHosts`, `StdioHost`, `ModelPorts`, `SetInduction` |
| `NpmPublish` | release job and registry | |
| `PackageProofs` | theorems about publishing, creating, reading and installing packages | `NpmPublish`, `PackageInit`, `PackageInspect`, `PackageArchive` |
| `AgentHosts` | the four command line Hosts | |
| `AgentHostWire` | what the wire validators accept | |
| `StdioHost` | stdio adapter and the hosts shipped for it | `AgentHostWire` |
| `ModelPorts` | choice and calls of the model ports | |
| `SetInduction` | least numbers and induction over numbers, for the proofs | |
| `MC*` | the six instances TLC checks | the modules named in section 3 |

Each `MC` module instantiates several components that share no state. Its variable `part`
says which of them a behaviour is about; it is chosen initially and never changes, and
the variables of the other parts keep one initial value. The states of such a run are
the sum of those of its parts, never their product. Components that do share state
are composed in the modules themselves, as listed under "Built on".

Correspondence, module by module:

* **JobRunner.** Variables are the private fields; a `Map` whose iteration order matters
  is a function to entries with an insertion number. `RunStarts`, `RunEnqueues` and
  `RunRefused` are the ways out of `run()`, each with the pruning it does first.
  `Finish` is the `finally` of `#start` with the whole drain. Blank actor ids become the
  shared anonymous actor (`ActorOf`).
* **DigitalEmployee.** The synchronous prefix of `#runAnswerLoop` (message appended,
  session working, FAQ searched) belongs to the start of the job, whoever starts it; the
  tail to its end. Model and tool calls in between are the time in which everything else
  happens. Questions are topics: equal topics are what the similarity score calls similar.
  `sessions` is the `Map` as a function, `n` its iteration order.
* **DingTalk.** `sup` is the stream supervisor, `client` the SDK, `ch` the adapter. A connect()
  that was given up may still succeed; a stop() may meet any await of start(), also the
  loading of the SDK, when there is no supervisor yet (`ch.stop`, history, says which).
  Ages saturate at the limits they are compared with, so
  time is not bounded.
* **Deploy.** `dep` is a deploy command, `run` the runtime it spawned, `lease` the
  processes that hold the lock's open file (a runtime inherits it). Activation goes
  through `DeployPhases` with an acknowledgement each; any of them may be lost.
* **Organisation.** `org apply` is split at its three writes and may break off at each. `torn`
  (history) says that the last writers overlapped or broke off, "unlogged" keeps the record of an
  apply that ended before its audit entry, and `turn.calm` (history) says that a turn began on
  settled files and no apply has replaced `org.json` since. Both readers, the turn and
  the delegation, open the two files one after the other, in the order of the code.
  `ContextScope`, `IntersectContextScopes` and the like are pure operators.
* **RecallPorts.** A call is a series of requests, each of which may fail before or after
  the server acted; the server may be upgraded or lose a feature in between.
* **WriteApproval, TaskIntake.** One action per method, split at the awaited executor.
  Hashes are injective. Decisions stay available for ever, so they arrive late,
  repeatedly and out of order. `executorCalls` and `drained` are history only.
* **RunnerLease.** `elapsed` drives timers, `wall` is what the code reads and may step
  back. `RenewBegins` and `RenewEnds` are `acceptRenewal` around the awaited key lookup. Its
  synchronous rest reads the clock up to three times, and the clock may move between two
  readings (`ReadAgain`): `TakeOver` has every way out, the exception included that leaves an
  open lease with a cleared timer (`DeadTimer`).
* **RunnerExecution.** One call is a record of its local variables with a program counter.
  The in-memory and the durable guard are two values of `guard`. Only executions in
  `Followed` go past their claim. `BundleVerifies` is the platform side of
  `runner-protocol.ts`, used as the judge.
* **RunnerLoop.** `pc` is the position of the loop, `entries` the outbox by sequence number
  and `batch` what a drain still has to handle; the clock advances with the poll
  timer. A delivery may fail before or after the platform received it.
* **HttpServer.** A connection is destroyed (`gone`) before its close event is emitted
  (`closeSeen`): the window `pump` has to allow for.
* **Qualification.** A case is what its body waits for and the verdict on the events it
  saw; the suite's cases, `boundedCase`, finalizers and grace timers are actions. A
  tainted value stands for each sentinel. What a record says beside its cases (Host, version,
  live evidence) is an input of the release job (`Claims`).
* **PackageInspect, PackageInit.** Files are an identity and contents; an editor, a second
  creator and a foreign process act between any two system calls.
* **PackageArchive.** Contents are opaque, digests are the files they are computed from.
  `ArchiveChanges` is somebody else editing an archive, with or without its digest.
* **TurnExecutor.** `s[r]` holds the locals of `executeTurn` and of `turn run`. Runs share
  the evidence directory and, under one key, the budget ledger. A retried turn is a
  second run of the same turn.
* **NpmPublish.** A job is one invocation; the registry answers with one of its latest
  states (`Lag`), and an owner may publish by hand.
* **AgentHosts.** Lines are a kind, an identifier and whether they carry what the adapter
  demands. `Accept` is the normalizer of each vendor, `Verdict` its `finish()`; `Conclude`
  to `Emit` are the `finally` block in its order.
* **StdioHost, AgentHostWire.** Two pipes with a carry; the host's side is the repository's
  own two hosts, with their violation flags. `AgentHostWire` is stateless.
* **ModelPorts.** A call settles by the first of line, close, deadline, abort and pipe
  error; only then does the kill timer run.

Definitions that no specification uses and whose name extends another one's (`PumpedOnce`
beside `Pumped`) are variants: plausible slips, introduced as such in a comment. They
document what the properties are able to notice.

## 3. Runs

| Run (`MC` module) | Parts | Properties, all of which hold |
|---|---|---|
| `front_door` (`MCFrontDoor`) | JobRunner | `ActorExclusive`, `SlotsConserved`, `MapsWithinCapacity`, `QueuedLeaves` |
| | DingTalk | `StopDisconnects`, `RepliedOnce`, `StreamRecovers` |
| | Deploy | `DeploySound`, `DeployEnds` |
| `governance` (`MCGovernance`) | DigitalEmployee | `AnswersSound` |
| | Organisation | `PermissionsSound`, `DelegationSound` |
| | RecallPorts | `MemorySound` |
| | WriteApproval, TaskIntake | `WritesSound`, `IntakeSound` |
| `packages` (`MCPackages`) | RunnerExecution with RunnerLease | `ClaimsSound`, `BundlesGenuine` |
| | PackageInspect, PackageInit, PackageArchive | `InspectedAtOneMoment`, `InitSound`, `ArchiveSound` |
| `runner_service` (`MCRunnerService`) | RunnerLease | `TimerCoversDeadline`, `LeaseGoesForward`, `DeadlineAborts` |
| | RunnerLoop | `OutboxSound`, `OutboxProgress` |
| | HttpServer | `ServerSound`, `EveryRequestEnds` |
| | Qualification | `SuiteSound`, `SuiteProgress` |
| `turn_and_release` (`MCTurnAndRelease`) | TurnExecutor | `TurnGoverned`, `ImplementsContract`, `EveryTurnEnds` |
| | NpmPublish | `PublishSound`, `EveryJobReports` |
| `adapters` (`MCAdapters`) | AgentHosts | `HostRunSound`, `EveryHostRunEnds` |
| | StdioHost with AgentHostWire | `StdioSound`, `StdioCallsEnd` |
| | ModelPorts | `PortsSound`, `PortCallsEnd` |
| `stop_resolves`, `retry_backoff`, `degraded_mode`, `receipt_signed`, `batch_approval`, `stdio_dispose` | one documented promise each | violated, see section 6 |

A property named `…Sound` is a conjunction of named parts, stated and commented one by
one in its module. What they say:

* *JobRunner*: however direct starts, drains, timeouts and close meet, an actor has one
  request, the counter is exact, and nobody waits while a slot is free.
* *DingTalk*: a redelivered message is handled once while its entry lives, a reply is the
  whole text in order, a stream that fell silent or half open comes back, and a stop
  leaves a connection in two cases only: a given-up connect() succeeds later, or the stop met
  a start that was loading its SDK, which goes on and ends running (section 6).
* *Deploy*: `config.json` is always valid, a runtime that serves on its own is the one it
  names, "ready" means released and "failed" means stopped, and the remote application is
  created at most once over all deploys and retries; every deploy, and a runtime that
  lost its parent, ends.
* *Answers*: a session is working exactly while an answer is being worked out, each answer
  follows its question, the FAQ holds only pairs that were exchanged.
* *Organisation and delegation*: `org.json` is valid; the files are of one apply if the last one
  wrote alone and to the end, and a turn that meets no apply then runs with the rights of the
  organisation it read; if not, permissions are those of some organisation that was applied;
  every hire is logged but for an apply that breaks off before its entry; a child's scope lies
  in both sides' scopes and its attempts form
  one chain.
* *Memory*: one memory per task state, whichever reply was lost; nothing crosses positions.
* *Approvals*: every executor call was approved for that attempt; a success is not
  repeated; verdicts and intake decisions are final and in time.
* *Execution*: one execution per nonce and attempts in fencing order, over restarts;
  returned bundles verify and "completed" is what happened.
* *Packages*: an inspection saw one moment of the package (but for a manifest overwritten
  in place after it was read, which the code does not look at again); a failed init removes
  exactly its own files; an archive that installs is whole, and write tools ask.
* *Lease*: a lease never comes back or shrinks, and its timer fires by its deadline, unless the
  clock was set back in the midst of a renewal (section 6).
* *Outbox, server, suite*: nothing lost or left in flight at rest, stop reaches what is
  running, each request and case ends, a record qualifies only what it saw, and no release
  after it takes back conformance, live evidence, a supported domain or the kit.
* *Turn*: completion is printed only after its own evidence exists, no model call without
  permission and verdict, records conform to the validator, a shared budget is
  overshot by at most one iteration for each other run, and every run ends.
* *npm*: "complete" means this tarball is published and the tag had moved that far;
  `latest` goes back only if the registry had moved since the state a job decided on.
* *Hosts and ports*: valid event streams, terminals after cleanup and only when earned,
  answers only from one genuine child, every call ends.

Deadlock is not checked: every instance ends when its bounds are used up, and the programs
modelled may indeed come to rest (a closed runner, an ended loop).

### Refinement

`TurnContract` is what a turn promises its caller: it starts and ends once, its evidence
is written once by one run, and "completed" is said only by the run whose own evidence
says so. `TurnExecutor` instantiates it with a mapping from the program counter and the
evidence files, and `ImplementsContract == Contract!Spec` is checked over both runs of
one turn, crashes and sink faults included: every step is a contract step or a stutter.

### Bounds and why they suffice

* `front_door`: one slot, one queue place, three calls by three actors (one blank), two
  jobs, windows of 2, maps of 1, clock to 3: slot, queue and maps overflow, and a window
  can end exactly when the next call comes. Several slots are covered by the proofs and
  by `governance`. Two messages under one key, one of them unusable, one long text, a cache
  of one entry, two deliveries. Two deploys of every channel and two packages, one crash
  or profile switch: enough for one to find what the other left at any phase.
* `governance`: two slots, one conversation, one session (so sessions are evicted while an
  answer is worked out), a transcript of three messages (cut inside an exchange), a FAQ of
  one. Two appliers, one edit, one reader at a time over three positions. Two callers with
  different scopes, two memories, one change of the server. Two previews, two attempts, one
  throw, at most two decisions ever sent (how many exist, not how often they arrive). Two
  tasks whose leases end before and after the policy timeout.
* `packages`: two attempts of one task and another task that reuses a nonce, guards of one
  entry, one execution followed to its end while another competes, one heartbeat, one step
  back, restarts; three writes by an editor over three files; two creators, two intrusions,
  one fault; three archives over seven manifests and seven lists of files.
* `runner_service`: two renewals in flight, four own envelopes (two with one expiry) and a
  foreign one, a timer limit of 2, two steps back, at most one movement of the clock between
  two readings of one handler, a lease that starts at its first or a later tick.
  An outbox of two for three entries,
  batches of one, two attempts. One slot, two queue places, four requests. Three kits of
  three or four cases and an older one whose records are only published, two Host events, one
  tainted value, two snapshots offered after the first.
* `turn_and_release`: two runs of one turn over requests that fail each gate, use both
  memory modes, carry single, batch and mixed approvals, and repair a schema; one crash, one
  tick. Two jobs, two versions, two tries, two reads, a lag of one state, one release by
  hand.
* `adapters`: one run of each Host, and a second one with the same run id that must be
  refused, of at most five events; runs of different Hosts share nothing but that table. A
  probe and a run over stdio with two children. Two calls of a port, three lines each.

An entry of the outbox is only appended while the clock bound leaves room for all its
attempts, and the other bounds are guards of steps of the environment, so no bound refutes
a liveness property. `adapters` also has a state constraint, `OneRunAtATime`: it cuts a
behaviour where a run of a second Host begins beside the first, never a run that has begun. The violation runs of RunnerLoop use the constants of the code
(16 retries, batches of 32, 10 failures) with one entry.

### Fairness

Liveness is stated under weak fairness, of steps the runtime takes by itself; nothing is
assumed of people, clients, models or of children beyond what SIGKILL enforces:

* JobRunner: time passes and due queue timers fire; tasks need not end.
* DingTalk: the watchdog, back-off, retention and connect timers fire; and, the one strong
  fairness, a connect that is tried again and again succeeds some time, without which no
  supervisor could bring a stream back.
* Deploy: a deploy goes on (its waits have deadlines), a runtime that lost its parent or
  got SIGTERM stops, and one that was killed exits.
* Lease: a due timer fires, if one is armed. Loop: a transport call is answered or fails, the
  poll timer
  fires. HTTP: a handler with its slot goes on, which the body and run deadlines ensure.
* Suite: bounded cases, grace timers and finalizers go on; the Host need do nothing.
* Turn: a run's awaits settle (ports have deadlines) unless it dies. npm: reads answer or
  fail, the child ends or is killed after its deadline.
* Hosts: the adapter's own steps, the deadline and the SIGKILL timer happen, and a killed
  child dies. Stdio: files are read, a consumer that reads is given what is there, request
  timers fire and lines in a pipe are delivered; the child need do nothing, not even end
  when it is signalled. Ports: a call goes on, its grace timer fires.

`governance` and `packages` state safety and action properties only; every call there is
a sequence of steps without a loop.

## 4. Mutants

Every property of every passing run has a mutant in `PROJECT.json`: one mapped definition
replaced by a plausible slip (a dropped guard, a missing reset, a swapped order), which TLC
finds to violate that property under the same configuration.

## 5. Theorems

* **`JobRunnerProofs`**, for all limits, windows, actors and job ids (`LimitsAssumption`:
  the ranges the constructor enforces; `IdentityAssumption`: the absent job id is not a job
  id). The properties are not inductive by themselves: that a drained request's actor is
  not running follows only if the two actor sets mirror the calls and the queue holds each
  queued call once. The invariant is `IInv == TypeOK /\ Bookkeeping /\ ActorExclusive /\
  SlotsConserved`; one step per action shows it preserved, with lemmas on the bounded maps,
  the drain and cardinalities. Theorems: `TypeCorrect`, `ActorExclusiveAlways`,
  `SlotsConservedAlways`. `MapsWithinCapacity` speaks of calls the maps may have evicted
  long ago, so `WindowsInv` relates each map to the history of the calls: its iteration order is
  the order of the records (`Ordered`, `InCallOrder`), and what it forgot of a call was too old
  by then or followed by enough other keys (`Remembers`). The cooldown is tested on admission
  only, hence `QueuedIsCool`: who waits is a cooldown away from every earlier start of
  its actor, or will be excused, whatever starts meanwhile. Theorem: `MapsWithinCapacityAlways`.
  *Answer loop*, for any capacity, expiry and history limit of the two stores
  (`StoreAssumption`): sessions are evicted and expire under running answers, so what holds of
  a transcript has to survive its loss. `SessionsInv` says that whoever runs has marked its
  session, if that still exists, and spoke last in it. It is kept because no
  two calls in flight share a thread: `OwnThreads` ties the thread to the actor, and the
  runner lets an actor in once. The invariant is stated for any set of running calls, so the
  one step that ends a call and starts the next is two uses of the lemmas `EndKeeps`
  and `BeginKeeps`. Theorems: `AnswersKeepApart`, and `RunnerWithinEmployee`, by which all that
  holds of the runner alone holds inside the employee.
* **`FrontDoorProofs`**. *DingTalk*: `DingInv` says what each way of having stopped leaves
  behind (`StartFollows`: a start that was loading its SDK goes on to a supervisor or fails);
  each timer, reply and connect keeps it (`StoppedIsDisconnected`).
  Answering once (`DingAssumption`: positive limits, as the code demands of them) has two
  halves. `CacheInv`: a message that must not be handled again is `Remembered` by an entry that
  expires no earlier, and the keys behind that entry are among the others claimed since, each
  once, so eviction cannot reach it before there were too many. `HandlingInv`: what was
  posted of a reply is its first segments. That these add up to the text is an
  induction over the text for the loop that cuts it (`CutsExist`, `SplitsIntoPieces`: consecutive
  pieces, none empty or too long) and over the segments for their join (`FlattenExists`,
  `PiecesAddUp`): `MessagesRepliedOnce`.
  *Deploy*, for any deploys, profiles and faults (`DeployAssumption`: the value for "nobody"
  names neither): `DeployInv` is the largest invariant here, since `DeploySound` relates
  the state file, the provider and processes that may each die between two phases. `LockInv`: a
  deploy past its lock and a runtime not yet released are one deploy and its own runtime,
  so nobody else writes the file. `SlotInv`: an application that exists is named by the file
  or has an operation under way there, hence is created once. `RuntimeInv` ties "serves
  alone" to an acknowledged release, and `DepInv` says, place by place, what a deploy has
  learned and still may rely on. Theorem: `DeploymentConsistent`.
* **`GovernanceProofs`**. *Intake* (`IntakeAssumption`: leases and timeouts are numbers, the
  tasks finite): records and event log are related task by task, and what
  one step appends may tell several tasks (`Tells`, `LogGrows`): `IntakeGate`. *Writes*:
  `AnswersBehind`, that no answer belongs to the attempt still executing, is what makes
  `EveryCallApproved` and the two action properties inductive: `WriteGate`. *Memory*: a
  memory lies under the key and in the scope of the request that wrote it, and a call holds
  what it wrote or read: `MemoryIsolated`. *Organisation* (`OrgAssumption`: finitely many
  positions, and the bootstrap document is about them): "every hire is logged" is
  not inductive for the current `org.json`, since an apply may compare with an older model;
  `EveryHireTold` says it of every model ever published. That settled files agree
  needs to know whose turn it is to write them: `FilesTogether` says that without `torn` at most
  one apply is between its writes and `org.json` is its model, and `TurnInv` carries what a
  calm turn has read past the applies that follow: `OrganisationConsistent`.
  *Delegation*: the operators on scopes are shown to compute the intersection of what both
  sides may read, and an admissible envelope extends the chain by one:
  `DelegationStaysInScope`.
* **`RunnerServiceProofs`**. *Outbox* (`LoopAssumption`: positive limits): only the entry in
  hand is in flight and what a drain has taken is open (`BatchInv`), so neither compaction nor
  a stop can lose it; an open entry has counted its attempts (`AttemptsInv`):
  `OutboxLosesNothing`. *HTTP server* (`ServerAssumption`): the queue holds exactly those who wait
  (`QueueExact`); `PumpFills` shows that `pump` lets in as many as there are free slots and
  leaves somebody waiting only when it filled them: `ServerCorrect`. *Qualification*
  (`ContractAssumption`, which `adapter-qualification.ts:68-117` satisfies: a contract lists
  different cases, among them the probe and the credential case, and the two of the event
  stream together): that a case leaves nothing behind is not inductive without `Finalizes` (what
  the finalizer has awaited has settled, and only what was registered) and `Registers` (what a
  body has registered at each place); `MishapInv` says that a mishap costs a result or will
  before the case ends, `Descends` that a disposal counts only after the descendants
  were known, and `ProbeInv` that the suite remembers of its probe what that case reported,
  which is why the validator accepts the record. Of the releases, what the gate
  compares between two snapshots gives what is never lost over all: `QualificationSound`.
* **`RunnerExecutionProofs`** (`TaskAssumption`, `LeaseAssumption`). *Lease*, for all envelopes,
  numbers of renewals in flight, margins and timer limits: `LeaseInv` adds `TimerOnlyOpen`
  (only an open lease has a timer) to the type invariant and `TimerCoversDeadline`: without
  it a stale timer could arm a lease that is over. Every action expires the lease, leaves it
  quiet, arms it anew or, a clock set back during a renewal, leaves it the timer it cleared;
  a lemma each covers these cases: `TimerCoversDeadlineAlways`,
  `NoResurrectionAlways`, `ExpiryMonotoneAlways`, and both as
  `LeaseForwardAlways`. *Claims*: `GuardInv`: a granted claim is
  remembered for as long as its task could be claimed again: `EachTaskClaimedOnce`. *Bundles*:
  `RunsInv` carries the event chain through every place of an execution, linked, numbered, in
  the order of the clock and under the limits the verifier checks; that a chain with an
  event missing, repeated, exchanged or altered is refused follows from the digests:
  `BundlesAreGenuine`. The lease part of the invariant is `LeaseInv`.
* **`PackageProofs`**. *Publication* (`NpmAssumption`: versions are numbers, the marks for "no
  tag" are none): what a job has decided on is a state in the history of the registry, and bytes
  once published never change: `PublicationSound`. *Creation* (`InitAssumption`: a package
  has a list of files; the mark for "no directory" is none): inodes are given out once, so
  whatever goes by an inode a creator remembers is its own or came between check and
  removal (`Ownership`); `QuietInv` says what an undisturbed creator finds in its directory,
  place by place: `CleanupTakesItsOwn`. *Inspection* (`InspectAssumption`: each file is declared
  once): a file read between two equal identities is the one captured (`FilesRead`), and
  once all are captured either there was a moment of all of them or a file yet to be opened
  has changed and will be refused (`OneMoment`): `SeenAtOneMoment`. *Archives*
  (`FileListsAssumption`, `ManifestPathAssumption`, `NoValueAssumption`: lists of files, a
  manifest's name that is short, portable and no secret's, a mark for "none" that is no text
  and no meta entry): the store says nothing of where an archive came from, so `ArchiveInv`
  lets circulation hold anything of the form of an archive (`ChangedTyped`) and rests the
  store on what `verifyArchive` finds by itself (`VerifiedIsWhole`); that packing and
  verifying agree is `ContentOf` and `PackedVerified`: `InstalledPackagesSound`.
* **`TurnAndHostProofs`**. *Turn* (`TurnAssumption`: sealed requests, finitely many runs). `RunOK`
  says for every place of `executeTurn` which gates have let the request through and what
  has been recorded; `BudgetInv` counts the runs that have passed the budget check but not
  committed yet, which is why the overshoot is at most one iteration for each other run:
  `TurnStaysGoverned`. The same invariant gives the step simulation of the refinement,
  crash and sink faults included: `TurnImplementsContract`. *Stdio* (`CallsAssumption`: a call is
  a probe or a run, its schema absent, good or bad): `StdioInv` types both pipes, so that what
  `dispatchLine` lets through to a stream is a line that parses; `CallSound` says that `saw` is
  true exactly when the last event yielded is the one terminal, until when nothing makes the
  caller return, and `TablesMatch` that requests and streams are those of the callers that
  wait, through spawns, exits, timeouts and disposal: `StdioStreamsSound`. *Native Hosts*
  (`HostsAssumption`: every run calls one of the four; the mark for "nobody" is none of
  the names it stands beside): that a stream is well-formed is not inductive without what the
  adapter remembers, so `Remembered` ties the session to the events (`run.started` is out exactly
  when init is in; an answered tool call has been announced). `StopsRecorded` says that
  nothing kills a child or ends a protocol without a reason, whence a verdict "completed"
  means a run nobody stopped (`Earned`); it survives the finally block because only a live
  child can be killed, and `Cleaned` follows the cleanup place by place: `HostRunsSound`.
  *Model ports* (`CompletionsAssumption`: calls are numbered without a gap, the settings are
  environments, the mark for "no answer" is none of the words it stands beside, no line has
  it as its detail): that a text is genuine speaks of all a child wrote, which the normalizer
  no longer has, so `Heard` says what its four fields imply of the lines read so far, one line
  at a time (`AcceptsFacts`, `HeardOneMore`); `SupportedOnly` carries the version from the
  spawn past a replacement of the command; and `InOrder`, that what came before a call that
  has begun has returned and is gone, holds because only a text lets the engine call again:
  `ModelPortsSound`.
* **`SetInduction`** derives least numbers and induction over the numbers, for a property
  given as a set, from the well-foundedness of `<`. It serves `PumpFills`, the drain of the outbox,
  the reporting lines of an organisation, the verified chain of a bundle, the refusal
  a turn reports first and the segments of a reply.

The theorems need no bound of the runs: all numbers of tasks, deploys, clients and so on, and the
bounds on the length of a behaviour are arbitrary constants. Each inductive invariant
was model-checked before it was proved.

Every safety property of the passing runs is thereby a theorem, and so is the refinement.
Only model-checked is all liveness and everything under fairness, which the prover does not
cover: `QueuedLeaves`, `StreamRecovers`, `DeployEnds`, `DeadlineAborts`, `OutboxProgress`,
`EveryRequestEnds`, `SuiteProgress`, `EveryTurnEnds`, `EveryJobReports`, `EveryHostRunEnds`,
`StdioCallsEnd` and `PortCallsEnd`.

## 6. Where code and documentation disagree

* `stop_resolves`: `stop()` "Resolves when the process is fully stopped"
  (`runner-lifecycle.ts:202`); a second call returns at once while the first still waits
  (`:609`).
* `retry_backoff`: `nextRetryAt` is documented as the next eligible retry
  (`runner-durable-store.ts:140`), but `markRetry` sets the entry back to pending and
  `pending()` does not look at the time of pending entries (`:434`).
* `degraded_mode`: `consecutiveFailures` is never incremented, so neither the degraded mode
  (`runner-lifecycle.ts:44`) nor the back-off of the poll interval ever happens (`:593`).
* `receipt_signed`: after the nonce is consumed, a failure is to end in a signed receipt
  (`runner-executor.ts:279-281`); a Host that completes more tools by name than a receipt may
  count makes the call throw instead (`:566`).
* `batch_approval`: the file sink refuses records with `approvalRefs`
  (`file-evidence-sink.ts:32`, `:160`), which the engine writes and
  `tests/engine/approval-events.test.ts:246` expects: a batch answered in `turn run` leaves
  no evidence.
* `stdio_dispose`: "the detached process tree is always signalled on disposal"
  (`stdio-agent-host.ts:119-120`); of two children that two callers spawned at once, only
  the one named last is (`:344`).

Four more are written into passing properties as their exceptions, and TLC finds
each behaviour when the exception is taken out:

* The Runner is to stop executing before the safety window of the lease (`docs/runner.md:35`).
  A renewal replaces task and envelope, clears the old timer and then reads the clock once
  more (`runner-lease.ts:282`, `:307`, `:311`). If the clock was set back since the reading
  before, this throws `RUNNER_LEASE_CLOCK_INVALID`, no timer is armed, and the signal is not
  aborted at the deadline unless somebody asks: `timer = DeadTimer` in `TimerCoversDeadline`
  and `DeadlineAborts`.
* A stopped adapter is to be disconnected (`tests/dingtalk/stream.test.ts:137-139`). A stop()
  while start() awaits the SDK (`dingtalk/index.ts:277-281`) finds no supervisor and resolves;
  the start connects all the same and sets "running" (`:346-354`): `ch.stop = "loading"` in
  `StopDisconnects`, which also says that a second stop() takes that connection down.
* "Every applied change is appended to `.digital-employee/org-audit.jsonl`"
  (`org/model.ts:17-18`). An apply that breaks off between `org.json` and its entry
  (`:644-648`) leaves a change no later apply logs, since that one compares with the new
  `org.json`: "unlogged" in `HiresLogged`.
* "`org apply` recomputes this artifact after every validated change"
  (`org/permissions.ts:20-21`). Of two applies that overlap and both succeed, the one that
  wrote `org.json` first may write `permissions.json` last (`org/model.ts:644-661`); the
  files then disagree until a later apply writes alone, and a turn, which does not compare
  them, runs with the permissions of another organisation than the one it reads: `Settled`
  in `FilesAgree`, `turn.calm` in `TurnReadsOneApply`.

Noted without a property, because nothing in the repository promises otherwise or the
promise cannot be meant: two approved previews of one write that execute at the same time
both call the executor; an upgrade to the same version with other contents replaces the
previous record, since the store is keyed by version; an abort signal that fires between
the creation of the scratch directory and the listener of the claude-local port is not
heard, and the call ends by other means; events of the
outbox that are retried arrive after later ones; a FAQ entry stored at capacity may be the
one evicted; and a task approved in time may be launched later than its lease, since
`canLaunch` looks at the recorded state only.

## 7. Not modelled

* **Everywhere**: parsing, canonical JSON, signatures and digests (ideal), the score of
  similar questions, wording of errors and reports, prompts, audit timelines.
* **Host discovery** (`agent-hosts.ts`, registry, `qoder-command.ts`, `credential-view.ts`):
  tables and version commands; what they find is an input of `AgentHosts` and `ModelPorts`.
* **Runner transport and device**: HTTP and key files; calls that succeed, fail, or fail
  after delivery. `runnerInit`, `runnerDoctor` and `runnerStatus` inspect files only.
  Deployments and `advanceAttempt` of the durable store have no caller in the repository.
* **Console channel, model and source connectors**: pure I/O around one request.
* **Conformance validators, evaluation and test harnesses**: checks of static documents.
* **Workbench, workspace, setup, hire, registry commands**: prompts, templates and a
  read-only local page, one process writing once.
* **Release and audit scripts**: checks of a tree at one moment.

Inside the modelled parts, `PROJECT.json` ("components", status "partly") names what is
left out of each. What a reader might expect and not find:

* *Answer loop*: similarity of questions is equality of topics. *Recall*: the state of the
  context child, and *delegation*: the terminal of the child's stream, are modelled but in no
  property.
* *Bundles*: `BundleVerifies` leaves out the check of `observedAt`.
* *Package creation*: a fault of the cleanup itself is swallowed by the code
  (`employee-package.ts:231-233`, `:245`) and may leave the target occupied; here the cleanup
  succeeds or refuses.
* *Suite*: the scan of the assembled record (`adapter-qualification.ts:2569-2582`) and the
  branches for a Host that declares no cancel (`:1042`, `:2099`).
* *Native Hosts*: a `spawn()` that throws at once. `CompletedIsEarned` admits that a cancel was
  asked for, since one may come while the run is cleaned up.
* *Stdio*: a child that cannot be spawned (`stdio-agent-host.ts:464-472`) or read (`:436-444`);
  dispose() with calls under way or followed by calls, and its rejection when the tree survives
  SIGKILL (`:344-364`); the waiter of a cancel (`:318-328`); a host that floods a stream with events
  after its request timed out.

## 8. Plan

What would come next: abstract specifications of a lease (open until a moment that only
moves forward) and of a counting semaphore with a bounded waiting room, implemented by
`RunnerLease` and by both `JobRunner` and `HttpServer`, whose theorems would then follow
from one argument.
