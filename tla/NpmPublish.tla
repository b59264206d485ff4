----------------------------- MODULE NpmPublish -----------------------------
(***************************************************************************)
(* The release job's last step (scripts/npm-publish-resilient): reconcile  *)
(* one packed tarball with the npm registry.                               *)
(*                                                                         *)
(* A job verifies its inputs, reads the registry, publishes at most once   *)
(* through an npm child process it may have to kill, and then decides from *)
(* what it reads back, never from what npm said.  Jobs are queued by the   *)
(* release workflow and never overlap; re-running a job is another job     *)
(* with the same input.  The registry is external: it never lets a version *)
(* change, moves the tag of a publication it accepts, may answer a read    *)
(* with a state it has left behind (its cache lags), and may apply a       *)
(* request after npm was killed.  A package owner publishes by hand.       *)
(*                                                                         *)
(* Versions are ordered numbers, the bytes of a tarball stand for its      *)
(* integrity digest, and the clock is the order of the steps.              *)
(***************************************************************************)
EXTENDS Naturals, FiniteSets, Sequences, SequencesExt

CONSTANTS Versions,     \* stable versions, numbers
          Tarballs,     \* distinct tarball contents
          Inputs,       \* the command lines, files included, jobs are started with
          MaxJobs,      \* bound: jobs run
          Tries,        \* fetches of one registry read: 4
          Reads,        \* reads after the publication: 5
          Lag,          \* states the registry's cache may be behind
          MaxOwner,     \* bound: publications by hand
          Absent, NoTag, Unstable

\* Stable versions are ordered; a missing or unstable tag is none of them.
ASSUME NpmAssumption ==
  /\ Versions \subseteq Nat
  /\ NoTag \notin Versions /\ Unstable \notin Versions

VARIABLES history,   \* states of the registry, oldest first
          flight,    \* publications the registry has received and not applied
          job,       \* the job under way
          results,   \* results of the finished jobs, oldest first
          owner      \* publications by hand so far

npmVars == <<history, flight, job, results, owner>>

NoPackage == [exists |-> FALSE, held |-> [v \in Versions |-> Absent], latest |-> NoTag]
Registry == Last(history)

-----------------------------------------------------------------------------
(* The registry. *)

(* A version is accepted once; a trusted publisher cannot create a package. *)
Accepts(p) == Registry.exists /\ Registry.held[p.version] = Absent
Refusal == IF Registry.exists THEN "refused" ELSE "unknown_package"

Applied(s, p) ==
  [exists |-> TRUE, held |-> [s.held EXCEPT ![p.version] = p.bytes],
   latest |-> IF p.tag = "latest" THEN p.version ELSE s.latest]

(* States a read may show. *)
Shown == {history[i] : i \in {j \in DOMAIN history : j + Lag >= Len(history)}}

-----------------------------------------------------------------------------
(* The job's inputs and what it makes of a registry state. *)

(* loadReleaseArtifact: manifest, release tag, pack JSON and tarball agree. *)
LoadReleaseArtifact(i) ==
  /\ i.nameMatches /\ i.manifest \in Versions /\ i.release = i.manifest /\ i.public
  /\ i.packed = i.manifest /\ i.packBytes = i.bytes

(* parseArguments and publishWithFallback check the options. *)
ParseArguments(i) == i.missing \in {"fail", "bootstrap-soft"} /\ i.tag \in {"latest", "repair"}

\* The variant takes any bytes of the version for the release.
CompareAnyBytes(s, i) == IF s.held[i.manifest] = Absent THEN "absent" ELSE "match"

(* compareObservedVersion. *)
CompareObservedVersion(s, i) ==
  IF s.held[i.manifest] = Absent THEN "absent"
  ELSE IF s.held[i.manifest] = i.bytes THEN "match" ELSE "mismatch"

(* compareStableVersions, null when one is not a stable version. *)
Older(a, b) == a \in Versions /\ b \in Versions /\ a < b

(* inspectLatestState. *)
LatestAcceptable(s, i) ==
  i.tag = "latest" => s.latest \in Versions /\ ~Older(s.latest, i.manifest)

(* The guard on the tag before the publication. *)
LatestPreflight(s, i) ==
  CASE i.tag # "latest" \/ s.latest = NoTag -> "go"
    [] i.tag = "latest" /\ s.latest = Unstable -> "dist_tag_preflight_failed"
    [] i.tag = "latest" /\ s.latest \in Versions ->
         IF Older(i.manifest, s.latest) THEN "backfill_latest_blocked" ELSE "go"

Marked(i) == i.missing = "bootstrap-soft" /\ i.marker

(* publishWithFallback up to the publication: the outcome, or "go". *)
Assess(s, i) ==
  LET c == CompareObservedVersion(s, i) IN
  CASE c = "match" -> IF ~LatestAcceptable(s, i) THEN "dist_tag_verification_failed"
                      ELSE IF Marked(i) THEN "bootstrap_verified_marker_cleanup_required"
                      ELSE "already_published"
    [] c = "mismatch" -> "version_conflict"
    [] c = "absent" /\ s.exists /\ Marked(i) -> "stale_bootstrap_marker"
    [] c = "absent" /\ ~s.exists -> IF Marked(i) THEN "bootstrap_required" ELSE "package_missing"
    [] c = "absent" /\ s.exists /\ ~Marked(i) -> LatestPreflight(s, i)

(* publishWithFallback after the publication, from the last state read. *)
Conclusion(s, i, npm) ==
  LET c == CompareObservedVersion(s, i) IN
  CASE c = "match" -> IF ~LatestAcceptable(s, i) THEN "dist_tag_verification_failed"
                      ELSE IF npm = "exit_0" THEN "published"
                      ELSE "published_after_ambiguous_error"
    [] c = "mismatch" -> "version_conflict"
    [] c = "absent" /\ npm = "exit_0" -> "verification_failed"
    [] c = "absent" /\ npm # "exit_0" ->
         CASE npm = "not_found" -> "publisher_misconfigured"
           [] npm = "auth" -> "authentication_failed"
           [] npm = "conflict" -> "version_conflict"
           [] npm \in {"timeout", "transient"} -> "transient_failure"
           [] npm \in {"unknown", "spawn_error"} -> "publish_failed"

Complete(outcome) ==
  outcome \in {"already_published", "bootstrap_verified_marker_cleanup_required",
               "published", "published_after_ambiguous_error"}

(* makeResult: what the step reports, and whether the workflow goes on. *)
MakeResult(i, outcome, attempts) ==
  [input |-> i, outcome |-> outcome, complete |-> Complete(outcome), attempts |-> attempts,
   exit |-> IF Complete(outcome) \/ outcome = "bootstrap_required" THEN 0
            ELSE IF outcome = "input_invalid" THEN 2 ELSE 1]

-----------------------------------------------------------------------------
Idle == [pc |-> "idle"]

NpmInit ==
  /\ history \in {<<NoPackage>>,
                  <<[NoPackage EXCEPT !.exists = TRUE, !.latest = NoTag]>>,
                  <<[NoPackage EXCEPT !.exists = TRUE, !.latest = Unstable]>>}
  /\ flight = {} /\ job = Idle /\ results = <<>> /\ owner = 0

(* runCli up to the first registry read. *)
StartJob(i) ==
  /\ job = Idle /\ Len(results) < MaxJobs
  /\ IF ParseArguments(i) /\ LoadReleaseArtifact(i)
       THEN /\ job' = [pc |-> "read", phase |-> "initial", input |-> i, try |-> 1, read |-> 1,
                       npm |-> "none", seen |-> NoPackage]
            /\ UNCHANGED results
       ELSE /\ results' = Append(results, MakeResult(i, "input_invalid", 0))
            /\ UNCHANGED job
  /\ UNCHANGED <<history, flight, owner>>

Finish(outcome, attempts) ==
  /\ results' = Append(results, MakeResult(job.input, outcome, attempts))
  /\ job' = Idle

(* The initial read answered with s: stop, or publish. *)
Decide(s) ==
  LET o == Assess(s, job.input) IN
  IF o # "go" THEN Finish(o, 0)
  ELSE job' = [job EXCEPT !.pc = "copy", !.seen = s] /\ UNCHANGED results

(* observePublishedVersion: stop at a mismatch or at a good match, or      *)
(* after the last read, whose state is the one that counts.                *)
Verify(s) ==
  LET c == CompareObservedVersion(s, job.input)
      stop == c = "mismatch" \/ (c = "match" /\ LatestAcceptable(s, job.input)) IN
  IF stop \/ job.read = Reads THEN Finish(Conclusion(s, job.input, job.npm), 1)
  ELSE job' = [job EXCEPT !.read = @ + 1, !.try = 1] /\ UNCHANGED results

Read(s) == IF job.phase = "initial" THEN Decide(s) ELSE Verify(s)

(* One fetch of readRegistryState.  A 404 counts only when it is the last  *)
(* one; a transient failure or an invalid document is tried again; a       *)
(* redirect or another status ends the job, whose report then says that    *)
(* nothing was attempted.                                                  *)
Fetch ==
  /\ job.pc = "read"
  /\ \/ \E s \in Shown :
          IF ~s.exists /\ job.try < Tries
            THEN job' = [job EXCEPT !.try = @ + 1] /\ UNCHANGED results
            ELSE Read(s)
     \/ /\ job.try < Tries                                  \* transient
        /\ job' = [job EXCEPT !.try = @ + 1] /\ UNCHANGED results
     \/ Finish("registry_or_internal_failure", 0)           \* redirect, last failure
  /\ UNCHANGED <<history, flight, owner>>

(* createVerifiedPublishCopy and the spawn of npm, whose request reaches   *)
(* the registry.  Copy or spawn may fail before it does.                   *)
Publish ==
  /\ job.pc = "copy"
  /\ \/ /\ job' = [job EXCEPT !.pc = "npm"]
        /\ flight' = flight \cup {[version |-> job.input.manifest, bytes |-> job.input.bytes,
                                   tag |-> job.input.tag, seen |-> job.seen, id |-> Len(results)]}
        /\ UNCHANGED results
     \/ job' = [job EXCEPT !.pc = "read", !.phase = "verify", !.try = 1, !.npm = "spawn_error"]
        /\ UNCHANGED <<flight, results>>
     \/ Finish("registry_or_internal_failure", 0) /\ UNCHANGED flight
  /\ UNCHANGED <<history, owner>>

Mine(p) == job.pc = "npm" /\ p.id = Len(results)

(* The registry applies or refuses a request, also one npm no longer waits *)
(* for, and tells npm.                                                     *)
Land(p) ==
  /\ p \in flight
  /\ flight' = flight \ {p}
  /\ IF Accepts(p)
       THEN /\ history' = Append(history, Applied(Registry, p))
            /\ job' = IF Mine(p) THEN [job EXCEPT !.npm = "accepted"] ELSE job
       ELSE /\ UNCHANGED history
            /\ job' = IF Mine(p) THEN [job EXCEPT !.npm = Refusal] ELSE job
  /\ UNCHANGED <<results, owner>>

(* The request is lost, or refused for the caller's identity. *)
Drop(p) ==
  /\ p \in flight
  /\ flight' = flight \ {p}
  /\ job' = IF Mine(p) THEN [job EXCEPT !.npm = "forbidden"] ELSE job
  /\ UNCHANGED <<history, results, owner>>

\* The variant waits for the registry to answer.
EndingsOnceTold(told) ==
  CASE told = "accepted" -> {"exit_0"}
    [] told = "refused" -> {"conflict"}
    [] told = "unknown_package" -> {"not_found"}
    [] told = "forbidden" -> {"auth"}
    [] told = "none" -> {}

(* How npm may end, given what it was told: runNpmPublish and              *)
(* classifyPublishFailure.  An answer can be lost after it was given; the  *)
(* timeout kills npm whatever it is waiting for.                           *)
Endings(told) ==
  {"timeout", "transient", "unknown"} \cup
  CASE told = "accepted" -> {"exit_0"}
    [] told = "refused" -> {"conflict"}
    [] told = "unknown_package" -> {"not_found"}
    [] told = "forbidden" -> {"auth"}
    [] told = "none" -> {}

NpmEnds ==
  /\ job.pc = "npm"
  /\ \E e \in Endings(job.npm) :
       job' = [job EXCEPT !.pc = "read", !.phase = "verify", !.try = 1, !.read = 1, !.npm = e]
  /\ UNCHANGED <<history, flight, results, owner>>

(* The owner publishes by hand: the bootstrap of a package, a hotfix, a    *)
(* prerelease that takes the tag.                                          *)
OwnerPublishes ==
  /\ owner < MaxOwner /\ owner' = owner + 1
  /\ \/ \E v \in Versions, b \in Tarballs, t \in {"latest", "next"} :
          /\ Registry.held[v] = Absent
          /\ history' = Append(history, Applied(Registry, [version |-> v, bytes |-> b, tag |-> t]))
     \/ history' = Append(history, [Registry EXCEPT !.exists = TRUE, !.latest = Unstable])
  /\ UNCHANGED <<flight, job, results>>

NpmNext ==
  \/ \E i \in Inputs : StartJob(i)
  \/ Fetch \/ Publish \/ NpmEnds \/ OwnerPublishes
  \/ \E p \in flight : Land(p) \/ Drop(p)

(* A job's timers and retries fire.  The registry, npm and the owner owe   *)
(* nothing.                                                                *)
NpmFairness ==
  WF_npmVars(Fetch) /\ WF_npmVars(Publish) /\ WF_npmVars(NpmEnds)

NpmSpec == NpmInit /\ [][NpmNext]_npmVars /\ NpmFairness

-----------------------------------------------------------------------------
(* Properties. *)

(* A job that reports the release complete is right, however stale its     *)
(* reads, whoever else published, whatever npm said: the registry holds    *)
(* the bytes that were verified, under that version, and the tag had moved *)
(* at least that far.  This is what lets a failed job simply be re-run.    *)
TrulyComplete(result) ==
  LET i == result.input IN
  result.complete =>
    /\ Registry.held[i.manifest] = i.bytes
    /\ i.tag = "latest" =>
         \E h \in DOMAIN history : /\ history[h].held[i.manifest] = i.bytes
                                   /\ history[h].latest \in Versions
                                   /\ history[h].latest >= i.manifest

(* The tag goes back to an older version only through the owner, or when   *)
(* the registry had moved on since the state the job decided on: a cache   *)
(* that lags, a release by hand, a request that landed late.               *)
LatestGoesBackOnlyUnseen ==
  [][\A p \in flight :
       (p \notin flight' /\ history' # history /\ Older(Registry'.latest, Registry.latest))
          => p.seen # Registry]_npmVars

(* Every job reports, whatever the registry and npm do. *)
EveryJobReports == []<>(job.pc = "idle")

(* What a job reports is so, and its publication moves the tag only on     *)
(* from what it saw (npm-publish-resilient.js).                            *)
PublishSound == [](\A k \in DOMAIN results : TrulyComplete(results[k])) /\ LatestGoesBackOnlyUnseen
=============================================================================
