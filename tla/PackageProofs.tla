---------------------------- MODULE PackageProofs ----------------------------
(***************************************************************************)
(* Packages, published, created and read, for all constants.  A release    *)
(* job that reports completion is right, and moves the tag back only past  *)
(* a state it has not seen; a creation that fails removes nothing that is  *)
(* not its own, and can be repeated; an inspection that succeeds has seen  *)
(* the package of one moment; a version in the store is a whole package.   *)
(***************************************************************************)
EXTENDS NpmPublish, PackageInit, PackageInspect, PackageArchive, SequenceTheorems,
        FiniteSetTheorems, TLAPS

(* npm publication.                                                        *)

Bytes == Tarballs \cup {Absent} \cup {i.bytes : i \in Inputs}
States == [exists : BOOLEAN, held : [Versions -> Bytes], latest : Versions \cup {NoTag, Unstable}]
Told == {"none", "accepted", "refused", "unknown_package", "forbidden"}
NpmEndings == {"spawn_error", "timeout", "transient", "unknown", "exit_0", "conflict",
               "not_found", "auth"}
Jobs == [pc : {"read", "copy", "npm"}, phase : {"initial", "verify"}, input : Inputs,
         try : Nat, read : Nat, npm : Told \cup NpmEndings, seen : States]
Outcomes ==
  {Assess(s, i) : s \in States, i \in Inputs}
  \cup {Conclusion(s, i, n) : s \in States, i \in Inputs, n \in NpmEndings}
  \cup {"input_invalid", "registry_or_internal_failure"}
JobResults == {MakeResult(i, o, n) : i \in Inputs, o \in Outcomes, n \in {0, 1}}

\* A version the registry has ever held it still holds, with the same bytes.
HistoryInv ==
  /\ history \in Seq(States) /\ Len(history) >= 1
  /\ \A h \in 1..Len(history) : \A v \in Versions :
       history[h].held[v] # Absent => Registry.held[v] = history[h].held[v]

\* What has been decided on the registry's state holds of that state.
Forward(version, tag, seen) == tag = "latest" => ~Older(version, seen.latest)

FlightInv ==
  \A p \in flight : /\ p.version \in Versions /\ p.bytes \in Bytes
                    /\ Forward(p.version, p.tag, p.seen)

JobInv ==
  \/ job = Idle
  \/ /\ job \in Jobs
     /\ LoadReleaseArtifact(job.input)
     /\ IF job.phase = "verify" THEN job.pc = "read" /\ job.npm \in NpmEndings
                                ELSE job.npm \in Told
     /\ job.pc = "copy" => Forward(job.input.manifest, job.input.tag, job.seen)

\* A complete job has read its bytes; that they stay is why it stays right.
ResultOK(result) ==
  result.complete =>
    /\ result.input.manifest \in Versions
    /\ Registry.held[result.input.manifest] # Absent
    /\ TrulyComplete(result)

ResultsInv ==
  /\ results \in Seq(JobResults)
  /\ \A k \in 1..Len(results) : ResultOK(results[k])

NpmInv == HistoryInv /\ FlightInv /\ JobInv /\ ResultsInv

\* The registry is at the end of its history.
LEMMA RegistryFacts ==
  ASSUME HistoryInv
  PROVE  /\ Registry \in States /\ Len(history) \in Nat /\ Len(history) \in 1..Len(history)
         /\ Registry = history[Len(history)]
         /\ \A s \in Shown : \E h \in 1..Len(history) : s = history[h]
         /\ Shown \subseteq States
<1>1. Len(history) \in Nat /\ Len(history) \in 1..Len(history) /\ DOMAIN history = 1..Len(history)
  BY DEF HistoryInv
<1>2. Registry = history[Len(history)]
  BY DEF Registry, Last
<1>3. \A h \in 1..Len(history) : history[h] \in States
  BY DEF HistoryInv
<1>4. \A s \in Shown : \E h \in 1..Len(history) : s = history[h]
  BY <1>1 DEF Shown
<1> QED
  BY <1>1, <1>2, <1>3, <1>4

\* Only what is published unchanged, with a tag that had moved far enough, is
\* reported complete.
LEMMA AssessComplete ==
  ASSUME NEW s \in States, NEW i, Complete(Assess(s, i))
  PROVE  s.held[i.manifest] # Absent /\ s.held[i.manifest] = i.bytes /\ LatestAcceptable(s, i)
<1> DEFINE c == CompareObservedVersion(s, i)
<1>1. c \in {"match", "absent", "mismatch"}
  BY DEF CompareObservedVersion
<1>2. c = "match" => s.held[i.manifest] # Absent /\ s.held[i.manifest] = i.bytes
  BY DEF CompareObservedVersion
<1>3. s.exists \in BOOLEAN /\ s.latest \in Versions \cup {NoTag, Unstable}
  BY DEF States
<1>4. LatestPreflight(s, i) \in {"go", "dist_tag_preflight_failed", "backfill_latest_blocked"}
  BY <1>3, NpmAssumption DEF LatestPreflight
<1> HIDE DEF c
<1>5. CASE c = "match"
  BY <1>2, <1>5 DEF Assess, Complete, c
<1>6. CASE c = "mismatch"
  BY <1>6 DEF Assess, Complete, c
<1>7. CASE c = "absent"
  BY <1>3, <1>4, <1>7 DEF Assess, Complete, c
<1> QED
  BY <1>1, <1>5, <1>6, <1>7

LEMMA ConclusionComplete ==
  ASSUME NEW s \in States, NEW i, NEW npm \in NpmEndings, Complete(Conclusion(s, i, npm))
  PROVE  s.held[i.manifest] # Absent /\ s.held[i.manifest] = i.bytes /\ LatestAcceptable(s, i)
<1> DEFINE c == CompareObservedVersion(s, i)
<1>1. c \in {"match", "absent", "mismatch"}
  BY DEF CompareObservedVersion
<1>2. c = "match" => s.held[i.manifest] # Absent /\ s.held[i.manifest] = i.bytes
  BY DEF CompareObservedVersion
<1> HIDE DEF c
<1>5. CASE c = "match"
  BY <1>2, <1>5 DEF Conclusion, Complete, c
<1>6. CASE c = "mismatch"
  BY <1>6 DEF Conclusion, Complete, c
<1>7. CASE c = "absent"
  <2>1. CASE npm = "exit_0"
    BY <1>7, <2>1 DEF Conclusion, Complete, c
  <2>2. CASE npm # "exit_0"
    <3> DEFINE failure == CASE npm = "not_found" -> "publisher_misconfigured"
                            [] npm = "auth" -> "authentication_failed"
                            [] npm = "conflict" -> "version_conflict"
                            [] npm \in {"timeout", "transient"} -> "transient_failure"
                            [] npm \in {"unknown", "spawn_error"} -> "publish_failed"
    <3>1. failure \in {"publisher_misconfigured", "authentication_failed", "version_conflict",
                       "transient_failure", "publish_failed"}
      BY <2>2 DEF NpmEndings
    <3>2. Conclusion(s, i, npm) = failure
      BY <1>7, <2>2 DEF Conclusion, c
    <3> HIDE DEF failure
    <3> QED
      BY <3>1, <3>2 DEF Complete
  <2> QED
    BY <2>1, <2>2
<1> QED
  BY <1>1, <1>5, <1>6, <1>7

\* A publication adds a state to the history; what a finished job reported stays so.
LEMMA HistoryGrows ==
  ASSUME HistoryInv, ResultsInv, NEW t \in States,
         history' = Append(history, t), results' = results,
         \A v \in Versions : Registry.held[v] # Absent => t.held[v] = Registry.held[v]
  PROVE  HistoryInv' /\ ResultsInv' /\ Registry' = t
<1> DEFINE n == Len(history)
<1>1. n \in Nat \ {0} /\ history \in Seq(States) /\ DOMAIN history = 1..n
  BY DEF HistoryInv
<1>2. /\ history' \in Seq(States) /\ Len(history') = n + 1 /\ history'[n + 1] = t
      /\ DOMAIN history' = 1..(n + 1)
      /\ \A h \in 1..n : history'[h] = history[h]
  BY <1>1, AppendProperties
<1>3. Registry' = t
  BY <1>2 DEF Registry, Last
<1>4. \A h \in 1..n, v \in Versions :
        history[h].held[v] # Absent => Registry.held[v] = history[h].held[v]
  BY DEF HistoryInv
<1>5. \A h \in 1..(n + 1), v \in Versions :
        history'[h].held[v] # Absent => t.held[v] = history'[h].held[v]
  <2> SUFFICES ASSUME NEW h \in 1..(n + 1), NEW v \in Versions, history'[h].held[v] # Absent
               PROVE  t.held[v] = history'[h].held[v]
    OBVIOUS
  <2>1. CASE h = n + 1
    BY <1>2, <2>1
  <2>2. CASE h \in 1..n
    BY <1>2, <1>4, <2>2
  <2> QED
    BY <1>1, <2>1, <2>2
<1>6. HistoryInv'
  BY <1>1, <1>2, <1>3, <1>5 DEF HistoryInv
<1>7. ASSUME NEW result, ResultOK(result)
      PROVE  ResultOK(result)'
  <2> DEFINE i == result.input
  <2> SUFFICES ASSUME result.complete
               PROVE  /\ i.manifest \in Versions /\ Registry'.held[i.manifest] # Absent
                      /\ TrulyComplete(result)'
    BY DEF ResultOK
  <2>1. /\ i.manifest \in Versions /\ Registry.held[i.manifest] # Absent
        /\ Registry.held[i.manifest] = i.bytes
    BY <1>7 DEF ResultOK, TrulyComplete
  <2>2. t.held[i.manifest] = i.bytes /\ t.held[i.manifest] # Absent
    BY <2>1
  <2>3. ASSUME i.tag = "latest"
        PROVE  \E h \in DOMAIN history' : /\ history'[h].held[i.manifest] = i.bytes
                                          /\ history'[h].latest \in Versions
                                          /\ history'[h].latest >= i.manifest
    <3>1. PICK h \in DOMAIN history : /\ history[h].held[i.manifest] = i.bytes
                                      /\ history[h].latest \in Versions
                                      /\ history[h].latest >= i.manifest
      BY <1>7, <2>3 DEF ResultOK, TrulyComplete
    <3>2. h \in DOMAIN history' /\ history'[h] = history[h]
      BY <1>1, <1>2, <3>1
    <3> QED
      BY <3>1, <3>2
  <2> QED
    BY <1>3, <2>1, <2>2, <2>3 DEF TrulyComplete
<1>8. ResultsInv'
  BY <1>7 DEF ResultsInv
<1> QED
  BY <1>3, <1>6, <1>8

\* What a job saw in a state the registry has been in is so.
LEMMA SeenIsTrue ==
  ASSUME HistoryInv, NEW i \in Inputs, LoadReleaseArtifact(i), NEW o, NEW n,
         Complete(o) => \E s \in Shown : /\ s.held[i.manifest] # Absent
                                         /\ s.held[i.manifest] = i.bytes
                                         /\ LatestAcceptable(s, i)
  PROVE  ResultOK(MakeResult(i, o, n))
<1> DEFINE r == MakeResult(i, o, n)
<1>1. r.input = i /\ r.complete = Complete(o)
  BY DEF MakeResult
<1> HIDE DEF r
<1> SUFFICES ASSUME Complete(o)
             PROVE  /\ i.manifest \in Versions /\ Registry.held[i.manifest] # Absent
                    /\ TrulyComplete(r)
  BY <1>1 DEF ResultOK, r
<1>2. i.manifest \in Versions
  BY DEF LoadReleaseArtifact
<1>3. PICK s \in Shown : /\ s.held[i.manifest] # Absent
                         /\ s.held[i.manifest] = i.bytes
                         /\ LatestAcceptable(s, i)
  OBVIOUS
<1>4. PICK h \in 1..Len(history) : s = history[h]
  BY RegistryFacts
<1>5. Registry.held[i.manifest] = i.bytes /\ i.bytes # Absent
  BY <1>2, <1>3, <1>4 DEF HistoryInv
<1>6. i.tag = "latest" => history[h].latest \in Versions /\ history[h].latest >= i.manifest
  <2> DEFINE l == history[h].latest
             m == i.manifest
  <2> SUFFICES ASSUME i.tag = "latest"
               PROVE  l \in Versions /\ l >= m
    OBVIOUS
  <2>1. l \in Versions /\ ~Older(l, m)
    BY <1>3, <1>4 DEF LatestAcceptable
  <2>2. m \in Versions
    BY <1>2
  <2> HIDE DEF l, m
  <2>3. l \in Nat /\ m \in Nat
    BY <2>1, <2>2, NpmAssumption
  <2> QED
    BY <2>1, <2>2, <2>3 DEF Older
<1>7. h \in DOMAIN history /\ history[h].held[i.manifest] = i.bytes
  BY <1>3, <1>4 DEF HistoryInv
<1> QED
  BY <1>1, <1>2, <1>5, <1>6, <1>7 DEF TrulyComplete

\* A step that leaves the registry alone and adds at most one true result.
LEMMA ResultAdded ==
  ASSUME HistoryInv, ResultsInv, history' = history,
         \/ results' = results
         \/ \E r \in JobResults : results' = Append(results, r) /\ ResultOK(r)
  PROVE  HistoryInv' /\ ResultsInv'
<1>1. HistoryInv' /\ Registry' = Registry
  BY DEF HistoryInv, Registry
<1>2. results \in Seq(JobResults) /\ Len(results) \in Nat
      /\ \A k \in 1..Len(results) : ResultOK(results[k])
  BY DEF ResultsInv
<1>3. results' \in Seq(JobResults) /\ \A k \in 1..Len(results') : ResultOK(results'[k])
  <2>1. CASE results' = results
    BY <1>2, <2>1
  <2>2. ASSUME NEW r \in JobResults, results' = Append(results, r), ResultOK(r)
        PROVE  <1>3!1 /\ <1>3!2
    <3>1. /\ results' \in Seq(JobResults) /\ Len(results') = Len(results) + 1
          /\ results'[Len(results) + 1] = r
          /\ \A k \in 1..Len(results) : results'[k] = results[k]
      BY <1>2, <2>2, AppendProperties
    <3>2. ASSUME NEW k \in 1..Len(results')
          PROVE  ResultOK(results'[k])
      <4>1. CASE k = Len(results) + 1
        BY <2>2, <3>1, <4>1
      <4>2. CASE k \in 1..Len(results)
        BY <1>2, <3>1, <4>2
      <4> QED
        BY <1>2, <3>1, <3>2, <4>1, <4>2
    <3> QED
      BY <3>1, <3>2
  <2> QED
    BY <2>1, <2>2
<1>4. ResultsInv'
  <2> SUFFICES ASSUME NEW k \in 1..Len(results')
               PROVE  ResultOK(results[k])'
    BY <1>3 DEF ResultsInv
  <2>1. ResultOK(results'[k])
    BY <1>3
  <2> QED
    BY <1>1, <2>1 DEF ResultOK, TrulyComplete
<1> QED
  BY <1>1, <1>4

\* A job that ends with a true report leaves the invariant standing.
LEMMA FinishKeeps ==
  ASSUME NpmInv, history' = history, flight' = flight,
         NEW o \in Outcomes, NEW n \in {0, 1}, job # Idle, Finish(o, n),
         Complete(o) => \E s \in Shown : /\ s.held[job.input.manifest] # Absent
                                         /\ s.held[job.input.manifest] = job.input.bytes
                                         /\ LatestAcceptable(s, job.input)
  PROVE  NpmInv'
<1>1. job.input \in Inputs /\ LoadReleaseArtifact(job.input)
  BY DEF NpmInv, JobInv, Jobs
<1>2. ResultOK(MakeResult(job.input, o, n))
  BY <1>1, SeenIsTrue DEF NpmInv
<1>3. MakeResult(job.input, o, n) \in JobResults
  BY <1>1 DEF JobResults
<1>4. HistoryInv' /\ ResultsInv'
  BY <1>2, <1>3, ResultAdded DEF NpmInv, Finish
<1>5. JobInv' /\ FlightInv'
  BY DEF NpmInv, JobInv, FlightInv, Finish, Idle
<1> QED
  BY <1>4, <1>5 DEF NpmInv

\* A step that only moves the job on.
LEMMA JobMoves ==
  ASSUME NpmInv, history' = history, flight' = flight, results' = results, JobInv'
  PROVE  NpmInv'
<1>1. HistoryInv' /\ ResultsInv'
  BY ResultAdded DEF NpmInv
<1>2. FlightInv'
  BY DEF NpmInv, FlightInv
<1> QED
  BY <1>1, <1>2 DEF NpmInv

LEMMA NpmInitInv == NpmInit => NpmInv
<1> SUFFICES ASSUME NpmInit
             PROVE  NpmInv
  OBVIOUS
<1>1. PICK s \in States : history = <<s>>
  BY DEF NpmInit, NoPackage, States, Bytes
<1>2. HistoryInv
  <2>1. history \in Seq(States) /\ Len(history) = 1 /\ history[1] = s
    BY <1>1
  <2>2. Registry = s
    BY <2>1 DEF Registry, Last
  <2> QED
    BY <2>1, <2>2 DEF HistoryInv
<1>3. FlightInv /\ JobInv
  BY DEF NpmInit, FlightInv, JobInv
<1>4. ResultsInv
  BY DEF NpmInit, ResultsInv
<1> QED
  BY <1>2, <1>3, <1>4 DEF NpmInv

LEMMA StartJobKeeps ==
  ASSUME NpmInv, NEW i \in Inputs, StartJob(i)
  PROVE  NpmInv'
<1>1. CASE ParseArguments(i) /\ LoadReleaseArtifact(i)
  <2>1. NoPackage \in States
    BY DEF NoPackage, States, Bytes
  <2>2. job' = [pc |-> "read", phase |-> "initial", input |-> i, try |-> 1, read |-> 1,
                npm |-> "none", seen |-> NoPackage]
    BY <1>1 DEF StartJob
  <2>3. JobInv'
    BY <1>1, <2>1, <2>2 DEF JobInv, Jobs, Told
  <2> QED
    BY <1>1, <2>3, JobMoves DEF StartJob
<1>2. CASE ~(ParseArguments(i) /\ LoadReleaseArtifact(i))
  <2> DEFINE r == MakeResult(i, "input_invalid", 0)
  <2>1. r \in JobResults
    BY DEF JobResults, Outcomes
  <2>2. ResultOK(r)
    BY DEF ResultOK, MakeResult, Complete
  <2>3. history' = history /\ results' = Append(results, r) /\ job' = job /\ flight' = flight
    BY <1>2 DEF StartJob
  <2> HIDE DEF r
  <2>4. HistoryInv' /\ ResultsInv'
    BY <2>1, <2>2, <2>3, ResultAdded DEF NpmInv
  <2>5. JobInv' /\ FlightInv'
    BY <2>3 DEF NpmInv, JobInv, FlightInv
  <2> QED
    BY <2>4, <2>5 DEF NpmInv
<1> QED
  BY <1>1, <1>2

\* The guard on the tag: a job goes on only if what it saw is not newer.
LEMMA AssessGoes ==
  ASSUME NEW s \in States, NEW i, Assess(s, i) = "go"
  PROVE  Forward(i.manifest, i.tag, s)
<1> DEFINE c == CompareObservedVersion(s, i)
           preflight == LatestPreflight(s, i)
<1>1. c \in {"match", "absent", "mismatch"}
  BY DEF CompareObservedVersion
<1>2. s.exists \in BOOLEAN /\ s.latest \in Versions \cup {NoTag, Unstable}
  BY DEF States
<1>3. preflight = "go" => Forward(i.manifest, i.tag, s)
  <2> SUFFICES ASSUME preflight = "go", i.tag = "latest", Older(i.manifest, s.latest)
               PROVE  FALSE
    BY DEF Forward
  <2>1. s.latest \in Versions /\ s.latest # NoTag /\ s.latest # Unstable
    BY NpmAssumption DEF Older
  <2>2. preflight = "backfill_latest_blocked"
    BY <2>1 DEF LatestPreflight
  <2> QED
    BY <2>2
<1> HIDE DEF c, preflight
<1>4. c = "absent"
  <2>1. c # "mismatch"
    BY DEF Assess, c
  <2>2. c # "match"
    BY DEF Assess, c
  <2> QED
    BY <1>1, <2>1, <2>2
<1>5. s.exists /\ ~Marked(i)
  BY <1>2, <1>4 DEF Assess, c
<1>6. preflight = "go"
  BY <1>4, <1>5 DEF Assess, c, preflight
<1> QED
  BY <1>3, <1>6

LEMMA DecideKeeps ==
  ASSUME NpmInv, history' = history, flight' = flight, NEW s \in Shown,
         job.pc = "read", job.phase = "initial", Decide(s)
  PROVE  NpmInv'
<1> DEFINE i == job.input
           o == Assess(s, i)
<1>1. /\ job \in Jobs /\ i \in Inputs /\ LoadReleaseArtifact(i) /\ job.npm \in Told
      /\ job # Idle
  BY DEF NpmInv, JobInv, Idle, Jobs
<1>2. s \in States
  BY RegistryFacts DEF NpmInv
<1>3. CASE o # "go"
  <2>1. o \in Outcomes
    BY <1>1, <1>2 DEF Outcomes
  <2>2. Finish(o, 0)
    BY <1>3 DEF Decide
  <2>3. Complete(o) => s.held[i.manifest] # Absent /\ s.held[i.manifest] = i.bytes
                       /\ LatestAcceptable(s, i)
    BY <1>2, AssessComplete
  <2> HIDE DEF o
  <2> QED
    BY <1>1, <2>1, <2>2, <2>3, FinishKeeps
<1>4. CASE o = "go"
  <2>1. job' = [job EXCEPT !.pc = "copy", !.seen = s] /\ results' = results
    BY <1>4 DEF Decide
  <2>2. Forward(i.manifest, i.tag, s)
    BY <1>2, <1>4, AssessGoes
  <2>3. /\ job' \in Jobs /\ job'.pc = "copy" /\ job'.seen = s /\ job'.input = i
        /\ job'.phase = "initial" /\ job'.npm = job.npm
    BY <1>1, <1>2, <2>1 DEF Jobs
  <2>4. JobInv'
    BY <1>1, <2>2, <2>3 DEF JobInv
  <2> QED
    BY <2>1, <2>4, JobMoves
<1> QED
  BY <1>3, <1>4

LEMMA VerifyKeeps ==
  ASSUME NpmInv, history' = history, flight' = flight, NEW s \in Shown,
         job.pc = "read", job.phase = "verify", Verify(s)
  PROVE  NpmInv'
<1> DEFINE i == job.input
           o == Conclusion(s, i, job.npm)
<1>1. /\ job \in Jobs /\ i \in Inputs /\ LoadReleaseArtifact(i) /\ job.npm \in NpmEndings
      /\ job # Idle
  BY DEF NpmInv, JobInv, Idle, Jobs
<1>2. s \in States
  BY RegistryFacts DEF NpmInv
<1>3. CASE Finish(o, 1)
  <2>1. o \in Outcomes
    BY <1>1, <1>2 DEF Outcomes
  <2>2. Complete(o) => s.held[i.manifest] # Absent /\ s.held[i.manifest] = i.bytes
                       /\ LatestAcceptable(s, i)
    BY <1>1, <1>2, ConclusionComplete
  <2>3. Finish(o, 1)
    BY <1>3
  <2> HIDE DEF o
  <2> QED
    BY <1>1, <2>1, <2>2, <2>3, FinishKeeps
<1>4. CASE job' = [job EXCEPT !.read = @ + 1, !.try = 1] /\ results' = results
  <2>1. /\ job' \in Jobs /\ job'.pc = "read" /\ job'.phase = "verify"
        /\ job'.npm = job.npm /\ job'.input = i
    <3>1. job.read + 1 \in Nat
      BY <1>1 DEF Jobs
    <3>2. job' = [job EXCEPT !.read = job.read + 1, !.try = 1]
      BY <1>4
    <3> QED
      BY <1>1, <3>1, <3>2 DEF Jobs
  <2>2. JobInv'
    BY <1>1, <2>1 DEF JobInv
  <2> QED
    BY <1>4, <2>2, JobMoves
<1> QED
  BY <1>3, <1>4 DEF Verify

LEMMA FetchKeeps ==
  ASSUME NpmInv, Fetch
  PROVE  NpmInv'
<1>1. /\ job \in Jobs /\ job # Idle /\ job.pc = "read" /\ history' = history /\ flight' = flight
      /\ job.phase \in {"initial", "verify"}
  BY DEF NpmInv, JobInv, Fetch, Idle, Jobs
<1>2. CASE job' = [job EXCEPT !.try = @ + 1] /\ results' = results
  <2>1. JobInv'
    BY <1>1, <1>2 DEF NpmInv, JobInv, Jobs
  <2> QED
    BY <1>1, <1>2, <2>1, JobMoves
<1>3. CASE Finish("registry_or_internal_failure", 0)
  <2>1. "registry_or_internal_failure" \in Outcomes /\ ~Complete("registry_or_internal_failure")
    BY DEF Outcomes, Complete
  <2> QED
    BY <1>1, <1>3, <2>1, FinishKeeps
<1>4. ASSUME NEW s \in Shown, Read(s)
      PROVE  NpmInv'
  <2>1. CASE job.phase = "initial"
    BY <1>1, <1>4, <2>1, DecideKeeps DEF Read
  <2>2. CASE job.phase = "verify"
    BY <1>1, <1>4, <2>2, VerifyKeeps DEF Read
  <2> QED
    BY <1>1, <2>1, <2>2
<1> QED
  BY <1>2, <1>3, <1>4 DEF Fetch

LEMMA PublishKeeps ==
  ASSUME NpmInv, Publish
  PROVE  NpmInv'
<1> DEFINE i == job.input
           p == [version |-> i.manifest, bytes |-> i.bytes, tag |-> i.tag,
                 seen |-> job.seen, id |-> Len(results)]
<1>1. /\ job \in Jobs /\ job # Idle /\ job.pc = "copy" /\ history' = history
      /\ i \in Inputs /\ LoadReleaseArtifact(i) /\ Forward(i.manifest, i.tag, job.seen)
      /\ job.phase = "initial" /\ job.npm \in Told
  BY DEF NpmInv, JobInv, Publish, Idle, Jobs
<1>2. CASE /\ job' = [job EXCEPT !.pc = "npm"] /\ results' = results
           /\ flight' = flight \cup {p}
  <2>1. /\ job' \in Jobs /\ job'.pc = "npm" /\ job'.phase = "initial" /\ job'.npm = job.npm
        /\ job'.input = i
    BY <1>1, <1>2 DEF Jobs
  <2>2. JobInv'
    BY <1>1, <2>1 DEF JobInv
  <2>3. /\ p.version \in Versions /\ p.bytes \in Bytes /\ Forward(p.version, p.tag, p.seen)
    BY <1>1 DEF LoadReleaseArtifact, Bytes
  <2>4. FlightInv'
    BY <1>2, <2>3 DEF NpmInv, FlightInv
  <2>5. HistoryInv' /\ ResultsInv'
    BY <1>1, <1>2, ResultAdded DEF NpmInv
  <2> QED
    BY <2>2, <2>4, <2>5 DEF NpmInv
<1>3. CASE /\ job' = [job EXCEPT !.pc = "read", !.phase = "verify", !.try = 1,
                                 !.npm = "spawn_error"]
           /\ UNCHANGED <<flight, results>>
  <2>1. /\ job' \in Jobs /\ job'.pc = "read" /\ job'.phase = "verify"
        /\ job'.npm = "spawn_error" /\ job'.input = i
    BY <1>1, <1>3 DEF Jobs, NpmEndings
  <2>2. JobInv'
    BY <1>1, <2>1 DEF JobInv, NpmEndings
  <2> QED
    BY <1>1, <1>3, <2>2, JobMoves
<1>4. CASE Finish("registry_or_internal_failure", 0) /\ flight' = flight
  <2>1. "registry_or_internal_failure" \in Outcomes /\ ~Complete("registry_or_internal_failure")
    BY DEF Outcomes, Complete
  <2> QED
    BY <1>1, <1>4, <2>1, FinishKeeps
<1> QED
  BY <1>2, <1>3, <1>4 DEF Publish

\* What npm is told reaches a job that is still waiting for it.
LEMMA ToldKeeps ==
  ASSUME JobInv, NEW p, NEW told \in Told,
         job' = IF Mine(p) THEN [job EXCEPT !.npm = told] ELSE job
  PROVE  JobInv'
<1>1. CASE job' = job
  BY <1>1 DEF JobInv
<1>2. CASE Mine(p) /\ job' = [job EXCEPT !.npm = told]
  <2>1. /\ job \in Jobs /\ LoadReleaseArtifact(job.input) /\ job.pc = "npm"
        /\ job.phase = "initial"
    BY <1>2 DEF JobInv, Idle, Mine, Jobs
  <2>2. /\ job' \in Jobs /\ job'.pc = "npm" /\ job'.phase = "initial"
        /\ job'.npm = told /\ job'.input = job.input
    BY <1>2, <2>1 DEF Jobs
  <2> QED
    BY <2>1, <2>2 DEF JobInv
<1> QED
  BY <1>1, <1>2

\* A publication keeps what other versions hold.
LEMMA AppliedFacts ==
  ASSUME NEW s \in States, NEW p, p.version \in Versions, p.bytes \in Bytes,
         s.held[p.version] = Absent
  PROVE  /\ Applied(s, p) \in States
         /\ \A v \in Versions : s.held[v] # Absent => Applied(s, p).held[v] = s.held[v]
<1>1. /\ s.held \in [Versions -> Bytes] /\ s.latest \in Versions \cup {NoTag, Unstable}
  BY DEF States
<1> DEFINE held == [s.held EXCEPT ![p.version] = p.bytes]
           latest == IF p.tag = "latest" THEN p.version ELSE s.latest
<1>2. /\ held \in [Versions -> Bytes]
      /\ \A v \in Versions : s.held[v] # Absent => held[v] = s.held[v]
  BY <1>1
<1>3. latest \in Versions \cup {NoTag, Unstable}
  BY <1>1
<1>4. Applied(s, p) = [exists |-> TRUE, held |-> held, latest |-> latest]
  BY DEF Applied
<1> HIDE DEF held, latest
<1> QED
  BY <1>2, <1>3, <1>4 DEF States

LEMMA LandKeeps ==
  ASSUME NpmInv, NEW p \in flight, Land(p)
  PROVE  NpmInv'
<1>1. FlightInv' /\ p.version \in Versions /\ p.bytes \in Bytes
  BY DEF NpmInv, FlightInv, Land
<1>2. CASE Accepts(p)
  <2>1. Registry \in States
    BY RegistryFacts DEF NpmInv
  <2>2. /\ Applied(Registry, p) \in States
        /\ \A v \in Versions : Registry.held[v] # Absent
                                 => Applied(Registry, p).held[v] = Registry.held[v]
    BY <1>1, <1>2, <2>1, AppliedFacts DEF Accepts
  <2>3. /\ history' = Append(history, Applied(Registry, p)) /\ results' = results
        /\ job' = IF Mine(p) THEN [job EXCEPT !.npm = "accepted"] ELSE job
    BY <1>2 DEF Land
  <2>4. HistoryInv' /\ ResultsInv'
    BY <2>2, <2>3, HistoryGrows DEF NpmInv
  <2>5. JobInv'
    BY <2>3, ToldKeeps DEF NpmInv, Told
  <2> QED
    BY <1>1, <2>4, <2>5 DEF NpmInv
<1>3. CASE ~Accepts(p)
  <2>1. /\ history' = history /\ results' = results
        /\ job' = IF Mine(p) THEN [job EXCEPT !.npm = Refusal] ELSE job
    BY <1>3 DEF Land
  <2>2. HistoryInv' /\ ResultsInv'
    BY <2>1, ResultAdded DEF NpmInv
  <2>3. Refusal \in Told
    BY DEF Refusal, Told
  <2>4. JobInv'
    BY <2>1, <2>3, ToldKeeps DEF NpmInv
  <2> QED
    BY <1>1, <2>2, <2>4 DEF NpmInv
<1> QED
  BY <1>2, <1>3

LEMMA DropKeeps ==
  ASSUME NpmInv, NEW p \in flight, Drop(p)
  PROVE  NpmInv'
<1>1. FlightInv'
  BY DEF NpmInv, FlightInv, Drop
<1>2. HistoryInv' /\ ResultsInv'
  BY ResultAdded DEF NpmInv, Drop
<1>3. JobInv'
  BY ToldKeeps DEF NpmInv, Drop, Told
<1> QED
  BY <1>1, <1>2, <1>3 DEF NpmInv

LEMMA NpmEndsKeeps ==
  ASSUME NpmInv, NpmEnds
  PROVE  NpmInv'
<1>1. /\ job \in Jobs /\ LoadReleaseArtifact(job.input) /\ job.phase = "initial"
      /\ job.npm \in Told
  BY DEF NpmInv, JobInv, NpmEnds, Idle, Jobs
<1>2. \A e \in Endings(job.npm) : e \in NpmEndings
  BY <1>1 DEF Endings, Told, NpmEndings
<1>3. PICK e \in NpmEndings :
        job' = [job EXCEPT !.pc = "read", !.phase = "verify", !.try = 1, !.read = 1, !.npm = e]
  BY <1>2 DEF NpmEnds
<1>4. /\ job' \in Jobs /\ job'.pc = "read" /\ job'.phase = "verify" /\ job'.npm = e
      /\ job'.input = job.input
  BY <1>1, <1>3 DEF Jobs
<1>5. JobInv'
  BY <1>1, <1>4 DEF JobInv
<1> QED
  BY <1>5, JobMoves DEF NpmEnds

LEMMA OwnerKeeps ==
  ASSUME NpmInv, OwnerPublishes
  PROVE  NpmInv'
<1>1. Registry \in States
  BY RegistryFacts DEF NpmInv
<1> DEFINE Grows(t) == /\ history' = Append(history, t)
                       /\ \A v \in Versions : Registry.held[v] # Absent
                                                => t.held[v] = Registry.held[v]
<1>2. \E t \in States : Grows(t)
  <2>1. ASSUME NEW v \in Versions, NEW b \in Tarballs, NEW t \in {"latest", "next"},
               Registry.held[v] = Absent,
               history' = Append(history, Applied(Registry, [version |-> v, bytes |-> b,
                                                             tag |-> t]))
        PROVE  \E s \in States : Grows(s)
    <3> DEFINE p == [version |-> v, bytes |-> b, tag |-> t]
    <3>1. p.version \in Versions /\ p.bytes \in Bytes /\ Registry.held[p.version] = Absent
      BY <2>1 DEF Bytes
    <3>2. history' = Append(history, Applied(Registry, p))
      BY <2>1
    <3> HIDE DEF p
    <3> QED
      BY <1>1, <3>1, <3>2, AppliedFacts
  <2>2. ASSUME history' = Append(history, [Registry EXCEPT !.exists = TRUE, !.latest = Unstable])
        PROVE  \E s \in States : Grows(s)
    <3> DEFINE t == [Registry EXCEPT !.exists = TRUE, !.latest = Unstable]
    <3>1. t \in States /\ t.held = Registry.held
      BY <1>1 DEF States
    <3> QED
      BY <2>2, <3>1
  <2> HIDE DEF Grows
  <2> QED
    BY <2>1, <2>2 DEF OwnerPublishes
<1>3. HistoryInv' /\ ResultsInv'
  BY <1>2, HistoryGrows DEF NpmInv, OwnerPublishes
<1>4. FlightInv' /\ JobInv'
  BY DEF NpmInv, FlightInv, JobInv, OwnerPublishes
<1> QED
  BY <1>3, <1>4 DEF NpmInv

\* Every step of a job, the registry, npm and the owner keeps the invariant.
LEMMA NpmStepInv == NpmInv /\ [NpmNext]_npmVars => NpmInv'
<1> SUFFICES ASSUME NpmInv, [NpmNext]_npmVars
             PROVE  NpmInv'
  OBVIOUS
<1>1. ASSUME NEW i \in Inputs, StartJob(i)
      PROVE  NpmInv'
  BY <1>1, StartJobKeeps
<1>2. CASE Fetch
  BY <1>2, FetchKeeps
<1>3. CASE Publish
  BY <1>3, PublishKeeps
<1>4. CASE NpmEnds
  BY <1>4, NpmEndsKeeps
<1>5. CASE OwnerPublishes
  BY <1>5, OwnerKeeps
<1>6. ASSUME NEW p \in flight, Land(p)
      PROVE  NpmInv'
  BY <1>6, LandKeeps
<1>7. ASSUME NEW p \in flight, Drop(p)
      PROVE  NpmInv'
  BY <1>7, DropKeeps
<1>8. CASE UNCHANGED npmVars
  <2>1. JobInv'
    BY <1>8 DEF NpmInv, JobInv, npmVars
  <2> QED
    BY <1>8, <2>1, JobMoves DEF npmVars
<1> QED
  BY <1>1, <1>2, <1>3, <1>4, <1>5, <1>6, <1>7, <1>8 DEF NpmNext

\* A publication takes the tag back only past a state its job had not seen.
LEMMA NpmStepForward ==
  NpmInv /\ [NpmNext]_npmVars =>
    \A p \in flight :
      (p \notin flight' /\ history' # history /\ Older(Registry'.latest, Registry.latest))
         => p.seen # Registry
<1> SUFFICES ASSUME NpmInv, [NpmNext]_npmVars, NEW p \in flight, p \notin flight',
                    history' # history, Older(Registry'.latest, Registry.latest),
                    p.seen = Registry
             PROVE  FALSE
  OBVIOUS
<1>1. \E q \in flight : Land(q)
  BY DEF NpmNext, npmVars, StartJob, Fetch, Publish, NpmEnds, OwnerPublishes, Drop
<1>2. Land(p)
  <2>1. PICK q \in flight : Land(q)
    BY <1>1
  <2>2. flight' = flight \ {q}
    BY <2>1 DEF Land
  <2> QED
    BY <2>1, <2>2
<1>3. p.version \in Versions /\ p.bytes \in Bytes /\ Forward(p.version, p.tag, Registry)
  BY DEF NpmInv, FlightInv
<1>4. Registry' = Applied(Registry, p)
  <2>1. Accepts(p) /\ history' = Append(history, Applied(Registry, p)) /\ results' = results
    BY <1>2 DEF Land
  <2>2. Registry \in States
    BY RegistryFacts DEF NpmInv
  <2>3. /\ Applied(Registry, p) \in States
        /\ \A v \in Versions : Registry.held[v] # Absent
                                 => Applied(Registry, p).held[v] = Registry.held[v]
    BY <1>3, <2>1, <2>2, AppliedFacts DEF Accepts
  <2> QED
    BY <2>1, <2>3, HistoryGrows DEF NpmInv
<1>5. Registry'.latest = IF p.tag = "latest" THEN p.version ELSE Registry.latest
  BY <1>4 DEF Applied
<1>6. ~Older(Registry.latest, Registry.latest)
  <2> SUFFICES ASSUME NEW v, Older(v, v)
               PROVE  FALSE
    OBVIOUS
  <2>1. v \in Nat /\ v < v
    BY NpmAssumption DEF Older
  <2> QED
    BY <2>1
<1> QED
  BY <1>3, <1>5, <1>6 DEF Forward

(* A release job that reports completion is right, whatever the registry's *)
(* caches showed it, whatever npm said and whoever else published: its     *)
(* bytes are there under its version and the tag had moved that far.  And  *)
(* its own publication takes the tag back only from a state it had not     *)
(* seen (publishWithFallback, makeResult).                                 *)
THEOREM PublicationSound == NpmSpec => PublishSound
<1>1. NpmInv => \A k \in DOMAIN results : TrulyComplete(results[k])
  <2> SUFFICES ASSUME NpmInv, NEW k \in DOMAIN results
               PROVE  TrulyComplete(results[k])
    OBVIOUS
  <2>1. k \in 1..Len(results)
    BY DEF NpmInv, ResultsInv
  <2>2. ResultOK(results[k])
    BY <2>1 DEF NpmInv, ResultsInv
  <2> QED
    BY <2>2 DEF ResultOK, TrulyComplete
<1> QED
  BY <1>1, NpmInitInv, NpmStepInv, NpmStepForward, PTL
     DEF NpmSpec, PublishSound, LatestGoesBackOnlyUnseen

-----------------------------------------------------------------------------
(* Package creation. *)

Entries == [node : Nat, by : Creators \cup {"other"}, raced : BOOLEAN]
Directories == [node : Nat, entries : UNION {[D -> Entries] : D \in SUBSET Names}]
CreatorSteps == {"idle", "claim", "exists", "stat", "abandon", "write", "record", "inspect",
                 "unmark", "created", "cleanup", "check", "remove", "rmdir", "failed"}
CreatorStates == [pc : CreatorSteps, root : Nat \cup {Nothing},
                  owned : Seq([name : Names, node : Nat]), at : Nat, temp : BOOLEAN]

\* Where a creator is in its files and in what it remembers of them.
Progress(c, r) ==
  /\ r.pc \in {"idle", "claim", "stat", "exists"} => r.owned = <<>> /\ r.at = 1
  /\ r.pc \in {"write", "record"} => r.at \in 1..Len(Written(c))
  /\ r.pc \in {"inspect", "unmark", "cleanup"} => r.owned # <<>>
  /\ r.pc = "remove" => r.at \in 1..Len(r.owned)
  /\ r.pc = "check" => r.at \in 0..Len(r.owned)

\* An entry a creator may take for its own.
Fair(c, e) == e.by = c \/ e.raced

\* Whatever goes by an inode a creator remembers is its own; so is what it has
\* just written, and what it is about to remove still has the inode it checked.
\* Only an entry that came in that instant may be another's.
Ownership(c, r, t, n) ==
  /\ \A k \in 1..Len(r.owned) : r.owned[k].node <= n
  /\ t # Nothing =>
       /\ \A k \in 1..Len(r.owned) :
            r.owned[k].name \in DOMAIN t.entries
              /\ t.entries[r.owned[k].name].node = r.owned[k].node
            => Fair(c, t.entries[r.owned[k].name])
       /\ r.pc = "record" /\ Written(c)[r.at] \in DOMAIN t.entries
            => Fair(c, t.entries[Written(c)[r.at]])
       /\ r.pc = "remove" /\ r.owned[r.at].name \in DOMAIN t.entries
            => \/ t.entries[r.owned[r.at].name].node = r.owned[r.at].node
               \/ t.entries[r.owned[r.at].name].raced

\* Inodes are given out once.
Numbered(t, n) == t # Nothing => \A m \in DOMAIN t.entries : t.entries[m].node <= n

InitType ==
  /\ target \in Directories \cup {Nothing} /\ creator \in [Creators -> CreatorStates]
  /\ nodes \in Nat /\ intrusions \in Nat /\ broken \in BOOLEAN

SafeInv ==
  /\ InitType /\ Numbered(target, nodes)
  /\ \A c \in Creators : Progress(c, creator[c]) /\ Ownership(c, creator[c], target, nodes)
  /\ OthersSurviveCleanup

\* A creator that has made the directory and not taken it back.
Active(r) == r.pc \notin {"idle", "claim", "exists", "failed"}

OwnedNames(r, n) == {r.owned[k].name : k \in 1..n}
Matching(r, t, n) == \A k \in 1..n : t.entries[r.owned[k].name].node = r.owned[k].node

\* What the directory holds while nobody intrudes and no write breaks off.
Alone(c, r, t) ==
  /\ \A j, k \in 1..Len(r.owned) : r.owned[j].name = r.owned[k].name => j = k
  /\ r.pc \notin {"stat", "abandon"} => r.root = t.node
  /\ r.pc = "stat" => r.owned = <<>>
  /\ r.pc \in {"stat", "abandon", "rmdir"} => DOMAIN t.entries = {}
  /\ r.pc \in {"write", "inspect", "unmark", "cleanup"} =>
       DOMAIN t.entries = OwnedNames(r, Len(r.owned)) /\ Matching(r, t, Len(r.owned))
  /\ r.pc = "record" =>
       /\ DOMAIN t.entries = OwnedNames(r, Len(r.owned)) \cup {Written(c)[r.at]}
       /\ Written(c)[r.at] \notin OwnedNames(r, Len(r.owned))
       /\ Matching(r, t, Len(r.owned))
  /\ r.pc \in {"check", "remove"} =>
       DOMAIN t.entries = OwnedNames(r, r.at) /\ Matching(r, t, r.at)

Undisturbed ==
  /\ \A c \in Creators :
       Active(creator[c]) => target # Nothing /\ Alone(c, creator[c], target)
  /\ \A c, d \in Creators : Active(creator[c]) /\ Active(creator[d]) => c = d
  /\ target # Nothing => \E c \in Creators : Active(creator[c])

QuietInv == intrusions = 0 /\ ~broken => Undisturbed

PackageInitInv == SafeInv /\ QuietInv

LEMMA DirectoryParts ==
  ASSUME NEW t \in Directories
  PROVE  /\ t.node \in Nat /\ DOMAIN t.entries \in SUBSET Names
         /\ t.entries \in [DOMAIN t.entries -> Entries]
         /\ t = [node |-> t.node, entries |-> t.entries]
         /\ t # Nothing
<1>1. t.node \in Nat /\ t.entries \in UNION {[D -> Entries] : D \in SUBSET Names}
      /\ t = [node |-> t.node, entries |-> t.entries]
  BY DEF Directories
<1>2. PICK D \in SUBSET Names : t.entries \in [D -> Entries]
  BY <1>1
<1>3. Nothing \notin Directories
  BY InitAssumption DEF Directories, Entries
<1> QED
  BY <1>1, <1>2, <1>3

LEMMA DirectoryForm ==
  ASSUME NEW n \in Nat, NEW D \in SUBSET Names, NEW f \in [D -> Entries]
  PROVE  /\ [node |-> n, entries |-> f] \in Directories
         /\ [node |-> n, entries |-> f] # Nothing
<1>1. f \in UNION {[A -> Entries] : A \in SUBSET Names}
  OBVIOUS
<1>2. [node |-> n, entries |-> f] \in Directories
  BY <1>1 DEF Directories
<1> QED
  BY <1>2, DirectoryParts

\* A new entry takes the place of the one that had its name.
LEMMA WithFacts ==
  ASSUME NEW t \in Directories, NEW name \in Names, NEW e \in Entries
  PROVE  LET s == With(t, name, e) IN
         /\ s \in Directories /\ s.node = t.node
         /\ DOMAIN s.entries = DOMAIN t.entries \cup {name} /\ s.entries[name] = e
         /\ \A m \in DOMAIN t.entries : m # name => s.entries[m] = t.entries[m]
<1> DEFINE f == [m \in DOMAIN t.entries \cup {name} |-> IF m = name THEN e ELSE t.entries[m]]
           D == DOMAIN t.entries \cup {name}
<1>1. /\ t.node \in Nat /\ DOMAIN t.entries \in SUBSET Names
      /\ t.entries \in [DOMAIN t.entries -> Entries]
      /\ t = [node |-> t.node, entries |-> t.entries]
  BY DirectoryParts
<1>2. f \in [D -> Entries] /\ D \in SUBSET Names /\ DOMAIN f = D /\ f[name] = e
      /\ \A m \in DOMAIN t.entries : m # name => f[m] = t.entries[m]
  BY <1>1
<1>3. With(t, name, e) = [node |-> t.node, entries |-> f]
  BY <1>1 DEF With
<1> HIDE DEF f
<1>4. [node |-> t.node, entries |-> f] \in Directories
  BY <1>1, <1>2, DirectoryForm
<1> QED
  BY <1>2, <1>3, <1>4

LEMMA WithoutFacts ==
  ASSUME NEW t \in Directories, NEW name
  PROVE  LET s == Without(t, name) IN
         /\ s \in Directories /\ s.node = t.node
         /\ DOMAIN s.entries = DOMAIN t.entries \ {name}
         /\ \A m \in DOMAIN s.entries : s.entries[m] = t.entries[m]
<1> DEFINE f == [m \in DOMAIN t.entries \ {name} |-> t.entries[m]]
           D == DOMAIN t.entries \ {name}
<1>1. /\ t.node \in Nat /\ DOMAIN t.entries \in SUBSET Names
      /\ t.entries \in [DOMAIN t.entries -> Entries]
      /\ t = [node |-> t.node, entries |-> t.entries]
  BY DirectoryParts
<1>2. f \in [D -> Entries] /\ D \in SUBSET Names /\ DOMAIN f = D
      /\ \A m \in D : f[m] = t.entries[m]
  BY <1>1
<1>3. Without(t, name) = [node |-> t.node, entries |-> f]
  BY <1>1 DEF Without
<1> HIDE DEF f
<1>4. [node |-> t.node, entries |-> f] \in Directories
  BY <1>1, <1>2, DirectoryForm
<1> QED
  BY <1>2, <1>3, <1>4

LEMMA OwnedParts ==
  ASSUME NEW r \in CreatorStates
  PROVE  /\ r.owned \in Seq([name : Names, node : Nat]) /\ Len(r.owned) \in Nat
         /\ \A k \in 1..Len(r.owned) : r.owned[k].node \in Nat /\ r.owned[k].name \in Names
<1>1. r.owned \in Seq([name : Names, node : Nat])
  BY DEF CreatorStates
<1>2. \A k \in 1..Len(r.owned) : r.owned[k] \in [name : Names, node : Nat]
  BY <1>1, ElementOfSeq
<1> QED
  BY <1>1, <1>2

\* What comes into the directory while a creator looks away is known by its
\* inode, or by having come then.
LEMMA WithKeeps ==
  ASSUME NEW t \in Directories, NEW n \in Nat, Numbered(t, n), NEW name \in Names,
         NEW who \in Creators \cup {"other"}, NEW raced \in BOOLEAN,
         NEW c \in Creators, NEW r \in CreatorStates, Progress(c, r), Ownership(c, r, t, n),
         (r.pc = "record" /\ Written(c)[r.at] = name)
            \/ (r.pc = "remove" /\ r.owned[r.at].name = name) => raced
  PROVE  LET s == With(t, name, [node |-> n + 1, by |-> who, raced |-> raced]) IN
         Ownership(c, r, s, n + 1) /\ Numbered(s, n + 1)
<1> DEFINE e == [node |-> n + 1, by |-> who, raced |-> raced]
           s == With(t, name, e)
<1>1. e \in Entries /\ e.node = n + 1 /\ e.by = who /\ e.raced = raced
  BY DEF Entries
<1> HIDE DEF e
<1>2. /\ s \in Directories
      /\ DOMAIN s.entries = DOMAIN t.entries \cup {name} /\ s.entries[name] = e
      /\ \A m \in DOMAIN t.entries : m # name => s.entries[m] = t.entries[m]
  BY <1>1, WithFacts
<1>3. t # Nothing /\ t.entries \in [DOMAIN t.entries -> Entries]
  BY DirectoryParts
<1> HIDE DEF s
<1>4. \A m \in DOMAIN t.entries : t.entries[m].node \in Nat /\ t.entries[m].node <= n
  BY <1>3 DEF Numbered, Entries
<1>5. Numbered(s, n + 1)
  <2> SUFFICES ASSUME NEW m \in DOMAIN s.entries
               PROVE  s.entries[m].node <= n + 1
    BY DEF Numbered
  <2>1. CASE m = name
    BY <1>1, <1>2, <2>1
  <2>2. CASE m # name
    BY <1>2, <1>4, <2>2
  <2> QED
    BY <2>1, <2>2
<1>6. \A k \in 1..Len(r.owned) : r.owned[k].node \in Nat /\ r.owned[k].node <= n
  BY OwnedParts DEF Ownership
<1>7. ASSUME NEW k \in 1..Len(r.owned), r.owned[k].name \in DOMAIN s.entries,
             s.entries[r.owned[k].name].node = r.owned[k].node
      PROVE  Fair(c, s.entries[r.owned[k].name])
  <2>1. CASE r.owned[k].name = name
    BY <1>1, <1>2, <1>6, <1>7, <2>1
  <2>2. CASE r.owned[k].name # name
    BY <1>2, <1>3, <1>7, <2>2 DEF Ownership
  <2> QED
    BY <2>1, <2>2
<1>8. ASSUME r.pc = "record", Written(c)[r.at] \in DOMAIN s.entries
      PROVE  Fair(c, s.entries[Written(c)[r.at]])
  <2>1. CASE Written(c)[r.at] = name
    BY <1>1, <1>2, <1>8, <2>1 DEF Fair
  <2>2. CASE Written(c)[r.at] # name
    BY <1>2, <1>3, <1>8, <2>2 DEF Ownership
  <2> QED
    BY <2>1, <2>2
<1>9. ASSUME r.pc = "remove", r.owned[r.at].name \in DOMAIN s.entries
      PROVE  \/ s.entries[r.owned[r.at].name].node = r.owned[r.at].node
             \/ s.entries[r.owned[r.at].name].raced
  <2>1. CASE r.owned[r.at].name = name
    BY <1>1, <1>2, <1>9, <2>1
  <2>2. CASE r.owned[r.at].name # name
    BY <1>2, <1>3, <1>9, <2>2 DEF Ownership
  <2> QED
    BY <2>1, <2>2
<1>10. \A k \in 1..Len(r.owned) : r.owned[k].node <= n + 1
  BY <1>6
<1>11. Ownership(c, r, s, n + 1)
  BY <1>7, <1>8, <1>9, <1>10 DEF Ownership
<1> QED
  BY <1>5, <1>11 DEF s, e

LEMMA WithoutKeeps ==
  ASSUME NEW t \in Directories, NEW n \in Nat, Numbered(t, n), NEW name,
         NEW c \in Creators, NEW r, Ownership(c, r, t, n)
  PROVE  LET s == Without(t, name) IN Ownership(c, r, s, n) /\ Numbered(s, n)
<1> DEFINE s == Without(t, name)
<1>1. /\ s \in Directories /\ t # Nothing
      /\ DOMAIN s.entries = DOMAIN t.entries \ {name}
      /\ \A m \in DOMAIN s.entries : m \in DOMAIN t.entries /\ s.entries[m] = t.entries[m]
  BY WithoutFacts, DirectoryParts
<1> HIDE DEF s
<1>2. Numbered(s, n)
  BY <1>1 DEF Numbered
<1>3. Ownership(c, r, s, n)
  BY <1>1 DEF Ownership
<1> QED
  BY <1>2, <1>3 DEF s

\* What a step of one creator must show.
LEMMA CreatorStep ==
  ASSUME SafeInv, NEW c \in Creators, NEW r \in CreatorStates, Set(c, r), InitType',
         Numbered(target, nodes)', Progress(c, r), Ownership(c, r, target', nodes'),
         \A d \in Creators : d # c => Ownership(d, creator[d], target', nodes'),
         \A e \in lost' : e.raced
  PROVE  SafeInv'
<1>1. creator' = [creator EXCEPT ![c] = r] /\ creator \in [Creators -> CreatorStates]
  BY DEF Set, SafeInv, InitType
<1>2. creator'[c] = r /\ \A d \in Creators : d # c => creator'[d] = creator[d]
  BY <1>1
<1>3. ASSUME NEW d \in Creators
      PROVE  Progress(d, creator'[d]) /\ Ownership(d, creator'[d], target', nodes')
  <2>1. CASE d = c
    BY <1>2, <2>1
  <2>2. CASE d # c
    BY <1>2, <2>2 DEF SafeInv
  <2> QED
    BY <2>1, <2>2
<1>4. OthersSurviveCleanup'
  BY DEF OthersSurviveCleanup
<1> QED
  BY <1>3, <1>4 DEF SafeInv

\* A step that leaves the directory as it is.
LEMMA CreatorMoves ==
  ASSUME SafeInv, NEW c \in Creators, NEW r \in CreatorStates, Set(c, r), target' = target,
         nodes' = nodes, lost' = lost, intrusions' = intrusions, broken' \in BOOLEAN,
         Progress(c, r), Ownership(c, r, target, nodes)
  PROVE  SafeInv'
<1>1. creator' \in [Creators -> CreatorStates]
  BY DEF Set, SafeInv, InitType
<1>2. InitType' /\ Numbered(target, nodes)'
  BY <1>1 DEF SafeInv, InitType, Numbered
<1>3. /\ Ownership(c, r, target', nodes')
      /\ \A d \in Creators : d # c => Ownership(d, creator[d], target', nodes')
      /\ \A e \in lost' : e.raced
  BY DEF SafeInv, OthersSurviveCleanup
<1> QED
  BY <1>2, <1>3, CreatorStep

\* A step in which only the creator's place changes.
LEMMA CreatorGoes ==
  ASSUME SafeInv, NEW c \in Creators, NEW pc \in CreatorSteps \ {"record", "remove"},
         To(c, pc), target' = target, nodes' = nodes, lost' = lost, intrusions' = intrusions,
         broken' \in BOOLEAN, Progress(c, [creator[c] EXCEPT !.pc = pc])
  PROVE  SafeInv'
<1> DEFINE r == [creator[c] EXCEPT !.pc = pc]
<1>1. creator[c] \in CreatorStates /\ Ownership(c, creator[c], target, nodes)
  BY DEF SafeInv, InitType
<1>2. r \in CreatorStates /\ r.pc = pc /\ r.owned = creator[c].owned
  BY <1>1 DEF CreatorStates
<1>3. Set(c, r) /\ Progress(c, r)
  BY DEF To
<1> HIDE DEF r
<1>4. Ownership(c, r, target, nodes)
  BY <1>1, <1>2 DEF Ownership
<1> QED
  BY <1>2, <1>3, <1>4, CreatorMoves

\* The parts of a creator.
LEMMA CreatorParts ==
  ASSUME SafeInv, NEW c \in Creators
  PROVE  /\ creator[c] \in CreatorStates /\ creator[c].pc \in CreatorSteps
         /\ creator[c].owned \in Seq([name : Names, node : Nat])
         /\ creator[c].at \in Nat /\ Len(creator[c].owned) \in Nat
         /\ Progress(c, creator[c]) /\ Ownership(c, creator[c], target, nodes)
         /\ target \in Directories \cup {Nothing} /\ nodes \in Nat
         /\ intrusions \in Nat /\ broken \in BOOLEAN
         /\ creator \in [Creators -> CreatorStates] /\ DOMAIN creator = Creators
<1>1. creator[c] \in CreatorStates
  BY DEF SafeInv, InitType
<1>2. creator[c].owned \in Seq([name : Names, node : Nat]) /\ creator[c].pc \in CreatorSteps
      /\ creator[c].at \in Nat
  BY <1>1 DEF CreatorStates
<1> QED
  BY <1>1, <1>2 DEF SafeInv, InitType

\* Who remembers no entry, or as many as before, and is not about to touch one.
LEMMA OwnershipAtRest ==
  ASSUME NEW c, NEW r, NEW t, NEW n, r.pc \notin {"record", "remove"},
         r.owned = <<>> \/ \E q : r.owned = q.owned /\ Ownership(c, q, t, n)
  PROVE  Ownership(c, r, t, n)
<1>1. CASE r.owned = <<>>
  <2>1. ~\E k \in 1..Len(r.owned) : TRUE
    BY <1>1
  <2> QED
    BY <2>1 DEF Ownership
<1>2. ASSUME NEW q, r.owned = q.owned, Ownership(c, q, t, n)
      PROVE  Ownership(c, r, t, n)
  BY <1>2 DEF Ownership
<1> QED
  BY <1>1, <1>2

LEMMA PrepareSafe ==
  ASSUME SafeInv, NEW c \in Creators, Prepare(c)
  PROVE  SafeInv'
<1> USE CreatorParts
<1>1. creator[c].pc = "idle" /\ creator[c].owned = <<>> /\ creator[c].at = 1
  BY DEF Prepare, At, Progress
<1>2. CASE target # Nothing
  <2>1. To(c, "exists")
    BY <1>2 DEF Prepare
  <2>2. Progress(c, [creator[c] EXCEPT !.pc = "exists"])
    BY <1>1 DEF Progress, CreatorStates
  <2> QED
    BY <2>1, <2>2, CreatorGoes DEF Prepare, Quiet, CreatorSteps
<1>3. CASE target = Nothing
  <2> DEFINE r == [creator[c] EXCEPT !.pc = "claim", !.temp = TRUE]
  <2>1. r \in CreatorStates /\ r.owned = <<>> /\ r.at = 1 /\ r.pc = "claim"
    BY <1>1 DEF CreatorStates, CreatorSteps
  <2>2. Set(c, r)
    BY <1>3 DEF Prepare
  <2> HIDE DEF r
  <2>3. Progress(c, r) /\ Ownership(c, r, target, nodes)
    BY <1>3, <2>1 DEF Progress, Ownership
  <2> QED
    BY <2>1, <2>2, <2>3, CreatorMoves DEF Prepare, Quiet
<1> QED
  BY <1>2, <1>3

LEMMA ClaimSafe ==
  ASSUME SafeInv, NEW c \in Creators, ClaimTarget(c)
  PROVE  SafeInv'
<1> USE CreatorParts
<1>1. creator[c].pc = "claim" /\ creator[c].owned = <<>> /\ creator[c].at = 1
  BY DEF ClaimTarget, At, Progress
<1>2. CASE target # Nothing
  <2> DEFINE r == [creator[c] EXCEPT !.pc = "exists", !.temp = FALSE]
  <2>1. r \in CreatorStates /\ r.owned = <<>> /\ r.at = 1 /\ r.pc = "exists"
    BY <1>1 DEF CreatorStates, CreatorSteps
  <2>2. Set(c, r)
    BY <1>2 DEF ClaimTarget
  <2> HIDE DEF r
  <2>3. Progress(c, r) /\ Ownership(c, r, target, nodes)
    <3>1. Progress(c, r)
      BY <2>1 DEF Progress
    <3> QED
      BY <2>1, <3>1, OwnershipAtRest
  <2> QED
    BY <1>2, <2>1, <2>2, <2>3, CreatorMoves DEF ClaimTarget, Quiet
<1>3. CASE target = Nothing
  <2> DEFINE r == [creator[c] EXCEPT !.pc = "stat"]
             t == [node |-> nodes + 1, entries |-> <<>>]
  <2>1. r \in CreatorStates /\ r.owned = <<>> /\ r.at = 1 /\ r.pc = "stat"
    BY <1>1 DEF CreatorStates, CreatorSteps
  <2>2. Set(c, r) /\ target' = t /\ nodes' = nodes + 1
    BY <1>3 DEF ClaimTarget, To
  <2>3. DOMAIN t.entries = {} /\ t \in Directories
    <3>1. <<>> \in [{} -> Entries] /\ DOMAIN <<>> = {} /\ {} \in SUBSET Names
      OBVIOUS
    <3>2. nodes + 1 \in Nat
      OBVIOUS
    <3> QED
      BY <3>1, <3>2, DirectoryForm
  <2> HIDE DEF r, t
  <2>4. Progress(c, r) /\ Ownership(c, r, t, nodes + 1)
    <3>1. Progress(c, r)
      BY <2>1 DEF Progress
    <3> QED
      BY <2>1, <3>1, OwnershipAtRest
  <2>5. ASSUME NEW d \in Creators
        PROVE  Ownership(d, creator[d], t, nodes + 1)
    <3>1. /\ creator[d] \in CreatorStates /\ nodes \in Nat
          /\ \A k \in 1..Len(creator[d].owned) : /\ creator[d].owned[k].node \in Nat
                                                /\ creator[d].owned[k].node <= nodes
      BY OwnedParts DEF Ownership
    <3>2. \A k \in 1..Len(creator[d].owned) : creator[d].owned[k].node <= nodes + 1
      BY <3>1
    <3> QED
      BY <2>3, <3>2 DEF Ownership
  <2>6. creator' \in [Creators -> CreatorStates]
    BY <2>1, <2>2 DEF Set
  <2>7. InitType' /\ Numbered(target, nodes)'
    BY <2>2, <2>3, <2>6 DEF InitType, Numbered, ClaimTarget, Quiet
  <2>8. \A e \in lost' : e.raced
    BY DEF SafeInv, OthersSurviveCleanup, ClaimTarget, Quiet
  <2> QED
    BY <2>1, <2>2, <2>4, <2>5, <2>7, <2>8, CreatorStep
<1> QED
  BY <1>2, <1>3

\* What a creator writes: its marker, then the files of the package.
LEMMA WrittenParts ==
  ASSUME NEW c \in Creators
  PROVE  /\ Written(c) \in Seq(Names) /\ Len(Written(c)) \in Nat /\ Len(Written(c)) >= 1
         /\ \A k \in 1..Len(Written(c)) : Written(c)[k] \in Names
<1>1. PackageFiles \in Seq(Range(PackageFiles))
  BY InitAssumption DEF Range
<1>2. <<c>> \in Seq(Names) /\ PackageFiles \in Seq(Names) /\ Len(<<c>>) = 1
  BY <1>1 DEF Names
<1>3. /\ Written(c) \in Seq(Names) /\ Len(Written(c)) = 1 + Len(PackageFiles)
      /\ Len(PackageFiles) \in Nat
  BY <1>2, ConcatProperties DEF Written
<1> QED
  BY <1>3, ElementOfSeq

LEMMA StatSafe ==
  ASSUME SafeInv, NEW c \in Creators, StatTarget(c)
  PROVE  SafeInv'
<1> USE CreatorParts
<1>1. creator[c].pc = "stat" /\ creator[c].owned = <<>> /\ creator[c].at = 1
  BY DEF StatTarget, At, Progress
<1>2. CASE target = Nothing
  <2>1. To(c, "abandon")
    BY <1>2 DEF StatTarget
  <2>2. Progress(c, [creator[c] EXCEPT !.pc = "abandon"])
    BY <1>1 DEF Progress, CreatorStates
  <2> QED
    BY <2>1, <2>2, CreatorGoes DEF StatTarget, Quiet, CreatorSteps
<1>3. CASE target # Nothing
  <2> DEFINE r == [creator[c] EXCEPT !.pc = "write", !.root = target.node]
  <2>1. target.node \in Nat
    BY <1>3, DirectoryParts
  <2>2. r \in CreatorStates /\ r.owned = <<>> /\ r.at = 1 /\ r.pc = "write"
    BY <1>1, <2>1 DEF CreatorStates, CreatorSteps
  <2>3. Set(c, r)
    BY <1>3 DEF StatTarget
  <2>4. Len(Written(c)) \in Nat /\ Len(Written(c)) >= 1
    BY WrittenParts
  <2> HIDE DEF r
  <2>5. Progress(c, r) /\ Ownership(c, r, target, nodes)
    <3>1. Progress(c, r)
      BY <2>2, <2>4 DEF Progress
    <3> QED
      BY <2>2, <3>1, OwnershipAtRest
  <2> QED
    BY <2>2, <2>3, <2>5, CreatorMoves DEF StatTarget, Quiet
<1> QED
  BY <1>2, <1>3

\* A creator puts an entry of its own into the directory, and goes on to r.
LEMMA PutSafe ==
  ASSUME SafeInv, NEW c \in Creators, target # Nothing, creator[c].pc = "write",
         NEW pc \in CreatorSteps \ {"remove"}, To(c, pc),
         target' = PutEntry(Name(c), c), nodes' = nodes + 1, lost' = lost,
         intrusions' = intrusions, broken' \in BOOLEAN,
         Progress(c, [creator[c] EXCEPT !.pc = pc])
  PROVE  SafeInv'
<1> DEFINE q == creator[c]
           r == [creator[c] EXCEPT !.pc = pc]
           raced == Window(Name(c))
           e == [node |-> nodes + 1, by |-> c, raced |-> raced]
           t == With(target, Name(c), e)
<1>1. /\ q \in CreatorStates /\ Progress(c, q) /\ Ownership(c, q, target, nodes)
      /\ target \in Directories /\ nodes \in Nat /\ creator \in [Creators -> CreatorStates]
      /\ q.at \in 1..Len(Written(c)) /\ q.pc = "write"
  BY CreatorParts DEF Progress
<1>2. /\ r \in CreatorStates /\ r.pc = pc /\ r.owned = q.owned /\ r.at = q.at
      /\ Set(c, r) /\ Progress(c, r)
  BY <1>1 DEF CreatorStates, To
<1>3. Name(c) = Written(c)[q.at] /\ Name(c) \in Names
  BY <1>1, WrittenParts DEF Name
<1>4. raced \in BOOLEAN /\ target' = t
  BY DEF Window, PutEntry
<1>5. e \in Entries /\ e.by = c
  BY <1>1, <1>4 DEF Entries
<1>6. /\ t \in Directories /\ t # Nothing /\ t.entries[Name(c)] = e
  BY <1>1, <1>3, <1>5, WithFacts, DirectoryParts
<1>7. \A d \in Creators : Ownership(d, creator[d], t, nodes + 1)
  <2> SUFFICES ASSUME NEW d \in Creators
               PROVE  Ownership(d, creator[d], t, nodes + 1)
    OBVIOUS
  <2>1. creator[d] \in CreatorStates /\ Progress(d, creator[d])
        /\ Ownership(d, creator[d], target, nodes)
    BY CreatorParts
  <2>2. (creator[d].pc = "record" /\ Written(d)[creator[d].at] = Name(c))
          \/ (creator[d].pc = "remove" /\ creator[d].owned[creator[d].at].name = Name(c))
        => raced
    BY DEF Window, At, Name
  <2>3. Numbered(target, nodes)
    BY DEF SafeInv
  <2> HIDE DEF raced
  <2> QED
    BY <1>1, <1>3, <1>4, <2>1, <2>2, <2>3, WithKeeps
<1>8. Numbered(t, nodes + 1)
  <2>1. (creator[c].pc = "record" /\ Written(c)[creator[c].at] = Name(c))
          \/ (creator[c].pc = "remove" /\ creator[c].owned[creator[c].at].name = Name(c))
        => raced
    BY <1>1
  <2>2. Numbered(target, nodes)
    BY DEF SafeInv
  <2> HIDE DEF raced
  <2> QED
    BY <1>1, <1>3, <1>4, <2>1, <2>2, WithKeeps
<1> HIDE DEF e, t
<1>9. Ownership(c, r, t, nodes + 1)
  <2>1. Ownership(c, q, t, nodes + 1)
    BY <1>7
  <2> HIDE DEF r
  <2>2. /\ \A k \in 1..Len(r.owned) : r.owned[k].node <= nodes + 1
        /\ \A k \in 1..Len(r.owned) :
             r.owned[k].name \in DOMAIN t.entries
               /\ t.entries[r.owned[k].name].node = r.owned[k].node
             => Fair(c, t.entries[r.owned[k].name])
    BY <1>2, <1>6, <2>1 DEF Ownership
  <2>3. Fair(c, t.entries[Written(c)[r.at]])
    BY <1>2, <1>3, <1>5, <1>6 DEF Fair
  <2>4. r.pc # "remove"
    BY <1>2
  <2> QED
    BY <2>2, <2>3, <2>4 DEF Ownership
<1>10. InitType' /\ Numbered(target, nodes)'
  <2>1. creator' \in [Creators -> CreatorStates]
    BY <1>1, <1>2 DEF Set
  <2> HIDE DEF r
  <2> QED
    BY <1>1, <1>4, <1>6, <1>8, <2>1 DEF SafeInv, InitType, Numbered
<1>11. \A x \in lost' : x.raced
  BY DEF SafeInv, OthersSurviveCleanup
<1> HIDE DEF r
<1> QED
  BY <1>2, <1>4, <1>7, <1>9, <1>10, <1>11, CreatorStep

LEMMA WriteSafe ==
  ASSUME SafeInv, NEW c \in Creators, WriteEntry(c)
  PROVE  SafeInv'
<1>1. creator[c].pc = "write" /\ creator[c].at \in 1..Len(Written(c))
      /\ creator[c] \in CreatorStates /\ broken \in BOOLEAN
  BY CreatorParts DEF WriteEntry, At, Progress
<1>2. CASE target = Nothing \/ Name(c) \in EntryNames
  <2>1. To(c, Broken(c)) /\ target' = target /\ nodes' = nodes
    BY <1>2 DEF WriteEntry
  <2>2. Broken(c) \in {"abandon", "cleanup"}
        /\ (Broken(c) = "cleanup" => creator[c].owned # <<>>)
    BY DEF Broken
  <2>3. Progress(c, [creator[c] EXCEPT !.pc = Broken(c)])
    BY <1>1, <2>2 DEF Progress, CreatorStates
  <2> QED
    BY <1>1, <2>1, <2>2, <2>3, CreatorGoes DEF WriteEntry, Quiet, CreatorSteps
<1>3. CASE target # Nothing /\ Name(c) \notin EntryNames
  <2>1. To(c, "record") /\ target' = PutEntry(Name(c), c) /\ nodes' = nodes + 1
    BY <1>3 DEF WriteEntry
  <2>2. Progress(c, [creator[c] EXCEPT !.pc = "record"])
    BY <1>1 DEF Progress, CreatorStates
  <2> QED
    BY <1>1, <1>3, <2>1, <2>2, PutSafe DEF WriteEntry, Quiet, CreatorSteps
<1> QED
  BY <1>2, <1>3

LEMMA RecordSafe ==
  ASSUME SafeInv, NEW c \in Creators, RecordEntry(c)
  PROVE  SafeInv'
<1> DEFINE q == creator[c]
<1>1. /\ q \in CreatorStates /\ Progress(c, q) /\ Ownership(c, q, target, nodes)
      /\ target \in Directories \cup {Nothing} /\ nodes \in Nat
      /\ q.pc = "record" /\ q.at \in 1..Len(Written(c)) /\ q.at \in Nat
      /\ Numbered(target, nodes) /\ broken \in BOOLEAN
  BY CreatorParts DEF RecordEntry, At, Progress, SafeInv
<1>2. target' = target /\ nodes' = nodes /\ lost' = lost /\ intrusions' = intrusions
      /\ broken' = broken
  BY DEF RecordEntry, Quiet
<1>3. CASE Name(c) \notin EntryNames
  <2>1. To(c, Broken(c))
    BY <1>3 DEF RecordEntry
  <2>2. Broken(c) \in {"abandon", "cleanup"}
        /\ (Broken(c) = "cleanup" => creator[c].owned # <<>>)
    BY DEF Broken
  <2>3. Progress(c, [creator[c] EXCEPT !.pc = Broken(c)])
    BY <1>1, <2>2 DEF Progress, CreatorStates
  <2> QED
    BY <1>1, <1>2, <2>1, <2>2, <2>3, CreatorGoes DEF CreatorSteps
<1>4. CASE Name(c) \in EntryNames
  <2> DEFINE node == target.entries[Name(c)].node
             o == [name |-> Name(c), node |-> node]
             pc == IF q.at = Len(Written(c)) THEN "inspect" ELSE "write"
             r == [q EXCEPT !.owned = Append(@, o), !.at = @ + 1, !.pc = pc]
             n == Len(q.owned)
  <2>1. Set(c, r)
    BY <1>4 DEF RecordEntry
  <2>2. target \in Directories /\ target # Nothing /\ Name(c) \in DOMAIN target.entries
    BY <1>1, <1>4 DEF EntryNames
  <2>3. Name(c) = Written(c)[q.at] /\ Name(c) \in Names /\ Len(Written(c)) \in Nat
    BY <1>1, WrittenParts DEF Name
  <2>4. node \in Nat /\ node <= nodes
    <3>1. target.entries[Name(c)] \in Entries
      BY <2>2, DirectoryParts
    <3> QED
      BY <1>1, <2>2, <3>1 DEF Entries, Numbered
  <2>5. o \in [name : Names, node : Nat] /\ o.name = Name(c) /\ o.node = node
    BY <2>3, <2>4
  <2>6. Fair(c, target.entries[Name(c)])
    BY <1>1, <2>2, <2>3 DEF Ownership
  <2> HIDE DEF node, o
  <2>7. /\ q.owned \in Seq([name : Names, node : Nat]) /\ n \in Nat
        /\ Append(q.owned, o) \in Seq([name : Names, node : Nat])
        /\ Len(Append(q.owned, o)) = n + 1 /\ Append(q.owned, o)[n + 1] = o
        /\ \A k \in 1..n : Append(q.owned, o)[k] = q.owned[k]
    <3>1. q.owned \in Seq([name : Names, node : Nat]) /\ n \in Nat
      BY <1>1, OwnedParts
    <3> HIDE DEF q
    <3> QED
      BY <2>5, <3>1, AppendProperties
  <2>8. pc \in {"inspect", "write"} /\ (pc = "write" => q.at # Len(Written(c)))
    OBVIOUS
  <2> HIDE DEF pc, q, n
  <2>9. /\ r \in CreatorStates /\ r.owned = Append(q.owned, o) /\ r.at = q.at + 1 /\ r.pc = pc
    <3> DEFINE own == Append(q.owned, o)
    <3>1. own \in Seq([name : Names, node : Nat]) /\ q.at + 1 \in Nat
          /\ pc \in CreatorSteps
      BY <1>1, <2>7, <2>8 DEF CreatorSteps
    <3>2. r = [q EXCEPT !.owned = own, !.at = q.at + 1, !.pc = pc]
      OBVIOUS
    <3> HIDE DEF own, r
    <3>3. r \in CreatorStates /\ r.owned = own /\ r.at = q.at + 1 /\ r.pc = pc
      BY <1>1, <3>1, <3>2 DEF CreatorStates
    <3> QED
      BY <3>3 DEF own
  <2> HIDE DEF r
  <2>10. Progress(c, r)
    <3>1. r.owned # <<>>
      BY <2>7, <2>9
    <3>2. r.pc = "write" => r.at \in 1..Len(Written(c))
      BY <1>1, <2>3, <2>9, <2>8
    <3> QED
      BY <2>9, <2>8, <3>1, <3>2 DEF Progress
  <2>11. ASSUME NEW k \in 1..Len(r.owned)
         PROVE  /\ r.owned[k].node <= nodes
                /\ r.owned[k].name \in DOMAIN target.entries
                     /\ target.entries[r.owned[k].name].node = r.owned[k].node
                   => Fair(c, target.entries[r.owned[k].name])
    <3>1. CASE k = n + 1
      BY <2>4, <2>5, <2>6, <2>7, <2>9, <3>1
    <3>2. CASE k \in 1..n
      BY <1>1, <2>2, <2>7, <2>9, <3>2 DEF Ownership, n
    <3> QED
      BY <2>7, <2>9, <3>1, <3>2
  <2>12. Ownership(c, r, target, nodes)
    BY <2>9, <2>8, <2>11 DEF Ownership
  <2> QED
    BY <1>1, <1>2, <2>1, <2>9, <2>10, <2>12, CreatorMoves
<1> QED
  BY <1>3, <1>4

LEMMA InspectSafe ==
  ASSUME SafeInv, NEW c \in Creators, InspectTarget(c)
  PROVE  SafeInv'
<1>1. /\ creator[c] \in CreatorStates /\ creator[c].pc = "inspect" /\ creator[c].owned # <<>>
      /\ broken \in BOOLEAN
  BY CreatorParts DEF InspectTarget, At, Progress
<1>2. PICK pc \in {"unmark", "cleanup"} : To(c, pc)
  BY DEF InspectTarget
<1>3. Progress(c, [creator[c] EXCEPT !.pc = pc])
  BY <1>1, <1>2 DEF Progress, CreatorStates
<1> QED
  BY <1>1, <1>2, <1>3, CreatorGoes DEF InspectTarget, Quiet, CreatorSteps

LEMMA BeginsSafe ==
  ASSUME SafeInv, NEW c \in Creators, CleanupBegins(c)
  PROVE  SafeInv'
<1> DEFINE q == creator[c]
<1>1. /\ q \in CreatorStates /\ Ownership(c, q, target, nodes) /\ Len(q.owned) \in Nat
      /\ broken \in BOOLEAN
  BY CreatorParts
<1>2. PICK r \in CreatorStates : /\ Set(c, r) /\ r.owned = q.owned
                                 /\ \/ r.pc = "check" /\ r.at = Len(q.owned)
                                    \/ r.pc = "failed"
  <2>1. CASE Set(c, [q EXCEPT !.pc = "check", !.at = Len(q.owned)])
    <3> DEFINE r == [q EXCEPT !.pc = "check", !.at = Len(q.owned)]
    <3>1. r \in CreatorStates /\ r.owned = q.owned /\ r.pc = "check" /\ r.at = Len(q.owned)
      BY <1>1 DEF CreatorStates, CreatorSteps
    <3> HIDE DEF q
    <3> QED
      BY <2>1, <3>1
  <2>2. CASE Failed(c)
    <3> DEFINE r == [q EXCEPT !.pc = "failed", !.temp = FALSE]
    <3>1. r \in CreatorStates /\ r.owned = q.owned /\ r.pc = "failed"
      BY <1>1 DEF CreatorStates, CreatorSteps
    <3>2. Set(c, r)
      BY <2>2 DEF Failed
    <3> HIDE DEF r
    <3> QED
      BY <3>1, <3>2
  <2> QED
    BY <2>1, <2>2 DEF CleanupBegins
<1>3. Progress(c, r)
  BY <1>1, <1>2 DEF Progress
<1>4. Ownership(c, r, target, nodes)
  BY <1>1, <1>2, OwnershipAtRest
<1> QED
  BY <1>1, <1>2, <1>3, <1>4, CreatorMoves DEF CleanupBegins, Quiet

LEMMA ChecksSafe ==
  ASSUME SafeInv, NEW c \in Creators, CleanupChecks(c)
  PROVE  SafeInv'
<1> DEFINE q == creator[c]
<1>1. /\ q \in CreatorStates /\ Ownership(c, q, target, nodes) /\ Len(q.owned) \in Nat
      /\ q.at \in 0..Len(q.owned) /\ q.pc = "check" /\ broken \in BOOLEAN
  BY CreatorParts DEF CleanupChecks, At, Progress
<1>2. CASE Set(c, [q EXCEPT !.pc = "rmdir"])
  <2> DEFINE r == [q EXCEPT !.pc = "rmdir"]
  <2>1. r \in CreatorStates /\ r.owned = q.owned /\ r.pc = "rmdir"
    BY <1>1 DEF CreatorStates, CreatorSteps
  <2> HIDE DEF r
  <2>2. Progress(c, r) /\ Ownership(c, r, target, nodes)
    BY <1>1, <2>1 DEF Progress, Ownership
  <2> QED
    BY <1>1, <1>2, <2>1, <2>2, CreatorMoves DEF CleanupChecks, Quiet, r
<1>3. CASE q.at # 0 /\ SameOwned(q.owned[q.at]) /\ Set(c, [q EXCEPT !.pc = "remove"])
  <2> DEFINE r == [q EXCEPT !.pc = "remove"]
  <2>1. r \in CreatorStates /\ r.owned = q.owned /\ r.pc = "remove" /\ r.at = q.at
    BY <1>1 DEF CreatorStates, CreatorSteps
  <2>2. Set(c, r)
    BY <1>3
  <2>3. target.entries[q.owned[q.at].name].node = q.owned[q.at].node
    BY <1>3 DEF SameOwned
  <2> HIDE DEF r, q
  <2>4. Progress(c, r) /\ Ownership(c, r, target, nodes)
    BY <1>1, <1>3, <2>1, <2>3 DEF Progress, Ownership
  <2> QED
    BY <1>1, <2>1, <2>2, <2>4, CreatorMoves DEF CleanupChecks, Quiet
<1>4. CASE q.at # 0 /\ Set(c, [q EXCEPT !.at = @ - 1])
  <2> DEFINE r == [q EXCEPT !.at = @ - 1]
  <2>1. q.at - 1 \in Nat /\ q.at - 1 \in 0..Len(q.owned)
    BY <1>1, <1>4
  <2>2. r \in CreatorStates /\ r.owned = q.owned /\ r.pc = "check" /\ r.at = q.at - 1
    BY <1>1, <2>1 DEF CreatorStates
  <2>3. Set(c, r)
    BY <1>4
  <2> HIDE DEF r, q
  <2>4. Progress(c, r) /\ Ownership(c, r, target, nodes)
    BY <1>1, <2>1, <2>2 DEF Progress, Ownership
  <2> QED
    BY <1>1, <2>2, <2>3, <2>4, CreatorMoves DEF CleanupChecks, Quiet
<1> QED
  BY <1>2, <1>3, <1>4 DEF CleanupChecks

\* A creator takes an entry out of the directory.
LEMMA TakeSafe ==
  ASSUME SafeInv, NEW c \in Creators, NEW r \in CreatorStates, Set(c, r), target # Nothing,
         NEW name, target' = Without(target, name), nodes' = nodes, intrusions' = intrusions,
         broken' = broken, \A e \in lost' : e.raced, Progress(c, r),
         r.pc \notin {"record", "remove"}, r.owned = creator[c].owned
  PROVE  SafeInv'
<1> DEFINE t == Without(target, name)
<1>1. /\ target \in Directories /\ nodes \in Nat /\ Numbered(target, nodes)
      /\ creator \in [Creators -> CreatorStates]
  BY CreatorParts DEF SafeInv
<1>2. \A d \in Creators : Ownership(d, creator[d], t, nodes)
  BY <1>1, CreatorParts, WithoutKeeps
<1>3. Numbered(t, nodes)
  BY <1>1, CreatorParts, WithoutKeeps
<1>4. t \in Directories
  BY <1>1, WithoutFacts
<1> HIDE DEF t
<1>5. Ownership(c, r, t, nodes)
  BY <1>2 DEF Ownership
<1>6. InitType'
  <2>1. creator' \in [Creators -> CreatorStates]
    BY <1>1 DEF Set
  <2> QED
    BY <1>4, <2>1 DEF SafeInv, InitType, t
<1>7. target' = t
  BY DEF t
<1> QED
  BY <1>2, <1>3, <1>5, <1>6, <1>7, CreatorStep

\* A creator takes the directory away, or leaves it.
LEMMA GoneSafe ==
  ASSUME SafeInv, NEW c \in Creators, Failed(c), target' \in {target, Nothing},
         nodes' = nodes, Quiet
  PROVE  SafeInv'
<1> DEFINE q == creator[c]
           r == [q EXCEPT !.pc = "failed", !.temp = FALSE]
<1>1. /\ q \in CreatorStates /\ creator \in [Creators -> CreatorStates]
      /\ Ownership(c, q, target, nodes)
  BY CreatorParts
<1>2. r \in CreatorStates /\ r.owned = q.owned /\ r.pc = "failed"
  BY <1>1 DEF CreatorStates, CreatorSteps
<1>3. Set(c, r)
  BY DEF Failed
<1> HIDE DEF r
<1>4. Progress(c, r) /\ Ownership(c, r, target', nodes')
  BY <1>1, <1>2 DEF Progress, Ownership
<1>5. \A d \in Creators : Ownership(d, creator[d], target', nodes')
  BY DEF SafeInv, Ownership
<1>6. InitType' /\ Numbered(target, nodes)'
  <2>1. creator' \in [Creators -> CreatorStates]
    BY <1>1, <1>2, <1>3 DEF Set
  <2> QED
    BY <2>1 DEF SafeInv, InitType, Numbered, Quiet
<1>7. \A e \in lost' : e.raced
  BY DEF SafeInv, OthersSurviveCleanup, Quiet
<1> QED
  BY <1>2, <1>3, <1>4, <1>5, <1>6, <1>7, CreatorStep

LEMMA UnmarkSafe ==
  ASSUME SafeInv, NEW c \in Creators, RemoveMarker(c)
  PROVE  SafeInv'
<1> DEFINE q == creator[c]
<1>1. q \in CreatorStates /\ q.pc = "unmark" /\ q.owned # <<>> /\ broken \in BOOLEAN
  BY CreatorParts DEF RemoveMarker, At, Progress
<1>2. CASE c \in EntryNames
  <2> DEFINE r == [q EXCEPT !.pc = "created", !.temp = FALSE]
  <2>1. r \in CreatorStates /\ r.owned = q.owned /\ r.pc = "created"
    BY <1>1 DEF CreatorStates, CreatorSteps
  <2>2. Set(c, r) /\ target' = Without(target, c) /\ target # Nothing
    BY <1>2 DEF RemoveMarker, EntryNames
  <2> HIDE DEF r
  <2>3. Progress(c, r)
    BY <2>1 DEF Progress
  <2> QED
    BY <2>1, <2>2, <2>3, TakeSafe DEF RemoveMarker, Quiet, SafeInv, OthersSurviveCleanup
<1>3. CASE c \notin EntryNames
  <2>1. To(c, "cleanup") /\ target' = target
    BY <1>3 DEF RemoveMarker
  <2>2. Progress(c, [creator[c] EXCEPT !.pc = "cleanup"])
    BY <1>1 DEF Progress, CreatorStates
  <2> QED
    BY <1>1, <2>1, <2>2, CreatorGoes DEF RemoveMarker, Quiet, CreatorSteps
<1> QED
  BY <1>2, <1>3

LEMMA RemovesSafe ==
  ASSUME SafeInv, NEW c \in Creators, CleanupRemoves(c)
  PROVE  SafeInv'
<1> DEFINE q == creator[c]
           o == q.owned[q.at]
           r == [q EXCEPT !.pc = "check", !.at = @ - 1]
<1>1. /\ q \in CreatorStates /\ Ownership(c, q, target, nodes) /\ Len(q.owned) \in Nat
      /\ q.at \in 1..Len(q.owned) /\ q.pc = "remove" /\ broken \in BOOLEAN
  BY CreatorParts DEF CleanupRemoves, At, Progress
<1>2. q.at - 1 \in Nat /\ q.at - 1 \in 0..Len(q.owned)
  BY <1>1
<1>3. r \in CreatorStates /\ r.owned = q.owned /\ r.pc = "check" /\ r.at = q.at - 1
  BY <1>1, <1>2 DEF CreatorStates, CreatorSteps
<1>4. Set(c, r)
  BY DEF CleanupRemoves
<1> HIDE DEF r
<1>5. Progress(c, r) /\ Ownership(c, r, target, nodes)
  BY <1>1, <1>2, <1>3 DEF Progress, Ownership
<1>6. CASE o.name \in EntryNames
  <2>1. /\ target' = Without(target, o.name) /\ target # Nothing
        /\ lost' = lost \cup {e \in {target.entries[o.name]} : e.by # c}
    BY <1>6 DEF CleanupRemoves, EntryNames
  <2>2. Fair(c, target.entries[o.name])
    BY <1>1, <1>6 DEF Ownership, EntryNames, Fair
  <2>3. \A e \in lost' : e.raced
    BY <2>1, <2>2 DEF Fair, SafeInv, OthersSurviveCleanup
  <2> QED
    BY <1>3, <1>4, <1>5, <2>1, <2>3, TakeSafe DEF CleanupRemoves
<1>7. CASE o.name \notin EntryNames
  <2>1. target' = target /\ lost' = lost
    BY <1>7 DEF CleanupRemoves
  <2> QED
    BY <1>1, <1>3, <1>4, <1>5, <2>1, CreatorMoves DEF CleanupRemoves
<1> QED
  BY <1>6, <1>7

LEMMA FaultSafe ==
  ASSUME SafeInv, NEW c \in Creators, Fault(c)
  PROVE  SafeInv'
<1>1. /\ creator[c] \in CreatorStates /\ To(c, Broken(c)) /\ broken' \in BOOLEAN
      /\ intrusions' = intrusions /\ lost' = lost
  BY CreatorParts DEF Fault
<1>2. Broken(c) \in {"abandon", "cleanup"}
      /\ (Broken(c) = "cleanup" => creator[c].owned # <<>>)
  BY DEF Broken
<1>3. Progress(c, [creator[c] EXCEPT !.pc = Broken(c)])
  BY <1>1, <1>2 DEF Progress, CreatorStates
<1>4. CASE target' = target /\ nodes' = nodes
  BY <1>1, <1>2, <1>3, <1>4, CreatorGoes DEF CreatorSteps
<1>5. CASE /\ At(c, "write") /\ target # Nothing
           /\ target' = PutEntry(Name(c), c) /\ nodes' = nodes + 1
  BY <1>1, <1>2, <1>3, <1>5, PutSafe DEF CreatorSteps, At
<1> QED
  BY <1>4, <1>5 DEF Fault

LEMMA IntrudeSafe ==
  ASSUME SafeInv, Intrude
  PROVE  SafeInv'
<1>1. /\ target \in Directories \cup {Nothing} /\ nodes \in Nat /\ nodes + 1 \in Nat
      /\ Numbered(target, nodes) /\ creator \in [Creators -> CreatorStates]
      /\ \A c \in Creators : /\ creator[c] \in CreatorStates /\ Progress(c, creator[c])
                             /\ Ownership(c, creator[c], target, nodes)
  BY DEF SafeInv, InitType
<1> DEFINE Others(t) == /\ t \in Directories \cup {Nothing} /\ Numbered(t, nodes + 1)
                        /\ \A c \in Creators : Ownership(c, creator[c], t, nodes + 1)
<1>2. \A name : Window(name) \in BOOLEAN
  BY DEF Window
<1>3. ASSUME NEW name \in Names, target # Nothing, target' = PutEntry(name, "other")
      PROVE  Others(target')
  <2> DEFINE raced == Window(name)
             t == With(target, name, [node |-> nodes + 1, by |-> "other", raced |-> raced])
  <2>1. target' = t /\ raced \in BOOLEAN /\ target \in Directories
    BY <1>1, <1>2, <1>3 DEF PutEntry
  <2>2. [node |-> nodes + 1, by |-> "other", raced |-> raced] \in Entries
    BY <1>1, <2>1 DEF Entries
  <2>3. t \in Directories /\ t.entries[name] = [node |-> nodes + 1, by |-> "other",
                                                 raced |-> raced]
        /\ DOMAIN t.entries = DOMAIN target.entries \cup {name}
        /\ \A m \in DOMAIN target.entries : m # name => t.entries[m] = target.entries[m]
    BY <2>1, <2>2, WithFacts
  <2>4. ASSUME NEW c \in Creators
        PROVE  Ownership(c, creator[c], t, nodes + 1)
    <3>1. (creator[c].pc = "record" /\ Written(c)[creator[c].at] = name)
            \/ (creator[c].pc = "remove" /\ creator[c].owned[creator[c].at].name = name)
          => raced
      BY DEF Window, At, Name
    <3> HIDE DEF raced
    <3> QED
      BY <1>1, <2>1, <3>1, WithKeeps
  <2>5. Numbered(t, nodes + 1)
    <3>1. \A m \in DOMAIN target.entries : target.entries[m].node \in Nat
                                           /\ target.entries[m].node <= nodes
      BY <1>1, <1>3, <2>1, DirectoryParts DEF Numbered, Entries
    <3> HIDE DEF t, raced
    <3>2. \A m \in DOMAIN t.entries : t.entries[m].node <= nodes + 1
      BY <1>1, <2>3, <3>1
    <3> QED
      BY <3>2 DEF Numbered
  <2> HIDE DEF t, raced
  <2> QED
    BY <2>1, <2>3, <2>4, <2>5
<1>4. Others(Nothing)
  <2>1. ASSUME NEW c \in Creators, NEW k \in 1..Len(creator[c].owned)
        PROVE  creator[c].owned[k].node <= nodes + 1
    <3>1. /\ creator[c].owned[k].node \in Nat
          /\ creator[c].owned[k].node <= nodes
      BY <1>1, OwnedParts DEF Ownership
    <3> QED
      BY <1>1, <3>1
  <2>2. \A c \in Creators : Ownership(c, creator[c], Nothing, nodes + 1)
    BY <2>1 DEF Ownership
  <2>3. Numbered(Nothing, nodes + 1)
    BY DEF Numbered
  <2> QED
    BY <2>2, <2>3
<1>5. ASSUME NEW name \in Names,
             target' = [node |-> nodes + 1,
                        entries |-> [m \in {name} |-> [node |-> nodes + 1, by |-> "other",
                                                       raced |-> Window(name)]]]
      PROVE  Others(target')
  <2> DEFINE raced == Window(name)
             e == [node |-> nodes + 1, by |-> "other", raced |-> raced]
             f == [m \in {name} |-> e]
             t == [node |-> nodes + 1, entries |-> f]
  <2>1. e \in Entries /\ e.node = nodes + 1 /\ e.by = "other" /\ e.raced = raced
    BY <1>1, <1>2 DEF Entries
  <2>2. f \in [{name} -> Entries] /\ {name} \in SUBSET Names /\ f[name] = e
    BY <2>1
  <2>3. t \in Directories
    <3> HIDE DEF f
    <3> QED
      BY <1>1, <2>2, DirectoryForm
  <2>4. t.entries[name] = e /\ DOMAIN t.entries = {name}
    BY <2>2
  <2>5. target' = t
    BY <1>5
  <2> HIDE DEF f, t, e
  <2>6. Numbered(t, nodes + 1)
    BY <1>1, <2>1, <2>4 DEF Numbered
  <2>7. ASSUME NEW c \in Creators
        PROVE  Ownership(c, creator[c], t, nodes + 1)
    <3> DEFINE q == creator[c]
    <3>1. \A k \in 1..Len(q.owned) : q.owned[k].node \in Nat /\ q.owned[k].node <= nodes
      BY <1>1, OwnedParts DEF Ownership
    <3>2. \A k \in 1..Len(q.owned) : q.owned[k].node <= nodes + 1 /\ q.owned[k].node # nodes + 1
      BY <1>1, <3>1
    <3>3. (q.pc = "record" /\ Written(c)[q.at] = name)
            \/ (q.pc = "remove" /\ q.owned[q.at].name = name) => raced
      BY DEF Window, At, Name
    <3> HIDE DEF raced, q
    <3> QED
      BY <2>1, <2>4, <3>2, <3>3 DEF Ownership, Fair, q
  <2> QED
    BY <2>3, <2>5, <2>6, <2>7
<1>6. Others(target')
  <2> HIDE DEF Others
  <2>1. CASE target # Nothing /\ \E name \in Names : target' = PutEntry(name, "other")
    BY <1>3, <2>1
  <2>2. CASE target' = Nothing
    BY <1>4, <2>2
  <2>3. ASSUME NEW name \in Names \ Range(PackageFiles),
               target' = [node |-> nodes + 1,
                          entries |-> [m \in {name} |-> [node |-> nodes + 1, by |-> "other",
                                                         raced |-> Window(name)]]]
        PROVE  Others(target')
    BY <1>5, <2>3
  <2> QED
    BY <2>1, <2>2, <2>3 DEF Intrude
<1>7. /\ nodes' = nodes + 1 /\ creator' = creator /\ lost' = lost /\ broken' = broken
      /\ intrusions' = intrusions + 1
  BY DEF Intrude
<1>8. InitType' /\ Numbered(target, nodes)'
  BY <1>1, <1>6, <1>7 DEF SafeInv, InitType
<1>9. OthersSurviveCleanup'
  BY <1>7 DEF SafeInv, OthersSurviveCleanup
<1>10. \A c \in Creators : Progress(c, creator'[c]) /\ Ownership(c, creator'[c], target', nodes')
  BY <1>1, <1>6, <1>7
<1> QED
  BY <1>8, <1>9, <1>10 DEF SafeInv

LEMMA SafeStep == SafeInv /\ [PackageInitNext]_initVars => SafeInv'
<1> SUFFICES ASSUME SafeInv, [PackageInitNext]_initVars
             PROVE  SafeInv'
  OBVIOUS
<1>1. ASSUME NEW c \in Creators, CleanupRmdir(c) \/ Abandon(c)
      PROVE  SafeInv'
  <2>1. Failed(c) /\ target' \in {target, Nothing} /\ nodes' = nodes /\ Quiet
    BY <1>1 DEF CleanupRmdir, Abandon
  <2> QED
    BY <2>1, GoneSafe
<1>2. CASE Intrude
  BY <1>2, IntrudeSafe
<1>3. CASE UNCHANGED initVars
  BY <1>3 DEF initVars, SafeInv, InitType, OthersSurviveCleanup
<1> QED
  BY <1>1, <1>2, <1>3, PrepareSafe, ClaimSafe, StatSafe, WriteSafe, RecordSafe, FaultSafe,
     InspectSafe, UnmarkSafe, BeginsSafe, ChecksSafe, RemovesSafe DEF PackageInitNext

LEMMA CreatorAlone ==
  ASSUME Undisturbed, NEW c \in Creators, Active(creator[c]) \/ target = Nothing
  PROVE  \A d \in Creators : d # c => ~Active(creator[d])
BY DEF Undisturbed

\* The creator that has made the directory goes on.
LEMMA QuietOn ==
  ASSUME Undisturbed, creator \in [Creators -> CreatorStates], NEW c \in Creators, NEW r,
         Set(c, r), Active(creator[c]) \/ target = Nothing,
         Active(r), target' # Nothing, Alone(c, r, target')
  PROVE  Undisturbed'
<1>1. creator'[c] = r /\ \A d \in Creators : d # c => creator'[d] = creator[d]
  BY DEF Set
<1>2. \A d \in Creators : d # c => ~Active(creator'[d])
  BY <1>1, CreatorAlone
<1>3. \A d \in Creators : Active(creator'[d]) => d = c
  BY <1>2
<1>4. \A d \in Creators : Active(creator'[d]) => target' # Nothing /\ Alone(d, creator'[d], target')
  BY <1>1, <1>3
<1> HIDE DEF Undisturbed
<1> QED
  BY <1>1, <1>3, <1>4 DEF Undisturbed

\* The directory is gone with the creator that made it.
LEMMA QuietOff ==
  ASSUME Undisturbed, creator \in [Creators -> CreatorStates], NEW c \in Creators, NEW r,
         Set(c, r), Active(creator[c]) \/ target = Nothing, ~Active(r), target' = Nothing
  PROVE  Undisturbed'
<1>1. creator'[c] = r /\ \A d \in Creators : d # c => creator'[d] = creator[d]
  BY DEF Set
<1>2. \A d \in Creators : ~Active(creator'[d])
  BY <1>1, CreatorAlone
<1> QED
  BY <1>2 DEF Undisturbed

\* A creator that has made nothing looks on.
LEMMA QuietBy ==
  ASSUME Undisturbed, creator \in [Creators -> CreatorStates], NEW c \in Creators, NEW r,
         Set(c, r), ~Active(creator[c]), ~Active(r), target' = target
  PROVE  Undisturbed'
<1>1. creator'[c] = r /\ \A d \in Creators : d # c => creator'[d] = creator[d]
  BY DEF Set
<1>2. \A d \in Creators : Active(creator'[d]) => d # c /\ Active(creator[d])
  BY <1>1
<1>3. \A d \in Creators : Active(creator[d]) => Active(creator'[d]) /\ creator'[d] = creator[d]
  BY <1>1
<1> QED
  BY <1>1, <1>2, <1>3 DEF Undisturbed

\* When a step fails, what a creator remembers is what is there.
LEMMA BreakAlone ==
  ASSUME NEW c \in Creators, NEW t, creator[c] \in CreatorStates, Alone(c, creator[c], t),
         creator[c].pc \in {"stat", "write", "inspect", "unmark"}
  PROVE  Alone(c, [creator[c] EXCEPT !.pc = Broken(c)], t)
<1> DEFINE q == creator[c]
           r == [creator[c] EXCEPT !.pc = Broken(c)]
<1>1. r.pc = Broken(c) /\ r.owned = q.owned /\ r.at = q.at /\ r.root = q.root
  BY DEF CreatorStates
<1>2. CASE q.owned = <<>>
  <2>1. r.pc = "abandon" /\ Len(q.owned) = 0
    BY <1>1, <1>2 DEF Broken
  <2>2. OwnedNames(q, Len(q.owned)) = {}
    BY <2>1 DEF OwnedNames
  <2>3. DOMAIN t.entries = {}
    BY <2>2 DEF Alone
  <2>4. \A j, k \in 1..Len(r.owned) : r.owned[j].name = r.owned[k].name => j = k
    BY <1>1 DEF Alone
  <2> HIDE DEF r, q
  <2>5. Alone(c, r, t)
    BY <2>1, <2>3, <2>4 DEF Alone
  <2> QED
    BY <2>5 DEF r
<1>3. CASE q.owned # <<>>
  <2>1. r.pc = "cleanup" /\ q.pc # "stat"
    BY <1>1, <1>3 DEF Broken, Alone
  <2>2. DOMAIN t.entries = OwnedNames(r, Len(r.owned)) /\ Matching(r, t, Len(r.owned))
    BY <1>1, <2>1 DEF Alone, OwnedNames, Matching
  <2>3. /\ r.root = t.node
        /\ \A j, k \in 1..Len(r.owned) : r.owned[j].name = r.owned[k].name => j = k
    BY <1>1, <2>1 DEF Alone
  <2> HIDE DEF r, q
  <2>4. Alone(c, r, t)
    BY <2>1, <2>2, <2>3 DEF Alone
  <2> QED
    BY <2>4 DEF r
<1> QED
  BY <1>2, <1>3

LEMMA BreakQuiet ==
  ASSUME SafeInv, Undisturbed, NEW c \in Creators, To(c, Broken(c)), target' = target,
         creator[c].pc \in {"stat", "write", "inspect", "unmark"}
  PROVE  Undisturbed'
<1> DEFINE r == [creator[c] EXCEPT !.pc = Broken(c)]
<1>1. creator[c] \in CreatorStates /\ creator \in [Creators -> CreatorStates]
  BY CreatorParts
<1>2. Active(creator[c]) /\ target # Nothing /\ Alone(c, creator[c], target)
  BY DEF Active, Undisturbed
<1>3. Alone(c, r, target)
  BY <1>1, <1>2, BreakAlone
<1>4. Active(r) /\ Set(c, r)
  BY <1>1 DEF Active, Broken, CreatorStates, To
<1> HIDE DEF r
<1> QED
  BY <1>1, <1>2, <1>3, <1>4, QuietOn

LEMMA PrepareQuiet ==
  ASSUME SafeInv, Undisturbed, NEW c \in Creators, Prepare(c)
  PROVE  Undisturbed'
<1>1. creator[c] \in CreatorStates /\ creator \in [Creators -> CreatorStates]
      /\ creator[c].pc = "idle" /\ target' = target
  BY CreatorParts DEF Prepare, At
<1>2. PICK r : Set(c, r) /\ r.pc \in {"exists", "claim"}
  <2>1. CASE Set(c, [creator[c] EXCEPT !.pc = "exists"])
    BY <1>1, <2>1 DEF CreatorStates
  <2>2. CASE Set(c, [creator[c] EXCEPT !.pc = "claim", !.temp = TRUE])
    <3>1. [creator[c] EXCEPT !.pc = "claim", !.temp = TRUE].pc = "claim"
      BY <1>1 DEF CreatorStates
    <3> QED
      BY <2>2, <3>1
  <2> QED
    BY <2>1, <2>2 DEF Prepare, To
<1>3. ~Active(creator[c]) /\ ~Active(r)
  BY <1>1, <1>2 DEF Active
<1> QED
  BY <1>1, <1>2, <1>3, QuietBy

LEMMA ClaimQuiet ==
  ASSUME SafeInv, Undisturbed, NEW c \in Creators, ClaimTarget(c)
  PROVE  Undisturbed'
<1>1. creator[c] \in CreatorStates /\ creator \in [Creators -> CreatorStates]
      /\ creator[c].pc = "claim" /\ creator[c].owned = <<>>
  BY CreatorParts DEF ClaimTarget, At, Progress
<1>2. CASE target # Nothing
  <2>1. PICK r : Set(c, r) /\ r.pc = "exists" /\ target' = target
    BY <1>1, <1>2 DEF ClaimTarget, CreatorStates
  <2>2. ~Active(creator[c]) /\ ~Active(r)
    BY <1>1, <2>1 DEF Active
  <2> QED
    BY <1>1, <2>1, <2>2, QuietBy
<1>3. CASE target = Nothing
  <2> DEFINE r == [creator[c] EXCEPT !.pc = "stat"]
             t == [node |-> nodes + 1, entries |-> <<>>]
  <2>1. Set(c, r) /\ target' = t
    BY <1>3 DEF ClaimTarget, To
  <2>2. r.pc = "stat" /\ r.owned = <<>> /\ Len(r.owned) = 0
    BY <1>1 DEF CreatorStates
  <2>3. DOMAIN t.entries = {} /\ t # Nothing
    <3>1. <<>> \in [{} -> Entries] /\ DOMAIN <<>> = {} /\ {} \in SUBSET Names
      OBVIOUS
    <3>2. nodes + 1 \in Nat
      BY CreatorParts
    <3> QED
      BY <3>1, <3>2, DirectoryForm
  <2> HIDE DEF r, t
  <2>4. Active(r) /\ Alone(c, r, t)
    BY <2>2, <2>3 DEF Active, Alone
  <2> QED
    BY <1>1, <1>3, <2>1, <2>3, <2>4, QuietOn
<1> QED
  BY <1>2, <1>3

LEMMA StatQuiet ==
  ASSUME SafeInv, Undisturbed, NEW c \in Creators, StatTarget(c)
  PROVE  Undisturbed'
<1> DEFINE q == creator[c]
           r == [q EXCEPT !.pc = "write", !.root = target.node]
<1>1. /\ q \in CreatorStates /\ creator \in [Creators -> CreatorStates] /\ q.pc = "stat"
      /\ q.owned = <<>> /\ target' = target
  BY CreatorParts DEF StatTarget, At, Progress
<1>2. Active(q) /\ target # Nothing /\ DOMAIN target.entries = {}
  BY <1>1 DEF Active, Undisturbed, Alone
<1>3. Set(c, r)
  BY <1>2 DEF StatTarget
<1>4. r.pc = "write" /\ r.root = target.node /\ r.owned = <<>> /\ Len(r.owned) = 0
  BY <1>1 DEF CreatorStates
<1> HIDE DEF r
<1>5. Active(r) /\ Alone(c, r, target)
  BY <1>2, <1>4 DEF Active, Alone, OwnedNames, Matching
<1> QED
  BY <1>1, <1>2, <1>3, <1>5, QuietOn

LEMMA WriteQuiet ==
  ASSUME SafeInv, Undisturbed, NEW c \in Creators, WriteEntry(c)
  PROVE  Undisturbed'
<1> DEFINE q == creator[c]
<1>1. /\ q \in CreatorStates /\ creator \in [Creators -> CreatorStates] /\ q.pc = "write"
      /\ q.at \in 1..Len(Written(c)) /\ nodes + 1 \in Nat
  BY CreatorParts DEF WriteEntry, At, Progress
<1>2. Active(q) /\ target # Nothing /\ Alone(c, q, target) /\ target \in Directories
  BY <1>1, CreatorParts DEF Active, Undisturbed
<1>3. CASE Name(c) \in EntryNames
  <2>1. To(c, Broken(c)) /\ target' = target
    BY <1>3 DEF WriteEntry
  <2> QED
    BY <1>1, <2>1, BreakQuiet
<1>4. CASE Name(c) \notin EntryNames
  <2> DEFINE r == [q EXCEPT !.pc = "record"]
             e == [node |-> nodes + 1, by |-> c, raced |-> Window(Name(c))]
             t == With(target, Name(c), e)
             n == Len(q.owned)
  <2>1. Set(c, r) /\ target' = t
    BY <1>2, <1>4 DEF WriteEntry, To, PutEntry
  <2>2. r.pc = "record" /\ r.owned = q.owned /\ r.at = q.at /\ r.root = q.root
    BY <1>1 DEF CreatorStates
  <2>3. Name(c) \in Names /\ Name(c) = Written(c)[q.at]
    BY <1>1, WrittenParts DEF Name
  <2>4. e \in Entries
    <3>1. Window(Name(c)) \in BOOLEAN
      BY DEF Window
    <3> QED
      BY <1>1, <3>1 DEF Entries
  <2> HIDE DEF e
  <2>5. /\ t.node = target.node /\ t # Nothing
        /\ DOMAIN t.entries = DOMAIN target.entries \cup {Name(c)}
        /\ \A m \in DOMAIN target.entries : m # Name(c) => t.entries[m] = target.entries[m]
    BY <1>2, <2>3, <2>4, WithFacts, DirectoryParts
  <2> HIDE DEF r, t
  <2>6. /\ DOMAIN target.entries = OwnedNames(q, n) /\ Matching(q, target, n)
        /\ Name(c) \notin OwnedNames(q, n) /\ q.root = target.node
        /\ \A j, k \in 1..n : q.owned[j].name = q.owned[k].name => j = k
    BY <1>1, <1>2, <1>4 DEF Alone, EntryNames
  <2>7. Matching(q, t, n)
    BY <2>5, <2>6 DEF Matching, OwnedNames
  <2>8. OwnedNames(r, n) = OwnedNames(q, n) /\ Matching(r, t, n) /\ Len(r.owned) = n
    BY <2>2, <2>7 DEF OwnedNames, Matching
  <2> HIDE DEF n, q
  <2>9. \A j, k \in 1..Len(r.owned) : r.owned[j].name = r.owned[k].name => j = k
    BY <2>2, <2>6, <2>8
  <2>10. Alone(c, r, t)
    BY <2>2, <2>3, <2>5, <2>6, <2>8, <2>9 DEF Alone
  <2>11. Active(r)
    BY <2>2 DEF Active
  <2> QED
    BY <1>1, <1>2, <2>1, <2>5, <2>10, <2>11, QuietOn DEF q
<1> QED
  BY <1>3, <1>4

LEMMA RecordQuiet ==
  ASSUME SafeInv, Undisturbed, NEW c \in Creators, RecordEntry(c)
  PROVE  Undisturbed'
<1> DEFINE q == creator[c]
           n == Len(q.owned)
           o == [name |-> Name(c), node |-> target.entries[Name(c)].node]
           own == Append(q.owned, o)
           pc == IF q.at = Len(Written(c)) THEN "inspect" ELSE "write"
           r == [q EXCEPT !.owned = own, !.at = q.at + 1, !.pc = pc]
<1>1. /\ q \in CreatorStates /\ creator \in [Creators -> CreatorStates] /\ q.pc = "record"
      /\ n \in Nat /\ q.owned \in Seq([name : Names, node : Nat])
  BY CreatorParts DEF RecordEntry, At
<1>2. Active(q) /\ target # Nothing /\ Alone(c, q, target)
  BY <1>1 DEF Active, Undisturbed
<1>3. Name(c) = Written(c)[q.at]
  BY DEF Name
<1>4. /\ DOMAIN target.entries = OwnedNames(q, n) \cup {Name(c)}
      /\ Name(c) \notin OwnedNames(q, n) /\ Matching(q, target, n) /\ q.root = target.node
      /\ \A j, k \in 1..n : q.owned[j].name = q.owned[k].name => j = k
  BY <1>1, <1>2, <1>3 DEF Alone
<1>5. Set(c, r) /\ target' = target
  BY <1>2, <1>4 DEF RecordEntry, EntryNames
<1>6. /\ Len(own) = n + 1 /\ own[n + 1] = o /\ \A k \in 1..n : own[k] = q.owned[k]
  <2>1. o \in {o}
    OBVIOUS
  <2> HIDE DEF o, q
  <2> QED
    BY <1>1
<1>7. o.name = Name(c) /\ o.node = target.entries[Name(c)].node
  OBVIOUS
<1>8. pc \in {"inspect", "write"}
  OBVIOUS
<1> HIDE DEF pc, own
<1>9. r.pc = pc /\ r.owned = own /\ r.root = q.root
  BY <1>1 DEF CreatorStates
<1> HIDE DEF r, o, q, n
<1>10. \A k \in 1..n : own[k].name # Name(c)
  BY <1>4, <1>6 DEF OwnedNames
<1>11. \A j, k \in 1..(n + 1) : own[j].name = own[k].name => j = k
  <2> SUFFICES ASSUME NEW j \in 1..(n + 1), NEW k \in 1..(n + 1), own[j].name = own[k].name
               PROVE  j = k
    OBVIOUS
  <2>1. CASE j = n + 1 /\ k \in 1..n
    BY <1>6, <1>7, <1>10, <2>1
  <2>2. CASE k = n + 1 /\ j \in 1..n
    BY <1>6, <1>7, <1>10, <2>2
  <2>3. CASE j \in 1..n /\ k \in 1..n
    BY <1>4, <1>6, <2>3
  <2> QED
    BY <1>1, <2>1, <2>2, <2>3
<1>12. OwnedNames(r, n + 1) = OwnedNames(q, n) \cup {Name(c)}
  <2>1. \A k \in 1..(n + 1) : k \in 1..n \/ k = n + 1
    BY <1>1
  <2>2. 1..n \subseteq 1..(n + 1) /\ n + 1 \in 1..(n + 1)
    BY <1>1
  <2>3. \A k \in 1..n : r.owned[k].name = q.owned[k].name
    BY <1>6, <1>9
  <2>4. r.owned[n + 1].name = Name(c)
    BY <1>6, <1>7, <1>9
  <2> QED
    BY <2>1, <2>2, <2>3, <2>4 DEF OwnedNames
<1>13. Matching(r, target, n + 1)
  <2> SUFFICES ASSUME NEW k \in 1..(n + 1)
               PROVE  target.entries[r.owned[k].name].node = r.owned[k].node
    BY DEF Matching
  <2>1. CASE k = n + 1
    BY <1>6, <1>7, <1>9, <2>1
  <2>2. CASE k \in 1..n
    BY <1>4, <1>6, <1>9, <2>2 DEF Matching
  <2> QED
    BY <1>1, <2>1, <2>2
<1>14. Alone(c, r, target)
  BY <1>4, <1>6, <1>8, <1>9, <1>11, <1>12, <1>13 DEF Alone
<1>15. Active(r)
  BY <1>8, <1>9 DEF Active
<1> QED
  BY <1>1, <1>2, <1>5, <1>14, <1>15, QuietOn DEF q

LEMMA InspectQuiet ==
  ASSUME SafeInv, Undisturbed, NEW c \in Creators, InspectTarget(c)
  PROVE  Undisturbed'
<1> DEFINE q == creator[c]
<1>1. /\ q \in CreatorStates /\ creator \in [Creators -> CreatorStates] /\ q.pc = "inspect"
      /\ target' = target
  BY CreatorParts DEF InspectTarget, At
<1>2. Active(q) /\ target # Nothing /\ Alone(c, q, target)
  BY <1>1 DEF Active, Undisturbed
<1>3. PICK pc \in {"unmark", "cleanup"} : To(c, pc)
  BY DEF InspectTarget
<1> DEFINE r == [q EXCEPT !.pc = pc]
<1>4. Set(c, r)
  BY <1>3 DEF To
<1>5. r.pc = pc /\ r.owned = q.owned /\ r.root = q.root
  BY <1>1 DEF CreatorStates
<1> HIDE DEF r, q
<1>6. Alone(c, r, target)
  BY <1>1, <1>2, <1>3, <1>5 DEF Alone, OwnedNames, Matching
<1>7. Active(r)
  BY <1>3, <1>5 DEF Active
<1> QED
  BY <1>1, <1>2, <1>4, <1>6, <1>7, QuietOn DEF q

LEMMA UnmarkQuiet ==
  ASSUME SafeInv, Undisturbed, NEW c \in Creators, RemoveMarker(c)
  PROVE  Undisturbed'
<1> DEFINE q == creator[c]
<1>1. /\ q \in CreatorStates /\ creator \in [Creators -> CreatorStates] /\ q.pc = "unmark"
  BY CreatorParts DEF RemoveMarker, At
<1>2. Active(q) /\ target # Nothing /\ Alone(c, q, target) /\ target \in Directories
  BY <1>1, CreatorParts DEF Active, Undisturbed
<1>3. CASE c \in EntryNames
  <2> DEFINE r == [q EXCEPT !.pc = "created", !.temp = FALSE]
             t == Without(target, c)
  <2>1. Set(c, r) /\ target' = t
    BY <1>3 DEF RemoveMarker
  <2>2. r.pc = "created" /\ r.owned = q.owned /\ r.root = q.root
    BY <1>1 DEF CreatorStates
  <2>3. t.node = target.node /\ t # Nothing
    BY <1>2, WithoutFacts, DirectoryParts
  <2> HIDE DEF r, t, q
  <2>4. Alone(c, r, t)
    BY <1>1, <1>2, <2>2, <2>3 DEF Alone
  <2>5. Active(r)
    BY <2>2 DEF Active
  <2> QED
    BY <1>1, <1>2, <2>1, <2>3, <2>4, <2>5, QuietOn DEF q
<1>4. CASE c \notin EntryNames
  <2> DEFINE r == [q EXCEPT !.pc = "cleanup"]
  <2>1. Set(c, r) /\ target' = target
    BY <1>4 DEF RemoveMarker, To
  <2>2. r.pc = "cleanup" /\ r.owned = q.owned /\ r.root = q.root
    BY <1>1 DEF CreatorStates
  <2> HIDE DEF r, q
  <2>3. Alone(c, r, target)
    BY <1>1, <1>2, <2>2 DEF Alone, OwnedNames, Matching
  <2>4. Active(r)
    BY <2>2 DEF Active
  <2> QED
    BY <1>1, <1>2, <2>1, <2>3, <2>4, QuietOn DEF q
<1> QED
  BY <1>3, <1>4

LEMMA BeginsQuiet ==
  ASSUME SafeInv, Undisturbed, NEW c \in Creators, CleanupBegins(c)
  PROVE  Undisturbed'
<1> DEFINE q == creator[c]
           n == Len(q.owned)
           r == [q EXCEPT !.pc = "check", !.at = n]
<1>1. /\ q \in CreatorStates /\ creator \in [Creators -> CreatorStates] /\ q.pc = "cleanup"
      /\ q.owned # <<>> /\ q.owned \in Seq([name : Names, node : Nat]) /\ target' = target
  BY CreatorParts DEF CleanupBegins, At, Progress
<1>2. Active(q) /\ target # Nothing /\ Alone(c, q, target)
  BY <1>1 DEF Active, Undisturbed
<1>3. n \in Nat /\ 1 \in 1..n
  BY <1>1
<1>4. target.node = q.root /\ SameOwned(q.owned[1])
  BY <1>1, <1>2, <1>3 DEF Alone, SameOwned, EntryNames, OwnedNames, Matching
<1>5. Set(c, r)
  BY <1>2, <1>4 DEF CleanupBegins
<1>6. r.pc = "check" /\ r.owned = q.owned /\ r.root = q.root /\ r.at = n
  BY <1>1 DEF CreatorStates
<1> HIDE DEF r, q
<1>7. Alone(c, r, target)
  BY <1>1, <1>2, <1>6 DEF Alone, OwnedNames, Matching
<1>8. Active(r)
  BY <1>6 DEF Active
<1> QED
  BY <1>1, <1>2, <1>5, <1>7, <1>8, QuietOn DEF q

LEMMA ChecksQuiet ==
  ASSUME SafeInv, Undisturbed, NEW c \in Creators, CleanupChecks(c)
  PROVE  Undisturbed'
<1> DEFINE q == creator[c]
<1>1. /\ q \in CreatorStates /\ creator \in [Creators -> CreatorStates] /\ q.pc = "check"
      /\ q.at \in 0..Len(q.owned) /\ Len(q.owned) \in Nat /\ target' = target
  BY CreatorParts DEF CleanupChecks, At, Progress
<1>2. Active(q) /\ target # Nothing /\ Alone(c, q, target)
  BY <1>1 DEF Active, Undisturbed
<1>3. /\ DOMAIN target.entries = OwnedNames(q, q.at) /\ Matching(q, target, q.at)
      /\ q.root = target.node
      /\ \A j, k \in 1..Len(q.owned) : q.owned[j].name = q.owned[k].name => j = k
  BY <1>1, <1>2 DEF Alone
<1>4. CASE q.at = 0
  <2> DEFINE r == [q EXCEPT !.pc = "rmdir"]
  <2>1. Set(c, r)
    BY <1>4 DEF CleanupChecks
  <2>2. r.pc = "rmdir" /\ r.owned = q.owned /\ r.root = q.root
    BY <1>1 DEF CreatorStates
  <2>3. DOMAIN target.entries = {}
    BY <1>3, <1>4 DEF OwnedNames
  <2> HIDE DEF r, q
  <2>4. Alone(c, r, target)
    BY <1>3, <2>2, <2>3 DEF Alone
  <2>5. Active(r)
    BY <2>2 DEF Active
  <2> QED
    BY <1>1, <1>2, <2>1, <2>4, <2>5, QuietOn DEF q
<1>5. CASE q.at # 0
  <2> DEFINE r == [q EXCEPT !.pc = "remove"]
  <2>1. q.at \in 1..Len(q.owned) /\ q.at \in 1..q.at
    BY <1>1, <1>5
  <2>2. SameOwned(q.owned[q.at])
    BY <1>2, <1>3, <2>1 DEF SameOwned, EntryNames, OwnedNames, Matching
  <2>3. Set(c, r)
    BY <1>5, <2>2 DEF CleanupChecks
  <2>4. r.pc = "remove" /\ r.owned = q.owned /\ r.root = q.root /\ r.at = q.at
    BY <1>1 DEF CreatorStates
  <2> HIDE DEF r, q
  <2>5. Alone(c, r, target)
    BY <1>3, <2>4 DEF Alone, OwnedNames, Matching
  <2>6. Active(r)
    BY <2>4 DEF Active
  <2> QED
    BY <1>1, <1>2, <2>3, <2>5, <2>6, QuietOn DEF q
<1> QED
  BY <1>4, <1>5

LEMMA RemovesQuiet ==
  ASSUME SafeInv, Undisturbed, NEW c \in Creators, CleanupRemoves(c)
  PROVE  Undisturbed'
<1> DEFINE q == creator[c]
           o == q.owned[q.at]
           t == Without(target, o.name)
           r == [q EXCEPT !.pc = "check", !.at = q.at - 1]
<1>1. /\ q \in CreatorStates /\ creator \in [Creators -> CreatorStates] /\ q.pc = "remove"
      /\ q.at \in 1..Len(q.owned) /\ Len(q.owned) \in Nat
  BY CreatorParts DEF CleanupRemoves, At, Progress
<1>2. Active(q) /\ target # Nothing /\ Alone(c, q, target) /\ target \in Directories
  BY <1>1, CreatorParts DEF Active, Undisturbed
<1>3. /\ DOMAIN target.entries = OwnedNames(q, q.at) /\ Matching(q, target, q.at)
      /\ q.root = target.node
      /\ \A j, k \in 1..Len(q.owned) : q.owned[j].name = q.owned[k].name => j = k
  BY <1>1, <1>2 DEF Alone
<1>4. Set(c, r)
  BY DEF CleanupRemoves
<1>5. target' = t
  <2>1. o.name \in EntryNames
    BY <1>1, <1>2, <1>3 DEF EntryNames, OwnedNames
  <2> QED
    BY <2>1 DEF CleanupRemoves
<1>6. r.pc = "check" /\ r.owned = q.owned /\ r.root = q.root /\ r.at = q.at - 1
  BY <1>1 DEF CreatorStates
<1>7. /\ t.node = target.node /\ t # Nothing
      /\ DOMAIN t.entries = DOMAIN target.entries \ {o.name}
      /\ \A m \in DOMAIN t.entries : t.entries[m] = target.entries[m]
  BY <1>2, WithoutFacts, DirectoryParts
<1> HIDE DEF t, r, q
<1>8. \A k \in 1..(q.at - 1) : /\ k \in 1..q.at /\ k \in 1..Len(q.owned) /\ k # q.at
                              /\ q.owned[k].name # o.name
  <2> SUFFICES ASSUME NEW k \in 1..(q.at - 1)
               PROVE  /\ k \in 1..q.at /\ k \in 1..Len(q.owned) /\ k # q.at
                      /\ q.owned[k].name # o.name
    OBVIOUS
  <2>1. k \in 1..q.at /\ k \in 1..Len(q.owned) /\ k # q.at
    BY <1>1
  <2> QED
    BY <1>1, <1>3, <2>1
<1>9. \A k \in 1..q.at : k \in 1..(q.at - 1) \/ k = q.at
  BY <1>1
<1>10. DOMAIN t.entries = OwnedNames(q, q.at - 1)
  BY <1>3, <1>7, <1>8, <1>9 DEF OwnedNames
<1>11. Matching(q, t, q.at - 1)
  BY <1>3, <1>7, <1>8, <1>10 DEF Matching, OwnedNames
<1>12. Alone(c, r, t)
  <2>1. OwnedNames(r, r.at) = OwnedNames(q, q.at - 1)
    BY <1>6 DEF OwnedNames
  <2>2. Matching(r, t, r.at)
    BY <1>6, <1>11 DEF Matching
  <2> QED
    BY <1>3, <1>6, <1>7, <1>10, <2>1, <2>2 DEF Alone
<1>13. Active(r)
  BY <1>6 DEF Active
<1> QED
  BY <1>1, <1>2, <1>4, <1>5, <1>7, <1>12, <1>13, QuietOn DEF q

\* A directory with nothing in it goes with the creator that gives up.
LEMMA GoneQuiet ==
  ASSUME SafeInv, Undisturbed, NEW c \in Creators, CleanupRmdir(c) \/ Abandon(c)
  PROVE  Undisturbed'
<1> DEFINE q == creator[c]
           r == [q EXCEPT !.pc = "failed", !.temp = FALSE]
<1>1. /\ q \in CreatorStates /\ creator \in [Creators -> CreatorStates]
      /\ q.pc \in {"rmdir", "abandon"}
  BY CreatorParts DEF CleanupRmdir, Abandon, At
<1>2. Active(q) /\ target # Nothing /\ DOMAIN target.entries = {}
      /\ (q.pc = "rmdir" => target.node = q.root)
  BY <1>1 DEF Active, Undisturbed, Alone
<1>3. target' = Nothing
  BY <1>2 DEF CleanupRmdir, Abandon, EntryNames, At
<1>4. Set(c, r) /\ ~Active(r)
  BY <1>1 DEF CleanupRmdir, Abandon, Failed, Active, CreatorStates
<1> HIDE DEF r
<1> QED
  BY <1>1, <1>2, <1>3, <1>4, QuietOff

LEMMA QuietStep == SafeInv /\ QuietInv /\ [PackageInitNext]_initVars => QuietInv'
<1> SUFFICES ASSUME SafeInv, QuietInv, [PackageInitNext]_initVars, intrusions' = 0, ~broken'
             PROVE  Undisturbed'
  BY DEF QuietInv
<1>1. intrusions \in Nat /\ broken \in BOOLEAN
  BY DEF SafeInv, InitType
<1>2. ASSUME NEW c \in Creators, Fault(c)
      PROVE  Undisturbed'
  <2>1. ~broken /\ intrusions = 0
    BY <1>1, <1>2 DEF Fault
  <2>2. /\ To(c, Broken(c)) /\ target' = target
        /\ creator[c].pc \in {"stat", "write", "inspect", "unmark"}
    BY <1>2 DEF Fault, At
  <2>3. Undisturbed
    BY <2>1 DEF QuietInv
  <2> QED
    BY <2>2, <2>3, BreakQuiet
<1>3. CASE Intrude
  BY <1>1, <1>3 DEF Intrude
<1>4. ASSUME NEW c \in Creators,
             \/ Prepare(c) \/ ClaimTarget(c) \/ StatTarget(c) \/ WriteEntry(c) \/ RecordEntry(c)
             \/ InspectTarget(c) \/ RemoveMarker(c) \/ CleanupBegins(c)
             \/ CleanupChecks(c) \/ CleanupRemoves(c) \/ CleanupRmdir(c) \/ Abandon(c)
      PROVE  Undisturbed'
  <2>1. intrusions' = intrusions /\ broken' = broken
    BY <1>4 DEF Prepare, ClaimTarget, StatTarget, WriteEntry, RecordEntry, InspectTarget,
       RemoveMarker, CleanupBegins, CleanupChecks, CleanupRemoves, CleanupRmdir, Abandon, Quiet
  <2>2. Undisturbed
    BY <2>1 DEF QuietInv
  <2> QED
    BY <1>4, <2>2, PrepareQuiet, ClaimQuiet, StatQuiet, WriteQuiet, RecordQuiet, InspectQuiet,
       UnmarkQuiet, BeginsQuiet, ChecksQuiet, RemovesQuiet, GoneQuiet
<1>5. CASE UNCHANGED initVars
  BY <1>5 DEF initVars, QuietInv, Undisturbed
<1> QED
  BY <1>2, <1>3, <1>4, <1>5 DEF PackageInitNext

LEMMA PackageInitInvInit == PackageInitInit => PackageInitInv
<1> SUFFICES ASSUME PackageInitInit
             PROVE  PackageInitInv
  OBVIOUS
<1>1. New \in CreatorStates /\ New.pc = "idle" /\ New.owned = <<>> /\ New.at = 1
  BY DEF New, CreatorStates, CreatorSteps
<1>2. \A c \in Creators : creator[c] = New
  BY DEF PackageInitInit
<1>3. \A c \in Creators : Progress(c, New) /\ Ownership(c, New, Nothing, 0) /\ ~Active(New)
  BY <1>1 DEF Progress, Ownership, Active
<1>4. SafeInv
  BY <1>1, <1>2, <1>3
     DEF PackageInitInit, SafeInv, InitType, Numbered, OthersSurviveCleanup
<1>5. Undisturbed
  BY <1>2, <1>3 DEF PackageInitInit, Undisturbed
<1> QED
  BY <1>4, <1>5 DEF PackageInitInv, QuietInv

(* The cleanup of a failed init takes back its own work and nothing else,  *)
(* for any number of creators, files, faults and intrusions: what others   *)
(* put into the directory survives unless it came between two system calls *)
(* on one path, and while nobody intrudes the directory goes with the last *)
(* creator that fails, so that the init can be repeated                    *)
(* (cleanupOwnedPackageTarget).                                            *)
THEOREM CleanupTakesItsOwn == PackageInitSpec => []InitSound
<1>1. PackageInitInv => InitSound
  <2> SUFFICES ASSUME PackageInitInv,
                      \A c \in Creators : creator[c].pc \in {"failed", "exists", "idle", "created"},
                      \A c \in Creators : creator[c].pc # "created",
                      intrusions = 0, ~broken
               PROVE  target = Nothing
    BY DEF PackageInitInv, SafeInv, InitSound, FailedInitCanBeRepeated
  <2>1. \A c \in Creators : ~Active(creator[c])
    BY DEF Active
  <2> QED
    BY <2>1 DEF PackageInitInv, QuietInv, Undisturbed
<1>2. PackageInitInv /\ [PackageInitNext]_initVars => PackageInitInv'
  BY SafeStep, QuietStep DEF PackageInitInv
<1> QED
  BY <1>1, <1>2, PackageInitInvInit, PTL DEF PackageInitSpec

-----------------------------------------------------------------------------
(* Package inspection. *)

Identities == [node : Nat, time : Nat, dir : Nat]
DiskFiles == [node : Nat, time : Nat, kind : {"file", "link", "gone"}, bytes : Nat]
Inspections == [st : {"running", "validate", "done", "failed"}, at : Nat,
                captured : [Files -> Identities \cup {NoIdentity}], bytes : [Files -> Nat]]

\* The steps that capture, open, read and verify the k-th declared file.
CaptureAt(k) == 4 + k
OpenAt(k) == 4 + Len(Declared) + 3 * k - 2
ReadAt(k) == OpenAt(k) + 1
VerifyAt(k) == OpenAt(k) + 2
LastStep == 4 + 4 * Len(Declared)

DiskType ==
  /\ disk \in [Files -> DiskFiles] /\ dirTime \in Nat /\ writes \in Nat /\ insp \in Inspections
  /\ insp.at \in 1..(LastStep + 1) /\ rewrote \in BOOLEAN
  /\ insp.st = "running" => insp.at <= LastStep
  /\ insp.st \in {"validate", "done"} => insp.at = LastStep + 1

\* A file's change time says which bytes it has, and moves on with each write.
Stamped ==
  /\ \A f \in Files : disk[f].bytes = disk[f].time /\ disk[f].time <= writes
  /\ dirTime <= writes /\ Contents(disk) \in moments

\* What has been captured was there, the directory as it was with the manifest.
Captured ==
  /\ insp.at = 1 => insp.captured[Manifest] = NoIdentity
  /\ \A f \in Files :
       insp.captured[f] # NoIdentity => insp.captured[f].time <= disk[f].time
  /\ insp.at > 1 => /\ insp.captured[Manifest] # NoIdentity
                    /\ insp.captured[Manifest].dir <= dirTime
  /\ \A k \in 1..Len(Declared) :
       insp.at > CaptureAt(k) => insp.captured[Declared[k]] # NoIdentity

\* The manifest that was read is there until all is captured, or will be missed.
ManifestRead ==
  /\ insp.at = 4 => insp.captured[Manifest].time <= insp.bytes[Manifest]
                    /\ insp.bytes[Manifest] <= disk[Manifest].time
  /\ insp.at \in 5..(4 + Len(Declared)) =>
       \/ disk[Manifest].time = insp.bytes[Manifest]
       \/ rewrote \/ dirTime > insp.captured[Manifest].dir

FilesRead ==
  \A k \in 1..Len(Declared) :
    /\ insp.at = VerifyAt(k) => /\ insp.captured[Declared[k]].time <= insp.bytes[Declared[k]]
                                /\ insp.bytes[Declared[k]] <= disk[Declared[k]].time
    /\ insp.at > VerifyAt(k) => insp.bytes[Declared[k]] = insp.captured[Declared[k]].time

\* Once all is captured there was a moment of all that is captured, or a file
\* that is still to be opened has changed since it was captured.
SeenTogether ==
  \E c \in moments :
    /\ \A k \in 1..Len(Declared) : c[Declared[k]] = insp.captured[Declared[k]].time
    /\ \/ insp.bytes[Manifest] = c[Manifest]
       \/ rewrote \/ \E k \in 1..Len(Declared) : Declared[k] = Manifest
Doomed(k) == insp.at <= OpenAt(k) /\ disk[Declared[k]].time > insp.captured[Declared[k]].time
OneMoment ==
  insp.at > 4 + Len(Declared) => SeenTogether \/ \E k \in 1..Len(Declared) : Doomed(k)

InspectInv ==
  /\ DiskType /\ Stamped
  /\ insp.st # "failed" => Captured /\ ManifestRead /\ FilesRead /\ OneMoment

\* Which step is which.
LEMMA InspectOrder ==
  /\ Len(Declared) \in Nat /\ DOMAIN Declared = 1..Len(Declared)
  /\ Len(InspectSteps) = LastStep
  /\ InspectSteps[1] = <<"capture", Manifest>> /\ InspectSteps[2] = <<"open", Manifest>>
  /\ InspectSteps[3] = <<"read", Manifest>> /\ InspectSteps[4] = <<"verify", Manifest>>
  /\ \A k \in 1..Len(Declared) :
       /\ InspectSteps[CaptureAt(k)] = <<"capture", Declared[k]>>
       /\ InspectSteps[OpenAt(k)] = <<"open", Declared[k]>>
       /\ InspectSteps[ReadAt(k)] = <<"read", Declared[k]>>
       /\ InspectSteps[VerifyAt(k)] = <<"verify", Declared[k]>>
<1> DEFINE N == Len(Declared)
           Ops == {"capture", "open", "read", "verify"} \X Files
           captures == [k \in DOMAIN Declared |-> <<"capture", Declared[k]>>]
           reads == InTurn(3, ReadOf)
           first == <<<<"capture", Manifest>>>> \o ReadOf(Manifest)
           second == first \o captures
<1>1. N \in Nat /\ DOMAIN Declared = 1..N
  BY InspectAssumption
<1>2. \A k \in 1..N : Declared[k] \in Files
  BY <1>1 DEF Files
<1>3. \A f \in Files : /\ ReadOf(f) \in Seq(Ops) /\ Len(ReadOf(f)) = 3
                       /\ ReadOf(f)[1] = <<"open", f>> /\ ReadOf(f)[2] = <<"read", f>>
                       /\ ReadOf(f)[3] = <<"verify", f>>
  BY DEF ReadOf
<1>4. /\ first \in Seq(Ops) /\ Len(first) = 4
      /\ first[1] = <<"capture", Manifest>> /\ first[2] = <<"open", Manifest>>
      /\ first[3] = <<"read", Manifest>> /\ first[4] = <<"verify", Manifest>>
  <2>1. Manifest \in Files
    BY DEF Files
  <2> DEFINE head == <<<<"capture", Manifest>>>>
             tail == ReadOf(Manifest)
  <2>2. head \in Seq(Ops) /\ Len(head) = 1 /\ head[1] = <<"capture", Manifest>>
    BY <2>1
  <2>3. /\ tail \in Seq(Ops) /\ Len(tail) = 3 /\ tail[1] = <<"open", Manifest>>
        /\ tail[2] = <<"read", Manifest>> /\ tail[3] = <<"verify", Manifest>>
    BY <1>3, <2>1
  <2> HIDE DEF head, tail, Ops
  <2>4. /\ head \o tail \in Seq(Ops) /\ Len(head \o tail) = Len(head) + Len(tail)
        /\ \A i \in 1..Len(head) + Len(tail) :
             (head \o tail)[i] = IF i <= Len(head) THEN head[i] ELSE tail[i - Len(head)]
    BY <2>2, <2>3, ConcatProperties
  <2>5. first = head \o tail
    BY DEF head, tail
  <2> HIDE DEF first
  <2> QED
    BY <2>2, <2>3, <2>4, <2>5
<1>5. captures \in Seq(Ops) /\ Len(captures) = N
      /\ \A k \in 1..N : captures[k] = <<"capture", Declared[k]>>
  BY <1>1, <1>2
<1>6. \A i \in 1..3 * N : /\ 1 + ((i - 1) \div 3) \in 1..N /\ 1 + ((i - 1) % 3) \in 1..3
  BY <1>1
<1>7. /\ reads \in Seq(Ops) /\ Len(reads) = 3 * N
      /\ \A i \in 1..3 * N :
           reads[i] = ReadOf(Declared[1 + ((i - 1) \div 3)])[1 + ((i - 1) % 3)]
  <2>1. 3 * N \in Nat
    BY <1>1
  <2>2. \A i \in 1..3 * N : ReadOf(Declared[1 + ((i - 1) \div 3)])[1 + ((i - 1) % 3)] \in Ops
    BY <1>2, <1>3, <1>6, ElementOfSeq
  <2>3. reads = [i \in 1..3 * N |-> ReadOf(Declared[1 + ((i - 1) \div 3)])[1 + ((i - 1) % 3)]]
    BY DEF InTurn
  <2> HIDE DEF reads, Ops
  <2> QED
    BY <2>1, <2>2, <2>3
<1> HIDE DEF captures, reads, first, Ops
<1>8. /\ second \in Seq(Ops) /\ Len(second) = 4 + N
      /\ \A i \in 1..4 + N : second[i] = IF i <= 4 THEN first[i] ELSE captures[i - 4]
  <2>1. /\ first \o captures \in Seq(Ops)
        /\ Len(first \o captures) = Len(first) + Len(captures)
        /\ \A i \in 1..Len(first) + Len(captures) : (first \o captures)[i] =
             IF i <= Len(first) THEN first[i] ELSE captures[i - Len(first)]
    <3>1. first \in Seq(Ops) /\ captures \in Seq(Ops)
      BY <1>4, <1>5
    <3> QED
      BY <3>1, ConcatProperties
  <2> HIDE DEF N
  <2> QED
    BY <1>4, <1>5, <2>1
<1>9. InspectSteps = second \o reads
  BY DEF InspectSteps, first, captures, reads
<1> HIDE DEF second
<1>10. /\ Len(InspectSteps) = 4 + N + 3 * N
       /\ \A i \in 1..4 + N + 3 * N :
            InspectSteps[i] = IF i <= 4 + N THEN second[i] ELSE reads[i - (4 + N)]
  <2>1. /\ Len(second \o reads) = Len(second) + Len(reads)
        /\ \A i \in 1..Len(second) + Len(reads) : (second \o reads)[i] =
             IF i <= Len(second) THEN second[i] ELSE reads[i - Len(second)]
    BY <1>7, <1>8, ConcatProperties
  <2> HIDE DEF N
  <2> QED
    BY <1>7, <1>8, <1>9, <2>1
<1> HIDE DEF N
<1>11. \A i \in 1..4 : InspectSteps[i] = first[i]
  BY <1>1, <1>8, <1>10
<1>12. ASSUME NEW k \in 1..N
       PROVE  InspectSteps[4 + k] = <<"capture", Declared[k]>>
  BY <1>1, <1>5, <1>8, <1>10
<1>13. ASSUME NEW k \in 1..N, NEW j \in 1..3
       PROVE  InspectSteps[4 + N + 3 * k - 3 + j] = ReadOf(Declared[k])[j]
  <2> DEFINE i == 3 * k - 3 + j
  <2>1. i \in 1..3 * N /\ (i - 1) \div 3 = k - 1 /\ (i - 1) % 3 = j - 1
    BY <1>1
  <2>2. reads[i] = ReadOf(Declared[k])[j]
    <3>1. 1 + (k - 1) = k /\ 1 + (j - 1) = j
      OBVIOUS
    <3>2. reads[i] = ReadOf(Declared[1 + ((i - 1) \div 3)])[1 + ((i - 1) % 3)]
      BY <1>7, <2>1
    <3> HIDE DEF i
    <3> QED
      BY <2>1, <3>1, <3>2
  <2> DEFINE m == 4 + N + i
  <2>3. m \in 1..4 + N + 3 * N /\ ~(m <= 4 + N) /\ m - (4 + N) = i
    BY <1>1, <2>1
  <2> HIDE DEF i, m
  <2>4. InspectSteps[m] = reads[i]
    <3>1. InspectSteps[m] = IF m <= 4 + N THEN second[m] ELSE reads[m - (4 + N)]
      BY <1>10, <2>3
    <3> QED
      BY <2>3, <3>1
  <2>5. 4 + N + 3 * k - 3 + j = m
    BY <1>1 DEF i, m
  <2> QED
    BY <2>2, <2>4, <2>5
<1>14. ASSUME NEW k \in 1..N
       PROVE  /\ InspectSteps[OpenAt(k)] = <<"open", Declared[k]>>
              /\ InspectSteps[ReadAt(k)] = <<"read", Declared[k]>>
              /\ InspectSteps[VerifyAt(k)] = <<"verify", Declared[k]>>
  <2>1. OpenAt(k) = 4 + N + 3 * k - 3 + 1 /\ ReadAt(k) = 4 + N + 3 * k - 3 + 2
        /\ VerifyAt(k) = 4 + N + 3 * k - 3 + 3
    BY <1>1 DEF OpenAt, ReadAt, VerifyAt, N
  <2> QED
    BY <1>2, <1>3, <1>13, <2>1
<1>15. Len(InspectSteps) = LastStep
  BY <1>1, <1>10 DEF LastStep, N
<1> QED
  BY <1>1, <1>4, <1>11, <1>12, <1>14, <1>15 DEF CaptureAt, N

\* Every step is one of those.
LEMMA StepKinds ==
  ASSUME NEW i \in 1..LastStep
  PROVE  \/ i \in {1, 2, 3, 4}
         \/ \E k \in 1..Len(Declared) : i \in {CaptureAt(k), OpenAt(k), ReadAt(k), VerifyAt(k)}
<1> DEFINE N == Len(Declared)
<1>1. N \in Nat /\ i \in Nat /\ i <= 4 + 4 * N
  BY InspectOrder DEF LastStep
<1>2. CASE i <= 4
  BY <1>2
<1>3. CASE i > 4 /\ i <= 4 + N
  <2>1. i - 4 \in 1..N /\ i = CaptureAt(i - 4)
    BY <1>1, <1>3 DEF CaptureAt
  <2> QED
    BY <2>1
<1>4. CASE i > 4 + N
  <2> DEFINE j == i - (5 + N)
             k == 1 + (j \div 3)
  <2>1. j \in Nat /\ j <= 3 * N - 1 /\ i = j + 5 + N
    BY <1>1, <1>4
  <2> HIDE DEF j
  <2>2. k \in Int /\ k >= 1 /\ k <= N /\ 3 * k - 3 <= j /\ j <= 3 * k - 1
    BY <1>1, <2>1
  <2> HIDE DEF k
  <2>3. i \in {OpenAt(k), ReadAt(k), VerifyAt(k)}
    BY <1>1, <2>1, <2>2 DEF OpenAt, ReadAt, VerifyAt
  <2> QED
    BY <2>2, <2>3
<1> QED
  BY <1>1, <1>2, <1>3, <1>4

\* Where the inspection is when it does op to f.
LEMMA StepOf ==
  ASSUME DiskType, NEW op, NEW f, Step(op, f)
  PROVE  /\ insp.st = "running" /\ insp.at \in 1..LastStep /\ insp.at \in Nat /\ LastStep \in Nat
         /\ op = "capture" =>
              \/ insp.at = 1 /\ f = Manifest
              \/ \E k \in 1..Len(Declared) : insp.at = CaptureAt(k) /\ f = Declared[k]
         /\ op = "open" =>
              \/ insp.at = 2 /\ f = Manifest
              \/ \E k \in 1..Len(Declared) : insp.at = OpenAt(k) /\ f = Declared[k]
         /\ op = "read" =>
              \/ insp.at = 3 /\ f = Manifest
              \/ \E k \in 1..Len(Declared) : insp.at = ReadAt(k) /\ f = Declared[k]
         /\ op = "verify" =>
              \/ insp.at = 4 /\ f = Manifest
              \/ \E k \in 1..Len(Declared) : insp.at = VerifyAt(k) /\ f = Declared[k]
<1> DEFINE a == insp.at
<1>1. insp.st = "running" /\ InspectSteps[a] = <<op, f>>
  BY DEF Step
<1>2. a \in 1..LastStep /\ LastStep \in Nat /\ a \in Nat
  BY <1>1, InspectOrder DEF DiskType, LastStep
<1> HIDE DEF a
<1>3. CASE a \in {1, 2, 3, 4}
  BY <1>1, <1>2, <1>3, InspectOrder DEF a
<1>4. ASSUME NEW k \in 1..Len(Declared), a \in {CaptureAt(k), OpenAt(k), ReadAt(k), VerifyAt(k)}
      PROVE  \/ op = "capture" /\ a = CaptureAt(k) /\ f = Declared[k]
             \/ op = "open" /\ a = OpenAt(k) /\ f = Declared[k]
             \/ op = "read" /\ a = ReadAt(k) /\ f = Declared[k]
             \/ op = "verify" /\ a = VerifyAt(k) /\ f = Declared[k]
  BY <1>1, <1>4, InspectOrder
<1> QED
  BY <1>1, <1>2, <1>3, <1>4, StepKinds DEF a

\* The inspection goes on.
LEMMA AdvanceFacts ==
  ASSUME DiskType, Stamped, insp.st = "running", NEW i \in Inspections, i.at = insp.at,
         i.st = "running", Advance(i)
  PROVE  /\ DiskType' /\ Stamped' /\ insp'.at = insp.at + 1
         /\ insp'.captured = i.captured /\ insp'.bytes = i.bytes
         /\ disk' = disk /\ dirTime' = dirTime /\ moments' = moments /\ rewrote' = rewrote
<1>1. /\ disk' = disk /\ dirTime' = dirTime /\ moments' = moments /\ rewrote' = rewrote
      /\ writes' = writes
  BY DEF Advance
<1> DEFINE s == IF i.at = Len(InspectSteps) THEN "validate" ELSE i.st
<1>2. insp' = [i EXCEPT !.at = i.at + 1, !.st = s]
  BY DEF Advance
<1>3. s \in {"running", "validate"} /\ (s = "running" => i.at # LastStep)
      /\ (s = "validate" => i.at = LastStep)
  BY InspectOrder
<1> HIDE DEF s
<1>4. i.at \in Nat /\ i.at <= LastStep /\ LastStep \in Nat /\ i.at >= 1
  BY InspectOrder DEF DiskType, LastStep, Inspections
<1>5. /\ insp' \in Inspections /\ insp'.at = i.at + 1 /\ insp'.st = s
      /\ insp'.captured = i.captured /\ insp'.bytes = i.bytes
  <2>1. i.at + 1 \in Nat /\ s \in {"running", "validate", "done", "failed"}
    BY <1>3, <1>4
  <2> DEFINE at == i.at + 1
  <2>2. insp' = [i EXCEPT !.at = at, !.st = s] /\ at \in Nat
    BY <1>2, <2>1
  <2> HIDE DEF at
  <2>3. /\ insp' \in Inspections /\ insp'.at = at /\ insp'.st = s
        /\ insp'.captured = i.captured /\ insp'.bytes = i.bytes
    BY <2>1, <2>2 DEF Inspections
  <2> QED
    BY <2>3 DEF at
<1>6. DiskType'
  <2>1. insp'.at \in 1..(LastStep + 1)
    BY <1>4, <1>5
  <2>2. insp'.st = "running" => insp'.at <= LastStep
    BY <1>3, <1>4, <1>5
  <2>3. insp'.st \in {"validate", "done"} => insp'.at = LastStep + 1
    BY <1>3, <1>4, <1>5
  <2> QED
    BY <1>1, <1>5, <2>1, <2>2, <2>3 DEF DiskType, LastStep
<1>7. Stamped'
  BY <1>1 DEF Stamped, Contents
<1> QED
  BY <1>1, <1>5, <1>6, <1>7

LEMMA FailKeeps ==
  ASSUME InspectInv, FailInspection
  PROVE  InspectInv'
<1>1. /\ disk' = disk /\ dirTime' = dirTime /\ moments' = moments /\ rewrote' = rewrote
      /\ writes' = writes /\ insp' = [insp EXCEPT !.st = "failed"] /\ insp \in Inspections
  BY DEF FailInspection, InspectInv, DiskType
<1>2. insp' \in Inspections /\ insp'.st = "failed" /\ insp'.at = insp.at
  BY <1>1 DEF Inspections
<1>3. DiskType' /\ Stamped'
  BY <1>1, <1>2 DEF InspectInv, DiskType, Stamped, Contents, LastStep
<1> QED
  BY <1>2, <1>3 DEF InspectInv

\* A declared file is a file, once declared, and what is captured of it is an identity.
LEMMA FileFacts ==
  ASSUME InspectInv
  PROVE  /\ Manifest \in Files
         /\ \A k \in 1..Len(Declared) : Declared[k] \in Files
         /\ \A j, k \in 1..Len(Declared) : Declared[j] = Declared[k] => j = k
         /\ \A f \in Files :
              /\ Identity(f) \in Identities /\ Identity(f) # NoIdentity
              /\ disk[f].time \in Nat /\ disk[f].bytes = disk[f].time /\ insp.bytes[f] \in Nat
              /\ Identity(f).time = disk[f].time /\ Identity(f).dir = dirTime
              /\ insp.captured[f] # NoIdentity => /\ insp.captured[f].time \in Nat
                                                  /\ insp.captured[f].dir \in Nat
         /\ dirTime \in Nat /\ insp \in Inspections /\ Len(Declared) \in Nat
<1>1. /\ disk \in [Files -> DiskFiles] /\ dirTime \in Nat /\ insp \in Inspections
      /\ insp.captured \in [Files -> Identities \cup {NoIdentity}]
      /\ insp.bytes \in [Files -> Nat]
  BY DEF InspectInv, DiskType, Inspections
<1>2. Manifest \in Files /\ (\A k \in 1..Len(Declared) : Declared[k] \in Files)
      /\ (\A j, k \in 1..Len(Declared) : Declared[j] = Declared[k] => j = k)
      /\ Len(Declared) \in Nat
  BY InspectOrder, InspectAssumption DEF Files
<1>3. ASSUME NEW f \in Files
      PROVE  /\ Identity(f) \in Identities /\ Identity(f) # NoIdentity
             /\ disk[f].time \in Nat /\ disk[f].bytes = disk[f].time /\ insp.bytes[f] \in Nat
             /\ Identity(f).time = disk[f].time /\ Identity(f).dir = dirTime
             /\ insp.captured[f] # NoIdentity => /\ insp.captured[f].time \in Nat
                                                 /\ insp.captured[f].dir \in Nat
  <2>1. disk[f] \in DiskFiles /\ insp.bytes[f] \in Nat
        /\ insp.captured[f] \in Identities \cup {NoIdentity}
    BY <1>1
  <2>2. Identity(f) \in Identities /\ disk[f].time \in Nat
        /\ Identity(f).time = disk[f].time /\ Identity(f).dir = dirTime
    BY <1>1, <2>1 DEF Identity, Identities, DiskFiles
  <2>3. NoIdentity \notin Identities
    BY InspectAssumption DEF Identities
  <2>4. disk[f].bytes = disk[f].time
    BY DEF InspectInv, Stamped
  <2>5. insp.captured[f] # NoIdentity => /\ insp.captured[f].time \in Nat
                                         /\ insp.captured[f].dir \in Nat
    BY <2>1 DEF Identities
  <2> QED
    BY <2>1, <2>2, <2>3, <2>4, <2>5
<1> QED
  BY <1>1, <1>2, <1>3

LEMMA CaptureKeeps ==
  ASSUME InspectInv, NEW f \in Files, CapturePath(f)
  PROVE  InspectInv'
<1> DEFINE N == Len(Declared)
           a == insp.at
           id == Identity(f)
           i == [insp EXCEPT !.captured[f] = id]
<1> USE FileFacts
<1>1. DiskType /\ Stamped /\ Step("capture", f)
  BY DEF InspectInv, CapturePath
<1>2. insp.st = "running" /\ a \in 1..LastStep /\ a \in Nat
  BY <1>1, StepOf
<1>3. Captured /\ ManifestRead /\ FilesRead /\ OneMoment
  BY <1>2 DEF InspectInv
<1>4. CASE FailInspection
  BY <1>4, FailKeeps
<1>5. CASE /\ insp.captured[Manifest] = NoIdentity \/ insp.captured[Manifest].dir = dirTime
           /\ Advance(i)
  <2>1. id \in Identities /\ insp.captured \in [Files -> Identities \cup {NoIdentity}]
    BY DEF Inspections
  <2> HIDE DEF id
  <2>2. i \in Inspections /\ i.at = a /\ i.st = "running" /\ i.bytes = insp.bytes
        /\ i.captured = [insp.captured EXCEPT ![f] = id]
    BY <1>2, <2>1 DEF Inspections
  <2> HIDE DEF i
  <2>3. /\ DiskType' /\ Stamped' /\ insp'.at = a + 1 /\ insp'.bytes = insp.bytes
        /\ insp'.captured = i.captured
        /\ disk' = disk /\ dirTime' = dirTime /\ moments' = moments /\ rewrote' = rewrote
    BY <1>1, <1>2, <1>5, <2>2, AdvanceFacts
  <2>4. /\ insp'.captured[f] = id
        /\ \A g \in Files : g # f => insp'.captured[g] = insp.captured[g]
    BY <2>1, <2>2, <2>3
  <2>5. id # NoIdentity /\ id.time = disk[f].time /\ id.dir = dirTime
    BY DEF id
  <2>6. \A g \in Files : insp'.captured[g] # NoIdentity => insp'.captured[g].time <= disk'[g].time
    BY <1>3, <2>3, <2>4, <2>5 DEF Captured
  <2> HIDE DEF N, a
  <2>7. CASE a = 1 /\ f = Manifest
    <3>1. \A k \in 1..N : ~(a + 1 > CaptureAt(k)) /\ ~(a + 1 >= VerifyAt(k))
      BY <2>7 DEF CaptureAt, VerifyAt, ReadAt, OpenAt, N
    <3>2. Captured'
      BY <2>3, <2>4, <2>5, <2>6, <2>7, <3>1 DEF Captured, N, CaptureAt
    <3>3. ManifestRead' /\ OneMoment'
      BY <2>3, <2>7 DEF ManifestRead, OneMoment
    <3>4. FilesRead'
      BY <1>2, <2>3, <2>7, <3>1 DEF FilesRead, N, VerifyAt, ReadAt, OpenAt
    <3> QED
      BY <2>3, <3>2, <3>3, <3>4 DEF InspectInv
  <2>8. ASSUME NEW k \in 1..N, a = CaptureAt(k), f = Declared[k]
        PROVE  InspectInv'
    <3>1. N \in Nat /\ a = 4 + k /\ a \in 5..(4 + N)
      BY <2>8 DEF CaptureAt, N
    <3>2. insp.captured[Manifest] # NoIdentity /\ insp.captured[Manifest].dir = dirTime
      BY <1>3, <1>5, <3>1 DEF Captured, a
    <3>3. insp'.captured[Manifest] # NoIdentity /\ insp'.captured[Manifest].dir = dirTime
      BY <2>4, <2>5, <3>2
    <3>4. ASSUME NEW j \in 1..N, a + 1 > CaptureAt(j)
          PROVE  insp'.captured[Declared[j]] # NoIdentity
      <4>1. CASE j = k
        BY <2>4, <2>5, <2>8, <4>1
      <4>2. CASE j # k
        <5>1. a > CaptureAt(j) /\ Declared[j] # f /\ Declared[j] \in Files
          BY <2>8, <3>1, <3>4, <4>2 DEF CaptureAt, N
        <5> QED
          BY <1>3, <2>4, <5>1 DEF Captured, a, N
      <4> QED
        BY <4>1, <4>2
    <3>5. Captured'
      BY <2>3, <2>6, <3>1, <3>3, <3>4 DEF Captured, N, CaptureAt
    <3>6. disk[Manifest].time = insp.bytes[Manifest] \/ rewrote
      BY <1>3, <3>1, <3>2 DEF ManifestRead, a, N
    <3>7. ManifestRead'
      BY <2>3, <3>1, <3>6 DEF ManifestRead
    <3>8. \A j \in 1..N : ~(a + 1 >= VerifyAt(j))
      BY <3>1 DEF VerifyAt, OpenAt, N
    <3>9. FilesRead'
      BY <2>3, <3>1, <3>8 DEF FilesRead, N, VerifyAt, ReadAt, OpenAt
    <3>10. OneMoment'
      <4> SUFFICES ASSUME a + 1 > 4 + N
                   PROVE  SeenTogether' \/ \E j \in 1..N : Doomed(j)'
        BY <2>3 DEF OneMoment, N
      <4>1. k = N
        BY <2>8, <3>1
      <4>2. ASSUME NEW j \in 1..N
            PROVE  /\ Declared[j] \in Files /\ insp'.captured[Declared[j]].time \in Nat
                   /\ insp'.captured[Declared[j]].time <= disk[Declared[j]].time
                   /\ a + 1 <= OpenAt(j) /\ disk[Declared[j]].time \in Nat
        <5>1. a + 1 > CaptureAt(j) /\ a + 1 <= OpenAt(j) /\ Declared[j] \in Files
          BY <3>1, <4>1 DEF CaptureAt, OpenAt, N
        <5>2. insp'.captured[Declared[j]] # NoIdentity
          BY <3>4, <5>1
        <5>3. insp'.captured[Declared[j]].time \in Nat
          BY <2>1, <2>4, <5>1, <5>2 DEF Identities
        <5> QED
          BY <2>3, <2>6, <5>1, <5>2, <5>3
      <4>3. CASE \A j \in 1..N : insp'.captured[Declared[j]].time = disk[Declared[j]].time
        <5> DEFINE c == Contents(disk)
        <5>1. c \in moments' /\ \A g \in Files : c[g] = disk[g].time
          BY <1>1, <2>3 DEF Stamped, Contents
        <5> HIDE DEF c
        <5>2. \A j \in 1..N : c[Declared[j]] = insp'.captured[Declared[j]].time
          BY <4>2, <4>3, <5>1
        <5>3. insp'.bytes[Manifest] = c[Manifest] \/ rewrote'
          BY <2>3, <3>6, <5>1
        <5>4. SeenTogether'
          BY <5>1, <5>2, <5>3 DEF SeenTogether, N
        <5> QED
          BY <5>4
      <4>4. CASE ~\A j \in 1..N : insp'.captured[Declared[j]].time = disk[Declared[j]].time
        <5>1. PICK j \in 1..N : insp'.captured[Declared[j]].time # disk[Declared[j]].time
          BY <4>4
        <5>2. Doomed(j)'
          BY <2>3, <4>2, <5>1 DEF Doomed, OpenAt
        <5> QED
          BY <5>2
      <4> QED
        BY <4>3, <4>4
    <3> QED
      BY <2>3, <3>5, <3>7, <3>9, <3>10 DEF InspectInv
  <2> QED
    BY <1>1, <2>7, <2>8, StepOf DEF a, N
<1> QED
  BY <1>4, <1>5 DEF CapturePath

\* What was captured stays so while the inspection goes on over an unchanged disk.
LEMMA CapturedOn ==
  ASSUME Captured, insp.at \in Nat, insp.at > 1, insp'.at = insp.at + 1,
         insp'.captured = insp.captured, disk' = disk, dirTime' = dirTime,
         \A k \in 1..Len(Declared) :
           insp.at + 1 > CaptureAt(k) => insp.captured[Declared[k]] # NoIdentity
  PROVE  Captured'
<1>1. insp'.at # 1
  OBVIOUS
<1>2. \A f \in Files :
        insp'.captured[f] # NoIdentity => insp'.captured[f].time <= disk'[f].time
  BY DEF Captured
<1>3. insp'.captured[Manifest] # NoIdentity /\ insp'.captured[Manifest].dir <= dirTime'
  BY DEF Captured
<1>4. \A k \in 1..Len(Declared) :
        insp'.at > CaptureAt(k) => insp'.captured[Declared[k]] # NoIdentity
  OBVIOUS
<1> QED
  BY <1>1, <1>2, <1>3, <1>4 DEF Captured, CaptureAt

LEMMA OpenKeeps ==
  ASSUME InspectInv, NEW f \in Files, OpenFile(f)
  PROVE  InspectInv'
<1> DEFINE N == Len(Declared)
           a == insp.at
<1>1. DiskType /\ Stamped /\ Step("open", f) /\ insp \in Inspections /\ N \in Nat
  BY FileFacts DEF InspectInv, OpenFile
<1>2. insp.st = "running" /\ a \in 1..LastStep /\ a \in Nat
  BY <1>1, StepOf
<1>3. Captured /\ ManifestRead /\ FilesRead /\ OneMoment
  BY <1>2 DEF InspectInv
<1>4. CASE FailInspection
  BY <1>4, FailKeeps
<1>5. CASE Unchanged(f) /\ Advance(insp)
  <2>1. /\ DiskType' /\ Stamped' /\ insp'.at = a + 1 /\ insp'.bytes = insp.bytes
        /\ insp'.captured = insp.captured
        /\ disk' = disk /\ dirTime' = dirTime /\ moments' = moments /\ rewrote' = rewrote
    BY <1>1, <1>2, <1>5, AdvanceFacts
  <2>2. insp.captured[f] # NoIdentity /\ insp.captured[f].time = disk[f].time
        /\ disk[f].time \in Nat
    BY <1>5, FileFacts DEF Unchanged
  <2> HIDE DEF N, a
  <2>3. CASE a = 2 /\ f = Manifest
    <3>1. \A k \in 1..N : ~(a + 1 > CaptureAt(k)) /\ ~(a + 1 >= VerifyAt(k))
      BY <1>1, <2>3 DEF CaptureAt, VerifyAt, ReadAt, OpenAt, N
    <3>2. Captured'
      BY <1>2, <1>3, <2>1, <2>3, <3>1, CapturedOn DEF a, N
    <3>3. ManifestRead' /\ OneMoment'
      BY <1>1, <2>1, <2>3 DEF ManifestRead, OneMoment, N
    <3>4. FilesRead'
      BY <1>1, <1>2, <2>1, <2>3, <3>1 DEF FilesRead, N, VerifyAt, ReadAt, OpenAt
    <3> QED
      BY <2>1, <3>2, <3>3, <3>4 DEF InspectInv
  <2>4. ASSUME NEW k \in 1..N, a = OpenAt(k), f = Declared[k]
        PROVE  InspectInv'
    <3>1. a = 4 + N + 3 * k - 2 /\ k \in Nat /\ k >= 1
      BY <1>1, <2>4 DEF OpenAt, N
    <3>2. \A j \in 1..N : /\ a + 1 # VerifyAt(j) /\ (a + 1 > VerifyAt(j) => a > VerifyAt(j))
                          /\ a > CaptureAt(j)
                          /\ a <= OpenAt(j) /\ j # k => a + 1 <= OpenAt(j)
      BY <1>1, <3>1 DEF VerifyAt, OpenAt, CaptureAt, N
    <3>3. Captured'
      <4>1. \A j \in 1..N : insp.captured[Declared[j]] # NoIdentity
        BY <1>3, <3>2 DEF Captured, a, N
      <4>2. a > 1
        BY <1>1, <3>1
      <4> QED
        BY <1>2, <1>3, <2>1, <4>1, <4>2, CapturedOn DEF a, N
    <3>4. ManifestRead'
      <4>1. a + 1 > 4 + N /\ a + 1 # 4
        BY <1>1, <3>1
      <4> QED
        BY <1>1, <2>1, <4>1 DEF ManifestRead, N
    <3>5. FilesRead'
      BY <1>3, <2>1, <3>2 DEF FilesRead, VerifyAt, OpenAt, N, a
    <3>6. SeenTogether \/ \E j \in 1..N : Doomed(j)
      <4>1. a > 4 + N
        BY <1>1, <3>1
      <4> QED
        BY <1>3, <4>1 DEF OneMoment, a, N
    <3>7. CASE SeenTogether
      <4>1. SeenTogether'
        BY <2>1, <3>7 DEF SeenTogether
      <4> QED
        BY <2>1, <3>3, <3>4, <3>5, <4>1 DEF InspectInv, OneMoment
    <3>8. ASSUME NEW j \in 1..N, Doomed(j)
          PROVE  InspectInv'
      <4>1. j # k
        BY <2>2, <2>4, <3>8, FileFacts DEF Doomed
      <4>2. a + 1 <= OpenAt(j)
        BY <3>2, <3>8, <4>1 DEF Doomed, a
      <4>3. Doomed(j)'
        BY <2>1, <3>8, <4>2 DEF Doomed, OpenAt
      <4> QED
        BY <2>1, <3>3, <3>4, <3>5, <4>3 DEF InspectInv, OneMoment, N
    <3> QED
      BY <3>6, <3>7, <3>8
  <2> QED
    BY <1>1, <2>3, <2>4, StepOf DEF a, N
<1> QED
  BY <1>4, <1>5 DEF OpenFile

LEMMA ReadKeeps ==
  ASSUME InspectInv, NEW f \in Files, ReadFile(f)
  PROVE  InspectInv'
<1> DEFINE N == Len(Declared)
           a == insp.at
           b == disk[f].bytes
           i == [insp EXCEPT !.bytes[f] = b]
<1>1. DiskType /\ Stamped /\ Step("read", f) /\ insp \in Inspections /\ N \in Nat
  BY FileFacts DEF InspectInv, ReadFile
<1>2. insp.st = "running" /\ a \in 1..LastStep /\ a \in Nat
  BY <1>1, StepOf
<1>3. Captured /\ ManifestRead /\ FilesRead /\ OneMoment
  BY <1>2 DEF InspectInv
<1>4. CASE FailInspection
  BY <1>4, FailKeeps
<1>5. CASE Advance(i)
  <2>1. b \in Nat /\ b = disk[f].time /\ insp.bytes \in [Files -> Nat]
    BY <1>1, FileFacts DEF Inspections
  <2> HIDE DEF b
  <2>2. i \in Inspections /\ i.at = a /\ i.st = "running" /\ i.captured = insp.captured
        /\ i.bytes = [insp.bytes EXCEPT ![f] = b]
    BY <1>1, <1>2, <2>1 DEF Inspections
  <2> HIDE DEF i
  <2>3. /\ DiskType' /\ Stamped' /\ insp'.at = a + 1 /\ insp'.captured = insp.captured
        /\ insp'.bytes = i.bytes
        /\ disk' = disk /\ dirTime' = dirTime /\ moments' = moments /\ rewrote' = rewrote
    BY <1>1, <1>2, <1>5, <2>2, AdvanceFacts
  <2>4. insp'.bytes[f] = disk[f].time
        /\ \A g \in Files : g # f => insp'.bytes[g] = insp.bytes[g]
    BY <2>1, <2>2, <2>3
  <2>5. insp.captured[f] # NoIdentity => insp.captured[f].time <= disk[f].time
    BY <1>3 DEF Captured
  <2> HIDE DEF N, a
  <2>6. CASE a = 3 /\ f = Manifest
    <3>1. \A k \in 1..N : ~(a + 1 > CaptureAt(k)) /\ ~(a + 1 >= VerifyAt(k))
      BY <1>1, <2>6 DEF CaptureAt, VerifyAt, ReadAt, OpenAt, N
    <3>2. Captured'
      BY <1>2, <1>3, <2>3, <2>6, <3>1, CapturedOn DEF a, N
    <3>3. ManifestRead'
      <4>1. insp.captured[Manifest].time <= disk[Manifest].time /\ disk[Manifest].time \in Nat
        BY <1>3, <2>5, <2>6, FileFacts DEF Captured, a
      <4> QED
        BY <2>3, <2>4, <2>6, <4>1 DEF ManifestRead
    <3>4. OneMoment'
      BY <1>1, <2>3, <2>6 DEF OneMoment, N
    <3>5. FilesRead'
      BY <1>1, <1>2, <2>3, <2>6, <3>1 DEF FilesRead, N, VerifyAt, ReadAt, OpenAt
    <3> QED
      BY <2>3, <3>2, <3>3, <3>4, <3>5 DEF InspectInv
  <2>7. ASSUME NEW k \in 1..N, a = ReadAt(k), f = Declared[k]
        PROVE  InspectInv'
    <3>1. a = 4 + N + 3 * k - 1 /\ k \in Nat /\ k >= 1
      BY <1>1, <2>7 DEF OpenAt, ReadAt, N
    <3>2. \A j \in 1..N : /\ a + 1 = VerifyAt(j) => j = k
                          /\ a + 1 > VerifyAt(j) => a > VerifyAt(j) /\ j # k
                          /\ a > CaptureAt(j)
                          /\ a <= OpenAt(j) => a + 1 <= OpenAt(j)
      BY <1>1, <3>1 DEF VerifyAt, OpenAt, CaptureAt, N
    <3>3. \A j \in 1..N : insp.captured[Declared[j]] # NoIdentity
      BY <1>3, <3>2 DEF Captured, a, N
    <3>4. Captured'
      <4>1. a > 1
        BY <1>1, <3>1
      <4> QED
        BY <1>2, <1>3, <2>3, <3>3, <4>1, CapturedOn DEF a, N
    <3>5. ManifestRead'
      <4>1. a + 1 > 4 + N /\ a + 1 # 4
        BY <1>1, <3>1
      <4> QED
        BY <1>1, <2>3, <4>1 DEF ManifestRead, N
    <3>6. FilesRead'
      <4> SUFFICES ASSUME NEW j \in 1..N
                   PROVE  /\ a + 1 = VerifyAt(j) =>
                               /\ insp.captured[Declared[j]].time <= insp'.bytes[Declared[j]]
                               /\ insp'.bytes[Declared[j]] <= disk[Declared[j]].time
                          /\ a + 1 > VerifyAt(j) =>
                               insp'.bytes[Declared[j]] = insp.captured[Declared[j]].time
        BY <2>3 DEF FilesRead, VerifyAt, OpenAt, N
      <4>1. CASE j = k
        <5>1. disk[f].time \in Nat /\ insp.captured[f].time <= disk[f].time
          BY <2>5, <2>7, <3>3, FileFacts
        <5> QED
          BY <2>4, <2>7, <3>2, <4>1, <5>1
      <4>2. CASE j # k
        <5>1. Declared[j] # f /\ Declared[j] \in Files
          BY <2>7, <4>2, FileFacts DEF N
        <5> QED
          BY <1>3, <2>4, <3>2, <4>2, <5>1 DEF FilesRead, a, N
      <4> QED
        BY <4>1, <4>2
    <3>7. SeenTogether \/ \E j \in 1..N : Doomed(j)
      <4>1. a > 4 + N
        BY <1>1, <3>1
      <4> QED
        BY <1>3, <4>1 DEF OneMoment, a, N
    <3>8. CASE SeenTogether
      <4>1. insp'.bytes[Manifest] = insp.bytes[Manifest] \/ Declared[k] = Manifest
        BY <2>4, <2>7, FileFacts
      <4>2. SeenTogether'
        BY <2>3, <3>8, <4>1 DEF SeenTogether, N
      <4> QED
        BY <2>3, <3>4, <3>5, <3>6, <4>2 DEF InspectInv, OneMoment
    <3>9. ASSUME NEW j \in 1..N, Doomed(j)
          PROVE  InspectInv'
      <4>1. a + 1 <= OpenAt(j)
        BY <3>2, <3>9 DEF Doomed, a
      <4>2. Doomed(j)'
        BY <2>3, <3>9, <4>1 DEF Doomed, OpenAt
      <4> QED
        BY <2>3, <3>4, <3>5, <3>6, <4>2 DEF InspectInv, OneMoment, N
    <3> QED
      BY <3>7, <3>8, <3>9
  <2> QED
    BY <1>1, <2>6, <2>7, StepOf DEF a, N
<1> QED
  BY <1>4, <1>5 DEF ReadFile

LEMMA VerifyFileKeeps ==
  ASSUME InspectInv, NEW f \in Files, VerifyFile(f)
  PROVE  InspectInv'
<1> DEFINE N == Len(Declared)
           a == insp.at
<1>1. DiskType /\ Stamped /\ Step("verify", f) /\ insp \in Inspections /\ N \in Nat
  BY FileFacts DEF InspectInv, VerifyFile
<1>2. insp.st = "running" /\ a \in 1..LastStep /\ a \in Nat
  BY <1>1, StepOf
<1>3. Captured /\ ManifestRead /\ FilesRead /\ OneMoment
  BY <1>2 DEF InspectInv
<1>4. CASE FailInspection
  BY <1>4, FailKeeps
<1>5. CASE Unchanged(f) /\ Advance(insp)
  <2>1. /\ DiskType' /\ Stamped' /\ insp'.at = a + 1 /\ insp'.bytes = insp.bytes
        /\ insp'.captured = insp.captured
        /\ disk' = disk /\ dirTime' = dirTime /\ moments' = moments /\ rewrote' = rewrote
    BY <1>1, <1>2, <1>5, AdvanceFacts
  <2>2. insp.captured[f] # NoIdentity /\ insp.captured[f].time = disk[f].time
        /\ disk[f].time \in Nat /\ insp.bytes[f] \in Nat
    BY <1>5, FileFacts DEF Unchanged
  <2> HIDE DEF N, a
  <2>3. CASE a = 4 /\ f = Manifest
    <3>1. \A k \in 1..N : ~(a + 1 > CaptureAt(k)) /\ ~(a + 1 >= VerifyAt(k))
      BY <1>1, <2>3 DEF CaptureAt, VerifyAt, ReadAt, OpenAt, N
    <3>2. Captured'
      BY <1>2, <1>3, <2>1, <2>3, <3>1, CapturedOn DEF a, N
    <3>3. insp.bytes[Manifest] = disk[Manifest].time
      BY <1>3, <2>2, <2>3 DEF ManifestRead, a
    <3>4. ManifestRead'
      BY <2>1, <2>3, <3>3 DEF ManifestRead
    <3>5. FilesRead'
      BY <1>1, <1>2, <2>1, <2>3, <3>1 DEF FilesRead, N, VerifyAt, ReadAt, OpenAt
    <3>6. OneMoment'
      <4> SUFFICES ASSUME N = 0
                   PROVE  SeenTogether'
        BY <1>1, <2>1, <2>3 DEF OneMoment, N
      <4> DEFINE c == Contents(disk)
      <4>1. c \in moments' /\ \A g \in Files : c[g] = disk[g].time
        BY <1>1, <2>1 DEF Stamped, Contents
      <4> HIDE DEF c
      <4>2. insp'.bytes[Manifest] = c[Manifest]
        BY <2>1, <3>3, <4>1, FileFacts
      <4> QED
        BY <4>1, <4>2 DEF SeenTogether, N
    <3> QED
      BY <2>1, <3>2, <3>4, <3>5, <3>6 DEF InspectInv
  <2>4. ASSUME NEW k \in 1..N, a = VerifyAt(k), f = Declared[k]
        PROVE  InspectInv'
    <3>1. a = 4 + N + 3 * k /\ k \in Nat /\ k >= 1
      BY <1>1, <2>4 DEF VerifyAt, OpenAt, N
    <3>2. \A j \in 1..N : /\ a + 1 # VerifyAt(j)
                          /\ a + 1 > VerifyAt(j) => a > VerifyAt(j) \/ j = k
                          /\ a > CaptureAt(j)
                          /\ a <= OpenAt(j) => a + 1 <= OpenAt(j)
      BY <1>1, <3>1 DEF VerifyAt, OpenAt, CaptureAt, N
    <3>3. \A j \in 1..N : insp.captured[Declared[j]] # NoIdentity
      BY <1>3, <3>2 DEF Captured, a, N
    <3>4. Captured'
      <4>1. a > 1
        BY <1>1, <3>1
      <4> QED
        BY <1>2, <1>3, <2>1, <3>3, <4>1, CapturedOn DEF a, N
    <3>5. ManifestRead'
      <4>1. a + 1 > 4 + N /\ a + 1 # 4
        BY <1>1, <3>1
      <4> QED
        BY <1>1, <2>1, <4>1 DEF ManifestRead, N
    <3>6. insp.bytes[f] = insp.captured[f].time
      <4>1. insp.captured[f].time <= insp.bytes[f] /\ insp.bytes[f] <= disk[f].time
        BY <1>3, <2>4 DEF FilesRead, a, N
      <4> QED
        BY <2>2, <4>1
    <3>7. FilesRead'
      <4> SUFFICES ASSUME NEW j \in 1..N, a + 1 > VerifyAt(j)
                   PROVE  insp.bytes[Declared[j]] = insp.captured[Declared[j]].time
        BY <2>1, <3>2 DEF FilesRead, VerifyAt, OpenAt, N
      <4> QED
        BY <1>3, <2>4, <3>2, <3>6 DEF FilesRead, a, N
    <3>8. SeenTogether \/ \E j \in 1..N : Doomed(j)
      <4>1. a > 4 + N
        BY <1>1, <3>1
      <4> QED
        BY <1>3, <4>1 DEF OneMoment, a, N
    <3>9. CASE SeenTogether
      <4>1. SeenTogether'
        BY <2>1, <3>9 DEF SeenTogether
      <4> QED
        BY <2>1, <3>4, <3>5, <3>7, <4>1 DEF InspectInv, OneMoment
    <3>10. ASSUME NEW j \in 1..N, Doomed(j)
           PROVE  InspectInv'
      <4>1. a + 1 <= OpenAt(j)
        BY <3>2, <3>10 DEF Doomed, a
      <4>2. Doomed(j)'
        BY <2>1, <3>10, <4>1 DEF Doomed, OpenAt
      <4> QED
        BY <2>1, <3>4, <3>5, <3>7, <4>2 DEF InspectInv, OneMoment, N
    <3> QED
      BY <3>8, <3>9, <3>10
  <2> QED
    BY <1>1, <2>3, <2>4, StepOf DEF a, N
<1> QED
  BY <1>4, <1>5 DEF VerifyFile

LEMMA ValidateKeeps ==
  ASSUME InspectInv, ValidateContents
  PROVE  InspectInv'
<1>1. CASE FailInspection
  BY <1>1, FailKeeps
<1>2. CASE /\ insp' = [insp EXCEPT !.st = "done"]
           /\ UNCHANGED <<disk, dirTime, sealed, moments, writes, rewrote>>
  <2>1. insp \in Inspections /\ insp.st = "validate"
    BY DEF InspectInv, DiskType, ValidateContents
  <2>2. /\ insp' \in Inspections /\ insp'.st = "done" /\ insp'.at = insp.at
        /\ insp'.captured = insp.captured /\ insp'.bytes = insp.bytes
    BY <1>2, <2>1 DEF Inspections
  <2>3. DiskType' /\ Stamped'
    BY <1>2, <2>1, <2>2 DEF InspectInv, DiskType, Stamped, Contents, LastStep
  <2>4. Captured /\ ManifestRead /\ FilesRead /\ OneMoment
    BY <2>1 DEF InspectInv
  <2>5. Captured'
    BY <1>2, <2>2, <2>4 DEF Captured, CaptureAt
  <2>6. ManifestRead' /\ FilesRead'
    BY <1>2, <2>2, <2>4 DEF ManifestRead, FilesRead, VerifyAt, OpenAt
  <2>7. OneMoment'
    BY <1>2, <2>2, <2>4 DEF OneMoment, SeenTogether, Doomed, OpenAt
  <2> QED
    BY <2>3, <2>5, <2>6, <2>7 DEF InspectInv
<1> QED
  BY <1>1, <1>2 DEF ValidateContents

\* Sealing the copy, or doing nothing, leaves the inspection and the disk alone.
LEMMA ApartKeeps ==
  ASSUME InspectInv, UNCHANGED <<disk, dirTime, insp, moments, writes, rewrote>>
  PROVE  InspectInv'
<1>1. DiskType' /\ Stamped'
  BY DEF InspectInv, DiskType, Stamped, Contents, LastStep
<1>2. insp.st # "failed" => Captured' /\ ManifestRead' /\ FilesRead'
  BY DEF InspectInv, Captured, CaptureAt, ManifestRead, FilesRead, VerifyAt, OpenAt
<1>3. insp.st # "failed" => OneMoment'
  BY DEF InspectInv, OneMoment, SeenTogether, Doomed, OpenAt
<1> QED
  BY <1>1, <1>2, <1>3 DEF InspectInv

\* What the writer does to the disk: times only grow, and a manifest that is not
\* what it was has been replaced in a directory that shows it, or overwritten.
LEMMA WriterFacts ==
  ASSUME InspectInv, NEW f \in Files, WriterChanges(f)
  PROVE  /\ DiskType' /\ Stamped' /\ insp' = insp /\ dirTime' \in Nat /\ dirTime <= dirTime'
         /\ \A g \in Files : disk'[g].time \in Nat /\ disk[g].time <= disk'[g].time
         /\ moments \subseteq moments' /\ (rewrote => rewrote')
         /\ \/ disk'[Manifest].time = disk[Manifest].time
            \/ dirTime' > dirTime \/ insp.at <= 4 \/ rewrote'
<1> DEFINE w == writes + 1
<1>1. /\ disk \in [Files -> DiskFiles] /\ dirTime \in Nat /\ writes \in Nat
      /\ rewrote \in BOOLEAN /\ insp \in Inspections /\ insp.at \in Nat
      /\ dirTime <= writes /\ \A g \in Files : disk[g].bytes = disk[g].time /\ disk[g].time <= writes
  BY DEF InspectInv, DiskType, Stamped, Inspections
<1>2. /\ writes' = w /\ insp' = insp /\ moments' = moments \cup {Contents(disk')}
      /\ w \in Nat /\ w > writes
  BY <1>1 DEF WriterChanges
<1>3. \A g \in Files : disk[g] \in DiskFiles /\ disk[g].time \in Nat /\ disk[g].bytes \in Nat
  BY <1>1 DEF DiskFiles
<1> HIDE DEF w
<1>4. /\ disk' \in [Files -> DiskFiles] /\ disk'[f].time = w /\ disk'[f].bytes = w
      /\ \A g \in Files : g # f => disk'[g] = disk[g]
      /\ \/ dirTime' = dirTime /\ rewrote' = (rewrote \/ (f = Manifest /\ insp.at > 4))
         \/ dirTime' = w /\ rewrote' = rewrote
  <2>1. CASE /\ disk' = [disk EXCEPT ![f].time = writes', ![f].bytes = writes']
             /\ rewrote' = (rewrote \/ (f = Manifest /\ insp.at > 4))
             /\ UNCHANGED dirTime
    <3> DEFINE node == [[disk[f] EXCEPT !.time = w] EXCEPT !.bytes = w]
    <3>1. node \in DiskFiles /\ node.time = w /\ node.bytes = w
      BY <1>2, <1>3 DEF DiskFiles
    <3>2. disk' = [disk EXCEPT ![f] = node]
      BY <1>1, <1>2, <2>1
    <3> HIDE DEF node
    <3> QED
      BY <1>1, <2>1, <3>1, <3>2
  <2>2. ASSUME NEW k \in {"file", "link", "gone"},
               disk' = [disk EXCEPT ![f] = [node |-> writes', time |-> writes',
                                            kind |-> k, bytes |-> writes']],
               dirTime' = writes', UNCHANGED rewrote
        PROVE  <1>4!1 /\ <1>4!2
    <3> DEFINE node == [node |-> w, time |-> w, kind |-> k, bytes |-> w]
    <3>1. node \in DiskFiles /\ node.time = w /\ node.bytes = w
      BY <1>2 DEF DiskFiles
    <3>2. disk' = [disk EXCEPT ![f] = node]
      BY <1>2, <2>2
    <3> HIDE DEF node
    <3> QED
      BY <1>1, <1>2, <2>2, <3>1, <3>2
  <2> QED
    BY <2>1, <2>2 DEF WriterChanges
<1>5. dirTime' \in Nat /\ dirTime <= dirTime' /\ dirTime' <= w /\ (rewrote => rewrote')
      /\ rewrote' \in BOOLEAN
  <2>1. CASE dirTime' = dirTime /\ rewrote' = (rewrote \/ (f = Manifest /\ insp.at > 4))
    <3>1. dirTime' \in Nat /\ dirTime <= dirTime' /\ dirTime' <= w
      BY <1>1, <1>2, <2>1
    <3>2. (rewrote => rewrote') /\ rewrote' \in BOOLEAN
      BY <2>1, ZenonT(20)
    <3> QED
      BY <3>1, <3>2
  <2>2. CASE dirTime' = w /\ rewrote' = rewrote
    <3>1. dirTime' \in Nat /\ dirTime <= dirTime' /\ dirTime' <= w
      BY <1>1, <1>2, <2>2
    <3>2. (rewrote => rewrote') /\ rewrote' \in BOOLEAN
      BY <1>1, <2>2
    <3> QED
      BY <3>1, <3>2
  <2> QED
    BY <1>4, <2>1, <2>2
<1>6. \A g \in Files : /\ disk'[g].time \in Nat /\ disk[g].time <= disk'[g].time
                       /\ disk'[g].bytes = disk'[g].time /\ disk'[g].time <= w
  BY <1>1, <1>2, <1>3, <1>4
<1>7. DiskType'
  BY <1>2, <1>4, <1>5 DEF InspectInv, DiskType, LastStep
<1>8. Stamped'
  BY <1>2, <1>5, <1>6 DEF Stamped
<1>9. \/ disk'[Manifest].time = disk[Manifest].time
      \/ dirTime' > dirTime \/ insp.at <= 4 \/ rewrote'
  <2>1. CASE f # Manifest
    BY <1>4, <2>1, FileFacts
  <2>2. CASE dirTime' = w
    BY <1>1, <1>2, <2>2
  <2>3. CASE f = Manifest /\ rewrote' = (rewrote \/ (f = Manifest /\ insp.at > 4))
    <3>1. insp.at <= 4 \/ insp.at > 4
      BY <1>1
    <3>2. insp.at > 4 => rewrote'
      BY <2>3, Zenon
    <3> QED
      BY <3>1, <3>2
  <2> QED
    BY <1>4, <2>1, <2>2, <2>3
<1> QED
  BY <1>2, <1>5, <1>6, <1>7, <1>8, <1>9

LEMMA WriterKeeps ==
  ASSUME InspectInv, NEW f \in Files, WriterChanges(f)
  PROVE  InspectInv'
<1> DEFINE N == Len(Declared)
<1>1. /\ DiskType' /\ Stamped' /\ insp' = insp /\ dirTime' \in Nat /\ dirTime <= dirTime'
      /\ \A g \in Files : disk'[g].time \in Nat /\ disk[g].time <= disk'[g].time
      /\ moments \subseteq moments' /\ (rewrote => rewrote')
      /\ \/ disk'[Manifest].time = disk[Manifest].time
         \/ dirTime' > dirTime \/ insp.at <= 4 \/ rewrote'
  BY WriterFacts
<1> SUFFICES ASSUME insp.st # "failed"
             PROVE  Captured' /\ ManifestRead' /\ FilesRead' /\ OneMoment'
  BY <1>1 DEF InspectInv
<1>2. /\ Captured /\ ManifestRead /\ FilesRead /\ OneMoment /\ N \in Nat
      /\ dirTime \in Nat /\ Manifest \in Files /\ \A k \in 1..N : Declared[k] \in Files
  BY FileFacts DEF InspectInv
<1>3. \A g \in Files : /\ disk[g].time \in Nat /\ insp.bytes[g] \in Nat
                       /\ insp.captured[g] # NoIdentity => /\ insp.captured[g].time \in Nat
                                                           /\ insp.captured[g].dir \in Nat
  BY FileFacts
<1>4. insp.at \in Nat
  BY DEF InspectInv, DiskType, Inspections
<1>5. Captured'
  <2>1. ASSUME NEW g \in Files, insp.captured[g] # NoIdentity
        PROVE  insp.captured[g].time <= disk'[g].time
    <3>1. insp.captured[g].time <= disk[g].time
      BY <1>2, <2>1 DEF Captured
    <3> QED
      BY <1>1, <1>3, <2>1, <3>1
  <2>2. insp.at > 1 => /\ insp.captured[Manifest] # NoIdentity
                       /\ insp.captured[Manifest].dir <= dirTime'
    <3>1. insp.at > 1 => /\ insp.captured[Manifest] # NoIdentity
                         /\ insp.captured[Manifest].dir <= dirTime
      BY <1>2 DEF Captured
    <3> QED
      BY <1>1, <1>2, <1>3, <3>1
  <2>3. insp.at = 1 => insp.captured[Manifest] = NoIdentity
    BY <1>2 DEF Captured
  <2>4. \A k \in 1..N : insp.at > CaptureAt(k) => insp.captured[Declared[k]] # NoIdentity
    BY <1>2 DEF Captured
  <2> QED
    BY <1>1, <2>1, <2>2, <2>3, <2>4 DEF Captured, CaptureAt
<1>6. ManifestRead'
  <2>1. ASSUME insp.at = 4
        PROVE  /\ insp.captured[Manifest].time <= insp.bytes[Manifest]
               /\ insp.bytes[Manifest] <= disk'[Manifest].time
    <3>1. /\ insp.captured[Manifest].time <= insp.bytes[Manifest]
          /\ insp.bytes[Manifest] <= disk[Manifest].time
      BY <1>2, <2>1 DEF ManifestRead
    <3> QED
      BY <1>1, <1>2, <1>3, <3>1
  <2>2. ASSUME insp.at \in 5..(4 + N)
        PROVE  \/ disk'[Manifest].time = insp.bytes[Manifest]
               \/ rewrote' \/ dirTime' > insp.captured[Manifest].dir
    <3>1. \/ disk[Manifest].time = insp.bytes[Manifest]
          \/ rewrote \/ dirTime > insp.captured[Manifest].dir
      BY <1>2, <2>2 DEF ManifestRead
    <3>2. /\ insp.captured[Manifest] # NoIdentity /\ insp.captured[Manifest].dir <= dirTime
          /\ insp.captured[Manifest].dir \in Nat /\ ~(insp.at <= 4)
      BY <1>2, <1>3, <1>4, <2>2 DEF Captured
    <3>3. dirTime' > dirTime => dirTime' > insp.captured[Manifest].dir
      BY <1>1, <1>2, <3>2
    <3>4. dirTime > insp.captured[Manifest].dir => dirTime' > insp.captured[Manifest].dir
      BY <1>1, <1>2, <3>2
    <3> QED
      BY <1>1, <3>1, <3>2, <3>3, <3>4
  <2> QED
    BY <1>1, <2>1, <2>2 DEF ManifestRead
<1>7. FilesRead'
  <2> SUFFICES ASSUME NEW k \in 1..N
               PROVE  /\ insp.at = VerifyAt(k) =>
                           /\ insp.captured[Declared[k]].time <= insp.bytes[Declared[k]]
                           /\ insp.bytes[Declared[k]] <= disk'[Declared[k]].time
                      /\ insp.at > VerifyAt(k) =>
                           insp.bytes[Declared[k]] = insp.captured[Declared[k]].time
    BY <1>1 DEF FilesRead, VerifyAt, OpenAt
  <2>1. insp.at = VerifyAt(k) =>
          /\ insp.captured[Declared[k]].time <= insp.bytes[Declared[k]]
          /\ insp.bytes[Declared[k]] <= disk[Declared[k]].time
    BY <1>2 DEF FilesRead
  <2>2. insp.at > VerifyAt(k) => insp.bytes[Declared[k]] = insp.captured[Declared[k]].time
    BY <1>2 DEF FilesRead
  <2>3. Declared[k] \in Files
    BY <1>2
  <2>4. /\ disk'[Declared[k]].time \in Nat /\ disk[Declared[k]].time <= disk'[Declared[k]].time
        /\ disk[Declared[k]].time \in Nat /\ insp.bytes[Declared[k]] \in Nat
    BY <1>1, <1>3, <2>3
  <2>5. insp.bytes[Declared[k]] <= disk[Declared[k]].time =>
          insp.bytes[Declared[k]] <= disk'[Declared[k]].time
    BY <2>4
  <2> QED
    BY <2>1, <2>2, <2>5
<1>8. OneMoment'
  <2> SUFFICES ASSUME insp.at > 4 + N
               PROVE  SeenTogether' \/ \E k \in 1..N : Doomed(k)'
    BY <1>1 DEF OneMoment
  <2>1. SeenTogether => SeenTogether'
    BY <1>1 DEF SeenTogether
  <2>2. ASSUME NEW k \in 1..N, Doomed(k)
        PROVE  Doomed(k)'
    <3>1. insp.at > CaptureAt(k) /\ Declared[k] \in Files
      BY <1>2, <1>4 DEF CaptureAt
    <3>2. insp.captured[Declared[k]] # NoIdentity
      BY <1>2, <3>1 DEF Captured
    <3>3. insp.captured[Declared[k]].time \in Nat /\ disk[Declared[k]].time \in Nat
          /\ disk'[Declared[k]].time \in Nat /\ disk[Declared[k]].time <= disk'[Declared[k]].time
      BY <1>1, <1>3, <3>1, <3>2
    <3>4. disk'[Declared[k]].time > insp.captured[Declared[k]].time
      BY <2>2, <3>3 DEF Doomed
    <3> QED
      BY <1>1, <2>2, <3>4 DEF Doomed, OpenAt
  <2> QED
    BY <1>2, <2>1, <2>2 DEF OneMoment
<1> QED
  BY <1>5, <1>6, <1>7, <1>8

LEMMA InspectStarts == InspectInit => InspectInv
<1> SUFFICES ASSUME InspectInit
             PROVE  InspectInv
  OBVIOUS
<1>1. Manifest \in Files /\ Len(Declared) \in Nat /\ LastStep \in Nat /\ LastStep >= 4
  BY InspectOrder DEF Files, LastStep
<1>2. /\ disk = [f \in Files |-> [node |-> 0, time |-> 0, kind |-> "file", bytes |-> 0]]
      /\ dirTime = 0 /\ writes = 0 /\ rewrote = FALSE /\ moments = {[f \in Files |-> 0]}
      /\ insp = [st |-> "running", at |-> 1, captured |-> [f \in Files |-> NoIdentity],
                 bytes |-> [f \in Files |-> 0]]
  BY DEF InspectInit
<1>3. DiskType
  <2>1. disk \in [Files -> DiskFiles]
    BY <1>2 DEF DiskFiles
  <2>2. insp \in Inspections /\ insp.st = "running" /\ insp.at = 1
    BY <1>2 DEF Inspections
  <2>3. 1 \in 1..(LastStep + 1) /\ 1 <= LastStep
    BY <1>1
  <2>4. dirTime \in Nat /\ writes \in Nat /\ rewrote \in BOOLEAN
    BY <1>2
  <2> QED
    BY <2>1, <2>2, <2>3, <2>4 DEF DiskType
<1>4. Stamped
  <2>1. Contents(disk) = [f \in Files |-> 0]
    BY <1>2 DEF Contents
  <2> QED
    BY <1>2, <2>1 DEF Stamped
<1>5. insp.at = 1 /\ \A f \in Files : insp.captured[f] = NoIdentity
  BY <1>2
<1>6. \A k \in 1..Len(Declared) : ~(1 > CaptureAt(k)) /\ ~(1 >= VerifyAt(k))
  BY <1>1 DEF CaptureAt, VerifyAt, OpenAt
<1>7. Captured
  BY <1>1, <1>5, <1>6 DEF Captured
<1>8. ManifestRead /\ OneMoment
  BY <1>1, <1>5 DEF ManifestRead, OneMoment
<1>9. FilesRead
  BY <1>1, <1>5, <1>6 DEF FilesRead, VerifyAt, OpenAt
<1> QED
  BY <1>3, <1>4, <1>7, <1>8, <1>9 DEF InspectInv

\* An inspection that has read everything has seen what it captured.
LEMMA InspectedIsSeen == InspectInv => InspectedAtOneMoment
<1> DEFINE N == Len(Declared)
<1> SUFFICES ASSUME InspectInv, insp.st \in {"validate", "done"}
             PROVE  \E c \in moments :
                      /\ \A k \in DOMAIN Declared : insp.bytes[Declared[k]] = c[Declared[k]]
                      /\ insp.bytes[Manifest] = c[Manifest] \/ rewrote
  BY DEF InspectedAtOneMoment
<1>1. N \in Nat /\ DOMAIN Declared = 1..N /\ insp.at = 5 + 4 * N
  BY InspectOrder DEF InspectInv, DiskType, LastStep
<1>2. FilesRead /\ OneMoment
  BY DEF InspectInv
<1>3. \A k \in 1..N : insp.at > VerifyAt(k) /\ ~(insp.at <= OpenAt(k))
  BY <1>1 DEF VerifyAt, OpenAt
<1>4. SeenTogether
  BY <1>1, <1>2, <1>3 DEF OneMoment, Doomed
<1>5. \A k \in 1..N : insp.bytes[Declared[k]] = insp.captured[Declared[k]].time
  BY <1>2, <1>3 DEF FilesRead
<1>6. PICK c \in moments :
        /\ \A k \in 1..N : c[Declared[k]] = insp.captured[Declared[k]].time
        /\ \/ insp.bytes[Manifest] = c[Manifest]
           \/ rewrote \/ \E k \in 1..N : Declared[k] = Manifest
  BY <1>4 DEF SeenTogether
<1> QED
  BY <1>1, <1>5, <1>6

\* However the writer interleaves its changes with the inspection's steps, an
\* inspection that succeeds has read the declared files as they were together at
\* one moment, with the manifest of that moment unless it was overwritten in
\* place after it was read (inspectEmployeePackage).
THEOREM SeenAtOneMoment == InspectSpec => []InspectedAtOneMoment
<1>1. InspectInv /\ [InspectNext]_inspectVars => InspectInv'
  <2> SUFFICES ASSUME InspectInv, [InspectNext]_inspectVars
               PROVE  InspectInv'
    OBVIOUS
  <2>1. CASE \E f \in Files : \/ CapturePath(f) \/ OpenFile(f) \/ ReadFile(f) \/ VerifyFile(f)
                              \/ WriterChanges(f)
    BY <2>1, CaptureKeeps, OpenKeeps, ReadKeeps, VerifyFileKeeps, WriterKeeps
  <2>2. CASE ValidateContents
    BY <2>2, ValidateKeeps
  <2>3. CASE SealCopies \/ SealCleanup \/ UNCHANGED inspectVars
    BY <2>3, ApartKeeps DEF SealCopies, SealCleanup, inspectVars
  <2> QED
    BY <2>1, <2>2, <2>3 DEF InspectNext
<1> QED
  BY <1>1, InspectStarts, InspectedIsSeen, PTL DEF InspectSpec
-----------------------------------------------------------------------------
(* Package archives. *)
\* What is in circulation has the form of an archive, what packArchive
\* returned it had accepted, and the store holds complete packages only.
ArchiveInv ==
  /\ archives \subseteq Archives
  /\ \A a \in packed : \E t \in DOMAIN ManifestOf, files \in FileLists :
       PackAccepts(t, files) /\ a = Packed(t, files)
  /\ InstalledIsWhole
  /\ current = [n \in DOMAIN current |-> current[n]]

LEMMA FileListsTyped ==
  ASSUME NEW l \in FileLists
  PROVE  l \in Seq(PackageFile)
<1> DEFINE Shape == [path : {f.path : f \in Range(l)}, bytes : {f.bytes : f \in Range(l)}]
<1>1. l \in Seq(Shape)
  BY FileListsAssumption DEF FileListsAssumption
<1>2. Range(l) \subseteq FilesHandedIn
  BY DEF FilesHandedIn
<1>3. Shape \subseteq PackageFile
  BY <1>2 DEF PackageFile, Paths, Texts
<1> HIDE DEF Shape
<1>4. \A k \in 1..Len(l) : l[k] \in PackageFile
  BY <1>1, <1>3
<1>5. QED
  BY <1>1, <1>4

LEMMA FileTyped ==
  ASSUME NEW p \in Paths, NEW b \in Texts
  PROVE  File(p, b) \in PackageFile
  BY DEF File, PackageFile

\* Where every path occurs only once the manifest is found.
LEMMA ManifestAtFound ==
  ASSUME NEW T, NEW files \in Seq(T), ManifestPath \in PathsOf(files),
         Distinct([k \in DOMAIN files |-> files[k].path])
  PROVE  /\ ManifestAt(files) \in DOMAIN files
         /\ files[ManifestAt(files)].path = ManifestPath
<1>1. PICK j \in DOMAIN files : files[j].path = ManifestPath
  BY DEF PathsOf, Range
<1>2. \A i \in DOMAIN files : files[i].path = ManifestPath => i = j
  BY <1>1 DEF Distinct, IsInjective
<1>3. 1..(j - 1) \subseteq DOMAIN files /\ j \notin 1..(j - 1)
  OBVIOUS
<1>4. \A i \in 1..(j - 1) : files[i].path # ManifestPath
  BY <1>2, <1>3
<1>5. QED
  BY <1>1, <1>4 DEF ManifestAt

\* Packing keeps the paths of the files and adds that of the manifest, once.
LEMMA ContentOf ==
  ASSUME NEW t \in DOMAIN ManifestOf, NEW files \in Seq(PackageFile),
         Distinct([k \in DOMAIN files |-> files[k].path])
  PROVE  /\ Content(t, files) \in Seq(PackageFile)
         /\ PathsOf(Content(t, files)) = PathsOf(files) \cup {ManifestPath}
         /\ Distinct([k \in DOMAIN Content(t, files) |-> Content(t, files)[k].path])
         /\ ManifestText(Content(t, files)) = t
<1> DEFINE c == Content(t, files)
           m == File(ManifestPath, t)
           n == Len(files)
<1>1. m \in PackageFile /\ m.path = ManifestPath /\ m.bytes = t
  BY FileTyped DEF File, Paths, Texts
<1>2. n \in Nat /\ DOMAIN files = 1..n /\ \A k \in 1..n : files[k] \in PackageFile
  OBVIOUS
<1>3. c \in Seq(PackageFile)
      /\ \E j \in DOMAIN c :
           /\ c[j] = m
           /\ \A i \in DOMAIN c \ {j} : i \in DOMAIN files /\ c[i] = files[i]
                                        /\ files[i].path # ManifestPath
           /\ \A i \in DOMAIN files : i \in DOMAIN c /\ (i # j \/ files[i].path = ManifestPath)
  <2>1. CASE ManifestPath \in PathsOf(files)
    <3> DEFINE j == ManifestAt(files)
    <3>1. j \in 1..n /\ files[j].path = ManifestPath
      BY <2>1, <1>2, ManifestAtFound
    <3>2. c = [files EXCEPT ![j] = m]
      BY <2>1 DEF Content, ReplaceAt
    <3>3. c \in Seq(PackageFile) /\ Len(c) = n /\ c[j] = m /\ DOMAIN c = 1..n
          /\ \A i \in 1..n : i # j => c[i] = files[i]
      <4> HIDE DEF c, m, j
      <4>1. QED
        BY <3>1, <3>2, <1>1, <1>2
    <3>4. \A i \in 1..n : i # j => files[i].path # ManifestPath
      BY <3>1, <1>2 DEF Distinct, IsInjective
    <3> HIDE DEF c, m, j
    <3>5. QED
      BY <3>1, <3>3, <3>4, <1>2
  <2>2. CASE ManifestPath \notin PathsOf(files)
    <3>1. c = Append(files, m)
      BY <2>2 DEF Content
    <3>2. \A i \in 1..n : files[i].path # ManifestPath
      BY <2>2, <1>2 DEF PathsOf, Range
    <3>3. c \in Seq(PackageFile) /\ DOMAIN c = 1..(n + 1) /\ c[n + 1] = m
          /\ \A i \in 1..n : c[i] = files[i]
      <4> HIDE DEF c, m
      <4>1. QED
        BY <3>1, <1>1, <1>2
    <3> HIDE DEF c, m
    <3>4. n + 1 \in DOMAIN c
      BY <3>3, <1>2
    <3>5. \A i \in DOMAIN c \ {n + 1} : i \in 1..n
      BY <3>3, <1>2
    <3>6. \A i \in 1..n : i \in DOMAIN c /\ i # n + 1
      BY <3>3, <1>2
    <3>7. QED
      BY <3>2, <3>3, <3>4, <3>5, <3>6, <1>2
  <2>3. QED
    BY <2>1, <2>2
<1>4. PICK j \in DOMAIN c :
        /\ c[j] = m
        /\ \A i \in DOMAIN c \ {j} : i \in DOMAIN files /\ c[i] = files[i]
                                     /\ files[i].path # ManifestPath
        /\ \A i \in DOMAIN files : i \in DOMAIN c /\ (i # j \/ files[i].path = ManifestPath)
  BY <1>3
<1> HIDE DEF c, m
<1>5. PathsOf(c) = PathsOf(files) \cup {ManifestPath}
  <2>1. PathsOf(c) = {c[i].path : i \in DOMAIN c}
        /\ PathsOf(files) = {files[i].path : i \in DOMAIN files}
    BY DEF PathsOf, Range
  <2>2. QED
    BY <2>1, <1>1, <1>4
<1>6. Distinct([k \in DOMAIN c |-> c[k].path])
  <2>1. ASSUME NEW a \in DOMAIN c, NEW b \in DOMAIN c, c[a].path = c[b].path
        PROVE  a = b
    <3>1. a # j /\ b # j => a = b
      BY <2>1, <1>4 DEF Distinct, IsInjective
    <3>2. QED
      BY <2>1, <3>1, <1>1, <1>4
  <2>2. QED
    BY <2>1 DEF Distinct, IsInjective
<1>7. ManifestText(c) = t
  <2>1. ManifestPath \in PathsOf(c)
    BY <1>5
  <2>2. ManifestAt(c) \in DOMAIN c /\ c[ManifestAt(c)].path = ManifestPath
    BY <1>3, <1>6, <2>1, ManifestAtFound
  <2>3. ManifestAt(c) = j
    BY <2>2, <1>4
  <2>4. QED
    BY <2>1, <2>3, <1>1, <1>4 DEF ManifestText
<1>8. QED
  BY <1>3, <1>5, <1>6, <1>7 DEF c

\* What packArchive returns verifies, if the paths are short in bytes too.
LEMMA PackedVerified ==
  ASSUME NEW t \in DOMAIN ManifestOf, NEW files \in FileLists, PackAccepts(t, files)
  PROVE  /\ Packed(t, files) \in Archives
         /\ \/ VerifyArchive(Packed(t, files)) = {}
            \/ PathsOf(Packed(t, files).files) \cap LongPaths # {}
<1> DEFINE c == Content(t, files)
           a == Packed(t, files)
           m == ManifestOf[t]
<1>1. files \in Seq(PackageFile) /\ Distinct([k \in DOMAIN files |-> files[k].path])
  BY FileListsTyped DEF PackAccepts
<1>2. /\ c \in Seq(PackageFile)
      /\ PathsOf(c) = PathsOf(files) \cup {ManifestPath}
      /\ Distinct([k \in DOMAIN c |-> c[k].path])
      /\ ManifestText(c) = t
  BY <1>1, ContentOf
<1>3. Range(c) \subseteq PackageFile
  BY <1>2 DEF Range
<1>4. a = [intact |-> TRUE, files |-> c,
           meta |-> [format |-> FormatVersion, packageDigest |-> Range(c),
                     archiveDigest |-> Range(c)]]
  BY DEF Packed, PackageDigest, ArchiveDigest
<1>5. a \in Archives
  <2> HIDE DEF a, c
  <2>1. QED
    BY <1>2, <1>3, <1>4 DEF Archives, Metas
<1>6. ManifestValid(m) /\ SchemaCompatible(m)
      /\ (\A p \in PathsOf(files) : PathPortable(p) /\ ~SecretPath(p))
      /\ RequiredPaths(m) \ {ManifestPath} = PathsOf(files) \ {ManifestPath}
  BY DEF PackAccepts
<1> HIDE DEF a, c
<1>7. \A p \in PathsOf(c) : PathPortable(p) /\ ~SecretPath(p)
  BY <1>2, <1>6, ManifestPathAssumption DEF ManifestPathAssumption, PathPortable, SecretPath
<1>8. PackageDigestComputable(c)
  <2>1. c # <<>>
    BY <1>2 DEF PathsOf, Range
  <2>2. QED
    BY <2>1, <1>2, <1>7 DEF PackageDigestComputable
<1>9. ContentErrors(c) = {}
  <2>1. t # NoValue
    BY NoValueAssumption DEF NoValueAssumption
  <2>2. RequiredPaths(m) \subseteq PathsOf(c) /\ PathsOf(c) \subseteq RequiredPaths(m) \cup {ManifestPath}
    BY <1>2, <1>6
  <2>3. QED
    BY <2>1, <2>2, <1>2, <1>6 DEF ContentErrors, ErrorUnless
<1>10. PathErrors(c) = {}
  BY <1>7 DEF PathErrors, ErrorUnless
<1>11. a.files = c /\ a.intact /\ a.meta.format = FormatVersion
       /\ a.meta.packageDigest = Range(c) /\ a.meta.archiveDigest = Range(c)
  BY <1>4
<1>12. ASSUME PathsOf(c) \cap LongPaths = {}
       PROVE  VerifyArchive(a) = {}
  <2>1. a.meta # NoValue
    <3>1. a.meta \in Metas
      BY <1>3, <1>4 DEF Metas
    <3>2. QED
      BY <3>1, NoValueAssumption DEF NoValueAssumption
  <2>2. Deserialisable(a)
    BY <1>11, <1>12 DEF Deserialisable
  <2>3. QED
    BY <2>1, <2>2, <1>8, <1>9, <1>10, <1>11
    DEF VerifyArchive, ErrorUnless, PackageDigest, ArchiveDigest
<1>13. QED
  BY <1>5, <1>11, <1>12 DEF a

\* An archive that verifies is a complete package.
LEMMA VerifiedIsWhole ==
  ASSUME NEW a \in Archives, VerifyArchive(a) = {}
  PROVE  /\ PackageDigestComputable(a.files)
         /\ ManifestValid(Installed(a))
         /\ PathsOf(a.files) = {ManifestPath} \cup RequiredPaths(Installed(a))
         /\ PathsOf(a.files) \cap (EscapingPaths \cup SecretPaths) = {}
<1>1. PackageDigestComputable(a.files) /\ ContentErrors(a.files) = {} /\ PathErrors(a.files) = {}
  BY DEF VerifyArchive
<1> DEFINE t == ManifestText(a.files)
<1>2. t # NoValue /\ ManifestValid(Installed(a))
      /\ RequiredPaths(Installed(a)) \subseteq PathsOf(a.files)
      /\ PathsOf(a.files) \subseteq RequiredPaths(Installed(a)) \cup {ManifestPath}
  BY <1>1 DEF ContentErrors, ErrorUnless, Installed
<1>3. ManifestPath \in PathsOf(a.files)
  BY <1>2 DEF ManifestText
<1>4. PathsOf(a.files) \cap (EscapingPaths \cup SecretPaths) = {}
  BY <1>1 DEF PathErrors, ErrorUnless, PathPortable, SecretPath
<1>5. QED
  BY <1>1, <1>2, <1>3, <1>4

\* Where no path occurs twice there are as many files as paths.
LEMMA AsManyFilesAsPaths ==
  ASSUME NEW files \in Seq(PackageFile), Distinct([k \in DOMAIN files |-> files[k].path])
  PROVE  Cardinality(Range(files)) = Cardinality(PathsOf(files))
<1> DEFINE S == Range(files)
           T == PathsOf(files)
           f == [x \in S |-> x.path]
           g == [k \in 1..Len(files) |-> files[k]]
<1>1. IsFiniteSet(S)
  <2>1. IsFiniteSet(1..Len(files))
    BY FS_Interval
  <2>2. g \in Surjection(1..Len(files), S)
    BY DEF Surjection, Range
  <2>3. QED
    BY <2>1, <2>2, FS_Surjection
<1>2. T = {x.path : x \in S}
  BY DEF PathsOf
<1>3. f \in Surjection(S, T)
  BY <1>2 DEF Surjection
<1>4. \A x, y \in S : x.path = y.path => x = y
  BY DEF Distinct, IsInjective, Range
<1>5. f \in Injection(S, T)
  BY <1>2, <1>4 DEF Injection, IsInjective
<1>6. QED
  BY <1>1, <1>3, <1>5, FS_Surjection

\* Putting a record under its key keeps a store of complete packages one.
Whole(k, r) ==
  LET m == ManifestOf[r.manifest]
  IN /\ RecordKey(m) = k /\ ManifestValid(m)
     /\ {f.path : f \in r.packageDigest} = {ManifestPath} \cup RequiredPaths(m)
     /\ Cardinality(r.packageDigest) = Cardinality(r.files)
     /\ r.files \cap (EscapingPaths \cup SecretPaths) = {}

LEMMA WholeRestated ==
  InstalledIsWhole <=> /\ \A k \in DOMAIN records : Whole(k, records[k])
                       /\ \A n \in DOMAIN current : <<n, current[n]>> \in DOMAIN records
  BY DEF InstalledIsWhole, Whole

LEMMA PutCurrentWhole ==
  ASSUME ArchiveInv, NEW a \in archives, VerifyArchive(a) = {}, PutCurrent(a)
  PROVE  InstalledIsWhole' /\ current' = [n \in DOMAIN current' |-> current'[n]]
<1> DEFINE m == Installed(a)
           r == [packageDigest |-> PackageDigest(a.files), archiveDigest |-> ArchiveDigest(a.files),
                 files |-> PathsOf(a.files), manifest |-> ManifestText(a.files)]
<1>1. a \in Archives /\ a.files \in Seq(PackageFile)
  BY DEF ArchiveInv, Archives
<1>2. records' = Put(records, RecordKey(m), r) /\ current' = Put(current, m.name, m.version)
  BY DEF PutCurrent
<1>3. Whole(RecordKey(m), r)
  <2>1. /\ PackageDigestComputable(a.files)
        /\ ManifestValid(m)
        /\ PathsOf(a.files) = {ManifestPath} \cup RequiredPaths(m)
        /\ PathsOf(a.files) \cap (EscapingPaths \cup SecretPaths) = {}
    BY <1>1, VerifiedIsWhole
  <2>2. Cardinality(Range(a.files)) = Cardinality(PathsOf(a.files))
    BY <1>1, <2>1, AsManyFilesAsPaths DEF PackageDigestComputable
  <2>3. m = ManifestOf[r.manifest] /\ r.packageDigest = Range(a.files) /\ r.files = PathsOf(a.files)
    BY DEF Installed, PackageDigest
  <2>4. {f.path : f \in r.packageDigest} = PathsOf(a.files)
    BY <2>3 DEF PathsOf
  <2> HIDE DEF m, r
  <2>5. QED
    BY <2>1, <2>2, <2>3, <2>4 DEF Whole
<1> HIDE DEF m, r
<1>4. \A k \in DOMAIN records : Whole(k, records[k])
  BY WholeRestated DEF ArchiveInv
<1>5. ASSUME NEW k \in DOMAIN records'
      PROVE  Whole(k, records'[k])
  BY <1>2, <1>3, <1>4 DEF Put
<1>6. \A n \in DOMAIN current : <<n, current[n]>> \in DOMAIN records
  BY DEF ArchiveInv, InstalledIsWhole
<1>7. ASSUME NEW n \in DOMAIN current'
      PROVE  <<n, current'[n]>> \in DOMAIN records'
  BY <1>2, <1>6 DEF Put, RecordKey
<1>8. current' = [n \in DOMAIN current' |-> current'[n]]
  BY <1>2 DEF Put
<1>9. QED
  <2>1. InstalledIsWhole'
    BY <1>5, <1>7 DEF InstalledIsWhole, Whole
  <2>2. QED
    BY <2>1, <1>8

\* Whatever happens to an archive, it keeps the form of one.
LEMMA ChangedTyped ==
  ASSUME NEW a \in Archives, NEW c \in ChangedArchives(a)
  PROVE  c \in Archives
<1> DEFINE Damaged == {[a EXCEPT !.intact = FALSE], [a EXCEPT !.meta = NoValue]}
           Shorter == {[a EXCEPT !.files = RemoveAt(@, k)] : k \in DOMAIN a.files}
           Altered == {ReplaceFile(a, k, File(a.files[k].path, b)) :
                         k \in DOMAIN a.files, b \in {Garbled} \cup DOMAIN ManifestOf}
           Longer == {[a EXCEPT !.files = Append(@, f)] : f \in UNION {Range(l) : l \in FileLists}}
<1>1. a.files \in Seq(PackageFile) /\ DOMAIN a.files = 1..Len(a.files) /\ Len(a.files) \in Nat
  BY DEF Archives
<1>2. ASSUME NEW fs \in Seq(PackageFile)
      PROVE  [a EXCEPT !.files = fs] \in Archives
  BY <1>2 DEF Archives
<1>3. Damaged \subseteq Archives
  BY DEF Archives
<1>4. Shorter \subseteq Archives
  <2>1. \A k \in DOMAIN a.files : RemoveAt(a.files, k) \in Seq(PackageFile)
    BY <1>1 DEF RemoveAt
  <2>2. QED
    BY <1>2, <2>1
<1>5. Altered \subseteq Archives
  <2>1. ASSUME NEW k \in DOMAIN a.files, NEW b \in {Garbled} \cup DOMAIN ManifestOf
        PROVE  ReplaceFile(a, k, File(a.files[k].path, b)) \in Archives
    <3> DEFINE f == File(a.files[k].path, b)
    <3>1. a.files[k] \in PackageFile
      BY <1>1
    <3>2. a.files[k].path \in Paths
      BY <3>1 DEF PackageFile
    <3>3. b \in Texts
      BY DEF Texts
    <3>4. f \in PackageFile
      BY <3>2, <3>3, FileTyped
    <3> HIDE DEF f
    <3>5. ReplaceAt(a.files, k, f) \in Seq(PackageFile)
      BY <1>1, <3>4 DEF ReplaceAt
    <3>6. ReplaceFile(a, k, f) \in Archives
      BY <1>2, <3>5 DEF ReplaceFile
    <3>7. QED
      BY <3>6 DEF f
  <2>2. QED
    BY <2>1
<1>6. Longer \subseteq Archives
  <2>1. ASSUME NEW f \in UNION {Range(l) : l \in FileLists}
        PROVE  [a EXCEPT !.files = Append(@, f)] \in Archives
    <3>1. PICK l \in FileLists : f \in Range(l)
      OBVIOUS
    <3>2. f \in PackageFile
      BY <3>1, FileListsTyped DEF Range
    <3>3. Append(a.files, f) \in Seq(PackageFile)
      BY <1>1, <3>2
    <3>4. QED
      BY <1>2, <3>3
  <2>2. QED
    BY <2>1
<1>7. ChangedArchives(a) = Damaged \cup Shorter \cup Altered \cup Longer
  BY DEF ChangedArchives
<1> HIDE DEF Damaged, Shorter, Altered, Longer
<1>8. QED
  BY <1>3, <1>4, <1>5, <1>6, <1>7

LEMMA ResealedTyped ==
  ASSUME NEW a \in Archives
  PROVE  Resealed(a) \in Archives
<1>1. CASE a.meta = NoValue
  BY <1>1 DEF Resealed
<1>2. CASE a.meta # NoValue
  <2>1. a.meta \in Metas /\ a.files \in Seq(PackageFile)
    BY <1>2 DEF Archives
  <2>2. Range(a.files) \in SUBSET PackageFile
    BY <2>1 DEF Range
  <2>3. [[a.meta EXCEPT !.packageDigest = Range(a.files)] EXCEPT !.archiveDigest = Range(a.files)]
          \in Metas
    BY <2>1, <2>2 DEF Metas
  <2>4. QED
    BY <1>2, <2>1, <2>2, <2>3 DEF Resealed, PackageDigest, ArchiveDigest, Archives, Metas
<1>3. QED
  BY <1>1, <1>2

LEMMA ArchiveInvStep ==
  ASSUME ArchiveInv, [ArchiveNext]_archiveVars
  PROVE  ArchiveInv'
<1>1. CASE UNCHANGED archiveVars
  BY <1>1 DEF archiveVars, ArchiveInv, InstalledIsWhole
<1>2. ASSUME NEW t \in DOMAIN ManifestOf, NEW files \in FileLists, PackArchive(t, files)
      PROVE  ArchiveInv'
  <2>1. PackAccepts(t, files) /\ UNCHANGED <<records, current>>
        /\ archives' = archives \cup {Packed(t, files)} /\ packed' = packed \cup {Packed(t, files)}
    BY <1>2 DEF PackArchive
  <2>2. archives' \subseteq Archives
    BY <2>1, PackedVerified DEF ArchiveInv
  <2>3. \A a \in packed' : \E u \in DOMAIN ManifestOf, fs \in FileLists :
          PackAccepts(u, fs) /\ a = Packed(u, fs)
    BY <2>1 DEF ArchiveInv
  <2>4. InstalledIsWhole' /\ current' = [n \in DOMAIN current' |-> current'[n]]
    BY <2>1 DEF ArchiveInv, InstalledIsWhole
  <2>5. QED
    BY <2>2, <2>3, <2>4 DEF ArchiveInv
<1>3. CASE ArchiveChanges
  <2>1. PICK a \in archives : \E b \in ChangedArchives(a) : \E c \in {b, Resealed(b)} :
          archives' = archives \cup {c}
    BY <1>3 DEF ArchiveChanges
  <2>2. PICK b \in ChangedArchives(a) : \E c \in {b, Resealed(b)} : archives' = archives \cup {c}
    BY <2>1
  <2>3. PICK c \in {b, Resealed(b)} : archives' = archives \cup {c}
    BY <2>2
  <2>4. c \in Archives
    BY <2>3, ChangedTyped, ResealedTyped DEF ArchiveInv
  <2>5. UNCHANGED <<packed, records, current>>
    BY <1>3 DEF ArchiveChanges
  <2>6. InstalledIsWhole' /\ current' = [n \in DOMAIN current' |-> current'[n]]
    BY <2>5 DEF ArchiveInv, InstalledIsWhole
  <2>7. QED
    BY <2>3, <2>4, <2>5, <2>6 DEF ArchiveInv
<1>4. ASSUME NEW a \in archives, InstallArchive(a) \/ UpgradeArchive(a)
      PROVE  ArchiveInv'
  <2>1. VerifyArchive(a) = {} /\ PutCurrent(a)
    BY <1>4 DEF InstallArchive, UpgradeArchive
  <2>2. InstalledIsWhole' /\ current' = [n \in DOMAIN current' |-> current'[n]]
    BY <2>1, PutCurrentWhole
  <2>3. UNCHANGED <<archives, packed>>
    BY <2>1 DEF PutCurrent
  <2>4. QED
    BY <2>2, <2>3 DEF ArchiveInv
<1>5. ASSUME NEW k \in DOMAIN records, RollbackArchive(k[1], k[2])
      PROVE  ArchiveInv'
  <2>1. <<k[1], k[2]>> \in DOMAIN records /\ current' = [current EXCEPT ![k[1]] = k[2]]
        /\ UNCHANGED <<archives, packed, records>>
    BY <1>5 DEF RollbackArchive
  <2>2. current' = [n \in DOMAIN current |-> IF n = k[1] THEN k[2] ELSE current[n]]
    BY <2>1 DEF ArchiveInv
  <2>3. \A n \in DOMAIN current' : <<n, current'[n]>> \in DOMAIN records'
    BY <2>1, <2>2 DEF ArchiveInv, InstalledIsWhole
  <2>4. InstalledIsWhole'
    BY <2>1, <2>3 DEF ArchiveInv, InstalledIsWhole
  <2>5. current' = [n \in DOMAIN current' |-> current'[n]]
    BY <2>2
  <2>6. QED
    BY <2>1, <2>4, <2>5 DEF ArchiveInv
<1>6. QED
  BY <1>1, <1>2, <1>3, <1>4, <1>5 DEF ArchiveNext

LEMMA ArchiveInvInit ==
  ASSUME ArchiveInit
  PROVE  ArchiveInv
<1>1. archives = {} /\ packed = {} /\ DOMAIN records = {} /\ DOMAIN current = {}
  BY DEF ArchiveInit
<1>2. current = [n \in DOMAIN current |-> current[n]]
  BY DEF ArchiveInit
<1>3. QED
  BY <1>1, <1>2 DEF ArchiveInv, InstalledIsWhole

\* A manifest that grants a write is one that asks for approvals.
LEMMA WholeNeedsApproval ==
  ASSUME InstalledIsWhole
  PROVE  WritesNeedApproval
<1> SUFFICES ASSUME NEW k \in DOMAIN records,
                    NEW g \in EffectivePolicy(ManifestOf[records[k].manifest]).allow,
                    g.mode = "write"
             PROVE  LET m == ManifestOf[records[k].manifest]
                    IN /\ EffectivePolicy(m).approval = "required"
                       /\ "approval_callback" \in RequiredCapabilities(m)
  BY DEF WritesNeedApproval
<1> DEFINE m == ManifestOf[records[k].manifest]
<1>1. ManifestValid(m)
  BY DEF InstalledIsWhole
<1> HIDE DEF m
<1>2. g \in EffectivePolicy(m).allow
  BY DEF m
<1>3. m.write \/ \E j \in DOMAIN m.tools : m.tools[j].mode = "write"
  BY <1>2 DEF EffectivePolicy, Range
<1>4. m.mode # "read_only"
  <2>1. m.mode = "read_only" => ~m.write /\ \A j \in DOMAIN m.tools : m.tools[j].mode = "read"
    BY <1>1 DEF ManifestValid, ToolsValid
  <2>2. QED
    BY <1>3, <2>1
<1>5. m.mode = "approval_required"
  BY <1>1, <1>4 DEF ManifestValid
<1>6. EffectivePolicy(m).approval = "required" /\ "approval_callback" \in RequiredCapabilities(m)
  BY <1>5 DEF EffectivePolicy, RequiredCapabilities
<1>7. QED
  BY <1>6 DEF m

\* In every behaviour, whatever happens to archives between packing and
\* installing them (packArchive, verifyArchive, installArchive,
\* upgradeArchive, rollbackArchive): what packArchive returns can be
\* installed, unless a path has too many bytes; every version in the store
\* is a complete package under the name and version its manifest states; and
\* no employee is granted a write without the duty to ask for approval.
THEOREM InstalledPackagesSound == ArchiveSpec => []ArchiveSound
<1>1. ArchiveInit => ArchiveInv
  BY ArchiveInvInit
<1>2. ArchiveInv /\ [ArchiveNext]_archiveVars => ArchiveInv'
  BY ArchiveInvStep
<1>3. ArchiveInv => ArchiveSound
  <2>1. ASSUME ArchiveInv, NEW a \in packed
        PROVE  VerifyArchive(a) = {} \/ PathsOf(a.files) \cap LongPaths # {}
    BY <2>1, PackedVerified DEF ArchiveInv
  <2>2. ArchiveInv => WritesNeedApproval
    BY WholeNeedsApproval DEF ArchiveInv
  <2>3. QED
    BY <2>1, <2>2 DEF ArchiveSound, PackedVerifies, ArchiveInv
<1>4. QED
  BY <1>1, <1>2, <1>3, PTL DEF ArchiveSpec
=============================================================================
