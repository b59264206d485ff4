---------------------------- MODULE Qualification ----------------------------
(***************************************************************************)
(* The adapter qualification kit (core/adapter-qualification).             *)
(*                                                                         *)
(* runQualificationSuite drives an untrusted Agent Host through the cases  *)
(* of a contract, one after the other.  A case is a body that awaits the   *)
(* Host, a wall clock bound, and a finalizer that cancels the runs and     *)
(* invokes the cleanups the body registered, possibly while the body is    *)
(* still registering more; a finalizer that does not settle is followed by *)
(* an emergency isolation and fails the suite.  Whatever the Host hands to *)
(* the kit is scanned for the credential sentinel.  The record of a suite  *)
(* is validated, projected to a snapshot, and compared with the snapshot   *)
(* of the last release.                                                    *)
(*                                                                         *)
(* The Host is any process: it answers with any event, throws, leaves a    *)
(* promise pending for ever, ignores a cancel.  Events and values carry    *)
(* what the scanner makes of them: clean, secret or opaque.  Case codes    *)
(* are abstracted to passed or not.                                        *)
(***************************************************************************)
EXTENDS Naturals, FiniteSets, FiniteSetsExt, Sequences, SequencesExt

CONSTANTS Contracts,     \* kit version -> sequence of <<domain, case id>>
          KitOrder,      \* kit versions, oldest first
          SuiteKits,     \* the versions whose suite is run
          Events,        \* case id -> events a Host may emit
          MaxHostEvents, \* 256
          MaxTainted,    \* bound: tainted values a Host hands over in a suite
          AllowedTools,  \* tools of the qualification policy
          Releases,      \* bound: snapshots published
          NoSnapshot

(* Every published contract lists different cases, the capability and the  *)
(* credential case among them, and the two of the event stream together.   *)
ContractAssumption ==
  \A k \in DOMAIN Contracts :
    LET c == Contracts[k]
        ids == [i \in DOMAIN c |-> c[i][2]]
    IN /\ c \in Seq(Range(c)) /\ IsInjective(ids)
       /\ {"probe_contract", "no_metadata_echo"} \subseteq Range(ids)
       /\ \A i \in DOMAIN c : ids[i] = "events_well_formed" =>
            i + 1 \in DOMAIN c /\ ids[i + 1] = "exactly_one_terminal"
ASSUME ContractAssumption

KitAssumption == SuiteKits \subseteq DOMAIN Contracts
ASSUME KitAssumption

ProjectionTools == {"read_file", "search_workspace"}
Taints == {"clean", "secret", "opaque"}

VARIABLES kit,       \* the kit version whose contract the suite runs
          suite,     \* where the suite is, its results and its record
          cur,       \* the bounded case under way
          scan,      \* the suite's sentinel scanner
          world,     \* descendants of the Host, and history: what was seen
          release    \* baseline snapshot, and how many releases were tried

qualVars == <<kit, suite, cur, scan, world, release>>

-----------------------------------------------------------------------------
(* What a case makes of the events it collected. *)

SuiteContract == Contracts[kit]

IsTerminal(e) == e.type \in {"run.completed", "run.failed"}
TerminalEvents(ev) == SelectSeq(ev, IsTerminal)

(* One terminal of the given type, and nothing after it. *)
EndsWith(ev, type) ==
  Len(TerminalEvents(ev)) = 1 /\ Last(ev).type = type

Has(ev, type) == \E i \in DOMAIN ev : ev[i].type = type

WellFormedEvents(ev) == \A i \in DOMAIN ev : ev[i].formed

(* terminals.length === 1 && terminalLast, of either type *)
ExactlyOneTerminal(ev) == Len(TerminalEvents(ev)) = 1 /\ IsTerminal(Last(ev))

CancelledLifecycle(ev) == EndsWith(ev, "run.failed")

TypedFailure(ev) == CancelledLifecycle(ev) /\ Last(ev).code # "untyped"

ToolsOf(ev) == {ev[i].tool : i \in {j \in DOMAIN ev : ev[j].type = "tool"}}

(* The denial the policy must produce, after the run was seen to start. *)
DeniedByPolicy(ev) ==
  Len(ev) >= 2 /\ ev[1].type = "run.started" /\ CancelledLifecycle(ev)
    /\ Last(ev).code = "denied"

WriteRefused(ev) == DeniedByPolicy(ev) /\ ToolsOf(ev) = {}

ReadSearchOnly(ev) == EndsWith(ev, "run.completed") /\ ToolsOf(ev) = ProjectionTools

ValidJson(ev) == EndsWith(ev, "run.completed") /\ Last(ev).code = "conforming"

RejectedTerminal(ev) == ~Has(ev, "run.completed") /\ TypedFailure(ev)

RejectedPreflight(ev) == ~Has(ev, "run.started") /\ TypedFailure(ev)

DenyCases == {"hostile_write_refused", "network_deny_refused", "mcp_deny_refused"}
TreeCases == {"descendants_disposed_normal", "descendants_disposed_timeout",
              "descendants_disposed_cancel"}
PreflightCases == DenyCases \cup {"write_tool_refused"}

(* The verdict of a case's body once its stream has ended. *)
CaseVerdict(c, ev, sc, timedOut) ==
  CASE c = "events_well_formed"       -> WellFormedEvents(ev)
    [] c = "exactly_one_terminal"     -> ExactlyOneTerminal(ev)
    [] c = "cancel_stops_active_run"  -> CancelledLifecycle(ev)
    [] c = "no_metadata_echo"         -> sc = "clean"
    [] c \in DenyCases                -> DeniedByPolicy(ev)
    [] c = "tool_allowlist_respected" -> ToolsOf(ev) \subseteq AllowedTools
    [] c = "valid_json"               -> ValidJson(ev)
    [] c = "invalid_schema_preflight" -> RejectedPreflight(ev)
    [] c = "read_search_only"         -> ReadSearchOnly(ev)
    [] c = "write_tool_refused"       -> WriteRefused(ev)
    [] c = "descendants_disposed_normal"  -> EndsWith(ev, "run.completed")
    [] c = "descendants_disposed_cancel"  -> CancelledLifecycle(ev)
    [] c = "descendants_disposed_timeout" -> timedOut /\ CancelledLifecycle(ev)
    [] OTHER                          -> RejectedTerminal(ev)

(* The sentinel scanner: a secret is final, the first opaque value sticks. *)
Observe(s, t) ==
  IF s = "detected" THEN s
  ELSE IF t = "secret" THEN "detected"
  ELSE IF t = "opaque" THEN "incomplete" ELSE s

-----------------------------------------------------------------------------
(* Records and snapshots. *)

DomainsOf(k) == {Contracts[k][i][1] : i \in DOMAIN Contracts[k]}
CasesIn(k, d) == {i \in DOMAIN Contracts[k] : Contracts[k][i][1] = d}

Summary(k, cases) ==
  [d \in DomainsOf(k) |->
     [passed |-> Cardinality({i \in CasesIn(k, d) : cases[i].passed}),
      failed |-> Cardinality({i \in CasesIn(k, d) : ~cases[i].passed})]]

AllPassed(cases) == \A i \in DOMAIN cases : cases[i].passed

SuiteRecordOf(k, cases, implemented) ==
  [kit |-> k, cases |-> cases, domains |-> Summary(k, cases),
   implemented |-> implemented, conformant |-> implemented /\ AllPassed(cases)]

(* Exactly the cases of the version's contract, and counts that add up. *)
CasesMatchContract(r) ==
  LET c == Contracts[r.kit] IN
  /\ Len(r.cases) = Len(c)
  /\ \A i, j \in DOMAIN r.cases : i # j => r.cases[i].id # r.cases[j].id
  /\ \A i \in DOMAIN r.cases : \E j \in DOMAIN c : c[j][2] = r.cases[i].id
  /\ r.domains = Summary(r.kit, r.cases)

(* validateAdapterQualificationRecord; the axes follow from the cases. *)
ValidRecord(r) ==
  LET probe == {i \in DOMAIN r.cases : r.cases[i].id = "probe_contract"}
      implemented == probe # {} /\ \A i \in probe : r.cases[i].passed
  IN /\ CasesMatchContract(r)
     /\ r.implemented = implemented
     /\ r.conformant = (implemented /\ AllPassed(r.cases))

DomainStatus(row) == IF row.failed = 0 /\ row.passed > 0 THEN "supported" ELSE "unsupported"

(* What a record says beside its cases: whose it is, of which version, and *)
(* whether the operator supplied live evidence, which nothing derives.     *)
Claims == [host : {"h1", "h2"}, version : {"v1", "v2"}, live : BOOLEAN]

SnapshotOf(r, claim) ==
  [host |-> claim.host, version |-> claim.version, live |-> claim.live,
   kit |-> r.kit, digest |-> Contracts[r.kit],
   implemented |-> r.implemented, conformant |-> r.conformant,
   rows |-> [d \in DomainsOf(r.kit) |->
               [status |-> DomainStatus(r.domains[d]),
                passed |-> r.domains[d].passed, failed |-> r.domains[d].failed]]]

(* One row per domain, accounting for every case of the kit's corpus. *)
RowsAccountForCorpus(s) ==
  /\ DOMAIN s.rows = DomainsOf(s.kit)
  /\ \A d \in DOMAIN s.rows :
       /\ s.rows[d].passed + s.rows[d].failed = Cardinality(CasesIn(s.kit, d))
       /\ s.rows[d].status = DomainStatus(s.rows[d])

ValidSnapshot(s) ==
  LET supported(d) == s.rows[d].status = "supported" IN
  /\ s.digest = Contracts[s.kit]
  /\ RowsAccountForCorpus(s)
  /\ s.implemented = supported("capability_negotiation")
  /\ s.conformant = (s.implemented /\ \A d \in DOMAIN s.rows : supported(d))

KitAge(k) == CHOOSE i \in DOMAIN KitOrder : KitOrder[i] = k

(* compareQualificationSnapshots returns no regression. *)
NoRegression(base, next) ==
  /\ ValidSnapshot(base) /\ ValidSnapshot(next)
  /\ base.host = next.host /\ base.version = next.version
  /\ KitAge(next.kit) >= KitAge(base.kit)
  /\ base.implemented => next.implemented
  /\ base.conformant => next.conformant
  /\ base.live => next.live
  /\ \A d \in DOMAIN base.rows :
       /\ d \in DOMAIN next.rows
       /\ base.rows[d].status = "supported" => next.rows[d].status = "supported"
       /\ next.rows[d].passed >= base.rows[d].passed
       /\ next.rows[d].failed <= base.rows[d].failed

-----------------------------------------------------------------------------
(* A case: pc of its body, what it tracked and registered, its outcome.    *)
(* run is the state of the tracked run's cancel; a cleanup ("return" for   *)
(* iterator.return, "dispose" for the process tree fixture) is registered, *)
(* invoked, settled.  processed is what the finalizer has awaited.         *)
NewCase == [body |-> "start", events |-> <<>>, run |-> "untracked",
            cleanups |-> <<>>, state |-> [c \in {"return", "dispose"} |-> "none"],
            processed |-> {}, awaits |-> "none", outcome |-> "none",
            finalizing |-> FALSE, done |-> FALSE, timedOut |-> FALSE,
            errors |-> FALSE, passed |-> <<>>, probe |-> "none", identity |-> FALSE,
            known |-> FALSE, disposed |-> FALSE]

QualInit ==
  /\ kit \in SuiteKits
  /\ suite = [pc |-> "case", results |-> <<>>, probe |-> "none", identity |-> FALSE,
              record |-> NoSnapshot]
  /\ cur = NewCase
  /\ scan = "clean"
  /\ world = [tree |-> "none", seen |-> 0, mishap |-> FALSE]
  /\ release = [base |-> NoSnapshot, tried |-> 0]

(* The body's case: the event stream body answers two entries at once. *)
CaseId == SuiteContract[Len(suite.results) + 1][2]

(* A value the Host hands over is scanned; history counts the tainted ones. *)
Counted(t) == [world EXCEPT !.seen = IF t = "clean" THEN @ ELSE @ + 1]

Sees(t) == /\ t = "clean" \/ world.seen < MaxTainted
           /\ scan' = Observe(scan, t)
           /\ world' = Counted(t)

(* The body is done with result p; every verdict of the case is p. *)
Settles(c, p) ==
  [c EXCEPT !.body = "settled", !.events = <<>>,
            !.passed = IF CaseId = "events_well_formed" THEN <<p, p>> ELSE <<p>>]

(* trackRun and registerCleanup: once the case finalizes they act at once. *)
TrackRun(c) == [c EXCEPT !.run = IF c.finalizing THEN "cancelling" ELSE "tracked"]

RegisterCleanup(c, what) ==
  [c EXCEPT !.cleanups = Append(@, what),
            !.state[what] = IF c.finalizing THEN "invoked" ELSE "registered"]

StreamOpens(c, pc) == [RegisterCleanup(c, "return") EXCEPT !.body = pc]

BodyStarts ==
  /\ cur.body = "start"
  /\ cur' = CASE CaseId = "probe_contract" -> [cur EXCEPT !.body = "probe"]
              [] CaseId \in PreflightCases -> [TrackRun(cur) EXCEPT !.body = "preflight"]
              [] CaseId = "cancel_stops_active_run" -> StreamOpens(TrackRun(cur), "first")
              [] CaseId = "cancel_buffered" -> StreamOpens(TrackRun(cur), "buffer")
              [] CaseId \in TreeCases -> [cur EXCEPT !.body = "create"]
              [] OTHER -> StreamOpens(TrackRun(cur), "next")
  /\ UNCHANGED <<kit, suite, scan, world, release>>

(* Any awaited call of the Host may throw; the error is scanned. *)
HostThrows ==
  /\ cur.body \in {"probe", "first", "buffer", "next", "create", "bind", "descendants",
                   "deadline", "pending"}
  /\ \E t \in Taints : Sees(t)
  /\ cur' = IF cur.body \in {"deadline", "pending"}      \* the timeout scenario reads on
            THEN [cur EXCEPT !.body = "next"] ELSE Settles(cur, FALSE)
  /\ UNCHANGED <<kit, suite, release>>

(* runCapabilityCase: the probe, then the identity the tree cases bind to. *)
HostProbes ==
  /\ cur.body = "probe"
  /\ \E t \in Taints, p \in {"valid", "violation", "noversion"} :
       /\ Sees(t)
       /\ cur' = IF Observe(scan, t) = "incomplete" THEN Settles(cur, FALSE)
                 ELSE [cur EXCEPT !.body = "identity", !.probe = p]
  /\ UNCHANGED <<kit, suite, release>>

HostIdentifies ==
  /\ cur.body = "identity"
  /\ \E t \in Taints, ok \in BOOLEAN :
       /\ Sees(t)
       /\ cur' = [Settles(cur, cur.probe = "valid") EXCEPT
                    !.identity = ok /\ Observe(scan, t) # "incomplete"]
  /\ UNCHANGED <<kit, suite, release>>

(* A preflight that refuses ends the case, with the denial as evidence. *)
HostPreflights ==
  /\ cur.body = "preflight"
  /\ \/ /\ \E t \in Taints, denial \in BOOLEAN :
             /\ Sees(t)
             /\ cur' = Settles(cur, denial /\ Observe(scan, t) # "incomplete")
     \/ /\ cur' = StreamOpens(cur, "next")
        /\ UNCHANGED <<scan, world>>
  /\ UNCHANGED <<kit, suite, release>>

(* collectFromIterator *)
HostEmits ==
  /\ cur.body = "next"
  /\ \E e \in Events[CaseId], t \in Taints :
       LET ev == Append(cur.events, e) IN
       /\ Sees(t)
       /\ cur' = IF Observe(scan, t) = "incomplete" \/ Len(ev) > MaxHostEvents
                 THEN Settles(cur, FALSE) ELSE [cur EXCEPT !.events = ev]
  /\ UNCHANGED <<kit, suite, release>>

StreamVerdicts(c) ==
  IF CaseId = "events_well_formed"
  THEN <<CaseVerdict("events_well_formed", c.events, scan, FALSE),
         CaseVerdict("exactly_one_terminal", c.events, scan, FALSE)>>
  ELSE <<CaseVerdict(CaseId, c.events, scan, c.timedOut)>>

HostEnds ==
  /\ cur.body \in {"first", "buffer", "next", "deadline", "pending"}
  /\ cur' = CASE cur.body = "next" -> [cur EXCEPT !.body = "settled",
                                     !.events = <<>>, !.passed = StreamVerdicts(cur)]
              [] cur.body \in {"deadline", "pending"} -> [cur EXCEPT !.body = "next"]
              [] OTHER -> Settles(cur, FALSE)
  /\ UNCHANGED <<kit, suite, scan, world, release>>

(* The first event of a cancel or tree case must be run.started. *)
HostStarts ==
  /\ cur.body = "first"
  /\ \E e \in Events[CaseId], t \in Taints :
       /\ Sees(t)
       /\ cur' = IF e.type # "run.started" THEN Settles(cur, FALSE)
                 ELSE [cur EXCEPT !.events = <<e>>,
                         !.body = IF CaseId \in TreeCases THEN "descendants" ELSE "cancel"]
  /\ UNCHANGED <<kit, suite, release>>

(* runCancelBufferedCase reads until output is being buffered. *)
HostBuffers ==
  /\ cur.body = "buffer"
  /\ \E e \in Events[CaseId], t \in Taints :
       LET ev == Append(cur.events, e) IN
       /\ Sees(t)
       /\ cur' = IF Observe(scan, t) = "incomplete" \/ Len(ev) > MaxHostEvents
                 THEN Settles(cur, FALSE)
                 ELSE [cur EXCEPT !.events = ev,
                         !.body = IF e.type \in {"assistant.delta", "run.completed"}
                                  THEN "cancel" ELSE "buffer"]
  /\ UNCHANGED <<kit, suite, release>>

(* cancelRun: one cancel per run, shared with the finalizer. *)
BodyCancels ==
  /\ cur.body = "cancel" /\ cur.run = "tracked"
  /\ cur' = [cur EXCEPT !.run = "cancelling"]
  /\ UNCHANGED <<kit, suite, scan, world, release>>

BodyCancelled ==
  /\ cur.body = "cancel" /\ cur.run \in {"cancelled", "cancelfailed"}
  /\ cur' = IF cur.run = "cancelfailed" THEN Settles(cur, FALSE)
            ELSE [cur EXCEPT !.body = IF CaseId = "descendants_disposed_timeout"
                                      THEN "pending" ELSE "next"]
  /\ UNCHANGED <<kit, suite, scan, world, release>>

-----------------------------------------------------------------------------
(* The process tree cases. *)

(* Without a fixture the case fails; otherwise its disposal is registered  *)
(* as soon as it exists.                                                   *)
FixtureCreated ==
  /\ cur.body = "create"
  /\ \/ cur' = Settles(cur, FALSE)
     \/ cur' = [RegisterCleanup(cur, "dispose") EXCEPT !.body = "bind"]
  /\ UNCHANGED <<kit, suite, scan, world, release>>

(* The fixture must be the very Host that answered the capability case. *)
HostBinds ==
  /\ cur.body = "bind"
  /\ \/ /\ suite.probe \notin {"valid", "violation"} \/ ~suite.identity
        /\ cur' = Settles(cur, FALSE)
        /\ UNCHANGED <<scan, world>>
     \/ /\ suite.probe \in {"valid", "violation"} /\ suite.identity
        /\ \E t \in Taints, same \in BOOLEAN :
             /\ Sees(t)
             /\ cur' = IF same /\ Observe(scan, t) # "incomplete"
                       THEN StreamOpens(TrackRun(cur), "first") ELSE Settles(cur, FALSE)
  /\ UNCHANGED <<kit, suite, release>>

(* Child and grandchild alive, and descendants of the Host: or not. *)
HostHasDescendants ==
  /\ cur.body = "descendants"
  /\ \E t \in Taints, lineage \in BOOLEAN :
       /\ t = "clean" \/ world.seen < MaxTainted
       /\ scan' = Observe(scan, t)
       /\ world' = [Counted(t) EXCEPT !.tree = "alive"]
       /\ cur' = [(IF ~lineage THEN Settles(cur, FALSE)
                   ELSE [cur EXCEPT !.body =
                           CASE CaseId = "descendants_disposed_normal" -> "next"
                             [] CaseId = "descendants_disposed_cancel" -> "cancel"
                             [] OTHER -> "deadline"]) EXCEPT !.known = TRUE]
  /\ UNCHANGED <<kit, suite, release>>

(* The run's own deadline passes with the next event still pending: abort  *)
(* and cancel, then take what was pending; or the Host says so itself.     *)
DeadlinePasses ==
  /\ cur.body = "deadline"
  /\ cur' = [cur EXCEPT !.body = "cancel", !.timedOut = TRUE]
  /\ UNCHANGED <<kit, suite, scan, world, release>>

HostMeetsDeadline ==
  /\ cur.body \in {"deadline", "pending"}
  /\ \E e \in Events[CaseId], t \in Taints :
       /\ Sees(t)
       /\ cur' = [cur EXCEPT !.body = "next", !.events = Append(@, e),
                    !.timedOut = @ \/ (e.type = "run.failed" /\ e.code = "deadline")]
  /\ UNCHANGED <<kit, suite, release>>

-----------------------------------------------------------------------------
(* runBoundedCase *)

(* The race of the body and the case's clock. *)
CaseSettles ==
  /\ cur.outcome = "none" /\ cur.body = "settled"
  /\ cur' = [cur EXCEPT !.outcome = "value", !.finalizing = TRUE]
  /\ UNCHANGED <<kit, suite, scan, world, release>>

CaseTimesOut ==
  /\ cur.outcome = "none" /\ cur.body # "settled"
  /\ cur' = [cur EXCEPT !.outcome = "timeout", !.finalizing = TRUE]
  /\ world' = [world EXCEPT !.mishap = TRUE]
  /\ UNCHANGED <<kit, suite, scan, release>>

RegisteredCleanups(c) == {c.cleanups[i] : i \in DOMAIN c.cleanups}
Resources(c) == RegisteredCleanups(c) \cup (IF c.run = "untracked" THEN {} ELSE {"run"})
Unprocessed(c) == Resources(c) \ c.processed

(* The finalizer takes the run first, then the cleanups, last one first,   *)
(* and awaits each.                                                        *)
NextResource(c) ==
  IF "run" \in Unprocessed(c) THEN "run"
  ELSE c.cleanups[CHOOSE i \in DOMAIN c.cleanups :
         /\ c.cleanups[i] \in Unprocessed(c)
         /\ \A j \in DOMAIN c.cleanups : j > i => c.cleanups[j] \notin Unprocessed(c)]

FinalizerTakes ==
  /\ cur.finalizing /\ cur.awaits = "none" /\ Unprocessed(cur) # {}
  /\ LET r == NextResource(cur) IN
     cur' = [cur EXCEPT !.awaits = r, !.processed = @ \cup {r},
               !.run = IF r = "run" /\ @ = "tracked" THEN "cancelling" ELSE @,
               !.state = [x \in DOMAIN @ |-> IF x = r /\ @[x] = "registered"
                                             THEN "invoked" ELSE @[x]]]
  /\ UNCHANGED <<kit, suite, scan, world, release>>

HasSettled(c, r) == IF r = "run" THEN c.run \in {"cancelled", "cancelfailed"}
                   ELSE c.state[r] = "settled"

FinalizerGoesOn ==
  /\ cur.awaits # "none" /\ HasSettled(cur, cur.awaits)
  /\ cur' = [cur EXCEPT !.awaits = "none"]
  /\ UNCHANGED <<kit, suite, scan, world, release>>

(* It returns only when the body has settled and nothing new came in. *)
FinalizerReturns ==
  /\ cur.finalizing /\ ~cur.done /\ cur.awaits = "none"
  /\ Unprocessed(cur) = {} /\ cur.body = "settled"
  /\ cur' = [cur EXCEPT !.done = TRUE]
  /\ UNCHANGED <<kit, suite, scan, world, release>>

(* adapter.cancel settles; a rejection is a cleanup error. *)
CancelSettles ==
  /\ cur.run = "cancelling"
  /\ \/ /\ cur' = [cur EXCEPT !.run = "cancelled"]
        /\ UNCHANGED <<scan, world>>
     \/ \E t \in Taints :
          /\ cur' = [cur EXCEPT !.run = "cancelfailed", !.errors = TRUE]
          /\ t = "clean" \/ world.seen < MaxTainted
          /\ scan' = Observe(scan, t)
          /\ world' = [Counted(t) EXCEPT !.mishap = TRUE]
  /\ UNCHANGED <<kit, suite, release>>

(* iterator.return or the disposal settles; disposal then waits for the    *)
(* descendants it knows of to be gone.                                     *)
CleanupSettles(x) ==
  /\ cur.state[x] = "invoked"
  /\ \/ /\ IF x = "dispose" /\ cur.known
           THEN \E after \in {"alive", "dead"} :
                  /\ world' = [world EXCEPT !.tree = after]
                  /\ cur' = [cur EXCEPT !.state[x] = "settled", !.disposed = after = "dead"]
           ELSE cur' = [cur EXCEPT !.state[x] = "settled"] /\ UNCHANGED world
        /\ UNCHANGED scan
     \/ \E t \in Taints :
          /\ cur' = [cur EXCEPT !.state[x] = "settled", !.errors = TRUE]
          /\ t = "clean" \/ world.seen < MaxTainted
          /\ scan' = Observe(scan, t)
          /\ world' = [Counted(t) EXCEPT !.mishap = TRUE]
  /\ UNCHANGED <<kit, suite, release>>

\* The variant goes on waiting while a cancel is under way.
GraceEndsUnlessCancelling ==
  /\ suite.pc = "case" /\ cur.finalizing /\ ~cur.done /\ cur.run # "cancelling"
  /\ suite' = [suite EXCEPT !.pc = "isolating"]
  /\ UNCHANGED <<kit, cur, scan, world, release>>

(* The grace is over: every cancel and cleanup is invoked, and the suite   *)
(* fails after a second grace.  The finalizer goes on in the background.   *)
GraceEnds ==
  /\ suite.pc = "case" /\ cur.finalizing /\ ~cur.done
  /\ suite' = [suite EXCEPT !.pc = "isolating"]
  /\ cur' = [cur EXCEPT !.run = IF @ = "tracked" THEN "cancelling" ELSE @,
               !.state = [x \in DOMAIN @ |-> IF @[x] = "registered" THEN "invoked" ELSE @[x]]]
  /\ UNCHANGED <<kit, scan, world, release>>

IsolationEnds ==
  /\ suite.pc = "isolating"
  /\ suite' = [suite EXCEPT !.pc = "thrown"]
  /\ UNCHANGED <<kit, cur, scan, world, release>>

\* The variant takes the body's result although a cleanup has failed.
CaseResultDespiteErrors(c) ==
  IF c.outcome = "timeout"
  THEN IF CaseId = "events_well_formed" THEN <<FALSE, FALSE>> ELSE <<FALSE>>
  ELSE IF CaseId \in TreeCases THEN <<c.passed[1] /\ c.known /\ c.disposed>>
  ELSE c.passed

(* The result of a case: cleanup errors first, then the timeout; a tree    *)
(* case looks at the disposal that the cleanup has seen by now.            *)
CaseResult(c) ==
  IF c.errors \/ c.outcome = "timeout"
  THEN IF CaseId = "events_well_formed" THEN <<FALSE, FALSE>> ELSE <<FALSE>>
  ELSE IF CaseId \in TreeCases THEN <<c.passed[1] /\ c.known /\ c.disposed>>
  ELSE c.passed

CaseEnds ==
  LET res == CaseResult(cur)
      n == Len(suite.results)
      kept == ~cur.errors /\ cur.outcome = "value"
  IN /\ suite.pc = "case" /\ cur.done
     /\ suite' = [suite EXCEPT
          !.results = @ \o [i \in DOMAIN res |->
                              [id |-> SuiteContract[n + i][2], passed |-> res[i]]],
          !.probe = IF CaseId = "probe_contract" /\ kept THEN cur.probe ELSE @,
          !.identity = IF CaseId = "probe_contract" /\ kept THEN cur.identity ELSE @,
          !.pc = IF n + Len(res) = Len(SuiteContract) THEN "assemble" ELSE "case"]
     /\ cur' = IF n + Len(res) = Len(SuiteContract) THEN [cur EXCEPT !.done = FALSE] ELSE NewCase
     /\ world' = [world EXCEPT !.tree = "none",
                               !.mishap = @ \/ (world.tree = "alive" /\ res = <<TRUE>>)]
     /\ UNCHANGED <<kit, scan, release>>

(* The scanner overrules the credential case, then the record is made and  *)
(* validated.                                                              *)
SuiteAssembles ==
  LET cases == [i \in DOMAIN suite.results |->
                  IF suite.results[i].id = "no_metadata_echo" /\ scan # "clean"
                  THEN [suite.results[i] EXCEPT !.passed = FALSE] ELSE suite.results[i]]
      record == SuiteRecordOf(kit, cases, suite.probe = "valid")
  IN /\ suite.pc = "assemble"
     /\ suite' = IF suite.probe = "noversion" THEN [suite EXCEPT !.pc = "thrown"]
                 ELSE IF ~ValidRecord(record) THEN [suite EXCEPT !.pc = "rejected"]
                 ELSE [suite EXCEPT !.pc = "returned", !.record = record]
     /\ UNCHANGED <<kit, cur, scan, world, release>>

-----------------------------------------------------------------------------
(* The release gate: any valid record of any version is projected and      *)
(* compared with the baseline, which it replaces when nothing regressed.   *)

RecordsOf(k) ==
  {SuiteRecordOf(k,
     [i \in DOMAIN Contracts[k] |-> [id |-> Contracts[k][i][2], passed |-> i \in ok]],
     \A i \in DOMAIN Contracts[k] : Contracts[k][i][2] = "probe_contract" => i \in ok)
     : ok \in SUBSET DOMAIN Contracts[k]}

PublishRecord ==
  /\ release.tried < Releases
  /\ \E k \in DOMAIN Contracts, claim \in Claims : \E r \in RecordsOf(k) :
       LET s == SnapshotOf(r, claim) IN
       /\ ValidRecord(r)
       /\ release' = [base |-> IF release.base = NoSnapshot \/ NoRegression(release.base, s)
                               THEN s ELSE release.base,
                      tried |-> release.tried + 1]
  /\ UNCHANGED <<kit, suite, cur, scan, world>>

-----------------------------------------------------------------------------
(* What the Host does, and what the kit does by itself. *)
HostActs ==
  \/ HostThrows \/ HostProbes \/ HostIdentifies \/ HostPreflights \/ HostEmits \/ HostEnds
  \/ HostStarts \/ HostBuffers \/ FixtureCreated \/ HostBinds \/ HostHasDescendants
  \/ HostMeetsDeadline \/ CancelSettles \/ \E x \in {"return", "dispose"} : CleanupSettles(x)

BodyStep == BodyStarts \/ BodyCancels \/ BodyCancelled \/ DeadlinePasses
FinalizerStep == FinalizerTakes \/ FinalizerGoesOn \/ FinalizerReturns
BoundStep == CaseSettles \/ CaseTimesOut \/ GraceEnds \/ IsolationEnds
SuiteStep == CaseEnds \/ SuiteAssembles

SuiteNext == HostActs \/ BodyStep \/ FinalizerStep \/ BoundStep \/ SuiteStep

(* The release gate shares nothing with a suite that is running. *)
QualNext ==
  \/ release.tried = 0 /\ SuiteNext
  \/ suite.results = <<>> /\ cur = NewCase /\ PublishRecord

(* Timers fire and the kit's own promises run on; the Host owes nothing. *)
QualFairness ==
  /\ WF_qualVars(release.tried = 0 /\ BodyStep)
  /\ WF_qualVars(release.tried = 0 /\ FinalizerStep)
  /\ WF_qualVars(release.tried = 0 /\ BoundStep)
  /\ WF_qualVars(release.tried = 0 /\ SuiteStep)

QualSpec == QualInit /\ [][QualNext]_qualVars /\ QualFairness

-----------------------------------------------------------------------------
(* fixtureConformant is earned: no case of such a record timed out, had a  *)
(* failing cleanup or left a descendant alive, and nothing the Host ever   *)
(* handed over, in whichever case, was the sentinel or could not be        *)
(* scanned.  The record of a suite is never refused by its own validator.  *)
QualifiedIsEarned ==
  /\ suite.pc # "rejected"
  /\ (suite.pc = "returned" /\ suite.record.conformant) =>
       ~world.mishap /\ world.seen = 0

(* A case leaves nothing behind: when the next one starts, or the record   *)
(* is made, its body has settled, its run was cancelled and every cleanup, *)
(* however late it was registered, has been invoked and has settled.       *)
CaseLeavesNothing ==
  cur.done => /\ cur.body = "settled"
              /\ cur.run \in {"untracked", "cancelled", "cancelfailed"}
              /\ \A x \in RegisteredCleanups(cur) : cur.state[x] = "settled"

(* Whatever the Host leaves pending, a suite that has begun returns or      *)
(* throws.                                                                 *)
SuiteEnds ==
  []<>(suite.pc \in {"returned", "thrown"} \/ (suite.results = <<>> /\ cur = NewCase))

(* A process tree fixture is disposed of, also the one that comes into     *)
(* being after the case timed out or the suite has failed.                 *)
FixtureDisposed ==
  []<>("dispose" \in RegisteredCleanups(cur)
         => cur.state["dispose"] \in {"invoked", "settled", "none"})

(* Evidence that a release has earned survives every later green release:  *)
(* a domain once supported stays supported without a failure, conformance  *)
(* and live qualification are never lost, the kit never goes back and the  *)
(* claims stay about one version of one Host, over any number of releases  *)
(* and of refused snapshots between them.                                  *)
EvidenceKept ==
  [][release.base # NoSnapshot =>
       LET old == release.base  new == release'.base IN
       /\ new.host = old.host /\ new.version = old.version
       /\ new.kit = old.kit \/ KitAge(new.kit) >= KitAge(old.kit)
       /\ old.conformant => new.conformant
       /\ old.live => new.live
       /\ \A d \in DOMAIN old.rows :
            old.rows[d].status = "supported" =>
              d \in DOMAIN new.rows /\ new.rows[d].failed = 0]_qualVars

(* A record says what its suite saw, no case reaches into the next, and    *)
(* what was earned stays earned (adapter-qualification.ts).                *)
SuiteSound == [](QualifiedIsEarned /\ CaseLeavesNothing) /\ EvidenceKept

(* The suite gets to its end and takes its fixtures down.                  *)
SuiteProgress == SuiteEnds /\ FixtureDisposed
=============================================================================
