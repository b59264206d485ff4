--------------------------- MODULE MCRunnerService ---------------------------
(***************************************************************************)
(* What runs on timers and is told to stop: the lease of a task, the       *)
(* runner's outbox loop, the HTTP server and the qualification suite.      *)
(* They share no state, so one run checks them one at a time: `part` says  *)
(* whose turn it is and never changes.                                     *)
(*                                                                         *)
(* One lease, two heartbeats in flight, envelopes with three expiries, one *)
(* of them for another task and two with the same expiry; three entries    *)
(* through an outbox of two, drained one at a time with two attempts each, *)
(* and two callers of stop(); one slot, two places in the queue and four   *)
(* requests for the server, so that the queue overflows and a waiter that  *)
(* has gone is in front of one that has not.  Three kits of three or four  *)
(* cases whose Host emits at most two events, one of them tainted; two     *)
(* snapshots before the release gate, of those kits or of an older one.    *)
(***************************************************************************)
EXTENDS RunnerLease, RunnerLoop, HttpServer, Qualification, TLC

MCEnvelopes ==
  {[id |-> "first", own |-> TRUE, expiry |-> 3],
   [id |-> "again", own |-> TRUE, expiry |-> 4],
   [id |-> "resigned", own |-> TRUE, expiry |-> 4],
   [id |-> "last", own |-> TRUE, expiry |-> 6],
   [id |-> "foreign", own |-> FALSE, expiry |-> 6]}

---------------------------------------------------------------------------
Probe == <<"capability_negotiation", "probe_contract">>
Metadata == <<"credential_boundaries", "no_metadata_echo">>
MCContracts ==
  [events   |-> <<Probe, <<"native_event_validation", "events_well_formed">>,
                  <<"single_terminal_outcome", "exactly_one_terminal">>, Metadata>>,
   timeout  |-> <<Probe, <<"process_tree_cleanup", "descendants_disposed_timeout">>, Metadata>>,
   buffered |-> <<Probe, Metadata, <<"output_schema", "cancel_buffered">>>>,
   legacy   |-> <<Probe, <<"process_tree_cleanup", "stream_terminates">>, Metadata>>]
MCOrder == <<"legacy", "events", "timeout", "buffered">>
\* The suite of an old kit is not run any more, but its records are still valid.
MCKits == DOMAIN MCContracts \ {"legacy"}
Ev(t, c, o) == [type |-> t, code |-> c, tool |-> o, formed |-> TRUE]
HasStarted == Ev("run.started", "", "")
HasCompleted == Ev("run.completed", "conforming", "")
Denied == Ev("run.failed", "denied", "")
MCEvents ==
  [events_well_formed |-> {HasStarted, [HasStarted EXCEPT !.formed = FALSE], HasCompleted},
   descendants_disposed_timeout |-> {HasStarted, Denied, Ev("run.failed", "deadline", "")},
   no_metadata_echo |-> {HasCompleted},
   cancel_buffered |-> {Ev("assistant.delta", "", ""), HasCompleted, Denied}]
MCAllowed == {"read_file"}

---------------------------------------------------------------------------
VARIABLE part

MCInit ==
  /\ LeaseInit /\ Init /\ HttpInit /\ QualInit
  /\ part \in {"lease", "loop", "http", "suite"}
  /\ part # "lease" => envelope.id = "first" /\ wall = 0
  /\ part # "suite" => kit = "events"

MCNext ==
  \/ part = "lease" /\ LeaseNext /\ UNCHANGED <<part, vars, httpVars, qualVars>>
  \/ part = "loop" /\ Next /\ UNCHANGED <<part, clockVars, leaseVars, httpVars, qualVars>>
  \/ part = "http" /\ HttpNext /\ UNCHANGED <<part, clockVars, leaseVars, vars, qualVars>>
  \/ part = "suite" /\ QualNext /\ UNCHANGED <<part, clockVars, leaseVars, vars, httpVars>>

(* The fairness of each part, while it is its turn. *)
MCFairness ==
  /\ WF_<<clockVars, leaseVars>>(part = "lease" /\ TimerFires)
  /\ WF_vars(part = "loop" /\ LoopStep)
  /\ \A r \in Requests : WF_httpVars(part = "http" /\ HandlerStep(r))
  /\ WF_qualVars(part = "suite" /\ release.tried = 0 /\ BodyStep)
  /\ WF_qualVars(part = "suite" /\ release.tried = 0 /\ FinalizerStep)
  /\ WF_qualVars(part = "suite" /\ release.tried = 0 /\ BoundStep)
  /\ WF_qualVars(part = "suite" /\ release.tried = 0 /\ SuiteStep)

MCSpec ==
  MCInit /\ [][MCNext]_<<part, clockVars, leaseVars, vars, httpVars, qualVars>> /\ MCFairness
=============================================================================
