---------------------------- MODULE MCGovernance ----------------------------
(***************************************************************************)
(* What is decided, remembered and allowed: the employee that answers, the *)
(* organisation its positions live in, its memory and context ports, the   *)
(* approval of writes and of tasks.  They share no state, so one run       *)
(* checks them one at a time: `part` says whose turn it is and never       *)
(* changes.                                                                *)
(*                                                                         *)
(* Two actors and anonymous callers write in one group conversation whose  *)
(* store must evict, over a one-entry FAQ.  In the organisation, two       *)
(* appliers and one reader over two positions, two tasks and two children. *)
(* Two callers with their own scopes use the ports.  Two previews of the   *)
(* same write and of others, two attempts each, one of which may throw.    *)
(* Two tasks, whose leases end before and after the policy timeout.        *)
(***************************************************************************)
EXTENDS DigitalEmployee, Organisation, RecallPorts, WriteApproval, TaskIntake

CONSTANTS a1, a2, tp1, tp2,        \* actors and topics
          ap1, ap2, t1, t2,        \* appliers and tasks
          pv1, pv2,                \* previews
          own, worker, newcomer,   \* positions
          caller1, caller2,        \* callers of the ports
          undeclared,              \* a write no preview declares
          early, late              \* tasks, by the end of their lease

---------------------------------------------------------------------------
Budget(perDay) == [field \in {"perTask", "perDay"} |-> IF field = "perDay" THEN perDay ELSE {1}]
MCBudgets == {Budget({1}), Budget({})}
MCPositions == {own, worker, newcomer}
MCBootstrap ==
  [p \in {own, worker} |->
    [reportTo |-> IF p = own THEN Root ELSE own, digest |-> 1, budget |-> Budget({1}),
     memoryScope |-> <<>>,
     toolAllow |-> IF p = own THEN {"Read", "Grep", "Write"} ELSE {},
     toolDeny |-> IF p = own THEN {} ELSE {"Glob"}]]

\* Bound: a turn and a delegation do not read the permissions at the same time.
OneReader == turn.pc = "idle" \/ deleg.pc = "idle"

---------------------------------------------------------------------------
MCPinned ==
  [c \in {caller1, caller2} |->
    [instance |-> "i1", workspace |-> "w1",
     position |-> IF c = caller1 THEN "p1" ELSE "p2",
     scope |-> IF c = caller1 THEN "s1" ELSE "s2"]]

Memory(p, scope, digest, at) ==
  [instance |-> "i1", session |-> "x", turn |-> "t", position |-> p, principal |-> Principal(p),
   scope |-> scope, digest |-> digest, at |-> at, status |-> "completed", summaryBytes |-> 1]
MCWrites ==
  {Memory("p1", "s1", "d1", 1), Memory("p1", "s1", "d1", 2),
   Memory("p2", "s2", "d1", 1), Memory("p2", "s1", "d1", 1)}

Bundle(scope, retrievedAt, match) ==
  [scope |-> scope, retrievedAt |-> retrievedAt, items |-> 1, bytes |-> 1, warned |-> TRUE,
   digestsMatch |-> match]
MCBundles == {Bundle(1, 5, TRUE), Bundle(1, 0, TRUE), Bundle(2, 5, TRUE), Bundle(1, 5, FALSE)}
MCRevisions == <<"pinned", "next">>

---------------------------------------------------------------------------
\* Bound: decisions ever sent (a decision already used can arrive again).
FewDecisions == Cardinality(decisions) <= 2

\* The lease of one task ends before the policy timeout, of another after it.
MCLeases == [t \in IntakeTasks |-> IF t = early THEN 1 ELSE 4]

---------------------------------------------------------------------------
VARIABLE part

allVars == <<part, vars, orgVars, portVars, writeVars, intakeVars>>

MCInit ==
  /\ EmployeeInit /\ OrgInit /\ PortInit /\ WriteInit /\ IntakeInit
  /\ part \in {"employee", "organisation", "ports", "writes", "intake"}
  /\ part # "intake" => requireOwnerApproval

MCNext ==
  \/ /\ part = "employee" /\ EmployeeNext
     /\ UNCHANGED <<part, orgVars, portVars, writeVars, intakeVars>>
  \/ /\ part = "organisation" /\ OrgNext
     /\ UNCHANGED <<part, vars, portVars, writeVars, intakeVars>>
  \/ /\ part = "ports" /\ PortNext
     /\ UNCHANGED <<part, vars, orgVars, writeVars, intakeVars>>
  \/ /\ part = "writes" /\ WriteNext
     /\ UNCHANGED <<part, vars, orgVars, portVars, intakeVars>>
  \/ /\ part = "intake" /\ IntakeNext
     /\ UNCHANGED <<part, vars, orgVars, portVars, writeVars>>

MCSpec == MCInit /\ [][MCNext]_allVars

Bounds == OneReader /\ FewDecisions

\* Members that are only compared for equality, in no ordered structure.  The
\* parts have nothing in common, so one permutation may move members of each.
Partner(x, pairs) ==
  CHOOSE y \in UNION {{p[1], p[2]} : p \in pairs} : <<x, y>> \in pairs \/ <<y, x>> \in pairs
People == {<<a1, a2>>, <<ap1, ap2>>, <<pv1, pv2>>}
Things == {<<tp1, tp2>>, <<t1, t2>>}
ExchangePeople == [x \in UNION {{p[1], p[2]} : p \in People} |-> Partner(x, People)]
ExchangeThings == [x \in UNION {{p[1], p[2]} : p \in Things} |-> Partner(x, Things)]
Symmetry == {ExchangePeople} \cup {ExchangeThings} \cup Permutations({own})
=============================================================================
