---------------------------- MODULE TurnContract ----------------------------
(***************************************************************************)
(* What the turn executor promises the Workbench, whatever it does inside: *)
(* a run says run.started at most once and ends at most once; the evidence *)
(* of a turn is written once, by one run, and never changes; a run ends    *)
(* with run.completed only when the evidence of its turn is its own and    *)
(* says so.                                                                *)
(***************************************************************************)
EXTENDS Naturals

CONSTANTS Runs,      \* executions of executeTurn
          Turns,     \* turn ids; a retried turn has several runs
          TurnOf,    \* the turn a run executes
          None

VARIABLES phase,     \* run -> "new" | "started" | "ended"
          outcome,   \* run -> None | "completed" | "failed"
          record     \* turn -> None | the run and status of its evidence

vars == <<phase, outcome, record>>

Init ==
  /\ phase = [r \in Runs |-> "new"]
  /\ outcome = [r \in Runs |-> None]
  /\ record = [t \in Turns |-> None]

Start(r) ==
  /\ phase[r] = "new"
  /\ phase' = [phase EXCEPT ![r] = "started"]
  /\ UNCHANGED <<outcome, record>>

WriteRecord(r) ==
  /\ phase[r] # "ended"
  /\ record[TurnOf[r]] = None
  /\ \E status \in {"completed", "failed"} :
       record' = [record EXCEPT ![TurnOf[r]] = [run |-> r, status |-> status]]
  /\ UNCHANGED <<phase, outcome>>

(* A denied permission ends a run before it was started. *)
End(r) ==
  /\ phase[r] # "ended"
  /\ phase' = [phase EXCEPT ![r] = "ended"]
  /\ \/ outcome' = [outcome EXCEPT ![r] = "failed"]
     \/ /\ phase[r] = "started"
        /\ record[TurnOf[r]] = [run |-> r, status |-> "completed"]
        /\ outcome' = [outcome EXCEPT ![r] = "completed"]
  /\ UNCHANGED record

Next == \E r \in Runs : Start(r) \/ WriteRecord(r) \/ End(r)

Spec == Init /\ [][Next]_vars
=============================================================================
