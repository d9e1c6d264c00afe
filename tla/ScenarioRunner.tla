--------------------------- MODULE ScenarioRunner ---------------------------
(***************************************************************************)
(* What the scenario runner promises (spec.md 4.4, 4.5, 7): one reset      *)
(* before the first scenario; scenarios run one at a time in their order;  *)
(* each goes NotStarted -> Running -> Completed or Aborted; a Running      *)
(* scenario executes its steps strictly in order; an HTTP step or a count  *)
(* step appends one verdict for that scenario, a lookup step appends none; *)
(* Completed only after the last step, Aborted at any step.               *)
(* Verdicts are never changed or removed once recorded.                   *)
(***************************************************************************)
EXTENDS Naturals, Sequences

CONSTANT Scenarios   \* Seq(Seq(step)); only a step's kind matters here

VARIABLES
  resets,  \* number of Fixture Provisioner resets so far
  state,   \* scenario index -> NotStarted | Running | Completed | Aborted
  done,    \* scenario index -> number of its steps executed
  log      \* the Report Sink: <<[sc, ok]>> in insertion order

rvars == <<resets, state, done, log>>

Idx == DOMAIN Scenarios
Finished(s) == state[s] \in {"Completed", "Aborted"}

RInit ==
  /\ resets = 0
  /\ state = [s \in Idx |-> "NotStarted"]
  /\ done = [s \in Idx |-> 0]
  /\ log = <<>>

Reset ==
  /\ resets = 0
  /\ resets' = 1
  /\ UNCHANGED <<state, done, log>>

Start(s) ==
  /\ resets = 1 /\ state[s] = "NotStarted"
  /\ \A p \in Idx : p < s => Finished(p)
  /\ state' = [state EXCEPT ![s] = "Running"]
  /\ UNCHANGED <<resets, done, log>>

DoStep(s) ==
  /\ state[s] = "Running" /\ done[s] < Len(Scenarios[s])
  /\ done' = [done EXCEPT ![s] = @ + 1]
  /\ IF Scenarios[s][done[s] + 1].kind = "getid"
     THEN UNCHANGED log
     ELSE \E ok \in BOOLEAN : log' = Append(log, [sc |-> s, ok |-> ok])
  /\ UNCHANGED <<resets, state>>

Complete(s) ==
  /\ state[s] = "Running" /\ done[s] = Len(Scenarios[s])
  /\ state' = [state EXCEPT ![s] = "Completed"]
  /\ UNCHANGED <<resets, done, log>>

Abort(s) ==
  /\ state[s] = "Running"
  /\ state' = [state EXCEPT ![s] = "Aborted"]
  /\ UNCHANGED <<resets, done, log>>

RNext == Reset \/ \E s \in Idx : Start(s) \/ DoStep(s) \/ Complete(s) \/ Abort(s)

(* The safety part of the promise. *)
SafeSpec == RInit /\ [][RNext]_rvars

(* The liveness part (spec.md 7): every scenario finishes, whatever an    *)
(* earlier one did.                                                       *)
EveryScenarioFinishes == \A s \in Idx : <>Finished(s)
=============================================================================
