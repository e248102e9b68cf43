----------------------------- MODULE TaskLifecycle -----------------------------
(***************************************************************************)
(* What a research run promises of its tasks, whatever its nodes, waves    *)
(* and modes: the transitions of app/research/domain/task_state.py as the  *)
(* state of the run shows them, and the outcome of domain/termination.py.  *)
(* A task is admitted once, settles once and never changes again; a task   *)
(* that succeeds leaves evidence; tasks are admitted, and the run ends,    *)
(* only when no task is waited for, or after a cancellation.               *)
(***************************************************************************)
CONSTANT Tasks

VARIABLES
  tasks,       \* execution_status of every task
  unsent,      \* tasks of a plan that did not validate: nobody works on them
  evidence,    \* the run has evidence
  cancelled,
  outcome

lifecycleVars == <<tasks, unsent, evidence, cancelled, outcome>>

Settled == {"succeeded", "stopped", "failed"}
Outcomes == {"success", "partial", "failed", "cancelled"}

\* The tasks somebody has been asked to work on.
Waiting == {t \in Tasks \ unsent : tasks[t] = "pending"}
NobodyWaits == Waiting = {} \/ cancelled

Init ==
  /\ tasks = [t \in Tasks |-> "absent"] /\ unsent \subseteq Tasks
  /\ ~evidence /\ ~cancelled /\ outcome = "none"

\* initialize_tasks: the tasks of a new plan.
Admit ==
  /\ outcome = "none" /\ NobodyWaits
  /\ \A t \in Tasks : tasks'[t] # tasks[t] => tasks[t] = "absent" /\ tasks'[t] = "pending"
  /\ UNCHANGED <<unsent, evidence, cancelled, outcome>>

\* transition_task, from pending through running: every task that is waited
\* for finishes, fails or stops, or the run is cancelled.
Settle ==
  /\ outcome = "none"
  /\ \A t \in Tasks : tasks'[t] # tasks[t] =>
       /\ t \in Waiting /\ tasks'[t] \in Settled
       /\ tasks'[t] = "succeeded" => evidence'
  /\ NobodyWaits'
  /\ (evidence => evidence') /\ (cancelled => cancelled')
  /\ UNCHANGED <<unsent, outcome>>

\* decide_terminal_outcome
End ==
  /\ outcome = "none" /\ NobodyWaits
  /\ outcome' \in Outcomes
  /\ outcome' = "cancelled" <=> cancelled
  /\ outcome' = "success" => evidence
  /\ UNCHANGED <<tasks, unsent, evidence, cancelled>>

Next == Admit \/ Settle \/ End

Spec == Init /\ [][Next]_lifecycleVars
=============================================================================
