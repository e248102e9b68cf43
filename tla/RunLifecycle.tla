----------------------------- MODULE RunLifecycle -----------------------------
(***************************************************************************)
(* The runs of one session: the API handlers that start, approve, cancel   *)
(* and delete them (app/api/server.py, session_routes.py), the record kept *)
(* of each (app/run_store), the approval coordinator (harness/hitl.py),    *)
(* the harness task that executes a run (harness/loop.py) and the durable  *)
(* queue that may execute it instead (app/run_queue).                      *)
(*                                                                         *)
(* Handlers and task steps run on one event loop: an action is the code    *)
(* between two suspension points.  A restart loses the tasks, the waiting  *)
(* future and the registry; the run store and the job table survive.       *)
(***************************************************************************)
EXTENDS Integers, FiniteSets

CONSTANTS
  MaxRuns,        \* runs posted in the session
  MaxApprovals,   \* approval gates of one run
  MaxRestarts, MaxDeletes

ASSUME BoundsAssumption ==
  /\ MaxRuns \in Nat /\ MaxApprovals \in Nat
  /\ MaxRestarts \in Nat /\ MaxDeletes \in Nat

Runs == 1 .. MaxRuns      \* in the order of created_at
NoRun == 0

Terminal == {"completed", "failed", "partial", "interrupted"}
RecoverableOnStartup == {"queued", "running", "cancelling"}
Statuses == Terminal \cup RecoverableOnStartup
              \cup {"awaiting_approval", "recoverable", "absent"}

VARIABLES
  queueMode,    \* RUN_QUEUE_ENABLED
  posted,       \* runs created so far
  status,       \* run -> runs.status, "absent" when there is no row
  payload,      \* run -> the run whose request its hitl_payload is
  task,         \* run -> where the task executing it is
  cancel,       \* run -> the cancellation of its task: none, requested by
                \* cancel_task (which repeats it after a second), pending
                \* without repetition, or swallowed on the way
  activeTask,   \* active_tasks[thread]
  waiter,       \* whose future HitlCoordinator._waiters holds
  decided,      \* runs whose future has a result
  approvals,    \* run -> gates it has waited at
  job,          \* run -> run_jobs.status, "none" when there is no row
  worker,       \* the run the queue worker is executing
  starts,       \* run -> times its execution began
  restarts, deletes

storeVars == <<status, payload>>
hitlVars == <<waiter, decided, approvals>>
queueVars == <<job, worker>>
boundVars == <<queueMode, restarts, deletes>>
vars == <<posted, storeVars, task, cancel, activeTask, hitlVars, queueVars,
          starts, boundVars>>

Present == {r \in Runs : status[r] # "absent"}
\* latest_run(session): by creation, whatever its status.
Latest == IF Present = {} THEN NoRun
          ELSE CHOOSE r \in Present : \A q \in Present : q <= r

LiveStates == {"ready", "working", "waiting", "unwinding", "delivered"}
Live(r) == r \in Runs /\ task[r] \in LiveStates
Cancelled(r) == cancel[r] \in {"requested", "pending"}
-----------------------------------------------------------------------------
\* The values each variable may take.
TypeOK ==
  /\ queueMode \in BOOLEAN /\ posted \in 0 .. MaxRuns
  /\ status \in [Runs -> Statuses]
  /\ payload \in [Runs -> Runs \cup {NoRun}]
  /\ task \in [Runs -> LiveStates \cup {"none", "done"}]
  /\ cancel \in [Runs -> {"none", "requested", "pending", "repeating", "swallowed"}]
  /\ activeTask \in Runs \cup {NoRun}
  /\ waiter \in Runs \cup {NoRun} /\ decided \subseteq Runs
  /\ approvals \in [Runs -> 0 .. MaxApprovals]
  /\ job \in [Runs -> {"none", "pending", "running", "completed", "failed"}]
  /\ worker \in Runs \cup {NoRun} /\ starts \in [Runs -> Nat]
  /\ restarts \in 0 .. MaxRestarts /\ deletes \in 0 .. MaxDeletes

Init ==
  /\ queueMode \in BOOLEAN /\ posted = 0
  /\ status = [r \in Runs |-> "absent"] /\ payload = [r \in Runs |-> NoRun]
  /\ task = [r \in Runs |-> "none"] /\ cancel = [r \in Runs |-> "none"]
  /\ activeTask = NoRun /\ waiter = NoRun /\ decided = {}
  /\ approvals = [r \in Runs |-> 0]
  /\ job = [r \in Runs |-> "none"] /\ worker = NoRun
  /\ starts = [r \in Runs |-> 0] /\ restarts = 0 /\ deletes = 0
-----------------------------------------------------------------------------
(* The run store.  Every UPDATE names a run id and does nothing to a row   *)
(* that is gone; none of them looks at the status it replaces, except      *)
(* clear_hitl.                                                             *)

Put(f, r, v) == IF r \in Present THEN [f EXCEPT ![r] = v] ELSE f

\* mark_running keeps the payload; complete_run and its two callers drop it.
MarkRunning(r) == status' = Put(status, r, "running") /\ UNCHANGED payload
CompleteRun(r, s) == status' = Put(status, r, s) /\ payload' = Put(payload, r, NoRun)
FailRun(r) == CompleteRun(r, "failed")
InterruptRun(r) == CompleteRun(r, "interrupted")

\* The coordinator knows the session only: it writes to the session's latest
\* run, whichever run is waiting.
SetHitl(r) ==
  /\ status' = Put(status, Latest, "awaiting_approval")
  /\ payload' = Put(payload, Latest, r)

\* Mutant of ClearedStatus: a run that has ended is set running as well.
ClearedRunning(s) == "running"
ClearedStatus(s) ==
  IF s \in Terminal \cup {"recoverable", "cancelling"} THEN s ELSE "running"
ClearHitl ==
  /\ status' = IF Latest = NoRun THEN status
               ELSE [status EXCEPT ![Latest] = ClearedStatus(@)]
  /\ payload' = Put(payload, Latest, NoRun)
-----------------------------------------------------------------------------
(* The API.                                                                *)

\* run_task creates the row and hands the run to the queue.
EnqueueRun ==
  /\ queueMode /\ posted < MaxRuns
  /\ posted' = posted + 1
  /\ status' = [status EXCEPT ![posted'] = "queued"]
  /\ job' = [job EXCEPT ![posted'] = "pending"]
  /\ UNCHANGED <<payload, task, cancel, activeTask, hitlVars, worker, starts, boundVars>>

\* Without a queue, or when enqueueing failed, it starts a task.  A task of
\* the session that is still alive is cancelled, and the run that was the
\* latest before this one is recorded as interrupted.
StartRun ==
  /\ posted < MaxRuns
  /\ posted' = posted + 1
  /\ LET replacing == Live(activeTask)
         interrupted == IF replacing THEN Latest ELSE NoRun
     IN /\ status' = [Put(status, interrupted, "interrupted") EXCEPT ![posted'] = "queued"]
        /\ payload' = Put(payload, interrupted, NoRun)
        /\ cancel' = IF replacing THEN [cancel EXCEPT ![activeTask] = "pending"] ELSE cancel
  /\ task' = [task EXCEPT ![posted'] = "ready"]
  /\ activeTask' = posted'
  /\ UNCHANGED <<hitlVars, queueVars, starts, boundVars>>

\* Mutant of ForgetTask: the entry is removed without checking whose it is.
ForgetAnyTask(r) ==
  /\ task[r] = "done" /\ worker # r
  /\ task' = [task EXCEPT ![r] = "none"]
  /\ activeTask' = NoRun
  /\ UNCHANGED <<posted, storeVars, cancel, hitlVars, queueVars, starts, boundVars>>
\* The task's done callback.
ForgetTask(r) ==
  /\ task[r] = "done" /\ worker # r
  /\ task' = [task EXCEPT ![r] = "none"]
  /\ activeTask' = IF activeTask = r THEN NoRun ELSE activeTask
  /\ UNCHANGED <<posted, storeVars, cancel, hitlVars, queueVars, starts, boundVars>>

\* cancel_task marks the latest run before it looks for a task, and judges
\* that run by the status it had before the mark.
CancelLiveTask ==
  /\ Live(activeTask)
  /\ status' = Put(status, Latest, "cancelling")
  /\ cancel' = [cancel EXCEPT ![activeTask] = "requested"]
  /\ UNCHANGED <<posted, payload, task, activeTask, hitlVars, queueVars, starts, boundVars>>

\* Its wait for the task ends after a second by cancelling the task again.
CancelAgain(r) ==
  /\ cancel[r] = "repeating" /\ Live(r)
  /\ cancel' = [cancel EXCEPT ![r] = "pending"]
  /\ UNCHANGED <<posted, storeVars, task, activeTask, hitlVars, queueVars, starts, boundVars>>

CancelWithoutTask ==
  /\ ~Live(activeTask)
  /\ activeTask' = NoRun
  /\ \/ Latest = NoRun /\ UNCHANGED storeVars
     \/ /\ Latest # NoRun /\ status[Latest] \in Terminal
        /\ status' = [status EXCEPT ![Latest] = "cancelling"] /\ UNCHANGED payload
     \/ Latest # NoRun /\ status[Latest] \notin Terminal /\ InterruptRun(Latest)
  /\ UNCHANGED <<posted, task, cancel, hitlVars, queueVars, starts, boundVars>>

\* A future is registered, without a result, and its wait not cancelled.
FutureOpen == waiter # NoRun /\ waiter \notin decided /\ ~Cancelled(waiter)

\* resume_task.
SubmitDecisions ==
  /\ FutureOpen
  /\ decided' = decided \cup {waiter}
  /\ ClearHitl
  /\ UNCHANGED <<posted, task, cancel, activeTask, waiter, approvals, queueVars,
                 starts, boundVars>>

\* Deleting removes rows; a task executing a deleted run is not told.
DeleteRows(rows) ==
  /\ deletes < MaxDeletes /\ rows # {}
  /\ deletes' = deletes + 1
  /\ status' = [r \in Runs |-> IF r \in rows THEN "absent" ELSE status[r]]
  /\ payload' = [r \in Runs |-> IF r \in rows THEN NoRun ELSE payload[r]]
  /\ UNCHANGED <<posted, task, cancel, activeTask, hitlVars, queueVars, starts,
                 queueMode, restarts>>
DeleteRun == \E r \in Present : DeleteRows({r})
DeleteSession == DeleteRows(Present)
-----------------------------------------------------------------------------
(* The task that executes a run: Harness.run and the coordinator's wait.   *)

\* A task that is over has no cancellation left, except as history.
Spent(r) == IF cancel[r] = "swallowed" THEN "swallowed" ELSE "none"
EndTask(r) ==
  /\ task' = [task EXCEPT ![r] = "done"]
  /\ cancel' = [cancel EXCEPT ![r] = Spent(r)]
UnchangedByTask == UNCHANGED <<posted, activeTask, queueVars, boundVars>>

BeginRun(r) ==
  /\ task[r] = "ready" /\ cancel[r] = "none"
  /\ task' = [task EXCEPT ![r] = "working"]
  /\ starts' = [starts EXCEPT ![r] = @ + 1]
  /\ MarkRunning(r)
  /\ UnchangedByTask /\ UNCHANGED <<cancel, hitlVars>>

\* A task cancelled before its first step never enters the harness, and
\* _bootstrap_run fails outside the try block: neither writes to the store.
EndUnstarted(r) ==
  /\ task[r] = "ready"
  /\ EndTask(r)
  /\ UnchangedByTask /\ UNCHANGED <<storeVars, hitlVars, starts>>

\* An approval gate.  The session has one future at a time.
WaitForDecisions(r) ==
  /\ task[r] = "working" /\ ~Cancelled(r)
  /\ approvals[r] < MaxApprovals
  /\ ~FutureOpen
  /\ task' = [task EXCEPT ![r] = "waiting"]
  /\ waiter' = r /\ decided' = decided \ {r}
  /\ approvals' = [approvals EXCEPT ![r] = @ + 1]
  /\ SetHitl(r)
  /\ UnchangedByTask /\ UNCHANGED <<cancel, starts>>

\* Mutant of StopWaiting: the approval is left in the store.
LeaveApproval(r) ==
  /\ task[r] = "waiting"
  /\ task' = [task EXCEPT ![r] = IF Cancelled(r) THEN "unwinding" ELSE "working"]
  /\ waiter' = NoRun
  /\ UnchangedByTask /\ UNCHANGED <<storeVars, cancel, decided, approvals, starts>>
\* The wait ends with a decision, its timeout or a cancellation; the finally
\* block unregisters whichever future the session has.
StopWaiting(r) ==
  /\ task[r] = "waiting"
  /\ task' = [task EXCEPT ![r] = IF Cancelled(r) THEN "unwinding" ELSE "working"]
  /\ waiter' = NoRun
  /\ ClearHitl
  /\ UnchangedByTask /\ UNCHANGED <<cancel, decided, approvals, starts>>

\* _phase_finalize persists the outcome; checkpoint writes still follow it.
Deliver(r) ==
  /\ task[r] = "working" /\ ~Cancelled(r)
  /\ task' = [task EXCEPT ![r] = "delivered"]
  /\ \E s \in Terminal : CompleteRun(r, s)
  /\ UnchangedByTask /\ UNCHANGED <<cancel, hitlVars, starts>>

Return(r) ==
  /\ task[r] = "delivered" /\ ~Cancelled(r)
  /\ EndTask(r)
  /\ UnchangedByTask /\ UNCHANGED <<storeVars, hitlVars, starts>>

\* Any other exception, a gate that finds the future taken included.
Fail(r) ==
  /\ task[r] \in {"working", "delivered"} /\ ~Cancelled(r)
  /\ EndTask(r)
  /\ FailRun(r)
  /\ UnchangedByTask /\ UNCHANGED <<hitlVars, starts>>

\* Mutant of Interrupted: the handler re-raises without recording the end.
InterruptedSilently(r) ==
  /\ task[r] \in {"working", "unwinding", "delivered"} /\ Cancelled(r)
  /\ EndTask(r)
  /\ UnchangedByTask /\ UNCHANGED <<storeVars, hitlVars, starts>>
Interrupted(r) ==
  /\ task[r] \in {"working", "unwinding", "delivered"} /\ Cancelled(r)
  /\ EndTask(r)
  /\ InterruptRun(r)
  /\ UnchangedByTask /\ UNCHANGED <<hitlVars, starts>>

\* A worker that is collecting a task it cancelled at a timeout swallows a
\* cancellation that arrives there.
SwallowCancel(r) ==
  /\ task[r] = "working" /\ Cancelled(r)
  /\ cancel' = [cancel EXCEPT ![r] = IF @ = "requested" THEN "repeating" ELSE "swallowed"]
  /\ UnchangedByTask /\ UNCHANGED <<storeVars, task, hitlVars, starts>>

TaskStep(r) ==
  \/ BeginRun(r) \/ EndUnstarted(r)
  \/ StopWaiting(r)
  \/ Deliver(r) \/ Return(r) \/ Fail(r) \/ Interrupted(r)
-----------------------------------------------------------------------------
(* The queue worker, and a restart of the backend.                         *)

Pending == {r \in Runs : job[r] = "pending"}
Claimable == Pending

ClaimNext ==
  /\ queueMode /\ worker = NoRun /\ Claimable # {}
  /\ LET r == CHOOSE r \in Claimable : \A q \in Claimable : r <= q
     IN /\ worker' = r
        /\ job' = [job EXCEPT ![r] = "running"]
        /\ task' = [task EXCEPT ![r] = "ready"]
  /\ UNCHANGED <<posted, storeVars, cancel, activeTask, hitlVars, starts, boundVars>>

\* run_deep_agent returns a failed result, or raises while bootstrapping.
FinishJob ==
  /\ worker # NoRun /\ task[worker] = "done"
  /\ \E s \in {"completed", "failed"} : job' = [job EXCEPT ![worker] = s]
  /\ task' = [task EXCEPT ![worker] = "none"]
  /\ worker' = NoRun
  /\ UNCHANGED <<posted, storeVars, cancel, activeTask, hitlVars, starts, boundVars>>

Restart ==
  /\ restarts < MaxRestarts
  /\ restarts' = restarts + 1
  /\ task' = [r \in Runs |-> "none"] /\ cancel' = [r \in Runs |-> Spent(r)]
  /\ activeTask' = NoRun /\ waiter' = NoRun /\ decided' = {} /\ worker' = NoRun
  /\ status' = [r \in Runs |-> IF status[r] \in RecoverableOnStartup
                               THEN "recoverable" ELSE status[r]]
  /\ UNCHANGED <<posted, payload, approvals, job, starts, queueMode, deletes>>
-----------------------------------------------------------------------------
Next ==
  \/ EnqueueRun \/ StartRun
  \/ CancelLiveTask \/ CancelWithoutTask \/ SubmitDecisions
  \/ DeleteRun \/ DeleteSession
  \/ \E r \in Runs : \/ TaskStep(r) \/ ForgetTask(r)
                      \/ WaitForDecisions(r) \/ SwallowCancel(r) \/ CancelAgain(r)
  \/ ClaimNext \/ FinishJob
  \/ Restart

Spec == Init /\ [][Next]_vars

\* The event loop runs what is ready, an approval wait has a timeout, and a
\* run's own time limit ends its work.
Fairness ==
  /\ \A r \in Runs : WF_vars(TaskStep(r))
  /\ WF_vars(ClaimNext) /\ WF_vars(FinishJob)
FairSpec == Spec /\ Fairness
-----------------------------------------------------------------------------
(* Properties.                                                             *)

\* The histories in which the latest run is also the one being executed: no
\* queue, no deletion, and no cancellation swallowed for good.
Undisturbed ==
  /\ ~queueMode /\ deletes = 0
  /\ \A r \in Runs : cancel[r] # "swallowed"

\* A task of the session that nobody asked to stop is the one the registry
\* names: replacing, cancelling and late done callbacks never lose the handle
\* by which a running task can be stopped (run_task, _forget_task).
EveryTaskCanBeStopped ==
  \A r \in Runs :
    Live(r) /\ worker # r /\ cancel[r] = "none" => activeTask = r

\* A decision the API accepts has a task waiting for it, although futures are
\* registered per session and tasks are replaced and cancelled; and an approval
\* shown to the user belongs to the run it is shown on, which waits for it
\* unless the backend has restarted since (wait_for_decisions,
\* submit_decisions; _persist_hitl and _clear_hitl write to the latest run).
DecisionReachesAWaiter == waiter # NoRun => task[waiter] = "waiting"
ApprovalIsCurrent ==
  Undisturbed =>
    \A r \in Runs : status[r] = "awaiting_approval" =>
      payload[r] = r /\ (waiter = r \/ restarts > 0)
ApprovalsHaveWaiters == TypeOK /\ DecisionReachesAWaiter /\ ApprovalIsCurrent

\* No run is executed twice: not by the queue after a restart, and not by the
\* queue and a task both (claim_next, run_task). A run recorded as ended is not
\* set running again by a task that was slow to stop (clear_hitl, mark_running,
\* set_hitl do not name the run they follow).
RunsGoForward ==
  [][\A r \in Runs :
       /\ starts'[r] <= 1
       /\ Undisturbed /\ status[r] \in Terminal
            => status'[r] \notin {"queued", "running", "awaiting_approval"}]_vars

\* A run that began working is eventually recorded as ended, however it is
\* cancelled or replaced; after a restart it is recoverable, or still awaits
\* an approval, which recover_stale_runs leaves alone (Harness.run).
AccountedFor(r) ==
  \/ status[r] \in Terminal
  \/ restarts > 0 /\ status[r] \in {"recoverable", "awaiting_approval"}

\* Every task ends, waits for approval included, so a session never keeps a
\* task alive for ever; a queued run does not starve, restarts included; and
\* work leaves an end in the record (the timeout of wait_for_decisions,
\* claim_next is first in, first out, Harness.run records its exits).
EverythingEnds ==
  \A r \in Runs :
    /\ Live(r) ~> ~Live(r)
    /\ job[r] = "pending" ~> job[r] # "pending"
    /\ task[r] = "working" ~> AccountedFor(r) \/ ~Undisturbed
=============================================================================
