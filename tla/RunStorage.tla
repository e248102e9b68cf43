------------------------------ MODULE RunStorage ------------------------------
(***************************************************************************)
(* Where the data of a run lies and how it goes: the row with the result   *)
(* (app/run_store/service.py), the run directory, the trace (journal,      *)
(* projections, payloads), the graph's checkpoints                         *)
(* (research/runtime/checkpointer.py) and the memory of MemoryStore.  A    *)
(* run writes to all of them while it lives and to the memory after it,    *)
(* persists its result before it publishes it (harness/loop.py), and is    *)
(* deleted by a cascade over all of them (run_store/deletion.py).          *)
(*                                                                         *)
(* The memory steps of the cascade are awaited, the rest of it is one step *)
(* of the event loop.  A crash loses tasks, threads and the cascade.       *)
(***************************************************************************)
EXTENDS MemoryStore

CONSTANTS
  Earlier,      \* runs that have ended at the start, their memory task has not
  MaxCrashes
ASSUME StorageAssumption ==
  Earlier \subseteq Runs /\ MaxCrashes \in Nat

Terminal == {"completed", "failed", "interrupted"}
RecoverableOnStartup == {"queued", "running"}
NoRow == [status |-> "absent", result |-> ""]
Live == {"posted", "working", "delivered"}

VARIABLES
  row,         \* run -> its row in runs
  files, traces, checkpoints,   \* runs with data there
  task,        \* run -> where its task is
  shown,       \* runs whose report the page shows, as published
  unsaved,     \* runs whose result the store refused; only a warning says so
  cascade,     \* run -> step of its deletion
  selected,    \* run -> memory records its deletion has found
  spoiled,     \* runs deleted while something could still write for them
  raced,       \* records that went while a copy of them was out, or were
               \* overwritten by a consolidation that read them before a change
  crashes

storeVars == <<row, files, traces, checkpoints, task, shown, unsaved, cascade,
               selected, spoiled, crashes>>
vars == <<memoryVars, storeVars, raced>>

Init ==
  /\ MemoryInit(Earlier)
  /\ row = [r \in Runs |-> IF r \in Earlier
                           THEN [status |-> "completed", result |-> "report"] ELSE NoRow]
  /\ task = [r \in Runs |-> IF r \in Earlier THEN "ended" ELSE "none"]
  /\ files = Earlier /\ traces = Earlier /\ checkpoints = Earlier
  /\ shown = Earlier /\ unsaved = {}
  /\ cascade = [r \in Runs |-> "none"] /\ selected = [r \in Runs |-> {}]
  /\ spoiled = {} /\ raced = {} /\ crashes = 0

Present(r) == row[r].status # "absent"
-----------------------------------------------------------------------------
(* The row.  An UPDATE of a row that is gone changes nothing.              *)

CompleteRun(r, status, result) ==
  row' = IF Present(r) THEN [row EXCEPT ![r] = [status |-> status, result |-> result]]
         ELSE row
\* Mutant of InterruptRun: the result goes as it does when a run fails.
InterruptAndDrop(r) == CompleteRun(r, "interrupted", "")
\* fail_run drops the result, interrupt_run keeps it.
FailRun(r) == CompleteRun(r, "failed", "")
InterruptRun(r) == CompleteRun(r, "interrupted", row[r].result)
MarkRunning(r) ==
  row' = IF Present(r) THEN [row EXCEPT ![r].status = "running"] ELSE row
-----------------------------------------------------------------------------
(* A run.                                                                  *)

cascadeVars == <<cascade, selected, spoiled, crashes>>
dataVars == <<files, traces, checkpoints>>

Post(r) ==
  /\ task[r] = "none" /\ cascade[r] = "none"
  /\ row' = [row EXCEPT ![r] = [status |-> "queued", result |-> ""]]
  /\ task' = [task EXCEPT ![r] = "posted"]
  /\ UNCHANGED <<memoryVars, dataVars, shown, unsaved, cascadeVars>>

\* record_sources gives the row of a known source to the run that used it last.
RecordSources(r) ==
  ledger' = r /\ UNCHANGED <<rec, writer, batch, loaded, job, drain, requests>>

\* The harness makes the run directory, opens the trace and runs the first
\* node of the graph.
Write(r) ==
  /\ files' = files \cup {r} /\ traces' = traces \cup {r}
  /\ checkpoints' = checkpoints \cup {r}
Begin(r) ==
  /\ task[r] = "posted" /\ task' = [task EXCEPT ![r] = "working"]
  /\ MarkRunning(r) /\ Write(r) /\ RecordSources(r)
  /\ UNCHANGED <<shown, unsaved, cascadeVars>>

\* Later nodes: artifacts, events, checkpoints and sources, whether the row is
\* there or not.
Work(r) ==
  /\ task[r] \in {"working", "delivered"} /\ Write(r)
  /\ IF task[r] = "working" THEN RecordSources(r) ELSE UNCHANGED memoryVars
  /\ UNCHANGED <<row, task, shown, unsaved, cascadeVars>>

\* _project_run_complete: a store that raises is only logged.
Persist(r) ==
  \/ CompleteRun(r, "completed", "report") /\ UNCHANGED unsaved
  \/ unsaved' = unsaved \cup {r} /\ UNCHANGED row

\* The result is stored, then published whether the store took it or not, then
\* the memory task is scheduled.
Deliver(r) ==
  /\ task[r] = "working" /\ task' = [task EXCEPT ![r] = "delivered"]
  /\ Persist(r)
  /\ shown' = shown \cup {r}
  /\ writer' = [writer EXCEPT ![r] = "scheduled"]
  /\ UNCHANGED <<rec, ledger, batch, loaded, job, drain, requests, dataVars, cascadeVars>>

EndTask(r) ==
  /\ task[r] = "delivered" /\ task' = [task EXCEPT ![r] = "ended"]
  /\ UNCHANGED <<memoryVars, row, dataVars, shown, unsaved, cascadeVars>>

\* An exception, before the delivery or after it: the page shows an error.
Fail(r) ==
  /\ task[r] \in {"working", "delivered"} /\ task' = [task EXCEPT ![r] = "ended"]
  /\ FailRun(r) /\ shown' = shown \ {r}
  /\ UNCHANGED <<memoryVars, dataVars, unsaved, cascadeVars>>

\* Cancellation; the page keeps what it shows.  A task cancelled before its
\* first step records nothing.
Cancel(r) ==
  /\ task[r] \in Live /\ task' = [task EXCEPT ![r] = "ended"]
  /\ IF task[r] = "posted" THEN UNCHANGED row ELSE InterruptRun(r)
  /\ UNCHANGED <<memoryVars, dataVars, shown, unsaved, cascadeVars>>
-----------------------------------------------------------------------------
(* The deletion of a run.                                                  *)

\* What may still write for a run: its task, its memory task, and whatever
\* holds a copy of one of its records.
Holds(copy, r) == \E m \in Records : copy[m].state = "active" /\ copy[m].run = r
AtWork(r) ==
  \/ task[r] \in Live \/ writer[r] \in {"scheduled", "loaded"}
  \/ \E q \in Runs : Holds(loaded[q], r) \/ Holds(drain[q].read, r)

\* The row is looked up; a run that has none is answered with 404.  No step
\* asks whether the run has ended.  The first statement of
\* delete_records_for_run reads the ids.
BeginDelete(r) ==
  /\ Present(r) /\ cascade[r] = "none"
  /\ requests < MaxRequests /\ requests' = requests + 1
  /\ cascade' = [cascade EXCEPT ![r] = "selected"]
  /\ selected' = [selected EXCEPT ![r] = RecordsOf(r)]
  /\ spoiled' = IF AtWork(r) THEN spoiled \cup {r} ELSE spoiled
  /\ UNCHANGED <<rec, ledger, writer, batch, loaded, job, drain>>
  /\ UNCHANGED <<row, dataVars, task, shown, unsaved, crashes>>

Found(r) == {m \in selected[r] : rec[m].state = "active"}

\* delete_records_for_run, second statement
ForgetRun(r) ==
  /\ cascade[r] = "selected" /\ cascade' = [cascade EXCEPT ![r] = "forgotten"]
  /\ rec' = Forgotten(rec, Found(r)) /\ selected' = [selected EXCEPT ![r] = {}]
  /\ spoiled' = IF AtWork(r) THEN spoiled \cup {r} ELSE spoiled
  /\ UNCHANGED <<ledger, writer, batch, loaded, job, drain, requests>>
  /\ UNCHANGED <<row, dataVars, task, shown, unsaved, crashes>>

\* Mutant of ForgetSources: the step is left out.
KeepSources(r) ==
  /\ cascade[r] = "forgotten" /\ cascade' = [cascade EXCEPT ![r] = "sources"]
  /\ UNCHANGED <<memoryVars, row, dataVars, task, shown, unsaved, selected, spoiled, crashes>>
\* delete_source_ledger
ForgetSources(r) ==
  /\ cascade[r] = "forgotten" /\ cascade' = [cascade EXCEPT ![r] = "sources"]
  /\ ledger' = IF ledger = r THEN NoRun ELSE ledger
  /\ UNCHANGED <<rec, writer, batch, loaded, job, drain, requests>>
  /\ UNCHANGED <<row, dataVars, task, shown, unsaved, selected, spoiled, crashes>>

\* Row, directory, trace, checkpoints.  Unlinking the journal may raise: the
\* row is gone, a repeated request is answered with 404.  An error of the
\* checkpoint database is returned in an answer that says deleted.
DeleteRest(r) ==
  /\ cascade[r] = "sources"
  /\ row' = [row EXCEPT ![r] = NoRow] /\ files' = files \ {r}
  /\ \/ /\ traces' = traces \ {r} /\ checkpoints' = checkpoints \ {r}
        /\ cascade' = [cascade EXCEPT ![r] = "done"]
     \/ /\ traces' = traces \ {r} /\ UNCHANGED checkpoints
        /\ cascade' = [cascade EXCEPT ![r] = "checkpoints left"]
     \/ /\ UNCHANGED <<traces, checkpoints>>
        /\ cascade' = [cascade EXCEPT ![r] = "traces left"]
  /\ UNCHANGED <<memoryVars, task, shown, unsaved, selected, spoiled, crashes>>
-----------------------------------------------------------------------------
\* A crash and the restart: tasks, threads, drains and cascades are gone,
\* claimed jobs stay running, rows of live runs become recoverable.
Crash ==
  /\ crashes < MaxCrashes /\ crashes' = crashes + 1
  /\ task' = [r \in Runs |-> IF task[r] \in Live THEN "ended" ELSE task[r]]
  /\ row' = [r \in Runs |-> IF row[r].status \in RecoverableOnStartup
                            THEN [row[r] EXCEPT !.status = "recoverable"] ELSE row[r]]
  /\ writer' = [r \in Runs |-> IF writer[r] = "none" THEN "none" ELSE "done"]
  /\ batch' = [r \in Runs |-> <<>>] /\ loaded' = [r \in Runs |-> Nothing]
  /\ drain' = [r \in Runs |-> Idle]
  /\ cascade' = [r \in Runs |-> IF cascade[r] \in {"selected", "forgotten", "sources"}
                                THEN "none" ELSE cascade[r]]
  /\ selected' = [r \in Runs |-> {}]
  /\ UNCHANGED <<rec, ledger, job, requests, dataVars, shown, unsaved, spoiled>>

MemoryStep == MemoryNext /\ UNCHANGED storeVars

Step ==
  \/ MemoryStep \/ Crash
  \/ \E r \in Runs : \/ Post(r) \/ Begin(r) \/ Work(r) \/ Deliver(r) \/ EndTask(r) \/ Fail(r) \/ Cancel(r)
                     \/ BeginDelete(r) \/ ForgetRun(r)
                     \/ ForgetSources(r) \/ DeleteRest(r)

\* Rows are flagged deleted without a new version, and consolidation writes
\* without looking at the version: what the code does not guard against.
CopyOut(m) == \E q \in Runs : \/ loaded[q][m].state = "active"
                             \/ drain[q].read[m].state = "active"
Raced ==
  {m \in Records :
     \/ rec[m].state = "active" /\ rec'[m].state # "active" /\ CopyOut(m)'
     \/ \E q \in Runs : /\ drain[q].at = "read" /\ drain'[q].at = "written"
                       /\ rec'[m] # rec[m] /\ drain[q].read[m] # rec[m]}

Next == Step /\ raced' = raced \cup Raced

Spec == Init /\ [][Next]_vars
-----------------------------------------------------------------------------
(* Properties.                                                             *)

RecordType ==
  [state : {"missing", "active", "forgotten", "superseded"}, fact : Facts,
   past : SUBSET Facts, run : 0 .. MaxRuns + 1, version : Nat,
   trust : {"derived", "trusted"}]

\* The values each variable may take; a drain holds claimed jobs only.
TypeOK ==
  /\ rec \in [Records -> RecordType] /\ ledger \in Runs \cup {NoRun}
  /\ writer \in [Runs -> {"none", "scheduled", "loaded", "committed", "done"}]
  /\ \A r \in Runs : batch[r] \in Batches \cup {<<>>} /\ loaded[r] \in [Records -> RecordType]
  /\ job \in [Runs -> {"none", "pending", "running", "done", "failed"}]
  /\ \A r \in Runs : \A j \in drain[r].jobs : job[j] = "running"
  /\ \A r, q \in Runs : r # q => drain[r].jobs \cap drain[q].jobs = {}
  /\ row \in [Runs -> [status : Terminal \cup RecoverableOnStartup \cup {"absent", "recoverable"},
                        result : {"", "report"}]]
  /\ task \in [Runs -> Live \cup {"none", "ended"}]

\* A deletion answered without an error leaves nothing of the run in any of
\* the six stores, whatever the other runs of the user do meanwhile - unless
\* the run or its memory task was still at work, or a thread held a copy of
\* one of its records, when its memory was deleted (delete_run_cascade).
CleanCascadeIsComplete ==
  \A r \in Runs : cascade[r] = "done" /\ r \notin spoiled =>
    /\ ~Present(r) /\ r \notin files \cup traces \cup checkpoints
    /\ ledger # r /\ RecordsOf(r) = {}
CascadeIsComplete == TypeOK /\ CleanCascadeIsComplete

\* What the page shows can be loaded again: a published report is in the row
\* until the row is deleted or the run fails, in which case the page is told
\* - unless the store refused it, which is only logged (persist before
\* publish, _project_run_complete, interrupt_run, recover_stale_runs).
PublishedResultIsStored ==
  \A r \in shown \ unsaved : Present(r) => row[r].result = "report"

\* What the memory was told stays told, and what it forgot stays forgotten:
\* no step makes a forgotten or superseded record active again, and none
\* drops a fact somebody else merged into a record - except on records that
\* raced, and except for a batch whose second write is merged under the
\* version its first, refused, write has counted up (_commit_writes,
\* _update_record, consolidate).
Said(record) == record.past \cup {record.fact}
SecondTry == \E r \in Runs : Len(batch[r]) > 1 /\ batch'[r] = <<>>
MemoryIsKept ==
  [][\A m \in Records \ raced' :
       /\ rec[m].state \in {"forgotten", "superseded"} => rec'[m].state # "active"
       /\ rec[m].state = "active" /\ rec'[m].state = "active" /\ ~SecondTry
            => Said(rec[m]) \subseteq Said(rec'[m])]_vars
=============================================================================
