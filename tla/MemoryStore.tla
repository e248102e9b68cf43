----------------------------- MODULE MemoryStore -----------------------------
(***************************************************************************)
(* The long-term memory of one user (app/agent/memory): what the post-run  *)
(* task of a run writes (harness/loop.py, memory/store.py), how a write is *)
(* merged with what is there (consolidation.py, governance.py), the        *)
(* SQLite backend whose operations run in threads, each with a connection  *)
(* of its own (backend/sqlite_backend.py), the durable consolidation jobs  *)
(* and what a user requests.                                                *)
(*                                                                         *)
(* A write reads the records, waits for embeddings and commits later; a    *)
(* consolidation reads outside the transaction it writes in.  All facts    *)
(* are about one topic: facts of two topics never meet in a merge.         *)
(***************************************************************************)
EXTENDS Integers, FiniteSets, Sequences

CONSTANTS
  MaxRuns,      \* runs that remember something
  Batches,      \* what the extractor may find in an answer: sequences of facts
  MaxJobs,      \* consolidation jobs enqueued
  MaxRequests   \* requests to forget or to delete

Runs == 1 .. MaxRuns
NoRun == 0
EarlierRun == MaxRuns + 1      \* wrote the record that is there at the start
Facts == {"plain", "detailed", "reworded", "denied", "dated"}

ASSUME MemoryAssumption ==
  /\ MaxRuns \in Nat \ {0} /\ MaxJobs \in Nat /\ MaxRequests \in Nat
  /\ \A b \in Batches : b \in Seq(Facts) /\ Len(b) \in {1, 2}

Records == 1 .. 2 * MaxRuns + 1
\* is_deleted stands for both "forgotten" and "superseded", superseded_by
\* tells them apart; past is metadata.fact_history.
Missing == [state |-> "missing", fact |-> "plain", past |-> {}, run |-> NoRun,
            version |-> 0, trust |-> "derived"]
NewRecord(f, r) == [state |-> "active", fact |-> f, past |-> {}, run |-> r,
                    version |-> 1, trust |-> "derived"]

VARIABLES
  rec,        \* the memories table
  ledger,     \* the run_id in the source ledger's row of a source both runs use
  writer,     \* run -> where its post-run task is
  batch,      \* run -> the facts it is about to write
  loaded,     \* run -> the records it read before
  job,        \* run -> status of the consolidation job it enqueued
  drain,      \* run -> the drain it started: the jobs it claimed, what it read
  requests

memoryVars == <<rec, ledger, writer, batch, loaded, job, drain, requests>>

Nothing == [m \in Records |-> Missing]
Idle == [at |-> "idle", jobs |-> {}, read |-> Nothing]

\* Memory tasks are due for the runs of the set.
MemoryInit(due) ==
  /\ rec = [Nothing EXCEPT ![1] = NewRecord("plain", EarlierRun)]
  /\ ledger \in IF due = {} THEN {NoRun} ELSE due
  /\ writer = [r \in Runs |-> IF r \in due THEN "scheduled" ELSE "none"]
  /\ batch = [r \in Runs |-> <<>>]
  /\ loaded = [r \in Runs |-> Nothing]
  /\ job = [r \in Runs |-> "none"] /\ drain = [r \in Runs |-> Idle]
  /\ requests = 0
-----------------------------------------------------------------------------
(* Merging.                                                                *)

\* What looks_contradictory and the valid times make of two facts.
Relation(f, g) ==
  CASE f = g -> "same"
    [] f # g /\ "dated" \in {f, g} -> "other time"
    [] f # g /\ "dated" \notin {f, g} /\ "denied" \in {f, g} -> "contradiction"
    [] OTHER -> "refresh"

\* find_merge_candidate returns the best of these; whichever scores best.
Candidates(known) == {m \in Records : known[m].state = "active"}

\* decide_write_action.  The facts of an answer are derived ones.
Decision(f, record) ==
  LET relation == Relation(f, record.fact)
  IN  IF relation = "same" \/ record.trust = "trusted" THEN "noop"
      ELSE CASE relation = "contradiction" -> "supersede"
             [] relation = "other time" -> "add"
             [] OTHER -> "update"

\* apply_update: the record takes the fact and the provenance of the write.
Merged(record, f, r) ==
  [record EXCEPT !.fact = f, !.past = @ \cup {record.fact}, !.run = r,
                 !.version = @ + 1]

Put(known, table, m, record) ==
  [known |-> [known EXCEPT ![m] = record], table |-> [table EXCEPT ![m] = record]]
Unused(table) == CHOOSE m \in Records : table[m].state = "missing"

\* Mutant of Updated: UPDATE without the version it expects.
UpdatedBlindly(known, table, m, record, expected) == Put(known, table, m, record)
\* _update_record writes a record as a whole when the version is the expected
\* one.  The copy in memory is changed even when the row is not.
Updated(known, table, m, record, expected) ==
  IF table[m].version = expected THEN Put(known, table, m, record)
  ELSE [known |-> [known EXCEPT ![m] = record], table |-> table]

Added(known, table, f, r) == Put(known, table, Unused(table), NewRecord(f, r))

\* One write of a batch whose best candidate is m.
Outcome(known, table, f, r, m) ==
  CASE Decision(f, known[m]) = "noop" -> [known |-> known, table |-> table]
    [] Decision(f, known[m]) = "add" -> Added(known, table, f, r)
    [] Decision(f, known[m]) = "update" ->
         Updated(known, table, m, Merged(known[m], f, r), known[m].version)
    [] Decision(f, known[m]) = "supersede" ->
         LET old == Put(known, table, m, [known[m] EXCEPT !.state = "superseded"])
         IN  Added(old.known, old.table, f, r)
Written(known, table, f, r) ==
  IF Candidates(known) = {} THEN {Added(known, table, f, r)}
  ELSE {Outcome(known, table, f, r, m) : m \in Candidates(known)}

AllWritten(known, table, facts, r) ==
  IF Len(facts) = 1 THEN Written(known, table, facts[1], r)
  ELSE UNION {Written(s.known, s.table, facts[2], r)
              : s \in Written(known, table, facts[1], r)}
-----------------------------------------------------------------------------
(* The post-run task of a run, bounded by a timeout.                       *)

Active(table) == [m \in Records |->
                    IF table[m].state = "active" THEN table[m] ELSE Missing]

\* _load_active
ReadRecords(table) == Active(table)

\* The extractor answers and the records are read; no facts end the writing.
Load(r) ==
  /\ writer[r] = "scheduled"
  /\ \/ /\ \E facts \in Batches : batch' = [batch EXCEPT ![r] = facts]
        /\ loaded' = [loaded EXCEPT ![r] = ReadRecords(rec)]
        /\ writer' = [writer EXCEPT ![r] = "loaded"]
     \/ /\ writer' = [writer EXCEPT ![r] = "committed"]
        /\ UNCHANGED <<batch, loaded>>
  /\ UNCHANGED <<rec, ledger, job, drain, requests>>

\* _commit_writes in its thread: one transaction.  A timeout does not stop the
\* thread; the task is then over without a job.
Commit(r) ==
  /\ writer[r] = "loaded"
  /\ \E s \in AllWritten(loaded[r], rec, batch[r], r) : rec' = s.table
  /\ writer' = [writer EXCEPT ![r] = "committed"]
  /\ batch' = [batch EXCEPT ![r] = <<>>] /\ loaded' = [loaded EXCEPT ![r] = Nothing]
  /\ UNCHANGED <<ledger, job, drain, requests>>

\* The timeout, or a failure of the extractor or of the embeddings.
GiveUp(r) ==
  /\ writer[r] \in {"scheduled", "loaded", "committed"}
  /\ writer' = [writer EXCEPT ![r] = "done"]
  /\ batch' = [batch EXCEPT ![r] = <<>>] /\ loaded' = [loaded EXCEPT ![r] = Nothing]
  /\ UNCHANGED <<rec, ledger, job, drain, requests>>

\* The job is stored before the drain starts.
Enqueue(r) ==
  /\ writer[r] = "committed" /\ Cardinality({j \in Runs : job[j] # "none"}) < MaxJobs
  /\ writer' = [writer EXCEPT ![r] = "done"]
  /\ job' = [job EXCEPT ![r] = "pending"]
  /\ drain' = [drain EXCEPT ![r].at = "started"]
  /\ UNCHANGED <<rec, ledger, batch, loaded, requests>>
-----------------------------------------------------------------------------
(* Consolidation.                                                          *)

Claimable == {j \in Runs : job[j] = "pending"}

\* _claim_jobs takes what is pending; a drain that finds nothing ends.
Claim(r) ==
  /\ drain[r].at = "started"
  /\ drain' = [drain EXCEPT ![r] =
       IF Claimable = {} THEN Idle ELSE [@ EXCEPT !.at = "claimed", !.jobs = Claimable]]
  /\ job' = [j \in Runs |-> IF j \in Claimable THEN "running" ELSE job[j]]
  /\ UNCHANGED <<rec, ledger, writer, batch, loaded, requests>>

\* The SELECT of consolidate: before the transaction of its updates.
Survey(r) ==
  /\ drain[r].at = "claimed"
  /\ drain' = [drain EXCEPT ![r].at = "read", ![r].read = Active(rec)]
  /\ UNCHANGED <<rec, ledger, writer, batch, loaded, job, requests>>

\* Decayed and promoted records are written back as a whole, under whatever
\* version the row has by now.
WriteBack(r) ==
  /\ drain[r].at = "read"
  /\ \E changed \in SUBSET Candidates(drain[r].read) : \E promoted \in SUBSET changed :
       rec' = [m \in Records |->
                 IF m \in promoted THEN [drain[r].read[m] EXCEPT !.trust = "trusted"]
                 ELSE IF m \in changed THEN drain[r].read[m] ELSE rec[m]]
  /\ drain' = [drain EXCEPT ![r].at = "written", ![r].read = Nothing]
  /\ UNCHANGED <<ledger, writer, batch, loaded, job, requests>>

\* _finish_job, with an error when consolidate raised; then the next job.
Finish(r) ==
  /\ drain[r].at \in {"claimed", "read", "written"}
  /\ \E j \in drain[r].jobs :
       /\ job' = [job EXCEPT ![j] = IF drain[r].at = "written" THEN "done" ELSE "failed"]
       /\ drain' = [drain EXCEPT ![r] =
            IF @.jobs = {j} THEN Idle
            ELSE [Idle EXCEPT !.at = "claimed", !.jobs = drain[r].jobs \ {j}]]
  /\ UNCHANGED <<rec, ledger, writer, batch, loaded, requests>>
-----------------------------------------------------------------------------
(* Forgetting: is_deleted = 1, whatever the version, which stays.          *)

Forgotten(table, ms) ==
  [m \in Records |-> IF m \in ms THEN [table[m] EXCEPT !.state = "forgotten"]
                     ELSE table[m]]

\* delete_record and delete_all
ForgetRecords(ms) ==
  /\ requests < MaxRequests /\ requests' = requests + 1
  /\ ms # {} /\ rec' = Forgotten(rec, ms)
  /\ UNCHANGED <<ledger, writer, batch, loaded, job, drain>>
ForgetRecord == \E m \in Candidates(rec) : ForgetRecords({m})
ForgetUser == ForgetRecords(Candidates(rec))

\* delete_records_for_run reads the ids of the run and deletes them in a
\* second statement; the caller keeps the ids between.
RecordsOf(r) == {m \in Candidates(rec) : rec[m].run = r}

MemoryNext ==
  \/ \E r \in Runs : \/ Load(r) \/ Commit(r) \/ GiveUp(r) \/ Enqueue(r)
                     \/ Claim(r) \/ Survey(r) \/ WriteBack(r) \/ Finish(r)
  \/ ForgetRecord \/ ForgetUser
=============================================================================
