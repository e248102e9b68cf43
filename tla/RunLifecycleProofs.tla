------------------------- MODULE RunLifecycleProofs -------------------------
(***************************************************************************)
(* The safety properties of RunLifecycle, for every number of runs,        *)
(* approvals, restarts and deletions.  The store is written by session and *)
(* by run alike, so an induction has to know when the session's latest run *)
(* is the one whose task writes: that is what Inductive adds.              *)
(***************************************************************************)
EXTENDS RunLifecycle, WellFoundedInduction, TLAPS

\* A run that was not posted has left no trace.
Fresh ==
  \A r \in Runs : r > posted =>
    /\ status[r] = "absent" /\ task[r] = "none" /\ cancel[r] = "none"
    /\ job[r] = "none" /\ starts[r] = 0

\* What waits to be executed has not been executed, and a job that waits has
\* no task.
StartsOnce ==
  \A r \in Runs :
    /\ starts[r] <= 1
    /\ task[r] = "ready" => starts[r] = 0
    /\ job[r] = "pending" => task[r] = "none" /\ starts[r] = 0

\* A task the registry has lost was cancelled when it was replaced, and that
\* cancellation is not withdrawn but by a worker that swallows it.
HandleKept ==
  \A r \in Runs :
    Live(r) /\ worker # r /\ activeTask # r => cancel[r] \in {"pending", "swallowed"}

\* Without queue and deletions the session's latest run is the one the registry
\* names, if any, and as long as its task is at work it has not ended.
Direct == ~queueMode /\ deletes = 0
AtWork == {"ready", "working", "waiting"}
DirectRuns ==
  /\ ~queueMode => worker = NoRun
  /\ Direct =>
       /\ activeTask \in {NoRun, posted}
       /\ \A r \in Runs : r <= posted => status[r] # "absent"
       /\ \A r \in Runs : activeTask = r /\ task[r] \in AtWork => status[r] \notin Terminal

\* Undisturbed is not closed under the steps that lead to it: a cancellation
\* that was swallowed may be made again.  Calm is, because a task that was
\* replaced is never cancelled again.
Calm ==
  Direct /\ \A r \in Runs : cancel[r] = "swallowed" => Live(r) /\ activeTask = r
ApprovalsShown ==
  Calm => \A r \in Runs : status[r] = "awaiting_approval" =>
    /\ payload[r] = r
    /\ restarts > 0 \/ (waiter = r /\ activeTask = r /\ task[r] = "waiting")

Inductive ==
  /\ TypeOK /\ Fresh /\ StartsOnce /\ HandleKept
  /\ DecisionReachesAWaiter /\ DirectRuns /\ ApprovalsShown
-----------------------------------------------------------------------------
(* An UPDATE changes the row it names, if there is one; and the session's  *)
(* latest run.                                                             *)

LEMMA NatsHaveLeast ==
  ASSUME NEW T, T \subseteq Nat, T # {}
  PROVE  \E x \in T : \A y \in T : x <= y
<1>1. PICK x \in T : \A y \in T : ~(<<y, x>> \in OpToRel(<, Nat))
  BY NatLessThanWellFounded, WFMin, Zenon
<1>2. ASSUME NEW y \in T, y < x PROVE <<y, x>> \in OpToRel(<, Nat)
  BY <1>2 DEF OpToRel
<1>3. \A y \in T : ~(y < x)
  BY <1>1, <1>2
<1> QED BY <1>3

LEMMA GreatestExists ==
  ASSUME NEW n \in Nat, NEW S, S \subseteq 1 .. n, S # {}
  PROVE  \E r \in S : \A q \in S : q <= r
<1> DEFINE T == {n - r : r \in S}
<1>1. T \subseteq Nat
  <2>1. \A r \in S : n - r \in Nat
    OBVIOUS
  <2> QED BY <2>1
<1>2. PICK x \in T : \A y \in T : x <= y
  BY <1>1, NatsHaveLeast, Zenon
<1>3. PICK r \in S : x = n - r
  BY <1>2
<1>4. \A q \in S : n - r <= n - q
  BY <1>2, <1>3
<1> QED BY <1>4

LEMMA LatestIsPresent ==
  ASSUME TypeOK, Latest # NoRun
  PROVE  Latest \in Present /\ \A q \in Present : q <= Latest
<1>1. Present # {} /\ Present \subseteq 1 .. MaxRuns
  BY DEF Present, Runs, Latest
<1>2. \E r \in Present : \A q \in Present : q <= r
  BY <1>1, GreatestExists, BoundsAssumption, Zenon DEF BoundsAssumption
<1>3. Latest = CHOOSE r \in Present : \A q \in Present : q <= r
  BY <1>1, Zenon DEF Latest
<1> QED BY <1>2, <1>3, Zenon

LEMMA LatestIsPosted ==
  ASSUME Inductive, Direct
  PROVE  Latest = posted
<1>1. Present = 1 .. posted /\ posted \in Nat
  BY BoundsAssumption DEF Runs, Present, Inductive, TypeOK, Fresh, DirectRuns
<1>2. CASE Latest = NoRun
  <2>1. Present = {}
    <3>1. SUFFICES ASSUME Present # {} PROVE FALSE
      OBVIOUS
    <3>2. Latest = CHOOSE r \in Present : \A q \in Present : q <= r
      BY <3>1, Zenon DEF Latest
    <3>3. \E r \in Present : \A q \in Present : q <= r
      BY <1>1, <3>1
    <3>4. Latest \in Present
      BY <3>2, <3>3, Zenon
    <3> QED BY <1>1, <1>2, <3>4 DEF NoRun
  <2> QED BY <1>1, <1>2, <2>1 DEF NoRun
<1>3. CASE Latest # NoRun
  BY <1>1, <1>3, LatestIsPresent DEF Inductive
<1> QED BY <1>2, <1>3

LEMMA PutWrites ==
  ASSUME NEW S, NEW f \in [Runs -> S], NEW r, NEW v \in S
  PROVE  /\ Put(f, r, v) \in [Runs -> S]
         /\ \A q \in Runs : Put(f, r, v)[q] =
              IF q = r /\ status[q] # "absent" THEN v ELSE f[q]
BY DEF Put, Present

\* What the two columns of the store are after a write that names a run.
StatusIs(new) ==
  status' \in [Runs -> Statuses] /\ \A q \in Runs : status'[q] = new[q]
PayloadIs(new) ==
  payload' \in [Runs -> Runs \cup {NoRun}] /\ \A q \in Runs : payload'[q] = new[q]
Written(f, r, v) == [q \in Runs |-> IF q = r /\ status[q] # "absent" THEN v ELSE f[q]]

LEMMA StatusPut ==
  ASSUME TypeOK, NEW r, NEW v \in Statuses, status' = Put(status, r, v)
  PROVE  StatusIs(Written(status, r, v))
<1>1. status \in [Runs -> Statuses]
  BY DEF TypeOK
<1>2. /\ Put(status, r, v) \in [Runs -> Statuses]
      /\ \A q \in Runs : Put(status, r, v)[q] =
           IF q = r /\ status[q] # "absent" THEN v ELSE status[q]
  BY <1>1, PutWrites
<1> QED BY <1>2 DEF StatusIs, Written

LEMMA PayloadPut ==
  ASSUME TypeOK, NEW r, NEW v \in Runs \cup {NoRun}, payload' = Put(payload, r, v)
  PROVE  PayloadIs(Written(payload, r, v))
<1> DEFINE owners == Runs \cup {NoRun}
<1>1. payload \in [Runs -> owners] /\ v \in owners
  BY DEF TypeOK
<1> HIDE DEF owners
<1>2. /\ Put(payload, r, v) \in [Runs -> owners]
      /\ \A q \in Runs : Put(payload, r, v)[q] =
           IF q = r /\ status[q] # "absent" THEN v ELSE payload[q]
  BY <1>1, PutWrites
<1> QED BY <1>2 DEF PayloadIs, Written, owners

LEMMA StatusesHave ==
  /\ {"running", "awaiting_approval", "cancelling", "interrupted", "failed", "recoverable",
      "queued", "absent"} \subseteq Statuses
  /\ Terminal \subseteq Statuses
BY DEF Statuses, Terminal, RecoverableOnStartup

LEMMA ClearHitlWrites ==
  ASSUME TypeOK, ClearHitl
  PROVE  /\ StatusIs([q \in Runs |-> IF q = Latest THEN ClearedStatus(status[q]) ELSE status[q]])
         /\ PayloadIs(Written(payload, Latest, NoRun))
         /\ Latest \in Runs => status[Latest] # "absent"
<1>1. PayloadIs(Written(payload, Latest, NoRun))
  BY PayloadPut DEF ClearHitl
<1>2. Latest \in Runs => status[Latest] # "absent"
  BY LatestIsPresent, BoundsAssumption DEF Present, Runs, NoRun
<1>3. Latest = NoRun \/ Latest \in Runs
  BY LatestIsPresent DEF Present
<1>4. \A q \in Runs : ClearedStatus(status[q]) \in Statuses
  BY StatusesHave DEF ClearedStatus, TypeOK
<1>5. NoRun \notin Runs
  BY BoundsAssumption DEF Runs, NoRun
<1>6. StatusIs([q \in Runs |-> IF q = Latest THEN ClearedStatus(status[q]) ELSE status[q]])
  BY <1>3, <1>4, <1>5 DEF ClearHitl, StatusIs, TypeOK
<1> QED BY <1>1, <1>2, <1>6

LEMMA InitHolds == Init => Inductive
BY BoundsAssumption DEF Init, Inductive, TypeOK, Fresh, StartsOnce, HandleKept,
   DecisionReachesAWaiter, DirectRuns, ApprovalsShown, Calm, Direct, Runs, NoRun,
   Statuses, Terminal, RecoverableOnStartup, LiveStates, Live, AtWork
-----------------------------------------------------------------------------
LEMMA EnqueueRunKeeps == ASSUME Inductive, EnqueueRun PROVE Inductive'
<1> USE BoundsAssumption DEF Inductive, EnqueueRun, boundVars, hitlVars, Runs
<1>1. TypeOK'
  BY DEF TypeOK, Statuses, RecoverableOnStartup
<1>2. Fresh' /\ StartsOnce'
  BY DEF TypeOK, Fresh, StartsOnce
<1>3. HandleKept' /\ DecisionReachesAWaiter'
  BY DEF TypeOK, HandleKept, Live, DecisionReachesAWaiter
<1>4. DirectRuns' /\ ApprovalsShown'
  BY DEF DirectRuns, ApprovalsShown, Calm, Direct
<1> QED BY <1>1, <1>2, <1>3, <1>4

LEMMA StartRunKeeps == ASSUME Inductive, StartRun PROVE Inductive'
<1> USE BoundsAssumption DEF Runs
<1> DEFINE replacing == Live(activeTask)
           interrupted == IF replacing THEN Latest ELSE NoRun
<1>1. posted + 1 \in Runs /\ posted' = posted + 1 /\ posted \in Nat
  BY DEF StartRun, Inductive, TypeOK
<1>2. /\ Put(status, interrupted, "interrupted") \in [Runs -> Statuses]
      /\ \A q \in Runs : Put(status, interrupted, "interrupted")[q] =
           IF q = interrupted /\ status[q] # "absent" THEN "interrupted" ELSE status[q]
  <2>1. status \in [Runs -> Statuses] /\ "interrupted" \in Statuses
    BY DEF Inductive, TypeOK, Statuses, Terminal
  <2> HIDE DEF interrupted
  <2> QED BY <2>1, PutWrites
<1>3. /\ Put(payload, interrupted, NoRun) \in [Runs -> Runs \cup {NoRun}]
      /\ \A q \in Runs : Put(payload, interrupted, NoRun)[q] =
           IF q = interrupted /\ status[q] # "absent" THEN NoRun ELSE payload[q]
  <2> DEFINE owners == Runs \cup {NoRun}
  <2>1. payload \in [Runs -> owners] /\ NoRun \in owners
    BY DEF Inductive, TypeOK
  <2> HIDE DEF interrupted, owners
  <2>2. /\ Put(payload, interrupted, NoRun) \in [Runs -> owners]
        /\ \A q \in Runs : Put(payload, interrupted, NoRun)[q] =
             IF q = interrupted /\ status[q] # "absent" THEN NoRun ELSE payload[q]
    BY <2>1, PutWrites
  <2> QED BY <2>2 DEF owners
<1> USE DEF Inductive, StartRun, boundVars, hitlVars, queueVars
<1>4. /\ status' \in [Runs -> Statuses]
      /\ \A q \in Runs : status'[q] =
           IF q = posted + 1 THEN "queued"
           ELSE IF q = interrupted /\ status[q] # "absent" THEN "interrupted" ELSE status[q]
  BY <1>1, <1>2 DEF Statuses, RecoverableOnStartup
<1>5. /\ payload' \in [Runs -> Runs \cup {NoRun}]
      /\ \A q \in Runs : payload'[q] =
           IF q = interrupted /\ status[q] # "absent" THEN NoRun ELSE payload[q]
  BY <1>3
<1>6. /\ cancel' \in [Runs -> {"none", "requested", "pending", "repeating", "swallowed"}]
      /\ \A q \in Runs : cancel'[q] =
           IF replacing /\ q = activeTask THEN "pending" ELSE cancel[q]
  BY DEF TypeOK
<1>7. /\ task' \in [Runs -> LiveStates \cup {"none", "done"}]
      /\ \A q \in Runs : task'[q] = IF q = posted + 1 THEN "ready" ELSE task[q]
  BY <1>1 DEF TypeOK, LiveStates
<1>8. /\ activeTask' = posted + 1
      /\ UNCHANGED <<waiter, decided, approvals, job, worker, starts, queueMode, restarts, deletes>>
  OBVIOUS
<1> HIDE DEF StartRun, replacing, interrupted
<1>9. TypeOK'
  BY <1>1, <1>4, <1>5, <1>6, <1>7, <1>8 DEF TypeOK
<1>10. Fresh' /\ StartsOnce'
  <2>1. replacing => ~(activeTask > posted)
    BY DEF Fresh, replacing, Live, LiveStates
  <2>2. ASSUME NEW r \in Runs, r > posted'
        PROVE  /\ status'[r] = "absent" /\ task'[r] = "none" /\ cancel'[r] = "none"
               /\ job'[r] = "none" /\ starts'[r] = 0
    BY <1>1, <1>4, <1>6, <1>7, <1>8, <2>1, <2>2 DEF Fresh
  <2>3. StartsOnce'
    BY <1>1, <1>7, <1>8 DEF Fresh, StartsOnce
  <2> QED BY <2>2, <2>3 DEF Fresh
<1>11. HandleKept' /\ DecisionReachesAWaiter'
  BY <1>1, <1>6, <1>7, <1>8
     DEF TypeOK, Fresh, HandleKept, Live, DecisionReachesAWaiter, NoRun, replacing
<1>12. DirectRuns' /\ ApprovalsShown'
  <2>1. CASE ~Direct
    BY <2>1, <1>8 DEF DirectRuns, ApprovalsShown, Calm, Direct
  <2>2. CASE Direct
    <3>1. Latest = posted
      BY <2>2, LatestIsPosted
    <3>2. DirectRuns'
      <4>1. \A r \in Runs : r <= posted' => status'[r] # "absent"
        BY <2>2, <1>1, <1>4 DEF DirectRuns, Direct
      <4>2. \A r \in Runs : activeTask' = r => status'[r] \notin Terminal
        BY <1>1, <1>4, <1>8 DEF Terminal
      <4> QED BY <4>1, <4>2, <1>1, <1>8 DEF DirectRuns
    <3>3. Calm' => Calm
      BY <2>2, <1>1, <1>6, <1>7, <1>8 DEF Calm, Direct, Fresh, replacing, Live, TypeOK
    <3>4. \A r \in Runs : status'[r] = "awaiting_approval" =>
            status[r] = "awaiting_approval" /\ ~(replacing /\ r = posted)
      BY <2>2, <3>1, <1>4 DEF interrupted, TypeOK
    <3>5. ApprovalsShown'
      BY <2>2, <3>1, <3>3, <3>4, <1>1, <1>4, <1>5, <1>6, <1>7, <1>8
         DEF TypeOK, DirectRuns, ApprovalsShown, Direct, replacing, interrupted, Live,
             LiveStates, NoRun
    <3> QED BY <3>2, <3>5
  <2> QED BY <2>1, <2>2
<1> QED BY <1>9, <1>10, <1>11, <1>12

LEMMA ForgetTaskKeeps ==
  ASSUME Inductive, NEW r \in Runs, ForgetTask(r) PROVE Inductive'
<1> USE BoundsAssumption DEF Inductive, ForgetTask, boundVars, hitlVars, queueVars, storeVars, Runs
<1>1. TypeOK'
  BY DEF TypeOK
<1>2. Fresh' /\ StartsOnce'
  BY DEF TypeOK, Fresh, StartsOnce
<1>3. HandleKept' /\ DecisionReachesAWaiter'
  BY DEF TypeOK, HandleKept, Live, LiveStates, DecisionReachesAWaiter, NoRun
<1>4. DirectRuns' /\ ApprovalsShown'
  BY SMTT(30) DEF TypeOK, DirectRuns, ApprovalsShown, Calm, Direct, Live, LiveStates, AtWork, NoRun
<1> QED BY <1>1, <1>2, <1>3, <1>4

LEMMA CancelLiveTaskKeeps == ASSUME Inductive, CancelLiveTask PROVE Inductive'
<1> USE BoundsAssumption DEF Inductive, CancelLiveTask, boundVars, hitlVars, queueVars, Runs, Put
<1>1. TypeOK'
  BY DEF TypeOK, Statuses, RecoverableOnStartup
<1>2. Fresh' /\ StartsOnce'
  BY DEF TypeOK, Fresh, StartsOnce, Present, Live, LiveStates
<1>3. HandleKept' /\ DecisionReachesAWaiter'
  BY DEF TypeOK, HandleKept, Live, DecisionReachesAWaiter
<1>4. DirectRuns' /\ ApprovalsShown'
  <2>1. CASE ~Direct
    BY <2>1 DEF DirectRuns, ApprovalsShown, Calm, Direct
  <2>2. CASE Direct
    <3>1. Latest = posted
      BY <2>2, LatestIsPosted
    <3> QED BY <2>2, <3>1 DEF TypeOK, DirectRuns, ApprovalsShown, Calm, Direct, Live,
              LiveStates, AtWork, NoRun, Present, Terminal
  <2> QED BY <2>1, <2>2
<1> QED BY <1>1, <1>2, <1>3, <1>4

LEMMA CancelAgainKeeps ==
  ASSUME Inductive, NEW r \in Runs, CancelAgain(r) PROVE Inductive'
<1> USE BoundsAssumption DEF Inductive, CancelAgain, boundVars, hitlVars, queueVars, storeVars, Runs
<1>1. TypeOK'
  BY DEF TypeOK
<1>2. Fresh' /\ StartsOnce'
  BY DEF TypeOK, Fresh, StartsOnce
<1>3. HandleKept' /\ DecisionReachesAWaiter'
  BY DEF TypeOK, HandleKept, Live, DecisionReachesAWaiter
<1>4. DirectRuns' /\ ApprovalsShown'
  BY DEF TypeOK, DirectRuns, ApprovalsShown, Calm, Direct, Live
<1> QED BY <1>1, <1>2, <1>3, <1>4

LEMMA CancelWithoutTaskKeeps == ASSUME Inductive, CancelWithoutTask PROVE Inductive'
<1> USE BoundsAssumption DEF Inductive, CancelWithoutTask, InterruptRun, CompleteRun, boundVars,
        hitlVars, queueVars, storeVars, Runs, Put
<1>1. TypeOK'
  BY DEF TypeOK, Statuses, RecoverableOnStartup, Terminal
<1>2. Fresh' /\ StartsOnce'
  BY DEF TypeOK, Fresh, StartsOnce, Present, Terminal
<1>3. HandleKept' /\ DecisionReachesAWaiter'
  BY DEF TypeOK, HandleKept, Live, DecisionReachesAWaiter
<1>4. DirectRuns' /\ ApprovalsShown'
  <2>1. CASE ~Direct
    BY <2>1 DEF DirectRuns, ApprovalsShown, Calm, Direct
  <2>2. CASE Direct
    <3>1. Latest = posted
      BY <2>2, LatestIsPosted
    <3>2. /\ activeTask' = NoRun /\ NoRun \notin Runs
          /\ UNCHANGED <<posted, task, cancel, waiter, worker, queueMode, restarts, deletes>>
      BY DEF NoRun
    <3>3. \A q \in Runs :
            /\ status[q] # "absent" => status'[q] # "absent"
            /\ status'[q] = "awaiting_approval" =>
                 status[q] = "awaiting_approval" /\ payload'[q] = payload[q]
      BY DEF TypeOK, Present
    <3>4. DirectRuns'
      BY <2>2, <3>2, <3>3 DEF DirectRuns, Direct
    <3>5. Calm' => Calm
      BY <3>2 DEF Calm, Direct, Live
    <3>6. \A r \in Runs : activeTask = r => task[r] # "waiting"
      BY DEF Live, LiveStates
    <3>7. ApprovalsShown'
      BY <3>2, <3>3, <3>5, <3>6 DEF ApprovalsShown
    <3> QED BY <3>4, <3>7
  <2> QED BY <2>1, <2>2
<1> QED BY <1>1, <1>2, <1>3, <1>4

LEMMA SubmitDecisionsKeeps == ASSUME Inductive, SubmitDecisions PROVE Inductive'
<1> USE BoundsAssumption DEF Inductive
<1>1. /\ StatusIs([q \in Runs |-> IF q = Latest THEN ClearedStatus(status[q]) ELSE status[q]])
      /\ PayloadIs(Written(payload, Latest, NoRun))
      /\ Latest \in Runs => status[Latest] # "absent"
  BY ClearHitlWrites DEF SubmitDecisions
<1>2. /\ decided' = decided \cup {waiter} /\ waiter \in Runs
      /\ UNCHANGED <<posted, task, cancel, activeTask, waiter, approvals, job, worker,
                     starts, queueMode, restarts, deletes>>
  BY DEF SubmitDecisions, FutureOpen, TypeOK, queueVars, boundVars
<1>3. TypeOK'
  BY <1>1, <1>2 DEF TypeOK, StatusIs, PayloadIs
<1>4. Fresh' /\ StartsOnce'
  BY <1>1, <1>2 DEF Fresh, StartsOnce, StatusIs
<1>5. HandleKept' /\ DecisionReachesAWaiter'
  BY <1>2 DEF HandleKept, Live, DecisionReachesAWaiter
<1>6. DirectRuns' /\ ApprovalsShown'
  <2>1. CASE ~Direct
    BY <2>1, <1>2 DEF DirectRuns, ApprovalsShown, Calm, Direct
  <2>2. CASE Direct
    <3>1. \A q \in Runs :
            /\ (status'[q] = "absent") <=> (status[q] = "absent")
            /\ (status'[q] \in Terminal) <=> (status[q] \in Terminal)
      BY <1>1 DEF StatusIs, ClearedStatus, Terminal
    <3>2. \A q \in Runs : status'[q] = "awaiting_approval" =>
            status[q] = "awaiting_approval" /\ payload'[q] = payload[q]
      BY <1>1 DEF StatusIs, PayloadIs, Written, ClearedStatus, Terminal
    <3>3. DirectRuns'
      BY <2>2, <3>1, <1>2 DEF DirectRuns, Direct
    <3>4. Calm' => Calm
      BY <1>2 DEF Calm, Direct, Live
    <3>5. ApprovalsShown'
      BY <3>2, <3>4, <1>2 DEF ApprovalsShown
    <3> QED BY <3>3, <3>5
  <2> QED BY <2>1, <2>2
<1> QED BY <1>3, <1>4, <1>5, <1>6

LEMMA DeleteRowsKeeps ==
  ASSUME Inductive, NEW rows, DeleteRows(rows) PROVE Inductive'
<1> USE BoundsAssumption DEF Inductive, DeleteRows, hitlVars, queueVars, Runs
<1>1. TypeOK'
  BY DEF TypeOK, Statuses
<1>2. Fresh' /\ StartsOnce'
  BY DEF TypeOK, Fresh, StartsOnce
<1>3. HandleKept' /\ DecisionReachesAWaiter'
  BY DEF TypeOK, HandleKept, Live, DecisionReachesAWaiter
<1>4. DirectRuns' /\ ApprovalsShown'
  BY DEF TypeOK, DirectRuns, ApprovalsShown, Calm, Direct
<1> QED BY <1>1, <1>2, <1>3, <1>4
-----------------------------------------------------------------------------
(* The steps of the task that executes a run.                              *)

LEMMA BeginRunKeeps ==
  ASSUME Inductive, NEW r \in Runs, BeginRun(r) PROVE Inductive'
<1> USE BoundsAssumption DEF Inductive, Runs
<1>1. StatusIs(Written(status, r, "running")) /\ UNCHANGED payload
  BY StatusPut, StatusesHave DEF BeginRun, MarkRunning
<1>2. /\ task[r] = "ready" /\ cancel[r] = "none"
      /\ task' = [task EXCEPT ![r] = "working"]
      /\ starts' = [starts EXCEPT ![r] = @ + 1]
      /\ UNCHANGED <<posted, cancel, activeTask, waiter, decided, approvals, job, worker,
                     queueMode, restarts, deletes>>
  BY DEF BeginRun, UnchangedByTask, queueVars, boundVars, hitlVars
<1>3. TypeOK'
  BY <1>1, <1>2, SMTT(30) DEF TypeOK, StatusIs, LiveStates
<1>4. Fresh'
  BY <1>1, <1>2 DEF TypeOK, Fresh, StatusIs, Written
<1>5. StartsOnce'
  BY <1>2 DEF TypeOK, StartsOnce
<1>6. HandleKept' /\ DecisionReachesAWaiter'
  BY <1>2 DEF TypeOK, HandleKept, Live, LiveStates, DecisionReachesAWaiter, NoRun
<1>7. DirectRuns'
  <2>1. \A q \in Runs : (status'[q] = "absent") <=> (status[q] = "absent")
    BY <1>1 DEF StatusIs, Written
  <2>2. \A q \in Runs : status'[q] \in Terminal => q # r /\ status[q] \in Terminal
    BY <1>1, <1>2 DEF StatusIs, Written, Terminal, TypeOK, Fresh, DirectRuns, AtWork
  <2> QED BY <1>2, <2>1, <2>2 DEF DirectRuns, Direct, TypeOK, AtWork
<1>8. ApprovalsShown'
  <2>1. Calm' => Calm
    BY <1>2 DEF Calm, Direct, Live, LiveStates, TypeOK
  <2>2. \A q \in Runs : status'[q] = "awaiting_approval" => status[q] = "awaiting_approval" /\ q # r
    BY <1>1 DEF StatusIs, Written
  <2> QED BY <1>1, <1>2, <2>1, <2>2, SMTT(30) DEF ApprovalsShown, TypeOK
<1> QED BY <1>3, <1>4, <1>5, <1>6, <1>7, <1>8

\* A task that ends without writing to the store.
LEMMA EndsSilently ==
  ASSUME Inductive, NEW r \in Runs, EndTask(r), UnchangedByTask,
         UNCHANGED <<storeVars, hitlVars, starts>>, task[r] \notin {"none", "waiting"}
  PROVE  Inductive'
<1> USE BoundsAssumption DEF Inductive, EndTask, UnchangedByTask, hitlVars, queueVars,
        boundVars, storeVars, Runs
<1>1. TypeOK'
  BY DEF TypeOK, Spent
<1>2. Fresh' /\ StartsOnce'
  <2>1. \A q \in Runs : /\ task'[q] = IF q = r THEN "done" ELSE task[q]
                        /\ cancel[q] = "none" => cancel'[q] = "none"
    BY DEF TypeOK, Spent
  <2>2. r <= posted
    BY DEF Fresh, TypeOK
  <2> QED BY <2>1, <2>2 DEF TypeOK, Fresh, StartsOnce
<1>3. HandleKept' /\ DecisionReachesAWaiter'
  BY DEF TypeOK, HandleKept, Live, LiveStates, DecisionReachesAWaiter, NoRun
<1>4. DirectRuns'
  BY DEF TypeOK, DirectRuns, Direct, AtWork
<1>5. ApprovalsShown'
  <2>1. Calm' => Calm
    BY DEF Calm, Direct, Live, LiveStates, TypeOK, Spent
  <2> QED BY <2>1 DEF ApprovalsShown, TypeOK
<1> QED BY <1>1, <1>2, <1>3, <1>4, <1>5

LEMMA EndUnstartedKeeps ==
  ASSUME Inductive, NEW r \in Runs, EndUnstarted(r) PROVE Inductive'
BY EndsSilently DEF EndUnstarted

LEMMA ReturnKeeps ==
  ASSUME Inductive, NEW r \in Runs, Return(r) PROVE Inductive'
BY EndsSilently DEF Return

\* A task that ends with an outcome in the store.
LEMMA EndsRecorded ==
  ASSUME Inductive, NEW r \in Runs, EndTask(r), NEW s \in Terminal, CompleteRun(r, s),
         UnchangedByTask, UNCHANGED <<hitlVars, starts>>, task[r] \notin {"none", "waiting"}
  PROVE  Inductive'
<1> USE BoundsAssumption DEF Inductive, Runs
<1>1. StatusIs(Written(status, r, s)) /\ PayloadIs(Written(payload, r, NoRun))
  BY StatusPut, PayloadPut, StatusesHave DEF CompleteRun
<1>2. /\ task' = [task EXCEPT ![r] = "done"]
      /\ cancel' = [cancel EXCEPT ![r] = Spent(r)]
      /\ UNCHANGED <<posted, activeTask, waiter, decided, approvals, job, worker, starts,
                     queueMode, restarts, deletes>>
  BY DEF EndTask, UnchangedByTask, queueVars, boundVars, hitlVars
<1>3. TypeOK'
  BY <1>1, <1>2 DEF TypeOK, StatusIs, PayloadIs, Spent
<1>4. Fresh' /\ StartsOnce'
  <2>1. \A q \in Runs :
          /\ status[q] = "absent" => status'[q] = "absent"
          /\ task'[q] = IF q = r THEN "done" ELSE task[q]
          /\ cancel'[q] = IF q = r THEN Spent(r) ELSE cancel[q]
    BY <1>1, <1>2 DEF TypeOK, StatusIs, Written
  <2>2. Fresh'
    <3>1. r <= posted
      BY DEF Fresh, EndTask, TypeOK
    <3> QED BY <1>2, <2>1, <3>1 DEF Fresh, TypeOK
  <2>3. StartsOnce'
    BY <1>2, <2>1 DEF StartsOnce
  <2> QED BY <2>2, <2>3
<1>5. HandleKept' /\ DecisionReachesAWaiter'
  BY <1>2 DEF TypeOK, HandleKept, Live, LiveStates, DecisionReachesAWaiter, NoRun
<1>6. DirectRuns'
  <2>1. \A q \in Runs : /\ status[q] # "absent" => status'[q] # "absent"
                        /\ q # r => status'[q] = status[q]
    BY <1>1 DEF StatusIs, Written, Terminal
  <2> QED BY <1>2, <2>1 DEF DirectRuns, Direct, TypeOK, AtWork
<1>7. ApprovalsShown'
  <2>1. Calm' => Calm
    BY <1>2 DEF Calm, Direct, Live, LiveStates, TypeOK, Spent
  <2>2. \A q \in Runs : status'[q] = "awaiting_approval" =>
          status[q] = "awaiting_approval" /\ payload'[q] = payload[q] /\ q # r
    BY <1>1 DEF StatusIs, PayloadIs, Written, Terminal
  <2> QED BY <1>2, <2>1, <2>2, SMTT(30) DEF ApprovalsShown, TypeOK
<1> QED BY <1>3, <1>4, <1>5, <1>6, <1>7

LEMMA FailKeeps ==
  ASSUME Inductive, NEW r \in Runs, Fail(r) PROVE Inductive'
<1>1. "failed" \in Terminal /\ task[r] \notin {"none", "waiting"}
  BY DEF Fail, Terminal
<1> QED BY <1>1, EndsRecorded DEF Fail, FailRun

LEMMA InterruptedKeeps ==
  ASSUME Inductive, NEW r \in Runs, Interrupted(r) PROVE Inductive'
<1>1. "interrupted" \in Terminal /\ task[r] \notin {"none", "waiting"}
  BY DEF Interrupted, Terminal
<1> QED BY <1>1, EndsRecorded DEF Interrupted, InterruptRun

LEMMA SwallowCancelKeeps ==
  ASSUME Inductive, NEW r \in Runs, SwallowCancel(r) PROVE Inductive'
<1> USE BoundsAssumption DEF Inductive, SwallowCancel, UnchangedByTask, hitlVars, queueVars,
        boundVars, storeVars, Runs, Cancelled
<1>1. TypeOK'
  BY DEF TypeOK
<1>2. Fresh' /\ StartsOnce'
  <2>1. \A q \in Runs : cancel[q] = "none" => cancel'[q] = "none"
    BY DEF TypeOK
  <2> QED BY <2>1 DEF Fresh, StartsOnce
<1>3. HandleKept' /\ DecisionReachesAWaiter'
  BY DEF TypeOK, HandleKept, Live, LiveStates, DecisionReachesAWaiter, NoRun
<1>4. DirectRuns'
  BY DEF DirectRuns, Direct
<1>5. ApprovalsShown'
  <2>1. Calm' => Calm
    BY DEF Calm, Direct, Live, LiveStates, TypeOK
  <2> QED BY <2>1 DEF ApprovalsShown
<1> QED BY <1>1, <1>2, <1>3, <1>4, <1>5

LEMMA ClaimNextKeeps == ASSUME Inductive, ClaimNext PROVE Inductive'
<1> USE BoundsAssumption DEF Inductive, Runs
<1>1. Claimable \subseteq 1 .. MaxRuns /\ Claimable # {} /\ queueMode
  BY DEF ClaimNext, Claimable, Pending
<1>2. PICK r \in Claimable : /\ worker = NoRun /\ worker' = r
                             /\ job' = [job EXCEPT ![r] = "running"]
                             /\ task' = [task EXCEPT ![r] = "ready"]
  <2> DEFINE r == CHOOSE r \in Claimable : \A q \in Claimable : r <= q
  <2>1. \E q \in Claimable : \A p \in Claimable : q <= p
    <3>1. Claimable \subseteq Nat
      BY <1>1
    <3> QED BY <1>1, <3>1, NatsHaveLeast, Zenon
  <2>2. r \in Claimable
    BY <2>1, Zenon
  <2>3. /\ worker = NoRun /\ worker' = r
        /\ job' = [job EXCEPT ![r] = "running"]
        /\ task' = [task EXCEPT ![r] = "ready"]
    BY Zenon DEF ClaimNext
  <2> HIDE DEF r
  <2> QED BY <2>2, <2>3
<1>3. r \in Runs /\ job[r] = "pending"
  BY DEF Claimable, Pending
<1>4. UNCHANGED <<posted, status, payload, cancel, activeTask, waiter, decided, approvals,
                  starts, queueMode, restarts, deletes>>
  BY DEF ClaimNext, storeVars, hitlVars, boundVars
<1>5. TypeOK'
  BY <1>2, <1>3, <1>4 DEF TypeOK, LiveStates
<1>6. Fresh' /\ StartsOnce'
  BY <1>2, <1>3, <1>4 DEF TypeOK, Fresh, StartsOnce
<1>7. HandleKept' /\ DecisionReachesAWaiter'
  BY <1>2, <1>3, <1>4 DEF TypeOK, HandleKept, StartsOnce, Live, DecisionReachesAWaiter, NoRun
<1>8. DirectRuns' /\ ApprovalsShown'
  BY <1>1, <1>4 DEF DirectRuns, ApprovalsShown, Calm, Direct
<1> QED BY <1>5, <1>6, <1>7, <1>8

LEMMA FinishJobKeeps == ASSUME Inductive, FinishJob PROVE Inductive'
<1> USE BoundsAssumption DEF Inductive, FinishJob, hitlVars, boundVars, storeVars, Runs
<1>1. TypeOK'
  BY DEF TypeOK
<1>2. Fresh' /\ StartsOnce'
  BY DEF TypeOK, Fresh, StartsOnce, NoRun
<1>3. HandleKept' /\ DecisionReachesAWaiter'
  BY DEF TypeOK, HandleKept, Live, LiveStates, DecisionReachesAWaiter, NoRun
<1>4. queueMode
  BY DEF DirectRuns
<1>5. DirectRuns' /\ ApprovalsShown'
  BY <1>4 DEF DirectRuns, ApprovalsShown, Calm, Direct
<1> QED BY <1>1, <1>2, <1>3, <1>5

LEMMA RestartKeeps == ASSUME Inductive, Restart PROVE Inductive'
<1> USE BoundsAssumption DEF Inductive, Restart, Runs
<1>1. TypeOK'
  BY DEF TypeOK, Statuses, Spent
<1>2. Fresh'
  BY DEF TypeOK, Fresh, Spent, RecoverableOnStartup
<1>3. StartsOnce'
  BY DEF TypeOK, StartsOnce
<1>4. HandleKept' /\ DecisionReachesAWaiter'
  BY DEF HandleKept, Live, LiveStates, DecisionReachesAWaiter
<1>5. DirectRuns'
  BY DEF TypeOK, DirectRuns, Direct, AtWork, NoRun
<1>6. ApprovalsShown'
  <2>1. Calm' => Calm
    BY DEF Calm, Direct, Live, LiveStates, TypeOK, Spent
  <2> QED BY <2>1 DEF ApprovalsShown, TypeOK
<1> QED BY <1>1, <1>2, <1>3, <1>4, <1>5, <1>6

LEMMA WaitForDecisionsKeeps ==
  ASSUME Inductive, NEW r \in Runs, WaitForDecisions(r) PROVE Inductive'
<1> USE BoundsAssumption DEF Inductive, Runs
<1>1. /\ StatusIs(Written(status, Latest, "awaiting_approval"))
      /\ PayloadIs(Written(payload, Latest, r))
  BY StatusPut, PayloadPut, StatusesHave DEF WaitForDecisions, SetHitl
<1>2. /\ task[r] = "working" /\ ~Cancelled(r)
      /\ task' = [task EXCEPT ![r] = "waiting"]
      /\ waiter' = r /\ decided' = decided \ {r}
      /\ approvals[r] < MaxApprovals /\ approvals' = [approvals EXCEPT ![r] = @ + 1]
      /\ UNCHANGED <<posted, cancel, activeTask, job, worker, starts,
                     queueMode, restarts, deletes>>
  BY DEF WaitForDecisions, UnchangedByTask, queueVars, boundVars
<1>3. TypeOK'
  <2>1. approvals' \in [Runs -> 0 .. MaxApprovals]
    BY <1>2, SMTT(30) DEF TypeOK
  <2>2. task' \in [Runs -> LiveStates \cup {"none", "done"}]
    BY <1>2 DEF TypeOK, LiveStates
  <2>3. status' \in [Runs -> Statuses] /\ payload' \in [Runs -> Runs \cup {NoRun}]
    BY <1>1 DEF StatusIs, PayloadIs
  <2> HIDE DEF Runs
  <2> QED BY <1>2, <2>1, <2>2, <2>3 DEF TypeOK
<1>4. Fresh' /\ StartsOnce'
  <2>1. \A q \in Runs : status[q] = "absent" => status'[q] = "absent"
    BY <1>1 DEF StatusIs, Written
  <2> QED BY <1>2, <2>1 DEF TypeOK, Fresh, StartsOnce
<1>5. HandleKept' /\ DecisionReachesAWaiter'
  BY <1>2 DEF TypeOK, HandleKept, Live, LiveStates, DecisionReachesAWaiter
<1>6. DirectRuns'
  <2>1. \A q \in Runs : /\ status[q] # "absent" => status'[q] # "absent"
                        /\ status'[q] \in Terminal => status[q] \in Terminal
    BY <1>1 DEF StatusIs, Written, Terminal
  <2> QED BY <1>2, <2>1 DEF DirectRuns, Direct, TypeOK, AtWork
<1>7. ApprovalsShown'
  <2>1. SUFFICES ASSUME Calm PROVE ApprovalsShown'
    BY <1>2 DEF ApprovalsShown, Calm, Direct, Live, LiveStates, TypeOK
  <2>2. Latest = posted
    BY <2>1, LatestIsPosted DEF Calm
  <2>3. activeTask = r
    <3>1. Live(r) /\ worker # r
      BY <1>2, <2>1 DEF Live, LiveStates, DirectRuns, Calm, Direct, NoRun
    <3>2. cancel[r] # "pending"
      BY <1>2 DEF Cancelled
    <3> QED BY <2>1, <3>1, <3>2 DEF HandleKept, Calm
  <2>4. r = posted
    BY <2>1, <2>3 DEF DirectRuns, Calm, NoRun
  <2>5. ASSUME NEW q \in Runs, status'[q] = "awaiting_approval"
        PROVE  /\ payload'[q] = q
               /\ restarts' > 0 \/ (waiter' = q /\ activeTask' = q /\ task'[q] = "waiting")
    <3>1. CASE q = r
      <4>1. status[r] # "absent"
        BY <2>1, <2>4 DEF DirectRuns, Calm
      <4> QED BY <1>1, <1>2, <2>2, <2>3, <2>4, <3>1, <4>1
              DEF PayloadIs, Written, TypeOK
    <3>2. CASE q # r
      <4>1. status[q] = "awaiting_approval" /\ payload'[q] = payload[q]
        BY <1>1, <2>2, <2>4, <2>5, <3>2 DEF StatusIs, PayloadIs, Written
      <4> QED BY <1>2, <2>1, <2>3, <3>2, <4>1 DEF ApprovalsShown
    <3> QED BY <3>1, <3>2
  <2> QED BY <2>5 DEF ApprovalsShown
<1> QED BY <1>3, <1>4, <1>5, <1>6, <1>7

LEMMA StopWaitingKeeps ==
  ASSUME Inductive, NEW r \in Runs, StopWaiting(r) PROVE Inductive'
<1> USE BoundsAssumption DEF Inductive, Runs
<1>1. /\ StatusIs([q \in Runs |-> IF q = Latest THEN ClearedStatus(status[q]) ELSE status[q]])
      /\ PayloadIs(Written(payload, Latest, NoRun))
      /\ Latest \in Runs => status[Latest] # "absent"
  BY ClearHitlWrites DEF StopWaiting
<1>2. /\ task[r] = "waiting" /\ waiter' = NoRun
      /\ task' = [task EXCEPT ![r] = IF Cancelled(r) THEN "unwinding" ELSE "working"]
      /\ UNCHANGED <<posted, cancel, activeTask, decided, approvals, job, worker, starts,
                     queueMode, restarts, deletes>>
  BY DEF StopWaiting, UnchangedByTask, queueVars, boundVars
<1>3. \A q \in Runs : /\ task'[q] = "ready" => task[q] = "ready"
                      /\ task'[q] \in AtWork => task[q] \in AtWork
                      /\ Live(q)' <=> Live(q)
                      /\ task[q] = "none" => task'[q] = "none"
  BY <1>2 DEF TypeOK, AtWork, Live, LiveStates
<1>4. \A q \in Runs : /\ (status'[q] = "absent") <=> (status[q] = "absent")
                      /\ status'[q] \in Terminal => status[q] \in Terminal
  BY <1>1 DEF StatusIs, ClearedStatus, Terminal
<1>5. TypeOK'
  BY <1>1, <1>2 DEF TypeOK, StatusIs, PayloadIs, LiveStates
<1>6. Fresh' /\ StartsOnce'
  BY <1>2, <1>3, <1>4 DEF Fresh, StartsOnce
<1>7. HandleKept' /\ DecisionReachesAWaiter'
  BY <1>2, <1>3 DEF HandleKept, DecisionReachesAWaiter
<1>8. DirectRuns'
  BY <1>2, <1>3, <1>4 DEF DirectRuns, Direct
<1>9. ApprovalsShown'
  <2>1. SUFFICES ASSUME Calm PROVE ApprovalsShown'
    BY <1>2, <1>3 DEF ApprovalsShown, Calm, Direct
  <2>2. Latest = posted
    BY <2>1, LatestIsPosted DEF Calm
  <2>3. \A q \in Runs : status'[q] = "awaiting_approval" =>
          q # posted /\ status[q] = "awaiting_approval" /\ payload'[q] = payload[q]
    BY <1>1, <2>2 DEF StatusIs, PayloadIs, Written, ClearedStatus, Terminal
  <2>4. \A q \in Runs : activeTask = q => q = posted
    BY <2>1 DEF DirectRuns, Calm, NoRun
  <2> QED BY <1>2, <2>1, <2>3, <2>4 DEF ApprovalsShown
<1> QED BY <1>5, <1>6, <1>7, <1>8, <1>9

LEMMA DeliverKeeps ==
  ASSUME Inductive, NEW r \in Runs, Deliver(r) PROVE Inductive'
<1> USE BoundsAssumption DEF Inductive, Runs
<1>1. PICK s \in Terminal : CompleteRun(r, s)
  BY DEF Deliver
<1>2. StatusIs(Written(status, r, s)) /\ PayloadIs(Written(payload, r, NoRun))
  BY <1>1, StatusPut, PayloadPut, StatusesHave DEF CompleteRun
<1>3. /\ task[r] = "working" /\ task' = [task EXCEPT ![r] = "delivered"]
      /\ UNCHANGED <<posted, cancel, activeTask, waiter, decided, approvals, job, worker,
                     starts, queueMode, restarts, deletes>>
  BY DEF Deliver, UnchangedByTask, queueVars, boundVars, hitlVars
<1>4. \A q \in Runs : /\ (status'[q] = "absent") <=> (status[q] = "absent")
                      /\ q # r => status'[q] = status[q]
                      /\ status'[q] = "awaiting_approval" =>
                           status[q] = "awaiting_approval" /\ payload'[q] = payload[q] /\ q # r
  BY <1>2 DEF StatusIs, PayloadIs, Written, Terminal
<1>5. \A q \in Runs : /\ task'[q] = "ready" => task[q] = "ready"
                      /\ task'[q] \in AtWork => task[q] \in AtWork /\ q # r
                      /\ Live(q)' <=> Live(q)
                      /\ task[q] \in {"none", "waiting"} => task'[q] = task[q]
  BY <1>3 DEF TypeOK, AtWork, Live, LiveStates
<1>6. TypeOK'
  BY <1>2, <1>3 DEF TypeOK, StatusIs, PayloadIs, LiveStates
<1>7. Fresh' /\ StartsOnce'
  BY <1>3, <1>4, <1>5 DEF Fresh, StartsOnce
<1>8. HandleKept' /\ DecisionReachesAWaiter'
  BY <1>3, <1>5 DEF HandleKept, DecisionReachesAWaiter, TypeOK, NoRun
<1>9. DirectRuns'
  BY <1>3, <1>4, <1>5 DEF DirectRuns, Direct
<1>10. ApprovalsShown'
  <2>1. Calm' => Calm
    BY <1>3, <1>5 DEF Calm, Direct
  <2> QED BY <1>3, <1>4, <1>5, <2>1 DEF ApprovalsShown
<1> QED BY <1>6, <1>7, <1>8, <1>9, <1>10
-----------------------------------------------------------------------------
LEMMA StepKeeps == Inductive /\ [Next]_vars => Inductive'
<1> SUFFICES ASSUME Inductive, [Next]_vars PROVE Inductive'
  OBVIOUS
<1>1. CASE UNCHANGED vars
  BY <1>1 DEF vars, storeVars, hitlVars, queueVars, boundVars, Inductive, TypeOK, Fresh,
     StartsOnce, HandleKept, DecisionReachesAWaiter, DirectRuns, ApprovalsShown, Calm,
     Direct, Live
<1>2. CASE EnqueueRun \/ StartRun
  BY <1>2, EnqueueRunKeeps, StartRunKeeps
<1>3. CASE CancelLiveTask \/ CancelWithoutTask \/ SubmitDecisions
  BY <1>3, CancelLiveTaskKeeps, CancelWithoutTaskKeeps, SubmitDecisionsKeeps
<1>4. CASE DeleteRun \/ DeleteSession
  BY <1>4, DeleteRowsKeeps DEF DeleteRun, DeleteSession
<1>5. ASSUME NEW r \in Runs, TaskStep(r) PROVE Inductive'
  BY <1>5, BeginRunKeeps, EndUnstartedKeeps, StopWaitingKeeps, DeliverKeeps, ReturnKeeps,
     FailKeeps, InterruptedKeeps DEF TaskStep
<1>6. ASSUME NEW r \in Runs,
             ForgetTask(r) \/ WaitForDecisions(r) \/ SwallowCancel(r) \/ CancelAgain(r)
      PROVE  Inductive'
  BY <1>6, ForgetTaskKeeps, WaitForDecisionsKeeps, SwallowCancelKeeps, CancelAgainKeeps
<1>7. CASE ClaimNext \/ FinishJob \/ Restart
  BY <1>7, ClaimNextKeeps, FinishJobKeeps, RestartKeeps
<1> QED BY <1>1, <1>2, <1>3, <1>4, <1>5, <1>6, <1>7 DEF Next

LEMMA LifecycleInvariant == Spec => []Inductive
<1>1. Init => Inductive
  BY InitHolds
<1>2. Inductive /\ [Next]_vars => Inductive'
  BY StepKeeps
<1> QED BY <1>1, <1>2, PTL DEF Spec
-----------------------------------------------------------------------------
\* However runs replace one another, are cancelled, deleted or forgotten late,
\* a task of the session that nobody asked to stop is the one whose handle the
\* registry holds (run_task, cancel_task, _forget_task in app/api/server.py).
THEOREM TasksCanBeStopped == Spec => []EveryTaskCanBeStopped
<1>1. Inductive => EveryTaskCanBeStopped
  BY DEF Inductive, HandleKept, EveryTaskCanBeStopped
<1> QED BY <1>1, LifecycleInvariant, PTL

\* A future the coordinator holds has its task waiting for it, and an approval
\* in the store belongs to the run it is stored on, which waits for it unless
\* the backend has restarted (HitlCoordinator.wait_for_decisions,
\* submit_decisions, _persist_hitl, _clear_hitl).
THEOREM ApprovalsReachTheirRun == Spec => []ApprovalsHaveWaiters
<1>1. Undisturbed => Calm
  BY DEF Undisturbed, Calm, Direct
<1>2. Inductive => ApprovalsHaveWaiters
  BY <1>1 DEF Inductive, ApprovalsShown, ApprovalIsCurrent, ApprovalsHaveWaiters
<1> QED BY <1>2, LifecycleInvariant, PTL

\* The run whose task writes to the store by the run's id, or to the latest run
\* in its place, is the run of the registry, and it has not ended.
LEMMA WriterIsLatest ==
  ASSUME Inductive, Undisturbed, NEW r \in Runs, task[r] \in AtWork, ~Cancelled(r)
  PROVE  r = Latest /\ status[r] \notin Terminal
<1> USE DEF Inductive
<1>1. Direct /\ cancel[r] # "swallowed" /\ cancel[r] # "pending"
  BY DEF Undisturbed, Direct, Cancelled
<1>2. Live(r) /\ worker # r
  BY <1>1, BoundsAssumption DEF Live, LiveStates, AtWork, DirectRuns, Direct, Runs, NoRun
<1>3. activeTask = r
  BY <1>1, <1>2 DEF HandleKept
<1>4. r = posted
  BY <1>1, <1>3, BoundsAssumption DEF DirectRuns, Runs, NoRun
<1> QED BY <1>1, <1>3, <1>4, LatestIsPosted DEF DirectRuns

LEMMA EndedStaysEnded ==
  ASSUME Inductive, Undisturbed, Next, NEW r \in Runs, status[r] \in Terminal
  PROVE  status'[r] \notin {"queued", "running", "awaiting_approval"}
<1> DEFINE Goal == status'[r] \notin {"queued", "running", "awaiting_approval"}
<1>1. TypeOK /\ ~queueMode /\ status[r] \in Statuses
  BY DEF Undisturbed, Inductive, TypeOK
<1>2. status' = status => Goal
  BY DEF Terminal
<1>3. CASE EnqueueRun \/ StartRun
  <2>1. StartRun
    BY <1>1, <1>3 DEF EnqueueRun
  <2>2. r # posted + 1
    BY <2>1 DEF Inductive, TypeOK, Fresh, Terminal
  <2>3. PICK q \in Runs \cup {NoRun} :
          status' = [Put(status, q, "interrupted") EXCEPT ![posted'] = "queued"]
    BY <2>1, LatestIsPresent, <1>1, Zenon DEF StartRun, Present
  <2>4. posted' = posted + 1
    BY <2>1 DEF StartRun
  <2> QED BY <1>1, <2>2, <2>3, <2>4 DEF Put, TypeOK, Terminal
<1>4. CASE CancelLiveTask \/ CancelWithoutTask
  BY <1>1, <1>4 DEF CancelLiveTask, CancelWithoutTask, InterruptRun, CompleteRun, Put, TypeOK,
     Terminal, storeVars
<1>5. ASSUME ClearHitl PROVE Goal
  BY <1>1, <1>5, ClearHitlWrites DEF StatusIs, ClearedStatus, Terminal
<1>6. CASE DeleteRun \/ DeleteSession
  BY <1>1, <1>6 DEF DeleteRun, DeleteSession, DeleteRows, Terminal
<1>7. ASSUME NEW q \in Runs, BeginRun(q) PROVE Goal
  <2>1. q # r
    BY <1>7, WriterIsLatest DEF BeginRun, AtWork, Cancelled
  <2> QED BY <1>1, <1>7, <2>1 DEF BeginRun, MarkRunning, Put, TypeOK, Terminal
<1>8. ASSUME NEW q \in Runs, WaitForDecisions(q) PROVE Goal
  <2>1. Latest # r
    BY <1>8, WriterIsLatest DEF WaitForDecisions, AtWork
  <2> QED BY <1>1, <1>8, <2>1 DEF WaitForDecisions, SetHitl, Put, TypeOK, Terminal
<1>9. ASSUME NEW q \in Runs, NEW s \in Terminal, CompleteRun(q, s) PROVE Goal
  BY <1>1, <1>9 DEF CompleteRun, Put, TypeOK, Terminal
<1>10. ASSUME NEW q \in Runs, TaskStep(q) PROVE Goal
  <2>1. "failed" \in Terminal /\ "interrupted" \in Terminal
    BY DEF Terminal
  <2> QED BY <1>2, <1>5, <1>7, <1>9, <1>10, <2>1
          DEF TaskStep, EndUnstarted, StopWaiting, Deliver, Return, Fail, FailRun,
              Interrupted, InterruptRun, storeVars
<1>11. ASSUME NEW q \in Runs, ForgetTask(q) \/ SwallowCancel(q) \/ CancelAgain(q)
       PROVE  Goal
  BY <1>2, <1>11 DEF ForgetTask, SwallowCancel, CancelAgain, storeVars
<1>12. CASE ClaimNext \/ FinishJob \/ Restart
  BY <1>1, <1>2, <1>12 DEF ClaimNext, FinishJob, Restart, storeVars, RecoverableOnStartup,
     Terminal
<1>13. CASE SubmitDecisions
  BY <1>5, <1>13 DEF SubmitDecisions
<1> HIDE DEF Goal
<1> QED BY <1>3, <1>4, <1>6, <1>8, <1>10, <1>11, <1>12, <1>13 DEF Next, Goal

\* No run is executed a second time, whether the API, the queue worker or both
\* take it up and wherever a restart falls; and while the latest run is the one
\* executed, a run recorded as ended is not set queued, running or waiting
\* again by a task that is slow to stop (claim_next, mark_running, set_hitl,
\* clear_hitl).
THEOREM EndedRunsStayEnded == Spec => RunsGoForward
<1>1. Inductive /\ Inductive' /\ [Next]_vars =>
        [\A r \in Runs :
           /\ starts'[r] <= 1
           /\ Undisturbed /\ status[r] \in Terminal
                => status'[r] \notin {"queued", "running", "awaiting_approval"}]_vars
  <2>1. Inductive' => \A r \in Runs : starts'[r] <= 1
    BY DEF Inductive, StartsOnce
  <2> QED BY <2>1, EndedStaysEnded
<1> QED BY <1>1, LifecycleInvariant, PTL DEF Spec, RunsGoForward
=============================================================================
