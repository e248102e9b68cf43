------------------------- MODULE ResearchGraphProofs -------------------------
(***************************************************************************)
(* The safety properties of ResearchGraph, for every set of gaps and every *)
(* limit on repair waves.  None of them is inductive: Inductive adds where *)
(* the run is in its phase table, what the returned updates look like and  *)
(* what is known of the tasks of every wave.                               *)
(***************************************************************************)
EXTENDS ResearchGraph, TLAPS

\* The phase in which each node is entered.
PhaseFits ==
  /\ node # "raised"
  /\ node = "brief" => phase = "bootstrap"
  /\ node = "researcher" => phase \in {"brief", "supervisor"}
  /\ node = "ingest_findings" => phase = "execute"
  /\ node = "coverage_judge" => phase = "ingest_findings"
  /\ node = "supervisor" => phase \in {"brief", "coverage_judge"}
  /\ node = "synthesize" => phase \in {"supervisor", "coverage_judge", "quality"}
  /\ node = "quality_gate" => phase = "synthesis"

\* Every round of judgement belongs to a wave of its own.
WavesCounted ==
  /\ wave <= 1 + repairs /\ lowValue <= wave
  /\ node = "brief" => lowValue = 0
  /\ node # "brief" => wave >= 1
  /\ node \in {"researcher", "ingest_findings", "coverage_judge"} => lowValue < wave

Researching == {"brief", "researcher", "ingest_findings", "coverage_judge", "supervisor"}
AttemptsCounted ==
  /\ attempts <= 3
  /\ node \in Researching => attempts = 0
  /\ node = "synthesize" => attempts < 3

\* An update holds the settled entry of the worker's own task, or none at all
\* and the cancellation.
SettledBy(status, ev) == status \in Settled /\ (status = "succeeded" => ev)
UpdatesFit ==
  \A t \in DOMAIN updates :
    /\ updates[t].evidence \in BOOLEAN /\ updates[t].cancelled \in BOOLEAN
    /\ \/ DOMAIN updates[t].tasks = {t} /\ SettledBy(updates[t].tasks[t], updates[t].evidence)
       \/ DOMAIN updates[t].tasks = {} /\ updates[t].cancelled

\* Workers are sent pending tasks of valid plans only.
Sent ==
  node = "researcher" =>
    \A t \in sends \cup DOMAIN updates : tasks[t] = "pending" /\ t \notin Unsent

\* What is pending has not returned yet, or has a reason to stay so.
PendingExplained ==
  \A t \in Tasks : tasks[t] = "pending" =>
    \/ t \in Unsent \/ cancelled
    \/ node = "researcher" /\ t \in sends \cup DOMAIN updates

\* A task of a repair wave has its fingerprint recorded.
RepairsRecorded ==
  /\ node = "brief" => plan = {} /\ \A t \in Tasks : tasks[t] = "absent"
  /\ \A t \in plan : tasks[t] # "absent"
  /\ \A t \in Tasks : tasks[t] # "absent" /\ t[1] > 1 => t[2] \in fingerprints

ContractEarned ==
  /\ outcome # "none" => node = "end"
  /\ quality.contract = "success" => evidence /\ quality.of = attempts

Inductive ==
  /\ TypeOK /\ PhaseFits /\ WavesCounted /\ AttemptsCounted /\ UpdatesFit
  /\ Sent /\ PendingExplained /\ RepairsRecorded /\ NoRepairTwice
  /\ ContractEarned /\ OutcomeIsEarned
-----------------------------------------------------------------------------
\* What a node does to the phase and to the route when its phase may follow.
LEMMA EnterAllowed ==
  ASSUME NEW target, NEW next, Enter(target, next), target \in Allowed[phase]
  PROVE  phase' = target /\ node' = next
BY DEF Enter

LEMMA AllowedTable ==
  /\ "brief" \in Allowed["bootstrap"]
  /\ "supervisor" \in Allowed["brief"]
  /\ "supervisor" \in Allowed["coverage_judge"]
  /\ "ingest_findings" \in Allowed["execute"]
  /\ "coverage_judge" \in Allowed["ingest_findings"]
  /\ "synthesis" \in Allowed["supervisor"]
  /\ "synthesis" \in Allowed["coverage_judge"]
  /\ "synthesis" \in Allowed["quality"]
  /\ "quality" \in Allowed["synthesis"]
BY DEF Allowed

\* Initially nothing has been planned, judged or written.
LEMMA InitInductive == ASSUME Init PROVE Inductive
<1>1. /\ mode \in Modes /\ planIssues \in BOOLEAN /\ gated \in BOOLEAN
      /\ node = "brief" /\ phase = "bootstrap"
      /\ tasks = [t \in Tasks |-> "absent"] /\ plan = {} /\ sends = {}
      /\ updates = [t \in {} |-> NoUpdate]
  BY DEF Init
<1>2. /\ wave = 0 /\ fingerprints = {} /\ evidence = FALSE /\ judgement = "none"
      /\ lowValue = 0 /\ action = "none" /\ decision = "none" /\ cancelled = FALSE
      /\ attempts = 0 /\ complete = FALSE /\ quality = NoQuality /\ outcome = "none"
  BY DEF Init
<1>3. repairs \in 0 .. MaxRepairs
  BY DEF Init
<1>4. TypeOK
  <2>1. /\ node \in Nodes /\ phase \in Phases /\ tasks \in [Tasks -> Statuses]
        /\ decision \in Decisions
    BY <1>1, <1>2 DEF Nodes, Phases, Statuses, Decisions
  <2>2. /\ plan \subseteq Tasks /\ sends \subseteq plan
        /\ DOMAIN updates \subseteq plan \ sends
    BY <1>1
  <2>3. /\ quality \in [verdict : {"none", "pass", "repairable", "partial", "fail", "failed"},
                        contract : {"success", "partial", "failed"}, of : 0 .. 4]
    BY <1>2 DEF NoQuality
  <2>4. wave \in 0 .. MaxRepairs + 2 /\ lowValue \in 0 .. MaxRepairs + 2 /\ attempts \in 0 .. 4
    BY <1>2, RepairsAssumption
  <2> QED BY <1>1, <1>2, <1>3, <2>1, <2>2, <2>3, <2>4 DEF TypeOK
<1>5. PhaseFits /\ WavesCounted /\ AttemptsCounted /\ UpdatesFit
  BY <1>1, <1>2, <1>3, RepairsAssumption
  DEF PhaseFits, WavesCounted, AttemptsCounted, Researching, UpdatesFit
<1>6. Sent /\ PendingExplained /\ RepairsRecorded /\ NoRepairTwice
  BY <1>1 DEF Sent, PendingExplained, RepairsRecorded, NoRepairTwice
<1>7. ContractEarned /\ OutcomeIsEarned
  BY <1>2 DEF ContractEarned, OutcomeIsEarned, NoQuality
<1> QED BY <1>4, <1>5, <1>6, <1>7 DEF Inductive

\* The first wave: its tasks carry the number 1, which no fingerprint needs.
LEMMA BriefKeeps == ASSUME Inductive, Brief PROVE Inductive'
<1> USE DEF Inductive
<1>1. PICK questions \in (SUBSET Gaps) \ {{}} :
        LET ts == {1} \X questions
        IN /\ Initialize(ts)
           /\ plan' = ts
           /\ IF planIssues THEN UNCHANGED workVars
              ELSE sends' = ts /\ updates' = [t \in {} |-> NoUpdate]
  BY DEF Brief, Dispatch
<1> DEFINE ts == {1} \X questions
<1>2. ts \subseteq Tasks
  BY RepairsAssumption DEF Tasks
<1>3. /\ tasks' = [t \in Tasks |-> IF t \in ts THEN "pending" ELSE tasks[t]]
      /\ plan' = ts
  BY <1>1 DEF Initialize
<1>4. phase' = "brief" /\ node' = IF planIssues THEN "supervisor" ELSE "researcher"
  <2>1. Enter("brief", IF planIssues THEN "supervisor" ELSE "researcher") /\ phase = "bootstrap"
    BY DEF Brief, PhaseFits
  <2> QED BY <2>1, EnterAllowed, AllowedTable
<1>5. /\ wave' = 1 /\ node = "brief"
      /\ UNCHANGED <<mode, repairs, planIssues, gated, fingerprints, evidence, judgement,
                     lowValue, action, decision, cancelled, attempts, complete, quality, outcome>>
  BY DEF Brief, config, judgeVars, answerVars
<1>6. sends' \subseteq plan' /\ DOMAIN updates' \subseteq plan' \ sends'
  <2>1. CASE planIssues
    <3>1. sends' = {} /\ DOMAIN updates' = {}
      BY <2>1, <1>1, <1>5 DEF workVars, RepairsRecorded, TypeOK
    <3> QED BY <3>1
  <2>2. CASE ~planIssues
    BY <2>2, <1>1, <1>3
  <2> QED BY <2>1, <2>2
<1>7. TypeOK'
  <2>1. tasks' \in [Tasks -> Statuses] /\ plan' \subseteq Tasks
    BY <1>2, <1>3 DEF TypeOK, Statuses
  <2>2. phase' \in Phases /\ node' \in Nodes /\ wave' \in 0 .. MaxRepairs + 2
    BY <1>4, <1>5, RepairsAssumption DEF Phases, Nodes
  <2> QED BY <1>5, <1>6, <2>1, <2>2 DEF TypeOK
<1>8. PhaseFits' /\ AttemptsCounted'
  BY <1>4, <1>5 DEF PhaseFits, AttemptsCounted, Researching
<1>9. WavesCounted'
  BY <1>5 DEF WavesCounted, TypeOK
<1>10. UpdatesFit'
  <2>1. updates' = updates \/ updates' = [t \in {} |-> NoUpdate]
    BY <1>1 DEF workVars
  <2> QED BY <2>1 DEF UpdatesFit
<1>11. Sent' /\ PendingExplained'
  BY <1>1, <1>2, <1>3, <1>4, <1>5 DEF Sent, PendingExplained, RepairsRecorded, Unsent
<1>12. RepairsRecorded' /\ NoRepairTwice'
  <2>1. \A t \in Tasks : tasks'[t] # "absent" => t \in ts
    BY <1>3, <1>5 DEF RepairsRecorded
  <2>2. \A t \in ts : t[1] = 1
    OBVIOUS
  <2>3. \A t \in plan' : tasks'[t] # "absent"
    BY <1>2, <1>3
  <2>4. node' # "brief"
    BY <1>4
  <2> QED BY <2>1, <2>2, <2>3, <2>4 DEF RepairsRecorded, NoRepairTwice
<1>13. ContractEarned' /\ OutcomeIsEarned'
  BY <1>4, <1>5 DEF ContractEarned, OutcomeIsEarned
<1> QED BY <1>7, <1>8, <1>9, <1>10, <1>11, <1>12, <1>13

\* A worker that returns moves its task from sends to updates.
LEMMA ReturnKeeps ==
  ASSUME Inductive, node = "researcher", NEW t \in sends, NEW update, Return(t, update),
         update.evidence \in BOOLEAN, update.cancelled \in BOOLEAN,
         \/ DOMAIN update.tasks = {t} /\ SettledBy(update.tasks[t], update.evidence)
         \/ DOMAIN update.tasks = {} /\ update.cancelled
  PROVE  Inductive'
<1> USE DEF Inductive
<1>1. /\ sends' = sends \ {t} /\ DOMAIN updates' = DOMAIN updates \cup {t}
      /\ \A u \in DOMAIN updates' : updates'[u] = IF u = t THEN update ELSE updates[u]
  BY DEF Return
<1>2. UNCHANGED <<mode, repairs, planIssues, gated, node, phase, tasks, plan, wave,
                  fingerprints, evidence, judgement, lowValue, action, decision,
                  cancelled, attempts, complete, quality, outcome>>
  BY DEF Return, config, waveVars, judgeVars, answerVars
<1>3. TypeOK'
  <2>1. sends' \subseteq plan' /\ DOMAIN updates' \subseteq plan' \ sends'
    BY <1>1, <1>2 DEF TypeOK
  <2> QED BY <1>2, <2>1 DEF TypeOK
<1>4. PhaseFits' /\ WavesCounted' /\ AttemptsCounted'
  BY <1>2 DEF PhaseFits, WavesCounted, AttemptsCounted
<1>5. UpdatesFit'
  BY <1>1 DEF UpdatesFit
<1>6. Sent' /\ PendingExplained'
  BY <1>1, <1>2 DEF Sent, PendingExplained, Unsent
<1>7. RepairsRecorded' /\ NoRepairTwice'
  BY <1>2 DEF RepairsRecorded, NoRepairTwice
<1>8. ContractEarned' /\ OutcomeIsEarned'
  BY <1>2 DEF ContractEarned, OutcomeIsEarned
<1> QED BY <1>3, <1>4, <1>5, <1>6, <1>7, <1>8

\* Both ways in which a worker returns.
LEMMA WorkersKeep ==
  ASSUME Inductive, NEW t \in Tasks, Worker(t) \/ GateTimesOut(t)
  PROVE  Inductive'
<1>1. CASE Worker(t)
  <2>1. PICK ev \in BOOLEAN : \E s \in WorkerStatuses(ev) :
          Return(t, [tasks |-> OwnTask(t, s), evidence |-> ev, cancelled |-> FALSE])
    BY <1>1 DEF Worker
  <2>2. PICK s \in WorkerStatuses(ev) :
          Return(t, [tasks |-> OwnTask(t, s), evidence |-> ev, cancelled |-> FALSE])
    BY <2>1
  <2> DEFINE update == [tasks |-> OwnTask(t, s), evidence |-> ev, cancelled |-> FALSE]
  <2>3. Return(t, update)
    BY <2>2
  <2>4. SettledBy(s, ev)
    BY DEF WorkerStatuses, Settled, SettledBy
  <2>5. DOMAIN update.tasks = {t} /\ SettledBy(update.tasks[t], update.evidence)
    BY <2>4 DEF OwnTask
  <2>6. update.evidence \in BOOLEAN /\ update.cancelled \in BOOLEAN
    OBVIOUS
  <2>7. node = "researcher" /\ t \in sends
    BY <1>1 DEF Worker
  <2> HIDE DEF update
  <2> QED BY <2>3, <2>5, <2>6, <2>7, ReturnKeeps
<1>2. CASE GateTimesOut(t)
  <2> DEFINE update == [NoUpdate EXCEPT !.cancelled = TRUE]
  <2>1. Return(t, update) /\ node = "researcher" /\ t \in sends
    BY <1>2 DEF GateTimesOut
  <2>2. /\ DOMAIN update.tasks = {} /\ update.cancelled
        /\ update.evidence \in BOOLEAN /\ update.cancelled \in BOOLEAN
    BY DEF NoUpdate
  <2> HIDE DEF update
  <2> QED BY <2>1, <2>2, ReturnKeeps
<1> QED BY <1>1, <1>2

\* Every update writes one task at most, so the merge loses none of them.
LEMMA MergedByTask ==
  ASSUME Inductive, FanIn
  PROVE  \A t \in Tasks :
           \/ t \notin DOMAIN updates /\ tasks'[t] = tasks[t]
           \/ /\ t \in DOMAIN updates
              /\ \/ SettledBy(tasks'[t], updates[t].evidence)
                 \/ tasks'[t] = tasks[t] /\ updates[t].cancelled
<1> USE DEF Inductive
<1> DEFINE writers(t) == {u \in DOMAIN updates : t \in DOMAIN updates[u].tasks}
           last(us) == CHOOSE u \in us : \A v \in us : v[2] <= u[2]
<1>1. tasks' = [t \in Tasks |-> IF writers(t) = {} THEN tasks[t]
                                ELSE updates[last(writers(t))].tasks[t]]
  BY DEF FanIn
<1>2. \A u \in DOMAIN updates : u \in Tasks /\ u[2] \in Nat
  BY GapsAssumption DEF TypeOK, Tasks
<1>3. \A t \in Tasks : writers(t) = {} \/ writers(t) = {t}
  BY DEF UpdatesFit
<1>4. ASSUME NEW t \in Tasks, writers(t) = {t} PROVE last(writers(t)) = t
  <2>1. t \in DOMAIN updates
    BY <1>4
  <2>2. \A v \in {t} : v[2] <= t[2]
    BY <1>2, <2>1
  <2> QED BY <1>4, <2>2
<1> HIDE DEF writers, last
<1>5. \A t \in Tasks : \/ writers(t) = {} /\ tasks'[t] = tasks[t]
                       \/ writers(t) = {t} /\ tasks'[t] = updates[t].tasks[t]
  BY <1>1, <1>3, <1>4
<1> QED BY <1>5 DEF writers, UpdatesFit

LEMMA FanInKeeps == ASSUME Inductive, FanIn PROVE Inductive'
<1> USE DEF Inductive
<1>1. /\ node = "researcher" /\ sends = {} /\ phase' = "execute"
      /\ node' = "ingest_findings" /\ updates' = [t \in {} |-> NoUpdate]
      /\ evidence' = (evidence \/ \E u \in DOMAIN updates : updates[u].evidence)
      /\ cancelled' = (cancelled \/ \E u \in DOMAIN updates : updates[u].cancelled)
      /\ UNCHANGED <<mode, repairs, planIssues, gated, plan, wave, fingerprints, sends,
                     judgement, lowValue, action, decision, attempts, complete, quality, outcome>>
  BY DEF FanIn, AfterResearcher, config, judgeVars, answerVars
<1>2. DOMAIN tasks' = Tasks /\ tasks' = [t \in Tasks |-> tasks'[t]]
  BY DEF FanIn
<1>7. \A t \in Tasks : \/ t \notin DOMAIN updates /\ tasks'[t] = tasks[t]
                       \/ /\ t \in DOMAIN updates
                          /\ \/ tasks'[t] \in Settled
                             \/ tasks'[t] = tasks[t] /\ updates[t].cancelled
  BY MergedByTask DEF SettledBy
<1>8. TypeOK'
  <2>1. tasks' \in [Tasks -> Statuses]
    BY <1>2, <1>7 DEF TypeOK, Settled, Statuses
  <2>2. evidence' \in BOOLEAN /\ cancelled' \in BOOLEAN
    BY <1>1
  <2>3. phase' \in Phases /\ node' \in Nodes /\ DOMAIN updates' = {}
    BY <1>1 DEF Phases, Nodes
  <2> QED BY <1>1, <2>1, <2>2, <2>3 DEF TypeOK
<1>9. PhaseFits' /\ WavesCounted' /\ AttemptsCounted' /\ UpdatesFit'
  BY <1>1 DEF PhaseFits, WavesCounted, AttemptsCounted, Researching, UpdatesFit
<1>10. Sent' /\ PendingExplained'
  BY <1>1, <1>7 DEF Sent, PendingExplained, Settled, Unsent
<1>11. \A t \in Tasks : tasks'[t] # "absent" <=> tasks[t] # "absent"
  BY <1>7 DEF RepairsRecorded, TypeOK, Settled
<1>12. RepairsRecorded' /\ NoRepairTwice'
  BY <1>1, <1>11 DEF RepairsRecorded, NoRepairTwice, TypeOK
<1>13. ContractEarned' /\ OutcomeIsEarned'
  BY <1>1 DEF ContractEarned, OutcomeIsEarned
<1> QED BY <1>8, <1>9, <1>10, <1>12, <1>13

\* The nodes that leave the tasks, the plan and the updates alone.
TasksKept == UNCHANGED <<config, waveVars, workVars, evidence, cancelled>>
LEMMA TasksKeptKeeps ==
  ASSUME Inductive, TasksKept, node \notin {"brief", "researcher"},
         node' \notin {"brief", "researcher"}
  PROVE  UpdatesFit' /\ Sent' /\ PendingExplained' /\ RepairsRecorded' /\ NoRepairTwice'
<1>1. UNCHANGED <<tasks, plan, fingerprints, updates, planIssues, cancelled>>
  BY DEF TasksKept, config, waveVars, workVars
<1>2. UpdatesFit'
  BY <1>1 DEF Inductive, UpdatesFit
<1>3. Sent' /\ PendingExplained'
  BY <1>1 DEF Inductive, Sent, PendingExplained, Unsent
<1>4. RepairsRecorded' /\ NoRepairTwice'
  BY <1>1 DEF Inductive, RepairsRecorded, NoRepairTwice
<1> QED BY <1>2, <1>3, <1>4

LEMMA IngestFindingsKeeps == ASSUME Inductive, IngestFindings PROVE Inductive'
<1> USE DEF Inductive
<1>1. node = "ingest_findings" /\ phase' = "ingest_findings" /\ node' = "coverage_judge"
  <2>1. Enter("ingest_findings", "coverage_judge") /\ phase = "execute"
    BY DEF IngestFindings, PhaseFits
  <2> QED BY <2>1, EnterAllowed, AllowedTable DEF IngestFindings
<1>2. /\ UNCHANGED <<mode, repairs, planIssues, gated, tasks, plan, wave, fingerprints,
                     sends, updates, evidence, judgement, lowValue, action, decision,
                     cancelled, attempts, complete, quality, outcome>>
      /\ TasksKept
  BY DEF IngestFindings, TasksKept, config, waveVars, workVars, judgeVars, answerVars
<1>3. TypeOK'
  BY <1>1, <1>2 DEF TypeOK, Nodes, Phases
<1>4. PhaseFits' /\ WavesCounted' /\ AttemptsCounted' /\ ContractEarned' /\ OutcomeIsEarned'
  BY <1>1, <1>2
  DEF PhaseFits, WavesCounted, AttemptsCounted, Researching, ContractEarned, OutcomeIsEarned
<1> QED BY <1>1, <1>2, <1>3, <1>4, TasksKeptKeeps

\* A round without value is counted once for its wave.
LEMMA CoverageJudgeKeeps == ASSUME Inductive, CoverageJudge PROVE Inductive'
<1> USE DEF Inductive
<1>1. /\ node = "coverage_judge"
      /\ judgement' \in {"none", "gap", "sufficient"}
      /\ lowValue' \in {lowValue, 0, lowValue + 1}
      /\ decision' \in {"deliver_partial", "none"}
      /\ Enter("coverage_judge", "synthesize") \/ Enter("coverage_judge", "supervisor")
  BY DEF CoverageJudge
<1>2. phase' = "coverage_judge" /\ node' \in {"synthesize", "supervisor"}
  <2>1. "coverage_judge" \in Allowed[phase]
    BY <1>1, AllowedTable DEF PhaseFits
  <2> QED BY <1>1, <2>1, EnterAllowed
<1>3. /\ UNCHANGED <<mode, repairs, planIssues, gated, tasks, plan, wave, fingerprints,
                     sends, updates, evidence, action, cancelled, attempts, complete,
                     quality, outcome>>
      /\ TasksKept
  BY DEF CoverageJudge, TasksKept, config, waveVars, workVars, answerVars
<1>4. lowValue' \in Nat /\ lowValue' <= wave
  BY <1>1, RepairsAssumption DEF WavesCounted, TypeOK
<1>5. TypeOK'
  <2>1. lowValue' \in 0 .. MaxRepairs + 2
    BY <1>4, RepairsAssumption DEF TypeOK
  <2>2. decision' \in Decisions /\ phase' \in Phases /\ node' \in Nodes
    BY <1>1, <1>2 DEF Decisions, Phases, Nodes
  <2> QED BY <1>1, <1>3, <2>1, <2>2 DEF TypeOK
<1>6. PhaseFits' /\ WavesCounted' /\ AttemptsCounted'
  BY <1>1, <1>2, <1>3, <1>4 DEF PhaseFits, WavesCounted, AttemptsCounted, Researching
<1>7. ContractEarned' /\ OutcomeIsEarned'
  BY <1>1, <1>3 DEF ContractEarned, OutcomeIsEarned
<1> QED BY <1>1, <1>2, <1>3, <1>5, <1>6, <1>7, TasksKeptKeeps

\* A repair wave: fresh requests under a new number, while one is left.
LEMMA SupervisorDispatchesKeeps == ASSUME Inductive, SupervisorDispatches PROVE Inductive'
<1> USE DEF Inductive
<1>1. PICK approved \in SUBSET (Gaps \ fingerprints) :
        /\ Dispatch({wave + 1} \X approved) /\ Initialize({wave + 1} \X approved)
        /\ fingerprints' = fingerprints \cup approved
  BY DEF SupervisorDispatches, Replan, Fresh
<1> DEFINE ts == {wave + 1} \X approved
<1>2. /\ node = "supervisor" /\ wave < 1 + repairs /\ wave' = wave + 1
      /\ action' = "CONDUCT_RESEARCH" /\ decision' = "dispatch"
      /\ UNCHANGED <<mode, repairs, planIssues, gated, evidence, judgement, lowValue,
                     cancelled, attempts, complete, quality, outcome>>
  BY DEF SupervisorDispatches, Replan, RepairAllowed, config, judgeVars, answerVars, TypeOK
<1>3. phase' = "supervisor" /\ node' = "researcher"
  <2>1. Enter("supervisor", "researcher") /\ "supervisor" \in Allowed[phase]
    BY <1>2, AllowedTable DEF SupervisorDispatches, Replan, PhaseFits
  <2> QED BY <2>1, EnterAllowed
<1>4. /\ tasks' = [t \in Tasks |-> IF t \in ts THEN "pending" ELSE tasks[t]]
      /\ plan' = ts /\ sends' = ts /\ updates' = [t \in {} |-> NoUpdate]
  BY <1>1 DEF Dispatch, Initialize
<1>5. ts \subseteq Tasks /\ \A t \in ts : t[1] = wave + 1 /\ t[2] \in approved
  BY <1>2, RepairsAssumption DEF Tasks, TypeOK
<1>6. TypeOK'
  <2>1. wave' \in 0 .. MaxRepairs + 2
    BY <1>2, RepairsAssumption DEF TypeOK
  <2>2. tasks' \in [Tasks -> Statuses] /\ plan' \subseteq Tasks /\ sends' \subseteq plan'
    BY <1>4, <1>5 DEF TypeOK, Statuses
  <2>3. DOMAIN updates' \subseteq plan' \ sends' /\ fingerprints' \subseteq Gaps
    BY <1>1, <1>4 DEF TypeOK
  <2>4. decision' \in Decisions /\ phase' \in Phases /\ node' \in Nodes
    BY <1>2, <1>3 DEF Decisions, Phases, Nodes
  <2> QED BY <1>2, <2>1, <2>2, <2>3, <2>4 DEF TypeOK
<1>7. PhaseFits' /\ WavesCounted' /\ AttemptsCounted'
  BY <1>2, <1>3 DEF PhaseFits, WavesCounted, AttemptsCounted, Researching, TypeOK
<1>8. UpdatesFit' /\ PendingExplained'
  BY <1>2, <1>3, <1>4 DEF UpdatesFit, PendingExplained, Unsent
<1>12. Sent'
  <2>1. \A t \in ts : t[1] > 1
    BY <1>2, <1>5 DEF WavesCounted, TypeOK
  <2>2. \A t \in ts : t \in Tasks /\ tasks'[t] = "pending" /\ t \notin Unsent'
    BY <1>2, <1>4, <1>5, <2>1 DEF Unsent
  <2> QED BY <1>4, <2>2 DEF Sent
<1>9. RepairsRecorded'
  BY <1>1, <1>3, <1>4, <1>5 DEF RepairsRecorded
<1>10. NoRepairTwice'
  <2> SUFFICES ASSUME NEW t \in Tasks, NEW u \in Tasks,
                      tasks'[t] # "absent", tasks'[u] # "absent",
                      t[1] > 1, u[1] > 1, t[2] = u[2]
               PROVE  t = u
    BY DEF NoRepairTwice
  <2>1. ASSUME NEW v \in Tasks, v \notin ts, tasks'[v] # "absent", v[1] > 1
        PROVE  tasks[v] # "absent" /\ v[2] \notin approved
    BY <2>1, <1>1, <1>4 DEF RepairsRecorded
  <2>2. CASE t \in ts /\ u \in ts
    BY <2>2, <1>5
  <2>3. CASE t \in ts /\ u \notin ts
    BY <2>1, <2>3, <1>5
  <2>4. CASE t \notin ts /\ u \in ts
    BY <2>1, <2>4, <1>5
  <2>5. CASE t \notin ts /\ u \notin ts
    BY <2>1, <2>5 DEF NoRepairTwice
  <2> QED BY <2>2, <2>3, <2>4, <2>5
<1>11. ContractEarned' /\ OutcomeIsEarned'
  BY <1>2 DEF ContractEarned, OutcomeIsEarned
<1> QED BY <1>6, <1>7, <1>8, <1>9, <1>10, <1>11, <1>12

\* Research ends: no route from here returns to a node of the research loop.
LEMMA SupervisorEndsKeeps == ASSUME Inductive, SupervisorEnds PROVE Inductive'
<1> USE DEF Inductive
<1>1. /\ node = "supervisor" /\ action' \in {"COMPLETE", "STOP"} /\ decision' \in Decisions
      /\ Enter("supervisor", "synthesize") \/ Enter("supervisor", "finalize")
  BY DEF SupervisorEnds, AfterSupervisor, DecideControl, Decisions
<1>2. phase' = "supervisor" /\ node' \in {"synthesize", "finalize"}
  <2>1. "supervisor" \in Allowed[phase]
    BY <1>1, AllowedTable DEF PhaseFits
  <2> QED BY <1>1, <2>1, EnterAllowed
<1>3. /\ UNCHANGED <<mode, repairs, planIssues, gated, tasks, plan, wave, fingerprints,
                     sends, updates, evidence, judgement, lowValue, cancelled,
                     attempts, complete, quality, outcome>>
      /\ TasksKept
  BY DEF SupervisorEnds, NoDispatch, TasksKept, config, waveVars, workVars, judgeVars, answerVars
<1>4. TypeOK'
  BY <1>1, <1>2, <1>3 DEF TypeOK, Phases, Nodes
<1>5. PhaseFits' /\ WavesCounted' /\ AttemptsCounted' /\ ContractEarned' /\ OutcomeIsEarned'
  BY <1>1, <1>2, <1>3
  DEF PhaseFits, WavesCounted, AttemptsCounted, Researching, ContractEarned, OutcomeIsEarned
<1> QED BY <1>1, <1>2, <1>3, <1>4, <1>5, TasksKeptKeeps

\* One attempt more, or two: the second only while two are left.
LEMMA SynthesizeKeeps == ASSUME Inductive, Synthesize PROVE Inductive'
<1> USE DEF Inductive
<1>1. PICK retried \in BOOLEAN :
        /\ retried => RetryAllowed
        /\ attempts' = AttemptsAfter(retried)
        /\ complete' \in BOOLEAN
  BY DEF Synthesize, TypeOK
<1>2. /\ node = "synthesize" /\ quality' = NoQuality
      /\ UNCHANGED <<mode, repairs, planIssues, gated, tasks, plan, wave, fingerprints,
                     sends, updates, evidence, judgement, lowValue, action, decision,
                     cancelled, outcome>>
      /\ TasksKept
  BY DEF Synthesize, TasksKept, config, waveVars, workVars, judgeVars
<1>3. phase' = "synthesis" /\ node' = "quality_gate"
  <2>1. Enter("synthesis", "quality_gate") /\ "synthesis" \in Allowed[phase]
    BY <1>2, AllowedTable DEF Synthesize, PhaseFits
  <2> QED BY <2>1, EnterAllowed
<1>4. attempts' \in 0 .. 3
  <2>1. attempts \in 0 .. 2
    BY <1>2 DEF TypeOK, AttemptsCounted
  <2>2. CASE retried
    BY <1>1, <2>1, <2>2 DEF RetryAllowed, AttemptsAfter
  <2>3. CASE ~retried
    BY <1>1, <2>1, <2>3 DEF AttemptsAfter
  <2> QED BY <2>2, <2>3
<1>5. TypeOK'
  <2>1. /\ quality' \in [verdict : {"none", "pass", "repairable", "partial", "fail", "failed"},
                         contract : {"success", "partial", "failed"}, of : 0 .. 4]
    BY <1>2 DEF NoQuality
  <2>2. attempts' \in 0 .. 4 /\ phase' \in Phases /\ node' \in Nodes
    BY <1>3, <1>4 DEF Phases, Nodes
  <2> QED BY <1>1, <1>2, <2>1, <2>2 DEF TypeOK
<1>6. PhaseFits' /\ WavesCounted' /\ AttemptsCounted'
  BY <1>2, <1>3, <1>4 DEF PhaseFits, WavesCounted, AttemptsCounted, Researching
<1>7. ContractEarned' /\ OutcomeIsEarned'
  BY <1>2 DEF ContractEarned, OutcomeIsEarned, NoQuality
<1> QED BY <1>2, <1>3, <1>5, <1>6, <1>7, TasksKeptKeeps

\* What the two gates have in common: a verdict on the text of this attempt.
LEMMA GateKeeps ==
  ASSUME Inductive, node = "quality_gate", NEW verdict, NEW contract, NEW next,
         verdict \in {"pass", "repairable", "partial", "fail", "failed"},
         contract \in {"success", "partial", "failed"},
         contract = "success" => evidence,
         quality' = [verdict |-> verdict, contract |-> contract, of |-> attempts],
         complete' \in BOOLEAN, Enter("quality", next),
         next = "finalize" \/ (next = "synthesize" /\ attempts < 3),
         UNCHANGED <<config, waveVars, workVars, evidence, judgeVars, action, decision,
                     cancelled, attempts, outcome>>
  PROVE  Inductive'
<1> USE DEF Inductive
<1>1. /\ UNCHANGED <<mode, repairs, planIssues, gated, tasks, plan, wave, fingerprints,
                     sends, updates, evidence, judgement, lowValue, action, decision,
                     cancelled, attempts, outcome>>
      /\ TasksKept
  BY DEF TasksKept, config, waveVars, workVars, judgeVars
<1>2. phase' = "quality" /\ node' = next
  <2>1. "quality" \in Allowed[phase]
    BY AllowedTable DEF PhaseFits
  <2> QED BY <2>1, EnterAllowed
<1>3. TypeOK'
  <2>1. /\ quality' \in [verdict : {"none", "pass", "repairable", "partial", "fail", "failed"},
                         contract : {"success", "partial", "failed"}, of : 0 .. 4]
    BY DEF TypeOK
  <2>2. phase' \in Phases /\ node' \in Nodes
    BY <1>2 DEF Phases, Nodes
  <2> QED BY <1>1, <2>1, <2>2 DEF TypeOK
<1>4. PhaseFits' /\ WavesCounted' /\ AttemptsCounted'
  BY <1>1, <1>2 DEF PhaseFits, WavesCounted, AttemptsCounted, Researching
<1>5. ContractEarned' /\ OutcomeIsEarned'
  BY <1>1 DEF ContractEarned, OutcomeIsEarned
<1> QED BY <1>1, <1>2, <1>3, <1>4, <1>5, TasksKeptKeeps

LEMMA QualityGateKeeps == ASSUME Inductive, QualityGate PROVE Inductive'
<1>1. PICK cited, answers, blocking, recovered \in BOOLEAN,
           report \in {"PASS", "REPAIRABLE", "FAIL"} :
        LET contract == Contract(cited, answers, blocking)
            gap == judgement # "sufficient" /\ ~complete
            pass == contract = "success" /\ report = "PASS" /\ ~gap
            repairable == mode = "legacy" /\ attempts < 3
                            /\ (~cited \/ (evidence /\ ~recovered) \/ report = "REPAIRABLE")
            verdict == CASE pass -> "pass"
                         [] ~pass /\ repairable -> "repairable"
                         [] OTHER -> IF evidence THEN "partial" ELSE "fail"
        IN /\ blocking => mode = "legacy" /\ judgement # "sufficient"
           /\ mode = "fast" => report = "PASS"
           /\ quality' = [verdict |-> verdict, contract |-> contract, of |-> attempts]
           /\ complete' = (complete \/ contract = "success")
           /\ Enter("quality", AfterQuality(verdict, repairable))
  BY Zenon DEF QualityGate
<1> DEFINE contract == Contract(cited, answers, blocking)
           gap == judgement # "sufficient" /\ ~complete
           pass == contract = "success" /\ report = "PASS" /\ ~gap
           repairable == mode = "legacy" /\ attempts < 3
                           /\ (~cited \/ (evidence /\ ~recovered) \/ report = "REPAIRABLE")
           verdict == CASE pass -> "pass"
                        [] ~pass /\ repairable -> "repairable"
                        [] OTHER -> IF evidence THEN "partial" ELSE "fail"
           next == AfterQuality(verdict, repairable)
<1>2. contract \in {"success", "partial", "failed"} /\ (contract = "success" => evidence)
  BY DEF Contract
<1>3. verdict \in {"pass", "repairable", "partial", "fail", "failed"}
  OBVIOUS
<1>4. /\ quality' = [verdict |-> verdict, contract |-> contract, of |-> attempts]
      /\ complete' \in BOOLEAN /\ Enter("quality", next)
  BY <1>1
<1> HIDE DEF contract, repairable, verdict
<1>5. next = "finalize" \/ (next = "synthesize" /\ attempts < 3)
  BY DEF AfterQuality
<1> HIDE DEF next
<1>6. /\ node = "quality_gate"
      /\ UNCHANGED <<config, waveVars, workVars, evidence, judgeVars, action, decision,
                     cancelled, attempts, outcome>>
  BY DEF QualityGate
<1> QED BY <1>2, <1>3, <1>4, <1>5, <1>6, GateKeeps

LEMMA QualityGateV2Keeps == ASSUME Inductive, QualityGateV2 PROVE Inductive'
<1>1. PICK contract \in {"success", "partial", "failed"} :
        /\ contract # "failed" => evidence
        /\ quality' = [verdict |-> IF contract = "success" THEN "pass" ELSE contract,
                       contract |-> contract, of |-> attempts]
        /\ complete' = (contract = "success")
  BY DEF QualityGateV2
<1> DEFINE verdict == IF contract = "success" THEN "pass" ELSE contract
<1>2. contract = "success" => evidence
  BY <1>1
<1>3. verdict \in {"pass", "repairable", "partial", "fail", "failed"}
  OBVIOUS
<1>4. quality' = [verdict |-> verdict, contract |-> contract, of |-> attempts]
  BY <1>1
<1> HIDE DEF verdict
<1>5. /\ node = "quality_gate" /\ Enter("quality", "finalize") /\ complete' \in BOOLEAN
      /\ UNCHANGED <<config, waveVars, workVars, evidence, judgeVars, action, decision,
                     cancelled, attempts, outcome>>
  BY DEF QualityGateV2
<1> QED BY <1>2, <1>3, <1>4, <1>5, GateKeeps

\* The outcome is the cancellation's, or the one the last contract earned.
LEMMA FinalizeKeeps == ASSUME Inductive, Finalize PROVE Inductive'
<1> USE DEF Inductive
<1>1. /\ node = "finalize" /\ node' = "end"
      /\ outcome' = IF cancelled THEN "cancelled" ELSE quality.contract
      /\ UNCHANGED <<mode, repairs, planIssues, gated, phase, tasks, plan, wave, fingerprints,
                     sends, updates, evidence, judgement, lowValue, action, decision,
                     cancelled, attempts, complete, quality>>
      /\ TasksKept
  BY DEF Finalize, TerminalOutcome, TasksKept, config, waveVars, workVars, judgeVars, answerVars
<1>2. outcome' \in {"success", "partial", "failed", "cancelled"}
  BY <1>1 DEF TypeOK
<1>3. TypeOK'
  BY <1>1, <1>2 DEF TypeOK, Nodes
<1>4. PhaseFits' /\ WavesCounted' /\ AttemptsCounted'
  BY <1>1 DEF PhaseFits, WavesCounted, AttemptsCounted, Researching
<1>5. ContractEarned' /\ OutcomeIsEarned'
  BY <1>1 DEF ContractEarned, OutcomeIsEarned
<1> QED BY <1>1, <1>3, <1>4, <1>5, TasksKeptKeeps

LEMMA StutterKeeps == ASSUME Inductive, UNCHANGED vars PROVE Inductive'
<1>1. UNCHANGED <<mode, repairs, planIssues, gated, node, phase, tasks, plan, wave,
                  fingerprints, sends, updates, evidence, judgement, lowValue, action,
                  decision, cancelled, attempts, complete, quality, outcome>>
  BY DEF vars, config, waveVars, workVars, judgeVars, answerVars
<1>2. TypeOK'
  BY <1>1 DEF Inductive, TypeOK
<1>3. /\ PhaseFits' /\ WavesCounted' /\ AttemptsCounted' /\ UpdatesFit'
      /\ Sent' /\ PendingExplained' /\ RepairsRecorded' /\ NoRepairTwice'
      /\ ContractEarned' /\ OutcomeIsEarned'
  BY <1>1
  DEF Inductive, PhaseFits, WavesCounted, AttemptsCounted, UpdatesFit, Sent, PendingExplained,
      Unsent, RepairsRecorded, NoRepairTwice, ContractEarned, OutcomeIsEarned
<1> QED BY <1>2, <1>3 DEF Inductive
-----------------------------------------------------------------------------
LEMMA GraphInvariant == Spec => []Inductive
<1>1. Init => Inductive
  BY InitInductive
<1>2. Inductive /\ [Next]_vars => Inductive'
  <2> SUFFICES ASSUME Inductive, [Next]_vars PROVE Inductive'
    OBVIOUS
  <2>1. CASE \E t \in Tasks : Worker(t) \/ GateTimesOut(t)
    BY <2>1, WorkersKeep
  <2>2. CASE SupervisorDispatches \/ SupervisorEnds
    BY <2>2, SupervisorDispatchesKeeps, SupervisorEndsKeeps
  <2>3. CASE Brief \/ FanIn \/ IngestFindings \/ CoverageJudge
    BY <2>3, BriefKeeps, FanInKeeps, IngestFindingsKeeps, CoverageJudgeKeeps
  <2>4. CASE Synthesize \/ QualityGate \/ QualityGateV2 \/ Finalize
    BY <2>4, SynthesizeKeeps, QualityGateKeeps, QualityGateV2Keeps, FinalizeKeeps
  <2>5. CASE UNCHANGED vars
    BY <2>5, StutterKeeps
  <2> QED BY <2>1, <2>2, <2>3, <2>4, <2>5 DEF Next
<1> QED BY <1>1, <1>2, PTL DEF Spec

\* Every variable of a run keeps to its values: the phase table, the task
\* table and the counters of waves, rounds and attempts (state.py).
THEOREM GraphTypeCorrect == Spec => []TypeOK
<1>1. Inductive => TypeOK
  BY DEF Inductive
<1> QED BY <1>1, GraphInvariant, PTL

\* transition_update never raises: every route leads to a node whose phase may
\* follow the current one (graph.py, transitions.py).
THEOREM RoutesAreLegal == Spec => []StepsAreLegal
<1>1. Inductive => StepsAreLegal
  BY DEF Inductive, PhaseFits, StepsAreLegal
<1> QED BY <1>1, GraphInvariant, PTL

\* A run gets its first wave and the configured number of repair waves, and at
\* most three attempts at a text, for every limit (node_supervisor,
\* node_synthesize, route_after_quality).
THEOREM WorkIsAlwaysBounded == Spec => []WorkIsBounded
<1>1. Inductive => WorkIsBounded
  BY DEF Inductive, WavesCounted, AttemptsCounted, WorkIsBounded
<1> QED BY <1>1, GraphInvariant, PTL

\* No request is repaired twice, for any set of requests (admit_dispatch).
THEOREM RepairsAreFresh == Spec => []NoRepairTwice
<1>1. Inductive => NoRepairTwice
  BY DEF Inductive
<1> QED BY <1>1, GraphInvariant, PTL

\* A cancelled run ends as cancelled, and a successful one passed the contract
\* with its last text and with evidence (decide_terminal_outcome).
THEOREM OutcomesAreEarned == Spec => []OutcomeIsEarned
<1>1. Inductive => OutcomeIsEarned
  BY DEF Inductive
<1> QED BY <1>1, GraphInvariant, PTL
-----------------------------------------------------------------------------
(* The refinement.  Plans are admitted by Brief and SupervisorDispatches,  *)
(* FanIn settles a wave, Finalize ends the run; the other steps stutter.   *)

LEMMA NobodyWaitsOutside ==
  ASSUME Inductive, node # "researcher" PROVE Lifecycle!NobodyWaits
BY DEF Inductive, PendingExplained, Lifecycle!NobodyWaits, Lifecycle!Waiting

LEMMA OpenBeforeTheEnd ==
  ASSUME Inductive, node # "end" PROVE outcome = "none"
BY DEF Inductive, ContractEarned

\* Brief and the supervisor give new tasks a status, and nothing else.
LEMMA PlansAreAdmitted ==
  ASSUME Inductive, Brief \/ SupervisorDispatches PROVE Lifecycle!Admit
<1>1. PICK ts \in SUBSET Tasks :
        /\ tasks' = [t \in Tasks |-> IF t \in ts THEN "pending" ELSE tasks[t]]
        /\ \A t \in ts : tasks[t] = "absent"
  <2>1. CASE Brief
    <3>1. PICK questions \in SUBSET Gaps : Initialize({1} \X questions)
      BY <2>1 DEF Brief
    <3>2. {1} \X questions \in SUBSET Tasks
      BY RepairsAssumption DEF Tasks
    <3>3. \A t \in Tasks : tasks[t] = "absent"
      BY <2>1 DEF Brief, Inductive, RepairsRecorded
    <3> QED BY <3>1, <3>2, <3>3 DEF Initialize
  <2>2. CASE SupervisorDispatches
    <3>1. PICK approved \in SUBSET (Gaps \ fingerprints) : Initialize({wave + 1} \X approved)
      BY <2>2 DEF SupervisorDispatches, Replan, Fresh
    <3> DEFINE ts == {wave + 1} \X approved
    <3>2. wave + 1 \in 2 .. MaxRepairs + 2
      <4>1. wave \in 0 .. MaxRepairs + 2 /\ repairs \in 0 .. MaxRepairs /\ wave - 1 < repairs
        BY <2>2 DEF SupervisorDispatches, Replan, RepairAllowed, Inductive, TypeOK
      <4>2. wave >= 1
        BY <2>2 DEF SupervisorDispatches, Replan, Inductive, WavesCounted
      <4> QED BY <4>1, <4>2, RepairsAssumption
    <3>3. ts \in SUBSET Tasks
      BY <3>2, RepairsAssumption DEF Tasks
    <3>4. \A t \in ts : t[1] > 1 /\ t[2] \notin fingerprints
      BY <3>2
    <3>5. \A t \in ts : tasks[t] = "absent"
      BY <3>3, <3>4 DEF Inductive, RepairsRecorded
    <3> QED BY <3>1, <3>3, <3>5 DEF Initialize
  <2> QED BY <2>1, <2>2
<1>2. \A t \in Tasks : tasks'[t] # tasks[t] => tasks[t] = "absent" /\ tasks'[t] = "pending"
  BY <1>1
<1>3. node \in {"brief", "supervisor"}
      /\ UNCHANGED <<planIssues, evidence, cancelled, outcome>>
  BY DEF Brief, SupervisorDispatches, Replan, config
<1>4. UNCHANGED Unsent
  BY <1>3 DEF Unsent
<1> QED BY <1>2, <1>3, <1>4, NobodyWaitsOutside, OpenBeforeTheEnd DEF Lifecycle!Admit

\* The wave that was sent settles at its fan-in.
LEMMA WavesSettle == ASSUME Inductive, Inductive', FanIn PROVE Lifecycle!Settle
<1> DEFINE writers(t) == {u \in DOMAIN updates : t \in DOMAIN updates[u].tasks}
<1>1. /\ node = "researcher" /\ node' = "ingest_findings"
      /\ evidence' = (evidence \/ \E u \in DOMAIN updates : updates[u].evidence)
      /\ cancelled' = (cancelled \/ \E u \in DOMAIN updates : updates[u].cancelled)
      /\ UNCHANGED <<planIssues, outcome>>
  BY DEF FanIn, AfterResearcher, config
<1>2. \A t \in Tasks : \/ tasks'[t] = tasks[t]
                       \/ t \in DOMAIN updates /\ SettledBy(tasks'[t], updates[t].evidence)
  BY MergedByTask
<1>3. ASSUME NEW t \in Tasks, tasks'[t] # tasks[t]
      PROVE  /\ t \in Lifecycle!Waiting /\ tasks'[t] \in Settled
             /\ tasks'[t] = "succeeded" => evidence'
  <2>1. t \in DOMAIN updates /\ SettledBy(tasks'[t], updates[t].evidence)
    BY <1>2, <1>3
  <2>2. tasks[t] = "pending" /\ t \notin Unsent
    BY <1>1, <2>1 DEF Inductive, Sent
  <2> QED BY <1>1, <2>1, <2>2 DEF SettledBy, Lifecycle!Waiting
<1>4. Lifecycle!NobodyWaits'
  BY <1>1 DEF Inductive, PendingExplained, Lifecycle!NobodyWaits, Lifecycle!Waiting
<1>5. UNCHANGED Unsent /\ outcome = "none"
  BY <1>1, OpenBeforeTheEnd DEF Unsent
<1> QED BY <1>1, <1>3, <1>4, <1>5 DEF Lifecycle!Settle, Lifecycle!Settled, Settled

\* The steps after which every variable of the promise is what it was.
LEMMA OthersStutter ==
  ASSUME UNCHANGED <<config, tasks, evidence, cancelled, outcome>>
  PROVE  UNCHANGED Lifecycle!lifecycleVars
BY DEF config, Unsent, Lifecycle!lifecycleVars

LEMMA TheRunEnds == ASSUME Inductive, Finalize PROVE Lifecycle!End
<1>1. /\ node = "finalize" /\ outcome' = IF cancelled THEN "cancelled" ELSE quality.contract
      /\ UNCHANGED <<planIssues, tasks, evidence, cancelled>>
  BY DEF Finalize, TerminalOutcome, config, waveVars
<1>2. quality.contract \in {"success", "partial", "failed"}
  BY DEF Inductive, TypeOK
<1>3. quality.contract = "success" => evidence
  BY DEF Inductive, ContractEarned
<1>4. Lifecycle!NobodyWaits /\ outcome = "none" /\ UNCHANGED Unsent
  BY <1>1, NobodyWaitsOutside, OpenBeforeTheEnd DEF Unsent
<1> QED BY <1>1, <1>2, <1>3, <1>4 DEF Lifecycle!End, Lifecycle!Outcomes

\* A run keeps the promises of TaskLifecycle, for every set of gaps and every
\* limit on repair waves: no merge loses a result or settles a task twice, no
\* invalid plan is worked on, and nothing changes after the end (graph.py,
\* task_state.py, termination.py).
THEOREM GraphKeepsLifecycle == Spec => KeepsTaskLifecycle
<1>1. Init => Lifecycle!Init
  BY DEF Init, Lifecycle!Init, Unsent
<1>2. Inductive /\ Inductive' /\ [Next]_vars => [Lifecycle!Next]_(Lifecycle!lifecycleVars)
  <2> SUFFICES ASSUME Inductive, Inductive', [Next]_vars
               PROVE  [Lifecycle!Next]_(Lifecycle!lifecycleVars)
    OBVIOUS
  <2>1. CASE Brief \/ SupervisorDispatches
    BY <2>1, PlansAreAdmitted DEF Lifecycle!Next
  <2>2. CASE FanIn
    BY <2>2, WavesSettle DEF Lifecycle!Next
  <2>3. CASE Finalize
    BY <2>3, TheRunEnds DEF Lifecycle!Next
  <2>4. CASE \E t \in Tasks : Worker(t) \/ GateTimesOut(t)
    BY <2>4, OthersStutter DEF Worker, GateTimesOut, Return, waveVars
  <2>5. CASE IngestFindings \/ CoverageJudge \/ SupervisorEnds
    BY <2>5, OthersStutter DEF IngestFindings, CoverageJudge, SupervisorEnds, waveVars
  <2>6. CASE Synthesize \/ QualityGate \/ QualityGateV2
    BY <2>6, OthersStutter DEF Synthesize, QualityGate, QualityGateV2, waveVars
  <2>7. CASE UNCHANGED vars
    BY <2>7, OthersStutter DEF vars, waveVars
  <2> QED BY <2>1, <2>2, <2>3, <2>4, <2>5, <2>6, <2>7 DEF Next
<1> QED BY <1>1, <1>2, GraphInvariant, PTL DEF Spec, KeepsTaskLifecycle, Lifecycle!Spec
=============================================================================
