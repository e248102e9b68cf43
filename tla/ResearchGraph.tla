----------------------------- MODULE ResearchGraph -----------------------------
(***************************************************************************)
(* One research run as its LangGraph graph executes it                     *)
(* (app/research/runtime/graph.py with the nodes of runner.py): the brief's *)
(* first wave of workers, the fan-in, the coverage judge, the supervisor   *)
(* that dispatches repair waves or ends research, synthesis, the quality   *)
(* gate with its repair loop, and the terminal outcome.                    *)
(*                                                                         *)
(* A step is one node; the workers of a wave run side by side and their    *)
(* updates are merged together when the last of them has returned.  What a *)
(* model, a judge or a worker answers is an arbitrary choice; a task is    *)
(* named by its wave and by the gap its objective is about.                *)
(***************************************************************************)
EXTENDS Naturals, FiniteSets

CONSTANTS
  Gaps,        \* what tasks can be about; a request's semantic fingerprint
  MaxRepairs   \* largest max_replan_count

ASSUME GapsAssumption == Gaps \subseteq Nat /\ IsFiniteSet(Gaps) /\ Gaps # {}
ASSUME RepairsAssumption == MaxRepairs \in Nat

\* One wave more than the limit admits, so that a wave too many would show.
Tasks == (1 .. MaxRepairs + 2) \X Gaps

Modes == {"fast", "legacy", "v2"}
Statuses == {"absent", "pending", "succeeded", "stopped", "failed"}
Settled == {"succeeded", "stopped", "failed"}
Phases == {"bootstrap", "brief", "supervisor", "execute", "ingest_findings",
           "coverage_judge", "synthesis", "quality"}
Nodes == {"brief", "researcher", "ingest_findings", "coverage_judge",
          "supervisor", "synthesize", "quality_gate", "finalize", "end", "raised"}
Decisions == {"none", "dispatch", "synthesize", "deliver_partial",
              "finalize_failure", "cancel"}

VARIABLES
  mode,          \* fast_path, or the engine_version
  repairs,       \* budget.max_replan_count
  planIssues,    \* validate_brief_plan objects to the plan
  gated,         \* research steps wait for approval (hitl_step_gate_types)
  node,          \* the node to run next; raised: a node raised an exception
  phase,
  tasks,         \* the task table: execution_status
  plan,          \* the tasks of the current plan
  wave,          \* dispatch_wave_id
  fingerprints,  \* task_fingerprints
  sends,         \* workers of this superstep that have not returned
  updates,       \* worker -> the state update it returned
  evidence,      \* evidence_records is not empty
  judgement,     \* coverage_judgement
  lowValue,      \* low_value_rounds
  action,        \* supervisor_action
  decision,      \* control_decision.action
  cancelled,     \* cancel_reason is set
  attempts,      \* synthesis_attempts
  complete,      \* answer_complete
  quality,       \* quality_assessment
  outcome        \* termination.outcome

config == <<mode, repairs, planIssues, gated>>
waveVars == <<tasks, plan, wave, fingerprints>>
workVars == <<sends, updates>>
judgeVars == <<judgement, lowValue>>
answerVars == <<attempts, complete, quality>>
vars == <<config, node, phase, waveVars, workVars, evidence, judgeVars, action,
          decision, cancelled, answerVars, outcome>>

NoUpdate == [tasks |-> [t \in {} |-> "absent"], evidence |-> FALSE, cancelled |-> FALSE]
NoQuality == [verdict |-> "none", contract |-> "failed", of |-> 0]
-----------------------------------------------------------------------------
\* The values each variable may take.
TypeOK ==
  /\ mode \in Modes /\ repairs \in 0 .. MaxRepairs
  /\ planIssues \in BOOLEAN /\ gated \in BOOLEAN
  /\ node \in Nodes /\ phase \in Phases
  /\ tasks \in [Tasks -> Statuses] /\ plan \subseteq Tasks /\ sends \subseteq plan
  /\ DOMAIN updates \subseteq plan \ sends
  /\ wave \in 0 .. MaxRepairs + 2 /\ fingerprints \subseteq Gaps
  /\ evidence \in BOOLEAN /\ judgement \in {"none", "gap", "sufficient"}
  /\ lowValue \in 0 .. MaxRepairs + 2
  /\ action \in {"none", "CONDUCT_RESEARCH", "COMPLETE", "STOP"}
  /\ decision \in Decisions /\ cancelled \in BOOLEAN
  /\ attempts \in 0 .. 4 /\ complete \in BOOLEAN
  /\ quality \in [verdict : {"none", "pass", "repairable", "partial", "fail", "failed"},
                  contract : {"success", "partial", "failed"}, of : 0 .. 4]
  /\ outcome \in {"none", "success", "partial", "failed", "cancelled"}

\* execute: the fast path repairs nothing, the legacy engine at most once.
RepairLimit(m) == CASE m = "fast" -> 0 [] m = "legacy" -> 1 [] OTHER -> 2

Init ==
  /\ mode \in Modes
  /\ repairs \in {n \in 0 .. MaxRepairs : n <= RepairLimit(mode)}
  /\ planIssues \in BOOLEAN /\ gated \in BOOLEAN
  /\ node = "brief" /\ phase = "bootstrap"
  /\ tasks = [t \in Tasks |-> "absent"] /\ plan = {} /\ wave = 0
  /\ fingerprints = {} /\ sends = {} /\ updates = [t \in {} |-> NoUpdate]
  /\ evidence = FALSE /\ judgement = "none" /\ lowValue = 0
  /\ action = "none" /\ decision = "none" /\ cancelled = FALSE
  /\ attempts = 0 /\ complete = FALSE /\ quality = NoQuality /\ outcome = "none"
-----------------------------------------------------------------------------
Allowed ==
  [bootstrap |-> {"brief"},
   brief |-> {"supervisor", "execute"},
   supervisor |-> {"execute", "coverage_judge", "synthesis", "finalize"},
   execute |-> {"ingest_findings"},
   ingest_findings |-> {"coverage_judge"},
   coverage_judge |-> {"supervisor", "synthesis"},
   synthesis |-> {"quality"},
   quality |-> {"synthesis", "finalize"}]

\* transition_update: a node whose phase does not follow the current one
\* raises InvalidTransition.
Enter(target, next) ==
  IF target \in Allowed[phase]
  THEN phase' = target /\ node' = next
  ELSE node' = "raised" /\ UNCHANGED phase

\* Sends: one worker for each task of the plan.
Dispatch(ts) == plan' = ts /\ sends' = ts /\ updates' = [t \in {} |-> NoUpdate]
NoDispatch == UNCHANGED <<plan, workVars>>

\* initialize_tasks, merged into the table by the reducer.
Initialize(ts) == tasks' = [t \in Tasks |-> IF t \in ts THEN "pending" ELSE tasks[t]]
-----------------------------------------------------------------------------
\* node_brief and route_after_brief.  The first wave's fingerprints are not
\* recorded.  A plan that did not validate is left to the supervisor.
Brief ==
  /\ node = "brief"
  /\ \E questions \in (SUBSET Gaps) \ {{}} :
       LET ts == {1} \X questions
       IN /\ mode = "fast" => Cardinality(questions) = 1
          /\ Initialize(ts)
          /\ IF planIssues
             THEN plan' = ts /\ UNCHANGED workVars
             ELSE Dispatch(ts)
  /\ wave' = 1
  /\ Enter("brief", IF planIssues THEN "supervisor" ELSE "researcher")
  /\ UNCHANGED <<config, fingerprints, evidence, judgeVars, action, decision,
                 cancelled, answerVars, outcome>>

\* A worker without admitted evidence fails, unless a raw artifact can be
\* salvaged; one whose findings were not accepted is stopped.
WorkerStatuses(ev) == IF ev THEN {"stopped", "succeeded"} ELSE {"stopped", "failed"}

\* Mutant of OwnTask: the worker returns the table it was sent, its task in it.
WholeTable(t, s) == [tasks EXCEPT ![t] = s]
\* The worker returns the entry of its own task only.
OwnTask(t, s) == [u \in {t} |-> s]

Return(t, update) ==
  /\ sends' = sends \ {t}
  /\ updates' = [u \in DOMAIN updates \cup {t} |-> IF u = t THEN update ELSE updates[u]]
  /\ UNCHANGED <<config, node, phase, waveVars, evidence, judgeVars, action,
                 decision, cancelled, answerVars, outcome>>

\* node_research_worker: whatever WorkerExecutorV2 makes of the task.  (Its
\* status is never retryable, so no plan holds a task that is not pending.)
Worker(t) ==
  /\ node = "researcher" /\ t \in sends /\ tasks[t] = "pending"
  /\ \E ev \in BOOLEAN : \E s \in WorkerStatuses(ev) :
       Return(t, [tasks |-> OwnTask(t, s), evidence |-> ev, cancelled |-> FALSE])

\* The step gate of a wave of one task times out: the task stays pending.
GateTimesOut(t) ==
  /\ gated /\ node = "researcher" /\ sends = {t} /\ plan = {t}
  /\ Return(t, [NoUpdate EXCEPT !.cancelled = TRUE])

\* Mutant of AfterResearcher: an edge past the ingestion.
AfterResearcherJudge == "coverage_judge"
AfterResearcher == "ingest_findings"

\* The superstep ends: updates are merged key by key, a later worker's entry
\* replacing an earlier one's.
FanIn ==
  LET writers(t) == {u \in DOMAIN updates : t \in DOMAIN updates[u].tasks}
      last(us) == CHOOSE u \in us : \A v \in us : v[2] <= u[2]
  IN /\ node = "researcher" /\ sends = {}
     /\ tasks' = [t \in Tasks |-> IF writers(t) = {} THEN tasks[t]
                                  ELSE updates[last(writers(t))].tasks[t]]
     /\ evidence' = (evidence \/ \E u \in DOMAIN updates : updates[u].evidence)
     /\ cancelled' = (cancelled \/ \E u \in DOMAIN updates : updates[u].cancelled)
     /\ updates' = [t \in {} |-> NoUpdate]
     /\ phase' = "execute" /\ node' = AfterResearcher
     /\ UNCHANGED <<config, plan, wave, fingerprints, sends, judgeVars, action,
                    decision, answerVars, outcome>>

\* node_ingest_findings: the workers have ingested their own rows already.
IngestFindings ==
  /\ node = "ingest_findings"
  /\ Enter("ingest_findings", "coverage_judge")
  /\ UNCHANGED <<config, waveVars, workVars, evidence, judgeVars, action, decision,
                 cancelled, answerVars, outcome>>
-----------------------------------------------------------------------------
\* node_coverage_judge and route_coverage_judge.  Two rounds without value
\* stop the legacy engine when there is something to deliver.
CoverageJudge ==
  /\ node = "coverage_judge"
  /\ \E covered \in BOOLEAN, value \in BOOLEAN :
       /\ covered /\ mode # "fast" => evidence
       /\ judgement' = IF covered THEN "sufficient" ELSE "gap"
       /\ lowValue' = CASE mode = "v2" -> lowValue
                        [] value -> 0
                        [] OTHER -> lowValue + 1
       /\ decision' = IF mode # "v2" /\ lowValue' >= 2 /\ evidence
                      THEN "deliver_partial" ELSE "none"
       /\ Enter("coverage_judge",
                IF decision' = "deliver_partial" \/ covered
                THEN "synthesize" ELSE "supervisor")
  /\ UNCHANGED <<config, waveVars, workVars, evidence, action, cancelled,
                 answerVars, outcome>>
-----------------------------------------------------------------------------
(* The supervisor.                                                         *)

RepairAllowed == wave - 1 < repairs

\* Mutant of Fresh: fingerprints of earlier waves are not consulted.
AllRequests(requests) == requests
Fresh(requests) == requests \ fingerprints

\* The approved requests become the plan of the next wave.
Replan(approved) ==
  /\ Dispatch({wave + 1} \X approved) /\ Initialize({wave + 1} \X approved)
  /\ fingerprints' = fingerprints \cup approved
  /\ wave' = wave + 1

\* The supervisor asks for research, a repair wave is left and admission
\* approves some of the requests (budget and slots permitting).  This decision
\* is taken whatever decide_control said.
SupervisorDispatches ==
  /\ node = "supervisor" /\ RepairAllowed
  /\ \E requests \in SUBSET Gaps : \E approved \in SUBSET Fresh(requests) :
       approved # {} /\ Replan(approved)
  /\ action' = "CONDUCT_RESEARCH" /\ decision' = "dispatch"
  /\ Enter("supervisor", "researcher")
  /\ UNCHANGED <<config, evidence, judgeVars, cancelled, answerVars, outcome>>

\* decide_control for the actions that are left: COMPLETE, also where admission
\* refused every request, and STOP_*.  Its other branches need a task that
\* runs, one that can be retried or a request nobody approved, and the
\* supervisor node leaves none of them.
DecideControl(act, exhausted, answerable) ==
  LET partialOrFailure == IF answerable THEN "deliver_partial" ELSE "finalize_failure"
  IN CASE cancelled -> "cancel"
       [] ~cancelled /\ exhausted ->
            IF judgement = "sufficient" /\ evidence THEN "synthesize" ELSE partialOrFailure
       [] ~cancelled /\ ~exhausted /\ act = "STOP" -> partialOrFailure
       [] OTHER -> IF evidence THEN "synthesize" ELSE "finalize_failure"

\* route_supervisor.
AfterSupervisor(d) ==
  CASE d \in {"synthesize", "deliver_partial"} -> "synthesize"
    [] d = "finalize_failure" /\ mode = "v2" /\ ~cancelled -> "synthesize"
    [] OTHER -> "finalize"

\* An exhausted budget stops without asking the model; otherwise the model may
\* stop, ask for research nobody approves, or, before any judgement, complete.
SupervisorEnds ==
  /\ node = "supervisor"
  /\ \E act \in {"COMPLETE", "STOP"}, exhausted \in BOOLEAN, answerable \in BOOLEAN :
       /\ exhausted => act = "STOP"
       /\ answerable => evidence
       /\ action' = act
       /\ decision' = DecideControl(act, exhausted, answerable)
       /\ Enter("supervisor", AfterSupervisor(decision'))
  /\ NoDispatch
  /\ UNCHANGED <<config, tasks, wave, fingerprints, evidence, judgeVars, cancelled,
                 answerVars, outcome>>
-----------------------------------------------------------------------------
(* Synthesis and the quality gate.                                         *)

\* The compact retry inside one synthesis; none for a report repair.
RetryAllowed == mode = "legacy" /\ attempts < 2

\* Mutant of AttemptsAfter: every synthesis counts as the first.
AttemptsFromZero(retried) == CASE mode = "v2" -> 0 [] mode = "fast" -> 1
                               [] OTHER -> IF retried THEN 2 ELSE 1
AttemptsAfter(retried) == CASE mode = "v2" -> 0 [] mode = "fast" -> 1
                            [] OTHER -> attempts + (IF retried THEN 2 ELSE 1)

\* node_synthesize always leaves some text: a report, a recovered answer or a
\* partial delivery.
Synthesize ==
  /\ node = "synthesize"
  /\ \E retried \in BOOLEAN, answered \in BOOLEAN :
       /\ retried => RetryAllowed
       /\ answered => mode = "legacy" /\ evidence
       /\ attempts' = AttemptsAfter(retried)
       /\ complete' = IF mode = "fast" THEN complete ELSE answered
  /\ quality' = NoQuality
  /\ Enter("synthesis", "quality_gate")
  /\ UNCHANGED <<config, waveVars, workVars, evidence, judgeVars, action, decision,
                 cancelled, outcome>>

\* evaluate_completion: an answer bound to evidence for every question, valid
\* citations, and no blocking gap -- a gap does not block once the answers are
\* complete.  Evidence and a text suffice for a partial delivery.
Contract(cited, answers, blocking) ==
  CASE evidence /\ cited /\ answers /\ ~(blocking /\ ~complete) -> "success"
    [] evidence -> "partial"
    [] OTHER -> "failed"

\* route_after_quality.
AfterQuality(verdict, repairable) ==
  IF verdict # "pass" /\ repairable /\ attempts < 3 THEN "synthesize" ELSE "finalize"

\* The gate of the legacy engine and of the fast path: the contract, the report
\* checks, and whether another synthesis may repair the report.
QualityGate ==
  /\ node = "quality_gate" /\ mode # "v2"
  /\ \E cited, answers, blocking, recovered \in BOOLEAN,
        report \in {"PASS", "REPAIRABLE", "FAIL"} :
       LET contract == Contract(cited, answers, blocking)
           gap == judgement # "sufficient" /\ ~complete
           pass == contract = "success" /\ report = "PASS" /\ ~gap
           repairable == mode = "legacy" /\ attempts < 3
                           /\ (~cited \/ (evidence /\ ~recovered) \/ report = "REPAIRABLE")
           verdict == CASE pass -> "pass"
                        [] ~pass /\ repairable -> "repairable"
                        [] OTHER -> IF evidence THEN "partial" ELSE "fail"
       IN /\ blocking => mode = "legacy" /\ judgement # "sufficient"
          /\ mode = "fast" => report = "PASS"
          /\ quality' = [verdict |-> verdict, contract |-> contract, of |-> attempts]
          /\ complete' = (complete \/ contract = "success")
          /\ Enter("quality", AfterQuality(verdict, repairable))
  /\ UNCHANGED <<config, waveVars, workVars, evidence, judgeVars, action, decision,
                 cancelled, attempts, outcome>>

\* The gate of the answer contract: evaluate_completion_v2 decides, and nothing
\* is repaired.
QualityGateV2 ==
  /\ node = "quality_gate" /\ mode = "v2"
  /\ \E contract \in {"success", "partial", "failed"} :
       /\ contract # "failed" => evidence
       /\ quality' = [verdict |-> IF contract = "success" THEN "pass" ELSE contract,
                      contract |-> contract, of |-> attempts]
       /\ complete' = (contract = "success")
  /\ Enter("quality", "finalize")
  /\ UNCHANGED <<config, waveVars, workVars, evidence, judgeVars, action, decision,
                 cancelled, attempts, outcome>>

\* Mutant of TerminalOutcome: the contract is asked before the cancellation.
ContractFirst == IF quality.contract # "failed" THEN quality.contract
                 ELSE IF cancelled THEN "cancelled" ELSE "failed"
\* decide_terminal_outcome.  A run that comes here straight from the supervisor
\* has no text and fails the contract.
TerminalOutcome == IF cancelled THEN "cancelled" ELSE quality.contract

Finalize ==
  /\ node = "finalize"
  /\ outcome' = TerminalOutcome /\ node' = "end"
  /\ UNCHANGED <<config, phase, waveVars, workVars, evidence, judgeVars, action,
                 decision, cancelled, answerVars>>
-----------------------------------------------------------------------------
Next ==
  \/ Brief \/ FanIn \/ IngestFindings \/ CoverageJudge
  \/ \E t \in Tasks : Worker(t) \/ GateTimesOut(t)
  \/ SupervisorDispatches \/ SupervisorEnds
  \/ Synthesize \/ QualityGate \/ QualityGateV2 \/ Finalize

\* The graph's driver awaits node after node, and every call a node makes to a
\* model or a tool has a timeout: something always happens until the run ends.
Spec == Init /\ [][Next]_vars /\ WF_vars(Next)
-----------------------------------------------------------------------------
(* Properties.                                                             *)

\* No route of the graph leads to a node whose phase may not follow the
\* current one: transition_update never raises in the middle of a run.
StepsAreLegal == node # "raised"

\* No two repair waves work on the same request, although each wave replaces
\* the plan: task identity comes from the wave, the fingerprint does not.
NoRepairTwice ==
  \A t, u \in Tasks :
    /\ tasks[t] # "absent" /\ tasks[u] # "absent"
    /\ t[1] > 1 /\ u[1] > 1 /\ t[2] = u[2]
    => t = u

\* However often the supervisor asks and the gate repairs, a run gets its first
\* wave and no more than the configured number of repair waves, each for
\* requests of its own, and compact retries and report repairs together make at
\* most three attempts.
WorkIsBounded == wave <= 1 + repairs /\ attempts <= 3 /\ NoRepairTwice

\* A cancelled run ends as cancelled even when a repair wave was dispatched
\* after the cancellation and its answer passed; and a success is a contract
\* passed by the last text synthesised, over evidence.
OutcomeIsEarned ==
  /\ cancelled => outcome \in {"none", "cancelled"}
  /\ outcome = "success" =>
       evidence /\ quality.contract = "success" /\ quality.of = attempts

\* The run keeps the promises of TaskLifecycle: whatever the waves, the merges
\* at their end and the repairs, every task that was sent settles exactly once
\* before the run goes on, what succeeded left evidence, a plan that did not
\* validate is never worked on, and the outcome is final
\* (node_research_worker, reducers.merge_dicts, decide_terminal_outcome).
Unsent == {t \in Tasks : planIssues /\ t[1] = 1}
Lifecycle == INSTANCE TaskLifecycle WITH unsent <- Unsent
KeepsTaskLifecycle == Lifecycle!Spec

\* Research, repair and synthesis loops all end.
Terminates == <>(outcome # "none")
=============================================================================
