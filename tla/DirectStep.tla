------------------------------ MODULE DirectStep ------------------------------
(***************************************************************************)
(* One research step run by the LangChain worker runtime                   *)
(* (research/runtime/worker.py) through the harness's single-step loop     *)
(* (agent/harness/loop.py), as ResearchGraphRunner.node_vanilla_agent does *)
(* for the direct mode.  At this commit the compiled graph binds the       *)
(* placeholder of graph.py in that mode, so tests alone reach the runtime; *)
(* the single-step loop it runs is the harness's own.  Two tasks of the    *)
(* event loop take part: the worker, which holds the budget lease, polls   *)
(* the step's task and may cancel it, and the step's task, which asks for  *)
(* approval, runs the agent, checks the answer, retries, and writes what   *)
(* passed to the memory before it registers the step as completed.  A user *)
(* decides approvals and may cancel the worker.  Time passes in polls of   *)
(* the watchdog.                                                           *)
(***************************************************************************)
EXTENDS Integers, FiniteSets

CONSTANTS
  MaxRetries,      \* state.max_retries: repeated executions of the step
  MaxProvider,     \* attempts the failure policy grants a provider error
  StepTimeout,     \* polls until wait_for gives up one execution
  WallTimeout,     \* polls until the watchdog gives up the step
  IdleTimeout,     \* polls without progress until the watchdog gives up
  HitlTimeout,     \* polls until an approval is given up
  ToolCap,         \* tool invocations of one execution
  MaxRounds,       \* bound: model calls of one execution
  MaxArtifacts,    \* bound: artifacts the step stores
  Gated,           \* the step's type is in hitl_step_gate_types
  Interrupts       \* tools may ask for approval (hitl interrupt_on)

ASSUME DirectAssumption ==
  /\ MaxRetries \in Nat /\ MaxProvider \in Nat \ {0}
  /\ StepTimeout \in Nat \ {0} /\ WallTimeout \in Nat \ {0}
  /\ IdleTimeout \in Nat \ {0} /\ HitlTimeout \in Nat \ {0}
  /\ ToolCap \in Nat /\ MaxRounds \in Nat /\ MaxArtifacts \in Nat
  /\ Gated \in BOOLEAN /\ Interrupts \in BOOLEAN

VARIABLES
  worker,     \* "ready", "running", "stopping", "backoff" or "ended"
  why,        \* why the watchdog stops the step
  stepLease,  \* the worker's budget lease: "none", "held", "returned"
  stage,      \* where the step's task is
  op,         \* the operation in flight: "none", "model" or "tool"
  provider, retry, shape,   \* failed provider attempts, retries, JSON retry
  jsonOnly,   \* this execution may only restate what is stored
  rounds, used, artifacts,  \* model calls, tool calls, stored artifacts
  ran,        \* an execution of the agent was let through
  answer,     \* what the last execution returned
  spent, waited,            \* polls of this execution, of this approval
  before, wall, idle,       \* polls of earlier attempts, of this one, idle
  changed,    \* the watchdog's signature changed since its last poll
  passed,     \* child.step_results holds a validated result
  registered, \* the registry and completed_step_keys hold the step's key
  outcome,    \* what the worker reports
  done,       \* the parent's step status and content say done
  forced      \* state.metadata["force_synthesis"]

clock == <<spent, waited, before, wall, idle, changed>>
tries == <<provider, retry, shape, jsonOnly, rounds, used>>
results == <<passed, registered, outcome, done, forced>>
directVars == <<worker, why, stepLease, stage, op, tries, artifacts, ran, answer, clock, results>>

-----------------------------------------------------------------------------
(* What an execution returns and what the checks make of it. *)

\* What the agent's last text parses to: no text, prose, JSON that reports a
\* failure, facts alone, facts with a source, findings that cite a stored
\* artifact, an invented id or nothing, or an answer after a forbidden tool.
AgentAnswers == {"nothing", "prose", "refusal", "facts", "sourced", "cited",
            "invented", "unbound", "stray"}

\* Results the harness writes itself: a rejected approval and a timeout.
Notices == {"rejected", "timeout"}

\* Variants of these definitions, as a plausible bug would write them.
StepKeepsRunning == stage
VerdictOfIdle(i, w) == IF op = "none" /\ i >= IdleTimeout THEN "idle_timeout" ELSE "none"

\* An answer without facts, sources or findings ...
Bare(a) == a \in {"nothing", "prose", "refusal"} \cup Notices

\* ... is filled up from what is stored, whoever fetched it and why ever the
\* answer is bare.
Salvaged(a, n) == Bare(a) /\ n > 0

\* The span of a fact: its source's, or without one a span of itself.
Span(a) == IF a = "sourced" THEN "source" ELSE "itself"

\* What the store binds the claims to: a finding that names nothing known is
\* dropped.
Bound(a, n) ==
  CASE Salvaged(a, n) -> "artifact"
    [] a \in {"cited", "stray"} /\ n > 0 -> "artifact"
    [] a \in {"sourced", "facts"} -> Span(a)
    [] OTHER -> "nothing"

\* When nothing could be bound, the findings stay as the model wrote them,
\* with the ids it made up.
Backing(a, n) ==
  IF Bound(a, n) = "nothing" /\ a \in {"cited", "stray", "invented"}
  THEN "ids" ELSE Bound(a, n)

\* validate_structured_worker_payload: every finding names some id.
Structured(a, n) == Backing(a, n) # "nothing"

\* The payload's ok: a forbidden tool spoils it.
PayloadOk(a, n) == a # "stray" /\ Structured(a, n)

\* validate_step: a timeout fails whatever was salvaged.
Valid(a, n) == a # "timeout" /\ PayloadOk(a, n)

\* JSON_ONLY_FAIL_REASONS: the next execution must not search again; a
\* timeout and the error code of a reported failure are not among them.
RestateOnly(a) == a \notin {"timeout", "refusal"}

\* worker_retrieval_budget of one execution.
ToolsLeft == IF jsonOnly THEN 0 ELSE ToolCap - used

-----------------------------------------------------------------------------
Entry == IF Gated THEN "gate" ELSE "agent"

Active == stage \in {"gate", "agent", "interrupt", "judging", "remembering"}
Timed == stage \in {"gate", "agent", "interrupt"}

DirectInit ==
  /\ worker = "ready" /\ why = "none" /\ stepLease = "none"
  /\ stage = "none" /\ op = "none"
  /\ provider = 0 /\ retry = 0 /\ shape = 0 /\ jsonOnly = FALSE
  /\ rounds = 0 /\ used = 0 /\ artifacts = 0 /\ ran = FALSE /\ answer = "nothing"
  /\ spent = 0 /\ waited = 0 /\ before = 0 /\ wall = 0 /\ idle = 0 /\ changed = FALSE
  /\ passed = FALSE /\ registered = FALSE /\ outcome = "none" /\ done = FALSE /\ forced = FALSE

\* A fresh execution of the step: approval first when the step is gated.
Execute(r, s, j) ==
  /\ stage' = Entry /\ op' = "none" /\ retry' = r /\ shape' = s /\ jsonOnly' = j
  /\ rounds' = 0 /\ used' = 0 /\ spent' = 0 /\ waited' = 0

\* The watchdog's clocks start anew with every task it creates.
Watch == wall' = 0 /\ idle' = 0 /\ changed' = TRUE

\* The worker ends: its lease goes back whatever happened.
EndWorker(o) ==
  /\ worker' = "ended" /\ outcome' = o
  /\ stepLease' = IF stepLease = "held" THEN "returned" ELSE stepLease

\* The budget grants a lease and the step's task starts.
BeginStep ==
  /\ worker = "ready"
  /\ worker' = "running" /\ stepLease' = "held"
  /\ Execute(0, 0, FALSE) /\ Watch
  /\ UNCHANGED <<why, provider, artifacts, ran, answer, before, results>>

\* No lease: the worker is blocked and research is wound up.
Blocked ==
  /\ worker = "ready"
  /\ EndWorker("blocked") /\ forced' = TRUE
  /\ UNCHANGED <<why, stage, op, tries, artifacts, ran, answer, clock, passed, registered, done>>

-----------------------------------------------------------------------------
(* The step's task. *)

\* An approval and an edit let the step go on, a rejection skips the execution.
ApplyDecision(rejected) ==
  IF rejected THEN stage' = "judging" /\ answer' = "rejected"
              ELSE stage' = "agent" /\ UNCHANGED answer

\* The user answers the step's approval.
DecideGate ==
  /\ stage = "gate"
  /\ \E rejected \in BOOLEAN : ApplyDecision(rejected)
  /\ waited' = 0 /\ changed' = TRUE
  /\ UNCHANGED <<worker, why, stepLease, op, tries, artifacts, ran, spent, before,
                 wall, idle, results>>

\* Nobody answers: the gate counts as rejected, an interrupt inside the
\* agent raises the TimeoutError that wait_for's caller takes for its own.
ApprovalExpires ==
  /\ stage \in {"gate", "interrupt"} /\ waited >= HitlTimeout
  /\ stage' = "judging" /\ waited' = 0 /\ changed' = TRUE
  /\ answer' = IF stage = "gate" THEN "rejected" ELSE "timeout"
  /\ UNCHANGED <<worker, why, stepLease, op, tries, artifacts, ran, spent, before,
                 wall, idle, results>>

\* The agent asks the model.
StepCallsModel ==
  /\ stage = "agent" /\ op = "none" /\ rounds < MaxRounds
  /\ op' = "model" /\ rounds' = rounds + 1 /\ ran' = TRUE
  /\ UNCHANGED <<worker, why, stepLease, stage, provider, retry, shape, jsonOnly,
                 used, artifacts, answer, clock, results>>

\* The model calls a tool, which the retrieval budget may refuse at once.
CallTool ==
  /\ stage = "agent" /\ op = "model"
  /\ IF ToolsLeft > 0 THEN op' = "tool" /\ used' = used + 1
                      ELSE op' = "none" /\ UNCHANGED used
  /\ UNCHANGED <<worker, why, stepLease, stage, provider, retry, shape, jsonOnly,
                 rounds, artifacts, ran, answer, clock, results>>

\* A tool stores what it fetched while it is still in flight.
StoreArtifact ==
  /\ stage = "agent" /\ op = "tool" /\ artifacts < MaxArtifacts
  /\ artifacts' = artifacts + 1 /\ changed' = TRUE
  /\ UNCHANGED <<worker, why, stepLease, stage, op, tries, ran, answer, spent, waited,
                 before, wall, idle, results>>

\* The output contract stores what a search returned, or nothing.
Stored(n) == {n, n + 1} \cap (0..MaxArtifacts)

\* The call returns and its output is put through the contract.
ToolReturns ==
  /\ stage = "agent" /\ op = "tool"
  /\ op' = "none"
  /\ artifacts' \in Stored(artifacts)
  /\ changed' = (changed \/ artifacts' # artifacts)
  /\ UNCHANGED <<worker, why, stepLease, stage, tries, ran, answer, spent, waited, before,
                 wall, idle, results>>

\* A tool of interrupt_on stops the agent until the user decides.
Interrupt ==
  /\ Interrupts /\ stage = "agent" /\ op = "model"
  /\ stage' = "interrupt" /\ op' = "none" /\ waited' = 0 /\ changed' = TRUE
  /\ UNCHANGED <<worker, why, stepLease, tries, artifacts, ran, answer, spent, before,
                 wall, idle, results>>

\* Any decision resumes the agent: it is handed the rejection too.
Resume ==
  /\ stage = "interrupt"
  /\ stage' = "agent" /\ waited' = 0 /\ changed' = TRUE
  /\ UNCHANGED <<worker, why, stepLease, op, tries, artifacts, ran, answer, spent, before,
                 wall, idle, results>>

\* The model's final text.
StepAnswers ==
  /\ stage = "agent" /\ op = "model"
  /\ answer' \in AgentAnswers /\ stage' = "judging" /\ op' = "none" /\ changed' = TRUE
  /\ UNCHANGED <<worker, why, stepLease, tries, artifacts, ran, spent, waited, before,
                 wall, idle, results>>

\* wait_for cancels the execution and the step goes on with a notice.
ExecutionTimesOut ==
  /\ Timed /\ spent >= StepTimeout
  /\ answer' = "timeout" /\ stage' = "judging" /\ op' = "none" /\ changed' = TRUE
  /\ UNCHANGED <<worker, why, stepLease, tries, artifacts, ran, spent, waited, before,
                 wall, idle, results>>

\* An answer that is not structured is asked for once more, as JSON only.
AskForJson ==
  /\ stage = "judging"
  /\ shape = 0 /\ answer # "timeout" /\ ~Structured(answer, artifacts)
  /\ Execute(retry, 1, TRUE) /\ changed' = TRUE
  /\ UNCHANGED <<worker, why, stepLease, provider, artifacts, ran, answer, before,
                 wall, idle, results>>

Settled == shape = 1 \/ answer = "timeout" \/ Structured(answer, artifacts)

\* The compressor may ask the model before the answer is validated.
Compress ==
  /\ stage = "judging" /\ Settled /\ op = "none" /\ op' = "model"
  /\ UNCHANGED <<worker, why, stepLease, stage, tries, artifacts, ran, answer, clock, results>>

\* Mutant of Pass: the step is registered before its result is remembered.
PassRegistered ==
  /\ stage = "judging" /\ Settled /\ Valid(answer, artifacts)
  /\ stage' = "remembering" /\ op' = "none" /\ changed' = TRUE
  /\ passed' = TRUE /\ registered' = TRUE
  /\ UNCHANGED <<worker, why, stepLease, tries, artifacts, ran, answer, spent, waited,
                 before, wall, idle, outcome, done, forced>>
\* The step passes: its result and content are kept, and the step goes on to
\* await the memory, on the watchdog's time.
Pass ==
  /\ stage = "judging" /\ Settled /\ Valid(answer, artifacts)
  /\ stage' = "remembering" /\ op' = "none" /\ passed' = TRUE /\ changed' = TRUE
  /\ UNCHANGED <<worker, why, stepLease, tries, artifacts, ran, answer, spent, waited,
                 before, wall, idle, registered, outcome, done, forced>>

\* The memory has the sources, or wants none of this step: only then is the
\* step registered as completed.
Remembered ==
  /\ stage = "remembering"
  /\ stage' = "passed" /\ registered' = TRUE
  /\ UNCHANGED <<worker, why, stepLease, op, tries, artifacts, ran, answer, clock,
                 passed, outcome, done, forced>>

\* The write raises; no caller knows it from a failure of the provider.
RememberFails ==
  /\ stage = "remembering"
  /\ stage' \in {"permanent", "unknown"}
  /\ UNCHANGED <<worker, why, stepLease, op, tries, artifacts, ran, answer, clock, results>>

\* The step failed its check: recovery leaves a hint and it runs again.
Recover ==
  /\ stage = "judging" /\ Settled /\ ~Valid(answer, artifacts) /\ retry < MaxRetries
  /\ Execute(retry + 1, 0, RestateOnly(answer)) /\ changed' = TRUE
  /\ UNCHANGED <<worker, why, stepLease, provider, artifacts, ran, answer, before,
                 wall, idle, results>>

GiveUp ==
  /\ stage = "judging" /\ Settled /\ ~Valid(answer, artifacts) /\ retry >= MaxRetries
  /\ stage' = "failed" /\ op' = "none" /\ changed' = TRUE
  /\ UNCHANGED <<worker, why, stepLease, tries, artifacts, ran, answer, spent, waited,
                 before, wall, idle, results>>

\* A model call raises: the agent's, or the compressor's while the answer
\* is judged.  The budget may refuse the call, the provider may fail.
Raise ==
  /\ stage \in {"agent", "judging"} /\ op = "model"
  /\ stage' \in {"budget", "transient", "permanent", "unknown"} /\ op' = "none"
  /\ UNCHANGED <<worker, why, stepLease, tries, artifacts, ran, answer, clock, results>>

\* A cancelled task unwinds: the approval it waited for is taken back.
Unwind ==
  /\ stage = "cancelled"
  /\ stage' = "dead" /\ op' = "none"
  /\ UNCHANGED <<worker, why, stepLease, tries, artifacts, ran, answer, clock, results>>

-----------------------------------------------------------------------------
(* The worker. *)

\* Deadlines that are due come before the next poll.
Due == \/ Timed /\ spent >= StepTimeout
       \/ stage \in {"gate", "interrupt"} /\ waited >= HitlTimeout

\* What the watchdog decides from its clocks at a poll.
Verdict(i, w) ==
  IF op = "none" /\ i >= IdleTimeout THEN "idle_timeout"
  ELSE IF w >= WallTimeout THEN "step_timeout" ELSE "none"

\* One poll: a changed signature counts as progress only when nothing is in
\* flight, and is forgotten otherwise.  An expired step is cancelled.
Poll ==
  /\ worker = "running" /\ Active /\ ~Due
  /\ LET i == IF changed /\ op = "none" THEN 0 ELSE idle + 1
         v == Verdict(i, wall + 1)
     IN /\ idle' = IF i > IdleTimeout THEN IdleTimeout ELSE i
        /\ why' = v
        /\ IF v = "none" THEN UNCHANGED <<worker, stage>>
           ELSE worker' = "stopping" /\ stage' = "cancelled"
  /\ wall' = (IF wall > WallTimeout THEN wall ELSE wall + 1) /\ changed' = FALSE
  /\ spent' = IF Timed THEN spent + 1 ELSE spent
  /\ waited' = IF stage \in {"gate", "interrupt"} THEN waited + 1 ELSE waited
  /\ UNCHANGED <<stepLease, op, tries, artifacts, ran, answer, before, results>>

\* The step has unwound: its artifacts are salvaged, its result is dropped.
Stopped ==
  /\ worker = "stopping" /\ stage = "dead"
  /\ EndWorker(why)
  /\ UNCHANGED <<why, stage, op, tries, artifacts, ran, answer, clock,
                 passed, registered, done, forced>>

\* apply_isolated_outcome: the parent's step is done iff the worker's was.
Joined == stage = "passed"

\* The step returned: the parent takes its last result and its verdict.
Returned ==
  /\ worker = "running" /\ stage \in {"passed", "failed"}
  /\ EndWorker(IF stage = "passed" THEN "done" ELSE "worker_failed")
  /\ done' = Joined
  /\ UNCHANGED <<why, stage, op, tries, artifacts, ran, answer, clock, passed, registered, forced>>

\* A transient failure is slept off while the policy grants attempts ...
Backoff ==
  /\ worker = "running" /\ stage = "transient" /\ provider < MaxProvider - 1
  /\ worker' = "backoff" /\ stage' = "none"
  /\ provider' = provider + 1
  /\ UNCHANGED <<why, stepLease, op, retry, shape, jsonOnly, rounds, used, artifacts, ran,
                 answer, clock, results>>

\* ... and the step is started anew, with a whole wall timeout of its own.
Again ==
  /\ worker = "backoff"
  /\ worker' = "running" /\ before' = before + wall
  /\ Execute(0, 0, FALSE) /\ Watch
  /\ UNCHANGED <<why, stepLease, provider, artifacts, ran, answer, results>>

\* The failure of a step that raised: a refused reservation blocks, a known
\* provider failure fails the worker, anything else fails the run.
Raised ==
  /\ worker = "running"
  /\ \/ stage \in {"budget", "permanent", "unknown"}
     \/ stage = "transient" /\ provider >= MaxProvider - 1
  /\ EndWorker(stage)
  /\ forced' = (forced \/ stage = "budget")
  /\ UNCHANGED <<why, stage, op, tries, artifacts, ran, answer, clock, passed, registered, done>>

\* The run's task is cancelled: the step's task is told, not waited for.
CancelStep == IF Active THEN "cancelled" ELSE stage

Cancel ==
  /\ worker \in {"running", "backoff"}
  /\ EndWorker("cancelled") /\ stage' = CancelStep
  /\ UNCHANGED <<why, op, tries, artifacts, ran, answer, clock,
                 passed, registered, done, forced>>

Step ==
  \/ DecideGate \/ ApprovalExpires \/ StepCallsModel \/ CallTool \/ StoreArtifact
  \/ ToolReturns \/ Interrupt \/ Resume \/ StepAnswers \/ ExecutionTimesOut
  \/ AskForJson \/ Compress \/ Pass \/ Remembered \/ RememberFails \/ Recover \/ GiveUp
  \/ Raise \/ Unwind

Worker ==
  \/ BeginStep \/ Blocked \/ Poll \/ Stopped \/ Returned \/ Backoff \/ Again \/ Raised

\* Nothing of the step is left to run.
Gone == stage \in {"none", "passed", "failed", "budget", "transient", "permanent",
                   "unknown", "dead"}

Finished == worker = "ended" /\ Gone /\ UNCHANGED directVars

DirectNext == Step \/ Worker \/ Cancel \/ Finished

\* The event loop keeps polling and delivers cancellations; neither the
\* model, nor a tool, nor the user is assumed to answer.
Fairness ==
  /\ WF_directVars(Worker) /\ WF_directVars(Unwind)
  /\ WF_directVars(ApprovalExpires \/ ExecutionTimesOut)

DirectSpec == DirectInit /\ [][DirectNext]_directVars /\ Fairness
-----------------------------------------------------------------------------
(* Properties. *)

\* A model or tool call starts only while the worker holds its lease: the
\* watchdog awaits the step it cancels, and the worker that is cancelled
\* itself cancels the step before the lease goes back (worker.py finally).
CallsNeedALease ==
  [][op = "none" /\ op' # "none" => stepLease = "held" /\ worker = "running"]_directVars

\* A step is reported done only after an execution of the agent was let
\* through, whatever the approvals, retries and salvaged artifacts, and it was
\* registered as completed.
DoneNeedsARun == done => registered /\ ran

\* What the registry calls completed is reported done unless the run was
\* cancelled: asked again, the run would take the step's result from there.
RegisteredIsReported ==
  registered => passed /\ outcome \in {"none", "done", "cancelled"}

\* A validated result that never was registered was cut off in its memory
\* write, by the watchdog, the memory or a cancellation: it is not tried
\* again, and no later attempt can fail over it.
PassedIsFinal ==
  passed /\ ~registered =>
    outcome \in {"none", "idle_timeout", "step_timeout", "permanent", "unknown", "cancelled"}

\* All attempts together take at most one wall timeout per attempt that the
\* failure policy grants (each provider retry starts a new one).
TimeIsBounded == before + wall <= MaxProvider * WallTimeout

\* What the worker reports is what its step did, and in bounded time.
ReportIsTrue == DoneNeedsARun /\ RegisteredIsReported /\ PassedIsFinal /\ TimeIsBounded

\* The worker ends and its step is gone, however long the model, the tools
\* and the user take: wait_for ends executions and the watchdog the step.
WorkerEnds == <>(worker = "ended" /\ Gone)
=============================================================================
