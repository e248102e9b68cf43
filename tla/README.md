# Verification of the research assistant

This directory holds TLA+ models of the core of the deep-research backend in
`src/app` and of the page that follows its runs, the TLC runs that check them on
small instances, and proofs, checked by TLAPS, that the main safety properties
hold for every value of the constants. `PROJECT.json` indexes it: components,
runs, for every property a mutant of the code that violates it, the source lines
of every definition, hazards and theorems.

Contents: [1 the system](#1-the-system) · [2 the modules](#2-the-modules) ·
[3 the runs](#3-the-runs) · [4 disagreements](#4-where-code-and-documents-disagree) ·
[5 the proofs](#5-the-proofs) · [6 what is left out](#6-what-is-not-modelled-and-why) ·
[7 the plan](#7-the-plan)

## 1. The system

A user posts a question to a session. The API records a run and starts an asyncio
task for it, or hands it to a durable queue whose worker executes it. The question
is split into asks and rewritten as a brief, behind a gate that compares the two.
The task then drives a LangGraph graph: a wave of research workers runs in
parallel, their findings are ingested and judged against the brief, a supervisor
dispatches repair waves or ends research, an answer is written and gated, and the
run ends in success, partial, failed or cancelled. Every model and tool call is
authorised against one budget per run. Events of the run are numbered, journaled
and pushed to the page; its result, files, traces, checkpoints and what is to be
remembered of it are stored apart, and deleted by a cascade.

Two engines share the graph. The first (`legacy`) judges claims per key question
and lets a provider write the report; the second (`answer_contract_v2`) builds the
answer from validated units and renders it without a model.

### Inventory

| Component (under `src/app`) | State | Operations | Interacts with | What makes it correct |
|---|---|---|---|---|
| **Run budget** `agent/harness/run_budget.py`, `usage_tracker.py` | counters of used and reserved tokens, calls, tools; worker leases; reservations; the force-synthesis latch | reserve/release a lease, reserve/commit/fail a call, grant a finalization call, reserve tools, reconcile with the tracker | workers, supervisor, synthesiser, concurrently, under one lock; LangChain callback and model wrapper both settle a call | exact accounting; limits kept up to estimation error; shares for finalization and report survive; latch and lease check agree; nothing reserved for ever |
| **Run API** `api/server.py`, `session_routes.py` | `active_tasks`: thread → task | run, resume, cancel, delete; startup; bootstrap, subscribe | run store, queue, approval coordinator, harness tasks, page | a running task can always be stopped; no task outlives its replacement unnoticed |
| **Run store** `run_store/` | per run: status, approval payload, result | create, mark, complete, fail, interrupt, set/clear approval, recover, delete | written by API, harness, coordinator, startup, each naming a run *or* a session | an ended run stays ended; what was published can be loaded; a clean deletion leaves nothing |
| **Approval coordinator** `agent/harness/hitl.py` | session → future | wait, submit, time out, unregister | API handlers and harness tasks | an accepted decision reaches a waiter; an approval shown is current |
| **Run queue** `run_queue/` | job table | enqueue, claim, complete, fail | API, worker loop, restart | no job runs twice, none starves |
| **Harness run** `agent/harness/loop.py` | the run's phases and outcome; a step's payload | begin, gates, execute and validate a step, persist, fail, be cancelled | all of the above | every run that begins is recorded as ended; a result passes only on what an execution brought |
| **Planning, specs, briefs, routing** `research/intent/`, `brief/`, `planning/`, `routing/` | the brief and the plan | split, ask the model, align, gate, fall back, cap, plan | runner, budget manager | nothing the user asked is lost; one brief governs budget, plan and judgement |
| **Research graph** `research/runtime/graph.py`, `runner.py`, `state.py`, `reducers.py` | `ResearchState`, merged by reducers | eight nodes and their routes | budget, store, workers | legal routes, bounded loops, no lost updates, an outcome that was earned |
| **Control policy, task states** `research/control/`, `domain/task_state.py`, `termination.py` | pure | decide, transition, grade | graph | decisions a route understands; settled tasks |
| **Dispatch admission, task identity** `runtime/admission.py`, `task_identity.py` | fingerprints | admit, name | supervisor node, budget | no request worked on twice |
| **Worker execution** `research/execution/worker_executor.py`, `runtime/worker.py`, `step_budget.py` | per worker: lease, calls, tools, artifacts | retrieve, finalize, salvage, retry, time out | budget leases, tools | a stopped worker keeps what it found; charges are never lost |
| **Result ingestion** `runtime/ingestion.py`, `claims/` | evidence, claims, conflicts, support edges, processed ids | ingest, reconcile | workers and the ingest node, both | idempotent, nothing lost, conflicts found |
| **Coverage judge, supervisor** `coverage/`, `supervisor/`, `control/gap_precheck.py` | judgement, gaps, fingerprints | judge, choose, override, stop | graph, claims | sufficiency is earned; the end of research says why |
| **Synthesis, quality, delivery** `synthesis_executor.py`, `quality/`, `domain/completion*.py`, `delivery/` | text, contract, verdict, units | pack, write, retry, recover, rescue, gate, repair | graph, budget | only a grounded answer is a success; what can be answered is delivered |
| **Observability** `observability/` | event sequence, journal, projections | number, journal, push, replay | everything | every event of a run is shown once |
| **Frontend hook** `src/frontend/src/hooks` | socket, position, events seen | bootstrap, subscribe, post, fetch, merge | event stream | the page catches up after every loss |
| **Memory** `agent/memory/` | records with versions, ledger, jobs | load, decide, commit, consolidate, forget | post-run tasks, API, deletion | nothing lost, nothing resurrected |
| **Checkpoints** `runtime/checkpointer.py` | LangGraph checkpoints | save, delete | graph, deletion | they go with the run |
| **Retrieval tools** `tools/` | artifacts | search, fetch, batch | workers | what is charged is what is done |

### What is hard here

* *One event loop, many suspension points.* Handlers, harness tasks and the
  approval wait interleave at every `await`; several of them write to "the latest
  run of the session" rather than to the run they belong to.
* *One budget, many callers, two settlers.* A call is settled by the callback, by
  the wrapper, or by its worker's release, in an order nobody chooses; tool calls of
  a worker run in threads that outlive its timeout.
* *Fan-out and merge.* Workers start from one snapshot; what survives is what the
  reducers keep.
* *Several selections of the same things.* Validator, coverage count, renderer and
  completion contract each select units; judge, recovery and gate each read claims.
* *Loops with unrelated counters*: brief and gate, repair waves, judge and
  supervisor, synthesis and quality, provider retries and watchdog.
* *Crash, restart, deletion.* The store, the jobs and the memory survive; tasks,
  futures, threads' results and a half-done cascade do not.
* *Losses between backend and page.* Sockets break amid a replay, answers of a
  fetch are lost or late, a bootstrap is not one read.

The full list, with lines, is `hazards` in `PROJECT.json`.

## 2. The modules

| Module | Models | Extends / uses |
|---|---|---|
| `TokenSums` | sums over finite sets, as cardinalities | – |
| `RunBudget` | the budget of a run with the code paths that settle a call | `TokenSums` |
| `RunLifecycle` | the runs of a session: API, store, approvals, queue, tasks, restart | – |
| `TaskLifecycle` | abstract: what a run promises of its tasks and its outcome | – |
| `ResearchGraph` | one run through the graph: nodes, routes, reducers, task table, outcome | implements `TaskLifecycle` |
| `RunStart` | from the query to the first wave: asks, brief, model, gate, fallback, plan | – |
| `ResearchCoverage` | the judge and the supervisor over the claims of every wave (first engine) | – |
| `ResearchRun` | the composition of the two: the brief that was accepted is the one judged by | `RunStart`, `ResearchCoverage` |
| `WorkerExecution` | workers of a wave: lease, tools in threads, soft finalization, timeouts, salvage | – |
| `DirectStep` | one step under the activity watchdog: approvals, retries, validation, cancellation | – |
| `Ingestion` | worker rows, the reducers, and the ledger of evidence, claims and conflicts | – |
| `AnswerUnits` | second engine: candidates, validation, merge, coverage, report, outcome | – |
| `AnswerDelivery` | first engine: pack, provider, retry, recovery, rescue, gate, repair, outcome | – |
| `EventStream` | numbering, journal, socket, replay, bootstrap and the page's view | – |
| `MemoryStore` | records, versions, merging, consolidation jobs, requests to forget | – |
| `RunStorage` | row, files, traces, checkpoints; publication; the deletion cascade; crashes | `MemoryStore` |
| `RunBudgetProofs`, `RunLifecycleProofs`, `ResearchGraphProofs`, `ResearchRunProofs`, `WorkerExecutionProofs`, `EventStreamProofs`, `RunStorageProofs`, `AnswerDeliveryProofs` | proofs | the module they name; `WorkerExecutionProofs` also `DirectStep` and `Ingestion`, `AnswerDeliveryProofs` also `AnswerUnits` |
| `MC…` | instances for TLC | the module they name |

Mutated operators, each marked as a mutant of the definition beside it, are used
by no specification.

**RunBudget.** A method of `RunBudgetManager` holds the manager's lock, so it is one
action. A denied request changes nothing and is a disabled action. A call goes
`idle → sent → ended | failed → done`: its reservation is made by the wrapper or,
failing that, by the callback; `Answer` and the two callback actions may settle it;
`Unwind` is the wrapper's return, which settles it only if its context still names
the reservation (`held`). Sums over leases are written as cardinalities
(`TokenSums`), so that they can be reasoned about without induction over an
operator. `clock` stands for time: research time, then only the synthesis reserve.
`PriorUsage` is what earlier runs of the session left in the tracker; only the
direct runtime reconciles from it (`SyncsUsage`).

**RunLifecycle.** An action is the code between two suspension points of the event
loop. `status` and `payload` are columns of the runs table; `activeTask` the
registry; `waiter` and `decided` the coordinator's future and its result; `job` and
`worker` the queue. The store's operations are separate operators because most
actions end in one of them, and because what they do *not* check is the point.
`Restart` forgets everything but the store and the jobs. `cancel` distinguishes a
cancellation that `cancel_task` repeats after a second from one that is sent once,
because a worker may swallow a cancellation while it collects a timed-out task
(`SwallowCancel`). A task cancelled before its first step never enters the harness,
so its run stays `cancelling` until a restart; `EverythingEnds` asks an end in the
record of those only that began.

**TaskLifecycle and ResearchGraph.** An action of `ResearchGraph` is one node; the
workers of a wave return one by one and `FanIn` ends the superstep, merging their
updates key by key as the reducers do. `Enter` is `transition_update` with its phase
table: an illegal step goes to the node `raised`. What a model, judge or worker
answers is an arbitrary choice among the shapes the code can return. A task is
`<<wave, gap>>`, because `execution_task_id` is made of the wave and the
fingerprint. Three modes are modelled (the atomic fast path and the two engines),
since each has its own repair limit, synthesis and gate. The supervisor's actions
are the outcomes the runtime can reach: an approved dispatch, which overrides
`decide_control`, and the end of research; the other branches of `decide_control`
need a task state the supervisor node never leaves behind. The plan of a brief that
does not validate is `unsent`: no worker is ever given it, though the supervisor may
dispatch waves of its own. `TaskLifecycle` states the promise without nodes: a task
is admitted once, settles once and never changes again, one that succeeded leaves
evidence, the run ends once nobody is waited for. `Lifecycle` in `ResearchGraph`
instantiates it over the task table, and `KeepsTaskLifecycle` is the refinement,
checked by TLC and proved.

**RunStart.** A query is a sequence of clauses of one line: a clause has the form the
splitter tells apart (a question; a rider or a scrap, which are merged into the ask
before them; a format, which is dropped; a question mark that stands alone) and the
words by which kinds, topic and freshness are told. `Parts` is the split, `Kind` the
classifier's order, `Intent` the other order in which one intent is projected from all
asks, and `TermsOf` what that intent requires of evidence and answer: `Floor` for a fact
or a recommendation that nothing outranks. An ask is whether it has any words left
without its punctuation and whether it names a subject; one without words gets no
question (`InWords`). A question of the model is the ask it overlaps most and whether it
keeps the subject. `AskModel`, `Answered` and
`FallBack` are the loop of `compile_structured_brief_with_llm` with its gate;
`Candidate` is the merge of the model's fields with the user's floor and the
alignment; `EnterGraph` the fast path's cap on the budget manager, before the graph;
`PlanFirstWave` and `Send` the brief node, its plan and the validation.

**ResearchCoverage and ResearchRun.** A claim is what it says and cites; a row adds
the task and wave that brought it, since a claim's id contains its task. `Missing`,
`Status`, `GapQuestions` and `Sufficient` follow `judge_coverage`; `Progress` is the
comparison with the last judgement; `RepairTasks` the fallback's two most urgent
gaps; `ModelActions`, `Resolved` and `Decided` what a model may ask for and what the
runtime makes of it; `Dispatch` and `EndResearch` the supervisor node with precheck,
repair limit, fingerprints, admission and `decide_control`. `Dispatch` identifies a task with its question, so two
gaps requested for one question are one task; the code gives each its id and
both bring rows for that question. `ResearchGraph` has the
same loop with an arbitrary judgement; here it is computed. `ResearchRun` lets the
first wave start from whatever brief `RunStart` accepted, so that a property can
relate the user's query to the judgement of evidence two waves later. `wanted` remembers
what the query itself calls for, for the properties. Followed into the waves are the
plans with as many questions as the instance has, and not the fast path's lookup, whose
judgement `node_coverage_judge` replaces by a policy of its own (`Followed`).
`Handed` passes on what `judge_coverage` reads of the brief: the sources required, primary
and fresh evidence, and whether an ask was lost.

**WorkerExecution.** `pc` is where a worker's coroutine is, `thread` what each tool
call of its message does in its own thread: check, authorise with the run, charge,
fetch, store, hand back. These are separate steps because the code takes no lock
around them. Threads go on when the coroutine has timed out. `Arms` is the condition
of soft finalization, evaluated before and after every call; `Salvage` gathers what a
worker stored under its name when it fails; `StepArtifacts` keeps the code's
`step_index or -1`. An answer is empty, `bare` (findings that name no evidence: they keep
the artifacts from being salvaged and are bound to nothing), `loose` (facts, or names of
its own making) or `valid` (`Evidence`); a worker may therefore fail beside
artifacts of its own if its answer was bare, which is what `WorkIsKept` exempts.

`Interruptible` are the places of a coroutine that the timeout around its leaf may end,
`ResultOf` the result it leaves, made in one place however it ends.

**DirectStep.** The LangChain worker runtime polls the task of one step (`Poll`,
with `Verdict` for the idle and the wall timeout), cancels it, retries a provider
error with a new clock, and returns what the isolated state holds. The step's task
passes the approval gate, runs the agent, may be interrupted for a tool's approval,
has its answer bound to evidence and validated, is asked once for JSON and retried.
`ApplyDecision` is `_apply_hitl_decisions`: only a rejection keeps the agent from
running. A result that passes (`Pass`) is kept in the state and is then awaited into the
memory, on the watchdog's time; only after that is the step registered (`Remembered`). A
timeout, a cancellation or a failure of the memory (`RememberFails`) may come between, so
what `ReportIsTrue` promises is promised of what is registered.
At this commit `compile_research_graph` binds the placeholder `vanilla_agent_node`
of `graph.py:559` in the direct mode and not `ResearchGraphRunner.node_vanilla_agent`,
so this runtime is reached by tests only; the single-step loop is the harness's own.

**Ingestion.** `channels` is the part of the graph state that ingestion writes, one
field per channel, and `Merge` is its reducers; `Fold`, a recursive function, applies
them in dispatch order. A worker computes its update from the channels of the dispatch
(`WorkerReturns`), long before its siblings' updates reach them in `FanIn`.
`IngestFindings` runs the same operator over the rows that are not processed yet;
there are none. A report is what admission leaves of a payload, and is arbitrary: the
evidence it admits (`Admitted`), the claims whose references were resolved
(`References`) and whether its task failed. A task may count as failed only when it
owns none of what it found (`MayFail`), because that is what the node looks at.
`Owners` and `SupportEdges` leave open which of several rows or claims with one
evidence id gets the record or the edge. All statements are values of one metric of one
subject and period, so any two different ones disagree. `MergeRecords` keys support
edges by evidence, because `merge_records` looks for `evidence_id` before `edge_id` and
an edge carries both. `CoverageJudge` returns the value signal it read, and the reducer
adds it to itself; `LowValueMeansNoAuthority` states the consequence.

**AnswerUnits.** A candidate unit names an entity and rests on claims of its own
task; `Bound` is the validator. The channel of units is a sequence; what the code
filters, cuts and drops from it is stated as a set of *places* in it: `ValidUnits`,
the first of them (`FirstOf`, by `Rank`), those that name an entity first
(`FirstOfEntity`). `MergeUnits` replaces a unit whose id is known where it stands and
appends the others in order; `FanIn` folds the updates in every order (`FoldUpdates`).
`Counted` is the coverage count and the completion contract; `Rendered` the renderer,
which cuts before it drops repeated entities. `CitationVerdicts` and `SourcesPass` are
the citation checks of the gate (`GateAnswer`).

**AnswerDelivery.** A text is what the gates can tell of it: the sources it cites and
lists, whether enough is cited, whether it refuses, whether its prose is flawed.
`PrepareSynthesis` packs claims within a room, `ProviderAnswers` and `ProviderFails`
are the call, `CompactRetry` the second one, `SettleSynthesis` composes, recovers or
rescues the text and its contract, `QualityGate` judges it and `RouteAfterQuality`
sends it back or on. The pack and the provider's answer are locals of the node and end
with it; a repair pass starts without the text and the contract of the last one, which
the node replaces unread (its issues only reach the prompt). `Registered` are the sources that have a number: workers register the
sources of a step before any of it is admitted, and ingestion registers every record, so
beside the ledger there are strays, and nothing is registered only when there is
neither. `ValidCitations` accepts the number of each of them.

**EventStream.** `TakeNumber`, `Emit` and `Push` are separate because threads number,
journal and push without a common lock; `socket` is what the server still owes a
subscriber, `wire` what is on its way, `page` the client's position and what it has
seen, `view` how often each event is shown. `spoilt` marks the histories with one of
the holes that a position in a sequence cannot express; they are listed in section 4.

**MemoryStore and RunStorage.** A write loads records, waits, and commits later under
the versions it read (`Load`, `Commit`); a consolidation reads outside the transaction
it writes in (`Survey`, `WriteBack`). `RunStorage` adds the run: it persists before it
publishes (`Deliver`), ends, fails or is cancelled, and is deleted by a cascade whose
memory steps are awaited one by one while tasks and other threads go on; `Crash`
loses them all. `RecordSources` gives the row of a known source to its last user, and
`Persist` only logs what the store raises. `spoiled` and `raced` mark the cases in which the code gives no
guarantee: a deletion of a run that was still at work, a record that changed while a
thread held a copy.

## 3. The runs

Every run passes: TLC explores the whole instance and finds no violation.

| Run | Question | Instance | States |
|---|---|---|---|
| `budget_accounting` | is the accounting exact and are limits and shares kept, in every order of settlement? | 2 workers, 3 calls of 4 or 7 tokens, limit 11, 2 calls, overrun 1, a lease of 6, the fast path | 1.3 M |
| `budget_latch` | do latch and lease check agree through tokens, calls, tools, time and reconciliation, and is every reservation settled? | 1 worker, 2 calls, waves and tool batches, usage of an earlier run | 719 k |
| `lifecycle` | can tasks be stopped, do approvals and records stay true, do runs and jobs end? | 2 runs, 1 approval, 1 restart, 1 deletion | 301 k |
| `graph` | legal routes, bounded loops, the abstract task life, an earned outcome, termination | 3 modes, 2 gaps, up to 2 repair waves | 255 k |
| `research` | is what was asked planned, is the brief what is judged by, is sufficiency earned, do repairs end? | every query of ≤ 3 clauses out of 9, at most 3 questions, 2 followed into the waves, 2 answers of the model, 3 claims over 2 records, 1 contradiction, up to 1 repair | 617 k |
| `ingestion` | is each row ingested once, and does the ledger keep what was admitted? | 3 tasks, 3 waves, 2 sources (1 authoritative), 2 statements, failed and successful rows, both engines | 1.4 M |
| `worker` | are calls accounted for, is what was found kept, does every worker end? | 3 engines, 2 tool calls in parallel threads per message, limits 1–5 | 924 k |
| `direct` | does no call lack a lease, is the report true and in time, does the worker end? | 1 retry, 2 provider attempts, timeouts of 1–3 polls, gated and interrupted | 472 k |
| `answers` | is the second engine's answer honest, and does repair only add? | a recommendation of 2 and an explanation of 1, 2 entities, 2 sources, 2 waves | 1.9 M |
| `delivery` | is a success earned, is what can be answered delivered, does the run end? | 2 questions, 4 claims, 2 records, 1 source beside them, 6 kinds of report, 2 of failure | 291 k |
| `events` | is every event shown once, and does the page catch up? | 2 runs, 2 events in all, 1 fault, 1 message on the wire | 783 k |
| `stores` | is a clean deletion complete, is a published result stored, is memory kept? | 2 runs (one with a memory task left), 3 batches of facts, 1 job, 1 request, 1 crash | 1.1 M |

The type invariant of a module is a conjunct of the first invariant of its run; those of
`RunBudget` and `ResearchGraph` are theorems of their own besides.

**Why the bounds suffice.**
*Budget*: interference needs two workers and a call each, and a third call made
outside of them; with limit 11 and estimates 4 and 7 the last tokens, the last call
and the worker's finalization share are all contended, 7 is more than a lease of 6
allows, and the overrun makes actual and estimated usage differ. The proofs remove
the bounds for the main properties.
*Lifecycle*: every property relates a run to at most one other run of the session
(the one it replaced, or the "latest"); a second restart or deletion meets the same
states again.
*Graph*: the code admits at most two repair waves (none on the fast path, one in the
first engine, two in the second), so `MaxRepairs = 2` is the real maximum, and two
gaps give waves of one and of two workers; the proofs cover any number.
*Research*: a third clause lets a delivery instruction, a merged clause and an ask
meet; the nine clauses have every form and, between them, the ranks of intent that what is
required of evidence tells apart, and a fourth clause would only add another ask of a form that is there; with three questions at
most the cut is reached from the model's side, whose questions come before the asks it
left out. Plans with two questions are followed into the waves; whatever the query was, of
its brief they see the floor, the freshness, the number of sources and a lost ask, which
they get in all the combinations a brief can have. Two questions are the fewest of which
one can be covered and one not, and the code repairs the two most urgent (it allows 8
questions). One source is a record, whose claim answers both questions; the other has a claim for each, and its claim on the second
names a mechanism and contradicts the record's, so that each clause of the judgement
fails alone. `AskedIsPlanned` asks four in five of the asks to keep their
subject, as the gate does; with three that is all.
*Ingestion*: a record can be contended by two siblings and met again by a third task
in a later wave; two statements make a conflict inside a worker, between siblings and
between waves; the signal matters as zero or not, so `MaxSignal = 2` keeps its sum
apart from its parts.
*Worker*: two parallel tool calls are the fewest that race for the last unit; search,
fetch and batch are charged differently and each limit is reached.
*Direct*: one poll more than the idle timeout and one more than the step's make each
watchdog fire first in some behaviour; one retry is the code's default.
*Answers*: two entities and a target of two give the duplicate that is dropped and the
unit that is cut; a third wave (the code's limit) repeats the merge of the second.
*Delivery*: `NormalRoom`, `CompactRoom` and the two caps are chosen so that the pack
drops a claim, and drops another one on the retry; the judgement is any, a superset
of what the judge returns. One stray source is enough to be cited instead of, beside or
without the two records, and to be there when nothing was admitted.
*Events*: with a window of one a second event must wait, so live, replay and fetch
overlap; one fault at any place (break, reload, lost answer, backend death) is
followed by a full recovery, and the next would start from the same states.
*Stores*: an earlier run's memory task, the new run's, one consolidation and one
request are the four writers the code has; a crash may come between any two steps.

`CHECK_DEADLOCK FALSE` is set where the system really may stop: a run has ended, a
session stays idle, a budget is used up, the page has caught up, a worker is done.
`delivery`, `direct` and `research` check for deadlock; their specifications say when
they have finished and then stutter.

**Fairness.** It is stated per actor the code schedules, and none is assumed of users,
models, faults or crashes.

* *Budget*: the executor's `finally` releases the lease, the wrapper unwinds, and a
  call outside the workers is answered or fails by the client's timeout. Nothing is
  assumed of a provider called by a worker; that release settles such a call is the
  point of `ReservationsDrain`.
* *Lifecycle*: the event loop runs what is ready, `asyncio.wait_for` ends an approval
  wait, the run's time limit ends its work, and the queue's worker loop goes on.
* *Graph*, *delivery*: weak fairness of the next step, since the driver awaits node
  after node and every call of a node has a timeout.
* *Research*: weak fairness of the steps the driver takes by itself — the start's next
  step, the first wave, research — and of their disjunction only; the brief's model need
  not answer, and the user need not cancel.
* *Worker*: each coroutine and each tool thread goes on; a model need not answer, for
  `asyncio.wait_for` puts an end to it.
* *Direct*: the polling worker, the cancelled step's unwinding, and the two timers
  (approval, execution); not the model, the tools or the user.
* *Events*: the emitting threads, the page's reconnection timer, the subscription,
  the replay, the delivery of what is on the wire, and the answers of the API; not
  drops, which are bounded by `MaxFaults`.

**Mutants.** Every property has one (`mutants` in `PROJECT.json`): a plausible bug in a
mapped definition — a dropped guard, a forgotten reset, the wrong operand — which TLC
rejects through that property. The mutated operators stand beside the ones they
replace and are used nowhere else.

## 4. Where code and documents disagree

What modelling met; none of these is a property of a run. Where the models have the
behaviour, they follow the code.

**Budget, API, queue, graph**
* `docs/ARCHITECTURE.md:132` says the run ceiling "is never exceeded": usage is charged
  as reported; the overshoot is bounded by the estimation error of the calls made,
  which is proved (`OvershootBounded`).
* `docs/ARCHITECTURE.md:120`: initial research "cannot borrow" the reserves; a worker's
  `finalize` call is checked against the run only.
* `cancel_task` (`server.py:302`) marks the latest run `cancelling` and only then answers
  404 (`:318`), though an ended status is terminal (`run_store/models.py:36`).
* `run_queue/service.py:8` describes claim, execute, complete; the `running` job of a
  dead worker is never claimed again, and nothing reads the heartbeat.
* `docs/DEEP_RESEARCH_QUALITY_CONTRACT_V3.md:7` asks a success to pass the quality gate;
  the outcome is the completion contract's alone. It also speaks of one report-only
  retry where up to three attempts happen.
* An approved dispatch overrides a cancellation (`runner.py:1217`); `graph.py:168` says
  the supervisor cannot dispatch an invalid plan, and its runtime version does not look
  at `plan_validation`; `supervisor/agent.py:291` may be `COMPLETE` with a gap;
  `ARCHITECTURE.md:208` calls exhaustion with evidence partial, and it is a failure when
  no ask is answerable; the event `control.decided` may say `repair_synthesis` for a
  report that passed.

**Start and brief**
* `_merge_llm_brief` says a model may "never silently weaken" the user's floor: a field
  left out of its JSON takes the schema's default, so the number of independent sources
  can fall to one, and fresh evidence is called for only if the model says so; only
  `primary_required` is protected (`FloorReachesEvidence`).
* `fidelity.py:3` says the gate fails closed; a changed time scope never fails it, a
  changed subject only below 0.8, and the fallback is not put through it.
* `compiler.py:160` says that the deterministic brief "keeps each ask verbatim inside its
  research question". A query that ends in two question marks has a second ask, the mark,
  required as every ask is (`user_ask.py:148`); its text is empty once the punctuation is
  stripped, so it gets no question (`compiler.py:116`, `:257`). Nothing is lost to the
  user; but coverage looks for an answer to every required ask (`judge.py:787`) and is
  never sufficient. `AskedIsPlanned` is about the asks that have words.
* A recommendation needs "original or independently corroborated support"
  (`compiler.py:132`). Beside a forecast, a comparison, a report or a conflict the
  projected intent is another one (`:90`), no original source is called for, and the number
  of sources is the model's to choose (`:284`): one generic source can be enough.
  `FloorReachesEvidence` is about the intents that call for a floor.
* Asks beyond the eighth are lost in the first engine; a query that opens with a format
  name of at most 30 characters loses it as a delivery instruction; asks separated only
  by line breaks are several in `user_asks` and one in `answer_spec`; a comparison keeps
  two subjects.
* `execute` binds the session before it compiles the brief and outside the `try`: a
  compile that is cancelled leaves the session bound. On resume the brief is compiled
  again; its result is discarded while its tool cap applies.
* The validation of a plan cannot fail for the plans this code builds.

**Workers and the direct step**
* `salvage_payload_from_artifacts` (`orchestration.py:711`) looks for `step_index or -1`:
  step 0, or a worker with no artifacts, receives the last twelve of all workers.
* The step's `consume_…_or_block` check, reserve and increment without a lock, and
  artifact ids may repeat across the threads of a batch, whose context has a store of its
  own; a failed search counts as evidence; `run_tool_remaining or 10_000` reads an
  exhausted run as an unlimited one.
* "Retries share one deadline" (`worker.py`), but each provider retry starts a new clock;
  the idle watchdog does not see progress while an operation is in flight, so a long call
  is stopped right after it returns; an approval wait of 600 s is always cut by a timeout
  of 120 or 180 s.
* A rejected step is retried and asked for again, and passes its check when earlier
  artifacts can be salvaged (`hitl_rejected` is checked nowhere).
* `orchestration.py:245` speaks of evidence-backed findings: facts without a source become
  spans of themselves. Findings that name no evidence are kept by the parser
  (`orchestration.py:570`) and bound to nothing (`evidence_store.py:306`), and since there are findings
  the artifacts are not salvaged (`:699`): the worker fails beside the pages it fetched.
* A validated result that is awaited into the memory (`loop.py:757`) may still be timed
  out, and is then reported as `step_timeout` although it stands in `step_results`; a memory that
  raises is taken for a failure of the provider.
* `session_left if session_left else step_cap` grants a full cap when the session's
  budget is used up.

**Evidence, judgement, answers**
* `claims/reconcile.py:76`: "Global fan-in conflict detection across workers". Two workers
  of one wave are never compared, at the fan-in or later.
* `merge_records` keys support edges by evidence, so that of two claims with one source one
  loses its edge; a valid unit may then be rendered uncited.
* The value signal is added to itself by its reducer.
* The two most urgent gaps are chosen before fingerprints are filtered: a third gap can
  stay untouched though repairs remain. A conflict between two claims can never be
  resolved, so a repair wave for it cannot close it. A claim found again has a new id and
  counts as progress. The precheck's actions never match the names the supervisor tests.
* `unit_renderer.py:60` cuts before it drops repetitions while coverage and completion count
  after, so a success may deliver fewer units than asked for
  (`docs/refactor_v7/migration.md:5`). With no registered source `validate_citations`
  passes everything; the number given to a record no source is bound to is counted on from the
  bound records' and may be that of a registered source (`runner.py:201`), so a text then names
  either.
* Citation validation is to stay on "the same evidence-ledger-derived numbering"
  (`runner.py:2391`, and `citations.py:942` says the numbers come from the ledger).
  `validate_citations` accepts in addition the number of every source a worker registered,
  admitted or not (`citations.py:944`, `worker_executor.py:336`): a report may succeed on
  citations its pack never showed, and `SuccessIsEarned` asks registered sources of it.
* In the first engine a repair may replace a text whose contract passed; a partial text
  carries no citations and is repaired until the attempts are used up; it may carry
  citations of sources that do not exist. `quality["passed"]` is read and never set.

**Stores and events**
* Persist before publish (`loop.py:2416`): an error of the store is logged and the result
  published; a failure afterwards overwrites it by the empty text.
* A cascade that fails after the row is gone leaves traces and checkpoints, and a retry is
  answered 404. `session_routes.py:129` promises the deletion of derived memory; a merged
  fact survives under the provenance of another run, and a stale copy can bring a deleted
  record back, since a deletion does not change its version.
* `memory/jobs.py:5` claims that jobs are resumed after a crash; running jobs are not.
* The bootstrap (`session_routes.py:175`) reads the events and then the position, so an
  event between is shown by nobody (`docs/OBSERVABILITY.md:116`). A socket that drops in
  mid-replay after a live event, journaling out of order, a lost fetch answer, and a late
  one for another run each leave a hole or a stray event. `RUN_FAILED` read by a fetch does
  not end "running"; `task_cancelled` and `error` name no run and end the newer one's.

## 5. The proofs

TLAPS checks every proof to its leaves. The constants are arbitrary up to the named
`ASSUME`s of the modules: limits are positive because `from_config` replaces missing
ones, identifiers are finite sets, a batch of facts has one or two. `PROJECT.json`
lists the theorems with the property each states. Every invariant and every action
property of the passing runs is proved; the runs' liveness is not.

Each invariant was found inductive by TLC on its run's instance before it was proved.
Three modules compute by recursion. `Parts` (the clauses of a query), `Fold` and
`FoldUpdates` (fan-ins) use recursive functions, so that a theorem can speak of them:
the proofs first show that the function exists with the equations it is defined by
(`TakingExists`, `FoldExists`, `FoldOfUpdates`), and then reason by induction over the
number of clauses or updates. Induction is `SetInduction`: a set that has 0
and with each number the next one has all of them, since otherwise a least number, which
the well-foundedness of the natural numbers provides, were missing. `TokenSums` avoids
recursion, as sums are cardinalities.

**RunBudgetProofs.** `TypeCorrect` is inductive by itself. The others are not: that
the call limit holds needs to know that `reservedLlmCalls` *is* the number of
reservations, and the bound on the overshoot that reserved tokens *are* the sum of the
estimates held. So `IInv == TypeOK /\ Accounts /\ Bounds`, where `Accounts` states each
counter as a sum over the reservation dict, by task, and that a reservation under a
task implies its active lease. Every action is one of three effects — a call reserved
(`ReserveHolds`), one popped (`PopHolds`), a lease released with all it held
(`ReleaseLeaseEffect`) — or leaves the dict alone (`QuietEffect`); the lemmas on sums
at the head of the module (one more, one less, one changed, disjoint union) do the
arithmetic.
`ReservationsExact` follows for either runtime, whether it reconciles from the tracker
or not; `CallLimitHolds`, `OvershootBounded` and both together (`RunLimitsHold`) for the
one that does not (`~SyncsUsage`, a hypothesis in the property): reconciliation takes
over whatever the session has used. `ForcedEndsInitialResearch` needs another
strengthening (`ReasonHolds`): the latch is set only for a reason that stays true —
usage, calls and tools never decrease, a limit is only lowered, time does not return —
and each reason denies a lease by itself.

The second half of the module is about *which* call is charged to *whom*. Each
action is classified once as `Quiet`, `Reserves(c)`, `Settles(c, charge)` or a release;
`CInv` adds to `IInv` what they need: a call that is not settled has charged nothing
and is in nobody's ledger (`Uncharged`), and what a lease and the run hold is the sum
over its live calls (`HeldInTotal`). `CallsChargedOnce` is that callback and wrapper
together charge a call once, however late either comes. `SharesSurvive` bounds what
workers' calls leave of a lease and of the run by the same `Allowed` relation between
spent, ceiling and the estimation errors of the calls made. `UsageRemembered` (a step
that finds the budget spent leaves the latch set) has the hypothesis that the research
share is not zero; with a share of zero research is closed at once by another rule.

**RunLifecycleProofs.** The store is written by session and by run alike, so the
induction has to know when the session's latest run is the one whose task writes.
`Inductive` adds: a run that was not posted left no trace (`Fresh`); what waits to be
executed was not executed (`StartsOnce`); a task the registry has lost has been
cancelled (`HandleKept`); and, without queue and deletions, the registry's run is the
latest (`DirectRuns`). What an approval shows is true under `Undisturbed`, which is not
closed under the steps that lead to it, since a swallowed cancellation may be made
again; `Calm` is, because a task that was replaced is never cancelled again.

**ResearchGraphProofs.** One invariant, `Inductive`, carries the safety properties. It
adds what each of them lacks: in which phase a node is entered (`PhaseFits`, for
`RoutesAreLegal`); that a judgement belongs to a wave of its own (`WavesCounted`); that
synthesis is entered with an attempt left (`AttemptsCounted`); what an update looks like
while its siblings still run, and that a pending task is still out there (`UpdatesFit`,
`PendingExplained`); that the fingerprints cover every repair task (`RepairsRecorded`,
for `RepairsAreFresh`); and that a passed contract belongs to the last text
(`ContractEarned`, for `OutcomesAreEarned`). `GraphKeepsLifecycle` is the refinement of
`TaskLifecycle`, step by step: every node is an admission, a settlement, the end, or a
stutter.

**ResearchRunProofs.** `StartFits` follows a brief from the model's draft through gate,
fallback and plan and carries the user's floor to where the judge reads it (`Linked`);
that the asks with words keep their questions (`InWordsFacts`, `FallbackGood`,
`AlignedFacts`) is an enumeration of a finite set of places in order.
`CoverFits` is about waves: a question once judged supported still has its sources and
qualities behind it (`SupportKept`), a sufficient judgement ends research at once
(`SufficientEnds`), and there is a judgement before there is a second wave or a
supervisor (`FirstWaveUnjudged`); without these three nothing is known of the judgement
that the next one is compared with. `AsksAreAsks`: whatever clauses the user writes, they
are cut into a sequence of asks; an induction over the clauses, so that the theorems
hold for every set of queries.

**WorkerExecutionProofs.** Threads check, authorise and charge without a lock, so a
counter is not bounded by its limit, and the invariant has to say by how much it may
pass it. `Room` of a thread that has passed its check is the number of the other
threads of its worker that are done with the budget; what it is about to take exceeds
the limit by no more than what these took (`RoomFits`), which every step keeps; `Paths` says which
workers have no thread out and have taken nothing. `WorkFits` is the evidence side: what
is armed, stored, handed over and credited at each point of a coroutine (`WorkOf`).
Together they are `Inductive`; `CallsAccounted` and `NoWorkLost` follow.

The second part of the module is about `DirectStep`. Worker, watchdog and harness each know
only their part, and the invariant joins them. `StepFits`: the step's task runs only under
a running worker, which holds its lease and has reported nothing. `RanFits`: whatever an
execution leaves behind — a call in flight in the agent, a stored artifact, an answer that
is not the harness's own — was let through by the gate. `PassFits`: a validated result
belongs to a step that was let through and is in its memory write, registered, or was cut
off there; only a registered step is reported done, and only a cancellation takes its place. `TimeFits`: this attempt is within its wall timeout, the
earlier ones took at most one timeout for each provider retry, and a back-off counts the
attempt it follows. `ReportIsTrue` follows; `CallsNeedALease` is an action property on the
same invariant.

The third part is about `Ingestion`. A worker's update was computed from channels its
siblings knew too, so it says what it says of *those* channels; the fold applies it to
others. `WaveFits` keeps, until the fan-in, what each waiting update says of its own row
and of the channels of the dispatch, which nobody writes meanwhile, and that its task is
new. `FoldGathers` is the induction over the fold: after any number of updates the
channels have gathered exactly what these brought (`Gathers`), each record with the
worker of one of the rows that found it, and have kept what was there (`Preserves`).
`RowsFit` is the result: the processed ids are the tasks of the rows, each counted once,
so the ingest node finds nothing left to do and cannot disturb the ledger; edges fit the
claims. `ValueFits` says that the signal is zero only while there is no authoritative
evidence, which is what makes `LowValueMeansNoAuthority` survive a wave that adds
nothing. `LedgerStaysWhole` follows. `LedgerOnlyGrows` is an action property on the same
invariant: that the conflicts of a new claim with what was there before its wave are
recorded needs the conflicts of *every* update of the wave, and `VersionsGrow` that each
sibling's version names all the evidence of the dispatch, whichever the fold keeps.

**EventStreamProofs.** That nothing is missing when nothing is on its way says nothing of
the states before. `Reaches` says where a journaled event of the followed run is
meanwhile: shown, on the wire, owed by a replay, or in the answer of a fetch that was or
will be read (`OnItsWay`), or above the number from which the next subscription starts
(`Ahead`), which without a socket must also be above every fetched answer still to be
taken, as taking one moves that number. `LastIsReal` ties it to an event of the run, so
that an event emitted in order is `Ahead` of it. `spoilt` names the ways out, and the
proof shows that there is no other.

**RunStorageProofs.** Three parts. (1) What one write, and a batch of two, makes of a
table and of the copy it was decided on (`WriteFacts`, `CommitFacts`): records of other
runs are never made, records are never unmade, a merged record counts its version up.
(2) `Inductive` for the stores: the course of each run from post to memory task
(`Courses`), each claimed job in one drain (`JobsFit`), and what a deletion has reached
(`Cascades`). The last is the argument of `DeletionIsComplete`: a run at rest is
*touched* only by records selected for deletion, in the table or in any copy, and
`TouchedFades` — whatever others load, merge, consolidate or forget, nothing new becomes
the run's unless its own memory task writes. (3) For `MemoryKept`, copies are never
newer than the table on records that did not race, and a copy of the same version says
the same (`CopiesFit`); a table always has the two slots a batch may need, by counting
records against finished memory tasks (`RoomFits`).

**AnswerDeliveryProofs.** Three things have to be carried from the place that decides them
to the end. That calls stay within attempts (`CallsFit`) depends on where a pass of
synthesis is: a pass makes a second call only when it is not the last one. That the
mechanism of an analytical answer is real (`PackFits`) has to survive the compact retry,
which selects another pack. And the contract that judges the text was written by one of
four hands — the provider's text, recovery, citation rescue, the gate itself — so
`ContractFits` says what it claims of each question whoever wrote it, and `TextFits` which
text can stand beside it: what is confirmed only cites nothing, the deterministic answer
cites admitted records, a report that was not rescued binds to registered sources. `OutcomeFits` is that the outcome is the contract's and that
no later step changes what it was made of. The two assumptions added for the proofs are
`QuestionsAssumption` (`validate_brief` refuses a brief without a key question; without
one an empty answer would pass) and the shape of a report.

The second part of the module is about `AnswerUnits`. `UnitsFit` says that claims, edges
and units of the ledger come from the tasks gathered so far, each unit from a candidate
that passed its validator (`LedgerFits`), and that the tasks in flight are of this wave;
hence no id of theirs is known, and a merge only appends (`MergeAppends`, `WaveMerges`).
That appending never lowers a count, although a count cuts at the target and a
recommendation drops repeated entities, is `CountGrows`: the first places of a longer
sequence that has the shorter one as a prefix include those of the shorter one.
`ReportFits` ties complete asks, report and outcome to the units. For `OutcomeIsHonest`
one has to know that cutting before dropping loses a unit only when an entity repeats
among the first units (`FullIsRendered`), and that as many places can be picked as were
counted (`RanksExist`, `FirstOfEnough`). `AnswersAreHonest` and `AnswersOnlyGrow` follow.
`AsksAssumption` (of `AnswerUnits`) asks the set of asks to be finite, `WavesAssumption` the bounds to be
numbers.

**Only model-checked.**
* Every liveness property (`ReservationsDrain`, `EverythingEnds`, `Terminates`,
  `WorkersEnd` and their like): reasoning about fairness and `ENABLED` is out of the
  prover's reach.
* `~SyncsUsage`: the limits of a runtime that reconciles from the tracker are not
  promised, hence neither checked nor proved.

## 6. What is not modelled, and why

* Queries of several lines: the answer contract's split sees them with the line breaks
  collapsed, so it may have fewer asks than the brief's.
* Runs with citations switched off in the configuration, where neither citation check is
  made.
* Texts: prompts, briefs' prose, reports, wording of citations. A model answers with any
  of the shapes the code tells apart; a criterion of coverage is a flag.
* Seconds: a timeout is a choice, or a count of polls (`DirectStep`); the budget's
  clock has two values.
* Checkpoints: no path resumes from them; they occur only as data that a deletion must
  remove.
* Admission's priority order and token arithmetic (`admit_dispatch`): `ResearchCoverage`
  has its effect, a subset of the tasks, and `RunBudget` its reservations.
* Back-pressure of the event bus, retention and redaction of events, the search cache,
  uploads, listings, configuration, and the view built of an answer for display: I/O or
  formatting that no property tells apart.
* The deletion of a whole session (the cascade of each of its runs, one after the other)
  and the optional memory service Mem0.
* Retrieval tools: a call brings back any artifact; how pages are fetched, split and
  ranked is left out.
* What claim and evidence admission accept: a report is what they leave of a payload.
* Step gates of waves with more than one task: `cancel_reason` has no reducer, and what
  the graph library does when two workers write it is outside the repository.

## 7. The plan

In order of weight.

1. `admit_dispatch` as functions over finite sets, checked against a reference.
2. An abstract record of a run (created, active, ended once) that `RunLifecycle` without
   queue and deletion implements.
3. `build_answer_view`: which claims and references the displayed answer keeps.
