---------------------------- MODULE WorkerExecution ----------------------------
(***************************************************************************)
(* The workers of one wave as WorkerExecutorV2 runs them                   *)
(* (app/research/execution/worker_executor.py): the lease, the retrieval   *)
(* budget that the tool threads of a worker share                          *)
(* (app/agent/harness/step_budget.py), the artifacts those threads leave,  *)
(* soft finalization, the finalize-only call, the timeouts, the one retry  *)
(* of the provider, and the salvage of what was found before a failure.    *)
(*                                                                         *)
(* The coroutine of a worker is a control state per worker; its tools run  *)
(* in threads, a slot for each call of a message, and go on when the       *)
(* coroutine has given up waiting for them.  What the model answers and    *)
(* what a tool finds are arbitrary; a page is where its text is stored.    *)
(***************************************************************************)
EXTENDS Naturals, Sequences, FiniteSetsExt, TokenSums

CONSTANTS
  LastStep,     \* the wave runs the steps 0 .. LastStep of the plan
  Engines,      \* subset of {"harness", "v2", "simple"}
  Slots,        \* tool calls a message may hold
  Kinds,        \* subset of {"search", "fetch", "batch"}: the tools offered
  SearchLimit, FetchLimit, ToolLimit,  \* of one worker
  RunToolCap,   \* max_tool_calls of the run
  CallLimit     \* model calls of a lease

ASSUME LimitsAssumption ==
  {LastStep, SearchLimit, FetchLimit, ToolLimit, RunToolCap, CallLimit} \subseteq Nat
ASSUME SlotsAssumption == IsFiniteSet(Slots) /\ Slots # {}
ASSUME OffersAssumption ==
  /\ Engines \subseteq {"harness", "v2", "simple"}
  /\ Kinds \subseteq {"search", "fetch", "batch"} /\ Kinds # {}

Workers == 0 .. LastStep

VARIABLES
  engine,     \* simple_fact_fast_path, or the engine_version of the plan
  pc,         \* where the coroutine of a worker is
  lease,      \* the worker holds a lease
  calls,      \* model calls charged to the lease
  granted,    \* the extra call of the finalizer was granted
  attempt,    \* provider_attempt
  taken,      \* WorkerRetrievalBudget: what was consumed in this attempt
  armed,      \* finalization_reason is set
  deadline,   \* the soft deadline has passed
  thread,     \* the tool call in each slot
  asked,      \* tool_call_ids is not empty
  stopped,    \* primary_budget_reason is set
  content,    \* what extract_final_ai_content found
  handed,     \* artifact ids tools returned to the worker, with their pages
  store,      \* ArtifactStore of the run: an id is a position
  runTools,   \* tool calls charged to the run
  result      \* WorkerResult

control == <<pc, lease, calls, granted, attempt, deadline, asked, stopped, content>>
budget == <<taken, armed, runTools>>
vars == <<engine, control, budget, thread, handed, store, result>>

Idle == [state |-> "idle", kind |-> "none"]
Nothing == [search |-> 0, fetch |-> 0, tool |-> 0]
NoResult == [execution |-> "none", refs |-> {}, found |-> {}]

\* The values each variable may take.
TypeOK ==
  /\ engine \in Engines
  /\ pc \in [Workers -> {"queued", "calling", "answering", "tools", "judging",
                         "finalizing", "search", "fetch", "collect", "returning", "ended"}]
  /\ lease \in [Workers -> BOOLEAN] /\ granted \in [Workers -> BOOLEAN]
  /\ calls \in [Workers -> 0 .. CallLimit + 1] /\ attempt \in [Workers -> 0 .. 1]
  /\ taken \in [Workers -> [search : Nat, fetch : Nat, tool : Nat]]
  /\ armed \in [Workers -> BOOLEAN] /\ deadline \in [Workers -> BOOLEAN]
  /\ thread \in [Workers -> [Slots ->
                   [state : {"idle", "asked", "checked", "authorized", "running", "refused"},
                    kind : {"none", "search", "fetch", "batch"}]]]
  /\ asked \in [Workers -> BOOLEAN] /\ stopped \in [Workers -> BOOLEAN]
  /\ content \in [Workers -> {"empty", "bare", "loose", "valid", "direct"}]
  /\ handed \in [Workers -> SUBSET [id : Nat \ {0}, page : Nat]]
  /\ store \in Seq([owner : Workers, tagged : BOOLEAN, notice : BOOLEAN])
  /\ runTools \in 0 .. RunToolCap
  /\ result \in [Workers ->
                   [execution : {"none", "succeeded", "stopped", "failed", "skipped",
                                 "cancelled"},
                    refs : SUBSET Nat, found : SUBSET Nat]]

Init ==
  /\ engine \in Engines
  /\ pc = [w \in Workers |-> "queued"] /\ lease = [w \in Workers |-> FALSE]
  /\ calls = [w \in Workers |-> 0] /\ granted = [w \in Workers |-> FALSE]
  /\ attempt = [w \in Workers |-> 0] /\ taken = [w \in Workers |-> Nothing]
  /\ armed = [w \in Workers |-> FALSE] /\ deadline = [w \in Workers |-> FALSE]
  /\ thread = [w \in Workers |-> [k \in Slots |-> Idle]]
  /\ asked = [w \in Workers |-> FALSE] /\ stopped = [w \in Workers |-> FALSE]
  /\ content = [w \in Workers |-> "empty"]
  /\ handed = [w \in Workers |-> {}] /\ store = <<>> /\ runTools = 0
  /\ result = [w \in Workers |-> NoResult]
-----------------------------------------------------------------------------
(* Results.                                                                *)

Primary == {"calling", "answering", "tools"}
\* What the timeout around a leaf may end, by its step and by what is left of
\* the run: the awaits of the three leaves.
Interruptible == Primary \cup {"finalizing", "search", "collect"}

Threads(w) == {k \in Slots : thread[w][k].state # "idle"}
Retrieved(w) == taken[w].search + taken[w].fetch

\* Artifacts that carry the run and the task of the worker.
Tagged(w) == {i \in DOMAIN store : store[i].tagged /\ store[i].owner = w}

\* classify_worker_completion: evidence and a valid answer that came to its
\* end by itself succeed; evidence alone is a partial result.
Classify(valid, refs) ==
  CASE valid /\ refs # {} -> "succeeded"
    [] refs # {} /\ ~valid -> "stopped"
    [] OTHER -> "failed"

\* The one place a WorkerResult is made; found is the store as it was then.
ResultOf(w, execution, refs) ==
  [execution |-> execution, refs |-> refs, found |-> Tagged(w)]

\* Mutant of End: the lease is released where the worker returned by itself.
EndByItself(w, execution, refs) ==
  /\ pc' = [pc EXCEPT ![w] = "ended"]
  /\ lease' = [lease EXCEPT ![w] = @ /\ execution = "cancelled"]
  /\ result' = [result EXCEPT ![w] = ResultOf(w, execution, refs)]
\* The worker returns; execute's finally block releases the lease.
End(w, execution, refs) ==
  /\ pc' = [pc EXCEPT ![w] = "ended"] /\ lease' = [lease EXCEPT ![w] = FALSE]
  /\ result' = [result EXCEPT ![w] = ResultOf(w, execution, refs)]

\* Mutant of Salvage: what was found before the failure is not looked for.
Discard(w) == End(w, "failed", {})
\* _salvage_or_fail: what the store holds of this task is its evidence.
Salvage(w) == End(w, Classify(FALSE, Tagged(w)), Tagged(w))

\* salvage_payload_from_artifacts, for an answer without facts, sources or
\* findings.  An artifact belongs to the step by `step_index or -1`, which no
\* artifact of step 0 satisfies; without one, all artifacts serve.
StepArtifacts(w) ==
  LET scoped == {i \in Tagged(w) : w # 0}
  IN IF scoped # {} THEN scoped ELSE DOMAIN store

\* _enrich_worker_result: the references of the answer, bound by the evidence
\* store; 0 is a span over the answer's own text, or an id of its own making.
\* A finding that names nothing is kept, so the artifacts are not looked at,
\* and is bound to nothing (ingest_worker_payload).
Evidence(w) ==
  CASE content[w] = "valid" -> {row.id : row \in handed[w]}
    [] content[w] \in {"loose", "direct"} -> {0}
    [] content[w] = "bare" -> {}
    [] OTHER -> StepArtifacts(w)

\* execute after the leaf returned.  A finalization reason is no normal stop.
Finish(w) ==
  End(w, Classify(content[w] \in {"valid", "direct"} /\ ~armed[w], Evidence(w)), Evidence(w))
-----------------------------------------------------------------------------
(* Soft finalization.                                                      *)

\* Mutant of HasWork: a worker that retrieved nothing may be stopped softly.
HasWorkAlways(w) == TRUE
\* Nothing stops a worker softly before its first retrieval or evidence.
HasWork(w) == Retrieved(w) > 0 \/ Tagged(w) # {}

\* The threshold on model calls; one projected call lowers it.
CallThreshold(projected) ==
  LET base == Max({1, (CallLimit * 4 + 4) \div 5, IF CallLimit > 2 THEN CallLimit - 2 ELSE 0})
      low == Max({1, CallLimit \div 2, IF CallLimit > 2 THEN CallLimit - 2 ELSE 0})
  IN IF projected > 0 THEN Min({base, low}) ELSE base

\* trigger_worker_soft_finalization_block; the token threshold may strike at
\* any time.
Arms(w, projected, tokens) ==
  /\ engine = "harness" /\ HasWork(w)
  /\ deadline[w] \/ tokens \/ calls[w] + projected >= CallThreshold(projected)
-----------------------------------------------------------------------------
(* The coroutine.                                                          *)

\* execute up to the lease.  An optional step may be skipped, the agent may be
\* missing, the lease may be refused.
Begin(w) ==
  /\ pc[w] = "queued"
  /\ \/ /\ pc' = [pc EXCEPT ![w] = IF engine = "harness" THEN "calling" ELSE "search"]
        /\ lease' = [lease EXCEPT ![w] = TRUE] /\ UNCHANGED result
     \/ \E execution \in {"skipped", "failed"} : End(w, execution, {})
  /\ UNCHANGED <<engine, calls, granted, attempt, deadline, asked, stopped, content,
                 budget, thread, handed, store>>

\* _begin_llm_reservation and _finish_llm_reservation may arm finalization.
CallArms(w, projected) ==
  \E tokens \in BOOLEAN : armed' = [armed EXCEPT ![w] = @ \/ Arms(w, projected, tokens)]

\* reserve_llm_call, within the lease.
CallModel(w) ==
  /\ pc[w] = "calling" /\ calls[w] < CallLimit
  /\ CallArms(w, 1)
  /\ calls' = [calls EXCEPT ![w] = @ + 1]
  /\ pc' = [pc EXCEPT ![w] = "answering"]
  /\ UNCHANGED <<engine, lease, granted, attempt, deadline, asked, stopped, content,
                 taken, runTools, thread, handed, store, result>>

\* The cap of the lease ends the primary stream; so does its inner timeout,
\* which cancels the stream and leaves the threads alone.
StopPrimary(w) ==
  /\ engine = "harness"
  /\ \/ pc[w] = "calling" /\ calls[w] >= CallLimit
     \/ pc[w] \in Primary /\ deadline[w]
  /\ stopped' = [stopped EXCEPT ![w] = TRUE]
  /\ pc' = [pc EXCEPT ![w] = "judging"]
  /\ UNCHANGED <<engine, lease, calls, granted, attempt, deadline, asked, content,
                 budget, thread, handed, store, result>>

\* The agent asks for tools; the async tool node runs them in threads.
AskTools(w) ==
  /\ pc[w] = "answering" /\ engine = "harness"
  /\ CallArms(w, 0)
  /\ \E ks \in (SUBSET Slots) \ {{}} : \E kind \in [ks -> Kinds] :
       thread' = [thread EXCEPT ![w] =
                    [k \in Slots |-> IF k \in ks THEN [state |-> "asked", kind |-> kind[k]]
                                    ELSE @[k]]]
  /\ asked' = [asked EXCEPT ![w] = TRUE]
  /\ pc' = [pc EXCEPT ![w] = "tools"]
  /\ UNCHANGED <<engine, lease, calls, granted, attempt, deadline, stopped, content,
                 taken, runTools, handed, store, result>>

ToolsReturned(w) ==
  /\ pc[w] = "tools" /\ Threads(w) = {}
  /\ pc' = [pc EXCEPT ![w] = IF engine = "v2" THEN "fetch" ELSE "calling"]
  /\ UNCHANGED <<engine, lease, calls, granted, attempt, deadline, asked, stopped,
                 content, budget, thread, handed, store, result>>

\* A finding is valid when it names ids that tools returned.  Other answers
\* have facts or names of their own, findings or sources alone that name
\* nothing, or nothing to parse.
Answers(w) == {"empty", "bare", "loose"} \cup (IF handed[w] = {} THEN {} ELSE {"valid"})

\* The primary stream, or the extraction call of the v2 worker, has its text.
Answer(w) ==
  /\ pc[w] = "answering"
  /\ CallArms(w, 0)
  /\ \E text \in Answers(w) : content' = [content EXCEPT ![w] = text]
  /\ pc' = [pc EXCEPT ![w] = "judging"]
  /\ UNCHANGED <<engine, lease, calls, granted, attempt, deadline, asked, stopped,
                 taken, runTools, thread, handed, store, result>>

\* no_work_completed, on the first attempt.
MayRetry(w) == attempt[w] = 0 /\ ~asked[w]

\* The provider's connection fails before any tool was asked for: the leaf is
\* invoked once more, with a fresh retrieval budget and a fresh deadline.
RetryProvider(w) ==
  /\ pc[w] = "answering" /\ MayRetry(w)
  /\ attempt' = [attempt EXCEPT ![w] = 1]
  /\ taken' = [taken EXCEPT ![w] = Nothing]
  /\ armed' = [armed EXCEPT ![w] = FALSE]
  /\ deadline' = [deadline EXCEPT ![w] = FALSE]
  /\ pc' = [pc EXCEPT ![w] = "calling"]
  /\ UNCHANGED <<engine, lease, calls, granted, asked, stopped, content, runTools,
                 thread, handed, store, result>>

\* The except clauses of execute: a call refused by a cap of the run, a
\* timeout (the outer one may come before the inner one when little of the run
\* is left), or any other exception.
LeafFails(w) ==
  /\ pc[w] \in Interruptible
  /\ engine = "simple" => pc[w] # "search"
  /\ Salvage(w)
  /\ UNCHANGED <<engine, calls, granted, attempt, deadline, asked, stopped, content,
                 budget, thread, handed, store>>

\* The run is cancelled; the finally block still runs.
CancelWorker(w) ==
  /\ pc[w] # "ended"
  /\ End(w, "cancelled", {})
  /\ UNCHANGED <<engine, calls, granted, attempt, deadline, asked, stopped, content,
                 budget, thread, handed, store>>

\* validate_structured_worker_payload; an invalid answer gets one finalize-only
\* call, granted on top of the lease when the primary used it up and the run
\* has a call left.
Judge(w) ==
  /\ pc[w] = "judging"
  /\ \E grant \in BOOLEAN :
       LET needed == stopped[w] /\ calls[w] >= CallLimit
           finalize == engine = "harness" /\ content[w] # "valid" /\ (needed => grant)
       IN /\ granted' = [granted EXCEPT ![w] = finalize /\ needed]
          /\ pc' = [pc EXCEPT ![w] = IF finalize THEN "finalizing" ELSE "returning"]
  /\ UNCHANGED <<engine, lease, calls, attempt, deadline, asked, stopped, content,
                 budget, thread, handed, store, result>>

\* The finalizer has no retrieval; its call is authorised like any other.
Finalize(w) ==
  /\ pc[w] = "finalizing" /\ calls[w] < CallLimit + (IF granted[w] THEN 1 ELSE 0)
  /\ calls' = [calls EXCEPT ![w] = @ + 1]
  /\ \E text \in Answers(w) : content' = [content EXCEPT ![w] = text]
  /\ pc' = [pc EXCEPT ![w] = "returning"]
  /\ UNCHANGED <<engine, lease, granted, attempt, deadline, asked, stopped, budget,
                 thread, handed, store, result>>

Return(w) ==
  /\ pc[w] = "returning"
  /\ Finish(w)
  /\ UNCHANGED <<engine, calls, granted, attempt, deadline, asked, stopped, content,
                 budget, thread, handed, store>>

SoftDeadline(w) ==
  /\ engine = "harness" /\ pc[w] \in Primary /\ ~deadline[w]
  /\ deadline' = [deadline EXCEPT ![w] = TRUE]
  /\ UNCHANGED <<engine, pc, lease, calls, granted, attempt, asked, stopped, content,
                 budget, thread, handed, store, result>>
-----------------------------------------------------------------------------
(* The answer-contract worker and the simple fact.                         *)

\* _worker_budget_limits; what the run has left is met at the authorisation.
Limit(r) == IF r = "search" THEN SearchLimit ELSE FetchLimit

\* The limits of the worker, for n items of a resource.
WithinLimits(w, r, n) ==
  /\ IF r = "search" THEN taken[w].search + n <= Limit(r) ELSE taken[w].fetch + n <= Limit(r)
  /\ taken[w].tool + 1 <= ToolLimit
Consumed(w, r, n) ==
  [taken EXCEPT ![w] = [search |-> IF r = "search" THEN @.search + n ELSE @.search,
                        fetch |-> IF r = "fetch" THEN @.fetch + n ELSE @.fetch,
                        tool |-> @.tool + 1]]

\* _invoke_bounded_v2_worker: one batch of searches, in a thread.
SearchV2(w) ==
  /\ pc[w] = "search" /\ engine = "v2"
  /\ thread' = [thread EXCEPT ![w][CHOOSE k \in Slots : TRUE] =
                  [state |-> "asked", kind |-> "search"]]
  /\ pc' = [pc EXCEPT ![w] = "tools"]
  /\ UNCHANGED <<engine, lease, calls, granted, attempt, deadline, asked, stopped,
                 content, budget, handed, store, result>>

\* Then the fetches, paid for together and run in threads of their own.
FetchV2(w) ==
  /\ pc[w] = "fetch"
  /\ \/ \E ks \in (SUBSET Slots) \ {{}} :
          /\ WithinLimits(w, "fetch", Cardinality(ks)) /\ runTools < RunToolCap
          /\ taken' = Consumed(w, "fetch", Cardinality(ks))
          /\ runTools' = runTools + 1
          /\ thread' = [thread EXCEPT ![w] =
                          [k \in Slots |-> IF k \in ks THEN [state |-> "running", kind |-> "fetch"]
                                          ELSE @[k]]]
     \/ UNCHANGED <<taken, runTools, thread>>
  /\ pc' = [pc EXCEPT ![w] = "collect"]
  /\ UNCHANGED <<engine, lease, calls, granted, attempt, deadline, asked, stopped,
                 content, armed, handed, store, result>>

\* Those that are back after 15 seconds are read; without any there is nothing
\* to extract from.
CollectV2(w) ==
  /\ pc[w] = "collect"
  /\ asked' = [asked EXCEPT ![w] = TRUE]
  /\ pc' = [pc EXCEPT ![w] = IF handed[w] = {} THEN "returning" ELSE "calling"]
  /\ UNCHANGED <<engine, lease, calls, granted, attempt, deadline, stopped, content,
                 budget, thread, handed, store, result>>

\* The rows found are ranked, and the first four are facts with their sources.
Direct(found) == IF found THEN "direct" ELSE "empty"

\* _invoke_simple_fact searches once or twice without letting go of the event
\* loop; its sources are its evidence.
SimpleFact(w) ==
  /\ pc[w] = "search" /\ engine = "simple"
  /\ \E n \in 0 .. 2, found \in BOOLEAN :
       /\ runTools + n <= RunToolCap /\ n <= SearchLimit /\ n <= ToolLimit
       /\ found => n > 0
       /\ taken' = [taken EXCEPT ![w] = [search |-> n, fetch |-> @.fetch, tool |-> n]]
       /\ runTools' = runTools + n
       /\ content' = [content EXCEPT ![w] = Direct(found)]
  /\ asked' = [asked EXCEPT ![w] = TRUE]
  /\ pc' = [pc EXCEPT ![w] = "returning"]
  /\ UNCHANGED <<engine, lease, calls, granted, attempt, deadline, stopped, armed,
                 thread, handed, store, result>>
-----------------------------------------------------------------------------
(* The threads: consume_*_or_block, then the tool.                         *)

Resource(kind) == IF kind = "search" THEN "search" ELSE "fetch"
Items(kind) == IF kind = "batch" THEN 2 ELSE 1
Become(w, k, state) == thread' = [thread EXCEPT ![w][k].state = state]
Leave(w, k) == thread' = [thread EXCEPT ![w][k] = Idle]

\* The check.  Late threads find the finalization reason of a stream that is
\* over; nobody reads what they would write there.
Check(w, k) ==
  /\ thread[w][k].state = "asked"
  /\ \E tokens \in BOOLEAN :
       LET kind == thread[w][k].kind
           soft == armed[w] \/ Arms(w, 0, tokens)
       IN /\ armed' = [armed EXCEPT ![w] = IF pc[w] \in Primary THEN soft ELSE @]
          /\ \/ soft /\ Become(w, k, "refused")
             \/ /\ ~soft /\ WithinLimits(w, Resource(kind), Items(kind))
                /\ Become(w, k, "checked")
             \/ ~soft /\ ~WithinLimits(w, Resource(kind), Items(kind)) /\ Leave(w, k)
  /\ UNCHANGED <<engine, control, taken, runTools, handed, store, result>>

\* reserve_tool_calls, under the lock of the run's manager.
Authorize(w, k) ==
  /\ thread[w][k].state = "checked"
  /\ IF runTools < RunToolCap
     THEN runTools' = runTools + 1 /\ Become(w, k, "authorized")
     ELSE UNCHANGED runTools /\ Leave(w, k)
  /\ UNCHANGED <<engine, control, taken, armed, handed, store, result>>

Charge(w, k) ==
  LET kind == thread[w][k].kind
  IN /\ thread[w][k].state = "authorized"
     /\ taken' = Consumed(w, Resource(kind), Items(kind))
     /\ Become(w, k, "running")
     /\ UNCHANGED <<engine, control, armed, runTools, handed, store, result>>

\* ArtifactStore.put: the same content from the same task is stored once.
Put(artifact) ==
  IF artifact.notice /\ \E i \in DOMAIN store : store[i] = artifact
  THEN store ELSE Append(store, artifact)
IdOf(artifact, s) ==
  IF artifact.notice THEN CHOOSE i \in DOMAIN s : s[i] = artifact ELSE Len(s)

\* A row reaches a coroutine that still waits for it.
Hand(w, row) ==
  handed' = IF pc[w] \in {"tools", "collect"} THEN [handed EXCEPT ![w] = @ \cup {row}]
            ELSE handed

\* apply_tool_output_contract: the cards of a search, or the message that it
\* failed or was refused, under the name of the task.
Card(w, found) == [owner |-> w, tagged |-> TRUE, notice |-> ~found]

\* The wrapped tool stores what the search returned and hands over its id.
SearchReturns(w, k) ==
  /\ thread[w][k].state \in {"running", "refused"} /\ thread[w][k].kind = "search"
  /\ IF engine = "v2" THEN UNCHANGED <<store, handed>>
     ELSE \E found \in BOOLEAN :
            LET artifact == Card(w, found)
            IN /\ found => thread[w][k].state = "running"
               /\ store' = Put(artifact)
               /\ Hand(w, [id |-> IdOf(artifact, store'), page |-> IdOf(artifact, store')])
  /\ Leave(w, k)
  /\ UNCHANGED <<engine, control, budget, result>>

\* fetch_url_content stores the page, without the task it belongs to.
FetchReturns(w, k) ==
  /\ thread[w][k].state \in {"running", "refused"} /\ thread[w][k].kind = "fetch"
  /\ \/ /\ thread[w][k].state = "running"
        /\ store' = Append(store, [owner |-> w, tagged |-> FALSE, notice |-> FALSE])
        /\ Hand(w, [id |-> Len(store'), page |-> Len(store')])
     \/ UNCHANGED <<store, handed>>
  /\ Leave(w, k)
  /\ UNCHANGED <<engine, control, budget, result>>

\* batch_fetch fetches in threads of a pool.  These do not inherit the context:
\* get_artifact_store makes each a store of its own, whose first id is 1.
BatchReturns(w, k) ==
  /\ thread[w][k].state \in {"running", "refused"} /\ thread[w][k].kind = "batch"
  /\ \/ thread[w][k].state = "running" /\ Hand(w, [id |-> 1, page |-> 0])
     \/ UNCHANGED handed
  /\ Leave(w, k)
  /\ UNCHANGED <<engine, control, budget, store, result>>
-----------------------------------------------------------------------------
Coroutine(w) ==
  \/ Begin(w) \/ CallModel(w) \/ StopPrimary(w) \/ ToolsReturned(w) \/ Judge(w)
  \/ Return(w) \/ LeafFails(w) \/ SearchV2(w) \/ FetchV2(w) \/ CollectV2(w) \/ SimpleFact(w)
Model(w) == AskTools(w) \/ Answer(w) \/ RetryProvider(w) \/ Finalize(w)
Thread(w, k) ==
  \/ Check(w, k) \/ Authorize(w, k) \/ Charge(w, k)
  \/ SearchReturns(w, k) \/ FetchReturns(w, k) \/ BatchReturns(w, k)

Next ==
  \E w \in Workers :
    \/ Coroutine(w) \/ Model(w) \/ SoftDeadline(w) \/ CancelWorker(w)
    \/ \E k \in Slots : Thread(w, k)

Spec == Init /\ [][Next]_vars

\* The event loop runs what is ready and fires timeouts, and requests of a tool
\* have timeouts.  The provider may never answer, and nothing need cancel.
FairSpec ==
  /\ Spec
  /\ \A w \in Workers :
       WF_vars(Coroutine(w)) /\ \A k \in Slots : WF_vars(Thread(w, k))
-----------------------------------------------------------------------------
(* Properties.                                                             *)

\* The threads of a worker check and charge its budget in separate steps, yet
\* they overdraw it by no more than the calls that can run side by side.
OverdrawIsBounded ==
  LET others == Cardinality(Slots) - 1
      most == Max({Items(kind) : kind \in Kinds})
  IN \A w \in Workers :
       /\ taken[w].search <= SearchLimit + others
       /\ taken[w].fetch <= FetchLimit + others * most
       /\ taken[w].tool <= ToolLimit + others

\* Every call a worker made was paid for by the run, and the run paid for no
\* other: no charge is lost when a provider's attempt is repeated, a stream
\* times out or a worker ends before its threads do.
RunPaysForCalls ==
  runTools = SumOver([w \in Workers |-> taken[w].tool], Workers)
             + Cardinality({s \in Workers \X Slots : thread[s[1]][s[2]].state = "authorized"})

\* docs/ARCHITECTURE.md:148: with zero retrieval and zero evidence a worker is
\* not stopped softly, in whichever attempt it is.
FirstRetrievalIsAllowed ==
  \A w \in Workers : armed[w] => Retrieved(w) > 0 \/ Tagged(w) # {}

\* The worker's counters and the run's agree on what tools cost, stay near
\* their limits, and stop no worker that has retrieved nothing yet, whatever
\* threads and attempts do (consume_*_or_block, _soft_finalize).
CallsAreAccountedFor ==
  TypeOK /\ OverdrawIsBounded /\ RunPaysForCalls /\ FirstRetrievalIsAllowed

\* docs/HARNESS_ARCHITECTURE.md:89: what a worker had found under its name when
\* it failed is in its result, however it failed.  Only an answer that came by
\* itself and whose findings name nothing fails beside stored artifacts.
WorkIsSalvaged ==
  \A w \in Workers :
    result[w].execution = "failed" /\ result[w].found # {} =>
      content[w] = "bare" /\ result[w].refs = {}

\* A worker that succeeded was not stopped by its budget, holds no lease, and
\* rests on evidence.
SuccessIsWhole ==
  \A w \in Workers :
    result[w].execution = "succeeded" =>
      ~lease[w] /\ ~armed[w] /\ calls[w] <= CallLimit + 1 /\ result[w].refs # {}

\* However a worker ends, its result is worth what it says: a refusal, a
\* timeout or an exception leaves nothing found behind, and a success is not
\* half a worker's (execute, _salvage_or_fail).
WorkIsKept == WorkIsSalvaged /\ SuccessIsWhole

\* Although the provider may never answer and tools run on after a timeout,
\* every worker ends, gives its lease back, and its threads come to rest.
WorkersEnd ==
  \A w \in Workers : <>[](pc[w] = "ended" /\ ~lease[w] /\ Threads(w) = {})
=============================================================================
