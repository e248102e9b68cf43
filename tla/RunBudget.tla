------------------------------ MODULE RunBudget ------------------------------
(***************************************************************************)
(* The budget of one run (app/agent/harness/run_budget.py) together with   *)
(* the two code paths that settle a model call against it: the LangChain   *)
(* callback and the wrapper around the model (usage_tracker.py).           *)
(*                                                                         *)
(* Every method of RunBudgetManager holds the manager's lock, so each is   *)
(* one action.  Workers, the supervisor and the synthesiser call it        *)
(* concurrently; a call in flight is an element of Calls.  A denied        *)
(* request changes no state, so a denial is a disabled action.             *)
(***************************************************************************)
EXTENDS Integers, FiniteSets, TokenSums

CONSTANTS
  Tasks,             \* research task ids; at most one lease each at a time
  NoTask,            \* worker_task_id of a call outside every worker
  Calls,             \* the model calls of a run
  TokenLimit, LlmCallLimit, ToolCallLimit, MaxCallsPerWorker,
  ResearchShare, RepairShare,    \* stage_reserves, in percent
  Ceilings,          \* token ceilings a task profile may ask for
  Estimates,         \* results of estimate_llm_tokens
  Overrun,           \* how far usage may exceed its estimate
  WaveSizes,         \* sizes of an approved wave
  ToolBatches,       \* tool calls asked for at once
  FastPathToolCap,   \* the limit the fast path imposes
  SyncsUsage,        \* TRUE iff the direct runtime reconciles from the tracker
  PriorUsage         \* [tokens, calls] the session used in earlier runs

\* from_config replaces a zero or missing limit by a positive default, so no
\* limit of a run is "unlimited"; estimate_llm_tokens is at least 1.
ASSUME LimitAssumption ==
  /\ TokenLimit \in Nat \ {0} /\ LlmCallLimit \in Nat \ {0}
  /\ ToolCallLimit \in Nat \ {0} /\ MaxCallsPerWorker \in Nat \ {0}
  /\ ResearchShare \in 0 .. 100 /\ RepairShare \in 0 .. 100
ASSUME InputAssumption ==
  /\ Ceilings \subseteq Nat \ {0} /\ Estimates \subseteq Nat \ {0}
  /\ Overrun \in Nat /\ WaveSizes \subseteq Nat \ {0}
  /\ ToolBatches \subseteq Nat \ {0} /\ FastPathToolCap \in Nat \ {0}
ASSUME SessionAssumption ==
  /\ SyncsUsage \in BOOLEAN /\ PriorUsage \in [tokens : Nat, calls : Nat]
ASSUME IdentityAssumption ==
  /\ IsFiniteSet(Tasks) /\ IsFiniteSet(Calls) /\ NoTask \notin Tasks

VARIABLES
  usedTokens, llmCalls, toolCalls, toolCallLimit, forceSynthesis,
  reservedNonworkerTokens, reservedLlmCalls,
  workerLeases,      \* task -> its lease, or NoLease
  llmReservations,   \* the calls whose reservation id is still in the dict
  calls,             \* call -> where it is, and the reservation's fields
  clock,             \* "research", then "reserve": only synthesis time is left
  tracker            \* session totals of the usage tracker; kept up to date
                     \* only for the runtime that reads them

counterVars == <<usedTokens, llmCalls, forceSynthesis>>
reserveVars == <<reservedNonworkerTokens, reservedLlmCalls, llmReservations>>
vars == <<usedTokens, llmCalls, toolCalls, toolCallLimit, forceSynthesis,
          reservedNonworkerTokens, reservedLlmCalls, workerLeases,
          llmReservations, calls, clock, tracker>>

Stages == {"research", "repair"}
\* A worker's call runs under "execute" or "finalize"; a call outside the
\* workers under "research" or a phase with no research ceiling.
Phases == {"execute", "finalize", "research", "synthesis"}
ResearchPhases == {"execute", "research"}

NoLease == [active |-> FALSE, ceiling |-> 0, maxCalls |-> 0, used |-> 0,
            inFlight |-> 0, calls |-> 0, finalCalls |-> 0, stage |-> "research"]
IdleCall == [pc |-> "idle", task |-> NoTask, phase |-> "synthesis", est |-> 0,
             stage |-> "research", charge |-> 0, held |-> FALSE]

Larger(a, b) == IF a >= b THEN a ELSE b
Smaller(a, b) == IF a <= b THEN a ELSE b
-----------------------------------------------------------------------------
(* Derived quantities of the manager.                                      *)

StageReserve(share) == (TokenLimit * share) \div 100
StageCap(stage) ==
  IF stage = "repair"
  THEN Smaller(TokenLimit, StageReserve(ResearchShare) + StageReserve(RepairShare))
  ELSE StageReserve(ResearchShare)

InFlightOf(leases) == [t \in Tasks |-> leases[t].inFlight]
ActiveReserved == SumOver(InFlightOf(workerLeases), Tasks)
EffectiveReserved == reservedNonworkerTokens + ActiveReserved
EffectiveUsed == usedTokens + EffectiveReserved

FinalizationReserve(ceiling) == Larger(1, (ceiling * 15) \div 100)
\* Mutant of CallCapFree: the calls authorised but not settled are forgotten.
CallCapIgnoresReserved == llmCalls < LlmCallLimit
CallCapFree == llmCalls + reservedLlmCalls < LlmCallLimit

\* Mutant of ResearchAllowed: the tool limit and the clock are not looked at.
ResearchAllowedByTokens(stage) ==
  EffectiveUsed < TokenLimit /\ EffectiveUsed < StageCap(stage) /\ CallCapFree

\* _research_block_reason_locked returns "".
ResearchAllowed(stage) ==
  /\ EffectiveUsed < TokenLimit
  /\ EffectiveUsed < StageCap(stage)
  /\ CallCapFree
  /\ toolCalls < toolCallLimit
  /\ clock = "research"

\* _maybe_force_synthesis_locked, on the values the caller has just written.
Forced(used, llm, tool, toolLimit) ==
  \/ forceSynthesis
  \/ used >= StageCap("research")
  \/ llm >= LlmCallLimit
  \/ tool >= toolLimit
  \/ clock # "research"
-----------------------------------------------------------------------------
Leases == [active : BOOLEAN, ceiling : Nat, maxCalls : Nat, used : Nat,
           inFlight : Nat, calls : Nat, finalCalls : Nat, stage : Stages]
CallRecords == [pc : {"idle", "sent", "ended", "failed", "done"},
                task : Tasks \cup {NoTask}, phase : Phases, est : Nat,
                stage : Stages, charge : Nat, held : BOOLEAN]

\* The values each counter and record may take.
TypeOK ==
  /\ usedTokens \in Nat /\ llmCalls \in Nat /\ toolCalls \in Nat
  /\ toolCallLimit \in Nat \ {0} /\ forceSynthesis \in BOOLEAN
  /\ reservedNonworkerTokens \in Nat /\ reservedLlmCalls \in Nat
  /\ workerLeases \in [Tasks -> Leases]
  /\ llmReservations \subseteq Calls
  /\ calls \in [Calls -> CallRecords]
  /\ clock \in {"research", "reserve"}
  /\ tracker \in [tokens : Nat, calls : Nat]

Init ==
  /\ usedTokens = 0 /\ llmCalls = 0 /\ toolCalls = 0
  /\ toolCallLimit = ToolCallLimit /\ forceSynthesis = FALSE
  /\ reservedNonworkerTokens = 0 /\ reservedLlmCalls = 0
  /\ workerLeases = [t \in Tasks |-> NoLease]
  /\ llmReservations = {}
  /\ calls = [c \in Calls |-> IdleCall]
  /\ clock = "research"
  /\ tracker = PriorUsage
-----------------------------------------------------------------------------
(* Worker leases.                                                          *)

\* The ceiling granted: what the profile asks for (or the wave's fair share),
\* cut to what is left of the stage and of the run.  Nothing left: denied.
GrantableTokens(stage) ==
  Smaller(StageCap(stage) - usedTokens - ActiveReserved, TokenLimit - EffectiveUsed)
FairShare(stage, wave) == Larger(1, StageCap(stage) \div wave)

ReserveWorkerLease(t, stage, requested) ==
  /\ ~workerLeases[t].active
  /\ ResearchAllowed(stage)
  /\ GrantableTokens(stage) > 0
  /\ workerLeases' = [workerLeases EXCEPT ![t] =
       [NoLease EXCEPT !.active = TRUE, !.stage = stage,
                       !.ceiling = Larger(0, Smaller(requested, GrantableTokens(stage))),
                       !.maxCalls = MaxCallsPerWorker]]
  /\ UNCHANGED <<usedTokens, llmCalls, toolCalls, toolCallLimit, forceSynthesis,
                 reserveVars, calls, clock, tracker>>

\* The executor's finally block: the lease goes, and every reservation made
\* under its task is released as an errored call.
ReservationsOf(t) == {c \in llmReservations : calls[c].task = t}
\* Mutant of ReleaseWorkerLease: the reservations made under the lease stay.
ReleaseLeaseOnly(t) ==
  /\ workerLeases[t].active
  /\ workerLeases' = [workerLeases EXCEPT ![t] = NoLease]
  /\ UNCHANGED <<counterVars, reserveVars, toolCalls, toolCallLimit, calls,
                 clock, tracker>>
ReleaseWorkerLease(t) ==
  LET gone == ReservationsOf(t)
  IN /\ workerLeases[t].active
     /\ workerLeases' = [workerLeases EXCEPT ![t] = NoLease]
     /\ llmReservations' = llmReservations \ gone
     /\ reservedLlmCalls' = Larger(0, reservedLlmCalls - Cardinality(gone))
     /\ llmCalls' = llmCalls + Cardinality(gone)
     /\ forceSynthesis' = Forced(usedTokens, llmCalls', toolCalls, toolCallLimit)
     /\ UNCHANGED <<usedTokens, toolCalls, toolCallLimit,
                    reservedNonworkerTokens, calls, clock, tracker>>

\* The executor asks for it only once the worker's call cap is reached.
GrantFinalizationCall(t) ==
  /\ workerLeases[t].active
  /\ workerLeases[t].calls >= workerLeases[t].maxCalls
  /\ workerLeases[t].finalCalls < 1
  /\ CallCapFree
  /\ workerLeases' = [workerLeases EXCEPT ![t].maxCalls = @ + 1,
                                          ![t].finalCalls = @ + 1]
  /\ UNCHANGED <<usedTokens, llmCalls, toolCalls, toolCallLimit, forceSynthesis,
                 reserveVars, calls, clock, tracker>>
-----------------------------------------------------------------------------
(* Authorising one model call.                                             *)

\* Mutant of WorkerTokenLimit: no share is kept back for finalization.
WorkerTokenLimitWhole(lease, phase) == lease.ceiling
WorkerTokenLimit(lease, phase) ==
  IF phase = "finalize" THEN lease.ceiling
  ELSE Larger(0, lease.ceiling - FinalizationReserve(lease.ceiling))

WorkerAdmits(t, phase, est) ==
  LET lease == workerLeases[t]
  IN /\ lease.active
     /\ lease.calls < lease.maxCalls
     /\ \/ lease.ceiling = 0        \* a zero ceiling would mean "no ceiling"
        \/ lease.used + lease.inFlight + est <= WorkerTokenLimit(lease, phase)

RunAdmits(stage, phase, est) ==
  /\ EffectiveUsed + est <= TokenLimit
  /\ phase \in ResearchPhases => EffectiveUsed + est <= StageCap(stage)

\* held: the wrapper's context will still name the reservation when the
\* provider returns.  It is FALSE when the callback took it in that context,
\* or made the reservation itself; TRUE when no callback ran or it ran in a
\* copy of the context.
RecordReservation(c, t, stage, phase, est) ==
  /\ llmReservations' = llmReservations \cup {c}
  /\ reservedLlmCalls' = reservedLlmCalls + 1
  /\ \E held \in BOOLEAN :
       calls' = [calls EXCEPT ![c] =
         [pc |-> "sent", task |-> t, phase |-> phase, est |-> est,
          stage |-> stage, charge |-> 0, held |-> held]]

ReserveWorkerCall(c, t, phase, est) ==
  /\ calls[c].pc = "idle"
  /\ CallCapFree
  /\ WorkerAdmits(t, phase, est)
  /\ RunAdmits(workerLeases[t].stage, phase, est)
  /\ RecordReservation(c, t, workerLeases[t].stage, phase, est)
  /\ workerLeases' = [workerLeases EXCEPT ![t].inFlight = @ + est,
                                          ![t].calls = @ + 1]
  /\ UNCHANGED <<usedTokens, llmCalls, toolCalls, toolCallLimit, forceSynthesis,
                 reservedNonworkerTokens, clock, tracker>>

ReserveNonworkerCall(c, phase, est) ==
  /\ calls[c].pc = "idle"
  /\ CallCapFree
  /\ RunAdmits("research", phase, est)
  /\ RecordReservation(c, NoTask, "research", phase, est)
  /\ reservedNonworkerTokens' = reservedNonworkerTokens + est
  /\ UNCHANGED <<usedTokens, llmCalls, toolCalls, toolCallLimit, forceSynthesis,
                 workerLeases, clock, tracker>>
-----------------------------------------------------------------------------
(* Settling a call.  Popping the reservation id is what makes the callback *)
(* and the wrapper settle it once between them.                            *)

\* The estimate leaves the in-flight total it was added to.
Refund(c, charge) ==
  LET t == calls[c].task
  IN IF t = NoTask
     THEN /\ reservedNonworkerTokens' = Larger(0, reservedNonworkerTokens - calls[c].est)
          /\ UNCHANGED workerLeases
     ELSE /\ workerLeases' =
               IF workerLeases[t].active
               THEN [workerLeases EXCEPT
                       ![t].used = @ + charge,
                       ![t].inFlight = Larger(0, @ - calls[c].est)]
               ELSE workerLeases
          /\ UNCHANGED reservedNonworkerTokens

PopReservation(c) ==
  /\ llmReservations' = llmReservations \ {c}
  /\ reservedLlmCalls' = Larger(0, reservedLlmCalls - 1)
  /\ llmCalls' = llmCalls + 1

Unpopped == UNCHANGED <<counterVars, reserveVars, workerLeases>>

\* commit_llm_usage; a provider that reports no usage costs the estimate.
Charge(c, actual) == IF actual = 0 THEN calls[c].est ELSE actual
\* Mutants of CommitUsage: the reservation id is not looked up before it is
\* charged; the latch is left for the next reader.
CommitUnchecked(c, actual) ==
  /\ PopReservation(c)
  /\ Refund(c, Charge(c, actual))
  /\ usedTokens' = usedTokens + Charge(c, actual)
  /\ forceSynthesis' = Forced(usedTokens', llmCalls', toolCalls, toolCallLimit)
CommitWithoutLatch(c, actual) ==
  IF c \notin llmReservations THEN Unpopped
  ELSE /\ PopReservation(c)
       /\ Refund(c, Charge(c, actual))
       /\ usedTokens' = usedTokens + Charge(c, actual)
       /\ UNCHANGED forceSynthesis
CommitUsage(c, actual) ==
  IF c \notin llmReservations THEN Unpopped
  ELSE /\ PopReservation(c)
       /\ Refund(c, Charge(c, actual))
       /\ usedTokens' = usedTokens + Charge(c, actual)
       /\ forceSynthesis' = Forced(usedTokens', llmCalls', toolCalls, toolCallLimit)

\* release_llm_reservation: the call slot is spent, the tokens are not.
ReleaseReservation(c) ==
  IF c \notin llmReservations THEN Unpopped
  ELSE /\ PopReservation(c)
       /\ Refund(c, 0)
       /\ UNCHANGED <<usedTokens, forceSynthesis>>

\* The call's own record: where it is, and what this settlement charged it.
Settle(c, pc, charge) ==
  calls' = [calls EXCEPT ![c].pc = pc,
              ![c].charge = IF c \in llmReservations THEN @ + charge ELSE @]

\* on_llm_end commits and then records in the tracker, whether or not the
\* reservation was still there: the answer may come after the worker's lease
\* was released.
OnLlmEnd(c, actual) ==
  /\ calls[c].pc = "sent"
  /\ CommitUsage(c, actual)
  /\ Settle(c, "ended", Charge(c, actual))
  /\ tracker' = IF SyncsUsage
                THEN [tokens |-> tracker.tokens + actual, calls |-> tracker.calls + 1]
                ELSE tracker
  /\ UNCHANGED <<toolCalls, toolCallLimit, clock>>

\* The callback gave up before its commit, or the provider failed.
OnLlmError(c, pc) ==
  /\ calls[c].pc = "sent"
  /\ ReleaseReservation(c)
  /\ Settle(c, pc, 0)
  /\ UNCHANGED <<toolCalls, toolCallLimit, clock, tracker>>

\* No callback ran: the provider's result reaches the wrapper directly.
ReturnUnobserved(c, pc) ==
  /\ calls[c].pc = "sent" /\ calls[c].held
  /\ calls' = [calls EXCEPT ![c].pc = pc]
  /\ UNCHANGED <<counterVars, reserveVars, workerLeases, toolCalls,
                 toolCallLimit, clock, tracker>>

\* The wrapper settles only if its context still names the reservation.
FinishReservation(c) ==
  /\ calls[c].pc = "ended"
  /\ IF calls[c].held
     THEN CommitUsage(c, calls[c].est) /\ Settle(c, "done", calls[c].est)
     ELSE Unpopped /\ calls' = [calls EXCEPT ![c].pc = "done"]
  /\ UNCHANGED <<toolCalls, toolCallLimit, clock, tracker>>

FailReservation(c) ==
  /\ calls[c].pc = "failed"
  /\ IF calls[c].held
     THEN ReleaseReservation(c) /\ Settle(c, "done", 0)
     ELSE Unpopped /\ calls' = [calls EXCEPT ![c].pc = "done"]
  /\ UNCHANGED <<toolCalls, toolCallLimit, clock, tracker>>
-----------------------------------------------------------------------------
(* Tools, time, and the readers that refresh the latch.                    *)

ReserveToolCalls(n) ==
  /\ toolCalls + n <= toolCallLimit
  /\ toolCalls' = toolCalls + n
  /\ forceSynthesis' = Forced(usedTokens, llmCalls, toolCalls', toolCallLimit)
  /\ UNCHANGED <<usedTokens, llmCalls, toolCallLimit, reserveVars, workerLeases,
                 calls, clock, tracker>>

\* The fast path lowers the limit before any work of the run.
CapToolCalls ==
  /\ llmCalls = 0 /\ toolCalls = 0 /\ llmReservations = {}
  /\ \A t \in Tasks : ~workerLeases[t].active
  /\ FastPathToolCap < toolCallLimit
  /\ toolCallLimit' = FastPathToolCap
  /\ forceSynthesis' = Forced(usedTokens, llmCalls, toolCalls, toolCallLimit')
  /\ UNCHANGED <<usedTokens, llmCalls, toolCalls, reserveVars, workerLeases,
                 calls, clock, tracker>>

SyncFromUsage ==
  /\ SyncsUsage
  /\ usedTokens' = Larger(usedTokens, tracker.tokens)
  /\ llmCalls' = Larger(llmCalls, tracker.calls)
  /\ forceSynthesis' = Forced(usedTokens', llmCalls', toolCalls, toolCallLimit)
  /\ UNCHANGED <<toolCalls, toolCallLimit, reserveVars, workerLeases, calls,
                 clock, tracker>>

QueryForceSynthesis ==
  /\ forceSynthesis' = Forced(usedTokens, llmCalls, toolCalls, toolCallLimit)
  /\ UNCHANGED <<usedTokens, llmCalls, toolCalls, toolCallLimit, reserveVars,
                 workerLeases, calls, clock, tracker>>

Tick ==
  /\ clock = "research" /\ clock' = "reserve"
  /\ UNCHANGED <<counterVars, toolCalls, toolCallLimit, reserveVars,
                 workerLeases, calls, tracker>>
-----------------------------------------------------------------------------
RequestableCeilings(stage) ==
  Ceilings \cup {FairShare(stage, wave) : wave \in WaveSizes}

WorkerNext(t) ==
  \/ \E stage \in Stages : \E requested \in RequestableCeilings(stage) :
       ReserveWorkerLease(t, stage, requested)
  \/ ReleaseWorkerLease(t)
  \/ GrantFinalizationCall(t)
  \/ \E c \in Calls, phase \in {"execute", "finalize"}, est \in Estimates :
       ReserveWorkerCall(c, t, phase, est)

\* What the provider may report: nothing, one token, or the estimate and the
\* error of the estimate on top.
Actuals(c) == {0, 1, calls[c].est + Overrun}

Answer(c) ==
  \/ \E actual \in Actuals(c) : OnLlmEnd(c, actual)
  \/ \E pc \in {"ended", "failed"} : OnLlmError(c, pc) \/ ReturnUnobserved(c, pc)
Unwind(c) == FinishReservation(c) \/ FailReservation(c)

CallNext(c) ==
  \/ \E phase \in {"research", "synthesis"}, est \in Estimates :
       ReserveNonworkerCall(c, phase, est)
  \/ Answer(c)
  \/ Unwind(c)

Next ==
  \/ \E t \in Tasks : WorkerNext(t)
  \/ \E c \in Calls : CallNext(c)
  \/ \E n \in ToolBatches : ReserveToolCalls(n)
  \/ CapToolCalls
  \/ SyncFromUsage
  \/ QueryForceSynthesis
  \/ Tick

Spec == Init /\ [][Next]_vars

\* The executor's finally block runs, the wrapper unwinds, and a provider
\* answers or fails a call made outside the workers (the client's timeout).
\* Nothing is assumed of a provider called by a worker: the worker may be
\* abandoned at its wall timeout.
Fairness ==
  /\ \A t \in Tasks : WF_vars(ReleaseWorkerLease(t))
  /\ \A c \in Calls : /\ WF_vars(Unwind(c))
                      /\ WF_vars(calls[c].task = NoTask /\ Answer(c))

FairSpec == Spec /\ Fairness
-----------------------------------------------------------------------------
(* Properties.                                                             *)

Charges == [c \in Calls |-> calls[c].charge]
Ests == [c \in Calls |-> calls[c].est]
Live(t) == {c \in llmReservations : calls[c].task = t}
Settled == {c \in Calls : calls[c].pc # "idle"} \ llmReservations

\* Every counter of reserved capacity is exactly what the reservation dict
\* holds, and no reservation outlives its worker's lease: however callbacks,
\* wrappers and lease releases interleave, nothing is leaked or refunded twice
\* (reserve_llm_call, commit_llm_usage, release_worker_lease).
ReservationAccounting ==
  /\ reservedLlmCalls = Cardinality(llmReservations)
  /\ reservedNonworkerTokens = SumOver(Ests, Live(NoTask))
  /\ \A t \in Tasks : workerLeases[t].inFlight = SumOver(Ests, Live(t))
  /\ \A t \in Tasks : Live(t) # {} => workerLeases[t].active

\* The calls spent and the calls authorised never exceed the run's call limit
\* (reserve_llm_call), as long as no reconciliation raises the count.
CallCap == ~SyncsUsage => llmCalls + reservedLlmCalls <= LlmCallLimit

\* What is spent plus what is in flight exceeds the token limit by at most the
\* estimation error of the calls made: concurrent authorisations never admit
\* the same remaining tokens twice (reserve_llm_call, commit_llm_usage).
BoundedOvershoot ==
  ~SyncsUsage => EffectiveUsed <= TokenLimit + Overrun * llmCalls

\* What the run may spend is limited although authorisations run side by side
\* (reserve_llm_call): in calls exactly, in tokens up to the error of estimates.
LimitsHold == CallCap /\ BoundedOvershoot

\* The counters are the sum of what the settled calls were charged, so a call
\* settled by its callback, by its wrapper and by its worker's release is
\* charged once (usage_tracker.py and run_budget.py commit and release).
ChargedExactlyOnce ==
  ~SyncsUsage => /\ usedTokens = SumOver(Charges, Calls)
                 /\ llmCalls = Cardinality(Settled)

\* Reconciling from the tracker never loses a charge the manager already made,
\* although the tracker misses failed calls (sync_from_usage).
ChargesNeverLost ==
  /\ usedTokens >= SumOver(Charges, Calls)
  /\ llmCalls >= Cardinality(Settled)

SettledUnder(t) == {c \in Settled : calls[c].task = t}

\* A worker stopped by its token ceiling still has the finalization share: its
\* calls outside "finalize" leave 15% of the ceiling alone, up to estimation
\* error, and no lease is unlimited by accident (reserve_llm_call).
FinalizationShareKept ==
  \A t \in Tasks :
    LET lease == workerLeases[t]
    IN lease.active =>
         /\ lease.ceiling > 0
         /\ lease.used + lease.inFlight <=
              lease.ceiling + Overrun * Cardinality(SettledUnder(t))
         /\ (\A c \in Calls : ~(calls[c].task = t /\ calls[c].phase = "finalize"))
              => lease.used + lease.inFlight <=
                   lease.ceiling - FinalizationReserve(lease.ceiling)
                     + Overrun * Cardinality(SettledUnder(t))

\* What initial-stage calls under a research phase spend or hold stays within
\* the research share, up to estimation error: research phases cannot eat the
\* repair, report and verification shares (reserve_llm_call).
ResearchSpend == [c \in Calls |-> IF c \in llmReservations THEN calls[c].est
                                                         ELSE calls[c].charge]
InitialResearchCalls ==
  {c \in Calls : calls[c].stage = "research" /\ calls[c].phase \in ResearchPhases}
ResearchShareKept ==
  SumOver(ResearchSpend, InitialResearchCalls) <=
    StageCap("research") + Overrun * Cardinality(InitialResearchCalls \cap Settled)

\* The share of every lease and the share of the stage both survive calls in
\* flight and the error of their estimates (_worker_token_limit_locked).
SharesKept == FinalizationShareKept /\ ResearchShareKept

\* Once the latch that ends research is set, by whatever resource, no lease is
\* granted for initial research: the latch and _research_block_reason compute
\* exhaustion from different expressions and must agree.
NoInitialResearchOnceForced ==
  [][\A t \in Tasks :
       ~workerLeases[t].active /\ workerLeases'[t].active /\ forceSynthesis
         => workerLeases'[t].stage # "research"]_vars

\* Whenever tokens or tools are used up the latch is already set, without
\* waiting for a reader to refresh it (_maybe_force_synthesis_locked).
LatchFollowsUsage ==
  usedTokens >= StageCap("research") \/ toolCalls >= toolCallLimit => forceSynthesis

\* Neither a charge nor the exhaustion it caused is forgotten when totals that
\* were counted elsewhere are folded in (sync_from_usage, commit_llm_usage).
UsageIsRemembered == ChargesNeverLost /\ LatchFollowsUsage

\* Every reservation is eventually settled, although a worker's provider call
\* may never return (release_worker_lease in the executor's finally block).
ReservationsDrain ==
  \A c \in Calls : c \in llmReservations ~> c \notin llmReservations
=============================================================================
