--------------------------- MODULE RunBudgetProofs ---------------------------
(***************************************************************************)
(* Proofs about RunBudget, for every number of tasks and calls and every   *)
(* limit: its type invariant, the exactness of the reservation counters,   *)
(* the call limit and the bound on overshoot; then which call is charged   *)
(* to whom, and what the shares kept back survive.                         *)
(***************************************************************************)
EXTENDS RunBudget, FiniteSetTheorems, TLAPS

----------------------------------------------------------------------------
(* What the sums of TokenSums compute, and how they change.                *)

\* An interval that starts at 1 has as many members as its upper end.
LEMMA IntervalCount ==
  ASSUME NEW n \in Nat
  PROVE  IsFiniteSet(1 .. n) /\ Cardinality(1 .. n) = n
<1>1. 1 \in Int /\ n \in Int
  OBVIOUS
<1>2. IsFiniteSet(1 .. n) /\ Cardinality(1 .. n) = IF 1 > n THEN 0 ELSE n - 1 + 1
  BY <1>1, FS_Interval
<1> QED
  BY <1>2

\* The units of a finite set are finitely many, so a sum is a natural number
\* (RunBudgetManager sums in-flight tokens over a finite dict of leases).
LEMMA UnitsFinite ==
  ASSUME NEW S, IsFiniteSet(S), NEW f, \A x \in S : f[x] \in Nat
  PROVE  IsFiniteSet(Units(f, S)) /\ SumOver(f, S) \in Nat
<1> DEFINE R == {{x} \X (1 .. f[x]) : x \in S}
           g == [x \in S |-> {x} \X (1 .. f[x])]
<1>1. g \in Surjection(S, R)
  BY DEF Surjection
<1>2. IsFiniteSet(R)
  BY <1>1, FS_Surjection
<1>3. ASSUME NEW T \in R PROVE IsFiniteSet(T)
  <2>1. PICK x \in S : T = {x} \X (1 .. f[x])
    OBVIOUS
  <2>2. IsFiniteSet({x})
    BY FS_Singleton
  <2>3. IsFiniteSet(1 .. f[x])
    BY IntervalCount
  <2> QED
    BY <2>1, <2>2, <2>3, FS_Product
<1>4. IsFiniteSet(UNION R)
  <2> HIDE DEF R
  <2> QED BY <1>2, <1>3, FS_UNION
<1> QED
  BY <1>4, FS_CardinalityType DEF Units, SumOver

\* A sum over the empty set is zero (no lease, no reservation).
LEMMA SumEmpty == ASSUME NEW f PROVE SumOver(f, {}) = 0
BY FS_EmptySet DEF Units, SumOver

\* A sum depends only on the values on the set (a dict entry outside the
\* summed ones may change freely).
LEMMA SumSame ==
  ASSUME NEW S, NEW f, NEW g, \A x \in S : f[x] = g[x]
  PROVE  SumOver(f, S) = SumOver(g, S)
<1>1. {{x} \X (1 .. f[x]) : x \in S} = {{x} \X (1 .. g[x]) : x \in S}
  OBVIOUS
<1> QED
  BY <1>1 DEF Units, SumOver

\* The sum splits over disjoint sets.
LEMMA SumDisjoint ==
  ASSUME NEW S, IsFiniteSet(S), NEW T, IsFiniteSet(T), S \cap T = {},
         NEW f, \A x \in S \cup T : f[x] \in Nat
  PROVE  SumOver(f, S \cup T) = SumOver(f, S) + SumOver(f, T)
<1>1. Units(f, S \cup T) = Units(f, S) \cup Units(f, T)
  BY DEF Units
<1>2. Units(f, S) \cap Units(f, T) = {}
  BY DEF Units
<1>3. /\ IsFiniteSet(Units(f, S)) /\ SumOver(f, S) \in Nat
      /\ IsFiniteSet(Units(f, T)) /\ SumOver(f, T) \in Nat
  BY UnitsFinite
<1>4. Cardinality({}) = 0
  BY FS_EmptySet
<1>5. Cardinality(Units(f, S) \cup Units(f, T))
        = Cardinality(Units(f, S)) + Cardinality(Units(f, T))
            - Cardinality(Units(f, S) \cap Units(f, T))
  BY <1>3, FS_Union
<1>6. SumOver(f, S \cup T) = SumOver(f, S) + SumOver(f, T) - 0
  BY <1>1, <1>2, <1>4, <1>5, Zenon DEF SumOver
<1> QED
  BY <1>3, <1>6

\* One member contributes its value.
LEMMA SumSingle ==
  ASSUME NEW x, NEW f, f[x] \in Nat
  PROVE  SumOver(f, {x}) = f[x]
<1>1. Units(f, {x}) = {x} \X (1 .. f[x])
  BY DEF Units
<1>2. IsFiniteSet({x}) /\ Cardinality({x}) = 1
  BY FS_Singleton
<1>3. IsFiniteSet(1 .. f[x]) /\ Cardinality(1 .. f[x]) = f[x]
  BY IntervalCount
<1>4. Cardinality({x} \X (1 .. f[x])) = Cardinality({x}) * Cardinality(1 .. f[x])
  BY <1>2, <1>3, FS_Product
<1>5. SumOver(f, {x}) = Cardinality({x}) * Cardinality(1 .. f[x])
  BY <1>1, <1>4, Zenon DEF SumOver
<1>6. SumOver(f, {x}) = 1 * f[x]
  BY <1>2, <1>3, <1>5, Zenon
<1> QED
  BY <1>6

\* Adding a member adds its value (reserve_llm_call records one reservation).
LEMMA SumAdd ==
  ASSUME NEW S, IsFiniteSet(S), NEW x, x \notin S,
         NEW f, \A y \in S \cup {x} : f[y] \in Nat
  PROVE  SumOver(f, S \cup {x}) = SumOver(f, S) + f[x]
<1>1. IsFiniteSet({x}) /\ S \cap {x} = {}
  BY FS_Singleton
<1>2. SumOver(f, S \cup {x}) = SumOver(f, S) + SumOver(f, {x})
  BY <1>1, SumDisjoint
<1>3. SumOver(f, {x}) = f[x]
  BY SumSingle
<1> QED
  BY <1>2, <1>3

\* Removing a member subtracts its value (pop of one reservation).
LEMMA SumRemove ==
  ASSUME NEW S, IsFiniteSet(S), NEW x \in S, NEW f, \A y \in S : f[y] \in Nat
  PROVE  SumOver(f, S \ {x}) = SumOver(f, S) - f[x]
<1>1. IsFiniteSet(S \ {x}) /\ S = (S \ {x}) \cup {x}
  BY FS_RemoveElement
<1>2. SumOver(f, S) = SumOver(f, S \ {x}) + f[x]
  BY <1>1, SumAdd
<1>3. SumOver(f, S \ {x}) \in Nat
  BY <1>1, UnitsFinite
<1> QED
  BY <1>2, <1>3

\* Changing one entry changes the sum by the difference (commit and release
\* rewrite one lease of the dict).
LEMMA SumChange ==
  ASSUME NEW S, IsFiniteSet(S), NEW x \in S,
         NEW f, \A y \in S : f[y] \in Nat,
         NEW g, \A y \in S : g[y] \in Nat,
         \A y \in S \ {x} : g[y] = f[y]
  PROVE  SumOver(g, S) = SumOver(f, S) - f[x] + g[x]
<1>1. SumOver(f, S \ {x}) = SumOver(f, S) - f[x]
  BY SumRemove
<1>2. SumOver(g, S \ {x}) = SumOver(g, S) - g[x]
  BY SumRemove
<1>3. SumOver(f, S \ {x}) = SumOver(g, S \ {x})
  BY SumSame
<1>4. SumOver(f, S) \in Nat /\ SumOver(g, S) \in Nat
  BY UnitsFinite
<1> QED
  BY <1>1, <1>2, <1>3, <1>4

\* A sum over fewer members, or of smaller values, is not larger.
LEMMA SumMonotone ==
  ASSUME NEW T, IsFiniteSet(T), NEW S \in SUBSET T,
         NEW f, NEW g, \A x \in T : f[x] \in Nat /\ g[x] \in Nat,
         \A x \in S : f[x] <= g[x]
  PROVE  SumOver(f, S) <= SumOver(g, T)
<1>1. IsFiniteSet(Units(g, T))
  BY UnitsFinite
<1>2. Units(f, S) \in SUBSET Units(g, T)
  <2>1. \A x \in S : 1 .. f[x] \subseteq 1 .. g[x]
    OBVIOUS
  <2> QED BY <2>1 DEF Units
<1>3. Cardinality(Units(f, S)) <= Cardinality(Units(g, T))
  BY <1>1, <1>2, FS_Subset
<1> QED BY <1>3 DEF SumOver

----------------------------------------------------------------------------
(* Types, reservations and limits.                                         *)

\* The token ceilings of the stages are naturals (int(limit * share)).
LEMMA StageCapType ==
  ASSUME NEW stage \in Stages
  PROVE  StageCap(stage) \in Nat
<1>1. ASSUME NEW share \in 0 .. 100 PROVE StageReserve(share) \in Nat
  <2>1. TokenLimit * share \in Nat
    BY LimitAssumption
  <2> QED
    BY <2>1 DEF StageReserve
<1>2. StageReserve(ResearchShare) \in Nat /\ StageReserve(RepairShare) \in Nat
  BY <1>1, LimitAssumption
<1> QED
  BY <1>2, LimitAssumption DEF StageCap, Smaller

\* Sums over leases are naturals.
LEMMA ActiveReservedType == TypeOK => ActiveReserved \in Nat
<1> SUFFICES ASSUME TypeOK PROVE ActiveReserved \in Nat
  OBVIOUS
<1>1. \A t \in Tasks : InFlightOf(workerLeases)[t] \in Nat
  BY DEF TypeOK, Leases, InFlightOf
<1> QED
  BY <1>1, UnitsFinite, IdentityAssumption DEF ActiveReserved

\* The latch stays Boolean whichever counter it is computed from.
LEMMA ForcedType ==
  ASSUME TypeOK, NEW a, NEW b, NEW c, NEW d
  PROVE  Forced(a, b, c, d) \in BOOLEAN
BY DEF Forced, TypeOK

-----------------------------------------------------------------------------
\* Settling a call keeps every counter a natural number: the floor at zero in
\* commit_llm_usage and release_llm_reservation.
LEMMA SettleType ==
  ASSUME TypeOK, NEW c \in Calls, NEW n \in Nat,
         CommitUsage(c, n) \/ ReleaseReservation(c)
  PROVE  /\ usedTokens' \in Nat /\ llmCalls' \in Nat /\ forceSynthesis' \in BOOLEAN
         /\ reservedNonworkerTokens' \in Nat /\ reservedLlmCalls' \in Nat
         /\ workerLeases' \in [Tasks -> Leases] /\ llmReservations' \subseteq Calls
<1>0. calls[c].est \in Nat /\ calls[c].task \in Tasks \cup {NoTask}
  BY DEF TypeOK, CallRecords
<1>1. CASE c \notin llmReservations
  BY <1>1 DEF TypeOK, CommitUsage, ReleaseReservation, Unpopped, counterVars, reserveVars
<1>2. CASE c \in llmReservations
  <2>1. PopReservation(c)
    BY <1>2 DEF CommitUsage, ReleaseReservation
  <2>2. llmCalls' \in Nat /\ reservedLlmCalls' \in Nat /\ llmReservations' \subseteq Calls
    BY <2>1 DEF TypeOK, PopReservation, Larger
  <2>3. PICK k \in Nat : Refund(c, k)
    BY <1>0, <1>2 DEF CommitUsage, ReleaseReservation, Charge
  <2>4. reservedNonworkerTokens' \in Nat /\ workerLeases' \in [Tasks -> Leases]
    <3>1. CASE calls[c].task = NoTask
      BY <1>0, <2>3, <3>1 DEF Refund, TypeOK, Larger
    <3>2. CASE calls[c].task \in Tasks
      <4>1. calls[c].task # NoTask
        BY <3>2, IdentityAssumption
      <4>2. CASE workerLeases[calls[c].task].active
        <5> DEFINE t == calls[c].task
        <5>1. workerLeases' = [workerLeases EXCEPT ![t].used = @ + k,
                                 ![t].inFlight = Larger(0, @ - calls[c].est)]
          BY <2>3, <4>1, <4>2 DEF Refund
        <5>2. workerLeases[t] \in Leases
          BY <3>2 DEF TypeOK
        <5>3. workerLeases[t].used + k \in Nat
          BY <5>2 DEF Leases
        <5>4. Larger(0, workerLeases[t].inFlight - calls[c].est) \in Nat
          BY <1>0, <5>2 DEF Leases, Larger
        <5> QED
          BY <2>3, <3>2, <4>1, <5>1, <5>2, <5>3, <5>4 DEF TypeOK, Leases, Refund
      <4>3. CASE ~workerLeases[calls[c].task].active
        BY <2>3, <4>1, <4>3 DEF Refund, TypeOK
      <4> QED BY <4>2, <4>3
    <3> QED BY <1>0, <3>1, <3>2
  <2>5. usedTokens' \in Nat
    BY <1>0, <1>2 DEF CommitUsage, ReleaseReservation, Charge, TypeOK
  <2>6. forceSynthesis' \in BOOLEAN
    BY <1>2, ForcedType DEF CommitUsage, ReleaseReservation, TypeOK
  <2> QED
    BY <2>2, <2>4, <2>5, <2>6
<1> QED BY <1>1, <1>2

\* Settling rewrites only the pc and the charge of the call's record.
LEMMA SettleCallType ==
  ASSUME TypeOK, NEW c \in Calls, NEW n \in Nat,
         NEW pc \in {"idle", "sent", "ended", "failed", "done"},
         Settle(c, pc, n) \/ calls' = [calls EXCEPT ![c].pc = pc]
  PROVE  calls' \in [Calls -> CallRecords]
<1>1. calls[c] \in CallRecords /\ calls[c].charge + n \in Nat
  BY DEF TypeOK, CallRecords
<1> QED
  BY <1>1 DEF Settle, TypeOK, CallRecords

\* Every action of a worker keeps the types.
LEMMA WorkerType ==
  ASSUME TypeOK, NEW t \in Tasks, WorkerNext(t)
  PROVE  TypeOK'
<1> USE DEF counterVars, reserveVars
<1>1. CASE \E stage \in Stages : \E requested \in RequestableCeilings(stage) :
             ReserveWorkerLease(t, stage, requested)
  <2>0. PICK stage \in Stages : \E requested \in RequestableCeilings(stage) :
               ReserveWorkerLease(t, stage, requested)
    BY <1>1
  <2>1. PICK requested \in RequestableCeilings(stage) :
               ReserveWorkerLease(t, stage, requested)
    BY <2>0
  <2>2. requested \in Int
    <3>1. ASSUME NEW w \in WaveSizes PROVE FairShare(stage, w) \in Int
      <4>1. StageCap(stage) \in Nat /\ w \in Nat \ {0}
        BY StageCapType, InputAssumption
      <4> QED BY <4>1 DEF FairShare, Larger
    <3> QED BY <3>1, InputAssumption DEF RequestableCeilings
  <2>3. GrantableTokens(stage) \in Int
    BY StageCapType, ActiveReservedType, LimitAssumption
       DEF GrantableTokens, Smaller, EffectiveUsed, EffectiveReserved, TypeOK
  <2>4. Larger(0, Smaller(requested, GrantableTokens(stage))) \in Nat
    BY <2>2, <2>3 DEF Larger, Smaller
  <2>5. workerLeases' \in [Tasks -> Leases]
    <3> DEFINE n == Larger(0, Smaller(requested, GrantableTokens(stage)))
               r == [NoLease EXCEPT !.active = TRUE, !.stage = stage, !.ceiling = n,
                                    !.maxCalls = MaxCallsPerWorker]
    <3>1. workerLeases' = [workerLeases EXCEPT ![t] = r]
      BY <2>1 DEF ReserveWorkerLease
    <3> HIDE DEF n
    <3>2. n \in Nat
      BY <2>4 DEF n
    <3>3. r \in Leases
      BY <3>2, LimitAssumption DEF NoLease, Leases, Stages
    <3> HIDE DEF r
    <3> QED
      BY <3>1, <3>3 DEF TypeOK
  <2> QED
    BY <2>1, <2>5 DEF ReserveWorkerLease, TypeOK
<1>2. CASE ReleaseWorkerLease(t)
  <2> DEFINE gone == ReservationsOf(t)
  <2>1. IsFiniteSet(llmReservations) /\ gone \subseteq llmReservations
    BY IdentityAssumption, FS_Subset DEF TypeOK, ReservationsOf
  <2>2. Cardinality(gone) \in Nat
    BY <2>1, FS_Subset, FS_CardinalityType
  <2>3. workerLeases' \in [Tasks -> Leases]
    BY <1>2 DEF ReleaseWorkerLease, TypeOK, NoLease, Leases, Stages
  <2> HIDE DEF gone
  <2>4. /\ reservedLlmCalls' = Larger(0, reservedLlmCalls - Cardinality(gone))
        /\ llmCalls' = llmCalls + Cardinality(gone)
        /\ llmReservations' = llmReservations \ gone
    BY <1>2 DEF ReleaseWorkerLease, gone
  <2>5. forceSynthesis' \in BOOLEAN
    BY <1>2, ForcedType DEF ReleaseWorkerLease
  <2> QED
    BY <1>2, <2>2, <2>3, <2>4, <2>5 DEF ReleaseWorkerLease, TypeOK, Larger
<1>3. CASE GrantFinalizationCall(t)
  <2>1. workerLeases' \in [Tasks -> Leases]
    BY <1>3 DEF GrantFinalizationCall, TypeOK, Leases
  <2> QED
    BY <1>3, <2>1 DEF GrantFinalizationCall, TypeOK
<1>4. CASE \E c \in Calls, phase \in {"execute", "finalize"}, est \in Estimates :
             ReserveWorkerCall(c, t, phase, est)
  <2>1. PICK c \in Calls, phase \in {"execute", "finalize"}, est \in Estimates :
               ReserveWorkerCall(c, t, phase, est)
    BY <1>4
  <2>2. est \in Nat /\ workerLeases[t] \in Leases
    BY InputAssumption DEF TypeOK
  <2>3. workerLeases' \in [Tasks -> Leases]
    BY <2>1, <2>2 DEF ReserveWorkerCall, TypeOK, Leases
  <2>4. calls' \in [Calls -> CallRecords]
    BY <2>1, <2>2 DEF ReserveWorkerCall, RecordReservation, TypeOK, CallRecords, Leases, Phases
  <2> QED
    BY <2>1, <2>3, <2>4 DEF ReserveWorkerCall, RecordReservation, TypeOK
<1> QED
  BY <1>1, <1>2, <1>3, <1>4 DEF WorkerNext

\* Every action of a call keeps the types.
LEMMA CallType ==
  ASSUME TypeOK, NEW c \in Calls, CallNext(c)
  PROVE  TypeOK'
<1> USE DEF counterVars, reserveVars
<1>0. calls[c] \in CallRecords /\ calls[c].est \in Nat
  BY DEF TypeOK, CallRecords
<1>1. CASE \E phase \in {"research", "synthesis"}, est \in Estimates :
             ReserveNonworkerCall(c, phase, est)
  <2>1. PICK phase \in {"research", "synthesis"}, est \in Estimates :
               ReserveNonworkerCall(c, phase, est)
    BY <1>1
  <2>2. est \in Nat
    BY InputAssumption
  <2>3. calls' \in [Calls -> CallRecords]
    BY <2>1, <2>2 DEF ReserveNonworkerCall, RecordReservation, TypeOK, CallRecords, Phases, Stages
  <2> QED
    BY <2>1, <2>2, <2>3 DEF ReserveNonworkerCall, RecordReservation, TypeOK
<1>2. CASE \E actual \in Actuals(c) : OnLlmEnd(c, actual)
  <2>1. PICK actual \in Actuals(c) : OnLlmEnd(c, actual)
    BY <1>2
  <2>2. actual \in Nat /\ Charge(c, actual) \in Nat
    BY <1>0, InputAssumption DEF Actuals, Charge
  <2>3. calls' \in [Calls -> CallRecords]
    BY <2>1, <2>2, SettleCallType DEF OnLlmEnd
  <2>4. tracker' \in [tokens : Nat, calls : Nat]
    BY <2>1, <2>2 DEF OnLlmEnd, TypeOK
  <2>5. CommitUsage(c, actual)
    BY <2>1 DEF OnLlmEnd
  <2>6. UNCHANGED <<toolCalls, toolCallLimit, clock>>
    BY <2>1 DEF OnLlmEnd
  <2> QED
    BY <2>2, <2>3, <2>4, <2>5, <2>6, SettleType DEF TypeOK
<1>3. CASE \E pc \in {"ended", "failed"} : OnLlmError(c, pc)
  <2>1. PICK pc \in {"ended", "failed"} : OnLlmError(c, pc)
    BY <1>3
  <2>2. calls' \in [Calls -> CallRecords]
    BY <2>1, SettleCallType DEF OnLlmError
  <2> QED
    BY <2>1, <2>2, SettleType DEF OnLlmError, TypeOK
<1>4. CASE \E pc \in {"ended", "failed"} : ReturnUnobserved(c, pc)
  <2>1. PICK pc \in {"ended", "failed"} : ReturnUnobserved(c, pc)
    BY <1>4
  <2>2. calls' \in [Calls -> CallRecords]
    BY <2>1, SettleCallType DEF ReturnUnobserved
  <2> QED
    BY <2>1, <2>2 DEF ReturnUnobserved, TypeOK
<1>5. CASE FinishReservation(c)
  <2>1. calls' \in [Calls -> CallRecords]
    BY <1>0, <1>5, SettleCallType DEF FinishReservation
  <2>2. CASE calls[c].held
    BY <1>0, <1>5, <2>1, <2>2, SettleType DEF FinishReservation, TypeOK
  <2>3. CASE ~calls[c].held
    BY <1>5, <2>1, <2>3 DEF FinishReservation, TypeOK, Unpopped
  <2> QED BY <2>2, <2>3
<1>6. CASE FailReservation(c)
  <2>1. calls' \in [Calls -> CallRecords]
    BY <1>6, SettleCallType DEF FailReservation
  <2>2. CASE calls[c].held
    BY <1>6, <2>1, <2>2, SettleType DEF FailReservation, TypeOK
  <2>3. CASE ~calls[c].held
    BY <1>6, <2>1, <2>3 DEF FailReservation, TypeOK, Unpopped
  <2> QED BY <2>2, <2>3
<1> QED
  BY <1>1, <1>2, <1>3, <1>4, <1>5, <1>6 DEF CallNext, Answer, Unwind

\* TypeOK: the counters are naturals, leases and calls keep their shape.
THEOREM TypeCorrect == Spec => []TypeOK
<1>1. ASSUME Init PROVE TypeOK
  <2>1. NoLease \in Leases
    BY DEF NoLease, Leases, Stages
  <2>2. IdleCall \in CallRecords
    BY DEF IdleCall, CallRecords, Stages, Phases
  <2>3. workerLeases \in [Tasks -> Leases] /\ calls \in [Calls -> CallRecords]
    BY <1>1, <2>1, <2>2 DEF Init
  <2> QED
    BY <1>1, <2>3, LimitAssumption, SessionAssumption DEF Init, TypeOK
<1>2. ASSUME TypeOK, [Next]_vars PROVE TypeOK'
  <2>1. CASE \E t \in Tasks : WorkerNext(t)
    BY <1>2, <2>1, WorkerType
  <2>2. CASE \E c \in Calls : CallNext(c)
    BY <1>2, <2>2, CallType
  <2>3. CASE \E n \in ToolBatches : ReserveToolCalls(n)
    BY <1>2, <2>3, InputAssumption, ForcedType DEF ReserveToolCalls, TypeOK, reserveVars
  <2>4. CASE CapToolCalls
    BY <1>2, <2>4, InputAssumption, ForcedType DEF CapToolCalls, TypeOK, reserveVars
  <2>5. CASE SyncFromUsage
    BY <1>2, <2>5, ForcedType DEF SyncFromUsage, TypeOK, reserveVars, Larger
  <2>6. CASE QueryForceSynthesis
    BY <1>2, <2>6, ForcedType DEF QueryForceSynthesis, TypeOK, reserveVars
  <2>7. CASE Tick
    BY <1>2, <2>7 DEF Tick, TypeOK, counterVars, reserveVars
  <2>8. CASE UNCHANGED vars
    BY <1>2, <2>8 DEF vars, TypeOK
  <2> QED
    BY <1>2, <2>1, <2>2, <2>3, <2>4, <2>5, <2>6, <2>7, <2>8 DEF Next
<1> QED
  BY <1>1, <1>2, PTL DEF Spec

-----------------------------------------------------------------------------
(* The exactness of the reservation counters.                              *)

\* What the live reservations of u hold.
HeldFor(u) == SumOver(Ests, Live(u))

\* A live reservation belongs to a call that was made, for at least a token.
LiveCallsMade ==
  \A c \in llmReservations : calls[c].pc # "idle" /\ calls[c].est >= 1

\* Live reservations are finitely many and their estimates are naturals.
LEMMA LiveFacts ==
  ASSUME TypeOK, NEW u
  PROVE  /\ IsFiniteSet(llmReservations) /\ IsFiniteSet(Live(u))
         /\ Live(u) \subseteq Calls
         /\ \A c \in Calls : Ests[c] \in Nat
         /\ HeldFor(u) \in Nat
<1>1. IsFiniteSet(llmReservations)
  BY IdentityAssumption, FS_Subset DEF TypeOK
<1>2. Live(u) \in SUBSET llmReservations
  BY DEF Live
<1>3. IsFiniteSet(Live(u))
  BY <1>1, <1>2, FS_Subset
<1>4. \A c \in Calls : Ests[c] \in Nat
  BY DEF Ests, TypeOK, CallRecords
<1>5. Live(u) \subseteq Calls
  BY <1>2 DEF TypeOK
<1> QED
  BY <1>1, <1>3, <1>4, <1>5, UnitsFinite DEF HeldFor

\* Making a reservation adds its estimate to its holder and to nobody else.
LEMMA ReserveHolds ==
  ASSUME TypeOK, TypeOK', NEW c \in Calls, c \notin llmReservations, NEW t, NEW stage,
         NEW phase, NEW est \in Nat, RecordReservation(c, t, stage, phase, est)
  PROVE  /\ HeldFor(t)' = HeldFor(t) + est
         /\ \A u : u # t => HeldFor(u)' = HeldFor(u) /\ Live(u)' = Live(u)
         /\ c \in Live(t)'
<1>1. \A d \in Calls : d # c => calls'[d] = calls[d]
  BY DEF RecordReservation, TypeOK
<1>2. calls'[c].task = t /\ calls'[c].est = est
  BY DEF RecordReservation, TypeOK
<1>3. llmReservations' = llmReservations \cup {c}
  BY DEF RecordReservation
<1>4. \A d \in Calls \ {c} : Ests'[d] = Ests[d]
  BY <1>1 DEF Ests
<1>5. Ests'[c] = est
  BY <1>2 DEF Ests
<1>6. Live(t)' = Live(t) \cup {c} /\ c \notin Live(t)
  BY <1>1, <1>2, <1>3 DEF Live, TypeOK
<1>7. ASSUME NEW u, u # t PROVE Live(u)' = Live(u) /\ c \notin Live(u)
  BY <1>1, <1>2, <1>3, <1>7 DEF Live, TypeOK
<1>8. ASSUME NEW u, c \notin Live(u) PROVE SumOver(Ests', Live(u)) = HeldFor(u)
  BY <1>4, <1>8, LiveFacts, SumSame DEF HeldFor
<1>9. HeldFor(t)' = HeldFor(t) + est
  <2>1. \A d \in Live(t) \cup {c} : Ests'[d] \in Nat
    BY <1>4, <1>5, LiveFacts
  <2>2. SumOver(Ests', Live(t) \cup {c}) = SumOver(Ests', Live(t)) + Ests'[c]
    BY <1>6, <2>1, LiveFacts, SumAdd
  <2>3. SumOver(Ests', Live(t)) = HeldFor(t)
    BY <1>6, <1>8
  <2>4. HeldFor(t)' = SumOver(Ests', Live(t) \cup {c})
    BY <1>6, Zenon DEF HeldFor
  <2> QED
    BY <1>5, <2>2, <2>3, <2>4
<1>10. ASSUME NEW u, u # t PROVE HeldFor(u)' = HeldFor(u)
  <2>1. HeldFor(u)' = SumOver(Ests', Live(u))
    BY <1>7, <1>10, Zenon DEF HeldFor
  <2> QED
    BY <1>7, <1>8, <1>10, <2>1
<1> QED
  BY <1>6, <1>7, <1>9, <1>10

\* Popping a reservation takes its estimate from its holder and nobody else.
LEMMA PopHolds ==
  ASSUME TypeOK, NEW c \in llmReservations, llmReservations' = llmReservations \ {c},
         \A d \in Calls : calls'[d].est = calls[d].est /\ calls'[d].task = calls[d].task,
         NEW t, t = calls[c].task
  PROVE  /\ HeldFor(t)' = HeldFor(t) - calls[c].est
         /\ HeldFor(t) >= calls[c].est
         /\ \A u : u # t => HeldFor(u)' = HeldFor(u)
         /\ \A u : Live(u)' \subseteq Live(u)
<1>0. c \in Calls
  BY DEF TypeOK
<1>1. Ests' = Ests
  BY DEF Ests
<1>2. \A u : Live(u)' = Live(u) \ {c}
  BY DEF Live, TypeOK
<1>3. c \in Live(t)
  BY DEF Live
<1>4. SumOver(Ests, Live(t) \ {c}) = HeldFor(t) - Ests[c]
  BY <1>3, LiveFacts, SumRemove DEF HeldFor
<1>5. Ests[c] = calls[c].est
  BY <1>0 DEF Ests
<1>6. SumOver(Ests, Live(t) \ {c}) \in Nat /\ HeldFor(t) \in Nat /\ Ests[c] \in Nat
  <2>1. IsFiniteSet(Live(t) \ {c}) /\ \A d \in Live(t) \ {c} : Ests[d] \in Nat
    BY LiveFacts, FS_RemoveElement
  <2> QED
    BY <1>0, <2>1, LiveFacts, UnitsFinite
<1>7. HeldFor(t)' = SumOver(Ests, Live(t) \ {c})
  <2>1. Live(t)' = Live(t) \ {c}
    BY <1>2
  <2> QED
    BY <1>1, <2>1, Zenon DEF HeldFor
<1>8. ASSUME NEW u, u # t PROVE HeldFor(u)' = HeldFor(u)
  <2>1. Live(u)' = Live(u)
    BY <1>2, <1>8 DEF Live
  <2> QED
    BY <1>1, <2>1, Zenon DEF HeldFor
<1>9. HeldFor(t) >= calls[c].est
  BY <1>4, <1>5, <1>6
<1> QED
  BY <1>2, <1>4, <1>5, <1>7, <1>8, <1>9

\* Rewriting one lease changes the active total by that lease's difference.
LEMMA ActiveChange ==
  ASSUME TypeOK, TypeOK', NEW t \in Tasks,
         \A u \in Tasks \ {t} : workerLeases'[u].inFlight = workerLeases[u].inFlight
  PROVE  /\ ActiveReserved' = ActiveReserved - workerLeases[t].inFlight
                                             + workerLeases'[t].inFlight
         /\ ActiveReserved \in Nat /\ ActiveReserved' \in Nat
<1> DEFINE f == InFlightOf(workerLeases)
           g == InFlightOf(workerLeases')
<1>1. \A u \in Tasks : f[u] \in Nat /\ g[u] \in Nat
  BY DEF TypeOK, Leases, InFlightOf
<1>2. \A u \in Tasks \ {t} : g[u] = f[u]
  BY DEF InFlightOf
<1>3. f[t] = workerLeases[t].inFlight /\ g[t] = workerLeases'[t].inFlight
  BY DEF InFlightOf
<1> HIDE DEF f, g
<1>4. SumOver(g, Tasks) = SumOver(f, Tasks) - f[t] + g[t]
  BY <1>1, <1>2, SumChange, IdentityAssumption
<1>5. SumOver(f, Tasks) \in Nat /\ SumOver(g, Tasks) \in Nat
  BY <1>1, UnitsFinite, IdentityAssumption
<1> QED
  BY <1>3, <1>4, <1>5 DEF ActiveReserved, f, g

\* What the leases say is unaffected when no in-flight total changes.
LEMMA ActiveSame ==
  ASSUME \A u \in Tasks : workerLeases'[u].inFlight = workerLeases[u].inFlight
  PROVE  ActiveReserved' = ActiveReserved
<1>1. InFlightOf(workerLeases') = InFlightOf(workerLeases)
  BY DEF InFlightOf
<1> QED
  BY <1>1 DEF ActiveReserved

\* The invariant behind every bound: exact counters over calls that were made.
Accounts == ReservationAccounting /\ LiveCallsMade

\* Authorising a worker's call adds its estimate to what is in flight.
LEMMA ReserveWorkerEffect ==
  ASSUME TypeOK, TypeOK', Accounts, NEW c \in Calls, NEW t \in Tasks,
         NEW phase, NEW est \in Estimates, ReserveWorkerCall(c, t, phase, est)
  PROVE  /\ Accounts'
         /\ EffectiveUsed' = EffectiveUsed + est
         /\ llmCalls' = llmCalls /\ reservedLlmCalls' = reservedLlmCalls + 1
<1>1. est \in Nat /\ est >= 1 /\ t # NoTask
  BY InputAssumption, IdentityAssumption
<1>2. PICK stage : RecordReservation(c, t, stage, phase, est)
  BY DEF ReserveWorkerCall
<1>3. c \notin llmReservations
  BY DEF Accounts, LiveCallsMade, ReserveWorkerCall
<1>4. /\ HeldFor(t)' = HeldFor(t) + est
      /\ \A u : u # t => HeldFor(u)' = HeldFor(u) /\ Live(u)' = Live(u)
  BY <1>1, <1>2, <1>3, ReserveHolds
<1>5. /\ workerLeases'[t].inFlight = workerLeases[t].inFlight + est
      /\ workerLeases'[t].active
      /\ \A u \in Tasks \ {t} : workerLeases'[u] = workerLeases[u]
  <2>1. workerLeases[t] \in Leases /\ workerLeases[t].active
    BY DEF TypeOK, ReserveWorkerCall, WorkerAdmits
  <2> QED
    BY <2>1 DEF ReserveWorkerCall, TypeOK, Leases
<1>6. llmReservations' = llmReservations \cup {c} /\ reservedLlmCalls' = reservedLlmCalls + 1
  BY <1>2 DEF RecordReservation
<1>7. ReservationAccounting'
  <2>1. Cardinality(llmReservations') = Cardinality(llmReservations) + 1
    BY <1>3, <1>6, LiveFacts, FS_AddElement
  <2>2. (reservedLlmCalls = Cardinality(llmReservations))'
    BY <1>6, <2>1 DEF Accounts, ReservationAccounting
  <2>3. (reservedNonworkerTokens = SumOver(Ests, Live(NoTask)))'
    BY <1>1, <1>4 DEF Accounts, ReservationAccounting, HeldFor, ReserveWorkerCall
  <2>4. ASSUME NEW u \in Tasks
        PROVE  (workerLeases[u].inFlight = HeldFor(u))' /\ (Live(u)' # {} => workerLeases'[u].active)
    <3>1. workerLeases[u].inFlight = HeldFor(u) /\ (Live(u) # {} => workerLeases[u].active)
      BY DEF Accounts, ReservationAccounting, HeldFor
    <3> QED
      BY <1>4, <1>5, <3>1
  <2> QED
    BY <2>2, <2>3, <2>4 DEF ReservationAccounting, HeldFor
<1>8. LiveCallsMade'
  BY <1>1, <1>2, <1>6 DEF Accounts, LiveCallsMade, RecordReservation, TypeOK
<1>9. EffectiveUsed' = EffectiveUsed + est
  <2>1. ActiveReserved' = ActiveReserved + est /\ ActiveReserved \in Nat
    <3>1. workerLeases[t].inFlight \in Nat
      BY DEF TypeOK, Leases
    <3> QED
      BY <1>1, <1>5, <3>1, ActiveChange
  <2> QED
    BY <1>1, <2>1 DEF EffectiveUsed, EffectiveReserved, ReserveWorkerCall, TypeOK
<1> QED
  BY <1>6, <1>7, <1>8, <1>9 DEF Accounts, ReserveWorkerCall

\* Authorising a call outside the workers does the same to the other counter.
LEMMA ReserveNonworkerEffect ==
  ASSUME TypeOK, TypeOK', Accounts, NEW c \in Calls,
         NEW phase, NEW est \in Estimates, ReserveNonworkerCall(c, phase, est)
  PROVE  /\ Accounts'
         /\ EffectiveUsed' = EffectiveUsed + est
         /\ llmCalls' = llmCalls /\ reservedLlmCalls' = reservedLlmCalls + 1
<1>1. est \in Nat /\ est >= 1 /\ \A u \in Tasks : u # NoTask
  BY InputAssumption, IdentityAssumption
<1>2. RecordReservation(c, NoTask, "research", phase, est)
  BY DEF ReserveNonworkerCall
<1>3. c \notin llmReservations
  BY DEF Accounts, LiveCallsMade, ReserveNonworkerCall
<1>4. /\ HeldFor(NoTask)' = HeldFor(NoTask) + est
      /\ \A u : u # NoTask => HeldFor(u)' = HeldFor(u) /\ Live(u)' = Live(u)
  BY <1>1, <1>2, <1>3, ReserveHolds
<1>5. workerLeases' = workerLeases /\ reservedNonworkerTokens' = reservedNonworkerTokens + est
  BY DEF ReserveNonworkerCall
<1>6. llmReservations' = llmReservations \cup {c} /\ reservedLlmCalls' = reservedLlmCalls + 1
  BY <1>2 DEF RecordReservation
<1>7. ReservationAccounting'
  <2>1. Cardinality(llmReservations') = Cardinality(llmReservations) + 1
    BY <1>3, <1>6, LiveFacts, FS_AddElement
  <2>2. (reservedLlmCalls = Cardinality(llmReservations))'
    BY <1>6, <2>1 DEF Accounts, ReservationAccounting
  <2>3. (reservedNonworkerTokens = HeldFor(NoTask))'
    BY <1>4, <1>5 DEF Accounts, ReservationAccounting, HeldFor
  <2>4. ASSUME NEW u \in Tasks
        PROVE  (workerLeases[u].inFlight = HeldFor(u))' /\ (Live(u)' # {} => workerLeases'[u].active)
    <3>1. workerLeases[u].inFlight = HeldFor(u) /\ (Live(u) # {} => workerLeases[u].active)
      BY DEF Accounts, ReservationAccounting, HeldFor
    <3> QED
      BY <1>1, <1>4, <1>5, <3>1
  <2> QED
    BY <2>2, <2>3, <2>4 DEF ReservationAccounting, HeldFor
<1>8. LiveCallsMade'
  BY <1>1, <1>2, <1>6 DEF Accounts, LiveCallsMade, RecordReservation, TypeOK
<1>9. EffectiveUsed' = EffectiveUsed + est
  <2>1. ActiveReserved' = ActiveReserved /\ ActiveReserved \in Nat
    BY <1>5, ActiveSame, ActiveReservedType
  <2> QED
    BY <1>1, <1>5, <2>1 DEF EffectiveUsed, EffectiveReserved, ReserveNonworkerCall, TypeOK
<1> QED
  BY <1>6, <1>7, <1>8, <1>9 DEF Accounts, ReserveNonworkerCall

\* No step but an authorisation changes what a call holds or was made for.
CallsKept ==
  \A d \in Calls : /\ calls'[d].est = calls[d].est
                   /\ calls'[d].task = calls[d].task
                   /\ calls[d].pc # "idle" => calls'[d].pc # "idle"

\* Moving a call along keeps them.
LEMMA SettleKeeps ==
  ASSUME TypeOK, NEW c \in Calls, NEW n, NEW pc \in {"ended", "failed", "done"},
         Settle(c, pc, n) \/ calls' = [calls EXCEPT ![c].pc = pc]
  PROVE  CallsKept
<1>1. calls[c] \in CallRecords /\ \A d \in Calls \ {c} : calls'[d] = calls[d]
  BY DEF Settle, TypeOK
<1>2. /\ calls'[c].est = calls[c].est /\ calls'[c].task = calls[c].task
      /\ calls'[c].pc = pc
  BY <1>1 DEF Settle, TypeOK, CallRecords
<1> QED
  BY <1>1, <1>2 DEF CallsKept

\* Settling a live reservation, by commit or by release, takes exactly its
\* estimate out of what is in flight: no floor at zero is ever reached.
LEMMA PopEffect ==
  ASSUME TypeOK, TypeOK', Accounts, NEW c \in llmReservations, NEW k \in Nat,
         PopReservation(c), Refund(c, k),
         CallsKept
  PROVE  /\ Accounts'
         /\ EffectiveReserved' = EffectiveReserved - calls[c].est
         /\ EffectiveReserved \in Nat
         /\ llmCalls' = llmCalls + 1 /\ reservedLlmCalls' = reservedLlmCalls - 1
<1> DEFINE t == calls[c].task
           e == calls[c].est
<1>0. c \in Calls /\ t \in Tasks \cup {NoTask} /\ e \in Nat /\ t = calls[c].task
  BY DEF TypeOK, CallRecords
<1>1. llmReservations' = llmReservations \ {c}
  BY DEF PopReservation
<1> HIDE DEF t
<1>2. /\ HeldFor(t)' = HeldFor(t) - e
      /\ HeldFor(t) >= e
      /\ \A u : u # t => HeldFor(u)' = HeldFor(u)
      /\ \A u : Live(u)' \subseteq Live(u)
  <2>1. t' = t
    BY <1>0 DEF t, CallsKept
  <2> QED
    BY <1>0, <1>1, <2>1, PopHolds DEF CallsKept
<1>3. \A u : HeldFor(u) \in Nat
  BY LiveFacts
<1>4. Cardinality(llmReservations') = Cardinality(llmReservations) - 1
  BY <1>1, LiveFacts, FS_RemoveElement
<1>5. /\ reservedLlmCalls' = reservedLlmCalls - 1
      /\ reservedLlmCalls' = Cardinality(llmReservations')
  <2>1. Cardinality(llmReservations') \in Nat
    BY <1>1, LiveFacts, FS_RemoveElement, FS_CardinalityType
  <2>2. reservedLlmCalls = Cardinality(llmReservations)
    BY DEF Accounts, ReservationAccounting
  <2> QED
    BY <1>4, <2>1, <2>2 DEF PopReservation, Larger, TypeOK
<1>6. LiveCallsMade'
  BY <1>1 DEF Accounts, LiveCallsMade, CallsKept, TypeOK
<1>7. CASE t = NoTask
  <2>1. \A u \in Tasks : u # t
    BY <1>7, IdentityAssumption
  <2>2. workerLeases' = workerLeases
    BY <1>0, <1>7 DEF Refund
  <2>3. reservedNonworkerTokens = HeldFor(t)
    BY <1>7 DEF Accounts, ReservationAccounting, HeldFor
  <2>4. reservedNonworkerTokens' = reservedNonworkerTokens - e
    BY <1>0, <1>2, <1>3, <1>7, <2>3 DEF Refund, Larger
  <2>5. ReservationAccounting'
    <3>1. (reservedNonworkerTokens = HeldFor(NoTask))'
      <4>1. reservedNonworkerTokens' = HeldFor(t) - e
        BY <2>3, <2>4
      <4>2. HeldFor(NoTask)' = HeldFor(NoTask) - e
        <5>1. NoTask = calls[c].task
          BY <1>0, <1>7
        <5> QED BY <1>0, <1>1, <5>1, PopHolds DEF CallsKept
      <4> QED BY <1>7, <4>1, <4>2
    <3>2. ASSUME NEW u \in Tasks
          PROVE  (workerLeases[u].inFlight = HeldFor(u))' /\ (Live(u)' # {} => workerLeases'[u].active)
      <4>1. workerLeases[u].inFlight = HeldFor(u) /\ (Live(u) # {} => workerLeases[u].active)
        BY DEF Accounts, ReservationAccounting, HeldFor
      <4> QED
        BY <1>2, <2>1, <2>2, <4>1
    <3> QED
      BY <1>5, <3>1, <3>2 DEF ReservationAccounting, HeldFor
  <2>6. ActiveReserved' = ActiveReserved /\ ActiveReserved \in Nat
    BY <2>2, ActiveSame, ActiveReservedType
  <2>7. EffectiveReserved' = EffectiveReserved - e /\ EffectiveReserved \in Nat
    BY <1>0, <2>4, <2>6 DEF EffectiveReserved, TypeOK
  <2> QED
    BY <1>5, <1>6, <2>5, <2>7 DEF Accounts, PopReservation
<1>8. CASE t \in Tasks
  <2>1. t # NoTask
    BY <1>8, IdentityAssumption
  <2>2. workerLeases[t].active /\ workerLeases[t].inFlight = HeldFor(t)
    <3>1. c \in Live(t)
      BY <1>0 DEF Live
    <3> QED
      BY <1>8, <3>1 DEF Accounts, ReservationAccounting, HeldFor
  <2>3. /\ workerLeases'[t].inFlight = Larger(0, workerLeases[t].inFlight - e)
        /\ workerLeases'[t].active
        /\ \A u \in Tasks \ {t} : workerLeases'[u] = workerLeases[u]
        /\ reservedNonworkerTokens' = reservedNonworkerTokens
    <3>1. workerLeases' = [workerLeases EXCEPT ![t].used = @ + k,
                             ![t].inFlight = Larger(0, @ - e)]
      BY <1>0, <2>1, <2>2 DEF Refund
    <3>2. reservedNonworkerTokens' = reservedNonworkerTokens
      BY <1>0, <2>1 DEF Refund
    <3>3. workerLeases[t] \in Leases
      BY <1>8 DEF TypeOK
    <3> QED
      BY <1>8, <2>2, <3>1, <3>2, <3>3 DEF TypeOK, Leases
  <2>4. workerLeases'[t].inFlight = workerLeases[t].inFlight - e
    BY <1>0, <1>2, <1>3, <2>2, <2>3 DEF Larger
  <2>5. ReservationAccounting'
    <3>1. (reservedNonworkerTokens = HeldFor(NoTask))'
      BY <1>2, <2>1, <2>3 DEF Accounts, ReservationAccounting, HeldFor
    <3>2. ASSUME NEW u \in Tasks
          PROVE  workerLeases'[u].inFlight = HeldFor(u)' /\ (Live(u)' # {} => workerLeases'[u].active)
      <4>1. workerLeases[u].inFlight = HeldFor(u) /\ (Live(u) # {} => workerLeases[u].active)
        BY DEF Accounts, ReservationAccounting, HeldFor
      <4>2. CASE u = t
        <5>1. u = calls[c].task
          BY <1>0, <4>2
        <5>2. HeldFor(u)' = HeldFor(u) - e
          BY <1>1, <5>1, PopHolds DEF CallsKept
        <5> QED
          BY <2>3, <2>4, <4>1, <4>2, <5>2
      <4>3. CASE u # t
        BY <1>2, <2>3, <4>1, <4>3
      <4> QED BY <4>2, <4>3
    <3> QED
      BY <1>5, <3>1, <3>2 DEF ReservationAccounting, HeldFor
  <2>6. /\ ActiveReserved' = ActiveReserved - e
        /\ ActiveReserved \in Nat
    <3>1. workerLeases[t].inFlight \in Nat
      BY <1>8 DEF TypeOK, Leases
    <3>2. /\ ActiveReserved' = ActiveReserved - workerLeases[t].inFlight
                                             + workerLeases'[t].inFlight
          /\ ActiveReserved \in Nat
      BY <1>8, <2>3, ActiveChange
    <3> QED
      BY <1>0, <2>4, <3>1, <3>2
  <2>7. EffectiveReserved' = EffectiveReserved - e /\ EffectiveReserved \in Nat
    BY <1>0, <2>3, <2>6 DEF EffectiveReserved, TypeOK
  <2> QED
    BY <1>5, <1>6, <2>5, <2>7 DEF Accounts, PopReservation
<1> QED
  BY <1>0, <1>7, <1>8

\* Releasing a lease drops everything in flight under it, and only that.
LEMMA ReleaseLeaseEffect ==
  ASSUME TypeOK, TypeOK', Accounts, NEW t \in Tasks, ReleaseWorkerLease(t)
  PROVE  /\ Accounts'
         /\ EffectiveUsed' <= EffectiveUsed
         /\ llmCalls' >= llmCalls
         /\ llmCalls' + reservedLlmCalls' = llmCalls + reservedLlmCalls
<1> DEFINE gone == ReservationsOf(t)
<1>1. /\ llmReservations' = llmReservations \ gone
      /\ reservedLlmCalls' = Larger(0, reservedLlmCalls - Cardinality(gone))
      /\ llmCalls' = llmCalls + Cardinality(gone)
      /\ calls' = calls /\ reservedNonworkerTokens' = reservedNonworkerTokens
      /\ usedTokens' = usedTokens
      /\ workerLeases' = [workerLeases EXCEPT ![t] = NoLease]
  BY DEF ReleaseWorkerLease
<1>2. gone = Live(t)
  BY DEF ReservationsOf, Live
<1> HIDE DEF gone
<1>3. /\ Cardinality(gone) \in Nat /\ Cardinality(llmReservations) \in Nat
      /\ Cardinality(llmReservations') = Cardinality(llmReservations) - Cardinality(gone)
      /\ Cardinality(llmReservations') \in Nat
  <2>1. IsFiniteSet(llmReservations) /\ gone \in SUBSET llmReservations
    BY <1>2, LiveFacts DEF Live
  <2>2. llmReservations \cap gone = gone
    BY <2>1
  <2>3. Cardinality(llmReservations \ gone)
          = Cardinality(llmReservations) - Cardinality(llmReservations \cap gone)
    BY <2>1, FS_Difference
  <2>4. Cardinality(llmReservations') = Cardinality(llmReservations) - Cardinality(gone)
    BY <1>1, <2>2, <2>3, Zenon
  <2>5. IsFiniteSet(gone) /\ IsFiniteSet(llmReservations')
    BY <1>1, <2>1, FS_Subset, FS_Difference
  <2> QED
    BY <2>1, <2>4, <2>5, FS_CardinalityType
<1>4. reservedLlmCalls' = Cardinality(llmReservations')
  BY <1>1, <1>3 DEF Accounts, ReservationAccounting, Larger
<1>5. Ests' = Ests
  BY <1>1 DEF Ests
<1>6. Live(t)' = {}
  BY <1>1, <1>2 DEF Live
<1>7. ASSUME NEW u, u # t PROVE Live(u)' = Live(u)
  BY <1>1, <1>2, <1>7 DEF Live
<1>8. ASSUME NEW u, u # t PROVE HeldFor(u)' = HeldFor(u)
  <2>1. Live(u)' = Live(u)
    BY <1>7, <1>8
  <2> QED
    BY <1>5, <2>1, Zenon DEF HeldFor
<1>9. HeldFor(t)' = 0
  <2>1. HeldFor(t)' = SumOver(Ests', {})
    BY <1>6, Zenon DEF HeldFor
  <2> QED
    BY <2>1, SumEmpty
<1>10. /\ workerLeases'[t].inFlight = 0
       /\ \A u \in Tasks \ {t} : workerLeases'[u] = workerLeases[u]
  BY <1>1 DEF TypeOK, NoLease
<1>11. ReservationAccounting'
  <2>1. (reservedNonworkerTokens = HeldFor(NoTask))'
    <3>1. NoTask # t
      BY IdentityAssumption
    <3> QED
      BY <1>1, <1>8, <3>1 DEF Accounts, ReservationAccounting, HeldFor
  <2>2. ASSUME NEW u \in Tasks
        PROVE  workerLeases'[u].inFlight = HeldFor(u)' /\ (Live(u)' # {} => workerLeases'[u].active)
    <3>1. workerLeases[u].inFlight = HeldFor(u) /\ (Live(u) # {} => workerLeases[u].active)
      BY DEF Accounts, ReservationAccounting, HeldFor
    <3>2. CASE u = t
      BY <1>6, <1>9, <1>10, <3>2
    <3>3. CASE u # t
      BY <1>7, <1>8, <1>10, <3>1, <3>3
    <3> QED BY <3>2, <3>3
  <2> QED
    BY <1>4, <2>1, <2>2 DEF ReservationAccounting, HeldFor
<1>12. LiveCallsMade'
  BY <1>1 DEF Accounts, LiveCallsMade
<1>13. EffectiveUsed' <= EffectiveUsed
  <2>1. workerLeases[t].inFlight \in Nat
    BY DEF TypeOK, Leases
  <2>2. /\ ActiveReserved' = ActiveReserved - workerLeases[t].inFlight + workerLeases'[t].inFlight
        /\ ActiveReserved \in Nat
    BY <1>10, ActiveChange
  <2> QED
    BY <1>1, <1>10, <2>1, <2>2 DEF EffectiveUsed, EffectiveReserved, TypeOK
<1>14. reservedLlmCalls = Cardinality(llmReservations)
  BY DEF Accounts, ReservationAccounting
<1> QED
  BY <1>1, <1>3, <1>4, <1>11, <1>12, <1>13, <1>14 DEF Accounts, TypeOK

-----------------------------------------------------------------------------
(* The bounds.                                                             *)

\* What is spent and in flight is a natural number.
LEMMA EffectiveUsedType == TypeOK => EffectiveUsed \in Nat
BY ActiveReservedType DEF EffectiveUsed, EffectiveReserved, TypeOK

\* The same of the next state.
LEMMA EffectiveUsedNext == ASSUME TypeOK' PROVE EffectiveUsed' \in Nat
<1>1. \A t \in Tasks : InFlightOf(workerLeases')[t] \in Nat
  BY DEF TypeOK, Leases, InFlightOf
<1>2. SumOver(InFlightOf(workerLeases'), Tasks) \in Nat
  BY <1>1, UnitsFinite, IdentityAssumption
<1> QED
  BY <1>2 DEF EffectiveUsed, EffectiveReserved, ActiveReserved, TypeOK

Bounds == CallCap /\ BoundedOvershoot

\* The three ways a step may move the counters: it authorises nothing, it
\* settles one call, or it authorises one call under both limits.
Idles == /\ EffectiveUsed' <= EffectiveUsed /\ llmCalls' >= llmCalls
         /\ llmCalls' + reservedLlmCalls' = llmCalls + reservedLlmCalls
SettlesOne == /\ EffectiveUsed' <= EffectiveUsed + Overrun
              /\ llmCalls' = llmCalls + 1 /\ reservedLlmCalls' = reservedLlmCalls - 1
AuthorisesOne == /\ EffectiveUsed' <= TokenLimit /\ CallCapFree
                 /\ llmCalls' = llmCalls /\ reservedLlmCalls' = reservedLlmCalls + 1

\* Each of them keeps the call limit and the bound on overshoot.
LEMMA BoundsKept ==
  ASSUME TypeOK, TypeOK', Bounds, SyncsUsage \/ Idles \/ SettlesOne \/ AuthorisesOne
  PROVE  Bounds'
<1> SUFFICES ASSUME ~SyncsUsage
             PROVE  /\ llmCalls' + reservedLlmCalls' <= LlmCallLimit
                    /\ EffectiveUsed' <= TokenLimit + Overrun * llmCalls'
  BY DEF Bounds, CallCap, BoundedOvershoot
<1>1. /\ llmCalls + reservedLlmCalls <= LlmCallLimit
      /\ EffectiveUsed <= TokenLimit + Overrun * llmCalls
  BY DEF Bounds, CallCap, BoundedOvershoot
<1>2. /\ EffectiveUsed \in Nat /\ llmCalls \in Nat /\ reservedLlmCalls \in Nat
      /\ EffectiveUsed' \in Nat /\ llmCalls' \in Nat /\ reservedLlmCalls' \in Nat
  <2>1. EffectiveUsed' \in Nat
    BY EffectiveUsedNext
  <2> QED
    BY <2>1, EffectiveUsedType DEF TypeOK
<1>3. /\ Overrun \in Nat /\ TokenLimit \in Nat /\ LlmCallLimit \in Nat
  BY LimitAssumption, InputAssumption
<1>4. ASSUME NEW m \in Nat, NEW n \in Nat, m <= n PROVE Overrun * m <= Overrun * n
  BY <1>3, <1>4
<1>5. ASSUME NEW m \in Nat PROVE Overrun * (m + 1) = Overrun * m + Overrun /\ Overrun * m \in Nat
  BY <1>3
<1>6. CASE Idles
  <2>1. Overrun * llmCalls <= Overrun * llmCalls'
    BY <1>2, <1>4, <1>6 DEF Idles
  <2>2. Overrun * llmCalls \in Nat /\ Overrun * llmCalls' \in Nat
    BY <1>2, <1>5
  <2>3. EffectiveUsed' <= EffectiveUsed
        /\ llmCalls' + reservedLlmCalls' = llmCalls + reservedLlmCalls
    BY <1>6 DEF Idles
  <2> DEFINE p == Overrun * llmCalls
             q == Overrun * llmCalls'
  <2>4. p \in Nat /\ q \in Nat /\ p <= q /\ EffectiveUsed <= TokenLimit + p
    BY <1>1, <2>1, <2>2
  <2> HIDE DEF p, q
  <2>5. EffectiveUsed' <= TokenLimit + q
    BY <1>2, <1>3, <2>3, <2>4
  <2> QED
    BY <1>1, <2>3, <2>5 DEF q
<1>7. CASE SettlesOne
  <2> DEFINE p == Overrun * llmCalls
             q == Overrun * llmCalls'
  <2>1. q = p + Overrun /\ p \in Nat /\ EffectiveUsed <= TokenLimit + p
    BY <1>1, <1>2, <1>5, <1>7 DEF SettlesOne
  <2> HIDE DEF p, q
  <2>2. EffectiveUsed' <= TokenLimit + q
    BY <1>2, <1>3, <1>7, <2>1 DEF SettlesOne
  <2>3. llmCalls' + reservedLlmCalls' <= LlmCallLimit
    BY <1>1, <1>2, <1>7 DEF SettlesOne
  <2> QED
    BY <2>2, <2>3 DEF q
<1>8. CASE AuthorisesOne
  <2>1. Overrun * llmCalls' \in Nat
    BY <1>2, <1>5
  <2> QED
    BY <1>1, <1>2, <1>3, <1>8, <2>1 DEF AuthorisesOne, CallCapFree
<1> QED
  BY <1>6, <1>7, <1>8

\* A step that leaves the counters, the leases and the reservations alone
\* keeps them exact, whatever it does to the records of the calls' progress.
LEMMA QuietAccounts ==
  ASSUME TypeOK, TypeOK', Accounts,
         UNCHANGED <<workerLeases, reservedNonworkerTokens, reservedLlmCalls,
                     llmReservations>>,
         CallsKept
  PROVE  Accounts'
<1>3. Ests' = Ests
  BY DEF Ests, CallsKept
<1>4. ASSUME NEW u PROVE Live(u)' = Live(u)
  BY DEF Live, TypeOK, CallsKept
<1>5. ASSUME NEW u PROVE HeldFor(u)' = HeldFor(u)
  BY <1>3, <1>4, Zenon DEF HeldFor
<1>6. ReservationAccounting'
  <2>1. (reservedLlmCalls = Cardinality(llmReservations))'
    BY DEF Accounts, ReservationAccounting
  <2>2. (reservedNonworkerTokens = HeldFor(NoTask))'
    BY <1>5 DEF Accounts, ReservationAccounting, HeldFor
  <2>3. ASSUME NEW u \in Tasks
        PROVE  workerLeases'[u].inFlight = HeldFor(u)' /\ (Live(u)' # {} => workerLeases'[u].active)
    <3>1. workerLeases[u].inFlight = HeldFor(u) /\ (Live(u) # {} => workerLeases[u].active)
      BY DEF Accounts, ReservationAccounting, HeldFor
    <3> QED BY <1>4, <1>5, <3>1
  <2> QED
    BY <2>1, <2>2, <2>3 DEF ReservationAccounting, HeldFor
<1>7. LiveCallsMade'
  BY DEF Accounts, LiveCallsMade, TypeOK, CallsKept
<1> QED
  BY <1>6, <1>7 DEF Accounts

\* If it leaves usage alone as well, it authorises nothing.
LEMMA QuietEffect ==
  ASSUME TypeOK, TypeOK', Accounts,
         UNCHANGED <<usedTokens, llmCalls, workerLeases, reservedNonworkerTokens,
                     reservedLlmCalls, llmReservations>>,
         CallsKept
  PROVE  Accounts' /\ Idles
<1>1. ActiveReserved' = ActiveReserved
  BY ActiveSame
<1>2. Idles
  BY <1>1, EffectiveUsedType DEF Idles, EffectiveUsed, EffectiveReserved, TypeOK
<1> QED BY <1>2, QuietAccounts

\* A settlement either finds its reservation popped and changes nothing, or
\* settles exactly one call for at most the estimation error on top.
LEMMA SettleEffect ==
  ASSUME TypeOK, TypeOK', Accounts, NEW c \in Calls, NEW n \in Nat,
         \/ CommitUsage(c, n) /\ Charge(c, n) <= calls[c].est + Overrun
         \/ ReleaseReservation(c),
         CallsKept
  PROVE  Accounts' /\ (Idles \/ SettlesOne)
<1>0. calls[c].est \in Nat /\ Charge(c, n) \in Nat
  BY DEF TypeOK, CallRecords, Charge
<1>1. CASE c \notin llmReservations
  <2>1. Unpopped
    BY <1>1 DEF CommitUsage, ReleaseReservation
  <2> QED
    BY <2>1, QuietEffect DEF Unpopped, counterVars, reserveVars
<1>2. CASE c \in llmReservations
  <2>1. PopReservation(c)
    BY <1>2 DEF CommitUsage, ReleaseReservation
  <2>2. PICK k \in Nat : /\ Refund(c, k)
                         /\ usedTokens' <= usedTokens + calls[c].est + Overrun
    BY <1>0, <1>2, InputAssumption DEF CommitUsage, ReleaseReservation, TypeOK
  <2>3. /\ Accounts'
        /\ EffectiveReserved' = EffectiveReserved - calls[c].est
        /\ EffectiveReserved \in Nat
        /\ llmCalls' = llmCalls + 1 /\ reservedLlmCalls' = reservedLlmCalls - 1
    BY <1>2, <2>1, <2>2, PopEffect
  <2>4. EffectiveUsed' <= EffectiveUsed + Overrun
    BY <1>0, <2>2, <2>3, InputAssumption DEF EffectiveUsed, TypeOK
  <2> QED
    BY <2>3, <2>4 DEF SettlesOne
<1> QED BY <1>1, <1>2

\* Every step keeps the counters exact, and moves usage in one of three ways
\* unless it reconciles, which only the direct runtime does.
LEMMA StepEffect ==
  ASSUME TypeOK, TypeOK', Accounts, [Next]_vars
  PROVE  Accounts' /\ (SyncsUsage \/ Idles \/ SettlesOne \/ AuthorisesOne)
<1>1. ASSUME NEW t \in Tasks, WorkerNext(t)
      PROVE  Accounts' /\ (Idles \/ AuthorisesOne)
  <2>1. CASE ReleaseWorkerLease(t)
    BY <2>1, ReleaseLeaseEffect DEF Idles
  <2>2. CASE \E c \in Calls, phase \in {"execute", "finalize"}, est \in Estimates :
               ReserveWorkerCall(c, t, phase, est)
    <3>1. PICK c \in Calls, phase \in {"execute", "finalize"}, est \in Estimates :
                 ReserveWorkerCall(c, t, phase, est)
      BY <2>2
    <3>2. CallCapFree /\ EffectiveUsed + est <= TokenLimit
      BY <3>1 DEF ReserveWorkerCall, RunAdmits
    <3> QED
      BY <3>1, <3>2, ReserveWorkerEffect DEF AuthorisesOne
  <2>3. CASE \/ \E stage \in Stages : \E requested \in RequestableCeilings(stage) :
                  ReserveWorkerLease(t, stage, requested)
             \/ GrantFinalizationCall(t)
    <3>1. /\ UNCHANGED <<usedTokens, llmCalls, reserveVars, calls>>
          /\ workerLeases[t] \in Leases
      BY <2>3 DEF ReserveWorkerLease, GrantFinalizationCall, TypeOK
    <3>2. /\ workerLeases'[t].inFlight = workerLeases[t].inFlight
          /\ workerLeases'[t].active
          /\ \A u \in Tasks \ {t} : workerLeases'[u] = workerLeases[u]
      <4>1. CASE GrantFinalizationCall(t)
        BY <3>1, <4>1 DEF GrantFinalizationCall, TypeOK, Leases
      <4>2. CASE \E stage \in Stages : \E requested \in RequestableCeilings(stage) :
                   ReserveWorkerLease(t, stage, requested)
        <5>1. PICK stage \in Stages : \E requested \in RequestableCeilings(stage) :
                     ReserveWorkerLease(t, stage, requested)
          BY <4>2
        <5>2. PICK requested \in RequestableCeilings(stage) :
                     ReserveWorkerLease(t, stage, requested)
          BY <5>1
        <5>3. Live(t) = {}
          BY <5>2 DEF ReserveWorkerLease, Accounts, ReservationAccounting
        <5>4. workerLeases[t].inFlight = 0
          BY <5>3, SumEmpty DEF Accounts, ReservationAccounting
        <5>5. workerLeases'[t].inFlight = 0 /\ workerLeases'[t].active
          BY <5>2 DEF ReserveWorkerLease, NoLease, TypeOK
        <5> QED
          BY <5>2, <5>4, <5>5 DEF ReserveWorkerLease, TypeOK
      <4> QED BY <2>3, <4>1, <4>2
    <3>3. /\ llmReservations' = llmReservations /\ reservedLlmCalls' = reservedLlmCalls
          /\ reservedNonworkerTokens' = reservedNonworkerTokens /\ calls' = calls
          /\ usedTokens' = usedTokens /\ llmCalls' = llmCalls
      BY <3>1 DEF reserveVars
    <3>4. Ests' = Ests /\ \A u : Live(u)' = Live(u)
      BY <3>3 DEF Ests, Live
    <3>5. Accounts'
      BY <3>2, <3>3, <3>4 DEF Accounts, ReservationAccounting, LiveCallsMade
    <3>6. ActiveReserved' = ActiveReserved
      BY <3>2, ActiveSame
    <3>7. EffectiveUsed' <= EffectiveUsed
      BY <3>3, <3>6, EffectiveUsedType DEF EffectiveUsed, EffectiveReserved
    <3> QED
      BY <3>3, <3>5, <3>7 DEF Idles, TypeOK
  <2> QED
    BY <1>1, <2>1, <2>2, <2>3 DEF WorkerNext
<1>2. ASSUME NEW c \in Calls, CallNext(c)
      PROVE  Accounts' /\ (Idles \/ SettlesOne \/ AuthorisesOne)
  <2>0. calls[c].est \in Nat
    BY DEF TypeOK, CallRecords
  <2>1. ASSUME Unpopped, CallsKept PROVE Accounts' /\ Idles
    BY <2>1, QuietEffect DEF Unpopped, counterVars, reserveVars
  <2>2. CASE \E phase \in {"research", "synthesis"}, est \in Estimates :
               ReserveNonworkerCall(c, phase, est)
    <3>1. PICK phase \in {"research", "synthesis"}, est \in Estimates :
                 ReserveNonworkerCall(c, phase, est)
      BY <2>2
    <3>2. CallCapFree /\ EffectiveUsed + est <= TokenLimit
      BY <3>1 DEF ReserveNonworkerCall, RunAdmits
    <3> QED
      BY <3>1, <3>2, ReserveNonworkerEffect DEF AuthorisesOne
  <2>3. CASE \E actual \in Actuals(c) : OnLlmEnd(c, actual)
    <3>1. PICK actual \in Actuals(c) : OnLlmEnd(c, actual)
      BY <2>3
    <3>2. CommitUsage(c, actual) /\ Settle(c, "ended", Charge(c, actual))
      BY <3>1 DEF OnLlmEnd
    <3>3. CallsKept
      BY <3>2, SettleKeeps
    <3>4. CASE c \in llmReservations
      <4>1. calls[c].est >= 1
        BY <3>4 DEF Accounts, LiveCallsMade
      <4>2. actual \in Nat /\ Charge(c, actual) <= calls[c].est + Overrun
        BY <2>0, <4>1, InputAssumption DEF Actuals, Charge
      <4> QED
        BY <3>2, <3>3, <4>2, SettleEffect
    <3>5. CASE c \notin llmReservations
      BY <2>1, <3>2, <3>3, <3>5 DEF CommitUsage
    <3> QED BY <3>4, <3>5
  <2>4. CASE \E pc \in {"ended", "failed"} : OnLlmError(c, pc)
    <3>1. PICK pc \in {"ended", "failed"} : ReleaseReservation(c) /\ Settle(c, pc, 0)
      BY <2>4 DEF OnLlmError
    <3>2. CallsKept
      BY <3>1, SettleKeeps
    <3> QED
      BY <3>1, <3>2, SettleEffect
  <2>5. CASE \E pc \in {"ended", "failed"} : ReturnUnobserved(c, pc)
    <3>1. PICK pc \in {"ended", "failed"} : calls' = [calls EXCEPT ![c].pc = pc] /\ Unpopped
      BY <2>5 DEF ReturnUnobserved, Unpopped
    <3>2. CallsKept
      BY <3>1, SettleKeeps
    <3> QED
      BY <2>1, <3>1, <3>2
  <2>6. CASE FinishReservation(c)
    <3>1. CASE calls[c].held
      <4>1. CommitUsage(c, calls[c].est) /\ Settle(c, "done", calls[c].est)
        BY <2>6, <3>1 DEF FinishReservation
      <4>2. CallsKept
        BY <4>1, SettleKeeps
      <4>3. Charge(c, calls[c].est) <= calls[c].est + Overrun
        BY <2>0, InputAssumption DEF Charge
      <4> QED
        BY <2>0, <4>1, <4>2, <4>3, SettleEffect
    <3>2. CASE ~calls[c].held
      <4>1. Unpopped /\ calls' = [calls EXCEPT ![c].pc = "done"]
        BY <2>6, <3>2 DEF FinishReservation
      <4>2. CallsKept
        BY <4>1, SettleKeeps
      <4> QED
        BY <2>1, <4>1, <4>2
    <3> QED BY <3>1, <3>2
  <2>7. CASE FailReservation(c)
    <3>1. CASE calls[c].held
      <4>1. ReleaseReservation(c) /\ Settle(c, "done", 0)
        BY <2>7, <3>1 DEF FailReservation
      <4>2. CallsKept
        BY <4>1, SettleKeeps
      <4> QED
        BY <4>1, <4>2, SettleEffect
    <3>2. CASE ~calls[c].held
      <4>1. Unpopped /\ calls' = [calls EXCEPT ![c].pc = "done"]
        BY <2>7, <3>2 DEF FailReservation
      <4>2. CallsKept
        BY <4>1, SettleKeeps
      <4> QED
        BY <2>1, <4>1, <4>2
    <3> QED BY <3>1, <3>2
  <2> QED
    BY <1>2, <2>2, <2>3, <2>4, <2>5, <2>6, <2>7 DEF CallNext, Answer, Unwind
<1>3. ASSUME UNCHANGED <<usedTokens, llmCalls, reserveVars, workerLeases, calls>>
      PROVE  Accounts' /\ Idles
  BY <1>3, QuietEffect DEF reserveVars, CallsKept
<1>4. CASE \/ \E n \in ToolBatches : ReserveToolCalls(n)
           \/ CapToolCalls \/ QueryForceSynthesis \/ Tick \/ UNCHANGED vars
  <2>1. UNCHANGED <<usedTokens, llmCalls, reserveVars, workerLeases, calls>>
    BY <1>4 DEF ReserveToolCalls, CapToolCalls, QueryForceSynthesis, Tick, vars,
                counterVars, reserveVars
  <2> QED
    BY <1>3, <2>1
<1>5. CASE SyncFromUsage
  <2>1. UNCHANGED <<workerLeases, reservedNonworkerTokens, reservedLlmCalls, llmReservations,
                    calls>>
    BY <1>5 DEF SyncFromUsage, reserveVars
  <2>2. Accounts'
    BY <2>1, QuietAccounts DEF CallsKept
  <2> QED BY <1>5, <2>2 DEF SyncFromUsage
<1> QED
  BY <1>1, <1>2, <1>4, <1>5 DEF Next

\* The invariant that is inductive: types, exact counters, and the bounds.
IInv == TypeOK /\ Accounts /\ Bounds

\* Initially nothing is held, spent or leased.
LEMMA InitIInv == ASSUME Init, TypeOK PROVE Accounts /\ Bounds
<1>1. /\ llmReservations = {} /\ usedTokens = 0 /\ llmCalls = 0
      /\ reservedNonworkerTokens = 0 /\ reservedLlmCalls = 0
      /\ \A t \in Tasks : workerLeases[t] = NoLease
  BY DEF Init
<1>2. \A u : Live(u) = {}
  BY <1>1 DEF Live
<1>3. Accounts
  BY <1>1, <1>2, SumEmpty, FS_EmptySet
     DEF Accounts, ReservationAccounting, LiveCallsMade, NoLease
<1>4. ActiveReserved = 0
  <2>1. \A t \in Tasks : InFlightOf(workerLeases)[t] = 0
    BY <1>1 DEF InFlightOf, NoLease
  <2>2. Units(InFlightOf(workerLeases), Tasks) = {}
    BY <2>1 DEF Units
  <2> QED
    BY <2>2, FS_EmptySet, Zenon DEF ActiveReserved, SumOver
<1>5. EffectiveUsed = 0
  BY <1>1, <1>4 DEF EffectiveUsed, EffectiveReserved
<1>6. Overrun * llmCalls = 0
  BY <1>1, InputAssumption
<1> QED
  BY <1>1, <1>3, <1>5, <1>6, LimitAssumption DEF Bounds, CallCap, BoundedOvershoot

\* The counters stay exact, and for a run that does not reconcile the bounds
\* hold.
LEMMA BudgetInvariant == Spec => []IInv
<1>1. ASSUME Init, TypeOK PROVE IInv
  BY <1>1, InitIInv DEF IInv
<1>2. ASSUME IInv, [Next]_vars, TypeOK' PROVE IInv'
  <2>1. Accounts' /\ (SyncsUsage \/ Idles \/ SettlesOne \/ AuthorisesOne)
    BY <1>2, StepEffect DEF IInv
  <2>2. Bounds'
    BY <1>2, <2>1, BoundsKept DEF IInv
  <2> QED
    BY <1>2, <2>1, <2>2 DEF IInv
<1> QED
  BY <1>1, <1>2, TypeCorrect, PTL DEF Spec

\* reservedLlmCalls, reservedNonworkerTokens and every lease's inFlight are
\* exactly what the live reservations hold, and none outlives its lease.
THEOREM ReservationsExact == Spec => []ReservationAccounting
<1>1. IInv => ReservationAccounting
  BY DEF IInv, Accounts
<1> QED
  BY <1>1, BudgetInvariant, PTL

\* The calls made and authorised never exceed the run's call limit.
THEOREM CallLimitHolds == Spec => []CallCap
<1>1. IInv => CallCap
  BY DEF IInv, Bounds
<1> QED BY <1>1, BudgetInvariant, PTL

\* Tokens spent and in flight exceed the run's limit by at most the estimation
\* error of the calls made: no two authorisations are granted the same tokens.
THEOREM OvershootBounded == Spec => []BoundedOvershoot
<1>1. IInv => BoundedOvershoot
  BY DEF IInv, Bounds
<1> QED BY <1>1, BudgetInvariant, PTL

\* What concurrent authorisations of reserve_llm_call can spend is limited, in
\* calls exactly and in tokens up to the error of the estimates.
THEOREM RunLimitsHold == Spec => []LimitsHold
<1>1. CallCap /\ BoundedOvershoot => LimitsHold
  BY DEF LimitsHold
<1> QED BY <1>1, CallLimitHolds, OvershootBounded, PTL

-----------------------------------------------------------------------------
(* The latch.                                                              *)

\* The latch is set only for a reason that still holds: usage never decreases,
\* the tool limit never rises, time does not run back.
ReasonHolds ==
  forceSynthesis => \/ usedTokens >= StageCap("research")
                    \/ llmCalls >= LlmCallLimit
                    \/ toolCalls >= toolCallLimit
                    \/ clock # "research"

\* What a step may do to the quantities the reasons are about.
UsageGrows ==
  /\ usedTokens' >= usedTokens /\ llmCalls' >= llmCalls /\ toolCalls' >= toolCalls
  /\ toolCallLimit' <= toolCallLimit
  /\ clock = "reserve" => clock' = "reserve"
LatchComputed ==
  forceSynthesis' => Forced(usedTokens', llmCalls', toolCalls', toolCallLimit')

\* A settlement only adds usage and recomputes the latch from what it wrote.
LEMMA SettleGrows ==
  ASSUME TypeOK, NEW c \in Calls, NEW n \in Nat,
         CommitUsage(c, n) \/ ReleaseReservation(c) \/ Unpopped,
         UNCHANGED <<toolCalls, toolCallLimit, clock>>
  PROVE  UsageGrows /\ LatchComputed
<1>0. calls[c].est \in Nat /\ Charge(c, n) \in Nat
  BY DEF TypeOK, CallRecords, Charge
<1>1. CASE Unpopped
  BY <1>1 DEF Unpopped, counterVars, UsageGrows, LatchComputed, Forced, TypeOK
<1>2. CASE CommitUsage(c, n) /\ c \in llmReservations
  <2>1. LatchComputed
    BY <1>2, Zenon DEF CommitUsage, LatchComputed
  <2>2. UsageGrows
    BY <1>0, <1>2 DEF CommitUsage, PopReservation, UsageGrows, TypeOK
  <2> QED BY <2>1, <2>2
<1>3. CASE ReleaseReservation(c) /\ c \in llmReservations
  BY <1>3 DEF ReleaseReservation, PopReservation, UsageGrows, LatchComputed, Forced, TypeOK
<1> QED
  BY <1>1, <1>2, <1>3 DEF CommitUsage, ReleaseReservation

\* Every step adds usage and recomputes the latch from what it wrote.
LEMMA StepGrows ==
  ASSUME TypeOK, TypeOK', [Next]_vars
  PROVE  UsageGrows /\ LatchComputed
<1>0. ASSUME UNCHANGED <<usedTokens, llmCalls, toolCalls, toolCallLimit, forceSynthesis>>,
             clock' \in {"research", "reserve"}, clock = "reserve" => clock' = "reserve"
      PROVE  UsageGrows /\ LatchComputed
  BY <1>0 DEF UsageGrows, LatchComputed, Forced, TypeOK
<1>1. ASSUME NEW t \in Tasks, WorkerNext(t) PROVE UsageGrows /\ LatchComputed
  <2>1. CASE ReleaseWorkerLease(t)
    <3>1. Cardinality(ReservationsOf(t)) \in Nat
      <4>1. IsFiniteSet(ReservationsOf(t))
        BY IdentityAssumption, FS_Subset DEF ReservationsOf, TypeOK
      <4> QED BY <4>1, FS_CardinalityType
    <3>2. UsageGrows
      BY <2>1, <3>1 DEF ReleaseWorkerLease, UsageGrows, TypeOK
    <3>3. LatchComputed
      BY <2>1, Zenon DEF ReleaseWorkerLease, LatchComputed
    <3> QED BY <3>2, <3>3
  <2>2. CASE ~ReleaseWorkerLease(t)
    <3>1. UNCHANGED <<usedTokens, llmCalls, toolCalls, toolCallLimit, forceSynthesis, clock>>
      BY <1>1, <2>2 DEF WorkerNext, ReserveWorkerLease, GrantFinalizationCall, ReserveWorkerCall
    <3> QED BY <1>0, <3>1 DEF TypeOK
  <2> QED BY <2>1, <2>2
<1>2. ASSUME NEW c \in Calls, CallNext(c) PROVE UsageGrows /\ LatchComputed
  <2>0. calls[c].est \in Nat
    BY DEF TypeOK, CallRecords
  <2>1. CASE \E phase \in {"research", "synthesis"}, est \in Estimates :
               ReserveNonworkerCall(c, phase, est)
    BY <1>0, <2>1 DEF ReserveNonworkerCall, TypeOK
  <2>2. CASE \E actual \in Actuals(c) : OnLlmEnd(c, actual)
    <3>1. PICK actual \in Actuals(c) : OnLlmEnd(c, actual)
      BY <2>2
    <3>2. actual \in Nat
      BY <2>0, InputAssumption DEF Actuals
    <3> QED BY <3>1, <3>2, SettleGrows DEF OnLlmEnd
  <2>3. CASE \E pc \in {"ended", "failed"} : OnLlmError(c, pc) \/ ReturnUnobserved(c, pc)
    BY <2>3, SettleGrows DEF OnLlmError, ReturnUnobserved, Unpopped
  <2>4. CASE Unwind(c)
    BY <2>0, <2>4, SettleGrows DEF Unwind, FinishReservation, FailReservation
  <2> QED BY <1>2, <2>1, <2>2, <2>3, <2>4 DEF CallNext, Answer
<1>3. CASE \E n \in ToolBatches : ReserveToolCalls(n)
  <2>1. PICK n \in ToolBatches : ReserveToolCalls(n)
    BY <1>3
  <2>2. UsageGrows
    BY <2>1, InputAssumption DEF ReserveToolCalls, UsageGrows, TypeOK
  <2>3. LatchComputed
    BY <2>1, Zenon DEF ReserveToolCalls, LatchComputed
  <2> QED BY <2>2, <2>3
<1>4. CASE CapToolCalls
  <2>1. UsageGrows
    BY <1>4, InputAssumption DEF CapToolCalls, UsageGrows, TypeOK
  <2>2. LatchComputed
    BY <1>4, Zenon DEF CapToolCalls, LatchComputed
  <2> QED BY <2>1, <2>2
<1>5. CASE SyncFromUsage
  <2>1. UsageGrows
    BY <1>5 DEF SyncFromUsage, UsageGrows, TypeOK, Larger
  <2>2. LatchComputed
    BY <1>5, Zenon DEF SyncFromUsage, LatchComputed
  <2> QED BY <2>1, <2>2
<1>6. CASE QueryForceSynthesis
  <2>1. UsageGrows
    BY <1>6 DEF QueryForceSynthesis, UsageGrows, TypeOK
  <2>2. LatchComputed
    BY <1>6, Zenon DEF QueryForceSynthesis, LatchComputed
  <2> QED BY <2>1, <2>2
<1>7. CASE Tick \/ UNCHANGED vars
  BY <1>0, <1>7 DEF Tick, vars, counterVars, TypeOK
<1> QED
  BY <1>1, <1>2, <1>3, <1>4, <1>5, <1>6, <1>7 DEF Next

\* The reasons persist while usage grows.
LEMMA StickyReasons ==
  ASSUME TypeOK, TypeOK', ReasonHolds, UsageGrows, LatchComputed
  PROVE  ReasonHolds'
<1>1. StageCap("research") \in Nat /\ LlmCallLimit \in Nat /\ StageCap("research")' = StageCap("research")
  BY StageCapType, LimitAssumption DEF Stages, StageCap, StageReserve, Smaller
<1> SUFFICES ASSUME forceSynthesis'
             PROVE  \/ usedTokens' >= StageCap("research")
                    \/ llmCalls' >= LlmCallLimit
                    \/ toolCalls' >= toolCallLimit'
                    \/ clock' # "research"
  BY <1>1 DEF ReasonHolds
<1>2. CASE forceSynthesis
  BY <1>1, <1>2 DEF ReasonHolds, UsageGrows, TypeOK
<1>3. CASE ~forceSynthesis
  BY <1>1, <1>3 DEF LatchComputed, Forced, UsageGrows, TypeOK
<1> QED BY <1>2, <1>3

\* While a reason holds, initial research is denied: the admission test uses
\* what is in flight too, which is never negative.
LEMMA ForcedDenies ==
  ASSUME TypeOK, ReasonHolds, forceSynthesis
  PROVE  ~ResearchAllowed("research")
<1>1. StageCap("research") \in Nat /\ LlmCallLimit \in Nat /\ ActiveReserved \in Nat
  BY StageCapType, ActiveReservedType, LimitAssumption DEF Stages
<1> QED
  BY <1>1 DEF ReasonHolds, ResearchAllowed, CallCapFree, EffectiveUsed, EffectiveReserved, TypeOK

\* A lease becomes active only where it is reserved.
LEMMA ActivatedByLease ==
  ASSUME TypeOK, Next, NEW t \in Tasks, ~workerLeases[t].active, workerLeases'[t].active
  PROVE  \E stage \in Stages : \E requested \in RequestableCeilings(stage) :
           ReserveWorkerLease(t, stage, requested)
<1>1. ASSUME NEW u \in Tasks, WorkerNext(u)
      PROVE  \E stage \in Stages : \E requested \in RequestableCeilings(stage) :
               ReserveWorkerLease(t, stage, requested)
  <2>1. CASE \E stage \in Stages : \E requested \in RequestableCeilings(stage) :
               ReserveWorkerLease(u, stage, requested)
    <3>1. PICK stage \in Stages : \E requested \in RequestableCeilings(stage) :
               ReserveWorkerLease(u, stage, requested)
      BY <2>1
    <3>2. PICK requested \in RequestableCeilings(stage) : ReserveWorkerLease(u, stage, requested)
      BY <3>1
    <3>3. u = t
      BY <3>2 DEF ReserveWorkerLease, TypeOK
    <3> QED BY <3>2, <3>3
  <2>2. CASE ReleaseWorkerLease(u)
    BY <2>2 DEF ReleaseWorkerLease, TypeOK, NoLease
  <2>3. CASE GrantFinalizationCall(u)
    BY <2>3 DEF GrantFinalizationCall, TypeOK, Leases
  <2>4. CASE \E c \in Calls, phase \in {"execute", "finalize"}, est \in Estimates :
               ReserveWorkerCall(c, u, phase, est)
    <3>1. PICK c \in Calls, phase \in {"execute", "finalize"}, est \in Estimates :
               ReserveWorkerCall(c, u, phase, est)
      BY <2>4
    <3>2. workerLeases[u].active /\ workerLeases[u] \in Leases
      BY <3>1 DEF ReserveWorkerCall, WorkerAdmits, TypeOK
    <3>3. t # u
      BY <3>2
    <3> QED BY <3>1, <3>3 DEF ReserveWorkerCall, TypeOK
  <2> QED BY <1>1, <2>1, <2>2, <2>3, <2>4 DEF WorkerNext
<1>3. ASSUME NEW c \in Calls, NEW k, Refund(c, k) PROVE \A u \in Tasks : workerLeases'[u].active = workerLeases[u].active
  BY <1>3 DEF Refund, TypeOK, Leases
<1>4. ASSUME NEW c \in Calls, CallNext(c) PROVE FALSE
  <2>1. \A u \in Tasks : workerLeases'[u].active = workerLeases[u].active
    BY <1>3, <1>4 DEF CallNext, ReserveNonworkerCall, Answer, Unwind, OnLlmEnd, OnLlmError,
         ReturnUnobserved, FinishReservation, FailReservation, CommitUsage, ReleaseReservation,
         Unpopped
  <2> QED BY <2>1
<1> QED
  BY <1>1, <1>4 DEF Next, ReserveToolCalls, CapToolCalls, SyncFromUsage, QueryForceSynthesis, Tick

\* Once the latch is set, no lease is granted for initial research.
THEOREM ForcedEndsInitialResearch == Spec => NoInitialResearchOnceForced
<1>1. Init => ReasonHolds
  BY DEF Init, ReasonHolds
<1>2. ASSUME TypeOK, TypeOK', ReasonHolds, [Next]_vars PROVE ReasonHolds'
  <2>1. UsageGrows /\ LatchComputed
    BY <1>2, StepGrows
  <2>2. StageCap("research") \in Nat /\ LlmCallLimit \in Nat
    BY StageCapType, LimitAssumption DEF Stages
  <2>3. clock' = "research" => clock = "research"
    BY <1>2, <2>1 DEF UsageGrows, TypeOK
  <2> QED
    BY <1>2, <2>1, <2>2, <2>3, StickyReasons
<1>3. ASSUME TypeOK, ReasonHolds, [Next]_vars
      PROVE  [\A t \in Tasks :
                ~workerLeases[t].active /\ workerLeases'[t].active /\ forceSynthesis
                  => workerLeases'[t].stage # "research"]_vars
  <2> SUFFICES ASSUME Next, NEW t \in Tasks, ~workerLeases[t].active,
                      workerLeases'[t].active, forceSynthesis
               PROVE  workerLeases'[t].stage # "research"
    BY <1>3
  <2>1. PICK stage \in Stages : \E requested \in RequestableCeilings(stage) :
               ReserveWorkerLease(t, stage, requested)
    BY ActivatedByLease, <1>3
  <2>2. workerLeases'[t].stage = stage
    BY <2>1, <1>3 DEF ReserveWorkerLease, TypeOK, NoLease
  <2>3. stage # "research"
    BY <1>3, <2>1, ForcedDenies DEF ReserveWorkerLease
  <2> QED BY <2>2, <2>3
<1> QED
  BY <1>1, <1>2, <1>3, TypeCorrect, PTL DEF Spec, NoInitialResearchOnceForced

----------------------------------------------------------------------------
(* What RunBudget charges: every settled call once, by whichever of its    *)
(* callback, its wrapper and its worker's release comes first, and never   *)
(* into the shares kept for finalization and for the stages after          *)
(* research.                                                               *)

\* What a step may do to a call's record without settling it.
SameCall(d) ==
  /\ calls'[d].est = calls[d].est /\ calls'[d].task = calls[d].task
  /\ calls'[d].phase = calls[d].phase /\ calls'[d].stage = calls[d].stage
  /\ calls'[d].charge = calls[d].charge
  /\ calls[d].pc = "idle" => calls'[d] = calls[d]
  /\ calls[d].pc # "idle" => calls'[d].pc # "idle"

\* What it may do to a lease: nothing that counts, or grant a new one.
SameLease(t) ==
  /\ workerLeases'[t].active = workerLeases[t].active
  /\ workerLeases'[t].ceiling = workerLeases[t].ceiling
  /\ workerLeases'[t].used = workerLeases[t].used
  /\ workerLeases'[t].inFlight = workerLeases[t].inFlight
NewLease(t) ==
  /\ workerLeases'[t].ceiling > 0
  /\ workerLeases'[t].used = 0 /\ workerLeases'[t].inFlight = 0

SameUsage == usedTokens' = usedTokens /\ llmCalls' = llmCalls

\* The four kinds of step: it settles and reserves nothing, it reserves for one
\* call, it settles one call, or it releases a lease.
Quiet ==
  /\ llmReservations' = llmReservations
  /\ \A d \in Calls : SameCall(d)
  /\ usedTokens' >= usedTokens /\ llmCalls' >= llmCalls
  /\ SyncsUsage \/ SameUsage
  /\ EffectiveReserved' = EffectiveReserved
  /\ \A t \in Tasks : SameLease(t) \/ NewLease(t)

Reserves(c) ==
  /\ calls[c].pc = "idle" /\ c \notin llmReservations
  /\ llmReservations' = llmReservations \cup {c}
  /\ \A d \in Calls \ {c} : calls'[d] = calls[d]
  /\ calls'[c].pc = "sent" /\ calls'[c].charge = 0 /\ calls'[c].est >= 1
  /\ SameUsage
  /\ EffectiveReserved' = EffectiveReserved + calls'[c].est
  /\ calls'[c].phase \in ResearchPhases =>
       EffectiveUsed + calls'[c].est <= StageCap(calls'[c].stage)
  /\ \A t \in Tasks : calls'[c].task # t => SameLease(t)
  /\ \A t \in Tasks : calls'[c].task = t =>
       /\ workerLeases[t].active /\ workerLeases'[t].active
       /\ workerLeases'[t].ceiling = workerLeases[t].ceiling
       /\ \/ workerLeases[t].ceiling = 0
          \/ workerLeases'[t].used + workerLeases'[t].inFlight
               <= WorkerTokenLimit(workerLeases[t], calls'[c].phase)

Settles(c, charge) ==
  /\ c \in llmReservations /\ llmReservations' = llmReservations \ {c}
  /\ \A d \in Calls \ {c} : calls'[d] = calls[d]
  /\ calls'[c].est = calls[c].est /\ calls'[c].task = calls[c].task
  /\ calls'[c].phase = calls[c].phase /\ calls'[c].stage = calls[c].stage
  /\ calls'[c].pc # "idle" /\ calls'[c].charge = calls[c].charge + charge
  /\ charge <= calls[c].est + Overrun
  /\ usedTokens' = usedTokens + charge /\ llmCalls' = llmCalls + 1
  /\ EffectiveReserved' = EffectiveReserved - calls[c].est
  /\ \A t \in Tasks : calls[c].task # t => SameLease(t)
  /\ \A t \in Tasks : calls[c].task = t =>
       /\ workerLeases[t].active /\ workerLeases'[t].active
       /\ workerLeases'[t].ceiling = workerLeases[t].ceiling
       /\ workerLeases'[t].used = workerLeases[t].used + charge
       /\ workerLeases'[t].inFlight = workerLeases[t].inFlight - calls[c].est
-----------------------------------------------------------------------------
(* Every step is of one of these kinds.                                    *)

LEMMA UnpoppedIsQuiet ==
  ASSUME TypeOK, Unpopped, \A d \in Calls : SameCall(d)
  PROVE  Quiet
<1>1. /\ llmReservations' = llmReservations /\ SameUsage /\ workerLeases' = workerLeases
      /\ reservedNonworkerTokens' = reservedNonworkerTokens
  BY DEF Unpopped, counterVars, reserveVars, SameUsage
<1>2. EffectiveReserved' = EffectiveReserved
  BY <1>1, ActiveSame DEF EffectiveReserved
<1> QED BY <1>1, <1>2 DEF Quiet, SameUsage, SameLease, TypeOK

LEMMA MovedCall ==
  ASSUME TypeOK, NEW c \in Calls, calls[c].pc # "idle", NEW pc \in {"ended", "failed", "done"},
         \/ calls' = [calls EXCEPT ![c].pc = pc]
         \/ c \notin llmReservations /\ \E n \in Nat : Settle(c, pc, n)
  PROVE  \A d \in Calls : SameCall(d)
<1>1. calls[c] \in CallRecords
  BY DEF TypeOK
<1>2. calls' = [calls EXCEPT ![c].pc = pc] \/ calls' = [calls EXCEPT ![c].pc = pc, ![c].charge = @]
  BY DEF Settle
<1>3. \A d \in Calls \ {c} : calls'[d] = calls[d]
  BY <1>2 DEF TypeOK
<1>4. /\ calls'[c].est = calls[c].est /\ calls'[c].task = calls[c].task
      /\ calls'[c].phase = calls[c].phase /\ calls'[c].stage = calls[c].stage
      /\ calls'[c].charge = calls[c].charge /\ calls'[c].pc = pc
  BY <1>1, <1>2 DEF TypeOK, CallRecords
<1> QED BY <1>3, <1>4 DEF SameCall

\* Popping a reservation, refunding it and recording its charge settle it.
LEMMA PopSettles ==
  ASSUME TypeOK, TypeOK', Accounts, NEW c \in llmReservations, NEW k \in Nat,
         NEW pc \in {"ended", "failed", "done"},
         PopReservation(c), Refund(c, k), Settle(c, pc, k),
         usedTokens' = usedTokens + k, k <= calls[c].est + Overrun
  PROVE  Settles(c, k)
<1> DEFINE t == calls[c].task
<1>1. c \in Calls /\ calls[c] \in CallRecords /\ t \in Tasks \cup {NoTask}
  BY DEF TypeOK, CallRecords
<1>2. /\ llmReservations' = llmReservations \ {c} /\ llmCalls' = llmCalls + 1
  BY DEF PopReservation
<1>3. /\ \A d \in Calls \ {c} : calls'[d] = calls[d]
      /\ calls'[c].est = calls[c].est /\ calls'[c].task = calls[c].task
      /\ calls'[c].phase = calls[c].phase /\ calls'[c].stage = calls[c].stage
      /\ calls'[c].pc = pc /\ calls'[c].charge = calls[c].charge + k
  BY <1>1 DEF Settle, TypeOK, CallRecords
<1>4. EffectiveReserved' = EffectiveReserved - calls[c].est
  <2>1. CallsKept
    BY SettleKeeps, <1>1
  <2> QED BY <2>1, PopEffect
<1>5. ASSUME NEW u \in Tasks, calls[c].task # u PROVE SameLease(u)
  BY <1>1, <1>5 DEF Refund, SameLease, TypeOK, Leases
<1>6. ASSUME NEW u \in Tasks, calls[c].task = u
      PROVE  /\ workerLeases[u].active /\ workerLeases'[u].active
             /\ workerLeases'[u].ceiling = workerLeases[u].ceiling
             /\ workerLeases'[u].used = workerLeases[u].used + k
             /\ workerLeases'[u].inFlight = workerLeases[u].inFlight - calls[c].est
  <2>1. c \in Live(u) /\ workerLeases[u].active /\ workerLeases[u].inFlight = HeldFor(u)
    BY <1>6 DEF Live, Accounts, ReservationAccounting, HeldFor
  <2>2. HeldFor(u) >= calls[c].est
    BY <1>2, <1>3, <1>6, PopHolds
  <2>3. workerLeases' = [workerLeases EXCEPT ![u].used = @ + k,
                           ![u].inFlight = Larger(0, @ - calls[c].est)]
    BY <1>6, <2>1, IdentityAssumption DEF Refund
  <2>4. workerLeases[u] \in Leases /\ calls[c].est \in Nat
    BY <1>1 DEF TypeOK, CallRecords
  <2>5. Larger(0, workerLeases[u].inFlight - calls[c].est) = workerLeases[u].inFlight - calls[c].est
    BY <2>1, <2>2, <2>4 DEF Larger, Leases
  <2> QED BY <2>1, <2>3, <2>4, <2>5 DEF TypeOK, Leases
<1>7. calls'[c].pc # "idle"
  BY <1>3
<1> QED BY <1>2, <1>3, <1>4, <1>5, <1>6, <1>7 DEF Settles

\* A settlement settles its call, if the reservation is still there.
LEMMA SettlementKind ==
  ASSUME TypeOK, TypeOK', Accounts, NEW c \in Calls, calls[c].pc # "idle", NEW n \in Nat,
         NEW k \in Nat, NEW pc \in {"ended", "failed", "done"}, Settle(c, pc, k),
         \/ CommitUsage(c, n) /\ k = Charge(c, n)
         \/ ReleaseReservation(c) /\ k = 0,
         c \in llmReservations => k <= calls[c].est + Overrun
  PROVE  Quiet \/ Settles(c, k)
<1>1. CASE c \notin llmReservations
  <2>1. Unpopped
    BY <1>1 DEF CommitUsage, ReleaseReservation
  <2> QED BY <1>1, <2>1, MovedCall, UnpoppedIsQuiet
<1>2. CASE c \in llmReservations
  <2>1. PopReservation(c) /\ Refund(c, k) /\ usedTokens' = usedTokens + k
    BY <1>2 DEF CommitUsage, ReleaseReservation, TypeOK
  <2> QED BY <1>2, <2>1, PopSettles
<1> QED BY <1>1, <1>2

LEMMA CallKinds ==
  ASSUME TypeOK, TypeOK', Accounts, NEW c \in Calls, Answer(c) \/ Unwind(c)
  PROVE  Quiet \/ \E k \in Nat : Settles(c, k)
<1>0. calls[c].est \in Nat /\ Overrun \in Nat
  BY InputAssumption DEF TypeOK, CallRecords
<1>1. CASE \E actual \in Actuals(c) : OnLlmEnd(c, actual)
  <2>1. PICK actual \in Actuals(c) : OnLlmEnd(c, actual)
    BY <1>1
  <2>2. /\ CommitUsage(c, actual) /\ Settle(c, "ended", Charge(c, actual))
        /\ calls[c].pc # "idle"
    BY <2>1 DEF OnLlmEnd
  <2>3. actual \in Nat /\ Charge(c, actual) \in Nat
    BY <1>0 DEF Actuals, Charge
  <2>4. c \in llmReservations => Charge(c, actual) <= calls[c].est + Overrun
    <3>1. c \in llmReservations => calls[c].est >= 1
      BY DEF Accounts, LiveCallsMade
    <3> QED BY <1>0, <3>1 DEF Actuals, Charge
  <2> QED BY <2>2, <2>3, <2>4, SettlementKind
<1>2. CASE \E pc \in {"ended", "failed"} : OnLlmError(c, pc)
  <2>1. PICK pc \in {"ended", "failed"} : OnLlmError(c, pc)
    BY <1>2
  <2> QED BY <1>0, <2>1, SettlementKind DEF OnLlmError
<1>3. CASE \E pc \in {"ended", "failed"} : ReturnUnobserved(c, pc)
  <2>1. PICK pc \in {"ended", "failed"} : ReturnUnobserved(c, pc)
    BY <1>3
  <2> QED BY <2>1, MovedCall, UnpoppedIsQuiet DEF ReturnUnobserved, Unpopped
<1>4. CASE FinishReservation(c)
  <2>1. CASE calls[c].held
    <3>1. Charge(c, calls[c].est) = calls[c].est
      BY DEF Charge
    <3> QED BY <1>0, <1>4, <2>1, <3>1, SettlementKind DEF FinishReservation
  <2>2. CASE ~calls[c].held
    BY <1>4, <2>2, MovedCall, UnpoppedIsQuiet DEF FinishReservation
  <2> QED BY <2>1, <2>2
<1>5. CASE FailReservation(c)
  <2>1. CASE calls[c].held
    BY <1>0, <1>5, <2>1, SettlementKind DEF FailReservation
  <2>2. CASE ~calls[c].held
    BY <1>5, <2>2, MovedCall, UnpoppedIsQuiet DEF FailReservation
  <2> QED BY <2>1, <2>2
<1> QED BY <1>1, <1>2, <1>3, <1>4, <1>5 DEF Answer, Unwind

\* An authorisation reserves for its call.
LEMMA ReservationKinds ==
  ASSUME TypeOK, TypeOK', Accounts, NEW c \in Calls, NEW phase \in Phases, NEW est \in Estimates,
         \/ ReserveNonworkerCall(c, phase, est)
         \/ \E t \in Tasks : ReserveWorkerCall(c, t, phase, est)
  PROVE  Reserves(c)
<1>1. est \in Nat /\ est >= 1 /\ \A u \in Tasks : u # NoTask
  BY InputAssumption, IdentityAssumption
<1>2. c \notin llmReservations /\ calls[c].pc = "idle"
  BY DEF Accounts, LiveCallsMade, ReserveNonworkerCall, ReserveWorkerCall
<1>3. ASSUME NEW t, NEW stage, RecordReservation(c, t, stage, phase, est)
      PROVE  /\ llmReservations' = llmReservations \cup {c}
             /\ \A d \in Calls \ {c} : calls'[d] = calls[d]
             /\ calls'[c].pc = "sent" /\ calls'[c].charge = 0 /\ calls'[c].est = est
             /\ calls'[c].phase = phase /\ calls'[c].stage = stage /\ calls'[c].task = t
  BY <1>3 DEF RecordReservation, TypeOK
<1>4. usedTokens' = usedTokens /\ llmCalls' = llmCalls
  BY DEF ReserveNonworkerCall, ReserveWorkerCall
<1>5. EffectiveReserved' = EffectiveReserved + est
  <2>1. EffectiveUsed' = EffectiveUsed + est
    BY ReserveNonworkerEffect, ReserveWorkerEffect
  <2>2. EffectiveReserved \in Nat /\ EffectiveReserved' \in Int
    <3>1. \A u \in Tasks : InFlightOf(workerLeases')[u] \in Nat
      BY DEF TypeOK, Leases, InFlightOf
    <3>2. SumOver(InFlightOf(workerLeases'), Tasks) \in Nat
      BY <3>1, UnitsFinite, IdentityAssumption
    <3>3. EffectiveReserved' \in Int
      BY <3>2 DEF EffectiveReserved, ActiveReserved, TypeOK
    <3>4. EffectiveReserved \in Nat
      BY ActiveReservedType DEF EffectiveReserved, TypeOK
    <3> QED BY <3>3, <3>4
  <2>3. PICK n \in Int : n = EffectiveReserved'
    BY <2>2
  <2>4. usedTokens' + n = usedTokens + EffectiveReserved + est
    BY <2>1, <2>3 DEF EffectiveUsed
  <2>5. usedTokens \in Int
    BY DEF TypeOK
  <2>6. n = EffectiveReserved + est
    BY <1>1, <1>4, <2>2, <2>4, <2>5
  <2> QED BY <2>3, <2>6
<1>6. CASE ReserveNonworkerCall(c, phase, est)
  <2>1. RecordReservation(c, NoTask, "research", phase, est) /\ workerLeases' = workerLeases
    BY <1>6 DEF ReserveNonworkerCall
  <2>2. phase \in ResearchPhases => EffectiveUsed + est <= StageCap("research")
    BY <1>6 DEF ReserveNonworkerCall, RunAdmits
  <2> QED BY <1>1, <1>2, <1>3, <1>4, <1>5, <2>1, <2>2 DEF Reserves, SameUsage, SameLease
<1>7. ASSUME NEW t \in Tasks, ReserveWorkerCall(c, t, phase, est) PROVE Reserves(c)
  <2> DEFINE stage == workerLeases[t].stage
  <2>1. RecordReservation(c, t, stage, phase, est)
    BY <1>7 DEF ReserveWorkerCall
  <2>2. phase \in ResearchPhases => EffectiveUsed + est <= StageCap(stage)
    BY <1>7 DEF ReserveWorkerCall, RunAdmits
  <2>3. /\ workerLeases[t].active /\ workerLeases[t] \in Leases
        /\ \/ workerLeases[t].ceiling = 0
           \/ workerLeases[t].used + workerLeases[t].inFlight + est
                <= WorkerTokenLimit(workerLeases[t], phase)
    BY <1>7 DEF ReserveWorkerCall, WorkerAdmits, TypeOK
  <2>4. /\ workerLeases'[t].inFlight = workerLeases[t].inFlight + est
        /\ workerLeases'[t].used = workerLeases[t].used
        /\ workerLeases'[t].ceiling = workerLeases[t].ceiling
        /\ workerLeases'[t].active
        /\ \A u \in Tasks \ {t} : workerLeases'[u] = workerLeases[u]
    BY <1>7, <2>3 DEF ReserveWorkerCall, TypeOK, Leases
  <2>5. \/ workerLeases[t].ceiling = 0
        \/ workerLeases'[t].used + workerLeases'[t].inFlight
             <= WorkerTokenLimit(workerLeases[t], phase)
    <3>1. workerLeases'[t].used + workerLeases'[t].inFlight
            = workerLeases[t].used + workerLeases[t].inFlight + est
      BY <1>1, <2>3, <2>4 DEF Leases
    <3> QED BY <2>3, <3>1
  <2> HIDE DEF stage
  <2>6. /\ \A u \in Tasks : calls'[c].task # u => SameLease(u)
        /\ \A u \in Tasks : calls'[c].task = u => u = t
    BY <1>3, <2>1, <2>4 DEF SameLease
  <2> QED
    BY <1>1, <1>2, <1>3, <1>4, <1>5, <2>1, <2>2, <2>3, <2>4, <2>5, <2>6
       DEF Reserves, SameUsage
<1> QED BY <1>6, <1>7

LEMMA LeaseKinds ==
  ASSUME TypeOK, TypeOK', Accounts, NEW t \in Tasks,
         \/ GrantFinalizationCall(t)
         \/ \E stage \in Stages : \E requested \in RequestableCeilings(stage) :
              ReserveWorkerLease(t, stage, requested)
  PROVE  Quiet
<1>1. /\ UNCHANGED <<usedTokens, llmCalls, reserveVars, calls>>
      /\ \A u \in Tasks \ {t} : workerLeases'[u] = workerLeases[u]
      /\ workerLeases[t] \in Leases
  BY DEF GrantFinalizationCall, ReserveWorkerLease, TypeOK
<1>2. SameLease(t) \/ (NewLease(t) /\ workerLeases[t].inFlight = 0)
  <2>1. CASE GrantFinalizationCall(t)
    BY <1>1, <2>1 DEF GrantFinalizationCall, SameLease, TypeOK, Leases
  <2>2. CASE \E stage \in Stages : \E requested \in RequestableCeilings(stage) :
              ReserveWorkerLease(t, stage, requested)
    <3>1. PICK stage \in Stages : \E requested \in RequestableCeilings(stage) :
                 ReserveWorkerLease(t, stage, requested)
      BY <2>2
    <3>2. PICK requested \in RequestableCeilings(stage) :
                 ReserveWorkerLease(t, stage, requested)
      BY <3>1
    <3>3. requested \in Int /\ requested > 0
      <4>1. ASSUME NEW w \in WaveSizes PROVE FairShare(stage, w) \in Int /\ FairShare(stage, w) > 0
        <5>1. StageCap(stage) \in Nat /\ w \in Nat \ {0}
          BY StageCapType, InputAssumption
        <5> QED BY <5>1 DEF FairShare, Larger
      <4> QED BY <4>1, InputAssumption DEF RequestableCeilings
    <3>4. GrantableTokens(stage) \in Int /\ GrantableTokens(stage) > 0
      <4>1. GrantableTokens(stage) \in Int
        BY StageCapType, ActiveReservedType, LimitAssumption
           DEF GrantableTokens, Smaller, EffectiveUsed, EffectiveReserved, TypeOK
      <4> QED BY <3>2, <4>1 DEF ReserveWorkerLease
    <3>5. NewLease(t)
      <4> DEFINE n == Larger(0, Smaller(requested, GrantableTokens(stage)))
      <4>1. n > 0
        BY <3>3, <3>4 DEF Larger, Smaller
      <4> HIDE DEF n
      <4>2. workerLeases' = [workerLeases EXCEPT ![t] =
                [NoLease EXCEPT !.active = TRUE, !.stage = stage, !.ceiling = n,
                                !.maxCalls = MaxCallsPerWorker]]
        BY <3>2 DEF ReserveWorkerLease, n
      <4> QED BY <4>1, <4>2 DEF NewLease, NoLease, TypeOK
    <3>6. Live(t) = {}
      BY <3>2 DEF ReserveWorkerLease, Accounts, ReservationAccounting
    <3>7. workerLeases[t].inFlight = 0
      BY <3>6, SumEmpty DEF Accounts, ReservationAccounting
    <3> QED BY <3>5, <3>7
  <2> QED BY <2>1, <2>2
<1>3. EffectiveReserved' = EffectiveReserved
  <2>1. \A u \in Tasks : workerLeases'[u].inFlight = workerLeases[u].inFlight
    BY <1>1, <1>2 DEF SameLease, NewLease
  <2> QED BY <1>1, <2>1, ActiveSame DEF EffectiveReserved, reserveVars
<1>4. /\ llmReservations' = llmReservations /\ \A d \in Calls : SameCall(d)
      /\ usedTokens' >= usedTokens /\ llmCalls' >= llmCalls /\ SameUsage
  BY <1>1 DEF reserveVars, SameCall, SameUsage, TypeOK
<1>5. \A u \in Tasks : SameLease(u) \/ NewLease(u)
  BY <1>1, <1>2 DEF SameLease
<1> QED BY <1>3, <1>4, <1>5 DEF Quiet

LEMMA StepKinds ==
  ASSUME TypeOK, TypeOK', Accounts, [Next]_vars
  PROVE  \/ Quiet
         \/ \E c \in Calls : Reserves(c)
         \/ \E c \in Calls : \E k \in Nat : Settles(c, k)
         \/ \E t \in Tasks : ReleaseWorkerLease(t)
<1>1. ASSUME NEW t \in Tasks, WorkerNext(t), ~ReleaseWorkerLease(t)
      PROVE  Quiet \/ \E c \in Calls : Reserves(c)
  <2>1. CASE \E c \in Calls, phase \in {"execute", "finalize"}, est \in Estimates :
               ReserveWorkerCall(c, t, phase, est)
    <3>1. PICK c \in Calls, phase \in {"execute", "finalize"}, est \in Estimates :
                 ReserveWorkerCall(c, t, phase, est)
      BY <2>1
    <3>2. phase \in Phases
      BY DEF Phases
    <3> QED BY <3>1, <3>2, ReservationKinds
  <2> QED BY <1>1, <2>1, LeaseKinds DEF WorkerNext
<1>2. ASSUME NEW c \in Calls, CallNext(c)
      PROVE  Quiet \/ Reserves(c) \/ \E k \in Nat : Settles(c, k)
  <2>1. CASE \E phase \in {"research", "synthesis"}, est \in Estimates :
               ReserveNonworkerCall(c, phase, est)
    <3>1. PICK phase \in {"research", "synthesis"}, est \in Estimates :
                 ReserveNonworkerCall(c, phase, est)
      BY <2>1
    <3>2. phase \in Phases
      BY DEF Phases
    <3> QED BY <3>1, <3>2, ReservationKinds
  <2> QED BY <1>2, <2>1, CallKinds DEF CallNext
<1>3. ASSUME UNCHANGED <<reserveVars, workerLeases, calls>>,
             usedTokens' >= usedTokens, llmCalls' >= llmCalls, SyncsUsage \/ SameUsage
      PROVE  Quiet
  <2>1. EffectiveReserved' = EffectiveReserved
    BY <1>3, ActiveSame DEF EffectiveReserved, reserveVars
  <2> QED BY <1>3, <2>1 DEF Quiet, reserveVars, SameCall, SameLease
<1>4. CASE \/ \E n \in ToolBatches : ReserveToolCalls(n)
           \/ CapToolCalls \/ QueryForceSynthesis \/ Tick \/ UNCHANGED vars
  <2>1. UNCHANGED <<usedTokens, llmCalls, reserveVars, workerLeases, calls>>
    BY <1>4 DEF ReserveToolCalls, CapToolCalls, QueryForceSynthesis, Tick, vars,
                counterVars, reserveVars
  <2> QED BY <1>3, <2>1 DEF SameUsage, TypeOK
<1>5. CASE SyncFromUsage
  BY <1>3, <1>5 DEF SyncFromUsage, Larger, TypeOK
<1> QED BY <1>1, <1>2, <1>4, <1>5 DEF Next
-----------------------------------------------------------------------------
(* What each kind of step does to the quantities the properties compare.   *)

\* A call nobody has made is blank, and a reservation has charged nothing.
Uncharged ==
  \A c \in Calls : /\ calls[c].pc = "idle" => calls[c] = IdleCall
                   /\ c \in llmReservations => calls[c].charge = 0

\* The two counters of reserved tokens hold the estimates in flight.
HeldInTotal == EffectiveReserved = SumOver(Ests, llmReservations)


LEMMA SumTypes ==
  ASSUME TypeOK
  PROVE  /\ IsFiniteSet(Calls) /\ IsFiniteSet(llmReservations) /\ IsFiniteSet(Settled)
         /\ \A S \in SUBSET Calls :
              /\ IsFiniteSet(S) /\ Cardinality(S) \in Nat
              /\ SumOver(Charges, S) \in Nat /\ SumOver(Ests, S) \in Nat
              /\ SumOver(ResearchSpend, S) \in Nat
         /\ \A c \in Calls : /\ Charges[c] \in Nat /\ Ests[c] \in Nat
                             /\ ResearchSpend[c] \in Nat
<1>1. \A c \in Calls : Charges[c] \in Nat /\ Ests[c] \in Nat /\ ResearchSpend[c] \in Nat
  BY DEF TypeOK, CallRecords, Charges, Ests, ResearchSpend
<1>2. ASSUME NEW S \in SUBSET Calls
      PROVE  /\ IsFiniteSet(S) /\ Cardinality(S) \in Nat
             /\ SumOver(Charges, S) \in Nat /\ SumOver(Ests, S) \in Nat
             /\ SumOver(ResearchSpend, S) \in Nat
  <2>1. IsFiniteSet(S)
    BY FS_Subset, IdentityAssumption
  <2>2. \A c \in S : Charges[c] \in Nat /\ Ests[c] \in Nat /\ ResearchSpend[c] \in Nat
    BY <1>1
  <2> QED BY <2>1, <2>2, UnitsFinite, FS_CardinalityType
<1>3. llmReservations \in SUBSET Calls /\ Settled \in SUBSET Calls
  BY DEF TypeOK, Settled
<1> QED BY <1>1, <1>2, <1>3, IdentityAssumption

\* A step that reserves for c or settles it changes the sums by c's share.
LEMMA OtherCalls ==
  ASSUME TypeOK, TypeOK', NEW c \in Calls, \A d \in Calls \ {c} : calls'[d] = calls[d]
  PROVE  /\ \A d \in Calls \ {c} : Charges'[d] = Charges[d] /\ Ests'[d] = Ests[d]
         /\ Charges'[c] = calls'[c].charge /\ Ests'[c] = calls'[c].est
         /\ \A d \in Calls : /\ Charges'[d] \in Nat /\ Ests'[d] \in Nat
                             /\ calls'[d].est \in Nat /\ calls'[d].charge \in Nat
         /\ SumOver(Charges', Calls) = SumOver(Charges, Calls) - calls[c].charge + calls'[c].charge
<1>1. \A d \in Calls : /\ Charges'[d] = calls'[d].charge /\ Ests'[d] = calls'[d].est
                       /\ Charges[d] = calls[d].charge /\ Ests[d] = calls[d].est
  BY DEF Charges, Ests
<1>2. \A d \in Calls : /\ calls'[d].est \in Nat /\ calls'[d].charge \in Nat
                       /\ calls[d].est \in Nat /\ calls[d].charge \in Nat
  BY DEF TypeOK, CallRecords
<1>3. SumOver(Charges', Calls) = SumOver(Charges, Calls) - Charges[c] + Charges'[c]
  <2> DEFINE f == Charges
             g == Charges'
  <2>1. /\ \A d \in Calls : f[d] \in Nat /\ g[d] \in Nat
        /\ \A d \in Calls \ {c} : g[d] = f[d]
    BY <1>1, <1>2
  <2> HIDE DEF f, g
  <2>2. SumOver(g, Calls) = SumOver(f, Calls) - f[c] + g[c]
    BY <2>1, SumChange, IdentityAssumption
  <2> QED BY <2>2 DEF f, g
<1> QED BY <1>1, <1>2, <1>3

\* A step that only moves calls along changes none of them.
LEMMA QuietSums ==
  ASSUME TypeOK, TypeOK', Quiet
  PROVE  /\ Charges' = Charges /\ Ests' = Ests /\ ResearchSpend' = ResearchSpend
         /\ Settled' = Settled /\ \A t : SettledUnder(t)' = SettledUnder(t)
         /\ InitialResearchCalls' = InitialResearchCalls
<1>1. /\ llmReservations' = llmReservations
      /\ \A d \in Calls : SameCall(d)
  BY DEF Quiet
<1>2. Charges' = Charges /\ Ests' = Ests
  BY <1>1 DEF Charges, Ests, SameCall
<1>3. ResearchSpend' = ResearchSpend
  BY <1>1 DEF ResearchSpend, SameCall
<1>4. Settled' = Settled
  BY <1>1 DEF Settled, SameCall
<1>5. ASSUME NEW t PROVE SettledUnder(t)' = SettledUnder(t)
  <2>1. Settled \subseteq Calls
    BY DEF Settled
  <2>2. SettledUnder(t)' = {c \in Settled' : calls'[c].task = t}
    BY DEF SettledUnder
  <2> QED BY <1>1, <1>4, <2>1, <2>2 DEF SettledUnder, SameCall
<1>6. InitialResearchCalls' = InitialResearchCalls
  BY <1>1 DEF InitialResearchCalls, SameCall
<1> QED BY <1>2, <1>3, <1>4, <1>5, <1>6

\* The settled calls are the old ones, the one a step settles, and those whose
\* lease it releases.
LEMMA SettledAfter ==
  ASSUME TypeOK, TypeOK', Accounts
  PROVE  /\ \A c \in Calls : Reserves(c) => Settled' = Settled
         /\ \A c \in Calls : \A k \in Nat :
              Settles(c, k) => Settled' = Settled \cup {c} /\ c \notin Settled
         /\ \A t \in Tasks :
              ReleaseWorkerLease(t) => Settled' = Settled \cup Live(t) /\ Settled \cap Live(t) = {}
<1>1. ASSUME NEW c \in Calls, Reserves(c) PROVE Settled' = Settled
  BY <1>1 DEF Reserves, Settled
<1>2. ASSUME NEW c \in Calls, NEW k \in Nat, Settles(c, k)
      PROVE  Settled' = Settled \cup {c} /\ c \notin Settled
  BY <1>2 DEF Settles, Settled, Accounts, LiveCallsMade
<1>3. ASSUME NEW t \in Tasks, ReleaseWorkerLease(t)
      PROVE  Settled' = Settled \cup Live(t) /\ Settled \cap Live(t) = {}
  <2>1. calls' = calls /\ llmReservations' = llmReservations \ Live(t)
    BY <1>3 DEF ReleaseWorkerLease, ReservationsOf, Live
  <2> QED BY <2>1 DEF Settled, Live, Accounts, LiveCallsMade, TypeOK
<1> QED BY <1>1, <1>2, <1>3

LEMMA UnchargedKept ==
  ASSUME TypeOK, TypeOK', Accounts, Uncharged, [Next]_vars
  PROVE  Uncharged'
<1>1. CASE Quiet
  BY <1>1 DEF Quiet, SameCall, Uncharged
<1>2. ASSUME NEW c \in Calls, Reserves(c) PROVE Uncharged'
  BY <1>2 DEF Reserves, Uncharged
<1>3. ASSUME NEW c \in Calls, NEW k \in Nat, Settles(c, k) PROVE Uncharged'
  BY <1>3 DEF Settles, Uncharged
<1>4. ASSUME NEW t \in Tasks, ReleaseWorkerLease(t) PROVE Uncharged'
  BY <1>4 DEF ReleaseWorkerLease, Uncharged
<1> QED BY <1>1, <1>2, <1>3, <1>4, StepKinds

LEMMA HeldInTotalKept ==
  ASSUME TypeOK, TypeOK', Accounts, HeldInTotal, [Next]_vars
  PROVE  HeldInTotal'
<1> DEFINE held == SumOver(Ests, llmReservations)
<1>0. /\ held \in Nat /\ EffectiveReserved = held /\ llmReservations \subseteq Calls
      /\ IsFiniteSet(llmReservations)
  BY SumTypes DEF HeldInTotal, TypeOK
<1>1. CASE Quiet
  BY <1>1, QuietSums DEF Quiet, HeldInTotal
<1>2. ASSUME NEW c \in Calls, Reserves(c) PROVE HeldInTotal'
  <2>1. /\ llmReservations' = llmReservations \cup {c} /\ c \notin llmReservations
        /\ EffectiveReserved' = EffectiveReserved + calls'[c].est
        /\ \A d \in Calls \ {c} : calls'[d] = calls[d]
    BY <1>2 DEF Reserves
  <2> DEFINE f == Ests'
  <2>2. /\ \A d \in Calls : f[d] \in Nat
        /\ \A d \in llmReservations : f[d] = Ests[d]
        /\ f[c] = calls'[c].est
    BY <1>0, <2>1, OtherCalls
  <2> HIDE DEF f
  <2>3. SumOver(f, llmReservations \cup {c}) = SumOver(f, llmReservations) + f[c]
    BY <1>0, <2>1, <2>2, SumAdd
  <2>4. SumOver(f, llmReservations) = held
    BY <2>2, SumSame
  <2>5. SumOver(Ests', llmReservations') = held + calls'[c].est
    BY <2>1, <2>2, <2>3, <2>4 DEF f
  <2> QED BY <1>0, <2>1, <2>5 DEF HeldInTotal
<1>3. ASSUME NEW c \in Calls, NEW k \in Nat, Settles(c, k) PROVE HeldInTotal'
  <2>1. /\ llmReservations' = llmReservations \ {c} /\ c \in llmReservations
        /\ EffectiveReserved' = EffectiveReserved - calls[c].est
        /\ \A d \in Calls \ {c} : calls'[d] = calls[d]
        /\ calls'[c].est = calls[c].est
    BY <1>3 DEF Settles
  <2>2. Ests' = Ests /\ Ests[c] = calls[c].est
    BY <2>1 DEF Ests
  <2>3. SumOver(Ests, llmReservations \ {c}) = held - Ests[c]
    BY <1>0, <2>1, SumTypes, SumRemove
  <2>4. SumOver(Ests', llmReservations') = held - calls[c].est
    BY <2>1, <2>2, <2>3
  <2> QED BY <1>0, <2>1, <2>4 DEF HeldInTotal
<1>4. ASSUME NEW t \in Tasks, ReleaseWorkerLease(t) PROVE HeldInTotal'
  <2> DEFINE gone == Live(t)
             rest == llmReservations \ gone
  <2>1. /\ llmReservations' = rest /\ calls' = calls
        /\ reservedNonworkerTokens' = reservedNonworkerTokens
        /\ workerLeases' = [workerLeases EXCEPT ![t] = NoLease]
    BY <1>4 DEF ReleaseWorkerLease, ReservationsOf, Live
  <2>2. /\ IsFiniteSet(gone) /\ IsFiniteSet(rest) /\ gone \cap rest = {}
        /\ llmReservations = rest \cup gone /\ rest \subseteq Calls /\ gone \subseteq Calls
    BY <1>0, FS_Subset DEF Live
  <2>3. Ests' = Ests
    BY <2>1 DEF Ests
  <2>4. SumOver(Ests, gone) = workerLeases[t].inFlight /\ workerLeases[t].inFlight \in Nat
    BY DEF Accounts, ReservationAccounting, TypeOK, Leases
  <2>5. EffectiveReserved' = EffectiveReserved - workerLeases[t].inFlight
    <3>1. /\ \A u \in Tasks \ {t} : workerLeases'[u] = workerLeases[u]
          /\ workerLeases'[t].inFlight = 0
      BY <2>1 DEF TypeOK, NoLease
    <3>2. /\ ActiveReserved' = ActiveReserved - workerLeases[t].inFlight + 0
          /\ ActiveReserved \in Nat
      BY <3>1, ActiveChange
    <3> QED BY <2>1, <2>4, <3>2 DEF EffectiveReserved, TypeOK
  <2> HIDE DEF gone, rest
  <2>6. SumOver(Ests, rest \cup gone) = SumOver(Ests, rest) + SumOver(Ests, gone)
    BY <2>2, SumTypes, SumDisjoint
  <2>7. held = SumOver(Ests, rest) + workerLeases[t].inFlight /\ SumOver(Ests, rest) \in Nat
    BY <2>2, <2>4, <2>6, SumTypes
  <2>8. SumOver(Ests', llmReservations') = held - workerLeases[t].inFlight
    BY <1>0, <2>1, <2>3, <2>4, <2>7
  <2> QED BY <1>0, <2>5, <2>8 DEF HeldInTotal
<1> QED BY <1>1, <1>2, <1>3, <1>4, StepKinds

-----------------------------------------------------------------------------
(* The counters and the charges.                                           *)

\* What the runs check of the counters, with and without reconciliation.
Charged == ChargesNeverLost /\ ChargedExactlyOnce

LEMMA ChargedKept ==
  ASSUME TypeOK, TypeOK', Accounts, Uncharged, Charged, [Next]_vars
  PROVE  Charged'
<1> DEFINE sum == SumOver(Charges, Calls)
           count == Cardinality(Settled)
<1>0. /\ sum \in Nat /\ count \in Nat /\ usedTokens \in Nat /\ llmCalls \in Nat
      /\ usedTokens >= sum /\ llmCalls >= count
      /\ SyncsUsage \/ (usedTokens = sum /\ llmCalls = count)
  BY SumTypes, FS_CardinalityType DEF Charged, ChargesNeverLost, ChargedExactlyOnce, TypeOK
<1>1. ASSUME NEW k \in Nat, NEW n \in Nat,
             SumOver(Charges', Calls) = sum + k, Cardinality(Settled') = count + n,
             usedTokens' = usedTokens + k, llmCalls' = llmCalls + n
      PROVE  Charged'
  <2>1. /\ usedTokens' >= SumOver(Charges', Calls) /\ llmCalls' >= Cardinality(Settled')
        /\ SyncsUsage \/ (usedTokens' = SumOver(Charges', Calls)
                           /\ llmCalls' = Cardinality(Settled'))
    BY <1>0, <1>1
  <2> QED BY <2>1 DEF Charged, ChargesNeverLost, ChargedExactlyOnce
<1>2. CASE Quiet
  <2>1. Charges' = Charges /\ Settled' = Settled
    BY <1>2, QuietSums
  <2>2. /\ usedTokens' >= usedTokens /\ llmCalls' >= llmCalls
        /\ SyncsUsage \/ (usedTokens' = usedTokens /\ llmCalls' = llmCalls)
    BY <1>2 DEF Quiet, SameUsage
  <2>3. usedTokens' \in Nat /\ llmCalls' \in Nat
    BY DEF TypeOK
  <2>4. /\ usedTokens' >= sum /\ llmCalls' >= count
        /\ SyncsUsage \/ (usedTokens' = sum /\ llmCalls' = count)
    BY <1>0, <2>2, <2>3
  <2> QED BY <2>1, <2>4 DEF Charged, ChargesNeverLost, ChargedExactlyOnce
<1>3. ASSUME NEW c \in Calls, Reserves(c) PROVE Charged'
  <2>1. /\ \A d \in Calls \ {c} : calls'[d] = calls[d]
        /\ calls'[c].charge = 0 /\ calls[c].charge = 0
        /\ usedTokens' = usedTokens /\ llmCalls' = llmCalls
    BY <1>3 DEF Reserves, SameUsage, Uncharged, IdleCall
  <2>2. SumOver(Charges', Calls) = sum - 0 + 0
    BY <2>1, OtherCalls
  <2>3. Settled' = Settled
    BY <1>3, SettledAfter
  <2> QED BY <1>0, <1>1, <2>1, <2>2, <2>3
<1>4. ASSUME NEW c \in Calls, NEW k \in Nat, Settles(c, k) PROVE Charged'
  <2>1. /\ \A d \in Calls \ {c} : calls'[d] = calls[d]
        /\ calls'[c].charge = calls[c].charge + k
        /\ usedTokens' = usedTokens + k /\ llmCalls' = llmCalls + 1
    BY <1>4 DEF Settles
  <2>2. SumOver(Charges', Calls) = sum - calls[c].charge + (calls[c].charge + k)
    BY <2>1, OtherCalls
  <2>3. SumOver(Charges', Calls) = sum + k
    BY <1>0, <2>2 DEF TypeOK, CallRecords
  <2>4. Settled' = Settled \cup {c} /\ c \notin Settled
    BY <1>4, SettledAfter
  <2>5. Cardinality(Settled') = count + 1
    BY <2>4, SumTypes, FS_AddElement
  <2> QED BY <1>1, <2>1, <2>3, <2>5
<1>5. ASSUME NEW t \in Tasks, ReleaseWorkerLease(t) PROVE Charged'
  <2>1. /\ calls' = calls /\ usedTokens' = usedTokens
        /\ llmCalls' = llmCalls + Cardinality(Live(t))
    BY <1>5 DEF ReleaseWorkerLease, ReservationsOf, Live
  <2>2. Charges' = Charges
    BY <2>1 DEF Charges
  <2>3. Settled' = Settled \cup Live(t) /\ Settled \cap Live(t) = {}
    BY <1>5, SettledAfter
  <2>4. IsFiniteSet(Settled) /\ IsFiniteSet(Live(t)) /\ Cardinality(Live(t)) \in Nat
    BY SumTypes, LiveFacts, FS_CardinalityType
  <2>5. Cardinality(Settled \cup Live(t)) = count + Cardinality(Live(t)) - Cardinality({})
    BY <2>3, <2>4, FS_Union, Zenon
  <2>6. Cardinality(Settled') = count + Cardinality(Live(t))
    BY <1>0, <2>3, <2>4, <2>5, FS_EmptySet
  <2> QED BY <1>0, <1>1, <2>1, <2>2, <2>4, <2>6
<1> QED BY <1>2, <1>3, <1>4, <1>5, StepKinds

-----------------------------------------------------------------------------
(* The share kept for finalization.                                        *)

LEMMA OverrunGrows ==
  ASSUME NEW S, NEW T, IsFiniteSet(T), S \subseteq T
  PROVE  /\ Cardinality(S) \in Nat /\ Cardinality(T) \in Nat
         /\ Overrun * Cardinality(S) \in Nat /\ Overrun * Cardinality(T) \in Nat
         /\ Overrun * Cardinality(S) <= Overrun * Cardinality(T)
<1>1. Overrun \in Nat
  BY InputAssumption
<1>2. \A m, n \in Nat : m <= n => Overrun * m <= Overrun * n /\ Overrun * m \in Nat
  BY <1>1
<1>3. /\ Cardinality(S) \in Nat /\ Cardinality(T) \in Nat
      /\ Cardinality(S) <= Cardinality(T)
  BY FS_Subset, FS_CardinalityType
<1> QED BY <1>2, <1>3

LEMMA OverrunOneMore ==
  ASSUME NEW S, IsFiniteSet(S), NEW c, c \notin S
  PROVE  /\ Overrun * Cardinality(S \cup {c}) = Overrun * Cardinality(S) + Overrun
         /\ Overrun * Cardinality(S) \in Nat
<1>1. Overrun \in Nat /\ Cardinality(S) \in Nat /\ Cardinality(S \cup {c}) = Cardinality(S) + 1
  BY InputAssumption, FS_CardinalityType, FS_AddElement
<1>2. \A n \in Nat : Overrun * (n + 1) = Overrun * n + Overrun /\ Overrun * n \in Nat
  BY <1>1
<1> QED BY <1>1, <1>2

LEMMA FinalizationReserveType ==
  ASSUME NEW ceiling \in Nat, ceiling > 0
  PROVE  FinalizationReserve(ceiling) \in Nat /\ FinalizationReserve(ceiling) <= ceiling
BY DEF FinalizationReserve, Larger


\* A worker may spend no more than this, by whether it has asked for a
\* finalization call.
NoFinalCall(t) == \A c \in Calls : ~(calls[c].task = t /\ calls[c].phase = "finalize")
Allowed(spent, ceiling, errors, noFinalCall) ==
  /\ ceiling > 0
  /\ spent <= ceiling + Overrun * errors
  /\ noFinalCall => spent <= ceiling - FinalizationReserve(ceiling) + Overrun * errors
Spent(lease) == lease.used + lease.inFlight

LEMMA AllowedWidens ==
  ASSUME NEW spent \in Int, NEW ceiling \in Nat, NEW S, NEW T, IsFiniteSet(T), S \subseteq T,
         NEW a \in BOOLEAN, NEW b \in BOOLEAN, b => a,
         Allowed(spent, ceiling, Cardinality(S), a)
  PROVE  Allowed(spent, ceiling, Cardinality(T), b)
<1> DEFINE m == Overrun * Cardinality(S)
           n == Overrun * Cardinality(T)
           kept == FinalizationReserve(ceiling)
<1>1. m \in Nat /\ n \in Nat /\ m <= n
  BY OverrunGrows
<1>2. ceiling > 0 /\ spent <= ceiling + m /\ (a => spent <= ceiling - kept + m)
  BY DEF Allowed
<1>3. kept \in Nat
  BY <1>2, FinalizationReserveType
<1> HIDE DEF m, n, kept
<1>4. spent <= ceiling + n /\ (b => spent <= ceiling - kept + n)
  BY <1>1, <1>2, <1>3
<1> QED BY <1>2, <1>4 DEF Allowed, n, kept

LEMMA FinalizationShareIs ==
  FinalizationShareKept <=>
    \A t \in Tasks : workerLeases[t].active =>
      Allowed(Spent(workerLeases[t]), workerLeases[t].ceiling, Cardinality(SettledUnder(t)),
              NoFinalCall(t))
BY DEF FinalizationShareKept, Allowed, NoFinalCall, Spent

\* What a step leaves of the bound on one lease.
LEMMA LeaseStaysAllowed ==
  ASSUME TypeOK, TypeOK', FinalizationShareKept, NEW t \in Tasks, workerLeases'[t].active,
         SameLease(t), SettledUnder(t) \subseteq SettledUnder(t)', NoFinalCall(t)' => NoFinalCall(t)
  PROVE  Allowed(Spent(workerLeases'[t]), workerLeases'[t].ceiling,
                 Cardinality(SettledUnder(t)'), NoFinalCall(t)')
<1> DEFINE S == SettledUnder(t)
           T == SettledUnder(t)'
           a == NoFinalCall(t)
           b == NoFinalCall(t)'
           lease == workerLeases[t]
<1>1. IsFiniteSet(T) /\ S \subseteq T
  BY IdentityAssumption, FS_Subset DEF Settled, SettledUnder
<1>2. /\ Spent(lease) \in Int /\ lease.ceiling \in Nat /\ lease.active
      /\ Spent(workerLeases'[t]) = Spent(lease) /\ workerLeases'[t].ceiling = lease.ceiling
  BY DEF TypeOK, Leases, Spent, SameLease
<1>3. a \in BOOLEAN /\ b \in BOOLEAN /\ (b => a)
  BY DEF NoFinalCall
<1>4. Allowed(Spent(lease), lease.ceiling, Cardinality(S), a)
  BY <1>2, FinalizationShareIs
<1> HIDE DEF S, T, a, b
<1>5. Allowed(Spent(lease), lease.ceiling, Cardinality(T), b)
  BY <1>1, <1>2, <1>3, <1>4, AllowedWidens
<1> QED BY <1>2, <1>5 DEF T, b

\* Nothing is spent under a lease that was just granted.
LEMMA NewLeaseAllowed ==
  ASSUME TypeOK, TypeOK', NEW t \in Tasks, NewLease(t)
  PROVE  Allowed(Spent(workerLeases'[t]), workerLeases'[t].ceiling,
                 Cardinality(SettledUnder(t)'), NoFinalCall(t)')
<1> DEFINE n == Overrun * Cardinality(SettledUnder(t)')
           ceiling == workerLeases'[t].ceiling
<1>1. IsFiniteSet(SettledUnder(t)')
  BY IdentityAssumption, FS_Subset DEF Settled, SettledUnder
<1>2. n \in Nat
  BY <1>1, OverrunGrows
<1>3. ceiling \in Nat /\ ceiling > 0 /\ Spent(workerLeases'[t]) = 0
  BY DEF TypeOK, Leases, NewLease, Spent
<1> HIDE DEF n, ceiling
<1>4. FinalizationReserve(ceiling) \in Nat /\ FinalizationReserve(ceiling) <= ceiling
  BY <1>3, FinalizationReserveType
<1>5. 0 <= ceiling + n /\ 0 <= ceiling - FinalizationReserve(ceiling) + n
  BY <1>2, <1>3, <1>4
<1> QED BY <1>3, <1>5 DEF Allowed, n, ceiling

\* An authorisation stays under the worker's limit for its phase.
LEMMA ReservationAllowed ==
  ASSUME TypeOK, TypeOK', FinalizationShareKept, NEW c \in Calls, Reserves(c),
         NEW t \in Tasks, calls'[c].task = t
  PROVE  Allowed(Spent(workerLeases'[t]), workerLeases'[t].ceiling,
                 Cardinality(SettledUnder(t)'), NoFinalCall(t)')
<1> DEFINE n == Overrun * Cardinality(SettledUnder(t)')
           lease == workerLeases[t]
           spent == Spent(workerLeases'[t])
<1>1. IsFiniteSet(SettledUnder(t)')
  BY IdentityAssumption, FS_Subset DEF Settled, SettledUnder
<1>2. n \in Nat
  BY <1>1, OverrunGrows
<1>3. /\ lease.active /\ workerLeases'[t].ceiling = lease.ceiling /\ lease \in Leases
      /\ lease.ceiling = 0 \/ spent <= WorkerTokenLimit(lease, calls'[c].phase)
      /\ spent \in Int
  BY DEF Reserves, TypeOK, Leases, Spent
<1>4. lease.ceiling \in Nat /\ lease.ceiling > 0
  BY <1>3, FinalizationShareIs DEF Allowed, Leases
<1>5. /\ FinalizationReserve(lease.ceiling) \in Nat
      /\ FinalizationReserve(lease.ceiling) <= lease.ceiling
  BY <1>4, FinalizationReserveType
<1> HIDE DEF n, spent
<1>6. spent <= lease.ceiling
  BY <1>3, <1>4, <1>5 DEF WorkerTokenLimit, Larger
<1>7. NoFinalCall(t)' => spent <= lease.ceiling - FinalizationReserve(lease.ceiling)
  <2>1. NoFinalCall(t)' => calls'[c].phase # "finalize"
    BY DEF NoFinalCall
  <2> QED BY <1>3, <1>4, <1>5, <2>1 DEF WorkerTokenLimit, Larger
<1>8. /\ spent <= lease.ceiling + n
      /\ NoFinalCall(t)' => spent <= lease.ceiling - FinalizationReserve(lease.ceiling) + n
  BY <1>2, <1>3, <1>4, <1>5, <1>6, <1>7
<1> QED BY <1>3, <1>4, <1>8 DEF Allowed, n, spent

\* A settlement replaces an estimate by a charge that exceeds it by at most the
\* error allowed for one settled call.
LEMMA SettlementAllowed ==
  ASSUME TypeOK, TypeOK', Accounts, FinalizationShareKept, NEW c \in Calls, NEW k \in Nat,
         Settles(c, k), NEW t \in Tasks, calls[c].task = t
  PROVE  Allowed(Spent(workerLeases'[t]), workerLeases'[t].ceiling,
                 Cardinality(SettledUnder(t)'), NoFinalCall(t)')
<1> DEFINE S == SettledUnder(t)
           m == Overrun * Cardinality(S)
           n == Overrun * Cardinality(S \cup {c})
           lease == workerLeases[t]
           spent == Spent(workerLeases'[t])
           kept == FinalizationReserve(lease.ceiling)
<1>1. SettledUnder(t)' = S \cup {c} /\ c \notin S /\ IsFiniteSet(S)
  <2>1. Settled' = Settled \cup {c} /\ c \notin Settled /\ Settled \subseteq Calls
    BY SettledAfter DEF Settled
  <2>2. \A d \in Calls : calls'[d].task = calls[d].task
    BY DEF Settles
  <2>3. SettledUnder(t)' = {d \in Settled' : calls'[d].task = t}
    BY DEF SettledUnder
  <2>4. SettledUnder(t)' = S \cup {c} /\ c \notin S
    BY <2>1, <2>2, <2>3 DEF SettledUnder
  <2> QED BY <2>1, <2>4, IdentityAssumption, FS_Subset DEF SettledUnder
<1>2. n = m + Overrun /\ m \in Nat /\ Overrun \in Nat
  BY <1>1, OverrunOneMore, InputAssumption
<1>3. /\ lease.active /\ workerLeases'[t].ceiling = lease.ceiling
      /\ spent <= Spent(lease) + Overrun /\ spent \in Int /\ Spent(lease) \in Int
      /\ lease.ceiling \in Nat
  <2>1. /\ lease.used \in Nat /\ lease.inFlight \in Nat /\ lease.ceiling \in Nat
        /\ calls[c].est \in Nat
    BY DEF TypeOK, Leases, CallRecords
  <2>2. /\ lease.active /\ workerLeases'[t].ceiling = lease.ceiling
        /\ workerLeases'[t].used = lease.used + k
        /\ workerLeases'[t].inFlight = lease.inFlight - calls[c].est
        /\ k <= calls[c].est + Overrun
    BY DEF Settles
  <2> QED BY <1>2, <2>1, <2>2 DEF Spent
<1>4. NoFinalCall(t)' => NoFinalCall(t)
  BY DEF NoFinalCall, Settles
<1>5. /\ lease.ceiling > 0 /\ Spent(lease) <= lease.ceiling + m
      /\ NoFinalCall(t) => Spent(lease) <= lease.ceiling - kept + m
  BY <1>3, FinalizationShareIs DEF Allowed
<1>6. kept \in Nat
  BY <1>3, <1>5, FinalizationReserveType
<1> HIDE DEF S, m, n, spent, kept
<1>7. spent <= lease.ceiling + n /\ (NoFinalCall(t)' => spent <= lease.ceiling - kept + n)
  BY <1>2, <1>3, <1>4, <1>5, <1>6
<1> QED BY <1>1, <1>3, <1>5, <1>7 DEF Allowed, n, spent, kept

LEMMA FinalizationShareStays ==
  ASSUME TypeOK, TypeOK', Accounts, Uncharged, FinalizationShareKept, [Next]_vars
  PROVE  FinalizationShareKept'
<1>1. SUFFICES ASSUME NEW t \in Tasks, workerLeases'[t].active
               PROVE  Allowed(Spent(workerLeases'[t]), workerLeases'[t].ceiling,
                              Cardinality(SettledUnder(t)'), NoFinalCall(t)')
  BY DEF FinalizationShareKept, Allowed, NoFinalCall, Spent
<1>2. CASE Quiet
  <2>1. SettledUnder(t)' = SettledUnder(t)
    BY <1>2, QuietSums
  <2>2. NoFinalCall(t)' => NoFinalCall(t)
    BY <1>2 DEF Quiet, SameCall, NoFinalCall
  <2> QED BY <1>1, <1>2, <2>1, <2>2, LeaseStaysAllowed, NewLeaseAllowed DEF Quiet
<1>3. ASSUME NEW c \in Calls, Reserves(c)
      PROVE  Allowed(Spent(workerLeases'[t]), workerLeases'[t].ceiling,
                     Cardinality(SettledUnder(t)'), NoFinalCall(t)')
  <2>1. CASE calls'[c].task = t
    BY <1>3, <2>1, ReservationAllowed
  <2>2. CASE calls'[c].task # t
    <3>1. SameLease(t) /\ \A d \in Calls \ {c} : calls'[d] = calls[d]
      BY <1>3, <2>2 DEF Reserves
    <3>2. calls[c].phase # "finalize" /\ c \notin Settled
      BY <1>3 DEF Reserves, Uncharged, IdleCall, Settled
    <3>3. NoFinalCall(t)' => NoFinalCall(t)
      BY <3>1, <3>2 DEF NoFinalCall
    <3>4. SettledUnder(t) \subseteq SettledUnder(t)'
      <4>1. Settled' = Settled /\ Settled \subseteq Calls
        BY <1>3, SettledAfter DEF Settled
      <4>2. SettledUnder(t)' = {d \in Settled' : calls'[d].task = t}
        BY DEF SettledUnder
      <4> QED BY <3>1, <3>2, <4>1, <4>2 DEF SettledUnder
    <3> QED BY <1>1, <3>1, <3>3, <3>4, LeaseStaysAllowed
  <2> QED BY <2>1, <2>2
<1>4. ASSUME NEW c \in Calls, NEW k \in Nat, Settles(c, k)
      PROVE  Allowed(Spent(workerLeases'[t]), workerLeases'[t].ceiling,
                     Cardinality(SettledUnder(t)'), NoFinalCall(t)')
  <2>1. CASE calls[c].task = t
    BY <1>4, <2>1, SettlementAllowed
  <2>2. CASE calls[c].task # t
    <3>1. SameLease(t) /\ \A d \in Calls : /\ calls'[d].task = calls[d].task
                                           /\ calls'[d].phase = calls[d].phase
      BY <1>4, <2>2 DEF Settles
    <3>2. NoFinalCall(t)' => NoFinalCall(t)
      BY <3>1 DEF NoFinalCall
    <3>3. SettledUnder(t) \subseteq SettledUnder(t)'
      <4>1. Settled' = Settled \cup {c} /\ Settled \subseteq Calls
        BY <1>4, SettledAfter DEF Settled
      <4>2. SettledUnder(t)' = {d \in Settled' : calls'[d].task = t}
        BY DEF SettledUnder
      <4> QED BY <3>1, <4>1, <4>2 DEF SettledUnder
    <3> QED BY <1>1, <3>1, <3>2, <3>3, LeaseStaysAllowed
  <2> QED BY <2>1, <2>2
<1>5. ASSUME NEW u \in Tasks, ReleaseWorkerLease(u)
      PROVE  Allowed(Spent(workerLeases'[t]), workerLeases'[t].ceiling,
                     Cardinality(SettledUnder(t)'), NoFinalCall(t)')
  <2>1. calls' = calls /\ workerLeases' = [workerLeases EXCEPT ![u] = NoLease]
    BY <1>5 DEF ReleaseWorkerLease
  <2>2. SameLease(t)
    <3>1. t # u
      BY <1>1, <2>1 DEF NoLease, TypeOK
    <3> QED BY <2>1, <3>1 DEF SameLease, TypeOK
  <2>3. SettledUnder(t) \subseteq SettledUnder(t)'
    <3>1. Settled \subseteq Settled'
      BY <1>5, SettledAfter
    <3>2. SettledUnder(t)' = {d \in Settled' : calls'[d].task = t}
      BY DEF SettledUnder
    <3> QED BY <2>1, <3>1, <3>2 DEF SettledUnder
  <2>4. NoFinalCall(t)' => NoFinalCall(t)
    BY <2>1 DEF NoFinalCall
  <2> QED BY <1>1, <2>2, <2>3, <2>4, LeaseStaysAllowed
<1> QED BY <1>2, <1>3, <1>4, <1>5, StepKinds

-----------------------------------------------------------------------------
(* The share of the research stage.                                        *)

ResearchTotal == SumOver(ResearchSpend, InitialResearchCalls)
ResearchErrors == InitialResearchCalls \cap Settled

LEMMA ResearchFacts ==
  ASSUME TypeOK
  PROVE  /\ InitialResearchCalls \in SUBSET Calls /\ IsFiniteSet(InitialResearchCalls)
         /\ ResearchTotal \in Nat /\ IsFiniteSet(ResearchErrors)
         /\ StageCap("research") \in Nat /\ Overrun * Cardinality(ResearchErrors) \in Nat
<1>1. InitialResearchCalls \in SUBSET Calls
  BY DEF InitialResearchCalls
<1>2. IsFiniteSet(InitialResearchCalls) /\ ResearchTotal \in Nat
  BY <1>1, SumTypes DEF ResearchTotal
<1>3. IsFiniteSet(ResearchErrors)
  BY <1>2, FS_Subset DEF ResearchErrors
<1>4. Overrun * Cardinality(ResearchErrors) \in Nat
  BY <1>3, OverrunGrows
<1> QED BY <1>1, <1>2, <1>3, <1>4, StageCapType DEF Stages

\* What initial research spends or holds is part of what the run does.
LEMMA SpendBounded ==
  ASSUME TypeOK, HeldInTotal, ChargesNeverLost
  PROVE  ResearchTotal <= EffectiveUsed
<1> DEFINE held == llmReservations
           made == Calls \ llmReservations
<1>1. /\ held \in SUBSET Calls /\ made \in SUBSET Calls /\ held \cap made = {}
      /\ held \cup made = Calls
  BY DEF TypeOK
<1>2. /\ \A c \in held : ResearchSpend[c] = Ests[c]
      /\ \A c \in made : ResearchSpend[c] = Charges[c]
  BY <1>1 DEF ResearchSpend, Ests, Charges
<1>3. /\ \A c \in Calls : ResearchSpend[c] \in Nat /\ Ests[c] \in Nat /\ Charges[c] \in Nat
      /\ IsFiniteSet(Calls) /\ IsFiniteSet(held) /\ IsFiniteSet(made)
      /\ SumOver(Ests, held) \in Nat /\ SumOver(Charges, made) \in Nat
      /\ SumOver(Charges, Calls) \in Nat /\ SumOver(ResearchSpend, Calls) \in Nat
  BY <1>1, SumTypes
<1> HIDE DEF held, made
<1>4. ResearchTotal <= SumOver(ResearchSpend, Calls)
  BY <1>3, ResearchFacts, SumMonotone DEF ResearchTotal
<1>5. SumOver(ResearchSpend, Calls) = SumOver(ResearchSpend, held) + SumOver(ResearchSpend, made)
  BY <1>1, <1>3, SumDisjoint
<1>6. SumOver(ResearchSpend, held) = SumOver(Ests, held)
  BY <1>2, SumSame
<1>7. SumOver(ResearchSpend, made) = SumOver(Charges, made)
  BY <1>2, SumSame
<1>8. SumOver(Charges, made) <= SumOver(Charges, Calls)
  BY <1>1, <1>3, SumMonotone
<1>9. SumOver(Ests, held) = EffectiveReserved /\ SumOver(Charges, Calls) <= usedTokens
  BY DEF HeldInTotal, ChargesNeverLost, held
<1> QED BY <1>3, <1>4, <1>5, <1>6, <1>7, <1>8, <1>9, ResearchFacts DEF EffectiveUsed, TypeOK

LEMMA ResearchShareIs ==
  ResearchShareKept <=>
    ResearchTotal <= StageCap("research") + Overrun * Cardinality(ResearchErrors)
BY DEF ResearchShareKept, ResearchTotal, ResearchErrors

\* A step that spends no more and settles no fewer calls keeps the bound.
LEMMA ShareWidens ==
  ASSUME TypeOK, TypeOK', ResearchShareKept,
         ResearchTotal' <= ResearchTotal, ResearchErrors \subseteq ResearchErrors'
  PROVE  ResearchShareKept'
<1> DEFINE m == Overrun * Cardinality(ResearchErrors)
           n == Overrun * Cardinality(ResearchErrors')
<1>1. IsFiniteSet(ResearchErrors')
  BY IdentityAssumption, FS_Subset DEF ResearchErrors, InitialResearchCalls
<1>2. m \in Nat /\ n \in Nat /\ m <= n
  BY <1>1, OverrunGrows
<1>3. ResearchTotal \in Nat /\ StageCap("research") \in Nat /\ ResearchTotal <= StageCap("research") + m
  BY ResearchFacts, ResearchShareIs
<1>4. PICK s \in Int : s = ResearchTotal'
  <2>1. \A c \in Calls : ResearchSpend'[c] \in Nat
    BY DEF TypeOK, CallRecords, ResearchSpend
  <2>2. InitialResearchCalls' \in SUBSET Calls
    BY DEF InitialResearchCalls
  <2>3. IsFiniteSet(InitialResearchCalls')
    BY <2>2, IdentityAssumption, FS_Subset
  <2>4. SumOver(ResearchSpend', InitialResearchCalls') \in Nat
    BY <2>1, <2>2, <2>3, UnitsFinite
  <2> QED BY <2>4 DEF ResearchTotal
<1> HIDE DEF m, n
<1>5. s <= StageCap("research") + n
  BY <1>2, <1>3, <1>4
<1>6. StageCap("research")' = StageCap("research")
  BY DEF StageCap, StageReserve, Smaller
<1> QED BY <1>4, <1>5, <1>6 DEF ResearchShareKept, ResearchTotal, ResearchErrors, n

\* An authorisation under a research phase found room in the research share for
\* everything that is spent or in flight, its own estimate included.
LEMMA ReservationShares ==
  ASSUME TypeOK, TypeOK', Accounts, Uncharged, HeldInTotal, ChargesNeverLost, ResearchShareKept,
         NEW c \in Calls, Reserves(c)
  PROVE  ResearchShareKept'
<1> DEFINE f == ResearchSpend'
           IRC == InitialResearchCalls
<1>1. /\ calls[c] = IdleCall /\ c \notin llmReservations /\ c \notin IRC
      /\ \A d \in Calls \ {c} : calls'[d] = calls[d]
      /\ llmReservations' = llmReservations \cup {c}
      /\ Settled' = Settled
  <2>1. /\ calls[c] = IdleCall /\ c \notin llmReservations
        /\ \A d \in Calls \ {c} : calls'[d] = calls[d]
        /\ llmReservations' = llmReservations \cup {c}
    BY DEF Reserves, Uncharged
  <2>2. c \notin IRC
    BY <2>1 DEF InitialResearchCalls, IdleCall, ResearchPhases
  <2>3. Settled' = Settled
    BY SettledAfter
  <2> QED BY <2>1, <2>2, <2>3
<1>2. /\ \A d \in Calls \ {c} : f[d] = ResearchSpend[d]
      /\ f[c] = calls'[c].est
  BY <1>1 DEF ResearchSpend
<1>3. /\ IRC \in SUBSET Calls /\ IsFiniteSet(IRC) /\ ResearchTotal \in Nat
      /\ \A d \in Calls : ResearchSpend[d] \in Nat
      /\ calls'[c].est \in Nat
  BY ResearchFacts, SumTypes DEF TypeOK, CallRecords
<1>4. \A d \in Calls : f[d] \in Nat
  BY <1>2, <1>3
<1>5. SumOver(f, IRC) = ResearchTotal
  <2>1. \A d \in IRC : f[d] = ResearchSpend[d]
    BY <1>1, <1>2, <1>3
  <2> HIDE DEF f, IRC
  <2>2. SumOver(f, IRC) = SumOver(ResearchSpend, IRC)
    BY <2>1, SumSame
  <2> QED BY <2>2 DEF ResearchTotal, IRC
<1>6. CASE c \in IRC'
  <2>1. IRC' = IRC \cup {c} /\ calls'[c].stage = "research" /\ calls'[c].phase \in ResearchPhases
    BY <1>1, <1>6 DEF InitialResearchCalls
  <2> HIDE DEF f, IRC
  <2>2. SumOver(f, IRC \cup {c}) = SumOver(f, IRC) + f[c]
    BY <1>1, <1>3, <1>4, SumAdd
  <2>3. SumOver(f, IRC') = ResearchTotal + calls'[c].est
    BY <1>2, <1>5, <2>1, <2>2
  <2>4. EffectiveUsed + calls'[c].est <= StageCap("research")
    BY <2>1 DEF Reserves
  <2>5. ResearchTotal <= EffectiveUsed /\ EffectiveUsed \in Nat /\ StageCap("research") \in Nat
    BY SpendBounded, EffectiveUsedType, ResearchFacts
  <2>6. SumOver(f, IRC') <= StageCap("research")
    BY <1>3, <2>3, <2>4, <2>5
  <2>7. Overrun * Cardinality(IRC' \cap Settled') \in Nat
    <3>1. IsFiniteSet(IRC' \cap Settled')
      BY IdentityAssumption, FS_Subset DEF InitialResearchCalls, IRC
    <3> QED BY <3>1, OverrunGrows
  <2>8. SumOver(f, IRC') \in Int
    BY <1>3, <2>3
  <2>9. SumOver(f, IRC') <= StageCap("research") + Overrun * Cardinality(IRC' \cap Settled')
    BY <2>5, <2>6, <2>7, <2>8
  <2>10. StageCap("research")' = StageCap("research")
    BY DEF StageCap, StageReserve, Smaller
  <2> QED BY <2>9, <2>10 DEF ResearchShareKept, f, IRC
<1>7. CASE c \notin IRC'
  <2>1. IRC' = IRC
    BY <1>1, <1>7 DEF InitialResearchCalls
  <2>2. ResearchTotal' = ResearchTotal
    BY <1>5, <2>1 DEF ResearchTotal
  <2>3. ResearchErrors' = ResearchErrors
    BY <1>1, <2>1 DEF ResearchErrors
  <2> QED BY <1>3, <2>2, <2>3, ShareWidens
<1> QED BY <1>6, <1>7

\* A settled call may have cost more than was held for it, by at most the error
\* its settlement adds to the bound.
LEMMA SettlementShares ==
  ASSUME TypeOK, TypeOK', Accounts, Uncharged, ResearchShareKept, NEW c \in Calls, NEW k \in Nat,
         Settles(c, k)
  PROVE  ResearchShareKept'
<1> DEFINE f == ResearchSpend
           g == ResearchSpend'
           IRC == InitialResearchCalls
<1>1. /\ c \in llmReservations /\ llmReservations' = llmReservations \ {c}
      /\ \A d \in Calls \ {c} : calls'[d] = calls[d]
      /\ calls'[c].charge = k /\ calls'[c].stage = calls[c].stage
      /\ calls'[c].phase = calls[c].phase /\ k <= calls[c].est + Overrun
      /\ Settled' = Settled \cup {c} /\ c \notin Settled
  BY SettledAfter DEF Settles, Uncharged
<1>2. IRC' = IRC
  BY <1>1 DEF InitialResearchCalls
<1>3. /\ \A d \in Calls \ {c} : g[d] = f[d]
      /\ f[c] = calls[c].est /\ g[c] = k
  BY <1>1 DEF ResearchSpend
<1>4. /\ IRC \in SUBSET Calls /\ IsFiniteSet(IRC) /\ ResearchTotal \in Nat
      /\ calls[c].est \in Nat /\ Overrun \in Nat
      /\ \A d \in Calls : f[d] \in Nat
  BY ResearchFacts, SumTypes, InputAssumption DEF TypeOK, CallRecords
<1>5. \A d \in Calls : g[d] \in Nat
  BY <1>3, <1>4
<1>6. CASE c \in IRC
  <2>1. ResearchErrors' = ResearchErrors \cup {c} /\ c \notin ResearchErrors
    BY <1>1, <1>2, <1>6 DEF ResearchErrors
  <2>2. IsFiniteSet(ResearchErrors)
    BY ResearchFacts
  <2>3. /\ Overrun * Cardinality(ResearchErrors') = Overrun * Cardinality(ResearchErrors) + Overrun
        /\ Overrun * Cardinality(ResearchErrors) \in Nat
    BY <2>1, <2>2, OverrunOneMore
  <2> HIDE DEF f, g, IRC
  <2>4. SumOver(g, IRC) = SumOver(f, IRC) - f[c] + g[c]
    BY <1>3, <1>4, <1>5, <1>6, SumChange
  <2>5. SumOver(f, IRC) = ResearchTotal
    BY DEF ResearchTotal, f, IRC
  <2>6. SumOver(g, IRC) <= ResearchTotal + Overrun /\ SumOver(g, IRC) \in Int
    BY <1>1, <1>3, <1>4, <2>4, <2>5
  <2>7. /\ ResearchTotal <= StageCap("research") + Overrun * Cardinality(ResearchErrors)
        /\ StageCap("research") \in Nat
    BY ResearchShareIs, ResearchFacts
  <2>8. SumOver(g, IRC) <= StageCap("research")
                             + (Overrun * Cardinality(ResearchErrors) + Overrun)
    BY <1>4, <2>3, <2>6, <2>7
  <2>9. SumOver(g, IRC') <= StageCap("research") + Overrun * Cardinality(ResearchErrors')
    BY <1>2, <2>3, <2>8
  <2>10. StageCap("research")' = StageCap("research")
    BY DEF StageCap, StageReserve, Smaller
  <2> QED BY <2>9, <2>10 DEF ResearchShareKept, ResearchErrors, g, IRC
<1>7. CASE c \notin IRC
  <2>1. \A d \in IRC : g[d] = f[d]
    BY <1>3, <1>4, <1>7
  <2> HIDE DEF f, g, IRC
  <2>2. SumOver(g, IRC) = SumOver(f, IRC)
    BY <2>1, SumSame
  <2>3. ResearchTotal' = ResearchTotal
    BY <1>2, <2>2 DEF ResearchTotal, f, g, IRC
  <2>4. ResearchErrors \subseteq ResearchErrors'
    BY <1>1, <1>2 DEF ResearchErrors, IRC
  <2> QED BY <1>4, <2>3, <2>4, ShareWidens
<1> QED BY <1>6, <1>7

\* A released lease drops what its calls held: they cost nothing.
LEMMA ReleaseShares ==
  ASSUME TypeOK, TypeOK', Accounts, Uncharged, ResearchShareKept, NEW t \in Tasks,
         ReleaseWorkerLease(t)
  PROVE  ResearchShareKept'
<1> DEFINE f == ResearchSpend
           g == ResearchSpend'
           IRC == InitialResearchCalls
<1>1. calls' = calls /\ llmReservations' \subseteq llmReservations
  BY DEF ReleaseWorkerLease
<1>2. IRC' = IRC
  BY <1>1 DEF InitialResearchCalls
<1>3. IRC \in SUBSET Calls /\ IsFiniteSet(IRC) /\ \A d \in Calls : f[d] \in Nat
  BY ResearchFacts, SumTypes
<1>4. \A d \in IRC : g[d] \in Nat /\ g[d] <= f[d]
  BY <1>1, <1>3 DEF ResearchSpend, Uncharged, TypeOK, CallRecords
<1>5. ResearchErrors \subseteq ResearchErrors'
  <2>1. Settled \subseteq Settled'
    BY SettledAfter
  <2> QED BY <1>2, <2>1 DEF ResearchErrors
<1> HIDE DEF f, g, IRC
<1>6. SumOver(g, IRC) <= SumOver(f, IRC)
  BY <1>3, <1>4, SumMonotone
<1>7. ResearchTotal' <= ResearchTotal
  BY <1>2, <1>6 DEF ResearchTotal, f, g, IRC
<1> QED BY <1>5, <1>7, ShareWidens

LEMMA ResearchShareStays ==
  ASSUME TypeOK, TypeOK', Accounts, Uncharged, HeldInTotal, ChargesNeverLost, ResearchShareKept,
         [Next]_vars
  PROVE  ResearchShareKept'
<1>1. CASE Quiet
  <2>1. /\ ResearchSpend' = ResearchSpend /\ InitialResearchCalls' = InitialResearchCalls
        /\ Settled' = Settled
    BY <1>1, QuietSums
  <2>2. ResearchTotal' = ResearchTotal /\ ResearchErrors' = ResearchErrors
    BY <2>1 DEF ResearchTotal, ResearchErrors
  <2> QED BY <2>2, ResearchFacts, ShareWidens
<1> QED BY <1>1, StepKinds, ReservationShares, SettlementShares, ReleaseShares

-----------------------------------------------------------------------------
(* The latch.                                                              *)

\* Whoever writes the usage or the tool limit recomputes the latch from what it
\* wrote.
LatchFresh ==
  \/ UNCHANGED <<usedTokens, toolCalls, toolCallLimit, forceSynthesis>>
  \/ forceSynthesis' = Forced(usedTokens', llmCalls', toolCalls', toolCallLimit')

LEMMA SettleFreshens ==
  ASSUME NEW c \in Calls, NEW n, CommitUsage(c, n) \/ ReleaseReservation(c) \/ Unpopped,
         UNCHANGED <<toolCalls, toolCallLimit>>
  PROVE  LatchFresh
<1>1. CASE Unpopped
  BY <1>1 DEF Unpopped, counterVars, LatchFresh
<1>2. CASE CommitUsage(c, n) /\ c \in llmReservations
  <2>1. forceSynthesis' = Forced(usedTokens', llmCalls', toolCalls, toolCallLimit)
    BY <1>2 DEF CommitUsage
  <2> QED BY <2>1 DEF LatchFresh, Forced
<1>3. CASE ReleaseReservation(c) /\ c \in llmReservations
  BY <1>3 DEF ReleaseReservation, LatchFresh
<1> QED BY <1>1, <1>2, <1>3 DEF CommitUsage, ReleaseReservation

LEMMA StepFreshens ==
  ASSUME [Next]_vars
  PROVE  LatchFresh
<1>1. ASSUME NEW t \in Tasks, WorkerNext(t) PROVE LatchFresh
  <2>1. CASE ReleaseWorkerLease(t)
    BY <2>1 DEF ReleaseWorkerLease, LatchFresh, Forced
  <2>2. CASE ~ReleaseWorkerLease(t)
    BY <1>1, <2>2
       DEF WorkerNext, ReserveWorkerLease, GrantFinalizationCall, ReserveWorkerCall, LatchFresh
  <2> QED BY <2>1, <2>2
<1>2. ASSUME NEW c \in Calls, CallNext(c) PROVE LatchFresh
  <2>1. CASE Answer(c)
    BY <2>1, SettleFreshens DEF Answer, OnLlmEnd, OnLlmError, ReturnUnobserved, Unpopped
  <2>2. CASE Unwind(c)
    BY <2>2, SettleFreshens DEF Unwind, FinishReservation, FailReservation
  <2>3. CASE ~Answer(c) /\ ~Unwind(c)
    BY <1>2, <2>3 DEF CallNext, ReserveNonworkerCall, LatchFresh
  <2> QED BY <2>1, <2>2, <2>3
<1>3. CASE \/ \E n \in ToolBatches : ReserveToolCalls(n)
           \/ CapToolCalls \/ SyncFromUsage \/ QueryForceSynthesis
  BY <1>3 DEF ReserveToolCalls, CapToolCalls, SyncFromUsage, QueryForceSynthesis,
              LatchFresh, Forced
<1>4. CASE Tick \/ UNCHANGED vars
  BY <1>4 DEF Tick, vars, counterVars, LatchFresh
<1> QED BY <1>1, <1>2, <1>3, <1>4 DEF Next

LEMMA LatchStays ==
  ASSUME LatchFollowsUsage, [Next]_vars
  PROVE  LatchFollowsUsage'
<1>1. StageCap("research")' = StageCap("research")
  BY DEF StageCap, StageReserve, Smaller
<1> QED BY <1>1, StepFreshens DEF LatchFresh, LatchFollowsUsage, Forced
-----------------------------------------------------------------------------
(* The invariant and the theorems.                                         *)

CInv == Uncharged /\ HeldInTotal /\ Charged /\ SharesKept

LEMMA InitCInv == ASSUME Init, TypeOK PROVE CInv
<1>1. /\ llmReservations = {} /\ usedTokens = 0 /\ llmCalls = 0
      /\ reservedNonworkerTokens = 0
      /\ \A t \in Tasks : workerLeases[t] = NoLease
      /\ \A c \in Calls : calls[c] = IdleCall
  BY DEF Init
<1>2. Uncharged
  BY <1>1 DEF Uncharged
<1>3. HeldInTotal
  <2>1. \A t \in Tasks : InFlightOf(workerLeases)[t] = 0
    BY <1>1 DEF InFlightOf, NoLease
  <2>2. Units(InFlightOf(workerLeases), Tasks) = {}
    BY <2>1 DEF Units
  <2>3. ActiveReserved = 0
    BY <2>2, FS_EmptySet, Zenon DEF ActiveReserved, SumOver
  <2> QED BY <1>1, <2>3, SumEmpty DEF HeldInTotal, EffectiveReserved
<1>4. Charged
  <2>1. \A c \in Calls : Charges[c] = 0
    BY <1>1 DEF Charges, IdleCall
  <2>2. Units(Charges, Calls) = {}
    BY <2>1 DEF Units
  <2>3. SumOver(Charges, Calls) = 0
    BY <2>2, FS_EmptySet, Zenon DEF SumOver
  <2>4. Settled = {}
    BY <1>1 DEF Settled, IdleCall
  <2>5. Cardinality(Settled) = 0
    BY <2>4, FS_EmptySet
  <2> QED BY <1>1, <2>3, <2>5 DEF Charged, ChargesNeverLost, ChargedExactlyOnce
<1>5. FinalizationShareKept
  BY <1>1 DEF FinalizationShareKept, NoLease
<1>6. ResearchShareKept
  <2>1. InitialResearchCalls = {}
    BY <1>1 DEF InitialResearchCalls, IdleCall, ResearchPhases
  <2>2. ResearchTotal = 0
    BY <2>1, SumEmpty DEF ResearchTotal
  <2> QED BY <2>2, ResearchFacts, ResearchShareIs
<1> QED BY <1>2, <1>3, <1>4, <1>5, <1>6 DEF CInv, SharesKept

LEMMA ChargesInvariant == Spec => []CInv
<1>1. ASSUME Init, TypeOK PROVE CInv
  BY <1>1, InitCInv
<1>2. ASSUME CInv, IInv, IInv', [Next]_vars PROVE CInv'
  <2>1. TypeOK /\ TypeOK' /\ Accounts /\ Uncharged /\ HeldInTotal /\ Charged
        /\ ChargesNeverLost /\ FinalizationShareKept /\ ResearchShareKept
    BY <1>2 DEF CInv, IInv, Charged, SharesKept
  <2>2. Uncharged' /\ HeldInTotal' /\ Charged'
    BY <1>2, <2>1, UnchargedKept, HeldInTotalKept, ChargedKept
  <2>3. FinalizationShareKept' /\ ResearchShareKept'
    BY <1>2, <2>1, FinalizationShareStays, ResearchShareStays
  <2> QED BY <2>2, <2>3 DEF CInv, SharesKept
<1> QED BY <1>1, <1>2, TypeCorrect, BudgetInvariant, PTL DEF Spec

\* A call settled by its callback, by its wrapper and by its worker's release,
\* in whatever order they come, is charged once (the popped reservation id of
\* usage_tracker.py and run_budget.py).
THEOREM CallsChargedOnce == Spec => []ChargedExactlyOnce
<1>1. CInv => ChargedExactlyOnce
  BY DEF CInv, Charged
<1> QED BY <1>1, ChargesInvariant, PTL

\* A worker's calls leave it the share for its finalization call, and initial
\* research leaves the shares of the later stages (_worker_token_limit_locked,
\* reserve_llm_call), up to the error of the estimates of settled calls.
THEOREM SharesSurvive == Spec => []SharesKept
<1>1. CInv => SharesKept
  BY DEF CInv
<1> QED BY <1>1, ChargesInvariant, PTL

\* Folding in the tracker's totals loses no charge, and whenever tokens or tools
\* are used up the latch is set (sync_from_usage, _maybe_force_synthesis_locked).
\* With a research share of no tokens at all the first reader sets the latch,
\* so the run must have one to begin with.
THEOREM UsageRemembered ==
  ASSUME StageCap("research") # 0
  PROVE  Spec => []UsageIsRemembered
<1>1. Init => LatchFollowsUsage
  BY StageCapType, LimitAssumption DEF Init, LatchFollowsUsage, Stages
<1>2. ASSUME LatchFollowsUsage, [Next]_vars PROVE LatchFollowsUsage'
  BY <1>2, LatchStays
<1>3. CInv /\ LatchFollowsUsage => UsageIsRemembered
  BY DEF CInv, Charged, UsageIsRemembered
<1> QED BY <1>1, <1>2, <1>3, ChargesInvariant, PTL DEF Spec
=============================================================================
