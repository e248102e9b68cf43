------------------------- MODULE WorkerExecutionProofs -------------------------
(***************************************************************************)
(* Proofs about the two runtimes of a worker, and about what becomes of    *)
(* what workers return.                                                    *)
(*                                                                         *)
(* WorkerExecution, for every number of workers and threads and every      *)
(* limit: the counters of a worker and of the run agree, the threads       *)
(* overdraw a limit by what runs side by side at most, no worker is        *)
(* stopped softly before its first retrieval, and a worker whose answer    *)
(* named something failed only with nothing found.                         *)
(*                                                                         *)
(* DirectStep, for every number of retries, provider attempts and          *)
(* artifacts and all timeouts: what the worker reports is what its step    *)
(* did, in bounded time, and no call starts without a lease.               *)
(*                                                                         *)
(* Ingestion, for every set of tasks, evidence and statements and any      *)
(* number of waves: what the workers return becomes a ledger that is       *)
(* whole, and that only grows.                                             *)
(***************************************************************************)
EXTENDS WorkerExecution, DirectStep, Ingestion,
        FiniteSetTheorems, WellFoundedInduction, TLAPS

Pcs == {"queued", "calling", "answering", "tools", "judging", "finalizing", "search", "fetch",
        "collect", "returning", "ended"}
ThreadRecord == [state : {"idle", "asked", "checked", "authorized", "running", "refused"},
                 kind : {"none", "search", "fetch", "batch"}]
Counters == [search : Nat, fetch : Nat, tool : Nat]
Artifact == [owner : Workers, tagged : BOOLEAN, notice : BOOLEAN]
Row == [id : Nat \ {0}, page : Nat]
WorkerResult == [execution : {"none", "succeeded", "stopped", "failed", "skipped", "cancelled"},
                 refs : SUBSET Nat, found : SUBSET Nat]

-----------------------------------------------------------------------------
(* The limits.                                                             *)

Most == Max({Items(kind) : kind \in Kinds})

LEMMA LimitFacts ==
  /\ LastStep \in Nat /\ SearchLimit \in Nat /\ FetchLimit \in Nat /\ ToolLimit \in Nat
  /\ RunToolCap \in Nat /\ CallLimit \in Nat
  /\ IsFiniteSet(Workers) /\ IsFiniteSet(Slots) /\ Cardinality(Slots) \in Nat \ {0}
<1>1. /\ LastStep \in Nat /\ SearchLimit \in Nat /\ FetchLimit \in Nat /\ ToolLimit \in Nat
      /\ RunToolCap \in Nat /\ CallLimit \in Nat
  BY LimitsAssumption
<1>2. IsFiniteSet(0 .. LastStep)
  BY <1>1, FS_Interval
<1>3. Cardinality(Slots) \in Nat /\ Cardinality(Slots) # 0
  BY SlotsAssumption, FS_CardinalityType, FS_EmptySet
<1> QED BY <1>1, <1>2, <1>3, SlotsAssumption DEF Workers

LEMMA MostFacts ==
  /\ Most \in {1, 2} /\ \A kind \in Kinds : Items(kind) <= Most
<1> DEFINE S == {Items(kind) : kind \in Kinds}
<1>1. PICK m \in S : \A y \in S : m >= y
  <2>1. CASE "batch" \in Kinds
    <3>1. 2 \in S /\ \A y \in S : 2 >= y
      BY <2>1 DEF Items
    <3> QED BY <3>1
  <2>2. CASE "batch" \notin Kinds
    <3>1. PICK kind \in Kinds : TRUE
      BY OffersAssumption
    <3>2. 1 \in S /\ \A y \in S : 1 >= y
      BY <2>2, <3>1 DEF Items
    <3> QED BY <3>2
  <2> QED BY <2>1, <2>2
<1>2. Most \in S /\ \A y \in S : Most >= y
  BY <1>1 DEF Most, Max
<1>3. S \subseteq {1, 2}
  BY DEF Items
<1> QED BY <1>2, <1>3

LEMMA ConsumedFacts ==
  ASSUME taken \in [Workers -> Counters], NEW w \in Workers, NEW n \in Nat,
         NEW r \in {"search", "fetch"}
  PROVE  /\ Consumed(w, r, n) \in [Workers -> Counters]
         /\ \A v \in Workers \ {w} : Consumed(w, r, n)[v] = taken[v]
         /\ Consumed(w, r, n)[w].tool = taken[w].tool + 1
         /\ Consumed(w, r, n)[w].search = taken[w].search + (IF r = "search" THEN n ELSE 0)
         /\ Consumed(w, r, n)[w].fetch = taken[w].fetch + (IF r = "fetch" THEN n ELSE 0)
BY DEF Consumed, Counters

-----------------------------------------------------------------------------
(* Types.                                                                  *)

Executions == {"none", "succeeded", "stopped", "failed", "skipped", "cancelled"}

LEMMA TaggedFacts ==
  ASSUME store \in Seq(Artifact), NEW w
  PROVE  Tagged(w) \subseteq DOMAIN store /\ DOMAIN store \subseteq Nat \ {0}
BY DEF Tagged

LEMMA EndTypes ==
  ASSUME TypeOK, NEW w \in Workers, NEW execution \in Executions, NEW refs \in SUBSET Nat,
         End(w, execution, refs)
  PROVE  /\ pc' \in [Workers -> Pcs] /\ lease' \in [Workers -> BOOLEAN]
         /\ result' \in [Workers -> WorkerResult]
         /\ pc'[w] = "ended" /\ lease'[w] = FALSE
         /\ result'[w] = [execution |-> execution, refs |-> refs, found |-> Tagged(w)]
         /\ \A v \in Workers \ {w} : pc'[v] = pc[v] /\ lease'[v] = lease[v] /\ result'[v] = result[v]
<1>1. Tagged(w) \in SUBSET Nat
  BY TaggedFacts DEF TypeOK, Artifact
<1>2. pc \in [Workers -> Pcs] /\ lease \in [Workers -> BOOLEAN] /\ result \in [Workers -> WorkerResult]
  BY DEF TypeOK, Pcs, WorkerResult
<1>3. [execution |-> execution, refs |-> refs, found |-> Tagged(w)] \in WorkerResult
  BY <1>1 DEF WorkerResult, Executions
<1> QED BY <1>2, <1>3 DEF End, ResultOf, Pcs

LEMMA EvidenceFacts ==
  ASSUME TypeOK, NEW w \in Workers
  PROVE  /\ Evidence(w) \in SUBSET Nat /\ Tagged(w) \in SUBSET Nat
         /\ Classify(FALSE, Tagged(w)) \in Executions
         /\ Classify(content[w] \in {"valid", "direct"} /\ ~armed[w], Evidence(w)) \in Executions
<1>1. Tagged(w) \subseteq DOMAIN store /\ DOMAIN store \subseteq Nat
  BY TaggedFacts DEF TypeOK, Artifact
<1>2. {row.id : row \in handed[w]} \subseteq Nat
  BY DEF TypeOK
<1>3. StepArtifacts(w) \subseteq Nat
  BY <1>1 DEF StepArtifacts
<1> QED BY <1>1, <1>2, <1>3 DEF Evidence, Classify, Executions

\* What an action of the coroutine leaves alone.
LEMMA EndingTypes ==
  ASSUME TypeOK, NEW w \in Workers,
         Begin(w) \/ LeafFails(w) \/ CancelWorker(w) \/ Return(w)
  PROVE  TypeOK'
<1>1. ASSUME NEW execution \in Executions, NEW refs \in SUBSET Nat, End(w, execution, refs),
             UNCHANGED <<engine, calls, granted, attempt, deadline, asked, stopped, content,
                         budget, thread, handed, store>>
      PROVE  TypeOK'
  BY <1>1, EndTypes DEF TypeOK, budget, Pcs, WorkerResult
<1>2. CASE Begin(w)
  <2>1. CASE \E execution \in {"skipped", "failed"} : End(w, execution, {})
    BY <1>1, <1>2, <2>1 DEF Begin, Executions
  <2>2. CASE /\ pc' = [pc EXCEPT ![w] = IF engine = "harness" THEN "calling" ELSE "search"]
             /\ lease' = [lease EXCEPT ![w] = TRUE] /\ UNCHANGED result
    BY <1>2, <2>2 DEF Begin, TypeOK, budget
  <2> QED BY <1>2, <2>1, <2>2 DEF Begin
<1>3. CASE LeafFails(w)
  BY <1>1, <1>3, EvidenceFacts DEF LeafFails, Interruptible, Salvage
<1>4. CASE CancelWorker(w)
  BY <1>1, <1>4 DEF CancelWorker, Executions
<1>5. CASE Return(w)
  BY <1>1, <1>5, EvidenceFacts DEF Return, Finish
<1> QED BY <1>2, <1>3, <1>4, <1>5

LEMMA StreamTypes ==
  ASSUME TypeOK, NEW w \in Workers,
         \/ CallModel(w) \/ StopPrimary(w) \/ ToolsReturned(w) \/ Answer(w) \/ RetryProvider(w)
         \/ Judge(w) \/ Finalize(w) \/ SoftDeadline(w) \/ CollectV2(w)
  PROVE  TypeOK'
<1>1. CASE CallModel(w)
  BY <1>1, LimitFacts, SMTT(30) DEF CallModel, CallArms, TypeOK
<1>2. CASE StopPrimary(w)
  BY <1>2 DEF StopPrimary, TypeOK, budget
<1>3. CASE ToolsReturned(w)
  BY <1>3 DEF ToolsReturned, TypeOK, budget
<1>4. CASE Answer(w)
  BY <1>4, SMTT(30) DEF Answer, Answers, CallArms, TypeOK
<1>5. CASE RetryProvider(w)
  BY <1>5 DEF RetryProvider, Nothing, TypeOK
<1>6. CASE Judge(w)
  BY <1>6 DEF Judge, TypeOK, budget
<1>7. CASE Finalize(w)
  <2>1. calls' \in [Workers -> 0 .. CallLimit + 1]
    BY <1>7, LimitFacts DEF Finalize, TypeOK
  <2> QED BY <1>7, <2>1 DEF Finalize, Answers, TypeOK, budget
<1>8. CASE SoftDeadline(w)
  BY <1>8 DEF SoftDeadline, TypeOK, budget
<1>9. CASE CollectV2(w)
  BY <1>9 DEF CollectV2, TypeOK, budget
<1> QED BY <1>1, <1>2, <1>3, <1>4, <1>5, <1>6, <1>7, <1>8, <1>9

\* A call of a message, or none, in a slot.
LEMMA ThreadFacts ==
  ASSUME TypeOK
  PROVE  /\ thread \in [Workers -> [Slots -> ThreadRecord]]
         /\ taken \in [Workers -> Counters] /\ store \in Seq(Artifact)
BY DEF TypeOK, ThreadRecord, Counters, Artifact

LEMMA SlotsCounted ==
  ASSUME NEW ks \in SUBSET Slots
  PROVE  IsFiniteSet(ks) /\ Cardinality(ks) \in Nat /\ Cardinality(ks) <= Cardinality(Slots)
BY LimitFacts, FS_Subset, FS_CardinalityType

LEMMA RetrievalTypes ==
  ASSUME TypeOK, NEW w \in Workers,
         AskTools(w) \/ SearchV2(w) \/ FetchV2(w) \/ SimpleFact(w)
  PROVE  TypeOK'
<1>1. CASE AskTools(w)
  <2>1. PICK ks \in (SUBSET Slots) \ {{}} : \E kind \in [ks -> Kinds] :
          thread' = [thread EXCEPT ![w] =
                       [k \in Slots |-> IF k \in ks THEN [state |-> "asked", kind |-> kind[k]]
                                       ELSE @[k]]]
    BY <1>1 DEF AskTools
  <2>2. PICK kind \in [ks -> Kinds] :
          thread' = [thread EXCEPT ![w] =
                       [k \in Slots |-> IF k \in ks THEN [state |-> "asked", kind |-> kind[k]]
                                       ELSE @[k]]]
    BY <2>1
  <2>3. thread' \in [Workers -> [Slots -> ThreadRecord]]
    <3>2. \A k \in Slots : (IF k \in ks THEN [state |-> "asked", kind |-> kind[k]] ELSE thread[w][k])
                             \in ThreadRecord
      <4> SUFFICES ASSUME NEW k \in Slots
                   PROVE  (IF k \in ks THEN [state |-> "asked", kind |-> kind[k]] ELSE thread[w][k])
                             \in ThreadRecord
        OBVIOUS
      <4>1. CASE k \in ks
        <5>1. kind[k] \in {"search", "fetch", "batch"}
          BY <4>1, OffersAssumption
        <5> QED BY <4>1, <5>1 DEF ThreadRecord
      <4>2. CASE k \notin ks
        BY <4>2, ThreadFacts
      <4> QED BY <4>1, <4>2
    <3> DEFINE row == [k \in Slots |-> IF k \in ks THEN [state |-> "asked", kind |-> kind[k]]
                                      ELSE thread[w][k]]
    <3>3. row \in [Slots -> ThreadRecord]
      BY <3>2
    <3>4. thread' = [thread EXCEPT ![w] = row]
      BY <2>2
    <3> HIDE DEF row
    <3> QED BY <3>3, <3>4, ThreadFacts
  <2> QED BY <1>1, <2>3 DEF AskTools, CallArms, TypeOK, ThreadRecord
<1>2. CASE SearchV2(w)
  <2>1. thread' \in [Workers -> [Slots -> ThreadRecord]]
    BY <1>2, ThreadFacts DEF SearchV2, ThreadRecord
  <2> QED BY <1>2, <2>1 DEF SearchV2, TypeOK, budget, ThreadRecord
<1>3. CASE FetchV2(w)
  <2>1. CASE UNCHANGED <<taken, runTools, thread>>
    BY <1>3, <2>1 DEF FetchV2, TypeOK
  <2>2. CASE ~UNCHANGED <<taken, runTools, thread>>
    <3>1. PICK ks \in (SUBSET Slots) \ {{}} :
            /\ runTools < RunToolCap
            /\ taken' = Consumed(w, "fetch", Cardinality(ks)) /\ runTools' = runTools + 1
            /\ thread' = [thread EXCEPT ![w] =
                            [k \in Slots |-> IF k \in ks THEN [state |-> "running", kind |-> "fetch"]
                                            ELSE @[k]]]
      BY <1>3, <2>2 DEF FetchV2
    <3>2. thread' \in [Workers -> [Slots -> ThreadRecord]]
      BY <3>1, ThreadFacts DEF ThreadRecord
    <3>3. taken' \in [Workers -> Counters]
      BY <3>1, ThreadFacts, SlotsCounted, ConsumedFacts
    <3>4. runTools' \in 0 .. RunToolCap
      BY <3>1, LimitFacts DEF TypeOK
    <3> QED BY <1>3, <3>2, <3>3, <3>4 DEF FetchV2, TypeOK, ThreadRecord, Counters
  <2> QED BY <2>1, <2>2
<1>4. CASE SimpleFact(w)
  <2>1. PICK n \in 0 .. 2, found \in BOOLEAN :
          /\ runTools + n <= RunToolCap
          /\ taken' = [taken EXCEPT ![w] = [search |-> n, fetch |-> @.fetch, tool |-> n]] /\ runTools' = runTools + n
          /\ content' = [content EXCEPT ![w] = IF found THEN "direct" ELSE "empty"]
    BY <1>4 DEF SimpleFact, Direct
  <2>2. taken' \in [Workers -> Counters]
    BY <2>1, ThreadFacts DEF Counters
  <2>3. runTools' \in 0 .. RunToolCap
    BY <2>1, LimitFacts DEF TypeOK
  <2> QED BY <1>4, <2>1, <2>2, <2>3 DEF SimpleFact, Direct, TypeOK, Counters
<1> QED BY <1>1, <1>2, <1>3, <1>4

\* What a tool thread may do to its slot.
LEMMA SlotTypes ==
  ASSUME TypeOK, NEW w \in Workers, NEW k \in Slots
  PROVE  /\ Leave(w, k) => /\ thread' \in [Workers -> [Slots -> ThreadRecord]]
                           /\ thread'[w][k] = Idle
                           /\ \A v \in Workers \ {w} : thread'[v] = thread[v]
                           /\ \A j \in Slots \ {k} : thread'[w][j] = thread[w][j]
         /\ \A state \in {"asked", "checked", "authorized", "running", "refused"} :
              Become(w, k, state) =>
                /\ thread' \in [Workers -> [Slots -> ThreadRecord]]
                /\ thread'[w][k] = [state |-> state, kind |-> thread[w][k].kind]
                /\ \A v \in Workers \ {w} : thread'[v] = thread[v]
                /\ \A j \in Slots \ {k} : thread'[w][j] = thread[w][j]
<1>1. thread \in [Workers -> [Slots -> ThreadRecord]]
  BY ThreadFacts
<1>2. Idle \in ThreadRecord
  BY DEF Idle, ThreadRecord
<1>3. thread[w] \in [Slots -> ThreadRecord] /\ thread[w][k] \in ThreadRecord
  BY <1>1
<1>4. ASSUME NEW x \in ThreadRecord, thread' = [thread EXCEPT ![w][k] = x]
      PROVE  /\ thread' \in [Workers -> [Slots -> ThreadRecord]] /\ thread'[w][k] = x
             /\ \A v \in Workers \ {w} : thread'[v] = thread[v]
             /\ \A j \in Slots \ {k} : thread'[w][j] = thread[w][j]
  BY <1>1, <1>4
<1>5. ASSUME NEW state \in {"asked", "checked", "authorized", "running", "refused"},
             Become(w, k, state)
      PROVE  LET x == [state |-> state, kind |-> thread[w][k].kind]
             IN x \in ThreadRecord /\ thread' = [thread EXCEPT ![w][k] = x]
  <2>1. [thread[w][k] EXCEPT !.state = state] = [state |-> state, kind |-> thread[w][k].kind]
    BY <1>3 DEF ThreadRecord
  <2> QED BY <1>3, <1>5, <2>1 DEF Become, ThreadRecord
<1>6. ASSUME Leave(w, k) PROVE thread' = [thread EXCEPT ![w][k] = Idle]
  BY <1>6 DEF Leave
<1> QED BY <1>2, <1>4, <1>5, <1>6

LEMMA LeaveFacts ==
  ASSUME TypeOK, NEW w \in Workers, NEW k \in Slots, Leave(w, k)
  PROVE  /\ thread'[w][k] = Idle
         /\ \A v \in Workers \ {w} : thread'[v] = thread[v]
         /\ \A j \in Slots \ {k} : thread'[w][j] = thread[w][j]
BY SlotTypes

LEMMA BecomeFacts ==
  ASSUME TypeOK, NEW w \in Workers, NEW k \in Slots,
         NEW state \in {"asked", "checked", "authorized", "running", "refused"}, Become(w, k, state)
  PROVE  /\ thread'[w][k].state = state /\ thread'[w][k].kind = thread[w][k].kind
         /\ \A v \in Workers \ {w} : thread'[v] = thread[v]
         /\ \A j \in Slots \ {k} : thread'[w][j] = thread[w][j]
<1>1. /\ thread'[w][k] = [state |-> state, kind |-> thread[w][k].kind]
      /\ \A v \in Workers \ {w} : thread'[v] = thread[v]
      /\ \A j \in Slots \ {k} : thread'[w][j] = thread[w][j]
  BY SlotTypes
<1> QED BY <1>1

LEMMA ThreadTypes ==
  ASSUME TypeOK, NEW w \in Workers, NEW k \in Slots, Thread(w, k)
  PROVE  TypeOK'
<1>1. CASE Check(w, k)
  <2>1. Leave(w, k) \/ Become(w, k, "refused") \/ Become(w, k, "checked")
    BY <1>1 DEF Check
  <2>2. thread' \in [Workers -> [Slots -> ThreadRecord]]
    BY <2>1, SlotTypes
  <2>3. armed' \in [Workers -> BOOLEAN]
    <3>1. PICK b \in BOOLEAN : armed' = [armed EXCEPT ![w] = b]
      BY <1>1, Zenon DEF Check, TypeOK, Arms
    <3> QED BY <3>1 DEF TypeOK
  <2> QED BY <1>1, <2>2, <2>3 DEF Check, TypeOK, ThreadRecord, control
<1>2. CASE Authorize(w, k)
  <2>1. thread' \in [Workers -> [Slots -> ThreadRecord]]
    BY <1>2, SlotTypes DEF Authorize
  <2>2. runTools' \in 0 .. RunToolCap
    BY <1>2, LimitFacts DEF Authorize, TypeOK
  <2> QED BY <1>2, <2>1, <2>2 DEF Authorize, TypeOK, ThreadRecord, control
<1>3. CASE Charge(w, k)
  <2>1. thread' \in [Workers -> [Slots -> ThreadRecord]]
    BY <1>3, SlotTypes DEF Charge
  <2>2. taken' \in [Workers -> Counters]
    BY <1>3, ThreadFacts, ConsumedFacts DEF Charge, Resource, Items
  <2> QED BY <1>3, <2>1, <2>2 DEF Charge, TypeOK, ThreadRecord, Counters, control
<1>4. ASSUME UNCHANGED <<engine, control, budget, result>>, Leave(w, k), store' \in Seq(Artifact),
             handed' \in [Workers -> SUBSET Row]
      PROVE  TypeOK'
  <2>1. thread' \in [Workers -> [Slots -> ThreadRecord]]
    BY <1>4, SlotTypes
  <2> QED BY <1>4, <2>1 DEF TypeOK, ThreadRecord, Artifact, Row, control, budget
<1>5. ASSUME NEW row \in Row, Hand(w, row) PROVE handed' \in [Workers -> SUBSET Row]
  BY <1>5 DEF Hand, TypeOK, Row
<1>6. handed \in [Workers -> SUBSET Row] /\ store \in Seq(Artifact)
  BY DEF TypeOK, Row, Artifact
<1>7. CASE SearchReturns(w, k)
  <2>1. CASE engine = "v2"
    BY <1>4, <1>6, <1>7, <2>1 DEF SearchReturns
  <2>2. CASE engine # "v2"
    <3>1. PICK found \in BOOLEAN :
            /\ store' = Put(Card(w, found))
            /\ Hand(w, [id |-> IdOf(Card(w, found), store'), page |-> IdOf(Card(w, found), store')])
      BY <1>7, <2>2 DEF SearchReturns
    <3>2. Card(w, found) \in Artifact
      BY DEF Card, Artifact
    <3>3. store' \in Seq(Artifact) /\ \E i \in DOMAIN store' : store'[i] = Card(w, found)
      BY <1>6, <3>1, <3>2 DEF Put
    <3>4. IdOf(Card(w, found), store') \in Nat \ {0}
      <4>1. (CHOOSE i \in DOMAIN store' : store'[i] = Card(w, found)) \in DOMAIN store'
        BY <3>3
      <4>2. Len(store') \in Nat \ {0} /\ DOMAIN store' = 1 .. Len(store')
        BY <3>3
      <4>3. \A a : \/ IdOf(a, store') = CHOOSE i \in DOMAIN store' : store'[i] = a
                  \/ IdOf(a, store') = Len(store')
        BY DEF IdOf
      <4>4. IdOf(Card(w, found), store') \in {CHOOSE i \in DOMAIN store' : store'[i] = Card(w, found),
                                             Len(store')}
        BY <4>3
      <4>5. DOMAIN store' \subseteq Nat \ {0}
        BY <4>2
      <4> QED BY <4>1, <4>2, <4>4, <4>5, Zenon
    <3> QED BY <1>4, <1>5, <1>7, <3>1, <3>3, <3>4 DEF SearchReturns, Row
  <2> QED BY <2>1, <2>2
<1>8. CASE FetchReturns(w, k)
  <2>1. CASE UNCHANGED <<store, handed>>
    BY <1>4, <1>6, <1>8, <2>1 DEF FetchReturns
  <2>2. CASE ~UNCHANGED <<store, handed>>
    <3>1. /\ store' = Append(store, [owner |-> w, tagged |-> FALSE, notice |-> FALSE])
          /\ Hand(w, [id |-> Len(store'), page |-> Len(store')])
      BY <1>8, <2>2 DEF FetchReturns
    <3>2. store' \in Seq(Artifact) /\ Len(store') \in Nat \ {0}
      BY <1>6, <3>1 DEF Artifact
    <3> QED BY <1>4, <1>5, <1>8, <3>1, <3>2 DEF FetchReturns, Row
  <2> QED BY <2>1, <2>2
<1>9. CASE BatchReturns(w, k)
  <2>1. handed' \in [Workers -> SUBSET Row]
    BY <1>5, <1>6, <1>9 DEF BatchReturns, Row
  <2> QED BY <1>4, <1>6, <1>9, <2>1 DEF BatchReturns
<1> QED BY <1>1, <1>2, <1>3, <1>7, <1>8, <1>9 DEF Thread

-----------------------------------------------------------------------------
(* The budget.                                                             *)

\* A coroutine that has not asked for tools, and one that is about to, has no
\* thread and, before the first call, paid for nothing.
PathFits(w) ==
  /\ pc[w] \in {"search", "fetch", "collect"} => engine # "harness"
  /\ engine = "simple" => pc[w] \in {"queued", "search", "returning", "ended"}
  /\ engine = "v2" /\ pc[w] \in {"calling", "answering"} => asked[w]
  /\ pc[w] = "fetch" \/ (engine = "harness" /\ pc[w] \in {"calling", "answering"}) =>
       Threads(w) = {}
  /\ pc[w] \in {"queued", "search"} \/ (engine = "harness" /\ ~asked[w]) =>
       taken[w] = Nothing /\ Threads(w) = {}
Paths == \A w \in Workers : PathFits(w)

KindsFit(w) ==
  \A k \in Slots :
    /\ thread[w][k].state # "idle" => thread[w][k].kind # "none"
    /\ thread[w][k].state \in {"asked", "checked", "authorized"} =>
         thread[w][k].kind \in Kinds \cup {"search"}

\* The other threads that may have been charged since this one was checked:
\* those that are done with the budget.
Passed(w, k) ==
  {j \in Slots \ {k} : thread[w][j].state \in {"idle", "running", "refused"}}
Room(w, k) == Cardinality(Passed(w, k))

\* What a checked thread will take exceeds the limits by what these took.
RoomFits(w, k) ==
  /\ thread[w][k].kind = "search" => taken[w].search + 1 <= SearchLimit + Room(w, k)
  /\ thread[w][k].kind # "search" =>
       taken[w].fetch + Items(thread[w][k].kind) <= FetchLimit + Room(w, k) * Most
  /\ taken[w].tool + 1 <= ToolLimit + Room(w, k)
RoomKept(w) ==
  \A k \in Slots :
    thread[w][k].state \in {"checked", "authorized"} => RoomFits(w, k)

Within(w) ==
  /\ taken[w].search <= SearchLimit + (Cardinality(Slots) - 1)
  /\ taken[w].fetch <= FetchLimit + (Cardinality(Slots) - 1) * Most
  /\ taken[w].tool <= ToolLimit + (Cardinality(Slots) - 1)

Tools == SumOver([w \in Workers |-> taken[w].tool], Workers)
Paid == {s \in Workers \X Slots : thread[s[1]][s[2]].state = "authorized"}

BudgetFits ==
  /\ TypeOK /\ Paths
  /\ \A w \in Workers : KindsFit(w) /\ RoomKept(w) /\ Within(w)
  /\ runTools = Tools + Cardinality(Paid)

LEMMA BudgetSays ==
  ASSUME BudgetFits PROVE OverdrawIsBounded /\ RunPaysForCalls
<1>1. OverdrawIsBounded
  BY DEF BudgetFits, Within, OverdrawIsBounded, Most
<1>2. RunPaysForCalls
  BY DEF BudgetFits, Tools, Paid, RunPaysForCalls
<1> QED BY <1>1, <1>2

LEMMA PaidFinite == IsFiniteSet(Paid) /\ Cardinality(Paid) \in Nat
<1>1. IsFiniteSet(Workers \X Slots)
  BY LimitFacts, FS_Product
<1> QED BY <1>1, FS_Subset, FS_CardinalityType DEF Paid

LEMMA RoomFacts ==
  ASSUME NEW w \in Workers, NEW k \in Slots
  PROVE  /\ IsFiniteSet(Passed(w, k)) /\ Room(w, k) \in Nat
         /\ Room(w, k) <= Cardinality(Slots) - 1
<1>1. IsFiniteSet(Slots \ {k}) /\ Cardinality(Slots \ {k}) = Cardinality(Slots) - 1
  BY LimitFacts, FS_RemoveElement
<1>2. Passed(w, k) \in SUBSET (Slots \ {k})
  BY DEF Passed
<1> QED BY <1>1, <1>2, FS_Subset, FS_CardinalityType DEF Room

\* An interval that starts at 1 has as many members as its upper end.
LEMMA IntervalCount ==
  ASSUME NEW n \in Nat
  PROVE  IsFiniteSet(1 .. n) /\ Cardinality(1 .. n) = n
<1>1. 1 \in Int /\ n \in Int
  OBVIOUS
<1>2. IsFiniteSet(1 .. n) /\ Cardinality(1 .. n) = IF 1 > n THEN 0 ELSE n - 1 + 1
  BY <1>1, FS_Interval
<1> QED BY <1>2

\* The units of natural counters are finitely many.
LEMMA UnitsFinite ==
  ASSUME NEW S \in SUBSET Workers, NEW f, \A w \in S : f[w] \in Nat
  PROVE  IsFiniteSet(Units(f, S)) /\ Cardinality(Units(f, S)) \in Nat
<1> DEFINE R == {{w} \X (1 .. f[w]) : w \in S}
           g == [w \in S |-> {w} \X (1 .. f[w])]
<1>1. IsFiniteSet(S)
  BY LimitFacts, FS_Subset
<1>2. g \in Surjection(S, R)
  BY DEF Surjection
<1>3. IsFiniteSet(R)
  BY <1>1, <1>2, FS_Surjection
<1>4. ASSUME NEW T \in R PROVE IsFiniteSet(T)
  <2>1. PICK w \in S : T = {w} \X (1 .. f[w])
    OBVIOUS
  <2>2. IsFiniteSet({w}) /\ IsFiniteSet(1 .. f[w])
    BY FS_Singleton, IntervalCount
  <2> QED BY <2>1, <2>2, FS_Product
<1>5. IsFiniteSet(UNION R)
  <2> HIDE DEF R
  <2> QED BY <1>3, <1>4, FS_UNION
<1> QED BY <1>5, FS_CardinalityType DEF Units

\* One worker's counter is its part of the sum.
LEMMA SumSplits ==
  ASSUME NEW f, \A v \in Workers : f[v] \in Nat, NEW w \in Workers
  PROVE  SumOver(f, Workers) = Cardinality(Units(f, Workers \ {w})) + f[w]
<1> DEFINE rest == Units(f, Workers \ {w})
           own == {w} \X (1 .. f[w])
<1>1. IsFiniteSet(rest)
  BY UnitsFinite
<1>2. IsFiniteSet({w}) /\ Cardinality({w}) = 1
  BY FS_Singleton
<1>3. IsFiniteSet(1 .. f[w]) /\ Cardinality(1 .. f[w]) = f[w]
  BY IntervalCount
<1>4. IsFiniteSet(own) /\ Cardinality(own) = f[w]
  <2>1. Cardinality(own) = 1 * f[w] /\ IsFiniteSet(own)
    BY <1>2, <1>3, FS_Product
  <2>2. f[w] \in Nat
    OBVIOUS
  <2> QED BY <2>1, <2>2
<1>5. rest \cap own = {}
  BY DEF Units
<1>6. Units(f, Workers) = rest \cup own
  BY DEF Units
<1> HIDE DEF rest, own
<1>7. Cardinality(rest \cup own) = Cardinality(rest) + f[w]
  <2>1. Cardinality(rest \cup own)
          = Cardinality(rest) + Cardinality(own) - Cardinality(rest \cap own)
    BY <1>1, <1>4, FS_Union
  <2>2. Cardinality(rest \cap own) = 0
    BY <1>5, FS_EmptySet
  <2> QED BY <1>1, <1>4, <2>1, <2>2, FS_CardinalityType
<1> QED BY <1>6, <1>7 DEF SumOver, rest

\* The sum follows the worker whose counter changed.
LEMMA ToolsChange ==
  ASSUME taken \in [Workers -> Counters], taken' \in [Workers -> Counters],
         NEW w \in Workers, \A v \in Workers \ {w} : taken'[v] = taken[v]
  PROVE  Tools \in Nat /\ Tools' = Tools - taken[w].tool + taken'[w].tool
<1> DEFINE f == [v \in Workers |-> taken[v].tool]
           g == [v \in Workers |-> taken'[v].tool]
<1>1. \A v \in Workers : f[v] \in Nat /\ g[v] \in Nat
  BY DEF Counters
<1>2. \A v \in Workers \ {w} : g[v] = f[v]
  OBVIOUS
<1>3. f[w] = taken[w].tool /\ g[w] = taken'[w].tool
  OBVIOUS
<1>4. Tools = SumOver(f, Workers) /\ Tools' = SumOver(g, Workers)
  BY DEF Tools
<1> HIDE DEF f, g
<1>5. /\ SumOver(f, Workers) = Cardinality(Units(f, Workers \ {w})) + f[w]
      /\ SumOver(g, Workers) = Cardinality(Units(g, Workers \ {w})) + g[w]
  BY <1>1, SumSplits
<1>6. Units(g, Workers \ {w}) = Units(f, Workers \ {w})
  BY <1>2 DEF Units
<1>7. Cardinality(Units(f, Workers \ {w})) \in Nat
  BY <1>1, UnitsFinite
<1> QED BY <1>1, <1>3, <1>4, <1>5, <1>6, <1>7

\* Where the thread of a slot changes, so do the calls that are paid for.
LEMMA PaidChange ==
  ASSUME thread \in [Workers -> [Slots -> ThreadRecord]],
         thread' \in [Workers -> [Slots -> ThreadRecord]],
         NEW w \in Workers, NEW k \in Slots,
         \A v \in Workers \ {w} : thread'[v] = thread[v],
         \A j \in Slots \ {k} : thread'[w][j] = thread[w][j]
  PROVE  Cardinality(Paid') = Cardinality(Paid)
                              - (IF thread[w][k].state = "authorized" THEN 1 ELSE 0)
                              + (IF thread'[w][k].state = "authorized" THEN 1 ELSE 0)
<1> DEFINE s == <<w, k>>
<1>0. Paid' = {t \in Workers \X Slots : thread'[t[1]][t[2]].state = "authorized"}
  BY DEF Paid
<1>1. Paid \ {s} = Paid' \ {s}
  BY <1>0 DEF Paid
<1>2. (s \in Paid <=> thread[w][k].state = "authorized") /\ (s \in Paid' <=> thread'[w][k].state = "authorized")
  BY <1>0 DEF Paid
<1>3. ASSUME NEW P \in SUBSET (Workers \X Slots)
      PROVE  /\ Cardinality(P) \in Nat /\ Cardinality(P \ {s}) \in Nat
             /\ Cardinality(P) = Cardinality(P \ {s}) + (IF s \in P THEN 1 ELSE 0)
  <2>1. IsFiniteSet(P)
    BY LimitFacts, FS_Product, FS_Subset
  <2>2. IsFiniteSet(P \ {s}) /\ (s \in P => Cardinality(P \ {s}) = Cardinality(P) - 1)
    BY <2>1, FS_RemoveElement
  <2>3. s \notin P => P \ {s} = P
    OBVIOUS
  <2>4. Cardinality(P) \in Nat /\ Cardinality(P \ {s}) \in Nat
    BY <2>1, <2>2, FS_CardinalityType
  <2>5. CASE s \in P
    BY <2>2, <2>4, <2>5
  <2>6. CASE s \notin P
    <3>1. Cardinality(P \ {s}) = Cardinality(P)
      BY <2>3, <2>6
    <3> QED BY <2>4, <2>6, <3>1
  <2> QED BY <2>4, <2>5, <2>6
<1>4. Paid \in SUBSET (Workers \X Slots) /\ Paid' \in SUBSET (Workers \X Slots)
  BY <1>0 DEF Paid
<1>5. PICK P, Q \in SUBSET (Workers \X Slots) : P = Paid /\ Q = Paid'
  BY <1>4
<1> HIDE DEF s
<1>6. P \ {s} = Q \ {s}
  BY <1>1, <1>5
<1>7. Cardinality(Q) = Cardinality(P) - (IF s \in P THEN 1 ELSE 0) + (IF s \in Q THEN 1 ELSE 0)
  <2>1. /\ Cardinality(P) \in Nat /\ Cardinality(P \ {s}) \in Nat
        /\ Cardinality(P) = Cardinality(P \ {s}) + (IF s \in P THEN 1 ELSE 0)
    BY <1>3
  <2>2. /\ Cardinality(Q) \in Nat
        /\ Cardinality(Q) = Cardinality(Q \ {s}) + (IF s \in Q THEN 1 ELSE 0)
    BY <1>3
  <2>3. PICK n \in Nat : n = Cardinality(P \ {s}) /\ n = Cardinality(Q \ {s})
    BY <1>6, <2>1
  <2>4. /\ Cardinality(P) = n + (IF s \in P THEN 1 ELSE 0)
        /\ Cardinality(Q) = n + (IF s \in Q THEN 1 ELSE 0)
    BY <2>1, <2>2, <2>3
  <2> QED BY <2>4
<1> QED BY <1>2, <1>5, <1>7

LEMMA QuietKeepsBudget ==
  ASSUME BudgetFits, TypeOK', Paths', UNCHANGED <<taken, thread, runTools>>
  PROVE  BudgetFits'
<1>1. \A w \in Workers : KindsFit(w)' /\ Within(w)'
  BY DEF BudgetFits, KindsFit, Within
<1>2. \A w \in Workers : RoomKept(w)'
  BY DEF BudgetFits, RoomKept, RoomFits, Room, Passed
<1>3. runTools' = Tools' + Cardinality(Paid')
  BY DEF BudgetFits, Tools, Paid
<1> QED BY <1>1, <1>2, <1>3 DEF BudgetFits

\* The coroutine's own steps charge nothing, and a repeated attempt had not.
LEMMA StreamKeepsBudget ==
  ASSUME BudgetFits, NEW w \in Workers, TypeOK',
         \/ Begin(w) \/ CallModel(w) \/ StopPrimary(w) \/ ToolsReturned(w) \/ Answer(w)
         \/ RetryProvider(w) \/ LeafFails(w) \/ CancelWorker(w) \/ Judge(w) \/ Finalize(w)
         \/ Return(w) \/ SoftDeadline(w) \/ CollectV2(w)
  PROVE  BudgetFits'
<1>1. TypeOK /\ Paths /\ engine \in {"harness", "v2", "simple"}
  BY OffersAssumption DEF BudgetFits, TypeOK
<1>2. UNCHANGED <<engine, thread, runTools>>
  BY DEF Begin, CallModel, StopPrimary, ToolsReturned, Answer, RetryProvider, LeafFails, Interruptible, CancelWorker,
         Judge, Finalize, Return, SoftDeadline, CollectV2, budget
<1>3. taken' = taken
  <2>1. CASE RetryProvider(w)
    <3>1. taken[w] = Nothing /\ taken' = [taken EXCEPT ![w] = Nothing]
      BY <1>1, <2>1 DEF RetryProvider, MayRetry, Paths, PathFits
    <3> QED BY <1>1, <3>1 DEF TypeOK
  <2>2. CASE ~RetryProvider(w)
    BY <2>2 DEF Begin, CallModel, StopPrimary, ToolsReturned, Answer, LeafFails, Interruptible, CancelWorker,
                Judge, Finalize, Return, SoftDeadline, CollectV2, budget
  <2> QED BY <2>1, <2>2
<1>4. \A v \in Workers : Threads(v)' = Threads(v)
  BY <1>2 DEF Threads
<1>5. /\ \A v \in Workers \ {w} : pc'[v] = pc[v] /\ asked'[v] = asked[v]
      /\ asked'[w] = asked[w] \/ asked'[w] = TRUE
  <2>1. asked' = asked \/ asked' = [asked EXCEPT ![w] = TRUE]
    BY DEF Begin, CallModel, StopPrimary, ToolsReturned, Answer, RetryProvider, LeafFails, Interruptible,
           CancelWorker, Judge, Finalize, Return, SoftDeadline, CollectV2
  <2>2. pc' = pc \/ \E x : pc' = [pc EXCEPT ![w] = x]
    <3>1. ASSUME NEW execution, NEW refs, End(w, execution, refs) PROVE pc' = [pc EXCEPT ![w] = "ended"]
      BY <3>1 DEF End, ResultOf
    <3>2. CASE LeafFails(w) \/ CancelWorker(w) \/ Return(w)
      BY <3>1, <3>2 DEF LeafFails, Interruptible, CancelWorker, Return, Salvage, Finish
    <3>3. CASE Begin(w)
      BY <3>1, <3>3 DEF Begin
    <3>4. CASE \/ CallModel(w) \/ StopPrimary(w) \/ ToolsReturned(w) \/ Answer(w) \/ RetryProvider(w)
               \/ Judge(w) \/ Finalize(w) \/ SoftDeadline(w) \/ CollectV2(w)
      BY <3>4 DEF CallModel, StopPrimary, ToolsReturned, Answer, RetryProvider, Judge, Finalize,
                  SoftDeadline, CollectV2
    <3> QED BY <3>2, <3>3, <3>4
  <2>3. pc \in [Workers -> Pcs] /\ asked \in [Workers -> BOOLEAN]
    BY <1>1 DEF TypeOK, Pcs
  <2> QED BY <2>1, <2>2, <2>3
<1>50. ASSUME PathFits(w)' PROVE Paths'
  BY <1>1, <1>2, <1>3, <1>4, <1>5, <1>50 DEF Paths, PathFits
<1>6. ASSUME pc'[w] \in {"judging", "finalizing", "returning", "ended", pc[w]},
             pc'[w] \in {"judging", "finalizing"} => engine # "simple"
      PROVE  Paths'
  BY <1>1, <1>2, <1>3, <1>4, <1>5, <1>6, <1>50 DEF Paths, PathFits
<1>7. ASSUME pc'[w] = "calling", engine = "v2" => asked'[w], engine # "simple",
             engine = "harness" => Threads(w) = {}
      PROVE  Paths'
  BY <1>1, <1>2, <1>3, <1>4, <1>5, <1>7, <1>50 DEF Paths, PathFits
<1>8. CASE StopPrimary(w) \/ LeafFails(w) \/ CancelWorker(w) \/ Judge(w) \/ Finalize(w) \/ Return(w)
           \/ Answer(w) \/ SoftDeadline(w)
  <2>1. pc'[w] \in {"judging", "finalizing", "returning", "ended", pc[w]}
    BY <1>1, <1>8 DEF TypeOK, StopPrimary, LeafFails, Interruptible, CancelWorker, Judge, Finalize, Return, Answer,
                      SoftDeadline, End, ResultOf, Salvage, Finish
  <2>2. engine = "simple" => pc[w] \in {"queued", "search", "returning", "ended"}
    BY <1>1 DEF Paths, PathFits
  <2>3. pc'[w] \in {"judging", "finalizing"} => engine # "simple"
    BY <1>1, <1>8, <2>2 DEF TypeOK, StopPrimary, LeafFails, Interruptible, CancelWorker, Judge, Finalize, Return,
                            Answer, SoftDeadline, End, ResultOf, Salvage, Finish
  <2> QED BY <1>2, <1>3, <1>6, <2>1, <2>3, QuietKeepsBudget
<1>9. CASE Begin(w)
  <2>1. Threads(w) = {} /\ taken[w] = Nothing
    BY <1>1, <1>9 DEF Begin, Paths, PathFits
  <2>2. pc'[w] = "ended" \/ pc'[w] = (IF engine = "harness" THEN "calling" ELSE "search")
    BY <1>1, <1>9 DEF Begin, End, ResultOf, TypeOK
  <2>3. Paths'
    BY <1>1, <1>2, <1>3, <1>4, <1>5, <1>50, <2>1, <2>2 DEF Paths, PathFits
  <2> QED BY <1>2, <1>3, <2>3, QuietKeepsBudget
<1>10. CASE CallModel(w)
  <2>1. pc[w] = "calling" /\ pc'[w] = "answering"
    BY <1>1, <1>10 DEF CallModel, TypeOK
  <2>2. Paths'
    BY <1>1, <1>2, <1>3, <1>4, <1>5, <1>50, <2>1 DEF Paths, PathFits
  <2> QED BY <1>2, <1>3, <2>2, QuietKeepsBudget
<1>11. CASE ToolsReturned(w)
  <2>1. pc[w] = "tools" /\ Threads(w) = {} /\ pc'[w] = (IF engine = "v2" THEN "fetch" ELSE "calling")
    BY <1>1, <1>11 DEF ToolsReturned, TypeOK
  <2>2. Paths'
    BY <1>1, <1>2, <1>3, <1>4, <1>5, <1>50, <2>1 DEF Paths, PathFits
  <2> QED BY <1>2, <1>3, <2>2, QuietKeepsBudget
<1>12. CASE RetryProvider(w)
  <2>1. pc[w] = "answering" /\ ~asked[w] /\ pc'[w] = "calling"
    BY <1>1, <1>12 DEF RetryProvider, MayRetry, TypeOK
  <2>2. engine = "harness" /\ Threads(w) = {}
    BY <1>1, <2>1 DEF Paths, PathFits
  <2> QED BY <1>2, <1>3, <1>7, <2>1, <2>2, QuietKeepsBudget
<1>13. CASE CollectV2(w)
  <2>1. pc[w] = "collect" /\ asked'[w] = TRUE /\ pc'[w] \in {"returning", "calling"}
    BY <1>1, <1>13 DEF CollectV2, TypeOK
  <2>2. engine = "v2"
    BY <1>1, <2>1 DEF Paths, PathFits
  <2>3. Paths'
    BY <1>6, <1>7, <2>1, <2>2
  <2> QED BY <1>2, <1>3, <2>3, QuietKeepsBudget
<1> QED BY <1>8, <1>9, <1>10, <1>11, <1>12, <1>13

\* A step of one worker leaves the others' budgets alone.
LEMMA OneWorkerKeepsBudget ==
  ASSUME BudgetFits, TypeOK', NEW w \in Workers, engine' = engine,
         \A v \in Workers \ {w} : /\ thread'[v] = thread[v] /\ taken'[v] = taken[v]
                                  /\ pc'[v] = pc[v] /\ asked'[v] = asked[v],
         PathFits(w)', KindsFit(w)', RoomKept(w)', Within(w)',
         runTools' = Tools' + Cardinality(Paid')
  PROVE  BudgetFits'
<1>1. ASSUME NEW v \in Workers \ {w}
      PROVE  KindsFit(v)' /\ Within(v)' /\ PathFits(v)'
  BY <1>1 DEF BudgetFits, KindsFit, Within, Paths, PathFits, Threads
<1>2. ASSUME NEW v \in Workers \ {w}
      PROVE  RoomKept(v)'
  BY <1>2 DEF BudgetFits, RoomKept, RoomFits, Room, Passed
<1> QED BY <1>1, <1>2 DEF BudgetFits, Paths

\* Without threads nothing is paid for and not yet charged, and what a step
\* starts was not checked yet.
LEMMA PaidUnchanged ==
  ASSUME NEW w \in Workers, \A v \in Workers \ {w} : thread'[v] = thread[v],
         \A k \in Slots : thread[w][k].state # "authorized" /\ thread'[w][k].state # "authorized"
  PROVE  Paid' = Paid
BY DEF Paid

LEMMA AskingKeepsBudget ==
  ASSUME BudgetFits, NEW w \in Workers, TypeOK', AskTools(w) \/ SearchV2(w)
  PROVE  BudgetFits'
<1>1. TypeOK /\ Paths /\ engine' = engine /\ UNCHANGED <<taken, runTools>>
  BY DEF BudgetFits, AskTools, SearchV2, budget
<1>2. /\ Threads(w) = {} /\ pc'[w] = "tools" /\ (engine # "simple")
      /\ engine = "harness" => asked'[w] = TRUE
      /\ \A v \in Workers \ {w} : pc'[v] = pc[v] /\ asked'[v] = asked[v]
  <2>1. CASE AskTools(w)
    BY <1>1, <2>1 DEF AskTools, Paths, PathFits, TypeOK
  <2>2. CASE SearchV2(w)
    BY <1>1, <2>2 DEF SearchV2, Paths, PathFits, TypeOK
  <2> QED BY <2>1, <2>2
<1>3. \A k \in Slots : thread[w][k].state = "idle"
  BY <1>2 DEF Threads
<1>4. /\ \A v \in Workers \ {w} : thread'[v] = thread[v]
      /\ \A k \in Slots : \/ thread'[w][k].state = "idle"
                          \/ thread'[w][k].state = "asked" /\ thread'[w][k].kind \in Kinds \cup {"search"}
  <2>1. thread \in [Workers -> [Slots -> ThreadRecord]]
    BY <1>1, ThreadFacts
  <2>2. CASE AskTools(w)
    <3>1. PICK ks \in (SUBSET Slots) \ {{}} : \E kind \in [ks -> Kinds] :
            thread' = [thread EXCEPT ![w] =
                         [k \in Slots |-> IF k \in ks THEN [state |-> "asked", kind |-> kind[k]]
                                         ELSE @[k]]]
      BY <2>2 DEF AskTools
    <3>2. PICK kind \in [ks -> Kinds] :
            thread' = [thread EXCEPT ![w] =
                         [k \in Slots |-> IF k \in ks THEN [state |-> "asked", kind |-> kind[k]]
                                         ELSE @[k]]]
      BY <3>1
    <3>3. \A k \in Slots : thread'[w][k] = IF k \in ks THEN [state |-> "asked", kind |-> kind[k]]
                                          ELSE thread[w][k]
      BY <2>1, <3>2
    <3>4. \A v \in Workers \ {w} : thread'[v] = thread[v]
      BY <2>1, <3>2
    <3>5. \A k \in Slots : \/ k \notin ks /\ thread'[w][k] = thread[w][k]
                           \/ thread'[w][k].state = "asked" /\ thread'[w][k].kind \in Kinds
      <4> SUFFICES ASSUME NEW k \in ks PROVE thread'[w][k].state = "asked" /\ thread'[w][k].kind \in Kinds
        BY <3>3
      <4>1. thread'[w][k] = [state |-> "asked", kind |-> kind[k]] /\ kind[k] \in Kinds
        BY <3>3
      <4> QED BY <4>1
    <3> QED BY <1>3, <3>4, <3>5
  <2>3. CASE SearchV2(w)
    <3>1. PICK j \in Slots : j = CHOOSE k \in Slots : TRUE
      BY SlotsAssumption
    <3>2. thread' = [thread EXCEPT ![w][j] = [state |-> "asked", kind |-> "search"]]
      BY <2>3, <3>1 DEF SearchV2
    <3> QED BY <1>3, <2>1, <3>2
  <2> QED BY <2>2, <2>3
<1>5. PathFits(w)'
  BY <1>1, <1>2 DEF PathFits
<1>6. KindsFit(w)' /\ RoomKept(w)'
  <2>1. \A kind \in Kinds \cup {"search"} : kind # "none"
    BY OffersAssumption
  <2> QED BY <1>4, <2>1 DEF KindsFit, RoomKept
<1>7. Within(w)'
  BY <1>1 DEF BudgetFits, Within
<1>8. runTools' = Tools' + Cardinality(Paid')
  <2>1. Paid' = Paid
    BY <1>3, <1>4, PaidUnchanged
  <2>2. Tools' = Tools
    BY <1>1 DEF Tools
  <2> QED BY <1>1, <2>1, <2>2 DEF BudgetFits
<1> QED BY <1>1, <1>2, <1>4, <1>5, <1>6, <1>7, <1>8, OneWorkerKeepsBudget

LEMMA FetchKeepsBudget ==
  ASSUME BudgetFits, NEW w \in Workers, TypeOK', FetchV2(w)
  PROVE  BudgetFits'
<1>1. /\ TypeOK /\ Paths /\ engine' = engine /\ asked' = asked /\ pc[w] = "fetch" /\ pc'[w] = "collect"
      /\ \A v \in Workers \ {w} : pc'[v] = pc[v]
  BY DEF BudgetFits, FetchV2, TypeOK
<1>2. Threads(w) = {} /\ engine = "v2"
  BY <1>1, OffersAssumption DEF Paths, PathFits, TypeOK
<1>3. \A k \in Slots : thread[w][k].state = "idle"
  BY <1>2 DEF Threads
<1>4. PathFits(w)'
  BY <1>1, <1>2 DEF PathFits
<1>5. CASE UNCHANGED <<taken, runTools, thread>>
  <2>1. Paths'
    BY <1>1, <1>4, <1>5 DEF Paths, PathFits, Threads
  <2> QED BY <1>5, <2>1, QuietKeepsBudget
<1>6. CASE ~UNCHANGED <<taken, runTools, thread>>
  <2>1. PICK ks \in (SUBSET Slots) \ {{}} :
          /\ WithinLimits(w, "fetch", Cardinality(ks))
          /\ taken' = Consumed(w, "fetch", Cardinality(ks)) /\ runTools' = runTools + 1
          /\ thread' = [thread EXCEPT ![w] =
                          [k \in Slots |-> IF k \in ks THEN [state |-> "running", kind |-> "fetch"]
                                          ELSE @[k]]]
    BY <1>6 DEF FetchV2
  <2>2. thread \in [Workers -> [Slots -> ThreadRecord]] /\ taken \in [Workers -> Counters]
    BY <1>1, ThreadFacts
  <2>3. \A k \in Slots : thread'[w][k] = IF k \in ks THEN [state |-> "running", kind |-> "fetch"]
                                        ELSE thread[w][k]
    BY <2>1, <2>2
  <2>4. \A v \in Workers \ {w} : thread'[v] = thread[v]
    BY <2>1, <2>2
  <2>5. \A k \in Slots : \/ thread'[w][k].state = "idle"
                         \/ thread'[w][k].state = "running" /\ thread'[w][k].kind = "fetch"
    BY <1>3, <2>3
  <2>6. KindsFit(w)' /\ RoomKept(w)'
    BY <2>5 DEF KindsFit, RoomKept
  <2>7. /\ taken' \in [Workers -> Counters] /\ \A v \in Workers \ {w} : taken'[v] = taken[v]
        /\ taken'[w].tool = taken[w].tool + 1 /\ taken'[w].search = taken[w].search
        /\ taken'[w].fetch = taken[w].fetch + Cardinality(ks)
    <3>1. Cardinality(ks) \in Nat
      BY SlotsCounted
    <3>2. taken[w].search \in Nat
      BY <2>2 DEF Counters
    <3> QED BY <2>1, <2>2, <3>1, <3>2, ConsumedFacts
  <2>8. Within(w)'
    <3>1. taken[w].fetch + Cardinality(ks) <= FetchLimit /\ taken[w].tool + 1 <= ToolLimit
      BY <2>1 DEF WithinLimits, Limit
    <3>2. taken[w].search <= SearchLimit + (Cardinality(Slots) - 1)
      BY DEF BudgetFits, Within
    <3>3. PICK c \in Nat : c = Cardinality(Slots) - 1
      BY LimitFacts
    <3>4. c * Most \in Nat
      BY MostFacts
    <3>5. taken[w].fetch \in Nat /\ taken[w].tool \in Nat /\ Cardinality(ks) \in Nat
      BY <2>2, SlotsCounted DEF Counters
    <3>6. taken'[w].fetch <= FetchLimit + c * Most /\ taken'[w].tool <= ToolLimit + c
      BY <2>7, <3>1, <3>4, <3>5, LimitFacts
    <3>7. Most' = Most
      BY DEF Most
    <3> QED BY <2>7, <3>2, <3>3, <3>6, <3>7 DEF Within
  <2>9. runTools' = Tools' + Cardinality(Paid')
    <3>1. Paid' = Paid
      BY <1>3, <2>4, <2>5, PaidUnchanged
    <3>2. Tools \in Nat /\ Tools' = Tools + 1
      <4>1. taken[w].tool \in Nat
        BY <2>2 DEF Counters
      <4>2. Tools \in Nat /\ Tools' = Tools - taken[w].tool + taken'[w].tool
        BY <2>2, <2>7, ToolsChange
      <4> QED BY <2>7, <4>1, <4>2
    <3> QED BY <2>1, <3>1, <3>2, PaidFinite DEF BudgetFits
  <2> QED BY <1>1, <1>4, <2>4, <2>6, <2>7, <2>8, <2>9, OneWorkerKeepsBudget
<1> QED BY <1>5, <1>6

LEMMA SimpleFactKeepsBudget ==
  ASSUME BudgetFits, NEW w \in Workers, TypeOK', SimpleFact(w)
  PROVE  BudgetFits'
<1>1. /\ TypeOK /\ Paths /\ UNCHANGED <<engine, thread>> /\ pc[w] = "search" /\ engine = "simple"
      /\ pc'[w] = "returning" /\ asked'[w] = TRUE
      /\ \A v \in Workers \ {w} : pc'[v] = pc[v] /\ asked'[v] = asked[v]
  <2>1. TypeOK /\ Paths
    BY DEF BudgetFits
  <2>2. DOMAIN pc = Workers /\ DOMAIN asked = Workers
    BY <2>1 DEF TypeOK
  <2>3. /\ pc[w] = "search" /\ engine = "simple" /\ UNCHANGED <<engine, thread>>
        /\ pc' = [pc EXCEPT ![w] = "returning"] /\ asked' = [asked EXCEPT ![w] = TRUE]
    BY DEF SimpleFact
  <2> QED BY <2>1, <2>2, <2>3
<1>2. taken[w] = Nothing
  BY <1>1 DEF Paths, PathFits
<1>3. PICK n \in 0 .. 2 :
        /\ n <= SearchLimit /\ n <= ToolLimit
        /\ taken' = [taken EXCEPT ![w] = [search |-> n, fetch |-> @.fetch, tool |-> n]]
        /\ runTools' = runTools + n
  BY DEF SimpleFact, Direct
<1>4. taken \in [Workers -> Counters] /\ taken' \in [Workers -> Counters]
  BY <1>1 DEF TypeOK, Counters
<1>5. /\ \A v \in Workers \ {w} : taken'[v] = taken[v]
      /\ taken'[w].search = n /\ taken'[w].fetch = 0 /\ taken'[w].tool = n /\ taken[w].tool = 0
  BY <1>2, <1>3, <1>4 DEF Nothing
<1>6. PathFits(w)'
  BY <1>1 DEF PathFits
<1>7. KindsFit(w)'
  BY <1>1 DEF BudgetFits, KindsFit
<1>8. RoomKept(w)'
  <2>1. \A k \in Slots : thread[w][k].state = "idle"
    BY <1>1 DEF Paths, PathFits, Threads
  <2> QED BY <1>1, <2>1 DEF RoomKept
<1>9. Within(w)'
  <2>1. PICK c \in Nat : c = Cardinality(Slots) - 1
    BY LimitFacts
  <2>2. c * Most \in Nat /\ Most' = Most
    BY MostFacts DEF Most
  <2> QED BY <1>3, <1>5, <2>1, <2>2, LimitFacts DEF Within
<1>10. runTools' = Tools' + Cardinality(Paid')
  <2>1. Paid' = Paid
    BY <1>1 DEF Paid
  <2>2. Tools \in Nat /\ Tools' = Tools - taken[w].tool + taken'[w].tool
    BY <1>4, <1>5, ToolsChange
  <2> QED BY <1>3, <1>5, <2>1, <2>2, PaidFinite DEF BudgetFits
<1> QED BY <1>1, <1>5, <1>6, <1>7, <1>8, <1>9, <1>10, OneWorkerKeepsBudget

\* A thread that is done with the budget makes room for the others.
LEMMA RoomGrows ==
  ASSUME NEW w \in Workers, NEW k \in Slots, NEW j \in Slots \ {k},
         \A i \in Slots \ {k} : thread'[w][i] = thread[w][i],
         thread[w][k].state \in {"asked", "checked", "authorized"}
  PROVE  /\ Room(w, j) \in Nat /\ Room(w, j)' \in Nat
         /\ Room(w, j)' = Room(w, j) + (IF thread'[w][k].state \in {"idle", "running", "refused"}
                                        THEN 1 ELSE 0)
<1>1. PICK P \in SUBSET Slots, Q \in SUBSET Slots : P = Passed(w, j) /\ Q = Passed(w, j)'
  BY DEF Passed
<1>2. k \notin P /\ Q = IF thread'[w][k].state \in {"idle", "running", "refused"} THEN P \cup {k} ELSE P
  BY <1>1 DEF Passed
<1>3. IsFiniteSet(P) /\ Cardinality(P) \in Nat
  BY SlotsCounted
<1>4. Cardinality(P \cup {k}) = Cardinality(P) + 1
  BY <1>2, <1>3, FS_AddElement
<1>5. Room(w, j) = Cardinality(P) /\ Room(w, j)' = Cardinality(Q)
  BY <1>1 DEF Room
<1> QED BY <1>2, <1>3, <1>4, <1>5

\* A step of a busy thread.
LEMMA BusyThread ==
  ASSUME BudgetFits, NEW w \in Workers, NEW k \in Slots, thread[w][k].state # "idle",
         engine' = engine, UNCHANGED <<pc, asked>>
  PROVE  PathFits(w)'
<1>1. Threads(w) # {}
  BY DEF Threads
<1> QED BY <1>1 DEF BudgetFits, Paths, PathFits

\* What is not charged takes no room from the other threads.
LEMMA OthersKeepRoom ==
  ASSUME BudgetFits, NEW w \in Workers, NEW k \in Slots, NEW j \in Slots \ {k}, taken' = taken,
         thread[w][k].state \in {"asked", "checked", "authorized"},
         \A i \in Slots \ {k} : thread'[w][i] = thread[w][i],
         thread'[w][j].state \in {"checked", "authorized"}
  PROVE  RoomFits(w, j)'
<1>1. RoomFits(w, j) /\ thread'[w][j] = thread[w][j]
  BY DEF BudgetFits, RoomKept
<1>2. Room(w, j) \in Nat /\ Room(w, j)' \in Nat /\ Room(w, j) <= Room(w, j)'
  BY RoomGrows
<1>3. PICK n, m \in Nat : n = Room(w, j) /\ m = Room(w, j)'
  BY <1>2
<1>4. Most \in {1, 2} /\ Most' = Most
  BY MostFacts DEF Most
<1>5. n * Most \in Nat /\ m * Most \in Nat /\ n * Most <= m * Most
  BY <1>2, <1>3, <1>4
<1>6. Items(thread[w][j].kind) \in {1, 2}
  BY DEF Items
<1>7. taken[w].search \in Nat /\ taken[w].fetch \in Nat /\ taken[w].tool \in Nat
  BY DEF BudgetFits, TypeOK
<1> QED BY <1>1, <1>2, <1>3, <1>4, <1>5, <1>6, <1>7, LimitFacts DEF RoomFits

LEMMA CheckKeepsBudget ==
  ASSUME BudgetFits, NEW w \in Workers, NEW k \in Slots, TypeOK', Check(w, k)
  PROVE  BudgetFits'
<1>1. /\ TypeOK /\ UNCHANGED <<engine, pc, asked, taken, runTools>> /\ thread[w][k].state = "asked"
  BY DEF BudgetFits, Check, control
<1>2. \/ Leave(w, k) \/ Become(w, k, "refused")
      \/ /\ Become(w, k, "checked")
         /\ WithinLimits(w, Resource(thread[w][k].kind), Items(thread[w][k].kind))
  BY DEF Check
<1>3. /\ \A v \in Workers \ {w} : thread'[v] = thread[v]
      /\ \A j \in Slots \ {k} : thread'[w][j] = thread[w][j]
      /\ \/ thread'[w][k] = Idle
         \/ /\ thread'[w][k].state \in {"refused", "checked"}
            /\ thread'[w][k].kind = thread[w][k].kind
  BY <1>1, <1>2, LeaveFacts, BecomeFacts
<1>4. thread'[w][k].state = "checked" =>
        WithinLimits(w, Resource(thread[w][k].kind), Items(thread[w][k].kind))
  BY <1>1, <1>2, LeaveFacts, BecomeFacts DEF Idle
<1>5. PathFits(w)'
  BY <1>1, BusyThread
<1>6. KindsFit(w)'
  BY <1>1, <1>3 DEF BudgetFits, KindsFit, Idle
<1>7. Within(w)'
  BY <1>1 DEF BudgetFits, Within
<1>8. RoomKept(w)'
  <2>1. Most \in {1, 2} /\ Most' = Most
    BY MostFacts DEF Most
  <2>2. taken[w].search \in Nat /\ taken[w].fetch \in Nat /\ taken[w].tool \in Nat
    BY <1>1 DEF TypeOK
  <2>3. ASSUME NEW j \in Slots \ {k}, thread'[w][j].state \in {"checked", "authorized"}
        PROVE  RoomFits(w, j)'
    BY <1>1, <1>3, <2>3, OthersKeepRoom
  <2>4. ASSUME thread'[w][k].state = "checked"
        PROVE  RoomFits(w, k)'
    <3>1. thread'[w][k].kind = thread[w][k].kind /\ thread[w][k].kind \in Kinds \cup {"search"}
      BY <1>1, <1>3, <2>4 DEF Idle, BudgetFits, KindsFit
    <3>2. PICK m \in Nat : m = Room(w, k)'
      <4>1. Room(w, k)' = Room(w, k)
        BY <1>3 DEF Room, Passed
      <4> QED BY <4>1, RoomFacts
    <3>3. m * Most \in Nat
      BY <2>1
    <3>4. WithinLimits(w, Resource(thread[w][k].kind), Items(thread[w][k].kind))
      BY <1>4, <2>4
    <3>5. CASE thread[w][k].kind = "search"
      BY <1>1, <2>1, <2>2, <3>1, <3>2, <3>3, <3>4, <3>5, LimitFacts
         DEF RoomFits, WithinLimits, Limit, Resource, Items
    <3>6. CASE thread[w][k].kind # "search"
      BY <1>1, <2>1, <2>2, <3>1, <3>2, <3>3, <3>4, <3>6, LimitFacts
         DEF RoomFits, WithinLimits, Limit, Resource, Items
    <3> QED BY <3>5, <3>6
  <2> QED BY <1>3, <2>3, <2>4 DEF RoomKept, Idle
<1>9. runTools' = Tools' + Cardinality(Paid')
  <2>1. Paid' = Paid
    <3>1. thread'[w][k].state # "authorized"
      BY <1>3 DEF Idle
    <3> QED BY <1>1, <1>3, <3>1 DEF Paid
  <2>2. Tools' = Tools
    BY <1>1 DEF Tools
  <2> QED BY <1>1, <2>1, <2>2 DEF BudgetFits
<1> QED BY <1>1, <1>3, <1>5, <1>6, <1>7, <1>8, <1>9, OneWorkerKeepsBudget

\* The run's counter moves with the thread it pays for.
LEMMA AuthorizeKeepsBudget ==
  ASSUME BudgetFits, NEW w \in Workers, NEW k \in Slots, TypeOK', Authorize(w, k)
  PROVE  BudgetFits'
<1>1. /\ TypeOK /\ UNCHANGED <<engine, pc, asked, taken>> /\ thread[w][k].state = "checked"
  BY DEF BudgetFits, Authorize, control
<1>2. \/ Leave(w, k) /\ runTools' = runTools
      \/ Become(w, k, "authorized") /\ runTools' = runTools + 1
  BY DEF Authorize
<1>3. /\ \A v \in Workers \ {w} : thread'[v] = thread[v]
      /\ \A j \in Slots \ {k} : thread'[w][j] = thread[w][j]
      /\ \/ thread'[w][k] = Idle /\ runTools' = runTools
         \/ /\ thread'[w][k].state = "authorized" /\ runTools' = runTools + 1
            /\ thread'[w][k].kind = thread[w][k].kind
  BY <1>1, <1>2, LeaveFacts, BecomeFacts
<1>4. PathFits(w)'
  BY <1>1, BusyThread
<1>5. KindsFit(w)'
  BY <1>1, <1>3 DEF BudgetFits, KindsFit, Idle
<1>6. Within(w)'
  BY <1>1 DEF BudgetFits, Within
<1>7. RoomKept(w)'
  <2>1. ASSUME NEW j \in Slots \ {k}, thread'[w][j].state \in {"checked", "authorized"}
        PROVE  RoomFits(w, j)'
    BY <1>1, <1>3, <2>1, OthersKeepRoom
  <2>2. ASSUME thread'[w][k].state = "authorized"
        PROVE  RoomFits(w, k)'
    <3>1. RoomFits(w, k) /\ thread'[w][k].kind = thread[w][k].kind
      BY <1>1, <1>3, <2>2 DEF BudgetFits, RoomKept, Idle
    <3>2. Room(w, k)' = Room(w, k)
      BY <1>3 DEF Room, Passed
    <3>3. Most' = Most
      BY DEF Most
    <3> QED BY <1>1, <3>1, <3>2, <3>3 DEF RoomFits
  <2> QED BY <1>3, <2>1, <2>2 DEF RoomKept, Idle
<1>8. runTools' = Tools' + Cardinality(Paid')
  <2>1. thread \in [Workers -> [Slots -> ThreadRecord]] /\ thread' \in [Workers -> [Slots -> ThreadRecord]]
    BY <1>1, ThreadFacts DEF TypeOK, ThreadRecord
  <2>2. Cardinality(Paid') = Cardinality(Paid) + (IF thread'[w][k].state = "authorized" THEN 1 ELSE 0)
    BY <1>1, <1>3, <2>1, PaidChange, PaidFinite
  <2>3. Tools' = Tools /\ Tools \in Nat
    <3>1. Tools \in Nat
      BY <1>1, ThreadFacts, ToolsChange
    <3> QED BY <1>1, <3>1 DEF Tools
  <2>4. runTools = Tools + Cardinality(Paid)
    BY DEF BudgetFits
  <2> QED BY <1>3, <2>2, <2>3, <2>4, PaidFinite DEF Idle
<1> QED BY <1>1, <1>3, <1>4, <1>5, <1>6, <1>7, <1>8, OneWorkerKeepsBudget

\* What a thread takes is what was found to fit, or exceeds it by what threads
\* beside it took since.
LEMMA ChargeKeepsBudget ==
  ASSUME BudgetFits, NEW w \in Workers, NEW k \in Slots, TypeOK', Charge(w, k)
  PROVE  BudgetFits'
<1> DEFINE n == Items(thread[w][k].kind)
<1>1. /\ TypeOK /\ UNCHANGED <<engine, pc, asked, runTools>> /\ thread[w][k].state = "authorized"
      /\ Become(w, k, "running") /\ taken' = Consumed(w, Resource(thread[w][k].kind), n)
  BY DEF BudgetFits, Charge, control
<1>2. /\ \A v \in Workers \ {w} : thread'[v] = thread[v]
      /\ \A j \in Slots \ {k} : thread'[w][j] = thread[w][j]
      /\ thread'[w][k].state = "running" /\ thread'[w][k].kind = thread[w][k].kind
  BY <1>1, BecomeFacts
<1>3. /\ taken \in [Workers -> Counters] /\ taken' \in [Workers -> Counters]
      /\ \A v \in Workers \ {w} : taken'[v] = taken[v]
      /\ taken'[w].tool = taken[w].tool + 1
      /\ thread[w][k].kind = "search" =>
           taken'[w].search = taken[w].search + 1 /\ taken'[w].fetch = taken[w].fetch
      /\ thread[w][k].kind # "search" =>
           taken'[w].search = taken[w].search /\ taken'[w].fetch = taken[w].fetch + n
  <2>1. taken \in [Workers -> Counters] /\ taken[w].search \in Nat /\ taken[w].fetch \in Nat
    BY <1>1, ThreadFacts DEF TypeOK
  <2>2. n \in Nat
    BY DEF Items
  <2>3. CASE thread[w][k].kind = "search"
    <3>1. taken' = Consumed(w, "search", 1)
      BY <1>1, <2>3 DEF Resource, Items
    <3> QED BY <2>1, <2>3, <3>1, ConsumedFacts
  <2>4. CASE thread[w][k].kind # "search"
    <3>1. taken' = Consumed(w, "fetch", n)
      BY <1>1, <2>4 DEF Resource
    <3> HIDE DEF n
    <3> QED BY <2>1, <2>2, <2>4, <3>1, ConsumedFacts
  <2> QED BY <2>3, <2>4
<1>4. n \in {1, 2} /\ n <= Most /\ Most \in {1, 2} /\ Most' = Most
  <2>1. thread[w][k].kind \in Kinds \cup {"search"}
    BY <1>1 DEF BudgetFits, KindsFit
  <2> QED BY <2>1, MostFacts DEF Items, Most
<1>5. /\ taken[w].search \in Nat /\ taken[w].fetch \in Nat /\ taken[w].tool \in Nat
  BY <1>1 DEF TypeOK
<1>6. RoomFits(w, k)
  BY <1>1 DEF BudgetFits, RoomKept
<1> HIDE DEF n
<1>7. PathFits(w)'
  BY <1>1, BusyThread
<1>8. KindsFit(w)'
  BY <1>1, <1>2 DEF BudgetFits, KindsFit
<1>9. Within(w)'
  <2>1. PICK c, r \in Nat : c = Cardinality(Slots) - 1 /\ r = Room(w, k) /\ r <= c
    BY LimitFacts, RoomFacts
  <2>2. r * Most \in Nat /\ c * Most \in Nat /\ r * Most <= c * Most
    BY <1>4, <2>1
  <2>3. Within(w)
    BY DEF BudgetFits
  <2>4. CASE thread[w][k].kind = "search"
    BY <1>3, <1>4, <1>5, <1>6, <2>1, <2>2, <2>3, <2>4, LimitFacts DEF Within, RoomFits
  <2>5. CASE thread[w][k].kind # "search"
    BY <1>3, <1>4, <1>5, <1>6, <2>1, <2>2, <2>3, <2>5, LimitFacts DEF Within, RoomFits, n
  <2> QED BY <2>4, <2>5
<1>10. RoomKept(w)'
  <2> SUFFICES ASSUME NEW j \in Slots \ {k}, thread'[w][j].state \in {"checked", "authorized"}
               PROVE  RoomFits(w, j)'
    BY <1>2 DEF RoomKept
  <2>1. RoomFits(w, j) /\ thread'[w][j] = thread[w][j]
    BY <1>2 DEF BudgetFits, RoomKept
  <2>2. Room(w, j) \in Nat /\ Room(w, j)' = Room(w, j) + 1
    BY <1>1, <1>2, RoomGrows
  <2>3. PICK r \in Nat : r = Room(w, j) /\ Room(w, j)' = r + 1
    BY <2>2
  <2>4. r * Most \in Nat /\ (r + 1) * Most = r * Most + Most
    BY <1>4
  <2>5. PICK i \in {1, 2} : i = Items(thread[w][j].kind)
    BY DEF Items
  <2>6. Items(thread[w][j].kind)' = i
    BY <2>1, <2>5 DEF Items
  <2>7. CASE thread[w][k].kind = "search"
    BY <1>3, <1>4, <1>5, <2>1, <2>3, <2>4, <2>5, <2>6, <2>7, LimitFacts DEF RoomFits
  <2>8. CASE thread[w][k].kind # "search"
    BY <1>3, <1>4, <1>5, <2>1, <2>3, <2>4, <2>5, <2>6, <2>8, LimitFacts DEF RoomFits
  <2> QED BY <2>7, <2>8
<1>11. runTools' = Tools' + Cardinality(Paid')
  <2>1. thread \in [Workers -> [Slots -> ThreadRecord]] /\ thread' \in [Workers -> [Slots -> ThreadRecord]]
    BY <1>1, ThreadFacts DEF TypeOK, ThreadRecord
  <2>2. Cardinality(Paid') = Cardinality(Paid) - 1
    BY <1>1, <1>2, <2>1, PaidChange, PaidFinite
  <2>3. Tools \in Nat /\ Tools' = Tools + 1
    <3>1. Tools \in Nat /\ Tools' = Tools - taken[w].tool + taken'[w].tool
      BY <1>3, ToolsChange
    <3> QED BY <1>3, <1>5, <3>1
  <2>4. runTools = Tools + Cardinality(Paid)
    BY DEF BudgetFits
  <2> QED BY <1>1, <2>2, <2>3, <2>4, PaidFinite
<1> QED BY <1>1, <1>2, <1>3, <1>7, <1>8, <1>9, <1>10, <1>11, OneWorkerKeepsBudget

\* A thread that returns was charged or refused before.
LEMMA ReturnKeepsBudget ==
  ASSUME BudgetFits, NEW w \in Workers, NEW k \in Slots, TypeOK',
         SearchReturns(w, k) \/ FetchReturns(w, k) \/ BatchReturns(w, k)
  PROVE  BudgetFits'
<1>1. /\ TypeOK /\ UNCHANGED <<engine, pc, asked, taken, runTools>>
      /\ thread[w][k].state \in {"running", "refused"} /\ Leave(w, k)
  BY DEF BudgetFits, SearchReturns, FetchReturns, BatchReturns, control, budget
<1>2. /\ \A v \in Workers \ {w} : thread'[v] = thread[v]
      /\ \A j \in Slots \ {k} : thread'[w][j] = thread[w][j]
      /\ thread'[w][k] = Idle
  BY <1>1, LeaveFacts
<1>3. PathFits(w)'
  BY <1>1, BusyThread
<1>4. KindsFit(w)'
  BY <1>1, <1>2 DEF BudgetFits, KindsFit, Idle
<1>5. Within(w)'
  BY <1>1 DEF BudgetFits, Within
<1>6. RoomKept(w)'
  <2>1. \A j \in Slots : Room(w, j)' = Room(w, j)
    <3>1. \A j \in Slots : /\ thread'[w][j].state \in {"idle", "running", "refused"}
                             <=> thread[w][j].state \in {"idle", "running", "refused"}
      BY <1>1, <1>2 DEF Idle
    <3>2. \A j \in Slots : Passed(w, j)' = Passed(w, j)
      BY <3>1 DEF Passed
    <3> QED BY <3>2 DEF Room
  <2>2. Most' = Most
    BY DEF Most
  <2>3. \A j \in Slots : thread'[w][j].state \in {"checked", "authorized"} =>
          thread'[w][j] = thread[w][j] /\ RoomFits(w, j)
    BY <1>2 DEF BudgetFits, RoomKept, Idle
  <2> QED BY <1>1, <2>1, <2>2, <2>3 DEF RoomKept, RoomFits
<1>7. runTools' = Tools' + Cardinality(Paid')
  <2>1. Paid' = Paid
    BY <1>1, <1>2 DEF Paid, Idle
  <2>2. Tools' = Tools
    BY <1>1 DEF Tools
  <2> QED BY <1>1, <2>1, <2>2 DEF BudgetFits
<1> QED BY <1>1, <1>2, <1>3, <1>4, <1>5, <1>6, <1>7, OneWorkerKeepsBudget

LEMMA BudgetKept ==
  ASSUME BudgetFits, [Next]_vars
  PROVE  BudgetFits'
<1>0. TypeOK
  BY DEF BudgetFits
<1>1. ASSUME NEW w \in Workers, Coroutine(w) \/ Model(w) \/ SoftDeadline(w) \/ CancelWorker(w)
      PROVE  BudgetFits'
  <2>1. TypeOK'
    BY <1>0, <1>1, EndingTypes, StreamTypes, RetrievalTypes DEF Coroutine, Model
  <2> QED BY <1>1, <2>1, StreamKeepsBudget, AskingKeepsBudget, FetchKeepsBudget, SimpleFactKeepsBudget
          DEF Coroutine, Model
<1>2. ASSUME NEW w \in Workers, NEW k \in Slots, Thread(w, k)
      PROVE  BudgetFits'
  <2>1. TypeOK'
    BY <1>0, <1>2, ThreadTypes
  <2> QED BY <1>2, <2>1, CheckKeepsBudget, AuthorizeKeepsBudget, ChargeKeepsBudget, ReturnKeepsBudget
          DEF Thread
<1>3. CASE UNCHANGED vars
  <2>1. UNCHANGED <<engine, pc, asked, taken, thread, runTools>>
    BY <1>3 DEF vars, control, budget
  <2>2. TypeOK'
    BY <1>0, <1>3 DEF TypeOK, vars, control, budget
  <2>3. Paths'
    BY <2>1 DEF BudgetFits, Paths, PathFits, Threads
  <2> QED BY <2>1, <2>2, <2>3, QuietKeepsBudget
<1> QED BY <1>1, <1>2, <1>3 DEF Next

LEMMA InitFitsBudget == ASSUME Init PROVE BudgetFits
<1>1. TypeOK
  BY LimitFacts DEF Init, TypeOK, Nothing, Idle, NoResult
<1>2. /\ \A w \in Workers, k \in Slots : thread[w][k] = Idle
      /\ \A w \in Workers : taken[w] = Nothing /\ pc[w] = "queued" /\ Threads(w) = {}
  BY DEF Init, Threads, Idle
<1>3. Paths /\ \A w \in Workers : KindsFit(w) /\ RoomKept(w)
  BY <1>2 DEF Paths, PathFits, KindsFit, RoomKept, Idle
<1>4. ASSUME NEW w \in Workers PROVE Within(w)
  <2>1. PICK c \in Nat : c = Cardinality(Slots) - 1
    BY LimitFacts
  <2>2. c * Most \in Nat
    BY MostFacts
  <2> QED BY <1>2, <2>1, <2>2, LimitFacts DEF Within, Nothing
<1>5. runTools = Tools + Cardinality(Paid)
  <2>1. Paid = {}
    BY <1>2 DEF Paid, Idle
  <2>2. Tools = 0
    <3> DEFINE f == [w \in Workers |-> taken[w].tool]
               z == [w \in {} |-> 0]
    <3>1. \A w \in Workers : f[w] = 0
      BY <1>2 DEF Nothing
    <3>2. Units(f, Workers) = {}
      BY <3>1 DEF Units
    <3> QED BY <3>2, FS_EmptySet DEF Tools, SumOver
  <2> QED BY <2>1, <2>2, FS_EmptySet DEF Init
<1> QED BY <1>1, <1>3, <1>4, <1>5 DEF BudgetFits

-----------------------------------------------------------------------------
(* The work.                                                               *)

\* What is known of a worker's evidence and result at every point.
WorkOf(w) ==
  /\ armed[w] => engine = "harness" /\ (Retrieved(w) > 0 \/ Tagged(w) # {})
  /\ pc[w] = "queued" => Tagged(w) = {}
  /\ content[w] = "valid" => handed[w] # {}
  /\ result[w].execution # "none" => pc[w] = "ended"
  /\ pc[w] = "ended" => ~lease[w]
  /\ result[w].execution = "failed" /\ result[w].found # {} =>
       content[w] = "bare" /\ result[w].refs = {}
  /\ result[w].execution = "succeeded" => ~armed[w] /\ result[w].refs # {}
WorkFits == \A w \in Workers : WorkOf(w)

LEMMA WorkSays ==
  ASSUME BudgetFits, WorkFits
  PROVE  FirstRetrievalIsAllowed /\ WorkIsKept
<1>1. FirstRetrievalIsAllowed /\ WorkIsSalvaged
  BY DEF WorkFits, WorkOf, FirstRetrievalIsAllowed, WorkIsSalvaged
<1>2. SuccessIsWhole
  <2>1. \A w \in Workers : calls[w] <= CallLimit + 1
    BY LimitFacts DEF BudgetFits, TypeOK
  <2> QED BY <2>1 DEF WorkFits, WorkOf, SuccessIsWhole
<1> QED BY <1>1, <1>2 DEF WorkIsKept

LEMMA EndKeepsWork ==
  ASSUME BudgetFits, WorkFits, NEW w \in Workers, NEW execution \in Executions,
         NEW refs \in SUBSET Nat, End(w, execution, refs),
         UNCHANGED <<engine, content, budget, handed, store>>,
         execution = "failed" /\ Tagged(w) # {} => content[w] = "bare" /\ refs = {},
         execution = "succeeded" => ~armed[w] /\ refs # {}
  PROVE  WorkFits'
<1>1. /\ pc'[w] = "ended" /\ lease'[w] = FALSE
      /\ result'[w] = [execution |-> execution, refs |-> refs, found |-> Tagged(w)]
      /\ \A v \in Workers \ {w} : pc'[v] = pc[v] /\ lease'[v] = lease[v] /\ result'[v] = result[v]
  BY EndTypes DEF BudgetFits
<1>2. UNCHANGED <<engine, content, armed, taken, handed, store>>
  BY DEF budget
<1>3. \A v \in Workers : Tagged(v)' = Tagged(v) /\ Retrieved(v)' = Retrieved(v)
  BY <1>2 DEF Tagged, Retrieved
<1>4. WorkOf(w)'
  BY <1>1, <1>2, <1>3 DEF WorkFits, WorkOf
<1>5. \A v \in Workers \ {w} : WorkOf(v)'
  BY <1>1, <1>2, <1>3 DEF WorkFits, WorkOf
<1> QED BY <1>4, <1>5 DEF WorkFits

\* A worker ends as what it found says.
LEMMA EndingKeepsWork ==
  ASSUME BudgetFits, WorkFits, NEW w \in Workers,
         Begin(w) \/ LeafFails(w) \/ CancelWorker(w) \/ Return(w)
  PROVE  WorkFits'
<1>0. TypeOK
  BY DEF BudgetFits
<1>1. CASE LeafFails(w)
  BY <1>0, <1>1, EvidenceFacts, EndKeepsWork DEF LeafFails, Interruptible, Salvage, Classify
<1>2. CASE CancelWorker(w)
  BY <1>2, EndKeepsWork DEF CancelWorker, Executions
<1>3. CASE Return(w)
  <2> DEFINE e == Classify(content[w] \in {"valid", "direct"} /\ ~armed[w], Evidence(w))
  <2>1. e \in Executions /\ Evidence(w) \in SUBSET Nat /\ End(w, e, Evidence(w))
    BY <1>0, <1>3, EvidenceFacts DEF Return, Finish
  <2>2. e = "succeeded" => ~armed[w] /\ Evidence(w) # {}
    BY DEF Classify
  <2>3. e = "failed" /\ Tagged(w) # {} => content[w] = "bare" /\ Evidence(w) = {}
    <3>1. e = "failed" => Evidence(w) = {}
      BY DEF Classify
    <3>2. content[w] = "valid" => handed[w] # {}
      BY DEF WorkFits, WorkOf
    <3>3. StepArtifacts(w) = {} => Tagged(w) = {}
      BY DEF StepArtifacts, Tagged
    <3> QED BY <3>1, <3>2, <3>3 DEF Evidence
  <2> HIDE DEF e
  <2> QED BY <1>3, <2>1, <2>2, <2>3, EndKeepsWork DEF Return
<1>4. CASE Begin(w)
  <2>1. CASE \E execution \in {"skipped", "failed"} : End(w, execution, {})
    BY <1>4, <2>1, EndKeepsWork DEF Begin, Executions, WorkFits, WorkOf
  <2>2. CASE ~\E execution \in {"skipped", "failed"} : End(w, execution, {})
    <3>1. /\ pc[w] = "queued" /\ pc'[w] \in {"calling", "search"}
          /\ \A v \in Workers \ {w} : pc'[v] = pc[v] /\ lease'[v] = lease[v]
          /\ UNCHANGED <<engine, content, armed, taken, handed, store, result>>
      BY <1>0, <1>4, <2>2 DEF Begin, TypeOK, budget
    <3>2. \A v \in Workers : Tagged(v)' = Tagged(v) /\ Retrieved(v)' = Retrieved(v)
      BY <3>1 DEF Tagged, Retrieved
    <3> QED BY <3>1, <3>2 DEF WorkFits, WorkOf
  <2> QED BY <2>1, <2>2
<1> QED BY <1>1, <1>2, <1>3, <1>4

\* A step of one worker that ends nothing.
LEMMA StepKeepsWork ==
  ASSUME BudgetFits, WorkFits, NEW w \in Workers, UNCHANGED <<engine, lease, store, handed, result>>,
         pc[w] \notin {"queued", "ended"}, pc'[w] \notin {"queued", "ended"},
         \A v \in Workers \ {w} : /\ pc'[v] = pc[v] /\ content'[v] = content[v]
                                  /\ armed'[v] = armed[v] /\ taken'[v] = taken[v],
         content'[w] = "valid" => handed[w] # {},
         armed'[w] => engine = "harness" /\ (Retrieved(w)' > 0 \/ Tagged(w) # {})
  PROVE  WorkFits'
<1>1. \A v \in Workers : Tagged(v)' = Tagged(v)
  BY DEF Tagged
<1>2. WorkOf(w)'
  BY <1>1 DEF WorkFits, WorkOf
<1>3. ASSUME NEW v \in Workers \ {w} PROVE WorkOf(v)'
  <2>1. Retrieved(v)' = Retrieved(v)
    BY <1>3 DEF Retrieved
  <2> QED BY <1>1, <1>3, <2>1 DEF WorkFits, WorkOf
<1> QED BY <1>2, <1>3 DEF WorkFits

\* Whatever its text, an answer is valid only with rows that tools handed over.
LEMMA TextIsBound ==
  ASSUME BudgetFits, NEW w \in Workers, NEW text \in Answers(w), content' = [content EXCEPT ![w] = text]
  PROVE  /\ content'[w] = "valid" => handed[w] # {}
         /\ \A v \in Workers \ {w} : content'[v] = content[v]
BY DEF Answers, BudgetFits, TypeOK

\* Finalization is armed for a worker that has work to show.
LEMMA ArmingFacts ==
  ASSUME BudgetFits, WorkFits, NEW w \in Workers, NEW projected, CallArms(w, projected), taken' = taken
  PROVE  /\ armed'[w] => engine = "harness" /\ (Retrieved(w)' > 0 \/ Tagged(w) # {})
         /\ \A v \in Workers \ {w} : armed'[v] = armed[v]
<1>1. armed \in [Workers -> BOOLEAN]
  BY DEF BudgetFits, TypeOK
<1>2. PICK tokens \in BOOLEAN : armed' = [armed EXCEPT ![w] = @ \/ Arms(w, projected, tokens)]
  BY DEF CallArms
<1>3. armed'[w] => armed[w] \/ Arms(w, projected, tokens)
  BY <1>1, <1>2, Zenon
<1>4. \A v \in Workers \ {w} : armed'[v] = armed[v]
  BY <1>1, <1>2, Zenon
<1>5. armed'[w] => engine = "harness" /\ (Retrieved(w) > 0 \/ Tagged(w) # {})
  BY <1>3, Zenon DEF WorkFits, WorkOf, Arms, HasWork
<1>6. Retrieved(w)' = Retrieved(w)
  BY DEF Retrieved
<1> QED BY <1>4, <1>5, <1>6, Zenon

\* What is known of a worker at a step that does not arm it.
LEMMA WorkAt ==
  ASSUME WorkFits, NEW w \in Workers
  PROVE  /\ armed[w] => engine = "harness" /\ (Retrieved(w) > 0 \/ Tagged(w) # {})
         /\ content[w] = "valid" => handed[w] # {}
BY DEF WorkFits, WorkOf

LEMMA StreamKeepsWork ==
  ASSUME BudgetFits, WorkFits, NEW w \in Workers,
         \/ CallModel(w) \/ StopPrimary(w) \/ ToolsReturned(w) \/ Answer(w) \/ RetryProvider(w)
         \/ Judge(w) \/ Finalize(w) \/ SoftDeadline(w) \/ CollectV2(w)
  PROVE  WorkFits'
<1>1. /\ pc \in [Workers -> Pcs] /\ content \in [Workers -> {"empty", "bare", "loose", "valid", "direct"}]
      /\ armed \in [Workers -> BOOLEAN] /\ taken \in [Workers -> Counters]
  BY ThreadFacts DEF BudgetFits, TypeOK, Pcs
<1>2. taken' = taken => Retrieved(w)' = Retrieved(w)
  BY DEF Retrieved
<1>3. CASE CallModel(w)
  <2>1. /\ UNCHANGED <<engine, lease, store, handed, result, taken, content>> /\ CallArms(w, 1)
        /\ pc[w] = "calling" /\ pc'[w] = "answering" /\ \A v \in Workers \ {w} : pc'[v] = pc[v]
    BY <1>1, <1>3 DEF CallModel
  <2>2. /\ armed'[w] => engine = "harness" /\ (Retrieved(w)' > 0 \/ Tagged(w) # {})
        /\ \A v \in Workers \ {w} : armed'[v] = armed[v]
    BY <2>1, ArmingFacts
  <2> QED BY <2>1, <2>2, WorkAt, StepKeepsWork
<1>4. CASE StopPrimary(w) \/ ToolsReturned(w) \/ Judge(w) \/ SoftDeadline(w) \/ CollectV2(w)
  <2>1. UNCHANGED <<engine, lease, store, handed, result, taken, armed, content>>
    BY <1>4 DEF StopPrimary, ToolsReturned, Judge, SoftDeadline, CollectV2, budget
  <2>2. /\ pc[w] \notin {"queued", "ended"} /\ pc'[w] \notin {"queued", "ended"}
        /\ \A v \in Workers \ {w} : pc'[v] = pc[v]
    BY <1>1, <1>4 DEF StopPrimary, ToolsReturned, Judge, SoftDeadline, CollectV2, Primary
  <2> QED BY <1>2, <2>1, <2>2, WorkAt, StepKeepsWork
<1>5. CASE Answer(w)
  <2>1. /\ UNCHANGED <<engine, lease, store, handed, result, taken>> /\ CallArms(w, 0)
        /\ pc[w] = "answering" /\ pc'[w] = "judging" /\ \A v \in Workers \ {w} : pc'[v] = pc[v]
        /\ \E text \in Answers(w) : content' = [content EXCEPT ![w] = text]
    BY <1>1, <1>5 DEF Answer
  <2>2. /\ armed'[w] => engine = "harness" /\ (Retrieved(w)' > 0 \/ Tagged(w) # {})
        /\ \A v \in Workers \ {w} : armed'[v] = armed[v]
    BY <2>1, ArmingFacts
  <2>3. /\ content'[w] = "valid" => handed[w] # {}
        /\ \A v \in Workers \ {w} : content'[v] = content[v]
    BY <2>1, TextIsBound
  <2> QED BY <2>1, <2>2, <2>3, StepKeepsWork
<1>6. CASE RetryProvider(w)
  <2>1. /\ UNCHANGED <<engine, lease, store, handed, result, content>>
        /\ pc[w] = "answering" /\ pc'[w] = "calling" /\ ~armed'[w]
        /\ \A v \in Workers \ {w} : pc'[v] = pc[v] /\ armed'[v] = armed[v] /\ taken'[v] = taken[v]
    BY <1>1, <1>6 DEF RetryProvider
  <2> QED BY <2>1, WorkAt, StepKeepsWork
<1>7. CASE Finalize(w)
  <2>1. /\ UNCHANGED <<engine, lease, store, handed, result, taken, armed>>
        /\ pc[w] = "finalizing" /\ pc'[w] = "returning" /\ \A v \in Workers \ {w} : pc'[v] = pc[v]
        /\ \E text \in Answers(w) : content' = [content EXCEPT ![w] = text]
    BY <1>1, <1>7 DEF Finalize, budget
  <2>2. /\ content'[w] = "valid" => handed[w] # {}
        /\ \A v \in Workers \ {w} : content'[v] = content[v]
    BY <2>1, TextIsBound
  <2> QED BY <1>2, <2>1, <2>2, WorkAt, StepKeepsWork
<1> QED BY <1>3, <1>4, <1>5, <1>6, <1>7

LEMMA RetrievalKeepsWork ==
  ASSUME BudgetFits, WorkFits, NEW w \in Workers,
         AskTools(w) \/ SearchV2(w) \/ FetchV2(w) \/ SimpleFact(w)
  PROVE  WorkFits'
<1>1. /\ pc \in [Workers -> Pcs] /\ content \in [Workers -> {"empty", "bare", "loose", "valid", "direct"}]
      /\ armed \in [Workers -> BOOLEAN] /\ taken \in [Workers -> Counters] /\ Paths
      /\ engine \in {"harness", "v2", "simple"}
  BY ThreadFacts, OffersAssumption DEF BudgetFits, TypeOK, Pcs
<1>2. taken' = taken => Retrieved(w)' = Retrieved(w)
  BY DEF Retrieved
<1>3. CASE AskTools(w)
  <2>1. /\ UNCHANGED <<engine, lease, store, handed, result, taken, content>> /\ CallArms(w, 0)
        /\ pc[w] = "answering" /\ pc'[w] = "tools" /\ \A v \in Workers \ {w} : pc'[v] = pc[v]
    BY <1>1, <1>3 DEF AskTools
  <2>2. /\ armed'[w] => engine = "harness" /\ (Retrieved(w)' > 0 \/ Tagged(w) # {})
        /\ \A v \in Workers \ {w} : armed'[v] = armed[v]
    BY <2>1, ArmingFacts
  <2> QED BY <2>1, <2>2, WorkAt, StepKeepsWork
<1>4. CASE SearchV2(w)
  <2>1. /\ UNCHANGED <<engine, lease, store, handed, result, taken, armed, content>>
        /\ pc[w] = "search" /\ pc'[w] = "tools" /\ \A v \in Workers \ {w} : pc'[v] = pc[v]
    BY <1>1, <1>4 DEF SearchV2, budget
  <2> QED BY <1>2, <2>1, WorkAt, StepKeepsWork
<1>5. CASE FetchV2(w)
  <2>1. /\ UNCHANGED <<engine, lease, store, handed, result, armed, content>>
        /\ pc[w] = "fetch" /\ pc'[w] = "collect" /\ \A v \in Workers \ {w} : pc'[v] = pc[v]
    BY <1>1, <1>5 DEF FetchV2
  <2>2. \A v \in Workers \ {w} : taken'[v] = taken[v]
    BY <1>1, <1>5, SlotsCounted, ConsumedFacts DEF FetchV2
  <2>3. engine # "harness"
    BY <1>1, <2>1 DEF Paths, PathFits
  <2> QED BY <2>1, <2>2, <2>3, WorkAt, StepKeepsWork
<1>6. CASE SimpleFact(w)
  <2>1. /\ UNCHANGED <<engine, lease, store, handed, result, armed>> /\ engine = "simple"
        /\ pc[w] = "search" /\ pc'[w] = "returning" /\ content'[w] # "valid"
        /\ \A v \in Workers \ {w} : pc'[v] = pc[v] /\ taken'[v] = taken[v] /\ content'[v] = content[v]
    BY <1>1, <1>6 DEF SimpleFact, Direct
  <2> QED BY <2>1, WorkAt, StepKeepsWork
<1> QED BY <1>3, <1>4, <1>5, <1>6

\* A step of a thread: the store and what was handed over only grow, and by an
\* artifact of its own worker, whose coroutine has begun.
LEMMA ThreadKeepsWork ==
  ASSUME BudgetFits, WorkFits, NEW w \in Workers,
         UNCHANGED <<engine, control, result>>, pc[w] # "queued",
         \A v \in Workers \ {w} : /\ armed'[v] = armed[v] /\ Retrieved(v)' = Retrieved(v)
                                  /\ Tagged(v)' = Tagged(v),
         \A v \in Workers : handed[v] \subseteq handed'[v],
         armed'[w] => armed[w] \/ (pc[w] # "ended" /\ engine = "harness" /\ HasWork(w)),
         Retrieved(w) > 0 => Retrieved(w)' > 0, Tagged(w) \subseteq Tagged(w)'
  PROVE  WorkFits'
<1>1. UNCHANGED <<pc, lease, content, result, engine>>
  BY DEF control
<1>2. WorkOf(w) /\ result[w].execution \in Executions
  BY DEF WorkFits, BudgetFits, TypeOK, Executions
<1>3. armed'[w] => engine = "harness" /\ (Retrieved(w)' > 0 \/ Tagged(w)' # {})
  BY <1>2 DEF WorkOf, HasWork
<1>4. result[w].execution = "succeeded" => ~armed'[w]
  BY <1>2 DEF WorkOf
<1>5. content[w] = "valid" => handed'[w] # {}
  BY <1>2 DEF WorkOf
<1>6. WorkOf(w)'
  BY <1>1, <1>2, <1>3, <1>4, <1>5 DEF WorkOf
<1>7. ASSUME NEW v \in Workers \ {w} PROVE WorkOf(v)'
  BY <1>1, <1>7 DEF WorkFits, WorkOf
<1> QED BY <1>6, <1>7 DEF WorkFits

\* A thread runs for a worker that has begun.
LEMMA BegunWithThread ==
  ASSUME BudgetFits, NEW w \in Workers, NEW k \in Slots, thread[w][k].state # "idle"
  PROVE  pc[w] # "queued"
BY DEF BudgetFits, Paths, PathFits, Threads

\* What a worker of the run stored under its name, and nothing else, is new.
LEMMA PutFacts ==
  ASSUME store \in Seq(Artifact), NEW w \in Workers, NEW a \in Artifact, a.owner = w,
         store' = store \/ store' = Append(store, a)
  PROVE  /\ Tagged(w) \subseteq Tagged(w)'
         /\ \A v \in Workers \ {w} : Tagged(v)' = Tagged(v)
<1>1. /\ DOMAIN store \subseteq DOMAIN store' /\ \A i \in DOMAIN store : store'[i] = store[i]
      /\ \A i \in DOMAIN store' \ DOMAIN store : store'[i] = a
  <2>1. CASE store' = store
    BY <2>1
  <2>2. CASE store' = Append(store, a)
    BY <2>2
  <2> QED BY <2>1, <2>2
<1> QED BY <1>1 DEF Tagged

LEMMA HandFacts ==
  ASSUME TypeOK, NEW w \in Workers, NEW row, handed' = handed \/ Hand(w, row)
  PROVE  \A v \in Workers : handed[v] \subseteq handed'[v]
<1>1. handed \in [Workers -> SUBSET [id : Nat \ {0}, page : Nat]]
  BY DEF TypeOK
<1> QED BY <1>1 DEF Hand

LEMMA ThreadsKeepWork ==
  ASSUME BudgetFits, WorkFits, NEW w \in Workers, NEW k \in Slots, Thread(w, k)
  PROVE  WorkFits'
<1>1. /\ TypeOK /\ pc[w] # "queued" /\ UNCHANGED <<engine, control, result>>
  <2>1. thread[w][k].state # "idle"
    BY DEF Thread, Check, Authorize, Charge, SearchReturns, FetchReturns, BatchReturns
  <2>2. UNCHANGED <<engine, control, result>>
    BY DEF Thread, Check, Authorize, Charge, SearchReturns, FetchReturns, BatchReturns
  <2> QED BY <2>1, <2>2, BegunWithThread DEF BudgetFits
<1>2. /\ taken \in [Workers -> Counters] /\ store \in Seq(Artifact) /\ armed \in [Workers -> BOOLEAN]
      /\ handed \in [Workers -> SUBSET Row]
  BY <1>1, ThreadFacts DEF TypeOK, Row
<1>3. taken' = taken => \A v \in Workers : Retrieved(v)' = Retrieved(v)
  BY DEF Retrieved
<1>4. store' = store => \A v \in Workers : Tagged(v)' = Tagged(v)
  BY DEF Tagged
<1>5. CASE Check(w, k)
  <2>1. UNCHANGED <<taken, store, handed>>
    BY <1>5 DEF Check
  <2>2. PICK tokens \in BOOLEAN :
          armed' = [armed EXCEPT ![w] = IF pc[w] \in Primary THEN armed[w] \/ Arms(w, 0, tokens) ELSE @]
    BY <1>5, Zenon DEF Check
  <2>3. armed'[w] => armed[w] \/ (pc[w] \in Primary /\ Arms(w, 0, tokens))
    BY <1>2, <2>2, Zenon
  <2>4. \A v \in Workers \ {w} : armed'[v] = armed[v]
    BY <1>2, <2>2, Zenon
  <2>5. armed'[w] => armed[w] \/ (pc[w] # "ended" /\ engine = "harness" /\ HasWork(w))
    BY <2>3 DEF Primary, Arms
  <2> QED BY <1>1, <1>3, <1>4, <2>1, <2>4, <2>5, ThreadKeepsWork
<1>6. CASE Authorize(w, k)
  <2>1. UNCHANGED <<taken, armed, store, handed>>
    BY <1>6 DEF Authorize
  <2> QED BY <1>1, <1>3, <1>4, <2>1, ThreadKeepsWork
<1>7. CASE Charge(w, k)
  <2>1. UNCHANGED <<armed, store, handed>>
    BY <1>7 DEF Charge
  <2>2. PICK r \in {"search", "fetch"}, n \in {1, 2} : taken' = Consumed(w, r, n)
    BY <1>7 DEF Charge, Resource, Items
  <2>3. /\ \A v \in Workers \ {w} : taken'[v] = taken[v]
        /\ taken'[w].search = taken[w].search + (IF r = "search" THEN n ELSE 0)
        /\ taken'[w].fetch = taken[w].fetch + (IF r = "fetch" THEN n ELSE 0)
    BY <1>2, <2>2, ConsumedFacts
  <2>4. taken[w].search \in Nat /\ taken[w].fetch \in Nat
    BY <1>2 DEF Counters
  <2>5. /\ \A v \in Workers \ {w} : Retrieved(v)' = Retrieved(v)
        /\ Retrieved(w)' > 0
    BY <2>3, <2>4 DEF Retrieved
  <2> QED BY <1>1, <1>4, <2>1, <2>5, ThreadKeepsWork
<1>8. ASSUME NEW a \in Artifact, a.owner = w, store' = store \/ store' = Append(store, a),
             NEW row, handed' = handed \/ Hand(w, row), UNCHANGED <<taken, armed>>
      PROVE  WorkFits'
  <2>1. /\ Tagged(w) \subseteq Tagged(w)' /\ \A v \in Workers \ {w} : Tagged(v)' = Tagged(v)
    BY <1>2, <1>8, PutFacts
  <2>2. \A v \in Workers : handed[v] \subseteq handed'[v]
    BY <1>1, <1>8, HandFacts
  <2> QED BY <1>1, <1>3, <1>8, <2>1, <2>2, ThreadKeepsWork
<1>9. CASE SearchReturns(w, k)
  <2>1. UNCHANGED <<taken, armed>>
    BY <1>9 DEF SearchReturns, budget
  <2>2. PICK found \in BOOLEAN :
          /\ store' = store \/ store' = Append(store, Card(w, found))
          /\ \E row : handed' = handed \/ Hand(w, row)
    BY <1>9, Zenon DEF SearchReturns, Put
  <2>3. Card(w, found) \in Artifact /\ Card(w, found).owner = w
    BY DEF Card, Artifact
  <2> QED BY <1>8, <2>1, <2>2, <2>3
<1>10. CASE FetchReturns(w, k)
  <2> DEFINE a == [owner |-> w, tagged |-> FALSE, notice |-> FALSE]
  <2>1. UNCHANGED <<taken, armed>>
    BY <1>10 DEF FetchReturns, budget
  <2>2. /\ store' = store \/ store' = Append(store, a)
        /\ \E row : handed' = handed \/ Hand(w, row)
    BY <1>10, Zenon DEF FetchReturns
  <2>3. a \in Artifact /\ a.owner = w
    BY DEF Artifact
  <2> HIDE DEF a
  <2> QED BY <1>8, <2>1, <2>2, <2>3
<1>11. CASE BatchReturns(w, k)
  <2>1. UNCHANGED <<taken, armed, store>>
    BY <1>11 DEF BatchReturns, budget
  <2>2. \E row : handed' = handed \/ Hand(w, row)
    BY <1>11, Zenon DEF BatchReturns
  <2>3. \A v \in Workers : handed[v] \subseteq handed'[v]
    BY <1>1, <2>2, HandFacts
  <2> QED BY <1>1, <1>3, <1>4, <2>1, <2>3, ThreadKeepsWork
<1> QED BY <1>5, <1>6, <1>7, <1>9, <1>10, <1>11 DEF Thread

LEMMA WorkKept ==
  ASSUME BudgetFits, WorkFits, [Next]_vars
  PROVE  WorkFits'
<1>1. ASSUME NEW w \in Workers, Coroutine(w) \/ Model(w) \/ SoftDeadline(w) \/ CancelWorker(w)
      PROVE  WorkFits'
  BY <1>1, EndingKeepsWork, StreamKeepsWork, RetrievalKeepsWork DEF Coroutine, Model
<1>2. CASE UNCHANGED vars
  BY <1>2 DEF vars, control, budget, WorkFits, WorkOf, Retrieved, Tagged
<1> QED BY <1>1, <1>2, ThreadsKeepWork DEF Next

LEMMA InitFitsWork == ASSUME Init PROVE WorkFits
BY DEF Init, WorkFits, WorkOf, Tagged, NoResult

\* The invariant: the counters that threads share, and the evidence of every
\* worker at every point of its coroutine.
Inductive == BudgetFits /\ WorkFits

THEOREM WorkersInductive == Spec => []Inductive
<1>1. Init => Inductive
  BY InitFitsBudget, InitFitsWork DEF Inductive
<1>2. Inductive /\ [Next]_vars => Inductive'
  BY BudgetKept, WorkKept DEF Inductive
<1> QED BY <1>1, <1>2, PTL DEF Spec

\* For any number of workers, threads and tool kinds and any limits: whatever
\* order the threads check, pay and charge in, and whenever attempts repeat and
\* streams time out under them, the counters of the workers and the run agree
\* (consume_*_or_block, reserve_tool_calls), limits are overdrawn by no more
\* than what runs side by side, and no worker is stopped softly before its
\* first retrieval or evidence.
THEOREM CallsAccounted == Spec => []CallsAreAccountedFor
<1>1. Inductive => CallsAreAccountedFor
  BY BudgetSays, WorkSays DEF Inductive, CallsAreAccountedFor, BudgetFits
<1> QED BY <1>1, WorkersInductive, PTL

\* However a worker ends (execute, _salvage_or_fail): one that was refused,
\* timed out or raised left nothing under its name in the store, one that
\* returned and failed did so only with findings that name nothing, and a
\* successful one holds no lease, was not stopped by its budget, and rests on
\* evidence.
THEOREM NoWorkLost == Spec => []WorkIsKept
<1>1. Inductive => WorkIsKept
  BY WorkSays DEF Inductive
<1> QED BY <1>1, WorkersInductive, PTL

-----------------------------------------------------------------------------
(* The LangChain runtime and its watchdog.                                 *)

WorkerStates == {"ready", "running", "stopping", "backoff", "ended"}

Counted ==
  /\ provider \in Nat /\ provider < MaxProvider
  /\ artifacts \in Nat
  /\ before \in Nat /\ wall \in Nat
  /\ worker \in WorkerStates

\* The step's task runs only under a worker that runs, and that one holds its
\* lease and has reported nothing.
StepFits ==
  /\ Active => worker = "running"
  /\ worker \in {"running", "backoff", "stopping"} => stepLease = "held"
  /\ worker # "ended" => outcome = "none"
  /\ worker = "stopping" => stage \in {"cancelled", "dead"} /\ why \in {"idle_timeout", "step_timeout"}
  /\ worker \in {"ready", "backoff"} => stage = "none"

\* What an execution leaves behind was let through: a call in flight while the
\* agent works, a stored artifact, an answer that is not the harness's own.
RanFits ==
  /\ stage \in {"none", "gate", "interrupt", "transient"} => op = "none"
  /\ op = "tool" => stage \in {"agent", "cancelled"}
  /\ stage = "agent" /\ op # "none" => ran
  /\ artifacts > 0 => ran
  /\ answer \notin Notices \cup {"nothing"} => ran

\* A validated result is in its memory write, registered, or cut off there.
PassFits ==
  /\ registered <=> stage = "passed"
  /\ stage = "remembering" \/ registered => passed
  /\ passed => ran /\ stage \in {"remembering", "passed", "cancelled", "dead", "permanent", "unknown"}
  /\ registered => outcome \in {"none", "done", "cancelled"}
  /\ passed /\ ~registered =>
       outcome \in {"none", "idle_timeout", "step_timeout", "permanent", "unknown", "cancelled"}
  /\ done => registered

\* Each attempt took at most one wall timeout: the ones before, this one, and the
\* one a back-off follows.
TimeFits ==
  /\ wall <= WallTimeout
  /\ Active => wall < WallTimeout
  /\ before <= provider * WallTimeout
  /\ worker = "backoff" => before + wall <= provider * WallTimeout

DirectInductive == Counted /\ StepFits /\ RanFits /\ PassFits /\ TimeFits

-----------------------------------------------------------------------------
\* Every step keeps the counters natural and the attempts within the policy.
LEMMA CountedStep == DirectInductive /\ [DirectNext]_directVars => Counted'
<1> SUFFICES ASSUME DirectInductive, [DirectNext]_directVars PROVE Counted'
  OBVIOUS
<1> USE DEF DirectInductive, clock, tries, results, Counted, WorkerStates
<1>1. CASE DecideGate
  BY <1>1 DEF DecideGate, ApplyDecision, Notices
<1>2. CASE ApprovalExpires
  BY <1>2 DEF ApprovalExpires, Notices
<1>3. CASE StepCallsModel
  BY <1>3 DEF StepCallsModel
<1>4. CASE CallTool
  BY <1>4 DEF CallTool
<1>5. CASE StoreArtifact
  BY <1>5 DEF StoreArtifact
<1>6. CASE ToolReturns
  BY <1>6 DEF ToolReturns, Stored
<1>7. CASE Interrupt
  BY <1>7 DEF Interrupt
<1>8. CASE Resume
  BY <1>8 DEF Resume
<1>9. CASE StepAnswers
  BY <1>9 DEF StepAnswers
<1>10. CASE ExecutionTimesOut
  BY <1>10 DEF ExecutionTimesOut, Notices, Timed
<1>11. CASE AskForJson
  BY <1>11 DEF AskForJson, Execute, Entry
<1>12. CASE Compress
  BY <1>12 DEF Compress
<1>13. CASE Pass
  BY <1>13 DEF Pass, Valid, PayloadOk, Structured, Backing, Bound, Salvaged, Bare, Span, Notices
<1>14. CASE Recover
  BY <1>14 DEF Recover, Execute, Entry
<1>15. CASE GiveUp
  BY <1>15 DEF GiveUp
<1>16. CASE Raise
  BY <1>16 DEF Raise
<1>17. CASE Unwind
  BY <1>17 DEF Unwind
<1>18. CASE BeginStep
  BY <1>18 DEF BeginStep, Execute, Watch, Entry
<1>19. CASE Blocked
  BY <1>19 DEF Blocked, EndWorker
<1>20. CASE Poll
  BY <1>20, DirectAssumption DEF Poll, Verdict
<1>21. CASE Stopped
  BY <1>21 DEF Stopped, EndWorker
<1>22. CASE Returned
  BY <1>22 DEF Returned, EndWorker, Joined
<1>23. CASE Backoff
  BY <1>23, DirectAssumption DEF Backoff
<1>24. CASE Again
  BY <1>24 DEF Again, Execute, Watch, Entry
<1>25. CASE Raised
  BY <1>25 DEF Raised, EndWorker
<1>26. CASE Cancel
  BY <1>26 DEF Cancel, EndWorker, CancelStep
<1>27. CASE Remembered
  BY <1>27 DEF Remembered
<1>28. CASE RememberFails
  BY <1>28 DEF RememberFails
<1>29. CASE UNCHANGED directVars
  BY <1>29 DEF directVars
<1> QED
  BY <1>1, <1>2, <1>3, <1>4, <1>5, <1>6, <1>7, <1>8, <1>9, <1>10, <1>11, <1>12, <1>13, <1>14, <1>15, <1>16, <1>17, <1>18, <1>19, <1>20, <1>21, <1>22, <1>23, <1>24, <1>25, <1>26, <1>27, <1>28, <1>29
  DEF DirectNext, Step, Worker, Finished

\* Every step keeps the step's task under its worker's lease.
LEMMA StepFitsStep == DirectInductive /\ [DirectNext]_directVars => StepFits'
<1> SUFFICES ASSUME DirectInductive, [DirectNext]_directVars PROVE StepFits'
  OBVIOUS
<1> USE DEF DirectInductive, clock, tries, results, Counted, WorkerStates, StepFits, RanFits, PassFits, Active
<1>1. CASE DecideGate
  BY <1>1 DEF DecideGate, ApplyDecision, Notices
<1>2. CASE ApprovalExpires
  BY <1>2 DEF ApprovalExpires, Notices
<1>3. CASE StepCallsModel
  BY <1>3 DEF StepCallsModel
<1>4. CASE CallTool
  BY <1>4 DEF CallTool
<1>5. CASE StoreArtifact
  BY <1>5 DEF StoreArtifact
<1>6. CASE ToolReturns
  BY <1>6 DEF ToolReturns, Stored
<1>7. CASE Interrupt
  BY <1>7 DEF Interrupt
<1>8. CASE Resume
  BY <1>8 DEF Resume
<1>9. CASE StepAnswers
  BY <1>9 DEF StepAnswers
<1>10. CASE ExecutionTimesOut
  BY <1>10 DEF ExecutionTimesOut, Notices, Timed
<1>11. CASE AskForJson
  BY <1>11 DEF AskForJson, Execute, Entry
<1>12. CASE Compress
  BY <1>12 DEF Compress
<1>13. CASE Pass
  BY <1>13 DEF Pass, Valid, PayloadOk, Structured, Backing, Bound, Salvaged, Bare, Span, Notices
<1>14. CASE Recover
  BY <1>14 DEF Recover, Execute, Entry
<1>15. CASE GiveUp
  BY <1>15 DEF GiveUp
<1>16. CASE Raise
  BY <1>16 DEF Raise
<1>17. CASE Unwind
  BY <1>17 DEF Unwind
<1>18. CASE BeginStep
  BY <1>18 DEF BeginStep, Execute, Watch, Entry
<1>19. CASE Blocked
  BY <1>19 DEF Blocked, EndWorker
<1>20. CASE Poll
  BY <1>20, DirectAssumption DEF Poll, Verdict
<1>21. CASE Stopped
  BY <1>21 DEF Stopped, EndWorker
<1>22. CASE Returned
  BY <1>22 DEF Returned, EndWorker, Joined
<1>23. CASE Backoff
  BY <1>23 DEF Backoff
<1>24. CASE Again
  BY <1>24 DEF Again, Execute, Watch, Entry
<1>25. CASE Raised
  BY <1>25 DEF Raised, EndWorker
<1>26. CASE Cancel
  BY <1>26 DEF Cancel, EndWorker, CancelStep
<1>27. CASE Remembered
  BY <1>27 DEF Remembered
<1>28. CASE RememberFails
  BY <1>28 DEF RememberFails
<1>29. CASE UNCHANGED directVars
  BY <1>29 DEF directVars
<1> QED
  BY <1>1, <1>2, <1>3, <1>4, <1>5, <1>6, <1>7, <1>8, <1>9, <1>10, <1>11, <1>12, <1>13, <1>14, <1>15, <1>16, <1>17, <1>18, <1>19, <1>20, <1>21, <1>22, <1>23, <1>24, <1>25, <1>26, <1>27, <1>28, <1>29
  DEF DirectNext, Step, Worker, Finished

\* Every step keeps what is left behind by executions that were let through.
LEMMA RanFitsStep == DirectInductive /\ [DirectNext]_directVars => RanFits'
<1> SUFFICES ASSUME DirectInductive, [DirectNext]_directVars PROVE RanFits'
  OBVIOUS
<1> USE DEF DirectInductive, clock, tries, results, Counted, StepFits, RanFits, Active
<1>1. CASE DecideGate
  BY <1>1 DEF DecideGate, ApplyDecision, Notices
<1>2. CASE ApprovalExpires
  BY <1>2 DEF ApprovalExpires, Notices
<1>3. CASE StepCallsModel
  BY <1>3 DEF StepCallsModel
<1>4. CASE CallTool
  BY <1>4 DEF CallTool
<1>5. CASE StoreArtifact
  BY <1>5 DEF StoreArtifact
<1>6. CASE ToolReturns
  BY <1>6 DEF ToolReturns, Stored
<1>7. CASE Interrupt
  BY <1>7 DEF Interrupt
<1>8. CASE Resume
  BY <1>8 DEF Resume
<1>9. CASE StepAnswers
  BY <1>9 DEF StepAnswers
<1>10. CASE ExecutionTimesOut
  BY <1>10 DEF ExecutionTimesOut, Notices, Timed
<1>11. CASE AskForJson
  BY <1>11 DEF AskForJson, Execute, Entry
<1>12. CASE Compress
  BY <1>12 DEF Compress
<1>13. CASE Pass
  BY <1>13 DEF Pass, Valid, PayloadOk, Structured, Backing, Bound, Salvaged, Bare, Span, Notices
<1>14. CASE Recover
  BY <1>14 DEF Recover, Execute, Entry
<1>15. CASE GiveUp
  BY <1>15 DEF GiveUp
<1>16. CASE Raise
  BY <1>16 DEF Raise
<1>17. CASE Unwind
  BY <1>17 DEF Unwind
<1>18. CASE BeginStep
  BY <1>18 DEF BeginStep, Execute, Watch, Entry
<1>19. CASE Blocked
  BY <1>19 DEF Blocked, EndWorker
<1>20. CASE Poll
  BY <1>20, DirectAssumption DEF Poll, Verdict
<1>21. CASE Stopped
  BY <1>21 DEF Stopped, EndWorker
<1>22. CASE Returned
  BY <1>22 DEF Returned, EndWorker, Joined
<1>23. CASE Backoff
  BY <1>23 DEF Backoff
<1>24. CASE Again
  BY <1>24 DEF Again, Execute, Watch, Entry
<1>25. CASE Raised
  BY <1>25 DEF Raised, EndWorker
<1>26. CASE Cancel
  BY <1>26 DEF Cancel, EndWorker, CancelStep
<1>27. CASE Remembered
  BY <1>27 DEF Remembered
<1>28. CASE RememberFails
  BY <1>28 DEF RememberFails
<1>29. CASE UNCHANGED directVars
  BY <1>29 DEF directVars
<1> QED
  BY <1>1, <1>2, <1>3, <1>4, <1>5, <1>6, <1>7, <1>8, <1>9, <1>10, <1>11, <1>12, <1>13, <1>14, <1>15, <1>16, <1>17, <1>18, <1>19, <1>20, <1>21, <1>22, <1>23, <1>24, <1>25, <1>26, <1>27, <1>28, <1>29
  DEF DirectNext, Step, Worker, Finished

\* Every step keeps a validated result with its stage and its report.
LEMMA PassFitsStep == DirectInductive /\ [DirectNext]_directVars => PassFits'
<1> SUFFICES ASSUME DirectInductive, [DirectNext]_directVars PROVE PassFits'
  OBVIOUS
<1> USE DEF DirectInductive, clock, tries, results, Counted, WorkerStates, StepFits, RanFits, PassFits, Active
<1>1. CASE DecideGate
  BY <1>1 DEF DecideGate, ApplyDecision, Notices
<1>2. CASE ApprovalExpires
  BY <1>2 DEF ApprovalExpires, Notices
<1>3. CASE StepCallsModel
  BY <1>3 DEF StepCallsModel
<1>4. CASE CallTool
  BY <1>4 DEF CallTool
<1>5. CASE StoreArtifact
  BY <1>5 DEF StoreArtifact
<1>6. CASE ToolReturns
  BY <1>6 DEF ToolReturns, Stored
<1>7. CASE Interrupt
  BY <1>7 DEF Interrupt
<1>8. CASE Resume
  BY <1>8 DEF Resume
<1>9. CASE StepAnswers
  BY <1>9 DEF StepAnswers
<1>10. CASE ExecutionTimesOut
  BY <1>10 DEF ExecutionTimesOut, Notices, Timed
<1>11. CASE AskForJson
  BY <1>11 DEF AskForJson, Execute, Entry
<1>12. CASE Compress
  BY <1>12 DEF Compress
<1>13. CASE Pass
  BY <1>13 DEF Pass, Valid, PayloadOk, Structured, Backing, Bound, Salvaged, Bare, Span, Notices
<1>14. CASE Recover
  BY <1>14 DEF Recover, Execute, Entry
<1>15. CASE GiveUp
  BY <1>15 DEF GiveUp
<1>16. CASE Raise
  BY <1>16 DEF Raise
<1>17. CASE Unwind
  BY <1>17 DEF Unwind
<1>18. CASE BeginStep
  BY <1>18 DEF BeginStep, Execute, Watch, Entry
<1>19. CASE Blocked
  BY <1>19 DEF Blocked, EndWorker
<1>20. CASE Poll
  BY <1>20, DirectAssumption DEF Poll, Verdict
<1>21. CASE Stopped
  BY <1>21 DEF Stopped, EndWorker
<1>22. CASE Returned
  BY <1>22 DEF Returned, EndWorker, Joined
<1>23. CASE Backoff
  BY <1>23 DEF Backoff
<1>24. CASE Again
  BY <1>24 DEF Again, Execute, Watch, Entry
<1>25. CASE Raised
  BY <1>25 DEF Raised, EndWorker
<1>26. CASE Cancel
  BY <1>26 DEF Cancel, EndWorker, CancelStep
<1>27. CASE Remembered
  BY <1>27 DEF Remembered
<1>28. CASE RememberFails
  BY <1>28 DEF RememberFails
<1>29. CASE UNCHANGED directVars
  BY <1>29 DEF directVars
<1> QED
  BY <1>1, <1>2, <1>3, <1>4, <1>5, <1>6, <1>7, <1>8, <1>9, <1>10, <1>11, <1>12, <1>13, <1>14, <1>15, <1>16, <1>17, <1>18, <1>19, <1>20, <1>21, <1>22, <1>23, <1>24, <1>25, <1>26, <1>27, <1>28, <1>29
  DEF DirectNext, Step, Worker, Finished

\* One attempt more may take one wall timeout more.
LEMMA OneMore ==
  ASSUME NEW p \in Nat
  PROVE  /\ p * WallTimeout \in Nat
         /\ (p + 1) * WallTimeout = p * WallTimeout + WallTimeout
BY DirectAssumption

\* Attempts within the policy take no longer than all it grants.
LEMMA WithinPolicy ==
  ASSUME NEW p \in Nat, p < MaxProvider
  PROVE  p * WallTimeout + WallTimeout <= MaxProvider * WallTimeout
<1>1. PICK k \in Nat : MaxProvider = p + 1 + k
  <2>1. MaxProvider - p - 1 \in Nat /\ MaxProvider = p + 1 + (MaxProvider - p - 1)
    BY DirectAssumption
  <2> QED BY <2>1
<1>2. MaxProvider * WallTimeout = p * WallTimeout + WallTimeout + k * WallTimeout
  BY <1>1, DirectAssumption
<1>3. p * WallTimeout \in Nat /\ k * WallTimeout \in Nat
  BY DirectAssumption
<1> QED BY <1>2, <1>3, DirectAssumption

\* Every step keeps the polls of each attempt within its wall timeout.
LEMMA TimeFitsStep == DirectInductive /\ [DirectNext]_directVars => TimeFits'
<1> SUFFICES ASSUME DirectInductive, [DirectNext]_directVars PROVE TimeFits'
  OBVIOUS
<1> DEFINE earlier == provider * WallTimeout
<1>1. /\ wall \in Nat /\ before \in Nat /\ wall <= WallTimeout
      /\ Active => wall < WallTimeout
      /\ before <= earlier
      /\ worker = "backoff" => before + wall <= earlier
      /\ earlier \in Nat /\ WallTimeout \in Nat \ {0}
      /\ Active => worker = "running"
  BY OneMore, DirectAssumption DEF DirectInductive, Counted, TimeFits, StepFits
<1> USE DEF clock, tries, results
<1>2. CASE Poll
  <2>1. wall' = wall + 1 /\ UNCHANGED <<before, provider>> /\ Active
    BY <1>1, <1>2 DEF Poll
  <2>2. wall' < WallTimeout \/ stage' = "cancelled"
    BY <1>1, <1>2, <2>1 DEF Poll, Verdict
  <2>3. worker' # "backoff"
    BY <1>1, <1>2, <2>1 DEF Poll
  <2>4. wall' <= WallTimeout
    BY <1>1, <2>1
  <2> QED BY <1>1, <2>1, <2>2, <2>3, <2>4 DEF TimeFits, Active
<1>3. CASE BeginStep
  <2>1. wall' = 0 /\ worker' = "running" /\ UNCHANGED <<before, provider>>
    BY <1>3 DEF BeginStep, Watch, Execute
  <2> QED BY <1>1, <2>1 DEF TimeFits
<1>4. CASE Backoff
  <2>1. UNCHANGED <<wall, before>> /\ provider' = provider + 1 /\ stage' = "none"
    BY <1>4 DEF Backoff
  <2>2. provider' * WallTimeout = earlier + WallTimeout
    BY <2>1, OneMore DEF DirectInductive, Counted
  <2>3. before + wall <= earlier + WallTimeout /\ before <= earlier + WallTimeout
    BY <1>1
  <2> HIDE DEF earlier
  <2> QED BY <1>1, <2>1, <2>2, <2>3 DEF TimeFits, Active
<1>5. CASE Again
  <2>1. wall' = 0 /\ before' = before + wall /\ provider' = provider /\ worker = "backoff"
        /\ worker' = "running"
    BY <1>5 DEF Again, Watch, Execute
  <2> QED BY <1>1, <2>1 DEF TimeFits
<1>6. ASSUME UNCHANGED <<wall, before, provider>>, Active' => Active,
             worker' = "backoff" => worker = "backoff"
      PROVE  TimeFits'
  BY <1>1, <1>6 DEF TimeFits
<1>7. CASE Step
  <2>1. UNCHANGED <<wall, before, provider, worker>> /\ (Active' => Active)
    BY <1>7 DEF Step, DecideGate, ApplyDecision, ApprovalExpires, StepCallsModel, CallTool, StoreArtifact,
       ToolReturns, Interrupt, Resume, StepAnswers, ExecutionTimesOut, AskForJson, Compress, Pass,
       Remembered, RememberFails, Recover, GiveUp, Raise, Unwind, Active, Timed, Execute
  <2> QED BY <1>6, <2>1
<1>8. CASE Blocked \/ Stopped \/ Returned \/ Raised \/ Cancel
  <2>1. UNCHANGED <<wall, before, provider>> /\ worker' = "ended" /\ (Active' => Active)
    BY <1>8 DEF Blocked, Stopped, Returned, Raised, Cancel, EndWorker, CancelStep, Active
  <2> QED BY <1>6, <2>1
<1>9. CASE UNCHANGED directVars
  BY <1>6, <1>9 DEF directVars, Active
<1> QED
  BY <1>2, <1>3, <1>4, <1>5, <1>7, <1>8, <1>9 DEF DirectNext, Worker, Finished

\* The worker starts ready, with nothing behind it.
LEMMA InitInductive == DirectInit => DirectInductive
<1> SUFFICES ASSUME DirectInit PROVE DirectInductive
  OBVIOUS
<1>1. Counted /\ StepFits /\ RanFits /\ PassFits
  BY DirectAssumption
  DEF DirectInit, Counted, WorkerStates, StepFits, RanFits, PassFits, Active
<1>2. 0 * WallTimeout \in Nat
  BY OneMore
<1>3. TimeFits
  BY <1>2, DirectAssumption DEF DirectInit, TimeFits, Active
<1> QED BY <1>1, <1>3 DEF DirectInductive

LEMMA InductiveStep == DirectInductive /\ [DirectNext]_directVars => DirectInductive'
BY CountedStep, StepFitsStep, RanFitsStep, PassFitsStep, TimeFitsStep, Zenon DEF DirectInductive

\* The invariant says of a report what it must be.
LEMMA InductiveReport == DirectInductive => ReportIsTrue
<1> SUFFICES ASSUME DirectInductive PROVE ReportIsTrue
  OBVIOUS
<1>1. DoneNeedsARun /\ RegisteredIsReported /\ PassedIsFinal
  BY DEF DirectInductive, PassFits, DoneNeedsARun, RegisteredIsReported, PassedIsFinal
<1>2. before + wall <= provider * WallTimeout + WallTimeout
  <2>1. before <= provider * WallTimeout /\ wall <= WallTimeout
    BY DEF DirectInductive, TimeFits
  <2>2. before \in Nat /\ wall \in Nat /\ provider * WallTimeout \in Nat /\ WallTimeout \in Nat
    BY OneMore, DirectAssumption DEF DirectInductive, Counted
  <2> QED BY <2>1, <2>2
<1>3. provider * WallTimeout + WallTimeout <= MaxProvider * WallTimeout
  BY WithinPolicy DEF DirectInductive, Counted
<1>4. TimeIsBounded
  <2>1. /\ before + wall \in Nat /\ provider * WallTimeout + WallTimeout \in Nat
        /\ MaxProvider * WallTimeout \in Nat
    BY OneMore, DirectAssumption DEF DirectInductive, Counted
  <2> QED BY <1>2, <1>3, <2>1 DEF TimeIsBounded
<1> QED BY <1>1, <1>4 DEF ReportIsTrue

\* A call that starts does so in a step whose worker runs and holds the lease.
LEMMA CallsStep ==
  DirectInductive /\ [DirectNext]_directVars =>
    (op = "none" /\ op' # "none" => stepLease = "held" /\ worker = "running")
<1> SUFFICES ASSUME DirectInductive, [DirectNext]_directVars, op = "none", op' # "none"
             PROVE  stepLease = "held" /\ worker = "running"
  OBVIOUS
<1> USE DEF clock, tries, results
<1>1. StepCallsModel \/ Compress
  BY DEF DirectNext, Step, Worker, Finished, directVars, DecideGate, ApplyDecision, ApprovalExpires, CallTool,
     StoreArtifact, ToolReturns, Interrupt, Resume, StepAnswers, ExecutionTimesOut, AskForJson,
     Pass, Remembered, RememberFails, Recover, GiveUp, Raise, Unwind, BeginStep, Blocked, Poll, Stopped, Returned, Backoff,
     Again, Raised, Cancel, Execute
<1>2. Active
  BY <1>1 DEF StepCallsModel, Compress, Active
<1> QED BY <1>2 DEF DirectInductive, StepFits

\* What the worker reports is what its step did: a step that is done was let
\* through, validated and registered; one that is registered as completed is
\* reported done unless the run is cancelled; a validated result is lost to no
\* later attempt, only in its memory write; and all attempts together stay
\* within the wall timeouts the policy grants (_run_single_step,
\* _run_worker_step_with_lease, LangChainWorkerRuntime.execute).
THEOREM ReportsAreTrue == DirectSpec => []ReportIsTrue
<1>1. DirectSpec => []DirectInductive
  BY InitInductive, InductiveStep, PTL DEF DirectSpec
<1> QED BY <1>1, InductiveReport, PTL

\* No model or tool call starts without the worker's lease: the watchdog awaits
\* the step it cancels, and a cancelled worker cancels its step first.
THEOREM CallsHoldLease == DirectSpec => CallsNeedALease
<1>1. DirectSpec => []DirectInductive
  BY InitInductive, InductiveStep, PTL DEF DirectSpec
<1> QED BY <1>1, CallsStep, PTL DEF DirectSpec, CallsNeedALease

-----------------------------------------------------------------------------
(* Ingestion: induction over the numbers, and the fold of a wave.          *)

\* A set of numbers that is not empty has a least one.
LEMMA NatsHaveLeast ==
  ASSUME NEW T, T \subseteq Nat, T # {}
  PROVE  \E x \in T : \A y \in T : x <= y
<1>1. PICK x \in T : \A y \in T : ~(<<y, x>> \in OpToRel(<, Nat))
  BY NatLessThanWellFounded, WFMin, Zenon
<1>2. ASSUME NEW y \in T, y < x PROVE <<y, x>> \in OpToRel(<, Nat)
  BY <1>2 DEF OpToRel
<1>3. \A y \in T : ~(y < x)
  BY <1>1, <1>2
<1> QED BY <1>3

\* Every set of numbers that holds zero and the successor of each of its members
\* holds every number.
LEMMA SetInduction ==
  ASSUME NEW S, S \subseteq Nat, 0 \in S, \A n \in S : n + 1 \in S
  PROVE  S = Nat
<1> SUFFICES ASSUME NEW k \in Nat \ S PROVE FALSE
  OBVIOUS
<1>1. PICK x \in Nat \ S : \A y \in Nat \ S : x <= y
  BY NatsHaveLeast
<1>2. x - 1 \in Nat
  OBVIOUS
<1>3. x - 1 \in S
  BY <1>1, <1>2
<1> QED BY <1>2, <1>3

\* The fold of the updates exists: each stage is the merge of the one before.
Folding(g, ch, us, n) ==
  g = [i \in 0 .. n |-> IF i = 0 THEN ch ELSE Merge(g[i - 1], us[i])]

LEMMA FoldExists ==
  ASSUME NEW ch, NEW us, NEW n \in Nat
  PROVE  \E g : Folding(g, ch, us, n)
<1> DEFINE S == {m \in Nat : \E g : Folding(g, ch, us, m)}
<1>1. 0 \in S
  <2>1. Folding([i \in 0 .. 0 |-> ch], ch, us, 0)
    BY DEF Folding
  <2> QED BY <2>1
<1>2. ASSUME NEW m \in S PROVE m + 1 \in S
  <2>1. PICK g : Folding(g, ch, us, m)
    OBVIOUS
  <2> DEFINE h == [i \in 0 .. m + 1 |-> IF i = m + 1 THEN Merge(g[m], us[m + 1]) ELSE g[i]]
  <2>2. Folding(h, ch, us, m + 1)
    <3>1. ASSUME NEW i \in 0 .. m + 1
          PROVE  h[i] = IF i = 0 THEN ch ELSE Merge(h[i - 1], us[i])
      <4>0. m \in Nat
        OBVIOUS
      <4>1. CASE i = m + 1
        BY <4>0, <4>1
      <4>2. CASE i # m + 1
        <5>1. i \in 0 .. m /\ h[i] = g[i] /\ (i # 0 => h[i - 1] = g[i - 1])
          BY <4>0, <4>2
        <5>2. g[i] = IF i = 0 THEN ch ELSE Merge(g[i - 1], us[i])
          BY <2>1, <5>1 DEF Folding
        <5> QED BY <5>1, <5>2
      <4> QED BY <4>1, <4>2
    <3> HIDE DEF h
    <3>2. h = [i \in 0 .. m + 1 |-> h[i]]
      BY DEF h
    <3> QED BY <3>1, <3>2, Zenon DEF Folding
  <2> QED BY <2>2
<1>3. S = Nat
  <2> HIDE DEF S
  <2>1. S \subseteq Nat
    BY DEF S
  <2> QED BY <1>1, <1>2, <2>1, SetInduction
<1> QED BY <1>3

LEMMA FoldIs ==
  ASSUME NEW ch, NEW us, Len(us) \in Nat
  PROVE  \E g : Folding(g, ch, us, Len(us)) /\ Fold(ch, us) = g[Len(us)]
<1> DEFINE g == CHOOSE f : Folding(f, ch, us, Len(us))
<1>1. Folding(g, ch, us, Len(us))
  BY FoldExists
<1>2. Fold(ch, us) = g[Len(us)]
  BY DEF Fold, Folding
<1> QED BY <1>1, <1>2

-----------------------------------------------------------------------------
(* Reducers.                                                               *)

LEMMA PartialIs ==
  ASSUME NEW S, NEW T, NEW f
  PROVE  f \in Partial(S, T) <=> DOMAIN f \subseteq S /\ f \in [DOMAIN f -> T]
BY DEF Partial

LEMMA MergeRecordsIs ==
  ASSUME NEW S, NEW T, NEW left \in Partial(S, T), NEW right \in Partial(S, T)
  PROVE  /\ MergeRecords(left, right) \in Partial(S, T)
         /\ DOMAIN MergeRecords(left, right) = DOMAIN left \cup DOMAIN right
         /\ \A x \in DOMAIN right : MergeRecords(left, right)[x] = right[x]
         /\ \A x \in DOMAIN left \ DOMAIN right : MergeRecords(left, right)[x] = left[x]
<1>1. /\ DOMAIN left \subseteq S /\ left \in [DOMAIN left -> T]
      /\ DOMAIN right \subseteq S /\ right \in [DOMAIN right -> T]
  BY PartialIs
<1>2. MergeRecords(left, right) \in [DOMAIN left \cup DOMAIN right -> T]
  BY <1>1 DEF MergeRecords
<1>3. MergeRecords(left, right) \in Partial(S, T)
  BY <1>1, <1>2 DEF Partial
<1> QED BY <1>3 DEF MergeRecords

LEMMA ChannelsAre ==
  ASSUME NEW ch
  PROVE  ch \in Channels <=>
           /\ ch = [processed |-> ch.processed, evidence |-> ch.evidence,
                    claims |-> ch.claims, conflicts |-> ch.conflicts,
                    support |-> ch.support, version |-> ch.version, signal |-> ch.signal]
           /\ ch.processed \subseteq Tasks /\ ch.evidence \in Partial(EvidenceIds, Tasks)
           /\ ch.claims \in Partial(Claims, SUBSET EvidenceIds)
           /\ ch.conflicts \subseteq SUBSET Claims
           /\ ch.support \in Partial(EvidenceIds, Claims)
           /\ ch.version \subseteq EvidenceIds /\ ch.signal \in 0 .. MaxSignal
BY DEF Channels

LEMMA SignalsAddUp ==
  ASSUME NEW a \in 0 .. MaxSignal, NEW b \in 0 .. MaxSignal
  PROVE  /\ MergeSignals(a, b) \in 0 .. MaxSignal
         /\ MergeSignals(a, b) = 0 => a = 0 /\ b = 0
BY BoundsAssumption DEF MergeSignals, Capped

LEMMA MergeIs ==
  ASSUME NEW ch \in Channels, NEW u \in Channels
  PROVE  LET m == Merge(ch, u) IN
         /\ m \in Channels
         /\ m.processed = ch.processed \cup u.processed
         /\ m.evidence = MergeRecords(ch.evidence, u.evidence)
         /\ m.claims = MergeRecords(ch.claims, u.claims)
         /\ m.support = MergeRecords(ch.support, u.support)
         /\ m.conflicts = ch.conflicts \cup u.conflicts
         /\ m.version = u.version
         /\ m.signal = MergeSignals(ch.signal, u.signal)
<1> DEFINE m == Merge(ch, u)
<1>1. /\ m.processed = ch.processed \cup u.processed
      /\ m.evidence = MergeRecords(ch.evidence, u.evidence)
      /\ m.claims = MergeRecords(ch.claims, u.claims)
      /\ m.support = MergeRecords(ch.support, u.support)
      /\ m.conflicts = ch.conflicts \cup u.conflicts
      /\ m.version = u.version
      /\ m.signal = MergeSignals(ch.signal, u.signal)
      /\ m = [processed |-> m.processed, evidence |-> m.evidence,
              claims |-> m.claims, conflicts |-> m.conflicts,
              support |-> m.support, version |-> m.version, signal |-> m.signal]
  BY DEF Merge
<1>2. /\ ch.evidence \in Partial(EvidenceIds, Tasks) /\ u.evidence \in Partial(EvidenceIds, Tasks)
      /\ ch.claims \in Partial(Claims, SUBSET EvidenceIds)
      /\ u.claims \in Partial(Claims, SUBSET EvidenceIds)
      /\ ch.support \in Partial(EvidenceIds, Claims) /\ u.support \in Partial(EvidenceIds, Claims)
  BY ChannelsAre
<1>3. /\ m.evidence \in Partial(EvidenceIds, Tasks)
      /\ m.claims \in Partial(Claims, SUBSET EvidenceIds)
      /\ m.support \in Partial(EvidenceIds, Claims)
  <2>1. MergeRecords(ch.evidence, u.evidence) \in Partial(EvidenceIds, Tasks)
    BY <1>2, MergeRecordsIs
  <2>2. MergeRecords(ch.claims, u.claims) \in Partial(Claims, SUBSET EvidenceIds)
    BY <1>2, MergeRecordsIs
  <2>3. MergeRecords(ch.support, u.support) \in Partial(EvidenceIds, Claims)
    BY <1>2, MergeRecordsIs
  <2> HIDE DEF m
  <2> QED BY <1>1, <2>1, <2>2, <2>3, Zenon
<1>4. m.signal \in 0 .. MaxSignal
  BY <1>1, SignalsAddUp, ChannelsAre
<1>5. /\ m.processed \subseteq Tasks /\ m.conflicts \subseteq SUBSET Claims
      /\ m.version \subseteq EvidenceIds
  BY <1>1, ChannelsAre
<1>6. m \in Channels
  BY <1>1, <1>3, <1>4, <1>5, ChannelsAre
<1> QED BY <1>1, <1>6

EdgesFit(claims, support) ==
  /\ \A c \in DOMAIN claims : claims[c] \subseteq DOMAIN support
  /\ \A e \in DOMAIN support : support[e] \in DOMAIN claims /\ e \in claims[support[e]]

Gathers(ch, us, i, m) ==
  /\ m \in Channels
  /\ \A t \in Tasks :
       t \in m.processed <=> (t \in ch.processed \/ \E j \in 1 .. i : t \in us[j].processed)
  /\ \A e \in EvidenceIds :
       e \in DOMAIN m.evidence
         <=> (e \in DOMAIN ch.evidence \/ \E j \in 1 .. i : e \in DOMAIN us[j].evidence)
  /\ \A c \in Claims :
       c \in DOMAIN m.claims
         <=> (c \in DOMAIN ch.claims \/ \E j \in 1 .. i : c \in DOMAIN us[j].claims)
  /\ \A j \in 1 .. i : us[j].conflicts \subseteq m.conflicts
  /\ m.signal = 0 => ch.signal = 0 /\ \A j \in 1 .. i : us[j].signal = 0

Preserves(ch, us, i, m) ==
  /\ \A e \in DOMAIN ch.evidence : m.evidence[e] = ch.evidence[e]
  /\ \A e \in DOMAIN m.evidence \ DOMAIN ch.evidence :
       \E j \in 1 .. i : e \in DOMAIN us[j].evidence /\ m.evidence[e] = us[j].evidence[e]
  /\ \A c \in DOMAIN ch.claims : m.claims[c] = ch.claims[c]
  /\ \A j \in 1 .. i : \A c \in DOMAIN us[j].claims : m.claims[c] = us[j].claims[c]
  /\ EdgesFit(m.claims, m.support)
  /\ m.version \subseteq DOMAIN m.evidence
  /\ IF i = 0 THEN m.version = ch.version ELSE DOMAIN ch.evidence \subseteq m.version

\* What the updates of one wave owe to the channels they were made against and
\* to each other.
Joinable(ch, us, n) ==
  /\ ch \in Channels /\ \A j \in 1 .. n : us[j] \in Channels
  /\ EdgesFit(ch.claims, ch.support) /\ ch.version \subseteq DOMAIN ch.evidence
  /\ \A j \in 1 .. n :
       /\ DOMAIN us[j].evidence \cap DOMAIN ch.evidence = {}
       /\ DOMAIN us[j].claims \cap DOMAIN ch.claims = {}
       /\ EdgesFit(us[j].claims, us[j].support)
       /\ DOMAIN ch.evidence \subseteq us[j].version
       /\ us[j].version \subseteq DOMAIN ch.evidence \cup DOMAIN us[j].evidence
  /\ \A j, k \in 1 .. n : j # k => DOMAIN us[j].claims \cap DOMAIN us[k].claims = {}

LEMMA GathersNext ==
  ASSUME NEW ch, NEW us, NEW n \in Nat, NEW i \in Nat, i < n, NEW m,
         Joinable(ch, us, n), Gathers(ch, us, i, m)
  PROVE  Gathers(ch, us, i + 1, Merge(m, us[i + 1]))
<1> DEFINE u == us[i + 1]
           p == Merge(m, u)
<1>0. i + 1 \in 1 .. n /\ 1 .. i + 1 = (1 .. i) \cup {i + 1}
  OBVIOUS
<1>1. m \in Channels /\ u \in Channels
  BY <1>0 DEF Joinable, Gathers
<1>2. /\ p \in Channels /\ p.processed = m.processed \cup u.processed
      /\ p.conflicts = m.conflicts \cup u.conflicts
      /\ p.signal = MergeSignals(m.signal, u.signal)
      /\ p.evidence = MergeRecords(m.evidence, u.evidence)
      /\ p.claims = MergeRecords(m.claims, u.claims)
  BY <1>1, MergeIs
<1>3. /\ DOMAIN p.evidence = DOMAIN m.evidence \cup DOMAIN u.evidence
      /\ DOMAIN p.claims = DOMAIN m.claims \cup DOMAIN u.claims
  BY <1>2 DEF MergeRecords
<1>4. p.signal = 0 => m.signal = 0 /\ u.signal = 0
  BY <1>1, <1>2, SignalsAddUp, ChannelsAre
<1> HIDE DEF p
<1>5. \A t \in Tasks :
        t \in p.processed <=> (t \in ch.processed \/ \E j \in 1 .. i + 1 : t \in us[j].processed)
  BY <1>0, <1>2 DEF Gathers
<1>6. \A e \in EvidenceIds :
       e \in DOMAIN p.evidence
         <=> (e \in DOMAIN ch.evidence \/ \E j \in 1 .. i + 1 : e \in DOMAIN us[j].evidence)
  BY <1>0, <1>3 DEF Gathers
<1>7. \A c \in Claims :
       c \in DOMAIN p.claims
         <=> (c \in DOMAIN ch.claims \/ \E j \in 1 .. i + 1 : c \in DOMAIN us[j].claims)
  BY <1>0, <1>3 DEF Gathers
<1>8. \A j \in 1 .. i + 1 : us[j].conflicts \subseteq p.conflicts
  BY <1>0, <1>2 DEF Gathers
<1>9. p.signal = 0 => ch.signal = 0 /\ \A j \in 1 .. i + 1 : us[j].signal = 0
  BY <1>0, <1>4 DEF Gathers
<1>10. Gathers(ch, us, i + 1, p)
  BY <1>2, <1>5, <1>6, <1>7, <1>8, <1>9 DEF Gathers
<1> QED BY <1>10 DEF p

\* Edges that fit are merged into edges that fit, where the claims are others.
LEMMA EdgesMerge ==
  ASSUME NEW m \in Channels, NEW u \in Channels,
         EdgesFit(m.claims, m.support), EdgesFit(u.claims, u.support),
         DOMAIN m.claims \cap DOMAIN u.claims = {}
  PROVE  EdgesFit(MergeRecords(m.claims, u.claims), MergeRecords(m.support, u.support))
<1> DEFINE cs == MergeRecords(m.claims, u.claims)
           es == MergeRecords(m.support, u.support)
<1>1. /\ DOMAIN cs = DOMAIN m.claims \cup DOMAIN u.claims
      /\ \A c \in DOMAIN u.claims : cs[c] = u.claims[c]
      /\ \A c \in DOMAIN m.claims : cs[c] = m.claims[c]
  BY DEF MergeRecords
<1>2. /\ DOMAIN es = DOMAIN m.support \cup DOMAIN u.support
      /\ \A e \in DOMAIN u.support : es[e] = u.support[e]
      /\ \A e \in DOMAIN m.support \ DOMAIN u.support : es[e] = m.support[e]
  BY DEF MergeRecords
<1> HIDE DEF cs, es
<1>3. EdgesFit(cs, es)
  BY <1>1, <1>2 DEF EdgesFit
<1> QED BY <1>3 DEF cs, es

LEMMA PreservesNext ==
  ASSUME NEW ch, NEW us, NEW n \in Nat, NEW i \in Nat, i < n, NEW m,
         Joinable(ch, us, n), Gathers(ch, us, i, m), Preserves(ch, us, i, m)
  PROVE  Preserves(ch, us, i + 1, Merge(m, us[i + 1]))
<1> DEFINE u == us[i + 1]
           p == Merge(m, u)
<1>0. i + 1 \in 1 .. n /\ 1 .. i + 1 = (1 .. i) \cup {i + 1} /\ 1 .. i \subseteq 1 .. n
      /\ i + 1 \notin 1 .. i
  OBVIOUS
<1>1. m \in Channels /\ u \in Channels
  BY <1>0 DEF Joinable, Gathers
<1>2. /\ p.evidence = MergeRecords(m.evidence, u.evidence)
      /\ p.claims = MergeRecords(m.claims, u.claims)
      /\ p.support = MergeRecords(m.support, u.support)
      /\ p.version = u.version
  BY <1>1, MergeIs
<1>3. /\ DOMAIN p.evidence = DOMAIN m.evidence \cup DOMAIN u.evidence
      /\ \A x \in DOMAIN u.evidence : p.evidence[x] = u.evidence[x]
      /\ \A x \in DOMAIN m.evidence \ DOMAIN u.evidence : p.evidence[x] = m.evidence[x]
  BY <1>2 DEF MergeRecords
<1>4. /\ DOMAIN p.claims = DOMAIN m.claims \cup DOMAIN u.claims
      /\ \A x \in DOMAIN u.claims : p.claims[x] = u.claims[x]
      /\ \A x \in DOMAIN m.claims \ DOMAIN u.claims : p.claims[x] = m.claims[x]
  BY <1>2 DEF MergeRecords
<1>a. DOMAIN ch.evidence \subseteq EvidenceIds /\ DOMAIN ch.claims \subseteq Claims
      /\ DOMAIN m.evidence \subseteq EvidenceIds /\ DOMAIN m.claims \subseteq Claims
      /\ \A j \in 1 .. n : DOMAIN us[j].claims \subseteq Claims /\ DOMAIN us[j].evidence \subseteq EvidenceIds
  BY <1>1, ChannelsAre, PartialIs DEF Joinable
<1>5. DOMAIN ch.evidence \subseteq DOMAIN m.evidence /\ DOMAIN ch.claims \subseteq DOMAIN m.claims
  BY <1>a DEF Gathers
<1>6. DOMAIN u.claims \cap DOMAIN m.claims = {}
  BY <1>0, <1>a DEF Gathers, Joinable
<1>7. EdgesFit(p.claims, p.support)
  BY <1>0, <1>1, <1>2, <1>6, EdgesMerge DEF Preserves, Joinable
<1> HIDE DEF p
<1>8. \A e \in DOMAIN ch.evidence : p.evidence[e] = ch.evidence[e]
  BY <1>0, <1>3, <1>5 DEF Preserves, Joinable
<1>9. \A e \in DOMAIN p.evidence \ DOMAIN ch.evidence :
       \E j \in 1 .. i + 1 : e \in DOMAIN us[j].evidence /\ p.evidence[e] = us[j].evidence[e]
  <2> TAKE e \in DOMAIN p.evidence \ DOMAIN ch.evidence
  <2>1. CASE e \in DOMAIN u.evidence
    BY <1>0, <1>3, <2>1
  <2>2. CASE e \notin DOMAIN u.evidence
    BY <1>0, <1>3, <2>2 DEF Preserves
  <2> QED BY <2>1, <2>2
<1>10. \A c \in DOMAIN ch.claims : p.claims[c] = ch.claims[c]
  BY <1>0, <1>4, <1>5 DEF Preserves, Joinable
<1>11. \A j \in 1 .. i + 1 : \A c \in DOMAIN us[j].claims : p.claims[c] = us[j].claims[c]
  <2> TAKE j \in 1 .. i + 1
  <2> TAKE c \in DOMAIN us[j].claims
  <2>1. CASE j = i + 1
    BY <1>4, <2>1
  <2>2. CASE j \in 1 .. i
    <3>1. c \in Claims
      BY <1>0, <1>a, <2>2
    <3>2. c \in DOMAIN m.claims
      BY <2>2, <3>1 DEF Gathers
    <3> QED BY <1>4, <1>6, <2>2, <3>2 DEF Preserves
  <2> QED BY <1>0, <2>1, <2>2
<1>12. p.version \subseteq DOMAIN p.evidence /\ DOMAIN ch.evidence \subseteq p.version
  BY <1>0, <1>2, <1>3, <1>5 DEF Joinable
<1>13. Preserves(ch, us, i + 1, p)
  BY <1>7, <1>8, <1>9, <1>10, <1>11, <1>12 DEF Preserves
<1> QED BY <1>13 DEF p

\* What the fold of a wave leaves in the channels.
LEMMA FoldGathers ==
  ASSUME NEW ch, NEW us, Len(us) \in Nat, Joinable(ch, us, Len(us))
  PROVE  /\ Gathers(ch, us, Len(us), Fold(ch, us))
         /\ Preserves(ch, us, Len(us), Fold(ch, us))
<1> DEFINE n == Len(us)
<1>1. PICK g : Folding(g, ch, us, n) /\ Fold(ch, us) = g[n]
  BY FoldIs
<1> DEFINE S == {i \in Nat : i <= n => Gathers(ch, us, i, g[i]) /\ Preserves(ch, us, i, g[i])}
<1>2. g[0] = ch /\ \A i \in 1 .. n : g[i] = Merge(g[i - 1], us[i])
  BY <1>1 DEF Folding
<1>3. 0 \in S
  <2>1. Gathers(ch, us, 0, ch) /\ Preserves(ch, us, 0, ch)
    BY DEF Gathers, Preserves, Joinable
  <2> QED BY <1>2, <2>1
<1>4. ASSUME NEW i \in S PROVE i + 1 \in S
  <2>1. CASE i + 1 <= n
    <3>1. i \in Nat /\ i < n /\ Gathers(ch, us, i, g[i]) /\ Preserves(ch, us, i, g[i])
      BY <2>1
    <3>2. g[i + 1] = Merge(g[i], us[i + 1])
      BY <1>2, <3>1
    <3> QED BY <3>1, <3>2, GathersNext, PreservesNext
  <2>2. CASE ~(i + 1 <= n)
    BY <2>2
  <2> QED BY <2>1, <2>2
<1>5. S = Nat
  <2> HIDE DEF S
  <2>1. S \subseteq Nat
    BY DEF S
  <2> QED BY <1>3, <1>4, <2>1, SetInduction
<1> QED BY <1>1, <1>5

-----------------------------------------------------------------------------
(* The invariant.                                                          *)

IsReport(row, t, w) ==
  /\ row.task = t /\ row.wave = w /\ row.failed \in BOOLEAN
  /\ row.evidence \subseteq EvidenceIds /\ DOMAIN row.claims \subseteq Statements
  /\ \A s \in DOMAIN row.claims : row.claims[s] \subseteq row.evidence

\* What the update of a worker says of its row and of the channels it was made
\* against, which are those of the fan-in.
OwnUpdate(t, row, u, ch) ==
  /\ u \in Channels /\ u.processed = {t}
  /\ DOMAIN u.evidence = row.evidence \ DOMAIN ch.evidence
  /\ \A e \in DOMAIN u.evidence : u.evidence[e] = t
  /\ DOMAIN u.claims = {<<t, s>> : s \in DOMAIN row.claims}
  /\ \A s \in DOMAIN row.claims : u.claims[<<t, s>>] = row.claims[s]
  /\ EdgesFit(u.claims, u.support)
  /\ \A a \in DOMAIN u.claims, b \in DOMAIN u.claims \cup DOMAIN ch.claims :
       Disagree(a, b) => {a, b} \in u.conflicts
  /\ u.version = DOMAIN ch.evidence \cup row.evidence
  /\ u.signal = 0 => DOMAIN u.evidence \cap Authoritative = {}
  /\ row.failed => DOMAIN u.evidence = {}

Sent == {sends[i] : i \in DOMAIN sends}
RowTasks == {r.task : r \in rows}

\* The wave in flight: its tasks are new, and what a worker returned fits the
\* channels, which nobody has written since the dispatch.
WaveFits ==
  /\ runEngine \in RunEngines /\ phase \in Phases /\ wave \in 0 .. MaxWaves
  /\ sends \in Orders(Tasks) \cup {<<>>} /\ Sent \cap RowTasks = {}
  /\ DOMAIN updates \subseteq Sent
  /\ phase # "execute" => Sent = {} /\ DOMAIN updates = {}
  /\ phase # "supervisor" => wave > 0
  /\ \A t \in DOMAIN updates :
       IsReport(updates[t].row, t, wave) /\ OwnUpdate(t, updates[t].row, updates[t].ingest, channels)

\* The ledger holds what the rows brought, each row once.
RowsFit ==
  /\ \A r \in rows : r.task \in Tasks /\ r.wave \in 1 .. wave
  /\ channels \in Channels /\ channels.processed = RowTasks
  /\ ingested = [t \in Tasks |-> IF t \in RowTasks THEN 1 ELSE 0]
  /\ \A c \in DOMAIN channels.claims : c[1] \in RowTasks
  /\ \A e \in DOMAIN channels.evidence : channels.evidence[e] \in RowTasks
  /\ EdgesFit(channels.claims, channels.support)
  /\ channels.version \subseteq DOMAIN channels.evidence
  /\ NothingAdmittedIsLost /\ FailedTasksOwnNothing

\* The signal is zero only while there is nothing to count; a wave under way has
\* not been judged yet.
ValueFits ==
  /\ lowValue \in 0 .. wave
  /\ phase \in {"execute", "ingest_findings", "coverage_judge"} => lowValue < wave
  /\ lowValue > 0 => runEngine = "legacy"
  /\ channels.signal = 0 => DOMAIN channels.evidence \cap Authoritative = {}
  /\ LowValueMeansNoAuthority

IngestInductive == WaveFits /\ RowsFit /\ ValueFits

-----------------------------------------------------------------------------
(* What a worker returns.                                                  *)

LEMMA ReportsAre ==
  ASSUME NEW t \in Tasks, NEW row \in Reports(t)
  PROVE  IsReport(row, t, wave)
<1>1. PICK found \in SUBSET EvidenceIds :
        row \in [task : {t}, wave : {wave}, evidence : {found},
                 claims : Partial(Statements, References(found)), failed : BOOLEAN]
  BY DEF Reports
<1>2. /\ row.task = t /\ row.wave = wave /\ row.evidence = found /\ row.failed \in BOOLEAN
      /\ row.claims \in Partial(Statements, (SUBSET found) \ {{}})
  BY <1>1 DEF References
<1>3. DOMAIN row.claims \subseteq Statements /\ row.claims \in [DOMAIN row.claims -> (SUBSET found) \ {{}}]
  BY <1>2, PartialIs
<1> QED BY <1>2, <1>3 DEF IsReport

LEMMA CitationsOfOne ==
  ASSUME NEW t \in Tasks, NEW row, IsReport(row, t, wave)
  PROVE  /\ DOMAIN Citations({row}) = {<<t, s>> : s \in DOMAIN row.claims}
         /\ \A s \in DOMAIN row.claims : Citations({row})[<<t, s>>] = row.claims[s]
<1>1. row.task = t
  BY DEF IsReport
<1> DEFINE ids == UNION {{<<r.task, s>> : s \in DOMAIN r.claims} : r \in {row}}
<1>2. ids = {<<t, s>> : s \in DOMAIN row.claims}
  BY <1>1
<1>3. Citations({row}) = [c \in ids |-> (CHOOSE r \in {row} : r.task = c[1]).claims[c[2]]]
  BY DEF Citations
<1>4. \A c \in ids : (CHOOSE r \in {row} : r.task = c[1]) = row
  BY <1>1, <1>2
<1>5. \A s \in DOMAIN row.claims : <<t, s>> \in ids /\ <<t, s>>[2] = s
  BY <1>2
<1> HIDE DEF ids
<1>6. Citations({row}) = [c \in ids |-> row.claims[c[2]]]
  BY <1>3, <1>4
<1> QED BY <1>2, <1>5, <1>6

LEMMA CountOfValue ==
  ASSUME NEW S, S \subseteq EvidenceIds
  PROVE  /\ Capped(Cardinality(S \cap Authoritative)) \in 0 .. MaxSignal
         /\ Capped(Cardinality(S \cap Authoritative)) = 0 => S \cap Authoritative = {}
<1>1. IsFiniteSet(S \cap Authoritative)
  BY SetsAssumption, FS_Subset
<1>2. Cardinality(S \cap Authoritative) \in Nat
  BY <1>1, FS_CardinalityType
<1>3. Cardinality(S \cap Authoritative) = 0 => S \cap Authoritative = {}
  BY <1>1, FS_EmptySet
<1> QED BY <1>2, <1>3, BoundsAssumption DEF Capped

LEMMA ConflictsAre ==
  ASSUME NEW ch \in Channels, NEW own, own \subseteq Claims
  PROVE  /\ ConflictEdges(ch, own) \subseteq SUBSET Claims
         /\ \A a \in own, b \in own \cup DOMAIN ch.claims :
              Disagree(a, b) => {a, b} \in ConflictEdges(ch, own)
<1>1. DOMAIN ch.claims \subseteq Claims
  BY ChannelsAre, PartialIs
<1>2. ConflictEdges(ch, own) \subseteq SUBSET Claims
  BY <1>1 DEF ConflictEdges
<1>3. ASSUME NEW a \in own, NEW b \in own \cup DOMAIN ch.claims, Disagree(a, b)
      PROVE  {a, b} \in ConflictEdges(ch, own)
  <2>1. {a, b} \in {{x, y} : x \in own, y \in own \cup DOMAIN ch.claims}
    OBVIOUS
  <2>2. \E x, y \in {a, b} : Disagree(x, y)
    BY <1>3
  <2> QED BY <2>1, <2>2 DEF ConflictEdges
<1> QED BY <1>2, <1>3

LEMMA UpdatesAre ==
  ASSUME NEW ch \in Channels, NEW t \in Tasks, NEW row \in Reports(t),
         NEW u \in Updates(ch, {row}), row.failed => MayFail(t, u),
         \A c \in DOMAIN ch.claims : c[1] # t
  PROVE  OwnUpdate(t, row, u, ch)
<1>0. IsReport(row, t, wave)
  BY ReportsAre
<1> DEFINE cites == Citations({row})
           fresh == row.evidence \ DOMAIN ch.evidence
           cited == UNION {cites[c] : c \in DOMAIN cites}
<1>1. /\ DOMAIN cites = {<<t, s>> : s \in DOMAIN row.claims}
      /\ \A s \in DOMAIN row.claims : cites[<<t, s>>] = row.claims[s]
  BY <1>0, CitationsOfOne
<1>2. Admitted({row}) = row.evidence /\ {r.task : r \in {row}} = {t}
  BY <1>0 DEF IsReport, Admitted
<1>3. NewEvidence(ch, {row}) = fresh /\ EvidenceVersion(ch, {row}) = DOMAIN ch.evidence \cup row.evidence
  BY <1>2 DEF NewEvidence, EvidenceVersion
<1>a. cites = [c \in DOMAIN cites |-> cites[c]]
  BY DEF Citations
<1>b. NewClaims(ch, {row}) = cites
  <2>1. DOMAIN cites \ DOMAIN ch.claims = DOMAIN cites
    <3> HIDE DEF cites
    <3> QED BY <1>1
  <2> QED BY <1>a, <2>1 DEF NewClaims
<1> HIDE DEF cites
<1>c. PICK records \in Owners(ch, {row}), edges \in SupportEdges(cites) : u = Update(ch, {row}, records, edges)
  BY <1>b DEF Updates
<1>4. /\ records \in [fresh -> Tasks] /\ \A e \in fresh : records[e] = row.task
      /\ edges \in [cited -> DOMAIN cites] /\ \A e \in cited : e \in cites[edges[e]]
  BY <1>3, <1>c DEF Owners, SupportEdges
<1>d. u = [processed |-> {t}, evidence |-> records,
             claims |-> cites,
             conflicts |-> ConflictEdges(ch, DOMAIN cites), support |-> edges,
             version |-> DOMAIN ch.evidence \cup row.evidence,
             signal |-> Capped(Cardinality(fresh \cap Authoritative))]
  BY <1>2, <1>3, <1>b, <1>c DEF Update, cites
<1>5. /\ u.processed = {t} /\ u.evidence = records /\ u.claims = cites
      /\ u.conflicts = ConflictEdges(ch, DOMAIN cites) /\ u.support = edges
      /\ u.version = DOMAIN ch.evidence \cup row.evidence
      /\ u.signal = Capped(Cardinality(fresh \cap Authoritative))
      /\ u = [processed |-> u.processed, evidence |-> u.evidence,
              claims |-> u.claims, conflicts |-> u.conflicts,
              support |-> u.support, version |-> u.version, signal |-> u.signal]
  BY <1>d
<1>6. /\ DOMAIN u.evidence = fresh /\ u.evidence \in [fresh -> Tasks]
      /\ \A e \in fresh : u.evidence[e] = t
  BY <1>0, <1>4, <1>5 DEF IsReport
<1>7. /\ DOMAIN u.support = cited /\ u.support \in [cited -> DOMAIN cites]
      /\ \A e \in cited : e \in cites[u.support[e]]
  BY <1>4, <1>5
<1>8. /\ fresh \subseteq EvidenceIds /\ row.evidence \subseteq EvidenceIds
      /\ DOMAIN cites \subseteq Claims /\ \A c \in DOMAIN cites : cites[c] \subseteq EvidenceIds
  BY <1>0, <1>1 DEF IsReport, Claims
<1>9. cites \in [DOMAIN cites -> SUBSET EvidenceIds] /\ cited \subseteq EvidenceIds
  BY <1>8, <1>a
<1>10. u \in Channels
  <2>1. u.evidence \in Partial(EvidenceIds, Tasks)
    BY <1>6, <1>8 DEF Partial
  <2>2. u.claims \in Partial(Claims, SUBSET EvidenceIds)
    BY <1>5, <1>8, <1>9 DEF Partial
  <2>3. u.support \in Partial(EvidenceIds, Claims)
    <3>1. u.support \in [cited -> Claims]
      BY <1>7, <1>8
    <3> QED BY <3>1, <1>9 DEF Partial
  <2>4. u.conflicts \subseteq SUBSET Claims
    BY <1>5, <1>8, ConflictsAre
  <2>5. u.signal \in 0 .. MaxSignal
    BY <1>5, <1>8, CountOfValue
  <2>6. u.version \subseteq EvidenceIds
    <3>1. DOMAIN ch.evidence \subseteq EvidenceIds
      BY ChannelsAre, PartialIs
    <3> QED BY <1>5, <1>8, <3>1
  <2> QED BY <1>5, <2>1, <2>2, <2>3, <2>4, <2>5, <2>6, ChannelsAre
<1>11. EdgesFit(u.claims, u.support)
  BY <1>5, <1>7 DEF EdgesFit
<1>12. \A a \in DOMAIN u.claims, b \in DOMAIN u.claims \cup DOMAIN ch.claims :
         Disagree(a, b) => {a, b} \in u.conflicts
  BY <1>5, <1>8, ConflictsAre
<1>13. u.signal = 0 => DOMAIN u.evidence \cap Authoritative = {}
  BY <1>5, <1>6, <1>8, CountOfValue
<1>14. row.failed => DOMAIN u.evidence = {}
  BY <1>6 DEF MayFail
<1> QED BY <1>1, <1>5, <1>6, <1>10, <1>11, <1>12, <1>13, <1>14 DEF OwnUpdate

-----------------------------------------------------------------------------
(* The steps.                                                              *)

LEMMA OrdersAre ==
  ASSUME NEW S, S \subseteq Tasks, NEW s \in Orders(S)
  PROVE  /\ s \in Orders(Tasks)
         /\ {s[i] : i \in DOMAIN s} \subseteq S
         /\ Len(s) \in Nat /\ DOMAIN s = 1 .. Len(s)
<1>1. PICK n \in 1 .. Cardinality(S) : s \in [1 .. n -> S]
  BY DEF Orders
<1>2. IsFiniteSet(S) /\ IsFiniteSet(Tasks)
  BY SetsAssumption, FS_Subset
<1>3. Cardinality(S) \in Nat /\ Cardinality(Tasks) \in Nat /\ Cardinality(S) <= Cardinality(Tasks)
  BY <1>2, FS_CardinalityType, FS_Subset
<1>4. n \in 1 .. Cardinality(Tasks) /\ s \in [1 .. n -> Tasks]
  BY <1>1, <1>3
<1>5. s \in Orders(Tasks)
  BY <1>4 DEF Orders
<1>6. s \in Seq(S) /\ n \in Nat
  BY <1>1, <1>3
<1> QED BY <1>1, <1>5, <1>6

LEMMA SendsAre ==
  ASSUME sends \in Orders(Tasks) \cup {<<>>}
  PROVE  /\ Len(sends) \in Nat /\ DOMAIN sends = 1 .. Len(sends)
         /\ Sent \subseteq Tasks
         /\ \A i, j \in DOMAIN sends : sends[i] = sends[j] => i = j
<1>1. CASE sends = <<>>
  BY <1>1 DEF Sent
<1>2. CASE sends \in Orders(Tasks)
  BY <1>2, OrdersAre DEF Sent, Orders
<1> QED BY <1>1, <1>2

LEMMA EmptyFits ==
  /\ Empty \in Channels /\ DOMAIN Empty.evidence = {} /\ DOMAIN Empty.claims = {}
  /\ DOMAIN Empty.support = {} /\ Empty.processed = {} /\ Empty.version = {} /\ Empty.signal = 0
<1>1. \A S, T : NoRecords \in Partial(S, T)
  BY DEF NoRecords, Partial
<1>2. DOMAIN NoRecords = {}
  BY DEF NoRecords
<1>3. Empty \in Channels
  BY <1>1, BoundsAssumption DEF Empty, Channels
<1> QED BY <1>2, <1>3 DEF Empty

LEMMA IngestStarts == IngestInit => IngestInductive
<1> SUFFICES ASSUME IngestInit PROVE IngestInductive
  OBVIOUS
<1> USE EmptyFits DEF IngestInit
<1>0. RowTasks = {} /\ Sent = {} /\ DOMAIN updates = {}
  BY DEF RowTasks, Sent, NoRecords
<1>1. WaveFits
  BY <1>0, BoundsAssumption DEF WaveFits, Phases
<1>2. RowsFit
  BY <1>0 DEF RowsFit, EdgesFit, NothingAdmittedIsLost, FailedTasksOwnNothing
<1>3. ValueFits
  BY DEF ValueFits, LowValueMeansNoAuthority
<1> QED BY <1>1, <1>2, <1>3 DEF IngestInductive

\* The rows and the ledger stay as they are in most steps.
LEMMA RowsStay ==
  ASSUME RowsFit, wave \in 0 .. MaxWaves,
         rows' = rows, channels' = channels, ingested' = ingested,
         wave' = wave \/ wave' = wave + 1
  PROVE  RowsFit' /\ RowTasks' = RowTasks
<1>1. RowTasks' = RowTasks
  BY DEF RowTasks
<1>2. \A r \in rows' : r.task \in Tasks /\ r.wave \in 1 .. wave'
  BY BoundsAssumption DEF RowsFit
<1>3. NothingAdmittedIsLost' /\ FailedTasksOwnNothing'
  BY DEF RowsFit, NothingAdmittedIsLost, FailedTasksOwnNothing
<1> QED BY <1>1, <1>2, <1>3 DEF RowsFit

LEMMA DispatchSteps ==
  ASSUME IngestInductive, Dispatch
  PROVE  IngestInductive'
<1> USE DEF IngestInductive
<1>0. phase = "supervisor" /\ wave < MaxWaves /\ wave' = wave + 1 /\ phase' = "execute"
      /\ UNCHANGED <<runEngine, updates, rows, channels, lowValue, ingested>>
      /\ sends' \in Orders(Unsent) /\ wave \in 0 .. MaxWaves
  BY DEF Dispatch, WaveFits
<1>1. RowsFit' /\ RowTasks' = RowTasks
  BY <1>0, RowsStay
<1>2. Unsent \subseteq Tasks /\ Unsent \cap RowTasks = {}
  BY DEF Unsent, RowTasks
<1>3. sends' \in Orders(Tasks) /\ Sent' \subseteq Unsent
  <2>1. sends' \in Orders(Tasks) /\ {sends'[i] : i \in DOMAIN sends'} \subseteq Unsent
    BY <1>0, <1>2, OrdersAre
  <2> QED BY <2>1 DEF Sent
<1>4. DOMAIN updates' = {}
  BY <1>0 DEF WaveFits
<1>5. WaveFits'
  BY <1>0, <1>1, <1>2, <1>3, <1>4, BoundsAssumption DEF WaveFits, Phases
<1>6. ValueFits'
  BY <1>0, BoundsAssumption DEF ValueFits, LowValueMeansNoAuthority
<1> QED BY <1>1, <1>5, <1>6

LEMMA WorkerReturnsSteps ==
  ASSUME IngestInductive, NEW t \in Tasks, WorkerReturns(t)
  PROVE  IngestInductive'
<1> USE DEF IngestInductive
<1>0. /\ phase = "execute" /\ t \in Sent \ DOMAIN updates
      /\ UNCHANGED <<runEngine, phase, wave, sends, rows, channels, lowValue, ingested>>
  BY DEF WorkerReturns, Sent
<1>a. PICK row \in Reports(t) : \E u \in Updates(channels, {row}) :
        /\ row.failed => MayFail(t, u)
        /\ updates' = MergeRecords(updates, [x \in {t} |-> WorkerUpdate(row, u)])
  BY DEF WorkerReturns
<1>1. PICK u \in Updates(channels, {row}) :
        /\ row.failed => MayFail(t, u)
        /\ updates' = MergeRecords(updates, [x \in {t} |-> WorkerUpdate(row, u)])
  BY <1>a
<1>2. RowsFit' /\ RowTasks' = RowTasks
  BY <1>0, RowsStay DEF WaveFits
<1>3. \A c \in DOMAIN channels.claims : c[1] # t
  BY <1>0 DEF RowsFit, WaveFits
<1>4. IsReport(row, t, wave) /\ OwnUpdate(t, row, u, channels)
  BY <1>1, <1>3, ReportsAre, UpdatesAre DEF RowsFit
<1>5. /\ DOMAIN updates' = DOMAIN updates \cup {t}
      /\ \A x \in DOMAIN updates : updates'[x] = updates[x]
      /\ updates'[t].row = row /\ updates'[t].ingest = u
  BY <1>0, <1>1 DEF MergeRecords, WorkerUpdate
<1>6. \A x \in DOMAIN updates' :
        IsReport(updates'[x].row, x, wave') /\ OwnUpdate(x, updates'[x].row, updates'[x].ingest, channels')
  <2> TAKE x \in DOMAIN updates'
  <2>1. CASE x = t
    BY <1>0, <1>4, <1>5, <2>1 DEF IsReport
  <2>2. CASE x \in DOMAIN updates
    <3>1. IsReport(updates[x].row, x, wave) /\ OwnUpdate(x, updates[x].row, updates[x].ingest, channels)
      BY <2>2 DEF WaveFits
    <3> QED BY <1>0, <1>5, <2>2, <3>1 DEF IsReport
  <2> QED BY <1>5, <2>1, <2>2
<1>7. Sent' = Sent
  BY <1>0 DEF Sent
<1>8. WaveFits'
  BY <1>0, <1>2, <1>5, <1>6, <1>7 DEF WaveFits
<1>9. ValueFits'
  BY <1>0 DEF ValueFits, LowValueMeansNoAuthority
<1> QED BY <1>2, <1>8, <1>9

\* What the fan-in leaves in the channels m, in terms of the tasks of the wave.
JoinsAs(ch, m) ==
  /\ m \in Channels /\ m.processed = ch.processed \cup Sent
  /\ \A e \in DOMAIN ch.evidence : e \in DOMAIN m.evidence /\ m.evidence[e] = ch.evidence[e]
  /\ \A e \in DOMAIN m.evidence \ DOMAIN ch.evidence :
       \E t \in Sent : e \in DOMAIN updates[t].ingest.evidence /\ m.evidence[e] = t
  /\ \A c \in DOMAIN ch.claims : c \in DOMAIN m.claims /\ m.claims[c] = ch.claims[c]
  /\ \A c \in DOMAIN m.claims \ DOMAIN ch.claims :
       \E t \in Sent : c \in DOMAIN updates[t].ingest.claims /\ c[1] = t
  /\ \A t \in Sent :
       /\ updates[t].row.evidence \subseteq DOMAIN m.evidence
       /\ \A s \in DOMAIN updates[t].row.claims :
            <<t, s>> \in DOMAIN m.claims /\ m.claims[<<t, s>>] = updates[t].row.claims[s]
       /\ updates[t].ingest.conflicts \subseteq m.conflicts
  /\ EdgesFit(m.claims, m.support)
  /\ ch.version \subseteq m.version /\ m.version \subseteq DOMAIN m.evidence
  /\ m.signal = 0 => ch.signal = 0 /\ \A t \in Sent : updates[t].ingest.signal = 0

LEMMA FanInJoinable ==
  ASSUME IngestInductive, FanIn,
         NEW us, us = [i \in DOMAIN sends |-> updates[sends[i]].ingest]
  PROVE  /\ Len(us) = Len(sends) /\ Len(us) \in Nat
         /\ Joinable(channels, us, Len(us))
<1> USE DEF IngestInductive
<1>1. DOMAIN updates = Sent
  BY DEF FanIn, Sent
<1>2. /\ Len(sends) \in Nat /\ DOMAIN sends = 1 .. Len(sends) /\ Sent \subseteq Tasks
      /\ \A i, j \in DOMAIN sends : sends[i] = sends[j] => i = j
  BY SendsAre DEF WaveFits
<1> DEFINE n == Len(sends)
<1> HIDE DEF n
<1>3. Len(us) = n /\ n \in Nat /\ DOMAIN sends = 1 .. n
  <2>1. DOMAIN us = 1 .. n /\ n \in Nat
    BY <1>2 DEF n
  <2> QED BY <1>2, <2>1 DEF n
<1>4. ASSUME NEW j \in 1 .. n
      PROVE  /\ sends[j] \in Sent /\ us[j] = updates[sends[j]].ingest
             /\ OwnUpdate(sends[j], updates[sends[j]].row, us[j], channels)
             /\ sends[j] \notin RowTasks
  BY <1>1, <1>2 DEF n, Sent, WaveFits
<1>5. ASSUME NEW j \in 1 .. n
      PROVE  /\ us[j] \in Channels
             /\ DOMAIN us[j].evidence \cap DOMAIN channels.evidence = {}
             /\ DOMAIN us[j].claims \cap DOMAIN channels.claims = {}
             /\ EdgesFit(us[j].claims, us[j].support)
             /\ DOMAIN channels.evidence \subseteq us[j].version
             /\ us[j].version \subseteq DOMAIN channels.evidence \cup DOMAIN us[j].evidence
             /\ \A c \in DOMAIN us[j].claims : c[1] = sends[j]
  <2> HIDE DEF IngestInductive
  <2>1. OwnUpdate(sends[j], updates[sends[j]].row, us[j], channels) /\ sends[j] \notin RowTasks
    BY <1>4
  <2>2. \A c \in DOMAIN us[j].claims : c[1] = sends[j]
    <3> DEFINE t == sends[j]
               said == DOMAIN updates[t].row.claims
    <3>1. DOMAIN us[j].claims = {<<t, s>> : s \in said}
      BY <2>1 DEF OwnUpdate
    <3> HIDE DEF said, t
    <3>2. \A c \in DOMAIN us[j].claims : c[1] = t
      BY <3>1
    <3> QED BY <3>2 DEF t
  <2>3. \A c \in DOMAIN channels.claims : c[1] \in RowTasks
    BY DEF IngestInductive, RowsFit
  <2>4. DOMAIN us[j].claims \cap DOMAIN channels.claims = {}
    BY <2>1, <2>2, <2>3
  <2> QED BY <2>1, <2>2, <2>4 DEF OwnUpdate
<1>6. ASSUME NEW j \in 1 .. n, NEW k \in 1 .. n, j # k
      PROVE  DOMAIN us[j].claims \cap DOMAIN us[k].claims = {}
  <2>1. sends[j] # sends[k]
    BY <1>2, <1>3, <1>6
  <2>2. /\ \A c \in DOMAIN us[j].claims : c[1] = sends[j]
        /\ \A c \in DOMAIN us[k].claims : c[1] = sends[k]
    BY <1>5
  <2> SUFFICES ASSUME NEW c \in DOMAIN us[j].claims \cap DOMAIN us[k].claims PROVE FALSE
    OBVIOUS
  <2>3. c[1] = sends[j] /\ c[1] = sends[k]
    BY <2>2
  <2> QED BY <2>1, <2>3
<1>7. /\ channels \in Channels /\ EdgesFit(channels.claims, channels.support)
      /\ channels.version \subseteq DOMAIN channels.evidence
  BY DEF RowsFit
<1>8. Joinable(channels, us, n)
  BY <1>5, <1>6, <1>7 DEF Joinable
<1> QED BY <1>3, <1>8 DEF n

LEMMA FanInJoins ==
  ASSUME IngestInductive, FanIn
  PROVE  JoinsAs(channels, channels')
<1> DEFINE us == [i \in DOMAIN sends |-> updates[sends[i]].ingest]
           n == Len(sends)
           m == channels'
<1>1. m = Fold(channels, us)
  BY DEF FanIn
<1>2. Len(us) = n /\ n \in Nat /\ Joinable(channels, us, n)
  BY FanInJoinable
<1>3. Gathers(channels, us, n, m) /\ Preserves(channels, us, n, m)
  <2> HIDE DEF us, n
  <2> QED BY <1>1, <1>2, FoldGathers
<1>4. /\ DOMAIN sends = 1 .. n /\ Sent \subseteq Tasks /\ DOMAIN updates = Sent
      /\ sends \in Orders(Tasks) \cup {<<>>}
  BY SendsAre DEF IngestInductive, WaveFits, FanIn, Sent
<1>5. /\ \A j \in 1 .. n : sends[j] \in Sent /\ us[j] = updates[sends[j]].ingest
      /\ \A t \in Sent : \E j \in 1 .. n : t = sends[j]
  BY <1>4 DEF Sent
<1> HIDE DEF us, n, m
<1>6. \A t \in Sent : \E j \in 1 .. n : us[j] = updates[t].ingest
  BY <1>5
<1>7. ASSUME NEW t \in Sent
      PROVE  OwnUpdate(t, updates[t].row, updates[t].ingest, channels)
  BY <1>4 DEF IngestInductive, WaveFits
<1>8. /\ DOMAIN channels.evidence \subseteq EvidenceIds /\ DOMAIN channels.claims \subseteq Claims
      /\ DOMAIN m.evidence \subseteq EvidenceIds /\ DOMAIN m.claims \subseteq Claims
      /\ channels.processed \subseteq Tasks /\ m.processed \subseteq Tasks
  <2>1. channels \in Channels /\ m \in Channels
    BY <1>3 DEF IngestInductive, RowsFit, Gathers
  <2> QED BY <2>1, ChannelsAre, PartialIs
<1>9. m \in Channels /\ m.processed = channels.processed \cup Sent
  <2>1. \A j \in 1 .. n : us[j].processed = {sends[j]}
    BY <1>5, <1>7 DEF OwnUpdate
  <2>2. \A t \in Tasks : t \in m.processed <=> t \in channels.processed \/ t \in Sent
    BY <1>3, <1>5, <2>1 DEF Gathers
  <2>3. m.processed = channels.processed \cup Sent
    BY <1>4, <1>8, <2>2
  <2> QED BY <1>3, <2>3 DEF Gathers
<1>10. \A e \in DOMAIN channels.evidence : e \in DOMAIN m.evidence /\ m.evidence[e] = channels.evidence[e]
  BY <1>3, <1>8 DEF Gathers, Preserves
<1>11. ASSUME NEW e \in DOMAIN m.evidence \ DOMAIN channels.evidence
       PROVE  \E t \in Sent : e \in DOMAIN updates[t].ingest.evidence /\ m.evidence[e] = t
  <2>1. PICK j \in 1 .. n : e \in DOMAIN us[j].evidence /\ m.evidence[e] = us[j].evidence[e]
    BY <1>3 DEF Preserves
  <2>2. sends[j] \in Sent /\ us[j] = updates[sends[j]].ingest
    BY <1>5
  <2>3. us[j].evidence[e] = sends[j]
    BY <1>7, <2>1, <2>2 DEF OwnUpdate
  <2> QED BY <2>1, <2>2, <2>3
<1>12. \A c \in DOMAIN channels.claims : c \in DOMAIN m.claims /\ m.claims[c] = channels.claims[c]
  BY <1>3, <1>8 DEF Gathers, Preserves
<1>13. ASSUME NEW c \in DOMAIN m.claims \ DOMAIN channels.claims
       PROVE  \E t \in Sent : c \in DOMAIN updates[t].ingest.claims /\ c[1] = t
  <2>1. PICK j \in 1 .. n : c \in DOMAIN us[j].claims
    BY <1>3, <1>8 DEF Gathers
  <2>2. sends[j] \in Sent /\ us[j] = updates[sends[j]].ingest
    BY <1>5
  <2>3. c[1] = sends[j]
    BY <1>7, <2>1, <2>2 DEF OwnUpdate
  <2> QED BY <2>1, <2>2, <2>3
<1>14. ASSUME NEW t \in Sent
       PROVE  /\ updates[t].row.evidence \subseteq DOMAIN m.evidence
              /\ \A s \in DOMAIN updates[t].row.claims :
                   <<t, s>> \in DOMAIN m.claims /\ m.claims[<<t, s>>] = updates[t].row.claims[s]
              /\ updates[t].ingest.conflicts \subseteq m.conflicts
  <2>1. PICK j \in 1 .. n : us[j] = updates[t].ingest
    BY <1>6
  <2> DEFINE row == updates[t].row
             u == us[j]
  <2>2. OwnUpdate(t, row, u, channels) /\ IsReport(row, t, wave)
    BY <1>4, <1>7, <2>1 DEF IngestInductive, WaveFits
  <2> HIDE DEF row, u
  <2>3. row.evidence \subseteq EvidenceIds /\ DOMAIN row.claims \subseteq Statements /\ t \in Tasks
    BY <1>4, <2>2 DEF IsReport
  <2>4. DOMAIN u.evidence \subseteq DOMAIN m.evidence
    <3>1. DOMAIN u.evidence \subseteq EvidenceIds
      BY <2>2, <2>3 DEF OwnUpdate
    <3> QED BY <1>3, <3>1 DEF u, Gathers
  <2>5. row.evidence \subseteq DOMAIN m.evidence
    BY <1>10, <2>2, <2>4 DEF OwnUpdate
  <2>6. ASSUME NEW s \in DOMAIN row.claims
        PROVE  <<t, s>> \in DOMAIN m.claims /\ m.claims[<<t, s>>] = row.claims[s]
    <3>1. <<t, s>> \in DOMAIN u.claims /\ u.claims[<<t, s>>] = row.claims[s] /\ <<t, s>> \in Claims
      BY <2>2, <2>3 DEF OwnUpdate, Claims
    <3> QED BY <1>3, <3>1 DEF u, Gathers, Preserves
  <2>7. u.conflicts \subseteq m.conflicts
    BY <1>3 DEF u, Gathers
  <2> QED BY <2>1, <2>5, <2>6, <2>7 DEF row, u
<1>15. /\ EdgesFit(m.claims, m.support) /\ m.version \subseteq DOMAIN m.evidence
       /\ channels.version \subseteq m.version
  BY <1>3 DEF Preserves, IngestInductive, RowsFit
<1>16. m.signal = 0 => channels.signal = 0 /\ \A t \in Sent : updates[t].ingest.signal = 0
  BY <1>3, <1>6 DEF Gathers
<1>17. JoinsAs(channels, m)
  BY <1>9, <1>10, <1>11, <1>12, <1>13, <1>14, <1>15, <1>16 DEF JoinsAs
<1> QED BY <1>17 DEF m

LEMMA FanInSteps ==
  ASSUME IngestInductive, FanIn
  PROVE  IngestInductive'
<1> DEFINE ch == channels
           m == channels'
<1>1. JoinsAs(ch, m)
  BY FanInJoins
<1>2. /\ phase = "execute" /\ DOMAIN updates = Sent
      /\ rows' = rows \cup {updates[t].row : t \in Sent}
      /\ ingested' = [t \in Tasks |-> ingested[t] + IF t \in Sent THEN 1 ELSE 0]
      /\ sends' = <<>> /\ DOMAIN updates' = {} /\ phase' = "ingest_findings"
      /\ UNCHANGED <<runEngine, wave, lowValue>>
  BY DEF FanIn, Sent, NoRecords
<1>3. /\ Sent \subseteq Tasks /\ Sent \cap RowTasks = {} /\ wave \in 1 .. MaxWaves
      /\ runEngine \in RunEngines
  <2>1. Sent \subseteq Tasks
    BY SendsAre DEF IngestInductive, WaveFits
  <2> QED BY <1>2, <2>1, BoundsAssumption DEF IngestInductive, WaveFits
<1>4. ASSUME NEW t \in Sent
      PROVE  IsReport(updates[t].row, t, wave) /\ OwnUpdate(t, updates[t].row, updates[t].ingest, ch)
  BY <1>2 DEF IngestInductive, WaveFits
<1>5. RowsFit
  BY DEF IngestInductive
<1>6. RowTasks' = RowTasks \cup Sent
  <2>1. \A t \in Sent : updates[t].row.task = t
    BY <1>4 DEF IsReport
  <2> QED BY <1>2, <2>1 DEF RowTasks
<1> HIDE DEF m, ch
<1>7. RowsFit'
  <2>1. \A r \in rows' : r.task \in Tasks /\ r.wave \in 1 .. wave'
    BY <1>2, <1>3, <1>4, <1>5 DEF RowsFit, IsReport
  <2>2. m \in Channels /\ m.processed = RowTasks'
    BY <1>1, <1>5, <1>6 DEF JoinsAs, RowsFit, ch
  <2>3. ingested' = [t \in Tasks |-> IF t \in RowTasks' THEN 1 ELSE 0]
    BY <1>2, <1>3, <1>5, <1>6 DEF RowsFit
  <2>4. \A c \in DOMAIN m.claims : c[1] \in RowTasks'
    BY <1>1, <1>5, <1>6 DEF RowsFit, JoinsAs, ch
  <2>5. \A e \in DOMAIN m.evidence : m.evidence[e] \in RowTasks'
    BY <1>1, <1>5, <1>6 DEF RowsFit, JoinsAs, ch
  <2>6. ASSUME NEW r \in rows'
        PROVE  /\ r.evidence \subseteq DOMAIN m.evidence
               /\ \A s \in DOMAIN r.claims :
                    /\ <<r.task, s>> \in DOMAIN m.claims
                    /\ m.claims[<<r.task, s>>] = r.claims[s]
    <3>1. CASE r \in rows
      BY <1>1, <1>5, <3>1 DEF RowsFit, NothingAdmittedIsLost, JoinsAs, ch
    <3>2. ASSUME NEW t \in Sent, r = updates[t].row
          PROVE  /\ r.evidence \subseteq DOMAIN m.evidence
                 /\ \A s \in DOMAIN r.claims :
                      /\ <<r.task, s>> \in DOMAIN m.claims
                      /\ m.claims[<<r.task, s>>] = r.claims[s]
      <4>1. r.task = t
        BY <1>4, <3>2 DEF IsReport
      <4> QED BY <1>1, <3>2, <4>1 DEF JoinsAs
    <3> QED BY <1>2, <3>1, <3>2
  <2>7. ASSUME NEW r \in rows', r.failed, NEW e \in DOMAIN m.evidence
        PROVE  m.evidence[e] # r.task
    <3>1. CASE e \in DOMAIN ch.evidence
      <4>1. m.evidence[e] = ch.evidence[e] /\ ch.evidence[e] \in RowTasks
        BY <1>1, <1>5, <3>1 DEF JoinsAs, RowsFit, ch
      <4>2. CASE r \in rows
        BY <1>5, <2>7, <3>1, <4>1, <4>2 DEF RowsFit, FailedTasksOwnNothing, ch
      <4>3. ASSUME NEW t \in Sent, r = updates[t].row PROVE m.evidence[e] # r.task
        BY <1>3, <1>4, <4>1, <4>3 DEF IsReport
      <4> QED BY <1>2, <4>2, <4>3
    <3>2. CASE e \notin DOMAIN ch.evidence
      <4>1. PICK x \in Sent : e \in DOMAIN updates[x].ingest.evidence /\ m.evidence[e] = x
        BY <1>1, <3>2 DEF JoinsAs
      <4>2. CASE r \in rows
        BY <1>3, <4>1, <4>2 DEF RowTasks
      <4>3. ASSUME NEW t \in Sent, r = updates[t].row PROVE m.evidence[e] # r.task
        <5>1. r.task = t /\ DOMAIN updates[t].ingest.evidence = {}
          BY <1>4, <2>7, <4>3 DEF IsReport, OwnUpdate
        <5> QED BY <4>1, <5>1
      <4> QED BY <1>2, <4>2, <4>3
    <3> QED BY <3>1, <3>2
  <2>8. NothingAdmittedIsLost' /\ FailedTasksOwnNothing'
    BY <2>6, <2>7 DEF m, NothingAdmittedIsLost, FailedTasksOwnNothing
  <2> QED BY <1>1, <2>1, <2>2, <2>3, <2>4, <2>5, <2>8 DEF RowsFit, JoinsAs, m
<1>8. WaveFits'
  BY <1>2, <1>3 DEF WaveFits, Phases, Sent
<1>9. ValueFits'
  <2>1. ASSUME m.signal = 0 PROVE DOMAIN m.evidence \cap Authoritative = {}
    <3>1. ch.signal = 0 /\ \A t \in Sent : updates[t].ingest.signal = 0
      BY <1>1, <2>1 DEF JoinsAs
    <3>2. DOMAIN ch.evidence \cap Authoritative = {}
      BY <3>1 DEF IngestInductive, ValueFits, ch
    <3>3. \A t \in Sent : DOMAIN updates[t].ingest.evidence \cap Authoritative = {}
      BY <1>4, <3>1 DEF OwnUpdate
    <3>4. \A e \in DOMAIN m.evidence : e \in DOMAIN ch.evidence \/ \E t \in Sent : e \in DOMAIN updates[t].ingest.evidence
      BY <1>1 DEF JoinsAs
    <3> QED BY <3>2, <3>3, <3>4
  <2> QED BY <1>2, <2>1 DEF IngestInductive, ValueFits, LowValueMeansNoAuthority, m
<1> QED BY <1>7, <1>8, <1>9 DEF IngestInductive

\* The ledger up to its signal, which the coverage judge writes.
LEMMA LedgerStays ==
  ASSUME IngestInductive,
         UNCHANGED <<runEngine, wave, sends, updates, rows, ingested>>,
         DOMAIN updates = {}, channels' \in Channels,
         channels'.processed = channels.processed, channels'.evidence = channels.evidence,
         channels'.claims = channels.claims, channels'.support = channels.support,
         channels'.version = channels.version,
         phase' \in Phases, phase' # "execute", Sent = {},
         phase' # "supervisor" => wave > 0
  PROVE  RowsFit' /\ WaveFits'
<1>1. RowTasks' = RowTasks /\ Sent' = Sent
  BY DEF RowTasks, Sent
<1>2. NothingAdmittedIsLost' /\ FailedTasksOwnNothing'
  BY DEF IngestInductive, RowsFit, NothingAdmittedIsLost, FailedTasksOwnNothing
<1>3. RowsFit'
  BY <1>1, <1>2 DEF IngestInductive, RowsFit
<1>4. WaveFits'
  BY <1>1 DEF IngestInductive, WaveFits
<1> QED BY <1>3, <1>4

\* Whatever the fan-in joined has been ingested: the node finds nothing left.
LEMMA NothingUnprocessed ==
  ASSUME RowsFit
  PROVE  Unprocessed(channels, rows) = {}
BY DEF RowsFit, RowTasks, Unprocessed

LEMMA IngestFindingsSteps ==
  ASSUME IngestInductive, IngestFindings
  PROVE  IngestInductive' /\ channels' = channels
<1>1. /\ phase = "ingest_findings" /\ channels' = channels /\ phase' = "coverage_judge"
      /\ ingested' = [t \in Tasks |-> ingested[t] + Cardinality({r \in {} : r.task = t})]
      /\ UNCHANGED <<runEngine, wave, sends, updates, rows, lowValue>>
  BY NothingUnprocessed, Zenon DEF IngestFindings, IngestInductive
<1>2. \A t \in Tasks : Cardinality({r \in {} : r.task = t}) = 0
  <2>1. \A t \in Tasks : {r \in {} : r.task = t} = {}
    OBVIOUS
  <2> QED BY <2>1, FS_EmptySet
<1>3. ingested' = ingested
  BY <1>1, <1>2 DEF IngestInductive, RowsFit
<1>4. Sent = {} /\ DOMAIN updates = {} /\ wave > 0
  BY <1>1 DEF IngestInductive, WaveFits
<1>5. RowsFit' /\ WaveFits'
  BY <1>1, <1>3, <1>4, LedgerStays DEF IngestInductive, RowsFit, Phases
<1>6. ValueFits'
  BY <1>1 DEF IngestInductive, ValueFits, LowValueMeansNoAuthority
<1> QED BY <1>1, <1>5, <1>6 DEF IngestInductive

LEMMA CoverageJudgeSteps ==
  ASSUME IngestInductive, CoverageJudge
  PROVE  /\ IngestInductive'
         /\ channels'.evidence = channels.evidence /\ channels'.claims = channels.claims
         /\ channels'.version = channels.version
<1>1. /\ runEngine = "legacy" /\ phase = "coverage_judge"
      /\ channels' = [channels EXCEPT !.signal = MergeSignals(channels.signal, channels.signal)]
      /\ UNCHANGED <<runEngine, wave, sends, updates, rows, ingested>>
      /\ phase' \in {"synthesis", "supervisor"}
      /\ lowValue' = 0 \/ (channels.signal = 0 /\ lowValue' = lowValue + 1)
  <2>1. channels.signal \in Nat
    BY ChannelsAre, BoundsAssumption DEF IngestInductive, RowsFit
  <2> QED BY <2>1 DEF CoverageJudge
<1>2. channels \in Channels
  BY DEF IngestInductive, RowsFit
<1>3. channels.signal \in 0 .. MaxSignal
  BY <1>2, ChannelsAre
<1>4. /\ MergeSignals(channels.signal, channels.signal) \in 0 .. MaxSignal
      /\ MergeSignals(channels.signal, channels.signal) = 0 => channels.signal = 0
  BY <1>3, SignalsAddUp
<1>5. /\ channels' \in Channels
      /\ channels'.processed = channels.processed /\ channels'.evidence = channels.evidence
      /\ channels'.claims = channels.claims /\ channels'.support = channels.support
      /\ channels'.version = channels.version
      /\ channels'.signal = MergeSignals(channels.signal, channels.signal)
  BY <1>1, <1>2, <1>4 DEF Channels
<1>6. Sent = {} /\ DOMAIN updates = {} /\ wave > 0
  BY <1>1 DEF IngestInductive, WaveFits
<1>7. RowsFit' /\ WaveFits'
  BY <1>1, <1>5, <1>6, LedgerStays DEF Phases
<1>8. channels.signal = 0 => DOMAIN channels.evidence \cap Authoritative = {}
  BY DEF IngestInductive, ValueFits
<1>9. lowValue \in 0 .. wave /\ lowValue < wave /\ wave \in Nat
  BY <1>1 DEF IngestInductive, ValueFits, WaveFits
<1>10. ValueFits'
  BY <1>1, <1>4, <1>5, <1>8, <1>9 DEF ValueFits, LowValueMeansNoAuthority
<1> QED BY <1>5, <1>7, <1>10 DEF IngestInductive

LEMMA OtherStepsKeep ==
  ASSUME IngestInductive, CoverageJudgeV2 \/ Complete \/ UNCHANGED ingestVars
  PROVE  IngestInductive' /\ channels' = channels
<1>1. CASE CoverageJudgeV2
  <2>1. /\ runEngine = "v2" /\ phase = "coverage_judge" /\ phase' \in {"synthesis", "supervisor"}
        /\ UNCHANGED <<runEngine, wave, sends, updates, rows, channels, lowValue, ingested>>
    BY <1>1 DEF CoverageJudgeV2
  <2>2. Sent = {} /\ DOMAIN updates = {} /\ wave > 0 /\ channels \in Channels
    BY <2>1 DEF IngestInductive, WaveFits, RowsFit
  <2>3. RowsFit' /\ WaveFits'
    BY <2>1, <2>2, LedgerStays DEF Phases
  <2>4. ValueFits'
    BY <2>1 DEF IngestInductive, ValueFits, LowValueMeansNoAuthority
  <2> QED BY <2>1, <2>3, <2>4 DEF IngestInductive
<1>2. CASE Complete
  <2>1. /\ phase = "supervisor" /\ wave > 0 /\ phase' = "synthesis"
        /\ UNCHANGED <<runEngine, wave, sends, updates, rows, channels, lowValue, ingested>>
    BY <1>2 DEF Complete
  <2>2. Sent = {} /\ DOMAIN updates = {} /\ channels \in Channels
    BY <2>1 DEF IngestInductive, WaveFits, RowsFit
  <2>3. RowsFit' /\ WaveFits'
    BY <2>1, <2>2, LedgerStays DEF Phases
  <2>4. ValueFits'
    BY <2>1 DEF IngestInductive, ValueFits, LowValueMeansNoAuthority
  <2> QED BY <2>1, <2>3, <2>4 DEF IngestInductive
<1>3. CASE UNCHANGED ingestVars
  <2>1. UNCHANGED <<runEngine, phase, wave, sends, updates, rows, channels, lowValue, ingested>>
    BY <1>3 DEF ingestVars
  <2>2. RowsFit' /\ RowTasks' = RowTasks /\ Sent' = Sent
    BY <2>1, RowsStay DEF IngestInductive, WaveFits, Sent
  <2>3. WaveFits'
    BY <2>1, <2>2 DEF IngestInductive, WaveFits
  <2>4. ValueFits'
    BY <2>1 DEF IngestInductive, ValueFits, LowValueMeansNoAuthority
  <2> QED BY <2>1, <2>2, <2>3, <2>4 DEF IngestInductive
<1> QED BY <1>1, <1>2, <1>3

LEMMA IngestSteps == IngestInductive /\ [IngestNext]_ingestVars => IngestInductive'
BY DispatchSteps, WorkerReturnsSteps, FanInSteps, IngestFindingsSteps, CoverageJudgeSteps,
   OtherStepsKeep DEF IngestNext

LEMMA IngestHolds == IngestSpec => []IngestInductive
BY IngestStarts, IngestSteps, PTL DEF IngestSpec

LEMMA InductiveIsWhole == IngestInductive => LedgerIsWhole
<1> SUFFICES ASSUME IngestInductive PROVE LedgerIsWhole
  OBVIOUS
<1>1. LedgerTypeOK
  <2>1. \A t \in DOMAIN updates : updates[t].ingest \in Channels
    BY DEF IngestInductive, WaveFits, OwnUpdate
  <2>2. ingested \in [Tasks -> Nat]
    BY DEF IngestInductive, RowsFit
  <2> QED BY <2>1, <2>2 DEF LedgerTypeOK, IngestInductive, WaveFits, RowsFit, ValueFits, Sent
<1>2. IngestedOnce
  <2>1. \A t \in Tasks : ingested[t] = IF t \in RowTasks THEN 1 ELSE 0
    BY DEF IngestInductive, RowsFit
  <2>2. \A r \in rows : r.task \in RowTasks /\ r.task \in Tasks
    BY DEF IngestInductive, RowsFit, RowTasks
  <2> QED BY <2>1, <2>2 DEF IngestedOnce
<1>3. CitedEvidenceHasAnEdge
  BY DEF IngestInductive, RowsFit, EdgesFit, CitedEvidenceHasAnEdge
<1> QED BY <1>1, <1>2, <1>3 DEF LedgerIsWhole, IngestInductive, RowsFit, ValueFits

\* Every row of a joined wave is ingested once, what was admitted under it
\* survives siblings and later waves with an edge to a claim that cites it, a
\* failed task owns nothing, and rounds of low value mean what they say.
THEOREM LedgerStaysWhole == IngestSpec => []LedgerIsWhole
BY IngestHolds, InductiveIsWhole, PTL

-----------------------------------------------------------------------------
(* What a step does to the ledger.                                         *)

Grown ==
  /\ \A e \in DOMAIN channels.evidence :
       e \in DOMAIN channels'.evidence /\ channels'.evidence[e] = channels.evidence[e]
  /\ channels.version \subseteq channels'.version
  /\ channels'.version \subseteq DOMAIN channels'.evidence
  /\ \A a \in DOMAIN channels'.claims \ DOMAIN channels.claims, b \in DOMAIN channels'.claims :
       Disagree(a, b) /\ (b \in DOMAIN channels.claims \/ a[1] = b[1])
         => {a, b} \in channels'.conflicts

LEMMA KeptIsGrown ==
  ASSUME IngestInductive, channels'.evidence = channels.evidence,
         channels'.claims = channels.claims, channels'.version = channels.version
  PROVE  Grown
BY DEF Grown, IngestInductive, RowsFit

LEMMA FanInGrows ==
  ASSUME IngestInductive, FanIn
  PROVE  Grown
<1>1. JoinsAs(channels, channels')
  BY FanInJoins
<1>2. ASSUME NEW a \in DOMAIN channels'.claims \ DOMAIN channels.claims,
             NEW b \in DOMAIN channels'.claims,
             Disagree(a, b), b \in DOMAIN channels.claims \/ a[1] = b[1]
      PROVE  {a, b} \in channels'.conflicts
  <2>1. PICK t \in Sent : a \in DOMAIN updates[t].ingest.claims /\ a[1] = t
    BY <1>1 DEF JoinsAs
  <2>2. OwnUpdate(t, updates[t].row, updates[t].ingest, channels)
    BY DEF IngestInductive, WaveFits, FanIn, Sent
  <2>3. b \in DOMAIN channels.claims \/ b \in DOMAIN updates[t].ingest.claims
    <3>1. CASE b \notin DOMAIN channels.claims
      <4>1. PICK x \in Sent : b \in DOMAIN updates[x].ingest.claims /\ b[1] = x
        BY <1>1, <3>1 DEF JoinsAs
      <4> QED BY <1>2, <2>1, <3>1, <4>1
    <3> QED BY <3>1
  <2>4. {a, b} \in updates[t].ingest.conflicts
    BY <1>2, <2>1, <2>2, <2>3 DEF OwnUpdate
  <2> QED BY <1>1, <2>4 DEF JoinsAs
<1> QED BY <1>1, <1>2 DEF JoinsAs, Grown

LEMMA StepsGrow == IngestInductive /\ [IngestNext]_ingestVars => Grown
<1> SUFFICES ASSUME IngestInductive, [IngestNext]_ingestVars PROVE Grown
  OBVIOUS
<1>1. CASE Dispatch \/ (\E t \in Tasks : WorkerReturns(t))
  <2>1. channels' = channels
    BY <1>1 DEF Dispatch, WorkerReturns
  <2> QED BY <2>1, KeptIsGrown
<1>2. CASE FanIn
  BY <1>2, FanInGrows
<1>3. CASE IngestFindings
  BY <1>3, IngestFindingsSteps, KeptIsGrown
<1>4. CASE CoverageJudge
  BY <1>4, CoverageJudgeSteps, KeptIsGrown
<1>5. CASE CoverageJudgeV2 \/ Complete \/ UNCHANGED ingestVars
  BY <1>5, OtherStepsKeep, KeptIsGrown
<1> QED BY <1>1, <1>2, <1>3, <1>4, <1>5 DEF IngestNext

\* Waves only add to the ledger: records keep their owners, the version keeps
\* what it named, and a claim is compared with those it finds.
THEOREM LedgerOnlyGrows == IngestSpec => LedgerGrows
<1>1. IngestInductive /\ [IngestNext]_ingestVars =>
        [/\ \A e \in DOMAIN channels.evidence :
              /\ e \in DOMAIN channels'.evidence
              /\ channels'.evidence[e] = channels.evidence[e]]_ingestVars
  BY StepsGrow DEF Grown
<1>2. IngestInductive /\ [IngestNext]_ingestVars =>
        [/\ channels.version \subseteq channels'.version
         /\ channels'.version \subseteq DOMAIN channels'.evidence]_ingestVars
  BY StepsGrow DEF Grown
<1>3. IngestInductive /\ [IngestNext]_ingestVars =>
        [\A a \in DOMAIN channels'.claims \ DOMAIN channels.claims,
            b \in DOMAIN channels'.claims :
           Disagree(a, b) /\ (b \in DOMAIN channels.claims \/ a[1] = b[1])
             => {a, b} \in channels'.conflicts]_ingestVars
  BY StepsGrow DEF Grown
<1>4. IngestSpec => RecordsAreStable
  BY <1>1, IngestHolds, PTL DEF RecordsAreStable, IngestSpec
<1>5. IngestSpec => VersionsGrow
  BY <1>2, IngestHolds, PTL DEF VersionsGrow, IngestSpec
<1>6. IngestSpec => KnownConflictsAreFound
  BY <1>3, IngestHolds, PTL DEF KnownConflictsAreFound, IngestSpec
<1> QED BY <1>4, <1>5, <1>6 DEF LedgerGrows
=============================================================================
