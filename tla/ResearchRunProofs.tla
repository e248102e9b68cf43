--------------------------- MODULE ResearchRunProofs ---------------------------
(***************************************************************************)
(* Proofs about ResearchRun, for every set of queries, of key questions,   *)
(* of evidence and of claims: the asks of a query are planned, what the    *)
(* brief requires governs the judgement of the evidence, sufficiency is    *)
(* earned, and the end of research is honest.                              *)
(***************************************************************************)
EXTENDS ResearchRun, SequenceTheorems, FiniteSetTheorems, WellFoundedInduction, TLAPS

-----------------------------------------------------------------------------
(* From the query to the first wave.                                       *)

AskRecord == [named : BOOLEAN, worded : BOOLEAN]
AsksFit == asks \in Seq(AskRecord)
Worded == {i \in DOMAIN asks : asks[i].worded}

\* Before a brief is accepted and after it was handed over there is none.
Briefed == {"understood", "brief", "baseline", "planned", "sent", "supervisor"}

\* A brief is the fallback in the user's words, or went through the gate.
GoodDraft(b) ==
  /\ Len(b.questions) \in 0 .. MaxQuestions
  /\ \E S : b.questions \in Seq(S)
  /\ Asked(b) \subseteq DOMAIN asks
  /\ b.from \in {"query", "model"}
  /\ b.from = "query" /\ Len(asks) <= MaxQuestions => Worded \subseteq Asked(b)
  /\ b.from = "model" => Faithful(b)
  /\ b.lookup => Len(b.questions) = 1
  /\ terms.primary => b.primary
  /\ b.sources \in {1, 2}

\* The small values of the start; the rest of its types follow from StartFits.
StartTypes ==
  /\ stage \in {"bootstrap", "understand", "asking", "understood", "brief", "baseline",
               "planned", "sent", "supervisor", "cancelled", "researching"}
  /\ mode \in Modes /\ engine \in {"legacy", "contract"}
  /\ terms \in [primary : BOOLEAN, sources : {1, 2}, fresh : BOOLEAN, atomic : BOOLEAN]
  /\ attempt \in 0 .. MaxAttempts
  /\ tools \in Modes \cup {"none", "contract", "three"} /\ width \in {"one", "some"}

LEMMA AsksFacts ==
  ASSUME AsksFit
  PROVE  /\ Len(asks) \in Nat /\ DOMAIN asks = 1 .. Len(asks)
         /\ \A i \in DOMAIN asks : asks[i] \in AskRecord
  BY DEF AsksFit

\* The cut of a sequence keeps its first questions.
LEMMA CutFacts ==
  ASSUME NEW S, NEW qs \in Seq(S)
  PROVE  /\ Len(Cut(qs)) \in 0 .. MaxQuestions
         /\ Cut(qs) \in Seq(S) /\ DOMAIN Cut(qs) = 1 .. Len(Cut(qs))
         /\ \A k \in DOMAIN Cut(qs) : k \in DOMAIN qs /\ Cut(qs)[k] = qs[k]
         /\ Len(qs) <= MaxQuestions => Cut(qs) = qs
<1> DEFINE n == IF Len(qs) < MaxQuestions THEN Len(qs) ELSE MaxQuestions
<1>1. n \in Nat /\ n <= Len(qs) /\ n <= MaxQuestions /\ Len(qs) \in Nat
  BY StartAssumption
<1>2. Cut(qs) = SubSeq(qs, 1, n)
  BY DEF Cut
<1>3. /\ SubSeq(qs, 1, n) \in Seq(S) /\ Len(SubSeq(qs, 1, n)) = n
      /\ \A i \in 1 .. n : SubSeq(qs, 1, n)[i] = qs[i]
  BY <1>1
<1>4. Len(qs) <= MaxQuestions => Cut(qs) = qs
  <2>1. Len(qs) <= MaxQuestions => n = Len(qs)
    BY <1>1, StartAssumption
  <2> QED BY <1>2, <1>3, <2>1
<1> QED BY <1>1, <1>2, <1>3, <1>4, StartAssumption

\* A number's place in a finite set is its own, and every place is taken.
Place(S, i) == Cardinality({j \in S : j <= i})

LEMMA NthFacts ==
  ASSUME NEW S, S \subseteq Nat, IsFiniteSet(S)
  PROVE  /\ Cardinality(S) \in Nat
         /\ \A i \in S : Place(S, i) \in 1 .. Cardinality(S) /\ Nth(S, Place(S, i)) = i
         /\ \A k \in 1 .. Cardinality(S) : Nth(S, k) \in S
<1> DEFINE n == Cardinality(S)
           upto(i) == {j \in S : j <= i}
<1>1. n \in Nat
  BY FS_CardinalityType
<1>2. ASSUME NEW i \in S
      PROVE  IsFiniteSet(upto(i)) /\ Place(S, i) \in 1 .. n
  <2>1. upto(i) \in SUBSET S /\ i \in upto(i)
    OBVIOUS
  <2>2. IsFiniteSet(upto(i)) /\ Cardinality(upto(i)) <= n
    BY <2>1, FS_Subset
  <2>3. Cardinality(upto(i)) \in Nat /\ Cardinality(upto(i)) # 0
    BY <2>1, <2>2, FS_CardinalityType, FS_EmptySet
  <2> QED BY <1>1, <2>2, <2>3 DEF Place
<1>3. ASSUME NEW i \in S, NEW j \in S, i < j
      PROVE  Place(S, i) # Place(S, j)
  <2>0. i \in Nat /\ j \in Nat /\ \A x \in S : x \in Nat
    OBVIOUS
  <2>1. \A x \in S : x <= i => x <= j
    BY <1>3, <2>0
  <2>2. j <= j /\ ~(j <= i)
    BY <1>3, <2>0
  <2>3. upto(i) \subseteq upto(j) /\ j \in upto(j) /\ j \notin upto(i)
    BY <2>1, <2>2
  <2>4. Cardinality(upto(i)) # Cardinality(upto(j))
    BY <1>2, <2>3, FS_Subset
  <2> QED BY <2>4 DEF Place
<1>4. \A i, j \in S : Place(S, i) = Place(S, j) => i = j
  BY <1>3
<1> DEFINE f == [i \in S |-> Place(S, i)]
<1>5. f \in Injection(S, 1 .. n)
  BY <1>2, <1>4 DEF Injection, IsInjective
<1>6. IsFiniteSet(1 .. n) /\ Cardinality(1 .. n) = n
  BY <1>1, FS_Interval
<1>7. f \in Surjection(S, 1 .. n)
  <2> HIDE DEF f
  <2> QED BY <1>5, <1>6, FS_Injection
<1>8. ASSUME NEW k \in 1 .. n PROVE \E i \in S : Place(S, i) = k
  BY <1>7 DEF Surjection
<1>9. ASSUME NEW i \in S PROVE Nth(S, Place(S, i)) = i
  BY <1>4 DEF Nth, Place
<1>10. ASSUME NEW k \in 1 .. n PROVE Nth(S, k) \in S
  <2>1. PICK i \in S : Place(S, i) = k
    BY <1>8
  <2> QED BY <1>9, <2>1
<1> QED BY <1>1, <1>2, <1>9, <1>10

\* The asks with words, verbatim: no more and no fewer.
LEMMA InWordsFacts ==
  ASSUME AsksFit, NEW S, S \subseteq DOMAIN asks
  PROVE  /\ InWords(S) \in Seq([ask : DOMAIN asks, subject : BOOLEAN])
         /\ \A i \in S : asks[i].worded => \E k \in DOMAIN InWords(S) : InWords(S)[k].ask = i
<1> DEFINE spoken == {i \in S : asks[i].worded}
<1>1. spoken \subseteq Nat /\ IsFiniteSet(spoken) /\ spoken \subseteq DOMAIN asks
  <2>1. IsFiniteSet(DOMAIN asks) /\ DOMAIN asks \subseteq Nat
    BY AsksFacts, FS_Interval
  <2>2. spoken \in SUBSET DOMAIN asks
    OBVIOUS
  <2> QED BY <2>1, <2>2, FS_Subset
<1>2. InWords(S) = [k \in 1 .. Cardinality(spoken) |-> Verbatim(Nth(spoken, k))]
  BY DEF InWords
<1>3. \A i \in spoken : i \in S /\ asks[i].worded
  OBVIOUS
<1>4. \A i \in S : asks[i].worded => i \in spoken
  OBVIOUS
<1> HIDE DEF spoken
<1>5. /\ Cardinality(spoken) \in Nat
      /\ \A i \in spoken : Place(spoken, i) \in 1 .. Cardinality(spoken)
                           /\ Nth(spoken, Place(spoken, i)) = i
      /\ \A k \in 1 .. Cardinality(spoken) : Nth(spoken, k) \in spoken
  BY <1>1, NthFacts
<1>6. ASSUME NEW i \in DOMAIN asks
      PROVE  Verbatim(i) \in [ask : DOMAIN asks, subject : BOOLEAN] /\ Verbatim(i).ask = i
  BY AsksFacts DEF Verbatim, AskRecord
<1>7. InWords(S) \in Seq([ask : DOMAIN asks, subject : BOOLEAN])
  <2> DEFINE R == [ask : DOMAIN asks, subject : BOOLEAN]
             n == Cardinality(spoken)
             v(k) == Verbatim(Nth(spoken, k))
  <2>1. n \in Nat
    BY <1>5
  <2>2. \A k \in 1 .. n : v(k) \in R
    BY <1>1, <1>5, <1>6
  <2>3. InWords(S) = [k \in 1 .. n |-> v(k)]
    BY <1>2
  <2> HIDE DEF R, n, v
  <2>4. InWords(S) \in Seq(R)
    BY <2>1, <2>2, <2>3
  <2> QED BY <2>4 DEF R
<1>8. ASSUME NEW i \in spoken
      PROVE  \E k \in DOMAIN InWords(S) : InWords(S)[k].ask = i
  <2>1. Place(spoken, i) \in DOMAIN InWords(S)
    BY <1>2, <1>5
  <2>2. InWords(S)[Place(spoken, i)] = Verbatim(i)
    BY <1>2, <1>5
  <2>3. i \in DOMAIN asks
    BY <1>1
  <2> QED BY <1>6, <2>1, <2>2, <2>3
<1> QED BY <1>4, <1>7, <1>8

LEMMA InWordsLength ==
  ASSUME AsksFit
  PROVE  Len(InWords(DOMAIN asks)) <= Len(asks)
<1> DEFINE spoken == {i \in DOMAIN asks : asks[i].worded}
<1>0. Len(asks) \in Nat /\ DOMAIN asks = 1 .. Len(asks)
  BY AsksFacts
<1>1. IsFiniteSet(DOMAIN asks) /\ Cardinality(DOMAIN asks) = Len(asks) /\ Len(asks) \in Nat
  <2>1. IsFiniteSet(1 .. Len(asks)) /\ Cardinality(1 .. Len(asks)) = Len(asks)
    <3> DEFINE n == Len(asks)
    <3>1. n \in Nat
      BY <1>0
    <3> HIDE DEF n
    <3>2. IsFiniteSet(1 .. n) /\ Cardinality(1 .. n) = n
      BY <3>1, FS_Interval
    <3> QED BY <3>2 DEF n
  <2> QED BY <1>0, <2>1, Zenon
<1>2. spoken \subseteq DOMAIN asks
  OBVIOUS
<1> HIDE DEF spoken
<1>3. IsFiniteSet(spoken) /\ Cardinality(spoken) <= Len(asks) /\ Cardinality(spoken) \in Nat
  BY <1>1, <1>2, FS_Subset, FS_CardinalityType
<1>4. InWords(DOMAIN asks) = [k \in 1 .. Cardinality(spoken) |-> Verbatim(Nth(spoken, k))]
  BY DEF InWords, spoken
<1>5. InWords(DOMAIN asks) \in Seq([ask : DOMAIN asks, subject : BOOLEAN])
  BY InWordsFacts
<1> HIDE DEF spoken
<1>6. Len(InWords(DOMAIN asks)) = Cardinality(spoken)
  <2>1. DOMAIN InWords(DOMAIN asks) = 1 .. Cardinality(spoken)
    BY <1>4
  <2> HIDE DEF spoken
  <2> QED BY <1>3, <1>5, <2>1, LenProperties
<1> QED BY <1>3, <1>6

LEMMA FallbackGood ==
  ASSUME AsksFit, asks # << >>, StartTypes
  PROVE  GoodDraft(Fallback)
<1> DEFINE own == InWords(DOMAIN asks)
           S == [ask : DOMAIN asks, subject : BOOLEAN]
           qs == IF Cut(own) = << >> THEN <<[ask |-> 1, subject |-> TRUE]>> ELSE Cut(own)
<1>1. own \in Seq(S) /\ \A i \in Worded : \E k \in DOMAIN own : own[k].ask = i
  BY InWordsFacts DEF Worded
<1>2. /\ Fallback.questions = qs /\ Fallback.from = "query" /\ Fallback.primary = terms.primary
      /\ Fallback.lookup = (terms.atomic /\ Len(qs) = 1) /\ Fallback.sources = terms.sources
  BY DEF Fallback
<1>3. 1 \in DOMAIN asks
  BY AsksFacts
<1> HIDE DEF own, S
<1>4. /\ Len(Cut(own)) \in 0 .. MaxQuestions /\ Cut(own) \in Seq(S)
      /\ DOMAIN Cut(own) = 1 .. Len(Cut(own))
      /\ Len(own) <= MaxQuestions => Cut(own) = own
  BY <1>1, CutFacts
<1>5. qs \in Seq(S) /\ Len(qs) \in 0 .. MaxQuestions
  <2> DEFINE one == [ask |-> 1, subject |-> TRUE]
  <2>1. one \in S
    BY <1>3 DEF S
  <2>2. CASE Cut(own) = << >>
    <3>1. qs = <<one>>
      BY <2>2
    <3> HIDE DEF one, qs
    <3>2. <<one>> \in Seq(S) /\ Len(<<one>>) = 1
      BY <2>1
    <3>3. 1 \in 0 .. MaxQuestions
      BY StartAssumption
    <3> QED BY <3>1, <3>2, <3>3
  <2>3. CASE Cut(own) # << >>
    BY <1>4, <2>3
  <2> QED BY <2>2, <2>3
<1>6. Asked(Fallback) \subseteq DOMAIN asks
  <2>1. Asked(Fallback) = {qs[k].ask : k \in DOMAIN qs}
    BY <1>2 DEF Asked
  <2> HIDE DEF qs
  <2>2. \A k \in DOMAIN qs : qs[k] \in S
    BY <1>5
  <2>3. \A x \in S : x.ask \in DOMAIN asks
    BY DEF S
  <2> QED BY <2>1, <2>2, <2>3
<1>7. ASSUME Len(asks) <= MaxQuestions PROVE Worded \subseteq Asked(Fallback)
  <2>1. Len(own) <= Len(asks)
    BY InWordsLength DEF own
  <2>2. Cut(own) = own
    BY <1>1, <1>4, <1>7, <2>1, AsksFacts, StartAssumption
  <2>3. ASSUME NEW i \in Worded PROVE i \in Asked(Fallback)
    <3>1. PICK k \in DOMAIN own : own[k].ask = i
      BY <1>1
    <3>2. qs = own
      BY <1>1, <2>2, <3>1
    <3> QED BY <1>2, <3>1, <3>2 DEF Asked
  <2> QED BY <2>3
<1>8. \E T : Fallback.questions \in Seq(T)
  BY <1>2, <1>5, Zenon
<1>9. terms.sources \in {1, 2} /\ terms.primary \in BOOLEAN
  BY DEF StartTypes
<1> QED BY <1>2, <1>5, <1>6, <1>7, <1>8, <1>9 DEF GoodDraft

\* The questions of the model's brief, whatever it answered, are a sequence cut
\* to the limit.
LEMMA AlignedFacts ==
  ASSUME AsksFit, NEW answer \in Answers
  PROVE  /\ Len(Aligned(answer.questions)) \in 0 .. MaxQuestions
         /\ \E T : Aligned(answer.questions) \in Seq(T)
<1> DEFINE S == [ask : DOMAIN asks, subject : BOOLEAN]
           qs == answer.questions
           unmapped == {i \in DOMAIN asks : \A k \in DOMAIN qs : qs[k].ask # i}
<1>1. qs \in Seq(S)
  <2>1. PICK n \in 0 .. MaxAnswer : qs \in [1 .. n -> S]
    BY DEF Answers, SeqOf
  <2>2. n \in Nat
    BY StartAssumption
  <2> HIDE DEF qs, S
  <2> QED BY <2>1, <2>2
<1>2. InWords(unmapped) \in Seq(S)
  BY InWordsFacts
<1>3. Aligned(qs) = Cut(qs \o InWords(unmapped))
  BY DEF Aligned
<1> HIDE DEF qs, S, unmapped
<1>4. qs \o InWords(unmapped) \in Seq(S)
  BY <1>1, <1>2
<1>5. Aligned(qs) \in Seq(S) /\ Len(Aligned(qs)) \in 0 .. MaxQuestions
  BY <1>3, <1>4, CutFacts
<1> QED BY <1>5, Zenon DEF qs

LEMMA CandidateGood ==
  ASSUME AsksFit, asks # << >>, StartTypes, NEW answer \in Answers,
         Faithful(Candidate(answer))
  PROVE  GoodDraft(Candidate(answer))
<1>1. CASE ~answer.shaped
  BY <1>1, FallbackGood DEF Candidate
<1>2. CASE answer.shaped
  <2> DEFINE b == Candidate(answer)
  <2>1. /\ b.questions = Aligned(answer.questions) /\ b.from = "model"
        /\ b.sources = answer.sources /\ b.primary = (Fallback.primary \/ answer.primary)
        /\ b.lookup = (answer.lookup /\ Len(b.questions) = 1)
    BY <1>2 DEF Candidate, Brief
  <2>2. Fallback.primary = terms.primary
    BY DEF Fallback
  <2>3. answer.sources \in {1, 2}
    BY DEF Answers
  <2>4. Asked(b) = DOMAIN asks
    BY DEF Faithful
  <2> HIDE DEF b
  <2>5. Len(b.questions) \in 0 .. MaxQuestions /\ \E T : b.questions \in Seq(T)
    BY <2>1, AlignedFacts
  <2>6. Faithful(b)
    BY DEF b
  <2> QED BY <2>1, <2>2, <2>3, <2>4, <2>5, <2>6 DEF GoodDraft, b
<1> QED BY <1>1, <1>2

\* The steps ask what the brief asks, or under the contract what the user asked.
LEMMA StepsFacts ==
  ASSUME AsksFit, NEW b, GoodDraft(b)
  PROVE  /\ {Steps(b)[k].ask : k \in DOMAIN Steps(b)} =
              (IF engine = "contract" THEN DOMAIN asks ELSE Asked(b))
         /\ engine # "contract" =>
              {Steps(b)[k].ask : k \in {k \in DOMAIN Steps(b) : Steps(b)[k].subject}}
                = KeepsSubject(b)
         /\ FastPath(b) => Len(Steps(b)) = 1 /\ Steps(b)[1].lookup
         /\ Len(Steps(b)) = 1 /\ Steps(b)[1].lookup => FastPath(b)
<1> DEFINE qs == IF engine = "contract" THEN [i \in DOMAIN asks |-> Verbatim(i)] ELSE b.questions
<1>1. PICK n \in Nat : /\ DOMAIN qs = 1 .. n
                       /\ engine # "contract" => n = Len(b.questions)
  <2>1. CASE engine = "contract"
    BY <2>1, AsksFacts
  <2>2. CASE engine # "contract"
    <3>1. PICK S : b.questions \in Seq(S)
      BY DEF GoodDraft
    <3> QED BY <2>2, <3>1
  <2> QED BY <2>1, <2>2
<1>2. Steps(b) = [k \in DOMAIN qs |-> [ask |-> qs[k].ask, subject |-> qs[k].subject,
                                        lookup |-> FastPath(b) /\ k = 1]]
  BY DEF Steps
<1>3. engine = "contract" => DOMAIN qs = DOMAIN asks /\ \A k \in DOMAIN qs : qs[k].ask = k
  BY DEF Verbatim
<1>4. engine # "contract" => qs = b.questions
  OBVIOUS
<1> HIDE DEF qs
<1>5. /\ DOMAIN Steps(b) = 1 .. n /\ DOMAIN qs = 1 .. n
      /\ \A k \in 1 .. n : /\ Steps(b)[k].ask = qs[k].ask /\ Steps(b)[k].subject = qs[k].subject
                           /\ Steps(b)[k].lookup = (FastPath(b) /\ k = 1)
  BY <1>1, <1>2
<1>6. Len(Steps(b)) = n
  <2> DEFINE T == {Steps(b)[k] : k \in 1 .. n}
             f == Steps(b)
  <2>1. f = [k \in 1 .. n |-> f[k]] /\ \A k \in 1 .. n : f[k] \in T
    BY <1>1, <1>2
  <2> HIDE DEF T, f
  <2>2. f \in Seq(T) /\ DOMAIN f = 1 .. n
    BY <1>1, <2>1
  <2>3. Len(f) = n
    BY <1>1, <2>2
  <2> QED BY <2>3 DEF f
<1>7. {Steps(b)[k].ask : k \in DOMAIN Steps(b)} =
        (IF engine = "contract" THEN DOMAIN asks ELSE Asked(b))
  <2>1. {Steps(b)[k].ask : k \in DOMAIN Steps(b)} = {qs[k].ask : k \in DOMAIN qs}
    BY <1>5
  <2>2. CASE engine = "contract"
    BY <1>3, <2>1, <2>2
  <2>3. CASE engine # "contract"
    BY <1>4, <2>1, <2>3 DEF Asked
  <2> QED BY <2>2, <2>3
<1>8. engine # "contract" =>
        {Steps(b)[k].ask : k \in {k \in DOMAIN Steps(b) : Steps(b)[k].subject}} = KeepsSubject(b)
  <2>1. {k \in DOMAIN Steps(b) : Steps(b)[k].subject} = {k \in DOMAIN qs : qs[k].subject}
    BY <1>5
  <2>2. {Steps(b)[k].ask : k \in {k \in DOMAIN Steps(b) : Steps(b)[k].subject}}
          = {qs[k].ask : k \in {k \in DOMAIN qs : qs[k].subject}}
    BY <1>5, <2>1
  <2> QED BY <1>4, <2>2 DEF KeepsSubject
<1>9. FastPath(b) => n = 1
  BY <1>1 DEF FastPath, GoodDraft
<1>10. n = 1 => Steps(b)[1].lookup = FastPath(b)
  BY <1>5 DEF FastPath
<1> QED BY <1>6, <1>7, <1>8, <1>9, <1>10
-----------------------------------------------------------------------------
(* The start of a run.                                                     *)

Planned == {"planned", "sent", "supervisor"}

\* What is known of the brief and the plan at every stage.
StartFits ==
  /\ AsksFit /\ (stage # "researching" => asks # << >>)
  /\ stage \in {"bootstrap", "understand"} => attempt = 0
  /\ IF stage \in Briefed THEN GoodDraft(draft) ELSE draft = NoDraft
  /\ plan = IF stage \in Planned THEN Steps(draft) ELSE << >>
  /\ stage \in {"bootstrap", "understand", "asking", "understood"} => tools # "three"
  /\ stage \in {"brief"} \cup Planned => (tools = "three" <=> FastPath(draft))

LEMMA StartTypesSuffice ==
  ASSUME StartFits, StartTypes
  PROVE  StartTypeOK
<1>1. \A i \in DOMAIN asks : asks[i] \in [named : BOOLEAN, worded : BOOLEAN]
  BY AsksFacts DEF StartFits, AskRecord
<1>2. Len(draft.questions) <= MaxQuestions /\ Asked(draft) \subseteq DOMAIN asks
  <2>1. CASE stage \in Briefed
    BY <2>1, StartAssumption DEF StartFits, GoodDraft
  <2>2. CASE stage \notin Briefed
    <3>1. draft.questions = << >>
      BY <2>2 DEF StartFits, NoDraft
    <3> QED BY <3>1, StartAssumption DEF Asked
  <2> QED BY <2>1, <2>2
<1>3. {plan[k].ask : k \in DOMAIN plan} \subseteq DOMAIN asks
  <2>1. CASE stage \in Planned
    <3>1. plan = Steps(draft) /\ GoodDraft(draft) /\ AsksFit
      BY <2>1 DEF StartFits, Planned, Briefed
    <3>2. {plan[k].ask : k \in DOMAIN plan} =
            (IF engine = "contract" THEN DOMAIN asks ELSE Asked(draft))
      BY <3>1, StepsFacts
    <3> QED BY <1>2, <3>2
  <2>2. CASE stage \notin Planned
    BY <2>2 DEF StartFits
  <2> QED BY <2>1, <2>2
<1> QED BY <1>1, <1>2, <1>3 DEF StartTypes, StartTypeOK

\* What is sent asks what the user asked, and the cap is that of the plan.
LEMMA StartKeepsWord ==
  ASSUME StartFits, StartTypes
  PROVE  AskedIsPlanned /\ CapMatchesPlan
<1> SUFFICES ASSUME stage = "sent" PROVE AskedIsPlanned /\ CapMatchesPlan
  BY DEF AskedIsPlanned, CapMatchesPlan
<1>1. plan = Steps(draft) /\ GoodDraft(draft) /\ AsksFit /\ (tools = "three" <=> FastPath(draft))
  BY DEF StartFits, Planned, Briefed
<1>2. CapMatchesPlan
  <2>1. Len(plan) = 1 /\ plan[1].lookup <=> FastPath(draft)
    BY <1>1, StepsFacts
  <2> QED BY <1>1, <2>1 DEF CapMatchesPlan
<1>3. ASSUME engine = "contract" \/ Len(asks) <= MaxQuestions
      PROVE  /\ Worded \subseteq {plan[k].ask : k \in DOMAIN plan}
             /\ engine = "contract" \/ draft.from = "model" =>
                  {plan[k].ask : k \in DOMAIN plan} = DOMAIN asks
  <2>1. /\ Worded \subseteq Asked(draft) \/ engine = "contract"
        /\ draft.from = "model" => Asked(draft) = DOMAIN asks
    BY <1>1, <1>3 DEF GoodDraft, Faithful, Worded
  <2>2. {plan[k].ask : k \in DOMAIN plan} =
          (IF engine = "contract" THEN DOMAIN asks ELSE Asked(draft))
    BY <1>1, StepsFacts
  <2>3. Worded \subseteq DOMAIN asks
    BY DEF Worded
  <2> QED BY <2>1, <2>2, <2>3
<1>4. ASSUME engine = "legacy", draft.from = "model"
      PROVE  5 * Cardinality({plan[k].ask : k \in {k \in DOMAIN plan : plan[k].subject}})
               >= 4 * Len(asks)
  <2>1. {plan[k].ask : k \in {k \in DOMAIN plan : plan[k].subject}} = KeepsSubject(draft)
    BY <1>1, <1>4, StepsFacts
  <2>2. 5 * Cardinality(KeepsSubject(draft)) >= 4 * Len(asks)
    BY <1>1, <1>4 DEF GoodDraft, Faithful
  <2> QED BY <2>1, <2>2
<1> QED BY <1>2, <1>3, <1>4 DEF AskedIsPlanned, Worded

\* A brief that was good for the asks stays so.
LEMMA DraftCarried ==
  ASSUME asks' = asks, terms' = terms, NEW b, GoodDraft(b), draft' = b
  PROVE  GoodDraft(draft)'
<1>1. terms' = terms /\ DOMAIN asks' = DOMAIN asks /\ Len(asks') = Len(asks) /\ Worded' = Worded
  BY DEF Worded
<1>2. Asked(draft)' = Asked(b) /\ KeepsSubject(draft)' = KeepsSubject(b)
  BY DEF Asked, KeepsSubject
<1>3. Faithful(draft)' <=> Faithful(b)
  BY <1>1, <1>2 DEF Faithful
<1> QED BY <1>1, <1>2, <1>3 DEF GoodDraft

\* A set of numbers that is not empty has a least one.
LEMMA NatsHaveLeast ==
  ASSUME NEW T, T \subseteq Nat, T # {}
  PROVE  \E x \in T : \A y \in T : x <= y
<1>1. PICK x \in T : \A y \in T : ~(<<y, x>> \in OpToRel(<, Nat))
  BY NatLessThanWellFounded, WFMin, Zenon
<1>2. ASSUME NEW y \in T, y < x PROVE <<y, x>> \in OpToRel(<, Nat)
  BY <1>2 DEF OpToRel
<1>3. \A y \in T : ~(y < x)
  BY <1>1, <1>2
<1> QED BY <1>3

\* Every set of numbers that holds zero and the successor of each of its members
\* holds every number.
LEMMA SetInduction ==
  ASSUME NEW S, S \subseteq Nat, 0 \in S, \A n \in S : n + 1 \in S
  PROVE  S = Nat
<1> SUFFICES ASSUME NEW k \in Nat \ S PROVE FALSE
  OBVIOUS
<1>1. PICK x \in Nat \ S : \A y \in Nat \ S : x <= y
  BY NatsHaveLeast
<1>2. x - 1 \in Nat
  OBVIOUS
<1>3. x - 1 \in S
  BY <1>1, <1>2
<1> QED BY <1>2, <1>3

\* The clauses of a query are taken one after the other.
Taking(g, q, n) ==
  g = [i \in 0 .. n |-> IF i = 0 THEN << >> ELSE Taken(g[i - 1], q[i])]

LEMMA TakingExists ==
  ASSUME NEW q, NEW n \in Nat
  PROVE  \E g : Taking(g, q, n)
<1> DEFINE S == {m \in Nat : \E g : Taking(g, q, m)}
<1>1. 0 \in S
  <2>1. Taking([i \in 0 .. 0 |-> << >>], q, 0)
    BY DEF Taking
  <2> QED BY <2>1
<1>2. ASSUME NEW m \in S PROVE m + 1 \in S
  <2>1. PICK g : Taking(g, q, m)
    OBVIOUS
  <2> DEFINE h == [i \in 0 .. m + 1 |-> IF i = m + 1 THEN Taken(g[m], q[m + 1]) ELSE g[i]]
  <2>2. Taking(h, q, m + 1)
    <3>1. ASSUME NEW i \in 0 .. m + 1
          PROVE  h[i] = IF i = 0 THEN << >> ELSE Taken(h[i - 1], q[i])
      <4>0. m \in Nat
        OBVIOUS
      <4>1. CASE i = m + 1
        BY <4>0, <4>1
      <4>2. CASE i # m + 1
        <5>1. i \in 0 .. m /\ h[i] = g[i] /\ (i # 0 => h[i - 1] = g[i - 1])
          BY <4>0, <4>2
        <5>2. g[i] = IF i = 0 THEN << >> ELSE Taken(g[i - 1], q[i])
          BY <2>1, <5>1 DEF Taking
        <5> QED BY <5>1, <5>2
      <4> QED BY <4>1, <4>2
    <3> HIDE DEF h
    <3>2. h = [i \in 0 .. m + 1 |-> h[i]]
      BY DEF h
    <3> QED BY <3>1, <3>2, Zenon DEF Taking
  <2> QED BY <2>2
<1>3. S = Nat
  <2> HIDE DEF S
  <2>1. S \subseteq Nat
    BY DEF S
  <2> QED BY <1>1, <1>2, <2>1, SetInduction
<1> QED BY <1>3

\* One clause adds an ask, becomes part of the last one, or leaves the asks alone.
PartRecord == [says : SUBSET Words, named : BOOLEAN, worded : BOOLEAN]

LEMMA ClauseFacts ==
  ASSUME NEW c \in Clauses
  PROVE  c.says \in SUBSET Words /\ c.names \in BOOLEAN /\ Part(c) \in PartRecord
<1>1. "latest" \in Words /\ "topic" \in Words /\ "pdf" \in Words
  BY DEF Words
<1> USE DEF Clauses
<1>2. c.says \in SUBSET Words
  BY <1>1, Zenon
<1>3. c.names \in BOOLEAN
  OBVIOUS
<1> QED BY <1>2, <1>3 DEF Part, PartRecord

LEMMA TakenFits ==
  ASSUME NEW xs, xs \in Seq(PartRecord), NEW c \in Clauses
  PROVE  Taken(xs, c) \in Seq(PartRecord)
<1>1. ASSUME xs # << >> PROVE Merged(xs, c) \in Seq(PartRecord)
  <2>1. Len(xs) \in 1 .. Len(xs) /\ xs[Len(xs)] \in PartRecord
    BY <1>1, EmptySeq, ElementOfSeq
  <2> DEFINE last == [says |-> xs[Len(xs)].says \cup c.says, named |-> xs[Len(xs)].named \/ c.names,
                      worded |-> TRUE]
  <2>2. last \in PartRecord
    BY <2>1, ClauseFacts DEF PartRecord
  <2>3. Merged(xs, c) = [xs EXCEPT ![Len(xs)] = last]
    BY DEF Merged
  <2> HIDE DEF last
  <2> QED BY <2>1, <2>2, <2>3, ExceptSeq
<1>2. Append(xs, Part(c)) \in Seq(PartRecord)
  BY ClauseFacts, AppendProperties
<1> QED BY <1>1, <1>2 DEF Taken

\* Whatever the user writes, the query is cut into one ask or more.
LEMMA PartsFit ==
  ASSUME NEW q \in Seq(Clauses)
  PROVE  Parts(q) \in Seq(PartRecord) /\ Parts(q) # << >>
<1> DEFINE g == CHOOSE f : Taking(f, q, Len(q))
           S == {m \in Nat : m <= Len(q) => g[m] \in Seq(PartRecord)}
           whole == [says |-> Said(q), named |-> FALSE, worded |-> TRUE]
<1>0. Len(q) \in Nat
  OBVIOUS
<1>1. Taking(g, q, Len(q))
  BY <1>0, TakingExists
<1>2. Parts(q) = IF g[Len(q)] = << >> THEN <<whole>> ELSE g[Len(q)]
  BY DEF Parts, Taking
<1> HIDE DEF g
<1>3. 0 \in S
  BY <1>0, <1>1 DEF Taking
<1>4. ASSUME NEW m \in S PROVE m + 1 \in S
  <2>1. SUFFICES ASSUME m + 1 <= Len(q) PROVE g[m + 1] \in Seq(PartRecord)
    OBVIOUS
  <2>2. m \in Nat /\ g[m] \in Seq(PartRecord) /\ q[m + 1] \in Clauses
    BY <1>0, <2>1
  <2>3. g[m + 1] = Taken(g[m], q[m + 1])
    BY <1>0, <1>1, <2>1, <2>2 DEF Taking
  <2> QED BY <2>2, <2>3, TakenFits
<1>5. S = Nat
  <2> HIDE DEF S
  <2>1. S \subseteq Nat
    BY DEF S
  <2> QED BY <1>3, <1>4, <2>1, SetInduction
<1>6. g[Len(q)] \in Seq(PartRecord)
  BY <1>0, <1>5
<1>7. whole \in PartRecord
  <2>1. Said(q) \in SUBSET Words
    <3>1. \A i \in DOMAIN q : q[i].says \in SUBSET Words
      BY ClauseFacts
    <3> QED BY <3>1 DEF Said
  <2> QED BY <2>1 DEF PartRecord
<1> HIDE DEF whole
<1>8. <<whole>> \in Seq(PartRecord) /\ <<whole>> # << >>
  BY <1>7
<1> QED BY <1>2, <1>6, <1>8

LEMMA AsksAreAsks ==
  ASSUME NEW q \in Seq(Clauses)
  PROVE  AsksOf(q) \in Seq(AskRecord) /\ AsksOf(q) # << >>
<1> DEFINE parts == Parts(q)
           nameless == \A i \in DOMAIN parts : ~parts[i].named
<1>1. parts \in Seq(PartRecord) /\ parts # << >>
  BY PartsFit
<1>2. AsksOf(q) = [i \in DOMAIN parts |-> [named |-> parts[i].named \/ nameless,
                                            worded |-> parts[i].worded]]
  BY DEF AsksOf
<1>3. nameless \in BOOLEAN
  OBVIOUS
<1> HIDE DEF parts, nameless
<1>4. DOMAIN parts = 1 .. Len(parts) /\ Len(parts) \in Nat \ {0}
  BY <1>1
<1>5. ASSUME NEW i \in DOMAIN parts
      PROVE  [named |-> parts[i].named \/ nameless, worded |-> parts[i].worded] \in AskRecord
  <2>1. parts[i] \in PartRecord
    BY <1>1
  <2> QED BY <1>3, <2>1 DEF PartRecord, AskRecord
<1>6. AsksOf(q) \in Seq(AskRecord)
  BY <1>2, <1>4, <1>5
<1>7. 1 \in DOMAIN AsksOf(q)
  BY <1>2, <1>4
<1> QED BY <1>6, <1>7

LEMMA TermsFit ==
  ASSUME NEW q
  PROVE  TermsOf(q) \in [primary : BOOLEAN, sources : {1, 2}, fresh : BOOLEAN,
                          atomic : BOOLEAN]
<1>1. Floor(Intent(q)) \in BOOLEAN
  BY DEF Floor
<1>2. FreshNeeded(q) \in BOOLEAN
  BY DEF FreshNeeded
<1> QED BY <1>1, <1>2, Zenon DEF TermsOf

LEMMA StartInitFits == ASSUME StartInit PROVE StartFits /\ StartTypes
<1>1. PICK q \in Queries : asks = AsksOf(q) /\ terms = TermsOf(q)
  BY DEF StartInit
<1>2. AsksFit /\ asks # << >>
  <2>1. q \in Seq(Clauses)
    BY StartAssumption
  <2> QED BY <1>1, <2>1, AsksAreAsks DEF AsksFit
<1>3. terms \in [primary : BOOLEAN, sources : {1, 2}, fresh : BOOLEAN, atomic : BOOLEAN]
  BY <1>1, TermsFit
<1> QED BY <1>2, <1>3, StartAssumption DEF StartInit, StartFits, StartTypes, Briefed, Planned

LEMMA StartKeepsFit ==
  ASSUME StartFits, StartTypes, Start \/ CancelStart
  PROVE  StartFits' /\ StartTypes'
<1>0. asks' = asks /\ engine' = engine /\ mode' = mode /\ terms' = terms /\ AsksFit /\ AsksFit'
      /\ stage # "researching" /\ asks # << >>
  BY DEF Start, Unaided, Bootstrap, FallBack, EnterGraph, PlanFirstWave, Send, AskModel, Answered,
         CancelStart, StartFits, AsksFit
<1>1. ASSUME NEW b, GoodDraft(b), draft' = b PROVE GoodDraft(draft)'
  BY <1>0, <1>1, DraftCarried
<1>2. CASE Bootstrap \/ AskModel \/ CancelStart
  BY <1>0, <1>2, StartAssumption
     DEF Bootstrap, AskModel, CancelStart, StartFits, StartTypes, Briefed, Planned, ToolLimit, NextAttempt
<1>3. CASE FallBack
  <2>1. GoodDraft(draft)'
    BY <1>0, <1>1, <1>3, FallbackGood DEF FallBack
  <2> QED BY <1>0, <1>3, <2>1 DEF FallBack, StartFits, StartTypes, Briefed, Planned
<1>4. CASE Answered
  <2>1. PICK answer \in Answers :
          LET b == Candidate(answer) IN
          \/ Faithful(b) /\ draft' = b /\ stage' = "understood" /\ attempt' = attempt
          \/ ~Faithful(b) /\ attempt < MaxAttempts
             /\ attempt' = NextAttempt /\ UNCHANGED <<stage, draft>>
          \/ ~Faithful(b) /\ attempt >= MaxAttempts
             /\ draft' = Fallback /\ stage' = "understood" /\ attempt' = attempt
    BY <1>4 DEF Answered
  <2>2. /\ stage = "asking" /\ tools' = tools /\ width' = width /\ plan' = plan
    BY <1>4 DEF Answered
  <2>3. CASE UNCHANGED <<stage, draft>> /\ attempt < MaxAttempts /\ attempt' = NextAttempt
    BY <1>0, <2>2, <2>3, StartAssumption DEF StartFits, StartTypes, Briefed, Planned, NextAttempt
  <2>4. CASE stage' = "understood" /\ attempt' = attempt /\ GoodDraft(draft)'
    BY <1>0, <2>2, <2>4 DEF StartFits, StartTypes, Briefed, Planned
  <2>5. Faithful(Candidate(answer)) /\ draft' = Candidate(answer) => GoodDraft(draft)'
    BY <1>0, <1>1, CandidateGood
  <2>6. draft' = Fallback => GoodDraft(draft)'
    BY <1>0, <1>1, FallbackGood
  <2> QED BY <2>1, <2>3, <2>4, <2>5, <2>6
<1>5. CASE EnterGraph
  <2>1. GoodDraft(draft) /\ draft' = draft /\ tools # "three"
    BY <1>5 DEF EnterGraph, StartFits, Briefed
  <2>2. GoodDraft(draft)'
    BY <1>1, <2>1
  <2>3. FastPath(draft)' = FastPath(draft)
    BY <1>0, <2>1 DEF FastPath
  <2> QED BY <1>0, <1>5, <2>1, <2>2, <2>3 DEF EnterGraph, StartFits, StartTypes, Briefed, Planned
<1>6. CASE PlanFirstWave
  <2>1. GoodDraft(draft) /\ draft' = draft
    BY <1>6 DEF PlanFirstWave, StartFits, Briefed
  <2>2. GoodDraft(draft)' /\ FastPath(draft)' = FastPath(draft)
    BY <1>0, <1>1, <2>1 DEF FastPath
  <2>3. plan' = Steps(draft)'
    BY <1>0, <1>6, <2>1 DEF PlanFirstWave, BriefInState, Steps, FastPath, Verbatim
  <2> QED BY <1>0, <1>6, <2>2, <2>3 DEF PlanFirstWave, StartFits, StartTypes, Briefed, Planned
<1>7. CASE Send
  <2>1. GoodDraft(draft) /\ draft' = draft /\ stage' \in {"sent", "supervisor"}
    BY <1>7 DEF Send, StartFits, Briefed
  <2>2. GoodDraft(draft)' /\ FastPath(draft)' = FastPath(draft)
    BY <1>0, <1>1, <2>1 DEF FastPath
  <2>3. plan' = Steps(draft)'
    BY <1>0, <1>7, <2>1 DEF Send, Steps, FastPath, Verbatim, StartFits, Planned
  <2> QED BY <1>0, <1>7, <2>1, <2>2, <2>3 DEF Send, StartFits, StartTypes, Briefed, Planned
<1> QED BY <1>2, <1>3, <1>4, <1>5, <1>6, <1>7 DEF Start, Unaided

-----------------------------------------------------------------------------
(* The loop of waves.                                                      *)

\* Before it begins nothing was found; then the brief asks what it handed over.
Linked ==
  /\ stage # "researching" =>
       wanted = Call(terms) /\ brief = NoBrief /\ phase = "waiting" /\ pending = {} /\ NothingFound
  /\ stage = "researching" => phase # "waiting"
  /\ stage = "researching" /\ wanted = "floor" => "primary_source" \in brief.needs
  /\ wanted \in {"floor", "nothing"} /\ brief.needs \subseteq Qualities /\ brief.sources \in Nat

\* Only a worker that brought something has claims.
RowsWorked == \A r \in rows : r.task \in worked

\* There is a judgement before there is a second wave or a supervisor.
FirstWaveUnjudged ==
  ~judged.made => wave = 1 /\ judged = NoJudgement /\ phase \in {"waiting", "work", "judge"}

\* What once supported a question is still behind it.
Supported(q) ==
  /\ Bound(q) # {} /\ Cardinality(Sources(q)) >= brief.sources
  /\ Required(q) \subseteq Shown(q)
SupportKept == \A q \in Questions : judged.status[q] = "supported" => Supported(q)

\* Sufficient coverage ends research at once; the supervisor's action does so
\* where it is not research.
SufficientEnds == judged.sufficient => phase = "end"
ActionFits == phase # "end" => action.name \in {"none", "CONDUCT_RESEARCH"}

CoverFits ==
  /\ Linked /\ RowsWorked /\ FirstWaveUnjudged /\ SupportKept /\ SufficientEnds /\ ActionFits
  /\ CoverageTypeOK /\ SufficientIsEarned /\ FloorReachesEvidence /\ EndIsHonest

LEMMA SourcesFinite ==
  ASSUME CoverageTypeOK, NEW q
  PROVE  IsFiniteSet(Sources(q)) /\ Cardinality(Sources(q)) \in Nat
<1>1. Refs(q) \in SUBSET Evidence
  BY CoverageAssumption DEF CoverageTypeOK, Refs, Bound, SpeaksFor
<1>2. IsFiniteSet(Refs(q))
  BY <1>1, CoverageAssumption, FS_Subset
<1>3. [e \in Refs(q) |-> e.source] \in Surjection(Refs(q), Sources(q))
  BY DEF Surjection, Sources
<1>4. IsFiniteSet(Sources(q))
  BY <1>2, <1>3, FS_Surjection
<1> QED BY <1>4, FS_CardinalityType

\* More rows never take away what is behind a question.
LEMMA SupportGrows ==
  ASSUME CoverageTypeOK, CoverageTypeOK', rows \subseteq rows', brief' = brief,
         brief.sources \in Nat, NEW q \in Questions, Supported(q)
  PROVE  Supported(q)'
<1>1. Bound(q) \subseteq Bound(q)'
  BY DEF Bound, SpeaksFor
<1>2. Refs(q) \subseteq Refs(q)'
  BY <1>1 DEF Refs
<1>3. Shown(q) \subseteq Shown(q)'
  BY <1>1, <1>2 DEF Shown
<1>4. Sources(q) \in SUBSET Sources(q)'
  BY <1>2 DEF Sources
<1>5. IsFiniteSet(Sources(q)')
  <2>1. Refs(q)' \in SUBSET Evidence
    BY CoverageAssumption DEF CoverageTypeOK, Refs, Bound, SpeaksFor
  <2>2. IsFiniteSet(Refs(q)')
    BY <2>1, CoverageAssumption, FS_Subset
  <2>3. [e \in Refs(q)' |-> e.source] \in Surjection(Refs(q)', Sources(q)')
    BY DEF Surjection, Sources
  <2> QED BY <2>2, <2>3, FS_Surjection
<1>6. Cardinality(Sources(q)) <= Cardinality(Sources(q)') /\ Cardinality(Sources(q)') \in Nat
  BY <1>4, <1>5, FS_Subset, FS_CardinalityType
<1>7. Cardinality(Sources(q)') >= brief.sources
  BY <1>6, SourcesFinite DEF Supported
<1>8. Required(q)' = Required(q)
  BY DEF Required
<1> QED BY <1>1, <1>3, <1>7, <1>8 DEF Supported

\* What a worker brings is recorded as its own.
LEMMA ReturnKeepsFit ==
  ASSUME CoverFits, NEW q \in Questions, WorkerReturns(q), UNCHANGED <<startVars, wanted>>
  PROVE  CoverFits'
<1>1. PICK found \in SUBSET {c \in Claims : q \in c.about}, empty \in BOOLEAN, high \in BOOLEAN :
        /\ empty => found = {} /\ ~high
        /\ rows' = rows \cup {[claim |-> c, task |-> q, wave |-> wave] : c \in found}
        /\ failed' = IF empty THEN failed \cup {q} ELSE failed
        /\ worked' = IF empty THEN worked ELSE worked \cup {q}
        /\ authority' = (authority \/ high)
  BY DEF WorkerReturns
<1>2. /\ phase = "work" /\ phase' = "work" /\ pending' = pending \ {q}
      /\ UNCHANGED <<brief, wave, judged, lowRounds, tried, exhausted, action, route, stage, wanted>>
  BY DEF WorkerReturns, startVars
<1>3. CoverageTypeOK'
  <2>1. \A r \in rows' : r.claim \in Claims /\ r.task \in r.claim.about /\ r.wave \in 1 .. wave
    BY <1>1 DEF CoverFits, CoverageTypeOK
  <2>2. pending' \cup failed' \cup worked' \subseteq Questions
    BY <1>1, <1>2 DEF CoverFits, CoverageTypeOK
  <2> QED BY <1>1, <1>2, <2>1, <2>2 DEF CoverFits, CoverageTypeOK
<1>4. SupportKept'
  <2>1. rows \subseteq rows' /\ brief.sources \in Nat /\ CoverageTypeOK
    BY <1>1 DEF CoverFits, Linked
  <2> QED BY <1>2, <1>3, <2>1, SupportGrows DEF CoverFits, SupportKept
<1>5. RowsWorked'
  BY <1>1 DEF CoverFits, RowsWorked
<1>6. stage = "researching"
  BY <1>2 DEF CoverFits, Linked
<1>7. Linked' /\ FirstWaveUnjudged' /\ SufficientEnds' /\ ActionFits'
  BY <1>2, <1>6 DEF CoverFits, Linked, FirstWaveUnjudged, SufficientEnds, ActionFits
<1>8. SufficientIsEarned' /\ FloorReachesEvidence' /\ EndIsHonest'
  BY <1>2 DEF CoverFits, SufficientEnds, SufficientIsEarned, FloorReachesEvidence, EndIsHonest
<1> QED BY <1>3, <1>4, <1>5, <1>7, <1>8 DEF CoverFits

LEMMA FanInKeepsFit ==
  ASSUME CoverFits, FanIn, UNCHANGED <<startVars, wanted>>
  PROVE  CoverFits'
<1>1. /\ phase = "work" /\ phase' = "judge"
      /\ UNCHANGED <<brief, wave, pending, rows, failed, worked, authority, judged, lowRounds,
                     tried, exhausted, action, route, stage, wanted>>
  BY DEF FanIn, workVars, startVars
<1>2. CoverageTypeOK' /\ RowsWorked' /\ ActionFits'
  BY <1>1 DEF CoverFits, CoverageTypeOK, RowsWorked, ActionFits
<1>3. Linked' /\ FirstWaveUnjudged' /\ SufficientEnds'
  BY <1>1 DEF CoverFits, Linked, FirstWaveUnjudged, SufficientEnds
<1>4. SupportKept'
  BY <1>1 DEF CoverFits, SupportKept, Supported, Bound, SpeaksFor, Refs, Sources, Shown, Required
<1>5. SufficientIsEarned' /\ FloorReachesEvidence' /\ EndIsHonest'
  BY <1>1 DEF CoverFits, SufficientEnds, SufficientIsEarned, FloorReachesEvidence, EndIsHonest
<1> QED BY <1>2, <1>3, <1>4, <1>5 DEF CoverFits

\* The judgement is of the values the judgement's types allow.
LEMMA MissingFacts ==
  ASSUME NEW q \in Questions, brief.needs \subseteq Qualities
  PROVE  /\ Missing(q) \subseteq Gap /\ GapOf(q) \subseteq Gap
         /\ q \in GapQuestions => GapOf(q) # {}
         /\ Status(q) \in {"supported", "partial", "unsupported", "conflicted"}
         /\ Status(q) = "supported" <=> ~Blocked(q) /\ Missing(q) = {}
<1>1. Required(q) \subseteq Qualities
  BY DEF Required, Qualities
<1>2. Missing(q) \subseteq Gap /\ GapOf(q) \subseteq Gap
  BY <1>1 DEF Missing, GapOf, Gap
<1>3. /\ Status(q) \in {"supported", "partial", "unsupported", "conflicted"}
      /\ Status(q) = "supported" <=> ~Blocked(q) /\ Missing(q) = {}
  BY DEF Status
<1>4. Blocked(q) => Missing(q) # {}
  BY DEF Missing
<1>5. q \in GapQuestions => GapOf(q) # {}
  BY <1>3, <1>4 DEF GapQuestions, GapOf
<1> QED BY <1>2, <1>3, <1>5

\* A question without a gap has everything the brief requires behind it.
LEMMA NothingMissing ==
  ASSUME CoverageTypeOK, brief.sources \in Nat, brief.needs \subseteq Qualities,
         NEW q \in Questions, Missing(q) \subseteq {"conflict_resolution"}
  PROVE  Supported(q)
<1>1. Bound(q) # {} /\ Required(q) \subseteq Shown(q)
  <2>1. "conflict_resolution" \notin Required(q)
    BY DEF Required, Qualities
  <2> QED BY <2>1 DEF Missing
<1>2. Cardinality(Sources(q)) >= brief.sources
  BY SourcesFinite DEF Missing
<1> QED BY <1>1, <1>2 DEF Supported

\* What the judgement calls sufficient is earned.
LEMMA SufficientFacts ==
  ASSUME CoverFits, phase = "judge", Sufficient
  PROVE  /\ \A q \in Questions : Supported(q) /\ (q \in failed => q \in worked)
         /\ \A p \in Contradictions, r, s \in rows : p.claims = {r.claim, s.claim} => r.wave = s.wave
         /\ ~brief.lostAsk
         /\ \E r \in rows : r.wave = wave
<1>0. ~judged.sufficient /\ CoverageTypeOK /\ brief.sources \in Nat /\ brief.needs \subseteq Qualities
  BY DEF CoverFits, SufficientEnds, Linked
<1>1. GapQuestions = {} /\ ~brief.lostAsk /\ (judged.made => Progress)
  BY <1>0 DEF Sufficient, AsksAnswered
<1>2. \A q \in Questions : ~Blocked(q) /\ Missing(q) = {} /\ q \notin FailedQuestions
  BY <1>0, <1>1, MissingFacts DEF GapQuestions
<1>3. \A q \in Questions : Supported(q) /\ (q \in failed => q \in worked)
  BY <1>0, <1>2, NothingMissing DEF FailedQuestions
<1>4. ASSUME NEW p \in Contradictions, NEW r \in rows, NEW s \in rows,
             p.claims = {r.claim, s.claim}
      PROVE  r.wave = s.wave
  <2>1. p.question \in Questions
    BY <1>0, <1>4, CoverageAssumption DEF CoverageTypeOK
  <2>2. p \notin Conflicts
    BY <1>2, <2>1 DEF Blocked
  <2> QED BY <1>4, <2>2 DEF Conflicts
<1>5. \E r \in rows : r.wave = wave
  <2>1. CASE judged.made
    BY <1>1, <2>1 DEF Progress
  <2>2. CASE ~judged.made
    <3>1. wave = 1 /\ \A r \in rows : r.wave \in 1 .. wave
      BY <2>2, <1>0 DEF CoverFits, FirstWaveUnjudged, CoverageTypeOK
    <3>2. PICK q \in Questions : TRUE
      BY CoverageAssumption
    <3>3. rows # {}
      BY <1>3, <3>2 DEF Supported, Bound, SpeaksFor
    <3> QED BY <3>1, <3>3
  <2> QED BY <2>1, <2>2
<1> QED BY <1>1, <1>3, <1>4, <1>5

LEMMA JudgeKeepsFit ==
  ASSUME CoverFits, CoverageJudge, UNCHANGED <<startVars, wanted>>
  PROVE  CoverFits'
<1>0. /\ phase = "judge" /\ judged' = Judgement
      /\ CoverageTypeOK /\ brief.sources \in Nat /\ brief.needs \subseteq Qualities
      /\ UNCHANGED <<brief, wave, pending, rows, failed, worked, authority, tried, exhausted, action,
                     stage, wanted>>
      /\ stage = "researching"
  BY DEF CoverageJudge, CoverFits, Linked, workVars, startVars
<1>1. /\ judged'.made = TRUE /\ judged'.sufficient = Sufficient
      /\ judged'.status = [q \in Questions |-> Status(q)]
      /\ judged'.gaps = [q \in (IF Sufficient THEN {} ELSE GapQuestions) |-> GapOf(q)]
  BY <1>0 DEF Judgement
<1>2. Sufficient \in BOOLEAN
  BY DEF Sufficient, AsksAnswered
<1>3. /\ route' \in {"none", "synthesize", "deliver_partial"}
      /\ phase' = (IF route' = "none" THEN "supervise" ELSE "end")
      /\ Sufficient => route' # "none"
  BY <1>0, <1>1, <1>2 DEF CoverageJudge, AfterJudge
<1>4. lowRounds' \in Nat
  BY <1>0 DEF CoverageJudge, CoverageTypeOK
<1>5. CoverageTypeOK'
  <2>1. judged'.status \in [Questions -> {"none", "supported", "partial", "unsupported", "conflicted"}]
    BY <1>0, <1>1, MissingFacts
  <2>2. /\ DOMAIN judged'.gaps \subseteq Questions
        /\ \A q \in DOMAIN judged'.gaps : judged'.gaps[q] \subseteq Gap /\ judged'.gaps[q] # {}
    BY <1>0, <1>1, MissingFacts DEF GapQuestions
  <2> QED BY <1>0, <1>1, <1>2, <1>3, <1>4, <2>1, <2>2 DEF CoverageTypeOK
<1>6. \A q \in Questions : Supported(q)' <=> Supported(q)
  BY <1>0 DEF Supported, Bound, SpeaksFor, Refs, Sources, Shown, Required
<1>7. SupportKept'
  <2>1. ASSUME NEW q \in Questions, judged'.status[q] = "supported" PROVE Supported(q)
    <3>1. Missing(q) = {}
      BY <1>0, <1>1, <2>1, MissingFacts
    <3> QED BY <1>0, <3>1, NothingMissing
  <2> QED BY <1>6, <2>1 DEF SupportKept
<1>8. Linked' /\ RowsWorked' /\ FirstWaveUnjudged' /\ SufficientEnds'
  BY <1>0, <1>1, <1>3 DEF CoverFits, Linked, RowsWorked, FirstWaveUnjudged, SufficientEnds
<1>9. ActionFits' /\ EndIsHonest'
  <2>1. action.name \in {"none", "CONDUCT_RESEARCH"}
    BY <1>0 DEF CoverFits, ActionFits
  <2> QED BY <1>0, <1>3, <2>1 DEF ActionFits, EndIsHonest
<1>10. SufficientIsEarned'
  <2>1. Sufficient => /\ \A q \in Questions : Supported(q) /\ (q \in failed => q \in worked)
                      /\ \A p \in Contradictions, r, s \in rows :
                           p.claims = {r.claim, s.claim} => r.wave = s.wave
                      /\ ~brief.lostAsk
                      /\ \E r \in rows : r.wave = wave
    BY <1>0, SufficientFacts
  <2>2. \A q \in Questions : Sources(q)' = Sources(q)
    BY <1>0 DEF Sources, Refs, Bound, SpeaksFor
  <2> QED BY <1>0, <1>1, <2>1, <2>2 DEF SufficientIsEarned, Supported
<1>11. FloorReachesEvidence'
  <2>1. Sufficient => \A q \in Questions : Supported(q)
    BY <1>0, SufficientFacts
  <2>2. wanted = "floor" => \A q \in Questions : "primary_source" \in Required(q)
    BY <1>0 DEF CoverFits, Linked, Required
  <2>3. \A q \in Questions : Shown(q)' = Shown(q)
    BY <1>0 DEF Shown, Refs, Bound, SpeaksFor
  <2> QED BY <1>0, <1>1, <2>1, <2>2, <2>3 DEF FloorReachesEvidence, Supported
<1> QED BY <1>5, <1>7, <1>8, <1>9, <1>10, <1>11 DEF CoverFits

-----------------------------------------------------------------------------
(* The supervisor.                                                         *)

\* What the supervisor may act on: requests about questions, and once there is
\* a judgement nobody completes over its gaps.
LEMMA RepairFacts ==
  ASSUME CoverageTypeOK, NEW known, NEW T \in RepairTasks(known)
  PROVE  \A t \in T : t.question \in Questions
<1>1. GapsLeft \subseteq Questions
  BY DEF CoverageTypeOK, GapsLeft
<1>2. CASE GapsLeft # {}
  BY <1>1, <1>2 DEF RepairTasks, FirstTwo, Request
<1>3. CASE GapsLeft = {}
  BY <1>3 DEF RepairTasks, FirstTwo, Request
<1> QED BY <1>2, <1>3

ActionShape(a) ==
  /\ a = [name |-> a.name, tasks |-> a.tasks, source |-> a.source]
  /\ \A t \in a.tasks : t.question \in Questions
  /\ a.name # "CONDUCT_RESEARCH" => a.tasks = {}
  /\ a.name # "COMPLETE"

LEMMA ActionFacts ==
  ASSUME CoverageTypeOK, judged.made, NEW spent, NEW a \in Actions(spent)
  PROVE  ActionShape(a)
<1>1. ASSUME NEW T \in RepairTasks(tried) PROVE ActionShape(Research(T))
  <2>1. \A t \in T : t.question \in Questions
    BY RepairFacts
  <2> QED BY <2>1 DEF Research, ActionShape
<1>2. Precheck(spent) # "SYNTHESIZE"
  BY DEF Precheck
<1>3. a \in Decided(spent)
  BY <1>2 DEF Actions
<1>4. CASE a \in FallbackActions(spent)
  <2>1. CASE a = Named("STOP_BUDGET_PARTIAL", "fallback")
    BY <2>1 DEF Named, ActionShape
  <2>2. CASE \E T \in RepairTasks(tried) : a = Research(T)
    BY <1>1, <2>2
  <2> QED BY <1>4, <2>1, <2>2 DEF FallbackActions
<1>5. CASE a \notin FallbackActions(spent)
  <2>1. PICK m \in ModelActions : a \in Resolved(m)
    BY <1>3, <1>5 DEF Decided
  <2>2. CASE \E T \in RepairTasks(tried) : a = Research(T)
    BY <1>1, <2>2
  <2>3. CASE a = m /\ m.name # "COMPLETE"
    <3>1. CASE \E T \in SUBSET ModelRequests : m = Research(T)
      <4>1. PICK T \in SUBSET ModelRequests : m = Research(T)
        BY <3>1
      <4>2. \A t \in T : t.question \in Questions
        BY DEF ModelRequests, Request, GapsLeft, CoverageTypeOK
      <4> QED BY <2>3, <4>1, <4>2 DEF Research, ActionShape
    <3>2. CASE \E n \in {"COMPLETE", "STOP_BUDGET_PARTIAL", "STOP_FAILURE"} : m = Named(n, "model")
      BY <2>3, <3>2 DEF Named, ActionShape
    <3> QED BY <3>1, <3>2 DEF ModelActions
  <2>4. \/ \E T \in RepairTasks(tried) : a = Research(T)
        \/ a = m /\ m.name # "COMPLETE"
    <3>1. CASE m.name = "COMPLETE"
      BY <2>1, <3>1 DEF Resolved
    <3>2. CASE m.name = "CONDUCT_RESEARCH" /\ m.tasks = {}
      BY <2>1, <3>2 DEF Resolved
    <3>3. CASE m.name # "COMPLETE" /\ ~(m.name = "CONDUCT_RESEARCH" /\ m.tasks = {})
      BY <2>1, <3>3 DEF Resolved
    <3> QED BY <3>1, <3>2, <3>3
  <2> QED BY <2>2, <2>3, <2>4
<1> QED BY <1>4, <1>5

LEMMA DispatchKeepsFit ==
  ASSUME CoverFits, Dispatch, UNCHANGED <<startVars, wanted>>
  PROVE  CoverFits'
<1>1. PICK spent \in BOOLEAN : \E a \in Actions(spent) : \E approved \in Admitted(a) \ {{}} :
        /\ exhausted' = spent /\ action' = [a EXCEPT !.tasks = approved]
        /\ tried' = tried \cup approved /\ pending' = {t.question : t \in approved}
  BY DEF Dispatch
<1>2. PICK a \in Actions(spent) : \E approved \in Admitted(a) \ {{}} :
        /\ exhausted' = spent /\ action' = [a EXCEPT !.tasks = approved]
        /\ tried' = tried \cup approved /\ pending' = {t.question : t \in approved}
  BY <1>1
<1>3. PICK approved \in Admitted(a) \ {{}} :
        /\ exhausted' = spent /\ action' = [a EXCEPT !.tasks = approved]
        /\ tried' = tried \cup approved /\ pending' = {t.question : t \in approved}
  BY <1>2
<1>4. /\ phase = "supervise" /\ phase' = "work" /\ wave' = wave + 1
      /\ UNCHANGED <<brief, rows, failed, worked, authority, judged, lowRounds, route, stage, wanted>>
      /\ CoverageTypeOK /\ stage = "researching"
  BY DEF Dispatch, startVars, CoverFits, Linked
<1>5. judged.made /\ ~judged.sufficient
  BY <1>4 DEF CoverFits, FirstWaveUnjudged, SufficientEnds, CoverageTypeOK
<1>6. ActionShape(a)
  BY <1>4, <1>5, ActionFacts
<1>7. a.name = "CONDUCT_RESEARCH" /\ approved \subseteq a.tasks
  BY <1>3 DEF Admitted, Fresh
<1>8. action'.name = "CONDUCT_RESEARCH" /\ action'.tasks = approved
  BY <1>3, <1>6, <1>7 DEF ActionShape
<1>9. CoverageTypeOK'
  <2>1. \A t \in approved : t.question \in Questions
    BY <1>6, <1>7 DEF ActionShape
  <2>2. wave \in Nat \ {0} /\ wave' \in Nat \ {0} /\ \A r \in rows : r.wave \in 1 .. wave'
    BY <1>4 DEF CoverageTypeOK
  <2>3. pending' \subseteq Questions /\ action'.tasks \subseteq tried' /\ \A t \in tried' : t.question \in Questions
    BY <1>3, <1>4, <1>8, <2>1 DEF CoverageTypeOK
  <2> QED BY <1>3, <1>4, <2>2, <2>3 DEF CoverageTypeOK
<1>10. SupportKept'
  BY <1>4 DEF CoverFits, SupportKept, Supported, Bound, SpeaksFor, Refs, Sources, Shown, Required
<1>11. Linked' /\ RowsWorked' /\ FirstWaveUnjudged' /\ SufficientEnds' /\ ActionFits'
  BY <1>4, <1>5, <1>8
     DEF CoverFits, Linked, RowsWorked, FirstWaveUnjudged, SufficientEnds, ActionFits
<1>12. SufficientIsEarned' /\ FloorReachesEvidence' /\ EndIsHonest'
  BY <1>4, <1>5 DEF SufficientIsEarned, FloorReachesEvidence, EndIsHonest
<1> QED BY <1>9, <1>10, <1>11, <1>12 DEF CoverFits

LEMMA EndKeepsFit ==
  ASSUME CoverFits, EndResearch, UNCHANGED <<startVars, wanted>>
  PROVE  CoverFits'
<1>1. PICK spent \in BOOLEAN : \E a \in Actions(spent) :
        /\ exhausted' = spent /\ action' = Final(a) /\ route' = Decision(Final(a), spent)
        /\ phase' = AfterSupervisor(route')
  BY DEF EndResearch
<1>2. PICK a \in Actions(spent) :
        /\ exhausted' = spent /\ action' = Final(a) /\ route' = Decision(Final(a), spent)
        /\ phase' = AfterSupervisor(route')
  BY <1>1
<1>3. /\ phase = "supervise"
      /\ UNCHANGED <<brief, wave, pending, rows, failed, worked, authority, judged, lowRounds, tried,
                     stage, wanted>>
      /\ CoverageTypeOK /\ stage = "researching" /\ RowsWorked
  BY DEF EndResearch, workVars, startVars, CoverFits, Linked
<1>4. judged.made /\ ~judged.sufficient
  BY <1>3 DEF CoverFits, FirstWaveUnjudged, SufficientEnds, CoverageTypeOK
<1>5. ActionShape(a)
  BY <1>3, <1>4, ActionFacts
<1>6. /\ action'.tasks = {}
      /\ action'.name = "COMPLETE" => action'.source = "runtime_admission"
  BY <1>2, <1>5 DEF Final, Named, ActionShape
<1>7. /\ route' \in {"synthesize", "deliver_partial", "finalize_failure"}
      /\ AnswerableAsk => route' # "finalize_failure"
  <2>1. AnswerableAsk => Usable
    BY <1>3 DEF AnswerableAsk, Usable, Bound, SpeaksFor, RowsWorked
  <2> QED BY <1>2, <2>1 DEF Decision
<1>8. phase' = "end"
  BY <1>2, <1>7 DEF AfterSupervisor
<1>9. CoverageTypeOK'
  BY <1>2, <1>3, <1>6, <1>7, <1>8 DEF CoverageTypeOK
<1>10. SupportKept'
  BY <1>3 DEF CoverFits, SupportKept, Supported, Bound, SpeaksFor, Refs, Sources, Shown, Required
<1>11. Linked' /\ RowsWorked' /\ FirstWaveUnjudged' /\ SufficientEnds' /\ ActionFits'
  BY <1>3, <1>4, <1>8
     DEF CoverFits, Linked, RowsWorked, FirstWaveUnjudged, SufficientEnds, ActionFits
<1>12. EndIsHonest'
  <2>1. AnswerableAsk' <=> AnswerableAsk
    BY <1>3 DEF AnswerableAsk, Bound, SpeaksFor, Status, Blocked, Missing, Conflicts, Sources, Refs, Shown, Required
  <2> QED BY <1>6, <1>7, <2>1 DEF EndIsHonest
<1>13. SufficientIsEarned' /\ FloorReachesEvidence'
  BY <1>3, <1>4 DEF SufficientIsEarned, FloorReachesEvidence
<1> QED BY <1>9, <1>10, <1>11, <1>12, <1>13 DEF CoverFits

-----------------------------------------------------------------------------
(* A run as a whole.                                                       *)

RunFits == StartFits /\ StartTypes /\ CoverFits

\* Before the first wave there is nothing to judge.
LEMMA NothingToJudge ==
  ASSUME NothingFound, phase = "waiting", pending = {}, brief.needs \subseteq Qualities
  PROVE  /\ RowsWorked /\ FirstWaveUnjudged /\ SupportKept /\ SufficientEnds /\ ActionFits
         /\ CoverageTypeOK /\ SufficientIsEarned /\ FloorReachesEvidence /\ EndIsHonest
<1>1. CoverageTypeOK
  <2>1. /\ judged.made = FALSE /\ judged.sufficient = FALSE
        /\ judged.status = [q \in Questions |-> "none"] /\ DOMAIN judged.gaps = {}
        /\ action.tasks = {}
    BY DEF NothingFound, NoJudgement, NoAction
  <2>2. judged.status \in [Questions -> {"none", "supported", "partial", "unsupported", "conflicted"}]
    BY <2>1
  <2>3. wave \in Nat \ {0} /\ \A r \in rows : r.claim \in Claims /\ r.task \in r.claim.about /\ r.wave \in 1 .. wave
    BY DEF NothingFound
  <2>4. pending \cup failed \cup worked \subseteq Questions /\ \A t \in tried : t.question \in Questions
    BY DEF NothingFound
  <2>5. \A q \in DOMAIN judged.gaps : judged.gaps[q] \subseteq Gap /\ judged.gaps[q] # {}
    BY <2>1
  <2> QED BY <2>1, <2>2, <2>3, <2>4, <2>5 DEF NothingFound, CoverageTypeOK
<1>2. RowsWorked /\ FirstWaveUnjudged /\ SupportKept /\ SufficientEnds /\ ActionFits
  BY DEF NothingFound, NoJudgement, NoAction, RowsWorked, FirstWaveUnjudged, SupportKept,
         SufficientEnds, ActionFits
<1>3. SufficientIsEarned /\ FloorReachesEvidence /\ EndIsHonest
  BY DEF NothingFound, NoJudgement, SufficientIsEarned, FloorReachesEvidence, EndIsHonest
<1> QED BY <1>1, <1>2, <1>3

LEMMA RunInitFits == ASSUME RunInit PROVE RunFits
<1>1. StartFits /\ StartTypes
  BY StartInitFits DEF RunInit
<1>2. brief.needs \subseteq Qualities /\ brief.sources \in Nat
  BY DEF RunInit, NoBrief
<1>3. Linked
  BY <1>2 DEF RunInit, StartInit, Linked, Call
<1> QED BY <1>1, <1>2, <1>3, NothingToJudge DEF RunInit, RunFits, CoverFits

\* Where no variable of the loop changes, what is known of it stays.
LEMMA LoopCarried ==
  ASSUME CoverFits, UNCHANGED researchVars, UNCHANGED wanted
  PROVE  (/\ RowsWorked /\ FirstWaveUnjudged /\ SupportKept /\ SufficientEnds /\ ActionFits
          /\ CoverageTypeOK /\ SufficientIsEarned /\ FloorReachesEvidence /\ EndIsHonest)'
<1>1. UNCHANGED <<brief, phase, wave, pending, rows, failed, worked, authority, judged,
                  lowRounds, tried, exhausted, action, route, wanted>>
  BY DEF researchVars, vars, workVars
<1>2. CoverageTypeOK' /\ RowsWorked' /\ FirstWaveUnjudged' /\ SufficientEnds' /\ ActionFits'
  BY <1>1 DEF CoverFits, CoverageTypeOK, RowsWorked, FirstWaveUnjudged, SufficientEnds, ActionFits
<1>3. SupportKept' /\ SufficientIsEarned' /\ FloorReachesEvidence'
  BY <1>1 DEF CoverFits, SupportKept, Supported, Bound, SpeaksFor, Refs, Sources, Shown, Required,
              SufficientIsEarned, FloorReachesEvidence
<1>4. EndIsHonest'
  <2>1. AnswerableAsk' <=> AnswerableAsk
    BY <1>1 DEF AnswerableAsk, Bound, SpeaksFor, Status, Blocked, Missing, Conflicts, Sources, Refs, Shown, Required
  <2> QED BY <1>1, <2>1 DEF CoverFits, EndIsHonest
<1> QED BY <1>2, <1>3, <1>4

\* The start touches nothing of the loop.
LEMMA BeforeTheWave ==
  ASSUME RunFits, Start \/ CancelStart, UNCHANGED <<researchVars, wanted>>
  PROVE  RunFits'
<1>1. StartFits' /\ StartTypes'
  BY StartKeepsFit DEF RunFits
<1>2. terms' = terms /\ stage # "researching" /\ stage' # "researching"
  BY DEF Start, Unaided, Bootstrap, FallBack, EnterGraph, PlanFirstWave, Send, AskModel, Answered,
         CancelStart
<1>3. Call(terms)' = Call(terms)
  BY <1>2 DEF Call
<1>4. Linked'
  BY <1>2, <1>3 DEF RunFits, CoverFits, Linked, researchVars, vars, workVars, NothingFound
<1>5. UNCHANGED researchVars
  OBVIOUS
<1> QED BY <1>1, <1>4, <1>5, LoopCarried DEF RunFits, CoverFits

\* The wave is judged by what the query calls for.
LEMMA FirstWaveKeepsFit ==
  ASSUME RunFits, FirstWave
  PROVE  RunFits'
<1>1. /\ stage = "sent" /\ stage' = "researching" /\ asks' = << >> /\ draft' = NoDraft
      /\ plan' = << >> /\ attempt' = 0 /\ terms' = NoTerms /\ width' = "some"
      /\ phase' = "work" /\ pending' = Questions
      /\ UNCHANGED <<mode, engine, tools, wanted, wave, rows, failed, worked, authority,
                     judged, lowRounds, tried, exhausted, action, route>>
  BY DEF FirstWave
<1>2. PICK limit \in RepairLimits : brief' = Handed(limit)
  BY DEF FirstWave
<1>3. NothingFound /\ wanted = Call(terms) /\ wanted \in {"floor", "nothing"}
  BY <1>1 DEF RunFits, CoverFits, Linked
<1>4. GoodDraft(draft)
  BY <1>1 DEF RunFits, StartFits, Briefed
<1>5. StartFits' /\ StartTypes'
  <2>1. AsksFit'
    BY <1>1 DEF AsksFit
  <2> QED BY <1>1, <2>1, StartAssumption DEF RunFits, StartFits, StartTypes, Briefed, Planned, NoTerms
<1>6. Linked'
  BY <1>1, <1>2, <1>3, <1>4 DEF Linked, Handed, GoodDraft, Qualities, Call
<1>7. CoverageTypeOK' /\ RowsWorked' /\ FirstWaveUnjudged' /\ SupportKept' /\ SufficientEnds' /\ ActionFits'
  <2>1. CoverageTypeOK'
    <3>1. /\ judged'.made = FALSE /\ judged'.sufficient = FALSE
          /\ judged'.status = [q \in Questions |-> "none"] /\ DOMAIN judged'.gaps = {}
          /\ action'.tasks = {}
      BY <1>1, <1>3 DEF NothingFound, NoJudgement, NoAction
    <3>2. judged'.status \in [Questions -> {"none", "supported", "partial", "unsupported", "conflicted"}]
      BY <3>1
    <3>3. wave' \in Nat \ {0} /\ \A r \in rows' : r.claim \in Claims /\ r.task \in r.claim.about /\ r.wave \in 1 .. wave'
      BY <1>1, <1>3 DEF NothingFound
    <3>4. pending' \cup failed' \cup worked' \subseteq Questions /\ \A t \in tried' : t.question \in Questions
      BY <1>1, <1>3 DEF NothingFound
    <3>5. \A q \in DOMAIN judged'.gaps : judged'.gaps[q] \subseteq Gap /\ judged'.gaps[q] # {}
      BY <3>1
    <3> QED BY <1>1, <1>3, <3>1, <3>2, <3>3, <3>4, <3>5 DEF NothingFound, CoverageTypeOK
  <2>2. RowsWorked' /\ FirstWaveUnjudged' /\ SufficientEnds' /\ ActionFits'
    BY <1>1, <1>3 DEF NothingFound, NoJudgement, NoAction, RowsWorked, FirstWaveUnjudged,
                      SufficientEnds, ActionFits
  <2>3. SupportKept'
    BY <1>1, <1>3 DEF NothingFound, NoJudgement, SupportKept
  <2> QED BY <2>1, <2>2, <2>3
<1>8. SufficientIsEarned' /\ FloorReachesEvidence' /\ EndIsHonest'
  BY <1>1, <1>3 DEF NothingFound, NoJudgement, SufficientIsEarned, FloorReachesEvidence, EndIsHonest
<1> QED BY <1>5, <1>6, <1>7, <1>8 DEF RunFits, CoverFits

\* Where no variable of the start changes, it still fits.
LEMMA StartCarried ==
  ASSUME StartFits, StartTypes, UNCHANGED startVars
  PROVE  StartFits' /\ StartTypes'
<1>1. GoodDraft(draft) => GoodDraft(draft)'
  BY DraftCarried DEF startVars
<1>2. Steps(draft)' = Steps(draft) /\ FastPath(draft)' = FastPath(draft)
  BY DEF startVars, Steps, FastPath, Verbatim
<1> QED BY <1>1, <1>2 DEF startVars, StartFits, StartTypes, AsksFit, Briefed, Planned

LEMMA RunKeepsFit ==
  ASSUME RunFits, [RunNext]_allVars
  PROVE  RunFits'
<1>1. CASE Starting \/ Cancelling
  BY <1>1, BeforeTheWave DEF Starting, Cancelling
<1>2. CASE FirstWave
  BY <1>2, FirstWaveKeepsFit
<1>3. CASE Researching
  <2>1. UNCHANGED <<startVars, wanted>>
    BY <1>3 DEF Researching
  <2>2. UNCHANGED startVars
    BY <2>1
  <2>3. CoverFits'
    <3>1. CASE \E q \in Questions : WorkerReturns(q)
      BY <2>1, <3>1, ReturnKeepsFit DEF RunFits
    <3>2. CASE FanIn
      BY <2>1, <3>2, FanInKeepsFit DEF RunFits
    <3>3. CASE CoverageJudge
      BY <2>1, <3>3, JudgeKeepsFit DEF RunFits
    <3>4. CASE Dispatch
      BY <2>1, <3>4, DispatchKeepsFit DEF RunFits
    <3>5. CASE EndResearch
      BY <2>1, <3>5, EndKeepsFit DEF RunFits
    <3> QED BY <1>3, <3>1, <3>2, <3>3, <3>4, <3>5 DEF Researching
  <2> QED BY <2>2, <2>3, StartCarried DEF RunFits
<1>4. CASE UNCHANGED allVars
  <2>1. UNCHANGED startVars /\ UNCHANGED wanted /\ UNCHANGED researchVars
    BY <1>4 DEF allVars
  <2>2. StartFits' /\ StartTypes'
    BY <2>1, StartCarried DEF RunFits
  <2>3. Linked'
    BY <2>1 DEF RunFits, CoverFits, Linked, NothingFound, Call, researchVars, vars, workVars,
                startVars
  <2> QED BY <2>1, <2>2, <2>3, LoopCarried DEF RunFits, CoverFits
<1> QED BY <1>1, <1>2, <1>3, <1>4 DEF RunNext

LEMMA RunAlwaysFits == RunSpec => []RunFits
<1>1. RunInit => RunFits
  BY RunInitFits
<1>2. RunFits /\ [RunNext]_allVars => RunFits'
  BY RunKeepsFit
<1> QED BY <1>1, <1>2, PTL DEF RunSpec

-----------------------------------------------------------------------------
(* Results.                                                                *)

\* What the user asked is researched, whatever clauses the query has: the first
\* wave has a step for each ask that has words, in a brief of the model's and
\* under the contract for each ask at all, and in the model's words at least four
\* in five that still name the subject (compile_structured_brief, the fidelity
\* gate, build_brief_and_plan).
THEOREM AsksArePlanned == RunSpec => []AskedIsPlanned
<1>1. RunFits => AskedIsPlanned
  BY StartKeepsWord DEF RunFits
<1> QED BY <1>1, RunAlwaysFits, PTL

\* The accepted brief caps the tools, is the plan, and its demand for original
\* sources, if the intent of the query calls for them, reaches every sufficient
\* judgement of the waves of the first engine.
THEOREM BriefGoverns == RunSpec => []BriefIsFollowed
<1>1. RunFits => BriefIsFollowed
  BY StartKeepsWord, StartTypesSuffice DEF RunFits, CoverFits, Linked, BriefIsFollowed, TypeOK
<1> QED BY <1>1, RunAlwaysFits, PTL

\* Sufficient coverage is earned by claims over enough sources, in any order of
\* waves and results (judge_coverage).
THEOREM SufficiencyEarned == RunSpec => []SufficientIsEarned
<1>1. RunFits => SufficientIsEarned
  BY DEF RunFits, CoverFits
<1> QED BY <1>1, RunAlwaysFits, PTL

\* Research over a gap ends by the runtime's refusal only, and never in failure
\* while a question has an answer (resolve_action, decide_control).
THEOREM ResearchEndsHonestly == RunSpec => []EndIsHonest
<1>1. RunFits => EndIsHonest
  BY DEF RunFits, CoverFits
<1> QED BY <1>1, RunAlwaysFits, PTL

\* Only a contradiction takes support away, and only new claims make up for a
\* gap (judge_coverage against the previous judgement).
THEOREM SupportOutlastsWaves == RunSpec => OnlyConflictUncovers
<1> DEFINE Kept == judged.made /\ judged' # judged =>
                     /\ \A q \in Questions : judged.status[q] = "supported" =>
                          judged'.status[q] \in {"supported", "conflicted"}
                     /\ judged'.sufficient => \E r \in rows' : r.wave = wave
<1>1. RunFits /\ [RunNext]_allVars => [Kept]_vars
  <2> SUFFICES ASSUME RunFits, RunNext, judged.made, judged' # judged
               PROVE  Kept
    BY DEF allVars, researchVars
  <2>1. CoverageJudge
    BY DEF RunNext, Starting, Cancelling, FirstWave, Researching, WorkerReturns, FanIn, Dispatch,
           EndResearch, researchVars, allVars, vars
  <2>2. /\ phase = "judge" /\ judged' = Judgement /\ rows' = rows /\ ~judged.sufficient
        /\ CoverageTypeOK /\ brief.needs \subseteq Qualities /\ CoverFits
    BY <2>1 DEF CoverageJudge, RunFits, CoverFits, Linked, SufficientEnds, workVars
  <2>3. /\ judged'.sufficient = Sufficient /\ judged'.status = [q \in Questions |-> Status(q)]
    BY <2>2 DEF Judgement
  <2>4. ASSUME NEW q \in Questions, judged.status[q] = "supported"
        PROVE  judged'.status[q] \in {"supported", "conflicted"}
    <3>1. Supported(q)
      BY <2>2, <2>4 DEF CoverFits, SupportKept
    <3>2. brief.sources \in Nat /\ Cardinality(Sources(q)) \in Nat
      BY <2>2, SourcesFinite DEF CoverFits, Linked
    <3>3. ~Blocked(q) => Missing(q) = {}
      BY <3>1, <3>2 DEF Missing, Supported
    <3> QED BY <2>3, <3>3 DEF Status
  <2>5. judged'.sufficient => \E r \in rows' : r.wave = wave
    BY <2>2, <2>3, SufficientFacts
  <2> QED BY <2>4, <2>5
<1> QED BY <1>1, RunAlwaysFits, PTL DEF RunSpec, OnlyConflictUncovers
=============================================================================
