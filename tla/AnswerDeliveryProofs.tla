-------------------------- MODULE AnswerDeliveryProofs --------------------------
(***************************************************************************)
(* Proofs about the answer of a run.                                       *)
(*                                                                         *)
(* AnswerDelivery, for every set of questions, records and claims, every   *)
(* room in a pack, whatever a provider writes and however it fails:        *)
(* success is earned and what can be answered is delivered.                *)
(*                                                                         *)
(* AnswerUnits, for every set of asks and evidence, all targets and any    *)
(* number of waves: what is delivered is valid and cited, the outcome says *)
(* what was delivered, and repair only adds to it.                         *)
(***************************************************************************)
EXTENDS AnswerDelivery, AnswerUnits,
        FiniteSetTheorems, WellFoundedInduction, TLAPS

Phases == {"synthesize", "calling", "retry", "settle", "quality", "route", "finalize", "ended"}

Judged == {"quality", "route", "finalize", "ended"}

\* Calls are counted against attempts: a pass of synthesis makes one call, and a
\* second one only in a pass that is not the last.
CallsFit ==
  /\ phase \in Phases
  /\ work \in [attempts : Nat, calls : Nat, low : BOOLEAN, retried : BOOLEAN]
  /\ phase \in {"synthesize", "calling", "retry"} => work.attempts < MaxAttempts
  /\ phase \in Judged \cup {"synthesize"} => work.calls <= work.attempts /\ work.attempts <= MaxAttempts
  /\ phase = "calling" => /\ work.calls <= work.attempts + (IF work.retried THEN 1 ELSE 0)
                          /\ work.retried => work.attempts < 2
  /\ phase = "retry" => work.calls <= work.attempts + 1 /\ work.attempts < 2 /\ ~work.retried
  /\ phase = "settle" => /\ work.calls <= work.attempts + (IF work.retried THEN 2 ELSE 1)
                         /\ work.attempts + (IF work.retried THEN 2 ELSE 1) <= MaxAttempts
  /\ phase = "synthesize" => assessment.verdict # "pass"

\* The pack holds admitted claims, and a provider is only asked for an analytical
\* report when one of those research found names a mechanism.
PackFits ==
  /\ pack \subseteq found.claims
  /\ synth.mechanism => \E c \in found.claims : c.causal
  /\ DOMAIN synth = {"failed", "complete", "answerable", "recovery", "mechanism"}
  /\ phase \in {"calling", "retry"} => (found.analytical => synth.mechanism)
  /\ phase = "settle" /\ result.ok => (found.analytical => synth.mechanism)
  /\ phase = "settle" => ~result.ok \/ result.report \in Reports
  /\ phase \in {"calling", "retry", "settle"} => synth.answerable = Answerable

\* What the fast path says is its fact or its refusal, and it is not repeated.
FastFits ==
  found.fast =>
    /\ phase \in Judged \cup {"synthesize"}
    /\ phase = "synthesize" => contract = NoContract /\ work.calls = 0
    /\ phase \in Judged =>
         IF found.fact THEN text.kind = "atomic" ELSE text = Refusal
    /\ phase = "route" => ~assessment.repairable

\* A text to be judged is a report, the deterministic answer or what is confirmed,
\* and the contract says of each question what supports it.
TextFits ==
  ~found.fast /\ phase \in Judged =>
    /\ synth.answerable = Answerable
    /\ text.kind = "report" /\ found.analytical => synth.mechanism
    /\ text.kind = "recovered" => synth.recovery
    /\ text.kind \in {"report", "recovered", "partial", "none"}
    /\ text.kind \in {"partial", "none"} => text.cites = {} /\ (CompleteAnswer => ~Answerable)
    /\ text.kind = "recovered" => text.cites \subseteq found.ledger
    /\ text.kind = "report" /\ Answerable /\ CompleteAnswer => ValidCitations(text)
    /\ Answerable => text # NoText

ContractFits ==
  ~found.fast /\ phase \in Judged /\ contract # NoContract /\ found.ledger # {} =>
    /\ Answerable
    /\ \A q \in Questions :
         /\ contract.answers[q].refs = Support(q)
         /\ contract.answers[q].refuses = text.refuses

\* The outcome is the contract's, and no later step changes what it was made of.
OutcomeFits ==
  /\ phase \in {"route", "finalize", "ended"} =>
       assessment.outcome = CompletionOutcome(contract, text = NoText \/ ValidCitations(text))
  /\ outcome = IF phase = "ended" THEN assessment.outcome ELSE "none"

ShapeFits ==
  /\ text \in Texts
  /\ contract = NoContract \/ DOMAIN contract.answers = Questions

Inductive ==
  /\ found \in Findings
  /\ CallsFit /\ PackFits /\ FastFits /\ TextFits /\ ContractFits /\ OutcomeFits /\ ShapeFits

-----------------------------------------------------------------------------
(* What the constants and research leave to rely on.                       *)

\* Research's findings in the form the proofs use: what is admitted rests on the
\* ledger, and without a judgement nothing was found.
LEMMA FindingFacts ==
  ASSUME found \in Findings
  PROVE  /\ found.fast \in BOOLEAN /\ found.fact \in BOOLEAN
         /\ found.analytical \in BOOLEAN /\ found.primary \in BOOLEAN
         /\ found.conflict \in BOOLEAN
         /\ found.judgement.rows \in BOOLEAN /\ found.judgement.gaps \in BOOLEAN
         /\ found.judgement.blocked \in BOOLEAN /\ found.judgement.sufficient \in BOOLEAN
         /\ found.claims \subseteq Claims /\ found.ledger \subseteq Evidence
         /\ found.strays \subseteq Strays
         /\ \A c \in found.claims : c.refs \subseteq found.ledger
         /\ found.fact => found.fast
         /\ ~found.judgement.rows => found.ledger = {}
  BY DEF Findings, Judgements

\* No step changes what research found.
LEMMA FoundStays == [Next]_vars => found' = found
  BY DEF Next, vars, SynthesizeAtomicFact, PrepareSynthesis, ProviderAnswers, ProviderFails,
     CompactRetry, SettleSynthesis, QualityGate, RouteAfterQuality, Finalize, Done

\* What follows from the findings alone is the same after a step.
LEMMA SupportStays ==
  ASSUME found' = found
  PROVE  /\ \A q : Support(q)' = Support(q)
         /\ Answerable' = Answerable
         /\ CompleteAnswer' = CompleteAnswer
         /\ Registered' = Registered
<1>1. \A q : Supporting(q)' = Supporting(q)
  BY DEF Supporting
<1>2. \A q : Support(q)' = Support(q)
  BY <1>1 DEF Support
<1>3. Answerable' = Answerable
  BY <1>2 DEF Answerable, AnswerableQuestion
<1>4. \A q : RecoveredType(q)' = RecoveredType(q)
  BY <1>1, <1>2 DEF RecoveredType
<1>5. CompleteAnswer' = CompleteAnswer
  BY <1>1, <1>4 DEF CompleteAnswer
<1>6. Registered' = Registered
  BY DEF Registered
<1> QED
  BY <1>2, <1>3, <1>5, <1>6

\* Every pack is made of admitted claims.
LEMMA PacksAreAdmitted ==
  \A cap, room : \A P \in Packs(cap, room) : P \subseteq found.claims
  BY DEF Packs, Selections

\* Support is of the ledger, and a question has it only by an admitted claim.
LEMMA SupportOnLedger ==
  \A q : /\ Support(q) \subseteq found.ledger
         /\ Support(q) # {} => found.claims # {}
  BY DEF Support, Supporting

\* What can be answered was found.
LEMMA AnswerableFound == Answerable => found.claims # {} /\ found.ledger # {}
  BY SupportOnLedger, QuestionsAssumption DEF Answerable, AnswerableQuestion

-----------------------------------------------------------------------------
\* Initially nothing is written.
LEMMA InductiveInit == Init => Inductive
<1> SUFFICES ASSUME Init PROVE Inductive
  OBVIOUS
<1>1. CallsFit
  BY DEF Init, CallsFit, Phases, Judged, NoAssessment, MaxAttempts
<1>2. PackFits
  BY DEF Init, PackFits
<1>3. FastFits /\ TextFits /\ ContractFits /\ OutcomeFits
  BY DEF Init, FastFits, TextFits, ContractFits, OutcomeFits, Judged
<1>4. ShapeFits
  BY DEF Init, ShapeFits, Texts, NoText, Flaws, Sources
<1> QED
  BY <1>1, <1>2, <1>3, <1>4 DEF Inductive, Init

\* Every step keeps the calls within the attempts.
LEMMA CallsStep == Inductive /\ [Next]_vars => CallsFit'
<1> SUFFICES ASSUME Inductive, [Next]_vars PROVE CallsFit'
  OBVIOUS
<1> USE DEF CallsFit, Phases, Judged, MaxAttempts
<1>0. CallsFit
  BY DEF Inductive
<1>1. CASE SynthesizeAtomicFact
  <2>1. work' = [work EXCEPT !.attempts = 1] /\ phase = "synthesize" /\ phase' = "quality"
    BY <1>0, <1>1 DEF SynthesizeAtomicFact
  <2>2. work.calls = 0
    BY <1>1 DEF SynthesizeAtomicFact, FastFits, Inductive
  <2>3. work'.attempts = 1 /\ work'.calls = 0
    BY <1>0, <2>1, <2>2
  <2>4. work' \in [attempts : Nat, calls : Nat, low : BOOLEAN, retried : BOOLEAN]
    BY <1>0, <2>1
  <2>5. phase' \in Phases /\ work'.calls <= work'.attempts /\ work'.attempts <= MaxAttempts
    BY <2>1, <2>3
  <2> QED
    BY <2>1, <2>4, <2>5
<1>2. CASE PrepareSynthesis
  <2>1. PICK low \in BOOLEAN : work' = [work EXCEPT !.low = low, !.retried = FALSE]
    BY <1>2 DEF PrepareSynthesis
  <2>2. phase = "synthesize" /\ phase' \in {"calling", "settle"}
    BY <1>2 DEF PrepareSynthesis
  <2>3. /\ work' \in [attempts : Nat, calls : Nat, low : BOOLEAN, retried : BOOLEAN]
        /\ work'.attempts = work.attempts /\ work'.calls = work.calls /\ work'.retried = FALSE
    BY <1>0, <2>1
  <2> QED
    BY <1>0, <2>2, <2>3
<1>3. CASE ProviderAnswers
  BY <1>0, <1>3 DEF ProviderAnswers, Called, Least
<1>4. CASE ProviderFails
  <2>1. /\ work' = [work EXCEPT !.calls = IF work.calls + 1 < MaxAttempts + 1
                                          THEN work.calls + 1 ELSE MaxAttempts + 1]
        /\ phase = "calling" /\ phase' \in {"retry", "settle"}
        /\ phase' = "retry" => ~work.retried /\ ~(work.attempts >= 2)
    BY <1>0, <1>4 DEF ProviderFails, Called, Least, RetryAllowed, ReportRepair
  <2>2. /\ work' \in [attempts : Nat, calls : Nat, low : BOOLEAN, retried : BOOLEAN]
        /\ work'.calls <= work.calls + 1
        /\ work'.attempts = work.attempts /\ work'.retried = work.retried
    BY <1>0, <2>1
  <2> QED
    BY <1>0, <2>1, <2>2
<1>5. CASE CompactRetry
  <2>1. /\ work' = [work EXCEPT !.retried = TRUE]
        /\ phase = "retry" /\ phase' \in {"calling", "settle"}
    BY <1>5 DEF CompactRetry
  <2>2. /\ work' \in [attempts : Nat, calls : Nat, low : BOOLEAN, retried : BOOLEAN]
        /\ work'.attempts = work.attempts /\ work'.calls = work.calls /\ work'.retried = TRUE
    BY <1>0, <2>1
  <2> QED
    BY <1>0, <2>1, <2>2
<1>6. CASE SettleSynthesis
  <2>1. PICK used \in {1, 2} : /\ used = IF work.retried THEN 2 ELSE 1
                              /\ work' = [work EXCEPT !.attempts = work.attempts + used, !.retried = FALSE]
    BY <1>6 DEF SettleSynthesis, AttemptsUsed
  <2>2. phase = "settle" /\ phase' = "quality"
    BY <1>6 DEF SettleSynthesis
  <2> DEFINE n == work.attempts + used
  <2>3. /\ work' \in [attempts : Nat, calls : Nat, low : BOOLEAN, retried : BOOLEAN]
        /\ work'.attempts = work.attempts + used /\ work'.calls = work.calls
    <3>1. n \in Nat /\ work' = [work EXCEPT !.attempts = n, !.retried = FALSE]
      BY <1>0, <2>1
    <3> HIDE DEF n
    <3>2. /\ work' \in [attempts : Nat, calls : Nat, low : BOOLEAN, retried : BOOLEAN]
          /\ work'.attempts = n /\ work'.calls = work.calls
      BY <1>0, <3>1
    <3> QED
      BY <3>2 DEF n
  <2>4. work.calls <= work.attempts + used /\ work.attempts + used <= MaxAttempts
    BY <1>0, <2>1, <2>2
  <2> QED
    BY <1>0, <2>2, <2>3, <2>4
<1>7. CASE QualityGate
  BY <1>0, <1>7 DEF QualityGate
<1>8. CASE RouteAfterQuality
  BY <1>0, <1>8 DEF RouteAfterQuality
<1>9. CASE Finalize
  BY <1>0, <1>9 DEF Finalize
<1>10. CASE UNCHANGED vars
  BY <1>0, <1>10 DEF vars
<1> QED
  BY <1>0, <1>1, <1>2, <1>3, <1>4, <1>5, <1>6, <1>7, <1>8, <1>9, <1>10 DEF Next, Done

\* Every step keeps the pack admitted and the mechanism real.
LEMMA PackStep == Inductive /\ [Next]_vars => PackFits'
<1> SUFFICES ASSUME Inductive, [Next]_vars PROVE PackFits'
  OBVIOUS
<1> USE FoundStays, SupportStays, FindingFacts DEF Inductive, PackFits, Judged
<1>1. CASE SynthesizeAtomicFact
  BY <1>1 DEF SynthesizeAtomicFact
<1>2. CASE PrepareSynthesis
  BY <1>2, PacksAreAdmitted DEF PrepareSynthesis, Refused, NoResult, Stopped, InsightGateFails, HasMechanism
<1>3. CASE ProviderAnswers
  BY <1>3 DEF ProviderAnswers
<1>4. CASE ProviderFails
  BY <1>4 DEF ProviderFails, Stopped
<1>5. CASE CompactRetry
  BY <1>5, PacksAreAdmitted DEF CompactRetry, NoResult, Stopped
<1>6. CASE SettleSynthesis
  BY <1>6 DEF SettleSynthesis
<1>7. CASE QualityGate
  BY <1>7 DEF QualityGate
<1>8. CASE RouteAfterQuality
  BY <1>8 DEF RouteAfterQuality
<1>9. CASE Finalize
  BY <1>9 DEF Finalize
<1>10. CASE UNCHANGED vars
  BY <1>10 DEF vars
<1> QED
  BY <1>1, <1>2, <1>3, <1>4, <1>5, <1>6, <1>7, <1>8, <1>9, <1>10 DEF Next, Done

\* Every step keeps the fast path to its one answer.
LEMMA FastStep == Inductive /\ [Next]_vars => FastFits'
<1> SUFFICES ASSUME Inductive, [Next]_vars PROVE FastFits'
  OBVIOUS
<1> USE FoundStays, FindingFacts DEF Inductive, FastFits, Judged
<1>1. CASE SynthesizeAtomicFact
  BY <1>1 DEF SynthesizeAtomicFact, AtomicText, NoText
<1>2. CASE PrepareSynthesis
  BY <1>2 DEF PrepareSynthesis
<1>3. CASE ProviderAnswers
  BY <1>3 DEF ProviderAnswers
<1>4. CASE ProviderFails
  BY <1>4 DEF ProviderFails
<1>5. CASE CompactRetry
  BY <1>5 DEF CompactRetry
<1>6. CASE SettleSynthesis
  BY <1>6 DEF SettleSynthesis
<1>7. CASE QualityGate
  BY <1>7 DEF QualityGate, Repairable
<1>8. CASE RouteAfterQuality
  BY <1>8 DEF RouteAfterQuality
<1>9. CASE Finalize
  BY <1>9 DEF Finalize
<1>10. CASE UNCHANGED vars
  BY <1>10 DEF vars
<1> QED
  BY <1>1, <1>2, <1>3, <1>4, <1>5, <1>6, <1>7, <1>8, <1>9, <1>10 DEF Next, Done

-----------------------------------------------------------------------------
(* The text, the contract and the outcome.                                 *)

\* A text composed of what the provider, recovery or the findings give.
LEMMA SettledText ==
  ASSUME Inductive, phase = "settle", NEW covered \in BOOLEAN, NEW flaw \in TemplateFlaws,
         NEW recovered, recovered = RecoveredText(covered, flaw),
         NEW written, written = Composed(recovered, PartialText(flaw)),
         NEW t, t = IF Rescued(written) THEN recovered ELSE written
  PROVE  /\ t \in Texts
         /\ t.kind \in {"report", "recovered", "partial", "none"}
         /\ t.kind = "report" => result.ok /\ ~Rescued(written)
         /\ t.kind = "recovered" <=> (Rescued(written) \/ (~result.ok /\ Answerable /\ CompleteAnswer))
         /\ t.kind \in {"partial", "none"} =>
              t.cites = {} /\ ~t.refuses /\ ~result.ok /\ ~(Answerable /\ CompleteAnswer)
         /\ t.kind = "recovered" => t.cites \subseteq found.ledger /\ ~t.refuses
         /\ t.kind = "report" /\ Answerable /\ CompleteAnswer => ValidCitations(t)
         /\ Answerable => t # NoText
<1> USE FindingFacts, DeliveryAssumption DEF Inductive
<1>1. UNION {Support(q) : q \in Questions} \subseteq found.ledger
  BY SupportOnLedger
<1>2. /\ recovered \in Texts /\ recovered.kind = "recovered"
      /\ recovered.cites \subseteq found.ledger /\ recovered.refuses = FALSE
  BY <1>1 DEF RecoveredText, Texts, Sources
<1>3. /\ PartialText(flaw) \in Texts /\ PartialText(flaw).kind \in {"partial", "none"}
      /\ PartialText(flaw).cites = {} /\ PartialText(flaw).refuses = FALSE
      /\ Answerable => PartialText(flaw).kind = "partial"
  BY AnswerableFound DEF PartialText, NoText, Texts, Flaws
<1>4. ASSUME result.ok
      PROVE  written \in Texts /\ written.kind = "report"
  <2>1. written = Written(result.report) /\ result.report \in Reports
    BY <1>4 DEF Composed, PackFits
  <2>2. /\ UNION {c.refs \cap found.ledger : c \in pack} \subseteq Sources
        /\ Registered \subseteq Sources /\ {Bogus} \subseteq Sources
    BY DEF Registered, Sources
  <2>3. Written(result.report).cites \subseteq Sources /\ Written(result.report).lists \subseteq Sources
    BY <2>2 DEF Written
  <2> QED
    BY <2>1, <2>3, ReportsAssumption DEF Written, Texts
<1>5. CASE result.ok /\ Rescued(written)
  BY <1>2, <1>5 DEF NoText
<1>6. CASE result.ok /\ ~Rescued(written)
  BY <1>4, <1>6 DEF NoText, Rescued
<1>7. CASE ~result.ok /\ Answerable /\ CompleteAnswer
  BY <1>2, <1>7 DEF Composed, NoText
<1>8. CASE ~result.ok /\ ~(Answerable /\ CompleteAnswer)
  BY <1>3, <1>8 DEF Composed, NoText, Rescued
<1> QED
  BY <1>5, <1>6, <1>7, <1>8

\* Every step keeps the text one of the four, and what the gates know of it.
LEMMA TextStep == Inductive /\ [Next]_vars => TextFits'
<1> SUFFICES ASSUME Inductive, [Next]_vars PROVE TextFits'
  OBVIOUS
<1> USE FoundStays, SupportStays, FindingFacts DEF Inductive, Judged
<1>1. CASE SynthesizeAtomicFact
  BY <1>1 DEF SynthesizeAtomicFact, TextFits
<1>2. CASE PrepareSynthesis
  BY <1>2 DEF PrepareSynthesis, TextFits
<1>3. CASE ProviderAnswers
  BY <1>3 DEF ProviderAnswers, TextFits
<1>4. CASE ProviderFails
  BY <1>4 DEF ProviderFails, TextFits
<1>5. CASE CompactRetry
  BY <1>5 DEF CompactRetry, TextFits
<1>6. CASE SettleSynthesis
  <2>1. PICK covered \in BOOLEAN, flaw \in TemplateFlaws :
          LET recovered == RecoveredText(covered, flaw)
              written == Composed(recovered, PartialText(flaw))
              rescued == Rescued(written)
          IN  /\ text' = IF rescued THEN recovered ELSE written
              /\ synth' = [synth EXCEPT
                    !.failed = ~result.ok /\ ~rescued,
                    !.complete = Answerable /\ (result.ok \/ CompleteAnswer),
                    !.recovery = rescued \/ (~result.ok /\ Answerable /\ CompleteAnswer)]
    BY <1>6 DEF SettleSynthesis
  <2> DEFINE recovered == RecoveredText(covered, flaw)
             written == Composed(recovered, PartialText(flaw))
  <2>2. phase = "settle" /\ found' = found
    BY <1>6 DEF SettleSynthesis
  <2>3. /\ text' \in Texts
        /\ text'.kind \in {"report", "recovered", "partial", "none"}
        /\ text'.kind = "report" => result.ok
        /\ text'.kind = "recovered" => Rescued(written) \/ (~result.ok /\ Answerable /\ CompleteAnswer)
        /\ text'.kind \in {"partial", "none"} => text'.cites = {} /\ ~(Answerable /\ CompleteAnswer)
        /\ text'.kind = "recovered" => text'.cites \subseteq found.ledger
        /\ text'.kind = "report" /\ Answerable /\ CompleteAnswer => ValidCitations(text')
        /\ Answerable => text' # NoText
    BY <2>1, <2>2, SettledText
  <2>4. /\ synth'.answerable = Answerable
        /\ synth'.mechanism = synth.mechanism
        /\ synth'.recovery = (Rescued(written) \/ (~result.ok /\ Answerable /\ CompleteAnswer))
    BY <2>1, <2>2 DEF PackFits
  <2>5. result.ok => (found.analytical => synth.mechanism)
    BY <2>2 DEF PackFits
  <2>6. ValidCitations(text)' = ValidCitations(text')
    BY <2>2 DEF ValidCitations
  <2> QED
    BY <2>2, <2>3, <2>4, <2>5, <2>6 DEF TextFits
<1>7. CASE QualityGate
  BY <1>7 DEF QualityGate, TextFits, ValidCitations
<1>8. CASE RouteAfterQuality
  BY <1>8 DEF RouteAfterQuality, TextFits, ValidCitations
<1>9. CASE Finalize
  BY <1>9 DEF Finalize, TextFits, ValidCitations
<1>10. CASE UNCHANGED vars
  BY <1>10 DEF vars, TextFits, ValidCitations
<1> QED
  BY <1>1, <1>2, <1>3, <1>4, <1>5, <1>6, <1>7, <1>8, <1>9, <1>10 DEF Next, Done

\* Every step keeps the contract to what supports each question.
LEMMA ContractStep == Inductive /\ [Next]_vars => ContractFits'
<1> SUFFICES ASSUME Inductive, [Next]_vars PROVE ContractFits'
  OBVIOUS
<1> USE FoundStays, SupportStays, FindingFacts DEF Inductive, Judged
<1>1. CASE SynthesizeAtomicFact
  BY <1>1 DEF SynthesizeAtomicFact, ContractFits
<1>2. CASE PrepareSynthesis
  BY <1>2 DEF PrepareSynthesis, ContractFits
<1>3. CASE ProviderAnswers
  BY <1>3 DEF ProviderAnswers, ContractFits
<1>4. CASE ProviderFails
  BY <1>4 DEF ProviderFails, ContractFits
<1>5. CASE CompactRetry
  BY <1>5 DEF CompactRetry, ContractFits
<1>6. CASE SettleSynthesis
  <2>1. PICK covered \in BOOLEAN, flaw \in TemplateFlaws :
          LET recovered == RecoveredText(covered, flaw)
              written == Composed(recovered, PartialText(flaw))
              rescued == Rescued(written)
          IN  /\ text' = IF rescued THEN recovered ELSE written
              /\ contract' = SettledContract(rescued)
    BY <1>6 DEF SettleSynthesis
  <2> DEFINE written == Composed(RecoveredText(covered, flaw), PartialText(flaw))
  <2>2. phase = "settle" /\ found' = found
    BY <1>6 DEF SettleSynthesis
  <2>3. /\ text' \in Texts
        /\ text'.kind \in {"report", "recovered", "partial", "none"}
        /\ text'.kind = "report" => result.ok /\ ~Rescued(written)
        /\ text'.kind \in {"partial", "none"} => ~text'.refuses
        /\ text'.kind = "recovered" => ~text'.refuses
    BY <2>1, <2>2, SettledText
  <2>4. ASSUME contract' # NoContract
        PROVE  /\ Answerable /\ text'.kind # "report"
               /\ \E done \in {"yes", "no"} : contract' = RecoveredContract(done)
    BY <2>1, <2>3, <2>4 DEF SettledContract, Rescued
  <2>5. ASSUME contract' # NoContract
        PROVE  \A q \in Questions : /\ contract'.answers[q].refs = Support(q)
                                    /\ contract'.answers[q].refuses = FALSE
    BY <2>4, <2>5 DEF RecoveredContract
  <2>6. ASSUME contract' # NoContract PROVE text'.refuses = FALSE
    BY <2>3, <2>4, <2>6 DEF Texts
  <2> QED
    BY <2>2, <2>4, <2>5, <2>6 DEF ContractFits
<1>7. CASE QualityGate
  <2>1. PICK first \in FirstRecords : contract' = UpgradedContract(first)
    BY <1>7 DEF QualityGate
  <2>2. CASE contract' = contract
    BY <1>7, <2>2 DEF QualityGate, ContractFits
  <2>3. CASE contract' # contract
    <3>1. contract' = [answers |-> [q \in Questions |->
              [refs |-> IF found.fast THEN first ELSE Support(q), refuses |-> text.refuses]],
            complete |-> "unknown"] /\ ~(Strict /\ ~synth.answerable)
      BY <2>1, <2>3 DEF UpgradedContract
    <3>2. ~found.fast /\ found.ledger # {} => Answerable
      BY <1>7, <3>1 DEF QualityGate, Strict, TextFits
    <3> QED
      BY <1>7, <3>1, <3>2 DEF QualityGate, ContractFits
  <2> QED
    BY <2>2, <2>3
<1>8. CASE RouteAfterQuality
  BY <1>8 DEF RouteAfterQuality, ContractFits
<1>9. CASE Finalize
  BY <1>9 DEF Finalize, ContractFits
<1>10. CASE UNCHANGED vars
  BY <1>10 DEF vars, ContractFits
<1> QED
  BY <1>1, <1>2, <1>3, <1>4, <1>5, <1>6, <1>7, <1>8, <1>9, <1>10 DEF Next, Done


\* The outcome of a contract after a step that leaves what it is judged by.
LEMMA OutcomeStays ==
  ASSUME found' = found, text' = text, synth' = synth
  PROVE  /\ ValidCitations(text)' = ValidCitations(text)
         /\ CompletionOutcome(contract, text = NoText \/ ValidCitations(text))'
              = CompletionOutcome(contract', text = NoText \/ ValidCitations(text))
<1> USE SupportStays
<1>1. ValidCitations(text)' = ValidCitations(text)
  BY DEF ValidCitations
<1>2. Strict' = Strict /\ HighAuthority' = HighAuthority /\ TooFewAuthorities' = TooFewAuthorities
  BY DEF Strict, HighAuthority, TooFewAuthorities
<1>3. AuthorityRequired' = AuthorityRequired /\ CoverageBlocks' = CoverageBlocks
  BY <1>2 DEF AuthorityRequired, CoverageBlocks
<1>4. \A q : Answered(contract, q)' = Answered(contract', q)
  BY <1>2, <1>3 DEF Answered, Grounded
<1>5. \A b : CompletionPasses(contract, b)' = CompletionPasses(contract', b)
  BY <1>2, <1>3, <1>4 DEF CompletionPasses
<1>6. PartialPasses(contract)' = PartialPasses(contract')
  BY <1>4 DEF PartialPasses
<1>7. ReportVerdict(contract)' = ReportVerdict(contract')
  BY <1>2 DEF ReportVerdict
<1>8. \A b : StrictReview(contract, b)' = StrictReview(contract', b)
  BY <1>7 DEF StrictReview
<1> QED
  BY <1>1, <1>5, <1>6, <1>8 DEF CompletionOutcome

\* Every step keeps the outcome the contract's.
LEMMA OutcomeStep == Inductive /\ [Next]_vars => OutcomeFits'
<1> SUFFICES ASSUME Inductive, [Next]_vars PROVE OutcomeFits'
  OBVIOUS
<1> USE FoundStays DEF Inductive
<1>1. CASE SynthesizeAtomicFact
  BY <1>1 DEF SynthesizeAtomicFact, OutcomeFits
<1>2. CASE PrepareSynthesis
  BY <1>2 DEF PrepareSynthesis, OutcomeFits
<1>3. CASE ProviderAnswers
  BY <1>3 DEF ProviderAnswers, OutcomeFits
<1>4. CASE ProviderFails
  BY <1>4 DEF ProviderFails, OutcomeFits
<1>5. CASE CompactRetry
  BY <1>5 DEF CompactRetry, OutcomeFits
<1>6. CASE SettleSynthesis
  BY <1>6 DEF SettleSynthesis, OutcomeFits
<1>7. CASE QualityGate
  <2>1. /\ assessment'.outcome = CompletionOutcome(contract', text = NoText \/ ValidCitations(text))
        /\ phase = "quality" /\ phase' = "route"
        /\ UNCHANGED <<found, text, synth, outcome>>
    BY <1>7 DEF QualityGate
  <2> QED
    BY <2>1, OutcomeStays DEF OutcomeFits
<1>8. CASE RouteAfterQuality
  BY <1>8, OutcomeStays DEF RouteAfterQuality, OutcomeFits
<1>9. CASE Finalize
  BY <1>9, OutcomeStays DEF Finalize, OutcomeFits
<1>10. CASE UNCHANGED vars
  BY <1>10, OutcomeStays DEF vars, OutcomeFits
<1> QED
  BY <1>1, <1>2, <1>3, <1>4, <1>5, <1>6, <1>7, <1>8, <1>9, <1>10 DEF Next, Done

\* Every step keeps texts and contracts of their shape.
LEMMA ShapeStep == Inductive /\ [Next]_vars => ShapeFits'
<1> SUFFICES ASSUME Inductive, [Next]_vars PROVE ShapeFits'
  OBVIOUS
<1> USE FindingFacts DEF Inductive, ShapeFits
<1>1. CASE SynthesizeAtomicFact
  <2>1. /\ \A S \in SUBSET Registered, c \in BOOLEAN : AtomicText(S, c) \in Texts
        /\ Refusal \in Texts
    BY DEF AtomicText, Refusal, NoText, Texts, Flaws, Sources, Registered
  <2>2. text' \in Texts
    BY <1>1, <2>1 DEF SynthesizeAtomicFact
  <2> QED
    BY <1>1, <2>2 DEF SynthesizeAtomicFact
<1>2. CASE PrepareSynthesis
  BY <1>2 DEF PrepareSynthesis, NoText, Texts, Flaws, Sources
<1>3. CASE ProviderAnswers
  BY <1>3 DEF ProviderAnswers
<1>4. CASE ProviderFails
  BY <1>4 DEF ProviderFails
<1>5. CASE CompactRetry
  BY <1>5 DEF CompactRetry
<1>6. CASE SettleSynthesis
  <2>1. text' \in Texts
    BY <1>6, SettledText DEF SettleSynthesis
  <2>2. contract' = NoContract \/ DOMAIN contract'.answers = Questions
    BY <1>6 DEF SettleSynthesis, SettledContract, RecoveredContract
  <2> QED
    BY <2>1, <2>2
<1>7. CASE QualityGate
  <2>1. contract' = NoContract \/ DOMAIN contract'.answers = Questions
    BY <1>7 DEF QualityGate, UpgradedContract
  <2> QED
    BY <1>7, <2>1 DEF QualityGate
<1>8. CASE RouteAfterQuality
  BY <1>8 DEF RouteAfterQuality
<1>9. CASE Finalize
  BY <1>9 DEF Finalize
<1>10. CASE UNCHANGED vars
  BY <1>10 DEF vars
<1> QED
  BY <1>1, <1>2, <1>3, <1>4, <1>5, <1>6, <1>7, <1>8, <1>9, <1>10 DEF Next, Done

\* The invariant holds in every state.
LEMMA InductiveHolds == Spec => []Inductive
<1>1. Inductive /\ [Next]_vars => Inductive'
  BY FoundStays, CallsStep, PackStep, FastStep, TextStep, ContractStep, OutcomeStep, ShapeStep
  DEF Inductive, Findings
<1> QED
  BY <1>1, InductiveInit, PTL DEF Spec

-----------------------------------------------------------------------------
(* What the run promises.                                                  *)

\* A run whose contract passes is grounded: the questions have support, the text
\* binds to registered sources and is nobody's refusal.
LEMMA PassingIsGrounded ==
  ASSUME Inductive, phase = "ended", outcome = "success"
  PROVE  SuccessIsGrounded
<1> DEFINE cited == text = NoText \/ ValidCitations(text)
<1> USE FindingFacts DEF Inductive, Judged
<1>1. CompletionPasses(contract, cited) /\ (synth.recovery => StrictReview(contract, cited))
  BY DEF OutcomeFits, CompletionOutcome
<1>2. /\ text # NoText /\ ValidCitations(text)
      /\ \A q \in Questions : Answered(contract, q)
      /\ Strict => text.flaw # "broken"
  BY <1>1 DEF CompletionPasses
<1>3. /\ contract # NoContract /\ found.ledger # {}
      /\ \A q \in Questions : ~contract.answers[q].refuses
  BY <1>2, QuestionsAssumption DEF Answered, Grounded
<1>4. text.cites \subseteq Registered /\ text.cites = text.lists /\ text.covered /\ text.cites # {}
  BY <1>2, <1>3 DEF ValidCitations, Registered
<1>5. CASE found.fast
  <2>1. text # Refusal
    BY <1>4 DEF Refusal, NoText
  <2> QED
    BY <1>5, <2>1 DEF SuccessIsGrounded, FastFits
<1>6. CASE ~found.fast
  <2>1. Strict
    BY <1>3, <1>6 DEF Strict
  <2>2. Answerable /\ ~text.refuses
    BY <1>3, <1>6, QuestionsAssumption DEF ContractFits
  <2>3. found.analytical => synth.mechanism
    <3>1. text.kind \in {"report", "recovered"}
      BY <1>4, <1>6 DEF TextFits
    <3>2. CASE text.kind = "report"
      BY <1>6, <3>2 DEF TextFits
    <3>3. CASE text.kind = "recovered"
      BY <1>1, <1>6, <3>3 DEF TextFits, StrictReview
    <3> QED
      BY <3>1, <3>2, <3>3
  <2>4. found.analytical => \E c \in found.claims : c.causal
    BY <2>3 DEF PackFits
  <2>5. found.primary => \A q \in Questions : Support(q) \cap Authoritative # {}
    BY <1>2, <1>3, <1>6, <2>1 DEF AuthorityRequired, Answered, HighAuthority, ContractFits
  <2>6. text.kind = "recovered" => text.cites \subseteq found.ledger
    BY <1>6 DEF TextFits
  <2> QED
    BY <1>2, <1>4, <1>6, <2>1, <2>2, <2>4, <2>5, <2>6 DEF SuccessIsGrounded, Answerable
<1> QED
  BY <1>5, <1>6

\* Success is what the answer contract says it is (evaluate_completion,
\* node_quality_gate): every question supported by an admitted claim, a text that
\* cites registered sources and lists them (validate_citations; not all of them
\* need be admitted), a mechanism where one was asked for; and the provider is
\* called at most three times.
THEOREM SuccessEarned == Spec => []SuccessIsEarned
<1>1. Inductive => SuccessIsEarned
  <2> SUFFICES ASSUME Inductive PROVE SuccessIsEarned
    OBVIOUS
  <2> USE DEF Inductive
  <2>1. work.calls <= MaxAttempts /\ work.attempts <= MaxAttempts
    BY DEF CallsFit, Phases, Judged, MaxAttempts
  <2>2. CallsAreBounded
    BY <2>1 DEF CallsFit, CallsAreBounded
  <2>3. work \in [attempts : AttemptsSeen, calls : AttemptsSeen, low : BOOLEAN, retried : BOOLEAN]
    BY <2>1 DEF CallsFit, AttemptsSeen, MaxAttempts
  <2>4. outcome \in {"none", "success", "partial", "failed"}
    BY DEF OutcomeFits, CompletionOutcome
  <2>5. TypeOK
    BY <2>3, <2>4 DEF TypeOK, CallsFit, Phases, PackFits, ShapeFits
  <2>6. SuccessIsGrounded
    BY PassingIsGrounded DEF OutcomeFits, SuccessIsGrounded
  <2> QED
    BY <2>2, <2>5, <2>6 DEF SuccessIsEarned
<1> QED
  BY <1>1, InductiveHolds, PTL

\* What research found reaches the user (node_synthesize's recovery and citation
\* rescue): no failure of the provider, of the budget or of the citations turns an
\* answerable run into a failed or an empty one, and a complete answer cites no
\* number that the run gave to no source.
THEOREM AnswerableDelivered == Spec => []AnswerableIsDelivered
<1>1. Inductive => AnswerableIsDelivered
  <2> SUFFICES ASSUME Inductive, phase = "ended", ~found.fast, Answerable
               PROVE  /\ outcome # "failed" /\ text # NoText
                      /\ CompleteAnswer => text.kind # "partial" /\ text.cites \subseteq Registered
    BY DEF AnswerableIsDelivered
  <2> USE FindingFacts DEF Inductive, Judged
  <2>1. text # NoText /\ found.ledger # {}
    BY AnswerableFound DEF TextFits
  <2>2. outcome # "failed"
    BY <2>1 DEF OutcomeFits, CompletionOutcome, PartialPasses
  <2>3. CompleteAnswer => text.kind \in {"report", "recovered"}
    BY DEF TextFits
  <2>4. CompleteAnswer => text.cites \subseteq Registered
    BY <2>1, <2>3 DEF TextFits, ValidCitations, Registered
  <2> QED
    BY <2>1, <2>2, <2>3, <2>4
<1> QED
  BY <1>1, InductiveHolds, PTL

-----------------------------------------------------------------------------
(* AnswerUnits: induction over the numbers.                                *)

\* A set of numbers that is not empty has a least one.
LEMMA NatsHaveLeast ==
  ASSUME NEW T, T \subseteq Nat, T # {}
  PROVE  \E x \in T : \A y \in T : x <= y
<1>1. PICK x \in T : \A y \in T : ~(<<y, x>> \in OpToRel(<, Nat))
  BY NatLessThanWellFounded, WFMin, Zenon
<1>2. ASSUME NEW y \in T, y < x PROVE <<y, x>> \in OpToRel(<, Nat)
  BY <1>2 DEF OpToRel
<1>3. \A y \in T : ~(y < x)
  BY <1>1, <1>2
<1> QED BY <1>3

\* Every set of numbers that holds zero and the successor of each of its members
\* holds every number.
LEMMA SetInduction ==
  ASSUME NEW S, S \subseteq Nat, 0 \in S, \A n \in S : n + 1 \in S
  PROVE  S = Nat
<1> SUFFICES ASSUME NEW k \in Nat \ S PROVE FALSE
  OBVIOUS
<1>1. PICK x \in Nat \ S : \A y \in Nat \ S : x <= y
  BY NatsHaveLeast
<1>2. x - 1 \in Nat
  OBVIOUS
<1>3. x - 1 \in S
  BY <1>1, <1>2
<1> QED BY <1>2, <1>3

-----------------------------------------------------------------------------
(* Places and their ranks.                                                 *)

LEMMA UpToIsFinite ==
  ASSUME NEW S, S \subseteq Nat, IsFiniteSet(S), NEW i
  PROVE  /\ IsFiniteSet({j \in S : j <= i}) /\ Rank(i, S) \in Nat
         /\ Rank(i, S) <= Cardinality(S)
<1>1. {j \in S : j <= i} \in SUBSET S
  OBVIOUS
<1> QED BY <1>1, FS_Subset, FS_CardinalityType DEF Rank

LEMMA LeastRanksFirst ==
  ASSUME NEW S, S \subseteq Nat, NEW x \in S, \A y \in S : x <= y
  PROVE  Rank(x, S) = 1
<1>0. x \in Nat /\ \A y \in S : y \in Nat /\ x <= y
  OBVIOUS
<1>a. \A y \in S : y <= x <=> y = x
  BY <1>0
<1>1. {j \in S : j <= x} = {x}
  BY <1>a
<1> QED BY <1>1, FS_Singleton DEF Rank

\* Every rank up to the number of places is held by one of them.
LEMMA RanksExist ==
  ASSUME NEW S, S \subseteq Nat, IsFiniteSet(S), NEW n \in 1 .. Cardinality(S)
  PROVE  \E i \in S : Rank(i, S) = n
<1>0. Cardinality(S) \in Nat
  BY FS_CardinalityType
<1> DEFINE K == {k \in Nat : k + 1 <= Cardinality(S) => \E i \in S : Rank(i, S) = k + 1}
<1>1. 0 \in K
  <2> SUFFICES ASSUME 1 <= Cardinality(S) PROVE \E i \in S : Rank(i, S) = 1
    OBVIOUS
  <2>1. S # {}
    BY <1>0, FS_EmptySet
  <2>2. PICK x \in S : \A y \in S : x <= y
    BY <2>1, NatsHaveLeast
  <2> QED BY <2>2, LeastRanksFirst
<1>2. ASSUME NEW k \in K PROVE k + 1 \in K
  <2>0. k \in Nat
    OBVIOUS
  <2> SUFFICES ASSUME k + 2 <= Cardinality(S) PROVE \E i \in S : Rank(i, S) = k + 2
    BY <2>0
  <2>1. PICK i \in S : Rank(i, S) = k + 1
    BY <1>0, <2>0
  <2> DEFINE low == {j \in S : j <= i}
             high == {j \in S : ~(j <= i)}
  <2>2. Cardinality(low) = k + 1 /\ IsFiniteSet(low)
    BY <2>1, UpToIsFinite DEF Rank
  <2>3. high # {} /\ high \subseteq Nat
    <3>1. high = {} => low = S
      OBVIOUS
    <3> HIDE DEF low, high
    <3>2. high # {}
      BY <1>0, <2>0, <2>2, <3>1
    <3> QED BY <3>2 DEF high
  <2>4. PICK x \in high : \A y \in high : x <= y
    BY <2>3, NatsHaveLeast
  <2>5. x \in S /\ x \notin low /\ {j \in S : j <= x} = low \cup {x}
    <3>1. i \in Nat /\ x \in Nat /\ x \in S /\ ~(x <= i) /\ \A y \in S : y \in Nat
      BY <2>4
    <3>2. \A y \in S : ~(y <= i) => x <= y
      BY <2>4
    <3>3. \A y \in S : y <= x <=> (y <= i \/ y = x)
      BY <3>1, <3>2
    <3> QED BY <3>1, <3>3
  <2>6. Cardinality(low \cup {x}) = k + 2
    <3> HIDE DEF low
    <3> QED BY <2>0, <2>2, <2>5, FS_AddElement, SMTT(30)
  <2> QED BY <2>5, <2>6 DEF Rank
<1>3. K = Nat
  <2>1. K \subseteq Nat
    OBVIOUS
  <2> HIDE DEF K
  <2> QED BY <1>1, <1>2, <2>1, SetInduction
<1>4. n - 1 \in Nat /\ n - 1 + 1 = n /\ n <= Cardinality(S)
  BY <1>0
<1>5. n - 1 \in K
  BY <1>3, <1>4
<1> QED BY <1>4, <1>5

LEMMA FirstOfFits ==
  ASSUME NEW S, S \subseteq Nat, IsFiniteSet(S), NEW n \in Nat
  PROVE  FirstOf(n, S) \subseteq S /\ IsFiniteSet(FirstOf(n, S)) /\ Cardinality(FirstOf(n, S)) \in Nat
<1>1. FirstOf(n, S) \in SUBSET S
  BY DEF FirstOf
<1> QED BY <1>1, FS_Subset, FS_CardinalityType

LEMMA FirstOfSome ==
  ASSUME NEW S, S \subseteq Nat, S # {}, NEW n \in Nat \ {0}
  PROVE  FirstOf(n, S) # {}
<1>1. PICK x \in S : \A y \in S : x <= y
  BY NatsHaveLeast
<1>2. Rank(x, S) = 1
  BY <1>1, LeastRanksFirst
<1> QED BY <1>2 DEF FirstOf

LEMMA FirstOfEnough ==
  ASSUME NEW S, S \subseteq Nat, IsFiniteSet(S), NEW n \in Nat, Cardinality(S) >= n
  PROVE  Cardinality(FirstOf(n, S)) >= n
<1>0. Cardinality(S) \in Nat /\ Cardinality(FirstOf(n, S)) \in Nat
  BY FirstOfFits, FS_CardinalityType
<1>1. CASE n = 0
  BY <1>0, <1>1
<1>2. CASE n # 0
  <2>1. PICK i \in S : Rank(i, S) = n
    <3>1. n \in 1 .. Cardinality(S)
      BY <1>0, <1>2
    <3> QED BY <3>1, RanksExist
  <2> DEFINE low == {j \in S : j <= i}
  <2>2. IsFiniteSet(low) /\ Cardinality(low) = n
    BY <2>1, UpToIsFinite DEF Rank
  <2>3. ASSUME NEW j \in low PROVE Rank(j, S) <= n
    <3>1. {k \in S : k <= j} \in SUBSET low
      <4>1. i \in Nat /\ j \in Nat /\ j <= i /\ \A k \in S : k \in Nat
        OBVIOUS
      <4>2. \A k \in S : k <= j => k <= i
        BY <4>1
      <4> QED BY <4>2
    <3> HIDE DEF low
    <3> QED BY <2>2, <3>1, FS_Subset DEF Rank
  <2>4. low \in SUBSET FirstOf(n, S)
    BY <2>3 DEF FirstOf
  <2> HIDE DEF low
  <2>5. Cardinality(low) <= Cardinality(FirstOf(n, S))
    BY <2>4, FirstOfFits, FS_Subset
  <2> QED BY <1>0, <2>2, <2>5
<1> QED BY <1>1, <1>2

\* More places at the end do not change which ones are first.
LEMMA FirstOfGrows ==
  ASSUME NEW S, NEW T, T \subseteq Nat, IsFiniteSet(T), S \subseteq T,
         \A x \in T \ S : \A y \in S : ~(x <= y), NEW n \in Nat
  PROVE  Cardinality(FirstOf(n, S)) <= Cardinality(FirstOf(n, T))
<1>1. FirstOf(n, S) \subseteq FirstOf(n, T)
  <2> SUFFICES ASSUME NEW i \in S, Rank(i, S) <= n PROVE Rank(i, T) <= n
    BY DEF FirstOf
  <2>1. {j \in T : j <= i} = {j \in S : j <= i}
    OBVIOUS
  <2> QED BY <2>1 DEF Rank
<1>2. FirstOf(n, S) \in SUBSET FirstOf(n, T)
  BY <1>1
<1> QED BY <1>2, FirstOfFits, FS_Subset

-----------------------------------------------------------------------------
(* What is counted and what is rendered.                                   *)

LEMMA DistinctFits ==
  ASSUME NEW ask, NEW us, NEW S, S \subseteq Nat
  PROVE  Distinct(ask, us, S) \subseteq S /\ (S # {} => Distinct(ask, us, S) # {})
<1>1. FirstOfEntity(us, S) \subseteq S
  BY DEF FirstOfEntity
<1>2. ASSUME S # {} PROVE FirstOfEntity(us, S) # {}
  <2>1. PICK x \in S : \A y \in S : x <= y
    BY <1>2, NatsHaveLeast
  <2> QED BY <2>1 DEF FirstOfEntity
<1> QED BY <1>1, <1>2 DEF Distinct

\* The channel of the units is a sequence.
IsList(us) == Len(us) \in Nat /\ us = [i \in 1 .. Len(us) |-> us[i]]
Extends(us, vs) ==
  Len(us) <= Len(vs) /\ \A i \in 1 .. Len(us) : vs[i] = us[i]

LEMMA PlacesFit ==
  ASSUME NEW us, IsList(us), NEW ask
  PROVE  /\ ValidUnits(us, ask) \subseteq 1 .. Len(us) /\ ValidUnits(us, ask) \subseteq Nat
         /\ IsFiniteSet(ValidUnits(us, ask))
<1>1. DOMAIN us = 1 .. Len(us) /\ Len(us) \in Nat
  BY DEF IsList
<1>2. ValidUnits(us, ask) \in SUBSET (1 .. Len(us))
  BY <1>1 DEF ValidUnits
<1>3. IsFiniteSet(1 .. Len(us))
  BY <1>1, FS_Interval
<1> QED BY <1>1, <1>2, <1>3, FS_Subset

LEMMA CountFits ==
  ASSUME NEW us, IsList(us), NEW ask \in Asks
  PROVE  /\ Counted(us, ask) \in Nat
         /\ Counted(us, ask) >= 1 <=> Rendered(us, ask) # {}
         /\ Rendered(us, ask) \subseteq ValidUnits(us, ask)
         /\ IsFiniteSet(Rendered(us, ask)) /\ Cardinality(Rendered(us, ask)) \in Nat
<1> DEFINE V == ValidUnits(us, ask)
           C == FirstOf(Target[ask], Distinct(ask, us, V))
           R == Distinct(ask, us, FirstOf(Target[ask], V))
<1>0. Target[ask] \in Nat \ {0} /\ Target[ask] \in Nat
  BY TargetAssumption
<1>1. V \subseteq Nat /\ IsFiniteSet(V)
  BY PlacesFit
<1>2. Distinct(ask, us, V) \in SUBSET V
  BY <1>1, DistinctFits
<1>3. Distinct(ask, us, V) \subseteq Nat /\ IsFiniteSet(Distinct(ask, us, V))
  BY <1>1, <1>2, FS_Subset
<1>4. IsFiniteSet(C) /\ Cardinality(C) \in Nat /\ C \subseteq Distinct(ask, us, V)
  BY <1>0, <1>3, FirstOfFits
<1>5. FirstOf(Target[ask], V) \subseteq V
  BY <1>0, <1>1, FirstOfFits
<1>6. R \in SUBSET V /\ (FirstOf(Target[ask], V) # {} => R # {})
  BY <1>1, <1>5, DistinctFits
<1>7. IsFiniteSet(R) /\ Cardinality(R) \in Nat
  BY <1>1, <1>6, FS_Subset, FS_CardinalityType
<1>8. C # {} <=> V # {}
  <2>1. V # {} => Distinct(ask, us, V) # {}
    BY <1>1, DistinctFits
  <2>2. Distinct(ask, us, V) # {} => C # {}
    BY <1>0, <1>3, FirstOfSome
  <2> QED BY <1>2, <1>4, <2>1, <2>2
<1>9. R # {} <=> V # {}
  BY <1>0, <1>1, <1>6, FirstOfSome
<1>10. Cardinality(C) >= 1 <=> C # {}
  BY <1>4, FS_EmptySet
<1> QED BY <1>4, <1>6, <1>7, <1>8, <1>9, <1>10 DEF Counted, Rendered

\* What is counted in full is rendered in full, unless an entity is named twice
\* among the units that are rendered.
LEMMA FullIsRendered ==
  ASSUME IsList(units), NEW ask \in Asks, Counted(units, ask) >= Target[ask]
  PROVE  \/ Cardinality(Rendered(units, ask)) >= Target[ask]
         \/ ask \in Recommending /\ Repeats(ask)
<1> DEFINE V == ValidUnits(units, ask)
           D == Distinct(ask, units, V)
           F == FirstOf(Target[ask], V)
<1>0. Target[ask] \in Nat
  BY TargetAssumption
<1>1. V \subseteq Nat /\ IsFiniteSet(V)
  BY PlacesFit
<1>2. D \in SUBSET V
  BY <1>1, DistinctFits
<1>3. D \subseteq Nat /\ IsFiniteSet(D) /\ Cardinality(D) <= Cardinality(V)
      /\ Cardinality(D) \in Nat /\ Cardinality(V) \in Nat
  BY <1>1, <1>2, FS_Subset, FS_CardinalityType
<1>4. FirstOf(Target[ask], D) \in SUBSET D
  BY DEF FirstOf
<1>5. Cardinality(FirstOf(Target[ask], D)) <= Cardinality(D)
      /\ Cardinality(FirstOf(Target[ask], D)) \in Nat
  BY <1>3, <1>4, FS_Subset, FS_CardinalityType
<1>6. Cardinality(V) >= Target[ask]
  BY <1>0, <1>3, <1>5 DEF Counted
<1>7. Cardinality(F) >= Target[ask] /\ F \subseteq V
  BY <1>0, <1>1, <1>6, FirstOfEnough, FirstOfFits
<1>8. CASE ask \notin Recommending
  BY <1>7, <1>8 DEF Rendered, Distinct
<1>9. CASE ask \in Recommending /\ ~Repeats(ask)
  <2>1. \A i, j \in F : units[j].entity = units[i].entity => i = j
    BY <1>9 DEF Repeats
  <2>2. \A i, j \in F : i = j => i <= j
    BY <1>1, <1>7
  <2> HIDE DEF F
  <2>3. FirstOfEntity(units, F) = F
    BY <2>1, <2>2 DEF FirstOfEntity
  <2> QED BY <1>7, <1>9, <2>3 DEF Rendered, Distinct, F
<1> QED BY <1>8, <1>9

\* A unit more at the end never counts for less.
LEMMA CountGrows ==
  ASSUME NEW us, NEW vs, IsList(us), IsList(vs), Extends(us, vs), NEW ask \in Asks
  PROVE  Counted(us, ask) <= Counted(vs, ask)
<1> DEFINE V == ValidUnits(us, ask)
           W == ValidUnits(vs, ask)
           D == Distinct(ask, us, V)
           E == Distinct(ask, vs, W)
<1>0. Target[ask] \in Nat /\ Len(us) \in Nat /\ Len(vs) \in Nat /\ Len(us) <= Len(vs)
      /\ DOMAIN us = 1 .. Len(us) /\ DOMAIN vs = 1 .. Len(vs)
  BY TargetAssumption DEF IsList, Extends
<1>1. W \subseteq Nat /\ IsFiniteSet(W) /\ W \subseteq 1 .. Len(vs) /\ V \subseteq 1 .. Len(us)
  BY PlacesFit
<1>2. \A i \in 1 .. Len(us) : i \in V <=> i \in W
  BY <1>0 DEF Extends, ValidUnits
<1>3. V \subseteq W /\ \A x \in W \ V : x \in Nat /\ ~(x <= Len(us))
  BY <1>0, <1>1, <1>2
<1>4. E \in SUBSET W
  BY <1>1, DistinctFits
<1>5. E \subseteq Nat /\ IsFiniteSet(E)
  BY <1>1, <1>4, FS_Subset
<1>6. \A i \in V : i \in D <=> i \in E
  <2>1. CASE ask \notin Recommending
    BY <1>3, <2>1 DEF Distinct
  <2>2. CASE ask \in Recommending
    <3>1. \A i \in V : us[i] = vs[i]
      BY <1>1 DEF Extends
    <3>2. \A i \in V : \A j \in W \ V : i <= j
      BY <1>0, <1>1, <1>3
    <3> HIDE DEF V, W
    <3>3. \A i \in V : i \in FirstOfEntity(us, V) <=> i \in FirstOfEntity(vs, W)
      BY <1>3, <3>1, <3>2 DEF FirstOfEntity
    <3> QED BY <2>2, <3>3 DEF Distinct
  <2> QED BY <2>1, <2>2
<1>7. D \subseteq V
  BY <1>0, <1>1, <1>3, DistinctFits
<1>8. D \subseteq E /\ \A x \in E \ D : \A y \in D : ~(x <= y)
  <2>1. \A x \in E \ D : x \in W \ V
    BY <1>4, <1>6
  <2>2. \A y \in D : y \in 1 .. Len(us)
    BY <1>1, <1>7
  <2>3. \A x \in E \ D : x \in Nat /\ ~(x <= Len(us))
    BY <1>3, <2>1
  <2> HIDE DEF D, E, V, W
  <2> QED BY <1>0, <1>6, <1>7, <2>2, <2>3
<1> HIDE DEF D, E
<1>9. Cardinality(FirstOf(Target[ask], D)) <= Cardinality(FirstOf(Target[ask], E))
  BY <1>0, <1>5, <1>8, FirstOfGrows
<1> QED BY <1>9 DEF Counted, D, E

-----------------------------------------------------------------------------
(* Merging the updates of a wave.                                          *)

\* Every claim that is cited has its edges, and every edge leads to a claim that
\* cites its evidence.
UnitEdgesFit(cites, edges) ==
  /\ \A c \in DOMAIN cites : cites[c] \subseteq DOMAIN edges
  /\ \A e \in DOMAIN edges : edges[e] \in DOMAIN cites /\ e \in cites[edges[e]]

\* A unit of task t rests on claims of that task, if it is valid.
UnitFits(u, t, cites) ==
  /\ u.id[1] = t /\ u.ask = t[1]
  /\ u.valid => /\ u.rests # {} /\ u.rests \subseteq DOMAIN cites
                /\ \A c \in u.rests : c[1] = t

\* What the claims, edges and units of the tasks D look like.
LedgerFits(ch, D) ==
  /\ ch.claims \in [DOMAIN ch.claims -> SUBSET EvidenceIds]
  /\ DOMAIN ch.claims \subseteq UnitClaims /\ \A c \in DOMAIN ch.claims : c[1] \in D
  /\ DOMAIN ch.support \subseteq EvidenceIds /\ UnitEdgesFit(ch.claims, ch.support)
  /\ IsList(ch.units)
  /\ \A i \in 1 .. Len(ch.units) :
       ch.units[i].id[1] \in D /\ UnitFits(ch.units[i], ch.units[i].id[1], ch.claims)
  /\ \A i, j \in 1 .. Len(ch.units) : ch.units[i].id = ch.units[j].id => i = j

UpdateFits(t, u) == LedgerFits(u, {t})

LEMMA AllPicked ==
  ASSUME NEW us, IsList(us)
  PROVE  Picked(us, 1 .. Len(us)) = us
<1> DEFINE n == Len(us)
<1>0. n \in Nat /\ us = [k \in 1 .. n |-> us[k]]
  BY DEF IsList
<1> HIDE DEF n
<1>1. Cardinality(1 .. n) = n
  BY <1>0, FS_Interval
<1>2. ASSUME NEW i \in 1 .. n PROVE Rank(i, 1 .. n) = i
  <2>0. i \in Nat /\ 1 <= i /\ i <= n
    BY <1>0
  <2>1. \A j \in 1 .. n : j <= i <=> j \in 1 .. i
    BY <1>0, <2>0
  <2>2. \A j \in 1 .. i : j \in 1 .. n
    BY <1>0, <2>0
  <2>3. {j \in 1 .. n : j <= i} = 1 .. i
    BY <2>1, <2>2
  <2>4. Cardinality(1 .. i) = i
    BY <2>0, FS_Interval
  <2> QED BY <2>3, <2>4 DEF Rank
<1> DEFINE place(k) == CHOOSE i \in 1 .. n : Rank(i, 1 .. n) = k
<1>3. \A k \in 1 .. n : place(k) = k
  BY <1>2
<1>4. Picked(us, 1 .. n) = [k \in 1 .. n |-> us[place(k)]]
  BY <1>1, Zenon DEF Picked
<1> HIDE DEF place
<1>5. Picked(us, 1 .. n) = [k \in 1 .. n |-> us[k]]
  BY <1>3, <1>4
<1> QED BY <1>0, <1>5 DEF n

LEMMA SequencesAreLists ==
  ASSUME NEW S, NEW s \in Seq(S)
  PROVE  IsList(s)
BY DEF IsList

\* Units of other tasks are appended, in their order.
LEMMA MergeAppends ==
  ASSUME NEW left, NEW right, IsList(left), IsList(right),
         \A i \in 1 .. Len(left), j \in 1 .. Len(right) : left[i].id # right[j].id
  PROVE  LET m == MergeUnits(left, right) IN
         /\ IsList(m) /\ Len(m) = Len(left) + Len(right)
         /\ \A i \in 1 .. Len(left) : m[i] = left[i]
         /\ \A j \in 1 .. Len(right) : m[Len(left) + j] = right[j]
<1>0. /\ Len(left) \in Nat /\ Len(right) \in Nat
      /\ DOMAIN left = 1 .. Len(left) /\ DOMAIN right = 1 .. Len(right)
      /\ left = [i \in 1 .. Len(left) |-> left[i]] /\ right = [i \in 1 .. Len(right) |-> right[i]]
  BY DEF IsList
<1>1. \A i \in DOMAIN left : Same(right, left[i].id) = {}
  BY <1>0 DEF Same
<1>2. {j \in DOMAIN right : Same(left, right[j].id) = {}} = 1 .. Len(right)
  BY <1>0 DEF Same
<1>3. MergeUnits(left, right) = left \o right
  <2>1. [i \in DOMAIN left |->
           IF Same(right, left[i].id) = {} THEN left[i]
           ELSE right[CHOOSE j \in Same(right, left[i].id) : TRUE]] = left
    BY <1>0, <1>1
  <2>2. Picked(right, {j \in DOMAIN right : Same(left, right[j].id) = {}}) = right
    BY <1>2, AllPicked
  <2> QED BY <2>1, <2>2 DEF MergeUnits
<1> DEFINE S == {left[i] : i \in 1 .. Len(left)} \cup {right[i] : i \in 1 .. Len(right)}
<1>4. left \in Seq(S) /\ right \in Seq(S)
  <2>1. left \in [1 .. Len(left) -> S] /\ right \in [1 .. Len(right) -> S]
    BY <1>0
  <2> HIDE DEF S
  <2> QED BY <1>0, <2>1
<1> HIDE DEF S
<1>5. /\ left \o right \in Seq(S) /\ Len(left \o right) = Len(left) + Len(right)
      /\ \A i \in 1 .. Len(left) : (left \o right)[i] = left[i]
      /\ \A j \in 1 .. Len(right) : (left \o right)[Len(left) + j] = right[j]
  BY <1>0, <1>4
<1>6. IsList(left \o right)
  BY <1>5, SequencesAreLists
<1> QED BY <1>3, <1>5, <1>6

LEMMA UnitEdgesMerge ==
  ASSUME NEW cs, NEW es, NEW ds, NEW fs,
         UnitEdgesFit(cs, es), UnitEdgesFit(ds, fs), DOMAIN cs \cap DOMAIN ds = {}
  PROVE  UnitEdgesFit(MergeRecords(cs, ds), MergeRecords(es, fs))
<1> DEFINE c == MergeRecords(cs, ds)
           e == MergeRecords(es, fs)
<1>1. /\ DOMAIN c = DOMAIN cs \cup DOMAIN ds
      /\ \A x \in DOMAIN ds : c[x] = ds[x]
      /\ \A x \in DOMAIN cs : c[x] = cs[x]
  BY DEF MergeRecords
<1>2. /\ DOMAIN e = DOMAIN es \cup DOMAIN fs
      /\ \A x \in DOMAIN fs : e[x] = fs[x]
      /\ \A x \in DOMAIN es \ DOMAIN fs : e[x] = es[x]
  BY DEF MergeRecords
<1> HIDE DEF c, e
<1>3. UnitEdgesFit(c, e)
  BY <1>1, <1>2 DEF UnitEdgesFit
<1> QED BY <1>3 DEF c, e

LEMMA MergeFits ==
  ASSUME NEW ch, NEW u, NEW D, NEW t, t \notin D, LedgerFits(ch, D), UpdateFits(t, u)
  PROVE  /\ LedgerFits(MergeUpdate(ch, u), D \cup {t})
         /\ Extends(ch.units, MergeUpdate(ch, u).units)
<1> DEFINE m == MergeUpdate(ch, u)
           left == ch.units
           right == u.units
<1>1. /\ m.claims = MergeRecords(ch.claims, u.claims)
      /\ m.support = MergeRecords(ch.support, u.support)
      /\ m.units = MergeUnits(left, right)
  BY DEF MergeUpdate
<1>2. LedgerFits(ch, D) /\ LedgerFits(u, {t})
  BY DEF UpdateFits
<1>3. /\ IsList(left) /\ IsList(right)
      /\ \A i \in 1 .. Len(left) : left[i].id[1] \in D /\ UnitFits(left[i], left[i].id[1], ch.claims)
      /\ \A i \in 1 .. Len(right) : right[i].id[1] = t /\ UnitFits(right[i], right[i].id[1], u.claims)
      /\ \A i, j \in 1 .. Len(left) : left[i].id = left[j].id => i = j
      /\ \A i, j \in 1 .. Len(right) : right[i].id = right[j].id => i = j
  BY <1>2 DEF LedgerFits
<1>4. \A i \in 1 .. Len(left), j \in 1 .. Len(right) : left[i].id # right[j].id
  BY <1>3
<1> HIDE DEF m, left, right
<1>5. /\ IsList(m.units) /\ Len(m.units) = Len(left) + Len(right)
      /\ \A i \in 1 .. Len(left) : m.units[i] = left[i]
      /\ \A j \in 1 .. Len(right) : m.units[Len(left) + j] = right[j]
  BY <1>1, <1>3, <1>4, MergeAppends
<1>6. Len(left) \in Nat /\ Len(right) \in Nat
  BY <1>3 DEF IsList
<1>7. DOMAIN m.claims = DOMAIN ch.claims \cup DOMAIN u.claims
  BY <1>1 DEF MergeRecords
<1>8. ASSUME NEW i \in 1 .. Len(m.units)
      PROVE  \/ i \in 1 .. Len(left) /\ m.units[i] = left[i]
             \/ \E j \in 1 .. Len(right) : i = Len(left) + j /\ m.units[i] = right[j]
  <2>1. CASE i <= Len(left)
    BY <1>5, <1>6, <2>1
  <2>2. CASE ~(i <= Len(left))
    <3>1. i - Len(left) \in 1 .. Len(right) /\ i = Len(left) + (i - Len(left))
      BY <1>5, <1>6, <2>2
    <3> QED BY <1>5, <3>1
  <2> QED BY <2>1, <2>2
<1>9. ASSUME NEW i \in 1 .. Len(m.units)
      PROVE  m.units[i].id[1] \in D \cup {t} /\ UnitFits(m.units[i], m.units[i].id[1], m.claims)
  <2>1. CASE i \in 1 .. Len(left) /\ m.units[i] = left[i]
    BY <1>3, <1>7, <2>1 DEF UnitFits
  <2>2. ASSUME NEW j \in 1 .. Len(right), m.units[i] = right[j]
        PROVE  m.units[i].id[1] \in D \cup {t} /\ UnitFits(m.units[i], m.units[i].id[1], m.claims)
    BY <1>3, <1>7, <2>2 DEF UnitFits
  <2> QED BY <1>8, <2>1, <2>2
<1>10. ASSUME NEW i \in 1 .. Len(m.units), NEW j \in 1 .. Len(m.units),
              m.units[i].id = m.units[j].id
       PROVE  i = j
  <2>1. CASE i \in 1 .. Len(left) /\ m.units[i] = left[i]
    <3>1. CASE j \in 1 .. Len(left) /\ m.units[j] = left[j]
      BY <1>3, <1>10, <2>1, <3>1
    <3>2. ASSUME NEW k \in 1 .. Len(right), m.units[j] = right[k] PROVE FALSE
      BY <1>4, <1>10, <2>1, <3>2
    <3> QED BY <1>8, <3>1, <3>2
  <2>2. ASSUME NEW k \in 1 .. Len(right), i = Len(left) + k, m.units[i] = right[k]
        PROVE  i = j
    <3>1. CASE j \in 1 .. Len(left) /\ m.units[j] = left[j]
      BY <1>4, <1>10, <2>2, <3>1
    <3>2. ASSUME NEW l \in 1 .. Len(right), j = Len(left) + l, m.units[j] = right[l] PROVE i = j
      BY <1>3, <1>10, <2>2, <3>2
    <3> QED BY <1>8, <3>1, <3>2
  <2> QED BY <1>8, <2>1, <2>2
<1>11. /\ m.claims \in [DOMAIN m.claims -> SUBSET EvidenceIds]
       /\ DOMAIN m.claims \subseteq UnitClaims /\ \A c \in DOMAIN m.claims : c[1] \in D \cup {t}
  BY <1>1, <1>2 DEF LedgerFits, MergeRecords
<1>12. DOMAIN m.support \subseteq EvidenceIds /\ UnitEdgesFit(m.claims, m.support)
  <2>1. DOMAIN ch.claims \cap DOMAIN u.claims = {}
    BY <1>2 DEF LedgerFits
  <2>2. UnitEdgesFit(m.claims, m.support)
    BY <1>1, <1>2, <2>1, UnitEdgesMerge DEF LedgerFits
  <2> QED BY <1>1, <1>2, <2>2 DEF LedgerFits, MergeRecords
<1>13. LedgerFits(m, D \cup {t})
  BY <1>5, <1>9, <1>10, <1>11, <1>12 DEF LedgerFits
<1>14. Extends(ch.units, m.units)
  BY <1>5, <1>6 DEF Extends, left
<1> QED BY <1>13, <1>14 DEF m

\* The fold of the updates exists: each stage is the merge of the one before.
FoldingUpdates(g, ch, us, n) ==
  g = [i \in 0 .. n |-> IF i = 0 THEN ch ELSE MergeUpdate(g[i - 1], us[i])]

LEMMA UpdatesFold ==
  ASSUME NEW ch, NEW us, NEW n \in Nat
  PROVE  \E g : FoldingUpdates(g, ch, us, n)
<1> DEFINE S == {m \in Nat : \E g : FoldingUpdates(g, ch, us, m)}
<1>1. 0 \in S
  <2>1. FoldingUpdates([i \in 0 .. 0 |-> ch], ch, us, 0)
    BY DEF FoldingUpdates
  <2> QED BY <2>1
<1>2. ASSUME NEW m \in S PROVE m + 1 \in S
  <2>1. PICK g : FoldingUpdates(g, ch, us, m)
    OBVIOUS
  <2> DEFINE h == [i \in 0 .. m + 1 |->
                     IF i = m + 1 THEN MergeUpdate(g[m], us[m + 1]) ELSE g[i]]
  <2>2. FoldingUpdates(h, ch, us, m + 1)
    <3>1. ASSUME NEW i \in 0 .. m + 1
          PROVE  h[i] = IF i = 0 THEN ch ELSE MergeUpdate(h[i - 1], us[i])
      <4>0. m \in Nat
        OBVIOUS
      <4>1. CASE i = m + 1
        BY <4>0, <4>1
      <4>2. CASE i # m + 1
        <5>1. i \in 0 .. m /\ h[i] = g[i] /\ (i # 0 => h[i - 1] = g[i - 1])
          BY <4>0, <4>2
        <5>2. g[i] = IF i = 0 THEN ch ELSE MergeUpdate(g[i - 1], us[i])
          BY <2>1, <5>1 DEF FoldingUpdates
        <5> QED BY <5>1, <5>2
      <4> QED BY <4>1, <4>2
    <3> HIDE DEF h
    <3>2. h = [i \in 0 .. m + 1 |-> h[i]]
      BY DEF h
    <3> QED BY <3>1, <3>2, Zenon DEF FoldingUpdates
  <2> QED BY <2>2
<1>3. S = Nat
  <2> HIDE DEF S
  <2>1. S \subseteq Nat
    BY DEF S
  <2> QED BY <1>1, <1>2, <2>1, SetInduction
<1> QED BY <1>3

LEMMA FoldOfUpdates ==
  ASSUME NEW ch, NEW us, Len(us) \in Nat
  PROVE  \E g : FoldingUpdates(g, ch, us, Len(us)) /\ FoldUpdates(ch, us) = g[Len(us)]
<1> DEFINE g == CHOOSE f : FoldingUpdates(f, ch, us, Len(us))
<1>1. FoldingUpdates(g, ch, us, Len(us))
  BY UpdatesFold
<1>2. FoldUpdates(ch, us) = g[Len(us)]
  BY DEF FoldUpdates, FoldingUpdates
<1> QED BY <1>1, <1>2

LEMMA ExtendsFarther ==
  ASSUME NEW us, NEW vs, NEW ws, IsList(us), IsList(vs), IsList(ws), Extends(us, vs), Extends(vs, ws)
  PROVE  Extends(us, ws)
BY DEF IsList, Extends

\* What the fold of a wave leaves, in whichever order its tasks come.
LEMMA WaveMerges ==
  ASSUME NEW ch, NEW D, LedgerFits(ch, D), NEW us, Len(us) \in Nat,
         NEW order, \A i \in 1 .. Len(us) : order[i] \notin D /\ UpdateFits(order[i], us[i]),
         \A i, j \in 1 .. Len(us) : order[i] = order[j] => i = j
  PROVE  /\ LedgerFits(FoldUpdates(ch, us), D \cup {order[i] : i \in 1 .. Len(us)})
         /\ Extends(ch.units, FoldUpdates(ch, us).units)
<1> DEFINE n == Len(us)
           done(i) == D \cup {order[j] : j \in 1 .. i}
<1>1. PICK g : FoldingUpdates(g, ch, us, n) /\ FoldUpdates(ch, us) = g[n]
  BY FoldOfUpdates
<1> DEFINE S == {i \in Nat : i <= n => LedgerFits(g[i], done(i)) /\ Extends(ch.units, g[i].units)}
<1>2. g[0] = ch /\ \A i \in 1 .. n : g[i] = MergeUpdate(g[i - 1], us[i])
  BY <1>1 DEF FoldingUpdates
<1>a. IsList(ch.units)
  BY DEF LedgerFits
<1>3. 0 \in S
  <2>1. done(0) = D
    OBVIOUS
  <2>2. Extends(ch.units, ch.units)
    BY <1>a DEF Extends, IsList
  <2> HIDE DEF done
  <2> QED BY <1>2, <2>1, <2>2
<1>4. ASSUME NEW i \in S PROVE i + 1 \in S
  <2>0. i \in Nat
    OBVIOUS
  <2> SUFFICES ASSUME i + 1 <= n
               PROVE  LedgerFits(g[i + 1], done(i + 1)) /\ Extends(ch.units, g[i + 1].units)
    BY <2>0
  <2>1. LedgerFits(g[i], done(i)) /\ Extends(ch.units, g[i].units)
    BY <2>0
  <2>2. i + 1 \in 1 .. n /\ 1 .. i + 1 = (1 .. i) \cup {i + 1} /\ 1 .. i \subseteq 1 .. n /\ i + 1 \notin 1 .. i
    BY <2>0
  <2>3. done(i + 1) = done(i) \cup {order[i + 1]}
    BY <2>2
  <2>4. order[i + 1] \notin done(i) /\ UpdateFits(order[i + 1], us[i + 1])
    BY <2>2
  <2>5. g[i + 1] = MergeUpdate(g[i], us[i + 1])
    BY <1>2, <2>0, <2>2
  <2> HIDE DEF done
  <2>6. LedgerFits(g[i + 1], done(i + 1)) /\ Extends(g[i].units, g[i + 1].units)
    <3>1. /\ LedgerFits(MergeUpdate(g[i], us[i + 1]), done(i) \cup {order[i + 1]})
          /\ Extends(g[i].units, MergeUpdate(g[i], us[i + 1]).units)
      BY <2>1, <2>4, MergeFits
    <3> QED BY <2>3, <2>5, <3>1
  <2>7. IsList(g[i].units) /\ IsList(g[i + 1].units)
    BY <2>1, <2>6 DEF LedgerFits
  <2> QED BY <1>a, <2>1, <2>6, <2>7, ExtendsFarther
<1>5. S = Nat
  <2> HIDE DEF S
  <2>1. S \subseteq Nat
    BY DEF S
  <2> QED BY <1>3, <1>4, <2>1, SetInduction
<1>6. n \in S
  BY <1>5
<1> QED BY <1>1, <1>6

-----------------------------------------------------------------------------
(* What a worker returns.                                                  *)

LEMMA SomeAreLast ==
  ASSUME NEW k \in Nat, NEW T, T \subseteq 1 .. k, T # {}
  PROVE  \E x \in T : \A y \in T : y <= x
<1> DEFINE below == {d \in Nat : \E x \in T : d = k - x}
<1>1. \A x \in T : x \in 1 .. k
  OBVIOUS
<1>2. \A x \in T : k - x \in below
  BY <1>1
<1>3. PICK d \in below : \A e \in below : d <= e
  BY <1>2, NatsHaveLeast
<1>4. PICK x \in T : d = k - x
  OBVIOUS
<1>5. \A y \in T : d <= k - y
  BY <1>2, <1>3
<1>6. \A y \in T : y <= x
  BY <1>1, <1>4, <1>5
<1> QED BY <1>6

LEMMA EdgesFitCites ==
  ASSUME NEW t, NEW k \in Nat, NEW cites,
         cites \in [{<<t, n>> : n \in 1 .. k} -> SUBSET EvidenceIds]
  PROVE  DOMAIN Edges(cites) \subseteq EvidenceIds /\ UnitEdgesFit(cites, Edges(cites))
<1> DEFINE cited == UNION {cites[c] : c \in DOMAIN cites}
           Last(e, c) == e \in cites[c] /\ \A d \in DOMAIN cites : e \in cites[d] => d[2] <= c[2]
<1>1. Edges(cites) = [e \in cited |-> CHOOSE c \in DOMAIN cites : Last(e, c)]
  BY DEF Edges
<1>2. DOMAIN cites = {<<t, n>> : n \in 1 .. k} /\ cited \subseteq EvidenceIds
  OBVIOUS
<1>3. ASSUME NEW e \in cited PROVE \E c \in DOMAIN cites : Last(e, c)
  <2> DEFINE T == {n \in 1 .. k : e \in cites[<<t, n>>]}
  <2>1. PICK x \in T : \A y \in T : y <= x
    <3>1. T \subseteq 1 .. k /\ T # {}
      BY <1>2
    <3> HIDE DEF T
    <3> QED BY <3>1, SomeAreLast
  <2>2. <<t, x>> \in DOMAIN cites /\ e \in cites[<<t, x>>]
    BY <1>2
  <2>3. ASSUME NEW d \in DOMAIN cites, e \in cites[d] PROVE d[2] <= x
    <3>1. PICK n \in 1 .. k : d = <<t, n>>
      BY <1>2
    <3>2. n \in T /\ d[2] = n
      BY <2>3, <3>1
    <3> QED BY <2>1, <3>2
  <2> QED BY <2>2, <2>3
<1>4. \A e \in cited : Edges(cites)[e] \in DOMAIN cites /\ e \in cites[Edges(cites)[e]]
  <2> TAKE e \in cited
  <2>1. PICK c \in DOMAIN cites : Last(e, c)
    BY <1>3
  <2>2. Edges(cites)[e] = CHOOSE x \in DOMAIN cites : Last(e, x)
    BY <1>1
  <2> HIDE DEF Last
  <2>3. Edges(cites)[e] \in DOMAIN cites /\ Last(e, Edges(cites)[e])
    BY <2>1, <2>2
  <2> QED BY <2>3 DEF Last
<1>5. DOMAIN Edges(cites) = cited
  BY <1>1
<1>6. \A c \in DOMAIN cites : cites[c] \subseteq cited
  OBVIOUS
<1> QED BY <1>2, <1>4, <1>5, <1>6 DEF UnitEdgesFit

LEMMA UnitsAre ==
  ASSUME NEW t, NEW n, NEW own, \A x \in own : x[1] = t, NEW c \in Candidates(t[1], own),
         NEW cites, DOMAIN cites = own
  PROVE  Unit(t, n, c).id = <<t, n>> /\ UnitFits(Unit(t, n, c), t, cites)
<1>1. c.facts \subseteq own /\ c.premises \subseteq own
  BY DEF Candidates
<1> DEFINE u == Unit(t, n, c)
           valid == c.sound /\ Bound(t[1], c)
           rests == IF ~valid THEN {}
                    ELSE IF t[1] \in Reasoned THEN c.premises ELSE c.facts \cup Premises(c)
<1>2. u.id = <<t, n>> /\ u.ask = t[1] /\ u.valid = valid /\ u.rests = rests
  BY DEF Unit, UnitId
<1>3. rests \subseteq own
  BY <1>1 DEF Premises
<1>4. valid => rests # {}
  BY DEF Bound
<1> HIDE DEF u, rests, valid
<1>5. UnitFits(u, t, cites)
  BY <1>2, <1>3, <1>4 DEF UnitFits
<1> QED BY <1>2, <1>5 DEF u

LEMMA WorkerUpdatesFit ==
  ASSUME NEW t \in Tasks, NEW u \in WorkerUpdates(t)
  PROVE  UpdateFits(t, u)
<1>1. PICK cites \in ClaimMaps(t) :
        u \in {[claims |-> cites, support |-> Edges(cites),
                units |-> [n \in DOMAIN cs |-> Unit(t, n, cs[n])]] :
                 cs \in UpTo(MaxUnits[t[1]], Candidates(t[1], DOMAIN cites))}
  BY DEF WorkerUpdates
<1>2. PICK cs \in UpTo(MaxUnits[t[1]], Candidates(t[1], DOMAIN cites)) :
        u = [claims |-> cites, support |-> Edges(cites),
             units |-> [n \in DOMAIN cs |-> Unit(t, n, cs[n])]]
  BY <1>1
<1>3. PICK k \in 0 .. MaxClaims : cites \in [{<<t, n>> : n \in 1 .. k} -> (SUBSET EvidenceIds) \ {{}}]
  BY DEF ClaimMaps
<1>4. PICK l \in 0 .. MaxUnits[t[1]] : cs \in [1 .. l -> Candidates(t[1], DOMAIN cites)]
  BY DEF UpTo
<1>5. t[1] \in Asks /\ MaxUnits[t[1]] \in Nat /\ l \in Nat /\ k \in Nat /\ 1 .. k \subseteq 1 .. MaxClaims
  BY TargetAssumption, WavesAssumption DEF Tasks
<1>6. /\ cites \in [DOMAIN cites -> SUBSET EvidenceIds]
      /\ DOMAIN cites = {<<t, n>> : n \in 1 .. k}
      /\ cites \in [{<<t, n>> : n \in 1 .. k} -> SUBSET EvidenceIds]
  BY <1>3
<1>7. DOMAIN cites \subseteq UnitClaims /\ \A c \in DOMAIN cites : c[1] = t
  BY <1>5, <1>6 DEF UnitClaims
<1>8. DOMAIN Edges(cites) \subseteq EvidenceIds /\ UnitEdgesFit(cites, Edges(cites))
  BY <1>5, <1>6, EdgesFitCites
<1> DEFINE us == [n \in 1 .. l |-> Unit(t, n, cs[n])]
<1>9. u.claims = cites /\ u.support = Edges(cites) /\ u.units = us
  BY <1>2, <1>4
<1>10. IsList(us) /\ Len(us) = l
  BY <1>5 DEF IsList
<1>11. \A n \in 1 .. l : us[n].id = <<t, n>> /\ UnitFits(us[n], t, cites)
  <2> TAKE n \in 1 .. l
  <2>1. cs[n] \in Candidates(t[1], DOMAIN cites)
    BY <1>4
  <2>2. Unit(t, n, cs[n]).id = <<t, n>> /\ UnitFits(Unit(t, n, cs[n]), t, cites)
    BY <1>7, <2>1, UnitsAre
  <2> QED BY <2>2
<1> HIDE DEF us
<1>12. /\ \A i \in 1 .. Len(us) : us[i].id[1] \in {t} /\ UnitFits(us[i], us[i].id[1], cites)
       /\ \A i, j \in 1 .. Len(us) : us[i].id = us[j].id => i = j
  BY <1>10, <1>11
<1>13. LedgerFits(u, {t})
  BY <1>6, <1>7, <1>8, <1>9, <1>10, <1>12 DEF LedgerFits
<1> QED BY <1>13 DEF UpdateFits

-----------------------------------------------------------------------------
(* The invariant.                                                          *)

Gathered == {t \in Tasks : t[2] < wave \/ (t[2] = wave /\ answerPhase # "execute")}

\* The tasks in flight are of this wave; those that are gathered are of earlier
\* ones, so that no id of theirs is met again.
UnitsFit ==
  /\ answerPhase \in {"dispatch", "execute", "coverage", "synthesis", "quality", "ended"}
  /\ wave \in 0 .. MaxWaves
  /\ sends \subseteq Tasks /\ \A t \in sends : t[2] = wave
  /\ answerPhase # "execute" => sends = {}
  /\ DOMAIN updates \subseteq sends
  /\ \A t \in DOMAIN updates : UpdateFits(t, updates[t])
  /\ LedgerFits(Ledger, Gathered)

\* What was called complete is, and the report and its outcome are those of the
\* units, which nobody writes any more.
ReportFits ==
  /\ complete \subseteq CompleteAsks(units)
  /\ IF answerPhase \in {"quality", "ended"}
     THEN report.units = Delivery /\ report.cited = CitedBy(Delivery)
     ELSE report.cited = {}
  /\ answerOutcome \in {"none", "success", "partial", "failed"}
  /\ answerPhase = "ended" =>
       /\ answerOutcome = "success" => Required \subseteq CompleteAsks(units)
       /\ answerOutcome = "partial" => \E a \in Required : Counted(units, a) >= 1
       /\ answerOutcome = "failed" => \A a \in Required \cap PartialAllowed : ~(Counted(units, a) >= 1)

AnswerInductive == UnitsFit /\ ReportFits

LEMMA NoUnitsFit == LedgerFits([claims |-> Nothing, support |-> Nothing, units |-> <<>>], {})
<1>1. DOMAIN Nothing = {} /\ Nothing \in [{} -> SUBSET EvidenceIds]
  BY DEF Nothing
<1>2. IsList(<<>>) /\ Len(<<>>) = 0
  BY DEF IsList
<1> QED BY <1>1, <1>2 DEF LedgerFits, UnitEdgesFit

LEMMA AnswerStarts == UnitsInit => AnswerInductive
<1> SUFFICES ASSUME UnitsInit PROVE AnswerInductive
  OBVIOUS
<1>1. /\ answerPhase = "dispatch" /\ wave = 0 /\ sends = {} /\ updates = Nothing
      /\ claims = Nothing /\ support = Nothing /\ units = <<>>
      /\ complete = {} /\ report = NoReport /\ answerOutcome = "none"
  BY DEF UnitsInit
<1>2. DOMAIN updates = {} /\ Gathered = {}
  BY <1>1 DEF Nothing, Gathered, Tasks
<1>3. LedgerFits(Ledger, Gathered)
  BY <1>1, <1>2, NoUnitsFit DEF Ledger
<1>4. UnitsFit
  BY <1>1, <1>2, <1>3, WavesAssumption DEF UnitsFit
<1>5. ReportFits
  BY <1>1 DEF ReportFits, NoReport
<1> QED BY <1>4, <1>5 DEF AnswerInductive

LEMMA LedgerIs ==
  Ledger.claims = claims /\ Ledger.support = support /\ Ledger.units = units
BY DEF Ledger

\* A ledger that fits more tasks.
LEMMA MoreTasksFit ==
  ASSUME NEW ch, NEW D, NEW E, LedgerFits(ch, D), D \subseteq E
  PROVE  LedgerFits(ch, E)
BY DEF LedgerFits

LEMMA DispatchUnits ==
  ASSUME AnswerInductive, Dispatch
  PROVE  AnswerInductive' /\ UNCHANGED <<units, complete>>
<1>1. /\ answerPhase = "dispatch" /\ wave < MaxWaves /\ wave' = wave + 1 /\ answerPhase' = "execute"
      /\ sends' \in IF wave = 0 THEN {PlannedTasks} ELSE RepairTasks
      /\ UNCHANGED <<updates, claims, support, units, complete, report, answerOutcome>>
  BY DEF Dispatch, ledgerVars
<1>2. wave \in Nat /\ wave' \in 1 .. MaxWaves
  BY <1>1, WavesAssumption DEF AnswerInductive, UnitsFit
<1>3. sends' \subseteq Tasks /\ \A t \in sends' : t[2] = wave'
  <2>1. CASE wave = 0
    BY <1>1, <1>2, <2>1 DEF PlannedTasks, Tasks
  <2>2. CASE wave # 0
    BY <1>1, <1>2, <2>2 DEF RepairTasks, Tasks
  <2> QED BY <2>1, <2>2
<1>4. DOMAIN updates' = {}
  BY <1>1 DEF AnswerInductive, UnitsFit
<1>5. Gathered' = Gathered
  <2>1. \A t \in Tasks : t[2] \in Nat
    BY DEF Tasks
  <2>2. \A t \in Tasks : (t[2] < wave' \/ (t[2] = wave' /\ answerPhase' # "execute"))
                     <=> (t[2] < wave \/ (t[2] = wave /\ answerPhase # "execute"))
    BY <1>1, <1>2, <2>1
  <2> QED BY <2>2 DEF Gathered
<1>6. Ledger' = Ledger
  BY <1>1 DEF Ledger
<1>7. UnitsFit'
  BY <1>1, <1>2, <1>3, <1>4, <1>5, <1>6 DEF AnswerInductive, UnitsFit
<1>8. ReportFits'
  BY <1>1 DEF AnswerInductive, ReportFits
<1> QED BY <1>1, <1>7, <1>8 DEF AnswerInductive

LEMMA WorkerReturnsUnits ==
  ASSUME AnswerInductive, NEW t \in Tasks, WorkerReturns(t)
  PROVE  AnswerInductive' /\ UNCHANGED <<units, complete>>
<1>1. /\ answerPhase = "execute" /\ t \in sends \ DOMAIN updates
      /\ UNCHANGED <<answerPhase, wave, sends, claims, support, units, complete, report, answerOutcome>>
  BY DEF WorkerReturns, ledgerVars
<1>2. PICK u \in WorkerUpdates(t) : updates' = MergeRecords(updates, [x \in {t} |-> u])
  BY DEF WorkerReturns
<1>3. /\ DOMAIN updates' = DOMAIN updates \cup {t} /\ updates'[t] = u
      /\ \A x \in DOMAIN updates : updates'[x] = updates[x]
  BY <1>1, <1>2 DEF MergeRecords
<1>4. \A x \in DOMAIN updates' : UpdateFits(x, updates'[x])
  BY <1>3, WorkerUpdatesFit DEF AnswerInductive, UnitsFit
<1>5. Gathered' = Gathered /\ Ledger' = Ledger
  BY <1>1 DEF Gathered, Ledger
<1>6. UnitsFit'
  BY <1>1, <1>3, <1>4, <1>5 DEF AnswerInductive, UnitsFit
<1>7. ReportFits'
  BY <1>1 DEF AnswerInductive, ReportFits
<1> QED BY <1>1, <1>6, <1>7 DEF AnswerInductive

LEMMA TasksAreFinite == IsFiniteSet(Tasks)
<1>1. IsFiniteSet(1 .. MaxWaves)
  BY WavesAssumption, FS_Interval
<1>2. IsFiniteSet(Asks \X (1 .. MaxWaves))
  BY <1>1, AsksAssumption, FS_Product, Zenon
<1> QED BY <1>2 DEF Tasks

LEMMA FanInUnits ==
  ASSUME AnswerInductive, FanIn
  PROVE  /\ UnitsFit' /\ Extends(units, units') /\ IsList(units) /\ IsList(units')
         /\ UNCHANGED complete
<1>1. /\ answerPhase = "execute" /\ DOMAIN updates = sends
      /\ sends' = {} /\ updates' = Nothing /\ answerPhase' = "coverage"
      /\ UNCHANGED <<wave, complete, report, answerOutcome>>
  BY DEF FanIn
<1>2. PICK order \in Orders(sends) :
        LET merged == FoldUpdates(Ledger, [i \in DOMAIN order |-> updates[order[i]]])
        IN claims' = merged.claims /\ support' = merged.support /\ units' = merged.units
  BY DEF FanIn
<1> DEFINE us == [i \in DOMAIN order |-> updates[order[i]]]
           m == FoldUpdates(Ledger, us)
           n == Cardinality(sends)
<1>3. claims' = m.claims /\ support' = m.support /\ units' = m.units
  BY <1>2
<1>4. sends \in SUBSET Tasks /\ \A t \in sends : t[2] = wave
  BY DEF AnswerInductive, UnitsFit
<1>5. n \in Nat /\ IsFiniteSet(sends)
  BY <1>4, TasksAreFinite, FS_Subset, FS_CardinalityType
<1>6. /\ order \in [1 .. n -> sends] /\ DOMAIN order = 1 .. n
      /\ \A i, j \in 1 .. n : order[i] = order[j] => i = j
  BY DEF Orders
<1>7. {order[i] : i \in 1 .. n} = sends
  <2>1. order \in Injection(1 .. n, sends)
    BY <1>6 DEF Injection, IsInjective
  <2>2. Cardinality(1 .. n) = n
    BY <1>5, FS_Interval
  <2>3. order \in Surjection(1 .. n, sends)
    <3>1. Cardinality(1 .. n) = Cardinality(sends) <=> order \in Surjection(1 .. n, sends)
      BY <1>5, <2>1, FS_Injection, Zenon
    <3> QED BY <2>2, <3>1
  <2> QED BY <1>6, <2>3 DEF Surjection
<1> HIDE DEF n
<1>8. Len(us) = n /\ Len(us) \in Nat
  BY <1>5, <1>6
<1>9. \A i \in 1 .. n : order[i] \notin Gathered /\ UpdateFits(order[i], us[i])
  <2>1. \A t \in sends : t \notin Gathered
    <3>1. \A t \in sends : ~(t[2] < wave)
      BY <1>4 DEF AnswerInductive, UnitsFit
    <3> QED BY <1>1, <3>1 DEF Gathered
  <2>2. \A t \in sends : UpdateFits(t, updates[t])
    BY <1>1 DEF AnswerInductive, UnitsFit
  <2> QED BY <1>6, <2>1, <2>2
<1>10. LedgerFits(Ledger, Gathered)
  BY DEF AnswerInductive, UnitsFit
<1> HIDE DEF us
<1>11. /\ LedgerFits(m, Gathered \cup {order[i] : i \in 1 .. Len(us)})
       /\ Extends(Ledger.units, m.units)
  BY <1>6, <1>8, <1>9, <1>10, WaveMerges
<1>12. LedgerFits(m, Gathered \cup sends)
  BY <1>7, <1>8, <1>11
<1> HIDE DEF m
<1>13. Gathered \cup sends \subseteq Gathered'
  BY <1>1, <1>4 DEF Gathered
<1>14. LedgerFits(m, Gathered')
  BY <1>12, <1>13, MoreTasksFit
<1>15. LedgerFits(Ledger', Gathered')
  BY <1>3, <1>14 DEF Ledger, LedgerFits
<1>16. DOMAIN updates' = {}
  BY <1>1 DEF Nothing
<1>17. UnitsFit'
  BY <1>1, <1>15, <1>16 DEF AnswerInductive, UnitsFit
<1>18. IsList(units) /\ IsList(units') /\ Extends(units, units')
  BY <1>3, <1>10, <1>11, <1>12, LedgerIs DEF LedgerFits
<1> QED BY <1>1, <1>17, <1>18

LEMMA CompleteStays ==
  ASSUME NEW us, NEW vs, IsList(us), IsList(vs), Extends(us, vs)
  PROVE  CompleteAsks(us) \subseteq CompleteAsks(vs)
<1> SUFFICES ASSUME NEW a \in Asks, Counted(us, a) >= Target[a] PROVE Counted(vs, a) >= Target[a]
  BY DEF CompleteAsks
<1>1. Counted(us, a) <= Counted(vs, a)
  BY CountGrows
<1>2. Counted(us, a) \in Nat /\ Counted(vs, a) \in Nat /\ Target[a] \in Nat
  BY CountFits, TargetAssumption
<1> QED BY <1>1, <1>2

LEMMA FanInReport ==
  ASSUME AnswerInductive, FanIn
  PROVE  ReportFits'
<1>1. /\ Extends(units, units') /\ IsList(units) /\ IsList(units')
      /\ UNCHANGED <<complete, report, answerOutcome>>
      /\ answerPhase = "execute" /\ answerPhase' = "coverage"
  BY FanInUnits DEF FanIn
<1>2. complete' \subseteq CompleteAsks(units')
  BY <1>1, CompleteStays DEF AnswerInductive, ReportFits
<1> QED BY <1>1, <1>2 DEF AnswerInductive, ReportFits

\* The units stay as they are when no worker is at work.
LEMMA UnitsStay ==
  ASSUME AnswerInductive, answerPhase # "execute", answerPhase' # "execute",
         answerPhase' \in {"dispatch", "execute", "coverage", "synthesis", "quality", "ended"},
         UNCHANGED <<wave, sends, updates, claims, support, units>>
  PROVE  UnitsFit'
<1>1. Gathered' = Gathered /\ Ledger' = Ledger
  BY DEF Gathered, Ledger
<1>2. sends = {} /\ DOMAIN updates = {}
  BY DEF AnswerInductive, UnitsFit
<1>3. wave \in 0 .. MaxWaves /\ LedgerFits(Ledger, Gathered)
  BY DEF AnswerInductive, UnitsFit
<1> QED BY <1>1, <1>2, <1>3 DEF UnitsFit

LEMMA CoverageUnits ==
  ASSUME AnswerInductive, CoverageJudge
  PROVE  AnswerInductive' /\ UNCHANGED units
<1>1. /\ answerPhase = "coverage" /\ complete' = CompleteAsks(units)
      /\ answerPhase' \in {"synthesis", "dispatch"}
      /\ UNCHANGED <<wave, sends, updates, claims, support, units, report, answerOutcome>>
  BY DEF CoverageJudge, ledgerVars
<1>2. UnitsFit'
  BY <1>1, UnitsStay
<1>3. CompleteAsks(units)' = CompleteAsks(units)
  BY <1>1 DEF CompleteAsks
<1>4. ReportFits'
  BY <1>1, <1>3 DEF AnswerInductive, ReportFits
<1> QED BY <1>1, <1>2, <1>4 DEF AnswerInductive

LEMMA EndUnits ==
  ASSUME AnswerInductive, EndResearch
  PROVE  AnswerInductive' /\ UNCHANGED <<units, complete>>
<1>1. /\ answerPhase = "dispatch" /\ answerPhase' = "synthesis"
      /\ UNCHANGED <<wave, sends, updates, claims, support, units, complete, report, answerOutcome>>
  BY DEF EndResearch, ledgerVars
<1>2. UnitsFit'
  BY <1>1, UnitsStay
<1>3. ReportFits'
  BY <1>1 DEF AnswerInductive, ReportFits
<1> QED BY <1>1, <1>2, <1>3 DEF AnswerInductive

LEMMA SynthesizeUnits ==
  ASSUME AnswerInductive, Synthesize
  PROVE  AnswerInductive' /\ UNCHANGED <<units, complete>>
<1>1. /\ answerPhase = "synthesis" /\ answerPhase' = "quality"
      /\ report'.units = Delivery /\ report'.cited = CitedBy(Delivery)
      /\ UNCHANGED <<wave, sends, updates, claims, support, units, complete, answerOutcome>>
  BY DEF Synthesize, ledgerVars
<1>2. UnitsFit'
  BY <1>1, UnitsStay
<1>3. Delivery' = Delivery /\ CitedBy(Delivery)' = CitedBy(Delivery)
  BY <1>1 DEF Delivery, CitedBy, Citations
<1>4. ReportFits'
  BY <1>1, <1>3 DEF AnswerInductive, ReportFits
<1> QED BY <1>1, <1>2, <1>4 DEF AnswerInductive

LEMMA GateUnits ==
  ASSUME AnswerInductive, GateAnswer
  PROVE  AnswerInductive' /\ UNCHANGED <<units, complete>>
<1>1. /\ answerPhase = "quality" /\ answerPhase' = "ended"
      /\ \E valid \in CitationVerdicts(report) : answerOutcome' = Outcome(report, valid)
      /\ UNCHANGED <<wave, sends, updates, claims, support, units, complete, report>>
  BY DEF GateAnswer, ledgerVars
<1>2. UnitsFit'
  BY <1>1, UnitsStay
<1>3. PICK valid : answerOutcome' = Outcome(report, valid)
  BY <1>1
<1>4. /\ answerOutcome' \in {"success", "partial", "failed"}
      /\ answerOutcome' = "success" => Required \subseteq CompleteAsks(units)
      /\ answerOutcome' = "partial" => \E a \in Required : Counted(units, a) >= 1
      /\ answerOutcome' = "failed" =>
           \A a \in Required \cap PartialAllowed : ~(Counted(units, a) >= 1)
  BY <1>3 DEF Outcome
<1>5. /\ Delivery' = Delivery /\ CitedBy(Delivery)' = CitedBy(Delivery)
      /\ CompleteAsks(units)' = CompleteAsks(units)
  BY <1>1 DEF Delivery, CitedBy, Citations, CompleteAsks
<1>6. ReportFits'
  BY <1>1, <1>4, <1>5 DEF AnswerInductive, ReportFits
<1> QED BY <1>1, <1>2, <1>6 DEF AnswerInductive

LEMMA StutterUnits ==
  ASSUME AnswerInductive, UNCHANGED unitsVars
  PROVE  AnswerInductive' /\ UNCHANGED <<units, complete>>
<1>1. UNCHANGED <<answerPhase, wave, sends, updates, claims, support, units, complete,
                  report, answerOutcome>>
  BY DEF unitsVars, ledgerVars
<1>2. Gathered' = Gathered /\ Ledger' = Ledger
  BY <1>1 DEF Gathered, Ledger
<1>3. UnitsFit'
  BY <1>1, <1>2 DEF AnswerInductive, UnitsFit
<1>4. /\ Delivery' = Delivery /\ CitedBy(Delivery)' = CitedBy(Delivery)
      /\ CompleteAsks(units)' = CompleteAsks(units)
  BY <1>1 DEF Delivery, CitedBy, Citations, CompleteAsks
<1>5. ReportFits'
  BY <1>1, <1>4 DEF AnswerInductive, ReportFits
<1> QED BY <1>1, <1>3, <1>5 DEF AnswerInductive

LEMMA AnswerSteps == AnswerInductive /\ [UnitsNext]_unitsVars => AnswerInductive'
BY DispatchUnits, WorkerReturnsUnits, FanInUnits, FanInReport, CoverageUnits, EndUnits,
   SynthesizeUnits, GateUnits, StutterUnits DEF UnitsNext, AnswerInductive

LEMMA AnswerHolds == UnitsSpec => []AnswerInductive
BY AnswerStarts, AnswerSteps, PTL DEF UnitsSpec

-----------------------------------------------------------------------------
(* What the invariant says of the answer.                                  *)

LEMMA LedgerFacts ==
  ASSUME AnswerInductive
  PROVE  /\ IsList(units) /\ DOMAIN units = 1 .. Len(units)
         /\ \A i \in DOMAIN units : UnitFits(units[i], units[i].id[1], claims)
         /\ \A i, j \in DOMAIN units : units[i].id = units[j].id => i = j
         /\ claims \in [DOMAIN claims -> SUBSET EvidenceIds] /\ DOMAIN claims \subseteq UnitClaims
         /\ DOMAIN support \subseteq EvidenceIds /\ UnitEdgesFit(claims, support)
<1>1. LedgerFits(Ledger, Gathered)
  BY DEF AnswerInductive, UnitsFit
<1>2. IsList(units)
  BY <1>1, LedgerIs DEF LedgerFits
<1>3. DOMAIN units = 1 .. Len(units)
  BY <1>2 DEF IsList
<1> QED BY <1>1, <1>2, <1>3, LedgerIs DEF LedgerFits

\* What is delivered are valid units of the ask.
LEMMA DeliveredAre ==
  ASSUME AnswerInductive, answerPhase \in {"quality", "ended"}, NEW a \in Asks
  PROVE  /\ DOMAIN report.units[a] = Rendered(units, a)
         /\ \A i \in Rendered(units, a) :
              /\ report.units[a][i] = units[i] /\ i \in DOMAIN units
              /\ units[i].valid /\ units[i].ask = a
<1>1. report.units = Delivery
  BY DEF AnswerInductive, ReportFits
<1>2. report.units[a] = [i \in Rendered(units, a) |-> units[i]]
  BY <1>1 DEF Delivery
<1>3. Rendered(units, a) \subseteq ValidUnits(units, a)
  BY LedgerFacts, CountFits
<1> QED BY <1>2, <1>3 DEF ValidUnits

LEMMA CitedAre ==
  ASSUME AnswerInductive, answerPhase \in {"quality", "ended"}
  PROVE  /\ \A e \in report.cited : e \in DOMAIN support /\ \E a \in Asks : support[e] \in Rests(a)
         /\ \A a \in Asks : \A u \in Delivered(a) : Citations(u) \subseteq report.cited
<1>1. report.units = Delivery /\ report.cited = CitedBy(Delivery)
  BY DEF AnswerInductive, ReportFits
<1>2. ASSUME NEW e \in report.cited
      PROVE  e \in DOMAIN support /\ \E a \in Asks : support[e] \in Rests(a)
  <2>1. PICK a \in Asks : e \in UNION {Citations(Delivery[a][i]) : i \in DOMAIN Delivery[a]}
    BY <1>1 DEF CitedBy
  <2>2. PICK i \in DOMAIN Delivery[a] : e \in Citations(Delivery[a][i])
    BY <2>1
  <2>3. Delivery[a][i] \in Delivered(a)
    BY <1>1 DEF Delivered
  <2>4. e \in DOMAIN support /\ support[e] \in Delivery[a][i].rests
    BY <2>2 DEF Citations
  <2> QED BY <2>3, <2>4 DEF Rests
<1>3. ASSUME NEW a \in Asks, NEW u \in Delivered(a) PROVE Citations(u) \subseteq report.cited
  <2>1. PICK i \in DOMAIN Delivery[a] : u = Delivery[a][i]
    BY <1>1 DEF Delivered
  <2> QED BY <1>1, <2>1 DEF CitedBy
<1> QED BY <1>2, <1>3

LEMMA InductiveIsTyped == AnswerInductive => UnitsTypeOK
<1> SUFFICES ASSUME AnswerInductive PROVE UnitsTypeOK
  OBVIOUS
<1>1. \A e \in DOMAIN support : support[e] \in DOMAIN claims
  BY LedgerFacts DEF UnitEdgesFit
<1>2. report.cited \subseteq EvidenceIds
  <2>1. CASE answerPhase \in {"quality", "ended"}
    BY <2>1, CitedAre, LedgerFacts
  <2>2. CASE answerPhase \notin {"quality", "ended"}
    BY <2>2 DEF AnswerInductive, ReportFits
  <2> QED BY <2>1, <2>2
<1>3. complete \subseteq Asks
  BY DEF AnswerInductive, ReportFits, CompleteAsks
<1> QED BY <1>1, <1>2, <1>3, LedgerFacts DEF UnitsTypeOK, AnswerInductive, UnitsFit, ReportFits

LEMMA InductiveIsGrounded == AnswerInductive => ReportIsGrounded
<1> SUFFICES ASSUME AnswerInductive, answerPhase \in {"quality", "ended"}
             PROVE  /\ \A a \in Asks : \A u \in Delivered(a) :
                         /\ u.rests # {} /\ u.rests \subseteq DOMAIN claims
                         /\ \A c \in u.rests : c[1] = u.id[1] /\ c[1][1] = a
                    /\ \A e \in report.cited : \E a \in Asks :
                         support[e] \in Rests(a) /\ e \in claims[support[e]]
  BY DEF ReportIsGrounded
<1>1. ASSUME NEW a \in Asks, NEW u \in Delivered(a)
      PROVE  /\ u.rests # {} /\ u.rests \subseteq DOMAIN claims
             /\ \A c \in u.rests : c[1] = u.id[1] /\ c[1][1] = a
  <2>1. PICK i \in Rendered(units, a) : u = units[i] /\ i \in DOMAIN units /\ u.valid /\ u.ask = a
    BY DeliveredAre DEF Delivered
  <2>2. UnitFits(u, u.id[1], claims)
    BY <2>1, LedgerFacts
  <2> QED BY <2>1, <2>2 DEF UnitFits
<1>2. ASSUME NEW e \in report.cited
      PROVE  \E a \in Asks : support[e] \in Rests(a) /\ e \in claims[support[e]]
  BY CitedAre, LedgerFacts DEF UnitEdgesFit
<1> QED BY <1>1, <1>2

LEMMA InductiveIsHonest == AnswerInductive => OutcomeIsHonest
<1> SUFFICES ASSUME AnswerInductive, answerPhase = "ended" PROVE OutcomeIsHonest
  BY DEF OutcomeIsHonest
<1>1. /\ answerOutcome = "success" => Required \subseteq CompleteAsks(units)
      /\ answerOutcome = "partial" => \E a \in Required : Counted(units, a) >= 1
      /\ answerOutcome = "failed" => \A a \in Required \cap PartialAllowed : ~(Counted(units, a) >= 1)
  BY DEF AnswerInductive, ReportFits
<1>2. Required \subseteq Asks
  BY AsksAssumption
<1>3. IsList(units)
  BY LedgerFacts
<1>4. ASSUME NEW a \in Asks PROVE Delivered(a) # {} <=> Counted(units, a) >= 1
  BY <1>3, DeliveredAre, CountFits DEF Delivered
<1>5. ASSUME NEW a \in Asks, Counted(units, a) >= Target[a]
      PROVE  Cardinality(DOMAIN report.units[a]) >= Target[a] \/ (a \in Recommending /\ Repeats(a))
  BY <1>3, <1>5, FullIsRendered, DeliveredAre
<1>6. ASSUME NEW a \in Asks, NEW u \in Delivered(a), NEW c \in u.rests, NEW e \in claims[c]
      PROVE  e \in report.cited \/ support[e] \notin u.rests
  <2>1. c \in DOMAIN claims
    BY InductiveIsGrounded DEF ReportIsGrounded
  <2>2. e \in DOMAIN support
    BY <2>1, LedgerFacts DEF UnitEdgesFit
  <2>3. support[e] \in u.rests => e \in Citations(u)
    BY <2>2 DEF Citations
  <2> QED BY <2>3, CitedAre
<1> QED BY <1>1, <1>2, <1>4, <1>5, <1>6 DEF OutcomeIsHonest, CompleteAsks

\* The user is handed validated, cited units and told truly how many of those
\* asked for they are: success delivers every required ask in full, partial
\* something, and a run that fails had nothing deliverable.
THEOREM AnswersAreHonest == UnitsSpec => []AnswerIsHonest
<1>1. AnswerInductive => AnswerIsHonest
  BY InductiveIsTyped, InductiveIsGrounded, InductiveIsHonest DEF AnswerIsHonest
<1> QED BY <1>1, AnswerHolds, PTL

LEMMA CountsStay ==
  ASSUME AnswerInductive, IsList(units'), Extends(units, units')
  PROVE  /\ complete \subseteq CompleteAsks(units')
         /\ \A a \in Asks : Counted(units, a) <= Counted(units', a)
<1>1. IsList(units)
  BY LedgerFacts
<1>2. complete \subseteq CompleteAsks(units)
  BY DEF AnswerInductive, ReportFits
<1>3. CompleteAsks(units) \subseteq CompleteAsks(units')
  BY <1>1, CompleteStays
<1>4. \A a \in Asks : Counted(units, a) <= Counted(units', a)
  BY <1>1, CountGrows
<1> QED BY <1>2, <1>3, <1>4

LEMMA UnitsOnlyFollow == AnswerInductive /\ [UnitsNext]_unitsVars => IsList(units') /\ Extends(units, units')
<1> SUFFICES ASSUME AnswerInductive, [UnitsNext]_unitsVars
             PROVE  IsList(units') /\ Extends(units, units')
  OBVIOUS
<1>1. CASE FanIn
  BY <1>1, FanInUnits
<1>2. CASE ~FanIn
  <2>1. units' = units
    BY <1>2, DispatchUnits, WorkerReturnsUnits, CoverageUnits, EndUnits, SynthesizeUnits,
       GateUnits, StutterUnits DEF UnitsNext
  <2>2. IsList(units)
    BY LedgerFacts
  <2> QED BY <2>1, <2>2 DEF Extends, IsList
<1> QED BY <1>1, <1>2

\* Repair waves only add to the answer: an ask once complete stays so, and no ask
\* ever counts for less.
THEOREM AnswersOnlyGrow == UnitsSpec => AnswersGrow
<1>1. AnswerInductive /\ [UnitsNext]_unitsVars =>
        [/\ complete \subseteq CompleteAsks(units')
         /\ \A a \in Asks : Counted(units, a) <= Counted(units', a)]_unitsVars
  BY UnitsOnlyFollow, CountsStay
<1> QED BY <1>1, AnswerHolds, PTL DEF AnswersGrow, UnitsSpec
=============================================================================
