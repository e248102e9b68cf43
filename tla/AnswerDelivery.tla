--------------------------- MODULE AnswerDelivery ---------------------------
(***************************************************************************)
(* How a run of the first research engine (the one without an AnswerSpec)  *)
(* turns admitted claims into a delivered answer: synthesis with its       *)
(* bounded provider calls and its deterministic recovery, the quality gate *)
(* with the completion contract, and the terminal decision.                *)
(*                                                                         *)
(* Claims, evidence and the coverage judgement are what research left      *)
(* behind; they do not change any more.  A text is what the gates can tell *)
(* of it: which sources it cites and lists, whether enough of it is cited, *)
(* whether it refuses to answer and whether its prose is flawed.           *)
(***************************************************************************)
EXTENDS Integers, FiniteSets

CONSTANTS Evidence,       \* records of the evidence ledger
          Strays,         \* sources a worker may register and no admission follows
          Authoritative,  \* records of a primary or high quality source
          Linkable,       \* records whose locator yields a reference line
          Excerpted,      \* records with a usable excerpt
          Questions,      \* the key questions of the brief
          TrendQuestions, \* questions worded for a judgement, not a fact
          Claims,         \* claims that may have been admitted
          Reports,        \* what a provider may write
          TemplateFlaws,  \* flaws a deterministic text may inherit from claims
          Failures,       \* how a provider call may fail
          Retryable,      \* the failures followed by a compact retry
          NormalRoom, CompactRoom, \* pack budgets, in rows of the pack
          NormalCap, CompactCap    \* claims of one question in a pack

Flaws == {"none", "style", "broken", "fatal"}

ASSUME DeliveryAssumption ==
    /\ Authoritative \subseteq Evidence /\ Linkable \subseteq Evidence
    /\ Excerpted \subseteq Evidence /\ TrendQuestions \subseteq Questions
    /\ Retryable \subseteq Failures /\ TemplateFlaws \subseteq Flaws
    /\ \A c \in Claims : c.question \in Questions /\ c.refs \subseteq Evidence /\ c.refs # {}
    /\ \A c, d \in Claims : c.text = d.text => c.question = d.question

(* validate_brief refuses a brief without a key question.                  *)
ASSUME QuestionsAssumption == Questions # {}

(* A report cites what its pack shows, numbers the pack does not show but  *)
(* the run has given out, numbers nobody has, or none.                     *)
ASSUME ReportsAssumption ==
    Reports \subseteq [cites : {"pack", "unshown", "invented", "nothing"}, closed : BOOLEAN,
                       covered : BOOLEAN, refuses : BOOLEAN, flaw : Flaws]

VARIABLES phase, found, work, pack, result, text, contract, synth, assessment, outcome

vars == <<phase, found, work, pack, result, text, contract, synth, assessment, outcome>>

Bogus == "no such source"
MaxAttempts == 3
AttemptsSeen == 0 .. MaxAttempts + 1

Sources == Evidence \cup Strays \cup {Bogus}

Texts == [kind : {"none", "report", "recovered", "partial", "atomic", "refusal"},
          cites : SUBSET Sources, lists : SUBSET Sources,
          covered : BOOLEAN, refuses : BOOLEAN, flaw : Flaws]

NoText == [kind |-> "none", cites |-> {}, lists |-> {}, covered |-> FALSE,
           refuses |-> FALSE, flaw |-> "none"]
NoContract == [answers |-> << >>, complete |-> "unknown"]
NoResult == [ok |-> FALSE, reason |-> "pending"]
NoAssessment == [verdict |-> "none", repairable |-> FALSE, outcome |-> "none", issues |-> {}]

----------------------------------------------------------------------------
(* What was found. *)

(* The sources with a number a text may cite.  A worker's sources are      *)
(* registered before admission; a record of the ledger is registered when  *)
(* it is ingested, unless its source already is, and takes a number of its *)
(* own if none is known for it.  Such a number may be that of a stray: who *)
(* cites the one then cites the other, and both are valid.                 *)
Registered == found.ledger \cup found.strays

Supporting(q) == {c \in found.claims : c.question = q /\ c.refs \cap found.ledger # {}}

Support(q) == UNION {c.refs \cap found.ledger : c \in Supporting(q)}

AnswerableQuestion(q) == Support(q) # {} /\ ~found.conflict

Answerable == \A q \in Questions : AnswerableQuestion(q)

(* The type recovery gives an answer: declared by a worker, or a bounded   *)
(* inference from two directional claims over two records.                 *)
RecoveredType(q) ==
    LET declared == {c.type : c \in Supporting(q)}
    IN  IF declared \cap {"inference", "forecast"} # {} THEN "judgement"
        ELSE IF /\ q \in TrendQuestions
                /\ \E c \in Supporting(q) : c.directional
                /\ Cardinality(Support(q)) >= 2 /\ Cardinality(Supporting(q)) >= 2
        THEN "judgement" ELSE "fact"

CompleteAnswer ==
    \A q \in Questions :
        /\ \E c \in Supporting(q) : c.long
        /\ q \in TrendQuestions =>
              /\ RecoveredType(q) = "judgement"
              /\ Cardinality(Supporting(q)) >= 2 \/ \A c \in Supporting(q) : c.sure

----------------------------------------------------------------------------
(* The evidence pack and what can be made of it. *)

Least(a, b) == IF a < b THEN a ELSE b

(* One claim per wording, at most cap per question. *)
Selections(cap) ==
    LET bound == {c \in found.claims : c.refs \cap found.ledger # {}}
        of(S, q) == {c \in S : c.question = q}
        wordings(S) == {c.text : c \in S}
    IN  {S \in SUBSET bound :
            \A q \in Questions :
                /\ Cardinality(of(S, q)) = Cardinality(wordings(of(S, q)))
                /\ Cardinality(of(S, q)) = Least(cap, Cardinality(wordings(of(bound, q))))}

(* Claims are dropped until the rows fit; the evidence counted against the *)
(* budget is that of the first selection, and one claim always stays.      *)
Packs(cap, room) ==
    LET rows(S) == Cardinality(UNION {c.refs \cap found.ledger : c \in S})
        kept(S) == IF Cardinality(S) + rows(S) <= room THEN Cardinality(S)
                   ELSE IF Cardinality(S) <= 1 \/ room - rows(S) < 1 THEN Least(1, Cardinality(S))
                   ELSE room - rows(S)
    IN  UNION {{P \in SUBSET S : Cardinality(P) = kept(S)} : S \in Selections(cap)}

HasMechanism(P) == \E c \in P : c.causal

InsightGateFails(P) == found.analytical /\ (P = {} \/ ~HasMechanism(P))

DigestsUsable(P) ==
    LET usable(c) == c.refs \cap found.ledger \cap Excerpted # {}
    IN  (\E c \in P : usable(c)) /\ \A c \in P : c.numeric => usable(c)

----------------------------------------------------------------------------
(* Texts. *)

Written(r) ==
    LET shown == UNION {c.refs \cap found.ledger : c \in pack}
        cites == CASE r.cites = "pack" -> shown
                   [] r.cites = "unshown" -> Registered \ shown
                   [] r.cites = "invented" -> {Bogus}
                   [] OTHER -> {}
    IN  [kind |-> "report", cites |-> cites, lists |-> IF r.closed THEN cites ELSE {},
         covered |-> r.covered, refuses |-> r.refuses, flaw |-> r.flaw]

RecoveredText(covered, flaw) ==
    LET cites == UNION {Support(q) : q \in Questions}
    IN  [kind |-> "recovered", cites |-> cites, lists |-> cites \cap Linkable,
         covered |-> covered, refuses |-> FALSE, flaw |-> flaw]

PartialText(flaw) ==
    IF found.claims = {} /\ ~found.judgement.gaps THEN NoText
    ELSE [NoText EXCEPT !.kind = "partial", !.flaw = flaw]

(* With no registered source every text passes. *)
ValidCitations(t) ==
    \/ Registered = {}
    \/ /\ t.cites \subseteq Registered
       /\ t.cites = t.lists
       /\ t.covered /\ t.cites # {}

RecoveredContract(complete) ==
    [answers |-> [q \in Questions |-> [refs |-> Support(q), refuses |-> FALSE]],
     complete |-> complete]

----------------------------------------------------------------------------
(* Synthesis. *)

Compact == work.attempts >= 1
ReportRepair == work.attempts >= 2

Stopped(reason) == [ok |-> FALSE, reason |-> reason]

(* What the runtime can tell before it asks the provider. *)
Refused(P, low) ==
    IF InsightGateFails(P) THEN Stopped("insight_gate")
    ELSE IF low /\ found.ledger # {} THEN Stopped("synthesis_budget_low")
    ELSE IF ~DigestsUsable(P) THEN Stopped("digest_missing")
    ELSE NoResult

(* The fact rests on registered sources, admitted or not. *)
AtomicText(sources, covered) ==
    [NoText EXCEPT !.kind = "atomic", !.cites = sources, !.lists = sources, !.covered = covered]

Refusal == [NoText EXCEPT !.kind = "refusal"]

SynthesizeAtomicFact ==
    /\ phase = "synthesize" /\ found.fast
    /\ IF found.fact
       THEN \E S \in (SUBSET Registered) \ {{}}, c \in BOOLEAN : text' = AtomicText(S, c)
       ELSE text' = Refusal
    /\ work' = [work EXCEPT !.attempts = 1]
    /\ synth' = [synth EXCEPT !.failed = ~found.fact]
    /\ phase' = "quality"
    /\ assessment' = NoAssessment
    /\ UNCHANGED <<found, pack, result, contract, outcome>>

(* Answerability, the evidence pack and the checks that may do without the *)
(* provider.  The synthesis share only shrinks.  Of what was written       *)
(* before only the issues are told to the provider; its text and contract  *)
(* are not read again, and whatever synthesis comes to takes their place.  *)
PrepareSynthesis ==
    /\ phase = "synthesize" /\ ~found.fast
    /\ \E low \in {b \in BOOLEAN : work.low => b},
          P \in Packs(IF Compact THEN CompactCap ELSE NormalCap, NormalRoom) :
          /\ pack' = P
          /\ work' = [work EXCEPT !.low = low, !.retried = FALSE]
          /\ result' = Refused(P, low)
          /\ phase' = IF result' = NoResult THEN "calling" ELSE "settle"
          /\ synth' = [synth EXCEPT !.answerable = Answerable, !.recovery = FALSE,
                                    !.mechanism = P # {} /\ HasMechanism(P)]
    /\ text' = NoText /\ contract' = NoContract /\ assessment' = NoAssessment
    /\ UNCHANGED <<found, outcome>>

Called == [work EXCEPT !.calls = Least(@ + 1, MaxAttempts + 1)]

ProviderAnswers ==
    /\ phase = "calling"
    /\ \E r \in Reports : result' = [ok |-> TRUE, report |-> r]
    /\ work' = Called
    /\ phase' = "settle"
    /\ UNCHANGED <<found, pack, text, contract, synth, assessment, outcome>>

RetryAllowed(reason, timeLeft) ==
    reason \in Retryable /\ ~work.retried /\ ~ReportRepair /\ ~work.low /\ timeLeft

ProviderFails ==
    /\ phase = "calling"
    /\ \E reason \in Failures, timeLeft \in BOOLEAN :
          /\ result' = Stopped(reason)
          /\ phase' = IF RetryAllowed(reason, timeLeft) THEN "retry" ELSE "settle"
    /\ work' = Called
    /\ UNCHANGED <<found, pack, text, contract, synth, assessment, outcome>>

CompactRetry ==
    /\ phase = "retry"
    /\ \E P \in Packs(CompactCap, CompactRoom) :
          /\ pack' = P
          /\ result' = IF DigestsUsable(P) THEN NoResult ELSE Stopped("digest_missing")
          /\ phase' = IF result' = NoResult THEN "calling" ELSE "settle"
    /\ work' = [work EXCEPT !.retried = TRUE]
    /\ UNCHANGED <<found, text, contract, synth, assessment, outcome>>

AttemptsForgotten == work.attempts

AttemptsUsed == work.attempts + IF work.retried THEN 2 ELSE 1

(* The text of the node: what the provider wrote, else a deterministic     *)
(* answer when every question can be answered, else what is confirmed.     *)
Composed(recovered, partial) ==
    IF result.ok THEN Written(result.report)
    ELSE IF Answerable /\ CompleteAnswer THEN recovered ELSE partial

RescuedAfterFailure(t) ==
    ~result.ok /\ t # NoText /\ ~ValidCitations(t) /\ Answerable /\ CompleteAnswer

(* A text whose citations do not bind is replaced by the deterministic     *)
(* answer when there is one.                                               *)
Rescued(t) == t # NoText /\ ~ValidCitations(t) /\ Answerable /\ CompleteAnswer

SettledContract(rescued) ==
    IF rescued \/ (~result.ok /\ Answerable /\ CompleteAnswer) THEN RecoveredContract("yes")
    ELSE IF ~result.ok /\ Answerable THEN RecoveredContract("no") ELSE NoContract

(* The pack and what the provider said are the node's own and end with it. *)
SettleSynthesis ==
    /\ phase = "settle"
    /\ \E covered \in BOOLEAN, flaw \in TemplateFlaws :
       LET recovered == RecoveredText(covered, flaw)
           written == Composed(recovered, PartialText(flaw))
           rescued == Rescued(written)
       IN  /\ text' = IF rescued THEN recovered ELSE written
           /\ contract' = SettledContract(rescued)
           /\ synth' = [synth EXCEPT
                 !.failed = ~result.ok /\ ~rescued,
                 !.complete = Answerable /\ (result.ok \/ CompleteAnswer),
                 !.recovery = rescued \/ (~result.ok /\ Answerable /\ CompleteAnswer)]
    /\ work' = [work EXCEPT !.attempts = AttemptsUsed, !.retried = FALSE]
    /\ pack' = {} /\ result' = NoResult
    /\ assessment' = NoAssessment
    /\ phase' = "quality"
    /\ UNCHANGED <<found, outcome>>

----------------------------------------------------------------------------
(* The quality gate.  The contract of a provider report is the report: it  *)
(* answers every question with its whole text.                             *)

Strict == ~found.fast /\ found.judgement.rows

FirstRecords == {R \in SUBSET found.ledger : Cardinality(R) = Least(1, Cardinality(found.ledger))}

UpgradedContract(first) ==
    IF contract # NoContract \/ text = NoText \/ (Strict /\ ~synth.answerable) THEN contract
    ELSE [answers |-> [q \in Questions |->
              [refs |-> IF found.fast THEN first ELSE Support(q), refuses |-> text.refuses]],
          complete |-> "unknown"]

HighAuthority == found.ledger \cap Authoritative

TooFewAuthorities == 5 * Cardinality(HighAuthority) < 3 * Cardinality(found.ledger)

ReportVerdict(k) ==
    IF ~Strict THEN "PASS"
    ELSE IF \/ text = NoText \/ text.flaw = "fatal" \/ ~(text.cites \subseteq text.lists)
            \/ k = NoContract
    THEN "FAIL"
    ELSE IF \/ text.flaw # "none"
            \/ found.ledger # {} /\ (text.cites = {} \/ (found.primary /\ TooFewAuthorities))
    THEN "REPAIRABLE" ELSE "PASS"

Grounded(k, q) ==
    k # NoContract /\ ~k.answers[q].refuses /\ k.answers[q].refs \cap found.ledger # {}

AuthorityRequired == Strict /\ found.primary

Answered(k, q) ==
    /\ Grounded(k, q)
    /\ AuthorityRequired => k.answers[q].refs \cap HighAuthority # {}

(* Coverage gaps count only while a question lacks a complete answer. *)
CoverageBlocks ==
    Strict /\ ~(synth.answerable /\ synth.complete) /\ found.judgement.blocked

CompletionPassesUncited(k, cited) ==
    /\ text # NoText
    /\ \A q \in Questions : Answered(k, q)
    /\ ~CoverageBlocks
    /\ Strict => text.flaw # "broken"
    /\ AuthorityRequired => ~TooFewAuthorities

CompletionPasses(k, cited) ==
    /\ text # NoText /\ cited
    /\ \A q \in Questions : Answered(k, q)
    /\ ~CoverageBlocks
    /\ Strict => text.flaw # "broken"
    /\ AuthorityRequired => ~TooFewAuthorities

PartialPasses(k) ==
    \/ \E q \in Questions : Answered(k, q)
    \/ found.ledger # {} /\ text # NoText

(* A recovered answer is a success only if it would also pass as a report. *)
StrictReview(k, cited) ==
    /\ k # NoContract /\ found.ledger # {} /\ cited
    /\ ReportVerdict(k) = "PASS"
    /\ found.analytical => synth.mechanism
    /\ ~found.judgement.blocked

Issues(k, cited) ==
    {i \in {"coverage_gap", "no_usable_evidence", "synthesis_failed", "answerability_gap",
            "citation", "report_quality", "answer_incomplete", "semantic_review"} :
        CASE i = "coverage_gap" ->
                ~found.judgement.sufficient /\ ~(synth.answerable /\ synth.complete)
          [] i = "no_usable_evidence" -> found.ledger = {}
          [] i = "synthesis_failed" -> synth.failed /\ (text = NoText \/ found.ledger = {})
          [] i = "answerability_gap" -> Strict /\ ~synth.answerable
          [] i = "citation" -> ~cited
          [] i = "report_quality" -> text = NoText \/ ReportVerdict(k) # "PASS"
          [] i = "answer_incomplete" -> k.complete = "no"
          [] OTHER -> synth.recovery /\ ~StrictReview(k, cited)}

Repairable(k, cited) ==
    /\ ~found.fast /\ text # NoText /\ work.attempts < MaxAttempts
    /\ \/ ~cited
       \/ found.ledger # {} /\ k # NoContract /\ k.complete # "yes"
       \/ ReportVerdict(k) = "REPAIRABLE"

Verdict(k, cited) ==
    IF /\ CompletionPasses(k, cited) /\ ReportVerdict(k) = "PASS" /\ Issues(k, cited) = {}
    THEN "pass"
    ELSE IF Repairable(k, cited) THEN "repairable"
    ELSE IF text # NoText /\ found.ledger # {} THEN "partial" ELSE "fail"

CompletionOutcome(k, cited) ==
    IF CompletionPasses(k, cited) /\ (synth.recovery => StrictReview(k, cited)) THEN "success"
    ELSE IF PartialPasses(k) THEN "partial" ELSE "failed"

QualityGate ==
    /\ phase = "quality"
    /\ \E first \in FirstRecords :
       LET k == UpgradedContract(first)
           cited == text = NoText \/ ValidCitations(text)
       IN  /\ assessment' = [verdict |-> Verdict(k, cited), repairable |-> Repairable(k, cited),
                             outcome |-> CompletionOutcome(k, cited), issues |-> Issues(k, cited)]
           /\ contract' = k
    /\ phase' = "route"
    /\ UNCHANGED <<found, work, pack, result, text, synth, outcome>>

RouteAfterQuality ==
    /\ phase = "route"
    /\ phase' = IF /\ assessment.verdict # "pass" /\ assessment.repairable
                   /\ work.attempts < MaxAttempts
                THEN "synthesize" ELSE "finalize"
    /\ UNCHANGED <<found, work, pack, result, text, contract, synth, assessment, outcome>>

(* The completion contract of the last gate is the terminal authority. *)
Finalize ==
    /\ phase = "finalize"
    /\ outcome' = assessment.outcome
    /\ phase' = "ended"
    /\ UNCHANGED <<found, work, pack, result, text, contract, synth, assessment>>

Done == phase = "ended" /\ UNCHANGED vars

----------------------------------------------------------------------------
(* Without a judgement no wave was judged, and nothing was found. *)
Judgements ==
    {j \in [rows : BOOLEAN, sufficient : BOOLEAN, blocked : BOOLEAN, gaps : BOOLEAN] :
        /\ j.sufficient => j.rows /\ ~j.blocked
        /\ j.gaps = (j.rows /\ ~j.sufficient)
        /\ ~j.rows => ~j.blocked}

(* Ingestion admits a claim only with a record of the ledger behind it;    *)
(* the fact of the fast path is drawn from the registered sources.         *)
Findings ==
    {f \in [fast : BOOLEAN, fact : BOOLEAN, analytical : BOOLEAN, primary : BOOLEAN,
            claims : SUBSET Claims, ledger : SUBSET Evidence, strays : SUBSET Strays,
            conflict : BOOLEAN, judgement : Judgements] :
        /\ \A c \in f.claims : c.refs \subseteq f.ledger
        /\ f.fact => f.fast /\ f.ledger \cup f.strays # {}
        /\ ~f.judgement.rows => f.ledger = {} /\ ~f.conflict
        /\ f.fast => /\ ~f.analytical /\ ~f.primary /\ ~f.conflict
                     /\ f.judgement.sufficient = f.fact}

Init ==
    /\ found \in Findings
    /\ phase = "synthesize"
    /\ work = [attempts |-> 0, calls |-> 0, low |-> FALSE, retried |-> FALSE]
    /\ pack = {} /\ result = NoResult /\ text = NoText /\ contract = NoContract
    /\ synth = [failed |-> FALSE, complete |-> FALSE, answerable |-> FALSE,
                recovery |-> FALSE, mechanism |-> FALSE]
    /\ assessment = NoAssessment
    /\ outcome = "none"

Next ==
    \/ SynthesizeAtomicFact \/ PrepareSynthesis
    \/ ProviderAnswers \/ ProviderFails \/ CompactRetry \/ SettleSynthesis
    \/ QualityGate \/ RouteAfterQuality \/ Finalize \/ Done

(* Every provider call runs under a timeout and the graph drives its nodes. *)
Fairness == WF_vars(Next)

Spec == Init /\ [][Next]_vars /\ Fairness

----------------------------------------------------------------------------
TypeOK ==
    /\ phase \in {"synthesize", "calling", "retry", "settle", "quality", "route",
                  "finalize", "ended"}
    /\ work \in [attempts : AttemptsSeen, calls : AttemptsSeen, low : BOOLEAN, retried : BOOLEAN]
    /\ pack \subseteq found.claims
    /\ text \in Texts
    /\ contract = NoContract \/ DOMAIN contract.answers = Questions
    /\ outcome \in {"none", "success", "partial", "failed"}

(* The provider is called at most three times in a run, and never again    *)
(* for a text that passed its gate.                                        *)
CallsAreBounded ==
    /\ work.calls <= MaxAttempts /\ work.attempts <= MaxAttempts
    /\ phase = "synthesize" => assessment.verdict # "pass"

(* A run ends with success only when every question has an admitted claim  *)
(* over the ledger and no blocking conflict stands, the delivered text     *)
(* cites sources, lists each of them and no other, and none that the run   *)
(* did not register - a deterministic answer none that was not admitted -, *)
(* refuses nothing and has no broken sentence, an analytical request has a *)
(* causal claim behind it, and a brief that requires primary sources got   *)
(* one for every question.  The fast path never passes off its refusal as  *)
(* an answer.  So whatever was retried, recovered or repaired on the way.  *)
SuccessIsGrounded ==
    outcome = "success" =>
      IF found.fast THEN found.fact /\ text.kind = "atomic"
      ELSE /\ \A q \in Questions : AnswerableQuestion(q)
           /\ text.cites \subseteq Registered /\ text.cites = text.lists /\ text.cites # {}
           /\ text.kind = "recovered" => text.cites \subseteq found.ledger
           /\ ~text.refuses /\ text.flaw # "broken"
           /\ found.analytical => \E c \in found.claims : c.causal
           /\ found.primary => \A q \in Questions : Support(q) \cap Authoritative # {}

(* Calls are bounded, and success means what it says.                      *)
SuccessIsEarned == TypeOK /\ CallsAreBounded /\ SuccessIsGrounded

(* When every question can be answered the run does not fail; when the     *)
(* claims also carry a complete answer the run delivers a report, its own  *)
(* or the deterministic one, without a number the run gave to no source:   *)
(* no provider failure, low budget, missing digest or unbound citation     *)
(* loses what was found.                                                   *)
AnswerableIsDelivered ==
    phase = "ended" /\ ~found.fast /\ Answerable =>
        /\ outcome # "failed" /\ text # NoText
        /\ CompleteAnswer => text.kind # "partial" /\ text.cites \subseteq Registered

(* Synthesis, repair and the gate come to an end. *)
Delivers == <>(phase = "ended")
=============================================================================
