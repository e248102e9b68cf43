------------------------------- MODULE RunStart -------------------------------
(***************************************************************************)
(* From the user's query to the first wave of research.  The query is cut  *)
(* into asks; a model may rewrite them as key questions of a brief, behind *)
(* the semantic fidelity gate, with the deterministic brief to fall back   *)
(* on; the brief picks the topology, caps the tools and becomes the plan   *)
(* whose steps are sent to workers.                                        *)
(*                                                                         *)
(* Texts are abstracted to what the compilers tell apart: the kind of a    *)
(* clause, the ask a question overlaps most, and whether it still names    *)
(* the subject of that ask.                                                *)
(***************************************************************************)
EXTENDS Naturals, FiniteSets, SequencesExt

CONSTANTS
  MaxQuestions,   \* key questions of a brief (8 in the code)
  MaxAttempts,    \* answers of the model the gate may reject
  MaxAnswer,      \* bound: questions the model writes
  Queries,        \* bound: the queries, as sequences of clauses
  Modes           \* bound: profiles a run may have; "deep_debug" differs from
                  \* "agent" in its limits only

\* The words that decide the kind of an ask, in the order of the classifier;
\* "latest" are the words for the current state that also call for fresh
\* evidence.  A query that speaks of a conflict or a report ("topic") or of a PDF
\* does so as a whole.
KindOrder == <<"forecast", "comparison", "recommend", "current", "explain", "fact">>
Words == Range(KindOrder) \cup {"latest", "topic", "pdf"}

\* A clause is a question; a rider, such as "why" or a qualifier, that belongs to
\* the ask before it; a scrap below four characters; a delivery format; or a
\* question mark and nothing else.
Clauses ==
  [form : {"question", "rider"}, says : SUBSET Words, names : BOOLEAN]
    \cup [form : {"scrap"}, says : SUBSET Words, names : {FALSE}]
    \cup [form : {"format"}, says : SUBSET {"latest", "topic", "pdf"}, names : {FALSE}]
    \cup [form : {"mark"}, says : {{}}, names : {FALSE}]

ASSUME StartAssumption ==
  /\ MaxQuestions \in Nat \ {0} /\ MaxAttempts \in Nat \ {0} /\ MaxAnswer \in Nat
  /\ Modes \subseteq {"agent", "deep_debug", "direct"}
  /\ Queries \subseteq Seq(Clauses) \ {<< >>}

VARIABLES
  stage,    \* where the start of the run is
  mode,     \* the profile the router resolves
  engine,   \* "legacy" or "contract": HARNESS_RESEARCH_ENGINE_VERSION
  asks,     \* the user's asks
  terms,    \* what the query as a whole asks of the evidence and the answer
  attempt,  \* answers asked of the model
  draft,    \* the brief
  tools,    \* which limit on tool calls the budget manager enforces
  width,    \* active_wave_size: "one" worker or "some"
  plan      \* the steps of the first wave

NoDraft == [questions |-> << >>, primary |-> FALSE, sources |-> 1, fresh |-> FALSE,
            lookup |-> FALSE, from |-> "none"]

startVars == <<stage, mode, engine, asks, terms, attempt, draft, tools, width, plan>>
-----------------------------------------------------------------------------
(* The asks of a query.                                                    *)

\* An ask under construction: the words of its clauses, whether it has any left
\* without its punctuation, and whether it names a subject of its own.
Part(c) == [says |-> c.says, named |-> c.names, worded |-> c.form # "mark"]

\* A clause merged into the ask before it becomes part of its text.
Merged(parts, c) ==
  [parts EXCEPT ![Len(parts)] =
     [says |-> @.says \cup c.says, named |-> @.named \/ c.names, worded |-> TRUE]]

Taken(parts, c) ==
  CASE c.form = "format" -> parts
    [] c.form \in {"rider", "scrap"} /\ parts # << >> -> Merged(parts, c)
    [] c.form = "scrap" /\ parts = << >> -> parts
    [] OTHER -> Append(parts, Part(c))

Said(query) == UNION {query[i].says : i \in DOMAIN query}

\* A query without any ask is one ask as a whole.
Parts(query) ==
  LET after[i \in 0 .. Len(query)] ==
        IF i = 0 THEN << >> ELSE Taken(after[i - 1], query[i])
  IN IF after[Len(query)] = << >>
     THEN <<[says |-> Said(query), named |-> FALSE, worded |-> TRUE]>>
     ELSE after[Len(query)]

\* An ask without a subject of its own takes the query's; when no clause has one
\* there is none to lose.
AsksOf(query) ==
  LET parts == Parts(query)
      nameless == \A i \in DOMAIN parts : ~parts[i].named
  IN [i \in DOMAIN parts |-> [named |-> parts[i].named \/ nameless,
                              worded |-> parts[i].worded]]

\* The first of an order of kinds that is there, or what is none of them.
FirstOf(order, kinds, none) ==
  IF \E i \in DOMAIN order : order[i] \in kinds
  THEN order[CHOOSE i \in DOMAIN order :
               /\ order[i] \in kinds
               /\ \A j \in DOMAIN order : order[j] \in kinds => i <= j]
  ELSE none

Kind(part) ==
  FirstOf(KindOrder, part.says \cup IF "latest" \in part.says THEN {"current"} ELSE {},
          "current")

\* The intent of a query: its topic, or the first kind among its asks, in an
\* order that is not the classifier's.
IntentOrder == <<"forecast", "comparison", "recommend", "explain", "current", "fact">>
Intent(query) ==
  IF "topic" \in Said(query) THEN "topic"
  ELSE FirstOf(IntentOrder, {Kind(Parts(query)[i]) : i \in DOMAIN Parts(query)}, "current")

\* Facts and recommendations rest on original sources, all else on two.
Floor(intent) == intent \in {"fact", "recommend"}
FreshNeeded(query) ==
  Intent(query) \in {"forecast", "current"} \/ "latest" \in Said(query)

\* What the query asks of evidence and answer: original sources, how many, fresh
\* ones, a brief answer to a fact.
TermsOf(query) ==
  [primary |-> Floor(Intent(query)), sources |-> IF Floor(Intent(query)) THEN 1 ELSE 2,
   fresh |-> FreshNeeded(query),
   atomic |-> Intent(query) = "fact" /\ ~FreshNeeded(query) /\ "pdf" \notin Said(query)]

NoTerms == [primary |-> FALSE, sources |-> 1, fresh |-> FALSE, atomic |-> FALSE]
-----------------------------------------------------------------------------
(* Briefs.                                                                 *)

Cut(qs) == SubSeq(qs, 1, IF Len(qs) < MaxQuestions THEN Len(qs) ELSE MaxQuestions)

Verbatim(i) == [ask |-> i, subject |-> asks[i].named]

\* The asks that have words, in the order of the query.
Nth(S, n) == CHOOSE i \in S : Cardinality({j \in S : j <= i}) = n
InWords(S) ==
  LET spoken == {i \in S : asks[i].worded}
  IN [k \in 1 .. Cardinality(spoken) |-> Verbatim(Nth(spoken, k))]

\* The deterministic brief: the user's own words, ask by ask, or as a whole when
\* there are none but marks.
Fallback ==
  LET own == Cut(InWords(DOMAIN asks))
      qs == IF own = << >> THEN <<[ask |-> 1, subject |-> TRUE]>> ELSE own
  IN [questions |-> qs, primary |-> terms.primary, sources |-> terms.sources,
      fresh |-> terms.fresh, lookup |-> terms.atomic /\ Len(qs) = 1, from |-> "query"]

\* What the model may answer.  Each question overlaps one ask most, as do those
\* of the fallback, which stand in for questions the model left out; `lookup`
\* says that the answer describes an atomic fact on one subject in brief text,
\* `shaped` that its formats are known.  A field left out of the JSON has the
\* schema's default, one source, no primary and nothing fresh, not the fallback's
\* value.
Answers ==
  [questions : SeqOf([ask : DOMAIN asks, subject : BOOLEAN], MaxAnswer) \ {<< >>},
   primary : BOOLEAN, sources : {1, 2}, fresh : BOOLEAN, lookup : BOOLEAN,
   shaped : BOOLEAN]

\* The model's questions, and behind them, verbatim, every ask with words that
\* none of them overlaps.
Aligned(answered) ==
  LET unmapped == {i \in DOMAIN asks : \A k \in DOMAIN answered : answered[k].ask # i}
  IN Cut(answered \o InWords(unmapped))

Brief(answer, primary) ==
  LET qs == Aligned(answer.questions)
  IN [questions |-> qs, primary |-> primary, sources |-> answer.sources,
      fresh |-> answer.fresh, lookup |-> answer.lookup /\ Len(qs) = 1, from |-> "model"]

\* A brief that does not validate is the fallback again.
CandidateAsAnswered(answer) ==
  IF answer.shaped THEN Brief(answer, answer.primary) ELSE Fallback
Candidate(answer) ==
  IF answer.shaped THEN Brief(answer, Fallback.primary \/ answer.primary) ELSE Fallback

Asked(b) == {b.questions[k].ask : k \in DOMAIN b.questions}
KeepsSubject(b) ==
  {b.questions[k].ask : k \in {k \in DOMAIN b.questions : b.questions[k].subject}}

\* evaluate_semantic_fidelity; a lost time scope is only an issue.
FaithfulEnough(b) == 5 * Cardinality(KeepsSubject(b)) >= 4 * Cardinality(Asked(b))
Faithful(b) ==
  /\ Asked(b) = DOMAIN asks
  /\ 5 * Cardinality(KeepsSubject(b)) >= 4 * Len(asks)
-----------------------------------------------------------------------------
(* Steps.                                                                  *)

StartInit ==
  /\ stage = "bootstrap" /\ mode \in Modes
  /\ engine \in {"legacy", "contract"}
  /\ \E q \in Queries : asks = AsksOf(q) /\ terms = TermsOf(q)
  /\ attempt = 0 /\ draft = NoDraft /\ tools = "none" /\ width = "some" /\ plan = << >>

\* The limits of a profile; the second engine has its own for every profile.
ToolLimit == IF engine = "contract" THEN engine ELSE mode

\* The runner's budget manager replaces the harness's when the engine's limits
\* differ from the profile's; nothing was charged yet.
Bootstrap ==
  /\ stage = "bootstrap"
  /\ stage' = "understand" /\ tools' = ToolLimit
  /\ UNCHANGED <<mode, engine, asks, terms, attempt, draft, width, plan>>

\* No control model, or a call that was refused, timed out or returned no
\* valid JSON object: there is no second try.
FallBack ==
  /\ stage \in {"understand", "asking"}
  /\ draft' = Fallback /\ stage' = "understood"
  /\ UNCHANGED <<mode, engine, asks, terms, attempt, tools, width, plan>>

NextAttempt == attempt + 1

AskModel ==
  /\ stage = "understand"
  /\ attempt' = NextAttempt /\ stage' = "asking"
  /\ UNCHANGED <<mode, engine, asks, terms, draft, tools, width, plan>>

\* The gate lets an answer through, or has the model asked again while an
\* attempt is left; the fallback itself is never put to the gate.
Answered ==
  /\ stage = "asking"
  /\ \E answer \in Answers :
       LET b == Candidate(answer) IN
       \/ Faithful(b) /\ draft' = b /\ stage' = "understood" /\ attempt' = attempt
       \/ ~Faithful(b) /\ attempt < MaxAttempts
          /\ attempt' = NextAttempt /\ UNCHANGED <<stage, draft>>
       \/ ~Faithful(b) /\ attempt >= MaxAttempts
          /\ draft' = Fallback /\ stage' = "understood" /\ attempt' = attempt
  /\ UNCHANGED <<mode, engine, asks, terms, tools, width, plan>>

\* The user cancels the run while the brief is compiled.
CancelStart ==
  /\ stage \in {"understand", "asking"}
  /\ stage' = "cancelled"
  /\ UNCHANGED <<mode, engine, asks, terms, attempt, draft, tools, width, plan>>

FastPath(b) == engine = "legacy" /\ b.lookup

\* The graph starts with the brief in its state; the direct graph has one node
\* that answers with the query.
EnterGraph ==
  /\ stage = "understood"
  /\ tools' = IF FastPath(draft) THEN "three" ELSE tools
  /\ stage' = IF mode = "direct" THEN "baseline" ELSE "brief"
  /\ UNCHANGED <<mode, engine, asks, terms, attempt, draft, width, plan>>

\* The node keeps the brief it finds.
BriefInState == draft

\* One step for each question; under the answer contract one for each ask,
\* whatever the model made of them.
Steps(b) ==
  LET qs == IF engine = "contract" THEN [i \in DOMAIN asks |-> Verbatim(i)] ELSE b.questions
  IN [k \in DOMAIN qs |-> [ask |-> qs[k].ask, subject |-> qs[k].subject,
                           lookup |-> FastPath(b) /\ k = 1]]

PlanFirstWave ==
  /\ stage = "brief"
  /\ plan' = Steps(BriefInState)
  /\ width' = IF BriefInState.lookup THEN "one" ELSE width
  /\ stage' = "planned"
  /\ UNCHANGED <<mode, engine, asks, terms, attempt, draft, tools>>

\* validate_brief_plan insists on a step for every question of the brief, or
\* under the contract for every ask; only a valid plan is sent.
Validates ==
  {plan[k].ask : k \in DOMAIN plan} =
    IF engine = "contract" THEN DOMAIN asks ELSE Asked(draft)

Send ==
  /\ stage = "planned"
  /\ stage' = IF Validates /\ plan # << >> THEN "sent" ELSE "supervisor"
  /\ UNCHANGED <<mode, engine, asks, terms, attempt, draft, tools, width, plan>>

\* What happens without an answer of the model: its call has a timeout.
Unaided == Bootstrap \/ FallBack \/ EnterGraph \/ PlanFirstWave \/ Send

Start == Unaided \/ AskModel \/ Answered
-----------------------------------------------------------------------------
(* Properties.                                                             *)

\* The start's state: a brief never has more questions than it may, and each of
\* its questions and steps belongs to an ask.
StartTypeOK ==
  /\ stage \in {"bootstrap", "understand", "asking", "understood", "brief", "baseline",
               "planned", "sent", "supervisor", "cancelled", "researching"}
  /\ mode \in Modes /\ engine \in {"legacy", "contract"}
  /\ \A i \in DOMAIN asks : asks[i] \in [named : BOOLEAN, worded : BOOLEAN]
  /\ terms \in [primary : BOOLEAN, sources : {1, 2}, fresh : BOOLEAN, atomic : BOOLEAN]
  /\ attempt \in 0 .. MaxAttempts
  /\ Len(draft.questions) <= MaxQuestions
  /\ Asked(draft) \cup {plan[k].ask : k \in DOMAIN plan} \subseteq DOMAIN asks
  /\ tools \in Modes \cup {"none", "contract", "three"} /\ width \in {"one", "some"}

\* What the user asked is researched: the first wave has a step for every ask
\* that has words (a question mark that stands alone is an ask without any), for every ask at all under the contract and in a brief of the
\* model's, and where the model's words are used, for four asks in five one that
\* still names the subject; for the first engine up to the number of questions a
\* brief may have (split into asks, alignment, the cut to eight questions, the
\* gate, retry and fallback, build_brief_and_plan).
AskedIsPlanned ==
  stage = "sent" /\ (engine = "contract" \/ Len(asks) <= MaxQuestions) =>
    LET planned == {plan[k].ask : k \in DOMAIN plan}
        named == {plan[k].ask : k \in {k \in DOMAIN plan : plan[k].subject}}
    IN /\ {i \in DOMAIN asks : asks[i].worded} \subseteq planned
       /\ engine = "contract" \/ draft.from = "model" => planned = DOMAIN asks
       /\ engine = "legacy" /\ draft.from = "model" =>
            5 * Cardinality(named) >= 4 * Len(asks)

\* One brief governs budget and plan: the three tool calls of the fast path
\* are all a run has exactly when its plan is that one lookup (execute caps the
\* manager, brief_node builds the plan).
CapMatchesPlan ==
  stage = "sent" => (tools = "three" <=> Len(plan) = 1 /\ plan[1].lookup)
=============================================================================
