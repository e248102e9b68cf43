------------------------------ MODULE AnswerUnits ------------------------------
(***************************************************************************)
(* How an answer is built from validated units (engine answer_contract_v2).*)
(*                                                                         *)
(* The question is compiled into asks with a target number of units.  A    *)
(* worker reports claims and candidate units; ingestion binds the fields   *)
(* of each candidate to claims of its own task and validates it against    *)
(* the worker's view; the graph merges the updates of a wave; coverage     *)
(* counts units and may ask for a repair wave; synthesis renders the valid *)
(* units with numbered citations; the quality gate decides the outcome.    *)
(*                                                                         *)
(* Four authorities read the same units: the validator, the coverage       *)
(* count, the renderer and the completion contract.                        *)
(***************************************************************************)
EXTENDS Naturals, FiniteSets, Sequences

CONSTANTS
  Asks,           \* the asks of the AnswerSpec, all of one frozen revision
  Recommending,   \* those of kind recommendation
  Reasoned,       \* those whose only bound field is an inference (explanation)
  Required,
  PartialAllowed,
  Target,         \* ask -> target_units, which is also max_units
  Entities, Nobody,
  EvidenceIds,
  Web,            \* evidence with an http locator
  Primary,        \* evidence of source_type primary
  PrimaryRequired,\* source_requirements.primary_required of the brief
  Source,         \* evidence -> its canonical source
  MaxClaims,      \* claims of one worker
  MaxUnits,       \* ask -> candidates of one of its workers
  MaxWaves        \* initial wave and repair waves

ASSUME AsksAssumption ==
  /\ IsFiniteSet(Asks)
  /\ Recommending \cup Reasoned \cup Required \cup PartialAllowed \subseteq Asks
  /\ Recommending \cap Reasoned = {}
ASSUME TargetAssumption ==
  Target \in [Asks -> Nat \ {0}] /\ MaxUnits \in [Asks -> Nat]
ASSUME EvidenceAssumption ==
  Web \cup Primary \subseteq EvidenceIds /\ DOMAIN Source = EvidenceIds
ASSUME WavesAssumption == MaxClaims \in Nat /\ MaxWaves \in Nat

\* One task for each ask of a wave: the plan has one for each ask, a repair
\* wave one for each gap it takes up.
Tasks == Asks \X (1 .. MaxWaves)
UnitClaims == Tasks \X (1 .. MaxClaims)

VARIABLES
  answerPhase,
  wave,
  sends,     \* tasks of the wave in flight
  updates,   \* task -> what its worker returned
  claims,    \* claims channel: claim -> the evidence it cites
  support,   \* support_edges channel: evidence -> claim, see MergeRecords
  units,     \* answer_units channel
  complete,  \* what the coverage judge last called complete
  report,    \* what synthesis rendered
  answerOutcome    \* of the completion contract

ledgerVars == <<claims, support, units>>
unitsVars == <<answerPhase, wave, sends, updates, ledgerVars, complete, report, answerOutcome>>

Nothing == [x \in {} |-> x]
NoReport == [units |-> Nothing, cited |-> {}, numbered |-> Nothing, checked |-> FALSE]
-----------------------------------------------------------------------------
(* A worker's candidates, projected on the required fields and validated.  *)

\* What a worker may report: claims with the evidence admitted for them, and
\* candidates. `facts` are the claims of the task whose text contains the value
\* of the factual field, whatever ids the model gave; `premises` are those it
\* names for the inference; `sound` is the rest the validator looks at: values
\* present, a rationale, one entity that is no ranking, the compared subjects.
ClaimMaps(t) ==
  UNION {[{<<t, n>> : n \in 1 .. k} -> (SUBSET EvidenceIds) \ {{}}] : k \in 0 .. MaxClaims}
\* Whom a unit names matters in a recommendation only; what failed validation
\* is kept as a failure.
Candidates(ask, own) ==
  [entity : IF ask \in Recommending THEN Entities ELSE {Nobody},
   facts : SUBSET own, premises : SUBSET own, sound : BOOLEAN]

\* An inference without premises of its own rests on the facts of its unit.
Premises(c) == IF c.premises = {} THEN c.facts ELSE c.premises
Bound(ask, c) ==
  IF ask \in Reasoned THEN c.premises # {}
  ELSE c.facts # {} /\ Premises(c) # {}

\* assemble_candidate_unit and validate_answer_units; admitted claims of the
\* task have their edges in the worker's own view.
\* Mutant of UnitId: units are named by their number alone.
UnitIdUnscoped(t, n) == <<<<t[1], 1>>, n>>
UnitId(t, n) == <<t, n>>
Unit(t, n, c) ==
  LET valid == c.sound /\ Bound(t[1], c)
  IN [id |-> UnitId(t, n), ask |-> t[1], valid |-> valid,
      entity |-> IF valid THEN c.entity ELSE Nobody,
      rests |-> IF ~valid THEN {}
                ELSE IF t[1] \in Reasoned THEN c.premises ELSE c.facts \cup Premises(c)]

\* Claims of one task that cite one source share an edge: the last one has it.
Edges(cites) ==
  [e \in UNION {cites[c] : c \in DOMAIN cites} |->
        CHOOSE c \in DOMAIN cites :
          e \in cites[c] /\ \A d \in DOMAIN cites : e \in cites[d] => d[2] <= c[2]]

UpTo(n, S) == UNION {[1 .. k -> S] : k \in 0 .. n}

WorkerUpdates(t) ==
  UNION {{[claims |-> cites, support |-> Edges(cites),
           units |-> [n \in DOMAIN cs |-> Unit(t, n, cs[n])]] :
            cs \in UpTo(MaxUnits[t[1]], Candidates(t[1], DOMAIN cites))} :
         cites \in ClaimMaps(t)}
-----------------------------------------------------------------------------
(* Reading the units, by their places in the channel.                      *)

ValidUnits(us, ask) == {i \in DOMAIN us : us[i].ask = ask /\ us[i].valid}

Rank(i, S) == Cardinality({j \in S : j <= i})
FirstOf(n, S) == {i \in S : Rank(i, S) <= n}

\* A recommendation counts once for each entity: the first unit stays.
FirstOfEntity(us, S) == {i \in S : \A j \in S : us[j].entity = us[i].entity => i <= j}
Distinct(ask, us, S) == IF ask \in Recommending THEN FirstOfEntity(us, S) ELSE S

\* answer_unit_coverage and evaluate_completion_v2 count distinct units.
\* Mutant of Counted: the count goes over candidates as well.
CountedCandidates(us, ask) ==
  Cardinality(FirstOf(Target[ask], Distinct(ask, us, {i \in DOMAIN us : us[i].ask = ask})))
Counted(us, ask) ==
  Cardinality(FirstOf(Target[ask], Distinct(ask, us, ValidUnits(us, ask))))
CompleteAsks(us) == {a \in Asks : Counted(us, a) >= Target[a]}

\* render_validated_units takes max_units before it drops repeated entities.
Rendered(us, ask) == Distinct(ask, us, FirstOf(Target[ask], ValidUnits(us, ask)))

\* merge_records: a unit with a known id replaces the one that has it, the
\* others follow in their order.
Picked(us, S) == [k \in 1 .. Cardinality(S) |-> us[CHOOSE i \in S : Rank(i, S) = k]]
Same(us, id) == {j \in DOMAIN us : us[j].id = id}
MergeUnits(left, right) ==
  [i \in DOMAIN left |->
     IF Same(right, left[i].id) = {} THEN left[i]
     ELSE right[CHOOSE j \in Same(right, left[i].id) : TRUE]]
    \o Picked(right, {j \in DOMAIN right : Same(left, right[j].id) = {}})
MergeRecords(left, right) ==
  [id \in DOMAIN left \cup DOMAIN right |->
     IF id \in DOMAIN right THEN right[id] ELSE left[id]]

MergeUpdate(ch, u) ==
  [claims |-> MergeRecords(ch.claims, u.claims),
   support |-> MergeRecords(ch.support, u.support),
   units |-> MergeUnits(ch.units, u.units)]

\* The evidence a unit is cited with: that whose one edge leads to a claim the
\* unit rests on.
Citations(u) == {e \in DOMAIN support : support[e] \in u.rests}

\* _citation_numbers_for_evidence_records: evidence bound to a source of the
\* citation manager has the number of that source, any other one of its own.
Number(registered, e) ==
  IF e \in registered THEN <<"source", Source[e]>> ELSE <<"record", e>>
-----------------------------------------------------------------------------
UnitsInit ==
  /\ answerPhase = "dispatch" /\ wave = 0
  /\ sends = {} /\ updates = Nothing
  /\ claims = Nothing /\ support = Nothing /\ units = <<>>
  /\ complete = {} /\ report = NoReport /\ answerOutcome = "none"

\* build_brief_and_plan has a task for each ask, which validate_brief_plan
\* insists on; a gap has the ask it is of, and the supervisor takes up some.
PlannedTasks == {<<a, 1>> : a \in Asks}
RepairTasks == {{<<a, wave + 1>> : a \in As} : As \in SUBSET (Asks \ complete) \ {{}}}
Dispatch ==
  /\ answerPhase = "dispatch" /\ wave < MaxWaves
  /\ wave' = wave + 1
  /\ sends' \in IF wave = 0 THEN {PlannedTasks} ELSE RepairTasks
  /\ answerPhase' = "execute"
  /\ UNCHANGED <<updates, ledgerVars, complete, report, answerOutcome>>

\* node_research_worker: a failed worker returns no claim and no candidate.
WorkerReturns(t) ==
  /\ answerPhase = "execute" /\ t \in sends \ DOMAIN updates
  /\ \E u \in WorkerUpdates(t) : updates' = MergeRecords(updates, [x \in {t} |-> u])
  /\ UNCHANGED <<answerPhase, wave, sends, ledgerVars, complete, report, answerOutcome>>

Orders(S) ==
  {s \in [1 .. Cardinality(S) -> S] : \A i, j \in DOMAIN s : s[i] = s[j] => i = j}
FoldUpdates(ch, us) ==
  LET after[i \in 0 .. Len(us)] ==
        IF i = 0 THEN ch ELSE MergeUpdate(after[i - 1], us[i])
  IN after[Len(us)]
Ledger == [claims |-> claims, support |-> support, units |-> units]

FanIn ==
  /\ answerPhase = "execute" /\ DOMAIN updates = sends
  /\ \E order \in Orders(sends) :
       LET merged == FoldUpdates(Ledger, [i \in DOMAIN order |-> updates[order[i]]])
       IN /\ claims' = merged.claims /\ support' = merged.support
          /\ units' = merged.units
  /\ sends' = {} /\ updates' = Nothing
  /\ answerPhase' = "coverage"
  /\ UNCHANGED <<wave, complete, report, answerOutcome>>

\* node_coverage_judge; what the control policy makes of it is the research
\* graph's: a sufficient answer is written, another wave needs a gap.
CoverageJudge ==
  /\ answerPhase = "coverage"
  /\ complete' = CompleteAsks(units)
  /\ answerPhase' \in {"synthesis"} \cup (IF Required \subseteq complete' THEN {} ELSE {"dispatch"})
  /\ UNCHANGED <<wave, sends, updates, ledgerVars, report, answerOutcome>>

\* The supervisor, or a limit, ends research with gaps open.
EndResearch ==
  /\ answerPhase = "dispatch" /\ wave > 0
  /\ answerPhase' = "synthesis"
  /\ UNCHANGED <<wave, sends, updates, ledgerVars, complete, report, answerOutcome>>

\* node_synthesize; `checked` says that the citation manager has any source.
Claimed == UNION {claims[c] : c \in DOMAIN claims}
Delivery == [a \in Asks |-> [i \in Rendered(units, a) |-> units[i]]]
CitedBy(delivered) ==
  UNION {UNION {Citations(delivered[a][i]) : i \in DOMAIN delivered[a]} : a \in Asks}

Synthesize ==
  /\ answerPhase = "synthesis"
  /\ \E registered \in SUBSET Claimed, checked \in BOOLEAN :
       /\ registered # {} => checked
       /\ report' = [units |-> Delivery, cited |-> CitedBy(Delivery), checked |-> checked,
                     numbered |-> [e \in CitedBy(Delivery) |-> Number(registered, e)]]
  /\ answerPhase' = "quality"
  /\ UNCHANGED <<wave, sends, updates, ledgerVars, complete, answerOutcome>>

\* validate_citations: without sources there is nothing to check; otherwise
\* every number needs a reference line, which a locator without http does not
\* get, and enough sentences a number.
CitationVerdicts(r) ==
  IF ~r.checked THEN {TRUE}
  ELSE IF {r.numbered[e] : e \in r.cited} # {r.numbered[e] : e \in r.cited \cap Web} \/ r.cited = {}
       THEN {FALSE} ELSE BOOLEAN

SourcesPass(r) == r.cited # {} /\ (PrimaryRequired => r.cited \cap Primary # {})

Outcome(r, citationValid) ==
  IF /\ citationValid /\ SourcesPass(r)
     /\ \E a \in Asks : DOMAIN r.units[a] # {}
     /\ Required # {} /\ Required \subseteq CompleteAsks(units)
  THEN "success"
  ELSE IF \E a \in Required \cap PartialAllowed : Counted(units, a) >= 1
       THEN "partial" ELSE "failed"

\* node_quality_gate.
GateAnswer ==
  /\ answerPhase = "quality"
  /\ \E valid \in CitationVerdicts(report) : answerOutcome' = Outcome(report, valid)
  /\ answerPhase' = "ended"
  /\ UNCHANGED <<wave, sends, updates, ledgerVars, complete, report>>

UnitsNext ==
  \/ Dispatch \/ \E t \in Tasks : WorkerReturns(t)
  \/ FanIn \/ CoverageJudge \/ EndResearch \/ Synthesize \/ GateAnswer

UnitsSpec == UnitsInit /\ [][UnitsNext]_unitsVars
-----------------------------------------------------------------------------
(* Properties.                                                             *)

\* The channels' shape: an edge leads to an admitted claim, and no two units have
\* one id.
UnitsTypeOK ==
  /\ answerPhase \in {"dispatch", "execute", "coverage", "synthesis", "quality", "ended"}
  /\ wave \in 0 .. MaxWaves /\ sends \subseteq Tasks /\ DOMAIN updates \subseteq sends
  /\ DOMAIN claims \subseteq UnitClaims /\ claims \in [DOMAIN claims -> SUBSET EvidenceIds]
  /\ DOMAIN support \subseteq EvidenceIds /\ (\A e \in DOMAIN support : support[e] \in DOMAIN claims)
  /\ \A i, j \in DOMAIN units : units[i].id = units[j].id => i = j
  /\ complete \subseteq Asks /\ report.cited \subseteq EvidenceIds
  /\ answerOutcome \in {"none", "success", "partial", "failed"}

Delivered(a) == {report.units[a][i] : i \in DOMAIN report.units[a]}
Rests(a) == UNION {u.rests : u \in Delivered(a)}

\* Only validated units are delivered: each rests on claims that workers of its
\* own ask had admitted, and each number of the report leads to evidence that
\* such a claim cites, whatever siblings and repair waves merged in between
\* (unit_assembler, merge_records, render_validated_units).
ReportIsGrounded ==
  answerPhase \in {"quality", "ended"} =>
    /\ \A a \in Asks : \A u \in Delivered(a) :
         /\ u.rests # {} /\ u.rests \subseteq DOMAIN claims
         /\ \A c \in u.rests : c[1] = u.id[1] /\ c[1][1] = a
    /\ \A e \in report.cited : \E a \in Asks :
         support[e] \in Rests(a) /\ e \in claims[support[e]]

\* The renderer drops a unit after it has counted it: some entity is named
\* twice among the first units of the ask.
Repeats(a) ==
  \E i, j \in FirstOf(Target[a], ValidUnits(units, a)) :
    i # j /\ units[i].entity = units[j].entity

\* What the completion contract says is what the user gets: success delivers
\* every required ask in full, unless a recommendation repeats, and with a
\* citation for each unit that other claims left an edge; partial delivers
\* something of a required ask, and a run that fails had nothing deliverable
\* (evaluate_completion_v2 against render_validated_units).
OutcomeIsHonest ==
  answerPhase = "ended" =>
    /\ answerOutcome = "success" =>
         \A a \in Required :
           /\ Cardinality(DOMAIN report.units[a]) >= Target[a] \/ (a \in Recommending /\ Repeats(a))
           /\ \A u \in Delivered(a) : \A c \in u.rests : \A e \in claims[c] :
                e \in report.cited \/ support[e] \notin u.rests
    /\ answerOutcome = "partial" => \E a \in Required : Delivered(a) # {}
    /\ answerOutcome = "failed" =>
         \A a \in Required \cap PartialAllowed : Delivered(a) = {}

\* The user is handed validated, cited units and told truly how many of those
\* asked for they are.
AnswerIsHonest == UnitsTypeOK /\ ReportIsGrounded /\ OutcomeIsHonest

\* Repair waves only add to the answer: an ask once complete stays so, until
\* the gate judges what coverage called sufficient (answer_unit_coverage,
\* merge_records over unit ids).
AnswersGrow ==
  [][/\ complete \subseteq CompleteAsks(units')
     /\ \A a \in Asks : Counted(units, a) <= Counted(units', a)]_unitsVars
=============================================================================
