--------------------------- MODULE ResearchCoverage ---------------------------
(***************************************************************************)
(* What the research loop of the first engine knows and does about its key *)
(* questions: the admitted claims of each wave, the coverage judgement     *)
(* made of them, and the supervisor that turns the gaps of the judgement   *)
(* into repair tasks or ends research.                                     *)
(*                                                                         *)
(* ResearchGraph has the same loop with an arbitrary judgement and         *)
(* arbitrary requests; here both are computed as the code computes them.   *)
(* A claim is named by what it says; its row by the task and wave that     *)
(* brought it, since the identity of a claim contains its task.            *)
(***************************************************************************)
EXTENDS Naturals, FiniteSets

CONSTANTS Questions,          \* indices of the key questions of the brief
          Evidence,           \* records: source, and the qualities it shows
          Claims,             \* claims: the questions they are bound to, refs, causal
          Contradictions,     \* two claims on one subject that differ, for a question
          MechanismQuestions, \* questions that ask for a mechanism
          SourceCounts,       \* values of min_independent_sources
          Requirements,       \* sets of qualities a brief may require
          RepairLimits        \* values of max_replan_count

Qualities == {"primary_source", "fresh_evidence", "mechanism_evidence"}

ASSUME CoverageAssumption ==
    /\ IsFiniteSet(Questions) /\ Questions \subseteq Nat \ {0} /\ Questions # {}
    /\ SourceCounts \subseteq Nat \ {0} /\ RepairLimits \subseteq Nat
    /\ IsFiniteSet(Evidence) /\ \A e \in Evidence : e.shows \subseteq Qualities
    /\ \A c \in Claims : c.about \subseteq Questions /\ c.refs \subseteq Evidence /\ c.refs # {}
    /\ \A p \in Contradictions : /\ p.claims \subseteq Claims /\ Cardinality(p.claims) = 2
                                   /\ \A c \in p.claims : p.question \in c.about

VARIABLES brief,      \* what the brief asks of the evidence; its repair limit
          phase, wave,
          pending,    \* questions whose task of this wave has not returned
          rows,       \* admitted claims, with the task and the wave they came from
          failed,     \* questions with a worker that failed empty-handed
          worked,     \* questions with a worker that did not
          authority,  \* a wave admitted evidence of high quality
          judged,     \* coverage_judgement
          lowRounds,  \* low_value_rounds
          tried,      \* task_fingerprints
          exhausted,  \* the budget is exhausted
          action,     \* supervisor_action
          route       \* control_decision

workVars == <<pending, rows, failed, worked, authority>>
vars == <<brief, phase, wave, workVars, judged, lowRounds, tried, exhausted, action, route>>

Gap == {"direct_criterion_binding", "evidence", "independent_source",
        "conflict_resolution", "worker_failed"} \cup Qualities

(* A request is recognised by its objective: the question and what is      *)
(* missing, the question as a whole, or words of the model's own.          *)
Request(q, scope) == [question |-> q, scope |-> scope]

NoJudgement == [made |-> FALSE, sufficient |-> FALSE,
                status |-> [q \in Questions |-> "none"], gaps |-> [q \in {} |-> {}]]
NoAction == [name |-> "none", tasks |-> {}, source |-> "none"]

----------------------------------------------------------------------------
(* The evidence behind a question.                                         *)

(* A row speaks for the questions it names, never for those it resembles.  *)
SpeaksFor(r, q) == q \in r.claim.about

(* Mutant of Bound: only the claims of this wave are read. *)
BoundOfWave(q) == {r \in rows : r.wave = wave /\ SpeaksFor(r, q)}

Bound(q) == {r \in rows : SpeaksFor(r, q)}

Refs(q) == UNION {r.claim.refs : r \in Bound(q)}

Sources(q) == {e.source : e \in Refs(q)}

Shown(q) ==
    UNION {e.shows : e \in Refs(q)}
        \cup IF \E r \in Bound(q) : r.claim.causal THEN {"mechanism_evidence"} ELSE {}

Required(q) ==
    brief.needs \cup IF q \in MechanismQuestions THEN {"mechanism_evidence"} ELSE {}

(* Mutant of Conflicts: earlier claims are not compared with. *)
ConflictsOfTask ==
    {p \in Contradictions :
        \E r, s \in rows : p.claims = {r.claim, s.claim} /\ r.task = s.task /\ r.wave = s.wave}

(* Two contradicting claims are found when one is ingested while the other *)
(* is there: claims of two tasks of one wave never meet.  What a conflict  *)
(* resolves to depends on its two claims alone, so it stays unresolved.    *)
Conflicts ==
    {p \in Contradictions :
        \E r, s \in rows : /\ p.claims = {r.claim, s.claim}
                           /\ r.task = s.task \/ r.wave # s.wave}

Blocked(q) == \E p \in Conflicts : p.question = q

Missing(q) ==
    (IF Bound(q) = {} THEN {"direct_criterion_binding", "evidence"} ELSE {})
    \cup (IF Cardinality(Sources(q)) < brief.sources THEN {"independent_source"} ELSE {})
    \cup (Required(q) \ Shown(q))
    \cup (IF Blocked(q) THEN {"conflict_resolution"} ELSE {})

Status(q) ==
    CASE Blocked(q) -> "conflicted"
      [] ~Blocked(q) /\ Missing(q) = {} -> "supported"
      [] ~Blocked(q) /\ Missing(q) # {} /\ Bound(q) # {} -> "partial"
      [] OTHER -> "unsupported"

(* One worker that brought something redeems a question. *)
FailedQuestions == failed \ worked

GapQuestions == {q \in Questions : Status(q) # "supported" \/ q \in FailedQuestions}

GapOf(q) == Missing(q) \cup IF q \in FailedQuestions THEN {"worker_failed"} ELSE {}

(* The rows of a wave are new to the judgement that follows it. *)
Progress == \E r \in rows : r.wave = wave

(* _ask_coverage: an ask is answered directly when it has questions and    *)
(* all of them are supported; a required one may have lost its question.   *)
AsksAnswered == ~brief.lostAsk /\ \A q \in Questions : Status(q) = "supported"

Sufficient ==
    LET earned == GapQuestions = {} /\ AsksAnswered
        kept == judged.sufficient /\ Conflicts = {} /\ GapQuestions = {}
        stuck == judged.made /\ ~judged.sufficient /\ ~Progress
    IN  (earned \/ kept) /\ ~stuck

(* What judge_coverage returns and CoverageJudge.evaluate passes on: a      *)
(* model that is asked may word what is missing, never give the verdict.   *)
Judgement ==
    [made |-> TRUE, sufficient |-> Sufficient, status |-> [q \in Questions |-> Status(q)],
     gaps |-> [q \in (IF Sufficient THEN {} ELSE GapQuestions) |-> GapOf(q)]]

(* evidence_records is not empty; a criterion has evidence to deliver. *)
Usable == worked # {}
AnswerableAsk == \E q \in Questions : Bound(q) # {} /\ Status(q) \in {"supported", "partial"}
----------------------------------------------------------------------------
(* Waves.                                                                  *)

(* The worker of a task returns admitted claims about its question, other  *)
(* evidence only, or nothing at all.                                       *)
WorkerReturns(q) ==
    /\ phase = "work" /\ q \in pending
    /\ pending' = pending \ {q}
    /\ UNCHANGED <<brief, phase, wave, judged, lowRounds, tried, exhausted, action, route>>
    /\ \E found \in SUBSET {c \in Claims : q \in c.about}, empty, high \in BOOLEAN :
        /\ empty => found = {} /\ ~high
        /\ rows' = rows \cup {[claim |-> c, task |-> q, wave |-> wave] : c \in found}
        /\ failed' = IF empty THEN failed \cup {q} ELSE failed
        /\ worked' = IF empty THEN worked ELSE worked \cup {q}
        /\ authority' = (authority \/ high)

FanIn ==
    /\ phase = "work" /\ pending = {}
    /\ phase' = "judge"
    /\ UNCHANGED <<brief, wave, workVars, judged, lowRounds, tried, exhausted, action, route>>

AfterJudge(decision) == IF decision = "none" THEN "supervise" ELSE "end"

(* node_coverage_judge and the edge behind it: sufficient coverage, or two *)
(* rounds that were worth nothing, go to synthesis.                        *)
CoverageJudge ==
    /\ phase = "judge"
    /\ judged' = Judgement
    /\ lowRounds' = IF Progress \/ authority THEN 0 ELSE lowRounds + 1
    /\ route' = CASE lowRounds' >= 2 /\ Usable -> "deliver_partial"
                  [] ~(lowRounds' >= 2 /\ Usable) /\ judged'.sufficient -> "synthesize"
                  [] OTHER -> "none"
    /\ phase' = AfterJudge(route')
    /\ UNCHANGED <<brief, wave, workVars, tried, exhausted, action>>
----------------------------------------------------------------------------
(* The supervisor.                                                         *)

GapsLeft == DOMAIN judged.gaps

(* Unsupported and conflicted questions first, among them the conflicted;  *)
(* what is left of the order is a digest of the question.                  *)
Urgency(q) ==
    CASE judged.status[q] = "conflicted" -> 0
      [] judged.status[q] = "unsupported" -> 1
      [] OTHER -> 2

FirstTwo(S, Rank(_)) ==
    {T \in SUBSET S : /\ Cardinality(T) = (IF Cardinality(S) < 2 THEN Cardinality(S) ELSE 2)
                      /\ \A q \in T, r \in S \ T : Rank(q) <= Rank(r)}

Identity(q) == q

(* The two most urgent gaps or, when the judgement names none, the first   *)
(* two questions; requests made before are dropped after the choice.       *)
RepairTasks(known) ==
    IF GapsLeft # {}
    THEN {{Request(q, judged.gaps[q]) : q \in T} \ known
            : T \in FirstTwo(GapsLeft, Urgency)}
    ELSE {{Request(q, {"whole"}) : q \in T} \ known
            : T \in FirstTwo(Questions, Identity)}

(* Who asked for research makes no difference to what follows. *)
Research(tasks) == [name |-> "CONDUCT_RESEARCH", tasks |-> tasks, source |-> "any"]
Named(name, source) == [name |-> name, tasks |-> {}, source |-> source]

(* fallback_action.  A sufficient judgement never reaches the supervisor.  *)
FallbackActions(spent) ==
    IF spent THEN {Named("STOP_BUDGET_PARTIAL", "fallback")}
    ELSE {Research(T) : T \in RepairTasks(tried)}

(* What the model may ask for: each question in its own words, or the      *)
(* request the runtime would make.                                         *)
ModelRequests ==
    {Request(q, {"own"}) : q \in Questions}
        \cup {Request(q, judged.gaps[q]) : q \in GapsLeft}

ModelActions ==
    {Research(T) : T \in {T \in SUBSET ModelRequests : Cardinality(T) <= 2}}
        \cup {Named(n, "model") : n \in {"COMPLETE", "STOP_BUDGET_PARTIAL", "STOP_FAILURE"}}

(* Mutant of Resolved: the sanitized action is not resolved. *)
Unresolved(a) == {a}

(* resolve_action: completion over a gap becomes research, and research    *)
(* without tasks gets those of the runtime.  Before any judgement the      *)
(* model's word stands.                                                    *)
Resolved(a) ==
    CASE a.name = "COMPLETE" /\ judged.made ->
            {Research(T) : T \in RepairTasks(tried)}
      [] a.name = "CONDUCT_RESEARCH" /\ a.tasks = {} ->
            {Research(T) : T \in RepairTasks(tried)}
      [] OTHER -> {a}

(* decide: no question to the model once the budget is exhausted; a model  *)
(* that fails is replaced by the fallback.                                 *)
Decided(spent) ==
    FallbackActions(spent) \cup IF spent THEN {} ELSE UNION {Resolved(a) : a \in ModelActions}

(* precheck_gap.  Every gap and every missing description blocks.          *)
Precheck(spent) ==
    CASE judged.sufficient -> "RESEARCH_COMPLETE"
      [] judged.made /\ ~judged.sufficient /\ ~spent /\ brief.repairs > 0 -> "REPAIR_GAP"
      [] judged.made /\ ~judged.sufficient /\ (spent \/ brief.repairs = 0) -> "STOP_BUDGET_PARTIAL"
      [] OTHER -> "STOP_FAILURE"

(* node_supervisor asks the precheck for a name it never returns. *)
Actions(spent) ==
    IF Precheck(spent) = "SYNTHESIZE" THEN {Named("COMPLETE", "precheck")} ELSE Decided(spent)

RepairAllowed == wave - 1 < brief.repairs

Fresh(tasks) == tasks \ tried

(* Admission approves what the budget and the slots leave of the requests. *)
Admitted(a) ==
    IF a.name = "CONDUCT_RESEARCH" /\ RepairAllowed THEN SUBSET Fresh(a.tasks) ELSE {{}}

Dispatch ==
    /\ phase = "supervise"
    /\ wave' = wave + 1
    /\ phase' = "work"
    /\ UNCHANGED <<brief, rows, failed, worked, authority, judged, lowRounds, route>>
    /\ \E spent \in {b \in BOOLEAN : exhausted => b} : \E a \in Actions(spent) :
       \E approved \in Admitted(a) \ {{}} :
        /\ exhausted' = spent
        /\ action' = [a EXCEPT !.tasks = approved]
        /\ tried' = tried \cup approved
        /\ pending' = {t.question : t \in approved}

(* Research nobody approved is rewritten to a completion by the runtime.   *)
Final(a) == IF a.name = "CONDUCT_RESEARCH" THEN Named("COMPLETE", "runtime_admission") ELSE a

(* decide_control for the actions that are left. *)
Decision(a, spent) ==
    LET partial == IF AnswerableAsk THEN "deliver_partial" ELSE "finalize_failure"
    IN  IF spent \/ a.name # "COMPLETE" THEN partial
        ELSE IF Usable THEN "synthesize" ELSE "finalize_failure"

(* Mutant of AfterSupervisor: a failure is asked for again. *)
AfterSupervisorRetried(decision) ==
    IF decision \in {"synthesize", "deliver_partial"} THEN "end" ELSE "supervise"

(* route_supervisor of the first engine; no other decision is left. *)
AfterSupervisor(decision) ==
    IF decision \in {"synthesize", "deliver_partial", "finalize_failure"} THEN "end"
    ELSE "supervise"

(* No request was admitted: the limit, the fingerprints, the budget or the *)
(* action itself.                                                          *)
EndResearch ==
    /\ phase = "supervise"
    /\ UNCHANGED <<brief, wave, workVars, judged, lowRounds, tried>>
    /\ \E spent \in {b \in BOOLEAN : exhausted => b} : \E a \in Actions(spent) :
        /\ exhausted' = spent
        /\ action' = Final(a)
        /\ route' = Decision(Final(a), spent)
        /\ phase' = AfterSupervisor(route')

Done == phase = "end" /\ UNCHANGED vars
----------------------------------------------------------------------------
Briefs == [sources : SourceCounts, needs : Requirements, lostAsk : BOOLEAN,
           repairs : RepairLimits]

NothingFound ==
    /\ wave = 1
    /\ rows = {} /\ failed = {} /\ worked = {} /\ authority = FALSE
    /\ judged = NoJudgement /\ lowRounds = 0 /\ tried = {} /\ exhausted = FALSE
    /\ action = NoAction /\ route = "none"

(* The first wave has a task for every question; a plan that did not       *)
(* validate goes to the supervisor without one.                            *)
Init ==
    /\ brief \in Briefs
    /\ \/ phase = "work" /\ pending = Questions
       \/ phase = "supervise" /\ pending = {}
    /\ NothingFound

Next ==
    \/ \E q \in Questions : WorkerReturns(q)
    \/ FanIn \/ CoverageJudge \/ Dispatch \/ EndResearch \/ Done

(* Workers, the judge and the supervisor run under timeouts.               *)
Spec == Init /\ [][Next]_vars /\ WF_vars(Next)
-----------------------------------------------------------------------------
(* The loop's state: a question is waited for once, a row names the task   *)
(* and the wave that brought it, and what is dispatched has been recorded. *)
CoverageTypeOK ==
    /\ phase \in {"waiting", "work", "judge", "supervise", "end"} /\ wave \in Nat \ {0}
    /\ pending \cup failed \cup worked \subseteq Questions
    /\ \A r \in rows : r.claim \in Claims /\ r.task \in r.claim.about /\ r.wave \in 1 .. wave
    /\ authority \in BOOLEAN /\ exhausted \in BOOLEAN /\ lowRounds \in Nat
    /\ judged.made \in BOOLEAN /\ judged.sufficient \in BOOLEAN
    /\ judged.status \in [Questions -> {"none", "supported", "partial", "unsupported", "conflicted"}]
    /\ DOMAIN judged.gaps \subseteq Questions
    /\ \A q \in DOMAIN judged.gaps : judged.gaps[q] \subseteq Gap /\ judged.gaps[q] # {}
    /\ action.tasks \subseteq tried /\ \A t \in tried : t.question \in Questions
    /\ route \in {"none", "synthesize", "deliver_partial", "finalize_failure"}

(* Coverage is sufficient only when every question has claims over enough  *)
(* independent sources, no question was left to workers that all came back *)
(* empty, no claim contradicts one of another wave, no ask was lost on the *)
(* way to the questions and, after a gap, the last wave brought a claim:   *)
(* whatever the order of the waves and of the results (judge_coverage).    *)
SufficientIsEarned ==
    judged.sufficient =>
        /\ \A q \in Questions :
              /\ Cardinality(Sources(q)) >= brief.sources
              /\ q \in failed => q \in worked
        /\ \A p \in Contradictions, r, s \in rows :
              p.claims = {r.claim, s.claim} => r.wave = s.wave
        /\ ~brief.lostAsk
        /\ \E r \in rows : r.wave = wave

(* A later wave never takes support away from a question, except by a      *)
(* contradiction; and it turns a gap into sufficiency only by claims of    *)
(* its own (judge_coverage's delta against the previous judgement).        *)
OnlyConflictUncovers ==
    [][judged.made /\ judged' # judged =>
          /\ \A q \in Questions :
                judged.status[q] = "supported" => judged'.status[q] \in {"supported", "conflicted"}
          /\ judged'.sufficient => \E r \in rows' : r.wave = wave]_vars

(* Research over a gap is never completed on the word of the model, only   *)
(* where the runtime admits no further request; and as long as one         *)
(* question has an answer without a blocking conflict, it does not end in  *)
(* failure (resolve_action, node_supervisor, decide_control).              *)
EndIsHonest ==
    phase = "end" =>
        /\ action.name = "COMPLETE" /\ judged.made => action.source = "runtime_admission"
        /\ AnswerableAsk => route # "finalize_failure"

=============================================================================
