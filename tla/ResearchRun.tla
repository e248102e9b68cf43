------------------------------ MODULE ResearchRun ------------------------------
(***************************************************************************)
(* A run of the first engine from the user's query to the end of research: *)
(* RunStart compiles the brief and sends the first wave, ResearchCoverage  *)
(* judges what the waves bring against what that brief requires.           *)
(***************************************************************************)
EXTENDS ResearchCoverage, RunStart

VARIABLE wanted    \* what the query itself calls for: original sources, "floor",
                   \* or "nothing" in particular

researchVars == vars
allVars == <<researchVars, startVars, wanted>>

NoBrief == [sources |-> 0, needs |-> {}, lostAsk |-> FALSE, repairs |-> 0]

Call(t) == IF t.primary THEN "floor" ELSE "nothing"

RunInit ==
    /\ StartInit
    /\ wanted = Call(terms)
    /\ brief = NoBrief
    /\ phase = "waiting" /\ pending = {} /\ NothingFound

(* What the waves are judged by.  The loop of waves reads nothing else of  *)
(* the brief, so the rest is forgotten here.                               *)
Handed(limit) ==
    [sources |-> draft.sources,
     needs |-> (IF draft.primary THEN {"primary_source"} ELSE {})
                 \cup (IF draft.fresh THEN {"fresh_evidence"} ELSE {}),
     lostAsk |-> Asked(draft) # DOMAIN asks,
     repairs |-> limit]

(* Followed are the runs with as many questions as the instance has; the   *)
(* lookup of the fast path is judged by a policy of its own.               *)
Followed ==
    /\ engine = "legacy" /\ mode = "agent" /\ ~FastPath(draft)
    /\ Len(plan) = Cardinality(Questions)

FirstWave ==
    /\ stage = "sent" /\ Followed
    /\ brief' \in {Handed(limit) : limit \in RepairLimits}
    /\ phase' = "work" /\ pending' = Questions
    /\ stage' = "researching" /\ asks' = << >> /\ draft' = NoDraft /\ plan' = << >>
    /\ attempt' = 0 /\ terms' = NoTerms /\ width' = "some"
    /\ UNCHANGED <<mode, engine, tools, wanted, wave, rows, failed, worked, authority,
                   judged, lowRounds, tried, exhausted, action, route>>

Ended ==
    \/ stage \in {"baseline", "cancelled"}
    \/ stage = "sent" /\ ~Followed
    \/ stage = "researching" /\ phase = "end"

Starting == Start /\ UNCHANGED <<researchVars, wanted>>
Cancelling == CancelStart /\ UNCHANGED <<researchVars, wanted>>
Researching ==
    /\ stage = "researching"
    /\ \/ \E q \in Questions : WorkerReturns(q)
       \/ FanIn \/ CoverageJudge \/ Dispatch \/ EndResearch
    /\ UNCHANGED <<startVars, wanted>>

RunNext ==
    \/ Starting \/ Cancelling \/ FirstWave \/ Researching
    \/ Ended /\ UNCHANGED allVars

(* The brief's model call, workers, the judge and the supervisor run under *)
(* timeouts; the model need not answer and the user need not cancel.       *)
Driven == Unaided /\ UNCHANGED <<researchVars, wanted>>

RunSpec ==
    RunInit /\ [][RunNext]_allVars /\ WF_allVars(Driven \/ FirstWave \/ Researching)
-----------------------------------------------------------------------------
(* Both halves keep their types, whatever the hand-over leaves.            *)
TypeOK ==
    StartTypeOK /\ CoverageTypeOK /\ wanted \in {"floor", "nothing"}

(* What the query calls for reaches the judgement of the evidence: when a  *)
(* fact or a recommendation was asked for, and nothing that outranks it in *)
(* the intent of the query, coverage is sufficient only with an original   *)
(* source behind every question, whatever the model made of the brief      *)
(* (_merge_llm_brief, judge_coverage).                                     *)
FloorReachesEvidence ==
    wanted = "floor" /\ judged.sufficient =>
        \A q \in Questions : "primary_source" \in Shown(q)

(* The brief that was accepted is the one the run is capped, planned and   *)
(* judged by.                                                              *)
BriefIsFollowed == TypeOK /\ CapMatchesPlan /\ FloorReachesEvidence

(* Whatever the model, the gate, the workers and the supervisor do, the    *)
(* run ends (compile_structured_brief_with_llm, the research loop).        *)
RunEnds == <>Ended
=============================================================================
