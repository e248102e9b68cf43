------------------------------- MODULE Ingestion -------------------------------
(***************************************************************************)
(* How the results of parallel workers become the evidence ledger of a run *)
(* (app/research/runtime/ingestion.py, reducers.py and the nodes of        *)
(* runner.py that call them).                                              *)
(*                                                                         *)
(* A worker ingests its own row before it returns, against the channels as *)
(* they were when its wave was dispatched; the graph folds the updates of  *)
(* all workers of the wave, in the order of the dispatch, into the         *)
(* channels; node_ingest_findings ingests the rows nobody has; the         *)
(* coverage judge weighs what the wave was worth.                          *)
(*                                                                         *)
(* A report is what admission leaves of a worker's payload: the admitted   *)
(* evidence, the admitted claims with the evidence each one cites, and     *)
(* whether the worker calls its task failed.  A claim is named by its task *)
(* and its statement, as its hash is.                                      *)
(***************************************************************************)
EXTENDS Naturals, FiniteSets, Sequences

CONSTANTS
  Tasks,
  EvidenceIds,       \* evidence ids; two workers may find the same source
  Authoritative,  \* evidence with an authority_score of 0.7 or more
  Statements,     \* values claimed for one metric of one subject and period
  MaxWaves,
  MaxSignal       \* bound of the counter of high-quality evidence

ASSUME SetsAssumption == IsFiniteSet(Tasks) /\ IsFiniteSet(EvidenceIds)
ASSUME AuthorityAssumption == Authoritative \subseteq EvidenceIds
ASSUME BoundsAssumption == MaxWaves \in Nat /\ MaxSignal \in Nat \ {0}

Claims == Tasks \X Statements
RunEngines == {"legacy", "v2"}
Phases == {"supervisor", "execute", "ingest_findings", "coverage_judge", "synthesis"}

VARIABLES
  runEngine,    \* engine_version
  phase,
  wave,      \* dispatch_wave_id
  sends,     \* the tasks of the wave, in the order of the dispatch
  updates,   \* task -> what its worker returned: its row and its ingestion
  rows,      \* worker_results
  channels,  \* the channels ingestion writes, see Empty
  lowValue,  \* low_value_rounds
  ingested   \* history: task -> how many times its row was ingested

ingestVars == <<runEngine, phase, wave, sends, updates, rows, channels, lowValue, ingested>>

Partial(S, T) == UNION {[D -> T] : D \in SUBSET S}
Disagree(a, b) == a[2] # b[2]
-----------------------------------------------------------------------------
(* The channels and their reducers.                                        *)

Channels == [
  processed : SUBSET Tasks,            \* processed_worker_result_ids
  evidence : Partial(EvidenceIds, Tasks), \* evidence_records: id -> its task_id
  claims : Partial(Claims, SUBSET EvidenceIds), \* claims: id -> evidence_ids
  conflicts : SUBSET SUBSET Claims,    \* claim_conflicts
  support : Partial(EvidenceIds, Claims), \* support_edges, see MergeRecords
  version : SUBSET EvidenceIds,           \* what evidence_version is the hash of
  signal : 0 .. MaxSignal]             \* new_high_quality_evidence_count

NoRecords == [x \in {} |-> x]
Empty == [processed |-> {}, evidence |-> NoRecords, claims |-> NoRecords,
          conflicts |-> {}, support |-> NoRecords, version |-> {}, signal |-> 0]

\* merge_records: a row with a known id replaces the row that has it.  The id
\* of a row is the first of evidence_id, claim_id, finding_id, edge_id, ... it
\* carries; a support edge carries an evidence_id, so there is one per evidence.
MergeRecords(left, right) ==
  [id \in DOMAIN left \cup DOMAIN right |->
     IF id \in DOMAIN right THEN right[id] ELSE left[id]]

Capped(n) == IF n > MaxSignal THEN MaxSignal ELSE n

\* merge_value_signals adds up what partial updates count.
\* Mutant of MergeSignals: the last writer's count.
LastSignal(left, right) == right
MergeSignals(left, right) == Capped(left + right)

Merge(ch, u) ==
  [processed |-> ch.processed \cup u.processed,
   evidence |-> MergeRecords(ch.evidence, u.evidence),
   claims |-> MergeRecords(ch.claims, u.claims),
   conflicts |-> ch.conflicts \cup u.conflicts,
   support |-> MergeRecords(ch.support, u.support),
   version |-> u.version,
   signal |-> MergeSignals(ch.signal, u.signal)]
-----------------------------------------------------------------------------
(* ingest_new_worker_results.                                              *)

\* What a claim may cite: its references are resolved to admitted evidence, and
\* without any that is found the claim is not admitted.
References(found) == (SUBSET found) \ {{}}

Reports(t) ==
  UNION {[task : {t}, wave : {wave}, evidence : {found},
          claims : Partial(Statements, References(found)), failed : BOOLEAN] :
         found \in SUBSET EvidenceIds}

Citations(selected) ==
  LET ids == UNION {{<<r.task, s>> : s \in DOMAIN r.claims} : r \in selected}
  IN [c \in ids |-> (CHOOSE r \in selected : r.task = c[1]).claims[c[2]]]

Unprocessed(ch, all) ==
  {r \in all : r.task \notin ch.processed /\ r.wave = wave}

\* Mutant of ConflictEdges: only the claims just extracted are compared.
OwnConflictEdges(ch, own) ==
  {e \in {{a, b} : a, b \in own} : \E a, b \in e : Disagree(a, b)}
\* detect_conflict_edges over existing and own claims, as far as they touch
\* an own one.
ConflictEdges(ch, own) ==
  {e \in {{a, b} : a \in own, b \in own \cup DOMAIN ch.claims} :
     \E a, b \in e : Disagree(a, b)}

Admitted(selected) == UNION {r.evidence : r \in selected}
NewEvidence(ch, selected) == Admitted(selected) \ DOMAIN ch.evidence
EvidenceVersion(ch, selected) == DOMAIN ch.evidence \cup Admitted(selected)

NewClaims(ch, selected) ==
  [c \in DOMAIN Citations(selected) \ DOMAIN ch.claims |-> Citations(selected)[c]]

\* Where several rows carry an evidence id one of them has the record; where
\* several new claims cite it one of them has the edge.
Owners(ch, selected) ==
  {f \in [NewEvidence(ch, selected) -> Tasks] :
     \A e \in DOMAIN f : \E r \in selected : r.task = f[e] /\ e \in r.evidence}
SupportEdges(cites) ==
  {f \in [UNION {cites[c] : c \in DOMAIN cites} -> DOMAIN cites] :
     \A e \in DOMAIN f : e \in cites[f[e]]}

Update(ch, selected, records, edges) ==
  [processed |-> {r.task : r \in selected},
   evidence |-> records,
   claims |-> NewClaims(ch, selected),
   conflicts |-> ConflictEdges(ch, DOMAIN Citations(selected)),
   support |-> edges,
   version |-> EvidenceVersion(ch, selected),
   signal |-> Capped(Cardinality(NewEvidence(ch, selected) \cap Authoritative))]

\* The updates the ingestion of the rows may produce.
Updates(ch, selected) ==
  {Update(ch, selected, records, edges) :
     records \in Owners(ch, selected), edges \in SupportEdges(NewClaims(ch, selected))}
-----------------------------------------------------------------------------
IngestInit ==
  /\ runEngine \in RunEngines
  /\ phase = "supervisor" /\ wave = 0
  /\ sends = <<>> /\ updates = NoRecords /\ rows = {}
  /\ channels = Empty
  /\ lowValue = 0
  /\ ingested = [t \in Tasks |-> 0]

\* Tasks are named by their wave: none is sent twice.
Unsent == {t \in Tasks : \A r \in rows : r.task # t}
Orders(S) ==
  {s \in UNION {[1 .. n -> S] : n \in 1 .. Cardinality(S)} :
     \A i, j \in DOMAIN s : s[i] = s[j] => i = j}

\* route_after_brief and route_supervisor: each worker gets the whole state.
Dispatch ==
  /\ phase = "supervisor" /\ wave < MaxWaves
  /\ wave' = wave + 1
  /\ sends' \in Orders(Unsent)
  /\ phase' = "execute"
  /\ UNCHANGED <<runEngine, updates, rows, channels, lowValue, ingested>>

\* What was admitted under the task of a row, and nothing else, counts as its
\* evidence: a research task without any has failed, unless what the worker
\* brought has sources, and cannot have failed with some.
MayFail(t, u) == \A e \in DOMAIN u.evidence : u.evidence[e] # t

WorkerUpdate(row, u) == [row |-> row, ingest |-> u]

\* node_research_worker: the row is ingested against the state of the
\* dispatch, and the update is returned with the row.
WorkerReturns(t) ==
  /\ phase = "execute"
  /\ t \in {sends[i] : i \in DOMAIN sends} \ DOMAIN updates
  /\ \E row \in Reports(t) :
       \E u \in Updates(channels, {row}) :
         /\ row.failed => MayFail(t, u)
         /\ updates' = MergeRecords(updates, [x \in {t} |-> WorkerUpdate(row, u)])
  /\ UNCHANGED <<runEngine, phase, wave, sends, rows, channels, lowValue, ingested>>

Fold(ch, us) ==
  LET after[i \in 0 .. Len(us)] ==
        IF i = 0 THEN ch ELSE Merge(after[i - 1], us[i])
  IN after[Len(us)]

\* The step of the graph ends when the last worker has returned.
FanIn ==
  /\ phase = "execute"
  /\ {sends[i] : i \in DOMAIN sends} = DOMAIN updates
  /\ rows' = rows \cup {updates[t].row : t \in DOMAIN updates}
  /\ channels' = Fold(channels, [i \in DOMAIN sends |-> updates[sends[i]].ingest])
  /\ ingested' = [t \in Tasks |->
                    ingested[t] + IF t \in DOMAIN updates THEN 1 ELSE 0]
  /\ sends' = <<>> /\ updates' = NoRecords
  /\ phase' = "ingest_findings"
  /\ UNCHANGED <<runEngine, wave, lowValue>>

\* node_ingest_findings.
IngestFindings ==
  /\ phase = "ingest_findings"
  /\ LET selected == Unprocessed(channels, rows)
     IN /\ channels' \in IF selected = {} THEN {channels}
                         ELSE {Merge(channels, u) : u \in Updates(channels, selected)}
        /\ ingested' = [t \in Tasks |->
                          ingested[t] + Cardinality({r \in selected : r.task = t})]
  /\ phase' = "coverage_judge"
  /\ UNCHANGED <<runEngine, wave, sends, updates, rows, lowValue>>

\* node_coverage_judge: gain stands for criteria closed and claims supported
\* since the last judgement.  The signal is returned as it was read, and the
\* reducer adds it to itself.
CoverageJudge ==
  /\ runEngine = "legacy" /\ phase = "coverage_judge"
  /\ \E gain \in BOOLEAN, sufficient \in BOOLEAN :
       /\ lowValue' = IF gain \/ channels.signal > 0 THEN 0 ELSE lowValue + 1
       /\ phase' = IF sufficient \/ (lowValue' >= 2 /\ DOMAIN channels.evidence # {})
                   THEN "synthesis" ELSE "supervisor"
  /\ channels' = [channels EXCEPT !.signal = MergeSignals(@, @)]
  /\ UNCHANGED <<runEngine, wave, sends, updates, rows, ingested>>

\* With the answer contract v2 the judge counts answer units and leaves the
\* signal alone.
CoverageJudgeV2 ==
  /\ runEngine = "v2" /\ phase = "coverage_judge"
  /\ phase' \in {"synthesis", "supervisor"}
  /\ UNCHANGED <<runEngine, wave, sends, updates, rows, channels, lowValue, ingested>>

\* The supervisor ends research.
Complete ==
  /\ phase = "supervisor" /\ wave > 0
  /\ phase' = "synthesis"
  /\ UNCHANGED <<runEngine, wave, sends, updates, rows, channels, lowValue, ingested>>

IngestNext ==
  \/ Dispatch
  \/ \E t \in Tasks : WorkerReturns(t)
  \/ FanIn
  \/ IngestFindings
  \/ CoverageJudge
  \/ CoverageJudgeV2
  \/ Complete

IngestSpec == IngestInit /\ [][IngestNext]_ingestVars
-----------------------------------------------------------------------------
(* Properties.                                                             *)

\* Every variable keeps its type; the channels are a function of their ids.
LedgerTypeOK ==
  /\ runEngine \in RunEngines /\ phase \in Phases /\ wave \in 0 .. MaxWaves
  /\ sends \in Orders(Tasks) \cup {<<>>}
  /\ DOMAIN updates \subseteq {sends[i] : i \in DOMAIN sends}
  /\ \A t \in DOMAIN updates : updates[t].ingest \in Channels
  /\ \A r \in rows : r.task \in Tasks /\ r.wave \in 1 .. wave
  /\ channels \in Channels
  /\ lowValue \in 0 .. wave
  /\ ingested \in [Tasks -> Nat]

\* A worker ingests its own row, and node_ingest_findings goes over all rows of
\* the wave again: each row is ingested once, and by the time coverage is
\* judged none is left out.
IngestedOnce ==
  /\ \A t \in Tasks : ingested[t] <= 1
  /\ phase = "coverage_judge" => \A r \in rows : ingested[r.task] = 1

\* What any worker of any wave had admitted is in the ledger when the wave is
\* joined: no sibling's update and no later wave takes it away.
NothingAdmittedIsLost ==
  \A r \in rows :
    /\ r.evidence \subseteq DOMAIN channels.evidence
    /\ \A s \in DOMAIN r.claims :
         <<r.task, s>> \in DOMAIN channels.claims
           /\ channels.claims[<<r.task, s>>] = r.claims[s]

\* A record of evidence that a wave left behind keeps its owner, whichever
\* later worker finds the same source.
RecordsAreStable ==
  [][\A e \in DOMAIN channels.evidence :
       /\ e \in DOMAIN channels'.evidence
       /\ channels'.evidence[e] = channels.evidence[e]]_ingestVars

\* A claim that enters the ledger is compared with every claim that was there
\* before its wave, and with those of its own worker.
KnownConflictsAreFound ==
  [][\A a \in DOMAIN channels'.claims \ DOMAIN channels.claims,
        b \in DOMAIN channels'.claims :
       Disagree(a, b) /\ (b \in DOMAIN channels.claims \/ a[1] = b[1])
         => {a, b} \in channels'.conflicts]_ingestVars

\* Evidence that any claim cites keeps a support edge, and the edge leads to a
\* claim that does cite it; a claim may lose its edge to another claim only.
CitedEvidenceHasAnEdge ==
  \A c \in DOMAIN channels.claims :
    \A e \in channels.claims[c] :
      /\ e \in DOMAIN channels.support
      /\ channels.support[e] \in DOMAIN channels.claims
      /\ e \in channels.claims[channels.support[e]]

\* evidence_version never names less evidence than before, nor any that is not
\* in the ledger, although it is one worker's view of it.
VersionsGrow ==
  [][/\ channels.version \subseteq channels'.version
     /\ channels'.version \subseteq DOMAIN channels'.evidence]_ingestVars

\* Waves only add to the ledger: records keep their owners, the version keeps
\* what it named, and a claim is compared with those it finds.
LedgerGrows == RecordsAreStable /\ VersionsGrow /\ KnownConflictsAreFound

\* A task that was reported as failed owns no evidence in the ledger, neither
\* then nor after siblings and later waves found what it did not (the status of
\* a row is settled in node_research_worker, before its update is merged).
FailedTasksOwnNothing ==
  \A r \in rows : r.failed =>
    \A e \in DOMAIN channels.evidence : channels.evidence[e] # r.task

\* Rounds of low value are counted only while the ledger holds no authoritative
\* evidence: what one wave found counts as gain for every later one, so a run
\* that has authoritative evidence is never stopped for marginal gain.
LowValueMeansNoAuthority ==
  phase \in {"supervisor", "synthesis"} /\ lowValue > 0
    => DOMAIN channels.evidence \cap Authoritative = {}

\* The ledger of a joined wave is whole: every row is in it once, what was
\* admitted and what it rests on survive siblings and later waves, and the
\* value signal the judge counts by means what it says of the ledger
\* (ingest_new_worker_results, merge_records and merge_value_signals over
\* worker updates).
LedgerIsWhole ==
  /\ LedgerTypeOK /\ IngestedOnce
  /\ NothingAdmittedIsLost /\ CitedEvidenceHasAnEdge /\ FailedTasksOwnNothing
  /\ LowValueMeansNoAuthority
=============================================================================
