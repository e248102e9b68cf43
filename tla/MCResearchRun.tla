---------------------------- MODULE MCResearchRun ----------------------------
(* Two key questions, the second about a mechanism; three claims over an   *)
(* official record and a fresh one of another source: the record's claim   *)
(* answers both questions, the other source has a claim for each, and its  *)
(* claim on the second has a mechanism and contradicts the record.         *)
EXTENDS ResearchRun

Official == [source |-> "s1", shows |-> {"primary_source"}]
Blog == [source |-> "s2", shows |-> {"fresh_evidence"}]

MCEvidence == {Official, Blog}

Wide == [about |-> {1, 2}, refs |-> {Official}, causal |-> FALSE]
Second == [about |-> {1}, refs |-> {Blog}, causal |-> FALSE]
Other == [about |-> {2}, refs |-> {Blog}, causal |-> TRUE]

MCClaims == {Wide, Second, Other}
MCContradictions == {[claims |-> {Wide, Other}, question |-> 2]}

(* Clauses of every form and, between them, of the ranks of intent that    *)
(* what is required of evidence tells apart; the explanation names no      *)
(* subject of its own.                                                     *)
Clause(form, says, names) == [form |-> form, says |-> says, names |-> names]
Fact == Clause("question", {"fact"}, TRUE)
Advice == Clause("question", {"recommend"}, TRUE)
Forecast == Clause("question", {"forecast"}, TRUE)
Explain == Clause("question", {"explain"}, FALSE)
Why == Clause("rider", {"explain"}, FALSE)
Report == Clause("rider", {"topic"}, TRUE)
Pdf == Clause("format", {"pdf"}, FALSE)
Latest == Clause("scrap", {"latest"}, FALSE)
Mark == Clause("mark", {}, FALSE)

MCClauses == {Fact, Advice, Forecast, Explain, Why, Report, Pdf, Latest, Mark}

(* Every query of up to three of these clauses.                            *)
EveryQuery == SeqOf(MCClauses, 3) \ {<< >>}
=============================================================================
