-------------------------- MODULE MCAnswerDelivery --------------------------
(* Two questions, the second worded for a judgement, over two records: one *)
(* authoritative with a reference line, one without an excerpt; a source   *)
(* that no record follows may be registered beside them.  The first        *)
(* question has two claims of one wording, with and without a mechanism.   *)
EXTENDS AnswerDelivery

CONSTANTS e1, e2, s1, q1, q2

MCClaims ==
    {[text |-> "a", question |-> q1, refs |-> {e1}, type |-> "fact", directional |-> FALSE,
      causal |-> TRUE, sure |-> TRUE, numeric |-> TRUE, long |-> TRUE],
     [text |-> "a", question |-> q1, refs |-> {e1}, type |-> "fact", directional |-> FALSE,
      causal |-> FALSE, sure |-> TRUE, numeric |-> FALSE, long |-> TRUE],
     [text |-> "b", question |-> q2, refs |-> {e1}, type |-> "fact", directional |-> TRUE,
      causal |-> FALSE, sure |-> FALSE, numeric |-> FALSE, long |-> TRUE],
     [text |-> "c", question |-> q2, refs |-> {e2}, type |-> "fact", directional |-> FALSE,
      causal |-> FALSE, sure |-> FALSE, numeric |-> TRUE, long |-> TRUE]}

MCReports ==
    {[cites |-> "pack", closed |-> TRUE, covered |-> TRUE, refuses |-> FALSE, flaw |-> "none"],
     [cites |-> "unshown", closed |-> TRUE, covered |-> TRUE, refuses |-> FALSE, flaw |-> "none"],
     [cites |-> "pack", closed |-> TRUE, covered |-> TRUE, refuses |-> FALSE, flaw |-> "broken"],
     [cites |-> "pack", closed |-> TRUE, covered |-> TRUE, refuses |-> TRUE, flaw |-> "style"],
     [cites |-> "invented", closed |-> TRUE, covered |-> TRUE, refuses |-> FALSE, flaw |-> "none"],
     [cites |-> "nothing", closed |-> FALSE, covered |-> FALSE, refuses |-> FALSE, flaw |-> "fatal"]}
=============================================================================
