----------------------------- MODULE MCAnswerUnits -----------------------------
(* Two asks of one question, for the model checker. *)
EXTENDS AnswerUnits, TLC

CONSTANTS pick, why, e1, e2

MCTarget == (pick :> 2) @@ (why :> 1)
Symmetry == Permutations(Entities)
MCSource == (e1 :> e1) @@ (e2 :> e2)
=============================================================================
