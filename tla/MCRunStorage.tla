---------------------------- MODULE MCRunStorage ----------------------------
(* The instance of RunStorage that TLC checks: a fact that refines, one    *)
(* that contradicts, and an answer with two facts.                         *)
EXTENDS RunStorage

MCBatches == {<<"detailed">>, <<"denied">>, <<"reworded", "plain">>}
=============================================================================
