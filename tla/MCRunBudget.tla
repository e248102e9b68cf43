----------------------------- MODULE MCRunBudget -----------------------------
(* Small instances of RunBudget for TLC.                                    *)
EXTENDS RunBudget, TLC

Symmetry == Permutations(Tasks) \cup Permutations(Calls)

\* A fresh session, and one whose earlier run used tokens and a call.
NoPriorUsage == [tokens |-> 0, calls |-> 0]
SomePriorUsage == [tokens |-> 4, calls |-> 1]
=============================================================================
