------------------------------ MODULE TokenSums ------------------------------
(***************************************************************************)
(* Sums over finite sets, as the number of units they stand for.  The code *)
(* writes them as sum(... for lease in leases.values()); stating them as a *)
(* cardinality keeps them first-order, so the lemmas about them need no    *)
(* induction over an operator.                                             *)
(***************************************************************************)
EXTENDS Integers, FiniteSets

\* One pair per unit that the members of S contribute to the sum of f.
Units(f, S) == UNION {{x} \X (1 .. f[x]) : x \in S}

\* The sum of f[x] over x in S, for f natural-valued on S and S finite.
SumOver(f, S) == Cardinality(Units(f, S))
=============================================================================
