------------------------------ MODULE MCIngestion ------------------------------
(***************************************************************************)
(* Ingestion on small sets.  Tasks and statements are interchangeable;     *)
(* evidence is not, since some of it is authoritative.                     *)
(***************************************************************************)
EXTENDS Ingestion, TLC

Symmetry == Permutations(Tasks) \cup Permutations(Statements)
=============================================================================
