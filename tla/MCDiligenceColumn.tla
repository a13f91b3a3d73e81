--------------------------- MODULE MCDiligenceColumn ---------------------------
(* Requests differ in nothing but their names. *)
EXTENDS DiligenceColumn, TLC

RequestsSymmetry == Permutations(Requests)
=============================================================================
