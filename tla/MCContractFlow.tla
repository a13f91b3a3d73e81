--------------------------- MODULE MCContractFlow ---------------------------
(* Interchangeable handlers. *)
EXTENDS ContractFlow, TLC

HandlersSymmetry == Permutations(Handlers)
=============================================================================
