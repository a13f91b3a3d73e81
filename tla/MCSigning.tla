------------------------------ MODULE MCSigning ------------------------------
(* Two signers who sign side by side, and one of a later group; the numbers  *)
(* leave a gap, as the sender may choose them.                               *)
EXTENDS Signing

CONSTANTS ann, bob, cas

Groups == [s \in Signers |-> IF s = cas THEN 3 ELSE 1]
=============================================================================
