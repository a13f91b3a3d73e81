----------------------------- MODULE MCAnalysis -----------------------------
(* The indexing, the binder detection and the checkpoint are tried once, the *)
(* others twice: one throw shows a retry or the last attempt.                *)
EXTENDS Analysis

OneOrTwo == [k \in Kinds |-> IF k \in {"chunk", "detect"} \cup Checkpoints THEN 1 ELSE 2]
=============================================================================
