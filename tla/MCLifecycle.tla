----------------------------- MODULE MCLifecycle -----------------------------
(* Two interchangeable callers on one contract. *)
EXTENDS Lifecycle, TLC

(* Any first point of a signed and an unsigned contract will do: the flows   *)
(* reach the rest.                                                           *)
Starts == {Point("request", "in_triage"), Point("negotiate", "with_us"), Active}

CallersSymmetry == Permutations(Callers)
=============================================================================
