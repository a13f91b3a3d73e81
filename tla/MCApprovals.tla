----------------------------- MODULE MCApprovals -----------------------------
(* Two handlers at a time, and the shapes of definition that make the engine *)
(* take each of its branches.                                                *)
EXTENDS Approvals

CONSTANTS ann, bob

Asked(mode, required, approvers, escalateTo) ==
  [mode |-> mode, required |-> required, approvers |-> approvers, escalateTo |-> escalateTo]

(* Both must approve, then one of a role's pool, which escalates. *)
BothThenPool ==
  <<Asked("parallel", 2, <<ann, bob>>, None), Asked("sequential", 1, <<Pool>>, bob)>>

(* More are required than the role has holders, escalating; then either. *)
TooManyThenEither ==
  <<Asked("parallel", 2, <<ann>>, bob), Asked("parallel", 1, <<ann, bob>>, None)>>

Every == {BothThenPool, TooManyThenEither}
Both == {BothThenPool}
=============================================================================
