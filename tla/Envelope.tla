------------------------------- MODULE Envelope -------------------------------
(***************************************************************************)
(* What a signature request promises (apps/api/src/routes/signatures.ts):  *)
(* signers answer in their turn, the request gets one outcome, only one    *)
(* that everybody signed puts the contract in force, once, and only that   *)
(* one is sealed.                                                          *)
(***************************************************************************)
EXTENDS Naturals

CONSTANTS
  Signers,  \* those asked to sign
  Group     \* the group each signs in

VARIABLES
  sequential,  \* the groups sign one after the other
  outcome,     \* PENDING until it is completed, voided or expired
  answer,      \* what each signer said
  executions,  \* how often the contract was put in force by it
  sealed       \* the signed copy was made

state == <<sequential, outcome, answer, executions, sealed>>

Ready(s) == sequential => \A t \in Signers : Group[t] < Group[s] => answer[t] = "SIGNED"
Open(s)  == outcome = "PENDING" /\ answer[s] = "PENDING" /\ Ready(s)

Init ==
  /\ sequential \in BOOLEAN
  /\ outcome = "PENDING" /\ answer = [s \in Signers |-> "PENDING"]
  /\ executions = 0 /\ sealed = FALSE

Sign(s) ==
  /\ Open(s)
  /\ answer' = [answer EXCEPT ![s] = "SIGNED"]
  /\ UNCHANGED <<sequential, outcome, executions, sealed>>

Decline(s) ==
  /\ Open(s)
  /\ answer' = [answer EXCEPT ![s] = "DECLINED"] /\ outcome' = "VOIDED"
  /\ UNCHANGED <<sequential, executions, sealed>>

Stop ==
  /\ outcome = "PENDING" /\ outcome' \in {"VOIDED", "EXPIRED"}
  /\ UNCHANGED <<sequential, answer, executions, sealed>>

Complete ==
  /\ outcome = "PENDING" /\ \A s \in Signers : answer[s] = "SIGNED"
  /\ outcome' = "COMPLETED"
  /\ UNCHANGED <<sequential, answer, executions, sealed>>

Execute ==
  /\ outcome = "COMPLETED" /\ executions = 0 /\ executions' = 1
  /\ UNCHANGED <<sequential, outcome, answer, sealed>>

Seal ==
  /\ executions = 1 /\ ~sealed /\ sealed' = TRUE
  /\ UNCHANGED <<sequential, outcome, answer, executions>>

Next ==
  \/ \E s \in Signers : Sign(s) \/ Decline(s)
  \/ Stop \/ Complete \/ Execute \/ Seal

Spec == Init /\ [][Next]_state
=============================================================================
