------------------------------ MODULE FieldOwners ------------------------------
(***************************************************************************)
(* What the field store promises about a contract's values: what a person  *)
(* stated or checked is changed by a person's act on that field and by     *)
(* nothing else; what the calendar renewed is the calendar's until a       *)
(* person acts on it; the machine - an analysis, the check after an edit,  *)
(* the undo of a run, a date worked out - has only the rest.               *)
(***************************************************************************)
CONSTANTS Fields, Values, None,
  Renewed    \* the one field the calendar writes

VARIABLES
  value,     \* the value each field shows
  owner,     \* whose it is: "person", "calendar" or "machine"
  act        \* the last act: who, and on which fields

vars == <<value, owner, act>>

Owners == {"person", "calendar", "machine"}
Acts == [who : Owners, on : SUBSET Fields]

Init ==
  /\ value \in [Fields -> Values \cup {None}] /\ owner = [f \in Fields |-> "machine"]
  /\ act \in Acts

(* Outside of S every field stands, but for the machine's, which may follow  *)
(* and stay the machine's.                                                   *)
Leaves(S) ==
  \A f \in Fields \ S :
    IF owner[f] = "machine" THEN owner'[f] = "machine"
                            ELSE value'[f] = value[f] /\ owner'[f] = owner[f]

Machine == act'.who = "machine" /\ Leaves({})
Person == act'.who = "person" /\ Leaves(act'.on)
(* A renewal moves the end of the term, whoever stated it. *)
Calendar == act'.who = "calendar" /\ Leaves({Renewed}) /\ owner'[Renewed] = "calendar"

Next ==
  /\ value' \in [Fields -> Values \cup {None}] /\ owner' \in [Fields -> Owners] /\ act' \in Acts
  /\ Machine \/ Person \/ Calendar

Spec == Init /\ [][Next]_vars
=============================================================================
