-------------------------------- MODULE Fields ---------------------------------
(***************************************************************************)
(* The field store: the one writer of a contract's field values, whoever   *)
(* the value comes from (apps/api/src/lib/field-store.ts, with             *)
(* lib/field-runs.ts and the callers that read before they write).         *)
(*                                                                         *)
(* Every write is one transaction under the contract's row lock that reads *)
(* the rows afresh and ends in the same commit, so it is one action here.  *)
(* What a caller read before it (the assistant's "what it was", the terms  *)
(* of an amendment, the date that fell due, a run claimed for undoing) is  *)
(* a step of its own.  Quotes, confidence and wording are left out: what   *)
(* they decide is a choice of the action; rejectedAt too, which is never   *)
(* set without verifiedAt.                                                 *)
(***************************************************************************)
EXTENDS Naturals, Sequences

CONSTANTS
  Inputs,      \* the fields the end date is worked out from
  End,         \* expiryDate
  Values, None,
  EndOf,       \* termEndDate: the end date the inputs' values come to
  Amendments,  \* the contracts that amend this one
  Persons, Nobody,
  MaxKept,     \* bound: writes kept for an undo, runs and the assistant's
  MaxWrites    \* bound: writes but for the undo of a run; one caller at a time stands
               \* between its read and its write

Fields == Inputs \cup {End}

ASSUME FieldsAssumption == Inputs # {} /\ End \notin Inputs
ASSUME ValuesAssumption == None \notin Values /\ Nobody \notin Amendments
ASSUME EndOfAssumption == EndOf \in [[Inputs -> Values] -> Values]
ASSUME BoundsAssumption == MaxKept \in Nat \ {0} /\ MaxWrites \in Nat

VARIABLES
  row,         \* ContractFieldValue by field
  runs,        \* FieldValueRun: what each bulk write changed
  asked,       \* the assistant's write: what it read, then what it keeps for its undo
  renewal,     \* the date the renewal job worked out
  act,         \* who wrote last, and which fields they meant
  since,       \* the run nobody has written after, 0 when there is none
  writes

vars == <<row, runs, asked, renewal, act, since, writes>>

MaybeValue == Values \cup {None}
Offer(v, why) == [value |-> v, why |-> why]
NoOffer == Offer(None, "none")
Offers == {NoOffer} \cup [value : Values, why : {"read"}] \cup [value : MaybeValue, why : {"proposed"}]
Sources == {"none", "ai", "calculated", "user", "amendment", "renewal"}
Rows == [value : MaybeValue, source : Sources, checked : BOOLEAN,
         offer : Offers, by : Persons \cup {Nobody}, from : Amendments \cup {Nobody}]

(* No row yet. *)
NoRow == [value |-> None, source |-> "none", checked |-> FALSE,
          offer |-> NoOffer, by |-> Nobody, from |-> Nobody]

(* isLocked: extraction does not overwrite it. *)
Locked(r) == r.source \in {"user", "amendment", "renewal"} \/ r.checked

(* snapshotOf: what an undo puts back; nothing for a field that held nothing. *)
Snapshots == [value : MaybeValue, source : Sources, checked : BOOLEAN]
NoSnapshot == [value |-> None, source |-> "none", checked |-> FALSE]
SnapshotOf(r) ==
  IF r.value = None THEN NoSnapshot
  ELSE [value |-> r.value, source |-> r.source, checked |-> r.checked]

(* A run's change of one field; a field it left has none. *)
Changes == [made : BOOLEAN, before : Snapshots, after : MaybeValue]
NoChange == [made |-> FALSE, before |-> NoSnapshot, after |-> None]
Runs == [kind : {"reading", "rollup"}, from : Amendments \cup {Nobody},
         status : {"made", "claimed", "undone"}, changes : [Fields -> Changes],
         was : [Fields -> MaybeValue]]

NoAsk == [step |-> "idle", by |-> Nobody, on |-> End, before |-> NoSnapshot, after |-> None]
-----------------------------------------------------------------------------
(* The end date the inputs come to, None while one of them is empty.         *)
WorkedOut(rows) ==
  IF \A i \in Inputs : rows[i].value # None
  THEN EndOf[[i \in Inputs |-> rows[i].value]] ELSE None

(* deriveCalculated: an end date nobody states is worked out and follows its *)
(* inputs.  The slip: one worked out before is left as it is.                *)
DerivedOnce(r, calc) ==
  IF r.value # None \/ calc = None THEN r
  ELSE [r EXCEPT !.value = calc, !.source = "calculated", !.checked = FALSE,
                 !.offer = NoOffer]
Derived(r, calc) ==
  IF (r.source # "calculated" /\ (r.value # None \/ calc = None)) \/ (r.source = "calculated" /\ r.value = calc)
  THEN r
  ELSE IF calc = None THEN [r EXCEPT !.value = None]
  ELSE [r EXCEPT !.value = calc, !.source = "calculated", !.checked = FALSE,
                 !.offer = NoOffer]

(* commit, which ends every write that may change a value. *)
Commit(rows) == [rows EXCEPT ![End] = Derived(@, WorkedOut(rows))]

Commits(who, on, rows) ==
  /\ row' = Commit(rows) /\ act' = [who |-> who, on |-> on]

Write(who, on, rows) ==
  writes < MaxWrites /\ writes' = writes + 1 /\ Commits(who, on, rows)

(* A run's changes, before the commit. *)
ChangesTo(S, rows) ==
  [f \in Fields |-> IF f \notin S THEN NoChange
                    ELSE [made |-> TRUE, before |-> SnapshotOf(row[f]), after |-> rows[f].value]]

Moved(rows) == {f \in Fields : rows[f].value # row[f].value}

MayKeep == Len(runs) + (IF asked.step = "idle" THEN 0 ELSE 1) < MaxKept

(* recordRun, in a write of its own after the transaction: it may fail.      *)
Record(kind, from, S, rows) ==
  \/ runs' = runs /\ since' = 0
  \/ /\ S # {} /\ MayKeep
     /\ runs' = Append(runs, [kind |-> kind, from |-> from, status |-> "made",
                              changes |-> ChangesTo(S, rows), was |-> [f \in Fields |-> row[f].value]])
     /\ since' = Len(runs) + 1

(* The first analysis has read some of the fields. *)
FirstRead(r, v) == IF v = None THEN r ELSE [r EXCEPT !.value = v, !.source = "ai"]

Init ==
  /\ \E v \in [Fields -> MaybeValue] : row = Commit([f \in Fields |-> FirstRead(NoRow, v[f])])
  /\ runs = <<>> /\ asked = NoAsk /\ renewal = None
  /\ act = [who |-> "machine", on |-> {}] /\ since = 0 /\ writes = 0
-----------------------------------------------------------------------------
(* A person's writes. *)
Stated(r, v, p) ==
  [r EXCEPT !.value = v, !.source = "user", !.checked = TRUE,
            !.offer = NoOffer, !.by = p]

PersonWrites(p, S, rows) ==
  /\ Write("person", S, rows) /\ since' = 0
  /\ UNCHANGED <<runs, asked, renewal>>

(* setFieldValues: typed, picked from the text, filled in or imported.       *)
SetValues(p) ==
  writes < MaxWrites /\ \E S \in SUBSET Fields \ {{}} : \E v \in [S -> MaybeValue] :
    PersonWrites(p, S, [f \in Fields |-> IF f \in S THEN Stated(row[f], v[f], p) ELSE row[f]])

(* verifyFieldValue: whatever the row holds now; an empty field is a         *)
(* person's word that there is nothing.                                      *)
Checked(r, p) ==
  [r EXCEPT !.source = IF @ = "none" THEN "user" ELSE @, !.checked = TRUE, !.by = p]

Verify(p) ==
  \E f \in Fields : PersonWrites(p, {f}, [row EXCEPT ![f] = Checked(@, p)])

(* verifyAllFieldValues: what the AI read and nobody checked, but for a      *)
(* field with an offer beside it and those whose readings disagree.          *)
ToCheck ==
  {f \in Fields : /\ row[f].source \in {"ai", "calculated"} /\ ~row[f].checked
                  /\ row[f].value # None /\ row[f].offer = NoOffer}

VerifyAll(p) ==
  \E S \in SUBSET ToCheck \ {{}} :
    PersonWrites(p, S, [f \in Fields |-> IF f \in S THEN Checked(row[f], p) ELSE row[f]])

(* rejectFieldValue: cleared, and nothing offered in its place.              *)
Rejected(r, p) ==
  [r EXCEPT !.value = None, !.source = IF @ = "none" THEN "ai" ELSE @, !.checked = TRUE,
            !.offer = NoOffer, !.by = p]

Reject(p) ==
  \E f \in Fields : PersonWrites(p, {f}, [row EXCEPT ![f] = Rejected(@, p)])

(* resolveSuggestion: the offer as it is now becomes the value, or goes.     *)
Accepted(r, p) ==
  [r EXCEPT !.value = r.offer.value, !.source = "ai", !.checked = TRUE,
            !.offer = NoOffer, !.by = p]

Resolve(p) ==
  \E f \in Fields :
    /\ row[f].offer # NoOffer
    /\ \E new \in {Accepted(row[f], p), [row[f] EXCEPT !.offer = NoOffer, !.by = p]} :
         PersonWrites(p, {f}, [row EXCEPT ![f] = new])
-----------------------------------------------------------------------------
(* Nobody stands between what they read and what they write of it.           *)
NobodyReading == asked.step # "read" /\ renewal = None

(* The assistant sets a value for a person: contract_field_set reads what it *)
(* was, writes, and keeps both for its undo.                                 *)
AskRead(p) ==
  /\ NobodyReading /\ MayKeep
  /\ \E f \in Fields :
       asked' = [step |-> "read", by |-> p, on |-> f, before |-> SnapshotOf(row[f]), after |-> None]
  /\ UNCHANGED <<row, runs, renewal, act, since, writes>>

AskWrite ==
  /\ asked.step = "read"
  /\ \E v \in MaybeValue :
       /\ Write("person", {asked.on}, [row EXCEPT ![asked.on] = Stated(@, v, asked.by)])
       /\ asked' = [asked EXCEPT !.step = "kept", !.after = v]
  /\ since' = 0
  /\ UNCHANGED <<runs, renewal>>

(* undoPersonValue: only while it is still the value that person set.        *)
StillTheirs(r) == r.source = "user" /\ r.by = asked.by /\ r.value = asked.after

(* Nothing is put back as an empty value of the AI's.  The slip: a null      *)
(* snapshot is copied like any other.                                        *)
CopiedBack(r, b) == [r EXCEPT !.value = b.value, !.source = b.source, !.checked = b.checked, !.offer = NoOffer]
PutBack(r, b) ==
  IF b.value = None
  THEN [r EXCEPT !.value = None, !.source = "ai", !.checked = FALSE, !.offer = NoOffer]
  ELSE [r EXCEPT !.value = b.value, !.source = b.source, !.checked = b.checked, !.offer = NoOffer]

AskUndo ==
  /\ asked.step = "kept" /\ StillTheirs(row[asked.on])
  /\ Write("person", {asked.on}, [row EXCEPT ![asked.on] = PutBack(@, asked.before)])
  /\ asked' = NoAsk /\ since' = 0
  /\ UNCHANGED <<runs, renewal>>
-----------------------------------------------------------------------------
(* What an analysis makes of one field: a value, nothing and sure of it      *)
(* ("gone"), nothing and unsure (or a reading the field cannot hold), or no  *)
(* word of it ("absent").                                                    *)
Readings == Values \cup {"gone", "unsure", "absent"}

(* applyExtraction for one field.  A locked value keeps, with the reading    *)
(* beside it; an unlocked one is refreshed, or only its blank is filled.     *)
Kept(r, said) ==
  [r EXCEPT !.offer = IF said \in Values /\ said # r.value THEN Offer(said, "read") ELSE NoOffer]

Refreshed(r, said, mode) ==
  IF said \in Values
  THEN IF mode = "fill_blanks" /\ r.value # None
       THEN IF said = r.value THEN r ELSE [r EXCEPT !.offer = Offer(said, "read")]
       ELSE [r EXCEPT !.value = said, !.source = "ai", !.checked = FALSE,
                      !.offer = NoOffer]
  ELSE IF said = "gone" /\ mode = "replace_ai" /\ r.value # None
       THEN [r EXCEPT !.value = None, !.offer = NoOffer]
       ELSE [r EXCEPT !.source = IF @ = "none" THEN "ai" ELSE @]

Read(r, said, mode) ==
  IF said = "absent" THEN r ELSE IF Locked(r) THEN Kept(r, said) ELSE Refreshed(r, said, mode)

(* What another version's tracked changes proposed is settled by this one.   *)
Proposals == {f \in Fields : row[f].offer.why = "proposed"}
Settled(r) == IF r.offer.why = "proposed" THEN [r EXCEPT !.offer = NoOffer] ELSE r

(* offerProposals: what the other side's tracked changes would make it, over *)
(* any other offer.  The slip: offered whatever the value is.                *)
ProposedAnyway(r, v) == [r EXCEPT !.source = IF @ = "none" THEN "ai" ELSE @, !.offer = Offer(v, "proposed")]
Proposed(r, v) ==
  IF r.value = v THEN Settled(r)
  ELSE [r EXCEPT !.source = IF @ = "none" THEN "ai" ELSE @, !.offer = Offer(v, "proposed")]

Extract ==
  writes < MaxWrites /\ \E said \in [Fields -> Readings], mode \in {"replace_ai", "fill_blanks"}, others \in SUBSET Proposals :
    LET read == [f \in Fields |-> Read(row[f], said[f], mode)]
        left == [f \in Fields |-> IF f \in others THEN Settled(read[f]) ELSE read[f]]
    IN  /\ Write("machine", {}, left)
        /\ Record("reading", Nobody, Moved(left), left)
        /\ UNCHANGED <<asked, renewal>>

(* The version is a Word file with tracked changes that touch a field.  When *)
(* its reading is in words they put in (split), a locked value loses its     *)
(* offer, another takes what the file says without them ("absent": no value  *)
(* could be read there); else they change the words its value stands on.     *)
ReadTracked(r, said, mode, split) ==
  IF split /\ Locked(r) /\ said # "absent" THEN [r EXCEPT !.offer = NoOffer] ELSE Read(r, said, mode)

ExtractTracked ==
  writes < MaxWrites /\ \E f \in Fields, v \in MaybeValue, split \in BOOLEAN, others \in SUBSET Proposals,
     said \in Readings \ {"gone"}, mode \in {"replace_ai", "fill_blanks"} :
    /\ IF split THEN v # None ELSE row[f].value # None /\ row[f].source \in {"ai", "calculated"}
    /\ LET read == [row EXCEPT ![f] = ReadTracked(@, said, mode, split)]
           left == [g \in Fields |-> IF g \in others THEN Settled(read[g]) ELSE read[g]]
           offered == [left EXCEPT ![f] = Proposed(@, v)]
       IN  /\ Write("machine", {}, offered)
           /\ Record("reading", Nobody, Moved(offered), offered)
    /\ UNCHANGED <<asked, renewal>>

(* recheckValuesAfterEdit: a value whose words an edit replaced is read      *)
(* again from the new ones, which are offered when they say another; no      *)
(* value changes, and nothing is committed.  Only what was read from the     *)
(* document has words.                                                       *)
Recheck ==
  /\ writes < MaxWrites /\ writes' = writes + 1
  /\ \E f \in Fields : \E v \in Values \ {row[f].value} :
       /\ row[f].value # None /\ row[f].source \in {"ai", "calculated"}
       /\ row' = [row EXCEPT ![f].offer = Offer(v, "read")]
  /\ act' = [who |-> "machine", on |-> {}]
  /\ UNCHANGED <<runs, asked, renewal, since>>
-----------------------------------------------------------------------------
(* applyAmendmentValues: terms chosen from what amendmentChanges read before *)
(* the transaction, when this contract held them differently.                *)
Amended(r, v, a, p) ==
  [r EXCEPT !.value = v, !.source = "amendment", !.checked = TRUE, !.offer = NoOffer, !.from = a, !.by = p]

RollUp(p) ==
  writes < MaxWrites /\ \E a \in Amendments, S \in SUBSET Fields \ {{}} : \E v \in [S -> Values] :
    LET rows == [f \in Fields |-> IF f \in S THEN Amended(row[f], v[f], a, p) ELSE row[f]]
    IN  /\ Write("person", S, rows)
        /\ Record("rollup", a, S, rows)
        /\ UNCHANGED <<asked, renewal>>

(* undoRun claims the run in a write of its own; a crash then leaves it      *)
(* claimed.                                                                  *)
Claim ==
  /\ \E k \in 1..Len(runs) : runs[k].status = "made" /\ runs' = [runs EXCEPT ![k].status = "claimed"]
  /\ UNCHANGED <<row, asked, renewal, act, since, writes>>

(* Still as the run left it.  The slip: checked or not.                      *)
AsLeftUnlessStated(r, run, change) ==
  /\ change.made /\ r.value = change.after
  /\ IF run.kind = "rollup" THEN r.source = "amendment" /\ r.from = run.from
     ELSE r.source \in {"ai", "calculated"}
AsLeft(r, run, change) ==
  /\ change.made /\ r.value = change.after
  /\ IF run.kind = "rollup" THEN r.source = "amendment" /\ r.from = run.from
     ELSE r.source \in {"ai", "calculated"} /\ ~r.checked

(* restoreFieldValues, restoreAmendmentValues: each value as it was, and a   *)
(* roll-up's also as checked as it was.  The slip: a blank that was filled   *)
(* is not emptied again.                                                     *)
RestoredIfHeld(r, run, change) ==
  IF change.before.value = None THEN r
  ELSE [r EXCEPT !.value = change.before.value, !.source = change.before.source, !.offer = NoOffer]
Restored(r, run, change) ==
  IF run.kind = "rollup" THEN [PutBack(r, change.before) EXCEPT !.from = Nobody]
  ELSE IF change.before.value = None THEN [r EXCEPT !.value = None, !.offer = NoOffer]
  ELSE [r EXCEPT !.value = change.before.value, !.source = change.before.source, !.offer = NoOffer]

Restore(k) ==
  /\ runs[k].status = "claimed"
  /\ LET run == runs[k]
         S == {f \in Fields : AsLeft(row[f], run, run.changes[f])}
     IN  Commits(IF run.kind = "rollup" THEN "person" ELSE "machine",
                 IF run.kind = "rollup" THEN {f \in Fields : run.changes[f].made} ELSE {},
                 [f \in Fields |-> IF f \in S THEN Restored(row[f], run, run.changes[f]) ELSE row[f]])
  /\ runs' = [runs EXCEPT ![k].status = "undone"]
  /\ since' = 0
  /\ UNCHANGED <<asked, renewal, writes>>

(* The renewal job reads the expiry date and works out the next, then moves  *)
(* the stage, then writes: renewExpiry.                                      *)
RenewalRead ==
  /\ NobodyReading /\ row[End].value # None
  /\ renewal' \in Values \ {row[End].value}
  /\ UNCHANGED <<row, runs, asked, act, since, writes>>

Renew ==
  /\ renewal # None /\ renewal' = None
  /\ Write("calendar", {End},
           [row EXCEPT ![End] = [@ EXCEPT !.value = renewal, !.source = "renewal", !.checked = FALSE,
                                          !.offer = NoOffer, !.from = Nobody]])
  /\ since' = 0
  /\ UNCHANGED <<runs, asked>>

Next ==
  \/ \E p \in Persons :
       SetValues(p) \/ Verify(p) \/ VerifyAll(p) \/ Reject(p) \/ Resolve(p) \/ AskRead(p) \/ RollUp(p)
  \/ AskWrite \/ AskUndo
  \/ Extract \/ ExtractTracked \/ Recheck
  \/ Claim \/ \E k \in 1..Len(runs) : Restore(k)
  \/ RenewalRead \/ Renew

Spec == Init /\ [][Next]_vars
-----------------------------------------------------------------------------
TypeOK ==
  /\ row \in [Fields -> Rows] /\ \A f \in Fields : row[f].source = "none" => row[f] = NoRow
  /\ runs \in Seq(Runs) /\ Len(runs) <= MaxKept
  /\ asked \in [step : {"idle", "read", "kept"}, by : Persons \cup {Nobody}, on : Fields,
                before : Snapshots, after : MaybeValue]
  /\ renewal \in MaybeValue
  /\ act \in [who : {"person", "calendar", "machine"}, on : SUBSET Fields]
  /\ since \in 0..MaxKept /\ writes \in 0..MaxWrites

(* The end date is never left behind: one that was worked out is what its    *)
(* inputs come to now, and it is empty only when they come to nothing        *)
(* (deriveCalculated, in the commit of every write, an undo's included).     *)
DatesAgree ==
  /\ row[End].source = "calculated" => row[End].value = WorkedOut(row)
  /\ row[End].value = None => WorkedOut(row) = None

(* An offer always leaves something to choose: a value offered beside a      *)
(* field is not the value it holds, whatever was written, put back, worked   *)
(* out or proposed since the offer was made.                                 *)
OffersDiffer ==
  \A f \in Fields : row[f].offer.value # None => row[f].offer.value # row[f].value

(* A run that is undone before anything else is written gives back every     *)
(* value it found, those that followed from its own included; but for an end *)
(* date it cleared, which another has been worked out in place of.           *)
RunGivesBack ==
  [][\A k \in 1..Len(runs) :
       since = k /\ runs[k].status = "claimed" /\ runs'[k].status = "undone" =>
         \A f \in Fields :
           \/ row'[f].value = runs[k].was[f]
           \/ f = End /\ runs[k].changes[f].made /\ runs[k].changes[f].after = None]_vars

(* What a person stated or checked is changed only by a person's act on that *)
(* field, or for the end date by a renewal: an analysis that read before the *)
(* person wrote, the check after an edit and the undo of an earlier run      *)
(* leave it (isLocked and the undo's own conditions).                        *)
OwnerOf(f) ==
  LET r == row[f]
  IN  IF f = End /\ (r.value = None \/ r.source = "calculated") THEN "machine"
      ELSE IF r.source = "renewal" /\ ~r.checked THEN "calendar"
      ELSE IF Locked(r) THEN "person" ELSE "machine"

Promise == INSTANCE FieldOwners WITH
  value <- [f \in Fields |-> row[f].value], owner <- [f \in Fields |-> OwnerOf(f)], Renewed <- End

OwnersKept == Promise!Spec
=============================================================================
