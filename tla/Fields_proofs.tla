----------------------------- MODULE Fields_proofs -----------------------------
(***************************************************************************)
(* What Fields shows of one input and two dates, for any fields, values,   *)
(* people and amendments, and any number of writes.                        *)
(***************************************************************************)
EXTENDS Fields, TLAPS

-----------------------------------------------------------------------------
(* One row as it may be: of its type, absent only as a whole, and with       *)
(* something to choose in what is offered beside it.                         *)
RowOK(r) ==
  /\ r \in Rows
  /\ r.source = "none" => r = NoRow
  /\ r.offer.value # None => r.offer.value # r.value

RowsOK(rows) == rows \in [Fields -> Rows] /\ \A f \in Fields : RowOK(rows[f])

(* Whose a field is when it holds the row r: OwnerOf, of any row.            *)
Owner(f, r) ==
  IF f = End /\ (r.value = None \/ r.source = "calculated") THEN "machine"
  ELSE IF r.source = "renewal" /\ ~r.checked THEN "calendar"
  ELSE IF Locked(r) THEN "person" ELSE "machine"

(* r may become s though nobody acts on f for the one whose it is.           *)
Left(f, r, s) ==
  IF Owner(f, r) = "machine" THEN Owner(f, s) = "machine"
                             ELSE s.value = r.value /\ Owner(f, s) = Owner(f, r)

(* What undo keeps is a row that existed, and an analysis changed only what  *)
(* was the machine's.                                                        *)
SnapshotOK(b) == b \in Snapshots /\ (b.value # None => b.source # "none")

RunOK(run) ==
  \A f \in Fields :
    LET b == run.changes[f].before
    IN  SnapshotOK(b) /\ (run.kind = "reading" /\ b.value # None => b.source \in {"ai", "calculated"})

KeptOK == SnapshotOK(asked.before) /\ \A k \in 1..Len(runs) : RunOK(runs[k])

Inv == TypeOK /\ RowsOK(row) /\ DatesAgree /\ KeptOK

(* What an analysis may make of r: another value is the machine's word, and  *)
(* was read unless it is none; nothing it reads is worked out.               *)
Reads(r, s) ==
  /\ s.value # r.value => s.source \in {"ai", "calculated"} /\ ~s.checked
  /\ s.value # r.value /\ s.value # None => s.source = "ai"
  /\ s.source = "calculated" => r.source = "calculated"

(* The end date that the values w come to.                                   *)
Came(w) == IF \A i \in Inputs : w[i] # None THEN EndOf[[i \in Inputs |-> w[i]]] ELSE None

(* Nothing was written to these rows since the run: what it changed is as it *)
(* left it, what it left is as it found it; so is the end date, but when it  *)
(* follows from inputs that the run changed.                                 *)
FieldAsLeft(r, run, f) ==
  IF run.changes[f].made
    THEN AsLeft(r, run, run.changes[f]) /\ run.changes[f].before.value = run.was[f]
    ELSE r.value = run.was[f]

EndAsLeft(r, run) ==
  LET change == run.changes[End]
      was    == run.was[End]
      came   == Came(run.was)
  IN  IF change.made
        THEN \/ change.after = None
             \/ /\ FieldAsLeft(r, run, End) /\ (was = None => came = None)
                /\ change.before.source = "calculated" /\ change.before.value # None => was = came
        ELSE IF r.source = "calculated" THEN was = came
                                        ELSE r.value = was /\ (was = None => came = None)

AllAsLeft(rows, run) ==
  (\A f \in Fields \ {End} : FieldAsLeft(rows[f], run, f)) /\ EndAsLeft(rows[End], run)

(* The run that nobody has written after.                                    *)
LastStands == since # 0 => since \in 1..Len(runs) /\ AllAsLeft(row, runs[since])
-----------------------------------------------------------------------------
(* The offers there are.                                                     *)
LEMMA OffersAre ==
  /\ NoOffer \in Offers /\ NoOffer.value = None
  /\ \A v \in Values : Offer(v, "read") \in Offers
  /\ \A v \in MaybeValue : Offer(v, "proposed") \in Offers
  /\ \A v, why : Offer(v, why).value = v
BY DEF Offers, NoOffer, Offer, MaybeValue

(* What the row operators keep.                                              *)
LEMMA DerivedKeeps ==
  ASSUME NEW r, NEW calc \in MaybeValue, RowOK(r)
  PROVE  LET d == Derived(r, calc)
         IN  /\ RowOK(d) /\ Left(End, r, d)
             /\ d.source = "calculated" => d.value = calc
             /\ d.value = None => calc = None
  BY ValuesAssumption, ZenonT(60) DEF RowOK, Rows, NoRow, Offer, NoOffer, Offers, Sources, MaybeValue, Derived, Left, Owner, Locked

(* A new offer leaves a row's owner and value.                               *)
LEMMA OfferKeeps ==
  ASSUME NEW r, RowOK(r), NEW f \in Fields, NEW o \in Offers, o.value # None => o.value # r.value,
         r.source # "none"
  PROVE  LET s == [r EXCEPT !.offer = o]
         IN  RowOK(s) /\ Left(f, r, s) /\ s.value = r.value
  BY DEF RowOK, Rows, Left, Owner, Locked

LEMMA KeptKeeps ==
  ASSUME NEW r, RowOK(r), NEW f \in Fields, NEW said \in Readings, Locked(r)
  PROVE  RowOK(Kept(r, said)) /\ Left(f, r, Kept(r, said)) /\ Kept(r, said).value = r.value
<1>1. r.source # "none"
  BY DEF RowOK, NoRow, Locked
<1>2. CASE said \in Values /\ said # r.value
  BY <1>1, <1>2, OffersAre, OfferKeeps DEF Kept
<1>3. CASE ~(said \in Values /\ said # r.value)
  BY <1>1, <1>3, OffersAre, OfferKeeps DEF Kept
<1>. QED
  BY <1>2, <1>3

LEMMA RefreshedKeeps ==
  ASSUME NEW r, RowOK(r), NEW f \in Fields, NEW said \in Readings, NEW mode, ~Locked(r)
  PROVE  RowOK(Refreshed(r, said, mode)) /\ Left(f, r, Refreshed(r, said, mode))
<1>. DEFINE s == Refreshed(r, said, mode)
<1>. USE OffersAre, ValuesAssumption
<1>1. Owner(f, r) = "machine"
  BY DEF Owner, Locked
<1>2. r.source = "none" => r.value = None /\ r.offer = NoOffer /\ r.checked = FALSE
  BY DEF RowOK, NoRow
<1>3. CASE said \in Values /\ mode = "fill_blanks" /\ r.value # None
  <2>1. r.source # "none"
    BY <1>2, <1>3
  <2>2. s = r \/ (said # r.value /\ s = [r EXCEPT !.offer = Offer(said, "read")])
    BY <1>3 DEF Refreshed
  <2>. QED
    BY <1>1, <1>3, <2>1, <2>2, OfferKeeps DEF Left
<1>4. CASE said \in Values /\ ~(mode = "fill_blanks" /\ r.value # None)
  <2>1. s = [r EXCEPT !.value = said, !.source = "ai", !.checked = FALSE, !.offer = NoOffer]
    BY <1>4 DEF Refreshed
  <2>2. RowOK(s)
    <3>1. s \in Rows
      BY <1>4, <2>1 DEF RowOK, Rows, Sources, MaybeValue
    <3>2. s.source = "ai" /\ s.offer = NoOffer
      BY <2>1 DEF RowOK, Rows
    <3>. QED
      BY <3>1, <3>2 DEF RowOK
  <2>3. Owner(f, s) = "machine"
    BY <2>1 DEF RowOK, Rows, Owner, Locked
  <2>. QED
    BY <1>1, <2>2, <2>3 DEF Left
<1>5. CASE said \notin Values /\ said = "gone" /\ mode = "replace_ai" /\ r.value # None
  <2>1. s = [r EXCEPT !.value = None, !.offer = NoOffer]
    BY <1>5 DEF Refreshed
  <2>2. RowOK(s)
    BY <1>2, <1>5, <2>1 DEF RowOK, Rows, MaybeValue
  <2>3. Owner(f, s) = "machine"
    BY <2>1 DEF RowOK, Rows, Owner, Locked
  <2>. QED
    BY <1>1, <2>2, <2>3 DEF Left
<1>6. CASE said \notin Values /\ ~(said = "gone" /\ mode = "replace_ai" /\ r.value # None)
  <2>1. s = [r EXCEPT !.source = IF r.source = "none" THEN "ai" ELSE r.source]
    BY <1>6 DEF Refreshed
  <2>2. RowOK(s)
    BY <1>2, <2>1 DEF RowOK, Rows, Sources
  <2>3. Owner(f, s) = "machine"
    BY <2>1 DEF RowOK, Rows, Owner, Locked
  <2>. QED
    BY <1>1, <2>2, <2>3 DEF Left
<1>. QED
  BY <1>3, <1>4, <1>5, <1>6

LEMMA ReadKeeps ==
  ASSUME NEW r, RowOK(r), NEW f \in Fields, NEW said \in Readings, NEW mode
  PROVE  LET s == Read(r, said, mode)
         IN  /\ RowOK(s) /\ Left(f, r, s)
             /\ s.value # r.value => ~Locked(r)
  BY KeptKeeps, RefreshedKeeps DEF Read, Left

LEMMA SettledKeeps ==
  ASSUME NEW r, RowOK(r), NEW f \in Fields
  PROVE  RowOK(Settled(r)) /\ Left(f, r, Settled(r)) /\ Settled(r).value = r.value
<1>1. CASE r.offer.why # "proposed"
  BY <1>1 DEF Settled, Left
<1>2. CASE r.offer.why = "proposed"
  <2>1. r.source # "none"
    BY <1>2 DEF RowOK, NoRow, NoOffer, Offer
  <2>. QED
    BY <1>2, <2>1, OffersAre, OfferKeeps DEF Settled
<1>. QED
  BY <1>1, <1>2

LEMMA ProposedKeeps ==
  ASSUME NEW r, RowOK(r), NEW f \in Fields, NEW v \in MaybeValue
  PROVE  RowOK(Proposed(r, v)) /\ Left(f, r, Proposed(r, v)) /\ Proposed(r, v).value = r.value
<1>1. CASE r.value = v
  BY <1>1, SettledKeeps DEF Proposed
<1>2. CASE r.value # v /\ r.source # "none"
  <2>1. Proposed(r, v) = [r EXCEPT !.source = r.source, !.offer = Offer(v, "proposed")]
    BY <1>2 DEF Proposed
  <2>2. [r EXCEPT !.source = r.source, !.offer = Offer(v, "proposed")] = [r EXCEPT !.offer = Offer(v, "proposed")]
    BY DEF RowOK, Rows
  <2>. QED
    BY <1>2, <2>1, <2>2, OffersAre, OfferKeeps
<1>3. CASE r.value # v /\ r.source = "none"
  <2>1. r = NoRow
    BY <1>3 DEF RowOK
  <2>2. Proposed(r, v) = [NoRow EXCEPT !.source = "ai", !.offer = Offer(v, "proposed")]
    BY <1>3, <2>1 DEF Proposed, NoRow
  <2>3. Proposed(r, v) = [value |-> None, source |-> "ai", checked |-> FALSE,
                          offer |-> Offer(v, "proposed"), by |-> Nobody, from |-> Nobody]
    BY <2>2 DEF NoRow
  <2>4. RowOK(Proposed(r, v))
    <3>1. Proposed(r, v) \in Rows
      BY <2>3, OffersAre DEF Rows, Sources, MaybeValue
    <3>. QED
      BY <1>3, <2>1, <2>3, <3>1, OffersAre DEF RowOK, NoRow
  <2>5. Owner(f, Proposed(r, v)) = "machine"
    BY <2>3 DEF Owner, Locked
  <2>. QED
    BY <2>1, <2>3, <2>4, <2>5 DEF NoRow, Left, Owner, Locked
<1>. QED
  BY <1>1, <1>2, <1>3

(* What an analysis may make of one row.                                     *)
LEMMA KeepsReads ==
  ASSUME NEW r, RowOK(r), NEW s, s \in Rows, Reads(r, s), NEW v
  PROVE  Reads(r, Settled(s)) /\ Reads(r, Proposed(s, v))
<1>1. Reads(r, Settled(s))
  BY DEF Reads, Settled, Rows
<1>2. CASE s.value = v
  BY <1>1, <1>2 DEF Proposed
<1>3. CASE s.value # v
  <2>1. Proposed(s, v) = [s EXCEPT !.source = IF s.source = "none" THEN "ai" ELSE s.source,
                                   !.offer = Offer(v, "proposed")]
    BY <1>3 DEF Proposed
  <2>. QED
    BY <1>1, <2>1 DEF Reads, Rows
<1>. QED
  BY <1>1, <1>2, <1>3

LEMMA ReadReads ==
  ASSUME NEW r, RowOK(r), NEW said \in Readings, NEW mode, NEW split
  PROVE  Reads(r, Read(r, said, mode)) /\ Reads(r, ReadTracked(r, said, mode, split))
<1>1. Reads(r, r) /\ Reads(r, [r EXCEPT !.offer = NoOffer])
  BY DEF Reads, RowOK, Rows
<1>2. Locked(r) => Reads(r, Kept(r, said))
  BY DEF Reads, Kept, RowOK, Rows
<1>3. ASSUME ~Locked(r) PROVE Reads(r, Refreshed(r, said, mode))
  <2>. DEFINE s == Refreshed(r, said, mode)
  <2>1. CASE said \in Values /\ mode = "fill_blanks" /\ r.value # None
    BY <2>1 DEF Refreshed, Reads, RowOK, Rows
  <2>2. CASE said \in Values /\ ~(mode = "fill_blanks" /\ r.value # None)
    <3>1. s = [r EXCEPT !.value = said, !.source = "ai", !.checked = FALSE, !.offer = NoOffer]
      BY <2>2 DEF Refreshed
    <3>. QED
      BY <3>1 DEF Reads, RowOK, Rows
  <2>3. CASE said \notin Values /\ said = "gone" /\ mode = "replace_ai" /\ r.value # None
    <3>1. s = [r EXCEPT !.value = None, !.offer = NoOffer]
      BY <2>3 DEF Refreshed
    <3>2. r.source \in {"ai", "calculated"} /\ ~r.checked
      BY <1>3, <2>3 DEF Locked, RowOK, Rows, Sources, NoRow
    <3>. QED
      BY <3>1, <3>2 DEF Reads, RowOK, Rows
  <2>4. CASE said \notin Values /\ ~(said = "gone" /\ mode = "replace_ai" /\ r.value # None)
    <3>1. s = [r EXCEPT !.source = IF r.source = "none" THEN "ai" ELSE r.source]
      BY <2>4 DEF Refreshed
    <3>. QED
      BY <3>1 DEF Reads, RowOK, Rows
  <2>. QED
    BY <2>1, <2>2, <2>3, <2>4
<1>4. Reads(r, Read(r, said, mode))
  BY <1>1, <1>2, <1>3 DEF Read
<1>. QED
  BY <1>1, <1>4 DEF ReadTracked

LEMMA LeftTwice ==
  ASSUME NEW f, NEW r, NEW s, NEW t, Left(f, r, s), Left(f, s, t)
  PROVE  Left(f, r, t)
  BY DEF Left

LEMMA PutBackOK ==
  ASSUME NEW r, RowOK(r), NEW b, SnapshotOK(b)
  PROVE  RowOK(PutBack(r, b)) /\ RowOK([PutBack(r, b) EXCEPT !.from = Nobody])
  BY ValuesAssumption DEF RowOK, Rows, NoRow, Offer, NoOffer, Offers, Sources, MaybeValue, PutBack, SnapshotOK, Snapshots

LEMMA SnapshotKeeps ==
  ASSUME NEW r, RowOK(r)
  PROVE  SnapshotOK(SnapshotOf(r))
  BY ValuesAssumption DEF RowOK, Rows, NoRow, Sources, MaybeValue, SnapshotOK, Snapshots, SnapshotOf, NoSnapshot

LEMMA NoRowOK == RowOK(NoRow)
  BY ValuesAssumption DEF RowOK, Rows, NoRow, Offer, NoOffer, Offers, Sources, MaybeValue

(* A person's writes of one row.                                             *)
LEMMA PersonRowsOK ==
  ASSUME NEW r, RowOK(r), NEW p \in Persons \cup {Nobody}, NEW v \in MaybeValue
  PROVE  /\ RowOK(Stated(r, v, p)) /\ RowOK(Checked(r, p)) /\ RowOK(Rejected(r, p))
         /\ r.source # "none" => RowOK([r EXCEPT !.offer = NoOffer, !.by = p])
         /\ RowOK(Accepted(r, p)) /\ \A a \in Amendments : RowOK(Amended(r, v, a, p))
<1>. USE OffersAre
<1>1. RowOK(Stated(r, v, p))
  BY DEF RowOK, Rows, Sources, Stated
<1>2. \A a \in Amendments : RowOK(Amended(r, v, a, p))
  BY DEF RowOK, Rows, Sources, Amended
<1>3. RowOK(Rejected(r, p))
  BY DEF RowOK, Rows, Sources, MaybeValue, Rejected
<1>4. r.source # "none" => RowOK([r EXCEPT !.offer = NoOffer, !.by = p])
  BY DEF RowOK, Rows
<1>5. RowOK(Checked(r, p))
  BY DEF RowOK, Rows, Sources, Checked
<1>6. RowOK(Accepted(r, p))
  <2>1. r.offer.value \in MaybeValue
    BY DEF RowOK, Rows, Offers, NoOffer, Offer, MaybeValue
  <2>. QED
    BY <2>1 DEF RowOK, Rows, Sources, Accepted
<1>. QED
  BY <1>1, <1>2, <1>3, <1>4, <1>5, <1>6
-----------------------------------------------------------------------------
(* What a commit keeps.                                                      *)
LEMMA WorkedOutType ==
  ASSUME NEW rows, RowsOK(rows)
  PROVE  WorkedOut(rows) \in MaybeValue
<1>1. CASE \A i \in Inputs : rows[i].value # None
  <2>1. [i \in Inputs |-> rows[i].value] \in [Inputs -> Values]
    BY <1>1 DEF RowsOK, Rows, MaybeValue, Fields
  <2>. QED
    BY <1>1, <2>1, EndOfAssumption DEF WorkedOut, MaybeValue
<1>2. CASE ~\A i \in Inputs : rows[i].value # None
  BY <1>2 DEF WorkedOut, MaybeValue
<1>. QED
  BY <1>1, <1>2

LEMMA CommitKeeps ==
  ASSUME NEW rows, RowsOK(rows), NEW who, NEW on, Commits(who, on, rows)
  PROVE  /\ RowsOK(row)' /\ DatesAgree'
         /\ \A f \in Fields \ {End} : row'[f] = rows[f]
         /\ Left(End, rows[End], row'[End])
<1>. DEFINE calc == WorkedOut(rows)
<1>1. calc \in MaybeValue
  BY WorkedOutType
<1>2. End \in Fields /\ End \notin Inputs /\ Inputs \subseteq Fields
  BY FieldsAssumption DEF Fields
<1>3. row' = [rows EXCEPT ![End] = Derived(rows[End], calc)]
  BY DEF Commits, Commit
<1>. HIDE DEF calc
<1>4. RowOK(rows[End]) /\ DOMAIN rows = Fields
  BY <1>2 DEF RowsOK
<1>5. row'[End] = Derived(rows[End], calc) /\ \A f \in Fields \ {End} : row'[f] = rows[f]
  BY <1>2, <1>3, <1>4
<1>6. /\ RowOK(row'[End]) /\ Left(End, rows[End], row'[End])
      /\ row'[End].source = "calculated" => row'[End].value = calc
      /\ row'[End].value = None => calc = None
  BY <1>1, <1>4, <1>5, DerivedKeeps
<1>7. RowsOK(row)'
  <2>1. \A f \in Fields : RowOK(row'[f])
    BY <1>5, <1>6 DEF RowsOK
  <2>2. row' \in [Fields -> Rows]
    BY <1>3, <1>5, <2>1 DEF RowsOK, RowOK
  <2>. QED
    BY <2>1, <2>2 DEF RowsOK
<1>8. WorkedOut(row)' = calc
  <2>1. \A i \in Inputs : row'[i] = rows[i]
    BY <1>2, <1>5
  <2>2. [i \in Inputs |-> row'[i].value] = [i \in Inputs |-> rows[i].value]
    BY <2>1
  <2>. QED
    BY <2>1, <2>2 DEF WorkedOut, calc
<1>9. DatesAgree'
  BY <1>6, <1>8 DEF DatesAgree
<1>. QED
  BY <1>5, <1>6, <1>7, <1>9

(* What happens to the rows in any write: outside of S the one whose a field *)
(* is loses nothing, the commit included.                                    *)
LEMMA CommitLeaves ==
  ASSUME NEW rows, RowsOK(rows), NEW who, NEW on, Commits(who, on, rows),
         NEW S, \A f \in Fields \ S : Left(f, row[f], rows[f])
  PROVE  RowsOK(row)' /\ DatesAgree' /\ \A f \in Fields \ S : Left(f, row[f], row'[f])
<1>1. RowsOK(row)' /\ DatesAgree' /\ (\A f \in Fields \ {End} : row'[f] = rows[f]) /\ Left(End, rows[End], row'[End])
  BY CommitKeeps
<1>2. ASSUME NEW f \in Fields \ S PROVE Left(f, row[f], row'[f])
  <2>1. CASE f # End
    BY <1>1, <2>1
  <2>2. CASE f = End
    BY <1>1, <2>2, LeftTwice
  <2>. QED
    BY <2>1, <2>2
<1>. QED
  BY <1>1, <1>2

LEMMA SameLeft == ASSUME NEW f, NEW r PROVE Left(f, r, r)
  BY DEF Left
-----------------------------------------------------------------------------
(* What each action does to the rows.                                        *)
Promised ==
  \/ act'.who = "machine" /\ \A f \in Fields : Left(f, row[f], row'[f])
  \/ act'.who = "person" /\ \A f \in Fields \ act'.on : Left(f, row[f], row'[f])
  \/ /\ act'.who = "calendar" /\ Owner(End, row'[End]) = "calendar"
     /\ \A f \in Fields \ {End} : Left(f, row[f], row'[f])

RowsStep == RowsOK(row)' /\ DatesAgree' /\ Promised

LEMMA PersonStep ==
  ASSUME NEW rows, RowsOK(rows), NEW S \in SUBSET Fields, Commits("person", S, rows),
         \A f \in Fields \ S : Left(f, row[f], rows[f])
  PROVE  RowsStep
<1>1. act'.who = "person" /\ act'.on = S
  BY DEF Commits
<1>. QED
  BY <1>1, CommitLeaves DEF RowsStep, Promised

LEMMA OneRow ==
  ASSUME RowsOK(row), NEW f \in Fields, NEW new, RowOK(new),
         Commits("person", {f}, [row EXCEPT ![f] = new])
  PROVE  RowsStep
<1>. DEFINE rows == [row EXCEPT ![f] = new]
<1>1. RowsOK(rows) /\ \A g \in Fields \ {f} : Left(g, row[g], rows[g])
  BY SameLeft DEF RowsOK, RowOK
<1>2. Commits("person", {f}, rows) /\ {f} \in SUBSET Fields
  OBVIOUS
<1>. HIDE DEF rows
<1>. QED
  BY <1>1, <1>2, PersonStep

LEMMA MachineStep ==
  ASSUME NEW rows, RowsOK(rows), NEW on, Commits("machine", on, rows),
         \A f \in Fields : Left(f, row[f], rows[f])
  PROVE  RowsStep
<1>1. act'.who = "machine"
  BY DEF Commits
<1>2. \A f \in Fields \ {} : Left(f, row[f], rows[f])
  OBVIOUS
<1>3. RowsOK(row)' /\ DatesAgree' /\ \A f \in Fields \ {} : Left(f, row[f], row'[f])
  BY <1>2, CommitLeaves
<1>. QED
  BY <1>1, <1>3 DEF RowsStep, Promised

(* A person's own writes.                                                    *)
LEMMA PersonActs ==
  ASSUME RowsOK(row), NEW p \in Persons,
         SetValues(p) \/ Verify(p) \/ VerifyAll(p) \/ Reject(p) \/ Resolve(p) \/ RollUp(p)
  PROVE  RowsStep
<1>. USE DEF PersonWrites, Write
<1>0. /\ p \in Persons \cup {Nobody} /\ None \in MaybeValue /\ Values \subseteq MaybeValue
      /\ \A f \in Fields : RowOK(row[f])
  BY DEF RowsOK, MaybeValue
<1>1. CASE SetValues(p)
  <2>1. PICK S \in SUBSET Fields \ {{}} : \E v \in [S -> MaybeValue] :
          PersonWrites(p, S, [f \in Fields |-> IF f \in S THEN Stated(row[f], v[f], p) ELSE row[f]])
    BY <1>1 DEF SetValues
  <2>2. PICK v \in [S -> MaybeValue] :
          PersonWrites(p, S, [f \in Fields |-> IF f \in S THEN Stated(row[f], v[f], p) ELSE row[f]])
    BY <2>1
  <2>. DEFINE rows == [f \in Fields |-> IF f \in S THEN Stated(row[f], v[f], p) ELSE row[f]]
  <2>3. \A f \in S : RowOK(Stated(row[f], v[f], p))
    BY <1>0, PersonRowsOK
  <2>4. RowsOK(rows) /\ \A f \in Fields \ S : Left(f, row[f], rows[f])
    BY <1>0, <2>3, SameLeft DEF RowsOK, RowOK
  <2>. QED
    BY <2>2, <2>4, PersonStep
<1>2. CASE Verify(p)
  <2>1. PICK f \in Fields : PersonWrites(p, {f}, [row EXCEPT ![f] = Checked(row[f], p)])
    BY <1>2 DEF Verify
  <2>2. RowOK(Checked(row[f], p))
    BY <1>0, PersonRowsOK
  <2>3. Commits("person", {f}, [row EXCEPT ![f] = Checked(row[f], p)])
    BY <2>1
  <2>. QED
    BY <2>2, <2>3, OneRow
<1>3. CASE VerifyAll(p)
  <2>1. PICK S \in SUBSET ToCheck \ {{}} :
          PersonWrites(p, S, [f \in Fields |-> IF f \in S THEN Checked(row[f], p) ELSE row[f]])
    BY <1>3 DEF VerifyAll
  <2>. DEFINE rows == [f \in Fields |-> IF f \in S THEN Checked(row[f], p) ELSE row[f]]
  <2>2. S \in SUBSET Fields
    BY DEF ToCheck
  <2>3. \A f \in S : RowOK(Checked(row[f], p))
    BY <1>0, <2>2, PersonRowsOK
  <2>4. RowsOK(rows) /\ \A f \in Fields \ S : Left(f, row[f], rows[f])
    BY <1>0, <2>3, SameLeft DEF RowsOK, RowOK
  <2>. QED
    BY <2>1, <2>2, <2>4, PersonStep
<1>4. CASE Reject(p)
  <2>1. PICK f \in Fields : PersonWrites(p, {f}, [row EXCEPT ![f] = Rejected(row[f], p)])
    BY <1>4 DEF Reject
  <2>2. RowOK(Rejected(row[f], p))
    BY <1>0, PersonRowsOK
  <2>3. Commits("person", {f}, [row EXCEPT ![f] = Rejected(row[f], p)])
    BY <2>1
  <2>. QED
    BY <2>2, <2>3, OneRow
<1>5. CASE Resolve(p)
  <2>1. PICK f \in Fields :
          /\ row[f].offer # NoOffer
          /\ \E new \in {Accepted(row[f], p), [row[f] EXCEPT !.offer = NoOffer, !.by = p]} :
               PersonWrites(p, {f}, [row EXCEPT ![f] = new])
    BY <1>5 DEF Resolve
  <2>. PICK new \in {Accepted(row[f], p), [row[f] EXCEPT !.offer = NoOffer, !.by = p]} :
         PersonWrites(p, {f}, [row EXCEPT ![f] = new])
    BY <2>1
  <2>2. row[f].source # "none"
    BY <1>0, <2>1 DEF RowOK, NoRow
  <2>3. RowOK(Accepted(row[f], p)) /\ RowOK([row[f] EXCEPT !.offer = NoOffer, !.by = p])
    BY <1>0, <2>2, PersonRowsOK
  <2>4. Commits("person", {f}, [row EXCEPT ![f] = new])
    OBVIOUS
  <2>. QED
    BY <2>3, <2>4, OneRow
<1>6. CASE RollUp(p)
  <2>1. PICK a \in Amendments, S \in SUBSET Fields \ {{}} : \E v \in [S -> Values] :
          Write("person", S, [f \in Fields |-> IF f \in S THEN Amended(row[f], v[f], a, p) ELSE row[f]])
    BY <1>6 DEF RollUp
  <2>2. PICK v \in [S -> Values] :
          Write("person", S, [f \in Fields |-> IF f \in S THEN Amended(row[f], v[f], a, p) ELSE row[f]])
    BY <2>1
  <2>. DEFINE rows == [f \in Fields |-> IF f \in S THEN Amended(row[f], v[f], a, p) ELSE row[f]]
  <2>3. \A f \in S : RowOK(Amended(row[f], v[f], a, p))
    BY <1>0, PersonRowsOK
  <2>4. RowsOK(rows) /\ \A f \in Fields \ S : Left(f, row[f], rows[f])
    BY <1>0, <2>3, SameLeft DEF RowsOK, RowOK
  <2>. QED
    BY <2>2, <2>4, PersonStep
<1>. QED
  BY <1>1, <1>2, <1>3, <1>4, <1>5, <1>6

(* The assistant's write and its undo.                                       *)
LEMMA AskedActs ==
  ASSUME Inv, AskWrite \/ AskUndo
  PROVE  RowsStep
<1>1. /\ asked.on \in Fields /\ asked.by \in Persons \cup {Nobody} /\ SnapshotOK(asked.before)
      /\ RowsOK(row) /\ RowOK(row[asked.on])
  BY DEF Inv, TypeOK, KeptOK, RowsOK
<1>2. CASE AskWrite
  <2>1. PICK v \in MaybeValue : Write("person", {asked.on}, [row EXCEPT ![asked.on] = Stated(row[asked.on], v, asked.by)])
    BY <1>2 DEF AskWrite
  <2>2. RowOK(Stated(row[asked.on], v, asked.by))
    BY <1>1, PersonRowsOK
  <2>. QED
    BY <1>1, <2>1, <2>2, OneRow DEF Write
<1>3. CASE AskUndo
  <2>1. RowOK(PutBack(row[asked.on], asked.before))
    BY <1>1, PutBackOK
  <2>. QED
    BY <1>1, <1>3, <2>1, OneRow DEF AskUndo, Write
<1>. QED
  BY <1>2, <1>3

(* Rows made of rows as they may be are rows as they may be.                 *)
LEMMA EachRow ==
  ASSUME NEW rows, rows = [f \in Fields |-> rows[f]], \A f \in Fields : RowOK(rows[f])
  PROVE  RowsOK(rows)
<1>1. \A f \in Fields : rows[f] \in Rows
  BY DEF RowOK
<1>. QED
  BY <1>1 DEF RowsOK

(* A reading leaves the owners what is theirs, and moves only what is        *)
(* nobody's yet; its write then ends as every other does.                    *)
LEMMA ExtractStep ==
  ASSUME RowsOK(row), NEW mode, NEW left, left = [f \in Fields |-> left[f]],
         \A f \in Fields : \E said \in Readings :
           left[f] \in {Read(row[f], said, mode), Settled(Read(row[f], said, mode))}
  PROVE  /\ RowsOK(left) /\ \A f \in Fields : Left(f, row[f], left[f])
         /\ \A f \in Moved(left) : ~Locked(row[f])
         /\ \A f \in Fields : Reads(row[f], left[f])
<1>1. ASSUME NEW f \in Fields
      PROVE  /\ RowOK(left[f]) /\ Left(f, row[f], left[f]) /\ (left[f].value # row[f].value => ~Locked(row[f]))
             /\ Reads(row[f], left[f])
  <2>. PICK said \in Readings : left[f] \in {Read(row[f], said, mode), Settled(Read(row[f], said, mode))}
    OBVIOUS
  <2>. DEFINE s == Read(row[f], said, mode)
  <2>1. RowOK(s) /\ Left(f, row[f], s) /\ (s.value # row[f].value => ~Locked(row[f])) /\ Reads(row[f], s)
    BY ReadKeeps, ReadReads DEF RowsOK
  <2>2. RowOK(Settled(s)) /\ Left(f, s, Settled(s)) /\ Settled(s).value = s.value
    BY <2>1, SettledKeeps
  <2>3. Left(f, row[f], Settled(s))
    BY <2>1, <2>2, LeftTwice
  <2>4. left[f] = s \/ left[f] = Settled(s)
    OBVIOUS
  <2>. HIDE DEF s
  <2>5. Reads(row[f], Settled(s))
    BY <2>1, KeepsReads DEF RowsOK, RowOK
  <2>. QED
    BY <2>1, <2>2, <2>3, <2>4, <2>5
<1>2. RowsOK(left)
  BY <1>1, EachRow
<1>. QED
  BY <1>1, <1>2 DEF Moved

LEMMA TrackedStep ==
  ASSUME RowsOK(row), NEW f \in Fields, NEW v \in MaybeValue, NEW split \in BOOLEAN,
         NEW said \in Readings, NEW mode,
         NEW read, read[f] = ReadTracked(row[f], said, mode, split), \A g \in Fields \ {f} : read[g] = row[g],
         NEW left, \A g \in Fields : left[g] \in {read[g], Settled(read[g])},
         NEW offered, offered = [g \in Fields |-> offered[g]],
         offered[f] = Proposed(left[f], v), \A g \in Fields \ {f} : offered[g] = left[g]
  PROVE  /\ RowsOK(offered) /\ \A g \in Fields : Left(g, row[g], offered[g])
         /\ \A g \in Moved(offered) : ~Locked(row[g])
         /\ \A g \in Fields : Reads(row[g], offered[g])
<1>1. ASSUME NEW g \in Fields
      PROVE  RowOK(read[g]) /\ Left(g, row[g], read[g]) /\ (read[g].value # row[g].value => ~Locked(row[g]))
  <2>0. RowOK(row[g])
    BY DEF RowsOK
  <2>1. CASE g # f
    BY <2>0, <2>1, SameLeft DEF RowsOK
  <2>2. CASE g = f /\ split /\ Locked(row[f]) /\ said # "absent"
    <3>1. read[g] = [row[g] EXCEPT !.offer = NoOffer]
      BY <2>2 DEF ReadTracked, RowsOK
    <3>2. row[g].source # "none"
      BY <2>0, <2>2 DEF RowOK, NoRow, Locked
    <3>3. NoOffer \in Offers /\ NoOffer.value = None
      BY OffersAre
    <3>. DEFINE s == [row[g] EXCEPT !.offer = NoOffer]
    <3>4. RowOK(s) /\ Left(g, row[g], s) /\ s.value = row[g].value
      BY <2>0, <3>2, <3>3, OfferKeeps
    <3>. QED
      BY <3>1, <3>4
  <2>3. CASE g = f /\ ~(split /\ Locked(row[f]) /\ said # "absent")
    <3>1. read[g] = Read(row[g], said, mode)
      BY <2>3 DEF ReadTracked, RowsOK
    <3>. QED
      BY <2>0, <3>1, ReadKeeps
  <2>. QED
    BY <2>1, <2>2, <2>3
<1>2. ASSUME NEW g \in Fields
      PROVE  RowOK(left[g]) /\ Left(g, row[g], left[g]) /\ left[g].value = read[g].value
  <2>1. RowOK(Settled(read[g])) /\ Left(g, read[g], Settled(read[g])) /\ Settled(read[g]).value = read[g].value
    BY <1>1, SettledKeeps
  <2>2. Left(g, row[g], Settled(read[g]))
    BY <1>1, <2>1, LeftTwice
  <2>3. left[g] = read[g] \/ left[g] = Settled(read[g])
    OBVIOUS
  <2>. QED
    BY <1>1, <2>1, <2>2, <2>3
<1>3. ASSUME NEW g \in Fields
      PROVE  RowOK(offered[g]) /\ Left(g, row[g], offered[g]) /\ offered[g].value = read[g].value
  <2>1. CASE g # f
    BY <1>2, <2>1
  <2>2. CASE g = f
    <3>1. offered[f] = Proposed(left[f], v)
      OBVIOUS
    <3>2. RowOK(Proposed(left[f], v)) /\ Left(f, left[f], Proposed(left[f], v)) /\ Proposed(left[f], v).value = left[f].value
      BY <1>2, ProposedKeeps
    <3>3. Left(f, row[f], Proposed(left[f], v))
      BY <1>2, <3>2, LeftTwice
    <3>. QED
      BY <1>2, <2>2, <3>1, <3>2, <3>3
  <2>. QED
    BY <2>1, <2>2
<1>4. RowsOK(offered)
  BY <1>3, EachRow
<1>5. ASSUME NEW g \in Fields PROVE Reads(row[g], offered[g])
  <2>0. RowOK(row[g]) /\ read[g] \in Rows /\ left[g] \in Rows
    BY <1>1, <1>2 DEF RowsOK, RowOK
  <2>1. Reads(row[g], read[g])
    <3>1. CASE g = f
      BY <2>0, <3>1, ReadReads
    <3>2. CASE g # f
      BY <3>2 DEF Reads
    <3>. QED
      BY <3>1, <3>2
  <2>2. Reads(row[g], left[g])
    <3>1. Reads(row[g], Settled(read[g]))
      BY <2>0, <2>1, KeepsReads
    <3>2. left[g] = read[g] \/ left[g] = Settled(read[g])
      OBVIOUS
    <3>. QED
      BY <2>1, <3>1, <3>2
  <2>3. Reads(row[g], Proposed(left[g], v))
    BY <2>0, <2>2, KeepsReads
  <2>. QED
    BY <2>2, <2>3
<1>. QED
  BY <1>1, <1>3, <1>4, <1>5 DEF Moved

(* An analysis, with what it changed: nothing that is a person's.            *)
ReadStep(rows) ==
  /\ RowsOK(rows) /\ \A f \in Moved(rows) : ~Locked(row[f])
  /\ \A f \in Fields : Reads(row[f], rows[f])
  /\ Write("machine", {}, rows) /\ Record("reading", Nobody, Moved(rows), rows)
  /\ UNCHANGED <<asked, renewal>>

LEMMA ReadingActs ==
  ASSUME RowsOK(row), Extract \/ ExtractTracked
  PROVE  RowsStep /\ \E rows : ReadStep(rows)
<1>1. CASE Extract
  <2>1. PICK said \in [Fields -> Readings], mode \in {"replace_ai", "fill_blanks"}, others \in SUBSET Proposals :
          LET read == [f \in Fields |-> Read(row[f], said[f], mode)]
              left == [f \in Fields |-> IF f \in others THEN Settled(read[f]) ELSE read[f]]
          IN  /\ Write("machine", {}, left)
              /\ Record("reading", Nobody, Moved(left), left)
              /\ UNCHANGED <<asked, renewal>>
    BY <1>1 DEF Extract
  <2>. DEFINE read == [f \in Fields |-> Read(row[f], said[f], mode)]
              given == [f \in Fields |-> IF f \in others THEN Settled(read[f]) ELSE read[f]]
  <2>2. PICK left : left = given
    OBVIOUS
  <2>3. \A f \in Fields : left[f] \in {Read(row[f], said[f], mode), Settled(Read(row[f], said[f], mode))}
    BY <2>2
  <2>0. left = [f \in Fields |-> left[f]]
    BY <2>2
  <2>4. Write("machine", {}, left) /\ Record("reading", Nobody, Moved(left), left) /\ UNCHANGED <<asked, renewal>>
    BY <2>1, <2>2
  <2>. HIDE DEF given, read
  <2>5. \A f \in Fields : said[f] \in Readings
    OBVIOUS
  <2>6. /\ RowsOK(left) /\ \A f \in Fields : Left(f, row[f], left[f])
        /\ \A f \in Moved(left) : ~Locked(row[f])
        /\ \A f \in Fields : Reads(row[f], left[f])
    BY <2>0, <2>3, <2>5, ExtractStep
  <2>7. RowsStep
    BY <2>4, <2>6, MachineStep DEF Write
  <2>. QED
    BY <2>4, <2>6, <2>7 DEF ReadStep
<1>2. CASE ExtractTracked
  <2>1. PICK f \in Fields, v \in MaybeValue, split \in BOOLEAN, others \in SUBSET Proposals,
             said \in Readings \ {"gone"}, mode \in {"replace_ai", "fill_blanks"} :
          /\ IF split THEN v # None ELSE row[f].value # None /\ row[f].source \in {"ai", "calculated"}
          /\ LET read == [row EXCEPT ![f] = ReadTracked(row[f], said, mode, split)]
                 left == [g \in Fields |-> IF g \in others THEN Settled(read[g]) ELSE read[g]]
                 offered == [left EXCEPT ![f] = Proposed(left[f], v)]
             IN  /\ Write("machine", {}, offered)
                 /\ Record("reading", Nobody, Moved(offered), offered)
          /\ UNCHANGED <<asked, renewal>>
    BY <1>2, Zenon DEF ExtractTracked
  <2>2. PICK read : read = [row EXCEPT ![f] = ReadTracked(row[f], said, mode, split)]
    OBVIOUS
  <2>3. PICK left : left = [g \in Fields |-> IF g \in others THEN Settled(read[g]) ELSE read[g]]
    OBVIOUS
  <2>4. PICK offered : offered = [left EXCEPT ![f] = Proposed(left[f], v)]
    OBVIOUS
  <2>5. Write("machine", {}, offered) /\ Record("reading", Nobody, Moved(offered), offered) /\ UNCHANGED <<asked, renewal>>
    BY <2>1, <2>2, <2>3, <2>4
  <2>8. RowsOK(row) /\ row = [g \in Fields |-> row[g]]
    BY DEF RowsOK
  <2>9. /\ read[f] = ReadTracked(row[f], said, mode, split) /\ \A g \in Fields \ {f} : read[g] = row[g]
        /\ \A g \in Fields : left[g] \in {read[g], Settled(read[g])}
    BY <2>2, <2>3, <2>8
  <2>10. /\ offered[f] = Proposed(left[f], v) /\ \A g \in Fields \ {f} : offered[g] = left[g]
         /\ offered = [g \in Fields |-> offered[g]]
    BY <2>3, <2>4
  <2>6. /\ RowsOK(offered) /\ \A g \in Fields : Left(g, row[g], offered[g])
        /\ \A g \in Moved(offered) : ~Locked(row[g])
        /\ \A g \in Fields : Reads(row[g], offered[g])
    BY <2>8, <2>9, <2>10, TrackedStep
  <2>7. RowsStep
    BY <2>5, <2>6, MachineStep DEF Write
  <2>. QED
    BY <2>5, <2>6, <2>7 DEF ReadStep
<1>. QED
  BY <1>1, <1>2

(* The check after an edit.                                                  *)
LEMMA RecheckStep ==
  ASSUME Inv, Recheck
  PROVE  RowsStep
<1>1. PICK f \in Fields : \E v \in Values \ {row[f].value} :
        /\ row[f].value # None /\ row[f].source \in {"ai", "calculated"}
        /\ row' = [row EXCEPT ![f].offer = Offer(v, "read")]
  BY DEF Recheck
<1>2. PICK v \in Values \ {row[f].value} :
        /\ row[f].value # None /\ row[f].source \in {"ai", "calculated"}
        /\ row' = [row EXCEPT ![f].offer = Offer(v, "read")]
  BY <1>1
<1>. DEFINE s == [row[f] EXCEPT !.offer = Offer(v, "read")]
<1>3. RowsOK(row) /\ DatesAgree /\ RowOK(row[f])
  BY DEF Inv, RowsOK
<1>4. Offer(v, "read") \in Offers /\ Offer(v, "read").value = v
  BY OffersAre
<1>5. RowOK(s) /\ Left(f, row[f], s) /\ s.value = row[f].value
  BY <1>2, <1>3, <1>4, OfferKeeps
<1>6. row'[f] = s /\ \A g \in Fields \ {f} : row'[g] = row[g]
  BY <1>2, <1>3 DEF RowsOK
<1>7. row' = [g \in Fields |-> row'[g]]
  BY <1>2, <1>3 DEF RowsOK
<1>8. s.source = row[f].source
  BY <1>3 DEF RowOK, Rows
<1>. HIDE DEF s
<1>9. RowsOK(row)'
  <2>1. \A g \in Fields : RowOK(row'[g])
    BY <1>3, <1>5, <1>6 DEF RowsOK
  <2>. QED
    BY <1>7, <2>1, EachRow
<1>10. \A g \in Fields : row'[g].value = row[g].value /\ row'[g].source = row[g].source
  BY <1>5, <1>6, <1>8
<1>11. DatesAgree'
  <2>1. Inputs \subseteq Fields /\ End \in Fields
    BY DEF Fields
  <2>2. [i \in Inputs |-> row'[i].value] = [i \in Inputs |-> row[i].value]
    BY <1>10, <2>1
  <2>3. WorkedOut(row)' = WorkedOut(row)
    BY <1>10, <2>1, <2>2 DEF WorkedOut
  <2>. QED
    BY <1>3, <1>10, <2>1, <2>3 DEF DatesAgree
<1>12. act'.who = "machine" /\ \A g \in Fields : Left(g, row[g], row'[g])
  BY <1>5, <1>6, SameLeft DEF Recheck
<1>. QED
  BY <1>9, <1>11, <1>12 DEF RowsStep, Promised

(* The undo of a run.  A value that is still as the run left it was never    *)
(* stated or checked since, and goes back to one that was not either.        *)
LEMMA RestoreStep ==
  ASSUME Inv, NEW k \in 1..Len(runs), Restore(k)
  PROVE  RowsStep
<1>. DEFINE run == runs[k]
            S == {f \in Fields : AsLeft(row[f], run, run.changes[f])}
            rows == [f \in Fields |-> IF f \in S THEN Restored(row[f], run, run.changes[f]) ELSE row[f]]
            T == {f \in Fields : run.changes[f].made}
<1>1. RowsOK(row) /\ RunOK(run) /\ run \in Runs /\ \A f \in Fields : RowOK(row[f])
  BY DEF Inv, KeptOK, TypeOK, RowsOK
<1>2. S \subseteq T /\ T \subseteq Fields
  BY DEF AsLeft
<1>3. CASE run.kind = "rollup"
  <2>1. ASSUME NEW f \in S PROVE RowOK(Restored(row[f], run, run.changes[f]))
    BY <1>1, <1>3, PutBackOK DEF Restored, RunOK
  <2>2. \A f \in Fields : RowOK(rows[f])
    BY <1>1, <2>1
  <2>3. RowsOK(rows)
    BY <2>2, EachRow
  <2>4. \A f \in Fields \ T : Left(f, row[f], rows[f])
    BY <1>2, SameLeft
  <2>5. Commits("person", T, rows)
    BY <1>3 DEF Restore
  <2>. HIDE DEF rows, T
  <2>. QED
    BY <1>2, <2>3, <2>4, <2>5, PersonStep
<1>4. CASE run.kind # "rollup"
  <2>0. run.kind = "reading"
    BY <1>1, <1>4 DEF Runs
  <2>1. ASSUME NEW f \in S
        PROVE  LET s == Restored(row[f], run, run.changes[f])
               IN  RowOK(s) /\ Left(f, row[f], s)
    <3>. DEFINE b == run.changes[f].before
    <3>1. row[f].source \in {"ai", "calculated"} /\ ~row[f].checked
      BY <1>4 DEF AsLeft
    <3>2. b \in Snapshots /\ (b.value # None => b.source \in {"ai", "calculated"})
      BY <1>1, <2>0 DEF RunOK, SnapshotOK
    <3>3. CASE b.value = None
      <4>1. Restored(row[f], run, run.changes[f]) = [row[f] EXCEPT !.value = None, !.offer = NoOffer]
        BY <1>4, <3>3 DEF Restored
      <4>2. RowOK(row[f])
        BY <1>1
      <4>3. RowOK([row[f] EXCEPT !.value = None, !.offer = NoOffer])
        BY <3>1, <4>2, OffersAre DEF RowOK, Rows, MaybeValue
      <4>4. Left(f, row[f], [row[f] EXCEPT !.value = None, !.offer = NoOffer])
        BY <3>1, <4>2 DEF RowOK, Rows, Left, Owner, Locked
      <4>. QED
        BY <4>1, <4>3, <4>4
    <3>4. CASE b.value # None
      <4>. DEFINE s == [row[f] EXCEPT !.value = b.value, !.source = b.source, !.offer = NoOffer]
      <4>1. Restored(row[f], run, run.changes[f]) = s
        BY <1>4, <3>4 DEF Restored
      <4>2. RowOK(row[f]) /\ b.value \in MaybeValue
        BY <1>1, <3>2 DEF Snapshots
      <4>. HIDE DEF b
      <4>3. RowOK(s)
        BY <3>1, <3>2, <3>4, <4>2, OffersAre DEF RowOK, Rows, Sources
      <4>4. Left(f, row[f], s)
        BY <3>1, <3>2, <3>4, <4>2 DEF RowOK, Rows, Left, Owner, Locked
      <4>. QED
        BY <4>1, <4>3, <4>4
    <3>. QED
      BY <3>3, <3>4
  <2>2. \A f \in Fields : RowOK(rows[f]) /\ Left(f, row[f], rows[f])
    BY <1>1, <2>1, SameLeft
  <2>3. RowsOK(rows)
    BY <2>2, EachRow
  <2>4. Commits("machine", {}, rows)
    BY <1>4 DEF Restore
  <2>. HIDE DEF rows
  <2>. QED
    BY <2>2, <2>3, <2>4, MachineStep
<1>. QED
  BY <1>3, <1>4

(* A renewal moves the end date, and only that.                              *)
LEMMA RenewStep ==
  ASSUME Inv, Renew
  PROVE  RowsStep
<1>. DEFINE new == [row[End] EXCEPT !.value = renewal, !.source = "renewal", !.checked = FALSE,
                                    !.offer = NoOffer, !.from = Nobody]
            rows == [row EXCEPT ![End] = new]
<1>1. RowsOK(row) /\ RowOK(row[End]) /\ End \in Fields /\ renewal \in MaybeValue /\ renewal # None
  BY DEF Inv, RowsOK, TypeOK, Renew, Fields
<1>2. RowOK(new) /\ Owner(End, new) = "calendar"
  BY <1>1, OffersAre DEF RowOK, Rows, Sources, Owner
<1>3. Commits("calendar", {End}, rows)
  BY DEF Renew, Write
<1>4. new.value # None /\ new.source = "renewal"
  BY <1>1 DEF RowOK, Rows
<1>. HIDE DEF new
<1>5. RowsOK(rows)
  BY <1>1, <1>2 DEF RowsOK, RowOK
<1>6. rows[End] = new /\ \A f \in Fields \ {End} : rows[f] = row[f]
  BY <1>1 DEF RowsOK
<1>. HIDE DEF rows
<1>7. /\ RowsOK(row)' /\ DatesAgree' /\ \A f \in Fields \ {End} : row'[f] = rows[f]
      /\ Left(End, rows[End], row'[End])
  BY <1>3, <1>5, CommitKeeps
<1>8. Owner(End, row'[End]) = "calendar"
  BY <1>2, <1>6, <1>7 DEF Left
<1>9. act'.who = "calendar"
  BY <1>3 DEF Commits
<1>. QED
  BY <1>6, <1>7, <1>8, <1>9, SameLeft DEF RowsStep, Promised
-----------------------------------------------------------------------------
(* What is kept beside the rows: the runs, the assistant's, the dates.       *)
BesideOK ==
  /\ runs \in Seq(Runs) /\ Len(runs) <= MaxKept
  /\ asked \in [step : {"idle", "read", "kept"}, by : Persons \cup {Nobody}, on : Fields,
                before : Snapshots, after : MaybeValue]
  /\ renewal \in MaybeValue
  /\ act \in [who : {"person", "calendar", "machine"}, on : SUBSET Fields]
  /\ since \in 0..MaxKept /\ writes \in 0..MaxWrites
  /\ KeptOK

LEMMA InvIs == Inv <=> RowsOK(row) /\ DatesAgree /\ BesideOK
  BY DEF Inv, TypeOK, BesideOK, RowsOK, RowOK

(* A run is recorded with what it found, and a reading found in what it      *)
(* moved nothing that was a person's.                                        *)
LEMMA RecordKeeps ==
  ASSUME Inv, NEW rows, RowsOK(rows), NEW kind \in {"reading", "rollup"}, NEW from \in Amendments \cup {Nobody},
         NEW S, kind = "reading" => \A f \in S : ~Locked(row[f]),
         Record(kind, from, S, rows)
  PROVE  /\ runs' \in Seq(Runs) /\ Len(runs') <= MaxKept /\ since' \in 0..MaxKept
         /\ \A k \in 1..Len(runs') : RunOK(runs'[k])
<1>1. /\ runs \in Seq(Runs) /\ Len(runs) <= MaxKept /\ RowsOK(row) /\ MaxKept \in Nat
      /\ \A k \in 1..Len(runs) : RunOK(runs[k])
  BY BoundsAssumption DEF Inv, TypeOK, KeptOK
<1>2. CASE runs' = runs /\ since' = 0
  BY <1>1, <1>2
<1>3. CASE ~(runs' = runs /\ since' = 0)
  <2>. DEFINE new == [kind |-> kind, from |-> from, status |-> "made",
                      changes |-> ChangesTo(S, rows), was |-> [f \in Fields |-> row[f].value]]
  <2>1. MayKeep /\ runs' = Append(runs, new) /\ since' = Len(runs) + 1
    BY <1>3 DEF Record
  <2>2. Len(runs) < MaxKept
    BY <1>1, <2>1 DEF MayKeep
  <2>3. ASSUME NEW f \in Fields
        PROVE  /\ ChangesTo(S, rows)[f] \in Changes /\ SnapshotOK(ChangesTo(S, rows)[f].before)
               /\ kind = "reading" /\ ChangesTo(S, rows)[f].before.value # None
                    => ChangesTo(S, rows)[f].before.source \in {"ai", "calculated"}
    <3>1. RowOK(row[f]) /\ RowOK(rows[f]) /\ SnapshotOK(SnapshotOf(row[f]))
      BY <1>1, SnapshotKeeps DEF RowsOK
    <3>2. CASE f \in S
      <4>1. ChangesTo(S, rows)[f] = [made |-> TRUE, before |-> SnapshotOf(row[f]), after |-> rows[f].value]
        BY <3>2 DEF ChangesTo
      <4>2. ChangesTo(S, rows)[f] \in Changes
        BY <3>1, <4>1 DEF Changes, SnapshotOK, RowOK, Rows
      <4>3. kind = "reading" /\ SnapshotOf(row[f]).value # None => SnapshotOf(row[f]).source \in {"ai", "calculated"}
        BY <3>1, <3>2 DEF SnapshotOf, NoSnapshot, Locked, RowOK, Rows, Sources, NoRow
      <4>. QED
        BY <3>1, <4>1, <4>2, <4>3
    <3>3. CASE f \notin S
      <4>1. ChangesTo(S, rows)[f] = NoChange
        BY <3>3 DEF ChangesTo
      <4>2. NoChange \in Changes /\ SnapshotOK(NoChange.before) /\ NoChange.before.value = None
        BY DEF NoChange, Changes, NoSnapshot, Snapshots, SnapshotOK, Sources, MaybeValue
      <4>. QED
        BY <4>1, <4>2
    <3>. QED
      BY <3>2, <3>3
  <2>4. new \in Runs
    <3>1. ChangesTo(S, rows) \in [Fields -> Changes]
      BY <2>3 DEF ChangesTo
    <3>2. [f \in Fields |-> row[f].value] \in [Fields -> MaybeValue]
      BY <1>1 DEF RowsOK, RowOK, Rows
    <3>. QED
      BY <3>1, <3>2 DEF Runs
  <2>5. RunOK(new)
    BY <2>3 DEF RunOK
  <2>. HIDE DEF new
  <2>6. runs' \in Seq(Runs) /\ Len(runs') = Len(runs) + 1
    BY <1>1, <2>1, <2>4
  <2>7. \A k \in 1..Len(runs') : RunOK(runs'[k])
    BY <1>1, <2>1, <2>4, <2>5
  <2>. QED
    BY <1>1, <2>1, <2>2, <2>6, <2>7
<1>. QED
  BY <1>2, <1>3

LEMMA WriteTypes ==
  ASSUME writes \in 0..MaxWrites, NEW who \in {"person", "calendar", "machine"}, NEW on \in SUBSET Fields,
         NEW rows, Write(who, on, rows)
  PROVE  /\ writes' \in 0..MaxWrites
         /\ act' \in [who : {"person", "calendar", "machine"}, on : SUBSET Fields]
  BY BoundsAssumption DEF Write, Commits

LEMMA StatusOnly ==
  ASSUME Inv, NEW k \in 1..Len(runs), NEW status \in {"made", "claimed", "undone"},
         runs' = [runs EXCEPT ![k].status = status]
  PROVE  /\ runs' \in Seq(Runs) /\ Len(runs') <= MaxKept
         /\ \A j \in 1..Len(runs') : RunOK(runs'[j])
<1>1. runs \in Seq(Runs) /\ Len(runs) <= MaxKept /\ \A j \in 1..Len(runs) : RunOK(runs[j]) /\ runs[j] \in Runs
  BY DEF Inv, TypeOK, KeptOK
<1>2. Len(runs') = Len(runs) /\ runs' \in Seq(Runs)
  BY <1>1 DEF Runs
<1>3. ASSUME NEW j \in 1..Len(runs)
      PROVE  runs'[j].changes = runs[j].changes /\ runs'[j].kind = runs[j].kind
  BY <1>1 DEF Runs
<1>. QED
  BY <1>1, <1>2, <1>3 DEF RunOK

LEMMA InitOK == Init => Inv
<1>. SUFFICES ASSUME Init PROVE RowsOK(row) /\ DatesAgree /\ BesideOK
  BY InvIs
<1>1. PICK v \in [Fields -> MaybeValue] : row = Commit([f \in Fields |-> FirstRead(NoRow, v[f])])
  BY DEF Init
<1>. DEFINE rows == [f \in Fields |-> FirstRead(NoRow, v[f])]
<1>2. \A f \in Fields : RowOK(FirstRead(NoRow, v[f]))
  BY NoRowOK, OffersAre DEF RowOK, FirstRead, NoRow, Rows, Sources
<1>3. RowsOK(rows)
  BY <1>2, EachRow
<1>. DEFINE calc == WorkedOut(rows)
<1>4. calc \in MaybeValue /\ End \in Fields /\ End \notin Inputs /\ Inputs \subseteq Fields
  BY <1>3, WorkedOutType, FieldsAssumption DEF Fields
<1>5. row = [rows EXCEPT ![End] = Derived(rows[End], calc)]
  BY <1>1 DEF Commit
<1>6. RowOK(rows[End]) /\ DOMAIN rows = Fields
  BY <1>3, <1>4 DEF RowsOK
<1>. HIDE DEF rows
<1>7. row[End] = Derived(rows[End], calc) /\ (\A f \in Fields \ {End} : row[f] = rows[f]) /\ row = [f \in Fields |-> row[f]]
  BY <1>4, <1>5, <1>6
<1>. HIDE DEF calc
<1>8. /\ RowOK(row[End])
      /\ row[End].source = "calculated" => row[End].value = calc
      /\ row[End].value = None => calc = None
  BY <1>4, <1>6, <1>7, DerivedKeeps
<1>9. RowsOK(row)
  <2>1. \A f \in Fields : RowOK(row[f])
    BY <1>3, <1>7, <1>8 DEF RowsOK
  <2>. QED
    BY <1>7, <2>1, EachRow
<1>10. WorkedOut(row) = calc
  <2>1. [i \in Inputs |-> row[i].value] = [i \in Inputs |-> rows[i].value]
    BY <1>4, <1>7
  <2>2. \A i \in Inputs : row[i] = rows[i]
    BY <1>4, <1>7
  <2>. QED
    BY <2>1, <2>2 DEF WorkedOut, calc
<1>11. DatesAgree
  BY <1>8, <1>10 DEF DatesAgree
<1>12. BesideOK
  BY <1>4, BoundsAssumption DEF Init, BesideOK, KeptOK, NoAsk, NoSnapshot, Snapshots, SnapshotOK, Sources, MaybeValue
<1>. QED
  BY <1>9, <1>11, <1>12

(* Every step keeps the invariant and, when it writes, what is promised of   *)
(* the owners.                                                               *)
Same == row' = row /\ act' = act

LEMMA Step ==
  ASSUME Inv, [Next]_vars
  PROVE  Inv' /\ (RowsStep \/ Same)
<1>0. /\ RowsOK(row) /\ DatesAgree /\ BesideOK /\ \A f \in Fields : RowOK(row[f])
  BY InvIs DEF RowsOK
<1>. SUFFICES (RowsStep \/ Same) /\ BesideOK'
  <2>1. RowsStep => RowsOK(row)' /\ DatesAgree'
    BY DEF RowsStep
  <2>2. Same => RowsOK(row)' /\ DatesAgree'
    BY <1>0 DEF Same, RowsOK, DatesAgree, WorkedOut
  <2>3. RowsOK(row)' /\ DatesAgree' /\ BesideOK' => Inv'
    BY DEF Inv, TypeOK, BesideOK, RowsOK, RowOK
  <2>. QED
    BY <2>1, <2>2, <2>3
<1>1. ASSUME NEW p \in Persons, SetValues(p) \/ Verify(p) \/ VerifyAll(p) \/ Reject(p) \/ Resolve(p)
      PROVE  (RowsStep \/ Same) /\ BesideOK'
  <2>1. RowsStep
    BY <1>0, <1>1, PersonActs
  <2>2. PICK S, rows : S \subseteq Fields /\ PersonWrites(p, S, rows)
    BY <1>1 DEF SetValues, Verify, VerifyAll, Reject, Resolve, ToCheck
  <2>3. writes' \in 0..MaxWrites /\ act' \in [who : {"person", "calendar", "machine"}, on : SUBSET Fields]
    BY <1>0, <2>2, WriteTypes DEF PersonWrites, BesideOK
  <2>. QED
    BY <1>0, <2>1, <2>2, <2>3, BoundsAssumption DEF PersonWrites, BesideOK, KeptOK
<1>2. ASSUME NEW p \in Persons, AskRead(p) PROVE (RowsStep \/ Same) /\ BesideOK'
  <2>1. PICK f \in Fields :
          asked' = [step |-> "read", by |-> p, on |-> f, before |-> SnapshotOf(row[f]), after |-> None]
    BY <1>2 DEF AskRead
  <2>2. SnapshotOK(SnapshotOf(row[f]))
    BY <1>0, SnapshotKeeps
  <2>3. SnapshotOK(asked'.before) /\ asked' \in [step : {"idle", "read", "kept"}, by : Persons \cup {Nobody},
                                                  on : Fields, before : Snapshots, after : MaybeValue]
    BY <2>1, <2>2 DEF SnapshotOK, MaybeValue
  <2>. QED
    BY <1>0, <1>2, <2>3 DEF AskRead, Same, BesideOK, KeptOK
<1>3. ASSUME NEW p \in Persons, RollUp(p) PROVE (RowsStep \/ Same) /\ BesideOK'
  <2>1. RowsStep
    BY <1>0, <1>3, PersonActs
  <2>2. PICK a \in Amendments, S \in SUBSET Fields \ {{}} : \E v \in [S -> Values] :
          LET rows == [f \in Fields |-> IF f \in S THEN Amended(row[f], v[f], a, p) ELSE row[f]]
          IN  Write("person", S, rows) /\ Record("rollup", a, S, rows) /\ UNCHANGED <<asked, renewal>>
    BY <1>3 DEF RollUp
  <2>3. PICK v \in [S -> Values] :
          LET rows == [f \in Fields |-> IF f \in S THEN Amended(row[f], v[f], a, p) ELSE row[f]]
          IN  Write("person", S, rows) /\ Record("rollup", a, S, rows) /\ UNCHANGED <<asked, renewal>>
    BY <2>2
  <2>. DEFINE rows == [f \in Fields |-> IF f \in S THEN Amended(row[f], v[f], a, p) ELSE row[f]]
  <2>4. \A f \in S : RowOK(Amended(row[f], v[f], a, p))
    BY <1>0, PersonRowsOK DEF MaybeValue
  <2>5. RowsOK(rows)
    BY <1>0, <2>4 DEF RowsOK, RowOK
  <2>6. Write("person", S, rows) /\ Record("rollup", a, S, rows) /\ UNCHANGED <<asked, renewal>>
    BY <2>3
  <2>. HIDE DEF rows
  <2>7. /\ runs' \in Seq(Runs) /\ Len(runs') <= MaxKept /\ since' \in 0..MaxKept
        /\ \A k \in 1..Len(runs') : RunOK(runs'[k])
    BY <2>5, <2>6, RecordKeeps
  <2>8. writes' \in 0..MaxWrites /\ act' \in [who : {"person", "calendar", "machine"}, on : SUBSET Fields]
    BY <1>0, <2>6, WriteTypes DEF BesideOK
  <2>. QED
    BY <1>0, <2>1, <2>6, <2>7, <2>8 DEF BesideOK, KeptOK
<1>4. CASE AskWrite
  <2>1. RowsStep
    BY <1>4, AskedActs
  <2>2. PICK v \in MaybeValue :
          /\ Write("person", {asked.on}, [row EXCEPT ![asked.on] = Stated(row[asked.on], v, asked.by)])
          /\ asked' = [asked EXCEPT !.step = "kept", !.after = v]
    BY <1>4 DEF AskWrite
  <2>3. {asked.on} \in SUBSET Fields
    BY <1>0 DEF BesideOK
  <2>4. writes' \in 0..MaxWrites /\ act' \in [who : {"person", "calendar", "machine"}, on : SUBSET Fields]
    BY <1>0, <2>2, <2>3, WriteTypes DEF BesideOK
  <2>5. asked'.before = asked.before
        /\ asked' \in [step : {"idle", "read", "kept"}, by : Persons \cup {Nobody},
                       on : Fields, before : Snapshots, after : MaybeValue]
    BY <1>0, <2>2 DEF BesideOK
  <2>. QED
    BY <1>0, <1>4, <2>1, <2>4, <2>5, BoundsAssumption DEF AskWrite, BesideOK, KeptOK
<1>5. CASE AskUndo
  <2>1. RowsStep
    BY <1>5, AskedActs
  <2>3. {asked.on} \in SUBSET Fields
    BY <1>0 DEF BesideOK
  <2>4. writes' \in 0..MaxWrites /\ act' \in [who : {"person", "calendar", "machine"}, on : SUBSET Fields]
    BY <1>0, <1>5, <2>3, WriteTypes DEF AskUndo, BesideOK
  <2>5. /\ SnapshotOK(asked'.before)
        /\ asked' \in [step : {"idle", "read", "kept"}, by : Persons \cup {Nobody},
                       on : Fields, before : Snapshots, after : MaybeValue]
    BY <1>5 DEF AskUndo, NoAsk, NoSnapshot, Snapshots, SnapshotOK, Sources, MaybeValue, Fields
  <2>. QED
    BY <1>0, <1>5, <2>1, <2>4, <2>5, BoundsAssumption DEF AskUndo, BesideOK, KeptOK
<1>6. CASE Extract \/ ExtractTracked
  <2>1. RowsStep
    BY <1>0, <1>6, ReadingActs
  <2>2. PICK rows : ReadStep(rows)
    BY <1>0, <1>6, ReadingActs
  <2>3. /\ runs' \in Seq(Runs) /\ Len(runs') <= MaxKept /\ since' \in 0..MaxKept
        /\ \A k \in 1..Len(runs') : RunOK(runs'[k])
    <3>1. Record("reading", Nobody, Moved(rows), rows) /\ RowsOK(rows) /\ \A f \in Moved(rows) : ~Locked(row[f])
      BY <2>2 DEF ReadStep
    <3>. QED
      BY <3>1, RecordKeeps
  <2>4. writes' \in 0..MaxWrites /\ act' \in [who : {"person", "calendar", "machine"}, on : SUBSET Fields]
    BY <1>0, <2>2, WriteTypes DEF ReadStep, BesideOK
  <2>. QED
    BY <1>0, <2>1, <2>2, <2>3, <2>4 DEF ReadStep, BesideOK, KeptOK
<1>7. CASE Recheck
  <2>1. RowsStep
    BY <1>7, RecheckStep
  <2>. QED
    BY <1>0, <1>7, <2>1, BoundsAssumption DEF Recheck, BesideOK, KeptOK
<1>8. CASE Claim
  <2>1. PICK k \in 1..Len(runs) : runs' = [runs EXCEPT ![k].status = "claimed"]
    BY <1>8 DEF Claim
  <2>2. runs' \in Seq(Runs) /\ Len(runs') <= MaxKept /\ \A j \in 1..Len(runs') : RunOK(runs'[j])
    BY <2>1, StatusOnly
  <2>. QED
    BY <1>0, <1>8, <2>2 DEF Claim, Same, BesideOK, KeptOK
<1>9. ASSUME NEW k \in 1..Len(runs), Restore(k) PROVE (RowsStep \/ Same) /\ BesideOK'
  <2>1. RowsStep
    BY <1>9, RestoreStep
  <2>2. runs' \in Seq(Runs) /\ Len(runs') <= MaxKept /\ \A j \in 1..Len(runs') : RunOK(runs'[j])
    BY <1>9, StatusOnly DEF Restore
  <2>3. act' \in [who : {"person", "calendar", "machine"}, on : SUBSET Fields]
    BY <1>9 DEF Restore, Commits
  <2>4. since' = 0 /\ UNCHANGED <<asked, renewal, writes>>
    BY <1>9 DEF Restore
  <2>. QED
    BY <1>0, <2>1, <2>2, <2>3, <2>4, BoundsAssumption DEF BesideOK, KeptOK
<1>10. CASE RenewalRead
  BY <1>0, <1>10 DEF RenewalRead, Same, BesideOK, KeptOK, MaybeValue
<1>11. CASE Renew
  <2>1. RowsStep
    BY <1>11, RenewStep
  <2>2. writes' \in 0..MaxWrites /\ act' \in [who : {"person", "calendar", "machine"}, on : SUBSET Fields]
    BY <1>0, <1>11, WriteTypes DEF Renew, BesideOK, Fields
  <2>3. since' = 0 /\ renewal' \in MaybeValue /\ UNCHANGED <<runs, asked>>
    BY <1>11 DEF Renew, MaybeValue
  <2>. QED
    BY <1>0, <2>1, <2>2, <2>3, BoundsAssumption DEF BesideOK, KeptOK
<1>12. CASE UNCHANGED vars
  BY <1>0, <1>12 DEF vars, Same, BesideOK, KeptOK
<1>. QED
  BY <1>1, <1>2, <1>3, <1>4, <1>5, <1>6, <1>7, <1>8, <1>9, <1>10, <1>11, <1>12 DEF Next
-----------------------------------------------------------------------------
(* Every state the store reaches satisfies the invariant.                    *)
THEOREM AlwaysInv == Spec => []Inv
<1>1. Init => Inv
  BY InitOK
<1>2. Inv /\ [Next]_vars => Inv'
  BY Step
<1>. QED
  BY <1>1, <1>2, PTL DEF Spec

(* Types: every row, run and date the store keeps is of its type, whatever   *)
(* the writes of field-store.ts and field-runs.ts did, in any order.         *)
THEOREM FieldTypes == Spec => []TypeOK
<1>1. Inv => TypeOK
  BY DEF Inv
<1>. QED
  BY <1>1, AlwaysInv, PTL

(* The end date that was worked out is what its inputs come to, and an empty *)
(* one means they come to nothing: no write leaves it behind                 *)
(* (deriveCalculated in every commit).                                       *)
THEOREM DatesAlwaysAgree == Spec => []DatesAgree
<1>1. Inv => DatesAgree
  BY DEF Inv
<1>. QED
  BY <1>1, AlwaysInv, PTL

(* What is offered beside a field is never what it holds already.            *)
THEOREM OffersAlwaysDiffer == Spec => []OffersDiffer
<1>1. Inv => OffersDiffer
  BY DEF Inv, RowsOK, RowOK, OffersDiffer
<1>. QED
  BY <1>1, AlwaysInv, PTL

(* Nothing is anybody's when the first analysis has read the contract.       *)
LEMMA FirstOwners == Init => \A f \in Fields : Owner(f, row[f]) = "machine"
<1>. SUFFICES ASSUME Init, NEW f \in Fields PROVE Owner(f, row[f]) = "machine"
  OBVIOUS
<1>1. PICK v \in [Fields -> MaybeValue] : row = Commit([g \in Fields |-> FirstRead(NoRow, v[g])])
  BY DEF Init
<1>2. PICK calc : row = [[g \in Fields |-> FirstRead(NoRow, v[g])] EXCEPT ![End] = Derived(FirstRead(NoRow, v[End]), calc)]
  BY <1>1 DEF Commit, Fields
<1>3. CASE f = End
  BY <1>2, <1>3 DEF Derived, FirstRead, NoRow, Owner, Locked
<1>4. CASE f # End
  BY <1>2, <1>4 DEF FirstRead, NoRow, Owner, Locked
<1>. QED
  BY <1>3, <1>4

(* What a person stated or checked is a person's until a person acts on that *)
(* field, or a renewal moves the end date: the store implements what         *)
(* FieldOwners promises (isLocked, the undo's conditions, deriveCalculated). *)
THEOREM OwnersAlwaysKept == Spec => OwnersKept
<1>. DEFINE value == [f \in Fields |-> row[f].value]
            owner == [f \in Fields |-> OwnerOf(f)]
<1>0. \A f \in Fields : OwnerOf(f) = Owner(f, row[f])
  BY DEF OwnerOf, Owner
<1>1. Init => Promise!Init
  <2>. SUFFICES ASSUME Init PROVE Promise!Init
    OBVIOUS
  <2>1. Inv
    BY InitOK
  <2>2. value \in [Fields -> Values \cup {None}]
    BY <2>1 DEF Inv, RowsOK, RowOK, Rows, MaybeValue
  <2>3. owner = [f \in Fields |-> "machine"]
    BY <1>0, FirstOwners
  <2>4. act \in Promise!Acts
    BY <2>1 DEF Inv, TypeOK, Promise!Acts, Promise!Owners
  <2>. QED
    BY <2>2, <2>3, <2>4 DEF Promise!Init
<1>2. Inv /\ [Next]_vars => [Promise!Next]_(Promise!vars)
  <2>. SUFFICES ASSUME Inv, [Next]_vars PROVE [Promise!Next]_(Promise!vars)
    OBVIOUS
  <2>1. Inv' /\ (RowsStep \/ Same)
    BY Step
  <2>2. CASE Same
    BY <2>2 DEF Same, Promise!vars, OwnerOf, Locked
  <2>3. CASE RowsStep
    <3>1. \A f \in Fields : owner[f] = Owner(f, row[f]) /\ owner'[f] = Owner(f, row'[f])
      BY DEF OwnerOf, Owner
    <3>2. \A f \in Fields : value[f] = row[f].value /\ value'[f] = row'[f].value
      OBVIOUS
    <3>3. value' \in [Fields -> Values \cup {None}]
      BY <2>1 DEF Inv, RowsOK, RowOK, Rows, MaybeValue
    <3>4. owner' \in [Fields -> Promise!Owners]
      BY DEF OwnerOf, Promise!Owners
    <3>5. act' \in Promise!Acts
      BY <2>1 DEF Inv, TypeOK, Promise!Acts, Promise!Owners
    <3>. HIDE DEF value, owner
    <3>6. \A f \in Fields : Left(f, row[f], row'[f]) =>
            IF owner[f] = "machine" THEN owner'[f] = "machine"
                                    ELSE value'[f] = value[f] /\ owner'[f] = owner[f]
      BY <3>1, <3>2 DEF Left
    <3>7. End \in Fields
      BY DEF Fields
    <3>8. CASE act'.who = "machine" /\ \A f \in Fields : Left(f, row[f], row'[f])
      <4>1. Promise!Machine
        BY <3>6, <3>8 DEF Promise!Machine, Promise!Leaves, value, owner
      <4>. QED
        BY <3>3, <3>4, <3>5, <4>1 DEF Promise!Next, value, owner
    <3>9. CASE act'.who = "person" /\ \A f \in Fields \ act'.on : Left(f, row[f], row'[f])
      <4>1. Promise!Person
        BY <3>6, <3>9 DEF Promise!Person, Promise!Leaves, value, owner
      <4>. QED
        BY <3>3, <3>4, <3>5, <4>1 DEF Promise!Next, value, owner
    <3>10. CASE /\ act'.who = "calendar" /\ Owner(End, row'[End]) = "calendar"
                /\ \A f \in Fields \ {End} : Left(f, row[f], row'[f])
      <4>1. owner'[End] = "calendar"
        BY <3>1, <3>7, <3>10
      <4>2. Promise!Calendar
        BY <3>6, <3>10, <4>1 DEF Promise!Calendar, Promise!Leaves, value, owner
      <4>. QED
        BY <3>3, <3>4, <3>5, <4>2 DEF Promise!Next, value, owner
    <3>. QED
      BY <2>3, <3>8, <3>9, <3>10 DEF RowsStep, Promised
  <2>. QED
    BY <2>1, <2>2, <2>3
<1>. QED
  BY <1>1, <1>2, AlwaysInv, PTL DEF Spec, OwnersKept, Promise!Spec
-----------------------------------------------------------------------------
(* What the undo of a run gives back.                                        *)

LEMMA CameIs ==
  ASSUME NEW rows, NEW w, \A i \in Inputs : w[i] = rows[i].value
  PROVE  Came(w) = WorkedOut(rows)
<1>1. [i \in Inputs |-> w[i]] = [i \in Inputs |-> rows[i].value]
  OBVIOUS
<1>. QED
  BY <1>1 DEF Came, WorkedOut

(* A commit touches the end date alone, and leaves one that is stated.       *)
LEMMA CommitEnds ==
  ASSUME NEW rows, DOMAIN rows = Fields, NEW who, NEW on, Commits(who, on, rows)
  PROVE  /\ \A f \in Fields \ {End} : row'[f] = rows[f]
         /\ row'[End] = Derived(rows[End], WorkedOut(rows))
         /\ End \in Fields /\ End \notin Inputs /\ Inputs \subseteq Fields \ {End}
<1>1. End \in Fields /\ End \notin Inputs /\ Inputs \subseteq Fields \ {End}
  BY FieldsAssumption DEF Fields
<1>2. row' = [rows EXCEPT ![End] = Derived(rows[End], WorkedOut(rows))]
  BY DEF Commits, Commit
<1>. QED
  BY <1>1, <1>2

(* A run just recorded stands: nobody has written after it.                  *)
ReadRun(rows, S)       == S = Moved(rows) /\ \A f \in Fields : Reads(row[f], rows[f])
RolledUp(rows, S, a)   ==
  /\ \A f \in S : rows[f].value # None /\ rows[f].source = "amendment" /\ rows[f].from = a
  /\ \A f \in Fields \ S : rows[f] = row[f]

LEMMA RecordStands ==
  ASSUME Inv, NEW rows, RowsOK(rows), NEW who, NEW on, Commits(who, on, rows),
         NEW kind \in {"reading", "rollup"}, NEW from, NEW S,
         IF kind = "reading" THEN ReadRun(rows, S) ELSE RolledUp(rows, S, from),
         Record(kind, from, S, rows)
  PROVE  LastStands'
<1>. DEFINE new == [kind |-> kind, from |-> from, status |-> "made",
                    changes |-> ChangesTo(S, rows), was |-> [f \in Fields |-> row[f].value]]
<1>0. runs \in Seq(Runs) /\ RowsOK(row) /\ DatesAgree
  BY DEF Inv, TypeOK
<1>1. CASE since' = 0
  BY <1>1 DEF LastStands
<1>2. CASE since' # 0
  <2>1. runs' = Append(runs, new) /\ since' = Len(runs) + 1
    BY <1>2 DEF Record
  <2>2. PICK run : run = new
    OBVIOUS
  <2>3. since' \in 1..Len(runs') /\ runs'[since'] = run
    BY <1>0, <2>1, <2>2
  <2>4. /\ run.kind = kind /\ run.from = from
        /\ \A f \in Fields : run.was[f] = row[f].value /\ run.changes[f] = ChangesTo(S, rows)[f]
    BY <2>2
  <2>. HIDE DEF new
  <2>5. ASSUME NEW f \in Fields
        PROVE  /\ f \in S => /\ run.changes[f].made /\ run.changes[f].before = SnapshotOf(row[f])
                             /\ run.changes[f].after = rows[f].value
               /\ f \notin S => ~run.changes[f].made
    <3>1. CASE f \in S
      <4>1. run.changes[f] = [made |-> TRUE, before |-> SnapshotOf(row[f]), after |-> rows[f].value]
        BY <2>4, <3>1 DEF ChangesTo
      <4>. QED
        BY <3>1, <4>1
    <3>2. CASE f \notin S
      <4>1. run.changes[f] = NoChange
        BY <2>4, <3>2 DEF ChangesTo
      <4>. QED
        BY <3>2, <4>1 DEF NoChange
    <3>. QED
      BY <3>1, <3>2
  <2>6. ASSUME NEW f \in Fields
        PROVE  SnapshotOf(row[f]).value = row[f].value
               /\ (SnapshotOf(row[f]).value # None => SnapshotOf(row[f]).source = row[f].source)
    BY DEF SnapshotOf, NoSnapshot
  (* What the run found is as it is before the commit, which changes nothing *)
  (* but the end date.                                                       *)
  <2>7. ASSUME NEW f \in Fields, f \in S => rows[f].value # None \/ f # End
        PROVE  FieldAsLeft(rows[f], run, f)
    <3>1. CASE f \in S
      <4>1. run.changes[f].made /\ run.changes[f].after = rows[f].value /\ run.changes[f].before.value = run.was[f]
        BY <2>4, <2>5, <2>6, <3>1
      <4>2. IF run.kind = "rollup" THEN rows[f].source = "amendment" /\ rows[f].from = run.from
            ELSE rows[f].source \in {"ai", "calculated"} /\ ~rows[f].checked
        <5>1. CASE kind = "rollup"
          BY <2>4, <3>1, <5>1 DEF RolledUp
        <5>2. CASE kind = "reading"
          BY <2>4, <3>1, <5>2 DEF ReadRun, Moved, Reads
        <5>. QED
          BY <5>1, <5>2
      <4>. QED
        BY <4>1, <4>2 DEF FieldAsLeft, AsLeft
    <3>2. CASE f \notin S
      <4>1. ~run.changes[f].made
        BY <2>5, <3>2
      <4>2. rows[f].value = row[f].value
        BY <3>2 DEF ReadRun, RolledUp, Moved
      <4>. QED
        BY <2>4, <4>1, <4>2 DEF FieldAsLeft
    <3>. QED
      BY <3>1, <3>2
  <2>8. /\ \A f \in Fields \ {End} : row'[f] = rows[f]
        /\ row'[End] = Derived(rows[End], WorkedOut(rows))
        /\ End \in Fields /\ Inputs \subseteq Fields
    BY CommitEnds DEF RowsOK
  <2>9. \A f \in Fields \ {End} : FieldAsLeft(row'[f], run, f)
    BY <2>7, <2>8
  <2>10. Came(run.was) = WorkedOut(row)
    BY <2>4, <2>8, CameIs
  <2>11. /\ row[End].source = "calculated" => run.was[End] = Came(run.was)
         /\ run.was[End] = None => Came(run.was) = None
    BY <1>0, <2>4, <2>8, <2>10 DEF DatesAgree
  <2>12. EndAsLeft(row'[End], run)
    <3>1. CASE End \in S /\ rows[End].value = None
      <4>1. run.changes[End].made /\ run.changes[End].after = None
        BY <2>5, <2>8, <3>1
      <4>. QED
        BY <4>1 DEF EndAsLeft
    <3>2. CASE End \in S /\ rows[End].value # None
      <4>1. run.changes[End].made /\ run.changes[End].before = SnapshotOf(row[End])
        BY <2>5, <2>8, <3>2
      <4>2. rows[End].source # "calculated"
        <5>1. CASE kind = "rollup"
          BY <3>2, <5>1 DEF RolledUp
        <5>2. CASE kind = "reading"
          BY <2>8, <3>2, <5>2 DEF ReadRun, Moved, Reads
        <5>. QED
          BY <5>1, <5>2
      <4>3. row'[End] = rows[End]
        BY <2>8, <3>2, <4>2 DEF Derived
      <4>4. FieldAsLeft(row'[End], run, End)
        BY <2>7, <2>8, <3>2, <4>3
      <4>5. run.changes[End].before.source = "calculated" /\ run.changes[End].before.value # None
              => run.was[End] = Came(run.was)
        BY <2>6, <2>8, <2>11, <4>1
      <4>. QED
        BY <2>11, <4>1, <4>4, <4>5 DEF EndAsLeft
    <3>3. CASE End \notin S
      <4>1. ~run.changes[End].made
        BY <2>5, <2>8, <3>3
      <4>2. rows[End].value = run.was[End]
        BY <2>4, <2>8, <3>3 DEF ReadRun, RolledUp, Moved
      <4>3. rows[End].source = "calculated" => row[End].source = "calculated"
        <5>1. CASE kind = "rollup"
          BY <2>8, <3>3, <5>1 DEF RolledUp
        <5>2. CASE kind = "reading"
          BY <2>8, <5>2 DEF ReadRun, Reads
        <5>. QED
          BY <5>1, <5>2
      <4>4. CASE rows[End].source = "calculated"
        <5>1. run.was[End] = Came(run.was)
          BY <2>11, <4>3, <4>4
        <5>. QED
          BY <2>11, <4>1, <4>2, <4>4, <5>1, <2>8 DEF EndAsLeft, Derived, RowsOK, Rows
      <4>5. CASE rows[End].source # "calculated" /\ (rows[End].value # None \/ WorkedOut(rows) = None)
        <5>1. row'[End] = rows[End]
          BY <2>8, <4>5 DEF Derived
        <5>. QED
          BY <2>11, <4>1, <4>2, <4>5, <5>1 DEF EndAsLeft
      <4>6. CASE rows[End].source # "calculated" /\ rows[End].value = None /\ WorkedOut(rows) # None
        <5>1. row'[End].source = "calculated"
          BY <2>8, <4>6 DEF Derived, RowsOK, Rows
        <5>. QED
          BY <2>11, <4>1, <4>2, <4>6, <5>1 DEF EndAsLeft
      <4>. QED
        BY <4>4, <4>5, <4>6
    <3>. QED
      BY <3>1, <3>2, <3>3
  <2>. QED
    BY <2>3, <2>9, <2>12 DEF LastStands, AllAsLeft
<1>. QED
  BY <1>1, <1>2

(* The undo of the run that nobody has written after.                        *)
LEMMA RestoreGives ==
  ASSUME Inv, LastStands, NEW k \in 1..Len(runs), since = k, Restore(k), NEW f \in Fields
  PROVE  \/ row'[f].value = runs[k].was[f]
         \/ f = End /\ runs[k].changes[f].made /\ runs[k].changes[f].after = None
<1>. DEFINE S == {g \in Fields : AsLeft(row[g], runs[k], runs[k].changes[g])}
            back == [g \in Fields |-> IF g \in S THEN Restored(row[g], runs[k], runs[k].changes[g]) ELSE row[g]]
<1>1. PICK run : run = runs[k]
  OBVIOUS
<1>2. PICK rows : rows = back
  OBVIOUS
<1>3. /\ k # 0 /\ AllAsLeft(row, run) /\ run \in Runs /\ RunOK(run)
      /\ \A g \in Fields : row[g] \in Rows
  BY <1>1 DEF LastStands, Inv, TypeOK, KeptOK, RowsOK
<1>4. \E who, on : Commits(who, on, rows)
  BY <1>2 DEF Restore
<1>5. ASSUME NEW g \in Fields
      PROVE  rows[g] = IF AsLeft(row[g], run, run.changes[g]) THEN Restored(row[g], run, run.changes[g]) ELSE row[g]
  BY <1>1, <1>2
<1>6. DOMAIN rows = Fields
  BY <1>2
<1>. HIDE DEF back, S
<1>7. /\ End \in Fields /\ End \notin Inputs /\ Inputs \subseteq Fields \ {End}
      /\ \A g \in Fields \ {End} : row'[g] = rows[g]
      /\ row'[End] = Derived(rows[End], WorkedOut(rows))
  BY <1>4, <1>6, CommitEnds
(* What the run changed and is as it left it goes back to what it was.       *)
<1>8. ASSUME NEW g \in Fields, AsLeft(row[g], run, run.changes[g]),
             run.changes[g].before.value = run.was[g]
      PROVE  /\ rows[g].value = run.was[g] /\ rows[g] = Restored(row[g], run, run.changes[g])
             /\ run.was[g] # None => rows[g].source = run.changes[g].before.source
  <2>. DEFINE b == run.changes[g].before
  <2>1. rows[g] = Restored(row[g], run, run.changes[g]) /\ row[g] \in Rows
    BY <1>3, <1>5, <1>8
  <2>2. CASE run.kind = "rollup"
    BY <1>8, <2>1, <2>2 DEF Restored, PutBack, Rows
  <2>3. CASE run.kind # "rollup"
    BY <1>8, <2>1, <2>3 DEF Restored, Rows
  <2>. QED
    BY <2>1, <2>2, <2>3
<1>9. ASSUME NEW g \in Fields, FieldAsLeft(row[g], run, g) PROVE rows[g].value = run.was[g]
  <2>1. CASE run.changes[g].made
    BY <1>8, <1>9, <2>1 DEF FieldAsLeft
  <2>2. CASE ~run.changes[g].made
    BY <1>5, <1>9, <2>2 DEF FieldAsLeft, AsLeft
  <2>. QED
    BY <2>1, <2>2
<1>10. \A g \in Fields \ {End} : rows[g].value = run.was[g]
  BY <1>3, <1>9 DEF AllAsLeft
<1>11. WorkedOut(rows) = Came(run.was)
  BY <1>7, <1>10, CameIs
<1>12. CASE f # End
  BY <1>1, <1>7, <1>10, <1>12
<1>13. CASE f = End
  <2>. DEFINE change == run.changes[End]
              was    == run.was[End]
  <2>0. EndAsLeft(row[End], run) /\ rows[End] \in Rows
    <3>1. row[End] \in Rows /\ SnapshotOK(change.before)
      BY <1>3, <1>7 DEF RunOK
    <3>2. Restored(row[End], run, change) \in Rows
      BY <3>1, OffersAre DEF SnapshotOK, Snapshots, Restored, PutBack, Rows, MaybeValue, Sources
    <3>. QED
      BY <1>3, <1>5, <1>7, <3>1, <3>2 DEF AllAsLeft
  <2>1. CASE change.made /\ change.after = None
    BY <1>1, <1>13, <2>1
  <2>2. CASE change.made /\ change.after # None
    <3>1. /\ FieldAsLeft(row[End], run, End) /\ (was = None => WorkedOut(rows) = None)
          /\ change.before.source = "calculated" /\ change.before.value # None => was = WorkedOut(rows)
      BY <1>11, <2>0, <2>2 DEF EndAsLeft
    <3>2. AsLeft(row[End], run, change) /\ change.before.value = was
      BY <2>2, <3>1 DEF FieldAsLeft
    <3>3. rows[End].value = was /\ (was # None => rows[End].source = change.before.source)
      BY <1>7, <1>8, <3>2
    <3>4. row'[End].value = was
      <4>1. CASE was = None
        BY <1>7, <3>1, <3>3, <4>1 DEF Derived
      <4>2. CASE was # None /\ rows[End].source = "calculated"
        BY <1>7, <3>1, <3>2, <3>3, <4>2 DEF Derived
      <4>3. CASE was # None /\ rows[End].source # "calculated"
        BY <1>7, <3>3, <4>3 DEF Derived
      <4>. QED
        BY <4>1, <4>2, <4>3
    <3>. QED
      BY <1>1, <1>13, <3>4
  <2>3. CASE ~change.made
    <3>1. rows[End] = row[End]
      BY <1>5, <1>7, <2>3 DEF AsLeft
    <3>2. IF rows[End].source = "calculated" THEN was = WorkedOut(rows)
                                             ELSE rows[End].value = was /\ (was = None => WorkedOut(rows) = None)
      BY <1>11, <2>0, <2>3, <3>1 DEF EndAsLeft
    <3>3. row'[End].value = was
      BY <1>7, <2>0, <3>2 DEF Derived, Rows
    <3>. QED
      BY <1>1, <1>13, <3>3
  <2>. QED
    BY <2>1, <2>2, <2>3
<1>. QED
  BY <1>12, <1>13

(* Whether a run stands is a matter of what the rows hold and who wrote it.  *)
LEMMA StandsStill ==
  ASSUME NEW rows, NEW others, NEW run, NEW other, AllAsLeft(rows, run),
         \A f \in Fields : /\ others[f].value = rows[f].value /\ others[f].source = rows[f].source
                           /\ others[f].checked = rows[f].checked /\ others[f].from = rows[f].from,
         other.kind = run.kind, other.from = run.from, other.changes = run.changes, other.was = run.was
  PROVE  AllAsLeft(others, other)
<1>1. ASSUME NEW f \in Fields, FieldAsLeft(rows[f], run, f) PROVE FieldAsLeft(others[f], other, f)
  BY <1>1 DEF FieldAsLeft, AsLeft
<1>2. End \in Fields
  BY DEF Fields
<1>3. EndAsLeft(others[End], other)
  BY <1>1, <1>2 DEF AllAsLeft, EndAsLeft
<1>. QED
  BY <1>1, <1>3 DEF AllAsLeft

(* Every step leaves the run as the last to write, or ends that.             *)
LEMMA StandsStep ==
  ASSUME Inv, LastStands, [Next]_vars
  PROVE  LastStands'
<1>0. runs \in Seq(Runs) /\ RowsOK(row) /\ \A f \in Fields : RowOK(row[f])
  BY DEF Inv, TypeOK, RowsOK
<1>1. ASSUME since' = 0 PROVE LastStands'
  BY <1>1 DEF LastStands
<1>2. ASSUME UNCHANGED <<row, runs, since>> PROVE LastStands'
  <2>1. AllAsLeft(row, runs[since])' <=> AllAsLeft(row, runs[since])
    BY <1>2 DEF AllAsLeft, FieldAsLeft, EndAsLeft, AsLeft
  <2>. QED
    BY <1>2, <2>1 DEF LastStands
<1>3. CASE \E p \in Persons : SetValues(p) \/ Verify(p) \/ VerifyAll(p) \/ Reject(p) \/ Resolve(p)
  BY <1>1, <1>3 DEF SetValues, Verify, VerifyAll, Reject, Resolve, PersonWrites
<1>4. CASE (\E p \in Persons : AskRead(p)) \/ RenewalRead \/ UNCHANGED vars
  BY <1>2, <1>4 DEF AskRead, RenewalRead, vars
<1>5. CASE AskWrite \/ AskUndo \/ Renew \/ \E k \in 1..Len(runs) : Restore(k)
  BY <1>1, <1>5 DEF AskWrite, AskUndo, Renew, Restore
<1>6. ASSUME NEW p \in Persons, RollUp(p) PROVE LastStands'
  <2>1. PICK a \in Amendments, S \in SUBSET Fields \ {{}} : \E v \in [S -> Values] :
          LET rows == [f \in Fields |-> IF f \in S THEN Amended(row[f], v[f], a, p) ELSE row[f]]
          IN  Write("person", S, rows) /\ Record("rollup", a, S, rows) /\ UNCHANGED <<asked, renewal>>
    BY <1>6 DEF RollUp
  <2>2. PICK v \in [S -> Values] :
          LET rows == [f \in Fields |-> IF f \in S THEN Amended(row[f], v[f], a, p) ELSE row[f]]
          IN  Write("person", S, rows) /\ Record("rollup", a, S, rows) /\ UNCHANGED <<asked, renewal>>
    BY <2>1
  <2>. DEFINE given == [f \in Fields |-> IF f \in S THEN Amended(row[f], v[f], a, p) ELSE row[f]]
  <2>3. PICK rows : rows = given
    OBVIOUS
  <2>4. Commits("person", S, rows) /\ Record("rollup", a, S, rows)
    BY <2>2, <2>3 DEF Write
  <2>5. \A f \in S : RowOK(Amended(row[f], v[f], a, p))
    BY <1>0, PersonRowsOK DEF MaybeValue
  <2>6. RowsOK(rows)
    BY <1>0, <2>3, <2>5 DEF RowsOK, RowOK
  <2>7. RolledUp(rows, S, a)
    <3>1. \A f \in Fields \ S : rows[f] = row[f]
      BY <2>3
    <3>2. ASSUME NEW f \in S PROVE rows[f].value # None /\ rows[f].source = "amendment" /\ rows[f].from = a
      <4>1. rows[f] = Amended(row[f], v[f], a, p) /\ v[f] \in Values /\ row[f] \in Rows
        BY <1>0, <2>3 DEF RowOK
      <4>. QED
        BY <4>1, ValuesAssumption DEF Amended, Rows
    <3>. QED
      BY <3>1, <3>2 DEF RolledUp
  <2>. QED
    BY <2>4, <2>6, <2>7, RecordStands
<1>7. CASE Extract \/ ExtractTracked
  <2>1. PICK rows : ReadStep(rows)
    BY <1>0, <1>7, ReadingActs
  <2>2. /\ RowsOK(rows) /\ Commits("machine", {}, rows) /\ ReadRun(rows, Moved(rows))
        /\ Record("reading", Nobody, Moved(rows), rows)
    BY <2>1 DEF ReadStep, Write, ReadRun
  <2>. QED
    BY <2>2, RecordStands
<1>8. CASE Recheck
  <2>1. PICK f \in Fields : \E v : row' = [row EXCEPT ![f].offer = Offer(v, "read")]
    BY <1>8 DEF Recheck
  <2>2. \A g \in Fields : /\ row'[g].value = row[g].value /\ row'[g].source = row[g].source
                          /\ row'[g].checked = row[g].checked /\ row'[g].from = row[g].from
    BY <1>0, <2>1 DEF RowsOK, Rows
  <2>3. UNCHANGED <<runs, since>>
    BY <1>8 DEF Recheck
  <2>4. ASSUME since # 0 PROVE AllAsLeft(row', runs[since])
    BY <2>2, <2>4, StandsStill DEF LastStands
  <2>5. AllAsLeft(row, runs[since])' <=> AllAsLeft(row', runs[since])
    BY <2>3 DEF AllAsLeft, FieldAsLeft, EndAsLeft, AsLeft
  <2>. QED
    BY <2>3, <2>4, <2>5 DEF LastStands
<1>9. CASE Claim
  <2>1. PICK k \in 1..Len(runs) : runs' = [runs EXCEPT ![k].status = "claimed"]
    BY <1>9 DEF Claim
  <2>2. UNCHANGED <<row, since>> /\ Len(runs') = Len(runs)
    BY <1>0, <1>9, <2>1 DEF Claim
  <2>3. ASSUME since # 0 PROVE AllAsLeft(row, runs'[since])
    <3>1. since \in 1..Len(runs) /\ AllAsLeft(row, runs[since])
      BY <2>3 DEF LastStands
    <3>2. /\ runs'[since].kind = runs[since].kind /\ runs'[since].from = runs[since].from
          /\ runs'[since].changes = runs[since].changes /\ runs'[since].was = runs[since].was
      BY <1>0, <2>1, <3>1 DEF Runs
    <3>. QED
      BY <3>1, <3>2, StandsStill
  <2>4. AllAsLeft(row, runs[since])' <=> AllAsLeft(row, runs'[since])
    BY <2>2 DEF AllAsLeft, FieldAsLeft, EndAsLeft, AsLeft
  <2>. QED
    BY <2>2, <2>3, <2>4 DEF LastStands
<1>. QED
  BY <1>3, <1>4, <1>5, <1>6, <1>7, <1>8, <1>9 DEF Next

(* Nothing but its undo makes a claimed run undone.                          *)
LEMMA OnlyRestore ==
  ASSUME Inv, [Next]_vars, NEW k \in 1..Len(runs), runs[k].status = "claimed", runs'[k].status = "undone"
  PROVE  Restore(k)
<1>0. runs \in Seq(Runs) /\ runs[k] \in Runs
  BY DEF Inv, TypeOK
<1>1. runs' # runs
  OBVIOUS
<1>2. ~(\E new : runs' = Append(runs, new))
  BY <1>0
<1>3. ~(\E j \in 1..Len(runs) : runs' = [runs EXCEPT ![j].status = "claimed"])
  BY <1>0 DEF Runs
<1>4. ASSUME NEW j \in 1..Len(runs), Restore(j) PROVE j = k
  <2>1. runs' = [runs EXCEPT ![j].status = "undone"]
    BY <1>4 DEF Restore
  <2>. QED
    BY <1>0, <2>1 DEF Runs
<1>5. ASSUME NEW kind, NEW from, NEW S, NEW rows PROVE ~Record(kind, from, S, rows)
  BY <1>1, <1>2 DEF Record
<1>6. ~UNCHANGED vars /\ ~AskWrite /\ ~AskUndo /\ ~Recheck /\ ~RenewalRead /\ ~Renew
  BY <1>1 DEF vars, AskWrite, AskUndo, Recheck, RenewalRead, Renew
<1>7. ASSUME NEW p \in Persons
      PROVE  ~(SetValues(p) \/ Verify(p) \/ VerifyAll(p) \/ Reject(p) \/ Resolve(p) \/ AskRead(p))
  BY <1>1 DEF SetValues, Verify, VerifyAll, Reject, Resolve, PersonWrites, AskRead
<1>8. ~Extract /\ ~ExtractTracked
  BY <1>5, ReadingActs DEF Inv, ReadStep
<1>10. ASSUME NEW p \in Persons PROVE ~RollUp(p)
  <2>1. SUFFICES ASSUME RollUp(p) PROVE FALSE
    OBVIOUS
  <2>2. PICK a \in Amendments, S \in SUBSET Fields \ {{}} : \E v \in [S -> Values] :
          LET rows == [f \in Fields |-> IF f \in S THEN Amended(row[f], v[f], a, p) ELSE row[f]]
          IN  Write("person", S, rows) /\ Record("rollup", a, S, rows) /\ UNCHANGED <<asked, renewal>>
    BY <2>1 DEF RollUp
  <2>. QED
    BY <1>5, <2>2
<1>9. ~Claim
  BY <1>3 DEF Claim
<1>. QED
  BY <1>4, <1>6, <1>7, <1>8, <1>9, <1>10 DEF Next

(* A run undone before anything else is written gives back every value it    *)
(* found, but an end date it cleared (undoRun, restoreFieldValues and        *)
(* restoreAmendmentValues, with the commit that works the end date out).     *)
THEOREM RunAlwaysGivesBack == Spec => RunGivesBack
<1>1. Init => LastStands
  BY DEF Init, LastStands
<1>2. Inv /\ LastStands /\ [Next]_vars => LastStands'
  BY StandsStep
<1>3. Inv /\ LastStands /\ [Next]_vars =>
        [\A k \in 1..Len(runs) :
           since = k /\ runs[k].status = "claimed" /\ runs'[k].status = "undone" =>
             \A f \in Fields :
               \/ row'[f].value = runs[k].was[f]
               \/ f = End /\ runs[k].changes[f].made /\ runs[k].changes[f].after = None]_vars
  BY OnlyRestore, RestoreGives
<1>. QED
  BY <1>1, <1>2, <1>3, AlwaysInv, PTL DEF Spec, RunGivesBack
===============================================================================
