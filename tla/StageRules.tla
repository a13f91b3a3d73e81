----------------------------- MODULE StageRules -----------------------------
(***************************************************************************)
(* The pure rules of a contract's stage and state: which points            *)
(* there are, which point may follow which and by what kind of move, and   *)
(* what a person may do by hand (packages/types/src/lifecycle.ts and       *)
(* apps/api/src/lib/contract-status.ts).  No state: the other modules      *)
(* extend this one.  The wording of a refusal is left out: a rule is a     *)
(* Boolean, TRUE where the code returns null.  Left out too: the turn,     *)
(* which no caller names, so that it is always turnFor of the point.       *)
(***************************************************************************)

Stages == {"request", "draft", "negotiate", "approve", "sign", "active", "closed"}

(* The states each stage can be in. *)
StageStates ==
  [request   |-> {"submitted", "in_triage", "more_info", "declined"},
   draft     |-> {"drafting", "ready", "returned"},
   negotiate |-> {"with_us", "with_counterparty", "returned"},
   approve   |-> {"pending", "approved", "declined"},
   sign      |-> {"out_for_signature", "declined", "voided"},
   active    |-> {"active", "expiring", "auto_renewed", "renewing"},
   closed    |-> {"expired", "terminated", "superseded", "cancelled", "archived"}]

Point(stage, state) == [stage |-> stage, state |-> state]

(* StagePoint: a stage and one of its states. *)
Points == UNION {{Point(s, x) : x \in StageStates[s]} : s \in Stages}

PointsOf(stages) == {p \in Points : p.stage \in stages}

(* The points the flows name most. *)
Pending   == Point("approve", "pending")
Approved  == Point("approve", "approved")
Declined  == Point("approve", "declined")
Active    == Point("active", "active")
Cancelled == Point("closed", "cancelled")
Expired   == Point("closed", "expired")
Archived  == Point("closed", "archived")

(* stageForStatus: the points a legacy status names, which is how an import   *)
(* gets its first point and the assistant names where to move to.            *)
StatusPoints ==
  {Point("draft", "drafting"), Point("draft", "ready"), Point("draft", "returned"),
   Point("negotiate", "with_us"), Pending, Approved, Point("sign", "out_for_signature"),
   Active, Expired, Point("closed", "terminated"), Archived}

(* A contract starts in triage when a request is accepted, or where the      *)
(* status it is created or imported with puts it: the approval's and the     *)
(* signature's statuses are refused there.                                   *)
FirstPoints ==
  {Point("request", "in_triage")}
    \union {p \in StatusPoints : p.stage \notin {"approve", "sign"}}

Sources == {"manual", "approval", "signature", "counterparty", "send", "edit", "agent",
            "revert", "cancel", "undo_cancel", "dates", "import", "undo", "system"}

(* TRANSITIONS: the sources that may take a contract from one stage to another. *)
Via ==
  [request   |-> [draft |-> {"import", "manual", "system"}, closed |-> {"cancel"}],
   draft     |-> [negotiate |-> {"send", "counterparty", "manual", "agent"},
                  approve |-> {"approval"}, sign |-> {"signature"}, closed |-> {"cancel"}],
   negotiate |-> [draft |-> {"manual", "agent", "revert"},
                  approve |-> {"approval"}, sign |-> {"signature"}, closed |-> {"cancel"}],
   approve   |-> [draft |-> {"approval", "revert", "edit", "counterparty"},
                  negotiate |-> {"approval", "revert", "counterparty", "edit"},
                  sign |-> {"signature"}, active |-> {"manual", "agent", "signature"},
                  closed |-> {"cancel"}],
   sign      |-> [approve |-> {"revert"}, negotiate |-> {"revert", "counterparty"},
                  draft |-> {"revert"}, active |-> {"signature", "manual"},
                  closed |-> {"cancel"}],
   active    |-> [closed |-> {"dates", "manual", "agent", "system"}],
   closed    |-> [request |-> {"undo_cancel"}, draft |-> {"undo_cancel"},
                  negotiate |-> {"undo_cancel"}, approve |-> {"undo_cancel"},
                  sign |-> {"undo_cancel"}, active |-> {"dates", "undo_cancel"}]]

(* The moves that go backwards: a reason is required of a person. *)
Back == {<<"negotiate", "draft">>, <<"approve", "draft">>, <<"approve", "negotiate">>,
         <<"sign", "approve">>, <<"sign", "negotiate">>, <<"sign", "draft">>}

Cancellable == {"request", "draft", "negotiate", "approve", "sign"}

(* A move between two stages that no special case settles: the table. *)
TableAllows(from, to, source, reason) ==
  /\ to.stage \in DOMAIN Via[from.stage]
  /\ source \in Via[from.stage][to.stage]
  /\ <<from.stage, to.stage>> \in Back
       => (reason \/ source \in {"counterparty", "edit", "approval"})

(* A stage and one of its own states; the slip that asks for a stage only. *)
StageOnly(p) == p.stage \in Stages
Belongs(p) == p \in Points

(* A declined approval means "do not proceed": nothing takes the contract    *)
(* from there to signature or into force; the slip that lets it.             *)
NeverBarred(from, to) == FALSE
Barred(from, to) == from = Declined /\ to.stage \in {"sign", "active"}

(* Of the closed contracts only an expired one leaves Closed, a cancelled    *)
(* one apart; the slip that lets any other.                                  *)
AnyReopens(from) == TRUE
MayReopen(from) == from.stage = "closed" => from = Expired

(* transitionRefusal = null.  Each disjunct is one of its early returns, with *)
(* the ones before it ruled out; a stage and state that do not belong        *)
(* together are refused first.                                               *)
Permitted(from, to, source, reason, isAdmin) ==
  /\ Belongs(to)
  /\ \/ source = "undo"
     \/ to = Cancelled /\ from.stage \in Cancellable /\ reason
     \/ /\ from = Cancelled /\ to.stage # "closed"
        /\ source = "undo_cancel" /\ isAdmin /\ reason
     \/ /\ to # Cancelled /\ from.stage = to.stage
        /\ from.stage = "closed" => (from = to \/ (from = Expired /\ to = Archived))
     \/ /\ Cancelled \notin {from, to} /\ from.stage # to.stage
        /\ MayReopen(from) /\ ~Barred(from, to)
        /\ TableAllows(from, to, source, reason)

(* The changes of state a person may make within a stage. *)
ManualWithin(from, to) ==
  \/ from.stage = "draft" /\ to.state \in {"drafting", "ready"}
  \/ from.stage = "negotiate" /\ to.state \in {"with_us", "with_counterparty"}
  \/ from = Expired /\ to = Archived
  \/ from.stage = "active" /\ to.state \in {"active", "expiring"}

(* The source a move by hand is recorded with. *)
ManualSource(from, to, hand) ==
  CASE to = Cancelled   -> "cancel"
    [] to # Cancelled /\ from = Cancelled -> "undo_cancel"
    [] OTHER            -> hand

(* manualRefusal = null, for a person ("manual") or the assistant ("agent"). *)
ManualPermitted(from, to, hand, reason) ==
  /\ from = Pending => to \in {Cancelled, from}
  /\ to.state # "returned"
  /\ to.stage = "approve" => from = to
  /\ to.stage = "sign" => from.stage = "sign"
  /\ \/ from = to
     \/ /\ from.stage = to.stage => ManualWithin(from, to)
        /\ Permitted(from, to, ManualSource(from, to, hand), reason, FALSE)

=============================================================================
