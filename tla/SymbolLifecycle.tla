-------------------------- MODULE SymbolLifecycle --------------------------
(***************************************************************************)
(* The life of an organization's symbol: drafting and organization review  *)
(* (organization_symbol_drafts.py, organization_symbol_review.py,          *)
(* organization_review_policy.py), promotion to the public catalog         *)
(* (promotion_requests.py, organization_promotion_handoff.py), demotion    *)
(* and operator withdrawal (symbol_demotion.py, symbol_withdraw.py), and   *)
(* the Symbol Set of another organization that may hold the symbol         *)
(* (symbol_set_service.py).                                                *)
(*                                                                         *)
(* A request is a READ COMMITTED transaction.  What its ORM session has    *)
(* loaded (seen) may be stale when it commits, and a column is written     *)
(* only when its new value differs from the loaded one.  Some requests     *)
(* lock rows first; the others only wait, when they commit, for the rows   *)
(* they write.  The constraints and triggers of the schema refuse a commit.*)
(* The settings are those of workflow v2.                                  *)
(***************************************************************************)
EXTENDS Integers, FiniteSets, Sequences

CONSTANTS
    Members,        \* organization admins who may also review
    Processes,      \* requests served at the same time
    Operations,     \* the operations requested in this instance
    InitialStates,  \* committed states the requests start from
    MaxRevisions, MaxSubmissions, MaxPromotions,    \* rows the instance has room for
    MaxRequests     \* bound on the requests of a behaviour

ASSUME LifecycleAssumption ==
    {MaxRevisions, MaxSubmissions, MaxPromotions, MaxRequests} \subseteq Nat

Revisions == 1..MaxRevisions
Submissions == 1..MaxSubmissions
Promotions == 1..MaxPromotions
None == 0
Verdicts == {"approved", "rejected", "changes_requested"}
Edits == {"details", "asset"}      \* what a revision's payload may hold

VARIABLES
    db,         \* the committed rows
    tx,         \* the request each process is serving, and how far it is
    requests    \* requests made so far

vars == <<db, tx, requests>>

-----------------------------------------------------------------------------
(* The committed rows.  foreign says that a Symbol Set of another          *)
(* organization has the symbol as an item.  A page stands for the          *)
(* published page, pack and pack entry of an accepted promotion request.   *)
Rows ==
    [symbol : [visibility : {"absent", "organization_private", "public"},
               current : Revisions \cup {None}, pending : Revisions \cup {None},
               organization_wide : BOOLEAN, catalog_symbol_id : BOOLEAN],
     revisions : [Revisions -> [state : {"none", "draft", "review", "approved",
                                         "rejected", "published", "withdrawn"},
                                payload : SUBSET Edits]],
     submissions : [Submissions -> [status : {"none", "active", "decided", "withdrawn"},
                                    revision : Revisions \cup {None},
                                    by : Members \cup {None},
                                    decision : Verdicts \cup {"none"},
                                    decided_by : Members \cup {None}]],
     promotions : [Promotions -> [status : {"none", "submitted", "triage", "accepted",
                                            "withdrawn"},
                                  revision : Revisions \cup {None},
                                  page : {"none", "active", "retired"},
                                  credit : {"none", "awarded", "reversed"}]],
     policy : {"unset", "self_approval", "independent"},
     foreign : BOOLEAN]

Private(d) == d.symbol.visibility = "organization_private"
State(d, v) == IF v = None THEN "none" ELSE d.revisions[v].state
InPlay(d) == {d.symbol.current, d.symbol.pending} \ {None}
ApprovedDecision(d, v) ==
    \E s \in Submissions : /\ d.submissions[s].revision = v
                           /\ d.submissions[s].decision = "approved"
                           /\ d.submissions[s].status \in {"decided", "withdrawn"}
Open(q) == q.status \in {"submitted", "triage"}
OpenPromotions(d) == {q \in Promotions : Open(d.promotions[q])}
\* The eligibility query of the public catalog.
Shown(d) ==
    /\ d.symbol.visibility = "public"
    /\ State(d, d.symbol.current) = "published"
    /\ \E q \in Promotions : /\ d.promotions[q].page = "active"
                             /\ d.promotions[q].revision = d.symbol.current

-----------------------------------------------------------------------------
(* Constraints and deferred triggers: what a commit must leave true.       *)
LibraryEligible(d) ==
    d.symbol.organization_wide => ApprovedDecision(d, d.symbol.current)
PendingRevisionScope(d) ==
    d.symbol.pending # None => Private(d) /\ d.symbol.pending # d.symbol.current
CatalogPublicationInvariant(d) ==
    /\ d.symbol.catalog_symbol_id => d.symbol.visibility = "public"
    /\ \/ d.symbol.catalog_symbol_id
       \/ /\ \A v \in Revisions : State(d, v) # "published"
          /\ \A q \in Promotions : d.promotions[q].page # "active"
OneActiveSubmission(d) ==
    \A v \in Revisions : Cardinality({s \in Submissions :
        d.submissions[s].status = "active" /\ d.submissions[s].revision = v}) <= 1
OneActivePromotion(d) == Cardinality(OpenPromotions(d)) <= 1
ConstraintsHold(d) ==
    /\ LibraryEligible(d) /\ PendingRevisionScope(d) /\ CatalogPublicationInvariant(d)
    /\ OneActiveSubmission(d) /\ OneActivePromotion(d)
\* Mutant: the trigger is dropped.
AnySubmissionCloses(d, r) == TRUE
\* The trigger that keeps submission history: only an active one may close.
SubmissionCloses(d, r) == d.submissions[r.on].status = "active"

-----------------------------------------------------------------------------
(* What the committed rows obey.                                           *)
VerdictsDecided(d) ==
    \A s \in Submissions :
        (d.submissions[s].decision # "none") <=> (d.submissions[s].status = "decided")
ForeignPublic(d) == d.foreign => d.symbol.visibility = "public"
Credited(d) == {q \in Promotions : d.promotions[q].credit = "awarded"}
CreditShown(d) ==
    /\ \A q1, q2 \in Credited(d) : q1 = q2
    /\ \A q \in Credited(d) : d.promotions[q].page = "active" /\ d.symbol.visibility = "public"
OfferedApproved(d) ==
    \A q \in Promotions :
        d.promotions[q].status # "none" => ApprovedDecision(d, d.promotions[q].revision)
Consistent(d) ==
    d \in Rows /\ VerdictsDecided(d) /\ ForeignPublic(d) /\ CreditShown(d) /\ OfferedApproved(d)

\* The requests start from rows that earlier ones may have left.
ASSUME InitialStatesAssumption == \A d \in InitialStates : Consistent(d)

-----------------------------------------------------------------------------
(* The rows a request locks, in order.  A decision locks the policy row in *)
(* share mode and its own submission row when it is flushed.               *)
SymbolRow == <<"symbol", 1>>
PolicyRow == <<"policy", 1>>
SetRow == <<"set", 1>>             \* the Symbol Set whose items are replaced
SubmissionRow(r) == <<"submission", r.on>>
PromotionRow(r) == <<"promotion", r.on>>

DecisionLocks(r) == <<PolicyRow, SubmissionRow(r)>>
\* Mutant: the symbol is locked too, in the other order.
SymbolLockedFirst(r) == <<SymbolRow, SubmissionRow(r)>>
WithdrawalLocks(r) == <<SubmissionRow(r)>>
PromotionLocks(r) == <<PromotionRow(r)>>
HandoffLocks(r) == <<PromotionRow(r), SymbolRow>>
SymbolLock == <<SymbolRow>>
\* Mutant: the symbols of the items are not locked.
OnlyTheSetLocked == <<SetRow>>
SetItemsLocks == <<SetRow, SymbolRow>>
Plan(r) ==
    CASE r.op = "decide_submission" -> DecisionLocks(r)
      [] r.op = "withdraw_submission" -> WithdrawalLocks(r)
      [] r.op = "set_review_policy" -> <<PolicyRow>>
      [] r.op \in {"withdraw_promotion_request", "open_promotion_review_case"} ->
            PromotionLocks(r)
      [] r.op = "execute_organization_promotion_handoff" -> HandoffLocks(r)
      [] r.op = "replace_items" -> SetItemsLocks
      [] r.op \in {"discard_pending_revision", "submit_promotion_request",
                   "execute_demotion", "apply_withdrawal"} -> SymbolLock
      [] OTHER -> << >>
\* The symbol row is updated, or referred to by a new row, when these commit.
TouchesSymbol(r) ==
    r.op \notin {"attach_asset", "set_review_policy", "withdraw_promotion_request",
                 "open_promotion_review_case"}

-----------------------------------------------------------------------------
(* The checks a request makes before it holds any lock.                    *)
Editable(d, r) ==
    Private(d) /\ r.on \in InPlay(d) /\ State(d, r.on) = "draft"
MayStartRevision(d) ==
    /\ Private(d) /\ d.symbol.pending = None
    /\ State(d, d.symbol.current) \in {"none", "approved", "draft", "withdrawn", "rejected"}
    /\ State(d, d.symbol.current) = "approved" => OpenPromotions(d) = {}
ReadCheck(d, r) ==
    CASE r.op = "create_draft" -> d.symbol.visibility = "absent"
      [] r.op \in {"update_draft", "attach_asset", "submit_for_review"} -> Editable(d, r)
      [] r.op = "remove_asset" -> Editable(d, r) /\ "asset" \in d.revisions[r.on].payload
      [] r.op = "create_new_draft_revision" -> MayStartRevision(d)
      [] r.op = "set_organization_wide" -> Private(d)
      [] r.op = "decide_submission" -> d.submissions[r.on].status = "active"
      [] r.op = "withdraw_submission" -> Private(d)
      [] OTHER -> d.symbol.visibility # "absent"

(* The checks it makes once it holds a lock.                               *)
MayDecide(d, r) == \/ d.submissions[r.on].by # r.by
                   \/ d.policy \in {"unset", "self_approval"}
MayWithdraw(d, r) == d.submissions[r.on].by = r.by /\ SubmissionCloses(d, r)
MayDiscard(d) ==
    Private(d) /\ d.symbol.pending # None /\ State(d, d.symbol.pending) = "draft"
MayPromote(d) ==
    /\ Private(d) /\ d.symbol.current # None /\ d.symbol.pending = None
    /\ ApprovedDecision(d, d.symbol.current)
UnderReview(d, r) == d.promotions[r.on].status = "triage"
\* Mutant: the revision asked for is published, whatever the symbol now shows.
StillPrivate(d, r) == Private(d)
StillCurrent(d, r) == Private(d) /\ d.symbol.current = d.promotions[r.on].revision
MayDemote(d) == d.symbol.visibility = "public" /\ ~d.foreign
MayHold(d, r) == r.arg = "add" => d.foreign \/ Shown(d)
LockCheck(d, r, lock) ==
    CASE r.op = "decide_submission" ->
            IF lock = PolicyRow THEN MayDecide(d, r) ELSE SubmissionCloses(d, r)
      [] r.op = "withdraw_submission" -> MayWithdraw(d, r)
      [] r.op = "discard_pending_revision" -> MayDiscard(d)
      [] r.op = "submit_promotion_request" -> MayPromote(d)
      [] r.op = "withdraw_promotion_request" -> Open(d.promotions[r.on])
      [] r.op = "open_promotion_review_case" -> d.promotions[r.on].status = "submitted"
      [] r.op = "execute_organization_promotion_handoff" ->
            IF lock = SymbolRow THEN StillCurrent(d, r) ELSE UnderReview(d, r)
      [] r.op = "execute_demotion" -> MayDemote(d)
      [] r.op = "replace_items" -> lock = SetItemsLocks[Len(SetItemsLocks)] => MayHold(d, r)
      [] OTHER -> TRUE

-----------------------------------------------------------------------------
(* What a request has loaded, and what it writes when it commits.          *)
Target(d, r) ==
    CASE r.op \in {"update_draft", "attach_asset", "remove_asset", "submit_for_review"} -> r.on
      [] r.op \in {"decide_submission", "withdraw_submission"} -> d.submissions[r.on].revision
      [] r.op = "discard_pending_revision" -> d.symbol.pending
      [] OTHER -> d.symbol.current
NoRevision == [state |-> "none", payload |-> {}]
Snapshot(d, r) ==
    [symbol |-> d.symbol, target |-> Target(d, r),
     revision |-> IF Target(d, r) = None THEN NoRevision ELSE d.revisions[Target(d, r)]]

OneOf(free) == IF free = {} THEN None ELSE CHOOSE i \in free : TRUE
NewRevision(d) == OneOf({v \in Revisions : State(d, v) = "none"})
NewSubmission(d) == OneOf({s \in Submissions : d.submissions[s].status = "none"})
NewPromotion(d) == OneOf({q \in Promotions : d.promotions[q].status = "none"})
\* Bound on the rows of the instance, which has one symbol: every create_draft
\* makes a symbol of its own.
RoomFor(d, r) ==
    /\ r.op = "create_draft" => d.symbol.visibility = "absent"
    /\ r.op \in {"create_draft", "create_new_draft_revision"} => NewRevision(d) # None
    /\ r.op = "submit_for_review" => NewSubmission(d) # None
    /\ r.op = "submit_promotion_request" => NewPromotion(d) # None

\* A column is in the UPDATE only if the new value differs from the loaded one.
Put(now, loaded, new) == IF loaded = new THEN now ELSE new
StatePut(d, s, new) == Put(d.revisions[s.target].state, s.revision.state, new)
PayloadPut(d, s, new) == Put(d.revisions[s.target].payload, s.revision.payload, new)

DraftCreated(d) ==
    [d EXCEPT !.symbol = [visibility |-> "organization_private", current |-> NewRevision(d),
                          pending |-> None, organization_wide |-> FALSE,
                          catalog_symbol_id |-> FALSE],
              !.revisions[NewRevision(d)] = [state |-> "draft", payload |-> {}]]
DetailsUpdated(d, s, r) ==
    [d EXCEPT !.revisions[r.on].payload = PayloadPut(d, s, s.revision.payload \cup {"details"})]
AssetAttached(d, s, r) ==
    [d EXCEPT !.revisions[r.on].payload = PayloadPut(d, s, s.revision.payload \cup {"asset"})]
AssetRemoved(d, s, r) ==
    [d EXCEPT !.revisions[r.on].payload = PayloadPut(d, s, s.revision.payload \ {"asset"})]
Submitted(d, s, r) ==
    [d EXCEPT !.submissions[NewSubmission(d)] =
                  [status |-> "active", revision |-> r.on, by |-> r.by,
                   decision |-> "none", decided_by |-> None],
              !.revisions[r.on].state = StatePut(d, s, "review")]
SubmissionWithdrawn(d, s, r) ==
    [d EXCEPT !.submissions[r.on].status = "withdrawn",
              !.revisions[s.target].state = IF s.revision.state = "review" THEN "draft" ELSE @]

\* Mutant: the verdict is stored as the revision's state.
VerdictItself(verdict) == verdict
VerdictState(verdict) == IF verdict = "changes_requested" THEN "draft" ELSE verdict
SymbolAfterDecision(d, s, verdict) ==
    LET is_pending == s.symbol.pending = s.target
    IN  CASE verdict = "approved" /\ is_pending ->
                [d.symbol EXCEPT !.current = s.target, !.pending = None]
          [] verdict = "approved" /\ ~is_pending ->
                [d.symbol EXCEPT !.organization_wide = Put(@, s.symbol.organization_wide, TRUE)]
          [] verdict = "rejected" /\ is_pending -> [d.symbol EXCEPT !.pending = None]
          [] OTHER -> d.symbol
Decided(d, s, r) ==
    [d EXCEPT !.submissions[r.on].status = "decided",
              !.submissions[r.on].decision = r.arg,
              !.submissions[r.on].decided_by = r.by,
              !.revisions[s.target].state = StatePut(d, s, VerdictState(r.arg)),
              !.symbol = SymbolAfterDecision(d, s, r.arg)]

SymbolAfterStart(d, s, fresh) ==
    IF s.revision.state = "approved"
    THEN [d.symbol EXCEPT !.pending = fresh]
    ELSE [d.symbol EXCEPT !.current = fresh,
                          !.organization_wide = Put(@, s.symbol.organization_wide, FALSE)]
RevisionStarted(d, s) ==
    LET fresh == NewRevision(d)
    IN  [d EXCEPT !.revisions[fresh] = [state |-> "draft", payload |-> s.revision.payload],
                  !.symbol = SymbolAfterStart(d, s, fresh)]
PendingDiscarded(d, s) ==
    [d EXCEPT !.revisions[s.target].state = StatePut(d, s, "withdrawn"), !.symbol.pending = None]
LibrarySet(d, s, r) ==
    [d EXCEPT !.symbol.organization_wide = Put(@, s.symbol.organization_wide,
                                                 r.arg = "enabled")]
PromotionSubmitted(d) ==
    [d EXCEPT !.promotions[NewPromotion(d)] =
                  [status |-> "submitted", revision |-> d.symbol.current,
                   page |-> "none", credit |-> "none"]]
Promoted(d, s, r) ==
    [d EXCEPT !.revisions[d.promotions[r.on].revision].state = "published",
              !.symbol.visibility = "public", !.symbol.catalog_symbol_id = TRUE,
              !.promotions[r.on].status = "accepted",
              !.promotions[r.on].page = "active", !.promotions[r.on].credit = "awarded"]

RevisionsWithdrawn(d, states) ==
    [v \in Revisions |-> IF State(d, v) \in states
                         THEN [d.revisions[v] EXCEPT !.state = "withdrawn"] ELSE d.revisions[v]]
\* The pages of the withdrawn revisions are retired; every award is reversed.
\* Mutant: awards survive a demotion.
CreditKept(credit) == credit
CreditReversed(credit) == IF credit = "awarded" THEN "reversed" ELSE credit
PromotionsRetired(d, states) ==
    [q \in Promotions |->
        [d.promotions[q] EXCEPT
            !.page = IF @ = "active" /\ State(d, d.promotions[q].revision) \in states
                     THEN "retired" ELSE @,
            !.credit = CreditReversed(@)]]
Demoted(d) ==
    [d EXCEPT !.revisions = RevisionsWithdrawn(d, {"published"}),
              !.promotions = PromotionsRetired(d, {"published"}),
              !.symbol.visibility = "organization_private", !.symbol.catalog_symbol_id = FALSE]
WithdrawableStates == {"draft", "review", "approved", "published"}
Withdrawn(d) ==
    [d EXCEPT !.revisions = RevisionsWithdrawn(d, WithdrawableStates),
              !.promotions = PromotionsRetired(d, WithdrawableStates)]

Outcome(d, s, r) ==
    CASE r.op = "create_draft" -> DraftCreated(d)
      [] r.op = "update_draft" -> DetailsUpdated(d, s, r)
      [] r.op = "attach_asset" -> AssetAttached(d, s, r)
      [] r.op = "remove_asset" -> AssetRemoved(d, s, r)
      [] r.op = "submit_for_review" -> Submitted(d, s, r)
      [] r.op = "withdraw_submission" -> SubmissionWithdrawn(d, s, r)
      [] r.op = "decide_submission" -> Decided(d, s, r)
      [] r.op = "create_new_draft_revision" -> RevisionStarted(d, s)
      [] r.op = "discard_pending_revision" -> PendingDiscarded(d, s)
      [] r.op = "set_organization_wide" -> LibrarySet(d, s, r)
      [] r.op = "set_review_policy" -> [d EXCEPT !.policy = r.arg]
      [] r.op = "submit_promotion_request" -> PromotionSubmitted(d)
      [] r.op = "withdraw_promotion_request" -> [d EXCEPT !.promotions[r.on].status = "withdrawn"]
      [] r.op = "open_promotion_review_case" -> [d EXCEPT !.promotions[r.on].status = "triage"]
      [] r.op = "execute_organization_promotion_handoff" -> Promoted(d, s, r)
      [] r.op = "execute_demotion" -> Demoted(d)
      [] r.op = "apply_withdrawal" -> Withdrawn(d)
      [] r.op = "replace_items" -> [d EXCEPT !.foreign = (r.arg = "add")]

-----------------------------------------------------------------------------
(* The requests that may be made of the rows as they are.                  *)
Made(op, ons, bys, args) ==
    IF op \in Operations
    THEN {[op |-> op, on |-> o, by |-> b, arg |-> a] : o \in ons, b \in bys, a \in args}
    ELSE {}
Plain(op) == Made(op, {None}, {None}, {"none"})
Requestable(d) ==
    LET active == {s \in Submissions : d.submissions[s].status = "active"}
        held == {v \in Revisions : State(d, v) # "none"}
    IN  (UNION {Plain(op) : op \in {"create_draft", "create_new_draft_revision",
                                    "discard_pending_revision", "submit_promotion_request",
                                    "execute_demotion", "apply_withdrawal"}})
        \cup (UNION {Made(op, held, {None}, {"none"}) :
                         op \in {"update_draft", "attach_asset", "remove_asset"}})
        \cup Made("submit_for_review", held, Members, {"none"})
        \cup Made("withdraw_submission", active, Members, {"none"})
        \cup Made("decide_submission", active, Members, Verdicts)
        \cup Made("set_organization_wide", {None}, {None}, {"enabled", "disabled"})
        \cup Made("set_review_policy", {None}, {None}, {"self_approval", "independent"})
        \cup Made("replace_items", {None}, {None}, {"add", "remove"})
        \cup (UNION {Made(op, OpenPromotions(d), {None}, {"none"}) :
                         op \in {"withdraw_promotion_request", "open_promotion_review_case",
                                 "execute_organization_promotion_handoff"}})

-----------------------------------------------------------------------------
\* policy is what the request found in the policy's row when it came to it.
Idle == [op |-> "idle"]
Free == [request |-> Idle, taken |-> 0, locks |-> {}, seen |-> Idle, policy |-> "unread"]
Busy(p) == tx[p].request # Idle

\* Two decisions share the policy row; every other lock is exclusive.
Excluded(p, lock) ==
    \E p2 \in Processes \ {p} :
        /\ lock \in tx[p2].locks
        /\ ~(/\ lock = PolicyRow
             /\ tx[p].request.op = "decide_submission"
             /\ tx[p2].request.op = "decide_submission")
\* Mutant: the policy is read without FOR SHARE.
PolicyNotLocked(d, lock) == IF lock = PolicyRow THEN {} ELSE {lock}
\* SELECT ... FOR SHARE locks nothing when the organization has no policy row.
LockTaken(d, lock) == IF lock = PolicyRow /\ d.policy = "unset" THEN {} ELSE {lock}

Init ==
    /\ db \in InitialStates
    /\ tx = [p \in Processes |-> Free]
    /\ requests = 0

Request(p) ==
    /\ ~Busy(p)
    /\ requests < MaxRequests
    /\ requests' = requests + 1
    /\ \E r \in Requestable(db) :
        /\ ReadCheck(db, r) /\ RoomFor(db, r)
        /\ tx' = [tx EXCEPT ![p] = [request |-> r, taken |-> 0, locks |-> {},
                                    seen |-> Snapshot(db, r), policy |-> "unread"]]
    /\ UNCHANGED db

NextLock(p) == Plan(tx[p].request)[tx[p].taken + 1]
Locking(p) == Busy(p) /\ tx[p].taken < Len(Plan(tx[p].request))

\* Without a row the defaults apply, and there is nothing to lock.
PolicyRead(d, lock, before) == IF lock = PolicyRow THEN d.policy ELSE before

Acquire(p) ==
    /\ Locking(p)
    /\ ~Excluded(p, NextLock(p))
    /\ LET r == tx[p].request
       IN  IF LockCheck(db, r, NextLock(p))
           THEN tx' = [tx EXCEPT ![p].taken = @ + 1,
                                 ![p].locks = @ \cup LockTaken(db, NextLock(p)),
                                 ![p].seen = Snapshot(db, r),
                                 ![p].policy = PolicyRead(db, NextLock(p), @)]
           ELSE tx' = [tx EXCEPT ![p] = Free]
    /\ UNCHANGED <<db, requests>>

Ready(p) == Busy(p) /\ tx[p].taken = Len(Plan(tx[p].request))
Unhindered(p) == TouchesSymbol(tx[p].request) => ~Excluded(p, SymbolRow)

\* Of two requests that set an organization's first policy, the primary key
\* lets one insert its row.
PolicyKeyFree(d, t) ==
    t.request.op = "set_review_policy" /\ t.policy = "unset" => d.policy = "unset"

Commit(p) ==
    /\ Ready(p) /\ Unhindered(p)
    /\ LET r == tx[p].request
           after == IF RoomFor(db, r) /\ PolicyKeyFree(db, tx[p])
                    THEN Outcome(db, tx[p].seen, r) ELSE db
       IN  db' = IF ConstraintsHold(after) THEN after ELSE db
    /\ tx' = [tx EXCEPT ![p] = Free]
    /\ UNCHANGED requests

\* The request fails: a lost connection, a crash, a refusal by the publication
\* gate.  The transaction rolls back.
Abort(p) ==
    /\ Busy(p)
    /\ tx' = [tx EXCEPT ![p] = Free]
    /\ UNCHANGED <<db, requests>>

Next == \E p \in Processes : Request(p) \/ Acquire(p) \/ Commit(p) \/ Abort(p)

Spec == Init /\ [][Next]_vars

-----------------------------------------------------------------------------
TypeOK ==
    /\ db \in Rows
    /\ requests \in 0..MaxRequests
    /\ \A p \in Processes :
        Busy(p) => /\ tx[p].request.op \in Operations
                   /\ tx[p].taken \in 0..Len(Plan(tx[p].request))
                   /\ tx[p].locks \subseteq {Plan(tx[p].request)[i] : i \in 1..tx[p].taken}

\* A submission is decided or withdrawn, never both: the reviewer who read it
\* as active and the submitter who takes it back cannot both succeed.
WithdrawnUndecided == VerdictsDecided(db)

\* The first verdict on a submission is the only one, whoever else was deciding it.
VerdictStands ==
    [][\A s \in Submissions :
        db.submissions[s].decision # "none" => db'.submissions[s] = db.submissions[s]]_vars

\* A decision is made by the submitter of what it decides.
OwnDecision(p) ==
    LET r == tx[p].request
    IN  /\ r.op = "decide_submission"
        /\ r.by = db.submissions[r.on].by
        /\ Commit(p)
        /\ db.submissions[r.on].decision = "none"
        /\ db'.submissions[r.on].decision # "none"

\* A submitter whose authority was checked against a policy row never decides their
\* own submission once that policy asks for another reviewer: the row is locked in
\* share mode from the check to the commit.  A request that found no row, the
\* default, has locked nothing, and the first policy may come in between.
SelfApprovalObeysPolicy ==
    [][\A p \in Processes :
        OwnDecision(p) /\ tx[p].policy # "unset" => db.policy # "independent"]_vars

\* A promotion publishes the revision the symbol then shows, and one its
\* organization approved: an acceptance never republishes a revision that a newer
\* one has replaced since the request was submitted.
PublishesCurrentRevision ==
    [][\A v \in Revisions :
        State(db, v) # "published" /\ State(db', v) = "published"
        => db'.symbol.current = v /\ ApprovedDecision(db', v)]_vars

\* A symbol in another organization's Symbol Set is public: adding the item and
\* demoting the symbol cannot both succeed.
ForeignSetsHoldPublic == ForeignPublic(db)

\* An organization keeps credit for at most one contribution of a symbol, and only
\* while the page it earned is active, through demotion, withdrawal and promotion again.
CreditOnlyWhileShown ==
    /\ Cardinality(Credited(db)) <= 1
    /\ \A q \in Credited(db) : db.promotions[q].page = "active"

\* No set of requests waits for one another's rows: some request can go on.
CanGoOn(p) == \/ Locking(p) /\ ~Excluded(p, NextLock(p))
              \/ Ready(p) /\ Unhindered(p)
NotAllBlocked ==
    LET busy == {p \in Processes : Busy(p)}
    IN  busy # {} => \E p \in busy : CanGoOn(p)

\* A revision whose page was retired is not shown again: promotion after a
\* demotion or a withdrawal needs a newly approved revision.
RetiredRevisionNotShown ==
    \A q1, q2 \in Promotions :
        db.promotions[q1].page = "retired" /\ db.promotions[q2].page = "active"
        => db.promotions[q1].revision # db.promotions[q2].revision

=============================================================================
