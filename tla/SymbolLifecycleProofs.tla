----------------------- MODULE SymbolLifecycleProofs -----------------------
(***************************************************************************)
(* What TLAPS proves of SymbolLifecycle.                                   *)
(*                                                                         *)
(* Moves(d, e, L, alone) says what a request that holds the row locks L    *)
(* may change of the rows d; every operation's outcome is such a move.     *)
(* Serves(d, t) says what a request in progress has established by the     *)
(* checks it made under its locks.  A move made under other locks keeps    *)
(* it, because no lock but the policy's is ever shared (LocksApart).       *)
(* Together with the consistency of the rows that is the inductive         *)
(* invariant IInv.                                                         *)
(***************************************************************************)
EXTENDS SymbolLifecycle, FiniteSetTheorems, TLAPS

-----------------------------------------------------------------------------
(* The tables of the committed rows.                                       *)
SymbolState ==
    [visibility : {"absent", "organization_private", "public"},
     current : Revisions \cup {None}, pending : Revisions \cup {None},
     organization_wide : BOOLEAN, catalog_symbol_id : BOOLEAN]
RevisionState ==
    [state : {"none", "draft", "review", "approved", "rejected", "published", "withdrawn"},
     payload : SUBSET Edits]
RevisionRows == [Revisions -> RevisionState]
SubmissionState ==
    [status : {"none", "active", "decided", "withdrawn"}, revision : Revisions \cup {None},
     by : Members \cup {None}, decision : Verdicts \cup {"none"},
     decided_by : Members \cup {None}]
SubmissionRows == [Submissions -> SubmissionState]
PromotionState ==
    [status : {"none", "submitted", "triage", "accepted", "withdrawn"},
     revision : Revisions \cup {None}, page : {"none", "active", "retired"},
     credit : {"none", "awarded", "reversed"}]
PromotionRows == [Promotions -> PromotionState]
Policies == {"unset", "self_approval", "independent"}

\* Rows is the record of the tables.
LEMMA RowsAreTables ==
    Rows = [symbol : SymbolState, revisions : RevisionRows, submissions : SubmissionRows,
            promotions : PromotionRows, policy : Policies, foreign : BOOLEAN]
BY DEF Rows, SymbolState, RevisionState, RevisionRows, SubmissionState, SubmissionRows,
       PromotionState, PromotionRows, Policies

\* Ids are numbers, and None is not the id of a row.
LEMMA IdsAreNumbers ==
    /\ Revisions \subseteq Nat /\ None \notin Revisions
    /\ Submissions \subseteq Nat /\ None \notin Submissions
    /\ Promotions \subseteq Nat /\ None \notin Promotions
BY LifecycleAssumption DEF Revisions, Submissions, Promotions, None

\* A free row is free.
LEMMA OneOfFree ==
    ASSUME NEW free, OneOf(free) # None
    PROVE  OneOf(free) \in free
BY DEF OneOf

\* New rows are rows that were free.
LEMMA FreshRows ==
    ASSUME NEW d
    PROVE  /\ NewRevision(d) # None =>
                NewRevision(d) \in Revisions /\ d.revisions[NewRevision(d)].state = "none"
           /\ NewSubmission(d) # None =>
                /\ NewSubmission(d) \in Submissions
                /\ d.submissions[NewSubmission(d)].status = "none"
           /\ NewPromotion(d) # None =>
                NewPromotion(d) \in Promotions /\ d.promotions[NewPromotion(d)].status = "none"
<1>1. NewRevision(d) # None => NewRevision(d) \in {v \in Revisions : State(d, v) = "none"}
  BY OneOfFree DEF NewRevision
<1>2. NewSubmission(d) # None =>
        NewSubmission(d) \in {s \in Submissions : d.submissions[s].status = "none"}
  BY OneOfFree DEF NewSubmission
<1>3. NewPromotion(d) # None =>
        NewPromotion(d) \in {q \in Promotions : d.promotions[q].status = "none"}
  BY OneOfFree DEF NewPromotion
<1>4. \A v \in Revisions : State(d, v) = d.revisions[v].state
  BY IdsAreNumbers DEF State
<1> QED
  BY <1>1, <1>2, <1>3, <1>4

-----------------------------------------------------------------------------
(* What a commit of a request that holds the row locks L may do to the     *)
(* rows.  alone: no other request holds the symbol's row.                  *)
SubmissionsKept(d, e, L) ==
    \A s \in Submissions :
        d.submissions[s].status # "none" =>
            /\ e.submissions[s].status # "none" /\ e.submissions[s].by = d.submissions[s].by
            /\ <<"submission", s>> \in L \/ e.submissions[s] = d.submissions[s]
VerdictsKept(d, e) ==
    \A s \in Submissions :
        d.submissions[s].decision # "none" => e.submissions[s] = d.submissions[s]
SubmissionsMove(d, e, L) == VerdictsDecided(e) /\ SubmissionsKept(d, e, L) /\ VerdictsKept(d, e)
PromotionsKept(d, e) ==
    \A q \in Promotions :
        d.promotions[q].status # "none" =>
            /\ e.promotions[q].status # "none"
            /\ e.promotions[q].revision = d.promotions[q].revision
PromotionsMove(d, e) ==
    /\ PromotionsKept(d, e)
    /\ \A q \in Promotions :
        \/ e.promotions[q].status = "none"
        \/ d.promotions[q].status # "none"
        \/ ApprovedDecision(d, e.promotions[q].revision)
SymbolKept(d, e, alone) ==
    \/ alone
    \/ /\ e.symbol.visibility = d.symbol.visibility /\ e.symbol.current = d.symbol.current
       /\ e.foreign = d.foreign
SymbolMoves(d, e, alone) == SymbolKept(d, e, alone) /\ ForeignPublic(e)
Publishes(d, e) ==
    \A v \in Revisions :
        State(d, v) # "published" /\ State(e, v) = "published"
        => e.symbol.current = v /\ ApprovedDecision(e, v)
Moves(d, e, L, alone) ==
    /\ Consistent(e)
    /\ SubmissionsMove(d, e, L)
    /\ PromotionsMove(d, e)
    /\ SymbolMoves(d, e, alone)
    /\ Publishes(d, e)

\* What has been approved stays approved.
LEMMA ApprovedStays ==
    ASSUME NEW d, NEW e, VerdictsKept(d, e), NEW v, ApprovedDecision(d, v)
    PROVE  ApprovedDecision(e, v)
<1>1. PICK s \in Submissions : /\ d.submissions[s].revision = v
                               /\ d.submissions[s].decision = "approved"
                               /\ d.submissions[s].status \in {"decided", "withdrawn"}
  BY DEF ApprovedDecision
<1>2. e.submissions[s] = d.submissions[s]
  BY <1>1 DEF VerdictsKept
<1> QED
  BY <1>1, <1>2 DEF ApprovedDecision

\* The parts of a move.
LEMMA MovesTogether ==
    ASSUME NEW d, Consistent(d), NEW e, e \in Rows, NEW L, NEW alone,
           SubmissionsMove(d, e, L), PromotionsMove(d, e), CreditShown(e),
           SymbolMoves(d, e, alone), Publishes(d, e)
    PROVE  Moves(d, e, L, alone)
<1>1. OfferedApproved(e)
  <2> SUFFICES ASSUME NEW q \in Promotions, e.promotions[q].status # "none"
               PROVE  ApprovedDecision(e, e.promotions[q].revision)
    BY DEF OfferedApproved
  <2>1. ApprovedDecision(d, e.promotions[q].revision)
    BY DEF PromotionsMove, PromotionsKept, Consistent, OfferedApproved
  <2> QED
    BY <2>1, ApprovedStays DEF SubmissionsMove
<1> QED
  BY <1>1 DEF Moves, Consistent, SubmissionsMove, SymbolMoves

\* The parts that a request leaves alone.
LEMMA SameSubmissions ==
    ASSUME NEW d, Consistent(d), NEW e, e.submissions = d.submissions, NEW L
    PROVE  SubmissionsMove(d, e, L)
BY DEF Consistent, SubmissionsMove, VerdictsDecided, SubmissionsKept, VerdictsKept

\* Promotion requests that are not written do not move.
LEMMA SamePromotions ==
    ASSUME NEW d, NEW e, e.promotions = d.promotions
    PROVE  PromotionsMove(d, e)
BY DEF PromotionsMove, PromotionsKept

\* Credit stands while the awards and the pages do.
LEMMA SameCredit ==
    ASSUME NEW d, Consistent(d), NEW e,
           e.symbol.visibility = "public" \/ e.symbol.visibility = d.symbol.visibility,
           \A q \in Promotions : /\ e.promotions[q].credit = d.promotions[q].credit
                                 /\ e.promotions[q].page = d.promotions[q].page
    PROVE  CreditShown(e)
BY DEF Consistent, CreditShown, Credited

\* The symbol does not move if its visibility and current revision do not.
LEMMA SameSymbol ==
    ASSUME NEW d, Consistent(d), NEW e, NEW alone, e.foreign = d.foreign,
           e.symbol.visibility = d.symbol.visibility,
           alone \/ e.symbol.current = d.symbol.current
    PROVE  SymbolMoves(d, e, alone)
BY DEF Consistent, SymbolMoves, SymbolKept, ForeignPublic

\* Nothing is published if no revision is newly published.
LEMMA NothingPublished ==
    ASSUME NEW d, NEW e,
           \A v \in Revisions : e.revisions[v].state = "published" => d.revisions[v].state = "published"
    PROVE  Publishes(d, e)
BY IdsAreNumbers DEF Publishes, State

\* A request that changes nothing moves nothing.
LEMMA NothingMoves ==
    ASSUME NEW d, Consistent(d), NEW L, NEW alone
    PROVE  Moves(d, d, L, alone)
BY SameSubmissions, SamePromotions, SameSymbol, NothingPublished, MovesTogether
   DEF Consistent

-----------------------------------------------------------------------------
(* Requests, and what they have seen.                                      *)
EditOps == {"update_draft", "attach_asset", "remove_asset", "submit_for_review"}
SubmissionOps == {"withdraw_submission", "decide_submission"}
PromotionOps == {"withdraw_promotion_request", "open_promotion_review_case",
                 "execute_organization_promotion_handoff"}
SymbolOps == {"create_draft", "create_new_draft_revision", "discard_pending_revision",
              "submit_promotion_request", "execute_demotion", "apply_withdrawal",
              "set_organization_wide", "set_review_policy", "replace_items"}
AllOps == EditOps \cup SubmissionOps \cup PromotionOps \cup SymbolOps
Arguments == Verdicts \cup {"none", "enabled", "disabled", "self_approval", "independent",
                            "add", "remove"}
RequestState ==
    [op : AllOps, on : Nat, by : Members \cup {None}, arg : Arguments]
RequestOK(d, r) ==
    /\ r \in RequestState
    /\ r.op \in EditOps => r.on \in Revisions
    /\ r.op \in SubmissionOps => r.on \in Submissions /\ d.submissions[r.on].status # "none"
    /\ r.op \in PromotionOps => r.on \in Promotions /\ d.promotions[r.on].status # "none"
    /\ r.op \in SubmissionOps \cup {"submit_for_review"} => r.by \in Members
    /\ r.op = "decide_submission" => r.arg \in Verdicts
    /\ r.op = "set_review_policy" => r.arg \in {"self_approval", "independent"}
SeenState == [symbol : SymbolState, target : Revisions \cup {None}, revision : RevisionState]

\* What the checks of a request have established when it holds all its locks,
\* and what its locks keep true until it commits.
Established(d, r) ==
    /\ r.op \in SubmissionOps => d.submissions[r.on].status = "active"
    /\ r.op = "submit_promotion_request" => ApprovedDecision(d, d.symbol.current)
    /\ r.op = "execute_organization_promotion_handoff" => StillCurrent(d, r)
    /\ r.op = "execute_demotion" => ~d.foreign
    /\ r.op = "replace_items" /\ r.arg = "add" => d.symbol.visibility = "public"

-----------------------------------------------------------------------------
(* Each operation moves the rows.                                          *)

\* A revision is rewritten, and not published.
LEMMA RevisionPut ==
    ASSUME NEW f \in RevisionRows, NEW v \in Revisions \cup {None},
           NEW state \in {"none", "draft", "review", "approved", "rejected", "withdrawn"},
           NEW payload \in SUBSET Edits
    PROVE  /\ [f EXCEPT ![v].state = state] \in RevisionRows
           /\ [f EXCEPT ![v].payload = payload] \in RevisionRows
           /\ [f EXCEPT ![v] = [state |-> state, payload |-> payload]] \in RevisionRows
           /\ \A w \in Revisions :
                /\ [f EXCEPT ![v].state = state][w].state = "published" => f[w].state = "published"
                /\ [f EXCEPT ![v].payload = payload][w].state = "published"
                    => f[w].state = "published"
                /\ [f EXCEPT ![v] = [state |-> state, payload |-> payload]][w].state = "published"
                    => f[w].state = "published"
<1>1. [f EXCEPT ![v].state = state] \in RevisionRows
  BY DEF RevisionRows, RevisionState
<1>2. [f EXCEPT ![v].payload = payload] \in RevisionRows
  BY DEF RevisionRows, RevisionState
<1>3. [f EXCEPT ![v] = [state |-> state, payload |-> payload]] \in RevisionRows
  BY DEF RevisionRows, RevisionState
<1>4. \A w \in Revisions :
        [f EXCEPT ![v].state = state][w].state = "published" => f[w].state = "published"
  BY DEF RevisionRows, RevisionState
<1>5. \A w \in Revisions :
        [f EXCEPT ![v].payload = payload][w].state = "published" => f[w].state = "published"
  BY DEF RevisionRows, RevisionState
<1>6. \A w \in Revisions :
        [f EXCEPT ![v] = [state |-> state, payload |-> payload]][w].state = "published"
            => f[w].state = "published"
  BY DEF RevisionRows, RevisionState
<1> QED
  BY <1>1, <1>2, <1>3, <1>4, <1>5, <1>6

\* A column that is not in the UPDATE keeps its value.
LEMMA PutKeeps ==
    ASSUME NEW now, NEW loaded, NEW new
    PROVE  Put(now, loaded, new) \in {now, new}
BY DEF Put

\* An edit changes a payload.
LEMMA EditMoves ==
    ASSUME NEW d, Consistent(d), NEW v \in Revisions, NEW payload \in SUBSET Edits,
           NEW L, NEW alone
    PROVE  Moves(d, [d EXCEPT !.revisions[v].payload = payload], L, alone)
<1> DEFINE e == [d EXCEPT !.revisions[v].payload = payload]
<1>1. /\ d.revisions \in RevisionRows
      /\ d \in [symbol : SymbolState, revisions : RevisionRows, submissions : SubmissionRows,
                promotions : PromotionRows, policy : Policies, foreign : BOOLEAN]
  BY RowsAreTables DEF Consistent
<1>2. /\ e.symbol = d.symbol /\ e.submissions = d.submissions /\ e.promotions = d.promotions
      /\ e.policy = d.policy /\ e.foreign = d.foreign
      /\ e.revisions = [d.revisions EXCEPT ![v].payload = payload]
  BY <1>1
<1>3. e.revisions \in RevisionRows
  BY <1>1, <1>2, RevisionPut
<1>4. e \in Rows
  BY <1>1, <1>2, <1>3, RowsAreTables
<1>5. \A w \in Revisions : e.revisions[w].state = "published" => d.revisions[w].state = "published"
  BY <1>1, <1>2, RevisionPut
<1> HIDE DEF e
<1>6. SubmissionsMove(d, e, L) /\ PromotionsMove(d, e) /\ SymbolMoves(d, e, alone)
  BY <1>2, SameSubmissions, SamePromotions, SameSymbol
<1>7. CreditShown(e)
  BY <1>2, SameCredit
<1>8. Publishes(d, e)
  BY <1>5, NothingPublished
<1>9. Moves(d, e, L, alone)
  BY <1>4, <1>6, <1>7, <1>8, MovesTogether
<1> QED
  BY <1>9 DEF e

\* A table of revisions in which none is newly published.
Unpublished(d, f) ==
    /\ f \in RevisionRows
    /\ \A w \in Revisions : f[w].state = "published" => d.revisions[w].state = "published"
StateRewritten(d, s, new) == [d.revisions EXCEPT ![s.target].state = StatePut(d, s, new)]

\* A revision's state is put back or rewritten, and not to published.
LEMMA StateWritten ==
    ASSUME NEW d, Consistent(d), NEW s \in SeenState,
           NEW new \in {"none", "draft", "review", "approved", "rejected", "withdrawn"}
    PROVE  Unpublished(d, StateRewritten(d, s, new))
<1> DEFINE put == StatePut(d, s, new)
           f == [d.revisions EXCEPT ![s.target].state = put]
<1>1. d.revisions \in RevisionRows
  BY RowsAreTables DEF Consistent
<1>2. put = new \/ put = d.revisions[s.target].state
  BY DEF StatePut, Put
<1> HIDE DEF put
<1>3. CASE s.target \in Revisions
  <2>1. d.revisions[s.target] \in RevisionState
    BY <1>1, <1>3 DEF RevisionRows
  <2>2. put \in {"none", "draft", "review", "approved", "rejected", "published", "withdrawn"}
    BY <1>2, <2>1 DEF RevisionState
  <2>3. f \in RevisionRows
    BY <1>1, <1>3, <2>2 DEF RevisionRows, RevisionState
  <2>4. \A w \in Revisions : f[w].state = IF w = s.target THEN put ELSE d.revisions[w].state
    BY <1>1, <1>3 DEF RevisionRows, RevisionState
  <2> QED
    BY <1>2, <2>3, <2>4 DEF put, Unpublished, StateRewritten
<1>4. CASE s.target \notin Revisions
  <2>1. f = d.revisions
    BY <1>1, <1>4 DEF RevisionRows
  <2> QED
    BY <1>1, <2>1 DEF put, Unpublished, StateRewritten
<1> QED
  BY <1>3, <1>4

\* What a request has seen: of an edit, the revision it is made on.
SeenOK(r, s) == s \in SeenState /\ (r.op \in EditOps => s.target = r.on)

\* update_draft, attach_asset and remove_asset rewrite a payload.
LEMMA UpdateDraftMoves ==
    ASSUME NEW d, Consistent(d), NEW r, RequestOK(d, r), NEW s, SeenOK(r, s), NEW L, NEW alone,
           r.op \in {"update_draft", "attach_asset", "remove_asset"}
    PROVE  /\ Moves(d, DetailsUpdated(d, s, r), L, alone)
           /\ Moves(d, AssetAttached(d, s, r), L, alone)
           /\ Moves(d, AssetRemoved(d, s, r), L, alone)
<1>1. /\ r.on \in Revisions /\ s.target = r.on
      /\ s.revision.payload \in SUBSET Edits
  BY DEF RequestOK, EditOps, SeenOK, SeenState, RevisionState
<1>2. d.revisions[s.target].payload \in SUBSET Edits
  BY <1>1, RowsAreTables DEF Consistent, RevisionRows, RevisionState
<1>3. \A new \in SUBSET Edits : PayloadPut(d, s, new) \in SUBSET Edits
  BY <1>2 DEF PayloadPut, Put
<1>4. /\ s.revision.payload \cup {"details"} \in SUBSET Edits
      /\ s.revision.payload \cup {"asset"} \in SUBSET Edits
      /\ s.revision.payload \ {"asset"} \in SUBSET Edits
  BY <1>1 DEF Edits
<1> QED
  BY <1>1, <1>3, <1>4, EditMoves DEF DetailsUpdated, AssetAttached, AssetRemoved

\* A submission that is in use is rewritten under its lock, by a verdict or a
\* withdrawal that found it active.
LEMMA SubmissionWritten ==
    ASSUME NEW d, Consistent(d), NEW s \in Submissions, d.submissions[s].status = "active",
           NEW row \in SubmissionState, row.by = d.submissions[s].by,
           row.status # "none", (row.decision # "none") <=> (row.status = "decided"),
           NEW L, <<"submission", s>> \in L,
           NEW e, e.submissions = [d.submissions EXCEPT ![s] = row]
    PROVE  SubmissionsMove(d, e, L) /\ e.submissions \in SubmissionRows
<1>1. d.submissions \in SubmissionRows
  BY RowsAreTables DEF Consistent
<1>2. \A t \in Submissions : e.submissions[t] = IF t = s THEN row ELSE d.submissions[t]
  BY <1>1 DEF SubmissionRows
<1>3. d.submissions[s].decision = "none"
  BY DEF Consistent, VerdictsDecided
<1>4. VerdictsDecided(e)
  BY <1>2 DEF VerdictsDecided, Consistent
<1>5. SubmissionsKept(d, e, L)
  BY <1>2 DEF SubmissionsKept
<1>6. VerdictsKept(d, e)
  BY <1>2, <1>3 DEF VerdictsKept
<1>7. e.submissions \in SubmissionRows
  BY <1>1 DEF SubmissionRows
<1> QED
  BY <1>4, <1>5, <1>6, <1>7 DEF SubmissionsMove

\* A new submission takes a free row.
LEMMA SubmissionAdded ==
    ASSUME NEW d, Consistent(d), NEW s \in Submissions, d.submissions[s].status = "none",
           NEW row \in SubmissionState, row.decision = "none", row.status # "decided",
           NEW L, NEW e, e.submissions = [d.submissions EXCEPT ![s] = row]
    PROVE  SubmissionsMove(d, e, L) /\ e.submissions \in SubmissionRows
<1>1. d.submissions \in SubmissionRows
  BY RowsAreTables DEF Consistent
<1>2. \A t \in Submissions : e.submissions[t] = IF t = s THEN row ELSE d.submissions[t]
  BY <1>1 DEF SubmissionRows
<1>3. d.submissions[s].decision = "none"
  BY DEF Consistent, VerdictsDecided
<1>4. VerdictsDecided(e)
  BY <1>2 DEF VerdictsDecided, Consistent
<1>5. SubmissionsKept(d, e, L)
  BY <1>2 DEF SubmissionsKept
<1>6. VerdictsKept(d, e)
  BY <1>2, <1>3 DEF VerdictsKept
<1>7. e.submissions \in SubmissionRows
  BY <1>1 DEF SubmissionRows
<1> QED
  BY <1>4, <1>5, <1>6, <1>7 DEF SubmissionsMove

\* A revision is submitted for review.
LEMMA SubmitMoves ==
    ASSUME NEW d, Consistent(d), NEW r, RequestOK(d, r), NEW s, SeenOK(r, s), NEW L, NEW alone,
           r.op = "submit_for_review", RoomFor(d, r)
    PROVE  Moves(d, Submitted(d, s, r), L, alone)
<1> DEFINE e == Submitted(d, s, r)
           n == NewSubmission(d)
           row == [status |-> "active", revision |-> r.on, by |-> r.by,
                   decision |-> "none", decided_by |-> None]
<1>1. /\ r.on \in Revisions /\ s.target = r.on /\ r.by \in Members /\ s \in SeenState
  BY DEF RequestOK, EditOps, SeenOK
<1>2. n \in Submissions /\ d.submissions[n].status = "none"
  BY FreshRows DEF RoomFor
<1>3. d \in [symbol : SymbolState, revisions : RevisionRows, submissions : SubmissionRows,
             promotions : PromotionRows, policy : Policies, foreign : BOOLEAN]
  BY RowsAreTables DEF Consistent
<1>4. /\ e.symbol = d.symbol /\ e.promotions = d.promotions
      /\ e.policy = d.policy /\ e.foreign = d.foreign
      /\ e.submissions = [d.submissions EXCEPT ![n] = row]
      /\ e.revisions = StateRewritten(d, s, "review")
  BY <1>1, <1>3 DEF Submitted, StateRewritten
<1>5. Unpublished(d, e.revisions)
  BY <1>1, <1>4, StateWritten
<1>6. row \in SubmissionState
  BY <1>1 DEF SubmissionState
<1>7. SubmissionsMove(d, e, L) /\ e.submissions \in SubmissionRows
  <2> HIDE DEF e, n, row
  <2>1. row.decision = "none" /\ row.status # "decided"
    BY DEF row
  <2> QED
    BY <1>2, <1>4, <1>6, <2>1, SubmissionAdded
<1> HIDE DEF n, row
<1>8. e \in [symbol : SymbolState, revisions : RevisionRows, submissions : SubmissionRows,
             promotions : PromotionRows, policy : Policies, foreign : BOOLEAN]
  BY <1>3, <1>4, <1>5, <1>7 DEF Submitted, Unpublished
<1> HIDE DEF e
<1>9. e \in Rows
  BY <1>8, RowsAreTables
<1>10. PromotionsMove(d, e) /\ SymbolMoves(d, e, alone)
  BY <1>4, SamePromotions, SameSymbol
<1>11. CreditShown(e)
  BY <1>4, SameCredit
<1>12. Publishes(d, e)
  BY <1>5, NothingPublished DEF Unpublished
<1>13. Moves(d, e, L, alone)
  BY <1>7, <1>9, <1>10, <1>11, <1>12, MovesTogether
<1> QED
  BY <1>13 DEF e

\* The submitter takes a submission back.
SubmissionBack(d, s) ==
    [d.revisions EXCEPT ![s.target].state = IF s.revision.state = "review" THEN "draft" ELSE @]

\* The revision of a submission that is withdrawn is a draft again if it was in review.
LEMMA SubmissionBackKeeps ==
    ASSUME NEW d, Consistent(d), NEW s \in SeenState
    PROVE  Unpublished(d, SubmissionBack(d, s))
<1>1. d.revisions \in RevisionRows
  BY RowsAreTables DEF Consistent
<1>2. CASE s.target \in Revisions
  <2>1. SubmissionBack(d, s) \in RevisionRows
    BY <1>1, <1>2 DEF SubmissionBack, RevisionRows, RevisionState
  <2>2. \A w \in Revisions : SubmissionBack(d, s)[w].state \in {"draft", d.revisions[w].state}
    BY <1>1, <1>2 DEF SubmissionBack, RevisionRows, RevisionState
  <2> QED
    BY <2>1, <2>2 DEF Unpublished
<1>3. CASE s.target \notin Revisions
  <2>1. SubmissionBack(d, s) = d.revisions
    BY <1>1, <1>3 DEF SubmissionBack, RevisionRows
  <2> QED
    BY <1>1, <2>1 DEF Unpublished
<1> QED
  BY <1>2, <1>3

\* withdraw_submission closes the submission whose row it holds.
LEMMA WithdrawMoves ==
    ASSUME NEW d, Consistent(d), NEW r, RequestOK(d, r), NEW s, SeenOK(r, s), NEW L, NEW alone,
           r.op = "withdraw_submission", Established(d, r), SubmissionRow(r) \in L
    PROVE  Moves(d, SubmissionWithdrawn(d, s, r), L, alone)
<1> DEFINE e == SubmissionWithdrawn(d, s, r)
           row == [d.submissions[r.on] EXCEPT !.status = "withdrawn"]
<1>1. /\ r.on \in Submissions /\ s \in SeenState /\ d.submissions[r.on].status = "active"
      /\ <<"submission", r.on>> \in L
  BY DEF RequestOK, SubmissionOps, SeenOK, Established, SubmissionRow
<1>2. d \in [symbol : SymbolState, revisions : RevisionRows, submissions : SubmissionRows,
             promotions : PromotionRows, policy : Policies, foreign : BOOLEAN]
  BY RowsAreTables DEF Consistent
<1>3. d.submissions[r.on] \in SubmissionState /\ d.submissions[r.on].decision = "none"
  BY <1>1, <1>2 DEF SubmissionRows, Consistent, VerdictsDecided
<1>4. /\ row \in SubmissionState /\ row.by = d.submissions[r.on].by
      /\ row.status = "withdrawn" /\ row.decision = "none"
  BY <1>3 DEF SubmissionState
<1>5. /\ e.symbol = d.symbol /\ e.promotions = d.promotions
      /\ e.policy = d.policy /\ e.foreign = d.foreign
      /\ e.submissions = [d.submissions EXCEPT ![r.on] = row]
      /\ e.revisions = SubmissionBack(d, s)
  BY <1>1, <1>2 DEF SubmissionWithdrawn, SubmissionBack
<1>6. Unpublished(d, e.revisions)
  BY <1>1, <1>5, SubmissionBackKeeps
<1>7. SubmissionsMove(d, e, L) /\ e.submissions \in SubmissionRows
  <2> HIDE DEF e, row
  <2> QED
    BY <1>1, <1>4, <1>5, SubmissionWritten
<1> HIDE DEF row
<1>8. e \in [symbol : SymbolState, revisions : RevisionRows, submissions : SubmissionRows,
             promotions : PromotionRows, policy : Policies, foreign : BOOLEAN]
  BY <1>2, <1>5, <1>6, <1>7 DEF SubmissionWithdrawn, Unpublished
<1> HIDE DEF e
<1>9. e \in Rows
  BY <1>8, RowsAreTables
<1>10. PromotionsMove(d, e) /\ SymbolMoves(d, e, alone)
  BY <1>5, SamePromotions, SameSymbol
<1>11. CreditShown(e)
  BY <1>5, SameCredit
<1>12. Publishes(d, e)
  BY <1>6, NothingPublished DEF Unpublished
<1>13. Moves(d, e, L, alone)
  BY <1>7, <1>9, <1>10, <1>11, <1>12, MovesTogether
<1> QED
  BY <1>13 DEF e

\* A reviewer decides.
LEMMA DecisionMoves ==
    ASSUME NEW d, Consistent(d), NEW r, RequestOK(d, r), NEW s, SeenOK(r, s), NEW L,
           NEW alone, alone,
           r.op = "decide_submission", Established(d, r), SubmissionRow(r) \in L
    PROVE  Moves(d, Decided(d, s, r), L, alone)
<1> DEFINE e == Decided(d, s, r)
           row == [d.submissions[r.on] EXCEPT !.status = "decided", !.decision = r.arg,
                                              !.decided_by = r.by]
<1>1. /\ r.on \in Submissions /\ s \in SeenState /\ d.submissions[r.on].status = "active"
      /\ <<"submission", r.on>> \in L /\ r.by \in Members /\ r.arg \in Verdicts
  BY DEF RequestOK, SubmissionOps, SeenOK, Established, SubmissionRow
<1>2. d \in [symbol : SymbolState, revisions : RevisionRows, submissions : SubmissionRows,
             promotions : PromotionRows, policy : Policies, foreign : BOOLEAN]
  BY RowsAreTables DEF Consistent
<1>3. d.submissions[r.on] \in SubmissionState
  BY <1>1, <1>2 DEF SubmissionRows
<1>4. /\ row \in SubmissionState /\ row.by = d.submissions[r.on].by
      /\ row.status = "decided" /\ row.decision = r.arg
  BY <1>1, <1>3 DEF SubmissionState
<1>5. /\ e.symbol = SymbolAfterDecision(d, s, r.arg) /\ e.promotions = d.promotions
      /\ e.policy = d.policy /\ e.foreign = d.foreign
      /\ e.submissions = [d.submissions EXCEPT ![r.on] = row]
      /\ e.revisions = StateRewritten(d, s, VerdictState(r.arg))
  BY <1>1, <1>2 DEF Decided, StateRewritten
<1>6. Unpublished(d, e.revisions)
  <2>1. VerdictState(r.arg) \in {"none", "draft", "review", "approved", "rejected", "withdrawn"}
    BY <1>1 DEF VerdictState, Verdicts
  <2> QED
    BY <1>1, <1>5, <2>1, StateWritten
<1>7. SubmissionsMove(d, e, L) /\ e.submissions \in SubmissionRows
  <2>1. row.decision # "none"
    BY <1>1, <1>4 DEF Verdicts
  <2> HIDE DEF e, row
  <2> QED
    BY <1>1, <1>4, <1>5, <2>1, SubmissionWritten
<1> HIDE DEF row
<1>8. e.symbol \in SymbolState /\ e.symbol.visibility = d.symbol.visibility
  BY <1>1, <1>2, <1>5 DEF SymbolAfterDecision, SymbolState, SeenState, Put
<1>9. e \in [symbol : SymbolState, revisions : RevisionRows, submissions : SubmissionRows,
             promotions : PromotionRows, policy : Policies, foreign : BOOLEAN]
  BY <1>2, <1>5, <1>6, <1>7, <1>8 DEF Decided, Unpublished
<1> HIDE DEF e
<1>10. e \in Rows
  BY <1>9, RowsAreTables
<1>11. PromotionsMove(d, e) /\ SymbolMoves(d, e, alone)
  BY <1>5, <1>8, SamePromotions, SameSymbol
<1>12. CreditShown(e)
  BY <1>5, <1>8, SameCredit
<1>13. Publishes(d, e)
  BY <1>6, NothingPublished DEF Unpublished
<1>14. Moves(d, e, L, alone)
  BY <1>7, <1>10, <1>11, <1>12, <1>13, MovesTogether
<1> QED
  BY <1>14 DEF e

\* The symbol and its revisions change, and nothing else: whoever commits
\* this is alone with the symbol.
LEMMA SymbolWritten ==
    ASSUME NEW d, Consistent(d), NEW e, e \in Rows, NEW L, NEW alone, alone,
           e.submissions = d.submissions, e.promotions = d.promotions, e.foreign = d.foreign,
           e.symbol.visibility = d.symbol.visibility, Unpublished(d, e.revisions)
    PROVE  Moves(d, e, L, alone)
<1>1. SubmissionsMove(d, e, L) /\ PromotionsMove(d, e) /\ SymbolMoves(d, e, alone)
  BY SameSubmissions, SamePromotions, SameSymbol
<1>2. CreditShown(e)
  BY SameCredit
<1>3. Publishes(d, e)
  BY NothingPublished DEF Unpublished
<1> QED
  BY <1>1, <1>2, <1>3, MovesTogether

\* A new revision is started, or the pending one discarded.
LEMMA RevisionMoves ==
    ASSUME NEW d, Consistent(d), NEW r, RequestOK(d, r), NEW s, SeenOK(r, s), NEW L,
           NEW alone, alone
    PROVE  /\ r.op = "create_new_draft_revision" /\ RoomFor(d, r)
                => Moves(d, RevisionStarted(d, s), L, alone)
           /\ r.op = "discard_pending_revision" => Moves(d, PendingDiscarded(d, s), L, alone)
<1>1. s \in SeenState
  BY DEF SeenOK
<1>2. d \in [symbol : SymbolState, revisions : RevisionRows, submissions : SubmissionRows,
             promotions : PromotionRows, policy : Policies, foreign : BOOLEAN]
  BY RowsAreTables DEF Consistent
<1>3. ASSUME r.op = "create_new_draft_revision", RoomFor(d, r)
      PROVE  Moves(d, RevisionStarted(d, s), L, alone)
  <2> DEFINE e == RevisionStarted(d, s)
             n == NewRevision(d)
             row == [state |-> "draft", payload |-> s.revision.payload]
             symbol == SymbolAfterStart(d, s, n)
  <2>1. n \in Revisions
    BY <1>3, FreshRows DEF RoomFor
  <2>2. /\ e.submissions = d.submissions /\ e.promotions = d.promotions
        /\ e.policy = d.policy /\ e.foreign = d.foreign
        /\ e.revisions = [d.revisions EXCEPT ![n] = row]
        /\ e.symbol = symbol
    BY <1>2 DEF RevisionStarted
  <2>3. symbol \in SymbolState /\ symbol.visibility = d.symbol.visibility
    <3> HIDE DEF n
    <3> QED
      BY <1>1, <1>2, <2>1 DEF SymbolAfterStart, SymbolState, SeenState, Put
  <2>4. Unpublished(d, e.revisions)
    <3>1. s.revision.payload \in SUBSET Edits
      BY <1>1 DEF SeenState, RevisionState
    <3> HIDE DEF e, n
    <3>2. [d.revisions EXCEPT ![n] = row] \in RevisionRows
      BY <1>2, <2>1, <3>1, RevisionPut
    <3>3. \A w \in Revisions : [d.revisions EXCEPT ![n] = row][w].state = "published"
                                    => d.revisions[w].state = "published"
      BY <1>2, <2>1, <3>1, RevisionPut
    <3> QED
      BY <2>2, <3>2, <3>3 DEF Unpublished
  <2> HIDE DEF symbol, n
  <2>5. e \in [symbol : SymbolState, revisions : RevisionRows, submissions : SubmissionRows,
               promotions : PromotionRows, policy : Policies, foreign : BOOLEAN]
    BY <1>2, <2>2, <2>3, <2>4 DEF RevisionStarted, Unpublished
  <2> HIDE DEF e
  <2>6. e \in Rows
    BY <2>5, RowsAreTables
  <2>7. Moves(d, e, L, alone)
    BY <2>2, <2>3, <2>4, <2>6, SymbolWritten
  <2> QED
    BY <2>7 DEF e
<1>4. ASSUME r.op = "discard_pending_revision"
      PROVE  Moves(d, PendingDiscarded(d, s), L, alone)
  <2> DEFINE e == PendingDiscarded(d, s)
  <2>1. /\ e.submissions = d.submissions /\ e.promotions = d.promotions
        /\ e.policy = d.policy /\ e.foreign = d.foreign
        /\ e.revisions = StateRewritten(d, s, "withdrawn")
        /\ e.symbol = [d.symbol EXCEPT !.pending = None]
    BY <1>2 DEF PendingDiscarded, StateRewritten
  <2>2. e.symbol \in SymbolState /\ e.symbol.visibility = d.symbol.visibility
    BY <1>2, <2>1 DEF SymbolState
  <2>3. Unpublished(d, e.revisions)
    BY <1>1, <2>1, StateWritten
  <2>4. e \in [symbol : SymbolState, revisions : RevisionRows, submissions : SubmissionRows,
               promotions : PromotionRows, policy : Policies, foreign : BOOLEAN]
    BY <1>2, <2>1, <2>2, <2>3 DEF PendingDiscarded, Unpublished
  <2> HIDE DEF e
  <2>5. e \in Rows
    BY <2>4, RowsAreTables
  <2>6. Moves(d, e, L, alone)
    BY <2>1, <2>2, <2>3, <2>5, SymbolWritten
  <2> QED
    BY <2>6 DEF e
<1> QED
  BY <1>3, <1>4

\* A symbol is drafted.
LEMMA DraftMoves ==
    ASSUME NEW d, Consistent(d), NEW r, r.op = "create_draft", RoomFor(d, r),
           NEW L, NEW alone, alone
    PROVE  Moves(d, DraftCreated(d), L, alone)
<1> DEFINE e == DraftCreated(d)
           n == NewRevision(d)
           row == [state |-> "draft", payload |-> {}]
           symbol == [visibility |-> "organization_private", current |-> n, pending |-> None,
                      organization_wide |-> FALSE, catalog_symbol_id |-> FALSE]
<1>1. d \in [symbol : SymbolState, revisions : RevisionRows, submissions : SubmissionRows,
             promotions : PromotionRows, policy : Policies, foreign : BOOLEAN]
  BY RowsAreTables DEF Consistent
<1>2. n \in Revisions /\ d.symbol.visibility = "absent"
  BY FreshRows DEF RoomFor
<1>3. /\ e.submissions = d.submissions /\ e.promotions = d.promotions
      /\ e.policy = d.policy /\ e.foreign = d.foreign
      /\ e.revisions = [d.revisions EXCEPT ![n] = row] /\ e.symbol = symbol
  BY <1>1 DEF DraftCreated
<1>4. symbol \in SymbolState /\ symbol.visibility = "organization_private"
  <2> HIDE DEF n
  <2> QED
    BY <1>2 DEF SymbolState
<1>5. Unpublished(d, e.revisions)
  <2> HIDE DEF e, n
  <2>1. {} \in SUBSET Edits
    OBVIOUS
  <2>2. [d.revisions EXCEPT ![n] = row] \in RevisionRows
    BY <1>1, <1>2, <2>1, RevisionPut
  <2>3. \A w \in Revisions : [d.revisions EXCEPT ![n] = row][w].state = "published"
                                  => d.revisions[w].state = "published"
    BY <1>1, <1>2, <2>1, RevisionPut
  <2> QED
    BY <1>3, <2>2, <2>3 DEF Unpublished
<1> HIDE DEF symbol, n
<1>6. e \in [symbol : SymbolState, revisions : RevisionRows, submissions : SubmissionRows,
             promotions : PromotionRows, policy : Policies, foreign : BOOLEAN]
  BY <1>1, <1>3, <1>4, <1>5 DEF DraftCreated, Unpublished
<1> HIDE DEF e
<1>7. e \in Rows
  BY <1>6, RowsAreTables
<1>8. SubmissionsMove(d, e, L) /\ PromotionsMove(d, e)
  BY <1>3, SameSubmissions, SamePromotions
<1>9. SymbolMoves(d, e, alone)
  BY <1>2, <1>3 DEF SymbolMoves, SymbolKept, ForeignPublic, Consistent
<1>10. CreditShown(e)
  BY <1>2, <1>3 DEF Consistent, CreditShown, Credited
<1>11. Publishes(d, e)
  BY <1>5, NothingPublished DEF Unpublished
<1>12. Moves(d, e, L, alone)
  BY <1>7, <1>8, <1>9, <1>10, <1>11, MovesTogether
<1> QED
  BY <1>12 DEF e

\* The library flag, the policy and the other organization's set.
LEMMA FlagMoves ==
    ASSUME NEW d, Consistent(d), NEW r, RequestOK(d, r), NEW s, SeenOK(r, s), NEW L,
           NEW alone, alone
    PROVE  Moves(d, LibrarySet(d, s, r), L, alone)
<1> DEFINE e == LibrarySet(d, s, r)
<1>1. d \in [symbol : SymbolState, revisions : RevisionRows, submissions : SubmissionRows,
             promotions : PromotionRows, policy : Policies, foreign : BOOLEAN]
  BY RowsAreTables DEF Consistent
<1>2. /\ e.submissions = d.submissions /\ e.promotions = d.promotions
      /\ e.policy = d.policy /\ e.foreign = d.foreign /\ e.revisions = d.revisions
      /\ e.symbol = [d.symbol EXCEPT !.organization_wide =
                        Put(@, s.symbol.organization_wide, r.arg = "enabled")]
  BY <1>1 DEF LibrarySet
<1>3. e.symbol \in SymbolState /\ e.symbol.visibility = d.symbol.visibility
  <2>1. (r.arg = "enabled") \in BOOLEAN
    OBVIOUS
  <2>2. d.symbol.organization_wide \in BOOLEAN
    BY <1>1 DEF SymbolState
  <2>3. Put(d.symbol.organization_wide, s.symbol.organization_wide, r.arg = "enabled") \in BOOLEAN
    BY <2>1, <2>2 DEF Put
  <2> QED
    BY <1>1, <1>2, <2>3 DEF SymbolState
<1>4. Unpublished(d, e.revisions)
  BY <1>1, <1>2 DEF Unpublished
<1>5. e \in [symbol : SymbolState, revisions : RevisionRows, submissions : SubmissionRows,
             promotions : PromotionRows, policy : Policies, foreign : BOOLEAN]
  BY <1>1, <1>2, <1>3 DEF LibrarySet
<1> HIDE DEF e
<1>6. e \in Rows
  BY <1>5, RowsAreTables
<1>7. Moves(d, e, L, alone)
  BY <1>2, <1>3, <1>4, <1>6, SymbolWritten
<1> QED
  BY <1>7 DEF e

\* set_review_policy writes the policy alone.
LEMMA PolicyMoves ==
    ASSUME NEW d, Consistent(d), NEW policy \in Policies, NEW L, NEW alone
    PROVE  Moves(d, [d EXCEPT !.policy = policy], L, alone)
<1> DEFINE e == [d EXCEPT !.policy = policy]
<1>1. d \in [symbol : SymbolState, revisions : RevisionRows, submissions : SubmissionRows,
             promotions : PromotionRows, policy : Policies, foreign : BOOLEAN]
  BY RowsAreTables DEF Consistent
<1>2. /\ e.submissions = d.submissions /\ e.promotions = d.promotions /\ e.symbol = d.symbol
      /\ e.foreign = d.foreign /\ e.revisions = d.revisions
  BY <1>1
<1>3. e \in Rows
  BY <1>1, RowsAreTables
<1> HIDE DEF e
<1>4. SubmissionsMove(d, e, L) /\ PromotionsMove(d, e) /\ SymbolMoves(d, e, alone)
  BY <1>2, SameSubmissions, SamePromotions, SameSymbol
<1>5. CreditShown(e)
  BY <1>2, SameCredit
<1>6. Publishes(d, e)
  BY <1>2, NothingPublished
<1>7. Moves(d, e, L, alone)
  BY <1>3, <1>4, <1>5, <1>6, MovesTogether
<1> QED
  BY <1>7 DEF e

\* The items of the other organization's set are replaced.
ItemsReplaced(d, held) == [d EXCEPT !.foreign = held]

\* The set may hold a public symbol only.
LEMMA SetItemsMove ==
    ASSUME NEW d, Consistent(d), NEW r, r.op = "replace_items", Established(d, r),
           NEW L, NEW alone, alone
    PROVE  Moves(d, ItemsReplaced(d, r.arg = "add"), L, alone)
<1> DEFINE e == ItemsReplaced(d, r.arg = "add")
<1>1. d \in [symbol : SymbolState, revisions : RevisionRows, submissions : SubmissionRows,
             promotions : PromotionRows, policy : Policies, foreign : BOOLEAN]
  BY RowsAreTables DEF Consistent
<1>2. (r.arg = "add") \in BOOLEAN
  OBVIOUS
<1>3. /\ e.submissions = d.submissions /\ e.promotions = d.promotions /\ e.symbol = d.symbol
      /\ e.policy = d.policy /\ e.revisions = d.revisions
  BY <1>1 DEF ItemsReplaced
<1>4. e.foreign => r.arg = "add"
  BY <1>1 DEF ItemsReplaced
<1>5. e \in Rows
  BY <1>1, <1>2, RowsAreTables DEF ItemsReplaced
<1> HIDE DEF e
<1>6. SubmissionsMove(d, e, L) /\ PromotionsMove(d, e)
  BY <1>3, SameSubmissions, SamePromotions
<1>7. SymbolMoves(d, e, alone)
  BY <1>3, <1>4 DEF SymbolMoves, SymbolKept, ForeignPublic, Established
<1>8. CreditShown(e)
  BY <1>3, SameCredit
<1>9. Publishes(d, e)
  BY <1>3, NothingPublished
<1>10. Moves(d, e, L, alone)
  BY <1>5, <1>6, <1>7, <1>8, <1>9, MovesTogether
<1> QED
  BY <1>10 DEF e

\* The status of a promotion request changes, or a new one takes a free row.
LEMMA PromotionWritten ==
    ASSUME NEW d, Consistent(d), NEW q \in Promotions, NEW row \in PromotionState,
           row.status # "none", row.credit # "awarded" \/ row.credit = d.promotions[q].credit,
           row.page = d.promotions[q].page \/ row.credit # "awarded",
           \/ d.promotions[q].status # "none" /\ row.revision = d.promotions[q].revision
           \/ d.promotions[q].status = "none" /\ ApprovedDecision(d, row.revision),
           NEW e, e \in Rows, e.submissions = d.submissions, e.symbol = d.symbol,
           e.foreign = d.foreign, e.revisions = d.revisions,
           e.promotions = [d.promotions EXCEPT ![q] = row],
           NEW L, NEW alone
    PROVE  Moves(d, e, L, alone)
<1>1. d \in [symbol : SymbolState, revisions : RevisionRows, submissions : SubmissionRows,
             promotions : PromotionRows, policy : Policies, foreign : BOOLEAN]
  BY RowsAreTables DEF Consistent
<1>2. \A t \in Promotions : e.promotions[t] = IF t = q THEN row ELSE d.promotions[t]
  BY <1>1 DEF PromotionRows
<1>3. SubmissionsMove(d, e, L) /\ SymbolMoves(d, e, alone)
  BY SameSubmissions, SameSymbol
<1>4. PromotionsMove(d, e)
  BY <1>2 DEF PromotionsMove, PromotionsKept
<1>5. CreditShown(e)
  BY <1>2 DEF Consistent, CreditShown, Credited
<1>6. Publishes(d, e)
  BY NothingPublished
<1> QED
  BY <1>3, <1>4, <1>5, <1>6, MovesTogether

\* A promotion is asked for, withdrawn, or taken up.
LEMMA PromotionAdded ==
    ASSUME NEW d, Consistent(d), NEW r, r.op = "submit_promotion_request", RoomFor(d, r),
           Established(d, r), NEW L, NEW alone
    PROVE  Moves(d, PromotionSubmitted(d), L, alone)
<1> DEFINE e == PromotionSubmitted(d)
           q == NewPromotion(d)
           row == [status |-> "submitted", revision |-> d.symbol.current,
                   page |-> "none", credit |-> "none"]
<1>1. d \in [symbol : SymbolState, revisions : RevisionRows, submissions : SubmissionRows,
             promotions : PromotionRows, policy : Policies, foreign : BOOLEAN]
  BY RowsAreTables DEF Consistent
<1>2. q \in Promotions /\ d.promotions[q].status = "none"
  BY FreshRows DEF RoomFor
<1>3. /\ row \in PromotionState /\ row.status # "none" /\ row.credit # "awarded"
      /\ ApprovedDecision(d, row.revision)
  BY <1>1 DEF PromotionState, SymbolState, Established
<1>4. /\ e.submissions = d.submissions /\ e.symbol = d.symbol /\ e.foreign = d.foreign
      /\ e.policy = d.policy /\ e.revisions = d.revisions
      /\ e.promotions = [d.promotions EXCEPT ![q] = row]
  BY <1>1 DEF PromotionSubmitted
<1> HIDE DEF row, q
<1>5. e.promotions \in PromotionRows
  <2> HIDE DEF e
  <2> QED
    BY <1>1, <1>3, <1>4 DEF PromotionRows
<1>6. e \in [symbol : SymbolState, revisions : RevisionRows, submissions : SubmissionRows,
             promotions : PromotionRows, policy : Policies, foreign : BOOLEAN]
  BY <1>1, <1>4, <1>5 DEF PromotionSubmitted
<1> HIDE DEF e
<1>7. Moves(d, e, L, alone)
  BY <1>2, <1>3, <1>4, <1>6, RowsAreTables, PromotionWritten
<1> QED
  BY <1>7 DEF e

\* The status of a request is written by who holds its row.
StatusWritten(d, q, status) == [d EXCEPT !.promotions[q].status = status]

\* A promotion request is withdrawn, or its case opened.
LEMMA PromotionStatusMoves ==
    ASSUME NEW d, Consistent(d), NEW q \in Promotions, d.promotions[q].status # "none",
           NEW status \in {"withdrawn", "triage"}, NEW L, NEW alone
    PROVE  Moves(d, StatusWritten(d, q, status), L, alone)
<1> DEFINE e == StatusWritten(d, q, status)
           row == [d.promotions[q] EXCEPT !.status = status]
<1>1. d \in [symbol : SymbolState, revisions : RevisionRows, submissions : SubmissionRows,
             promotions : PromotionRows, policy : Policies, foreign : BOOLEAN]
  BY RowsAreTables DEF Consistent
<1>2. d.promotions[q] \in PromotionState
  BY <1>1 DEF PromotionRows
<1>3. /\ row \in PromotionState /\ row.status # "none"
      /\ row.credit = d.promotions[q].credit /\ row.page = d.promotions[q].page
      /\ row.revision = d.promotions[q].revision
  BY <1>2 DEF PromotionState
<1>4. /\ e.submissions = d.submissions /\ e.symbol = d.symbol /\ e.foreign = d.foreign
      /\ e.policy = d.policy /\ e.revisions = d.revisions
      /\ e.promotions = [d.promotions EXCEPT ![q] = row]
  BY <1>1 DEF StatusWritten
<1> HIDE DEF row
<1>5. e.promotions \in PromotionRows
  <2> HIDE DEF e
  <2> QED
    BY <1>1, <1>3, <1>4 DEF PromotionRows
<1>6. e \in [symbol : SymbolState, revisions : RevisionRows, submissions : SubmissionRows,
             promotions : PromotionRows, policy : Policies, foreign : BOOLEAN]
  BY <1>1, <1>4, <1>5 DEF StatusWritten
<1> HIDE DEF e
<1>7. e \in Rows
  BY <1>6, RowsAreTables
<1>8. Moves(d, e, L, alone)
  BY <1>3, <1>4, <1>7, PromotionWritten
<1> QED
  BY <1>8 DEF e

\* An accepted promotion publishes the current revision, and earns the credit
\* nobody has while the symbol is private.
LEMMA HandoffMoves ==
    ASSUME NEW d, Consistent(d), NEW r, RequestOK(d, r), NEW s, Established(d, r),
           r.op = "execute_organization_promotion_handoff", NEW L, NEW alone, alone
    PROVE  Moves(d, Promoted(d, s, r), L, alone)
<1> DEFINE e == Promoted(d, s, r)
           q == r.on
           v == d.promotions[q].revision
           row == [d.promotions[q] EXCEPT !.status = "accepted", !.page = "active",
                                          !.credit = "awarded"]
<1>1. d \in [symbol : SymbolState, revisions : RevisionRows, submissions : SubmissionRows,
             promotions : PromotionRows, policy : Policies, foreign : BOOLEAN]
  BY RowsAreTables DEF Consistent
<1>2. /\ q \in Promotions /\ d.promotions[q].status # "none"
      /\ d.symbol.visibility = "organization_private" /\ d.symbol.current = v
  BY DEF RequestOK, PromotionOps, Established, StillCurrent, Private
<1>3. d.promotions[q] \in PromotionState
  BY <1>1, <1>2 DEF PromotionRows
<1>4. /\ row \in PromotionState /\ row.status = "accepted"
      /\ row.credit = "awarded" /\ row.page = "active" /\ row.revision = v
  BY <1>3 DEF PromotionState
<1>5. /\ e.submissions = d.submissions /\ e.foreign = d.foreign /\ e.policy = d.policy
      /\ e.symbol = [d.symbol EXCEPT !.visibility = "public", !.catalog_symbol_id = TRUE]
  BY <1>1 DEF Promoted
<1>6. e.promotions = [d.promotions EXCEPT ![q] = row]
  BY <1>1, <1>2 DEF Promoted
<1>7. e.revisions = [d.revisions EXCEPT ![v].state = "published"]
  BY <1>1 DEF Promoted
<1> HIDE DEF row, v
<1>8. e.promotions \in PromotionRows
  <2> HIDE DEF e, q
  <2> QED
    BY <1>1, <1>4, <1>6 DEF PromotionRows
<1>9. e.symbol \in SymbolState /\ e.symbol.visibility = "public" /\ e.symbol.current = v
  BY <1>1, <1>2, <1>5 DEF SymbolState
<1>10. /\ e.revisions \in RevisionRows
       /\ \A w \in Revisions : \/ e.revisions[w].state # "published"
                               \/ d.revisions[w].state = "published" \/ w = v
  <2> DEFINE f == [d.revisions EXCEPT ![v].state = "published"]
  <2>1. f \in RevisionRows
    BY <1>1 DEF RevisionRows, RevisionState
  <2>2. \A w \in Revisions : w = v \/ f[w] = d.revisions[w]
    BY <1>1 DEF RevisionRows, RevisionState
  <2> HIDE DEF e, f
  <2>3. e.revisions = f
    BY <1>7 DEF f
  <2> QED
    BY <2>1, <2>2, <2>3
<1>11. e \in [symbol : SymbolState, revisions : RevisionRows, submissions : SubmissionRows,
              promotions : PromotionRows, policy : Policies, foreign : BOOLEAN]
  BY <1>1, <1>5, <1>8, <1>9, <1>10 DEF Promoted
<1> HIDE DEF e, q
<1>12. \A t \in Promotions : e.promotions[t] = IF t = q THEN row ELSE d.promotions[t]
  BY <1>1, <1>6 DEF PromotionRows
<1>13. e \in Rows
  BY <1>11, RowsAreTables
<1>14. SubmissionsMove(d, e, L)
  BY <1>5, SameSubmissions
<1>15. PromotionsMove(d, e)
  BY <1>2, <1>4, <1>12 DEF PromotionsMove, PromotionsKept, v
<1>16. SymbolMoves(d, e, alone)
  BY <1>9 DEF SymbolMoves, SymbolKept, ForeignPublic
<1>17. \A t \in Promotions : d.promotions[t].credit # "awarded"
  BY <1>2 DEF Consistent, CreditShown, Credited
<1>18. CreditShown(e)
  BY <1>4, <1>9, <1>12, <1>17 DEF CreditShown, Credited
<1>19. ApprovedDecision(e, v)
  <2>1. ApprovedDecision(d, v)
    BY <1>2 DEF Consistent, OfferedApproved, v
  <2> QED
    BY <1>14, <2>1, ApprovedStays DEF SubmissionsMove
<1>20. Publishes(d, e)
  BY <1>9, <1>10, <1>19, IdsAreNumbers DEF Publishes, State
<1>21. Moves(d, e, L, alone)
  BY <1>13, <1>14, <1>15, <1>16, <1>18, <1>20, MovesTogether
<1> QED
  BY <1>21 DEF e

\* Revisions, pages and credit end together.
LEMMA RetirementEnds ==
    ASSUME NEW d, Consistent(d), NEW states
    PROVE  /\ Unpublished(d, RevisionsWithdrawn(d, states))
           /\ PromotionsRetired(d, states) \in PromotionRows
           /\ \A q \in Promotions :
                /\ PromotionsRetired(d, states)[q].status = d.promotions[q].status
                /\ PromotionsRetired(d, states)[q].revision = d.promotions[q].revision
                /\ PromotionsRetired(d, states)[q].credit # "awarded"
<1>1. d.revisions \in RevisionRows /\ d.promotions \in PromotionRows
  BY RowsAreTables DEF Consistent
<1>2. \A v \in Revisions :
        /\ d.revisions[v] \in RevisionState
        /\ [d.revisions[v] EXCEPT !.state = "withdrawn"] \in RevisionState
        /\ [d.revisions[v] EXCEPT !.state = "withdrawn"].state = "withdrawn"
  BY <1>1 DEF RevisionRows, RevisionState
<1>3. Unpublished(d, RevisionsWithdrawn(d, states))
  <2> DEFINE f == RevisionsWithdrawn(d, states)
  <2>1. \A v \in Revisions :
          f[v] = IF State(d, v) \in states THEN [d.revisions[v] EXCEPT !.state = "withdrawn"]
                                           ELSE d.revisions[v]
    BY DEF RevisionsWithdrawn
  <2>2. \A v \in Revisions : f[v] \in RevisionState
    BY <1>2, <2>1
  <2>3. f \in RevisionRows
    BY <2>2 DEF RevisionsWithdrawn, RevisionRows
  <2>4. \A v \in Revisions : f[v].state = "published" => d.revisions[v].state = "published"
    BY <1>2, <2>1
  <2> QED
    BY <2>3, <2>4 DEF Unpublished
<1>4. \A q \in Promotions :
        /\ PromotionsRetired(d, states)[q] \in PromotionState
        /\ PromotionsRetired(d, states)[q].status = d.promotions[q].status
        /\ PromotionsRetired(d, states)[q].revision = d.promotions[q].revision
        /\ PromotionsRetired(d, states)[q].credit # "awarded"
  <2> TAKE q \in Promotions
  <2> DEFINE row == d.promotions[q]
             gone == row.page = "active" /\ State(d, row.revision) \in states
  <2>1. row \in PromotionState
    BY <1>1 DEF PromotionRows
  <2>2. PromotionsRetired(d, states)[q] =
          [row EXCEPT !.page = IF gone THEN "retired" ELSE @, !.credit = CreditReversed(@)]
    BY DEF PromotionsRetired
  <2>3. CreditReversed(row.credit) \in {"none", "reversed"}
    BY <2>1 DEF PromotionState, CreditReversed
  <2> HIDE DEF gone, row
  <2> QED
    BY <2>1, <2>2, <2>3 DEF PromotionState, row
<1>5. PromotionsRetired(d, states) \in PromotionRows
  BY <1>4 DEF PromotionRows, PromotionsRetired
<1> QED
  BY <1>3, <1>4, <1>5

\* A symbol is demoted, or withdrawn by an operator.
LEMMA DemotionMoves ==
    ASSUME NEW d, Consistent(d), NEW r, r.op = "execute_demotion", Established(d, r),
           NEW L, NEW alone, alone
    PROVE  Moves(d, Demoted(d), L, alone)
<1> DEFINE e == Demoted(d)
<1>1. d \in [symbol : SymbolState, revisions : RevisionRows, submissions : SubmissionRows,
             promotions : PromotionRows, policy : Policies, foreign : BOOLEAN]
  BY RowsAreTables DEF Consistent
<1>2. /\ e.submissions = d.submissions /\ e.foreign = d.foreign /\ e.policy = d.policy
      /\ e.symbol = [d.symbol EXCEPT !.visibility = "organization_private",
                                     !.catalog_symbol_id = FALSE]
      /\ e.revisions = RevisionsWithdrawn(d, {"published"})
      /\ e.promotions = PromotionsRetired(d, {"published"})
  BY <1>1 DEF Demoted
<1>3. e.symbol \in SymbolState
  BY <1>1, <1>2 DEF SymbolState
<1>4. /\ Unpublished(d, e.revisions) /\ e.promotions \in PromotionRows
      /\ \A q \in Promotions : /\ e.promotions[q].status = d.promotions[q].status
                               /\ e.promotions[q].revision = d.promotions[q].revision
                               /\ e.promotions[q].credit # "awarded"
  <2> HIDE DEF e
  <2> QED
    BY <1>2, RetirementEnds
<1>5. e \in [symbol : SymbolState, revisions : RevisionRows, submissions : SubmissionRows,
             promotions : PromotionRows, policy : Policies, foreign : BOOLEAN]
  BY <1>1, <1>2, <1>3, <1>4 DEF Demoted, Unpublished
<1> HIDE DEF e
<1>6. e \in Rows
  BY <1>5, RowsAreTables
<1>7. SubmissionsMove(d, e, L)
  BY <1>2, SameSubmissions
<1>8. PromotionsMove(d, e)
  BY <1>4 DEF PromotionsMove, PromotionsKept
<1>9. SymbolMoves(d, e, alone)
  BY <1>2 DEF SymbolMoves, SymbolKept, ForeignPublic, Established
<1>10. CreditShown(e)
  BY <1>4 DEF CreditShown, Credited
<1>11. Publishes(d, e)
  BY <1>4, NothingPublished DEF Unpublished
<1>12. Moves(d, e, L, alone)
  BY <1>6, <1>7, <1>8, <1>9, <1>10, <1>11, MovesTogether
<1> QED
  BY <1>12 DEF e

\* apply_withdrawal publishes nothing and reverses every award.
LEMMA WithdrawalMoves ==
    ASSUME NEW d, Consistent(d), NEW L, NEW alone
    PROVE  Moves(d, Withdrawn(d), L, alone)
<1> DEFINE e == Withdrawn(d)
<1>1. d \in [symbol : SymbolState, revisions : RevisionRows, submissions : SubmissionRows,
             promotions : PromotionRows, policy : Policies, foreign : BOOLEAN]
  BY RowsAreTables DEF Consistent
<1>2. /\ e.submissions = d.submissions /\ e.foreign = d.foreign /\ e.policy = d.policy
      /\ e.symbol = d.symbol
      /\ e.revisions = RevisionsWithdrawn(d, WithdrawableStates)
      /\ e.promotions = PromotionsRetired(d, WithdrawableStates)
  BY <1>1 DEF Withdrawn
<1>3. /\ Unpublished(d, e.revisions) /\ e.promotions \in PromotionRows
      /\ \A q \in Promotions : /\ e.promotions[q].status = d.promotions[q].status
                               /\ e.promotions[q].revision = d.promotions[q].revision
                               /\ e.promotions[q].credit # "awarded"
  <2> HIDE DEF e
  <2> QED
    BY <1>2, RetirementEnds
<1>4. e \in [symbol : SymbolState, revisions : RevisionRows, submissions : SubmissionRows,
             promotions : PromotionRows, policy : Policies, foreign : BOOLEAN]
  BY <1>1, <1>2, <1>3 DEF Withdrawn, Unpublished
<1> HIDE DEF e
<1>5. e \in Rows
  BY <1>4, RowsAreTables
<1>6. SubmissionsMove(d, e, L) /\ SymbolMoves(d, e, alone)
  BY <1>2, SameSubmissions, SameSymbol
<1>7. PromotionsMove(d, e)
  BY <1>3 DEF PromotionsMove, PromotionsKept
<1>8. CreditShown(e)
  BY <1>3 DEF CreditShown, Credited
<1>9. Publishes(d, e)
  BY <1>3, NothingPublished DEF Unpublished
<1>10. Moves(d, e, L, alone)
  BY <1>5, <1>6, <1>7, <1>8, <1>9, MovesTogether
<1> QED
  BY <1>10 DEF e

\* Every operation: what it commits is a move of the rows under its locks.
LEMMA OutcomeMoves ==
    ASSUME NEW d, Consistent(d), NEW r, RequestOK(d, r), NEW s, SeenOK(r, s),
           RoomFor(d, r), Established(d, r), NEW L,
           r.op \in SubmissionOps => SubmissionRow(r) \in L,
           NEW alone, TouchesSymbol(r) => alone
    PROVE  Moves(d, Outcome(d, s, r), L, alone)
<1>1. r.op \in AllOps
  BY DEF RequestOK, RequestState
<1>2. CASE r.op = "create_draft"
  <2>1. alone /\ Outcome(d, s, r) = DraftCreated(d)
    BY <1>2 DEF TouchesSymbol, Outcome
  <2> QED
    BY <1>2, <2>1, DraftMoves
<1>3. CASE r.op = "update_draft"
  <2>1. Outcome(d, s, r) = DetailsUpdated(d, s, r)
    BY <1>3 DEF Outcome
  <2> QED
    BY <1>3, <2>1, UpdateDraftMoves
<1>4. CASE r.op = "attach_asset"
  <2>1. Outcome(d, s, r) = AssetAttached(d, s, r)
    BY <1>4 DEF Outcome
  <2> QED
    BY <1>4, <2>1, UpdateDraftMoves
<1>5. CASE r.op = "remove_asset"
  <2>1. Outcome(d, s, r) = AssetRemoved(d, s, r)
    BY <1>5 DEF Outcome
  <2> QED
    BY <1>5, <2>1, UpdateDraftMoves
<1>6. CASE r.op = "submit_for_review"
  <2>1. Outcome(d, s, r) = Submitted(d, s, r)
    BY <1>6 DEF Outcome
  <2> QED
    BY <1>6, <2>1, SubmitMoves
<1>7. CASE r.op = "withdraw_submission"
  <2>1. Outcome(d, s, r) = SubmissionWithdrawn(d, s, r) /\ SubmissionRow(r) \in L
    BY <1>7 DEF Outcome, SubmissionOps
  <2> QED
    BY <1>7, <2>1, WithdrawMoves
<1>8. CASE r.op = "decide_submission"
  <2>1. alone /\ Outcome(d, s, r) = Decided(d, s, r) /\ SubmissionRow(r) \in L
    BY <1>8 DEF TouchesSymbol, Outcome, SubmissionOps
  <2> QED
    BY <1>8, <2>1, DecisionMoves
<1>9. CASE r.op = "create_new_draft_revision"
  <2>1. alone /\ Outcome(d, s, r) = RevisionStarted(d, s)
    BY <1>9 DEF TouchesSymbol, Outcome
  <2> QED
    BY <1>9, <2>1, RevisionMoves
<1>10. CASE r.op = "discard_pending_revision"
  <2>1. alone /\ Outcome(d, s, r) = PendingDiscarded(d, s)
    BY <1>10 DEF TouchesSymbol, Outcome
  <2> QED
    BY <1>10, <2>1, RevisionMoves
<1>11. CASE r.op = "set_organization_wide"
  <2>1. alone /\ Outcome(d, s, r) = LibrarySet(d, s, r)
    BY <1>11 DEF TouchesSymbol, Outcome
  <2> QED
    BY <2>1, FlagMoves
<1>12. CASE r.op = "set_review_policy"
  <2>1. Outcome(d, s, r) = [d EXCEPT !.policy = r.arg] /\ r.arg \in Policies
    BY <1>12 DEF Outcome, RequestOK, Policies
  <2> QED
    BY <2>1, PolicyMoves
<1>13. CASE r.op = "submit_promotion_request"
  <2>1. Outcome(d, s, r) = PromotionSubmitted(d)
    BY <1>13 DEF Outcome
  <2> QED
    BY <1>13, <2>1, PromotionAdded
<1>14. CASE r.op = "withdraw_promotion_request"
  <2>1. /\ Outcome(d, s, r) = StatusWritten(d, r.on, "withdrawn")
        /\ r.on \in Promotions /\ d.promotions[r.on].status # "none"
    BY <1>14 DEF Outcome, StatusWritten, RequestOK, PromotionOps
  <2> QED
    BY <2>1, PromotionStatusMoves
<1>15. CASE r.op = "open_promotion_review_case"
  <2>1. /\ Outcome(d, s, r) = StatusWritten(d, r.on, "triage")
        /\ r.on \in Promotions /\ d.promotions[r.on].status # "none"
    BY <1>15 DEF Outcome, StatusWritten, RequestOK, PromotionOps
  <2> QED
    BY <2>1, PromotionStatusMoves
<1>16. CASE r.op = "execute_organization_promotion_handoff"
  <2>1. alone /\ Outcome(d, s, r) = Promoted(d, s, r)
    BY <1>16 DEF TouchesSymbol, Outcome
  <2> QED
    BY <1>16, <2>1, HandoffMoves
<1>17. CASE r.op = "execute_demotion"
  <2>1. alone /\ Outcome(d, s, r) = Demoted(d)
    BY <1>17 DEF TouchesSymbol, Outcome
  <2> QED
    BY <1>17, <2>1, DemotionMoves
<1>18. CASE r.op = "apply_withdrawal"
  <2>1. Outcome(d, s, r) = Withdrawn(d)
    BY <1>18 DEF Outcome
  <2> QED
    BY <2>1, WithdrawalMoves
<1>19. CASE r.op = "replace_items"
  <2>1. alone /\ Outcome(d, s, r) = ItemsReplaced(d, r.arg = "add")
    BY <1>19 DEF TouchesSymbol, Outcome, ItemsReplaced
  <2> QED
    BY <1>19, <2>1, SetItemsMove
<1> QED
  BY <1>1, <1>2, <1>3, <1>4, <1>5, <1>6, <1>7, <1>8, <1>9, <1>10, <1>11, <1>12, <1>13, <1>14,
     <1>15, <1>16, <1>17, <1>18, <1>19
  DEF AllOps, EditOps, SubmissionOps, PromotionOps, SymbolOps

-----------------------------------------------------------------------------
(* The requests that can be made speak of rows there are.                  *)

\* The fields of a request.
LEMMA MadeFields ==
    ASSUME NEW op, NEW ons, NEW bys, NEW args, NEW r \in Made(op, ons, bys, args)
    PROVE  /\ op \in Operations
           /\ r.op = op /\ r.on \in ons /\ r.by \in bys /\ r.arg \in args
           /\ r = [op |-> r.op, on |-> r.on, by |-> r.by, arg |-> r.arg]
<1>1. op \in Operations
  BY DEF Made
<1>2. PICK o \in ons, b \in bys, a \in args : r = [op |-> op, on |-> o, by |-> b, arg |-> a]
  BY <1>1 DEF Made
<1> QED
  BY <1>1, <1>2

\* A request names rows that exist.
LEMMA RequestsSpeakOfRows ==
    ASSUME NEW d, Consistent(d), NEW r \in Requestable(d)
    PROVE  RequestOK(d, r) /\ r.op \in Operations
<1> DEFINE active == {s \in Submissions : d.submissions[s].status = "active"}
           held == {v \in Revisions : State(d, v) # "none"}
           ops1 == {"create_draft", "create_new_draft_revision", "discard_pending_revision",
                    "submit_promotion_request", "execute_demotion", "apply_withdrawal"}
           ops2 == {"update_draft", "attach_asset", "remove_asset"}
           ops3 == {"withdraw_promotion_request", "open_promotion_review_case",
                    "execute_organization_promotion_handoff"}
<1>1. None \in Nat /\ Revisions \subseteq Nat /\ Submissions \subseteq Nat /\ Promotions \subseteq Nat
  BY IdsAreNumbers DEF None
<1>2. \/ \E op \in ops1 : r \in Made(op, {None}, {None}, {"none"})
      \/ \E op \in ops2 : r \in Made(op, held, {None}, {"none"})
      \/ r \in Made("submit_for_review", held, Members, {"none"})
      \/ r \in Made("withdraw_submission", active, Members, {"none"})
      \/ r \in Made("decide_submission", active, Members, Verdicts)
      \/ r \in Made("set_organization_wide", {None}, {None}, {"enabled", "disabled"})
      \/ r \in Made("set_review_policy", {None}, {None}, {"self_approval", "independent"})
      \/ r \in Made("replace_items", {None}, {None}, {"add", "remove"})
      \/ \E op \in ops3 : r \in Made(op, OpenPromotions(d), {None}, {"none"})
  BY DEF Requestable, Plain
<1>3. ASSUME NEW op \in AllOps, NEW ons \in SUBSET Nat, NEW bys \in SUBSET (Members \cup {None}),
             NEW args \in SUBSET Arguments, r \in Made(op, ons, bys, args)
      PROVE  /\ r \in RequestState /\ r.op \in Operations
             /\ r.op = op /\ r.on \in ons /\ r.by \in bys /\ r.arg \in args
  <2>1. /\ op \in Operations
        /\ r.op = op /\ r.on \in ons /\ r.by \in bys /\ r.arg \in args
        /\ r = [op |-> r.op, on |-> r.on, by |-> r.by, arg |-> r.arg]
    BY <1>3, MadeFields
  <2> QED
    BY <2>1 DEF RequestState
<1>4. held \subseteq Revisions
  OBVIOUS
<1>5. active \subseteq Submissions /\ \A s \in active : d.submissions[s].status # "none"
  OBVIOUS
<1>6. /\ OpenPromotions(d) \subseteq Promotions
      /\ \A q \in OpenPromotions(d) : d.promotions[q].status # "none"
  BY DEF OpenPromotions, Open
<1> HIDE DEF active, held
<1>7. CASE \E op \in ops1 : r \in Made(op, {None}, {None}, {"none"})
  BY <1>1, <1>3, <1>7 DEF AllOps, SymbolOps, EditOps, SubmissionOps, PromotionOps, Arguments,
                          RequestOK
<1>8. CASE \E op \in ops2 : r \in Made(op, held, {None}, {"none"})
  BY <1>1, <1>3, <1>4, <1>8 DEF AllOps, SymbolOps, EditOps, SubmissionOps, PromotionOps,
                                Arguments, RequestOK
<1>9. CASE r \in Made("submit_for_review", held, Members, {"none"})
  <2>1. /\ "submit_for_review" \in AllOps /\ held \in SUBSET Nat
        /\ Members \in SUBSET (Members \cup {None}) /\ {"none"} \in SUBSET Arguments
    BY <1>1, <1>4 DEF AllOps, SymbolOps, EditOps, SubmissionOps, PromotionOps, Arguments
  <2>2. /\ r \in RequestState /\ r.op \in Operations /\ r.op = "submit_for_review"
        /\ r.on \in held /\ r.by \in Members /\ r.arg \in {"none"}
    BY <1>3, <1>9, <2>1
  <2> QED
    BY <1>4, <2>2 DEF RequestOK, EditOps, SubmissionOps, PromotionOps
<1>10. CASE r \in Made("withdraw_submission", active, Members, {"none"})
  <2>1. /\ "withdraw_submission" \in AllOps /\ active \in SUBSET Nat
        /\ Members \in SUBSET (Members \cup {None}) /\ {"none"} \in SUBSET Arguments
    BY <1>1, <1>5 DEF AllOps, SymbolOps, EditOps, SubmissionOps, PromotionOps, Arguments
  <2>2. /\ r \in RequestState /\ r.op \in Operations /\ r.op = "withdraw_submission"
        /\ r.on \in active /\ r.by \in Members /\ r.arg \in {"none"}
    BY <1>3, <1>10, <2>1
  <2> QED
    BY <1>5, <2>2 DEF RequestOK, EditOps, SubmissionOps, PromotionOps
<1>11. CASE r \in Made("decide_submission", active, Members, Verdicts)
  <2>1. /\ "decide_submission" \in AllOps /\ active \in SUBSET Nat
        /\ Members \in SUBSET (Members \cup {None}) /\ Verdicts \in SUBSET Arguments
    BY <1>1, <1>5 DEF AllOps, SymbolOps, EditOps, SubmissionOps, PromotionOps, Arguments
  <2>2. /\ r \in RequestState /\ r.op \in Operations /\ r.op = "decide_submission"
        /\ r.on \in active /\ r.by \in Members /\ r.arg \in Verdicts
    BY <1>3, <1>11, <2>1
  <2> QED
    BY <1>5, <2>2 DEF RequestOK, EditOps, SubmissionOps, PromotionOps
<1>12. CASE r \in Made("set_organization_wide", {None}, {None}, {"enabled", "disabled"})
  <2>1. /\ "set_organization_wide" \in AllOps /\ {None} \in SUBSET Nat
        /\ {None} \in SUBSET (Members \cup {None}) /\ {"enabled", "disabled"} \in SUBSET Arguments
    BY <1>1 DEF AllOps, SymbolOps, EditOps, SubmissionOps, PromotionOps, Arguments
  <2>2. /\ r \in RequestState /\ r.op \in Operations /\ r.op = "set_organization_wide"
        /\ r.on \in {None} /\ r.by \in {None} /\ r.arg \in {"enabled", "disabled"}
    BY <1>3, <1>12, <2>1
  <2> QED
    BY <2>2 DEF RequestOK, EditOps, SubmissionOps, PromotionOps
<1>13. CASE r \in Made("set_review_policy", {None}, {None}, {"self_approval", "independent"})
  <2>1. /\ "set_review_policy" \in AllOps /\ {None} \in SUBSET Nat
        /\ {None} \in SUBSET (Members \cup {None}) /\ {"self_approval", "independent"} \in SUBSET Arguments
    BY <1>1 DEF AllOps, SymbolOps, EditOps, SubmissionOps, PromotionOps, Arguments
  <2>2. /\ r \in RequestState /\ r.op \in Operations /\ r.op = "set_review_policy"
        /\ r.on \in {None} /\ r.by \in {None} /\ r.arg \in {"self_approval", "independent"}
    BY <1>3, <1>13, <2>1
  <2> QED
    BY <2>2 DEF RequestOK, EditOps, SubmissionOps, PromotionOps
<1>14. CASE r \in Made("replace_items", {None}, {None}, {"add", "remove"})
  <2>1. /\ "replace_items" \in AllOps /\ {None} \in SUBSET Nat
        /\ {None} \in SUBSET (Members \cup {None}) /\ {"add", "remove"} \in SUBSET Arguments
    BY <1>1 DEF AllOps, SymbolOps, EditOps, SubmissionOps, PromotionOps, Arguments
  <2>2. /\ r \in RequestState /\ r.op \in Operations /\ r.op = "replace_items"
        /\ r.on \in {None} /\ r.by \in {None} /\ r.arg \in {"add", "remove"}
    BY <1>3, <1>14, <2>1
  <2> QED
    BY <2>2 DEF RequestOK, EditOps, SubmissionOps, PromotionOps
<1>15. CASE \E op \in ops3 : r \in Made(op, OpenPromotions(d), {None}, {"none"})
  BY <1>1, <1>3, <1>6, <1>15 DEF AllOps, SymbolOps, EditOps, SubmissionOps, PromotionOps,
                                 Arguments, RequestOK
<1> QED
  BY <1>2, <1>7, <1>8, <1>9, <1>10, <1>11, <1>12, <1>13, <1>14, <1>15

-----------------------------------------------------------------------------
(* Locks.                                                                  *)
LockSet == {"symbol", "policy", "set", "submission", "promotion"} \X Nat

\* The rows are different rows.
LEMMA RowsDiffer ==
    ASSUME NEW r \in RequestState
    PROVE  /\ {SymbolRow, PolicyRow, SetRow, SubmissionRow(r), PromotionRow(r)} \subseteq LockSet
           /\ SymbolRow \notin {PolicyRow, SetRow, SubmissionRow(r), PromotionRow(r)}
           /\ PolicyRow \notin {SetRow, SubmissionRow(r), PromotionRow(r)}
<1>1. r.on \in Nat
  BY DEF RequestState
<1>2. /\ SymbolRow \in LockSet /\ SymbolRow[1] = "symbol"
      /\ PolicyRow \in LockSet /\ PolicyRow[1] = "policy"
      /\ SetRow \in LockSet /\ SetRow[1] = "set"
  BY DEF LockSet, SymbolRow, PolicyRow, SetRow
<1>3. /\ SubmissionRow(r) \in LockSet /\ SubmissionRow(r)[1] = "submission"
      /\ PromotionRow(r) \in LockSet /\ PromotionRow(r)[1] = "promotion"
  BY <1>1 DEF LockSet, SubmissionRow, PromotionRow
<1> QED
  BY <1>2, <1>3

\* The order in which a request locks its rows.
LEMMA Plans ==
    ASSUME NEW r \in RequestState
    PROVE  /\ r.op = "decide_submission" => Plan(r) = <<PolicyRow, SubmissionRow(r)>>
           /\ r.op = "withdraw_submission" => Plan(r) = <<SubmissionRow(r)>>
           /\ r.op = "set_review_policy" => Plan(r) = <<PolicyRow>>
           /\ r.op \in {"withdraw_promotion_request", "open_promotion_review_case"}
                => Plan(r) = <<PromotionRow(r)>>
           /\ r.op = "execute_organization_promotion_handoff"
                => Plan(r) = <<PromotionRow(r), SymbolRow>>
           /\ r.op = "replace_items" => Plan(r) = <<SetRow, SymbolRow>>
           /\ r.op \in {"discard_pending_revision", "submit_promotion_request",
                        "execute_demotion", "apply_withdrawal"} => Plan(r) = <<SymbolRow>>
           /\ r.op \in EditOps \cup {"create_draft", "create_new_draft_revision",
                                     "set_organization_wide"} => Plan(r) = << >>
BY DEF Plan, DecisionLocks, WithdrawalLocks, PromotionLocks, HandoffLocks, SymbolLock,
       SetItemsLocks, EditOps

\* A plan has at most two rows, and the symbol's is the last.
TwoRows(plan, a, b) ==
    /\ Len(plan) = 2 /\ plan[2] = b
    /\ \A i \in 1..Len(plan) : (i = 1 /\ plan[i] = a) \/ (i = 2 /\ plan[i] = b)
OneRow(plan, a) ==
    Len(plan) = 1 /\ plan[1] = a /\ \A i \in 1..Len(plan) : i = 1 /\ plan[i] = a

\* The lengths and the rows of the two shapes of a plan.
LEMMA PlanLengths ==
    ASSUME NEW a, NEW b
    PROVE  TwoRows(<<a, b>>, a, b) /\ OneRow(<<a>>, a)
<1>1. Len(<<a, b>>) = 2 /\ <<a, b>>[1] = a /\ <<a, b>>[2] = b
  OBVIOUS
<1>2. Len(<<a>>) = 1 /\ <<a>>[1] = a
  OBVIOUS
<1>3. \A i \in 1..2 : i = 1 \/ i = 2
  OBVIOUS
<1>4. \A i \in 1..1 : i = 1
  OBVIOUS
<1> QED
  BY <1>1, <1>2, <1>3, <1>4 DEF TwoRows, OneRow

\* So a request that holds the symbol's row, or its submission's, waits for no other.
LEMMA PlanShape ==
    ASSUME NEW r \in RequestState
    PROVE  /\ Len(Plan(r)) \in {0, 1, 2}
           /\ \A i \in 1..Len(Plan(r)) : Plan(r)[i] \in LockSet
           /\ \A i \in 1..Len(Plan(r)) : Plan(r)[i] = SymbolRow => i = Len(Plan(r))
           /\ r.op \in SubmissionOps =>
                Len(Plan(r)) > 0 /\ Plan(r)[Len(Plan(r))] = SubmissionRow(r)
           /\ r.op \in {"submit_promotion_request", "execute_organization_promotion_handoff",
                        "execute_demotion", "replace_items"} =>
                Len(Plan(r)) > 0 /\ Plan(r)[Len(Plan(r))] = SymbolRow
<1>1. r.op \in AllOps
  BY DEF RequestState
<1>2. CASE r.op = "decide_submission"
  <2>1. TwoRows(Plan(r), PolicyRow, SubmissionRow(r))
    BY <1>2, Plans, PlanLengths
  <2> QED
    BY <1>2, <2>1, RowsDiffer DEF SubmissionOps, TwoRows
<1>3. CASE r.op = "withdraw_submission"
  <2>1. OneRow(Plan(r), SubmissionRow(r))
    BY <1>3, Plans, PlanLengths
  <2> QED
    BY <1>3, <2>1, RowsDiffer DEF SubmissionOps, OneRow
<1>4. CASE r.op = "set_review_policy"
  <2>1. OneRow(Plan(r), PolicyRow)
    BY <1>4, Plans, PlanLengths
  <2> QED
    BY <1>4, <2>1, RowsDiffer DEF SubmissionOps, OneRow
<1>5. CASE r.op \in {"withdraw_promotion_request", "open_promotion_review_case"}
  <2>1. OneRow(Plan(r), PromotionRow(r))
    BY <1>5, Plans, PlanLengths
  <2> QED
    BY <1>5, <2>1, RowsDiffer DEF SubmissionOps, OneRow
<1>6. CASE r.op = "execute_organization_promotion_handoff"
  <2>1. TwoRows(Plan(r), PromotionRow(r), SymbolRow)
    BY <1>6, Plans, PlanLengths
  <2> QED
    BY <1>6, <2>1, RowsDiffer DEF SubmissionOps, TwoRows
<1>7. CASE r.op = "replace_items"
  <2>1. TwoRows(Plan(r), SetRow, SymbolRow)
    BY <1>7, Plans, PlanLengths
  <2> QED
    BY <1>7, <2>1, RowsDiffer DEF SubmissionOps, TwoRows
<1>8. CASE r.op \in {"discard_pending_revision", "submit_promotion_request",
                     "execute_demotion", "apply_withdrawal"}
  <2>1. OneRow(Plan(r), SymbolRow)
    BY <1>8, Plans, PlanLengths
  <2> QED
    BY <1>8, <2>1, RowsDiffer DEF SubmissionOps, OneRow
<1>9. CASE r.op \in EditOps \cup {"create_draft", "create_new_draft_revision",
                                  "set_organization_wide"}
  <2>1. Plan(r) = << >> /\ Len(<< >>) = 0
    BY <1>9, Plans
  <2> QED
    BY <1>9, <2>1 DEF SubmissionOps, EditOps
<1> QED
  BY <1>1, <1>2, <1>3, <1>4, <1>5, <1>6, <1>7, <1>8, <1>9
  DEF AllOps, SubmissionOps, PromotionOps, SymbolOps

\* The check of the last lock establishes what the commit relies on.
LEMMA LastCheckEstablishes ==
    ASSUME NEW d, Consistent(d), NEW r \in RequestState,
           Len(Plan(r)) > 0 => LockCheck(d, r, Plan(r)[Len(Plan(r))])
    PROVE  Established(d, r)
<1>1. CASE r.op = "decide_submission"
  <2>1. SubmissionCloses(d, r)
    BY <1>1, PlanShape, RowsDiffer DEF LockCheck, SubmissionOps
  <2> QED
    BY <1>1, <2>1 DEF Established, SubmissionOps, SubmissionCloses
<1>2. CASE r.op = "withdraw_submission"
  <2>1. MayWithdraw(d, r)
    BY <1>2, PlanShape DEF LockCheck, SubmissionOps
  <2> QED
    BY <1>2, <2>1 DEF Established, SubmissionOps, SubmissionCloses, MayWithdraw
<1>3. CASE r.op = "submit_promotion_request"
  <2>1. MayPromote(d)
    BY <1>3, PlanShape DEF LockCheck
  <2> QED
    BY <1>3, <2>1 DEF Established, SubmissionOps, MayPromote
<1>4. CASE r.op = "execute_organization_promotion_handoff"
  <2>1. StillCurrent(d, r)
    BY <1>4, PlanShape DEF LockCheck
  <2> QED
    BY <1>4, <2>1 DEF Established, SubmissionOps
<1>5. CASE r.op = "execute_demotion"
  <2>1. MayDemote(d)
    BY <1>5, PlanShape DEF LockCheck
  <2> QED
    BY <1>5, <2>1 DEF Established, SubmissionOps, MayDemote
<1>6. CASE r.op = "replace_items"
  <2>1. SetItemsLocks[Len(SetItemsLocks)] = SymbolRow
    BY DEF SetItemsLocks
  <2>2. MayHold(d, r)
    BY <1>6, <2>1, PlanShape DEF LockCheck
  <2>3. r.arg = "add" => d.foreign \/ Shown(d)
    BY <2>2 DEF MayHold
  <2>4. r.arg = "add" => d.symbol.visibility = "public"
    BY <2>3 DEF Shown, Consistent, ForeignPublic
  <2> QED
    BY <1>6, <2>4 DEF Established, SubmissionOps
<1> QED
  BY <1>1, <1>2, <1>3, <1>4, <1>5, <1>6 DEF Established, SubmissionOps

-----------------------------------------------------------------------------
(* The processes, and the inductive invariant.                             *)
TxState ==
    [request : RequestState \cup {Idle}, taken : Nat, locks : SUBSET LockSet,
     seen : SeenState \cup {Idle}, policy : Policies \cup {"unread"}]

\* A request in progress: it holds what it has locked (of the policy, when there
\* is one), and what its checks established holds when it has locked everything.
Serves(d, t) ==
    /\ t.request = Idle => t.locks = {}
    /\ t.request # Idle =>
        /\ RequestOK(d, t.request) /\ t.request.op \in Operations
        /\ SeenOK(t.request, t.seen)
        /\ t.taken <= Len(Plan(t.request))
        /\ t.locks \subseteq {Plan(t.request)[i] : i \in 1..t.taken}
        /\ \A i \in 1..t.taken :
            Plan(t.request)[i] = PolicyRow \/ Plan(t.request)[i] \in t.locks
        /\ t.taken = Len(Plan(t.request)) => Established(d, t.request)

\* Two decisions may share the policy row; nothing else is shared.
Shared(lock, t1, t2) ==
    lock = PolicyRow /\ t1.request.op = "decide_submission" /\ t2.request.op = "decide_submission"
LocksApart ==
    \A p1, p2 \in Processes : p1 # p2 =>
        \A lock \in tx[p1].locks \cap tx[p2].locks : Shared(lock, tx[p1], tx[p2])

IInv ==
    /\ Consistent(db)
    /\ tx \in [Processes -> TxState]
    /\ requests \in 0..MaxRequests
    /\ \A p \in Processes : Serves(db, tx[p])
    /\ LocksApart

\* A process that serves nobody.
LEMMA FreeServes ==
    /\ Free \in TxState /\ Free.locks = {} /\ Free.request = Idle
    /\ \A d : Serves(d, Free)
BY DEF Free, TxState, Serves, Policies

\* What another request commits keeps what this one has established: it does
\* not hold this one's locks, and if it changes the symbol this one does not
\* hold the symbol's row.
LEMMA OthersServe ==
    ASSUME NEW d, NEW e, NEW L, NEW alone, Moves(d, e, L, alone),
           NEW t \in TxState, Serves(d, t), SymbolRow \in t.locks => ~alone,
           \A lock \in t.locks \cap L : lock = PolicyRow
    PROVE  Serves(e, t)
<1> SUFFICES ASSUME t.request # Idle PROVE Serves(e, t)
  BY DEF Serves
<1> DEFINE r == t.request
<1>1. /\ RequestOK(d, r) /\ r \in RequestState
      /\ t.taken <= Len(Plan(r)) /\ t.taken \in Nat
      /\ \A i \in 1..t.taken : Plan(r)[i] = PolicyRow \/ Plan(r)[i] \in t.locks
      /\ t.taken = Len(Plan(r)) => Established(d, r)
  BY DEF Serves, RequestOK, TxState
<1>2. RequestOK(e, r)
  BY <1>1 DEF RequestOK, Moves, SubmissionsMove, SubmissionsKept, PromotionsMove, PromotionsKept
<1> HIDE DEF r
<1>3. ASSUME t.taken = Len(Plan(r)) PROVE Established(e, r)
  <2>1. Len(Plan(r)) > 0 => Plan(r)[Len(Plan(r))] = PolicyRow \/ Plan(r)[Len(Plan(r))] \in t.locks
    BY <1>1, <1>3
  <2>2. CASE r.op \in SubmissionOps
    <3>1. SubmissionRow(r) \in t.locks /\ SubmissionRow(r) # PolicyRow
      BY <1>1, <2>1, <2>2, PlanShape, RowsDiffer
    <3>2. <<"submission", r.on>> \notin L
      BY <3>1 DEF SubmissionRow
    <3>3. r.on \in Submissions /\ d.submissions[r.on].status # "none"
      BY <1>1, <2>2 DEF RequestOK
    <3>4. e.submissions[r.on] = d.submissions[r.on]
      BY <3>2, <3>3 DEF Moves, SubmissionsMove, SubmissionsKept
    <3> QED
      BY <1>1, <1>3, <2>2, <3>4 DEF Established, SubmissionOps
  <2>3. CASE r.op \in {"submit_promotion_request", "execute_organization_promotion_handoff",
                       "execute_demotion", "replace_items"}
    <3>1. SymbolRow \in t.locks
      BY <1>1, <2>1, <2>3, PlanShape, RowsDiffer
    <3>2. /\ e.symbol.visibility = d.symbol.visibility /\ e.symbol.current = d.symbol.current
          /\ e.foreign = d.foreign
      BY <3>1 DEF Moves, SymbolMoves, SymbolKept
    <3>3. VerdictsKept(d, e)
      BY DEF Moves, SubmissionsMove
    <3>4. CASE r.op = "submit_promotion_request"
      <4>1. ApprovedDecision(e, d.symbol.current)
        BY <1>1, <1>3, <3>3, <3>4, ApprovedStays DEF Established
      <4> QED
        BY <3>2, <3>4, <4>1 DEF Established, SubmissionOps
    <3>5. CASE r.op = "execute_organization_promotion_handoff"
      <4>1. e.promotions[r.on].revision = d.promotions[r.on].revision
        BY <1>1, <3>5 DEF RequestOK, PromotionOps, Moves, PromotionsMove, PromotionsKept
      <4>2. StillCurrent(d, r)
        BY <1>1, <1>3, <3>5 DEF Established
      <4> QED
        BY <3>2, <3>5, <4>1, <4>2 DEF Established, SubmissionOps, StillCurrent, Private
    <3>6. CASE r.op = "execute_demotion"
      BY <1>1, <1>3, <3>2, <3>6 DEF Established, SubmissionOps
    <3>7. CASE r.op = "replace_items"
      BY <1>1, <1>3, <3>2, <3>7 DEF Established, SubmissionOps
    <3> QED
      BY <2>3, <3>4, <3>5, <3>6, <3>7
  <2>4. CASE r.op \notin SubmissionOps \cup {"submit_promotion_request",
                "execute_organization_promotion_handoff", "execute_demotion", "replace_items"}
    BY <2>4 DEF Established
  <2> QED
    BY <2>2, <2>3, <2>4
<1> QED
  BY <1>2, <1>3 DEF Serves, r

\* A step of one process keeps the invariant if it leaves that process in order
\* and moves the rows under the locks that process has.
LEMMA ProcessStep ==
    ASSUME IInv, NEW p \in Processes, NEW t \in TxState, tx' = [tx EXCEPT ![p] = t],
           NEW alone, Moves(db, db', tx[p].locks, alone),
           alone => \A q \in Processes : q # p => SymbolRow \notin tx[q].locks,
           Serves(db', t), requests' \in 0..MaxRequests,
           \A q \in Processes : q # p =>
                \A lock \in t.locks \cap tx[q].locks : Shared(lock, t, tx[q])
    PROVE  IInv'
<1>1. /\ tx \in [Processes -> TxState] /\ \A q \in Processes : Serves(db, tx[q])
      /\ LocksApart
  BY DEF IInv
<1>2. tx' \in [Processes -> TxState] /\ tx'[p] = t /\ \A q \in Processes : q # p => tx'[q] = tx[q]
  BY <1>1
<1>3. \A q \in Processes : Serves(db', tx'[q])
  <2> TAKE q \in Processes
  <2>1. CASE q = p
    BY <1>2, <2>1
  <2>2. CASE q # p
    <3>1. tx[q] \in TxState /\ Serves(db, tx[q]) /\ (SymbolRow \in tx[q].locks => ~alone)
      BY <1>1, <2>2
    <3>2. \A lock \in tx[q].locks \cap tx[p].locks : lock = PolicyRow
      BY <1>1, <2>2 DEF LocksApart, Shared
    <3>3. Serves(db', tx[q])
      BY <3>1, <3>2, OthersServe
    <3> QED
      BY <1>2, <2>2, <3>3
  <2> QED
    BY <2>1, <2>2
<1>4. LocksApart'
  <2> SUFFICES ASSUME NEW q1 \in Processes, NEW q2 \in Processes, q1 # q2,
                      NEW lock \in tx'[q1].locks \cap tx'[q2].locks
               PROVE  Shared(lock, tx'[q1], tx'[q2])
    BY DEF LocksApart, Shared
  <2>1. CASE q1 = p
    BY <1>2, <2>1
  <2>2. CASE q2 = p
    BY <1>2, <2>2 DEF Shared
  <2>3. CASE q1 # p /\ q2 # p
    BY <1>1, <1>2, <2>3 DEF LocksApart
  <2> QED
    BY <2>1, <2>2, <2>3
<1>5. Consistent(db')
  BY DEF Moves
<1> QED
  BY <1>2, <1>3, <1>4, <1>5 DEF IInv

\* The invariant holds of the first states.
LEMMA InvariantInit == Init => IInv
<1> SUFFICES ASSUME Init PROVE IInv
  OBVIOUS
<1>1. Consistent(db)
  BY InitialStatesAssumption DEF Init
<1>2. tx \in [Processes -> TxState] /\ \A p \in Processes : tx[p] = Free
  BY FreeServes DEF Init
<1>3. \A p \in Processes : Serves(db, tx[p])
  BY <1>2, FreeServes
<1>4. LocksApart
  BY <1>2, FreeServes DEF LocksApart
<1>5. requests \in 0..MaxRequests
  BY LifecycleAssumption DEF Init
<1> QED
  BY <1>1, <1>2, <1>3, <1>4, <1>5 DEF IInv

\* What a request loads is typed.
LEMMA SnapshotSees ==
    ASSUME NEW d, Consistent(d), NEW r, RequestOK(d, r)
    PROVE  SeenOK(r, Snapshot(d, r))
<1>1. /\ d.symbol \in SymbolState /\ d.revisions \in RevisionRows
      /\ d.submissions \in SubmissionRows
  BY RowsAreTables DEF Consistent
<1>2. r.op \in SubmissionOps => d.submissions[r.on].revision \in Revisions \cup {None}
  BY <1>1 DEF RequestOK, SubmissionRows, SubmissionState
<1>3. r.op \in EditOps => r.on \in Revisions /\ Target(d, r) = r.on
  BY DEF RequestOK, EditOps, Target
<1>4. Target(d, r) \in Revisions \cup {None}
  <2>1. CASE r.op \in EditOps
    BY <1>3, <2>1
  <2>2. CASE r.op \in SubmissionOps
    BY <1>2, <2>2 DEF Target, SubmissionOps
  <2>3. CASE r.op \notin EditOps \cup SubmissionOps
    BY <1>1, <2>3 DEF Target, EditOps, SubmissionOps, SymbolState
  <2> QED
    BY <2>1, <2>2, <2>3
<1> DEFINE v == Target(d, r)
           revision == IF v = None THEN NoRevision ELSE d.revisions[v]
<1>5. revision \in RevisionState
  BY <1>1, <1>4 DEF NoRevision, RevisionState, RevisionRows
<1>6. Snapshot(d, r) = [symbol |-> d.symbol, target |-> v, revision |-> revision]
  BY DEF Snapshot
<1> HIDE DEF v, revision
<1>7. Snapshot(d, r) \in SeenState /\ Snapshot(d, r).target = v
  BY <1>1, <1>4, <1>5, <1>6 DEF SeenState, v
<1> QED
  BY <1>3, <1>7 DEF SeenOK, v

\* A new request.
LEMMA RequestKeeps ==
    ASSUME IInv, NEW p \in Processes, Request(p)
    PROVE  IInv'
<1>1. PICK r \in Requestable(db) :
        tx' = [tx EXCEPT ![p] = [request |-> r, taken |-> 0, locks |-> {},
                                 seen |-> Snapshot(db, r), policy |-> "unread"]]
  BY DEF Request
<1> DEFINE t == [request |-> r, taken |-> 0, locks |-> {}, seen |-> Snapshot(db, r),
                 policy |-> "unread"]
<1>2. RequestOK(db, r) /\ r \in RequestState /\ r.op \in Operations /\ Consistent(db)
  BY RequestsSpeakOfRows DEF IInv, RequestOK
<1>3. r # Idle
  BY <1>2 DEF Idle, RequestState, AllOps, EditOps, SubmissionOps, PromotionOps, SymbolOps
<1>4. SeenOK(r, Snapshot(db, r))
  BY <1>2, SnapshotSees
<1>5. Len(Plan(r)) \in {0, 1, 2}
  BY <1>2, PlanShape
<1>6. Len(Plan(r)) = 0 => Established(db, r)
  BY <1>2, LastCheckEstablishes
<1>7. t \in TxState
  BY <1>2, <1>4 DEF TxState, SeenOK
<1>8. Serves(db, t)
  <2>1. 1..0 = {}
    OBVIOUS
  <2> QED
    BY <1>2, <1>3, <1>4, <1>5, <1>6, <2>1 DEF Serves
<1>9. db' = db /\ requests' \in 0..MaxRequests
  BY LifecycleAssumption DEF Request, IInv
<1>10. Moves(db, db', tx[p].locks, FALSE)
  BY <1>2, <1>9, NothingMoves
<1>11. tx' = [tx EXCEPT ![p] = t] /\ t.locks = {}
  BY <1>1
<1> HIDE DEF t
<1> QED
  BY <1>7, <1>8, <1>9, <1>10, <1>11, ProcessStep

\* What a request is after its next lock.
LockAdded(t, rows, seen, lock) ==
    [t EXCEPT !.taken = @ + 1, !.locks = @ \cup rows, !.seen = seen,
              !.policy = PolicyRead(db, lock, @)]
\* A request keeps its type, and its operation, when it takes a lock.
LEMMA LocksTaken ==
    ASSUME NEW t \in TxState, NEW rows \in SUBSET LockSet, NEW seen \in SeenState,
           NEW lock, db.policy \in Policies
    PROVE  /\ LockAdded(t, rows, seen, lock) \in TxState
           /\ LockAdded(t, rows, seen, lock).request = t.request
           /\ LockAdded(t, rows, seen, lock).taken = t.taken + 1
           /\ LockAdded(t, rows, seen, lock).locks = t.locks \cup rows
           /\ LockAdded(t, rows, seen, lock).seen = seen
           /\ LockAdded(t, rows, seen, lock).policy =
                IF lock = PolicyRow THEN db.policy ELSE t.policy
<1> DEFINE taken == t.taken + 1
           locks == t.locks \cup rows
           policy == IF lock = PolicyRow THEN db.policy ELSE t.policy
           e == [t EXCEPT !.taken = taken, !.locks = locks, !.seen = seen, !.policy = policy]
<1>1. taken \in Nat /\ locks \in SUBSET LockSet /\ policy \in Policies \cup {"unread"}
  BY DEF TxState
<1>2. LockAdded(t, rows, seen, lock) = e
  BY DEF LockAdded, PolicyRead
<1> HIDE DEF taken, locks, policy
<1>3. /\ e \in TxState /\ e.request = t.request /\ e.taken = taken /\ e.locks = locks
      /\ e.seen = seen /\ e.policy = policy
  BY <1>1 DEF TxState
<1> QED
  BY <1>2, <1>3 DEF taken, locks, policy

\* A request takes its next lock, or is refused.
LEMMA AcquireKeeps ==
    ASSUME IInv, NEW p \in Processes, Acquire(p)
    PROVE  IInv'
<1> DEFINE r == tx[p].request
           n == tx[p].taken
           lock == NextLock(p)
           rows == LockTaken(db, lock)
           t == LockAdded(tx[p], rows, Snapshot(db, r), lock)
<1>1. /\ tx \in [Processes -> TxState] /\ tx[p] \in TxState
      /\ r # Idle /\ Consistent(db) /\ Serves(db, tx[p]) /\ LocksApart
      /\ RequestOK(db, r) /\ r \in RequestState /\ r.op \in Operations
      /\ n \in Nat /\ n < Len(Plan(r)) /\ lock = Plan(r)[n + 1]
  BY DEF IInv, Acquire, Locking, NextLock, Busy, Serves, RequestOK, TxState
<1>2. db' = db /\ requests' \in 0..MaxRequests
  BY DEF Acquire, IInv
<1>3. Moves(db, db', tx[p].locks, FALSE)
  BY <1>1, <1>2, NothingMoves
<1>4. CASE LockCheck(db, r, lock)
  <2>1. tx' = [tx EXCEPT ![p] = t]
    BY <1>4 DEF Acquire, LockAdded
  <2>2. lock \in LockSet /\ Len(Plan(r)) \in {0, 1, 2}
    BY <1>1, PlanShape
  <2>3. rows \in SUBSET {lock} /\ (lock = PolicyRow \/ rows = {lock})
    BY DEF LockTaken
  <2>4. SeenOK(r, Snapshot(db, r))
    BY <1>1, SnapshotSees
  <2>5. /\ t \in TxState /\ t.request = r /\ t.taken = n + 1
        /\ t.locks = tx[p].locks \cup rows /\ t.seen = Snapshot(db, r)
    <3>1. rows \in SUBSET LockSet
      BY <2>2, <2>3
    <3>2. Snapshot(db, r) \in SeenState
      BY <2>4 DEF SeenOK
    <3>3. db.policy \in Policies
      BY <1>1, RowsAreTables DEF Consistent
    <3> HIDE DEF lock, rows
    <3> QED
      BY <1>1, <3>1, <3>2, <3>3, LocksTaken
  <2>6. \A q \in Processes : q # p => (lock \in tx[q].locks => Shared(lock, tx[p], tx[q]))
    BY DEF Acquire, Excluded, Shared
  <2> HIDE DEF t, lock, rows
  <2>7. \A q \in Processes : q # p =>
            \A k \in t.locks \cap tx[q].locks : Shared(k, t, tx[q])
    <3> SUFFICES ASSUME NEW q \in Processes, q # p, NEW k \in t.locks \cap tx[q].locks
                 PROVE  Shared(k, t, tx[q])
      OBVIOUS
    <3>1. CASE k \in tx[p].locks
      BY <1>1, <2>5, <3>1 DEF LocksApart, Shared
    <3>2. CASE k \in rows
      BY <2>3, <2>5, <2>6, <3>2 DEF Shared
    <3> QED
      BY <2>5, <3>1, <3>2
  <2>8. Serves(db', t)
    <3>1. n + 1 <= Len(Plan(r))
      BY <1>1, <2>2
    <3>2. n + 1 = Len(Plan(r)) => Established(db, r)
      BY <1>1, <1>4, LastCheckEstablishes
    <3>3. /\ tx[p].locks \subseteq {Plan(r)[i] : i \in 1..n}
          /\ \A i \in 1..n : Plan(r)[i] = PolicyRow \/ Plan(r)[i] \in tx[p].locks
      BY <1>1 DEF Serves
    <3>4. n + 1 \in 1..(n + 1) /\ \A i \in 1..(n + 1) : i \in 1..n \/ i = n + 1
      BY <1>1
    <3>5. 1..n \subseteq 1..(n + 1)
      BY <1>1
    <3>6. t.locks \subseteq {Plan(r)[i] : i \in 1..(n + 1)}
      BY <1>1, <2>3, <2>5, <3>3, <3>4, <3>5
    <3>7. \A i \in 1..(n + 1) : Plan(r)[i] = PolicyRow \/ Plan(r)[i] \in t.locks
      BY <1>1, <2>3, <2>5, <3>3, <3>4
    <3> HIDE DEF r, n
    <3> QED
      BY <1>1, <1>2, <2>4, <2>5, <3>1, <3>2, <3>6, <3>7 DEF Serves
  <2> QED
    BY <1>2, <1>3, <2>1, <2>5, <2>7, <2>8, ProcessStep
<1>5. CASE ~LockCheck(db, r, lock)
  <2>1. tx' = [tx EXCEPT ![p] = Free]
    BY <1>5 DEF Acquire
  <2> QED
    BY <1>2, <1>3, <2>1, FreeServes, ProcessStep
<1> QED
  BY <1>4, <1>5

\* What a commit does to the rows.
LEMMA CommitMoves ==
    ASSUME IInv, NEW p \in Processes, Commit(p)
    PROVE  /\ Moves(db, db', tx[p].locks, TouchesSymbol(tx[p].request))
           /\ TouchesSymbol(tx[p].request) =>
                \A q \in Processes : q # p => SymbolRow \notin tx[q].locks
<1> DEFINE r == tx[p].request
           L == tx[p].locks
           s == tx[p].seen
           alone == TouchesSymbol(r)
           room == RoomFor(db, r) /\ PolicyKeyFree(db, tx[p])
           after == IF room THEN Outcome(db, s, r) ELSE db
<1>1. /\ tx[p] \in TxState /\ r # Idle /\ Consistent(db) /\ Serves(db, tx[p])
      /\ RequestOK(db, r) /\ r \in RequestState /\ SeenOK(r, s)
      /\ tx[p].taken = Len(Plan(r)) /\ Established(db, r)
  BY DEF IInv, Commit, Ready, Busy, Serves, RequestOK
<1>2. db' = (IF ConstraintsHold(after) THEN after ELSE db)
  BY DEF Commit
<1>3. r.op \in SubmissionOps => SubmissionRow(r) \in L
  <2> SUFFICES ASSUME r.op \in SubmissionOps PROVE SubmissionRow(r) \in L
    OBVIOUS
  <2>1. /\ Len(Plan(r)) \in {0, 1, 2} /\ Len(Plan(r)) > 0
        /\ Plan(r)[Len(Plan(r))] = SubmissionRow(r) /\ SubmissionRow(r) # PolicyRow
    BY <1>1, PlanShape, RowsDiffer
  <2>2. Len(Plan(r)) \in 1..tx[p].taken
    BY <1>1, <2>1
  <2> QED
    BY <1>1, <2>1, <2>2 DEF Serves
<1>4. Moves(db, after, L, alone)
  <2> HIDE DEF r, L, s, alone, room, after
  <2>1. CASE room
    <3>1. after = Outcome(db, s, r) /\ RoomFor(db, r)
      BY <2>1 DEF after, room
    <3> QED
      BY <1>1, <1>3, <3>1, OutcomeMoves DEF alone
  <2>2. CASE ~room
    <3>1. after = db
      BY <2>2 DEF after
    <3> QED
      BY <1>1, <3>1, NothingMoves
  <2> QED
    BY <2>1, <2>2
<1>5. Moves(db, db', L, alone)
  <2> HIDE DEF r, L, s, alone, after
  <2>1. Moves(db, db, L, alone)
    BY <1>1, NothingMoves
  <2> QED
    BY <1>2, <1>4, <2>1
<1>6. alone => \A q \in Processes : q # p => SymbolRow \notin tx[q].locks
  <2>1. SymbolRow # PolicyRow
    BY <1>1, RowsDiffer
  <2> QED
    BY <2>1 DEF Commit, Unhindered, Excluded
<1> QED
  BY <1>5, <1>6

\* A request commits.
LEMMA CommitKeeps ==
    ASSUME IInv, NEW p \in Processes, Commit(p)
    PROVE  IInv'
<1>1. tx' = [tx EXCEPT ![p] = Free] /\ requests' = requests
  BY DEF Commit
<1>2. requests' \in 0..MaxRequests
  BY <1>1 DEF IInv
<1> DEFINE alone == TouchesSymbol(tx[p].request)
<1>3. /\ Moves(db, db', tx[p].locks, alone)
      /\ alone => \A q \in Processes : q # p => SymbolRow \notin tx[q].locks
  BY CommitMoves
<1>4. Free \in TxState /\ Free.locks = {} /\ Serves(db', Free)
  BY FreeServes
<1> HIDE DEF alone
<1> QED
  BY <1>1, <1>2, <1>3, <1>4, ProcessStep

\* A request that fails has written nothing.
LEMMA AbortKeeps ==
    ASSUME IInv, NEW p \in Processes, Abort(p)
    PROVE  IInv'
<1>1. tx' = [tx EXCEPT ![p] = Free] /\ db' = db /\ requests' = requests
  BY DEF Abort
<1>2. Moves(db, db', tx[p].locks, FALSE)
  BY <1>1, NothingMoves DEF IInv
<1>3. requests' \in 0..MaxRequests
  BY <1>1 DEF IInv
<1> QED
  BY <1>1, <1>2, <1>3, FreeServes, ProcessStep

\* Every step keeps the invariant.
LEMMA InvariantStep == IInv /\ [Next]_vars => IInv'
<1> SUFFICES ASSUME IInv, [Next]_vars PROVE IInv'
  OBVIOUS
<1>1. ASSUME NEW p \in Processes, Request(p) PROVE IInv'
  BY <1>1, RequestKeeps
<1>2. ASSUME NEW p \in Processes, Acquire(p) PROVE IInv'
  BY <1>2, AcquireKeeps
<1>3. ASSUME NEW p \in Processes, Commit(p) PROVE IInv'
  BY <1>3, CommitKeeps
<1>4. ASSUME NEW p \in Processes, Abort(p) PROVE IInv'
  BY <1>4, AbortKeeps
<1>5. CASE UNCHANGED vars
  BY <1>5 DEF vars, IInv, LocksApart, Shared
<1> QED
  BY <1>1, <1>2, <1>3, <1>4, <1>5 DEF Next

-----------------------------------------------------------------------------
(* The invariants.                                                         *)

\* The inductive invariant.
THEOREM InductiveInvariant == Spec => []IInv
BY InvariantInit, InvariantStep, PTL DEF Spec

\* The rows are typed, and a request in progress has taken only rows of its
\* plan, in its order: TypeOK of SymbolLifecycle.
THEOREM TypeCorrect == Spec => []TypeOK
<1>1. IInv => TypeOK
  <2> SUFFICES ASSUME IInv PROVE TypeOK
    OBVIOUS
  <2>1. db \in Rows /\ requests \in 0..MaxRequests
    BY DEF IInv, Consistent
  <2>2. ASSUME NEW p \in Processes, Busy(p)
        PROVE  /\ tx[p].request.op \in Operations
               /\ tx[p].taken \in 0..Len(Plan(tx[p].request))
               /\ tx[p].locks \subseteq {Plan(tx[p].request)[i] : i \in 1..tx[p].taken}
    <3> DEFINE r == tx[p].request
               n == tx[p].taken
    <3>1. /\ tx[p] \in TxState /\ r # Idle /\ Serves(db, tx[p])
      BY <2>2 DEF IInv, Busy
    <3>2. /\ RequestOK(db, r) /\ r.op \in Operations /\ n <= Len(Plan(r))
          /\ tx[p].locks \subseteq {Plan(r)[i] : i \in 1..n}
      BY <3>1 DEF Serves
    <3>3. Len(Plan(r)) \in {0, 1, 2} /\ n \in Nat
      BY <3>1, <3>2, PlanShape DEF RequestOK, TxState
    <3>4. n \in 0..Len(Plan(r))
      BY <3>2, <3>3
    <3> QED
      BY <3>2, <3>4
  <2> QED
    BY <2>1, <2>2 DEF TypeOK
<1> QED
  BY <1>1, InductiveInvariant, PTL

\* A submission is decided or withdrawn, never both, whoever reads it as active
\* at the same time: WithdrawnUndecided of SymbolLifecycle.
THEOREM DecidedOrWithdrawn == Spec => []WithdrawnUndecided
<1>1. IInv => WithdrawnUndecided
  BY DEF IInv, Consistent, WithdrawnUndecided
<1> QED
  BY <1>1, InductiveInvariant, PTL

\* Another organization's Symbol Set holds the symbol only while it is public
\* (replace_items and execute_demotion both lock the symbol):
\* ForeignSetsHoldPublic of SymbolLifecycle.
THEOREM ForeignItemsArePublic == Spec => []ForeignSetsHoldPublic
<1>1. IInv => ForeignSetsHoldPublic
  BY DEF IInv, Consistent, ForeignSetsHoldPublic
<1> QED
  BY <1>1, InductiveInvariant, PTL

\* At most one contribution of a symbol is credited, and its page is active,
\* through demotion, withdrawal and promotion again: CreditOnlyWhileShown of
\* SymbolLifecycle.
THEOREM CreditFollowsPage == Spec => []CreditOnlyWhileShown
<1>1. IInv => CreditOnlyWhileShown
  <2> SUFFICES ASSUME IInv PROVE CreditOnlyWhileShown
    OBVIOUS
  <2>1. /\ \A q1, q2 \in Credited(db) : q1 = q2
        /\ \A q \in Credited(db) : db.promotions[q].page = "active"
    BY DEF IInv, Consistent, CreditShown
  <2>2. Cardinality(Credited(db)) <= 1
    <3>1. CASE Credited(db) = {}
      BY <3>1, FS_EmptySet
    <3>2. CASE Credited(db) # {}
      <4>1. PICK q \in Credited(db) : Credited(db) = {q}
        BY <2>1, <3>2
      <4>2. Cardinality({q}) = 1
        BY FS_Singleton
      <4> QED
        BY <4>1, <4>2
    <3> QED
      BY <3>1, <3>2
  <2> QED
    BY <2>1, <2>2 DEF CreditOnlyWhileShown
<1> QED
  BY <1>1, InductiveInvariant, PTL

-----------------------------------------------------------------------------
(* What a step does to the rows.                                           *)

\* A step changes the rows only as some request's locks allow.
LEMMA StepMoves ==
    ASSUME IInv, [Next]_vars
    PROVE  \E L, alone : Moves(db, db', L, alone)
<1>1. ASSUME NEW p \in Processes, Commit(p) PROVE \E L, alone : Moves(db, db', L, alone)
  BY <1>1, CommitMoves
<1>2. ASSUME db' = db PROVE \E L, alone : Moves(db, db', L, alone)
  <2>1. Moves(db, db', {}, FALSE)
    BY <1>2, NothingMoves DEF IInv
  <2> QED
    BY <2>1
<1>3. ASSUME NEW p \in Processes, Request(p) \/ Acquire(p) \/ Abort(p) PROVE db' = db
  BY <1>3 DEF Request, Acquire, Abort
<1> QED
  BY <1>1, <1>2, <1>3 DEF Next, vars

\* The first verdict on a submission is the only one (decide_submission under
\* the lock of its row): VerdictStands of SymbolLifecycle.
THEOREM FirstVerdictStands == Spec => VerdictStands
<1>1. IInv /\ [Next]_vars =>
        \A s \in Submissions :
            db.submissions[s].decision # "none" => db'.submissions[s] = db.submissions[s]
  BY StepMoves DEF Moves, SubmissionsMove, VerdictsKept
<1> QED
  BY <1>1, InductiveInvariant, PTL DEF Spec, VerdictStands

\* A promotion publishes the revision the symbol then shows, one its
\* organization approved (the handoff holds the symbol and checks it again):
\* PublishesCurrentRevision of SymbolLifecycle.
THEOREM CurrentRevisionPublished == Spec => PublishesCurrentRevision
<1>1. IInv /\ [Next]_vars =>
        \A v \in Revisions :
            State(db, v) # "published" /\ State(db', v) = "published"
            => db'.symbol.current = v /\ ApprovedDecision(db', v)
  BY StepMoves DEF Moves, Publishes
<1> QED
  BY <1>1, InductiveInvariant, PTL DEF Spec, PublishesCurrentRevision

-----------------------------------------------------------------------------
(* Waiting for rows.                                                       *)

\* The rows that a request locks last.
LastRows == {lock \in LockSet : lock[1] \in {"submission", "symbol"}}

\* Which rows those are.
LEMMA LastRowsDiffer ==
    ASSUME NEW r \in RequestState
    PROVE  /\ SymbolRow \in LastRows /\ SubmissionRow(r) \in LastRows
           /\ PolicyRow \notin LastRows /\ SetRow \notin LastRows
           /\ PromotionRow(r) \notin LastRows
<1>1. /\ SymbolRow[1] = "symbol" /\ SubmissionRow(r)[1] = "submission"
      /\ PolicyRow[1] = "policy" /\ SetRow[1] = "set" /\ PromotionRow(r)[1] = "promotion"
  BY DEF SymbolRow, SubmissionRow, PolicyRow, SetRow, PromotionRow
<1> QED
  BY <1>1, RowsDiffer DEF LastRows

\* A request locks such a row last, and no other row second.
LEMMA LastRowsLast ==
    ASSUME NEW r \in RequestState, NEW i \in 1..Len(Plan(r))
    PROVE  /\ Plan(r)[i] \in LastRows => i = Len(Plan(r))
           /\ i > 1 => Plan(r)[i] \in LastRows
<1>1. r.op \in AllOps
  BY DEF RequestState
<1>2. CASE r.op = "decide_submission"
  <2>1. TwoRows(Plan(r), PolicyRow, SubmissionRow(r))
    BY <1>2, Plans, PlanLengths
  <2> QED
    BY <2>1, LastRowsDiffer DEF TwoRows
<1>3. CASE r.op = "withdraw_submission"
  <2>1. OneRow(Plan(r), SubmissionRow(r))
    BY <1>3, Plans, PlanLengths
  <2> QED
    BY <2>1 DEF OneRow
<1>4. CASE r.op = "set_review_policy"
  <2>1. OneRow(Plan(r), PolicyRow)
    BY <1>4, Plans, PlanLengths
  <2> QED
    BY <2>1 DEF OneRow
<1>5. CASE r.op \in {"withdraw_promotion_request", "open_promotion_review_case"}
  <2>1. OneRow(Plan(r), PromotionRow(r))
    BY <1>5, Plans, PlanLengths
  <2> QED
    BY <2>1 DEF OneRow
<1>6. CASE r.op = "execute_organization_promotion_handoff"
  <2>1. TwoRows(Plan(r), PromotionRow(r), SymbolRow)
    BY <1>6, Plans, PlanLengths
  <2> QED
    BY <2>1, LastRowsDiffer DEF TwoRows
<1>7. CASE r.op = "replace_items"
  <2>1. TwoRows(Plan(r), SetRow, SymbolRow)
    BY <1>7, Plans, PlanLengths
  <2> QED
    BY <2>1, LastRowsDiffer DEF TwoRows
<1>8. CASE r.op \in {"discard_pending_revision", "submit_promotion_request",
                     "execute_demotion", "apply_withdrawal"}
  <2>1. OneRow(Plan(r), SymbolRow)
    BY <1>8, Plans, PlanLengths
  <2> QED
    BY <2>1 DEF OneRow
<1>9. CASE r.op \in EditOps \cup {"create_draft", "create_new_draft_revision",
                                  "set_organization_wide"}
  <2>1. Plan(r) = << >> /\ Len(<< >>) = 0
    BY <1>9, Plans
  <2> QED
    BY <2>1
<1> QED
  BY <1>1, <1>2, <1>3, <1>4, <1>5, <1>6, <1>7, <1>8, <1>9
  DEF AllOps, SubmissionOps, PromotionOps, SymbolOps

\* A request in progress has all its rows, or waits for the next one, and what
\* it waits for after its first row is a row locked last.
LEMMA Progress ==
    ASSUME IInv, NEW p \in Processes, Busy(p)
    PROVE  /\ Ready(p) \/ Locking(p)
           /\ Locking(p) /\ tx[p].taken > 0 => NextLock(p) \in LastRows
           /\ tx[p].locks # {} => tx[p].taken > 0
           /\ tx[p].locks \cap LastRows # {} => Ready(p)
<1> DEFINE r == tx[p].request
           n == tx[p].taken
<1>1. /\ tx[p] \in TxState /\ r # Idle /\ Serves(db, tx[p])
  BY DEF IInv, Busy
<1>2. /\ r \in RequestState /\ n \in Nat /\ n <= Len(Plan(r))
      /\ tx[p].locks \subseteq {Plan(r)[i] : i \in 1..n}
  BY <1>1 DEF Serves, RequestOK, TxState
<1>3. Len(Plan(r)) \in {0, 1, 2}
  BY <1>2, PlanShape
<1>4. Ready(p) <=> n = Len(Plan(r))
  BY <1>1 DEF Ready, Busy
<1>5. Locking(p) <=> n < Len(Plan(r))
  BY <1>1 DEF Locking, Busy
<1>6. NextLock(p) = Plan(r)[n + 1]
  BY DEF NextLock
<1> HIDE DEF r, n
<1>7. ASSUME n < Len(Plan(r)), n > 0 PROVE Plan(r)[n + 1] \in LastRows
  <2>1. n + 1 \in 1..Len(Plan(r)) /\ n + 1 > 1
    BY <1>2, <1>3, <1>7
  <2> QED
    BY <1>2, <2>1, LastRowsLast
<1>8. ASSUME NEW lock \in tx[p].locks PROVE n > 0 /\ (lock \in LastRows => n = Len(Plan(r)))
  <2>1. PICK i \in 1..n : lock = Plan(r)[i]
    BY <1>2
  <2>2. n > 0 /\ i \in 1..Len(Plan(r)) /\ i <= n
    BY <1>2, <1>3
  <2>3. lock \in LastRows => i = Len(Plan(r))
    BY <1>2, <2>1, <2>2, LastRowsLast
  <2> QED
    BY <1>2, <1>3, <2>2, <2>3
<1>9. n > 0 <=> tx[p].taken > 0
  BY DEF n
<1> QED
  BY <1>2, <1>3, <1>4, <1>5, <1>6, <1>7, <1>8, <1>9

\* Who is kept waiting for a row is kept waiting by a request in progress.
LEMMA ExcludedBySomeone ==
    ASSUME IInv, NEW p \in Processes, NEW lock, Excluded(p, lock)
    PROVE  \E q \in Processes : q # p /\ Busy(q) /\ lock \in tx[q].locks
<1>1. PICK q \in Processes \ {p} : lock \in tx[q].locks
  BY DEF Excluded
<1>2. Serves(db, tx[q])
  BY <1>1 DEF IInv
<1> QED
  BY <1>1, <1>2 DEF Serves, Busy

\* A request that has all its rows goes on, or the one that holds the symbol does.
LEMMA ReadyGoesOn ==
    ASSUME IInv, NEW p \in Processes, Ready(p)
    PROVE  \E q \in Processes : Busy(q) /\ CanGoOn(q)
<1>1. CASE Unhindered(p)
  BY <1>1 DEF CanGoOn, Ready
<1>2. CASE ~Unhindered(p)
  <2>1. PICK q \in Processes : q # p /\ Busy(q) /\ SymbolRow \in tx[q].locks
    BY <1>2, ExcludedBySomeone DEF Unhindered
  <2>2. tx[p].request \in RequestState /\ Busy(p)
    BY DEF Ready, Busy, IInv, Serves, RequestOK
  <2>3. SymbolRow \in LastRows /\ SymbolRow # PolicyRow
    BY <2>2, LastRowsDiffer, RowsDiffer
  <2>4. Ready(q)
    BY <2>1, <2>3, Progress
  <2>5. ~Excluded(q, SymbolRow)
    BY <2>1, <2>3 DEF IInv, LocksApart, Shared, Excluded
  <2> QED
    BY <2>1, <2>4, <2>5 DEF CanGoOn, Unhindered
<1> QED
  BY <1>1, <1>2

\* A request that waits after its first row goes on, or waits for one that has all its rows.
LEMMA StartedGoesOn ==
    ASSUME IInv, NEW p \in Processes, Busy(p), tx[p].taken > 0
    PROVE  \E q \in Processes : Busy(q) /\ CanGoOn(q)
<1>1. CASE Ready(p)
  BY <1>1, ReadyGoesOn
<1>2. CASE Locking(p)
  <2>1. CASE ~Excluded(p, NextLock(p))
    BY <1>2, <2>1 DEF CanGoOn
  <2>2. CASE Excluded(p, NextLock(p))
    <3>1. PICK q \in Processes : q # p /\ Busy(q) /\ NextLock(p) \in tx[q].locks
      BY <2>2, ExcludedBySomeone
    <3>2. NextLock(p) \in LastRows
      BY <1>2, Progress
    <3>3. Ready(q)
      BY <3>1, <3>2, Progress
    <3> QED
      BY <3>3, ReadyGoesOn
  <2> QED
    BY <2>1, <2>2
<1> QED
  BY <1>1, <1>2, Progress

\* No set of requests waits for one another's rows, whatever they are and
\* however many: NotAllBlocked of SymbolLifecycle.
THEOREM SomeoneGoesOn == Spec => []NotAllBlocked
<1>1. IInv => NotAllBlocked
  <2> SUFFICES ASSUME IInv, NEW p \in Processes, Busy(p)
               PROVE  \E q \in Processes : Busy(q) /\ CanGoOn(q)
    BY DEF NotAllBlocked
  <2>1. CASE Ready(p)
    BY <2>1, ReadyGoesOn
  <2>2. CASE Locking(p) /\ ~Excluded(p, NextLock(p))
    BY <2>2 DEF CanGoOn
  <2>3. CASE Excluded(p, NextLock(p))
    <3>1. PICK q \in Processes : q # p /\ Busy(q) /\ NextLock(p) \in tx[q].locks
      BY <2>3, ExcludedBySomeone
    <3>2. tx[q].taken > 0
      BY <3>1, Progress
    <3> QED
      BY <3>1, <3>2, StartedGoesOn
  <2> QED
    BY <2>1, <2>2, <2>3, Progress
<1> QED
  BY <1>1, InductiveInvariant, PTL

-----------------------------------------------------------------------------
(* The review policy.                                                      *)

\* A request that has found a row of the policy holds it, the row is still there,
\* and a decision among them is one that the policy as it now is allows.
ReadsPolicy(t) ==
    t.request.op \in {"decide_submission", "set_review_policy"} /\ t.taken > 0
HoldsPolicy(d, t) ==
    ReadsPolicy(t) /\ t.policy # "unset" =>
        /\ PolicyRow \in t.locks
        /\ d.policy # "unset"
        /\ t.request.op = "decide_submission" => MayDecide(d, t.request)
PolicyGuarded == \A p \in Processes : HoldsPolicy(db, tx[p])

\* Which operations write the policy and the verdicts.
LEMMA OutcomePolicy ==
    ASSUME NEW d, d \in Rows, NEW r, r.op \in AllOps, NEW s
    PROVE  /\ r.op # "set_review_policy" => Outcome(d, s, r).policy = d.policy
           /\ r.op = "set_review_policy" => Outcome(d, s, r).policy = r.arg
<1>1. d \in [symbol : SymbolState, revisions : RevisionRows, submissions : SubmissionRows,
             promotions : PromotionRows, policy : Policies, foreign : BOOLEAN]
  BY RowsAreTables
<1>2. CASE r.op \in EditOps
  BY <1>1, <1>2 DEF EditOps, Outcome, DetailsUpdated, AssetAttached, AssetRemoved, Submitted
<1>3. CASE r.op \in SubmissionOps
  BY <1>1, <1>3 DEF SubmissionOps, Outcome, SubmissionWithdrawn, Decided
<1>4. CASE r.op \in PromotionOps
  BY <1>1, <1>4 DEF PromotionOps, Outcome, Promoted
<1>5. CASE r.op \in SymbolOps
  BY <1>1, <1>5 DEF SymbolOps, Outcome, DraftCreated, RevisionStarted, PendingDiscarded,
                    PromotionSubmitted, Demoted, Withdrawn, LibrarySet
<1> QED
  BY <1>2, <1>3, <1>4, <1>5 DEF AllOps

\* A decision stays allowed while it holds the policy's row.
LEMMA DecisionStaysAllowed ==
    ASSUME NEW d, NEW e, NEW L, NEW alone, Moves(d, e, L, alone), e.policy = d.policy,
           NEW t, t.request # Idle, Serves(d, t), HoldsPolicy(d, t)
    PROVE  HoldsPolicy(e, t)
<1>1. RequestOK(d, t.request)
  BY DEF Serves
<1>2. t.request.op = "decide_submission" =>
        e.submissions[t.request.on].by = d.submissions[t.request.on].by
  BY <1>1 DEF RequestOK, SubmissionOps, Moves, SubmissionsMove, SubmissionsKept
<1> QED
  BY <1>2 DEF HoldsPolicy, ReadsPolicy, MayDecide

\* A request that finds a row of the policy holds it.
LEMMA AcquireGuards ==
    ASSUME IInv, PolicyGuarded, NEW p \in Processes, Acquire(p)
    PROVE  PolicyGuarded'
<1> DEFINE r == tx[p].request
           n == tx[p].taken
           lock == NextLock(p)
           rows == LockTaken(db, lock)
           t == LockAdded(tx[p], rows, Snapshot(db, r), lock)
<1>1. /\ tx \in [Processes -> TxState] /\ tx[p] \in TxState /\ r # Idle
      /\ Consistent(db) /\ RequestOK(db, r) /\ r \in RequestState
      /\ n \in Nat /\ n < Len(Plan(r)) /\ lock = Plan(r)[n + 1]
  BY DEF IInv, Acquire, Locking, NextLock, Busy, Serves, RequestOK, TxState
<1>2. db' = db /\ db.policy \in Policies
  BY <1>1, RowsAreTables DEF Acquire, Consistent
<1>3. CASE LockCheck(db, r, lock)
  <2>1. tx' = [tx EXCEPT ![p] = t]
    BY <1>3 DEF Acquire, LockAdded
  <2>2. rows \subseteq {lock} /\ (db.policy # "unset" => rows = {lock})
    BY DEF LockTaken
  <2>3. lock \in LockSet /\ Len(Plan(r)) \in {0, 1, 2}
    BY <1>1, PlanShape
  <2>4. Snapshot(db, r) \in SeenState
    BY <1>1, SnapshotSees DEF SeenOK
  <2>5. /\ t.request = r /\ t.taken = n + 1 /\ t.locks = tx[p].locks \cup rows
        /\ t.policy = IF lock = PolicyRow THEN db.policy ELSE tx[p].policy
    <3>1. rows \in SUBSET LockSet
      BY <2>2, <2>3
    <3>2. tx[p] \in TxState /\ db.policy \in Policies
      BY <1>1, <1>2
    <3>3. t.request = tx[p].request /\ t.taken = tx[p].taken + 1 /\ t.locks = tx[p].locks \cup rows
      <4> HIDE DEF lock, rows, r
      <4> QED
        BY <2>4, <3>1, <3>2, LocksTaken
    <3>4. t.policy = IF lock = PolicyRow THEN db.policy ELSE tx[p].policy
      <4> DEFINE seen == Snapshot(db, r)
      <4> HIDE DEF lock, rows, r, seen
      <4>1. seen \in SeenState
        BY <2>4 DEF seen
      <4>2. LockAdded(tx[p], rows, seen, lock).policy =
                IF lock = PolicyRow THEN db.policy ELSE tx[p].policy
        BY <3>1, <3>2, <4>1, LocksTaken
      <4> QED
        BY <4>2 DEF seen
    <3> QED
      BY <3>3, <3>4
  <2> HIDE DEF t, rows
  <2>6. HoldsPolicy(db, t)
    <3>1. CASE r.op = "decide_submission" /\ n = 0
      <4>1. TwoRows(Plan(r), PolicyRow, SubmissionRow(r))
        BY <1>1, <3>1, Plans, PlanLengths
      <4>2. lock = PolicyRow
        BY <1>1, <3>1, <4>1 DEF TwoRows
      <4>3. MayDecide(db, r)
        BY <1>3, <3>1, <4>2 DEF LockCheck
      <4> QED
        BY <2>2, <2>5, <4>2, <4>3 DEF HoldsPolicy, ReadsPolicy
    <3>2. CASE r.op = "decide_submission" /\ n > 0
      <4>1. TwoRows(Plan(r), PolicyRow, SubmissionRow(r))
        BY <1>1, <3>2, Plans, PlanLengths
      <4>2. lock # PolicyRow
        BY <1>1, <3>2, <4>1, RowsDiffer DEF TwoRows
      <4>3. HoldsPolicy(db, tx[p])
        BY DEF PolicyGuarded
      <4> QED
        BY <1>1, <2>5, <3>2, <4>2, <4>3 DEF HoldsPolicy, ReadsPolicy
    <3>3. CASE r.op = "set_review_policy"
      <4>1. OneRow(Plan(r), PolicyRow)
        BY <1>1, <3>3, Plans, PlanLengths
      <4>2. lock = PolicyRow
        BY <1>1, <4>1 DEF OneRow
      <4> QED
        BY <2>2, <2>5, <3>3, <4>2 DEF HoldsPolicy, ReadsPolicy
    <3>4. CASE r.op \notin {"decide_submission", "set_review_policy"}
      BY <2>5, <3>4 DEF HoldsPolicy, ReadsPolicy
    <3> QED
      BY <1>1, <3>1, <3>2, <3>3, <3>4
  <2>7. \A q \in Processes : tx'[q] = IF q = p THEN t ELSE tx[q]
    BY <1>1, <2>1
  <2> QED
    BY <1>2, <2>6, <2>7 DEF PolicyGuarded
<1>4. CASE ~LockCheck(db, r, lock)
  <2>1. \A q \in Processes : tx'[q] = IF q = p THEN Free ELSE tx[q]
    BY <1>1, <1>4 DEF Acquire
  <2>2. HoldsPolicy(db, Free)
    BY DEF HoldsPolicy, ReadsPolicy, Free, Idle
  <2> QED
    BY <1>2, <2>1, <2>2 DEF PolicyGuarded
<1> QED
  BY <1>3, <1>4

\* A commit that changes the policy leaves no decision in progress that has found
\* its row: it locks the row itself, or it inserts the first one.
LEMMA CommitGuards ==
    ASSUME IInv, PolicyGuarded, NEW p \in Processes, Commit(p)
    PROVE  PolicyGuarded'
<1> DEFINE r == tx[p].request
           s == tx[p].seen
           alone == TouchesSymbol(r)
<1>1. /\ tx \in [Processes -> TxState] /\ r # Idle /\ Consistent(db)
      /\ RequestOK(db, r) /\ r \in RequestState /\ tx[p].taken = Len(Plan(r))
      /\ LocksApart /\ \A q \in Processes : Serves(db, tx[q])
  BY DEF IInv, Commit, Ready, Busy, Serves, RequestOK
<1>2. db' = db \/ (db' = Outcome(db, s, r) /\ PolicyKeyFree(db, tx[p]))
  BY DEF Commit
<1>3. Moves(db, db', tx[p].locks, alone)
  BY CommitMoves
<1>4. \A q \in Processes : tx'[q] = IF q = p THEN Free ELSE tx[q]
  BY <1>1 DEF Commit
<1>5. HoldsPolicy(db', Free)
  BY DEF HoldsPolicy, ReadsPolicy, Free, Idle
<1>6. r.op # "set_review_policy" => db'.policy = db.policy
  BY <1>1, <1>2, OutcomePolicy DEF Consistent, RequestState
<1>7. ASSUME NEW q \in Processes, q # p PROVE HoldsPolicy(db', tx[q])
  <2>1. CASE tx[q].request = Idle
    BY <2>1 DEF HoldsPolicy, ReadsPolicy, Idle
  <2>2. CASE tx[q].request # Idle /\ r.op # "set_review_policy"
    <3>1. HoldsPolicy(db, tx[q]) /\ Serves(db, tx[q]) /\ db'.policy = db.policy
      BY <1>1, <1>6, <2>2 DEF PolicyGuarded
    <3> HIDE DEF alone
    <3> QED
      BY <1>3, <2>2, <3>1, DecisionStaysAllowed
  <2>3. CASE r.op = "set_review_policy" /\ tx[p].policy # "unset"
    <3>1. OneRow(Plan(r), PolicyRow)
      BY <1>1, <2>3, Plans, PlanLengths
    <3>2. tx[p].taken > 0
      BY <1>1, <3>1 DEF OneRow
    <3>3. PolicyRow \in tx[p].locks
      BY <2>3, <3>2 DEF PolicyGuarded, HoldsPolicy, ReadsPolicy
    <3>4. PolicyRow \notin tx[q].locks
      BY <1>1, <1>7, <2>3, <3>3 DEF LocksApart, Shared
    <3> QED
      BY <3>4 DEF PolicyGuarded, HoldsPolicy
  <2>4. CASE r.op = "set_review_policy" /\ tx[p].policy = "unset"
    <3>1. HoldsPolicy(db, tx[q])
      BY DEF PolicyGuarded
    <3>2. db' = db \/ db.policy = "unset"
      BY <1>2, <2>4 DEF PolicyKeyFree
    <3> QED
      BY <3>1, <3>2 DEF HoldsPolicy
  <2> QED
    BY <2>1, <2>2, <2>3, <2>4
<1> QED
  BY <1>4, <1>5, <1>7 DEF PolicyGuarded

\* Every step keeps the policy guarded.
LEMMA PolicyStep == IInv /\ PolicyGuarded /\ [Next]_vars => PolicyGuarded'
<1> SUFFICES ASSUME IInv, PolicyGuarded, [Next]_vars PROVE PolicyGuarded'
  OBVIOUS
<1>1. tx \in [Processes -> TxState]
  BY DEF IInv
<1>2. ASSUME NEW p \in Processes, Request(p) PROVE PolicyGuarded'
  <2>1. PICK r \in Requestable(db) :
          tx' = [tx EXCEPT ![p] = [request |-> r, taken |-> 0, locks |-> {},
                                   seen |-> Snapshot(db, r), policy |-> "unread"]]
    BY <1>2 DEF Request
  <2> DEFINE t == [request |-> r, taken |-> 0, locks |-> {}, seen |-> Snapshot(db, r),
                   policy |-> "unread"]
  <2>2. \A q \in Processes : tx'[q] = IF q = p THEN t ELSE tx[q]
    BY <1>1, <2>1
  <2>3. t.taken = 0
    OBVIOUS
  <2> HIDE DEF t
  <2>4. HoldsPolicy(db, t)
    BY <2>3 DEF HoldsPolicy, ReadsPolicy
  <2> QED
    BY <1>2, <2>2, <2>4 DEF PolicyGuarded, Request
<1>3. ASSUME NEW p \in Processes, Abort(p) PROVE PolicyGuarded'
  <2>1. \A q \in Processes : tx'[q] = IF q = p THEN Free ELSE tx[q]
    BY <1>1, <1>3 DEF Abort
  <2>2. HoldsPolicy(db, Free)
    BY DEF HoldsPolicy, ReadsPolicy, Free, Idle
  <2> QED
    BY <1>3, <2>1, <2>2 DEF PolicyGuarded, Abort
<1>4. CASE UNCHANGED vars
  BY <1>4 DEF vars, PolicyGuarded
<1> QED
  BY <1>2, <1>3, <1>4, AcquireGuards, CommitGuards DEF Next

\* A submitter who found a policy row decides their own submission only under a
\* policy that allows it.
LEMMA DecidesAsAllowed ==
    ASSUME IInv, PolicyGuarded, NEW p \in Processes, OwnDecision(p), tx[p].policy # "unset"
    PROVE  db.policy # "independent"
<1> DEFINE r == tx[p].request
<1>1. /\ RequestOK(db, r) /\ r \in RequestState /\ tx[p].taken = Len(Plan(r))
      /\ r.op = "decide_submission" /\ r.by = db.submissions[r.on].by
  BY DEF OwnDecision, IInv, Commit, Ready, Busy, Serves, RequestOK
<1>2. TwoRows(Plan(r), PolicyRow, SubmissionRow(r))
  BY <1>1, Plans, PlanLengths
<1>3. ReadsPolicy(tx[p])
  BY <1>1, <1>2 DEF ReadsPolicy, TwoRows
<1>4. MayDecide(db, r)
  BY <1>1, <1>3 DEF PolicyGuarded, HoldsPolicy
<1> QED
  BY <1>1, <1>4 DEF MayDecide

\* SelfApprovalObeysPolicy of SymbolLifecycle: a decision that found the policy's
\* row holds it in share mode until it commits, and whoever changes the policy
\* needs that row.  Nothing is assumed of the first states: an organization may
\* have no row, get one, and change it.
THEOREM SelfApprovalIsAllowed == Spec => SelfApprovalObeysPolicy
<1>1. Init => PolicyGuarded
  <2> SUFFICES ASSUME Init, NEW p \in Processes PROVE HoldsPolicy(db, tx[p])
    BY DEF PolicyGuarded
  <2>1. tx[p] = Free
    BY DEF Init
  <2> QED
    BY <2>1 DEF HoldsPolicy, ReadsPolicy, Free, Idle
<1>2. IInv /\ PolicyGuarded =>
        \A p \in Processes :
            OwnDecision(p) /\ tx[p].policy # "unset" => db.policy # "independent"
  BY DecidesAsAllowed
<1> QED
  BY <1>1, <1>2, PolicyStep, InductiveInvariant, PTL DEF Spec, SelfApprovalObeysPolicy

=============================================================================
