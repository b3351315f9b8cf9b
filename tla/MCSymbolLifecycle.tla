------------------------- MODULE MCSymbolLifecycle -------------------------
EXTENDS SymbolLifecycle, TLC

CONSTANTS owner, reviewer
MCMembers == {owner, reviewer}
MCSymmetry == Permutations(Processes)

NoSubmission == [status |-> "none", revision |-> None, by |-> None,
                 decision |-> "none", decided_by |-> None]
NoPromotion == [status |-> "none", revision |-> None, page |-> "none", credit |-> "none"]
Empty ==
    [symbol      |-> [visibility |-> "absent", current |-> None, pending |-> None,
                      organization_wide |-> FALSE, catalog_symbol_id |-> FALSE],
     revisions   |-> [v \in Revisions |-> NoRevision],
     submissions |-> [s \in Submissions |-> NoSubmission],
     promotions  |-> [q \in Promotions |-> NoPromotion],
     policy      |-> "unset",
     foreign     |-> FALSE]
Drafted == DraftCreated(Empty)
ActiveSubmission(v) == [NoSubmission EXCEPT !.status = "active", !.revision = v, !.by = owner]
InReview == [Drafted EXCEPT !.revisions[1].state = "review",
                            !.submissions[1] = ActiveSubmission(1)]
\* Approved, and so in the organization's library.
InLibrary == [InReview EXCEPT !.revisions[1].state = "approved",
                              !.submissions[1].status = "decided",
                              !.submissions[1].decision = "approved",
                              !.submissions[1].decided_by = reviewer,
                              !.symbol.organization_wide = TRUE]
\* The first promotion request is with the public reviewers.
Offered == [InLibrary EXCEPT !.promotions[1].status = "triage", !.promotions[1].revision = 1]
\* A new revision, started while that request was being submitted, is in review.
Overtaken == [Offered EXCEPT !.revisions[2].state = "review", !.symbol.pending = 2,
                             !.submissions[2] = ActiveSubmission(2)]
Public == Promoted(Offered, [symbol |-> Offered.symbol], [on |-> 1])
\* Demoted again, and the award reversed.
DemotedAgain == [Demoted(Public) EXCEPT !.promotions[1].credit = "reversed"]
\* The withdrawn revision has been offered again.
OfferedAgain == [DemotedAgain EXCEPT !.promotions[2].status = "triage",
                                     !.promotions[2].revision = 1]
\* The organization has set its policy.
PolicyIsSet(d) == [d EXCEPT !.policy = "self_approval"]
MCInitial == {Empty, InReview, PolicyIsSet(InReview), InLibrary, Overtaken, Public,
              OfferedAgain}
MCPublic == {Public}
=============================================================================
