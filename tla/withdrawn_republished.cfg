SPECIFICATION Spec
CONSTANTS
    owner = owner
    reviewer = reviewer
    Members <- MCMembers
    Processes = {p1}
    Operations = {
        "submit_promotion_request", "open_promotion_review_case",
        "execute_organization_promotion_handoff", "execute_demotion"}
    InitialStates <- MCPublic
    MaxRevisions = 2
    MaxSubmissions = 1
    MaxPromotions = 2
    MaxRequests = 4
INVARIANT RetiredRevisionNotShown
CHECK_DEADLOCK FALSE
