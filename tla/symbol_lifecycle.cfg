SPECIFICATION Spec
CONSTANTS
    owner = owner
    reviewer = reviewer
    Members <- MCMembers
    Processes = {p1, p2}
    Operations = {
        "create_draft", "update_draft", "attach_asset", "remove_asset",
        "submit_for_review", "withdraw_submission", "decide_submission",
        "create_new_draft_revision", "discard_pending_revision",
        "set_organization_wide", "set_review_policy", "submit_promotion_request",
        "withdraw_promotion_request", "open_promotion_review_case",
        "execute_organization_promotion_handoff", "execute_demotion",
        "apply_withdrawal", "replace_items"}
    InitialStates <- MCInitial
    MaxRevisions = 3
    MaxSubmissions = 3
    MaxPromotions = 2
    MaxRequests = 5
SYMMETRY MCSymmetry
INVARIANTS
    TypeOK
    WithdrawnUndecided
    ForeignSetsHoldPublic
    CreditOnlyWhileShown
    NotAllBlocked
PROPERTIES
    VerdictStands
    SelfApprovalObeysPolicy
    PublishesCurrentRevision
CHECK_DEADLOCK FALSE
