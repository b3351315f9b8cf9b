SPECIFICATION Spec
CONSTANTS
    Users = {1, 2, 3}
    Customers = {"acme"}
    Keys = {"k1"}
    Operators = {1}
    Processes = {p1, p2}
    Operations = {
        "create_organization", "add_organization_member", "deactivate_membership",
        "reactivate_membership", "set_subscription", "renew_subscription",
        "create_user_session", "update_user",
        "issue_key", "claim_key", "revoke_key", "suspend_organization",
        "reactivate_organization", "delete_user"}
    InitialStates <- MCTurnover
    SeatLimits = {2, 3}
    DefaultSeatLimit = 3
    MaxOpenKeys = 1
    MaxRequests = 2
INVARIANTS
    SeatsCoverMembers
    LiveKeyHasMember
    SessionHasMember
PROPERTIES
    RequestsEnd
CHECK_DEADLOCK FALSE
