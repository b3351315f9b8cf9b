SPECIFICATION Spec
CONSTANTS
    Users = {1, 2, 3}
    Customers = {"acme"}
    Keys = {"k1"}
    Operators = {1}
    Processes = {p1, p2}
    Operations = {
        "add_organization_member", "replace_base_role", "deactivate_membership",
        "reactivate_membership", "assign_platform_admin", "revoke_platform_admin",
        "suspend_organization", "reactivate_organization", "update_user",
        "delete_user"}
    InitialStates <- MCInitial
    SeatLimits = {2, 3}
    DefaultSeatLimit = 3
    MaxOpenKeys = 1
    MaxRequests = 3
SYMMETRY MCSymmetry
INVARIANTS
    TypeOK
    SomeoneInCharge
    TriggersAreLastResort
    AuthorityHoldsAtCommit
PROPERTIES
    ManagesOwnAccountsOnly
CHECK_DEADLOCK FALSE
