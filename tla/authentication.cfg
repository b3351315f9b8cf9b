SPECIFICATION Spec
CONSTANTS
    alice = alice
    bob = bob
    Users <- MCUsers
    Several <- MCSeveral
    Processes = {p1, p2}
    Operations = {
        "login", "reauthenticate", "select_organization", "switch_organization", "logout",
        "change_pin", "reset_user_pin", "deactivate", "reactivate", "recover_throttle_bucket"}
    InitialStates <- MCInitial
    AccountLimit = 2
    AddressLimit = 3
    MaxAttempts = 2
    MaxPins = 3
    MaxSessions = 3
    MaxChallenges = 3
    MaxRequests = 3
SYMMETRY MCSymmetry
INVARIANTS
    TypeOK
    GuessesBounded
    OneSessionPerChallenge
    PinChangeComesFirst
PROPERTY
    StepUpKnowsPin
CHECK_DEADLOCK FALSE
