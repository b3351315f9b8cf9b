SPECIFICATION Spec
CONSTANTS
    Reviewers = {r1}
    Subjects = {a}
    Items = {}
    Codes = {"approve"}
    Looks <- AllDifferent
    Runners = {"child"}
    StorageMayFail = FALSE
    MaxDecisions = 1
    NoReviewer = NoReviewer
    NoItem = NoItem
INVARIANTS
    HandedApprovalCanPublish
CHECK_DEADLOCK FALSE
