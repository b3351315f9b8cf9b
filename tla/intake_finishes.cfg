SPECIFICATION FairSpec
CONSTANTS
    Reviewers = {r1, r2}
    Subjects = {a}
    Items = {}
    Codes = {"approve", "reject"}
    Looks <- AllDifferent
    Runners = {"child", "worker"}
    StorageMayFail = FALSE
    MaxDecisions = 2
    NoReviewer = NoReviewer
    NoItem = NoItem
INVARIANTS
    CompletedActionHasEffect
PROPERTIES
    RequestsFinish
CHECK_DEADLOCK FALSE
