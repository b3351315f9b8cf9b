SPECIFICATION Spec
CONSTANTS
    Reviewers = {r1, r2}
    Subjects = {a}
    Items = {a}
    Codes = {"approve", "reject"}
    Looks <- AllDifferent
    Runners = {"child"}
    StorageMayFail = FALSE
    MaxDecisions = 3
    NoReviewer = NoReviewer
    NoItem = NoItem
PROPERTIES
    PublishedStageUnderAuthority
CHECK_DEADLOCK FALSE
