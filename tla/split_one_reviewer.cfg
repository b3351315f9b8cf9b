SPECIFICATION Spec
CONSTANTS
    Reviewers = {r1}
    Subjects = {a}
    Items = {a}
    Codes = {"approve", "duplicate", "reject", "request_changes"}
    Looks <- AllAlike
    Runners = {"child"}
    StorageMayFail = FALSE
    MaxDecisions = 3
    NoReviewer = NoReviewer
    NoItem = NoItem
INVARIANTS
    CompletedActionHasEffect
    
PROPERTIES
    OnlyFollowUpsTakeBack
CHECK_DEADLOCK FALSE
