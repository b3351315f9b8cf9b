SPECIFICATION Spec
CONSTANTS
    Reviewers = {r1, r2}
    Subjects = {a, b}
    Items = {a, b}
    Codes = {"approve"}
    Looks <- AllAlike
    Runners = {"child"}
    StorageMayFail = TRUE
    MaxDecisions = 3
    NoReviewer = NoReviewer
    NoItem = NoItem
SYMMETRY Alike
INVARIANTS
    TypeOK
    WholeReleaseIsExclusive
    CompletedActionHasEffect
    PublishedItemHasPage
    NoOrphanQueueFile
PROPERTIES
    ImplementsLedger
CHECK_DEADLOCK FALSE
