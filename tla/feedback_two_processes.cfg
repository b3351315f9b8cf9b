SPECIFICATION FairSpec
CONSTANTS
    Requests = {1, 2, 3}
    Keys = {"retried", "other"}
    BrowserKeys = {"retried", "other"}
    Symbols = {1, 2}
    Loops = {l1, l2}
    Calls <- RetryAndRival
    Workers = {}
    MaxFaults = 0
    MaxSwitches = 2
    NoItem = NoItem
INVARIANTS
    OneOpenCase
PROPERTIES
    RequestsAnswered
CHECK_DEADLOCK FALSE
