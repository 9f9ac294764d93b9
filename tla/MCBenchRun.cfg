CONSTANTS
    l1 = l1
    l2 = l2
    Loads = {l1, l2}
    FirstLoads = {l1}
    MaxChannels = 2
    PreChecks = 2
    Validations = 2
SPECIFICATION FairSpec
INVARIANTS RunTypeOK NoLoadAfterPreTestError OnlyLastFatal ResultListsErrors
PROPERTY EndsOrStuckAddingChannels
CHECK_DEADLOCK FALSE
