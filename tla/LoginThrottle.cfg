SPECIFICATION FairSpec
CONSTANTS
    Logins = {l1, l2}
    MaxFailures = 2
    FailureWindow = 2
    LockoutWindow = 3
    MaxFaults = 2
INVARIANTS
    TypeOK
    FailuresLeadToLockout
    CounterExpires
PROPERTIES
    LockoutEnds
