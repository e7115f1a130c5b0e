SPECIFICATION FairSpec
CONSTANTS
    Workers = {w1}
    HoursPerDay = 2
    DaysPerMonth = 2
    ExecModes = {"cache_statement"}
    MaxTime = 4
    MaxFaults = 1
PROPERTIES
    CyclesComplete
