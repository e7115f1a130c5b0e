SPECIFICATION Spec
CONSTANTS
    Workers = {w1, w2}
    HoursPerDay = 1
    DaysPerMonth = 2
    ExecModes = {"cache_statement", "simple_protocol"}
    MaxTime = 1
    MaxFaults = 0
SYMMETRY MCSymmetry
INVARIANTS
    TypeOK
    JobsRunOnce
    SucceededTookEffect
    CompleteCycleDidAll
