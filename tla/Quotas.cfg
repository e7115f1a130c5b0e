SPECIFICATION Spec
CONSTANTS
    Creds = {c1}
    Plans = {p1}
    Requests = {r1, r2}
    Asked <- MCAsked
    Stored = {"daily"}
    Values = {1}
    Null = Null
    NoPlan = NoPlan
    MaxUsed = 1
    MaxAsked = 2
    MaxChanges = 1
SYMMETRY MCSymmetry
INVARIANTS
    TypeOK
    LimitsKept
    AnswersHold
CHECK_DEADLOCK FALSE
