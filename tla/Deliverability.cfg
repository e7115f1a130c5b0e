SPECIFICATION Spec
CONSTANTS
    Workers = {w1, w2}
    Inputs <- MCInputs
    NoRow = NoRow
    MaxCycle = 2
SYMMETRY MCSymmetry
INVARIANTS
    TypeOK
    DuplicatesBounded
    NothingOverlooked
    WholeSnapshotAgrees
    AlertsFollowPenalties
