SPECIFICATION Spec
CONSTANTS
    Verifications = {v1, v2, v3}
    NoVerification = NoVerification
    Required = 1
    Credentials = {c1}
    Rotations = {r1, r2}
    NoSecret = NoSecret
SYMMETRY Symmetry
CHECK_DEADLOCK FALSE
INVARIANTS
    TypeOK
    LeftoversOverlapped
    AloneLeavesAgreement
    SuspensionStopsCreation
    RotationEndsOldSecret
