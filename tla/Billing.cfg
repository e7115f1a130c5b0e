SPECIFICATION Spec
CONSTANTS
    NoOrg = NoOrg
    Orgs = {o1, o2}
    Creds = {c1, c2}
    MaxSubs = 2
    MaxTime = 1
    Period = 0
    TrialPeriod = 0
    AdminReasons = {"abuse", "subscription_fraud"}
    LikeReasons = {"subscription_fraud"}
SYMMETRY MCSymmetry
INVARIANTS
    TypeOK
    CredentialLimitsFollowStanding
    LiveStatusFollowsInvoice
PROPERTIES
    BillingKeepsAdminLimits
    ImplementsGate
