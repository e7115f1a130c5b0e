SPECIFICATION SessionsSpec
CONSTANTS
    NoOrg = NoOrg
    Orgs = {o1}
    Creds = {c1}
    MaxSubs = 2
    MaxTime = 1
    Period = 0
    TrialPeriod = 0
    AdminReasons = {}
    LikeReasons = {}
    Txs = {t1, t2, t3}
    Lists = {l1, l2}
    Offers <- MCOffers
    MaxBegun = 4
    PoolSize = 3
    MaxRows = 1
SYMMETRY MCSymmetry
INVARIANTS
    SessionsTypeOK
    CredentialLimitsFollowStanding
    SettledTogether
    OnlySettlementsDeadlock
    SomeoneProceeds
