SPECIFICATION Spec
CONSTANTS
    a1 = a1
    a2 = a2
    soft = soft
    hard = hard
    stray = stray
    c1 = c1
    c2 = c2
    Events = {a1, a2, soft, hard, stray}
    Accepted = {a1, a2}
    SoftBounces = {soft}
    HardBounces = {hard, stray}
    Unmatched = {stray}
    Creds = {c1, c2}
    NoCred = NoCred
    CredOf <- MCCredOf
    Orgs = {"o1", "o2"}
    OrgOf <- MCOrgOf
    Handlers = {h1, h2}
    MaxRepeats = 1
    NoEvent = NoEvent
SYMMETRY MCSymmetry
INVARIANTS
    TypeOK
    EffectsApplyOnce
    AnsweredIsLogged
PROPERTIES
    ImplementsLedger
