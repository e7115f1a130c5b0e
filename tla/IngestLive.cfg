SPECIFICATION FairSpec
CONSTANTS
    a1 = a1
    a2 = a2
    soft = soft
    hard = hard
    stray = stray
    c1 = c1
    c2 = c2
    Events = {a1, soft, hard}
    Accepted = {a1}
    SoftBounces = {soft}
    HardBounces = {hard}
    Unmatched = {}
    Creds = {c1, c2}
    NoCred = NoCred
    CredOf <- MCCredOf
    Orgs = {"o1", "o2"}
    OrgOf <- MCOrgOf
    Handlers = {h1, h2}
    MaxRepeats = 0
    NoEvent = NoEvent
PROPERTIES
    EventuallyAnswered
