SPECIFICATION FairSpec
CONSTANTS
    Containers = {p1, p2}
    KeyIds = {"old", "new"}
    Null = Null
    Emails = {"a@x", "b@x"}
    Credentials = {"c1"}
    Configs <- MCConfigs
    FirstConfig <- MCFirst
    MaxEdits = 2
    MaxFaults = 1
INVARIANTS
    TypeOK
    SecretsReadable
PROPERTIES
    EveryContainerServes
