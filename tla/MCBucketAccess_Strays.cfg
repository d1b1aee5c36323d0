\* Everything that may upset credentials, but for stale copies of the object.
SPECIFICATION Spec
CONSTANTS
    b1 = b1
    b2 = b2
    Buckets = {b1}
    ExternalSA = ExternalSA
    ExternalUser = ExternalUser
    ForeignKey = ForeignKey
    Env = {"crash", "lostReply", "secretLag", "switchMode", "rotate", "cancelRotation", "foreignSecret", "deleteSecret", "unlist", "suspend", "delete"}
    MaxFaults = 1
    MaxEdits = 2
    MaxAccounts = 2
    MaxCredentials = 4
CHECK_DEADLOCK FALSE
INVARIANTS StraysBounded
PROPERTIES ForeignSecretKept
