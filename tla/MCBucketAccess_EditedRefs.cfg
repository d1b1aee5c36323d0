\* spec.bucketRefs shrinks after the grant.
SPECIFICATION Spec
CONSTANTS
    b1 = b1
    b2 = b2
    Buckets = {b1, b2}
    ExternalSA = ExternalSA
    ExternalUser = ExternalUser
    ForeignKey = ForeignKey
    Env = {"editRefs"}
    MaxFaults = 0
    MaxEdits = 1
    MaxAccounts = 2
    MaxCredentials = 2
CHECK_DEADLOCK FALSE
INVARIANTS GrantsTracked
