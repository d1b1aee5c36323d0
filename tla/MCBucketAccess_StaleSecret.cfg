\* The Secret just written is not in the informer yet.
SPECIFICATION Spec
CONSTANTS
    b1 = b1
    b2 = b2
    Buckets = {b1}
    ExternalSA = ExternalSA
    ExternalUser = ExternalUser
    ForeignKey = ForeignKey
    Env = {"secretLag"}
    MaxFaults = 1
    MaxEdits = 0
    MaxAccounts = 2
    MaxCredentials = 3
CHECK_DEADLOCK FALSE
INVARIANTS SecretUsable
