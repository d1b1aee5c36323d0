\* The namespace of the Secret does not exist.
SPECIFICATION Spec
CONSTANTS
    b1 = b1
    b2 = b2
    Buckets = {b1}
    ExternalSA = ExternalSA
    ExternalUser = ExternalUser
    ForeignKey = ForeignKey
    Env = {"noNamespace"}
    MaxFaults = 0
    MaxEdits = 0
    MaxAccounts = 2
    MaxCredentials = 2
CHECK_DEADLOCK FALSE
INVARIANTS SecretUsable
