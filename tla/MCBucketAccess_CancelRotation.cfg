\* The rotation annotation is removed after the rotation failed.
SPECIFICATION Spec
CONSTANTS
    b1 = b1
    b2 = b2
    Buckets = {b1}
    ExternalSA = ExternalSA
    ExternalUser = ExternalUser
    ForeignKey = ForeignKey
    Env = {"rotate", "cancelRotation"}
    MaxFaults = 2
    MaxEdits = 2
    MaxAccounts = 2
    MaxCredentials = 3
CHECK_DEADLOCK FALSE
INVARIANTS SecretUsable
