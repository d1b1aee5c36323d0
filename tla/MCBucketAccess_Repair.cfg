\* What Ready means and what happens when faults and edits have stopped.
SPECIFICATION FairSpec
CONSTANTS
    b1 = b1
    b2 = b2
    Buckets = {b1, b2}
    ExternalSA = ExternalSA
    ExternalUser = ExternalUser
    ForeignKey = ForeignKey
    Env = {"crash", "lostReply", "rotate", "editRefs", "bucketChurn", "policyRace", "deleteSecret", "suspend", "delete"}
    MaxFaults = 2
    MaxEdits = 2
    MaxAccounts = 2
    MaxCredentials = 6
CHECK_DEADLOCK FALSE
INVARIANTS SecretUsable
PROPERTIES RotationComplete WorkingKeyKept Converges DeletionCompletes
