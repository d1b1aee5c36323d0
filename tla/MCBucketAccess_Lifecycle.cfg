\* Everything that may upset accounts and deletion.
SPECIFICATION Spec
CONSTANTS
    b1 = b1
    b2 = b2
    Buckets = {b1}
    ExternalSA = ExternalSA
    ExternalUser = ExternalUser
    ForeignKey = ForeignKey
    Env = {"crash", "lostReply", "accessLag", "switchMode", "rotate", "bucketChurn", "policyRace", "racingSecret", "delete"}
    MaxFaults = 1
    MaxEdits = 2
    MaxAccounts = 2
    MaxCredentials = 3
CHECK_DEADLOCK FALSE
INVARIANTS TypeOK OneServiceAccount ForeignAccountUntouched GrantedIsGranted CleanDeletion
PROPERTIES Implements
