\* One manager, its queues and its restarts.
SPECIFICATION MCSpec
CONSTANTS
    bucket1 = bucket1
    access1 = access1
    secret1 = secret1
    Organisations <- MCOrganisations
    Fold <- MCFold
    Blank = ""
    NotFound = NotFound
    Refused = Refused
    Cluster = Cluster
    Namespaces = {"n", "m"}
    Configs <- MCConfigs
    Clouds <- MCClouds
    Buckets = {bucket1}
    Accesses = {access1}
    SecretOf <- MCSecretOf
    Owned = {access1}
    Starts <- MCStarts
    Absent = Absent
    None = None
    NamespaceOf <- MCNamespaceOf
    MaxFaults = 1
    MaxEdits = 1
CHECK_DEADLOCK FALSE
INVARIANTS TypeOK NeverForgotten NothingMissed
PROPERTIES SameOrganisation Readiness Served Finalized
