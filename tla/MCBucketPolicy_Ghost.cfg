\* The Bucket controller writes back what it read before a deletion.
SPECIFICATION Spec
CONSTANTS
    get = get
    put = put
    admin = admin
    s1 = s1
    s2 = s2
    Blank = Blank
    Refused = Refused
    NoPolicy = NoPolicy
    Characters <- MCCharacters
    Accesses <- MCOne
    Requests <- MCOther
    ServiceActions = {get, put, admin}
    ReadOnlyPermissions = {get}
    ReadWritePermissions = {get, put}
    AllowedActions = {get, put}
    UserPolicies <- MCUserPolicies
    LegacyPolicy <- MCLegacy
    Settings = {s1, s2}
    MaxFaults = 0
    MaxEdits = 2
CHECK_DEADLOCK FALSE
INVARIANTS DeletedGrantsGone
