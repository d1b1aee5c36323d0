\* Two accesses, every interleaving of reads and writes.
SPECIFICATION FairSpec
CONSTANTS
    get = get
    put = put
    admin = admin
    s1 = s1
    s2 = s2
    Blank = Blank
    Refused = Refused
    NoPolicy = NoPolicy
    Characters <- MCCharacters
    Accesses <- MCTwo
    Requests <- MCRequests
    ServiceActions = {get, put, admin}
    ReadOnlyPermissions = {get}
    ReadWritePermissions = {get, put}
    AllowedActions = {get, put}
    UserPolicies <- MCUserPolicies
    LegacyPolicy <- MCLegacy
    Settings = {s1, s2}
    MaxFaults = 1
    MaxEdits = 1
CHECK_DEADLOCK FALSE
INVARIANTS TypeOK OneStatementPerAccess
PROPERTIES GhostsExplained OthersKept Converges Settles
