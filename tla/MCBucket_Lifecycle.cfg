\* Other owners, stale copies, crashes and lost answers.
SPECIFICATION FairSpec
CONSTANTS
    x = x
    y = y
    plain = plain
    labelled = labelled
    Base = Base
    NoName = NoName
    Suffixed = {x, y}
    Settings = {plain, labelled}
    Adoptable = {labelled}
    AdoptionEnabled = TRUE
    MaxAttempts = 2
    Modes = {TRUE, FALSE}
    Env = {"crash", "lostReply", "editSettings", "flipSuffix", "suspend", "delete", "foreign", "relabel", "remoteDelete"}
    MaxFaults = 1
    MaxLate = 1
    MaxEdits = 2
    MaxBuckets = 6
CHECK_DEADLOCK FALSE
INVARIANTS TypeOK BucketGone OrphansBounded
PROPERTIES ForeignBucketSpared TakenByRight Converges DeletionCompletes
