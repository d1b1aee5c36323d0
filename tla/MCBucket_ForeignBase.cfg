\* A fixed name that somebody else already has.
SPECIFICATION Spec
CONSTANTS
    x = x
    y = y
    plain = plain
    labelled = labelled
    Base = Base
    NoName = NoName
    Suffixed = {x, y}
    Settings = {plain, labelled}
    Adoptable = {labelled}
    AdoptionEnabled = FALSE
    MaxAttempts = 2
    Modes = {FALSE}
    Env = {"foreign", "delete"}
    MaxFaults = 0
    MaxLate = 0
    MaxEdits = 1
    MaxBuckets = 3
CHECK_DEADLOCK FALSE
PROPERTIES ForeignBucketKept
