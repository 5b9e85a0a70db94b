\* A feed that catches up with one entry, an entry that never renders, and a filter
\* that is edited.
CONSTANTS
    Entries <- Three
    KeysOf <- TwoKeys
    DefaultCatchUpLimit = 1
    LastSentCap = 6
    MaxRetries = 1
    Unrenderable = {2}
    Filters = {{}, {2}}
    Limits = {1}
    Configs = {"Usable"}
    BackDates <- Three
    Window = 3
    MaxDeletions = 2
    MaxEdits = 1
    MaxLosses = 1
SPECIFICATION Spec
INVARIANTS
    TypeOK
    NothingBehind304
    BacklogWithinLimit
    OvertakenOnlyByTrim
    OnlyBackDatedPassed
PROPERTIES
    DeliversOnce
