\* A catch-up limit of 0, a filter that rejects an entry, and a spec that breaks.
CONSTANTS
    Entries <- Three
    KeysOf <- OneKey
    DefaultCatchUpLimit = 1
    LastSentCap = 3
    MaxRetries = 1
    Unrenderable = {}
    Filters = {{1}}
    Limits = {0}
    Configs = {"Usable", "Invalid", "BrokenTemplates"}
    BackDates <- Three
    Window = 2
    MaxDeletions = 2
    MaxEdits = 1
    MaxLosses = 1
SPECIFICATION Spec
INVARIANTS
    OnlyBacklogSkipped
    BrokenTemplatesLoseNothing
