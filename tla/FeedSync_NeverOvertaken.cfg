CONSTANTS
    Entries <- Three
    KeysOf <- OneKey
    DefaultCatchUpLimit = 1
    LastSentCap = 3
    MaxRetries = 1
    Unrenderable = {}
    Filters = {{}}
    Limits = {1}
    Configs = {"Usable"}
    BackDates <- Three
    Window = 2
    MaxDeletions = 0
    MaxEdits = 0
    MaxLosses = 0
SPECIFICATION Spec
INVARIANTS
    NeverOvertaken
