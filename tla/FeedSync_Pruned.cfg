\* Entries in order of their dates, each under two keys: some keys are pruned, an
\* entry is withdrawn, one never renders, and a pass or an answer is lost.
CONSTANTS
    Entries <- Three
    KeysOf <- TwoKeys
    DefaultCatchUpLimit = 1
    LastSentCap = 3
    MaxRetries = 1
    Unrenderable = {2}
    Filters = {{}}
    Limits = {2}
    Configs = {"Usable"}
    BackDates = {}
    Window = 2
    MaxDeletions = 1
    MaxEdits = 0
    MaxLosses = 1
SPECIFICATION Spec
PROPERTIES
    DeliversOnce
    TriedEntriesResolved
