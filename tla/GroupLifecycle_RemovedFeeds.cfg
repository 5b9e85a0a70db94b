\* Two feeds, an edit and one thing that goes wrong.
CONSTANTS
    Statuses <- SomeStatuses
    Feeds = {1, 2}
    MaxEdits = 1
    MaxTroubles = 1
SPECIFICATION Spec
INVARIANTS
    RemovedFeedsLeaveNoSeries
