\* One feed that comes and goes beside others, through two edits and a deletion,
\* a failed write or a restart.
CONSTANTS
    Statuses <- SomeStatuses
    Feeds = {1}
    MaxEdits = 2
    MaxTroubles = 1
SPECIFICATION Spec
INVARIANTS
    TypeOK
    ClassesFollowCauses
    SeriesAreOfSpec
    GaugesTellStatus
PROPERTIES
    DeletedGroupForgotten
