\* Three senders; waits below, between and above the two limits; and messages with
\* every field below, at and over its limit.
CONSTANTS
    Senders = {s1, s2, s3}
    MaxCooldown = 3
    MaxPaceWait = 2
    Waits = {0, 1, 2, 3, 4}
    FieldLimit <- SmallLimit
    TotalLimit = 6
    Inputs <- SmallMessages
SPECIFICATION Spec
INVARIANTS
    TypeOK
    EveryMessageFits
PROPERTIES
    CooldownHolds
    PacedBySends
