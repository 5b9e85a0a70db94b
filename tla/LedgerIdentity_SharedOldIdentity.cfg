CONSTANTS
    Articles <- Four
    Looks <- PartedLooks
    Window = 2
SPECIFICATION Spec
INVARIANTS
    SharedOldIdentityLeftAlone
