CONSTANTS
    MaxRetries = 2
    RetryInterval = 1
    MaxBackoff = 6
    FailureBound = 5
SPECIFICATION Spec
INVARIANTS
    TypeOK
    PhaseIsInferred
    OwnFailuresOnly
    BackoffBelongsToRun
    FailuresAreShown
    EventsAtMostOnce
    UniformRunsAnnounced
    BackoffNeverShrinks
PROPERTIES
    SecretFreesDeliveryOnly
    AttemptedForever
