\* Two feeds, an edit, a replaced Secret and a lost pass.
CONSTANTS
    Feeds = {1, 2}
    Poll = 3
    Retry = 2
    MinInterval = 2
    Jitter = 1
    RetryAfters = {0, 1}
    Backoffs = {2}
    WatchWebhookSecrets = TRUE
    MaxEdits = 1
    MaxSecrets = 1
    MaxLosses = 1
SPECIFICATION Spec
INVARIANTS
    TypeOK
    WakesInTime
    ObservedWasAttempted
    SendBackoffOfThisSecret
    ReadyIsFresh
PROPERTIES
    EveryFeedAttempted
