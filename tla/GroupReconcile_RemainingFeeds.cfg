CONSTANTS
    Feeds = {1, 2}
    Poll = 2
    Retry = 1
    MinInterval = 1
    Jitter = 1
    RetryAfters = {0, 1}
    Backoffs = {2}
    WatchWebhookSecrets = TRUE
    MaxEdits = 1
    MaxSecrets = 0
    MaxLosses = 0
SPECIFICATION Spec
PROPERTIES
    RemainingFeedsRetried
