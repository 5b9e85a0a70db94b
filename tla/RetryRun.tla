------------------------------ MODULE RetryRun ------------------------------
(***************************************************************************)
(* The retry run of one feed and the per-feed record it lives in, as       *)
(* operators on a status record fs (internal/controller/backoff.go and the *)
(* failure policy of internal/controller/attempt.go):                      *)
(*                                                                         *)
(*   fs.reachable   the Reachable condition: "Unset", "True" or "False"    *)
(*   fs.delivered   the Delivered condition, by its reason                 *)
(*   fs.lastError   whether LastError is non-empty                         *)
(*   fs.retryCount  RetryCount                                             *)
(*   fs.backedOff   whether BackoffUntil is non-empty, expired or not      *)
(*   fs.left        the time left until BackoffUntil, 0 once it has passed *)
(*                                                                         *)
(* Deadlines are kept as the time left, so no clock is needed.             *)
(***************************************************************************)
EXTENDS Integers

CONSTANTS
    MaxRetries,     \* cadence.maxRetries: max(spec.retries, 1)
    RetryInterval,  \* cadence.retry, the base of the backoff; never under 10s
    MaxBackoff      \* maxPermanentBackoff

ASSUME RetryAssumption ==
    /\ MaxRetries \in Nat \ {0}
    /\ RetryInterval \in Nat \ {0}
    /\ MaxBackoff \in Nat \ {0}

Phases == {"Fetch", "Delivery"}

DeliveredReasons ==
    {"Unset", "MessageSent", "BacklogSkipped", "EntrySkipped",
     "SendFailed", "RenderError", "RateLimited", "ConfigError"}

\* A permanent failure backs off, a transient one is retried (failureClass).
Classes == {"Permanent", "Transient"}

FeedRecord ==
    [reachable  : {"Unset", "True", "False"},
     delivered  : DeliveredReasons,
     lastError  : BOOLEAN,
     retryCount : Nat,
     backedOff  : BOOLEAN,
     left       : Int]

NewRecord ==
    [reachable |-> "Unset", delivered |-> "Unset", lastError |-> FALSE,
     retryCount |-> 0, backedOff |-> FALSE, left |-> 0]

-----------------------------------------------------------------------------
(* The run: what backoff.go reads and writes. *)

InProgress(fs) == fs.retryCount > 0 \/ fs.backedOff

ActiveAfterExpiry(fs) == fs.backedOff  \* mutant: an expired backoff never ends
AnyBackoff(fs) == fs.backedOff         \* mutant: Reachable is not asked

Active(fs) == fs.backedOff /\ fs.left > 0

SendCaused(fs) == fs.backedOff /\ fs.reachable # "False"

UpToLimit(fs) == fs.retryCount <= MaxRetries  \* mutant: one retry too many
BelowLimit(fs) == fs.retryCount < MaxRetries
ExhaustedSince(fs) == fs.retryCount >= MaxRetries  \* mutant: announced every time
ExhaustedNow(fs) == fs.retryCount = MaxRetries
PastLimit(fs) == fs.retryCount > MaxRetries

ClearCountOnly(fs) == [fs EXCEPT !.retryCount = 0]  \* mutant: backoff kept

Clear(fs) == [fs EXCEPT !.retryCount = 0, !.backedOff = FALSE, !.left = 0]

ClearFailure(fs) == [Clear(fs) EXCEPT !.lastError = FALSE]

\* 1 << count
Shift[count \in Nat] == IF count = 0 THEN 1 ELSE 2 * Shift[count - 1]

\* mutant: the product is taken before it is compared, and wraps
WrappingBackoff(count) ==
    LET product == (RetryInterval * Shift[count]) % 16
    IN  IF product > MaxBackoff THEN MaxBackoff ELSE product

\* base shifted by count, floored at 1, or the cap once that exceeds it: the
\* shift is compared before the product is taken.
PermanentBackoff(count) ==
    LET shift == Shift[IF count < 1 THEN 1 ELSE count]
    IN  IF count >= 63 \/ shift > MaxBackoff \div RetryInterval
        THEN MaxBackoff
        ELSE RetryInterval * shift

Extend(fs) ==
    [fs EXCEPT !.backedOff = TRUE, !.left = PermanentBackoff(fs.retryCount)]

\* Whether this failure's backoff is the first to reach the cap; asked of the
\* record after the failure was counted.
FirstCapped(fs) ==
    /\ PermanentBackoff(fs.retryCount) >= MaxBackoff
    /\ \/ fs.retryCount <= 1
       \/ PermanentBackoff(fs.retryCount - 1) < MaxBackoff

\* mutants: the run of the other phase goes on; retries are counted down
CountAnyFailure(fs, phase) == [fs EXCEPT !.retryCount = @ + 1]
CountDown(fs, phase) == [fs EXCEPT !.retryCount = @ - 1]

\* A fetch failure while Reachable is True ends the delivery run first.
CountFailure(fs, phase) ==
    LET run == IF phase = "Fetch" /\ fs.reachable = "True" /\ InProgress(fs)
               THEN Clear(fs) ELSE fs
    IN  [run EXCEPT !.retryCount = @ + 1]

-----------------------------------------------------------------------------
(* The outcomes: what feedAttempt.record does to the record. *)

\* mutant: Reachable is set before the run's phase is read from it
ReachableFirst(fs) == [fs EXCEPT !.reachable = "True"]

FetchSucceeded(fs) ==
    LET run == IF fs.reachable = "False" /\ InProgress(fs) THEN Clear(fs) ELSE fs
    IN  [run EXCEPT !.reachable = "True"]

\* failed(): count the failure, set the phase's condition, then back off a
\* permanent failure.
Failed(fs, phase, reason, class) ==
    LET counted == CountFailure([fs EXCEPT !.lastError = TRUE], phase)
        told == IF phase = "Fetch"
                THEN [counted EXCEPT !.reachable = "False"]
                ELSE [counted EXCEPT !.delivered = reason]
    IN  IF class = "Permanent" THEN Extend(told) ELSE told

FetchFailed(fs, class) == Failed(fs, "Fetch", "Unset", class)
SendFailed(fs, class) == Failed(fs, "Delivery", "SendFailed", class)
RenderFailed(fs) == Failed(fs, "Delivery", "RenderError", "Transient")

RateLimited(fs) == [fs EXCEPT !.lastError = TRUE, !.delivered = "RateLimited"]

Sent(fs) == [ClearFailure(fs) EXCEPT !.delivered = "MessageSent"]
\* mutant: a skipped entry clears the error but not the run
SkippedKeepsRun(fs) == [fs EXCEPT !.lastError = FALSE, !.delivered = "EntrySkipped"]
EntrySkipped(fs) == [ClearFailure(fs) EXCEPT !.delivered = "EntrySkipped"]
BacklogSkipped(fs) == [fs EXCEPT !.delivered = "BacklogSkipped"]
ConfigError(fs) == [fs EXCEPT !.lastError = TRUE, !.delivered = "ConfigError"]

\* Whether a recorded failure of this class asks for the faster retry, and
\* whether it emits the exhaustion or the capped-backoff Event.
AsksForRetry(fs, class) == class = "Transient" /\ BelowLimit(fs)
AnnouncesExhaustion(fs, class) == class = "Transient" /\ ExhaustedNow(fs)
AnnouncesCap(fs, class) == class = "Permanent" /\ FirstCapped(fs)
=============================================================================
