# TLA+ models of rss2discord-operator

The operator watches `FeedGroup` resources.  For each one it polls the group's RSS and Atom feeds,
renders new entries and posts them to a Discord webhook, and keeps everything it must remember
(what was sent, what failed, when to try again) in the resource's status.  There is no other
storage: a crash, a failed status write or a stale read means that the next reconcile starts from
what the status says.  These modules model that bookkeeping and the schedules around it, check it
with TLC, and prove all of its safety with TLAPS for every value of the constants.

## The system and its parts

| part (src/internal/...) | state it keeps | operations | interacts with |
|---|---|---|---|
| group reconcile: `controller/feedgroup_controller.go`, `schedule.go`, `settle.go`, `cadence.go`, `check.go` | the group's status as written; the work queue's wake time | `Reconcile`, `prepareStatus`, `webhook`, `planFeeds`, the fold in `reconcilePass`, `settle` | reads the spec from an informer cache and the Secret from the API server, calls the feed sync once per due feed, writes one status, requeues itself |
| feed sync: `feed_sync.go`, `delivery.go` | validators, `Initialized`, the entries handled in the pass | `apply`, `begin`, the send loop, `close`, `secureAfterPanic` | asks the ledger and the plan, calls the Discord client, records outcomes on the attempt |
| delivery ledger and plan: `ledger.go`, `delivery_plan.go` | `LastSeenEntry`, `LastSent` | `resume`, `sent`, `markHandled`, `markNewest`, `pruneLastSent`, `planDelivery` | only the feed sync uses them |
| identities: `rss/identity.go`, `identity.go`, `identity_migration.go`, `rss/previous_identity.go` | the form of the ledger's keys | `migratePreviousIdentities`, `rekeySent`, `moveWatermark` | runs inside `begin` |
| retry run and failure policy: `backoff.go`, `attempt.go`, `classify.go` | `RetryCount`, `BackoffUntil`, `LastError`, two conditions | `record` for each outcome, `fail`, `extend`, `clear`, `sendCaused` | read by the scheduler, by the skip policy of the send loop and by the Secret watch |
| Secret watch: `secret_watch.go` | `WebhookSecretResourceVersion` | `noteWebhookSecretVersion`, `clearSendBackoffs` | wakes groups, clears send backoffs |
| fetch pool: `fetchAll` | none (a result per feed) | one goroutine per due feed, a semaphore, a barrier | reads the status concurrently |
| failure classification: `classify.go`, `attemptOutcome.resolve` | none | `classifyFetchError`, `classifySendError`, `resolve` | turns the errors of the RSS and Discord clients into the class, reason and metric label of an outcome |
| rate limiter: `discord/ratelimiter.go`, `discord/client.go` | cooldown and pacing per webhook | `wait`, `reserve`, `cooldown`, `pace` | shared by every reconcile of the process |
| message fit: `discord/fit.go` | none | `Fit` | called by the renderer and by every send |
| metrics: `metrics.go` | the process's registry: counters and gauges per feed and per group | `forget`, `forgetFeed`, `syncFeedState`, counting | written by the reconcile and by `settle`, lost with the process |
| status store: `status_store.go` | the FeedGroup in the API, the informer's copy of it | `ensureFeedStatuses`, the apply and its no-op skip | written by `settle`, read by the next reconcile through the cache |
| rss client and parser, rendering, filter, summary, manager, charts | none that is read back | functions of their input | |

What makes the parts correct, and what is hard about them:

* *Delivery.*  Nothing recorded is posted again, nothing unresolved is passed over in silence, and
  the first sync of a feed is bounded.  Hard because the record is one watermark and a capped set of
  keys, the publisher moves entries in and out of the window, validators can hide the document, and
  every pass can stop at any entry, panic, or lose its status write.
* *Identities.*  A record must find its article again, and no other.  Hard because an entry's ID may
  come from a GUID or a link, links carry fragments that sometimes tell entries apart and sometimes
  merely rotate, an upgrade can change which ID is picked, and whether a short form is safe depends
  on what else the document holds at the moment.
* *Retry run.*  One counter serves two kinds of failure, and which kind is inferred from a condition
  that the same call changes.  Counting, backing off, announcing and skipping all read it.
* *Schedule.*  One wake-up serves feeds with different due times, backoffs, an external rate limit,
  edits that force everything, and a pass that may stop half-way.
* *Rate limiter.*  Four locked steps, with nothing locked across two of them, nor from the reservation
  to the post.
* *Group life cycle.*  What the operator says about a group is in two places with different lives: the
  status, which outlives the process but is written without a resourceVersion and read through a cache
  that lags, and the registry, which is lost with the process and pruned by comparing a status with
  a spec.
* *Classification.*  Each class hangs on which of several overlapping tests sees a chain of wrapped
  errors first.

`PROJECT.json` lists each hazard at its line with the properties that would catch it, or why none
does yet.

## Modules

| module | models | checked by |
|---|---|---|
| `RetryRun` | the retry run and what `feedAttempt.record` does to a feed's status, as operators on a record | through `FeedRetry` |
| `FeedRetry` | every order in which passes can record outcomes on one feed, with edits, replaced Secrets, panics and lost passes | `FeedRetry.cfg` |
| `FeedRetry_proofs` | proofs about `FeedRetry` | tlapm |
| `DeliveryLedger` | watermark, `LastSent`, pruning and the delivery plan, as operators on a status and a document | through `FeedSync` |
| `FeedSync` | passes of one feed over a changing document: fetch, plan, send loop, close, panics, lost passes | `MCFeedSync` with `FeedSync_*.cfg` |
| `FeedSync_proofs` | proofs about `FeedSync` | tlapm |
| `Delivery` | what the delivery of one feed promises, whatever it is made of | `FeedSync` implements it (`DeliversOnce`); its own theorem by tlapm |
| `MCFeedSync` | three entries, with one or two hashed keys each, which sort opposite to their dates | |
| `LedgerIdentity` | the identities of entries, the keys and the watermark recorded for them, and their migration | `MCLedgerIdentity` with `LedgerIdentity*.cfg` |
| `MCLedgerIdentity` | four articles, two of them siblings under one link, one whose GUID is that link | |
| `LedgerIdentity_proofs` | proofs about `LedgerIdentity` | tlapm |
| `GroupReconcile` | the reconciles of one group: due feeds, fold, settle, Ready, requeue, edits, Secrets | `GroupReconcile.cfg`, `GroupReconcile_RemainingFeeds.cfg` |
| `GroupReconcile_proofs` | proofs about `GroupReconcile` | tlapm |
| `Recursion` | no code: lemmas about the least and the greatest of some numbers, induction, and functions defined by recursion over `Nat`, for the proof modules | tlapm |
| `FailureClass` | the errors a fetch and a send can end in, and what classify.go makes of them | through `GroupLifecycle` |
| `GroupLifecycle` | one group that is edited, deleted and made again; its status, the cache's copy of it, and its series in the registry | `MCGroupLifecycle` with `GroupLifecycle*.cfg` |
| `MCGroupLifecycle` | the HTTP statuses that classify.go tells apart | |
| `GroupLifecycle_proofs` | proofs about `GroupLifecycle` and `FailureClass` | tlapm |
| `MessageFit` | fitting a message to Discord's length limits | through `RateLimiter` |
| `RateLimiter` | the limiter of one webhook and the senders that share it, each of which fits its message | `MCRateLimiter` with `RateLimiter.cfg` |
| `MCRateLimiter` | messages with every field below, at and over its limit | |
| `RateLimiter_proofs` | proofs about `RateLimiter` and `MessageFit` | tlapm |

### How the models correspond to the code

**RetryRun / FeedRetry.**  The record `fs` has the fields the code reads and writes: the Reachable
and Delivered conditions by status or reason, whether `LastError` is set, `RetryCount`, and
`BackoffUntil` as *whether it is set* and *how much time is left*, since an expired deadline stays
in the status until something clears it.  Each `case` of `record` is an operator (`Sent`,
`RenderFailed`, ...), each place that calls it an action of `FeedRetry`.  `stored` is `processFeed`'s
`before`, to which a panic or a lost pass goes back.  The history variable `run` is the run as the
outcomes alone define it: its phase, its failures, its Events.  It never feeds back into `fs`, and
the properties compare the two.

**DeliveryLedger / FeedSync.**  An entry is its rank in the order `begin` sorts a document into, and a
document is a set of entries.  The publisher may add an entry with any rank (entries without dates and
back-dated entries), take one out, and loses the oldest one when the window is full.  An entry has
the keys `settle` gives it, one or two (`KeysOf`): that of its identity and, if its stripped link is unique in
the fetch, that of the link.  Either one finds it, both are recorded, and the cap counts and drops them
apart.  They are the same in every fetch here; when a link is unique, and what becomes of the keys when that
changes, is `LedgerIdentity`'s subject.  `LastSent` is a sequence of batches, because all keys of a pass
carry one timestamp and only their order and the order of the keys decide what is pruned.  The `spec` is
what an edit changes: the limit, which entries the filter rejects, and whether templates and filter are
usable.  Stored validators are the document they were issued for:
a fetch answers 304 only if they match, and may always answer in full.  A response may come without
validators, and then the old ones stay, as in `persistValidators`.  `mem` is the status in the pass's
hands, `stored` the one written.  A lost answer is an action of its own: Discord has the message, the
pass records a failure.  `LosesPass` stands for a crash, a refused write, and for a next reconcile that
reads the group from a cache without the last write and writes over it: all three start the next pass
from the status before this one.  `hist` keeps what happened at Discord, which the status only
approximates, and which entries were published with a date before a newer one's (`backDated`), left behind
by the watermark unhandled (`passed`), and rejected by a plan's filter (`refused`): the passed ones are never planned,
and a 304 may hide these and the refused ones, since the validators outlive an edit of the filter.

**Delivery.**  The abstract specification knows neither documents nor watermarks.  An entry that is not
held and not recorded is open; posting or giving up holds it, a commit records what is held, and the
loss of a record, or of Discord's answer, is counted.  `FeedSync` maps its state to it: `posts` and
`recorded` are the history's, `held` is the batch of the pass (`Held`), `lost` counts the lost passes
and answers.  `DeliversOnce` says that each step of `FeedSync` is a step of `Delivery` or none: that the
window, the watermark, the plan, the filter of sent keys and the pruning to a cap together never handle
an entry that is held or recorded.

**LedgerIdentity.**  A URL is a base and a tail, the fragment and `ref` parameter that
`normalizeIdentity` strips and `normalizeLinkIdentity` keeps.  The document says for every article
which GUID and link elements this release reads, and which ones earlier releases read, so that
`PickIdentity` gives the ID and the `PreviousID` of its entry.  The counts of `newDeliveryLedger` are
sets (`Claims`) and quantifiers.  `Begin` migrates and plans, a failure stops the loop anywhere
(`Closes`), and a lost watermark plans the whole document: that it is capped, and that keys are
pruned, is `FeedSync`'s part.  The document changes between passes only, since a pass works on the
one it fetched.  `Migrated` goes over the entries by number, as a recursive function.

What is told from what is told from one fetch to the next.  Over a longer time every form of "no record of
another" is false: a key that was moved from `x` to `y` is moved on to `z` when `y` becomes somebody's
previous link, so that a record can end with an article that never shared a URL with the one it was made
for.  So history remembers the articles `taken` as sent, those sent and those a pass found recorded, and the
`marker`, the article the watermark last stood for; `SiblingsToldApart` and `MarkIsNotTaken` say whom an
article can be taken for *first*, and what the next fetch may make of the watermark.  A stripped key that moves twice
in one pass is the exception (`MovedOn`).  Of the articles that show no URL another one shows (`Lone`) history
also remembers how the last fetch identified them: one that was shown in a way no record of it can know is
`renamed`.  A `Lone` article does not show one URL both as a link and as a GUID: `ownsPrevious`
counts the entry's own claim (`ledger.go:357`), and a record that pruning left under the stripped key alone is
then dropped.

**GroupReconcile.**  Time is counted in ticks and passes only between reconciles (a reconcile takes
seconds, intervals are minutes; a longer pass only delays the next).  A feed's status keeps what
scheduling reads: its age since `LastChecked`, whether it is failing, what is left of its backoff and
which phase caused it (that the code infers the phase rightly is `FeedRetry`'s `PhaseIsInferred`).
`wake` is the delayed entry of the work queue; an edit, or a replaced Secret when Secrets are
watched, sets it to 0, also behind a running pass.  The fold processes one feed per step, in the order of
the spec (`Current` is the least of the feeds to do), so that
edits, Secrets, panics and crashes fall between any two.  `hist` remembers which feeds the current
generation attempted, whether a pass of it was cut short, and whether the last reconcile went over all
its feeds.  `Slack` is what the requeue may add to an interval: the jitter, or the floor under the wait for the
soonest feed that was not due.
`ready` is the reason of the Ready condition, written with the status; what it says is that of a spec
whose interval parses.

**FailureClass.**  An error is the chain of Go types that `errors.As` walks, with the HTTP status it
holds.  The sets `FetchFaults` and `SendFaults` enumerate what the two clients wrap around what;
the classifiers are the code's tests in the code's order.  Some causes no test looks for and they are left to
`Other` (`LeftToOther`): a broken connection, a redirect the fetch refuses to follow, a webhook URL that is not
Discord's, and an empty message; the last three last, and are retried all the same.  `cause` is what went wrong, which no
classifier reads: `ClassesAreOfCauses` compares the two.

**GroupLifecycle.**  `group` is the resource in the API, `cache` the informer's copy, and the work queue a
flag; what else wakes a group (`Wakes`) is left free.  A reconcile reads the cache, prunes
(`EnsureFeedStatuses`, `ForgetFeed`), folds its due feeds in spec order, each with an outcome that
`FailureClass` resolves from an error, and settles: the gauges are set from the copy, and the status is
applied to whatever group has the name by then, or skipped as unchanged, or refused.  `conditions` stands
for the generation the conditions carry: two statuses that differ in nothing else are told apart by it.
`hist` records which of the ways to lose track have happened: a status that was not written, a copy that was
stale when it was read, a reconcile of such a copy that wrote nothing, a group made again.

**MessageFit.**  A text is its length in runes.  `Fit` and the count of what it trimmed are translated from
fit.go; a sender of `RateLimiter` fits its message before it posts (`EveryMessageFits`).

**RateLimiter.**  Deadlines are the ticks left until them.  Each locked call of the limiter is one
step, and so is the post (`Posts`), before which the limiter is not asked again: between them the senders
interleave, so that a cooldown can be recorded between a reservation and its post.  `asked` and `empty` are
history: what is left of every wait that a response asked for, as opposed to the deadline the limiter kept.
`ahead` is history, too: who had reserved and not posted when the first of these waits was asked for.
Those may still post, once each (`CooldownHolds`); nobody else does until the last wait is over.

## Runs

| run | bounds | what it shows |
|---|---|---|
| `feed_retry` | 2 retries, base 1, cap 6, failures up to 5 | Ten properties of the run: the inferred phase, own failures only, backoffs that belong to the run and never shrink, failures that show, Events at most once and exactly once in runs of one class, replaced Secrets, and that a feed is attempted for ever |
| `feed_sync_catch_up` | 3 entries of two keys, all in the window, limit 1, 6 keys, one lost pass or answer, two entries taken back, one entry that never renders, one edit of the filter (1 276 249 states) | `FeedSync` implements `Delivery`; 304s hide nothing but what an earlier plan left out, the first sync is bounded, only a catch-up trim lets a newer entry overtake, and the watermark passes over back-dated entries only |
| `feed_sync_no_backlog` | 3 entries of one key, limit 0, a rejected entry, one edit between usable, broken and invalid specs | Only the backlog is skipped, and broken templates give up no entry |
| `feed_sync_pruned` | 3 entries of two keys in order, window 2, cap 3, one withdrawal, one that never renders, one lost pass or answer (29 461 states) | Where half the keys are pruned, one of an entry's two among them, and the watermark is lost, the rest of `LastSent` still tells what was sent (with a cap of 2 an entry is planned again); every entry that was tried is resolved in the end |
| `never_overtaken` | 3 entries, window 2, limit 1 | Without a watermark a trim lets a newer entry overtake (below) |
| `ledger_identity` | 4 articles, 7 ways to show them, 2 in the document at a time, one upgrade (692 671 states) | An article is first taken as sent only for one it could not be told from, never for a sibling beside it; an article that stays recognizable is sent once; the watermark follows its article and passes to its like only |
| `shared_old_identity` | same, the siblings moving to links of their own | The migration gives one sibling's record to the other (below) |
| `group_reconcile` | 2 feeds, interval 3, retry 2, floor 2, jitter 1, backoff 2, one edit, one new Secret, one lost pass (502 209 states) | The queue never sleeps past a due feed, observed generations were attempted, a group that reads Ready has checked every feed within the last interval, send backoffs end with their Secret, every feed is attempted again and again |
| `remaining_feeds` | 2 feeds, interval 2 | Forced feeds behind a rate limit wait for their interval |
| `rate_limiter` | 3 senders, limits 3 and 2, waits 0 to 4; messages with each field from empty to over its limit | While a wait asked for runs, no post but those reserved before it; no post into a bucket known to be empty; every message fits, and nothing that fits is cut |
| `group_lifecycle` | one feed of the list that comes, goes and is paused, 2 edits, one deletion, failed write or restart (669 391 states) | Gauges tell the status in the API, dropped feeds leave no series, a deleted group is forgotten in the end, and every error's class, reason and label follow from its cause |
| `removed_feed_series` | same | A feed that is dropped before its first status was written and read back leaves its series (below) |

Why these bounds are enough.  Retry: two retries give the counts below, at and past the limit, and
the cap is reached from the third permanent failure on, so each comparison in the code is crossed in
both directions; one more failure repeats the state at the cap.  Sync: with a limit of 1 and three entries in the window, a plan trims two entries or passes two behind
a found watermark, and an entry taken back makes a watermark lost; a window of two is rolled over by the
third entry; one loss is what separates a pass that is recorded from one that is not.  With a window of two the
distance between a watermark and the window is reached with three entries, and a cap of 3 for their six keys drops
entries and cuts an entry's two keys apart.  Identities: a sibling,
its twin, a GUID that equals their link and an article apart are the cases the counts tell apart; every
rule compares at most two entries of a document, so two are shown at a time and all pairs occur, before
and after the upgrade.  Reconcile: two feeds are the one under attention and the rest of the group; an interval
of 3 lets a retry, a backoff and a rate limit all end inside it, and a floor of 2 is met by a feed that is due in one tick.  `Horizon` only merges ages that no
comparison tells apart.  Limiter: with three senders, one holds an old pacing, one records a cooldown
and one has reserved.  Life cycle: the series of two feeds never meet in one expression, so one feed stands for all
of them; two edits drop it and bring it back, or pause it in between, and one trouble at each point of a pass
(with the return of a deleted group, which is not counted) is what the properties' premises tell apart.  The
proofs drop the bounds.

`FailureBound`, `MaxDeletions`, `MaxEdits`, `MaxLosses`, `MaxTroubles`, `MaxSecrets`, `Window` and `Horizon` are the bounds that
the code does not have; each one stands in the guard of its action.

### Fairness

* `FeedRetry`: time passes while a backoff runs, a group is requeued after every reconcile, and a
  pass ends (HTTP clients have timeouts).  Which outcome it has, and edits and Secrets, are free.
* `FeedSync`: the same for `Deliver`.  Strong fairness on a fetch that the validators do not match,
  and on sending and the two ends of a failed render, says that panics, rate limits and lost writes
  do not meet every single try.  The property also states that fetches do not fail for ever, because a failed
  fetch ends the run whose count leads to a skip: a feed whose fetch fails between every two renders
  of a broken entry is held by it for ever, which is what the code does.
* `GroupReconcile`: `SF(Begin)`, because `Begin` is disabled while the Secret is unusable and a new
  edit restarts the wait.  Rate limits and panics that never end are excluded by the premise of
  `EveryFeedAttempted`, feed by feed in spec order they would starve the last one.
* `GroupLifecycle`: the watch delivers what it has (`WF(CacheSyncs)`), and a queued group is handed out and its
  reconcile goes on (`WF(Reconcile)`), by whichever of its steps.
* No fairness is assumed of the publisher, of edits, or of any particular outcome.

## What is proved

Each theorem holds for every value of the constants that the module's named assumption allows.

`FeedRetry_proofs`:

* `TypeCorrect`, `PhaseCorrect`, `CountCorrect`, `BackoffCorrect`, `FailuresShown`: the invariant says that
  a record and its run agree (`Agree`), both for the record in hand and for the one a pass started from
  (`stored`, `storedRun`), without which a panic or a lost pass would not preserve it, and with the stage: once
  a fetch succeeded, Reachable is True until the pass ends, which is what makes a delivery failure count in a
  delivery run.  One lemma per operator of `RetryRun` says how it changes the record; the step lemma has one
  case per action.
* `EventsOnce`, `UniformAnnounced`: a second invariant relates what the run announced to its counts (`Announced`): the
  cap Event was emitted only if the backoff was at its cap when the last permanent failure was counted, the
  exhaustion Event only if the count has reached the limit, and in a run of one class also the other way
  round.  It needs that a doubled backoff reaches the cap once and stays there (`CappedOnce`).
* `BackoffMonotone`: backoffs grow with the count.  `2^n` is the recursive function `Shift`; that it grows is
  proved by `Recursion`'s `Induction`.
* `SecretCorrect`: from that invariant, a replaced Secret frees a backed-off feed exactly if its run is a
  delivery run.

`FeedSync_proofs`, for any set of entries with a last one, one or two keys for each, any filters, templates, limits, cap and window, and any
number of edits, deletions and losses:

* `OrderCorrect`: no entry is handled before an older one that was tried and still waits, unless that one was
  trimmed.  What was tried and is unresolved is not recorded and not behind a watermark that the document
  holds (`Waiting`), in the stored status; so every pass plans it again or trims it, and the pass's own copy
  keeps both facts (`Planned`).  A watermark that was lost stays lost, because no entry appears twice.  The
  rest is that `Min(todo)` is handled first.  Lemmas about `Prune`, `MarkHandled` and `Append` say what they
  do to the set of recorded entries.
* `SkipsCorrect`: broken templates give up no entry, from the same invariant.
* `TypeCorrect`: what a pass sends is in its plan and its document, the document fits the window, and what was
  posted or recorded was published (`Known`).  From here on a step is one of seven (`Steps`): the publisher adds
  or takes back an entry, a pass begins, handles an entry, stops, is abandoned, or nothing of this changes.
* `DeliveryImplemented`: each step of `FeedSync` is a step of `Delivery` or none, under either of two hypotheses
  on the constants.  The point is that no pass plans what is recorded (`Fresh`).  If the entries have no more keys
  than the cap (`Exact`), nothing is ever pruned: recorded entries keep their keys, each in one batch
  (`Remembered`).  If nothing is taken back (`Rolling`), a recorded entry that the document still holds is
  behind a watermark the document still holds, whatever is pruned (`Rolled`).
* `NothingHidden`: under the same hypotheses a 304 hides no entry but those an earlier plan left out: of a
  document whose validators are stored, every entry is recorded or was left out (`Seen`).  What an edited filter now admits was left out by the one before;
  that a 304 hides it is what the code does.
* `PassedCorrect`: the watermark passes over no entry but a back-dated, trimmed or rejected one, since it only
  moves to an entry that is handled, and the oldest is handled first.  No hypothesis is needed.
* `DeliveryInOrder`, `NothingHiddenInOrder`: the same two properties where keys are pruned and entries are taken
  back, which is how the code runs: with its cap of 50 keys, for documents of up to 12 entries and a gap of 2, say.
  The hypotheses are about the publisher's behaviour (`Steady`: entries come in order, and at no time have more than
  `gap` entries been taken back that are newer than one still in the document) and the cap (`Roomy`: at two keys an
  entry (`KeysOfMany`), the keys of two windows and the gap are at most two more than the cap).  The invariant
  (`Compact`) counts the entries that are recorded and dropped later than a recorded entry of the document: the newer entries, in the document or taken back, and the older ones recorded with it or
  after it (by plans without a watermark), which were all in one document with it and so are less than a
  window (`FitWindow`).  So every recorded entry that the document still holds keeps
  its keys.  A withdrawal can cost the watermark in this case; the keys alone tell old from new.
  `DeliveryOfFewWithdrawals` is the case stated of the constants alone: no back-dating, and `MaxDeletions` entries taken
  back in all.  The bound is enough and not the least: for the window and the withdrawal of `feed_sync_pruned` it
  asks for 8 keys, where TLC finds that 3 do for the run's three entries, and 2 do not.
* `BacklogBounded`: while the watermark is found and nobody edits the limit, a feed's backlog costs at most `catchUpLimit` messages for
  each pass that could be its first (`Paid`): a plan without a watermark has at most that many entries
  (`NewestAre`), and the next such plan needs a record that was lost.
* `BacklogOnly`: with a limit of 0, what is left out was there before the first sync was over.

`Delivery`, which holds its own few proofs: `RepeatsOnlyByLoss`, that an entry is posted at most once and once more per lost record or
answer, from the stronger fact that an open entry's messages are all lost ones.  With `DeliversOnce` this bounds the
repeats of `FeedSync`.  Outside the hypotheses of `DeliveryImplemented` and `DeliveryInOrder` it need not hold:
for caps too small it does not (see `ledger.go:40` below), and out of order no bound of this kind does,
for once a withdrawal has cost the watermark, back-dated entries bring any number of newer keys in.

`GroupReconcile_proofs`, for any feeds, any intervals (a retry longer than the interval among them), floor, jitter
and backoffs:

* `TypeCorrect`, `SecretBackoffCorrect`: with the types, in the stored status and in a pass's copy every
  backoff caused by a send was caused under the Secret that status names (`Faithful`).
* `ObservedCorrect`: what a pass still has to do and what its generation attempted cover every feed that is not
  paused, unless the pass was cut short or an edit came in behind it.
* `WakesCorrect`, `ReadyCorrect`: what a pass skipped is not due before the plan's `NextDue`, what it attempted has age 0 or
  is failing, and what is stored at the end of it is what the requeue was computed from; while the group
  sleeps, age and `wake` move against each other.  Ready is written only by a pass that went over all its
  feeds, and a status that reads Ready has no failing feed.

`Recursion`: a set of naturals that has a member has a least one (from the well-foundedness of `Nat`), and a greatest
one if it is bounded, hence an induction rule for sets of naturals, hence that a recursive definition over `Nat` has a function
that satisfies it.

`GroupLifecycle_proofs`:

* `GaugesCorrect`: copies of the group with one UID and one generation have one spec (`Versions`), and a pass that
  nobody queued another one behind is over the generation the cache has (`Current`).  So when nothing is
  queued and the cache is up to date, the last pass was over the spec the group has, and either wrote the
  status its gauges tell or found it in the API (`Unchanged`, `AllTold`).
* `SeriesCorrect`: while every status is written and read back, each feed with a series is one that the written
  status lists (`Found`), so that pruning finds it; conditions of a generation imply statuses of that
  generation's feeds (`Listed`), which is what the skip of an unchanged status needs.
* `TypeCorrect`: generations, observed ones among them, count the edits and UIDs the deletions (`Within`, `Counted`), a
  pass folds only feeds of its own spec that are not paused, and only a feed with a health gauge is
  reported healthy.
* `ClassesCorrect`: whenever an attempt is folded in, its failure's class and label are those of its cause.
* `ClassesToldByCauses`, for any set of statuses.  The class of an error depends on which types its chain
  holds, not on their order, except for time-outs, whose outermost `net.Error` must pass the question on
  (`HoldsTypes`, `LateChains`).  So a fault of the network is told by its chain (`NetworkFaultForms`), wrapping
  keeps it told (`WrappedTransport`), every fetch and every send has the class of its cause or of its answer's
  status (`FetchClasses`, `SendClasses`), and classes of causes that differ are equal only where they are left to
  `Other` (`CausesToldApart`).

`RateLimiter_proofs`, for any set of senders, any limits and any waits: `DeadlinesBounded`, `CooldownCorrect`,
`PacingCorrect`.  The inductive invariant says that the cooldown covers every wait asked for (`Covered`), that whoever
has reserved while such a wait runs had done so before the first one (`ReservedAhead`), that the pacing's history
agrees with it (`Paced`), and that whoever has reserved has slept (`AwakeWhenReserved`).  `ReservedAhead` is what the
guard of `reserve` keeps, through `Covered`; it carries the cooldown over from the reservation, where it is
asked for, to the post, where it is not.

Also there: `MessagesFit`, for any field limits that leave the rest of an embed room within the
total: the fields first, then the description, with what is counted as trimmed exactly what is gone.

`LedgerIdentity_proofs`, for any articles, any ways their publisher shows them in, and any window.  The inductive
invariant (`IInv`) is that what is recorded is somebody's:

* `Originated`: every key has an article that was taken as sent and has an identity the key stands for
  (`Stands`); `Marked`: the watermark names the `marker` in the same way.  `Followed` and `Recorded` turn this
  round for a `Lone` article: its watermark carries the tail it was last shown with, and its keys are those of the
  last fetch that held it, with the stripped one unless it was migrated from a GUID.
* What a migration does to one entry is said by two lemmas, where a key in the result came from (`RekeyFrom`)
  and what arrives and stays (`RekeyTo`); `MigrationInduct` carries a fact over all entries of the document, from
  the existence of recursive functions in `Recursion`.
* `ApartCorrect`: a key that the migration moves onto an entry is of an article that entry can be taken for, unless
  it was moved in the same pass before (`NotMovedTwice`).  An entry key moves once, since `CarriesOver` asks that no
  entry has the old identity now; a stripped key moves twice only between two unique links.  Between two
  entries with one link and two fragments no stripped key passes, for neither is `Unique`.
* `SentOnceCorrect`, `FollowsCorrect`: no other entry's move touches a `Lone` article's keys or its watermark
  (`MigratedApart`, `MigratedMark`), so its own move decides (`LoneMigrated`).
* `MarkCorrect`: the watermark of one article can be found for its like only, in the lookup (`FoundAlike`) and through
  every chain of migrations (`MigratedAlike`).  `TypeCorrect` needs that an identity never equals the missing one.

What stays with TLC.  Liveness under fairness (`AttemptedForever`, `TriedEntriesResolved`, `EveryFeedAttempted`,
`DeletedGroupForgotten`): the provers have no proof rules for it here.  Every invariant and every other action
property of the passing runs is proved.

## Where the code and its comments disagree

Each is a run that expects its property to be violated; `PROJECT.json` quotes the comment.

1. `never_overtaken` (`delivery_plan.go:115`): without a watermark each pass plans the newest `catchUpLimit`
   entries anew, so that a failed entry is trimmed by the next pass and newer ones go before it.
   `OvertakenOnlyByTrim` shows that this is the only way.
2. `shared_old_identity` (`ledger.go:443`): `rekeySent` moves the stripped key of a previous link without
   asking `ownsPrevious` when the new link is unique.  If two entries had that link but for the
   fragment, the key can be the other one's record, and the entry is never delivered.
   `SiblingsToldApart` shows that siblings by their current links are told apart, also where one of them moved there.
   Its exception, `MovedOn`, is of the same rule: if an entry moves from `x` to `y` and the next one from `y` to `z`, with
   fragments that keep the identities apart, the stripped key of `x`, whosever it was, is moved on to `z` in one pass.
3. `remaining_feeds` (`feedgroup_controller.go:218`): the feeds behind a rate limit are not retried by the
   requeue if only the edit made them due.
4. `removed_feed_series` (`feedgroup_controller.go:122`): which feeds were dropped is told from the status
   the cached group carries, so a feed that is dropped before its first status was written and read back keeps
   its series until the group or the process goes.  `SeriesAreOfSpec` shows when it does not.

Other observations are not runs.

* `attempt.go:121` calls the `RetryInterval` the faster one, but nothing bounds it by the interval
  (`schedule.go:115`).  With a longer one a feed that fails slows the group down, the feeds that succeed among
  it; `WakesInTime` states the bound that holds, and its proof allows any retry.
* A permanent failure can step over the count at which the exhaustion of transient retries is announced
  (`attempt.go:341`), so that a run with both classes may exhaust its retries without an Event; `extend` has the
  same gap for the cap Event.  `UniformRunsAnnounced` shows that runs of one class are announced.
* A first sync whose send failed sets `Initialized` and no watermark (`delivery_plan.go:113`).  If `catchUpLimit` is
  then edited to 0, the feed is taken for one that was empty at its first sync, and the next pass plans its whole
  backlog without a limit; `delivery_plan.go:101-103` says that all of it was published after that first sync.
  `OnlyBacklogSkipped` and `BacklogWithinLimit` are checked, and proved, for a limit that nobody edits.
* The retries behind a skip belong to the feed, so an entry that does not render can be skipped the first time it is
  tried, although `delivery.go:120` speaks of retries exhausted a full reconcile ago.
* `ledger.go:38-41` says of the cap of 50 keys that `LastSent` just needs to cover a feed's window, typically of 10 to
  50 entries.  An entry known by a unique link takes two keys (`ledger.go:287-291`), so that 50 keys hold 25 such
  entries; and keys of one pass share a timestamp and are dropped by hash.  An entry of the document without a key
  is posted again once a withdrawal costs the watermark.  `DeliveryInOrder` says up to which size this does not happen.
* An edit of the filter leaves the stored validators (`feed_sync.go:371`): until the document changes a 304 hides
  the entries the filter now admits, those the watermark has not passed among them.  When it does change, the
  entries behind the watermark stay unsent.  `feed_sync_catch_up` has such an edit; `NothingBehind304` excuses
  what an earlier plan's filter rejected.
* A reconcile that reads a stale copy and finds nothing to change in it writes nothing, but sets the gauges from
  that copy: until the next pass they differ from the status in the API (`hist.skipped`).
* The apply carries no UID: a pass over a deleted group writes its status, its observed generation included, into
  one created since under the same name, where it stays until that group's own passes replace it.
* A webhook host that is not Discord's, a message that is empty and a redirect that is refused are classified as a
  transient `Other`, although only an edit or the publisher can mend them; `classify.go:42-47` speaks of
  configuration as permanent.
* `Retry-After: 0` gives a wait of 0, which does not stop the pass; `client.go:248-250` says that callers always
  back off on a rate limit.
* With `catchUpLimit` 1 and no watermark, the evidence that templates work is the single entry of
  the plan: if it does not render it is never skipped, and the feed waits for a newer entry.
* A configuration error followed by a 304 clears `LastError` while the configuration is still broken.
* A watermark set under one fragment of a link is lost by the upgrade when the fragment rotated before
  it: `moveWatermark` compares full identities.  The capped catch-up follows, and `LastSent` dedups it.
* `ledger.go:433-435` says that the old stripped key falls back to the new entry key when no *other* entry can claim it.
  `ownsPrevious` asks that no entry does (`claims[stripped] == 0`): an entry whose new GUID is its old link
  without the fragment counts itself, and a record that pruning left under the stripped key alone is dropped.
* An entry that was migrated from a GUID to a link is recorded under its entry key alone, so that a
  fragment that rotates later is not recognized.  `SentOnce` counts it as renamed.

## What is not modelled

* Parsing, filtering, rendering and redaction: functions of their input, covered by unit and
  fuzz tests.  An entry renders or not, by a constant, and is rejected or not, by the spec of the time.
* Entries whose keys change from fetch to fetch in `FeedSync`, as a stripped link stops being unique or an entry is
  migrated: `LedgerIdentity` has these, without pruning.  Nothing here has both.
* URL normalisation beyond dropping the tail, and how documents are parsed into GUIDs and links.
* The informer cache in `GroupReconcile`, which reads the last written status; `GroupLifecycle` has the cache, and
  `FeedSync` the pass that is written over.
* `fetchAll`: the fetches of a pass appear with their outcome when it is folded.
* A panic inside `close`, which the code settles as it finds it: `close` calls nothing that can panic
  but an impossible verdict.
* Feeds added to and removed from a spec in `GroupReconcile`: a new feed starts with the initial status, so a
  feed there is one that stays.  `GroupLifecycle` has feeds that come and go.
* The values of counters, histograms and timestamps: only which series exist, and what the health gauge says.
* Leader election: one process is assumed to reconcile, as the manager is configured.
* `cmd/main.go`, flags and wiring; the marshalling of payloads and of the API types.
* The FeedReachable condition, the InvalidInterval Event, telemetry, manifests: nothing the controller reads back.

## Plan

The retry run, the delivery of one feed, the identities its record goes by, the group's schedule, the limiter, the
abstract delivery, the classification of failures, and the life cycle of a group with its cache and metrics are
done.  What is left:

* The FeedReachable condition and the InvalidInterval Event, once something depends on them.
* Whether `DeliveryInOrder` can do with fewer keys than those of two windows and the gap: TLC finds no repeat with
  half the keys of all entries in `feed_sync_pruned`.

`fetchAll` is not on the list: its goroutines write disjoint results and meet at a barrier, and what could
be said of them holds by that shape.
