--------------------------- MODULE GroupReconcile ---------------------------
(***************************************************************************)
(* The reconcile of one FeedGroup: when it runs, which feeds a pass        *)
(* attempts (planFeeds), the fold over their outcomes (reconcilePass), the *)
(* status write and the next requeue (settle), against edits of the spec,  *)
(* replaced webhook Secrets and a process that stops.                      *)
(*                                                                         *)
(* Time passes in ticks, and only between reconciles.  The queue runs one  *)
(* reconcile of a group at a time.  A feed's status is what scheduling     *)
(* reads of it: whether LastError or RetryCount is set (failing); how long *)
(* ago LastChecked is if not, for a failing feed is due whatever its age;  *)
(* what is left of BackoffUntil, and which phase caused it.  FeedRetry and *)
(* FeedSync are about the rest.                                            *)
(***************************************************************************)
EXTENDS Integers, FiniteSetsExt

CONSTANTS
    Feeds,               \* the feeds of the spec, numbered in spec order
    Poll, Retry,         \* cadence: interval and retryInterval
    MinInterval,         \* minParsedInterval
    Jitter,              \* bound: what jitter adds to a delay
    RetryAfters,         \* the waits Discord asks for
    Backoffs,            \* lengths of a permanent failure's backoff
    WatchWebhookSecrets, \* whether a replaced Secret wakes the group
    MaxEdits, MaxSecrets, MaxLosses  \* bounds: edits, replaced Secrets, lost passes

ASSUME GroupAssumption ==
    /\ Feeds \subseteq Nat /\ IsFiniteSet(Feeds) /\ Feeds # {}
    /\ {Poll, Retry, MinInterval} \subseteq Nat \ {0}
    /\ Poll >= MinInterval /\ Retry >= MinInterval
    /\ RetryAfters \subseteq Nat /\ Backoffs \subseteq Nat \ {0}
    /\ WatchWebhookSecrets \in BOOLEAN
    /\ {Jitter, MaxEdits, MaxSecrets, MaxLosses} \subseteq Nat

VARIABLES
    spec,      \* generation and the paused feeds
    secret,    \* the webhook Secret's resourceVersion and whether it is usable
    stored,    \* the group's status as written
    wake,      \* ticks until the queue hands the group out; in a pass, 0 once
               \* an event asks for another one
    pc,        \* "idle" or "pass"
    pass,      \* the reconcile in progress
    hist,      \* history, see Init
    losses     \* passes lost so far

vars == <<spec, secret, stored, wake, pc, pass, hist, losses>>

Horizon == Poll + Jitter + MinInterval + 1  \* bound: ages are not told apart from here

\* under is history: the Secret a backoff's send failed under.
NewFeed == [age |-> Horizon, failing |-> FALSE, backoff |-> 0, cause |-> "None", under |-> 0]
Checked == [NewFeed EXCEPT !.age = 0]
Failing == [NewFeed EXCEPT !.failing = TRUE]

\* A reconcile holds the generation it read, its copy of the status, the feeds
\* still to fold and those done, its verdict, and when the soonest feed it
\* skipped is due.
NoPass == [gen |-> 0, status |-> [observed |-> 0, secret |-> 0, ready |-> "None", feed |-> <<>>],
           todo |-> {}, done |-> {}, retry |-> FALSE, retryAfter |-> 0, nextDue |-> 0]

Init ==
    /\ spec = [gen |-> 1, paused |-> {}]
    /\ secret = [version |-> 1, usable |-> TRUE]
    /\ stored = [observed |-> 0, secret |-> 0, ready |-> "None",
                 feed |-> [f \in Feeds |-> NewFeed]]
    /\ wake = 0 /\ pc = "idle" /\ pass = NoPass /\ losses = 0
    /\ hist = [attempted |-> {},    \* feeds attempted at the current generation
               cutShort  |-> FALSE, \* a pass at it met a rate limit or no webhook
               whole     |-> FALSE] \* the last reconcile went over all its feeds

Unpaused == Feeds \ spec.paused

-----------------------------------------------------------------------------
(* What the reconcile reads. *)

ClearRun(fs) == IF fs.backoff > 0 THEN Failing ELSE fs

SpecChanged == spec.gen > stored.observed

PrepareStatus(status) ==
    IF SpecChanged THEN [status EXCEPT !.feed = [f \in Feeds |-> ClearRun(@[f])]]
    ELSE status

\* mutant: a new version is noted, and the backoffs stay
NoteSecretOnly(status) == [status EXCEPT !.secret = secret.version]

NoteSecretVersion(status) ==
    IF status.secret = secret.version THEN status
    ELSE [status EXCEPT
            !.secret = secret.version,
            !.feed = [f \in Feeds |-> IF @[f].cause = "Send" THEN ClearRun(@[f]) ELSE @[f]]]

UntilDue(fs) == Poll - fs.age

\* Whether planFeeds attempts a feed; force is a changed spec.
Due(fs, force) ==
    fs.backoff = 0 /\ (force \/ fs.failing \/ fs.age = Horizon \/ UntilDue(fs) <= 0)

Active(status, force) == {f \in Unpaused : Due(status.feed[f], force)}

Skipped(status, force) ==
    {f \in Unpaused : status.feed[f].backoff = 0 /\ ~Due(status.feed[f], force)}

LatestDue(status, force) ==  \* mutant: the last feed to become due
    Max({0} \union {UntilDue(status.feed[f]) : f \in Skipped(status, force)})

\* 0 when no feed was skipped as not yet due.
NextDue(status, force) ==
    LET waits == {UntilDue(status.feed[f]) : f \in Skipped(status, force)}
    IN  IF waits = {} THEN 0 ELSE Min(waits)

-----------------------------------------------------------------------------
(* Settling a reconcile. *)

\* Discord's wait is exact; any other delay is jittered and gives way to the
\* soonest feed that was skipped.
Requeues(delay, jittered, nextDue) ==
    {IF nextDue > 0 /\ nextDue < delay + j THEN Max({nextDue, MinInterval}) ELSE delay + j :
        j \in IF jittered THEN 0..Jitter ELSE {0}}

\* mutant: the feeds' statuses count although the pass stopped before some
ReadyOfFeeds(status, groupErr) ==
    IF \E f \in Feeds : status.feed[f].failing THEN "FeedErrors" ELSE "Reconciled"

\* The Ready condition's reason; spec.interval is one that parses.
Ready(status, groupErr) ==
    IF groupErr # "None" THEN groupErr
    ELSE IF \E f \in Feeds : status.feed[f].failing THEN "FeedErrors" ELSE "Reconciled"

\* The status is written, and the group waits for its next reconcile.
Settle(status, groupErr, waits) ==
    /\ stored' = [status EXCEPT !.ready = Ready(status, groupErr)]
    /\ wake' \in IF pc = "pass" /\ wake = 0 THEN {0} ELSE waits
    /\ pc' = "idle" /\ pass' = NoPass
    /\ UNCHANGED <<spec, secret, losses>>

\* mutant: a generation counts as observed although the pass stopped at a panic
ObservedAlways(status, done) == [status EXCEPT !.observed = pass.gen]
Observed(status, done) == IF done THEN [status EXCEPT !.observed = pass.gen] ELSE status

-----------------------------------------------------------------------------
(* The environment. *)

OlderForever(fs) ==  \* mutant: BackoffUntil is not compared with the clock
    [fs EXCEPT !.age = IF @ < Horizon THEN @ + 1 ELSE @]

OlderThanSet(fs) ==  \* mutant: nor is it asked whether it is set
    [fs EXCEPT !.age = IF @ < Horizon THEN @ + 1 ELSE @, !.backoff = @ - 1]

Older(fs) ==
    IF fs.backoff = 1 THEN Failing
    ELSE [fs EXCEPT !.age = IF @ < Horizon THEN @ + 1 ELSE @,
                    !.backoff = IF @ > 0 THEN @ - 1 ELSE @]

Tick ==
    /\ pc = "idle" /\ wake > 0
    /\ wake' = wake - 1
    /\ stored' = [stored EXCEPT !.feed = [f \in Feeds |-> Older(@[f])]]
    /\ UNCHANGED <<spec, secret, pc, pass, hist, losses>>

\* A new generation is queued at once, also behind a reconcile in progress.
EditSpec(paused) ==
    /\ spec.gen <= MaxEdits
    /\ spec' = [gen |-> spec.gen + 1, paused |-> paused]
    /\ wake' = 0
    /\ hist' = [hist EXCEPT !.attempted = {}, !.cutShort = FALSE]
    /\ UNCHANGED <<secret, stored, pc, pass, losses>>

ReplaceSecret(usable) ==
    /\ secret.version <= MaxSecrets
    /\ secret' = [version |-> secret.version + 1, usable |-> usable]
    /\ wake' = IF WatchWebhookSecrets THEN 0 ELSE wake
    /\ UNCHANGED <<spec, stored, pc, pass, hist, losses>>

-----------------------------------------------------------------------------
(* One reconcile. *)

CutShort == [hist EXCEPT !.cutShort = TRUE, !.whole = FALSE]

\* The Secret cannot be read, has no such key or a blank value; a blank one is
\* noted first.
FindsNoWebhook(noted) ==
    /\ pc = "idle" /\ wake = 0
    /\ noted => ~secret.usable
    /\ LET prepared == PrepareStatus(stored)
           status == IF noted THEN NoteSecretVersion(prepared) ELSE prepared
       IN  Settle([status EXCEPT !.observed = spec.gen], "WebhookUnresolved",
                 Requeues(Retry, TRUE, 0))
    /\ hist' = CutShort

Begin ==
    /\ pc = "idle" /\ wake = 0 /\ secret.usable
    /\ LET status == NoteSecretVersion(PrepareStatus(stored))
       IN  pass' = [NoPass EXCEPT
                      !.gen = spec.gen, !.status = status,
                      !.todo = Active(status, SpecChanged),
                      !.nextDue = NextDue(status, SpecChanged)]
    /\ pc' = "pass" /\ wake' = Horizon
    /\ UNCHANGED <<spec, secret, stored, hist, losses>>

\* The feeds of the plan are processed in spec order.
Attempting == pc = "pass" /\ pass.todo # {}
Current == Min(pass.todo)

\* The current feed's outcome is folded into the pass, and the fold goes on.
Process(fs, retry, retryAfter) ==
    /\ pass' = [pass EXCEPT !.status.feed[Current] = fs, !.todo = @ \ {Current},
                            !.done = @ \union {Current},
                            !.retry = @ \/ retry, !.retryAfter = Max({@, retryAfter})]
    /\ hist' = [hist EXCEPT
                  !.attempted = IF pass.gen = spec.gen THEN @ \union {Current} ELSE @]
    /\ UNCHANGED <<spec, secret, stored, wake, pc, losses>>

Folding == Attempting /\ pass.retryAfter = 0

Succeeds == Folding /\ Process(Checked, FALSE, 0)

\* A transient failure asks for a retry until its retries are exhausted; a
\* permanent one (b > 0) backs off.
FailedFor(b, cause) ==
    IF b = 0 THEN Failing
    ELSE [Failing EXCEPT !.backoff = b, !.cause = cause,
                         !.under = IF cause = "Send" THEN pass.status.secret ELSE 0]

FetchFails(b, retry) ==
    /\ Folding /\ (b > 0 => ~retry)
    /\ Process(FailedFor(b, "Fetch"), retry, 0)

SendFails(b, retry) ==
    /\ Folding /\ (b > 0 => ~retry)
    /\ Process(FailedFor(b, "Send"), retry, 0)

HasConfigError == Folding /\ Process(Failing, FALSE, 0)

IsRateLimited(retryAfter) == Folding /\ Process(Failing, TRUE, retryAfter)

\* Every feed of the plan was processed, or Discord asked to wait and the rest
\* were not.
Finishes ==
    /\ pc = "pass" /\ (pass.todo = {} \/ pass.retryAfter > 0)
    /\ Settle(Observed(pass.status, TRUE), "None",
              IF pass.retryAfter > 0 THEN Requeues(pass.retryAfter, FALSE, 0)
              ELSE Requeues(IF pass.retry THEN Retry ELSE Poll, TRUE, pass.nextDue))
    /\ hist' = IF pass.retryAfter > 0 THEN CutShort ELSE [hist EXCEPT !.whole = TRUE]

\* A panic: the feed's status is as before the sync, or that of a failed send
\* once an entry was handled.  The reconcile fails and is retried at once.
Panics(handled) ==
    /\ Folding
    /\ Settle(Observed(IF handled THEN [pass.status EXCEPT !.feed[Current] = Failing]
                       ELSE pass.status, FALSE), "ReconcilePanicked", {0})
    /\ hist' = hist

\* The process stops, or the status write fails.
LosesPass ==
    /\ pc = "pass" /\ losses < MaxLosses
    /\ losses' = losses + 1
    /\ pc' = "idle" /\ pass' = NoPass /\ wake' = 0
    /\ UNCHANGED <<spec, secret, stored, hist>>

-----------------------------------------------------------------------------
Attempt ==
    \/ Succeeds \/ HasConfigError
    \/ \E retryAfter \in RetryAfters : IsRateLimited(retryAfter)
    \/ \E b \in Backoffs \union {0}, retry \in BOOLEAN :
         FetchFails(b, retry) \/ SendFails(b, retry)

Next ==
    \/ Tick
    \/ \E paused \in SUBSET Feeds : EditSpec(paused)
    \/ \E usable \in BOOLEAN : ReplaceSecret(usable)
    \/ \E noted \in BOOLEAN : FindsNoWebhook(noted)
    \/ Begin \/ Attempt \/ Finishes \/ LosesPass
    \/ \E handled \in BOOLEAN : Panics(handled)

\* Time goes on, the queue hands the group out, a pass ends, and the API server
\* answers one request in a while.
Fairness == WF_vars(Tick) /\ SF_vars(Begin) /\ WF_vars(Attempt) /\ WF_vars(Finishes)

Spec == Init /\ [][Next]_vars /\ Fairness

-----------------------------------------------------------------------------
(* Properties. *)

FeedType == [age : 0..Horizon, failing : BOOLEAN, backoff : Nat,
             cause : {"None", "Fetch", "Send"}, under : 0..(MaxSecrets + 1)]
StatusType == [observed : 0..(MaxEdits + 1), secret : 0..(MaxSecrets + 1),
               ready : {"None", "WebhookUnresolved", "ReconcilePanicked", "FeedErrors", "Reconciled"},
               feed : [Feeds -> FeedType]]

TypeOK ==
    /\ spec \in [gen : 1..(MaxEdits + 1), paused : SUBSET Feeds]
    /\ secret \in [version : 1..(MaxSecrets + 1), usable : BOOLEAN]
    /\ stored \in StatusType
    /\ wake \in Nat /\ losses \in 0..MaxLosses
    /\ pc \in {"idle", "pass"}
    /\ pc = "pass" =>
        pass \in [gen : 1..spec.gen, status : StatusType, todo : SUBSET Feeds,
                  done : SUBSET Feeds, retry : BOOLEAN, retryAfter : Nat, nextDue : 0..Poll]

\* What the requeue may add to an interval: the jitter, or the floor under a
\* wait for the soonest feed that was skipped.
Slack == Max({Jitter, MinInterval - 1})

\* While the group sleeps after a reconcile that went over all its feeds, no
\* feed waits longer for its next check than its interval allows, whatever the
\* other feeds are waiting for; a feed that fails may hold the others back for
\* the retry interval, when that is the longer one.
WakesInTime ==
    pc = "idle" /\ wake > 0 /\ hist.whole =>
        LET longest == IF \E f \in Feeds : stored.feed[f].failing
                       THEN Max({Poll, Retry}) ELSE Poll
        IN  \A f \in Unpaused :
              ~stored.feed[f].failing => stored.feed[f].age + wake <= longest + Slack

\* A generation that counts as observed was attempted for every feed, unless a
\* pass at it had no webhook or met a rate limit: a panic or a crash between
\* two feeds does not make the rest wait for their interval.
ObservedWasAttempted ==
    stored.observed = spec.gen /\ ~hist.cutShort => Unpaused \subseteq hist.attempted

\* A backoff caused by a send never outlives the Secret it failed under by
\* more than the reconcile that notes the new one.
SendBackoffOfThisSecret ==
    \A f \in Feeds :
        stored.feed[f].backoff > 0 /\ stored.feed[f].cause = "Send" =>
            stored.feed[f].under = stored.secret

\* "All feeds processed successfully" (group_summary.go:109) is about now: a
\* group that is Ready at its generation has checked every feed within the last
\* interval, and none of them is waiting for a retry.
ReadyIsFresh ==
    stored.ready = "Reconciled" /\ stored.observed = spec.gen =>
        \A f \in Unpaused : ~stored.feed[f].failing /\ stored.feed[f].age <= Poll + Slack

AttemptOf(f) == Attempt /\ Current = f

\* Every feed that is not paused is attempted again and again, however its own
\* attempts and the others' end, as long as the Secret is usable and rate
\* limits and panics come to an end.
EveryFeedAttempted ==
    \A f \in Feeds :
        /\ <>[](f \in Unpaused /\ secret.usable)
        /\ <>[][~Panics(TRUE) /\ ~Panics(FALSE) /\ pass'.retryAfter = 0]_vars
        => []<><<AttemptOf(f)>>_vars

\* feedgroup_controller.go:214-217 says that a pass that stops at a rate limit
\* leaves the remaining feeds to the requeue, which retries them: they are due
\* when it comes.
RemainingFeedsRetried ==
    [][Finishes => \A f \in pass.todo :
         \/ Due(stored'.feed[f], spec.gen > stored'.observed)
         \/ UntilDue(stored'.feed[f]) <= wake']_vars
=============================================================================
