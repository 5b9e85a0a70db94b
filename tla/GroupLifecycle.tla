--------------------------- MODULE GroupLifecycle ---------------------------
(***************************************************************************)
(* The life of one FeedGroup and of what the operator says about it: its   *)
(* status in the API and its series in the metrics registry, while the     *)
(* owner edits its feeds, deletes it and creates it again, the informer's  *)
(* cache lags behind, writes are lost and the process restarts             *)
(* (Reconcile, ensureFeedStatuses, settle, summarizeGroup and metrics.go). *)
(*                                                                         *)
(* A feed's status is whether LastError is set, and the timestamp gauge    *)
(* comes and goes with the health gauge.  Which feeds are due, when the    *)
(* group is woken again and what its conditions say is GroupReconcile's    *)
(* subject: here the conditions are the generation they were set at, and   *)
(* whether they changed otherwise is left open.                            *)
(***************************************************************************)
EXTENDS FailureClass, FiniteSetsExt

CONSTANTS
    Feeds,       \* feeds of the list, in its order; it may hold others besides
    MaxEdits,    \* bound: edits of the spec
    MaxTroubles  \* bound: deletions, failed writes and restarts together

ASSUME LifecycleAssumption ==
    /\ Feeds \subseteq Nat /\ IsFiniteSet(Feeds) /\ Feeds # {}
    /\ {MaxEdits, MaxTroubles} \subseteq Nat

VARIABLES
    group,   \* the FeedGroup in the API
    cache,   \* the informer's copy of it
    queued,  \* whether the work queue holds its key
    pc,      \* "idle" or "pass"
    pass,    \* the reconcile in progress
    series,  \* the group's series in the registry
    hist,    \* history: see HistInit
    bounds   \* how often the bounded events have happened

vars == <<group, cache, queued, pc, pass, series, hist, bounds>>

\* feed says which feeds the status lists, and which of them are failing.
NewStatus == [observed |-> 0, conditions |-> 0, feed |-> [f \in {} |-> FALSE]]

NoGroup == [exists |-> FALSE, uid |-> 0, gen |-> 0, feeds |-> {}, paused |-> {},
            status |-> NewStatus]

\* A reconcile holds its copy of the group, the feeds still to fold, whether one
\* was, whether one panicked, and, as history, whether the copy it read was not
\* the last one written.
NoPass == [group |-> NoGroup, todo |-> {}, touched |-> FALSE, panicked |-> FALSE,
           stale |-> FALSE]

\* operations: feeds counted in feedOperationsTotal; gauges: feeds with a health
\* gauge; healthy: those of them that it reports healthy; ofGroup: whether there
\* is a series without a feed.
NoSeries == [operations |-> {}, gauges |-> {}, healthy |-> {}, ofGroup |-> FALSE]

HistInit ==
    [writeLost |-> FALSE,  \* a status was not written
     staleRead |-> FALSE,  \* a reconcile read a status that was not the last written
     skipped   |-> FALSE,  \* the last reconcile was one of those, and wrote nothing
     recreated |-> FALSE]  \* the group was created again

\* What the registry held before no longer matters.
Forgotten == [HistInit EXCEPT !.recreated = hist.recreated]

NewGroup(uid, feeds) == [NoGroup EXCEPT !.exists = TRUE, !.uid = uid, !.gen = 1, !.feeds = feeds]

Init ==
    /\ \E feeds \in SUBSET Feeds : group = NewGroup(1, feeds)
    /\ cache = group /\ queued = TRUE
    /\ pc = "idle" /\ pass = NoPass /\ series = NoSeries /\ hist = HistInit
    /\ bounds = [edits |-> 0, troubles |-> 0]

Count(event) == bounds' = [bounds EXCEPT ![event] = @ + 1]

-----------------------------------------------------------------------------
(* The owner, the API server's watch, and the process. *)

Edit(feeds, paused) ==
    /\ group.exists /\ bounds.edits < MaxEdits /\ Count("edits")
    /\ <<feeds, paused>> # <<group.feeds, group.paused>>
    /\ group' = [group EXCEPT !.gen = @ + 1, !.feeds = feeds, !.paused = paused]
    /\ UNCHANGED <<cache, queued, pc, pass, series, hist>>

Delete ==
    /\ group.exists /\ bounds.troubles < MaxTroubles /\ Count("troubles")
    /\ group' = [NoGroup EXCEPT !.uid = group.uid]
    /\ UNCHANGED <<cache, queued, pc, pass, series, hist>>

Recreate(feeds) ==
    /\ ~group.exists
    /\ group' = NewGroup(group.uid + 1, feeds)
    /\ hist' = [hist EXCEPT !.recreated = TRUE]
    /\ UNCHANGED <<cache, queued, pc, pass, series, bounds>>

\* The cache catches up.  The predicate lets through what creates, deletes or
\* edits the group, and no write of its status.
CacheSyncs ==
    /\ cache # group /\ cache' = group
    /\ queued' = (queued \/ <<cache.uid, cache.gen>> # <<group.uid, group.gen>>)
    /\ UNCHANGED <<group, pc, pass, series, hist, bounds>>

\* RequeueAfter, or a replaced Secret.
Wakes ==
    /\ ~queued /\ cache.exists /\ queued' = TRUE
    /\ UNCHANGED <<group, cache, pc, pass, series, hist, bounds>>

\* The registry is the process's, and a new one lists every group.
Restart ==
    /\ bounds.troubles < MaxTroubles /\ Count("troubles")
    /\ cache' = group /\ queued' = group.exists
    /\ pc' = "idle" /\ pass' = NoPass /\ series' = NoSeries
    /\ hist' = Forgotten
    /\ UNCHANGED group

-----------------------------------------------------------------------------
(* Metrics. *)

ForgetGauges(s, feeds) ==  \* mutant: a vector is missing from the list
    [s EXCEPT !.gauges = @ \ feeds, !.healthy = @ \ feeds]
ForgetFeed(s, feeds) ==
    [s EXCEPT !.operations = @ \ feeds, !.gauges = @ \ feeds, !.healthy = @ \ feeds]

Healthy(g, f) == ~g.status.feed[f]

\* The gauges of every feed the status lists, from that status; a paused feed
\* has none.
SyncFeedState(s, g) ==
    LET listed == DOMAIN g.status.feed
        shown == listed \ g.paused
    IN  [s EXCEPT !.gauges = (@ \ listed) \union shown,
                  !.healthy = (@ \ listed) \union {f \in shown : Healthy(g, f)}]

-----------------------------------------------------------------------------
(* The reconcile. *)

KeepsDropped(g) ==  \* mutant: the statuses of dropped feeds stay
    [f \in g.feeds \union DOMAIN g.status.feed |->
        IF f \in DOMAIN g.status.feed THEN g.status.feed[f] ELSE FALSE]

\* One status per feed of the spec, the old one where there is one.
EnsureFeedStatuses(g) ==
    [f \in g.feeds |-> IF f \in DOMAIN g.status.feed THEN g.status.feed[f] ELSE FALSE]

Pruned(g) == DOMAIN g.status.feed \ g.feeds

SpecChanged(g) == g.gen > g.status.observed

ForgetsTimed ==  \* mutant: this reconcile's duration is observed as well
    /\ pc = "idle" /\ queued /\ ~cache.exists
    /\ queued' = FALSE /\ series' = [NoSeries EXCEPT !.ofGroup = TRUE] /\ hist' = Forgotten
    /\ UNCHANGED <<group, cache, pc, pass, bounds>>

\* The group is gone: its series go.
Forgets ==
    /\ pc = "idle" /\ queued /\ ~cache.exists
    /\ queued' = FALSE /\ series' = NoSeries /\ hist' = Forgotten
    /\ UNCHANGED <<group, cache, pc, pass, bounds>>

\* due is what planFeeds plans, all feeds after a change of the spec, none if
\* the webhook is not resolved.
Begin(due, resolved) ==
    /\ pc = "idle" /\ queued /\ cache.exists
    /\ due \subseteq cache.feeds \ cache.paused
    /\ IF resolved THEN SpecChanged(cache) => due = cache.feeds \ cache.paused ELSE due = {}
    /\ pass' = [NoPass EXCEPT
         !.group = [cache EXCEPT !.status.feed = EnsureFeedStatuses(cache)], !.todo = due,
         !.stale = <<cache.uid, cache.status>> # <<group.uid, group.status>>]
    /\ series' = ForgetFeed(series, Pruned(cache))
    /\ hist' = [hist EXCEPT !.staleRead = @ \/ pass'.stale]
    /\ pc' = "pass" /\ queued' = FALSE
    /\ UNCHANGED <<group, cache, bounds>>

\* What one feed's fetch and delivery may end in: whether it leaves an error,
\* whether an operation is counted, and whether it cuts the pass short.  A rate
\* limit does, unless Discord says to retry after 0 seconds.
Outcome(kind, err, waits) ==
    LET outcome == Resolve(kind, err)
    IN  [failing |-> kind \in {"FetchFailed", "SendFailed", "RenderFailed", "ConfigError"},
         counted |-> MetricLabel(outcome) # <<>>,
         cuts |-> outcome.kind = "RateLimited" /\ waits]

Outcomes ==
    {Outcome("FetchFailed", fault, FALSE) : fault \in FetchFaults}
      \union {Outcome(kind, NoError, FALSE) :
                kind \in {"FetchSucceeded", "Sent", "RenderFailed", "ConfigError"}}
      \union UNION {{Outcome("SendFailed", fault, waits) : fault \in SendFaults} :
                       waits \in BOOLEAN}

NextFeed == Min(pass.todo)

Folding == pc = "pass" /\ pass.todo # {}

CountedIn(s, counted) ==
    [s EXCEPT !.operations = IF counted THEN @ \union {NextFeed} ELSE @, !.ofGroup = TRUE]

Check(outcome) ==
    /\ Folding
    /\ pass' = [pass EXCEPT
         !.todo = IF outcome.cuts THEN {} ELSE @ \ {NextFeed},
         !.touched = TRUE, !.group.status.feed[NextFeed] = outcome.failing]
    /\ series' = CountedIn(series, outcome.counted)
    /\ UNCHANGED <<group, cache, queued, pc, hist, bounds>>

\* With nothing handled the feed's status is as it was; otherwise the panic is
\* recorded as a failed send.
Panics(handled) ==
    /\ Folding
    /\ pass' = [pass EXCEPT
         !.todo = {}, !.panicked = TRUE, !.touched = @ \/ handled,
         !.group.status.feed[NextFeed] = handled \/ @]
    /\ series' = CountedIn(series, handled)
    /\ UNCHANGED <<group, cache, queued, pc, hist, bounds>>

\* The group's copy as settle would write it.
Settled ==
    [pass.group EXCEPT !.status.observed = IF pass.panicked THEN @ ELSE pass.group.gen,
                       !.status.conditions = pass.group.gen]

\* A feed that was checked or failed has a new LastChecked or RetryCount.
Changed == pass.touched \/ Settled.status # pass.group.status

GaugesOfPausedToo == SyncFeedState(series, [Settled EXCEPT !.paused = {}])  \* mutant

Gauges == SyncFeedState(series, Settled)

\* A panic is returned, and so is a failed write: the queue tries again.
EndPass(failed) ==
    /\ pc = "pass" /\ pass.todo = {}
    /\ series' = [Gauges EXCEPT !.ofGroup = TRUE]
    /\ queued' = (queued \/ failed \/ pass.panicked)
    /\ pc' = "idle" /\ pass' = NoPass
    /\ UNCHANGED cache

\* A status is only written when it changed.
SettlesUnchanged ==
    /\ ~Changed /\ hist' = [hist EXCEPT !.skipped = pass.stale]
    /\ EndPass(FALSE) /\ UNCHANGED <<group, bounds>>

\* The apply carries no resourceVersion and no UID: whatever group has the name
\* by now gets the status.  A condition may change without anything else.
Writes ==
    /\ group.exists
    /\ group' = [group EXCEPT !.status = Settled.status]
    /\ hist' = [hist EXCEPT !.skipped = FALSE]
    /\ EndPass(FALSE) /\ UNCHANGED bounds

FailsToWrite ==
    /\ \/ ~group.exists /\ UNCHANGED bounds
       \/ group.exists /\ bounds.troubles < MaxTroubles /\ Count("troubles")
    /\ hist' = [hist EXCEPT !.writeLost = TRUE]
    /\ EndPass(TRUE) /\ UNCHANGED group

-----------------------------------------------------------------------------
Owner ==
    \/ \E feeds \in SUBSET Feeds : \E paused \in SUBSET feeds : Edit(feeds, paused)
    \/ Delete
    \/ \E feeds \in SUBSET Feeds : Recreate(feeds)

Reconcile ==
    \/ Forgets
    \/ \E due \in SUBSET Feeds, resolved \in BOOLEAN : Begin(due, resolved)
    \/ \E outcome \in Outcomes : Check(outcome)
    \/ \E handled \in BOOLEAN : Panics(handled)
    \/ SettlesUnchanged \/ Writes \/ FailsToWrite

Next == Owner \/ CacheSyncs \/ Wakes \/ Restart \/ Reconcile

\* The watch delivers, and the queue hands out what it holds.
Fairness == WF_vars(CacheSyncs) /\ WF_vars(Reconcile)

Spec == Init /\ [][Next]_vars /\ Fairness

-----------------------------------------------------------------------------
(* Properties. *)

StatusOK(status) ==
    /\ {status.observed, status.conditions} \subseteq 0..(MaxEdits + 1)
    /\ DOMAIN status.feed \subseteq Feeds
    /\ \A f \in DOMAIN status.feed : status.feed[f] \in BOOLEAN

GroupOK(g) ==
    /\ g.exists \in BOOLEAN /\ g.uid \in 0..(MaxTroubles + 1)
    /\ g.gen \in 0..(MaxEdits + 1)
    /\ g.paused \subseteq g.feeds /\ g.feeds \subseteq Feeds
    /\ StatusOK(g.status)

TypeOK ==
    /\ GroupOK(group) /\ GroupOK(cache) /\ GroupOK(pass.group)
    /\ queued \in BOOLEAN /\ pc \in {"idle", "pass"}
    /\ {pass.touched, pass.panicked, pass.stale} \subseteq BOOLEAN
    /\ pass.todo \subseteq pass.group.feeds \ pass.group.paused
    /\ pc = "pass" => DOMAIN pass.group.status.feed = pass.group.feeds
    /\ series.operations \subseteq Feeds
    /\ series.healthy \subseteq series.gauges /\ series.gauges \subseteq Feeds
    /\ series.ofGroup \in BOOLEAN

\* Whatever a feed that is checked fails with is told by its cause, in what the
\* failure's class makes of it and in the series it is counted under.
ClassesFollowCauses == Folding => ClassesAreOfCauses

FeedsWithSeries == series.operations \union series.gauges

\* Nothing is under way, and nothing is waiting to be noticed.
Quiet == pc = "idle" /\ ~queued /\ cache = group

\* A feed that is dropped from the spec leaves no series behind (forgetFeed for
\* what prepareStatus pruned, feedgroup_controller.go:118-124), as long as its
\* status was written and read back and the group is still the one it was in.
SeriesAreOfSpec ==
    Quiet /\ hist = HistInit => FeedsWithSeries \subseteq group.feeds

\* Between reconciles the gauges tell what the status in the API says (metrics.go:
\* 276-288): of every feed that is not paused whether it has an error, of a
\* paused one nothing -- whatever was lost, restarted or written into a group of
\* the same name, unless the last reconcile started from a stale copy and found
\* nothing to change in that.
GaugesTellStatus ==
    Quiet /\ ~hist.skipped =>
        /\ series.gauges \intersect group.feeds = group.feeds \ group.paused
        /\ \A f \in group.feeds \ group.paused :
             f \in series.healthy <=> ~EnsureFeedStatuses(group)[f]

\* A group that is deleted for good has no series in the end (metrics.go:
\* 259-267), whatever pass was under way or write was refused when it went.
DeletedGroupForgotten == <>[](~group.exists) => <>[](series = NoSeries)

\* feedgroup_controller.go:118-120 says that pruning the series of feeds
\* dropped from the spec keeps an edit of the feed list from leaving stale
\* series behind until the group is deleted.
RemovedFeedsLeaveNoSeries == Quiet => FeedsWithSeries \subseteq group.feeds
=============================================================================
