----------------------------- MODULE FeedRetry ------------------------------
(***************************************************************************)
(* The failure bookkeeping of one feed across reconciles: which outcomes a *)
(* pass may record on the feed's status, in which order, and what ends the *)
(* retry run they leave behind (processFeed, feedSync.apply and close,     *)
(* entryDelivery.run, prepareStatus and noteWebhookSecretVersion).         *)
(*                                                                         *)
(* The phase of a run is not stored by the program: it is inferred from    *)
(* the Reachable condition, so the order of calls matters.  The history    *)
(* variable run keeps what the program does not: the phase, the failures   *)
(* and the Events of the run in progress, counted from the outcomes alone. *)
(***************************************************************************)
EXTENDS RetryRun

CONSTANT FailureBound   \* bound: failures are recorded only below this count

VARIABLES
    fs,        \* the feed's record, as the pass sees it
    stored,    \* the record the pass started from, processFeed's before
    pc,        \* "idle", "fetched" (nothing handled yet) or "handled"
    run,       \* history: the retry run in progress
    storedRun  \* history: the run the pass started from

vars == <<fs, stored, pc, run, storedRun>>

NoRun ==
    [phase |-> "None", failures |-> 0, classes |-> {}, longest |-> 0,
     shrank |-> FALSE, atCap |-> FALSE, gaveUp |-> FALSE, capEvents |-> 0, giveUpEvents |-> 0]

\* The run after a failure of phase that left the record rec.
RunFailed(phase, class, rec) ==
    LET r == IF run.phase = phase THEN run ELSE NoRun
        backedOff == class = "Permanent"
    IN  [phase        |-> phase,
         failures     |-> r.failures + 1,
         classes      |-> r.classes \union {class},
         longest      |-> IF backedOff /\ rec.left > r.longest THEN rec.left ELSE r.longest,
         shrank       |-> r.shrank \/ (backedOff /\ rec.left < r.longest),
         atCap        |-> r.atCap \/ (backedOff /\ rec.left = MaxBackoff),
         gaveUp       |-> r.gaveUp \/ (~backedOff /\ ~AsksForRetry(rec, class)),
         capEvents    |-> r.capEvents + IF AnnouncesCap(rec, class) THEN 1 ELSE 0,
         giveUpEvents |-> r.giveUpEvents + IF AnnouncesExhaustion(rec, class) THEN 1 ELSE 0]

RunRecord ==
    [phase : Phases \union {"None"}, failures : Nat, classes : SUBSET Classes,
     longest : Int, shrank : BOOLEAN, atCap : BOOLEAN, gaveUp : BOOLEAN,
     capEvents : Nat, giveUpEvents : Nat]

TypeOK ==
    /\ fs \in FeedRecord /\ stored \in FeedRecord
    /\ pc \in {"idle", "fetched", "handled"}
    /\ run \in RunRecord /\ storedRun \in RunRecord

Init ==
    /\ fs = NewRecord /\ stored = NewRecord
    /\ pc = "idle"
    /\ run = NoRun /\ storedRun = NoRun

\* The pass goes on at stage, with nothing written yet.
Continue(stage, rec, r) ==
    /\ pc' = stage /\ fs' = rec /\ run' = r
    /\ UNCHANGED <<stored, storedRun>>

\* The pass is over and the status is written (settle).
Settle(rec, r) ==
    /\ pc' = "idle" /\ fs' = rec /\ run' = r
    /\ stored' = rec /\ storedRun' = r

-----------------------------------------------------------------------------
(* Between passes. *)

\* Time passes while a backoff is running out.
Tick ==
    /\ pc = "idle" /\ fs.left > 0
    /\ Settle([fs EXCEPT !.left = @ - 1], run)

\* A new generation: every feed's run is cleared.
SpecChanges ==
    /\ pc = "idle"
    /\ Settle(Clear(fs), NoRun)

\* A new resourceVersion of the webhook Secret.
SecretChanges ==
    /\ pc = "idle"
    /\ Settle(IF SendCaused(fs) THEN Clear(fs) ELSE fs,
              IF fs.backedOff /\ run.phase = "Delivery" THEN NoRun ELSE run)

-----------------------------------------------------------------------------
(* A pass over the feed.  It starts unless a backoff is running. *)

FetchFails(class) ==
    /\ pc = "idle" /\ ~Active(fs)
    /\ fs.retryCount < FailureBound
    /\ LET failed == FetchFailed(fs, class)
       IN  Settle(failed, RunFailed("Fetch", class, failed))

Fetches ==
    /\ pc = "idle" /\ ~Active(fs)
    /\ Continue("fetched", FetchSucceeded(fs),
                IF run.phase = "Fetch" THEN NoRun ELSE run)

\* Every way a pass ends with the document accounted for, a 304 and an empty
\* document among them.
AccountedFor ==
    /\ pc \in {"fetched", "handled"}
    /\ Settle(ClearFailure(fs), NoRun)

\* catchUpLimit 0 on a first sync: the outcome is recorded, nothing is sent
\* and the document is accounted for.
SkipsBacklog ==
    /\ pc = "fetched"
    /\ Settle(ClearFailure(BacklogSkipped(fs)), NoRun)

HasConfigError ==
    /\ pc = "fetched"
    /\ Settle(ConfigError(fs), run)

SendsEntry ==
    /\ pc \in {"fetched", "handled"}
    /\ Continue("handled", Sent(fs), NoRun)

SendFails(class) ==
    /\ pc \in {"fetched", "handled"}
    /\ fs.retryCount < FailureBound
    /\ LET failed == SendFailed(fs, class)
       IN  Settle(failed, RunFailed("Delivery", class, failed))

IsRateLimited ==
    /\ pc \in {"fetched", "handled"}
    /\ Settle(RateLimited(fs), run)

\* An entry that does not render holds the feed.
RenderFails(otherRenders) ==
    /\ pc \in {"fetched", "handled"}
    /\ fs.retryCount < FailureBound
    /\ LET failed == RenderFailed(fs)
       IN  /\ ~(PastLimit(failed) /\ otherRenders)
           /\ Settle(failed, RunFailed("Delivery", "Transient", failed))

\* Once its retries are behind it and some other entry renders, the entry is
\* skipped and the scan goes on.
SkipsEntry ==
    /\ pc \in {"fetched", "handled"}
    /\ PastLimit(RenderFailed(fs))
    /\ Continue("handled", EntrySkipped(RenderFailed(fs)), NoRun)

\* A panic restores the record while nothing was handled.
PanicsBeforeHandling ==
    /\ pc = "fetched"
    /\ Settle(stored, storedRun)

\* Once something was handled it is recorded as a transient failed send.
PanicsAfterHandling ==
    /\ pc = "handled"
    /\ fs.retryCount < FailureBound
    /\ LET failed == SendFailed(fs, "Transient")
       IN  Settle(failed, RunFailed("Delivery", "Transient", failed))

\* The status write fails or the process stops: the next pass starts from
\* what was stored.
LosesPass ==
    /\ pc # "idle"
    /\ Settle(stored, storedRun)

Attempt == Fetches \/ \E class \in Classes : FetchFails(class)

Conclude ==
    \/ AccountedFor \/ SkipsBacklog \/ HasConfigError
    \/ SendsEntry \/ IsRateLimited \/ SkipsEntry
    \/ PanicsBeforeHandling \/ PanicsAfterHandling \/ LosesPass
    \/ \E class \in Classes : SendFails(class)
    \/ \E otherRenders \in BOOLEAN : RenderFails(otherRenders)

Next == Tick \/ SpecChanges \/ SecretChanges \/ Attempt \/ Conclude

\* The group is requeued after every pass, and the passes end.  Nothing is
\* assumed of edits, Secret changes or which outcome a pass has.
Fairness == WF_vars(Tick) /\ WF_vars(Attempt) /\ WF_vars(Conclude)

Spec == Init /\ [][Next]_vars /\ Fairness

-----------------------------------------------------------------------------
(* Properties. *)

\* The phase the code infers from Reachable is the phase the failures of the
\* run really had, whatever came between them: retryRun's rule (backoff.go).
PhaseIsInferred ==
    /\ run.phase = "None" <=> ~InProgress(fs)
    /\ run.phase = "Fetch" => fs.reachable = "False"
    /\ run.phase = "Delivery" => fs.reachable = "True"

\* RetryCount counts the failures of the run in progress and no others: a run
\* never starts out with failures of the other phase, of an entry that was
\* since delivered, or of an earlier generation.
OwnFailuresOnly == fs.retryCount = run.failures

\* A backoff belongs to a counted run with a permanent failure in it, and
\* never lasts longer than maxPermanentBackoff.
BackoffBelongsToRun ==
    fs.backedOff =>
        /\ fs.retryCount > 0
        /\ "Permanent" \in run.classes
        /\ fs.left <= MaxBackoff

\* A feed with counted failures always shows them: an error, so the group is
\* never reported ready while a retry run is going on, and in a delivery run
\* a Delivered condition that is not a success.
FailuresAreShown ==
    /\ fs.retryCount > 0 => fs.lastError
    /\ run.phase = "Delivery" =>
        fs.delivered \in {"SendFailed", "RenderError", "RateLimited", "ConfigError"}

\* Neither Event repeats within one run, however long it goes on.
EventsAtMostOnce == run.capEvents <= 1 /\ run.giveUpEvents <= 1

\* In a run whose failures are all of one class, the Event is emitted exactly
\* when its condition is reached.
UniformRunsAnnounced ==
    /\ run.classes = {"Permanent"} => (run.atCap <=> run.capEvents = 1)
    /\ run.classes = {"Transient"} => (run.gaveUp <=> run.giveUpEvents = 1)

\* A replaced webhook gives every feed that delivery backed off a fresh
\* attempt and leaves a fetch failure's backoff alone (clearSendBackoffs).
SecretFreesDeliveryOnly ==
    [][SecretChanges =>
        /\ run.phase = "Delivery" /\ fs.backedOff => ~InProgress(fs')
        /\ run.phase = "Fetch" => fs' = fs]_vars

\* Within a run, a permanent failure never backs off for less time than an
\* earlier one did, whatever transient failures come between them (extend).
BackoffNeverShrinks == ~run.shrank

\* A backed-off feed is never wedged: every feed is attempted again and again,
\* without an edit of the spec.
AttemptedForever == []<><<Attempt>>_vars
=============================================================================
