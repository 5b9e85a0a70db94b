----------------------- MODULE GroupReconcile_proofs ------------------------
(***************************************************************************)
(* Proofs about GroupReconcile, for any feeds, cadence, backoffs and       *)
(* number of edits, replaced Secrets and lost passes.                      *)
(*                                                                         *)
(* The argument has three invariants, each on top of the one before:       *)
(*                                                                         *)
(*   IInv  the status that is stored and the copy a pass works on are well *)
(*         typed, a feed that is backed off is failing, and a backoff that *)
(*         a send caused was caused under the Secret that status names: a  *)
(*         pass notes the Secret before anything fails under it.           *)
(*   OInv  a generation counts as observed once the pass that holds it has *)
(*         gone over every feed, so while that pass is under way the feeds *)
(*         not attempted at it are those still to do.                      *)
(*   WInv  a pass accounts for every feed: one it does not attempt bounds  *)
(*         the requeue (nextDue) or is failing.  Time moves the age of a   *)
(*         feed and the wait for the next reconcile by as much, so their   *)
(*         sum is bounded for as long as the group sleeps.                 *)
(***************************************************************************)
EXTENDS GroupReconcile, Recursion

\* A backed-off feed is failing, and held under the Secret the status names.
SoundFeed(fs, version) ==
    fs.backoff > 0 => fs.failing /\ (fs.cause = "Send" => fs.under = version)

Sound(status) == \A f \in Feeds : SoundFeed(status.feed[f], status.secret)

IInv ==
    /\ TypeOK
    /\ Sound(stored) /\ stored.observed <= spec.gen
    /\ pc = "pass" => Sound(pass.status) /\ pass.status.observed = stored.observed

-----------------------------------------------------------------------------
(* Numbers. *)

LEMMA MaxOfTwo ==
    ASSUME NEW a \in Nat, NEW b \in Nat
    PROVE  Max({a, b}) = IF a <= b THEN b ELSE a
<1> DEFINE n == IF a <= b THEN b ELSE a
<1>1. {a, b} \in SUBSET Nat /\ {a, b} # {} /\ n \in Nat /\ \A x \in {a, b} : x <= n
  OBVIOUS
<1>2. Max({a, b}) \in {a, b} /\ \A x \in {a, b} : x <= Max({a, b})
  BY <1>1, Greatest
<1> HIDE DEF n
<1>3. a <= Max({a, b}) /\ b <= Max({a, b}) /\ Max({a, b}) \in {a, b}
  BY <1>2
<1> QED BY <1>3

LEMMA Constants ==
    /\ Feeds \subseteq Nat
    /\ Poll \in Nat \ {0} /\ Retry \in Nat \ {0} /\ MinInterval \in Nat \ {0}
    /\ Poll >= MinInterval /\ Retry >= MinInterval
    /\ RetryAfters \subseteq Nat /\ Backoffs \subseteq Nat
    /\ Jitter \in Nat /\ MaxEdits \in Nat /\ MaxSecrets \in Nat /\ MaxLosses \in Nat
    /\ Horizon \in Nat /\ Horizon > Poll
<1>1. Poll \in Nat \ {0} /\ MinInterval \in Nat \ {0} /\ Jitter \in Nat
  BY GroupAssumption
<1>2. Horizon \in Nat /\ Horizon > Poll
  BY <1>1 DEF Horizon
<1> QED BY <1>1, <1>2, GroupAssumption

LEMMA SlackCovers == Slack \in Nat /\ Jitter <= Slack /\ MinInterval - 1 <= Slack
<1>1. Jitter \in Nat /\ MinInterval - 1 \in Nat
  BY Constants
<1>2. Slack = IF Jitter <= MinInterval - 1 THEN MinInterval - 1 ELSE Jitter
  BY <1>1, MaxOfTwo DEF Slack
<1> QED BY <1>1, <1>2

\* The wait after a reconcile: the delay with its jitter, or the wait for the
\* soonest feed that was skipped, floored.
LEMMA RequeueBounds ==
    ASSUME NEW delay \in Nat, NEW jittered \in BOOLEAN, NEW nextDue \in Nat,
           NEW w \in Requeues(delay, jittered, nextDue)
    PROVE  /\ w \in Nat
           /\ w <= delay + Jitter \/ w <= MinInterval
           /\ nextDue > 0 => w <= nextDue \/ w <= MinInterval
<1>1. Jitter \in Nat /\ MinInterval \in Nat
  BY Constants
<1>2. PICK j \in 0..Jitter :
        w = IF nextDue > 0 /\ nextDue < delay + j THEN Max({nextDue, MinInterval})
            ELSE delay + j
  BY <1>1 DEF Requeues
<1>3. Max({nextDue, MinInterval}) = IF nextDue <= MinInterval THEN MinInterval ELSE nextDue
  BY <1>1, MaxOfTwo
<1> QED BY <1>1, <1>2, <1>3

-----------------------------------------------------------------------------
(* The statuses of single feeds. *)

LEMMA NewFeeds ==
    /\ NewFeed \in FeedType /\ NewFeed.backoff = 0
    /\ Checked \in FeedType /\ Checked.backoff = 0 /\ Checked.age = 0 /\ ~Checked.failing
    /\ Failing \in FeedType /\ Failing.backoff = 0 /\ Failing.failing
<1>1. NewFeed \in FeedType /\ NewFeed.backoff = 0 /\ ~NewFeed.failing
  BY Constants DEF NewFeed, FeedType
<1>2. Checked \in FeedType /\ Checked.backoff = 0 /\ Checked.age = 0 /\ ~Checked.failing
  BY <1>1, Constants DEF Checked, FeedType
<1>3. Failing \in FeedType /\ Failing.backoff = 0 /\ Failing.failing
  BY <1>1 DEF Failing, FeedType
<1> QED BY <1>1, <1>2, <1>3

LEMMA ClearedRun ==
    ASSUME NEW fs \in FeedType
    PROVE  /\ ClearRun(fs) \in FeedType /\ ClearRun(fs).backoff = 0
           /\ ClearRun(fs) = fs \/ ClearRun(fs).failing
  BY NewFeeds DEF ClearRun, FeedType

\* Time ages a feed by a tick at most; no backoff starts and no failure ends.
LEMMA OlderStep ==
    ASSUME NEW fs \in FeedType, NEW version, SoundFeed(fs, version)
    PROVE  /\ Older(fs) \in FeedType /\ SoundFeed(Older(fs), version)
           /\ Older(fs).failing = fs.failing
           /\ ~fs.failing => Older(fs).age <= fs.age + 1
<1>1. CASE fs.backoff = 1
  BY <1>1, NewFeeds DEF Older, SoundFeed, FeedType
<1>2. CASE fs.backoff # 1
  <2> DEFINE aged == [fs EXCEPT !.age = IF @ < Horizon THEN @ + 1 ELSE @]
             older == [aged EXCEPT !.backoff = IF @ > 0 THEN @ - 1 ELSE @]
  <2>1. /\ aged \in FeedType /\ SoundFeed(aged, version)
        /\ aged.failing = fs.failing /\ aged.age <= fs.age + 1
    BY Constants DEF FeedType, SoundFeed
  <2> HIDE DEF aged
  <2>2. /\ older \in FeedType /\ SoundFeed(older, version)
        /\ older.failing = aged.failing /\ older.age = aged.age
    BY <2>1 DEF FeedType, SoundFeed
  <2>3. Older(fs) = older
    BY <1>2 DEF Older, aged, FeedType
  <2> QED BY <2>1, <2>2, <2>3
<1> QED BY <1>1, <1>2

LEMMA FailedStep ==
    ASSUME NEW b \in Nat, NEW cause \in {"Fetch", "Send"},
           pass.status.secret \in 0..(MaxSecrets + 1)
    PROVE  /\ FailedFor(b, cause) \in FeedType /\ FailedFor(b, cause).failing
           /\ SoundFeed(FailedFor(b, cause), pass.status.secret)
<1>1. CASE b = 0
  BY <1>1, NewFeeds DEF FailedFor, SoundFeed
<1>2. CASE b # 0
  <2> DEFINE under == IF cause = "Send" THEN pass.status.secret ELSE 0
             delayed == [Failing EXCEPT !.backoff = b]
             caused == [delayed EXCEPT !.cause = cause]
             failed == [caused EXCEPT !.under = under]
  <2>1. delayed \in FeedType /\ delayed.failing
    BY NewFeeds DEF FeedType
  <2> HIDE DEF delayed
  <2>2. caused \in FeedType /\ caused.cause = cause /\ caused.failing
    BY <2>1 DEF FeedType
  <2> HIDE DEF caused
  <2>3. under \in 0..(MaxSecrets + 1) /\ (cause = "Send" => under = pass.status.secret)
    BY Constants
  <2> HIDE DEF under
  <2>4. /\ failed \in FeedType /\ failed.cause = cause /\ failed.under = under
        /\ failed.failing
    BY <2>2, <2>3 DEF FeedType
  <2>5. FailedFor(b, cause) = failed
    BY <1>2 DEF FailedFor, under, delayed, caused
  <2> QED BY <2>3, <2>4, <2>5 DEF SoundFeed
<1> QED BY <1>1, <1>2

-----------------------------------------------------------------------------
(* The statuses of the group. *)

LEMMA Prepared ==
    ASSUME NEW status \in StatusType, Sound(status)
    PROVE  LET prepared == PrepareStatus(status)
           IN  /\ prepared \in StatusType /\ Sound(prepared)
               /\ prepared.observed = status.observed
               /\ SpecChanged => \A f \in Feeds : prepared.feed[f].backoff = 0
<1>1. CASE SpecChanged
  <2> DEFINE prepared == [status EXCEPT !.feed = [f \in Feeds |-> ClearRun(@[f])]]
  <2>1. [f \in Feeds |-> ClearRun(status.feed[f])] \in [Feeds -> FeedType]
    BY ClearedRun DEF StatusType
  <2>2. prepared \in StatusType /\ prepared.observed = status.observed
    BY <2>1 DEF StatusType
  <2>3. \A f \in Feeds : prepared.feed[f] = ClearRun(status.feed[f])
    BY DEF StatusType
  <2>4. \A f \in Feeds : prepared.feed[f].backoff = 0
    BY <2>3, ClearedRun DEF StatusType
  <2>5. Sound(prepared)
    BY <2>4 DEF Sound, SoundFeed
  <2> HIDE DEF prepared
  <2>6. PrepareStatus(status) = prepared
    BY <1>1 DEF PrepareStatus, prepared
  <2> QED BY <2>2, <2>4, <2>5, <2>6
<1>2. CASE ~SpecChanged
  BY <1>2 DEF PrepareStatus
<1> QED BY <1>1, <1>2

\* A status that names another Secret is rid of every backoff a send caused.
LEMMA Noted ==
    ASSUME NEW status \in StatusType, Sound(status), secret.version \in 1..(MaxSecrets + 1)
    PROVE  LET noted == NoteSecretVersion(status)
           IN  /\ noted \in StatusType /\ Sound(noted)
               /\ noted.observed = status.observed
               /\ \A f \in Feeds : status.feed[f].backoff = 0 => noted.feed[f].backoff = 0
<1>1. CASE status.secret = secret.version
  BY <1>1 DEF NoteSecretVersion
<1>2. CASE status.secret # secret.version
  <2> DEFINE freed(f) == IF status.feed[f].cause = "Send" THEN ClearRun(status.feed[f])
                         ELSE status.feed[f]
             named == [status EXCEPT !.secret = secret.version]
             noted == [named EXCEPT !.feed = [f \in Feeds |-> freed(f)]]
  <2>1. \A f \in Feeds :
          /\ freed(f) \in FeedType /\ \A version : SoundFeed(freed(f), version)
          /\ status.feed[f].backoff = 0 => freed(f).backoff = 0
    BY ClearedRun DEF StatusType, SoundFeed, Sound
  <2>2. named \in StatusType /\ named.observed = status.observed
    BY Constants DEF StatusType
  <2> HIDE DEF freed, named
  <2>3. [f \in Feeds |-> freed(f)] \in [Feeds -> FeedType]
    BY <2>1
  <2>4. /\ noted \in StatusType /\ noted.observed = named.observed
        /\ \A f \in Feeds : noted.feed[f] = freed(f)
    BY <2>2, <2>3 DEF StatusType
  <2>5. Sound(noted)
    BY <2>1, <2>4 DEF Sound
  <2>6. NoteSecretVersion(status) = noted
    BY <1>2 DEF NoteSecretVersion, StatusType, freed, named
  <2> HIDE DEF noted
  <2> QED BY <2>1, <2>2, <2>4, <2>5, <2>6
<1> QED BY <1>1, <1>2

\* The feeds a reconcile attempts, and the wait for those it skips.
LEMMA Planned ==
    ASSUME NEW status \in StatusType, Sound(status), NEW force \in BOOLEAN
    PROVE  /\ Active(status, force) \subseteq Unpaused
           /\ NextDue(status, force) \in 0..Poll
           /\ \A f \in Unpaused :
                \/ f \in Active(status, force)
                \/ status.feed[f].failing /\ status.feed[f].backoff > 0
                \/ /\ 0 < NextDue(status, force)
                   /\ NextDue(status, force) <= UntilDue(status.feed[f])
           /\ force /\ (\A f \in Feeds : status.feed[f].backoff = 0) =>
                Active(status, force) = Unpaused
<1> DEFINE skipped == Skipped(status, force)
           waits == {UntilDue(status.feed[f]) : f \in skipped}
           nextDue == NextDue(status, force)
<1>1. ASSUME NEW f \in skipped
      PROVE  UntilDue(status.feed[f]) \in 1..Poll
  <2>1. f \in Feeds /\ status.feed[f] \in FeedType
    BY <1>1 DEF Skipped, Unpaused, StatusType
  <2>2. ~(UntilDue(status.feed[f]) <= 0) /\ status.feed[f].age \in Nat
    BY <1>1, <2>1 DEF Skipped, Due, FeedType
  <2> QED BY <2>2, Constants DEF UntilDue
<1>2. waits \in SUBSET Nat /\ \A w \in waits : w \in 1..Poll
  BY <1>1, Constants
<1>3. \A f \in Unpaused :
        \/ f \in Active(status, force)
        \/ status.feed[f].failing /\ status.feed[f].backoff > 0
        \/ f \in skipped
  <2> SUFFICES ASSUME NEW f \in Unpaused, f \notin Active(status, force), f \notin skipped
               PROVE  status.feed[f].failing /\ status.feed[f].backoff > 0
    OBVIOUS
  <2>1. status.feed[f].backoff # 0
    BY DEF Active, Skipped
  <2>2. f \in Feeds
    BY DEF Unpaused
  <2>3. status.feed[f].backoff \in Nat
    BY <2>2 DEF StatusType, FeedType
  <2> QED BY <2>1, <2>2, <2>3 DEF Sound, SoundFeed
<1>4. force /\ (\A f \in Feeds : status.feed[f].backoff = 0) =>
        Active(status, force) = Unpaused
  BY DEF Active, Due, Unpaused
<1>5. Active(status, force) \subseteq Unpaused
  BY DEF Active
<1>6. nextDue \in 0..Poll /\ \A f \in skipped : 0 < nextDue /\ nextDue <= UntilDue(status.feed[f])
  <2>1. CASE waits = {}
    <3>1. nextDue = 0 /\ skipped = {}
      BY <2>1 DEF NextDue
    <3> QED BY <3>1, Constants
  <2>2. CASE waits # {}
    <3>1. nextDue = Min(waits)
      BY <2>2 DEF NextDue
    <3>2. Min(waits) \in waits /\ \A w \in waits : Min(waits) <= w
      BY <1>2, <2>2, Least
    <3> HIDE DEF nextDue
    <3>3. nextDue \in 1..Poll
      BY <1>2, <3>1, <3>2
    <3>4. \A f \in skipped : nextDue <= UntilDue(status.feed[f])
      BY <3>1, <3>2
    <3> QED BY <3>3, <3>4
  <2> QED BY <2>1, <2>2
<1> HIDE DEF skipped
<1> QED BY <1>3, <1>4, <1>5, <1>6

-----------------------------------------------------------------------------
(* Types, backoffs and Secrets: one step per action.                        *)

LEMMA InitInvariant == Init => IInv
<1> SUFFICES ASSUME Init PROVE IInv
  OBVIOUS
<1>1. /\ stored.feed \in [Feeds -> FeedType]
      /\ \A f \in Feeds : stored.feed[f].backoff = 0
  BY NewFeeds DEF Init
<1>2. stored \in StatusType
  BY <1>1, Constants DEF Init, StatusType
<1>3. Sound(stored)
  BY <1>1 DEF Sound, SoundFeed
<1> QED BY <1>2, <1>3, Constants DEF Init, IInv, TypeOK

\* A status is written with a verdict, and the reconcile is over.
LEMMA SettleStep ==
    ASSUME IInv, NEW status \in StatusType, Sound(status), status.observed <= spec.gen,
           NEW waits \in SUBSET Nat,
           NEW groupErr \in {"None", "WebhookUnresolved", "ReconcilePanicked"},
           Settle(status, groupErr, waits)
    PROVE  /\ IInv'
           /\ stored'.feed = status.feed /\ stored'.observed = status.observed
           /\ stored'.ready = Ready(status, groupErr)
<1>1. Ready(status, groupErr) \in
        {"WebhookUnresolved", "ReconcilePanicked", "FeedErrors", "Reconciled"}
  BY DEF Ready
<1>2. /\ stored' \in StatusType
      /\ stored'.feed = status.feed /\ stored'.secret = status.secret
      /\ stored'.observed = status.observed /\ stored'.ready = Ready(status, groupErr)
  BY <1>1 DEF Settle, StatusType
<1>3. Sound(stored')
  BY <1>2 DEF Sound
<1>4. /\ pc' = "idle" /\ spec' = spec /\ secret' = secret /\ losses' = losses
      /\ wake' \in Nat
  BY DEF Settle
<1>5. TypeOK'
  BY <1>2, <1>4 DEF IInv, TypeOK
<1> QED BY <1>2, <1>3, <1>4, <1>5 DEF IInv, Sound

LEMMA ObservedStep ==
    ASSUME NEW status \in StatusType, Sound(status), NEW gen \in 0..(MaxEdits + 1)
    PROVE  LET observed == [status EXCEPT !.observed = gen]
           IN  /\ observed \in StatusType /\ Sound(observed)
               /\ observed.observed = gen /\ observed.feed = status.feed
  BY DEF StatusType, Sound

\* What Process does to the pass, field by field.
LEMMA ProcessFields ==
    ASSUME TypeOK, Attempting, NEW fs \in FeedType, NEW retry \in BOOLEAN,
           NEW retryAfter \in Nat, Process(fs, retry, retryAfter)
    PROVE  /\ Current \in pass.todo /\ Current \in Feeds
           /\ pass' \in [gen : {pass.gen}, status : StatusType, todo : {pass.todo \ {Current}},
                          done : SUBSET Feeds, retry : BOOLEAN, retryAfter : Nat,
                          nextDue : {pass.nextDue}]
           /\ pass'.retry = (pass.retry \/ retry)
           /\ pass'.retryAfter = IF pass.retryAfter <= retryAfter THEN retryAfter
                                 ELSE pass.retryAfter
           /\ pass'.status.secret = pass.status.secret
           /\ pass'.status.observed = pass.status.observed
           /\ \A f \in Feeds :
                pass'.status.feed[f] = IF f = Current THEN fs ELSE pass.status.feed[f]
<1>1. /\ pass \in [gen : 1..spec.gen, status : StatusType, todo : SUBSET Feeds,
                    done : SUBSET Feeds, retry : BOOLEAN, retryAfter : Nat, nextDue : 0..Poll]
      /\ pass.todo # {}
  BY DEF TypeOK, Attempting
<1>2. Current \in pass.todo /\ Current \in Feeds
  BY <1>1, Least, Constants DEF Current
<1> DEFINE status == [pass.status EXCEPT !.feed[Current] = fs]
           done == pass.done \union {Current}
           after == Max({pass.retryAfter, retryAfter})
<1>3. /\ status \in StatusType /\ status.secret = pass.status.secret
      /\ status.observed = pass.status.observed
      /\ \A f \in Feeds : status.feed[f] = IF f = Current THEN fs ELSE pass.status.feed[f]
  BY <1>1, <1>2 DEF StatusType
<1>4. after = IF pass.retryAfter <= retryAfter THEN retryAfter ELSE pass.retryAfter
  BY <1>1, MaxOfTwo
<1>5. pass' = [gen |-> pass.gen, status |-> status, todo |-> pass.todo \ {Current},
               done |-> done, retry |-> pass.retry \/ retry, retryAfter |-> after,
               nextDue |-> pass.nextDue]
  BY <1>1 DEF Process
<1>6. done \in SUBSET Feeds
  BY <1>1, <1>2
<1> HIDE DEF status, after, done
<1> QED BY <1>1, <1>2, <1>3, <1>4, <1>5, <1>6

LEMMA ProcessStep ==
    ASSUME IInv, Attempting, NEW fs \in FeedType, SoundFeed(fs, pass.status.secret),
           NEW retry \in BOOLEAN, NEW retryAfter \in Nat, Process(fs, retry, retryAfter)
    PROVE  IInv'
<1>1. Sound(pass.status) /\ pc = "pass" /\ pass.status.observed = stored.observed
  BY DEF IInv, Attempting
<1>2. /\ pass' \in [gen : {pass.gen}, status : StatusType, todo : {pass.todo \ {Current}},
                     done : SUBSET Feeds, retry : BOOLEAN, retryAfter : Nat,
                     nextDue : {pass.nextDue}]
      /\ pass'.status.secret = pass.status.secret
      /\ pass'.status.observed = pass.status.observed
      /\ \A f \in Feeds :
           pass'.status.feed[f] = IF f = Current THEN fs ELSE pass.status.feed[f]
  BY ProcessFields DEF IInv
<1>3. Sound(pass'.status)
  BY <1>1, <1>2 DEF Sound
<1>4. /\ spec' = spec /\ secret' = secret /\ stored' = stored /\ wake' = wake
      /\ pc' = pc /\ losses' = losses
  BY DEF Process
<1>5. TypeOK'
  BY <1>1, <1>2, <1>4 DEF IInv, TypeOK
<1> QED BY <1>1, <1>2, <1>3, <1>4, <1>5 DEF IInv, Sound

\* How a feed's attempt may end: with a check that succeeded, or failing.
Outcome(fs, retry, retryAfter) ==
    /\ Process(fs, retry, retryAfter)
    /\ SoundFeed(fs, pass.status.secret)
    /\ fs.failing \/ (fs.age = 0 /\ ~retry /\ retryAfter = 0)

LEMMA AttemptOutcome ==
    ASSUME TypeOK, Attempt
    PROVE  /\ Attempting /\ pass.retryAfter = 0
           /\ \E fs \in FeedType, retry \in BOOLEAN, retryAfter \in Nat :
                Outcome(fs, retry, retryAfter)
<1>1. Attempting /\ pass.retryAfter = 0
  BY DEF Attempt, Succeeds, HasConfigError, IsRateLimited, FetchFails, SendFails, Folding
<1>2. pass.status.secret \in 0..(MaxSecrets + 1)
  BY <1>1 DEF TypeOK, Attempting, StatusType
<1>3. Failing \in FeedType /\ Failing.failing /\ SoundFeed(Failing, pass.status.secret)
  BY NewFeeds DEF SoundFeed
<1>4. ASSUME Succeeds PROVE Outcome(Checked, FALSE, 0)
  <2>1. SoundFeed(Checked, pass.status.secret)
    BY NewFeeds DEF SoundFeed
  <2>2. Checked.age = 0
    BY NewFeeds
  <2> QED BY <1>4, <2>1, <2>2 DEF Succeeds, Outcome
<1>5. ASSUME HasConfigError PROVE Outcome(Failing, FALSE, 0)
  BY <1>3, <1>5 DEF HasConfigError, Outcome
<1>6. ASSUME NEW retryAfter \in RetryAfters, IsRateLimited(retryAfter)
      PROVE  Outcome(Failing, TRUE, retryAfter) /\ retryAfter \in Nat
  BY <1>3, <1>6, Constants DEF IsRateLimited, Outcome
<1>7. ASSUME NEW b \in Backoffs \union {0}, NEW retry \in BOOLEAN,
             FetchFails(b, retry) \/ SendFails(b, retry)
      PROVE  \E fs \in FeedType : Outcome(fs, retry, 0)
  <2>1. PICK cause \in {"Fetch", "Send"} : Process(FailedFor(b, cause), retry, 0)
    BY <1>7 DEF FetchFails, SendFails
  <2>2. b \in Nat
    BY Constants
  <2>3. FailedFor(b, cause) \in FeedType /\ Outcome(FailedFor(b, cause), retry, 0)
    BY <1>2, <2>1, <2>2, FailedStep DEF Outcome
  <2> QED BY <2>3
<1>8. Checked \in FeedType
  BY NewFeeds
<1>9. \E fs \in FeedType, retry \in BOOLEAN, retryAfter \in Nat :
        Outcome(fs, retry, retryAfter)
  BY <1>3, <1>4, <1>5, <1>6, <1>7, <1>8 DEF Attempt
<1> QED BY <1>1, <1>9

LEMMA BeginFields ==
    ASSUME IInv, Begin
    PROVE  /\ pc = "idle" /\ wake = 0 /\ pc' = "pass" /\ wake' = Horizon
           /\ pass' = [gen |-> spec.gen, status |-> pass'.status,
                       todo |-> Active(pass'.status, SpecChanged), done |-> {},
                       retry |-> FALSE, retryAfter |-> 0,
                       nextDue |-> NextDue(pass'.status, SpecChanged)]
           /\ pass'.status \in StatusType /\ Sound(pass'.status)
           /\ pass'.status.observed = stored.observed
           /\ SpecChanged => \A f \in Feeds : pass'.status.feed[f].backoff = 0
<1> DEFINE prepared == PrepareStatus(stored)
           status == NoteSecretVersion(prepared)
<1>1. /\ prepared \in StatusType /\ Sound(prepared)
      /\ prepared.observed = stored.observed
      /\ SpecChanged => \A f \in Feeds : prepared.feed[f].backoff = 0
  BY Prepared DEF IInv, TypeOK
<1> HIDE DEF prepared
<1>2. secret.version \in 1..(MaxSecrets + 1)
  BY DEF IInv, TypeOK
<1>3. /\ status \in StatusType /\ Sound(status)
      /\ status.observed = stored.observed
      /\ SpecChanged => \A f \in Feeds : status.feed[f].backoff = 0
  BY <1>1, <1>2, Noted
<1>4. /\ pc = "idle" /\ wake = 0 /\ pc' = "pass" /\ wake' = Horizon
      /\ pass' = [gen |-> spec.gen, status |-> status,
                  todo |-> Active(status, SpecChanged), done |-> {},
                  retry |-> FALSE, retryAfter |-> 0,
                  nextDue |-> NextDue(status, SpecChanged)]
  BY DEF Begin, prepared, NoPass
<1> HIDE DEF status
<1>5. pass'.status = status
  BY <1>4
<1> QED BY <1>3, <1>4, <1>5

\* How a pass ends on its own: the feeds' verdicts decide the wait.
LEMMA FinishesFields ==
    ASSUME IInv, Finishes
    PROVE  /\ IInv' /\ pc = "pass" /\ pc' = "idle" /\ spec' = spec
           /\ pass.todo = {} \/ pass.retryAfter > 0
           /\ stored'.feed = pass.status.feed /\ stored'.observed = pass.gen
           /\ stored'.ready = Ready(pass.status, "None")
           /\ wake = 0 => wake' = 0
           /\ pass.retryAfter = 0 /\ wake # 0 =>
                wake' \in Requeues(IF pass.retry THEN Retry ELSE Poll, TRUE, pass.nextDue)
           /\ hist' = IF pass.retryAfter > 0 THEN CutShort ELSE [hist EXCEPT !.whole = TRUE]
<1> DEFINE status == Observed(pass.status, TRUE)
           delay == IF pass.retry THEN Retry ELSE Poll
           waits == IF pass.retryAfter > 0 THEN Requeues(pass.retryAfter, FALSE, 0)
                    ELSE Requeues(delay, TRUE, pass.nextDue)
<1>1. /\ pc = "pass" /\ pass.status \in StatusType /\ Sound(pass.status)
      /\ pass.gen \in 1..spec.gen /\ pass.gen \in 0..(MaxEdits + 1) /\ pass.gen <= spec.gen
      /\ pass.retryAfter \in Nat /\ pass.nextDue \in Nat
  BY Constants DEF Finishes, IInv, TypeOK
<1>2. /\ status \in StatusType /\ Sound(status)
      /\ status.observed = pass.gen /\ status.feed = pass.status.feed
  BY <1>1, ObservedStep DEF Observed
<1>3. waits \in SUBSET Nat
  <2>1. delay \in Nat
    BY Constants
  <2> HIDE DEF delay
  <2> QED BY <1>1, <2>1, RequeueBounds
<1>4. Settle(status, "None", waits)
  BY DEF Finishes
<1> HIDE DEF waits, status
<1>5. /\ IInv' /\ stored'.feed = status.feed /\ stored'.observed = status.observed
      /\ stored'.ready = Ready(status, "None")
  BY <1>1, <1>2, <1>3, <1>4, SettleStep
<1>6. Ready(status, "None") = Ready(pass.status, "None")
  BY <1>2 DEF Ready
<1>7. /\ pc' = "idle" /\ spec' = spec
      /\ wake = 0 => wake' = 0
      /\ wake # 0 => wake' \in waits
  BY <1>1, <1>4 DEF Settle
<1>8. pass.retryAfter = 0 => waits = Requeues(delay, TRUE, pass.nextDue)
  BY DEF waits
<1> QED BY <1>1, <1>2, <1>5, <1>6, <1>7, <1>8 DEF Finishes

LEMMA PanicsFields ==
    ASSUME IInv, NEW handled \in BOOLEAN, Panics(handled)
    PROVE  /\ IInv' /\ pc' = "idle" /\ wake' = 0 /\ hist' = hist /\ spec' = spec
           /\ stored'.observed = stored.observed /\ stored'.ready = "ReconcilePanicked"
<1> DEFINE failed == [pass.status EXCEPT !.feed[Current] = Failing]
           status == IF handled THEN failed ELSE pass.status
<1>1. /\ pc = "pass" /\ pass.status \in StatusType /\ Sound(pass.status)
      /\ pass.status.observed = stored.observed /\ stored.observed <= spec.gen
  BY DEF Panics, Folding, Attempting, IInv, TypeOK
<1>2. failed \in StatusType /\ failed.secret = pass.status.secret
      /\ failed.observed = pass.status.observed
  BY <1>1, NewFeeds DEF StatusType
<1>3. \A f \in Feeds : failed.feed[f] = IF f = Current THEN Failing ELSE pass.status.feed[f]
  BY <1>1 DEF StatusType
<1>4. Sound(failed)
  BY <1>1, <1>2, <1>3, NewFeeds DEF Sound, SoundFeed
<1>5. Settle(status, "ReconcilePanicked", {0})
  BY DEF Panics, Observed
<1> HIDE DEF failed
<1>6. status \in StatusType /\ Sound(status) /\ status.observed = stored.observed
  BY <1>1, <1>2, <1>4
<1> HIDE DEF status
<1>7. /\ IInv' /\ stored'.observed = status.observed
      /\ stored'.ready = Ready(status, "ReconcilePanicked")
  BY <1>1, <1>5, <1>6, SettleStep
<1> QED BY <1>5, <1>6, <1>7 DEF Settle, Panics, Ready

LEMMA NoWebhookFields ==
    ASSUME IInv, NEW noted \in BOOLEAN, FindsNoWebhook(noted)
    PROVE  /\ IInv' /\ pc' = "idle" /\ hist' = CutShort /\ spec' = spec
           /\ stored'.observed = spec.gen /\ stored'.ready = "WebhookUnresolved"
<1> DEFINE prepared == PrepareStatus(stored)
           status == IF noted THEN NoteSecretVersion(prepared) ELSE prepared
           observed == [status EXCEPT !.observed = spec.gen]
           waits == Requeues(Retry, TRUE, 0)
<1>1. /\ stored \in StatusType /\ Sound(stored)
      /\ secret.version \in 1..(MaxSecrets + 1)
      /\ spec.gen \in 0..(MaxEdits + 1) /\ spec.gen <= spec.gen
  BY Constants DEF IInv, TypeOK
<1>2. status \in StatusType /\ Sound(status)
  BY <1>1, Prepared, Noted
<1>3. Settle(observed, "WebhookUnresolved", waits) /\ hist' = CutShort
  BY DEF FindsNoWebhook
<1> HIDE DEF status
<1>4. observed \in StatusType /\ Sound(observed) /\ observed.observed = spec.gen
  BY <1>1, <1>2, ObservedStep
<1>5. waits \in SUBSET Nat
  BY Constants, RequeueBounds
<1> HIDE DEF observed, waits
<1>6. /\ IInv' /\ stored'.observed = observed.observed
      /\ stored'.ready = Ready(observed, "WebhookUnresolved")
  BY <1>1, <1>3, <1>4, <1>5, SettleStep
<1> QED BY <1>3, <1>4, <1>6 DEF Settle, Ready

\* A tick ages every feed of the stored status.
LEMMA TickFields ==
    ASSUME IInv, Tick
    PROVE  /\ stored' \in StatusType /\ Sound(stored')
           /\ stored'.secret = stored.secret /\ stored'.observed = stored.observed
           /\ stored'.ready = stored.ready
           /\ \A f \in Feeds :
                /\ stored'.feed[f].failing = stored.feed[f].failing
                /\ ~stored.feed[f].failing =>
                     stored'.feed[f].age <= stored.feed[f].age + 1
<1>1. stored \in StatusType /\ Sound(stored)
  BY DEF IInv, TypeOK
<1>2. \A f \in Feeds :
        LET fs == stored.feed[f]
        IN  /\ Older(fs) \in FeedType /\ SoundFeed(Older(fs), stored.secret)
            /\ Older(fs).failing = fs.failing
            /\ ~fs.failing => Older(fs).age <= fs.age + 1
  BY <1>1, OlderStep DEF StatusType, Sound
<1>3. [f \in Feeds |-> Older(stored.feed[f])] \in [Feeds -> FeedType]
  BY <1>2
<1>4. /\ stored' \in StatusType /\ stored'.secret = stored.secret
      /\ stored'.observed = stored.observed /\ stored'.ready = stored.ready
      /\ \A f \in Feeds : stored'.feed[f] = Older(stored.feed[f])
  BY <1>1, <1>3 DEF Tick, StatusType
<1>5. Sound(stored')
  BY <1>2, <1>4 DEF Sound
<1> QED BY <1>2, <1>4, <1>5

LEMMA StepInvariant == IInv /\ [Next]_vars => IInv'
<1> SUFFICES ASSUME IInv, [Next]_vars PROVE IInv'
  OBVIOUS
<1>1. CASE Tick
  <2>1. TypeOK'
    BY <1>1, TickFields DEF Tick, IInv, TypeOK
  <2> QED BY <1>1, <2>1, TickFields DEF Tick, IInv, Sound
<1>2. ASSUME NEW paused \in SUBSET Feeds, EditSpec(paused) PROVE IInv'
  <2>1. spec' = [gen |-> spec.gen + 1, paused |-> paused] /\ spec.gen <= MaxEdits
    BY <1>2 DEF EditSpec
  <2>2. /\ secret' = secret /\ stored' = stored /\ pc' = pc /\ pass' = pass
        /\ losses' = losses /\ wake' = 0
    BY <1>2 DEF EditSpec
  <2>3. /\ spec.gen \in 1..(MaxEdits + 1) /\ spec' \in [gen : 1..(MaxEdits + 1), paused : SUBSET Feeds]
        /\ spec'.gen = spec.gen + 1
    BY <2>1, Constants DEF IInv, TypeOK
  <2>4. pc = "pass" =>
          pass \in [gen : 1..(spec.gen + 1), status : StatusType, todo : SUBSET Feeds,
                    done : SUBSET Feeds, retry : BOOLEAN, retryAfter : Nat, nextDue : 0..Poll]
    BY <2>3 DEF IInv, TypeOK
  <2>5. TypeOK'
    BY <2>2, <2>3, <2>4 DEF IInv, TypeOK
  <2>6. stored.observed <= spec.gen + 1
    BY <2>3 DEF IInv, TypeOK, StatusType
  <2> QED BY <2>2, <2>3, <2>5, <2>6 DEF IInv, Sound
<1>3. ASSUME NEW usable \in BOOLEAN, ReplaceSecret(usable) PROVE IInv'
  <2>1. /\ secret' = [version |-> secret.version + 1, usable |-> usable]
        /\ secret.version <= MaxSecrets
        /\ spec' = spec /\ stored' = stored /\ pc' = pc /\ pass' = pass /\ losses' = losses
        /\ wake' \in {0, wake}
    BY <1>3 DEF ReplaceSecret
  <2>2. secret' \in [version : 1..(MaxSecrets + 1), usable : BOOLEAN]
    BY <2>1, Constants DEF IInv, TypeOK
  <2> QED BY <2>1, <2>2 DEF IInv, TypeOK, Sound
<1>4. ASSUME NEW noted \in BOOLEAN, FindsNoWebhook(noted) PROVE IInv'
  BY <1>4, NoWebhookFields
<1>5. CASE Begin
  <2> DEFINE todo == Active(pass'.status, SpecChanged)
             nextDue == NextDue(pass'.status, SpecChanged)
  <2>1. /\ pc' = "pass" /\ wake' = Horizon
        /\ pass' = [gen |-> spec.gen, status |-> pass'.status, todo |-> todo, done |-> {},
                    retry |-> FALSE, retryAfter |-> 0, nextDue |-> nextDue]
        /\ pass'.status \in StatusType /\ Sound(pass'.status)
        /\ pass'.status.observed = stored.observed
    BY <1>5, BeginFields
  <2>2. /\ spec' = spec /\ secret' = secret /\ stored' = stored /\ losses' = losses
    BY <1>5 DEF Begin
  <2>3. SpecChanged \in BOOLEAN
    BY DEF SpecChanged
  <2>4. todo \in SUBSET Feeds /\ nextDue \in 0..Poll
    BY <2>1, <2>3, Planned DEF Unpaused
  <2>5. spec.gen \in 1..spec.gen
    BY DEF IInv, TypeOK
  <2> HIDE DEF todo, nextDue
  <2>6. \A status \in StatusType :
          [gen |-> spec.gen, status |-> status, todo |-> todo, done |-> {},
           retry |-> FALSE, retryAfter |-> 0, nextDue |-> nextDue]
            \in [gen : 1..spec.gen, status : StatusType, todo : SUBSET Feeds,
                 done : SUBSET Feeds, retry : BOOLEAN, retryAfter : Nat, nextDue : 0..Poll]
    BY <2>4, <2>5
  <2>7. pass' \in [gen : 1..spec.gen, status : StatusType, todo : SUBSET Feeds,
                   done : SUBSET Feeds, retry : BOOLEAN, retryAfter : Nat, nextDue : 0..Poll]
    BY <2>1, <2>6, Zenon
  <2>8. TypeOK'
    BY <2>1, <2>2, <2>7, Constants DEF IInv, TypeOK
  <2> QED BY <2>1, <2>2, <2>8 DEF IInv, Sound
<1>6. CASE Attempt
  <2>1. PICK fs \in FeedType, retry \in BOOLEAN, retryAfter \in Nat :
          Outcome(fs, retry, retryAfter)
    BY <1>6, AttemptOutcome DEF IInv
  <2>2. Attempting
    BY <1>6, AttemptOutcome DEF IInv
  <2> QED BY <2>1, <2>2, ProcessStep DEF Outcome
<1>7. CASE Finishes
  BY <1>7, FinishesFields
<1>8. ASSUME NEW handled \in BOOLEAN, Panics(handled) PROVE IInv'
  BY <1>8, PanicsFields
<1>9. CASE LosesPass
  BY <1>9, Constants DEF LosesPass, IInv, TypeOK, Sound
<1>10. CASE UNCHANGED vars
  BY <1>10 DEF vars, IInv, TypeOK, Sound
<1> QED
  BY <1>1, <1>2, <1>3, <1>4, <1>5, <1>6, <1>7, <1>8, <1>9, <1>10 DEF Next

LEMMA Invariance == Spec => []IInv
  BY InitInvariant, StepInvariant, PTL DEF Spec

-----------------------------------------------------------------------------
(* Observed generations.                                                    *)

OInv ==
    /\ hist \in [attempted : SUBSET Feeds, cutShort : BOOLEAN, whole : BOOLEAN]
    /\ ObservedWasAttempted
    /\ pc = "pass" /\ pass.gen = spec.gen /\ ~hist.cutShort =>
        Unpaused \subseteq hist.attempted \union pass.todo

LEMMA CutShortFields ==
    ASSUME OInv
    PROVE  /\ CutShort \in [attempted : SUBSET Feeds, cutShort : BOOLEAN, whole : BOOLEAN]
           /\ CutShort.cutShort /\ ~CutShort.whole /\ CutShort.attempted = hist.attempted
  BY DEF OInv, CutShort

LEMMA ObservedInvariant == IInv /\ OInv /\ [Next]_vars => OInv'
<1> SUFFICES ASSUME IInv, OInv, [Next]_vars PROVE OInv'
  OBVIOUS
<1> USE DEF Unpaused
<1>0. /\ stored.observed \in Nat /\ spec.gen \in Nat /\ stored.observed <= spec.gen
      /\ pc = "pass" => pass.gen \in Nat /\ pass.gen <= spec.gen /\ pass.todo \subseteq Feeds
  BY DEF IInv, TypeOK, StatusType
<1>1. CASE Tick
  <2>1. stored'.observed = stored.observed
    BY <1>1, TickFields
  <2> QED BY <1>1, <2>1 DEF Tick, OInv, ObservedWasAttempted
<1>2. ASSUME NEW paused \in SUBSET Feeds, EditSpec(paused) PROVE OInv'
  <2>1. spec'.gen = spec.gen + 1 /\ stored' = stored /\ pass' = pass /\ pc' = pc
    BY <1>2 DEF EditSpec
  <2>2. hist' \in [attempted : SUBSET Feeds, cutShort : BOOLEAN, whole : BOOLEAN]
    BY <1>2 DEF EditSpec, OInv
  <2>3. stored'.observed # spec'.gen /\ (pc' = "pass" => pass'.gen # spec'.gen)
    BY <1>0, <2>1
  <2> QED BY <2>2, <2>3 DEF OInv, ObservedWasAttempted
<1>3. ASSUME NEW usable \in BOOLEAN, ReplaceSecret(usable) PROVE OInv'
  BY <1>3 DEF ReplaceSecret, OInv, ObservedWasAttempted
<1>4. ASSUME NEW noted \in BOOLEAN, FindsNoWebhook(noted) PROVE OInv'
  <2>1. hist' = CutShort /\ pc' = "idle"
    BY <1>4, NoWebhookFields
  <2> QED BY <2>1, CutShortFields DEF OInv, ObservedWasAttempted
<1>5. CASE Begin
  <2>1. /\ hist' = hist /\ stored' = stored /\ spec' = spec
    BY <1>5 DEF Begin
  <2>2. /\ pass'.gen = spec.gen /\ pass'.todo = Active(pass'.status, SpecChanged)
        /\ pass'.status \in StatusType /\ Sound(pass'.status)
        /\ SpecChanged => \A f \in Feeds : pass'.status.feed[f].backoff = 0
    BY <1>5, BeginFields
  <2>3. CASE SpecChanged
    <3>1. SpecChanged = TRUE
      BY <2>3 DEF SpecChanged
    <3>2. pass'.todo = Unpaused
      BY <2>2, <3>1, Planned
    <3> QED BY <2>1, <3>2 DEF OInv, ObservedWasAttempted
  <2>4. CASE ~SpecChanged
    <3>1. stored.observed = spec.gen
      BY <1>0, <2>4 DEF SpecChanged
    <3> QED BY <2>1, <3>1 DEF OInv, ObservedWasAttempted
  <2> QED BY <2>3, <2>4
<1>6. CASE Attempt
  <2>1. PICK fs \in FeedType, retry \in BOOLEAN, retryAfter \in Nat :
          Process(fs, retry, retryAfter)
    BY <1>6, AttemptOutcome DEF IInv, Outcome
  <2>2. /\ Attempting /\ Current \in Feeds /\ pass'.gen = pass.gen
        /\ pass'.todo = pass.todo \ {Current}
    BY <1>6, <2>1, AttemptOutcome, ProcessFields DEF IInv
  <2>3. /\ hist' \in [attempted : SUBSET Feeds, cutShort : BOOLEAN, whole : BOOLEAN]
        /\ hist'.cutShort = hist.cutShort
        /\ hist'.attempted = IF pass.gen = spec.gen THEN hist.attempted \union {Current}
                             ELSE hist.attempted
    BY <2>1, <2>2 DEF Process, OInv
  <2>4. stored' = stored /\ spec' = spec /\ pc' = pc
    BY <2>1 DEF Process
  <2> QED BY <2>2, <2>3, <2>4 DEF OInv, ObservedWasAttempted
<1>7. CASE Finishes
  <2>1. /\ pc = "pass" /\ pc' = "idle" /\ spec' = spec /\ stored'.observed = pass.gen
        /\ pass.todo = {} \/ pass.retryAfter > 0
        /\ hist' = IF pass.retryAfter > 0 THEN CutShort ELSE [hist EXCEPT !.whole = TRUE]
    BY <1>7, FinishesFields
  <2>2. CASE pass.retryAfter > 0
    BY <2>1, <2>2, CutShortFields DEF OInv, ObservedWasAttempted
  <2>3. CASE ~(pass.retryAfter > 0)
    <3>1. /\ hist' \in [attempted : SUBSET Feeds, cutShort : BOOLEAN, whole : BOOLEAN]
          /\ hist'.cutShort = hist.cutShort /\ hist'.attempted = hist.attempted
      BY <2>1, <2>3 DEF OInv
    <3> QED BY <2>1, <2>3, <3>1 DEF OInv, ObservedWasAttempted
  <2> QED BY <2>2, <2>3
<1>8. ASSUME NEW handled \in BOOLEAN, Panics(handled) PROVE OInv'
  <2>1. pc' = "idle" /\ hist' = hist /\ spec' = spec /\ stored'.observed = stored.observed
    BY <1>8, PanicsFields
  <2> QED BY <2>1 DEF OInv, ObservedWasAttempted
<1>9. CASE LosesPass
  BY <1>9 DEF LosesPass, OInv, ObservedWasAttempted
<1>10. CASE UNCHANGED vars
  BY <1>10 DEF vars, OInv, ObservedWasAttempted
<1> QED
  BY <1>1, <1>2, <1>3, <1>4, <1>5, <1>6, <1>7, <1>8, <1>9, <1>10 DEF Next

LEMMA ObservedAlwaysAttempted == Spec => []OInv
<1>1. Init => OInv
  BY DEF Init, OInv, ObservedWasAttempted
<1> QED BY <1>1, ObservedInvariant, Invariance, PTL DEF Spec

-----------------------------------------------------------------------------
(* Ages and waits.                                                          *)

\* A feed is still to be attempted, or waits for its retry or its backoff, or
\* was just checked, or was skipped and bounds the requeue.
Covered(f) ==
    \/ f \in pass.todo
    \/ pass.status.feed[f].failing
    \/ pass.status.feed[f].age = 0
    \/ 0 < pass.nextDue /\ pass.nextDue <= UntilDue(pass.status.feed[f])

\* What asks for a retry or a wait is a feed that is done and failing.
Excused == \E f \in Feeds \ pass.todo : pass.status.feed[f].failing

Longest(status) ==
    IF \E f \in Feeds : status.feed[f].failing THEN Max({Poll, Retry}) ELSE Poll

Fresh ==
    stored.ready = "Reconciled" /\ stored.observed = spec.gen =>
        \A f \in Unpaused :
            /\ ~stored.feed[f].failing
            /\ stored.feed[f].age + (IF pc = "idle" THEN wake ELSE 0) <= Poll + Slack

WInv ==
    /\ WakesInTime /\ Fresh
    /\ pc = "pass" =>
        /\ wake # 0 => pass.gen = spec.gen
        /\ pass.gen = spec.gen => \A f \in Unpaused : Covered(f)
        /\ pass.retry \/ pass.retryAfter > 0 => Excused

LEMMA LongestBounds ==
    ASSUME NEW status
    PROVE  /\ Longest(status) \in Nat /\ Poll <= Longest(status)
           /\ (\E f \in Feeds : status.feed[f].failing) => Retry <= Longest(status)
           /\ ~(\E f \in Feeds : status.feed[f].failing) => Longest(status) = Poll
<1>1. Poll \in Nat /\ Retry \in Nat
  BY Constants
<1>2. Max({Poll, Retry}) = IF Poll <= Retry THEN Retry ELSE Poll
  BY <1>1, MaxOfTwo
<1> QED BY <1>1, <1>2 DEF Longest

\* A wait that a pass over all its feeds may end with.
Awaits(w) ==
    w = 0 \/ w \in Requeues(IF pass.retry THEN Retry ELSE Poll, TRUE, pass.nextDue)

\* Once a pass went over all its feeds, no feed's age and the wait for the next
\* pass add up to more than the interval, the slack, or a retry allow.
LEMMA CoveredInTime ==
    ASSUME IInv, WInv, pc = "pass", pass.gen = spec.gen, pass.todo = {},
           pass.retryAfter = 0, NEW w \in Nat, Awaits(w),
           NEW f \in Unpaused, ~pass.status.feed[f].failing
    PROVE  pass.status.feed[f].age + w <= Longest(pass.status) + Slack
<1> DEFINE fs == pass.status.feed[f]
           delay == IF pass.retry THEN Retry ELSE Poll
           longest == Longest(pass.status)
<1>1. fs.age \in Nat /\ pass.nextDue \in Nat
  BY DEF IInv, TypeOK, StatusType, FeedType, Unpaused
<1>2. /\ delay \in Nat /\ Poll \in Nat /\ MinInterval \in Nat /\ MinInterval <= Poll
      /\ Jitter \in Nat /\ Slack \in Nat /\ Jitter <= Slack /\ MinInterval - 1 <= Slack
  BY Constants, SlackCovers
<1>3. longest \in Nat /\ Poll <= longest
  BY LongestBounds
<1>4. delay <= longest
  <2>1. CASE pass.retry
    <3>1. \E g \in Feeds : pass.status.feed[g].failing
      BY <2>1 DEF WInv, Excused
    <3> QED BY <2>1, <3>1, LongestBounds
  <2>2. CASE ~pass.retry
    BY <1>3, <2>2
  <2> QED BY <2>1, <2>2
<1> HIDE DEF delay, longest
<1>5. w # 0 => /\ w <= delay + Jitter \/ w <= MinInterval
               /\ pass.nextDue > 0 => w <= pass.nextDue \/ w <= MinInterval
  BY <1>1, <1>2, RequeueBounds DEF delay, Awaits
<1>6. fs.age = 0 \/ (0 < pass.nextDue /\ pass.nextDue <= Poll - fs.age)
  BY DEF WInv, Covered, UntilDue
<1> HIDE DEF fs
<1>7. ASSUME fs.age = 0 PROVE fs.age + w <= longest + Slack
  BY <1>2, <1>3, <1>4, <1>5, <1>7
<1>8. ASSUME 0 < pass.nextDue, pass.nextDue <= Poll - fs.age
      PROVE  fs.age + w <= longest + Slack
  BY <1>1, <1>2, <1>3, <1>4, <1>5, <1>8
<1> QED BY <1>6, <1>7, <1>8 DEF fs, longest

LEMMA TimingInvariant == IInv /\ OInv /\ WInv /\ [Next]_vars => WInv'
<1> SUFFICES ASSUME IInv, OInv, WInv, [Next]_vars PROVE WInv'
  OBVIOUS
<1>0. /\ stored \in StatusType /\ wake \in Nat /\ pc \in {"idle", "pass"}
      /\ stored.observed \in Nat /\ spec.gen \in Nat /\ stored.observed <= spec.gen
      /\ pc = "pass" => pass.gen \in Nat /\ pass.gen <= spec.gen
      /\ Unpaused \subseteq Feeds
      /\ \A f \in Feeds : stored.feed[f].age \in Nat
  BY DEF IInv, TypeOK, StatusType, FeedType, Unpaused
<1>20. Slack \in Nat /\ Poll \in Nat /\ Longest(stored) \in Nat
  BY Constants, SlackCovers, LongestBounds
<1>1. CASE Tick
  <2>1. /\ pc = "idle" /\ pc' = "idle" /\ wake > 0 /\ wake' = wake - 1
        /\ spec' = spec /\ hist' = hist
    BY <1>1 DEF Tick
  <2>2. /\ stored'.observed = stored.observed /\ stored'.ready = stored.ready
        /\ stored' \in StatusType
        /\ \A f \in Feeds :
             /\ stored'.feed[f].failing = stored.feed[f].failing
             /\ ~stored.feed[f].failing => stored'.feed[f].age <= stored.feed[f].age + 1
    BY <1>1, TickFields
  <2>3. \A f \in Feeds : stored'.feed[f].age \in Nat
    BY <2>2 DEF StatusType, FeedType
  <2>4. Longest(stored') = Longest(stored)
    BY <2>2 DEF Longest
  <2>5. WakesInTime => \A f \in Unpaused : hist.whole /\ ~stored.feed[f].failing =>
          stored.feed[f].age + wake <= Longest(stored) + Slack
    BY <2>1 DEF WakesInTime, Longest
  <2>6. \A f \in Unpaused : hist.whole /\ ~stored'.feed[f].failing =>
          stored'.feed[f].age + wake' <= Longest(stored') + Slack
    <3> SUFFICES ASSUME NEW f \in Unpaused, hist.whole, ~stored'.feed[f].failing
                 PROVE  stored'.feed[f].age + wake' <= Longest(stored') + Slack
      OBVIOUS
    <3>1. /\ f \in Feeds /\ ~stored.feed[f].failing
          /\ stored'.feed[f].age <= stored.feed[f].age + 1
          /\ stored.feed[f].age + wake <= Longest(stored) + Slack
      BY <1>0, <2>2, <2>5 DEF WInv
    <3> HIDE DEF WInv
    <3> QED BY <1>0, <1>20, <2>1, <2>3, <2>4, <3>1
  <2>7. WakesInTime'
    BY <2>1, <2>6 DEF WakesInTime, Longest, Unpaused
  <2>8. Fresh'
    <3> SUFFICES ASSUME stored.ready = "Reconciled", stored.observed = spec.gen,
                        NEW f \in Unpaused
                 PROVE  /\ ~stored'.feed[f].failing
                        /\ stored'.feed[f].age + wake' <= Poll + Slack
      BY <2>1, <2>2 DEF Fresh, Unpaused
    <3>1. /\ f \in Feeds /\ ~stored.feed[f].failing
          /\ stored.feed[f].age + wake <= Poll + Slack
      BY <1>0, <2>1 DEF WInv, Fresh
    <3>2. ~stored'.feed[f].failing /\ stored'.feed[f].age <= stored.feed[f].age + 1
      BY <2>2, <3>1
    <3> QED BY <1>0, <1>20, <2>1, <2>3, <3>1, <3>2
  <2> QED BY <2>1, <2>7, <2>8 DEF WInv
<1>2. ASSUME NEW paused \in SUBSET Feeds, EditSpec(paused) PROVE WInv'
  <2>1. /\ spec'.gen = spec.gen + 1 /\ wake' = 0
        /\ stored' = stored /\ pass' = pass /\ pc' = pc
    BY <1>2 DEF EditSpec
  <2>2. stored'.observed # spec'.gen /\ (pc' = "pass" => pass'.gen # spec'.gen)
    BY <1>0, <2>1
  <2> QED BY <2>1, <2>2 DEF WInv, WakesInTime, Fresh, Excused
<1>3. ASSUME NEW usable \in BOOLEAN, ReplaceSecret(usable) PROVE WInv'
  <2>1. /\ spec' = spec /\ stored' = stored /\ pass' = pass /\ pc' = pc /\ hist' = hist
        /\ wake' \in {0, wake}
    BY <1>3 DEF ReplaceSecret
  <2>2. Fresh'
    <3> SUFFICES ASSUME stored.ready = "Reconciled", stored.observed = spec.gen,
                        NEW f \in Unpaused
                 PROVE  /\ ~stored.feed[f].failing
                        /\ stored.feed[f].age + (IF pc = "idle" THEN wake' ELSE 0) <= Poll + Slack
      BY <2>1 DEF Fresh, Unpaused
    <3>1. /\ ~stored.feed[f].failing
          /\ stored.feed[f].age + (IF pc = "idle" THEN wake ELSE 0) <= Poll + Slack
      BY DEF WInv, Fresh
    <3> QED BY <1>0, <1>20, <2>1, <3>1
  <2>3. WakesInTime'
    <3>1. CASE wake' = 0
      BY <3>1 DEF WakesInTime
    <3>2. CASE wake' = wake
      BY <2>1, <3>2 DEF WInv, WakesInTime, Unpaused
    <3> QED BY <2>1, <3>1, <3>2
  <2>4. pc = "pass" => /\ wake' # 0 => pass.gen = spec.gen
                       /\ pass.gen = spec.gen => \A f \in Unpaused : Covered(f)
                       /\ pass.retry \/ pass.retryAfter > 0 => Excused
    BY <2>1 DEF WInv
  <2>5. (pc = "pass" => /\ wake # 0 => pass.gen = spec.gen
                        /\ pass.gen = spec.gen => \A f \in Unpaused : Covered(f)
                        /\ pass.retry \/ pass.retryAfter > 0 => Excused)'
    BY <2>1, <2>4 DEF Unpaused, Covered, Excused
  <2> QED BY <2>2, <2>3, <2>5 DEF WInv
<1>4. ASSUME NEW noted \in BOOLEAN, FindsNoWebhook(noted) PROVE WInv'
  <2>1. /\ pc' = "idle" /\ stored'.ready = "WebhookUnresolved" /\ hist' = CutShort
    BY <1>4, NoWebhookFields
  <2> QED BY <2>1, CutShortFields DEF WInv, WakesInTime, Fresh
<1>5. CASE Begin
  <2>1. /\ pc = "idle" /\ wake = 0 /\ pc' = "pass"
        /\ pass' = [gen |-> spec.gen, status |-> pass'.status,
                    todo |-> Active(pass'.status, SpecChanged), done |-> {},
                    retry |-> FALSE, retryAfter |-> 0,
                    nextDue |-> NextDue(pass'.status, SpecChanged)]
        /\ pass'.status \in StatusType /\ Sound(pass'.status)
    BY <1>5, BeginFields
  <2>2. hist' = hist /\ stored' = stored /\ spec' = spec
    BY <1>5 DEF Begin
  <2>3. /\ pass'.gen = spec.gen /\ pass'.todo = Active(pass'.status, SpecChanged)
        /\ pass'.nextDue = NextDue(pass'.status, SpecChanged)
        /\ pass'.retry = FALSE /\ pass'.retryAfter = 0
    BY <2>1
  <2>4. SpecChanged \in BOOLEAN
    BY DEF SpecChanged
  <2>5. \A f \in Unpaused :
          \/ f \in pass'.todo
          \/ pass'.status.feed[f].failing
          \/ 0 < pass'.nextDue /\ pass'.nextDue <= UntilDue(pass'.status.feed[f])
    BY <2>1, <2>3, <2>4, Planned
  <2>6. \A f \in Unpaused : Covered(f)'
    BY <2>5 DEF Covered, UntilDue
  <2>7. Fresh'
    BY <2>1, <2>2 DEF WInv, Fresh, Unpaused
  <2> QED BY <2>1, <2>2, <2>3, <2>6, <2>7 DEF WInv, WakesInTime, Unpaused
<1>6. CASE Attempt
  <2>1. PICK fs \in FeedType, retry \in BOOLEAN, retryAfter \in Nat :
          Outcome(fs, retry, retryAfter)
    BY <1>6, AttemptOutcome DEF IInv
  <2>2. /\ Attempting /\ pass.retryAfter = 0
        /\ Process(fs, retry, retryAfter)
        /\ fs.failing \/ (fs.age = 0 /\ ~retry /\ retryAfter = 0)
    BY <1>6, <2>1, AttemptOutcome DEF IInv, Outcome
  <2>3. /\ Current \in pass.todo /\ Current \in Feeds
        /\ pass'.gen = pass.gen /\ pass'.todo = pass.todo \ {Current}
        /\ pass'.nextDue = pass.nextDue
        /\ pass'.retry = (pass.retry \/ retry)
        /\ pass'.retryAfter = IF pass.retryAfter <= retryAfter THEN retryAfter
                              ELSE pass.retryAfter
        /\ \A f \in Feeds :
             pass'.status.feed[f] = IF f = Current THEN fs ELSE pass.status.feed[f]
    BY <2>2, ProcessFields DEF IInv
  <2>4. /\ pc = "pass" /\ pc' = pc /\ stored' = stored /\ spec' = spec /\ wake' = wake
    BY <2>2 DEF Process, Attempting
  <2>5. pass.gen = spec.gen => \A f \in Unpaused : Covered(f)'
    <3> SUFFICES ASSUME pass.gen = spec.gen, NEW f \in Unpaused PROVE Covered(f)'
      OBVIOUS
    <3>1. f \in Feeds /\ Covered(f)
      BY <1>0, <2>4 DEF WInv
    <3>2. CASE f = Current
      BY <2>2, <2>3, <3>1, <3>2 DEF Covered
    <3>3. CASE f # Current
      BY <2>3, <3>1, <3>3 DEF Covered, UntilDue
    <3> QED BY <3>2, <3>3
  <2>6. ASSUME pass'.retry \/ pass'.retryAfter > 0 PROVE Excused'
    <3>1. CASE fs.failing
      BY <2>3, <3>1 DEF Excused
    <3>2. CASE ~fs.failing
      <4>1. pass.retry
        BY <2>2, <2>3, <2>6, <3>2
      <4>2. PICK f \in Feeds \ pass.todo : pass.status.feed[f].failing
        BY <2>4, <4>1 DEF WInv, Excused
      <4>3. f \in Feeds \ pass'.todo /\ pass'.status.feed[f].failing
        BY <2>3, <4>2
      <4> QED BY <4>3 DEF Excused
    <3> QED BY <3>1, <3>2
  <2>7. Fresh'
    BY <2>4 DEF WInv, Fresh, Unpaused
  <2> QED BY <2>3, <2>4, <2>5, <2>6, <2>7 DEF WInv, WakesInTime, Unpaused
<1>7. CASE Finishes
  <2>1. /\ pc = "pass" /\ pc' = "idle" /\ spec' = spec
        /\ pass.todo = {} \/ pass.retryAfter > 0
        /\ stored'.feed = pass.status.feed /\ stored'.observed = pass.gen
        /\ stored'.ready = Ready(pass.status, "None")
        /\ wake = 0 => wake' = 0
        /\ pass.retryAfter = 0 /\ wake # 0 =>
             wake' \in Requeues(IF pass.retry THEN Retry ELSE Poll, TRUE, pass.nextDue)
        /\ hist' = IF pass.retryAfter > 0 THEN CutShort ELSE [hist EXCEPT !.whole = TRUE]
        /\ wake' \in Nat /\ pass.retryAfter \in Nat
    BY <1>7, FinishesFields DEF IInv, TypeOK
  <2>2. ASSUME pass.gen = spec.gen, pass.retryAfter = 0,
               NEW f \in Unpaused, ~pass.status.feed[f].failing
        PROVE  pass.status.feed[f].age + wake' <= Longest(pass.status) + Slack
    <3>1. PICK w \in Nat : w = wake'
      BY <2>1
    <3>2. Awaits(w)
      BY <2>1, <2>2, <3>1 DEF Awaits
    <3>3. pass.status.feed[f].age + w <= Longest(pass.status) + Slack
      BY <2>1, <2>2, <3>2, CoveredInTime
    <3> QED BY <3>1, <3>3
  <2>3. WakesInTime'
    <3> SUFFICES ASSUME wake' > 0, hist'.whole, NEW f \in Unpaused,
                        ~pass.status.feed[f].failing
                 PROVE  pass.status.feed[f].age + wake' <= Longest(pass.status) + Slack
      BY <2>1 DEF WakesInTime, Longest, Unpaused
    <3>1. pass.retryAfter = 0
      BY <2>1, CutShortFields
    <3>2. pass.gen = spec.gen
      BY <2>1 DEF WInv
    <3> QED BY <2>2, <3>1, <3>2
  <2>4. Fresh'
    <3> SUFFICES ASSUME stored'.ready = "Reconciled", pass.gen = spec.gen,
                        NEW f \in Unpaused
                 PROVE  /\ ~pass.status.feed[f].failing
                        /\ pass.status.feed[f].age + wake' <= Poll + Slack
      BY <2>1 DEF Fresh, Unpaused
    <3>1. \A g \in Feeds : ~pass.status.feed[g].failing
      BY <2>1 DEF Ready
    <3>2. pass.retryAfter = 0
      BY <2>1, <3>1 DEF WInv, Excused
    <3>3. Longest(pass.status) = Poll
      BY <3>1, LongestBounds
    <3> QED BY <1>0, <2>2, <3>1, <3>2, <3>3
  <2> QED BY <2>1, <2>3, <2>4 DEF WInv
<1>8. ASSUME NEW handled \in BOOLEAN, Panics(handled) PROVE WInv'
  <2>1. pc' = "idle" /\ wake' = 0 /\ stored'.ready = "ReconcilePanicked"
    BY <1>8, PanicsFields
  <2> QED BY <2>1 DEF WInv, WakesInTime, Fresh
<1>9. CASE LosesPass
  <2>1. /\ pc = "pass" /\ pc' = "idle" /\ wake' = 0 /\ stored' = stored /\ spec' = spec
    BY <1>9 DEF LosesPass
  <2> QED BY <2>1 DEF WInv, WakesInTime, Fresh, Unpaused
<1>10. CASE UNCHANGED vars
  BY <1>10 DEF vars, WInv, WakesInTime, Fresh, Unpaused, Covered, Excused
<1> QED
  BY <1>1, <1>2, <1>3, <1>4, <1>5, <1>6, <1>7, <1>8, <1>9, <1>10 DEF Next

LEMMA AlwaysInTime == Spec => []WInv
<1>1. Init => WInv
  BY DEF Init, WInv, WakesInTime, Fresh
<1> QED BY <1>1, TimingInvariant, ObservedAlwaysAttempted, Invariance, PTL DEF Spec

-----------------------------------------------------------------------------
(* The theorems. *)

\* Every state of the group and of a pass over it is well typed.
THEOREM TypeCorrect == Spec => []TypeOK
<1>1. IInv => TypeOK
  BY DEF IInv
<1> QED BY <1>1, Invariance, PTL

\* A send's backoff never outlives the Secret it failed under by more than the
\* reconcile that notes the new one (noteWebhookSecretVersion, secret_watch.go).
THEOREM SecretBackoffCorrect == Spec => []SendBackoffOfThisSecret
<1>1. IInv => SendBackoffOfThisSecret
  BY DEF IInv, Sound, SoundFeed, SendBackoffOfThisSecret
<1> QED BY <1>1, Invariance, PTL

\* A generation that counts as observed (settle, settle.go) was attempted for
\* every feed, but for a rate limit or a webhook that could not be read.
THEOREM ObservedCorrect == Spec => []ObservedWasAttempted
<1>1. OInv => ObservedWasAttempted
  BY DEF OInv
<1> QED BY <1>1, ObservedAlwaysAttempted, PTL

\* The requeue (feedPlan.requeue and requeueDecision.bound, schedule.go) never
\* sleeps past a feed's interval, but for a longer retry interval.
THEOREM WakesCorrect == Spec => []WakesInTime
<1>1. WInv => WakesInTime
  BY DEF WInv
<1> QED BY <1>1, AlwaysInTime, PTL

\* "All feeds processed successfully" (setReadyCondition, group_summary.go) is
\* about the last interval, for as long as the group reads so.
THEOREM ReadyCorrect == Spec => []ReadyIsFresh
<1>1. IInv /\ WInv => ReadyIsFresh
  <2> SUFFICES ASSUME IInv, WInv, stored.ready = "Reconciled", stored.observed = spec.gen,
                      NEW f \in Unpaused
               PROVE  ~stored.feed[f].failing /\ stored.feed[f].age <= Poll + Slack
    BY DEF ReadyIsFresh
  <2>1. /\ ~stored.feed[f].failing
        /\ stored.feed[f].age + (IF pc = "idle" THEN wake ELSE 0) <= Poll + Slack
    BY DEF WInv, Fresh
  <2>2. stored.feed[f].age \in Nat /\ wake \in Nat
    BY DEF IInv, TypeOK, StatusType, FeedType, Unpaused
  <2>3. Poll \in Nat /\ Slack \in Nat
    BY Constants, SlackCovers
  <2> QED BY <2>1, <2>2, <2>3
<1> QED BY <1>1, Invariance, AlwaysInTime, PTL
=============================================================================
