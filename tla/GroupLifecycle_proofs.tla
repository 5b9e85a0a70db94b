----------------------- MODULE GroupLifecycle_proofs ------------------------
(***************************************************************************)
(* Proofs about GroupLifecycle, for any feeds, server answers, and number  *)
(* of edits and troubles.                                                  *)
(*                                                                         *)
(* The argument for the gauges: copies of the group that have one UID and  *)
(* one generation have one spec (Versions), and a pass nobody queued       *)
(* another one behind works on the generation the cache has (Current).  So *)
(* when nothing is queued and the cache is up to date, the last pass was   *)
(* over the spec the group has, and either wrote the status its gauges     *)
(* tell, or found that status in the API (Unchanged).                      *)
(*                                                                         *)
(* The argument for the series: without loss, a stale read or a group made *)
(* again, every feed with a series is one the written status lists, and so *)
(* pruning that status forgets the rest (Owned).                           *)
(*                                                                         *)
(* The argument for the classes: which types an error's chain holds        *)
(* decides its class, and the order they come in only whether it timed out *)
(* (HoldsTypes).  A fault of the network is told by its chain              *)
(* (NetworkFaultForms) and still is when url.Error or fmt wraps it         *)
(* (WrappedTransport), so a fetch and a send each have the class of their  *)
(* cause or of their answer's status (FetchClasses, SendClasses).  What is *)
(* left is that no two causes share a class that a reader must tell apart  *)
(* (CausesToldApart).                                                      *)
(***************************************************************************)
EXTENDS GroupLifecycle, Recursion, SequenceTheorems

StatusMaps == UNION {[S -> BOOLEAN] : S \in SUBSET Feeds}
StatusType == [observed : Nat, conditions : Nat, feed : StatusMaps]
GroupType ==
    [exists : BOOLEAN, uid : Nat, gen : Nat, feeds : SUBSET Feeds, paused : SUBSET Feeds,
     status : StatusType]
PassType ==
    [group : GroupType, todo : SUBSET Feeds, touched : BOOLEAN, panicked : BOOLEAN,
     stale : BOOLEAN]
SeriesType ==
    [operations : SUBSET Feeds, gauges : SUBSET Feeds, healthy : SUBSET Feeds,
     ofGroup : BOOLEAN]
HistType ==
    [writeLost : BOOLEAN, staleRead : BOOLEAN, skipped : BOOLEAN, recreated : BOOLEAN]

Typed ==
    /\ group \in GroupType /\ cache \in GroupType /\ pass \in PassType
    /\ queued \in BOOLEAN /\ pc \in {"idle", "pass"}
    /\ series \in SeriesType /\ hist \in HistType

-----------------------------------------------------------------------------
(* The versions of the group. *)

\* A group that is gone has no spec.
Lives(g) == (g.exists <=> g.gen > 0) /\ (~g.exists => g.feeds = {})

SameVersion(g, h) == g.uid = h.uid /\ g.gen = h.gen

SameSpec(g, h) == SameVersion(g, h) /\ h.exists => g.feeds = h.feeds /\ g.paused = h.paused

NotAhead(g) == g.uid <= group.uid /\ (group.exists /\ g.uid = group.uid => g.gen <= group.gen)

Versions ==
    /\ Lives(group) /\ Lives(cache)
    /\ NotAhead(cache) /\ SameSpec(cache, group)
    /\ pc = "pass" =>
         /\ Lives(pass.group) /\ pass.group.exists
         /\ DOMAIN pass.group.status.feed = pass.group.feeds
         /\ pass.todo \subseteq pass.group.feeds
         /\ NotAhead(pass.group) /\ SameSpec(pass.group, group) /\ SameSpec(pass.group, cache)

\* Nothing was queued behind the pass.
Current == pc = "pass" /\ ~queued => SameVersion(pass.group, cache)

-----------------------------------------------------------------------------
(* The gauges. *)

Told ==
    /\ series.gauges \intersect group.feeds = group.feeds \ group.paused
    /\ \A f \in group.feeds \ group.paused :
         f \in series.healthy <=> ~EnsureFeedStatuses(group)[f]

AllTold ==
    pc = "idle" /\ ~queued /\ ~hist.skipped /\ group.exists /\ SameVersion(cache, group)
        => Told

Unchanged ==
    pc = "pass" /\ ~pass.touched /\ ~pass.stale /\ group.exists /\ SameVersion(pass.group, group)
        => EnsureFeedStatuses(group) = pass.group.status.feed

IInv == Typed /\ Versions /\ Current /\ AllTold /\ Unchanged

-----------------------------------------------------------------------------
(* The series. *)

\* The group is the one that was there when the process started.
Original == group.exists /\ ~hist.recreated

\* Its conditions are of the spec it has, so its statuses are as well.
ListsItsFeeds(g) == g.status.conditions = g.gen => DOMAIN g.status.feed = g.feeds

Listed ==
    Original =>
        /\ cache.exists /\ cache.uid = group.uid
        /\ pc = "pass" => pass.group.uid = group.uid
        /\ group.status.conditions <= group.gen
        /\ ListsItsFeeds(group) /\ ListsItsFeeds(cache)

\* A series is of a feed that pruning will find, or that the spec has.
Found ==
    /\ pc = "idle" => FeedsWithSeries \subseteq DOMAIN group.status.feed
    /\ pc = "pass" =>
         /\ FeedsWithSeries \subseteq pass.group.feeds
         /\ pass.group.status.conditions = pass.group.gen
              => DOMAIN group.status.feed = pass.group.feeds
    /\ pc = "idle" /\ ~queued /\ SameVersion(cache, group)
         => FeedsWithSeries \subseteq group.feeds

Owned ==
    /\ pc = "pass" /\ pass.stale => hist.staleRead
    /\ Original /\ ~hist.writeLost /\ ~hist.staleRead => Found
    /\ pc = "idle" /\ ~queued /\ ~cache.exists => FeedsWithSeries = {}

SInv == IInv /\ Listed /\ Owned

-----------------------------------------------------------------------------
(* Lemmas. *)

LEMMA EnsuredType ==
    ASSUME NEW g \in GroupType
    PROVE  EnsureFeedStatuses(g) \in [g.feeds -> BOOLEAN] /\ EnsureFeedStatuses(g) \in StatusMaps
<1>1. /\ g.feeds \in SUBSET Feeds
      /\ \A f \in DOMAIN g.status.feed : g.status.feed[f] \in BOOLEAN
  BY DEF GroupType, StatusType, StatusMaps
<1>2. EnsureFeedStatuses(g) \in [g.feeds -> BOOLEAN]
  BY <1>1 DEF EnsureFeedStatuses
<1> QED BY <1>1, <1>2 DEF StatusMaps

LEMMA NewGroupType ==
    ASSUME NEW uid \in Nat, NEW feeds \in SUBSET Feeds
    PROVE  /\ NewStatus \in StatusType /\ NoGroup \in GroupType
           /\ NewGroup(uid, feeds) \in GroupType
           /\ NewGroup(uid, feeds).exists /\ NewGroup(uid, feeds).uid = uid
           /\ NewGroup(uid, feeds).gen = 1
           /\ NewGroup(uid, feeds).feeds = feeds
           /\ NewGroup(uid, feeds).status = NewStatus
<1>1. [f \in {} |-> FALSE] \in [{} -> BOOLEAN]
  OBVIOUS
<1>2. NewStatus \in StatusType
  BY <1>1 DEF NewStatus, StatusType, StatusMaps
<1>3. NoGroup \in GroupType /\ NoGroup.status = NewStatus
  BY <1>2 DEF NoGroup, GroupType
<1> HIDE DEF NoGroup
<1> DEFINE living == [NoGroup EXCEPT !.exists = TRUE]
           named == [living EXCEPT !.uid = uid]
           versioned == [named EXCEPT !.gen = 1]
           listing == [versioned EXCEPT !.feeds = feeds]
<1>4. living \in GroupType /\ living.exists /\ living.status = NewStatus
  BY <1>3 DEF GroupType
<1> HIDE DEF living
<1>5. named \in GroupType /\ named.exists /\ named.uid = uid /\ named.status = NewStatus
  BY <1>4 DEF GroupType
<1> HIDE DEF named
<1>6. /\ versioned \in GroupType /\ versioned.exists /\ versioned.uid = uid
      /\ versioned.gen = 1 /\ versioned.status = NewStatus
  BY <1>5 DEF GroupType
<1> HIDE DEF versioned
<1>7. /\ listing \in GroupType /\ listing.exists /\ listing.uid = uid
      /\ listing.gen = 1 /\ listing.feeds = feeds /\ listing.status = NewStatus
  BY <1>6 DEF GroupType
<1>8. NewGroup(uid, feeds) = listing
  BY DEF NewGroup, living, named, versioned
<1> QED BY <1>2, <1>3, <1>7, <1>8

LEMMA OutcomeType ==
    \A outcome \in Outcomes :
        outcome.failing \in BOOLEAN /\ outcome.counted \in BOOLEAN /\ outcome.cuts \in BOOLEAN
<1>1. \A kind, err, waits : waits \in BOOLEAN =>
        /\ Outcome(kind, err, waits).failing \in BOOLEAN
        /\ Outcome(kind, err, waits).counted \in BOOLEAN
        /\ Outcome(kind, err, waits).cuts \in BOOLEAN
  BY DEF Outcome
<1> SUFFICES ASSUME NEW outcome \in Outcomes
             PROVE  \E kind, err, waits : waits \in BOOLEAN /\ outcome = Outcome(kind, err, waits)
  BY <1>1
<1> DEFINE sends(waits) == {Outcome("SendFailed", fault, waits) : fault \in SendFaults}
<1>2. CASE outcome \in {Outcome("FetchFailed", fault, FALSE) : fault \in FetchFaults}
  <2>1. PICK fault \in FetchFaults : outcome = Outcome("FetchFailed", fault, FALSE)
    BY <1>2, Zenon
  <2> QED BY <2>1, Zenon
<1>3. CASE outcome \in UNION {sends(waits) : waits \in BOOLEAN}
  <2>1. PICK waits \in BOOLEAN : outcome \in sends(waits)
    BY <1>3, Zenon
  <2>2. PICK fault \in SendFaults : outcome = Outcome("SendFailed", fault, waits)
    BY <2>1, Zenon
  <2> QED BY <2>2, Zenon
<1>4. CASE outcome \in {Outcome(kind, NoError, FALSE) :
                          kind \in {"FetchSucceeded", "Sent", "RenderFailed", "ConfigError"}}
  <2>1. PICK kind : outcome = Outcome(kind, NoError, FALSE)
    BY <1>4, Zenon
  <2> QED BY <2>1, Zenon
<1>5. \/ outcome \in {Outcome("FetchFailed", fault, FALSE) : fault \in FetchFaults}
      \/ outcome \in UNION {sends(waits) : waits \in BOOLEAN}
      \/ outcome \in {Outcome(kind, NoError, FALSE) :
                        kind \in {"FetchSucceeded", "Sent", "RenderFailed", "ConfigError"}}
  <2> HIDE DEF Outcome
  <2> QED BY DEF Outcomes
<1> QED BY <1>2, <1>3, <1>4, <1>5, Zenon

\* What SyncFeedState leaves: the gauges of the feeds of the copy.
LEMMA SyncedType ==
    ASSUME NEW s \in SeriesType, NEW g \in GroupType
    PROVE  LET synced == SyncFeedState(s, g)
               listed == DOMAIN g.status.feed
           IN  /\ synced \in SeriesType
               /\ synced.operations = s.operations
               /\ synced.gauges = (s.gauges \ listed) \union (listed \ g.paused)
               /\ \A f \in listed \ g.paused : f \in synced.healthy <=> ~g.status.feed[f]
               /\ s.healthy \subseteq s.gauges => synced.healthy \subseteq synced.gauges
<1> DEFINE listed == DOMAIN g.status.feed
           shown == listed \ g.paused
           gauged == [s EXCEPT !.gauges = (@ \ listed) \union shown]
           synced == [gauged EXCEPT !.healthy = (@ \ listed) \union {f \in shown : Healthy(g, f)}]
<1>1. listed \subseteq Feeds
  BY DEF GroupType, StatusType, StatusMaps
<1> HIDE DEF listed
<1>2. /\ gauged \in SeriesType /\ gauged.operations = s.operations
      /\ gauged.healthy = s.healthy /\ gauged.gauges = (s.gauges \ listed) \union shown
  BY <1>1 DEF SeriesType
<1> HIDE DEF gauged
<1>3. /\ synced \in SeriesType /\ synced.operations = s.operations
      /\ synced.gauges = gauged.gauges
      /\ synced.healthy = (s.healthy \ listed) \union {f \in shown : Healthy(g, f)}
  BY <1>1, <1>2 DEF SeriesType
<1>4. SyncFeedState(s, g) = synced
  BY DEF SyncFeedState, gauged, listed, SeriesType
<1> QED BY <1>2, <1>3, <1>4 DEF Healthy, listed

\* The copy of the group that is written, and the registry after it.
LEMMA SettledType ==
    ASSUME Typed
    PROVE  /\ Settled \in GroupType
           /\ Settled.exists = pass.group.exists
           /\ Settled.uid = pass.group.uid /\ Settled.gen = pass.group.gen
           /\ Settled.feeds = pass.group.feeds /\ Settled.paused = pass.group.paused
           /\ Settled.status.feed = pass.group.status.feed
           /\ Settled.status.conditions = pass.group.gen
           /\ Settled.status.observed \in {pass.group.status.observed, pass.group.gen}
<1> DEFINE observing == [pass.group EXCEPT
                           !.status.observed = IF pass.panicked THEN @ ELSE pass.group.gen]
           settled == [observing EXCEPT !.status.conditions = pass.group.gen]
<1>1. pass.group \in GroupType /\ pass.group.gen \in Nat
  BY DEF Typed, PassType, GroupType
<1>2. /\ observing \in GroupType
      /\ observing.exists = pass.group.exists
      /\ observing.uid = pass.group.uid /\ observing.gen = pass.group.gen
      /\ observing.feeds = pass.group.feeds /\ observing.paused = pass.group.paused
      /\ observing.status.feed = pass.group.status.feed
      /\ observing.status.observed \in {pass.group.status.observed, pass.group.gen}
  BY <1>1 DEF GroupType, StatusType
<1>3. Settled = settled
  BY <1>1 DEF Settled, GroupType, StatusType
<1> HIDE DEF observing
<1> QED BY <1>1, <1>2, <1>3 DEF GroupType, StatusType

\* What ends every pass, whether its status was written or not.
LEMMA EndPassStep ==
    ASSUME Typed, NEW failed \in BOOLEAN, EndPass(failed)
    PROVE  /\ pc = "pass" /\ pc' = "idle" /\ cache' = cache /\ pass' = NoPass
           /\ queued' = (queued \/ failed \/ pass.panicked)
           /\ pass' \in PassType /\ series' \in SeriesType /\ queued' \in BOOLEAN
           /\ LET listed == DOMAIN pass.group.status.feed
              IN  /\ series'.operations = series.operations
                  /\ series'.gauges
                       = (series.gauges \ listed) \union (listed \ pass.group.paused)
                  /\ \A f \in listed \ pass.group.paused :
                       f \in series'.healthy <=> ~pass.group.status.feed[f]
           /\ series.healthy \subseteq series.gauges
                => series'.healthy \subseteq series'.gauges
<1>1. Settled \in GroupType /\ series \in SeriesType
  BY SettledType DEF Typed
<1>2. Gauges \in SeriesType
  BY <1>1, SyncedType DEF Gauges
<1>3. /\ series' \in SeriesType
      /\ series'.operations = Gauges.operations
      /\ series'.gauges = Gauges.gauges /\ series'.healthy = Gauges.healthy
  BY <1>2 DEF EndPass, SeriesType
<1>4. NoPass \in PassType
  BY NewGroupType DEF NoPass, PassType
<1>5. /\ Gauges.operations = series.operations
      /\ LET listed == DOMAIN Settled.status.feed
         IN  /\ Gauges.gauges = (series.gauges \ listed) \union (listed \ Settled.paused)
             /\ \A f \in listed \ Settled.paused :
                  f \in Gauges.healthy <=> ~Settled.status.feed[f]
      /\ series.healthy \subseteq series.gauges => Gauges.healthy \subseteq Gauges.gauges
  BY <1>1, SyncedType DEF Gauges
<1>6. Settled.status.feed = pass.group.status.feed /\ Settled.paused = pass.group.paused
  BY SettledType
<1>7. queued' = (queued \/ failed \/ pass.panicked) /\ queued' \in BOOLEAN
  BY DEF EndPass, Typed, PassType
<1> QED BY <1>3, <1>4, <1>5, <1>6, <1>7 DEF EndPass

-----------------------------------------------------------------------------
(* Every step keeps the types. *)

LEMMA TypedInit == Init => Typed
<1> SUFFICES ASSUME Init PROVE Typed
  OBVIOUS
<1>1. PICK feeds \in SUBSET Feeds : group = NewGroup(1, feeds)
  BY DEF Init
<1>2. group \in GroupType
  BY <1>1, NewGroupType
<1>3. NoPass \in PassType
  BY NewGroupType DEF NoPass, PassType
<1>4. NoSeries \in SeriesType /\ HistInit \in HistType
  BY DEF NoSeries, SeriesType, HistInit, HistType
<1> QED BY <1>2, <1>3, <1>4 DEF Init, Typed

LEMMA ForgottenType ==
    ASSUME hist \in HistType
    PROVE  Forgotten \in HistType /\ Forgotten.recreated = hist.recreated
  BY DEF Forgotten, HistInit, HistType

\* What folding a feed's outcome in makes of the pass.
Folded(todo, panicked, touched, fails) ==
    [pass EXCEPT !.todo = todo, !.panicked = panicked, !.touched = touched,
                 !.group.status.feed[NextFeed] = fails]

\* A feed that is checked: what changes of the pass and of the series.
LEMMA FoldStep ==
    ASSUME Typed, Versions, Folding, NEW fails \in BOOLEAN, NEW counted \in BOOLEAN,
           NEW todo \in SUBSET Feeds, NEW touched \in BOOLEAN, NEW panicked \in BOOLEAN,
           pass' = Folded(todo, panicked, touched, fails),
           series' = CountedIn(series, counted)
    PROVE  /\ pass' \in PassType /\ series' \in SeriesType
           /\ pass'.todo = todo /\ pass'.touched = touched /\ pass'.panicked = panicked
           /\ pass'.stale = pass.stale
           /\ pass'.group.exists = pass.group.exists
           /\ pass'.group.uid = pass.group.uid /\ pass'.group.gen = pass.group.gen
           /\ pass'.group.feeds = pass.group.feeds /\ pass'.group.paused = pass.group.paused
           /\ pass'.group.status.conditions = pass.group.status.conditions
           /\ pass'.group.status.observed = pass.group.status.observed
           /\ pass'.group.status.feed = [pass.group.status.feed EXCEPT ![NextFeed] = fails]
           /\ DOMAIN pass'.group.status.feed = DOMAIN pass.group.status.feed
           /\ series'.operations \subseteq series.operations \union {NextFeed}
           /\ series'.gauges = series.gauges /\ series'.healthy = series.healthy
           /\ NextFeed \in pass.todo
<1>1. NextFeed \in pass.todo /\ NextFeed \in Feeds
  <2>1. pass.todo \in SUBSET Nat /\ pass.todo # {} /\ pass.todo \subseteq Feeds
    BY LifecycleAssumption DEF Folding, Typed, PassType
  <2> QED BY <2>1, Least DEF NextFeed
<1> DEFINE feed == [pass.group.status.feed EXCEPT ![NextFeed] = fails]
           status == [pass.group.status EXCEPT !.feed = feed]
           copy == [pass.group EXCEPT !.status = status]
<1>2. pass \in PassType /\ pass.group \in GroupType /\ pass.group.status \in StatusType
  BY DEF Typed, PassType, GroupType
<1>3. feed \in StatusMaps /\ DOMAIN feed = DOMAIN pass.group.status.feed
  BY <1>2 DEF StatusType, StatusMaps
<1>4. pass'.group = copy
  BY <1>2 DEF Folded, PassType, GroupType, StatusType
<1> HIDE DEF feed
<1>5. status \in StatusType /\ status.feed = feed
      /\ status.conditions = pass.group.status.conditions
      /\ status.observed = pass.group.status.observed
  BY <1>2, <1>3 DEF StatusType
<1> HIDE DEF status
<1>6. /\ copy \in GroupType /\ copy.status = status
      /\ copy.exists = pass.group.exists /\ copy.uid = pass.group.uid
      /\ copy.gen = pass.group.gen /\ copy.feeds = pass.group.feeds
      /\ copy.paused = pass.group.paused
  BY <1>2, <1>5 DEF GroupType
<1>7. /\ pass'.todo = todo /\ pass'.touched = touched /\ pass'.panicked = panicked
      /\ pass'.stale = pass.stale
  BY <1>2 DEF Folded, PassType
<1>8. pass' \in PassType
  <2> HIDE DEF copy
  <2>1. pass' = [group |-> copy, todo |-> todo, touched |-> touched,
                 panicked |-> panicked, stale |-> pass.stale]
    BY <1>2, <1>4 DEF Folded, PassType
  <2> QED BY <1>2, <1>6, <2>1 DEF PassType
<1>9. /\ series' \in SeriesType /\ series'.gauges = series.gauges
      /\ series'.healthy = series.healthy
      /\ series'.operations \subseteq series.operations \union {NextFeed}
  BY <1>1 DEF CountedIn, Typed, SeriesType
<1> QED BY <1>1, <1>3, <1>4, <1>5, <1>6, <1>7, <1>8, <1>9 DEF feed

\* Both ways a feed's check ends, as FoldStep has them.
LEMMA CheckIsFold ==
    ASSUME Typed, NEW outcome \in Outcomes, Check(outcome)
    PROVE  \E todo \in SUBSET Feeds :
             /\ todo \subseteq pass.todo
             /\ pass' = Folded(todo, pass.panicked, TRUE, outcome.failing)
             /\ series' = CountedIn(series, outcome.counted)
<1> DEFINE todo == IF outcome.cuts THEN {} ELSE pass.todo \ {NextFeed}
<1>1. todo \in SUBSET Feeds /\ todo \subseteq pass.todo
  BY DEF Typed, PassType
<1>2. pass' = Folded(todo, pass.panicked, TRUE, outcome.failing)
  BY DEF Check, Folded, Typed, PassType
<1> QED BY <1>1, <1>2 DEF Check

LEMMA PanicIsFold ==
    ASSUME Typed, NEW handled \in BOOLEAN, Panics(handled)
    PROVE  pass' = Folded({}, TRUE, pass.touched \/ handled,
                          handled \/ pass.group.status.feed[NextFeed])
  BY DEF Panics, Folded, Typed, PassType, GroupType, StatusType

\* What a reconcile begins with.
LEMMA BeginStep ==
    ASSUME Typed, NEW due \in SUBSET Feeds, NEW resolved \in BOOLEAN, Begin(due, resolved)
    PROVE  /\ pass' \in PassType /\ series' \in SeriesType /\ hist' \in HistType
           /\ pass'.todo = due /\ due \subseteq cache.feeds \ cache.paused
           /\ pass'.touched = FALSE /\ pass'.panicked = FALSE
           /\ pass'.stale = (<<cache.uid, cache.status>> # <<group.uid, group.status>>)
           /\ pass'.group \in GroupType
           /\ pass'.group.exists = cache.exists
           /\ pass'.group.uid = cache.uid /\ pass'.group.gen = cache.gen
           /\ pass'.group.feeds = cache.feeds /\ pass'.group.paused = cache.paused
           /\ pass'.group.status.feed = EnsureFeedStatuses(cache)
           /\ pass'.group.status.conditions = cache.status.conditions
           /\ pass'.group.status.observed = cache.status.observed
           /\ DOMAIN pass'.group.status.feed = cache.feeds
           /\ series'.operations = series.operations \ Pruned(cache)
           /\ series'.gauges = series.gauges \ Pruned(cache)
           /\ series'.healthy = series.healthy \ Pruned(cache)
           /\ hist'.skipped = hist.skipped /\ hist'.writeLost = hist.writeLost
           /\ hist'.recreated = hist.recreated
           /\ hist'.staleRead = (hist.staleRead \/ pass'.stale)
<1> DEFINE status == [cache.status EXCEPT !.feed = EnsureFeedStatuses(cache)]
           copy == [cache EXCEPT !.status = status]
           stale == <<cache.uid, cache.status>> # <<group.uid, group.status>>
<1>1. cache \in GroupType /\ cache.status \in StatusType /\ group \in GroupType
  BY DEF Typed, GroupType
<1>2. EnsureFeedStatuses(cache) \in StatusMaps /\ DOMAIN EnsureFeedStatuses(cache) = cache.feeds
  BY <1>1, EnsuredType
<1>3. /\ status \in StatusType /\ status.feed = EnsureFeedStatuses(cache)
      /\ status.conditions = cache.status.conditions
      /\ status.observed = cache.status.observed
  BY <1>1, <1>2 DEF StatusType
<1>4. [cache EXCEPT !.status.feed = EnsureFeedStatuses(cache)] = copy
  BY <1>1 DEF GroupType, StatusType
<1> HIDE DEF status
<1>5. /\ copy \in GroupType /\ copy.status = status
      /\ copy.exists = cache.exists /\ copy.uid = cache.uid /\ copy.gen = cache.gen
      /\ copy.feeds = cache.feeds /\ copy.paused = cache.paused
  BY <1>1, <1>3 DEF GroupType
<1>6. pass' = [group |-> copy, todo |-> due, touched |-> FALSE, panicked |-> FALSE,
               stale |-> stale]
  BY <1>4 DEF Begin, NoPass
<1> HIDE DEF copy
<1>7. stale \in BOOLEAN
  OBVIOUS
<1> HIDE DEF stale
<1>8. pass' \in PassType
  BY <1>5, <1>6, <1>7 DEF PassType
<1>9. /\ series' \in SeriesType
      /\ series'.operations = series.operations \ Pruned(cache)
      /\ series'.gauges = series.gauges \ Pruned(cache)
      /\ series'.healthy = series.healthy \ Pruned(cache)
  BY DEF Begin, ForgetFeed, Typed, SeriesType
<1>10. /\ hist' \in HistType
       /\ hist'.skipped = hist.skipped /\ hist'.writeLost = hist.writeLost
       /\ hist'.recreated = hist.recreated
       /\ hist'.staleRead = (hist.staleRead \/ pass'.stale)
  BY <1>8 DEF Begin, Typed, HistType, PassType
<1>11. /\ pass'.group = copy /\ pass'.todo = due
       /\ pass'.touched = FALSE /\ pass'.panicked = FALSE /\ pass'.stale = stale
  BY <1>6
<1>12. due \subseteq cache.feeds \ cache.paused
  BY DEF Begin
<1> QED BY <1>2, <1>3, <1>5, <1>8, <1>9, <1>10, <1>11, <1>12 DEF stale

-----------------------------------------------------------------------------
(* The invariant of the gauges is inductive: one step per action. *)

LEMMA GaugesInit == Init => IInv
<1> SUFFICES ASSUME Init PROVE IInv
  OBVIOUS
<1>1. PICK feeds \in SUBSET Feeds : group = NewGroup(1, feeds)
  BY DEF Init
<1>2. group.exists /\ group.gen = 1 /\ group.uid = 1
  BY <1>1, NewGroupType
<1>3. cache = group /\ queued = TRUE /\ pc = "idle"
  BY DEF Init
<1>4. Versions
  BY <1>2, <1>3, TypedInit DEF Versions, Lives, NotAhead, SameSpec, Typed, GroupType
<1> QED BY <1>3, <1>4, TypedInit DEF IInv, Current, AllTold, Unchanged

\* The owner: a spec that changes changes its version.
LEMMA OwnerStep ==
    ASSUME IInv, Owner
    PROVE  IInv'
<1> USE DEF IInv
<1>1. ASSUME NEW feeds \in SUBSET Feeds, NEW paused \in SUBSET feeds, Edit(feeds, paused)
      PROVE  IInv'
  <2>1. /\ group' \in GroupType /\ group'.uid = group.uid /\ group'.gen = group.gen + 1
        /\ group'.exists /\ group.exists /\ group'.status = group.status
    <3> DEFINE newer == [group EXCEPT !.gen = @ + 1]
               listing == [newer EXCEPT !.feeds = feeds]
               edited == [listing EXCEPT !.paused = paused]
    <3>1. group \in GroupType /\ group.exists /\ paused \in SUBSET Feeds
      BY <1>1 DEF Edit, Typed
    <3>2. /\ newer \in GroupType /\ newer.exists /\ newer.uid = group.uid
          /\ newer.gen = group.gen + 1 /\ newer.status = group.status
      BY <3>1 DEF GroupType
    <3> HIDE DEF newer
    <3>3. /\ listing \in GroupType /\ listing.exists /\ listing.uid = group.uid
          /\ listing.gen = group.gen + 1 /\ listing.status = group.status
      BY <3>2 DEF GroupType
    <3> HIDE DEF listing
    <3>4. /\ edited \in GroupType /\ edited.exists /\ edited.uid = group.uid
          /\ edited.gen = group.gen + 1 /\ edited.status = group.status
      BY <3>1, <3>3 DEF GroupType
    <3>5. group' = edited
      BY <1>1 DEF Edit, newer, listing
    <3> QED BY <3>1, <3>4, <3>5
  <2>2. UNCHANGED <<cache, queued, pc, pass, series, hist>>
    BY <1>1 DEF Edit
  <2>3. Typed'
    BY <2>1, <2>2 DEF Typed
  <2>4. group.gen \in Nat /\ group.uid \in Nat /\ cache.gen \in Nat /\ pass.group.gen \in Nat
    BY DEF Typed, GroupType, PassType
  <2>5. Versions'
    BY <2>1, <2>2, <2>4 DEF Versions, Lives, NotAhead, SameSpec, SameVersion
  <2>6. ~SameVersion(cache, group)'
    BY <2>1, <2>2, <2>4 DEF Versions, NotAhead, Lives, SameVersion
  <2>7. pc = "pass" => ~SameVersion(pass.group, group)'
    BY <2>1, <2>2, <2>4 DEF Versions, NotAhead, Lives, SameVersion
  <2> QED BY <2>2, <2>3, <2>5, <2>6, <2>7 DEF Current, SameVersion, AllTold, Unchanged
<1>2. CASE Delete
  <2> DEFINE gone == [NoGroup EXCEPT !.uid = group.uid]
  <2>1. /\ gone \in GroupType /\ gone.uid = group.uid /\ gone.gen = 0
        /\ ~gone.exists /\ gone.feeds = {}
    <3>1. NoGroup \in GroupType /\ group.uid \in Nat
      BY NewGroupType DEF Typed, GroupType
    <3>2. NoGroup.gen = 0 /\ ~NoGroup.exists /\ NoGroup.feeds = {}
      BY DEF NoGroup
    <3> QED BY <3>1, <3>2 DEF GroupType
  <2> HIDE DEF gone
  <2>2. group' = gone /\ UNCHANGED <<cache, queued, pc, pass, series, hist>>
    BY <1>2 DEF Delete, gone
  <2>3. Typed'
    BY <2>1, <2>2 DEF Typed
  <2>4. Versions'
    BY <2>1, <2>2 DEF Versions, Lives, NotAhead, SameSpec, SameVersion
  <2> QED BY <2>1, <2>2, <2>3, <2>4 DEF Current, SameVersion, AllTold, Unchanged
<1>3. ASSUME NEW feeds \in SUBSET Feeds, Recreate(feeds) PROVE IInv'
  <2>1. group.uid \in Nat /\ cache.uid \in Nat /\ pass.group.uid \in Nat
    BY DEF Typed, GroupType, PassType
  <2>2. /\ group' \in GroupType /\ group'.uid = group.uid + 1 /\ group'.gen = 1
        /\ group'.exists
    <3>1. group.uid + 1 \in Nat /\ group' = NewGroup(group.uid + 1, feeds)
      BY <1>3, <2>1 DEF Recreate
    <3> QED BY <3>1, NewGroupType
  <2>3. UNCHANGED <<cache, queued, pc, pass, series>> /\ hist' \in HistType
    BY <1>3 DEF Recreate, Typed, HistType
  <2>4. Typed'
    BY <2>2, <2>3 DEF Typed
  <2>5. Versions'
    BY <2>1, <2>2, <2>3 DEF Versions, Lives, NotAhead, SameSpec, SameVersion
  <2>6. ~SameVersion(cache, group)'
    BY <2>1, <2>2, <2>3 DEF Versions, NotAhead, SameVersion
  <2>7. pc = "pass" => ~SameVersion(pass.group, group)'
    BY <2>1, <2>2, <2>3 DEF Versions, NotAhead, SameVersion
  <2> QED BY <2>3, <2>4, <2>5, <2>6, <2>7 DEF Current, SameVersion, AllTold, Unchanged
<1> QED BY <1>1, <1>2, <1>3 DEF Owner

\* The watch, the queue and the process.
LEMMA CacheStep ==
    ASSUME IInv, CacheSyncs
    PROVE  IInv'
<1> USE DEF IInv
<1>1. /\ cache' = group /\ UNCHANGED <<group, pc, pass, series, hist>>
      /\ queued' = (queued \/ <<cache.uid, cache.gen>> # <<group.uid, group.gen>>)
  BY DEF CacheSyncs
<1>2. queued' \in BOOLEAN /\ (~queued' => ~queued /\ SameVersion(cache, group))
  BY <1>1 DEF Typed, SameVersion
<1>3. Typed'
  BY <1>1, <1>2 DEF Typed
<1>4. group.uid \in Nat /\ group.gen \in Nat
  BY DEF Typed, GroupType
<1>5. Versions'
  BY <1>1, <1>4 DEF Versions, Lives, NotAhead, SameSpec, SameVersion
<1>6. Current'
  BY <1>1, <1>2 DEF Current, SameVersion
<1>7. AllTold'
  BY <1>1, <1>2 DEF AllTold, Told, SameVersion
<1> QED BY <1>1, <1>3, <1>5, <1>6, <1>7 DEF Unchanged, SameVersion

LEMMA WakesStep ==
    ASSUME IInv, Wakes
    PROVE  IInv'
  BY DEF Wakes, IInv, Typed, Versions, Lives, NotAhead, SameSpec, SameVersion, Current,
         AllTold, Unchanged

LEMMA RestartStep ==
    ASSUME IInv, Restart
    PROVE  IInv'
<1> USE DEF IInv
<1>1. /\ cache' = group /\ queued' = group.exists /\ pc' = "idle" /\ pass' = NoPass
      /\ series' = NoSeries /\ hist' = Forgotten /\ group' = group
  BY DEF Restart
<1>2. Typed'
  BY <1>1, ForgottenType, NewGroupType
     DEF Typed, NoPass, PassType, NoSeries, SeriesType, GroupType
<1>3. group.uid \in Nat /\ group.gen \in Nat
  BY DEF Typed, GroupType
<1>4. Versions'
  BY <1>1, <1>3 DEF Versions, Lives, NotAhead, SameSpec, SameVersion
<1> QED BY <1>1, <1>2, <1>4 DEF Current, AllTold, Unchanged

\* The reconcile.
LEMMA ForgetsStep ==
    ASSUME IInv, Forgets
    PROVE  IInv'
<1> USE DEF IInv
<1>1. /\ pc = "idle" /\ ~cache.exists /\ queued' = FALSE
      /\ series' = NoSeries /\ hist' = Forgotten
      /\ UNCHANGED <<group, cache, pc, pass>>
  BY DEF Forgets
<1>2. Typed'
  BY <1>1, ForgottenType DEF Typed, NoSeries, SeriesType
<1>3. Versions'
  BY <1>1 DEF Versions, Lives, NotAhead, SameSpec, SameVersion
<1>4. group.exists => ~SameVersion(cache, group)
  BY <1>1 DEF Versions, Lives, SameVersion
<1> QED BY <1>1, <1>2, <1>3, <1>4 DEF Current, AllTold, Unchanged, SameVersion

LEMMA BeginKeeps ==
    ASSUME IInv, NEW due \in SUBSET Feeds, NEW resolved \in BOOLEAN, Begin(due, resolved)
    PROVE  IInv'
<1> USE DEF IInv
<1>1. /\ pc = "idle" /\ pc' = "pass" /\ cache.exists /\ queued' = FALSE
      /\ UNCHANGED <<group, cache>>
  BY DEF Begin
<1>2. Typed'
  BY <1>1, BeginStep DEF Typed
<1>3. Versions'
  <2>1. /\ pass'.todo = due /\ due \subseteq cache.feeds
        /\ pass'.group.exists = cache.exists
        /\ pass'.group.uid = cache.uid /\ pass'.group.gen = cache.gen
        /\ pass'.group.feeds = cache.feeds /\ pass'.group.paused = cache.paused
        /\ DOMAIN pass'.group.status.feed = cache.feeds
    BY BeginStep
  <2>2. Lives(group) /\ Lives(cache) /\ NotAhead(cache) /\ SameSpec(cache, group)
    BY DEF Versions
  <2>3. Lives(pass'.group) /\ NotAhead(pass'.group)
    BY <2>1, <2>2 DEF Lives, NotAhead
  <2>4. SameSpec(pass'.group, group) /\ SameSpec(pass'.group, cache)
    BY <2>1, <2>2 DEF SameSpec, SameVersion
  <2> QED BY <1>1, <2>1, <2>2, <2>3, <2>4
             DEF Versions, Lives, NotAhead, SameSpec, SameVersion
<1>4. Current'
  BY <1>1, BeginStep DEF Current, SameVersion
<1>5. Unchanged'
  <2> SUFFICES ASSUME ~pass'.stale, group.exists, SameVersion(pass'.group, group)
               PROVE  EnsureFeedStatuses(group) = pass'.group.status.feed
    BY <1>1 DEF Unchanged, SameVersion, EnsureFeedStatuses
  <2>1. cache.status = group.status
    BY BeginStep
  <2>2. cache.feeds = group.feeds
    BY BeginStep DEF Versions, SameSpec, SameVersion
  <2>3. EnsureFeedStatuses(group) = EnsureFeedStatuses(cache)
    BY <2>1, <2>2 DEF EnsureFeedStatuses
  <2> QED BY <2>3, BeginStep
<1> QED BY <1>1, <1>2, <1>3, <1>4, <1>5 DEF AllTold

\* A feed that is folded in: the pass is touched, or its statuses are as before.
LEMMA FoldKeeps ==
    ASSUME IInv, Folding, NEW fails \in BOOLEAN, NEW counted \in BOOLEAN,
           NEW todo \in SUBSET Feeds, todo \subseteq pass.todo,
           NEW touched \in BOOLEAN, NEW panicked \in BOOLEAN,
           ~touched => /\ touched = pass.touched
                       /\ [pass.group.status.feed EXCEPT ![NextFeed] = fails]
                            = pass.group.status.feed,
           pass' = Folded(todo, panicked, touched, fails),
           series' = CountedIn(series, counted),
           UNCHANGED <<group, cache, queued, pc, hist>>
    PROVE  IInv'
<1> USE DEF IInv
<1>1. pc = "pass" /\ pc' = pc
  BY DEF Folding
<1>6. /\ pass' \in PassType /\ series' \in SeriesType
      /\ pass'.todo = todo /\ pass'.touched = touched /\ pass'.stale = pass.stale
      /\ pass'.group.exists = pass.group.exists
      /\ pass'.group.uid = pass.group.uid /\ pass'.group.gen = pass.group.gen
      /\ pass'.group.feeds = pass.group.feeds /\ pass'.group.paused = pass.group.paused
      /\ pass'.group.status.feed = [pass.group.status.feed EXCEPT ![NextFeed] = fails]
      /\ DOMAIN pass'.group.status.feed = DOMAIN pass.group.status.feed
  <2>1. Typed /\ Versions
    OBVIOUS
  <2> QED BY <2>1, FoldStep, Zenon
<1>2. Typed'
  BY <1>6 DEF Typed
<1>3. Versions'
  <2>1. Lives(pass'.group) /\ pass'.group.exists /\ NotAhead(pass'.group)
    BY <1>6, <1>1 DEF Versions, Lives, NotAhead
  <2>2. SameSpec(pass'.group, group) /\ SameSpec(pass'.group, cache)
    BY <1>6, <1>1 DEF Versions, SameSpec, SameVersion
  <2>3. /\ DOMAIN pass'.group.status.feed = pass'.group.feeds
        /\ pass'.todo \subseteq pass'.group.feeds
    BY <1>6, <1>1 DEF Versions
  <2>4. Lives(group) /\ Lives(cache) /\ NotAhead(cache) /\ SameSpec(cache, group)
    BY DEF Versions
  <2> QED BY <2>1, <2>2, <2>3, <2>4 DEF Versions, Lives, NotAhead, SameSpec, SameVersion
<1>4. Current'
  BY <1>6, <1>1 DEF Current, SameVersion
<1>5. Unchanged'
  <2> SUFFICES ASSUME ~touched, ~pass'.stale, group.exists, SameVersion(pass'.group, group)
               PROVE  EnsureFeedStatuses(group) = pass'.group.status.feed
    BY <1>6, <1>1 DEF Unchanged, SameVersion, EnsureFeedStatuses
  <2>1. EnsureFeedStatuses(group) = pass.group.status.feed
    BY <1>6, <1>1 DEF Unchanged, SameVersion
  <2> QED BY <1>6, <2>1
<1> QED BY <1>1, <1>2, <1>3, <1>4, <1>5 DEF AllTold

LEMMA CheckKeeps ==
    ASSUME IInv, NEW outcome \in Outcomes, Check(outcome)
    PROVE  IInv'
<1>1. PICK todo \in SUBSET Feeds :
        /\ todo \subseteq pass.todo
        /\ pass' = Folded(todo, pass.panicked, TRUE, outcome.failing)
        /\ series' = CountedIn(series, outcome.counted)
  BY CheckIsFold DEF IInv
<1>2. outcome.failing \in BOOLEAN /\ outcome.counted \in BOOLEAN /\ pass.panicked \in BOOLEAN
  BY OutcomeType DEF IInv, Typed, PassType
<1>3. Folding /\ UNCHANGED <<group, cache, queued, pc, hist>>
  BY DEF Check
<1>4. TRUE \in BOOLEAN
  OBVIOUS
<1> QED BY <1>1, <1>2, <1>3, <1>4, FoldKeeps

LEMMA PanicKeeps ==
    ASSUME IInv, NEW handled \in BOOLEAN, Panics(handled)
    PROVE  IInv'
<1> DEFINE feed == pass.group.status.feed
           fails == handled \/ feed[NextFeed]
           touched == pass.touched \/ handled
<1>1. Folding /\ UNCHANGED <<group, cache, queued, pc, hist>>
      /\ series' = CountedIn(series, handled)
  BY DEF Panics
<1>2. pass' = Folded({}, TRUE, touched, fails)
  BY PanicIsFold DEF IInv
<1>3. touched \in BOOLEAN /\ fails \in BOOLEAN /\ {} \subseteq pass.todo /\ {} \in SUBSET Feeds
  BY DEF IInv, Typed, PassType
<1>4. ~handled => touched = pass.touched /\ [feed EXCEPT ![NextFeed] = fails] = feed
  <2>1. PICK S \in SUBSET Feeds : feed \in [S -> BOOLEAN]
    BY DEF IInv, Typed, PassType, GroupType, StatusType, StatusMaps
  <2>2. pass.touched \in BOOLEAN
    BY DEF IInv, Typed, PassType
  <2>3. ~handled /\ NextFeed \in S => fails = feed[NextFeed]
    BY <2>1
  <2> HIDE DEF feed, fails
  <2> QED BY <2>1, <2>2, <2>3
<1>5. handled => touched
  OBVIOUS
<1> HIDE DEF fails, touched, feed
<1>6. ~touched => touched = pass.touched /\ [feed EXCEPT ![NextFeed] = fails] = feed
  BY <1>4, <1>5
<1> QED BY <1>1, <1>2, <1>3, <1>6, FoldKeeps DEF feed

\* A pass that ended leaves the versions as they were.
LEMMA EndedVersions ==
    ASSUME Versions, pc' = "idle", cache' = cache,
           group'.exists = group.exists, group'.uid = group.uid, group'.gen = group.gen,
           group'.feeds = group.feeds, group'.paused = group.paused
    PROVE  Versions'
  BY DEF Versions, Lives, NotAhead, SameSpec, SameVersion

\* Nothing was queued behind the pass, and the cache is up to date: the pass was
\* over the spec the group has.
LEMMA PassOfGroup ==
    ASSUME IInv, pc = "pass", ~queued, group.exists, SameVersion(cache, group)
    PROVE  /\ SameVersion(pass.group, group)
           /\ DOMAIN pass.group.status.feed = group.feeds
           /\ pass.group.paused = group.paused /\ pass.group.feeds = group.feeds
<1>1. SameVersion(pass.group, cache)
  BY DEF IInv, Current
<1>2. SameVersion(pass.group, group)
  BY <1>1 DEF SameVersion
<1>3. SameSpec(pass.group, group) /\ DOMAIN pass.group.status.feed = pass.group.feeds
  BY DEF IInv, Versions
<1> QED BY <1>2, <1>3 DEF SameSpec

\* The gauges tell the statuses the pass ended with.
LEMMA ToldByPass ==
    ASSUME IInv, NEW failed \in BOOLEAN, EndPass(failed), ~queued, group.exists,
           SameVersion(cache, group), group'.feeds = group.feeds,
           group'.paused = group.paused,
           EnsureFeedStatuses(group') = pass.group.status.feed
    PROVE  Told'
<1>1. /\ DOMAIN pass.group.status.feed = group.feeds
      /\ pass.group.paused = group.paused
  BY EndPassStep, PassOfGroup DEF IInv
<1>2. /\ series'.gauges
           = (series.gauges \ group.feeds) \union (group.feeds \ group.paused)
      /\ \A f \in group.feeds \ group.paused :
           f \in series'.healthy <=> ~pass.group.status.feed[f]
  BY <1>1, EndPassStep DEF IInv
<1>3. EnsureFeedStatuses(group)' = pass.group.status.feed
  BY DEF EnsureFeedStatuses
<1> QED BY <1>2, <1>3 DEF Told

LEMMA SettlesUnchangedKeeps ==
    ASSUME IInv, SettlesUnchanged
    PROVE  IInv'
<1>1. /\ ~Changed /\ EndPass(FALSE) /\ UNCHANGED group
      /\ hist' = [hist EXCEPT !.skipped = pass.stale]
  BY DEF SettlesUnchanged
<1>2. /\ pc = "pass" /\ pc' = "idle" /\ cache' = cache
      /\ queued' = (queued \/ pass.panicked)
      /\ pass' \in PassType /\ series' \in SeriesType /\ queued' \in BOOLEAN
  BY <1>1, EndPassStep DEF IInv
<1>3. hist' \in HistType /\ hist'.skipped = pass.stale
  BY <1>1 DEF IInv, Typed, HistType, PassType
<1>4. Typed'
  BY <1>1, <1>2, <1>3 DEF IInv, Typed
<1>5. Versions'
  BY <1>1, <1>2, EndedVersions DEF IInv
<1>6. AllTold'
  <2> SUFFICES ASSUME ~queued', ~hist'.skipped, group.exists, SameVersion(cache, group)
               PROVE  Told'
    BY <1>1, <1>2 DEF AllTold, SameVersion
  <2>1. ~queued /\ ~pass.stale /\ ~pass.touched
    BY <1>1, <1>2, <1>3 DEF Changed
  <2>2. EnsureFeedStatuses(group) = pass.group.status.feed
    BY <1>2, <2>1, PassOfGroup DEF IInv, Unchanged
  <2>3. EnsureFeedStatuses(group') = pass.group.status.feed
    BY <1>1, <2>2
  <2>4. FALSE \in BOOLEAN
    OBVIOUS
  <2> QED BY <1>1, <2>1, <2>3, <2>4, ToldByPass
<1> QED BY <1>2, <1>4, <1>5, <1>6 DEF IInv, Current, Unchanged

LEMMA WritesKeeps ==
    ASSUME IInv, Writes
    PROVE  IInv'
<1>1. /\ group.exists /\ EndPass(FALSE)
      /\ group' = [group EXCEPT !.status = Settled.status]
      /\ hist' = [hist EXCEPT !.skipped = FALSE]
  BY DEF Writes
<1>2. /\ pc = "pass" /\ pc' = "idle" /\ cache' = cache
      /\ queued' = (queued \/ pass.panicked)
      /\ pass' \in PassType /\ series' \in SeriesType /\ queued' \in BOOLEAN
  BY <1>1, EndPassStep DEF IInv
<1>3. /\ Settled.status \in StatusType /\ Settled.status.feed = pass.group.status.feed
  BY SettledType DEF IInv, GroupType
<1>4. /\ group' \in GroupType /\ group'.status = Settled.status
      /\ group'.exists = group.exists /\ group'.uid = group.uid /\ group'.gen = group.gen
      /\ group'.feeds = group.feeds /\ group'.paused = group.paused
  BY <1>1, <1>3 DEF IInv, Typed, GroupType
<1>5. hist' \in HistType
  BY <1>1 DEF IInv, Typed, HistType
<1>6. Typed'
  BY <1>2, <1>4, <1>5 DEF IInv, Typed
<1>7. Versions'
  BY <1>2, <1>4, EndedVersions DEF IInv
<1>8. AllTold'
  <2> SUFFICES ASSUME ~queued', SameVersion(cache, group)
               PROVE  Told'
    BY <1>2, <1>4 DEF AllTold, SameVersion
  <2>1. ~queued
    BY <1>2
  <2>2. DOMAIN pass.group.status.feed = group.feeds
    BY <1>1, <1>2, <2>1, PassOfGroup
  <2>3. EnsureFeedStatuses(group') = [f \in group.feeds |-> pass.group.status.feed[f]]
    BY <1>3, <1>4, <2>2 DEF EnsureFeedStatuses
  <2>4. pass.group.status.feed = [f \in group.feeds |-> pass.group.status.feed[f]]
    <3>1. pass.group.status.feed \in StatusMaps
      BY DEF IInv, Typed, PassType, GroupType, StatusType
    <3> QED BY <2>2, <3>1 DEF StatusMaps
  <2>5. FALSE \in BOOLEAN
    OBVIOUS
  <2> QED BY <1>1, <1>4, <2>1, <2>3, <2>4, <2>5, ToldByPass
<1> QED BY <1>2, <1>6, <1>7, <1>8 DEF IInv, Current, Unchanged

LEMMA FailsToWriteKeeps ==
    ASSUME IInv, FailsToWrite
    PROVE  IInv'
<1>1. EndPass(TRUE) /\ UNCHANGED group /\ hist' = [hist EXCEPT !.writeLost = TRUE]
  BY DEF FailsToWrite
<1>2. /\ pc' = "idle" /\ cache' = cache /\ queued'
      /\ pass' \in PassType /\ series' \in SeriesType /\ queued' \in BOOLEAN
  <2>1. TRUE \in BOOLEAN
    OBVIOUS
  <2> QED BY <1>1, <2>1, EndPassStep DEF IInv
<1>3. hist' \in HistType
  BY <1>1 DEF IInv, Typed, HistType
<1>4. Typed'
  BY <1>1, <1>2, <1>3 DEF IInv, Typed
<1>5. Versions'
  BY <1>1, <1>2, EndedVersions DEF IInv
<1> QED BY <1>2, <1>4, <1>5 DEF IInv, Current, AllTold, Unchanged

LEMMA GaugesStep == IInv /\ [Next]_vars => IInv'
<1> SUFFICES ASSUME IInv, [Next]_vars PROVE IInv'
  OBVIOUS
<1>1. CASE Owner
  BY <1>1, OwnerStep
<1>2. CASE CacheSyncs
  BY <1>2, CacheStep
<1>3. CASE Wakes
  BY <1>3, WakesStep
<1>4. CASE Restart
  BY <1>4, RestartStep
<1>5. CASE Reconcile
  <2>1. ASSUME NEW due \in SUBSET Feeds, NEW resolved \in BOOLEAN, Begin(due, resolved)
        PROVE  IInv'
    BY <2>1, BeginKeeps
  <2>2. ASSUME NEW outcome \in Outcomes, Check(outcome) PROVE IInv'
    BY <2>2, CheckKeeps
  <2>3. ASSUME NEW handled \in BOOLEAN, Panics(handled) PROVE IInv'
    BY <2>3, PanicKeeps
  <2> QED BY <1>5, <2>1, <2>2, <2>3, ForgetsStep, SettlesUnchangedKeeps, WritesKeeps,
             FailsToWriteKeeps DEF Reconcile
<1>6. CASE UNCHANGED vars
  BY <1>6 DEF vars, IInv, Typed, Versions, Lives, NotAhead, SameSpec, SameVersion, Current,
              AllTold, Told, Unchanged, EnsureFeedStatuses
<1> QED BY <1>1, <1>2, <1>3, <1>4, <1>5, <1>6 DEF Next

LEMMA GaugesInvariance == Spec => []IInv
  BY GaugesInit, GaugesStep, PTL DEF Spec

\* Between reconciles the gauges tell what the status in the API says, whatever
\* was lost, restarted or written into a group of the same name (syncFeedState,
\* metrics.go, as settle calls it).
THEOREM GaugesCorrect == Spec => []GaugesTellStatus
<1>1. IInv => GaugesTellStatus
  <2> SUFFICES ASSUME IInv, Quiet, ~hist.skipped
               PROVE  /\ series.gauges \intersect group.feeds = group.feeds \ group.paused
                      /\ \A f \in group.feeds \ group.paused :
                           f \in series.healthy <=> ~EnsureFeedStatuses(group)[f]
    BY DEF GaugesTellStatus
  <2>1. CASE group.exists
    BY <2>1 DEF IInv, AllTold, Told, Quiet, SameVersion
  <2>2. CASE ~group.exists
    BY <2>2 DEF IInv, Versions, Lives
  <2> QED BY <2>1, <2>2
<1> QED BY <1>1, GaugesInvariance, PTL

-----------------------------------------------------------------------------
(* So is the invariant of the series. *)

LEMMA SeriesInit == Init => SInv
<1> SUFFICES ASSUME Init PROVE SInv
  OBVIOUS
<1>1. PICK feeds \in SUBSET Feeds : group = NewGroup(1, feeds)
  BY DEF Init
<1>2. group.exists /\ group.gen = 1 /\ group.uid = 1 /\ group.status.conditions = 0
  BY <1>1, NewGroupType DEF NewStatus
<1>3. /\ cache = group /\ queued = TRUE /\ pc = "idle" /\ series = NoSeries
  BY DEF Init
<1>4. FeedsWithSeries = {}
  BY <1>3 DEF FeedsWithSeries, NoSeries
<1>5. Listed
  BY <1>2, <1>3 DEF Listed, ListsItsFeeds
<1>6. Owned
  BY <1>2, <1>3, <1>4 DEF Owned, Found
<1> QED BY <1>5, <1>6, GaugesInit DEF SInv

\* The owner: an edit leaves the statuses, and a group made again is not Original.
LEMMA OwnerOwns ==
    ASSUME SInv, Owner
    PROVE  (Listed /\ Owned)'
<1> USE DEF SInv
<1>0. group.gen \in Nat /\ group.status.conditions \in Nat /\ IInv
  BY DEF IInv, Typed, GroupType, StatusType
<1>1. ASSUME NEW feeds \in SUBSET Feeds, NEW paused \in SUBSET feeds, Edit(feeds, paused)
      PROVE  (Listed /\ Owned)'
  <2>1. /\ group' = [group EXCEPT !.gen = @ + 1, !.feeds = feeds, !.paused = paused]
        /\ group.exists /\ UNCHANGED <<cache, queued, pc, pass, series, hist>>
    BY <1>1 DEF Edit
  <2>2. /\ group'.uid = group.uid /\ group'.gen = group.gen + 1
        /\ group'.exists = group.exists /\ group'.status = group.status
    BY <2>1 DEF IInv, Typed, GroupType
  <2>3. Listed'
    BY <1>0, <2>1, <2>2 DEF Listed, Original, ListsItsFeeds
  <2>4. ~SameVersion(cache, group)'
    BY <1>0, <2>1, <2>2 DEF IInv, Versions, NotAhead, Lives, SameVersion, Typed, GroupType
  <2> QED BY <2>1, <2>2, <2>3, <2>4 DEF Owned, Original, Found, FeedsWithSeries
<1>2. CASE Delete
  <2>1. ~group'.exists /\ UNCHANGED <<cache, queued, pc, pass, series, hist>>
    BY <1>2 DEF Delete, NoGroup
  <2> QED BY <2>1 DEF Listed, Owned, Original, FeedsWithSeries
<1>3. ASSUME NEW feeds \in SUBSET Feeds, Recreate(feeds) PROVE (Listed /\ Owned)'
  <2>1. UNCHANGED <<cache, queued, pc, pass, series>>
    BY <1>3 DEF Recreate
  <2>2. hist'.recreated /\ hist'.staleRead = hist.staleRead
    BY <1>0, <1>3 DEF Recreate, IInv, Typed, HistType
  <2> QED BY <2>1, <2>2 DEF Listed, Owned, Original, FeedsWithSeries
<1> QED BY <1>1, <1>2, <1>3 DEF Owner

LEMMA CacheOwns ==
    ASSUME SInv, CacheSyncs
    PROVE  (Listed /\ Owned)'
<1> USE DEF SInv
<1>1. /\ cache' = group /\ UNCHANGED <<group, pc, pass, series, hist>>
      /\ queued' = (queued \/ <<cache.uid, cache.gen>> # <<group.uid, group.gen>>)
  BY DEF CacheSyncs
<1>2. ~queued' => ~queued /\ SameVersion(cache, group)
  BY <1>1 DEF SameVersion
<1>3. Listed'
  BY <1>1 DEF Listed, Original, ListsItsFeeds
<1>4. SameVersion(cache, group) /\ ~group.exists => ~cache.exists
  BY DEF IInv, Versions, Lives, SameVersion
<1> QED BY <1>1, <1>2, <1>3, <1>4 DEF Owned, Original, Found, FeedsWithSeries

LEMMA WakesOwns ==
    ASSUME SInv, Wakes
    PROVE  (Listed /\ Owned)'
  BY DEF Wakes, SInv, Listed, Owned, Original, ListsItsFeeds, Found, FeedsWithSeries

\* A new process has no series.
LEMMA RestartOwns ==
    ASSUME SInv, Restart
    PROVE  (Listed /\ Owned)'
<1> USE DEF SInv
<1>1. /\ cache' = group /\ pc' = "idle" /\ series' = NoSeries
      /\ hist' = Forgotten /\ group' = group
  BY DEF Restart
<1>2. hist'.recreated = hist.recreated
  BY <1>1, ForgottenType DEF IInv, Typed
<1>3. FeedsWithSeries' = {}
  BY <1>1 DEF FeedsWithSeries, NoSeries
<1>4. Listed'
  BY <1>1, <1>2 DEF Listed, Original, ListsItsFeeds
<1> QED BY <1>1, <1>3, <1>4 DEF Owned, Found

LEMMA ForgetsOwns ==
    ASSUME SInv, Forgets
    PROVE  (Listed /\ Owned)'
<1> USE DEF SInv
<1>1. /\ pc = "idle" /\ series' = NoSeries /\ hist' = Forgotten
      /\ UNCHANGED <<group, cache, pc, pass>>
  BY DEF Forgets
<1>2. hist'.recreated = hist.recreated
  BY <1>1, ForgottenType DEF IInv, Typed
<1>3. FeedsWithSeries' = {}
  BY <1>1 DEF FeedsWithSeries, NoSeries
<1>4. Listed'
  BY <1>1, <1>2 DEF Listed, Original, ListsItsFeeds
<1> QED BY <1>1, <1>3, <1>4 DEF Owned, Found

\* A reconcile forgets the feeds its copy's spec no longer has.
LEMMA BeginOwns ==
    ASSUME SInv, NEW due \in SUBSET Feeds, NEW resolved \in BOOLEAN, Begin(due, resolved)
    PROVE  (Listed /\ Owned)'
<1> USE DEF SInv
<1>1. pc = "idle" /\ pc' = "pass" /\ UNCHANGED <<group, cache>>
  BY DEF Begin
<1>2. /\ pass'.stale = (<<cache.uid, cache.status>> # <<group.uid, group.status>>)
      /\ pass'.group.uid = cache.uid /\ pass'.group.gen = cache.gen
      /\ pass'.group.feeds = cache.feeds
      /\ pass'.group.status.conditions = cache.status.conditions
      /\ series'.operations = series.operations \ Pruned(cache)
      /\ series'.gauges = series.gauges \ Pruned(cache)
      /\ hist'.writeLost = hist.writeLost /\ hist'.recreated = hist.recreated
      /\ hist'.staleRead = (hist.staleRead \/ pass'.stale)
  BY BeginStep DEF IInv
<1>3. Listed'
  BY <1>1, <1>2 DEF Listed, Original, ListsItsFeeds
<1>4. ASSUME Original', ~hist'.writeLost, ~hist'.staleRead
      PROVE  Found'
  <2>1. Original /\ ~hist.writeLost /\ ~hist.staleRead /\ cache.status = group.status
    BY <1>1, <1>2, <1>4 DEF Original
  <2>2. FeedsWithSeries \subseteq DOMAIN cache.status.feed
    BY <1>1, <2>1 DEF Owned, Found
  <2>3. FeedsWithSeries' \subseteq cache.feeds
    BY <1>2, <2>2 DEF FeedsWithSeries, Pruned
  <2>4. cache.status.conditions = cache.gen => DOMAIN group.status.feed = cache.feeds
    BY <2>1 DEF Listed, ListsItsFeeds
  <2> QED BY <1>1, <1>2, <2>3, <2>4 DEF Found
<1> QED BY <1>1, <1>2, <1>3, <1>4 DEF Owned

\* The feed that is folded in is one of the copy's.
LEMMA FoldOwns ==
    ASSUME SInv, Folding, NEW fails \in BOOLEAN, NEW counted \in BOOLEAN,
           NEW todo \in SUBSET Feeds, NEW touched \in BOOLEAN, NEW panicked \in BOOLEAN,
           pass' = Folded(todo, panicked, touched, fails),
           series' = CountedIn(series, counted),
           UNCHANGED <<group, cache, queued, pc, hist>>
    PROVE  (Listed /\ Owned)'
<1> USE DEF SInv
<1>1. pc = "pass" /\ pc' = pc
  BY DEF Folding
<1>2. /\ pass'.stale = pass.stale
      /\ pass'.group.uid = pass.group.uid /\ pass'.group.gen = pass.group.gen
      /\ pass'.group.feeds = pass.group.feeds
      /\ pass'.group.status.conditions = pass.group.status.conditions
      /\ series'.operations \subseteq series.operations \union {NextFeed}
      /\ series'.gauges = series.gauges
      /\ NextFeed \in pass.todo
  <2>1. Typed /\ Versions
    BY DEF IInv
  <2> QED BY <2>1, FoldStep, Zenon
<1>3. NextFeed \in pass.group.feeds
  BY <1>1, <1>2 DEF IInv, Versions
<1>4. Listed'
  BY <1>1, <1>2 DEF Listed, Original, ListsItsFeeds
<1>5. FeedsWithSeries \subseteq pass.group.feeds => FeedsWithSeries' \subseteq pass.group.feeds
  BY <1>2, <1>3 DEF FeedsWithSeries
<1> QED BY <1>1, <1>2, <1>4, <1>5 DEF Owned, Original, Found

LEMMA CheckOwns ==
    ASSUME SInv, NEW outcome \in Outcomes, Check(outcome)
    PROVE  (Listed /\ Owned)'
<1>1. PICK todo \in SUBSET Feeds :
        /\ pass' = Folded(todo, pass.panicked, TRUE, outcome.failing)
        /\ series' = CountedIn(series, outcome.counted)
  BY CheckIsFold DEF SInv, IInv
<1>2. outcome.failing \in BOOLEAN /\ outcome.counted \in BOOLEAN /\ pass.panicked \in BOOLEAN
  BY OutcomeType DEF SInv, IInv, Typed, PassType
<1>3. Folding /\ UNCHANGED <<group, cache, queued, pc, hist>>
  BY DEF Check
<1>4. TRUE \in BOOLEAN
  OBVIOUS
<1> QED BY <1>1, <1>2, <1>3, <1>4, FoldOwns

LEMMA PanicOwns ==
    ASSUME SInv, NEW handled \in BOOLEAN, Panics(handled)
    PROVE  (Listed /\ Owned)'
<1> DEFINE fails == handled \/ pass.group.status.feed[NextFeed]
           touched == pass.touched \/ handled
<1>1. Folding /\ UNCHANGED <<group, cache, queued, pc, hist>>
      /\ series' = CountedIn(series, handled)
  BY DEF Panics
<1>2. pass' = Folded({}, TRUE, touched, fails)
  BY PanicIsFold DEF SInv, IInv
<1>3. touched \in BOOLEAN /\ fails \in BOOLEAN /\ {} \in SUBSET Feeds /\ TRUE \in BOOLEAN
  BY DEF SInv, IInv, Typed, PassType
<1> HIDE DEF fails, touched
<1> QED BY <1>1, <1>2, <1>3, FoldOwns

\* What a pass leaves in the registry is of the feeds of its copy, and if nothing
\* was queued behind it those are the feeds of the cache.
LEMMA EndedSeries ==
    ASSUME SInv, NEW failed \in BOOLEAN, EndPass(failed)
    PROVE  /\ DOMAIN pass.group.status.feed = pass.group.feeds
           /\ FeedsWithSeries \subseteq pass.group.feeds
                => FeedsWithSeries' \subseteq pass.group.feeds
           /\ ~queued' => SameVersion(pass.group, cache) /\ cache.exists
<1> USE DEF SInv
<1>1. /\ pc = "pass" /\ (~queued' => ~queued)
      /\ LET listed == DOMAIN pass.group.status.feed
         IN  /\ series'.operations = series.operations
             /\ series'.gauges
                  = (series.gauges \ listed) \union (listed \ pass.group.paused)
  BY EndPassStep DEF IInv
<1>2. DOMAIN pass.group.status.feed = pass.group.feeds
  BY <1>1 DEF IInv, Versions
<1>3. ~queued' => SameVersion(pass.group, cache) /\ cache.exists
  BY <1>1 DEF IInv, Versions, Current, Lives, SameVersion
<1> QED BY <1>1, <1>2, <1>3 DEF FeedsWithSeries

LEMMA SettlesUnchangedOwns ==
    ASSUME SInv, SettlesUnchanged
    PROVE  (Listed /\ Owned)'
<1> USE DEF SInv
<1>1. /\ ~Changed /\ EndPass(FALSE) /\ UNCHANGED <<group, cache>>
      /\ hist' = [hist EXCEPT !.skipped = pass.stale] /\ FALSE \in BOOLEAN
  BY DEF SettlesUnchanged, EndPass
<1>2. /\ hist'.recreated = hist.recreated /\ hist'.writeLost = hist.writeLost
      /\ hist'.staleRead = hist.staleRead
  BY <1>1 DEF IInv, Typed, HistType
<1>3. pc = "pass" /\ pc' = "idle"
  BY <1>1 DEF EndPass
<1>4. Listed'
  BY <1>1, <1>2, <1>3 DEF Listed, Original, ListsItsFeeds
<1>5. pass.group.status.conditions = pass.group.gen
  BY <1>1, SettledType DEF Changed, IInv
<1>6. ASSUME Original', ~hist'.writeLost, ~hist'.staleRead
      PROVE  Found'
  <2>1. Original /\ ~hist.writeLost /\ ~hist.staleRead
    BY <1>1, <1>2, <1>6 DEF Original
  <2>2. FeedsWithSeries' \subseteq pass.group.feeds
    BY <1>1, <1>3, <2>1, EndedSeries DEF Owned, Found
  <2>3. DOMAIN group.status.feed = pass.group.feeds
    BY <1>3, <1>5, <2>1 DEF Owned, Found
  <2>4. ASSUME ~queued', SameVersion(cache, group)
        PROVE  pass.group.feeds = group.feeds
    <3>1. SameVersion(pass.group, cache)
      BY <1>1, <2>4, EndedSeries
    <3> QED BY <1>3, <2>1, <2>4, <3>1 DEF IInv, Versions, SameSpec, SameVersion, Original
  <2> QED BY <1>1, <1>3, <2>2, <2>3, <2>4 DEF Found, SameVersion
<1>7. queued' \/ cache'.exists
  BY <1>1, EndedSeries
<1> QED BY <1>3, <1>4, <1>6, <1>7 DEF Owned

LEMMA WritesOwns ==
    ASSUME SInv, Writes
    PROVE  (Listed /\ Owned)'
<1> USE DEF SInv
<1>1. /\ group.exists /\ EndPass(FALSE) /\ UNCHANGED cache
      /\ group' = [group EXCEPT !.status = Settled.status]
      /\ hist' = [hist EXCEPT !.skipped = FALSE] /\ FALSE \in BOOLEAN
  BY DEF Writes, EndPass
<1>2. /\ hist'.recreated = hist.recreated /\ hist'.writeLost = hist.writeLost
      /\ hist'.staleRead = hist.staleRead
  BY <1>1 DEF IInv, Typed, HistType
<1>3. pc = "pass" /\ pc' = "idle"
  BY <1>1 DEF EndPass
<1>4. /\ group'.status.feed = pass.group.status.feed
      /\ group'.status.conditions = pass.group.gen
      /\ group'.exists = group.exists /\ group'.uid = group.uid /\ group'.gen = group.gen
      /\ group'.feeds = group.feeds
  <2>1. /\ Settled.status.feed = pass.group.status.feed
        /\ Settled.status.conditions = pass.group.gen
    BY SettledType DEF IInv
  <2> QED BY <1>1, <2>1 DEF IInv, Typed, GroupType
<1>5. DOMAIN group'.status.feed = pass.group.feeds
  BY <1>1, <1>4, EndedSeries
<1>6. pass.group.uid = group.uid /\ pass.group.gen = group.gen
        => pass.group.feeds = group.feeds
  BY <1>1, <1>3 DEF IInv, Versions, SameSpec, SameVersion
<1>7. Listed'
  <2> SUFFICES ASSUME Original'
               PROVE  /\ cache.exists /\ cache.uid = group.uid
                      /\ pass.group.gen <= group.gen
                      /\ ListsItsFeeds(group)' /\ ListsItsFeeds(cache)
    BY <1>1, <1>3, <1>4 DEF Listed, ListsItsFeeds
  <2>1. Original
    BY <1>2, <1>4 DEF Original
  <2>2. /\ cache.exists /\ cache.uid = group.uid /\ pass.group.uid = group.uid
        /\ ListsItsFeeds(cache)
    BY <1>3, <2>1 DEF Listed
  <2>3. pass.group.gen <= group.gen
    BY <1>1, <1>3, <2>2 DEF IInv, Versions, NotAhead
  <2>4. ListsItsFeeds(group)'
    BY <1>4, <1>5, <1>6, <2>2 DEF ListsItsFeeds
  <2> QED BY <2>2, <2>3, <2>4
<1>8. ASSUME Original', ~hist'.writeLost, ~hist'.staleRead
      PROVE  Found'
  <2>1. Original /\ ~hist.writeLost /\ ~hist.staleRead
    BY <1>2, <1>4, <1>8 DEF Original
  <2>2. FeedsWithSeries' \subseteq pass.group.feeds
    BY <1>1, <1>3, <2>1, EndedSeries DEF Owned, Found
  <2>3. ASSUME ~queued', SameVersion(cache, group)'
        PROVE  pass.group.feeds = group.feeds
    <3>1. SameVersion(pass.group, cache)
      BY <1>1, <2>3, EndedSeries
    <3>2. cache.uid = group.uid /\ cache.gen = group.gen
      BY <1>1, <1>4, <2>3 DEF SameVersion
    <3> QED BY <1>6, <3>1, <3>2 DEF SameVersion
  <2> QED BY <1>3, <1>4, <1>5, <2>2, <2>3 DEF Found
<1>9. queued' \/ cache'.exists
  BY <1>1, EndedSeries
<1> QED BY <1>3, <1>7, <1>8, <1>9 DEF Owned

LEMMA FailsToWriteOwns ==
    ASSUME SInv, FailsToWrite
    PROVE  (Listed /\ Owned)'
<1> USE DEF SInv
<1>1. /\ EndPass(TRUE) /\ UNCHANGED <<group, cache>>
      /\ hist' = [hist EXCEPT !.writeLost = TRUE]
  BY DEF FailsToWrite, EndPass
<1>2. pc' = "idle" /\ queued'
  BY <1>1 DEF EndPass
<1>3. hist'.recreated = hist.recreated /\ hist'.writeLost
  BY <1>1 DEF IInv, Typed, HistType
<1>4. Listed'
  BY <1>1, <1>2, <1>3 DEF Listed, Original, ListsItsFeeds
<1> QED BY <1>2, <1>3, <1>4 DEF Owned

LEMMA SeriesStep == SInv /\ [Next]_vars => SInv'
<1> SUFFICES ASSUME SInv, [Next]_vars PROVE (Listed /\ Owned)'
  BY GaugesStep DEF SInv
<1>1. CASE Owner
  BY <1>1, OwnerOwns
<1>2. CASE CacheSyncs
  BY <1>2, CacheOwns
<1>3. CASE Wakes
  BY <1>3, WakesOwns
<1>4. CASE Restart
  BY <1>4, RestartOwns
<1>5. CASE Reconcile
  <2>1. ASSUME NEW due \in SUBSET Feeds, NEW resolved \in BOOLEAN, Begin(due, resolved)
        PROVE  (Listed /\ Owned)'
    BY <2>1, BeginOwns
  <2>2. ASSUME NEW outcome \in Outcomes, Check(outcome) PROVE (Listed /\ Owned)'
    BY <2>2, CheckOwns
  <2>3. ASSUME NEW handled \in BOOLEAN, Panics(handled) PROVE (Listed /\ Owned)'
    BY <2>3, PanicOwns
  <2> QED BY <1>5, <2>1, <2>2, <2>3, ForgetsOwns, SettlesUnchangedOwns, WritesOwns,
             FailsToWriteOwns DEF Reconcile
<1>6. CASE UNCHANGED vars
  BY <1>6 DEF vars, SInv, Listed, Owned, Original, ListsItsFeeds, Found, FeedsWithSeries,
              SameVersion
<1> QED BY <1>1, <1>2, <1>3, <1>4, <1>5, <1>6 DEF Next

LEMMA SeriesInvariance == Spec => []SInv
  BY SeriesInit, SeriesStep, PTL DEF Spec

\* A feed dropped from the spec leaves no series behind (forgetFeed), for any
\* feeds and any number of edits, as long as its status was written and read back
\* and the group is still the one it was in.
THEOREM SeriesCorrect == Spec => []SeriesAreOfSpec
<1>1. SInv => SeriesAreOfSpec
  <2> SUFFICES ASSUME SInv, Quiet, hist = HistInit
               PROVE  FeedsWithSeries \subseteq group.feeds
    BY DEF SeriesAreOfSpec
  <2>1. ~hist.writeLost /\ ~hist.staleRead /\ ~hist.recreated
    BY DEF HistInit
  <2>2. CASE group.exists
    BY <2>1, <2>2 DEF SInv, Owned, Original, Found, Quiet, SameVersion
  <2>3. CASE ~group.exists
    BY <2>3 DEF SInv, Owned, Quiet
  <2> QED BY <2>2, <2>3
<1> QED BY <1>1, SeriesInvariance, PTL

-----------------------------------------------------------------------------
(* The bounds: generations count edits, and UIDs the deletions between them. *)

Within(g) ==
    /\ g.uid <= group.uid /\ g.gen <= bounds.edits + 1
    /\ g.status.observed <= bounds.edits + 1 /\ g.status.conditions <= bounds.edits + 1
    /\ g.paused \subseteq g.feeds

Counted ==
    /\ bounds \in [edits : 0..MaxEdits, troubles : 0..MaxTroubles]
    /\ group.uid <= bounds.troubles + 1 /\ (~group.exists => group.uid <= bounds.troubles)

Bounded ==
    /\ Counted
    /\ Within(group) /\ Within(cache) /\ Within(pass.group)
    /\ pass.todo \subseteq pass.group.feeds \ pass.group.paused
    /\ series.healthy \subseteq series.gauges

TInv == IInv /\ Bounded

LEMMA BoundsAreNat == MaxEdits \in Nat /\ MaxTroubles \in Nat
  BY LifecycleAssumption

LEMMA GroupNumbers ==
    ASSUME NEW g \in GroupType
    PROVE  /\ g.uid \in Nat /\ g.gen \in Nat
           /\ g.status.observed \in Nat /\ g.status.conditions \in Nat
  BY DEF GroupType, StatusType

\* One more of the counted events.
LEMMA CountStep ==
    ASSUME Counted, NEW event \in {"edits", "troubles"}, Count(event),
           event = "edits" => bounds.edits < MaxEdits,
           event = "troubles" => bounds.troubles < MaxTroubles
    PROVE  /\ bounds' \in [edits : 0..MaxEdits, troubles : 0..MaxTroubles]
           /\ bounds.edits \in Nat /\ bounds.troubles \in Nat
           /\ bounds'.edits = IF event = "edits" THEN bounds.edits + 1 ELSE bounds.edits
           /\ bounds'.troubles
                = IF event = "troubles" THEN bounds.troubles + 1 ELSE bounds.troubles
<1>1. bounds \in [edits : 0..MaxEdits, troubles : 0..MaxTroubles]
  BY DEF Counted
<1>2. CASE event = "edits"
  BY <1>1, <1>2, BoundsAreNat DEF Count
<1>3. CASE event = "troubles"
  BY <1>1, <1>3, BoundsAreNat DEF Count
<1> QED BY <1>2, <1>3

\* A copy stays within the bounds as those grow.
LEMMA StaysWithin ==
    ASSUME NEW g \in GroupType, Within(g), group \in GroupType, group' \in GroupType,
           group.uid <= group'.uid,
           bounds.edits \in Nat, bounds'.edits \in Nat, bounds.edits <= bounds'.edits
    PROVE  /\ g.uid <= group'.uid /\ g.gen <= bounds'.edits + 1
           /\ g.status.observed <= bounds'.edits + 1
           /\ g.status.conditions <= bounds'.edits + 1
           /\ g.paused \subseteq g.feeds
<1>1. /\ g.uid \in Nat /\ g.gen \in Nat
      /\ g.status.observed \in Nat /\ g.status.conditions \in Nat
      /\ group.uid \in Nat /\ group'.uid \in Nat
  BY GroupNumbers
<1> QED BY <1>1 DEF Within

LEMMA NoGroupWithin ==
    ASSUME group \in GroupType, bounds.edits \in Nat
    PROVE  Within(NoGroup) /\ Within(NoPass.group) /\ NoPass.todo = {}
<1>1. group.uid \in Nat
  BY GroupNumbers
<1> QED BY <1>1 DEF Within, NoGroup, NewStatus, NoPass

LEMMA BoundsInit == Init => TInv
<1> SUFFICES ASSUME Init PROVE Bounded
  BY GaugesInit DEF TInv
<1>1. PICK feeds \in SUBSET Feeds : group = NewGroup(1, feeds)
  BY DEF Init
<1>2. /\ group.exists /\ group.gen = 1 /\ group.uid = 1
      /\ group.status.observed = 0 /\ group.status.conditions = 0
  BY <1>1, NewGroupType DEF NewStatus
<1>3. group.paused = {}
  BY <1>1 DEF NewGroup, NoGroup
<1>4. /\ cache = group /\ pass = NoPass /\ series = NoSeries
      /\ bounds = [edits |-> 0, troubles |-> 0]
  BY DEF Init
<1>5. Counted
  BY <1>2, <1>4, BoundsAreNat DEF Counted
<1>6. Within(group)
  BY <1>2, <1>3, <1>4 DEF Within
<1>7. Within(pass.group) /\ pass.todo = {}
  BY <1>4, TypedInit, NoGroupWithin DEF Typed
<1>8. series.healthy \subseteq series.gauges
  BY <1>4 DEF NoSeries
<1> QED BY <1>4, <1>5, <1>6, <1>7, <1>8 DEF Bounded

LEMMA OwnerBounds ==
    ASSUME TInv, IInv', Owner
    PROVE  Bounded'
<1>0. /\ group \in GroupType /\ cache \in GroupType /\ pass.group \in GroupType
      /\ group' \in GroupType
      /\ bounds.edits \in Nat /\ bounds.troubles \in Nat /\ Counted
      /\ Within(group) /\ Within(cache) /\ Within(pass.group)
  BY DEF TInv, IInv, Typed, PassType, Bounded, Counted
<1>nat. /\ group.uid \in Nat /\ group.gen \in Nat
       /\ group.status.observed \in Nat /\ group.status.conditions \in Nat
  BY <1>0, GroupNumbers
<1>1. ASSUME NEW feeds \in SUBSET Feeds, NEW paused \in SUBSET feeds, Edit(feeds, paused)
      PROVE  Bounded'
  <2>1. /\ group' = [group EXCEPT !.gen = @ + 1, !.feeds = feeds, !.paused = paused]
        /\ group.exists /\ UNCHANGED <<cache, queued, pc, pass, series, hist>>
        /\ bounds.edits < MaxEdits /\ Count("edits")
    BY <1>1 DEF Edit
  <2>2. /\ group'.uid = group.uid /\ group'.gen = group.gen + 1
        /\ group'.exists = group.exists /\ group'.status = group.status
        /\ group'.feeds = feeds /\ group'.paused = paused
    BY <1>0, <2>1 DEF GroupType
  <2>3. /\ bounds' \in [edits : 0..MaxEdits, troubles : 0..MaxTroubles]
        /\ bounds'.edits = bounds.edits + 1 /\ bounds'.troubles = bounds.troubles
    BY <1>0, <2>1, CountStep
  <2>4. Counted'
    BY <1>0, <2>1, <2>2, <2>3 DEF Counted
  <2>5. Within(group)'
    BY <1>0, <1>nat, <2>2, <2>3 DEF Within
  <2>6. Within(cache)' /\ Within(pass.group)'
    BY <1>0, <1>nat, <2>1, <2>2, <2>3, StaysWithin DEF Within
  <2> QED BY <2>1, <2>4, <2>5, <2>6 DEF TInv, Bounded
<1>2. CASE Delete
  <2>1. /\ group' = [NoGroup EXCEPT !.uid = group.uid] /\ group.exists
        /\ UNCHANGED <<cache, queued, pc, pass, series, hist>>
        /\ bounds.troubles < MaxTroubles /\ Count("troubles")
    BY <1>2 DEF Delete
  <2>2. /\ group'.uid = group.uid /\ group'.gen = 0 /\ ~group'.exists
        /\ group'.status.observed = 0 /\ group'.status.conditions = 0
        /\ group'.paused = {}
    BY <2>1 DEF NoGroup, NewStatus
  <2>3. /\ bounds' \in [edits : 0..MaxEdits, troubles : 0..MaxTroubles]
        /\ bounds'.edits = bounds.edits /\ bounds'.troubles = bounds.troubles + 1
    BY <1>0, <2>1, CountStep
  <2>4. Counted'
    BY <1>0, <1>nat, <2>1, <2>2, <2>3 DEF Counted
  <2>5. Within(group)'
    BY <1>0, <1>nat, <2>2, <2>3 DEF Within
  <2>6. Within(cache)' /\ Within(pass.group)'
    BY <1>0, <1>nat, <2>1, <2>2, <2>3, StaysWithin DEF Within
  <2> QED BY <2>1, <2>4, <2>5, <2>6 DEF TInv, Bounded
<1>3. ASSUME NEW feeds \in SUBSET Feeds, Recreate(feeds) PROVE Bounded'
  <2>1. /\ ~group.exists /\ group' = NewGroup(group.uid + 1, feeds)
        /\ UNCHANGED <<cache, queued, pc, pass, series, bounds>>
    BY <1>3 DEF Recreate
  <2>2. /\ group'.uid = group.uid + 1 /\ group'.gen = 1
        /\ group'.exists /\ group'.status = NewStatus
    <3>1. group.uid + 1 \in Nat
      BY <1>nat
    <3> QED BY <2>1, <3>1, NewGroupType
  <2>3. group'.paused = {} /\ NewStatus.observed = 0 /\ NewStatus.conditions = 0
    BY <2>1 DEF NewGroup, NoGroup, NewStatus
  <2>4. Counted'
    BY <1>0, <1>nat, <2>1, <2>2 DEF Counted
  <2>5. Within(group)'
    BY <1>0, <1>nat, <2>1, <2>2, <2>3 DEF Within
  <2>6. Within(cache)' /\ Within(pass.group)'
    BY <1>0, <1>nat, <2>1, <2>2, StaysWithin DEF Within
  <2> QED BY <2>1, <2>4, <2>5, <2>6 DEF TInv, Bounded
<1> QED BY <1>1, <1>2, <1>3 DEF Owner

\* A process that starts anew, and what else leaves the group alone.
LEMMA CacheBounds ==
    ASSUME TInv, CacheSyncs
    PROVE  Bounded'
  BY DEF CacheSyncs, TInv, Bounded, Counted, Within

LEMMA WakesBounds ==
    ASSUME TInv, Wakes
    PROVE  Bounded'
  BY DEF Wakes, TInv, Bounded, Counted, Within

LEMMA ForgetsBounds ==
    ASSUME TInv, Forgets
    PROVE  Bounded'
  BY DEF Forgets, NoSeries, TInv, Bounded, Counted, Within

LEMMA RestartBounds ==
    ASSUME TInv, Restart
    PROVE  Bounded'
<1>1. /\ cache' = group /\ pass' = NoPass /\ series' = NoSeries /\ group' = group
      /\ bounds.troubles < MaxTroubles /\ Count("troubles")
  BY DEF Restart
<1>2. Counted /\ Within(group) /\ group \in GroupType
  BY DEF TInv, IInv, Typed, Bounded
<1>3. /\ bounds' \in [edits : 0..MaxEdits, troubles : 0..MaxTroubles]
      /\ bounds'.edits = bounds.edits /\ bounds'.troubles = bounds.troubles + 1
      /\ bounds.edits \in Nat /\ bounds.troubles \in Nat
  BY <1>1, <1>2, CountStep
<1>4. group.uid \in Nat
  BY <1>2, GroupNumbers
<1>5. Counted'
  BY <1>1, <1>2, <1>3, <1>4 DEF Counted
<1>6. Within(group)' /\ Within(cache)'
  BY <1>1, <1>2, <1>3 DEF Within
<1>7. Within(NoGroup)' /\ NoPass.todo = {} /\ NoPass.group = NoGroup
  BY <1>1, <1>3, <1>4 DEF Within, NoGroup, NewStatus, NoPass
<1>8. Within(pass.group)' /\ pass'.todo = {}
  BY <1>1, <1>7 DEF Within
<1>9. series'.healthy \subseteq series'.gauges
  BY <1>1 DEF NoSeries
<1> QED BY <1>5, <1>6, <1>8, <1>9 DEF Bounded

LEMMA BeginBounds ==
    ASSUME TInv, NEW due \in SUBSET Feeds, NEW resolved \in BOOLEAN, Begin(due, resolved)
    PROVE  Bounded'
<1>1. UNCHANGED <<group, cache, bounds>>
  BY DEF Begin
<1>2. /\ pass'.todo = due /\ due \subseteq cache.feeds \ cache.paused
      /\ pass'.group.uid = cache.uid /\ pass'.group.gen = cache.gen
      /\ pass'.group.feeds = cache.feeds /\ pass'.group.paused = cache.paused
      /\ pass'.group.status.conditions = cache.status.conditions
      /\ pass'.group.status.observed = cache.status.observed
      /\ series'.gauges = series.gauges \ Pruned(cache)
      /\ series'.healthy = series.healthy \ Pruned(cache)
  BY BeginStep DEF TInv, IInv
<1>3. Counted' /\ Within(group)' /\ Within(cache)'
  BY <1>1 DEF TInv, Bounded, Counted, Within
<1>4. Within(pass.group)'
  BY <1>1, <1>2 DEF TInv, Bounded, Within
<1>5. series'.healthy \subseteq series'.gauges
  BY <1>2 DEF TInv, Bounded
<1> QED BY <1>2, <1>3, <1>4, <1>5 DEF Bounded

LEMMA FoldBounds ==
    ASSUME TInv, Folding, NEW fails \in BOOLEAN, NEW counted \in BOOLEAN,
           NEW todo \in SUBSET Feeds, todo \subseteq pass.todo,
           NEW touched \in BOOLEAN, NEW panicked \in BOOLEAN,
           pass' = Folded(todo, panicked, touched, fails),
           series' = CountedIn(series, counted),
           UNCHANGED <<group, cache, bounds>>
    PROVE  Bounded'
<1>1. Typed /\ Versions /\ Bounded
  BY DEF TInv, IInv
<1>2. /\ pass'.todo = todo
      /\ pass'.group.uid = pass.group.uid /\ pass'.group.gen = pass.group.gen
      /\ pass'.group.feeds = pass.group.feeds /\ pass'.group.paused = pass.group.paused
      /\ pass'.group.status.conditions = pass.group.status.conditions
      /\ pass'.group.status.observed = pass.group.status.observed
      /\ series'.gauges = series.gauges /\ series'.healthy = series.healthy
  BY <1>1, FoldStep, Zenon
<1>3. Counted' /\ Within(group)' /\ Within(cache)'
  BY <1>1 DEF Bounded, Counted, Within
<1>4. Within(pass.group)'
  BY <1>1, <1>2 DEF Bounded, Within
<1> QED BY <1>1, <1>2, <1>3, <1>4 DEF Bounded

LEMMA CheckBounds ==
    ASSUME TInv, NEW outcome \in Outcomes, Check(outcome)
    PROVE  Bounded'
<1>1. PICK todo \in SUBSET Feeds :
        /\ todo \subseteq pass.todo
        /\ pass' = Folded(todo, pass.panicked, TRUE, outcome.failing)
        /\ series' = CountedIn(series, outcome.counted)
  BY CheckIsFold DEF TInv, IInv
<1>2. outcome.failing \in BOOLEAN /\ outcome.counted \in BOOLEAN /\ pass.panicked \in BOOLEAN
  BY OutcomeType DEF TInv, IInv, Typed, PassType
<1>3. Folding /\ UNCHANGED <<group, cache, bounds>> /\ TRUE \in BOOLEAN
  BY DEF Check
<1> QED BY <1>1, <1>2, <1>3, FoldBounds

LEMMA PanicBounds ==
    ASSUME TInv, NEW handled \in BOOLEAN, Panics(handled)
    PROVE  Bounded'
<1> DEFINE fails == handled \/ pass.group.status.feed[NextFeed]
           touched == pass.touched \/ handled
<1>1. Folding /\ UNCHANGED <<group, cache, bounds>> /\ series' = CountedIn(series, handled)
  BY DEF Panics
<1>2. pass' = Folded({}, TRUE, touched, fails)
  BY PanicIsFold DEF TInv, IInv
<1>3. /\ touched \in BOOLEAN /\ fails \in BOOLEAN /\ TRUE \in BOOLEAN
      /\ {} \subseteq pass.todo /\ {} \in SUBSET Feeds
  BY DEF TInv, IInv, Typed, PassType
<1> HIDE DEF fails, touched
<1> QED BY <1>1, <1>2, <1>3, FoldBounds

\* What ends a pass, whatever becomes of the status.
LEMMA EndedBounds ==
    ASSUME TInv, NEW failed \in BOOLEAN, EndPass(failed), Counted', Within(group)',
           group' \in GroupType, group'.uid = group.uid, bounds'.edits = bounds.edits
    PROVE  Bounded'
<1>1. /\ cache' = cache /\ pass' = NoPass
      /\ series.healthy \subseteq series.gauges
           => series'.healthy \subseteq series'.gauges
  BY EndPassStep DEF TInv, IInv
<1>2. Within(cache)'
  BY <1>1 DEF TInv, Bounded, Within
<1>3. bounds'.edits \in Nat /\ group'.uid \in Nat
  BY GroupNumbers DEF TInv, Bounded, Counted
<1>4. Within(pass.group)' /\ pass'.todo = {}
  BY <1>1, <1>3 DEF Within, NoPass, NoGroup, NewStatus
<1> QED BY <1>1, <1>2, <1>4 DEF TInv, Bounded

LEMMA SettlesUnchangedBounds ==
    ASSUME TInv, SettlesUnchanged
    PROVE  Bounded'
<1>1. EndPass(FALSE) /\ UNCHANGED <<group, bounds>> /\ FALSE \in BOOLEAN
  BY DEF SettlesUnchanged
<1>2. Counted' /\ Within(group)' /\ group' \in GroupType
  BY <1>1 DEF TInv, IInv, Typed, Bounded, Counted, Within
<1> QED BY <1>1, <1>2, EndedBounds

LEMMA WritesBounds ==
    ASSUME TInv, Writes
    PROVE  Bounded'
<1>1. /\ EndPass(FALSE) /\ UNCHANGED bounds /\ FALSE \in BOOLEAN
      /\ group' = [group EXCEPT !.status = Settled.status]
  BY DEF Writes
<1>2. /\ Settled.status \in StatusType
      /\ Settled.status.observed \in {pass.group.status.observed, pass.group.gen}
      /\ Settled.status.conditions = pass.group.gen
  BY SettledType DEF TInv, IInv, GroupType
<1>3. /\ group' \in GroupType /\ group'.status = Settled.status
      /\ group'.exists = group.exists /\ group'.uid = group.uid /\ group'.gen = group.gen
      /\ group'.feeds = group.feeds /\ group'.paused = group.paused
  BY <1>1, <1>2 DEF TInv, IInv, Typed, GroupType
<1>4. Counted'
  BY <1>1, <1>3 DEF TInv, Bounded, Counted
<1>5. Within(group)'
  BY <1>1, <1>2, <1>3 DEF TInv, Bounded, Within
<1> QED BY <1>1, <1>3, <1>4, <1>5, EndedBounds

LEMMA FailsToWriteBounds ==
    ASSUME TInv, FailsToWrite
    PROVE  Bounded'
<1>1. EndPass(TRUE) /\ UNCHANGED group /\ TRUE \in BOOLEAN
  BY DEF FailsToWrite
<1>2. Counted /\ Within(group) /\ group \in GroupType
  BY DEF TInv, IInv, Typed, Bounded
<1>3. Counted' /\ bounds'.edits = bounds.edits
  <2>1. CASE UNCHANGED bounds
    BY <1>1, <1>2, <2>1 DEF Counted
  <2>2. CASE bounds.troubles < MaxTroubles /\ Count("troubles")
    <3>1. /\ bounds' \in [edits : 0..MaxEdits, troubles : 0..MaxTroubles]
          /\ bounds'.edits = bounds.edits /\ bounds'.troubles = bounds.troubles + 1
          /\ bounds.troubles \in Nat
      BY <1>2, <2>2, CountStep
    <3>2. group.uid \in Nat
      BY <1>2, GroupNumbers
    <3> QED BY <1>1, <1>2, <3>1, <3>2 DEF Counted
  <2> QED BY <2>1, <2>2 DEF FailsToWrite
<1>4. Within(group)'
  BY <1>1, <1>2, <1>3 DEF Within
<1> QED BY <1>1, <1>2, <1>3, <1>4, EndedBounds

LEMMA BoundsStep == TInv /\ [Next]_vars => TInv'
<1> SUFFICES ASSUME TInv, [Next]_vars PROVE Bounded'
  BY GaugesStep DEF TInv
<1>0. IInv'
  BY GaugesStep DEF TInv
<1>1. CASE Owner
  BY <1>0, <1>1, OwnerBounds
<1>2. CASE CacheSyncs
  BY <1>2, CacheBounds
<1>3. CASE Wakes
  BY <1>3, WakesBounds
<1>4. CASE Restart
  BY <1>4, RestartBounds
<1>5. CASE Reconcile
  <2>1. ASSUME NEW due \in SUBSET Feeds, NEW resolved \in BOOLEAN, Begin(due, resolved)
        PROVE  Bounded'
    BY <2>1, BeginBounds
  <2>2. ASSUME NEW outcome \in Outcomes, Check(outcome) PROVE Bounded'
    BY <2>2, CheckBounds
  <2>3. ASSUME NEW handled \in BOOLEAN, Panics(handled) PROVE Bounded'
    BY <2>3, PanicBounds
  <2> QED BY <1>5, <2>1, <2>2, <2>3, ForgetsBounds, SettlesUnchangedBounds, WritesBounds,
             FailsToWriteBounds DEF Reconcile
<1>6. CASE UNCHANGED vars
  BY <1>6 DEF vars, TInv, Bounded, Counted, Within
<1> QED BY <1>1, <1>2, <1>3, <1>4, <1>5, <1>6 DEF Next

LEMMA BoundsInvariance == Spec => []TInv
  BY BoundsInit, BoundsStep, PTL DEF Spec

\* The types of the group, of the copies of it and of the registry: a status only
\* lists feeds of its group's list, a pass has one for each feed of its spec
\* (ensureFeedStatuses), it still folds feeds of that spec that are not paused,
\* and a feed that is reported healthy is one with a health gauge.
THEOREM TypeCorrect == Spec => []TypeOK
<1>1. TInv => TypeOK
  <2> SUFFICES ASSUME TInv PROVE TypeOK
    OBVIOUS
  <2>1. /\ group \in GroupType /\ cache \in GroupType /\ pass.group \in GroupType
        /\ Within(group) /\ Within(cache) /\ Within(pass.group) /\ Counted
    BY DEF TInv, IInv, Typed, PassType, Bounded
  <2>2. ASSUME NEW g \in GroupType, Within(g)
        PROVE  GroupOK(g)
    <3>1. /\ g.uid \in Nat /\ g.gen \in Nat /\ group.uid \in Nat
          /\ g.status.observed \in Nat /\ g.status.conditions \in Nat
      BY <2>1, GroupNumbers
    <3>2. bounds.edits \in 0..MaxEdits /\ bounds.troubles \in 0..MaxTroubles
      BY <2>1 DEF Counted
    <3>3. /\ g.uid \in 0..(MaxTroubles + 1) /\ g.gen \in 0..(MaxEdits + 1)
          /\ g.status.observed \in 0..(MaxEdits + 1)
          /\ g.status.conditions \in 0..(MaxEdits + 1)
      BY <2>1, <2>2, <3>1, <3>2, BoundsAreNat DEF Within, Counted
    <3>4. /\ g.exists \in BOOLEAN /\ g.feeds \subseteq Feeds /\ g.paused \subseteq g.feeds
          /\ DOMAIN g.status.feed \subseteq Feeds
          /\ \A f \in DOMAIN g.status.feed : g.status.feed[f] \in BOOLEAN
      BY <2>2 DEF Within, GroupType, StatusType, StatusMaps
    <3> QED BY <3>3, <3>4 DEF GroupOK, StatusOK
  <2>3. GroupOK(group) /\ GroupOK(cache) /\ GroupOK(pass.group)
    BY <2>1, <2>2
  <2>4. /\ queued \in BOOLEAN /\ pc \in {"idle", "pass"}
        /\ {pass.touched, pass.panicked, pass.stale} \subseteq BOOLEAN
        /\ series.operations \subseteq Feeds /\ series.gauges \subseteq Feeds
        /\ series.ofGroup \in BOOLEAN
    BY DEF TInv, IInv, Typed, PassType, SeriesType
  <2>5. /\ pass.todo \subseteq pass.group.feeds \ pass.group.paused
        /\ series.healthy \subseteq series.gauges
    BY DEF TInv, Bounded
  <2>6. pc = "pass" => DOMAIN pass.group.status.feed = pass.group.feeds
    BY DEF TInv, IInv, Versions
  <2> QED BY <2>3, <2>4, <2>5, <2>6 DEF TypeOK
<1> QED BY <1>1, BoundsInvariance, PTL

-----------------------------------------------------------------------------
(* What FailureClass makes of an error, for any set of statuses.           *)

\* The Go types the chains of NetworkFaults are made of, and what wraps them.
NetTypes ==
    {"net.OpError", "os.SyscallError", "net.DNSError", "timeout", "error",
     "tls.CertificateVerificationError", "x509.UnknownAuthorityError", "x509.HostnameError",
     "x509.CertificateInvalidError"}
Certificates ==
    {"tls.CertificateVerificationError", "x509.UnknownAuthorityError", "x509.HostnameError",
     "x509.CertificateInvalidError"}
Wrappers == {"url.Error", "fmt.wrapError"}

\* What goes wrong between the operator and any server.
NetCauses == {"Certificate", "NoName", "Deadline", "Connection"}

\* The chains of an exchange that ran out of time.
Deadlines == {<<"timeout">>, <<"net.OpError", "timeout">>,
              <<"net.OpError", "os.SyscallError", "timeout">>}

\* Short sequences, put together.
LEMMA Joined ==
    ASSUME NEW a, NEW b, NEW c
    PROVE  /\ <<a>> \o <<b>> = <<a, b>>
           /\ <<a>> \o <<b, c>> = <<a, b, c>>
           /\ <<a, b>> \o <<c>> = <<a, b, c>>
<1> DEFINE S == {a, b, c}
<1>1. a \in S /\ b \in S /\ c \in S
  OBVIOUS
<1> HIDE DEF S
<1>2. ASSUME NEW s \in Seq(S), Len(s) = 2 PROVE s = <<s[1], s[2]>>
  BY <1>2
<1>3. ASSUME NEW s \in Seq(S), Len(s) = 3 PROVE s = <<s[1], s[2], s[3]>>
  BY <1>3
<1>4. /\ <<a>> \o <<b>> \in Seq(S) /\ Len(<<a>> \o <<b>>) = 2
      /\ (<<a>> \o <<b>>)[1] = a /\ (<<a>> \o <<b>>)[2] = b
  BY <1>1
<1>5. /\ <<a>> \o <<b, c>> \in Seq(S) /\ Len(<<a>> \o <<b, c>>) = 3
      /\ (<<a>> \o <<b, c>>)[1] = a /\ (<<a>> \o <<b, c>>)[2] = b
      /\ (<<a>> \o <<b, c>>)[3] = c
  BY <1>1
<1>6. /\ <<a, b>> \o <<c>> \in Seq(S) /\ Len(<<a, b>> \o <<c>>) = 3
      /\ (<<a, b>> \o <<c>>)[1] = a /\ (<<a, b>> \o <<c>>)[2] = b
      /\ (<<a, b>> \o <<c>>)[3] = c
  BY <1>1
<1> QED BY <1>2, <1>3, <1>4, <1>5, <1>6

LEMMA JoinedByThree ==
    ASSUME NEW a, NEW b, NEW c, NEW d
    PROVE  <<a>> \o <<b, c, d>> = <<a, b, c, d>>
<1> DEFINE S == {a, b, c, d}
<1>1. a \in S /\ b \in S /\ c \in S /\ d \in S
  OBVIOUS
<1> HIDE DEF S
<1>2. ASSUME NEW s \in Seq(S), Len(s) = 4 PROVE s = <<s[1], s[2], s[3], s[4]>>
  BY <1>2
<1>3. /\ <<a>> \o <<b, c, d>> \in Seq(S) /\ Len(<<a>> \o <<b, c, d>>) = 4
      /\ (<<a>> \o <<b, c, d>>)[1] = a /\ (<<a>> \o <<b, c, d>>)[2] = b
      /\ (<<a>> \o <<b, c, d>>)[3] = c /\ (<<a>> \o <<b, c, d>>)[4] = d
  BY <1>1
<1> QED BY <1>2, <1>3

\* The types of a chain, and of one that is wrapped.
TypesOf(chain) == {chain[i] : i \in DOMAIN chain}

\* What errors.As finds depends on the types of a chain, not on their order.
LEMMA HoldsTypes == \A err, type : Holds(err, type) <=> type \in TypesOf(err.chain)
  BY DEF Holds, TypesOf

LEMMA WrappedTypes ==
    ASSUME NEW S, NEW outer \in S, NEW chain \in Seq(S)
    PROVE  TypesOf(<<outer>> \o chain) = {outer} \union TypesOf(chain)
<1> DEFINE whole == <<outer>> \o chain
<1>1. <<outer>> \in Seq(S) /\ Len(<<outer>>) = 1 /\ <<outer>>[1] = outer
  OBVIOUS
<1>2. /\ whole \in Seq(S) /\ Len(whole) = 1 + Len(chain)
      /\ \A i \in 1 .. 1 + Len(chain) :
            whole[i] = IF i <= 1 THEN <<outer>>[i] ELSE chain[i - 1]
  BY <1>1, ConcatProperties
<1> HIDE DEF whole
<1>3. DOMAIN whole = 1 .. Len(chain) + 1 /\ DOMAIN chain = 1 .. Len(chain) /\ Len(chain) \in Nat
  BY <1>2
<1>4. whole[1] = outer /\ \A i \in 1 .. Len(chain) : whole[i + 1] = chain[i]
  BY <1>1, <1>2, <1>3
<1>5. ASSUME NEW i \in DOMAIN whole PROVE whole[i] \in {outer} \union TypesOf(chain)
  <2>1. CASE i = 1
    BY <1>4, <2>1
  <2>2. CASE i # 1
    <3>1. i - 1 \in 1 .. Len(chain) /\ whole[i] = chain[i - 1]
      BY <1>3, <1>4, <2>2
    <3> QED BY <1>3, <3>1 DEF TypesOf
  <2> QED BY <2>1, <2>2
<1>6. outer \in TypesOf(whole)
  BY <1>3, <1>4 DEF TypesOf
<1>7. ASSUME NEW i \in DOMAIN chain PROVE chain[i] \in TypesOf(whole)
  <2>1. i + 1 \in DOMAIN whole /\ whole[i + 1] = chain[i]
    BY <1>3, <1>4
  <2> QED BY <2>1 DEF TypesOf
<1>8. TypesOf(whole) = {outer} \union TypesOf(chain)
  BY <1>5, <1>6, <1>7 DEF TypesOf
<1> QED BY <1>8 DEF whole

\* How far a network fault is told by its chain.
IsNetworkFault(n) ==
    /\ n.chain \in Seq(NetTypes) /\ n.status = NoStatus /\ n.cause \in NetCauses
    /\ n = Fault(n.cause, n.chain)
    /\ TypesOf(n.chain) \intersect Certificates # {} <=> n.cause = "Certificate"
    /\ "net.DNSError" \in TypesOf(n.chain) <=> n.cause = "NoName"
    /\ "timeout" \in TypesOf(n.chain) <=> n.cause = "Deadline"
    /\ n.cause = "Deadline" => n.chain \in Deadlines

\* Every fault of the network is told by its chain.
LEMMA NetworkFaultForms ==
    ASSUME NEW n \in NetworkFaults
    PROVE  IsNetworkFault(n)
<1>1. ASSUME NEW a \in {"tls.CertificateVerificationError", "x509.UnknownAuthorityError",
                        "x509.HostnameError", "x509.CertificateInvalidError"}
      PROVE  IsNetworkFault(Fault("Certificate", <<a>>))
  <2> DEFINE e == Fault("Certificate", <<a>>)
  <2>1. e.chain = <<a>> /\ e.cause = "Certificate" /\ e.status = NoStatus
    BY DEF Fault
  <2>2. <<a>> \in Seq(NetTypes)
    BY DEF NetTypes
  <2>3. /\ a \in TypesOf(e.chain)
        /\ "net.DNSError" \notin TypesOf(e.chain) /\ "timeout" \notin TypesOf(e.chain)
    BY <2>1 DEF TypesOf
  <2> HIDE DEF e
  <2>4. TypesOf(e.chain) \intersect Certificates # {}
    BY <2>3 DEF Certificates
  <2>5. e = Fault("Certificate", <<a>>)
    BY DEF e
  <2> QED BY <2>1, <2>2, <2>3, <2>4, <2>5 DEF IsNetworkFault, NetCauses, e
<1>2. ASSUME NEW a \in {"x509.UnknownAuthorityError", "x509.HostnameError"}
      PROVE  IsNetworkFault(Fault("Certificate", <<"tls.CertificateVerificationError", a>>))
  <2> DEFINE chain == <<"tls.CertificateVerificationError", a>>
             e == Fault("Certificate", chain)
  <2>1. e.chain = chain /\ e.cause = "Certificate" /\ e.status = NoStatus
    BY DEF Fault
  <2>2. chain \in Seq(NetTypes)
    BY DEF NetTypes
  <2>3. /\ a \in TypesOf(e.chain)
        /\ "net.DNSError" \notin TypesOf(e.chain) /\ "timeout" \notin TypesOf(e.chain)
    BY <2>1 DEF TypesOf
  <2>5. e = Fault("Certificate", chain)
    OBVIOUS
  <2> HIDE DEF e
  <2>4. TypesOf(e.chain) \intersect Certificates # {}
    BY <2>3 DEF Certificates
  <2> QED BY <2>1, <2>2, <2>3, <2>4, <2>5 DEF IsNetworkFault, NetCauses, e
<1>3. CASE n \in {Fault("Certificate", chain) : chain \in CertificateErrors}
  <2>1. PICK chain \in CertificateErrors : n = Fault("Certificate", chain)
    BY <1>3, Zenon
  <2>2. CASE chain \in {<<"x509.UnknownAuthorityError">>, <<"x509.HostnameError">>,
                        <<"x509.CertificateInvalidError">>}
    BY <1>1, <2>1, <2>2
  <2>3. ASSUME NEW inner \in {<<>>, <<"x509.UnknownAuthorityError">>, <<"x509.HostnameError">>},
               chain = <<"tls.CertificateVerificationError">> \o inner
        PROVE  IsNetworkFault(n)
    <3>1. CASE inner = <<>>
      <4>1. chain = <<"tls.CertificateVerificationError">>
        BY <2>3, <3>1
      <4> QED BY <1>1, <2>1, <4>1
    <3>2. ASSUME NEW a \in {"x509.UnknownAuthorityError", "x509.HostnameError"}, inner = <<a>>
          PROVE  IsNetworkFault(n)
      <4>1. chain = <<"tls.CertificateVerificationError", a>>
        BY <2>3, <3>2, Joined
      <4> QED BY <1>2, <2>1, <4>1
    <3> QED BY <2>3, <3>1, <3>2
  <2> QED BY <2>1, <2>2, <2>3 DEF CertificateErrors
<1>4. CASE n = Fault("NoName", <<"net.OpError", "net.DNSError">>)
  <2>1. n.chain = <<"net.OpError", "net.DNSError">> /\ n.cause = "NoName" /\ n.status = NoStatus
    BY <1>4 DEF Fault
  <2>2. n.chain \in Seq(NetTypes)
    BY <2>1 DEF NetTypes
  <2>3. TypesOf(n.chain) = {"net.OpError", "net.DNSError"}
    BY <2>1 DEF TypesOf
  <2>4. TypesOf(n.chain) \intersect Certificates = {}
    BY <2>3 DEF Certificates
  <2> QED BY <1>4, <2>1, <2>2, <2>3, <2>4 DEF IsNetworkFault, NetCauses
<1>5. ASSUME NEW last \in {"timeout", "error"}, NEW wrap \in NetWraps,
             NEW cause, n = Fault(cause, wrap \o <<last>>),
             cause = IF last = "timeout" THEN "Deadline" ELSE "Connection"
      PROVE  IsNetworkFault(n)
  <2>1. n.chain = wrap \o <<last>> /\ n.cause = cause /\ n.status = NoStatus
    BY <1>5 DEF Fault
  <2>2. n.chain \in {<<last>>, <<"net.OpError", last>>,
                     <<"net.OpError", "os.SyscallError", last>>}
    <3>1. CASE wrap = <<>>
      BY <2>1, <3>1
    <3>2. CASE wrap = <<"net.OpError">>
      <4>1. <<"net.OpError">> \o <<last>> = <<"net.OpError", last>>
        BY Joined
      <4> QED BY <2>1, <3>2, <4>1
    <3>3. CASE wrap = <<"net.OpError", "os.SyscallError">>
      <4>1. <<"net.OpError", "os.SyscallError">> \o <<last>>
              = <<"net.OpError", "os.SyscallError", last>>
        BY Joined
      <4> QED BY <2>1, <3>3, <4>1
    <3> QED BY <3>1, <3>2, <3>3 DEF NetWraps
  <2>3. n.chain \in Seq(NetTypes)
    <3>1. last \in NetTypes /\ "net.OpError" \in NetTypes /\ "os.SyscallError" \in NetTypes
      BY DEF NetTypes
    <3> HIDE DEF NetTypes
    <3>2. /\ <<last>> \in Seq(NetTypes) /\ <<"net.OpError", last>> \in Seq(NetTypes)
          /\ <<"net.OpError", "os.SyscallError", last>> \in Seq(NetTypes)
      BY <3>1
    <3> QED BY <2>2, <3>2
  <2>4. /\ last \in TypesOf(n.chain)
        /\ TypesOf(n.chain) \subseteq {"net.OpError", "os.SyscallError", last}
    BY <2>2 DEF TypesOf
  <2>5. /\ TypesOf(n.chain) \intersect Certificates = {}
        /\ "net.DNSError" \notin TypesOf(n.chain)
        /\ "timeout" \in TypesOf(n.chain) <=> last = "timeout"
    BY <2>4 DEF Certificates
  <2>6. n.cause = "Deadline" => n.chain \in Deadlines
    BY <1>5, <2>1, <2>2 DEF Deadlines
  <2> QED BY <1>5, <2>1, <2>3, <2>5, <2>6 DEF IsNetworkFault, NetCauses
<1>6. CASE n \in {Fault("Deadline", wrap \o <<"timeout">>) : wrap \in NetWraps}
  <2>1. PICK wrap \in NetWraps : n = Fault("Deadline", wrap \o <<"timeout">>)
    BY <1>6, Zenon
  <2> QED BY <1>5, <2>1
<1>7. CASE n \in {Fault("Connection", wrap \o <<"error">>) : wrap \in NetWraps}
  <2>1. PICK wrap \in NetWraps : n = Fault("Connection", wrap \o <<"error">>)
    BY <1>7, Zenon
  <2> QED BY <1>5, <2>1
<1> QED BY <1>3, <1>4, <1>6, <1>7, Zenon DEF NetworkFaults

\* The class of a cause, of an answer also by its status.
OfCause(cause) ==
    CASE cause = "Certificate" -> Permanently("TLSError")
      [] cause = "NoName" -> ForNow("DNSFailure")
      [] cause = "Deadline" -> ForNow("Timeout")
      [] cause = "Address" -> Permanently("BlockedAddress")
      [] cause = "URL" -> Permanently("InvalidURL")
      [] cause = "Size" -> Permanently("ResponseTooLarge")
      [] cause = "Format" -> Permanently("UnrecognizedFormat")
      [] cause = "Document" -> Permanently("ParseError")
      [] cause = "RateLimit" -> ForNow("RateLimited")
      [] OTHER -> ForNow("Other")

\* Every chain a deadline ends in times out.
LEMMA LateChains ==
    ASSUME NEW f, NEW outer \in Wrappers,
           f.chain \in {<<outer, "timeout">>, <<outer, "net.OpError", "timeout">>,
                        <<outer, "net.OpError", "os.SyscallError", "timeout">>}
    PROVE  TimesOut(f)
<1>1. ASSUME NEW i, NEW j, i \in DOMAIN f.chain, j \in DOMAIN f.chain, i <= j,
             f.chain[i] \in NetErrors, f.chain[j] = "timeout",
             \A k \in 1..(i - 1) : f.chain[k] \notin NetErrors,
             \A k \in i..(j - 1) : f.chain[k] \in Delegating
      PROVE  TimesOut(f)
  BY <1>1 DEF TimesOut
<1>2. CASE outer = "url.Error"
  <2>1. f.chain[1] = "url.Error" /\ 1 \in DOMAIN f.chain
    BY <1>2
  <2>2. PICK j \in {2, 3, 4} :
          /\ j \in DOMAIN f.chain /\ f.chain[j] = "timeout"
          /\ \A k \in 1..(j - 1) : f.chain[k] \in {"url.Error", "net.OpError", "os.SyscallError"}
    <3>1. CASE f.chain = <<outer, "timeout">>
      BY <1>2, <3>1
    <3>2. CASE f.chain = <<outer, "net.OpError", "timeout">>
      BY <1>2, <3>2
    <3>3. CASE f.chain = <<outer, "net.OpError", "os.SyscallError", "timeout">>
      BY <1>2, <3>3
    <3> QED BY <3>1, <3>2, <3>3
  <2>3. 1 <= j /\ (\A k \in 1..(1 - 1) : f.chain[k] \notin NetErrors)
    BY <2>2
  <2>4. f.chain[1] \in NetErrors /\ (\A k \in 1..(j - 1) : f.chain[k] \in Delegating)
    BY <2>1, <2>2 DEF NetErrors, Delegating
  <2> QED BY <1>1, <2>1, <2>2, <2>3, <2>4, Zenon
<1>3. CASE outer = "fmt.wrapError"
  <2>1. /\ 1 \in DOMAIN f.chain /\ f.chain[1] = "fmt.wrapError"
        /\ 2 \in DOMAIN f.chain /\ f.chain[2] \in {"timeout", "net.OpError"}
    BY <1>3
  <2>2. PICK j \in {2, 3, 4} :
          /\ j \in DOMAIN f.chain /\ f.chain[j] = "timeout"
          /\ \A k \in 2..(j - 1) : f.chain[k] \in {"net.OpError", "os.SyscallError"}
    <3>1. CASE f.chain = <<outer, "timeout">>
      BY <1>3, <3>1
    <3>2. CASE f.chain = <<outer, "net.OpError", "timeout">>
      BY <1>3, <3>2
    <3>3. CASE f.chain = <<outer, "net.OpError", "os.SyscallError", "timeout">>
      BY <1>3, <3>3
    <3> QED BY <3>1, <3>2, <3>3
  <2>3. 2 <= j /\ (\A k \in 1..(2 - 1) : f.chain[k] \notin NetErrors)
    BY <2>1, <2>2 DEF NetErrors
  <2>4. f.chain[2] \in NetErrors /\ (\A k \in 2..(j - 1) : f.chain[k] \in Delegating)
    BY <2>1, <2>2 DEF NetErrors, Delegating
  <2> QED BY <1>1, <2>1, <2>2, <2>3, <2>4, Zenon
<1> QED BY <1>2, <1>3 DEF Wrappers

\* Wrapped once, a fault of the network is still told by its cause.
LEMMA WrappedTransport ==
    ASSUME NEW n, IsNetworkFault(n), NEW outer \in Wrappers,
           NEW f, f = [n EXCEPT !.chain = <<outer>> \o @]
    PROVE  /\ OfTransport(f) = OfCause(f.cause)
           /\ f.cause = n.cause /\ f.status = NoStatus
           /\ TypesOf(f.chain) \subseteq NetTypes \union Wrappers
<1> DEFINE S == NetTypes \union Wrappers
<1>1. n = [cause |-> n.cause, chain |-> n.chain, status |-> NoStatus]
  BY DEF IsNetworkFault, Fault
<1>2. f.chain = <<outer>> \o n.chain /\ f.cause = n.cause /\ f.status = NoStatus
  BY <1>1
<1>3. n.chain \in Seq(S) /\ outer \in S /\ TypesOf(n.chain) \subseteq NetTypes
  BY DEF IsNetworkFault, TypesOf
<1> HIDE DEF S
<1>4. TypesOf(f.chain) = {outer} \union TypesOf(n.chain)
  <2>1. TypesOf(<<outer>> \o n.chain) = {outer} \union TypesOf(n.chain)
    BY <1>3, WrappedTypes
  <2> QED BY <1>2, <2>1
<1>5. CertificateRefused(f) <=> f.cause = "Certificate"
  <2>1. CertificateRefused(f) <=> TypesOf(f.chain) \intersect Certificates # {}
    BY HoldsTypes DEF CertificateRefused, Certificates
  <2>2. outer \notin Certificates
    BY DEF Wrappers, Certificates
  <2> QED BY <1>2, <1>4, <2>1, <2>2 DEF IsNetworkFault
<1>6. Holds(f, "net.DNSError") <=> f.cause = "NoName"
  <2>1. Holds(f, "net.DNSError") <=> "net.DNSError" \in TypesOf(f.chain)
    BY HoldsTypes
  <2> QED BY <1>2, <1>4, <2>1 DEF Wrappers, IsNetworkFault
<1>7. TimesOut(f) <=> f.cause = "Deadline"
  <2>1. ASSUME f.cause # "Deadline" PROVE ~TimesOut(f)
    <3>1. "timeout" \notin TypesOf(f.chain)
      BY <1>2, <1>4, <2>1 DEF Wrappers, IsNetworkFault
    <3> QED BY <3>1 DEF TimesOut, TypesOf
  <2>2. ASSUME f.cause = "Deadline" PROVE TimesOut(f)
    <3>1. n.chain \in Deadlines
      BY <1>2, <2>2 DEF IsNetworkFault
    <3>2. f.chain \in {<<outer, "timeout">>, <<outer, "net.OpError", "timeout">>,
                       <<outer, "net.OpError", "os.SyscallError", "timeout">>}
      <4>1. CASE n.chain = <<"timeout">>
        <5>1. <<outer>> \o <<"timeout">> = <<outer, "timeout">>
          BY Joined
        <5> QED BY <1>2, <4>1, <5>1
      <4>2. CASE n.chain = <<"net.OpError", "timeout">>
        <5>1. <<outer>> \o <<"net.OpError", "timeout">> = <<outer, "net.OpError", "timeout">>
          BY Joined
        <5> QED BY <1>2, <4>2, <5>1
      <4>3. CASE n.chain = <<"net.OpError", "os.SyscallError", "timeout">>
        <5>1. <<outer>> \o <<"net.OpError", "os.SyscallError", "timeout">>
                = <<outer, "net.OpError", "os.SyscallError", "timeout">>
          BY JoinedByThree
        <5> QED BY <1>2, <4>3, <5>1
      <4> QED BY <3>1, <4>1, <4>2, <4>3 DEF Deadlines
    <3> QED BY <3>2, LateChains
  <2> QED BY <2>1, <2>2
<1>8. OfTransport(f) = OfCause(f.cause)
  BY <1>2, <1>5, <1>6, <1>7 DEF OfTransport, OfCause, IsNetworkFault, NetCauses
<1>9. TypesOf(f.chain) \subseteq S
  BY <1>3, <1>4 DEF S
<1> QED BY <1>2, <1>8, <1>9 DEF S

\* An error no part of which is a certificate's, the resolver's or late.
LEMMA OtherTransport ==
    ASSUME NEW f,
           TypesOf(f.chain) \intersect (Certificates \union {"net.DNSError", "timeout"}) = {}
    PROVE  OfTransport(f) = ForNow("Other")
<1>1. ~CertificateRefused(f)
  BY HoldsTypes DEF CertificateRefused, Certificates
<1>2. ~Holds(f, "net.DNSError")
  BY HoldsTypes
<1>3. ~TimesOut(f)
  BY DEF TimesOut, TypesOf
<1> QED BY <1>1, <1>2, <1>3 DEF OfTransport

\* An error that is nothing but late, such as a body that stops coming.
LEMMA LateTransport ==
    ASSUME NEW f, f = Fault("Deadline", <<"timeout">>)
    PROVE  /\ OfTransport(f) = ForNow("Timeout") /\ TypesOf(f.chain) = {"timeout"}
           /\ f.cause = "Deadline" /\ f.status = NoStatus
<1>1. f.chain = <<"timeout">> /\ f.cause = "Deadline" /\ f.status = NoStatus
  BY DEF Fault
<1>2. TypesOf(f.chain) = {"timeout"}
  BY <1>1 DEF TypesOf
<1>3. TimesOut(f)
  BY <1>1 DEF TimesOut, NetErrors, Delegating
<1>4. ~CertificateRefused(f) /\ ~Holds(f, "net.DNSError")
  BY <1>2, HoldsTypes DEF CertificateRefused
<1> QED BY <1>1, <1>2, <1>3, <1>4 DEF OfTransport

-----------------------------------------------------------------------------
(* The class of every fetch and every send that fails. *)

FetchCauses ==
    NetCauses \union {"URL", "Address", "Redirect", "Answer", "Size", "Format", "Document"}
SendCauses == NetCauses \union {"Message", "Webhook", "RateLimit", "Answer"}

\* What a fault's class is made of.
FetchClass(f) == IF f.cause = "Answer" THEN OfStatus(f.status) ELSE OfCause(f.cause)
SendClass(f) ==
    IF f.cause # "Answer" THEN OfCause(f.cause)
    ELSE IF f.status = 404 THEN Permanently("WebhookInvalid") ELSE OfStatus(f.status)

HasStatus(f) == IF f.cause = "Answer" THEN f.status \in Statuses ELSE f.status = NoStatus

\* The types a fetch's classification looks for before or after the transport's.
FetchErrors == {"rss.HTTPStatusError", "rss.BlockedAddressError",
                "rss.UnrecognizedFormatError", "rss.ParseError",
                "rss.ResponseTooLargeError", "rss.InvalidURLError"}

\* A fetch that fails has the class of its cause, or of its answer.
LEMMA FetchClasses ==
    ASSUME NEW f \in FetchFaults
    PROVE  OfFetch(f) = FetchClass(f) /\ f.cause \in FetchCauses /\ HasStatus(f)
<1> DEFINE Goal(e) == OfFetch(e) = FetchClass(e) /\ e.cause \in FetchCauses /\ HasStatus(e)
<1>1. ASSUME NEW inner \in {<<>>, <<"url.Error", "error">>},
             f = Fault("URL", <<"rss.InvalidURLError">> \o inner)
      PROVE  Goal(f)
  <2>1. f.chain = <<"rss.InvalidURLError">> \o inner /\ f.cause = "URL" /\ f.status = NoStatus
    BY <1>1 DEF Fault
  <2>2. f.chain \in {<<"rss.InvalidURLError">>, <<"rss.InvalidURLError", "url.Error", "error">>}
    <3>1. <<"rss.InvalidURLError">> \o <<"url.Error", "error">>
            = <<"rss.InvalidURLError", "url.Error", "error">>
      BY Joined
    <3>2. <<"rss.InvalidURLError">> \o <<>> = <<"rss.InvalidURLError">>
      OBVIOUS
    <3>3. CASE inner = <<>>
      BY <2>1, <3>2, <3>3
    <3>4. CASE inner = <<"url.Error", "error">>
      BY <2>1, <3>1, <3>4
    <3> QED BY <3>3, <3>4
  <2>3. /\ "rss.InvalidURLError" \in TypesOf(f.chain)
        /\ TypesOf(f.chain) \subseteq {"rss.InvalidURLError", "url.Error", "error"}
    BY <2>2 DEF TypesOf
  <2>4. OfTransport(f) = ForNow("Other")
    BY <2>3, OtherTransport DEF Certificates
  <2>5. OfFetch(f) = Permanently("InvalidURL")
    BY <2>3, <2>4, HoldsTypes DEF OfFetch
  <2> QED BY <2>1, <2>5 DEF FetchClass, OfCause, FetchCauses, HasStatus
<1>2. ASSUME NEW n \in NetworkFaults, f = [n EXCEPT !.chain = <<"url.Error">> \o @]
      PROVE  Goal(f)
  <2>1. "url.Error" \in Wrappers
    BY DEF Wrappers
  <2>2. /\ OfTransport(f) = OfCause(f.cause) /\ f.cause = n.cause /\ f.status = NoStatus
        /\ TypesOf(f.chain) \subseteq NetTypes \union Wrappers
    BY <1>2, <2>1, NetworkFaultForms, WrappedTransport
  <2>3. TypesOf(f.chain) \intersect FetchErrors = {}
    BY <2>2 DEF NetTypes, Wrappers, FetchErrors
  <2>4. OfFetch(f) = OfTransport(f)
    BY <2>3, HoldsTypes DEF OfFetch, FetchErrors
  <2>5. f.cause \in NetCauses
    BY <2>2, NetworkFaultForms DEF IsNetworkFault
  <2> QED BY <2>2, <2>4, <2>5 DEF FetchClass, FetchCauses, HasStatus, NetCauses
<1>3. CASE f = [Refusal EXCEPT !.chain = <<"url.Error">> \o @]
  <2>1. <<"url.Error">> \o <<"net.OpError", "rss.BlockedAddressError">>
          = <<"url.Error", "net.OpError", "rss.BlockedAddressError">>
    BY Joined
  <2>2. /\ f.chain = <<"url.Error", "net.OpError", "rss.BlockedAddressError">>
        /\ f.cause = "Address" /\ f.status = NoStatus
    BY <1>3, <2>1 DEF Refusal, Fault
  <2>3. TypesOf(f.chain) = {"url.Error", "net.OpError", "rss.BlockedAddressError"}
    BY <2>2 DEF TypesOf
  <2>4. OfFetch(f) = Permanently("BlockedAddress")
    BY <2>3, HoldsTypes DEF OfFetch
  <2> QED BY <2>2, <2>4 DEF FetchClass, OfCause, FetchCauses, HasStatus
<1>4. CASE f \in Answers("rss.HTTPStatusError")
  <2>1. /\ f.chain = <<"rss.HTTPStatusError">> /\ f.cause = "Answer" /\ f.status \in Statuses
    BY <1>4 DEF Answers
  <2>2. TypesOf(f.chain) = {"rss.HTTPStatusError"}
    BY <2>1 DEF TypesOf
  <2>3. OfFetch(f) = OfStatus(f.status)
    BY <2>2, HoldsTypes DEF OfFetch
  <2> QED BY <2>1, <2>3 DEF FetchClass, FetchCauses, HasStatus
<1>5. CASE f = Fault("Connection", <<"error">>)
  <2>1. f.chain = <<"error">> /\ f.cause = "Connection" /\ f.status = NoStatus
    BY <1>5 DEF Fault
  <2>2. TypesOf(f.chain) = {"error"}
    BY <2>1 DEF TypesOf
  <2>3. OfTransport(f) = ForNow("Other")
    BY <2>2, OtherTransport DEF Certificates
  <2>4. OfFetch(f) = ForNow("Other")
    BY <2>2, <2>3, HoldsTypes DEF OfFetch
  <2> QED BY <2>1, <2>4 DEF FetchClass, OfCause, FetchCauses, HasStatus, NetCauses
<1>6. CASE f = Fault("Deadline", <<"timeout">>)
  <2>1. /\ OfTransport(f) = ForNow("Timeout") /\ TypesOf(f.chain) = {"timeout"}
        /\ f.cause = "Deadline" /\ f.status = NoStatus
    BY <1>6, LateTransport
  <2>2. ForNow("Timeout") # ForNow("Other")
    BY DEF ForNow
  <2>3. OfFetch(f) = ForNow("Timeout")
    BY <2>1, <2>2, HoldsTypes DEF OfFetch
  <2> QED BY <2>1, <2>3 DEF FetchClass, OfCause, FetchCauses, HasStatus, NetCauses
<1>7. CASE f = Fault("Size", <<"rss.ResponseTooLargeError">>)
  <2>1. f.chain = <<"rss.ResponseTooLargeError">> /\ f.cause = "Size" /\ f.status = NoStatus
    BY <1>7 DEF Fault
  <2>2. TypesOf(f.chain) = {"rss.ResponseTooLargeError"}
    BY <2>1 DEF TypesOf
  <2>3. OfTransport(f) = ForNow("Other")
    BY <2>2, OtherTransport DEF Certificates
  <2>4. OfFetch(f) = Permanently("ResponseTooLarge")
    BY <2>2, <2>3, HoldsTypes DEF OfFetch
  <2> QED BY <2>1, <2>4 DEF FetchClass, OfCause, FetchCauses, HasStatus
<1>8. CASE f = Fault("Format", <<"rss.ParseError", "rss.UnrecognizedFormatError">>)
  <2>1. /\ f.chain = <<"rss.ParseError", "rss.UnrecognizedFormatError">>
        /\ f.cause = "Format" /\ f.status = NoStatus
    BY <1>8 DEF Fault
  <2>2. TypesOf(f.chain) = {"rss.ParseError", "rss.UnrecognizedFormatError"}
    BY <2>1 DEF TypesOf
  <2>3. OfTransport(f) = ForNow("Other")
    BY <2>2, OtherTransport DEF Certificates
  <2>4. OfFetch(f) = Permanently("UnrecognizedFormat")
    BY <2>2, <2>3, HoldsTypes DEF OfFetch
  <2> QED BY <2>1, <2>4 DEF FetchClass, OfCause, FetchCauses, HasStatus
<1>9. CASE f = Fault("Document", <<"rss.ParseError", "error">>)
  <2>1. f.chain = <<"rss.ParseError", "error">> /\ f.cause = "Document" /\ f.status = NoStatus
    BY <1>9 DEF Fault
  <2>2. TypesOf(f.chain) = {"rss.ParseError", "error"}
    BY <2>1 DEF TypesOf
  <2>3. OfTransport(f) = ForNow("Other")
    BY <2>2, OtherTransport DEF Certificates
  <2>4. OfFetch(f) = Permanently("ParseError")
    BY <2>2, <2>3, HoldsTypes DEF OfFetch
  <2> QED BY <2>1, <2>4 DEF FetchClass, OfCause, FetchCauses, HasStatus
<1>10. CASE f \in {Fault("URL", <<"rss.InvalidURLError">> \o inner) :
                     inner \in {<<>>, <<"url.Error", "error">>}}
  <2>1. PICK inner \in {<<>>, <<"url.Error", "error">>} :
          f = Fault("URL", <<"rss.InvalidURLError">> \o inner)
    BY <1>10, Zenon
  <2> QED BY <1>1, <2>1
<1>11. CASE f \in Wrapped(<<"url.Error">>, NetworkFaults \union {Refusal})
  <2>1. PICK n \in NetworkFaults \union {Refusal} :
          f = [n EXCEPT !.chain = <<"url.Error">> \o @]
    BY <1>11, Zenon DEF Wrapped
  <2> QED BY <1>2, <1>3, <2>1
<1>12. CASE f = Fault("Redirect", <<"url.Error", "error">>)
  <2>1. f.chain = <<"url.Error", "error">> /\ f.cause = "Redirect" /\ f.status = NoStatus
    BY <1>12 DEF Fault
  <2>2. TypesOf(f.chain) = {"url.Error", "error"}
    BY <2>1 DEF TypesOf
  <2>3. OfTransport(f) = ForNow("Other")
    BY <2>2, OtherTransport DEF Certificates
  <2>4. OfFetch(f) = ForNow("Other")
    BY <2>2, <2>3, HoldsTypes DEF OfFetch
  <2> QED BY <2>1, <2>4 DEF FetchClass, OfCause, FetchCauses, HasStatus
<1> QED BY <1>4, <1>5, <1>6, <1>7, <1>8, <1>9, <1>10, <1>11, <1>12, Zenon DEF FetchFaults

\* So has a send, and a rate limit is all that is one.
LEMMA SendClasses ==
    ASSUME NEW f \in SendFaults
    PROVE  /\ OfSend(f) = SendClass(f) /\ f.cause \in SendCauses /\ HasStatus(f)
           /\ Holds(f, "discord.RateLimitError") <=> f.cause = "RateLimit"
<1> DEFINE Goal(e) == /\ OfSend(e) = SendClass(e) /\ e.cause \in SendCauses /\ HasStatus(e)
                      /\ Holds(e, "discord.RateLimitError") <=> e.cause = "RateLimit"
<1>1. ASSUME NEW cause \in {"Message", "Webhook", "Connection"},
             NEW chain \in {<<"error">>, <<"fmt.wrapError", "error">>}, f = Fault(cause, chain)
      PROVE  Goal(f)
  <2>1. f.chain = chain /\ f.cause = cause /\ f.status = NoStatus
    BY <1>1 DEF Fault
  <2>2. TypesOf(f.chain) \subseteq {"error", "fmt.wrapError"}
    BY <2>1 DEF TypesOf
  <2>3. OfTransport(f) = ForNow("Other")
    BY <2>2, OtherTransport DEF Certificates
  <2>4. OfSend(f) = ForNow("Other") /\ ~Holds(f, "discord.RateLimitError")
    BY <2>2, <2>3, HoldsTypes DEF OfSend
  <2> QED BY <2>1, <2>4 DEF SendClass, OfCause, SendCauses, HasStatus, NetCauses
<1>2. CASE f = Fault("Deadline", <<"timeout">>)
  <2>1. /\ OfTransport(f) = ForNow("Timeout") /\ TypesOf(f.chain) = {"timeout"}
        /\ f.cause = "Deadline" /\ f.status = NoStatus
    BY <1>2, LateTransport
  <2>2. OfSend(f) = ForNow("Timeout") /\ ~Holds(f, "discord.RateLimitError")
    BY <2>1, HoldsTypes DEF OfSend
  <2> QED BY <2>1, <2>2 DEF SendClass, OfCause, SendCauses, HasStatus, NetCauses
<1>3. CASE f = Fault("RateLimit", <<"discord.RateLimitError">>)
  <2>1. f.chain = <<"discord.RateLimitError">> /\ f.cause = "RateLimit" /\ f.status = NoStatus
    BY <1>3 DEF Fault
  <2>2. TypesOf(f.chain) = {"discord.RateLimitError"}
    BY <2>1 DEF TypesOf
  <2>3. OfSend(f) = ForNow("RateLimited") /\ Holds(f, "discord.RateLimitError")
    BY <2>2, HoldsTypes DEF OfSend
  <2> QED BY <2>1, <2>3 DEF SendClass, OfCause, SendCauses, HasStatus
<1>4. ASSUME NEW n \in NetworkFaults, f = [n EXCEPT !.chain = <<"fmt.wrapError">> \o @]
      PROVE  Goal(f)
  <2>1. "fmt.wrapError" \in Wrappers
    BY DEF Wrappers
  <2>2. /\ OfTransport(f) = OfCause(f.cause) /\ f.cause = n.cause /\ f.status = NoStatus
        /\ TypesOf(f.chain) \subseteq NetTypes \union Wrappers
    BY <1>4, <2>1, NetworkFaultForms, WrappedTransport
  <2>3. ~Holds(f, "discord.RateLimitError") /\ ~Holds(f, "discord.HTTPStatusError")
    BY <2>2, HoldsTypes DEF NetTypes, Wrappers
  <2>4. OfSend(f) = OfTransport(f)
    BY <2>3 DEF OfSend
  <2>5. f.cause \in NetCauses
    BY <2>2, NetworkFaultForms DEF IsNetworkFault
  <2> QED BY <2>2, <2>3, <2>4, <2>5 DEF SendClass, SendCauses, HasStatus, NetCauses
<1>5. CASE f \in Answers("discord.HTTPStatusError")
  <2>1. f.chain = <<"discord.HTTPStatusError">> /\ f.cause = "Answer" /\ f.status \in Statuses
    BY <1>5 DEF Answers
  <2>2. TypesOf(f.chain) = {"discord.HTTPStatusError"}
    BY <2>1 DEF TypesOf
  <2>3. ~Holds(f, "discord.RateLimitError") /\ Holds(f, "discord.HTTPStatusError")
    BY <2>2, HoldsTypes
  <2>4. OfSend(f) = SendClass(f)
    BY <2>1, <2>3 DEF OfSend, SendClass
  <2> QED BY <2>1, <2>3, <2>4 DEF SendCauses, HasStatus
<1>6. CASE f \in Wrapped(<<"fmt.wrapError">>, NetworkFaults)
  <2>1. PICK n \in NetworkFaults : f = [n EXCEPT !.chain = <<"fmt.wrapError">> \o @]
    BY <1>6, Zenon DEF Wrapped
  <2> QED BY <1>4, <2>1
<1>7. CASE \/ f = Fault("Webhook", <<"error">>) \/ f = Fault("Webhook", <<"fmt.wrapError", "error">>)
           \/ f = Fault("Message", <<"error">>) \/ f = Fault("Connection", <<"error">>)
  BY <1>1, <1>7
<1> QED BY <1>2, <1>3, <1>5, <1>6, <1>7, Zenon DEF SendFaults

-----------------------------------------------------------------------------
(* Causes and classes. *)

StatusReasons == {"HTTP404", "HTTP410", "RateLimited", "ServerError", "ClientError", "Other"}

\* A class that is permanent if and only if p.
IsPermanent(class, p) == (p => class.permanent = TRUE) /\ (~p => class.permanent = FALSE)

\* A refusal lasts, and a class of an answer is no other cause's but Other.
LEMMA StatusClasses ==
    ASSUME NEW status \in Statuses
    PROVE  /\ IsPermanent(OfStatus(status), status \in 400..499 \ {429})
           /\ OfStatus(status).reason \in StatusReasons
<1> DEFINE class == OfStatus(status)
<1>1. status \in 300..599
  BY StatusAssumption
<1>2. \/ class = Permanently("HTTP404") /\ status = 404
      \/ class = Permanently("HTTP410") /\ status = 410
      \/ class = ForNow("RateLimited") /\ status = 429
      \/ class = ForNow("ServerError") /\ status >= 500
      \/ class = Permanently("ClientError") /\ status \in 400..499 \ {404, 410, 429}
      \/ class = ForNow("Other") /\ status < 400
  BY <1>1 DEF OfStatus
<1> HIDE DEF class
<1>3. IsPermanent(class, status \in 400..499 \ {429}) /\ class.reason \in StatusReasons
  BY <1>1, <1>2 DEF IsPermanent, Permanently, ForNow, StatusReasons
<1> QED BY <1>3 DEF class

LastingCauses == {"Certificate", "Address", "URL", "Size", "Format", "Document"}

\* Which causes last, and which classes they have.
LEMMA CauseClasses ==
    ASSUME NEW cause \in (FetchCauses \union SendCauses) \ {"Answer"}
    PROVE  /\ IsPermanent(OfCause(cause), cause \in LastingCauses)
           /\ OfCause(cause).reason \in
                {"TLSError", "DNSFailure", "Timeout", "BlockedAddress", "InvalidURL",
                 "ResponseTooLarge", "UnrecognizedFormat", "ParseError", "RateLimited", "Other"}
           /\ OfCause(cause).reason = "Other" <=> cause \in LeftToOther
           /\ OfCause(cause).reason = "RateLimited" <=> cause = "RateLimit"
<1> DEFINE class == OfCause(cause)
<1>1. \/ class = Permanently("TLSError") /\ cause = "Certificate"
      \/ class = ForNow("DNSFailure") /\ cause = "NoName"
      \/ class = ForNow("Timeout") /\ cause = "Deadline"
      \/ class = Permanently("BlockedAddress") /\ cause = "Address"
      \/ class = Permanently("InvalidURL") /\ cause = "URL"
      \/ class = Permanently("ResponseTooLarge") /\ cause = "Size"
      \/ class = Permanently("UnrecognizedFormat") /\ cause = "Format"
      \/ class = Permanently("ParseError") /\ cause = "Document"
      \/ class = ForNow("RateLimited") /\ cause = "RateLimit"
      \/ class = ForNow("Other") /\ cause \in LeftToOther
  BY DEF OfCause, FetchCauses, SendCauses, NetCauses, LeftToOther
<1> HIDE DEF class
<1>2. IsPermanent(class, cause \in LastingCauses)
  BY <1>1 DEF IsPermanent, Permanently, ForNow, LastingCauses, LeftToOther
<1>3. /\ class.reason \in
           {"TLSError", "DNSFailure", "Timeout", "BlockedAddress", "InvalidURL",
            "ResponseTooLarge", "UnrecognizedFormat", "ParseError", "RateLimited", "Other"}
      /\ class.reason = "Other" <=> cause \in LeftToOther
      /\ class.reason = "RateLimited" <=> cause = "RateLimit"
  BY <1>1 DEF Permanently, ForNow, LeftToOther
<1> QED BY <1>2, <1>3 DEF class

\* From the two implications to the equality the property states.
LEMMA PermanentIsLasting ==
    ASSUME NEW class, NEW f, IsPermanent(class, Lasting(f))
    PROVE  class.permanent = Lasting(f)
<1>1. CASE Lasting(f)
  BY <1>1 DEF IsPermanent, Lasting
<1>2. CASE ~Lasting(f)
  BY <1>2 DEF IsPermanent, Lasting
<1> QED BY <1>1, <1>2

\* Causes with one class are one, or left to Other.
LEMMA CausesToldApart ==
    \A c, d \in (FetchCauses \union SendCauses) \ {"Answer"} :
        OfCause(c).reason = OfCause(d).reason
            => c = d \/ {c, d} \subseteq LeftToOther
  BY DEF OfCause, FetchCauses, SendCauses, NetCauses, Permanently, ForNow, LeftToOther

\* The three claims, of the classes: permanence, one class, classes apart.
LEMMA FetchClassesOfCauses ==
    ASSUME NEW f \in FetchFaults
    PROVE  /\ FetchClass(f).permanent = Lasting(f)
           /\ \A g \in FetchFaults :
                /\ f.cause = g.cause /\ f.status = g.status => FetchClass(f) = FetchClass(g)
                /\ ~Alike(f, g) => FetchClass(f).reason # FetchClass(g).reason
<1>1. f.cause \in FetchCauses /\ HasStatus(f)
  BY FetchClasses
<1>2. FetchClass(f).permanent = Lasting(f)
  <2>1. CASE f.cause # "Answer"
    <3>1. IsPermanent(FetchClass(f), f.cause \in LastingCauses)
      BY <1>1, <2>1, CauseClasses DEF FetchClass
    <3>2. IsPermanent(FetchClass(f), Lasting(f))
      BY <2>1, <3>1 DEF IsPermanent, Lasting, LastingCauses
    <3> QED BY <3>2, PermanentIsLasting
  <2>2. CASE f.cause = "Answer"
    <3>1. IsPermanent(FetchClass(f), f.status \in 400..499 \ {429})
      BY <1>1, <2>2, StatusClasses DEF FetchClass, HasStatus
    <3>2. IsPermanent(FetchClass(f), Lasting(f))
      BY <2>2, <3>1 DEF IsPermanent, Lasting
    <3> QED BY <3>2, PermanentIsLasting
  <2> QED BY <2>1, <2>2
<1> SUFFICES ASSUME NEW g \in FetchFaults
             PROVE  /\ f.cause = g.cause /\ f.status = g.status => FetchClass(f) = FetchClass(g)
                    /\ ~Alike(f, g) => FetchClass(f).reason # FetchClass(g).reason
  BY <1>2
<1>3. g.cause \in FetchCauses /\ HasStatus(g)
  BY FetchClasses
<1>4. f.cause = g.cause /\ f.status = g.status => FetchClass(f) = FetchClass(g)
  BY DEF FetchClass
<1>5. ASSUME NEW e, NEW h, e.cause = "Answer", h.cause # "Answer", HasStatus(e),
             h.cause \in FetchCauses, FetchClass(e).reason = FetchClass(h).reason
      PROVE  h.cause \in LeftToOther
  <2>1. FetchClass(e).reason \in StatusReasons
    BY <1>5, StatusClasses DEF FetchClass, HasStatus
  <2>2. FetchClass(h) = OfCause(h.cause)
    BY <1>5 DEF FetchClass
  <2> QED BY <1>5, <2>1, <2>2, CauseClasses DEF StatusReasons, FetchCauses, NetCauses
<1>6. ASSUME FetchClass(f).reason = FetchClass(g).reason
      PROVE  Alike(f, g)
  <2>1. CASE f.cause = "Answer" /\ g.cause = "Answer"
    BY <2>1 DEF Alike
  <2>2. CASE f.cause = "Answer" /\ g.cause # "Answer"
    BY <1>1, <1>3, <1>5, <1>6, <2>2 DEF Alike
  <2>3. CASE f.cause # "Answer" /\ g.cause = "Answer"
    BY <1>1, <1>3, <1>5, <1>6, <2>3 DEF Alike
  <2>4. CASE f.cause # "Answer" /\ g.cause # "Answer"
    <3>1. f.status = g.status
      BY <1>1, <1>3, <2>4 DEF HasStatus
    <3>2. f.cause = g.cause \/ {f.cause, g.cause} \subseteq LeftToOther
      BY <1>1, <1>3, <1>6, <2>4, CausesToldApart DEF FetchClass
    <3> QED BY <3>1, <3>2 DEF Alike
  <2> QED BY <2>1, <2>2, <2>3, <2>4
<1> QED BY <1>4, <1>6

\* A rate limit and an answer of 429 may share a class: Resolve tells them apart.
LEMMA SendClassesOfCauses ==
    ASSUME NEW f \in SendFaults
    PROVE  /\ SendClass(f).permanent = Lasting(f)
           /\ \A g \in SendFaults :
                /\ f.cause = g.cause /\ f.status = g.status => SendClass(f) = SendClass(g)
                /\ ~Alike(f, g) => \/ SendClass(f).reason # SendClass(g).reason
                                   \/ "RateLimit" \in {f.cause, g.cause} /\ f.cause # g.cause
<1>1. f.cause \in SendCauses /\ HasStatus(f)
  BY SendClasses
<1>2. SendClass(f).permanent = Lasting(f)
  <2>1. CASE f.cause # "Answer"
    <3>1. IsPermanent(SendClass(f), f.cause \in LastingCauses)
      BY <1>1, <2>1, CauseClasses DEF SendClass
    <3>2. IsPermanent(SendClass(f), Lasting(f))
      BY <2>1, <3>1 DEF IsPermanent, Lasting, LastingCauses
    <3> QED BY <3>2, PermanentIsLasting
  <2>2. CASE f.cause = "Answer" /\ f.status = 404
    <3>1. IsPermanent(SendClass(f), Lasting(f))
      BY <2>2 DEF SendClass, IsPermanent, Lasting, Permanently
    <3> QED BY <3>1, PermanentIsLasting
  <2>3. CASE f.cause = "Answer" /\ f.status # 404
    <3>1. IsPermanent(SendClass(f), f.status \in 400..499 \ {429})
      BY <1>1, <2>3, StatusClasses DEF SendClass, HasStatus
    <3>2. IsPermanent(SendClass(f), Lasting(f))
      BY <2>3, <3>1 DEF IsPermanent, Lasting
    <3> QED BY <3>2, PermanentIsLasting
  <2> QED BY <2>1, <2>2, <2>3
<1> SUFFICES ASSUME NEW g \in SendFaults
             PROVE  /\ f.cause = g.cause /\ f.status = g.status => SendClass(f) = SendClass(g)
                    /\ ~Alike(f, g) => \/ SendClass(f).reason # SendClass(g).reason
                                       \/ "RateLimit" \in {f.cause, g.cause} /\ f.cause # g.cause
  BY <1>2
<1>3. g.cause \in SendCauses /\ HasStatus(g)
  BY SendClasses
<1>4. f.cause = g.cause /\ f.status = g.status => SendClass(f) = SendClass(g)
  BY DEF SendClass
<1>5. ASSUME NEW e, NEW h, e.cause = "Answer", h.cause # "Answer", HasStatus(e),
             h.cause \in SendCauses, h.cause # "RateLimit",
             SendClass(e).reason = SendClass(h).reason
      PROVE  h.cause \in LeftToOther
  <2>1. SendClass(e).reason \in StatusReasons \union {"WebhookInvalid"}
    BY <1>5, StatusClasses DEF SendClass, HasStatus, Permanently
  <2>2. SendClass(h) = OfCause(h.cause)
    BY <1>5 DEF SendClass
  <2> QED BY <1>5, <2>1, <2>2, CauseClasses DEF StatusReasons, SendCauses, NetCauses
<1>6. ASSUME SendClass(f).reason = SendClass(g).reason,
             "RateLimit" \in {f.cause, g.cause} => f.cause = g.cause
      PROVE  Alike(f, g)
  <2>1. CASE f.cause = "Answer" /\ g.cause = "Answer"
    BY <2>1 DEF Alike
  <2>2. CASE f.cause = "Answer" /\ g.cause # "Answer"
    BY <1>1, <1>3, <1>5, <1>6, <2>2 DEF Alike
  <2>3. CASE f.cause # "Answer" /\ g.cause = "Answer"
    BY <1>1, <1>3, <1>5, <1>6, <2>3 DEF Alike
  <2>4. CASE f.cause # "Answer" /\ g.cause # "Answer"
    <3>1. f.status = g.status
      BY <1>1, <1>3, <2>4 DEF HasStatus
    <3>2. f.cause = g.cause \/ {f.cause, g.cause} \subseteq LeftToOther
      BY <1>1, <1>3, <1>6, <2>4, CausesToldApart DEF SendClass
    <3> QED BY <3>1, <3>2 DEF Alike
  <2> QED BY <2>1, <2>2, <2>3, <2>4
<1> QED BY <1>4, <1>6

\* What an outcome is counted under.
LEMMA Labels ==
    ASSUME NEW f
    PROVE  /\ Resolve("FetchFailed", f).class = OfFetch(f)
           /\ MetricLabel(Resolve("FetchFailed", f)) = <<"FetchFailed", OfFetch(f).reason>>
           /\ Holds(f, "discord.RateLimitError")
                => /\ Resolve("SendFailed", f).class = ForNow("RateLimited")
                   /\ MetricLabel(Resolve("SendFailed", f)) = <<"RateLimited">>
           /\ ~Holds(f, "discord.RateLimitError")
                => /\ Resolve("SendFailed", f).class = OfSend(f)
                   /\ MetricLabel(Resolve("SendFailed", f)) = <<"SendFailed", OfSend(f).reason>>
<1>1. Resolve("FetchFailed", f) = [kind |-> "FetchFailed", class |-> OfFetch(f)]
  BY DEF Resolve
<1>2. Holds(f, "discord.RateLimitError")
        => Resolve("SendFailed", f) = [kind |-> "RateLimited", class |-> ForNow("RateLimited")]
  BY DEF Resolve
<1>3. ~Holds(f, "discord.RateLimitError")
        => Resolve("SendFailed", f) = [kind |-> "SendFailed", class |-> OfSend(f)]
  BY DEF Resolve
<1> QED BY <1>1, <1>2, <1>3 DEF MetricLabel

\* Whatever statuses the servers answer with, classifyFetchError and
\* classifySendError (classify.go:112-190) go by what went wrong, however net,
\* net/http and fmt wrap it: a failure is permanent if and only if its cause
\* lasts, operations that failed of one cause are counted under one label, and
\* those a reader of the metrics must tell apart are not.
THEOREM ClassesToldByCauses == ClassesAreOfCauses
<1>1. ASSUME NEW f \in FetchFaults
      PROVE  /\ Resolve("FetchFailed", f).class.permanent = Lasting(f)
             /\ \A g \in FetchFaults :
                  LET Label(e) == MetricLabel(Resolve("FetchFailed", e))
                  IN  /\ f.cause = g.cause /\ f.status = g.status => Label(f) = Label(g)
                      /\ ~Alike(f, g) => Label(f) # Label(g)
  BY FetchClasses, FetchClassesOfCauses, Labels
<1>2. ASSUME NEW f \in SendFaults
      PROVE  /\ Resolve("SendFailed", f).class.permanent = Lasting(f)
             /\ \A g \in SendFaults :
                  LET Label(e) == MetricLabel(Resolve("SendFailed", e))
                  IN  /\ f.cause = g.cause /\ f.status = g.status => Label(f) = Label(g)
                      /\ ~Alike(f, g) => Label(f) # Label(g)
  <2>1. ASSUME NEW e \in SendFaults
        PROVE  /\ Resolve("SendFailed", e).class = SendClass(e)
               /\ MetricLabel(Resolve("SendFailed", e))
                    = IF e.cause = "RateLimit" THEN <<"RateLimited">>
                      ELSE <<"SendFailed", SendClass(e).reason>>
    <3>1. CASE e.cause = "RateLimit"
      BY <3>1, SendClasses, Labels DEF SendClass, OfCause
    <3>2. CASE e.cause # "RateLimit"
      BY <3>2, SendClasses, Labels
    <3> QED BY <3>1, <3>2
  <2>2. ASSUME NEW r PROVE <<"RateLimited">> # <<"SendFailed", r>>
    OBVIOUS
  <2>3. Resolve("SendFailed", f).class.permanent = Lasting(f)
    BY <2>1, SendClassesOfCauses
  <2>4. ASSUME NEW g \in SendFaults, f.cause = g.cause, f.status = g.status
        PROVE  MetricLabel(Resolve("SendFailed", f)) = MetricLabel(Resolve("SendFailed", g))
    BY <2>1, <2>4, SendClassesOfCauses
  <2>5. ASSUME NEW g \in SendFaults, ~Alike(f, g)
        PROVE  MetricLabel(Resolve("SendFailed", f)) # MetricLabel(Resolve("SendFailed", g))
    <3>1. \/ SendClass(f).reason # SendClass(g).reason
          \/ "RateLimit" \in {f.cause, g.cause} /\ f.cause # g.cause
      BY <2>5, SendClassesOfCauses
    <3>2. f.cause = "RateLimit" /\ g.cause = "RateLimit" => SendClass(f) = SendClass(g)
      BY DEF SendClass
    <3> QED BY <2>1, <2>2, <3>1, <3>2
  <2> QED BY <2>3, <2>4, <2>5
<1> QED BY <1>1, <1>2 DEF ClassesAreOfCauses

-----------------------------------------------------------------------------
(* The classes of failures. *)

\* Whatever was fetched or sent when a pass folds its outcomes into the status and
\* the series (recordAttempt, attempt.go), the class of a failure is that of its
\* cause: ClassesToldByCauses, in every state a group can get to.
THEOREM ClassesCorrect == Spec => []ClassesFollowCauses
<1>1. ClassesFollowCauses
  BY ClassesToldByCauses DEF ClassesFollowCauses
<1> QED BY <1>1, PTL
=============================================================================
