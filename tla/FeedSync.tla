------------------------------ MODULE FeedSync ------------------------------
(***************************************************************************)
(* The sync of one feed over many passes: what the publisher offers, what  *)
(* one fetch of it is turned into (feedSync.apply, begin and close), the   *)
(* send loop (entryDelivery.run), and what survives a pass that is lost    *)
(* before its status is written.                                           *)
(*                                                                         *)
(* The stored validators (ETag, Last-Modified) are the document they were  *)
(* issued for: {} when there are none, {doc} otherwise.  retries is the    *)
(* RetryCount of a delivery run; that a fetch failure ends such a run, and *)
(* the next successful fetch the run it started, is FeedRetry's subject,   *)
(* and here leaves 0.  Backoffs only delay a pass, and passes are not      *)
(* timed here.                                                             *)
(***************************************************************************)
EXTENDS DeliveryLedger

CONSTANTS
    MaxRetries,     \* cadence.maxRetries
    Unrenderable,   \* entries no template renders
    Filters,        \* the sets of entries a filter may reject
    Limits,         \* the values catchUpLimit may be given
    Configs,        \* "Usable", "BrokenTemplates" or "Invalid"
    BackDates,      \* entries that may be published after a newer one
    Window,         \* bound: entries the publisher keeps in the document
    MaxDeletions,   \* bound: entries the publisher takes back
    MaxEdits,       \* bound: edits of the spec
    MaxLosses       \* bound: lost passes and lost answers

ASSUME SyncAssumption ==
    /\ MaxRetries \in Nat \ {0}
    /\ Unrenderable \subseteq Entries /\ BackDates \subseteq Entries
    /\ Filters \subseteq SUBSET Entries /\ Filters # {}
    /\ Limits \subseteq Nat /\ Limits # {}
    /\ Configs \subseteq {"Usable", "BrokenTemplates", "Invalid"} /\ Configs # {}
    /\ Window \in Nat \ {0}
    /\ {MaxDeletions, MaxEdits, MaxLosses} \subseteq Nat

VARIABLES
    present,    \* the entries in the feed's document now
    published,  \* every entry published so far
    spec,       \* catchUpLimit, what the filter rejects, and whether templates
                \* and filter are usable
    stored,     \* the feed's status as written
    pc,         \* "idle" or "deliver"
    mem,        \* the status in the pass's hands
    doc,        \* the document the pass fetched
    todo,       \* the entries still to send, oldest first
    evidence,   \* the plan's whole scan
    hist,       \* history: see HistInit
    bounds      \* how often each bounded event has happened

vars == <<present, published, spec, stored, pc, mem, doc, todo, evidence, hist, bounds>>

NewStatus == [mark |-> NoMark, lastSent |-> <<>>, validators |-> {},
              initialized |-> FALSE, retries |-> 0]

HistInit ==
    [posts      |-> [e \in Entries |-> 0],  \* how many messages Discord has of each
     recorded   |-> {},    \* entries written to a status as handled
     backlog    |-> {},    \* the documents of passes before the first sync was over
     lostMark   |-> FALSE, \* whether a pass found its watermark lost
     trimmed    |-> {},    \* entries left out by a catch-up trim
     refused    |-> {},    \* entries of the document a plan's filter rejected
     waiting    |-> {},    \* entries of the document tried and still unresolved
     overtaken  |-> {},    \* of those, the ones a newer entry went before
     gaveUp     |-> {},    \* entries skipped
     backDated  |-> {},    \* entries of the document published after a newer one
     passed     |-> {}]    \* of those, the ones behind the watermark and never handled

Specs == [limit : Limits, rejected : Filters, config : Configs]

Init ==
    /\ present \in {S \in SUBSET Entries : Cardinality(S) <= Window}
    /\ published = present
    /\ spec \in Specs
    /\ stored = NewStatus /\ mem = NewStatus
    /\ pc = "idle" /\ doc = {} /\ todo = {} /\ evidence = {}
    /\ hist = HistInit
    /\ bounds = [deletions |-> 0, edits |-> 0, losses |-> 0]

Count(event) == bounds' = [bounds EXCEPT ![event] = @ + 1]

-----------------------------------------------------------------------------
(* The publisher and the owner of the spec. *)

\* Entries push the oldest out of a full window, and may appear with any date.
Publish(e) ==
    /\ e \notin published
    /\ e \in BackDates \/ \A f \in published : f < e
    /\ present' = {e} \union IF Cardinality(present) < Window THEN present
                             ELSE present \ {Min(present)}
    /\ published' = published \union {e}
    /\ hist' = [hist EXCEPT !.backDated = @ \union {x \in {e} : \E f \in published : f > x}]
    /\ UNCHANGED <<spec, stored, pc, mem, doc, todo, evidence, bounds>>

Delete(e) ==
    /\ bounds.deletions < MaxDeletions /\ Count("deletions")
    /\ present' = present \ {e}
    /\ UNCHANGED <<published, spec, stored, pc, mem, doc, todo, evidence, hist>>

\* An edit is seen by the next pass, which clears the retry run; the stored
\* validators stay, whatever the filter admits now.
Edit(edited) ==
    /\ pc = "idle" /\ bounds.edits < MaxEdits
    /\ spec' = edited
    /\ stored' = [stored EXCEPT !.retries = 0] /\ mem' = stored'
    /\ Count("edits")
    /\ UNCHANGED <<present, published, pc, doc, todo, evidence, hist>>

-----------------------------------------------------------------------------
(* Fetches that lead to no delivery. *)

\* The status of the pass is written and the pass is over.
Settle(status, history) ==
    /\ stored' = status /\ mem' = status
    /\ pc' = "idle" /\ doc' = {} /\ todo' = {} /\ evidence' = {}
    /\ hist' = history
    /\ UNCHANGED <<present, published, spec>>

WithValidators(status, fetched, sentByServer) ==
    IF sentByServer THEN [status EXCEPT !.validators = {fetched}] ELSE status

Closed(status) == [status EXCEPT !.initialized = TRUE, !.lastSent = Prune(@)]

FetchFails ==
    /\ pc = "idle"
    /\ Settle([stored EXCEPT !.retries = 0], hist)
    /\ UNCHANGED bounds

\* The fetch is conditional on the stored validators: a server may answer 304
\* if they are those of its document, and may always answer in full.
MayAnswer304 == present \in stored.validators

NotModified ==
    /\ pc = "idle" /\ MayAnswer304
    /\ Settle([stored EXCEPT !.initialized = TRUE, !.retries = 0], hist)
    /\ UNCHANGED bounds

FetchesEmpty(sentByServer) ==
    /\ pc = "idle" /\ present = {}
    /\ Settle(WithValidators([stored EXCEPT !.initialized = TRUE, !.retries = 0],
                             present, sentByServer), hist)
    /\ UNCHANGED bounds

\* Checked before the sync begins: nothing this module keeps changes.
HasConfigError ==
    /\ pc = "idle" /\ present # {} /\ spec.config = "Invalid"
    /\ UNCHANGED vars

-----------------------------------------------------------------------------
(* A delivery pass. *)

Matches(e) == e \notin spec.rejected
Renders(e) == spec.config = "Usable" /\ e \notin Unrenderable

\* e's date is not after the watermark's, which the document still has.
Past(status, e) == Found(status, present) /\ e <= status.mark

Begin ==
    /\ pc = "idle" /\ present # {} /\ spec.config # "Invalid"
    /\ LET batch == [stored EXCEPT !.lastSent = Append(@, {})]
           scan == Scan(stored, present, spec.limit)
       IN  /\ mem' = IF SkipsBacklog(stored, spec.limit)
                     THEN MarkNewest(batch, present) ELSE batch
           /\ evidence' = scan
           /\ todo' = {e \in Plan(stored, present, spec.limit) :
                         Matches(e) /\ ~Sent(stored, e)}
           /\ hist' = [hist EXCEPT
                !.backlog = IF stored.initialized THEN @ ELSE @ \union present,
                !.lostMark = @ \/ Lost(stored, present),
                !.trimmed = @ \union (present \ scan),
                !.refused = present \intersect
                  (@ \union {e \in Plan(stored, present, spec.limit) : ~Matches(e)}),
                !.waiting = {e \in @ \intersect present : Matches(e)},
                !.backDated = @ \intersect present,
                !.passed = present \intersect
                  (@ \union {e \in present \ hist.recorded : Past(stored, e)})]
    /\ pc' = "deliver" /\ doc' = present
    /\ UNCHANGED <<present, published, spec, stored, bounds>>

\* What was handled in this pass so far, and the next entry of the loop.
Batch == EntriesOf(mem.lastSent[Len(mem.lastSent)])
NewestEntry == Max(todo)  \* mutant: the fetch is sorted newest first
NextEntry == Min(todo)

PostedTo(h, e) == [h EXCEPT !.posts[e] = @ + 1]
Posted == {e \in Entries : hist.posts[e] > 0}

\* The batch of the pass is written with its status.
RecordedIn(h) == [h EXCEPT !.recorded = @ \union Batch]

\* e is resolved; whatever waited with an older date was overtaken.
ResolvedIn(h, e) ==
    [h EXCEPT !.waiting = @ \ {e},
              !.overtaken = @ \union {f \in h.waiting : f < e}]

Delivering == pc = "deliver" /\ todo # {}

Handle(e, h) ==
    /\ mem' = [MarkHandled(mem, e) EXCEPT !.retries = 0]
    /\ todo' = todo \ {e}
    /\ hist' = ResolvedIn(h, e)
    /\ UNCHANGED <<present, published, spec, stored, pc, doc, evidence, bounds>>

Sends ==
    /\ Delivering /\ Renders(NextEntry)
    /\ Handle(NextEntry, PostedTo(hist, NextEntry))

StopWithValidators(status, h) ==  \* mutant: they are stored all the same
    Settle(WithValidators(Closed(status), doc, TRUE), RecordedIn(h))

\* The pass stops with entries unresolved: no validators are stored.
StopPending(status, h) == Settle(Closed(status), RecordedIn(h))

\* Counted as far as the limit can tell the counts apart.
Failed(status) == [status EXCEPT !.retries = IF @ <= MaxRetries THEN @ + 1 ELSE @]

SendFails ==
    /\ Delivering /\ Renders(NextEntry)
    /\ StopPending(Failed(mem), [hist EXCEPT !.waiting = @ \union {NextEntry}])
    /\ UNCHANGED bounds

\* Discord has the message but its answer is lost: a failed send to the pass.
LosesAnswer ==
    /\ Delivering /\ Renders(NextEntry)
    /\ bounds.losses < MaxLosses /\ Count("losses")
    /\ StopPending(Failed(mem),
          [PostedTo(hist, NextEntry) EXCEPT !.waiting = @ \union {NextEntry}])

IsRateLimited ==
    /\ Delivering /\ Renders(NextEntry)
    /\ StopPending(mem, [hist EXCEPT !.waiting = @ \union {NextEntry}])
    /\ UNCHANGED bounds

AnyOtherEntry(e) == evidence \ {e} # {}  \* mutant: the others are not rendered
OtherRenders(e) == \E f \in evidence \ {e} : Matches(f) /\ Renders(f)

\* The failure of rendering e that has just been counted qualifies for a skip.
SkipsNow(e) == Failed(mem).retries > MaxRetries /\ OtherRenders(e)

RenderFails ==
    /\ Delivering /\ ~Renders(NextEntry) /\ ~SkipsNow(NextEntry)
    /\ StopPending(Failed(mem),
          [hist EXCEPT !.waiting = @ \union {NextEntry}])
    /\ UNCHANGED bounds

SkipsEntry ==
    /\ Delivering /\ ~Renders(NextEntry) /\ SkipsNow(NextEntry)
    /\ Handle(NextEntry, [hist EXCEPT
                            !.gaveUp = @ \union {NextEntry}])

\* Every entry of the document was sent, skipped, rejected or sent before.
AccountedFor(sentByServer) ==
    /\ pc = "deliver" /\ todo = {}
    /\ Settle(WithValidators([Closed(mem) EXCEPT !.retries = 0], doc, sentByServer),
              RecordedIn(hist))
    /\ UNCHANGED bounds

\* A panic once something was handled is settled as a failed send.
PanicsAfterHandling ==
    /\ pc = "deliver" /\ Batch # {}
    /\ StopPending(Failed(mem), hist)
    /\ UNCHANGED bounds

\* A panic with nothing handled restores the stored status.
PanicsBeforeHandling ==
    /\ pc = "deliver" /\ Batch = {}
    /\ Settle(stored, hist)
    /\ UNCHANGED bounds

\* The process stops, the status write fails, or the next reconcile reads the
\* group from a cache that does not have the write yet, and writes over it: the
\* next pass starts from the status before this one.
LosesPass ==
    /\ pc = "deliver"
    /\ bounds.losses < MaxLosses /\ Count("losses")
    /\ Settle(stored, hist)

-----------------------------------------------------------------------------
Idle ==
    \/ FetchFails \/ NotModified \/ HasConfigError \/ Begin
    \/ \E sentByServer \in BOOLEAN : FetchesEmpty(sentByServer)

Deliver ==
    \/ Sends \/ SendFails \/ LosesAnswer \/ IsRateLimited
    \/ RenderFails \/ SkipsEntry
    \/ \E sentByServer \in BOOLEAN : AccountedFor(sentByServer)
    \/ PanicsAfterHandling \/ PanicsBeforeHandling \/ LosesPass

Next ==
    \/ \E e \in Entries : Publish(e)
    \/ \E e \in present : Delete(e)
    \/ \E edited \in Specs : Edit(edited)
    \/ Idle \/ Deliver

\* A pass that has begun ends, a document the validators do not match is fetched
\* in the end, and neither panics nor refusals by Discord meet every try.
Fairness ==
    /\ WF_vars(Deliver) /\ SF_vars(Begin /\ present \notin stored.validators)
    /\ SF_vars(Sends) /\ SF_vars(RenderFails) /\ SF_vars(SkipsEntry)

Spec == Init /\ [][Next]_vars /\ Fairness

-----------------------------------------------------------------------------
(* Properties. *)

Keys == UNION {KeysOf[e] : e \in Entries}

Batches == Seq(SUBSET Keys)

StatusType ==
    [mark : Entries \union {NoMark}, lastSent : Batches,
     validators : SUBSET SUBSET Entries, initialized : BOOLEAN,
     retries : 0..(MaxRetries + 1)]

HistType ==
    [posts : [Entries -> Nat], recorded : SUBSET Entries, backlog : SUBSET Entries,
     lostMark : BOOLEAN, trimmed : SUBSET Entries, refused : SUBSET Entries,
     waiting : SUBSET Entries,
     overtaken : SUBSET Entries, gaveUp : SUBSET Entries,
     backDated : SUBSET Entries, passed : SUBSET Entries]

TypeOK ==
    /\ present \subseteq published /\ published \subseteq Entries
    /\ Cardinality(present) <= Window
    /\ spec \in Specs
    /\ stored \in StatusType /\ mem \in StatusType
    /\ pc \in {"idle", "deliver"}
    /\ todo \subseteq evidence /\ evidence \subseteq doc /\ doc \subseteq Entries
    /\ hist \in HistType
    /\ Posted \subseteq published /\ hist.recorded \subseteq published
    /\ bounds \in [deletions : 0..MaxDeletions, edits : 0..MaxEdits, losses : 0..MaxLosses]

\* What the send loop holds until the status is written.
Held == IF pc = "deliver" THEN Batch ELSE {}

Promise == INSTANCE Delivery WITH
    posts <- hist.posts, recorded <- hist.recorded,
    held <- Held, lost <- bounds.losses

\* The window, the watermark, the plan and the capped LastSent keys together
\* deliver as Delivery promises: an entry that was posted or given up on, and
\* recorded, is never handled again, and what is held is recorded whole or lost
\* to a crash, a failed or stale write, or an answer that never came.
DeliversOnce == Promise!Spec

\* A 304 hides nothing: whenever the stored validators match the document, a
\* full fetch of it would find nothing to send, but for entries an earlier plan
\* left out: by a catch-up trim, the first sync of a limit of 0, their date, or
\* the filter of that time, which may have been edited since.
NothingBehind304 ==
    present \in stored.validators =>
        \A e \in Plan(stored, present, spec.limit) :
            Sent(stored, e) \/ e \in hist.trimmed \union hist.passed \union hist.refused

\* Only an entry that is published with a date before another's is ever passed
\* over by the watermark: whatever fails, panics or is lost, the watermark does
\* not move past an entry the plans' filters admitted that is neither handled
\* nor trimmed.
OnlyBackDatedPassed ==
    hist.passed \subseteq hist.backDated \union hist.trimmed \union hist.refused

\* As long as the watermark is never lost, a feed's first sync brings at most
\* catchUpLimit entries of its document, and none for a limit of 0 -- per pass
\* whose record is lost, at worst, once more.
BacklogWithinLimit ==
    ~hist.lostMark =>
        Cardinality(Posted \intersect hist.backlog) <= spec.limit * (1 + bounds.losses)

\* With a limit of 0 the first sync skips what the feed already holds, and
\* nothing is left out after it unless the watermark is lost, not even from a
\* feed that was empty until then.
OnlyBacklogSkipped ==
    spec.limit = 0 /\ ~hist.lostMark => hist.trimmed \subseteq hist.backlog

\* No entry is handled before an older one that was tried and is still
\* unresolved in the document, unless a catch-up trim left the older one out.
OvertakenOnlyByTrim == hist.overtaken \subseteq hist.trimmed

\* Only an entry that no template renders is ever given up on: templates that
\* are broken for every entry hold the feed and drain nothing.
BrokenTemplatesLoseNothing == hist.gaveUp \subseteq Unrenderable

\* An entry that was tried is sent or skipped, leaves the feed or is trimmed,
\* if from some time on the feed can be fetched and each plan scans an entry
\* that renders: an entry that does not render cannot hold the others forever.
TriedEntriesResolved ==
    /\ <>[][~FetchFails]_vars
    /\ <>[](pc = "deliver" => \E f \in evidence : Matches(f) /\ Renders(f))
    => \A e \in Entries :
         e \in hist.waiting ~> e \notin hist.waiting \intersect present \/ e \in hist.trimmed

\* delivery.go:72-75 says that stopping at a failure makes later entries wait
\* behind it instead of jumping ahead.
NeverOvertaken == hist.overtaken = {}
=============================================================================
