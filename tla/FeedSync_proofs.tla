--------------------------- MODULE FeedSync_proofs ---------------------------
(***************************************************************************)
(* Proofs about FeedSync, for any entries, keys, filters, limits, cap       *)
(* and window, and any number of edits, deletions and losses.              *)
(*                                                                         *)
(* The argument for the order: an entry that was tried and is still        *)
(* unresolved is planned again by every pass whose document holds it,      *)
(* unless a trim left it out, because it is not recorded and the watermark *)
(* is not past it (Waiting).  The send loop takes the oldest entry first,  *)
(* so whatever it handles comes before all the others it still has.        *)
(***************************************************************************)
EXTENDS FeedSync, Recursion, FiniteSetTheorems

Typed ==
    /\ present \subseteq published /\ published \subseteq Entries
    /\ spec \in Specs
    /\ stored \in StatusType /\ mem \in StatusType
    /\ stored.mark \in published \union {NoMark} /\ mem.mark \in published \union {NoMark}
    /\ pc \in {"idle", "deliver"}
    /\ pc = "deliver" => Len(mem.lastSent) # 0
    /\ doc \subseteq published /\ todo \subseteq doc
    /\ evidence \subseteq Entries
    /\ hist \in HistType

Waiting ==
    /\ hist.waiting # {} => stored.initialized
    /\ \A e \in hist.waiting : ~Sent(stored, e) /\ (Past(stored, e) => e \in hist.trimmed)

\* So it is of the pass, which has what waits among what it has to send.
Planned ==
    pc = "deliver" =>
        /\ \A e \in hist.waiting :
             /\ ~Sent(mem, e)
             /\ e \in todo \union hist.trimmed
             /\ Past(mem, e) => e \in hist.trimmed
        /\ \A e \in todo : Matches(e) /\ ~Sent(mem, e) /\ ~Past(mem, e)

OInv == Typed /\ Waiting /\ Planned /\ OvertakenOnlyByTrim /\ BrokenTemplatesLoseNothing

-----------------------------------------------------------------------------
(* Sets of entries. *)

LEMMA EntriesAreNumbers ==
    /\ Entries \subseteq Nat /\ NoMark \notin Entries
    /\ Entries # {} => \E n \in Nat : \A e \in Entries : e <= n
  BY LedgerAssumption DEF NoMark

LEMMA NewestEntryExists ==
    ASSUME NEW S \in SUBSET Entries, S # {}
    PROVE  Max(S) \in S
  BY EntriesAreNumbers, Greatest

-----------------------------------------------------------------------------
(* The keys: each entry has one or two, and no two entries share one. *)

LEMMA KeysAreNumbers ==
    /\ Keys \subseteq Nat
    /\ \A e \in Entries : KeysOf[e] \subseteq Keys /\ KeysOf[e] # {}
    /\ \A e, f \in Entries : e # f => KeysOf[e] \intersect KeysOf[f] = {}
<1>1. \A e \in Entries : KeysOf[e] \subseteq Nat /\ KeysOf[e] # {}
  BY LedgerAssumption
<1>2. \A e, f \in Entries : e # f => KeysOf[e] \intersect KeysOf[f] = {}
  BY LedgerAssumption
<1> QED BY <1>1, <1>2 DEF Keys

LEMMA EntriesOfMore ==
    ASSUME NEW K, NEW L, K \subseteq L
    PROVE  EntriesOf(K) \subseteq EntriesOf(L) /\ EntriesOf(L) \subseteq Entries
  BY DEF EntriesOf

LEMMA EntriesJoin ==
    ASSUME NEW K, NEW e \in Entries
    PROVE  EntriesOf(K \union KeysOf[e]) = EntriesOf(K) \union {e}
  BY KeysAreNumbers DEF EntriesOf

LEMMA NoEntries == EntriesOf({}) = {}
  BY DEF EntriesOf

-----------------------------------------------------------------------------
(* The records. *)

LEMMA PruneDropsOnly ==
    ASSUME NEW ls \in Batches
    PROVE  /\ Prune(ls) \in Batches
           /\ Keyed(Prune(ls)) \subseteq Keyed(ls) /\ Recorded(Prune(ls)) \subseteq Recorded(ls)
<1> DEFINE all == Keyed(ls)
           kept == {k \in all :
                      Cardinality({l \in all : DroppedBefore(ls, k, l)}) < LastSentCap}
           batches == {i \in DOMAIN ls : ls[i] \intersect kept # {}}
           pruned == [i \in 1..(Max(batches) - Min(batches) + 1) |->
                        ls[i + Min(batches) - 1] \intersect kept]
<1>0. Prune(ls) = IF batches = {} THEN << >> ELSE pruned
  BY DEF Prune
<1> HIDE DEF kept
<1> SUFFICES Prune(ls) \in Batches /\ Keyed(Prune(ls)) \subseteq Keyed(ls)
  BY EntriesOfMore DEF Recorded
<1>1. CASE batches = {}
  BY <1>0, <1>1 DEF Keyed, Batches
<1>2. CASE batches # {}
  <2>1. Len(ls) \in Nat /\ batches \subseteq 1..Len(ls) /\ batches \in SUBSET Nat
    BY DEF Batches
  <2>2. /\ Min(batches) \in 1..Len(ls) /\ Max(batches) \in 1..Len(ls)
        /\ Min(batches) <= Max(batches)
    <3>1. Min(batches) \in batches
      BY <1>2, <2>1, Least
    <3>2. \A i \in batches : i <= Len(ls)
      BY <2>1
    <3> HIDE DEF batches
    <3>3. Max(batches) \in batches /\ \A i \in batches : i <= Max(batches)
      BY <1>2, <2>1, <3>2, Greatest
    <3> QED BY <2>1, <3>1, <3>3
  <2> HIDE DEF batches
  <2>3. \A i \in 1..(Max(batches) - Min(batches) + 1) :
          i + Min(batches) - 1 \in 1..Len(ls)
    BY <2>1, <2>2
  <2>4. \A i \in 1..(Max(batches) - Min(batches) + 1) :
          ls[i + Min(batches) - 1] \in SUBSET Keys
    BY <2>3 DEF Batches
  <2>5. pruned \in Batches
    <3> DEFINE count == Max(batches) - Min(batches) + 1
    <3>1. count \in Nat
      BY <2>1, <2>2
    <3> HIDE DEF count
    <3>2. pruned \in [1..count -> SUBSET Keys]
      BY <2>4 DEF count
    <3> HIDE DEF pruned
    <3> QED BY <3>1, <3>2 DEF Batches
  <2>6. Keyed(pruned) \subseteq Keyed(ls)
    BY <2>3 DEF Keyed, Batches
  <2> QED BY <1>0, <1>2, <2>5, <2>6
<1> QED BY <1>1, <1>2

LEMMA NewBatch ==
    ASSUME NEW ls \in Batches
    PROVE  /\ Append(ls, {}) \in Batches /\ Len(Append(ls, {})) # 0
           /\ Keyed(Append(ls, {})) = Keyed(ls)
           /\ Recorded(Append(ls, {})) = Recorded(ls)
<1>1. /\ Append(ls, {}) \in Batches /\ Len(Append(ls, {})) # 0
      /\ Keyed(Append(ls, {})) = Keyed(ls)
  BY DEF Batches, Keyed
<1> QED BY <1>1 DEF Recorded

LEMMA BatchGrows ==
    ASSUME NEW ls \in Batches, Len(ls) # 0, NEW e \in Entries
    PROVE  LET grown == [ls EXCEPT ![Len(ls)] = @ \union KeysOf[e]]
           IN  /\ grown \in Batches /\ Len(grown) = Len(ls)
               /\ Keyed(grown) = Keyed(ls) \union KeysOf[e]
               /\ Recorded(grown) = Recorded(ls) \union {e}
<1> DEFINE grown == [ls EXCEPT ![Len(ls)] = @ \union KeysOf[e]]
<1>1. Len(ls) \in DOMAIN ls /\ KeysOf[e] \subseteq Keys
  BY KeysAreNumbers DEF Batches
<1>2. /\ grown \in Batches /\ Len(grown) = Len(ls)
      /\ Keyed(grown) = Keyed(ls) \union KeysOf[e]
  BY <1>1 DEF Batches, Keyed
<1>3. Recorded(grown) = Recorded(ls) \union {e}
  BY <1>2, EntriesJoin DEF Recorded
<1> QED BY <1>2, <1>3

LEMMA NoRetries == 0 \in 0..(MaxRetries + 1)
  BY SyncAssumption

LEMMA HandledStatus ==
    ASSUME NEW st \in StatusType, Len(st.lastSent) # 0, NEW e \in Entries
    PROVE  LET handled == [MarkHandled(st, e) EXCEPT !.retries = 0]
           IN  /\ handled \in StatusType /\ handled.mark = e /\ Len(handled.lastSent) # 0
               /\ \A x : Sent(handled, x) <=> Sent(st, x) \/ x = e
<1> DEFINE grown == [st.lastSent EXCEPT ![Len(st.lastSent)] = @ \union KeysOf[e]]
           marked == [st EXCEPT !.mark = e]
           batched == [marked EXCEPT !.lastSent = grown]
           handled == [batched EXCEPT !.retries = 0]
<1>1. /\ grown \in Batches /\ Len(grown) # 0
      /\ Recorded(grown) = Recorded(st.lastSent) \union {e}
  BY BatchGrows DEF StatusType
<1>2. [MarkHandled(st, e) EXCEPT !.retries = 0] = handled
  <2>1. st.lastSent \in Batches /\ marked.lastSent = st.lastSent
    BY DEF StatusType
  <2>2. MarkHandled(st, e) = batched
    BY <2>1 DEF MarkHandled, StatusType
  <2> QED BY <2>2
<1> HIDE DEF grown
<1>3. handled \in StatusType /\ handled.mark = e /\ handled.lastSent = grown
  BY <1>1, NoRetries DEF StatusType
<1> HIDE DEF handled
<1>4. \A x : Sent(handled, x) <=> Sent(st, x) \/ x = e
  BY <1>1, <1>3 DEF Sent
<1> QED BY <1>1, <1>2, <1>3, <1>4

LEMMA ClosedStatus ==
    ASSUME NEW st \in StatusType
    PROVE  /\ Closed(st) \in StatusType /\ Closed(st).mark = st.mark
           /\ Closed(st).initialized
           /\ \A x : Sent(Closed(st), x) => Sent(st, x)
<1>1. Prune(st.lastSent) \in Batches /\ Recorded(Prune(st.lastSent)) \subseteq Recorded(st.lastSent)
  BY PruneDropsOnly DEF StatusType
<1> QED BY <1>1 DEF Closed, StatusType, Sent

\* A counted failure, a cleared run and new validators are not of the ledger.
SameLedger(s, t) == s.mark = t.mark /\ s.lastSent = t.lastSent /\ s.initialized = t.initialized

LEMMA OtherFields ==
    ASSUME NEW st \in StatusType, NEW d \in SUBSET Entries, NEW b \in BOOLEAN
    PROVE  /\ Failed(st) \in StatusType /\ SameLedger(Failed(st), st)
           /\ WithValidators(st, d, b) \in StatusType /\ SameLedger(WithValidators(st, d, b), st)
           /\ [st EXCEPT !.retries = 0] \in StatusType /\ SameLedger([st EXCEPT !.retries = 0], st)
  BY SyncAssumption DEF StatusType, SameLedger, Failed, WithValidators

-----------------------------------------------------------------------------
(* The history. *)

LEMMA HistoryOfPost ==
    ASSUME NEW h \in HistType, NEW e \in Entries
    PROVE  /\ PostedTo(h, e) \in HistType
           /\ PostedTo(h, e).waiting = h.waiting /\ PostedTo(h, e).trimmed = h.trimmed
           /\ PostedTo(h, e).overtaken = h.overtaken /\ PostedTo(h, e).gaveUp = h.gaveUp
<1> DEFINE posts == [h.posts EXCEPT ![e] = @ + 1]
<1>1. posts \in [Entries -> Nat]
  BY DEF HistType
<1>2. PostedTo(h, e) = [h EXCEPT !.posts = posts]
  BY DEF PostedTo, HistType
<1> HIDE DEF posts
<1> QED BY <1>1, <1>2 DEF HistType

LEMMA HistoryOfRecord ==
    ASSUME Typed, pc = "deliver", NEW h \in HistType
    PROVE  /\ RecordedIn(h) \in HistType
           /\ RecordedIn(h).waiting = h.waiting /\ RecordedIn(h).trimmed = h.trimmed
           /\ RecordedIn(h).overtaken = h.overtaken /\ RecordedIn(h).gaveUp = h.gaveUp
<1>2. Batch \in SUBSET Entries
  BY EntriesOfMore DEF Batch
<1> QED BY <1>2 DEF RecordedIn, HistType

LEMMA HistoryOfWait ==
    ASSUME NEW h \in HistType, NEW e \in Entries
    PROVE  LET waits == [h EXCEPT !.waiting = @ \union {e}]
           IN  /\ waits \in HistType /\ waits.waiting = h.waiting \union {e}
               /\ waits.trimmed = h.trimmed /\ waits.overtaken = h.overtaken
               /\ waits.gaveUp = h.gaveUp
  BY DEF HistType

LEMMA HistoryOfResolve ==
    ASSUME NEW h \in HistType, NEW e \in Entries
    PROVE  /\ ResolvedIn(h, e) \in HistType
           /\ ResolvedIn(h, e).waiting = h.waiting \ {e}
           /\ ResolvedIn(h, e).overtaken = h.overtaken \union {f \in h.waiting : f < e}
           /\ ResolvedIn(h, e).trimmed = h.trimmed /\ ResolvedIn(h, e).gaveUp = h.gaveUp
<1> DEFINE resolved == [h EXCEPT !.waiting = @ \ {e}]
           over == h.overtaken \union {f \in h.waiting : f < e}
<1>1. /\ resolved \in HistType /\ resolved.waiting = h.waiting \ {e}
      /\ resolved.overtaken = h.overtaken
      /\ resolved.trimmed = h.trimmed /\ resolved.gaveUp = h.gaveUp
      /\ over \in SUBSET Entries
  BY DEF HistType
<1>2. ResolvedIn(h, e) = [resolved EXCEPT !.overtaken = over]
  BY DEF ResolvedIn, HistType
<1> HIDE DEF resolved, over
<1>3. LET r == [resolved EXCEPT !.overtaken = over]
      IN  /\ r \in HistType /\ r.waiting = resolved.waiting /\ r.overtaken = over
          /\ r.trimmed = resolved.trimmed /\ r.gaveUp = resolved.gaveUp
  BY <1>1 DEF HistType
<1> QED BY <1>1, <1>2, <1>3 DEF over

\* The histories that differ in what the order is not about.
SameOrder(h) ==
    /\ h.trimmed = hist.trimmed /\ h.overtaken = hist.overtaken /\ h.gaveUp = hist.gaveUp

-----------------------------------------------------------------------------
(* What ends a pass. *)

LEMMA SettleKeeps ==
    ASSUME OInv, NEW status \in StatusType, NEW h \in HistType, Settle(status, h), SameOrder(h),
           status.mark \in published \union {NoMark},
           h.waiting # {} => status.initialized,
           \A e \in h.waiting :
             ~Sent(status, e) /\ (Past(status, e) => e \in h.trimmed)
    PROVE  OInv'
<1>1. /\ stored' = status /\ mem' = status
      /\ pc' = "idle" /\ doc' = {} /\ todo' = {} /\ evidence' = {}
      /\ hist' = h
      /\ UNCHANGED <<present, published, spec>>
  BY DEF Settle
<1>2. Typed'
  BY <1>1 DEF OInv, Typed
<1>3. Waiting'
  BY <1>1 DEF Waiting, Sent, Past, Found
<1> QED BY <1>1, <1>2, <1>3
           DEF OInv, Planned, OvertakenOnlyByTrim, BrokenTemplatesLoseNothing, SameOrder

\* A pass that delivers nothing leaves the ledger.
LEMMA LedgerKept ==
    ASSUME OInv, NEW status \in StatusType, status.mark = stored.mark,
           status.lastSent = stored.lastSent, stored.initialized => status.initialized,
           Settle(status, hist)
    PROVE  OInv'
<1>1. /\ SameOrder(hist) /\ hist \in HistType
      /\ status.mark \in published \union {NoMark}
  BY DEF OInv, Typed, SameOrder
<1>2. hist.waiting # {} => status.initialized
  BY DEF OInv, Waiting
<1>3. \A e \in hist.waiting :
        ~Sent(status, e) /\ (Past(status, e) => e \in hist.trimmed)
  BY DEF OInv, Waiting, Sent, Past, Found
<1> QED BY <1>1, <1>2, <1>3, SettleKeeps

\* A pass that stops or ends records what it handled; only what it had to send
\* joins what waits.
LEMMA PassCloses ==
    ASSUME OInv, pc = "deliver", NEW status \in StatusType, SameLedger(status, Closed(mem)),
           NEW h \in HistType, SameOrder(h), h.waiting \subseteq hist.waiting \union todo,
           Settle(status, RecordedIn(h))
    PROVE  OInv'
<1>1. /\ RecordedIn(h) \in HistType /\ SameOrder(RecordedIn(h))
      /\ RecordedIn(h).waiting = h.waiting
      /\ RecordedIn(h).trimmed = hist.trimmed
  BY HistoryOfRecord DEF OInv, SameOrder
<1>2. /\ status.mark = mem.mark /\ status.initialized
      /\ \A x : Sent(status, x) => Sent(mem, x)
  BY ClosedStatus DEF OInv, Typed, SameLedger, Sent
<1>3. status.mark \in published \union {NoMark}
  BY <1>2 DEF OInv, Typed
<1>4. ASSUME NEW e \in h.waiting
      PROVE  ~Sent(status, e) /\ (Past(status, e) => e \in hist.trimmed)
  <2>1. CASE e \in hist.waiting
    BY <1>2, <2>1 DEF OInv, Waiting, Planned, Past, Found
  <2>2. CASE e \in todo
    BY <1>2, <2>2 DEF OInv, Planned, Past, Found
  <2> QED BY <2>1, <2>2
<1> QED BY <1>1, <1>2, <1>3, <1>4, SettleKeeps

LEMMA SameClosed ==
    ASSUME NEW s \in StatusType, NEW t \in StatusType, SameLedger(s, t)
    PROVE  SameLedger(Closed(s), Closed(t))
  BY DEF SameLedger, Closed, StatusType

LEMMA StopKeeps ==
    ASSUME OInv, pc = "deliver", NEW status \in StatusType, SameLedger(status, mem),
           NEW h \in HistType, SameOrder(h), h.waiting \subseteq hist.waiting \union todo,
           StopPending(status, h)
    PROVE  OInv'
<1>1. SameLedger(Closed(status), Closed(mem)) /\ Closed(status) \in StatusType
  BY SameClosed, ClosedStatus DEF OInv, Typed
<1> QED BY <1>1, PassCloses DEF StopPending

LEMMA NextIsOldest ==
    ASSUME OInv, Delivering
    PROVE  /\ pc = "deliver" /\ NextEntry \in todo /\ NextEntry \in Entries
           /\ NextEntry \in published
           /\ \A e \in todo : NextEntry <= e
<1>1. todo \subseteq Entries /\ todo \subseteq published /\ todo # {}
  BY DEF Delivering, OInv, Typed
<1>2. todo \in SUBSET Nat
  BY <1>1, EntriesAreNumbers
<1> QED BY <1>1, <1>2, Least DEF NextEntry, Delivering

\* The next entry is handled: whatever waits and is older was trimmed.
LEMMA HandleKeeps ==
    ASSUME OInv, Delivering, NEW h \in HistType, Handle(NextEntry, h),
           h.waiting = hist.waiting, h.trimmed = hist.trimmed,
           h.overtaken = hist.overtaken, h.gaveUp \subseteq Unrenderable
    PROVE  OInv'
<1> DEFINE e == NextEntry
<1>1. /\ pc = "deliver" /\ e \in todo /\ e \in Entries /\ e \in published
      /\ \A f \in todo : e <= f
  BY NextIsOldest
<1> HIDE DEF e
<1>2. /\ mem' = [MarkHandled(mem, e) EXCEPT !.retries = 0]
      /\ todo' = todo \ {e} /\ hist' = ResolvedIn(h, e)
      /\ UNCHANGED <<present, published, spec, stored, pc, doc, evidence>>
  BY DEF Handle, e
<1>3. /\ mem' \in StatusType /\ mem'.mark = e /\ Len(mem'.lastSent) # 0
      /\ \A x : Sent(mem', x) <=> Sent(mem, x) \/ x = e
  BY <1>1, <1>2, HandledStatus DEF OInv, Typed
<1>4. /\ hist' \in HistType /\ hist'.waiting = hist.waiting \ {e}
      /\ hist'.overtaken = hist.overtaken \union {f \in hist.waiting : f < e}
      /\ hist'.trimmed = hist.trimmed /\ hist'.gaveUp = h.gaveUp
  BY <1>1, <1>2, HistoryOfResolve
<1>5. hist.waiting \subseteq Nat /\ todo \subseteq Nat /\ e \in Nat
  BY <1>1, EntriesAreNumbers DEF OInv, Typed, HistType
<1>6. \A f \in hist.waiting : f < e => f \in hist.trimmed
  BY <1>1, <1>5 DEF OInv, Planned
<1>7. Typed'
  BY <1>1, <1>2, <1>3, <1>4 DEF OInv, Typed
<1>8. Waiting'
  BY <1>2, <1>4 DEF OInv, Waiting, Sent, Past, Found
<1>9. Planned'
  <2>1. ASSUME NEW f \in hist'.waiting
        PROVE  /\ ~Sent(mem', f)
               /\ f \in todo' \union hist'.trimmed
               /\ f <= mem'.mark => f \in hist'.trimmed
    <3>1. f \in hist.waiting /\ f # e
      BY <1>4
    <3>2. ~Sent(mem, f) /\ f \in todo \union hist.trimmed
      BY <1>1, <3>1 DEF OInv, Planned
    <3>3. f <= e => f < e
      BY <1>5, <3>1
    <3> QED BY <1>2, <1>3, <1>4, <1>6, <3>1, <3>2, <3>3
  <2>2. ASSUME NEW f \in todo'
        PROVE  Matches(f) /\ ~Sent(mem', f) /\ ~(f <= mem'.mark)
    <3>1. f \in todo /\ f # e
      BY <1>2
    <3>2. Matches(f) /\ ~Sent(mem, f)
      BY <1>1, <3>1 DEF OInv, Planned
    <3>3. f \in Nat /\ e \in Nat /\ e <= f
      BY <1>1, <1>5, <3>1
    <3>4. ~(f <= e)
      BY <3>1, <3>3
    <3> QED BY <1>3, <3>1, <3>2, <3>4
  <2> QED BY <1>2, <2>1, <2>2 DEF Planned, Matches, Sent, Past, Found
<1> QED BY <1>4, <1>6, <1>7, <1>8, <1>9
           DEF OInv, OvertakenOnlyByTrim, BrokenTemplatesLoseNothing

-----------------------------------------------------------------------------
(* The invariant is inductive: the publisher, the owner, and the fetches. *)

LEMMA OrderInit == Init => OInv
<1> SUFFICES ASSUME Init PROVE OInv
  OBVIOUS
<1>1. NewStatus \in StatusType /\ NewStatus.mark = NoMark
  BY NoRetries DEF NewStatus, StatusType, Batches
<1>2. HistInit \in HistType
  BY DEF HistInit, HistType
<1>3. /\ hist.waiting = {} /\ hist.overtaken = {} /\ hist.gaveUp = {}
  BY DEF Init, HistInit
<1>4. Typed
  BY <1>1, <1>2 DEF Init, Typed
<1> QED BY <1>3, <1>4
           DEF Init, OInv, Waiting, Planned, OvertakenOnlyByTrim, BrokenTemplatesLoseNothing

\* No entry appears twice, so a watermark that was lost stays lost.
LEMMA DocumentChanges ==
    ASSUME OInv,
           published' \subseteq Entries, published \subseteq published',
           present' \subseteq published',
           \A e \in published : e \in present' => e \in present,
           hist' \in HistType, SameOrder(hist'), hist'.waiting = hist.waiting,
           UNCHANGED <<spec, stored, pc, mem, doc, todo, evidence>>
    PROVE  OInv'
<1>1. Typed'
  BY DEF OInv, Typed
<1>2. /\ stored.mark \in present' => stored.mark \in present
      /\ mem.mark \in present' => mem.mark \in present
  BY EntriesAreNumbers DEF OInv, Typed
<1>3. Waiting'
  BY <1>2 DEF OInv, Waiting, SameOrder, Sent, Past, Found
<1>4. Planned'
  BY <1>2 DEF OInv, Planned, SameOrder, Matches, Sent, Past, Found
<1> QED BY <1>1, <1>3, <1>4
           DEF OInv, SameOrder, OvertakenOnlyByTrim, BrokenTemplatesLoseNothing

LEMMA PublishKeeps ==
    ASSUME OInv, NEW e \in Entries, Publish(e)
    PROVE  OInv'
<1>1. present' \subseteq present \union {e} /\ published' = published \union {e}
      /\ e \notin published
  BY DEF Publish
<1>2. present \subseteq published /\ published \subseteq Entries
  BY DEF OInv, Typed
<1>3. hist' \in HistType /\ SameOrder(hist') /\ hist'.waiting = hist.waiting
  <2> DEFINE late == hist.backDated \union {x \in {e} : \E f \in published : f > x}
  <2>1. hist \in HistType /\ late \subseteq Entries
    BY DEF OInv, Typed, HistType
  <2>2. hist' = [hist EXCEPT !.backDated = late]
    BY DEF Publish
  <2> HIDE DEF late
  <2> QED BY <2>1, <2>2 DEF HistType, SameOrder
<1> QED BY <1>1, <1>2, <1>3, DocumentChanges DEF Publish

LEMMA DeleteKeeps ==
    ASSUME OInv, NEW e \in present, Delete(e)
    PROVE  OInv'
<1>1. present' \subseteq present /\ published' = published
  BY DEF Delete
<1>2. present \subseteq published /\ published \subseteq Entries
  BY DEF OInv, Typed
<1>3. hist' \in HistType /\ SameOrder(hist') /\ hist'.waiting = hist.waiting
  BY DEF Delete, OInv, Typed, SameOrder
<1> QED BY <1>1, <1>2, <1>3, DocumentChanges DEF Delete

LEMMA EditKeeps ==
    ASSUME OInv, NEW edited \in Specs, Edit(edited)
    PROVE  OInv'
<1>1. /\ pc = "idle" /\ spec' = edited
      /\ stored' = [stored EXCEPT !.retries = 0] /\ mem' = stored'
      /\ UNCHANGED <<present, published, pc, doc, todo, evidence, hist>>
  BY DEF Edit
<1>2. stored' \in StatusType /\ SameLedger(stored', stored)
  BY <1>1, OtherFields DEF OInv, Typed
<1>3. Typed'
  BY <1>1, <1>2 DEF OInv, Typed, SameLedger
<1>4. Waiting'
  BY <1>1, <1>2 DEF OInv, Waiting, Sent, Past, Found, SameLedger
<1> QED BY <1>1, <1>3, <1>4
           DEF OInv, Planned, OvertakenOnlyByTrim, BrokenTemplatesLoseNothing

LEMMA FetchKeeps ==
    ASSUME OInv,
           \/ FetchFails \/ NotModified \/ HasConfigError
           \/ \E sentByServer \in BOOLEAN : FetchesEmpty(sentByServer)
    PROVE  OInv'
<1>0. stored \in StatusType /\ present \in SUBSET Entries
  BY DEF OInv, Typed
<1> DEFINE cleared == [stored EXCEPT !.retries = 0]
           synced == [stored EXCEPT !.initialized = TRUE, !.retries = 0]
<1>1. /\ cleared \in StatusType /\ cleared.mark = stored.mark
      /\ cleared.lastSent = stored.lastSent /\ cleared.initialized = stored.initialized
  BY <1>0, NoRetries DEF StatusType
<1>2. /\ synced \in StatusType /\ synced.mark = stored.mark
      /\ synced.lastSent = stored.lastSent /\ synced.initialized
  BY <1>0, NoRetries DEF StatusType
<1>3. CASE FetchFails
  BY <1>1, <1>3, LedgerKept DEF FetchFails
<1>4. CASE NotModified
  BY <1>2, <1>4, LedgerKept DEF NotModified
<1>5. CASE HasConfigError
  BY <1>5 DEF HasConfigError, vars, OInv, Typed, Waiting, Planned, Matches, Sent, Past, Found,
              OvertakenOnlyByTrim, BrokenTemplatesLoseNothing
<1>6. ASSUME NEW sentByServer \in BOOLEAN, FetchesEmpty(sentByServer)
      PROVE  OInv'
  <2> DEFINE validated == WithValidators(synced, present, sentByServer)
  <2>1. validated \in StatusType /\ SameLedger(validated, synced)
    <3> HIDE DEF synced
    <3> QED BY <1>0, <1>2, OtherFields
  <2>2. Settle(validated, hist)
    BY <1>6 DEF FetchesEmpty
  <2> HIDE DEF validated, synced
  <2> QED BY <1>2, <2>1, <2>2, LedgerKept DEF SameLedger
<1> QED BY <1>3, <1>4, <1>5, <1>6

-----------------------------------------------------------------------------
(* The beginning of a delivery pass. *)

LEMMA BeginKeeps ==
    ASSUME OInv, Begin
    PROVE  OInv'
<1> DEFINE batch == [stored EXCEPT !.lastSent = Append(@, {})]
           scan == Scan(stored, present, spec.limit)
           plan == Plan(stored, present, spec.limit)
           skips == SkipsBacklog(stored, spec.limit)
<1>1. /\ pc = "idle" /\ present # {} /\ pc' = "deliver" /\ doc' = present
      /\ UNCHANGED <<present, published, spec, stored>>
      /\ mem' = IF skips THEN MarkNewest(batch, present) ELSE batch
      /\ evidence' = scan
      /\ todo' = {e \in plan : Matches(e) /\ ~Sent(stored, e)}
  BY DEF Begin
<1>2. /\ batch \in StatusType /\ batch.mark = stored.mark /\ Len(batch.lastSent) # 0
      /\ \A x : Sent(batch, x) <=> Sent(stored, x)
  <2>1. /\ Append(stored.lastSent, {}) \in Batches
        /\ Len(Append(stored.lastSent, {})) # 0
        /\ Recorded(Append(stored.lastSent, {})) = Recorded(stored.lastSent)
    BY NewBatch DEF OInv, Typed, StatusType
  <2> QED BY <2>1 DEF OInv, Typed, StatusType, Sent
<1>3. /\ mem' \in StatusType /\ Len(mem'.lastSent) # 0
      /\ mem'.mark \in published \union {NoMark}
      /\ ~skips => mem'.mark = stored.mark
      /\ \A x : Sent(mem', x) <=> Sent(stored, x)
  <2>1. CASE ~skips
    BY <1>1, <1>2, <2>1 DEF OInv, Typed
  <2>2. CASE skips
    <3>1. Max(present) \in present /\ present \subseteq published /\ published \subseteq Entries
      BY <1>1, NewestEntryExists DEF OInv, Typed
    <3>2. mem' = [batch EXCEPT !.mark = Max(present)]
      BY <1>1, <2>2 DEF MarkNewest
    <3> HIDE DEF batch
    <3>3. /\ mem' \in StatusType /\ mem'.mark = Max(present)
          /\ mem'.lastSent = batch.lastSent
      BY <1>2, <3>1, <3>2 DEF StatusType
    <3> QED BY <1>2, <2>2, <3>1, <3>3 DEF Sent
  <2> QED BY <2>1, <2>2
<1>4. scan \subseteq present /\ plan \subseteq scan /\ (skips => scan = {})
  BY DEF Scan, Plan, LimitCatchUp, Newest
<1>5. /\ hist' \in HistType
      /\ hist'.waiting = {e \in hist.waiting \intersect present : Matches(e)}
      /\ hist'.trimmed = hist.trimmed \union (present \ scan)
      /\ hist'.overtaken = hist.overtaken /\ hist'.gaveUp = hist.gaveUp
  <2> DEFINE behind == {e \in present \ hist.recorded : Past(stored, e)}
             unmatched == {e \in plan : ~Matches(e)}
             still == {e \in hist.waiting \intersect present : Matches(e)}
  <2>1. hist \in HistType /\ present \in SUBSET Entries
    BY DEF OInv, Typed
  <2>2. hist' = [hist EXCEPT
                   !.backlog = IF stored.initialized THEN @ ELSE @ \union present,
                   !.lostMark = @ \/ Lost(stored, present),
                   !.trimmed = @ \union (present \ scan),
                   !.refused = present \intersect (@ \union unmatched),
                   !.waiting = {e \in @ \intersect present : Matches(e)},
                   !.backDated = @ \intersect present,
                   !.passed = present \intersect (@ \union behind)]
    BY DEF Begin
  <2> HIDE DEF scan, behind, unmatched
  <2>3. Lost(stored, present) \in BOOLEAN
    BY DEF Lost
  <2>4. hist' = [hist EXCEPT
                   !.backlog = IF stored.initialized THEN hist.backlog
                               ELSE hist.backlog \union present,
                   !.lostMark = hist.lostMark \/ Lost(stored, present),
                   !.trimmed = hist.trimmed \union (present \ scan),
                   !.refused = present \intersect (hist.refused \union unmatched),
                   !.waiting = still,
                   !.backDated = hist.backDated \intersect present,
                   !.passed = present \intersect (hist.passed \union behind)]
    BY <2>1, <2>2 DEF HistType
  <2>5. still \subseteq Entries
    BY <2>1 DEF HistType
  <2> HIDE DEF still
  <2>6. hist' \in HistType /\ hist'.waiting = still
        /\ hist'.trimmed = hist.trimmed \union (present \ scan)
        /\ hist'.overtaken = hist.overtaken /\ hist'.gaveUp = hist.gaveUp
    BY <2>1, <2>3, <2>4, <2>5 DEF HistType
  <2> QED BY <2>6 DEF still
<1> HIDE DEF batch, scan, plan
<1>6. Typed'
  BY <1>1, <1>3, <1>4, <1>5 DEF OInv, Typed
<1>7. Waiting'
  BY <1>1, <1>5 DEF OInv, Waiting, Sent, Past, Found
<1>8. skips => hist'.waiting = {} /\ todo' = {}
  BY <1>1, <1>4, <1>5 DEF OInv, Waiting, SkipsBacklog
<1>9. \A e \in scan : e \in plan <=> ~Past(stored, e)
  <2>1. plan = {e \in scan : stored.mark \in present => e > stored.mark}
    BY DEF plan, scan, Plan, Found
  <2>2. present \subseteq Nat /\ scan \subseteq Nat
    BY <1>4, EntriesAreNumbers DEF OInv, Typed
  <2>3. ASSUME NEW e \in scan, stored.mark \in present
        PROVE  e > stored.mark <=> ~(e <= stored.mark)
    <3>1. e \in Nat /\ stored.mark \in Nat
      BY <2>2, <2>3
    <3> QED BY <3>1
  <2> QED BY <2>1, <2>3 DEF Past, Found
<1>10. \A e \in plan : ~Past(stored, e)
  BY <1>4, <1>9
<1>11. Planned'
  <2>1. ASSUME NEW e \in hist'.waiting
        PROVE  /\ ~Sent(mem', e)
               /\ e \in todo' \union hist'.trimmed
               /\ Past(stored, e) => e \in hist'.trimmed
    <3>1. e \in hist.waiting /\ e \in present /\ Matches(e)
      BY <1>5
    <3>2. ~Sent(stored, e) /\ (Past(stored, e) => e \in hist.trimmed)
      BY <3>1 DEF OInv, Waiting
    <3>3. e \in scan => e \in todo' \union hist.trimmed
      BY <1>1, <1>9, <3>1, <3>2
    <3> QED BY <1>3, <1>5, <3>1, <3>2, <3>3
  <2>2. ASSUME NEW e \in todo'
        PROVE  Matches(e) /\ ~Sent(mem', e) /\ ~Past(stored, e)
    BY <1>1, <1>3, <1>10
  <2> QED BY <1>1, <1>3, <1>8, <2>1, <2>2 DEF Planned, Matches, Sent, Past, Found
<1> QED BY <1>5, <1>6, <1>7, <1>11
           DEF OInv, OvertakenOnlyByTrim, BrokenTemplatesLoseNothing

-----------------------------------------------------------------------------
(* The send loop. *)

LEMMA SendsKeeps ==
    ASSUME OInv, Sends
    PROVE  OInv'
<1>1. Delivering /\ Handle(NextEntry, PostedTo(hist, NextEntry))
  BY DEF Sends
<1>2. NextEntry \in Entries /\ hist \in HistType
  BY <1>1, NextIsOldest DEF OInv, Typed
<1>3. /\ PostedTo(hist, NextEntry) \in HistType
      /\ PostedTo(hist, NextEntry).waiting = hist.waiting
      /\ PostedTo(hist, NextEntry).trimmed = hist.trimmed
      /\ PostedTo(hist, NextEntry).overtaken = hist.overtaken
      /\ PostedTo(hist, NextEntry).gaveUp = hist.gaveUp
  BY <1>2, HistoryOfPost
<1>4. PostedTo(hist, NextEntry).gaveUp \subseteq Unrenderable
  BY <1>3 DEF OInv, BrokenTemplatesLoseNothing
<1> QED BY <1>1, <1>3, <1>4, HandleKeeps

\* Another entry renders, so the templates do: it is this entry's own fault.
LEMMA SkipsKeeps ==
    ASSUME OInv, SkipsEntry
    PROVE  OInv'
<1> DEFINE h == [hist EXCEPT !.gaveUp = @ \union {NextEntry}]
<1>1. /\ Delivering /\ ~Renders(NextEntry) /\ SkipsNow(NextEntry)
      /\ Handle(NextEntry, h)
  BY DEF SkipsEntry
<1>2. NextEntry \in Entries /\ hist \in HistType
  BY <1>1, NextIsOldest DEF OInv, Typed
<1>3. NextEntry \in Unrenderable
  BY <1>1 DEF SkipsNow, OtherRenders, Renders
<1>4. /\ h \in HistType /\ h.waiting = hist.waiting /\ h.trimmed = hist.trimmed
      /\ h.overtaken = hist.overtaken /\ h.gaveUp = hist.gaveUp \union {NextEntry}
  BY <1>2 DEF HistType
<1>5. h.gaveUp \subseteq Unrenderable
  BY <1>3, <1>4 DEF OInv, BrokenTemplatesLoseNothing
<1> HIDE DEF h
<1> QED BY <1>1, <1>4, <1>5, HandleKeeps

LEMMA StopsKeep ==
    ASSUME OInv,
           SendFails \/ LosesAnswer \/ IsRateLimited \/ RenderFails \/ PanicsAfterHandling
    PROVE  OInv'
<1>1. /\ mem \in StatusType /\ hist \in HistType /\ SameLedger(mem, mem)
      /\ Failed(mem) \in StatusType /\ SameLedger(Failed(mem), mem)
  <2>1. {} \in SUBSET Entries /\ TRUE \in BOOLEAN
    OBVIOUS
  <2> QED BY <2>1, OtherFields DEF OInv, Typed, SameLedger
<1> DEFINE waits(h) == [h EXCEPT !.waiting = @ \union {NextEntry}]
           fits(h) == h \in HistType /\ SameOrder(h) /\ h.waiting \subseteq hist.waiting \union todo
<1>2. fits(hist)
  BY <1>1 DEF SameOrder
<1>3. ASSUME Delivering
      PROVE  fits(waits(hist)) /\ fits(waits(PostedTo(hist, NextEntry)))
  <2>1. NextEntry \in Entries /\ NextEntry \in todo
    BY <1>3, NextIsOldest
  <2>2. /\ PostedTo(hist, NextEntry) \in HistType /\ SameOrder(PostedTo(hist, NextEntry))
        /\ PostedTo(hist, NextEntry).waiting = hist.waiting
    BY <1>1, <2>1, HistoryOfPost DEF SameOrder
  <2>3. \A h \in HistType : SameOrder(h) /\ h.waiting = hist.waiting => fits(waits(h))
    BY <2>1 DEF HistType, SameOrder
  <2> HIDE DEF fits, waits
  <2> QED BY <1>1, <2>2, <2>3 DEF SameOrder
<1>4. pc = "deliver"
  BY DEF SendFails, LosesAnswer, IsRateLimited, RenderFails, PanicsAfterHandling, Delivering
<1>5. \/ Delivering /\ StopPending(Failed(mem), waits(hist))
      \/ Delivering /\ StopPending(Failed(mem), waits(PostedTo(hist, NextEntry)))
      \/ Delivering /\ StopPending(mem, waits(hist))
      \/ StopPending(Failed(mem), hist)
  BY DEF SendFails, LosesAnswer, IsRateLimited, RenderFails, PanicsAfterHandling
<1> HIDE DEF waits
<1> QED BY <1>1, <1>2, <1>3, <1>4, <1>5, StopKeeps

LEMMA AccountedForKeeps ==
    ASSUME OInv, NEW sentByServer \in BOOLEAN, AccountedFor(sentByServer)
    PROVE  OInv'
<1> DEFINE cleared == [Closed(mem) EXCEPT !.retries = 0]
           validated == WithValidators(cleared, doc, sentByServer)
<1>1. pc = "deliver" /\ Settle(validated, RecordedIn(hist))
  BY DEF AccountedFor
<1>2. Closed(mem) \in StatusType /\ doc \in SUBSET Entries
  BY ClosedStatus DEF OInv, Typed
<1>3. cleared \in StatusType /\ SameLedger(cleared, Closed(mem))
  BY <1>2, OtherFields
<1> HIDE DEF cleared
<1>4. validated \in StatusType /\ SameLedger(validated, cleared)
  BY <1>2, <1>3, OtherFields
<1> HIDE DEF validated
<1>5. SameLedger(validated, Closed(mem))
  BY <1>3, <1>4 DEF SameLedger
<1>6. hist \in HistType /\ SameOrder(hist)
  BY DEF OInv, Typed, SameOrder
<1> QED BY <1>1, <1>4, <1>5, <1>6, PassCloses

LEMMA LossKeeps ==
    ASSUME OInv, PanicsBeforeHandling \/ LosesPass
    PROVE  OInv'
<1>1. Settle(stored, hist)
  BY DEF PanicsBeforeHandling, LosesPass
<1>2. stored \in StatusType
  BY DEF OInv, Typed
<1> QED BY <1>1, <1>2, LedgerKept

-----------------------------------------------------------------------------
LEMMA OrderStep == OInv /\ [Next]_vars => OInv'
<1> SUFFICES ASSUME OInv, [Next]_vars PROVE OInv'
  OBVIOUS
<1>1. ASSUME NEW e \in Entries, Publish(e) PROVE OInv'
  BY <1>1, PublishKeeps
<1>2. ASSUME NEW e \in present, Delete(e) PROVE OInv'
  BY <1>2, DeleteKeeps
<1>3. ASSUME NEW edited \in Specs, Edit(edited) PROVE OInv'
  BY <1>3, EditKeeps
<1>4. CASE Idle
  BY <1>4, FetchKeeps, BeginKeeps DEF Idle
<1>5. CASE Deliver
  <2>1. ASSUME NEW sentByServer \in BOOLEAN, AccountedFor(sentByServer) PROVE OInv'
    BY <2>1, AccountedForKeeps
  <2> QED BY <1>5, <2>1, SendsKeeps, SkipsKeeps, StopsKeep, LossKeeps DEF Deliver
<1>6. CASE UNCHANGED vars
  BY <1>6 DEF vars, OInv, Typed, Waiting, Planned, Matches, Sent, Past, Found,
              OvertakenOnlyByTrim, BrokenTemplatesLoseNothing
<1> QED BY <1>1, <1>2, <1>3, <1>4, <1>5, <1>6 DEF Next

LEMMA OrderInvariance == Spec => []OInv
  BY OrderInit, OrderStep, PTL DEF Spec

\* No entry is handled before an older one that was tried and is still
\* unresolved in the document, unless a trim left the older one out (the send
\* loop of entryDelivery.run over what planDelivery returns), whatever is lost,
\* deleted or edited in between.
THEOREM OrderCorrect == Spec => []OvertakenOnlyByTrim
<1>1. OInv => OvertakenOnlyByTrim
  BY DEF OInv
<1> QED BY <1>1, OrderInvariance, PTL

\* Templates that are broken for every entry drain nothing from the feed (the
\* skip condition of entryDelivery.run).
THEOREM SkipsCorrect == Spec => []BrokenTemplatesLoseNothing
<1>1. OInv => BrokenTemplatesLoseNothing
  BY DEF OInv
<1> QED BY <1>1, OrderInvariance, PTL

-----------------------------------------------------------------------------
(* What the steps do to the ledger, the documents and the history, whichever *)
(* action they belong to.                                                    *)

BoundsType == [deletions : 0..MaxDeletions, edits : 0..MaxEdits, losses : 0..MaxLosses]

\* What the history has of the documents fetched, as opposed to what was sent.
SameDocuments(h, g) ==
    /\ h.backlog = g.backlog /\ h.lostMark = g.lostMark /\ h.trimmed = g.trimmed
    /\ h.refused = g.refused /\ h.backDated = g.backDated /\ h.passed = g.passed

PostedOnce(e) == hist'.posts = [hist.posts EXCEPT ![e] = @ + 1]

Quiet == pc = "idle" => doc = {} /\ todo = {} /\ evidence = {}

Base == OInv /\ Quiet /\ bounds \in BoundsType

IdleAfter == pc' = "idle" /\ doc' = {} /\ todo' = {} /\ evidence' = {} /\ mem' = stored'

\* Nothing is delivered: an edit, or a fetch that leads to no pass.
Rests ==
    /\ pc = "idle" /\ IdleAfter /\ hist' = hist
    /\ UNCHANGED <<present, published>>
    /\ stored'.mark = stored.mark /\ stored'.lastSent = stored.lastSent
    /\ stored.initialized => stored'.initialized
    /\ stored'.initialized => stored.initialized \/ present = {} \/ present \in stored.validators
    /\ \/ stored'.validators = stored.validators
       \/ present = {} /\ stored'.validators = {present} /\ stored'.initialized
    /\ bounds'.losses = bounds.losses

Begins ==
    /\ pc = "idle" /\ pc' = "deliver" /\ present # {} /\ doc' = present
    /\ UNCHANGED <<present, published, spec, stored, bounds>>
    /\ evidence' = Scan(stored, present, spec.limit)
    /\ todo' = {e \in Plan(stored, present, spec.limit) : Matches(e) /\ ~Sent(stored, e)}
    /\ mem'.mark = IF SkipsBacklog(stored, spec.limit) THEN Max(present) ELSE stored.mark
    /\ mem'.lastSent = Append(stored.lastSent, {})
    /\ mem'.validators = stored.validators
    /\ hist'.posts = hist.posts /\ hist'.recorded = hist.recorded
    /\ hist'.backlog = IF stored.initialized THEN hist.backlog ELSE hist.backlog \union present
    /\ hist'.lostMark <=> hist.lostMark \/ Lost(stored, present)
    /\ hist'.trimmed = hist.trimmed \union (present \ Scan(stored, present, spec.limit))
    /\ hist'.refused = present \intersect
         (hist.refused \union {e \in Plan(stored, present, spec.limit) : ~Matches(e)})
    /\ hist'.backDated = hist.backDated \intersect present
    /\ hist'.passed = present \intersect
         (hist.passed \union {e \in present \ hist.recorded : Past(stored, e)})

Handles(e) ==
    /\ pc = "deliver" /\ pc' = "deliver"
    /\ e \in todo /\ (\A f \in todo : e <= f) /\ todo' = todo \ {e}
    /\ UNCHANGED <<present, published, spec, stored, doc, evidence, bounds>>
    /\ mem'.mark = e /\ mem'.validators = mem.validators
    /\ mem'.lastSent = [mem.lastSent EXCEPT ![Len(mem.lastSent)] = @ \union KeysOf[e]]
    /\ hist'.recorded = hist.recorded /\ SameDocuments(hist', hist)
    /\ hist'.posts = hist.posts \/ PostedOnce(e)

\* What was handled is recorded; at most one answer was lost.
Stops ==
    /\ pc = "deliver" /\ IdleAfter
    /\ UNCHANGED <<present, published, spec>>
    /\ stored'.mark = mem.mark /\ stored'.lastSent = Prune(mem.lastSent) /\ stored'.initialized
    /\ stored'.validators = mem.validators \/ (todo = {} /\ stored'.validators = {doc})
    /\ hist'.recorded = hist.recorded \union Batch /\ SameDocuments(hist', hist)
    /\ \/ hist'.posts = hist.posts /\ bounds'.losses = bounds.losses
       \/ \E e \in todo : PostedOnce(e) /\ bounds'.losses = bounds.losses + 1

\* The pass comes to nothing.
Abandons ==
    /\ pc = "deliver" /\ IdleAfter
    /\ UNCHANGED <<present, published, spec, stored, hist>>
    /\ \/ Batch = {} /\ bounds'.losses = bounds.losses
       \/ bounds'.losses = bounds.losses + 1

\* Only the publisher takes entries back.
LEMMA OneIsCounted ==
    ASSUME [Next]_vars
    PROVE  \/ bounds' = bounds
           \/ \E e \in present : Delete(e)
           \/ bounds.edits < MaxEdits /\ Count("edits")
           \/ bounds.losses < MaxLosses /\ Count("losses")
  BY DEF Next, vars, Idle, Deliver, Publish, Edit, FetchFails, NotModified, HasConfigError,
         FetchesEmpty, Begin, Sends, SkipsEntry, Handle, SendFails, LosesAnswer, IsRateLimited,
         RenderFails, AccountedFor, PanicsAfterHandling, PanicsBeforeHandling, LosesPass

LEMMA BoundsKept ==
    ASSUME bounds \in BoundsType, [Next]_vars
    PROVE  bounds' \in BoundsType
<1>1. ASSUME bounds.deletions < MaxDeletions, Count("deletions") PROVE bounds' \in BoundsType
  BY <1>1, SyncAssumption DEF Count, BoundsType
<1>2. ASSUME bounds.edits < MaxEdits, Count("edits") PROVE bounds' \in BoundsType
  BY <1>2, SyncAssumption DEF Count, BoundsType
<1>3. ASSUME bounds.losses < MaxLosses, Count("losses") PROVE bounds' \in BoundsType
  BY <1>3, SyncAssumption DEF Count, BoundsType
<1> QED BY <1>1, <1>2, <1>3, OneIsCounted DEF Delete

LEMMA LossCounted ==
    ASSUME bounds \in BoundsType, Count("losses")
    PROVE  bounds'.losses = bounds.losses + 1
  BY DEF BoundsType, Count

LEMMA EditRests ==
    ASSUME Base, NEW edited \in Specs, Edit(edited)
    PROVE  Rests
<1>1. stored' = [stored EXCEPT !.retries = 0] /\ stored \in StatusType
  BY DEF Edit, Base, OInv, Typed
<1>2. bounds'.losses = bounds.losses
  BY DEF Edit, Count, Base, BoundsType
<1>3. /\ stored'.mark = stored.mark /\ stored'.lastSent = stored.lastSent
      /\ stored'.initialized = stored.initialized /\ stored'.validators = stored.validators
  BY <1>1 DEF StatusType
<1> QED BY <1>2, <1>3 DEF Edit, Rests, IdleAfter, Base, Quiet

LEMMA FetchRests ==
    ASSUME Base,
           \/ FetchFails \/ NotModified
           \/ \E sentByServer \in BOOLEAN : FetchesEmpty(sentByServer)
    PROVE  Rests
<1> DEFINE cleared == [stored EXCEPT !.retries = 0]
           synced == [stored EXCEPT !.initialized = TRUE, !.retries = 0]
<1>0. stored \in StatusType
  BY DEF Base, OInv, Typed
<1>1. /\ cleared.mark = stored.mark /\ cleared.lastSent = stored.lastSent
      /\ cleared.initialized = stored.initialized /\ cleared.validators = stored.validators
  BY <1>0 DEF StatusType
<1>2. /\ synced.mark = stored.mark /\ synced.lastSent = stored.lastSent
      /\ synced.initialized /\ synced.validators = stored.validators /\ synced \in StatusType
  BY <1>0, NoRetries DEF StatusType
<1>3. CASE FetchFails
  BY <1>1, <1>3 DEF FetchFails, Settle, Rests, IdleAfter
<1>4. CASE NotModified
  BY <1>2, <1>4 DEF NotModified, MayAnswer304, Settle, Rests, IdleAfter
<1>5. ASSUME NEW sentByServer \in BOOLEAN, FetchesEmpty(sentByServer)
      PROVE  Rests
  <2> DEFINE validated == WithValidators(synced, present, sentByServer)
  <2>1. pc = "idle" /\ present = {} /\ Settle(validated, hist) /\ UNCHANGED bounds
    BY <1>5 DEF FetchesEmpty
  <2> HIDE DEF synced
  <2>2. /\ validated.mark = stored.mark /\ validated.lastSent = stored.lastSent
        /\ validated.initialized
        /\ validated.validators = stored.validators \/ validated.validators = {present}
    BY <1>2 DEF WithValidators, StatusType
  <2> HIDE DEF validated
  <2> QED BY <2>1, <2>2 DEF Settle, Rests, IdleAfter
<1> QED BY <1>3, <1>4, <1>5

LEMMA BeginBegins ==
    ASSUME Base, Begin
    PROVE  Begins
<1> DEFINE batch == [stored EXCEPT !.lastSent = Append(@, {})]
           newest == [batch EXCEPT !.mark = Max(present)]
           scan == Scan(stored, present, spec.limit)
           skips == SkipsBacklog(stored, spec.limit)
           unmatched == {e \in Plan(stored, present, spec.limit) : ~Matches(e)}
           still == {e \in hist.waiting \intersect present : Matches(e)}
           behind == {e \in present \ hist.recorded : Past(stored, e)}
<1>1. /\ mem' = IF skips THEN newest ELSE batch
      /\ hist' = [hist EXCEPT
                   !.backlog = IF stored.initialized THEN @ ELSE @ \union present,
                   !.lostMark = @ \/ Lost(stored, present),
                   !.trimmed = @ \union (present \ scan),
                   !.refused = present \intersect (@ \union unmatched),
                   !.waiting = {e \in @ \intersect present : Matches(e)},
                   !.backDated = @ \intersect present,
                   !.passed = present \intersect (@ \union behind)]
  BY DEF Begin, MarkNewest
<1>2. stored \in StatusType /\ hist \in HistType
  BY DEF Base, OInv, Typed
<1>3. /\ mem'.mark = IF skips THEN Max(present) ELSE stored.mark
      /\ mem'.lastSent = Append(stored.lastSent, {})
      /\ mem'.validators = stored.validators
  <2>1. /\ batch.mark = stored.mark /\ batch.validators = stored.validators
        /\ batch.lastSent = Append(stored.lastSent, {})
    BY <1>2 DEF StatusType
  <2>2. /\ newest.mark = Max(present) /\ newest.validators = batch.validators
        /\ newest.lastSent = batch.lastSent
    BY <1>2 DEF StatusType
  <2> HIDE DEF batch, newest
  <2> QED BY <1>1, <2>1, <2>2
<1> HIDE DEF scan, unmatched, behind, batch, newest
<1>4. /\ hist'.posts = hist.posts /\ hist'.recorded = hist.recorded
      /\ hist'.backlog = IF stored.initialized THEN hist.backlog ELSE hist.backlog \union present
      /\ hist'.lostMark <=> hist.lostMark \/ Lost(stored, present)
      /\ hist'.trimmed = hist.trimmed \union (present \ scan)
      /\ hist'.refused = present \intersect (hist.refused \union unmatched)
      /\ hist'.backDated = hist.backDated \intersect present
      /\ hist'.passed = present \intersect (hist.passed \union behind)
  <2>1. hist' = [hist EXCEPT
                   !.backlog = IF stored.initialized THEN hist.backlog
                               ELSE hist.backlog \union present,
                   !.lostMark = hist.lostMark \/ Lost(stored, present),
                   !.trimmed = hist.trimmed \union (present \ scan),
                   !.refused = present \intersect (hist.refused \union unmatched),
                   !.waiting = still,
                   !.backDated = hist.backDated \intersect present,
                   !.passed = present \intersect (hist.passed \union behind)]
    BY <1>1, <1>2 DEF HistType
  <2> HIDE DEF still
  <2> QED BY <1>2, <2>1 DEF HistType
<1> QED BY <1>3, <1>4 DEF Begin, Begins, scan, unmatched, behind

\* The bookkeeping of one entry leaves what is known of the documents.
LEMMA DocumentsKept ==
    ASSUME NEW h \in HistType, NEW e \in Entries
    PROVE  /\ LET posted == PostedTo(h, e)
              IN  /\ SameDocuments(posted, h) /\ posted.recorded = h.recorded
                  /\ posted.posts = [h.posts EXCEPT ![e] = @ + 1]
           /\ LET resolved == ResolvedIn(h, e)
              IN  /\ SameDocuments(resolved, h) /\ resolved.recorded = h.recorded
                  /\ resolved.posts = h.posts
           /\ LET waits == [h EXCEPT !.waiting = @ \union {e}]
              IN  /\ SameDocuments(waits, h) /\ waits.recorded = h.recorded
                  /\ waits.posts = h.posts
           /\ LET skipped == [h EXCEPT !.gaveUp = @ \union {e}]
              IN  /\ SameDocuments(skipped, h) /\ skipped.recorded = h.recorded
                  /\ skipped.posts = h.posts
<1>1. LET posted == PostedTo(h, e)
      IN  /\ SameDocuments(posted, h) /\ posted.recorded = h.recorded
          /\ posted.posts = [h.posts EXCEPT ![e] = @ + 1]
  BY DEF PostedTo, HistType, SameDocuments
<1>2. LET resolved == ResolvedIn(h, e)
      IN  /\ SameDocuments(resolved, h) /\ resolved.recorded = h.recorded
          /\ resolved.posts = h.posts
  BY DEF ResolvedIn, HistType, SameDocuments
<1> QED BY <1>1, <1>2 DEF HistType, SameDocuments

LEMMA DocumentsRecorded ==
    ASSUME NEW h \in HistType
    PROVE  /\ SameDocuments(RecordedIn(h), h)
           /\ RecordedIn(h).recorded = h.recorded \union Batch
           /\ RecordedIn(h).posts = h.posts
  BY DEF RecordedIn, HistType, SameDocuments

LEMMA HandleHandles ==
    ASSUME Base, Sends \/ SkipsEntry
    PROVE  Handles(NextEntry)
<1> DEFINE e == NextEntry
           posted == PostedTo(hist, e)
           skipped == [hist EXCEPT !.gaveUp = @ \union {e}]
<1>1. Delivering /\ (Handle(e, posted) \/ Handle(e, skipped))
  BY DEF Sends, SkipsEntry
<1>2. pc = "deliver" /\ e \in todo /\ e \in Entries /\ \A f \in todo : e <= f
  BY <1>1, NextIsOldest DEF Base
<1>3. hist \in HistType /\ mem \in StatusType
  BY DEF Base, OInv, Typed
<1>4. /\ posted \in HistType /\ SameDocuments(posted, hist) /\ posted.recorded = hist.recorded
      /\ posted.posts = [hist.posts EXCEPT ![e] = @ + 1]
  BY <1>2, <1>3, HistoryOfPost, DocumentsKept
<1>5. /\ skipped \in HistType /\ SameDocuments(skipped, hist) /\ skipped.recorded = hist.recorded
      /\ skipped.posts = hist.posts
  <2>1. skipped \in HistType
    BY <1>2, <1>3 DEF HistType
  <2> QED BY <2>1, <1>2, <1>3, DocumentsKept
<1> HIDE DEF posted, skipped
<1>6. PICK h \in {posted, skipped} : Handle(e, h)
  BY <1>1
<1>7. /\ h \in HistType /\ SameDocuments(h, hist) /\ h.recorded = hist.recorded
      /\ h.posts = hist.posts \/ h.posts = [hist.posts EXCEPT ![e] = @ + 1]
  BY <1>4, <1>5, <1>6
<1>8. /\ mem' = [MarkHandled(mem, e) EXCEPT !.retries = 0]
      /\ todo' = todo \ {e} /\ hist' = ResolvedIn(h, e)
      /\ UNCHANGED <<present, published, spec, stored, pc, doc, evidence, bounds>>
  BY <1>6 DEF Handle
<1> HIDE DEF e
<1>9. /\ SameDocuments(hist', h) /\ hist'.recorded = h.recorded /\ hist'.posts = h.posts
  BY <1>2, <1>7, <1>8, DocumentsKept
<1>10. /\ mem'.mark = e /\ mem'.validators = mem.validators
       /\ mem'.lastSent = [mem.lastSent EXCEPT ![Len(mem.lastSent)] = @ \union KeysOf[e]]
  BY <1>3, <1>8 DEF MarkHandled, StatusType
<1>11. SameDocuments(hist', hist)
  BY <1>7, <1>9 DEF SameDocuments
<1> QED BY <1>2, <1>7, <1>8, <1>9, <1>10, <1>11 DEF Handles, PostedOnce, e

\* What a stop writes, with and without new validators.
LEMMA StopStops ==
    ASSUME Base, pc = "deliver", NEW status \in StatusType,
           status.mark = mem.mark, status.lastSent = Prune(mem.lastSent), status.initialized,
           status.validators = mem.validators \/ (todo = {} /\ status.validators = {doc}),
           NEW h \in HistType, SameDocuments(h, hist), h.recorded = hist.recorded,
           \/ h.posts = hist.posts /\ bounds'.losses = bounds.losses
           \/ \E e \in todo : /\ h.posts = [hist.posts EXCEPT ![e] = @ + 1]
                              /\ bounds'.losses = bounds.losses + 1,
           Settle(status, RecordedIn(h))
    PROVE  Stops
<1>1. /\ SameDocuments(hist', hist) /\ hist'.recorded = hist.recorded \union Batch
      /\ hist'.posts = h.posts
  BY DocumentsRecorded DEF Settle, SameDocuments
<1> QED BY <1>1 DEF Settle, Stops, IdleAfter, PostedOnce

LEMMA PendingStops ==
    ASSUME Base, SendFails \/ LosesAnswer \/ IsRateLimited \/ RenderFails \/ PanicsAfterHandling
    PROVE  Stops
<1> DEFINE waits(h) == [h EXCEPT !.waiting = @ \union {NextEntry}]
           posted == PostedTo(hist, NextEntry)
<1>1. pc = "deliver" /\ mem \in StatusType /\ hist \in HistType
  BY DEF SendFails, LosesAnswer, IsRateLimited, RenderFails, PanicsAfterHandling, Delivering,
         Base, OInv, Typed
<1>2. \A st \in {mem, Failed(mem)} :
        LET closed == Closed(st)
        IN  /\ closed \in StatusType /\ closed.mark = mem.mark
            /\ closed.lastSent = Prune(mem.lastSent) /\ closed.initialized
            /\ closed.validators = mem.validators
  <2>1. \A st \in {mem, Failed(mem)} :
          /\ st \in StatusType /\ SameLedger(st, mem) /\ st.validators = mem.validators
    <3>1. Failed(mem) \in StatusType /\ SameLedger(Failed(mem), mem)
      <4>1. {} \in SUBSET Entries /\ TRUE \in BOOLEAN
        OBVIOUS
      <4> QED BY <1>1, <4>1, OtherFields
    <3>2. Failed(mem).validators = mem.validators
      BY <1>1 DEF Failed, StatusType
    <3> QED BY <1>1, <3>1, <3>2 DEF SameLedger
  <2> QED BY <2>1, ClosedStatus DEF Closed, StatusType, SameLedger
<1>3. ASSUME NEW h \in HistType, SameDocuments(h, hist), h.recorded = hist.recorded, Delivering
      PROVE  /\ waits(h) \in HistType /\ SameDocuments(waits(h), hist)
             /\ waits(h).recorded = hist.recorded /\ waits(h).posts = h.posts
  <2>1. NextEntry \in Entries
    BY <1>3, NextIsOldest DEF Base
  <2>2. SameDocuments(waits(h), h) /\ waits(h).recorded = h.recorded /\ waits(h).posts = h.posts
    BY <1>3, <2>1, DocumentsKept
  <2>3. waits(h) \in HistType
    BY <1>3, <2>1 DEF HistType
  <2> QED BY <1>3, <2>2, <2>3 DEF SameDocuments
<1>4. SameDocuments(hist, hist)
  BY DEF SameDocuments
<1> HIDE DEF waits
<1>5. ASSUME NEW st \in {mem, Failed(mem)}, Delivering, StopPending(st, waits(hist)),
             bounds'.losses = bounds.losses
      PROVE  Stops
  <2>1. /\ waits(hist) \in HistType /\ SameDocuments(waits(hist), hist)
        /\ waits(hist).recorded = hist.recorded /\ waits(hist).posts = hist.posts
    BY <1>1, <1>3, <1>4, <1>5
  <2> QED BY <1>1, <1>2, <1>5, <2>1, StopStops DEF StopPending
<1>6. CASE LosesAnswer
  <2>1. /\ Delivering /\ StopPending(Failed(mem), waits(posted))
        /\ bounds'.losses = bounds.losses + 1
    BY <1>6, LossCounted DEF LosesAnswer, Base, waits
  <2>2. NextEntry \in todo /\ NextEntry \in Entries
    BY <2>1, NextIsOldest DEF Base
  <2>3. /\ posted \in HistType /\ SameDocuments(posted, hist)
        /\ posted.recorded = hist.recorded
        /\ posted.posts = [hist.posts EXCEPT ![NextEntry] = @ + 1]
    BY <1>1, <2>2, HistoryOfPost, DocumentsKept
  <2> HIDE DEF posted
  <2>4. /\ waits(posted) \in HistType /\ SameDocuments(waits(posted), hist)
        /\ waits(posted).recorded = hist.recorded
        /\ waits(posted).posts = [hist.posts EXCEPT ![NextEntry] = @ + 1]
    BY <1>3, <2>1, <2>3
  <2> QED BY <1>1, <1>2, <2>1, <2>2, <2>4, StopStops DEF StopPending
<1>7. CASE PanicsAfterHandling
  BY <1>1, <1>2, <1>4, <1>7, StopStops DEF PanicsAfterHandling, StopPending
<1>8. CASE SendFails \/ IsRateLimited \/ RenderFails
  BY <1>5, <1>8 DEF SendFails, IsRateLimited, RenderFails, waits
<1> QED BY <1>6, <1>7, <1>8

LEMMA AccountedStops ==
    ASSUME Base, NEW sentByServer \in BOOLEAN, AccountedFor(sentByServer)
    PROVE  Stops
<1> DEFINE closed == Closed(mem)
           cleared == [closed EXCEPT !.retries = 0]
           validated == WithValidators(cleared, doc, sentByServer)
<1>1. pc = "deliver" /\ todo = {} /\ Settle(validated, RecordedIn(hist)) /\ UNCHANGED bounds
  BY DEF AccountedFor
<1>2. /\ closed \in StatusType /\ closed.mark = mem.mark /\ closed.initialized
      /\ closed.lastSent = Prune(mem.lastSent) /\ closed.validators = mem.validators
  BY ClosedStatus DEF Base, OInv, Typed, Closed, StatusType
<1> HIDE DEF closed
<1>3. /\ cleared \in StatusType /\ cleared.mark = mem.mark /\ cleared.initialized
      /\ cleared.lastSent = Prune(mem.lastSent) /\ cleared.validators = mem.validators
  BY <1>2, NoRetries DEF StatusType
<1> HIDE DEF cleared
<1>4. doc \in SUBSET Entries /\ hist \in HistType /\ SameDocuments(hist, hist)
  BY DEF Base, OInv, Typed, SameDocuments
<1>5. /\ validated \in StatusType /\ validated.mark = mem.mark /\ validated.initialized
      /\ validated.lastSent = Prune(mem.lastSent)
      /\ validated.validators = mem.validators \/ validated.validators = {doc}
  BY <1>3, <1>4 DEF WithValidators, StatusType
<1> HIDE DEF validated
<1> QED BY <1>1, <1>4, <1>5, StopStops

LEMMA LossAbandons ==
    ASSUME Base, PanicsBeforeHandling \/ LosesPass
    PROVE  Abandons
<1>1. CASE PanicsBeforeHandling
  BY <1>1 DEF PanicsBeforeHandling, Settle, Abandons, IdleAfter
<1>2. CASE LosesPass
  <2>1. bounds'.losses = bounds.losses + 1
    BY <1>2, LossCounted DEF LosesPass, Base
  <2> QED BY <1>2, <2>1 DEF LosesPass, Settle, Abandons, IdleAfter
<1> QED BY <1>1, <1>2

\* Every step is one of these.
LEMMA Steps ==
    ASSUME Base, [Next]_vars
    PROVE  \/ \E e \in Entries : Publish(e)
           \/ \E e \in present : Delete(e)
           \/ Rests \/ Begins \/ (\E e \in todo : Handles(e)) \/ Stops \/ Abandons
           \/ UNCHANGED vars
<1>1. ASSUME NEW edited \in Specs, Edit(edited) PROVE Rests
  BY <1>1, EditRests
<1>2. CASE Idle
  BY <1>2, FetchRests, BeginBegins DEF Idle, HasConfigError
<1>3. CASE Deliver
  <2>1. ASSUME NEW sentByServer \in BOOLEAN, AccountedFor(sentByServer) PROVE Stops
    BY <2>1, AccountedStops
  <2>2. ASSUME Sends \/ SkipsEntry PROVE \E e \in todo : Handles(e)
    BY <2>2, HandleHandles DEF Handles
  <2> QED BY <1>3, <2>1, <2>2, PendingStops, LossAbandons DEF Deliver
<1> QED BY <1>1, <1>2, <1>3 DEF Next

LEMMA BaseInit == Init => Base
<1> SUFFICES ASSUME Init PROVE Base
  OBVIOUS
<1>1. bounds \in BoundsType
  BY SyncAssumption DEF Init, BoundsType
<1> QED BY <1>1, OrderInit DEF Base, Quiet, Init

LEMMA BaseStep ==
    ASSUME Base, [Next]_vars
    PROVE  Base'
<1>1. OInv' /\ bounds' \in BoundsType
  BY OrderStep, BoundsKept DEF Base
<1>2. Quiet'
  <2>1. ASSUME NEW e \in Entries, Publish(e) PROVE Quiet'
    BY <2>1 DEF Publish, Base, Quiet
  <2>2. ASSUME NEW e \in present, Delete(e) PROVE Quiet'
    BY <2>2 DEF Delete, Base, Quiet
  <2>3. ASSUME NEW e \in todo, Handles(e) PROVE Quiet'
    BY <2>3 DEF Handles, Quiet
  <2> QED BY <2>1, <2>2, <2>3, Steps
          DEF Rests, Begins, Stops, Abandons, IdleAfter, vars, Base, Quiet
<1> QED BY <1>1, <1>2 DEF Base

-----------------------------------------------------------------------------
(* What the status knows was handled, and what was handled was published.    *)

LEMMA EntriesFinite == IsFiniteSet(Entries)
<1>1. PICK n \in Nat : \A e \in Entries : e <= n
  BY EntriesAreNumbers
<1>2. Entries \subseteq 1..n
  BY <1>1, LedgerAssumption
<1>3. IsFiniteSet(1..n)
  BY FS_Interval
<1> QED BY <1>2, <1>3, FS_Subset

\* Only what the history has recorded, or this pass handled, is a record.
Known ==
    /\ Cardinality(present) <= Window
    /\ todo \subseteq evidence /\ evidence \subseteq doc
    /\ Posted \subseteq published /\ hist.recorded \subseteq published
    /\ Recorded(stored.lastSent) \subseteq hist.recorded
    /\ stored.validators \subseteq SUBSET published
    /\ pc = "deliver" =>
         /\ Batch \subseteq doc /\ mem.validators = stored.validators
         /\ Recorded(mem.lastSent) \subseteq hist.recorded \union Batch

LEMMA NothingRecorded == Recorded(<<>>) = {}
<1>1. Keyed(<<>>) = {}
  BY DEF Keyed
<1> QED BY <1>1, NoEntries DEF Recorded

LEMMA KnownInit == Init => Known
<1> SUFFICES ASSUME Init PROVE Known
  OBVIOUS
<1>1. stored.lastSent = <<>> /\ stored.validators = {} /\ hist.recorded = {} /\ Posted = {}
  BY DEF Init, NewStatus, HistInit, Posted
<1> QED BY <1>1, NothingRecorded DEF Init, Known

LEMMA LastBatch ==
    ASSUME Base, pc = "deliver"
    PROVE  /\ Len(mem.lastSent) \in DOMAIN mem.lastSent
           /\ Batch \subseteq Recorded(mem.lastSent)
<1>1. mem.lastSent \in Batches /\ Len(mem.lastSent) # 0
  BY DEF Base, OInv, Typed, StatusType
<1>2. Len(mem.lastSent) \in DOMAIN mem.lastSent
  BY <1>1 DEF Batches
<1>3. mem.lastSent[Len(mem.lastSent)] \subseteq Keyed(mem.lastSent)
  BY <1>2 DEF Keyed
<1> QED BY <1>2, <1>3, EntriesOfMore DEF Batch, Recorded

LEMMA NewBatchEmpty ==
    ASSUME Base, Begins
    PROVE  Batch' = {} /\ Recorded(mem'.lastSent) = Recorded(stored.lastSent)
<1>1. stored.lastSent \in Batches
  BY DEF Base, OInv, Typed, StatusType
<1>2. mem'.lastSent = Append(stored.lastSent, {})
  BY DEF Begins
<1>3. Batch' = EntriesOf(mem'.lastSent[Len(mem'.lastSent)])
  BY DEF Batch, EntriesOf
<1>4. mem'.lastSent[Len(mem'.lastSent)] = {}
  BY <1>1, <1>2 DEF Batches
<1> QED BY <1>1, <1>2, <1>3, <1>4, NewBatch, NoEntries

LEMMA BatchJoined ==
    ASSUME Base, NEW e \in todo, Handles(e)
    PROVE  /\ Batch' = Batch \union {e}
           /\ Recorded(mem'.lastSent) = Recorded(mem.lastSent) \union {e}
<1>1. mem.lastSent \in Batches /\ Len(mem.lastSent) # 0 /\ e \in Entries
  BY DEF Base, OInv, Typed, StatusType, Handles
<1>2. mem'.lastSent = [mem.lastSent EXCEPT ![Len(mem.lastSent)] = @ \union KeysOf[e]]
  BY DEF Handles
<1>3. Batch' = EntriesOf(mem'.lastSent[Len(mem'.lastSent)])
  BY DEF Batch, EntriesOf
<1>4. Len(mem'.lastSent) = Len(mem.lastSent) /\ Recorded(mem'.lastSent) = Recorded(mem.lastSent) \union {e}
  BY <1>1, <1>2, BatchGrows
<1>5. Len(mem.lastSent) \in DOMAIN mem.lastSent
  BY <1>1 DEF Batches
<1>6. Batch' = EntriesOf(mem.lastSent[Len(mem.lastSent)] \union KeysOf[e])
  BY <1>2, <1>3, <1>4, <1>5
<1> QED BY <1>1, <1>4, <1>6, EntriesJoin DEF Batch

\* Posting is of an entry that the pass has to send.
LEMMA PostedGrows ==
    ASSUME Base, NEW e \in todo, PostedOnce(e)
    PROVE  Posted' = Posted \union {e}
  BY DEF Base, OInv, Typed, HistType, PostedOnce, Posted

LEMMA SamePosts ==
    ASSUME hist'.posts = hist.posts
    PROVE  Posted' = Posted
  BY DEF Posted

LEMMA WindowKept ==
    ASSUME Base, Cardinality(present) <= Window, NEW e \in Entries, Publish(e)
    PROVE  Cardinality(present') <= Window
<1> DEFINE rest == present \ {Min(present)}
<1>1. IsFiniteSet(present) /\ e \notin present /\ present \in SUBSET Nat
  BY EntriesFinite, EntriesAreNumbers, FS_Subset DEF Base, OInv, Typed, Publish
<1>2. Cardinality(present) \in Nat /\ Window \in Nat /\ Window # 0
  BY <1>1, FS_CardinalityType, SyncAssumption
<1>3. CASE Cardinality(present) < Window
  <2>1. present' = present \union {e}
    BY <1>3 DEF Publish
  <2>2. Cardinality(present') = Cardinality(present) + 1
    BY <1>1, <2>1, FS_AddElement
  <2> QED BY <1>2, <1>3, <2>2
<1>4. CASE ~(Cardinality(present) < Window)
  <2>1. present # {}
    BY <1>2, <1>4, FS_EmptySet
  <2>2. Min(present) \in present
    BY <1>1, <2>1, Least
  <2>3. IsFiniteSet(rest) /\ Cardinality(rest) = Cardinality(present) - 1
    BY <1>1, <2>2, FS_RemoveElement
  <2>4. present' = rest \union {e} /\ e \notin rest
    BY <1>1, <1>4 DEF Publish
  <2> HIDE DEF rest
  <2>5. Cardinality(present') = Cardinality(rest) + 1
    BY <2>3, <2>4, FS_AddElement
  <2> QED BY <1>2, <2>3, <2>5
<1> QED BY <1>3, <1>4

LEMMA KnownStep ==
    ASSUME Base, Known, [Next]_vars
    PROVE  Known'
<1>1. ASSUME NEW e \in Entries, Publish(e) PROVE Known'
  <2>1. /\ hist'.posts = hist.posts /\ hist'.recorded = hist.recorded
        /\ UNCHANGED <<stored, pc, mem, doc, todo, evidence>>
        /\ published \subseteq published'
    BY <1>1 DEF Publish, Base, OInv, Typed, HistType
  <2>2. Batch' = Batch /\ Posted' = Posted
    BY <2>1, SamePosts DEF Batch
  <2> QED BY <1>1, <2>1, <2>2, WindowKept DEF Known
<1>2. ASSUME NEW e \in present, Delete(e) PROVE Known'
  <2>1. IsFiniteSet(present)
    BY EntriesFinite, FS_Subset DEF Base, OInv, Typed
  <2>2. /\ Cardinality(present') <= Cardinality(present)
        /\ Cardinality(present') \in Nat /\ Cardinality(present) \in Nat
    BY <1>2, <2>1, FS_Subset, FS_CardinalityType DEF Delete
  <2>3. Cardinality(present') <= Window
    BY <2>2, SyncAssumption DEF Known
  <2> QED BY <1>2, <2>3 DEF Delete, Known, Batch, Posted
<1>3. ASSUME Rests PROVE Known'
  BY <1>3 DEF Rests, IdleAfter, Known, Posted
<1>4. ASSUME Begins PROVE Known'
  <2>1. Batch' = {} /\ Recorded(mem'.lastSent) = Recorded(stored.lastSent)
    BY <1>4, NewBatchEmpty
  <2>2. todo' \subseteq evidence' /\ evidence' \subseteq doc'
    BY <1>4 DEF Begins, Plan, Scan, LimitCatchUp, Newest
  <2>3. Posted' = Posted
    BY <1>4, SamePosts DEF Begins
  <2> QED BY <1>4, <2>1, <2>2, <2>3 DEF Begins, Known
<1>5. ASSUME NEW e \in todo, Handles(e) PROVE Known'
  <2>1. Batch' = Batch \union {e} /\ Recorded(mem'.lastSent) = Recorded(mem.lastSent) \union {e}
    BY <1>5, BatchJoined
  <2>2. e \in doc /\ e \in published
    BY DEF Base, OInv, Typed
  <2>3. Posted' \subseteq Posted \union {e}
    BY <1>5, PostedGrows, SamePosts DEF Handles
  <2> QED BY <1>5, <2>1, <2>2, <2>3 DEF Handles, Known
<1>6. ASSUME Stops PROVE Known'
  <2>1. Recorded(Prune(mem.lastSent)) \subseteq Recorded(mem.lastSent)
    BY PruneDropsOnly DEF Base, OInv, Typed, StatusType
  <2>2. Posted' \subseteq Posted \union todo
    BY <1>6, PostedGrows, SamePosts DEF Stops
  <2>3. todo \subseteq published /\ doc \subseteq published
    BY DEF Base, OInv, Typed
  <2>4. stored'.validators \subseteq SUBSET published
    BY <1>6, <2>3 DEF Stops, Known
  <2> QED BY <1>6, <2>1, <2>2, <2>3, <2>4 DEF Stops, IdleAfter, Known
<1>7. ASSUME Abandons PROVE Known'
  BY <1>7 DEF Abandons, IdleAfter, Known, Posted
<1>8. ASSUME UNCHANGED vars PROVE Known'
  BY <1>8 DEF vars, Known, Batch, Posted
<1> QED BY <1>1, <1>2, <1>3, <1>4, <1>5, <1>6, <1>7, <1>8, Steps

LEMMA BaseInvariance == Spec => [](Base /\ Known)
<1>1. Init => Base /\ Known
  <2>1. Init => Cardinality(present) <= Window
    BY DEF Init
  <2> QED BY <2>1, BaseInit, KnownInit
<1>2. Base /\ Known /\ [Next]_vars => (Base /\ Known)'
  BY BaseStep, KnownStep
<1> QED BY <1>1, <1>2, PTL DEF Spec

\* Every step of a feed's sync keeps the status, the pass and the history
\* within their types: what a pass sends is in its plan and its document, the
\* document fits the window, and what was posted or recorded was published.
THEOREM TypeCorrect == Spec => []TypeOK
<1>1. Base /\ Known => TypeOK
  BY DEF Base, OInv, Typed, Known, TypeOK, BoundsType
<1> QED BY <1>1, BaseInvariance, PTL

-----------------------------------------------------------------------------
(* No entry is handled twice.  Either nothing is ever pruned, because there  *)
(* are no more keys than the cap, and then every recorded entry is known by  *)
(* its keys; or the publisher takes nothing back, and then every recorded    *)
(* entry of the document is behind a watermark that the document holds.      *)

Exact == Cardinality(Keys) <= LastSentCap
Rolling == MaxDeletions = 0

\* No key is in two batches.
Apart(lastSent) ==
    \A i, j \in DOMAIN lastSent : i # j => lastSent[i] \intersect lastSent[j] = {}

Remembers(status, S) == S \subseteq Recorded(status.lastSent) /\ Apart(status.lastSent)

Remembered ==
    Exact =>
        /\ Remembers(stored, hist.recorded)
        /\ pc = "deliver" => Remembers(mem, hist.recorded)

\* The order in which entries leave a document that only rolls is theirs.
AllBehind(status, S) == \A x \in S \intersect present : Past(status, x)

Handled == hist.recorded \union Held

Rolled ==
    Rolling =>
        /\ AllBehind(stored, hist.recorded)
        /\ pc = "deliver" =>
             /\ AllBehind(mem, Handled)
             /\ Handled \intersect present \subseteq doc
             /\ \A d \in doc \ present, f \in doc \intersect present : d < f
             /\ \A x \in Handled \intersect doc, f \in todo : x < f

Unrepeated == todo \intersect hist.recorded = {}

Fresh == Exact \/ Rolling => Unrepeated

\* Pruning leaves the keys it keeps in their batches, and the batches in order.
Kept(ls) ==
    {k \in Keyed(ls) :
        Cardinality({l \in Keyed(ls) : DroppedBefore(ls, k, l)}) < LastSentCap}

LEMMA PruneKeeps ==
    ASSUME NEW ls \in Batches
    PROVE  /\ Keyed(Prune(ls)) = Kept(ls)
           /\ \E k \in Nat : \A i \in DOMAIN Prune(ls) :
                i \in Nat /\ i + k \in DOMAIN ls /\ Prune(ls)[i] = ls[i + k] \intersect Kept(ls)
<1> DEFINE kept == Kept(ls)
           batches == {i \in DOMAIN ls : ls[i] \intersect kept # {}}
           pruned == [i \in 1..(Max(batches) - Min(batches) + 1) |->
                        ls[i + Min(batches) - 1] \intersect kept]
<1>0. Prune(ls) = IF batches = {} THEN << >> ELSE pruned
  BY DEF Prune, Kept
<1>1. kept \subseteq Keyed(ls)
  BY DEF Kept
<1> HIDE DEF kept
<1>2. CASE batches = {}
  <2>1. kept = {}
    BY <1>1, <1>2 DEF Keyed
  <2> QED BY <1>0, <1>2, <2>1 DEF Keyed, kept
<1>3. CASE batches # {}
  <2>1. Len(ls) \in Nat /\ batches \subseteq 1..Len(ls) /\ batches \in SUBSET Nat
    BY DEF Batches
  <2>2. \A i \in batches : i <= Len(ls)
    BY <2>1
  <2>3. \A i \in DOMAIN ls : ls[i] \intersect kept # {} => i \in batches
    OBVIOUS
  <2> HIDE DEF batches
  <2> DEFINE first == Min(batches)
             last == Max(batches)
             count == last - first + 1
             k == first - 1
  <2>5. first \in batches /\ \A i \in batches : first <= i
    BY <1>3, <2>1, Least
  <2>6. last \in batches /\ \A i \in batches : i <= last
    BY <1>3, <2>1, <2>2, Greatest
  <2>7. pruned = [i \in 1..count |-> ls[i + first - 1] \intersect kept]
    OBVIOUS
  <2>8. DOMAIN ls = 1..Len(ls)
    BY DEF Batches
  <2> HIDE DEF pruned, first, last
  <2>9. /\ first \in Nat /\ last \in Nat /\ 1 <= first /\ first <= last /\ last <= Len(ls)
        /\ \A i \in batches : i \in Nat /\ first <= i /\ i <= last
    BY <2>1, <2>5, <2>6
  <2>10. \A i \in 1..count : i \in Nat /\ i + first - 1 = i + k /\ i + k \in DOMAIN ls
    BY <2>1, <2>8, <2>9
  <2>11. \A i \in batches : i - first + 1 \in 1..count /\ (i - first + 1) + k = i
    BY <2>9
  <2>12. count \in Nat /\ k \in Nat
    BY <2>9
  <2> HIDE DEF count, k
  <2>13. DOMAIN pruned = 1..count /\ \A i \in 1..count : pruned[i] = ls[i + k] \intersect kept
    BY <2>7, <2>10
  <2>14. Keyed(pruned) \subseteq kept
    BY <2>13 DEF Keyed
  <2>15. kept \subseteq Keyed(pruned)
    <3> SUFFICES ASSUME NEW x \in kept PROVE \E i \in DOMAIN pruned : x \in pruned[i]
      BY DEF Keyed
    <3>1. PICK i \in DOMAIN ls : x \in ls[i]
      BY <1>1 DEF Keyed
    <3>2. i \in batches
      BY <2>3, <3>1
    <3>3. i - first + 1 \in 1..count /\ pruned[i - first + 1] = ls[i] \intersect kept
      BY <2>11, <2>13, <3>2
    <3> QED BY <2>13, <3>1, <3>3
  <2> QED BY <1>0, <1>3, <2>10, <2>12, <2>13, <2>14, <2>15 DEF kept
<1> QED BY <1>2, <1>3

LEMMA PruneLeavesApart ==
    ASSUME NEW ls \in Batches, Apart(ls)
    PROVE  Apart(Prune(ls))
<1>1. PICK k \in Nat : \A i \in DOMAIN Prune(ls) :
        i \in Nat /\ i + k \in DOMAIN ls /\ Prune(ls)[i] = ls[i + k] \intersect Kept(ls)
  BY PruneKeeps
<1>2. ASSUME NEW i \in DOMAIN Prune(ls), NEW j \in DOMAIN Prune(ls), i # j
      PROVE  Prune(ls)[i] \intersect Prune(ls)[j] = {}
  <2>1. /\ i + k \in DOMAIN ls /\ j + k \in DOMAIN ls /\ i \in Nat /\ j \in Nat
        /\ Prune(ls)[i] \subseteq ls[i + k] /\ Prune(ls)[j] \subseteq ls[j + k]
    BY <1>1
  <2>2. i + k # j + k
    BY <1>2, <2>1
  <2>3. ls[i + k] \intersect ls[j + k] = {}
    BY <2>1, <2>2 DEF Apart
  <2> QED BY <2>1, <2>3
<1> QED BY <1>2 DEF Apart

\* No key is dropped before itself.
LEMMA NotBeforeItself ==
    ASSUME NEW ls \in Batches, Apart(ls), NEW k \in Keyed(ls)
    PROVE  ~DroppedBefore(ls, k, k)
<1>1. k \in Nat
  <2>1. \A i \in DOMAIN ls : ls[i] \subseteq Keys
    BY DEF Batches
  <2> QED BY <2>1, KeysAreNumbers DEF Keyed
<1>2. \A i, j \in DOMAIN ls : k \in ls[i] /\ k \in ls[j] => i = j
  BY DEF Apart
<1>3. \A i \in DOMAIN ls : i \in Nat
  BY DEF Batches
<1> QED BY <1>1, <1>2, <1>3 DEF DroppedBefore

\* An entry has at most two keys.
LEMMA KeysOfMany ==
    ASSUME NEW S \in SUBSET Entries
    PROVE  LET keys == UNION {KeysOf[e] : e \in S}
           IN  /\ IsFiniteSet(keys) /\ Cardinality(keys) <= 2 * Cardinality(S)
               /\ Cardinality(keys) \in Nat /\ Cardinality(S) \in Nat
<1> DEFINE keys == UNION {KeysOf[e] : e \in S}
           one(e) == CHOOSE k \in KeysOf[e] : \E l \in KeysOf[e] : KeysOf[e] = {k, l}
           other(e) == CHOOSE l \in KeysOf[e] : KeysOf[e] = {one(e), l}
           f == [e \in S |-> one(e)]
           g == [e \in S |-> other(e)]
           ones == {one(e) : e \in S}
           others == {other(e) : e \in S}
<1>1. ASSUME NEW e \in S PROVE KeysOf[e] = {one(e), other(e)}
  <2>1. \E k \in KeysOf[e] : \E l \in KeysOf[e] : KeysOf[e] = {k, l}
    BY LedgerAssumption
  <2>2. one(e) \in KeysOf[e] /\ \E l \in KeysOf[e] : KeysOf[e] = {one(e), l}
    BY <2>1
  <2> HIDE DEF one
  <2> QED BY <2>2
<1> HIDE DEF one, other
<1>2. keys = ones \union others
  BY <1>1
<1>3. f \in Surjection(S, ones) /\ g \in Surjection(S, others)
  BY DEF Surjection
<1>4. IsFiniteSet(S) /\ Cardinality(S) \in Nat
  BY EntriesFinite, FS_Subset, FS_CardinalityType
<1> HIDE DEF f, g, ones, others
<1>5. /\ IsFiniteSet(ones) /\ Cardinality(ones) <= Cardinality(S)
      /\ IsFiniteSet(others) /\ Cardinality(others) <= Cardinality(S)
  BY <1>3, <1>4, FS_Surjection
<1>6. /\ IsFiniteSet(keys)
      /\ Cardinality(keys) = Cardinality(ones) + Cardinality(others)
                               - Cardinality(ones \intersect others)
  BY <1>2, <1>5, FS_Union
<1>7. /\ Cardinality(ones) \in Nat /\ Cardinality(others) \in Nat
      /\ Cardinality(ones \intersect others) \in Nat
  <2>1. IsFiniteSet(ones \intersect others)
    BY <1>5, FS_Subset
  <2> QED BY <1>5, <2>1, FS_CardinalityType
<1> HIDE DEF keys
<1>8. Cardinality(keys) \in Nat
  BY <1>6, FS_CardinalityType
<1> QED BY <1>4, <1>5, <1>6, <1>7, <1>8 DEF keys

\* While there are no more keys than the cap, nothing is pruned.
LEMMA PruneKeepsAll ==
    ASSUME Exact, NEW ls \in Batches, Apart(ls)
    PROVE  Recorded(Prune(ls)) = Recorded(ls) /\ Apart(Prune(ls))
<1>1. ASSUME NEW k \in Keyed(ls) PROVE k \in Kept(ls)
  <2> DEFINE after == {l \in Keyed(ls) : DroppedBefore(ls, k, l)}
             others == Keys \ {k}
  <2>1. k \in Keys /\ after \subseteq others
    BY NotBeforeItself DEF Batches, Keyed
  <2> HIDE DEF after
  <2>2. IsFiniteSet(Keys) /\ Cardinality(Keys) \in Nat
    BY KeysOfMany DEF Keys
  <2>3. IsFiniteSet(others) /\ Cardinality(others) = Cardinality(Keys) - 1
    BY <2>1, <2>2, FS_RemoveElement
  <2> HIDE DEF others
  <2>4. IsFiniteSet(after) /\ Cardinality(after) <= Cardinality(others)
    BY <2>1, <2>3, FS_Subset
  <2>5. Cardinality(after) \in Nat /\ LastSentCap \in Nat
    BY <2>4, FS_CardinalityType, LedgerAssumption
  <2>6. Cardinality(after) < LastSentCap
    BY <2>2, <2>3, <2>4, <2>5 DEF Exact
  <2> QED BY <2>6 DEF after, Kept
<1>2. Kept(ls) \subseteq Keyed(ls)
  BY DEF Kept
<1>3. Keyed(Prune(ls)) = Keyed(ls)
  BY <1>1, <1>2, PruneKeeps
<1> QED BY <1>3, PruneLeavesApart DEF Recorded

LEMMA BeginsApart ==
    ASSUME Base, Begins, Apart(stored.lastSent)
    PROVE  Apart(mem'.lastSent)
<1>1. stored.lastSent \in Batches /\ mem'.lastSent = Append(stored.lastSent, {})
  BY DEF Base, OInv, Typed, StatusType, Begins
<1> QED BY <1>1 DEF Apart, Batches

LEMMA HandlesApart ==
    ASSUME Base, NEW e \in todo, Handles(e), Apart(mem.lastSent)
    PROVE  Apart(mem'.lastSent)
<1>1. e \in Entries /\ e \notin Recorded(mem.lastSent)
  BY DEF Base, OInv, Typed, Planned, Sent, Handles
<1>2. KeysOf[e] \intersect Keyed(mem.lastSent) = {}
  BY <1>1 DEF Recorded, EntriesOf
<1>3. /\ mem.lastSent \in Batches
      /\ mem'.lastSent = [mem.lastSent EXCEPT ![Len(mem.lastSent)] = @ \union KeysOf[e]]
  BY DEF Base, OInv, Typed, StatusType, Handles
<1> QED BY <1>2, <1>3 DEF Apart, Keyed, Batches

LEMMA RememberedStep ==
    ASSUME Base, Known, Remembered, [Next]_vars
    PROVE  Remembered'
<1> SUFFICES ASSUME Exact PROVE Remembered'
  BY DEF Remembered, Exact
<1>0. Remembers(stored, hist.recorded) /\ (pc = "deliver" => Remembers(mem, hist.recorded))
  BY DEF Remembered
<1>1. ASSUME NEW e \in Entries, Publish(e) PROVE Remembered'
  <2>1. hist'.recorded = hist.recorded
    BY <1>1 DEF Publish, Base, OInv, Typed, HistType
  <2> QED BY <1>0, <1>1, <2>1 DEF Publish, Remembered, Remembers, Apart
<1>2. ASSUME NEW e \in present, Delete(e) PROVE Remembered'
  BY <1>0, <1>2 DEF Delete, Remembered, Remembers, Apart
<1>3. ASSUME Rests PROVE Remembered'
  BY <1>0, <1>3 DEF Rests, IdleAfter, Remembered, Remembers, Apart
<1>4. ASSUME Begins PROVE Remembered'
  <2>1. Recorded(mem'.lastSent) = Recorded(stored.lastSent) /\ Apart(mem'.lastSent)
    BY <1>0, <1>4, NewBatchEmpty, BeginsApart DEF Remembers
  <2> QED BY <1>0, <1>4, <2>1 DEF Begins, Remembered, Remembers, Apart
<1>5. ASSUME NEW e \in todo, Handles(e) PROVE Remembered'
  <2>1. /\ Recorded(mem'.lastSent) = Recorded(mem.lastSent) \union {e}
        /\ Apart(mem'.lastSent)
    BY <1>0, <1>5, BatchJoined, HandlesApart DEF Handles, Remembers
  <2> QED BY <1>0, <1>5, <2>1 DEF Handles, Remembered, Remembers, Apart
<1>6. ASSUME Stops PROVE Remembered'
  <2>1. mem.lastSent \in Batches /\ Remembers(mem, hist.recorded) /\ pc = "deliver"
    BY <1>0, <1>6 DEF Base, OInv, Typed, StatusType, Stops
  <2>2. /\ Recorded(Prune(mem.lastSent)) = Recorded(mem.lastSent)
        /\ Apart(Prune(mem.lastSent))
    BY <2>1, PruneKeepsAll DEF Remembers
  <2>3. Batch \subseteq Recorded(mem.lastSent)
    BY <2>1, LastBatch
  <2>4. Remembers(stored', hist'.recorded)
    BY <1>6, <2>1, <2>2, <2>3 DEF Stops, Remembers
  <2> QED BY <1>6, <2>4 DEF Stops, IdleAfter, Remembered, Remembers, Apart
<1>7. ASSUME Abandons PROVE Remembered'
  BY <1>0, <1>7 DEF Abandons, IdleAfter, Remembered, Remembers, Apart
<1>8. ASSUME UNCHANGED vars PROVE Remembered'
  BY <1>0, <1>8 DEF vars, Remembered, Remembers, Apart
<1> QED BY <1>1, <1>2, <1>3, <1>4, <1>5, <1>6, <1>7, <1>8, Steps

LEMMA PlanIsPast ==
    ASSUME Base, NEW limit \in Nat
    PROVE  /\ Scan(stored, present, limit) \subseteq present
           /\ Plan(stored, present, limit) \subseteq Scan(stored, present, limit)
           /\ \A e \in Plan(stored, present, limit) : ~Past(stored, e)
<1>1. present \subseteq Nat
  BY EntriesAreNumbers DEF Base, OInv, Typed
<1>2. Scan(stored, present, limit) \subseteq present
  BY DEF Scan, LimitCatchUp, Newest
<1>3. ASSUME NEW e \in Plan(stored, present, limit), Past(stored, e)
      PROVE  FALSE
  <2>1. e \in present /\ stored.mark \in present /\ e > stored.mark /\ e <= stored.mark
    BY <1>2, <1>3 DEF Plan, Past, Found
  <2>2. e \in Nat /\ stored.mark \in Nat
    BY <1>1, <2>1
  <2> QED BY <2>1, <2>2
<1> QED BY <1>2, <1>3 DEF Plan

LEMMA LimitIsNumber ==
    ASSUME Base
    PROVE  spec.limit \in Nat
  BY SyncAssumption DEF Base, OInv, Typed, Specs

\* A document that rolls loses its oldest entry.
LEMMA PublishRolls ==
    ASSUME Base, NEW e \in Entries, Publish(e)
    PROVE  /\ present' \subseteq present \union {e}
           /\ \A d \in present \ present', f \in present' \intersect present : d < f
<1>1. present \in SUBSET Nat
  BY EntriesAreNumbers DEF Base, OInv, Typed
<1>2. \A d \in present \ present' : d = Min(present)
  BY DEF Publish
<1>3. ASSUME NEW d \in present \ present', NEW f \in present' \intersect present
      PROVE  d < f
  <2>0. present # {} /\ f \in present /\ d = Min(present)
    BY <1>2, <1>3
  <2>1. d <= f
    BY <1>1, <2>0, Least
  <2>2. d # f /\ d \in Nat /\ f \in Nat
    BY <1>1, <1>3
  <2> QED BY <2>1, <2>2
<1> QED BY <1>3 DEF Publish

LEMMA RolledStep ==
    ASSUME Base, Known, Rolled, [Next]_vars
    PROVE  Rolled'
<1> SUFFICES ASSUME Rolling PROVE Rolled'
  BY DEF Rolled, Rolling
<1>0. /\ AllBehind(stored, hist.recorded)
      /\ pc = "deliver" =>
           /\ AllBehind(mem, Handled)
           /\ Handled \intersect present \subseteq doc
           /\ \A d \in doc \ present, f \in doc \intersect present : d < f
           /\ \A x \in Handled \intersect doc, f \in todo : x < f
  BY DEF Rolled
<1>a. /\ present \subseteq published /\ published \subseteq Nat /\ doc \subseteq published
      /\ todo \subseteq doc /\ hist.recorded \subseteq published
      /\ pc = "deliver" => Held = Batch /\ Batch \subseteq published
      /\ Handled = hist.recorded \union Held
  BY EntriesAreNumbers DEF Base, OInv, Typed, Known, Held, Handled
<1>1. ASSUME NEW e \in Entries, Publish(e) PROVE Rolled'
  <2>1. /\ UNCHANGED <<stored, pc, mem, doc, todo>> /\ e \notin published
        /\ hist'.recorded = hist.recorded
    BY <1>1 DEF Publish, Base, OInv, Typed, HistType
  <2>2. Handled' = Handled
    BY <2>1 DEF Handled, Held, Batch
  <2>3. /\ present' \subseteq present \union {e}
        /\ \A d \in present \ present', f \in present' \intersect present : d < f
    BY <1>1, PublishRolls
  <2>4. ASSUME NEW st, NEW S \in SUBSET published, AllBehind(st, S)
        PROVE  \A x \in S \intersect present' : st.mark \in present' /\ x <= st.mark
    <3> TAKE x \in S \intersect present'
    <3>1. x \in present /\ st.mark \in present /\ x <= st.mark
      BY <2>1, <2>3, <2>4 DEF AllBehind, Past, Found
    <3>2. st.mark \notin present' => st.mark < x
      BY <2>3, <3>1
    <3>3. st.mark \in Nat /\ x \in Nat
      BY <1>a, <3>1
    <3> QED BY <3>1, <3>2, <3>3
  <2>5. AllBehind(stored, hist.recorded)'
    BY <1>0, <1>a, <2>1, <2>4 DEF AllBehind, Past, Found
  <2>6. CASE pc = "deliver"
    <3>1. Handled \in SUBSET published
      BY <1>a, <2>6
    <3>2. AllBehind(mem, Handled)'
      BY <1>0, <2>1, <2>2, <2>4, <2>6, <3>1 DEF AllBehind, Past, Found
    <3>3. (Handled \intersect present \subseteq doc)'
      BY <1>0, <2>1, <2>2, <2>3, <2>6, <3>1
    <3>4. \A d \in doc \ present', f \in doc \intersect present' : d < f
      <4> TAKE d \in doc \ present', f \in doc \intersect present'
      <4>1. f \in present
        BY <1>a, <2>1, <2>3
      <4> QED BY <1>0, <2>3, <2>6, <4>1
    <3> QED BY <1>0, <2>1, <2>2, <2>5, <2>6, <3>2, <3>3, <3>4 DEF Rolled
  <2> QED BY <2>1, <2>5, <2>6 DEF Rolled
<1>2. ASSUME NEW e \in present, Delete(e) PROVE Rolled'
  <2>1. bounds.deletions < 0 /\ bounds.deletions \in 0..0
    BY <1>2 DEF Delete, Rolling, Base, BoundsType
  <2> QED BY <2>1
<1>3. ASSUME Rests PROVE Rolled'
  BY <1>0, <1>3 DEF Rests, IdleAfter, Rolled, AllBehind, Past, Found
<1>4. ASSUME Begins PROVE Rolled'
  <2>1. Handled' = hist.recorded
    BY <1>4, NewBatchEmpty DEF Begins, Handled, Held
  <2>2. /\ pc' = "deliver" /\ doc' = present /\ UNCHANGED <<present, stored>>
        /\ hist'.recorded = hist.recorded
        /\ todo' \subseteq Plan(stored, present, spec.limit)
        /\ mem'.mark = IF SkipsBacklog(stored, spec.limit) THEN Max(present) ELSE stored.mark
    BY <1>4 DEF Begins
  <2>3. ASSUME NEW x \in hist.recorded \intersect present
        PROVE  Past(stored, x) /\ mem'.mark = stored.mark
    <3>1. Past(stored, x)
      BY <1>0 DEF AllBehind
    <3>2. stored.mark # NoMark
      BY <3>1, EntriesAreNumbers DEF Past, Found, Base, OInv, Typed
    <3> QED BY <2>2, <3>1, <3>2 DEF SkipsBacklog
  <2>4. AllBehind(mem, Handled)'
    BY <2>1, <2>2, <2>3 DEF AllBehind, Past, Found
  <2>5. ASSUME NEW x \in hist.recorded \intersect present, NEW f \in todo'
        PROVE  x < f
    <3>1. f \in present /\ ~Past(stored, f)
      BY <2>2, PlanIsPast, LimitIsNumber
    <3>2. stored.mark \in present /\ x <= stored.mark /\ ~(f <= stored.mark)
      BY <2>3, <3>1 DEF Past, Found
    <3>3. x \in Nat /\ f \in Nat /\ stored.mark \in Nat
      BY <1>a, <3>1, <3>2
    <3> QED BY <3>2, <3>3
  <2>6. AllBehind(stored, hist.recorded)'
    BY <1>0, <2>2 DEF AllBehind, Past, Found
  <2> QED BY <2>1, <2>2, <2>4, <2>5, <2>6 DEF Rolled
<1>5. ASSUME NEW e \in todo, Handles(e) PROVE Rolled'
  <2>1. /\ pc = "deliver" /\ pc' = "deliver" /\ (\A f \in todo : e <= f) /\ todo' = todo \ {e}
        /\ UNCHANGED <<present, stored, doc>> /\ mem'.mark = e
        /\ hist'.recorded = hist.recorded
    BY <1>5 DEF Handles
  <2>2. Handled' = Handled \union {e}
    BY <1>5, <2>1, BatchJoined DEF Handled, Held
  <2>3. e \in doc /\ e \in Nat
    BY <1>a
  <2>4. ASSUME NEW x \in (Handled \union {e}) \intersect present
        PROVE  e \in present /\ x <= e
    <3>1. CASE x = e
      BY <2>3, <3>1
    <3>2. CASE x # e
      <4>1. x \in doc /\ x < e
        BY <1>0, <2>1, <2>4, <3>2
      <4>2. e \notin present => e < x
        BY <1>0, <2>1, <2>3, <2>4, <4>1
      <4>3. x \in Nat
        BY <1>a, <4>1
      <4> QED BY <2>3, <4>1, <4>2, <4>3
    <3> QED BY <3>1, <3>2
  <2>5. AllBehind(mem, Handled)'
    BY <2>1, <2>2, <2>4 DEF AllBehind, Past, Found
  <2>6. \A x \in (Handled \union {e}) \intersect doc, f \in todo \ {e} : x < f
    <3> TAKE x \in (Handled \union {e}) \intersect doc, f \in todo \ {e}
    <3>1. f \in Nat /\ e <= f /\ e # f
      BY <1>a, <2>1
    <3>2. e < f
      BY <2>3, <3>1
    <3> QED BY <1>0, <2>1, <3>2
  <2>7. AllBehind(stored, hist.recorded)'
    BY <1>0, <2>1 DEF AllBehind, Past, Found
  <2> QED BY <1>0, <2>1, <2>2, <2>3, <2>5, <2>6, <2>7 DEF Rolled
<1>6. ASSUME Stops PROVE Rolled'
  <2>1. /\ pc = "deliver" /\ pc' = "idle" /\ present' = present /\ stored'.mark = mem.mark
        /\ hist'.recorded = Handled
    BY <1>6, <1>a DEF Stops, IdleAfter
  <2>2. AllBehind(stored, hist.recorded)'
    BY <1>0, <2>1 DEF AllBehind, Past, Found
  <2> QED BY <2>1, <2>2 DEF Rolled
<1>7. ASSUME Abandons PROVE Rolled'
  BY <1>0, <1>7 DEF Abandons, IdleAfter, Rolled, AllBehind, Past, Found
<1>8. ASSUME UNCHANGED vars PROVE Rolled'
  BY <1>0, <1>8 DEF vars, Rolled, AllBehind, Past, Found, Handled, Held, Batch
<1> QED BY <1>1, <1>2, <1>3, <1>4, <1>5, <1>6, <1>7, <1>8, Steps

LEMMA FreshStep ==
    ASSUME Base, Known, Remembered, Rolled, Fresh, [Next]_vars
    PROVE  Fresh'
<1> SUFFICES ASSUME Exact \/ Rolling PROVE (todo \intersect hist.recorded = {})'
  BY DEF Fresh, Unrepeated, Exact, Rolling
<1>0. todo \intersect hist.recorded = {}
  BY DEF Fresh, Unrepeated
<1>1. ASSUME NEW e \in Entries, Publish(e) PROVE (todo \intersect hist.recorded = {})'
  <2>1. hist'.recorded = hist.recorded
    BY <1>1 DEF Publish, Base, OInv, Typed, HistType
  <2> QED BY <1>0, <1>1, <2>1 DEF Publish
<1>2. ASSUME Begins PROVE (todo \intersect hist.recorded = {})'
  <2> SUFFICES ASSUME NEW f \in todo', f \in hist.recorded PROVE FALSE
    BY <1>2 DEF Begins
  <2>1. f \in Plan(stored, present, spec.limit) /\ ~Sent(stored, f)
    BY <1>2 DEF Begins
  <2>2. f \in present /\ ~Past(stored, f)
    BY <2>1, PlanIsPast, LimitIsNumber
  <2>3. CASE Exact
    BY <2>1, <2>3 DEF Remembered, Remembers, Sent
  <2>4. CASE Rolling
    BY <2>2, <2>4 DEF Rolled, AllBehind
  <2> QED BY <2>3, <2>4
<1>3. ASSUME NEW e \in todo, Handles(e) PROVE (todo \intersect hist.recorded = {})'
  BY <1>0, <1>3 DEF Handles
<1> QED BY <1>0, <1>1, <1>2, <1>3, Steps
        DEF Delete, Rests, Stops, Abandons, IdleAfter, vars

LEMMA FreshInvariance == Spec => [](Base /\ Known /\ Remembered /\ Rolled /\ Fresh)
<1>1. Init => Remembered /\ Rolled /\ Fresh
  BY DEF Init, NewStatus, HistInit, Remembered, Remembers, Apart,
         Rolled, AllBehind, Fresh, Unrepeated
<1>2. Base /\ Known /\ Remembered /\ Rolled /\ Fresh /\ [Next]_vars
      => (Base /\ Known /\ Remembered /\ Rolled /\ Fresh)'
  BY BaseStep, KnownStep, RememberedStep, RolledStep, FreshStep
<1>3. Init => Base /\ Known
  <2>1. Init => Cardinality(present) <= Window
    BY DEF Init
  <2> QED BY <2>1, BaseInit, KnownInit
<1> QED BY <1>1, <1>2, <1>3, PTL DEF Spec

-----------------------------------------------------------------------------
(* The sync delivers as Delivery promises.                                   *)

\* What is still to send is open.
LEMMA OpenToSend ==
    ASSUME Base, Known, Unrepeated, pc = "deliver", NEW e \in todo
    PROVE  e \in Entries /\ Promise!Open(e)
<1>1. e \notin hist.recorded
  BY DEF Unrepeated
<1>2. e \notin Batch
  BY LastBatch DEF Base, OInv, Planned, Sent
<1> QED BY <1>1, <1>2 DEF Promise!Open, Held, Base, OInv, Typed

LEMMA DeliveryStep ==
    ASSUME Base, Known, Unrepeated, [Next]_vars
    PROVE  [Promise!Next]_(Promise!vars)
<1> USE DEF Promise!vars
<1>0. hist \in HistType
  BY DEF Base, OInv, Typed
<1>1. ASSUME NEW e \in Entries, Publish(e) PROVE UNCHANGED Promise!vars
  <2>1. hist'.posts = hist.posts /\ hist'.recorded = hist.recorded
    BY <1>0, <1>1 DEF Publish, HistType
  <2> QED BY <1>1, <2>1 DEF Publish, Held, Batch
<1>2. ASSUME NEW e \in present, Delete(e) PROVE UNCHANGED Promise!vars
  <2>1. bounds'.losses = bounds.losses
    BY <1>2 DEF Delete, Count, Base, BoundsType
  <2> QED BY <1>2, <2>1 DEF Delete, Held, Batch, EntriesOf
<1>3. CASE Rests
  BY <1>3 DEF Rests, IdleAfter, Held
<1>4. CASE Begins
  BY <1>4, NewBatchEmpty DEF Begins, Held
<1>5. ASSUME NEW e \in todo, Handles(e) PROVE Promise!Next
  <2>1. e \in Entries /\ Promise!Open(e)
    BY <1>5, OpenToSend DEF Handles
  <2>2. Held' = Held \union {e}
    BY <1>5, BatchJoined DEF Handles, Held
  <2>3. Promise!Post(e) \/ Promise!GiveUp(e)
    BY <1>5, <2>1, <2>2 DEF Handles, PostedOnce, Promise!Post, Promise!GiveUp, Promise!Posted
  <2> QED BY <2>1, <2>3 DEF Promise!Next
<1>6. CASE Stops
  <2>1. pc = "deliver" /\ Held' = {} /\ hist'.recorded = hist.recorded \union Held
    BY <1>6 DEF Stops, IdleAfter, Held
  <2>2. CASE hist'.posts = hist.posts /\ bounds'.losses = bounds.losses
    BY <2>1, <2>2 DEF Promise!Commit, Promise!Next
  <2>3. ASSUME NEW e \in todo, PostedOnce(e), bounds'.losses = bounds.losses + 1
        PROVE  Promise!Next
    <3>1. e \in Entries /\ Promise!Open(e)
      BY <2>1, OpenToSend
    <3>2. Promise!Misfire(e)
      BY <2>1, <2>3, <3>1 DEF PostedOnce, Promise!Misfire, Promise!Posted
    <3> QED BY <3>1, <3>2 DEF Promise!Next
  <2> QED BY <1>6, <2>2, <2>3 DEF Stops
<1>7. CASE Abandons
  <2>1. pc = "deliver" /\ Held' = {} /\ hist' = hist
    BY <1>7 DEF Abandons, IdleAfter, Held
  <2>2. CASE Batch = {} /\ bounds'.losses = bounds.losses
    BY <2>1, <2>2 DEF Held
  <2>3. CASE bounds'.losses = bounds.losses + 1
    BY <2>1, <2>3 DEF Promise!Lose, Promise!Next
  <2> QED BY <1>7, <2>2, <2>3 DEF Abandons
<1>8. CASE UNCHANGED vars
  BY <1>8 DEF vars, Held, Batch
<1> QED BY <1>1, <1>2, <1>3, <1>4, <1>5, <1>6, <1>7, <1>8, Steps

\* The window, the watermark, the plan and the capped LastSent keys (the send
\* loop of entryDelivery.run over what planDelivery returns, ledger.handled and
\* pruneLastSent) deliver each entry once, as Delivery promises: whenever there
\* are no more keys than the cap, so that no key is ever pruned, and also when
\* the document only rolls, so that the watermark alone tells old from new.
THEOREM DeliveryImplemented ==
    ASSUME Exact \/ Rolling
    PROVE  Spec => DeliversOnce
<1>1. Init => Promise!Init
  BY DEF Init, HistInit, Held, Promise!Init
<1>2. Base /\ Known /\ Fresh /\ [Next]_vars => [Promise!Next]_(Promise!vars)
  BY DeliveryStep DEF Fresh
<1> QED BY <1>1, <1>2, FreshInvariance, PTL DEF Spec, DeliversOnce, Promise!Spec

-----------------------------------------------------------------------------
(* Whatever is behind the watermark was handled, or is excused.  The pass    *)
(* needs it of its own watermark, of what is older than an entry it fetched  *)
(* and came too late for the fetch, and of what it has nothing left to send. *)

Excused == hist.backDated \union hist.trimmed \union hist.refused

PassedIsExcused ==
    /\ hist.passed \subseteq Excused
    /\ \A e \in present : Past(stored, e) => e \in hist.recorded \union Excused
    /\ pc = "deliver" =>
         /\ \A e \in present : Past(mem, e) => e \in Handled \union Excused
         /\ \A e \in present \ doc, y \in doc : y > e => e \in hist.backDated
         /\ doc \intersect present \subseteq todo \union Handled \union Excused

\* An entry that is new is behind an older watermark only if it is back-dated.
LEMMA PublishedBehind ==
    ASSUME Base, NEW e \in Entries, Publish(e),
           NEW f \in present', NEW y \in published, y >= f
    PROVE  f \in present \/ f \in hist'.backDated
<1>1. hist'.backDated = hist.backDated \union {x \in {e} : \E g \in published : g > x}
  BY DEF Publish, Base, OInv, Typed, HistType
<1>2. e \notin published /\ present' \subseteq present \union {e}
  BY DEF Publish
<1>3. y \in Nat /\ e \in Nat /\ y # e
  BY <1>2, EntriesAreNumbers DEF Base, OInv, Typed
<1>4. f = e => y > e
  BY <1>3
<1> QED BY <1>1, <1>2, <1>4

LEMMA PassedInit == Init => PassedIsExcused
<1> SUFFICES ASSUME Init PROVE PassedIsExcused
  OBVIOUS
<1>1. present \subseteq Entries /\ stored.mark = NoMark
  BY DEF Init, NewStatus
<1>2. stored.mark \notin present
  BY <1>1, EntriesAreNumbers
<1> QED BY <1>2 DEF Init, HistInit, PassedIsExcused, Past, Found

LEMMA PassedStep ==
    ASSUME Base, Known, PassedIsExcused, [Next]_vars
    PROVE  PassedIsExcused'
<1>0. /\ present \subseteq published /\ doc \subseteq published /\ published \subseteq Nat
      /\ todo \subseteq doc /\ hist \in HistType /\ present \in SUBSET Entries
  BY EntriesAreNumbers DEF Base, OInv, Typed
<1>1. ASSUME NEW e \in Entries, Publish(e) PROVE PassedIsExcused'
  <2>1. /\ UNCHANGED <<stored, pc, mem, doc, todo>> /\ e \notin published
        /\ hist'.recorded = hist.recorded /\ hist'.passed = hist.passed
        /\ hist'.trimmed = hist.trimmed /\ hist'.refused = hist.refused
        /\ hist.backDated \subseteq hist'.backDated
        /\ present' \subseteq present \union {e} /\ present' \subseteq Entries
    BY <1>0, <1>1 DEF Publish, HistType
  <2>2. Handled' = Handled /\ Excused \subseteq Excused'
    BY <2>1 DEF Handled, Held, Batch, Excused
  <2>3. ASSUME NEW st, st.mark \in published \union {NoMark}, NEW f \in present', Past(st, f)'
        PROVE  (Past(st, f) /\ f \in present) \/ f \in Excused'
    <3>1. st.mark \in present' /\ f <= st.mark /\ st.mark \in published
      BY <2>1, <2>3, EntriesAreNumbers DEF Past, Found
    <3>2. st.mark \in present
      BY <2>1, <3>1
    <3>3. st.mark >= f
      BY <3>1, <2>1, <1>0, EntriesAreNumbers
    <3> QED BY <1>1, <3>1, <3>2, <3>3, PublishedBehind DEF Past, Found, Excused
  <2>4. \A f \in present' : Past(stored, f)' => f \in hist'.recorded \union Excused'
    BY <2>1, <2>2, <2>3 DEF PassedIsExcused, Base, OInv, Typed, Past, Found
  <2>5. CASE pc = "deliver"
    <3>1. \A f \in present' : Past(mem, f)' => f \in Handled' \union Excused'
      BY <2>1, <2>2, <2>3, <2>5 DEF PassedIsExcused, Base, OInv, Typed, Past, Found
    <3>2. ASSUME NEW f \in present' \ doc, NEW y \in doc, y > f
          PROVE  f \in hist'.backDated
      <4>1. y >= f /\ y \in published
        BY <1>0, <2>1, <3>2, EntriesAreNumbers
      <4> QED BY <1>1, <2>1, <2>5, <3>2, <4>1, PublishedBehind DEF PassedIsExcused
    <3>3. doc \intersect present' \subseteq todo \union Handled \union Excused
      BY <1>0, <2>1, <2>5 DEF PassedIsExcused
    <3> QED BY <2>1, <2>2, <2>4, <3>1, <3>2, <3>3 DEF PassedIsExcused
  <2>6. hist'.passed \subseteq Excused'
    BY <2>1, <2>2 DEF PassedIsExcused
  <2> QED BY <2>1, <2>4, <2>5, <2>6 DEF PassedIsExcused
<1>2. ASSUME NEW e \in present, Delete(e) PROVE PassedIsExcused'
  <2>1. /\ present' \subseteq present
        /\ UNCHANGED <<stored, pc, mem, doc, todo, hist>> /\ Handled' = Handled
    BY <1>2 DEF Delete, Handled, Held, Batch
  <2> QED BY <2>1 DEF PassedIsExcused, Excused, Past, Found
<1>3. ASSUME Rests PROVE PassedIsExcused'
  BY <1>3 DEF Rests, IdleAfter, PassedIsExcused, Excused, Past, Found
<1>4. ASSUME Begins PROVE PassedIsExcused'
  <2> DEFINE plan == Plan(stored, present, spec.limit)
             scan == Scan(stored, present, spec.limit)
  <2>1. /\ pc' = "deliver" /\ doc' = present /\ UNCHANGED <<present, stored>>
        /\ todo' = {e \in plan : Matches(e) /\ ~Sent(stored, e)}
        /\ hist'.recorded = hist.recorded
        /\ hist'.trimmed = hist.trimmed \union (present \ scan)
        /\ hist'.refused = present \intersect
             (hist.refused \union {e \in plan : ~Matches(e)})
        /\ hist'.backDated = hist.backDated \intersect present
        /\ hist'.passed = present \intersect
             (hist.passed \union {e \in present \ hist.recorded : Past(stored, e)})
        /\ Handled' = hist.recorded
    BY <1>4, NewBatchEmpty DEF Begins, Handled, Held
  <2>2. Excused \intersect present \subseteq Excused' /\ present \ scan \subseteq Excused'
    BY <2>1 DEF Excused
  <2>3. \A e \in present : Past(stored, e) => e \in hist.recorded \union Excused'
    BY <2>2 DEF PassedIsExcused
  <2>4. hist'.passed \subseteq Excused'
    BY <2>1, <2>2, <2>3 DEF PassedIsExcused
  <2>5. \A e \in present : Past(mem, e)' => e \in hist.recorded \union Excused'
    <3>1. CASE SkipsBacklog(stored, spec.limit)
      <4>1. scan = {}
        BY <3>1 DEF Scan
      <4> QED BY <2>2, <4>1
    <3>2. CASE ~SkipsBacklog(stored, spec.limit)
      <4>1. mem'.mark = stored.mark
        BY <1>4, <3>2 DEF Begins
      <4> QED BY <2>1, <2>3, <4>1 DEF Past, Found
    <3> QED BY <3>1, <3>2
  <2>6. ASSUME NEW e \in present, e \notin todo'
        PROVE  e \in hist.recorded \union Excused'
    <3>1. CASE e \notin scan
      BY <2>2, <3>1
    <3>2. CASE e \in scan /\ Found(stored, present) /\ ~(e > stored.mark)
      <4>1. e \in Nat /\ stored.mark \in Nat
        BY <1>0, <3>2 DEF Found
      <4> QED BY <2>3, <3>2, <4>1 DEF Past
    <3>3. CASE e \in plan /\ ~Matches(e)
      BY <2>1, <3>3 DEF Excused
    <3>4. CASE Sent(stored, e)
      BY <3>4 DEF Sent, Known
    <3> QED BY <2>1, <2>6, <3>1, <3>2, <3>3, <3>4 DEF Plan
  <2> QED BY <2>1, <2>3, <2>4, <2>5, <2>6 DEF PassedIsExcused, Past, Found
<1>5. ASSUME NEW e \in todo, Handles(e) PROVE PassedIsExcused'
  <2>1. /\ pc = "deliver" /\ pc' = "deliver" /\ (\A f \in todo : e <= f) /\ todo' = todo \ {e}
        /\ UNCHANGED <<present, stored, doc>> /\ mem'.mark = e
        /\ hist'.recorded = hist.recorded /\ Excused' = Excused
        /\ hist'.passed = hist.passed /\ hist'.backDated = hist.backDated
    BY <1>5 DEF Handles, SameDocuments, Excused
  <2>2. Handled' = Handled \union {e}
    BY <1>5, <2>1, BatchJoined DEF Handled, Held
  <2>3. ASSUME NEW f \in present, Past(mem, f)' PROVE f \in Handled' \union Excused
    <3>1. e \in doc /\ f <= e /\ e \in Nat /\ f \in Nat
      BY <1>0, <2>1, <2>3 DEF Past
    <3>2. CASE f \notin doc
      <4>1. e > f
        BY <3>1, <3>2
      <4> QED BY <2>1, <3>1, <3>2, <4>1 DEF PassedIsExcused, Excused
    <3>3. CASE f \in todo
      BY <2>1, <2>2, <3>1, <3>3
    <3> QED BY <2>1, <2>2, <3>2, <3>3 DEF PassedIsExcused
  <2>4. \A f \in present : Past(stored, f)' => Past(stored, f)
    BY <2>1 DEF Past, Found
  <2>5. doc' \intersect present' \subseteq todo' \union Handled' \union Excused'
    BY <2>1, <2>2 DEF PassedIsExcused
  <2>6. \A f \in present \ doc, y \in doc : y > f => f \in hist.backDated
    BY <2>1 DEF PassedIsExcused
  <2> QED BY <2>1, <2>3, <2>4, <2>5, <2>6 DEF PassedIsExcused
<1>6. ASSUME Stops PROVE PassedIsExcused'
  <2>1. /\ pc = "deliver" /\ pc' = "idle" /\ present' = present /\ stored'.mark = mem.mark
        /\ hist'.recorded = Handled /\ Excused' = Excused /\ hist'.passed = hist.passed
    BY <1>6 DEF Stops, IdleAfter, SameDocuments, Excused, Handled, Held
  <2> QED BY <2>1 DEF PassedIsExcused, Past, Found
<1>7. ASSUME Abandons PROVE PassedIsExcused'
  BY <1>7 DEF Abandons, IdleAfter, PassedIsExcused, Excused, Past, Found
<1>8. ASSUME UNCHANGED vars PROVE PassedIsExcused'
  BY <1>8 DEF vars, PassedIsExcused, Excused, Past, Found, Handled, Held, Batch
<1> QED BY <1>1, <1>2, <1>3, <1>4, <1>5, <1>6, <1>7, <1>8, Steps

LEMMA PassedInvariance == Spec => [](Base /\ Known /\ PassedIsExcused)
<1>1. Base /\ Known /\ PassedIsExcused /\ [Next]_vars => (Base /\ Known /\ PassedIsExcused)'
  BY BaseStep, KnownStep, PassedStep
<1>2. Init => Base /\ Known
  <2>1. Init => Cardinality(present) <= Window
    BY DEF Init
  <2> QED BY <2>1, BaseInit, KnownInit
<1> QED BY <1>1, <1>2, PassedInit, PTL DEF Spec

\* Only an entry published with a date before another's is ever passed over by
\* the watermark (planDelivery's found-watermark scan): whatever fails, panics,
\* is lost or edited, the watermark never moves past an entry that the plans'
\* filters admitted and that is neither handled nor trimmed.
THEOREM PassedCorrect == Spec => []OnlyBackDatedPassed
<1>1. PassedIsExcused => OnlyBackDatedPassed
  BY DEF PassedIsExcused, Excused, OnlyBackDatedPassed
<1> QED BY <1>1, PassedInvariance, PTL

-----------------------------------------------------------------------------
(* An entry of the document that validators were stored for was handled, or  *)
(* an earlier plan left it out; so, at the end, of the document of the pass. *)

LeftOut == hist.trimmed \union hist.passed \union hist.refused

Seen ==
    /\ \A D \in stored.validators : \A e \in D \intersect present :
         e \in hist.recorded \union LeftOut
    /\ pc = "deliver" => doc \intersect present \subseteq todo \union Handled \union LeftOut

LEMMA SeenStep ==
    ASSUME Base, Known, Seen, [Next]_vars
    PROVE  Seen'
<1>0. /\ doc \subseteq published /\ stored.validators \subseteq SUBSET published
      /\ hist \in HistType /\ present \subseteq published /\ published \subseteq Nat
  BY EntriesAreNumbers DEF Base, OInv, Typed, Known
<1>1. ASSUME NEW e \in Entries, Publish(e) PROVE Seen'
  <2>1. /\ UNCHANGED <<stored, pc, mem, doc, todo>> /\ e \notin published
        /\ hist'.recorded = hist.recorded /\ hist'.passed = hist.passed
        /\ hist'.trimmed = hist.trimmed /\ hist'.refused = hist.refused
        /\ present' \subseteq present \union {e}
    BY <1>0, <1>1 DEF Publish, HistType
  <2>2. Handled' = Handled /\ LeftOut' = LeftOut
    BY <2>1 DEF Handled, Held, Batch, LeftOut
  <2>3. \A D \in stored.validators : D \intersect present' \subseteq D \intersect present
    BY <1>0, <2>1
  <2>4. doc \intersect present' \subseteq doc \intersect present
    BY <1>0, <2>1
  <2> QED BY <2>1, <2>2, <2>3, <2>4 DEF Seen
<1>2. ASSUME NEW e \in present, Delete(e) PROVE Seen'
  <2>1. /\ present' \subseteq present
        /\ UNCHANGED <<stored, pc, mem, doc, todo, hist>> /\ Handled' = Handled
    BY <1>2 DEF Delete, Handled, Held, Batch
  <2> QED BY <2>1 DEF Seen, LeftOut
<1>3. ASSUME Rests PROVE Seen'
  BY <1>3 DEF Rests, IdleAfter, Seen, LeftOut
<1>4. ASSUME Begins PROVE Seen'
  <2> DEFINE plan == Plan(stored, present, spec.limit)
             scan == Scan(stored, present, spec.limit)
  <2>1. /\ pc' = "deliver" /\ doc' = present /\ UNCHANGED <<present, stored>>
        /\ todo' = {e \in plan : Matches(e) /\ ~Sent(stored, e)}
        /\ hist'.recorded = hist.recorded
        /\ hist'.trimmed = hist.trimmed \union (present \ scan)
        /\ hist'.refused = present \intersect
             (hist.refused \union {e \in plan : ~Matches(e)})
        /\ hist'.passed = present \intersect
             (hist.passed \union {e \in present \ hist.recorded : Past(stored, e)})
        /\ Handled' = hist.recorded
    BY <1>4, NewBatchEmpty DEF Begins, Handled, Held
  <2>2. LeftOut \intersect present \subseteq LeftOut' /\ present \ scan \subseteq LeftOut'
    BY <2>1 DEF LeftOut
  <2>3. ASSUME NEW e \in present, e \notin todo'
        PROVE  e \in hist.recorded \union LeftOut'
    <3>1. CASE e \notin scan
      BY <2>2, <3>1
    <3>2. CASE e \in scan /\ Found(stored, present) /\ ~(e > stored.mark)
      <4>1. e \in Nat /\ stored.mark \in Nat
        BY <1>0, <3>2 DEF Found
      <4> QED BY <2>1, <3>2, <4>1 DEF Past, LeftOut
    <3>3. CASE e \in plan /\ ~Matches(e)
      BY <2>1, <3>3 DEF LeftOut
    <3>4. CASE Sent(stored, e)
      BY <3>4 DEF Sent, Known
    <3> QED BY <2>1, <2>3, <3>1, <3>2, <3>3, <3>4 DEF Plan
  <2> QED BY <2>1, <2>2, <2>3 DEF Seen
<1>5. ASSUME NEW e \in todo, Handles(e) PROVE Seen'
  <2>1. /\ pc = "deliver" /\ pc' = "deliver" /\ todo' = todo \ {e}
        /\ UNCHANGED <<present, stored, doc>>
        /\ hist'.recorded = hist.recorded /\ LeftOut' = LeftOut
    BY <1>5 DEF Handles, SameDocuments, LeftOut
  <2>2. Handled' = Handled \union {e}
    BY <1>5, <2>1, BatchJoined DEF Handled, Held
  <2> QED BY <2>1, <2>2 DEF Seen
<1>6. ASSUME Stops PROVE Seen'
  <2>1. /\ pc = "deliver" /\ pc' = "idle" /\ present' = present
        /\ hist'.recorded = Handled /\ LeftOut' = LeftOut
        /\ stored'.validators = stored.validators \/ (todo = {} /\ stored'.validators = {doc})
    BY <1>6 DEF Stops, IdleAfter, SameDocuments, LeftOut, Handled, Held, Known
  <2>2. hist.recorded \subseteq hist'.recorded
    BY <2>1 DEF Handled
  <2> QED BY <2>1, <2>2 DEF Seen
<1>7. ASSUME Abandons PROVE Seen'
  BY <1>7 DEF Abandons, IdleAfter, Seen, LeftOut
<1>8. ASSUME UNCHANGED vars PROVE Seen'
  BY <1>8 DEF vars, Seen, LeftOut, Handled, Held, Batch
<1> QED BY <1>1, <1>2, <1>3, <1>4, <1>5, <1>6, <1>7, <1>8, Steps

LEMMA SeenInvariance == Spec => []Seen
<1>1. Init => Seen
  BY DEF Init, NewStatus, Seen
<1>2. Base /\ Known /\ Seen /\ [Next]_vars => Seen'
  BY SeenStep
<1> QED BY <1>1, <1>2, BaseInvariance, PTL DEF Spec

\* The stored validators hide nothing (close stores them only when every entry
\* is accounted for): a full fetch of the document they match would find nothing
\* to send but what an earlier pass left out.  A recorded entry stays known by
\* its keys where no key is pruned, and by the watermark where the document only
\* rolls.
THEOREM NothingHidden ==
    ASSUME Exact \/ Rolling
    PROVE  Spec => []NothingBehind304
<1>1. Base /\ Known /\ Remembered /\ Rolled /\ Seen => NothingBehind304
  <2> SUFFICES ASSUME Base, Known, Remembered, Rolled, Seen, present \in stored.validators,
                      NEW e \in Plan(stored, present, spec.limit)
               PROVE  Sent(stored, e) \/ e \in hist.trimmed \union hist.passed \union hist.refused
    BY DEF NothingBehind304
  <2>1. e \in present /\ ~Past(stored, e)
    BY PlanIsPast, LimitIsNumber
  <2>2. CASE e \in hist.recorded
    BY <2>1, <2>2 DEF Remembered, Remembers, Rolled, AllBehind, Sent
  <2> QED BY <2>1, <2>2 DEF Seen, LeftOut
<1> QED BY <1>1, FreshInvariance, SeenInvariance, PTL

-----------------------------------------------------------------------------
(* The first sync brings no more of the backlog than the catch-up limit, if   *)
(* the limit stays what it is.                                               *)

\* How much of the backlog may come while the records of n passes are lost.
Share(limit, n) == limit * n

LEMMA ShareGrows ==
    ASSUME NEW limit \in Nat, NEW n \in Nat
    PROVE  /\ Share(limit, n) \in Nat /\ Share(limit, n + 1) \in Nat
           /\ Share(limit, n + 1) = Share(limit, n) + limit
           /\ Share(limit, n) <= Share(limit, n + 1)
           /\ Share(limit, n + 1) <= Share(limit, n + 1)
<1>1. limit * n \in Nat
  OBVIOUS
<1>2. limit * (n + 1) = limit * n + limit
  OBVIOUS
<1> DEFINE product == limit * n
<1>3. /\ product + limit \in Nat /\ product <= product + limit
      /\ product + limit <= product + limit
  <2> HIDE DEF product
  <2> QED BY <1>1 DEF product
<1> QED BY <1>1, <1>2, <1>3 DEF Share

AtMost(S, k) == Cardinality(S) <= k

LEMMA Within ==
    ASSUME NEW T \in SUBSET Entries, NEW S \in SUBSET T,
           NEW j \in Nat, NEW k \in Nat, j <= k, AtMost(T, j)
    PROVE  AtMost(S, k)
<1>1. IsFiniteSet(T)
  BY EntriesFinite, FS_Subset
<1>2. IsFiniteSet(S) /\ Cardinality(S) <= Cardinality(T)
  BY <1>1, FS_Subset
<1>3. Cardinality(S) \in Nat /\ Cardinality(T) \in Nat
  BY <1>1, <1>2, FS_CardinalityType
<1> QED BY <1>2, <1>3 DEF AtMost

LEMMA Together ==
    ASSUME NEW S \in SUBSET Entries, NEW T \in SUBSET Entries,
           NEW j \in Nat, NEW k \in Nat, AtMost(S, j), AtMost(T, k)
    PROVE  AtMost(S \union T, j + k)
<1>1. IsFiniteSet(S) /\ IsFiniteSet(T)
  BY EntriesFinite, FS_Subset
<1>2. IsFiniteSet(S \intersect T)
  BY <1>1, FS_Subset
<1>3. IsFiniteSet(S \union T)
  BY <1>1, FS_Union
<1>4. Cardinality(S \union T) = Cardinality(S) + Cardinality(T) - Cardinality(S \intersect T)
  BY <1>1, FS_Union
<1>5. /\ Cardinality(S) \in Nat /\ Cardinality(T) \in Nat
      /\ Cardinality(S \intersect T) \in Nat /\ Cardinality(S \union T) \in Nat
  BY <1>1, <1>2, <1>3, FS_CardinalityType
<1> QED BY <1>4, <1>5 DEF AtMost

\* The newest n entries of a document are n at most, and the newest there are.
LEMMA NewestAre ==
    ASSUME NEW D \in SUBSET Entries, NEW n \in Nat
    PROVE  /\ Newest(D, n) \subseteq D /\ AtMost(Newest(D, n), n)
           /\ \A x \in Newest(D, n), y \in D : y > x => y \in Newest(D, n)
<1> DEFINE N == Newest(D, n)
           After(x) == {f \in D : f > x}
<1>0. /\ D \in SUBSET Nat /\ IsFiniteSet(D) /\ N = {e \in D : Cardinality(After(e)) < n}
      /\ \A x : IsFiniteSet(After(x)) /\ Cardinality(After(x)) \in Nat
  <2>1. D \in SUBSET Nat /\ IsFiniteSet(D)
    BY EntriesAreNumbers, EntriesFinite, FS_Subset
  <2>2. ASSUME NEW x PROVE IsFiniteSet(After(x)) /\ Cardinality(After(x)) \in Nat
    <3>1. After(x) \in SUBSET D
      OBVIOUS
    <3> HIDE DEF After
    <3>2. IsFiniteSet(After(x))
      BY <2>1, <3>1, FS_Subset
    <3> QED BY <3>2, FS_CardinalityType
  <2>3. N = {e \in D : Cardinality(After(e)) < n}
    BY DEF Newest
  <2> QED BY <2>1, <2>2, <2>3
<1>1. ASSUME NEW x \in N, NEW y \in D, y > x PROVE y \in N
  <2>1. x \in Nat /\ y \in Nat /\ x \in D
    BY <1>0
  <2>2. After(y) \in SUBSET After(x)
    <3> SUFFICES ASSUME NEW f \in D, f > y PROVE f > x
      OBVIOUS
    <3>1. f \in Nat
      BY <1>0
    <3> QED BY <1>1, <2>1, <3>1
  <2> HIDE DEF After
  <2>3. Cardinality(After(y)) <= Cardinality(After(x))
    BY <1>0, <2>2, FS_Subset
  <2>4. Cardinality(After(x)) < n
    BY <1>0
  <2>5. Cardinality(After(y)) < n
    <3>1. Cardinality(After(x)) \in Nat /\ Cardinality(After(y)) \in Nat
      BY <1>0
    <3> QED BY <2>3, <2>4, <3>1
  <2> QED BY <1>0, <2>5
<1>2. AtMost(N, n)
  <2>1. CASE N = {}
    BY <2>1, FS_EmptySet DEF AtMost
  <2>2. CASE N # {}
    <3> DEFINE oldest == Min(N)
               rest == N \ {oldest}
    <3>1. N \in SUBSET Nat /\ N \in SUBSET D
      BY <1>0
    <3>2. oldest \in N /\ \A x \in N : oldest <= x
      BY <2>2, <3>1, Least
    <3>3. rest \in SUBSET After(oldest)
      <4> SUFFICES ASSUME NEW x \in N, x # oldest PROVE x \in D /\ x > oldest
        OBVIOUS
      <4>1. x \in Nat /\ oldest \in Nat /\ oldest <= x
        BY <3>1, <3>2
      <4> HIDE DEF oldest
      <4> QED BY <3>1, <4>1
    <3>4. IsFiniteSet(N)
      BY <1>0, <3>1, FS_Subset
    <3> HIDE DEF N
    <3>5. Cardinality(rest) = Cardinality(N) - 1
      BY <3>2, <3>4, FS_RemoveElement
    <3>6. Cardinality(After(oldest)) < n
      BY <1>0, <3>2
    <3>7. IsFiniteSet(rest)
      BY <3>4, FS_Subset
    <3> HIDE DEF rest, After, oldest
    <3>8. Cardinality(rest) <= Cardinality(After(oldest))
      BY <1>0, <3>3, FS_Subset
    <3>9. /\ Cardinality(N) \in Nat /\ Cardinality(rest) \in Nat
          /\ Cardinality(After(oldest)) \in Nat
      BY <1>0, <3>4, <3>7, FS_CardinalityType
    <3> QED BY <3>5, <3>6, <3>8, <3>9 DEF AtMost
  <2> QED BY <2>1, <2>2
<1> QED BY <1>0, <1>1, <1>2

\* What this pass and those after it may still take from the document.
Reach ==
    IF stored.mark = NoMark THEN evidence ELSE {e \in doc : e > stored.mark}

Taken == Posted \intersect hist.backlog
TakenAfter(mark) == (Posted \union {e \in present : e > mark}) \intersect hist.backlog
TakenInReach == (Posted \union Reach) \intersect hist.backlog

\* Between passes: without a watermark only lost passes have brought anything.
BacklogBetween(limit) ==
    /\ ~stored.initialized =>
         Posted \subseteq hist.backlog /\ stored.mark = NoMark /\ stored.validators = {}
    /\ stored.initialized /\ stored.mark = NoMark /\ limit = 0 =>
         present \intersect hist.backlog = {}
    /\ pc = "idle" /\ ~hist.lostMark =>
         IF stored.mark = NoMark THEN AtMost(Taken, Share(limit, bounds.losses))
         ELSE AtMost(TakenAfter(stored.mark), Share(limit, bounds.losses + 1))

\* In a pass: whatever it sends is in its reach, which the limit has paid for.
BacklogDuring(limit) ==
    pc = "deliver" =>
        /\ present \intersect hist.backlog \subseteq doc
        /\ ~stored.initialized => doc \subseteq hist.backlog
        /\ mem.mark = NoMark => Batch = {} /\ stored.mark = NoMark
        /\ mem.mark = NoMark /\ limit = 0 => stored.initialized
        /\ ~hist.lostMark =>
             /\ todo \subseteq Reach
             /\ AtMost(TakenInReach, Share(limit, bounds.losses + 1))
             /\ Batch = {} /\ stored.mark = NoMark =>
                  AtMost(Taken, Share(limit, bounds.losses))
             /\ mem.mark # NoMark => \A e \in doc : e > mem.mark => e \in Reach
             /\ \A x \in Reach, y \in doc : y > x => y \in Reach

Paid(limit) ==
    hist.backlog \subseteq published /\ BacklogBetween(limit) /\ BacklogDuring(limit)

LEMMA LossesAreNumbers == Base => bounds.losses \in Nat
  BY SyncAssumption DEF Base, BoundsType

LEMMA PaidTypes ==
    ASSUME Base, Known
    PROVE  /\ Posted \in SUBSET Entries /\ hist.backlog \in SUBSET Entries
           /\ Taken \in SUBSET Entries /\ TakenInReach \in SUBSET Entries
           /\ \A mark : TakenAfter(mark) \in SUBSET Entries
  BY DEF Base, OInv, Typed, HistType, Posted, Taken, TakenInReach, TakenAfter

\* A document that loses entries, or gains one that is not of the backlog.
LEMMA PaidDocument ==
    ASSUME Base, Known, Base', Known', NEW limit \in Nat, Paid(limit),
           present' \intersect hist.backlog \subseteq present \intersect hist.backlog,
           published \subseteq published',
           hist'.posts = hist.posts, hist'.backlog = hist.backlog,
           hist'.lostMark = hist.lostMark, bounds'.losses = bounds.losses,
           UNCHANGED <<spec, stored, pc, mem, doc, todo, evidence>>
    PROVE  Paid(limit)'
<1>1. /\ Posted' = Posted /\ Taken' = Taken /\ Reach' = Reach /\ Batch' = Batch
      /\ TakenInReach' = TakenInReach
  BY SamePosts DEF Taken, Reach, Batch, TakenInReach
<1>2. ASSUME AtMost(TakenAfter(stored.mark), Share(limit, bounds.losses + 1))
      PROVE  AtMost(TakenAfter(stored.mark)', Share(limit, bounds.losses + 1))
  <2>1. TakenAfter(stored.mark)' \in SUBSET TakenAfter(stored.mark)
    BY <1>1 DEF TakenAfter
  <2>2. TakenAfter(stored.mark) \in SUBSET Entries
    BY PaidTypes
  <2>3. Share(limit, bounds.losses + 1) \in Nat
    BY LossesAreNumbers, ShareGrows
  <2>4. \A k \in Nat : k <= k
    OBVIOUS
  <2> QED BY <1>2, <2>1, <2>2, <2>3, <2>4, Within
<1>3. BacklogBetween(limit)'
  BY <1>1, <1>2 DEF Paid, BacklogBetween
<1>4. BacklogDuring(limit)'
  BY <1>1 DEF Paid, BacklogDuring
<1> QED BY <1>3, <1>4 DEF Paid

LEMMA PaidRests ==
    ASSUME Base, Known, NEW limit \in Nat, Paid(limit), Rests
    PROVE  Paid(limit)'
<1>1. /\ pc = "idle" /\ pc' = "idle" /\ UNCHANGED <<present, published, hist>>
      /\ stored'.mark = stored.mark /\ bounds'.losses = bounds.losses
  BY DEF Rests, IdleAfter
<1>2. Posted' = Posted /\ Taken' = Taken /\ TakenAfter(stored.mark)' = TakenAfter(stored.mark)
  BY <1>1 DEF Posted, Taken, TakenAfter
<1>3. ~stored'.initialized => ~stored.initialized /\ stored'.validators = stored.validators
  BY DEF Rests
<1>4. stored'.initialized /\ stored.mark = NoMark /\ limit = 0 =>
        present \intersect hist.backlog = {}
  BY DEF Rests, Paid, BacklogBetween
<1>5. BacklogBetween(limit)'
  BY <1>1, <1>2, <1>3, <1>4 DEF Paid, BacklogBetween
<1> QED BY <1>1, <1>5 DEF Paid, BacklogDuring

LEMMA PaidBegins ==
    ASSUME Base, Known, NEW limit \in Nat, spec.limit = limit, Paid(limit), Begins
    PROVE  Paid(limit)'
<1> DEFINE scan == Scan(stored, present, limit)
           n == bounds.losses
<1>0. /\ present \in SUBSET Entries /\ present \subseteq published /\ present # {}
      /\ Posted \in SUBSET Entries /\ hist.backlog \in SUBSET Entries
      /\ present \in SUBSET Nat /\ n \in Nat /\ limit \in Nat
      /\ stored.mark \in Entries \union {NoMark}
  BY PaidTypes, EntriesAreNumbers, LossesAreNumbers DEF Base, OInv, Typed, Begins
<1>1. /\ pc = "idle" /\ pc' = "deliver" /\ doc' = present /\ evidence' = scan
      /\ UNCHANGED <<present, published, stored>> /\ n' = n
      /\ todo' \subseteq Plan(stored, present, limit)
      /\ mem'.mark = IF SkipsBacklog(stored, limit) THEN Max(present) ELSE stored.mark
      /\ hist'.backlog = IF stored.initialized THEN hist.backlog ELSE hist.backlog \union present
      /\ hist'.lostMark <=> hist.lostMark \/ Lost(stored, present)
  BY DEF Begins
<1>2. Posted' = Posted /\ Batch' = {}
  BY SamePosts, NewBatchEmpty DEF Begins
<1>3. Max(present) \in present /\ \A e \in present : e <= Max(present)
  <2>1. PICK k \in Nat : \A e \in Entries : e <= k
    BY <1>0, EntriesAreNumbers
  <2> QED BY <1>0, <2>1, Greatest
<1>4. hist.backlog \subseteq hist'.backlog /\ hist'.backlog \subseteq published
  BY <1>0, <1>1 DEF Paid
<1>5. stored.mark # NoMark => stored.initialized
  BY DEF Paid, BacklogBetween
<1>6. BacklogBetween(limit)'
  <2>1. pc' # "idle"
    BY <1>1
  <2>2. stored.initialized /\ stored.mark = NoMark /\ limit = 0 =>
          present \intersect hist'.backlog = {}
    BY <1>1 DEF Paid, BacklogBetween
  <2>3. ~stored.initialized =>
          Posted \subseteq hist'.backlog /\ stored.mark = NoMark /\ stored.validators = {}
    BY <1>4 DEF Paid, BacklogBetween
  <2> QED BY <1>1, <1>2, <2>1, <2>2, <2>3 DEF BacklogBetween
<1>7. /\ scan \subseteq present /\ todo' \subseteq scan
      /\ \A e \in todo' : Found(stored, present) => e > stored.mark
  BY <1>1, PlanIsPast, <1>0 DEF Plan
<1>8. ASSUME ~hist'.lostMark
      PROVE  /\ todo' \subseteq Reach' /\ AtMost(TakenInReach', Share(limit, n + 1))
             /\ stored.mark = NoMark => AtMost(Taken', Share(limit, n))
             /\ mem'.mark # NoMark => \A e \in present : e > mem'.mark => e \in Reach'
             /\ \A x \in Reach', y \in present : y > x => y \in Reach'
  <2>1. ~hist.lostMark /\ ~Lost(stored, present)
    BY <1>1, <1>8
  <2>2. CASE stored.mark = NoMark
    <3>1. Reach' = scan
      BY <1>1, <2>2 DEF Reach
    <3>2. Taken' = Taken /\ AtMost(Taken, Share(limit, n))
      <4>1. Posted \intersect hist'.backlog = Posted \intersect hist.backlog
        BY <1>1 DEF Paid, BacklogBetween
      <4> QED BY <1>1, <1>2, <2>1, <2>2, <4>1 DEF Paid, BacklogBetween, Taken
    <3>3. AtMost(scan \intersect hist'.backlog, limit)
      <4>1. CASE limit = 0
        <5>1. scan \intersect hist'.backlog = {}
          BY <1>1, <2>2, <4>1, <1>7 DEF Scan, SkipsBacklog, Paid, BacklogBetween
        <5> QED BY <4>1, <5>1, FS_EmptySet DEF AtMost
      <4>2. CASE limit # 0
        <5>1. ~(limit <= 0)
          BY <1>0, <4>2
        <5>2. scan = Newest(present, limit)
          <6>1. ~Found(stored, present)
            BY <1>0, <2>2, EntriesAreNumbers DEF Found
          <6> QED BY <4>2, <5>1, <6>1 DEF Scan, SkipsBacklog, LimitCatchUp
        <5>3. AtMost(scan, limit)
          BY <1>0, <5>2, NewestAre
        <5>4. scan \in SUBSET Entries /\ scan \intersect hist'.backlog \in SUBSET scan
          BY <1>0, <1>7
        <5> HIDE DEF scan
        <5>5. limit <= limit
          BY <1>0
        <5> QED BY <1>0, <5>3, <5>4, <5>5, Within
      <4> QED BY <4>1, <4>2
    <3>4. AtMost(TakenInReach', Share(limit, n + 1))
      <4>1. TakenInReach' = Taken \union (scan \intersect hist'.backlog)
        BY <1>2, <3>1, <3>2 DEF TakenInReach, Taken
      <4>2. Taken \in SUBSET Entries /\ scan \intersect hist'.backlog \in SUBSET Entries
        BY <1>0, <1>7 DEF Taken
      <4>3. Share(limit, n) \in Nat /\ Share(limit, n + 1) = Share(limit, n) + limit
        BY <1>0, ShareGrows
      <4> HIDE DEF scan
      <4>4. AtMost(Taken \union (scan \intersect hist'.backlog), Share(limit, n) + limit)
        BY <1>0, <3>2, <3>3, <4>2, <4>3, Together
      <4> QED BY <4>1, <4>3, <4>4
    <3>5. mem'.mark # NoMark => \A e \in present : ~(e > mem'.mark)
      <4> SUFFICES ASSUME mem'.mark # NoMark, NEW e \in present PROVE ~(e > mem'.mark)
        OBVIOUS
      <4>1. mem'.mark = Max(present)
        BY <1>1, <2>2
      <4>2. e \in Nat /\ Max(present) \in Nat /\ e <= Max(present)
        BY <1>0, <1>3
      <4> QED BY <4>1, <4>2
    <3>6. ASSUME NEW x \in scan, NEW y \in present, y > x PROVE y \in scan
      <4>1. CASE scan = Newest(present, IF limit <= 0 THEN DefaultCatchUpLimit ELSE limit)
        <5> DEFINE bound == IF limit <= 0 THEN DefaultCatchUpLimit ELSE limit
        <5>1. bound \in Nat
          BY <1>0, LedgerAssumption
        <5> HIDE DEF bound
        <5>2. \A e \in Newest(present, bound), f \in present : f > e => f \in Newest(present, bound)
          BY <1>0, <5>1, NewestAre
        <5> QED BY <3>6, <4>1, <5>2 DEF bound
      <4>2. CASE scan = {} \/ scan = present
        BY <3>6, <4>2
      <4> QED BY <4>1, <4>2 DEF Scan, LimitCatchUp
    <3> QED BY <1>7, <3>1, <3>2, <3>4, <3>5, <3>6
  <2>3. CASE stored.mark # NoMark
    <3>1. Found(stored, present) /\ stored.initialized /\ hist'.backlog = hist.backlog
      BY <1>1, <1>5, <2>1, <2>3 DEF Lost, Found
    <3>2. Reach' = {e \in present : e > stored.mark}
      BY <1>1, <2>3 DEF Reach
    <3>3. mem'.mark = stored.mark
      BY <1>1, <2>3 DEF SkipsBacklog
    <3>4. TakenInReach' = TakenAfter(stored.mark)
      BY <1>2, <3>1, <3>2 DEF TakenInReach, TakenAfter
    <3>5. AtMost(TakenInReach', Share(limit, n + 1))
      BY <1>1, <2>1, <2>3, <3>4 DEF Paid, BacklogBetween
    <3>6. ASSUME NEW x \in Reach', NEW y \in present, y > x PROVE y \in Reach'
      <4>1. x \in Nat /\ y \in Nat /\ stored.mark \in Nat /\ x > stored.mark
        BY <1>0, <3>1, <3>2 DEF Found
      <4>2. y > stored.mark
        BY <3>6, <4>1
      <4> QED BY <3>2, <4>2
    <3> QED BY <1>7, <2>3, <3>1, <3>2, <3>3, <3>5, <3>6
  <2> QED BY <2>2, <2>3
<1>9. /\ ~stored.initialized => present \subseteq hist'.backlog
      /\ mem'.mark = NoMark => stored.mark = NoMark
      /\ mem'.mark = NoMark /\ limit = 0 => stored.initialized
  <2>1. Max(present) # NoMark
    BY <1>0, <1>3, EntriesAreNumbers
  <2> QED BY <1>1, <2>1 DEF SkipsBacklog
<1> QED BY <1>1, <1>2, <1>4, <1>6, <1>8, <1>9 DEF Paid, BacklogDuring

LEMMA PaidHandles ==
    ASSUME Base, Known, NEW limit \in Nat, Paid(limit), NEW e \in todo, Handles(e)
    PROVE  Paid(limit)'
<1>1. /\ pc = "deliver" /\ pc' = "deliver" /\ todo' = todo \ {e}
      /\ UNCHANGED <<present, published, spec, stored, doc, evidence, bounds>>
      /\ mem'.mark = e /\ hist'.backlog = hist.backlog /\ hist'.lostMark = hist.lostMark
  BY DEF Handles, SameDocuments
<1>2. e \in doc /\ e # NoMark
  BY EntriesAreNumbers DEF Base, OInv, Typed
<1>3. Posted' \subseteq Posted \union {e} /\ Batch' # {} /\ Reach' = Reach
  <2>1. Batch' = Batch \union {e}
    BY BatchJoined
  <2>2. Posted' \subseteq Posted \union {e}
    BY PostedGrows, SamePosts DEF Handles
  <2> QED BY <1>1, <2>1, <2>2 DEF Reach
<1>4. ~stored.initialized => Posted' \subseteq hist.backlog
  BY <1>1, <1>2, <1>3 DEF Paid, BacklogBetween, BacklogDuring
<1>5. ASSUME ~hist.lostMark
      PROVE  /\ todo' \subseteq Reach /\ \A f \in doc : f > e => f \in Reach
             /\ AtMost(TakenInReach', Share(limit, bounds.losses + 1))
             /\ \A x \in Reach, y \in doc : y > x => y \in Reach
  <2>1. /\ e \in Reach /\ todo \subseteq Reach
        /\ AtMost(TakenInReach, Share(limit, bounds.losses + 1))
        /\ \A x \in Reach, y \in doc : y > x => y \in Reach
    BY <1>1, <1>5 DEF Paid, BacklogDuring
  <2>2. TakenInReach' \in SUBSET TakenInReach
    BY <1>1, <1>3, <2>1 DEF TakenInReach
  <2>3. TakenInReach \in SUBSET Entries /\ Share(limit, bounds.losses + 1) \in Nat
    BY PaidTypes, LossesAreNumbers, ShareGrows
  <2>4. \A k \in Nat : k <= k
    OBVIOUS
  <2>5. AtMost(TakenInReach', Share(limit, bounds.losses + 1))
    BY <2>1, <2>2, <2>3, <2>4, Within
  <2> QED BY <1>1, <2>1, <2>5
<1>6. BacklogBetween(limit)'
  BY <1>1, <1>4 DEF Paid, BacklogBetween
<1>7. BacklogDuring(limit)'
  BY <1>1, <1>2, <1>3, <1>5 DEF Paid, BacklogDuring
<1> QED BY <1>1, <1>6, <1>7 DEF Paid

\* What a pass that has no watermark has sent, only a lost answer can hide.
LEMMA PaidStops ==
    ASSUME Base, Known, NEW limit \in Nat, Paid(limit), Stops
    PROVE  Paid(limit)'
<1> DEFINE n == bounds.losses
<1>1. /\ pc = "deliver" /\ pc' = "idle" /\ UNCHANGED <<present, published>>
      /\ stored'.mark = mem.mark /\ stored'.initialized
      /\ hist'.backlog = hist.backlog /\ hist'.lostMark = hist.lostMark
  BY DEF Stops, IdleAfter, SameDocuments
<1>2. /\ n \in Nat /\ n + 1 \in Nat /\ limit \in Nat
      /\ TakenInReach \in SUBSET Entries /\ Taken \in SUBSET Entries
  BY LossesAreNumbers, PaidTypes
<1>3. /\ Share(limit, n) \in Nat /\ Share(limit, n + 1) \in Nat
      /\ Share(limit, n + 1 + 1) \in Nat /\ Share(limit, n) <= Share(limit, n + 1)
      /\ Share(limit, n + 1) <= Share(limit, n + 1 + 1)
      /\ Share(limit, n + 1) <= Share(limit, n + 1)
  <2>1. /\ Share(limit, n) \in Nat /\ Share(limit, n) <= Share(limit, n + 1)
        /\ Share(limit, n + 1) <= Share(limit, n + 1)
    BY <1>2, ShareGrows
  <2>2. /\ Share(limit, n + 1) \in Nat /\ Share(limit, n + 1 + 1) \in Nat
        /\ Share(limit, n + 1) <= Share(limit, n + 1 + 1)
    BY <1>2, ShareGrows
  <2> QED BY <2>1, <2>2
<1>4. \/ Posted' = Posted /\ n' = n
      \/ Posted' \subseteq Posted \union todo /\ n' = n + 1
  BY SamePosts, PostedGrows DEF Stops
<1>5. ASSUME ~hist.lostMark, mem.mark = NoMark
      PROVE  AtMost(Taken', Share(limit, n'))
  <2>1. /\ AtMost(Taken, Share(limit, n)) /\ AtMost(TakenInReach, Share(limit, n + 1))
        /\ todo \subseteq Reach
    BY <1>1, <1>5 DEF Paid, BacklogDuring
  <2>2. CASE Posted' = Posted /\ n' = n
    <3>1. Taken' = Taken
      BY <1>1, <2>2 DEF Taken
    <3> QED BY <2>1, <2>2, <3>1
  <2>3. CASE Posted' \subseteq Posted \union todo /\ n' = n + 1
    <3>1. Taken' \in SUBSET TakenInReach
      BY <1>1, <2>1, <2>3 DEF Taken, TakenInReach
    <3>2. AtMost(Taken', Share(limit, n + 1))
      BY <1>2, <1>3, <2>1, <3>1, Within
    <3> QED BY <2>3, <3>2
  <2> QED BY <1>4, <2>2, <2>3
<1>6. ASSUME ~hist.lostMark, mem.mark # NoMark
      PROVE  AtMost(TakenAfter(mem.mark)', Share(limit, n' + 1))
  <2>1. /\ AtMost(TakenInReach, Share(limit, n + 1)) /\ todo \subseteq Reach
        /\ present \intersect hist.backlog \subseteq doc
        /\ \A e \in doc : e > mem.mark => e \in Reach
    BY <1>1, <1>6 DEF Paid, BacklogDuring
  <2>2. mem'.mark = mem.mark
    BY <1>1 DEF Stops, IdleAfter
  <2>3. TakenAfter(mem.mark)' \in SUBSET TakenInReach
    BY <1>1, <1>4, <2>1, <2>2 DEF TakenAfter, TakenInReach
  <2>4. AtMost(TakenAfter(mem.mark)', Share(limit, n + 1))
    BY <1>2, <1>3, <2>1, <2>3, Within
  <2>5. AtMost(TakenAfter(mem.mark)', Share(limit, n + 1 + 1))
    BY <1>2, <1>3, <2>1, <2>3, Within
  <2> QED BY <1>4, <2>4, <2>5
<1>7. mem'.mark = mem.mark
  BY <1>1 DEF Stops, IdleAfter
<1>8. mem.mark = NoMark /\ limit = 0 => present \intersect hist.backlog = {}
  BY <1>1 DEF Paid, BacklogBetween, BacklogDuring
<1>9. IF stored'.mark = NoMark THEN hist.lostMark \/ AtMost(Taken', Share(limit, n'))
      ELSE hist.lostMark \/ AtMost(TakenAfter(stored.mark)', Share(limit, n' + 1))
  <2>1. stored'.mark = mem'.mark
    BY <1>1, <1>7
  <2>2. TakenAfter(stored.mark)' = TakenAfter(mem.mark)'
    BY <2>1 DEF TakenAfter
  <2> QED BY <1>1, <1>5, <1>6, <2>2
<1>10. BacklogBetween(limit)'
  BY <1>1, <1>8, <1>9 DEF BacklogBetween
<1>11. BacklogDuring(limit)'
  BY <1>1 DEF BacklogDuring
<1> QED BY <1>1, <1>10, <1>11 DEF Paid

LEMMA PaidAbandons ==
    ASSUME Base, Known, NEW limit \in Nat, Paid(limit), Abandons
    PROVE  Paid(limit)'
<1> DEFINE n == bounds.losses
<1>1. /\ pc = "deliver" /\ pc' = "idle" /\ UNCHANGED <<present, published, stored, hist>>
      /\ Posted' = Posted /\ Taken' = Taken /\ TakenAfter(stored.mark)' = TakenAfter(stored.mark)
      /\ (Batch = {} /\ n' = n) \/ n' = n + 1
  BY DEF Abandons, IdleAfter, Posted, Taken, TakenAfter
<1>2. /\ n \in Nat /\ n + 1 \in Nat /\ limit \in Nat
      /\ TakenInReach \in SUBSET Entries /\ Taken \in SUBSET TakenInReach
  BY LossesAreNumbers, PaidTypes DEF Taken, TakenInReach
<1>3. /\ Share(limit, n) \in Nat /\ Share(limit, n + 1) \in Nat
      /\ Share(limit, n + 1 + 1) \in Nat
      /\ Share(limit, n + 1) <= Share(limit, n + 1 + 1)
      /\ Share(limit, n + 1) <= Share(limit, n + 1)
  <2>1. /\ Share(limit, n) \in Nat /\ Share(limit, n + 1) <= Share(limit, n + 1)
    BY <1>2, ShareGrows
  <2>2. /\ Share(limit, n + 1) \in Nat /\ Share(limit, n + 1 + 1) \in Nat
        /\ Share(limit, n + 1) <= Share(limit, n + 1 + 1)
    BY <1>2, ShareGrows
  <2> QED BY <2>1, <2>2
<1>4. ASSUME ~hist.lostMark, stored.mark = NoMark
      PROVE  AtMost(Taken, Share(limit, n'))
  <2>1. AtMost(Taken, Share(limit, n + 1))
    BY <1>1, <1>2, <1>3, <1>4, Within DEF Paid, BacklogDuring
  <2> QED BY <1>1, <1>4, <2>1 DEF Paid, BacklogDuring
<1>5. ASSUME ~hist.lostMark, stored.mark # NoMark
      PROVE  AtMost(TakenAfter(stored.mark), Share(limit, n' + 1))
  <2>1. /\ AtMost(TakenInReach, Share(limit, n + 1))
        /\ present \intersect hist.backlog \subseteq doc
    BY <1>1, <1>5 DEF Paid, BacklogDuring
  <2>2. TakenAfter(stored.mark) \in SUBSET TakenInReach
    BY <1>5, <2>1 DEF TakenAfter, TakenInReach, Reach
  <2>3. AtMost(TakenAfter(stored.mark), Share(limit, n + 1))
    BY <1>2, <1>3, <2>1, <2>2, Within
  <2>4. AtMost(TakenAfter(stored.mark), Share(limit, n + 1 + 1))
    BY <1>2, <1>3, <2>1, <2>2, Within
  <2> QED BY <1>1, <2>3, <2>4
<1>6. BacklogBetween(limit)'
  BY <1>1, <1>4, <1>5 DEF Paid, BacklogBetween
<1>7. BacklogDuring(limit)'
  BY <1>1 DEF BacklogDuring
<1> QED BY <1>1, <1>6, <1>7 DEF Paid

LEMMA PaidStep ==
    ASSUME Base, Known, NEW limit \in Nat, spec.limit = limit, Paid(limit), [Next]_vars
    PROVE  Paid(limit)'
<1>0. Base' /\ Known' /\ hist \in HistType /\ hist.backlog \subseteq published
  BY BaseStep, KnownStep DEF Base, OInv, Typed, Paid
<1>1. ASSUME NEW e \in Entries, Publish(e) PROVE Paid(limit)'
  <2>1. /\ UNCHANGED <<spec, stored, pc, mem, doc, todo, evidence, bounds>>
        /\ hist'.posts = hist.posts /\ hist'.backlog = hist.backlog
        /\ hist'.lostMark = hist.lostMark /\ published \subseteq published'
        /\ e \notin published /\ present' \subseteq present \union {e}
    BY <1>0, <1>1 DEF Publish, HistType
  <2>2. present' \intersect hist.backlog \subseteq present \intersect hist.backlog
    BY <1>0, <2>1
  <2> QED BY <1>0, <2>1, <2>2, PaidDocument
<1>2. ASSUME NEW e \in present, Delete(e) PROVE Paid(limit)'
  <2>1. bounds'.losses = bounds.losses
    BY <1>2 DEF Delete, Count, Base, BoundsType
  <2>2. /\ present' \intersect hist.backlog \subseteq present \intersect hist.backlog
        /\ UNCHANGED <<published, spec, stored, pc, mem, doc, todo, evidence, hist>>
    BY <1>2 DEF Delete
  <2> QED BY <1>0, <2>1, <2>2, PaidDocument
<1>3. CASE UNCHANGED vars
  <2>1. UNCHANGED <<present, published, spec, stored, pc, mem, doc, todo, evidence, hist, bounds>>
    BY <1>3 DEF vars
  <2> QED BY <1>0, <2>1, PaidDocument
<1> QED BY <1>1, <1>2, <1>3, Steps, PaidRests, PaidBegins, PaidHandles, PaidStops, PaidAbandons

LEMMA PaidInvariance ==
    ASSUME NEW limit, Limits = {limit}
    PROVE  Spec => [](Base /\ Known /\ Paid(limit))
<1>0. limit \in Nat
  BY SyncAssumption
<1>1. Init => Paid(limit)
  <2> SUFFICES ASSUME Init PROVE Paid(limit)
    OBVIOUS
  <2>1. /\ ~stored.initialized /\ stored.mark = NoMark /\ stored.validators = {}
        /\ pc = "idle" /\ hist.backlog = {} /\ bounds.losses = 0 /\ hist.posts = [e \in Entries |-> 0]
    BY DEF Init, NewStatus, HistInit
  <2>2. Posted = {} /\ Taken = {}
    BY <2>1 DEF Posted, Taken
  <2>3. AtMost({}, Share(limit, 0))
    BY <1>0, ShareGrows, FS_EmptySet DEF AtMost
  <2> QED BY <2>1, <2>2, <2>3 DEF Paid, BacklogBetween, BacklogDuring
<1>2. Base /\ Known /\ Paid(limit) /\ [Next]_vars => Paid(limit)'
  <2> SUFFICES ASSUME Base, Known, Paid(limit), [Next]_vars PROVE Paid(limit)'
    OBVIOUS
  <2>1. spec.limit = limit
    BY DEF Base, OInv, Typed, Specs
  <2> QED BY <1>0, <2>1, PaidStep
<1> QED BY <1>1, <1>2, BaseInvariance, PTL DEF Spec

\* While the watermark is never lost, the first sync of a feed (LimitCatchUp,
\* and the backlog that planDelivery skips for a limit of 0) brings at most
\* catchUpLimit entries of what the document already held, and as many again
\* for each pass whose record is lost, as long as nobody edits the limit.
THEOREM BacklogBounded ==
    ASSUME NEW limit, Limits = {limit}
    PROVE  Spec => []BacklogWithinLimit
<1>1. Base /\ Known /\ Paid(limit) => BacklogWithinLimit
  <2> SUFFICES ASSUME Base, Known, Paid(limit), ~hist.lostMark
               PROVE  Cardinality(Posted \intersect hist.backlog) <= spec.limit * (1 + bounds.losses)
    BY DEF BacklogWithinLimit
  <2>0. /\ spec.limit = limit /\ limit \in Nat /\ bounds.losses \in Nat
        /\ bounds.losses + 1 = 1 + bounds.losses
    BY SyncAssumption, LossesAreNumbers DEF Base, OInv, Typed, Specs
  <2>1. /\ Share(limit, bounds.losses) \in Nat /\ Share(limit, bounds.losses + 1) \in Nat
        /\ Share(limit, bounds.losses) <= Share(limit, bounds.losses + 1)
        /\ Share(limit, bounds.losses + 1) <= Share(limit, bounds.losses + 1)
    BY <2>0, ShareGrows
  <2>2. /\ Taken \in SUBSET Taken /\ Taken \in SUBSET TakenInReach
        /\ Taken \in SUBSET TakenAfter(stored.mark)
        /\ Taken \in SUBSET Entries /\ TakenInReach \in SUBSET Entries
        /\ TakenAfter(stored.mark) \in SUBSET Entries
    BY PaidTypes DEF Taken, TakenInReach, TakenAfter
  <2>3. AtMost(Taken, Share(limit, bounds.losses + 1))
    <3>1. CASE AtMost(Taken, Share(limit, bounds.losses))
      BY <2>1, <2>2, <3>1, Within
    <3>2. CASE AtMost(TakenAfter(stored.mark), Share(limit, bounds.losses + 1))
      BY <2>1, <2>2, <3>2, Within
    <3>3. CASE AtMost(TakenInReach, Share(limit, bounds.losses + 1))
      BY <2>1, <2>2, <3>3, Within
    <3>4. pc = "idle" \/ pc = "deliver"
      BY DEF Base, OInv, Typed
    <3> QED BY <3>1, <3>2, <3>3, <3>4 DEF Paid, BacklogBetween, BacklogDuring
  <2> QED BY <2>0, <2>3 DEF AtMost, Share, Taken
<1> QED BY <1>1, PaidInvariance, PTL

\* With a limit of 0 the first sync leaves out what the feed already holds, and
\* nothing is left out after it (LimitCatchUp is only reached with a watermark
\* that is lost), not even from a feed that was empty until then.
THEOREM BacklogOnly ==
    ASSUME Limits = {0}
    PROVE  Spec => []OnlyBacklogSkipped
<1> DEFINE Skipped == ~hist.lostMark => hist.trimmed \subseteq hist.backlog
<1>1. Init => Skipped
  BY DEF Init, HistInit
<1>2. Base /\ Skipped /\ [Next]_vars => Skipped'
  <2> SUFFICES ASSUME Base, Skipped, [Next]_vars PROVE Skipped'
    OBVIOUS
  <2>0. spec.limit = 0 /\ hist \in HistType
    BY DEF Base, OInv, Typed, Specs
  <2>1. CASE Begins
    <3> SUFFICES ASSUME ~hist'.lostMark PROVE hist'.trimmed \subseteq hist'.backlog
      OBVIOUS
    <3>1. /\ ~hist.lostMark /\ ~Lost(stored, present)
          /\ hist'.backlog = IF stored.initialized THEN hist.backlog ELSE hist.backlog \union present
          /\ hist'.trimmed = hist.trimmed \union (present \ Scan(stored, present, 0))
      BY <2>0, <2>1 DEF Begins
    <3>2. Scan(stored, present, 0) = present \/ ~stored.initialized
      BY <3>1 DEF Scan, SkipsBacklog, Lost, Found
    <3> QED BY <3>1, <3>2
  <2>2. ASSUME NEW e \in Entries, Publish(e) PROVE Skipped'
    BY <2>0, <2>2 DEF Publish, HistType
  <2>3. ASSUME NEW e \in present, Delete(e) PROVE Skipped'
    BY <2>3 DEF Delete
  <2>4. CASE Rests \/ Stops \/ Abandons \/ \E e \in todo : Handles(e)
    BY <2>4 DEF Rests, Stops, Abandons, Handles, SameDocuments
  <2>5. CASE UNCHANGED vars
    BY <2>5 DEF vars
  <2> QED BY <2>1, <2>2, <2>3, <2>4, <2>5, Steps
<1>3. Skipped => OnlyBacklogSkipped
  BY DEF OnlyBacklogSkipped
<1> QED BY <1>1, <1>2, <1>3, BaseInvariance, PTL DEF Spec

-----------------------------------------------------------------------------
(* A third case in which no entry is handled twice, for a publisher that     *)
(* takes entries back and a cap that prunes: entries are published in the    *)
(* order of their dates, and the cap leaves room for the keys, two for each  *)
(* entry, of two windows and of the entries taken back while older ones stay *)
(* in the document.                                                          *)
(*                                                                           *)
(* A key is pruned for those that are newer, or as new and greater.  Of a    *)
(* recorded entry of the document these are keys of: the entry itself; newer *)
(* entries, in the document (less than a window) or taken back (the gap);    *)
(* and the older ones recorded with it or after it, which were all in one    *)
(* document together with it, and so are less than a window.                 *)

Newer(x) == {y \in published : y > x}
Older(D, x) == {y \in D : y < x}

Steady(gap) == hist.backDated = {} /\ \A x \in present : AtMost(Newer(x) \ present, gap)

Roomy(gap) == gap \in Nat /\ 2 * (2 * Window + gap) <= LastSentCap + 2

\* The entries older than x that are recorded with it or after it.
OlderSince(ls, x) ==
    {y \in Recorded(ls) :
        /\ y < x
        /\ \E i, j \in DOMAIN ls :
             i <= j /\ x \in EntriesOf(ls[i]) /\ y \in EntriesOf(ls[j])}

\* They and what could still join them fit a window together with x.
FitWindow(ls, D) ==
    \A x \in Recorded(ls) \intersect D : AtMost(OlderSince(ls, x) \union Older(D, x), Window - 1)

CompactBetween ==
    /\ Apart(stored.lastSent)
    /\ hist.recorded \intersect present \subseteq Recorded(stored.lastSent)
    /\ FitWindow(stored.lastSent, present)

CompactDuring ==
    pc = "deliver" =>
        /\ AtMost(doc, Window) /\ Apart(mem.lastSent)
        /\ Handled \intersect present \subseteq Recorded(mem.lastSent) \intersect doc
        /\ \A x \in doc : Older(present, x) \subseteq doc
        /\ FitWindow(mem.lastSent, doc)

Compact == CompactBetween /\ CompactDuring /\ Unrepeated

LEMMA WindowIsNumber ==
    /\ Window \in Nat /\ Window - 1 \in Nat /\ Window - 1 <= Window - 1
    /\ LastSentCap \in Nat
  BY SyncAssumption, LedgerAssumption

LEMMA OlderSinceAre ==
    ASSUME NEW ls \in Batches, NEW D \in SUBSET Entries, NEW x
    PROVE  OlderSince(ls, x) \union Older(D, x) \in SUBSET Entries
  BY EntriesOfMore DEF OlderSince, Older, Recorded

\* An entry is recorded if it is in a batch.
LEMMA RecordedInBatch ==
    ASSUME NEW ls, NEW y
    PROVE  y \in Recorded(ls) <=> \E i \in DOMAIN ls : y \in EntriesOf(ls[i])
  BY DEF Recorded, EntriesOf, Keyed

\* A document has less than a window of entries besides x.
LEMMA OthersFit ==
    ASSUME NEW D \in SUBSET Entries, AtMost(D, Window), NEW x \in D
    PROVE  D \ {x} \in SUBSET Entries /\ AtMost(D \ {x}, Window - 1)
<1>1. IsFiniteSet(D)
  BY EntriesFinite, FS_Subset
<1>2. /\ IsFiniteSet(D \ {x}) /\ Cardinality(D \ {x}) = Cardinality(D) - 1
      /\ Cardinality(D) \in Nat
  BY <1>1, FS_RemoveElement, FS_CardinalityType
<1> QED BY <1>2, WindowIsNumber DEF AtMost

\* Fewer records and a smaller document fit where more did.
LEMMA FewerFit ==
    ASSUME NEW ls \in Batches, NEW D \in SUBSET Entries, FitWindow(ls, D),
           NEW ms \in Batches, NEW E \in SUBSET Entries,
           \A x \in Recorded(ms) \intersect E :
             /\ x \in Recorded(ls) \intersect D
             /\ OlderSince(ms, x) \union Older(E, x) \subseteq OlderSince(ls, x) \union Older(D, x)
    PROVE  FitWindow(ms, E)
<1> SUFFICES ASSUME NEW x \in Recorded(ms) \intersect E
             PROVE  AtMost(OlderSince(ms, x) \union Older(E, x), Window - 1)
  BY DEF FitWindow
<1> DEFINE S == OlderSince(ms, x) \union Older(E, x)
           T == OlderSince(ls, x) \union Older(D, x)
<1>1. T \in SUBSET Entries /\ S \in SUBSET T /\ AtMost(T, Window - 1)
  BY OlderSinceAre DEF FitWindow
<1> HIDE DEF S, T
<1>2. AtMost(S, Window - 1)
  BY <1>1, WindowIsNumber, Within
<1> QED BY <1>2 DEF S

\* The keys that a key k of x would be pruned for are of x itself, of the older
\* entries recorded since, and of newer ones.
LEMMA FewAreNewer ==
    ASSUME NEW ls \in Batches, Apart(ls), NEW x \in Entries,
           NEW k \in KeysOf[x] \intersect Keyed(ls),
           NEW l \in Keyed(ls), DroppedBefore(ls, k, l)
    PROVE  /\ l # k
           /\ \E y \in Recorded(ls) :
                l \in KeysOf[y] /\ (y = x \/ y > x \/ y \in OlderSince(ls, x))
<1>1. l # k
  BY NotBeforeItself
<1>2. PICK i \in DOMAIN ls, j \in DOMAIN ls : k \in ls[i] /\ l \in ls[j] /\ (i < j \/ i = j)
  BY DEF DroppedBefore
<1>3. ls[j] \subseteq Keys /\ i \in Nat /\ j \in Nat
  BY DEF Batches
<1>4. PICK y \in Entries : l \in KeysOf[y]
  BY <1>2, <1>3 DEF Keys
<1>5. x \in EntriesOf(ls[i]) /\ y \in EntriesOf(ls[j])
  BY <1>2, <1>4 DEF EntriesOf
<1>6. y \in Recorded(ls)
  BY <1>5, RecordedInBatch
<1>7. i <= j /\ x \in Nat /\ y \in Nat
  BY <1>2, <1>3, EntriesAreNumbers
<1>8. y = x \/ y > x \/ y < x
  BY <1>7
<1>9. y < x => y \in OlderSince(ls, x)
  BY <1>5, <1>6, <1>7 DEF OlderSince
<1> QED BY <1>1, <1>4, <1>6, <1>8, <1>9

\* Pruning puts no record behind another.
LEMMA PruneFits ==
    ASSUME NEW ls \in Batches, NEW x
    PROVE  OlderSince(Prune(ls), x) \subseteq OlderSince(ls, x)
<1> SUFFICES ASSUME NEW y \in OlderSince(Prune(ls), x) PROVE y \in OlderSince(ls, x)
  OBVIOUS
<1>1. PICK k \in Nat : \A i \in DOMAIN Prune(ls) :
        i \in Nat /\ i + k \in DOMAIN ls /\ Prune(ls)[i] = ls[i + k] \intersect Kept(ls)
  BY PruneKeeps
<1>2. y < x /\ y \in Recorded(ls)
  BY PruneDropsOnly DEF OlderSince
<1>3. PICK i \in DOMAIN Prune(ls), j \in DOMAIN Prune(ls) :
        i <= j /\ x \in EntriesOf(Prune(ls)[i]) /\ y \in EntriesOf(Prune(ls)[j])
  BY DEF OlderSince
<1>4. /\ i + k \in DOMAIN ls /\ j + k \in DOMAIN ls /\ i + k <= j + k
      /\ x \in EntriesOf(ls[i + k]) /\ y \in EntriesOf(ls[j + k])
  <2>1. i \in Nat /\ j \in Nat /\ Prune(ls)[i] \subseteq ls[i + k] /\ Prune(ls)[j] \subseteq ls[j + k]
    BY <1>1
  <2> QED BY <1>1, <1>3, <2>1, EntriesOfMore
<1> QED BY <1>2, <1>4 DEF OlderSince

\* What a pass handled of the document stays on record when the pass ends.
LEMMA RoomToStay ==
    ASSUME Base, Known, Compact, NEW gap, Steady(gap), Roomy(gap), pc = "deliver",
           NEW x \in Handled \intersect present
    PROVE  x \in Recorded(Prune(mem.lastSent))
<1> DEFINE ls == mem.lastSent
           older == OlderSince(ls, x) \union Older(doc, x)
           withdrawn == Newer(x) \ present
           others == older \union withdrawn
           all == others \union present
           keys == UNION {KeysOf[e] : e \in all}
<1>1. /\ ls \in Batches /\ Apart(ls)
      /\ x \in Recorded(ls) \intersect doc /\ x \in Entries
      /\ doc \in SUBSET Entries /\ present \in SUBSET Entries /\ published \in SUBSET Entries
      /\ Recorded(ls) \subseteq published
  BY DEF Base, OInv, Typed, StatusType, Known, Compact, CompactDuring
<1>2. PICK k \in KeysOf[x] : k \in Keyed(ls)
  BY <1>1 DEF Recorded, EntriesOf
<1> DEFINE before == {l \in Keyed(ls) : DroppedBefore(ls, k, l)}
<1>3. older \in SUBSET Entries /\ AtMost(older, Window - 1)
  BY <1>1, OlderSinceAre DEF Compact, CompactDuring, FitWindow
<1>4. withdrawn \in SUBSET Entries /\ AtMost(withdrawn, gap) /\ gap \in Nat
  BY <1>1 DEF Steady, Roomy, Newer
<1>5. before \subseteq keys \ {k} /\ k \in keys
  <2>1. ASSUME NEW l \in before PROVE l \in keys \ {k}
    <3>1. PICK y \in Recorded(ls) :
            l \in KeysOf[y] /\ (y = x \/ y > x \/ y \in OlderSince(ls, x))
      BY <1>1, <1>2, FewAreNewer
    <3>2. l # k
      BY <1>1, <1>2, FewAreNewer
    <3>3. y > x => y \in withdrawn \union present
      BY <1>1 DEF Newer
    <3> HIDE DEF withdrawn, before
    <3> QED BY <3>1, <3>2, <3>3
  <2> QED BY <1>2, <2>1
<1> HIDE DEF before
<1>6. /\ others \in SUBSET Entries /\ all \in SUBSET Entries
      /\ AtMost(all, ((Window - 1) + gap) + Window)
  <2> HIDE DEF older, withdrawn
  <2>1. AtMost(others, (Window - 1) + gap) /\ others \in SUBSET Entries
    BY <1>3, <1>4, WindowIsNumber, Together
  <2>2. (Window - 1) + gap \in Nat /\ AtMost(present, Window)
    BY <1>4, WindowIsNumber DEF Known, AtMost
  <2> HIDE DEF others
  <2> QED BY <1>1, <2>1, <2>2, WindowIsNumber, Together
<1> HIDE DEF all
<1>7. /\ IsFiniteSet(keys) /\ Cardinality(keys) <= 2 * Cardinality(all)
      /\ Cardinality(keys) \in Nat /\ Cardinality(all) \in Nat
  BY <1>6, KeysOfMany
<1> HIDE DEF keys
<1>8. IsFiniteSet(keys \ {k}) /\ Cardinality(keys \ {k}) = Cardinality(keys) - 1
  BY <1>5, <1>7, FS_RemoveElement
<1>9. Cardinality(before) <= Cardinality(keys \ {k}) /\ Cardinality(before) \in Nat
  BY <1>5, <1>8, FS_Subset, FS_CardinalityType
<1>10. Cardinality(before) < LastSentCap
  BY <1>4, <1>6, <1>7, <1>8, <1>9, WindowIsNumber DEF AtMost, Roomy
<1>11. k \in Keyed(Prune(ls))
  BY <1>1, <1>2, <1>10, PruneKeeps DEF Kept, before
<1> QED BY <1>1, <1>2, <1>11 DEF Recorded, EntriesOf

\* The publisher adds the newest entry, or takes one out of the document.
LEMMA CompactDocument ==
    ASSUME Base, Known, Compact,
           \A x \in present' : x \in present \/ (x \notin published /\ \A y \in published : ~(x < y)),
           present' \subseteq Entries,
           hist'.recorded = hist.recorded,
           UNCHANGED <<stored, pc, mem, doc, todo>>
    PROVE  Compact'
<1>0. /\ stored.lastSent \in Batches /\ present \in SUBSET Entries /\ present' \in SUBSET Entries
      /\ present \subseteq published /\ doc \subseteq published
      /\ hist.recorded \subseteq published /\ Recorded(stored.lastSent) \subseteq published
  BY DEF Base, OInv, Typed, StatusType, Known
<1>1. \A x \in published : Older(present', x) \subseteq Older(present, x)
  BY DEF Older
<1>2. Handled' = Handled /\ (pc = "deliver" => Handled \subseteq published)
  BY <1>0 DEF Handled, Held, Batch, Known
<1>3. CompactBetween'
  <2>1. ASSUME NEW x \in Recorded(stored.lastSent) \intersect present'
        PROVE  /\ x \in Recorded(stored.lastSent) \intersect present
               /\ OlderSince(stored.lastSent, x) \union Older(present', x)
                    \subseteq OlderSince(stored.lastSent, x) \union Older(present, x)
    BY <1>0, <1>1
  <2>2. FitWindow(stored.lastSent, present')
    BY <1>0, <2>1, FewerFit DEF Compact, CompactBetween
  <2>3. hist.recorded \intersect present' \subseteq hist.recorded \intersect present
    BY <1>0
  <2> QED BY <2>2, <2>3 DEF Compact, CompactBetween, FitWindow
<1>4. CompactDuring'
  <2> SUFFICES ASSUME pc = "deliver" PROVE CompactDuring'
    BY DEF CompactDuring
  <2>1. Handled \intersect present' \subseteq Handled \intersect present
    BY <1>0, <1>2
  <2>2. \A x \in doc : Older(present', x) \subseteq doc
    BY <1>0, <1>1 DEF Compact, CompactDuring
  <2> QED BY <1>2, <2>1, <2>2 DEF Compact, CompactDuring, FitWindow
<1> QED BY <1>3, <1>4 DEF Compact, Unrepeated

LEMMA CompactBegins ==
    ASSUME Base, Known, Compact, Begins
    PROVE  Compact'
<1>0. /\ stored.lastSent \in Batches /\ mem'.lastSent = Append(stored.lastSent, {})
      /\ mem'.lastSent \in Batches /\ present \in SUBSET Entries /\ AtMost(present, Window)
      /\ pc' = "deliver" /\ doc' = present /\ UNCHANGED <<present, stored>>
      /\ hist'.recorded = hist.recorded
      /\ Recorded(mem'.lastSent) = Recorded(stored.lastSent) /\ Handled' = hist.recorded
  BY NewBatch, NewBatchEmpty
     DEF Base, OInv, Typed, StatusType, Known, Begins, Handled, Held, AtMost
<1>1. Apart(mem'.lastSent)
  BY BeginsApart DEF Compact, CompactBetween
<1>2. \A x : OlderSince(mem'.lastSent, x) \subseteq OlderSince(stored.lastSent, x)
  <2>1. \A i \in DOMAIN mem'.lastSent :
          \/ i \in DOMAIN stored.lastSent /\ mem'.lastSent[i] = stored.lastSent[i]
          \/ mem'.lastSent[i] = {}
    BY <1>0 DEF Batches
  <2> QED BY <1>0, <2>1, NoEntries DEF OlderSince
<1>3. FitWindow(mem'.lastSent, present)
  <2>1. FitWindow(stored.lastSent, present)
    BY DEF Compact, CompactBetween
  <2> QED BY <1>0, <1>2, <2>1, FewerFit
<1>4. \A x \in present : Older(present, x) \subseteq present
  BY DEF Older
<1>5. Unrepeated'
  <2> SUFFICES ASSUME NEW f \in todo', f \in hist.recorded PROVE FALSE
    BY <1>0 DEF Unrepeated
  <2>1. f \in Plan(stored, present, spec.limit) /\ ~Sent(stored, f)
    BY DEF Begins
  <2>2. f \in present
    BY <2>1, PlanIsPast, LimitIsNumber
  <2> QED BY <2>1, <2>2 DEF Compact, CompactBetween, Sent
<1>6. CompactBetween'
  BY <1>0 DEF Compact, CompactBetween, FitWindow
<1>7. CompactDuring'
  <2>1. hist.recorded \intersect present \subseteq Recorded(stored.lastSent) \intersect present
    BY DEF Compact, CompactBetween
  <2> QED BY <1>0, <1>1, <1>3, <1>4, <2>1 DEF CompactDuring, FitWindow
<1> QED BY <1>5, <1>6, <1>7 DEF Compact

\* A record joins the others as one of the older entries of the document.
LEMMA CompactHandles ==
    ASSUME Base, Known, Compact, NEW e \in todo, Handles(e)
    PROVE  Compact'
<1> DEFINE ls == mem.lastSent
           ms == mem'.lastSent
<1>0. /\ pc = "deliver" /\ pc' = "deliver" /\ todo' = todo \ {e}
      /\ ls \in Batches /\ Len(ls) \in DOMAIN ls /\ e \in doc /\ doc \in SUBSET Entries
      /\ ms = [ls EXCEPT ![Len(ls)] = @ \union KeysOf[e]] /\ ms \in Batches
      /\ Recorded(ms) = Recorded(ls) \union {e} /\ Batch' = Batch \union {e}
      /\ UNCHANGED <<present, stored, doc>> /\ hist'.recorded = hist.recorded
      /\ e \notin Recorded(ls) /\ Batch \subseteq doc /\ e \in Entries
  BY BatchJoined, LastBatch, BatchGrows
     DEF Base, OInv, Typed, Planned, Sent, StatusType, Known, Handles
<1>1. Apart(ms)
  BY <1>0, HandlesApart DEF Compact, CompactDuring
<1>2. /\ \A i \in DOMAIN ms : i \in DOMAIN ls /\ i \in Nat /\ i <= Len(ls)
      /\ \A i \in DOMAIN ms :
           EntriesOf(ms[i]) = EntriesOf(ls[i]) \union {x \in {e} : i = Len(ls)}
      /\ EntriesOf(ls[Len(ls)]) = Batch
  <2>1. EntriesOf(ls[Len(ls)]) = Batch
    BY DEF Batch
  <2> HIDE DEF ls, ms
  <2>2. DOMAIN ms = DOMAIN ls /\ DOMAIN ls = 1..Len(ls) /\ Len(ls) \in Nat
    BY <1>0 DEF Batches
  <2>3. \A i \in DOMAIN ls : ms[i] = IF i = Len(ls) THEN ls[i] \union KeysOf[e] ELSE ls[i]
    BY <1>0
  <2>4. \A i \in DOMAIN ls :
          EntriesOf(ms[i]) = EntriesOf(ls[i]) \union {x \in {e} : i = Len(ls)}
    BY <1>0, <2>3, EntriesJoin
  <2> QED BY <2>1, <2>2, <2>4
<1>3. OlderSince(ms, e) \subseteq Older(doc, e)
  <2> SUFFICES ASSUME NEW y \in OlderSince(ms, e) PROVE y \in doc
    BY DEF OlderSince, Older
  <2>1. PICK i \in DOMAIN ms, j \in DOMAIN ms :
          i <= j /\ e \in EntriesOf(ms[i]) /\ y \in EntriesOf(ms[j])
    BY DEF OlderSince
  <2>2. i = Len(ls)
    <3> SUFFICES ASSUME i # Len(ls) PROVE FALSE
      OBVIOUS
    <3>1. i \in DOMAIN ls /\ e \in EntriesOf(ls[i])
      BY <1>2, <2>1
    <3>2. e \in Recorded(ls)
      BY <3>1, RecordedInBatch
    <3> QED BY <1>0, <3>2
  <2>3. j = Len(ls)
    BY <1>2, <2>1, <2>2
  <2>4. y \in EntriesOf(ls[Len(ls)]) \/ y = e
    BY <1>2, <2>1, <2>3
  <2> QED BY <1>0, <1>2, <2>4
<1>4. ASSUME NEW x \in Recorded(ls) \intersect doc
      PROVE  OlderSince(ms, x) \subseteq OlderSince(ls, x) \union Older(doc, x)
  <2> SUFFICES ASSUME NEW y \in OlderSince(ms, x), y # e PROVE y \in OlderSince(ls, x)
    BY <1>0 DEF OlderSince, Older
  <2>1. PICK i \in DOMAIN ms, j \in DOMAIN ms :
          i <= j /\ x \in EntriesOf(ms[i]) /\ y \in EntriesOf(ms[j])
    BY DEF OlderSince
  <2>2. x # e /\ y \in Recorded(ls) /\ y < x
    BY <1>0 DEF OlderSince
  <2>3. /\ i \in DOMAIN ls /\ j \in DOMAIN ls
        /\ x \in EntriesOf(ls[i]) /\ y \in EntriesOf(ls[j])
    BY <1>2, <2>1, <2>2
  <2> QED BY <2>1, <2>2, <2>3 DEF OlderSince
<1>5. FitWindow(ms, doc)
  <2> SUFFICES ASSUME NEW x \in Recorded(ms) \intersect doc
               PROVE  AtMost(OlderSince(ms, x) \union Older(doc, x), Window - 1)
    BY DEF FitWindow
  <2> DEFINE S == OlderSince(ms, x) \union Older(doc, x)
             T == OlderSince(ls, x) \union Older(doc, x)
  <2>1. CASE x = e
    <3>1. S \in SUBSET (doc \ {e})
      <4>1. e \in Nat
        BY <1>0, EntriesAreNumbers
      <4> QED BY <1>3, <2>1, <4>1 DEF Older
    <3>2. doc \ {e} \in SUBSET Entries /\ AtMost(doc \ {e}, Window - 1)
      BY <1>0, OthersFit DEF Compact, CompactDuring
    <3> HIDE DEF S
    <3>3. AtMost(S, Window - 1)
      BY <3>1, <3>2, WindowIsNumber, Within
    <3> QED BY <3>3 DEF S
  <2>2. CASE x # e
    <3>1. x \in Recorded(ls) \intersect doc
      BY <1>0, <2>2
    <3>2. S \in SUBSET T
      BY <1>4, <3>1
    <3>3. AtMost(T, Window - 1)
      BY <1>0, <3>1 DEF Compact, CompactDuring, FitWindow
    <3>4. T \in SUBSET Entries
      BY <1>0, OlderSinceAre
    <3> HIDE DEF S, T
    <3>5. AtMost(S, Window - 1)
      BY <3>2, <3>3, <3>4, WindowIsNumber, Within
    <3> QED BY <3>5 DEF S
  <2> QED BY <2>1, <2>2
<1>6. Handled' = Handled \union {e}
  BY <1>0 DEF Handled, Held
<1>7. CompactDuring'
  BY <1>0, <1>1, <1>5, <1>6 DEF Compact, CompactDuring
<1>8. CompactBetween'
  BY <1>0 DEF Compact, CompactBetween, FitWindow
<1> QED BY <1>0, <1>7, <1>8 DEF Compact, Unrepeated

LEMMA CompactStops ==
    ASSUME Base, Known, Compact, NEW gap, Steady(gap), Roomy(gap), Stops
    PROVE  Compact'
<1> DEFINE ls == mem.lastSent
<1>0. /\ pc = "deliver" /\ pc' = "idle" /\ todo' = {} /\ UNCHANGED present
      /\ ls \in Batches /\ stored'.lastSent = Prune(ls) /\ Prune(ls) \in Batches
      /\ doc \in SUBSET Entries /\ present \in SUBSET Entries
      /\ hist'.recorded = Handled /\ Recorded(ls) \subseteq Handled
  BY PruneDropsOnly
     DEF Base, OInv, Typed, StatusType, Known, Stops, IdleAfter, Handled, Held
<1>1. Apart(Prune(ls))
  BY <1>0, PruneLeavesApart DEF Compact, CompactDuring
<1>2. Handled \intersect present \subseteq Recorded(Prune(ls))
  BY <1>0, RoomToStay
<1>3. FitWindow(Prune(ls), present)
  <2>1. FitWindow(ls, doc)
    BY <1>0 DEF Compact, CompactDuring
  <2>2. ASSUME NEW x \in Recorded(Prune(ls)) \intersect present
        PROVE  /\ x \in Recorded(ls) \intersect doc
               /\ OlderSince(Prune(ls), x) \union Older(present, x)
                    \subseteq OlderSince(ls, x) \union Older(doc, x)
    <3>1. x \in Recorded(ls) \intersect doc
      BY <1>0, PruneDropsOnly DEF Compact, CompactDuring
    <3>2. Older(present, x) \subseteq Older(doc, x)
      BY <1>0, <3>1 DEF Compact, CompactDuring, Older
    <3> QED BY <1>0, <3>1, <3>2, PruneFits
  <2> QED BY <1>0, <2>1, <2>2, FewerFit
<1>4. CompactBetween'
  BY <1>0, <1>1, <1>2, <1>3 DEF CompactBetween
<1>5. CompactDuring' /\ Unrepeated'
  BY <1>0 DEF CompactDuring, Unrepeated
<1> QED BY <1>4, <1>5 DEF Compact

LEMMA CompactStep ==
    ASSUME Base, Known, Compact, NEW gap, Steady(gap), Steady(gap)', Roomy(gap), [Next]_vars
    PROVE  Compact'
<1>0. present \subseteq published /\ published \subseteq Entries /\ hist \in HistType
  BY DEF Base, OInv, Typed
<1>1. ASSUME NEW e \in Entries, Publish(e) PROVE Compact'
  <2>1. /\ UNCHANGED <<stored, pc, mem, doc, todo>> /\ hist'.recorded = hist.recorded
        /\ present' \subseteq present \union {e} /\ e \notin published
        /\ \A f \in published : ~(f > e)
    BY <1>0, <1>1 DEF Publish, HistType, Steady
  <2>2. \A f \in published : ~(e < f)
    BY <1>0, <2>1, EntriesAreNumbers
  <2> QED BY <1>0, <2>1, <2>2, CompactDocument
<1>2. ASSUME NEW e \in present, Delete(e) PROVE Compact'
  <2>1. /\ UNCHANGED <<stored, pc, mem, doc, todo>> /\ hist'.recorded = hist.recorded
        /\ present' \subseteq present
    BY <1>2 DEF Delete
  <2> QED BY <1>0, <2>1, CompactDocument
<1>3. ASSUME Rests PROVE Compact'
  BY <1>3 DEF Rests, IdleAfter, Compact, CompactBetween, CompactDuring, FitWindow, Unrepeated
<1>4. ASSUME Abandons PROVE Compact'
  BY <1>4 DEF Abandons, IdleAfter, Compact, CompactBetween, CompactDuring, FitWindow, Unrepeated
<1>5. ASSUME UNCHANGED vars PROVE Compact'
  <2>1. UNCHANGED <<stored, pc, mem, doc, todo, hist, present>>
    BY <1>5 DEF vars
  <2> QED BY <1>0, <2>1, CompactDocument
<1> QED BY <1>1, <1>2, <1>3, <1>4, <1>5, Steps, CompactBegins, CompactHandles, CompactStops

LEMMA CompactInit == Init => Compact
  BY NothingRecorded
     DEF Init, NewStatus, HistInit, Compact, CompactBetween, CompactDuring, Unrepeated,
         FitWindow, Apart

LEMMA CompactInvariance ==
    ASSUME NEW gap, Roomy(gap)
    PROVE  Spec /\ []Steady(gap) => [](Base /\ Known /\ Compact)
<1>1. Base /\ Known /\ Compact /\ Steady(gap) /\ Steady(gap)' /\ [Next]_vars => Compact'
  BY CompactStep
<1> QED BY <1>1, CompactInit, BaseInvariance, PTL DEF Spec

\* In order, entries that left the document before an older one were taken back.
LEMMA Withdrawals ==
    Spec /\ [](hist.backDated = {}) => []Steady(MaxDeletions)
<1> DEFINE Counted == \A x \in present : AtMost(Newer(x) \ present, bounds.deletions)
           InOrder == hist.backDated = {}
<1>1. Init => Counted
  BY FS_EmptySet DEF Init, Newer, AtMost
<1>2. Base /\ Counted /\ InOrder' /\ [Next]_vars => Counted'
  <2> SUFFICES ASSUME Base, Counted, InOrder', [Next]_vars, NEW x \in present'
               PROVE  AtMost(Newer(x)' \ present', bounds'.deletions)
    OBVIOUS
  <2>0. /\ present \in SUBSET Entries /\ published \in SUBSET Entries /\ hist \in HistType
        /\ bounds.deletions \in Nat /\ 1 \in Nat /\ bounds.deletions <= bounds.deletions
        /\ published \in SUBSET Nat /\ Entries \subseteq Nat /\ present \subseteq published
    BY EntriesAreNumbers, SyncAssumption DEF Base, OInv, Typed, BoundsType
  <2>1. ASSUME NEW S \in SUBSET (Newer(x) \ present), x \in present
        PROVE  AtMost(S, bounds.deletions)
    <3>1. Newer(x) \ present \in SUBSET Entries /\ AtMost(Newer(x) \ present, bounds.deletions)
      BY <2>0, <2>1 DEF Newer
    <3> QED BY <2>0, <3>1, Within
  <2>2. ASSUME NEW e \in Entries, Publish(e)
        PROVE  AtMost(Newer(x)' \ present', bounds'.deletions)
    <3>1. /\ published' = published \union {e} /\ e \notin published /\ e \in present'
          /\ \A f \in published : ~(f > e)
          /\ bounds' = bounds /\ (x \in present \/ x = e)
      BY <2>0, <2>2 DEF Publish, HistType
    <3>2. \A d \in present \ present', f \in present' \intersect present : d < f
      BY <2>2, PublishRolls
    <3>3. CASE x = e
      <4>1. Newer(x)' \ present' = {}
        BY <3>1, <3>3 DEF Newer
      <4> QED BY <2>0, <3>1, <4>1, FS_EmptySet DEF AtMost
    <3>4. CASE x \in present
      <4>1. Newer(x)' \ present' \in SUBSET (Newer(x) \ present)
        <5> SUFFICES ASSUME NEW y \in published, y > x, y \in present, y \notin present'
                     PROVE  FALSE
          BY <3>1 DEF Newer
        <5> QED BY <2>0, <3>2, <3>4
      <4> QED BY <2>1, <3>1, <3>4, <4>1
    <3> QED BY <3>1, <3>3, <3>4
  <2>3. ASSUME NEW e \in present, Delete(e)
        PROVE  AtMost(Newer(x)' \ present', bounds'.deletions)
    <3>1. /\ present' = present \ {e} /\ published' = published /\ x \in present
          /\ bounds'.deletions = bounds.deletions + 1
      BY <2>3 DEF Delete, Count, Base, BoundsType
    <3> DEFINE S == Newer(x) \ present
    <3>2. S \in SUBSET Entries /\ AtMost(S, bounds.deletions)
      BY <2>0, <2>1, <3>1 DEF Newer
    <3>3. {e} \in SUBSET Entries /\ AtMost({e}, 1)
      <4>1. Cardinality({e}) = 1
        BY FS_Singleton
      <4> QED BY <2>0, <4>1 DEF AtMost
    <3>4. Newer(x)' \ present' \in SUBSET (S \union {e})
      BY <3>1 DEF Newer
    <3> HIDE DEF S
    <3>5. AtMost(S \union {e}, bounds.deletions + 1)
      BY <2>0, <3>2, <3>3, Together
    <3>6. S \union {e} \in SUBSET Entries /\ bounds.deletions + 1 \in Nat
          /\ bounds.deletions + 1 <= bounds.deletions + 1
      BY <2>0, <3>2, <3>3
    <3>7. AtMost(Newer(x)' \ present', bounds.deletions + 1)
      BY <3>4, <3>5, <3>6, Within
    <3> QED BY <3>1, <3>7
  <2>4. ASSUME UNCHANGED <<present, published>>, bounds'.deletions = bounds.deletions
        PROVE  AtMost(Newer(x)' \ present', bounds'.deletions)
    BY <2>4 DEF Newer
  <2>5. ASSUME ~\E e \in Entries : Publish(e), ~\E e \in present : Delete(e)
        PROVE  UNCHANGED <<present, published>> /\ bounds'.deletions = bounds.deletions
    <3>1. Count("edits") \/ Count("losses") => bounds'.deletions = bounds.deletions
      BY DEF Count, Base, BoundsType
    <3>2. bounds'.deletions = bounds.deletions
      BY <2>5, <3>1, OneIsCounted
    <3> QED BY <2>5, <3>2, Steps DEF Rests, Begins, Handles, Stops, Abandons, vars
  <2> QED BY <2>2, <2>3, <2>4, <2>5
<1>3. Base /\ Counted /\ InOrder => Steady(MaxDeletions)
  <2> SUFFICES ASSUME Base, Counted, NEW x \in present
               PROVE  AtMost(Newer(x) \ present, MaxDeletions)
    BY DEF Steady
  <2>1. /\ Newer(x) \ present \in SUBSET Entries /\ Newer(x) \ present \in SUBSET (Newer(x) \ present)
        /\ bounds.deletions \in Nat /\ MaxDeletions \in Nat
        /\ bounds.deletions <= MaxDeletions
    BY SyncAssumption DEF Base, OInv, Typed, BoundsType, Newer
  <2> QED BY <2>1, Within
<1> HIDE DEF Counted
<1>4. Spec => []Base
  BY BaseInvariance, PTL
<1> QED BY <1>1, <1>2, <1>3, <1>4, PTL DEF Spec

LEMMA CompactHidesNothing ==
    ASSUME Base, Compact, Seen
    PROVE  NothingBehind304
<1> SUFFICES ASSUME present \in stored.validators,
                    NEW e \in Plan(stored, present, spec.limit)
             PROVE  Sent(stored, e) \/ e \in hist.trimmed \union hist.passed \union hist.refused
  BY DEF NothingBehind304
<1>1. e \in present
  BY PlanIsPast, LimitIsNumber
<1>2. e \in hist.recorded => Sent(stored, e)
  BY <1>1 DEF Compact, CompactBetween, Sent
<1> QED BY <1>1, <1>2 DEF Seen, LeftOut

\* As long as a pass starts from compact records, it delivers as promised.
LEMMA CompactDelivers ==
    Spec /\ []Compact => DeliversOnce /\ []NothingBehind304
<1>1. Init => Promise!Init
  BY DEF Init, HistInit, Held, Promise!Init
<1>2. Base /\ Known /\ Compact /\ [Next]_vars => [Promise!Next]_(Promise!vars)
  BY DeliveryStep DEF Compact
<1> QED BY <1>1, <1>2, CompactHidesNothing, BaseInvariance, SeenInvariance, PTL
        DEF Spec, DeliversOnce, Promise!Spec

\* The same delivery as in DeliveryImplemented, where pruneLastSent drops keys
\* and the publisher takes entries back, and so neither the keys nor the
\* watermark alone tell old from new (ledger.go:31-42, delivery_plan.go): the
\* entries come in order, no more than gap are taken back while an older one
\* stays in the document, and the cap leaves room for the keys of two windows and
\* the gap, which are two for an entry with a link of its own (settle).
THEOREM DeliveryInOrder ==
    ASSUME NEW gap, Roomy(gap)
    PROVE  Spec /\ []Steady(gap) => DeliversOnce
  BY CompactInvariance, CompactDelivers, PTL

\* And a 304 to the stored validators hides nothing there either.
THEOREM NothingHiddenInOrder ==
    ASSUME NEW gap, Roomy(gap)
    PROVE  Spec /\ []Steady(gap) => []NothingBehind304
  BY CompactInvariance, CompactDelivers, PTL

\* A publisher that does not back-date publishes in order.
LEMMA InOrder ==
    ASSUME BackDates = {}
    PROVE  Spec => [](hist.backDated = {})
<1> DEFINE Ordered == hist.backDated = {}
<1>1. Init => Ordered
  BY DEF Init, HistInit
<1>2. Base /\ Ordered /\ [Next]_vars => Ordered'
  <2> SUFFICES ASSUME Base, Ordered, [Next]_vars PROVE Ordered'
    OBVIOUS
  <2>0. hist \in HistType /\ published \in SUBSET Nat /\ Entries \subseteq Nat
    BY EntriesAreNumbers DEF Base, OInv, Typed
  <2>1. ASSUME NEW e \in Entries, Publish(e) PROVE Ordered'
    <3>1. \A f \in published : ~(f > e)
      BY <2>0, <2>1 DEF Publish
    <3>2. hist'.backDated = hist.backDated \union {x \in {e} : \E f \in published : f > x}
      BY <2>0, <2>1 DEF Publish, HistType
    <3> QED BY <3>1, <3>2
  <2>2. ASSUME NEW e \in present, Delete(e) PROVE Ordered'
    BY <2>2 DEF Delete
  <2> QED BY <2>1, <2>2, Steps DEF Rests, Begins, Handles, Stops, Abandons, SameDocuments, vars
<1> QED BY <1>1, <1>2, BaseInvariance, PTL DEF Spec

\* For every publisher that does not back-date, whatever it takes back: the keys
\* are enough if the cap leaves room for two windows and everything taken back.
COROLLARY DeliveryOfFewWithdrawals ==
    ASSUME BackDates = {}, 2 * (2 * Window + MaxDeletions) <= LastSentCap + 2
    PROVE  Spec => DeliversOnce /\ []NothingBehind304
<1>1. Roomy(MaxDeletions)
  BY SyncAssumption DEF Roomy
<1>2. /\ Base /\ Known /\ Compact /\ Steady(MaxDeletions) /\ Steady(MaxDeletions)' /\ [Next]_vars
      => Compact'
  BY <1>1, CompactStep
<1>3. Spec => [](hist.backDated = {})
  BY InOrder
<1> QED BY <1>2, <1>3, CompactInit, CompactDelivers, BaseInvariance, Withdrawals, PTL DEF Spec
=============================================================================
