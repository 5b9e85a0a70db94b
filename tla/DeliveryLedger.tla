--------------------------- MODULE DeliveryLedger ---------------------------
(***************************************************************************)
(* The delivery bookkeeping of one feed over one fetched document: the     *)
(* LastSeenEntry watermark, the LastSent keys, and the delivery plan they  *)
(* lead to (internal/controller/ledger.go and delivery_plan.go).           *)
(*                                                                         *)
(* An entry is a number: its place in the order begin sorts a fetch into   *)
(* (publication date, then document order).  A document is the set of its  *)
(* entries.  An entry is recorded under the key of its identity and, if    *)
(* its stripped link is unique in the fetch, under the key of that too     *)
(* (settle).  Here the keys of an entry are its own and the same in every  *)
(* fetch; how identities are derived, shared and migrated is the subject   *)
(* of LedgerIdentity.  A key is a number: its place in the order of the    *)
(* hashes.                                                                 *)
(*                                                                         *)
(* LastSent is a sequence of batches, oldest first: the keys recorded in   *)
(* one pass carry one timestamp, and only the order of timestamps matters. *)
(***************************************************************************)
EXTENDS Integers, Sequences, FiniteSetsExt

CONSTANTS
    Entries,             \* the entries a publisher can ever publish
    KeysOf,              \* KeysOf[e]: the one or two LastSent keys of an entry
    DefaultCatchUpLimit, \* defaultCatchUpLimit
    LastSentCap          \* maxLastSentPerFeed

ASSUME LedgerAssumption ==
    /\ Entries \subseteq Nat \ {0}
    /\ Entries # {} => \E last \in Entries : \A e \in Entries : e <= last
    /\ KeysOf \in [Entries -> SUBSET Nat]
    /\ \A e \in Entries : \E k, l \in KeysOf[e] : KeysOf[e] = {k, l}
    /\ \A e, f \in Entries : e # f => KeysOf[e] \intersect KeysOf[f] = {}
    /\ DefaultCatchUpLimit \in Nat \ {0}
    /\ LastSentCap \in Nat \ {0}

NoMark == 0

Keyed(lastSent) == UNION {lastSent[i] : i \in DOMAIN lastSent}

EntriesOfAll(keys) == {e \in Entries : KeysOf[e] \subseteq keys}  \* mutant: all keys are asked for

\* One of its keys is enough to find an entry.
EntriesOf(keys) == {e \in Entries : KeysOf[e] \intersect keys # {}}

Recorded(lastSent) == EntriesOf(Keyed(lastSent))

Sent(status, e) == e \in Recorded(status.lastSent)

\* mutants: the watermark stays behind; the keys are not recorded
MarkHandledKeepsMark(status, e) ==
    [status EXCEPT !.lastSent[Len(status.lastSent)] = @ \union KeysOf[e]]
MarkHandledUnrecorded(status, e) == [status EXCEPT !.mark = e]

\* The entry's keys join the batch of the pass, and the watermark moves to it.
MarkHandled(status, e) ==
    [status EXCEPT !.mark = e, !.lastSent[Len(status.lastSent)] = @ \union KeysOf[e]]

MarkOldest(status, doc) == [status EXCEPT !.mark = Min(doc)]  \* mutant: sorted the other way
MarkNewest(status, doc) == [status EXCEPT !.mark = Max(doc)]

\* Whether key k is dropped before key l: the older timestamp first, ties
\* broken by the order of the keys.
DroppedBefore(lastSent, k, l) ==
    \E i, j \in DOMAIN lastSent :
        /\ k \in lastSent[i] /\ l \in lastSent[j]
        /\ i < j \/ (i = j /\ k < l)

\* Only the newest keys stay, and a batch without any is none.
Prune(lastSent) ==
    LET all == Keyed(lastSent)
        kept == {k \in all :
                   Cardinality({l \in all : DroppedBefore(lastSent, k, l)}) < LastSentCap}
        batches == {i \in DOMAIN lastSent : lastSent[i] \intersect kept # {}}
    IN  IF batches = {} THEN << >>
        ELSE [i \in 1..(Max(batches) - Min(batches) + 1) |->
                lastSent[i + Min(batches) - 1] \intersect kept]

Newest(doc, n) == {e \in doc : Cardinality({f \in doc : f > e}) < n}

LimitCatchUp(doc, limit) == Newest(doc, IF limit <= 0 THEN DefaultCatchUpLimit ELSE limit)

\* The watermark stands for an entry of the document, or it is lost, or there
\* is none.
Found(status, doc) == status.mark \in doc
Lost(status, doc) == status.mark # NoMark /\ status.mark \notin doc

SkipsEveryBacklog(status, limit) ==  \* mutant: initialized is not asked
    status.mark = NoMark /\ limit = 0
SkipsBacklog(status, limit) ==
    status.mark = NoMark /\ limit = 0 /\ ~status.initialized

ScanUncapped(status, doc, limit) ==  \* mutant: no catch-up limit
    IF SkipsBacklog(status, limit) THEN {} ELSE doc

\* The entries a plan scans, the whole document once the watermark is found.
Scan(status, doc, limit) ==
    IF SkipsBacklog(status, limit) THEN {}
    ELSE IF Found(status, doc) \/ (status.mark = NoMark /\ limit = 0) THEN doc
    ELSE LimitCatchUp(doc, limit)

PlanWholeDocument(status, doc, limit) ==  \* mutant: the scan is not asked
    {e \in doc : Found(status, doc) => e > status.mark}

\* The entries past the watermark, in the order they are considered.
Plan(status, doc, limit) ==
    {e \in Scan(status, doc, limit) : Found(status, doc) => e > status.mark}
=============================================================================
