--------------------------- MODULE LedgerIdentity ---------------------------
(***************************************************************************)
(* How the ledger tells the articles of a feed apart: the identities the   *)
(* parser picks (internal/rss), the LastSent keys an entry is recorded     *)
(* under, the watermark lookup, and the migration of what earlier releases *)
(* recorded under other identities (ledger.go, identity_migration.go).     *)
(*                                                                         *)
(* A URL is <<base, tail>>: the tail is the fragment and the ref parameter *)
(* that normalizeIdentity strips, 0 if there is none.  Titles and content  *)
(* IDs are GUIDs without a tail.  Hashes and clamped watermarks stand for  *)
(* what they are made of.                                                  *)
(*                                                                         *)
(* Articles are numbered in the order begin sorts them into.  A document   *)
(* is everything its publisher shows of each article.  It changes between  *)
(* passes only, for a pass works on the document it fetched.  Catch-up     *)
(* trims, pruning and lost passes are FeedSync's: here a lost watermark    *)
(* plans the whole document.                                               *)
(***************************************************************************)
EXTENDS Integers, FiniteSetsExt

CONSTANTS
    Articles,  \* the articles the publisher can ever show
    Looks,     \* Looks[a]: the entries article a can be shown as
    Window     \* bound: entries the publisher keeps in the document

NoElement == <<"none", 0>>

\* An element is missing, or a URL or GUID of two parts.
IsElement(url) == url = <<url[1], url[2]>> /\ (url[1] = "none" => url = NoElement)

ASSUME IdentityAssumption ==
    /\ Window \in Nat \ {0}
    /\ Articles \subseteq Nat \ {0} /\ IsFiniteSet(Articles)
    /\ \A a \in Articles : \A look \in Looks[a] :
         /\ DOMAIN look = {"id", "link", "priorId", "priorLink"}
         /\ \A field \in DOMAIN look : IsElement(look[field])
         /\ look.id # NoElement \/ look.link # NoElement
         /\ look.priorId # NoElement \/ look.priorLink # NoElement

VARIABLES
    doc,       \* how each article of the feed's document is shown
    release,   \* "earlier" or "current"
    status,    \* the watermark and the LastSent keys
    pc,        \* "idle" or "deliver"
    todo,      \* the entries the pass has yet to consider
    hist       \* history, see Init

vars == <<doc, release, status, pc, todo, hist>>

NoMark == <<"none", 0>>
NoArticle == 0

-----------------------------------------------------------------------------
(* What the parser reads. *)

PickIdentity(guid, link) ==
    IF guid # NoElement THEN [url |-> guid, source |-> "GUID"]
    ELSE [url |-> link, source |-> "Link"]

IsLink(pick) == pick.source = "Link"

\* The ID earlier releases picked for an entry, and the one picked now.
Was(a) == PickIdentity(doc[a].priorId, doc[a].priorLink)
Now(a) == IF release = "earlier" THEN Was(a) ELSE PickIdentity(doc[a].id, doc[a].link)

-----------------------------------------------------------------------------
(* The records of the ledger over one fetch. *)

WithoutTail(url) == <<url[1], 0>>
Identity(pick) == IF IsLink(pick) THEN pick.url ELSE WithoutTail(pick.url)
Stripped(pick) == WithoutTail(pick.url)

EntryKey(identity) == <<"entry", identity>>
StrippedKey(stripped) == <<"stripped", stripped>>

Moved == {a \in DOMAIN doc : Was(a) # Now(a)}

\* The entries an identity could stand for.
Claims(identity) ==
    {a \in DOMAIN doc : \/ Identity(Now(a)) = identity
                        \/ IsLink(Now(a)) /\ Stripped(Now(a)) = identity}

AnyLink(a) == IsLink(Now(a))  \* mutant: the claims are not counted
Unique(a) == IsLink(Now(a)) /\ Claims(Stripped(Now(a))) = {a}

Keys(a) ==
    {EntryKey(Identity(Now(a)))} \union
    IF Unique(a) THEN {StrippedKey(Stripped(Now(a)))} ELSE {}

Sent(st, a) == Keys(a) \intersect st.sent # {}

MarkHandledStripped(st, a) ==  \* mutant: the watermark loses its tail
    [mark |-> Stripped(Now(a)), sent |-> st.sent \union Keys(a)]
MarkHandled(st, a) == [mark |-> Identity(Now(a)), sent |-> st.sent \union Keys(a)]

\* The entry the watermark stands for: by its identity or, if that kept a tail
\* and so came from a link, by its unique stripped identity.
ResumeByStripped(mark) ==  \* mutant: a watermark without a tail is stripped too
    LET exact == {a \in DOMAIN doc : Identity(Now(a)) = mark}
        stripped == {a \in DOMAIN doc : Unique(a) /\ Stripped(Now(a)) = WithoutTail(mark)}
    IN  IF exact # {} THEN Min(exact) ELSE IF stripped # {} THEN Min(stripped) ELSE NoArticle

Resume(mark) ==
    LET exact == {a \in DOMAIN doc : Identity(Now(a)) = mark}
        stripped == {a \in DOMAIN doc : /\ mark # WithoutTail(mark)
                                        /\ Unique(a) /\ Stripped(Now(a)) = WithoutTail(mark)}
    IN  IF exact # {} THEN Min(exact) ELSE IF stripped # {} THEN Min(stripped) ELSE NoArticle

-----------------------------------------------------------------------------
(* The migration of previous identities. *)

CarriesOver(a) ==
    /\ a \in Moved /\ Identity(Was(a)) # Identity(Now(a))
    /\ \A b \in Moved \ {a} : Identity(Was(b)) # Identity(Was(a))
    /\ \A b \in DOMAIN doc : Identity(Now(b)) # Identity(Was(a))
    /\ \A b \in DOMAIN doc \ {a} : Identity(Now(b)) # Identity(Now(a))

OwnsPrevious(a) ==
    /\ \A b \in Moved \ {a} : IsLink(Was(b)) => Stripped(Was(b)) # Stripped(Was(a))
    /\ Claims(Stripped(Was(a))) = {}

MoveKey(sent, from, to) == IF from \in sent THEN (sent \ {from}) \union to ELSE sent

\* Where the stripped key of a previous identity goes.
Target(a) ==
    IF Unique(a) THEN {StrippedKey(Stripped(Now(a)))}
    ELSE IF OwnsPrevious(a) THEN {EntryKey(Identity(Now(a)))} ELSE {}

RekeyEntry(sent, a) ==  \* mutant: the stripped key stays behind
    MoveKey(sent, EntryKey(Identity(Was(a))), {EntryKey(Identity(Now(a)))})

RekeySent(sent, a) ==
    LET moved == MoveKey(sent, EntryKey(Identity(Was(a))), {EntryKey(Identity(Now(a)))})
    IN  IF IsLink(Was(a)) THEN MoveKey(moved, StrippedKey(Stripped(Was(a))), Target(a))
        ELSE moved

CarryKeysOver(st, a) ==  \* mutant: the watermark does not move
    IF CarriesOver(a) THEN [st EXCEPT !.sent = RekeySent(@, a)] ELSE st

CarryOver(st, a) ==
    IF CarriesOver(a)
    THEN [mark |-> IF st.mark = Identity(Was(a)) THEN Identity(Now(a)) ELSE st.mark,
          sent |-> RekeySent(st.sent, a)]
    ELSE st

\* migratePreviousIdentities, over the entries from the oldest on.
Migrated(st) ==
    LET after[a \in Nat] == IF a = 0 THEN st ELSE CarryOver(after[a - 1], a)
    IN  after[Max(DOMAIN doc \union {0})]

-----------------------------------------------------------------------------
(* What history remembers of the articles that are not like any other: how  *)
(* the last fetch that held one identified it, and whether its record has a *)
(* stripped form.                                                           *)

Picks(a) ==
    {PickIdentity(look.id, look.link) : look \in Looks[a]} \union
    {PickIdentity(look.priorId, look.priorLink) : look \in Looks[a]}

\* Articles that never show a URL another one shows, nor one of their own both
\* as a link and as a GUID.
Lone ==
    {a \in Articles :
        /\ \A b \in Articles \ {a} :
             \A p \in Picks(a), q \in Picks(b) : Stripped(p) # Stripped(q)
        /\ \A p, q \in Picks(a) : Stripped(p) = Stripped(q) => p.source = q.source}

Unseen == [pick |-> [url |-> NoElement, source |-> "None"], stripped |-> TRUE]

Rotated(p, q) == IsLink(p) /\ IsLink(q) /\ Stripped(p) = Stripped(q)

\* The fetch still shows a as it was identified, but for a link's tail.
Recognizable(a) ==
    LET last == hist.seen[a]
    IN  \/ last = Unseen
        \/ \E pick \in {Now(a), Was(a)} :
             \/ Identity(pick) = Identity(last.pick)
             \/ last.stripped /\ Rotated(pick, last.pick)

Seen ==
    [a \in Lone |->
        IF a \notin DOMAIN doc THEN hist.seen[a]
        ELSE [pick |-> Now(a),
              stripped |-> hist.seen[a].stripped /\
                  ~(a \in hist.handled /\ IsLink(Now(a)) /\ ~IsLink(Was(a)))]]

-----------------------------------------------------------------------------
Init ==
    /\ doc = << >> /\ release = "earlier"
    /\ status = [mark |-> NoMark, sent |-> {}]
    /\ pc = "idle" /\ todo = {}
    /\ hist = [handled  |-> {},         \* articles sent
               repeated |-> {},         \* of those, the ones sent again while alike no other
               taken    |-> {},         \* articles sent, or found recorded when a pass began
               marker   |-> NoArticle,  \* the article the watermark last stood for
               seen     |-> [a \in Lone |-> Unseen],
               renamed  |-> {}]         \* articles that were not recognizable

\* The publisher adds an article, or shows it in another way.
Show(a, look) ==
    /\ pc = "idle" /\ (a \in DOMAIN doc \/ Cardinality(DOMAIN doc) < Window)
    /\ doc' = [b \in DOMAIN doc \union {a} |-> IF b = a THEN look ELSE doc[b]]
    /\ UNCHANGED <<release, status, pc, todo, hist>>

Withdraw(a) ==
    /\ pc = "idle"
    /\ doc' = [b \in DOMAIN doc \ {a} |-> doc[b]]
    /\ UNCHANGED <<release, status, pc, todo, hist>>

Upgrade ==
    /\ pc = "idle" /\ release = "earlier"
    /\ release' = "current"
    /\ UNCHANGED <<doc, status, pc, todo, hist>>

Begin ==
    /\ pc = "idle" /\ DOMAIN doc # {}
    /\ status' = Migrated(status)
    /\ todo' = {a \in DOMAIN doc : a > Resume(status'.mark)}
    /\ pc' = "deliver"
    /\ hist' = [hist EXCEPT !.taken = @ \union {a \in DOMAIN doc : Sent(status', a)},
                            !.marker = IF Resume(status'.mark) = NoArticle THEN @
                                       ELSE Resume(status'.mark),
                            !.seen = Seen,
                            !.renamed = @ \union
                                {a \in Lone \intersect DOMAIN doc : ~Recognizable(a)}]
    /\ UNCHANGED <<doc, release>>

Unsent == {a \in todo : ~Sent(status, a)}

\* The first entry that is not recorded is sent; those before it were.
Sends ==
    /\ pc = "deliver" /\ Unsent # {}
    /\ LET a == Min(Unsent)
       IN  /\ status' = MarkHandled(status, a)
           /\ todo' = {b \in todo : b > a}
           /\ hist' = [hist EXCEPT !.handled = @ \union {a},
                                   !.taken = @ \union {a}, !.marker = a,
                                   !.repeated = @ \union ({a} \intersect hist.handled \intersect Lone)]
    /\ UNCHANGED <<doc, release, pc>>

\* Everything was considered, or a failure stops the pass before an entry.
Closes ==
    /\ pc = "deliver"
    /\ pc' = "idle" /\ todo' = {}
    /\ UNCHANGED <<doc, release, status, hist>>

Next ==
    \/ \E a \in Articles : \E look \in Looks[a] : Show(a, look)
    \/ \E a \in DOMAIN doc : Withdraw(a)
    \/ Upgrade \/ Begin \/ Sends \/ Closes

Spec == Init /\ [][Next]_vars

-----------------------------------------------------------------------------
(* Properties. *)

TypeOK ==
    LET urls == {Identity(pick) : pick \in UNION {Picks(a) : a \in Articles}}
        bases == {WithoutTail(url) : url \in urls}
    IN  /\ DOMAIN doc \subseteq Articles
        /\ \A a \in DOMAIN doc : doc[a] \in Looks[a]
        /\ release \in {"earlier", "current"}
        /\ status.mark \in urls \union {NoMark}
        /\ status.sent \subseteq {EntryKey(url) : url \in urls} \union
                                 {StrippedKey(base) : base \in bases}
        /\ pc \in {"idle", "deliver"} /\ todo \subseteq DOMAIN doc
        /\ hist.repeated \subseteq hist.handled /\ hist.handled \subseteq hist.taken
        /\ hist.taken \subseteq Articles

\* The status a pass over the document works with.
Ledger == IF pc = "idle" THEN Migrated(status) ELSE status

\* One record can stand for both: the same identity, or links that differ by
\* their tails.
Confusable(p, q) == Identity(p) = Identity(q) \/ Rotated(p, q)

LooksLike(a, b) == \E p \in {Now(a), Was(a)}, q \in Picks(b) : Confusable(p, q)

\* Entries a pass would take as sent although they never were.
PassedOver == {a \in DOMAIN doc \ hist.handled : Sent(Ledger, a)}

\* Entries the fetch tells apart: it holds both, with different identities.
SharesLink(a, b) == Rotated(Now(a), Now(b)) /\ Identity(Now(a)) # Identity(Now(b))
SharedLink(a, b) ==
    /\ {a, b} \subseteq Moved
    /\ Rotated(Was(a), Was(b)) /\ Identity(Was(a)) # Identity(Was(b))

\* A record of b stands for a, and the document does not show that they differ:
\* b is not beside a under the same link with another tail.
TakenFor(a, b) ==
    \/ \E p \in {Now(a), Was(a)}, q \in Picks(b) : Identity(p) = Identity(q)
    \/ /\ \E q \in Picks(b) : Rotated(Now(a), q)
       /\ ~(b \in DOMAIN doc /\ SharesLink(a, b))
    \/ /\ a \in Moved /\ \E q \in Picks(b) : Rotated(Was(a), q)
       /\ ~(b \in DOMAIN doc /\ SharesLink(a, b) /\ Rotated(Was(a), Was(b)))

\* rekeySent moves a stripped key on to a that the same migration moved onto an older
\* entry, whose new link is the previous one of a but for the tails.
MovedOn(a) ==
    /\ CarriesOver(a) /\ IsLink(Was(a)) /\ Unique(a)
    /\ \E b \in DOMAIN doc : /\ b < a /\ CarriesOver(b) /\ Unique(b)
                           /\ Stripped(Now(b)) = Stripped(Was(a))

\* An article is taken as sent the first time only for one that was sent or taken
\* so before it and that it was not to be told from: a link is never taken for a
\* GUID, nor a GUID for a link (ledger.go:100-103), and neither is an entry for
\* one that stands beside it under the same link with another fragment.  A key that
\* moves twice in one pass is the exception.
SiblingsToldApart ==
    \A a \in PassedOver \ hist.taken :
        MovedOn(a) \/ \E b \in hist.taken : TakenFor(a, b)

\* An article whose URLs nobody else uses is sent once, as long as each fetch
\* shows it as it was identified before: links may rotate, and the parser may
\* pick another ID.
SentOnce == hist.repeated \subseteq hist.renamed

\* From fetch to fetch, the watermark only passes from an article to its like.
MarkIsNotTaken ==
    LET found == Resume(Ledger.mark)
    IN  found \notin {NoArticle, hist.marker} => LooksLike(found, hist.marker)

\* The watermark is found whenever the article it names is shown under that
\* identity, also as its previous one, or under that link with another tail: the
\* feed does not fall back to the catch-up cap (identity_migration.go:34-36).
MarkFollowsItsArticle ==
    \A a \in Lone \intersect DOMAIN doc :
        LET kept == status.mark \in {Identity(Now(a)), Identity(Was(a))}
            rotated == /\ IsLink(Now(a)) /\ status.mark # WithoutTail(status.mark)
                       /\ Stripped(Now(a)) = WithoutTail(status.mark)
        IN  kept \/ rotated => Resume(Ledger.mark) = a

\* identity_migration.go:39-42 says that an old identity more than one entry
\* shares is left alone, for it cannot be told which entry its record stands
\* for: no entry is passed over for one beside it that had the same old link.
SharedOldIdentityLeftAlone ==
    \A a \in PassedOver : \E b \in hist.handled :
        LooksLike(a, b) /\ ~(b \in DOMAIN doc /\ (SharesLink(a, b) \/ SharedLink(a, b)))
=============================================================================
