----------------------- MODULE LedgerIdentity_proofs ------------------------
(***************************************************************************)
(* Proofs about LedgerIdentity, for any articles, any ways their publisher *)
(* shows them in, and any window.                                          *)
(*                                                                         *)
(* The argument: what is recorded is somebody's.  Each key has an article  *)
(* that was sent or taken as sent and has an identity the key stands for   *)
(* (Originated), and the watermark names an article in the same way        *)
(* (Marked).  An entry that moves takes over what its previous identity    *)
(* has, and nothing else changes hands (RekeyFrom, RekeyTo), so that an    *)
(* article nobody shares a URL with finds its own record and no other's    *)
(* (Recorded, Followed).                                                   *)
(***************************************************************************)
EXTENDS LedgerIdentity, Recursion, FiniteSetTheorems

AllPicks == UNION {Picks(a) : a \in Articles}
Urls == {Identity(pick) : pick \in AllPicks}
AllKeys == {EntryKey(url) : url \in Urls} \union
           {StrippedKey(base) : base \in {WithoutTail(url) : url \in Urls}}
LedgerType == [mark : Urls \union {NoMark}, sent : SUBSET AllKeys]
SeenType == [pick : AllPicks \union {Unseen.pick}, stripped : BOOLEAN]
HistType ==
    [handled : SUBSET Articles, repeated : SUBSET Articles, taken : SUBSET Articles,
     marker : Articles \union {NoArticle}, seen : [Lone -> SeenType],
     renamed : SUBSET Articles]

Shown == DOMAIN doc \subseteq Articles /\ \A a \in DOMAIN doc : doc[a] \in Looks[a]

Typed ==
    /\ Shown
    /\ release \in {"earlier", "current"}
    /\ status \in LedgerType
    /\ pc \in {"idle", "deliver"} /\ todo \subseteq DOMAIN doc
    /\ pc = "idle" => todo = {}
    /\ hist \in HistType
    /\ hist.repeated \subseteq hist.handled /\ hist.handled \subseteq hist.taken

-----------------------------------------------------------------------------
(* Picks and the URLs and keys made of them.                                *)

\* A link or a GUID of two parts, not the missing element.
IsPick(pick) ==
    /\ pick = [url |-> pick.url, source |-> pick.source]
    /\ pick.url = <<pick.url[1], pick.url[2]>> /\ pick.url[1] # "none"
    /\ pick.source \in {"GUID", "Link"}

LEMMA PickOfElements ==
    ASSUME NEW guid, NEW link, IsElement(guid), IsElement(link),
           guid # NoElement \/ link # NoElement
    PROVE  IsPick(PickIdentity(guid, link))
BY DEF IsPick, PickIdentity, IsElement

LEMMA PicksArePicks == \A a \in Articles : \A pick \in Picks(a) : IsPick(pick)
<1> SUFFICES ASSUME NEW a \in Articles, NEW pick \in Picks(a) PROVE IsPick(pick)
  OBVIOUS
<1>1. ASSUME NEW look \in Looks[a]
      PROVE  /\ IsPick(PickIdentity(look.id, look.link))
             /\ IsPick(PickIdentity(look.priorId, look.priorLink))
  <2>1. /\ IsElement(look.id) /\ IsElement(look.link)
        /\ IsElement(look.priorId) /\ IsElement(look.priorLink)
        /\ look.id # NoElement \/ look.link # NoElement
        /\ look.priorId # NoElement \/ look.priorLink # NoElement
    BY IdentityAssumption
  <2> QED BY <2>1, PickOfElements
<1> QED BY <1>1, Zenon DEF Picks

\* An article of the document is identified by one of its picks.
LEMMA ShownPicks ==
    ASSUME Shown, NEW a \in DOMAIN doc
    PROVE  a \in Articles /\ Now(a) \in Picks(a) /\ Was(a) \in Picks(a)
BY DEF Shown, Now, Was, Picks

LEMMA ShownArePicks ==
    ASSUME Shown, NEW a \in DOMAIN doc
    PROVE  IsPick(Now(a)) /\ IsPick(Was(a))
BY ShownPicks, PicksArePicks

LEMMA UrlForms ==
    ASSUME NEW p, IsPick(p)
    PROVE  /\ WithoutTail(Identity(p)) = Stripped(p)
           /\ WithoutTail(Stripped(p)) = Stripped(p)
           /\ Identity(p) # WithoutTail(Identity(p)) => IsLink(p)
           /\ ~IsLink(p) => Identity(p) = Stripped(p)
           /\ Identity(p) # NoMark /\ Stripped(p) # NoMark
BY DEF IsPick, WithoutTail, Identity, Stripped, IsLink, NoMark

\* A key is for one identity or one stripped identity.
LEMMA KeyForms ==
    /\ \A u, v : EntryKey(u) = EntryKey(v) <=> u = v
    /\ \A u, v : StrippedKey(u) = StrippedKey(v) <=> u = v
    /\ \A u, v : EntryKey(u) # StrippedKey(v)
BY DEF EntryKey, StrippedKey

LEMMA NumbersOfArticles == Articles \in SUBSET Nat /\ NoArticle \notin Articles
BY IdentityAssumption DEF NoArticle

\* The finitely many articles have a greatest number.
LEMMA ArticlesBounded == \E n \in Nat : \A a \in Articles : a <= n
<1> DEFINE c == Cardinality(Articles)
<1>1. c \in Nat /\ ExistsBijection(1..c, Articles)
  BY IdentityAssumption, FS_CardinalityType
<1> HIDE DEF c
<1>2. PICK f : f \in Bijection(1..c, Articles)
  BY <1>1 DEF ExistsBijection
<1>3. f \in [1..c -> Articles] /\ \A a \in Articles : \E i \in 1..c : f[i] = a
  BY <1>2 DEF Bijection, Injection, Surjection
<1> DEFINE P == {k \in Nat : \E n \in Nat : \A i \in 1..c : i <= k => f[i] <= n}
<1>4. 0 \in P
  BY <1>1
<1>5. ASSUME NEW k \in P PROVE k + 1 \in P
  <2>1. PICK n \in Nat : \A i \in 1..c : i <= k => f[i] <= n
    BY <1>5
  <2>2. k \in Nat
    BY <1>5
  <2> HIDE DEF P
  <2>3. CASE k + 1 \in 1..c
    <3>1. f[k + 1] \in Nat
      BY <1>3, <2>3, NumbersOfArticles
    <3> DEFINE m == n + f[k + 1]
    <3>2. m \in Nat
      BY <3>1
    <3>3. ASSUME NEW i \in 1..c, i <= k + 1 PROVE f[i] <= m
      <4>1. f[i] \in Nat
        BY <1>3, NumbersOfArticles
      <4>2. CASE i = k + 1
        BY <3>1, <4>2
      <4>3. CASE i # k + 1
        <5>1. f[i] <= n
          BY <1>1, <2>1, <2>2, <3>3, <4>3
        <5> QED BY <3>1, <4>1, <5>1
      <4> QED BY <4>2, <4>3
    <3> QED BY <2>2, <3>2, <3>3 DEF P
  <2>4. CASE k + 1 \notin 1..c
    <3>1. \A i \in 1..c : i <= k + 1 => f[i] <= n
      BY <1>1, <2>1, <2>2, <2>4
    <3> QED BY <2>2, <3>1 DEF P
  <2> QED BY <2>3, <2>4
<1> HIDE DEF P
<1>6. P = Nat
  BY <1>4, <1>5, Induction DEF P
<1>7. c \in P
  BY <1>1, <1>6
<1> QED BY <1>1, <1>3, <1>7 DEF P

-----------------------------------------------------------------------------
(* What the migration of one entry does to the records.                     *)

LEMMA MoveKeyMoves ==
    ASSUME NEW sent, NEW from, NEW to, NEW k
    PROVE  /\ k \in MoveKey(sent, from, to) => k \in sent \/ (from \in sent /\ k \in to)
           /\ from \in sent /\ k \in to => k \in MoveKey(sent, from, to)
           /\ k \in sent /\ k # from => k \in MoveKey(sent, from, to)
           /\ k \in sent /\ k \in to => k \in MoveKey(sent, from, to)
BY DEF MoveKey

WasEntry(a) == EntryKey(Identity(Was(a)))
NowEntry(a) == EntryKey(Identity(Now(a)))
WasStripped(a) == StrippedKey(Stripped(Was(a)))
NowStripped(a) == StrippedKey(Stripped(Now(a)))

LEMMA TargetKeys ==
    ASSUME NEW a
    PROVE  /\ Target(a) \subseteq Keys(a)
           /\ Unique(a) => Target(a) = {NowStripped(a)}
           /\ ~Unique(a) /\ OwnsPrevious(a) => Target(a) = {NowEntry(a)}
           /\ ~Unique(a) /\ ~OwnsPrevious(a) => Target(a) = {}
BY DEF Target, Keys, NowStripped, NowEntry

\* rekeySent adds a key of the entry's own, for a record under its previous
\* identity that has the same form.
LEMMA RekeyFrom ==
    ASSUME NEW sent, NEW a, NEW k \in RekeySent(sent, a)
    PROVE  \/ k \in sent
           \/ WasEntry(a) \in sent /\ k = NowEntry(a)
           \/ IsLink(Was(a)) /\ WasStripped(a) \in sent /\ k \in Target(a)
<1> DEFINE moved == MoveKey(sent, WasEntry(a), {NowEntry(a)})
<1>1. k \in moved \/ (IsLink(Was(a)) /\ WasStripped(a) \in moved /\ k \in Target(a))
  <2>1. CASE IsLink(Was(a))
    <3>1. RekeySent(sent, a) = MoveKey(moved, WasStripped(a), Target(a))
      BY <2>1 DEF RekeySent, WasEntry, NowEntry, WasStripped
    <3> HIDE DEF moved
    <3> QED BY <2>1, <3>1, MoveKeyMoves
  <2>2. CASE ~IsLink(Was(a))
    BY <2>2 DEF RekeySent, WasEntry, NowEntry
  <2> QED BY <2>1, <2>2
<1>2. \A x : x \in moved => x \in sent \/ (WasEntry(a) \in sent /\ x = NowEntry(a))
  BY MoveKeyMoves
<1>3. WasStripped(a) # NowEntry(a)
  BY KeyForms DEF WasStripped, NowEntry
<1> HIDE DEF moved
<1> QED BY <1>1, <1>2, <1>3

\* What it moves arrives, and what is no record of the previous identity stays.
LEMMA RekeyTo ==
    ASSUME NEW sent, NEW a
    PROVE  /\ WasEntry(a) \in sent => NowEntry(a) \in RekeySent(sent, a)
           /\ IsLink(Was(a)) /\ WasStripped(a) \in sent
              => Target(a) \subseteq RekeySent(sent, a)
           /\ \A k \in sent : k # WasEntry(a) /\ k # WasStripped(a)
                              => k \in RekeySent(sent, a)
           /\ \A k \in sent : ~IsLink(Was(a)) /\ k # WasEntry(a)
                              => k \in RekeySent(sent, a)
           /\ \A k \in sent : k # WasEntry(a) /\ k \in Target(a)
                              => k \in RekeySent(sent, a)
<1> DEFINE moved == MoveKey(sent, WasEntry(a), {NowEntry(a)})
<1>1. /\ IsLink(Was(a)) => RekeySent(sent, a) = MoveKey(moved, WasStripped(a), Target(a))
      /\ ~IsLink(Was(a)) => RekeySent(sent, a) = moved
  BY DEF RekeySent, WasEntry, NowEntry, WasStripped
<1>2. /\ WasEntry(a) \in sent => NowEntry(a) \in moved
      /\ \A k \in sent : k # WasEntry(a) => k \in moved
  BY MoveKeyMoves
<1>3. WasStripped(a) # NowEntry(a) /\ WasStripped(a) # WasEntry(a)
  BY KeyForms DEF WasStripped, NowEntry, WasEntry
<1> HIDE DEF moved
<1>4. \A k : /\ WasStripped(a) \in moved /\ k \in Target(a)
                => k \in MoveKey(moved, WasStripped(a), Target(a))
             /\ k \in moved /\ k # WasStripped(a)
                => k \in MoveKey(moved, WasStripped(a), Target(a))
             /\ k \in moved /\ k \in Target(a)
                => k \in MoveKey(moved, WasStripped(a), Target(a))
  BY MoveKeyMoves
<1> QED BY <1>1, <1>2, <1>3, <1>4

LEMMA KeysTyped ==
    ASSUME Shown, NEW a \in DOMAIN doc
    PROVE  /\ Identity(Now(a)) \in Urls
           /\ NowEntry(a) \in AllKeys /\ NowStripped(a) \in AllKeys
           /\ Keys(a) \subseteq AllKeys /\ Target(a) \subseteq AllKeys
<1>1. Now(a) \in AllPicks /\ Stripped(Now(a)) = WithoutTail(Identity(Now(a)))
  BY ShownPicks, ShownArePicks, UrlForms DEF AllPicks
<1>2. Identity(Now(a)) \in Urls
  BY <1>1 DEF Urls
<1>3. NowEntry(a) \in AllKeys /\ NowStripped(a) \in AllKeys
  BY <1>1, <1>2 DEF AllKeys, NowEntry, NowStripped
<1>4. Keys(a) \subseteq {NowEntry(a), NowStripped(a)}
  BY DEF Keys, NowEntry, NowStripped
<1> QED BY <1>2, <1>3, <1>4, TargetKeys

LEMMA CarryOverTyped ==
    ASSUME Shown, NEW st \in LedgerType, NEW a
    PROVE  CarryOver(st, a) \in LedgerType
<1>1. CASE ~CarriesOver(a)
  BY <1>1 DEF CarryOver
<1>2. CASE CarriesOver(a)
  <2>1. a \in DOMAIN doc
    BY <1>2 DEF CarriesOver, Moved
  <2>2. RekeySent(st.sent, a) \subseteq st.sent \union {NowEntry(a)} \union Target(a)
    BY RekeyFrom
  <2>3. RekeySent(st.sent, a) \subseteq AllKeys
    BY <2>1, <2>2, KeysTyped DEF LedgerType
  <2> DEFINE mark == IF st.mark = Identity(Was(a)) THEN Identity(Now(a)) ELSE st.mark
  <2>4. mark \in Urls \union {NoMark}
    BY <2>1, KeysTyped DEF LedgerType
  <2>5. CarryOver(st, a) = [mark |-> mark, sent |-> RekeySent(st.sent, a)]
    BY <1>2 DEF CarryOver
  <2> HIDE DEF mark
  <2> QED BY <2>3, <2>4, <2>5 DEF LedgerType
<1> QED BY <1>1, <1>2

Last == Max(DOMAIN doc \union {0})

LEMMA LastIsLast ==
    ASSUME Shown
    PROVE  Last \in Nat /\ \A a \in DOMAIN doc : a \in 1..Last
<1> DEFINE S == DOMAIN doc \union {0}
<1>1. PICK n \in Nat : \A a \in Articles : a <= n
  BY ArticlesBounded
<1>2. S \in SUBSET Nat /\ S # {} /\ \A x \in S : x <= n
  <2>1. \A x \in S : x = 0 \/ x \in Articles
    BY DEF Shown
  <2>2. ASSUME NEW x \in S PROVE x \in Nat /\ x <= n
    <3>1. CASE x = 0
      BY <1>1, <3>1
    <3>2. CASE x \in Articles
      BY <1>1, <3>2, NumbersOfArticles
    <3> QED BY <2>1, <3>1, <3>2
  <2>3. 0 \in S
    OBVIOUS
  <2> HIDE DEF S
  <2> QED BY <2>2, <2>3
<1> HIDE DEF S
<1>3. Max(S) \in S /\ \A x \in S : x <= Max(S)
  BY <1>2, Greatest
<1>4. \A a \in DOMAIN doc : a \in Nat \ {0}
  BY IdentityAssumption DEF Shown
<1> QED BY <1>2, <1>3, <1>4 DEF S, Last

\* The migration passes over the entries one after the other: what each step
\* keeps from one number to the next holds of its result.
LEMMA MigrationInduct ==
    ASSUME Shown, NEW st \in LedgerType, NEW P, st \in P[0],
           \A n \in Nat : \A s \in LedgerType : s \in P[n] => CarryOver(s, n + 1) \in P[n + 1]
    PROVE  Migrated(st) \in LedgerType /\ Migrated(st) \in P[Last]
<1> DEFINE step == [n \in Nat |-> [s \in LedgerType |-> CarryOver(s, n + 1)]]
           Carries(f) == f = [a \in Nat |-> IF a = 0 THEN st ELSE CarryOver(f[a - 1], a)]
<1>1. step \in [Nat -> [LedgerType -> LedgerType]]
  BY CarryOverTyped
<1>2. \A n \in Nat, s \in LedgerType : step[n][s] = CarryOver(s, n + 1)
  OBVIOUS
<1> HIDE DEF step
<1>3. \E f : Recursive(f, LedgerType, st, step)
  BY <1>1, Recursively
<1>4. PICK g \in [Nat -> LedgerType] : g[0] = st /\ \A n \in Nat : g[n + 1] = step[n][g[n]]
  BY <1>3 DEF Recursive
<1>5. ASSUME NEW n \in Nat PROVE g[n] = IF n = 0 THEN st ELSE CarryOver(g[n - 1], n)
  <2>1. CASE n = 0
    BY <1>4, <2>1
  <2>2. CASE n # 0
    <3>1. n - 1 \in Nat /\ (n - 1) + 1 = n
      BY <2>2
    <3>2. g[(n - 1) + 1] = step[n - 1][g[n - 1]]
      BY <1>4, <3>1
    <3>3. step[n - 1][g[n - 1]] = CarryOver(g[n - 1], (n - 1) + 1)
      BY <1>2, <1>4, <3>1
    <3> QED BY <2>2, <3>1, <3>2, <3>3
  <2> QED BY <2>1, <2>2
<1>6. Carries(g)
  BY <1>4, <1>5
<1> DEFINE after == CHOOSE f : Carries(f)
<1>7. Carries(after)
  BY <1>6
<1>8. Migrated(st) = after[Last]
  BY DEF Migrated, Last
<1> HIDE DEF after
<1>9. after[0] = st
  BY <1>7
<1>10. ASSUME NEW n \in Nat PROVE after[n + 1] = CarryOver(after[n], n + 1)
  <2>1. n + 1 \in Nat /\ n + 1 # 0 /\ (n + 1) - 1 = n
    OBVIOUS
  <2>2. after[n + 1] = CarryOver(after[(n + 1) - 1], n + 1)
    BY <1>7, <2>1
  <2> QED BY <2>1, <2>2
<1> DEFINE Q == {n \in Nat : after[n] \in LedgerType /\ after[n] \in P[n]}
<1>11. 0 \in Q
  BY <1>9
<1>12. \A n \in Q : n + 1 \in Q
  BY <1>10, CarryOverTyped
<1> HIDE DEF Q
<1>13. Q = Nat
  BY <1>11, <1>12, Induction DEF Q
<1> QED BY <1>8, <1>13, LastIsLast DEF Q

-----------------------------------------------------------------------------
(* Whose a record is.                                                       *)

\* Key k is one that b could have been recorded under.
Stands(k, b) ==
    \E q \in Picks(b) : \/ k = EntryKey(Identity(q))
                        \/ IsLink(q) /\ k = StrippedKey(Stripped(q))

OfAny(k, taken) == \E b \in taken : Stands(k, b)

Carried(k, c) == c \in DOMAIN doc /\ CarriesOver(c) /\ k \in Keys(c)

\* Every record is of an article in taken, or was moved onto an entry up to n.
Sources(sent, taken, n) ==
    \A k \in sent : OfAny(k, taken) \/ \E c \in 1..n : Carried(k, c)

LEMMA KeysOf ==
    ASSUME NEW a
    PROVE  \A k \in Keys(a) : k = NowEntry(a) \/ (Unique(a) /\ k = NowStripped(a))
BY DEF Keys, NowEntry, NowStripped

LEMMA OwnKeys ==
    ASSUME Shown, NEW a \in DOMAIN doc, NEW k \in Keys(a)
    PROVE  Stands(k, a)
BY ShownPicks, KeysOf DEF Stands, NowEntry, NowStripped, Unique

\* A step of the migration adds keys of the entry it moves.
LEMMA CarriedKeys ==
    ASSUME NEW st, NEW c, NEW k \in CarryOver(st, c).sent, k \notin st.sent
    PROVE  CarriesOver(c) /\ k \in Keys(c)
<1>1. CarriesOver(c) /\ CarryOver(st, c).sent = RekeySent(st.sent, c)
  BY DEF CarryOver
<1>2. NowEntry(c) \in Keys(c) /\ Target(c) \subseteq Keys(c)
  BY TargetKeys DEF Keys, NowEntry
<1> QED BY <1>1, <1>2, RekeyFrom

LEMMA CarryOverSources ==
    ASSUME NEW st, NEW taken, NEW n \in Nat, Sources(st.sent, taken, n)
    PROVE  Sources(CarryOver(st, n + 1).sent, taken, n + 1)
<1> SUFFICES ASSUME NEW k \in CarryOver(st, n + 1).sent
             PROVE  OfAny(k, taken) \/ \E c \in 1..(n + 1) : Carried(k, c)
  BY DEF Sources
<1>1. CASE k \in st.sent
  <2>1. \A c \in 1..n : c \in 1..(n + 1)
    OBVIOUS
  <2> QED BY <1>1, <2>1 DEF Sources
<1>2. CASE k \notin st.sent
  <2>1. CarriesOver(n + 1) /\ k \in Keys(n + 1)
    BY <1>2, CarriedKeys
  <2>2. Carried(k, n + 1)
    BY <2>1 DEF Carried, CarriesOver, Moved
  <2>3. n + 1 \in 1..(n + 1)
    OBVIOUS
  <2> QED BY <2>2, <2>3
<1> QED BY <1>1, <1>2

\* So a migrated record is of an article in taken or of an entry that is sent.
LEMMA MigratedSources ==
    ASSUME Shown, NEW st \in LedgerType, NEW taken, \A k \in st.sent : OfAny(k, taken)
    PROVE  Sources(Migrated(st).sent, taken, Last)
<1> DEFINE P == [n \in Nat |-> {s \in LedgerType : Sources(s.sent, taken, n)}]
<1>1. st \in P[0]
  BY DEF Sources
<1>2. ASSUME NEW n \in Nat, NEW s \in LedgerType, s \in P[n]
      PROVE  CarryOver(s, n + 1) \in P[n + 1]
  BY <1>2, CarryOverSources, CarryOverTyped
<1>3. \A s : s \in P[Last] => Sources(s.sent, taken, Last)
  BY LastIsLast
<1> HIDE DEF P
<1> QED BY <1>1, <1>2, <1>3, MigrationInduct

-----------------------------------------------------------------------------
(* What an article is taken for.                                            *)

\* Only an article itself has its unique stripped identity in the document.
LEMMA UniqueAlone ==
    ASSUME NEW a, Unique(a), NEW b \in DOMAIN doc, IsLink(Now(b)),
           Stripped(Now(b)) = Stripped(Now(a))
    PROVE  b = a
BY DEF Unique, Claims

\* A record found for an article makes it pass for the one the record is of.
LEMMA FoundFor ==
    ASSUME Shown, NEW a \in DOMAIN doc, NEW b, a # b, NEW k \in Keys(a), Stands(k, b)
    PROVE  TakenFor(a, b)
<1>1. PICK q \in Picks(b) : \/ k = EntryKey(Identity(q))
                            \/ IsLink(q) /\ k = StrippedKey(Stripped(q))
  BY DEF Stands
<1>2. CASE k = NowEntry(a)
  <2>1. Identity(Now(a)) = Identity(q)
    BY <1>1, <1>2, KeyForms DEF NowEntry
  <2> QED BY <2>1 DEF TakenFor
<1>3. CASE Unique(a) /\ k = NowStripped(a)
  <2>1. IsLink(q) /\ Stripped(Now(a)) = Stripped(q) /\ IsLink(Now(a))
    BY <1>1, <1>3, KeyForms DEF NowStripped, Unique
  <2>2. Rotated(Now(a), q)
    BY <2>1 DEF Rotated
  <2>3. ~(b \in DOMAIN doc /\ SharesLink(a, b))
    BY <1>3, UniqueAlone DEF SharesLink, Rotated
  <2> QED BY <2>2, <2>3 DEF TakenFor
<1> QED BY <1>2, <1>3, KeysOf

\* So does one moved onto it from its previous identity.
LEMMA MovedFor ==
    ASSUME Shown, NEW a \in DOMAIN doc, NEW b, a # b, CarriesOver(a),
           \/ Stands(WasEntry(a), b)
           \/ Stands(WasStripped(a), b) /\ IsLink(Was(a)) /\ Target(a) # {}
    PROVE  TakenFor(a, b)
<1>1. CASE Stands(WasEntry(a), b)
  <2>1. PICK q \in Picks(b) : \/ WasEntry(a) = EntryKey(Identity(q))
                              \/ WasEntry(a) = StrippedKey(Stripped(q))
    BY <1>1 DEF Stands
  <2>2. Identity(Was(a)) = Identity(q)
    BY <2>1, KeyForms DEF WasEntry
  <2> QED BY <2>2 DEF TakenFor
<1>2. CASE Stands(WasStripped(a), b) /\ IsLink(Was(a)) /\ Target(a) # {}
  <2>1. PICK q \in Picks(b) : \/ WasStripped(a) = EntryKey(Identity(q))
                              \/ IsLink(q) /\ WasStripped(a) = StrippedKey(Stripped(q))
    BY <1>2 DEF Stands
  <2>2. Rotated(Was(a), q)
    BY <1>2, <2>1, KeyForms DEF WasStripped, Rotated
  <2>3. a \in Moved
    BY DEF CarriesOver
  <2>4. ASSUME b \in DOMAIN doc, SharesLink(a, b), Rotated(Was(a), Was(b)) PROVE FALSE
    <3>1. ~Unique(a)
      BY <2>4, UniqueAlone DEF SharesLink, Rotated
    <3>2. OwnsPrevious(a)
      BY <1>2, <3>1, TargetKeys
    <3>3. IsLink(Was(b)) /\ Stripped(Was(b)) = Stripped(Was(a))
      BY <2>4 DEF Rotated
    <3>4. b \notin Moved
      BY <3>2, <3>3 DEF OwnsPrevious
    <3>5. Was(b) = Now(b)
      BY <2>4, <3>4 DEF Moved
    <3>6. b \in Claims(Stripped(Was(a)))
      BY <2>4, <3>3, <3>5 DEF Claims
    <3> QED BY <3>2, <3>6 DEF OwnsPrevious
  <2> QED BY <2>2, <2>3, <2>4 DEF TakenFor
<1> QED BY <1>1, <1>2

\* The keys an entry was given by its migration are no other's.
LEMMA CarriedKeysApart ==
    ASSUME NEW a \in DOMAIN doc, NEW c \in DOMAIN doc, a # c, CarriesOver(c)
    PROVE  Keys(a) \intersect Keys(c) = {}
<1> SUFFICES ASSUME NEW k \in Keys(a), k \in Keys(c) PROVE FALSE
  OBVIOUS
<1>1. CASE k = NowEntry(a)
  <2>1. k = NowEntry(c)
    BY <1>1, KeysOf, KeyForms DEF NowEntry, NowStripped
  <2>2. Identity(Now(a)) = Identity(Now(c))
    BY <1>1, <2>1, KeyForms DEF NowEntry
  <2> QED BY <2>2 DEF CarriesOver
<1>2. CASE Unique(a) /\ k = NowStripped(a)
  <2>1. Unique(c) /\ k = NowStripped(c)
    BY <1>2, KeysOf, KeyForms DEF NowEntry, NowStripped
  <2>2. NowStripped(a) = NowStripped(c)
    BY <1>2, <2>1
  <2>3. Stripped(Now(a)) = Stripped(Now(c))
    BY <2>2, KeyForms DEF NowStripped
  <2>4. IsLink(Now(c))
    BY <2>1 DEF Unique
  <2> QED BY <1>2, <2>3, <2>4, UniqueAlone
<1> QED BY <1>1, <1>2, KeysOf

\* The record an entry takes over was not moved onto an older entry before, but
\* for a stripped key that an entry with a unique link takes over.
LEMMA NotMovedTwice ==
    ASSUME NEW a \in DOMAIN doc, NEW c \in DOMAIN doc, CarriesOver(a)
    PROVE  /\ WasEntry(a) \notin Keys(c)
           /\ /\ IsLink(Was(a)) /\ WasStripped(a) \in Keys(c) /\ Target(a) # {}
              /\ c < a /\ CarriesOver(c)
              => MovedOn(a)
<1>1. WasEntry(a) \notin Keys(c)
  <2>1. Identity(Now(c)) # Identity(Was(a))
    BY DEF CarriesOver
  <2> QED BY <2>1, KeysOf, KeyForms DEF WasEntry, NowEntry, NowStripped
<1>2. ASSUME IsLink(Was(a)), WasStripped(a) \in Keys(c), Target(a) # {},
             c < a, CarriesOver(c)
      PROVE  MovedOn(a)
  <2>1. Unique(c) /\ WasStripped(a) = NowStripped(c)
    BY <1>2, KeysOf, KeyForms DEF WasStripped, NowEntry, NowStripped
  <2>2. IsLink(Now(c)) /\ Stripped(Now(c)) = Stripped(Was(a))
    BY <2>1, KeyForms DEF WasStripped, NowStripped, Unique
  <2>3. c \in Claims(Stripped(Was(a)))
    BY <2>2 DEF Claims
  <2>4. Unique(a)
    BY <1>2, <2>3, TargetKeys DEF OwnsPrevious
  <2> QED BY <1>2, <2>1, <2>2, <2>4 DEF MovedOn
<1> QED BY <1>1, <1>2

\* The step that moves an entry's record onto it.
LEMMA CarryOverApart ==
    ASSUME Shown, NEW st, NEW taken, NEW n \in Nat, Sources(st.sent, taken, n),
           NEW a \in DOMAIN doc, a \notin taken, a = n + 1, ~MovedOn(a),
           ~Sent(st, a), Sent(CarryOver(st, a), a)
    PROVE  \E b \in taken : TakenFor(a, b)
<1>1. PICK k \in Keys(a) : k \in CarryOver(st, a).sent
  BY DEF Sent
<1>2. k \notin st.sent
  BY DEF Sent
<1>3. CarriesOver(a) /\ k \in RekeySent(st.sent, a)
  BY <1>1, <1>2 DEF CarryOver
<1>4. ASSUME NEW c \in 1..n, NEW key, Carried(key, c)
      PROVE  c \in DOMAIN doc /\ c < a /\ CarriesOver(c)
  BY <1>4 DEF Carried
<1>5. CASE WasEntry(a) \in st.sent
  <2>1. \A c \in 1..n : ~Carried(WasEntry(a), c)
    BY <1>3, NotMovedTwice DEF Carried
  <2>2. PICK b \in taken : Stands(WasEntry(a), b)
    BY <1>5, <2>1 DEF Sources, OfAny
  <2> QED BY <1>3, <2>2, MovedFor
<1>6. CASE IsLink(Was(a)) /\ WasStripped(a) \in st.sent /\ k \in Target(a)
  <2>1. \A c \in 1..n : ~Carried(WasStripped(a), c)
    BY <1>3, <1>4, <1>6, NotMovedTwice DEF Carried
  <2>2. PICK b \in taken : Stands(WasStripped(a), b)
    BY <1>6, <2>1 DEF Sources, OfAny
  <2> QED BY <1>3, <1>6, <2>2, MovedFor
<1> QED BY <1>2, <1>3, <1>5, <1>6, RekeyFrom

LEMMA MigratedApart ==
    ASSUME Shown, NEW st \in LedgerType, NEW taken, \A k \in st.sent : OfAny(k, taken),
           NEW a \in DOMAIN doc, a \notin taken, ~MovedOn(a), Sent(Migrated(st), a)
    PROVE  \E b \in taken : TakenFor(a, b)
<1> DEFINE Apart == \E b \in taken : TakenFor(a, b)
           P == [n \in Nat |-> {s \in LedgerType :
                    Sources(s.sent, taken, n) /\ (Sent(s, a) => Apart)}]
<1>1. st \in P[0]
  <2>1. ASSUME Sent(st, a) PROVE Apart
    <3>1. PICK k \in Keys(a) : k \in st.sent
      BY <2>1 DEF Sent
    <3>2. PICK b \in taken : Stands(k, b)
      BY <3>1 DEF OfAny
    <3> QED BY <3>1, <3>2, FoundFor
  <2>2. Sources(st.sent, taken, 0)
    BY DEF Sources
  <2> HIDE DEF Apart
  <2> QED BY <2>1, <2>2
<1>2. ASSUME NEW n \in Nat, NEW s \in LedgerType, s \in P[n]
      PROVE  CarryOver(s, n + 1) \in P[n + 1]
  <2>1. Sources(s.sent, taken, n) /\ (Sent(s, a) => Apart)
    BY <1>2
  <2>2. Sources(CarryOver(s, n + 1).sent, taken, n + 1) /\ CarryOver(s, n + 1) \in LedgerType
    BY <2>1, CarryOverSources, CarryOverTyped
  <2>3. ASSUME Sent(CarryOver(s, n + 1), a), ~Sent(s, a) PROVE Apart
    <3>1. CASE a = n + 1
      BY <2>1, <2>3, <3>1, CarryOverApart
    <3>2. CASE a # n + 1
      <4>1. PICK k \in Keys(a) : k \in CarryOver(s, n + 1).sent /\ k \notin s.sent
        BY <2>3 DEF Sent
      <4>2. CarriesOver(n + 1) /\ k \in Keys(n + 1)
        BY <4>1, CarriedKeys
      <4>3. n + 1 \in DOMAIN doc
        BY <4>2 DEF CarriesOver, Moved
      <4> QED BY <3>2, <4>1, <4>2, <4>3, CarriedKeysApart
    <3> QED BY <3>1, <3>2
  <2> HIDE DEF Apart
  <2> QED BY <2>1, <2>2, <2>3
<1>3. \A s : s \in P[Last] => (Sent(s, a) => Apart)
  BY LastIsLast
<1> HIDE DEF P, Apart
<1>4. Migrated(st) \in P[Last]
  BY <1>1, <1>2, MigrationInduct
<1> QED BY <1>3, <1>4 DEF Apart

-----------------------------------------------------------------------------
(* The watermark.                                                           *)

\* The mark names b: it is an identity of b, or a link of b with another tail.
Names(mark, b) ==
    \E q \in Picks(b) :
        \/ mark = Identity(q)
        \/ mark # WithoutTail(mark) /\ IsLink(q) /\ Stripped(q) = WithoutTail(mark)

MarkMoves(from, a, to) ==
    CarriesOver(a) /\ from = Identity(Was(a)) /\ to = Identity(Now(a))

MarkStays(from, a) == CarriesOver(a) => from # Identity(Was(a))

LEMMA CarryOverMark ==
    ASSUME NEW st \in LedgerType, NEW a
    PROVE  \/ CarryOver(st, a).mark = st.mark /\ MarkStays(st.mark, a)
           \/ MarkMoves(st.mark, a, CarryOver(st, a).mark)
BY DEF CarryOver, MarkMoves, MarkStays

\* The migration moves the watermark once or not at all: what it moved onto is
\* nobody's previous identity that could still be carried over.
LEMMA MigratedMark ==
    ASSUME Shown, NEW st \in LedgerType
    PROVE  \/ Migrated(st).mark = st.mark /\ \A a \in DOMAIN doc : MarkStays(st.mark, a)
           \/ \E a \in DOMAIN doc : MarkMoves(st.mark, a, Migrated(st).mark)
<1> DEFINE Stays(n) == \A a \in 1..n : MarkStays(st.mark, a)
           Moves(n, mark) == \E a \in 1..n : MarkMoves(st.mark, a, mark)
           P == [n \in Nat |-> {s \in LedgerType :
                    (s.mark = st.mark /\ Stays(n)) \/ Moves(n, s.mark)}]
<1>1. st \in P[0]
  OBVIOUS
<1>2. ASSUME NEW n \in Nat, NEW s \in LedgerType, s \in P[n]
      PROVE  CarryOver(s, n + 1) \in P[n + 1]
  <2> DEFINE t == CarryOver(s, n + 1)
  <2>1. t \in LedgerType
    BY CarryOverTyped
  <2>2. (s.mark = st.mark /\ Stays(n)) \/ Moves(n, s.mark)
    BY <1>2
  <2>3. (t.mark = s.mark /\ MarkStays(s.mark, n + 1)) \/ MarkMoves(s.mark, n + 1, t.mark)
    BY CarryOverMark
  <2>4. \A a \in 1..(n + 1) : a \in 1..n \/ a = n + 1
    OBVIOUS
  <2>5. \A a \in 1..n : a \in 1..(n + 1)
    OBVIOUS
  <2>6. n + 1 \in 1..(n + 1)
    OBVIOUS
  <2>7. (t.mark = st.mark /\ Stays(n + 1)) \/ Moves(n + 1, t.mark)
    <3> HIDE DEF t
    <3>1. CASE s.mark = st.mark /\ Stays(n)
      BY <2>3, <2>4, <2>6, <3>1
    <3>2. CASE Moves(n, s.mark)
      <4>1. PICK a \in 1..n : MarkMoves(st.mark, a, s.mark)
        BY <3>2
      <4>2. ~MarkMoves(s.mark, n + 1, t.mark)
        BY <4>1 DEF MarkMoves, CarriesOver, Moved
      <4>3. MarkMoves(st.mark, a, t.mark)
        BY <2>3, <4>1, <4>2
      <4> QED BY <2>5, <4>3
    <3> QED BY <2>2, <3>1, <3>2
  <2> HIDE DEF t, Stays, Moves
  <2> QED BY <2>1, <2>7 DEF t
<1>3. \A s : s \in P[Last] => (s.mark = st.mark /\ Stays(Last)) \/ Moves(Last, s.mark)
  BY LastIsLast
<1> HIDE DEF P
<1>4. Migrated(st) \in P[Last]
  BY <1>1, <1>2, MigrationInduct
<1>5. \A a \in DOMAIN doc : a \in 1..Last
  BY LastIsLast
<1>6. \A a, mark : MarkMoves(st.mark, a, mark) => a \in DOMAIN doc
  BY DEF MarkMoves, CarriesOver, Moved
<1> QED BY <1>3, <1>4, <1>5, <1>6

\* The watermark is looked up by identity first, then by the link's stripped one.
IsMarked(a, mark) == a \in DOMAIN doc /\ Identity(Now(a)) = mark
IsMarkedLink(a, mark) ==
    /\ a \in DOMAIN doc /\ mark # WithoutTail(mark)
    /\ Unique(a) /\ Stripped(Now(a)) = WithoutTail(mark)

LEMMA Resumes ==
    ASSUME Shown, NEW mark
    PROVE  \/ IsMarked(Resume(mark), mark)
           \/ IsMarkedLink(Resume(mark), mark) /\ \A a : ~IsMarked(a, mark)
           \/ /\ Resume(mark) = NoArticle
              /\ \A a : ~IsMarked(a, mark) /\ ~IsMarkedLink(a, mark)
<1> DEFINE exact == {a \in DOMAIN doc : Identity(Now(a)) = mark}
           stripped == {a \in DOMAIN doc : /\ mark # WithoutTail(mark)
                                           /\ Unique(a) /\ Stripped(Now(a)) = WithoutTail(mark)}
<1>1. Resume(mark) = IF exact # {} THEN Min(exact)
                     ELSE IF stripped # {} THEN Min(stripped) ELSE NoArticle
  BY DEF Resume
<1>2. /\ exact # {} => Min(exact) \in exact
      /\ stripped # {} => Min(stripped) \in stripped
  <2>1. exact \in SUBSET Nat /\ stripped \in SUBSET Nat
    BY NumbersOfArticles DEF Shown
  <2> HIDE DEF exact, stripped
  <2> QED BY <2>1, Least
<1>3. \A a : (a \in exact <=> IsMarked(a, mark)) /\ (a \in stripped <=> IsMarkedLink(a, mark))
  BY DEF IsMarked, IsMarkedLink
<1> HIDE DEF exact, stripped
<1> QED BY <1>1, <1>2, <1>3

\* Two articles one mark can name are alike.
LEMMA NamedAlike ==
    ASSUME Shown, NEW mark, NEW m \in Articles, Names(mark, m),
           NEW f \in DOMAIN doc, NEW p \in {Now(f), Was(f)},
           \/ mark = Identity(p)
           \/ mark # WithoutTail(mark) /\ IsLink(p) /\ Stripped(p) = WithoutTail(mark)
    PROVE  LooksLike(f, m)
<1>1. PICK q \in Picks(m) :
        \/ mark = Identity(q)
        \/ mark # WithoutTail(mark) /\ IsLink(q) /\ Stripped(q) = WithoutTail(mark)
  BY DEF Names
<1>2. IsPick(p) /\ IsPick(q)
  BY ShownArePicks, PicksArePicks
<1>3. CASE mark = Identity(p) /\ mark = Identity(q)
  BY <1>3 DEF LooksLike, Confusable
<1>4. CASE mark # WithoutTail(mark)
  <2>1. IsLink(p) /\ Stripped(p) = WithoutTail(mark)
    BY <1>2, <1>4, UrlForms
  <2>2. IsLink(q) /\ Stripped(q) = WithoutTail(mark)
    BY <1>1, <1>2, <1>4, UrlForms
  <2> QED BY <2>1, <2>2 DEF LooksLike, Confusable, Rotated
<1> QED BY <1>1, <1>3, <1>4

LEMMA FoundNamed ==
    ASSUME Shown, NEW mark, Resume(mark) # NoArticle
    PROVE  /\ Resume(mark) \in DOMAIN doc /\ Names(mark, Resume(mark))
           /\ \/ mark = Identity(Now(Resume(mark)))
              \/ /\ mark # WithoutTail(mark) /\ IsLink(Now(Resume(mark)))
                 /\ Stripped(Now(Resume(mark))) = WithoutTail(mark)
<1> DEFINE f == Resume(mark)
<1>1. IsMarked(f, mark) \/ IsMarkedLink(f, mark)
  BY Resumes
<1> HIDE DEF f
<1>2. f \in DOMAIN doc
  BY <1>1 DEF IsMarked, IsMarkedLink
<1>3. \/ mark = Identity(Now(f))
      \/ mark # WithoutTail(mark) /\ IsLink(Now(f)) /\ Stripped(Now(f)) = WithoutTail(mark)
  BY <1>1 DEF IsMarked, IsMarkedLink, Unique
<1>4. Names(mark, f)
  BY <1>2, <1>3, ShownPicks DEF Names
<1> QED BY <1>2, <1>3, <1>4 DEF f

LEMMA FoundAlike ==
    ASSUME Shown, NEW mark, NEW m \in Articles, Names(mark, m), Resume(mark) # NoArticle
    PROVE  LooksLike(Resume(mark), m)
BY FoundNamed, NamedAlike

\* A mark that was moved finds the entry it was moved onto, and no other.
LEMMA MovedFinds ==
    ASSUME Shown, NEW from, NEW a \in DOMAIN doc, NEW to, MarkMoves(from, a, to)
    PROVE  Resume(to) = a
<1>1. IsMarked(a, to) /\ \A b : IsMarked(b, to) => b = a
  BY DEF MarkMoves, IsMarked, CarriesOver
<1> QED BY <1>1, Resumes

LEMMA MigratedAlike ==
    ASSUME Shown, NEW st \in LedgerType, NEW m \in Articles, Names(st.mark, m),
           Resume(Migrated(st).mark) # NoArticle
    PROVE  LooksLike(Resume(Migrated(st).mark), m)
<1>1. CASE Migrated(st).mark = st.mark
  BY <1>1, FoundAlike
<1>2. CASE \E a \in DOMAIN doc : MarkMoves(st.mark, a, Migrated(st).mark)
  <2>1. PICK a \in DOMAIN doc : MarkMoves(st.mark, a, Migrated(st).mark)
    BY <1>2
  <2>2. Resume(Migrated(st).mark) = a
    BY <2>1, MovedFinds
  <2>3. st.mark = Identity(Was(a))
    BY <2>1 DEF MarkMoves
  <2> QED BY <2>2, <2>3, NamedAlike
<1> QED BY <1>1, <1>2, MigratedMark

\* A feed without a watermark keeps none, and nothing is found for it.
LEMMA NoMarkFindsNone ==
    ASSUME Shown, NEW st \in LedgerType, st.mark = NoMark
    PROVE  Migrated(st).mark = NoMark /\ Resume(NoMark) = NoArticle
<1>1. \A a \in DOMAIN doc : Identity(Was(a)) # NoMark /\ Identity(Now(a)) # NoMark
  BY ShownArePicks, UrlForms
<1>2. Migrated(st).mark = NoMark
  BY <1>1, MigratedMark DEF MarkMoves
<1>3. WithoutTail(NoMark) = NoMark
  BY DEF WithoutTail, NoMark
<1> QED BY <1>1, <1>2, <1>3, Resumes DEF IsMarked, IsMarkedLink

\* What a pass finds the watermark to stand for is named by it.
LEMMA BeginMarked ==
    ASSUME Shown, NEW st \in LedgerType, NEW m,
           st.mark = NoMark \/ (m \in Articles /\ Names(st.mark, m)),
           NEW found, found = Resume(Migrated(st).mark),
           NEW marker, marker = (IF found = NoArticle THEN m ELSE found)
    PROVE  \/ Migrated(st).mark = NoMark
           \/ marker \in Articles /\ Names(Migrated(st).mark, marker)
<1>1. CASE found # NoArticle
  BY <1>1, FoundNamed DEF Shown
<1>2. CASE found = NoArticle
  <2>1. CASE Migrated(st).mark = st.mark
    BY <1>2, <2>1
  <2>2. CASE \E a \in DOMAIN doc : MarkMoves(st.mark, a, Migrated(st).mark)
    BY <1>2, <2>2, MovedFinds, NumbersOfArticles DEF Shown
  <2> QED BY <2>1, <2>2, MigratedMark
<1> QED BY <1>1, <1>2

-----------------------------------------------------------------------------
(* Articles that share no URL.                                              *)

LEMMA SameStripped ==
    ASSUME NEW p, NEW q, IsPick(p), IsPick(q), Identity(p) = Identity(q)
    PROVE  Stripped(p) = Stripped(q)
BY UrlForms

LEMMA LoneAlone ==
    ASSUME NEW a \in Lone, NEW b \in Articles, b # a, NEW p \in Picks(a), NEW q \in Picks(b)
    PROVE  Stripped(p) # Stripped(q) /\ Identity(p) # Identity(q)
<1>1. Stripped(p) # Stripped(q) /\ a \in Articles
  BY DEF Lone
<1> QED BY <1>1, PicksArePicks, SameStripped

LEMMA LoneForms ==
    ASSUME NEW a \in Lone, NEW p \in Picks(a), NEW q \in Picks(a),
           Stripped(p) = Stripped(q) \/ Identity(p) = Identity(q)
    PROVE  (IsLink(p) <=> IsLink(q)) /\ Stripped(p) = Stripped(q)
<1>1. Stripped(p) = Stripped(q)
  BY PicksArePicks, SameStripped DEF Lone
<1> QED BY <1>1 DEF Lone, IsLink

LEMMA LoneCarries ==
    ASSUME Shown, NEW a \in Lone \intersect DOMAIN doc
    PROVE  CarriesOver(a) <=> Identity(Was(a)) # Identity(Now(a))
<1>1. /\ \A b \in DOMAIN doc \ {a} : /\ Identity(Was(b)) # Identity(Was(a))
                                     /\ Identity(Now(b)) # Identity(Was(a))
                                     /\ Identity(Now(b)) # Identity(Now(a))
      /\ a \in Articles
  BY ShownPicks, LoneAlone
<1>2. Moved \subseteq DOMAIN doc /\ (Identity(Was(a)) # Identity(Now(a)) => a \in Moved)
  BY DEF Moved
<1> QED BY <1>1, <1>2 DEF CarriesOver

LEMMA LoneClaims ==
    ASSUME Shown, NEW a \in Lone \intersect DOMAIN doc, NEW p \in Picks(a),
           NEW b \in Claims(Stripped(p))
    PROVE  b = a /\ Stripped(Now(a)) = Stripped(p)
<1>1. b \in DOMAIN doc /\ IsPick(Now(b)) /\ IsPick(p) /\ a \in Articles
  BY ShownArePicks, PicksArePicks DEF Claims, Lone
<1>2. Stripped(Now(b)) = Stripped(p)
  <2>1. CASE Identity(Now(b)) = Stripped(p)
    BY <1>1, <2>1, UrlForms
  <2>2. CASE Stripped(Now(b)) = Stripped(p)
    BY <2>2
  <2> QED BY <2>1, <2>2 DEF Claims
<1> QED BY <1>1, <1>2, ShownPicks, LoneAlone

LEMMA LoneUnique ==
    ASSUME Shown, NEW a \in Lone \intersect DOMAIN doc, IsLink(Now(a))
    PROVE  Unique(a)
<1>1. \A b \in Claims(Stripped(Now(a))) : b = a
  BY ShownPicks, LoneClaims
<1>2. a \in Claims(Stripped(Now(a)))
  BY DEF Claims
<1>3. Claims(Stripped(Now(a))) = {a}
  BY <1>1, <1>2
<1> QED BY <1>3 DEF Unique

LEMMA LoneOwns ==
    ASSUME Shown, NEW a \in Lone \intersect DOMAIN doc, IsLink(Was(a)), ~IsLink(Now(a))
    PROVE  OwnsPrevious(a)
<1>1. ASSUME NEW b \in Claims(Stripped(Was(a))) PROVE FALSE
  <2>1. Stripped(Now(a)) = Stripped(Was(a))
    BY ShownPicks, LoneClaims
  <2> QED BY <2>1, ShownPicks, LoneForms
<1>2. \A b \in Moved \ {a} : Stripped(Was(b)) # Stripped(Was(a))
  BY ShownPicks, LoneAlone DEF Moved
<1>3. Claims(Stripped(Was(a))) = {}
  BY <1>1
<1> QED BY <1>2, <1>3 DEF OwnsPrevious

\* The watermark of such an article finds it.
LEMMA LoneFound ==
    ASSUME Shown, NEW a \in Lone \intersect DOMAIN doc, NEW mark,
           IsMarked(a, mark) \/ IsMarkedLink(a, mark)
    PROVE  Resume(mark) = a
<1>1. ASSUME NEW b, IsMarked(b, mark) \/ IsMarkedLink(b, mark) PROVE b = a
  <2>1. /\ b \in DOMAIN doc
        /\ IsPick(Now(a)) /\ IsPick(Now(b))
    BY <1>1, ShownArePicks DEF IsMarked, IsMarkedLink
  <2>2. Stripped(Now(a)) = WithoutTail(mark)
    BY <2>1, UrlForms DEF IsMarked, IsMarkedLink
  <2>3. Stripped(Now(b)) = WithoutTail(mark)
    BY <1>1, <2>1, UrlForms DEF IsMarked, IsMarkedLink
  <2> QED BY <2>1, <2>2, <2>3, ShownPicks, LoneAlone
<1> QED BY <1>1, Resumes

LEMMA LoneMigratedMark ==
    ASSUME Shown, NEW st \in LedgerType, NEW a \in Lone \intersect DOMAIN doc,
           Migrated(st).mark = Identity(Was(a))
    PROVE  Identity(Was(a)) = Identity(Now(a))
<1>1. CASE Migrated(st).mark = st.mark /\ MarkStays(st.mark, a)
  BY <1>1, LoneCarries DEF MarkStays
<1>2. CASE \E b \in DOMAIN doc : MarkMoves(st.mark, b, Migrated(st).mark)
  <2>1. PICK b \in DOMAIN doc : Identity(Now(b)) = Identity(Was(a))
    BY <1>2 DEF MarkMoves
  <2>2. b = a
    BY <2>1, ShownPicks, LoneAlone
  <2> QED BY <2>1, <2>2
<1> QED BY <1>1, <1>2, MigratedMark

\* The mark names the article as it is or was, or as a link with another tail.
NamesNow(mark, a) ==
    \/ mark \in {Identity(Now(a)), Identity(Was(a))}
    \/ /\ IsLink(Now(a)) /\ mark # WithoutTail(mark)
       /\ Stripped(Now(a)) = WithoutTail(mark)

LEMMA LoneStillFound ==
    ASSUME Shown, NEW mark, NEW a \in Lone \intersect DOMAIN doc, NamesNow(mark, a),
           mark = Identity(Was(a)) => Identity(Was(a)) = Identity(Now(a))
    PROVE  Resume(mark) = a
<1>1. CASE mark = Identity(Now(a))
  BY <1>1, LoneFound DEF IsMarked
<1>2. CASE IsLink(Now(a)) /\ mark # WithoutTail(mark) /\ Stripped(Now(a)) = WithoutTail(mark)
  BY <1>2, LoneFound, LoneUnique DEF IsMarkedLink
<1> QED BY <1>1, <1>2 DEF NamesNow

LEMMA LoneMigratedFound ==
    ASSUME Shown, NEW st \in LedgerType, NEW a \in Lone \intersect DOMAIN doc,
           NamesNow(st.mark, a)
    PROVE  Resume(Migrated(st).mark) = a
<1>1. CASE Migrated(st).mark = st.mark
  BY <1>1, LoneMigratedMark, LoneStillFound
<1>2. CASE \E b \in DOMAIN doc : MarkMoves(st.mark, b, Migrated(st).mark)
  <2>1. PICK b \in DOMAIN doc : MarkMoves(st.mark, b, Migrated(st).mark)
    BY <1>2
  <2>2. st.mark = Identity(Was(b)) /\ WithoutTail(st.mark) = Stripped(Was(b))
    BY <2>1, ShownArePicks, UrlForms DEF MarkMoves
  <2>3. b = a
    BY <2>2, ShownPicks, LoneAlone DEF NamesNow
  <2> QED BY <2>1, <2>3, MovedFinds
<1> QED BY <1>1, <1>2, MigratedMark

-----------------------------------------------------------------------------
(* The record of an article that shares no URL.                             *)

\* Other entries' moves leave it alone.
LEMMA LoneLeftAlone ==
    ASSUME Shown, NEW a \in Lone, NEW st \in LedgerType, NEW c, c # a,
           NEW k \in st.sent, Stands(k, a)
    PROVE  k \in CarryOver(st, c).sent
<1>1. CASE ~CarriesOver(c)
  BY <1>1 DEF CarryOver
<1>2. CASE CarriesOver(c)
  <2>1. c \in DOMAIN doc /\ CarryOver(st, c).sent = RekeySent(st.sent, c)
    BY <1>2 DEF CarryOver, CarriesOver, Moved
  <2>2. Was(c) \in Picks(c) /\ c \in Articles
    BY <2>1, ShownPicks
  <2>3. PICK q \in Picks(a) : \/ k = EntryKey(Identity(q))
                              \/ IsLink(q) /\ k = StrippedKey(Stripped(q))
    BY DEF Stands
  <2>4. Stripped(q) # Stripped(Was(c)) /\ Identity(q) # Identity(Was(c))
    BY <2>2, LoneAlone
  <2>5. k # WasEntry(c) /\ k # WasStripped(c)
    BY <2>3, <2>4, KeyForms DEF WasEntry, WasStripped
  <2> QED BY <2>1, <2>5, RekeyTo
<1> QED BY <1>1, <1>2

\* What the record of a is once a was passed over.
KeepsRecord(from, to, a) ==
    /\ WasEntry(a) \in from \/ NowEntry(a) \in from => NowEntry(a) \in to
    /\ IsLink(Now(a)) /\ NowStripped(a) \in from => NowStripped(a) \in to
    /\ IsLink(Was(a)) /\ WasStripped(a) \in from
       => IF IsLink(Now(a)) THEN NowStripped(a) \in to ELSE NowEntry(a) \in to

LEMMA LoneMoves ==
    ASSUME Shown, NEW a \in Lone \intersect DOMAIN doc, NEW st \in LedgerType
    PROVE  KeepsRecord(st.sent, CarryOver(st, a).sent, a)
<1> DEFINE to == CarryOver(st, a).sent
<1>1. Now(a) \in Picks(a) /\ Was(a) \in Picks(a)
  BY ShownPicks
<1>2. CASE ~CarriesOver(a)
  <2>1. Identity(Was(a)) = Identity(Now(a)) /\ to = st.sent
    BY <1>2, LoneCarries DEF CarryOver
  <2>2. WasEntry(a) = NowEntry(a)
    BY <2>1 DEF WasEntry, NowEntry
  <2>3. IsLink(Was(a)) => IsLink(Now(a)) /\ WasStripped(a) = NowStripped(a)
    BY <1>1, <2>1, LoneForms DEF WasStripped, NowStripped
  <2> QED BY <2>1, <2>2, <2>3 DEF KeepsRecord
<1>3. CASE CarriesOver(a)
  <2>1. to = RekeySent(st.sent, a) /\ WasEntry(a) # NowEntry(a)
    BY <1>3, LoneCarries, KeyForms DEF CarryOver, WasEntry, NowEntry
  <2>2. /\ IsLink(Now(a)) => Target(a) = {NowStripped(a)}
        /\ IsLink(Was(a)) /\ ~IsLink(Now(a)) => Target(a) = {NowEntry(a)}
    BY LoneUnique, LoneOwns, TargetKeys DEF Unique
  <2>3. NowEntry(a) \in st.sent => NowEntry(a) \in to
    BY <2>1, RekeyTo, KeyForms DEF NowEntry, WasStripped
  <2>4. NowStripped(a) # WasEntry(a)
    BY KeyForms DEF NowStripped, WasEntry
  <2>5. WasEntry(a) \in st.sent => NowEntry(a) \in to
    BY <2>1, RekeyTo
  <2>6. IsLink(Now(a)) /\ NowStripped(a) \in st.sent => NowStripped(a) \in to
    BY <2>1, <2>2, <2>4, RekeyTo
  <2>7. IsLink(Was(a)) /\ WasStripped(a) \in st.sent => Target(a) \subseteq to
    BY <2>1, RekeyTo
  <2> QED BY <2>2, <2>3, <2>5, <2>6, <2>7 DEF KeepsRecord
<1> QED BY <1>2, <1>3

LEMMA LoneMigrated ==
    ASSUME Shown, NEW a \in Lone \intersect DOMAIN doc, NEW st \in LedgerType
    PROVE  KeepsRecord(st.sent, Migrated(st).sent, a)
<1> DEFINE Whole(sent) == \A k \in st.sent : Stands(k, a) => k \in sent
           P == [n \in Nat |-> {s \in LedgerType :
                    /\ n < a => Whole(s.sent)
                    /\ n >= a => KeepsRecord(st.sent, s.sent, a)}]
<1>1. a \in Nat /\ 0 < a
  BY IdentityAssumption DEF Shown
<1>2. /\ Stands(NowEntry(a), a) /\ Stands(WasEntry(a), a)
      /\ IsLink(Now(a)) => Stands(NowStripped(a), a)
      /\ IsLink(Was(a)) => Stands(WasStripped(a), a)
  BY ShownPicks DEF Stands, NowEntry, WasEntry, NowStripped, WasStripped
<1>3. st \in P[0]
  BY <1>1
<1>4. ASSUME NEW n \in Nat, NEW s \in LedgerType, s \in P[n]
      PROVE  CarryOver(s, n + 1) \in P[n + 1]
  <2> DEFINE t == CarryOver(s, n + 1)
  <2>1. /\ n < a => Whole(s.sent)
        /\ n >= a => KeepsRecord(st.sent, s.sent, a)
    BY <1>4
  <2>2. n + 1 # a => \A k \in s.sent : Stands(k, a) => k \in t.sent
    BY LoneLeftAlone
  <2>3. t \in LedgerType
    BY CarryOverTyped
  <2>4. ASSUME n + 1 < a PROVE Whole(t.sent)
    <3>1. n < a /\ n + 1 # a
      BY <1>1, <2>4
    <3> HIDE DEF t
    <3> QED BY <2>1, <2>2, <3>1
  <2>5. ASSUME n + 1 >= a PROVE KeepsRecord(st.sent, t.sent, a)
    <3>1. CASE n + 1 = a
      <4>1. KeepsRecord(s.sent, t.sent, a)
        BY <3>1, LoneMoves
      <4>2. Whole(s.sent)
        BY <1>1, <2>1, <3>1
      <4> HIDE DEF t
      <4> QED BY <1>2, <4>1, <4>2 DEF KeepsRecord
    <3>2. CASE n + 1 # a
      <4>1. KeepsRecord(st.sent, s.sent, a)
        BY <1>1, <2>1, <2>5, <3>2
      <4> HIDE DEF t
      <4> QED BY <1>2, <2>2, <3>2, <4>1 DEF KeepsRecord
    <3> QED BY <3>1, <3>2
  <2> HIDE DEF t, Whole
  <2> QED BY <2>3, <2>4, <2>5 DEF t
<1>5. \A s : s \in P[Last] => KeepsRecord(st.sent, s.sent, a)
  BY <1>1, LastIsLast
<1> HIDE DEF P
<1>6. Migrated(st) \in P[Last]
  BY <1>3, <1>4, MigrationInduct
<1> QED BY <1>5, <1>6

\* A migration over a document without the article does not touch its record.
LEMMA LoneAbsent ==
    ASSUME Shown, NEW a \in Lone, a \notin DOMAIN doc, NEW st \in LedgerType,
           NEW k \in st.sent, Stands(k, a)
    PROVE  k \in Migrated(st).sent
<1> DEFINE P == [n \in Nat |-> {s \in LedgerType : k \in s.sent}]
<1>1. ASSUME NEW n \in Nat, NEW s \in LedgerType, s \in P[n]
      PROVE  CarryOver(s, n + 1) \in P[n + 1]
  <2>1. CASE n + 1 = a
    <3>1. ~CarriesOver(n + 1)
      BY <2>1 DEF CarriesOver, Moved
    <3> QED BY <1>1, <3>1 DEF CarryOver
  <2>2. CASE n + 1 # a
    BY <1>1, <2>2, LoneLeftAlone, CarryOverTyped
  <2> QED BY <2>1, <2>2
<1>2. st \in P[0]
  OBVIOUS
<1>3. \A s : s \in P[Last] => k \in s.sent
  BY LastIsLast
<1> HIDE DEF P
<1> QED BY <1>1, <1>2, <1>3, MigrationInduct

KeptAs(sent, pick) ==
    \/ EntryKey(Identity(pick)) \in sent
    \/ IsLink(pick) /\ StrippedKey(Stripped(pick)) \in sent

KeptLink(sent, pick) == IsLink(pick) => StrippedKey(Stripped(pick)) \in sent

\* An article that is recognizable keeps its record, and the stripped form of
\* it unless it turned from a GUID into a link.
LEMMA LoneRecord ==
    ASSUME Shown, NEW a \in Lone \intersect DOMAIN doc, NEW from, NEW to,
           KeepsRecord(from, to, a), NEW last \in Picks(a), NEW p \in {Now(a), Was(a)},
           KeptAs(from, last),
           Identity(p) = Identity(last) \/ (Rotated(p, last) /\ KeptLink(from, last))
    PROVE  /\ KeptAs(to, Now(a))
           /\ KeptLink(from, last) /\ (IsLink(Was(a)) \/ ~IsLink(Now(a)))
              => KeptLink(to, Now(a))
<1>1. p \in Picks(a) /\ Now(a) \in Picks(a)
  BY ShownPicks
<1>2. (IsLink(p) <=> IsLink(last)) /\ Stripped(p) = Stripped(last)
  BY <1>1, LoneForms DEF Rotated
<1>3. KeptAs(from, p)
  <2>1. CASE Identity(p) = Identity(last)
    BY <1>2, <2>1 DEF KeptAs
  <2>2. CASE Rotated(p, last) /\ KeptLink(from, last)
    BY <1>2, <2>2 DEF KeptAs, KeptLink, Rotated
  <2> QED BY <2>1, <2>2
<1>4. KeptLink(from, last) => KeptLink(from, p)
  BY <1>2 DEF KeptLink
<1>5. CASE p = Now(a)
  <2>1. KeptAs(from, Now(a)) => KeptAs(to, Now(a))
    BY DEF KeptAs, KeepsRecord, NowEntry, NowStripped
  <2>2. KeptLink(from, Now(a)) => KeptLink(to, Now(a))
    BY DEF KeptLink, KeepsRecord, NowStripped
  <2> QED BY <1>3, <1>4, <1>5, <2>1, <2>2
<1>6. CASE p = Was(a)
  <2>1. KeptAs(from, Was(a)) => KeptAs(to, Now(a))
    BY DEF KeptAs, KeepsRecord, NowEntry, NowStripped, WasEntry, WasStripped
  <2>2. KeptLink(from, Was(a)) /\ IsLink(Was(a)) => KeptLink(to, Now(a))
    BY DEF KeptLink, KeepsRecord, NowStripped, WasStripped
  <2>3. ~IsLink(Now(a)) => KeptLink(to, Now(a))
    BY DEF KeptLink
  <2> QED BY <1>3, <1>4, <1>6, <2>1, <2>2, <2>3
<1> QED BY <1>5, <1>6

-----------------------------------------------------------------------------
(* The invariant.                                                           *)

\* What is recorded is somebody's, and the watermark names somebody.
Originated == \A k \in status.sent : OfAny(k, hist.taken)
Marked ==
    \/ status.mark = NoMark
    \/ hist.marker \in Articles /\ Names(status.mark, hist.marker)

\* In a pass, the watermark names nobody by an identity that was carried over,
\* and history has what the document shows.
Followed ==
    pc = "deliver" =>
        \A a \in Lone \intersect DOMAIN doc :
            /\ status.mark = Identity(Was(a)) => Identity(Was(a)) = Identity(Now(a))
            /\ hist.seen[a].pick = Now(a)

Recorded ==
    \A a \in (Lone \intersect hist.handled) \ hist.renamed :
        /\ hist.seen[a].pick \in Picks(a)
        /\ KeptAs(status.sent, hist.seen[a].pick)
        /\ hist.seen[a].stripped => KeptLink(status.sent, hist.seen[a].pick)

IInv == Typed /\ Originated /\ Marked /\ Followed /\ Recorded /\ SentOnce

LEMMA InitIInv == Init => IInv
<1> SUFFICES ASSUME Init PROVE IInv
  OBVIOUS
<1>1. DOMAIN doc = {} /\ Shown
  BY DEF Init, Shown
<1>2. status \in LedgerType
  BY DEF Init, LedgerType
<1>3. Unseen \in SeenType
  BY DEF Unseen, SeenType
<1>4. hist \in HistType
  BY <1>3 DEF Init, HistType
<1>5. Typed
  BY <1>1, <1>2, <1>4 DEF Init, Typed
<1>6. Originated /\ Marked /\ Followed
  BY <1>1 DEF Init, Originated, Marked, Followed
<1>7. Recorded /\ SentOnce
  BY DEF Init, Recorded, SentOnce
<1> QED BY <1>5, <1>6, <1>7 DEF IInv

\* The document changes between passes only, and no record with it.
LEMMA DocumentKeeps ==
    ASSUME IInv, pc = "idle", UNCHANGED <<status, pc, todo, hist>>,
           Shown', release' \in {"earlier", "current"}
    PROVE  IInv'
<1>1. Typed'
  BY DEF IInv, Typed
<1>2. Originated' /\ Marked' /\ Recorded'
  BY DEF IInv, Originated, Marked, Recorded
<1>3. Followed' /\ SentOnce'
  BY DEF IInv, Followed, SentOnce
<1> QED BY <1>1, <1>2, <1>3 DEF IInv

LEMMA ShowKeeps ==
    ASSUME IInv, NEW a \in Articles, NEW look \in Looks[a], Show(a, look)
    PROVE  IInv'
<1>1. doc' = [b \in DOMAIN doc \union {a} |-> IF b = a THEN look ELSE doc[b]]
  BY DEF Show
<1>2. Shown'
  BY <1>1 DEF Shown, IInv, Typed
<1> QED BY <1>2, DocumentKeeps DEF Show, IInv, Typed

LEMMA WithdrawKeeps ==
    ASSUME IInv, NEW a \in DOMAIN doc, Withdraw(a)
    PROVE  IInv'
<1>1. doc' = [b \in DOMAIN doc \ {a} |-> doc[b]]
  BY DEF Withdraw
<1>2. Shown'
  BY <1>1 DEF Shown, IInv, Typed
<1> QED BY <1>2, DocumentKeeps DEF Withdraw, IInv, Typed

LEMMA UpgradeKeeps == IInv /\ Upgrade => IInv'
<1> SUFFICES ASSUME IInv, Upgrade PROVE IInv'
  OBVIOUS
<1>1. Shown'
  BY DEF Shown, IInv, Typed, Upgrade
<1> QED BY <1>1, DocumentKeeps DEF Upgrade

LEMMA ClosesKeeps == IInv /\ Closes => IInv'
<1> SUFFICES ASSUME IInv, Closes PROVE IInv'
  OBVIOUS
<1>1. Typed'
  BY DEF IInv, Typed, Shown, Closes
<1>2. Originated' /\ Marked' /\ Recorded'
  BY DEF IInv, Originated, Marked, Recorded, Closes
<1>3. Followed' /\ SentOnce'
  BY DEF IInv, Followed, SentOnce, Closes
<1> QED BY <1>1, <1>2, <1>3 DEF IInv

LEMMA StutterKeeps == IInv /\ UNCHANGED vars => IInv'
<1> SUFFICES ASSUME IInv, UNCHANGED vars PROVE IInv'
  OBVIOUS
<1>1. Typed'
  BY DEF IInv, Typed, Shown, vars
<1>2. Originated' /\ Marked' /\ Recorded'
  BY DEF IInv, Originated, Marked, Recorded, vars
<1>3. Followed' /\ SentOnce'
  BY DEF IInv, Followed, SentOnce, Now, Was, vars
<1> QED BY <1>1, <1>2, <1>3 DEF IInv

-----------------------------------------------------------------------------
(* The pass.                                                                *)

LEMMA MigratedTyped ==
    ASSUME Shown, NEW st \in LedgerType
    PROVE  Migrated(st) \in LedgerType
<1> DEFINE P == [n \in Nat |-> LedgerType]
<1>1. st \in P[0] /\ \A n \in Nat : \A s \in LedgerType : CarryOver(s, n + 1) \in P[n + 1]
  BY CarryOverTyped
<1> HIDE DEF P
<1> QED BY <1>1, MigrationInduct

\* The entries that turned from a GUID into a link once they were handled.
TurnedLink(a) == a \in hist.handled /\ IsLink(Now(a)) /\ ~IsLink(Was(a))

LEMMA SeenFields ==
    ASSUME Typed
    PROVE  /\ Seen \in [Lone -> SeenType]
           /\ \A a \in Lone : a \notin DOMAIN doc => Seen[a] = hist.seen[a]
           /\ \A a \in Lone : a \in DOMAIN doc =>
                /\ Seen[a].pick = Now(a)
                /\ Seen[a].stripped => hist.seen[a].stripped /\ ~TurnedLink(a)
<1> DEFINE flag(a) == hist.seen[a].stripped /\ ~TurnedLink(a)
<1>1. Seen = [a \in Lone |-> IF a \notin DOMAIN doc THEN hist.seen[a]
                             ELSE [pick |-> Now(a), stripped |-> flag(a)]]
  BY DEF Seen, TurnedLink
<1>2. \A a : flag(a) \in BOOLEAN
  OBVIOUS
<1>3. \A a : flag(a) => hist.seen[a].stripped /\ ~TurnedLink(a)
  OBVIOUS
<1>4. \A a \in Lone : hist.seen[a] \in SeenType
  BY DEF Typed, HistType
<1>5. \A a \in DOMAIN doc : Now(a) \in AllPicks
  BY ShownPicks DEF Typed, AllPicks
<1> HIDE DEF flag
<1>6. ASSUME NEW a \in Lone PROVE Seen[a] \in SeenType
  BY <1>1, <1>2, <1>4, <1>5 DEF SeenType
<1>7. \A a \in Lone : a \in DOMAIN doc =>
         Seen[a].pick = Now(a) /\ Seen[a].stripped = flag(a)
  BY <1>1
<1>8. \A a \in Lone : a \notin DOMAIN doc => Seen[a] = hist.seen[a]
  BY <1>1
<1>9. Seen \in [Lone -> SeenType]
  BY <1>1, <1>6
<1>10. \A a \in Lone : a \in DOMAIN doc =>
         /\ Seen[a].pick = Now(a)
         /\ Seen[a].stripped => hist.seen[a].stripped /\ ~TurnedLink(a)
  <2> TAKE a \in Lone
  <2> HAVE a \in DOMAIN doc
  <2>1. Seen[a].pick = Now(a) /\ Seen[a].stripped = flag(a)
    BY <1>7
  <2> QED BY <1>3, <2>1
<1> QED BY <1>8, <1>9, <1>10

Unrecognized == {a \in Lone \intersect DOMAIN doc : ~Recognizable(a)}
FoundSent(st) == {a \in DOMAIN doc : Sent(st, a)}

LEMMA BeginFields ==
    ASSUME Typed, Begin
    PROVE  /\ status' = Migrated(status) /\ status' \in LedgerType
           /\ hist' \in HistType
           /\ hist'.handled = hist.handled /\ hist'.repeated = hist.repeated
           /\ hist'.taken = hist.taken \union FoundSent(status')
           /\ hist'.marker = IF Resume(status'.mark) = NoArticle THEN hist.marker
                             ELSE Resume(status'.mark)
           /\ hist'.seen = Seen
           /\ hist'.renamed = hist.renamed \union Unrecognized
<1> DEFINE found == Resume(status'.mark)
           marker == IF found = NoArticle THEN hist.marker ELSE found
           taken == hist.taken \union FoundSent(status')
           renamed == hist.renamed \union Unrecognized
           seen == Seen
<1>1. status' = Migrated(status) /\ status' \in LedgerType
  BY MigratedTyped DEF Begin, Typed
<1>2. marker \in Articles \union {NoArticle}
  <2> DEFINE mark == status'.mark
  <2>1. Resume(mark) # NoArticle => Resume(mark) \in DOMAIN doc
    <3> HIDE DEF mark
    <3> QED BY FoundNamed DEF Typed
  <2> QED BY <2>1 DEF Typed, Shown, HistType
<1>3. taken \in SUBSET Articles /\ renamed \in SUBSET Articles
  BY DEF Typed, Shown, HistType, FoundSent, Unrecognized
<1>4. seen \in [Lone -> SeenType]
  BY SeenFields
<1>5. hist' = [hist EXCEPT !.taken = taken, !.marker = marker, !.seen = seen,
                           !.renamed = renamed]
  BY DEF Begin, FoundSent, Unrecognized
<1> HIDE DEF marker, taken, renamed, seen
<1>6. hist \in HistType
  BY DEF Typed
<1>7. /\ hist'.handled = hist.handled /\ hist'.repeated = hist.repeated
      /\ hist'.taken = taken /\ hist'.marker = marker
      /\ hist'.seen = seen /\ hist'.renamed = renamed
  BY ONLY <1>5, <1>6 DEF HistType
<1>8. hist' \in HistType
  BY ONLY <1>2, <1>3, <1>4, <1>5, <1>6 DEF HistType
<1> QED BY <1>1, <1>7, <1>8 DEF marker, taken, renamed, seen

LEMMA BeginOriginated == IInv /\ Begin => Originated'
<1> SUFFICES ASSUME IInv, Begin, NEW k \in status'.sent PROVE OfAny(k, hist'.taken)
  BY DEF Originated, OfAny, Stands
<1>1. Shown /\ status \in LedgerType /\ \A x \in status.sent : OfAny(x, hist.taken)
  BY DEF IInv, Typed, Originated
<1>2. /\ status' = Migrated(status)
      /\ hist'.taken = hist.taken \union FoundSent(status')
  BY BeginFields DEF IInv
<1>3. Sources(status'.sent, hist.taken, Last)
  BY <1>1, <1>2, MigratedSources
<1>4. CASE OfAny(k, hist.taken)
  BY <1>2, <1>4 DEF OfAny
<1>5. CASE \E c \in 1..Last : Carried(k, c)
  <2>1. PICK c \in DOMAIN doc : k \in Keys(c)
    BY <1>5 DEF Carried
  <2>2. Stands(k, c)
    BY <1>1, <2>1, OwnKeys
  <2>3. c \in FoundSent(status')
    BY <2>1 DEF FoundSent, Sent
  <2> QED BY <1>2, <2>2, <2>3 DEF OfAny
<1> QED BY <1>3, <1>4, <1>5 DEF Sources

LEMMA BeginMarks == IInv /\ Begin => Marked'
<1> SUFFICES ASSUME IInv, Begin PROVE Marked'
  OBVIOUS
<1> DEFINE found == Resume(Migrated(status).mark)
<1>1. Shown /\ status \in LedgerType
  BY DEF IInv, Typed
<1>2. status.mark = NoMark \/ (hist.marker \in Articles /\ Names(status.mark, hist.marker))
  BY DEF IInv, Marked
<1>3. /\ status' = Migrated(status)
      /\ hist'.marker = IF found = NoArticle THEN hist.marker ELSE found
  <2>1. /\ status' = Migrated(status)
        /\ hist'.marker = IF Resume(status'.mark) = NoArticle THEN hist.marker
                          ELSE Resume(status'.mark)
    BY BeginFields DEF IInv
  <2> QED BY <2>1
<1> DEFINE marker == IF found = NoArticle THEN hist.marker ELSE found
<1>4. \/ Migrated(status).mark = NoMark
      \/ marker \in Articles /\ Names(Migrated(status).mark, marker)
  BY <1>1, <1>2, BeginMarked
<1> HIDE DEF found
<1> QED BY <1>3, <1>4 DEF Marked, Names

LEMMA BeginFollowed == IInv /\ Begin => Followed'
<1> SUFFICES ASSUME IInv, Begin PROVE Followed'
  OBVIOUS
<1>1. Typed /\ Shown /\ status \in LedgerType
  BY DEF IInv, Typed
<1>2. doc' = doc /\ \A a : Now(a)' = Now(a) /\ Was(a)' = Was(a)
  BY DEF Begin, Now, Was
<1>3. status' = Migrated(status) /\ hist'.seen = Seen
  BY <1>1, BeginFields
<1>4. ASSUME NEW a \in Lone \intersect DOMAIN doc
      PROVE  /\ status'.mark = Identity(Was(a)) => Identity(Was(a)) = Identity(Now(a))
             /\ Seen[a].pick = Now(a)
  BY <1>1, <1>3, LoneMigratedMark, SeenFields
<1> QED BY <1>2, <1>3, <1>4 DEF Followed

\* The record of an article the pass's document does not show.
LEMMA BeginAbsent ==
    ASSUME Shown, NEW a \in Lone, a \notin DOMAIN doc, NEW st \in LedgerType,
           NEW last \in Picks(a)
    PROVE  /\ KeptAs(st.sent, last) => KeptAs(Migrated(st).sent, last)
           /\ KeptLink(st.sent, last) => KeptLink(Migrated(st).sent, last)
<1>1. /\ Stands(EntryKey(Identity(last)), a)
      /\ IsLink(last) => Stands(StrippedKey(Stripped(last)), a)
  BY DEF Stands
<1> QED BY <1>1, LoneAbsent DEF KeptAs, KeptLink

LEMMA BeginRecorded == IInv /\ Begin => Recorded'
<1> SUFFICES ASSUME IInv, Begin PROVE Recorded'
  OBVIOUS
<1>1. Typed /\ Shown /\ status \in LedgerType
  BY DEF IInv, Typed
<1>2. /\ status' = Migrated(status) /\ hist'.handled = hist.handled /\ hist'.seen = Seen
      /\ hist'.renamed = hist.renamed \union Unrecognized
  BY <1>1, BeginFields
<1>3. ASSUME NEW a \in (Lone \intersect hist.handled) \ hist'.renamed
      PROVE  /\ Seen[a].pick \in Picks(a)
             /\ KeptAs(Migrated(status).sent, Seen[a].pick)
             /\ Seen[a].stripped => KeptLink(Migrated(status).sent, Seen[a].pick)
  <2> DEFINE last == hist.seen[a].pick
  <2>1. a \in Lone /\ a \in hist.handled /\ a \notin Unrecognized
    BY <1>2, <1>3
  <2>2. /\ last \in Picks(a) /\ KeptAs(status.sent, last)
        /\ hist.seen[a].stripped => KeptLink(status.sent, last)
    BY <1>2, <1>3 DEF IInv, Recorded
  <2>3. CASE a \notin DOMAIN doc
    <3>1. Seen[a] = hist.seen[a]
      BY <1>1, <2>1, <2>3, SeenFields
    <3> QED BY <1>1, <2>1, <2>2, <2>3, <3>1, BeginAbsent
  <2>4. CASE a \in DOMAIN doc
    <3>1. Recognizable(a)
      BY <2>1, <2>4 DEF Unrecognized
    <3>2. hist.seen[a] # Unseen
      <4>1. IsPick(last)
        BY <2>1, <2>2, PicksArePicks DEF Lone
      <4> QED BY <4>1 DEF IsPick, Unseen
    <3>3. PICK p \in {Now(a), Was(a)} :
            Identity(p) = Identity(last) \/ (hist.seen[a].stripped /\ Rotated(p, last))
      BY <3>1, <3>2 DEF Recognizable
    <3>4. Identity(p) = Identity(last) \/ (Rotated(p, last) /\ KeptLink(status.sent, last))
      BY <2>2, <3>3
    <3>5. KeepsRecord(status.sent, Migrated(status).sent, a)
      BY <1>1, <2>1, <2>4, LoneMigrated
    <3> HIDE DEF last
    <3>6. /\ KeptAs(Migrated(status).sent, Now(a))
          /\ KeptLink(status.sent, last) /\ (IsLink(Was(a)) \/ ~IsLink(Now(a)))
             => KeptLink(Migrated(status).sent, Now(a))
      BY <1>1, <2>1, <2>2, <2>4, <3>4, <3>5, LoneRecord
    <3>7. /\ Seen[a].pick = Now(a)
          /\ Seen[a].stripped => hist.seen[a].stripped /\ ~TurnedLink(a)
      BY <1>1, <2>1, <2>4, SeenFields
    <3>8. ~TurnedLink(a) => IsLink(Was(a)) \/ ~IsLink(Now(a))
      BY <2>1 DEF TurnedLink
    <3>9. Now(a) \in Picks(a)
      BY <1>1, <2>4, ShownPicks
    <3> QED BY <2>2, <3>6, <3>7, <3>8, <3>9
  <2> QED BY <2>3, <2>4
<1> QED BY <1>2, <1>3 DEF Recorded

LEMMA BeginKeeps == IInv /\ Begin => IInv'
<1> SUFFICES ASSUME IInv, Begin PROVE IInv'
  OBVIOUS
<1>1. Typed
  BY DEF IInv
<1>2. Typed'
  <2>1. Shown' /\ release' = release /\ pc' = "deliver" /\ todo' \subseteq DOMAIN doc'
    BY <1>1 DEF Typed, Shown, Begin
  <2>2. /\ status' \in LedgerType /\ hist' \in HistType
        /\ hist'.handled = hist.handled /\ hist'.repeated = hist.repeated
        /\ hist.taken \subseteq hist'.taken
    BY <1>1, BeginFields
  <2> QED BY <1>1, <2>1, <2>2 DEF Typed
<1>3. SentOnce'
  BY <1>1, BeginFields DEF IInv, SentOnce
<1> QED BY <1>2, <1>3, BeginOriginated, BeginMarks, BeginFollowed, BeginRecorded DEF IInv

\* The entry a send step sends, and what it makes of history.
SendsEntry(a) ==
    /\ a \in DOMAIN doc /\ ~Sent(status, a)
    /\ status' = MarkHandled(status, a)
    /\ todo' \subseteq todo
    /\ hist' \in HistType
    /\ hist'.handled = hist.handled \union {a} /\ hist'.taken = hist.taken \union {a}
    /\ hist'.marker = a
    /\ hist'.repeated = hist.repeated \union ({a} \intersect hist.handled \intersect Lone)
    /\ hist'.seen = hist.seen /\ hist'.renamed = hist.renamed
    /\ UNCHANGED <<doc, release, pc>>

LEMMA SendsOne ==
    ASSUME Typed, Sends
    PROVE  \E a : SendsEntry(a)
<1> DEFINE a == Min(Unsent)
<1>1. a \in Unsent
  <2>1. Unsent \in SUBSET Nat /\ Unsent # {}
    BY NumbersOfArticles DEF Unsent, Typed, Shown, Sends
  <2> QED BY <2>1, Least
<1>2. a \in DOMAIN doc /\ ~Sent(status, a) /\ a \in Articles
  BY <1>1 DEF Unsent, Typed, Shown
<1> DEFINE handled == hist.handled \union {a}
           taken == hist.taken \union {a}
           repeated == hist.repeated \union ({a} \intersect hist.handled \intersect Lone)
<1>3. /\ status' = MarkHandled(status, a) /\ todo' \subseteq todo
      /\ hist' = [hist EXCEPT !.handled = handled, !.taken = taken, !.marker = a,
                              !.repeated = repeated]
      /\ UNCHANGED <<doc, release, pc>>
  BY DEF Sends
<1>4. hist \in HistType
  BY DEF Typed
<1>5. /\ handled \in SUBSET Articles /\ taken \in SUBSET Articles
      /\ repeated \in SUBSET Articles
  BY <1>2, <1>4 DEF HistType
<1> HIDE DEF a, handled, taken, repeated
<1>6. /\ hist'.handled = handled /\ hist'.taken = taken /\ hist'.marker = a
      /\ hist'.repeated = repeated /\ hist'.seen = hist.seen /\ hist'.renamed = hist.renamed
  BY ONLY <1>3, <1>4 DEF HistType
<1>7. hist' \in HistType
  BY ONLY <1>2, <1>3, <1>4, <1>5 DEF HistType
<1> QED BY <1>2, <1>3, <1>6, <1>7 DEF SendsEntry, handled, taken, repeated

LEMMA SendsTyped ==
    ASSUME Typed, NEW a, SendsEntry(a)
    PROVE  Typed'
<1>1. status' = [mark |-> Identity(Now(a)), sent |-> status.sent \union Keys(a)]
  BY DEF SendsEntry, MarkHandled
<1>2. Identity(Now(a)) \in Urls /\ Keys(a) \subseteq AllKeys
  BY KeysTyped DEF SendsEntry, Typed
<1>3. status' \in LedgerType
  BY <1>1, <1>2 DEF Typed, LedgerType
<1>4. Shown'
  BY DEF SendsEntry, Typed, Shown
<1>5. hist'.repeated \subseteq hist'.handled /\ hist'.handled \subseteq hist'.taken
  BY DEF SendsEntry, Typed
<1>6. pc' = "idle" => todo' = {}
  BY DEF SendsEntry, Typed
<1> QED BY <1>3, <1>4, <1>5, <1>6 DEF Typed, SendsEntry

\* An article nobody shares a URL with that was sent and could be recognized
\* is found in the ledger.
LEMMA KeptIsSent ==
    ASSUME IInv, pc = "deliver", NEW a \in Lone \intersect DOMAIN doc,
           a \in hist.handled, a \notin hist.renamed
    PROVE  Sent(status, a)
<1>1. Shown /\ hist.seen[a].pick = Now(a) /\ KeptAs(status.sent, hist.seen[a].pick)
  BY DEF IInv, Typed, Followed, Recorded
<1>2. CASE EntryKey(Identity(Now(a))) \in status.sent
  BY <1>2 DEF Sent, Keys
<1>3. CASE IsLink(Now(a)) /\ StrippedKey(Stripped(Now(a))) \in status.sent
  <2>1. Unique(a)
    BY <1>1, <1>3, LoneUnique
  <2> QED BY <1>3, <2>1 DEF Sent, Keys
<1> QED BY <1>1, <1>2, <1>3 DEF KeptAs

LEMMA SendsRecorded ==
    ASSUME IInv, pc = "deliver", NEW a, SendsEntry(a)
    PROVE  Recorded'
<1>1. Typed /\ Shown /\ a \in DOMAIN doc
  BY DEF IInv, Typed, SendsEntry
<1>2. status'.sent = status.sent \union Keys(a)
  BY DEF SendsEntry, MarkHandled
<1>3. ASSUME NEW b \in (Lone \intersect hist'.handled) \ hist'.renamed
      PROVE  /\ hist.seen[b].pick \in Picks(b)
             /\ KeptAs(status'.sent, hist.seen[b].pick)
             /\ hist.seen[b].stripped => KeptLink(status'.sent, hist.seen[b].pick)
  <2>1. CASE b = a
    <3>1. hist.seen[b].pick = Now(a) /\ Now(a) \in Picks(a)
      BY <1>1, <1>3, <2>1, ShownPicks DEF IInv, Followed
    <3>2. IsLink(Now(a)) => Unique(a)
      BY <1>1, <1>3, <2>1, LoneUnique
    <3>3. /\ EntryKey(Identity(Now(a))) \in status'.sent
          /\ IsLink(Now(a)) => StrippedKey(Stripped(Now(a))) \in status'.sent
      BY <1>2, <3>2 DEF Keys
    <3> QED BY <2>1, <3>1, <3>3 DEF KeptAs, KeptLink
  <2>2. CASE b # a
    <3>1. b \in (Lone \intersect hist.handled) \ hist.renamed
      BY <1>3, <2>2 DEF SendsEntry
    <3>2. /\ hist.seen[b].pick \in Picks(b)
          /\ KeptAs(status.sent, hist.seen[b].pick)
          /\ hist.seen[b].stripped => KeptLink(status.sent, hist.seen[b].pick)
      BY <3>1 DEF IInv, Recorded
    <3> QED BY <1>2, <3>2 DEF KeptAs, KeptLink
  <2> QED BY <2>1, <2>2
<1> QED BY <1>3 DEF Recorded, SendsEntry

LEMMA SendsKeeps == IInv /\ Sends => IInv'
<1> SUFFICES ASSUME IInv, Sends PROVE IInv'
  OBVIOUS
<1>1. Typed /\ Shown /\ pc = "deliver"
  BY DEF IInv, Typed, Sends
<1>2. PICK a : SendsEntry(a)
  BY <1>1, SendsOne
<1>3. /\ a \in DOMAIN doc
      /\ status' = [mark |-> Identity(Now(a)), sent |-> status.sent \union Keys(a)]
      /\ hist'.taken = hist.taken \union {a} /\ hist'.marker = a
  BY <1>2 DEF SendsEntry, MarkHandled
<1>4. Originated'
  <2> SUFFICES ASSUME NEW k \in status'.sent PROVE OfAny(k, hist'.taken)
    BY DEF Originated, OfAny, Stands
  <2>1. CASE k \in status.sent
    BY <1>3, <2>1 DEF IInv, Originated, OfAny
  <2>2. CASE k \in Keys(a)
    BY <1>1, <1>3, <2>2, OwnKeys DEF OfAny
  <2> QED BY <1>3, <2>1, <2>2
<1>5. Marked'
  <2>1. a \in Articles /\ Names(Identity(Now(a)), a)
    BY <1>1, <1>3, ShownPicks DEF Names
  <2> QED BY <1>3, <2>1 DEF Marked, Names
<1>6. Followed'
  <2>1. doc' = doc /\ (\A b : Now(b)' = Now(b) /\ Was(b)' = Was(b)) /\ hist'.seen = hist.seen
    BY <1>2 DEF SendsEntry, Now, Was
  <2>2. ASSUME NEW b \in Lone \intersect DOMAIN doc, Identity(Now(a)) = Identity(Was(b))
        PROVE  Identity(Was(b)) = Identity(Now(b))
    <3>1. a = b
      BY <1>1, <1>3, <2>2, ShownPicks, LoneAlone
    <3> QED BY <2>2, <3>1
  <2>3. \A b \in Lone \intersect DOMAIN doc : hist.seen[b].pick = Now(b)
    BY <1>1 DEF IInv, Followed
  <2>4. status'.mark = Identity(Now(a))
    BY <1>3
  <2> QED BY <2>1, <2>2, <2>3, <2>4 DEF Followed
<1>7. SentOnce'
  <2>1. /\ hist'.repeated = hist.repeated \union ({a} \intersect hist.handled \intersect Lone)
        /\ hist'.renamed = hist.renamed /\ ~Sent(status, a)
    BY <1>2 DEF SendsEntry
  <2>2. a \in hist.handled /\ a \in Lone => a \in hist.renamed
    BY <1>1, <1>3, <2>1, KeptIsSent
  <2> QED BY <2>1, <2>2 DEF IInv, SentOnce
<1> QED BY <1>1, <1>2, <1>4, <1>5, <1>6, <1>7, SendsTyped, SendsRecorded DEF IInv

LEMMA NextIInv == IInv /\ [Next]_vars => IInv'
BY ShowKeeps, WithdrawKeeps, UpgradeKeeps, BeginKeeps, SendsKeeps, ClosesKeeps, StutterKeeps
   DEF Next

LEMMA Invariant == Spec => []IInv
BY InitIInv, NextIInv, PTL DEF Spec

-----------------------------------------------------------------------------
(* Theorems.                                                                *)

\* Keys and watermark are made of the feed's own URLs, and history counts the
\* articles sent among those taken as sent.
THEOREM TypeCorrect == Spec => []TypeOK
<1>1. IInv => TypeOK
  <2> SUFFICES ASSUME IInv PROVE TypeOK
    OBVIOUS
  <2>1. /\ status.mark \in Urls \union {NoMark} /\ status.sent \subseteq AllKeys
        /\ hist.taken \subseteq Articles
    BY DEF IInv, Typed, LedgerType, HistType
  <2>2. /\ hist.repeated \subseteq hist.handled /\ hist.handled \subseteq hist.taken
        /\ release \in {"earlier", "current"} /\ pc \in {"idle", "deliver"}
        /\ todo \subseteq DOMAIN doc /\ Shown
    BY DEF IInv, Typed
  <2>3. /\ Urls = {Identity(pick) : pick \in UNION {Picks(a) : a \in Articles}}
        /\ AllKeys = {EntryKey(url) : url \in Urls} \union
                     {StrippedKey(base) : base \in {WithoutTail(url) : url \in Urls}}
    BY DEF Urls, AllPicks, AllKeys
  <2> QED BY <2>1, <2>2, <2>3, Zenon DEF TypeOK, Shown
<1> QED BY Invariant, <1>1, PTL

\* However identities are shared, rotate and migrate, an article is taken as
\* sent only for one that was, and that the document does not set beside it as
\* another (ledger.go:100-103, 246-292, 340-371).
THEOREM ApartCorrect == Spec => []SiblingsToldApart
<1>1. IInv => SiblingsToldApart
  <2> SUFFICES ASSUME IInv, NEW a \in PassedOver \ hist.taken, ~MovedOn(a)
               PROVE  \E b \in hist.taken : TakenFor(a, b)
    BY DEF SiblingsToldApart
  <2>1. /\ Shown /\ status \in LedgerType /\ a \in DOMAIN doc /\ Sent(Ledger, a)
        /\ \A k \in status.sent : OfAny(k, hist.taken)
    BY DEF IInv, Typed, Originated, PassedOver
  <2>2. CASE Ledger = Migrated(status)
    BY <2>1, <2>2, MigratedApart
  <2>3. CASE Ledger = status
    <3>1. PICK k \in Keys(a) : k \in status.sent
      BY <2>1, <2>3 DEF Sent
    <3>2. PICK b \in hist.taken : Stands(k, b)
      BY <2>1, <3>1 DEF OfAny
    <3> QED BY <2>1, <3>1, <3>2, FoundFor
  <2> QED BY <2>2, <2>3 DEF Ledger
<1> QED BY Invariant, <1>1, PTL

\* An article that shares no URL is sent once while each fetch shows it as it
\* was identified before, through every rotation and every change of the ID the
\* parser picks (ledger.go:426-450, identity_migration.go:31-50).
THEOREM SentOnceCorrect == Spec => []SentOnce
<1>1. IInv => SentOnce
  BY DEF IInv
<1> QED BY Invariant, <1>1, PTL

\* The watermark passes from an article to its like only, in the lookup and in
\* the migration (ledger.go:310-338, 373-391).
THEOREM MarkCorrect == Spec => []MarkIsNotTaken
<1>1. IInv => MarkIsNotTaken
  <2> SUFFICES ASSUME IInv, Resume(Ledger.mark) # NoArticle
               PROVE  LooksLike(Resume(Ledger.mark), hist.marker)
    BY DEF MarkIsNotTaken
  <2>1. Shown /\ status \in LedgerType
    BY DEF IInv, Typed
  <2>2. Ledger = Migrated(status) \/ Ledger = status
    BY DEF Ledger
  <2>3. CASE status.mark = NoMark
    BY <2>1, <2>2, <2>3, NoMarkFindsNone
  <2>4. CASE hist.marker \in Articles /\ Names(status.mark, hist.marker)
    BY <2>1, <2>2, <2>4, MigratedAlike, FoundAlike
  <2> QED BY <2>3, <2>4 DEF IInv, Marked
<1> QED BY Invariant, <1>1, PTL

\* The watermark of an article that shares no URL is found when it is shown
\* under that identity, as its previous one too, or with another fragment: the
\* feed does not fall back to the catch-up cap (identity_migration.go:34-36).
THEOREM FollowsCorrect == Spec => []MarkFollowsItsArticle
<1>1. IInv => MarkFollowsItsArticle
  <2> SUFFICES ASSUME IInv, NEW a \in Lone \intersect DOMAIN doc, NamesNow(status.mark, a)
               PROVE  Resume(Ledger.mark) = a
    BY DEF MarkFollowsItsArticle, NamesNow
  <2>1. Shown /\ status \in LedgerType
    BY DEF IInv, Typed
  <2>2. CASE pc = "idle"
    BY <2>1, <2>2, LoneMigratedFound DEF Ledger
  <2>3. CASE pc = "deliver"
    <3>1. status.mark = Identity(Was(a)) => Identity(Was(a)) = Identity(Now(a))
      BY <2>3 DEF IInv, Followed
    <3> QED BY <2>1, <2>3, <3>1, LoneStillFound DEF Ledger
  <2> QED BY <2>2, <2>3 DEF IInv, Typed
<1> QED BY Invariant, <1>1, PTL
=============================================================================
