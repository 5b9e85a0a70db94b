------------------------------ MODULE Delivery ------------------------------
(***************************************************************************)
(* What the delivery of one feed promises, whatever windows, watermarks,   *)
(* plans and caps it is made of: an entry is dealt with once, and only the *)
(* loss of a record can make it come again.                                *)
(*                                                                         *)
(* A pass holds what it handled until its status is written.  FeedSync     *)
(* implements this specification (FeedSync!DeliversOnce).                  *)
(***************************************************************************)
EXTENDS Naturals, TLAPS

CONSTANT Entries

VARIABLES
    posts,     \* how many messages Discord has of each entry
    recorded,  \* the entries recorded as handled, for good
    held,      \* the entries handled in this pass, not recorded yet
    lost       \* how often a record or an answer was lost

vars == <<posts, recorded, held, lost>>

Init ==
    /\ posts = [e \in Entries |-> 0]
    /\ recorded = {} /\ held = {}
    /\ lost = 0

Open(e) == e \notin recorded \union held

Posted(e) == posts' = [posts EXCEPT ![e] = @ + 1]

Post(e) ==
    /\ Open(e) /\ Posted(e)
    /\ held' = held \union {e}
    /\ UNCHANGED <<recorded, lost>>

\* An entry that cannot be rendered is given up on.
GiveUp(e) ==
    /\ Open(e)
    /\ held' = held \union {e}
    /\ UNCHANGED <<posts, recorded, lost>>

Commit ==
    /\ recorded' = recorded \union held /\ held' = {}
    /\ UNCHANGED <<posts, lost>>

\* The answer to a post is lost: the pass takes it for a failure, and stops.
Misfire(e) ==
    /\ Open(e) /\ Posted(e)
    /\ recorded' = recorded \union held /\ held' = {}
    /\ lost' = lost + 1

\* The pass is lost before its status is written.
Lose ==
    /\ held' = {} /\ lost' = lost + 1
    /\ UNCHANGED <<posts, recorded>>

Next ==
    \/ \E e \in Entries : Post(e) \/ GiveUp(e) \/ Misfire(e)
    \/ Commit \/ Lose

Spec == Init /\ [][Next]_vars

-----------------------------------------------------------------------------
TypeOK ==
    /\ posts \in [Entries -> Nat]
    /\ recorded \subseteq Entries /\ held \subseteq Entries
    /\ lost \in Nat

\* Discord has at most one message of an entry, and one more per lost record.
RepeatsAreLosses == \A e \in Entries : posts[e] <= 1 + lost

\* What is open has no message but those whose record was lost.
OpenPostsLost == \A e \in Entries : Open(e) => posts[e] <= lost

-----------------------------------------------------------------------------
(* Proofs: the bound every delivery keeps that implements this one.  It is *)
(* not inductive alone, for an entry may be posted again from any state    *)
(* that has it open: an open entry's messages are all lost ones.           *)

IInv == TypeOK /\ OpenPostsLost /\ RepeatsAreLosses

LEMMA InitIInv == Init => IInv
BY DEF Init, IInv, TypeOK, OpenPostsLost, RepeatsAreLosses, Open

\* A message is added to an open entry only, and leaves it open only together
\* with one more loss.
LEMMA PostKeeps ==
    ASSUME NEW e \in Entries, IInv, Post(e) \/ Misfire(e)
    PROVE  IInv'
<1>. USE DEF IInv, Open
<1>1. /\ posts[e] <= lost
      /\ posts' = [posts EXCEPT ![e] = @ + 1]
  BY DEF OpenPostsLost, Post, Misfire, Posted
<1>2. TypeOK'
  BY <1>1 DEF TypeOK, Post, Misfire
<1>3. lost' \in Nat /\ lost \in Nat /\ lost <= lost'
  BY DEF TypeOK, Post, Misfire
<1>4. \A f \in Entries : posts'[f] = (IF f = e THEN posts[f] + 1 ELSE posts[f])
                         /\ posts[f] \in Nat
  BY <1>1 DEF TypeOK
<1>5. RepeatsAreLosses'
  BY <1>1, <1>3, <1>4 DEF RepeatsAreLosses
<1>6. OpenPostsLost'
  <2>1. SUFFICES ASSUME NEW f \in Entries, Open(f)'
                 PROVE  posts'[f] <= lost'
    BY DEF OpenPostsLost
  <2>2. Open(f)
    BY <2>1 DEF Post, Misfire
  <2>3. posts[f] <= lost
    BY <2>2 DEF OpenPostsLost
  <2>4. CASE Post(e)
    BY <2>1, <2>3, <2>4, <1>3, <1>4 DEF Post
  <2>5. CASE Misfire(e)
    BY <2>3, <2>5, <1>4 DEF Misfire, TypeOK
  <2>. QED BY <2>4, <2>5
<1>. QED BY <1>2, <1>5, <1>6

\* The other steps add no message, and open nothing again without a loss.
LEMMA OtherStepsKeep ==
    ASSUME IInv,
           (\E e \in Entries : GiveUp(e)) \/ Commit \/ Lose \/ UNCHANGED vars
    PROVE  IInv'
<1>. USE DEF IInv, Open
<1>1. CASE \E e \in Entries : GiveUp(e)
  BY <1>1 DEF GiveUp, TypeOK, OpenPostsLost, RepeatsAreLosses
<1>2. CASE Commit
  BY <1>2 DEF Commit, TypeOK, OpenPostsLost, RepeatsAreLosses
<1>3. CASE Lose
  <2>1. /\ posts' = posts /\ recorded' = recorded
        /\ held' = {} /\ lost' = lost + 1
        /\ \A e \in Entries : posts[e] \in Nat /\ posts[e] <= 1 + lost
    BY <1>3 DEF Lose, TypeOK, RepeatsAreLosses
  <2>. QED BY <2>1 DEF TypeOK, OpenPostsLost, RepeatsAreLosses
<1>4. CASE UNCHANGED vars
  BY <1>4 DEF vars, TypeOK, OpenPostsLost, RepeatsAreLosses
<1>. QED BY <1>1, <1>2, <1>3, <1>4

LEMMA NextIInv == IInv /\ [Next]_vars => IInv'
BY PostKeeps, OtherStepsKeep DEF Next

\* However often passes are lost and retried, Discord has at most one message
\* of an entry more than there were losses: what entryDelivery.run and settle
\* owe the channel (delivery.go:86-134, settle.go:61-86).
THEOREM RepeatsOnlyByLoss == Spec => []RepeatsAreLosses
<1>1. IInv => RepeatsAreLosses
  BY DEF IInv
<1>. QED BY InitIInv, NextIInv, <1>1, PTL DEF Spec
=============================================================================
