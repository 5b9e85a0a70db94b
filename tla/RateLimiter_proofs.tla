------------------------- MODULE RateLimiter_proofs -------------------------
(***************************************************************************)
(* Proofs about RateLimiter, for any number of senders, any limits and any *)
(* waits.  The invariant relates the limiter to the history: the cooldown  *)
(* outlasts every wait asked for, so that no sender reserves during one,   *)
(* and a sender that waits sleeps as long as the pacing it read.           *)
(***************************************************************************)
EXTENDS RateLimiter, TLAPS

(* The larger and the smaller of two numbers. *)
LEMMA MaxOfTwo ==
    ASSUME NEW a \in Int, NEW b \in Int
    PROVE  /\ Max({a, b}) \in {a, b} /\ Max({a, b}) >= a /\ Max({a, b}) >= b
<1>1. \E x \in {a, b} : \A y \in {a, b} : x >= y
  <2>1. CASE a >= b
    BY <2>1
  <2>2. CASE b >= a
    BY <2>2
  <2> QED
    BY <2>1, <2>2
<1>2. /\ Max({a, b}) \in {a, b}
      /\ \A y \in {a, b} : Max({a, b}) >= y
  BY <1>1 DEF Max
<1> QED
  BY <1>2

LEMMA MinOfTwo ==
    ASSUME NEW a \in Int, NEW b \in Int
    PROVE  /\ Min({a, b}) \in {a, b} /\ Min({a, b}) <= a /\ Min({a, b}) <= b
<1>1. \E x \in {a, b} : \A y \in {a, b} : x <= y
  <2>1. CASE a <= b
    BY <2>1
  <2>2. CASE b <= a
    BY <2>2
  <2> QED
    BY <2>1, <2>2
<1>2. /\ Min({a, b}) \in {a, b}
      /\ \A y \in {a, b} : Min({a, b}) <= y
  BY <1>1 DEF Min
<1> QED
  BY <1>2

(* Time brings a deadline closer, and a deadline of zero stays. *)
LEMMA SoonerBound ==
    ASSUME NEW limit \in Nat, NEW deadline \in 0..limit
    PROVE  /\ Sooner(deadline) \in 0..limit
           /\ deadline = 0 => Sooner(deadline) = 0
<1>1. 0 \in Int /\ deadline - 1 \in Int
  OBVIOUS
<1>2. Sooner(deadline) \in {0, deadline - 1} /\ Sooner(deadline) >= 0
      /\ Sooner(deadline) >= deadline - 1
  BY ONLY <1>1, MaxOfTwo DEF Sooner
<1> QED
  BY <1>2

(* A deadline moves to a wait within the limit, and not closer. *)
LEMMA LaterBound ==
    ASSUME NEW limit \in Nat, NEW deadline \in 0..limit, NEW wait \in 0..limit
    PROVE  Later(deadline, wait) \in 0..limit
<1>1. deadline \in Int /\ wait \in Int
  OBVIOUS
<1>2. Later(deadline, wait) \in {deadline, wait}
  BY ONLY <1>1, MaxOfTwo DEF Later
<1> QED
  BY <1>2

-----------------------------------------------------------------------------
(* The pacing is the longest wait asked for, and what a sender sleeps is what *)
(* it owes.                                                                    *)
Paced == empty = pacing /\ owed = sleep

(* No wait asked of everyone outlasts the cooldown. *)
Covered == \A wait \in asked : wait <= cooldown

(* A sender that is past its reservation has slept, and if a wait is running it *)
(* had reserved before the wait was asked for.                                  *)
AwakeWhenReserved ==
    \A s \in Senders : pc[s] \in {"reserved", "posting"} => sleep[s] = 0
ReservedAhead ==
    \A s \in Senders : pc[s] = "reserved" /\ asked # {} => s \in ahead

IInv == TypeOK /\ Paced /\ Covered /\ AwakeWhenReserved /\ ReservedAhead

(* The cooldown's part of the invariant and the pacing's. *)
Cooling ==
    /\ cooldown \in 0..MaxCooldown /\ asked \subseteq 1..MaxCooldown
    /\ ahead \subseteq Senders
    /\ Covered /\ ReservedAhead
Pacing ==
    /\ pacing \in 0..MaxPaceWait /\ empty = pacing

LEMMA InitInvariant == Init => IInv
  BY LimiterAssumption
     DEF Init, IInv, TypeOK, Paced, Covered, AwakeWhenReserved, ReservedAhead, Zero

(* A sender that is done no longer sleeps or owes anything. *)
LEMMA AnsweredStep ==
    ASSUME IInv, NEW s \in Senders, Answered(s)
    PROVE  /\ pc' \in [Senders -> {"idle", "asleep", "reserved", "posting"}]
           /\ sleep' \in [Senders -> 0..MaxPaceWait] /\ owed' \in [Senders -> 0..MaxPaceWait]
           /\ owed' = sleep'
           /\ AwakeWhenReserved'
           /\ \A r \in Senders : pc'[r] = "reserved" => pc[r] = "reserved"
<1>1. /\ pc \in [Senders -> {"idle", "asleep", "reserved", "posting"}]
      /\ sleep \in [Senders -> 0..MaxPaceWait]
      /\ owed = sleep /\ AwakeWhenReserved
  BY DEF IInv, TypeOK, Paced
<1>2. pc[s] = "posting" /\ sleep[s] = 0 /\ sleep' = sleep
      /\ pc' = [pc EXCEPT ![s] = "idle"] /\ owed' = [owed EXCEPT ![s] = 0]
  BY <1>1 DEF Answered, AwakeWhenReserved
<1>3. owed' = sleep'
  BY <1>1, <1>2
<1> QED
  BY <1>1, <1>2, <1>3, LimiterAssumption DEF AwakeWhenReserved

(* A response's wait moves the cooldown to cover it, and only the senders that *)
(* have reserved by then are ahead of it.                                      *)
LEMMA CoolsDownStep ==
    ASSUME IInv, NEW wait \in Waits, CoolsDown(wait),
           \A r \in Senders : pc'[r] = "reserved" => pc[r] = "reserved"
    PROVE  Cooling' /\ pacing' = pacing /\ empty' = empty
<1>1. /\ wait \in Nat /\ MaxCooldown \in Nat /\ cooldown \in 0..MaxCooldown
      /\ asked \subseteq 1..MaxCooldown /\ ahead \subseteq Senders
      /\ Covered /\ ReservedAhead
  BY LimiterAssumption DEF IInv, TypeOK
<1> DEFINE bounded == Min({wait, MaxCooldown})
<1>2. bounded \in 0..MaxCooldown
  <2>1. wait \in Int /\ MaxCooldown \in Int
    BY <1>1
  <2>2. bounded \in {wait, MaxCooldown} /\ bounded <= MaxCooldown
    BY ONLY <2>1, MinOfTwo
  <2> QED
    BY <1>1, <2>2
<1>3. /\ cooldown' = Later(cooldown, bounded)
      /\ asked' = (asked \union {bounded}) \ {0}
      /\ ahead' = IF asked = {} /\ asked' # {}
                  THEN {s \in Senders : pc[s] = "reserved"} ELSE ahead
      /\ pacing' = pacing /\ empty' = empty
  BY DEF CoolsDown, AsksAll, Bounded
<1> HIDE DEF bounded
<1>4. cooldown' \in 0..MaxCooldown /\ cooldown' >= cooldown /\ cooldown' >= bounded
  <2>1. cooldown \in Int /\ bounded \in Int
    BY <1>1, <1>2
  <2>2. Later(cooldown, bounded) >= cooldown /\ Later(cooldown, bounded) >= bounded
    BY ONLY <2>1, MaxOfTwo DEF Later
  <2> QED
    BY <1>1, <1>2, <1>3, <2>2, LaterBound
<1>5. asked' \subseteq 1..MaxCooldown /\ ahead' \subseteq Senders
  <2>1. bounded # 0 => bounded \in 1..MaxCooldown
    BY <1>1, <1>2
  <2>2. asked' \subseteq 1..MaxCooldown
    BY <2>1, <1>1, <1>3
  <2>3. {s \in Senders : pc[s] = "reserved"} \subseteq Senders
    OBVIOUS
  <2>4. ahead' \subseteq Senders
    BY <2>3, <1>1, <1>3
  <2> QED
    BY <2>2, <2>4
<1>6. Covered'
  <2> SUFFICES ASSUME NEW w \in asked' PROVE w <= cooldown'
    BY DEF Covered
  <2>1. CASE w = bounded
    BY <2>1, <1>4
  <2>2. CASE w \in asked
    BY <2>2, <1>1, <1>4 DEF Covered
  <2> QED
    BY <2>1, <2>2, <1>3
<1>7. ReservedAhead'
  <2> SUFFICES ASSUME NEW s \in Senders, pc'[s] = "reserved", asked' # {}
               PROVE  s \in ahead'
    BY DEF ReservedAhead
  <2>1. pc[s] = "reserved"
    OBVIOUS
  <2>2. CASE asked = {}
    BY <2>1, <2>2, <1>3
  <2>3. CASE asked # {}
    BY <2>1, <2>3, <1>1, <1>3 DEF ReservedAhead
  <2> QED
    BY <2>2, <2>3
<1> QED
  BY <1>3, <1>4, <1>5, <1>6, <1>7 DEF Cooling

(* Time shortens the waits with the cooldown that covers them. *)
LEMMA TickCools ==
    ASSUME IInv, Tick
    PROVE  Cooling'
<1>1. /\ cooldown \in 0..MaxCooldown /\ asked \subseteq 1..MaxCooldown
      /\ ahead \subseteq Senders /\ MaxCooldown \in Nat
      /\ Covered /\ ReservedAhead
  BY LimiterAssumption DEF IInv, TypeOK
<1>2. /\ cooldown' = Sooner(cooldown)
      /\ asked' = {wait - 1 : wait \in asked} \ {0}
      /\ ahead' = IF asked' = {} THEN {} ELSE ahead
      /\ pc' = pc
  BY DEF Tick
<1>3. cooldown' \in 0..MaxCooldown /\ cooldown' >= cooldown - 1
  <2>1. 0 \in Int /\ cooldown - 1 \in Int
    BY <1>1
  <2>2. Sooner(cooldown) >= cooldown - 1
    BY ONLY <2>1, MaxOfTwo DEF Sooner
  <2> QED
    BY <1>1, <1>2, <2>2, SoonerBound
<1>4. \A w \in asked' : w + 1 \in asked /\ w \in 1..MaxCooldown
  BY <1>1, <1>2
<1>5. Covered'
  BY <1>1, <1>3, <1>4 DEF Covered
<1>6. ReservedAhead'
  <2>1. asked' # {} => asked # {}
    BY <1>4
  <2> QED
    BY <2>1, <1>1, <1>2 DEF ReservedAhead
<1> QED
  BY <1>1, <1>2, <1>3, <1>4, <1>5, <1>6 DEF Cooling

LEMMA StepInvariant == IInv /\ [Next]_vars => IInv'
<1> SUFFICES ASSUME IInv, [Next]_vars PROVE IInv'
  OBVIOUS
<1> USE LimiterAssumption
<1>t. /\ Cooling /\ Pacing /\ AwakeWhenReserved
      /\ pc \in [Senders -> {"idle", "asleep", "reserved", "posting"}]
      /\ {sleep, owed} \subseteq [Senders -> 0..MaxPaceWait] /\ owed = sleep
  BY DEF IInv, TypeOK, Paced, Cooling, Pacing
<1>w. /\ Cooling' /\ Pacing' /\ AwakeWhenReserved'
      /\ pc' \in [Senders -> {"idle", "asleep", "reserved", "posting"}]
      /\ {sleep', owed'} \subseteq [Senders -> 0..MaxPaceWait] /\ owed' = sleep'
      => IInv'
  BY DEF IInv, TypeOK, Paced, Cooling, Pacing
<1>1. CASE Tick
  <2>1. Cooling'
    BY <1>1, TickCools
  <2>2. Pacing'
    BY <1>1, <1>t, SoonerBound DEF Tick, Pacing
  <2>3. sleep' \in [Senders -> 0..MaxPaceWait] /\ owed' = sleep'
    <3>1. \A s \in Senders : Sooner(sleep[s]) \in 0..MaxPaceWait
      BY <1>t, SoonerBound
    <3> QED
      BY <1>1, <1>t, <3>1 DEF Tick
  <2>4. AwakeWhenReserved'
    <3> SUFFICES ASSUME NEW s \in Senders, pc[s] \in {"reserved", "posting"}
                 PROVE  Sooner(sleep[s]) = 0
      BY <1>1 DEF AwakeWhenReserved, Tick
    <3>1. sleep[s] = 0 /\ sleep[s] \in 0..MaxPaceWait
      BY <1>t DEF AwakeWhenReserved
    <3> QED
      BY <3>1, SoonerBound
  <2>5. pc' = pc
    BY <1>1 DEF Tick
  <2> QED
    BY <1>t, <1>w, <2>1, <2>2, <2>3, <2>4, <2>5
<1>2. ASSUME NEW s \in Senders, Waiting(s)
      PROVE  IInv'
  BY <1>2, <1>t, <1>w
     DEF Waiting, Cooling, Pacing, Covered, ReservedAhead, AwakeWhenReserved
<1>3. ASSUME NEW s \in Senders, Cancelled(s)
      PROVE  IInv'
  BY <1>3, <1>t, <1>w
     DEF Cancelled, Cooling, Pacing, Covered, ReservedAhead, AwakeWhenReserved
<1>4. ASSUME NEW s \in Senders, Reserves(s)
      PROVE  IInv'
  \* no wait is running: the cooldown would cover it
  <2>1. asked = {}
    BY <1>4, <1>t DEF Reserves, Cooling, Covered
  <2> QED
    BY <1>4, <2>1, <1>t, <1>w
       DEF Reserves, Awake, Cooling, Pacing, Covered, ReservedAhead, AwakeWhenReserved
<1>5. ASSUME NEW s \in Senders, IsRefused(s)
      PROVE  IInv'
  <2>1. owed' = sleep'
    BY <1>5, <1>t DEF IsRefused, Awake
  <2> QED
    BY <1>5, <1>t, <1>w, <2>1
       DEF IsRefused, Awake, Cooling, Pacing, Covered, ReservedAhead, AwakeWhenReserved
<1>6. ASSUME NEW s \in Senders, Posts(s)
      PROVE  IInv'
  BY <1>6, <1>t, <1>w
     DEF Posts, Cooling, Pacing, Covered, ReservedAhead, AwakeWhenReserved
<1>7. ASSUME NEW s \in Senders, IsAnswered(s)
      PROVE  IInv'
  BY <1>7, <1>t, <1>w, AnsweredStep DEF IsAnswered, Cooling, Pacing, Covered, ReservedAhead
<1>8. ASSUME NEW s \in Senders, NEW wait \in Waits, IsRateLimited(s, wait)
      PROVE  IInv'
  BY <1>8, <1>t, <1>w, AnsweredStep, CoolsDownStep DEF IsRateLimited, Pacing
<1>9. ASSUME NEW s \in Senders, NEW wait \in Waits, EmptiesBucket(s, wait)
      PROVE  IInv'
  <2>1. CASE Bounded(wait) > MaxPaceWait
    BY <1>9, <2>1, <1>t, <1>w, AnsweredStep, CoolsDownStep DEF EmptiesBucket, Pacing
  <2>2. CASE ~(Bounded(wait) > MaxPaceWait)
    <3>1. Bounded(wait) \in 0..MaxPaceWait
      <4>1. wait \in Nat /\ MaxCooldown \in Nat /\ MaxPaceWait \in Nat
        OBVIOUS
      <4>2. wait \in Int /\ MaxCooldown \in Int
        BY <4>1
      <4>3. Bounded(wait) \in {wait, MaxCooldown}
        BY ONLY <4>2, MinOfTwo DEF Bounded
      <4> QED
        BY <2>2, <4>1, <4>3
    <3>2. Pacing'
      <4>1. MaxPaceWait \in Nat /\ pacing \in 0..MaxPaceWait
        BY <1>t DEF Pacing
      <4>2. Later(pacing, Bounded(wait)) \in 0..MaxPaceWait
        BY <4>1, <3>1, LaterBound
      <4> QED
        BY <1>9, <2>2, <1>t, <4>2 DEF EmptiesBucket, Later, Bounded, Pacing
    <3>3. cooldown' = cooldown /\ asked' = asked /\ ahead' = ahead /\ Answered(s)
      BY <1>9, <2>2 DEF EmptiesBucket
    <3>4. Cooling'
      BY <3>3, <1>t, AnsweredStep DEF Cooling, Covered, ReservedAhead
    <3> QED
      BY <1>w, <3>2, <3>3, <3>4, AnsweredStep
  <2> QED
    BY <2>1, <2>2
<1>10. CASE UNCHANGED vars
  BY <1>10, <1>t, <1>w
     DEF vars, Cooling, Pacing, Covered, ReservedAhead, AwakeWhenReserved
<1> QED
  BY <1>1, <1>2, <1>3, <1>4, <1>5, <1>6, <1>7, <1>8, <1>9, <1>10 DEF Next

LEMMA Invariance == Spec => []IInv
  BY InitInvariant, StepInvariant, PTL DEF Spec

-----------------------------------------------------------------------------
(* No deadline of the limiter is ever further away than its limit, whatever  *)
(* waits the responses ask for.                                              *)
THEOREM DeadlinesBounded == Spec => []TypeOK
  BY Invariance, PTL DEF IInv

(* Only a sender that has reserved begins a post. *)
LEMMA OnlyReservedPost ==
    ASSUME IInv, [Next]_vars, NEW s \in Senders, BeginsPost(s)
    PROVE  Posts(s)
<1>t. pc \in [Senders -> {"idle", "asleep", "reserved", "posting"}]
  BY DEF IInv, TypeOK
<1>1. CASE \E r \in Senders : Posts(r)
  BY <1>1, <1>t DEF BeginsPost, Posts
<1>2. CASE ~\E r \in Senders : Posts(r)
  BY <1>2, <1>t DEF BeginsPost, Next, vars, Tick, Waiting, Cancelled, Reserves, IsRefused,
     IsAnswered, IsRateLimited, EmptiesBucket, Answered
<1> QED
  BY <1>1, <1>2

(* Any response's wait holds off, until it is over, every sender that had not *)
(* reserved before it, and leaves each of those one post (reserve, cooldown), *)
(* for any number of reconciles that share the webhook.                       *)
THEOREM CooldownCorrect == Spec => CooldownHolds
<1>1. IInv /\ [Next]_vars =>
        [\A s \in Senders : BeginsPost(s) /\ asked # {} => s \in ahead /\ s \notin ahead']_vars
  <2> SUFFICES ASSUME IInv, [Next]_vars, NEW s \in Senders, BeginsPost(s), asked # {}
               PROVE  s \in ahead /\ s \notin ahead'
    OBVIOUS
  <2>1. Posts(s)
    BY OnlyReservedPost
  <2> QED
    BY <2>1 DEF Posts, IInv, ReservedAhead
<1> QED
  BY <1>1, Invariance, PTL DEF Spec, CooldownHolds

(* A send waits for every refill that was known when it began (wait).        *)
THEOREM PacingCorrect == Spec => PacedBySends
<1>1. IInv /\ [Next]_vars => [\A s \in Senders : BeginsPost(s) => owed[s] = 0]_vars
  <2> SUFFICES ASSUME IInv, [Next]_vars, NEW s \in Senders, BeginsPost(s)
               PROVE  owed[s] = 0
    OBVIOUS
  <2>1. Posts(s)
    BY OnlyReservedPost
  <2> QED
    BY <2>1 DEF Posts, IInv, Paced, AwakeWhenReserved
<1> QED
  BY <1>1, Invariance, PTL DEF Spec, PacedBySends

-----------------------------------------------------------------------------
(* The fitting of messages, for any limits that leave the description room. *)

\* Fitting the fields: each is its length or its limit, and what is counted is
\* what is gone (Truncate, fit.go:81-104).
LEMMA FieldsFitted ==
    ASSUME NEW msg \in Messages
    PROVE  /\ FitFields(msg) \in Messages
           /\ \A f \in Fields :
                FitFields(msg)[f] = IF msg[f] <= FieldLimit[f] THEN msg[f] ELSE FieldLimit[f]
           /\ FieldOverflow(msg) = RuneCount(msg) - RuneCount(FitFields(msg))
<1> DEFINE fitted == FitFields(msg)
<1>1. \A f \in Fields : msg[f] \in Nat /\ FieldLimit[f] \in Nat \ {0}
  BY FitAssumption DEF Messages
<1>2. \A f \in Fields :
        fitted[f] = IF msg[f] <= FieldLimit[f] THEN msg[f] ELSE FieldLimit[f]
  BY <1>1 DEF FitFields, Truncated, Smaller, Larger
<1>3. fitted \in Messages
  BY <1>1, <1>2 DEF FitFields, Messages
<1>4. \A f \in Fields : Overflow(msg[f], FieldLimit[f]) = msg[f] - fitted[f]
  BY <1>1, <1>2 DEF Overflow, Larger
<1>5. FieldOverflow(msg) = RuneCount(msg) - RuneCount(fitted)
  <2>1. /\ Overflow(msg["content"], FieldLimit["content"]) = msg["content"] - fitted["content"]
        /\ Overflow(msg["username"], FieldLimit["username"]) = msg["username"] - fitted["username"]
        /\ Overflow(msg["title"], FieldLimit["title"]) = msg["title"] - fitted["title"]
        /\ Overflow(msg["description"], FieldLimit["description"])
             = msg["description"] - fitted["description"]
        /\ Overflow(msg["author"], FieldLimit["author"]) = msg["author"] - fitted["author"]
        /\ Overflow(msg["footer"], FieldLimit["footer"]) = msg["footer"] - fitted["footer"]
        /\ Overflow(msg["thread"], FieldLimit["thread"]) = msg["thread"] - fitted["thread"]
    BY <1>4 DEF Fields
  <2>2. \A f \in Fields : msg[f] \in Int /\ fitted[f] \in Int
    BY <1>1, <1>3 DEF Messages
  <2> HIDE DEF fitted
  <2> QED
    BY <2>1, <2>2 DEF FieldOverflow, RuneCount, EmbedTotal, Fields
<1> QED
  BY <1>2, <1>3, <1>5

\* The clamp of a message whose fields fit: only the description changes, by
\* what is counted, and exactly as far as the total needs (clampEmbedTotalLength).
LEMMA TotalClamped ==
    ASSUME NEW msg \in Messages, \A f \in Fields : msg[f] <= FieldLimit[f]
    PROVE  LET clamped == ClampTotal(msg)
           IN  /\ clamped \in Messages
               /\ \A f \in Fields : f # "description" => clamped[f] = msg[f]
               /\ clamped["description"] = msg["description"] - TotalOverflow(msg)
               /\ TotalOverflow(msg) \in Nat
               /\ EmbedTotal(clamped) <= TotalLimit
               /\ TotalOverflow(msg) # 0 => EmbedTotal(clamped) = TotalLimit
<1>1. \A f \in Fields : msg[f] \in Nat /\ FieldLimit[f] \in Nat
  BY FitAssumption DEF Messages
<1>2. /\ msg["title"] \in Nat /\ msg["description"] \in Nat
      /\ msg["author"] \in Nat /\ msg["footer"] \in Nat
      /\ TotalLimit \in Nat
      /\ msg["title"] + msg["author"] + msg["footer"] <= TotalLimit
  BY <1>1, FitAssumption DEF Fields
<1>3. CASE EmbedTotal(msg) <= TotalLimit
  BY <1>1, <1>2, <1>3 DEF ClampTotal, TotalOverflow, EmbedTotal, Fields
<1>4. CASE ~(EmbedTotal(msg) <= TotalLimit)
  <2> DEFINE excess == EmbedTotal(msg) - TotalLimit
             clamped == [msg EXCEPT !["description"] = msg["description"] - excess]
  <2>1. excess \in Nat /\ excess > 0 /\ excess <= msg["description"]
    BY <1>2, <1>4 DEF EmbedTotal
  <2>2. ClampTotal(msg) = clamped /\ TotalOverflow(msg) = excess
    <3>1. Truncated(msg["description"], Larger(msg["description"] - excess, 0))
            = msg["description"] - excess
      <4> HIDE DEF excess
      <4> QED BY <2>1, <1>2 DEF Truncated, Smaller, Larger
    <3>2. Smaller(excess, msg["description"]) = excess
      <4> HIDE DEF excess
      <4> QED BY <2>1, <1>2 DEF Smaller
    <3>3. ~(excess <= 0)
      <4> HIDE DEF excess
      <4> QED BY <2>1
    <3> QED
      BY <3>1, <3>2, <3>3 DEF ClampTotal, TotalOverflow
  <2>3. /\ clamped \in Messages
        /\ clamped["description"] = msg["description"] - excess
        /\ \A f \in Fields : f # "description" => clamped[f] = msg[f]
    BY <2>1, <1>2 DEF Messages, Fields
  <2>4. EmbedTotal(clamped) = TotalLimit
    BY <2>3, <1>2 DEF EmbedTotal, Fields
  <2> QED
    BY <2>1, <2>2, <2>3, <2>4, <1>2
<1> QED
  BY <1>3, <1>4

\* A message that fits is left as it is, and nothing is counted.
LEMMA FittedIsFixed ==
    ASSUME NEW msg \in Messages, Fits(msg)
    PROVE  Fit(msg) = msg /\ Trimmed(msg) = 0
<1>1. \A f \in Fields : msg[f] \in Nat /\ msg[f] <= FieldLimit[f]
  BY DEF Messages, Fits
<1>2. FitFields(msg) = msg
  BY <1>1, FieldsFitted DEF Messages
<1>3. FieldOverflow(msg) = 0
  <2>1. RuneCount(msg) \in Int
    BY <1>1 DEF RuneCount, EmbedTotal, Fields
  <2> QED
    BY <2>1, <1>2, FieldsFitted
<1>4. EmbedTotal(msg) - TotalLimit <= 0
  BY <1>1, FitAssumption DEF Fits, EmbedTotal, Fields
<1> QED
  BY <1>2, <1>3, <1>4 DEF Fit, ClampTotal, Trimmed, TotalOverflow

\* Every message is fitted soundly (Fit), whatever its lengths and the limits.
LEMMA FitSound == InputsFit
<1> SUFFICES ASSUME NEW msg \in Inputs PROVE FitIsSound(msg)
  BY DEF InputsFit
<1> DEFINE fields == FitFields(msg)
           fitted == Fit(msg)
<1>1. msg \in Messages
  BY FitAssumption
<1>2. /\ fields \in Messages
      /\ \A f \in Fields : fields[f] <= FieldLimit[f]
      /\ \A f \in Fields : msg[f] <= FieldLimit[f] => fields[f] = msg[f]
  BY <1>1, FieldsFitted, FitAssumption DEF Messages
<1>3. fitted = ClampTotal(fields)
  BY DEF Fit
<1>4. /\ fitted \in Messages
      /\ \A f \in Fields : f # "description" => fitted[f] = fields[f]
      /\ fitted["description"] = fields["description"] - TotalOverflow(fields)
      /\ TotalOverflow(fields) \in Nat
      /\ EmbedTotal(fitted) <= TotalLimit
      /\ TotalOverflow(fields) # 0 => EmbedTotal(fitted) = TotalLimit
  <2> HIDE DEF fields
  <2> QED BY <1>2, <1>3, TotalClamped
<1>5. Fits(fitted)
  <2>1. \A f \in Fields : fields[f] \in Nat /\ fitted[f] \in Nat /\ FieldLimit[f] \in Nat
    BY <1>2, <1>4, FitAssumption DEF Messages
  <2> HIDE DEF fields, fitted
  <2>2. \A f \in Fields : fitted[f] <= FieldLimit[f]
    BY <2>1, <1>2, <1>4 DEF Fields
  <2> QED
    BY <2>2, <1>4 DEF Fits
<1>6. Fit(fitted) = fitted /\ Trimmed(fitted) = 0
  BY <1>4, <1>5, FittedIsFixed
<1>7. Trimmed(msg) = RuneCount(msg) - RuneCount(fitted)
  <2>1. RuneCount(fitted) = RuneCount(fields) - TotalOverflow(fields)
    <3>1. \A f \in Fields : fields[f] \in Int /\ fitted[f] \in Int
      BY <1>2, <1>4 DEF Messages
    <3> HIDE DEF fields, fitted
    <3> QED
      BY <3>1, <1>4 DEF RuneCount, EmbedTotal, Fields
  <2>2. FieldOverflow(msg) = RuneCount(msg) - RuneCount(fields)
    BY <1>1, FieldsFitted
  <2>3. RuneCount(msg) \in Int /\ RuneCount(fields) \in Int
    BY <1>1, <1>2 DEF Messages, RuneCount, EmbedTotal, Fields
  <2> QED
    BY <2>1, <2>2, <2>3, <1>4 DEF Trimmed
<1>8. \A f \in Fields : msg[f] <= FieldLimit[f] /\ fitted[f] # msg[f] =>
        f = "description" /\ EmbedTotal(fitted) = TotalLimit
  <2> SUFFICES ASSUME NEW f \in Fields, msg[f] <= FieldLimit[f], fitted[f] # msg[f]
               PROVE  f = "description" /\ EmbedTotal(fitted) = TotalLimit
    OBVIOUS
  <2>1. fields[f] = msg[f] /\ f = "description"
    BY <1>2, <1>4
  <2>2. fields[f] \in Int
    BY <1>2 DEF Messages
  <2> HIDE DEF fields, fitted
  <2>3. TotalOverflow(fields) # 0
    BY <2>1, <2>2, <1>4
  <2> QED
    BY <2>1, <2>3, <1>4
<1> QED
  BY <1>5, <1>6, <1>7, <1>8 DEF FitIsSound

\* Whatever the renderer built, what a sender posts was fitted soundly
\* (prepareRequest, client.go, and Fit, fit.go).
THEOREM MessagesFit == Spec => []EveryMessageFits
<1>1. EveryMessageFits
  BY FitSound DEF EveryMessageFits
<1> QED BY <1>1, PTL
=============================================================================
