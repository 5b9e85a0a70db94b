---------------------------- MODULE RateLimiter ----------------------------
(***************************************************************************)
(* The shared rate limiter of one webhook (discord/ratelimiter.go) and the *)
(* reconciles that send through it at the same time (exchange): each       *)
(* sleeps out the pacing it read, reserves, posts, and records what the    *)
(* answer says of the webhook's bucket.  The limiter's lock covers each of *)
(* its calls; nothing covers two of them, and nothing covers a reservation *)
(* and the post that follows it.                                           *)
(*                                                                         *)
(* A deadline is the ticks left until it; 0 is a deadline that has passed  *)
(* or was never set, which the limiter's maps do not hold.                 *)
(***************************************************************************)
EXTENDS MessageFit, FiniteSetsExt

CONSTANTS
    Senders,      \* reconciles that send to the webhook
    MaxCooldown,  \* maxCooldown
    MaxPaceWait,  \* maxPaceWait
    Waits         \* the waits a response may ask for, above MaxCooldown too

ASSUME LimiterAssumption ==
    /\ {MaxCooldown, MaxPaceWait} \subseteq Nat /\ MaxPaceWait <= MaxCooldown
    /\ Waits \subseteq Nat

VARIABLES
    cooldown,  \* until when no message may be sent
    pacing,    \* until when a message waits
    pc,        \* of each sender: "idle", "asleep", "reserved" or "posting"
    sleep,     \* until when it sleeps
    asked,     \* history: what is left of each wait asked of every sender
    ahead,     \* history: the senders that had reserved when asked filled
    empty,     \* history: the longest wait a response asked the next send for
    owed       \* of each sender, history: empty when its send began

vars == <<cooldown, pacing, pc, sleep, asked, ahead, empty, owed>>

Zero == [s \in Senders |-> 0]

Init ==
    /\ cooldown = 0 /\ pacing = 0 /\ asked = {} /\ ahead = {} /\ empty = 0
    /\ pc = [s \in Senders |-> "idle"]
    /\ sleep = Zero /\ owed = Zero

Unbounded(wait) == wait  \* mutant: a header is believed whatever it says
Bounded(wait) == Min({wait, MaxCooldown})

Replaced(deadline, wait) == wait  \* mutant: the last response counts
Later(deadline, wait) == Max({deadline, wait})

Sooner(deadline) == Max({0, deadline - 1})

Tick ==
    /\ cooldown' = Sooner(cooldown) /\ pacing' = Sooner(pacing)
    /\ asked' = {wait - 1 : wait \in asked} \ {0}
    /\ ahead' = IF asked' = {} THEN {} ELSE ahead
    /\ empty' = Sooner(empty)
    /\ sleep' = [s \in Senders |-> Sooner(sleep[s])]
    /\ owed' = [s \in Senders |-> Sooner(owed[s])]
    /\ UNCHANGED pc

\* exchange: the message is fitted (prepareRequest); then wait reads the pacing
\* once and sleeps it out.
Waiting(s) ==
    /\ pc[s] = "idle"
    /\ pc' = [pc EXCEPT ![s] = "asleep"]
    /\ sleep' = [sleep EXCEPT ![s] = pacing]
    /\ owed' = [owed EXCEPT ![s] = empty]
    /\ UNCHANGED <<cooldown, pacing, asked, ahead, empty>>

\* The context ends, in the sleep, before the request or in it.
Cancelled(s) ==
    /\ pc[s] # "idle"
    /\ pc' = [pc EXCEPT ![s] = "idle"]
    /\ sleep' = [sleep EXCEPT ![s] = 0] /\ owed' = [owed EXCEPT ![s] = 0]
    /\ ahead' = ahead \ {s}
    /\ UNCHANGED <<cooldown, pacing, asked, empty>>

\* reserve: the sender may go on, or is refused with what is left of the cooldown.
Awake(s) == pc[s] = "asleep" /\ sleep[s] = 0

Reserves(s) ==
    /\ Awake(s) /\ cooldown = 0
    /\ pc' = [pc EXCEPT ![s] = "reserved"]
    /\ UNCHANGED <<cooldown, pacing, sleep, asked, ahead, empty, owed>>

IsRefused(s) ==
    /\ Awake(s) /\ cooldown > 0
    /\ pc' = [pc EXCEPT ![s] = "idle"] /\ owed' = [owed EXCEPT ![s] = 0]
    /\ UNCHANGED <<cooldown, pacing, sleep, asked, ahead, empty>>

\* Do: the limiter is not asked again, whatever it has recorded since.
Posts(s) ==
    /\ pc[s] = "reserved"
    /\ pc' = [pc EXCEPT ![s] = "posting"]
    /\ ahead' = ahead \ {s}
    /\ UNCHANGED <<cooldown, pacing, sleep, asked, empty, owed>>

\* The answer of a post, and what it makes of the two deadlines.
Answered(s) ==
    /\ pc[s] = "posting"
    /\ pc' = [pc EXCEPT ![s] = "idle"] /\ owed' = [owed EXCEPT ![s] = 0]
    /\ UNCHANGED sleep

\* A wait is asked of every sender; the first of an idle webhook finds the
\* senders that have reserved and not posted yet.
AsksAll(wait) ==
    /\ asked' = (asked \union {Min({wait, MaxCooldown})}) \ {0}
    /\ ahead' = IF asked = {} /\ asked' # {}
                THEN {s \in Senders : pc[s] = "reserved"} ELSE ahead

CoolsDown(wait) ==
    /\ cooldown' = Later(cooldown, Bounded(wait)) /\ AsksAll(wait)
    /\ UNCHANGED <<pacing, empty>>

IsRateLimited(s, wait) == Answered(s) /\ CoolsDown(wait)

\* A success that emptied the bucket: a short wait paces the next send, a long
\* one is a cooldown.
EmptiesBucket(s, wait) ==
    /\ Answered(s) /\ wait > 0
    /\ IF Bounded(wait) > MaxPaceWait THEN CoolsDown(wait)
       ELSE /\ pacing' = Later(pacing, Bounded(wait))
            /\ empty' = Max({empty, Min({wait, MaxCooldown})})
            /\ UNCHANGED <<cooldown, asked, ahead>>

\* Any other answer, or none.
IsAnswered(s) == Answered(s) /\ UNCHANGED <<cooldown, pacing, asked, ahead, empty>>

Next ==
    \/ Tick
    \/ \E s \in Senders :
         \/ Waiting(s) \/ Cancelled(s) \/ Reserves(s) \/ IsRefused(s)
         \/ Posts(s) \/ IsAnswered(s)
         \/ \E wait \in Waits : IsRateLimited(s, wait) \/ EmptiesBucket(s, wait)

Spec == Init /\ [][Next]_vars

-----------------------------------------------------------------------------
(* Properties. *)

\* No deadline is ever further away than the longest wait of its kind.
TypeOK ==
    /\ cooldown \in 0..MaxCooldown /\ asked \subseteq 1..MaxCooldown
    /\ {pacing, empty} \subseteq 0..MaxPaceWait
    /\ pc \in [Senders -> {"idle", "asleep", "reserved", "posting"}]
    /\ {sleep, owed} \subseteq [Senders -> 0..MaxPaceWait]
    /\ ahead \subseteq Senders

BeginsPost(s) == pc[s] # "posting" /\ pc'[s] = "posting"

\* While any wait that a response asked for is not over, the webhook is posted
\* to only by senders that had reserved before the first of those waits, and by
\* each of them once: a 429 seen by one reconcile holds off every other, and a
\* later, shorter one releases none (reserve and cooldown).
CooldownHolds ==
    [][\A s \in Senders : BeginsPost(s) /\ asked # {} => s \in ahead /\ s \notin ahead']_vars

\* No message is posted into a bucket that was known to be empty when its send
\* began, whatever the other senders do to the pacing meanwhile.
PacedBySends == [][\A s \in Senders : BeginsPost(s) => owed[s] = 0]_vars

\* What is posted was fitted, whatever the renderer built.
EveryMessageFits == \A s \in Senders : pc[s] = "posting" => InputsFit
=============================================================================
