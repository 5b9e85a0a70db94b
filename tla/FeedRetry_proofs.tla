-------------------------- MODULE FeedRetry_proofs --------------------------
(***************************************************************************)
(* Proofs about FeedRetry, for every retry limit, retry interval, backoff  *)
(* cap and bound on the failures.                                          *)
(*                                                                         *)
(* The argument: a record and its run agree (Agree) when the run's phase   *)
(* can be read from Reachable, its failures are the counted ones, its      *)
(* backoff comes from one of them, and they show.  The record operators    *)
(* preserve Agree, for the record in hand and, because a pass may be lost, *)
(* for the stored one; and while a pass is under way Reachable is True, so *)
(* a delivery failure never joins a fetch run.                             *)
(*                                                                         *)
(* What a run has announced (Announced) follows from the number of its     *)
(* failures, because the backoff grows with that number up to the cap.     *)
(***************************************************************************)
EXTENDS FeedRetry, Recursion

Shown == {"SendFailed", "RenderError", "RateLimited", "ConfigError"}

Agree(rec, r) ==
    /\ r.failures = rec.retryCount
    /\ rec.backedOff =>
        rec.retryCount > 0 /\ "Permanent" \in r.classes /\ rec.left <= MaxBackoff
    /\ r.phase = "None" <=> rec.retryCount = 0
    /\ r.phase = "Fetch" => rec.reachable = "False"
    /\ r.phase = "Delivery" => rec.reachable = "True" /\ rec.delivered \in Shown
    /\ rec.retryCount > 0 => rec.lastError

IInv ==
    /\ TypeOK
    /\ Agree(fs, run)
    /\ Agree(stored, storedRun)
    /\ pc # "idle" => fs.reachable = "True"

-----------------------------------------------------------------------------
(* Lemmas about the operators of RetryRun. *)

\* The product that is within the cap: what lets the code compare the shift
\* with cap / base before it multiplies.
LEMMA DivisionBound ==
    ASSUME NEW b \in Nat \ {0}, NEW c \in Nat, NEW x \in Int, x <= c \div b
    PROVE  b * x <= c
  OBVIOUS

\* Shift is 1 << count: it doubles with every count.
LEMMA ShiftDoubles ==
    Shift[0] = 1 /\ \A n \in Nat : Shift[n + 1] = 2 * Shift[n]
<1> DEFINE double == [n \in Nat |-> [x \in Nat |-> 2 * x]]
           Doubles(f) == f = [n \in Nat |-> IF n = 0 THEN 1 ELSE 2 * f[n - 1]]
<1>1. 1 \in Nat /\ double \in [Nat -> [Nat -> Nat]]
  OBVIOUS
<1>2. \A n \in Nat, x \in Nat : double[n][x] = 2 * x
  OBVIOUS
<1> HIDE DEF double
<1>3. \E f : Recursive(f, Nat, 1, double)
  BY <1>1, Recursively
<1>4. PICK f \in [Nat -> Nat] : f[0] = 1 /\ \A n \in Nat : f[n + 1] = double[n][f[n]]
  BY <1>3 DEF Recursive
<1>5. ASSUME NEW n \in Nat PROVE f[n] = IF n = 0 THEN 1 ELSE 2 * f[n - 1]
  <2>1. CASE n = 0
    BY <1>4, <2>1
  <2>2. CASE n # 0
    <3>1. n - 1 \in Nat /\ (n - 1) + 1 = n
      BY <2>2
    <3>2. f[(n - 1) + 1] = double[n - 1][f[n - 1]]
      BY <1>4, <3>1
    <3> QED BY <1>2, <2>2, <3>1, <3>2
  <2> QED BY <2>1, <2>2
<1>6. Doubles(f)
  BY <1>4, <1>5
<1>7. Doubles(Shift)
  BY <1>6 DEF Shift
<1>8. ASSUME NEW n \in Nat PROVE Shift[n] = IF n = 0 THEN 1 ELSE 2 * Shift[n - 1]
  BY <1>7
<1>9. ASSUME NEW n \in Nat PROVE Shift[n + 1] = 2 * Shift[n]
  <2>1. n + 1 \in Nat /\ n + 1 # 0 /\ (n + 1) - 1 = n
    OBVIOUS
  <2> QED BY <1>8, <2>1
<1> QED BY <1>8, <1>9

LEMMA ShiftPositive == \A n \in Nat : Shift[n] \in Nat \ {0}
<1> DEFINE P == {n \in Nat : Shift[n] \in Nat \ {0}}
<1>1. 0 \in P
  BY ShiftDoubles
<1>2. \A n \in P : n + 1 \in P
  BY ShiftDoubles
<1> HIDE DEF P
<1>3. P = Nat
  BY <1>1, <1>2, Induction DEF P
<1> QED BY <1>3 DEF P

\* permanentBackoffDuration never exceeds the cap and is never 0, at any count.
LEMMA BackoffCapped ==
    ASSUME NEW count \in Nat
    PROVE  /\ PermanentBackoff(count) \in Nat \ {0}
           /\ PermanentBackoff(count) <= MaxBackoff
<1> DEFINE shift == Shift[IF count < 1 THEN 1 ELSE count]
<1>1. shift \in Nat \ {0}
  BY ShiftPositive
<1>2. RetryInterval \in Nat \ {0} /\ MaxBackoff \in Nat \ {0}
  BY RetryAssumption
<1>3. CASE count >= 63 \/ shift > MaxBackoff \div RetryInterval
  BY <1>2, <1>3 DEF PermanentBackoff
<1>4. CASE ~(count >= 63 \/ shift > MaxBackoff \div RetryInterval)
  <2>1. PermanentBackoff(count) = RetryInterval * shift
    BY <1>4 DEF PermanentBackoff
  <2> HIDE DEF shift
  <2>2. shift <= MaxBackoff \div RetryInterval
    BY <1>1, <1>2, <1>4
  <2>3. RetryInterval * shift <= MaxBackoff
    BY <1>1, <1>2, <2>2, DivisionBound
  <2>4. RetryInterval * shift \in Nat \ {0}
    BY <1>1, <1>2
  <2> QED BY <2>1, <2>3, <2>4
<1> QED BY <1>3, <1>4

\* One failure more never makes the backoff shorter.
LEMMA BackoffGrows ==
    ASSUME NEW count \in Nat
    PROVE  PermanentBackoff(count) <= PermanentBackoff(count + 1)
<1> DEFINE floor(n) == IF n < 1 THEN 1 ELSE n
           limit == MaxBackoff \div RetryInterval
           shift == Shift[floor(count)]
           next == Shift[floor(count + 1)]
<1>1. RetryInterval \in Nat \ {0} /\ MaxBackoff \in Nat \ {0} /\ limit \in Int
  BY RetryAssumption
<1>2. shift \in Nat \ {0} /\ next \in Nat \ {0} /\ shift <= next
  <2>1. CASE count = 0
    BY <2>1, ShiftPositive
  <2>2. CASE count # 0
    <3>1. floor(count) = count /\ floor(count + 1) = count + 1
      BY <2>2
    <3> QED BY <3>1, ShiftDoubles, ShiftPositive
  <2> QED BY <2>1, <2>2
<1>3. /\ PermanentBackoff(count) =
           IF count >= 63 \/ shift > limit THEN MaxBackoff ELSE RetryInterval * shift
      /\ PermanentBackoff(count + 1) =
           IF count + 1 >= 63 \/ next > limit THEN MaxBackoff ELSE RetryInterval * next
  BY DEF PermanentBackoff
<1>4. PermanentBackoff(count) <= MaxBackoff /\ PermanentBackoff(count + 1) <= MaxBackoff
  BY BackoffCapped
<1> HIDE DEF shift, next, limit
<1>5. CASE count + 1 >= 63 \/ next > limit
  BY <1>3, <1>4, <1>5
<1>6. CASE ~(count + 1 >= 63 \/ next > limit)
  <2>1. ~(count >= 63 \/ shift > limit)
    BY <1>1, <1>2, <1>6
  <2>2. RetryInterval * shift <= RetryInterval * next
    BY <1>1, <1>2
  <2> QED BY <1>3, <1>6, <2>1, <2>2
<1> QED BY <1>5, <1>6

\* Clear resets the run and nothing else.
LEMMA ClearFields ==
    ASSUME NEW rec \in FeedRecord
    PROVE  /\ Clear(rec) \in FeedRecord
           /\ Clear(rec).retryCount = 0 /\ Clear(rec).backedOff = FALSE
           /\ Clear(rec).reachable = rec.reachable
           /\ Clear(rec).lastError = rec.lastError
<1> DEFINE uncounted == [rec EXCEPT !.retryCount = 0]
           freed == [uncounted EXCEPT !.backedOff = FALSE]
<1>1. /\ uncounted \in FeedRecord /\ uncounted.retryCount = 0
      /\ uncounted.reachable = rec.reachable /\ uncounted.lastError = rec.lastError
  BY DEF FeedRecord
<1>2. Clear(rec) = [freed EXCEPT !.left = 0]
  BY DEF Clear
<1> HIDE DEF uncounted
<1>3. /\ freed \in FeedRecord /\ freed.retryCount = 0 /\ freed.backedOff = FALSE
      /\ freed.reachable = rec.reachable /\ freed.lastError = rec.lastError
  BY <1>1 DEF FeedRecord
<1> HIDE DEF freed
<1> QED BY <1>2, <1>3 DEF FeedRecord

\* Clearing a run or a failure leaves a record that has no run.
LEMMA Cleared ==
    ASSUME NEW rec \in FeedRecord
    PROVE  /\ Clear(rec) \in FeedRecord /\ Agree(Clear(rec), NoRun)
           /\ ClearFailure(rec) \in FeedRecord /\ Agree(ClearFailure(rec), NoRun)
           /\ Clear(rec).reachable = rec.reachable
           /\ ClearFailure(rec).reachable = rec.reachable
<1>1. /\ Clear(rec) \in FeedRecord
      /\ Clear(rec).retryCount = 0 /\ Clear(rec).backedOff = FALSE
      /\ Clear(rec).reachable = rec.reachable
  BY ClearFields
<1>2. /\ ClearFailure(rec) \in FeedRecord
      /\ ClearFailure(rec).retryCount = 0 /\ ClearFailure(rec).backedOff = FALSE
      /\ ClearFailure(rec).reachable = rec.reachable
  BY <1>1 DEF ClearFailure, FeedRecord
<1> QED BY <1>1, <1>2 DEF Agree, NoRun

\* A counted failure belongs to the run of its own phase: a fetch failure ends
\* a delivery run first, and a delivery failure follows a successful fetch.
LEMMA FailureAgrees ==
    ASSUME NEW rec \in FeedRecord, Agree(rec, run), run \in RunRecord,
           NEW phase \in Phases, NEW class \in Classes,
           NEW reason \in DeliveredReasons,
           phase = "Delivery" => rec.reachable = "True" /\ reason \in Shown
    PROVE  LET failed == Failed(rec, phase, reason, class)
           IN  /\ failed \in FeedRecord
               /\ RunFailed(phase, class, failed) \in RunRecord
               /\ Agree(failed, RunFailed(phase, class, failed))
               /\ phase = "Delivery" => failed.reachable = "True"
               /\ class = "Permanent" => failed.left = PermanentBackoff(failed.retryCount)
<1> DEFINE told == [rec EXCEPT !.lastError = TRUE]
           counted == CountFailure(told, phase)
           marked == IF phase = "Fetch"
                     THEN [counted EXCEPT !.reachable = "False"]
                     ELSE [counted EXCEPT !.delivered = reason]
           failed == Failed(rec, phase, reason, class)
           r == IF run.phase = phase THEN run ELSE NoRun
<1>1. /\ told \in FeedRecord /\ told.lastError
      /\ told.retryCount = rec.retryCount /\ told.backedOff = rec.backedOff
      /\ told.reachable = rec.reachable /\ told.left = rec.left
  BY DEF FeedRecord
<1>2. /\ counted \in FeedRecord /\ counted.lastError
      /\ counted.retryCount = r.failures + 1
      /\ counted.reachable = rec.reachable
      /\ counted.backedOff => "Permanent" \in r.classes /\ counted.left <= MaxBackoff
  <2> HIDE DEF told
  <2> DEFINE ends == phase = "Fetch" /\ told.reachable = "True" /\ InProgress(told)
  <2>1. CASE ends
    <3>1. /\ Clear(told) \in FeedRecord /\ Clear(told).lastError
          /\ Clear(told).retryCount = 0 /\ Clear(told).reachable = rec.reachable
          /\ ~Clear(told).backedOff
      BY <1>1, ClearFields
    <3>2. counted = [Clear(told) EXCEPT !.retryCount = @ + 1]
      BY <2>1 DEF CountFailure
    <3>3. counted \in FeedRecord /\ counted.retryCount = 1 /\ counted.lastError
          /\ counted.reachable = rec.reachable /\ ~counted.backedOff
      BY <3>1, <3>2 DEF FeedRecord
    <3>4. r.failures = 0
      BY <1>1, <2>1 DEF Agree, NoRun, RunRecord
    <3> QED BY <3>3, <3>4
  <2>2. CASE ~ends
    <3>1. counted = [told EXCEPT !.retryCount = @ + 1]
      BY <2>2 DEF CountFailure
    <3>2. /\ counted \in FeedRecord /\ counted.lastError
          /\ counted.retryCount = told.retryCount + 1
          /\ counted.reachable = rec.reachable
          /\ counted.backedOff = rec.backedOff /\ counted.left = rec.left
      BY <1>1, <3>1 DEF FeedRecord
    <3>3. r.failures = told.retryCount
      BY <1>1, <2>2 DEF Agree, NoRun, RunRecord, InProgress, Phases, FeedRecord
    <3>4. rec.backedOff => "Permanent" \in r.classes /\ rec.left <= MaxBackoff
      BY <1>1, <2>2 DEF Agree, RunRecord, InProgress, Phases, FeedRecord
    <3> QED BY <3>2, <3>3, <3>4
  <2> QED BY <2>1, <2>2
<1> HIDE DEF counted
<1>3. /\ marked \in FeedRecord /\ marked.lastError
      /\ marked.retryCount = r.failures + 1
      /\ phase = "Fetch" => marked.reachable = "False"
      /\ phase = "Delivery" => marked.reachable = "True" /\ marked.delivered \in Shown
      /\ marked.backedOff = counted.backedOff /\ marked.left = counted.left
  BY <1>2 DEF FeedRecord, Phases
<1>4. r.failures \in Nat
  BY DEF RunRecord, NoRun
<1> HIDE DEF marked
<1>5. /\ failed \in FeedRecord /\ failed.retryCount = marked.retryCount
      /\ failed.lastError = marked.lastError /\ failed.reachable = marked.reachable
      /\ failed.delivered = marked.delivered
      /\ failed.backedOff =>
           class = "Permanent" \/ (marked.backedOff /\ failed.left = marked.left)
      /\ class = "Permanent" =>
           failed.left = PermanentBackoff(failed.retryCount) /\ failed.left <= MaxBackoff
  <2>1. failed = IF class = "Permanent" THEN Extend(marked) ELSE marked
    BY DEF Failed, marked, counted
  <2>2. marked.retryCount \in Nat
    BY <1>3 DEF FeedRecord
  <2>3. /\ PermanentBackoff(marked.retryCount) \in Int
        /\ PermanentBackoff(marked.retryCount) <= MaxBackoff
    BY <2>2, BackoffCapped
  <2> DEFINE left == PermanentBackoff(marked.retryCount)
             backedOff == [marked EXCEPT !.backedOff = TRUE]
             extended == [backedOff EXCEPT !.left = left]
  <2>4. Extend(marked) = extended
    BY DEF Extend
  <2>5. /\ backedOff \in FeedRecord /\ backedOff.retryCount = marked.retryCount
        /\ backedOff.lastError = marked.lastError
        /\ backedOff.reachable = marked.reachable
        /\ backedOff.delivered = marked.delivered
    BY <1>3 DEF FeedRecord
  <2> HIDE DEF left, backedOff
  <2>6. /\ extended \in FeedRecord /\ extended.retryCount = marked.retryCount
        /\ extended.lastError = marked.lastError
        /\ extended.reachable = marked.reachable
        /\ extended.delivered = marked.delivered
        /\ extended.left = left
    BY <2>3, <2>5 DEF FeedRecord, left
  <2> HIDE DEF extended, failed
  <2> QED BY <2>1, <2>3, <2>4, <2>6, <1>3 DEF left
<1>6. /\ RunFailed(phase, class, failed) \in RunRecord
      /\ RunFailed(phase, class, failed).failures = r.failures + 1
      /\ RunFailed(phase, class, failed).phase = phase
      /\ RunFailed(phase, class, failed).classes = r.classes \union {class}
  <2>1. r \in RunRecord
    BY DEF RunRecord, NoRun, Classes
  <2>2. failed.left \in Int
    BY <1>5 DEF FeedRecord
  <2> HIDE DEF failed, r
  <2>3. RunFailed(phase, class, failed) =
         [phase        |-> phase,
          failures     |-> r.failures + 1,
          classes      |-> r.classes \union {class},
          longest      |-> IF class = "Permanent" /\ failed.left > r.longest
                           THEN failed.left ELSE r.longest,
          shrank       |-> r.shrank \/ (class = "Permanent" /\ failed.left < r.longest),
          atCap        |-> r.atCap \/ (class = "Permanent" /\ failed.left = MaxBackoff),
          gaveUp       |-> r.gaveUp \/ (~(class = "Permanent") /\ ~AsksForRetry(failed, class)),
          capEvents    |-> r.capEvents + IF AnnouncesCap(failed, class) THEN 1 ELSE 0,
          giveUpEvents |-> r.giveUpEvents + IF AnnouncesExhaustion(failed, class) THEN 1 ELSE 0]
    BY DEF RunFailed, r
  <2>4. r.classes \union {class} \in SUBSET Classes
    BY <2>1 DEF RunRecord
  <2> QED BY <2>1, <2>2, <2>3, <2>4 DEF RunRecord, Phases
<1>7. failed.backedOff =>
        "Permanent" \in r.classes \union {class} /\ failed.left <= MaxBackoff
  BY <1>2, <1>3, <1>5
<1>8. Agree(failed, RunFailed(phase, class, failed))
  BY <1>3, <1>4, <1>5, <1>6, <1>7 DEF Agree, Phases, FeedRecord
<1> QED BY <1>3, <1>5, <1>6, <1>8

\* A successful fetch ends a fetch run and leaves a delivery run alone.
LEMMA FetchAgrees ==
    ASSUME fs \in FeedRecord, Agree(fs, run), run \in RunRecord
    PROVE  LET next == IF run.phase = "Fetch" THEN NoRun ELSE run
           IN  /\ FetchSucceeded(fs) \in FeedRecord
               /\ FetchSucceeded(fs).reachable = "True"
               /\ next \in RunRecord
               /\ Agree(FetchSucceeded(fs), next)
<1> DEFINE kept == IF fs.reachable = "False" /\ InProgress(fs) THEN Clear(fs) ELSE fs
           next == IF run.phase = "Fetch" THEN NoRun ELSE run
<1>1. /\ kept \in FeedRecord
      /\ kept.lastError = fs.lastError
      /\ kept.retryCount = IF run.phase = "Fetch" THEN 0 ELSE fs.retryCount
      /\ kept.backedOff => run.phase # "Fetch" /\ kept.backedOff = fs.backedOff
      /\ run.phase # "Fetch" => kept.left = fs.left /\ kept.delivered = fs.delivered
  <2>1. CASE run.phase = "Fetch"
    <3>1. fs.reachable = "False" /\ InProgress(fs)
      BY <2>1 DEF Agree, InProgress, FeedRecord
    <3> QED BY <2>1, <3>1, ClearFields
  <2>2. CASE run.phase # "Fetch"
    <3>1. ~(fs.reachable = "False" /\ InProgress(fs))
      BY <2>2 DEF Agree, InProgress, FeedRecord, RunRecord, Phases
    <3> QED BY <2>2, <3>1 DEF Agree, FeedRecord
  <2> QED BY <2>1, <2>2
<1>2. FetchSucceeded(fs) = [kept EXCEPT !.reachable = "True"]
  BY DEF FetchSucceeded
<1> HIDE DEF kept
<1>3. /\ FetchSucceeded(fs) \in FeedRecord
      /\ FetchSucceeded(fs).reachable = "True"
      /\ FetchSucceeded(fs).retryCount = kept.retryCount
      /\ FetchSucceeded(fs).backedOff = kept.backedOff
      /\ FetchSucceeded(fs).lastError = kept.lastError
      /\ FetchSucceeded(fs).left = kept.left
      /\ FetchSucceeded(fs).delivered = kept.delivered
  BY <1>1, <1>2 DEF FeedRecord
<1>4. next \in RunRecord
  BY DEF RunRecord, NoRun
<1>5. Agree(FetchSucceeded(fs), next)
  BY <1>1, <1>3 DEF Agree, NoRun, RunRecord, FeedRecord
<1> QED BY <1>3, <1>4, <1>5

\* Relabelling the Delivered condition keeps what Agree looks at, unless it
\* hides the failures of a delivery run; so does setting the error.
LEMMA LabelAgrees ==
    ASSUME NEW rec \in FeedRecord, NEW r, Agree(rec, r),
           NEW reason \in DeliveredReasons, r.phase = "Delivery" => reason \in Shown
    PROVE  LET told == [rec EXCEPT !.delivered = reason]
               erred == [[rec EXCEPT !.lastError = TRUE] EXCEPT !.delivered = reason]
           IN  /\ told \in FeedRecord /\ Agree(told, r) /\ told.reachable = rec.reachable
               /\ erred \in FeedRecord /\ Agree(erred, r)
<1> DEFINE told == [rec EXCEPT !.delivered = reason]
           erring == [rec EXCEPT !.lastError = TRUE]
           erred == [erring EXCEPT !.delivered = reason]
<1>1. told \in FeedRecord /\ Agree(told, r) /\ told.reachable = rec.reachable
  BY DEF FeedRecord, Agree
<1>2. erring \in FeedRecord /\ Agree(erring, r)
  BY DEF FeedRecord, Agree
<1> HIDE DEF erring
<1>3. erred \in FeedRecord /\ Agree(erred, r)
  BY <1>2 DEF FeedRecord, Agree
<1> QED BY <1>1, <1>3 DEF erring

-----------------------------------------------------------------------------
(* The invariant is inductive: one step per action. *)

LEMMA InitInvariant == Init => IInv
  BY DEF Init, IInv, TypeOK, Agree, NewRecord, NoRun, FeedRecord, RunRecord,
         DeliveredReasons

\* A pass that ends with the record rec and the run r, or goes on with them.
LEMMA SettleStep ==
    ASSUME NEW rec \in FeedRecord, NEW r \in RunRecord, Agree(rec, r), Settle(rec, r)
    PROVE  IInv'
  BY DEF Settle, IInv, TypeOK, Agree

LEMMA ContinueStep ==
    ASSUME IInv, NEW rec \in FeedRecord, NEW r \in RunRecord, Agree(rec, r),
           rec.reachable = "True", NEW stage \in {"fetched", "handled"},
           Continue(stage, rec, r)
    PROVE  IInv'
  BY DEF Continue, IInv, TypeOK, Agree

LEMMA StepInvariant == IInv /\ [Next]_vars => IInv'
<1> SUFFICES ASSUME IInv, [Next]_vars PROVE IInv'
  OBVIOUS
<1>1. /\ fs \in FeedRecord /\ stored \in FeedRecord
      /\ run \in RunRecord /\ storedRun \in RunRecord
      /\ Agree(fs, run) /\ Agree(stored, storedRun)
      /\ pc \in {"fetched", "handled"} => fs.reachable = "True"
  BY DEF IInv, TypeOK
<1>2. NoRun \in RunRecord
  BY DEF NoRun, RunRecord
<1>20. NoRun.phase # "Delivery"
  BY DEF NoRun
<1>3. CASE Tick
  <2> DEFINE rec == [fs EXCEPT !.left = @ - 1]
  <2>1. rec \in FeedRecord /\ Agree(rec, run)
    BY <1>1, RetryAssumption DEF FeedRecord, Agree
  <2> QED BY <1>1, <1>3, <2>1, SettleStep DEF Tick
<1>4. CASE SpecChanges
  BY <1>1, <1>2, <1>4, Cleared, SettleStep DEF SpecChanges
<1>5. CASE SecretChanges
  <2>1. SendCaused(fs) <=> (fs.backedOff /\ run.phase = "Delivery")
    BY <1>1 DEF SendCaused, Agree, FeedRecord, RunRecord, Phases
  <2>2. CASE SendCaused(fs)
    <3>1. Settle(Clear(fs), NoRun)
      BY <1>5, <2>1, <2>2 DEF SecretChanges
    <3> QED BY <1>1, <1>2, <3>1, Cleared, SettleStep
  <2>3. CASE ~SendCaused(fs)
    <3>1. Settle(fs, run)
      BY <1>5, <2>1, <2>3 DEF SecretChanges
    <3> QED BY <1>1, <3>1, SettleStep
  <2> QED BY <2>2, <2>3
<1>6. ASSUME NEW class \in Classes, FetchFails(class) PROVE IInv'
  BY <1>1, <1>6, FailureAgrees, SettleStep
     DEF FetchFails, FetchFailed, Phases, DeliveredReasons
<1>7. CASE Fetches
  BY <1>1, <1>7, FetchAgrees, ContinueStep DEF Fetches
<1>8. CASE AccountedFor
  BY <1>1, <1>2, <1>8, Cleared, SettleStep DEF AccountedFor
<1>9. CASE SkipsBacklog
  <2>1. BacklogSkipped(fs) \in FeedRecord
    BY <1>1 DEF BacklogSkipped, DeliveredReasons, FeedRecord
  <2> QED BY <1>2, <1>9, <2>1, Cleared, SettleStep DEF SkipsBacklog
<1>10. CASE HasConfigError
  <2>1. ConfigError(fs) \in FeedRecord /\ Agree(ConfigError(fs), run)
    BY <1>1, LabelAgrees DEF ConfigError, DeliveredReasons, Shown
  <2> QED BY <1>1, <1>10, <2>1, SettleStep DEF HasConfigError
<1>11. CASE SendsEntry
  <2>1. ClearFailure(fs) \in FeedRecord /\ Agree(ClearFailure(fs), NoRun)
        /\ ClearFailure(fs).reachable = "True"
    BY <1>1, <1>11, Cleared DEF SendsEntry
  <2>2. Sent(fs) \in FeedRecord /\ Agree(Sent(fs), NoRun) /\ Sent(fs).reachable = "True"
    BY <1>20, <2>1, LabelAgrees DEF Sent, DeliveredReasons
  <2> QED BY <1>2, <1>11, <2>2, ContinueStep DEF SendsEntry
<1>12. ASSUME NEW class \in Classes, SendFails(class) PROVE IInv'
  BY <1>1, <1>12, FailureAgrees, SettleStep
     DEF SendFails, SendFailed, Phases, Shown, DeliveredReasons
<1>13. CASE IsRateLimited
  <2>1. RateLimited(fs) \in FeedRecord /\ Agree(RateLimited(fs), run)
    BY <1>1, LabelAgrees DEF RateLimited, DeliveredReasons, Shown
  <2> QED BY <1>1, <1>13, <2>1, SettleStep DEF IsRateLimited
<1>14. ASSUME NEW otherRenders \in BOOLEAN, RenderFails(otherRenders) PROVE IInv'
  BY <1>1, <1>14, FailureAgrees, SettleStep
     DEF RenderFails, RenderFailed, Phases, Shown, DeliveredReasons, Classes
<1>15. CASE SkipsEntry
  <2>1. RenderFailed(fs) \in FeedRecord /\ RenderFailed(fs).reachable = "True"
    BY <1>1, <1>15, FailureAgrees
       DEF SkipsEntry, RenderFailed, Phases, Shown, DeliveredReasons, Classes
  <2>2. LET cleared == ClearFailure(RenderFailed(fs))
        IN  cleared \in FeedRecord /\ Agree(cleared, NoRun) /\ cleared.reachable = "True"
    BY <2>1, Cleared
  <2>3. LET skipped == EntrySkipped(RenderFailed(fs))
        IN  skipped \in FeedRecord /\ Agree(skipped, NoRun) /\ skipped.reachable = "True"
    BY <1>20, <2>2, LabelAgrees DEF EntrySkipped, DeliveredReasons
  <2> QED BY <1>2, <1>15, <2>3, ContinueStep DEF SkipsEntry
<1>16. CASE PanicsBeforeHandling
  BY <1>1, <1>16, SettleStep DEF PanicsBeforeHandling
<1>17. CASE PanicsAfterHandling
  BY <1>1, <1>17, FailureAgrees, SettleStep
     DEF PanicsAfterHandling, SendFailed, Phases, Shown, DeliveredReasons, Classes
<1>18. CASE LosesPass
  BY <1>1, <1>18, SettleStep DEF LosesPass
<1>19. CASE UNCHANGED vars
  BY <1>19 DEF vars, IInv, TypeOK, Agree
<1> QED
  BY <1>3, <1>4, <1>5, <1>6, <1>7, <1>8, <1>9, <1>10, <1>11, <1>12, <1>13,
     <1>14, <1>15, <1>16, <1>17, <1>18, <1>19 DEF Next, Attempt, Conclude

-----------------------------------------------------------------------------
(* What the run has announced.                                              *)
(*                                                                          *)
(* The Events are decided on the count alone, so what was announced can be  *)
(* read from it: the backoff reaches the cap at one count and stays there,  *)
(* because it grows with the count, and the retries are used up at one      *)
(* count.  In a run of one class every count was a failure of that class.   *)

Capped(count) == count > 0 /\ PermanentBackoff(count) >= MaxBackoff
UsedUp(count) == count >= MaxRetries

Announced(r) ==
    /\ ~r.shrank /\ r.longest <= PermanentBackoff(r.failures)
    /\ r.capEvents \in {0, 1} /\ (r.capEvents = 1 => Capped(r.failures))
    /\ r.giveUpEvents \in {0, 1} /\ (r.giveUpEvents = 1 => UsedUp(r.failures))
    /\ "Transient" \notin r.classes =>
        (r.atCap <=> Capped(r.failures)) /\ (r.capEvents = 1 <=> Capped(r.failures))
    /\ "Permanent" \notin r.classes =>
        (r.gaveUp <=> UsedUp(r.failures)) /\ (r.giveUpEvents = 1 <=> UsedUp(r.failures))

AInv == Announced(run) /\ Announced(storedRun)

\* Nothing was announced where there is no run.
LEMMA NothingAnnounced == Announced(NoRun)
<1>1. PermanentBackoff(0) \in Nat
  BY BackoffCapped
<1> QED BY <1>1, RetryAssumption DEF Announced, NoRun, Capped, UsedUp

\* Once capped, the backoff stays so, and before that it was shorter.
LEMMA CappedOnce ==
    ASSUME NEW count \in Nat
    PROVE  /\ Capped(count) => Capped(count + 1)
           /\ (PermanentBackoff(count + 1) >= MaxBackoff
                 /\ (count + 1 <= 1 \/ PermanentBackoff(count) < MaxBackoff))
              <=> Capped(count + 1) /\ ~Capped(count)
<1>1. PermanentBackoff(count) \in Nat /\ PermanentBackoff(count + 1) \in Nat
  BY BackoffCapped
<1>2. PermanentBackoff(count) <= PermanentBackoff(count + 1)
  BY BackoffGrows
<1>3. PermanentBackoff(count) <= MaxBackoff /\ MaxBackoff \in Nat
  BY BackoffCapped, RetryAssumption
<1> QED BY <1>1, <1>2, <1>3 DEF Capped

\* A failure announces what its count calls for.
LEMMA FailureAnnounced ==
    ASSUME run \in RunRecord, Announced(run),
           NEW phase \in Phases, NEW class \in Classes,
           NEW rec \in FeedRecord, NEW r \in RunRecord,
           r = IF run.phase = phase THEN run ELSE NoRun,
           rec.retryCount = r.failures + 1,
           class = "Permanent" => rec.left = PermanentBackoff(rec.retryCount)
    PROVE  Announced(RunFailed(phase, class, rec))
<1> DEFINE n == r.failures
           next == RunFailed(phase, class, rec)
           backedOff == class = "Permanent"
<1>1. Announced(r)
  BY NothingAnnounced
<1>2. n \in Nat /\ r.longest \in Int /\ rec.left \in Int /\ MaxRetries \in Nat
  BY RetryAssumption DEF RunRecord, FeedRecord
<1>3. /\ PermanentBackoff(n) \in Nat /\ PermanentBackoff(n + 1) \in Nat
      /\ PermanentBackoff(n) <= PermanentBackoff(n + 1)
      /\ PermanentBackoff(n + 1) <= MaxBackoff /\ MaxBackoff \in Nat
  BY <1>2, BackoffCapped, BackoffGrows, RetryAssumption
<1>4. /\ next.failures = n + 1
      /\ next.classes = r.classes \union {class}
      /\ next.longest = IF backedOff /\ rec.left > r.longest THEN rec.left ELSE r.longest
      /\ next.shrank = (r.shrank \/ (backedOff /\ rec.left < r.longest))
      /\ next.atCap = (r.atCap \/ (backedOff /\ rec.left = MaxBackoff))
      /\ next.gaveUp = (r.gaveUp \/ (~backedOff /\ ~AsksForRetry(rec, class)))
      /\ next.capEvents = r.capEvents + IF AnnouncesCap(rec, class) THEN 1 ELSE 0
      /\ next.giveUpEvents = r.giveUpEvents + IF AnnouncesExhaustion(rec, class) THEN 1 ELSE 0
  BY DEF RunFailed
<1> HIDE DEF next
<1>5. AnnouncesCap(rec, class) <=> backedOff /\ Capped(n + 1) /\ ~Capped(n)
  <2>1. FirstCapped(rec) <=>
          /\ PermanentBackoff(n + 1) >= MaxBackoff
          /\ n + 1 <= 1 \/ PermanentBackoff(n) < MaxBackoff
    BY <1>2 DEF FirstCapped
  <2> QED BY <1>2, <2>1, CappedOnce DEF AnnouncesCap
<1>6. /\ AnnouncesExhaustion(rec, class) <=> ~backedOff /\ UsedUp(n + 1) /\ ~UsedUp(n)
      /\ ~backedOff => (~AsksForRetry(rec, class) <=> UsedUp(n + 1))
  BY <1>2 DEF AnnouncesExhaustion, AsksForRetry, ExhaustedNow, BelowLimit, UsedUp, Classes
<1>7. (Capped(n) => Capped(n + 1)) /\ (UsedUp(n) => UsedUp(n + 1))
  BY <1>2, CappedOnce DEF UsedUp
<1>8. ~next.shrank /\ next.longest <= PermanentBackoff(n + 1)
  <2>1. ~r.shrank /\ r.longest <= PermanentBackoff(n)
    BY <1>1 DEF Announced
  <2>2. ~(backedOff /\ rec.left < r.longest)
    BY <1>2, <1>3, <2>1
  <2>3. ~next.shrank
    BY <1>4, <2>1, <2>2
  <2>4. next.longest <= PermanentBackoff(n + 1)
    BY <1>2, <1>3, <1>4, <2>1
  <2> QED BY <2>3, <2>4
<1>9. next.capEvents \in {0, 1} /\ (next.capEvents = 1 => Capped(n + 1))
  BY <1>1, <1>4, <1>5, <1>7 DEF Announced
<1>10. next.giveUpEvents \in {0, 1} /\ (next.giveUpEvents = 1 => UsedUp(n + 1))
  BY <1>1, <1>4, <1>6, <1>7 DEF Announced
<1>11. ASSUME "Transient" \notin next.classes
       PROVE  /\ next.atCap <=> Capped(n + 1)
              /\ next.capEvents = 1 <=> Capped(n + 1)
  <2>1. backedOff /\ "Transient" \notin r.classes
    BY <1>4, <1>11 DEF Classes
  <2>2. rec.left = MaxBackoff <=> Capped(n + 1)
    BY <1>2, <1>3, <2>1 DEF Capped
  <2>3. (r.atCap <=> Capped(n)) /\ (r.capEvents = 1 <=> Capped(n)) /\ r.capEvents \in {0, 1}
    BY <1>1, <2>1 DEF Announced
  <2>4. r.atCap \in BOOLEAN
    BY DEF RunRecord
  <2>5. next.atCap <=> Capped(n + 1)
    BY <1>4, <1>7, <2>1, <2>2, <2>3, <2>4
  <2>6. next.capEvents = 1 <=> Capped(n + 1)
    BY <1>4, <1>5, <1>7, <2>1, <2>3
  <2> QED BY <2>5, <2>6
<1>12. ASSUME "Permanent" \notin next.classes
       PROVE  /\ next.gaveUp <=> UsedUp(n + 1)
              /\ next.giveUpEvents = 1 <=> UsedUp(n + 1)
  <2>1. ~backedOff /\ "Permanent" \notin r.classes
    BY <1>4, <1>12 DEF Classes
  <2>2. /\ r.gaveUp <=> UsedUp(n)
        /\ r.giveUpEvents = 1 <=> UsedUp(n)
        /\ r.giveUpEvents \in {0, 1}
    BY <1>1, <2>1 DEF Announced
  <2>3. r.gaveUp \in BOOLEAN
    BY DEF RunRecord
  <2>4. next.gaveUp <=> UsedUp(n + 1)
    BY <1>4, <1>6, <1>7, <2>1, <2>2, <2>3
  <2>5. next.giveUpEvents = 1 <=> UsedUp(n + 1)
    BY <1>4, <1>6, <1>7, <2>1, <2>2
  <2> QED BY <2>4, <2>5
<1> QED BY <1>4, <1>8, <1>9, <1>10, <1>11, <1>12 DEF Announced, next

\* A failure that a step of the feed counts is announced.
LEMMA CountedAnnounced ==
    ASSUME IInv, AInv, NEW phase \in Phases, NEW class \in Classes,
           NEW reason \in DeliveredReasons,
           phase = "Delivery" => fs.reachable = "True" /\ reason \in Shown
    PROVE  Announced(RunFailed(phase, class, Failed(fs, phase, reason, class)))
<1> DEFINE failed == Failed(fs, phase, reason, class)
           r == IF run.phase = phase THEN run ELSE NoRun
<1>1. /\ failed \in FeedRecord
      /\ Agree(failed, RunFailed(phase, class, failed))
      /\ class = "Permanent" => failed.left = PermanentBackoff(failed.retryCount)
  BY FailureAgrees DEF IInv, TypeOK
<1>2. run \in RunRecord /\ r \in RunRecord
  BY DEF IInv, TypeOK, RunRecord, NoRun
<1> HIDE DEF failed
<1>3. failed.retryCount = r.failures + 1
  BY <1>1 DEF Agree, RunFailed
<1> HIDE DEF r
<1> QED BY <1>1, <1>2, <1>3, FailureAnnounced DEF AInv, failed, r

LEMMA StepAnnounced == IInv /\ AInv /\ [Next]_vars => AInv'
<1> SUFFICES ASSUME IInv, AInv, [Next]_vars PROVE AInv'
  OBVIOUS
<1>1. Announced(run) /\ Announced(storedRun) /\ Announced(NoRun)
  BY NothingAnnounced DEF AInv
<1>2. ASSUME NEW rec, NEW r, Announced(r), Settle(rec, r) PROVE AInv'
  BY <1>2 DEF Settle, AInv, Announced
<1>3. ASSUME NEW stage, NEW rec, NEW r, Announced(r), Continue(stage, rec, r) PROVE AInv'
  BY <1>1, <1>3 DEF Continue, AInv, Announced
<1>4. pc \in {"fetched", "handled"} => fs.reachable = "True"
  BY DEF IInv, TypeOK
<1>5. ASSUME NEW class \in Classes, FetchFails(class) PROVE AInv'
  BY <1>2, <1>5, CountedAnnounced DEF FetchFails, FetchFailed, Phases, DeliveredReasons
<1>6. ASSUME NEW class \in Classes, SendFails(class) PROVE AInv'
  BY <1>2, <1>4, <1>6, CountedAnnounced
     DEF SendFails, SendFailed, Phases, Shown, DeliveredReasons
<1>7. ASSUME NEW otherRenders \in BOOLEAN, RenderFails(otherRenders) PROVE AInv'
  BY <1>2, <1>4, <1>7, CountedAnnounced
     DEF RenderFails, RenderFailed, Phases, Classes, Shown, DeliveredReasons
<1>8. CASE PanicsAfterHandling
  BY <1>2, <1>4, <1>8, CountedAnnounced
     DEF PanicsAfterHandling, SendFailed, Phases, Classes, Shown, DeliveredReasons
<1>9. CASE Tick \/ HasConfigError \/ IsRateLimited
  BY <1>1, <1>2, <1>9 DEF Tick, HasConfigError, IsRateLimited
<1>10. CASE SpecChanges \/ SecretChanges
  BY <1>1, <1>2, <1>10 DEF SpecChanges, SecretChanges
<1>11. CASE AccountedFor \/ SkipsBacklog
  BY <1>1, <1>2, <1>11 DEF AccountedFor, SkipsBacklog
<1>12. CASE Fetches \/ SendsEntry \/ SkipsEntry
  BY <1>1, <1>3, <1>12 DEF Fetches, SendsEntry, SkipsEntry
<1>13. CASE PanicsBeforeHandling \/ LosesPass
  BY <1>1, <1>2, <1>13 DEF PanicsBeforeHandling, LosesPass
<1>14. CASE UNCHANGED vars
  BY <1>14 DEF vars, AInv, Announced
<1> QED
  BY <1>5, <1>6, <1>7, <1>8, <1>9, <1>10, <1>11, <1>12, <1>13, <1>14
     DEF Next, Attempt, Conclude

-----------------------------------------------------------------------------
(* The theorems. *)

LEMMA Invariance == Spec => []IInv
  BY InitInvariant, StepInvariant, PTL DEF Spec

LEMMA Announcements == Spec => []AInv
<1>1. Init => AInv
  BY NothingAnnounced DEF Init, AInv
<1> QED BY <1>1, StepAnnounced, Invariance, PTL DEF Spec

\* Every state of the feed's bookkeeping is well typed.
THEOREM TypeCorrect == Spec => []TypeOK
<1>1. IInv => TypeOK
  BY DEF IInv
<1> QED BY <1>1, Invariance, PTL

\* The phase the code reads from Reachable is the phase of the failures of the
\* run in progress (the rule of retryRun, backoff.go).
THEOREM PhaseCorrect == Spec => []PhaseIsInferred
<1>1. IInv => PhaseIsInferred
  BY DEF IInv, TypeOK, Agree, PhaseIsInferred, InProgress, FeedRecord
<1> QED BY <1>1, Invariance, PTL

\* RetryCount counts the failures of the run in progress and nothing else.
THEOREM CountCorrect == Spec => []OwnFailuresOnly
<1>1. IInv => OwnFailuresOnly
  BY DEF IInv, Agree, OwnFailuresOnly
<1> QED BY <1>1, Invariance, PTL

\* A backoff belongs to a counted run with a permanent failure in it and is never
\* longer than the cap (retryRun.extend and clear, backoff.go).
THEOREM BackoffCorrect == Spec => []BackoffBelongsToRun
<1>1. IInv => BackoffBelongsToRun
  BY DEF IInv, Agree, BackoffBelongsToRun
<1> QED BY <1>1, Invariance, PTL

\* Counted failures leave an error, and those of a delivery run a Delivered
\* condition that is no success (feedAttempt.record, attempt.go).
THEOREM FailuresShown == Spec => []FailuresAreShown
<1>1. IInv => FailuresAreShown
  BY DEF IInv, Agree, FailuresAreShown, Shown
<1> QED BY <1>1, Invariance, PTL

\* Neither the exhaustion Event nor the capped-backoff Event is emitted twice
\* within one run (feedAttempt.failed, attempt.go, and retryRun.extend).
THEOREM EventsOnce == Spec => []EventsAtMostOnce
<1>1. AInv => EventsAtMostOnce
  BY DEF AInv, Announced, EventsAtMostOnce
<1> QED BY <1>1, Announcements, PTL

\* In a run whose failures are all of one class, the Event is emitted exactly
\* when the run has reached the cap, or has used up its retries.
THEOREM UniformAnnounced == Spec => []UniformRunsAnnounced
<1>1. AInv => UniformRunsAnnounced
  BY DEF AInv, Announced, UniformRunsAnnounced
<1> QED BY <1>1, Announcements, PTL

\* Within a run no permanent failure backs off for less time than an earlier
\* one (permanentBackoffDuration, backoff.go).
THEOREM BackoffMonotone == Spec => []BackoffNeverShrinks
<1>1. AInv => BackoffNeverShrinks
  BY DEF AInv, Announced, BackoffNeverShrinks
<1> QED BY <1>1, Announcements, PTL

\* A replaced webhook Secret frees exactly the feeds that delivery backed off
\* (clearSendBackoffs, secret_watch.go).
THEOREM SecretCorrect == Spec => SecretFreesDeliveryOnly
<1>1. IInv /\ [Next]_vars =>
        [SecretChanges =>
            /\ run.phase = "Delivery" /\ fs.backedOff => ~InProgress(fs')
            /\ run.phase = "Fetch" => fs' = fs]_vars
  <2> SUFFICES ASSUME IInv, SecretChanges
               PROVE  /\ run.phase = "Delivery" /\ fs.backedOff => ~InProgress(fs')
                      /\ run.phase = "Fetch" => fs' = fs
    OBVIOUS
  <2>1. fs \in FeedRecord /\ Agree(fs, run)
    BY DEF IInv, TypeOK
  <2>2. fs' = IF SendCaused(fs) THEN Clear(fs) ELSE fs
    BY DEF SecretChanges, Settle
  <2>3. ASSUME run.phase = "Delivery", fs.backedOff PROVE ~InProgress(fs')
    <3>1. fs' = Clear(fs)
      BY <2>1, <2>2, <2>3 DEF SendCaused, Agree
    <3>2. Clear(fs).retryCount = 0 /\ Clear(fs).backedOff = FALSE
      BY <2>1, ClearFields
    <3>3. ~InProgress(Clear(fs))
      BY <3>2 DEF InProgress
    <3> QED BY <3>1, <3>3
  <2>4. ASSUME run.phase = "Fetch" PROVE fs' = fs
    BY <2>1, <2>2, <2>4 DEF SendCaused, Agree
  <2> QED BY <2>3, <2>4
<1> QED BY <1>1, Invariance, PTL DEF Spec, SecretFreesDeliveryOnly
=============================================================================
