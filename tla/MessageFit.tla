----------------------------- MODULE MessageFit -----------------------------
(***************************************************************************)
(* How a message is fitted to Discord's length limits before it is sent    *)
(* (Fit in internal/discord/fit.go, called by the renderer and again by    *)
(* prepareRequest).                                                        *)
(*                                                                         *)
(* A text is its length in runes; that a cut text ends in an ellipsis is   *)
(* part of that length.                                                    *)
(***************************************************************************)
EXTENDS Integers

CONSTANTS
    FieldLimit,  \* the cap of every field, MaxContentLength to MaxThreadNameLength
    TotalLimit,  \* MaxEmbedTotalLength
    Inputs       \* the messages a renderer may build

Fields == {"content", "username", "title", "description", "author", "footer", "thread"}

\* Without an embed its fields are empty.
Messages == [Fields -> Nat]

\* The description gives way to the rest of an embed, and the rest always fits.
ASSUME FitAssumption ==
    /\ FieldLimit \in [Fields -> Nat \ {0}]
    /\ TotalLimit \in Nat \ {0}
    /\ FieldLimit["title"] + FieldLimit["author"] + FieldLimit["footer"] <= TotalLimit
    /\ Inputs \subseteq Messages

Smaller(x, y) == IF x < y THEN x ELSE y
Larger(x, y) == IF x < y THEN y ELSE x

\* A text of n runes cut to max, and how many runes that counts as trimmed.
Truncated(n, max) == Smaller(n, Larger(max, 0))
Overflow(n, max) == Larger(n - max, 0)

EmbedTotal(msg) == msg["title"] + msg["description"] + msg["author"] + msg["footer"]

FitFields(msg) == [f \in Fields |-> Truncated(msg[f], FieldLimit[f])]

FieldOverflow(msg) ==
    LET over(f) == Overflow(msg[f], FieldLimit[f])
    IN  over("content") + over("username") + over("title") + over("description")
          + over("author") + over("footer") + over("thread")

\* The description gives way to the rest of the embed.
ClampTotal(msg) ==
    LET excess == EmbedTotal(msg) - TotalLimit
    IN  IF excess <= 0 THEN msg
        ELSE [msg EXCEPT !["description"] = Truncated(@, Larger(@ - excess, 0))]

TotalOverflow(msg) ==
    LET excess == EmbedTotal(msg) - TotalLimit
    IN  IF excess <= 0 THEN 0 ELSE Smaller(excess, msg["description"])

FitTotalFirst(msg) == FitFields(ClampTotal(msg))  \* mutant: the other way round
Fit(msg) == ClampTotal(FitFields(msg))
Trimmed(msg) == FieldOverflow(msg) + TotalOverflow(FitFields(msg))

-----------------------------------------------------------------------------
(* Properties. *)

\* What Discord accepts.
Fits(msg) ==
    /\ \A f \in Fields : msg[f] <= FieldLimit[f]
    /\ EmbedTotal(msg) <= TotalLimit

RuneCount(msg) == msg["content"] + msg["username"] + msg["thread"] + EmbedTotal(msg)

\* Fit (fit.go:28-35): Discord takes what it returns; fitting twice changes and
\* counts nothing more, so the renderer and prepareRequest may both do it; the
\* count that goes into the overflow metric is what was really cut; and no text
\* is cut but one that is over its own limit, except a description, and that
\* one no further than the embed needs.
FitIsSound(msg) ==
    LET fitted == Fit(msg)
    IN  /\ Fits(fitted)
        /\ Fit(fitted) = fitted /\ Trimmed(fitted) = 0
        /\ Trimmed(msg) = RuneCount(msg) - RuneCount(fitted)
        /\ \A f \in Fields : msg[f] <= FieldLimit[f] /\ fitted[f] # msg[f] =>
             f = "description" /\ EmbedTotal(fitted) = TotalLimit

InputsFit == \A msg \in Inputs : FitIsSound(msg)
=============================================================================
