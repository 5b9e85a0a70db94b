---------------------------- MODULE FailureClass ----------------------------
(***************************************************************************)
(* Why a fetch or a send failed, as the operator tells it from the error   *)
(* (internal/controller/classify.go and attemptOutcome.resolve), over      *)
(* every error the fetching and the sending of one attempt can end in.     *)
(*                                                                         *)
(* An error is a chain: the Go types errors.As walks, outermost first.     *)
(* "timeout" is any type whose Timeout() is true, "error" any type no test *)
(* looks for.  status is the HTTP status the error holds, or 0.            *)
(***************************************************************************)
EXTENDS Integers, Sequences

CONSTANT Statuses  \* the HTTP statuses a server may answer with, no 2xx and no 304

ASSUME StatusAssumption == Statuses \subseteq 300..599 \ {304}

NoStatus == 0

\* cause is what went wrong, and what no definition of the code reads.
Fault(cause, chain) == [cause |-> cause, chain |-> chain, status |-> NoStatus]

-----------------------------------------------------------------------------
(* The errors. *)

\* What a dial, a handshake or a read is wrapped in on its way out of net.
NetWraps == {<<>>, <<"net.OpError">>, <<"net.OpError", "os.SyscallError">>}

CertificateErrors ==
    {<<"tls.CertificateVerificationError">> \o inner :
        inner \in {<<>>, <<"x509.UnknownAuthorityError">>, <<"x509.HostnameError">>}}
      \union {<<"x509.UnknownAuthorityError">>, <<"x509.HostnameError">>,
              <<"x509.CertificateInvalidError">>}

NetworkFaults ==
    {Fault("Certificate", chain) : chain \in CertificateErrors}
      \union {Fault("NoName", <<"net.OpError", "net.DNSError">>)}
      \union {Fault("Deadline", wrap \o <<"timeout">>) : wrap \in NetWraps}
      \union {Fault("Connection", wrap \o <<"error">>) : wrap \in NetWraps}

Wrapped(outer, faults) == {[fault EXCEPT !.chain = outer \o @] : fault \in faults}

Answers(type) == {[cause |-> "Answer", chain |-> <<type>>, status |-> s] : s \in Statuses}

\* guardDialControl refuses an address; the dialer wraps its refusal.
Refusal == Fault("Address", <<"net.OpError", "rss.BlockedAddressError">>)

\* FetchEntries: the URL, the exchange, a redirect it refuses to follow (too
\* many, or to another scheme), its answer, then the body.
FetchFaults ==
    {Fault("URL", <<"rss.InvalidURLError">> \o inner) :
        inner \in {<<>>, <<"url.Error", "error">>}}
      \union Wrapped(<<"url.Error">>, NetworkFaults \union {Refusal})
      \union {Fault("Redirect", <<"url.Error", "error">>)}
      \union Answers("rss.HTTPStatusError")
      \union {Fault("Connection", <<"error">>), Fault("Deadline", <<"timeout">>)}
      \union {Fault("Size", <<"rss.ResponseTooLargeError">>),
              Fault("Format", <<"rss.ParseError", "rss.UnrecognizedFormatError">>),
              Fault("Document", <<"rss.ParseError", "error">>)}

\* prepareRequest (an empty message, the URL), the wait for the limiter, then the
\* exchange, whose url.Error is redacted: what it wraps is wrapped again without
\* the URL.
SendFaults ==
    {Fault("Message", <<"error">>), Fault("Webhook", <<"error">>),
     Fault("Webhook", <<"fmt.wrapError", "error">>)}
      \union {Fault("Connection", <<"error">>), Fault("Deadline", <<"timeout">>)}
      \union {Fault("RateLimit", <<"discord.RateLimitError">>)}
      \union Wrapped(<<"fmt.wrapError">>, NetworkFaults)
      \union {f \in Answers("discord.HTTPStatusError") : f.status # 429}

-----------------------------------------------------------------------------
(* Reading them. *)

HoldsOutermost(err, type) ==  \* mutant: a type assertion, not errors.As
    err.chain # <<>> /\ err.chain[1] = type
Holds(err, type) == \E i \in DOMAIN err.chain : err.chain[i] = type

NetErrors == {"url.Error", "net.OpError", "net.DNSError", "timeout"}
Delegating == {"url.Error", "net.OpError", "os.SyscallError"}

\* The outermost net.Error times out: it, or what it passes the question on to.
TimesOut(err) ==
    \E i, j \in DOMAIN err.chain :
        /\ i <= j /\ err.chain[i] \in NetErrors /\ err.chain[j] = "timeout"
        /\ \A k \in 1..(i - 1) : err.chain[k] \notin NetErrors
        /\ \A k \in i..(j - 1) : err.chain[k] \in Delegating

CertificateRefused(err) ==
    \E type \in {"tls.CertificateVerificationError", "x509.UnknownAuthorityError",
                 "x509.HostnameError", "x509.CertificateInvalidError"} : Holds(err, type)

Permanently(reason) == [reason |-> reason, permanent |-> TRUE]
ForNow(reason) == [reason |-> reason, permanent |-> FALSE]

OfStatus(s) ==
    CASE s = 404 -> Permanently("HTTP404")
      [] s = 410 -> Permanently("HTTP410")
      [] s = 429 -> ForNow("RateLimited")
      [] s >= 500 -> ForNow("ServerError")
      [] s \in 400..499 \ {404, 410, 429} -> Permanently("ClientError")
      [] OTHER -> ForNow("Other")

\* What the two have in common; a certificate is asked for before the network.
OfTransport(err) ==
    IF CertificateRefused(err) THEN Permanently("TLSError")
    ELSE IF Holds(err, "net.DNSError") THEN ForNow("DNSFailure")
    ELSE IF TimesOut(err) THEN ForNow("Timeout")
    ELSE ForNow("Other")

OfFetch(err) ==
    IF Holds(err, "rss.HTTPStatusError") THEN OfStatus(err.status)
    ELSE IF Holds(err, "rss.BlockedAddressError") THEN Permanently("BlockedAddress")
    ELSE IF OfTransport(err) # ForNow("Other") THEN OfTransport(err)
    ELSE IF Holds(err, "rss.UnrecognizedFormatError") THEN Permanently("UnrecognizedFormat")
    ELSE IF Holds(err, "rss.ParseError") THEN Permanently("ParseError")
    ELSE IF Holds(err, "rss.ResponseTooLargeError") THEN Permanently("ResponseTooLarge")
    ELSE IF Holds(err, "rss.InvalidURLError") THEN Permanently("InvalidURL")
    ELSE ForNow("Other")

OfSend(err) ==
    IF Holds(err, "discord.RateLimitError") THEN ForNow("RateLimited")
    ELSE IF Holds(err, "discord.HTTPStatusError")
         THEN IF err.status = 404 THEN Permanently("WebhookInvalid") ELSE OfStatus(err.status)
    ELSE OfTransport(err)

NoError == Fault("None", <<>>)
NoClass == ForNow("None")

\* What a reported outcome is: its kind, and its class where it has one.
Resolve(kind, err) ==
    CASE kind = "FetchFailed" -> [kind |-> kind, class |-> OfFetch(err)]
      [] kind = "SendFailed" /\ Holds(err, "discord.RateLimitError") ->
           [kind |-> "RateLimited", class |-> ForNow("RateLimited")]
      [] kind = "SendFailed" /\ ~Holds(err, "discord.RateLimitError") ->
           [kind |-> kind, class |-> OfSend(err)]
      [] kind = "RenderFailed" -> [kind |-> kind, class |-> ForNow("RenderError")]
      [] OTHER -> [kind |-> kind, class |-> NoClass]

\* The outcome an operation is counted under, <<>> for one that is not counted.
MetricLabel(outcome) ==
    CASE outcome.kind \in {"FetchFailed", "SendFailed"} ->
           <<outcome.kind, outcome.class.reason>>
      [] outcome.kind \in {"RenderFailed", "RateLimited", "Sent", "EntrySkipped"} ->
           <<outcome.kind>>
      [] OTHER -> <<>>

-----------------------------------------------------------------------------
(* Properties. *)

\* What only a change of the feed, the webhook or the cluster ends.  Three such
\* causes no test of the code looks for, and they are left to Other: a redirect
\* refused, a webhook URL that is not Discord's, and a message that is empty.
Lasting(fault) ==
    \/ fault.cause \in {"Certificate", "Address", "URL", "Size", "Format", "Document"}
    \/ fault.cause = "Answer" /\ fault.status \in 400..499 \ {429}

LeftToOther == {"Connection", "Redirect", "Webhook", "Message"}

\* Two faults a reader of the metrics must be able to tell apart.
Alike(f, g) ==
    \/ f.cause = g.cause /\ f.status = g.status
    \/ f.cause = "Answer" /\ g.cause = "Answer"
    \/ {f.cause, g.cause} \subseteq LeftToOther \union {"Answer"}

\* classifyFetchError and classifySendError (classify.go:112-190) go by what
\* went wrong, however net, net/http and fmt wrap it: a failure is permanent if
\* and only if its cause lasts, one cause has one class, and two causes share
\* none, but for those that are left to Other.
ClassesAreOfCauses ==
    \A path \in {"FetchFailed", "SendFailed"} :
        LET faults == IF path = "FetchFailed" THEN FetchFaults ELSE SendFaults
            Label(f) == MetricLabel(Resolve(path, f))
        IN  \A f \in faults :
              /\ Resolve(path, f).class.permanent = Lasting(f)
              /\ \A g \in faults :
                   /\ f.cause = g.cause /\ f.status = g.status => Label(f) = Label(g)
                   /\ ~Alike(f, g) => Label(f) # Label(g)
=============================================================================
