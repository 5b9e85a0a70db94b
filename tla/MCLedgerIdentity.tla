-------------------------- MODULE MCLedgerIdentity --------------------------
(* LedgerIdentity for TLC: two articles that share a link but for its tail,  *)
(* one whose GUID is that link without a tail, and one with URLs of its own. *)
(* Any of them may change from a GUID to a link, or between links, as an     *)
(* extension's id or link elements hide Atom's from the earlier releases.    *)
EXTENDS LedgerIdentity

Four == 1..4

\* An entry all releases read alike, with a link or with a GUID.
Linked(url) == [id |-> NoElement, link |-> url, priorId |-> NoElement, priorLink |-> url]
Named(url) == [id |-> url, link |-> NoElement, priorId |-> url, priorLink |-> NoElement]

\* Entries that an extension's link or id stood in for.
LinkHid(prior, link) == [Linked(link) EXCEPT !.priorLink = prior]
NameHid(prior, link) == [Linked(link) EXCEPT !.priorId = prior]
LinkHidName(prior, id) == [Named(id) EXCEPT !.priorId = NoElement, !.priorLink = prior]

FourLooks ==
    << {LinkHid(<<"x", 1>>, <<"y", 1>>), LinkHidName(<<"x", 1>>, <<"g", 0>>)},
       {Linked(<<"x", 2>>), LinkHid(<<"x", 2>>, <<"y", 2>>)},
       {Named(<<"x", 0>>)},
       {LinkHid(<<"w", 2>>, <<"v", 1>>), NameHid(<<"u", 0>>, <<"v", 2>>)} >>

\* The two siblings move to links of their own.
PartedLooks == [FourLooks EXCEPT ![2] = {Linked(<<"x", 2>>), LinkHid(<<"x", 2>>, <<"z", 1>>)}]
=============================================================================
