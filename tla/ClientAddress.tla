---------------------------- MODULE ClientAddress ----------------------------
(***************************************************************************)
(* Who sent a request: clientip.go.  A request reaches Traefik through     *)
(* some of the trusted proxies; what its forwarding headers then look like *)
(* is the set Delivered, and Resolve is what settings.resolve makes of it. *)
(*                                                                         *)
(* An address prefix is the set of its addresses.  An entry of a header is *)
(* an address, an address with a port or in brackets (Ported), blank, or   *)
(* unreadable; zones and IPv4-mapped forms are dropped by every parser and *)
(* do not appear.  The proxies are outside the code: they are as           *)
(* trustedProxies promises, and no more.                                   *)
(***************************************************************************)
EXTENDS Integers, Sequences, SequencesExt

CONSTANTS
    Addresses,       \* the addresses there are
    TrustedProxies,  \* those that clientIP.trustedProxies contains
    Header,          \* whether clientIP.header names a header
    Forgeries,       \* the forwarding headers a client may send of its own
    MaxHops,         \* bound: trusted proxies a request passes through
    Blank, Malformed, \* entries that hold no address
    Nobody           \* the invalid address

Untrusted == Addresses \ TrustedProxies
Ported(a) == <<a>>
Entries   == Addresses \cup {Ported(a) : a \in Addresses} \cup {Blank, Malformed}

\* parseClientIP refuses to start with a header that anybody could send.
ParsedClientIP == Header => TrustedProxies # {}

ASSUME AddressAssumption ==
    /\ TrustedProxies \subseteq Addresses
    /\ Header \in BOOLEAN
    /\ ParsedClientIP
    /\ Forgeries \subseteq [lines : Seq(Seq(Entries)), single : Seq(Entries)]
    /\ MaxHops \in Nat
    /\ {Blank, Malformed, Nobody} \cap Addresses = {} /\ Blank # Malformed
    /\ \A a \in Addresses : Ported(a) \notin Addresses \cup {Blank, Malformed}

-----------------------------------------------------------------------------
(* On the way: origin sent it, from hands it on; clean as long as every     *)
(* proxy wrote down whom it had the request from.                           *)

\* A client sends what headers it likes; a proxy's own health check has none.
Sent ==
    {[origin |-> a, from |-> a, lines |-> f.lines, single |-> f.single, clean |-> TRUE] :
        a \in Untrusted, f \in Forgeries}
    \cup {[origin |-> p, from |-> p, lines |-> <<>>, single |-> <<>>, clean |-> FALSE] :
        p \in TrustedProxies}

\* A proxy appends its peer to the last line, or as a line of its own.
WithHop(lines, e) ==
    {Append(lines, <<e>>)}
    \cup (IF lines = <<>> THEN {} ELSE {[lines EXCEPT ![Len(lines)] = Append(@, e)]})

\* The proxy that has the request from outside sets the client's header afresh;
\* one further in leaves it alone or appends to it.
Stamped(w) ==
    IF w.from \in Untrusted THEN {<<w.from>>, <<Ported(w.from)>>}
    ELSE {w.single, Append(w.single, w.from)}

Handed(w, p, e, ls, h) ==
    [w EXCEPT !.from = p, !.lines = ls, !.single = h, !.clean = @ /\ e # Malformed]
Forwarded(w) ==
    UNION {{Handed(w, p, e, ls, h) : ls \in WithHop(w.lines, e), h \in Stamped(w)} :
           p \in TrustedProxies, e \in {w.from, Ported(w.from), Malformed}}

UnderWay[n \in 0..MaxHops] ==
    IF n = 0 THEN Sent
    ELSE UnderWay[n - 1] \cup UNION {Forwarded(w) : w \in UnderWay[n - 1]}

\* Traefik deletes the forwarding lines of a peer it was not told to trust, and
\* a connection may have no readable address.
Taken(w, peer, ls) ==
    [w EXCEPT !.clean = @ /\ ls = w.lines /\ peer # Nobody, !.lines = ls, !.from = peer]
Delivered ==
    UNION {{Taken(w, peer, ls) : peer \in {w.from, Nobody}, ls \in {w.lines, <<>>}} :
           w \in UnderWay[MaxHops]}

-----------------------------------------------------------------------------
(* The decision. *)

\* parsePeer
ParsePeer(e) ==
    IF e \in Addresses THEN e
    ELSE IF \E a \in Addresses : e = Ported(a) THEN e[1]
    ELSE Nobody

\* firstAddrIn: the leftmost value, which must be a bare address.
FirstAddrIn(value) == IF value # <<>> /\ value[1] \in Addresses THEN value[1] ELSE Nobody

Attributed(a)        == [client |-> a, bannable |-> TRUE]
Unattributable(peer) == [client |-> peer, bannable |-> FALSE]

\* The places of the chain the walk does not skip.
Telling(hops) ==
    {i \in DOMAIN hops : hops[i] # Blank /\ ParsePeer(hops[i]) \notin TrustedProxies}

\* Mutant of Walk: an entry that cannot be read is skipped like a proxy's.
WalkOverMalformed(hops, peer) ==
    LET readable == {i \in Telling(hops) : ParsePeer(hops[i]) # Nobody}
    IN  IF readable = {} THEN Unattributable(peer)
        ELSE Attributed(ParsePeer(hops[Max(readable)]))

\* The walk from the right: the first entry that is not a trusted proxy's is
\* the client, unless it cannot be read.
Walk(hops, peer) ==
    LET client == ParsePeer(hops[Max(Telling(hops))])
    IN  IF Telling(hops) = {} \/ client = Nobody THEN Unattributable(peer)
        ELSE Attributed(client)

\* Mutant of Resolve: the headers are believed whoever sent them.
ResolveAnyPeer(peer, lines, single) ==
    IF peer = Nobody THEN Unattributable(Nobody)
    ELSE IF Header /\ FirstAddrIn(single) # Nobody THEN Attributed(FirstAddrIn(single))
    ELSE IF peer \notin TrustedProxies THEN Attributed(peer)
    ELSE Walk(FlattenSeq(lines), peer)

\* settings.resolve
Resolve(peer, lines, single) ==
    IF peer = Nobody THEN Unattributable(Nobody)
    ELSE IF peer \notin TrustedProxies THEN Attributed(peer)
    ELSE IF Header /\ FirstAddrIn(single) # Nobody THEN Attributed(FirstAddrIn(single))
    ELSE Walk(FlattenSeq(lines), peer)

\* What the middleware can come to think of a request, beside the truth.
Judged ==
    {[origin |-> w.origin, clean |-> w.clean, res |-> Resolve(w.from, w.lines, w.single)] :
        w \in Delivered}
=============================================================================
