------------------------------ MODULE Admission ------------------------------
(***************************************************************************)
(* Who is let through: handler.ServeHTTP from resolving the client to the  *)
(* verdict, over the exemptions of detect.go, with the operator's console  *)
(* (admin.go) banning, unbanning and editing the allowlist meanwhile.      *)
(*                                                                         *)
(* The ban table is a set of prefixes, looked up as in BanStore.  A ban    *)
(* runs out at any time and stays in the table until the janitor sweeps    *)
(* it.  The cap of the table is BanStore's; counting, escalation and       *)
(* concurrent requests are Enforcement's.  Detection is a choice.  dryRun  *)
(* is off.                                                                 *)
(***************************************************************************)
EXTENDS ClientAddress, FiniteSets

CONSTANTS
    Cidrs,       \* the prefixes, sets of addresses
    Keyings,     \* the key widths that may be configured: partitions into keys
    Ranges,      \* the prefixes at the width of enforcement.subnet
    TooWide,     \* the prefixes no operator may ban
    Handlers,    \* the routers: [ui, servePrefix : BOOLEAN, crawlers : policy]
    Crawlers,    \* the crawler policy of the instance
    AdminEnabled, ServeShared, Token, SSO, ReadOnly, \* parseAdmin
    Bannable,    \* what the operator may type as a key: addresses and prefixes
    Allowlists,  \* the allowlist.cidrs the operator may save
    MaxBans      \* bound: no put beyond this many bans in the table

Policies == {"ignore", "ban", "block", "exempt"}
Paths    == {"plain", "listed", "admin"}     \* "listed": on allowlist.paths
Agents   == {"browser", "listed", "crawler"} \* "listed": on allowlist.userAgents

\* parseAdmin: the console's router serves it, and nobody may use it unasked.
ParsedAdmin ==
    /\ \A h \in Handlers : h.ui => h.servePrefix
    /\ AdminEnabled => Token \/ SSO

ASSUME AdmissionAssumption ==
    /\ IsFiniteSet(Addresses)
    /\ Cidrs \subseteq SUBSET Addresses /\ {} \notin Cidrs
    /\ \A c, d \in Cidrs : c \cap d = {} \/ c \subseteq d \/ d \subseteq c
    /\ \A K \in Keyings : /\ K \subseteq Cidrs
                          /\ \A a \in Addresses : Cardinality({k \in K : a \in k}) = 1
    /\ Ranges \subseteq Cidrs /\ TooWide \subseteq Cidrs
    /\ \A K \in Keyings : K \cap Ranges = {} \* enforcement.subnet is wider than any key
    /\ Handlers \subseteq [ui : BOOLEAN, servePrefix : BOOLEAN, crawlers : Policies \cup {""}]
    /\ Crawlers \in Policies
    /\ {AdminEnabled, ServeShared, Token, SSO, ReadOnly} \subseteq BOOLEAN
    /\ ParsedAdmin
    /\ Bannable \subseteq Addresses \cup Cidrs
    /\ Allowlists \subseteq SUBSET Addresses
    /\ MaxBans \in Nat

VARIABLES
    allowed,   \* settings.allowCIDRs
    keying,    \* the keys at settings.ipv4Prefix and ipv6Prefix
    widths,    \* the keys at memStore.v4Bits and v6Bits
    bans,      \* the prefixes in the ban table
    expired,   \* those of them that have run out
    req,       \* the request in flight
    promised   \* history: what the operator typed for the bans that stand

table    == <<bans, expired>>
settings == <<allowed, keying, widths>>
vars     == <<settings, table, req, promised>>

KeyOf(a, keys) == CHOOSE k \in keys : a \in k      \* banKey
First(key)     == CHOOSE a \in key : TRUE          \* netip.Prefix.Addr

-----------------------------------------------------------------------------
(* The ban table. *)

Over(key, S) == {c \in S : First(key) \in c}
Narrowest(S) == {c \in S : \A d \in S : c \subseteq d}

\* isWideLocked, for a prefix that is not at the width of enforcement.subnet.
Wide(c) == \E k \in widths : k \subseteq c /\ k # c

\* lookupLocked: the key's own ban, then its range's, then the narrowest wide one,
\* run out or not.  {} if there is none.
Hit(key) ==
    IF key \in bans THEN {key}
    ELSE IF Over(key, bans \cap Ranges) # {} THEN Over(key, bans \cap Ranges)
    ELSE Narrowest(Over(key, {c \in bans \ Ranges : Wide(c)}))

\* get: nothing if the ban found had run out by the caller's clock, whatever
\* other bans there are.
Get(key, ended) == Hit(key) \ ended

\* A ban e that the lookup of key meets before the ban c.
Hides(e, c, key) ==
    /\ First(key) \in e /\ c # key
    /\ e = key \/ e \in Ranges \/ (c \notin Ranges /\ e \subseteq c)

\* refuseDangerousBan
Dangerous(c, allow) == c \in TooWide \/ c \cap TrustedProxies # {} \/ c \cap allow # {}

-----------------------------------------------------------------------------
(* Whose surface a request meets. *)

\* The console's own router, and the admin prefix where it is served at all.
Surface(h, path) ==
    IF AdminEnabled /\ (h.servePrefix \/ ServeShared)
    THEN IF h.ui \/ path = "admin" THEN "console" ELSE "site"
    ELSE IF h.ui THEN "notFound" ELSE "site"

\* effectiveCrawlers
Policy(h) == IF h.crawlers # "" THEN h.crawlers ELSE Crawlers

\* Mutant of Exempt: the path is asked before the allowlist too.
ExemptPathFirst(r) ==
    IF ~r.bannable THEN "unattributable"
    ELSE IF r.client \in TrustedProxies THEN "trusted-proxy"
    ELSE IF r.path = "listed" THEN "allowlist-path"
    ELSE IF r.client \in r.allow THEN "allowlist-cidr"
    ELSE IF r.agent = "listed" THEN "allowlist-user-agent"
    ELSE IF r.policy = "exempt" /\ r.agent = "crawler" THEN "crawler-exempt"
    ELSE "none"

\* exemptFor: the first rule that exempts the request.  The path is asked
\* before the User-Agent, so it answers for both.
Exempt(r) ==
    IF ~r.bannable THEN "unattributable"
    ELSE IF r.client \in TrustedProxies THEN "trusted-proxy"
    ELSE IF r.client \in r.allow THEN "allowlist-cidr"
    ELSE IF r.path = "listed" THEN "allowlist-path"
    ELSE IF r.agent = "listed" THEN "allowlist-user-agent"
    ELSE IF r.policy = "exempt" /\ r.agent = "crawler" THEN "crawler-exempt"
    ELSE "none"

\* What a path exemption is not: a statement about who the client is.
SourceExempt(r) == Exempt(r) \notin {"none", "allowlist-path"}

-----------------------------------------------------------------------------
(* A request. *)

Idle == [pc |-> "idle"]

\* Settings, address and clock are read once, on arrival.  ended: what touches its
\* key and has run out by that clock.  steady is history: the bans over the key of
\* the true origin that were in force then and have been in the table ever since,
\* while the widths of the table are those of the keys.
Arrived(j, h, path, agent) ==
    [pc |-> "lookup", origin |-> j.origin, clean |-> j.clean,
     client |-> j.res.client, bannable |-> j.res.bannable,
     path |-> path, agent |-> agent, policy |-> Policy(h), allow |-> allowed, keys |-> keying,
     ended |-> {c \in expired : \E k \in keying : j.res.client \in k /\ c \cap k # {}},
     steady |-> {c \in bans \ expired : widths = keying /\ KeyOf(j.origin, keying) \subseteq c}]

Arrive ==
    /\ req.pc = "idle"
    /\ \E j \in Judged, h \in Handlers, path \in Paths, agent \in Agents :
          /\ Surface(h, path) = "site"
          /\ LET r == Arrived(j, h, path, agent)
             IN  req' = IF SourceExempt(r) THEN [r EXCEPT !.pc = "served"] ELSE r
    /\ UNCHANGED <<settings, table, promised>>

Key(r) == KeyOf(r.client, r.keys)

\* Mutant of Lookup: a path exemption is looked at before the ban list.
LookupPathFirst ==
    /\ req.pc = "lookup"
    /\ req' = [req EXCEPT !.pc = IF Exempt(req) = "allowlist-path" THEN "served"
                                 ELSE IF Get(Key(req), req.ended) # {} THEN "refused" ELSE "detect"]
    /\ UNCHANGED <<settings, table, promised>>

\* The ban list, and only then the exemption of the path.
Lookup ==
    /\ req.pc = "lookup"
    /\ req' = [req EXCEPT !.pc = IF Get(Key(req), req.ended) # {} THEN "refused"
                                 ELSE IF Exempt(req) = "allowlist-path" THEN "served"
                                 ELSE "detect"]
    /\ UNCHANGED <<settings, table, promised>>

\* put: what a ban is put for is in force again.
Put(S) ==
    /\ Cardinality(bans \cup S) <= MaxBans
    /\ bans' = bans \cup S
    /\ expired' = expired \ S

\* What applyBan puts on the list: the source and, if that trips its range, the
\* range; nothing if the offence was not a fresh one.
Bannings(r) ==
    {{}, {Key(r)}} \cup
    {{Key(r), g} : g \in {g \in Ranges : r.client \in g /\ ~Dangerous(g, r.allow)}}

\* Nothing found; a crawler this router blocks; or something to ban for.
Detect ==
    /\ req.pc = "detect"
    /\ \/ req' = [req EXCEPT !.pc = "backend"] /\ UNCHANGED table
       \/ /\ req.agent = "crawler" /\ req.policy = "block"
          /\ req' = [req EXCEPT !.pc = "refused"] /\ UNCHANGED table
       \/ req' = [req EXCEPT !.pc = "refused"] /\ \E S \in Bannings(req) : Put(S)
    /\ UNCHANGED <<settings, promised>>

\* The backend has answered; detectResponse may find something in the answer.
Respond ==
    /\ req.pc = "backend"
    /\ req' = [req EXCEPT !.pc = "served"]
    /\ \E S \in Bannings(req) : Put(S)
    /\ UNCHANGED <<settings, promised>>

Leave ==
    /\ req.pc \in {"served", "refused"}
    /\ req' = Idle
    /\ UNCHANGED <<settings, table, promised>>

-----------------------------------------------------------------------------
(* The console. *)

\* authenticate and authorizeMutation: an identity header in front of which an
\* auth proxy is trusted, or the token; and the header no form can set.
Authorized(c) ==
    /\ (SSO /\ c.user) \/ (Token /\ c.token = "right")
    /\ ~ReadOnly /\ c.action

Operates ==
    /\ \E h \in Handlers : Surface(h, "admin") = "console"
    /\ \E c \in [user : BOOLEAN, token : {"none", "wrong", "right"}, action : BOOLEAN] :
          Authorized(c)

\* Mutant of ParsedKeys: a prefix narrower than the keys is taken as it is.
ParsedAny(typed) == IF typed \in Addresses THEN {KeyOf(typed, keying)} ELSE {typed}

\* parseBanKey: an address stands for its key; a prefix narrower than the keys
\* could never match and is refused ({}).
ParsedKeys(typed) ==
    IF typed \in Addresses THEN {KeyOf(typed, keying)}
    ELSE {c \in {typed} : ~ \E k \in keying : c \subseteq k /\ c # k}

\* What is put, swept or deleted is not as a request found it on arrival.
Renewed(c) == req' = IF req.pc = "lookup" THEN [req EXCEPT !.ended = @ \ {c}] ELSE req
Gone(S)    == req' = IF req.pc = "lookup"
                     THEN [req EXCEPT !.ended = @ \ S, !.steady = @ \ S] ELSE req

\* apiBans, POST, and banManual.
BanManual(typed) ==
    /\ Operates
    /\ \E c \in ParsedKeys(typed) :
          /\ ~Dangerous(c, allowed)
          /\ Put({c}) /\ Renewed(c)
          /\ promised' = promised \cup
                {[key |-> c, keys |-> keying,
                  for |-> IF typed \in Addresses THEN {typed} ELSE typed]}
    /\ UNCHANGED settings

\* apiBans, DELETE, and unban.
Unban(typed) ==
    /\ Operates
    /\ \E c \in ParsedKeys(typed) \cap bans :
          /\ bans' = bans \ {c} /\ expired' = expired \ {c} /\ Gone({c})
          /\ promised' = {p \in promised : p.key # c}
    /\ UNCHANGED settings

\* A ban runs out (Ban.active): it keeps its place in the table, and a request
\* that arrived before still meets it in force.
Expire(c) ==
    /\ c \in bans \ expired
    /\ expired' = expired \cup {c}
    /\ promised' = {p \in promised : p.key # c}
    /\ UNCHANGED <<settings, bans, req>>

\* sweep: the janitor drops what has run out.
Sweep ==
    /\ expired # {}
    /\ bans' = bans \ expired /\ expired' = {} /\ Gone(expired)
    /\ UNCHANGED <<settings, promised>>

\* apiRules saves another allowlist.
EditAllowlist(cidrs) ==
    /\ Operates
    /\ allowed' = cidrs
    /\ UNCHANGED <<keying, widths, table, req, promised>>

\* applySettings with other key widths publishes them to the requests ...
Rekey(keys) ==
    /\ widths = keying
    /\ keying' = keys
    /\ UNCHANGED <<allowed, widths, table, req, promised>>

\* ... and then to the table, which indexes the bans it has anew.
Reindex ==
    /\ widths # keying
    /\ widths' = keying
    /\ req' = IF req.pc = "lookup" THEN [req EXCEPT !.steady = {}] ELSE req
    /\ UNCHANGED <<allowed, keying, table, promised>>

-----------------------------------------------------------------------------

Init ==
    /\ allowed \in Allowlists
    /\ keying \in Keyings /\ widths = keying
    /\ bans = {} /\ expired = {}
    /\ req = Idle
    /\ promised = {}

Meanwhile ==
    \/ \E typed \in Bannable : BanManual(typed) \/ Unban(typed)
    \/ \E cidrs \in Allowlists : EditAllowlist(cidrs)
    \/ (\E keys \in Keyings : Rekey(keys)) \/ Reindex
    \/ (\E c \in bans : Expire(c)) \/ Sweep

\* An answered request is gone before anything else happens.
Next ==
    \/ Arrive \/ Lookup \/ Detect \/ Respond \/ Leave
    \/ req.pc \notin {"served", "refused"} /\ Meanwhile

Spec == Init /\ [][Next]_vars

-----------------------------------------------------------------------------
(* Properties. *)

\* Forged headers blame nobody: a request that may be acted on is attributed to
\* the address it really came from (a proxy's own request, to some proxy), and as
\* long as the proxies have written down their peers it always may be
\* (clientip.go:76-120).
BannableIsOrigin ==
    req.pc # "idle" =>
        /\ req.bannable => \/ req.client = req.origin
                           \/ {req.client, req.origin} \subseteq TrustedProxies
        /\ req.clean => req.bannable

\* The ways past a ban that are meant: the chain of proxies could not be read,
\* or the source is exempt by its address or its User-Agent.
Excused(r) ==
    \/ ~r.clean \/ r.origin \in r.allow
    \/ r.agent = "listed" \/ (r.agent = "crawler" /\ r.policy = "exempt")

\* A ban of its own that had run out when it arrived, still in the table and met
\* first, hides the bans in force from a lookup (store.go:191).
Shadowed(r) == \E e \in r.ended : \A c \in r.steady : Hides(e, c, Key(r))

\* There is no other: whoever was banned when its request arrived, by a ban that
\* was in the table until the lookup, is not served, whatever path it asks for and
\* whatever headers it sends, unless the key widths were being changed.
NoWayAround ==
    (/\ req.pc \in {"detect", "backend", "served"}
     /\ req.steady # {}) => Excused(req) \/ Shadowed(req)

\* A trusted proxy, or a source allowlisted when its request arrived, is never
\* refused, although bans of wider keys and ranges may cover it by then.
ProtectedIsServed ==
    req.pc = "refused" => req.origin \notin TrustedProxies \cup req.allow

\* Every ban a request leads to covers the address that really sent it, which is
\* neither a proxy's nor allowlisted as its request arrived; and a range goes on
\* the list only if it holds nothing that was protected then.
BansAreEarned ==
    [][Detect \/ Respond => \A c \in (bans' \ expired') \ (bans \ expired) :
          /\ req.origin \in c \ (TrustedProxies \cup req.allow)
          /\ c \in Ranges => ~Dangerous(c, req.allow)]_vars

\* As long as a ban the operator typed stands, a lookup of any of the addresses
\* typed finds a ban in force, or one met first that has run out and is not yet
\* swept; unless the keys have been made wider than they were then, or are being
\* changed.
ManualBansBite ==
    widths = keying =>
        \A p \in promised : \A a \in p.for :
            LET key == KeyOf(a, keying)
            IN  key \subseteq KeyOf(a, p.keys) =>
                    \/ Get(key, expired) # {}
                    \/ \E e \in expired : Hides(e, p.key, key)
=============================================================================
