------------------------------ MODULE BanStore ------------------------------
(***************************************************************************)
(* The ban table every backend embeds: memStore in store.go.  Each method  *)
(* holds memStore.mu for its whole body, so each is one action; `get` and  *)
(* `list` change nothing and are the operators Get and Live.               *)
(*                                                                         *)
(* A table is a function from the banned prefixes to their bans (the Go    *)
(* map).  `wide` is the index of the range bans a lookup has to scan.  Hit *)
(* counters, ban texts and the dirty flag are left out; FileStore has the  *)
(* last.                                                                   *)
(***************************************************************************)
EXTENDS Integers, FiniteSets, Functions

CONSTANTS
    Prefixes,   \* the CIDR prefixes that can be banned or looked up
    Bits,       \* Bits[p]: the length of p
    Covers,     \* Covers[p]: the prefixes that contain p, p itself included
    FullBits,   \* the full address length newMemStore starts from
    Widths,     \* the <<key width, range width>> settings; range width 0: off
    MaxEntries, \* memStore.max
    Snapshots,  \* the tables a snapshot or a Redis refresh may hand over
    EndOfTime   \* bound: no tick beyond this instant

Ban == [manual : BOOLEAN, permanent : BOOLEAN, at : Nat]

ASSUME StoreAssumption ==
    /\ IsFiniteSet(Prefixes)
    /\ Bits \in [Prefixes -> Nat]
    /\ Covers \in [Prefixes -> SUBSET Prefixes]
    /\ \A p \in Prefixes : p \in Covers[p]
    /\ \A p \in Prefixes : \A q \in Covers[p] : Bits[q] <= Bits[p]
    /\ \A p \in Prefixes : \A q, r \in Covers[p] : Bits[q] = Bits[r] => q = r
    /\ FullBits \in Nat
    /\ Widths \subseteq (Nat \X Nat)
    /\ MaxEntries \in Nat \ {0}
    /\ \A f \in Snapshots : DOMAIN f \subseteq Prefixes /\ f \in [DOMAIN f -> Ban]
    /\ EndOfTime \in Nat

VARIABLES
    now,      \* the wall clock
    bans,     \* memStore.bans
    wide,     \* memStore.wide
    widths    \* <<memStore.v4Bits, memStore.subV4>>

vars == <<now, bans, wide, widths>>

Held == DOMAIN bans

\* `at` is what orders a ban for eviction: the expiry of a timed ban, the
\* creation time of a permanent one.
Active(b, t) == b.permanent \/ b.at > t

-----------------------------------------------------------------------------
(* Lookup. *)

IsWide(p, w) == Bits[p] < w[1] /\ (w[2] = 0 \/ Bits[p] # w[2])

\* rebuildWideLocked
WideOf(f, w) == {p \in DOMAIN f : IsWide(p, w)}

\* The range of key k at the range-escalation width.
RangeKeys(k) == {p \in Covers[k] : widths[2] > 0 /\ Bits[p] = widths[2]}

WideMatches(k) == {p \in wide \cap Held : p \in Covers[k]}

\* Mutant of Lookup: the range-escalation width is taken for an indexed one.
LookupIndexed(k) ==
    IF k \in Held THEN {k}
    ELSE {p \in WideMatches(k) : \A q \in WideMatches(k) : Bits[q] <= Bits[p]}

\* lookupLocked: the exact key, then its range at the escalation width, then
\* the most specific operator range.  {} when there is none.
Lookup(k) ==
    IF k \in Held THEN {k}
    ELSE IF RangeKeys(k) \cap Held # {} THEN RangeKeys(k) \cap Held
    ELSE {p \in WideMatches(k) : \A q \in WideMatches(k) : Bits[q] <= Bits[p]}

\* get: the ban in force for k at the caller's instant t, if the one found is
\* still active.
Get(k, t) == {p \in Lookup(k) : Active(bans[p], t)}

\* list
Live(t) == {p \in Held : Active(bans[p], t)}

-----------------------------------------------------------------------------
(* Eviction. *)

\* Mutant of Sooner: an operator's ban goes by its expiry like any other.
SoonerByExpiry(a, b) ==
    IF a.permanent # b.permanent THEN ~a.permanent ELSE a.at < b.at

\* The order of evictLocked: automatic before manual, timed before permanent,
\* then the soonest to expire, or the oldest permanent one.
Sooner(a, b) ==
    IF a.manual # b.manual THEN ~a.manual
    ELSE IF a.permanent # b.permanent THEN ~a.permanent
    ELSE a.at < b.at

\* What evictLocked may leave of table f; bans that tie go in any order.
Evict(f) ==
    LET size   == Cardinality(DOMAIN f)
        target == size - MaxEntries + MaxEntries \div 10
    IN  IF size <= MaxEntries THEN {f}
        ELSE {Restrict(f, DOMAIN f \ V) :
                V \in {W \in SUBSET DOMAIN f :
                         /\ Cardinality(W) = IF target < size THEN target ELSE size
                         /\ \A v \in W, s \in DOMAIN f \ W : ~Sooner(f[s], f[v])}}

-----------------------------------------------------------------------------
(* The operations. *)

With(f, k, b) == [p \in DOMAIN f \cup {k} |-> IF p = k THEN b ELSE f[p]]

\* Mutant of PutIndex: evicted ranges stay in the index.
PutIndexGrows(k, f) ==
    IF k \notin Held /\ IsWide(k, widths) THEN wide \cup {k} ELSE wide

\* put: the index grows by a new range ban, and is rebuilt if bans were evicted.
PutIndex(k, f) ==
    LET grown == IF k \notin Held /\ IsWide(k, widths) THEN wide \cup {k} ELSE wide
    IN  IF DOMAIN f # Held \cup {k} /\ grown # {} THEN WideOf(f, widths) ELSE grown

Put(k, b) ==
    \E f \in Evict(With(bans, k, b)) :
        /\ bans' = f
        /\ wide' = PutIndex(k, f)
        /\ UNCHANGED <<now, widths>>

Delete(k) ==
    /\ bans' = Restrict(bans, Held \ {k})
    /\ wide' = wide \ {k}
    /\ UNCHANGED <<now, widths>>

\* sweep: the janitor drops the expired bans.
Sweep ==
    /\ bans' = Restrict(bans, Live(now))
    /\ wide' = wide \ (Held \ Live(now))
    /\ UNCHANGED <<now, widths>>

\* setKeyWidths: on every configuration apply.
SetKeyWidths(w) ==
    /\ widths' = w
    /\ wide' = IF w = widths THEN wide ELSE WideOf(bans, w)
    /\ UNCHANGED <<now, bans>>

StillActive(f) == Restrict(f, {p \in DOMAIN f : Active(f[p], now)})

\* replaceAll: the table a Redis refresh read is swapped in whole.
ReplaceAll(snapshot) ==
    \E f \in Evict(StillActive(snapshot)) :
        /\ bans' = f
        /\ wide' = WideOf(f, widths)
        /\ UNCHANGED <<now, widths>>

Tick ==
    /\ now < EndOfTime
    /\ now' = now + 1
    /\ UNCHANGED <<bans, wide, widths>>

-----------------------------------------------------------------------------

Unexpired == {[manual |-> m, permanent |-> FALSE, at |-> t] :
                m \in BOOLEAN, t \in (now + 1)..(EndOfTime + 1)}
Forever   == {[manual |-> m, permanent |-> TRUE, at |-> now] : m \in BOOLEAN}

\* newMemStore, then the restore of a snapshot, under the default widths.
Init ==
    /\ now = 1
    /\ widths = <<FullBits, 0>>
    /\ \E snapshot \in Snapshots : bans \in Evict(StillActive(snapshot))
    /\ wide = WideOf(bans, widths)

Next ==
    \/ \E k \in Prefixes, b \in Unexpired \cup Forever : Put(k, b)
    \/ \E k \in Prefixes : Delete(k)
    \/ \E w \in Widths : SetKeyWidths(w)
    \/ \E f \in Snapshots : ReplaceAll(f)
    \/ Sweep
    \/ Tick

Spec == Init /\ [][Next]_vars

-----------------------------------------------------------------------------
(* Properties. *)

\* Every ban is well-formed and keyed by a prefix, and the index names held
\* bans only.
TypeOK ==
    /\ now \in Nat
    /\ widths \in Nat \X Nat
    /\ Held \subseteq Prefixes
    /\ bans \in [Held -> Ban]
    /\ wide \subseteq Held

\* The range index lists exactly the held bans a map lookup cannot find, after
\* any sequence of puts, deletes, sweeps, evictions, swaps and width changes.
WideIndexExact == wide = WideOf(bans, widths)

\* The cap holds however the table is filled.
CapHolds == Cardinality(Held) <= MaxEntries

CoveringBans(k) == Held \cap Covers[k]

\* A source is refused under every active ban that covers it, exact or range,
\* as long as no expired ban is still lying over it in the table.
CoveredIsFound ==
    \A k \in Prefixes :
        (/\ Bits[k] = widths[1]
         /\ CoveringBans(k) # {}
         /\ CoveringBans(k) \subseteq Live(now)) => Get(k, now) # {}

\* An eviction never drops an operator's ban and spares an automatic one, nor a
\* permanent automatic ban and spares a timed one (Put and ReplaceAll alike).
EvictionSpares(f, g) ==
    \A p \in DOMAIN f \ DOMAIN g, q \in DOMAIN g :
        /\ f[p].manual => g[q].manual
        /\ f[p].permanent => g[q].permanent \/ g[q].manual

OperatorsBansOutlive ==
    [][\A k \in Prefixes, b \in Unexpired \cup Forever :
          Put(k, b) => EvictionSpares(With(bans, k, b), bans')]_vars

\* get returns the ban for a key if one is in force.
BanInForceIsFound ==
    \A k \in Prefixes :
        (Bits[k] = widths[1] /\ CoveringBans(k) \cap Live(now) # {}) => Get(k, now) # {}
=============================================================================
