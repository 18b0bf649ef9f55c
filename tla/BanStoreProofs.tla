--------------------------- MODULE BanStoreProofs ---------------------------
(* What holds of the ban table for every configuration and every prefix set. *)
EXTENDS BanStore, FiniteSetTheorems, WellFoundedInduction, TLAPS

Table(f) == DOMAIN f \subseteq Prefixes /\ f \in [DOMAIN f -> Ban]

-----------------------------------------------------------------------------
(* Tables and eviction. *)

LEMMA RestrictIsTable ==
    ASSUME NEW f, Table(f), NEW D \in SUBSET DOMAIN f
    PROVE  /\ Table(Restrict(f, D))
           /\ DOMAIN Restrict(f, D) = D
           /\ \A p \in D : Restrict(f, D)[p] = f[p]
  BY DEF Table, Restrict

LEMMA WithIsTable ==
    ASSUME NEW f, Table(f), NEW k \in Prefixes, NEW b \in Ban
    PROVE  Table(With(f, k, b)) /\ DOMAIN With(f, k, b) = DOMAIN f \cup {k}
  BY DEF Table, With

LEMMA TenthIsNatural ==
    ASSUME NEW a \in Nat, NEW b \in Nat \ {0}
    PROVE  a \div b \in Nat
  BY SMT

\* An eviction leaves a part of the table, within the cap.
LEMMA EvictLeavesPart ==
    ASSUME NEW f, Table(f), NEW g \in Evict(f)
    PROVE  /\ Table(g)
           /\ DOMAIN g \subseteq DOMAIN f
           /\ Cardinality(DOMAIN g) <= MaxEntries
<1> DEFINE size   == Cardinality(DOMAIN f)
           target == size - MaxEntries + MaxEntries \div 10
<1>1. IsFiniteSet(DOMAIN f)
  BY StoreAssumption, FS_Subset DEF Table
<1>2. size \in Nat
  BY <1>1, FS_CardinalityType
<1>3. CASE size <= MaxEntries
  <2>1. g = f
    BY <1>3 DEF Evict
  <2> QED BY <1>3, <2>1
<1>4. CASE ~(size <= MaxEntries)
  <2>1. PICK W \in SUBSET DOMAIN f :
            /\ Cardinality(W) = IF target < size THEN target ELSE size
            /\ g = Restrict(f, DOMAIN f \ W)
    BY <1>4 DEF Evict
  <2>2. Table(g) /\ DOMAIN g = DOMAIN f \ W
    BY <2>1, RestrictIsTable
  <2>3. MaxEntries \in Nat /\ MaxEntries \div 10 \in Nat
    BY StoreAssumption, TenthIsNatural
  <2>4. IsFiniteSet(W) /\ Cardinality(W) \in Nat
    BY <1>1, FS_Subset, FS_CardinalityType
  <2>5. Cardinality(W) >= size - MaxEntries
    BY <1>2, <2>1, <2>3
  <2>6. Cardinality(DOMAIN f \ W) = size - Cardinality(DOMAIN f \cap W)
    BY <1>1, FS_Difference
  <2>7. DOMAIN f \cap W = W
    OBVIOUS
  <2>8. Cardinality(DOMAIN f \ W) = size - Cardinality(W)
    BY <2>6, <2>7, Zenon
  <2> HIDE DEF size
  <2>9. Cardinality(DOMAIN f \ W) <= MaxEntries
    BY <1>2, <2>3, <2>4, <2>5, <2>8
  <2> QED BY <2>2, <2>9
<1> QED BY <1>3, <1>4

LEMMA StillActiveIsTable ==
    ASSUME NEW f, Table(f)
    PROVE  Table(StillActive(f))
<1>1. {p \in DOMAIN f : Active(f[p], now)} \in SUBSET DOMAIN f
  OBVIOUS
<1> QED BY <1>1, RestrictIsTable DEF StillActive

LEMMA SnapshotsAreTables ==
    ASSUME NEW f \in Snapshots
    PROVE  Table(f)
  BY StoreAssumption DEF Table

-----------------------------------------------------------------------------
(* Each operation leaves a table within the cap, indexed exactly. *)

Indexed == WideIndexExact /\ CapHolds

LEMMA PutKeeps ==
    ASSUME TypeOK, Indexed, NEW k \in Prefixes, NEW b \in Ban, Put(k, b)
    PROVE  TypeOK' /\ Indexed'
<1> DEFINE put == With(bans, k, b)
<1>1. PICK f \in Evict(put) : bans' = f /\ wide' = PutIndex(k, f) /\ UNCHANGED <<now, widths>>
  BY DEF Put
<1>2. Table(put) /\ DOMAIN put = Held \cup {k}
  BY WithIsTable DEF TypeOK, Table, Held
<1> HIDE DEF put
<1>3. Table(f) /\ DOMAIN f \subseteq Held \cup {k} /\ Cardinality(DOMAIN f) <= MaxEntries
  BY <1>1, <1>2, EvictLeavesPart
<1>4. wide' = WideOf(f, widths)
  <2> DEFINE grown == IF k \notin Held /\ IsWide(k, widths) THEN wide \cup {k} ELSE wide
  <2>1. grown = {p \in Held \cup {k} : IsWide(p, widths)}
    BY DEF Indexed, WideIndexExact, WideOf, Held
  <2> HIDE DEF grown
  <2>2. CASE DOMAIN f # Held \cup {k} /\ grown # {}
    BY <1>1, <2>2 DEF PutIndex, grown
  <2>3. CASE ~(DOMAIN f # Held \cup {k} /\ grown # {})
    <3>1. wide' = grown
      BY <1>1, <2>3 DEF PutIndex, grown
    <3>2. CASE DOMAIN f = Held \cup {k}
      BY <2>1, <3>1, <3>2 DEF WideOf
    <3>3. CASE grown = {}
      BY <1>3, <2>1, <3>1, <3>3 DEF WideOf
    <3> QED BY <2>3, <3>2, <3>3
  <2> QED BY <2>2, <2>3
<1> QED BY <1>1, <1>3, <1>4
        DEF TypeOK, Indexed, WideIndexExact, CapHolds, Table, Held, WideOf

\* Dropping bans together with their index entries.
LEMMA RestrictKeeps ==
    ASSUME TypeOK, Indexed, NEW D \in SUBSET Held,
           bans' = Restrict(bans, D), wide' = wide \cap D, UNCHANGED <<now, widths>>
    PROVE  TypeOK' /\ Indexed'
<1>1. Table(bans)
  BY DEF TypeOK, Table, Held
<1>2. Table(bans') /\ DOMAIN bans' = D
  BY <1>1, RestrictIsTable DEF Held
<1>3. wide' = WideOf(bans', widths')
  BY <1>2 DEF Indexed, WideIndexExact, WideOf, Held
<1>4. Cardinality(D) <= MaxEntries
  <2>1. IsFiniteSet(Held)
    BY StoreAssumption, FS_Subset DEF TypeOK
  <2>2. IsFiniteSet(D) /\ Cardinality(D) <= Cardinality(Held)
    BY <2>1, FS_Subset
  <2>3. Cardinality(D) \in Nat /\ Cardinality(Held) \in Nat
    BY <2>1, <2>2, FS_CardinalityType
  <2> QED BY <2>2, <2>3, StoreAssumption DEF Indexed, CapHolds
<1> QED BY <1>2, <1>3, <1>4
        DEF TypeOK, Indexed, WideIndexExact, CapHolds, Table, Held, WideOf

LEMMA SwapKeeps ==
    ASSUME TypeOK, NEW snapshot \in Snapshots, ReplaceAll(snapshot)
    PROVE  TypeOK' /\ Indexed'
<1>1. PICK f \in Evict(StillActive(snapshot)) :
          bans' = f /\ wide' = WideOf(f, widths) /\ UNCHANGED <<now, widths>>
  BY DEF ReplaceAll
<1>2. Table(f) /\ Cardinality(DOMAIN f) <= MaxEntries
  BY SnapshotsAreTables, StillActiveIsTable, EvictLeavesPart
<1> QED BY <1>1, <1>2
        DEF TypeOK, Indexed, WideIndexExact, CapHolds, Table, Held, WideOf

LEMMA InitKeeps ==
    ASSUME Init
    PROVE  TypeOK /\ Indexed
<1>1. PICK snapshot \in Snapshots : bans \in Evict(StillActive(snapshot))
  BY DEF Init
<1>2. Table(bans) /\ Cardinality(DOMAIN bans) <= MaxEntries
  BY <1>1, SnapshotsAreTables, StillActiveIsTable, EvictLeavesPart
<1> QED BY <1>2, StoreAssumption
        DEF Init, TypeOK, Indexed, WideIndexExact, CapHolds, Table, Held, WideOf

LEMMA NewBansAreBans ==
    ASSUME TypeOK
    PROVE  Unexpired \cup Forever \subseteq Ban
<1>1. ASSUME NEW b \in Unexpired PROVE b \in Ban
  <2>1. PICK m \in BOOLEAN, t \in (now + 1)..(EndOfTime + 1) :
            b = [manual |-> m, permanent |-> FALSE, at |-> t]
    BY <1>1 DEF Unexpired
  <2>2. t \in Nat
    BY <2>1, StoreAssumption DEF TypeOK
  <2> QED BY <2>1, <2>2 DEF Ban
<1>2. ASSUME NEW b \in Forever PROVE b \in Ban
  <2>1. PICK m \in BOOLEAN : b = [manual |-> m, permanent |-> TRUE, at |-> now]
    BY <1>2 DEF Forever
  <2> QED BY <2>1 DEF Ban, TypeOK
<1> QED BY <1>1, <1>2

\* The inductive invariant: the table is well-formed, the index exact, the cap kept.
LEMMA StepKeeps == TypeOK /\ Indexed /\ [Next]_vars => TypeOK' /\ Indexed'
<1> SUFFICES ASSUME TypeOK, Indexed, [Next]_vars PROVE TypeOK' /\ Indexed'
  OBVIOUS
<1>1. ASSUME NEW k \in Prefixes, NEW b \in Unexpired \cup Forever, Put(k, b)
      PROVE  TypeOK' /\ Indexed'
  BY <1>1, NewBansAreBans, PutKeeps
<1>2. ASSUME NEW k \in Prefixes, Delete(k) PROVE TypeOK' /\ Indexed'
  <2>1. wide' = wide \cap (Held \ {k})
    BY <1>2 DEF Delete, TypeOK
  <2> QED BY <1>2, <2>1, RestrictKeeps DEF Delete
<1>3. CASE Sweep
  <2>1. Live(now) \in SUBSET Held
    BY DEF Live
  <2>2. wide' = wide \cap Live(now)
    BY <1>3, <2>1 DEF Sweep, TypeOK
  <2> QED BY <1>3, <2>1, <2>2, RestrictKeeps DEF Sweep
<1>4. ASSUME NEW w \in Widths, SetKeyWidths(w) PROVE TypeOK' /\ Indexed'
  <2>1. wide' = WideOf(bans, widths')
    BY <1>4 DEF SetKeyWidths, Indexed, WideIndexExact
  <2>2. widths' \in Nat \X Nat
    BY <1>4, StoreAssumption DEF SetKeyWidths
  <2>3. bans' = bans /\ now' = now
    BY <1>4 DEF SetKeyWidths
  <2> QED BY <2>1, <2>2, <2>3
          DEF TypeOK, Indexed, WideIndexExact, CapHolds, Held, WideOf
<1>5. ASSUME NEW f \in Snapshots, ReplaceAll(f) PROVE TypeOK' /\ Indexed'
  BY <1>5, SwapKeeps
<1>6. CASE Tick
  BY <1>6 DEF Tick, TypeOK, Indexed, WideIndexExact, CapHolds, Held, WideOf
<1>7. CASE UNCHANGED vars
  BY <1>7 DEF vars, TypeOK, Indexed, WideIndexExact, CapHolds, Held, WideOf
<1> QED BY <1>1, <1>2, <1>3, <1>4, <1>5, <1>6, <1>7 DEF Next

THEOREM StoreInvariant == Spec => [](TypeOK /\ Indexed)
<1>1. Init => TypeOK /\ Indexed
  BY InitKeeps
<1> QED BY <1>1, StepKeeps, PTL DEF Spec

\* The index of range bans is exact in every reachable state.
THEOREM WideIndexCorrect == Spec => []WideIndexExact
<1>1. TypeOK /\ Indexed => WideIndexExact
  BY DEF Indexed
<1> QED BY <1>1, StoreInvariant, PTL

\* The table never outgrows memStore.max.
THEOREM CapCorrect == Spec => []CapHolds
<1>1. TypeOK /\ Indexed => CapHolds
  BY DEF Indexed
<1> QED BY <1>1, StoreInvariant, PTL

-----------------------------------------------------------------------------
(* Lookup. *)

\* Among prefixes no longer than n bits there is a longest one.
LEMMA LongestExists ==
    ASSUME NEW M \in SUBSET Prefixes, M # {}, NEW n \in Nat,
           \A p \in M : Bits[p] <= n
    PROVE  \E p \in M : \A q \in M : Bits[q] <= Bits[p]
<1> DEFINE R == OpToRel(<, Nat)
           T == {n - Bits[p] : p \in M}
<1>0. \A p \in M : Bits[p] \in Nat
  BY StoreAssumption
<1>1. T \subseteq Nat /\ T # {}
  BY <1>0
<1>2. IsWellFoundedOn(R, Nat)
  BY NatLessThanWellFounded
<1>3. PICK d \in T : \A e \in T : ~(<<e, d>> \in R)
  <2> HIDE DEF R, T
  <2> QED BY <1>1, <1>2, WFMin
<1>4. ASSUME NEW e \in T PROVE d <= e
  <2>1. e \in Nat /\ d \in Nat
    BY <1>1, <1>3
  <2>2. <<e, d>> \notin R
    BY <1>3
  <2>3. ~(e < d)
    BY <2>1, <2>2 DEF OpToRel
  <2> QED BY <2>1, <2>3
<1>5. PICK p \in M : d = n - Bits[p]
  BY <1>3
<1>6. ASSUME NEW q \in M PROVE Bits[q] <= Bits[p]
  <2>1. n - Bits[p] <= n - Bits[q]
    BY <1>4, <1>5
  <2> QED BY <1>0, <2>1
<1> QED BY <1>6

\* With an exact index, the three-step lookup of lookupLocked finds a ban that
\* covers the key whenever there is one.
LEMMA LookupFindsCover ==
    ASSUME TypeOK, WideIndexExact, NEW k \in Prefixes, Bits[k] = widths[1],
           CoveringBans(k) # {}
    PROVE  Lookup(k) # {} /\ Lookup(k) \subseteq CoveringBans(k)
<1>1. CASE k \in Held
  BY <1>1, StoreAssumption DEF Lookup, CoveringBans
<1>2. CASE k \notin Held /\ RangeKeys(k) \cap Held # {}
  BY <1>2 DEF Lookup, CoveringBans, RangeKeys
<1>3. CASE k \notin Held /\ RangeKeys(k) \cap Held = {}
  <2>1. Lookup(k) = {p \in WideMatches(k) : \A q \in WideMatches(k) : Bits[q] <= Bits[p]}
    BY <1>3 DEF Lookup
  <2>2. WideMatches(k) \subseteq CoveringBans(k)
    BY DEF WideMatches, CoveringBans
  <2>3. PICK p \in Held : p \in Covers[k]
    BY DEF CoveringBans
  <2>4. p \in Prefixes /\ Bits[p] \in Nat /\ Bits[k] \in Nat /\ Bits[p] <= Bits[k]
    BY <2>3, StoreAssumption DEF TypeOK
  <2>5. Bits[p] # Bits[k]
    BY <1>3, <2>3, StoreAssumption
  <2>6. widths[2] = 0 \/ Bits[p] # widths[2]
    BY <1>3, <2>3 DEF RangeKeys, TypeOK
  <2>7. IsWide(p, widths)
    BY <2>4, <2>5, <2>6 DEF IsWide
  <2>8. p \in WideMatches(k)
    BY <2>3, <2>7 DEF WideMatches, WideIndexExact, WideOf, Held
  <2>9. /\ WideMatches(k) \in SUBSET Prefixes
        /\ \A q \in WideMatches(k) : Bits[q] <= Bits[k]
    BY StoreAssumption DEF WideMatches, TypeOK
  <2>10. \E q \in WideMatches(k) : \A r \in WideMatches(k) : Bits[r] <= Bits[q]
    BY <2>4, <2>8, <2>9, LongestExists
  <2> QED BY <2>1, <2>2, <2>10
<1> QED BY <1>1, <1>2, <1>3

\* A source is refused under every active ban that covers it, unless an expired
\* ban still lies over it: exact bans, escalated ranges and operators' ranges,
\* under every key width.
THEOREM CoverageCorrect == Spec => []CoveredIsFound
<1>1. TypeOK /\ Indexed => CoveredIsFound
  <2> SUFFICES ASSUME TypeOK, WideIndexExact, NEW k \in Prefixes, Bits[k] = widths[1],
                      CoveringBans(k) # {}, CoveringBans(k) \subseteq Live(now)
               PROVE  Get(k, now) # {}
    BY DEF Indexed, CoveredIsFound
  <2>1. PICK p \in Lookup(k) : p \in Live(now)
    BY LookupFindsCover
  <2> QED BY <2>1 DEF Get, Live
<1> QED BY <1>1, StoreInvariant, PTL

-----------------------------------------------------------------------------
(* Whom an eviction spares. *)

\* Whoever is left is not sooner to go than whoever went.
LEMMA EvictIsFair ==
    ASSUME NEW f, Table(f), NEW g \in Evict(f)
    PROVE  EvictionSpares(f, g)
<1> SUFFICES ASSUME NEW p \in DOMAIN f \ DOMAIN g, NEW q \in DOMAIN g
             PROVE  /\ f[p].manual => g[q].manual
                    /\ f[p].permanent => g[q].permanent \/ g[q].manual
  BY DEF EvictionSpares
<1>1. PICK W \in SUBSET DOMAIN f :
          /\ g = Restrict(f, DOMAIN f \ W)
          /\ \A v \in W, s \in DOMAIN f \ W : ~Sooner(f[s], f[v])
  BY DEF Evict
<1>2. DOMAIN g = DOMAIN f \ W /\ g[q] = f[q]
  BY <1>1, RestrictIsTable
<1>3. ~Sooner(f[q], f[p])
  BY <1>1, <1>2
<1>4. f[p] \in Ban /\ f[q] \in Ban
  BY <1>2 DEF Table
<1>5. f[p].manual \in BOOLEAN /\ f[p].permanent \in BOOLEAN
  BY <1>4 DEF Ban
<1>6. f[q].manual \in BOOLEAN /\ f[q].permanent \in BOOLEAN
  BY <1>4 DEF Ban
<1>7. f[p].manual => f[q].manual
  BY <1>3, <1>5, <1>6, Zenon DEF Sooner
<1>8. f[p].permanent => f[q].permanent \/ f[q].manual
  BY <1>3, <1>5, <1>6, Zenon DEF Sooner
<1> QED BY <1>2, <1>7, <1>8, Zenon

\* A ban that is put may push others out of a full table, but never an operator's
\* before an automatic one (store.go:378-390).
THEOREM EvictionsAreFair == Spec => OperatorsBansOutlive
<1>1. TypeOK /\ Indexed /\ [Next]_vars =>
        [\A k \in Prefixes, b \in Unexpired \cup Forever :
            Put(k, b) => EvictionSpares(With(bans, k, b), bans')]_vars
  <2> SUFFICES ASSUME TypeOK, NEW k \in Prefixes, NEW b \in Unexpired \cup Forever, Put(k, b)
               PROVE  EvictionSpares(With(bans, k, b), bans')
    OBVIOUS
  <2>1. bans' \in Evict(With(bans, k, b))
    BY DEF Put
  <2>2. Table(With(bans, k, b))
    BY NewBansAreBans, WithIsTable DEF TypeOK, Table, Held
  <2> QED BY <2>1, <2>2, EvictIsFair
<1> QED BY <1>1, StoreInvariant, PTL DEF Spec, OperatorsBansOutlive
=============================================================================
