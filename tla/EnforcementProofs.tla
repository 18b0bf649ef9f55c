------------------------- MODULE EnforcementProofs --------------------------
(* What holds of the request path, the operator and the janitor for every number of requests, *)
(* sources and ranges, every ladder and every way they interleave.                            *)
EXTENDS Enforcement, FiniteSetTheorems, TLAPS

USE DEF ParsedSubnet

-----------------------------------------------------------------------------
(* The invariants. *)

Table(f) == DOMAIN f \subseteq Keys /\ f \in [DOMAIN f -> Real!Ban]

InFlight ==
    [pc : {"lookup", "detect", "backend", "record", "put", "tally", "recordRange", "putRange"},
     source : Sources, dry : BOOLEAN, at : Nat \ {0}, response : BOOLEAN, offence : Nat]

TypedFlags ==
    /\ now \in Nat \ {0} /\ now <= EndOfTime
    /\ dryRun \in BOOLEAN /\ toggles \in Nat
    /\ janitor \in {"real", "shadow", "counters"}

TypedTables ==
    /\ tracked \subseteq Keys /\ st \in [Keys -> Counters!State]
    /\ \A k \in Keys \ tracked : st[k] = Counters!NewState
    /\ tally \in [Ranges -> [dry : BOOLEAN, hits : [Sources -> Nat]]]
    /\ \A g \in Ranges \ tracked : tally[g] = NoTally
    /\ Table(bans) /\ Table(shadow)

TypedRequests == req \in [Requests -> InFlight \cup {AtRest}]

TypedHistory ==
    /\ unbanning \subseteq Keys /\ overruled \subseteq Keys
    /\ earned \in [Sources -> Nat] /\ raced \in [Requests -> SUBSET Keys]

Typed == TypedFlags /\ TypedTables /\ TypedRequests /\ TypedHistory

\* A request that is not waiting for its backend read the clock at most Patience ago.
Punctual ==
    \A r \in Requests : req[r].pc # "idle" =>
        At(r) <= now /\ (req[r].pc # "backend" => now <= At(r) + Patience)

-----------------------------------------------------------------------------
(* What a call on one of the tables leaves behind. *)

\* f becomes g: b is stored for k, and eviction, if there is any, only takes bans.
Stores(f, g, k, b) ==
    /\ Table(g)
    /\ DOMAIN g \subseteq DOMAIN f \cup {k}
    /\ \A p \in DOMAIN g : g[p] = IF p = k THEN b ELSE f[p]
    /\ RoomForAll => DOMAIN g = DOMAIN f \cup {k}

\* f becomes g: only the bans of the keys in K are left.
Retains(f, g, K) ==
    /\ Table(g)
    /\ DOMAIN g = DOMAIN f \cap K
    /\ \A p \in DOMAIN g : g[p] = f[p]

\* The counter table now holds rec for k.
Notes(k, rec) ==
    /\ tracked' \subseteq tracked \cup {k}
    /\ st' \in [Keys -> Counters!State]
    /\ \A x \in Keys \ tracked' : st'[x] = Counters!NewState
    /\ \A x \in tracked' : st'[x] = IF x = k THEN rec ELSE st[x]
    /\ RoomForAll => tracked' = tracked \cup {k}

\* The counter table has lost its records of the keys in K.
Loses(K) ==
    /\ tracked' = tracked \ K
    /\ st' \in [Keys -> Counters!State]
    /\ \A x \in Keys \ tracked' : st'[x] = Counters!NewState
    /\ \A x \in tracked' : st'[x] = st[x]

LEMMA KeysFinite == IsFiniteSet(Keys)
  BY FS_Union, EnforcementAssumption DEF Keys

LEMMA RoomMeansNoEviction ==
    ASSUME NEW S \in SUBSET Keys, RoomForAll
    PROVE  Cardinality(S) <= MaxEntries
<1>1. Cardinality(S) <= Cardinality(Keys)
  BY KeysFinite, FS_Subset
<1>2. Cardinality(S) \in Nat /\ Cardinality(Keys) \in Nat
  BY KeysFinite, FS_Subset, FS_CardinalityType
<1> QED BY <1>1, <1>2, EnforcementAssumption DEF RoomForAll

LEMMA RealPut ==
    ASSUME Table(bans), NEW k \in Keys, NEW b \in Real!Ban, Real!Put(k, b)
    PROVE  Stores(bans, bans', k, b) /\ now' = now
<1> DEFINE f == Real!With(bans, k, b)
<1>1. /\ DOMAIN f = DOMAIN bans \cup {k}
      /\ \A p \in DOMAIN f : f[p] = IF p = k THEN b ELSE bans[p]
      /\ Table(f)
  BY DEF Real!With, Real!Held, Table
<1>2. bans' \in Real!Evict(f) /\ now' = now
  BY DEF Real!Put
<1> HIDE DEF f
<1>3. DOMAIN bans' \subseteq DOMAIN f /\ \A p \in DOMAIN bans' : bans'[p] = f[p]
  BY <1>2 DEF Real!Evict, Real!Restrict
<1>4. RoomForAll => bans' = f
  BY <1>1, <1>2, RoomMeansNoEviction DEF Table, Real!Evict, Real!Cardinality, Cardinality
<1>5. bans' \in [DOMAIN bans' -> Real!Ban]
  BY <1>1, <1>2, <1>3 DEF Real!Evict, Real!Restrict, Table
<1> QED BY <1>1, <1>2, <1>3, <1>4, <1>5 DEF Table, Stores

LEMMA ShadowPut ==
    ASSUME Table(shadow), NEW k \in Keys, NEW b \in Real!Ban, Shadow!Put(k, b)
    PROVE  Stores(shadow, shadow', k, b) /\ now' = now
<1> DEFINE f == Shadow!With(shadow, k, b)
<1>1. /\ DOMAIN f = DOMAIN shadow \cup {k}
      /\ \A p \in DOMAIN f : f[p] = IF p = k THEN b ELSE shadow[p]
      /\ Table(f)
  BY DEF Shadow!With, Shadow!Held, Table
<1>2. shadow' \in Shadow!Evict(f) /\ now' = now
  BY DEF Shadow!Put
<1> HIDE DEF f
<1>3. DOMAIN shadow' \subseteq DOMAIN f /\ \A p \in DOMAIN shadow' : shadow'[p] = f[p]
  BY <1>2 DEF Shadow!Evict, Shadow!Restrict
<1>4. RoomForAll => shadow' = f
  BY <1>1, <1>2, RoomMeansNoEviction DEF Table, Shadow!Evict, Shadow!Cardinality, Cardinality
<1>5. shadow' \in [DOMAIN shadow' -> Real!Ban]
  BY <1>1, <1>2, <1>3 DEF Shadow!Evict, Shadow!Restrict, Table
<1> QED BY <1>1, <1>2, <1>3, <1>4, <1>5 DEF Table, Stores

LEMMA RealSweep ==
    ASSUME Table(bans), Real!Sweep
    PROVE  Retains(bans, bans', Real!Live(now)) /\ now' = now
  BY DEF Real!Sweep, Real!Restrict, Real!Live, Real!Held, Table, Retains

LEMMA ShadowSweep ==
    ASSUME Table(shadow), Shadow!Sweep
    PROVE  Retains(shadow, shadow', Shadow!Live(now)) /\ now' = now
  BY DEF Shadow!Sweep, Shadow!Restrict, Shadow!Live, Shadow!Held, Table, Retains

LEMMA RealDelete ==
    ASSUME Table(bans), NEW k \in Keys, Real!Delete(k)
    PROVE  Retains(bans, bans', Keys \ {k}) /\ now' = now
  BY DEF Real!Delete, Real!Restrict, Real!Held, Table, Retains

LEMMA NewStateIsState == Counters!NewState \in Counters!State
  BY DEF Counters!NewState, Counters!State, Counters!Zero

LEMMA CountersPut ==
    ASSUME Typed, NEW k \in Keys, NEW rec \in Counters!State, Counters!Put(k, rec)
    PROVE  Notes(k, rec)
<1>1. PICK V \in Counters!Evicted(k) :
          /\ tracked' = (tracked \cup {k}) \ V
          /\ st' = [x \in Keys |-> IF x \in V THEN Counters!NewState
                                   ELSE IF x = k THEN rec ELSE st[x]]
  BY DEF Counters!Put
<1>2. RoomForAll => V = {}
  BY <1>1, RoomMeansNoEviction
     DEF Typed, TypedTables, Counters!Evicted, Counters!Cardinality, Cardinality
<1> QED BY <1>1, <1>2, NewStateIsState DEF Typed, TypedTables, Notes

LEMMA CountersDrop ==
    ASSUME Typed, NEW K \in SUBSET Keys, Counters!Drop(K)
    PROVE  Loses(K)
  BY NewStateIsState DEF Counters!Drop, Typed, TypedTables, Loses

-----------------------------------------------------------------------------
(* The ladder's arithmetic. *)

LEMMA IdleTimeIsLongEnough ==
    IdleTime \in Nat \ {0} /\ IdleTime >= Window /\ IdleTime >= Decay
<1> DEFINE U == {MinIdle, Decay, Window}
<1>1. MinIdle \in Nat \ {0} /\ Decay \in Nat /\ Window \in Nat \ {0}
  BY EnforcementAssumption
<1>2. \E t \in U : \A u \in U : u <= t
  BY <1>1, SMT
<1>3. IdleTime \in U /\ \A u \in U : u <= IdleTime
  BY <1>2 DEF IdleTime
<1> QED BY <1>1, <1>3

LEMMA DurationIsNatural ==
    ASSUME NEW n \in Nat
    PROVE  /\ Counters!BanDuration(n) \in Nat
           /\ Counters!BanWindow(n) \in Nat \ {0}
           /\ Counters!BanDuration(n) # 0 => Counters!BanWindow(n) = Counters!BanDuration(n)
           /\ Counters!BanDuration(n) = 0 => Counters!BanWindow(n) = Horizon
<1>1. Counters!BanDuration(n) \in Nat
  <2>1. CASE Escalation = <<>>
    BY <2>1, EnforcementAssumption DEF Counters!BanDuration
  <2>2. CASE Escalation # <<>>
    <3>1. Counters!AtMost(Counters!AtLeast(n, 1), Len(Escalation)) \in 1..Len(Escalation)
      BY <2>2, EnforcementAssumption DEF Counters!AtMost, Counters!AtLeast
    <3> QED BY <2>2, <3>1, EnforcementAssumption DEF Counters!BanDuration
  <2> QED BY <2>1, <2>2
<1> QED BY <1>1, EnforcementAssumption DEF Counters!BanWindow, Counters!Permanent

LEMMA PeriodsAreNatural ==
    ASSUME NEW a \in Nat, NEW b \in Nat \ {0}
    PROVE  a \div b \in Nat
  BY SMT

LEMMA DecayedIsNatural ==
    ASSUME NEW rec \in Counters!State, NEW t \in Nat
    PROVE  Counters!Decayed(rec, t) \in Nat
<1>1. Counters!QuietSince(rec) \in Nat
  BY DEF Counters!QuietSince, Counters!State
<1>2. CASE Decay > 0 /\ t > Counters!QuietSince(rec)
  <2> DEFINE periods == (t - Counters!QuietSince(rec)) \div Decay
  <2>1. periods \in Nat
    BY <1>1, <1>2, PeriodsAreNatural, EnforcementAssumption
  <2>2. Counters!Decayed(rec, t) = Counters!AtLeast(0, rec.offences - periods)
    BY <1>2 DEF Counters!Decayed
  <2> HIDE DEF periods
  <2> QED BY <2>1, <2>2 DEF Counters!AtLeast, Counters!State
<1>3. CASE ~(Decay > 0 /\ t > Counters!QuietSince(rec))
  BY <1>3 DEF Counters!Decayed, Counters!State
<1> QED BY <1>2, <1>3

LEMMA GetLockedType ==
    ASSUME Typed, NEW k \in Keys, NEW t \in Nat
    PROVE  /\ Counters!GetLocked(k, t) \in Counters!State
           /\ Counters!GetLocked(k, t).lastSeen = t
           /\ Counters!GetLocked(k, t).offences = st[k].offences
           /\ Counters!GetLocked(k, t).banUntil = st[k].banUntil
  BY NewStateIsState DEF Counters!GetLocked, Typed, TypedTables, Counters!State

LEMMA ClimbedType ==
    ASSUME NEW rec \in Counters!State, NEW n \in Nat, NEW t \in Nat
    PROVE  /\ Counters!Climbed(rec, n, t) \in Counters!State
           /\ Counters!Climbed(rec, n, t).lastSeen = rec.lastSeen
           /\ Counters!Climbed(rec, n, t).offences = n
           /\ Counters!Climbed(rec, n, t).banUntil = t + Counters!BanWindow(n)
<1> DEFINE w == Counters!BanWindow(n)
<1>1. w \in Nat \ {0}
  BY DurationIsNatural
<1>2. Counters!Climbed(rec, n, t)
        = [rec EXCEPT !.offences = n, !.lastOffence = t, !.banUntil = t + w]
  BY DEF Counters!Climbed
<1> HIDE DEF w
<1>3. t + w \in Nat
  BY <1>1
<1>4. /\ Counters!Climbed(rec, n, t) \in Counters!State
      /\ Counters!Climbed(rec, n, t).lastSeen = rec.lastSeen
      /\ Counters!Climbed(rec, n, t).offences = n
      /\ Counters!Climbed(rec, n, t).banUntil = t + w
  BY <1>2, <1>3 DEF Counters!State
<1> QED BY <1>4 DEF w

-----------------------------------------------------------------------------
(* What a request does to the counters. *)

LEMMA RequestType ==
    ASSUME Typed, NEW r \in Requests, req[r].pc # "idle"
    PROVE  /\ req[r] \in InFlight
           /\ Key(r) \in Sources /\ Key(r) \in Keys
           /\ Subnet(r) \in Ranges /\ Subnet(r) \in Keys
           /\ Dry(r) \in BOOLEAN /\ At(r) \in Nat \ {0} /\ req[r].offence \in Nat
<1>1. req[r] \in InFlight
  BY DEF Typed, TypedRequests, AtRest
<1> QED BY <1>1, EnforcementAssumption DEF InFlight, Key, Subnet, Dry, At, Keys

\* The record that recordOffence leaves for k.
Offended(r, k, fresh, offence, rec) ==
    /\ rec \in Counters!State
    /\ rec.lastSeen = At(r)
    /\ IF fresh THEN /\ st[k].banUntil <= At(r)
                     /\ offence > 0
                     /\ rec.offences = offence
                     /\ rec.banUntil = At(r) + Counters!BanWindow(offence)
       ELSE rec.offences = st[k].offences /\ rec.banUntil = st[k].banUntil

LEMMA RecordOffenceEffect ==
    ASSUME Typed, NEW r \in Requests, req[r].pc # "idle", NEW k \in Keys,
           NEW fresh \in BOOLEAN, NEW offence \in 0..(EndOfTime + 1),
           RecordOffence(r, k, fresh, offence)
    PROVE  /\ TalliesBecome(tally)
           /\ \E rec : Offended(r, k, fresh, offence, rec) /\ Notes(k, rec)
<1> DEFINE got == Counters!GetLocked(k, At(r))
           rec == IF fresh THEN Counters!Climbed(got, offence, At(r)) ELSE got
<1>1. At(r) \in Nat /\ offence \in Nat
  BY RequestType, EnforcementAssumption
<1>2. /\ got \in Counters!State /\ got.lastSeen = At(r)
      /\ got.offences = st[k].offences /\ got.banUntil = st[k].banUntil
  BY <1>1, GetLockedType
<1>3. /\ fresh = (got.banUntil <= At(r))
      /\ offence = IF fresh THEN Counters!Decayed(got, At(r)) + 1 ELSE got.offences
      /\ Counters!Put(k, rec)
      /\ TalliesBecome(tally)
  BY DEF RecordOffence
<1>4. Counters!Decayed(got, At(r)) \in Nat
  BY <1>1, <1>2, DecayedIsNatural
<1>5. Offended(r, k, fresh, offence, rec)
  <2>1. CASE fresh
    <3> HIDE DEF got
    <3>1. rec = Counters!Climbed(got, offence, At(r))
      BY <2>1, Zenon
    <3>2. got.banUntil <= At(r) /\ offence = Counters!Decayed(got, At(r)) + 1
      BY <1>3, <2>1, Zenon
    <3> HIDE DEF rec
    <3>3. st[k].banUntil <= At(r) /\ offence > 0
      BY <1>2, <1>4, <3>2
    <3>4. /\ rec \in Counters!State /\ rec.lastSeen = At(r) /\ rec.offences = offence
          /\ rec.banUntil = At(r) + Counters!BanWindow(offence)
      BY <1>1, <1>2, <3>1, ClimbedType
    <3> QED BY <2>1, <3>3, <3>4, Zenon DEF Offended
  <2>2. CASE ~fresh
    <3> HIDE DEF got
    <3>1. rec = got
      BY <2>2, Zenon
    <3> HIDE DEF rec
    <3> QED BY <1>2, <2>2, <3>1, Zenon DEF Offended
  <2> QED BY <2>1, <2>2
<1> HIDE DEF rec
<1>6. Notes(k, rec)
  BY <1>3, <1>5, CountersPut DEF Offended
<1> QED BY <1>3, <1>5, <1>6

\* noteSubnetBan only stamps the range's record.
LEMMA TallyNotes ==
    ASSUME Typed, NEW r \in Requests, req[r].pc # "idle", Tally(r)
    PROVE  \E rec \in Counters!State :
              /\ rec.lastSeen = At(r) /\ rec.offences = st[Subnet(r)].offences
              /\ rec.banUntil = st[Subnet(r)].banUntil
              /\ Notes(Subnet(r), rec)
<1> DEFINE rec == Counters!GetLocked(Subnet(r), At(r))
<1>1. Subnet(r) \in Keys /\ At(r) \in Nat
  BY RequestType
<1>2. /\ rec \in Counters!State
      /\ rec.lastSeen = At(r) /\ rec.offences = st[Subnet(r)].offences
      /\ rec.banUntil = st[Subnet(r)].banUntil
  BY <1>1, GetLockedType
<1>3. Counters!Put(Subnet(r), rec)
  BY DEF Tally
<1> HIDE DEF rec
<1> QED BY <1>1, <1>2, <1>3, CountersPut

\* The ban a request writes.
LEMMA BanForType ==
    ASSUME Typed, NEW r \in Requests, req[r].pc # "idle"
    PROVE  /\ BanFor(r) \in Real!Ban
           /\ ~BanFor(r).manual
           /\ BanFor(r).permanent => Counters!BanWindow(req[r].offence) = Horizon
           /\ ~BanFor(r).permanent =>
                 BanFor(r).at = At(r) + Counters!BanWindow(req[r].offence)
<1> DEFINE d == Counters!BanDuration(req[r].offence)
           w == Counters!BanWindow(req[r].offence)
<1>1. At(r) \in Nat /\ d \in Nat /\ (d # 0 => w = d) /\ (d = 0 => w = Horizon)
  BY RequestType, DurationIsNatural
<1>2. BanFor(r) = [manual |-> FALSE, permanent |-> d = 0, at |-> At(r) + d]
  BY DEF BanFor, Counters!Permanent
<1> HIDE DEF d, w
<1>3. CASE d = 0
  <2>1. BanFor(r) = [manual |-> FALSE, permanent |-> TRUE, at |-> At(r) + d]
    BY <1>2, <1>3
  <2>2. BanFor(r) \in Real!Ban /\ ~BanFor(r).manual /\ BanFor(r).permanent
    BY <1>1, <2>1 DEF Real!Ban
  <2> QED BY <1>1, <1>3, <2>2 DEF w
<1>4. CASE d # 0
  <2>1. BanFor(r) = [manual |-> FALSE, permanent |-> FALSE, at |-> At(r) + d]
    BY <1>2, <1>4
  <2>2. /\ BanFor(r) \in Real!Ban /\ ~BanFor(r).manual
        /\ ~BanFor(r).permanent /\ BanFor(r).at = At(r) + d
    BY <1>1, <2>1 DEF Real!Ban
  <2> QED BY <1>1, <1>4, <2>2 DEF w
<1> QED BY <1>3, <1>4

LEMMA PutBanEffect ==
    ASSUME Typed, NEW r \in Requests, req[r].pc # "idle", NEW k \in Keys, PutBan(r, k)
    PROVE  /\ now' = now
           /\ IF Dry(r) THEN Stores(shadow, shadow', k, BanFor(r)) /\ bans' = bans
                        ELSE Stores(bans, bans', k, BanFor(r)) /\ shadow' = shadow
<1>1. BanFor(r) \in Real!Ban /\ Table(bans) /\ Table(shadow)
  BY BanForType DEF Typed, TypedTables
<1> QED BY <1>1, RealPut, ShadowPut DEF PutBan

-----------------------------------------------------------------------------
(* What a request does to itself. *)

\* The only request that moves is r, and it is now at label.
Moves(r, label) ==
    /\ TypedRequests'
    /\ \A q \in Requests \ {r} : req'[q] = req[q]
    /\ req'[r].pc = label
    /\ label # "idle" => req'[r] \in InFlight

\* ... with the source and the dry run it had.
Carries(r) == req'[r].source = req[r].source /\ req'[r].dry = req[r].dry

LEMMA GotoEffect ==
    ASSUME Typed, NEW r \in Requests, req[r].pc # "idle", NEW label,
           label \in {"lookup", "detect", "backend", "record", "put", "tally", "recordRange",
                      "putRange"},
           Goto(r, label)
    PROVE  /\ Moves(r, label) /\ Carries(r)
           /\ req'[r].at = req[r].at /\ req'[r].offence = req[r].offence
<1>1. req[r] \in InFlight
  BY RequestType
<1>2. req'[r] = [req[r] EXCEPT !.pc = label]
  BY DEF Typed, TypedRequests, Goto
<1>3. /\ req'[r] \in InFlight /\ Carries(r) /\ req'[r].pc = label
      /\ req'[r].at = req[r].at /\ req'[r].offence = req[r].offence
  BY <1>1, <1>2 DEF InFlight, Carries
<1>4. TypedRequests' /\ \A q \in Requests \ {r} : req'[q] = req[q]
  BY <1>3 DEF Typed, TypedRequests, Goto
<1> QED BY <1>3, <1>4 DEF Moves

LEMMA EndsEffect ==
    ASSUME Typed, NEW r \in Requests, Ends(r)
    PROVE  Moves(r, "idle")
  BY DEF Typed, TypedRequests, Ends, Moves, AtRest

LEMMA ReturnEffect ==
    ASSUME Typed, NEW r \in Requests, req[r].pc # "idle", Return(r)
    PROVE  \/ Moves(r, "idle")
           \/ /\ Moves(r, "backend") /\ Carries(r)
              /\ req'[r].at = req[r].at /\ req'[r].offence = req[r].offence
<1>1. CASE Goto(r, "backend")
  BY <1>1, GotoEffect
<1>2. CASE Ends(r)
  BY <1>2, EndsEffect
<1> QED BY <1>1, <1>2 DEF Return

\* rec moved to label with an offence on its ladder.
MovedTo(rec, new, label, offence) ==
    /\ new \in InFlight /\ new.pc = label /\ new.source = rec.source
    /\ new.dry = rec.dry /\ new.at = rec.at /\ new.offence = offence

LEMMA MovedOn ==
    ASSUME NEW rec \in InFlight, NEW label \in {"put", "putRange"}, NEW offence \in Nat,
           NEW new, new = [rec EXCEPT !.pc = label, !.offence = offence]
    PROVE  MovedTo(rec, new, label, offence)
  BY DEF InFlight, MovedTo

\* An offence recorded: the request goes on to write the ban, or returns.
LEMMA OffenceEffect ==
    ASSUME Typed, NEW r \in Requests, req[r].pc # "idle", NEW label \in {"put", "putRange"},
           NEW offence \in Nat, req' = [req EXCEPT ![r].pc = label, ![r].offence = offence]
    PROVE  /\ Moves(r, label) /\ Carries(r)
           /\ req'[r].at = req[r].at /\ req'[r].offence = offence
<1>1. req[r] \in InFlight
  BY RequestType
<1>2. req'[r] = [req[r] EXCEPT !.pc = label, !.offence = offence]
  BY DEF Typed, TypedRequests
<1>3. MovedTo(req[r], req'[r], label, offence)
  BY <1>1, <1>2, MovedOn
<1>4. TypedRequests' /\ \A q \in Requests \ {r} : req'[q] = req[q]
  BY <1>3 DEF Typed, TypedRequests, MovedTo
<1> QED BY <1>3, <1>4 DEF Moves, Carries, MovedTo

LEMMA ArriveEffect ==
    ASSUME Typed, NEW r \in Requests, Arrive(r)
    PROVE  Moves(r, "lookup") /\ req'[r].dry = dryRun /\ req'[r].at = now
<1>1. PICK s \in Sources :
          req' = [req EXCEPT ![r] = [pc |-> "lookup", source |-> s, dry |-> dryRun,
                                     at |-> now, response |-> FALSE, offence |-> 0]]
  BY DEF Arrive
<1> DEFINE new == [pc |-> "lookup", source |-> s, dry |-> dryRun,
                   at |-> now, response |-> FALSE, offence |-> 0]
<1>2. /\ new \in InFlight /\ new.pc = "lookup" /\ new.dry = dryRun /\ new.at = now
  BY DEF Typed, TypedFlags, InFlight
<1>3. req'[r] = new /\ \A q \in Requests \ {r} : req'[q] = req[q]
  BY <1>1 DEF Typed, TypedRequests
<1> HIDE DEF new
<1>4. TypedRequests'
  BY <1>1, <1>2 DEF Typed, TypedRequests, new
<1> QED BY <1>2, <1>3, <1>4 DEF Moves

LEMMA RespondEffect ==
    ASSUME Typed, NEW r \in Requests, Respond(r)
    PROVE  \/ Moves(r, "idle")
           \/ Moves(r, "record") /\ Carries(r) /\ req'[r].at = now
<1>1. CASE Ends(r)
  BY <1>1, EndsEffect
<1>2. CASE req' = [req EXCEPT ![r].pc = "record", ![r].response = TRUE, ![r].at = now]
  <2>1. req[r] \in InFlight
    BY RequestType DEF Respond
  <2>2. req'[r] = [req[r] EXCEPT !.pc = "record", !.response = TRUE, !.at = now]
    BY <1>2 DEF Typed, TypedRequests
  <2>3. req'[r] \in InFlight /\ Carries(r) /\ req'[r].pc = "record" /\ req'[r].at = now
    BY <2>1, <2>2 DEF InFlight, Carries, Typed, TypedFlags
  <2>4. TypedRequests' /\ \A q \in Requests \ {r} : req'[q] = req[q]
    BY <1>2, <2>3 DEF Typed, TypedRequests
  <2> QED BY <2>3, <2>4 DEF Moves
<1> QED BY <1>1, <1>2 DEF Respond

\* What any step of a request does to it: it arrives with the published settings and the clock,
\* or goes on with its own settings and, but for the answer of a backend, its own clock.
RequestMoves(r) ==
    /\ TypedRequests'
    /\ \A q \in Requests \ {r} : req'[q] = req[q]
    /\ req'[r].pc # "idle" =>
          \/ req[r].pc = "idle" /\ req'[r].dry = dryRun /\ req'[r].at = now
          \/ /\ req[r].pc # "idle" /\ Carries(r)
             /\ \/ req'[r].at = now
                \/ /\ req'[r].at = req[r].at
                   /\ req[r].pc = "backend" => req'[r].pc = "backend"

LEMMA RequestStep ==
    ASSUME Typed, NEW r \in Requests, Request(r)
    PROVE  /\ RequestMoves(r)
           /\ now' = now /\ UNCHANGED <<dryRun, toggles, unbanning, janitor, overruled>>
<1> USE DEF RequestMoves, Moves, tables, history
<1>1. CASE Arrive(r)
  BY <1>1, ArriveEffect DEF Arrive
<1>2. CASE Lookup(r)
  BY <1>2, GotoEffect, EndsEffect DEF Lookup
<1>3. CASE Detect(r)
  BY <1>3, GotoEffect DEF Detect
<1>4. CASE Respond(r)
  BY <1>4, RespondEffect DEF Respond
<1>5. CASE Record(r)
  <2>1. PICK fresh \in BOOLEAN, offence \in 0..(EndOfTime + 1) :
          IF fresh THEN req' = [req EXCEPT ![r].pc = "put", ![r].offence = offence]
                   ELSE Return(r)
    BY <1>5 DEF Record
  <2>2. offence \in Nat
    BY EnforcementAssumption
  <2> QED BY <1>5, <2>1, <2>2, OffenceEffect, ReturnEffect DEF Record
<1>6. CASE PutSource(r)
  BY <1>6, GotoEffect, PutBanEffect, RequestType DEF PutSource
<1>7. CASE Tally(r)
  BY <1>7, GotoEffect, ReturnEffect DEF Tally
<1>8. CASE RecordRange(r)
  <2>1. PICK fresh \in BOOLEAN, offence \in 0..(EndOfTime + 1) :
          IF fresh THEN req' = [req EXCEPT ![r].pc = "putRange", ![r].offence = offence]
                   ELSE Return(r)
    BY <1>8 DEF RecordRange
  <2>2. offence \in Nat
    BY EnforcementAssumption
  <2> QED BY <1>8, <2>1, <2>2, OffenceEffect, ReturnEffect DEF RecordRange
<1>9. CASE PutRange(r)
  BY <1>9, ReturnEffect, PutBanEffect, RequestType DEF PutRange
<1> QED BY <1>1, <1>2, <1>3, <1>4, <1>5, <1>6, <1>7, <1>8, <1>9 DEF Request

-----------------------------------------------------------------------------
(* Typing. *)

LEMMA TalliesType ==
    ASSUME NEW new \in [Ranges -> [dry : BOOLEAN, hits : [Sources -> Nat]]], TalliesBecome(new)
    PROVE  /\ tally' \in [Ranges -> [dry : BOOLEAN, hits : [Sources -> Nat]]]
           /\ \A g \in Ranges \ tracked' : tally'[g] = NoTally
<1>1. NoTally \in [dry : BOOLEAN, hits : [Sources -> Nat]]
  BY DEF NoTally
<1> QED BY <1>1 DEF TalliesBecome

LEMMA TalliedType ==
    ASSUME Typed, NEW r \in Requests, req[r].pc # "idle"
    PROVE  Tallied(r) \in [dry : BOOLEAN, hits : [Sources -> Nat]]
<1> DEFINE hits == [m \in Sources |->
                 IF Trips(r) \/ m \notin Counted(r) THEN 0
                 ELSE IF m = Key(r) THEN At(r) ELSE tally[Subnet(r)].hits[m]]
<1>1. hits \in [Sources -> Nat]
  BY RequestType DEF Typed, TypedTables
<1>2. Tallied(r) = [dry |-> Dry(r), hits |-> hits]
  BY DEF Tallied
<1> HIDE DEF hits
<1> QED BY <1>1, <1>2, RequestType

LEMMA NotesType ==
    ASSUME Typed, NEW k \in Keys, NEW rec, Notes(k, rec),
           NEW new \in [Ranges -> [dry : BOOLEAN, hits : [Sources -> Nat]]], TalliesBecome(new),
           bans' = bans, shadow' = shadow
    PROVE  TypedTables'
  BY TalliesType DEF Typed, TypedTables, Notes, Table

LEMMA LosesType ==
    ASSUME Typed, NEW K \in SUBSET Keys, Loses(K), TalliesBecome(tally),
           Table(bans'), Table(shadow')
    PROVE  TypedTables'
  BY TalliesType DEF Typed, TypedTables, Loses, Table

LEMMA ListsType ==
    ASSUME Typed, Table(bans'), Table(shadow'), UNCHANGED <<tracked, st, tally>>
    PROVE  TypedTables'
  BY DEF Typed, TypedTables, Table

LEMMA TallyType ==
    ASSUME Typed, NEW r \in Requests, Tally(r)
    PROVE  TypedTables' /\ earned' \in [Sources -> Nat] /\ UNCHANGED <<bans, shadow>>
<1>1. req[r].pc # "idle" /\ Subnet(r) \in Keys /\ Subnet(r) \in Ranges /\ At(r) \in Nat
  BY RequestType DEF Tally
<1>2. [tally EXCEPT ![Subnet(r)] = Tallied(r)]
        \in [Ranges -> [dry : BOOLEAN, hits : [Sources -> Nat]]]
  BY <1>1, TalliedType DEF Typed, TypedTables
<1>3. TypedTables'
  <2>1. PICK rec \in Counters!State : Notes(Subnet(r), rec)
    BY <1>1, TallyNotes
  <2> QED BY <1>1, <1>2, <2>1, NotesType DEF Tally
<1>4. earned' \in [Sources -> Nat]
  <2>1. \A s \in Sources : Counters!AtLeast(earned[s], At(r)) \in Nat
    BY <1>1 DEF Typed, TypedHistory, Counters!AtLeast
  <2> QED BY <2>1 DEF Tally, Typed, TypedHistory
<1> QED BY <1>3, <1>4 DEF Tally

LEMMA RequestTyped ==
    ASSUME Typed, NEW r \in Requests, Request(r)
    PROVE  TypedTables' /\ earned' \in [Sources -> Nat] /\ raced' \in [Requests -> SUBSET Keys]
<1> USE DEF tables, history
<1>1. CASE Arrive(r) \/ Lookup(r) \/ Detect(r) \/ Respond(r)
  BY <1>1 DEF Arrive, Lookup, Detect, Respond, Typed, TypedTables, TypedHistory, Table
<1>2. CASE Record(r) \/ RecordRange(r)
  <2>1. PICK k \in Keys, fresh \in BOOLEAN, offence \in 0..(EndOfTime + 1) :
          req[r].pc # "idle" /\ RecordOffence(r, k, fresh, offence)
    BY <1>2, RequestType DEF Record, RecordRange
  <2>2. PICK rec : Notes(k, rec) /\ TalliesBecome(tally)
    BY <2>1, RecordOffenceEffect
  <2> QED BY <1>2, <2>2, NotesType DEF Record, RecordRange, Typed, TypedTables, TypedHistory
<1>3. CASE PutSource(r) \/ PutRange(r)
  <2>1. PICK k \in Keys : req[r].pc # "idle" /\ PutBan(r, k)
    BY <1>3, RequestType DEF PutSource, PutRange
  <2>2. Table(bans') /\ Table(shadow')
    BY <2>1, PutBanEffect DEF Stores, Typed, TypedTables, Table
  <2> QED BY <1>3, <2>2, ListsType DEF PutSource, PutRange, Typed, TypedHistory
<1>4. CASE Tally(r)
  BY <1>4, TallyType DEF Tally, Typed, TypedHistory
<1> QED BY <1>1, <1>2, <1>3, <1>4 DEF Request

LEMMA BanManualEffect ==
    ASSUME Typed, NEW b \in ManualBans, BanManual(b[1], b[2])
    PROVE  /\ b[1] \in Keys /\ b[2] \in Nat
           /\ Stores(bans, bans', b[1], [manual |-> TRUE, permanent |-> b[2] = 0,
                                         at |-> now + b[2]])
           /\ now' = now
<1>1. b[1] \in Keys /\ b[2] \in Nat
  BY EnforcementAssumption
<1> DEFINE ban == [manual |-> TRUE, permanent |-> b[2] = 0, at |-> now + b[2]]
<1>2. Real!Put(b[1], ban)
  BY DEF BanManual, Counters!Permanent
<1>3. ban \in Real!Ban
  BY <1>1 DEF Typed, TypedFlags, Real!Ban
<1> HIDE DEF ban
<1>4. Stores(bans, bans', b[1], ban) /\ now' = now
  BY <1>1, <1>2, <1>3, RealPut DEF Typed, TypedTables
<1> QED BY <1>1, <1>4 DEF ban

LEMMA UnbanEffect ==
    ASSUME Typed, NEW k \in UnbanKeys, Unban(k)
    PROVE  /\ k \in Keys /\ now' = now
           /\ \/ /\ Retains(bans, bans', Keys \ {k})
                 /\ unbanning' = unbanning \cup {k}
                 /\ UNCHANGED <<tracked, st, tally, overruled>>
              \/ /\ Loses({k}) /\ TalliesBecome(tally) /\ bans' = bans
                 /\ unbanning' = unbanning \ {k}
                 /\ overruled' = IF UnderBan(k, TRUE) \/ UnderBan(k, FALSE)
                                 THEN overruled \cup {k} ELSE overruled \ {k}
<1>1. k \in Keys
  BY EnforcementAssumption
<1>2. CASE DeleteBan(k) /\ unbanning' = unbanning \cup {k}
  BY <1>1, <1>2, RealDelete DEF DeleteBan, Typed, TypedTables
<1>3. CASE ForgetKey(k) /\ unbanning' = unbanning \ {k}
  BY <1>1, <1>3, CountersDrop DEF ForgetKey
<1> QED BY <1>1, <1>2, <1>3 DEF Unban

\* The janitor takes expired bans, and records that hold no rung and have been idle.
Sweepable == {k \in tracked : ~Counters!HoldsRung(st[k]) /\ st[k].lastSeen < now - IdleTime}

LEMMA JanitorEffect ==
    ASSUME Typed, Janitor
    PROVE  /\ now' = now
           /\ \/ Retains(bans, bans', Real!Live(now)) /\ UNCHANGED <<tracked, st, tally, shadow>>
              \/ /\ Retains(shadow, shadow', Shadow!Live(now))
                 /\ UNCHANGED <<tracked, st, tally, bans>>
              \/ Loses(Sweepable) /\ TalliesBecome(tally) /\ UNCHANGED <<bans, shadow>>
<1>1. CASE SweepReal
  BY <1>1, RealSweep DEF SweepReal, Typed, TypedTables
<1>2. CASE SweepShadow
  BY <1>2, ShadowSweep DEF SweepShadow, Typed, TypedTables
<1>3. CASE SweepCounters
  <2>1. Sweepable \in SUBSET Keys
    BY DEF Sweepable, Typed, TypedTables
  <2>2. Counters!Drop(Sweepable) /\ now' = now
    BY <1>3 DEF SweepCounters, Counters!Sweep, Sweepable
  <2> QED BY <1>3, <2>1, <2>2, CountersDrop DEF SweepCounters
<1> QED BY <1>1, <1>2, <1>3 DEF Janitor

LEMMA InitTyped == Init => Typed
<1> SUFFICES ASSUME Init PROVE Typed
  OBVIOUS
<1>1. TypedFlags /\ TypedRequests /\ TypedHistory
  BY EnforcementAssumption DEF Init, TypedFlags, TypedRequests, TypedHistory
<1>2. NoTally \in [dry : BOOLEAN, hits : [Sources -> Nat]]
  BY DEF NoTally
<1>3. Table(bans) /\ Table(shadow)
  BY DEF Init, NoBans, Table
<1>4. TypedTables
  BY <1>2, <1>3, NewStateIsState DEF Init, TypedTables
<1> QED BY <1>1, <1>4 DEF Typed

LEMMA NextTyped == Typed /\ [Next]_vars => Typed'
<1> SUFFICES ASSUME Typed, [Next]_vars PROVE Typed'
  OBVIOUS
<1> USE DEF Typed, tables, history
<1>1. CASE \E r \in Requests : Request(r)
  <2>1. PICK r \in Requests : Request(r)
    BY <1>1
  <2>2. TypedFlags' /\ TypedRequests' /\ UNCHANGED <<unbanning, overruled>>
    BY <2>1, RequestStep DEF RequestMoves, TypedFlags
  <2> QED BY <2>1, <2>2, RequestTyped DEF TypedHistory
<1>2. CASE \E b \in ManualBans : BanManual(b[1], b[2])
  <2>1. PICK b \in ManualBans : BanManual(b[1], b[2])
    BY <1>2
  <2>2. b[1] \in Keys /\ Table(bans') /\ now' = now
    BY <2>1, BanManualEffect DEF Stores
  <2>3. TypedTables'
    BY <2>1, <2>2, ListsType DEF BanManual, TypedTables, Table
  <2>4. TypedFlags' /\ TypedRequests'
    BY <2>1, <2>2 DEF BanManual, TypedFlags, TypedRequests
  <2>5. TypedHistory'
    BY <2>1, <2>2 DEF BanManual, TypedHistory
  <2> QED BY <2>3, <2>4, <2>5
<1>3. CASE \E k \in UnbanKeys : Unban(k)
  <2>1. PICK k \in UnbanKeys : Unban(k)
    BY <1>3
  <2>2. k \in Keys /\ now' = now /\ unbanning' \subseteq Keys /\ overruled' \subseteq Keys
    BY <2>1, UnbanEffect DEF TypedHistory
  <2>3. TypedTables'
    <3>1. CASE Retains(bans, bans', Keys \ {k}) /\ UNCHANGED <<tracked, st, tally>>
      BY <2>1, <3>1, ListsType DEF Unban, Retains, TypedTables, Table
    <3>2. CASE Loses({k}) /\ TalliesBecome(tally) /\ bans' = bans
      BY <2>1, <2>2, <3>2, LosesType DEF Unban, TypedTables, Table
    <3> QED BY <2>1, <3>1, <3>2, UnbanEffect
  <2> QED BY <2>1, <2>2, <2>3 DEF Unban, TypedFlags, TypedRequests, TypedHistory
<1>4. CASE SwitchDryRun
  BY <1>4 DEF SwitchDryRun, TypedFlags, TypedTables, Table, TypedRequests, TypedHistory
<1>5. CASE Janitor
  <2>1. TypedTables'
    <3>1. Sweepable \in SUBSET Keys
      BY DEF Sweepable, TypedTables
    <3> QED BY <1>5, <3>1, JanitorEffect, ListsType, LosesType DEF Retains, TypedTables, Table
  <2>2. TypedFlags'
    BY <1>5, JanitorEffect DEF Janitor, SweepReal, SweepShadow, SweepCounters, TypedFlags
  <2> QED BY <1>5, <2>1, <2>2 DEF Janitor, TypedRequests, TypedHistory
<1>6. CASE Tick
  BY <1>6, EnforcementAssumption
     DEF Tick, TypedFlags, TypedTables, Table, TypedRequests, TypedHistory
<1>7. CASE UNCHANGED vars
  BY <1>7 DEF vars, TypedFlags, TypedTables, Table, TypedRequests, TypedHistory
<1> QED BY <1>1, <1>2, <1>3, <1>4, <1>5, <1>6, <1>7 DEF Next

\* The types hold, and every record outside the tables is blank.
THEOREM TypesHold == Spec => []Typed
  BY InitTyped, NextTyped, PTL DEF Spec

-----------------------------------------------------------------------------
(* The clock and the settings of a request. *)

LEMMA InitPunctual == Init => Punctual
  BY DEF Init, Punctual, AtRest

LEMMA NextPunctual == Typed /\ Punctual /\ [Next]_vars => Punctual'
<1> SUFFICES ASSUME Typed, Punctual, [Next]_vars PROVE Punctual'
  OBVIOUS
<1> USE DEF At
<1>1. CASE \E r \in Requests : Request(r)
  <2>1. PICK r \in Requests : Request(r)
    BY <1>1
  <2>2. RequestMoves(r) /\ now' = now
    BY <2>1, RequestStep
  <2> QED BY <2>2, EnforcementAssumption DEF RequestMoves, Punctual, Typed, TypedFlags
<1>2. CASE \E b \in ManualBans : BanManual(b[1], b[2])
  BY <1>2, BanManualEffect DEF BanManual, Punctual
<1>3. CASE \E k \in UnbanKeys : Unban(k)
  BY <1>3, UnbanEffect DEF Unban, Punctual
<1>4. CASE SwitchDryRun
  BY <1>4 DEF SwitchDryRun, Punctual
<1>5. CASE Janitor
  BY <1>5, JanitorEffect DEF Janitor, Punctual
<1>6. CASE Tick
  <2>1. \A q \in Requests : req[q].pc # "idle" => At(q) \in Nat
    BY RequestType
  <2> QED BY <1>6, <2>1, EnforcementAssumption DEF Tick, Punctual, Typed, TypedFlags
<1>7. CASE UNCHANGED vars
  BY <1>7 DEF vars, Punctual
<1> QED BY <1>1, <1>2, <1>3, <1>4, <1>5, <1>6, <1>7 DEF Next

-----------------------------------------------------------------------------
(* The operator's bans. *)

HeldByHand(k) == k \in DOMAIN bans /\ bans[k].manual /\ Real!Active(bans[k], now)

\* A request past the lookup whose source the operator holds was in flight when the ban was set.
RacesAreNoted ==
    \A r \in Requests : req[r].pc \notin {"idle", "lookup"} =>
        (HeldByHand(Key(r)) => Key(r) \in raced[r])

\* The only bans a request changes are of its own source, or of that source's range.
LEMMA RequestBans ==
    ASSUME Typed, NEW r \in Requests, Request(r)
    PROVE  \/ bans' = bans
           \/ /\ req[r].pc \in {"put", "putRange"}
              /\ Stores(bans, bans', IF req[r].pc = "put" THEN Key(r) ELSE Subnet(r), BanFor(r))
              /\ ~BanFor(r).manual
<1>1. CASE PutSource(r)
  BY <1>1, PutBanEffect, RequestType, BanForType DEF PutSource
<1>2. CASE PutRange(r)
  BY <1>2, PutBanEffect, RequestType, BanForType DEF PutRange
<1>3. CASE Record(r) \/ RecordRange(r) \/ Tally(r)
  BY <1>3 DEF Record, RecordRange, Tally
<1>4. CASE Arrive(r) \/ Lookup(r) \/ Detect(r) \/ Respond(r)
  BY <1>4 DEF Arrive, Lookup, Detect, Respond, tables
<1> QED BY <1>1, <1>2, <1>3, <1>4 DEF Request

LEMMA LookupSeesOperatorsBan ==
    ASSUME Typed, Punctual, NEW r \in Requests, Lookup(r), HeldByHand(Key(r))
    PROVE  req'[r].pc = "idle"
<1>1. req[r].pc # "idle" /\ At(r) \in Nat /\ At(r) <= now /\ now \in Nat
  BY RequestType DEF Lookup, Punctual, Typed, TypedFlags
<1>2. bans[Key(r)].at \in Nat
  BY DEF HeldByHand, Typed, TypedTables, Table, Real!Ban
<1>3. Key(r) \in Real!Get(Key(r), At(r))
  BY <1>1, <1>2 DEF Real!Get, Real!Lookup, Real!Held, HeldByHand, Real!Active
<1> QED BY <1>3, EndsEffect DEF Lookup, Refused, Moves

LEMMA NextRaces == Typed /\ Punctual /\ RacesAreNoted /\ [Next]_vars => RacesAreNoted'
<1> SUFFICES ASSUME Typed, Punctual, RacesAreNoted, [Next]_vars PROVE RacesAreNoted'
  OBVIOUS
<1> USE DEF HeldByHand, Key, Real!Active
<1>1. CASE \E r \in Requests : Request(r)
  <2>1. PICK r \in Requests : Request(r)
    BY <1>1
  <2>2. RequestMoves(r) /\ now' = now
    BY <2>1, RequestStep
  <2>3. \A k \in DOMAIN bans' : bans'[k].manual => k \in DOMAIN bans /\ bans'[k] = bans[k]
    BY <2>1, RequestBans DEF Stores
  <2>4. raced' = IF Arrive(r) THEN [raced EXCEPT ![r] = {}] ELSE raced
    BY <2>1 DEF Request, Arrive, Lookup, Detect, Respond, Record, PutSource, Tally, RecordRange,
                PutRange, history
  <2>5. ASSUME NEW q \in Requests, req'[q].pc \notin {"idle", "lookup"}, HeldByHand(Key(q))'
        PROVE  req'[q].source \in raced'[q]
    <3>1. CASE q # r
      <4>1. req'[q] = req[q] /\ HeldByHand(Key(q))
        BY <2>2, <2>3, <2>5, <3>1 DEF RequestMoves
      <4> QED BY <2>4, <2>5, <3>1, <4>1 DEF RacesAreNoted, Typed, TypedHistory
    <3>2. CASE q = r
      <4>1. ~Arrive(r) /\ raced' = raced
        BY <2>1, <2>4, <2>5, <3>2, ArriveEffect DEF Moves
      <4>2. req[r].pc # "idle"
        BY <2>1, <4>1 DEF Request, Lookup, Detect, Respond, Record, PutSource, Tally,
                          RecordRange, PutRange
      <4>3. req'[r].source = req[r].source
        BY <2>2, <2>5, <3>2, <4>2 DEF RequestMoves, Carries
      <4>4. HeldByHand(Key(r))
        BY <2>2, <2>3, <2>5, <3>2, <4>3
      <4>5. req[r].pc # "lookup"
        BY <2>1, <2>5, <3>2, <4>1, <4>4, LookupSeesOperatorsBan
           DEF Request, Lookup, Detect, Respond, Record, PutSource, Tally, RecordRange, PutRange
      <4> QED BY <3>2, <4>1, <4>2, <4>3, <4>4, <4>5 DEF RacesAreNoted
    <3> QED BY <3>1, <3>2
  <2> QED BY <2>5 DEF RacesAreNoted
<1>2. CASE \E b \in ManualBans : BanManual(b[1], b[2])
  <2>1. PICK b \in ManualBans : BanManual(b[1], b[2])
    BY <1>2
  <2>2. /\ DOMAIN bans' \subseteq DOMAIN bans \cup {b[1]} /\ now' = now
        /\ \A k \in DOMAIN bans' \ {b[1]} : bans'[k] = bans[k]
    BY <2>1, BanManualEffect DEF Stores
  <2>3. /\ req' = req
        /\ raced' = [r \in Requests |-> IF req[r].pc = "idle" THEN {} ELSE raced[r] \cup {b[1]}]
    BY <2>1 DEF BanManual
  <2> QED BY <2>2, <2>3 DEF RacesAreNoted
<1>3. CASE \E k \in UnbanKeys : Unban(k)
  <2>1. PICK k \in UnbanKeys : Unban(k)
    BY <1>3
  <2>2. /\ DOMAIN bans' \subseteq DOMAIN bans /\ now' = now
        /\ \A p \in DOMAIN bans' : bans'[p] = bans[p]
    BY <2>1, UnbanEffect DEF Retains
  <2> QED BY <2>1, <2>2 DEF Unban, RacesAreNoted
<1>4. CASE SwitchDryRun
  BY <1>4 DEF SwitchDryRun, RacesAreNoted, history, tables
<1>5. CASE Janitor
  <2>1. /\ DOMAIN bans' \subseteq DOMAIN bans /\ now' = now
        /\ \A p \in DOMAIN bans' : bans'[p] = bans[p]
    BY <1>5, JanitorEffect DEF Retains
  <2> QED BY <1>5, <2>1 DEF Janitor, RacesAreNoted, history
<1>6. CASE Tick
  <2>1. \A k \in DOMAIN bans : bans[k].at \in Nat
    BY DEF Typed, TypedTables, Table, Real!Ban
  <2> QED BY <1>6, <2>1 DEF Tick, RacesAreNoted, history, tables, Typed, TypedFlags
<1>7. CASE UNCHANGED vars
  BY <1>7 DEF vars, RacesAreNoted
<1> QED BY <1>1, <1>2, <1>3, <1>4, <1>5, <1>6, <1>7 DEF Next

LEMMA InitRaces == Init => RacesAreNoted
  BY DEF Init, RacesAreNoted, AtRest

\* The ban an operator put on a source stands: the request that replaces it while it is in force
\* was in flight when the operator set it.
THEOREM OperatorsBanStandsAlways == Spec => OperatorsBanStands
<1> DEFINE Replaced(r, k) ==
             /\ Request(r)
             /\ k \in Real!Live(now) /\ bans[k].manual
             /\ k \in DOMAIN bans' /\ ~bans'[k].manual
<1>1. ASSUME Typed, RacesAreNoted, NEW r \in Requests, NEW k \in Sources, Replaced(r, k)
      PROVE  k \in raced[r]
  <2>1. bans'[k] # bans[k] /\ HeldByHand(k)
    BY <1>1 DEF HeldByHand, Real!Live, Real!Held
  <2>2. /\ req[r].pc \in {"put", "putRange"}
        /\ Stores(bans, bans', IF req[r].pc = "put" THEN Key(r) ELSE Subnet(r), BanFor(r))
    BY <1>1, <2>1, RequestBans
  <2>3. k = IF req[r].pc = "put" THEN Key(r) ELSE Subnet(r)
    BY <1>1, <2>1, <2>2 DEF Stores
  <2>4. k = Key(r)
    BY <1>1, <2>2, <2>3, RequestType, EnforcementAssumption
  <2> QED BY <1>1, <2>1, <2>2, <2>4 DEF RacesAreNoted
<1>2. Typed /\ RacesAreNoted =>
        [\A r \in Requests, k \in Sources : Replaced(r, k) => k \in raced[r]]_vars
  BY <1>1
<1> QED BY <1>2, InitTyped, NextTyped, InitPunctual, NextPunctual, InitRaces, NextRaces, PTL
        DEF Spec, OperatorsBanStands

-----------------------------------------------------------------------------
(* The member counts of ranges. *)

\* A member counted by an enforcing request was really banned when the count says, and no trip
\* has used it up since.
CountsAreEarned ==
    \A g \in Ranges, s \in Sources : tally[g].hits[s] > 0 =>
        RangeOf[s] = g /\ (~tally[g].dry => earned[s] >= tally[g].hits[s])

\* The record of a range was seen no more than Patience before its latest member.
CountsAreFresh ==
    \A g \in Ranges, s \in Sources : tally[g].hits[s] > 0 =>
        tally[g].hits[s] <= now /\ tally[g].hits[s] <= st[g].lastSeen + Patience

LEMMA HitsAreCounts ==
    ASSUME Typed, NEW g \in Ranges, NEW dry, NEW s \in Sources, Hits(g, dry)[s] > 0
    PROVE  tally[g].dry = dry /\ Hits(g, dry)[s] = tally[g].hits[s]
<1>1. NoTally.hits[s] = 0
  BY DEF NoTally
<1> QED BY <1>1 DEF Hits

LEMMA CountedMembers ==
    ASSUME Typed, NEW r \in Requests, req[r].pc # "idle", NEW s \in Counted(r), s # Key(r)
    PROVE  /\ s \in Sources /\ tally[Subnet(r)].dry = Dry(r)
           /\ tally[Subnet(r)].hits[s] > 0 /\ tally[Subnet(r)].hits[s] > At(r) - Window
  BY HitsAreCounts, RequestType DEF Counted

\* What a tally that is kept holds after the step: its own counts, or fewer.
LEMMA CountsOnlyLost ==
    ASSUME Typed, TalliesBecome(tally), NEW g \in Ranges, NEW s \in Sources,
           tally'[g].hits[s] > 0
    PROVE  g \in tracked' /\ tally'[g] = tally[g]
<1>1. NoTally.hits[s] = 0
  BY DEF NoTally
<1> QED BY <1>1 DEF TalliesBecome

\* A tally after a member of the range was counted.
LEMMA TallyCounts ==
    ASSUME Typed, NEW r \in Requests, Tally(r), NEW g \in Ranges, NEW s \in Sources,
           tally'[g].hits[s] > 0
    PROVE  IF g # Subnet(r) THEN tally'[g] = tally[g] ELSE
           /\ ~Trips(r) /\ tally'[g].dry = Dry(r)
           /\ \/ s = Key(r) /\ tally'[g].hits[s] = At(r)
              \/ /\ s \in Counted(r) /\ s # Key(r)
                 /\ tally'[g].hits[s] = tally[g].hits[s]
<1>1. NoTally.hits[s] = 0
  BY DEF NoTally
<1>2. tally'[g] = [tally EXCEPT ![Subnet(r)] = Tallied(r)][g]
  BY <1>1 DEF Tally, TalliesBecome
<1>3. tally'[g] = IF g = Subnet(r) THEN Tallied(r) ELSE tally[g]
  BY <1>2 DEF Typed, TypedTables
<1>4. /\ Tallied(r).dry = Dry(r)
      /\ Tallied(r).hits[s] = IF Trips(r) \/ s \notin Counted(r) THEN 0
                              ELSE IF s = Key(r) THEN At(r) ELSE tally[Subnet(r)].hits[s]
  BY DEF Tallied
<1> QED BY <1>3, <1>4

LEMMA InitCounts == Init => CountsAreEarned /\ CountsAreFresh
  BY DEF Init, NoTally, CountsAreEarned, CountsAreFresh

LEMMA TallyStep ==
    ASSUME Typed, Punctual, CountsAreEarned, CountsAreFresh, NEW r \in Requests, Tally(r)
    PROVE  CountsAreEarned' /\ CountsAreFresh'
<1>1. /\ req[r].pc # "idle" /\ req[r].pc # "backend" /\ now' = now /\ now \in Nat
      /\ Key(r) \in Sources /\ Subnet(r) \in Keys /\ Subnet(r) \in Ranges /\ At(r) \in Nat
  BY RequestType DEF Tally, Typed, TypedFlags
<1>2. At(r) <= now /\ now <= At(r) + Patience
  BY <1>1 DEF Punctual
<1>3. PICK rec \in Counters!State : rec.lastSeen = At(r) /\ Notes(Subnet(r), rec)
  BY <1>1, TallyNotes
<1>4. ASSUME NEW g \in Ranges, NEW s \in Sources, tally'[g].hits[s] > 0
      PROVE  /\ RangeOf[s] = g /\ (~tally'[g].dry => earned'[s] >= tally'[g].hits[s])
             /\ tally'[g].hits[s] <= now' /\ tally'[g].hits[s] <= st'[g].lastSeen + Patience
  <2>1. /\ earned[s] \in Nat /\ tally[g].hits[s] \in Nat /\ st[g].lastSeen \in Nat
        /\ earned' = IF Dry(r) THEN earned
                     ELSE [m \in Sources |->
                             IF Trips(r) /\ m \in Counted(r) THEN 0
                             ELSE IF m = Key(r) THEN Counters!AtLeast(earned[m], At(r))
                             ELSE earned[m]]
    <3>1. earned[s] \in Nat /\ tally[g].hits[s] \in Nat
      BY DEF Typed, TypedTables, TypedHistory
    <3>2. st[g].lastSeen \in Nat
      BY DEF Typed, TypedTables, Counters!State, Keys
    <3> QED BY <3>1, <3>2, Zenon DEF Tally
  <2>2. g \in tracked' /\ st'[g].lastSeen = IF g = Subnet(r) THEN At(r) ELSE st[g].lastSeen
    <3>1. g \in tracked'
      <4>1. NoTally.hits[s] = 0
        BY DEF NoTally
      <4> QED BY <1>4, <4>1 DEF Tally, TalliesBecome
    <3> QED BY <1>3, <3>1 DEF Notes
  <2>3. CASE g # Subnet(r)
    <3>1. tally'[g] = tally[g] /\ tally[g].hits[s] > 0
      BY <1>4, <2>3, TallyCounts
    <3>2. RangeOf[s] = g /\ s # Key(r)
      BY <2>3, <3>1 DEF CountsAreEarned, Subnet
    <3>3. s \notin Counted(r)
      BY <1>1, <2>3, <3>2, CountedMembers DEF CountsAreEarned
    <3>4. earned'[s] = earned[s]
      BY <2>1, <3>2, <3>3
    <3> QED BY <1>1, <2>2, <2>3, <3>1, <3>2, <3>4 DEF CountsAreEarned, CountsAreFresh
  <2>4. CASE g = Subnet(r)
    <3>1. /\ ~Trips(r) /\ tally'[g].dry = Dry(r)
          /\ \/ s = Key(r) /\ tally'[g].hits[s] = At(r)
             \/ s \in Counted(r) /\ s # Key(r) /\ tally'[g].hits[s] = tally[g].hits[s]
      BY <1>4, <2>4, TallyCounts
    <3>2. CASE s = Key(r) /\ tally'[g].hits[s] = At(r)
      <4>1. ~Dry(r) => earned'[s] >= At(r)
        BY <1>1, <2>1, <3>1, <3>2 DEF Counters!AtLeast
      <4> QED BY <1>1, <1>2, <2>2, <2>4, <3>1, <3>2, <4>1, EnforcementAssumption DEF Subnet
    <3>3. CASE s \in Counted(r) /\ s # Key(r) /\ tally'[g].hits[s] = tally[g].hits[s]
      <4>1. tally[g].hits[s] > 0 /\ tally[g].dry = Dry(r)
        BY <1>1, <2>4, <3>3, CountedMembers
      <4>2. ~Dry(r) => earned'[s] = earned[s]
        BY <2>1, <3>1, <3>3
      <4>3. tally[g].hits[s] <= now /\ RangeOf[s] = g
        BY <4>1 DEF CountsAreEarned, CountsAreFresh
      <4>4. ~Dry(r) => earned[s] >= tally[g].hits[s]
        BY <4>1 DEF CountsAreEarned
      <4> QED BY <1>1, <1>2, <2>1, <2>2, <2>4, <3>1, <3>3, <4>2, <4>3, <4>4,
                 EnforcementAssumption
    <3> QED BY <3>1, <3>2, <3>3
  <2> QED BY <2>3, <2>4
<1> QED BY <1>4 DEF CountsAreEarned, CountsAreFresh

LEMMA OtherRequestStep ==
    ASSUME Typed, Punctual, CountsAreEarned, CountsAreFresh, NEW r \in Requests,
           Request(r), ~Tally(r)
    PROVE  CountsAreEarned' /\ CountsAreFresh'
<1>1. now' = now
  BY RequestStep
<1>2. CASE Record(r) \/ RecordRange(r)
  <2>1. PICK k \in Keys, fresh \in BOOLEAN, offence \in 0..(EndOfTime + 1) :
          RecordOffence(r, k, fresh, offence)
    BY <1>2, RequestType DEF Record, RecordRange
  <2>2. req[r].pc # "idle" /\ req[r].pc # "backend" /\ earned' = earned
    BY <1>2 DEF Record, RecordRange, history
  <2>3. PICK rec : /\ Offended(r, k, fresh, offence, rec) /\ Notes(k, rec)
                   /\ TalliesBecome(tally)
    BY <2>1, <2>2, RecordOffenceEffect
  <2>4. now <= At(r) + Patience /\ At(r) \in Nat /\ now \in Nat
    BY <2>2, RequestType DEF Punctual, Typed, TypedFlags
  <2>5. ASSUME NEW g \in Ranges, NEW s \in Sources, tally'[g].hits[s] > 0
        PROVE  /\ RangeOf[s] = g /\ (~tally'[g].dry => earned'[s] >= tally'[g].hits[s])
               /\ tally'[g].hits[s] <= now' /\ tally'[g].hits[s] <= st'[g].lastSeen + Patience
    <3>1. g \in tracked' /\ tally'[g] = tally[g] /\ tally[g].hits[s] > 0
      BY <2>3, <2>5, CountsOnlyLost
    <3>2. st'[g].lastSeen = st[g].lastSeen \/ st'[g].lastSeen = At(r)
      BY <2>3, <3>1 DEF Notes, Offended
    <3>3. tally[g].hits[s] \in Nat
      BY DEF Typed, TypedTables
    <3> QED BY <1>1, <2>2, <2>4, <3>1, <3>2, <3>3, EnforcementAssumption
            DEF CountsAreEarned, CountsAreFresh
  <2> QED BY <2>5 DEF CountsAreEarned, CountsAreFresh
<1>3. CASE ~(Record(r) \/ RecordRange(r))
  <2>1. UNCHANGED <<tally, st, earned>>
    BY <1>3 DEF Request, Arrive, Lookup, Detect, Respond, PutSource, PutRange, tables, history
  <2> QED BY <1>1, <2>1 DEF CountsAreEarned, CountsAreFresh
<1> QED BY <1>2, <1>3

LEMMA NextCounts ==
    Typed /\ Punctual /\ CountsAreEarned /\ CountsAreFresh /\ [Next]_vars
        => CountsAreEarned' /\ CountsAreFresh'
<1> SUFFICES ASSUME Typed, Punctual, CountsAreEarned, CountsAreFresh, [Next]_vars
             PROVE  CountsAreEarned' /\ CountsAreFresh'
  OBVIOUS
<1>1. CASE \E r \in Requests : Request(r)
  BY <1>1, TallyStep, OtherRequestStep
<1>2. ASSUME now' = now, earned' = earned, NEW K \in SUBSET Keys, Loses(K), TalliesBecome(tally)
      PROVE  CountsAreEarned' /\ CountsAreFresh'
  <2>1. ASSUME NEW g \in Ranges, NEW s \in Sources, tally'[g].hits[s] > 0
        PROVE  tally'[g] = tally[g] /\ st'[g] = st[g]
    BY <1>2, <2>1, CountsOnlyLost DEF Loses
  <2> QED BY <1>2, <2>1 DEF CountsAreEarned, CountsAreFresh
<1>3. ASSUME UNCHANGED <<tally, st, earned>>, now' >= now
      PROVE  CountsAreEarned' /\ CountsAreFresh'
  <2>1. now \in Nat /\ now' \in Nat /\ \A g \in Ranges, s \in Sources : tally[g].hits[s] \in Nat
    BY NextTyped DEF Typed, TypedFlags, TypedTables
  <2> QED BY <1>3, <2>1 DEF CountsAreEarned, CountsAreFresh
<1>n. now \in Nat
  BY DEF Typed, TypedFlags
<1>4. CASE \E b \in ManualBans : BanManual(b[1], b[2])
  <2>1. PICK b \in ManualBans : BanManual(b[1], b[2])
    BY <1>4
  <2>2. UNCHANGED <<tally, st, earned>> /\ now' = now
    BY <2>1, BanManualEffect DEF BanManual
  <2> QED BY <1>3, <1>n, <2>2
<1>5. CASE \E k \in UnbanKeys : Unban(k)
  <2>1. PICK k \in UnbanKeys : Unban(k)
    BY <1>5
  <2>2. k \in Keys /\ now' = now /\ earned' = earned
    BY <2>1, UnbanEffect DEF Unban
  <2>3. CASE UNCHANGED <<tracked, st, tally>>
    BY <1>3, <1>n, <2>2, <2>3
  <2>4. CASE Loses({k}) /\ TalliesBecome(tally)
    BY <1>2, <2>2, <2>4
  <2> QED BY <2>1, <2>3, <2>4, UnbanEffect
<1>6. CASE SwitchDryRun
  BY <1>3, <1>6, <1>n DEF SwitchDryRun, tables, history
<1>7. CASE Janitor
  <2>1. Sweepable \in SUBSET Keys
    BY DEF Sweepable, Typed, TypedTables
  <2> QED BY <1>2, <1>3, <1>7, <1>n, <2>1, JanitorEffect DEF Janitor, history
<1>8. CASE Tick
  BY <1>3, <1>8, <1>n DEF Tick, tables, history
<1>9. CASE UNCHANGED vars
  BY <1>3, <1>9, <1>n DEF vars
<1> QED BY <1>1, <1>4, <1>5, <1>6, <1>7, <1>8, <1>9 DEF Next

\* Hypothetical bans never add up to a real range ban: an enforcing request that trips a range
\* does so on Threshold of its sources that were really banned within the window, none of them
\* counted towards an earlier trip.
THEOREM RealTripsAreEarnedAlways == Spec => RealTripsAreEarned
<1>1. ASSUME Typed, CountsAreEarned, NEW r \in Requests, Tally(r), Trips(r), ~Dry(r)
      PROVE  Cardinality(Earned(r)) >= Threshold
  <2>1. /\ req[r].pc # "idle" /\ Key(r) \in Sources /\ Subnet(r) \in Ranges /\ At(r) \in Nat
        /\ Threshold \in Nat
    BY <1>1, RequestType, EnforcementAssumption DEF Tally
  <2>2. ASSUME NEW s \in Counted(r) PROVE s \in Earned(r)
    <3>1. CASE s = Key(r)
      BY <3>1 DEF Earned
    <3>2. CASE s # Key(r)
      <4>1. /\ s \in Sources /\ ~tally[Subnet(r)].dry
            /\ tally[Subnet(r)].hits[s] > 0 /\ tally[Subnet(r)].hits[s] > At(r) - Window
        BY <1>1, <2>1, <3>2, CountedMembers
      <4>2. RangeOf[s] = Subnet(r) /\ earned[s] >= tally[Subnet(r)].hits[s]
        BY <1>1, <2>1, <4>1 DEF CountsAreEarned
      <4>3. earned[s] \in Nat /\ tally[Subnet(r)].hits[s] \in Nat /\ Window \in Nat
        BY <1>1, <2>1, <4>1, EnforcementAssumption DEF Typed, TypedTables, TypedHistory
      <4>4. earned[s] > 0 /\ earned[s] > At(r) - Window
        BY <2>1, <4>1, <4>2, <4>3
      <4> QED BY <4>1, <4>2, <4>4 DEF Earned
    <3> QED BY <3>1, <3>2
  <2>3. Earned(r) \subseteq Sources /\ IsFiniteSet(Sources)
    BY <2>1, EnforcementAssumption DEF Earned
  <2>4. IsFiniteSet(Earned(r))
    BY <2>3, FS_Subset
  <2>5. Counted(r) \subseteq Earned(r)
    BY <2>2
  <2>6. /\ Cardinality(Counted(r)) <= Cardinality(Earned(r))
        /\ Cardinality(Counted(r)) \in Nat /\ Cardinality(Earned(r)) \in Nat
    BY <2>4, <2>5, FS_Subset, FS_CardinalityType
  <2> QED BY <1>1, <2>1, <2>6 DEF Trips
<1>2. Typed /\ CountsAreEarned =>
        [\A r \in Requests : Tally(r) /\ Trips(r) /\ ~Dry(r) =>
            Cardinality(Earned(r)) >= Threshold]_vars
  BY <1>1
<1> QED BY <1>2, InitTyped, NextTyped, InitPunctual, NextPunctual, InitCounts, NextCounts, PTL
        DEF Spec, RealTripsAreEarned

\* The janitor never takes a member from a range count before it has aged out of the window.
THEOREM SweepKeepsCountsAlways ==
    ASSUME CountsOutlast
    PROVE  Spec => SweepKeepsCounts
<1>1. ASSUME Typed, CountsAreFresh, SweepCounters, NEW g \in Ranges, NEW s \in Sources,
             tally[g].hits[s] > 0, tally[g].hits[s] > now - Window
      PROVE  tally'[g] = tally[g]
  <2>1. /\ now \in Nat /\ tally[g].hits[s] \in Nat /\ g \in Keys
        /\ Window \in Nat /\ Patience \in Nat /\ IdleTime \in Nat
    BY <1>1, EnforcementAssumption, IdleTimeIsLongEnough
       DEF Typed, TypedFlags, TypedTables, Keys
  <2>2. st[g].lastSeen \in Nat
    BY <1>1, <2>1 DEF Typed, TypedTables, Counters!State
  <2>3. ~(st[g].lastSeen < now - IdleTime)
    BY <1>1, <2>1, <2>2, CountsOutlast DEF CountsAreFresh, CountsOutlast
  <2>4. g \in tracked
    <3>1. NoTally.hits[s] = 0
      BY DEF NoTally
    <3> QED BY <1>1, <3>1 DEF Typed, TypedTables
  <2>5. g \in tracked'
    BY <1>1, <2>3, <2>4 DEF SweepCounters, Counters!Sweep, Counters!Drop
  <2> QED BY <1>1, <2>5 DEF SweepCounters, TalliesBecome
<1>2. Typed /\ CountsAreFresh =>
        [SweepCounters => \A g \in Ranges, s \in Sources :
           tally[g].hits[s] > 0 /\ tally[g].hits[s] > now - Window => tally'[g] = tally[g]]_vars
  BY <1>1
<1> QED BY <1>2, InitTyped, NextTyped, InitPunctual, NextPunctual, InitCounts, NextCounts, PTL
        DEF Spec, SweepKeepsCounts

-----------------------------------------------------------------------------
(* The ladder and the lists. *)

ListOf(dry) == IF dry THEN shadow ELSE bans

\* An automatic ban in force.
Stands(b) == ~b.manual /\ Real!Active(b, now)

\* Until dry run is first switched, every request runs in the mode enforced now.
SameMode == toggles = 0 => \A r \in Requests : req[r].pc # "idle" => Dry(r) = dryRun

\* A request about to write a ban holds the rung it climbed.
WriterHoldsRung ==
    \A r \in Requests : \A k \in Writing(r) \ overruled :
        /\ st[k].offences > 0
        /\ st[k].banUntil = At(r) + Counters!BanWindow(req[r].offence)

\* It is the only one about to write that ban.
OneWriter ==
    \A r, q \in Requests : \A k \in (Writing(r) \cap Writing(q)) \ overruled : r = q

\* A ban in the list that dry is enforced from lasts as long as the ladder says, or is coming.
Covered(k, dry) ==
    \/ /\ k \in DOMAIN ListOf(dry)
       /\ ListOf(dry)[k].permanent \/ ListOf(dry)[k].at >= st[k].banUntil
    \/ \E r \in Requests : k \in Writing(r) /\ Dry(r) = dry

LadderIsCovered ==
    \A k \in Keys \ (overruled \cup unbanning) : st[k].banUntil > now =>
        \E dry \in BOOLEAN : (toggles = 0 => dry = dryRun) /\ Covered(k, dry)

\* An automatic ban in force is on the ladder, for as long as it lasts.
BanIsOnLadder ==
    \A k \in Keys \ overruled, dry \in BOOLEAN :
        k \in DOMAIN ListOf(dry) /\ Stands(ListOf(dry)[k]) =>
            /\ st[k].offences > 0
            /\ IF ListOf(dry)[k].permanent THEN st[k].banUntil > EndOfTime
               ELSE st[k].banUntil >= ListOf(dry)[k].at

\* No automatic ban is in force where one is about to be written.
NothingOverwritten ==
    \A r \in Requests : \A k \in Writing(r) \ overruled, dry \in BOOLEAN :
        k \in DOMAIN ListOf(dry) => ~Stands(ListOf(dry)[k])

Serving ==
    /\ SameMode /\ WriterHoldsRung /\ OneWriter
    /\ LadderIsCovered /\ BanIsOnLadder /\ NothingOverwritten

\* The requests that write, and what they write, are the same after the step.
SameWriters ==
    \A r \in Requests :
        /\ Writing(r)' = Writing(r)
        /\ Writing(r) # {} => /\ req'[r].dry = req[r].dry /\ req'[r].at = req[r].at
                              /\ req'[r].offence = req[r].offence

SameLadder == \A k \in Keys : /\ st'[k].offences = st[k].offences
                              /\ st'[k].banUntil = st[k].banUntil

LEMMA ListsTyped ==
    ASSUME Typed, NEW dry \in BOOLEAN
    PROVE  /\ Table(ListOf(dry))
           /\ \A k \in DOMAIN ListOf(dry) : k \in Keys /\ ListOf(dry)[k] \in Real!Ban
  BY DEF Typed, TypedTables, Table, ListOf

LEMMA WritingType ==
    ASSUME Typed, NEW r \in Requests, NEW k \in Writing(r)
    PROVE  /\ req[r].pc \in {"put", "putRange"} /\ Writing(r) = {k} /\ k \in Keys
           /\ At(r) \in Nat \ {0} /\ req[r].offence \in Nat
           /\ Counters!BanWindow(req[r].offence) \in Nat \ {0}
<1>1. req[r].pc \in {"put", "putRange"} /\ Writing(r) = {k}
  BY DEF Writing
<1>2. k = Key(r) \/ k = Subnet(r)
  BY <1>1 DEF Writing
<1>3. k \in Keys /\ At(r) \in Nat \ {0} /\ req[r].offence \in Nat
  BY <1>1, <1>2, RequestType
<1> QED BY <1>1, <1>3, DurationIsNatural

LEMMA QuietStep ==
    ASSUME Typed, Serving, SameWriters, SameLadder, SameMode',
           UNCHANGED <<bans, shadow, unbanning, overruled>>,
           now' \in Nat, now' >= now, toggles' = 0 => toggles = 0 /\ dryRun' = dryRun
    PROVE  Serving'
<1>1. now \in Nat /\ \A dry \in BOOLEAN : ListOf(dry)' = ListOf(dry)
  BY DEF Typed, TypedFlags, ListOf
<1>2. \A dry \in BOOLEAN : \A k \in DOMAIN ListOf(dry) :
         Stands(ListOf(dry)[k])' => Stands(ListOf(dry)[k])
  <2> SUFFICES ASSUME NEW dry \in BOOLEAN, NEW k \in DOMAIN ListOf(dry),
                      Stands(ListOf(dry)[k])'
               PROVE  Stands(ListOf(dry)[k])
    OBVIOUS
  <2>1. ListOf(dry)[k].at \in Nat
    BY ListsTyped DEF Real!Ban
  <2> QED BY <1>1, <2>1 DEF Stands, Real!Active
<1>3. \A k \in Keys : st[k].banUntil \in Nat
  BY DEF Typed, TypedTables, Counters!State
<1>4. WriterHoldsRung'
  <2>1. \A r \in Requests : \A k \in Writing(r) : k \in Keys
    BY WritingType
  <2> QED BY <2>1 DEF Serving, WriterHoldsRung, SameWriters, SameLadder, At
<1>5. OneWriter'
  BY DEF Serving, OneWriter, SameWriters
<1>6. LadderIsCovered'
  <2> SUFFICES ASSUME NEW k \in Keys, k \notin overruled', k \notin unbanning',
                      st'[k].banUntil > now'
               PROVE  \E dry \in BOOLEAN : (toggles' = 0 => dry = dryRun') /\ Covered(k, dry)'
    BY DEF LadderIsCovered
  <2>1. st[k].banUntil > now
    BY <1>1, <1>3 DEF SameLadder
  <2>2. PICK dry \in BOOLEAN : (toggles = 0 => dry = dryRun) /\ Covered(k, dry)
    BY <2>1 DEF Serving, LadderIsCovered
  <2>3. Covered(k, dry)'
    BY <1>1, <2>2 DEF Covered, SameWriters, SameLadder, Dry
  <2> QED BY <2>2, <2>3
<1>7. BanIsOnLadder'
  BY <1>1, <1>2 DEF Serving, BanIsOnLadder, SameLadder
<1>8. NothingOverwritten'
  BY <1>1, <1>2 DEF Serving, NothingOverwritten, SameWriters
<1> QED BY <1>4, <1>5, <1>6, <1>7, <1>8 DEF Serving

\* A fresh offence: k climbs a rung, and r is now the one to write its ban.
Climbs(r, k, offence) ==
    /\ req[r].pc \notin {"idle", "backend"} /\ Writing(r) = {}
    /\ Writing(r)' = {k}
    /\ req'[r].dry = req[r].dry /\ req'[r].at = req[r].at /\ req'[r].offence = offence
    /\ \A q \in Requests \ {r} : req'[q] = req[q]
    /\ st[k].banUntil <= At(r)
    /\ \E rec : /\ rec.offences = offence /\ offence > 0
                /\ rec.banUntil = At(r) + Counters!BanWindow(offence)
                /\ Notes(k, rec)

LEMMA NotesWithRoom ==
    ASSUME Typed, RoomForAll, NEW k \in Keys, NEW rec, Notes(k, rec), NEW x \in Keys
    PROVE  st'[x] = IF x = k THEN rec ELSE st[x]
  BY DEF Notes, Typed, TypedTables

LEMMA ClimbServes ==
    ASSUME Typed, Punctual, Serving, RoomForAll, BansOutlast, NEW r \in Requests, NEW k \in Keys,
           NEW offence \in Nat, Climbs(r, k, offence), SameMode',
           UNCHANGED <<now, dryRun, toggles, bans, shadow, unbanning, overruled>>
    PROVE  Serving'
<1> DEFINE window == Counters!BanWindow(offence)
<1>1. /\ now \in Nat /\ At(r) \in Nat /\ At(r) <= now /\ now <= At(r) + Patience
      /\ Dry(r) \in BOOLEAN /\ Patience \in Nat /\ window \in Nat /\ window > Patience
      /\ EndOfTime \in Nat
  BY RequestType, DurationIsNatural, EnforcementAssumption
     DEF Climbs, Punctual, Typed, TypedFlags, BansOutlast
<1>2. /\ st'[k].offences > 0 /\ st'[k].banUntil = At(r) + window
      /\ \A x \in Keys \ {k} : st'[x] = st[x]
  BY NotesWithRoom DEF Climbs
<1> HIDE DEF window
<1>3. \A q \in Requests \ {r} : Writing(q)' = Writing(q) /\ Dry(q)' = Dry(q) /\ At(q)' = At(q)
  BY DEF Climbs, Writing, Key, Subnet, Dry, At
<1>4. Writing(r) = {} /\ Writing(r)' = {k} /\ Dry(r)' = Dry(r) /\ At(r)' = At(r)
  BY DEF Climbs, Dry, At
<1>5. \A dry \in BOOLEAN : ListOf(dry)' = ListOf(dry)
  BY DEF ListOf
<1>6. st[k].banUntil \in Nat /\ st[k].banUntil <= At(r)
  BY DEF Climbs, Typed, TypedTables, Counters!State
\* Whoever wrote k before would still hold it on the ladder.
<1>7. ASSUME k \notin overruled, NEW q \in Requests, k \in Writing(q)
      PROVE  FALSE
  <2>1. /\ req[q].pc \in {"put", "putRange"} /\ At(q) \in Nat /\ req[q].offence \in Nat
        /\ Counters!BanWindow(req[q].offence) \in Nat
    BY <1>7, WritingType
  <2>2. st[k].banUntil = At(q) + Counters!BanWindow(req[q].offence)
    BY <1>7 DEF Serving, WriterHoldsRung
  <2>3. Counters!BanWindow(req[q].offence) > Patience
    BY <2>1 DEF BansOutlast
  <2>4. now <= At(q) + Patience
    BY <2>1 DEF Punctual
  <2> QED BY <1>1, <1>6, <2>1, <2>2, <2>3, <2>4
\* An automatic ban in force would keep the offence from being fresh.
<1>8. ASSUME k \notin overruled, NEW dry \in BOOLEAN, k \in DOMAIN ListOf(dry),
             Stands(ListOf(dry)[k])
      PROVE  FALSE
  <2>1. /\ ListOf(dry)[k].at \in Nat
        /\ IF ListOf(dry)[k].permanent THEN st[k].banUntil > EndOfTime
           ELSE st[k].banUntil >= ListOf(dry)[k].at
    BY <1>8, ListsTyped DEF Serving, BanIsOnLadder, Real!Ban
  <2>2. ListOf(dry)[k].permanent \/ ListOf(dry)[k].at > now
    BY <1>8 DEF Stands, Real!Active
  <2>3. now <= EndOfTime
    BY DEF Typed, TypedFlags
  <2> QED BY <1>1, <1>6, <2>1, <2>2, <2>3
<1>9. WriterHoldsRung'
  <2> SUFFICES ASSUME NEW q \in Requests, NEW x \in Writing(q)', x \notin overruled
               PROVE  /\ st'[x].offences > 0
                      /\ st'[x].banUntil = At(q)' + Counters!BanWindow(req'[q].offence)
    BY DEF WriterHoldsRung
  <2>1. CASE q = r
    BY <1>2, <1>4, <2>1 DEF Climbs, window
  <2>2. CASE q # r
    <3>1. x \in Writing(q) /\ x \in Keys /\ req'[q] = req[q]
      BY <1>3, <2>2, WritingType DEF Climbs
    <3>2. x # k
      BY <1>7, <3>1
    <3> QED BY <1>2, <1>3, <2>2, <3>1, <3>2 DEF Serving, WriterHoldsRung
  <2> QED BY <2>1, <2>2
<1>10. OneWriter'
  <2> SUFFICES ASSUME NEW q \in Requests, NEW p \in Requests, NEW x \in Writing(q)',
                      x \in Writing(p)', x \notin overruled
               PROVE  q = p
    BY DEF OneWriter
  <2> QED BY <1>3, <1>4, <1>7 DEF Serving, OneWriter
<1>11. LadderIsCovered'
  <2> SUFFICES ASSUME NEW x \in Keys, x \notin overruled, x \notin unbanning,
                      st'[x].banUntil > now
               PROVE  \E dry \in BOOLEAN : (toggles = 0 => dry = dryRun) /\ Covered(x, dry)'
    BY DEF LadderIsCovered
  <2>1. CASE x = k
    <3>1. PICK mine \in BOOLEAN : mine = Dry(r)
      BY <1>1
    <3>2. Covered(k, mine)'
      BY <1>4, <3>1 DEF Covered
    <3>3. toggles = 0 => mine = dryRun
      BY <3>1 DEF Climbs, Serving, SameMode
    <3> QED BY <2>1, <3>2, <3>3
  <2>2. CASE x # k
    <3>1. PICK dry \in BOOLEAN : (toggles = 0 => dry = dryRun) /\ Covered(x, dry)
      BY <1>2, <2>2 DEF Serving, LadderIsCovered
    <3>2. Covered(x, dry)'
      BY <1>2, <1>3, <1>4, <1>5, <2>2, <3>1 DEF Covered
    <3> QED BY <3>1, <3>2
  <2> QED BY <2>1, <2>2
<1>12. BanIsOnLadder'
  <2> SUFFICES ASSUME NEW x \in Keys, x \notin overruled, NEW dry \in BOOLEAN,
                      x \in DOMAIN ListOf(dry), Stands(ListOf(dry)[x])
               PROVE  /\ st'[x].offences > 0
                      /\ IF ListOf(dry)[x].permanent THEN st'[x].banUntil > EndOfTime
                         ELSE st'[x].banUntil >= ListOf(dry)[x].at
    BY <1>5 DEF BanIsOnLadder, Stands
  <2>1. x # k
    BY <1>8
  <2> QED BY <1>2, <2>1 DEF Serving, BanIsOnLadder
<1>13. NothingOverwritten'
  <2> SUFFICES ASSUME NEW q \in Requests, NEW x \in Writing(q)', x \notin overruled,
                      NEW dry \in BOOLEAN, x \in DOMAIN ListOf(dry)
               PROVE  ~Stands(ListOf(dry)[x])
    BY <1>5 DEF NothingOverwritten, Stands
  <2> QED BY <1>3, <1>4, <1>8 DEF Serving, NothingOverwritten
<1> QED BY <1>9, <1>10, <1>11, <1>12, <1>13 DEF Serving

\* A ban written: r no longer writes k, its list now has the ban of its offence.
Writes(r, k) ==
    /\ req[r].pc # "idle" /\ Writing(r) = {k} /\ Writing(r)' = {}
    /\ \A q \in Requests \ {r} : req'[q] = req[q]
    /\ IF Dry(r) THEN Stores(shadow, shadow', k, BanFor(r)) /\ bans' = bans
                 ELSE Stores(bans, bans', k, BanFor(r)) /\ shadow' = shadow

LEMMA WriteServes ==
    ASSUME Typed, Serving, RoomForAll, HorizonIsFar, NEW r \in Requests, NEW k \in Keys,
           Writes(r, k), SameMode',
           UNCHANGED <<now, dryRun, toggles, tracked, st, unbanning, overruled>>
    PROVE  Serving'
<1>1. /\ k \in Writing(r) /\ At(r) \in Nat \ {0} /\ Dry(r) \in BOOLEAN
      /\ Counters!BanWindow(req[r].offence) \in Nat
      /\ EndOfTime \in Nat /\ Horizon \in Nat /\ Horizon >= EndOfTime
  BY WritingType, RequestType, EnforcementAssumption DEF Writes, HorizonIsFar
<1>2. \A q \in Requests \ {r} : Writing(q)' = Writing(q) /\ Dry(q)' = Dry(q) /\ At(q)' = At(q)
  BY DEF Writes, Writing, Key, Subnet, Dry, At
<1>3. \A dry \in BOOLEAN : DOMAIN ListOf(dry) \subseteq DOMAIN ListOf(dry)'
  BY DEF Writes, Stores, ListOf
<1>4. \A dry \in BOOLEAN : \A x \in DOMAIN ListOf(dry)' :
         x # k => x \in DOMAIN ListOf(dry) /\ ListOf(dry)'[x] = ListOf(dry)[x]
  BY DEF Writes, Stores, ListOf
<1>0. PICK mine \in BOOLEAN : mine = Dry(r)
  BY <1>1
<1>5. /\ k \in DOMAIN ListOf(mine)' /\ ListOf(mine)'[k] = BanFor(r)
      /\ \A dry \in BOOLEAN : dry # mine => ListOf(dry)' = ListOf(dry)
  <2>1. CASE mine
    BY <1>0, <2>1 DEF Writes, Stores, ListOf
  <2>2. CASE ~mine
    BY <1>0, <2>2 DEF Writes, Stores, ListOf
  <2> QED BY <2>1, <2>2
<1>6. /\ ~BanFor(r).manual
      /\ BanFor(r).permanent => Counters!BanWindow(req[r].offence) = Horizon
      /\ ~BanFor(r).permanent => BanFor(r).at = At(r) + Counters!BanWindow(req[r].offence)
  BY BanForType DEF Writes
<1>7. k \notin overruled =>
         /\ st[k].offences > 0
         /\ st[k].banUntil = At(r) + Counters!BanWindow(req[r].offence)
  BY <1>1 DEF Serving, WriterHoldsRung
<1>8. WriterHoldsRung'
  BY <1>2 DEF Serving, WriterHoldsRung, Writes
<1>9. OneWriter'
  BY <1>2 DEF Serving, OneWriter, Writes
<1>10. LadderIsCovered'
  <2> SUFFICES ASSUME NEW x \in Keys, x \notin overruled, x \notin unbanning, st[x].banUntil > now
               PROVE  \E dry \in BOOLEAN : (toggles = 0 => dry = dryRun) /\ Covered(x, dry)'
    BY DEF LadderIsCovered
  <2>1. CASE x = k
    <3>1. Covered(k, mine)'
      <4>1. \/ ListOf(mine)'[k].permanent
            \/ ListOf(mine)'[k].at >= st[k].banUntil
        BY <1>1, <1>5, <1>6, <1>7, <2>1
      <4> QED BY <1>5, <4>1 DEF Covered
    <3>2. toggles = 0 => mine = dryRun
      BY <1>0 DEF Writes, Serving, SameMode
    <3> QED BY <2>1, <3>1, <3>2
  <2>2. CASE x # k
    <3>1. PICK dry \in BOOLEAN : (toggles = 0 => dry = dryRun) /\ Covered(x, dry)
      BY DEF Serving, LadderIsCovered
    <3>2. Covered(x, dry)'
      BY <1>2, <1>3, <1>4, <2>2, <3>1 DEF Covered, Writes
    <3> QED BY <3>1, <3>2
  <2> QED BY <2>1, <2>2
<1>11. BanIsOnLadder'
  <2> SUFFICES ASSUME NEW x \in Keys, x \notin overruled, NEW dry \in BOOLEAN,
                      x \in DOMAIN ListOf(dry)', Stands(ListOf(dry)[x])'
               PROVE  /\ st[x].offences > 0
                      /\ IF ListOf(dry)'[x].permanent THEN st[x].banUntil > EndOfTime
                         ELSE st[x].banUntil >= ListOf(dry)'[x].at
    BY DEF BanIsOnLadder
  <2>1. CASE x = k /\ dry = mine
    <3>1. ListOf(dry)'[x] = BanFor(r)
      BY <1>5, <2>1
    <3> QED BY <1>1, <1>6, <1>7, <2>1, <3>1
  <2>2. CASE x # k \/ dry # mine
    <3>1. /\ x \in DOMAIN ListOf(dry) /\ ListOf(dry)'[x] = ListOf(dry)[x]
          /\ Stands(ListOf(dry)[x])
      BY <1>4, <1>5, <2>2 DEF Stands, Real!Active
    <3> QED BY <3>1 DEF Serving, BanIsOnLadder
  <2> QED BY <2>1, <2>2
<1>12. NothingOverwritten'
  <2> SUFFICES ASSUME NEW q \in Requests, NEW x \in Writing(q)', x \notin overruled,
                      NEW dry \in BOOLEAN, x \in DOMAIN ListOf(dry)', Stands(ListOf(dry)[x])'
               PROVE  FALSE
    BY DEF NothingOverwritten
  <2>1. q # r /\ x \in Writing(q)
    BY <1>2 DEF Writes
  <2>2. x # k
    BY <1>1, <2>1 DEF Serving, OneWriter
  <2>3. /\ x \in DOMAIN ListOf(dry) /\ ListOf(dry)'[x] = ListOf(dry)[x]
        /\ Stands(ListOf(dry)[x])
    BY <1>4, <2>2 DEF Stands, Real!Active
  <2> QED BY <2>1, <2>3 DEF Serving, NothingOverwritten
<1> QED BY <1>8, <1>9, <1>10, <1>11, <1>12 DEF Serving

-----------------------------------------------------------------------------
(* Every step keeps the ladder and the lists together. *)

LEMMA RequestKeepsMode ==
    ASSUME Typed, SameMode, NEW r \in Requests, Request(r)
    PROVE  SameMode'
<1>1. RequestMoves(r) /\ UNCHANGED <<dryRun, toggles>>
  BY RequestStep
<1> SUFFICES ASSUME toggles = 0, NEW q \in Requests, req'[q].pc # "idle"
             PROVE  req'[q].dry = dryRun
  BY <1>1 DEF SameMode, Dry
<1>2. CASE q # r
  BY <1>1, <1>2 DEF RequestMoves, SameMode, Dry
<1>3. CASE q = r
  BY <1>1, <1>3 DEF RequestMoves, Carries, SameMode, Dry
<1> QED BY <1>2, <1>3

\* A request that neither starts nor ends writing.
LEMMA QuietMove ==
    ASSUME Typed, NEW r \in Requests, RequestMoves(r), Writing(r) = {}, Writing(r)' = {}
    PROVE  SameWriters
  BY DEF RequestMoves, SameWriters, Writing, Key, Subnet

LEMMA OffenceServes ==
    ASSUME Typed, Punctual, Serving, RoomForAll, BansOutlast, NEW r \in Requests,
           Record(r) \/ RecordRange(r)
    PROVE  Serving'
<1>1. /\ SameMode' /\ RequestMoves(r)
      /\ UNCHANGED <<now, dryRun, toggles, bans, shadow, unbanning, overruled>>
  BY RequestKeepsMode, RequestStep DEF Serving, Record, RecordRange, Request
<1>2. /\ req[r].pc \in {"record", "recordRange"} /\ Writing(r) = {}
      /\ now \in Nat /\ At(r) \in Nat /\ Key(r) \in Keys /\ Subnet(r) \in Keys
  BY RequestType DEF Record, RecordRange, Writing, Typed, TypedFlags
<1> DEFINE k     == IF req[r].pc = "record" THEN Key(r) ELSE Subnet(r)
           label == IF req[r].pc = "record" THEN "put" ELSE "putRange"
<1>3. PICK fresh \in BOOLEAN, offence \in 0..(EndOfTime + 1) :
         /\ RecordOffence(r, k, fresh, offence)
         /\ IF fresh THEN req' = [req EXCEPT ![r].pc = label, ![r].offence = offence]
                     ELSE Return(r)
  BY DEF Record, RecordRange
<1>4. k \in Keys /\ label \in {"put", "putRange"} /\ offence \in Nat
  BY <1>2, EnforcementAssumption
<1>5. k = (IF label = "put" THEN Key(r) ELSE Subnet(r))
  BY <1>2
<1> HIDE DEF k, label
<1>6. PICK rec : Offended(r, k, fresh, offence, rec) /\ Notes(k, rec)
  BY <1>2, <1>3, <1>4, RecordOffenceEffect
<1>7. CASE fresh
  <2>1. /\ Moves(r, label) /\ Carries(r) /\ req'[r].at = req[r].at
        /\ req'[r].offence = offence
    BY <1>2, <1>3, <1>4, <1>7, OffenceEffect
  <2>2. Writing(r)' = {k}
    BY <1>4, <1>5, <2>1 DEF Writing, Moves, Carries, Key, Subnet
  <2>3. Climbs(r, k, offence)
    BY <1>2, <1>6, <1>7, <2>1, <2>2 DEF Climbs, Moves, Carries, Offended
  <2> QED BY <1>1, <1>4, <2>3, ClimbServes
<1>8. CASE ~fresh
  <2>1. Writing(r)' = {}
    BY <1>2, <1>3, <1>8, ReturnEffect DEF Writing, Moves
  <2>2. SameWriters
    BY <1>1, <1>2, <2>1, QuietMove
  <2>3. SameLadder
    BY <1>4, <1>6, <1>8, NotesWithRoom DEF SameLadder, Offended
  <2> QED BY <1>1, <1>2, <2>2, <2>3, QuietStep
<1> QED BY <1>7, <1>8

LEMMA RequestServes ==
    ASSUME Typed, Punctual, Serving, RoomForAll, BansOutlast, HorizonIsFar,
           NEW r \in Requests, Request(r)
    PROVE  Serving'
<1>1. /\ SameMode' /\ RequestMoves(r) /\ now \in Nat
      /\ UNCHANGED <<now, dryRun, toggles, unbanning, overruled>>
  BY RequestKeepsMode, RequestStep DEF Serving, Typed, TypedFlags
<1>2. CASE Record(r) \/ RecordRange(r)
  BY <1>2, OffenceServes
<1>3. CASE PutSource(r) \/ PutRange(r)
  <2> DEFINE k == IF req[r].pc = "put" THEN Key(r) ELSE Subnet(r)
  <2>1. /\ req[r].pc \in {"put", "putRange"} /\ req[r].pc # "idle" /\ PutBan(r, k)
        /\ UNCHANGED <<tracked, st>> /\ Writing(r) = {k}
    BY <1>3 DEF PutSource, PutRange, Writing
  <2>2. k \in Keys
    BY <2>1, RequestType
  <2>3. Writing(r)' = {}
    <3>1. Goto(r, "tally") \/ Return(r)
      BY <1>3 DEF PutSource, PutRange
    <3> QED BY <2>1, <3>1, GotoEffect, ReturnEffect DEF Writing, Moves
  <2> HIDE DEF k
  <2>4. Writes(r, k)
    BY <1>1, <2>1, <2>2, <2>3, PutBanEffect DEF Writes, RequestMoves
  <2> QED BY <1>1, <2>1, <2>2, <2>4, WriteServes
<1>4. CASE Tally(r)
  <2>1. req[r].pc = "tally" /\ req[r].pc # "idle" /\ UNCHANGED <<bans, shadow>>
    BY <1>4 DEF Tally
  <2>2. Writing(r) = {} /\ Writing(r)' = {}
    <3>1. Goto(r, "recordRange") \/ Return(r)
      BY <1>4 DEF Tally
    <3> QED BY <2>1, <3>1, GotoEffect, ReturnEffect DEF Writing, Moves
  <2>3. SameLadder
    <3>1. PICK rec : /\ rec.offences = st[Subnet(r)].offences
                     /\ rec.banUntil = st[Subnet(r)].banUntil
                     /\ Notes(Subnet(r), rec)
      BY <1>4, <2>1, TallyNotes
    <3> QED BY <2>1, <3>1, RequestType, NotesWithRoom DEF SameLadder
  <2> QED BY <1>1, <2>1, <2>2, <2>3, QuietMove, QuietStep
<1>5. CASE Arrive(r) \/ Lookup(r) \/ Detect(r) \/ Respond(r)
  <2>1. UNCHANGED <<st, bans, shadow>>
    BY <1>5 DEF Arrive, Lookup, Detect, Respond, tables
  <2>2. Writing(r) = {} /\ Writing(r)' = {}
    BY <1>5, ArriveEffect, GotoEffect, EndsEffect, RespondEffect
       DEF Writing, Moves, Arrive, Lookup, Detect, Respond
  <2> QED BY <1>1, <2>1, <2>2, QuietMove, QuietStep DEF SameLadder
<1> QED BY <1>2, <1>3, <1>4, <1>5 DEF Request

LEMMA WritersStay ==
    ASSUME req' = req
    PROVE  /\ \A r \in Requests : /\ Writing(r)' = Writing(r) /\ Dry(r)' = Dry(r)
                                  /\ At(r)' = At(r)
           /\ SameWriters
  BY DEF Writing, Key, Subnet, Dry, At, SameWriters

LEMMA BanManualServes ==
    ASSUME Typed, Serving, RoomForAll, NEW b \in ManualBans, BanManual(b[1], b[2])
    PROVE  Serving'
<1> DEFINE k   == b[1]
           ban == [manual |-> TRUE, permanent |-> b[2] = 0, at |-> now + b[2]]
<1>1. /\ k \in Keys /\ Stores(bans, bans', k, ban) /\ now' = now
      /\ UNCHANGED <<req, st, shadow, dryRun, toggles, unbanning>>
      /\ overruled \subseteq overruled' /\ (b[2] # 0 => k \in overruled')
  BY BanManualEffect DEF BanManual, Counters!Permanent
<1>2. ban.manual /\ (ban.permanent = (b[2] = 0))
  OBVIOUS
<1> HIDE DEF k, ban
<1>3. /\ k \in DOMAIN bans' /\ bans'[k] = ban /\ DOMAIN bans \subseteq DOMAIN bans'
      /\ \A x \in DOMAIN bans' \ {k} : x \in DOMAIN bans /\ bans'[x] = bans[x]
  BY <1>1 DEF Stores
<1>4. WriterHoldsRung' /\ OneWriter' /\ SameMode'
  BY <1>1, WritersStay DEF Serving, WriterHoldsRung, OneWriter, SameMode
<1>5. LadderIsCovered'
  <2> SUFFICES ASSUME NEW x \in Keys, x \notin overruled', x \notin unbanning, st[x].banUntil > now
               PROVE  \E dry \in BOOLEAN : (toggles = 0 => dry = dryRun) /\ Covered(x, dry)'
    BY <1>1 DEF LadderIsCovered
  <2>1. PICK dry \in BOOLEAN : (toggles = 0 => dry = dryRun) /\ Covered(x, dry)
    BY <1>1 DEF Serving, LadderIsCovered
  <2>2. Covered(x, dry)'
    <3>1. CASE dry
      BY <1>1, <2>1, <3>1, WritersStay DEF Covered, ListOf
    <3>2. CASE ~dry
      <4>1. CASE x = k
        <5>1. ban.permanent
          BY <1>1, <1>2, <4>1
        <5> QED BY <1>3, <3>2, <4>1, <5>1 DEF Covered, ListOf
      <4>2. CASE x # k
        BY <1>1, <1>3, <2>1, <3>2, <4>2, WritersStay DEF Covered, ListOf
      <4> QED BY <4>1, <4>2
    <3> QED BY <3>1, <3>2
  <2> QED BY <2>1, <2>2
<1>6. \A x \in Keys, dry \in BOOLEAN : x \in DOMAIN ListOf(dry)' /\ Stands(ListOf(dry)[x])' =>
         /\ x \in DOMAIN ListOf(dry) /\ ListOf(dry)'[x] = ListOf(dry)[x]
         /\ Stands(ListOf(dry)[x])
  <2> SUFFICES ASSUME NEW x \in Keys, NEW dry \in BOOLEAN,
                      x \in DOMAIN ListOf(dry)', Stands(ListOf(dry)[x])'
               PROVE  x \in DOMAIN ListOf(dry) /\ ListOf(dry)'[x] = ListOf(dry)[x]
    BY <1>1 DEF Stands, Real!Active
  <2>1. CASE dry
    BY <1>1, <2>1 DEF ListOf
  <2>2. CASE ~dry
    BY <1>2, <1>3, <2>2 DEF ListOf, Stands
  <2> QED BY <2>1, <2>2
<1>7. BanIsOnLadder'
  BY <1>1, <1>6 DEF Serving, BanIsOnLadder
<1>8. NothingOverwritten'
  <2>1. \A r \in Requests : \A x \in Writing(r) : x \in Keys
    BY WritingType
  <2> QED BY <1>1, <1>6, <2>1, WritersStay DEF Serving, NothingOverwritten
<1> QED BY <1>4, <1>5, <1>7, <1>8 DEF Serving

\* Only bans that have expired, or are being lifted, leave the lists.
Shrinks(f, g) ==
    /\ DOMAIN g \subseteq DOMAIN f
    /\ \A x \in DOMAIN g : g[x] = f[x]
    /\ \A x \in DOMAIN f \ DOMAIN g : x \in unbanning' \/ ~Real!Active(f[x], now)

LEMMA ShrinkServes ==
    ASSUME Typed, Serving, Shrinks(bans, bans'), Shrinks(shadow, shadow'),
           unbanning \subseteq unbanning',
           UNCHANGED <<now, dryRun, toggles, st, req, overruled>>
    PROVE  Serving'
<1>1. \A dry \in BOOLEAN :
         /\ DOMAIN ListOf(dry)' \subseteq DOMAIN ListOf(dry)
         /\ \A x \in DOMAIN ListOf(dry)' : ListOf(dry)'[x] = ListOf(dry)[x]
         /\ \A x \in DOMAIN ListOf(dry) \ DOMAIN ListOf(dry)' :
               x \in unbanning' \/ ~Real!Active(ListOf(dry)[x], now)
  BY DEF Shrinks, ListOf
<1>2. SameMode' /\ WriterHoldsRung' /\ OneWriter'
  BY WritersStay DEF Serving, SameMode, WriterHoldsRung, OneWriter
<1>3. LadderIsCovered'
  <2> SUFFICES ASSUME NEW x \in Keys, x \notin overruled, x \notin unbanning', st[x].banUntil > now
               PROVE  \E dry \in BOOLEAN : (toggles = 0 => dry = dryRun) /\ Covered(x, dry)'
    BY DEF LadderIsCovered
  <2>1. PICK dry \in BOOLEAN : (toggles = 0 => dry = dryRun) /\ Covered(x, dry)
    BY DEF Serving, LadderIsCovered
  <2>2. Covered(x, dry)'
    <3>1. CASE /\ x \in DOMAIN ListOf(dry)
               /\ ListOf(dry)[x].permanent \/ ListOf(dry)[x].at >= st[x].banUntil
      <4>1. ListOf(dry)[x].at \in Nat /\ st[x].banUntil \in Nat /\ now \in Nat
        BY <3>1, ListsTyped DEF Real!Ban, Typed, TypedFlags, TypedTables, Counters!State
      <4>2. Real!Active(ListOf(dry)[x], now)
        BY <3>1, <4>1 DEF Real!Active
      <4>3. x \in DOMAIN ListOf(dry)'
        BY <1>1, <3>1, <4>2
      <4> QED BY <1>1, <3>1, <4>3 DEF Covered
    <3>2. CASE \E r \in Requests : x \in Writing(r) /\ Dry(r) = dry
      BY <3>2, WritersStay DEF Covered
    <3> QED BY <2>1, <3>1, <3>2 DEF Covered
  <2> QED BY <2>1, <2>2
<1>4. BanIsOnLadder'
  BY <1>1 DEF Serving, BanIsOnLadder, Stands, Real!Active
<1>5. NothingOverwritten'
  BY <1>1, WritersStay DEF Serving, NothingOverwritten, Stands, Real!Active
<1> QED BY <1>2, <1>3, <1>4, <1>5 DEF Serving

\* Records leave the table: those of keys no ban or request depends on, or that are overruled.
LEMMA LossServes ==
    ASSUME Typed, Serving, NEW K \in SUBSET Keys, Loses(K),
           UNCHANGED <<now, dryRun, toggles, bans, shadow, req>>,
           unbanning \subseteq unbanning' \cup K, overruled \subseteq overruled' \cup K,
           \A k \in K \ overruled', r \in Requests : k \notin Writing(r),
           \A k \in K \ overruled', dry \in BOOLEAN :
              k \in DOMAIN ListOf(dry) => ~Stands(ListOf(dry)[k])
    PROVE  Serving'
<1>1. \A k \in Keys : st'[k] = IF k \in K THEN Counters!NewState ELSE st[k]
  BY DEF Loses, Typed, TypedTables
<1>2. \A dry \in BOOLEAN : ListOf(dry)' = ListOf(dry)
  BY DEF ListOf
<1>3. \A r \in Requests : \A k \in Writing(r) : k \in Keys
  BY WritingType
<1>4. SameMode'
  BY DEF Serving, SameMode, Dry
<1>5. WriterHoldsRung'
  BY <1>1, <1>3, WritersStay DEF Serving, WriterHoldsRung
<1>6. OneWriter'
  BY WritersStay DEF Serving, OneWriter
<1>7. LadderIsCovered'
  <2> SUFFICES ASSUME NEW x \in Keys, x \notin overruled', x \notin unbanning',
                      st'[x].banUntil > now
               PROVE  \E dry \in BOOLEAN : (toggles = 0 => dry = dryRun) /\ Covered(x, dry)'
    BY DEF LadderIsCovered
  <2>1. x \notin K /\ st'[x] = st[x]
    BY <1>1 DEF Counters!NewState, Counters!Zero, Typed, TypedFlags
  <2>2. PICK dry \in BOOLEAN : (toggles = 0 => dry = dryRun) /\ Covered(x, dry)
    BY <2>1 DEF Serving, LadderIsCovered
  <2>3. Covered(x, dry)'
    BY <1>2, <2>1, <2>2, WritersStay DEF Covered
  <2> QED BY <2>2, <2>3
<1>8. BanIsOnLadder'
  <2> SUFFICES ASSUME NEW x \in Keys, x \notin overruled', NEW dry \in BOOLEAN,
                      x \in DOMAIN ListOf(dry), Stands(ListOf(dry)[x])
               PROVE  /\ st'[x].offences > 0
                      /\ IF ListOf(dry)[x].permanent THEN st'[x].banUntil > EndOfTime
                         ELSE st'[x].banUntil >= ListOf(dry)[x].at
    BY <1>2 DEF BanIsOnLadder, Stands, Real!Active
  <2>1. x \notin K /\ st'[x] = st[x]
    BY <1>1
  <2> QED BY <2>1 DEF Serving, BanIsOnLadder
<1>9. NothingOverwritten'
  BY <1>2, WritersStay DEF Serving, NothingOverwritten, Stands, Real!Active
<1> QED BY <1>4, <1>5, <1>6, <1>7, <1>8, <1>9 DEF Serving

LEMMA UnbanServes ==
    ASSUME Typed, Serving, NEW k \in UnbanKeys, Unban(k)
    PROVE  Serving'
<1>1. k \in Keys /\ UNCHANGED <<now, dryRun, toggles, shadow, req>>
  BY UnbanEffect DEF Unban
<1>2. CASE /\ Retains(bans, bans', Keys \ {k}) /\ unbanning' = unbanning \cup {k}
           /\ UNCHANGED <<tracked, st, tally, overruled>>
  <2>1. Shrinks(bans, bans') /\ Shrinks(shadow, shadow')
    BY <1>1, <1>2 DEF Shrinks, Retains, Typed, TypedTables, Table
  <2> QED BY <1>1, <1>2, <2>1, ShrinkServes
<1>3. CASE /\ Loses({k}) /\ bans' = bans /\ unbanning' = unbanning \ {k}
           /\ overruled' = IF UnderBan(k, TRUE) \/ UnderBan(k, FALSE)
                           THEN overruled \cup {k} ELSE overruled \ {k}
  <2>1. ASSUME k \notin overruled' PROVE ~UnderBan(k, TRUE) /\ ~UnderBan(k, FALSE)
    BY <1>3, <2>1
  <2>2. ASSUME k \notin overruled', NEW r \in Requests PROVE k \notin Writing(r)
    <3> SUFFICES ASSUME k \in Writing(r) PROVE FALSE
      OBVIOUS
    <3>1. Dry(r) \in BOOLEAN
      BY WritingType, RequestType
    <3> QED BY <2>1, <2>2, <3>1 DEF UnderBan
  <2>3. ASSUME k \notin overruled', NEW dry \in BOOLEAN, k \in DOMAIN ListOf(dry)
        PROVE  ~Stands(ListOf(dry)[k])
    <3>1. CASE dry
      BY <2>1, <2>3, <3>1
         DEF UnderBan, Shadow!Live, Shadow!Held, Shadow!Active, Real!Active, Stands, ListOf
    <3>2. CASE ~dry
      BY <2>1, <2>3, <3>2 DEF UnderBan, Real!Live, Real!Held, Real!Active, Stands, ListOf
    <3> QED BY <3>1, <3>2
  <2>4. overruled \subseteq overruled' \cup {k} /\ unbanning \subseteq unbanning' \cup {k}
    BY <1>3
  <2> QED BY <1>1, <1>3, <2>2, <2>3, <2>4, LossServes
<1> QED BY <1>2, <1>3, UnbanEffect

\* A key that is on the ladder for now is not swept.
LEMMA LadderIsNotSwept ==
    ASSUME Typed, NEW k \in Keys, st[k].offences > 0, st[k].banUntil > now
    PROVE  k \notin Sweepable
  BY DEF Sweepable, Counters!HoldsRung

LEMMA JanitorServes ==
    ASSUME Typed, Punctual, Serving, BansOutlast, Janitor
    PROVE  Serving'
<1>1. UNCHANGED <<now, dryRun, toggles, req, unbanning, overruled>>
  BY JanitorEffect DEF Janitor, history
<1>2. CASE Retains(bans, bans', Real!Live(now)) /\ UNCHANGED <<tracked, st, tally, shadow>>
  <2>1. Shrinks(bans, bans') /\ Shrinks(shadow, shadow')
    BY <1>2 DEF Shrinks, Retains, Real!Live, Real!Held
  <2> QED BY <1>1, <1>2, <2>1, ShrinkServes
<1>3. CASE Retains(shadow, shadow', Shadow!Live(now)) /\ UNCHANGED <<tracked, st, tally, bans>>
  <2>1. Shrinks(bans, bans') /\ Shrinks(shadow, shadow')
    BY <1>3 DEF Shrinks, Retains, Shadow!Live, Shadow!Held, Shadow!Active, Real!Active
  <2> QED BY <1>1, <1>3, <2>1, ShrinkServes
<1>4. CASE Loses(Sweepable) /\ UNCHANGED <<bans, shadow>>
  <2>1. Sweepable \subseteq Keys /\ now \in Nat /\ now <= EndOfTime /\ EndOfTime \in Nat
    BY EnforcementAssumption DEF Sweepable, Typed, TypedFlags, TypedTables
  <2>2. ASSUME NEW k \in Sweepable, k \notin overruled, NEW r \in Requests, k \in Writing(r)
        PROVE  FALSE
    <3>1. /\ req[r].pc \in {"put", "putRange"} /\ At(r) \in Nat /\ req[r].offence \in Nat
          /\ Counters!BanWindow(req[r].offence) \in Nat /\ k \in Keys /\ Patience \in Nat
      BY <2>2, WritingType, EnforcementAssumption
    <3>2. now <= At(r) + Patience /\ Counters!BanWindow(req[r].offence) > Patience
      BY <3>1 DEF Punctual, BansOutlast
    <3>3. st[k].offences > 0 /\ st[k].banUntil > now
      BY <2>1, <2>2, <3>1, <3>2 DEF Serving, WriterHoldsRung
    <3> QED BY <2>2, <3>1, <3>3, LadderIsNotSwept
  <2>3. ASSUME NEW k \in Sweepable, k \notin overruled, NEW dry \in BOOLEAN,
               k \in DOMAIN ListOf(dry), Stands(ListOf(dry)[k])
        PROVE  FALSE
    <3>1. k \in Keys /\ ListOf(dry)[k].at \in Nat /\ st[k].banUntil \in Nat
      BY <2>1, <2>3, ListsTyped DEF Real!Ban, Typed, TypedTables, Counters!State
    <3>2. st[k].offences > 0 /\ IF ListOf(dry)[k].permanent THEN st[k].banUntil > EndOfTime
                                ELSE st[k].banUntil >= ListOf(dry)[k].at
      BY <2>3, <3>1 DEF Serving, BanIsOnLadder
    <3>3. st[k].banUntil > now
      BY <2>1, <2>3, <3>1, <3>2 DEF Stands, Real!Active
    <3> QED BY <2>3, <3>1, <3>2, <3>3, LadderIsNotSwept
  <2> HIDE DEF Sweepable
  <2> QED BY <1>1, <1>4, <2>1, <2>2, <2>3, LossServes
<1> QED BY <1>2, <1>3, <1>4, JanitorEffect

LEMMA InitServing == Init => Serving
<1> SUFFICES ASSUME Init PROVE Serving
  OBVIOUS
<1>1. /\ \A r \in Requests : Writing(r) = {} /\ req[r].pc = "idle"
      /\ \A k \in Keys : st[k].banUntil = 0
      /\ \A dry \in BOOLEAN : DOMAIN ListOf(dry) = {}
      /\ now = 1
  BY DEF Init, AtRest, Writing, Counters!NewState, Counters!Zero, NoBans, ListOf
<1> QED BY <1>1 DEF Serving, SameMode, WriterHoldsRung, OneWriter, LadderIsCovered,
                    BanIsOnLadder, NothingOverwritten

LEMMA NextServing ==
    ASSUME RoomForAll, BansOutlast, HorizonIsFar
    PROVE  Typed /\ Punctual /\ Serving /\ [Next]_vars => Serving'
<1> SUFFICES ASSUME Typed, Punctual, Serving, [Next]_vars PROVE Serving'
  OBVIOUS
<1>1. now \in Nat /\ toggles \in Nat
  BY DEF Typed, TypedFlags
<1>2. CASE \E r \in Requests : Request(r)
  BY <1>2, RequestServes
<1>3. CASE \E b \in ManualBans : BanManual(b[1], b[2])
  BY <1>3, BanManualServes
<1>4. CASE \E k \in UnbanKeys : Unban(k)
  BY <1>4, UnbanServes
<1>5. CASE Janitor
  BY <1>5, JanitorServes
<1>6. ASSUME UNCHANGED <<st, req, bans, shadow, unbanning, overruled>>, now' \in Nat, now' >= now,
             toggles' = 0 => toggles = 0 /\ dryRun' = dryRun
      PROVE  Serving'
  <2>1. SameWriters /\ SameLadder /\ SameMode'
    BY <1>6, WritersStay DEF SameLadder, Serving, SameMode, Dry
  <2> QED BY <1>6, <2>1, QuietStep
<1>7. CASE SwitchDryRun
  BY <1>1, <1>6, <1>7 DEF SwitchDryRun, tables, history
<1>8. CASE Tick
  BY <1>1, <1>6, <1>8 DEF Tick, tables, history
<1>9. CASE UNCHANGED vars
  BY <1>1, <1>6, <1>9 DEF vars
<1> QED BY <1>2, <1>3, <1>4, <1>5, <1>7, <1>8, <1>9 DEF Next

\* A key that is covered is under a ban, in its list or about to be written.
LEMMA CoveredIsUnderBan ==
    ASSUME Typed, NEW k \in Keys, NEW dry \in BOOLEAN, Covered(k, dry), st[k].banUntil > now
    PROVE  UnderBan(k, dry)
<1>1. CASE \E r \in Requests : k \in Writing(r) /\ Dry(r) = dry
  BY <1>1 DEF UnderBan
<1>2. CASE /\ k \in DOMAIN ListOf(dry)
           /\ ListOf(dry)[k].permanent \/ ListOf(dry)[k].at >= st[k].banUntil
  <2>1. ListOf(dry)[k].at \in Nat /\ st[k].banUntil \in Nat /\ now \in Nat
    BY <1>2, ListsTyped DEF Real!Ban, Typed, TypedFlags, TypedTables, Counters!State
  <2>2. Real!Active(ListOf(dry)[k], now)
    BY <1>2, <2>1 DEF Real!Active
  <2>3. CASE dry
    BY <1>2, <2>2, <2>3
       DEF UnderBan, ListOf, Shadow!Live, Shadow!Held, Shadow!Active, Real!Active
  <2>4. CASE ~dry
    BY <1>2, <2>2, <2>4 DEF UnderBan, ListOf, Real!Live, Real!Held
  <2> QED BY <2>3, <2>4
<1> QED BY <1>1, <1>2 DEF Covered

\* Whoever the ladder says is serving a ban is under one, or a request is about to write it.
THEOREM ServingIsBannedAlways ==
    ASSUME RoomForAll, BansOutlast, HorizonIsFar
    PROVE  Spec => []ServingIsBanned
<1>1. Typed /\ Serving => ServingIsBanned
  <2> SUFFICES ASSUME Typed, Serving, NEW k \in Keys, k \notin unbanning, k \notin overruled,
                      st[k].banUntil > now
               PROVE  UnderBan(k, dryRun) \/ (toggles > 0 /\ UnderBan(k, ~dryRun))
    BY DEF ServingIsBanned
  <2>1. PICK dry \in BOOLEAN : (toggles = 0 => dry = dryRun) /\ Covered(k, dry)
    BY DEF Serving, LadderIsCovered
  <2>2. UnderBan(k, dry)
    BY <2>1, CoveredIsUnderBan
  <2>3. CASE dry = dryRun
    BY <2>2, <2>3
  <2>4. CASE dry # dryRun
    <3>1. dry = ~dryRun
      BY <2>4 DEF Typed, TypedFlags
    <3>2. toggles > 0
      BY <2>1, <2>4 DEF Typed, TypedFlags
    <3> QED BY <2>2, <3>1, <3>2
  <2> QED BY <2>3, <2>4
<1> QED BY <1>1, InitTyped, NextTyped, InitPunctual, NextPunctual, InitServing, NextServing, PTL
        DEF Spec

\* One burst is one ban: no request ever writes a ban over an automatic one still in force.
THEOREM OneBanPerBurstAlways ==
    ASSUME RoomForAll, BansOutlast, HorizonIsFar
    PROVE  Spec => OneBanPerBurst
<1> DEFINE Overwrites(r, k) ==
             \E t \in {IF Dry(r) THEN shadow ELSE bans} :
                k \in DOMAIN t /\ ~t[k].manual /\ Real!Active(t[k], now)
<1>1. ASSUME Typed, Serving, NEW r \in Requests, NEW k \in Keys, k \notin overruled,
             k \in Writing(r)
      PROVE  ~Overwrites(r, k)
  <2>1. Dry(r) \in BOOLEAN
    BY <1>1, WritingType, RequestType
  <2>2. k \in DOMAIN ListOf(Dry(r)) => ~Stands(ListOf(Dry(r))[k])
    BY <1>1, <2>1 DEF Serving, NothingOverwritten
  <2> QED BY <2>2 DEF ListOf, Stands
<1>2. Typed /\ Serving =>
        [\A r \in Requests, k \in Keys \ overruled :
            k \in Writing(r) /\ req'[r].pc # req[r].pc => ~Overwrites(r, k)]_vars
  BY <1>1
<1> QED BY <1>2, InitTyped, NextTyped, InitPunctual, NextPunctual, InitServing, NextServing, PTL
        DEF Spec, OneBanPerBurst
=============================================================================
