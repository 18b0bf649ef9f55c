---------------------------- MODULE LadderProofs ----------------------------
(* What holds of the escalation ladder for every configuration. *)
EXTENDS LadderRefinement, FiniteSetTheorems, TLAPS

USE DEF ParsedLadder

-----------------------------------------------------------------------------
(* Arithmetic of decay. *)

LEMMA PeriodsAreNatural ==
    ASSUME NEW a \in Nat, NEW b \in Nat \ {0}
    PROVE  a \div b \in Nat
  BY SMT

\* Once n periods have passed, at least n rungs have decayed.
LEMMA PeriodsPassed ==
    ASSUME NEW a \in Nat, NEW n \in Nat, NEW b \in Nat \ {0}, a >= n * b
    PROVE  a \div b >= n
  BY PeriodsAreNatural, SMT

LEMMA WindowIsNatural ==
    ASSUME NEW n \in Nat
    PROVE  BanWindow(n) \in Nat \ {0}
<1>1. CASE Escalation = <<>>
  BY <1>1, LadderAssumption DEF BanWindow, BanDuration, Permanent
<1>2. CASE Escalation # <<>>
  <2>1. AtMost(AtLeast(n, 1), Len(Escalation)) \in 1..Len(Escalation)
    BY <1>2, LadderAssumption DEF AtMost, AtLeast
  <2>2. BanDuration(n) \in Nat
    BY <1>2, <2>1, LadderAssumption DEF BanDuration
  <2> QED BY <2>2, LadderAssumption DEF BanWindow, Permanent
<1> QED BY <1>1, <1>2

\* Decay only ever lowers a ladder position, and never below zero.
LEMMA DecayLowers ==
    ASSUME NEW rec \in State, NEW t \in Nat
    PROVE  /\ Decayed(rec, t) \in Nat
           /\ Decayed(rec, t) <= rec.offences
           /\ rec.banUntil > t => Decayed(rec, t) = rec.offences
<1>1. QuietSince(rec) \in Nat /\ QuietSince(rec) >= rec.banUntil
  BY DEF QuietSince, State
<1>2. CASE Decay > 0 /\ t > QuietSince(rec)
  <2> DEFINE periods == (t - QuietSince(rec)) \div Decay
  <2>1. periods \in Nat
    BY <1>1, <1>2, PeriodsAreNatural, LadderAssumption
  <2>2. Decayed(rec, t) = AtLeast(0, rec.offences - periods)
    BY <1>2 DEF Decayed
  <2> HIDE DEF periods
  <2> QED BY <1>1, <1>2, <2>1, <2>2 DEF AtLeast, State
<1>3. CASE ~(Decay > 0 /\ t > QuietSince(rec))
  BY <1>3, <1>1 DEF Decayed, State
<1> QED BY <1>2, <1>3

-----------------------------------------------------------------------------
(* Typing. *)

LEMMA NewStateIsState == NewState \in State
  BY DEF NewState, State, Zero

LEMMA GetLockedType ==
    ASSUME TypeOK, NEW k \in Keys, NEW t \in Nat
    PROVE  /\ GetLocked(k, t) \in State
           /\ GetLocked(k, t).lastSeen = t
           /\ GetLocked(k, t).offences = st[k].offences
           /\ GetLocked(k, t).lastOffence = st[k].lastOffence
           /\ GetLocked(k, t).banUntil = st[k].banUntil
  BY NewStateIsState DEF GetLocked, TypeOK, State

\* What Put leaves behind, whatever the eviction chose.
LEMMA PutEffect ==
    ASSUME TypeOK, NEW k \in Keys, NEW rec \in State, Put(k, rec)
    PROVE  /\ tracked' \subseteq tracked \cup {k}
           /\ st' \in [Keys -> State]
           /\ \A x \in Keys \ tracked' : st'[x] = NewState
           /\ \A x \in tracked' : st'[x] = IF x = k THEN rec ELSE st[x]
<1>1. PICK V \in Evicted(k) :
          /\ tracked' = (tracked \cup {k}) \ V
          /\ st' = [x \in Keys |-> IF x \in V THEN NewState
                                   ELSE IF x = k THEN rec ELSE st[x]]
  BY DEF Put
<1> QED BY <1>1, NewStateIsState DEF TypeOK

LEMMA DropEffect ==
    ASSUME TypeOK, NEW K \in SUBSET Keys, Drop(K)
    PROVE  /\ tracked' = tracked \ K
           /\ st' \in [Keys -> State]
           /\ \A x \in Keys \ tracked' : st'[x] = NewState
           /\ \A x \in tracked' : st'[x] = st[x]
  BY NewStateIsState DEF Drop, TypeOK

LEMMA SeededType ==
    ASSUME NEW rec \in State, NEW n \in Nat, NEW c \in Nat, NEW u \in Nat
    PROVE  /\ SeededRecord(rec, n, c, u) \in State
           /\ SeededRecord(rec, n, c, u).banUntil = AtLeast(rec.banUntil, u)
           /\ SeededRecord(rec, n, c, u).offences = AtLeast(rec.offences, n)
           /\ SeededRecord(rec, n, c, u).lastOffence = AtLeast(rec.lastOffence, c)
  BY DEF SeededRecord, State, AtLeast

LEMMA ClimbedType ==
    ASSUME NEW rec \in State, NEW n \in Nat, NEW t \in Nat
    PROVE  /\ Climbed(rec, n, t) \in State
           /\ Climbed(rec, n, t).offences = n
           /\ Climbed(rec, n, t).lastOffence = t
           /\ Climbed(rec, n, t).banUntil = t + BanWindow(n)
           /\ Climbed(rec, n, t).banUntil > t
<1> DEFINE w == BanWindow(n)
<1>1. w \in Nat \ {0}
  BY WindowIsNatural
<1>2. Climbed(rec, n, t) = [rec EXCEPT !.offences = n, !.lastOffence = t, !.banUntil = t + w]
  BY DEF Climbed
<1> HIDE DEF w
<1>3. t + w \in Nat /\ t + w > t
  BY <1>1
<1>4. /\ Climbed(rec, n, t) \in State
      /\ Climbed(rec, n, t).offences = n
      /\ Climbed(rec, n, t).lastOffence = t
      /\ Climbed(rec, n, t).banUntil = t + w
  BY <1>2, <1>3 DEF State
<1> QED BY <1>3, <1>4 DEF w

\* Every call that creates or updates a record is a Put of a well-formed one
\* whose ban window is no shorter, with the clock standing still.
LEMMA CallIsPut ==
    ASSUME TypeOK, NEW k \in Keys, Note(k) \/ RecordOffence(k) \/ SeedBan(k)
    PROVE  /\ now' = now
           /\ \E rec \in State : rec.banUntil >= st[k].banUntil /\ Put(k, rec)
<1>1. CASE Note(k)
  <2>1. PICK t \in Readings : Touch(k, t)
    BY <1>1 DEF Note
  <2>2. t \in Nat
    BY <2>1, LadderAssumption DEF Readings, TypeOK, Zero
  <2>3. GetLocked(k, t) \in State /\ GetLocked(k, t).banUntil >= st[k].banUntil
    BY <2>2, GetLockedType DEF TypeOK, State
  <2> QED BY <2>1, <2>3 DEF Touch
<1>2. CASE RecordOffence(k)
  <2>1. PICK t \in Readings : SameBurst(k, t) \/ FreshOffence(k, t)
    BY <1>2 DEF RecordOffence
  <2>2. t \in Nat
    BY <2>1, LadderAssumption DEF Readings, TypeOK, Zero
  <2> DEFINE got == GetLocked(k, t)
  <2>3. got \in State /\ got.banUntil = st[k].banUntil /\ st[k].banUntil \in Nat
    BY <2>2, GetLockedType DEF TypeOK, State
  <2> HIDE DEF got
  <2>4. CASE SameBurst(k, t)
    BY <2>3, <2>4 DEF SameBurst, got
  <2>5. CASE FreshOffence(k, t)
    <3> DEFINE n   == Decayed(got, t) + 1
               new == Climbed(got, n, t)
    <3>1. n \in Nat
      BY <2>2, <2>3, DecayLowers
    <3>2. Put(k, new) /\ got.banUntil <= t /\ now' = now
      BY <2>5 DEF FreshOffence, got
    <3> HIDE DEF n
    <3>3. new \in State /\ new.banUntil > t
      BY <2>2, <2>3, <3>1, ClimbedType
    <3> HIDE DEF new
    <3>4. new.banUntil >= st[k].banUntil
      BY <2>2, <2>3, <3>2, <3>3 DEF State
    <3> QED BY <3>2, <3>3, <3>4
  <2> QED BY <2>1, <2>4, <2>5
<1>3. CASE SeedBan(k)
  <2>1. PICK s \in Seeds, created \in 1..now, until \in Nat : Seed(k, s[1], created, until)
    <3>1. PICK s \in Seeds, created \in 1..now :
              Seed(k, s[1], created, now + (IF s[2] = Permanent THEN Horizon ELSE s[2]))
      BY <1>3 DEF SeedBan
    <3>2. now + (IF s[2] = Permanent THEN Horizon ELSE s[2]) \in Nat
      BY LadderAssumption DEF TypeOK
    <3> QED BY <3>1, <3>2
  <2>2. s[1] \in Nat /\ created \in Nat
    BY <2>1, LadderAssumption DEF TypeOK
  <2> DEFINE got == GetLocked(k, now)
             new == SeededRecord(got, s[1], created, until)
  <2>3. got \in State /\ got.banUntil = st[k].banUntil
    BY GetLockedType DEF TypeOK
  <2>4. new \in State /\ new.banUntil = AtLeast(got.banUntil, until)
    BY <2>1, <2>2, <2>3, SeededType
  <2>5. Put(k, new) /\ now' = now
    BY <2>1 DEF Seed
  <2> HIDE DEF got, new
  <2>6. new.banUntil >= st[k].banUntil
    BY <2>1, <2>3, <2>4 DEF AtLeast, State
  <2> QED BY <2>4, <2>5, <2>6
<1> QED BY <1>1, <1>2, <1>3

\* TypeOK is inductive: every record handed out by getLocked and written back is
\* well-formed, and every deletion leaves nothing behind.
THEOREM TypeCorrect == Spec => []TypeOK
<1>1. Init => TypeOK
  BY NewStateIsState DEF Init, TypeOK
<1>2. TypeOK /\ [Next]_vars => TypeOK'
  <2> SUFFICES ASSUME TypeOK, [Next]_vars PROVE TypeOK'
    OBVIOUS
  <2>1. ASSUME NEW k \in Keys, Note(k) \/ RecordOffence(k) \/ SeedBan(k) PROVE TypeOK'
    <3>1. PICK rec \in State : Put(k, rec)
      BY <2>1, CallIsPut
    <3>2. now' = now
      BY <2>1, CallIsPut
    <3> QED BY <3>1, <3>2, PutEffect DEF TypeOK
  <2>2. ASSUME NEW k \in Keys, Forget(k) PROVE TypeOK'
    <3>1. Drop({k}) /\ now' = now
      BY <2>2 DEF Forget
    <3> QED BY <3>1, DropEffect DEF TypeOK
  <2>3. CASE Sweep
    <3> DEFINE K == {k \in tracked : ~HoldsRung(st[k]) /\ st[k].lastSeen < now - Idle}
    <3>1. Drop(K) /\ now' = now
      BY <2>3 DEF Sweep
    <3>2. K \in SUBSET Keys
      BY DEF TypeOK
    <3> HIDE DEF K
    <3> QED BY <3>1, <3>2, DropEffect DEF TypeOK
  <2>4. CASE Tick
    BY <2>4 DEF Tick, TypeOK
  <2>5. CASE UNCHANGED vars
    BY <2>5 DEF vars, TypeOK
  <2> QED BY <2>1, <2>2, <2>3, <2>4, <2>5 DEF Next
<1> QED BY <1>1, <1>2, PTL DEF Spec

-----------------------------------------------------------------------------
(* The cap. *)

\* A batch eviction makes room for the record that triggered it.
LEMMA EvictionMakesRoom ==
    ASSUME TypeOK, CapHolds, NEW k \in Keys, NEW V \in Evicted(k)
    PROVE  Cardinality((tracked \cup {k}) \ V) <= MaxEntries
<1> DEFINE table == tracked \cup {k}
           drop  == Cardinality(table) - MaxEntries + MaxEntries \div 10
<1>1. IsFiniteSet(tracked) /\ IsFiniteSet(table)
  <2>1. tracked \subseteq Keys /\ table \subseteq Keys
    BY DEF TypeOK
  <2> QED BY <2>1, LadderAssumption, FS_Subset
<1>2. Cardinality(table) \in Nat
  BY <1>1, FS_CardinalityType
<1>3. CASE k \in tracked \/ Cardinality(table) <= MaxEntries
  <2>1. V = {}
    BY <1>3 DEF Evicted
  <2>2. CASE k \in tracked
    <3>1. table \ V = tracked
      BY <2>1, <2>2
    <3> QED BY <3>1 DEF CapHolds
  <2>3. CASE Cardinality(table) <= MaxEntries
    BY <2>1, <2>3
  <2> QED BY <1>3, <2>2, <2>3
<1>4. CASE ~(k \in tracked \/ Cardinality(table) <= MaxEntries)
  <2>1. V \subseteq table /\ Cardinality(V) = AtMost(drop, Cardinality(table))
    BY <1>4 DEF Evicted
  <2>2. MaxEntries \div 10 \in Nat
    BY LadderAssumption, PeriodsAreNatural
  <2>3. Cardinality(V) >= Cardinality(table) - MaxEntries
    BY <1>2, <2>1, <2>2, LadderAssumption DEF AtMost
  <2>4. IsFiniteSet(V)
    BY <1>1, <2>1, FS_Subset
  <2>5. Cardinality(table \ V) = Cardinality(table) - Cardinality(table \cap V)
    BY <1>1, FS_Difference
  <2>6. table \cap V = V
    BY <2>1
  <2>7. Cardinality(V) \in Nat
    BY <2>4, FS_CardinalityType
  <2> HIDE DEF drop, table
  <2>8. Cardinality(table \ V) = Cardinality(table) - Cardinality(V)
    BY <2>5, <2>6, Zenon
  <2>9. MaxEntries \in Nat
    BY LadderAssumption
  <2>10. Cardinality(table \ V) <= MaxEntries
    BY <1>2, <2>3, <2>7, <2>8, <2>9
  <2> QED BY <2>10 DEF table
<1> QED BY <1>3, <1>4

LEMMA DroppingKeepsCap ==
    ASSUME TypeOK, CapHolds, NEW K
    PROVE  Cardinality(tracked \ K) <= MaxEntries
<1>1. IsFiniteSet(tracked)
  BY LadderAssumption, FS_Subset DEF TypeOK
<1>2. /\ IsFiniteSet(tracked \ K)
      /\ Cardinality(tracked \ K) <= Cardinality(tracked)
  BY <1>1, FS_Subset
<1>3. Cardinality(tracked) \in Nat /\ Cardinality(tracked \ K) \in Nat
  BY <1>1, <1>2, FS_CardinalityType
<1> QED BY <1>2, <1>3, LadderAssumption DEF CapHolds

\* The table never outgrows counters.max.  Inductive together with TypeOK: only
\* getLocked adds a record, and it evicts before its caller sees the new one.
THEOREM CapCorrect == Spec => []CapHolds
<1>1. Init => CapHolds
  BY LadderAssumption, FS_EmptySet DEF Init, CapHolds
<1>2. TypeOK /\ CapHolds /\ [Next]_vars => CapHolds'
  <2> SUFFICES ASSUME TypeOK, CapHolds, [Next]_vars PROVE CapHolds'
    OBVIOUS
  <2>1. ASSUME NEW k \in Keys, Note(k) \/ RecordOffence(k) \/ SeedBan(k) PROVE CapHolds'
    <3>1. PICK rec \in State : Put(k, rec)
      BY <2>1, CallIsPut
    <3>2. PICK V \in Evicted(k) : tracked' = (tracked \cup {k}) \ V
      BY <3>1 DEF Put
    <3> QED BY <3>2, EvictionMakesRoom DEF CapHolds
  <2>2. ASSUME NEW k \in Keys, Forget(k) PROVE CapHolds'
    BY <2>2, DroppingKeepsCap DEF Forget, Drop, CapHolds
  <2>3. CASE Sweep
    <3>1. PICK K : tracked' = tracked \ K
      BY <2>3 DEF Sweep, Drop
    <3> QED BY <3>1, DroppingKeepsCap DEF CapHolds
  <2>4. CASE Tick
    BY <2>4 DEF Tick, CapHolds
  <2>5. CASE UNCHANGED vars
    BY <2>5 DEF vars, CapHolds
  <2> QED BY <2>1, <2>2, <2>3, <2>4, <2>5 DEF Next
<1> QED BY <1>1, <1>2, TypeCorrect, PTL DEF Spec

-----------------------------------------------------------------------------
(* What a step may never do. *)

\* No step shortens the ban window of a record it leaves in the table.
THEOREM WindowsGrow == Spec => WindowOnlyGrows
<1> DEFINE Grows == \A k \in tracked \cap tracked' : st'[k].banUntil >= st[k].banUntil
<1>1. TypeOK /\ [Next]_vars => [Grows]_vars
  <2> SUFFICES ASSUME TypeOK, Next PROVE Grows
    BY DEF vars
  <2>0. \A x \in Keys : st[x].banUntil >= st[x].banUntil
    BY DEF TypeOK, State
  <2>1. ASSUME NEW k \in Keys, Note(k) \/ RecordOffence(k) \/ SeedBan(k) PROVE Grows
    <3>1. PICK rec \in State : rec.banUntil >= st[k].banUntil /\ Put(k, rec)
      BY <2>1, CallIsPut
    <3>2. \A x \in tracked' : st'[x] = IF x = k THEN rec ELSE st[x]
      BY <3>1, PutEffect
    <3> QED BY <2>0, <3>1, <3>2 DEF TypeOK
  <2>2. ASSUME NEW K \in SUBSET Keys, Drop(K) PROVE Grows
    BY <2>0, <2>2, DropEffect DEF TypeOK
  <2>3. ASSUME NEW k \in Keys, Forget(k) PROVE Grows
    <3>1. {k} \in SUBSET Keys /\ Drop({k})
      BY <2>3 DEF Forget
    <3> QED BY <3>1, <2>2
  <2>4. CASE Sweep
    <3> DEFINE K == {k \in tracked : ~HoldsRung(st[k]) /\ st[k].lastSeen < now - Idle}
    <3>1. K \in SUBSET Keys /\ Drop(K)
      BY <2>4 DEF Sweep, TypeOK
    <3> HIDE DEF K
    <3> QED BY <3>1, <2>2
  <2>5. CASE Tick
    BY <2>0, <2>5 DEF Tick, TypeOK
  <2> QED BY <2>1, <2>3, <2>4, <2>5 DEF Next
<1> QED BY <1>1, TypeCorrect, PTL DEF Spec, WindowOnlyGrows

\* A record the janitor may drop stands on no rung.
LEMMA SweptHasDecayed ==
    ASSUME TypeOK, NEW k \in Keys, ~HoldsRung(st[k])
    PROVE  Standing(k) = 0
<1> DEFINE rec == st[k]
<1>1. rec \in State /\ now \in Nat
  BY DEF TypeOK
<1>2. Decayed(rec, now) \in Nat /\ Decayed(rec, now) <= rec.offences /\ rec.offences \in Nat
  BY <1>1, DecayLowers DEF State
<1>3. CASE rec.offences = 0
  BY <1>2, <1>3 DEF Standing
<1>4. CASE rec.offences # 0
  <2>1. /\ Decay \in Nat \ {0}
        /\ ~(now < QuietSince(rec) + rec.offences * Decay)
    BY <1>1, <1>4, LadderAssumption DEF HoldsRung, State
  <2>2. QuietSince(rec) \in Nat
    BY <1>1 DEF QuietSince, State
  <2>3. rec.offences * Decay \in Nat /\ rec.offences * Decay > 0
    BY <1>2, <1>4, <2>1
  <2> DEFINE a == now - QuietSince(rec)
             periods == a \div Decay
  <2>4. a \in Nat /\ a >= rec.offences * Decay /\ now > QuietSince(rec)
    BY <1>1, <2>1, <2>2, <2>3
  <2> HIDE DEF a
  <2>5. periods \in Nat /\ periods >= rec.offences
    BY <1>2, <2>1, <2>4, PeriodsPassed, PeriodsAreNatural
  <2>6. Decayed(rec, now) = AtLeast(0, rec.offences - periods)
    BY <2>1, <2>4 DEF Decayed, a
  <2> HIDE DEF periods
  <2> QED BY <1>2, <2>5, <2>6 DEF AtLeast, Standing
<1> QED BY <1>3, <1>4

\* The janitor's sweep moves no source on its ladder.
THEOREM SweepIsHarmless == Spec => SweepKeepsLadder
<1> DEFINE Same == Sweep => \A k \in Keys : Standing(k)' = Standing(k)
<1>1. TypeOK /\ [Next]_vars => [Same]_vars
  <2> SUFFICES ASSUME TypeOK, Sweep, NEW k \in Keys PROVE Standing(k)' = Standing(k)
    OBVIOUS
  <2> DEFINE K == {x \in tracked : ~HoldsRung(st[x]) /\ st[x].lastSeen < now - Idle}
  <2>1. Drop(K) /\ now' = now
    BY DEF Sweep
  <2>2. CASE k \in K
    <3>1. st'[k] = NewState
      BY <2>1, <2>2 DEF Drop
    <3>2. Decayed(NewState, now) = 0
      <4>1. NewState \in State /\ NewState.offences = 0
        BY NewStateIsState DEF NewState
      <4> QED BY <4>1, DecayLowers DEF TypeOK
    <3>3. Standing(k) = 0
      BY <2>2, SweptHasDecayed
    <3> QED BY <2>1, <3>1, <3>2, <3>3 DEF Standing
  <2>3. CASE k \notin K
    <3>1. st'[k] = st[k]
      BY <2>1, <2>3 DEF Drop
    <3> QED BY <2>1, <3>1 DEF Standing
  <2> QED BY <2>2, <2>3
<1> QED BY <1>1, TypeCorrect, PTL DEF Spec, SweepKeepsLadder

-----------------------------------------------------------------------------
(* The refinement. *)

\* Quotient and remainder, and that there is one of each.
LEMMA Division ==
    ASSUME NEW a \in Nat, NEW b \in Nat \ {0}
    PROVE  a \div b \in Nat /\ a % b \in 0..(b - 1) /\ a = b * (a \div b) + (a % b)
  BY SMT

LEMMA DivisionIsUnique ==
    ASSUME NEW b \in Nat \ {0}, NEW q \in Nat, NEW r \in 0..(b - 1),
           NEW u \in Nat, NEW v \in 0..(b - 1), b * q + r = b * u + v
    PROVE  q = u /\ r = v
<1>1. CASE q < u
  <2>1. b * u >= b * (q + 1) /\ b * (q + 1) = b * q + b
    BY <1>1
  <2>. QED BY <2>1
<1>2. CASE u < q
  <2>1. b * q >= b * (u + 1) /\ b * (u + 1) = b * u + b
    BY <1>2
  <2>. QED BY <2>1
<1>3. CASE u = q
  BY <1>3
<1>. QED BY <1>1, <1>2, <1>3

\* One more unit either stays within the period or completes it.
LEMMA NextDivision ==
    ASSUME NEW a \in Nat, NEW b \in Nat \ {0}
    PROVE  IF (a % b) + 1 = b
           THEN (a + 1) \div b = (a \div b) + 1 /\ (a + 1) % b = 0
           ELSE (a + 1) \div b = a \div b /\ (a + 1) % b = (a % b) + 1
<1> DEFINE q == a \div b
           r == a % b
           u == (a + 1) \div b
           v == (a + 1) % b
<1>1. q \in Nat /\ r \in 0..(b - 1) /\ a = b * q + r
  BY Division
<1>2. u \in Nat /\ v \in 0..(b - 1) /\ a + 1 = b * u + v
  <2>1. a + 1 \in Nat
    OBVIOUS
  <2>. QED BY <2>1, Division
<1> HIDE DEF q, r, u, v
<1>3. CASE r + 1 = b
  <2>1. b * (q + 1) = b * q + b
    BY <1>1
  <2>2. b * (q + 1) + 0 = b * u + v /\ q + 1 \in Nat /\ 0 \in 0..(b - 1)
    BY <1>1, <1>2, <1>3, <2>1
  <2>3. q + 1 = u /\ 0 = v
    BY <1>2, <2>2, DivisionIsUnique
  <2>. QED BY <1>3, <2>3 DEF q, r, u, v
<1>4. CASE r + 1 # b
  <2>1. b * q + (r + 1) = b * u + v /\ r + 1 \in 0..(b - 1)
    BY <1>1, <1>2, <1>4
  <2>2. q = u /\ r + 1 = v
    BY <1>1, <1>2, <2>1, DivisionIsUnique
  <2>. QED BY <1>4, <2>2 DEF q, r, u, v
<1>. QED BY <1>3, <1>4

\* What the mapping makes of a record at an instant.
LeftOf(rec, t) == IF rec.banUntil > t THEN rec.banUntil - t ELSE 0
GoodOf(rec, t) ==
    IF Decayed(rec, t) = 0 \/ rec.banUntil > t \/ Decay = 0 THEN 0
    ELSE (t - QuietSince(rec)) % Decay

\* A record without an offence has no ban, and no offence is of the future.
Sane(rec, t) == (rec.offences = 0 => rec.banUntil = 0) /\ rec.lastOffence <= t

\* The mapping as a whole, as the instance has it.
Rungs == [k \in Keys |-> Standing(k)]
Lefts == [k \in Keys |-> IF Serving(k) THEN st[k].banUntil - now ELSE 0]
Goods == [k \in Keys |-> Freedom(k)]

LEMMA MappingIs ==
    /\ Rungs = [k \in Keys |-> Decayed(st[k], now)]
    /\ Lefts = [k \in Keys |-> LeftOf(st[k], now)]
    /\ Goods = [k \in Keys |-> GoodOf(st[k], now)]
    /\ Rungs' = [k \in Keys |-> Decayed(st'[k], now')]
    /\ Lefts' = [k \in Keys |-> LeftOf(st'[k], now')]
    /\ Goods' = [k \in Keys |-> GoodOf(st'[k], now')]
BY Zenon DEF Rungs, Lefts, Goods, Standing, Serving, Freedom, LeftOf, GoodOf

\* Nothing is known of a record that was just made.
LEMMA NothingKnown ==
    ASSUME NEW rec \in State, rec.offences = 0, rec.banUntil = 0, NEW t \in Nat
    PROVE  Decayed(rec, t) = 0 /\ LeftOf(rec, t) = 0 /\ GoodOf(rec, t) = 0
<1>1. Decayed(rec, t) = 0
  BY DecayLowers
<1>. QED BY <1>1 DEF LeftOf, GoodOf

\* While a ban runs the source stands where its offence has put it.
LEMMA ServingKnown ==
    ASSUME NEW rec \in State, NEW t \in Nat, rec.banUntil > t
    PROVE  /\ Decayed(rec, t) = rec.offences
           /\ LeftOf(rec, t) = rec.banUntil - t /\ GoodOf(rec, t) = 0
BY DecayLowers DEF LeftOf, GoodOf

\* A tick of the clock does to a record what the abstract tick does.
LEMMA TickKnown ==
    ASSUME NEW rec \in State, NEW t \in Nat, Sane(rec, t)
    PROVE  LET rung == Decayed(rec, t)
               left == LeftOf(rec, t)
               good == GoodOf(rec, t)
               free == Decay > 0 /\ left = 0 /\ rung > 0
           IN  /\ LeftOf(rec, t + 1) = IF left > 0 THEN left - 1 ELSE 0
               /\ Decayed(rec, t + 1) = IF free /\ good + 1 = Decay THEN rung - 1 ELSE rung
               /\ GoodOf(rec, t + 1) = IF free /\ good + 1 < Decay THEN good + 1 ELSE 0
<1> DEFINE quiet == QuietSince(rec)
           rung == Decayed(rec, t)
           next == Decayed(rec, t + 1)
<1>1. /\ quiet \in Nat /\ quiet >= rec.banUntil /\ rec.banUntil \in Nat
      /\ rec.offences \in Nat /\ Decay \in Nat /\ t + 1 \in Nat
      /\ quiet > t => quiet = rec.banUntil
  BY LadderAssumption DEF QuietSince, State, Sane
<1>2. LeftOf(rec, t + 1) = IF LeftOf(rec, t) > 0 THEN LeftOf(rec, t) - 1 ELSE 0
  BY <1>1 DEF LeftOf
<1>3. rung \in Nat /\ next \in Nat
  BY <1>1, DecayLowers
<1>4. CASE rec.banUntil > t
  <2>1. rung = rec.offences /\ LeftOf(rec, t) > 0
    BY <1>1, <1>4, ServingKnown
  <2>2. ~(t + 1 > quiet)
    BY <1>1, <1>4
  <2>3. next = rec.offences
    BY <2>2 DEF Decayed
  <2>4. GoodOf(rec, t + 1) = 0
    <3>1. CASE rec.banUntil > t + 1
      BY <3>1 DEF GoodOf
    <3>2. CASE ~(rec.banUntil > t + 1) /\ Decay # 0
      <4>1. (t + 1) - quiet = 0
        BY <1>1, <1>4, <3>2 DEF QuietSince, Sane, State
      <4>2. 0 % Decay = 0
        BY <1>1, <3>2
      <4>. QED BY <4>1, <4>2 DEF GoodOf
    <3>3. CASE Decay = 0
      BY <3>3 DEF GoodOf
    <3>. QED BY <3>1, <3>2, <3>3
  <2>. QED BY <1>2, <2>1, <2>3, <2>4
<1>5. CASE ~(rec.banUntil > t) /\ Decay = 0
  <2>1. rung = rec.offences /\ next = rec.offences
    BY <1>5 DEF Decayed
  <2>2. GoodOf(rec, t + 1) = 0
    BY <1>5 DEF GoodOf
  <2>. QED BY <1>2, <1>5, <2>1, <2>2
<1>6. CASE ~(rec.banUntil > t) /\ Decay # 0
  <2> DEFINE a == t - quiet
             n == a \div Decay
  <2>1. a \in Nat /\ (t + 1) - quiet = a + 1 /\ t + 1 > quiet /\ Decay \in Nat \ {0}
    BY <1>1, <1>6
  <2>2. n \in Nat /\ a % Decay \in 0..(Decay - 1) /\ (a = 0 => n = 0)
    <3> HIDE DEF a
    <3>1. n \in Nat /\ a % Decay \in 0..(Decay - 1)
      BY <2>1, Division
    <3>2. a = 0 => n = 0
      BY <2>1
    <3>. QED BY <3>1, <3>2
  <2>3. rung = AtLeast(0, rec.offences - n)
    <3>1. CASE a = 0
      BY <1>1, <2>1, <2>2, <3>1 DEF Decayed, AtLeast
    <3>2. CASE a # 0
      BY <1>1, <2>1, <3>2 DEF Decayed
    <3>. QED BY <3>1, <3>2
  <2>4. next = AtLeast(0, rec.offences - ((a + 1) \div Decay))
    BY <1>1, <2>1 DEF Decayed
  <2>5. /\ LeftOf(rec, t) = 0
        /\ GoodOf(rec, t) = IF rung = 0 THEN 0 ELSE a % Decay
        /\ GoodOf(rec, t + 1) = IF next = 0 THEN 0 ELSE (a + 1) % Decay
    BY <1>1, <1>6, <2>1 DEF LeftOf, GoodOf
  <2> HIDE DEF a, n, rung, next
  <2>6. CASE (a % Decay) + 1 = Decay
    <3>1. (a + 1) \div Decay = n + 1 /\ (a + 1) % Decay = 0
      BY <2>1, <2>6, NextDivision DEF n
    <3>2. next = IF rung > 0 THEN rung - 1 ELSE 0
      BY <1>1, <2>2, <2>3, <2>4, <3>1 DEF AtLeast
    <3>. QED BY <1>1, <1>2, <1>3, <1>6, <2>2, <2>5, <2>6, <3>1, <3>2 DEF rung, next
  <2>7. CASE (a % Decay) + 1 # Decay
    <3>1. (a + 1) \div Decay = n /\ (a + 1) % Decay = (a % Decay) + 1
      BY <2>1, <2>7, NextDivision DEF n
    <3>2. next = rung
      BY <2>3, <2>4, <3>1
    <3>. QED BY <1>1, <1>2, <1>3, <1>6, <2>1, <2>2, <2>5, <2>7, <3>1, <3>2 DEF rung, next
  <2>. QED BY <2>6, <2>7
<1>. QED BY <1>4, <1>5, <1>6

\* The conditions of the refinement: the table holds all keys there are, and
\* nobody waits for the mutex while the clock advances.
TableHoldsAll == Cardinality(Keys) <= MaxEntries
FreshClock    == Lag = 0

SaneLadder == \A k \in Keys : Sane(st[k], now)
LInv       == TypeOK /\ SaneLadder

\* Nothing is evicted then.
LEMMA PutAll ==
    ASSUME TableHoldsAll, TypeOK, NEW k \in Keys, NEW rec \in State, Put(k, rec)
    PROVE  st' = [st EXCEPT ![k] = rec]
<1>1. Cardinality(tracked \cup {k}) <= MaxEntries
  <2>1. tracked \cup {k} \subseteq Keys
    BY DEF TypeOK
  <2>2. /\ IsFiniteSet(Keys) /\ IsFiniteSet(tracked \cup {k})
        /\ Cardinality(tracked \cup {k}) <= Cardinality(Keys)
    BY <2>1, LadderAssumption, FS_Subset
  <2>3. Cardinality(Keys) \in Nat /\ Cardinality(tracked \cup {k}) \in Nat
    BY <2>2, FS_CardinalityType
  <2>. QED BY <2>2, <2>3, LadderAssumption DEF TableHoldsAll
<1>2. Evicted(k) = {{}}
  BY <1>1 DEF Evicted
<1>3. st' = [x \in Keys |-> IF x = k THEN rec ELSE st[x]]
  BY <1>2 DEF Put
<1>. QED BY <1>3 DEF TypeOK

\* A call that leaves the mapping of every record as it was is a stutter.
LEMMA Unmoved ==
    ASSUME now' = now, reply' = reply,
           \A x \in Keys : /\ Decayed(st'[x], now) = Decayed(st[x], now)
                           /\ LeftOf(st'[x], now) = LeftOf(st[x], now)
                           /\ GoodOf(st'[x], now) = GoodOf(st[x], now)
    PROVE  UNCHANGED Promise!vars
<1>1. Rungs' = Rungs /\ Lefts' = Lefts /\ Goods' = Goods
  BY MappingIs
<1>. QED BY <1>1, Zenon DEF Promise!vars, Rungs, Lefts, Goods

\* A call that gives one key another record moves it alone.
LEMMA OneMoved ==
    ASSUME TypeOK, NEW k \in Keys, NEW rec \in State, st' = [st EXCEPT ![k] = rec], now' = now
    PROVE  /\ Rungs' = [Rungs EXCEPT ![k] = Decayed(rec, now)]
           /\ Lefts' = [Lefts EXCEPT ![k] = LeftOf(rec, now)]
           /\ Goods' = [Goods EXCEPT ![k] = GoodOf(rec, now)]
<1>1. \A x \in Keys : st'[x] = IF x = k THEN rec ELSE st[x]
  BY DEF TypeOK
<1>2. Rungs' = [Rungs EXCEPT ![k] = Decayed(rec, now)]
  BY <1>1, MappingIs
<1>3. Lefts' = [Lefts EXCEPT ![k] = LeftOf(rec, now)]
  BY <1>1, MappingIs
<1>4. Goods' = [Goods EXCEPT ![k] = GoodOf(rec, now)]
  BY <1>1, MappingIs
<1>. QED BY <1>2, <1>3, <1>4

LEMMA OffendStep ==
    ASSUME TableHoldsAll, FreshClock, LInv, NEW k \in Keys, NEW t \in Readings,
           FreshOffence(k, t)
    PROVE  Promise!Offend(k)
<1> DEFINE rec == GetLocked(k, t)
           n   == Decayed(rec, t) + 1
           new == Climbed(rec, n, t)
<1>1. t = now /\ now \in Nat
  BY LadderAssumption DEF Readings, FreshClock, LInv, TypeOK
<1>2. rec \in State /\ rec.banUntil = st[k].banUntil /\ rec.offences = st[k].offences
      /\ rec.lastOffence = st[k].lastOffence /\ st[k] \in State
  BY <1>1, GetLockedType DEF LInv, TypeOK
<1> HIDE DEF rec
<1>3. Decayed(rec, now) = Decayed(st[k], now) /\ Decayed(rec, now) \in Nat
  BY <1>1, <1>2, DecayLowers DEF Decayed, QuietSince
<1>4. rec.banUntil <= now /\ Put(k, new) /\ now' = now
      /\ reply' = [op |-> "recordOffence", key |-> k, offence |-> n, fresh |-> TRUE]
  BY <1>1, Zenon DEF FreshOffence, rec
<1>5. n \in Nat /\ n = Rungs[k] + 1
  BY <1>1, <1>3, MappingIs
<1> HIDE DEF n
<1>6. BanWindow(n) \in Nat \ {0}
  BY <1>5, WindowIsNatural
<1>7. /\ new \in State /\ new.offences = n /\ new.banUntil = now + BanWindow(n)
      /\ new.banUntil > now
  <2>1. t \in Nat /\ rec \in State /\ n \in Nat
    BY <1>1, <1>2, <1>5
  <2>2. /\ new \in State /\ new.offences = n /\ new.banUntil = t + BanWindow(n)
        /\ new.banUntil > t
    BY <2>1, ClimbedType
  <2> HIDE DEF new
  <2>. QED BY <1>1, <2>2
<1> HIDE DEF new
<1>8. /\ Decayed(new, now) = n /\ LeftOf(new, now) = BanWindow(n) /\ GoodOf(new, now) = 0
  BY <1>1, <1>6, <1>7, ServingKnown
<1>9. st' = [st EXCEPT ![k] = new]
  BY <1>4, <1>7, PutAll DEF LInv
<1>10. /\ Rungs' = [Rungs EXCEPT ![k] = n]
       /\ Lefts' = [Lefts EXCEPT ![k] = BanWindow(n)]
       /\ Goods' = [Goods EXCEPT ![k] = 0]
  <2>1. /\ Rungs' = [Rungs EXCEPT ![k] = Decayed(new, now)]
        /\ Lefts' = [Lefts EXCEPT ![k] = LeftOf(new, now)]
        /\ Goods' = [Goods EXCEPT ![k] = GoodOf(new, now)]
    BY <1>4, <1>7, <1>9, OneMoved DEF LInv
  <2>. QED BY <1>8, <2>1, Zenon
<1>11. Lefts[k] = 0
  BY <1>1, <1>2, <1>4, MappingIs DEF LeftOf, State
<1>12. /\ Rungs' = [Rungs EXCEPT ![k] = Rungs[k] + 1]
       /\ Lefts' = [Lefts EXCEPT ![k] = BanWindow(Rungs[k] + 1)]
  BY <1>5, <1>10
<1>13. reply' = Promise!Answer(k, Rungs[k] + 1, TRUE)
  BY <1>4, <1>5 DEF Promise!Answer
<1>. QED BY <1>4, <1>10, <1>11, <1>12, <1>13, Zenon DEF Promise!Offend, Rungs, Lefts, Goods

LEMMA RepeatStep ==
    ASSUME TableHoldsAll, FreshClock, LInv, NEW k \in Keys, NEW t \in Readings,
           SameBurst(k, t)
    PROVE  Promise!Repeat(k)
<1> DEFINE rec == GetLocked(k, t)
<1>1. t = now /\ now \in Nat
  BY LadderAssumption DEF Readings, FreshClock, LInv, TypeOK
<1>2. rec \in State /\ rec.banUntil = st[k].banUntil /\ rec.offences = st[k].offences
      /\ st[k] \in State
  BY <1>1, GetLockedType DEF LInv, TypeOK
<1> HIDE DEF rec
<1>3. rec.banUntil > now /\ Put(k, rec) /\ now' = now
      /\ reply' = [op |-> "recordOffence", key |-> k, offence |-> rec.offences, fresh |-> FALSE]
  BY <1>1, Zenon DEF SameBurst, rec
<1>4. /\ Decayed(rec, now) = rec.offences /\ Decayed(st[k], now) = rec.offences
      /\ LeftOf(rec, now) = rec.banUntil - now /\ LeftOf(st[k], now) = rec.banUntil - now
      /\ GoodOf(rec, now) = 0 /\ GoodOf(st[k], now) = 0
  <2>1. st[k].banUntil > now
    BY <1>2, <1>3
  <2>. QED BY <1>1, <1>2, <1>3, <2>1, ServingKnown
<1>5. st' = [st EXCEPT ![k] = rec]
  BY <1>2, <1>3, PutAll DEF LInv
<1>6. Rungs' = Rungs /\ Lefts' = Lefts /\ Goods' = Goods
  <2>1. \A x \in Keys : st'[x] = IF x = k THEN rec ELSE st[x]
    BY <1>5 DEF LInv, TypeOK
  <2>2. \A x \in Keys : /\ Decayed(st'[x], now) = Decayed(st[x], now)
                        /\ LeftOf(st'[x], now) = LeftOf(st[x], now)
                        /\ GoodOf(st'[x], now) = GoodOf(st[x], now)
    BY <1>4, <2>1
  <2>. QED BY <1>3, <2>2, MappingIs
<1>7. Lefts[k] > 0 /\ Rungs[k] = rec.offences
  <2>1. Lefts[k] = rec.banUntil - now /\ Rungs[k] = rec.offences
    BY <1>4, MappingIs
  <2>2. rec.banUntil \in Nat
    BY <1>2 DEF State
  <2>. QED BY <1>1, <1>3, <2>1, <2>2
<1>8. reply' = Promise!Answer(k, Rungs[k], FALSE)
  BY <1>3, <1>7 DEF Promise!Answer
<1>. QED BY <1>3, <1>6, <1>7, <1>8, Zenon DEF Promise!Repeat, Rungs, Lefts, Goods

LEMMA TouchStep ==
    ASSUME TableHoldsAll, LInv, NEW k \in Keys, NEW t \in Readings, Touch(k, t)
    PROVE  UNCHANGED Promise!vars
<1> DEFINE rec == GetLocked(k, t)
<1>1. t \in Nat /\ now \in Nat
  BY LadderAssumption DEF Readings, LInv, TypeOK, Zero
<1>2. rec \in State /\ rec.banUntil = st[k].banUntil /\ rec.offences = st[k].offences
      /\ rec.lastOffence = st[k].lastOffence
  BY <1>1, GetLockedType DEF LInv
<1> HIDE DEF rec
<1>3. Put(k, rec) /\ now' = now /\ reply' = reply
  BY DEF Touch, rec
<1>4. st' = [st EXCEPT ![k] = rec]
  BY <1>2, <1>3, PutAll DEF LInv
<1>5. QuietSince(rec) = QuietSince(st[k])
  BY <1>2 DEF QuietSince
<1>6. Decayed(rec, now) = Decayed(st[k], now)
  BY <1>2, <1>5 DEF Decayed
<1>7. LeftOf(rec, now) = LeftOf(st[k], now) /\ GoodOf(rec, now) = GoodOf(st[k], now)
  BY <1>2, <1>5, <1>6 DEF LeftOf, GoodOf
<1>8. \A x \in Keys : st'[x] = IF x = k THEN rec ELSE st[x]
  BY <1>4 DEF LInv, TypeOK
<1>9. \A x \in Keys : /\ Decayed(st'[x], now) = Decayed(st[x], now)
                      /\ LeftOf(st'[x], now) = LeftOf(st[x], now)
                      /\ GoodOf(st'[x], now) = GoodOf(st[x], now)
  BY <1>6, <1>7, <1>8
<1>. QED BY <1>3, <1>9, Unmoved

LEMMA InheritStep ==
    ASSUME TableHoldsAll, LInv, NEW k \in Keys, SeedBan(k)
    PROVE  Promise!Inherit(k)
<1>1. PICK s \in Seeds, created \in 1..now :
          Seed(k, s[1], created, now + (IF s[2] = Permanent THEN Horizon ELSE s[2]))
  BY DEF SeedBan
<1> DEFINE rest  == IF s[2] = Permanent THEN Horizon ELSE s[2]
           n     == s[1]
           until == now + rest
           rec   == GetLocked(k, now)
           new   == SeededRecord(rec, n, created, until)
<1>2. now \in Nat /\ rest \in Nat \ {0} /\ n \in Nat /\ created \in Nat
  BY LadderAssumption DEF LInv, TypeOK, Permanent
<1> HIDE DEF rest
<1>3. until \in Nat /\ until > now
  BY <1>2
<1>4. Seed(k, n, created, until)
  BY <1>1, Zenon DEF until, rest
<1> HIDE DEF until, n
<1>5. Put(k, new) /\ now' = now /\ reply' = reply
  BY <1>4, Zenon DEF Seed
<1>6. rec \in State /\ rec.banUntil = st[k].banUntil /\ rec.offences = st[k].offences
      /\ st[k] \in State
  BY <1>2, GetLockedType DEF LInv, TypeOK
<1> HIDE DEF rec
<1>7. /\ new \in State /\ new.banUntil = AtLeast(rec.banUntil, until)
      /\ new.offences = AtLeast(rec.offences, n)
  <2>1. rec \in State /\ n \in Nat /\ created \in Nat /\ until \in Nat
    BY <1>2, <1>3, <1>6
  <2>. QED BY <2>1, SeededType
<1> HIDE DEF new
<1>8. /\ new.banUntil > now /\ new.banUntil >= st[k].banUntil
      /\ new.offences >= st[k].offences /\ new.banUntil \in Nat
      /\ st[k].banUntil \in Nat /\ st[k].offences \in Nat /\ new.offences \in Nat
  BY <1>2, <1>3, <1>6, <1>7 DEF AtLeast, State
<1>9. /\ Decayed(new, now) = new.offences /\ LeftOf(new, now) = new.banUntil - now
      /\ GoodOf(new, now) = 0
  BY <1>2, <1>7, <1>8, ServingKnown
<1>10. st' = [st EXCEPT ![k] = new]
  BY <1>5, <1>7, PutAll DEF LInv
<1>11. /\ Rungs' = [Rungs EXCEPT ![k] = Decayed(new, now)]
       /\ Lefts' = [Lefts EXCEPT ![k] = LeftOf(new, now)]
       /\ Goods' = [Goods EXCEPT ![k] = GoodOf(new, now)]
  BY <1>5, <1>7, <1>10, OneMoved DEF LInv
<1>12. Goods' = [Goods EXCEPT ![k] = 0]
  BY <1>9, <1>11, Zenon
<1>13. /\ Rungs'[k] = new.offences /\ Lefts'[k] = new.banUntil - now
       /\ Rungs[k] = Decayed(st[k], now) /\ Lefts[k] = LeftOf(st[k], now)
  BY <1>9, <1>11, MappingIs
<1>14. Rungs' = [Rungs EXCEPT ![k] = Rungs'[k]] /\ Lefts' = [Lefts EXCEPT ![k] = Lefts'[k]]
  BY <1>9, <1>11, <1>13, Zenon
<1>15. Rungs'[k] >= Rungs[k]
  <2>1. Decayed(st[k], now) \in Nat /\ Decayed(st[k], now) <= st[k].offences
    BY <1>2, <1>6, DecayLowers
  <2>. QED BY <1>8, <1>13, <2>1
<1>16. Lefts'[k] > 0 /\ Lefts'[k] >= Lefts[k]
  BY <1>2, <1>8, <1>13 DEF LeftOf
<1>. QED BY <1>5, <1>12, <1>14, <1>15, <1>16, Zenon DEF Promise!Inherit, Rungs, Lefts, Goods

\* What Drop does to the mapping.
LEMMA NewKnown ==
    ASSUME NEW t \in Nat
    PROVE  Decayed(NewState, t) = 0 /\ LeftOf(NewState, t) = 0 /\ GoodOf(NewState, t) = 0
<1>1. NewState \in State /\ NewState.offences = 0 /\ NewState.banUntil = 0
  BY NewStateIsState DEF NewState, Zero
<1>. QED BY <1>1, NothingKnown

LEMMA PardonStep ==
    ASSUME LInv, NEW k \in Keys, Forget(k)
    PROVE  Promise!Pardon(k)
<1>1. st' = [st EXCEPT ![k] = NewState] /\ now' = now /\ reply' = [op |-> "forget", key |-> k]
  BY DEF Forget, Drop, LInv, TypeOK
<1>2. /\ Rungs' = [Rungs EXCEPT ![k] = Decayed(NewState, now)]
      /\ Lefts' = [Lefts EXCEPT ![k] = LeftOf(NewState, now)]
      /\ Goods' = [Goods EXCEPT ![k] = GoodOf(NewState, now)]
  BY <1>1, NewStateIsState, OneMoved DEF LInv
<1>3. Decayed(NewState, now) = 0 /\ LeftOf(NewState, now) = 0 /\ GoodOf(NewState, now) = 0
  BY NewKnown DEF LInv, TypeOK
<1>4. /\ Rungs' = [Rungs EXCEPT ![k] = 0] /\ Lefts' = [Lefts EXCEPT ![k] = 0]
      /\ Goods' = [Goods EXCEPT ![k] = 0]
  BY <1>2, <1>3, Zenon
<1>. QED BY <1>1, <1>4, Zenon DEF Promise!Pardon, Rungs, Lefts, Goods

\* The janitor takes only records that the promise knows nothing of.
LEMMA SweepStep ==
    ASSUME LInv, Sweep
    PROVE  UNCHANGED Promise!vars
<1> DEFINE K == {k \in tracked : ~HoldsRung(st[k]) /\ st[k].lastSeen < now - Idle}
<1>1. Drop(K) /\ now' = now /\ reply' = reply
  BY DEF Sweep
<1>2. ASSUME NEW x \in Keys
      PROVE  /\ Decayed(st'[x], now) = Decayed(st[x], now)
             /\ LeftOf(st'[x], now) = LeftOf(st[x], now)
             /\ GoodOf(st'[x], now) = GoodOf(st[x], now)
  <2>1. CASE x \in K
    <3>1. st'[x] = NewState /\ ~HoldsRung(st[x])
      BY <1>1, <2>1 DEF Drop
    <3>2. Decayed(st[x], now) = 0
      BY <3>1, SweptHasDecayed DEF LInv, Standing
    <3>3. LeftOf(st[x], now) = 0
      <4>1. st[x] \in State /\ now \in Nat /\ Sane(st[x], now)
        BY DEF LInv, TypeOK, SaneLadder
      <4>2. ~(st[x].banUntil > now)
        BY <3>1, <4>1 DEF HoldsRung, Sane, State
      <4>. QED BY <4>2 DEF LeftOf
    <3>4. GoodOf(st[x], now) = 0
      BY <3>2 DEF GoodOf
    <3>5. /\ Decayed(NewState, now) = 0 /\ LeftOf(NewState, now) = 0
          /\ GoodOf(NewState, now) = 0
      BY NewKnown DEF LInv, TypeOK
    <3>. QED BY <3>1, <3>2, <3>3, <3>4, <3>5
  <2>2. CASE x \notin K
    BY <1>1, <2>2 DEF Drop
  <2>. QED BY <2>1, <2>2
<1>. QED BY <1>1, <1>2, Unmoved

LEMMA TickStep ==
    ASSUME LInv, Tick
    PROVE  Promise!Tick
<1>1. now < EndOfTime /\ now' = now + 1 /\ st' = st /\ reply' = reply
  BY DEF Tick
<1>2. ASSUME NEW k \in Keys
      PROVE  /\ Lefts[k] = LeftOf(st[k], now) /\ Lefts'[k] = LeftOf(st[k], now + 1)
             /\ Rungs[k] = Decayed(st[k], now) /\ Rungs'[k] = Decayed(st[k], now + 1)
             /\ Goods[k] = GoodOf(st[k], now) /\ Goods'[k] = GoodOf(st[k], now + 1)
  BY <1>1, MappingIs
<1> DEFINE free(k)   == Decay > 0 /\ Lefts[k] = 0 /\ Rungs[k] > 0
           decays(k) == Decay > 0 /\ Lefts[k] = 0 /\ Rungs[k] > 0 /\ Goods[k] + 1 = Decay
           earns(k)  == Decay > 0 /\ Lefts[k] = 0 /\ Rungs[k] > 0 /\ Goods[k] + 1 < Decay
<1>3. ASSUME NEW k \in Keys
      PROVE  /\ Lefts'[k] = IF Lefts[k] > 0 THEN Lefts[k] - 1 ELSE 0
             /\ Rungs'[k] = IF decays(k) THEN Rungs[k] - 1 ELSE Rungs[k]
             /\ Goods'[k] = IF earns(k) THEN Goods[k] + 1 ELSE 0
  <2>1. st[k] \in State /\ now \in Nat /\ Sane(st[k], now)
    BY DEF LInv, TypeOK, SaneLadder
  <2>. QED BY <1>2, <2>1, TickKnown
<1>4. /\ Lefts' = [k \in Keys |-> Lefts'[k]] /\ Rungs' = [k \in Keys |-> Rungs'[k]]
      /\ Goods' = [k \in Keys |-> Goods'[k]]
  BY MappingIs
<1>5. Lefts' = [k \in Keys |-> IF Lefts[k] > 0 THEN Lefts[k] - 1 ELSE 0]
  BY <1>3, <1>4
<1>6. Rungs' = [k \in Keys |-> IF decays(k) THEN Rungs[k] - 1 ELSE Rungs[k]]
  BY <1>3, <1>4
<1>7. Goods' = [k \in Keys |-> IF earns(k) THEN Goods[k] + 1 ELSE 0]
  BY <1>3, <1>4
<1>. QED BY <1>1, <1>5, <1>6, <1>7, Zenon DEF Promise!Tick, Promise!Decays, Promise!Earns,
            Rungs, Lefts, Goods

-----------------------------------------------------------------------------
(* The invariant the mapping rests on. *)

LEMMA NewIsSane ==
    ASSUME NEW t \in Nat
    PROVE  Sane(NewState, t)
  BY DEF Sane, NewState, Zero

\* A sane record written back leaves a sane ladder, whatever is evicted.
LEMMA PutKeepsSane ==
    ASSUME TypeOK, SaneLadder, NEW k \in Keys, NEW rec \in State, Sane(rec, now),
           Put(k, rec), now' = now
    PROVE  SaneLadder'
<1>1. /\ \A x \in Keys \ tracked' : st'[x] = NewState
      /\ \A x \in tracked' : st'[x] = IF x = k THEN rec ELSE st[x]
  BY PutEffect
<1>2. Sane(NewState, now)
  BY NewIsSane DEF TypeOK
<1>3. ASSUME NEW x \in Keys PROVE Sane(st'[x], now)
  <2>1. st'[x] = NewState \/ st'[x] = rec \/ st'[x] = st[x]
    BY <1>1
  <2>. QED BY <1>2, <2>1 DEF SaneLadder
<1>. QED BY <1>3 DEF SaneLadder

LEMMA DropKeepsSane ==
    ASSUME TypeOK, SaneLadder, NEW K, Drop(K), now' = now
    PROVE  SaneLadder'
<1>1. Sane(NewState, now)
  BY NewIsSane DEF TypeOK
<1>2. ASSUME NEW x \in Keys PROVE Sane(st'[x], now)
  <2>1. st'[x] = NewState \/ st'[x] = st[x]
    BY DEF Drop
  <2>. QED BY <1>1, <2>1 DEF SaneLadder
<1>. QED BY <1>2 DEF SaneLadder

LEMMA SaneStep == LInv /\ [Next]_vars => SaneLadder'
<1> SUFFICES ASSUME LInv, [Next]_vars PROVE SaneLadder'
  OBVIOUS
<1>1. \A k \in Keys : st[k] \in State /\ Sane(st[k], now)
  BY DEF LInv, TypeOK, SaneLadder
<1>2. ASSUME NEW k \in Keys, Note(k) PROVE SaneLadder'
  <2>1. PICK t \in Readings : Touch(k, t)
    BY <1>2 DEF Note
  <2> DEFINE rec == GetLocked(k, t)
  <2>2. t \in Nat
    BY <2>1, LadderAssumption DEF Readings, LInv, TypeOK, Zero
  <2>3. rec \in State /\ Sane(rec, now)
    BY <1>1, <2>2, GetLockedType DEF LInv, Sane
  <2>4. Put(k, rec) /\ now' = now
    BY <2>1 DEF Touch
  <2> HIDE DEF rec
  <2>. QED BY <2>3, <2>4, PutKeepsSane DEF LInv
<1>3. ASSUME NEW k \in Keys, RecordOffence(k) PROVE SaneLadder'
  <2>1. PICK t \in Readings : SameBurst(k, t) \/ FreshOffence(k, t)
    BY <1>3 DEF RecordOffence
  <2> DEFINE rec == GetLocked(k, t)
             n   == Decayed(rec, t) + 1
             new == Climbed(rec, n, t)
  <2>2. t \in Nat /\ t <= now
    BY <2>1, LadderAssumption DEF Readings, LInv, TypeOK, Zero
  <2>3. rec \in State /\ Sane(rec, now)
    BY <1>1, <2>2, GetLockedType DEF LInv, Sane
  <2>4. CASE SameBurst(k, t)
    <3>1. Put(k, rec) /\ now' = now
      BY <2>4 DEF SameBurst
    <3> HIDE DEF rec
    <3>. QED BY <2>3, <3>1, PutKeepsSane DEF LInv
  <2>5. CASE FreshOffence(k, t)
    <3>1. Put(k, new) /\ now' = now
      BY <2>5, Zenon DEF FreshOffence
    <3> HIDE DEF rec
    <3>2. n \in Nat /\ n > 0
      BY <2>2, <2>3, DecayLowers
    <3> HIDE DEF n
    <3>3. new \in State /\ new.offences = n /\ new.lastOffence = t
      BY <2>2, <2>3, <3>2, ClimbedType
    <3> HIDE DEF new
    <3>4. Sane(new, now)
      BY <2>2, <3>2, <3>3 DEF Sane
    <3>. QED BY <3>1, <3>3, <3>4, PutKeepsSane DEF LInv
  <2>. QED BY <2>1, <2>4, <2>5
<1>4. ASSUME NEW k \in Keys, SeedBan(k) PROVE SaneLadder'
  <2>1. PICK s \in Seeds, created \in 1..now :
            Seed(k, s[1], created, now + (IF s[2] = Permanent THEN Horizon ELSE s[2]))
    BY <1>4 DEF SeedBan
  <2> DEFINE n     == s[1]
             until == now + (IF s[2] = Permanent THEN Horizon ELSE s[2])
             rec   == GetLocked(k, now)
             new   == SeededRecord(rec, n, created, until)
  <2>2. /\ n \in Nat /\ created \in Nat /\ created <= now /\ now \in Nat
        /\ until \in Nat
    BY LadderAssumption DEF LInv, TypeOK
  <2> HIDE DEF until
  <2>3. n > 0 /\ Put(k, new) /\ now' = now
    BY <2>1, Zenon DEF Seed, until
  <2>4. rec \in State /\ Sane(rec, now)
    BY <1>1, <2>2, GetLockedType DEF LInv, Sane
  <2> HIDE DEF rec, n
  <2>5. /\ new \in State /\ new.offences = AtLeast(rec.offences, n)
        /\ new.lastOffence = AtLeast(rec.lastOffence, created)
    <3>1. rec \in State /\ n \in Nat /\ created \in Nat /\ until \in Nat
      BY <2>2, <2>4
    <3>. QED BY <3>1, SeededType
  <2> HIDE DEF new
  <2>6. Sane(new, now)
    BY <2>2, <2>3, <2>4, <2>5 DEF Sane, AtLeast, State
  <2>. QED BY <2>3, <2>5, <2>6, PutKeepsSane DEF LInv
<1>5. ASSUME NEW k \in Keys, Forget(k) PROVE SaneLadder'
  BY <1>5, DropKeepsSane DEF Forget, LInv
<1>6. CASE Sweep
  BY <1>6, DropKeepsSane DEF Sweep, LInv
<1>7. CASE Tick
  <2>1. st' = st /\ now' = now + 1 /\ now \in Nat
    BY <1>7 DEF Tick, LInv, TypeOK
  <2>2. \A k \in Keys : Sane(st[k], now + 1)
    BY <1>1, <2>1 DEF Sane, State
  <2>. QED BY <2>1, <2>2 DEF SaneLadder
<1>8. CASE UNCHANGED vars
  BY <1>8 DEF vars, LInv, SaneLadder
<1>. QED BY <1>2, <1>3, <1>4, <1>5, <1>6, <1>7, <1>8 DEF Next

\* In every state an offence that is remembered is of the past, and a source
\* without one has no ban window.
LEMMA LadderIsSane == Spec => []LInv
<1>1. Init => SaneLadder
  <2> SUFFICES ASSUME Init PROVE SaneLadder
    OBVIOUS
  <2>1. now = 1 /\ \A k \in Keys : st[k] = NewState
    BY DEF Init
  <2>2. Sane(NewState, now)
    BY <2>1, NewIsSane
  <2>. QED BY <2>1, <2>2 DEF SaneLadder
<1>2. SaneLadder /\ TypeOK /\ [Next]_vars => SaneLadder'
  BY SaneStep DEF LInv
<1>3. Spec => []SaneLadder
  BY <1>1, <1>2, TypeCorrect, PTL DEF Spec
<1>. QED BY <1>3, TypeCorrect, PTL DEF LInv

-----------------------------------------------------------------------------
(* The theorem. *)

LEMMA InitKept == Init => Promise!Init
<1> SUFFICES ASSUME Init PROVE Promise!Init
  OBVIOUS
<1>1. now = 1 /\ reply = [op |-> "none"] /\ \A k \in Keys : st[k] = NewState
  BY DEF Init
<1>2. /\ Decayed(NewState, now) = 0 /\ LeftOf(NewState, now) = 0
      /\ GoodOf(NewState, now) = 0
  BY <1>1, NewKnown
<1>3. /\ Rungs = [k \in Keys |-> 0] /\ Lefts = [k \in Keys |-> 0]
      /\ Goods = [k \in Keys |-> 0]
  BY <1>1, <1>2, MappingIs
<1>. QED BY <1>1, <1>3, Zenon DEF Promise!Init, Rungs, Lefts, Goods

LEMMA StepKept ==
    ASSUME TableHoldsAll, FreshClock, LInv, [Next]_vars
    PROVE  [Promise!Next]_(Promise!vars)
<1>1. ASSUME NEW k \in Keys, Note(k) PROVE UNCHANGED Promise!vars
  BY <1>1, TouchStep DEF Note
<1>2. ASSUME NEW k \in Keys, RecordOffence(k) PROVE Promise!Next
  <2>1. PICK t \in Readings : SameBurst(k, t) \/ FreshOffence(k, t)
    BY <1>2 DEF RecordOffence
  <2>2. Promise!Repeat(k) \/ Promise!Offend(k)
    BY <2>1, RepeatStep, OffendStep
  <2>. QED BY <2>2, Zenon DEF Promise!Next
<1>3. ASSUME NEW k \in Keys, SeedBan(k) PROVE Promise!Next
  <2>1. Promise!Inherit(k)
    BY <1>3, InheritStep
  <2>. QED BY <2>1, Zenon DEF Promise!Next
<1>4. ASSUME NEW k \in Keys, Forget(k) PROVE Promise!Next
  <2>1. Promise!Pardon(k)
    BY <1>4, PardonStep
  <2>. QED BY <2>1, Zenon DEF Promise!Next
<1>5. CASE Sweep
  BY <1>5, SweepStep
<1>6. CASE Tick
  <2>1. Promise!Tick
    BY <1>6, TickStep
  <2>. QED BY <2>1, Zenon DEF Promise!Next
<1>7. CASE UNCHANGED vars
  <2>1. /\ now' = now /\ reply' = reply
        /\ \A x \in Keys : /\ Decayed(st'[x], now) = Decayed(st[x], now)
                           /\ LeftOf(st'[x], now) = LeftOf(st[x], now)
                           /\ GoodOf(st'[x], now) = GoodOf(st[x], now)
    BY <1>7 DEF vars
  <2>. QED BY <2>1, Unmoved
<1>. QED BY <1>1, <1>2, <1>3, <1>4, <1>5, <1>6, <1>7, Zenon DEF Next

\* The ladder of counters.go implements the abstract one: whatever the order of
\* calls, sweeps and replayed bans, recordOffence and forget answer as a ladder
\* would that has no clock, no table and no janitor.  For tables that hold all
\* the keys there are, and callers that do not wait for the mutex across a tick.
THEOREM KeepsThePromise ==
    ASSUME TableHoldsAll, FreshClock
    PROVE  Spec => KeepsPromise
<1>1. LInv /\ [Next]_vars => [Promise!Next]_(Promise!vars)
  BY StepKept
<1>. QED BY <1>1, InitKept, LadderIsSane, PTL DEF Spec, KeepsPromise, Promise!Spec
=============================================================================
