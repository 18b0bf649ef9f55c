--------------------------- MODULE DetectorsProofs ---------------------------
(***************************************************************************)
(* What the detectors that remember promise, for every capacity, leak,     *)
(* window, rate and burst.                                                 *)
(***************************************************************************)
EXTENDS Detectors, FiniteSetTheorems, WellFoundedInduction, TLAPS

USE DEF Parsed

-----------------------------------------------------------------------------
(* Numbers. *)

\* The least natural number of a set.
LEMMA LeastNat ==
    ASSUME NEW T, T \subseteq Nat, T # {}
    PROVE  \E m \in T : \A n \in T : m <= n
<1>1. IsWellFoundedOn(OpToRel(<, Nat), Nat)
  BY NatLessThanWellFounded
<1>2. PICK m \in T : \A n \in T : ~(<<n, m>> \in OpToRel(<, Nat))
  BY <1>1, WFMin
<1>3. \A n \in T : ~(<<n, m>> \in {p \in Nat \X Nat : p[1] < p[2]})
  BY <1>2, Zenon DEF OpToRel
<1>4. ASSUME NEW n \in T
      PROVE  m <= n
  <2>1. m \in Nat /\ n \in Nat
    OBVIOUS
  <2>2. ~(<<n, m>>[1] < <<n, m>>[2])
    BY <1>3, <2>1, Zenon
  <2>. QED BY <2>1, <2>2
<1>. QED BY <1>4

\* A set that holds 0 and with every number the next one holds them all.
LEMMA NatSet ==
    ASSUME NEW S, 0 \in S, \A n \in Nat : n \in S => n + 1 \in S
    PROVE  Nat \subseteq S
<1>1. SUFFICES ASSUME Nat \ S # {}
               PROVE  FALSE
  OBVIOUS
<1>2. PICK m \in Nat \ S : \A n \in Nat \ S : m <= n
  BY <1>1, LeastNat
<1>3. m # 0 /\ m - 1 \in Nat
  BY <1>2
<1>4. m - 1 \in S
  BY <1>2, <1>3
<1>. QED BY <1>2, <1>3, <1>4

LEMMA Spread ==
    ASSUME NEW x \in Int, NEW a \in Int, NEW b \in Int
    PROVE  x * (a + b) = x * a + x * b /\ x * a \in Int
OBVIOUS

\* Multiples of a positive number are ordered as what they are multiples of.
LEMMA Multiples ==
    ASSUME NEW x \in Nat \ {0}, NEW a \in Int, NEW b \in Int
    PROVE  /\ x * a \in Int /\ x * b \in Int
           /\ a <= b => x * a <= x * b
           /\ a < b <=> x * a < x * b
           /\ a < b => x * a + x <= x * b
<1>1. ASSUME NEW c \in Int, NEW d \in Int, c < d PROVE x * c + x <= x * d
  <2>1. PICK e \in Nat : d = c + 1 + e
    <3>1. d - c - 1 \in Nat /\ d = c + 1 + (d - c - 1)
      BY <1>1
    <3>. QED BY <3>1
  <2>2. x * d = x * c + x + x * e
    BY <2>1
  <2>3. x * e \in Nat
    OBVIOUS
  <2>. QED BY <2>2, <2>3
<1>2. x * a \in Int /\ x * b \in Int
  OBVIOUS
<1>3. CASE a < b
  BY <1>1, <1>2, <1>3
<1>4. CASE a = b
  BY <1>2, <1>4
<1>5. CASE b < a
  <2>1. x * b + x <= x * a
    BY <1>1, <1>5
  <2>. QED BY <1>2, <1>5, <2>1
<1>. QED BY <1>3, <1>4, <1>5

-----------------------------------------------------------------------------
(* A bucket and what it was told since its last hit. *)

Words   == Items["badPaths"] \cup Items["uaRotation"] \cup {"denied"}
Entries == [what : Words, at : Nat \ {0}]
Levels  == [seen : SUBSET Words, level : Nat, at : Nat]
Full(d) == Event(d) * Capacity[d] - HalfEvent(d)

\* The items of the entries of h from the i-th to the j-th, and those of them that
\* are new there.
Named(h, i, j) == {h[k].what : k \in i..j}
New(h, i, j)   == Named(h, i, j) \ Named(h, 1, i - 1)

\* The bucket counts an item once, or there are enough of them anyway.
CountsOnce(d, b, h) ==
    /\ b.seen \subseteq Named(h, 1, Len(h)) /\ IsFiniteSet(b.seen)
    /\ \/ Cardinality(Named(h, 1, Len(h))) >= Capacity[d]
       \/ b.level <= Event(d) * Cardinality(b.seen)

\* Whatever came since the i-th entry is in the level, but for what leaked since.
CountsAll(d, b, h) ==
    \A i \in 1..Len(h) :
        b.level >= Event(d) * Cardinality(New(h, i, Len(h))) - 2 * (b.at - h[i].at)

\* The bucket is not full, and it was last changed by the last entry.
InStep(d, b, h) ==
    /\ b.level < Full(d)
    /\ IF h = <<>> THEN b.seen = {} /\ b.level = 0 ELSE b.at = h[Len(h)].at

QuickAreFew(d, h) ==
    \A i, j \in 1..Len(h) :
        (i <= j /\ 2 * (h[j].at - h[i].at) <= Leak[d]) => Cardinality(New(h, i, j)) < Capacity[d]

Agrees(d, b, h) == CountsOnce(d, b, h) /\ CountsAll(d, b, h) /\ InStep(d, b, h)

LEMMA Parameters ==
    ASSUME NEW d \in Buckets
    PROVE  /\ Leak[d] \in Nat \ {0} /\ Capacity[d] \in Nat \ {0} /\ Capacity[d] <= MaxDistinct
           /\ HalfEvent(d) = Leak[d] /\ Event(d) = 2 * Leak[d] /\ Event(d) \in Nat \ {0}
           /\ MaxDistinct \in Nat \ {0} /\ Full(d) \in Nat \ {0}
<1>1. /\ Leak[d] \in Nat \ {0} /\ Capacity[d] \in Nat \ {0} /\ Capacity[d] <= MaxDistinct
      /\ MaxDistinct \in Nat \ {0}
  BY DetectorsAssumption DEF Buckets
<1>2. HalfEvent(d) = Leak[d] /\ Event(d) = 2 * Leak[d] /\ Event(d) \in Nat \ {0}
  BY <1>1 DEF HalfEvent, Event
<1>3. Event(d) * 1 <= Event(d) * Capacity[d] /\ Event(d) * Capacity[d] \in Int
  BY <1>1, <1>2, Multiples
<1>. QED BY <1>1, <1>2, <1>3 DEF Full

LEMMA NamedIsFinite ==
    ASSUME NEW h, NEW i \in Int, NEW j \in Int
    PROVE  /\ IsFiniteSet(Named(h, i, j)) /\ Cardinality(Named(h, i, j)) \in Nat
           /\ IsFiniteSet(New(h, i, j)) /\ Cardinality(New(h, i, j)) \in Nat
<1>1. IsFiniteSet(i..j)
  BY FS_Interval
<1>2. IsFiniteSet(Named(h, i, j))
  <2> DEFINE f == [k \in i..j |-> h[k].what]
  <2>1. f \in Surjection(i..j, Named(h, i, j))
    BY DEF Surjection, Named
  <2>. QED BY <1>1, <2>1, FS_Surjection
<1>3. IsFiniteSet(New(h, i, j))
  BY <1>2, FS_Subset DEF New
<1>. QED BY <1>2, <1>3, FS_CardinalityType

\* One entry more.
LEMMA NamedMore ==
    ASSUME NEW h \in Seq(Entries), NEW e \in Entries
    PROVE  LET g == Append(h, e)
               n == Len(h)
           IN  /\ g \in Seq(Entries) /\ Len(g) = n + 1 /\ n \in Nat
               /\ \A k \in 1..n : g[k] = h[k]
               /\ g[n + 1] = e
               /\ \A i, j \in 0..n : Named(g, i + 1, j) = Named(h, i + 1, j)
               /\ \A i \in 1..(n + 1) : Named(g, i, n + 1) = Named(h, i, n) \cup {e.what}
               /\ \A i, j \in 1..n : New(g, i, j) = New(h, i, j)
<1> DEFINE g == Append(h, e)
           n == Len(h)
<1>1. /\ g \in Seq(Entries) /\ Len(g) = n + 1 /\ n \in Nat
      /\ \A k \in 1..n : g[k] = h[k]
      /\ g[n + 1] = e
  OBVIOUS
<1> HIDE DEF g, n
<1>2. \A i, j \in 0..n : Named(g, i + 1, j) = Named(h, i + 1, j)
  BY <1>1 DEF Named
<1>3. ASSUME NEW i \in 1..(n + 1) PROVE Named(g, i, n + 1) = Named(h, i, n) \cup {e.what}
  <2>1. ASSUME NEW x \in Named(g, i, n + 1) PROVE x \in Named(h, i, n) \cup {e.what}
    <3>1. PICK k \in i..(n + 1) : x = g[k].what
      BY <2>1 DEF Named
    <3>2. CASE k = n + 1
      BY <1>1, <3>1, <3>2
    <3>3. CASE k # n + 1
      BY <1>1, <3>1, <3>3 DEF Named
    <3>. QED BY <3>2, <3>3
  <2>2. ASSUME NEW x \in Named(h, i, n) PROVE x \in Named(g, i, n + 1)
    <3>1. PICK k \in i..n : x = h[k].what
      BY <2>2 DEF Named
    <3>2. k \in 1..n /\ k \in i..(n + 1)
      BY <1>1
    <3>3. x = g[k].what
      BY <1>1, <3>1, <3>2
    <3>. QED BY <3>2, <3>3 DEF Named
  <2>3. e.what \in Named(g, i, n + 1)
    BY <1>1 DEF Named
  <2>. QED BY <2>1, <2>2, <2>3
<1>4. ASSUME NEW i \in 1..n, NEW j \in 1..n PROVE New(g, i, j) = New(h, i, j)
  <2>1. i - 1 \in 0..n /\ 0 \in 0..n /\ j \in 0..n /\ (i - 1) + 1 = i /\ 0 + 1 = 1
    BY <1>1
  <2>2. Named(g, (i - 1) + 1, j) = Named(h, (i - 1) + 1, j)
    BY <1>2, <2>1
  <2>3. Named(g, 0 + 1, i - 1) = Named(h, 0 + 1, i - 1)
    BY <1>2, <2>1
  <2>. QED BY <2>1, <2>2, <2>3 DEF New
<1>. QED BY <1>1, <1>2, <1>3, <1>4 DEF g, n

LEMMA Leaks ==
    ASSUME NEW l \in Int, NEW m \in Int, NEW t \in Int, NEW u \in Int, NEW x \in Int,
           l >= m - 2 * (u - x)
    PROVE  /\ l - 2 * (t - u) >= m - 2 * (t - x)
           /\ l - 2 * (t - u) <= 0 => 0 >= m - 2 * (t - x)
OBVIOUS

\* What has leaked by now changes none of it, for the time being now.
LEMMA DrainedAgrees ==
    ASSUME NEW d \in Buckets, bucket[d] \in Levels, NEW h \in Seq(Entries),
           now \in Nat \ {0}, bucket[d].at <= now, Agrees(d, bucket[d], h)
    PROVE  LET left == Drained(d, now)
           IN  /\ left \in Levels /\ left.level < Full(d)
               /\ CountsOnce(d, left, h)
               /\ \A i \in 1..Len(h) :
                     left.level >= Event(d) * Cardinality(New(h, i, Len(h))) - 2 * (now - h[i].at)
               /\ h = <<>> => left.seen = {} /\ left.level = 0
<1> DEFINE b    == bucket[d]
           left == Drained(d, now)
           lost == 2 * (now - b.at)
           rest == b.level - lost
<1>0. now \in Nat /\ b.at \in Nat /\ b.at <= now /\ b.level \in Nat /\ b \in Levels
  BY DEF Levels
<1>1. lost \in Nat /\ rest \in Int /\ rest <= b.level
  <2> HIDE DEF b
  <2>. QED BY <1>0
<1>2. /\ Full(d) \in Nat \ {0} /\ Event(d) \in Nat \ {0} /\ Capacity[d] \in Nat \ {0}
  BY Parameters
<1>3. /\ EmptyBucket \in Levels /\ EmptyBucket.seen = {} /\ EmptyBucket.level = 0
      /\ IsFiniteSet({}) /\ Cardinality({}) = 0
  BY FS_EmptySet DEF EmptyBucket, Levels
<1>4. ASSUME NEW i \in 1..Len(h)
      PROVE  /\ b.level >= Event(d) * Cardinality(New(h, i, Len(h))) - 2 * (b.at - h[i].at)
             /\ h[i].at \in Nat /\ Event(d) * Cardinality(New(h, i, Len(h))) \in Int
             /\ b.at # 0
  <2>1. h[i] \in Entries /\ h # <<>> /\ Len(h) \in 1..Len(h) /\ i \in Int /\ Len(h) \in Int
    BY <1>4
  <2>2. b.at = h[Len(h)].at /\ h[Len(h)] \in Entries
    BY <2>1 DEF Agrees, InStep
  <2>3. b.level >= Event(d) * Cardinality(New(h, i, Len(h))) - 2 * (b.at - h[i].at)
    BY <1>4 DEF Agrees, CountsAll
  <2>4. Cardinality(New(h, i, Len(h))) \in Nat
    BY <2>1, NamedIsFinite
  <2>5. Event(d) * Cardinality(New(h, i, Len(h))) \in Int
    BY <1>2, <2>4, Multiples
  <2>. QED BY <2>1, <2>2, <2>3, <2>5 DEF Entries
<1>5. CASE b.at = 0
  <2>1. left = b
    BY <1>5 DEF Drained
  <2>2. 1..Len(h) = {}
    BY <1>4, <1>5
  <2>. QED BY <1>0, <2>1, <2>2 DEF Agrees, InStep
<1>6. CASE b.at # 0 /\ rest <= 0
  <2>1. left = EmptyBucket
    BY <1>6 DEF Drained
  <2> HIDE DEF left
  <2>2. CountsOnce(d, left, h)
    <3>1. Event(d) * 0 = 0
      BY <1>2
    <3>2. left.seen = {} /\ left.level = 0
      BY <1>3, <2>1
    <3>3. left.level <= Event(d) * Cardinality(left.seen)
      BY <1>3, <3>1, <3>2
    <3>. QED BY <1>3, <3>2, <3>3 DEF CountsOnce
  <2>3. ASSUME NEW i \in 1..Len(h)
        PROVE  left.level >= Event(d) * Cardinality(New(h, i, Len(h))) - 2 * (now - h[i].at)
    <3> DEFINE m == Event(d) * Cardinality(New(h, i, Len(h)))
    <3>1. m \in Int /\ b.level >= m - 2 * (b.at - h[i].at) /\ h[i].at \in Nat
      BY <1>4
    <3> HIDE DEF m
    <3>2. 0 >= m - 2 * (now - h[i].at)
      <4> DEFINE x == h[i].at
                 u == b.at
                 l == b.level
      <4>1. l \in Int /\ u \in Int /\ x \in Int /\ now \in Int /\ m \in Int
        BY <1>0, <3>1
      <4>2. l >= m - 2 * (u - x) /\ l - 2 * (now - u) <= 0
        BY <1>6, <3>1
      <4> HIDE DEF x, u, l
      <4>3. 0 >= m - 2 * (now - x)
        BY <4>1, <4>2, Leaks
      <4>. QED BY <4>3 DEF x
    <3>. QED BY <1>3, <2>1, <3>2 DEF m
  <2>. QED BY <1>2, <1>3, <2>1, <2>2, <2>3 DEF left
<1>7. CASE b.at # 0 /\ ~(rest <= 0)
  <2>1. left = [b EXCEPT !.level = rest]
    BY <1>7 DEF Drained
  <2> HIDE DEF left
  <2>2. /\ left \in Levels /\ left.seen = b.seen /\ left.level = rest
        /\ left.level \in Nat /\ left.level <= b.level
    <3> HIDE DEF rest, lost, b
    <3>1. rest \in Nat
      BY <1>1, <1>7
    <3>. QED BY <1>0, <1>1, <2>1, <3>1 DEF Levels
  <2>3. CountsOnce(d, left, h)
    <3>1. IsFiniteSet(b.seen)
      BY DEF Agrees, CountsOnce
    <3>2. Cardinality(b.seen) \in Nat
      BY <3>1, FS_CardinalityType
    <3>3. Event(d) * Cardinality(b.seen) \in Int
      BY <1>2, <3>2, Multiples
    <3>. QED BY <1>0, <2>2, <3>3 DEF Agrees, CountsOnce
  <2>4. ASSUME NEW i \in 1..Len(h)
        PROVE  left.level >= Event(d) * Cardinality(New(h, i, Len(h))) - 2 * (now - h[i].at)
    <3> DEFINE m == Event(d) * Cardinality(New(h, i, Len(h)))
    <3>1. m \in Int /\ b.level >= m - 2 * (b.at - h[i].at) /\ h[i].at \in Nat
      BY <1>4
    <3> HIDE DEF m
    <3>2. left.level >= m - 2 * (now - h[i].at)
      <4>1. rest >= m - 2 * (now - h[i].at)
        <5> DEFINE x == h[i].at
                   u == b.at
                   l == b.level
        <5>1. l \in Int /\ u \in Int /\ x \in Int /\ now \in Int /\ m \in Int
          BY <1>0, <3>1
        <5>2. l >= m - 2 * (u - x) /\ rest = l - 2 * (now - u)
          BY <3>1
        <5> HIDE DEF x, u, l, rest
        <5>3. l - 2 * (now - u) >= m - 2 * (now - x)
          BY <5>1, <5>2, Leaks
        <5>. QED BY <5>2, <5>3 DEF x
      <4>. QED BY <2>2, <4>1
    <3>. QED BY <3>2 DEF m
  <2>5. left.level < Full(d) /\ h # <<>>
    <3>1. b.level < Full(d)
      BY DEF Agrees, InStep
    <3>2. h = <<>> => b.level = 0
      BY DEF Agrees, InStep
    <3>. QED BY <1>0, <1>2, <1>7, <2>2, <3>1, <3>2
  <2>. QED BY <2>2, <2>3, <2>4, <2>5 DEF left
<1>. QED BY <1>5, <1>6, <1>7

\* Noted in cases.
LEMMA NotedCases ==
    ASSUME NEW d \in Buckets, NEW item
    PROVE  LET left  == Drained(d, now)
               noted == Noted(d, item, now)
           IN  /\ item \in left.seen =>
                     ~noted.trips /\ noted.bucket = [left EXCEPT !.at = now]
               /\ item \notin left.seen /\ left.level + Event(d) >= Full(d) =>
                     noted.trips /\ noted.bucket = [EmptyBucket EXCEPT !.at = now]
               /\ item \notin left.seen /\ ~(left.level + Event(d) >= Full(d)) =>
                     /\ ~noted.trips
                     /\ noted.bucket = [seen  |-> Remembered(left.seen, item),
                                        level |-> left.level + Event(d), at |-> now]
<1> DEFINE left  == Drained(d, now)
           noted == Noted(d, item, now)
<1>1. CASE item \in left.seen
  BY <1>1 DEF Noted, Full
<1>2. CASE item \notin left.seen /\ left.level + Event(d) >= Full(d)
  BY <1>2 DEF Noted, Full
<1>3. CASE item \notin left.seen /\ ~(left.level + Event(d) >= Full(d))
  BY <1>3 DEF Noted, Full
<1>. QED BY <1>1, <1>2, <1>3

\* An item is new for the whole of what was told, or the counts stay.
LEMMA NewMore ==
    ASSUME NEW h \in Seq(Entries), NEW e \in Entries, NEW i \in 1..(Len(h) + 1)
    PROVE  LET n == Len(h)
               c == Cardinality(New(h, i, n))
           IN  /\ c \in Nat /\ (i = n + 1 => c = 0)
               /\ Cardinality(New(Append(h, e), i, n + 1)) =
                     IF e.what \in Named(h, 1, n) THEN c ELSE c + 1
<1> DEFINE n == Len(h)
           g == Append(h, e)
           before == Named(h, 1, i - 1)
<1>1. n \in Nat /\ i \in Int /\ n \in Int
  OBVIOUS
<1>2. Named(g, i, n + 1) = Named(h, i, n) \cup {e.what}
  BY NamedMore
<1>3. Named(g, 1, i - 1) = before
  <2>1. 0 \in 0..n /\ i - 1 \in 0..n /\ 0 + 1 = 1
    BY <1>1
  <2>2. Named(g, 0 + 1, i - 1) = Named(h, 0 + 1, i - 1)
    BY <2>1, NamedMore
  <2>. QED BY <2>1, <2>2
<1>4. Named(h, 1, n) = before \cup Named(h, i, n)
  <2>1. 1..n = (1..(i - 1)) \cup (i..n)
    BY <1>1
  <2>. QED BY <2>1 DEF Named
<1>5. IsFiniteSet(New(h, i, n)) /\ Cardinality(New(h, i, n)) \in Nat
  BY <1>1, NamedIsFinite
<1>6. i = n + 1 => Cardinality(New(h, i, n)) = 0
  <2>1. ASSUME i = n + 1 PROVE New(h, i, n) = {}
    <3>1. i..n = {}
      BY <1>1, <2>1
    <3>. QED BY <3>1 DEF New, Named
  <2>. QED BY <2>1, FS_EmptySet
<1>7. New(h, i, n) = Named(h, i, n) \ before
  BY DEF New
<1>8. New(g, i, n + 1) = (Named(h, i, n) \cup {e.what}) \ before
  BY <1>2, <1>3 DEF New
<1> HIDE DEF n, g, before
<1>9. CASE e.what \in Named(h, 1, n)
  <2>1. New(g, i, n + 1) = New(h, i, n)
    BY <1>4, <1>7, <1>8, <1>9
  <2>. QED BY <1>5, <1>6, <1>9, <2>1 DEF n, g
<1>10. CASE e.what \notin Named(h, 1, n)
  <2>1. New(g, i, n + 1) = New(h, i, n) \cup {e.what} /\ e.what \notin New(h, i, n)
    BY <1>4, <1>7, <1>8, <1>10
  <2>2. Cardinality(New(g, i, n + 1)) = Cardinality(New(h, i, n)) + 1
    BY <1>5, <2>1, FS_AddElement
  <2>. QED BY <1>5, <1>6, <1>10, <2>2 DEF n, g
<1>. QED BY <1>9, <1>10

\* noted.bucket of a call that is no hit: the level goes up by what is new in all.
LEMMA StillCountsAll ==
    ASSUME NEW d \in Buckets, NEW h \in Seq(Entries), NEW t \in Nat \ {0}, NEW item \in Words,
           NEW level \in Nat, NEW b \in Levels, b.at = t, b.level >= level,
           item \notin Named(h, 1, Len(h)) => b.level >= level + Event(d),
           \A i \in 1..Len(h) :
               level >= Event(d) * Cardinality(New(h, i, Len(h))) - 2 * (t - h[i].at)
    PROVE  CountsAll(d, b, Append(h, [what |-> item, at |-> t]))
<1> DEFINE e == [what |-> item, at |-> t]
           g == Append(h, e)
           n == Len(h)
<1>1. e \in Entries /\ e.what = item /\ e.at = t
  BY DEF Entries
<1> HIDE DEF e
<1>2. /\ g \in Seq(Entries) /\ Len(g) = n + 1 /\ n \in Nat /\ \A k \in 1..n : g[k] = h[k]
      /\ g[n + 1] = e
  BY <1>1, NamedMore
<1>3. Event(d) \in Nat \ {0}
  BY Parameters
<1>4. ASSUME NEW i \in 1..(n + 1)
      PROVE  b.level >= Event(d) * Cardinality(New(g, i, n + 1)) - 2 * (b.at - g[i].at)
  <2> DEFINE c == Cardinality(New(h, i, n))
             k == Cardinality(New(g, i, n + 1))
             x == g[i].at
  <2>1. c \in Nat /\ (i = n + 1 => c = 0)
        /\ k = IF item \in Named(h, 1, n) THEN c ELSE c + 1
    BY <1>1, NewMore
  <2>2. x \in Nat
    <3>1. g[i] \in Entries
      BY <1>2
    <3>. QED BY <3>1 DEF Entries
  <2>3. level >= Event(d) * c - 2 * (t - x)
    <3>1. CASE i = n + 1
      <4>1. x = t /\ c = 0
        BY <1>1, <1>2, <2>1, <3>1
      <4> HIDE DEF x, c
      <4>2. Event(d) * c = 0 /\ 2 * (t - x) = 0
        BY <1>3, <2>2, <4>1
      <4>. QED BY <4>2
    <3>2. CASE i # n + 1
      <4>1. i \in 1..n /\ g[i] = h[i]
        BY <1>2, <3>2
      <4>. QED BY <4>1
    <3>. QED BY <3>1, <3>2
  <2> DEFINE l == b.level
  <2>4. l \in Nat /\ l >= level /\ (item \notin Named(h, 1, n) => l >= level + Event(d))
    BY DEF Levels
  <2> HIDE DEF c, k, x, l
  <2>5. Event(d) * c \in Int /\ Event(d) * (c + 1) = Event(d) * c + Event(d)
    BY <1>3, <2>1
  <2>6. l >= Event(d) * k - 2 * (t - x)
    <3>1. CASE item \in Named(h, 1, n)
      <4>1. k = c
        BY <2>1, <3>1
      <4>. QED BY <2>2, <2>3, <2>4, <2>5, <4>1
    <3>2. CASE item \notin Named(h, 1, n)
      <4>1. k = c + 1 /\ l >= level + Event(d)
        BY <2>1, <2>4, <3>2
      <4>2. Event(d) * k = Event(d) * c + Event(d)
        BY <2>5, <4>1
      <4> DEFINE m == Event(d) * c
                 y == 2 * (t - x)
                 w == Event(d) * k
      <4>3. m \in Int /\ y \in Int /\ Event(d) \in Int /\ level >= m - y
        BY <1>3, <2>2, <2>3, <2>5
      <4>4. l \in Int
        BY <2>4
      <4>5. w = m + Event(d)
        BY <4>2
      <4> HIDE DEF m, y, w
      <4>6. l >= w - y
        BY <4>1, <4>3, <4>4, <4>5
      <4>. QED BY <4>6 DEF w, y
    <3>. QED BY <3>1, <3>2
  <2>. QED BY <2>6 DEF l, k, x
<1>. QED BY <1>2, <1>4 DEF CountsAll, e

\* As long as the bucket is not full no quick scan has come to the capacity.
LEMMA StillFew ==
    ASSUME NEW d \in Buckets, NEW h \in Seq(Entries), NEW e \in Entries, NEW b \in Levels,
           QuickAreFew(d, h), CountsAll(d, b, Append(h, e)), b.level < Full(d), b.at = e.at
    PROVE  QuickAreFew(d, Append(h, e))
<1> DEFINE g == Append(h, e)
           n == Len(h)
<1>1. /\ g \in Seq(Entries) /\ Len(g) = n + 1 /\ n \in Nat /\ \A k \in 1..n : g[k] = h[k]
      /\ g[n + 1] = e /\ \A i, j \in 1..n : New(g, i, j) = New(h, i, j)
  BY NamedMore
<1>2. /\ Leak[d] \in Nat \ {0} /\ Capacity[d] \in Nat \ {0} /\ Event(d) \in Nat \ {0}
      /\ HalfEvent(d) = Leak[d]
  BY Parameters
<1>3. ASSUME NEW i \in 1..(n + 1), NEW j \in 1..(n + 1), i <= j,
             2 * (g[j].at - g[i].at) <= Leak[d]
      PROVE  Cardinality(New(g, i, j)) < Capacity[d]
  <2>1. CASE j = n + 1
    <3> DEFINE c == Cardinality(New(g, i, n + 1))
               l == b.level
               x == g[i].at
               t == e.at
    <3>1. c \in Nat
      BY <1>1, NamedIsFinite
    <3>2. g[i] \in Entries
      BY <1>1
    <3>3. l \in Nat /\ x \in Nat /\ t \in Nat
      BY <3>2 DEF Entries, Levels
    <3>4. l >= Event(d) * c - 2 * (t - x)
      BY <1>1 DEF CountsAll
    <3>5. l < Event(d) * Capacity[d] - Leak[d] /\ 2 * (t - x) <= Leak[d]
      BY <1>1, <1>2, <1>3, <2>1 DEF Full
    <3> DEFINE m == Event(d) * c
               f == Event(d) * Capacity[d]
    <3> HIDE DEF c, l, x, t
    <3>6. m \in Int /\ f \in Int /\ (c < Capacity[d] <=> m < f)
      BY <1>2, <3>1, Multiples
    <3>7. m < f
      <4> HIDE DEF m, f
      <4>1. l >= m - 2 * (t - x) /\ l < f - Leak[d]
        BY <3>4, <3>5 DEF m, f
      <4>. QED BY <1>2, <3>3, <3>5, <3>6, <4>1
    <3>. QED BY <2>1, <3>6, <3>7 DEF c
  <2>2. CASE j # n + 1
    <3>1. i \in 1..n /\ j \in 1..n
      BY <1>1, <1>3, <2>2
    <3>2. New(g, i, j) = New(h, i, j) /\ g[i] = h[i] /\ g[j] = h[j]
      BY <1>1, <3>1
    <3>. QED BY <1>3, <3>1, <3>2 DEF QuickAreFew
  <2>. QED BY <2>1, <2>2
<1>. QED BY <1>1, <1>3 DEF QuickAreFew

\* One item more in the bucket for one event more in the level.
LEMMA StillCountsOnce ==
    ASSUME NEW d \in Buckets, NEW h \in Seq(Entries), NEW e \in Entries, NEW left \in Levels,
           CountsOnce(d, left, h), e.what \notin left.seen
    PROVE  LET seen == Remembered(left.seen, e.what)
               g == Append(h, e)
           IN  /\ seen \subseteq Named(g, 1, Len(g)) /\ IsFiniteSet(seen) /\ seen \subseteq Words
               /\ \/ Cardinality(Named(g, 1, Len(g))) >= Capacity[d]
                  \/ left.level + Event(d) <= Event(d) * Cardinality(seen)
               /\ left.level + Event(d) >= Full(d) =>
                     Cardinality(Named(g, 1, Len(g))) >= Capacity[d]
<1> DEFINE item == e.what
           seen == Remembered(left.seen, item)
           g == Append(h, e)
           n == Len(h)
           all == Named(g, 1, Len(g))
           s == Cardinality(left.seen)
           more == left.seen \cup {item}
<1>1. n \in Nat /\ Len(g) = n + 1 /\ all = Named(h, 1, n) \cup {item}
  <2>1. n \in Nat /\ 1 \in 1..(n + 1)
    OBVIOUS
  <2>. QED BY <2>1, NamedMore
<1>2. IsFiniteSet(all) /\ Cardinality(all) \in Nat
  BY <1>1, NamedIsFinite
<1>3. IsFiniteSet(left.seen) /\ left.seen \subseteq Named(h, 1, n) /\ left.seen \subseteq all
  BY <1>1 DEF CountsOnce
<1>4. s \in Nat /\ IsFiniteSet(more) /\ Cardinality(more) = s + 1 /\ more \subseteq all
  BY <1>1, <1>3, FS_CardinalityType, FS_AddElement
<1>5. s + 1 <= Cardinality(all) /\ s <= Cardinality(all)
  <2>1. Cardinality(more) <= Cardinality(all)
    BY <1>2, <1>4, FS_Subset
  <2>. QED BY <1>2, <1>4, <2>1
<1>6. item \in Words /\ left.seen \subseteq Words /\ left.level \in Nat
  BY DEF Entries, Levels
<1>7. /\ Leak[d] \in Nat \ {0} /\ Capacity[d] \in Nat \ {0} /\ Capacity[d] <= MaxDistinct
      /\ Event(d) \in Nat \ {0} /\ Event(d) = 2 * Leak[d] /\ HalfEvent(d) = Leak[d]
      /\ MaxDistinct \in Nat
  BY Parameters
<1>8. Cardinality(all) >= Capacity[d] \/ left.level <= Event(d) * s
  <2>1. Cardinality(Named(h, 1, n)) >= Capacity[d] => Cardinality(all) >= Capacity[d]
    <3>1. Named(h, 1, n) \subseteq all
      BY <1>1
    <3>2. Cardinality(Named(h, 1, n)) <= Cardinality(all)
      BY <1>2, <3>1, FS_Subset
    <3>3. Cardinality(Named(h, 1, n)) \in Nat
      BY <1>1, NamedIsFinite
    <3>. QED BY <1>2, <1>7, <3>2, <3>3
  <2>. QED BY <2>1 DEF CountsOnce
<1>9. Event(d) * (s + 1) = Event(d) * s + Event(d) /\ Event(d) * s \in Int
  <2> HIDE DEF s
  <2>1. s \in Int /\ Event(d) \in Int
    BY <1>4, <1>7
  <2>2. Event(d) * (s + 1) = Event(d) * s + Event(d) * 1 /\ Event(d) * s \in Int
    BY <2>1, Spread
  <2>. QED BY <2>1, <2>2
<1>10. ASSUME left.level <= Event(d) * s, left.level + Event(d) >= Full(d)
       PROVE  Cardinality(all) >= Capacity[d]
  <2>1. CASE s + 1 < Capacity[d]
    <3> DEFINE m == Event(d) * (s + 1)
               f == Event(d) * Capacity[d]
               l == left.level
    <3>1. m \in Int /\ f \in Int /\ m + Event(d) <= f
      <4>1. s + 1 \in Int /\ Capacity[d] \in Int
        BY <1>4, <1>7
      <4>. QED BY <1>7, <2>1, <4>1, Multiples
    <3>2. l + Event(d) <= m /\ l + Event(d) >= f - Leak[d]
      <4> DEFINE w == Event(d) * s
      <4>1. w \in Int /\ l <= w /\ m = w + Event(d) /\ l \in Nat
        BY <1>6, <1>9, <1>10
      <4>2. l + Event(d) >= f - Leak[d]
        BY <1>7, <1>10 DEF Full
      <4> HIDE DEF w, m, l
      <4>3. l + Event(d) <= m
        BY <1>7, <4>1
      <4>. QED BY <4>2, <4>3
    <3>3. l \in Nat
      BY <1>6
    <3> DEFINE v == Leak[d]
    <3>4. v \in Nat \ {0} /\ m + 2 * v <= f /\ l + 2 * v <= m /\ l + 2 * v >= f - v
      BY <1>7, <3>1, <3>2
    <3> HIDE DEF m, f, l, v
    <3>5. FALSE
      BY <3>1, <3>3, <3>4
    <3>. QED BY <3>5
  <2>2. CASE ~(s + 1 < Capacity[d])
    BY <1>2, <1>4, <1>5, <1>7, <2>2
  <2>. QED BY <2>1, <2>2
<1>11. CASE s >= MaxDistinct
  <2>1. seen = {item}
    BY <1>11 DEF Remembered
  <2>2. IsFiniteSet(seen) /\ seen \subseteq all /\ seen \subseteq Words
    <3>1. IsFiniteSet({item})
      BY FS_Singleton
    <3>. QED BY <1>1, <1>6, <2>1, <3>1
  <2>3. Cardinality(all) >= Capacity[d]
    BY <1>2, <1>4, <1>5, <1>7, <1>11
  <2>. QED BY <2>2, <2>3
<1>12. CASE ~(s >= MaxDistinct)
  <2>1. seen = more
    BY <1>12 DEF Remembered
  <2>2. IsFiniteSet(seen) /\ seen \subseteq all /\ seen \subseteq Words
    BY <1>4, <1>6, <2>1
  <2>3. Cardinality(all) >= Capacity[d] \/ left.level + Event(d) <= Event(d) * Cardinality(seen)
    <3>1. CASE left.level <= Event(d) * s
      <4> DEFINE w == Event(d) * s
                 l == left.level
                 m == Event(d) * Cardinality(seen)
      <4>1. w \in Int /\ l \in Int /\ l <= w /\ m = w + Event(d)
        BY <1>4, <1>6, <1>9, <2>1, <3>1
      <4> HIDE DEF w, l, m
      <4>2. l + Event(d) <= m
        BY <1>7, <4>1
      <4>. QED BY <4>2 DEF l, m
    <3>. QED BY <1>8, <3>1
  <2>. QED BY <1>8, <1>10, <2>2, <2>3
<1>. QED BY <1>8, <1>10, <1>11, <1>12

\* What a call leaves in the bucket: after a hit, enough distinct items were told;
\* otherwise the bucket agrees with what was told, and quick items are too few.
LEMMA NotedAgrees ==
    ASSUME NEW d \in Buckets, bucket[d] \in Levels, NEW h \in Seq(Entries),
           now \in Nat \ {0}, bucket[d].at <= now, Agrees(d, bucket[d], h), QuickAreFew(d, h),
           NEW item \in Words
    PROVE  LET noted == Noted(d, item, now)
               g == Append(h, [what |-> item, at |-> now])
           IN  /\ noted.bucket \in Levels /\ noted.bucket.at = now
               /\ noted.trips =>
                     /\ Agrees(d, noted.bucket, <<>>)
                     /\ Cardinality(Named(g, 1, Len(g))) >= Capacity[d]
               /\ ~noted.trips => Agrees(d, noted.bucket, g) /\ QuickAreFew(d, g)
<1> DEFINE e == [what |-> item, at |-> now]
           g == Append(h, e)
           n == Len(h)
           left == Drained(d, now)
           noted == Noted(d, item, now)
           b == noted.bucket
<1>1. e \in Entries /\ e.what = item /\ e.at = now
  BY DEF Entries
<1>2. /\ left \in Levels /\ left.level < Full(d) /\ CountsOnce(d, left, h)
      /\ \A i \in 1..Len(h) :
            left.level >= Event(d) * Cardinality(New(h, i, Len(h))) - 2 * (now - h[i].at)
  BY DrainedAgrees
<1>3. /\ Len(g) = n + 1 /\ n \in Nat /\ g # <<>> /\ g[Len(g)] = e
      /\ Named(g, 1, Len(g)) = Named(h, 1, n) \cup {item}
  <2>1. n \in Nat /\ 1 \in 1..(n + 1)
    OBVIOUS
  <2>2. Len(g) = n + 1 /\ g[n + 1] = e /\ Named(g, 1, n + 1) = Named(h, 1, n) \cup {item}
    BY <1>1, <2>1, NamedMore
  <2>3. g # <<>>
    BY <1>1
  <2>. QED BY <2>1, <2>2, <2>3
<1>4. Full(d) \in Nat \ {0} /\ Event(d) \in Nat \ {0} /\ Capacity[d] \in Nat
  BY Parameters
<1> HIDE DEF e, left
<1>5. CASE item \in left.seen
  <2>1. ~noted.trips /\ b = [left EXCEPT !.at = now]
    BY <1>5, NotedCases DEF left
  <2> HIDE DEF b, noted
  <2>2. /\ b \in Levels /\ b.at = now /\ b.level = left.level /\ b.seen = left.seen
        /\ left.level \in Nat
    BY <1>2, <2>1 DEF Levels
  <2>3. item \in Named(h, 1, n)
    BY <1>2, <1>5 DEF CountsOnce
  <2>4. CountsAll(d, b, g)
    <3>1. now \in Nat \ {0} /\ b.level >= left.level
      BY <2>2
    <3>. QED BY <1>2, <2>2, <2>3, <3>1, StillCountsAll DEF e
  <2>5. CountsOnce(d, b, g)
    <3>1. Named(g, 1, Len(g)) = Named(h, 1, n)
      BY <1>3, <2>3
    <3>. QED BY <1>2, <2>2, <3>1 DEF CountsOnce
  <2>6. InStep(d, b, g)
    BY <1>1, <1>2, <1>3, <2>2 DEF InStep
  <2>7. QuickAreFew(d, g)
    BY <1>1, <1>2, <2>2, <2>4, StillFew
  <2>. QED BY <2>1, <2>2, <2>4, <2>5, <2>6, <2>7 DEF Agrees, b, noted, e
<1>6. CASE item \notin left.seen /\ left.level + Event(d) >= Full(d)
  <2>1. noted.trips /\ b = [EmptyBucket EXCEPT !.at = now]
    BY <1>6, NotedCases DEF left
  <2> HIDE DEF b, noted
  <2>2. b \in Levels /\ b.at = now /\ b.level = 0 /\ b.seen = {}
    BY <2>1 DEF Levels, EmptyBucket
  <2>3. Cardinality(Named(g, 1, Len(g))) >= Capacity[d]
    BY <1>1, <1>2, <1>6, StillCountsOnce
  <2>4. Agrees(d, b, <<>>)
    <3>1. Cardinality({}) = 0 /\ IsFiniteSet({}) /\ Event(d) * 0 = 0
      BY <1>4, FS_EmptySet
    <3>2. CountsOnce(d, b, <<>>)
      <4>1. b.level <= Event(d) * Cardinality(b.seen)
        BY <2>2, <3>1
      <4>. QED BY <2>2, <3>1, <4>1 DEF CountsOnce
    <3>. QED BY <1>4, <2>2, <3>2 DEF Agrees, CountsAll, InStep
  <2>. QED BY <2>1, <2>2, <2>3, <2>4 DEF b, noted, e
<1>7. CASE item \notin left.seen /\ ~(left.level + Event(d) >= Full(d))
  <2>1. /\ ~noted.trips
        /\ b = [seen |-> Remembered(left.seen, item), level |-> left.level + Event(d), at |-> now]
    BY <1>7, NotedCases DEF left
  <2> HIDE DEF b, noted
  <2>2. left.level \in Nat
    BY <1>2 DEF Levels
  <2>3. /\ Remembered(left.seen, item) \subseteq Named(g, 1, Len(g))
        /\ IsFiniteSet(Remembered(left.seen, item)) /\ Remembered(left.seen, item) \subseteq Words
        /\ \/ Cardinality(Named(g, 1, Len(g))) >= Capacity[d]
           \/ left.level + Event(d) <= Event(d) * Cardinality(Remembered(left.seen, item))
    BY <1>1, <1>2, <1>7, StillCountsOnce
  <2>4. /\ b \in Levels /\ b.at = now /\ b.level = left.level + Event(d)
        /\ b.seen = Remembered(left.seen, item)
    BY <1>4, <2>1, <2>2, <2>3 DEF Levels
  <2>5. CountsOnce(d, b, g)
    BY <2>3, <2>4 DEF CountsOnce
  <2>6. b.level < Full(d) /\ b.level >= left.level
    BY <1>4, <1>7, <2>2, <2>4
  <2>7. CountsAll(d, b, g)
    <3>1. now \in Nat \ {0} /\ b.level >= left.level + Event(d)
      BY <1>4, <2>2, <2>4
    <3>. QED BY <1>2, <2>2, <2>4, <2>6, <3>1, StillCountsAll DEF e
  <2>8. InStep(d, b, g)
    BY <1>1, <1>3, <2>4, <2>6 DEF InStep
  <2>9. QuickAreFew(d, g)
    BY <1>1, <2>4, <2>6, <2>7, StillFew
  <2>. QED BY <2>1, <2>4, <2>5, <2>7, <2>8, <2>9 DEF Agrees, b, noted, e
<1>. QED BY <1>5, <1>6, <1>7

-----------------------------------------------------------------------------
(* The steps, as each detector sees them. *)

Charges == [what : BOOLEAN, at : Nat \ {0}]

Typed ==
    /\ now \in Nat \ {0} /\ lastSeen \in Nat /\ lastSeen <= now
    /\ bucket \in [Buckets -> Levels]
    /\ failures \in Seq(Nat)
    /\ tokens \in [left : Nat, at : Nat]
    /\ \A d \in Detecting \ {"rateAbuse"} : log[d] \in Seq(Entries)
    /\ log["rateAbuse"] \in Seq(Charges)

\* What d was told since it last tripped, for those that start over then.
Heard(d) == IF d \in tripped THEN <<>> ELSE log[d]

Untouched(d) == log'[d] = log[d] /\ (d \in tripped' <=> d \in tripped)
Told1(d, what) == log'[d] = Append(Heard(d), [what |-> what, at |-> now])
Forgotten(d)   == log'[d] = <<>> /\ d \notin tripped'

BucketRests(d) == bucket'[d] = bucket[d] /\ Untouched(d)
BucketNotes(d, item) ==
    /\ bucket'[d] = Noted(d, item, now).bucket
    /\ Told1(d, item)
    /\ d \in tripped' <=> Noted(d, item, now).trips
BucketGoes(d) == bucket'[d] = EmptyBucket /\ Forgotten(d)

AuthRests == failures' = failures /\ Untouched("bruteForce")
AuthNotes ==
    /\ Told1("bruteForce", "denied")
    /\ \/ /\ Len(Failed(now)) >= Capacity["bruteForce"]
          /\ failures' = <<>> /\ "bruteForce" \in tripped'
       \/ /\ ~(Len(Failed(now)) >= Capacity["bruteForce"])
          /\ failures' = Failed(now) /\ "bruteForce" \notin tripped'
AuthGoes == failures' = <<>> /\ Forgotten("bruteForce")

Left == Refilled(now) - Token
RateRests == tokens' = tokens /\ log'["rateAbuse"] = log["rateAbuse"]
RatePasses ==
    /\ Left >= 0 /\ tokens' = [left |-> Left, at |-> now]
    /\ log'["rateAbuse"] = Append(log["rateAbuse"], [what |-> TRUE, at |-> now])
RateRefuses ==
    /\ Left < 0 /\ tokens' = [left |-> 0, at |-> now]
    /\ log'["rateAbuse"] = Append(log["rateAbuse"], [what |-> FALSE, at |-> now])
RateGoes == tokens' = NoTokens /\ log'["rateAbuse"] = <<>>

LEMMA LoggedIs ==
    ASSUME NEW d, d # "rateAbuse", NEW what
    PROVE  Logged(d, what) = Append(Heard(d), [what |-> what, at |-> now])
BY DEF Logged, Heard

LEMMA RequestEffect ==
    ASSUME Typed, NEW agent, Request(agent)
    PROVE  /\ now' = now /\ lastSeen' = now
           /\ BucketRests("badPaths")
           /\ BucketRests("uaRotation") \/ BucketNotes("uaRotation", agent)
           /\ AuthRests
           /\ RateRests \/ RatePasses \/ RateRefuses
<1> DEFINE rotates == "uaRotation" \in enabled
           noted   == Noted("uaRotation", agent, now)
           rotated == rotates /\ noted.trips
           rates   == "rateAbuse" \in enabled /\ ~rotated
           left    == Refilled(now) - Token
<1>1. /\ now' = now /\ lastSeen' = now /\ failures' = failures
      /\ bucket' = IF rotates THEN [bucket EXCEPT !["uaRotation"] = noted.bucket] ELSE bucket
      /\ tokens' = IF rates THEN [left |-> IF left < 0 THEN 0 ELSE left, at |-> now] ELSE tokens
  BY DEF Request, Seen
<1>2. log' = [d \in Detecting |->
                 CASE d = "uaRotation" /\ rotates -> Logged(d, agent)
                   [] d = "rateAbuse" /\ rates    -> Logged(d, left >= 0)
                   [] OTHER                       -> log[d]]
  BY DEF Request
<1>3. tripped' = (tripped \ ((IF rotates THEN {"uaRotation"} ELSE {})
                              \cup (IF rates THEN {"rateAbuse"} ELSE {})))
                  \cup (IF rotated THEN {"uaRotation"} ELSE {})
                  \cup (IF rates /\ left < 0 THEN {"rateAbuse"} ELSE {})
  BY DEF Request
<1>4. {"badPaths", "uaRotation", "bruteForce", "rateAbuse"} \subseteq Detecting
  BY DEF Detecting, Buckets
<1> HIDE DEF rotates, noted, rates, left
<1>5. BucketRests("badPaths")
  BY <1>1, <1>2, <1>3, <1>4 DEF BucketRests, Untouched, Typed, Buckets
<1>6. AuthRests
  BY <1>1, <1>2, <1>3, <1>4 DEF AuthRests, Untouched
<1>7. BucketRests("uaRotation") \/ BucketNotes("uaRotation", agent)
  <2>1. CASE rotates
    <3>1. bucket'["uaRotation"] = noted.bucket
      BY <1>1, <2>1 DEF Typed, Buckets
    <3>2. log'["uaRotation"] = Logged("uaRotation", agent)
      BY <1>2, <1>4, <2>1
    <3>3. "uaRotation" \in tripped' <=> rotated
      BY <1>3, <2>1
    <3>. QED BY <2>1, <3>1, <3>2, <3>3, LoggedIs, Zenon DEF BucketNotes, Told1, noted
  <2>2. CASE ~rotates
    <3>1. bucket' = bucket /\ log'["uaRotation"] = log["uaRotation"]
      BY <1>1, <1>2, <1>4, <2>2
    <3>2. "uaRotation" \in tripped' <=> "uaRotation" \in tripped
      BY <1>3, <2>2
    <3>. QED BY <3>1, <3>2 DEF BucketRests, Untouched
  <2>. QED BY <2>1, <2>2
<1>8. RateRests \/ RatePasses \/ RateRefuses
  <2>1. CASE ~rates
    BY <1>1, <1>2, <1>4, <2>1 DEF RateRests
  <2>2. CASE rates
    <3>1. log'["rateAbuse"] = Logged("rateAbuse", left >= 0)
      BY <1>2, <1>4, <2>2
    <3>2. log'["rateAbuse"] = Append(log["rateAbuse"], [what |-> left >= 0, at |-> now])
      BY <3>1 DEF Logged
    <3>3. left \in Int
      <4>1. now \in Nat /\ tokens.left \in Nat /\ tokens.at \in Nat
        BY DEF Typed
      <4>2. Refill * (now - tokens.at) \in Int /\ Burst * Token \in Int /\ Token \in Int
        BY <4>1, DetectorsAssumption
      <4>. QED BY <4>1, <4>2 DEF Refilled, left
    <3>4. CASE left >= 0
      <4>1. (left >= 0) = TRUE /\ ~(left < 0)
        BY <3>3, <3>4
      <4>2. tokens' = [left |-> left, at |-> now]
        BY <1>1, <2>2, <4>1
      <4>3. log'["rateAbuse"] = Append(log["rateAbuse"], [what |-> TRUE, at |-> now])
        BY <3>2, <4>1, Zenon
      <4>. QED BY <3>4, <4>2, <4>3 DEF RatePasses, Left, left
    <3>5. CASE ~(left >= 0)
      <4>1. (left >= 0) = FALSE /\ left < 0
        BY <3>3, <3>5
      <4>2. tokens' = [left |-> 0, at |-> now]
        BY <1>1, <2>2, <4>1
      <4>3. log'["rateAbuse"] = Append(log["rateAbuse"], [what |-> FALSE, at |-> now])
        BY <3>2, <4>1, Zenon
      <4>. QED BY <4>1, <4>2, <4>3 DEF RateRefuses, Left, left
    <3>. QED BY <3>4, <3>5
  <2>. QED BY <2>1, <2>2
<1>. QED BY <1>1, <1>5, <1>6, <1>7, <1>8

LEMMA ResponseEffect ==
    ASSUME Typed, NEW path, NEW writes, Response(path, writes)
    PROVE  /\ now' = now /\ lastSeen' = now
           /\ BucketRests("uaRotation")
           /\ BucketRests("badPaths") \/ BucketNotes("badPaths", path)
           /\ AuthRests \/ AuthNotes
           /\ RateRests
<1> DEFINE status == Observed(writes)
           fails  == status \in {"denied", "denied and missing"} /\ "bruteForce" \in enabled
           full   == fails /\ Len(Failed(now)) >= Capacity["bruteForce"]
           probes == /\ status \in {"missing", "denied and missing"} /\ "badPaths" \in enabled
                     /\ ~full
           noted  == Noted("badPaths", path, now)
<1>1. /\ now' = now /\ lastSeen' = now /\ tokens' = tokens
      /\ failures' = IF full THEN <<>> ELSE IF fails THEN Failed(now) ELSE failures
      /\ bucket' = IF probes THEN [bucket EXCEPT !["badPaths"] = noted.bucket] ELSE bucket
  BY DEF Response, Seen
<1>2. log' = [d \in Detecting |->
                 CASE d = "bruteForce" /\ fails -> Logged(d, "denied")
                   [] d = "badPaths" /\ probes  -> Logged(d, path)
                   [] OTHER                     -> log[d]]
  BY DEF Response
<1>3. tripped' = (tripped \ ((IF fails THEN {"bruteForce"} ELSE {})
                              \cup (IF probes THEN {"badPaths"} ELSE {})))
                  \cup (IF full THEN {"bruteForce"} ELSE {})
                  \cup (IF probes /\ noted.trips THEN {"badPaths"} ELSE {})
  BY DEF Response
<1>4. {"badPaths", "uaRotation", "bruteForce", "rateAbuse"} \subseteq Detecting
  BY DEF Detecting, Buckets
<1>5. full <=> fails /\ Len(Failed(now)) >= Capacity["bruteForce"]
  OBVIOUS
<1> HIDE DEF fails, full, noted, probes
<1>6. BucketRests("uaRotation")
  BY <1>1, <1>2, <1>3, <1>4 DEF BucketRests, Untouched, Typed, Buckets
<1>7. BucketRests("badPaths") \/ BucketNotes("badPaths", path)
  <2>1. CASE probes
    <3>1. bucket'["badPaths"] = noted.bucket
      BY <1>1, <2>1 DEF Typed, Buckets
    <3>2. log'["badPaths"] = Logged("badPaths", path)
      BY <1>2, <1>4, <2>1
    <3>3. "badPaths" \in tripped' <=> noted.trips
      BY <1>3, <2>1
    <3>. QED BY <3>1, <3>2, <3>3, LoggedIs, Zenon DEF BucketNotes, Told1, noted
  <2>2. CASE ~probes
    <3>1. bucket' = bucket /\ log'["badPaths"] = log["badPaths"]
      BY <1>1, <1>2, <1>4, <2>2
    <3>2. "badPaths" \in tripped' <=> "badPaths" \in tripped
      BY <1>3, <2>2
    <3>. QED BY <3>1, <3>2 DEF BucketRests, Untouched
  <2>. QED BY <2>1, <2>2
<1>8. AuthRests \/ AuthNotes
  <2>1. CASE fails
    <3>1. log'["bruteForce"] = Logged("bruteForce", "denied")
      BY <1>2, <1>4, <2>1
    <3>2. Told1("bruteForce", "denied")
      BY <3>1, LoggedIs, Zenon DEF Told1
    <3>3. "bruteForce" \in tripped' <=> full
      BY <1>3, <2>1
    <3>4. failures' = IF full THEN <<>> ELSE Failed(now)
      BY <1>1, <2>1
    <3>5. full <=> Len(Failed(now)) >= Capacity["bruteForce"]
      BY <1>5, <2>1
    <3>6. CASE full
      <4>1. failures' = <<>> /\ "bruteForce" \in tripped'
        BY <3>3, <3>4, <3>6
      <4>. QED BY <3>2, <3>5, <3>6, <4>1, Zenon DEF AuthNotes
    <3>7. CASE ~full
      <4>1. failures' = Failed(now) /\ "bruteForce" \notin tripped'
        BY <3>3, <3>4, <3>7
      <4>. QED BY <3>2, <3>5, <3>7, <4>1, Zenon DEF AuthNotes
    <3>. QED BY <3>6, <3>7
  <2>2. CASE ~fails
    <3>1. ~full
      BY <1>5, <2>2
    <3>2. failures' = failures /\ log'["bruteForce"] = log["bruteForce"]
      BY <1>1, <1>2, <1>4, <2>2, <3>1
    <3>3. "bruteForce" \in tripped' <=> "bruteForce" \in tripped
      BY <1>3, <2>2, <3>1
    <3>. QED BY <3>2, <3>3 DEF AuthRests, Untouched
  <2>. QED BY <2>1, <2>2
<1>9. RateRests
  BY <1>1, <1>2, <1>4 DEF RateRests
<1>. QED BY <1>1, <1>6, <1>7, <1>8, <1>9

LEMMA LossEffect ==
    ASSUME NoRecord
    PROVE  /\ lastSeen' = 0
           /\ \A d \in Buckets : BucketGoes(d)
           /\ AuthGoes /\ RateGoes
<1>1. {"badPaths", "uaRotation", "bruteForce", "rateAbuse"} \subseteq Detecting
      /\ Buckets \subseteq Detecting
  BY DEF Detecting, Buckets
<1>. QED BY <1>1 DEF NoRecord, BucketGoes, AuthGoes, RateGoes, Forgotten

\* A step as the detectors see it.
ForgetStep ==
    now' = now /\ lastSeen' = 0 /\ (\A d \in Buckets : BucketGoes(d)) /\ AuthGoes /\ RateGoes
CallStep ==
    /\ now' = now /\ lastSeen' = now
    /\ \A d \in Buckets : BucketRests(d) \/ \E item \in Words : BucketNotes(d, item)
    /\ AuthRests \/ AuthNotes
    /\ RateRests \/ RatePasses \/ RateRefuses
IdleStep ==
    /\ now' \in {now, now + 1} /\ lastSeen' = lastSeen
    /\ \A d \in Buckets : BucketRests(d)
    /\ AuthRests /\ RateRests

LEMMA Steps ==
    ASSUME Typed, [Next]_vars
    PROVE  CallStep \/ ForgetStep \/ IdleStep
<1>1. ASSUME NEW agent \in Items["uaRotation"], Request(agent) PROVE CallStep
  <2>1. agent \in Words
    BY DEF Words
  <2>. QED BY <1>1, <2>1, RequestEffect, Zenon DEF CallStep, Buckets
<1>2. ASSUME NEW path \in Items["badPaths"], NEW writes \in Writes, Response(path, writes)
      PROVE  CallStep
  <2>1. path \in Words
    BY DEF Words
  <2>. QED BY <1>2, <2>1, ResponseEffect, Zenon DEF CallStep, Buckets
<1>3. CASE Sweep \/ Forget
  BY <1>3, LossEffect DEF Sweep, Forget, ForgetStep
<1>4. CASE Tick
  BY <1>4 DEF Tick, record, IdleStep, BucketRests, AuthRests, RateRests, Untouched
<1>5. CASE UNCHANGED vars
  BY <1>5 DEF vars, IdleStep, BucketRests, AuthRests, RateRests, Untouched
<1>. QED BY <1>1, <1>2, <1>3, <1>4, <1>5 DEF Next

-----------------------------------------------------------------------------
(* The sliding window. *)

InOrder(s) == \A i, j \in 1..Len(s) : i <= j => s[i] <= s[j]

KeepsFrom(s, p, i) == IF i <= p THEN <<>> ELSE SubSeq(s, p + 1, i)

\* The loop of noteAuthFailure.
KeepLoop(f, cutoff) ==
    f = [i \in 0..Len(failures) |->
            IF i = 0 THEN <<>>
            ELSE IF failures[i] > cutoff THEN Append(f[i - 1], failures[i]) ELSE f[i - 1]]

\* One round of it, over failures in order.
LEMMA KeepRound ==
    ASSUME failures \in Seq(Nat), NEW cutoff \in Int, NEW p \in 0..Len(failures),
           \A k \in 1..p : failures[k] <= cutoff,
           \A k \in (p + 1)..Len(failures) : failures[k] > cutoff,
           NEW i \in 1..Len(failures)
    PROVE  KeepsFrom(failures, p, i) =
              IF failures[i] > cutoff THEN Append(KeepsFrom(failures, p, i - 1), failures[i])
              ELSE KeepsFrom(failures, p, i - 1)
<1> DEFINE n == Len(failures)
<1>1. n \in Nat /\ p \in Nat /\ i \in Nat
  OBVIOUS
<1>2. \A k \in 1..n : failures[k] \in Nat
  OBVIOUS
<1>3. CASE i <= p
  <2>1. i \in 1..p /\ ~(failures[i] > cutoff) /\ i - 1 <= p
    BY <1>1, <1>2, <1>3
  <2>. QED BY <1>3, <2>1 DEF KeepsFrom
<1>4. CASE i = p + 1
  <2>1. failures[i] > cutoff /\ ~(i <= p) /\ i - 1 <= p
    BY <1>1, <1>4
  <2>2. SubSeq(failures, p + 1, i) = <<failures[i]>>
    <3> DEFINE sub == SubSeq(failures, p + 1, i)
               one == <<failures[i]>>
    <3>1. sub \in Seq(Nat) /\ Len(sub) = 1 /\ sub[1] = failures[i]
      BY <1>1, <1>4
    <3>2. one \in Seq(Nat) /\ Len(one) = 1 /\ one[1] = failures[i]
      BY <1>2
    <3> HIDE DEF sub, one
    <3>3. \A k \in 1..1 : sub[k] = one[k]
      BY <3>1, <3>2
    <3>4. sub = one
      BY <3>1, <3>2, <3>3
    <3>. QED BY <3>4 DEF sub, one
  <2>3. Append(<<>>, failures[i]) = <<failures[i]>>
    OBVIOUS
  <2>. QED BY <2>1, <2>2, <2>3 DEF KeepsFrom
<1>5. CASE i > p + 1
  <2>1. failures[i] > cutoff /\ ~(i <= p) /\ ~(i - 1 <= p)
    BY <1>1, <1>5
  <2>2. SubSeq(failures, p + 1, i) = Append(SubSeq(failures, p + 1, i - 1), failures[i])
    BY <1>1, <1>5
  <2>. QED BY <2>1, <2>2 DEF KeepsFrom
<1>. QED BY <1>1, <1>3, <1>4, <1>5

\* What is kept of failures in order is the end of them after the cutoff.
LEMMA KeptIs ==
    ASSUME failures \in Seq(Nat), InOrder(failures), NEW cutoff \in Int
    PROVE  \E p \in 0..Len(failures) :
              /\ \A k \in 1..p : failures[k] <= cutoff
              /\ \A k \in (p + 1)..Len(failures) : failures[k] > cutoff
              /\ Kept(cutoff) \in Seq(Nat) /\ Len(Kept(cutoff)) = Len(failures) - p
              /\ \A k \in 1..(Len(failures) - p) : Kept(cutoff)[k] = failures[p + k]
<1> DEFINE n == Len(failures)
<1>1. n \in Nat /\ \A k \in 1..n : failures[k] \in Nat
  OBVIOUS
<1>2. PICK p \in 0..n :
          /\ \A k \in 1..p : failures[k] <= cutoff
          /\ \A k \in (p + 1)..n : failures[k] > cutoff
  <2> DEFINE T == {m \in 1..n : failures[m] > cutoff} \cup {n + 1}
  <2>1. PICK m \in T : \A l \in T : m <= l
    <3>1. T \subseteq Nat /\ T # {}
      BY <1>1
    <3> HIDE DEF T
    <3>. QED BY <3>1, LeastNat
  <2>2. m - 1 \in 0..n /\ m \in Nat
    BY <1>1
  <2>3. \A k \in 1..(m - 1) : failures[k] <= cutoff
    <3> SUFFICES ASSUME NEW k \in 1..(m - 1), ~(failures[k] <= cutoff) PROVE FALSE
      OBVIOUS
    <3>1. k \in 1..n /\ failures[k] > cutoff
      BY <1>1, <2>2
    <3>2. k \in T
      BY <3>1
    <3>. QED BY <2>1, <2>2, <3>2
  <2>4. \A k \in ((m - 1) + 1)..n : failures[k] > cutoff
    <3> SUFFICES ASSUME NEW k \in m..n PROVE failures[k] > cutoff
      BY <2>2
    <3>1. m \in 1..n /\ failures[m] > cutoff /\ k \in 1..n /\ m <= k
      BY <1>1, <2>1, <2>2
    <3>2. failures[m] <= failures[k]
      BY <3>1 DEF InOrder
    <3>. QED BY <1>1, <3>1, <3>2
  <2>. QED BY <2>2, <2>3, <2>4
<1> DEFINE f0 == [i \in 0..n |-> KeepsFrom(failures, p, i)]
<1>3. \A i \in 0..n : KeepsFrom(failures, p, i) =
          IF i = 0 THEN <<>>
          ELSE IF failures[i] > cutoff THEN Append(KeepsFrom(failures, p, i - 1), failures[i])
          ELSE KeepsFrom(failures, p, i - 1)
  <2> TAKE i \in 0..n
  <2>1. CASE i = 0
    BY <2>1 DEF KeepsFrom
  <2>2. CASE i # 0
    <3>1. i \in 1..n
      BY <1>1, <2>2
    <3>. QED BY <1>2, <2>2, <3>1, KeepRound
  <2>. QED BY <2>1, <2>2
<1>4. KeepLoop(f0, cutoff)
  <2>1. \A i \in 0..n : f0[i] = IF i = 0 THEN <<>>
            ELSE IF failures[i] > cutoff THEN Append(f0[i - 1], failures[i]) ELSE f0[i - 1]
    <3> TAKE i \in 0..n
    <3>1. CASE i = 0
      BY <1>3, <3>1
    <3>2. CASE i # 0
      <4>1. i - 1 \in 0..n
        BY <1>1, <3>2
      <4>2. f0[i] = KeepsFrom(failures, p, i) /\ f0[i - 1] = KeepsFrom(failures, p, i - 1)
        BY <4>1
      <4> HIDE DEF f0
      <4>. QED BY <1>3, <3>2, <4>2
    <3>. QED BY <3>1, <3>2
  <2>2. f0 = [i \in 0..n |-> f0[i]]
    OBVIOUS
  <2> HIDE DEF f0
  <2>. QED BY <2>1, <2>2 DEF KeepLoop
<1> DEFINE c == CHOOSE f : KeepLoop(f, cutoff)
<1>5. KeepLoop(c, cutoff)
  BY <1>4, Zenon
<1>6. Kept(cutoff) = c[n]
  BY Zenon DEF Kept, KeepLoop
<1> HIDE DEF c, f0
<1>7. \A i \in 0..n : c[i] = KeepsFrom(failures, p, i)
  <2> DEFINE Same == {i \in Nat : i <= n => c[i] = KeepsFrom(failures, p, i)}
  <2>1. \A i \in 0..n : c[i] = IF i = 0 THEN <<>>
            ELSE IF failures[i] > cutoff THEN Append(c[i - 1], failures[i]) ELSE c[i - 1]
    BY <1>5 DEF KeepLoop
  <2>2. 0 \in Same
    BY <1>1, <1>3, <2>1
  <2>3. ASSUME NEW i \in Nat, i \in Same PROVE i + 1 \in Same
    <3>1. CASE i + 1 <= n
      <4>1. i + 1 \in 0..n /\ i + 1 # 0 /\ (i + 1) - 1 = i /\ i <= n
        BY <1>1, <3>1
      <4>2. c[i] = KeepsFrom(failures, p, i)
        BY <2>3, <4>1
      <4>3. c[i + 1] = IF failures[i + 1] > cutoff THEN Append(c[i], failures[i + 1]) ELSE c[i]
        BY <2>1, <4>1
      <4>4. KeepsFrom(failures, p, i + 1) =
                IF failures[i + 1] > cutoff
                THEN Append(KeepsFrom(failures, p, i), failures[i + 1])
                ELSE KeepsFrom(failures, p, i)
        BY <1>3, <4>1
      <4>5. c[i + 1] = KeepsFrom(failures, p, i + 1)
        BY <4>2, <4>3, <4>4
      <4>. QED BY <4>5
    <3>2. CASE ~(i + 1 <= n)
      BY <3>2
    <3>. QED BY <3>1, <3>2
  <2> HIDE DEF Same
  <2>4. Nat \subseteq Same
    BY <2>2, <2>3, NatSet
  <2>. QED BY <1>1, <2>4 DEF Same
<1>8. Kept(cutoff) = KeepsFrom(failures, p, n)
  BY <1>1, <1>6, <1>7
<1>9. CASE n <= p
  <2>1. Kept(cutoff) = <<>> /\ n - p = 0
    BY <1>1, <1>8, <1>9 DEF KeepsFrom
  <2>. QED BY <1>2, <2>1
<1>10. CASE ~(n <= p)
  <2>1. Kept(cutoff) = SubSeq(failures, p + 1, n)
    BY <1>8, <1>10 DEF KeepsFrom
  <2>2. /\ SubSeq(failures, p + 1, n) \in Seq(Nat) /\ Len(SubSeq(failures, p + 1, n)) = n - p
        /\ \A k \in 1..(n - p) : SubSeq(failures, p + 1, n)[k] = failures[p + k]
    BY <1>1, <1>10
  <2>. QED BY <1>2, <2>1, <2>2
<1>. QED BY <1>1, <1>9, <1>10

\* The failures f are the end of what was told, and the rest of it is too old.
WindowAgrees(f, h) ==
    /\ InOrder(f) /\ Len(f) <= Len(h)
    /\ \A k \in 1..Len(f) : f[k] = h[Len(h) - Len(f) + k].at
    /\ \A k \in 1..(Len(h) - Len(f)) : h[k].at <= h[Len(h)].at - AuthWindow

Inside(h) == {k \in DOMAIN h : h[k].at > Last(h).at - AuthWindow}

LEMMA FailedAgrees ==
    ASSUME failures \in Seq(Nat), now \in Nat \ {0}, NEW h \in Seq(Entries),
           WindowAgrees(failures, h), NEW e \in Entries, e.at = now,
           \A k \in 1..Len(failures) : failures[k] <= now,
           \A k \in 1..Len(h) : h[k].at <= now
    PROVE  LET f == Failed(now)
               g == Append(h, e)
           IN  /\ f \in Seq(Nat) /\ \A k \in 1..Len(f) : f[k] <= now
               /\ WindowAgrees(f, g)
               /\ Cardinality(Inside(g)) = Len(f)
<1> DEFINE f == Failed(now)
           g == Append(h, e)
           n == Len(h)
           m == Len(failures)
           cutoff == now - AuthWindow
<1>1. AuthWindow \in Nat \ {0}
  BY DetectorsAssumption
<1>2. /\ n \in Nat /\ m \in Nat /\ m <= n /\ cutoff \in Int /\ cutoff < now
      /\ \A k \in 1..m : failures[k] \in Nat
  BY <1>1 DEF WindowAgrees
<1>3. PICK p \in 0..m :
          /\ \A k \in 1..p : failures[k] <= cutoff
          /\ \A k \in (p + 1)..m : failures[k] > cutoff
          /\ Kept(cutoff) \in Seq(Nat) /\ Len(Kept(cutoff)) = m - p
          /\ \A k \in 1..(m - p) : Kept(cutoff)[k] = failures[p + k]
  BY <1>2, KeptIs DEF WindowAgrees
<1>4. /\ f \in Seq(Nat) /\ Len(f) = m - p + 1 /\ f[m - p + 1] = now
      /\ \A k \in 1..(m - p) : f[k] = failures[p + k]
  <2> DEFINE kept == Kept(cutoff)
  <2>1. f = Append(kept, now)
    BY DEF Failed
  <2> DEFINE r == m - p
  <2>2. kept \in Seq(Nat) /\ Len(kept) = r /\ \A k \in 1..r : kept[k] = failures[p + k]
    BY <1>3
  <2>3. r \in Nat /\ now \in Nat
    BY <1>2, <1>3
  <2> HIDE DEF kept, f, m, r
  <2>4. f \in Seq(Nat) /\ Len(f) = r + 1 /\ f[r + 1] = now /\ \A k \in 1..r : f[k] = kept[k]
    BY <2>1, <2>2, <2>3
  <2>. QED BY <2>2, <2>4 DEF r
<1>5. /\ g \in Seq(Entries) /\ Len(g) = n + 1 /\ g[n + 1] = e
      /\ \A k \in 1..n : g[k] = h[k]
  BY NamedMore
<1>6. /\ \A k \in 1..m : failures[k] = h[n - m + k].at
      /\ \A k \in 1..(n - m) : h[k].at <= h[n].at - AuthWindow
      /\ \A i, j \in 1..m : i <= j => failures[i] <= failures[j]
  BY DEF WindowAgrees, InOrder
<1>7. \A k \in 1..n : h[k].at \in Nat /\ h[k].at <= now
  <2> TAKE k \in 1..n
  <2>1. h[k] \in Entries
    OBVIOUS
  <2>. QED BY <2>1 DEF Entries
<1>8. Last(g) = e
  BY <1>5 DEF Last
<1> DEFINE q == n - m + p
<1>9. q \in Nat /\ q <= n /\ (n + 1) - Len(f) = q /\ Len(f) \in Nat
  BY <1>2, <1>4
<1> HIDE DEF f, g, n, m, cutoff, q
<1>10. ASSUME NEW k \in 1..Len(f)
       PROVE  f[k] <= now /\ f[k] > cutoff /\ f[k] = g[q + k].at
  <2>1. CASE k = m - p + 1
    <3>1. q + k = n + 1
      BY <1>2, <2>1 DEF q
    <3>. QED BY <1>2, <1>4, <1>5, <2>1, <3>1
  <2>2. CASE k # m - p + 1
    <3>0. /\ n \in Int /\ m \in Int /\ p \in Int /\ k \in Int
          /\ 1 <= k /\ k <= m - p /\ 0 <= p /\ m <= n
      <4>1. Len(f) = m - p + 1 /\ n \in Nat /\ m \in Nat /\ m <= n
        BY <1>2, <1>4
      <4>. QED BY <2>2, <4>1
    <3>1. k \in 1..(m - p) /\ p + k \in (p + 1)..m /\ p + k \in 1..m
      BY <3>0
    <3>2. f[k] = failures[p + k] /\ failures[p + k] > cutoff /\ failures[p + k] <= now
      BY <1>3, <1>4, <3>1 DEF m
    <3>3. q + k \in 1..n /\ n - m + (p + k) = q + k
      BY <3>0 DEF q
    <3>4. failures[p + k] = h[q + k].at
      BY <1>6, <3>1, <3>3
    <3>. QED BY <1>5, <3>2, <3>3, <3>4
  <2>. QED BY <2>1, <2>2
<1>11. ASSUME NEW k \in 1..q PROVE g[k].at <= cutoff
  <2>1. k \in 1..n /\ g[k] = h[k]
    <3>1. k \in 1..n
      BY <1>2, <1>9
    <3>. QED BY <1>5, <3>1
  <2>2. CASE k <= n - m
    <3>1. h[k].at <= h[n].at - AuthWindow /\ n \in 1..n
      BY <1>2, <1>6, <2>1, <2>2
    <3>2. h[n].at \in Nat /\ h[n].at <= now /\ h[k].at \in Nat
      BY <1>7, <2>1, <3>1
    <3>. QED BY <1>1, <2>1, <3>1, <3>2 DEF cutoff
  <2>3. CASE ~(k <= n - m)
    <3>1. k - (n - m) \in 1..p /\ k - (n - m) \in 1..m /\ n - m + (k - (n - m)) = k
      BY <1>2, <1>3, <2>1, <2>3 DEF q
    <3>2. failures[k - (n - m)] = h[k].at
      BY <1>6, <3>1
    <3>. QED BY <1>3, <2>1, <3>1, <3>2
  <2>. QED BY <2>2, <2>3
<1>12. InOrder(f)
  <2> SUFFICES ASSUME NEW i \in 1..Len(f), NEW j \in 1..Len(f), i <= j PROVE f[i] <= f[j]
    BY DEF InOrder
  <2>1. CASE j = m - p + 1
    BY <1>4, <1>10, <2>1
  <2>2. CASE j # m - p + 1
    <3>1. /\ i \in 1..(m - p) /\ j \in 1..(m - p) /\ p + i \in 1..m /\ p + j \in 1..m
          /\ p + i <= p + j
      BY <1>2, <1>3, <1>4, <2>2
    <3>2. failures[p + i] <= failures[p + j]
      BY <1>6, <3>1
    <3>. QED BY <1>4, <3>1, <3>2
  <2>. QED BY <2>1, <2>2
<1>13. WindowAgrees(f, g)
  <2>1. Len(f) <= Len(g)
    BY <1>2, <1>5, <1>9
  <2>2. \A k \in 1..Len(f) : f[k] = g[Len(g) - Len(f) + k].at
    BY <1>5, <1>9, <1>10
  <2>3. \A k \in 1..(Len(g) - Len(f)) : g[k].at <= g[Len(g)].at - AuthWindow
    <3>1. Len(g) - Len(f) = q /\ g[Len(g)].at - AuthWindow = cutoff
      BY <1>5, <1>9 DEF cutoff
    <3>. QED BY <1>11, <3>1
  <2>. QED BY <1>12, <2>1, <2>2, <2>3 DEF WindowAgrees
<1>14. Cardinality(Inside(g)) = Len(f)
  <2>1. Inside(g) = (q + 1)..(n + 1)
    <3>1. DOMAIN g = 1..(n + 1) /\ Last(g).at - AuthWindow = cutoff
      BY <1>5, <1>8 DEF cutoff
    <3>2. ASSUME NEW k \in 1..(n + 1)
          PROVE  (g[k].at > cutoff) <=> k \in (q + 1)..(n + 1)
      <4>1. CASE k \in 1..q
        <5>1. g[k].at <= cutoff /\ g[k] = h[k] /\ k \in 1..n
          BY <1>2, <1>5, <1>9, <1>11, <4>1
        <5>2. g[k].at \in Nat
          BY <1>7, <5>1
        <5>. QED BY <1>2, <1>9, <4>1, <5>1, <5>2
      <4>2. CASE k \notin 1..q
        <5>1. k - q \in 1..Len(f) /\ q + (k - q) = k /\ k \in (q + 1)..(n + 1)
          BY <1>2, <1>9, <4>2
        <5>2. f[k - q] > cutoff /\ f[k - q] = g[q + (k - q)].at
          BY <1>10, <5>1
        <5>. QED BY <5>1, <5>2
      <4>. QED BY <4>1, <4>2
    <3>3. (q + 1)..(n + 1) \subseteq 1..(n + 1)
      BY <1>2, <1>9
    <3>. QED BY <3>1, <3>2, <3>3 DEF Inside
  <2>2. q + 1 \in Int /\ n + 1 \in Int /\ q + 1 <= n + 2
    BY <1>2, <1>9
  <2>3. Cardinality((q + 1)..(n + 1)) = (n + 1) - (q + 1) + 1
    <3>1. Cardinality((q + 1)..(n + 1)) =
            IF q + 1 > n + 1 THEN 0 ELSE (n + 1) - (q + 1) + 1
      BY <2>2, FS_Interval
    <3>2. Len(f) # 0 /\ ~(q + 1 > n + 1)
      BY <1>2, <1>3, <1>4, <1>9
    <3>. QED BY <3>1, <3>2
  <2>. QED BY <1>2, <1>9, <2>1, <2>3
<1>. QED BY <1>4, <1>10, <1>13, <1>14 DEF f, g

-----------------------------------------------------------------------------
(* The token bucket. *)

Passed(r, i, j) == {k \in i..j : r[k].what}
Allowed(r, i)   == Burst * Token + Refill * (r[Len(r)].at - r[i].at)

\* No span had more than it is allowed, and what is left is what some span has not used.
RateAgrees(t, r) ==
    /\ t.left <= Burst * Token
    /\ IF r = <<>> THEN t.at = 0 ELSE t.at = r[Len(r)].at
    /\ \A i \in 1..Len(r) : Token * Cardinality(Passed(r, i, Len(r))) + t.left <= Allowed(r, i)
    /\ r # <<>> => \E i \in 1..Len(r) : t.left >= Allowed(r, i) - Token * (Len(r) - i + 1)

\* A refusal ends a span that had more requests than it is allowed.
RefusedRightly(r) ==
    r # <<>> /\ ~r[Len(r)].what =>
        \E i \in 1..Len(r) : Token * (Len(r) - i + 1) > Allowed(r, i)

LEMMA Rates ==
    /\ Token \in Nat \ {0} /\ Refill \in Nat \ {0} /\ Burst \in Nat \ {0}
    /\ Burst * Token \in Nat \ {0}
<1>1. Token \in Nat \ {0} /\ Refill \in Nat \ {0} /\ Burst \in Nat \ {0}
  BY DetectorsAssumption
<1>2. Burst * 1 <= Burst * Token /\ Burst * Token \in Int
  BY <1>1, Multiples
<1>. QED BY <1>1, <1>2

LEMMA PassedMore ==
    ASSUME NEW r \in Seq(Charges), NEW c \in Charges, NEW i \in 1..(Len(r) + 1)
    PROVE  LET n == Len(r)
               p == Cardinality(Passed(r, i, n))
           IN  /\ p \in Nat /\ (i = n + 1 => p = 0)
               /\ c.what => Cardinality(Passed(Append(r, c), i, n + 1)) = p + 1
               /\ ~c.what => Cardinality(Passed(Append(r, c), i, n + 1)) = p
<1> DEFINE n == Len(r)
           g == Append(r, c)
<1>1. n \in Nat /\ g[n + 1] = c /\ \A k \in 1..n : g[k] = r[k]
  OBVIOUS
<1>2. IsFiniteSet(Passed(r, i, n))
  <2>1. IsFiniteSet(i..n) /\ Passed(r, i, n) \subseteq i..n
    BY <1>1, FS_Interval DEF Passed
  <2>. QED BY <2>1, FS_Subset
<1>3. i = n + 1 => Cardinality(Passed(r, i, n)) = 0
  <2>1. ASSUME i = n + 1 PROVE Passed(r, i, n) = {}
    <3>1. i..n = {}
      BY <1>1, <2>1
    <3>. QED BY <3>1 DEF Passed
  <2>. QED BY <2>1, FS_EmptySet
<1> HIDE DEF g, n
<1>4. i \in 1..(n + 1)
  BY DEF n
<1>5. \A k \in i..n : k \in 1..n /\ g[k] = r[k] /\ k # n + 1
  BY <1>1, <1>4
<1>6. i..(n + 1) = (i..n) \cup {n + 1} /\ n + 1 \notin i..n
  BY <1>1, <1>4
<1>7. CASE c.what
  <2>1. g[n + 1].what
    BY <1>1, <1>7
  <2>2. Passed(g, i, n + 1) = Passed(r, i, n) \cup {n + 1} /\ n + 1 \notin Passed(r, i, n)
    BY <1>5, <1>6, <2>1 DEF Passed
  <2>3. Cardinality(Passed(g, i, n + 1)) = Cardinality(Passed(r, i, n)) + 1
    BY <1>2, <2>2, FS_AddElement
  <2>. QED BY <1>2, <1>3, <1>7, <2>3, FS_CardinalityType DEF g, n
<1>8. CASE ~c.what
  <2>1. ~g[n + 1].what
    BY <1>1, <1>8
  <2>2. Passed(g, i, n + 1) = Passed(r, i, n)
    BY <1>5, <1>6, <2>1 DEF Passed
  <2>. QED BY <1>2, <1>3, <1>8, <2>2, FS_CardinalityType DEF g, n
<1>. QED BY <1>7, <1>8

\* The tokens a request finds.
LEMMA RefilledIs ==
    ASSUME NEW r \in Seq(Charges), now \in Nat \ {0}, tokens \in [left : Nat, at : Nat],
           tokens.at <= now, RateAgrees(tokens, r)
    PROVE  LET full  == Burst * Token
               since == Refill * (now - tokens.at)
           IN  /\ Refilled(now) \in Nat /\ Refilled(now) <= full /\ since \in Nat
               /\ r = <<>> => Refilled(now) = full
               /\ r # <<>> => /\ Refilled(now) <= tokens.left + since
                              /\ Refilled(now) = full \/ Refilled(now) = tokens.left + since
<1> DEFINE full  == Burst * Token
           since == Refill * (now - tokens.at)
           l == tokens.left
<1>1. full \in Nat /\ l \in Nat /\ now - tokens.at \in Nat /\ l <= full
  BY Rates DEF RateAgrees
<1>2. since \in Nat
  <2> DEFINE x == now - tokens.at
  <2>1. x \in Nat /\ Refill \in Nat
    BY <1>1, Rates
  <2> HIDE DEF x
  <2>2. Refill * x \in Nat
    BY <2>1
  <2>. QED BY <2>2 DEF x
<1>3. r = <<>> => tokens.at = 0
  BY DEF RateAgrees
<1>4. r # <<>> => tokens.at # 0
  <2> SUFFICES ASSUME r # <<>> PROVE tokens.at # 0
    OBVIOUS
  <2>1. tokens.at = r[Len(r)].at /\ r[Len(r)] \in Charges
    BY DEF RateAgrees
  <2>. QED BY <2>1 DEF Charges
<1>5. Refilled(now) = IF tokens.at = 0 \/ l + since > full THEN full ELSE l + since
  BY DEF Refilled
<1> HIDE DEF full, since, l
<1>. QED BY <1>1, <1>2, <1>3, <1>4, <1>5 DEF full, since, l

\* What a request finds is at most what each span to now has not passed yet, and at
\* least what some span has not asked for.
LEMMA RefilledAgrees ==
    ASSUME NEW r \in Seq(Charges), now \in Nat \ {0}, tokens \in [left : Nat, at : Nat],
           tokens.at <= now, RateAgrees(tokens, r), NEW what \in BOOLEAN
    PROVE  LET n == Len(r)
               g == Append(r, [what |-> what, at |-> now])
           IN  /\ \A i \in 1..(n + 1) : Allowed(g, i) \in Int
               /\ \A i \in 1..(n + 1) :
                     Token * Cardinality(Passed(r, i, n)) + Refilled(now) <= Allowed(g, i)
               /\ \E i \in 1..(n + 1) :
                     Refilled(now) >= Allowed(g, i) - Token * (n - i + 1)
<1> DEFINE n == Len(r)
           c == [what |-> what, at |-> now]
           g == Append(r, c)
           full == Burst * Token
           since == Refill * (now - tokens.at)
           found == Refilled(now)
           l == tokens.left
<1>1. /\ n \in Nat /\ c \in Charges /\ c.at = now /\ now \in Nat
      /\ l \in Nat /\ tokens.at \in Nat
  BY DEF Charges
<1> HIDE DEF c
<1>2. Len(g) = n + 1 /\ g[n + 1] = c /\ \A i \in 1..n : g[i] = r[i] /\ r[i].at \in Nat
  <2>1. Len(g) = n + 1 /\ g[n + 1] = c /\ \A i \in 1..n : g[i] = r[i] /\ r[i] \in Charges
    BY <1>1
  <2>. QED BY <2>1 DEF Charges
<1>3. /\ found \in Nat /\ found <= full /\ since \in Nat
      /\ r = <<>> => found = full
      /\ r # <<>> => /\ found <= l + since
                     /\ found = full \/ found = l + since
  BY RefilledIs
<1>4. Token \in Nat \ {0} /\ Refill \in Nat \ {0} /\ full \in Nat
  BY Rates
<1> HIDE DEF g, full, found, l
<1>5. Allowed(g, n + 1) = full
  <2>1. g[Len(g)].at - g[n + 1].at = 0
    BY <1>1, <1>2
  <2>2. Refill * 0 = 0
    BY <1>4
  <2>. QED BY <1>4, <2>1, <2>2 DEF Allowed, full
<1>6. ASSUME NEW i \in 1..n
      PROVE  Allowed(g, i) = Allowed(r, i) + since /\ Allowed(r, i) \in Int
  <2> DEFINE a == now - tokens.at
             b == tokens.at - r[i].at
  <2>1. r # <<>> /\ tokens.at = r[n].at
    BY DEF RateAgrees
  <2>2. a \in Int /\ b \in Int /\ g[Len(g)].at - g[i].at = a + b /\ r[n].at - r[i].at = b
    BY <1>1, <1>2, <2>1
  <2>3. Allowed(g, i) = full + Refill * (a + b) /\ Allowed(r, i) = full + Refill * b
    BY <2>2 DEF Allowed, full
  <2>4. since = Refill * a
    OBVIOUS
  <2> HIDE DEF a, b, since
  <2>5. Refill * (a + b) = Refill * a + Refill * b /\ Refill * a \in Int /\ Refill * b \in Int
    BY <1>4, <2>2, Spread
  <2> DEFINE u == Refill * a
             v == Refill * b
             w == Refill * (a + b)
  <2>6. w = u + v /\ u \in Int /\ v \in Int /\ Allowed(g, i) = full + w
        /\ Allowed(r, i) = full + v /\ since = u
    BY <2>3, <2>4, <2>5
  <2> HIDE DEF u, v, w
  <2>. QED BY <1>4, <2>6
<1>7. \A i \in 1..(n + 1) : Allowed(g, i) \in Int
  <2> TAKE i \in 1..(n + 1)
  <2>1. CASE i = n + 1
    BY <1>4, <1>5, <2>1
  <2>2. CASE i # n + 1
    <3>1. i \in 1..n
      BY <1>1, <2>2
    <3>. QED BY <1>3, <1>6, <3>1
  <2>. QED BY <2>1, <2>2
<1>8. ASSUME NEW i \in 1..(n + 1)
      PROVE  Token * Cardinality(Passed(r, i, n)) + found <= Allowed(g, i)
  <2> DEFINE p == Cardinality(Passed(r, i, n))
             m == Token * p
  <2>1. p \in Nat /\ (i = n + 1 => p = 0)
    BY <1>1, PassedMore
  <2> HIDE DEF p
  <2>2. m \in Int /\ (i = n + 1 => m = 0)
    BY <1>4, <2>1
  <2>3. CASE i = n + 1
    BY <1>3, <1>4, <1>5, <2>2, <2>3 DEF p
  <2>4. CASE i # n + 1
    <3>1. i \in 1..n /\ r # <<>>
      BY <1>1, <2>4
    <3>2. m + l <= Allowed(r, i)
      BY <3>1 DEF RateAgrees, l, p
    <3> DEFINE x == Allowed(r, i)
               y == Allowed(g, i)
    <3>3. x \in Int /\ y = x + since /\ m + l <= x /\ found <= l + since
      BY <1>3, <1>6, <3>1, <3>2
    <3> HIDE DEF x, y, m, since
    <3>4. m + found <= y
      BY <1>1, <1>3, <2>2, <3>3 DEF l
    <3>. QED BY <3>4 DEF y, m, p
  <2>. QED BY <2>3, <2>4
<1>9. \E i \in 1..(n + 1) : found >= Allowed(g, i) - Token * (n - i + 1)
  <2>1. CASE found = full
    <3>1. n + 1 \in 1..(n + 1) /\ n - (n + 1) + 1 = 0
      BY <1>1
    <3>2. Token * 0 = 0
      BY <1>4
    <3>3. found >= Allowed(g, n + 1) - Token * (n - (n + 1) + 1)
      BY <1>3, <1>4, <1>5, <2>1, <3>1, <3>2
    <3>. QED BY <3>1, <3>3
  <2>2. CASE found # full
    <3>1. r # <<>> /\ found = l + since
      BY <1>3, <2>2
    <3>2. PICK i \in 1..n : l >= Allowed(r, i) - Token * (n - i + 1)
      BY <3>1 DEF RateAgrees, l
    <3> DEFINE x == Allowed(r, i)
               y == Allowed(g, i)
               k == n - i + 1
               m == Token * k
    <3>3. k \in Int
      BY <1>1
    <3> HIDE DEF k
    <3>4. m \in Int
      BY <1>4, <3>3
    <3>5. x \in Int /\ y = x + since /\ l >= x - m
      BY <1>6, <3>2 DEF k
    <3> HIDE DEF x, y, m, since
    <3>6. found >= y - m
      BY <1>1, <1>3, <3>1, <3>4, <3>5 DEF l
    <3>7. i \in 1..(n + 1)
      BY <1>1
    <3>. QED BY <3>6, <3>7 DEF y, m, k
  <2>. QED BY <2>1, <2>2
<1>. QED BY <1>7, <1>8, <1>9 DEF g, c, found

\* What a request leaves, passed or refused.
LEMMA RateNoted ==
    ASSUME NEW r \in Seq(Charges), now \in Nat \ {0}, tokens \in [left : Nat, at : Nat],
           tokens.at <= now, RateAgrees(tokens, r), NEW what \in BOOLEAN, NEW l,
           \/ what /\ Left >= 0 /\ l = Left
           \/ ~what /\ Left < 0 /\ l = 0
    PROVE  LET g == Append(r, [what |-> what, at |-> now])
           IN  l \in Nat /\ RateAgrees([left |-> l, at |-> now], g) /\ RefusedRightly(g)
<1> DEFINE n == Len(r)
           c == [what |-> what, at |-> now]
           g == Append(r, c)
           found == Refilled(now)
<1>1. /\ n \in Nat /\ c \in Charges /\ c.at = now /\ c.what = what
  BY DEF Charges
<1> HIDE DEF c
<1>2. Len(g) = n + 1 /\ g[n + 1] = c /\ g # <<>>
  BY <1>1
<1>3. /\ \A i \in 1..(n + 1) : Allowed(g, i) \in Int
      /\ \A i \in 1..(n + 1) : Token * Cardinality(Passed(r, i, n)) + found <= Allowed(g, i)
      /\ \E i \in 1..(n + 1) : found >= Allowed(g, i) - Token * (n - i + 1)
  BY RefilledAgrees DEF c
<1>4. Token \in Nat \ {0} /\ Burst * Token \in Nat
  BY Rates
<1>5. found \in Nat /\ found <= Burst * Token
  BY RefilledIs
<1>6. Left = found - Token
  BY DEF Left
<1> HIDE DEF g, found
<1>7. l \in Nat /\ l <= Burst * Token
  BY <1>4, <1>5, <1>6
<1>8. ASSUME NEW i \in 1..(n + 1)
      PROVE  Token * Cardinality(Passed(g, i, n + 1)) + l <= Allowed(g, i)
  <2> DEFINE p == Cardinality(Passed(r, i, n))
             q == Cardinality(Passed(g, i, n + 1))
             m == Token * p
             y == Allowed(g, i)
  <2>1. p \in Nat /\ (c.what => q = p + 1) /\ (~c.what => q = p)
    BY <1>1, PassedMore DEF g
  <2>2. m + found <= y /\ y \in Int
    BY <1>3
  <2> HIDE DEF p, q, y
  <2>3. m \in Int /\ Token * (p + 1) = m + Token
    <3>1. Token * (p + 1) = Token * p + Token * 1 /\ Token * p \in Int
      BY <1>4, <2>1, Spread
    <3>. QED BY <1>4, <3>1
  <2> HIDE DEF m
  <2>4. CASE c.what
    <3>1. q = p + 1 /\ l = found - Token
      BY <1>1, <1>6, <2>1, <2>4
    <3>2. Token * q = m + Token
      BY <2>3, <3>1
    <3> DEFINE w == Token * q
    <3> HIDE DEF w
    <3>3. w + l <= y
      BY <1>4, <1>5, <2>2, <2>3, <3>1, <3>2 DEF w
    <3>. QED BY <3>3 DEF w, y, q
  <2>5. CASE ~c.what
    <3>1. q = p /\ l = 0
      BY <1>1, <1>4, <1>5, <1>6, <2>1, <2>5
    <3>2. Token * q = m
      BY <3>1 DEF m
    <3> DEFINE w == Token * q
    <3> HIDE DEF w
    <3>3. w + l <= y
      BY <1>5, <2>2, <2>3, <3>1, <3>2 DEF w
    <3>. QED BY <3>3 DEF w, y, q
  <2>. QED BY <2>4, <2>5
<1>9. \E i \in 1..(n + 1) :
          /\ l >= Allowed(g, i) - Token * ((n + 1) - i + 1)
          /\ ~c.what => Token * ((n + 1) - i + 1) > Allowed(g, i)
  <2>1. PICK i \in 1..(n + 1) : found >= Allowed(g, i) - Token * (n - i + 1)
    BY <1>3
  <2> DEFINE k == n - i + 1
             y == Allowed(g, i)
             k1 == (n + 1) - i + 1
             m == Token * k
             w == Token * k1
  <2>2. k \in Int /\ k1 = k + 1 /\ y \in Int
    BY <1>1, <1>3
  <2>3. found >= y - m
    BY <2>1
  <2> HIDE DEF k, k1, y
  <2>4. Token * (k + 1) = Token * k + Token * 1 /\ Token * k \in Int
    BY <1>4, <2>2, Spread
  <2>5. w = m + Token /\ m \in Int
    BY <1>4, <2>2, <2>4
  <2> HIDE DEF m, w
  <2>6. l >= y - w
    BY <1>4, <1>5, <1>6, <1>7, <2>2, <2>3, <2>5
  <2>7. ~c.what => w > y
    BY <1>1, <1>4, <1>5, <1>6, <2>2, <2>3, <2>5
  <2>. QED BY <2>6, <2>7 DEF y, w, k1
<1>10. RateAgrees([left |-> l, at |-> now], g)
  BY <1>1, <1>2, <1>7, <1>8, <1>9 DEF RateAgrees
<1>11. RefusedRightly(g)
  BY <1>1, <1>2, <1>9 DEF RefusedRightly
<1>. QED BY <1>7, <1>10, <1>11 DEF g, c

-----------------------------------------------------------------------------
(* The inductive invariant, detector by detector. *)

BucketSound(d) ==
    /\ bucket[d].at <= lastSeen
    /\ Agrees(d, bucket[d], Heard(d)) /\ QuickAreFew(d, Heard(d))
    /\ d \in tripped => Cardinality(Named(log[d], 1, Len(log[d]))) >= Capacity[d]

AuthSound ==
    /\ \A k \in 1..Len(failures) : failures[k] <= lastSeen
    /\ \A k \in 1..Len(log["bruteForce"]) : log["bruteForce"][k].at <= lastSeen
    /\ WindowAgrees(failures, Heard("bruteForce"))
    /\ log["bruteForce"] # <<>> =>
          ("bruteForce" \in tripped <=>
              Cardinality(Inside(log["bruteForce"])) >= Capacity["bruteForce"])

RateSound ==
    /\ tokens.at <= lastSeen
    /\ RateAgrees(tokens, log["rateAbuse"]) /\ RefusedRightly(log["rateAbuse"])

Sound == (\A d \in Buckets : BucketSound(d)) /\ AuthSound /\ RateSound

LEMMA Names ==
    /\ Buckets \subseteq Detecting \ {"rateAbuse"} /\ "bruteForce" \in Detecting \ {"rateAbuse"}
    /\ "rateAbuse" \notin Buckets /\ "bruteForce" \notin Buckets
    /\ \A d \in Detecting \ {"rateAbuse"} : d \in Buckets \/ d = "bruteForce"
BY DEF Detecting, Buckets

LEMMA FreshAgrees ==
    ASSUME NEW d \in Buckets, NEW b, b.seen = {}, b.level = 0
    PROVE  Agrees(d, b, <<>>) /\ QuickAreFew(d, <<>>)
<1>1. /\ Full(d) \in Nat \ {0} /\ Event(d) \in Nat \ {0} /\ Cardinality({}) = 0
      /\ IsFiniteSet({}) /\ Event(d) * 0 = 0
  BY Parameters, FS_EmptySet
<1>2. CountsOnce(d, b, <<>>)
  <2>1. b.level <= Event(d) * Cardinality(b.seen)
    BY <1>1
  <2>. QED BY <1>1, <2>1 DEF CountsOnce
<1>3. CountsAll(d, b, <<>>) /\ InStep(d, b, <<>>) /\ QuickAreFew(d, <<>>)
  BY <1>1 DEF CountsAll, InStep, QuickAreFew
<1>. QED BY <1>2, <1>3 DEF Agrees

LEMMA HeardIs ==
    ASSUME Typed, NEW d \in Detecting \ {"rateAbuse"}
    PROVE  Heard(d) \in Seq(Entries)
BY DEF Typed, Heard

\* The bucket of one detector in a step.
LEMMA BucketStep ==
    ASSUME Typed, NEW d \in Buckets, BucketSound(d),
           \/ BucketRests(d) /\ lastSeen' \in {lastSeen, now}
           \/ (\E item \in Words : BucketNotes(d, item)) /\ lastSeen' = now
           \/ BucketGoes(d) /\ lastSeen' = 0
    PROVE  BucketSound(d)' /\ bucket'[d] \in Levels /\ log'[d] \in Seq(Entries)
<1>1. /\ now \in Nat \ {0} /\ lastSeen \in Nat /\ lastSeen <= now /\ bucket[d] \in Levels
      /\ log[d] \in Seq(Entries) /\ Heard(d) \in Seq(Entries)
      /\ bucket[d].at \in Nat /\ bucket[d].at <= lastSeen /\ bucket[d].at <= now
  <2>1. /\ now \in Nat \ {0} /\ lastSeen \in Nat /\ lastSeen <= now /\ bucket[d] \in Levels
        /\ log[d] \in Seq(Entries) /\ Heard(d) \in Seq(Entries)
    BY Names, HeardIs DEF Typed
  <2>2. bucket[d].at \in Nat
    BY <2>1 DEF Levels
  <2>. QED BY <2>1, <2>2 DEF BucketSound
<1>2. CASE BucketRests(d) /\ lastSeen' \in {lastSeen, now}
  <2>1. /\ bucket'[d] = bucket[d] /\ log'[d] = log[d] /\ Heard(d)' = Heard(d)
        /\ (d \in tripped') = (d \in tripped)
    BY <1>2 DEF BucketRests, Untouched, Heard
  <2>2. bucket'[d].at <= lastSeen'
    BY <1>1, <1>2, <2>1
  <2>. QED BY <1>1, <2>1, <2>2 DEF BucketSound
<1>3. ASSUME NEW item \in Words, BucketNotes(d, item), lastSeen' = now
      PROVE  BucketSound(d)' /\ bucket'[d] \in Levels /\ log'[d] \in Seq(Entries)
  <2> DEFINE noted == Noted(d, item, now)
             g == Append(Heard(d), [what |-> item, at |-> now])
  <2>1. /\ noted.bucket \in Levels /\ noted.bucket.at = now
        /\ noted.trips => /\ Agrees(d, noted.bucket, <<>>)
                          /\ Cardinality(Named(g, 1, Len(g))) >= Capacity[d]
        /\ ~noted.trips => Agrees(d, noted.bucket, g) /\ QuickAreFew(d, g)
    <3>1. Agrees(d, bucket[d], Heard(d)) /\ QuickAreFew(d, Heard(d))
      BY DEF BucketSound
    <3>. QED BY <1>1, <3>1, NotedAgrees
  <2>2. /\ bucket'[d] = noted.bucket /\ log'[d] = g /\ (d \in tripped' <=> noted.trips)
        /\ lastSeen' = now
    BY <1>3 DEF BucketNotes, Told1
  <2>3. g \in Seq(Entries)
    <3>1. [what |-> item, at |-> now] \in Entries
      BY <1>1 DEF Entries
    <3>. QED BY <1>1, <3>1
  <2>4. bucket'[d].at <= lastSeen'
    BY <1>1, <2>1, <2>2
  <2> HIDE DEF g, noted
  <2>5. CASE noted.trips
    <3>1. Heard(d)' = <<>> /\ d \in tripped'
      BY <2>2, <2>5 DEF Heard
    <3>2. QuickAreFew(d, <<>>)
      BY DEF QuickAreFew
    <3>. QED BY <2>1, <2>2, <2>3, <2>4, <2>5, <3>1, <3>2 DEF BucketSound
  <2>6. CASE ~noted.trips
    <3>1. Heard(d)' = g /\ d \notin tripped'
      BY <2>2, <2>6 DEF Heard
    <3>. QED BY <2>1, <2>2, <2>3, <2>4, <2>6, <3>1 DEF BucketSound
  <2>. QED BY <2>5, <2>6
<1>4. CASE BucketGoes(d) /\ lastSeen' = 0
  <2>1. /\ bucket'[d] = EmptyBucket /\ log'[d] = <<>> /\ d \notin tripped' /\ Heard(d)' = <<>>
    BY <1>4 DEF BucketGoes, Forgotten, Heard
  <2>2. /\ EmptyBucket \in Levels /\ EmptyBucket.at = 0 /\ EmptyBucket.seen = {}
        /\ EmptyBucket.level = 0
    BY DEF Levels, EmptyBucket
  <2>3. Agrees(d, EmptyBucket, <<>>) /\ QuickAreFew(d, <<>>)
    BY <2>2, FreshAgrees
  <2>4. <<>> \in Seq(Entries)
    OBVIOUS
  <2>5. bucket'[d].at <= lastSeen'
    BY <1>4, <2>1, <2>2
  <2>. QED BY <2>1, <2>2, <2>3, <2>4, <2>5 DEF BucketSound
<1>. QED BY <1>2, <1>3, <1>4

\* The window in a step.
LEMMA AuthStep ==
    ASSUME Typed, AuthSound,
           \/ AuthRests /\ lastSeen' \in {lastSeen, now}
           \/ AuthNotes /\ lastSeen' = now
           \/ AuthGoes /\ lastSeen' = 0
    PROVE  AuthSound' /\ failures' \in Seq(Nat) /\ log'["bruteForce"] \in Seq(Entries)
<1> DEFINE h == log["bruteForce"]
           heard == Heard("bruteForce")
<1>1. /\ now \in Nat \ {0} /\ lastSeen \in Nat /\ lastSeen <= now /\ failures \in Seq(Nat)
      /\ h \in Seq(Entries) /\ heard \in Seq(Entries)
  BY Names, HeardIs DEF Typed
<1>2. CASE AuthRests /\ lastSeen' \in {lastSeen, now}
  <2>1. /\ failures' = failures /\ log'["bruteForce"] = log["bruteForce"]
        /\ Heard("bruteForce")' = Heard("bruteForce")
        /\ ("bruteForce" \in tripped') = ("bruteForce" \in tripped)
    BY <1>2 DEF AuthRests, Untouched, Heard
  <2>2. \A k \in 1..Len(failures') : failures'[k] <= lastSeen'
    <3> SUFFICES ASSUME NEW k \in 1..Len(failures) PROVE failures[k] <= lastSeen'
      BY <2>1
    <3>1. failures[k] \in Nat /\ failures[k] <= lastSeen
      BY <1>1 DEF AuthSound
    <3>. QED BY <1>1, <1>2, <3>1
  <2>3. \A k \in 1..Len(log'["bruteForce"]) : log'["bruteForce"][k].at <= lastSeen'
    <3> SUFFICES ASSUME NEW k \in 1..Len(h) PROVE h[k].at <= lastSeen'
      BY <2>1
    <3>1. h[k] \in Entries /\ h[k].at <= lastSeen
      BY <1>1 DEF AuthSound
    <3>2. h[k].at \in Nat
      BY <3>1 DEF Entries
    <3>. QED BY <1>1, <1>2, <3>1, <3>2
  <2>. QED BY <1>1, <2>1, <2>2, <2>3 DEF AuthSound
<1>3. CASE AuthNotes /\ lastSeen' = now
  <2> DEFINE e == [what |-> "denied", at |-> now]
             g == Append(heard, e)
             f == Failed(now)
  <2>1. e \in Entries /\ e.at = now
    BY <1>1 DEF Entries, Words
  <2>2. /\ \A k \in 1..Len(failures) : failures[k] <= now
        /\ \A k \in 1..Len(heard) : heard[k].at <= now
    <3>1. ASSUME NEW k \in 1..Len(failures) PROVE failures[k] <= now
      <4>1. failures[k] \in Nat /\ failures[k] <= lastSeen
        BY <1>1 DEF AuthSound
      <4>. QED BY <1>1, <4>1
    <3>2. ASSUME NEW k \in 1..Len(heard) PROVE heard[k].at <= now
      <4>1. heard = h /\ k \in 1..Len(h)
        BY DEF Heard
      <4>2. h[k] \in Entries /\ h[k].at <= lastSeen
        BY <1>1, <4>1 DEF AuthSound
      <4>3. h[k].at \in Nat
        BY <4>2 DEF Entries
      <4>. QED BY <1>1, <4>1, <4>2, <4>3
    <3>. QED BY <3>1, <3>2
  <2>3. /\ f \in Seq(Nat) /\ \A k \in 1..Len(f) : f[k] <= now
        /\ WindowAgrees(f, g) /\ Cardinality(Inside(g)) = Len(f)
    <3>1. WindowAgrees(failures, heard)
      BY DEF AuthSound
    <3> HIDE DEF e, heard
    <3>. QED BY <1>1, <2>1, <2>2, <3>1, FailedAgrees
  <2>4. /\ g \in Seq(Entries) /\ g # <<>>
        /\ \A k \in 1..Len(g) : g[k].at <= now
    <3> HIDE DEF e, heard
    <3>1. /\ g \in Seq(Entries) /\ g # <<>> /\ Len(g) = Len(heard) + 1
          /\ g[Len(heard) + 1] = e /\ \A k \in 1..Len(heard) : g[k] = heard[k]
      BY <1>1, <2>1
    <3>2. ASSUME NEW k \in 1..Len(g) PROVE g[k].at <= now
      <4>1. CASE k = Len(heard) + 1
        BY <1>1, <2>1, <3>1, <4>1
      <4>2. CASE k # Len(heard) + 1
        <5>1. k \in 1..Len(heard)
          BY <1>1, <3>1, <4>2
        <5>. QED BY <2>2, <3>1, <5>1
      <4>. QED BY <4>1, <4>2
    <3>. QED BY <3>1, <3>2
  <2>5. log'["bruteForce"] = g
    BY <1>3 DEF AuthNotes, Told1
  <2> HIDE DEF g, f
  <2>6. \A k \in 1..Len(log'["bruteForce"]) : log'["bruteForce"][k].at <= lastSeen'
    BY <1>3, <2>4, <2>5
  <2>7. CASE Len(f) >= Capacity["bruteForce"]
    <3>1. failures' = <<>> /\ "bruteForce" \in tripped' /\ Heard("bruteForce")' = <<>>
      BY <1>3, <2>7 DEF AuthNotes, Heard, f
    <3>2. WindowAgrees(<<>>, <<>>)
      BY DEF WindowAgrees, InOrder
    <3>3. "bruteForce" \in tripped' <=> Cardinality(Inside(g)) >= Capacity["bruteForce"]
      BY <2>3, <2>7, <3>1
    <3>4. failures' \in Seq(Nat) /\ \A k \in 1..Len(failures') : failures'[k] <= lastSeen'
      BY <3>1
    <3>. QED BY <2>4, <2>5, <2>6, <3>1, <3>2, <3>3, <3>4 DEF AuthSound
  <2>8. CASE ~(Len(f) >= Capacity["bruteForce"])
    <3>1. failures' = f /\ "bruteForce" \notin tripped' /\ Heard("bruteForce")' = g
      BY <1>3, <2>5, <2>8 DEF AuthNotes, Heard, f
    <3>2. "bruteForce" \in tripped' <=> Cardinality(Inside(g)) >= Capacity["bruteForce"]
      BY <2>3, <2>8, <3>1
    <3>3. failures' \in Seq(Nat) /\ \A k \in 1..Len(failures') : failures'[k] <= lastSeen'
      BY <1>3, <2>3, <3>1
    <3>. QED BY <2>3, <2>4, <2>5, <2>6, <3>1, <3>2, <3>3 DEF AuthSound
  <2>. QED BY <2>7, <2>8
<1>4. CASE AuthGoes /\ lastSeen' = 0
  <2>1. failures' = <<>> /\ log'["bruteForce"] = <<>> /\ Heard("bruteForce")' = <<>>
    BY <1>4 DEF AuthGoes, Forgotten, Heard
  <2>2. WindowAgrees(<<>>, <<>>)
    BY DEF WindowAgrees, InOrder
  <2>. QED BY <2>1, <2>2 DEF AuthSound
<1>. QED BY <1>2, <1>3, <1>4

LEMMA FreshRate == RateAgrees(NoTokens, <<>>) /\ RefusedRightly(<<>>)
<1>1. Burst * Token \in Nat
  BY Rates
<1>. QED BY <1>1 DEF RateAgrees, RefusedRightly, NoTokens

\* The token bucket in a step.
LEMMA RateStep ==
    ASSUME Typed, RateSound,
           \/ RateRests /\ lastSeen' \in {lastSeen, now}
           \/ (RatePasses \/ RateRefuses) /\ lastSeen' = now
           \/ RateGoes /\ lastSeen' = 0
    PROVE  /\ RateSound' /\ tokens' \in [left : Nat, at : Nat]
           /\ log'["rateAbuse"] \in Seq(Charges)
<1> DEFINE r == log["rateAbuse"]
<1>1. /\ now \in Nat \ {0} /\ lastSeen \in Nat /\ lastSeen <= now
      /\ tokens \in [left : Nat, at : Nat] /\ r \in Seq(Charges)
      /\ tokens.at <= lastSeen /\ tokens.at <= now /\ RateAgrees(tokens, r)
  <2>1. /\ now \in Nat \ {0} /\ lastSeen \in Nat /\ lastSeen <= now
        /\ tokens \in [left : Nat, at : Nat] /\ r \in Seq(Charges)
        /\ tokens.at <= lastSeen /\ RateAgrees(tokens, r)
    BY DEF Typed, RateSound
  <2>. QED BY <2>1
<1>2. CASE RateRests /\ lastSeen' \in {lastSeen, now}
  <2>1. tokens' = tokens /\ log'["rateAbuse"] = r
    BY <1>2 DEF RateRests
  <2>2. tokens'.at <= lastSeen'
    BY <1>1, <1>2, <2>1
  <2>. QED BY <1>1, <2>1, <2>2 DEF RateSound
<1>3. ASSUME NEW what \in BOOLEAN, NEW l,
             \/ what /\ Left >= 0 /\ l = Left
             \/ ~what /\ Left < 0 /\ l = 0,
             tokens' = [left |-> l, at |-> now], lastSeen' = now,
             log'["rateAbuse"] = Append(r, [what |-> what, at |-> now])
      PROVE  /\ RateSound' /\ tokens' \in [left : Nat, at : Nat]
             /\ log'["rateAbuse"] \in Seq(Charges)
  <2> DEFINE g == Append(r, [what |-> what, at |-> now])
  <2>1. l \in Nat /\ RateAgrees([left |-> l, at |-> now], g) /\ RefusedRightly(g)
    BY <1>1, <1>3, RateNoted
  <2>2. g \in Seq(Charges)
    <3>1. [what |-> what, at |-> now] \in Charges
      BY <1>1 DEF Charges
    <3> HIDE DEF r
    <3>. QED BY <1>1, <3>1
  <2>3. tokens'.at <= lastSeen' /\ tokens' \in [left : Nat, at : Nat]
    BY <1>1, <1>3, <2>1
  <2> HIDE DEF g
  <2>4. log'["rateAbuse"] = g
    BY <1>3 DEF g
  <2>. QED BY <1>3, <2>1, <2>2, <2>3, <2>4 DEF RateSound
<1>4. CASE RatePasses /\ lastSeen' = now
  BY <1>3, <1>4, Zenon DEF RatePasses
<1>5. CASE RateRefuses /\ lastSeen' = now
  BY <1>3, <1>5, Zenon DEF RateRefuses
<1>6. CASE RateGoes /\ lastSeen' = 0
  <2>1. tokens' = NoTokens /\ log'["rateAbuse"] = <<>>
    BY <1>6 DEF RateGoes
  <2>2. NoTokens \in [left : Nat, at : Nat] /\ NoTokens.at = 0 /\ <<>> \in Seq(Charges)
    BY DEF NoTokens
  <2>. QED BY <1>6, <2>1, <2>2, FreshRate DEF RateSound
<1>. QED BY <1>2, <1>4, <1>5, <1>6

-----------------------------------------------------------------------------
(* The invariant holds. *)

IInv == Typed /\ Sound

LEMMA SoundAtFirst == Init => IInv
<1> SUFFICES ASSUME Init PROVE IInv
  OBVIOUS
<1>1. /\ now = 1 /\ lastSeen = 0 /\ failures = <<>> /\ tokens = NoTokens /\ tripped = {}
      /\ bucket = [d \in Buckets |-> EmptyBucket] /\ log = [d \in Detecting |-> <<>>]
  BY DEF Init
<1>2. /\ EmptyBucket \in Levels /\ EmptyBucket.at = 0 /\ EmptyBucket.seen = {}
      /\ EmptyBucket.level = 0
  BY DEF Levels, EmptyBucket
<1>3. "rateAbuse" \in Detecting
  BY DEF Detecting
<1>4. Typed
  <2>1. NoTokens \in [left : Nat, at : Nat]
    BY DEF NoTokens
  <2>2. now \in Nat \ {0} /\ lastSeen \in Nat /\ lastSeen <= now /\ failures \in Seq(Nat)
    BY <1>1
  <2>3. bucket \in [Buckets -> Levels]
    BY <1>1, <1>2
  <2>4. \A d \in Detecting : log[d] = <<>>
    BY <1>1
  <2>. QED BY <1>1, <1>3, <2>1, <2>2, <2>3, <2>4 DEF Typed
<1>5. ASSUME NEW d \in Buckets PROVE BucketSound(d)
  <2>1. bucket[d] = EmptyBucket /\ log[d] = <<>> /\ d \notin tripped /\ Heard(d) = <<>>
    BY <1>1, Names DEF Heard
  <2>2. Agrees(d, EmptyBucket, <<>>) /\ QuickAreFew(d, <<>>)
    BY <1>2, FreshAgrees
  <2>. QED BY <1>1, <1>2, <2>1, <2>2 DEF BucketSound
<1>6. AuthSound
  <2>1. log["bruteForce"] = <<>> /\ Heard("bruteForce") = <<>>
    BY <1>1, Names DEF Heard
  <2>2. WindowAgrees(<<>>, <<>>)
    BY DEF WindowAgrees, InOrder
  <2>. QED BY <1>1, <2>1, <2>2 DEF AuthSound
<1>7. RateSound
  <2>1. log["rateAbuse"] = <<>> /\ tokens.at = 0
    BY <1>1, <1>3 DEF NoTokens
  <2>. QED BY <1>1, <2>1, FreshRate DEF RateSound
<1>. QED BY <1>4, <1>5, <1>6, <1>7 DEF IInv, Sound

LEMMA SoundAtNext == IInv /\ [Next]_vars => IInv'
<1> SUFFICES ASSUME IInv, [Next]_vars PROVE IInv'
  OBVIOUS
<1>1. Typed /\ (\A d \in Buckets : BucketSound(d)) /\ AuthSound /\ RateSound
  BY DEF IInv, Sound
<1>2. /\ now \in Nat \ {0} /\ lastSeen \in Nat /\ lastSeen <= now
      /\ bucket \in [Buckets -> Levels]
  BY <1>1 DEF Typed
<1>3. CallStep \/ ForgetStep \/ IdleStep
  BY <1>1, Steps
<1>4. now' \in Nat \ {0} /\ lastSeen' \in Nat /\ lastSeen' <= now'
  BY <1>2, <1>3 DEF CallStep, ForgetStep, IdleStep
<1>5. ASSUME NEW d \in Buckets
      PROVE  BucketSound(d)' /\ bucket'[d] \in Levels /\ log'[d] \in Seq(Entries)
  <2>1. \/ BucketRests(d) /\ lastSeen' \in {lastSeen, now}
        \/ (\E item \in Words : BucketNotes(d, item)) /\ lastSeen' = now
        \/ BucketGoes(d) /\ lastSeen' = 0
    BY <1>3, Zenon DEF CallStep, ForgetStep, IdleStep
  <2>. QED BY <1>1, <2>1, BucketStep
<1>6. AuthSound' /\ failures' \in Seq(Nat) /\ log'["bruteForce"] \in Seq(Entries)
  <2>1. \/ AuthRests /\ lastSeen' \in {lastSeen, now}
        \/ AuthNotes /\ lastSeen' = now
        \/ AuthGoes /\ lastSeen' = 0
    BY <1>3, Zenon DEF CallStep, ForgetStep, IdleStep
  <2>. QED BY <1>1, <2>1, AuthStep
<1>7. RateSound' /\ tokens' \in [left : Nat, at : Nat] /\ log'["rateAbuse"] \in Seq(Charges)
  <2>1. \/ RateRests /\ lastSeen' \in {lastSeen, now}
        \/ (RatePasses \/ RateRefuses) /\ lastSeen' = now
        \/ RateGoes /\ lastSeen' = 0
    BY <1>3, Zenon DEF CallStep, ForgetStep, IdleStep
  <2>. QED BY <1>1, <2>1, RateStep
<1>8. bucket' \in [Buckets -> Levels]
  <2>1. bucket' = [d \in Buckets |-> bucket'[d]]
    BY <1>1 DEF Typed, Next, Request, Response, Sweep, Forget, Tick, NoRecord, vars, record
  <2>. QED BY <1>5, <2>1
<1>9. Typed'
  <2>1. \A d \in Detecting \ {"rateAbuse"} : log'[d] \in Seq(Entries)
    BY <1>5, <1>6, Names
  <2>. QED BY <1>4, <1>6, <1>7, <1>8, <2>1 DEF Typed
<1>. QED BY <1>5, <1>6, <1>7, <1>9 DEF IInv, Sound

THEOREM DetectorsAreSound == Spec => []IInv
BY SoundAtFirst, SoundAtNext, PTL DEF Spec

-----------------------------------------------------------------------------
(* The properties. *)

\* A hit of the failing paths or of the user agents takes as many distinct items as the
\* capacity says, told since the last hit (distinctBucket.note), however many calls there
\* were, in what order, and whatever leaked, was forgotten or was unbanned in between.
THEOREM OnlyDistinctItemsAreHits == Spec => []OnlyDistinctItemsTrip
<1>1. IInv => OnlyDistinctItemsTrip
  BY DEF IInv, Sound, BucketSound, OnlyDistinctItemsTrip, Told, Named
<1>. QED BY <1>1, DetectorsAreSound, PTL

\* No scan that brings the capacity's worth of new items within half a leak passes
\* distinctBucket.note without a hit, whatever the bucket held when it began.
THEOREM QuickScansAreHits == Spec => []QuickScansTrip
<1>1. IInv => QuickScansTrip
  <2> SUFFICES ASSUME IInv, NEW d \in Buckets \ tripped, NEW i \in DOMAIN log[d],
                      NEW j \in DOMAIN log[d],
                      i <= j, 2 * (log[d][j].at - log[d][i].at) <= Leak[d]
               PROVE  Cardinality(Told(d, i, j) \ Told(d, 1, i - 1)) < Capacity[d]
    BY DEF QuickScansTrip
  <2>1. log[d] \in Seq(Entries) /\ QuickAreFew(d, log[d])
    BY Names DEF IInv, Typed, Sound, BucketSound, Heard
  <2>2. i \in 1..Len(log[d]) /\ j \in 1..Len(log[d])
    BY <2>1
  <2>3. Cardinality(New(log[d], i, j)) < Capacity[d]
    BY <2>1, <2>2 DEF QuickAreFew
  <2>4. New(log[d], i, j) = Told(d, i, j) \ Told(d, 1, i - 1)
    BY DEF New, Named, Told
  <2>. QED BY <2>3, <2>4
<1>. QED BY <1>1, DetectorsAreSound, PTL

\* noteAuthFailure keeps only what is inside the window and starts over after a hit, yet
\* its answer is the one the whole history since the last hit would give.
THEOREM AuthWindowIsKept == Spec => []AuthWindowIsExact
<1>1. IInv => AuthWindowIsExact
  <2>1. SUFFICES ASSUME IInv, log["bruteForce"] # <<>>
                 PROVE  "bruteForce" \in tripped <=>
                           Cardinality(Inside(log["bruteForce"])) >= Capacity["bruteForce"]
    BY Zenon DEF AuthWindowIsExact, Inside
  <2>. QED BY <2>1, Zenon DEF IInv, Sound, AuthSound
<1>. QED BY <1>1, DetectorsAreSound, PTL

\* noteRequest lets no more pass in any span than the burst and what rps gives back in
\* it, and refuses only what ends a span that had more requests than that.
THEOREM RateIsFair == Spec => []RateIsKept
<1>1. IInv => RateIsKept
  <2> DEFINE r == log["rateAbuse"]
             n == Len(r)
  <2>1. SUFFICES ASSUME IInv, n > 0
        PROVE  /\ \A i \in 1..n : Token * Cardinality({k \in i..n : r[k].what}) <=
                                     Burst * Token + Refill * (r[n].at - r[i].at)
               /\ ~r[n].what => \E i \in 1..n :
                     Token * (n - i + 1) > Burst * Token + Refill * (r[n].at - r[i].at)
    BY DEF RateIsKept
  <2>2. /\ r \in Seq(Charges) /\ tokens \in [left : Nat, at : Nat] /\ RateAgrees(tokens, r)
        /\ RefusedRightly(r) /\ r # <<>>
    BY <2>1 DEF IInv, Typed, Sound, RateSound
  <2>3. ASSUME NEW i \in 1..n PROVE Token * Cardinality(Passed(r, i, n)) <= Allowed(r, i)
    <3> DEFINE p == Cardinality(Passed(r, i, n))
               x == r[n].at - r[i].at
               l == tokens.left
    <3>1. Token * p + l <= Allowed(r, i)
      BY <2>2 DEF RateAgrees
    <3>2. p \in Nat
      <4>1. n \in Int /\ i \in Int
        BY <2>2
      <4>2. IsFiniteSet(i..n)
        BY <4>1, FS_Interval
      <4>3. Passed(r, i, n) \subseteq i..n
        BY DEF Passed
      <4>. QED BY <4>2, <4>3, FS_Subset, FS_CardinalityType
    <3>3. x \in Int /\ l \in Nat
      <4>1. r[n] \in Charges /\ r[i] \in Charges
        BY <2>1, <2>2
      <4>. QED BY <2>2, <4>1 DEF Charges
    <3>4. Allowed(r, i) = Burst * Token + Refill * x
      BY DEF Allowed
    <3> HIDE DEF p, x, l
    <3>5. Token * p \in Int /\ Burst * Token \in Int /\ Refill * x \in Int
      BY <3>2, <3>3, Rates
    <3> DEFINE m == Token * p
               a == Allowed(r, i)
    <3>6. m \in Int /\ a \in Int /\ m + l <= a
      BY <3>1, <3>4, <3>5
    <3> HIDE DEF m, a
    <3>7. m <= a
      BY <3>3, <3>6
    <3>. QED BY <3>7 DEF m, a, p
  <2>. QED BY <2>2, <2>3 DEF RefusedRightly, Passed, Allowed
<1>. QED BY <1>1, DetectorsAreSound, PTL

\* Idle covers the leak, the window and the refill: the level of a bucket that is not
\* full leaks in it, a failure ages out, and an empty token bucket fills up.
IdleCovers ==
    /\ \A d \in Buckets : Full(d) <= 2 * Idle
    /\ AuthWindow <= Idle
    /\ Burst * Token <= Refill * Idle

\* With a retention that long the janitor's sweep of a source on no rung
\* takes nothing from a detector: what it drops had drained, aged out and refilled.
THEOREM SweepIsHarmless ==
    ASSUME IdleCovers
    PROVE  Spec => SweepKeepsDetection
<1>1. IInv /\ Sweep => Forgettable
  <2> SUFFICES ASSUME IInv, Sweep PROVE Forgettable
    OBVIOUS
  <2>1. /\ now \in Nat \ {0} /\ lastSeen \in Nat /\ Idle \in Nat /\ lastSeen < now - Idle
        /\ AuthWindow \in Nat
    BY DetectorsAssumption DEF IInv, Typed, Sweep
  <2>2. ASSUME NEW d \in Buckets PROVE Drained(d, now) = EmptyBucket
    <3> DEFINE b == bucket[d]
    <3>1. /\ b \in Levels /\ b.at <= lastSeen /\ InStep(d, b, Heard(d))
          /\ Heard(d) \in Seq(Entries)
      BY Names, HeardIs DEF IInv, Typed, Sound, BucketSound, Agrees
    <3>2. b.level \in Nat /\ b.at \in Nat /\ b.level < Full(d) /\ Full(d) \in Nat
      BY <3>1, Parameters DEF Levels, InStep
    <3>3. CASE b.at = 0
      <4>1. Heard(d) = <<>>
        <5> SUFFICES ASSUME Heard(d) # <<>> PROVE FALSE
          OBVIOUS
        <5>1. b.at = Heard(d)[Len(Heard(d))].at /\ Heard(d)[Len(Heard(d))] \in Entries
          BY <3>1 DEF InStep
        <5>. QED BY <3>3, <5>1 DEF Entries
      <4>2. b.seen = {} /\ b.level = 0
        BY <3>1, <4>1 DEF InStep
      <4>3. b = EmptyBucket
        BY <3>1, <3>3, <4>2 DEF Levels, EmptyBucket
      <4>. QED BY <3>3, <4>3 DEF Drained
    <3>4. CASE b.at # 0
      <4>1. Full(d) <= 2 * Idle
        BY DEF IdleCovers
      <4>2. b.level - 2 * (now - b.at) <= 0
        BY <2>1, <3>1, <3>2, <4>1
      <4>. QED BY <3>4, <4>2 DEF Drained
    <3>. QED BY <3>3, <3>4
  <2>3. ASSUME NEW k \in DOMAIN failures PROVE failures[k] <= now - AuthWindow
    <3>1. failures \in Seq(Nat) /\ k \in 1..Len(failures)
      BY DEF IInv, Typed
    <3>2. failures[k] \in Nat /\ failures[k] <= lastSeen
      BY <3>1 DEF IInv, Sound, AuthSound
    <3>3. AuthWindow <= Idle
      BY DEF IdleCovers
    <3>. QED BY <2>1, <3>2, <3>3
  <2>4. Refilled(now) = Burst * Token
    <3> DEFINE t == tokens.at
               l == tokens.left
               full == Burst * Token
               x == now - t
    <3>1. t \in Nat /\ l \in Nat /\ t <= lastSeen
      BY DEF IInv, Typed, Sound, RateSound
    <3>2. x \in Nat /\ Idle <= x
      BY <2>1, <3>1
    <3>3. Refilled(now) = IF t = 0 \/ l + Refill * x > full THEN full ELSE l + Refill * x
      BY DEF Refilled
    <3>4. full \in Nat /\ full <= Refill * Idle
      BY Rates DEF IdleCovers
    <3> HIDE DEF t, l, full, x
    <3>5. Refill * Idle <= Refill * x /\ Refill * x \in Int /\ Refill * Idle \in Int
      BY <2>1, <3>2, Rates, Multiples
    <3> DEFINE y == Refill * x
               z == Refill * Idle
    <3>6. y \in Int /\ z \in Int /\ z <= y /\ full <= z
      BY <3>4, <3>5
    <3> HIDE DEF y, z
    <3>7. l + y > full \/ l + y = full
      BY <3>1, <3>4, <3>6
    <3>. QED BY <3>3, <3>7 DEF y, full
  <2>. QED BY <2>2, <2>3, <2>4 DEF Forgettable
<1>2. IInv /\ [Next]_vars => [Sweep => Forgettable]_vars
  BY <1>1
<1>. QED BY <1>2, DetectorsAreSound, PTL DEF Spec, SweepKeepsDetection
=============================================================================
