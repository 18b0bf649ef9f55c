---------------------------- MODULE ConsoleProofs ----------------------------
(* What the console shows and what it changes.  The event log answers with the *)
(* newest events and the feed skips none, for rings and pages of any length    *)
(* and any number of requests under way; the edits of the rules stay in force  *)
(* and come back after a restart, for any sections, reloads, edits and         *)
(* replicas.  Each part stands alone.                                          *)
EXTENDS ConsoleFeed, ConsoleRules, WellFoundedInduction, TLAPS

-----------------------------------------------------------------------------
(* The event log and the feed.  Induction over the natural numbers, in terms of sets. *)

\* The least natural number of a set.
LEMMA LeastNat ==
    ASSUME NEW T, T \subseteq Nat, T # {}
    PROVE  \E m \in T : \A n \in T : m <= n
<1>1. IsWellFoundedOn(OpToRel(<, Nat), Nat)
  BY NatLessThanWellFounded
<1>2. PICK m \in T : \A n \in T : ~(<<n, m>> \in OpToRel(<, Nat))
  BY <1>1, WFMin
<1>3. \A n \in T : ~(<<n, m>> \in {p \in Nat \X Nat : p[1] < p[2]})
  BY <1>2, Zenon DEF OpToRel
<1>4. ASSUME NEW n \in T
      PROVE  m <= n
  <2>1. m \in Nat /\ n \in Nat
    OBVIOUS
  <2>2. ~(<<n, m>>[1] < <<n, m>>[2])
    BY <1>3, <2>1, Zenon
  <2>. QED BY <2>1, <2>2
<1>. QED BY <1>4

\* A set that holds 0 and with every number below N the next one holds N.
LEMMA UpTo ==
    ASSUME NEW S, NEW N \in Nat, 0 \in S, \A n \in 0..(N - 1) : n \in S => n + 1 \in S
    PROVE  \A n \in 0..N : n \in S
<1>1. SUFFICES ASSUME 0..N \ S # {}
               PROVE  FALSE
  OBVIOUS
<1>2. PICK m \in 0..N \ S : \A n \in 0..N \ S : m <= n
  <2>1. 0..N \ S \subseteq Nat
    OBVIOUS
  <2> QED BY <1>1, <2>1, LeastNat
<1>3. m # 0 /\ m - 1 \in 0..(N - 1)
  BY <1>2
<1>4. m - 1 \in S
  BY <1>2, <1>3
<1>. QED BY <1>2, <1>3, <1>4

-----------------------------------------------------------------------------
(* What Picked returns. *)

LEMMA SameSequence ==
    ASSUME NEW E, NEW s \in Seq(E), NEW t \in Seq(E), Len(s) = Len(t),
           \A i \in 1..Len(s) : s[i] = t[i]
    PROVE  s = t
<1>1. s = [i \in 1..Len(s) |-> s[i]] /\ t = [i \in 1..Len(t) |-> t[i]]
  OBVIOUS
<1> QED BY <1>1

\* The recursion of Picked, as the equation of a function and step by step.
Picks(f, s, P) ==
    f = [i \in 0..Len(s) |-> IF i = 0 THEN <<>>
                             ELSE IF i \in P THEN Append(f[i - 1], s[i]) ELSE f[i - 1]]
PicksTo(f, s, P, n) ==
    /\ f[0] = <<>>
    /\ \A i \in 1..n : f[i] = IF i \in P THEN Append(f[i - 1], s[i]) ELSE f[i - 1]

\* The recursion has one solution.
LEMMA PickedIs ==
    ASSUME NEW E, NEW s \in Seq(E), NEW P, NEW g, PicksTo(g, s, P, Len(s))
    PROVE  Picked(s, P) = g[Len(s)]
<1> DEFINE h == [i \in 0..Len(s) |-> g[i]]
           f == CHOOSE f : Picks(f, s, P)
<1>0. Len(s) \in Nat
  OBVIOUS
<1>1. Picks(h, s, P)
  <2>1. ASSUME NEW i \in 0..Len(s)
        PROVE  h[i] = IF i = 0 THEN <<>>
                      ELSE IF i \in P THEN Append(h[i - 1], s[i]) ELSE h[i - 1]
    <3>1. i # 0 => i - 1 \in 0..Len(s) /\ i \in 1..Len(s)
      BY <1>0
    <3> QED BY <3>1 DEF PicksTo
  <2> HIDE DEF h
  <2>2. h = [i \in 0..Len(s) |-> h[i]]
    BY DEF h
  <2> QED BY <2>1, <2>2 DEF Picks
<1>2. Picks(f, s, P)
  <2> HIDE DEF h
  <2> QED BY <1>1
<1>3. Picked(s, P) = f[Len(s)]
  BY Zenon DEF Picked, Picks
<1> HIDE DEF f, h
<1> DEFINE Same == {n \in 0..Len(s) : f[n] = g[n]}
<1>4. 0 \in Same
  BY <1>0, <1>2 DEF Picks, PicksTo
<1>5. ASSUME NEW n \in 0..(Len(s) - 1), n \in Same
      PROVE  n + 1 \in Same
  <2>1. n + 1 \in 1..Len(s) /\ n + 1 \in 0..Len(s) /\ (n + 1) - 1 = n /\ n + 1 # 0
    BY <1>0
  <2>2. f[n + 1] = IF n + 1 \in P THEN Append(f[n], s[n + 1]) ELSE f[n]
    BY <1>2, <2>1 DEF Picks
  <2>3. g[n + 1] = IF n + 1 \in P THEN Append(g[n], s[n + 1]) ELSE g[n]
    BY <2>1 DEF PicksTo
  <2> QED BY <1>5, <2>1, <2>2, <2>3
<1>6. Len(s) \in Same
  <2> HIDE DEF Same
  <2>1. \A n \in 0..(Len(s) - 1) : n \in Same => n + 1 \in Same
    BY <1>5
  <2>2. \A n \in 0..Len(s) : n \in Same
    BY <1>0, <1>4, <2>1, UpTo
  <2> QED BY <1>0, <2>2
<1> QED BY <1>3, <1>6

\* It has a solution, of sequences.
LEMMA PickingExists ==
    ASSUME NEW E, NEW s \in Seq(E), NEW P
    PROVE  \E g : PicksTo(g, s, P, Len(s)) /\ \A i \in 0..Len(s) : g[i] \in Seq(E)
<1> DEFINE Good(g, n) == PicksTo(g, s, P, n) /\ \A i \in 0..n : g[i] \in Seq(E)
           Some == {n \in 0..Len(s) : \E g : Good(g, n)}
<1>0. Len(s) \in Nat
  OBVIOUS
<1>1. 0 \in Some
  <2> DEFINE g == [i \in {0} |-> <<>>]
  <2>1. g[0] = <<>> /\ 0..0 = {0} /\ 1..0 = {} /\ <<>> \in Seq(E)
    OBVIOUS
  <2>2. Good(g, 0)
    BY <2>1 DEF PicksTo
  <2> HIDE DEF g, Good
  <2> QED BY <1>0, <2>2
<1>2. ASSUME NEW n \in 0..(Len(s) - 1), n \in Some
      PROVE  n + 1 \in Some
  <2>1. PICK g : Good(g, n)
    BY <1>2
  <2>2. n + 1 \in 1..Len(s) /\ n + 1 \in 0..Len(s) /\ n \in 0..n /\ n \in Nat
    BY <1>0
  <2> DEFINE last == IF n + 1 \in P THEN Append(g[n], s[n + 1]) ELSE g[n]
             h == [i \in 0..(n + 1) |-> IF i <= n THEN g[i] ELSE last]
  <2>3. last \in Seq(E) /\ s[n + 1] \in E
    BY <2>1, <2>2
  <2> HIDE DEF last
  <2>4. /\ \A i \in 0..n : h[i] = g[i]
        /\ h[n + 1] = last
    BY <2>2
  <2> HIDE DEF h
  <2>5. ASSUME NEW i \in 1..(n + 1)
        PROVE  h[i] = IF i \in P THEN Append(h[i - 1], s[i]) ELSE h[i - 1]
    <3>1. CASE i \in 1..n
      <4>1. i - 1 \in 0..n /\ i \in 0..n
        BY <2>2, <3>1
      <4> QED BY <2>1, <2>4, <3>1, <4>1 DEF PicksTo
    <3>2. CASE i = n + 1
      <4>1. i - 1 = n
        BY <2>2, <3>2
      <4> QED BY <2>2, <2>4, <3>2, <4>1 DEF last
    <3> QED BY <2>2, <3>1, <3>2
  <2>6. h[0] = <<>>
    BY <2>1, <2>2, <2>4 DEF PicksTo
  <2>7. \A i \in 0..(n + 1) : h[i] \in Seq(E)
    <3>1. \A i \in 0..(n + 1) : i \in 0..n \/ i = n + 1
      BY <2>2
    <3> QED BY <2>1, <2>3, <2>4, <3>1
  <2>8. Good(h, n + 1)
    BY <2>5, <2>6, <2>7 DEF PicksTo
  <2> HIDE DEF Good
  <2> QED BY <2>2, <2>8
<1>3. Len(s) \in Some
  <2> HIDE DEF Some
  <2>1. \A n \in 0..(Len(s) - 1) : n \in Some => n + 1 \in Some
    BY <1>2
  <2>2. \A n \in 0..Len(s) : n \in Some
    BY <1>0, <1>1, <2>1, UpTo
  <2> QED BY <1>0, <2>2
<1> QED BY <1>3

\* The elements picked from a sequence that grows.
LEMMA PickedAppend ==
    ASSUME NEW E, NEW s \in Seq(E), NEW e \in E, NEW P, NEW Q,
           \A i \in 1..Len(s) : i \in P <=> i \in Q
    PROVE  /\ Picked(s, P) \in Seq(E)
           /\ Picked(Append(s, e), Q) =
                 IF Len(s) + 1 \in Q THEN Append(Picked(s, P), e) ELSE Picked(s, P)
<1> DEFINE n == Len(s)
           t == Append(s, e)
<1>1. PICK g : PicksTo(g, s, P, Len(s)) /\ \A i \in 0..Len(s) : g[i] \in Seq(E)
  BY PickingExists
<1>2. Picked(s, P) = g[n]
  BY <1>1, PickedIs
<1>3. /\ n \in Nat /\ t \in Seq(E) /\ Len(t) = n + 1 /\ t[n + 1] = e
      /\ \A i \in 1..n : t[i] = s[i]
  OBVIOUS
<1> DEFINE last == IF n + 1 \in Q THEN Append(g[n], e) ELSE g[n]
           h == [i \in 0..(n + 1) |-> IF i <= n THEN g[i] ELSE last]
<1> HIDE DEF n, t, last
<1>4. /\ \A i \in 0..n : h[i] = g[i]
      /\ h[n + 1] = last
  BY <1>3
<1> HIDE DEF h
<1>5. ASSUME NEW i \in 1..(n + 1)
      PROVE  h[i] = IF i \in Q THEN Append(h[i - 1], t[i]) ELSE h[i - 1]
  <2>1. CASE i \in 1..n
    <3>1. i - 1 \in 0..n /\ i \in 0..n
      BY <1>3, <2>1
    <3>2. i \in P <=> i \in Q
      BY <2>1 DEF n
    <3>3. g[i] = IF i \in P THEN Append(g[i - 1], s[i]) ELSE g[i - 1]
      BY <1>1, <2>1 DEF PicksTo, n
    <3> QED BY <1>3, <1>4, <2>1, <3>1, <3>2, <3>3
  <2>2. CASE i = n + 1
    <3>1. i - 1 = n /\ n \in 0..n
      BY <1>3, <2>2
    <3> QED BY <1>3, <1>4, <2>2, <3>1 DEF last
  <2> QED BY <1>3, <2>1, <2>2
<1>6. h[0] = <<>>
  <2>1. 0 \in 0..n
    BY <1>3
  <2> QED BY <1>1, <1>4, <2>1 DEF PicksTo
<1>7. PicksTo(h, t, Q, Len(t))
  BY <1>3, <1>5, <1>6 DEF PicksTo
<1>8. Picked(t, Q) = last
  <2>1. Picked(t, Q) = h[Len(t)]
    BY <1>3, <1>7, PickedIs
  <2> QED BY <1>3, <1>4, <2>1
<1>9. g[n] \in Seq(E)
  <2>1. n \in 0..Len(s)
    BY <1>3 DEF n
  <2> QED BY <1>1, <2>1
<1> QED BY <1>2, <1>8, <1>9 DEF last, n, t

\* The elements of h from the one after lo up to hi.
Part(h, lo, hi) == [i \in 1..(hi - lo) |-> h[lo + i]]

LEMMA PartIs ==
    ASSUME NEW E, NEW h \in Seq(E), NEW lo \in 0..Len(h), NEW hi \in lo..Len(h)
    PROVE  /\ Part(h, lo, hi) \in Seq(E) /\ Len(Part(h, lo, hi)) = hi - lo
           /\ \A i \in 1..(hi - lo) : Part(h, lo, hi)[i] = h[lo + i]
<1>1. Len(h) \in Nat /\ hi - lo \in Nat
  OBVIOUS
<1>2. \A i \in 1..(hi - lo) : h[lo + i] \in E
  BY <1>1
<1> QED BY <1>1, <1>2 DEF Part

LEMMA ConcatIs ==
    ASSUME NEW E, NEW s \in Seq(E), NEW t \in Seq(E)
    PROVE  /\ s \o t \in Seq(E) /\ Len(s \o t) = Len(s) + Len(t)
           /\ \A i \in 1..Len(s) : (s \o t)[i] = s[i]
           /\ \A i \in 1..Len(t) : (s \o t)[Len(s) + i] = t[i]
<1> DEFINE u == s \o t
<1>1. u \in Seq(E) /\ Len(u) = Len(s) + Len(t) /\ Len(s) \in Nat /\ Len(t) \in Nat
  OBVIOUS
<1>2. \A i \in 1..Len(s) : u[i] = s[i]
  OBVIOUS
<1>3. ASSUME NEW i \in 1..Len(t) PROVE u[Len(s) + i] = t[i]
  <2>1. Len(s) + i \in 1..(Len(s) + Len(t)) /\ ~(Len(s) + i <= Len(s)) /\ Len(s) + i - Len(s) = i
    BY <1>1
  <2> QED BY <2>1
<1> QED BY <1>1, <1>2, <1>3

\* The elements picked from the end of a sequence.
LEMMA PickedEnd ==
    ASSUME NEW E, NEW s \in Seq(E), NEW P, NEW m \in 0..Len(s),
           \A i \in 1..Len(s) : i \in P <=> i > m
    PROVE  Picked(s, P) = Part(s, m, Len(s))
<1> DEFINE part(n) == [i \in 1..(n - m) |-> s[m + i]]
           g == [n \in 0..Len(s) |-> IF n <= m THEN <<>> ELSE part(n)]
<1>0. Len(s) \in Nat /\ m \in Nat /\ m <= Len(s)
  OBVIOUS
<1>1. part(m) = <<>>
  BY <1>0
<1>2. ASSUME NEW n \in 1..Len(s), n > m
      PROVE  part(n) = Append(part(n - 1), s[n])
  <2>1. part(n) \in Seq(E) /\ part(n - 1) \in Seq(E) /\ s[n] \in E
    BY <1>0, <1>2
  <2>2. Len(part(n)) = n - m /\ Len(part(n - 1)) = (n - 1) - m
    BY <1>0, <1>2
  <2>3. \A i \in 1..(n - m) : part(n)[i] = s[m + i]
    OBVIOUS
  <2>4. \A i \in 1..((n - 1) - m) : part(n - 1)[i] = s[m + i]
    OBVIOUS
  <2>5. m + (n - m) = n
    BY <1>0
  <2> HIDE DEF part
  <2> QED BY <1>0, <1>2, <2>1, <2>2, <2>3, <2>4, <2>5
<1>3. \A n \in 0..Len(s) : g[n] = IF n <= m THEN <<>> ELSE part(n)
  OBVIOUS
<1> HIDE DEF g, part
<1>4. ASSUME NEW i \in 1..Len(s)
      PROVE  g[i] = IF i \in P THEN Append(g[i - 1], s[i]) ELSE g[i - 1]
  <2>1. i - 1 \in 0..Len(s) /\ i \in 0..Len(s)
    BY <1>0
  <2>2. CASE i <= m
    BY <1>0, <1>3, <2>1, <2>2
  <2>3. CASE i > m
    <3>1. g[i - 1] = part(i - 1)
      <4>1. i - 1 <= m => i - 1 = m
        BY <1>0, <2>3
      <4> QED BY <1>1, <1>3, <2>1, <4>1
    <3>2. g[i] = part(i)
      BY <1>0, <1>3, <2>1, <2>3
    <3> QED BY <1>2, <2>3, <3>1, <3>2
  <2> QED BY <1>0, <2>2, <2>3
<1>5. g[0] = <<>>
  BY <1>0, <1>3
<1>6. PicksTo(g, s, P, Len(s))
  BY <1>4, <1>5 DEF PicksTo
<1>7. Picked(s, P) = g[Len(s)]
  BY <1>6, PickedIs
<1>8. g[Len(s)] = part(Len(s))
  <2>1. Len(s) <= m => Len(s) = m
    BY <1>0
  <2> QED BY <1>0, <1>1, <1>3, <2>1
<1> QED BY <1>7, <1>8 DEF part, Part

-----------------------------------------------------------------------------
(* The rings. *)

Event == [seq : Nat, kind : Kinds]
Ring  == [buf : [0..(Size - 1) -> Event \cup {NoEvent}], next : 0..(Size - 1), filled : BOOLEAN]

\* The ring holds the newest events of h.
RingHolds(ring, h) ==
    /\ ring \in Ring
    /\ ring.filled <=> Len(h) >= Size
    /\ ~ring.filled => ring.next = Len(h)
    /\ \A i \in 0..(Count(ring) - 1) : At(ring, i) = h[Len(h) - i]

LEMMA Remainder ==
    ASSUME NEW x \in 0..(2 * Size - 1)
    PROVE  x % Size = IF x < Size THEN x ELSE x - Size
<1>1. Size \in Nat \ {0}
  BY LogAssumption
<1> QED BY <1>1

\* Where the i-th newest event is.
Place(next, i) == IF i < next THEN next - 1 - i ELSE next - 1 - i + Size

LEMMA AtIs ==
    ASSUME NEW ring, ring.next \in 0..(Size - 1), NEW i \in 0..(Size - 1)
    PROVE  /\ At(ring, i) = ring.buf[Place(ring.next, i)]
           /\ Place(ring.next, i) \in 0..(Size - 1)
<1> DEFINE n == ring.next
           x == n - 1 - i + Size
<1>1. Size \in Nat \ {0} /\ n \in 0..(Size - 1)
  BY LogAssumption
<1>2. At(ring, i) = ring.buf[x % Size]
  BY DEF At
<1> HIDE DEF n
<1>3. x \in 0..(2 * Size - 1)
  BY <1>1
<1>4. x % Size = IF x < Size THEN x ELSE x - Size
  <2> HIDE DEF x
  <2> QED BY <1>3, Remainder
<1>5. x % Size = Place(n, i)
  <2>1. x < Size <=> ~(i < n)
    BY <1>1
  <2>2. x - Size = n - 1 - i
    BY <1>1
  <2> DEFINE r == x % Size
  <2>3. r = IF x < Size THEN x ELSE x - Size
    BY <1>4
  <2> HIDE DEF r
  <2>4. r = Place(n, i)
    BY <2>1, <2>2, <2>3 DEF Place
  <2> QED BY <2>4 DEF r
<1>6. Place(n, i) \in 0..(Size - 1)
  BY <1>1 DEF Place
<1> QED BY <1>2, <1>5, <1>6 DEF n

LEMMA CountIs ==
    ASSUME NEW ring, NEW h \in Seq(Event), RingHolds(ring, h)
    PROVE  /\ Count(ring) \in 0..Size
           /\ Count(ring) = IF Len(h) < Size THEN Len(h) ELSE Size
<1>1. Size \in Nat \ {0} /\ Len(h) \in Nat
  BY LogAssumption
<1>2. ring.next \in 0..(Size - 1)
  BY DEF RingHolds, Ring
<1> QED BY <1>1, <1>2 DEF RingHolds, Count

\* eventRing.add: the ring goes on holding the newest events.
LEMMA AddedHolds ==
    ASSUME NEW ring, NEW h \in Seq(Event), RingHolds(ring, h), NEW e \in Event
    PROVE  RingHolds(Added(ring, e), Append(h, e))
<1> DEFINE n == ring.next
           k == n + 1
           new == Added(ring, e)
           g == Append(h, e)
<1>0. Size \in Nat \ {0} /\ Len(h) \in Nat /\ n \in 0..(Size - 1)
  BY LogAssumption DEF RingHolds, Ring
<1>1. k % Size = IF k < Size THEN k ELSE 0
  <2>1. k \in 0..(2 * Size - 1)
    BY <1>0
  <2>2. k % Size = IF k < Size THEN k ELSE k - Size
    <3> HIDE DEF k
    <3> QED BY <2>1, Remainder
  <2>3. ~(k < Size) => k - Size = 0
    BY <1>0
  <2> HIDE DEF k
  <2> QED BY <2>2, <2>3
<1>2. /\ new.next = IF k < Size THEN k ELSE 0
      /\ new.filled <=> ring.filled \/ ~(k < Size)
      /\ new.buf = [ring.buf EXCEPT ![n] = e]
  <2>1. (k % Size = 0) <=> ~(k < Size)
    BY <1>0, <1>1
  <2>2. /\ new.next = k % Size
        /\ new.filled = (ring.filled \/ k % Size = 0)
        /\ new.buf = [ring.buf EXCEPT ![n] = e]
    BY DEF Added
  <2> QED BY <1>1, <2>1, <2>2
<1>3. new \in Ring
  <2>1. /\ ring.buf \in [0..(Size - 1) -> Event \cup {NoEvent}]
        /\ ring.filled \in BOOLEAN
    BY DEF RingHolds, Ring
  <2>2. k % Size \in 0..(Size - 1)
    BY <1>0, <1>1
  <2>3. [ring.buf EXCEPT ![n] = e] \in [0..(Size - 1) -> Event \cup {NoEvent}]
    BY <2>1
  <2>4. (ring.filled \/ k % Size = 0) \in BOOLEAN
    OBVIOUS
  <2> QED BY <2>2, <2>3, <2>4, Zenon DEF Added, Ring
<1>4. g \in Seq(Event) /\ Len(g) = Len(h) + 1 /\ g[Len(h) + 1] = e
      /\ \A i \in 1..Len(h) : g[i] = h[i]
  OBVIOUS
<1> HIDE DEF new, g
<1>5. (new.filled <=> Len(g) >= Size) /\ (~new.filled => new.next = Len(g))
  BY <1>0, <1>2, <1>4 DEF RingHolds
<1>6. Count(new) = IF Len(g) < Size THEN Len(g) ELSE Size
  BY <1>0, <1>4, <1>5 DEF Count
<1>7. Count(ring) = IF Len(h) < Size THEN Len(h) ELSE Size
  BY CountIs
<1>8. ASSUME NEW i \in 0..(Count(new) - 1)
      PROVE  At(new, i) = g[Len(g) - i]
  <2>1. i \in 0..(Size - 1) /\ new.next \in 0..(Size - 1) /\ i < Len(g)
    BY <1>0, <1>2, <1>4, <1>6, <1>8
  <2>2. At(new, i) = new.buf[Place(new.next, i)] /\ Place(new.next, i) \in 0..(Size - 1)
    BY <2>1, AtIs
  <2>3. CASE i = 0
    <3>1. Place(new.next, 0) = n
      BY <1>0, <1>2 DEF Place
    <3>2. new.buf[n] = e
      BY <1>0, <1>2 DEF RingHolds, Ring
    <3> QED BY <1>0, <1>4, <2>2, <2>3, <3>1, <3>2
  <2>4. CASE i > 0
    <3>1. i - 1 \in 0..(Size - 1) /\ i - 1 \in 0..(Count(ring) - 1)
      BY <1>0, <1>4, <1>6, <1>7, <2>1, <2>4
    <3>2. At(ring, i - 1) = ring.buf[Place(n, i - 1)]
      BY <1>0, <3>1, AtIs
    <3>3. Place(new.next, i) = Place(n, i - 1) /\ Place(n, i - 1) # n
      BY <1>0, <1>2, <2>1, <2>4, <3>1 DEF Place
    <3>4. new.buf[Place(n, i - 1)] = ring.buf[Place(n, i - 1)]
      <4>1. \A j \in 0..(Size - 1) : j # n => new.buf[j] = ring.buf[j]
        BY <1>2 DEF RingHolds, Ring
      <4> QED BY <2>2, <3>3, <4>1
    <3>5. At(ring, i - 1) = h[Len(h) - (i - 1)]
      BY <3>1 DEF RingHolds
    <3>6. Len(h) - (i - 1) = Len(g) - i /\ Len(g) - i \in 1..Len(h)
      BY <1>0, <1>4, <2>1, <2>4
    <3> QED BY <1>4, <2>2, <3>2, <3>3, <3>4, <3>5, <3>6
  <2> QED BY <2>1, <2>3, <2>4
<1>9. RingHolds(new, g)
  BY <1>3, <1>5, <1>8 DEF RingHolds, new
<1> QED BY <1>9 DEF new, g

LEMMA NewRingHolds == RingHolds(NewRing, <<>>)
<1>1. Size \in Nat \ {0}
  BY LogAssumption
<1>2. NewRing \in Ring
  BY <1>1 DEF NewRing, Ring
<1>3. NewRing.next = 0 /\ NewRing.filled = FALSE
  BY DEF NewRing
<1>4. Count(NewRing) = 0 /\ 0..(0 - 1) = {} /\ Len(<<>>) = 0
  BY <1>3 DEF Count
<1> QED BY <1>1, <1>2, <1>3, <1>4 DEF RingHolds

\* The newest of a part are the part from later on.
LEMMA NewestIs ==
    ASSUME NEW E, NEW h \in Seq(E), NEW lo \in 0..Len(h), NEW n \in Nat
    PROVE  Newest(Part(h, lo, Len(h)), n) =
               Part(h, IF Len(h) - lo > n THEN Len(h) - n ELSE lo, Len(h))
<1> DEFINE hi == Len(h)
           s == Part(h, lo, hi)
<1>1. hi \in Nat /\ lo \in 0..hi /\ hi \in lo..Len(h)
  OBVIOUS
<1>2. /\ s \in Seq(E) /\ Len(s) = hi - lo
      /\ \A i \in 1..(hi - lo) : s[i] = h[lo + i]
  <2> HIDE DEF hi
  <2> QED BY <1>1, PartIs
<1>3. CASE Len(s) > n
  <2>1. hi - n \in 0..Len(h) /\ hi \in (hi - n)..Len(h)
    BY <1>1, <1>2, <1>3
  <2>2. /\ Part(h, hi - n, hi) \in Seq(E) /\ Len(Part(h, hi - n, hi)) = hi - (hi - n)
        /\ \A i \in 1..(hi - (hi - n)) : Part(h, hi - n, hi)[i] = h[(hi - n) + i]
    BY <2>1, PartIs
  <2> DEFINE t == SubSeq(s, Len(s) - n + 1, Len(s))
             u == Part(h, hi - n, hi)
  <2>3. t \in Seq(E) /\ Len(t) = n /\ \A i \in 1..n : t[i] = s[Len(s) - n + i]
    <3> HIDE DEF s
    <3> QED BY <1>1, <1>2, <1>3
  <2>4. hi - (hi - n) = n
    BY <1>1
  <2>5. \A i \in 1..n : s[Len(s) - n + i] = h[(hi - n) + i]
    <3>1. \A i \in 1..n : /\ Len(s) - n + i \in 1..(hi - lo)
                          /\ lo + (Len(s) - n + i) = (hi - n) + i
      BY <1>1, <1>2, <1>3
    <3> QED BY <1>2, <3>1
  <2>6. u \in Seq(E) /\ Len(u) = n /\ \A i \in 1..n : u[i] = h[(hi - n) + i]
    BY <2>2, <2>4
  <2> HIDE DEF t, u
  <2>7. t = u
    <3>1. Len(t) = Len(u) /\ \A i \in 1..Len(t) : t[i] = u[i]
      BY <2>3, <2>5, <2>6
    <3> QED BY <2>3, <2>6, <3>1, SameSequence
  <2> QED BY <1>2, <1>3, <2>7 DEF Newest, t, u
<1>4. CASE ~(Len(s) > n)
  BY <1>2, <1>4 DEF Newest
<1> QED BY <1>3, <1>4

\* The newest n of a sequence.
LEMMA NewestOf ==
    ASSUME NEW E, NEW h \in Seq(E), NEW n \in Nat
    PROVE  Newest(h, n) = Part(h, IF Len(h) > n THEN Len(h) - n ELSE 0, Len(h))
<1>0. Len(h) \in Nat
  OBVIOUS
<1>1. Part(h, 0, Len(h)) = h
  <2>1. 0 \in 0..Len(h) /\ Len(h) \in 0..Len(h) /\ Len(h) - 0 = Len(h)
    BY <1>0
  <2>2. \A i \in 1..Len(h) : 0 + i = i
    BY <1>0
  <2>3. /\ Part(h, 0, Len(h)) \in Seq(E) /\ Len(Part(h, 0, Len(h))) = Len(h) - 0
        /\ \A i \in 1..(Len(h) - 0) : Part(h, 0, Len(h))[i] = h[0 + i]
    BY <2>1, PartIs
  <2>4. Len(Part(h, 0, Len(h))) = Len(h) /\ \A i \in 1..Len(h) : Part(h, 0, Len(h))[i] = h[i]
    BY <2>1, <2>2, <2>3
  <2> QED BY <2>3, <2>4, SameSequence
<1>2. 0 \in 0..Len(h) /\ Len(h) - 0 = Len(h)
  BY <1>0
<1>3. Newest(Part(h, 0, Len(h)), n) = Part(h, IF Len(h) - 0 > n THEN Len(h) - n ELSE 0, Len(h))
  BY <1>2, NewestIs
<1> QED BY <1>1, <1>2, <1>3

\* A ring read from its oldest event to its newest.
LEMMA ChronologicalIs ==
    ASSUME NEW ring, NEW h \in Seq(Event), RingHolds(ring, h)
    PROVE  /\ Chronological(ring) = Newest(h, Size)
           /\ Newest(h, Size) = Part(h, IF Len(h) > Size THEN Len(h) - Size ELSE 0, Len(h))
<1>0. Size \in Nat \ {0} /\ Len(h) \in Nat
  BY LogAssumption
<1>1. Count(ring) = IF Len(h) < Size THEN Len(h) ELSE Size
  BY CountIs
<1> DEFINE lo == IF Len(h) > Size THEN Len(h) - Size ELSE 0
<1>2. Newest(h, Size) = Part(h, lo, Len(h))
  BY <1>0, NewestOf
<1>3. Count(ring) = Len(h) - lo /\ lo \in 0..Len(h)
  <2> DEFINE n == Len(h)
  <2>1. n \in Nat /\ Size \in Nat
    BY <1>0
  <2> HIDE DEF n
  <2>2. (IF n < Size THEN n ELSE Size) = n - (IF n > Size THEN n - Size ELSE 0)
    BY <2>1
  <2>3. (IF n > Size THEN n - Size ELSE 0) \in 0..n
    BY <2>1
  <2> QED BY <1>1, <2>2, <2>3 DEF n
<1> HIDE DEF lo
<1>4. ASSUME NEW i \in 1..Count(ring)
      PROVE  At(ring, Count(ring) - i) = h[lo + i]
  <2>1. Count(ring) - i \in 0..(Count(ring) - 1) /\ Len(h) - (Count(ring) - i) = lo + i
    BY <1>0, <1>3
  <2> QED BY <2>1 DEF RingHolds
<1>5. Chronological(ring) = Part(h, lo, Len(h))
  BY <1>3, <1>4 DEF Chronological, Part
<1> QED BY <1>2, <1>5 DEF lo

-----------------------------------------------------------------------------
(* The log. *)

\* Every event has the number of its place, and each ring holds the newest of its own.
Logged ==
    /\ seq \in Nat /\ history \in Seq(Event) /\ Len(history) = seq
    /\ \A i \in 1..seq : history[i].seq = i
    /\ OtherThanRejects(history) \in Seq(Event)
    /\ RingHolds(all, history) /\ RingHolds(bans, OtherThanRejects(history))

LEMMA LogInitially == LogInit => Logged
<1> SUFFICES ASSUME LogInit PROVE Logged
  OBVIOUS
<1>1. <<>> \in Seq(Event) /\ Len(<<>>) = 0
  OBVIOUS
<1>2. OtherThanRejects(<<>>) = <<>>
  <2> DEFINE g == [i \in {0} |-> <<>>]
             P == {i \in DOMAIN <<>> : <<>>[i].kind # Reject}
  <2>1. g[0] = <<>> /\ 1..0 = {}
    OBVIOUS
  <2>2. PicksTo(g, <<>>, P, 0)
    BY <2>1 DEF PicksTo
  <2> HIDE DEF g, P
  <2>3. Picked(<<>>, P) = <<>>
    BY <1>1, <2>1, <2>2, PickedIs
  <2> QED BY <2>3 DEF P, OtherThanRejects
<1>3. seq = 0 /\ history = <<>> /\ all = NewRing /\ bans = NewRing
  BY DEF LogInit
<1>4. OtherThanRejects(history) = <<>>
  BY <1>2, <1>3, Zenon
<1>5. RingHolds(all, history) /\ RingHolds(bans, OtherThanRejects(history))
  BY <1>3, <1>4, NewRingHolds, Zenon
<1>6. 1..seq = {} /\ seq \in Nat /\ history \in Seq(Event) /\ Len(history) = seq
  BY <1>1, <1>3
<1> QED BY <1>1, <1>4, <1>5, <1>6 DEF Logged

LEMMA LogStep ==
    ASSUME Logged, NEW kind \in Kinds, Add(kind)
    PROVE  Logged'
<1> DEFINE e == [seq |-> seq + 1, kind |-> kind]
           h == history
           P == {i \in DOMAIN h : h[i].kind # Reject}
           Q == {i \in DOMAIN Append(h, e) : Append(h, e)[i].kind # Reject}
<1>1. /\ seq' = seq + 1 /\ history' = Append(h, e)
      /\ all' = Added(all, e) /\ bans' = IF kind # Reject THEN Added(bans, e) ELSE bans
  BY DEF Add
<1>2. e \in Event /\ e.seq = seq + 1 /\ e.kind = kind
  BY DEF Logged, Event
<1> HIDE DEF e
<1>3. h \in Seq(Event) /\ Len(h) = seq /\ seq \in Nat /\ \A i \in 1..seq : h[i].seq = i
  BY DEF Logged
<1> HIDE DEF h
<1>4. /\ Append(h, e) \in Seq(Event) /\ Len(Append(h, e)) = seq + 1
      /\ DOMAIN Append(h, e) = 1..(seq + 1) /\ DOMAIN h = 1..seq
      /\ Append(h, e)[seq + 1] = e /\ \A i \in 1..seq : Append(h, e)[i] = h[i]
  BY <1>2, <1>3
<1>5. \A i \in 1..(seq + 1) : Append(h, e)[i].seq = i
  <2>1. \A i \in 1..(seq + 1) : i \in 1..seq \/ i = seq + 1
    BY <1>3
  <2> QED BY <1>2, <1>3, <1>4, <2>1
<1>6. RingHolds(all', history')
  BY <1>1, <1>2, <1>3, AddedHolds DEF Logged, h
<1>7. /\ OtherThanRejects(history') \in Seq(Event)
      /\ RingHolds(bans', OtherThanRejects(history'))
  <2>1. (\A i \in 1..Len(h) : i \in P <=> i \in Q) /\ (Len(h) + 1 \in Q <=> kind # Reject)
    <3>1. \A i \in 1..seq : i \in 1..(seq + 1)
      BY <1>3
    <3>2. seq + 1 \in 1..(seq + 1)
      BY <1>3
    <3> QED BY <1>2, <1>3, <1>4, <3>1, <3>2
  <2> HIDE DEF P, Q
  <2>2. Picked(Append(h, e), Q) =
            IF Len(h) + 1 \in Q THEN Append(Picked(h, P), e) ELSE Picked(h, P)
    BY <1>2, <1>3, <2>1, PickedAppend
  <2>3. OtherThanRejects(history') = Picked(Append(h, e), Q)
    BY <1>1 DEF OtherThanRejects, Q
  <2>4. OtherThanRejects(history) = Picked(h, P)
    BY DEF OtherThanRejects, P, h
  <2>5. Picked(h, P) \in Seq(Event) /\ RingHolds(bans, Picked(h, P))
    BY <2>4 DEF Logged
  <2>6. CASE kind # Reject
    <3>1. RingHolds(Added(bans, e), Append(Picked(h, P), e))
      BY <1>2, <2>5, AddedHolds
    <3> QED BY <1>1, <1>2, <2>1, <2>2, <2>3, <2>5, <2>6, <3>1
  <2>7. CASE kind = Reject
    BY <1>1, <2>1, <2>2, <2>3, <2>5, <2>7
  <2> QED BY <2>6, <2>7
<1>8. history' \in Seq(Event) /\ Len(history') = seq' /\ seq' \in Nat
  BY <1>1, <1>3, <1>4
<1>9. \A i \in 1..seq' : history'[i].seq = i
  BY <1>1, <1>5
<1> QED BY <1>6, <1>7, <1>8, <1>9 DEF Logged

\* What the page that the console paints first shows.
LEMMA RecentIs ==
    ASSUME Logged, NEW n \in Nat
    PROVE  \E lo \in 0..seq : Recent(n) = Reverse(Part(history, lo, seq))
                           /\ Part(history, lo, seq) = Newest(history, IF n < Size THEN n ELSE Size)
<1> DEFINE m == IF n < Size THEN n ELSE Size
           lo == IF seq > m THEN seq - m ELSE 0
           c == Count(all)
           top == IF n < c THEN n ELSE c
           s == Part(history, lo, seq)
<1>0. Size \in Nat /\ n \in Nat /\ seq \in Nat /\ Len(history) = seq /\ history \in Seq(Event)
  BY LogAssumption DEF Logged
<1>1. Newest(history, m) = s
  <2>1. m \in Nat
    BY <1>0
  <2> HIDE DEF m
  <2> QED BY <1>0, <2>1, NewestOf
<1>2. Count(all) = IF seq < Size THEN seq ELSE Size
  BY <1>0, CountIs DEF Logged
<1>3. lo \in 0..seq /\ top = seq - lo /\ top \in Nat
  <2>1. c = IF seq < Size THEN seq ELSE Size
    BY <1>2
  <2> HIDE DEF c
  <2> QED BY <1>0, <2>1
<1>4. s \in Seq(Event) /\ Len(s) = seq - lo /\ \A i \in 1..(seq - lo) : s[i] = history[lo + i]
  <2>1. lo \in 0..Len(history) /\ seq \in lo..Len(history)
    BY <1>0, <1>3
  <2> HIDE DEF lo
  <2> QED BY <1>0, <2>1, PartIs
<1>5. top <= c
  <2>1. c \in Nat
    BY <1>0, <1>2
  <2> HIDE DEF c
  <2> QED BY <1>0, <2>1
<1>6. Recent(n) = [i \in 1..top |-> At(all, i - 1)]
  BY DEF Recent
<1>7. Reverse(s) = [i \in 1..top |-> s[(top - i) + 1]]
  BY <1>3, <1>4 DEF Reverse
<1> HIDE DEF lo, top, s, m
<1>8. ASSUME NEW i \in 1..top
      PROVE  At(all, i - 1) = s[(top - i) + 1]
  <2>1. i - 1 \in 0..(Count(all) - 1)
    BY <1>0, <1>2, <1>3, <1>5
  <2>2. At(all, i - 1) = history[seq - (i - 1)]
    BY <1>0, <2>1 DEF Logged, RingHolds
  <2>3. (top - i) + 1 \in 1..(seq - lo) /\ lo + ((top - i) + 1) = seq - (i - 1)
    BY <1>0, <1>3
  <2> QED BY <1>4, <2>2, <2>3
<1>9. Recent(n) = Reverse(s)
  BY <1>6, <1>7, <1>8
<1> QED BY <1>1, <1>3, <1>9 DEF s, m

LEMMA LoggedAnswers == Logged => AnswersTheNewest
<1> SUFFICES ASSUME Logged PROVE AnswersTheNewest
  OBVIOUS
<1>0. Size \in Nat \ {0} /\ history \in Seq(Event) /\ OtherThanRejects(history) \in Seq(Event)
  BY LogAssumption DEF Logged
<1>1. /\ Chronological(all) = Newest(history, Size)
      /\ Chronological(bans) = Newest(OtherThanRejects(history), Size)
  BY <1>0, ChronologicalIs DEF Logged
<1>2. ASSUME NEW since, NEW limit, NEW kind
      PROVE  SinceKind(since, limit, kind) =
                 Newest(Matching(Kept(kind), since, kind), IF limit = 0 THEN Size ELSE limit)
  BY <1>1, Zenon DEF SinceKind, Kept
<1>3. \A n \in 1..(Size + 1) :
          Recent(n) = Reverse(Newest(history, IF n < Size THEN n ELSE Size))
  <2>1. \A n \in 1..(Size + 1) : n \in Nat
    BY <1>0
  <2> QED BY <2>1, RecentIs
<1> QED BY <1>2, <1>3, Zenon DEF AnswersTheNewest

-----------------------------------------------------------------------------
(* What the browser gets, and what it makes of it. *)

\* A poll for everything after since: the newest events there are, as many as the
\* ring and the page hold.
LEMMA PollIs ==
    ASSUME Logged, NEW since \in Nat, NEW limit \in Nat \ {0}
    PROVE  \E lo \in 0..seq :
              /\ SinceKind(since, limit, AnyKind) = Part(history, lo, seq)
              /\ lo <= since \/ lo <= seq - Size \/ lo <= seq - limit
<1> DEFINE lo == IF seq > Size THEN seq - Size ELSE 0
           s == Part(history, lo, seq)
           P == {i \in DOMAIN s : s[i].seq > since /\ AnyKind \in {AnyKind, s[i].kind}}
           m == IF since < lo THEN 0 ELSE IF since > seq THEN seq - lo ELSE since - lo
<1>0. /\ Size \in Nat \ {0} /\ seq \in Nat /\ Len(history) = seq /\ history \in Seq(Event)
      /\ \A i \in 1..seq : history[i].seq = i
  BY LogAssumption DEF Logged
<1>1. Chronological(all) = s
  BY <1>0, ChronologicalIs DEF Logged
<1>2. lo \in 0..seq /\ (lo = 0 \/ lo = seq - Size) /\ m \in 0..(seq - lo)
  BY <1>0
<1>3. /\ s \in Seq(Event) /\ Len(s) = seq - lo /\ DOMAIN s = 1..(seq - lo)
      /\ \A i \in 1..(seq - lo) : s[i] = history[lo + i]
  <2>1. lo \in 0..Len(history) /\ seq \in lo..Len(history)
    BY <1>0, <1>2
  <2> HIDE DEF lo
  <2>2. /\ s \in Seq(Event) /\ Len(s) = seq - lo
        /\ \A i \in 1..(seq - lo) : s[i] = history[lo + i]
    BY <1>0, <2>1, PartIs
  <2> HIDE DEF s
  <2> QED BY <2>2
<1>4. m \in 0..Len(s) /\ \A i \in 1..Len(s) : lo + i > since <=> i > m
  BY <1>0, <1>2, <1>3
<1>5. SinceKind(since, limit, AnyKind) = Newest(Picked(s, P), limit)
  BY <1>0, <1>1, Zenon DEF SinceKind, Matching
<1> HIDE DEF lo, m, s
<1>6. \A i \in 1..Len(s) : i \in P <=> i > m
  <2>1. ASSUME NEW i \in 1..Len(s)
        PROVE  i \in P <=> lo + i > since
    <3>1. lo + i \in 1..seq
      BY <1>0, <1>2, <1>3
    <3>2. s[i].seq = lo + i
      BY <1>0, <1>3, <3>1
    <3> QED BY <1>3, <3>2
  <2> QED BY <1>4, <2>1
<1> HIDE DEF P
<1>7. Picked(s, P) = Part(s, m, Len(s))
  BY <1>3, <1>4, <1>6, PickedEnd
<1>8. Picked(s, P) = Part(history, lo + m, seq)
  <2>1. Len(s) - m = seq - (lo + m)
    BY <1>0, <1>2, <1>3
  <2>2. \A i \in 1..(Len(s) - m) : s[m + i] = history[(lo + m) + i]
    <3>1. \A i \in 1..(Len(s) - m) : m + i \in 1..(seq - lo) /\ lo + (m + i) = (lo + m) + i
      BY <1>0, <1>2, <1>3
    <3> QED BY <1>3, <3>1
  <2>3. Part(s, m, Len(s)) = Part(history, lo + m, seq)
    BY <2>1, <2>2 DEF Part
  <2> QED BY <1>7, <2>3
<1> DEFINE from == IF seq - (lo + m) > limit THEN seq - limit ELSE lo + m
<1>9. lo + m \in 0..seq /\ (lo + m = lo \/ lo + m <= since)
  BY <1>0, <1>2 DEF m
<1>10. Newest(Picked(s, P), limit) = Part(history, from, seq)
  BY <1>0, <1>8, <1>9, NewestIs
<1>11. from \in 0..seq /\ (from <= since \/ from <= seq - Size \/ from <= seq - limit)
  BY <1>0, <1>2, <1>9
<1> HIDE DEF from
<1> QED BY <1>5, <1>10, <1>11

LEMMA ReverseIs ==
    ASSUME NEW E, NEW s \in Seq(E)
    PROVE  /\ Reverse(s) \in Seq(E) /\ Len(Reverse(s)) = Len(s)
           /\ \A i \in 1..Len(s) : Reverse(s)[i] = s[(Len(s) - i) + 1]
<1>1. Len(s) \in Nat /\ \A i \in 1..Len(s) : (Len(s) - i) + 1 \in 1..Len(s)
  OBVIOUS
<1>2. \A i \in 1..Len(s) : s[(Len(s) - i) + 1] \in E
  BY <1>1
<1> QED BY <1>1, <1>2 DEF Reverse

LEMMA ReverseTwice ==
    ASSUME NEW E, NEW s \in Seq(E)
    PROVE  Reverse(Reverse(s)) = s
<1> DEFINE t == Reverse(s)
           u == Reverse(t)
<1>1. t \in Seq(E) /\ Len(t) = Len(s) /\ \A i \in 1..Len(s) : t[i] = s[(Len(s) - i) + 1]
  BY ReverseIs
<1> HIDE DEF t
<1>2. u \in Seq(E) /\ Len(u) = Len(s) /\ \A i \in 1..Len(s) : u[i] = t[(Len(s) - i) + 1]
  BY <1>1, ReverseIs
<1> HIDE DEF u
<1>3. \A i \in 1..Len(s) : /\ (Len(s) - i) + 1 \in 1..Len(s)
                           /\ (Len(s) - ((Len(s) - i) + 1)) + 1 = i
  OBVIOUS
<1>4. \A i \in 1..Len(s) : u[i] = s[i]
  BY <1>1, <1>2, <1>3
<1> QED BY <1>2, <1>4, SameSequence DEF u, t

\* appendEvents: every event of a part of the log comes into the table, on top of what
\* is there, and lastSeq moves to the end of the part if it is not there yet.
LEMMA AppendedIs ==
    ASSUME Logged, NEW hi \in 0..seq, NEW lo \in 0..hi, NEW table \in Seq(Event), NEW last \in Nat,
           AppendEvents(Part(history, lo, hi), table, last)
    PROVE  /\ rows' \in Seq(Event)
           /\ ToSet(table) \subseteq ToSet(rows')
           /\ \A i \in (lo + 1)..hi : history[i] \in ToSet(rows')
           /\ lastSeq' = IF lo < hi /\ last < hi THEN hi ELSE last
<1> DEFINE s == Part(history, lo, hi)
           flip == Reverse(s)
<1>0. /\ seq \in Nat /\ Len(history) = seq /\ history \in Seq(Event)
      /\ \A i \in 1..seq : history[i].seq = i
  BY DEF Logged
<1>1. /\ s \in Seq(Event) /\ Len(s) = hi - lo
      /\ \A i \in 1..(hi - lo) : s[i] = history[lo + i]
  <2>1. lo \in 0..Len(history) /\ hi \in lo..Len(history)
    BY <1>0
  <2> QED BY <1>0, <2>1, PartIs
<1>2. rows' = flip \o table /\ lastSeq' = Highest(s, last)
  BY DEF AppendEvents
<1> HIDE DEF s
<1>3. /\ flip \in Seq(Event) /\ Len(flip) = Len(s)
      /\ \A i \in 1..Len(s) : flip[i] = s[(Len(s) - i) + 1]
  BY <1>1, ReverseIs
<1> HIDE DEF flip
<1>4. /\ rows' \in Seq(Event) /\ Len(rows') = Len(flip) + Len(table)
      /\ \A i \in 1..Len(flip) : rows'[i] = flip[i]
      /\ \A i \in 1..Len(table) : rows'[Len(flip) + i] = table[i]
  <2>1. /\ flip \o table \in Seq(Event) /\ Len(flip \o table) = Len(flip) + Len(table)
        /\ \A i \in 1..Len(flip) : (flip \o table)[i] = flip[i]
        /\ \A i \in 1..Len(table) : (flip \o table)[Len(flip) + i] = table[i]
    <3>1. flip \in Seq(Event)
      BY <1>3
    <3> QED BY <3>1, ConcatIs
  <2> QED BY <1>2, <2>1, Zenon
<1>5. DOMAIN rows' = 1..Len(rows') /\ DOMAIN table = 1..Len(table) /\ Len(table) \in Nat
  BY <1>4
<1>6. ToSet(table) \subseteq ToSet(rows')
  <2>1. ASSUME NEW i \in 1..Len(table)
        PROVE  table[i] \in ToSet(rows')
    <3>1. Len(flip) + i \in 1..Len(rows') /\ rows'[Len(flip) + i] = table[i]
      BY <1>3, <1>4, <1>5
    <3> QED BY <1>5, <3>1 DEF ToSet
  <2> QED BY <1>5, <2>1 DEF ToSet
<1>7. ASSUME NEW i \in (lo + 1)..hi
      PROVE  history[i] \in ToSet(rows')
  <2> DEFINE j == hi - i + 1
  <2>1. j \in 1..Len(flip) /\ j \in 1..Len(rows') /\ (Len(s) - j) + 1 = i - lo
    BY <1>0, <1>1, <1>3, <1>4, <1>5
  <2>2. i - lo \in 1..(hi - lo) /\ lo + (i - lo) = i
    BY <1>0
  <2> HIDE DEF j
  <2>3. rows'[j] = s[i - lo]
    <3>1. j \in 1..Len(s) /\ rows'[j] = flip[j]
      BY <1>3, <1>4, <2>1
    <3> QED BY <1>3, <2>1, <3>1
  <2>4. s[i - lo] = history[i]
    BY <1>1, <2>2
  <2> QED BY <1>5, <2>1, <2>3, <2>4 DEF ToSet
<1>8. lastSeq' = IF lo < hi /\ last < hi THEN hi ELSE last
  <2> DEFINE numbers == {last} \cup {s[i].seq : i \in DOMAIN s}
             top == IF lo < hi /\ last < hi THEN hi ELSE last
  <2>1. DOMAIN s = 1..(hi - lo) /\ \A i \in 1..(hi - lo) : s[i].seq = lo + i
    <3>1. \A i \in 1..(hi - lo) : lo + i \in 1..seq
      BY <1>0
    <3> QED BY <1>0, <1>1, <3>1
  <2>2. \A k : k \in numbers <=> k = last \/ \E i \in 1..(hi - lo) : k = lo + i
    BY <2>1
  <2> HIDE DEF numbers
  <2>3. top \in numbers
    <3>1. lo < hi => hi - lo \in 1..(hi - lo) /\ lo + (hi - lo) = hi
      BY <1>0
    <3> QED BY <2>2, <3>1
  <2>4. \A k \in numbers : k \in Nat /\ top >= k
    <3>1. \A i \in 1..(hi - lo) : lo + i \in Nat /\ lo + i <= hi /\ lo < hi
      BY <1>0
    <3>2. top \in Nat /\ top >= last /\ (lo < hi => top >= hi)
      BY <1>0
    <3> HIDE DEF top
    <3> QED BY <1>0, <2>2, <3>1, <3>2
  <2> HIDE DEF top
  <2>5. Max(numbers) = top
    <3>1. \A k \in numbers : top >= k
      BY <2>4
    <3>2. Max(numbers) \in numbers /\ \A k \in numbers : Max(numbers) >= k
      BY <2>3, <3>1, Zenon DEF Max
    <3> QED BY <2>3, <2>4, <3>2
  <2> QED BY <1>2, <2>5 DEF Highest, numbers, top
<1> QED BY <1>4, <1>6, <1>7, <1>8

-----------------------------------------------------------------------------
(* The feed. *)

Shown(i) ==
    \/ i <= since0 \/ i > lastSeq
    \/ history[i] \in ToSet(rows)
    \/ i <= seq - Size \/ i <= seq - EventPage

\* A request under way.  A poll asks for what is newer than something shown, and its
\* answer is a part of the log that reaches back to something shown by now, or as far
\* as the ring or the page did.
Underway(c) ==
    /\ call[c].at = "events" =>
          painted /\ call[c].kind = AnyKind /\ call[c].since \in 0..lastSeq
    /\ call[c].at = "painting" =>
          \E hi \in 0..seq : \E lo \in 0..hi : call[c].events = Part(history, lo, hi)
    /\ call[c].at = "appending" =>
          painted /\ \E hi \in 0..seq : \E lo \in 0..hi :
              /\ call[c].events = Part(history, lo, hi)
              /\ lo <= lastSeq \/ lo <= hi - Size \/ lo <= hi - EventPage

\* As long as nobody has clicked on the filter.
Unfiltered ==
    /\ eventKind = AnyKind /\ painted \in BOOLEAN
    /\ lastSeq \in 0..seq /\ rows \in Seq(Event)
    /\ ~painted => lastSeq = 0
    /\ \A c \in Requests : Underway(c)
    /\ painted => \A i \in 1..seq : Shown(i)

Inv ==
    /\ Logged
    /\ clicks \in Nat /\ call = [c \in Requests |-> call[c]]
    /\ clicks = 0 => Unfiltered

LEMMA InitInv == Init => Inv
<1> SUFFICES ASSUME Init PROVE Inv
  OBVIOUS
<1>1. Logged
  BY LogInitially DEF Init
<1>2. clicks \in Nat /\ call = [c \in Requests |-> call[c]]
  BY DEF Init
<1>3. Unfiltered
  <2>1. lastSeq \in 0..seq /\ rows \in Seq(Event)
    BY <1>1 DEF Init, Logged
  <2>2. \A c \in Requests : Underway(c)
    BY DEF Init, Underway, Done
  <2> QED BY <2>1, <2>2 DEF Init, Unfiltered
<1> QED BY <1>1, <1>2, <1>3 DEF Inv

\* A part of the log stays what it is when the log grows.
LEMMA PartStays ==
    ASSUME Logged, Happens, NEW hi \in 0..seq, NEW lo \in 0..hi
    PROVE  Part(history', lo, hi) = Part(history, lo, hi)
<1>1. \A i \in 1..seq : history'[i] = history[i]
  BY DEF Happens, Add, Logged, Event
<1>2. \A i \in 1..(hi - lo) : lo + i \in 1..seq
  BY DEF Logged
<1> QED BY <1>1, <1>2 DEF Part

LEMMA HappensKeeps ==
    ASSUME Inv, Happens
    PROVE  Inv'
<1>1. PICK kind \in Kinds : Add(kind)
  BY DEF Happens
<1>2. Logged'
  BY <1>1, LogStep DEF Inv
<1>3. UNCHANGED <<call, painted, lastSeq, eventKind, rows, clicks, since0>>
  BY DEF Happens
<1>4. seq \in Nat /\ seq' = seq + 1 /\ \A i \in 1..seq : history'[i] = history[i]
  BY <1>1 DEF Add, Inv, Logged, Event
<1>5. ASSUME Unfiltered PROVE Unfiltered'
  <2>1. ASSUME NEW c \in Requests PROVE Underway(c)'
    <3>1. \A hi \in 0..seq : hi \in 0..seq'
      BY <1>4
    <3>2. \A hi \in 0..seq : \A lo \in 0..hi : Part(history', lo, hi) = Part(history, lo, hi)
      BY PartStays DEF Inv
    <3>3. Underway(c)
      BY <1>5 DEF Unfiltered
    <3> QED BY <1>3, <3>1, <3>2, <3>3 DEF Underway
  <2>2. ASSUME painted, NEW i \in 1..seq' PROVE Shown(i)'
    <3>1. lastSeq \in 0..seq /\ Size \in Nat \ {0} /\ EventPage \in Nat \ {0}
      BY <1>5, LogAssumption, FeedAssumption DEF Unfiltered
    <3>2. CASE i \in 1..seq
      <4>1. Shown(i)
        BY <1>5, <2>2, <3>2 DEF Unfiltered
      <4> QED BY <1>3, <1>4, <3>1, <3>2, <4>1 DEF Shown
    <3>3. CASE i = seq + 1
      BY <1>3, <1>4, <3>1, <3>3 DEF Shown
    <3> QED BY <1>4, <3>2, <3>3
  <2>3. lastSeq' \in 0..seq'
    BY <1>3, <1>4, <1>5 DEF Unfiltered
  <2> QED BY <1>3, <1>5, <2>1, <2>2, <2>3 DEF Unfiltered
<1> QED BY <1>2, <1>3, <1>5 DEF Inv

\* A step of a request c leaves the others what they are, when lastSeq only grows.
LEMMA OthersStay ==
    ASSUME Inv, Unfiltered, NEW c \in Requests, UNCHANGED log, painted => painted',
           \A b \in Requests \ {c} : call'[b] = call[b],
           lastSeq' \in 0..seq, lastSeq <= lastSeq'
    PROVE  \A b \in Requests \ {c} : Underway(b)'
<1> SUFFICES ASSUME NEW b \in Requests \ {c} PROVE Underway(b)'
  OBVIOUS
<1>1. Underway(b) /\ seq \in Nat /\ lastSeq \in 0..seq
  BY DEF Unfiltered, Inv, Logged
<1>2. seq' = seq /\ history' = history /\ call'[b] = call[b]
  BY DEF log
<1>3. \A n \in 0..lastSeq : n \in 0..lastSeq'
  BY <1>1
<1>4. \A lo \in 0..seq : lo <= lastSeq => lo <= lastSeq'
  BY <1>1
<1>5. \A hi \in 0..seq : \A lo \in 0..hi : lo \in 0..seq
  BY <1>1
<1> QED BY <1>1, <1>2, <1>3, <1>4, <1>5 DEF Underway

LEMMA LogStays == Inv /\ UNCHANGED log => Logged'
<1> SUFFICES ASSUME Inv, UNCHANGED log PROVE Logged'
  OBVIOUS
<1>1. seq' = seq /\ history' = history /\ all' = all /\ bans' = bans
  BY DEF log
<1> QED BY <1>1, Zenon DEF Inv, Logged, OtherThanRejects

LEMMA TickKeeps ==
    ASSUME Inv, NEW c \in Requests, Tick(c)
    PROVE  Inv'
<1>1. /\ UNCHANGED <<log, painted, lastSeq, eventKind, rows, clicks, since0>>
      /\ call' = [call EXCEPT ![c] = [at |-> "state"]]
  BY DEF Tick
<1>2. call' = [b \in Requests |-> call'[b]] /\ call'[c] = [at |-> "state"]
      /\ \A b \in Requests \ {c} : call'[b] = call[b]
  BY <1>1 DEF Inv
<1>3. seq' = seq /\ history' = history
  BY <1>1 DEF log
<1>4. ASSUME Unfiltered PROVE Unfiltered'
  <2>1. lastSeq' \in 0..seq /\ lastSeq <= lastSeq'
    BY <1>1, <1>4 DEF Unfiltered, Inv, Logged
  <2>2. \A b \in Requests \ {c} : Underway(b)'
    BY <1>1, <1>2, <1>4, <2>1, OthersStay
  <2>3. Underway(c)'
    BY <1>2 DEF Underway
  <2> QED BY <1>1, <1>3, <1>4, <2>2, <2>3 DEF Unfiltered, Shown
<1>5. Logged'
  BY <1>1, LogStays
<1> QED BY <1>1, <1>2, <1>4, <1>5 DEF Inv

\* apiState and apiEvents.
LEMMA AnswerKeeps ==
    ASSUME Inv, NEW c \in Requests, Answer(c)
    PROVE  Inv'
<1>1. UNCHANGED <<log, painted, lastSeq, eventKind, rows, clicks, since0>>
  BY DEF Answer
<1>2. call' = [b \in Requests |-> call'[b]] /\ \A b \in Requests \ {c} : call'[b] = call[b]
  BY DEF Answer, Inv
<1>3. seq' = seq /\ history' = history /\ seq \in Nat
  BY <1>1 DEF log, Inv, Logged
<1>4. ASSUME Unfiltered PROVE Unfiltered'
  <2>1. lastSeq' \in 0..seq /\ lastSeq <= lastSeq'
    BY <1>1, <1>4 DEF Unfiltered, Inv, Logged
  <2>2. \A b \in Requests \ {c} : Underway(b)'
    BY <1>1, <1>2, <1>4, <2>1, OthersStay
  <2>3. Underway(c)'
    <3>1. CASE call[c].at = "state"
      <4>1. call'[c] = [at |-> "painting", events |-> Reverse(Recent(StatePage))]
        BY <3>1 DEF Answer, Inv
      <4>2. PICK lo \in 0..seq : Recent(StatePage) = Reverse(Part(history, lo, seq))
        BY FeedAssumption, RecentIs DEF Inv
      <4>3. Part(history, lo, seq) \in Seq(Event)
        <5>1. lo \in 0..Len(history) /\ seq \in lo..Len(history) /\ history \in Seq(Event)
          BY <1>3 DEF Inv, Logged
        <5> QED BY <5>1, PartIs
      <4>4. Reverse(Recent(StatePage)) = Part(history, lo, seq)
        BY <4>2, <4>3, ReverseTwice
      <4>5. seq \in 0..seq'
        BY <1>3
      <4> QED BY <1>3, <4>1, <4>4, <4>5 DEF Underway
    <3>2. CASE call[c].at = "events"
      <4>1. call'[c] = [at     |-> "appending",
                        events |-> SinceKind(call[c].since, EventPage, call[c].kind)]
        BY <3>2 DEF Answer, Inv
      <4>2. painted /\ call[c].kind = AnyKind /\ call[c].since \in 0..lastSeq
        BY <1>4, <3>2 DEF Unfiltered, Underway
      <4>3. call[c].since \in Nat /\ call[c].since <= lastSeq /\ lastSeq \in Nat
        BY <1>3, <1>4, <4>2 DEF Unfiltered
      <4>4. PICK lo \in 0..seq :
                /\ SinceKind(call[c].since, EventPage, AnyKind) = Part(history, lo, seq)
                /\ lo <= call[c].since \/ lo <= seq - Size \/ lo <= seq - EventPage
        BY <4>3, FeedAssumption, PollIs DEF Inv
      <4>5. lo <= lastSeq \/ lo <= seq - Size \/ lo <= seq - EventPage
        BY <4>3, <4>4
      <4>6. seq \in 0..seq'
        BY <1>3
      <4> QED BY <1>1, <1>3, <4>1, <4>2, <4>4, <4>5, <4>6 DEF Underway
    <3> QED BY <3>1, <3>2 DEF Answer
  <2> QED BY <1>1, <1>3, <1>4, <2>2, <2>3 DEF Unfiltered, Shown
<1>5. Logged'
  BY <1>1, LogStays
<1> QED BY <1>1, <1>2, <1>4, <1>5 DEF Inv

\* An answer that is appended to the table shows everything up to the new lastSeq.
LEMMA AppendedShows ==
    ASSUME Inv, Unfiltered, painted, NEW hi \in 0..seq, NEW lo \in 0..hi,
           lo <= lastSeq \/ lo <= hi - Size \/ lo <= hi - EventPage,
           AppendEvents(Part(history, lo, hi), rows, lastSeq), UNCHANGED <<log, since0>>
    PROVE  /\ lastSeq' \in 0..seq /\ lastSeq <= lastSeq' /\ rows' \in Seq(Event)
           /\ \A i \in 1..seq : Shown(i)'
<1>0. /\ Logged /\ seq \in Nat /\ lastSeq \in 0..seq /\ rows \in Seq(Event)
      /\ Size \in Nat \ {0} /\ EventPage \in Nat \ {0}
      /\ seq' = seq /\ history' = history /\ since0' = since0
  BY LogAssumption, FeedAssumption DEF Inv, Unfiltered, Logged, log
<1>1. /\ rows' \in Seq(Event)
      /\ ToSet(rows) \subseteq ToSet(rows')
      /\ \A i \in (lo + 1)..hi : history[i] \in ToSet(rows')
      /\ lastSeq' = IF lo < hi /\ lastSeq < hi THEN hi ELSE lastSeq
  <2>1. lastSeq \in Nat
    BY <1>0
  <2> QED BY <1>0, <2>1, AppendedIs
<1>2. ASSUME NEW i \in 1..seq PROVE Shown(i)'
  <2>1. Shown(i)
    BY <1>2 DEF Unfiltered
  <2>2. CASE i > lastSeq /\ i <= lastSeq'
    <3>1. i <= hi /\ (i > lo => i \in (lo + 1)..hi)
      BY <1>0, <1>1, <2>2
    <3> QED BY <1>0, <1>1, <2>2, <3>1 DEF Shown
  <2>3. CASE ~(i > lastSeq /\ i <= lastSeq')
    <3>1. i > lastSeq => i > lastSeq'
      BY <1>0, <1>1, <2>3
    <3> QED BY <1>0, <1>1, <2>1, <3>1 DEF Shown
  <2> QED BY <2>2, <2>3
<1>3. lastSeq' \in 0..seq /\ lastSeq <= lastSeq'
  BY <1>0, <1>1
<1> QED BY <1>1, <1>2, <1>3

LEMMA AppendPollKeeps ==
    ASSUME Inv, NEW c \in Requests, AppendPoll(c)
    PROVE  Inv'
<1>1. /\ UNCHANGED <<log, painted, eventKind, clicks, since0>>
      /\ call[c].at = "appending" /\ call' = [call EXCEPT ![c] = Done]
      /\ AppendEvents(call[c].events, rows, lastSeq)
  BY DEF AppendPoll
<1>2. call' = [b \in Requests |-> call'[b]] /\ call'[c] = Done
      /\ \A b \in Requests \ {c} : call'[b] = call[b]
  BY <1>1 DEF Inv
<1>3. seq' = seq /\ history' = history
  BY <1>1 DEF log
<1>4. ASSUME Unfiltered PROVE Unfiltered'
  <2>1. PICK hi \in 0..seq : \E lo \in 0..hi :
            /\ call[c].events = Part(history, lo, hi)
            /\ lo <= lastSeq \/ lo <= hi - Size \/ lo <= hi - EventPage
    BY <1>1, <1>4 DEF Unfiltered, Underway
  <2>2. PICK lo \in 0..hi :
            /\ call[c].events = Part(history, lo, hi)
            /\ lo <= lastSeq \/ lo <= hi - Size \/ lo <= hi - EventPage
    BY <2>1
  <2>3. painted
    BY <1>1, <1>4 DEF Unfiltered, Underway
  <2>4. /\ lastSeq' \in 0..seq /\ lastSeq <= lastSeq' /\ rows' \in Seq(Event)
        /\ \A i \in 1..seq : Shown(i)'
    <3>1. AppendEvents(Part(history, lo, hi), rows, lastSeq)
      BY <1>1, <2>2
    <3> QED BY <1>1, <1>4, <2>2, <2>3, <3>1, AppendedShows
  <2>5. \A b \in Requests \ {c} : Underway(b)'
    BY <1>1, <1>2, <1>4, <2>4, OthersStay
  <2>6. Underway(c)'
    BY <1>2 DEF Underway, Done
  <2> QED BY <1>1, <1>3, <1>4, <2>3, <2>4, <2>5, <2>6 DEF Unfiltered
<1>5. Logged'
  BY <1>1, LogStays
<1> QED BY <1>1, <1>2, <1>4, <1>5 DEF Inv

\* renderState: the page painted first shows a part of the log, and nothing before it
\* was asked for.
LEMMA PaintedShows ==
    ASSUME Inv, Unfiltered, ~painted, NEW hi \in 0..seq, NEW lo \in 0..hi,
           Part(history, lo, hi) # <<>>,
           AppendEvents(Part(history, lo, hi), <<>>, lastSeq), UNCHANGED log,
           since0' = Head(Part(history, lo, hi)).seq - 1
    PROVE  /\ lastSeq' \in 0..seq /\ lastSeq <= lastSeq' /\ rows' \in Seq(Event)
           /\ \A i \in 1..seq : Shown(i)'
<1>0. /\ Logged /\ seq \in Nat /\ lastSeq = 0 /\ history \in Seq(Event) /\ Len(history) = seq
      /\ seq' = seq /\ history' = history /\ \A i \in 1..seq : history[i].seq = i
  BY DEF Inv, Unfiltered, Logged, log
<1>1. /\ Part(history, lo, hi) \in Seq(Event) /\ Len(Part(history, lo, hi)) = hi - lo
      /\ \A i \in 1..(hi - lo) : Part(history, lo, hi)[i] = history[lo + i]
  <2>1. lo \in 0..Len(history) /\ hi \in lo..Len(history)
    BY <1>0
  <2> QED BY <1>0, <2>1, PartIs
<1>2. lo < hi
  <2> DEFINE s == Part(history, lo, hi)
  <2>1. s \in Seq(Event) /\ s # <<>> /\ Len(s) = hi - lo
    BY <1>1
  <2> HIDE DEF s
  <2> QED BY <1>0, <2>1
<1>3. since0' = lo
  <2> DEFINE s == Part(history, lo, hi)
  <2>1. 1 \in 1..(hi - lo) /\ lo + 1 \in 1..seq /\ (lo + 1) - 1 = lo
    BY <1>0, <1>2
  <2>2. s[1].seq = lo + 1
    BY <1>0, <1>1, <2>1
  <2>3. Head(s) = s[1]
    BY <1>1
  <2> HIDE DEF s
  <2>4. since0' = s[1].seq - 1
    BY <2>3 DEF s
  <2> QED BY <2>1, <2>2, <2>4
<1>4. /\ rows' \in Seq(Event)
      /\ \A i \in (lo + 1)..hi : history[i] \in ToSet(rows')
      /\ lastSeq' = IF lo < hi /\ lastSeq < hi THEN hi ELSE lastSeq
  <2> DEFINE table == <<>>
  <2>1. lastSeq \in Nat /\ table \in Seq(Event) /\ Logged
    BY <1>0
  <2>2. AppendEvents(Part(history, lo, hi), table, lastSeq)
    OBVIOUS
  <2> HIDE DEF table
  <2> QED BY <2>1, <2>2, AppendedIs
<1>5. lastSeq' = hi
  BY <1>0, <1>2, <1>4
<1>6. ASSUME NEW i \in 1..seq PROVE Shown(i)'
  <2>1. i <= lo \/ i > hi \/ i \in (lo + 1)..hi
    BY <1>0
  <2> QED BY <1>0, <1>3, <1>4, <1>5, <2>1 DEF Shown
<1> QED BY <1>0, <1>4, <1>5, <1>6

LEMMA RenderStateKeeps ==
    ASSUME Inv, NEW c \in Requests, RenderState(c)
    PROVE  Inv'
<1> DEFINE first == ~painted /\ call[c].events # <<>>
<1>1. /\ UNCHANGED <<log, eventKind, clicks>>
      /\ call[c].at = "painting"
      /\ IF first THEN AppendEvents(call[c].events, <<>>, lastSeq) ELSE UNCHANGED <<rows, lastSeq>>
      /\ painted' = (painted \/ first)
      /\ since0' = IF first THEN Head(call[c].events).seq - 1 ELSE since0
      /\ IF painted' THEN Ask(c, lastSeq', eventKind) ELSE call' = [call EXCEPT ![c] = Done]
  BY DEF RenderState
<1>2. /\ call' = [b \in Requests |-> call'[b]]
      /\ \A b \in Requests \ {c} : call'[b] = call[b]
      /\ call'[c] = IF painted' THEN [at |-> "events", since |-> lastSeq', kind |-> eventKind]
                    ELSE Done
  BY <1>1 DEF Inv, Ask
<1>3. seq' = seq /\ history' = history
  BY <1>1 DEF log
<1>4. ASSUME Unfiltered PROVE Unfiltered'
  <2>1. /\ lastSeq' \in 0..seq /\ lastSeq <= lastSeq' /\ rows' \in Seq(Event)
        /\ painted' => \A i \in 1..seq : Shown(i)'
    <3>1. CASE first
      <4>1. PICK hi \in 0..seq : \E lo \in 0..hi : call[c].events = Part(history, lo, hi)
        BY <1>1, <1>4 DEF Unfiltered, Underway
      <4>2. PICK lo \in 0..hi : call[c].events = Part(history, lo, hi)
        BY <4>1
      <4>3. /\ AppendEvents(Part(history, lo, hi), <<>>, lastSeq)
            /\ Part(history, lo, hi) # <<>>
            /\ since0' = Head(Part(history, lo, hi)).seq - 1
        BY <1>1, <3>1, <4>2
      <4> QED BY <1>1, <1>4, <3>1, <4>3, PaintedShows
    <3>2. CASE ~first
      <4>1. /\ rows' = rows /\ lastSeq' = lastSeq /\ since0' = since0
            /\ painted' => painted
        BY <1>1, <3>2
      <4>2. lastSeq \in 0..seq /\ rows \in Seq(Event) /\ seq \in Nat
        BY <1>4 DEF Unfiltered, Inv, Logged
      <4> QED BY <1>3, <1>4, <4>1, <4>2 DEF Unfiltered, Shown
    <3> QED BY <3>1, <3>2
  <2>2. \A b \in Requests \ {c} : Underway(b)'
    <3>1. painted => painted'
      BY <1>1
    <3> QED BY <1>1, <1>2, <1>4, <2>1, <3>1, OthersStay
  <2>3. Underway(c)'
    <3>1. CASE painted'
      <4>1. call'[c] = [at |-> "events", since |-> lastSeq', kind |-> AnyKind]
        BY <1>2, <1>4, <3>1 DEF Unfiltered
      <4>2. lastSeq' \in 0..lastSeq'
        BY <1>4, <2>1 DEF Inv, Logged
      <4> QED BY <3>1, <4>1, <4>2 DEF Underway
    <3>2. CASE ~painted'
      BY <1>2, <3>2 DEF Underway, Done
    <3> QED BY <3>1, <3>2
  <2>4. ~painted' => lastSeq' = 0
    <3>1. ~painted' => ~painted /\ ~first
      BY <1>1
    <3> QED BY <1>1, <1>4, <3>1 DEF Unfiltered
  <2>5. painted' \in BOOLEAN
    <3>1. painted' = (painted \/ first)
      BY <1>1
    <3> QED BY <3>1, Zenon
  <2> QED BY <1>1, <1>3, <1>4, <2>1, <2>2, <2>3, <2>4, <2>5 DEF Unfiltered
<1>5. Logged'
  BY <1>1, LogStays
<1> QED BY <1>1, <1>2, <1>4, <1>5 DEF Inv

LEMMA SetEventKindKeeps ==
    ASSUME Inv, NEW c \in Requests, NEW kind, SetEventKind(c, kind)
    PROVE  Inv'
<1>1. /\ UNCHANGED log /\ clicks' = clicks + 1
      /\ call' = [call EXCEPT ![c] = [at |-> "events", since |-> 0, kind |-> kind]]
  BY DEF SetEventKind, Ask
<1>2. Logged'
  BY <1>1, LogStays
<1>3. clicks' \in Nat /\ clicks' # 0
  BY <1>1 DEF Inv
<1>4. call' = [b \in Requests |-> call'[b]]
  BY <1>1 DEF Inv
<1> QED BY <1>2, <1>3, <1>4 DEF Inv

LEMMA StepInv == Inv /\ [Next]_vars => Inv'
<1> SUFFICES ASSUME Inv, [Next]_vars PROVE Inv'
  OBVIOUS
<1>1. CASE UNCHANGED vars
  <2>1. UNCHANGED log /\ UNCHANGED <<call, painted, lastSeq, eventKind, rows, clicks, since0>>
    BY <1>1 DEF vars
  <2>2. seq' = seq /\ history' = history
    BY <2>1 DEF log
  <2>3. Logged'
    BY <2>1, LogStays
  <2> QED BY <2>1, <2>2, <2>3 DEF Inv, Unfiltered, Underway, Shown
<1> QED BY <1>1, HappensKeeps, TickKeeps, AnswerKeeps, RenderStateKeeps, AppendPollKeeps,
           SetEventKindKeeps DEF Next, Respond

LEMMA Invariant == Spec => []Inv
  BY InitInv, StepInv, PTL DEF Spec

\* Whatever the rings have overwritten, every answer of the log is the newest of the
\* events that match (events.go:124-180).
THEOREM LogCorrect == Spec => []AnswersTheNewest
<1>1. Inv => AnswersTheNewest
  BY LoggedAnswers DEF Inv
<1> QED BY Invariant, <1>1, PTL

\* In whatever order answers arrive, no event the ring and the page still had is missing
\* from the table (admin_ui.go:689-702, 857-878, 1213-1235).
THEOREM FeedCorrect == Spec => []NothingSkipped
<1>1. Inv => NothingSkipped
  <2> SUFFICES ASSUME Inv, painted, clicks = 0, NEW e \in ToSet(history)
               PROVE  \/ e.seq <= since0 \/ e.seq > lastSeq
                      \/ e \in ToSet(rows)
                      \/ e.seq <= seq - Size \/ e.seq <= seq - EventPage
    BY DEF NothingSkipped
  <2>1. DOMAIN history = 1..seq
    BY DEF Inv, Logged
  <2>2. PICK i \in 1..seq : e = history[i]
    BY <2>1 DEF ToSet
  <2>3. e.seq = i
    BY <2>2 DEF Inv, Logged
  <2>4. Shown(i)
    BY <2>2 DEF Inv, Unfiltered
  <2> QED BY <2>2, <2>3, <2>4 DEF Shown
<1> QED BY Invariant, <1>1, PTL

-----------------------------------------------------------------------------
(* The console's rules. *)

Stages  == {"rest", "console", "detector", "relayer"}
Holders == {"nobody", "set", "sync", "save"}

\* Where a process stands.  Until the detector has layered its rules there is no
\* base, so nobody can edit; and while it is built its block does not change.
Process ==
    /\ build.at \in Stages /\ (build.at = "rest" => build = Rest)
    /\ mu.by \in Holders /\ (mu.by = "nobody" => mu = Free)
    /\ ~exists => build = Rest /\ detectFP = {} /\ ~loaded /\ backend = "memory"
    /\ ~loaded => base = NoRules /\ overrides = Reverted /\ mu = Free
    /\ base # NoRules => \E rules \in base : base = {rules}
    /\ file.rules \in Rules
    /\ build.at \in {"detector", "relayer"} => build.rules = file.rules
    /\ build.at = "relayer" => detectFP = {file}
    /\ \A f \in detectFP : build.at # "relayer" => base = {f.rules}

\* What has been built under rt.mu is the next overrides on top of the base.  What is
\* in force are the present ones on top of it, or the file's own rules from when they
\* are published to when they become the base.
InForce ==
    /\ mu.by \in {"set", "sync"} =>
          \A rules \in base : mu.rules = Layered(rules, mu.next) /\ mu.rules \notin Invalid
    /\ build.at = "relayer" /\ ~outdated => effective.rules = build.rules
    /\ build.at # "relayer" /\ ~outdated =>
          \A rules \in base : effective.rules = InEffect(rules, overrides)

\* The live store and the overrides.  Only redis can be switched to, so the edits of
\* a file store are never another replica's, and it is opened once.
Saved ==
    /\ {file.backend, backend} \subseteq Backends /\ DOMAIN persisted = {"file", "redis"}
    /\ persisted["file"] # {} => \E o \in persisted["file"] : persisted["file"] = {o}
    /\ backend = "redis" => file.backend = "redis"
    /\ build.at \in {"detector", "relayer"} => backend = file.backend
    /\ loaded /\ file.backend = "file" => backend = "file"
    /\ tick.at # "rest" \/ mu.by = "sync" => backend = "redis"
    /\ mu.by = "save" => overrides = mu.next
    /\ backend = "file" => persisted["file"] \subseteq {stored}
    /\ backend = "file" /\ loaded =>
          \/ SameStamp(overrides, stored) \/ stored.stamp \in refused
          \/ mu.by = "save"

\* What has become of an edit that was the last one.
Accounted(e) ==
    \/ SameStamp(overrides, e) \/ e.stamp \in refused
    \/ backend = "redis" /\ persisted["redis"] = {}

\* The last edits: accounted for once the saved ones were taken up, and until then they
\* are what the backend of the file has saved, unless that is a Redis without any.
Upheld ==
    /\ file.backend # "redis" => persisted["redis"] = {}
    /\ persisted["redis"] # {} => \E o \in persisted["redis"] : persisted["redis"] = {o}
    /\ mu.by = "save" => latest \subseteq {mu.next}
    /\ loaded => \A e \in latest : Accounted(e)
    /\ ~loaded => \A e \in latest :
          \/ file.backend = "file" /\ e \in persisted["file"]
          \/ file.backend = "redis" /\ (persisted["redis"] = {} \/ e \in persisted["redis"])
    /\ ~loaded /\ build.at \notin {"detector", "relayer"} => backend = "memory"
    /\ ~loaded /\ build.at \in {"detector", "relayer"} => \A e \in latest :
          e = stored \/ (backend = "redis" /\ persisted["redis"] = {})
    /\ ~loaded /\ tick.at = "got" /\ latest # {} => tick.reply = persisted["redis"]

RulesInv == Process /\ InForce /\ Saved /\ Upheld

LEMMA RulesInitInv == RulesInit => RulesInv
<1>1. RulesInit => file.backend \in Backends /\ file.rules \in Rules
  BY RulesAssumption DEF RulesInit
<1> QED BY <1>1 DEF RulesInit, RulesInv, Process, InForce, Saved, Upheld, Stages, Holders,
                    Rest, Free, Reverted, NoEdit, Empty, NoRules, Backends

-----------------------------------------------------------------------------

LEMMA ProcessStep ==
    ASSUME RulesInv, [RulesNext]_rulesVars
    PROVE  Process'
<1> USE DEF Process, Stages, Holders, Rest, Free, NoRules
<1>1. CASE CreateByDetector
  BY <1>1 DEF RulesInv, CreateByDetector, world, applied, annals
<1>2. CASE CreateByConsole
  BY <1>2 DEF RulesInv, CreateByConsole, world, applied, annals
<1>3. CASE ConsoleReads
  BY <1>3 DEF RulesInv, ConsoleReads, world, applied, annals
<1>4. CASE ConsolePublishes
  BY <1>4 DEF RulesInv, ConsolePublishes, world, applied, annals
<1>5. CASE DetectorReads
  BY <1>5 DEF RulesInv, DetectorReads, world, applied, annals
<1>6. CASE DetectorPublishes
  BY <1>6 DEF RulesInv, DetectorPublishes, world, applied, annals
<1>7. CASE Relayer
  BY <1>7 DEF RulesInv, Relayer, world, applied, annals
<1>8. CASE Publish
  BY <1>8 DEF RulesInv, Publish, world, applied, annals
<1>9. CASE Save
  BY <1>9 DEF RulesInv, Save, world, applied, annals
<1>10. CASE Get
  BY <1>10 DEF RulesInv, Get, world, applied, annals
<1>11. CASE Receive
  BY <1>11 DEF RulesInv, Receive, world, applied, annals
<1>12. CASE SyncReads
  BY <1>12 DEF RulesInv, SyncReads, world, applied, annals
<1>13. CASE Sync
  BY <1>13 DEF RulesInv, Sync, Holds, Rebuilds, world, applied, annals
<1>14. CASE EditBlock
  BY <1>14 DEF RulesInv, EditBlock, world, applied, annals
<1>15. CASE Restart
  BY <1>15 DEF RulesInv, Restart, Fresh, world, applied, annals
<1>16. ASSUME NEW submitted \in Rules, Edit(submitted) PROVE Process'
  BY <1>16 DEF RulesInv, Edit, Holds, world, applied, annals
<1>17. ASSUME NEW o, Elsewhere(o) PROVE Process'
  BY <1>17 DEF RulesInv, Elsewhere, world, applied, annals
<1>18. ASSUME NEW rules \in Rules, NEW b \in Backends, EditFile(rules, b) PROVE Process'
  BY <1>18 DEF RulesInv, EditFile, world, applied, annals
<1>19. CASE UNCHANGED rulesVars
  BY <1>19 DEF RulesInv, rulesVars
<1> QED BY <1>1, <1>2, <1>3, <1>4, <1>5, <1>6, <1>7, <1>8, <1>9, <1>10, <1>11, <1>12,
          <1>13, <1>14, <1>15, <1>16, <1>17, <1>18, <1>19 DEF RulesNext, AcquireRuntime, JanitorTick

LEMMA NothingLayered ==
    ASSUME NEW rules \in Rules, NEW o, Empty(o)
    PROVE  Layered(rules, o) = rules /\ InEffect(rules, o) = rules
  BY DEF Layered, InEffect, Empty, Rules

\* With a base there is just one, and the settings are rebuilt from it.
LEMMA RebuiltIsLayered ==
    ASSUME Process, NEW rules \in base, NEW o
    PROVE  Rebuilt(o) = Layered(rules, o)
<1>1. base = {rules}
  <2>1. PICK r \in base : base = {r}
    BY DEF Process, NoRules
  <2> QED BY <2>1
<1>2. (CHOOSE r \in base : TRUE) = rules
  BY <1>1
<1> QED BY <1>2 DEF Rebuilt

LEMMA InForceStep ==
    ASSUME RulesInv, [RulesNext]_rulesVars
    PROVE  InForce'
<1> USE DEF InForce, Process, Free, Rest, NoRules
<1>1. CASE CreateByDetector
  <2>1. /\ base' = {file.rules} /\ UNCHANGED <<mu, build>> /\ mu = Free
        /\ build = Rest /\ file.rules \in Rules
        /\ overrides' = IF Restores(stored', file.rules) THEN stored' ELSE Reverted
        /\ effective'.rules = Layered(file.rules, overrides')
    BY <1>1 DEF RulesInv, CreateByDetector
  <2>2. Layered(file.rules, overrides') = InEffect(file.rules, overrides')
    <3>1. CASE Restores(stored', file.rules)
      BY <2>1, <3>1 DEF Restores, InEffect
    <3>2. CASE ~Restores(stored', file.rules)
      <4>1. Empty(overrides')
        BY <2>1, <3>2 DEF Empty, Reverted, NoEdit
      <4> QED BY <2>1, <4>1, NothingLayered
    <3> QED BY <3>1, <3>2
  <2> QED BY <2>1, <2>2
<1>2. CASE CreateByConsole
  BY <1>2 DEF RulesInv, CreateByConsole, world, applied, annals
<1>3. CASE ConsoleReads
  BY <1>3 DEF RulesInv, ConsoleReads, world, applied, annals
<1>4. CASE ConsolePublishes
  BY <1>4 DEF RulesInv, ConsolePublishes, world, applied, annals
<1>5. CASE DetectorReads
  BY <1>5 DEF RulesInv, DetectorReads, world, applied, annals
<1>6. CASE DetectorPublishes
  BY <1>6 DEF RulesInv, DetectorPublishes, world, applied, annals
<1>7. CASE Relayer
  <2>1. /\ base' = {build.rules} /\ build' = Rest /\ mu = Free /\ UNCHANGED mu
        /\ build.rules \in Rules /\ build.at = "relayer"
    BY <1>7 DEF RulesInv, Relayer
  <2>2. CASE ~Empty(overrides') /\ Layered(build.rules, overrides') \notin Invalid
    <3>1. effective'.rules = InEffect(build.rules, overrides')
      BY <1>7, <2>2 DEF Relayer, InEffect
    <3> QED BY <2>1, <3>1
  <2>3. CASE ~(~Empty(overrides') /\ Layered(build.rules, overrides') \notin Invalid)
    <3>1. UNCHANGED <<effective, outdated>>
      BY <1>7, <2>3 DEF Relayer
    <3>2. InEffect(build.rules, overrides') = build.rules
      BY <2>1, <2>3, NothingLayered DEF InEffect
    <3> QED BY <2>1, <3>1, <3>2 DEF RulesInv
  <2> QED BY <2>2, <2>3
<1>8. CASE Publish
  BY <1>8 DEF RulesInv, Publish, InEffect, world, applied, annals
<1>9. CASE Save
  BY <1>9 DEF RulesInv, Save, world, applied, annals
<1>10. CASE Get
  BY <1>10 DEF RulesInv, Get, world, applied, annals
<1>11. CASE Receive
  BY <1>11 DEF RulesInv, Receive, world, applied, annals
<1>12. CASE SyncReads
  BY <1>12 DEF RulesInv, SyncReads, world, applied, annals
<1>13. CASE Sync
  BY <1>13, RebuiltIsLayered DEF RulesInv, Sync, Holds, Rebuilds, world, applied, annals
<1>14. CASE EditBlock
  BY <1>14 DEF RulesInv, EditBlock, world, applied, annals
<1>15. CASE Restart
  BY <1>15 DEF RulesInv, Restart, Fresh, world, applied, annals
<1>16. ASSUME NEW submitted \in Rules, Edit(submitted) PROVE InForce'
  BY <1>16, RebuiltIsLayered DEF RulesInv, Edit, Holds, Rebuilds, world, applied, annals
<1>17. ASSUME NEW o, Elsewhere(o) PROVE InForce'
  BY <1>17 DEF RulesInv, Elsewhere, world, applied, annals
<1>18. ASSUME NEW rules \in Rules, NEW b \in Backends, EditFile(rules, b) PROVE InForce'
  BY <1>18 DEF RulesInv, EditFile, world, applied, annals
<1>19. CASE UNCHANGED rulesVars
  BY <1>19 DEF RulesInv, rulesVars
<1> QED BY <1>1, <1>2, <1>3, <1>4, <1>5, <1>6, <1>7, <1>8, <1>9, <1>10, <1>11, <1>12,
          <1>13, <1>14, <1>15, <1>16, <1>17, <1>18, <1>19 DEF RulesNext, AcquireRuntime, JanitorTick

\* A file store that is opened takes up what was saved.
LEMMA FoundIsSaved ==
    ASSUME Saved
    PROVE  persisted["file"] \subseteq {Found("file")}
<1>1. CASE persisted["file"] = {}
  BY <1>1
<1>2. CASE persisted["file"] # {}
  <2>1. PICK o \in persisted["file"] : persisted["file"] = {o}
    BY <1>2 DEF Saved
  <2>2. (CHOOSE x \in persisted["file"] : TRUE) = o
    BY <2>1
  <2>3. Found("file") = o
    BY <1>2, <2>2 DEF Found
  <2> QED BY <2>1, <2>3
<1> QED BY <1>1, <1>2

\* The one attempt to restore ends with the saved edits in force, or refused.
LEMMA RestoredOrRefused ==
    ASSUME ~loaded, NEW found, NEW rules,
           overrides' = IF Restores(found, rules) THEN found ELSE Reverted,
           refused' = IF Empty(found) \/ overrides' = found THEN {} ELSE {found.stamp}
    PROVE  SameStamp(overrides', found) \/ found.stamp \in refused'
<1>1. Empty(Reverted)
  BY DEF Empty, Reverted, NoEdit
<1>2. CASE overrides' = found
  BY <1>2 DEF SameStamp
<1>3. CASE overrides' # found /\ Empty(found)
  BY <1>1, <1>3 DEF SameStamp
<1>4. CASE overrides' # found /\ ~Empty(found)
  BY <1>4
<1> QED BY <1>2, <1>3, <1>4

LEMMA SavedStep ==
    ASSUME RulesInv, [RulesNext]_rulesVars
    PROVE  Saved'
<1> USE DEF Saved, Process, Free, Rest, NoRules, Backends
<1>1. CASE CreateByDetector
  <2>1. /\ ~loaded /\ mu = Free /\ tick' = tick
        /\ loaded' = TRUE /\ UNCHANGED <<file, persisted, mu, build>> /\ build = Rest
        /\ stored' = Found(file.backend) /\ backend' = file.backend
        /\ backend = "memory"
    BY <1>1 DEF RulesInv, CreateByDetector, world
  <2>2. SameStamp(overrides', stored') \/ stored'.stamp \in refused'
    BY <1>1, <2>1, RestoredOrRefused DEF CreateByDetector
  <2>3. backend' = "file" => persisted'["file"] \subseteq {stored'}
    BY <2>1, FoundIsSaved DEF RulesInv
  <2>4. tick.at = "rest"
    BY <2>1 DEF RulesInv
  <2> QED BY <2>1, <2>2, <2>3, <2>4 DEF RulesInv
<1>2. CASE CreateByConsole
  BY <1>2 DEF RulesInv, CreateByConsole, world, applied, annals
<1>3. CASE ConsoleReads
  BY <1>3 DEF RulesInv, ConsoleReads, world, applied, annals
<1>4. CASE ConsolePublishes
  BY <1>4 DEF RulesInv, ConsolePublishes, world, applied, annals
<1>5. CASE DetectorReads
  <2>1. /\ UNCHANGED <<file, persisted, loaded, overrides, mu, tick, refused>>
        /\ backend' = file.backend /\ build'.at = "detector"
        /\ stored' = IF backend = file.backend THEN stored ELSE Found(file.backend)
    BY <1>5 DEF DetectorReads, world, annals
  <2>2. backend' = "file" => persisted'["file"] \subseteq {stored'}
    BY <2>1, FoundIsSaved DEF RulesInv
  <2>3. backend' = "file" /\ loaded => backend = "file"
    BY <2>1 DEF RulesInv
  <2> QED BY <2>1, <2>2, <2>3 DEF RulesInv
<1>6. CASE DetectorPublishes
  BY <1>6 DEF RulesInv, DetectorPublishes, world, applied, annals
<1>7. CASE Relayer
  BY <1>7 DEF RulesInv, Relayer, Restores, SameStamp, Empty,
              Reverted, NoEdit, world, applied, annals
<1>8. CASE Publish
  BY <1>8 DEF RulesInv, Publish, world, applied, annals
<1>9. CASE Save
  BY <1>9 DEF RulesInv, Save, SameStamp, world, applied, annals
<1>10. CASE Get
  BY <1>10 DEF RulesInv, Get, world, applied, annals
<1>11. CASE Receive
  BY <1>11 DEF RulesInv, Receive, world, applied, annals
<1>12. CASE SyncReads
  BY <1>12 DEF RulesInv, SyncReads, world, applied, annals
<1>13. CASE Sync
  BY <1>13 DEF RulesInv, Sync, Holds, Rebuilds, world, applied, annals
<1>14. CASE EditBlock
  BY <1>14 DEF RulesInv, EditBlock, world, applied, annals
<1>15. CASE Restart
  BY <1>15 DEF RulesInv, Restart, Fresh, world, applied, annals
<1>16. ASSUME NEW submitted \in Rules, Edit(submitted) PROVE Saved'
  BY <1>16 DEF RulesInv, Edit, Holds, world, applied, annals
<1>17. ASSUME NEW o, Elsewhere(o) PROVE Saved'
  BY <1>17 DEF RulesInv, Elsewhere, world, applied, annals
<1>18. ASSUME NEW rules \in Rules, NEW b \in Backends, EditFile(rules, b) PROVE Saved'
  BY <1>18 DEF RulesInv, EditFile, world, applied, annals
<1>19. CASE UNCHANGED rulesVars
  BY <1>19 DEF RulesInv, rulesVars
<1> QED BY <1>1, <1>2, <1>3, <1>4, <1>5, <1>6, <1>7, <1>8, <1>9, <1>10, <1>11, <1>12,
          <1>13, <1>14, <1>15, <1>16, <1>17, <1>18, <1>19 DEF RulesNext, AcquireRuntime, JanitorTick

\* A store of either kind that is opened takes up what was saved in it.
LEMMA FoundIsKept ==
    ASSUME NEW b \in {"file", "redis"}, NEW e \in persisted[b],
           \E o \in persisted[b] : persisted[b] = {o}
    PROVE  Found(b) = e
<1>1. persisted[b] = {e}
  OBVIOUS
<1>2. (CHOOSE x \in persisted[b] : TRUE) = e
  BY <1>1
<1> QED BY <1>1, <1>2 DEF Found

LEMMA KeptStep ==
    ASSUME RulesInv, [RulesNext]_rulesVars
    PROVE  Upheld'
<1> USE DEF Upheld, Process, Free, Rest, NoRules, Backends
<1>1. CASE CreateByDetector
  <2>1. /\ ~loaded /\ mu = Free /\ loaded' = TRUE /\ build = Rest
        /\ UNCHANGED <<file, persisted, mu, build, latest>>
        /\ stored' = Found(file.backend) /\ backend' = file.backend
    BY <1>1 DEF RulesInv, CreateByDetector, world
  <2>2. SameStamp(overrides', stored') \/ stored'.stamp \in refused'
    BY <1>1, <2>1, RestoredOrRefused DEF CreateByDetector
  <2>3. \A e \in latest : e = stored' \/ (backend' = "redis" /\ persisted["redis"] = {})
    BY <2>1, FoundIsKept DEF RulesInv, Saved
  <2>4. \A e \in latest' : Accounted(e)'
    BY <2>1, <2>2, <2>3 DEF Accounted
  <2> QED BY <2>1, <2>4 DEF RulesInv
<1>2. CASE CreateByConsole
  BY <1>2 DEF RulesInv, Saved, CreateByConsole, world, applied, annals
<1>3. CASE ConsoleReads
  BY <1>3 DEF RulesInv, ConsoleReads, Accounted, world, applied, annals
<1>4. CASE ConsolePublishes
  BY <1>4 DEF RulesInv, ConsolePublishes, Accounted, world, applied, annals
<1>5. CASE DetectorReads
  <2>1. /\ UNCHANGED <<file, persisted, loaded, overrides, mu, tick, annals>>
        /\ build = Rest /\ backend' = file.backend /\ build'.at = "detector"
        /\ stored' = IF backend = file.backend THEN stored ELSE Found(file.backend)
    BY <1>5 DEF DetectorReads, world
  <2>2. ASSUME ~loaded
        PROVE  \A e \in latest : e = stored' \/ (backend' = "redis" /\ persisted["redis"] = {})
    <3>1. backend = "memory"
      BY <2>1, <2>2 DEF RulesInv
    <3>2. \A e \in latest : backend # file.backend
      BY <2>2, <3>1 DEF RulesInv
    <3> QED BY <2>1, <2>2, <3>2, FoundIsKept DEF RulesInv, Saved
  <2>3. loaded => \A e \in latest' : Accounted(e)'
    BY <2>1 DEF RulesInv, Saved, Accounted, annals
  <2> QED BY <2>1, <2>2, <2>3 DEF RulesInv, annals
<1>6. CASE DetectorPublishes
  BY <1>6 DEF RulesInv, DetectorPublishes, Accounted, world, applied, annals
<1>7. CASE Relayer
  <2>1. /\ UNCHANGED <<file, persisted, latest, backend, stored, mu, tick>>
        /\ mu = Free /\ loaded' = TRUE /\ build.at = "relayer"
        /\ overrides' = IF Restores(stored, build.rules) THEN stored ELSE overrides
        /\ refused' = IF loaded \/ Empty(stored) \/ overrides' = stored THEN refused
                      ELSE {stored.stamp}
    BY <1>7 DEF Relayer, world
  <2>2. CASE loaded
    BY <2>1, <2>2 DEF RulesInv, Restores, Accounted
  <2>3. CASE ~loaded
    <3>1. SameStamp(overrides', stored) \/ stored.stamp \in refused'
      BY <2>1, <2>3 DEF RulesInv, SameStamp, Empty, Reverted, NoEdit
    <3>2. \A e \in latest' : Accounted(e)'
      BY <2>1, <2>3, <3>1 DEF RulesInv, Accounted
    <3> QED BY <2>1, <3>2 DEF RulesInv
  <2> QED BY <2>2, <2>3
<1>8. CASE Publish
  <2>1. SameStamp(mu.next, mu.next)
    BY DEF SameStamp
  <2> QED BY <1>8, <2>1 DEF RulesInv, Saved, Publish, Accounted, world, applied, annals
<1>9. CASE Save
  <2>1. SameStamp(mu.next, mu.next)
    BY DEF SameStamp
  <2> QED BY <1>9, <2>1 DEF RulesInv, Saved, Save, Accounted, world, applied, annals
<1>10. CASE Get
  BY <1>10 DEF RulesInv, Get, Accounted, world, applied, annals
<1>11. CASE Receive
  <2>1. /\ UNCHANGED <<file, persisted, loaded, overrides, backend, build, mu, annals>>
        /\ tick.at = "got" /\ tick'.at = "sync"
        /\ stored' = IF backend = "redis" /\ tick.reply # {} THEN CHOOSE o \in tick.reply : TRUE
                     ELSE stored
    BY <1>11 DEF Receive, Received, world
  <2>2. ASSUME ~loaded, build.at \in {"detector", "relayer"}, NEW e \in latest,
               persisted["redis"] # {}
        PROVE  e = stored'
    <3>1. backend = "redis" /\ file.backend = "redis"
      BY <2>1 DEF RulesInv, Saved
    <3>2. tick.reply = {e}
      BY <2>1, <2>2, <3>1 DEF RulesInv
    <3>3. (CHOOSE o \in tick.reply : TRUE) = e
      BY <3>2
    <3> QED BY <2>1, <3>1, <3>2, <3>3
  <2>3. loaded => \A e \in latest' : Accounted(e)'
    BY <2>1 DEF RulesInv, Accounted, annals
  <2>4. tick.at = "got" => backend = "redis"
    BY DEF RulesInv, Saved
  <2> QED BY <2>1, <2>2, <2>3, <2>4 DEF RulesInv, annals
<1>12. CASE SyncReads
  BY <1>12 DEF RulesInv, SyncReads, Accounted, world, applied, annals
<1>13. CASE Sync
  BY <1>13 DEF RulesInv, Sync, Holds, Rebuilds, Accounted, world, applied, annals
<1>14. CASE EditBlock
  BY <1>14 DEF RulesInv, EditBlock, Accounted, world, applied, annals
<1>15. CASE Restart
  <2>1. latest' = IF file.backend = "memory" THEN {} ELSE persisted[file.backend]
    BY <1>15 DEF Restart
  <2> QED BY <1>15, <2>1 DEF RulesInv, Saved, Restart, Fresh, Reverted, NoEdit
<1>16. ASSUME NEW submitted \in Rules, Edit(submitted) PROVE Upheld'
  BY <1>16 DEF RulesInv, Edit, Holds, Accounted, world, applied, annals
<1>17. ASSUME NEW o, file.backend = "redis", Elsewhere(o) PROVE Upheld'
  BY <1>17 DEF RulesInv, Saved, Elsewhere, world, applied, annals
<1>18. ASSUME NEW rules \in Rules, NEW b \in Backends, EditFile(rules, b) PROVE Upheld'
  BY <1>18 DEF RulesInv, Saved, EditFile, Accounted, world, applied, annals
<1>19. CASE UNCHANGED rulesVars
  BY <1>19 DEF RulesInv, Accounted, rulesVars
<1> QED BY <1>1, <1>2, <1>3, <1>4, <1>5, <1>6, <1>7, <1>8, <1>9, <1>10, <1>11, <1>12,
          <1>13, <1>14, <1>15, <1>16, <1>17, <1>18, <1>19 DEF RulesNext, AcquireRuntime, JanitorTick

-----------------------------------------------------------------------------

LEMMA RulesInvariant == RulesSpec => []RulesInv
<1>1. RulesInv /\ [RulesNext]_rulesVars => RulesInv'
  BY ProcessStep, InForceStep, SavedStep, KeptStep DEF RulesInv
<1> QED BY RulesInitInv, <1>1, PTL DEF RulesSpec

\* A reload re-layers the console's edits on the file's new rules, whatever edits,
\* reloads of either middleware and refreshes overlap it, but for the two races that
\* are recorded in outdated; and no reload or restart loses the last edits, but for the
\* switch to a Redis that was never given any (runtime.go:218-309, 737-762).
THEOREM EditsCorrect == RulesSpec => []EditsStayInForce
<1>1. RulesInv => EditsStayInForce
  <2> SUFFICES ASSUME RulesInv, Settled
               PROVE  /\ ~outdated => effective.rules = InEffect(file.rules, overrides)
                      /\ \A e \in latest : Accounted(e)
    BY DEF EditsStayInForce, Accounted
  <2>1. build.at # "relayer" /\ base = {file.rules}
    BY DEF RulesInv, Process, Settled, Rest
  <2>2. loaded
    BY <2>1 DEF RulesInv, Process, NoRules
  <2> QED BY <2>1, <2>2 DEF RulesInv, InForce, Upheld
<1> QED BY RulesInvariant, <1>1, PTL

\* In whatever order the middlewares are built after a restart, the edits saved in a
\* file are those in force, unless the startup refused them.
THEOREM RestoreCorrect == RulesSpec => []SavedEditsAreRestored
<1>1. RulesInv => SavedEditsAreRestored
  <2> SUFFICES ASSUME RulesInv, Settled, backend = "file"
               PROVE  \/ /\ SameStamp(overrides, stored)
                         /\ persisted["file"] \subseteq {stored}
                      \/ stored.stamp \in refused
    BY DEF SavedEditsAreRestored
  <2>1. base = {file.rules} /\ mu.by # "save"
    BY DEF RulesInv, Process, Settled, Rest, Free
  <2>2. loaded
    BY <2>1 DEF RulesInv, Process, NoRules
  <2> QED BY <2>1, <2>2 DEF RulesInv, Saved
<1> QED BY RulesInvariant, <1>1, PTL
=============================================================================
