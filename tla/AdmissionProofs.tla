--------------------------- MODULE AdmissionProofs ---------------------------
(***************************************************************************)
(* What Admission and ClientAddress promise, for every set of addresses,   *)
(* proxies and prefixes and for a chain of proxies of any length.          *)
(***************************************************************************)
EXTENDS Admission, FiniteSetTheorems, WellFoundedInduction, TLAPS

-----------------------------------------------------------------------------
(* Induction over the natural numbers, in terms of sets. *)

\* The least natural number of a set.
LEMMA LeastNat ==
    ASSUME NEW T, T \subseteq Nat, T # {}
    PROVE  \E m \in T : \A n \in T : m <= n
<1>1. IsWellFoundedOn(OpToRel(<, Nat), Nat)
  BY NatLessThanWellFounded
<1>2. PICK m \in T : \A n \in T : ~(<<n, m>> \in OpToRel(<, Nat))
  BY <1>1, WFMin
<1>3. \A n \in T : ~(<<n, m>> \in {p \in Nat \X Nat : p[1] < p[2]})
  BY <1>2, Zenon DEF OpToRel
<1>4. ASSUME NEW n \in T
      PROVE  m <= n
  <2>1. m \in Nat /\ n \in Nat
    OBVIOUS
  <2>2. ~(<<n, m>>[1] < <<n, m>>[2])
    BY <1>3, <2>1, Zenon
  <2>. QED BY <2>1, <2>2
<1>. QED BY <1>4

\* A set that holds 0 and with every number the next one holds them all.
LEMMA NatSet ==
    ASSUME NEW S, 0 \in S, \A n \in Nat : n \in S => n + 1 \in S
    PROVE  Nat \subseteq S
<1>1. SUFFICES ASSUME Nat \ S # {}
               PROVE  FALSE
  OBVIOUS
<1>2. PICK m \in Nat \ S : \A n \in Nat \ S : m <= n
  BY <1>1, LeastNat
<1>3. m # 0 /\ m - 1 \in Nat
  BY <1>2
<1>4. m - 1 \in S
  BY <1>2, <1>3
<1>. QED BY <1>2, <1>3, <1>4

-----------------------------------------------------------------------------
(* FlattenSeq: what it is, and how it grows. *)

\* The recursion by which FlattenSeq is defined, and its first N steps.
Flattens(f, ls) ==
    f = [i \in 1..Len(ls) |-> IF i = 1 THEN ls[i] ELSE f[i - 1] \o ls[i]]
FlattensTo(f, ls, N) ==
    \A i \in 1..N : f[i] = IF i = 1 THEN ls[i] ELSE f[i - 1] \o ls[i]
Alike(s, t, N) == \A i \in 1..N : s[i] = t[i]

\* Two functions of that recursion agree as long as their sequences do.
LEMMA FlatteningsAgree ==
    ASSUME NEW N \in Nat, NEW s, NEW t, NEW f, NEW g,
           Alike(s, t, N), FlattensTo(f, s, N), FlattensTo(g, t, N)
    PROVE  Alike(f, g, N)
<1> USE DEF Alike, FlattensTo
<1> DEFINE Same == {n \in Nat : n \in 1..N => f[n] = g[n]}
<1>1. 0 \in Same
  OBVIOUS
<1>2. ASSUME NEW n \in Nat, n \in Same
      PROVE  n + 1 \in Same
  <2>1. CASE n = 0
    BY <2>1
  <2>2. CASE n # 0 /\ n + 1 \in 1..N
    <3>1. n \in 1..N /\ n + 1 # 1 /\ (n + 1) - 1 = n
      BY <2>2
    <3>2. f[n] = g[n]
      BY <1>2, <3>1
    <3>. QED BY <2>2, <3>1, <3>2
  <2>3. CASE n # 0 /\ n + 1 \notin 1..N
    BY <2>3
  <2>. QED BY <2>1, <2>2, <2>3
<1> HIDE DEF Same
<1>3. Nat \subseteq Same
  BY <1>1, <1>2, NatSet
<1>. QED BY <1>3 DEF Same

\* There is such a function, and its values are sequences.
LEMMA FlatteningExists ==
    ASSUME NEW S, NEW ls \in Seq(Seq(S))
    PROVE  \E f : Flattens(f, ls) /\ \A i \in 1..Len(ls) : f[i] \in Seq(S)
<1> DEFINE Upto(n) == \E f : FlattensTo(f, ls, n) /\ \A i \in 1..n : f[i] \in Seq(S)
           Some == {n \in Nat : n <= Len(ls) => Upto(n)}
<1>0. Len(ls) \in Nat
  OBVIOUS
<1>1. 0 \in Some
  <2>1. 1..0 = {}
    OBVIOUS
  <2>2. Upto(0)
    BY <2>1 DEF FlattensTo
  <2> HIDE DEF Upto
  <2>. QED BY <2>2
<1>2. ASSUME NEW n \in Nat, n \in Some, n + 1 <= Len(ls)
      PROVE  Upto(n + 1)
  <2>1. n <= Len(ls)
    BY <1>0, <1>2
  <2>2. Upto(n)
    <3> HIDE DEF Upto
    <3>. QED BY <1>2, <2>1
  <2>3. PICK f : FlattensTo(f, ls, n) /\ \A i \in 1..n : f[i] \in Seq(S)
    BY <2>2
  <2> DEFINE last == IF n = 0 THEN ls[1] ELSE f[n] \o ls[n + 1]
             g == [i \in 1..(n + 1) |-> IF i = n + 1 THEN last ELSE f[i]]
  <2>4. last \in Seq(S)
    <3>1. ls[n + 1] \in Seq(S)
      BY <1>2
    <3>. QED BY <3>1, <2>3
  <2> HIDE DEF last
  <2>5. ASSUME NEW i \in 1..(n + 1)
        PROVE  g[i] \in Seq(S) /\ g[i] = IF i = 1 THEN ls[i] ELSE g[i - 1] \o ls[i]
    <3>1. CASE i = n + 1
      <4>1. i # 1 => i - 1 \in 1..(n + 1) /\ i - 1 # n + 1 /\ i - 1 = n /\ n # 0
        BY <3>1
      <4>2. g[i] = last /\ (i # 1 => g[i - 1] = f[n])
        BY <3>1, <4>1
      <4>3. i = 1 => n = 0
        BY <3>1
      <4> HIDE DEF g
      <4>. QED BY <3>1, <4>1, <4>2, <4>3, <2>4 DEF last
    <3>2. CASE i # n + 1
      <4>1. i \in 1..n /\ (i # 1 => i - 1 \in 1..n /\ i - 1 # n + 1)
        BY <3>2
      <4>2. g[i] = f[i] /\ (i # 1 => g[i - 1] = f[i - 1])
        BY <3>2, <4>1
      <4>3. f[i] \in Seq(S) /\ f[i] = IF i = 1 THEN ls[i] ELSE f[i - 1] \o ls[i]
        BY <4>1, <2>3 DEF FlattensTo
      <4>. QED BY <4>2, <4>3
    <3>. QED BY <3>1, <3>2
  <2> HIDE DEF g
  <2>6. FlattensTo(g, ls, n + 1) /\ \A i \in 1..(n + 1) : g[i] \in Seq(S)
    BY <2>5 DEF FlattensTo
  <2>. QED BY <2>6
<1> HIDE DEF Upto
<1>3. ASSUME NEW n \in Nat, n \in Some
      PROVE  n + 1 \in Some
  BY <1>2, <1>3
<1>4. Len(ls) \in Some
  <2> HIDE DEF Some
  <2>. QED BY <1>0, <1>1, <1>3, NatSet
<1>5. Upto(Len(ls))
  BY <1>0, <1>4
<1>6. PICK f : FlattensTo(f, ls, Len(ls)) /\ \A i \in 1..Len(ls) : f[i] \in Seq(S)
  BY <1>5 DEF Upto
<1> DEFINE g == [i \in 1..Len(ls) |-> f[i]]
<1>7. ASSUME NEW i \in 1..Len(ls)
      PROVE  g[i] \in Seq(S) /\ g[i] = IF i = 1 THEN ls[i] ELSE g[i - 1] \o ls[i]
  <2>1. i # 1 => i - 1 \in 1..Len(ls)
    BY <1>0
  <2>2. g[i] = f[i] /\ (i # 1 => g[i - 1] = f[i - 1])
    BY <2>1
  <2>. QED BY <1>6, <2>2 DEF FlattensTo
<1>8. g = [i \in 1..Len(ls) |-> IF i = 1 THEN ls[i] ELSE g[i - 1] \o ls[i]]
  BY <1>7
<1> HIDE DEF g
<1>. QED BY <1>7, <1>8 DEF Flattens

\* FlattenSeq takes its last value.
LEMMA FlattenSeqIs ==
    ASSUME NEW S, NEW ls \in Seq(Seq(S)), ls # <<>>
    PROVE  \E f : /\ FlattensTo(f, ls, Len(ls))
                  /\ FlattenSeq(ls) = f[Len(ls)] /\ f[Len(ls)] \in Seq(S)
<1> DEFINE c == CHOOSE f : Flattens(f, ls)
<1>1. PICK f : Flattens(f, ls) /\ \A i \in 1..Len(ls) : f[i] \in Seq(S)
  BY FlatteningExists
<1>2. Flattens(c, ls)
  BY <1>1, Zenon
<1>3. Len(ls) # 0
  OBVIOUS
<1>4. FlattenSeq(ls) = c[Len(ls)]
  BY <1>3, Zenon DEF FlattenSeq, Flattens
<1> HIDE DEF c
<1>5. Len(ls) \in Nat /\ Len(ls) \in 1..Len(ls)
  OBVIOUS
<1>6. FlattensTo(c, ls, Len(ls)) /\ FlattensTo(f, ls, Len(ls)) /\ Alike(ls, ls, Len(ls))
  BY <1>1, <1>2 DEF Flattens, FlattensTo, Alike
<1>7. Alike(c, f, Len(ls))
  BY <1>5, <1>6, FlatteningsAgree
<1>8. c[Len(ls)] = f[Len(ls)]
  BY <1>5, <1>7 DEF Alike
<1>. QED BY <1>1, <1>4, <1>5, <1>6, <1>8

\* FlattenSeq ends with the last of its sequences.
LEMMA FlattenSeqStep ==
    ASSUME NEW S, NEW ls \in Seq(Seq(S)), NEW l \in Seq(S)
    PROVE  /\ FlattenSeq(ls) \in Seq(S)
           /\ FlattenSeq(<<>>) = <<>>
           /\ FlattenSeq(Append(ls, l)) = FlattenSeq(ls) \o l
<1>1. FlattenSeq(<<>>) = <<>> /\ <<>> \in Seq(S)
  BY DEF FlattenSeq
<1>2. FlattenSeq(ls) \in Seq(S)
  <2>1. CASE ls = <<>>
    BY <2>1, <1>1, Zenon
  <2>2. CASE ls # <<>>
    BY <2>2, FlattenSeqIs
  <2>. QED BY <2>1, <2>2
<1> DEFINE more == Append(ls, l)
           n == Len(ls)
<1>3. n \in Nat
  OBVIOUS
<1>4. more \in Seq(Seq(S)) /\ Len(more) = n + 1 /\ more # <<>>
  <2> DEFINE T == Seq(S)
  <2>1. ls \in Seq(T) /\ l \in T
    OBVIOUS
  <2> HIDE DEF T
  <2>2. Append(ls, l) \in Seq(T) /\ Len(Append(ls, l)) = Len(ls) + 1
    BY <2>1
  <2>3. Len(<<>>) = 0
    OBVIOUS
  <2>. QED BY <1>3, <2>2, <2>3 DEF T
<1>5. more[n + 1] = l
  OBVIOUS
<1>6. \A i \in 1..n : more[i] = ls[i]
  OBVIOUS
<1> HIDE DEF more
<1>7. PICK g : FlattensTo(g, more, Len(more)) /\ FlattenSeq(more) = g[Len(more)]
  BY <1>4, FlattenSeqIs
<1>8. CASE ls = <<>>
  <2>1. n = 0
    BY <1>8
  <2>2. FlattenSeq(more) = l
    BY <2>1, <1>4, <1>5, <1>7 DEF FlattensTo
  <2>3. FlattenSeq(ls) = <<>>
    BY <1>1, <1>8, Zenon
  <2>4. <<>> \o l = l
    OBVIOUS
  <2>. QED BY <1>1, <1>2, <2>2, <2>3, <2>4 DEF more
<1>9. CASE ls # <<>>
  <2>1. PICK f : FlattensTo(f, ls, n) /\ FlattenSeq(ls) = f[n]
    BY <1>9, FlattenSeqIs
  <2>2. n # 0
    BY <1>9
  <2> HIDE DEF n
  <2>3. n \in 1..n /\ n + 1 \in 1..(n + 1) /\ n + 1 # 1 /\ (n + 1) - 1 = n
        /\ 1..n \subseteq 1..(n + 1)
    BY <1>3, <2>2
  <2>4. FlattensTo(g, more, n + 1) /\ FlattensTo(g, more, n) /\ Alike(ls, more, n)
    BY <1>4, <1>6, <1>7, <2>3 DEF FlattensTo, Alike
  <2>5. Alike(f, g, n)
    BY <1>3, <2>1, <2>4, FlatteningsAgree
  <2>6. f[n] = g[n]
    BY <2>3, <2>5 DEF Alike
  <2>7. g[n + 1] = g[n] \o l
    BY <1>5, <2>3, <2>4 DEF FlattensTo
  <2>. QED BY <1>1, <1>2, <1>4, <1>7, <2>1, <2>6, <2>7 DEF more
<1>. QED BY <1>8, <1>9
-----------------------------------------------------------------------------
(* The forwarding headers on their way. *)

\* What may stand in a header for an address, and the entries of proxies.
NamesFor(a)   == {a, Ported(a)}
OfAProxy(e)   == ParsePeer(e) \in TrustedProxies
Hops(w)       == FlattenSeq(w.lines)

\* What a header reads like that says who sent the request: behind the entry
\* that names the origin, or that cannot be read, there are only proxies.
Tells(hops, origin, clean) ==
    \E i \in 1..Len(hops) :
        /\ hops[i] \in NamesFor(origin) \cup {Malformed}
        /\ \A j \in (i + 1)..Len(hops) : OfAProxy(hops[j])
        /\ clean => hops[i] # Malformed

\* Nobody but proxies has written in a header.
OnlyProxies(hops) ==
    \A i \in 1..Len(hops) : hops[i] = Malformed \/ OfAProxy(hops[i])

\* As it left its origin; through some proxies; or a proxy's own.
AsSent(w)  == w.origin \in Untrusted /\ w.from = w.origin
Relayed(w) ==
    /\ w.origin \in Untrusted /\ w.from \in TrustedProxies
    /\ w.single # <<>> /\ w.single[1] \in NamesFor(w.origin)
    /\ Tells(Hops(w), w.origin, w.clean)
ProxysOwn(w) ==
    /\ w.origin \in TrustedProxies /\ w.from \in TrustedProxies /\ ~w.clean
    /\ \A i \in 1..Len(w.single) : w.single[i] \in TrustedProxies
    /\ OnlyProxies(Hops(w))
Truthful(w) == AsSent(w) \/ Relayed(w) \/ ProxysOwn(w)

Journeys ==
    [origin : Addresses, from : Addresses, lines : Seq(Seq(Entries)), single : Seq(Entries),
     clean : BOOLEAN]

\* An entry names the address it is made of, and no two kinds of entry are alike.
LEMMA EntriesAreRead ==
    /\ Addresses \subseteq Entries /\ Malformed \in Entries
    /\ \A a \in Addresses : /\ Ported(a) \in Entries
                            /\ ParsePeer(a) = a /\ ParsePeer(Ported(a)) = a
                            /\ {a, Ported(a)} \cap {Blank, Malformed, Nobody} \subseteq {Nobody}
    /\ ParsePeer(Malformed) = Nobody /\ Malformed # Blank
    /\ Nobody \notin Addresses /\ TrustedProxies \subseteq Addresses
<1>1. Addresses \subseteq Entries /\ Malformed \in Entries
  BY DEF Entries
<1>2. ASSUME NEW a \in Addresses
      PROVE  /\ Ported(a) \in Entries
             /\ ParsePeer(a) = a /\ ParsePeer(Ported(a)) = a
             /\ {a, Ported(a)} \cap {Blank, Malformed, Nobody} \subseteq {Nobody}
  <2>1. Ported(a) \in Entries
    BY DEF Entries
  <2>2. ParsePeer(a) = a
    BY DEF ParsePeer
  <2>3. Ported(a) \notin Addresses \cup {Blank, Malformed} /\ a \notin {Blank, Malformed}
    BY AddressAssumption
  <2>4. ParsePeer(Ported(a)) = a
    BY <2>3 DEF ParsePeer, Ported
  <2>. QED BY <2>1, <2>2, <2>3, <2>4
<1>3. ParsePeer(Malformed) = Nobody
  BY AddressAssumption DEF ParsePeer
<1>. QED BY <1>1, <1>2, <1>3, AddressAssumption

\* Sequences are equal that have the same entries.
LEMMA SameEntries ==
    ASSUME NEW T, NEW s \in Seq(T), NEW t \in Seq(T), NEW n \in Nat, Len(s) = n, Len(t) = n,
           \A i \in 1..n : s[i] = t[i]
    PROVE  s = t
OBVIOUS

LEMMA JoinedAndAppended ==
    ASSUME NEW T, NEW s \in Seq(T), NEW t \in Seq(T), NEW e \in T
    PROVE  s \o Append(t, e) = Append(s \o t, e)
OBVIOUS

\* A hop adds its entry at the end of the chain, on whichever line.
LEMMA WithHopAppends ==
    ASSUME NEW ls \in Seq(Seq(Entries)), NEW e \in Entries, NEW more \in WithHop(ls, e)
    PROVE  more \in Seq(Seq(Entries)) /\ FlattenSeq(more) = Append(FlattenSeq(ls), e)
<1> DEFINE T == Seq(Entries)
<1>1. CASE more = Append(ls, <<e>>)
  <2>1. <<e>> \in T
    OBVIOUS
  <2>2. Append(ls, <<e>>) \in Seq(T)
    <3>1. ls \in Seq(T)
      OBVIOUS
    <3> HIDE DEF T
    <3>. QED BY <2>1, <3>1
  <2>3. FlattenSeq(ls) \in T /\ FlattenSeq(Append(ls, <<e>>)) = FlattenSeq(ls) \o <<e>>
    BY <2>1, FlattenSeqStep
  <2>4. FlattenSeq(ls) \o <<e>> = Append(FlattenSeq(ls), e)
    BY <2>3
  <2>. QED BY <1>1, <2>2, <2>3, <2>4
<1>2. CASE ls # <<>> /\ more = [ls EXCEPT ![Len(ls)] = Append(@, e)]
  <2> DEFINE n     == Len(ls)
             front == [i \in 1..(n - 1) |-> ls[i]]
             last  == ls[n]
  <2>1. n \in Nat \ {0}
    BY <1>2
  <2>2. ls \in Seq(T)
    OBVIOUS
  <2>3. \A i \in 1..n : i = n \/ i \in 1..(n - 1)
    BY <2>1
  <2>4. /\ front \in Seq(T) /\ Len(front) = n - 1 /\ \A i \in 1..(n - 1) : front[i] = ls[i]
        /\ last \in T /\ last = ls[n]
    <3> HIDE DEF T
    <3>. QED BY <2>1, <2>2
  <2>5. Append(last, e) \in T
    BY <2>4
  <2>6. more \in Seq(T) /\ Len(more) = n /\ more[n] = Append(last, e)
        /\ \A i \in 1..(n - 1) : more[i] = ls[i]
    <3> HIDE DEF T
    <3>. QED BY <1>2, <2>1, <2>5, <2>2
  <2>7. Len(ls) = n
    OBVIOUS
  <2> HIDE DEF front, last, n
  <2>8. ASSUME NEW l \in T
        PROVE  /\ Append(front, l) \in Seq(T) /\ Len(Append(front, l)) = n
               /\ Append(front, l)[n] = l
               /\ \A i \in 1..(n - 1) : Append(front, l)[i] = ls[i]
    <3> HIDE DEF T
    <3>1. Append(front, l) \in Seq(T) /\ Len(Append(front, l)) = n
      BY <2>1, <2>4
    <3>2. Append(front, l)[n] = l
      BY <2>1, <2>4
    <3>3. \A i \in 1..(n - 1) : Append(front, l)[i] = front[i]
      BY <2>1, <2>4
    <3>. QED BY <2>4, <3>1, <3>2, <3>3
  <2>9. ls = Append(front, last)
    <3> HIDE DEF T
    <3>1. \A i \in 1..n : ls[i] = Append(front, last)[i]
      BY <2>4, <2>3, <2>8
    <3>. QED BY <2>1, <2>4, <2>2, <2>7, <2>8, <3>1, SameEntries
  <2>10. more = Append(front, Append(last, e))
    <3> HIDE DEF T
    <3>1. \A i \in 1..n : more[i] = Append(front, Append(last, e))[i]
      BY <2>5, <2>6, <2>3, <2>8
    <3>. QED BY <2>1, <2>5, <2>6, <2>8, <3>1, SameEntries
  <2>11. FlattenSeq(front) \in T /\ FlattenSeq(ls) = FlattenSeq(front) \o last
        /\ FlattenSeq(more) = FlattenSeq(front) \o Append(last, e)
    BY <2>4, <2>5, <2>9, <2>10, FlattenSeqStep
  <2>12. FlattenSeq(front) \o Append(last, e) = Append(FlattenSeq(front) \o last, e)
    <3>1. FlattenSeq(front) \in Seq(Entries) /\ last \in Seq(Entries)
      BY <2>4, <2>11
    <3>2. \A s, t \in Seq(Entries), x \in Entries : s \o Append(t, x) = Append(s \o t, x)
      BY JoinedAndAppended
    <3> HIDE DEF T
    <3>. QED BY <3>1, <3>2
  <2>. QED BY <2>6, <2>11, <2>12
<1>. QED BY <1>1, <1>2 DEF WithHop

\* One more hop keeps a header telling: a name of the origin or an entry that
\* cannot be read starts it anew, and a proxy's name may follow.
LEMMA HopKeepsTelling ==
    ASSUME NEW hops \in Seq(Entries), NEW origin \in Addresses, NEW clean \in BOOLEAN,
           NEW from \in TrustedProxies, NEW e \in NamesFor(from) \cup {Malformed},
           Tells(hops, origin, clean)
    PROVE  Tells(Append(hops, e), origin, clean /\ e # Malformed)
<1> DEFINE more == Append(hops, e)
           n == Len(hops)
<1>1. e \in Entries /\ n \in Nat
  BY EntriesAreRead DEF NamesFor
<1>2. Len(more) = n + 1 /\ more[n + 1] = e /\ \A i \in 1..n : more[i] = hops[i]
  BY <1>1
<1> HIDE DEF more, n
<1>3. CASE e = Malformed
  <2>1. n + 1 \in 1..Len(more) /\ \A j \in ((n + 1) + 1)..Len(more) : FALSE
    BY <1>1, <1>2
  <2>. QED BY <1>2, <1>3, <2>1 DEF Tells, more
<1>4. CASE e # Malformed
  <2>1. OfAProxy(e)
    BY <1>4, EntriesAreRead DEF NamesFor, OfAProxy
  <2>2. PICK i \in 1..n : /\ hops[i] \in NamesFor(origin) \cup {Malformed}
                          /\ \A j \in (i + 1)..n : OfAProxy(hops[j])
                          /\ clean => hops[i] # Malformed
    BY DEF Tells, n
  <2>3. i \in 1..Len(more) /\ more[i] = hops[i]
    BY <1>1, <1>2
  <2>4. ASSUME NEW j \in (i + 1)..Len(more)
        PROVE  OfAProxy(more[j])
    <3>1. j = n + 1 \/ (j \in (i + 1)..n /\ j \in 1..n)
      BY <1>1, <1>2
    <3>. QED BY <1>2, <2>1, <2>2, <3>1
  <2>. QED BY <2>2, <2>3, <2>4 DEF Tells, more
<1>. QED BY <1>3, <1>4

\* What one proxy does to a request keeps it truthful.
LEMMA HopIsTruthful ==
    ASSUME NEW w \in Journeys, Truthful(w),
           NEW p \in TrustedProxies, NEW e \in {w.from, Ported(w.from), Malformed},
           NEW ls \in WithHop(w.lines, e), NEW h \in Stamped(w), NEW u,
           u = Handed(w, p, e, ls, h)
    PROVE  u \in Journeys /\ Truthful(u)
<1>1. /\ w.origin \in Addresses /\ w.from \in Addresses /\ w.lines \in Seq(Seq(Entries))
      /\ w.single \in Seq(Entries) /\ w.clean \in BOOLEAN
  BY DEF Journeys
<1>2. e \in Entries /\ p \in Addresses
  BY <1>1, EntriesAreRead
<1>3. ls \in Seq(Seq(Entries)) /\ FlattenSeq(ls) = Append(FlattenSeq(w.lines), e)
      /\ FlattenSeq(w.lines) \in Seq(Entries)
  BY <1>1, <1>2, WithHopAppends, FlattenSeqStep
<1>4. /\ u.origin = w.origin /\ u.from = p /\ u.lines = ls /\ u.single = h
      /\ u.clean = (w.clean /\ e # Malformed)
  BY DEF Journeys, Handed
<1>5. h \in Seq(Entries)
  <2>1. w.from \in Entries /\ Ported(w.from) \in Entries
    BY <1>1, EntriesAreRead
  <2>2. /\ <<w.from>> \in Seq(Entries) /\ <<Ported(w.from)>> \in Seq(Entries)
        /\ Append(w.single, w.from) \in Seq(Entries)
    <3> HIDE DEF Entries
    <3>1. \A x \in Entries : <<x>> \in Seq(Entries) /\ Append(w.single, x) \in Seq(Entries)
      BY <1>1
    <3>. QED BY <2>1, <3>1
  <2>3. h \in {<<w.from>>, <<Ported(w.from)>>, w.single, Append(w.single, w.from)}
    BY DEF Stamped
  <2>. QED BY <1>1, <2>2, <2>3, Zenon
<1>6. u \in Journeys
  <2>1. (w.clean /\ e # Malformed) \in BOOLEAN
    OBVIOUS
  <2>. QED BY <1>1, <1>2, <1>3, <1>5, <2>1 DEF Journeys, Handed
<1> DEFINE hops == FlattenSeq(w.lines)
<1>7. hops \in Seq(Entries) /\ Hops(u) = Append(hops, e)
  BY <1>3, <1>4 DEF Hops
<1> HIDE DEF hops
<1>8. Len(hops) \in Nat /\ Len(Hops(u)) = Len(hops) + 1 /\ Hops(u)[Len(hops) + 1] = e
      /\ \A i \in 1..Len(hops) : Hops(u)[i] = hops[i]
  BY <1>2, <1>7
<1>9. CASE AsSent(w)
  <2>1. w.origin \in Untrusted /\ w.from = w.origin
    BY <1>9 DEF AsSent
  <2>2. h # <<>> /\ h[1] \in NamesFor(w.origin)
    BY <2>1 DEF Stamped, NamesFor
  <2>3. e \in NamesFor(w.origin) \cup {Malformed} /\ (u.clean => e # Malformed)
    BY <1>4, <2>1 DEF NamesFor
  <2>4. Tells(Hops(u), w.origin, u.clean)
    <3>1. /\ Len(hops) + 1 \in 1..Len(Hops(u))
          /\ \A j \in ((Len(hops) + 1) + 1)..Len(Hops(u)) : FALSE
      BY <1>8
    <3>. QED BY <1>8, <2>3, <3>1 DEF Tells
  <2>. QED BY <1>4, <1>6, <2>1, <2>2, <2>4 DEF Truthful, Relayed
<1>10. CASE Relayed(w)
  <2>1. /\ w.origin \in Untrusted /\ w.from \in TrustedProxies
        /\ w.single # <<>> /\ w.single[1] \in NamesFor(w.origin)
        /\ Tells(hops, w.origin, w.clean)
    BY <1>10 DEF Relayed, Hops, hops
  <2>2. h \in {w.single, Append(w.single, w.from)}
    BY <2>1 DEF Stamped, Untrusted
  <2>3. h # <<>> /\ h[1] \in NamesFor(w.origin)
    <3>1. w.from \in Entries /\ Len(w.single) \in Nat \ {0}
      BY <1>1, <2>1, EntriesAreRead
    <3>2. Append(w.single, w.from)[1] = w.single[1] /\ Append(w.single, w.from) # <<>>
      BY <1>1, <3>1
    <3>. QED BY <2>1, <2>2, <3>2
  <2>4. e \in NamesFor(w.from) \cup {Malformed}
    BY DEF NamesFor
  <2>5. Tells(Append(hops, e), w.origin, w.clean /\ e # Malformed)
    BY <1>1, <1>7, <2>1, <2>4, HopKeepsTelling
  <2>6. Tells(Hops(u), w.origin, u.clean)
    BY <1>4, <1>7, <2>5, Zenon
  <2>. QED BY <1>4, <1>6, <2>1, <2>3, <2>6 DEF Truthful, Relayed
<1>11. CASE ProxysOwn(w)
  <2>1. /\ w.origin \in TrustedProxies /\ w.from \in TrustedProxies /\ ~w.clean
        /\ \A i \in 1..Len(w.single) : w.single[i] \in TrustedProxies
        /\ OnlyProxies(hops)
    BY <1>11 DEF ProxysOwn, Hops, hops
  <2>2. h \in {w.single, Append(w.single, w.from)}
    BY <2>1 DEF Stamped, Untrusted
  <2>3. \A i \in 1..Len(h) : h[i] \in TrustedProxies
    <3>1. w.from \in Entries
      BY <1>1, EntriesAreRead
    <3>2. \A i \in 1..Len(Append(w.single, w.from)) :
              Append(w.single, w.from)[i] \in TrustedProxies
      BY <1>1, <2>1, <3>1
    <3>. QED BY <2>1, <2>2, <3>2
  <2>4. e = Malformed \/ OfAProxy(e)
    BY <2>1, EntriesAreRead DEF OfAProxy
  <2>5. OnlyProxies(Hops(u))
    <3>1. \A i \in 1..Len(Hops(u)) : i = Len(hops) + 1 \/ i \in 1..Len(hops)
      BY <1>8
    <3>. QED BY <1>8, <2>1, <2>4, <3>1 DEF OnlyProxies
  <2>6. ~u.clean
    BY <1>4, <2>1
  <2>. QED BY <1>4, <1>6, <2>1, <2>3, <2>5, <2>6 DEF Truthful, ProxysOwn
<1>. QED BY <1>9, <1>10, <1>11 DEF Truthful
\* The recursion by which UnderWay is defined has a solution.
Step(W) == W \cup UNION {Forwarded(w) : w \in W}

LEMMA UnderWayIs ==
    UnderWay = [n \in 0..MaxHops |-> IF n = 0 THEN Sent ELSE Step(UnderWay[n - 1])]
<1> DEFINE Solves(f, N) == f = [n \in 0..N |-> IF n = 0 THEN Sent ELSE Step(f[n - 1])]
           Some == {N \in Nat : \E f : Solves(f, N)}
<1>1. 0 \in Some
  <2> DEFINE f == [n \in 0..0 |-> Sent]
  <2>1. Solves(f, 0)
    OBVIOUS
  <2> HIDE DEF f, Solves
  <2>. QED BY <2>1
<1>2. ASSUME NEW N \in Nat, N \in Some
      PROVE  N + 1 \in Some
  <2>1. PICK f : Solves(f, N)
    BY <1>2
  <2> DEFINE g == [n \in 0..(N + 1) |-> IF n = N + 1 THEN Step(f[N]) ELSE f[n]]
  <2>2. ASSUME NEW n \in 0..(N + 1)
        PROVE  g[n] = IF n = 0 THEN Sent ELSE Step(g[n - 1])
    <3>1. CASE n = N + 1
      BY <3>1
    <3>2. CASE n # N + 1
      <4>1. n \in 0..N /\ (n # 0 => n - 1 \in 0..N /\ n - 1 # N + 1)
        BY <3>2
      <4>2. g[n] = f[n] /\ (n # 0 => g[n - 1] = f[n - 1])
        BY <3>2, <4>1
      <4>. QED BY <2>1, <4>1, <4>2
    <3>. QED BY <3>1, <3>2
  <2>3. Solves(g, N + 1)
    BY <2>2
  <2> HIDE DEF g, Solves
  <2>. QED BY <2>3
<1> HIDE DEF Some
<1>3. MaxHops \in Some
  BY <1>1, <1>2, NatSet, AddressAssumption
<1>4. PICK f : Solves(f, MaxHops)
  BY <1>3 DEF Some
<1>. QED BY <1>4, Zenon DEF UnderWay, Step

\* Whatever a request has passed through, it is truthful.
LEMMA UnderWayIsTruthful ==
    UnderWay[MaxHops] \subseteq {w \in Journeys : Truthful(w)}
<1> DEFINE T == {w \in Journeys : Truthful(w)}
           Good == {n \in Nat : n <= MaxHops => UnderWay[n] \subseteq T}
<1>0. MaxHops \in Nat
  BY AddressAssumption
<1>1. Sent \subseteq T
  <2>1. ASSUME NEW a \in Untrusted, NEW f \in Forgeries, NEW w,
               w = [origin |-> a, from |-> a, lines |-> f.lines, single |-> f.single,
                    clean |-> TRUE]
        PROVE  w \in T
    <3>1. a \in Addresses /\ f.lines \in Seq(Seq(Entries)) /\ f.single \in Seq(Entries)
      BY AddressAssumption DEF Untrusted
    <3>2. w \in Journeys
      BY <2>1, <3>1 DEF Journeys
    <3>3. AsSent(w)
      BY <2>1 DEF AsSent
    <3>. QED BY <3>2, <3>3 DEF Truthful
  <2>2. ASSUME NEW p \in TrustedProxies, NEW w,
               w = [origin |-> p, from |-> p, lines |-> <<>>, single |-> <<>>, clean |-> FALSE]
        PROVE  w \in T
    <3>1. p \in Addresses /\ <<>> \in Seq(Seq(Entries)) /\ <<>> \in Seq(Entries)
      BY AddressAssumption
    <3>2. w \in Journeys
      BY <2>2, <3>1 DEF Journeys
    <3>3. FlattenSeq(<<>>) = <<>>
      BY DEF FlattenSeq
    <3>4. ProxysOwn(w)
      BY <2>2, <3>3 DEF ProxysOwn, OnlyProxies, Hops
    <3>. QED BY <3>2, <3>4 DEF Truthful
  <2> HIDE DEF T
  <2>. QED BY <2>1, <2>2 DEF Sent
<1>2. ASSUME NEW w \in T
      PROVE  Forwarded(w) \subseteq T
  <2>1. SUFFICES ASSUME NEW u \in Forwarded(w)
                 PROVE  u \in T
    OBVIOUS
  <2>2. PICK p \in TrustedProxies, e \in {w.from, Ported(w.from), Malformed} :
            u \in {Handed(w, p, e, ls, h) : ls \in WithHop(w.lines, e), h \in Stamped(w)}
    BY <2>1 DEF Forwarded
  <2>3. PICK ls \in WithHop(w.lines, e), h \in Stamped(w) : u = Handed(w, p, e, ls, h)
    BY <2>2
  <2>4. w \in Journeys /\ Truthful(w)
    OBVIOUS
  <2>5. u \in Journeys /\ Truthful(u)
    BY <2>3, <2>4, HopIsTruthful
  <2>. QED BY <2>5
<1>3. 0 \in Good
  BY <1>0, <1>1, UnderWayIs
<1>4. ASSUME NEW n \in Nat, n \in Good
      PROVE  n + 1 \in Good
  <2>1. SUFFICES ASSUME n + 1 <= MaxHops
                 PROVE  UnderWay[n + 1] \subseteq T
    OBVIOUS
  <2>2. UnderWay[n] \subseteq T
    BY <1>0, <1>4, <2>1
  <2>3. UnderWay[n + 1] = Step(UnderWay[n])
    <3>1. n + 1 \in 0..MaxHops /\ n + 1 # 0 /\ (n + 1) - 1 = n
      BY <1>0, <2>1
    <3>. QED BY <3>1, UnderWayIs
  <2> HIDE DEF T
  <2>. QED BY <1>2, <2>2, <2>3 DEF Step
<1>5. MaxHops \in Good
  <2> HIDE DEF Good
  <2>. QED BY <1>0, <1>3, <1>4, NatSet
<1>. QED BY <1>0, <1>5
-----------------------------------------------------------------------------
(* What the middleware makes of a request. *)

\* Nobody is blamed for another's request, and a request whose proxies all wrote
\* down their peers is attributed; a proxy's own request is never of that kind.
Fair(origin, clean, client, bannable) ==
    /\ bannable => client = origin \/ {client, origin} \subseteq TrustedProxies
    /\ clean => bannable /\ origin \notin TrustedProxies

\* The walk stops at the place behind which there are only proxies.
LEMMA WalkStops ==
    ASSUME NEW hops \in Seq(Entries), NEW i \in 1..Len(hops), NEW peer,
           hops[i] # Blank, ParsePeer(hops[i]) \notin TrustedProxies,
           \A j \in (i + 1)..Len(hops) : OfAProxy(hops[j])
    PROVE  Walk(hops, peer) = IF ParsePeer(hops[i]) = Nobody THEN Unattributable(peer)
                              ELSE Attributed(ParsePeer(hops[i]))
<1>1. i \in Telling(hops)
  BY DEF Telling
<1>2. ASSUME NEW j \in Telling(hops)
      PROVE  j \in Int /\ i \in Int /\ i >= j
  <2>1. j \in 1..Len(hops) /\ ParsePeer(hops[j]) \notin TrustedProxies
    BY DEF Telling
  <2>2. j \notin (i + 1)..Len(hops)
    BY <2>1 DEF OfAProxy
  <2>. QED BY <2>1, <2>2
<1>3. Max(Telling(hops)) = i
  <2>1. Max(Telling(hops)) \in Telling(hops)
        /\ \A j \in Telling(hops) : Max(Telling(hops)) >= j
    BY <1>1, <1>2 DEF Max
  <2> DEFINE m == Max(Telling(hops))
  <2>2. m >= i /\ i >= m /\ m \in Int /\ i \in Int
    BY <1>1, <1>2, <2>1
  <2> HIDE DEF m
  <2>3. m = i
    BY <2>2
  <2>. QED BY <2>3 DEF m
<1>4. Telling(hops) # {}
  BY <1>1
<1>. QED BY <1>3, <1>4 DEF Walk

\* Where only proxies have written there is nobody to blame.
LEMMA WalkFindsNobody ==
    ASSUME NEW hops \in Seq(Entries), NEW peer, OnlyProxies(hops)
    PROVE  Walk(hops, peer) = Unattributable(peer)
<1>1. CASE Telling(hops) = {}
  BY <1>1 DEF Walk
<1>2. CASE Telling(hops) # {}
  <2>1. PICK t \in Telling(hops) : TRUE
    BY <1>2
  <2> DEFINE last(m) == m \in Telling(hops) /\ \A j \in Telling(hops) : m >= j
  <2>2. ASSUME NEW j \in Telling(hops)
        PROVE  j \in 1..Len(hops) /\ ParsePeer(hops[j]) = Nobody
    <3>1. j \in 1..Len(hops) /\ ParsePeer(hops[j]) \notin TrustedProxies
      BY DEF Telling
    <3>. QED BY <3>1, EntriesAreRead DEF OnlyProxies, OfAProxy
  <2>3. \E m : last(m)
    <3> DEFINE Above == {n \in Nat : \A j \in Telling(hops) : n >= j}
    <3>1. Len(hops) \in Above
      BY <2>2
    <3>2. PICK m \in Above : \A n \in Above : m <= n
      BY <3>1, LeastNat
    <3>3. CASE m \in Telling(hops)
      BY <3>2, <3>3
    <3>4. CASE m \notin Telling(hops)
      <4>1. \A j \in Telling(hops) : j \in Int /\ m >= j /\ j # m /\ j >= 1
        BY <2>2, <3>2, <3>4
      <4>2. m - 1 \in Above
        BY <2>1, <3>2, <4>1
      <4>. QED BY <3>2, <4>2
    <3>. QED BY <3>3, <3>4
  <2>4. Max(Telling(hops)) \in Telling(hops)
    BY <2>3 DEF Max
  <2>. QED BY <2>2, <2>4 DEF Walk
<1>. QED BY <1>1, <1>2

\* A truthful request is judged fairly, whichever of its headers arrive.
LEMMA ResolvedFairly ==
    ASSUME NEW w \in Journeys, Truthful(w), NEW peer \in {w.from, Nobody},
           NEW ls \in {w.lines, <<>>}
    PROVE  LET res == Resolve(peer, ls, w.single)
               clean == w.clean /\ ls = w.lines /\ peer # Nobody
           IN  /\ res.client \in Addresses \cup {Nobody} /\ res.bannable \in BOOLEAN
               /\ Fair(w.origin, clean, res.client, res.bannable)
<1> DEFINE clean == w.clean /\ ls = w.lines /\ peer # Nobody
           res   == Resolve(peer, ls, w.single)
<1>0. /\ w.origin \in Addresses /\ w.from \in Addresses /\ w.lines \in Seq(Seq(Entries))
      /\ w.single \in Seq(Entries) /\ w.clean \in BOOLEAN
  BY DEF Journeys
<1>1. Nobody \notin TrustedProxies /\ FlattenSeq(<<>>) = <<>>
  BY EntriesAreRead DEF FlattenSeq
<1>2. \A a : /\ Attributed(a).client = a /\ Attributed(a).bannable = TRUE
             /\ Unattributable(a).client = a /\ Unattributable(a).bannable = FALSE
  BY DEF Attributed, Unattributable
<1>3. CASE peer = Nobody
  <2>1. res = Unattributable(Nobody)
    BY <1>3 DEF Resolve
  <2>. QED BY <1>2, <1>3, <2>1 DEF Fair
<1>4. CASE peer # Nobody /\ AsSent(w)
  <2>1. peer = w.origin /\ peer \notin TrustedProxies
    BY <1>4 DEF AsSent, Untrusted
  <2>2. res = Attributed(w.origin)
    BY <1>4, <2>1 DEF Resolve
  <2>. QED BY <1>0, <1>2, <2>1, <2>2 DEF Fair
<1>5. CASE peer # Nobody /\ Relayed(w)
  <2>1. /\ peer \in TrustedProxies /\ peer \in Addresses /\ w.origin \notin TrustedProxies
        /\ w.single # <<>> /\ w.single[1] \in NamesFor(w.origin)
        /\ Tells(FlattenSeq(w.lines), w.origin, w.clean)
    BY <1>0, <1>5 DEF Relayed, Untrusted, Hops
  <2>2. CASE Header /\ FirstAddrIn(w.single) # Nobody
    <3>1. w.single[1] \in Addresses /\ FirstAddrIn(w.single) = w.single[1]
      BY <2>2 DEF FirstAddrIn
    <3>2. w.single[1] = w.origin
      BY <1>0, <2>1, <3>1, AddressAssumption DEF NamesFor
    <3>3. res = Attributed(w.origin)
      BY <1>5, <2>1, <2>2, <3>1, <3>2 DEF Resolve
    <3>. QED BY <1>0, <1>2, <2>1, <3>3 DEF Fair
  <2>3. CASE ~(Header /\ FirstAddrIn(w.single) # Nobody)
    <3>1. res = Walk(FlattenSeq(ls), peer)
      BY <1>5, <2>1, <2>3 DEF Resolve
    <3>2. CASE ls = w.lines
      <4> DEFINE hops == FlattenSeq(w.lines)
      <4>1. hops \in Seq(Entries)
        BY <1>0, FlattenSeqStep
      <4>2. PICK i \in 1..Len(hops) :
                /\ hops[i] \in NamesFor(w.origin) \cup {Malformed}
                /\ \A j \in (i + 1)..Len(hops) : OfAProxy(hops[j])
                /\ w.clean => hops[i] # Malformed
        BY <2>1 DEF Tells
      <4> HIDE DEF hops
      <4>3. /\ hops[i] # Blank
            /\ ParsePeer(hops[i]) = IF hops[i] = Malformed THEN Nobody ELSE w.origin
            /\ w.origin # Nobody
        BY <1>0, <4>2, EntriesAreRead, AddressAssumption DEF NamesFor
      <4>4. res = IF hops[i] = Malformed THEN Unattributable(peer) ELSE Attributed(w.origin)
        BY <1>1, <2>1, <3>1, <3>2, <4>1, <4>2, <4>3, WalkStops DEF hops
      <4>5. CASE hops[i] = Malformed
        BY <1>2, <2>1, <4>2, <4>4, <4>5 DEF Fair
      <4>6. CASE hops[i] # Malformed
        BY <1>0, <1>2, <2>1, <4>4, <4>6 DEF Fair
      <4>. QED BY <4>5, <4>6
    <3>3. CASE ls = <<>> /\ ls # w.lines
      <4>1. OnlyProxies(<<>>) /\ <<>> \in Seq(Entries)
        BY DEF OnlyProxies
      <4>2. res = Unattributable(peer)
        BY <1>1, <3>1, <3>3, <4>1, WalkFindsNobody
      <4>. QED BY <1>2, <2>1, <3>3, <4>2 DEF Fair
    <3>. QED BY <3>2, <3>3
  <2>. QED BY <2>2, <2>3
<1>6. CASE peer # Nobody /\ ProxysOwn(w)
  <2>1. /\ peer \in TrustedProxies /\ peer \in Addresses /\ w.origin \in TrustedProxies
        /\ ~w.clean /\ OnlyProxies(FlattenSeq(w.lines))
        /\ \A i \in 1..Len(w.single) : w.single[i] \in TrustedProxies
    BY <1>0, <1>6 DEF ProxysOwn, Hops
  <2>2. CASE Header /\ FirstAddrIn(w.single) # Nobody
    <3>1. /\ w.single # <<>> /\ w.single[1] \in Addresses
          /\ FirstAddrIn(w.single) = w.single[1]
      BY <2>2 DEF FirstAddrIn
    <3>2. w.single[1] \in TrustedProxies
      <4>1. 1 \in 1..Len(w.single)
        BY <1>0, <3>1
      <4>. QED BY <2>1, <4>1
    <3>3. res = Attributed(w.single[1])
      BY <1>6, <2>1, <2>2, <3>1 DEF Resolve
    <3>. QED BY <1>2, <2>1, <3>1, <3>2, <3>3 DEF Fair
  <2>3. CASE ~(Header /\ FirstAddrIn(w.single) # Nobody)
    <3>1. res = Walk(FlattenSeq(ls), peer)
      BY <1>6, <2>1, <2>3 DEF Resolve
    <3>2. OnlyProxies(FlattenSeq(ls)) /\ FlattenSeq(ls) \in Seq(Entries)
      <4>1. OnlyProxies(<<>>) /\ <<>> \in Seq(Entries)
        BY DEF OnlyProxies
      <4>2. FlattenSeq(w.lines) \in Seq(Entries)
        BY <1>0, FlattenSeqStep
      <4>. QED BY <1>1, <2>1, <4>1, <4>2
    <3>3. res = Unattributable(peer)
      BY <3>1, <3>2, WalkFindsNobody
    <3>. QED BY <1>2, <2>1, <3>3 DEF Fair
  <2>. QED BY <2>2, <2>3
<1>. QED BY <1>3, <1>4, <1>5, <1>6 DEF Truthful
\* Of every request there can be, for any number of proxies on its way.
LEMMA JudgedFairly ==
    ASSUME NEW j \in Judged
    PROVE  /\ j.origin \in Addresses /\ j.clean \in BOOLEAN
           /\ j.res.client \in Addresses \cup {Nobody} /\ j.res.bannable \in BOOLEAN
           /\ Fair(j.origin, j.clean, j.res.client, j.res.bannable)
<1>1. PICK v \in Delivered :
         j = [origin |-> v.origin, clean |-> v.clean, res |-> Resolve(v.from, v.lines, v.single)]
  BY DEF Judged
<1>2. PICK w \in UnderWay[MaxHops] :
         v \in {Taken(w, peer, ls) : peer \in {w.from, Nobody}, ls \in {w.lines, <<>>}}
  BY <1>1 DEF Delivered
<1>3. PICK peer \in {w.from, Nobody}, ls \in {w.lines, <<>>} : v = Taken(w, peer, ls)
  BY <1>2
<1>4. w \in Journeys /\ Truthful(w)
  BY <1>2, UnderWayIsTruthful
<1>5. /\ v.origin = w.origin /\ v.from = peer /\ v.lines = ls /\ v.single = w.single
      /\ v.clean = (w.clean /\ ls = w.lines /\ peer # Nobody)
  BY <1>3, <1>4 DEF Taken, Journeys
<1>6. /\ j.origin = w.origin /\ j.res = Resolve(peer, ls, w.single)
      /\ j.clean = (w.clean /\ ls = w.lines /\ peer # Nobody)
  BY <1>1, <1>5
<1>7. w.origin \in Addresses /\ (w.clean /\ ls = w.lines /\ peer # Nobody) \in BOOLEAN
  BY <1>4 DEF Journeys
<1>8. /\ Resolve(peer, ls, w.single).client \in Addresses \cup {Nobody}
      /\ Resolve(peer, ls, w.single).bannable \in BOOLEAN
      /\ Fair(w.origin, w.clean /\ ls = w.lines /\ peer # Nobody,
              Resolve(peer, ls, w.single).client, Resolve(peer, ls, w.single).bannable)
  BY <1>3, <1>4, ResolvedFairly
<1>. QED BY <1>6, <1>7, <1>8, Zenon
-----------------------------------------------------------------------------
(* Keys and exemptions. *)

\* An address has a key at every width, and it is in it.
LEMMA KeysHold ==
    ASSUME NEW K \in Keyings, NEW a \in Addresses
    PROVE  KeyOf(a, K) \in K /\ KeyOf(a, K) \in Cidrs /\ a \in KeyOf(a, K)
<1> DEFINE holders == {k \in K : a \in k}
<1>1. K \subseteq Cidrs /\ Cardinality(holders) = 1
  <2>1. \A L \in Keyings : /\ L \subseteq Cidrs
                           /\ \A x \in Addresses : Cardinality({k \in L : x \in k}) = 1
    BY AdmissionAssumption, Zenon
  <2>2. K \subseteq Cidrs
    BY <2>1, Zenon
  <2>3. Cardinality({k \in K : a \in k}) = 1
    BY <2>1, Zenon
  <2>. QED BY <2>2, <2>3
<1>2. holders # {}
  <2>1. Cardinality({}) = 0
    BY FS_EmptySet
  <2> HIDE DEF holders
  <2>. QED BY <1>1, <2>1
<1>3. KeyOf(a, K) \in K /\ a \in KeyOf(a, K)
  BY <1>2 DEF KeyOf
<1>. QED BY <1>1, <1>3

\* The requests in flight.
Asked ==
    [pc : {"lookup", "detect", "backend", "served", "refused"},
     origin : Addresses, clean : BOOLEAN, client : Addresses \cup {Nobody}, bannable : BOOLEAN,
     path : Paths, agent : Agents, policy : Policies, allow : SUBSET Addresses,
     keys : Keyings, ended : SUBSET Cidrs, steady : SUBSET Cidrs]

FairTo(r) == Fair(r.origin, r.clean, r.client, r.bannable)

\* A request that no exemption of its source keeps from the ban list is known
\* to come from where it does come from, which is nothing protected.
LEMMA UnexemptedIsOrigin ==
    ASSUME NEW r \in Asked, FairTo(r), ~SourceExempt(r)
    PROVE  /\ r.client = r.origin /\ r.origin \in Addresses
           /\ r.origin \notin TrustedProxies /\ r.origin \notin r.allow
<1>1. r.bannable /\ r.client \notin TrustedProxies /\ r.client \notin r.allow
  BY DEF SourceExempt, Exempt
<1>2. r.client = r.origin \/ {r.client, r.origin} \subseteq TrustedProxies
  BY <1>1 DEF FairTo, Fair
<1>. QED BY <1>1, <1>2 DEF Asked

\* Every exemption of the source is one that is meant.
LEMMA ExemptedIsExcused ==
    ASSUME NEW r \in Asked, FairTo(r), SourceExempt(r)
    PROVE  Excused(r)
<1>1. CASE ~r.bannable
  BY <1>1 DEF FairTo, Fair, Excused
<1>2. CASE r.bannable /\ r.client \in TrustedProxies
  <2>1. r.origin \in TrustedProxies
    BY <1>2 DEF FairTo, Fair
  <2>. QED BY <2>1 DEF FairTo, Fair, Excused
<1>3. CASE r.bannable /\ r.client \notin TrustedProxies /\ r.client \in r.allow
  <2>1. r.client = r.origin
    BY <1>3 DEF FairTo, Fair
  <2>. QED BY <1>3, <2>1 DEF Excused
<1>4. CASE r.bannable /\ r.client \notin TrustedProxies /\ r.client \notin r.allow
  <2>1. r.agent = "listed" \/ (r.policy = "exempt" /\ r.agent = "crawler")
    BY <1>4 DEF SourceExempt, Exempt
  <2>. QED BY <2>1 DEF Excused
<1>. QED BY <1>1, <1>2, <1>3, <1>4

\* Where a request is asked for no more than its progress or the bans over it,
\* nothing changes of what is thought of it.
Alter(r, q) ==
    /\ q.origin = r.origin /\ q.clean = r.clean /\ q.client = r.client
    /\ q.bannable = r.bannable /\ q.path = r.path /\ q.agent = r.agent
    /\ q.policy = r.policy /\ q.allow = r.allow /\ q.keys = r.keys

LEMMA AlteredAlike ==
    ASSUME NEW r, NEW q, Alter(r, q)
    PROVE  /\ FairTo(r) => FairTo(q)
           /\ SourceExempt(q) = SourceExempt(r)
           /\ Excused(q) = Excused(r)
           /\ Key(q) = Key(r)
<1>1. FairTo(r) => FairTo(q)
  BY Zenon DEF Alter, FairTo
<1>2. SourceExempt(q) = SourceExempt(r)
  BY Zenon DEF Alter, SourceExempt, Exempt
<1>3. Excused(q) = Excused(r)
  BY Zenon DEF Alter, Excused
<1>4. Key(q) = Key(r)
  BY Zenon DEF Alter, Key
<1>. QED BY <1>1, <1>2, <1>3, <1>4

LEMMA Progress ==
    ASSUME NEW r \in Asked, NEW pc \in {"lookup", "detect", "backend", "served", "refused"},
           NEW q, q = [r EXCEPT !.pc = pc]
    PROVE  /\ q \in Asked /\ Alter(r, q) /\ q.pc = pc
           /\ q.steady = r.steady /\ q.ended = r.ended
BY DEF Asked, Alter

-----------------------------------------------------------------------------
(* The lookup. *)

\* Of prefixes that share an address one is the narrowest.
LEMMA NarrowestExists ==
    ASSUME NEW S \in SUBSET Cidrs, NEW x, S # {}, \A c \in S : x \in c
    PROVE  Narrowest(S) # {}
<1> DEFINE T == {Cardinality(c) : c \in S}
<1>1. ASSUME NEW c \in S
      PROVE  IsFiniteSet(c) /\ Cardinality(c) \in Nat
  <2>1. c \subseteq Addresses /\ IsFiniteSet(Addresses)
    BY AdmissionAssumption
  <2>. QED BY <2>1, FS_Subset, FS_CardinalityType
<1>2. T \subseteq Nat /\ T # {}
  BY <1>1
<1>3. PICK m \in T : \A n \in T : m <= n
  BY <1>2, LeastNat
<1>4. PICK c \in S : m = Cardinality(c)
  BY <1>3
<1>5. ASSUME NEW d \in S
      PROVE  c \subseteq d
  <2>1. c \cap d # {}
    OBVIOUS
  <2>2. \A y, z \in Cidrs : y \cap z = {} \/ y \subseteq z \/ z \subseteq y
    BY AdmissionAssumption
  <2>3. c \in Cidrs /\ d \in Cidrs
    OBVIOUS
  <2>4. c \subseteq d \/ d \subseteq c
    BY <2>1, <2>2, <2>3, Zenon
  <2>5. CASE d \subseteq c
    <3>1. Cardinality(c) <= Cardinality(d)
      BY <1>3, <1>4
    <3>2. Cardinality(d) <= Cardinality(c) /\ (Cardinality(d) = Cardinality(c) => d = c)
      BY <1>1, <2>5, FS_Subset
    <3>3. d = c
      BY <1>1, <3>1, <3>2
    <3>. QED BY <3>3
  <2>. QED BY <2>4, <2>5
<1>. QED BY <1>5 DEF Narrowest

\* Whichever ban covers a key of the table's width, the lookup finds that one or
\* one that it meets first.
LEMMA HitFirst ==
    ASSUME NEW key \in widths, widths \in Keyings, bans \subseteq Cidrs,
           NEW c \in bans, key \subseteq c
    PROVE  /\ Hit(key) # {}
           /\ \A h \in Hit(key) : h \in bans /\ (h = c \/ Hides(h, c, key))
<1>1. key \in Cidrs /\ key # {}
  <2>1. (\A K \in Keyings : K \subseteq Cidrs) /\ {} \notin Cidrs
    BY AdmissionAssumption, Zenon
  <2>. QED BY <2>1
<1>2. First(key) \in key
  BY <1>1 DEF First
<1>3. First(key) \in c
  BY <1>2
<1>4. CASE key \in bans
  BY <1>2, <1>4 DEF Hit, Hides
<1>5. CASE key \notin bans /\ Over(key, bans \cap Ranges) # {}
  <2>1. Hit(key) = Over(key, bans \cap Ranges)
    BY <1>5 DEF Hit
  <2>2. \A h \in Over(key, bans \cap Ranges) : h \in bans /\ h \in Ranges /\ First(key) \in h
    BY DEF Over
  <2>. QED BY <1>5, <2>1, <2>2 DEF Hides
<1>6. CASE key \notin bans /\ Over(key, bans \cap Ranges) = {}
  <2> DEFINE W == Over(key, {d \in bans \ Ranges : Wide(d)})
  <2>1. c \notin Ranges /\ c # key
    BY <1>3, <1>6 DEF Over
  <2>2. Wide(c)
    BY <2>1 DEF Wide
  <2>3. c \in W
    BY <1>3, <2>1, <2>2 DEF Over
  <2>4. W \in SUBSET Cidrs /\ \A d \in W : d \in bans /\ First(key) \in d
    BY DEF Over
  <2>5. Hit(key) = Narrowest(W)
    BY <1>6 DEF Hit
  <2> HIDE DEF W
  <2>6. Narrowest(W) # {}
    BY <2>3, <2>4, NarrowestExists
  <2>7. ASSUME NEW h \in Narrowest(W)
        PROVE  h \in bans /\ Hides(h, c, key)
    <3>1. h \in W /\ h \subseteq c
      BY <2>3 DEF Narrowest
    <3>. QED BY <2>1, <2>4, <3>1 DEF Hides
  <2>. QED BY <2>5, <2>6, <2>7
<1>. QED BY <1>4, <1>5, <1>6

-----------------------------------------------------------------------------
(* The inductive invariant. *)

Typed ==
    /\ allowed \in Allowlists
    /\ keying \in Keyings /\ widths \in Keyings
    /\ bans \subseteq Cidrs /\ expired \subseteq bans
    /\ req \in Asked \cup {Idle}
    /\ promised \subseteq [key : Cidrs, keys : Keyings, for : SUBSET Addresses]

\* A request is judged fairly; only what no rule exempts is looked up; the bans
\* over it that are steady until then are still in the table, which has the widths
\* of its key, and had not run out.
Followed(r, list, width) ==
    /\ FairTo(r)
    /\ r.pc # "served" => ~SourceExempt(r)
    /\ r.pc = "lookup" => /\ r.steady \subseteq list \ r.ended
                          /\ r.steady # {} => r.keys = width
    /\ \A c \in r.steady : KeyOf(r.origin, r.keys) \subseteq c
    /\ r.pc \in {"detect", "backend", "served"} /\ r.steady # {} => Excused(r) \/ Shadowed(r)
RequestIsFollowed == req # Idle => Followed(req, bans, widths)

\* A ban the operator typed is in force, and it covers the keys that its addresses
\* had then.
PromisesAreListed ==
    \A p \in promised :
        p.key \in bans \ expired /\ \A a \in p.for : KeyOf(a, p.keys) \subseteq p.key

Inv == Typed /\ RequestIsFollowed /\ PromisesAreListed

LEMMA InFlight ==
    ASSUME Typed, req.pc # "idle"
    PROVE  req \in Asked /\ req # Idle
BY DEF Typed, Idle

LEMMA InitHolds == Init => Inv
BY DEF Init, Inv, Typed, RequestIsFollowed, PromisesAreListed

LEMMA ArriveKeeps == Inv /\ Arrive => Inv'
<1> SUFFICES ASSUME Inv, Arrive
             PROVE  Inv'
  OBVIOUS
<1> USE DEF Inv
<1>1. PICK j \in Judged, h \in Handlers, path \in Paths, agent \in Agents :
          req' = IF SourceExempt(Arrived(j, h, path, agent))
                 THEN [Arrived(j, h, path, agent) EXCEPT !.pc = "served"]
                 ELSE Arrived(j, h, path, agent)
  BY DEF Arrive
<1>2. UNCHANGED <<settings, table, promised>>
  BY DEF Arrive
<1> DEFINE r == Arrived(j, h, path, agent)
           q == [r EXCEPT !.pc = "served"]
<1>3. req' = IF SourceExempt(r) THEN q ELSE r
  BY <1>1
<1>4. r \in Asked
  <2>1. Policy(h) \in Policies
    BY AdmissionAssumption DEF Policy
  <2>2. allowed \in SUBSET Addresses /\ keying \in Keyings /\ bans \subseteq Cidrs
        /\ expired \subseteq Cidrs
    BY AdmissionAssumption DEF Typed
  <2>. QED BY <2>1, <2>2, JudgedFairly DEF Asked, Arrived
<1>5. FairTo(r) /\ r.pc = "lookup" /\ r.steady \subseteq bans \ r.ended
      /\ (r.steady # {} => r.keys = widths)
      /\ \A c \in r.steady : KeyOf(r.origin, r.keys) \subseteq c
  BY JudgedFairly DEF FairTo, Arrived
<1>6. q \in Asked /\ Alter(r, q) /\ q.pc = "served" /\ q.steady = r.steady
  <2> HIDE DEF r
  <2>. QED BY <1>4, Progress
<1> HIDE DEF r, q
<1>7. req' \in Asked /\ req' # Idle /\ Followed(req', bans, widths)
  <2>1. CASE SourceExempt(r)
    <3>1. FairTo(q) /\ Excused(q)
      BY <1>4, <1>5, <1>6, <2>1, ExemptedIsExcused, AlteredAlike
    <3>2. \A c \in q.steady : KeyOf(q.origin, q.keys) \subseteq c
      BY <1>5, <1>6 DEF Alter
    <3>3. Followed(q, bans, widths)
      BY <1>6, <3>1, <3>2 DEF Followed
    <3>. QED BY <1>3, <1>6, <2>1, <3>3 DEF Idle
  <2>2. CASE ~SourceExempt(r)
    <3>1. Followed(r, bans, widths)
      BY <1>5, <2>2 DEF Followed
    <3>. QED BY <1>3, <1>4, <1>5, <2>2, <3>1 DEF Idle
  <2>. QED BY <2>1, <2>2
<1>8. Typed'
  BY <1>2, <1>7 DEF Typed, settings, table
<1>9. RequestIsFollowed' /\ PromisesAreListed'
  BY <1>2, <1>7 DEF RequestIsFollowed, PromisesAreListed, settings, table
<1>. QED BY <1>8, <1>9

\* What the key of a request in flight is.
LEMMA KeyIs ==
    ASSUME NEW r \in Asked, FairTo(r), ~SourceExempt(r)
    PROVE  /\ Key(r) = KeyOf(r.origin, r.keys) /\ Key(r) \in r.keys /\ r.keys \in Keyings
           /\ Key(r) \in Cidrs /\ r.origin \in Key(r)
<1>1. r.client = r.origin /\ r.origin \in Addresses /\ r.keys \in Keyings
  BY UnexemptedIsOrigin DEF Asked
<1>. QED BY <1>1, KeysHold DEF Key

\* A step of a request that adds bans at most, and leads out of the lookup.
LEMMA StepKeeps ==
    ASSUME Inv, req.pc # "idle", NEW pc \in {"detect", "backend", "served", "refused"},
           req' = [req EXCEPT !.pc = pc],
           pc # "served" => ~SourceExempt(req),
           pc \in {"detect", "backend", "served"} /\ req.steady # {}
              => Excused(req) \/ Shadowed(req),
           bans \subseteq bans', bans' \subseteq Cidrs, expired' \subseteq expired,
           UNCHANGED <<settings, promised>>
    PROVE  Inv'
<1> USE DEF Inv
<1>1. req \in Asked /\ Followed(req, bans, widths)
  BY InFlight DEF RequestIsFollowed
<1>2. /\ req' \in Asked /\ Alter(req, req') /\ req'.pc = pc
      /\ req'.steady = req.steady /\ req'.ended = req.ended
  BY <1>1, Progress
<1>3. /\ FairTo(req) => FairTo(req')
      /\ SourceExempt(req') = SourceExempt(req) /\ Excused(req') = Excused(req)
      /\ Key(req') = Key(req)
  BY <1>2, AlteredAlike
<1>4. Shadowed(req) => Shadowed(req')
  BY <1>2, <1>3, Zenon DEF Shadowed
<1>5. /\ FairTo(req') /\ (req'.pc # "served" => ~SourceExempt(req'))
      /\ (req'.pc \in {"detect", "backend", "served"} /\ req'.steady # {}
            => Excused(req') \/ Shadowed(req'))
  BY <1>1, <1>2, <1>3, <1>4 DEF Followed
<1>6. \A c \in req'.steady : KeyOf(req'.origin, req'.keys) \subseteq c
  BY <1>1, <1>2 DEF Followed, Alter
<1>7. Followed(req', bans', widths')
  BY <1>2, <1>5, <1>6 DEF Followed
<1>8. Typed'
  BY <1>2 DEF Typed, settings
<1>9. RequestIsFollowed' /\ PromisesAreListed'
  BY <1>7 DEF RequestIsFollowed, PromisesAreListed
<1>. QED BY <1>8, <1>9

LEMMA LookupKeeps == Inv /\ Lookup => Inv'
<1> SUFFICES ASSUME Inv, Lookup
             PROVE  Inv'
  OBVIOUS
<1>1. req \in Asked /\ Followed(req, bans, widths) /\ req.pc = "lookup"
  BY InFlight DEF Inv, RequestIsFollowed, Lookup
<1>2. /\ FairTo(req) /\ ~SourceExempt(req)
      /\ req.steady \subseteq bans \ req.ended /\ (req.steady # {} => req.keys = widths)
      /\ \A c \in req.steady : KeyOf(req.origin, req.keys) \subseteq c
  BY <1>1 DEF Followed
<1>3. widths \in Keyings /\ bans \subseteq Cidrs /\ expired \subseteq bans
  BY DEF Inv, Typed
<1>4. ASSUME req.steady # {}, Get(Key(req), req.ended) = {}
      PROVE  Shadowed(req)
  <2>1. Key(req) = KeyOf(req.origin, req.keys) /\ Key(req) \in widths
    BY <1>1, <1>2, <1>4, KeyIs
  <2>2. ASSUME NEW c \in req.steady
        PROVE  /\ Hit(Key(req)) # {}
               /\ \A h \in Hit(Key(req)) : h = c \/ Hides(h, c, Key(req))
    <3>1. c \in bans /\ Key(req) \subseteq c
      BY <1>2, <2>1
    <3>. QED BY <1>3, <2>1, <3>1, HitFirst
  <2>3. PICK h \in Hit(Key(req)) : TRUE
    BY <1>4, <2>2
  <2>4. h \in req.ended
    BY <1>4, <2>3 DEF Get
  <2>5. \A c \in req.steady : Hides(h, c, Key(req))
    BY <1>2, <2>2, <2>3, <2>4
  <2>. QED BY <2>4, <2>5 DEF Shadowed
<1>5. PICK pc \in {"refused", "served", "detect"} :
         /\ req' = [req EXCEPT !.pc = pc]
         /\ Get(Key(req), req.ended) # {} => pc = "refused"
  BY DEF Lookup
<1>6. UNCHANGED <<settings, table, promised>>
  BY DEF Lookup
<1>7. UNCHANGED <<bans, expired, settings, promised>>
  BY <1>6 DEF table
<1>. QED BY <1>1, <1>2, <1>3, <1>4, <1>5, <1>7, StepKeeps

\* What an automatic ban is put for.
LEMMA BanningsAre ==
    ASSUME NEW r \in Asked, FairTo(r), ~SourceExempt(r), NEW S \in Bannings(r), NEW c \in S
    PROVE  /\ c \in Cidrs /\ r.origin \in c \ (TrustedProxies \cup r.allow)
           /\ c \in Ranges => ~Dangerous(c, r.allow)
<1>1. /\ r.client = r.origin /\ r.origin \notin TrustedProxies /\ r.origin \notin r.allow
      /\ Key(r) \in Cidrs /\ r.origin \in Key(r) /\ Key(r) \notin Ranges
  <2>1. Key(r) \in r.keys /\ r.keys \in Keyings /\ Key(r) \in Cidrs /\ r.origin \in Key(r)
    BY KeyIs
  <2>2. r.keys \cap Ranges = {}
    BY <2>1, AdmissionAssumption
  <2>. QED BY <2>1, <2>2, UnexemptedIsOrigin
<1>2. Ranges \subseteq Cidrs
  BY AdmissionAssumption
<1>. QED BY <1>1, <1>2 DEF Bannings

\* A put adds them to the table.
LEMMA PutAdds ==
    ASSUME Inv, req \in Asked, FairTo(req), ~SourceExempt(req),
           NEW S \in Bannings(req), Put(S)
    PROVE  bans \subseteq bans' /\ bans' \subseteq Cidrs /\ expired' \subseteq expired
<1>1. S \subseteq Cidrs
  BY BanningsAre
<1>2. bans \subseteq Cidrs
  BY DEF Inv, Typed
<1>. QED BY <1>1, <1>2 DEF Put

LEMMA DetectKeeps == Inv /\ Detect => Inv'
<1> SUFFICES ASSUME Inv, Detect
             PROVE  Inv'
  OBVIOUS
<1>1. req \in Asked /\ Followed(req, bans, widths) /\ req.pc = "detect"
  BY InFlight DEF Inv, RequestIsFollowed, Detect
<1>2. FairTo(req) /\ ~SourceExempt(req)
      /\ (req.steady # {} => Excused(req) \/ Shadowed(req))
  BY <1>1 DEF Followed
<1>3. PICK pc \in {"backend", "refused"} : req' = [req EXCEPT !.pc = pc]
  BY DEF Detect
<1>4. bans \subseteq bans' /\ bans' \subseteq Cidrs /\ expired' \subseteq expired
  <2>1. UNCHANGED table \/ \E S \in Bannings(req) : Put(S)
    BY DEF Detect
  <2>2. bans \subseteq Cidrs
    BY DEF Inv, Typed
  <2>. QED BY <1>1, <1>2, <2>1, <2>2, PutAdds DEF table
<1>5. UNCHANGED <<settings, promised>>
  BY DEF Detect
<1>. QED BY <1>1, <1>2, <1>3, <1>4, <1>5, StepKeeps

LEMMA RespondKeeps == Inv /\ Respond => Inv'
<1> SUFFICES ASSUME Inv, Respond
             PROVE  Inv'
  OBVIOUS
<1>1. req \in Asked /\ Followed(req, bans, widths) /\ req.pc = "backend"
  BY InFlight DEF Inv, RequestIsFollowed, Respond
<1>2. FairTo(req) /\ ~SourceExempt(req)
      /\ (req.steady # {} => Excused(req) \/ Shadowed(req))
  BY <1>1 DEF Followed
<1>3. bans \subseteq bans' /\ bans' \subseteq Cidrs /\ expired' \subseteq expired
  BY <1>1, <1>2, PutAdds DEF Respond
<1>4. req' = [req EXCEPT !.pc = "served"] /\ UNCHANGED <<settings, promised>>
  BY DEF Respond
<1>. QED BY <1>1, <1>2, <1>3, <1>4, StepKeeps

LEMMA LeaveKeeps == Inv /\ Leave => Inv'
BY DEF Inv, Leave, Typed, RequestIsFollowed, PromisesAreListed, settings, table

\* A request that waits for its lookup may forget bans, in force or run out.
LEMMA ForgetKeeps ==
    ASSUME req \in Asked, req.pc = "lookup", Followed(req, bans, widths), NEW E, NEW S,
           req' = [req EXCEPT !.ended = req.ended \ E, !.steady = req.steady \ S],
           req.steady \ S \subseteq bans', req.steady \ S # {} => widths' = widths
    PROVE  req' \in Asked /\ req' # Idle /\ Followed(req', bans', widths')
<1>1. /\ req' \in Asked /\ Alter(req, req') /\ req'.pc = "lookup"
      /\ req'.steady = req.steady \ S /\ req'.ended = req.ended \ E
  BY DEF Asked, Alter
<1>2. (FairTo(req) => FairTo(req')) /\ SourceExempt(req') = SourceExempt(req)
  BY <1>1, AlteredAlike
<1>3. FairTo(req') /\ ~SourceExempt(req')
  BY <1>2 DEF Followed
<1>4. \A d \in req'.steady : KeyOf(req'.origin, req'.keys) \subseteq d
  BY <1>1 DEF Followed, Alter
<1>5. req'.steady \subseteq bans' \ req'.ended
  BY <1>1 DEF Followed
<1>6. req'.steady # {} => req'.keys = widths'
  BY <1>1 DEF Followed, Alter
<1>7. Followed(req', bans', widths')
  BY <1>1, <1>3, <1>4, <1>5, <1>6 DEF Followed
<1>8. req' # Idle
  BY <1>1 DEF Idle
<1>. QED BY <1>1, <1>7, <1>8

\* What is no longer in the table has no promises, and is steady no more.
LEMMA GoneKeeps ==
    ASSUME Inv, NEW S, bans' = bans \ S, expired' = expired \ S, Gone(S),
           promised' \subseteq promised, \A p \in promised' : p.key \notin S,
           UNCHANGED settings
    PROVE  Inv'
<1> USE DEF Inv
<1>1. PromisesAreListed'
  BY DEF PromisesAreListed
<1>2. CASE req.pc = "lookup"
  <2>1. req \in Asked /\ Followed(req, bans, widths)
    BY <1>2, InFlight DEF RequestIsFollowed
  <2>2. req' = [req EXCEPT !.ended = req.ended \ S, !.steady = req.steady \ S]
    BY <1>2 DEF Gone
  <2>3. req.steady \ S \subseteq bans'
    BY <1>2, <2>1 DEF Followed
  <2>4. widths' = widths
    BY DEF settings
  <2>5. req' \in Asked /\ req' # Idle /\ Followed(req', bans', widths')
    BY <1>2, <2>1, <2>2, <2>3, <2>4, ForgetKeeps
  <2>6. Typed'
    BY <2>5 DEF Typed, settings
  <2>. QED BY <1>1, <2>5, <2>6 DEF RequestIsFollowed
<1>3. CASE req.pc # "lookup"
  <2>1. req' = req
    BY <1>3 DEF Gone
  <2>2. Typed'
    BY <2>1 DEF Typed, settings
  <2>3. RequestIsFollowed'
    BY <1>3, <2>1 DEF RequestIsFollowed, Followed
  <2>. QED BY <1>1, <2>2, <2>3
<1>. QED BY <1>2, <1>3

\* Of the prefixes two that meet are nested, so a prefix that is narrower than
\* no key covers the keys of all its addresses.
LEMMA TypedKeysAreCovered ==
    ASSUME Typed, NEW typed \in Bannable, NEW c \in ParsedKeys(typed)
    PROVE  LET for == IF typed \in Addresses THEN {typed} ELSE typed
           IN  /\ c \in Cidrs /\ for \subseteq Addresses
               /\ \A a \in for : KeyOf(a, keying) \subseteq c
<1>1. keying \in Keyings
  BY DEF Typed
<1>2. CASE typed \in Addresses
  <2>1. c = KeyOf(typed, keying)
    BY <1>2 DEF ParsedKeys
  <2>. QED BY <1>1, <1>2, <2>1, KeysHold
<1>3. CASE typed \notin Addresses
  <2>1. c = typed /\ ~ \E k \in keying : c \subseteq k /\ c # k
    BY <1>3 DEF ParsedKeys
  <2>2. c \in Cidrs /\ c \subseteq Addresses
    BY <1>3, <2>1, AdmissionAssumption
  <2>3. ASSUME NEW a \in c
        PROVE  KeyOf(a, keying) \subseteq c
    <3>1. /\ KeyOf(a, keying) \in keying /\ KeyOf(a, keying) \in Cidrs
          /\ a \in KeyOf(a, keying)
      BY <1>1, <2>2, KeysHold
    <3>2. \A x, y \in Cidrs : x \cap y = {} \/ x \subseteq y \/ y \subseteq x
      BY AdmissionAssumption
    <3>3. KeyOf(a, keying) \subseteq c \/ c \subseteq KeyOf(a, keying)
      BY <2>2, <3>1, <3>2
    <3>. QED BY <2>1, <3>1, <3>3
  <2>. QED BY <1>3, <2>1, <2>2, <2>3
<1>. QED BY <1>2, <1>3

LEMMA BanManualKeeps ==
    ASSUME Inv, NEW typed \in Bannable, BanManual(typed)
    PROVE  Inv'
<1> USE DEF Inv
<1> DEFINE for == IF typed \in Addresses THEN {typed} ELSE typed
<1>1. PICK c \in ParsedKeys(typed) :
         /\ Put({c}) /\ Renewed(c)
         /\ promised' = promised \cup {[key |-> c, keys |-> keying, for |-> for]}
  BY DEF BanManual
<1>2. UNCHANGED settings
  BY DEF BanManual
<1>3. c \in Cidrs /\ for \subseteq Addresses /\ \A a \in for : KeyOf(a, keying) \subseteq c
  BY TypedKeysAreCovered
<1>4. bans' = bans \cup {c} /\ expired' = expired \ {c}
  BY <1>1 DEF Put
<1> HIDE DEF for
<1>5. /\ req' \in Asked \cup {Idle}
      /\ req' # Idle => Followed(req', bans', widths')
  <2>1. widths' = widths
    BY <1>2 DEF settings
  <2>2. CASE req.pc = "lookup"
    <3>1. req \in Asked /\ Followed(req, bans, widths)
      BY <2>2, InFlight DEF RequestIsFollowed
    <3>2. req' = [req EXCEPT !.ended = req.ended \ {c}, !.steady = req.steady \ {}]
      <4>1. req' = [req EXCEPT !.ended = req.ended \ {c}]
        BY <1>1, <2>2 DEF Renewed
      <4>. QED BY <3>1, <4>1 DEF Asked
    <3>3. req.steady \ {} \subseteq bans'
      BY <1>4, <2>2, <3>1 DEF Followed
    <3>. QED BY <2>1, <2>2, <3>1, <3>2, <3>3, ForgetKeeps
  <2>3. CASE req.pc # "lookup"
    <3>1. req' = req
      BY <1>1, <2>3 DEF Renewed
    <3>. QED BY <2>1, <2>3, <3>1 DEF RequestIsFollowed, Followed, Typed
  <2>. QED BY <2>2, <2>3
<1>6. Typed'
  <2>1. [key |-> c, keys |-> keying, for |-> for]
            \in [key : Cidrs, keys : Keyings, for : SUBSET Addresses]
    BY <1>3 DEF Typed
  <2>. QED BY <1>1, <1>2, <1>3, <1>4, <1>5, <2>1 DEF Typed, settings
<1>7. PromisesAreListed'
  BY <1>1, <1>3, <1>4 DEF PromisesAreListed
<1>. QED BY <1>5, <1>6, <1>7 DEF RequestIsFollowed

LEMMA ReindexKeeps == Inv /\ Reindex => Inv'
<1> SUFFICES ASSUME Inv, Reindex
             PROVE  Inv'
  OBVIOUS
<1> USE DEF Inv
<1>1. widths' = keying /\ UNCHANGED <<allowed, keying, bans, expired, promised>>
  BY DEF Reindex, table
<1>2. /\ req' \in Asked \cup {Idle}
      /\ req' # Idle => Followed(req', bans', widths')
  <2>1. CASE req.pc = "lookup"
    <3>1. req \in Asked /\ Followed(req, bans, widths)
      BY <2>1, InFlight DEF RequestIsFollowed
    <3>2. req' = [req EXCEPT !.ended = req.ended \ {}, !.steady = req.steady \ req.steady]
      <4>1. req' = [req EXCEPT !.steady = {}]
        BY <2>1 DEF Reindex
      <4>2. req.steady \ req.steady = {} /\ req.ended \ {} = req.ended
        OBVIOUS
      <4>. QED BY <3>1, <4>1, <4>2 DEF Asked
    <3>3. req.steady \ req.steady = {}
      OBVIOUS
    <3>. QED BY <2>1, <3>1, <3>2, <3>3, ForgetKeeps
  <2>2. CASE req.pc # "lookup"
    <3>1. req' = req
      BY <2>2 DEF Reindex
    <3>. QED BY <2>2, <3>1 DEF RequestIsFollowed, Followed, Typed
  <2>. QED BY <2>1, <2>2
<1>3. Typed'
  BY <1>1, <1>2 DEF Typed
<1>4. PromisesAreListed'
  BY <1>1 DEF PromisesAreListed
<1>. QED BY <1>2, <1>3, <1>4 DEF RequestIsFollowed

LEMMA ExpireKeeps ==
    ASSUME Inv, NEW c, Expire(c)
    PROVE  Inv'
<1> USE DEF Inv
<1>1. /\ c \in bans /\ expired' = expired \cup {c} /\ promised' = {p \in promised : p.key # c}
      /\ UNCHANGED <<allowed, keying, widths, bans, req>>
  BY DEF Expire, settings
<1>2. Typed' /\ RequestIsFollowed'
  BY <1>1 DEF Typed, RequestIsFollowed
<1>3. PromisesAreListed'
  BY <1>1 DEF PromisesAreListed
<1>. QED BY <1>2, <1>3

LEMMA MeanwhileKeeps == Inv /\ Meanwhile => Inv'
<1> SUFFICES ASSUME Inv, Meanwhile
             PROVE  Inv'
  OBVIOUS
<1>1. ASSUME NEW typed \in Bannable, BanManual(typed)
      PROVE  Inv'
  BY <1>1, BanManualKeeps
<1>2. ASSUME NEW typed \in Bannable, Unban(typed)
      PROVE  Inv'
  <2>1. PICK c : /\ bans' = bans \ {c} /\ expired' = expired \ {c} /\ Gone({c})
                 /\ promised' = {p \in promised : p.key # c}
    BY <1>2 DEF Unban
  <2>2. UNCHANGED settings
    BY <1>2 DEF Unban
  <2>. QED BY <2>1, <2>2, GoneKeeps
<1>3. ASSUME NEW cidrs \in Allowlists, EditAllowlist(cidrs)
      PROVE  Inv'
  BY <1>3 DEF EditAllowlist, Inv, Typed, RequestIsFollowed, PromisesAreListed, table
<1>4. ASSUME NEW keys \in Keyings, Rekey(keys)
      PROVE  Inv'
  BY <1>4 DEF Rekey, Inv, Typed, RequestIsFollowed, PromisesAreListed, table
<1>5. ASSUME NEW c \in bans, Expire(c)
      PROVE  Inv'
  BY <1>5, ExpireKeeps
<1>6. ASSUME Sweep
      PROVE  Inv'
  <2>1. /\ bans' = bans \ expired /\ expired' = expired \ expired /\ Gone(expired)
        /\ promised' = promised /\ UNCHANGED settings
    BY <1>6 DEF Sweep
  <2>2. \A p \in promised' : p.key \notin expired
    BY <2>1 DEF Inv, PromisesAreListed
  <2>. QED BY <2>1, <2>2, GoneKeeps
<1>. QED BY <1>1, <1>2, <1>3, <1>4, <1>5, <1>6, ReindexKeeps DEF Meanwhile

LEMMA NextKeeps == Inv /\ [Next]_vars => Inv'
<1>1. Inv /\ UNCHANGED vars => Inv'
  BY DEF vars, settings, table, Inv, Typed, RequestIsFollowed, PromisesAreListed
<1>. QED BY <1>1, ArriveKeeps, LookupKeeps, DetectKeeps, RespondKeeps, LeaveKeeps,
            MeanwhileKeeps DEF Next

LEMMA AlwaysInv == Spec => []Inv
<1>. QED BY InitHolds, NextKeeps, PTL DEF Spec

-----------------------------------------------------------------------------
(* The theorems. *)

\* The state is of its type.
THEOREM TypesHold == Spec => []Typed
<1>1. Inv => Typed
  BY DEF Inv
<1>. QED BY <1>1, AlwaysInv, PTL

\* Forged headers blame nobody: resolve and walkChain attribute a request to its
\* origin or to nobody, whatever its client sent and however many proxies it has
\* passed (clientip.go).
THEOREM BannableIsOriginAlways == Spec => []BannableIsOrigin
<1>1. Inv => BannableIsOrigin
  <2> SUFFICES ASSUME Inv, req.pc # "idle"
               PROVE  /\ req.bannable => \/ req.client = req.origin
                                         \/ {req.client, req.origin} \subseteq TrustedProxies
                      /\ req.clean => req.bannable
    BY DEF BannableIsOrigin
  <2>1. FairTo(req)
    BY InFlight DEF Inv, RequestIsFollowed, Followed
  <2>. QED BY <2>1 DEF FairTo, Fair
<1>. QED BY <1>1, AlwaysInv, PTL

\* ServeHTTP has no other way past a ban than the exemptions that are meant, and a
\* ban of the client's own that has run out, is not swept and is met first.
THEOREM NoWayAroundAlways == Spec => []NoWayAround
<1>1. Inv => NoWayAround
  <2> SUFFICES ASSUME Inv, req.pc \in {"detect", "backend", "served"}, req.steady # {}
               PROVE  Excused(req) \/ Shadowed(req)
    BY DEF NoWayAround
  <2>. QED BY InFlight DEF Inv, RequestIsFollowed, Followed
<1>. QED BY <1>1, AlwaysInv, PTL

\* ServeHTTP refuses no trusted proxy and no source on the allowlist it read,
\* whatever bans cover them.
THEOREM ProtectedIsServedAlways == Spec => []ProtectedIsServed
<1>1. Inv => ProtectedIsServed
  <2> SUFFICES ASSUME Inv, req.pc = "refused"
               PROVE  req.origin \notin TrustedProxies \cup req.allow
    BY DEF ProtectedIsServed
  <2>1. req \in Asked /\ FairTo(req) /\ ~SourceExempt(req)
    BY InFlight DEF Inv, RequestIsFollowed, Followed
  <2>. QED BY <2>1, UnexemptedIsOrigin
<1>. QED BY <1>1, AlwaysInv, PTL

\* A lookup of what the operator typed for a ban finds a ban in force while that
\* one stands, or one met first that has run out and is not swept, across reloads
\* that do not widen the keys (parseBanKey, banKey, lookupLocked, get).
THEOREM ManualBansBiteAlways == Spec => []ManualBansBite
<1>1. Inv => ManualBansBite
  <2> SUFFICES ASSUME Inv, widths = keying, NEW p \in promised, NEW a \in p.for,
                      KeyOf(a, keying) \subseteq KeyOf(a, p.keys)
               PROVE  \/ Get(KeyOf(a, keying), expired) # {}
                      \/ \E e \in expired : Hides(e, p.key, KeyOf(a, keying))
    BY Zenon DEF ManualBansBite
  <2> DEFINE key == KeyOf(a, keying)
  <2>1. p.key \in bans \ expired /\ KeyOf(a, p.keys) \subseteq p.key
    BY DEF Inv, PromisesAreListed
  <2>2. key \in widths
    <3>1. p \in [key : Cidrs, keys : Keyings, for : SUBSET Addresses] /\ keying \in Keyings
      BY DEF Inv, Typed
    <3>2. a \in Addresses
      BY <3>1
    <3>. QED BY <3>1, <3>2, KeysHold
  <2>3. key \subseteq p.key
    BY <2>1
  <2> HIDE DEF key
  <2>4. /\ Hit(key) # {}
        /\ \A h \in Hit(key) : h \in bans /\ (h = p.key \/ Hides(h, p.key, key))
    <3>1. widths \in Keyings /\ bans \subseteq Cidrs /\ p.key \in bans
      BY <2>1 DEF Inv, Typed
    <3>. QED BY <2>2, <2>3, <3>1, HitFirst
  <2>5. \/ Get(key, expired) # {}
        \/ \E e \in expired : Hides(e, p.key, key)
    BY <2>1, <2>4 DEF Get
  <2>. QED BY <2>5 DEF key
<1>. QED BY <1>1, AlwaysInv, PTL

\* detectRequest, detectResponse and applyBan ban nobody but the sender, and no
\* range that holds anything protected.
THEOREM BansAreEarnedAlways == Spec => BansAreEarned
<1> DEFINE Fine == \A c \in (bans' \ expired') \ (bans \ expired) :
                       /\ req.origin \in c \ (TrustedProxies \cup req.allow)
                       /\ c \in Ranges => ~Dangerous(c, req.allow)
<1>1. ASSUME Inv, Detect \/ Respond
      PROVE  Fine
  <2>1. req.pc # "idle" /\ req.pc # "served"
    BY <1>1 DEF Detect, Respond
  <2>2. req \in Asked /\ FairTo(req) /\ ~SourceExempt(req)
    BY <1>1, <2>1, InFlight DEF Inv, RequestIsFollowed, Followed
  <2>3. UNCHANGED table \/ \E S \in Bannings(req) : Put(S)
    BY <1>1 DEF Detect, Respond
  <2>4. CASE UNCHANGED table
    BY <2>4 DEF table
  <2>5. CASE \E S \in Bannings(req) : Put(S)
    BY <2>2, <2>5, BanningsAre DEF Put
  <2>. QED BY <2>3, <2>4, <2>5
<1>2. Inv => [Detect \/ Respond => Fine]_vars
  BY <1>1
<1>. QED BY <1>2, AlwaysInv, PTL DEF BansAreEarned
=============================================================================
