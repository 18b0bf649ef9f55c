---------------------------- MODULE OutboundProofs ----------------------------
(* What bounds the work off the request path, for any number of goroutines,    *)
(* addresses, reloads and any capacity.                                        *)
EXTENDS Outbound, FiniteSetTheorems, TLAPS

Busy    == {"targets", "report", "post", "leaving"}
Sender  == {NoSend} \cup [pc : Busy, gen : Generations, ip : Addresses \cup {NoAddress}]
Scanner == {Free} \cup [pc : {"loaded", "held"}, gen : Generations]

\* What the three invariants below need to know of the types.
Typed ==
    /\ gen \in Generations
    /\ sem \in Int /\ send \in [Senders -> Sender]
    /\ inflight \subseteq Addresses
    /\ asking \in [Addresses -> Nat] /\ ending \in [Addresses -> Nat]
    /\ held \in [Generations -> Int] /\ pit \in [Scanners -> Scanner]

LEMMA GenerationsAreNumbers == Generations = 1..Len(TarpitCaps) /\ Len(TarpitCaps) \in Nat \ {0}
  BY OutboundAssumption DEF Generations

LEMMA InitTyped == Init => Typed
<1> SUFFICES ASSUME Init PROVE Typed
  OBVIOUS
<1>1. gen \in Generations /\ sem \in Int
  BY GenerationsAreNumbers DEF Init
<1>2. send \in [Senders -> Sender] /\ pit \in [Scanners -> Scanner]
  BY DEF Init, Sender, Scanner
<1>3. inflight \subseteq Addresses /\ asking \in [Addresses -> Nat] /\ ending \in [Addresses -> Nat]
  BY DEF Init, Zero
<1>4. held \in [Generations -> Int]
  BY DEF Init
<1> QED BY <1>1, <1>2, <1>3, <1>4 DEF Typed

\* What a sender is like after any step of its own.
LEMMA SendingIsTyped ==
    ASSUME Typed, NEW w \in Senders, Sending(w)
    PROVE  Typed'
<1>1. /\ UNCHANGED <<gen, inflight, asking, ending, held, pit>>
      /\ send[w] \in Sender
  BY DEF Sending, Typed, lookups, tarpit
<1>2. ASSUME NEW label \in Busy, Goto(w, label), send[w].pc # "idle"
      PROVE  send' \in [Senders -> Sender]
  BY <1>1, <1>2 DEF Goto, Sender, NoSend, Typed
<1>3. sem' \in Int /\ send' \in [Senders -> Sender]
  <2>1. CASE Dispatch(w)
    <3>1. PICK ip \in Addresses \cup {NoAddress}, g \in 1..gen :
              send' = [send EXCEPT ![w] = [pc |-> "targets", gen |-> g, ip |-> ip]]
      BY <2>1 DEF Dispatch
    <3>2. g \in Generations
      BY GenerationsAreNumbers DEF Typed
    <3> QED BY <2>1, <3>1, <3>2 DEF Dispatch, Sender, Busy, Typed
  <2>2. CASE Deliver(w)
    <3>1. Goto(w, "leaving") \/ Goto(w, "report")
      BY <2>2 DEF Deliver
    <3> QED BY <1>2, <2>2, <3>1 DEF Deliver, Busy, Typed
  <2>3. CASE ReportAbuse(w)
    <3>1. Goto(w, "leaving") \/ Goto(w, "post")
      BY <2>3 DEF ReportAbuse, Claim
    <3> QED BY <1>2, <2>3, <3>1 DEF ReportAbuse, Busy, Typed
  <2>4. CASE Posted(w)
    BY <1>2, <2>4 DEF Posted, Busy, Typed
  <2>5. CASE Release(w)
    BY <2>5 DEF Release, Sender, Typed
  <2> QED BY <2>1, <2>2, <2>3, <2>4, <2>5 DEF Sending
<1> QED BY <1>1, <1>3 DEF Typed

LEMMA LookupIsTyped ==
    ASSUME Typed, Lookup
    PROVE  Typed'
<1>1. UNCHANGED <<gen, sem, send, held, pit>>
  BY DEF Lookup, sending, tarpit
<1> DEFINE Sets == /\ inflight' \subseteq Addresses
                   /\ asking' \in [Addresses -> Nat] /\ ending' \in [Addresses -> Nat]
<1>2. Sets
  <2>1. ASSUME NEW ip \in Addresses, Ask(ip) PROVE Sets
    BY <2>1 DEF Ask, Typed
  <2>2. ASSUME NEW ip \in Addresses, Answer(ip) PROVE Sets
    <3>1. asking[ip] - 1 \in Nat
      BY <2>2 DEF Answer, Typed
    <3> QED BY <2>2, <3>1 DEF Answer, Typed
  <2>3. ASSUME NEW ip \in Addresses, Ended(ip) PROVE Sets
    <3>1. ending[ip] - 1 \in Nat
      BY <2>3 DEF Ended, Typed
    <3> QED BY <2>3, <3>1 DEF Ended, Typed
  <2>4. CASE SweepCountries
    BY <2>4 DEF SweepCountries, Typed
  <2> QED BY <2>1, <2>2, <2>3, <2>4 DEF Lookup
<1> QED BY <1>1, <1>2 DEF Typed

LEMMA TarpitIsTyped ==
    ASSUME Typed, NEW r \in Scanners, Tarpit(r)
    PROVE  Typed'
<1>1. /\ UNCHANGED <<gen, sem, send, inflight, asking, ending>>
      /\ pit[r] \in Scanner
  BY DEF Tarpit, Typed, sending, lookups
<1>2. held' \in [Generations -> Int] /\ pit' \in [Scanners -> Scanner]
  <2>1. CASE Load(r)
    BY <2>1 DEF Load, Scanner, Typed
  <2>2. CASE Enter(r)
    <3>1. pit[r] \in [pc : {"loaded", "held"}, gen : Generations]
      BY <1>1, <2>2 DEF Enter, Scanner, Free
    <3> QED BY <2>2, <3>1 DEF Enter, Scanner, Typed
  <2>3. CASE Quit(r)
    <3>1. pit[r] \in [pc : {"loaded", "held"}, gen : Generations]
      BY <1>1, <2>3 DEF Quit, Scanner, Free
    <3> QED BY <2>3, <3>1 DEF Quit, Scanner, Typed
  <2> QED BY <2>1, <2>2, <2>3 DEF Tarpit
<1> QED BY <1>1, <1>2 DEF Typed

LEMMA StepIsTyped ==
    ASSUME Typed, [Next]_vars
    PROVE  Typed'
<1>1. CASE Reload
  <2>1. gen + 1 \in Generations
    BY <1>1, GenerationsAreNumbers DEF Reload, Typed
  <2> QED BY <1>1, <2>1 DEF Reload, Typed, sending, lookups, tarpit
<1>2. CASE Tick
  BY <1>2 DEF Tick, Typed, sending, lookups, tarpit
<1>3. CASE UNCHANGED vars
  BY <1>3 DEF vars, Typed, sending, lookups, tarpit
<1> QED BY <1>1, <1>2, <1>3, SendingIsTyped, LookupIsTyped, TarpitIsTyped DEF Next

-----------------------------------------------------------------------------
(* The senders' slots. *)

\* Who is in flight after w has gone from one label to another.
LEMMA InFlightAfter ==
    ASSUME Typed, NEW w \in Senders, NEW s, send' = [send EXCEPT ![w] = s]
    PROVE  InFlight' = IF s.pc = "idle" THEN InFlight \ {w} ELSE InFlight \cup {w}
  BY DEF InFlight, Typed

\* notifySem is given back exactly once by every send that took it, and its
\* capacity bounds the sends of all notifiers together (notify.go:96-108).
THEOREM SlotsCorrect == Spec => []SlotsAreExact
<1> DEFINE Inv == Typed /\ SlotsAreExact
<1> USE DEF SlotsAreExact
<1>1. Init => Inv
  <2> SUFFICES ASSUME Init PROVE SlotsAreExact
    BY InitTyped
  <2>1. InFlight = {} /\ sem = 0
    BY DEF Init, InFlight, NoSend
  <2> QED BY <2>1, FS_EmptySet, OutboundAssumption
<1>2. Inv /\ [Next]_vars => Inv'
  <2> SUFFICES ASSUME Inv, [Next]_vars PROVE SlotsAreExact'
    BY StepIsTyped
  <2>1. IsFiniteSet(InFlight) /\ Cardinality(InFlight) \in Nat /\ SendCap \in Nat
    BY FS_Subset, FS_CardinalityType, OutboundAssumption DEF InFlight
  <2>2. ASSUME NEW w \in Senders, Dispatch(w) PROVE SlotsAreExact'
    <3>1. InFlight' = InFlight \cup {w} /\ w \notin InFlight
      BY <2>2, InFlightAfter DEF Dispatch, InFlight
    <3>2. Cardinality(InFlight \cup {w}) = Cardinality(InFlight) + 1
      BY <2>1, <3>1, FS_AddElement
    <3>3. sem' = sem + 1 /\ sem + 1 <= SendCap
      BY <2>1, <2>2 DEF Dispatch, Typed
    <3> QED BY <3>1, <3>2, <3>3
  <2>3. ASSUME NEW w \in Senders, Release(w) PROVE SlotsAreExact'
    <3>1. InFlight' = InFlight \ {w} /\ w \in InFlight
      <4>1. send[w].pc # "idle"
        BY <2>3 DEF Release
      <4>2. send' = [send EXCEPT ![w] = NoSend] /\ NoSend.pc = "idle"
        BY <2>3 DEF Release, NoSend
      <4> QED BY <4>1, <4>2, InFlightAfter DEF InFlight
    <3>2. Cardinality(InFlight \ {w}) = Cardinality(InFlight) - 1
      BY <2>1, <3>1, FS_RemoveElement
    <3>3. sem' = sem - 1
      BY <2>3 DEF Release
    <3> QED BY <2>1, <3>1, <3>2, <3>3
  <2>4. ASSUME NEW w \in Senders, NEW label \in Busy, Goto(w, label), send[w].pc # "idle",
               UNCHANGED sem
        PROVE  SlotsAreExact'
    <3>1. send[w] \in Sender
      BY DEF Typed
    <3>2. send' = [send EXCEPT ![w] = [send[w] EXCEPT !.pc = label]]
      BY <2>4 DEF Goto, Typed
    <3>3. [send[w] EXCEPT !.pc = label].pc = label /\ label # "idle"
      BY <3>1 DEF Sender, NoSend, Busy
    <3>4. InFlight' = InFlight \cup {w} /\ w \in InFlight
      BY <2>4, <3>2, <3>3, InFlightAfter DEF InFlight
    <3>5. InFlight' = InFlight
      BY <3>4
    <3> QED BY <2>4, <3>5
  <2>5. ASSUME NEW w \in Senders, Deliver(w) \/ ReportAbuse(w) \/ Posted(w) PROVE SlotsAreExact'
    <3>1. PICK label \in Busy : Goto(w, label)
      BY <2>5 DEF Deliver, ReportAbuse, Claim, Posted, Busy
    <3> QED BY <2>4, <2>5, <3>1 DEF Deliver, ReportAbuse, Posted
  <2>6. CASE UNCHANGED <<sem, send>>
    BY <2>6 DEF InFlight
  <2>7. Lookup \/ (\E r \in Scanners : Tarpit(r)) \/ Reload \/ Tick \/ UNCHANGED vars
          => UNCHANGED <<sem, send>>
    BY DEF Lookup, Tarpit, Reload, Tick, vars, sending
  <2> QED BY <2>2, <2>3, <2>5, <2>6, <2>7 DEF Next, Sending
<1> QED BY <1>1, <1>2, PTL DEF Spec

-----------------------------------------------------------------------------
(* The in-flight set of lookups. *)

\* The in-flight set holds exactly the addresses a goroutine is out for, so it
\* bounds them and forgets none (notify.go:379-385, geo.go:84-89).
THEOREM LookupsCorrect == Spec => []LookupsAreExact
<1> DEFINE Inv == Typed /\ LookupsAreExact
<1> USE DEF LookupsAreExact
<1>1. Init => Inv
  <2> SUFFICES ASSUME Init PROVE LookupsAreExact
    BY InitTyped
  <2> QED BY FS_EmptySet, OutboundAssumption DEF Init, Zero
<1>2. Inv /\ [Next]_vars => Inv'
  <2> SUFFICES ASSUME Inv, [Next]_vars PROVE LookupsAreExact'
    BY StepIsTyped
  <2>1. IsFiniteSet(inflight) /\ Cardinality(inflight) \in Nat /\ LookupMax \in Nat
    BY FS_Subset, FS_CardinalityType, OutboundAssumption DEF Typed
  <2>2. \A ip \in Addresses : asking[ip] \in Nat /\ ending[ip] \in Nat
    BY DEF Typed
  <2>3. ASSUME NEW ip \in Addresses, Ask(ip) PROVE LookupsAreExact'
    <3>1. asking[ip] = 0 /\ ending[ip] = 0
      BY <2>2, <2>3 DEF Ask
    <3>2. /\ asking'[ip] = 1 /\ ending' = ending
          /\ \A a \in Addresses \ {ip} : asking'[a] = asking[a]
      BY <2>3, <3>1 DEF Ask, Typed
    <3>3. inflight' = inflight \cup {ip}
      BY <2>3 DEF Ask
    <3>4. Cardinality(inflight') <= LookupMax
      <4>1. ip \notin inflight /\ Cardinality(inflight) < LookupMax
        BY <2>3 DEF Ask
      <4>2. Cardinality(inflight \cup {ip}) = Cardinality(inflight) + 1
        BY <2>1, <4>1, FS_AddElement
      <4> QED BY <2>1, <3>3, <4>1, <4>2
    <3> QED BY <2>2, <3>1, <3>2, <3>3, <3>4
  <2>4. ASSUME NEW ip \in Addresses, Answer(ip) PROVE LookupsAreExact'
    <3>1. /\ asking'[ip] + ending'[ip] = asking[ip] + ending[ip]
          /\ \A a \in Addresses \ {ip} : asking'[a] = asking[a] /\ ending'[a] = ending[a]
      BY <2>2, <2>4 DEF Answer, Typed
    <3>2. inflight' = inflight
      BY <2>4 DEF Answer
    <3> QED BY <3>1, <3>2
  <2>5. ASSUME NEW ip \in Addresses, Ended(ip) PROVE LookupsAreExact'
    <3>1. asking[ip] = 0 /\ ending[ip] = 1
      BY <2>2, <2>5 DEF Ended
    <3>2. /\ asking' = asking /\ ending'[ip] = 0
          /\ \A a \in Addresses \ {ip} : ending'[a] = ending[a]
      BY <2>5, <3>1 DEF Ended, Typed
    <3>3. inflight' = inflight \ {ip}
      BY <2>5 DEF Ended
    <3>4. Cardinality(inflight') <= LookupMax
      <4>1. Cardinality(inflight \ {ip}) \in {Cardinality(inflight), Cardinality(inflight) - 1}
        BY <2>1, FS_RemoveElement
      <4> QED BY <2>1, <3>3, <4>1
    <3> QED BY <2>2, <3>1, <3>2, <3>3, <3>4
  <2>6. CASE UNCHANGED <<inflight, asking, ending>>
    BY <2>6
  <2>7. ASSUME \/ \E w \in Senders : Sending(w)
               \/ \E r \in Scanners : Tarpit(r)
               \/ SweepCountries \/ Reload \/ Tick \/ UNCHANGED vars
        PROVE  UNCHANGED <<inflight, asking, ending>>
    BY <2>7 DEF Sending, Tarpit, SweepCountries, Reload, Tick, vars, lookups
  <2>8. CASE Lookup
    <3>1. (\E ip \in Addresses : Ask(ip) \/ Answer(ip) \/ Ended(ip)) \/ SweepCountries
      BY <2>8 DEF Lookup
    <3>2. CASE SweepCountries
      BY <2>6, <2>7, <3>2
    <3>3. CASE \E ip \in Addresses : Ask(ip) \/ Answer(ip) \/ Ended(ip)
      <4>1. PICK ip \in Addresses : Ask(ip) \/ Answer(ip) \/ Ended(ip)
        BY <3>3
      <4> HIDE DEF LookupsAreExact
      <4> QED BY <2>3, <2>4, <2>5, <4>1
    <3> QED BY <3>1, <3>2, <3>3
  <2>9. CASE ~Lookup
    <3>1. UNCHANGED <<inflight, asking, ending>>
      BY <2>7, <2>9 DEF Next
    <3> QED BY <2>6, <3>1
  <2> QED BY <2>8, <2>9
<1> QED BY <1>1, <1>2, PTL DEF Spec

-----------------------------------------------------------------------------
(* The tarpit. *)

Waiting(g) == {r \in Scanners : pit[r] = [pc |-> "held", gen |-> g]}
Exact(g)   == held[g] = Cardinality(Waiting(g)) /\ held[g] <= TarpitCaps[g]

LEMMA ExactMeans ==
    /\ TarpitIsExact <=> \A g \in Generations : Exact(g)
    /\ TarpitIsExact' <=> \A g \in Generations : Exact(g)'
<1>1. TarpitIsExact <=> \A g \in Generations : Exact(g)
  BY DEF TarpitIsExact, Exact, Waiting
<1>2. TarpitIsExact' <=> \A g \in Generations : Exact(g)'
  BY DEF TarpitIsExact, Exact, Waiting, Generations
<1> QED BY <1>1, <1>2

\* However often the channel is swapped while requests wait in it, each channel
\* counts its own and admits no more than its capacity (enforce.go:301-325).
THEOREM TarpitCorrect == Spec => []TarpitIsExact
<1> DEFINE Inv == Typed /\ TarpitIsExact
<1>1. Init => Inv
  <2> SUFFICES ASSUME Init, NEW g \in Generations PROVE Exact(g)
    BY ExactMeans, InitTyped
  <2>1. Waiting(g) = {} /\ held[g] = 0
    BY DEF Init, Waiting, Free
  <2>2. TarpitCaps[g] \in Nat
    BY OutboundAssumption, GenerationsAreNumbers
  <2> QED BY <2>1, <2>2, FS_EmptySet DEF Exact
<1>2. Inv /\ [Next]_vars => Inv'
  <2> SUFFICES ASSUME Inv, [Next]_vars, NEW g \in Generations PROVE Exact(g)'
    BY ExactMeans, StepIsTyped
  <2>1. /\ Exact(g) /\ held[g] \in Int /\ TarpitCaps[g] \in Nat
        /\ IsFiniteSet(Waiting(g)) /\ Cardinality(Waiting(g)) \in Nat
    <3>1. IsFiniteSet(Waiting(g))
      BY FS_Subset, OutboundAssumption DEF Waiting
    <3>2. held[g] \in Int /\ TarpitCaps[g] \in Nat
      BY OutboundAssumption, GenerationsAreNumbers DEF Typed
    <3> QED BY ExactMeans, <3>1, <3>2, FS_CardinalityType
  <2>2. CASE held'[g] = held[g] /\ Waiting(g)' = Waiting(g)
    BY <2>1, <2>2 DEF Exact
  <2>3. ASSUME NEW r \in Scanners, Load(r) PROVE Exact(g)'
    <3>1. held' = held /\ Waiting(g)' = Waiting(g)
      BY <2>3 DEF Load, Waiting, Free, Typed
    <3> QED BY <2>2, <3>1
  <2>4. ASSUME NEW r \in Scanners, Enter(r) PROVE Exact(g)'
    <3>1. pit[r] \in [pc : {"loaded"}, gen : Generations]
      BY <2>4 DEF Enter, Typed, Scanner, Free
    <3>2. r \notin Waiting(g)
      BY <3>1 DEF Waiting
    <3>3. CASE pit' = [pit EXCEPT ![r] = Free] /\ held' = held
      <4>1. Waiting(g)' = Waiting(g)
        BY <3>2, <3>3 DEF Waiting, Free, Typed
      <4> QED BY <2>2, <3>3, <4>1
    <3>4. CASE /\ held[pit[r].gen] < TarpitCaps[pit[r].gen]
               /\ held' = [held EXCEPT ![pit[r].gen] = @ + 1]
               /\ pit' = [pit EXCEPT ![r].pc = "held"]
      <4>1. pit'[r] = [pc |-> "held", gen |-> pit[r].gen]
        BY <3>1, <3>4 DEF Typed
      <4>2. CASE pit[r].gen = g
        <5>1. Waiting(g)' = Waiting(g) \cup {r}
          BY <3>4, <4>1, <4>2 DEF Waiting, Typed
        <5>2. held'[g] = held[g] + 1 /\ held[g] < TarpitCaps[g]
          BY <3>4, <4>2 DEF Typed
        <5>3. Cardinality(Waiting(g) \cup {r}) = Cardinality(Waiting(g)) + 1
          BY <2>1, <3>2, FS_AddElement
        <5> QED BY <2>1, <5>1, <5>2, <5>3 DEF Exact
      <4>3. CASE pit[r].gen # g
        <5>1. Waiting(g)' = Waiting(g) /\ held'[g] = held[g]
          BY <3>2, <3>4, <4>1, <4>3 DEF Waiting, Typed
        <5> QED BY <2>2, <5>1
      <4> QED BY <4>2, <4>3
    <3> QED BY <2>4, <3>3, <3>4 DEF Enter
  <2>5. ASSUME NEW r \in Scanners, Quit(r) PROVE Exact(g)'
    <3>1. pit[r] \in [pc : {"held"}, gen : Generations]
      BY <2>5 DEF Quit, Typed, Scanner, Free
    <3>2. CASE pit[r].gen = g
      <4>1. Waiting(g)' = Waiting(g) \ {r} /\ r \in Waiting(g)
        BY <2>5, <3>1, <3>2 DEF Quit, Waiting, Free, Typed
      <4>2. held'[g] = held[g] - 1
        BY <2>5, <3>2 DEF Quit, Typed
      <4>3. Cardinality(Waiting(g) \ {r}) = Cardinality(Waiting(g)) - 1
        BY <2>1, <4>1, FS_RemoveElement
      <4> QED BY <2>1, <4>1, <4>2, <4>3 DEF Exact
    <3>3. CASE pit[r].gen # g
      <4>1. Waiting(g)' = Waiting(g) /\ held'[g] = held[g]
        BY <2>5, <3>1, <3>3 DEF Quit, Waiting, Free, Typed
      <4> QED BY <2>2, <4>1
    <3> QED BY <3>2, <3>3
  <2>6. CASE UNCHANGED tarpit
    BY <2>2, <2>6 DEF tarpit, Waiting
  <2>7. ASSUME \/ \E w \in Senders : Sending(w)
               \/ Lookup \/ Reload \/ Tick \/ UNCHANGED vars
        PROVE  UNCHANGED tarpit
    BY <2>7 DEF Sending, Lookup, Reload, Tick, vars
  <2>8. CASE \E r \in Scanners : Tarpit(r)
    <3>1. PICK r \in Scanners : Load(r) \/ Enter(r) \/ Quit(r)
      BY <2>8 DEF Tarpit
    <3> QED BY <2>3, <2>4, <2>5, <3>1
  <2>9. CASE ~\E r \in Scanners : Tarpit(r)
    <3>1. UNCHANGED tarpit
      BY <2>7, <2>9 DEF Next
    <3> QED BY <2>6, <3>1
  <2> QED BY <2>8, <2>9
<1> QED BY <1>1, <1>2, PTL DEF Spec

-----------------------------------------------------------------------------
(* Reports: as long as it can hold every address it has been given, the       *)
(* notifier's map is the history of its reports.                              *)

Remembered ==
    /\ now \in Nat \ {0}
    /\ reported \in [Generations -> [Addresses -> Nat]]
    /\ reports \in [Generations -> [Addresses -> Nat]]
    /\ \A w \in Senders : send[w].pc = "report" => send[w].ip \in Addresses
    /\ \A g \in Generations : reported[g] = reports[g] \/ Cardinality(Reported(g)) > ReportCap

LEMMA ReportersAreSenders ==
    ASSUME Typed, NEW w \in Senders, send[w].pc # "idle"
    PROVE  send[w] \in [pc : Busy, gen : Generations, ip : Addresses \cup {NoAddress}]
  BY DEF Typed, Sender, NoSend

\* A claim marks the address in the map and in the history alike, unless the map
\* overflows.
LEMMA ClaimRemembers ==
    ASSUME Typed, Remembered, NEW w \in Senders, send[w].pc = "report", Claim(w)
    PROVE  /\ reported' \in [Generations -> [Addresses -> Nat]]
           /\ reports' \in [Generations -> [Addresses -> Nat]]
           /\ \A g \in Generations :
                 (reported[g] = reports[g] \/ Cardinality(Reported(g)) > ReportCap)'
<1> DEFINE i  == send[w].gen
           ip == send[w].ip
           marked == [reported[i] EXCEPT ![ip] = now]
           logged == [reports[i] EXCEPT ![ip] = now]
<1>1. i \in Generations /\ ip \in Addresses
  BY ReportersAreSenders DEF Remembered
<1>2. /\ reported' = [reported EXCEPT ![i] = Marked(i, ip)]
      /\ reports' = [reports EXCEPT ![i] = logged]
  BY <1>1 DEF Claim, Remember, Remembered
<1>3. /\ now \in Nat \ {0}
      /\ reported \in [Generations -> [Addresses -> Nat]]
      /\ reports \in [Generations -> [Addresses -> Nat]]
  BY DEF Remembered
<1>4. Marked(i, ip) = IF Cardinality({a \in Addresses : marked[a] > 0}) > ReportCap
                      THEN [a \in Addresses |-> IF a = ip THEN now ELSE 0]
                      ELSE marked
  BY DEF Marked
<1> HIDE DEF i, ip
<1>5. marked \in [Addresses -> Nat] /\ logged \in [Addresses -> Nat]
  BY <1>1, <1>3
<1>6. Marked(i, ip) \in [Addresses -> Nat]
  BY <1>3, <1>4, <1>5
<1>7. /\ reported' \in [Generations -> [Addresses -> Nat]]
      /\ reports' \in [Generations -> [Addresses -> Nat]]
  BY <1>1, <1>2, <1>3, <1>5, <1>6
<1>8. ASSUME NEW g \in Generations
      PROVE  (reported[g] = reports[g] \/ Cardinality(Reported(g)) > ReportCap)'
  <2>1. CASE g # i
    <3>1. reported'[g] = reported[g] /\ reports'[g] = reports[g]
      BY <1>1, <1>2, <1>3, <2>1
    <3>2. Reported(g)' = Reported(g)
      BY <3>1 DEF Reported
    <3> QED BY <3>1, <3>2 DEF Remembered
  <2>2. CASE g = i
    <3>1. reported'[g] = Marked(i, ip) /\ reports'[g] = logged
      BY <1>1, <1>2, <1>3, <2>2
    <3>2. Reported(g)' = {a \in Addresses : logged[a] > 0}
      BY <3>1 DEF Reported
    <3>3. CASE reported[i] = reports[i]
      BY <1>4, <3>1, <3>2, <3>3
    <3>4. CASE Cardinality(Reported(i)) > ReportCap
      <4>1. Reported(i) \subseteq Reported(g)'
        BY <1>3, <1>1, <3>2 DEF Reported
      <4>2. IsFiniteSet(Reported(g)')
        BY <3>2, FS_Subset, OutboundAssumption
      <4>3. /\ Cardinality(Reported(i)) <= Cardinality(Reported(g)')
            /\ Cardinality(Reported(i)) \in Nat /\ Cardinality(Reported(g)') \in Nat
        BY <4>1, <4>2, FS_Subset, FS_CardinalityType
      <4>4. ReportCap \in Nat
        BY OutboundAssumption
      <4> QED BY <3>4, <4>3, <4>4
    <3> QED BY <1>1, <3>3, <3>4 DEF Remembered
  <2> QED BY <2>1, <2>2
<1> QED BY <1>7, <1>8

\* No address is reported twice within the gap by a notifier that has not been
\* given more of them than it can remember, however its sends interleave
\* (notify.go:281-288).
THEOREM ReportsCorrect == Spec => ReportedOnce
<1> DEFINE Inv == Typed /\ Remembered
<1>1. Init => Inv
  <2> SUFFICES ASSUME Init PROVE Remembered
    BY InitTyped
  <2> QED BY DEF Init, Zero, NoSend, Remembered
<1>2. Inv /\ [Next]_vars => Inv'
  <2> SUFFICES ASSUME Inv, [Next]_vars PROVE Remembered'
    BY StepIsTyped
  <2> DEFINE Whole == /\ reported \in [Generations -> [Addresses -> Nat]]
                      /\ reports \in [Generations -> [Addresses -> Nat]]
                      /\ \A g \in Generations :
                            reported[g] = reports[g] \/ Cardinality(Reported(g)) > ReportCap
             Targets == \A w \in Senders : send[w].pc = "report" => send[w].ip \in Addresses
  <2>1. Whole /\ Targets /\ now \in Nat \ {0}
    BY DEF Remembered
  <2>2. UNCHANGED <<reported, reports>> => Whole'
    BY <2>1 DEF Reported, Generations
  <2>3. now' \in Nat \ {0}
    BY <2>1 DEF Next, Sending, Lookup, Tarpit, Reload, Tick, vars
  <2>4. UNCHANGED send => Targets'
    BY <2>1
  <2>5. ASSUME NEW w \in Senders, Sending(w) PROVE Whole' /\ Targets'
    <3>1. ASSUME NEW s, send' = [send EXCEPT ![w] = s], s.pc = "report" => s.ip \in Addresses
          PROVE  Targets'
      <4>1. \A v \in Senders : send'[v] = IF v = w THEN s ELSE send[v]
        BY <3>1 DEF Typed
      <4> QED BY <2>1, <3>1, <4>1
    <3>2. ASSUME NEW label, Goto(w, label), send[w].pc # "idle",
                 label = "report" => send[w].ip \in Addresses
          PROVE  Targets'
      <4>1. send' = [send EXCEPT ![w] = [send[w] EXCEPT !.pc = label]]
        BY <3>2 DEF Goto, Typed
      <4>2. /\ [send[w] EXCEPT !.pc = label].pc = label
            /\ [send[w] EXCEPT !.pc = label].ip = send[w].ip
        BY <3>2, ReportersAreSenders
      <4> QED BY <3>1, <3>2, <4>1, <4>2
    <3>3. CASE Dispatch(w)
      <4>1. PICK ip \in Addresses \cup {NoAddress}, g \in 1..gen :
                send' = [send EXCEPT ![w] = [pc |-> "targets", gen |-> g, ip |-> ip]]
        BY <3>3 DEF Dispatch
      <4>2. Targets'
        BY <3>1, <4>1
      <4> QED BY <2>2, <3>3, <4>2 DEF Dispatch
    <3>4. CASE Deliver(w)
      <4>1. send[w].ip # NoAddress => send[w].ip \in Addresses
        BY <3>4, ReportersAreSenders DEF Deliver
      <4>2. Targets'
        BY <3>2, <3>4, <4>1 DEF Deliver
      <4> QED BY <2>2, <3>4, <4>2 DEF Deliver
    <3>5. CASE ReportAbuse(w)
      <4>1. Targets'
        BY <3>2, <3>5 DEF ReportAbuse, Claim
      <4>2. UNCHANGED <<reported, reports>> \/ Claim(w)
        BY <3>5 DEF ReportAbuse
      <4>3. ASSUME Claim(w) PROVE Whole'
        BY <3>5, <4>3, ClaimRemembers DEF ReportAbuse, Generations
      <4> QED BY <2>2, <4>1, <4>2, <4>3
    <3>6. CASE Posted(w)
      BY <2>2, <3>2, <3>6 DEF Posted
    <3>7. CASE Release(w)
      <4>1. Targets'
        BY <3>1, <3>7 DEF Release, NoSend
      <4> QED BY <2>2, <3>7, <4>1 DEF Release
    <3> HIDE DEF Whole, Targets
    <3> QED BY <2>5, <3>3, <3>4, <3>5, <3>6, <3>7 DEF Sending
  <2>6. ASSUME Lookup \/ (\E r \in Scanners : Tarpit(r)) \/ Reload \/ Tick \/ UNCHANGED vars
        PROVE  Whole' /\ Targets'
    <3>1. UNCHANGED <<send, reported, reports>>
      BY <2>6 DEF Lookup, Tarpit, Reload, Tick, vars, sending
    <3> HIDE DEF Whole, Targets
    <3> QED BY <2>2, <2>4, <3>1
  <2>7. Whole' /\ Targets'
    <3> HIDE DEF Whole, Targets
    <3> QED BY <2>5, <2>6 DEF Next
  <2> QED BY <2>3, <2>7 DEF Remembered, Generations
<1>3. Inv /\ [Next]_vars =>
        [\A w \in Senders :
            (send[w].pc # "post" /\ send'[w].pc = "post") =>
                LET g    == send[w].gen
                    last == reports[g][send[w].ip]
                IN  \/ last = 0 \/ now - last >= ReportGap
                    \/ Cardinality(Reported(g)) > ReportCap]_vars
  <2> SUFFICES ASSUME Inv, [Next]_vars, NEW w \in Senders,
                      send[w].pc # "post", send'[w].pc = "post",
                      ~(Cardinality(Reported(send[w].gen)) > ReportCap)
               PROVE  LET last == reports[send[w].gen][send[w].ip]
                      IN  last = 0 \/ now - last >= ReportGap
    OBVIOUS
  <2>1. PICK v \in Senders : Sending(v)
    BY DEF Next, Lookup, Tarpit, Reload, Tick, vars, sending
  <2>2. send[w] # send'[w]
    OBVIOUS
  <2>3. v = w
    BY <2>1, <2>2 DEF Sending, Dispatch, Deliver, ReportAbuse, Claim, Posted, Release, Goto, Typed
  <2>4. ReportAbuse(w) /\ ~Recent(send[w].gen, send[w].ip)
    <3>1. CASE Dispatch(w)
      BY <3>1 DEF Dispatch, Typed
    <3>2. ASSUME NEW label, Goto(w, label), send[w].pc # "idle" PROVE send'[w].pc = label
      BY <3>2, ReportersAreSenders DEF Goto, Typed
    <3>3. CASE Deliver(w)
      BY <3>2, <3>3 DEF Deliver
    <3>4. CASE Posted(w)
      BY <3>2, <3>4 DEF Posted
    <3>5. CASE Release(w)
      BY <3>5 DEF Release, NoSend, Typed
    <3>6. CASE ReportAbuse(w)
      BY <3>2, <3>6 DEF ReportAbuse
    <3> QED BY <2>1, <2>3, <3>1, <3>3, <3>4, <3>5, <3>6 DEF Sending
  <2>5. send[w].gen \in Generations /\ send[w].ip \in Addresses
    BY <2>4, ReportersAreSenders DEF ReportAbuse, Remembered
  <2>6. reported[send[w].gen] = reports[send[w].gen]
    BY <2>5 DEF Remembered
  <2>7. /\ reports[send[w].gen][send[w].ip] \in Nat
        /\ now \in Nat /\ ReportGap \in Nat
    BY <2>5, OutboundAssumption DEF Remembered
  <2> QED BY <2>4, <2>6, <2>7 DEF Recent
<1> QED BY <1>1, <1>2, <1>3, PTL DEF Spec, ReportedOnce

-----------------------------------------------------------------------------
(* Answers: what is still good is in the cache. *)

Stay(ip)  == IF cache[ip].failed THEN FailureTTL ELSE AnswerTTL
Kept(ip)  == due[ip] <= now \/ (ip \in DOMAIN cache /\ due[ip] <= cache[ip].at + Stay(ip))

Answers ==
    /\ now \in Nat
    /\ due \in [Addresses -> Nat]
    /\ \A ip \in DOMAIN cache : cache[ip].at \in Nat
    /\ \A ip \in Addresses : Kept(ip)

\* An answer that counts for any time leaves an entry that is as long fresh, and
\* every other entry is left as it was, or is dropped with what is known of it.
LEMMA AnswerKeeps ==
    ASSUME Answers, NEW ip \in Addresses, Answer(ip), now' = now
    PROVE  Answers'
<1>1. PICK answer \in {"good", "failure", "undecodable"} :
          /\ cache' = Answered(ip, answer)
          /\ due' = [a \in Addresses |->
                        IF a = ip THEN now + GoodFor(answer)
                        ELSE IF a \in DOMAIN cache' THEN due[a] ELSE 0]
  BY DEF Answer
<1>2. GoodFor(answer) \in Nat /\ AnswerTTL \in Nat /\ FailureTTL \in Nat
  BY OutboundAssumption DEF GoodFor
<1>3. now \in Nat /\ due \in [Addresses -> Nat] /\ \A a \in DOMAIN cache : cache[a].at \in Nat
  BY DEF Answers
<1>4. due' \in [Addresses -> Nat]
  BY <1>1, <1>2, <1>3
<1>5. /\ \A a \in DOMAIN cache' \ {ip} : a \in DOMAIN cache /\ cache'[a] = cache[a]
      /\ \/ /\ ip \in DOMAIN cache' /\ cache'[ip].at = now
            /\ GoodFor(answer) = (IF cache'[ip].failed THEN FailureTTL ELSE AnswerTTL)
         \/ cache' = cache /\ GoodFor(answer) = 0
  BY <1>1 DEF Answered, Entries, GoodFor
<1>6. \A a \in DOMAIN cache' : cache'[a].at \in Nat
  BY <1>3, <1>5
<1>7. Kept(ip)'
  <2>1. due'[ip] = now + GoodFor(answer)
    BY <1>1
  <2> QED BY <1>2, <1>3, <1>5, <2>1 DEF Kept, Stay
<1>8. ASSUME NEW a \in Addresses, a # ip PROVE Kept(a)'
  <2>1. CASE a \in DOMAIN cache'
    <3>1. due'[a] = due[a] /\ a \in DOMAIN cache /\ cache'[a] = cache[a]
      BY <1>1, <1>5, <1>8, <2>1
    <3>2. Kept(a)
      BY DEF Answers
    <3> QED BY <2>1, <3>1, <3>2 DEF Kept, Stay
  <2>2. CASE a \notin DOMAIN cache'
    <3>1. due'[a] = 0
      BY <1>1, <1>8, <2>2
    <3> QED BY <1>3, <3>1 DEF Kept
  <2> QED BY <2>1, <2>2
<1> QED BY <1>3, <1>4, <1>6, <1>7, <1>8 DEF Answers

LEMMA SweepKeeps ==
    ASSUME Answers, SweepCountries, now' = now
    PROVE  Answers'
<1>1. PICK left \in SUBSET DOMAIN cache :
          /\ cache' = [a \in left |-> cache[a]]
          /\ due' = [a \in Addresses |-> IF a \in left THEN due[a] ELSE 0]
  <2> DEFINE kept == {a \in DOMAIN cache : now - cache[a].at <= AnswerTTL}
             left == IF Cardinality(kept) > CacheCap THEN {} ELSE kept
  <2>1. left \in SUBSET DOMAIN cache
    OBVIOUS
  <2>2. /\ cache' = [a \in left |-> cache[a]]
        /\ due' = [a \in Addresses |-> IF a \in left THEN due[a] ELSE 0]
    BY DEF SweepCountries
  <2> QED BY <2>1, <2>2
<1>2. due' \in [Addresses -> Nat] /\ \A a \in DOMAIN cache' : cache'[a].at \in Nat
  BY <1>1 DEF Answers
<1>3. ASSUME NEW a \in Addresses PROVE Kept(a)'
  <2>1. CASE a \in left
    BY <1>1, <2>1 DEF Answers, Kept, Stay
  <2>2. CASE a \notin left
    BY <1>1, <2>2 DEF Answers, Kept
  <2> QED BY <2>1, <2>2
<1> QED BY <1>2, <1>3 DEF Answers

\* Time only shortens what is left of an answer.
LEMMA TimeKeeps ==
    ASSUME Answers, now' \in Nat, now <= now', UNCHANGED <<cache, due>>
    PROVE  Answers'
<1>1. ASSUME NEW ip \in Addresses PROVE Kept(ip)'
  BY DEF Answers, Kept, Stay
<1> QED BY <1>1 DEF Answers

\* An address whose last answer is still good, a failure included, is not asked
\* about again, unless the cache was dropped (notify.go:355-361, geo.go:68-70).
THEOREM AnswersCorrect == Spec => AnswersAreKept
<1> DEFINE Inv == Typed /\ Answers
<1>1. Init => Inv
  <2> SUFFICES ASSUME Init PROVE Answers
    BY InitTyped
  <2> QED BY DEF Init, Zero, NoEntry, Answers, Kept
<1>2. Inv /\ [Next]_vars => Inv'
  <2> SUFFICES ASSUME Inv, [Next]_vars PROVE Answers'
    BY StepIsTyped
  <2>1. CASE Lookup
    <3>1. now' = now
      BY <2>1 DEF Lookup
    <3>2. ASSUME UNCHANGED <<cache, due>> PROVE Answers'
      BY <3>1, <3>2, TimeKeeps DEF Answers
    <3>3. \/ \E ip \in Addresses : Ask(ip) \/ Answer(ip) \/ Ended(ip)
          \/ SweepCountries
      BY <2>1 DEF Lookup
    <3>4. ASSUME NEW ip \in Addresses, Ask(ip) \/ Ended(ip) PROVE Answers'
      BY <3>2, <3>4 DEF Ask, Ended
    <3> QED BY <3>1, <3>3, <3>4, AnswerKeeps, SweepKeeps
  <2>2. CASE ~Lookup
    <3>1. UNCHANGED <<cache, due>>
      BY <2>2 DEF Next, Sending, Tarpit, Reload, Tick, vars, lookups
    <3>2. now \in Nat
      BY DEF Answers
    <3>3. now' = now \/ now' = now + 1
      BY <2>2 DEF Next, Sending, Tarpit, Reload, Tick, vars
    <3>4. now' \in Nat /\ now <= now'
      BY <3>2, <3>3
    <3> QED BY <3>1, <3>4, TimeKeeps
  <2> QED BY <2>1, <2>2
<1>3. Inv /\ [Next]_vars => [\A ip \in Addresses : asking'[ip] > asking[ip] => now >= due[ip]]_vars
  <2> SUFFICES ASSUME Inv, [Next]_vars, NEW ip \in Addresses, asking'[ip] > asking[ip]
               PROVE  now >= due[ip]
    OBVIOUS
  <2>1. asking \in [Addresses -> Nat]
    BY DEF Typed
  <2>2. asking[ip] \in Nat
    BY <2>1
  <2>3. asking' # asking
    BY <2>2
  <2>4. Lookup
    BY <2>3 DEF Next, Sending, Tarpit, Reload, Tick, vars, lookups
  <2>5. PICK a \in Addresses : Ask(a) \/ Answer(a)
    BY <2>3, <2>4 DEF Lookup, Ended, SweepCountries
  <2>6. ASSUME Answer(a) PROVE FALSE
    BY <2>1, <2>2, <2>6 DEF Answer
  <2>7. Ask(a)
    BY <2>5, <2>6
  <2>8. a = ip
    BY <2>1, <2>2, <2>7 DEF Ask
  <2>9. ~Fresh(ip) /\ Kept(ip) /\ now \in Nat /\ due[ip] \in Nat
    BY <2>7, <2>8 DEF Ask, Answers
  <2>10. CASE due[ip] <= now
    BY <2>9, <2>10
  <2>11. CASE ip \in DOMAIN cache /\ due[ip] <= cache[ip].at + Stay(ip)
    <3>1. cache[ip].at \in Nat /\ Stay(ip) \in Nat
      BY <2>11, OutboundAssumption DEF Answers, Stay
    <3>2. ~(now - cache[ip].at < Stay(ip))
      BY <2>9, <2>11 DEF Fresh, Stay
    <3> QED BY <2>9, <2>11, <3>1, <3>2
  <2> QED BY <2>9, <2>10, <2>11 DEF Kept
<1> QED BY <1>1, <1>2, <1>3, PTL DEF Spec, AnswersAreKept
=============================================================================
