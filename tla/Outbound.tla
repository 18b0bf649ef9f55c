------------------------------- MODULE Outbound -------------------------------
(***************************************************************************)
(* Work that is kept off the request path or held back on it, and what     *)
(* bounds it: the notifier's sends behind the process-wide notifySem, the  *)
(* lookups of reputation (notify.go) and country (geo.go) behind their     *)
(* in-flight sets, and the tarpit's channel (enforce.go).                  *)
(*                                                                         *)
(* The four share nothing but the clock, so a behaviour follows one of     *)
(* them, chosen at the start in `service`.  A reload makes a new notifier  *)
(* and a new channel while goroutines go on with the old one: generation g *)
(* is the g-th of them.  Lookups of two generations share nothing either,  *)
(* so those of one are followed.  What the other end does with a call is a *)
(* choice: it answers, or not, after any time.                             *)
(***************************************************************************)
EXTENDS Integers, Sequences, FiniteSets

CONSTANTS
    Addresses,    \* the addresses looked up or reported
    NoAddress,    \* what an event without Client, an unban or a dry run reports
    Senders,      \* the goroutines of dispatch
    Scanners,     \* the rejected requests that meet the tarpit
    SendCap,      \* cap(notifySem)
    LookupMax,    \* abuseInflightMax, geoInflightMax
    CacheCap,     \* the size past which a cache is dropped
    ReportCap,    \* the size past which notifier.reported is dropped
    AnswerTTL,    \* notifier.cacheTTL, geoCache.ttl
    FailureTTL,   \* abuseFailureTTL
    ReportGap,    \* how long an address is not reported again
    TarpitCaps,   \* enforcement.tarpit.maxConcurrent of one configuration after the other
    EndOfTime     \* bound: no tick beyond this instant

Generations == DOMAIN TarpitCaps  \* bound: one reload less than configurations
Services    == {"send", "reputation", "country", "tarpit"}

ASSUME OutboundAssumption ==
    /\ IsFiniteSet(Addresses) /\ NoAddress \notin Addresses
    /\ IsFiniteSet(Senders) /\ IsFiniteSet(Scanners)
    /\ {SendCap, LookupMax, FailureTTL, ReportGap} \subseteq Nat \ {0}
    /\ {CacheCap, ReportCap, AnswerTTL, EndOfTime} \subseteq Nat
    /\ TarpitCaps \in Seq(Nat \ {0}) /\ TarpitCaps # <<>>
    /\ \A g \in 1..(Len(TarpitCaps) - 1) : TarpitCaps[g] # TarpitCaps[g + 1]

VARIABLES
    service,  \* which of the four this behaviour follows
    now,      \* the wall clock
    gen,      \* the generation in use
    sem,      \* len(notifySem)
    send,     \* the senders
    reported, \* notifier.reported of each generation; 0: not there
    cache,    \* notifier.scores or geoCache.entries
    inflight, \* the in-flight set
    asking,   \* goroutines waiting for an answer, by address
    ending,   \* and those about to leave the in-flight set
    held,     \* the length of each generation of the tarpit's channel
    pit,      \* the scanners
    reports,  \* history: when an address was last reported; 0: never
    due       \* history: until when the last answer about an address is good

sending == <<sem, send, reported, reports>>
lookups == <<cache, inflight, asking, ending, due>>
tarpit  == <<held, pit>>
vars == <<service, now, gen, sending, lookups, tarpit>>

-----------------------------------------------------------------------------
(* Notifications. *)

NoSend == [pc |-> "idle"]
Goto(w, label) == send' = [send EXCEPT ![w].pc = label]

\* dispatch: at the cap the event is dropped, and nothing happens.  A request may
\* have loaded the notifier before a reload.
Dispatch(w) ==
    /\ send[w].pc = "idle"
    /\ sem < SendCap
    /\ sem' = sem + 1
    /\ \E ip \in Addresses \cup {NoAddress}, g \in 1..gen :
          send' = [send EXCEPT ![w] = [pc |-> "targets", gen |-> g, ip |-> ip]]
    /\ UNCHANGED <<reported, reports>>

\* The webhooks and the chat have answered, failed or timed out.
Deliver(w) ==
    /\ send[w].pc = "targets"
    /\ Goto(w, IF send[w].ip = NoAddress THEN "leaving" ELSE "report")
    /\ UNCHANGED <<sem, reported, reports>>

Recent(g, ip) == reported[g][ip] > 0 /\ now - reported[g][ip] < ReportGap

\* The map once ip is marked; past its cap, it starts over with ip alone.
Marked(g, ip) ==
    LET marked == [reported[g] EXCEPT ![ip] = now]
    IN  IF Cardinality({a \in Addresses : marked[a] > 0}) > ReportCap
        THEN [a \in Addresses |-> IF a = ip THEN now ELSE 0]
        ELSE marked

Remember(g, ip) == reports' = [reports EXCEPT ![g][ip] = now]

Claim(w) ==
    LET g  == send[w].gen
        ip == send[w].ip
    IN  /\ reported' = [reported EXCEPT ![g] = Marked(g, ip)]
        /\ Remember(g, ip)
        /\ Goto(w, "post")

\* Mutant of ReportAbuse: the mutex is given up between looking and marking.
ReportAbuseInTwo(w) ==
    /\ \/ /\ send[w].pc = "report"
          /\ Goto(w, IF Recent(send[w].gen, send[w].ip) THEN "leaving" ELSE "mark")
          /\ UNCHANGED <<reported, reports>>
       \/ send[w].pc = "mark" /\ Claim(w)
    /\ UNCHANGED sem

\* Mutant of ReportAbuse: a duplicate returns without giving the slot back.
ReportAbuseKeepsSlot(w) ==
    /\ send[w].pc = "report"
    /\ IF Recent(send[w].gen, send[w].ip)
       THEN send' = [send EXCEPT ![w] = NoSend] /\ UNCHANGED <<reported, reports>>
       ELSE Claim(w)
    /\ UNCHANGED sem

\* reportAbuse looks and marks in one critical section.
ReportAbuse(w) ==
    /\ send[w].pc = "report"
    /\ IF Recent(send[w].gen, send[w].ip)
       THEN Goto(w, "leaving") /\ UNCHANGED <<reported, reports>>
       ELSE Claim(w)
    /\ UNCHANGED sem

\* The report is out, or has failed; it is not tried again.
Posted(w) ==
    /\ send[w].pc = "post"
    /\ Goto(w, "leaving")
    /\ UNCHANGED <<sem, reported, reports>>

\* The deferred functions of dispatch's goroutine, a panic included.
Release(w) ==
    /\ send[w].pc \in {"targets", "report", "post", "leaving"}
    /\ sem' = sem - 1
    /\ send' = [send EXCEPT ![w] = NoSend]
    /\ UNCHANGED <<reported, reports>>

Sending(w) ==
    /\ service = "send"
    /\ Dispatch(w) \/ Deliver(w) \/ ReportAbuse(w) \/ Posted(w) \/ Release(w)
    /\ UNCHANGED <<service, now, gen, lookups, tarpit>>

-----------------------------------------------------------------------------
(* Lookups. *)

Fresh(ip) ==
    /\ ip \in DOMAIN cache
    /\ now - cache[ip].at < (IF cache[ip].failed THEN FailureTTL ELSE AnswerTTL)

\* Mutant of Ask: whether the address is being asked about already is not seen.
AskAgain(ip) ==
    /\ ~Fresh(ip)
    /\ Cardinality(inflight) < LookupMax
    /\ inflight' = inflight \cup {ip}
    /\ asking' = [asking EXCEPT ![ip] = @ + 1]
    /\ UNCHANGED <<cache, ending, due>>

\* score, lookup: a request asks, and is answered from the cache.  On a miss a
\* goroutine goes to ask, unless one has or LookupMax of them are out.
Ask(ip) ==
    /\ ~Fresh(ip)
    /\ ip \notin inflight
    /\ Cardinality(inflight) < LookupMax
    /\ inflight' = inflight \cup {ip}
    /\ asking' = [asking EXCEPT ![ip] = @ + 1]
    /\ UNCHANGED <<cache, ending, due>>

Entries(ip, failed) ==
    [a \in DOMAIN cache \cup {ip} |->
        IF a = ip THEN [at |-> now, failed |-> failed] ELSE cache[a]]

\* Mutant of Answered: a status other than 200 is not taken for a failure.
AnsweredOnlyErrors(ip, answer) ==
    IF answer = "good" THEN Entries(ip, FALSE) ELSE cache

\* What an answer leaves in the cache.  Reputation: a good one, after dropping
\* all of a full cache; a failure, whatever the size; but no undecodable one.
\* Country: good ones only.
Answered(ip, answer) ==
    IF answer = "good" THEN
        IF service = "reputation" /\ Cardinality(DOMAIN cache) > CacheCap
        THEN [a \in {ip} |-> [at |-> now, failed |-> FALSE]]
        ELSE Entries(ip, FALSE)
    ELSE IF answer = "failure" /\ service = "reputation" THEN Entries(ip, TRUE)
    ELSE cache

\* How long the answer is good for: history, not kept once the cache is dropped.
GoodFor(answer) ==
    IF answer = "good" THEN AnswerTTL
    ELSE IF answer = "failure" /\ service = "reputation" THEN FailureTTL ELSE 0

\* fetchScore, fetch: an answer comes, good, failed or undecodable.
Answer(ip) ==
    /\ asking[ip] > 0
    /\ asking' = [asking EXCEPT ![ip] = @ - 1]
    /\ ending' = [ending EXCEPT ![ip] = @ + 1]
    /\ \E answer \in {"good", "failure", "undecodable"} :
          /\ cache' = Answered(ip, answer)
          /\ due' = [a \in Addresses |->
                        IF a = ip THEN now + GoodFor(answer)
                        ELSE IF a \in DOMAIN cache' THEN due[a] ELSE 0]
    /\ UNCHANGED inflight

\* The deferred removal from the in-flight set.
Ended(ip) ==
    /\ ending[ip] > 0
    /\ ending' = [ending EXCEPT ![ip] = @ - 1]
    /\ inflight' = inflight \ {ip}
    /\ UNCHANGED <<cache, asking, due>>

\* geoCache.sweep, by the janitor.  Nobody sweeps the scores.
SweepCountries ==
    /\ service = "country"
    /\ LET kept == {a \in DOMAIN cache : now - cache[a].at <= AnswerTTL}
           left == IF Cardinality(kept) > CacheCap THEN {} ELSE kept
       IN  /\ cache' = [a \in left |-> cache[a]]
           /\ due' = [a \in Addresses |-> IF a \in left THEN due[a] ELSE 0]
    /\ UNCHANGED <<inflight, asking, ending>>

Lookup ==
    /\ service \in {"reputation", "country"}
    /\ \/ \E ip \in Addresses : Ask(ip) \/ Answer(ip) \/ Ended(ip)
       \/ SweepCountries
    /\ UNCHANGED <<service, now, gen, sending, tarpit>>

-----------------------------------------------------------------------------
(* The tarpit. *)

Free == [pc |-> "free"]

\* tarpit loads the channel,
Load(r) ==
    /\ pit[r] = Free
    /\ pit' = [pit EXCEPT ![r] = [pc |-> "loaded", gen |-> gen]]
    /\ UNCHANGED held

\* waits in it if there is room, or is rejected at once,
Enter(r) ==
    /\ pit[r].pc = "loaded"
    /\ LET g == pit[r].gen IN
          IF held[g] < TarpitCaps[g]
          THEN held' = [held EXCEPT ![g] = @ + 1] /\ pit' = [pit EXCEPT ![r].pc = "held"]
          ELSE pit' = [pit EXCEPT ![r] = Free] /\ UNCHANGED held

\* Mutant of Quit: the place is given back to the channel in use now.
QuitCurrent(r) ==
    /\ pit[r].pc = "held"
    /\ held' = [held EXCEPT ![gen] = @ - 1]
    /\ pit' = [pit EXCEPT ![r] = Free]

\* and leaves it, after the delay or when the client hangs up.
Quit(r) ==
    /\ pit[r].pc = "held"
    /\ held' = [held EXCEPT ![pit[r].gen] = @ - 1]
    /\ pit' = [pit EXCEPT ![r] = Free]

Tarpit(r) ==
    /\ service = "tarpit"
    /\ Load(r) \/ Enter(r) \/ Quit(r)
    /\ UNCHANGED <<service, now, gen, sending, lookups>>

-----------------------------------------------------------------------------

NoEntry == [a \in {} |-> 0]
Zero    == [a \in Addresses |-> 0]

Init ==
    /\ service \in Services
    /\ now = 1 /\ gen = 1
    /\ sem = 0
    /\ send = [w \in Senders |-> NoSend]
    /\ reported = [g \in Generations |-> Zero]
    /\ cache = NoEntry
    /\ inflight = {}
    /\ asking = Zero /\ ending = Zero
    /\ held = [g \in Generations |-> 0]
    /\ pit = [r \in Scanners |-> Free]
    /\ reports = [g \in Generations |-> Zero]
    /\ due = Zero

\* acquireRuntime and applySettings: a new notifier, and a new channel for the
\* tarpit when its size is another.
Reload ==
    /\ service \in {"send", "tarpit"}
    /\ gen < Len(TarpitCaps)
    /\ gen' = gen + 1
    /\ UNCHANGED <<service, now, sending, lookups, tarpit>>

Tick ==
    /\ now < EndOfTime
    /\ service # "tarpit"
    /\ now' = now + 1
    /\ UNCHANGED <<service, gen, sending, lookups, tarpit>>

Next ==
    \/ \E w \in Senders : Sending(w)
    \/ Lookup
    \/ \E r \in Scanners : Tarpit(r)
    \/ Reload
    \/ Tick

Spec == Init /\ [][Next]_vars

-----------------------------------------------------------------------------
(* Properties. *)

InFlight == {w \in Senders : send[w].pc # "idle"}

\* notifySem counts the sends in flight, of whichever notifier, and no more than
\* its capacity are: a failed, repeated or panicking send gives its slot back once.
SlotsAreExact == sem = Cardinality(InFlight) /\ sem <= SendCap

Reported(g) == {a \in Addresses : reports[g][a] > 0}

\* A notifier reports no address twice within the gap as long as it can remember
\* them all: until it has reported more than ReportCap.  Sends may run side by side.
ReportedOnce ==
    [][\A w \in Senders :
          (send[w].pc # "post" /\ send'[w].pc = "post") =>
              LET g    == send[w].gen
                  last == reports[g][send[w].ip]
              IN  \/ last = 0 \/ now - last >= ReportGap
                  \/ Cardinality(Reported(g)) > ReportCap]_vars

\* The in-flight set of a notifier or country cache is the set of the addresses a
\* goroutine is out for, one for each and LookupMax at most, across answers and
\* failures: nothing is left in it, or the address would never be asked about again.
LookupsAreExact ==
    /\ inflight = {ip \in Addresses : asking[ip] + ending[ip] > 0}
    /\ \A ip \in inflight : asking[ip] + ending[ip] = 1
    /\ Cardinality(inflight) <= LookupMax

\* An answer is good for its time: the same address is not asked about again
\* before, a failed lookup included, unless the cache was dropped.  (An answer
\* that cannot be decoded is good for nothing.)
AnswersAreKept ==
    [][\A ip \in Addresses : asking'[ip] > asking[ip] => now >= due[ip]]_vars

\* Each generation of the tarpit's channel holds one token per request waiting in
\* it, and no more than its capacity, although requests outlive the channel's use.
TarpitIsExact ==
    \A g \in Generations :
        /\ held[g] = Cardinality({r \in Scanners : pit[r] = [pc |-> "held", gen |-> g]})
        /\ held[g] <= TarpitCaps[g]
=============================================================================
