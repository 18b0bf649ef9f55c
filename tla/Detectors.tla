------------------------------ MODULE Detectors ------------------------------
(***************************************************************************)
(* The detectors that remember: distinct failing paths and distinct user   *)
(* agents (distinctBucket), authentication failures (a sliding window) and *)
(* the request rate (a token bucket), as detectRequest and detectResponse  *)
(* of detect.go call them for one source.  All four keep their memory in   *)
(* the record counters.go has of the source, which the janitor drops once  *)
(* it is idle and an unban at once; the ladder in the same record is in    *)
(* Ladder, what a detection leads to in Enforcement.                       *)
(*                                                                         *)
(* What the patterns match is a choice.  A tick is far longer than a call  *)
(* waits for counters.mu: calls come in the order of their clock readings. *)
(***************************************************************************)
EXTENDS Integers, Sequences, FiniteSets, SequencesExt

CONSTANTS
    Items,          \* Items[d]: the paths, or the digests of user agents
    Configurations, \* the sets of detectors that may be enabled
    Capacity,       \* detectors.*.capacity
    Leak,           \* detectors.badPaths.leak and uaRotation.leak
    AuthWindow,     \* detectors.bruteForce.window
    Token, Refill,  \* a request's worth, and what rateAbuse.rps gives back in a tick
    Burst,          \* detectors.rateAbuse.burst
    MaxDistinct,    \* maxDistinctPaths
    Idle,           \* how long tick keeps the record of an idle source
    MaxCalls,       \* bound on the requests and responses
    EndOfTime       \* bound: no tick beyond this instant

Buckets   == {"badPaths", "uaRotation"}
Detecting == Buckets \cup {"bruteForce", "rateAbuse"}

\* What parseDetectors lets through: nothing is zero, and more user agents than are
\* remembered could never be told apart.
Parsed ==
    /\ Capacity \in [Buckets \cup {"bruteForce"} -> Nat \ {0}]
    /\ Capacity["uaRotation"] \in 2..MaxDistinct
    /\ Leak \in [Buckets -> Nat \ {0}] /\ AuthWindow \in Nat \ {0}
    /\ Refill \in Nat \ {0} /\ Burst \in Nat \ {0}

\* parseDetectors lets badPaths.capacity be anything; past MaxDistinct the set starts
\* over before the bucket is full, and one path counts again and again.
ASSUME DetectorsAssumption ==
    /\ Configurations \subseteq SUBSET Detecting
    /\ Parsed /\ Capacity["badPaths"] <= MaxDistinct
    /\ Token \in Nat \ {0} /\ MaxDistinct \in Nat \ {0} /\ Idle \in Nat
    /\ MaxCalls \in Nat /\ EndOfTime \in Nat

VARIABLES
    now,       \* the wall clock, from 1; 0 is Go's zero time
    enabled,   \* the detectors that are switched on
    lastSeen,  \* of the source's record; 0: there is none
    bucket,    \* st.bad and st.ua
    failures,  \* st.bruteHits
    tokens,    \* st.tokens and st.tokensAt
    log,       \* history: log[d]: what d has been told since it last tripped
    tripped,   \* history: the detectors whose last answer was a hit
    calls

vars == <<now, enabled, lastSeen, bucket, failures, tokens, log, tripped, calls>>

record == <<lastSeen, bucket, failures, tokens>>

-----------------------------------------------------------------------------
(* distinctBucket.  A level is kept in halves of the leak of one tick.       *)

Event(d)     == 2 * Leak[d]
HalfEvent(d) == Leak[d]

EmptyBucket == [seen |-> {}, level |-> 0, at |-> 0]

\* What is left at t; a bucket that ran dry forgets its items too.
Drained(d, t) ==
    LET b     == bucket[d]
        level == b.level - 2 * (t - b.at)
    IN  IF b.at = 0 THEN b
        ELSE IF level <= 0 THEN EmptyBucket ELSE [b EXCEPT !.level = level]

\* The set of items starts over when it is full.
Remembered(seen, item) ==
    (IF Cardinality(seen) >= MaxDistinct THEN {} ELSE seen) \cup {item}

\* Mutant of Noted: an item counts however often it comes.
NotedAgain(d, item, t) ==
    LET left  == Drained(d, t)
        level == left.level + Event(d)
        trips == level >= Event(d) * Capacity[d] - HalfEvent(d)
    IN  [trips  |-> trips,
         bucket |-> IF trips THEN [EmptyBucket EXCEPT !.at = t]
                    ELSE [seen |-> Remembered(left.seen, item), level |-> level, at |-> t]]

\* Mutant of Noted: the level has to reach the capacity itself.
NotedInFull(d, item, t) ==
    LET left  == Drained(d, t)
        new   == item \notin left.seen
        level == left.level + Event(d)
        trips == new /\ level >= Event(d) * Capacity[d]
    IN  [trips  |-> trips,
         bucket |-> IF trips THEN [EmptyBucket EXCEPT !.at = t]
                    ELSE IF new
                    THEN [seen |-> Remembered(left.seen, item), level |-> level, at |-> t]
                    ELSE [left EXCEPT !.at = t]]

\* distinctBucket.note: only a new item adds to the level; a full bucket trips and
\* starts over.
Noted(d, item, t) ==
    LET left  == Drained(d, t)
        new   == item \notin left.seen
        level == left.level + Event(d)
        trips == new /\ level >= Event(d) * Capacity[d] - HalfEvent(d)
    IN  [trips  |-> trips,
         bucket |-> IF trips THEN [EmptyBucket EXCEPT !.at = t]
                    ELSE IF new
                    THEN [seen |-> Remembered(left.seen, item), level |-> level, at |-> t]
                    ELSE [left EXCEPT !.at = t]]

-----------------------------------------------------------------------------
(* The sliding window and the token bucket. *)

\* The loop over st.bruteHits that keeps the failures after the cutoff.
Kept(cutoff) ==
    LET kept[i \in 0..Len(failures)] ==
            IF i = 0 THEN <<>>
            ELSE IF failures[i] > cutoff THEN Append(kept[i - 1], failures[i]) ELSE kept[i - 1]
    IN  kept[Len(failures)]

\* Mutant of Failed: a failure exactly a window old still counts.
FailedInclusive(t) == Append(Kept(t - AuthWindow - 1), t)

\* noteAuthFailure: the failures of the window ending at t.
Failed(t) == Append(Kept(t - AuthWindow), t)

NoTokens == [left |-> 0, at |-> 0]

\* Mutant of Refilled: what an idle source saves up is not limited.
RefilledEndlessly(t) ==
    IF tokens.at = 0 THEN Burst * Token ELSE tokens.left + Refill * (t - tokens.at)

\* noteRequest: the tokens before this request is charged.
Refilled(t) ==
    LET left == tokens.left + Refill * (t - tokens.at)
    IN  IF tokens.at = 0 \/ left > Burst * Token THEN Burst * Token ELSE left

-----------------------------------------------------------------------------
(* What the detectors are asked in one request or response. *)

\* Mutant of Seen: only the first call counts as activity of the source.
SeenAsBefore == lastSeen' = IF lastSeen = 0 THEN now ELSE lastSeen

\* getLocked stamps the record.
Seen == lastSeen' = now

\* After a hit the history starts over, except that of the rate.
Logged(d, what) ==
    Append(IF d \in tripped /\ d # "rateAbuse" THEN <<>> ELSE log[d], [what |-> what, at |-> now])

\* A request none of whose own marks (honeypot, signature, user agent, payload) is
\* a hit: first the rotation of user agents, then the rate.
Request(agent) ==
    LET rotates == "uaRotation" \in enabled
        noted   == Noted("uaRotation", agent, now)
        rotated == rotates /\ noted.trips
        rates   == "rateAbuse" \in enabled /\ ~rotated
        left    == Refilled(now) - Token
    IN
    /\ rotates \/ rates
    /\ calls < MaxCalls /\ calls' = calls + 1
    /\ Seen
    /\ bucket' = IF rotates THEN [bucket EXCEPT !["uaRotation"] = noted.bucket] ELSE bucket
    /\ tokens' = IF rates THEN [left |-> IF left < 0 THEN 0 ELSE left, at |-> now] ELSE tokens
    /\ log' = [d \in Detecting |->
                 CASE d = "uaRotation" /\ rotates -> Logged(d, agent)
                   [] d = "rateAbuse" /\ rates    -> Logged(d, left >= 0)
                   [] OTHER                       -> log[d]]
    /\ tripped' = (tripped \ ((IF rotates THEN {"uaRotation"} ELSE {})
                              \cup (IF rates THEN {"rateAbuse"} ELSE {})))
                  \cup (IF rotated THEN {"uaRotation"} ELSE {})
                  \cup (IF rates /\ left < 0 THEN {"rateAbuse"} ELSE {})
    /\ UNCHANGED <<now, enabled, failures>>

\* responseObserver: the status of the first WriteHeader; 200 for a body without one,
\* and for no answer at all.
Observed(writes) ==
    IF writes = <<>> \/ Head(writes) = "body" THEN "ok" ELSE Head(writes)

\* What a backend writes.  A status can be an authentication failure, a bad path, or
\* both; an informational one (early hints) is neither, and hides the one that follows.
Writes == {<<"denied">>, <<"missing">>, <<"denied and missing">>, <<"body", "missing">>,
           <<"hints", "missing">>}

\* detectResponse: after a hit of the first detector the second is not asked.
Response(path, writes) ==
    LET status == Observed(writes)
        fails  == status \in {"denied", "denied and missing"} /\ "bruteForce" \in enabled
        full   == fails /\ Len(Failed(now)) >= Capacity["bruteForce"]
        probes == /\ status \in {"missing", "denied and missing"} /\ "badPaths" \in enabled
                  /\ ~full
        noted  == Noted("badPaths", path, now)
    IN
    /\ fails \/ probes
    /\ calls < MaxCalls /\ calls' = calls + 1
    /\ Seen
    /\ failures' = IF full THEN <<>> ELSE IF fails THEN Failed(now) ELSE failures
    /\ bucket' = IF probes THEN [bucket EXCEPT !["badPaths"] = noted.bucket] ELSE bucket
    /\ log' = [d \in Detecting |->
                 CASE d = "bruteForce" /\ fails -> Logged(d, "denied")
                   [] d = "badPaths" /\ probes  -> Logged(d, path)
                   [] OTHER                     -> log[d]]
    /\ tripped' = (tripped \ ((IF fails THEN {"bruteForce"} ELSE {})
                              \cup (IF probes THEN {"badPaths"} ELSE {})))
                  \cup (IF full THEN {"bruteForce"} ELSE {})
                  \cup (IF probes /\ noted.trips THEN {"badPaths"} ELSE {})
    /\ UNCHANGED <<now, enabled, tokens>>

NoRecord ==
    /\ lastSeen' = 0
    /\ bucket' = [d \in Buckets |-> EmptyBucket]
    /\ failures' = <<>>
    /\ tokens' = NoTokens
    /\ log' = [d \in Detecting |-> <<>>]
    /\ tripped' = {}

\* The janitor drops the record of a source on no rung once it is idle.
Sweep ==
    /\ lastSeen # 0 /\ lastSeen < now - Idle
    /\ NoRecord
    /\ UNCHANGED <<now, enabled, calls>>

\* The operator unbans the source.
Forget ==
    /\ lastSeen # 0
    /\ NoRecord
    /\ UNCHANGED <<now, enabled, calls>>

Tick ==
    /\ now < EndOfTime
    /\ now' = now + 1
    /\ UNCHANGED <<enabled, record, log, tripped, calls>>

-----------------------------------------------------------------------------

Init ==
    /\ now = 1
    /\ enabled \in Configurations
    /\ lastSeen = 0
    /\ bucket = [d \in Buckets |-> EmptyBucket]
    /\ failures = <<>>
    /\ tokens = NoTokens
    /\ log = [d \in Detecting |-> <<>>]
    /\ tripped = {}
    /\ calls = 0

Next ==
    \/ \E agent \in Items["uaRotation"] : Request(agent)
    \/ \E path \in Items["badPaths"], writes \in Writes : Response(path, writes)
    \/ Sweep \/ Forget
    \/ Tick

Spec == Init /\ [][Next]_vars

-----------------------------------------------------------------------------
(* Properties. *)

\* The items d was told from the i-th call to the j-th.
Told(d, i, j) == {log[d][k].what : k \in i..j}

\* A client hammering one broken link is never banned for it: a hit takes as many
\* distinct paths (or user agents) as the capacity says, since the last hit.
OnlyDistinctItemsTrip ==
    \A d \in Buckets \cap tripped : Cardinality(Told(d, 1, Len(log[d]))) >= Capacity[d]

\* The capacity's worth of new items within half a leak is a hit at the latest on
\* the last of them: no scan that fast gets through, wherever the level stood.
QuickScansTrip ==
    \A d \in Buckets \ tripped : \A i, j \in DOMAIN log[d] :
        (i <= j /\ 2 * (log[d][j].at - log[d][i].at) <= Leak[d]) =>
            Cardinality(Told(d, i, j) \ Told(d, 1, i - 1)) < Capacity[d]

\* Brute force is a hit exactly when the capacity's worth of failures since the last
\* hit lies within one window, although only part of them is kept.
AuthWindowIsExact ==
    log["bruteForce"] # <<>> =>
        LET last   == Last(log["bruteForce"]).at
            inside == {k \in DOMAIN log["bruteForce"] :
                          log["bruteForce"][k].at > last - AuthWindow}
        IN  "bruteForce" \in tripped <=> Cardinality(inside) >= Capacity["bruteForce"]

\* The rate: over any span no more requests pass than the burst and the refill of
\* that span, and one is refused only at the end of a span that had more requests.
RateIsKept ==
    LET calling == log["rateAbuse"]
        n       == Len(calling)
        Granted(i) == Burst * Token + Refill * (calling[n].at - calling[i].at)
    IN  n > 0 =>
        /\ \A i \in 1..n :
              Token * Cardinality({k \in i..n : calling[k].what}) <= Granted(i)
        /\ ~calling[n].what => \E i \in 1..n : Token * (n - i + 1) > Granted(i)

\* A fresh record and the one dropped answer alike from now on.
Forgettable ==
    /\ \A d \in Buckets : Drained(d, now) = EmptyBucket
    /\ \A k \in DOMAIN failures : failures[k] <= now - AuthWindow
    /\ Refilled(now) = Burst * Token

\* The janitor takes nothing from a detector: a record it drops had drained, aged
\* out and refilled, as long as Idle covers leak, window and refill.
SweepKeepsDetection == [][Sweep => Forgettable]_vars
=============================================================================
