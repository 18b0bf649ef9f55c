----------------------------- MODULE Enforcement -----------------------------
(***************************************************************************)
(* The request path: handler.ServeHTTP, applyBan, putBan, applySubnetBan   *)
(* and, against them, the operator's console (ban, unban, dry run on or    *)
(* off) and the janitor.  It composes two ban tables, the real one and the *)
(* dry run's shadow (both BanStore), with the escalation counters          *)
(* (Ladder).  Each of the three has its own mutex, and nothing is held     *)
(* from one call to the next: every call of a request is a step.           *)
(*                                                                         *)
(* A request works on the settings and mostly on the clock it read when it *)
(* arrived.  Detection itself is a choice; what the detectors keep on a    *)
(* source's record is left out, as are events, tallies and notifications.  *)
(***************************************************************************)
EXTENDS Integers, Sequences, FiniteSets

CONSTANTS
    Requests,     \* the request goroutines
    Sources,      \* source keys, as wide as requests are keyed
    Ranges,       \* the ranges at the width of enforcement.subnet
    RangeOf,      \* RangeOf[s]: the range of source s
    Protected,    \* ranges that overlap the allowlist or a trusted proxy
    Escalation, DefaultBan, Decay, MaxEntries, Horizon, \* as in Ladder
    MinIdle,      \* the hour an idle counter record is kept at least
    Threshold,    \* enforcement.subnet.threshold
    Window,       \* enforcement.subnet.window
    UnbanKeys,    \* the keys the operator may unban
    ManualBans,   \* <<key, duration>>: the bans the operator may set
    MaxToggles,   \* bound: how often dry run is switched on or off
    Patience,     \* bound: ticks from reading the clock to the last write
    EndOfTime     \* bound: no tick beyond this instant

Keys == Sources \cup Ranges

\* What parsing lets through when subnet bans are on: ranges strictly wider than the sources they
\* hold, a threshold of at least two and a window that ends.
ParsedSubnet ==
    /\ Sources \cap Ranges = {} /\ RangeOf \in [Sources -> Ranges]
    /\ Threshold \in Nat \ {0, 1} /\ Window \in Nat \ {0}

ASSUME EnforcementAssumption ==
    /\ IsFiniteSet(Sources) /\ IsFiniteSet(Ranges) /\ ParsedSubnet /\ Protected \subseteq Ranges
    /\ Escalation \in Seq(Nat)
    /\ DefaultBan \in Nat \ {0} /\ Decay \in Nat /\ MinIdle \in Nat \ {0}
    /\ MaxEntries \in Nat \ {0} /\ Horizon \in Nat \ {0}
    /\ UnbanKeys \subseteq Keys /\ ManualBans \subseteq (Keys \X Nat)
    /\ MaxToggles \in Nat /\ Patience \in Nat /\ EndOfTime \in Nat \ {0}

VARIABLES
    now,          \* the wall clock
    dryRun,       \* settings.dryRun of the published settings
    toggles,      \* how often it was changed
    tracked, st,  \* the counter table
    tally,        \* subnetDry and subnetHits of each range's record
    bans,         \* the real ban table
    shadow,       \* the dry run's ban table
    req,          \* the requests in flight
    unbanning,    \* the keys an unban has deleted and not yet forgotten
    janitor,      \* the janitor's next step
    earned,       \* history: when a source was last banned for real, 0 once counted
    raced,        \* history: keys banned by hand while a request was in flight
    overruled     \* history: keys whose ladder the operator took away from under a ban,
                  \* or whose ban was replaced by a timed one

vars == <<now, dryRun, toggles, tracked, st, tally, bans, shadow, req, unbanning,
          janitor, earned, raced, overruled>>

tables  == <<tracked, st, tally, bans, shadow>>
history == <<earned, raced, overruled>>

Width    == [k \in Keys |-> IF k \in Sources THEN 2 ELSE 1]
CoverOf  == [k \in Keys |-> {k} \cup IF k \in Sources THEN {RangeOf[k]} ELSE {}]

\* No operator range other than those at the escalation width: wide stays empty.
Real == INSTANCE BanStore WITH
    Prefixes <- Keys, Bits <- Width, Covers <- CoverOf, FullBits <- 2, Widths <- {},
    Snapshots <- {}, wide <- {}, widths <- <<2, 1>>

Shadow == INSTANCE BanStore WITH
    Prefixes <- Keys, Bits <- Width, Covers <- CoverOf, FullBits <- 2, Widths <- {},
    Snapshots <- {}, wide <- {}, widths <- <<2, 1>>, bans <- shadow

\* Mutant of IdleTime: the window of the range counts is not considered.
IdleTimeOfSources == IF Decay > MinIdle THEN Decay ELSE MinIdle

\* How long tick keeps an idle record: ranges are touched only when a source of
\* theirs is banned, so theirs must last for the window.
IdleTime ==
    CHOOSE t \in {MinIdle, Decay, Window} : \A u \in {MinIdle, Decay, Window} : u <= t

Counters == INSTANCE Ladder WITH
    Idle <- IdleTime, Lag <- Patience, Seeds <- {}, reply <- "unused"

-----------------------------------------------------------------------------
(* The state of a request. *)

AtRest    == [pc |-> "idle"]

Key(r)    == req[r].source
Subnet(r) == RangeOf[Key(r)]
Dry(r)    == req[r].dry
At(r)     == req[r].at

Goto(r, label) == req' = [req EXCEPT ![r].pc = label]
Ends(r)        == req' = [req EXCEPT ![r] = AtRest]

\* applyBan is done: an enforcing request is rejected, a dry one goes on to the
\* backend; a response has left already.
Return(r) == IF Dry(r) /\ ~req[r].response THEN Goto(r, "backend") ELSE Ends(r)

-----------------------------------------------------------------------------
(* The member counts of ranges live on the ranges' own counter records. *)

NoTally == [dry |-> FALSE, hits |-> [s \in Sources |-> 0]]

\* A tally goes with its record, whoever drops that.
TalliesBecome(new) ==
    tally' = [g \in Ranges |-> IF g \in tracked' THEN new[g] ELSE NoTally]

\* Members counted while dryRun was the other way round do not count.
Hits(g, dry) ==
    IF tally[g].dry = dry THEN tally[g].hits ELSE NoTally.hits

\* Mutant of Counted: a switch of dry run does not start the count over.
CountedEver(r) ==
    {Key(r)} \cup {m \in Sources : tally[Subnet(r)].hits[m] > 0
                                   /\ tally[Subnet(r)].hits[m] > At(r) - Window}

\* noteSubnetBan: the distinct members banned within the window.
Counted(r) ==
    {Key(r)} \cup {m \in Sources : Hits(Subnet(r), Dry(r))[m] > 0
                                   /\ Hits(Subnet(r), Dry(r))[m] > At(r) - Window}

Trips(r) == Cardinality(Counted(r)) >= Threshold

Tallied(r) ==
    [dry  |-> Dry(r),
     hits |-> [m \in Sources |->
                 IF Trips(r) \/ m \notin Counted(r) THEN 0
                 ELSE IF m = Key(r) THEN At(r) ELSE tally[Subnet(r)].hits[m]]]

-----------------------------------------------------------------------------
(* recordOffence and the ban it leads to. *)

\* Climbs the ladder of k if the source is not serving a ban.
RecordOffence(r, k, fresh, offence) ==
    LET rec == Counters!GetLocked(k, At(r)) IN
    /\ fresh = (rec.banUntil <= At(r))
    /\ offence = IF fresh THEN Counters!Decayed(rec, At(r)) + 1 ELSE rec.offences
    /\ Counters!Put(k, IF fresh THEN Counters!Climbed(rec, offence, At(r)) ELSE rec)
    /\ TalliesBecome(tally)

\* Mutant of BanFor: the last rung, permanent, is written as a ban of no duration.
BanForExpiring(r) ==
    [manual |-> FALSE, permanent |-> FALSE,
     at |-> At(r) + Counters!BanDuration(req[r].offence)]

\* The ban of an offence, as long as its rung says.
BanFor(r) ==
    LET duration == Counters!BanDuration(req[r].offence)
    IN  [manual |-> FALSE, permanent |-> duration = Counters!Permanent,
         at |-> At(r) + duration]

\* putBan: a dry run's ban goes to the shadow list.
PutBan(r, k) ==
    IF Dry(r) THEN Shadow!Put(k, BanFor(r)) /\ UNCHANGED bans
              ELSE Real!Put(k, BanFor(r)) /\ UNCHANGED shadow

-----------------------------------------------------------------------------
(* A request. *)

Arrive(r) ==
    /\ req[r].pc = "idle"
    /\ \E s \in Sources :
          req' = [req EXCEPT ![r] = [pc |-> "lookup", source |-> s, dry |-> dryRun,
                                     at |-> now, response |-> FALSE, offence |-> 0]]
    /\ raced' = [raced EXCEPT ![r] = {}]
    /\ UNCHANGED <<now, dryRun, toggles, tables, unbanning, janitor, earned, overruled>>

\* Mutant of Refused: a permanent ban has no expiry, so it looks expired.
RefusedByExpiry(r) ==
    \/ \E p \in Real!Lookup(Key(r)) : bans[p].at > At(r) /\ ~bans[p].permanent
    \/ Dry(r) /\ Shadow!Get(Key(r), At(r)) # {}

\* A banned source goes no further: rejected, or in a dry run passed on.
Refused(r) ==
    \/ Real!Get(Key(r), At(r)) # {}
    \/ Dry(r) /\ Shadow!Get(Key(r), At(r)) # {}

Lookup(r) ==
    /\ req[r].pc = "lookup"
    /\ IF Refused(r) THEN Ends(r) ELSE Goto(r, "detect")
    /\ UNCHANGED <<now, dryRun, toggles, tables, unbanning, janitor, history>>

\* detectRequest finds something, or the request is served.
Detect(r) ==
    /\ req[r].pc = "detect"
    /\ Goto(r, "record") \/ Goto(r, "backend")
    /\ UNCHANGED <<now, dryRun, toggles, tables, unbanning, janitor, history>>

\* The backend has answered, any time later: detectResponse reads the clock anew
\* but keeps the settings of the request's arrival.
Respond(r) ==
    /\ req[r].pc = "backend"
    /\ \/ Ends(r)
       \/ req' = [req EXCEPT ![r].pc = "record", ![r].response = TRUE, ![r].at = now]
    /\ UNCHANGED <<now, dryRun, toggles, tables, unbanning, janitor, history>>

\* Mutant of Record: the answer of recordOffence is not looked at.
RecordAlways(r) ==
    /\ req[r].pc = "record"
    /\ \E fresh \in BOOLEAN, offence \in 0..(EndOfTime + 1) :
          /\ RecordOffence(r, Key(r), fresh, offence)
          /\ req' = [req EXCEPT ![r].pc = "put", ![r].offence = offence]
    /\ UNCHANGED <<now, dryRun, toggles, bans, shadow, unbanning, janitor, history>>

\* The head of applyBan: only a fresh offence is worth a ban.  An offence count
\* cannot pass the number of ticks (bound).
Record(r) ==
    /\ req[r].pc = "record"
    /\ \E fresh \in BOOLEAN, offence \in 0..(EndOfTime + 1) :
          /\ RecordOffence(r, Key(r), fresh, offence)
          /\ IF fresh THEN req' = [req EXCEPT ![r].pc = "put", ![r].offence = offence]
                      ELSE Return(r)
    /\ UNCHANGED <<now, dryRun, toggles, bans, shadow, unbanning, janitor, history>>

PutSource(r) ==
    /\ req[r].pc = "put"
    /\ PutBan(r, Key(r))
    /\ Goto(r, "tally")
    /\ UNCHANGED <<dryRun, toggles, tracked, st, tally, unbanning, janitor, history>>

\* noteSubnetBan, then the refusal at the head of applySubnetBan.
Tally(r) ==
    /\ req[r].pc = "tally"
    /\ Counters!Put(Subnet(r), Counters!GetLocked(Subnet(r), At(r)))
    /\ TalliesBecome([tally EXCEPT ![Subnet(r)] = Tallied(r)])
    /\ IF Trips(r) /\ Subnet(r) \notin Protected THEN Goto(r, "recordRange") ELSE Return(r)
    /\ earned' = IF Dry(r) THEN earned
                 ELSE [s \in Sources |->
                         IF Trips(r) /\ s \in Counted(r) THEN 0
                         ELSE IF s = Key(r) THEN Counters!AtLeast(earned[s], At(r))
                         ELSE earned[s]]
    /\ UNCHANGED <<now, dryRun, toggles, bans, shadow, unbanning, janitor, raced, overruled>>

\* applySubnetBan: the range climbs a ladder of its own.
RecordRange(r) ==
    /\ req[r].pc = "recordRange"
    /\ \E fresh \in BOOLEAN, offence \in 0..(EndOfTime + 1) :
          /\ RecordOffence(r, Subnet(r), fresh, offence)
          /\ IF fresh THEN req' = [req EXCEPT ![r].pc = "putRange", ![r].offence = offence]
                      ELSE Return(r)
    /\ UNCHANGED <<now, dryRun, toggles, bans, shadow, unbanning, janitor, history>>

PutRange(r) ==
    /\ req[r].pc = "putRange"
    /\ PutBan(r, Subnet(r))
    /\ Return(r)
    /\ UNCHANGED <<dryRun, toggles, tracked, st, tally, unbanning, janitor, history>>

Request(r) ==
    \/ Arrive(r) \/ Lookup(r) \/ Detect(r) \/ Respond(r) \/ Record(r)
    \/ PutSource(r) \/ Tally(r) \/ RecordRange(r) \/ PutRange(r)

-----------------------------------------------------------------------------
(* The operator and the janitor. *)

\* The key a request is about to write a ban for.
Writing(r) ==
    IF req[r].pc = "put" THEN {Key(r)} ELSE
    IF req[r].pc = "putRange" THEN {Subnet(r)} ELSE {}

\* k is under a ban of its own in the list that dry is enforced from, or about to be.
UnderBan(k, dry) ==
    \/ k \in IF dry THEN Shadow!Live(now) ELSE Real!Live(now)
    \/ \E r \in Requests : k \in Writing(r) /\ Dry(r) = dry

\* banManual, once refuseDangerousBan has let the key pass.
BanManual(k, duration) ==
    /\ k \notin Protected
    /\ Real!Put(k, [manual |-> TRUE, permanent |-> duration = Counters!Permanent,
                    at |-> now + duration])
    /\ raced' = [r \in Requests |-> IF req[r].pc = "idle" THEN {} ELSE raced[r] \cup {k}]
    /\ overruled' = IF duration = Counters!Permanent THEN overruled ELSE overruled \cup {k}
    /\ UNCHANGED <<dryRun, toggles, tracked, st, tally, shadow, req, unbanning, janitor, earned>>

DeleteBan(k) ==
    /\ Real!Delete(k)
    /\ UNCHANGED <<tracked, st, tally, overruled>>

ForgetKey(k) ==
    /\ Counters!Drop({k})
    /\ TalliesBecome(tally)
    /\ overruled' = IF UnderBan(k, TRUE) \/ UnderBan(k, FALSE)
                    THEN overruled \cup {k} ELSE overruled \ {k}
    /\ UNCHANGED <<now, bans>>

\* Mutant of Unban: the counters are cleared before the ban is.
UnbanForgetsFirst(k) ==
    /\ \/ k \notin unbanning /\ unbanning' = unbanning \cup {k} /\ ForgetKey(k)
       \/ k \in unbanning /\ unbanning' = unbanning \ {k} /\ DeleteBan(k)
    /\ UNCHANGED <<dryRun, toggles, shadow, req, janitor, earned, raced>>

\* unban: the ban goes first, the counters after it.
Unban(k) ==
    /\ \/ k \notin unbanning /\ unbanning' = unbanning \cup {k} /\ DeleteBan(k)
       \/ k \in unbanning /\ unbanning' = unbanning \ {k} /\ ForgetKey(k)
    /\ UNCHANGED <<dryRun, toggles, shadow, req, janitor, earned, raced>>

\* The console or a reload switches dry run.  In-flight requests keep theirs.
SwitchDryRun ==
    /\ toggles < MaxToggles
    /\ toggles' = toggles + 1
    /\ dryRun' = ~dryRun
    /\ UNCHANGED <<now, tables, req, unbanning, janitor, history>>

\* tick: the real list, the shadow list, the counters, one after the other.
SweepReal ==
    /\ janitor = "real" /\ janitor' = "shadow"
    /\ Real!Sweep
    /\ UNCHANGED <<tracked, st, tally, shadow>>

SweepShadow ==
    /\ janitor = "shadow" /\ janitor' = "counters"
    /\ Shadow!Sweep
    /\ UNCHANGED <<tracked, st, tally, bans>>

SweepCounters ==
    /\ janitor = "counters" /\ janitor' = "real"
    /\ Counters!Sweep
    /\ TalliesBecome(tally)
    /\ UNCHANGED <<bans, shadow>>

Janitor ==
    /\ SweepReal \/ SweepShadow \/ SweepCounters
    /\ UNCHANGED <<dryRun, toggles, req, unbanning, history>>

\* Time passes, but a request that is past its reading of the clock finishes
\* within Patience; only a backend may take its time.
Tick ==
    /\ now < EndOfTime
    /\ \A r \in {q \in Requests : req[q].pc \notin {"idle", "backend"}} : now - At(r) < Patience
    /\ now' = now + 1
    /\ UNCHANGED <<dryRun, toggles, tables, req, unbanning, janitor, history>>

-----------------------------------------------------------------------------

NoBans == [k \in {} |-> 0]

Init ==
    /\ now = 1
    /\ dryRun \in BOOLEAN
    /\ toggles = 0
    /\ tracked = {}
    /\ st = [k \in Keys |-> Counters!NewState]
    /\ tally = [g \in Ranges |-> NoTally]
    /\ bans = NoBans
    /\ shadow = NoBans
    /\ req = [r \in Requests |-> AtRest]
    /\ unbanning = {}
    /\ janitor = "real"
    /\ earned = [s \in Sources |-> 0]
    /\ raced = [r \in Requests |-> {}]
    /\ overruled = {}

Next ==
    \/ \E r \in Requests : Request(r)
    \/ \E b \in ManualBans : BanManual(b[1], b[2])
    \/ \E k \in UnbanKeys : Unban(k)
    \/ SwitchDryRun
    \/ Janitor
    \/ Tick

Spec == Init /\ [][Next]_vars

-----------------------------------------------------------------------------
(* Properties. *)

\* The setting in which the ladder and the ban lists can be held against each other: neither
\* table has to evict, a ban outlasts the request that writes it, and a permanent ban's record
\* outlasts the model.
RoomForAll     == Cardinality(Keys) <= MaxEntries
BansOutlast    == \A n \in Nat : Counters!BanWindow(n) > Patience
HorizonIsFar   == Horizon >= EndOfTime
CountsOutlast  == Window + Patience <= IdleTime + 1

\* A source whose ladder says it serves a ban does: a ban in force, or a request about to write
\* it, unless an unban has taken the ban and is about to clear the ladder.  The ban is in the
\* list enforced now, unless dry run was switched since.  So whoever is told "same burst" finds
\* that burst's ban.  It is claimed where the tables have room (RoomForAll) and for the keys the
\* operator has not overruled: a shorter ban by hand ends the ladder's, and an unban between an
\* offence and its ban leaves the ban without a ladder.
ServingIsBanned ==
    \A k \in Keys \ (unbanning \cup overruled) :
        k \in tracked /\ st[k].banUntil > now =>
            UnderBan(k, dryRun) \/ (toggles > 0 /\ UnderBan(k, ~dryRun))

\* One burst is one ban: a ban is never written over an automatic ban that is still in force,
\* however many requests of a source are in flight at once, unless the operator took the ladder
\* away from under the ban.
OneBanPerBurst ==
    [][\A r \in Requests, k \in Keys \ overruled : k \in Writing(r) /\ req'[r].pc # req[r].pc =>
          ~ \E t \in {IF Dry(r) THEN shadow ELSE bans} :
                k \in DOMAIN t /\ ~t[k].manual /\ Real!Active(t[k], now)]_vars

\* The sources of r's range really banned within its window and not yet counted.
Earned(r) ==
    {Key(r)} \cup {s \in Sources : /\ RangeOf[s] = Subnet(r)
                                   /\ earned[s] > 0 /\ earned[s] > At(r) - Window}

\* Hypothetical bans never add up to a real range ban: when an enforcing request
\* trips a range, Threshold of its sources have been banned for real within the
\* window, and none of them has counted towards an earlier trip.
RealTripsAreEarned ==
    [][\A r \in Requests : Tally(r) /\ Trips(r) /\ ~Dry(r) =>
          Cardinality(Earned(r)) >= Threshold]_vars

\* The janitor never takes a member from a range count before it has aged out of
\* the window, although it sees the range's record idle all the while.
SweepKeepsCounts ==
    [][SweepCounters => \A g \in Ranges, s \in Sources :
          tally[g].hits[s] > 0 /\ tally[g].hits[s] > now - Window => tally'[g] = tally[g]]_vars

\* The ban an operator put on a source stands: a request never replaces it while
\* it is in force, except one that was in flight when the operator set it.
OperatorsBanStands ==
    [][\A r \in Requests, k \in Sources :
          (/\ Request(r)
           /\ k \in Real!Live(now) /\ bans[k].manual
           /\ k \in DOMAIN bans' /\ ~bans'[k].manual) => k \in raced[r]]_vars

=============================================================================
