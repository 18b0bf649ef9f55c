------------------------------- MODULE Ladder -------------------------------
(***************************************************************************)
(* The per-source escalation ladder of counters.go.  The table `tracked`/  *)
(* `st` is counters.tbl, guarded by counters.mu: every exported method is  *)
(* one critical section, hence one action.  The detector buckets kept in   *)
(* the same record are abstracted to the table access they make (Touch).   *)
(*                                                                         *)
(* Time is a tick counter.  0 is Go's zero time, the process starts at 1.  *)
(* A caller reads the clock before it waits for the mutex, so a call may   *)
(* carry an instant up to Lag ticks old.                                   *)
(***************************************************************************)
EXTENDS Integers, Sequences, FiniteSets

CONSTANTS
    Keys,         \* ban keys: aggregated sources, and ranges
    Escalation,   \* settings.escalation: one duration per rung, 0 is permanent
    DefaultBan,   \* the one hour banDuration falls back to
    Decay,        \* settings.decay; 0 disables decay
    Idle,         \* idle time after which a record without a rung is swept
    MaxEntries,   \* counters.max
    Horizon,      \* permanentBanHorizon
    Lag,          \* how stale a caller's reading of the clock may be
    Seeds,        \* <<offences, ticks left>> of the persisted bans, 0 being permanent
    EndOfTime     \* bound: no tick beyond this instant

\* What parsing lets through: every rung is zero (permanent) or a positive duration, an empty entry
\* is refused, and a ladder left out is the default one.
ParsedLadder == Escalation \in Seq(Nat) /\ Decay \in Nat

ASSUME LadderAssumption ==
    /\ IsFiniteSet(Keys)
    /\ ParsedLadder
    /\ DefaultBan \in Nat \ {0}
    /\ Idle \in Nat \ {0}
    /\ MaxEntries \in Nat \ {0}
    /\ Horizon \in Nat \ {0}
    /\ Lag \in Nat
    /\ Seeds \subseteq (Nat \X Nat)
    /\ EndOfTime \in Nat

VARIABLES
    now,      \* the wall clock
    tracked,  \* the keys with a record in the table
    st,       \* their records
    reply     \* what the last call returned to its caller

vars == <<now, tracked, st, reply>>

Zero      == 0
Permanent == 0

NewState == [lastSeen |-> Zero, offences |-> 0, lastOffence |-> Zero, banUntil |-> Zero]
State    == [lastSeen : Nat, offences : Nat, lastOffence : Nat, banUntil : Nat]

AtLeast(a, b) == IF a >= b THEN a ELSE b
AtMost(a, b)  == IF a <= b THEN a ELSE b

-----------------------------------------------------------------------------
(* Durations and decay. *)

\* The rung of an offence; past the end of the ladder it stays on the last one.
BanDuration(offence) ==
    IF Escalation = <<>> THEN DefaultBan
    ELSE Escalation[AtMost(AtLeast(offence, 1), Len(Escalation))]

\* How far into the future banUntil is set: a permanent rung gets the horizon.
BanWindow(offence) ==
    IF BanDuration(offence) = Permanent THEN Horizon ELSE BanDuration(offence)

\* Mutant of QuietSince: decay measured from the offence, not the end of its ban.
QuietSinceOffence(rec) == rec.lastOffence

\* When the source last got the opportunity to behave.
QuietSince(rec) ==
    IF rec.banUntil > rec.lastOffence THEN rec.banUntil ELSE rec.lastOffence

\* The offences that are left at t: one less for every full decay period.
Decayed(rec, t) ==
    IF Decay > 0 /\ t > QuietSince(rec)
    THEN AtLeast(0, rec.offences - ((t - QuietSince(rec)) \div Decay))
    ELSE rec.offences

-----------------------------------------------------------------------------
(* The table. *)

\* The record getLocked hands to its caller.
GetLocked(k, t) == [IF k \in tracked THEN st[k] ELSE NewState EXCEPT !.lastSeen = t]

\* evictLocked: the least recently seen, ties in any order.  It runs before
\* getLocked stamps the new record, whose lastSeen is still the zero time.
Evicted(k) ==
    LET table == tracked \cup {k}
        drop  == Cardinality(table) - MaxEntries + MaxEntries \div 10
    IN  IF k \in tracked \/ Cardinality(table) <= MaxEntries THEN {{}}
        ELSE {V \in SUBSET table :
                /\ Cardinality(V) = AtMost(drop, Cardinality(table))
                /\ \A v \in V, w \in table \ V : st[v].lastSeen <= st[w].lastSeen}

\* The call leaves rec behind for k.  If the eviction took k's own record, the
\* caller wrote to a record the table no longer holds.
Put(k, rec) ==
    \E V \in Evicted(k) :
        /\ tracked' = (tracked \cup {k}) \ V
        /\ st' = [x \in Keys |-> IF x \in V THEN NewState
                                 ELSE IF x = k THEN rec ELSE st[x]]

Drop(K) ==
    /\ tracked' = tracked \ K
    /\ st' = [x \in Keys |-> IF x \in K THEN NewState ELSE st[x]]

-----------------------------------------------------------------------------
(* The operations. *)

Readings == {t \in (now - Lag)..now : t > Zero}

\* noteBadPath, noteUserAgent, noteAuthFailure, noteRequest, noteSubnetBan.
Touch(k, t) ==
    /\ Put(k, GetLocked(k, t))
    /\ UNCHANGED <<now, reply>>

\* recordOffence while the source serves a ban: the same burst, no new offence.
SameBurst(k, t) ==
    LET rec == GetLocked(k, t) IN
    /\ rec.banUntil > t
    /\ Put(k, rec)
    /\ reply' = [op |-> "recordOffence", key |-> k, offence |-> rec.offences, fresh |-> FALSE]
    /\ UNCHANGED now

\* The record after an offence; the ban window opens in the same critical section.
Climbed(rec, offence, t) ==
    [rec EXCEPT !.offences = offence, !.lastOffence = t,
                !.banUntil = t + BanWindow(offence)]

\* recordOffence otherwise: decay first, then climb one rung.
FreshOffence(k, t) ==
    LET rec     == GetLocked(k, t)
        offence == Decayed(rec, t) + 1
    IN
    /\ rec.banUntil <= t
    /\ Put(k, Climbed(rec, offence, t))
    /\ reply' = [op |-> "recordOffence", key |-> k, offence |-> offence, fresh |-> TRUE]
    /\ UNCHANGED now

\* Mutant of SeededRecord: the persisted ban overwrites the live position.
SeedOverwrites(rec, n, created, until) ==
    [rec EXCEPT !.offences = n, !.lastOffence = created, !.banUntil = until]

\* seed: a persisted ban, created by now and not yet expired, is replayed.
SeededRecord(rec, n, created, until) ==
    [rec EXCEPT !.offences    = AtLeast(@, n),
                !.lastOffence = AtLeast(@, created),
                !.banUntil    = AtLeast(@, until)]

Seed(k, n, created, until) ==
    /\ n > 0
    /\ created \in 1..now
    /\ Put(k, SeededRecord(GetLocked(k, now), n, created, until))
    /\ UNCHANGED <<now, reply>>

SeedBan(k) ==
    \E s \in Seeds, created \in 1..now :
        Seed(k, s[1], created, now + (IF s[2] = Permanent THEN Horizon ELSE s[2]))

\* forget: the operator unbanned the source.
Forget(k) ==
    /\ Drop({k})
    /\ reply' = [op |-> "forget", key |-> k]
    /\ UNCHANGED now

\* Mutant of HoldsRung: one decay period is enough, whatever the rung.
HoldsRungOnePeriod(rec) ==
    /\ rec.offences > 0
    /\ \/ rec.banUntil > now
       \/ Decay = 0
       \/ now < QuietSince(rec) + Decay

\* The janitor's sweep: a record goes once it holds no rung and is idle.
HoldsRung(rec) ==
    /\ rec.offences > 0
    /\ \/ rec.banUntil > now
       \/ Decay = 0
       \/ now < QuietSince(rec) + rec.offences * Decay

Sweep ==
    /\ Drop({k \in tracked : ~HoldsRung(st[k]) /\ st[k].lastSeen < now - Idle})
    /\ UNCHANGED <<now, reply>>

Tick ==
    /\ now < EndOfTime
    /\ now' = now + 1
    /\ UNCHANGED <<tracked, st, reply>>

-----------------------------------------------------------------------------

Init ==
    /\ now = 1
    /\ tracked = {}
    /\ st = [k \in Keys |-> NewState]
    /\ reply = [op |-> "none"]

RecordOffence(k) == \E t \in Readings : SameBurst(k, t) \/ FreshOffence(k, t)

Note(k) == \E t \in Readings : Touch(k, t)

Next ==
    \/ \E k \in Keys : Note(k) \/ RecordOffence(k) \/ SeedBan(k) \/ Forget(k)
    \/ Sweep
    \/ Tick

Spec == Init /\ [][Next]_vars

-----------------------------------------------------------------------------
(* Properties. *)

\* The table only ever holds well-formed records, and none for a key it does
\* not track (counters.tbl maps to non-nil records).
TypeOK ==
    /\ now \in Nat \ {0}
    /\ tracked \subseteq Keys
    /\ st \in [Keys -> State]
    /\ \A k \in Keys \ tracked : st[k] = NewState

\* The cap holds after every call: a distributed scan cannot grow the table
\* past counters.max, whatever it calls.
CapHolds == Cardinality(tracked) <= MaxEntries

\* The rung the source stands on at this instant.
Standing(k) == Decayed(st[k], now)

\* The janitor never takes a rung from a source: it drops a record only once
\* decay would have emptied its ladder anyway (counters.sweep).
SweepKeepsLadder == [][Sweep => \A k \in Keys : Standing(k)' = Standing(k)]_vars

\* No call cuts the ban window of a tracked source short, not even one that
\* arrives late with an old reading of the clock: only losing the whole record
\* (unban, sweep, cap) ends a window early.
WindowOnlyGrows ==
    [][\A k \in tracked \cap tracked' : st'[k].banUntil >= st[k].banUntil]_vars
=============================================================================
