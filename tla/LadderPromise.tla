---------------------------- MODULE LadderPromise ----------------------------
(***************************************************************************)
(* What the escalation ladder promises an operator, without a clock, a     *)
(* table or a janitor: a source stands on a rung; an offence outside a ban *)
(* climbs one rung and starts that rung's ban; every full decay period of  *)
(* freedom since the last ban drops a rung; an offence inside a ban is the *)
(* same burst and changes nothing; an unban wipes the slate; a ban known   *)
(* from before a restart never takes a rung or time served away.  Ladder   *)
(* implements it while its table is below its cap.                         *)
(***************************************************************************)
EXTENDS Integers, Sequences

CONSTANTS Keys, Window(_), Decay, Ticks

VARIABLES
    elapsed,  \* ticks so far; only bounds the behaviours
    rung,     \* where each source stands
    left,     \* ticks its ban still runs
    good,     \* ticks of freedom since its ban ended or since its last decay
    reply     \* what the last call answered

vars == <<elapsed, rung, left, good, reply>>

Init ==
    /\ elapsed = 1
    /\ rung = [k \in Keys |-> 0]
    /\ left = [k \in Keys |-> 0]
    /\ good = [k \in Keys |-> 0]
    /\ reply = [op |-> "none"]

Answer(k, offence, fresh) ==
    [op |-> "recordOffence", key |-> k, offence |-> offence, fresh |-> fresh]

\* The source came back: one rung up, and that rung's ban.
Offend(k) ==
    /\ left[k] = 0
    /\ rung' = [rung EXCEPT ![k] = @ + 1]
    /\ left' = [left EXCEPT ![k] = Window(rung[k] + 1)]
    /\ good' = [good EXCEPT ![k] = 0]
    /\ reply' = Answer(k, rung[k] + 1, TRUE)
    /\ UNCHANGED elapsed

\* The source was merely parallel.
Repeat(k) ==
    /\ left[k] > 0
    /\ reply' = Answer(k, rung[k], FALSE)
    /\ UNCHANGED <<elapsed, rung, left, good>>

Pardon(k) ==
    /\ rung' = [rung EXCEPT ![k] = 0]
    /\ left' = [left EXCEPT ![k] = 0]
    /\ good' = [good EXCEPT ![k] = 0]
    /\ reply' = [op |-> "forget", key |-> k]
    /\ UNCHANGED elapsed

\* A ban that was persisted is replayed.  How far up it puts the source is left
\* open: rungs that had decayed may come back with the longer ban.
Inherit(k) ==
    /\ rung'[k] >= rung[k] /\ rung' = [rung EXCEPT ![k] = rung'[k]]
    /\ left'[k] > 0 /\ left'[k] >= left[k] /\ left' = [left EXCEPT ![k] = left'[k]]
    /\ good' = [good EXCEPT ![k] = 0]
    /\ UNCHANGED <<elapsed, reply>>

\* Does this tick complete a full decay period of freedom?
Decays(k) == Decay > 0 /\ left[k] = 0 /\ rung[k] > 0 /\ good[k] + 1 = Decay

Earns(k)  == Decay > 0 /\ left[k] = 0 /\ rung[k] > 0 /\ good[k] + 1 < Decay

Tick ==
    /\ elapsed < Ticks
    /\ elapsed' = elapsed + 1
    /\ left' = [k \in Keys |-> IF left[k] > 0 THEN left[k] - 1 ELSE 0]
    /\ rung' = [k \in Keys |-> IF Decays(k) THEN rung[k] - 1 ELSE rung[k]]
    /\ good' = [k \in Keys |-> IF Earns(k) THEN good[k] + 1 ELSE 0]
    /\ UNCHANGED reply

Next ==
    \/ \E k \in Keys : Offend(k) \/ Repeat(k) \/ Pardon(k) \/ Inherit(k)
    \/ Tick

Spec == Init /\ [][Next]_vars
=============================================================================
