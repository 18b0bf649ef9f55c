--------------------------- MODULE LadderRefinement ---------------------------
(* The ladder of counters.go implements LadderPromise: the refinement mapping. *)
EXTENDS Ladder

Serving(k) == st[k].banUntil > now

\* Ticks of freedom since the last rung was lost, or since the ban ended.
Freedom(k) ==
    IF Standing(k) = 0 \/ Serving(k) \/ Decay = 0 THEN 0
    ELSE (now - QuietSince(st[k])) % Decay

Promise == INSTANCE LadderPromise WITH
    Window  <- BanWindow,
    Ticks   <- EndOfTime,
    elapsed <- now,
    rung    <- [k \in Keys |-> Standing(k)],
    left    <- [k \in Keys |-> IF Serving(k) THEN st[k].banUntil - now ELSE 0],
    good    <- [k \in Keys |-> Freedom(k)]

\* Whatever is called in whatever order, with the janitor sweeping at any time,
\* recordOffence and forget answer as the abstract ladder does, and replaying the
\* ban list (counters.seed) walks no source back and cuts no ban short, whatever
\* the ladder holds by then (for tables below their cap and callers with a fresh
\* clock).
KeepsPromise == Promise!Spec
=============================================================================
