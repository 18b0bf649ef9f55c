---------------------------- MODULE MCEnforcement ----------------------------
(* Enforcement instantiated for TLC. *)
EXTENDS Enforcement, TLC

CONSTANTS s1, s2, net

\* One range with two sources, or with one.
MCSources  == {s1, s2}
MCOne      == {s1}
MCRanges   == {net}
MCRangeOf  == [s \in Sources |-> net]
\* One rung; or a second, permanent one.
MCTimed    == <<2>>
MCRungs    == <<2, 0>>
\* The operator's keys and bans, a permanent and a short one.
NoKeys     == {}
MCManual   == {<<s1, 0>>, <<s1, 1>>}

\* Both runs keep to the setting the theorems of EnforcementProofs suppose.  Past the last
\* rung, or the number of rungs, every offence has the window of that rung.
ASSUME MCSetting ==
    /\ RoomForAll /\ HorizonIsFar
    /\ \A n \in 0..Len(Escalation) : Counters!BanWindow(n) > Patience

\* One request goroutine is like another.
Symmetry == Permutations(Requests)
=============================================================================
