------------------------------ MODULE MCLadder ------------------------------
(* Ladder instantiated for TLC: ladders and persisted bans of its runs. *)
EXTENDS LadderRefinement, TLC

\* One tick, three ticks, then permanent.
LadderToPermanent == <<1, 3, 0>>

\* A short ban of a second offence.
SomeSeeds == {<<2, 2>>}

\* No operation tells one key from another.
Symmetry == Permutations(Keys)
=============================================================================
