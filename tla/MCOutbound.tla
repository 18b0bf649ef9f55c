------------------------------ MODULE MCOutbound ------------------------------
(* Outbound instantiated for TLC. *)
EXTENDS Outbound, TLC

\* A tarpit of two places, then of one.
MCCaps == <<2, 1>>

\* Interchangeable: no formula names one of them.
Symmetry == Permutations(Addresses) \cup Permutations(Senders)
=============================================================================
