---------------------------- MODULE MCConsoleFeed ----------------------------
(* ConsoleFeed instantiated for TLC. *)
EXTENDS ConsoleFeed

MCKinds == {"ban", "reject"}
=============================================================================
