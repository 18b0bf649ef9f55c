---------------------------- MODULE MCFileStore ----------------------------
(* FileStore instantiated for TLC: every constant is given in the cfg. *)
EXTENDS FileStore
=============================================================================
