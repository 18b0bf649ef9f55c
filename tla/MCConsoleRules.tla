---------------------------- MODULE MCConsoleRules ----------------------------
(* ConsoleRules instantiated for TLC. *)
EXTENDS ConsoleRules, TLC

\* Two sections that must not both be off.
MCSections == {"detectors", "enforcement"}
MCValues   == {"off", "on"}
MCInvalid  == {[s \in MCSections |-> "off"]}

\* A file that turns both on, or just the one; the sections are alike, so the third
\* valid file is the second's mirror image.
MCFiles    == {[s \in MCSections |-> "on"],
               [s \in MCSections |-> IF s = "detectors" THEN "on" ELSE "off"]}

\* A console of its own over a file; or the detector's own, over Redis.
MCFile     == [rules : MCFiles, backend : {"file"}, console : {TRUE}]
MCRedis    == [rules : MCFiles, backend : {"redis"}, console : {FALSE}]
MCTwo      == MCFile \cup MCRedis
=============================================================================
