---------------------------- MODULE MCDetectors ----------------------------
(* Detectors instantiated for TLC. *)
EXTENDS Detectors

CONSTANTS p1, p2, p3, p4, a1, a2, a3

\* Four paths against a capacity of three; three user agents against two.
MCPaths     == {p1, p2, p3, p4}
MCAgents    == {a1, a2, a3}
MCItems     == [d \in Buckets |-> IF d = "badPaths" THEN MCPaths ELSE MCAgents]
MCCapacity  == [d \in Buckets \cup {"bruteForce"} |-> IF d = "uaRotation" THEN 2 ELSE 3]
MCLeak      == [d \in Buckets |-> 2]
\* What the backend's answers feed, and what requests feed.
MCAnswers   == {"badPaths", "bruteForce"}
MCRequests  == {"uaRotation", "rateAbuse"}
MCConfigurations == {MCAnswers, MCRequests}

\* One path is as good as another, and one user agent.
MCSymmetry  == Permutations(MCPaths) \cup Permutations(MCAgents)
=============================================================================
