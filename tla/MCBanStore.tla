----------------------------- MODULE MCBanStore -----------------------------
(* BanStore over two hosts, the range they share and the range above it. *)
EXTENDS BanStore

CONSTANTS all, range, host, neighbour

MCPrefixes == {all, range, host, neighbour}
MCBits     == [p \in MCPrefixes |-> CASE p = all -> 0 [] p = range -> 1 [] OTHER -> 2]
MCCovers   == [p \in MCPrefixes |-> {p, all} \cup IF p = all THEN {} ELSE {range}]

\* Host keys with and without range escalation, and keys as wide as the range.
MCWidths == {<<2, 0>>, <<2, 1>>, <<1, 0>>}

Auto(t)     == [manual |-> FALSE, permanent |-> FALSE, at |-> t]
Operator(t) == [manual |-> TRUE, permanent |-> FALSE, at |-> t]
Never       == [manual |-> FALSE, permanent |-> TRUE, at |-> 0]

Empty    == [p \in {} |-> Never]
Expiring == [p \in {host, range} |-> IF p = host THEN Auto(2) ELSE Operator(3)]
Crowded  == [p \in MCPrefixes |-> IF p = all THEN Operator(1) ELSE
                                  IF p = range THEN Never ELSE Auto(3)]

MCSnapshots == {Empty, Expiring, Crowded}
=============================================================================
