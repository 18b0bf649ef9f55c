----------------------------- MODULE MCAdmission -----------------------------
(* Admission instantiated for TLC. *)
EXTENDS Admission, TLC

CONSTANTS edge, lb, a1, a2, b

\* A CDN edge and a load balancer; two addresses of one host's network; another.
MCAddresses == {edge, lb, a1, a2, b}
MCTrusted   == {edge, lb}
MCForgeries ==
    {[lines |-> ls, single |-> h] :
        ls \in {<<>>, << <<b>> >>, << <<b, Malformed>> >>, << <<b>>, <<edge, Blank>> >>},
        h  \in {<<>>, <<b>>}}

host == {a1, a2}
net  == {a1, a2, b}
Singles    == {{a} : a \in Addresses}
MCCidrs    == Singles \cup {host, net, TrustedProxies, Addresses}
\* Keys of one address, or as wide as a host's network.
MCKeyings  == {Singles, (Singles \ {{a1}, {a2}}) \cup {host}}
MCRanges   == {net}
MCTooWide  == {Addresses}
MCHandlers == {[ui |-> FALSE, servePrefix |-> FALSE, crawlers |-> ""],
               [ui |-> FALSE, servePrefix |-> TRUE,  crawlers |-> "block"],
               [ui |-> FALSE, servePrefix |-> FALSE, crawlers |-> "exempt"],
               [ui |-> TRUE,  servePrefix |-> TRUE,  crawlers |-> ""]}
MCBannable == {a1, {a1}, net, TrustedProxies, Addresses}
MCAllowlists == {{}, {b}}
=============================================================================
