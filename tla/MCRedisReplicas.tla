--------------------------- MODULE MCRedisReplicas ---------------------------
(* RedisReplicas instantiated for TLC. *)
EXTENDS RedisReplicas, TLC

CONSTANTS ra, rb, wa, wb, k1

\* Two replicas, a client in each.
MCReplicas == {ra, rb}
MCClients  == {wa, wb}
MCHomes    == (wa :> ra) @@ (wb :> rb)
MCOneKey   == {k1}
=============================================================================
