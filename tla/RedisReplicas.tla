---------------------------- MODULE RedisReplicas ----------------------------
(***************************************************************************)
(* redisStore: Traefik replicas sharing one ban list through Redis.  A     *)
(* ban or an unban changes the local table first and Redis after it, with  *)
(* nothing held in between; every janitor pass rebuilds the local table    *)
(* from what SCAN and MGET returned, one command at a time.                *)
(*                                                                         *)
(* A ban is the number of its put; 0 is no ban.  Time enters only through  *)
(* the bans that have lapsed.  Redis and the network are external: a       *)
(* command takes effect at one instant, or fails while Redis is away, or   *)
(* its reply is lost.  The cap and the range index of the local table are  *)
(* in BanStore.                                                            *)
(***************************************************************************)
EXTENDS Integers, FiniteSets

CONSTANTS
    Replicas,    \* the Traefik instances
    Keys,        \* the sources
    Clients,     \* goroutines that ban and unban: requests, operators
    HomeOf,      \* HomeOf[w]: the replica w runs in
    FailOpen,    \* store.failOpen
    MaxPuts,     \* bound on the bans ever put
    MaxOutages,  \* bound on the outages of Redis
    MaxReplicaRestarts  \* bound on the restarts of replicas

ASSUME RedisAssumption ==
    /\ IsFiniteSet(Keys) /\ HomeOf \in [Clients -> Replicas]
    /\ FailOpen \in BOOLEAN
    /\ MaxPuts \in Nat /\ MaxOutages \in Nat /\ MaxReplicaRestarts \in Nat

VARIABLES
    redis,     \* redis[k]: the ban Redis holds for k
    reachable, \* Redis answers
    cache,     \* cache[r][k]: the ban in the local table of r
    serving,   \* the replicas whose store has been built
    writer,    \* writer[w]: the command w has still to send
    refresh,   \* refresh[r]: how far the janitor's refresh of r has come
    lapsed,    \* the bans that have expired
    puts, outages, replicaRestarts,
    seen       \* history, seen[r][k]: what Redis held for k since r's refresh began

redisVars == <<redis, reachable, cache, serving, writer, refresh, lapsed, puts, outages,
               replicaRestarts, seen>>

network == <<reachable, outages>>

NoBan   == 0
Idle    == [cmd |-> "none"]
Nothing == [k \in Keys |-> NoBan]
Resting == [at |-> "rest", keys |-> {}, got |-> Nothing]

Refreshing(r) == refresh[r].at # "rest"

\* A write to Redis, as the refreshes under way may come to see it.
Write(k, ban) ==
    /\ redis' = [redis EXCEPT ![k] = ban]
    /\ seen' = [r \in Replicas |->
                  IF Refreshing(r) THEN [seen[r] EXCEPT ![k] = @ \cup {ban}] ELSE seen[r]]

-----------------------------------------------------------------------------
(* put and delete. *)

\* The local table first.
PutLocal(w, k) ==
    /\ HomeOf[w] \in serving /\ writer[w] = Idle /\ puts < MaxPuts
    /\ puts' = puts + 1
    /\ cache' = [cache EXCEPT ![HomeOf[w]][k] = puts + 1]
    /\ writer' = [writer EXCEPT ![w] = [cmd |-> "SET", key |-> k, ban |-> puts + 1]]
    /\ UNCHANGED <<redis, network, serving, refresh, lapsed, replicaRestarts, seen>>

\* SET with the rest of the ban's life as its expiry; a ban that has none left is
\* not sent, and a failure is only logged.
PutRemote(w) ==
    /\ writer[w].cmd = "SET"
    /\ writer' = [writer EXCEPT ![w] = Idle]
    /\ \/ /\ reachable
          /\ Write(writer[w].key, writer[w].ban)
       \/ /\ writer[w].ban \in lapsed
          /\ UNCHANGED <<redis, seen>>
       \/ ~reachable /\ UNCHANGED <<redis, seen>>
    /\ UNCHANGED <<network, cache, serving, refresh, lapsed, puts, replicaRestarts>>

DeleteLocal(w, k) ==
    /\ HomeOf[w] \in serving /\ writer[w] = Idle
    /\ cache' = [cache EXCEPT ![HomeOf[w]][k] = NoBan]
    /\ writer' = [writer EXCEPT ![w] = [cmd |-> "DEL", key |-> k]]
    /\ UNCHANGED <<redis, network, serving, refresh, lapsed, puts, replicaRestarts, seen>>

\* DEL; the ban returns with the next refresh if it fails.
DeleteRemote(w) ==
    /\ writer[w].cmd = "DEL"
    /\ writer' = [writer EXCEPT ![w] = Idle]
    /\ \/ reachable /\ Write(writer[w].key, NoBan)
       \/ ~reachable /\ UNCHANGED <<redis, seen>>
    /\ UNCHANGED <<network, cache, serving, refresh, lapsed, puts, replicaRestarts>>

-----------------------------------------------------------------------------
(* refresh, by the janitor and when the store is built. *)

Begin(r) ==
    /\ refresh[r] = Resting
    /\ refresh' = [refresh EXCEPT ![r].at = "scan"]
    /\ seen' = [seen EXCEPT ![r] = [k \in Keys |-> {redis[k]}]]
    /\ UNCHANGED <<redis, network, cache, serving, writer, lapsed, puts, replicaRestarts>>

\* newRedisStore: Traefik builds the middleware, at its start or at a reload after
\* one that failed.
Build(r) == r \notin serving /\ Begin(r)

\* The janitor, which runs once the store is built.
Tick(r) == r \in serving /\ Begin(r)

\* The whole SCAN loop: the keys that were there throughout, and any of those
\* that were there for a while.
Scan(r) ==
    /\ refresh[r].at = "scan" /\ reachable
    /\ \E found \in SUBSET {k \in Keys : seen[r][k] # {NoBan}} :
          /\ {k \in Keys : NoBan \notin seen[r][k]} \subseteq found
          /\ refresh' = [refresh EXCEPT ![r] = [at |-> "mget", keys |-> found, got |-> Nothing]]
    /\ UNCHANGED <<redis, network, cache, serving, writer, lapsed, puts, replicaRestarts, seen>>

\* One MGET for each batch of keys; a key that is gone by now has no value.
MGet(r) ==
    /\ refresh[r].at = "mget" /\ reachable
    /\ \E batch \in SUBSET refresh[r].keys :
          /\ batch # {}
          /\ refresh' = [refresh EXCEPT
                ![r].keys = @ \ batch,
                ![r].got  = [k \in Keys |-> IF k \in batch THEN redis[k] ELSE @[k]]]
    /\ UNCHANGED <<redis, network, cache, serving, writer, lapsed, puts, replicaRestarts, seen>>

\* Mutant of Loaded: an empty keyspace is no reason to change anything.
LoadedIfAny(r) ==
    IF \A k \in Keys : refresh[r].got[k] = NoBan THEN cache[r]
    ELSE [k \in Keys |-> IF refresh[r].got[k] \in lapsed THEN NoBan ELSE refresh[r].got[k]]

\* Mutant of Loaded: what was put here stays, whatever Redis says.
LoadedAndKept(r) ==
    [k \in Keys |-> IF refresh[r].got[k] = NoBan THEN cache[r][k] ELSE refresh[r].got[k]]

\* What refresh makes of the values it got: the bans still active.
Loaded(r) ==
    [k \in Keys |-> IF refresh[r].got[k] \in lapsed THEN NoBan ELSE refresh[r].got[k]]

\* replaceAll: one swap for the whole table.
Swap(r) ==
    /\ refresh[r].at = "mget" /\ refresh[r].keys = {}
    /\ cache' = [cache EXCEPT ![r] = Loaded(r)]
    /\ refresh' = [refresh EXCEPT ![r] = Resting]
    /\ serving' = serving \cup {r}
    /\ seen' = [seen EXCEPT ![r] = [k \in Keys |-> {}]]
    /\ UNCHANGED <<redis, network, writer, lapsed, puts, replicaRestarts>>

\* Mutant of Abort: the table is emptied for the refresh that now fails.
AbortEmpty(r) ==
    /\ Refreshing(r) /\ ~reachable
    /\ refresh[r].keys # {} \/ refresh[r].at = "scan"
    /\ refresh' = [refresh EXCEPT ![r] = Resting]
    /\ serving' = IF FailOpen THEN serving \cup {r} ELSE serving
    /\ cache' = [cache EXCEPT ![r] = Nothing]
    /\ seen' = [seen EXCEPT ![r] = [k \in Keys |-> {}]]
    /\ UNCHANGED <<redis, network, writer, lapsed, puts, replicaRestarts>>

\* A command failed: the local table stays.  A store that was being built is used
\* nevertheless if it fails open; otherwise New returns the error, and there is no
\* janitor to try again.
Abort(r) ==
    /\ Refreshing(r) /\ ~reachable
    /\ refresh[r].keys # {} \/ refresh[r].at = "scan"
    /\ refresh' = [refresh EXCEPT ![r] = Resting]
    /\ serving' = IF FailOpen THEN serving \cup {r} ELSE serving
    /\ seen' = [seen EXCEPT ![r] = [k \in Keys |-> {}]]
    /\ UNCHANGED <<redis, network, cache, writer, lapsed, puts, replicaRestarts>>

-----------------------------------------------------------------------------
(* The world around. *)

\* Traefik restarts: the local table and whatever was being sent are gone.
Restart(r) ==
    /\ replicaRestarts < MaxReplicaRestarts
    /\ replicaRestarts' = replicaRestarts + 1
    /\ cache' = [cache EXCEPT ![r] = Nothing]
    /\ serving' = serving \ {r}
    /\ writer' = [w \in Clients |-> IF HomeOf[w] = r THEN Idle ELSE writer[w]]
    /\ refresh' = [refresh EXCEPT ![r] = Resting]
    /\ seen' = [seen EXCEPT ![r] = [k \in Keys |-> {}]]
    /\ UNCHANGED <<redis, network, lapsed, puts>>

Outage ==
    /\ reachable /\ outages < MaxOutages
    /\ reachable' = FALSE
    /\ outages' = outages + 1
    /\ UNCHANGED <<redis, cache, serving, writer, refresh, lapsed, puts, replicaRestarts, seen>>

Recover ==
    /\ ~reachable
    /\ reachable' = TRUE
    /\ UNCHANGED <<redis, outages, cache, serving, writer, refresh, lapsed, puts,
                   replicaRestarts, seen>>

\* A ban expires.
Lapse(b) ==
    /\ b \in 1..puts \ lapsed
    /\ lapsed' = lapsed \cup {b}
    /\ UNCHANGED <<redis, network, cache, serving, writer, refresh, puts, replicaRestarts, seen>>

\* Redis drops a key once its expiry has passed, and the janitor's sweep a ban.
Expire(k) ==
    \/ /\ redis[k] \in lapsed
       /\ Write(k, NoBan)
       /\ UNCHANGED <<network, cache, serving, writer, refresh, lapsed, puts, replicaRestarts>>
    \/ \E r \in Replicas :
          /\ cache[r][k] \in lapsed
          /\ cache' = [cache EXCEPT ![r][k] = NoBan]
          /\ UNCHANGED <<redis, network, serving, writer, refresh, lapsed, puts,
                         replicaRestarts, seen>>

-----------------------------------------------------------------------------

RedisInit ==
    /\ redis = Nothing /\ reachable = TRUE
    /\ cache = [r \in Replicas |-> Nothing]
    /\ serving = {}
    /\ writer = [w \in Clients |-> Idle]
    /\ refresh = [r \in Replicas |-> Resting]
    /\ lapsed = {}
    /\ puts = 0 /\ outages = 0 /\ replicaRestarts = 0
    /\ seen = [r \in Replicas |-> [k \in Keys |-> {}]]

Refresh(r) == Tick(r) \/ Scan(r) \/ MGet(r) \/ Swap(r) \/ Abort(r)

Send(w) == PutRemote(w) \/ DeleteRemote(w)

RedisNext ==
    \/ \E w \in Clients, k \in Keys : PutLocal(w, k) \/ DeleteLocal(w, k)
    \/ \E w \in Clients : Send(w)
    \/ \E r \in Replicas : Build(r) \/ Refresh(r) \/ Restart(r)
    \/ Outage \/ Recover
    \/ \E b \in 1..MaxPuts : Lapse(b)
    \/ \E k \in Keys : Expire(k)

\* The janitor of a store that is built runs on a ticker, a command is answered or
\* times out, and an outage ends.  Nothing makes Traefik build a store (again).
RedisFairness ==
    /\ \A r \in Replicas : WF_redisVars(Refresh(r))
    /\ \A w \in Clients : WF_redisVars(Send(w))
    /\ WF_redisVars(Recover)

RedisSpec == RedisInit /\ [][RedisNext]_redisVars /\ RedisFairness

-----------------------------------------------------------------------------
(* Properties. *)

\* What is in force of a table.
InForce(table) == [k \in Keys |-> IF table[k] \in lapsed THEN NoBan ELSE table[k]]

\* A refresh gives every key a verdict that Redis gave at some moment of that
\* refresh, whatever was written while SCAN and MGET were under way: no ban of
\* that time is skipped and none from before it survives.
RefreshIsRegular ==
    [][\A r \in Replicas : Swap(r) =>
          \A k \in Keys :
             \/ cache'[r][k] \in seen[r][k]
             \/ cache'[r][k] = NoBan /\ seen[r][k] \cap lapsed # {}]_redisVars

\* A replica that cannot reach Redis keeps enforcing: a ban goes out of force there
\* only by a ban or an unban of its own, by expiring, by a restart, or by a refresh
\* that had all its answers before the outage.
OutageKeepsBans ==
    [][\A r \in Replicas, k \in Keys :
          /\ ~reachable
          /\ InForce(cache[r])[k] # NoBan
          /\ cache'[r][k] # cache[r][k]
          => \/ replicaRestarts' # replicaRestarts
             \/ \E w \in Clients : HomeOf[w] = r /\ writer'[w] # writer[w] /\ writer'[w].key = k
             \/ refresh[r].at = "mget" /\ refresh[r].keys = {}]_redisVars

\* When nobody bans or unbans any more, every replica that runs comes to
\* enforce exactly what Redis holds: bans and unbans of the others, the unban that
\* leaves nothing behind included, whatever was lost or overtaken before.  One whose
\* first refresh failed does not run unless it fails open (store_redis.go:57).
ReplicasConverge ==
    (<>[][\A w \in Clients : writer'[w] = writer[w]]_redisVars) =>
        <>[](\A r \in serving : InForce(cache[r]) = InForce(redis))
=============================================================================
