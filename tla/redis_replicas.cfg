SPECIFICATION RedisSpec
CONSTANTS
    ra = ra
    rb = rb
    wa = wa
    wb = wb
    k1 = k1
    Replicas <- MCReplicas
    Keys <- MCOneKey
    Clients <- MCClients
    HomeOf <- MCHomes
    FailOpen = FALSE
    MaxPuts = 2
    MaxOutages = 1
    MaxReplicaRestarts = 1
PROPERTY RefreshIsRegular
PROPERTY OutageKeepsBans
PROPERTY ReplicasConverge
CHECK_DEADLOCK FALSE
