\* Response cache: three callers, two keys, a changing BMC and a load that
\* raises.  Dashboard: three requests at a time, a TTL of two ticks, listings of
\* up to two, one of which raises.  Client: three threads, two resets, one failed
\* load or build.  No symmetry, for liveness.
SPECIFICATION CachesSpec
CONSTANTS
    Callers = {c1, c2, c3}
    Keys = {k1, k2}
    MaxVersion = 1
    MaxFailures = 1
    Clients = {h1, h2, h3}
    TTL = 2
    MaxListing = 2
    MaxNow = 5
    MaxRaises = 1
    Nobody = Nobody
    Threads = {t1, t2, t3}
    MaxResets = 2
    MaxClientFailures = 1
INVARIANT SingleFlight
INVARIANT WaiterHasLoader
INVARIANT OneVersionPerScrape
INVARIANT NeverReturnsNone
INVARIANT OneBuildPerReset
INVARIANT ResetIsSeen
PROPERTY StoredIsPristine
PROPERTY RowsAreRecent
PROPERTY NobodyWaitsForever
