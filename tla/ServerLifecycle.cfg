\* The defaults of redis.provider.ts; a connection breaks up to four times.
SPECIFICATION FairSpec
CONSTANTS
    PingRetries = 5
    MaxRetries = 5
    MaxRetriesPerRequest = 3
    MaxDrops = 4
INVARIANTS
    TypeOK
    EndedForAReason
    AbortMeansOutage
PROPERTIES
    StartEnds
    RequestsEnd
    ShutdownEnds
\* The process exits.
CHECK_DEADLOCK FALSE
