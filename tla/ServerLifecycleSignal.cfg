\* The defaults of redis.provider.ts and a connection that never breaks.
SPECIFICATION FairSpec
CONSTANTS
    PingRetries = 5
    MaxRetries = 5
    MaxRetriesPerRequest = 3
    MaxDrops = 0
PROPERTY SignalEndsProcess
\* The process exits.
CHECK_DEADLOCK FALSE
