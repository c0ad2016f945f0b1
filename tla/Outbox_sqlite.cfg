\* SQLite as the supervisor runs it: one worker; one row is malformed.
\* The worker stops at a malformed row once MaxFaults is used up.
SPECIFICATION Spec
CONSTANTS
    r1 = r1
    r2 = r2
    r3 = r3
    c1 = c1
    c2 = c2
    Row = {r1, r2, r3}
    Worker = {w1}
    Channel = {c1, c2}
    Nobody = Nobody
    ChannelsOf <- MCChannelsOf
    Activities <- MCActivities
    Malformed = {r2}
    Targeted <- MCTargeted
    Sqlite = TRUE
    BatchSize = 2
    MaxRetries = 2
    MaxFaults = 2
PROPERTY ImplementsDelivery
CHECK_DEADLOCK FALSE
