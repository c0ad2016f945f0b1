\* PostgreSQL: two workers, three rows, one of them without a handler.
SPECIFICATION FairSpec
CONSTANTS
    r1 = r1
    r2 = r2
    r3 = r3
    c1 = c1
    c2 = c2
    Row = {r1, r2, r3}
    Worker = {w1, w2}
    Channel = {c1, c2}
    Nobody = Nobody
    ChannelsOf <- MCChannelsOf
    Activities <- MCActivities
    Malformed = {}
    Targeted <- MCTargeted
    Sqlite = FALSE
    BatchSize = 2
    MaxRetries = 2
    MaxFaults = 2
INVARIANT RepeatsAreFaults
PROPERTIES EventuallyPublished ImplementsDelivery
