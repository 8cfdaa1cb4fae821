SPECIFICATION FairLimiter
CONSTANTS
    Thread = {t1, t2}
    Sweeper = sweeper
    Bucket = {b1}
    t1 = t1
    t2 = t2
    sweeper = sweeper
    b1 = b1
    OneLimit = 1
    Limit <- MCLimit
    Last = 2
    MaxHits = 2
    PruneWorks = FALSE
PROPERTY
    BurstSurfaces
