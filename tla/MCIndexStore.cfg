SPECIFICATION FairSpec
CONSTANTS
    r1 = r1
    r2 = r2
    w1 = w1
    c1 = c1
    c2 = c2
    Readers = {r1}
    Writers = {w1}
    ReaderLimit = 1
    MaxWrites = 2
    MaxSwaps = 2
    Callers = {c1, c2}
    Slots = 3
    Work <- ContentWork
    ChannelCapacity = 1
    QueueCapacity = 2
    BurstLimit = 1
    MaxAsked = 2
    MaxVersion = 1
    MaxGeneration = 2
    MaxRestarts = 1
INVARIANTS
    NoWriteLost
    OwnReadersReadTheStore
    StagingIsExact
    TrigramsAreOfTheCore
PROPERTIES
    MaintenanceIsABarrier
    BackgroundGoesOn
\* The builder and the callers may stop for good.
CHECK_DEADLOCK FALSE
