SPECIFICATION FairSpec
CONSTANTS
    Size = 4
    Laps = 2
    DrainBatch = 2
    MaxPush = 9
INVARIANTS
    RingIntegrity
    ExactlyOnePlace
    CountersAccountForLoss
    WakeupPending
    CleanShutdown
PROPERTIES
    OrderedDelivery
    LossOnlyWhenFull
    QueuedIsTaken
    StopTerminates
    ImplementsChannel
