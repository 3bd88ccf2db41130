\* Four threads, without spurious wake-ups; main tapes that reuse threads and
\* one that leaves tapes unjoined.
SPECIFICATION FairSpec
CONSTANTS
    NThreads = 4
    Schedules <- MainTapes
    SpuriousWakeups = FALSE
    ConstructedInTime = TRUE
INVARIANTS
    TypeOK
    JoinsWait
    NoTapeLost
PROPERTIES
    ForksAndJoins
    EverythingEnds
