\* A condition variable may wake up without a signal: join_tape returns early.
SPECIFICATION Spec
CONSTANTS
    NThreads = 2
    Schedules <- ShortTapes
    SpuriousWakeups = TRUE
    ConstructedInTime = TRUE
INVARIANTS
    JoinsWait
