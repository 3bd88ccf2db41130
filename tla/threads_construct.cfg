\* The thread is faster than the constructor that started it.
SPECIFICATION Spec
CONSTANTS
    NThreads = 2
    Schedules <- ShortTapes
    SpuriousWakeups = FALSE
    ConstructedInTime = FALSE
INVARIANTS
    HasSingleton
