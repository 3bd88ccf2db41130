SPECIFICATION PlayersSpec
CONSTANTS
    Scenarios <- OTScenario
INVARIANTS
    FailuresHaveACause
