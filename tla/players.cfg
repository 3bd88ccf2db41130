SPECIFICATION PlayersSpec
CONSTANTS
    Scenarios <- RunScenarios
INVARIANTS
    PlayersTypeOK
    RightPeer
    FinishedTogether
    FailuresHaveACause
PROPERTIES
    EverybodyEnds
