CONSTANTS
    DayLength = 2
    Offset = 1
    MaxEdits = 3
    Kinds <- ThreeEvents
    Times <- Moves
SPECIFICATION Spec
INVARIANTS
    TodaysDeparturesWanted
    WantedIsTheLoop
    WantedHasNoRepeats
PROPERTY
    DelayKeepsWanted
CHECK_DEADLOCK FALSE
