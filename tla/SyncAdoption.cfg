CONSTANTS
    n1 = n1
    n2 = n2
    n3 = n3
    Numbers = {n1, n2, n3}
    Cap = 2
    AppLimit = 2
    InitialWalls <- SmallWalls
    Calendars <- ThreeCalendars
    ApplyModes = {TRUE}
    Budget <- EditAroundCrash
SPECIFICATION Spec
INVARIANT
    RemovesOnlyAdded
