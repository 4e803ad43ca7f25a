CONSTANTS
    n1 = n1
    n2 = n2
    n3 = n3
    Numbers = {n1, n2, n3}
    Cap = 1
    AppLimit = 3
    InitialWalls <- EmptyWall
    Calendars <- TwoCalendars
    ApplyModes = {TRUE}
    Budget <- Crowding
SPECIFICATION FairSpec
PROPERTIES
    IntentsSettle
    Converges
