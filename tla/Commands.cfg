CONSTANTS
    Interval = 7
    Poll = 2
    MaxCycle = 10
    Situations <- AllSituations
    Captures <- SomeCaptures
    Calendars <- SomeCalendars
    Secrets <- Marks
SPECIFICATION FairCommandsSpec
INVARIANTS
    NeverLocksItselfOut
    StateNeverExposed
    WritesOnlyIfAsked
    AcceptedIsUsable
    NothingSecretWritten
    ManifestNamesWholeFiles
    StopHonoured
PROPERTIES
    CyclesSpaced
    ProcessStops
CHECK_DEADLOCK FALSE
