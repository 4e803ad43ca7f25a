CONSTANTS
    n1 = n1
    n2 = n2
    Numbers = {n1, n2}
    Cap = 1
    Daemon = daemon
    Syncs = {sync}
    Nobody = nobody
    Calendars <- TwoCalendars
    Budget <- Restless
SPECIFICATION FairSpec
INVARIANTS
    OnlyTheHolderIsInside
    PlansWithoutIntent
    JournalExact
    ExitThreeWroteNothing
PROPERTIES
    SecondSyncIsNoChange
    ImplementsAtomicSync
    DaemonComesBack
CHECK_DEADLOCK FALSE
