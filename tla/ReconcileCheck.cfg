CONSTANTS
    Numbers = {n1, n2, n3}
    Cap = 2
    MaxWall = 3
    MaxWanted = 3
SPECIFICATION Spec
INVARIANTS
    PlanIsTheLoop
    WantedAccountedFor
PROPERTY
    WriteKeepsUnowned
CHECK_DEADLOCK FALSE
