CONSTANTS
    n1 = n1
    n2 = n2
    bright = bright
    dim = dim
    Numbers = {n1, n2}
    Settings = {bright, dim}
    Cap = 1
    Documents <- AllDocuments
SPECIFICATION Spec
INVARIANTS
    TrustsTheContract
    OwnWriteIsCaptured
    SettingsLostOnlyInRace
PROPERTY
    DriftNeverOverwritten
