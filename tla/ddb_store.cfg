SPECIFICATION Spec
CONSTANTS
    Key = {k1}
    Value = {v1}
    NoValue = none
    Star = star
    MaxSerie = 3
    WriteVal = {v1, none}
    MaxCrash = 2
    MaxStop = 1
    MaxTamper = 1
    MaxDrop = 1
INVARIANTS
    IdleAgrees
PROPERTIES
    RefinesTable
CHECK_DEADLOCK FALSE
