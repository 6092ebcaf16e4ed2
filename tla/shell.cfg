CONSTANTS
    MaxExecs = 3
    MaxPrints = 2
    MaxFaults = 2
SPECIFICATION Spec
CHECK_DEADLOCK FALSE
INVARIANTS
    RecordsAreTheirOwn
    CompletedOnce
    
