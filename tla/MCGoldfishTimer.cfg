SPECIFICATION Spec
CONSTANTS
    WordSize = 4
    MaxTime = 5
INVARIANTS
    
    TimeNotTorn

    
    
