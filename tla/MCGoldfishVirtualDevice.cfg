SPECIFICATION Spec
CONSTANTS
    Lengths = {1, 3}
    MaxCommands = 3
    MaxDeaths = 2
\* The guest stops writing, and a read whose command was cut by the death of
\* a renderer waits for ever.
CHECK_DEADLOCK FALSE
INVARIANT StreamInOrder
PROPERTIES
    WriteReturns
    
