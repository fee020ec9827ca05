SPECIFICATION LineSpec
CONSTANTS
    BufSize = 2
    MaxBytes = 5
    HostRoom = 1
    BipSize = 2
    MaxWrite = 3
INVARIANTS
    NeverAborts
    LineInOrder
PROPERTIES
    BytesArrive
