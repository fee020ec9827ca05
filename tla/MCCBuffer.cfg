SPECIFICATION CbSpec
CONSTANTS
    Byte = {1, 2}
    Size = 3
    MaxLen = 4
PROPERTIES
    IsBoundedFifo
    WriteIsFull
