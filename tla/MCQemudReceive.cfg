SPECIFICATION ReceiveSpec
CONSTANTS
    FRAME_HEADER_SIZE = 2
    HEADER_SIZE = 2
    MAX_SERIAL_PAYLOAD = 4
    MaxLength = 5
    MaxPackets = 4
    MaxFrames = 2
    Sizes = {1, 2}
    MayClose = TRUE
INVARIANTS
    PacketsReassembled
    
PROPERTIES
    Drained
