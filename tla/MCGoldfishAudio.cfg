SPECIFICATION Spec
CONSTANTS
    BufferSize = 3
    MaxFrames = 6
INVARIANTS
    PlaysInOrder
    NewsAnnounced
    RecordExact
PROPERTIES
    AllPlayed
