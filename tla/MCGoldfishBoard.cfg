SPECIFICATION BoardSpec
CONSTANTS
    Irqs = {1, 2, 3, 4, 5, 6}
    Boards <- MCBoards
    Devices <- MCDevices
    WantBase <- MCWantBase
    Size <- MCSize
    WantIrq <- MCWantIrq
    IrqCount <- MCIrqCount
    FreeBase = 4
    FreeIrq = 2
    MaxInits = 2
    MAX_EVENTS = 8
    MaxPut = 6
    MaxChanges = 3
INVARIANTS
    PendingCountExact
    ResourcesDisjoint
    WalkExact
    EventsInOrder
PROPERTIES
    DriversComeUp
    AllServed
