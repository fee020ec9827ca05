SPECIFICATION Spec
CONSTANTS
    Services = {"boot", "sensors"}
    Unknown = "unknown"
    max_clients <- MCMaxClients
    Closing = {"boot"}
    Channels = {1, 2}
    MaxConns = 4
    MaxQueue = 2
INVARIANTS
    ListsConsistent
    DeliveredToPeer
    EndsAgree
PROPERTIES
    ConnectAnswered
