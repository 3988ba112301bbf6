SPECIFICATION UnixSpec
CONSTANTS
    Base = 9
    HeaderBytes = 2
    Datagrams = TRUE
    Interfaces = {a, b}
    Connections <- TwoConnections
    ClientIds <- OneId
    Nothing = Nothing
INVARIANT ServesUntilOver
CHECK_DEADLOCK FALSE
