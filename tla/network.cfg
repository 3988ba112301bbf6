SPECIFICATION Spec
CONSTANTS
    Base = 9
    HeaderBytes = 2
    Datagrams = FALSE
    Interfaces = {a, b}
    Connections <- TwoConnections
    ClientIds <- OneId
    Nothing = Nothing
INVARIANTS TypeOK JoinAgreement ServesUntilOver
PROPERTIES ImplementsChannels ForgetsTheGone
\* An interface whose tedomari is gone, or whose server has ended, may do no more
CHECK_DEADLOCK FALSE
