\* Two clients, two units, four ticks
CONSTANTS
    Clients <- MCClients
    Units = {0, 1}
    Velocities = {0, 1}
    Acceleration = 1
    Width = 3
    NoTarget = NoTarget
    MaxTime = 4
    MaxEvents = 2
    MaxGone = 1
    Room = 1
SPECIFICATION Spec
INVARIANTS TypeOK AtMostOneMoveBehind
PROPERTIES ImplementsSharedGame OrdersTakeEffect
\* The last tick of the bound has been played
CHECK_DEADLOCK FALSE
