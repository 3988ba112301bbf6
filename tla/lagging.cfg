\* One client, one unit
CONSTANTS
    Clients = {"a"}
    Units = {0}
    Velocities = {0, 1}
    Acceleration = 1
    Width = 3
    NoTarget = NoTarget
    MaxTime = 3
    MaxEvents = 2
    MaxGone = 1
    Room = 1
SPECIFICATION Spec
INVARIANT FollowsTheServer
\* The last tick of the bound has been played
CHECK_DEADLOCK FALSE
