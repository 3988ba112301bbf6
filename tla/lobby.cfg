\* Two clients, one of whose sockets may break, and two maps
CONSTANTS
    None = None
    u1 = u1
    u2 = u2
    m1 = m1
    m2 = m2
    MaxClients = 2
    Universes = {u1}
    Maps = {m1, m2}
    PlayMode <- MCPlayMode
    NDebug = FALSE
    Requests <- LobbyRequests
    MaxRequests = 1
    MaxBroken = 1
    Signals = FALSE
SPECIFICATION Spec
INVARIANTS TypeOK ObligationsKept ObserversApart TreeAgrees
    PlayerListsExact NoInternalAbort GroupsMatchRoles
PROPERTIES RolesFrozen NoRequestInherited
