\* What the server owes its clients, with interrupts
CONSTANTS
    None = None
    u1 = u1
    u2 = u2
    m1 = m1
    m2 = m2
    MaxClients = 2
    Universes = {u1}
    Maps = {m1, m2}
    PlayMode <- MCPlayMode
    NDebug = FALSE
    Requests <- ProgressRequests
    MaxRequests = 1
    MaxBroken = 1
    Signals = TRUE
SPECIFICATION FairSpec
PROPERTIES ServerCatchesUp StartHappens AdminAppears InterruptEnds
