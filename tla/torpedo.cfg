\* Two ships, one torpedo of which may be shot down before its fuse goes off
CONSTANTS
    Units = {1, 2, 3, 4}
    NoKind = NoKind
    Kinds = {"ship", "torp"}
    MaxHitPoints <- MCMaxHitPoints
    Corpse <- MCCorpse
    Weapons <- MCWeapons
    InitialUnits <- MCInitialUnits
    TokenModulus = 3
    RemovalTests = {TRUE}
    LastTime = 7
    MaxTime = 5
    MaxBeams = 1
    Attack = 1
    FuseDelay = 2
    BeamDuration = 2
    Reload = 1
SPECIFICATION Spec
INVARIANT TopLayerUnique
CHECK_DEADLOCK FALSE
