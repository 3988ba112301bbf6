\* A commander, a grunt and one more unit for a few ticks
CONSTANTS
    Units = {1, 2, 3}
    NoKind = NoKind
    Kinds <- MCKinds
    MaxHitPoints <- MCMaxHitPoints
    Corpse <- MCCorpse
    Weapons <- MCWeapons
    InitialUnits <- MCInitialUnits
    Creates <- MCCreates
    TokenModulus = 2
    RemovalTests = {TRUE, FALSE}
    LastTime = 5
    MaxTime = 3
    MaxBallistics = 1
    MaxBeams = 2
    MaxEffects = 1
    FuseDelay = 2
    BeamDuration = 2
    BlastDamage = 1
    BuildRate = 2
SPECIFICATION Spec
INVARIANTS TypeOK NoFatal ParalysisFuses EveryUnitOnce HealthWithinBuilt
PROPERTIES ImplementsFuseBook TickEnds
CHECK_DEADLOCK FALSE
