\* One senser with two kinds of sensor, one of which is switched off and on.
CONSTANTS
    u1 = u1
    u2 = u2
    u3 = u3
    Units = {u1, u2}
    LastPlayer = 1
    Sensors = {"optical", "radarActive"}
    JointReadings <- RadarOutranges
    MaxUnitId = 1
    MaxReturnsId = 1
SYMMETRY UnitSymmetry
SPECIFICATION Spec
INVARIANT ClientExtrapolates
