\* Two players; units with radars, which see each other and change hands.
CONSTANTS
    u1 = u1
    u2 = u2
    u3 = u3
    Units = {u1, u2, u3}
    LastPlayer = 1
    Sensors = {"radarActive"}
    JointReadings <- AnyReading
    MaxUnitId = 2
    MaxReturnsId = 2
SYMMETRY UnitSymmetry
SPECIFICATION Spec
INVARIANTS
    TypeOK
    BooksAgree
    NeitherSideErrs
    ViewComplete
    ShownAsPerceived
    ClientExtrapolates
