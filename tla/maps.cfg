\* A map of four by four, off the origin, and moves of most of its width
CONSTANTS
    Left <- MCLeft
    Bottom = 1
    Right = 2
    Top = 5
    Topologies <- AllTopologies
    Speed = 3
SPECIFICATION Spec
INVARIANTS TypeOK StepsAddUp WayIsShortest
