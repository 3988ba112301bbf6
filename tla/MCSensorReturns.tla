--------------------------- MODULE MCSensorReturns ---------------------------
(* Instances of SensorReturns for TLC. *)
EXTENDS SensorReturns, TLC

CONSTANTS u1, u2, u3

\* Units differ only in name
UnitSymmetry == Permutations(Units)

AnyReading == [Sensors -> Readings]

\* A radar that sees three times as far as the eye: what both read, by distance
RadarOutranges ==
    {[optical |-> seen[1], radarActive |-> seen[2]] :
        seen \in {<<{"unit"}, {"unit"}>>, <<{"region"}, {"unit"}>>,
                  <<{}, {"unit"}>>, <<{}, {"region"}>>, <<{}, {}>>}}

=============================================================================
