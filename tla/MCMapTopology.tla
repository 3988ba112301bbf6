--------------------------- MODULE MCMapTopology ---------------------------
(* A small map of each topology, for TLC. *)
EXTENDS MapTopology

MCLeft == -2
AllTopologies ==
    {"plane", "cylinder", "torus", "mobius", "klein", "crosscut"}
=============================================================================
