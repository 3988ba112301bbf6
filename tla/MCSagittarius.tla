--------------------------- MODULE MCSagittarius ----------------------------
(* Two ships; hit points in units of half a ship's. *)
EXTENDS Sagittarius

MCMaxHitPoints == [ship |-> 2, torp |-> 1]
MCCorpse == [ship |-> NoKind, torp |-> NoKind]
MCWeapons == [ship |-> <<"laser", "torpedo">>, torp |-> <<>>]
MCInitialUnits == <<"ship", "ship">>
=============================================================================
