---------------------------- MODULE MCWorldTick -----------------------------
(***************************************************************************)
(* The universe of the test game in small, for TLC.  Hit points are in     *)
(* units of the damage of an explosion; the universe of the tests has no   *)
(* corpses, a wreck is added so that UnitCore::kill takes both its ways.   *)
(***************************************************************************)
EXTENDS TestGame

MCKinds == {"commander", "grunt", "wreck"}
MCMaxHitPoints == [commander |-> 2, grunt |-> 4, wreck |-> 1]
MCCorpse == [commander |-> NoKind, grunt |-> "wreck", wreck |-> NoKind]
MCWeapons == [commander |-> <<"cannon", "paralyzer", "creater", "builder">>,
              grunt |-> <<"paralyzer">>, wreck |-> <<>>]
MCCreates == [creater |-> "grunt"]
MCInitialUnits == <<"commander", "grunt">>
=============================================================================
