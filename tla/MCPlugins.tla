----------------------------- MODULE MCPlugins ------------------------------
(***************************************************************************)
(* Plugins of every sort, for TLC: two that can be asked for by a part of  *)
(* their names, one of them that will not be loaded, and a part that is    *)
(* ambiguous.                                                              *)
(***************************************************************************)
EXTENDS Plugins

MCMatches ==
    [recorder |-> {"recorder"}, rec |-> {"recorder"}, replay |-> {"replay"},
     shy |-> {"shy"}, broken |-> {"broken"}, r |-> {"recorder", "replay"}]
MCNames == DOMAIN MCMatches
=============================================================================
