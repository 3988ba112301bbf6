----------------------------- MODULE MCGameLoop -----------------------------
(* Two clients of a player and up to two units, for TLC. *)
EXTENDS GameLoop

MCClients == {"a", "b"}
=============================================================================
