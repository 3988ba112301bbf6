--------------------------- MODULE MCFusekiServer ---------------------------
(***************************************************************************)
(* Values for the constants of FusekiServer.  Each run takes the requests  *)
(* its question needs; all of them together would multiply for nothing.    *)
(***************************************************************************)
EXTENDS FusekiServer, TLC

CONSTANTS u1, u2, m1, m2

Req(s, t, v) == [setting |-> s, target |-> t, value |-> v]
Toggles(s) == {Req(s, c, v) : c \in ClientIds, v \in {On, Off}}
Assignments(ps) == {Req("player", c, p) : c \in ClientIds, p \in ps}

\* One neutral player that takes no clients and one that needs them
OnePlayer == (0 :> TRUE) @@ (1 :> FALSE)
TwoPlayers == (0 :> TRUE) @@ (1 :> FALSE) @@ (2 :> FALSE)

MCPlayMode == (m1 :> OnePlayer) @@ (m2 :> TwoPlayers)

\* Who is admin, everything that bears on starting a game, and changes of map
\* that replace the players under the clients
LobbyRequests ==
    {Req("admin", 0, Off), Req("admin", 1, On), Req("neveradmin", 0, On)}
        \cup {Req("neveradmin", c, Off) : c \in ClientIds}
        \cup Assignments({0, 1}) \cup {Req("ready", c, On) : c \in ClientIds}
        \cup {Req("ready", 0, Off), Req("observer", 1, On),
              Req("allowobservers", 0, On), Req("allowobservers", 0, Off),
              Req("universe", 0, u1), Req("map", 0, m1), Req("map", 0, m2),
              Req("maxclients", 2, 0), Req("player", 0, 2), Req("player", 1, 2),
              Req("paused", 0, On)}

\* A few of them, to follow what becomes of the server's obligations
ProgressRequests ==
    {Req("neveradmin", c, Off) : c \in ClientIds}
        \cup {Req("admin", 0, Off), Req("ready", 0, On),
              Req("player", 0, 1), Req("universe", 0, u1), Req("map", 0, m1)}
=============================================================================
