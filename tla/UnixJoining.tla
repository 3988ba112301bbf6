---------------------------- MODULE UnixJoining -----------------------------
(***************************************************************************)
(* Joining over Unix sockets: the server's socket takes join messages as   *)
(* datagrams, and the server connects to the socket that a message names.  *)
(***************************************************************************)
EXTENDS Joining

\* One message is read from the Unix socket
ReadUnix ==
    /\ Serving("accept")
    /\ \/ /\ backlog = <<>>
          /\ NothingTaken
          /\ UNCHANGED <<serverEnd, up, down, resets, clients, backlog, state>>
       \/ LET c == Head(backlog)
              taking == AllTaken(Arrived(up[c], Len(up[c].wire)))
          IN  /\ backlog # <<>>
              /\ backlog' = Tail(backlog)
              /\ ServerTakes(c, taking.messages)
              /\ AddClient(c, [up EXCEPT ![c] = taking.stream])
    /\ phase' = "new"
    /\ UNCHANGED <<interface, clientEnd, it, todo, newConnections>>

UnixNext == Common \/ ReadUnix
UnixSpec == Init /\ [][UnixNext]_vars
=============================================================================
