------------------------------ MODULE Joining -------------------------------
(***************************************************************************)
(* How tedomari's ServerInterface joins and leaves a server, and what the  *)
(* server's loop does with connections, over TCP or over Unix sockets.     *)
(* Both sides wait five seconds at most: a client for the answer, the      *)
(* server for the join message of a new connection.  The timers run out at *)
(* any time after they are set, since either side, and the network, may be *)
(* arbitrarily slow.                                                       *)
(***************************************************************************)
EXTENDS TCPSocket, FiniteSets, FiniteSetsExt, Functions

CONSTANTS
    Interfaces,       \* ServerInterfaces, of several tedomaris
    Connections,      \* bound: connections that may ever be made, numbered
    ClientIds,        \* the valid ids, integers
    Nothing

ASSUME JoiningAssumption ==
    /\ IsFiniteSet(ClientIds) /\ ClientIds \subseteq Byte
    /\ Base > 7       \* the seven types of messages below are bytes
    /\ Connections \subseteq Nat
    /\ Nothing \notin Connections \cup ClientIds

VARIABLES
    stage,            \* of an interface: idle, waiting, joined, failed or crashed
    socket,           \* its incomingSocket
    id,
    clientEnd,        \* the client's end of a connection: none, open or closed
    serverEnd,
    up, down,         \* the streams to the server and to the client
    serverReset,      \* a reset for the server's end: no, coming or here
    clientReset,
    state,            \* of serve(): serving, ended, or died by an exception
    phase,            \* the part of its loop that is next
    it,               \* the iterator over newConnections
    todo,             \* the clients handleClientMessages has still to visit
    backlog,          \* connections not accepted, join messages of Unix sockets
    newConnections,   \* [connection, late]
    clients,          \* id -> connection of the RemoteClient
    taken             \* history: what the last step received

interface == <<stage, socket, id>>
server == <<state, phase, it, todo, backlog, newConnections, clients>>
ends == <<clientEnd, serverEnd>>
resets == <<serverReset, clientReset>>
vars == <<interface, ends, up, down, resets, server, taken>>

-----------------------------------------------------------------------------
(* Messages, as far as they matter here *)
Join == <<1>>
Accept(n) == <<2, n>>
Reject == <<3>>
GetSetting == <<4>>
NotifySetting == <<5>>
Leave == <<6>>
Kick == <<7>>
Messages == {Join, Reject, GetSetting, NotifySetting, Leave, Kick} \cup {Accept(n) : n \in ClientIds}

Taken(side, c, messages) == [by |-> side, connection |-> c, messages |-> messages]
NothingTaken == taken' = Taken(Nothing, Nothing, <<>>)
ServerTakes(c, messages) == taken' = Taken("server", c, messages)
ClientTakes(c, messages) == taken' = Taken("client", c, messages)

\* Function f with value x for arguments S
With(f, S, x) == [c \in DOMAIN f |-> IF c \in S THEN x ELSE f[c]]

-----------------------------------------------------------------------------
(***************************************************************************)
(* The kernel: an end that is closed with bytes unread, or that bytes      *)
(* arrive at after it was closed, resets the other.  A reset that has      *)
(* arrived discards what was not read.  Closing otherwise is not noticed:  *)
(* recv returns 0, which receive takes for nothing new.  A Unix socket     *)
(* knows no resets; sending to one that is gone fails.                     *)
(***************************************************************************)
Unread(stream) == stream.wire # <<>> /\ ~Datagrams

\* A send of the server fails, and one of the client does
ServerSendFails(c) == IF Datagrams THEN clientEnd[c] = "closed" ELSE serverReset[c] = "here"
ClientSendFails(c) == IF Datagrams THEN serverEnd[c] = "closed" ELSE clientReset[c] = "here"

\* The streams and resets after messages are sent to an end that may be closed
DownWith(c, messages) ==
    IF clientEnd[c] = "closed" THEN down ELSE [down EXCEPT ![c] = Sent(down[c], messages)]
ServerBounced(c, messages) ==
    IF clientEnd[c] = "closed" /\ ~Datagrams /\ messages # <<>>
    THEN [serverReset EXCEPT ![c] = "coming"] ELSE serverReset
UpWith(c, messages) ==
    IF serverEnd[c] = "closed" THEN up ELSE [up EXCEPT ![c] = Sent(up[c], messages)]
ClientBounced(c, messages) ==
    IF serverEnd[c] = "closed" /\ clientReset[c] = "no" /\ ~Datagrams /\ messages # <<>>
    THEN [clientReset EXCEPT ![c] = "coming"] ELSE clientReset

\* The server's ends of connections cs are closed, in streams as they are then
ServerCloses(cs, streams) ==
    /\ serverEnd' = With(serverEnd, cs, "closed")
    /\ up' = With(streams, cs, NoStream)
    /\ serverReset' = With(serverReset, cs, "no")
    /\ clientReset' = [c \in Connections |->
          IF c \in cs /\ Unread(streams[c]) /\ clientEnd[c] = "open" /\ clientReset[c] = "no"
          THEN "coming" ELSE clientReset[c]]

\* A reset arrives
ResetArrives(c) ==
    /\ \/ /\ serverReset[c] = "coming"
          /\ serverReset' = [serverReset EXCEPT ![c] = "here"]
          /\ up' = [up EXCEPT ![c].wire = <<>>]
          /\ UNCHANGED <<clientReset, down>>
       \/ /\ clientReset[c] = "coming"
          /\ clientReset' = [clientReset EXCEPT ![c] = "here"]
          /\ down' = [down EXCEPT ![c].wire = <<>>]
          /\ UNCHANGED <<serverReset, up>>
    /\ NothingTaken
    /\ UNCHANGED <<interface, ends, server>>

-----------------------------------------------------------------------------
(***************************************************************************)
(* tedomari                                                                *)
(***************************************************************************)
\* The interface closes its socket, sending last messages; closing a socket that
\* has unread bytes resets the other end
CloseEnd(c, last) ==
    /\ clientEnd' = [clientEnd EXCEPT ![c] = "closed"]
    /\ down' = [down EXCEPT ![c] = NoStream]
    /\ up' = UpWith(c, last)
    /\ clientReset' = [clientReset EXCEPT ![c] = "no"]
    /\ serverReset' = IF Unread(down[c]) /\ serverEnd[c] # "closed" /\ serverReset[c] = "no"
                      THEN [serverReset EXCEPT ![c] = "coming"] ELSE serverReset
    /\ UNCHANGED serverEnd
CloseSocket(i, last) ==
    /\ CloseEnd(socket[i], last)
    /\ socket' = [socket EXCEPT ![i] = Nothing]

\* ServerInterface::join: a connection, or a socket of its own, and the join
\* message.  The assertion that there is no socket yet fails after leave, which
\* keeps the old one, so that a new interface is needed to join again.
Unused == {c \in Connections : clientEnd[c] = "none"}
Connect(i) == LET c == Min(Unused) IN
    /\ stage[i] = "idle" /\ socket[i] = Nothing
    /\ state = "serving" /\ Unused # {}
    /\ socket' = [socket EXCEPT ![i] = c]
    /\ backlog' = Append(backlog, c)
    /\ NothingTaken
    /\ UNCHANGED <<id, serverEnd, down, resets, state, phase, it, todo, newConnections, clients>>
StartJoin(i) == LET c == Min(Unused) IN
    /\ Connect(i)
    /\ stage' = [stage EXCEPT ![i] = "waiting"]
    /\ clientEnd' = [clientEnd EXCEPT ![c] = "open"]
    /\ up' = [up EXCEPT ![c] = Sent(NoStream, <<Join>>)]

\* tedomari is killed before it has sent its join message, or later; its socket
\* remains known, but is closed
CrashConnecting(i) == LET c == Min(Unused) IN
    /\ Connect(i)
    /\ stage' = [stage EXCEPT ![i] = "crashed"]
    /\ clientEnd' = [clientEnd EXCEPT ![c] = "closed"]
    /\ UNCHANGED up

\* An exception that nobody catches ends the process, which closes its sockets
Fail(i) ==
    /\ stage' = [stage EXCEPT ![i] = "failed"]
    /\ CloseSocket(i, <<>>)
    /\ NothingTaken
    /\ UNCHANGED <<id, server>>

\* join waits for its answer: receive throws, or finds a message.  After an
\* acceptance the settings are set up, of which one request stands for all.
Answer(i) == LET c == socket[i] IN
    /\ stage[i] = "waiting"
    /\ \/ clientReset[c] = "here" /\ Fail(i)
       \/ /\ clientReset[c] # "here"
          /\ \E n \in Arrivals(down[c]) :
                LET taking == OneTaken(Arrived(down[c], n))
                    message == IF taking.messages = <<>> THEN <<0>> ELSE taking.messages[1]
                IN  \/ /\ taking.messages = <<>> /\ n > 0
                       /\ down' = [down EXCEPT ![c] = taking.stream]
                       /\ NothingTaken
                       /\ UNCHANGED <<interface, ends, up, resets, server>>
                    \/ /\ Head(message) = 2
                       /\ IF ClientSendFails(c) THEN Fail(i)
                          ELSE /\ stage' = [stage EXCEPT ![i] = "joined"]
                               /\ id' = [id EXCEPT ![i] = message[2]]
                               /\ down' = [down EXCEPT ![c] = taking.stream]
                               /\ up' = UpWith(c, <<GetSetting>>)
                               /\ clientReset' = ClientBounced(c, <<GetSetting>>)
                               /\ ClientTakes(c, taking.messages)
                               /\ UNCHANGED <<socket, ends, serverReset, server>>
                    \/ /\ taking.messages # <<>> /\ Head(message) # 2
                       /\ stage' = [stage EXCEPT ![i] = "idle"]
                       /\ CloseSocket(i, <<>>)
                       /\ ClientTakes(c, taking.messages)
                       /\ UNCHANGED <<id, server>>

\* Five seconds have passed since the join message
TimeOut(i) ==
    /\ stage[i] = "waiting" /\ clientReset[socket[i]] # "here"
    /\ stage' = [stage EXCEPT ![i] = "idle"]
    /\ CloseSocket(i, <<>>)
    /\ NothingTaken
    /\ UNCHANGED <<id, server>>

\* flushIncoming of an interface that has joined: a kick is the end of it
Flush(i) == LET c == socket[i] IN
    /\ stage[i] = "joined"
    /\ \/ clientReset[c] = "here" /\ Fail(i)
       \/ /\ clientReset[c] # "here"
          /\ \E n \in Arrivals(down[c]) :
                LET taking == OneTaken(Arrived(down[c], n))
                IN  /\ taking.stream # down[c]
                    /\ down' = [down EXCEPT ![c] = taking.stream]
                    /\ stage' = IF taking.messages = <<Kick>>
                                THEN [stage EXCEPT ![i] = "idle"] ELSE stage
                    /\ ClientTakes(c, taking.messages)
          /\ UNCHANGED <<socket, id, ends, up, resets, server>>

\* leave, by the user's command; an error of the send is caught
LeaveServer(i) == LET c == socket[i] IN
    /\ stage[i] = "joined"
    /\ stage' = [stage EXCEPT ![i] = "idle"]
    /\ IF ClientSendFails(c) THEN UNCHANGED <<up, clientReset>>
       ELSE up' = UpWith(c, <<Leave>>) /\ clientReset' = ClientBounced(c, <<Leave>>)
    /\ NothingTaken
    /\ UNCHANGED <<socket, id, ends, down, serverReset, server>>

\* reconnect, or the end of tedomari: the interface leaves and is destroyed
Reconnect(i) ==
    /\ stage[i] \in {"idle", "joined"} /\ socket[i] # Nothing
    /\ stage' = [stage EXCEPT ![i] = "idle"]
    /\ CloseSocket(i, IF stage[i] = "joined" /\ ~ClientSendFails(socket[i])
                      THEN <<Leave>> ELSE <<>>)
    /\ NothingTaken
    /\ UNCHANGED <<id, server>>

Crash(i) ==
    /\ stage[i] \in {"waiting", "joined"}
    /\ stage' = [stage EXCEPT ![i] = "crashed"]
    /\ CloseEnd(socket[i], <<>>)
    /\ NothingTaken
    /\ UNCHANGED <<socket, id, server>>

-----------------------------------------------------------------------------
(***************************************************************************)
(* fuseki                                                                  *)
(***************************************************************************)
Serving(part) == state = "serving" /\ phase = part

\* An exception that nobody catches ends the process, which closes its sockets
Die(streams) ==
    /\ state' = "died"
    /\ ServerCloses({c \in Connections : clientEnd[c] # "none"}, streams)
    /\ UNCHANGED <<clients, down>>

\* Mutants: an id in use is handed out, or the one that stands for none
AnyIds == ClientIds
FreeOrInvalidIds == (ClientIds \cup {Max(ClientIds) + 1}) \ DOMAIN clients
\* getFreeClientId returns the least
FreeIds == ClientIds \ DOMAIN clients

\* Server::addClient, for a connection whose join message was just taken from
\* its stream.  Over Unix sockets the server first connects to the client's.
AddClient(c, streams) ==
    \/ ServerSendFails(c) /\ Die(streams)
    \/ /\ ~ServerSendFails(c) /\ FreeIds = {}
       /\ down' = DownWith(c, <<Reject>>)
       /\ ServerCloses({c}, streams)
       /\ UNCHANGED <<clients, state>>
    \/ LET n == Min(FreeIds) IN
       /\ ~ServerSendFails(c) /\ FreeIds # {}
       /\ clients' = [m \in DOMAIN clients \cup {n} |-> IF m = n THEN c ELSE clients[m]]
       /\ down' = DownWith(c, <<Accept(n)>>)
       /\ serverReset' = ServerBounced(c, <<Accept(n)>>)
       /\ serverEnd' = [serverEnd EXCEPT ![c] = "open"]
       /\ up' = streams
       /\ UNCHANGED <<clientReset, state>>

\* All connections that wait are accepted
AcceptAll ==
    /\ Serving("accept")
    /\ newConnections' = newConnections \o
          [k \in DOMAIN backlog |-> [connection |-> backlog[k], late |-> FALSE]]
    /\ serverEnd' = With(serverEnd, Range(backlog), "open")
    /\ backlog' = <<>>
    /\ phase' = "new"
    /\ NothingTaken
    /\ UNCHANGED <<interface, clientEnd, up, down, resets, state, it, todo, clients>>

\* serve looks at a connection that has not joined; an exception of its receive
\* is not caught
CheckNew ==
    /\ Serving("new") /\ it \in DOMAIN newConnections
    /\ LET c == newConnections[it].connection
           Erase == newConnections' = RemoveAt(newConnections, it) /\ UNCHANGED it
       IN  \/ /\ serverReset[c] = "here"
              /\ Die(up)
              /\ NothingTaken
              /\ UNCHANGED <<it, newConnections>>
           \/ /\ serverReset[c] # "here"
              /\ \E n \in Arrivals(up[c]) :
                    LET taking == OneTaken(Arrived(up[c], n))
                        streams == [up EXCEPT ![c] = taking.stream]
                    IN  \/ /\ taking.messages # <<>>
                           /\ ServerTakes(c, taking.messages)
                           /\ AddClient(c, streams)
                           /\ Erase
                        \/ /\ taking.messages = <<>> /\ newConnections[it].late
                           /\ NothingTaken
                           /\ ServerCloses({c}, streams)
                           /\ Erase
                           /\ UNCHANGED <<down, clients, state>>
                        \/ /\ taking.messages = <<>> /\ ~newConnections[it].late
                           /\ NothingTaken
                           /\ up' = streams
                           /\ it' = it + 1
                           /\ UNCHANGED <<serverEnd, resets, down, newConnections, clients, state>>
    /\ UNCHANGED <<interface, clientEnd, phase, todo, backlog>>

\* Five seconds have passed since a connection was accepted
FiveSecondsPass == \E k \in DOMAIN newConnections :
    /\ state = "serving" /\ ~newConnections[k].late
    /\ newConnections' = [newConnections EXCEPT ![k].late = TRUE]
    /\ NothingTaken
    /\ UNCHANGED <<interface, ends, up, down, resets, state, phase, it, todo, backlog, clients>>

StartClients ==
    /\ Serving("new") /\ it \notin DOMAIN newConnections
    /\ phase' = "clients" /\ it' = 1 /\ todo' = DOMAIN clients
    /\ NothingTaken
    /\ UNCHANGED <<interface, ends, up, down, resets, state, backlog, newConnections, clients>>

\* removeClient, after which handleClientMessages starts again
RemoveClient(n, streams) ==
    /\ clients' = [m \in DOMAIN clients \ {n} |-> clients[m]]
    /\ ServerCloses({clients[n]}, streams)
    /\ todo' = DOMAIN clients \ {n}

\* Mutant: handleClientMessages does not catch the exception
NotCaught(n, streams) == Die(streams) /\ UNCHANGED todo
OnSocketExn(n, streams) == RemoveClient(n, streams) /\ UNCHANGED <<state, down>>

\* Mutant: the exception of a receive that finds a reset is ignored
ResetIgnored(c) == FALSE
ReceiveFails(c) == serverReset[c] = "here"

\* handleClientMessages for a client of whose stream n bytes are there to be
\* read: all messages are received, and answered up to one that says it leaves
HandleClient(m, n) ==
    LET c == clients[m]
        taking == AllTaken(Arrived(up[c], n))
        streams == [up EXCEPT ![c] = taking.stream]
        requests == {k \in DOMAIN taking.messages : taking.messages[k] = GetSetting}
        answers == [j \in 1..Cardinality(requests) |-> NotifySetting]
    IN  /\ Serving("clients")
        /\ \/ /\ ReceiveFails(c)
              /\ OnSocketExn(m, up)
              /\ NothingTaken
           \/ /\ ~ReceiveFails(c)
              /\ answers # <<>> /\ ServerSendFails(c)
              /\ OnSocketExn(m, streams)
              /\ ServerTakes(c, taking.messages)
           \/ /\ ~ReceiveFails(c)
              /\ answers = <<>> \/ ~ServerSendFails(c)
              /\ down' = DownWith(c, answers)
              /\ UNCHANGED state
              /\ ServerTakes(c, taking.messages)
              /\ IF Contains(taking.messages, Leave)
                 THEN RemoveClient(m, streams)
                 ELSE /\ todo' = todo \ {m}
                      /\ up' = streams
                      /\ serverReset' = ServerBounced(c, answers)
                      /\ UNCHANGED <<clientReset, serverEnd, clients>>
        /\ UNCHANGED <<interface, clientEnd, phase, it, backlog, newConnections>>
HandleSomeClient == \E m \in todo : \E n \in Arrivals(up[clients[m]]) : HandleClient(m, n)

NextRound ==
    /\ Serving("clients") /\ todo = {}
    /\ phase' = "accept"
    /\ NothingTaken
    /\ UNCHANGED <<interface, ends, up, down, resets, state, it, todo, backlog, newConnections, clients>>

\* An interrupt ends the loop: all clients are kicked, exceptions are caught, and
\* the sockets are closed
Shutdown ==
    /\ Serving("clients") /\ todo = {}
    /\ state' = "ended"
    /\ down' = [c \in Connections |->
          IF c \in Range(clients) /\ ~ServerSendFails(c) THEN DownWith(c, <<Kick>>)[c] ELSE down[c]]
    /\ ServerCloses({c \in Connections : clientEnd[c] # "none"}, up)
    /\ clients' = <<>> /\ newConnections' = <<>> /\ backlog' = <<>>
    /\ NothingTaken
    /\ UNCHANGED <<interface, clientEnd, phase, it, todo>>

-----------------------------------------------------------------------------
Init ==
    /\ stage = [i \in Interfaces |-> "idle"]
    /\ socket = [i \in Interfaces |-> Nothing]
    /\ id = [i \in Interfaces |-> Nothing]
    /\ clientEnd = [c \in Connections |-> "none"] /\ serverEnd = [c \in Connections |-> "none"]
    /\ up = [c \in Connections |-> NoStream] /\ down = [c \in Connections |-> NoStream]
    /\ serverReset = [c \in Connections |-> "no"] /\ clientReset = [c \in Connections |-> "no"]
    /\ state = "serving" /\ phase = "accept" /\ it = 1 /\ todo = {}
    /\ backlog = <<>> /\ newConnections = <<>> /\ clients = <<>>
    /\ taken = Taken(Nothing, Nothing, <<>>)

\* The steps that TCP and Unix sockets have in common
Common ==
    \/ \E i \in Interfaces : StartJoin(i)
    \/ \E i \in Interfaces : Answer(i)
    \/ \E i \in Interfaces : TimeOut(i)
    \/ \E i \in Interfaces : Flush(i)
    \/ \E i \in Interfaces : LeaveServer(i)
    \/ \E i \in Interfaces : Reconnect(i)
    \/ \E i \in Interfaces : Crash(i)
    \/ CheckNew
    \/ StartClients
    \/ HandleSomeClient
    \/ NextRound
    \/ Shutdown

Next ==
    \/ Common
    \/ \E i \in Interfaces : CrashConnecting(i)
    \/ \E c \in Connections : ResetArrives(c)
    \/ AcceptAll
    \/ FiveSecondsPass

ServerStep ==
    AcceptAll \/ CheckNew \/ StartClients \/ HandleSomeClient \/ NextRound

\* The server's loop goes on, its timer runs, and the network delivers resets
\* and what was sent to a client's socket.  Of resets and bytes there are finitely
\* many, so that one condition does for all connections.
Delivery == \E m \in todo :
    LET there == Len(up[clients[m]].wire) IN there # 0 /\ HandleClient(m, there)
Fairness ==
    /\ WF_vars(ServerStep)
    /\ WF_vars(FiveSecondsPass)
    /\ WF_vars(\E c \in Connections : ResetArrives(c))
    /\ SF_vars(Delivery)

Spec == Init /\ [][Next]_vars /\ Fairness

-----------------------------------------------------------------------------
StreamType == [wire : Seq(Byte), buffer : Seq(Byte), promised : Seq(Messages)]
End == {"none", "open", "closed"}
ResetState == {"no", "coming", "here"}

\* Types: in particular a client is only ever given a valid id.
TypeOK ==
    /\ stage \in [Interfaces -> {"idle", "waiting", "joined", "failed", "crashed"}]
    /\ socket \in [Interfaces -> Connections \cup {Nothing}]
    /\ id \in [Interfaces -> ClientIds \cup {Nothing}]
    /\ clientEnd \in [Connections -> End] /\ serverEnd \in [Connections -> End]
    /\ up \in [Connections -> StreamType] /\ down \in [Connections -> StreamType]
    /\ serverReset \in [Connections -> ResetState]
    /\ clientReset \in [Connections -> ResetState]
    /\ state \in {"serving", "ended", "died"}
    /\ phase \in {"accept", "new", "clients"} /\ it \in 1..(Len(newConnections) + 1)
    /\ IsFiniteSet(todo) /\ todo \subseteq ClientIds
    /\ backlog \in Seq(Connections)
    /\ newConnections \in Seq([connection : Connections, late : BOOLEAN])
    /\ DOMAIN clients \subseteq ClientIds /\ Range(clients) \subseteq Connections
    /\ taken.messages \in Seq(Messages)

\* The channels that connections are meant to be: the server receives on one of
\* each, and the client on the other
Links == {"server", "client"} \X Connections
Stream(l) == IF l[1] = "server" THEN up[l[2]] ELSE down[l[2]]
Broken(l) == IF l[1] = "server" THEN serverEnd[l[2]] = "closed" \/ serverReset[l[2]] = "here"
             ELSE clientEnd[l[2]] = "closed" \/ clientReset[l[2]] = "here"
TakenFrom(l) == IF <<taken.by, taken.connection>> = l THEN taken.messages ELSE <<>>
Channel == INSTANCE Channels WITH
    queue <- [l \in Links |-> Stream(l).promised],
    taken <- [l \in Links |-> TakenFrom(l)],
    broken <- [l \in Links |-> Broken(l)]

\* What the framing and the buffers of the sockets are for: each direction of a
\* connection hands over the messages that were sent, whole, once and in order,
\* up to where it breaks, however the bytes are cut up on the way.
ImplementsChannels == Channel!Spec

\* A tedomari that thinks it has joined is known to the server under the id it
\* was told, over its own connection, until it leaves; if the server has closed
\* its end, tedomari will find out, by the kick or by a reset.
JoinAgreement == \A i \in Interfaces : stage[i] = "joined" =>
    LET c == socket[i]
    IN  IF serverEnd[c] = "open" THEN id[i] \in DOMAIN clients /\ clients[id[i]] = c
        ELSE Contains(Contents(down[c]), Kick) \/ clientReset[c] # "no"

\* serve: "This method will not return until either an entire game has taken
\* place or the server is interrupted".
ServesUntilOver == state # "died"

\* The server forgets whoever has gone: a connection that was accepted joins, is
\* turned away or is dropped, and the client of a tedomari that has gone, other
\* than by a crash, is removed.  It may have left, or have stopped waiting just
\* before the server accepted it.  Connections are finitely many and never used
\* again, so that each is forgotten if again and again all are.
Crashed(c) == \E i \in Interfaces : stage[i] = "crashed" /\ socket[i] = c
Ghost(c) == c \in Range(clients) /\ clientEnd[c] = "closed" /\ ~Crashed(c)
ForgetsTheGone == []<>(newConnections = <<>> /\ \A c \in Connections : ~Ghost(c))
=============================================================================
