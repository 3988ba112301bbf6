------------------------------ MODULE GameLoop ------------------------------
(***************************************************************************)
(* The loop of Server::serve while a game is on, for the clients of one    *)
(* player: orders come in, CompleteWorld::incrementGameState makes a tick  *)
(* of them, updates go out to every client, and tedomari applies what      *)
(* arrives.  A client may go away at any time, and is removed when that is *)
(* found out; either loop over the clients then starts again.              *)
(***************************************************************************)
EXTENDS ClientGame, FiniteSets

CONSTANTS
    Clients,
    Units,              \* ids, given out in order from 0
    Velocities,         \* all those between a least and a greatest, 0 among them
    Acceleration,       \* by how much a velocity may change in a tick
    MaxTime,            \* bound: the ticks of a game
    MaxEvents,          \* bound: orders, creations and accidents in a game
    MaxGone,            \* bound: clients that go away
    Room                \* updates the kernel holds; a send waits for room

ASSUME GameLoopAssumption ==
    /\ IsFiniteSet(Clients)
    /\ {Width, MaxTime, Room} \subseteq Nat \ {0}
    /\ {Acceleration, MaxEvents, MaxGone} \subseteq Nat
    /\ Units \subseteq Nat /\ 0 \in Units /\ Velocities \subseteq Int /\ 0 \in Velocities
    /\ \A v, w \in Velocities : v .. w \subseteq Velocities
    /\ NoTarget \notin Velocities

VARIABLES
    phase,              \* "messages", "orders" or "flush"
    toVisit,            \* the clients the current loop has not come to
    clients,            \* Server::clients, and Player::clients of their player
    orderQueue,         \* RemoteClient::orderMessageQueue
    outgoing,           \* RemoteClient::outgoingUpdateQueue
    timeNow, units, nextUnitId,
    toServer, toClient, \* messages on the way
    gone,               \* clients whose tedomari has left or died
    views,              \* what each client has made of what it was sent
    events,             \* how many events there were, for the bound
    log                 \* history: the units as each tick left them

serverVars == <<phase, toVisit, clients, orderQueue, outgoing>>
worldVars == <<timeNow, units, nextUnitId, events, log>>
vars == <<serverVars, worldVars, toServer, toClient, gone, views>>

Positions == 0 .. Width - 1
Status == [position : Positions, velocity : Velocities]
Targets == Velocities \cup {NoTarget}
Unit == [position : Positions, velocity : Velocities, target : Targets]
Order == [unit : Units, velocity : Velocities]
Update ==
    [type : {"added", "altered"}, unit : Units, status : Status]
        \cup [type : {"accepted"}, unit : Units, velocity : Velocities]
        \cup [type : {"removed"}, unit : Units]

StatusOf(unit) == [position |-> unit.position, velocity |-> unit.velocity]
Added(u, unit) == [type |-> "added", unit |-> u, status |-> StatusOf(unit)]
Altered(u, unit) == [type |-> "altered", unit |-> u, status |-> StatusOf(unit)]
Removed(u) == [type |-> "removed", unit |-> u]
Accepted(order) == [type |-> "accepted", unit |-> order.unit, velocity |-> order.velocity]

\* One unit stands on the map at the start, and the clients have been told
FirstUnit == [position |-> 0, velocity |-> 0, target |-> NoTarget]

Init ==
    /\ phase = "messages" /\ toVisit = Clients
    /\ clients = Clients
    /\ orderQueue = [c \in Clients |-> <<>>]
    /\ outgoing = [c \in Clients |-> <<Added(0, FirstUnit)>>]
    /\ timeNow = 0 /\ units = [u \in {0} |-> FirstUnit] /\ nextUnitId = 1
    /\ toServer = [c \in Clients |-> <<>>] /\ toClient = [c \in Clients |-> <<>>]
    /\ gone = {} /\ views = [c \in Clients |-> StartOfGame]
    /\ events = 0 /\ log = <<>>

-----------------------------------------------------------------------------
(* handleClientMessages *)

\* removeClient: the destructor detaches the client and takes its queues with it
RemoveClient(c) ==
    /\ clients' = clients \ {c}
    /\ orderQueue' = [orderQueue EXCEPT ![c] = <<>>]
    /\ outgoing' = [outgoing EXCEPT ![c] = <<>>]
    /\ toVisit' = clients \ {c}

\* flushIncoming and a turn of the loop over its messages
TakeOrders(c) ==
    /\ phase = "messages" /\ c \in toVisit
    /\ orderQueue' = [orderQueue EXCEPT ![c] = @ \o toServer[c]]
    /\ toServer' = [toServer EXCEPT ![c] = <<>>]
    /\ toVisit' = toVisit \ {c}
    /\ UNCHANGED <<phase, clients, outgoing, worldVars, toClient, gone, views>>

\* The client's leave message is read, or its socket fails
ClientLeaves(c) ==
    /\ phase = "messages" /\ c \in toVisit /\ c \in gone
    /\ RemoveClient(c)
    /\ UNCHANGED <<phase, worldVars, toServer, toClient, gone, views>>

MessagesDone ==
    /\ phase = "messages" /\ toVisit = {} /\ timeNow < MaxTime
    /\ phase' = "orders" /\ toVisit' = clients
    /\ UNCHANGED <<clients, orderQueue, outgoing, worldVars, toServer, toClient, gone, views>>

-----------------------------------------------------------------------------
(* incrementGameState *)

\* informClients for a sequence of updates
Inform(updates) ==
    outgoing' = [c \in Clients |->
                   IF c \in clients THEN outgoing[c] \o updates ELSE outgoing[c]]

\* An order at the front of a queue is accepted, and the update that tells of it
\* is the last; an order for a unit that is gone is ignored
Obeyed(world, order) ==
    IF order.unit \notin DOMAIN world.units THEN world
    ELSE [units |-> [world.units EXCEPT ![order.unit].target = order.velocity],
          updates |-> Append(world.updates, Accepted(order))]

\* What the orders in a queue make of the units, and the updates that tell of it
Carried(queue) ==
    LET after[i \in 0 .. Len(queue)] ==
            IF i = 0 THEN [units |-> units, updates |-> <<>>]
            ELSE Obeyed(after[i - 1], queue[i])
    IN  after[Len(queue)]

\* Mutant of ApplyOrders: only the client that gave an order hears of it
ApplyOrdersInSecret(c) ==
    /\ phase = "orders" /\ c \in toVisit
    /\ LET world == Carried(orderQueue[c])
       IN  /\ units' = world.units
           /\ outgoing' = [outgoing EXCEPT ![c] = @ \o world.updates]
    /\ orderQueue' = [orderQueue EXCEPT ![c] = <<>>]
    /\ toVisit' = toVisit \ {c}
    /\ UNCHANGED <<phase, clients, timeNow, nextUnitId, events, log, toServer,
                   toClient, gone, views>>

\* A turn of applyIncomingOrders: all the orders of a client
ApplyOrders(c) ==
    /\ phase = "orders" /\ c \in toVisit
    /\ LET world == Carried(orderQueue[c])
       IN  /\ units' = world.units
           /\ Inform(world.updates)
    /\ orderQueue' = [orderQueue EXCEPT ![c] = <<>>]
    /\ toVisit' = toVisit \ {c}
    /\ UNCHANGED <<phase, clients, timeNow, nextUnitId, events, log, toServer,
                   toClient, gone, views>>

\* A unit may be created, for instance by a weapon, at some velocity
Newborns ==
    {NoUnits} \cup
    [{nextUnitId} \cap Units -> [position : {0}, velocity : Velocities, target : {NoTarget}]]

\* What the rest of the world may do to a unit in a tick: nothing, stop it (a
\* collision), change its status in some other way, or kill it
Fates(us) ==
    UNION {{[u \in us |-> IF u \in DOMAIN f THEN f[u] ELSE "none"] :
              f \in [struck -> {"collides", "hit", "dies"}]} :
           struck \in {s \in SUBSET us : Cardinality(s) <= MaxEvents - events}}

\* GroundMotion::incrementState and the move
Driven(unit, fate) ==
    LET change == IF unit.target = NoTarget THEN 0 ELSE unit.target - unit.velocity
        within == IF change > Acceleration THEN Acceleration
                  ELSE IF change < -Acceleration THEN -Acceleration ELSE change
        velocity == IF fate = "collides" THEN 0 ELSE unit.velocity + within
    IN  [unit EXCEPT !.velocity = velocity, !.position = Moved(@, velocity)]

\* late: those created when the loop over the units has ended
Tick ==
    /\ phase = "orders" /\ toVisit = {}
    /\ timeNow' = timeNow + 1
    /\ \E newborn \in Newborns : \E late \in SUBSET DOMAIN newborn :
       LET all == [u \in DOMAIN units \cup DOMAIN newborn |->
                     IF u \in DOMAIN units THEN units[u] ELSE newborn[u]]
       IN  \E fate \in Fates(DOMAIN all) :
           LET after == [u \in DOMAIN all |->
                            IF u \in late THEN all[u] ELSE Driven(all[u], fate[u])]
               died == {u \in DOMAIN all : fate[u] = "dies"}
               struck == {u \in DOMAIN all : fate[u] # "none"}
               dirty == {u \in DOMAIN all \ died :
                            fate[u] = "hit" \/ after[u].velocity # all[u].velocity}
           IN  /\ events' = events + Cardinality(DOMAIN newborn) + Cardinality(struck)
               /\ events' <= MaxEvents
               /\ nextUnitId' = nextUnitId + Cardinality(DOMAIN newborn)
               /\ units' = Restrict(after, DOMAIN all \ died)
               /\ Inform(SetToSeq({Added(u, all[u]) : u \in DOMAIN newborn})
                         \o SetToSeq({Removed(u) : u \in died})
                         \o SetToSeq({Altered(u, after[u]) : u \in dirty}))
    /\ log' = Append(log, units')
    /\ phase' = "flush" /\ toVisit' = clients
    /\ UNCHANGED <<clients, orderQueue, toServer, toClient, gone, views>>

-----------------------------------------------------------------------------
(* The updates go out *)

\* Mutant of FlushOutgoing: the queue is not swapped out
FlushKeepsQueue(c) ==
    /\ phase = "flush" /\ c \in toVisit /\ Len(toClient[c]) < Room
    /\ toClient' = [toClient EXCEPT ![c] =
                      IF c \in gone THEN @
                      ELSE Append(@, [time |-> timeNow, updates |-> outgoing[c]])]
    /\ toVisit' = toVisit \ {c}
    /\ UNCHANGED <<phase, clients, outgoing, orderQueue, worldVars, toServer, gone, views>>

\* flushOutgoing: constructing the message empties the queue
FlushOutgoing(c) ==
    /\ phase = "flush" /\ c \in toVisit /\ Len(toClient[c]) < Room
    /\ toClient' = [toClient EXCEPT ![c] =
                      IF c \in gone THEN @
                      ELSE Append(@, [time |-> timeNow, updates |-> outgoing[c]])]
    /\ outgoing' = [outgoing EXCEPT ![c] = <<>>]
    /\ toVisit' = toVisit \ {c}
    /\ UNCHANGED <<phase, clients, orderQueue, worldVars, toServer, gone, views>>

\* Mutant of FlushThrows: the loop starts again without removing the client
FlushRetries(c) ==
    /\ phase = "flush" /\ c \in toVisit /\ c \in gone
    /\ toVisit' = clients
    /\ UNCHANGED <<phase, clients, orderQueue, outgoing, worldVars, toServer, toClient,
                   gone, views>>

\* The send fails; those who have their updates get another, empty message
FlushThrows(c) ==
    /\ phase = "flush" /\ c \in toVisit /\ c \in gone
    /\ RemoveClient(c)
    /\ UNCHANGED <<phase, worldVars, toServer, toClient, gone, views>>

FlushDone ==
    /\ phase = "flush" /\ toVisit = {}
    /\ phase' = "messages" /\ toVisit' = clients
    /\ UNCHANGED <<clients, orderQueue, outgoing, worldVars, toServer,
                   toClient, gone, views>>

-----------------------------------------------------------------------------
(* The clients *)

\* Game::order, for a unit the client knows; a tick must be left to take it
GiveOrder(c) ==
    /\ c \notin gone /\ timeNow + 1 < MaxTime
    /\ events < MaxEvents /\ events' = events + 1
    /\ \E u \in DOMAIN views[c].units, v \in Velocities :
         toServer' = [toServer EXCEPT ![c] = Append(@, [unit |-> u, velocity |-> v])]
    /\ UNCHANGED <<serverVars, timeNow, units, nextUnitId, log, toClient, gone, views>>

ReadUpdates(c) ==
    /\ c \notin gone /\ toClient[c] # <<>>
    /\ views' = [views EXCEPT ![c] = PushUpdates(@, Head(toClient[c]))]
    /\ toClient' = [toClient EXCEPT ![c] = Tail(@)]
    /\ UNCHANGED <<serverVars, worldVars, toServer, gone>>

GoAway(c) ==
    /\ c \notin gone /\ Cardinality(gone) < MaxGone
    /\ gone' = gone \cup {c}
    /\ toClient' = [toClient EXCEPT ![c] = <<>>]
    /\ UNCHANGED <<serverVars, worldVars, toServer, views>>

ServerStep ==
    \/ MessagesDone \/ Tick \/ FlushDone
    \/ \E c \in Clients :
         \/ TakeOrders(c) \/ ClientLeaves(c) \/ ApplyOrders(c)
         \/ FlushOutgoing(c) \/ FlushThrows(c)

Next == ServerStep \/ \E c \in Clients : GiveOrder(c) \/ ReadUpdates(c) \/ GoAway(c)

\* The server is one thread, and a client reads as part of its main loop.  Nobody
\* has to give orders or to leave, and nobody's leaving has to be noticed.
Spec ==
    /\ Init /\ [][Next]_vars
    /\ WF_vars(ServerStep) /\ \A c \in Clients : WF_vars(ReadUpdates(c))

-----------------------------------------------------------------------------
(* Properties *)

\* The types of the variables; no view is ever mistaken
TypeOK ==
    /\ phase \in {"messages", "orders", "flush"}
    /\ toVisit \subseteq clients /\ clients \subseteq Clients /\ gone \subseteq Clients
    /\ orderQueue \in [Clients -> Seq(Order)] /\ toServer \in [Clients -> Seq(Order)]
    /\ outgoing \in [Clients -> Seq(Update)]
    /\ toClient \in [Clients -> Seq([time : 0 .. MaxTime, updates : Seq(Update)])]
    /\ timeNow \in 0 .. MaxTime /\ nextUnitId \in Nat
    /\ DOMAIN units \subseteq Units /\ Range(units) \subseteq Unit
    /\ \A c \in Clients :
         /\ views[c].timeNow \in 0 .. timeNow /\ ~views[c].mistaken
         /\ DOMAIN views[c].units \subseteq Units

\* The history at a client's clock, once there is one
AtClock(c, u) == log[views[c].timeNow][u]

\* A unit is where the server had it at the client's time, or where it had been
\* one move before: what the server does not send, because the client can work
\* it out (the dirty flag is set by a change of velocity, not by moving), never
\* adds up to more than one move.
AtMostOneMoveBehind ==
    \A c \in Clients : \A u \in DOMAIN views[c].units :
      views[c].units[u].position \in
        {AtClock(c, u).position, Moved(AtClock(c, u).position, -AtClock(c, u).velocity)}

\* A unit is where the server had it at the client's time: what endTick is for
\* ("there are certain things that the server assumes the client can figure out
\* for itself", partialworld.cpp).
FollowsTheServer ==
    \A c \in Clients : \A u \in DOMAIN views[c].units :
      views[c].units[u].position = AtClock(c, u).position

\* Orders are carried out in order, each once; every client sees every tick as
\* it was.  SharedGame, of the units' existence, velocities and orders, whoever
\* else leaves while the updates go out.
Told(some) ==
    [u \in DOMAIN some |-> [velocity |-> some[u].velocity, target |-> some[u].target]]
Goals(some) == [u \in DOMAIN some |-> some[u].target]
Shared == INSTANCE SharedGame WITH
    Members <- Clients, Orders <- Order, present <- clients,
    submitted <- [c \in Clients |->
                    IF c \in clients THEN orderQueue[c] \o toServer[c] ELSE <<>>],
    goals <- Goals(units), log <- [i \in DOMAIN log |-> Told(log[i])],
    shown <- [c \in Clients |->
                [tick |-> views[c].timeNow, units |-> Told(views[c].units)]]
ImplementsSharedGame == Shared!Spec

\* An order of a client that stays is taken by the world, and every client that
\* stays comes to see the world that has taken it, whoever leaves and whenever
\* the loops start again.
UpToDate == \A c \in Clients : c \in gone \/ views[c].timeNow = timeNow
OrdersTakeEffect ==
    \A c \in Clients :
      c \in clients /\ orderQueue[c] \o toServer[c] # <<>> ~>
        c \in gone \/ (orderQueue[c] \o toServer[c] = <<>> /\ UpToDate)
=============================================================================
