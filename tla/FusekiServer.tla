---------------------------- MODULE FusekiServer ----------------------------
(***************************************************************************)
(* fuseki, the sakusen game server, from the opening of the lobby to the   *)
(* end of the game: Server::serve and everything it calls to admit and     *)
(* remove clients, to receive their messages, and to carry out the queue   *)
(* of pending server actions (settings changes, the choice of an admin,    *)
(* universe, map and players, and the decision to start the game).         *)
(*                                                                         *)
(* The server is one thread.  What interleaves with it is the arrival of   *)
(* join requests and messages, the failure of sockets, and the interrupt   *)
(* signal.  phase is the point serve() has reached; every other action is  *)
(* one step of the loop body, atomic because nothing in it waits.          *)
(***************************************************************************)
EXTENDS Integers, Sequences, FiniteSets

CONSTANTS
    MaxClients,  \* how many ClientIds are valid (255 in the code, a uint8)
    Universes,   \* the paths of the universes the resource search can find
    Maps,        \* the paths of the maps the resource search can find
    PlayMode,    \* the players of play mode 0 of each map: for each player
                 \* id from 0 up, whether its template has noClients set
    NDebug,      \* TRUE for the builds that compile assert() away
    Requests,    \* the settings changes clients may ask for
    MaxRequests, \* bound: client requests queued at the same time
    MaxBroken,   \* bound: clients whose socket is broken at the same time
    Signals,     \* whether the interrupt signal may come
    None         \* no universe, no map, no client being visited

ClientIds == 0 .. (MaxClients - 1)
PlayerIds == UNION {DOMAIN PlayMode[m] : m \in Maps}
On == 1
Off == 0

BoolSettings == {"admin", "neveradmin", "observer", "ready"}
\* Leaves that the tree lets an admin write but that no branch of
\* settingAlteringCallback handles
UnhandledSettings == {"paused", "mapplaymode", "countdown"}

(***************************************************************************)
(* A request is a ChangeSettingMessageData: which leaf, in the branch of   *)
(* which client or player (0 where the leaf has no such branch), and the   *)
(* value asked for.  Booleans are written 1 and 0, as BoolLeaf accepts.    *)
(***************************************************************************)
AllRequests ==
    [setting : BoolSettings, target : ClientIds, value : {On, Off}]
        \cup [setting : {"player"}, target : ClientIds, value : Nat]
        \cup [setting : {"maxclients"}, target : Nat, value : Nat]
        \cup [setting : {"allowobservers"}, target : {0}, value : {On, Off}]
        \cup [setting : {"universe", "map"}, target : {0},
              value : Universes \cup Maps \cup {None}]
        \cup [setting : UnhandledSettings, target : Nat, value : {On}]

ASSUME CountsAssumption == 
    MaxClients \in Nat /\ MaxRequests \in Nat /\ MaxBroken \in Nat
ASSUME RequestsAssumption == Requests \subseteq AllRequests
\* Every play mode numbers its players from 0 and has at least the neutral one
ASSUME PlayModeAssumption ==
    /\ DOMAIN PlayMode = Maps
    /\ \A m \in Maps :
         /\ 0 \in DOMAIN PlayMode[m]
         /\ DOMAIN PlayMode[m] = 0 .. (Cardinality(DOMAIN PlayMode[m]) - 1)
         /\ \A p \in DOMAIN PlayMode[m] : p \in Nat /\ PlayMode[m][p] \in BOOLEAN
ASSUME FlagAssumption == NDebug \in BOOLEAN /\ Signals \in BOOLEAN
ASSUME NoneAssumption ==
    /\ None \notin ClientIds \cup Universes \cup Maps
    /\ None \notin [path : Maps, universe : Universes]

VARIABLES
    phase,          \* where serve() is
    toVisit,        \* clients the current loop over clients has still to reach
    visiting,       \* the client whose messages are being handled, or None
    interrupted,    \* set by the signal handler
    pending,        \* pendingActions
    clients,        \* the keys of Server::clients
    admin,          \* the clients whose RemoteClient::admin is true; so for
    neverAdmin,     \*   the other flags
    ready,
    observer,
    dead,
    playerId,       \* RemoteClient::playerId, 0 when assigned to no player
    groups,         \* SettingsUser::groups
    broken,         \* clients whose socket fails every send
    players,        \* Server::players, then the world's copy of it
    universe,
    map,            \* the map template, with the universe it was built with
    allowObservers,
    startGame,
    gameStarted,
    tree            \* the values of the settings tree's leaves

loopVars == <<phase, toVisit, visiting, interrupted>>
flagVars == <<admin, neverAdmin, ready, observer>>
clientVars == <<clients, flagVars, dead, playerId, groups>>
gameVars == <<players, universe, map, allowObservers>>
startVars == <<startGame, gameStarted>>
vars == <<loopVars, pending, clientVars, broken, gameVars, startVars, tree>>

-----------------------------------------------------------------------------
(* Types *)

Group(kind, n) == <<kind, n>>
AdminGroup == Group("admin", 0)
WorldGroup == Group("world", 0)
PlaytimeGroup == Group("playtime", 0)
Groups == {AdminGroup, WorldGroup, PlaytimeGroup}
            \cup {Group("client", c) : c \in ClientIds}
            \cup {Group("player", p) : p \in PlayerIds}

EnsureAdminExists == [kind |-> "ensureAdminExists"]
CheckForGameStart == [kind |-> "checkForGameStart"]
SetMapPlayMode == [kind |-> "setMapPlayMode"]
ClientChangeSetting(c, r) ==
    [kind |-> "clientChangeSetting", client |-> c, request |-> r]
RequestUniverse(u) == [kind |-> "requestUniverse", universe |-> u]
RequestMap(m, u) == [kind |-> "requestMap", map |-> m, universe |-> u]

ServerActions ==
    {EnsureAdminExists, CheckForGameStart, SetMapPlayMode}
        \cup {ClientChangeSetting(c, r) : c \in ClientIds, r \in Requests}
        \cup {RequestUniverse(u) : u \in Universes}
        \cup {RequestMap(m, u) : m \in Maps, u \in Universes}

Player == [noClients : BOOLEAN, clients : SUBSET ClientIds, maxclients : Nat]

\* How serve() can end: on an interrupt, or by the process dying of a socket
\* exception nothing catches, of a failed assert, or of SAKUSEN_FATAL
Aborts == {"socketExn", "attachAssert", "lateActionAssert", "treeFatal",
           "unhandledFatal"}
Phases == {"join", "messages", "relay", "actions", "starting", "flush",
           "shutdown", "done"} \cup Aborts

-----------------------------------------------------------------------------
(* Sending, removing a client, and the pending queue *)

Running == phase \notin Aborts \cup {"done"}

\* settingAlteredCallback sends to every client that may read the node, which
\* is every client; the ones whose send throws are marked dead.
NotifyAll == dead' = dead \cup (clients \cap broken)

\* The effect of one action at the front of pendingActions that prepends
\* front and appends back to the list: act() runs before its own entry is
\* erased, and the erased entry is the one saved before act().
Requeue(front, back) == pending' = front \o Tail(pending) \o back

Checks(n) == [i \in 1 .. n |-> CheckForGameStart]

\* Player::isReadyForGameStart and RemoteClient::isReadyForGameStart
PlayerReady(p) == players[p].clients # {} \/ players[p].noClients
ClientReady(c) == c \in ready /\ (c \in observer \/ playerId[c] # 0)

AllPlayersReady == \A p \in DOMAIN players : PlayerReady(p)
AllClientsReady == \A c \in clients : ClientReady(c)
CanStart == map # None /\ AllPlayersReady /\ AllClientsReady

\* Mutant: the client stays in the old player's list
ReattachUndetached(c, old, new) ==
    [p \in DOMAIN players |->
        [players[p] EXCEPT !.clients = IF p # 0 /\ p = new THEN @ \cup {c} ELSE @]]

\* Player::attachClient and detachClient on one player's list of clients;
\* id 0 means no player, so nothing is attached to or detached from it.
Reattach(c, old, new) ==
    [p \in DOMAIN players |->
        [players[p] EXCEPT !.clients =
            IF p # 0 /\ p = new THEN @ \cup {c}
            ELSE IF p # 0 /\ p = old THEN @ \ {c} ELSE @]]

(***************************************************************************)
(* removeClient: the client's branch leaves the settings tree (and every   *)
(* client is told), the RemoteClient is erased and destroyed, its          *)
(* destructor detaching it from its player and asking for a start check    *)
(* with setPlayerId(PlayerId(), false), and a check for an admin is put    *)
(* at the front.                                                           *)
(***************************************************************************)
RemoveClient(c) ==
    /\ clients' = clients \ {c}
    /\ admin' = admin \ {c}
    /\ neverAdmin' = neverAdmin \ {c}
    /\ ready' = ready \ {c}
    /\ observer' = observer \ {c}
    /\ dead' = (dead \cup (clients \cap broken)) \ {c}
    /\ broken' = broken \ {c}
    /\ playerId' = [playerId EXCEPT ![c] = 0]
    /\ groups' = [groups EXCEPT ![c] = {}]
    /\ players' = Reattach(c, playerId[c], 0)
    /\ tree' = [tree EXCEPT !.admin = @ \ {c}, !.neveradmin = @ \ {c},
                            !.observer = @ \ {c}, !.ready = @ \ {c},
                            !.player[c] = 0]
    /\ pending' = <<EnsureAdminExists>> \o pending \o Checks(1)
    /\ UNCHANGED <<universe, map, allowObservers, startVars>>

-----------------------------------------------------------------------------
(* The lobby loop's first part: join requests *)

\* Mutant: the id after the last valid one is handed out too
FreeClientIdsOffByOne == (0 .. MaxClients) \ clients
FreeClientIds == ClientIds \ clients
\* getFreeClientId: the lowest id that is not in use
GetFreeClientId == CHOOSE c \in FreeClientIds : \A d \in FreeClientIds : c <= d

\* addClient for a request that is neither blocked nor without an address.
\* The new branch is announced to the clients already there; the RemoteClient
\* starts with no admin status, unwilling to be admin, and not ready, in the
\* groups "client<id>" and "world".
AddClient ==
    /\ phase = "join"
    /\ FreeClientIds # {}
    /\ LET c == GetFreeClientId IN
         /\ clients' = clients \cup {c}
         /\ neverAdmin' = neverAdmin \cup {c}
         /\ groups' = [groups EXCEPT ![c] = {Group("client", c), WorldGroup}]
         /\ tree' = [tree EXCEPT !.neveradmin = @ \cup {c}]
    /\ NotifyAll
    /\ UNCHANGED <<loopVars, pending, admin, ready, observer, playerId, broken,
                   gameVars, startVars>>

\* addClient sends an Accept (from the RemoteClient constructor) or, when no
\* id is free, a Reject, to a socket that may already be broken.  Nothing
\* between here and main() catches the SocketExn.
AddClientThrows ==
    /\ phase = "join"
    /\ phase' = "socketExn"
    /\ UNCHANGED <<toVisit, visiting, interrupted, pending, clientVars,
                   broken, gameVars, startVars, tree>>

JoinsDone ==
    /\ phase = "join"
    /\ phase' = "messages"
    /\ toVisit' = clients
    /\ UNCHANGED <<visiting, interrupted, pending, clientVars, broken,
                   gameVars, startVars, tree>>

-----------------------------------------------------------------------------
(* handleClientMessages *)

DeadFound == toVisit \cap dead

\* The loop over clients comes to c.  A dead client is removed, which
\* invalidates the iterator, so that the loop starts again from the beginning.
RemoveDeadClient ==
    /\ phase = "messages" /\ visiting = None
    /\ \E c \in DeadFound : RemoveClient(c)
    /\ toVisit' = clients'
    /\ UNCHANGED <<phase, visiting, interrupted>>

VisitClient ==
    /\ phase = "messages" /\ visiting = None
    /\ \E c \in toVisit \ DeadFound : visiting' = c
    /\ UNCHANGED <<phase, toVisit, interrupted, pending, clientVars,
                   broken, gameVars, startVars, tree>>

RequestsQueued ==
    Cardinality({i \in DOMAIN pending : pending[i].kind = "clientChangeSetting"})

\* messageType_changeSetting: the change is queued, not made.
ReceiveChangeSetting ==
    /\ phase = "messages" /\ visiting # None
    /\ RequestsQueued < MaxRequests
    /\ \E r \in Requests :
         pending' = Append(pending, ClientChangeSetting(visiting, r))
    /\ UNCHANGED <<loopVars, clientVars, broken, gameVars, startVars, tree>>

\* The client leaves, or its socket or a message that does not deserialize
\* throws: it is removed and the loop starts again.
ClientLeaves ==
    /\ phase = "messages" /\ visiting # None
    /\ RemoveClient(visiting)
    /\ visiting' = None
    /\ toVisit' = clients'
    /\ UNCHANGED <<phase, interrupted>>

\* The client's queue is empty.
ClientDone ==
    /\ phase = "messages" /\ visiting # None
    /\ toVisit' = toVisit \ {visiting}
    /\ visiting' = None
    /\ UNCHANGED <<phase, interrupted, pending, clientVars, broken,
                   gameVars, startVars, tree>>

\* Then each extension message received, from any client there has been, is
\* sent to every client, and the clients whose send threw are removed when it
\* has been sent to all.  A message all of whose sends succeed changes nothing.
RelayThrows ==
    /\ phase \in {"messages", "relay"} /\ visiting = None /\ toVisit = {}
    /\ clients \cap broken # {}
    /\ phase' = "relay"
    /\ toVisit' = clients \cap broken
    /\ UNCHANGED <<visiting, interrupted, pending, clientVars, broken,
                   gameVars, startVars, tree>>

RelayRemoves ==
    /\ phase = "relay"
    /\ \E c \in toVisit : RemoveClient(c) /\ toVisit' = toVisit \ {c}
    /\ UNCHANGED <<phase, visiting, interrupted>>

\* Every client has been visited and every extension message sent.
MessagesDone ==
    /\ phase \in {"messages", "relay"} /\ visiting = None /\ toVisit = {}
    /\ phase' = "actions"
    /\ UNCHANGED <<toVisit, visiting, interrupted, pending, clientVars,
                   broken, gameVars, startVars, tree>>

-----------------------------------------------------------------------------
(* handlePendingActions: the action at the front acts and is erased *)

Acting(kind) ==
    phase = "actions" /\ pending # <<>> /\ Head(pending).kind = kind

Candidates == clients \ neverAdmin

\* Mutant: the search for a candidate ends at the first unwilling client
AdminNotNeededTooSoon ==
    gameStarted \/ clients \cap admin # {} \/ clients \cap neverAdmin # {}
\* EnsureAdminExistsAction finds nothing to do: the game is on, there is an
\* admin, or every client is unwilling.
AdminNotNeeded == gameStarted \/ clients \cap admin # {} \/ Candidates = {}

EnsureAdminIdle ==
    /\ Acting("ensureAdminExists")
    /\ AdminNotNeeded
    /\ Requeue(<<>>, <<>>)
    /\ UNCHANGED <<loopVars, clientVars, broken, gameVars, startVars, tree>>

\* Mutant: the flag and the group are set directly, the tree not
EnsureAdminPromotesOutsideTree ==
    /\ Acting("ensureAdminExists")
    /\ ~AdminNotNeeded
    /\ \E c \in Candidates :
         /\ admin' = admin \cup {c}
         /\ groups' = [groups EXCEPT ![c] = @ \cup {AdminGroup}]
    /\ NotifyAll
    /\ Requeue(<<>>, <<>>)
    /\ UNCHANGED <<loopVars, clients, neverAdmin, ready, observer, playerId,
                   broken, gameVars, startVars, tree>>

\* Otherwise the first willing client met (the hash map's order is not
\* specified) is made admin through the settings tree; a refusal is fatal.
EnsureAdminPromotes ==
    /\ Acting("ensureAdminExists")
    /\ ~AdminNotNeeded
    /\ \E c \in Candidates :
         /\ phase' = IF c \in tree.admin THEN "treeFatal" ELSE phase
         /\ admin' = admin \cup {c}
         /\ groups' = [groups EXCEPT ![c] = @ \cup {AdminGroup}]
         /\ tree' = [tree EXCEPT !.admin = @ \cup {c}]
    /\ NotifyAll
    /\ Requeue(<<>>, <<>>)
    /\ UNCHANGED <<toVisit, visiting, interrupted, clients, neverAdmin,
                   ready, observer, playerId, broken, gameVars, startVars>>

-----------------------------------------------------------------------------
(* ClientChangeSettingAction *)

Request == Head(pending).request
Target == Request.target
Value == Request.value
\* The action is about to change the given setting for a client still there
Changing(setting) ==
    /\ Acting("clientChangeSetting")
    /\ Head(pending).client \in clients
    /\ Request.setting = setting

\* The groups that may write the leaf, as the branches' constructors give them
Writers(r) ==
    CASE r.setting \in {"neveradmin", "ready"} -> {Group("client", r.target)}
      [] r.setting \in {"observer", "player"} -> {Group("client", r.target), AdminGroup}
      [] r.setting = "maxclients" -> {Group("player", r.target), AdminGroup}
      [] r.setting = "paused" -> {AdminGroup, PlaytimeGroup}
      [] OTHER -> {AdminGroup}

\* The branch the request names is in the tree.
NodeExists(r) ==
    CASE r.setting \in BoolSettings \cup {"player"} -> r.target \in clients
      [] r.setting = "maxclients" -> r.target \in DOMAIN players
      [] OTHER -> TRUE

MayWrite(c, r) == NodeExists(r) /\ groups[c] \cap Writers(r) # {}

\* BoolLeaf refuses the value it already has.
HasValue(set, r) == (r.target \in set) <=> (r.value = On)

\* Mutant: an observer may be assigned to a player
NotAssignableUnlessExists(c, p) == p \notin DOMAIN players \cup {0}
NotAssignable(c, p) == c \in observer \/ p \notin DOMAIN players \cup {0}

\* setValue returns a reason: the leaf already has the value, or performMagic
\* or settingAlteringCallback objects, or the search finds no such resource.
Refused(r) ==
    CASE r.setting = "admin" ->
           HasValue(tree.admin, r)
             \/ (r.value = On /\ r.target \in neverAdmin \ admin)
      [] r.setting = "neveradmin" -> HasValue(tree.neveradmin, r)
      [] r.setting = "ready" -> HasValue(tree.ready, r)
      [] r.setting = "observer" ->
           HasValue(tree.observer, r)
             \/ /\ r.value = On /\ r.target \notin observer
                /\ ~allowObservers \/ playerId[r.target] # 0
      [] r.setting = "player" ->
           \/ tree.player[r.target] = r.value
           \/ /\ playerId[r.target] # r.value
              /\ NotAssignable(r.target, r.value)
      [] r.setting = "maxclients" ->
           \/ r.value = players[r.target].maxclients
           \/ r.value < Cardinality(players[r.target].clients)
      [] r.setting = "allowobservers" -> tree.allowobservers <=> (r.value = On)
      [] r.setting = "universe" -> r.value \notin Universes
      [] r.setting = "map" -> universe = None \/ r.value \notin Maps
      [] OTHER -> FALSE

Granted(c, r) == MayWrite(c, r) /\ ~Refused(r)

Accepted(setting) == Changing(setting) /\ Granted(Head(pending).client, Request)

SetTo(set, c, value) == IF value = On THEN set \cup {c} ELSE set \ {c}

\* The client has been removed since it asked.
ChangeIgnored ==
    /\ Acting("clientChangeSetting")
    /\ Head(pending).client \notin clients
    /\ Requeue(<<>>, <<>>)
    /\ UNCHANGED <<loopVars, clientVars, broken, gameVars, startVars, tree>>

\* The client is told the reason.  Unlike the sends of handleClientMessages
\* and settingAlteredCallback this one is not inside a try.
ChangeRejected ==
    /\ Acting("clientChangeSetting")
    /\ Head(pending).client \in clients
    /\ ~Granted(Head(pending).client, Request)
    /\ phase' = IF Head(pending).client \in broken THEN "socketExn" ELSE phase
    /\ Requeue(<<>>, <<>>)
    /\ UNCHANGED <<toVisit, visiting, interrupted, clientVars, broken,
                   gameVars, startVars, tree>>

\* clients:n:admin.  Losing admin status leaves the client in group "admin".
ChangeAdmin ==
    /\ Accepted("admin")
    /\ admin' = SetTo(admin, Target, Value)
    /\ tree' = [tree EXCEPT !.admin = SetTo(@, Target, Value)]
    /\ groups' = [groups EXCEPT ![Target] =
                    IF Value = On /\ Target \notin admin THEN @ \cup {AdminGroup} ELSE @]
    /\ Requeue(IF Value = Off /\ Target \in admin THEN <<EnsureAdminExists>> ELSE <<>>,
               <<>>)
    /\ NotifyAll
    /\ UNCHANGED <<loopVars, clients, neverAdmin, ready, observer, playerId,
                   broken, gameVars, startVars>>

\* clients:n:neveradmin
ChangeNeverAdmin ==
    /\ Accepted("neveradmin")
    /\ neverAdmin' = SetTo(neverAdmin, Target, Value)
    /\ tree' = [tree EXCEPT !.neveradmin = SetTo(@, Target, Value)]
    /\ Requeue(IF Value = Off /\ Target \in neverAdmin THEN <<EnsureAdminExists>> ELSE <<>>,
               <<>>)
    /\ NotifyAll
    /\ UNCHANGED <<loopVars, clients, admin, ready, observer, playerId, groups,
                   broken, gameVars, startVars>>

\* clients:n:ready
ChangeReady ==
    /\ Accepted("ready")
    /\ ready' = SetTo(ready, Target, Value)
    /\ tree' = [tree EXCEPT !.ready = SetTo(@, Target, Value)]
    /\ Requeue(<<>>, IF Value = On /\ Target \notin ready THEN Checks(1) ELSE <<>>)
    /\ NotifyAll
    /\ UNCHANGED <<loopVars, clients, admin, neverAdmin, observer, playerId, groups,
                   broken, gameVars, startVars>>

\* clients:n:observer
ChangeObserver ==
    /\ Accepted("observer")
    /\ observer' = SetTo(observer, Target, Value)
    /\ tree' = [tree EXCEPT !.observer = SetTo(@, Target, Value)]
    /\ Requeue(<<>>, IF Value = On /\ Target \notin observer THEN Checks(1) ELSE <<>>)
    /\ NotifyAll
    /\ UNCHANGED <<loopVars, clients, admin, neverAdmin, ready, playerId, groups,
                   broken, gameVars, startVars>>

\* Mutant: the group of the old player is kept
RegroupForKeepingOld(c, old, new) ==
    groups[c] \cup (IF new = 0 THEN {} ELSE {Group("player", new)})

\* The groups of a client that setPlayerId moves from player old to new.
RegroupFor(c, old, new) ==
    (groups[c] \ (IF old = 0 THEN {} ELSE {Group("player", old)}))
        \cup (IF new = 0 THEN {} ELSE {Group("player", new)})

\* clients:n:player, with setPlayerId.  attachClient asserts that the player
\* takes clients; it looks at no other limit.
ChangePlayer ==
    /\ Accepted("player")
    /\ phase' = IF ~NDebug /\ Value # 0 /\ players[Value].noClients
                THEN "attachAssert" ELSE phase
    /\ players' = Reattach(Target, playerId[Target], Value)
    /\ groups' = [groups EXCEPT ![Target] = RegroupFor(Target, playerId[Target], Value)]
    /\ playerId' = [playerId EXCEPT ![Target] = Value]
    /\ tree' = [tree EXCEPT !.player[Target] = Value]
    /\ Requeue(<<>>, IF playerId[Target] # Value THEN Checks(1) ELSE <<>>)
    /\ NotifyAll
    /\ UNCHANGED <<toVisit, visiting, interrupted, clients, flagVars, broken,
                   universe, map, allowObservers, startVars>>

\* players:n:maxclients
ChangeMaxClients ==
    /\ Accepted("maxclients")
    /\ players' = [players EXCEPT ![Target].maxclients = Value]
    /\ Requeue(<<>>, <<>>)
    /\ NotifyAll
    /\ UNCHANGED <<loopVars, clients, flagVars, playerId, groups, broken, universe,
                   map, allowObservers, startVars, tree>>

\* Mutant: the present observers stay
DumpedNobody(value) == {}
\* The observers that setAllowObservers turns into ordinary clients
Dumped(value) ==
    IF allowObservers /\ value = Off THEN clients \cap observer ELSE {}

\* server:allowobservers.  Forbidding observers makes every observer an
\* ordinary client again, through the tree, where a refusal is fatal.
ChangeAllowObservers ==
    /\ Accepted("allowobservers")
    /\ LET dumped == Dumped(Value) IN
         /\ phase' = IF dumped \subseteq tree.observer THEN phase ELSE "treeFatal"
         /\ observer' = observer \ dumped
         /\ tree' = [tree EXCEPT !.allowobservers = (Value = On),
                                 !.observer = @ \ dumped]
    /\ allowObservers' = (Value = On)
    /\ Requeue(<<>>, <<>>)
    /\ NotifyAll
    /\ UNCHANGED <<toVisit, visiting, interrupted, clients, admin, neverAdmin,
                   ready, playerId, groups, broken, players, universe, map, startVars>>

\* game:universe:name.  The change itself is a RequestUniverseAction put at
\* the front, unless this universe is the one already in use.
ChangeUniverse ==
    /\ Accepted("universe")
    /\ Requeue(IF universe = Value THEN <<>> ELSE <<RequestUniverse(Value)>>, <<>>)
    /\ NotifyAll
    /\ UNCHANGED <<loopVars, clients, flagVars, playerId, groups, broken, gameVars,
                   startVars, tree>>

\* game:map.  The template is read for the universe of this moment; a map of
\* the same path as the one in use is not read again.
ChangeMap ==
    /\ Accepted("map")
    /\ Requeue(IF map # None /\ map.path = Value
               THEN <<>> ELSE <<RequestMap(Value, universe)>>, <<>>)
    /\ NotifyAll
    /\ UNCHANGED <<loopVars, clients, flagVars, playerId, groups, broken, gameVars,
                   startVars, tree>>

\* A leaf no branch of settingAlteringCallback names: SAKUSEN_FATAL.
ChangeUnhandled ==
    /\ \E s \in UnhandledSettings : Accepted(s)
    /\ phase' = "unhandledFatal"
    /\ UNCHANGED <<toVisit, visiting, interrupted, pending, clientVars,
                   broken, gameVars, startVars, tree>>

-----------------------------------------------------------------------------
(* The server's own actions *)

\* RequestUniverseAction: the name and hash leaves follow.
ActRequestUniverse ==
    /\ Acting("requestUniverse")
    /\ phase' = IF gameStarted /\ ~NDebug THEN "lateActionAssert" ELSE phase
    /\ universe' = Head(pending).universe
    /\ Requeue(<<>>, <<>>)
    /\ NotifyAll
    /\ UNCHANGED <<toVisit, visiting, interrupted, clients, flagVars, playerId,
                   groups, broken, players, map, allowObservers, startVars, tree>>

\* RequestMapAction: SetMapPlayModeAction(0) is to run next.
ActRequestMap ==
    /\ Acting("requestMap")
    /\ phase' = IF gameStarted /\ ~NDebug THEN "lateActionAssert" ELSE phase
    /\ map' = [path |-> Head(pending).map, universe |-> Head(pending).universe]
    /\ Requeue(<<SetMapPlayMode>>, <<>>)
    /\ NotifyAll
    /\ UNCHANGED <<toVisit, visiting, interrupted, clients, flagVars, playerId,
                   groups, broken, players, universe, allowObservers, startVars, tree>>

NewPlayer(noClients) == [noClients |-> noClients, clients |-> {}, maxclients |-> 255]

\* SetMapPlayModeAction(0).  clearPlayers sets the player of every attached
\* client to 0 through the tree, where a refusal is fatal, each asking for a
\* start check; then the players of the map's mode replace the old ones.
ActSetMapPlayMode ==
    /\ Acting("setMapPlayMode")
    /\ LET attached == {c \in clients : playerId[c] # 0}
           refused == {c \in attached : tree.player[c] = 0 \/ c \in observer}
       IN /\ phase' = CASE gameStarted /\ ~NDebug -> "lateActionAssert"
                        [] refused # {} -> "treeFatal"
                        [] OTHER -> phase
          /\ groups' = [c \in ClientIds |->
                          IF c \in attached THEN RegroupFor(c, playerId[c], 0) ELSE groups[c]]
          /\ playerId' = [c \in ClientIds |-> IF c \in attached THEN 0 ELSE playerId[c]]
          /\ tree' = [tree EXCEPT !.player = [c \in ClientIds |->
                          IF c \in attached THEN 0 ELSE @[c]]]
          /\ Requeue(<<>>, Checks(Cardinality(attached) + 1))
    /\ players' = [p \in DOMAIN PlayMode[map.path] |-> NewPlayer(PlayMode[map.path][p])]
    /\ NotifyAll
    /\ UNCHANGED <<toVisit, visiting, interrupted, clients, flagVars, broken,
                   universe, map, allowObservers, startVars>>

LastAction == Len(pending) = 1

\* Mutants: a check with actions after it is forgotten; it is resubmitted also
\* when another check follows
ResubmitNever == <<>>
ResubmitAlways == IF gameStarted THEN <<>> ELSE Checks(1)
Resubmitted ==
    IF gameStarted \/ pending[2].kind = "checkForGameStart" THEN <<>> ELSE Checks(1)

\* CheckForGameStartAction leaves the check to a later one: another follows
\* at once, or something else does and the check is resubmitted at the back.
CheckDeferred ==
    /\ Acting("checkForGameStart")
    /\ gameStarted \/ ~LastAction
    /\ Requeue(<<>>, Resubmitted)
    /\ UNCHANGED <<loopVars, clientVars, broken, gameVars, startVars, tree>>

\* It is the only action left: the game starts if the map is chosen, every
\* player has the clients it needs and every client is ready.
CheckDone ==
    /\ Acting("checkForGameStart")
    /\ ~gameStarted /\ LastAction
    /\ startGame' = IF map # None /\ AllPlayersReady THEN AllClientsReady ELSE startGame
    /\ Requeue(<<>>, <<>>)
    /\ UNCHANGED <<loopVars, clientVars, broken, gameVars, gameStarted, tree>>

\* Mutant: the loop goes on with actions still queued
SomeHandled == TRUE
AllHandled == pending = <<>>

\* The queue is empty: in the lobby the loop's condition is tested, in the
\* game the tick is played and the updates are sent.
ActionsDone ==
    /\ phase = "actions" /\ AllHandled
    /\ phase' = CASE gameStarted -> "flush"
                  [] ~gameStarted /\ interrupted -> "shutdown"
                  [] ~gameStarted /\ ~interrupted /\ startGame -> "starting"
                  [] OTHER -> "join"
    /\ toVisit' = IF gameStarted THEN clients ELSE toVisit
    /\ UNCHANGED <<visiting, interrupted, pending, clientVars, broken,
                   gameVars, startVars, tree>>

-----------------------------------------------------------------------------
(* The transition to the game, and the game loop *)

\* Mutant: the groups of the lobby are not cleared
GameGroupsUncleared(c) ==
    groups[c] \cup (IF AdminGroup \in groups[c] THEN {PlaytimeGroup} ELSE {})
\* What a client may still do to the settings: clearGroups and addGroup
GameGroups(c) ==
    {WorldGroup} \cup (IF AdminGroup \in groups[c] THEN {PlaytimeGroup} ELSE {})

\* Every client is sent a GameStart and left with the groups of the game.  The
\* game loop is entered unless a signal came meanwhile.
StartTheGame ==
    /\ phase = "starting"
    /\ clients \cap broken = {}
    /\ groups' = [c \in ClientIds |-> IF c \in clients THEN GameGroups(c) ELSE groups[c]]
    /\ gameStarted' = TRUE
    /\ phase' = IF interrupted THEN "shutdown" ELSE "messages"
    /\ toVisit' = IF interrupted THEN {} ELSE clients
    /\ UNCHANGED <<visiting, interrupted, pending, clients, flagVars, dead,
                   playerId, broken, gameVars, startGame, tree>>

\* A GameStart cannot be sent: nothing catches the SocketExn.
StartThrows ==
    /\ phase = "starting"
    /\ clients \cap broken # {}
    /\ phase' = "socketExn"
    /\ UNCHANGED <<toVisit, visiting, interrupted, pending, clientVars,
                   broken, gameVars, startVars, tree>>

\* flushOutgoing reaches the next client
FlushOutgoing ==
    /\ phase = "flush"
    /\ \E c \in toVisit \ broken : toVisit' = toVisit \ {c}
    /\ UNCHANGED <<phase, visiting, interrupted, pending, clientVars, broken,
                   gameVars, startVars, tree>>

\* or throws, in which case the client is removed and the loop starts again.
FlushRemoves ==
    /\ phase = "flush"
    /\ \E c \in toVisit \cap broken : RemoveClient(c)
    /\ toVisit' = clients'
    /\ UNCHANGED <<phase, visiting, interrupted>>

\* Mutant: the loop of the game does not look at interrupted
FlushDoneForever ==
    /\ phase = "flush" /\ toVisit = {}
    /\ phase' = "messages"
    /\ toVisit' = clients
    /\ UNCHANGED <<visiting, interrupted, pending, clientVars, broken,
                   gameVars, startVars, tree>>
\* The tick is over.
FlushDone ==
    /\ phase = "flush" /\ toVisit = {}
    /\ phase' = IF interrupted THEN "shutdown" ELSE "messages"
    /\ toVisit' = IF interrupted THEN {} ELSE clients
    /\ UNCHANGED <<visiting, interrupted, pending, clientVars, broken,
                   gameVars, startVars, tree>>

-----------------------------------------------------------------------------
(* Shutting down *)

\* Each client is sent a Kick, caught if it throws, and removed.
ShutdownRemoves ==
    /\ phase = "shutdown"
    /\ \E c \in clients : RemoveClient(c)
    /\ UNCHANGED loopVars

ShutdownDone ==
    /\ phase = "shutdown" /\ clients = {}
    /\ phase' = "done"
    /\ UNCHANGED <<toVisit, visiting, interrupted, pending, clientVars, broken,
                   gameVars, startVars, tree>>

-----------------------------------------------------------------------------
(* The world outside the server's thread *)

\* interruptHandler
Interrupt ==
    /\ Signals /\ Running /\ ~interrupted
    /\ interrupted' = TRUE
    /\ UNCHANGED <<phase, toVisit, visiting, pending, clientVars, broken,
                   gameVars, startVars, tree>>

\* A client's end of its socket goes away; from now on sends to it throw.
SocketBreaks ==
    /\ Running /\ Cardinality(broken) < MaxBroken
    /\ \E c \in clients \ broken : broken' = broken \cup {c}
    /\ UNCHANGED <<loopVars, pending, clientVars, gameVars, startVars, tree>>

\* serve() has returned or the process is gone.
Stopped == ~Running /\ UNCHANGED vars

-----------------------------------------------------------------------------
Init ==
    /\ phase = "join" /\ toVisit = {} /\ visiting = None
    /\ interrupted = FALSE
    /\ pending = <<>>
    /\ clients = {} /\ admin = {} /\ neverAdmin = {} /\ ready = {}
    /\ observer = {} /\ dead = {} /\ broken = {}
    /\ playerId = [c \in ClientIds |-> 0]
    /\ groups = [c \in ClientIds |-> {}]
    /\ players = [p \in {} |-> NewPlayer(FALSE)]
    /\ universe = None /\ map = None /\ allowObservers = FALSE
    /\ startGame = FALSE /\ gameStarted = FALSE
    /\ tree = [admin |-> {}, neveradmin |-> {}, observer |-> {}, ready |-> {},
               player |-> [c \in ClientIds |-> 0], allowobservers |-> FALSE]

ClientChangeSettingAct ==
    \/ ChangeIgnored \/ ChangeRejected
    \/ ChangeAdmin \/ ChangeNeverAdmin \/ ChangeReady \/ ChangeObserver
    \/ ChangePlayer \/ ChangeMaxClients \/ ChangeAllowObservers
    \/ ChangeUniverse \/ ChangeMap \/ ChangeUnhandled

ServerActionActs ==
    \/ EnsureAdminIdle \/ EnsureAdminPromotes
    \/ ClientChangeSettingAct
    \/ ActRequestUniverse \/ ActRequestMap \/ ActSetMapPlayMode
    \/ CheckDeferred \/ CheckDone

HandleClientMessages ==
    \/ RemoveDeadClient \/ VisitClient \/ ReceiveChangeSetting
    \/ ClientLeaves \/ ClientDone \/ RelayThrows \/ RelayRemoves \/ MessagesDone

PlayGame == StartTheGame \/ StartThrows \/ FlushOutgoing \/ FlushRemoves \/ FlushDone

Shutdown == ShutdownRemoves \/ ShutdownDone

Serve ==
    \/ AddClient \/ AddClientThrows \/ JoinsDone
    \/ HandleClientMessages
    \/ ServerActionActs \/ ActionsDone
    \/ PlayGame
    \/ Shutdown

Next == Serve \/ Interrupt \/ SocketBreaks \/ Stopped

Spec == Init /\ [][Next]_vars

-----------------------------------------------------------------------------
(* Fairness: the server's thread keeps running.  Visits to clients end (a
   client's socket holds finitely many messages), and so does the taking of
   join requests. *)

FairSpec ==
    /\ Spec
    /\ WF_vars(JoinsDone) /\ WF_vars(RemoveDeadClient) /\ WF_vars(VisitClient)
    /\ WF_vars(ClientDone) /\ WF_vars(RelayRemoves) /\ WF_vars(MessagesDone)
    /\ WF_vars(ServerActionActs \/ ActionsDone)
    /\ WF_vars(PlayGame) /\ WF_vars(Shutdown)

-----------------------------------------------------------------------------
(* Properties *)

\* The type of every variable.
TypeOK ==
    /\ phase \in Phases
    /\ toVisit \subseteq ClientIds /\ visiting \in ClientIds \cup {None}
    /\ interrupted \in BOOLEAN
    /\ pending \in Seq(ServerActions)
    /\ clients \subseteq ClientIds
    /\ admin \subseteq clients /\ neverAdmin \subseteq clients
    /\ ready \subseteq clients /\ observer \subseteq clients
    /\ dead \subseteq clients /\ broken \subseteq clients
    /\ playerId \in [ClientIds -> Nat]
    /\ groups \in [ClientIds -> SUBSET Groups]
    /\ DOMAIN players \subseteq PlayerIds
    /\ players \in [DOMAIN players -> Player]
    /\ universe \in Universes \cup {None}
    /\ map \in [path : Maps, universe : Universes] \cup {None}
    /\ allowObservers \in BOOLEAN
    /\ startGame \in BOOLEAN /\ gameStarted \in BOOLEAN
    /\ tree \in [admin : SUBSET ClientIds, neveradmin : SUBSET ClientIds,
                 observer : SUBSET ClientIds, ready : SUBSET ClientIds,
                 player : [ClientIds -> Nat], allowobservers : BOOLEAN]

\* The actions queued, by kind
Queued(kind) == \E i \in DOMAIN pending : pending[i].kind = kind

\* While the lobby has no admin and some client is willing to be one, the
\* choice of an admin is queued: whichever way the last admin went (leaving,
\* dying, giving it up) and whichever way a client became willing, the
\* obligation is never dropped (EnsureAdminExistsAction, removeClient,
\* performMagic on admin and neveradmin).
AdminSought ==
    ~gameStarted /\ clients \cap admin = {} /\ ~(clients \subseteq neverAdmin)
        => Queued("ensureAdminExists")

\* A lobby in which the game can start has the start decided or a check for
\* it queued (or about to be, by the replacement of the players): whatever
\* step completes the conditions, also the departure of the one client that
\* was not ready, and however checks defer to each other
\* (CheckForGameStartAction, checkForGameStart's callers).
StartNotMissed ==
    ~gameStarted /\ CanStart
        => startGame \/ Queued("checkForGameStart") \/ Queued("setMapPlayMode")

\* The lobby is left for the game only with the conditions still true, and
\* the game only begins with nothing left in the queue to change them
\* (CheckForGameStartAction is evaluated only when it is the last action).
StartJustified ==
    startGame /\ phase \in {"actions", "starting"} /\ ~gameStarted
        => CanStart /\ pending = <<>>

\* What the server owes its clients, a search for an admin or a check whether the
\* game can start, is done or queued, by whatever step it comes to be owed; and
\* the game does not start on the strength of a check that no longer holds.
ObligationsKept == AdminSought /\ StartNotMissed /\ StartJustified

\* The lists of clients that players hold (raw pointers in Player::clients)
\* are exactly the connected clients with that player id, so that no removed
\* client is informed of updates or asked for orders; and the player of a
\* client exists, which flushOutgoing needs.
PlayerListsExact ==
    Running =>
        /\ \A p \in DOMAIN players \ {0} :
             players[p].clients = {c \in clients : playerId[c] = p}
        /\ 0 \in DOMAIN players => players[0].clients = {}
        /\ \A c \in clients : playerId[c] \in DOMAIN players \cup {0}

\* An observer has no player, and there are observers only while they are
\* allowed; the two settings are guarded in different handlers.
ObserversApart ==
    Running => \A c \in observer : playerId[c] = 0 /\ allowObservers

\* The settings tree shows what the server does: a leaf's value is that of the
\* field its magic sets.  clearPlayers, setAllowObservers and the promotion of
\* an admin rely on it: they change fields through the tree, and abort the
\* server when the tree refuses.
TreeAgrees ==
    Running =>
        /\ tree.admin = admin /\ tree.neveradmin = neverAdmin
        /\ tree.observer = observer /\ tree.ready = ready
        /\ tree.player = playerId /\ tree.allowobservers = allowObservers

\* The server's own changes to the tree are never refused, and the actions
\* that assume the lobby never run once the game has begun.
NoInternalAbort == phase \notin {"treeFatal", "lateActionAssert"}

\* Before the game a client is in the group of a player exactly when it is
\* assigned to it, so that it may change that player's settings and no other's;
\* in the game nobody keeps a group that may change roles.
GroupsMatchRoles ==
    Running => \A c \in clients :
        /\ \A p \in PlayerIds :
             Group("player", p) \in groups[c]
                <=> ~gameStarted /\ p # 0 /\ playerId[c] = p
        /\ gameStarted => groups[c] \subseteq {WorldGroup, PlaytimeGroup}

\* A request never outlives its sender's id: no client is admitted under an
\* id for which a request is still queued, so a request is carried out with
\* the permissions of the client that made it.
NoRequestInherited ==
    [][\A c \in clients' \ clients : \A i \in DOMAIN pending :
          pending[i].kind = "clientChangeSetting" => pending[i].client # c]_vars

\* Nobody is made admin against its will.
AdminConsents == [][(admin' \ admin) \cap neverAdmin = {}]_vars

\* Once the game is on, no setting or action changes a remaining client's
\* role, the players or the map; only departures do.
RolesFrozen ==
    [][gameStarted =>
        /\ \A c \in clients' :
             /\ playerId'[c] = playerId[c]
             /\ c \in observer' <=> c \in observer
        /\ DOMAIN players' = DOMAIN players
        /\ \A p \in DOMAIN players :
             players'[p].clients = players[p].clients \cap clients'
        /\ map' = map /\ universe' = universe]_vars

\* The queue is always drained, whatever the actions add to it: no pair of
\* checks resubmits itself for ever.
QueueDrains == (phase = "actions") ~> (phase # "actions")

\* A lobby in which the game can start does start it, unless someone makes it
\* impossible again (or the server stops): the check deferred to the back of
\* the queue is made in the end.
StartHappens ==
    (CanStart /\ ~gameStarted) ~> (gameStarted \/ ~CanStart \/ ~Running)

\* A lobby with a willing client gets an admin.
AdminAppears ==
    (clients \cap admin = {} /\ ~(clients \subseteq neverAdmin))
        ~> (clients \cap admin # {} \/ clients \subseteq neverAdmin
              \/ gameStarted \/ ~Running)

\* A client marked dead is removed, or the server has stopped.
DeadRemoved == \A c \in ClientIds : (c \in dead) ~> (c \notin dead \/ ~Running)

\* The server catches up with what it has put off: the queue of actions is
\* drained, and the clients marked dead are removed.
ServerCatchesUp == QueueDrains /\ DeadRemoved

\* An interrupt ends the server, in the lobby and in the game.
InterruptEnds == interrupted ~> ~Running

=============================================================================
