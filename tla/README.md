# Formal specification of sakusen

sakusen is a real-time strategy game engine: **fuseki** is the game server,
**libsakusen-server** holds the world it simulates, **libsakusen-client** the
view a client keeps of it, **libsakusen-comms** the sockets and messages between
them, and **tedomari** is the graphical client. This directory holds TLA+
modules translated from that code, the TLC configurations that check them, and
theorems proved with TLAPS.

    tlc -workers 2 -config lobby.cfg MCFusekiServer     # any run of the table below
    tlapm FusekiServerProofs.tla                        # the proofs: this module, JoiningProofs, GameLoopProofs,
                                                        # TestGameProofs, SensorReturnsProofs,
                                                        # ShownProofs, MapTopologyProofs, PluginsProofs

Every invariant and every refinement that a passing run checks is also proved, for all values
of the constants or, where section 5 says so, under an assumption on them; liveness is
only checked. Two invariants of the run `sensors`, `ShownAsPerceived` and
`ClientExtrapolates`, are true of one kind of sensor only; the theorems about them say
what holds of any.

`PROJECT.json` is the index: the lines of source behind each definition, the
runs, the hazards each property is about, and, for each property, a plausible
bug (a *mutant* of one definition, next to the original in the module) that
breaks it.

## 1. Inventory of the system

| component | state | operations | talks to | hard because |
|---|---|---|---|---|
| fuseki server loop (`server.cpp`, `server-methods.h`) | `clients`, `newConnections`, `pendingActions`, `players`, `universe`, `map`, `allowObservers`, `startGame`, `gameStarted`, `interrupted` | `serve`, `addClient`, `removeClient`, `handleClientMessages`, `handlePendingActions`, `settingAltering/AlteredCallback` | every other part | clients leave or die in the middle of loops over clients; requests are queued and acted on later; callbacks change the state being iterated |
| pending server actions (`serveraction.cpp`) | the queue | `act()` of eight kinds | server, settings tree | actions prepend and append further actions while they act |
| remote clients (`remoteclient*`, `settingsuser`) | four flags, `playerId`, groups, dead flag, order and update queues | `performMagic`, `setPlayerId`, `flushIncoming`, `flushOutgoing` | players, tree, socket | the destructor changes other objects; raw `Client*` in the players' lists |
| settings tree (`settingstree/`) | one value per leaf | `changeRequest`, `getRequest` | server (callbacks) | a second copy of the state, through which the server also makes its own changes and aborts if it is refused |
| world (`completeworld.cpp`) | units, effects, ballistics, beams, fuses, time | `incrementGameState` once a tick | players, modules' callbacks | units, effects and fuses are created and destroyed by callbacks while being iterated |
| players of the world (`server/player.cpp`) | clients, units, sensor returns, visible ballistics | `attachClient`, `detachClient`, `addUnit`, `removeUnit`, `checkSensorReturns`, `applyIncomingOrders` | world, clients | every client must be told of each change exactly once and in order |
| the client's view (`client/partialworld.cpp`) | units, sensor returns, ballistics, time | `applyUpdate`, `endTick` | server's updates | it extrapolates what it is not told, so that what the server leaves out matters |
| units (`layeredunit`, `unitcore`, masks, weapons) | status, layers, orders, owner, dirty flag | motion, damage, death, change of owner | world, player | a unit may die inside any of its own methods |
| messages and sockets (`comms/`) | receive buffers | `send`, `receive`, `accept` | the network | partial reads, closed peers |
| tedomari (`serverinterface`, `game`, `asynchronousiohandler`) | connection, game | `join`, `flushIncoming`, `settingAlteration` | server | join handshake with a timeout |
| plugins (`plugin*`, `pluginsbranch`, `server-plugins/`) | loaded plugins, their branches in the tree | `checkPlugins`, `AddPlugin`, `RemovePlugin`, `load` | tree, queue | a plugin may be asked for by the beginning of its name, and its entry is then corrected through the callback that loads and unloads |
| game modules (`data/test`, `data/sagittarius`) | their layers, weapons, beams, fuses | `onFire`, `onInteract*`, `expire`, `onCollision`, ... | world, units | they run inside the world's loops and change what is iterated |
| maps (`map.h`, `maps/`) | the area and its gluing | `resolvePosition`, `transform`, `getShortestDifference` | motion of units | positions wrap, with a turn, over any number of edges |
| resources, height fields, options, mDNS, vendored code | | | | file lookup, numeric code, wrappers |

What makes each correct:

* *Lobby* (loop, actions, clients, tree): there is an admin whenever someone is
  willing; the game starts exactly when it can; the roles (admin, observer,
  player) exclude each other as the guards intend; the tree and the fields agree;
  no object refers to a client that is gone; the server never aborts itself.
* *World*: a fuse burns once, at its time, unless removed; effects are applied to
  the units present and no others; the tick ends.
* *Players and views*: after each tick a client knows exactly the units and
  sensor returns its player has.
* *Sockets and joins*: messages arrive whole and in order; both sides agree on who
  has joined; a connection that does not join is dropped.
* *Orders and updates*: each order is carried out once and in order, every client
  sees every tick as it was, and none is upset by another that goes away.
* *Maps*: a unit never leaves the map, and how its way is divided into ticks makes
  no difference to where it ends and how it faces.
* *Plugins*: when the queue is empty, the plugins are those of the list.

## 2. Plan

Each module is written with CONSTANTS and named assumptions, one action per
operation, no `RECURSIVE`. An arrow is EXTENDS, `impl.` the refinement of an
abstract specification.

| modules | what | status |
|---|---|---|
| FusekiServer | the lobby and the control of the game loop | done, proved |
| PartialWorld -> SensorReturns | who sees what, and the client's copy of it | done, proved |
| Sublist -> FuseQueue -> WorldTick -> TestGame, Sagittarius; impl. FuseBook | a tick of the world under the callbacks of two game modules | done; TestGame proved, the refinement too |
| TCPSocket -> Joining -> UnixJoining; impl. Channels | sockets, the join protocol on both sides, with its time-outs and crashes | done; proved over TCP, the refinement too |
| ClientGame -> GameLoop; impl. SharedGame | orders in, ticks, updates out, the client's clock | done, proved, the refinement too |
| MapTopology | motion over the edges of six maps | done, proved |
| Plugins | loading and unloading through the queue of actions | done, proved |

To come, in this order:

1. An abstract lobby (members, roles, whether the game is on), implemented by
   FusekiServer, and "the client's view is the player's state after each tick"
   as an abstract specification implemented by SensorReturns, in place of
   `ViewComplete`.
2. The sphere's topology, collisions and the height field; plugin options and
   listeners.

## 3. What is modelled

### FusekiServer

The state of the server, its clients and its settings tree, from the opening of
the lobby to the end of `serve()`.

| TLA+ | code |
|---|---|
| `phase` | the point `serve()` has reached: `join` (the loop that accepts), `messages` and `relay` (`handleClientMessages`), `actions` (`handlePendingActions`), `starting` (between the two loops), `flush` (end of a tick), `shutdown`, `done`; and the ways of dying (`Aborts`) |
| `toVisit`, `visiting` | the iterator of the current loop over `clients`; the map's order is unspecified, so any client may come next |
| `pending` | `Server::pendingActions`. `Requeue(front, back)` is one turn of `handlePendingActions`: `act()` runs while its entry is still in the list, then that entry is erased |
| `clients`, `admin`, `neverAdmin`, `ready`, `observer`, `dead`, `playerId`, `groups` | the keys of `Server::clients` and the fields of the `RemoteClient`s; a flag is the set of the clients that have it |
| `players` | `Server::players`, later the world's copy of it: per player `noClients`, the list of clients and `maxclients` |
| `universe`, `map`, `allowObservers`, `startGame`, `gameStarted`, `interrupted` | the fields of these names; a map carries the universe its template was read for |
| `tree` | the leaves of the settings tree that stand for fields |
| `broken` | the clients whose sockets fail: environment |

Actions are named after what the code does: `AddClient`, `JoinsDone`;
`RemoveDeadClient`, `VisitClient`, `ReceiveChangeSetting`, `ClientLeaves`,
`ClientDone`, `RelayThrows`, `RelayRemoves`, `MessagesDone` for
`handleClientMessages`; one action per outcome of a pending action
(`EnsureAdminIdle/Promotes`, `ChangeIgnored/Rejected`, then one `Change...` per
leaf, `ActRequestUniverse`, `ActRequestMap`, `ActSetMapPlayMode`,
`CheckDeferred/Done`); `StartTheGame` and `StartThrows`; the flush and shutdown
loops; and `Interrupt` and `SocketBreaks` for the world outside. Each includes
what its code triggers: a removed client is detached from its player by its
destructor, which asks for a start check; a change of a leaf runs the callback
that sets the field, and the notification of every client, whose failing sends
mark clients dead.

Abstractions, and why they are harmless to the properties:

* Message contents are the setting, target and value of a request. Order
  messages in the lobby are ignored by the code; replies to `getSetting` change
  nothing (their failure is a `ClientLeaves`).
* Leaves no property tells apart are left out (application, speed, race, names
  and hashes); so are blocked addresses; plugins have a
  module of their own.
* `AddClientThrows` also stands for the other exceptions of the join loop that
  nothing catches. An extension message may come from any client at any time.
* In-tick behaviour (orders, world, updates) is not here: the game phase keeps
  only who is connected and what they may change.
* Branches that tell a client it changed a field to the value it has cannot be
  reached, because of `TreeAgrees`, and have no action.

### MCFusekiServer

Gives the constants values: one universe, two maps, one with one real player and
one with two (player 0 takes no clients), and for each run the requests clients
may make.

### PartialWorld and SensorReturns

`SensorReturns` is one tick after another of a game in progress, as far as it
concerns which units exist, whose they are and who sees them. `PartialWorld`
holds what a client does with the updates this produces, as operators on a view;
`SensorReturns` applies them to `views[p]`, the view of the clients of player p.

| TLA+ | code |
|---|---|
| `phase`, `checking`, `unchecked` | the point `CompleteWorld::incrementGameState` has reached: whatever acts on units (`acting`), the two loops of `Player::checkSensorReturns` for the player `checking` (`destroyed`, `visible`; `unchecked` is what the second has still to visit), the loop over `clearDirty` (`clearing`), the tick sent (`ended`) |
| `alive` | `CompleteWorld::units` |
| `owner`, `unitId`, `status`, `dirty` | the fields of `LayeredUnit` and its `UnitStatus`; of a status only which sensors are switched on |
| `units`, `nextUnitId`, `returns`, `nextReturnsId` | the players' fields; a return is a record of `id`, `perception`, `sensers` and `dirty` |
| `failed` | some `SAKUSEN_FATAL` or `assert` of these functions is reached |
| `views[p].units`, `.returns` | the client's units and `UpdatedSensorReturns`, by id |
| `views[p].mistaken`, `.aborted` | an update named an id that should not, or should, be known (a message on the console); the client reached `SAKUSEN_FATAL` in `incrementState` |

`Spawn`, `SwitchSensor`, `ChangeOwner` and `RemoveUnit` are what orders, weapons,
effects and scripts may do to a unit; `DropDestroyed` is a turn of the first loop;
`LoseReturn`, `SendReturn`, `KeepReturn`, `AddReturn` and `SeeNothing` are the five
ways a turn of the second can end; `ClearDirty`, `TickEnds` and `NextTick` finish
the tick. `SetDirty` is a part of the actions that call it, as are `ToldOfLoss`,
which includes the `clearDirty` that tells the clients of the last changes, and
`SenseeDestroyed`, which the destructor of the unit calls.

Abstractions, and why they are harmless to the properties:

* Updates go to a view when they are queued, instead of when they arrive. They
  arrive in order, none is lost while the connection lasts, and nothing a client
  does in response reaches this state, so that the view at `ended` is what the
  client has once it has read the tick.
* A sensor's reading of a unit is any member of `JointReadings`: nothing, a region
  or the unit. Positions, ranges and radii are not modelled; a unit may be moved
  anywhere between two ticks. `JointReadings` says what sensors of *one* unit may
  read *together*, since they measure the same distance.
* The status of a unit is the switches of its radar and sonar, which is also what
  decides whether these sensors read anything. Damage, layers and types change the
  status and call `setDirty` in the same way. The radius of a region, which makes
  `update` mark a return dirty in every tick that it is a region, is present as
  that rule.
* The set of units is walked in any order: the code's is by pointer or by list
  position.
* A slot of `Units` is used anew only when no return refers to it: in the code, a
  return holds a reference to the status of its unit, which is not used anew.
* Ballistics, effects and the order queues of units are not here.

### MCSensorReturns

Three interchangeable units, and two sets of joint readings: any at all
(`AnyReading`), or those of an eye and a radar of three times its range
(`RadarOutranges`).

### FuseQueue, WorldTick and the game modules

`WorldTick` is `CompleteWorld::incrementGameState` loop by loop, with the calls
that a game module makes to the world; `TestGame` and `Sagittarius` add what the
callbacks of the two games of the repository do, and the next-state relation.
`FuseQueue` is `fifo_priority_queue` as the world uses it.

| TLA+ | code |
|---|---|
| `phase` | which loop runs: `units`, `ballistics`, `beams`, `effects`, then `fuses` and `new` in turn until no effect happened; `idle` between ticks |
| `units`, `core` | the `hash_list` of units, and of each its kind, hit points, layers over the core and what arms it had when it was made (`arms`; a corpse keeps the weapons) |
| `j`, `k`, `step`, `it` | the two iterators over units, how far the current unit has come (layers, then each weapon), the iterator of the other loops |
| `ballistics`, `beams`, `newEffects`, `effects` | what is in flight and what burns, as far as it decides when it goes |
| `fuseQueue`, `fuseMap`, `removedFuses`, `lastFuseToken` | the four fields behind `addFuse` and `removeFuse`. A priority is `~time`; tokens wrap at `TokenModulus` |
| `fatal` | one of the `SAKUSEN_FATAL`s of these functions is reached |
| `turn` | history: whether the loop has updated each unit that there was at the start of the tick |

`Damage` includes what it leads to: the corpse that takes what damage is left, the
unit's removal, `onRemoval` of its layers, which removes their fuses, and the beams
that lose their source. It goes down the chain of corpses in one step, where the code
nests `damage` and `kill`, and the outer calls go on to `setDirty` after an inner one has
removed the unit (`unitcore.cpp:98`); no property tells the two apart. `Spawn` appends
to the list under the iterators. One action per callback: `FireCannon`,
`FireParalyzer`, `Create`, `Build`, `Collide`, `Paralyse`, `EngulfOld`, `NewEffect`, `ExpireFuse` (test game); `Detonate`,
`FireLaser`, `Burn`, `Launch`, `Arm` (sagittarius); and `SkipRemoved` for an entry
of the queue whose fuse is gone.

Abstractions: there are no positions, ranges, energy or metal, so that a weapon
may fire at any tick and hit any unit, an explosion may reach any set of units,
and a shell may land in any tick after its first. What `onFire` decides by them
is thereby open to more than the code can do. That effects notify units that
enter and leave is left out: neither game does anything then. That fuses and effects
cause each other within a tick is possible in the engine but not in the test game,
whose fuses cause no effect: that the loop over both ends (`TickEnds`) says nothing of
modules in which they do. In sagittarius the
creation of the fleets is the initial state, and what the code does on a fuse
whose unit is gone is undefined and has no action.

`FuseBook` is the abstract specification: a list of fuses in the order they will
go off, and a clock. The refinement maps the book to the queue's entries in order,
without the removed ones (`InOrder`). `Sublist` has `Without`, what is left of a
sequence, for both of them, as a recursive function that theorems can be proved about.

### TCPSocket, Joining, UnixJoining

`TCPSocket` frames messages on a stream of bytes that may be cut anywhere; the header
is written and read digit by digit, in a base that is 256 in the code.
`Joining` puts tedomari's `ServerInterface` on one side and the server's loop on
the other.

| TLA+ | code |
|---|---|
| `up[c]`, `down[c]` | a direction of a connection: bytes on the way (`wire`), the receiver's buffer (`TCPSocket::buffer`), and, as history, the messages `promised` |
| `clientEnd`, `serverEnd`, `serverReset`, `clientReset` | whether an end is open, and whether the kernel's reset is on its way to it or has come |
| `stage`, `socket`, `id` | `ServerInterface`: whether `join` waits, has succeeded or has given up; `crashed` is its process gone |
| `newConnections` | `Server::newConnections`; `late` is that five seconds have passed |
| `backlog` | connections that `accept` has not returned, or join messages on the Unix socket |
| `phase`, `it`, `todo` | the point of `serve()` and its iterators over new connections and clients |
| `clients`, `state` | `Server::clients`, and whether `serve` goes on, has ended or died of an exception |
| `taken` | history: what the last step received, for the refinement |

A step of the server that reads may find any part of the bytes on the wire. A close
with bytes unread, or bytes that come to a closed end, make a reset; any other
close is read as nothing new, as `recv` returning 0 is. That a reset is reported when it
comes behind an orderly close is left to the kernel, and `ForgetsTheGone` rests on it.
Both time-outs may strike at any time. Over TCP the server uses the connection that the join message came by;
over Unix sockets (`UnixJoining`) it reads whole datagrams and connects to the socket
that the message names. The two are separate specifications, although one server may
listen to both: they share only the table of clients. Messages are the first byte of
their kind and the id they carry; the lobby's settings are one get and one notify.

`Channels` is the abstract specification: queues that hand over whole messages in
order, and lose only the last ones, when they break.

### ClientGame, GameLoop

`GameLoop` is `serve()` while a game is on, for the clients of one player;
`ClientGame` is `tedomari::game::Game` and the part of `PartialWorld` it drives.

| TLA+ | code |
|---|---|
| `phase`, `toVisit` | `handleClientMessages`, the orders and the tick, the flush; the clients the loop has not come to |
| `clients`, `orderQueue`, `outgoing` | `Server::clients`, and the two queues of a `RemoteClient` |
| `timeNow`, `units`, `nextUnitId` | the world's clock, the player's units with their linear targets |
| `toServer`, `toClient` | messages on the way; the kernel has room for `Room` of them and a send waits for it |
| `views[c]` | a client's clock and units, the `altered` flag of each, and whether an update was ever out of order |
| `log`, `events` | history for the properties, and the count that bounds orders, creations and accidents |

`TakeOrders`, `ClientLeaves`, `ApplyOrders`, `Tick`, `FlushOutgoing`, `FlushThrows`
are the server; `GiveOrder`, `ReadUpdates` and `GoAway` the clients. `Tick` is
`incrementGameState` as far as the player's units go: motion handlers bring a
velocity closer to its target, a unit is created, killed, stopped by a collision or
changed, and its clients are told only of what they cannot work out.

Abstractions: positions lie on a round line and orders set a velocity only.
`PlayerListsExact` and `RolesFrozen` of FusekiServer are why the player's list of
clients is `clients`. Clients' orders are applied in any order of the clients (the
code's is the order they were attached in). Units do not change hands
(SensorReturns has that). The alteration of a unit just before its removal, and the
energy and metal in each message, are left out. A leave message and a failed socket
are one `ClientLeaves`, and interrupts are left to FusekiServer.

`SharedGame` is the abstract specification: orders submitted and carried out in
order, a log of ticks, and members that see each tick of the log, one after the
other.

### MapTopology

A unit with a position, a velocity and a facing on one of six maps: `Steer` sets any
velocity up to `Speed`, `Transform` is `Map::transform`, and `ResolvePosition` has one
operator per topology. The loops that add or subtract a width until the position is on
the map are written as the remainder they compute and the quotient that says how
often they run, since it is its parity that reflects. Orientations are products of
reflections; heights, rotations and a unit's own turning are left out.

### Plugins

| TLA+ | code |
|---|---|
| `list` | the leaf `server:plugins`, a `StringSetLeaf` |
| `loaded`, `branches` | the keys of `Server::plugins`; the children of `PluginsBranch` |
| `pending`, `acting` | `pendingActions` and whether `handlePendingActions` runs |
| `failure` | what ended the server: an assertion of `AddPluginAction::act` or `removePlugin`, or a branch that was there already |

Requests are those of admins to enter, strike and clear. `ChangeList` includes
`checkPlugins`, which puts actions in front of the queue in any order the sets may be
walked in; `LoadFails`, `InitThrows`, `LoadNamed`, `LoadOther` and `BranchExists` are the
ends of `AddPluginAction::act`; `LoadOther` includes the correction of the entry, two
changes of the list with their callbacks. Names and the plugins they find are
constants. The other actions of the queue are left out: none is ever put between a
flag for a plugin and its turn. That `AddPlugin` may find its plugin loaded and
`RemovePlugin` its plugin gone has no action; the check for deadlock shows that it
cannot happen. Which plugins throw in `init` is a constant (`Unwilling`), though the
replay recorder's depends on whether the game is on, and the plugin found by the name of a
plugin is taken to be that one, which two search paths could break; the argument for
`ListComesTrue` rests on neither. Listeners, options and loading on Windows are not
modelled.

## 4. What is checked

| run | instance | shows |
|---|---|---|
| `lobby` | 2 clients, 1 socket may break, 2 maps, requests on every flag, on players, observers and maps | `TypeOK`; `ObligationsKept`: a lobby that needs an admin, or can start, has the action queued that sees to it, and the game starts on no stale check; `ObserversApart`; `TreeAgrees`; `PlayerListsExact`: players hold exactly the connected clients assigned to them; `NoInternalAbort`; `GroupsMatchRoles`; `RolesFrozen`: no role changes once the game is on; `NoRequestInherited`: no id is reused while a request of its old owner is queued |
| `progress` | 2 clients, 1 broken socket, interrupts, fairness | `ServerCatchesUp`: the queue drains and dead clients go; `StartHappens`, `AdminAppears`, `InterruptEnds` |
| `sensors` | neutral and one player, 3 units with a radar, 2 ids of each kind a player | `BooksAgree`: the players' lists and the units' owners and ids say the same, and a return is empty exactly if its unit is gone; `NeitherSideErrs`: no fatal error of the server, and no update names an id the client should, or should not, know; `ViewComplete` and `ShownAsPerceived`: after each tick the client has its player's units and returns, as they are; `ClientExtrapolates` |
| `tick` | 3 units of 3 kinds, 3 ticks, 2 fuse tokens, 2 beams, a shell, a lingering effect | `NoFatal`; `ParalysisFuses`: whoever is paralysed wakes up, as the tables of fuses and the layers agree; `EveryUnitOnce`: the loop skips no unit and updates none twice; `HealthWithinBuilt`; `ImplementsFuseBook`; `TickEnds` |
| `network` | 2 tedomaris, 2 connections, 1 client id, TCP | `JoinAgreement`: a tedomari that thinks it has joined is the client it thinks it is, or will learn otherwise; `ServesUntilOver`; `ImplementsChannels`; `ForgetsTheGone` |
| `updates` | 2 clients, 2 units, 4 ticks, 2 events | `TypeOK` with no update out of place; `AtMostOneMoveBehind`: what is not sent never adds up; `ImplementsSharedGame`; `OrdersTakeEffect` |
| `maps` | six maps of 4 by 4 off the origin, velocities up to 3 | `TypeOK`: the unit stays on the map; `StepsAddUp`: two moves come to what one by both comes to; `WayIsShortest` |
| `plugins` | 4 plugins of every sort, 6 names, 3 requests at once | `ListComesTrue`: the flags in the queue are always the difference between the plugins and the list |
| `blink`, `torpedo`, `abandoned`, `lagging` | the least instances | findings 1 to 4 below |

### Bounds

*Lobby.* `MaxClients` 2 is the least for one client to act on, outlive or take the
id of another; `MaxRequests` 1 keeps one client request queued at a time, while
the server's own actions, whose interplay is the difficulty, queue without bound;
`MaxBroken` 1 lets every send fail for some client. With two client requests
queued the run exceeds eight million states; the safety properties that are
proved (below) hold for every bound. A game that has ended stutters (`Stopped`), so
that deadlock is checked: the server is stuck nowhere else.

*Sensors.* Three units are the least with two sensers and one they see, or one
of a player's units lost while another stays; two ids of each kind for each
player, the least for an id to follow a unit or return that is gone, and for a
unit to come back to a player it has left. With one sensor there are three
readings, all reachable with the radar on and off. The units are a symmetry set,
which is sound for invariants, and the run checks nothing else. Deadlock is checked: the
ids of a player run out, but a tick can always be finished, with readings that add
no return.

*Tick.* Two units to start with and one to be created; hit points in units of an
explosion's damage, so that a commander survives one and not two. Two tokens, fewer
than the fuses a game of three ticks asks for: tokens wrap and are used again. Fuses
last two ticks, so that several wait at once, for the same tick or for different ones,
and units die before and after they go off. The repository's test universe has no
corpses; a wreck is added so that `kill` takes both its ways. The game stops at
`MaxTime`, hence no check for deadlock.

*Network.* Headers of two bytes to the base nine, so that the shortest message may be
cut inside its header and behind it. One id for two tedomaris: one may be
turned away, and the id passes on. Interfaces that have failed or crashed, and a
server that has ended, may stop for good, hence no check for deadlock.

*Updates.* Two events allow an order and an accident, two orders of different clients
for one unit, or a unit that is created and killed; four ticks the effect of an order
to reach a client that has `Room` for one message and reads late. The last tick of the
bound ends the run.

*Maps.* Four by four with velocities up to three, and sums of two velocities
of up to nine: a unit crosses up to three edges at once. *Plugins.* Two that load
and share a beginning of their names, one of which also has a name of its own that is
shorter, one that throws and one that is broken.

### Fairness

*Lobby* (`FairSpec`): `serve()` is one thread that keeps running, and none of its
steps waits for a client, so its loops have weak fairness. That the loops over
messages and joins end (`ClientDone`, `JoinsDone`) is assumed: each pass drains
finitely many. Nothing is assumed of clients: they need not leave, ask or break,
and `AddClient`, `ReceiveChangeSetting`, `ClientLeaves`, `SocketBreaks` and
`Interrupt` have none.

*Tick*: weak fairness of `Next`; the server keeps calling `incrementGameState`, which
is one thread that waits for nothing. That a lingering effect is removed or not, and
whom it reaches, stays open. *Network*: weak fairness of the server's loop, of its five seconds and of
resets that are on their way, and strong fairness of `Delivery`: a server that reads a
client's socket again and again does not find nothing for ever while bytes are on
their way. Nothing is assumed of tedomari. *Updates*: weak fairness of the server's
steps, and of a client's reading, which is part of its main loop; nobody needs to
order or leave, and nobody's leaving needs to be noticed.

## 5. What is proved

### FusekiServer

`FusekiServerProofs` proves, for every number of clients, maps, play modes and
requests, and for builds with and without `assert`:

| theorem | property |
|---|---|
| `TypeCorrect` | `TypeOK` |
| `TreeShowsState` | `TreeAgrees` |
| `ObserversStayApart` | `ObserversApart` |
| `NeverAbortsItself` | `NoInternalAbort` |
| `RequestsNotInherited` | `NoRequestInherited` |
| `AdminsConsent` | `AdminConsents` |
| `PlayersListTheirs` | `PlayerListsExact` |
| `GroupsFollowRoles` | `GroupsMatchRoles` |
| `RolesStayFrozen` | `RolesFrozen` |
| `ServerKeepsObligations` | `ObligationsKept` |

The assumptions are those of the module: bounds are naturals, requests are among
the leaves of the tree, a play mode numbers its players from 0 and has a neutral
one, and `None` is no id, path or map.

The inductive invariant is

    IInv == TypeOK /\ TreeAgrees /\ ObserversApart /\ QueueFits /\ GroupsLocked /\ NoInternalAbort

`NoInternalAbort` is not inductive alone. That the tree never refuses the
server's own change needs `TreeAgrees` (a refusal is a leaf that already has the
value) and `ObserversApart` (`clearPlayers` assigns player 0, which the tree
refuses to an observer). That the actions of the lobby never run in the game needs
the queue to hold none of them when it starts and none to be added later:
`QueueFits` says that nothing is queued while joins are taken or the game is
being started, that the game's queue holds none of the lobby's actions, and that
`SetMapPlayMode` is queued only once there is a map; `GroupsLocked` says that in
the game no client has a group but `world` and `playtime`, so that no request can
add one. `NoRequestInherited` follows because clients are admitted only in the
`join` phase, where `QueueFits` leaves no request. `AdminConsents` needs only the
guards of the two actions that make admins and that a tree in agreement refuses
the repeated value; no run checks it.
There is one lemma per action, a shared lemma for the actions that only remove a
client (`RemoveClientIInv`) and one for those that leave most variables alone
(`BystanderIInv`).

The last four have invariants of their own, inductive relative to `IInv`:

    RolesInv == AbsentUnassigned /\ PlayerListsExact /\ GroupsMatchRoles
    OwedInv  == ObligationsKept /\ StartPending

An id is used again after its client has left. `AbsentUnassigned` says that nobody
is assigned or in a group under an id that is free, so that the next owner starts
with player 0 and no group. The hard steps of `RolesInv` are those that reassign
clients: the change of a client's player (`ChangePlayerRoles`, over `ReattachClients`,
which says what happens to every list), and a new play mode, which clears all players
at once (`ActSetMapPlayModeRoles`). In `RolesFrozen` the steps of the game either
touch no role or remove a client (`QueueFits` and `GroupsLocked` of `IInv`).
For `OwedInv` the argument is one about the queue: an entry stays queued until it is at
the front and acts (`RequeueKeeps`), and whatever makes a lobby lack an admin, or able to
start, queues the action that sees to it in the same step. That the game starts on
no stale check needs to know where the loop may be between the decision and the
start, which is `StartPending`.

### SensorReturns

`SensorReturnsProofs` and `ShownProofs` prove, for any units, players, sensors, joint
readings and bounds on ids:

| theorem | property |
|---|---|
| `TypeCorrect` | `TypeOK` |
| `OwnersAlwaysAgree`, `EmptyProvesGone`; `BooksAlwaysAgree` | `BooksAgree`, in two parts and whole |
| `ServerSafe`, `UpdatesFit`; `NoSideErrs` | `NeitherSideErrs`, in two parts and whole |
| `UnitsAlwaysKnown`, `ReturnsAlwaysKnown`; `ViewsComplete` | `ViewComplete`, in two parts and whole |
| `NeverQuietlyWrong` (`ShownProofs`) | `WrongOnlyIfOverlooked` |
| `NoOtherDeath` (`ShownProofs`) | `DiesOnlyOfOverlooked` |

The inductive invariant is

    IInv == TypeOK /\ OwnersAgree /\ UnitsTold /\ EmptyMeansGone /\ ReturnsTold
              /\ PlayersChecked /\ ServerNeverFails /\ ClientNeverMistaken

The properties of the client hold only at the end of a tick, or speak of one
update; `UnitsTold` and `ReturnsTold` say what makes them so at every step. The ids
in use are below the player's counter, so that an added id is new both to the
server and to the client; the client has the same ids as the player; and what it has
of a unit that is not dirty is its status. A change of owner is the hard step: the
unit leaves one list and enters another, under an id of the other player, and the
clients of both are told. `UnitsFit` states the three facts for given lists and
views, so that the lemmas can speak of the lists in between. `ReturnsTold` also
says that a return is empty exactly if nothing is perceived by it, which is how an
update decides that a return is lost, and that player 0 has none. `PlayersChecked`
is how far the tick has come: a player whose turn is over senses living units of
others only, because the first loop has dropped the empty returns and the second
has visited every unit, its own among them.

What a client is *shown* needs more. It is not always what its player perceives: of a
senser with several sensors, one that reads nothing keeps its last reading while
another holds the senser in place, and when it reads again what it read before, no
change is seen and nothing is sent (`blink`). `ShownProofs` shows that this is the
only way for a client to be wrong, and the only way for it to die. A return is `Overlooked`
when its player perceives the unit and no region, some senser keeps both, and its
clients, shown no unit, were not told of it in this tick. The invariant, `ReturnsShown`, is
inductive relative to `IInv` and says of each return that

* if it is not dirty, its clients are shown the unit as it is perceived, or none, and then
  every senser keeps a region (`ShownRight`): when no unit was perceived, each read a
  region, and any new reading since would have made the return dirty;
* once checked in this tick it is not dirty, and has been told of if a region is
  perceived; what is told of in a tick is right until the tick ends (`ToldOf`);
* all that is perceived is kept by some senser;
* it is dirty, before the checks, if the unit it shows is dirty (`FlaggedIfDirty`, the
  rule that `setDirty` relies on when it skips the returns of a dirty unit).

At the end of a tick, then, a return of which nothing was told and that shows no unit has no
region in its perception, hence the unit; a senser that keeps the unit also keeps a
region, and the return is overlooked (`UntoldIsOverlooked`). With one kind of sensor no senser
can keep both, and it follows that `ShownAsPerceived` and `ClientExtrapolates` hold as they
stand (`OneSensorSuffices`): that is what the run `sensors` checks of them.

No run checks `WrongOnlyIfOverlooked` and `DiesOnlyOfOverlooked`. To see them hold where
returns are overlooked and clients die, put them in the place of `ClientExtrapolates` in
`blink.cfg`, the one as an `INVARIANT` and the other as a `PROPERTY`.

There is one lemma per action for each of the two invariants. The steps of the two
loops share `LoopIInv` and `LoopShown`: such a step changes the returns and the view
of one player, and need only do right by these (`ReturnsFit`).

### MapTopology

`MapTopologyProofs` proves, for maps of any size, anywhere, and any velocities,
`UnitsStayInside` (`TypeOK`, which is inductive), `NoSeam` (`StepsAddUp`, for plane,
cylinder, torus and Moebius strip) and `ShortestWay` (`WayIsShortest`). `StepsAddUp` quantifies over a second step from
any position and needs of the invariant only that the position is on the map. The
argument: quotient and remainder are unique (`RemainderUnique`), so that wrapping what
has been wrapped and moved is wrapping once, and the rounds add up (`WrapTwice`); on
the Moebius strip it is their parity that reflects, and the reflection of a row that
is then moved by the reflected step is the reflection of the row moved by the step.

For `ShortestWay`, a step of at most a width goes over one edge, over the other or over
none (`RoundOnce`), and for each of these there is one of the three ways that
`MobiusDifference` compares, which all lead to the goal (`ThreeWays`). A step that an
edge stops has gone no less far than to where it is stopped (`Stopped`), so that none of
the steps is shorter than its way (`NoneShorter`), and the shortest of the three is picked.

### TCPSocket, Joining, Channels

`JoiningProofs` proves, for any number of tedomaris, connections and ids, any header and
base, and `~Datagrams`, that is over TCP, which is what `Spec` of Joining is about
(`UnixJoining` has its own, in which `ServesUntilOver` is false, finding 3):

| theorem | property |
|---|---|
| `FrameReadBack` | of `send` and `receive`: a message that was framed is read back, whatever follows it |
| `TypeCorrect` | `TypeOK` |
| `ServerServes` | `ServesUntilOver` |
| `JoinedAreKnown` | `JoinAgreement` |
| `SocketsAreChannels` | `ImplementsChannels` |

The assumptions are those of the modules: the header has at least one byte; ids are
finitely many and bytes, as are the seven types of messages; and connections are numbered,
so that the next one can be chosen. The inductive invariant is

    Inv == Types /\ StreamsFramed /\ EndsAgree /\ Once /\ SocketsOwned /\ LoopOK /\ Agreement

`StreamsFramed` is about bytes: the buffer and the wire of a stream together are the
frames of what was promised, until a reset has arrived. Sending, arriving and receiving
keep it so wherever the bytes are cut, and what is received is what was promised first:
one message at a time (`OneTakenGood`), or all that are whole (`AllTakenGood`, by counting
the frames). `EndsAgree` relates the two ends of a connection, the resets between them
and the server's queues: a connection whose join has not been read carries nothing
downwards and no reset upwards, which is why `serve` cannot die of it (`LoopOK`). `Once`
says that a connection is in one place of one queue, or one client; `SocketsOwned` that a
socket belongs to one interface, whose stage tells whether it is open.

`JoinAgreement` is not inductive: an Accept may be on its way while the server already
removes the client. `Agreement` therefore says of a client that waits what the *first*
message on its way will make it believe: if it is an Accept, the server knows the
connection by that id, or a Kick or a reset comes behind. It also says that a client that
waits or has joined has sent no Leave, after which the server would rightly forget it
without a word. That an id passes on only when its client has been told is why `Once` is
needed. There is one lemma per action; the actions of tedomari that close its end share
`ClosesInv`, those that change one interface `StaysInv`, and what the server does to a
single connection `OnOneInv`.

`SocketsAreChannels` maps a direction of a connection to what is promised in it, to what
the last step took from it, and to whether it has broken. Of each action `LinkSteps` is
proved: each direction of each connection hands over its first messages, or is sent
more, or breaks and loses the last ones, which `Channels` allows.

### Plugins

`PluginsProofs` proves `TypeCorrect` (`TypeOK`) and `ListAlwaysComesTrue`
(`ListComesTrue`) for any plugins, names, ways in which names find plugins, failing
plugins and number of requests. The inductive invariant is

    IInv == TypeOK /\ ListComesTrue /\ OneWanted

`OneWanted` says that at most one plugin is waiting to be loaded and that no other is waiting
to be unloaded meanwhile: a request adds one name to a list that had come true.
That is what lets the correction find the flag it has just caused at the front of the queue, and what
makes the pushes of `checkPlugins`, which does not look at what is queued, push nothing
twice. The lemmas `Checked`, `CheckedNothing` and `CheckedOne` say what `CheckPlugins` puts into a
queue; there is one lemma per action, or per group of actions that end alike.

### ClientGame, GameLoop, SharedGame

`GameLoopProofs` proves, for any clients, units, velocities, bounds and room in the
kernel:

| theorem | property |
|---|---|
| `LoopInvariant` | `LoopInv`, the inductive invariant |
| `LoopTypes` | `TypeOK` |
| `NeverTwoMovesBehind` | `AtMostOneMoveBehind` |
| `LoopSharesTheGame` | `ImplementsSharedGame` |

The assumptions are those of the module. The velocities are all those between a least
and a greatest, as acceleration goes through them and a collision stops a unit, and the
unit that stands on the map has an id among `Units`.

    LoopInv == TypeInv /\ WorldInv /\ ViewsInv /\ MessagesInv /\ QueueInv

The client reads when it likes, several messages behind, so the invariant cannot speak
of what its view will be; it says what each message *does to any view* that may
be there. A view is `Settled` to a tick if it has the units of that tick, with their
velocities and targets, each in its place or one move behind it, and in its place if
its status has just been sent. A message on its way `Completes` a tick: it
takes every view that is settled to the tick before to one that is settled to its own;
or it is empty and repeats a tick, which happens when a failed flush makes the loop
start again (`MessageRight`). What waits in the queue of a client `Prepares` the next tick
while orders are taken and carried out, which leaves the view `Ahead`: it has moved units that the world
has not. `Tick` turns what prepares into what completes: a unit that is neither new nor
dead, nor sent, must have gone on as the client expects, or be one move behind again,
and one that was behind cannot fall back further, since `endTick` moves all that is not
`altered`. The updates of the three kinds are each queued in any order
(`SetToSeq`; `InSomeOrder`, `TickOf`), and the result does not depend on it.

`ClientGame` and `Carried` go through sequences by recursive functions. What these
yield is proved by counting: the numbers up to which a fact holds are a set,
and `CountUp` (from the well-foundedness of the numbers) shows that a set with 0 and
the successor of each of its members has all of them. This needs no induction theorem
with an operator as parameter.

`LoopSharesTheGame` maps `orderQueue[c] \o toServer[c]` to the orders submitted, the
targets of the units to the goals, the log to itself, and a view to the tick of its
clock. `ApplyOrders` carries out all that is queued, and the last order for each unit is
the one that counts (`QueueCarried`); a client with nothing queued makes it a stutter. `ReadUpdates` shows the next tick, or
stutters on an empty message: that is `MessagesInv`. Everything else but
`GiveOrder`, `ClientLeaves`, `FlushThrows` and `Tick` stutters.

### WorldTick, TestGame, FuseBook

`TestGameProofs` proves, for any units, kinds, weapons, corpses, fuses' delays and
bounds, and for any number of tokens:

| theorem | property |
|---|---|
| `Invariance` | `IInv`, the inductive invariant |
| `GameTyped` | `TypeOK` |
| `NoCallFails` | `NoFatal` |
| `TheParalysedWakeUp` | `ParalysisFuses` |
| `UnitsVisitedOnce` | `EveryUnitOnce` |
| `ConstructionWithinBuilt` | `HealthWithinBuilt`, assuming `CorpsesEnd` |
| `GameKeepsTheBook` | `ImplementsFuseBook` |

    IInv == PeopleOK /\ FusesOK /\ FuseTimes /\ RestOK

`ParalysisFuses` and `NoFatal` are not inductive. That `addFuse` gives out a free token
is true only because of the order in which fuses end: all of this game are set for
the same time ahead (`FuseTimes`: none later than one that would be set now), so that they
come to the top of the queue in the order their tokens were given out (`InAgeOrder`).
Only the top ever leaves the queue, that of a removed fuse included, so the tokens
in the queue are the youngest ones, without a gap (`NoGaps`), and the next token is free as
long as fewer are in the queue than there are (the guard of `Paralyse`, which stands for
2^32 fuses being out of reach). `Age` counts from the last token given out, backwards
and around; `NextAges` is what giving out one more does to it.
The other half (`PeopleOK`) says, unit by unit, that its layers carry the tokens of
exactly the fuses that point to it, each once (`Carries`, and what the operations on
sequences of layers do to it). Damage is the hard step: the units of which nothing is left
are taken out of the list together, and the tokens of their layers are exactly those the map has
for them (`TokensOfTheDead`). What damage leaves of a unit goes down the
corpses by a recursive function of the amount, whose existence is proved by counting (`LeavesExists`).

`UnitsVisitedOnce` adds `Turns`: the first iterator is at some place of the list,
all before it are done, and all after it are new or due; the second is at the next
place, or at the end, and then whatever came after it was spawned in this tick.

`ConstructionWithinBuilt` assumes that no kind is, by way of corpses, its own corpse
(`CorpsesEnd`: the kinds can be ranked so that a corpse ranks below). The
property exempts corpses, which come with full hit points whatever was built, and tells them by their
kind; a unit whose kind came back would be a corpse that looks like none. The code does
not check this of a universe; it holds in the test game's, which has no corpses, and in the
run's, whose wreck leaves none. No other theorem assumes it.

`GameKeepsTheBook` rests on the same order. The book is the sequence that lists, by
age, the entries of the queue whose fuses are not removed (`InOrderLists`, through the
priorities one after the other), and there is only one such sequence (`OneList`); so
each step needs to be looked at only for the *set* of entries it leaves. `ExpireFuse` takes
the top, which is the first of the book and due now (`FuseTimes`); `Paralyse` adds an
entry that is younger than all and due no earlier; damage takes out the entries of
the dead; `SkipRemoved` changes nothing; and a tick starts only when none is due.

The assumptions are `WorldAssumption`, `GameAssumption` and `LastTimeAssumption`, on the
types of the constants and the bound of the run; of them `MaxTime + FuseDelay <= LastTime`
says that the clock, a machine integer, is not run to its end.

### Only model-checked

Liveness (the run `progress`, `OrdersTakeEffect`, `TickEnds`, `ForgetsTheGone`) is out of
reach of TLAPS with the backends used. Of `UnixJoining` and of `Sagittarius` only
findings 3 and 2 are checked.

## 6. Where the repository disagrees with itself

Each of these has a run that shows it.

1. `blink`: `UpdatedSensorReturns::incrementState` takes it that a return without
   the unit is altered every tick. `SensorCapability::updateReturn` leaves a
   sensor's last reading in place when it reads nothing and reports a change only
   when a reading differs from the last one. A radar that is switched off and on
   again, while the eye of the same unit makes out a region and then loses it, reads
   what it read before: nothing is sent, and the client dies. It dies of
   nothing else (`NoOtherDeath`).
2. `torpedo`: `~LayeredUnit` asserts that nobody else holds its top layer. A
   torpedo's fuse is its top layer and a fuse of the world, and nothing removes the
   latter when the torpedo is shot down (the paralysing layer of the test game does,
   in `onRemoval`).
3. `abandoned`: `serve` "will not return until either an entire game has taken place
   or the server is interrupted". Over Unix sockets the server connects to the
   socket that a join message names; if tedomari has given up or died before the
   message is read, the exception of the constructor is caught nowhere.
4. `lagging`: the client is to call `endTick` "after applying all the Updates for a
   single tick". `Game::pushUpdates` calls it before. A unit that an update altered
   is left where it is in the next tick, in which the server moves it without a word;
   until it is altered again it is one move behind. `AtMostOneMoveBehind` is what
   still holds.

Seen while modelling, kept in the models as the code has them, and given no run:

*Lobby.* Clearing a client's `admin` leaf leaves it in the group `admin`, which is
what is tested (`doc/SettingsTree.dox` says the leaf is true iff it has the
privileges). Choosing another universe keeps the map read for the old one, and
asking for the same map again does nothing. Writing `game:paused` reaches
`SAKUSEN_FATAL`. Assigning a client to a player that takes none fails an `assert`
(`server/player.cpp:93`); `attachClient` ignores `maxclients`. Sends outside a
`try` (the Accept, the rejection of a change, the GameStart) end the server if the
socket has failed, and so does a reset found when a new connection is read; over TCP,
no tedomari brings about the first or the last (`ServerServes`).

*Sensors.* A comment in `DynamicSensorReturns::update` says player 0 sees
everything, so that observers do; a return counts as empty when it has no sensers,
player 0's never have any, and `player.cpp:210` keeps no empty one: observers see no
other player's units. The owner of a unit in a return is sent only with a perception bit
that nothing sets (`sensorreturns.cpp:12`), though a comment relies on it
(`unitcore.cpp:201`). A return seen by two sensers can show a region and the unit at
once, against the comment at `sensorreturns.h:84`.

*Plugins.* `PluginInterface::load` is to throw a `PluginExn` "if anything goes wrong"
(`plugininterface.cpp:36`). A plugin that is loaded and asked for by the beginning of its
name, or asked for again after its `init` threw, reaches the `SAKUSEN_FATAL` of
`PluginsBranch::addPlugin` instead (`BranchExists`).

*Game.* A newborn unit that is announced before its first move is one move behind
at the client in the same way as in finding 4. Orders in progress of a unit that changes hands
are not told to its new owner's clients. A corpse keeps the weapons of the unit it was.

*Maps.* Klein bottle and crosscut turn what leaves over the top by `reflectionY` and
what leaves over the bottom by `reflectionX`, although the two edges are glued to each
other. The sphere computes its top edge from `bottom()` and turns by 90, where angles
are hundredths of a degree. `Point<double>::round` truncates, though documented to
take the nearest (`point.h:339`). `getShortestDifference` is `SAKUSEN_FATAL("not
implemented")` for five topologies, and an order to a position calls it
(`groundmotion.cpp:46`). The test for collisions looks at the position before it is
brought back over the edge (`groundmotion.cpp:173`).

## 7. Not modelled

* The components marked `not_modelled` in `PROJECT.json`: vendored libraries,
  bindings, build files and content are not the program's own logic; the graphical
  interface, resource lookup, options and mDNS are input and output without protocol
  state.
* Of the lobby: leaves and settings that no property tells apart, saving and
  loading; of its joins: one server that listens to TCP and Unix sockets at once,
  connections still waiting when the game starts, messages too long for the
  receiver's buffer, and a kernel buffer that is full (a send that waits is in
  GameLoop). A tedomari that crashes with nothing unread is a client until
  something is sent to it, as in the code; `ForgetsTheGone` leaves such clients out.
  UDP, which nothing uses for play, is out.
* Of the world: positions, ranges and resources within a tick, the charging of
  weapons, `onUnitEnter` and `onUnitLeave` of effects, `applyEntryExitEffects`; of
  sensor returns: ballistics, radii, the numeric visibility formula; in GameLoop:
  orders of position and orientation, updates about anything but units.
* Of geometry: the sphere, height fields, regions, collisions and rotations.
* Of plugins: their options and listeners, and loading on Windows.
