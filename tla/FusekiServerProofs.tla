------------------------- MODULE FusekiServerProofs -------------------------
(***************************************************************************)
(* Theorems about FusekiServer, for any number of clients, any universes,  *)
(* maps and play modes, any set of requests and both kinds of build.       *)
(***************************************************************************)
EXTENDS FusekiServer, SequenceTheorems, FiniteSetTheorems,
        WellFoundedInduction, TLAPS

\* The actions that assume the game has not started
LateKinds == {"requestUniverse", "requestMap", "setMapPlayMode"}
InGameActions == {a \in ServerActions : a.kind \notin LateKinds}
\* The actions that do not assume that there is a map
MaplessActions == {a \in ServerActions : a.kind # "setMapPlayMode"}

\* What may be queued when: nothing while requests to join are taken or the
\* game is being started, nothing that belongs to the lobby once it has.
QueueFits ==
    /\ phase \in {"join", "starting"} => pending = <<>> /\ ~gameStarted
    /\ gameStarted => pending \in Seq(InGameActions)
    /\ map = None => pending \in Seq(MaplessActions)

\* In the game clients keep only the groups world and playtime.
GroupsLocked ==
    gameStarted => \A c \in clients : groups[c] \subseteq {WorldGroup, PlaytimeGroup}

IInv ==
    /\ TypeOK
    /\ TreeAgrees
    /\ ObserversApart
    /\ QueueFits
    /\ GroupsLocked
    /\ NoInternalAbort

LEMMA InitIInv == Init => IInv
<1> SUFFICES ASSUME Init PROVE IInv
    OBVIOUS
<1> USE DEF Init
<1>1. TypeOK
    BY EmptySeq DEF TypeOK, Phases
<1>2. TreeAgrees /\ ObserversApart /\ GroupsLocked /\ NoInternalAbort
    BY DEF TreeAgrees, ObserversApart, GroupsLocked, NoInternalAbort
<1>3. QueueFits
    BY EmptySeq DEF QueueFits
<1> QED
    BY <1>1, <1>2, <1>3 DEF IInv

\* Requeue keeps the queue within any set of actions it was in, if what is
\* prepended and appended is in that set.
LEMMA RequeueSeq ==
    ASSUME NEW S, pending \in Seq(S), pending # <<>>,
           NEW front \in Seq(S), NEW back \in Seq(S), Requeue(front, back)
    PROVE  pending' \in Seq(S)
<1>1. Tail(pending) \in Seq(S)
    BY HeadTailProperties
<1>2. front \o Tail(pending) \in Seq(S)
    BY <1>1, ConcatProperties
<1>3. (front \o Tail(pending)) \o back \in Seq(S)
    BY <1>2, ConcatProperties
<1> QED
    BY <1>3 DEF Requeue

\* Start checks and the search for an admin may be queued at any time.
LEMMA ChecksSeq ==
    ASSUME NEW n \in Nat
    PROVE  /\ Checks(n) \in Seq(ServerActions)
           /\ Checks(n) \in Seq(InGameActions)
           /\ Checks(n) \in Seq(MaplessActions)
<1>1. /\ CheckForGameStart \in ServerActions
      /\ CheckForGameStart \in InGameActions
      /\ CheckForGameStart \in MaplessActions
    BY DEF CheckForGameStart, ServerActions, InGameActions, MaplessActions, LateKinds
<1> QED
    BY <1>1, SeqDef DEF Checks

LEMMA EnsureSeq ==
    /\ <<EnsureAdminExists>> \in Seq(ServerActions)
    /\ <<EnsureAdminExists>> \in Seq(InGameActions)
    /\ <<EnsureAdminExists>> \in Seq(MaplessActions)
<1>1. /\ EnsureAdminExists \in ServerActions
      /\ EnsureAdminExists \in InGameActions
      /\ EnsureAdminExists \in MaplessActions
    BY DEF EnsureAdminExists, ServerActions, InGameActions, MaplessActions, LateKinds
<1> QED
    BY <1>1

-----------------------------------------------------------------------------
(* Steps that remove a client, or leave all but a little alone *)

\* Attaching and detaching clients leaves players players.
LEMMA ReattachType ==
    ASSUME players \in [DOMAIN players -> Player],
           NEW c \in ClientIds, NEW old, NEW new
    PROVE  /\ Reattach(c, old, new) \in [DOMAIN players -> Player]
           /\ DOMAIN Reattach(c, old, new) = DOMAIN players
<1>1. ASSUME NEW p \in DOMAIN players
      PROVE  Reattach(c, old, new)[p] \in Player
  <2>1. players[p] \in Player
      OBVIOUS
  <2>2. CASE p # 0 /\ p = new
      BY <2>1, <2>2 DEF Reattach, Player
  <2>3. CASE ~(p # 0 /\ p = new) /\ p # 0 /\ p = old
      BY <2>1, <2>3 DEF Reattach, Player
  <2>4. CASE ~(p # 0 /\ p = new) /\ ~(p # 0 /\ p = old)
      BY <2>1, <2>4 DEF Reattach, Player
  <2> QED
      BY <2>2, <2>3, <2>4
<1>2. DOMAIN Reattach(c, old, new) = DOMAIN players
    BY DEF Reattach
<1> QED
    BY <1>1, <1>2 DEF Reattach

\* removeClient, wherever serve() calls it.
LEMMA RemoveClientIInv ==
    ASSUME IInv, NEW c \in ClientIds, RemoveClient(c),
           phase' = phase, phase \notin {"join", "starting"},
           toVisit' \subseteq ClientIds, visiting' \in ClientIds \cup {None},
           interrupted' \in BOOLEAN
    PROVE  IInv'
<1> USE DEF IInv, RemoveClient, startVars
<1>1. pending' \in Seq(ServerActions)
    BY ChecksSeq, EnsureSeq, ConcatProperties DEF TypeOK
<1>2. TypeOK'
  <2>1. players' \in [DOMAIN players' -> Player] /\ DOMAIN players' = DOMAIN players
      BY ReattachType DEF TypeOK
  <2>2. tree' \in [admin : SUBSET ClientIds, neveradmin : SUBSET ClientIds,
                   observer : SUBSET ClientIds, ready : SUBSET ClientIds,
                   player : [ClientIds -> Nat], allowobservers : BOOLEAN]
      BY DEF TypeOK
  <2> QED
      BY <1>1, <2>1, <2>2 DEF TypeOK
<1>3. TreeAgrees'
    BY DEF TypeOK, TreeAgrees, Running
<1>4. ObserversApart'
    BY DEF TypeOK, ObserversApart, Running
<1>5. QueueFits'
  <2>1. gameStarted' => pending' \in Seq(InGameActions)
      BY ChecksSeq, EnsureSeq, ConcatProperties DEF QueueFits
  <2>2. map' = None => pending' \in Seq(MaplessActions)
      BY ChecksSeq, EnsureSeq, ConcatProperties DEF QueueFits
  <2> QED
      BY <2>1, <2>2 DEF QueueFits
<1>6. GroupsLocked' /\ NoInternalAbort'
    BY DEF TypeOK, GroupsLocked, NoInternalAbort
<1> QED
    BY <1>2, <1>3, <1>4, <1>5, <1>6

\* A step that moves serve() on, and changes no more than the sockets that are
\* broken and the startGame flag.
Bystander ==
    /\ UNCHANGED <<pending, clients, flagVars, playerId, groups, players, universe, map,
                   allowObservers, gameStarted, tree>>
    /\ phase' \in Phases
    /\ toVisit' \subseteq ClientIds /\ visiting' \in ClientIds \cup {None}
    /\ interrupted' \in BOOLEAN /\ startGame' \in BOOLEAN
    /\ dead' \subseteq clients /\ broken' \subseteq clients
    /\ phase' \notin {"treeFatal", "lateActionAssert"}
    /\ Running
    /\ phase' \in {"join", "starting"} => pending = <<>> /\ ~gameStarted

LEMMA BystanderIInv ==
    ASSUME IInv, Bystander
    PROVE  IInv'
<1> USE DEF IInv, Bystander, flagVars
<1>1. TypeOK'
    BY DEF TypeOK
<1>2. TreeAgrees' /\ ObserversApart'
    BY DEF TreeAgrees, ObserversApart, Running
<1>3. QueueFits' /\ GroupsLocked' /\ NoInternalAbort'
    BY DEF QueueFits, GroupsLocked, NoInternalAbort
<1> QED
    BY <1>1, <1>2, <1>3

\* The steps of serve() that only look, wait or give up, and what the world
\* outside does.
LEMMA Bystanders ==
    ASSUME IInv,
           \/ AddClientThrows \/ JoinsDone
           \/ VisitClient \/ ClientDone \/ RelayThrows \/ MessagesDone
           \/ ChangeUnhandled \/ ActionsDone
           \/ StartThrows \/ FlushOutgoing \/ FlushDone \/ ShutdownDone
           \/ Interrupt \/ SocketBreaks
    PROVE  IInv'
<1> USE DEF IInv, TypeOK, clientVars, flagVars, gameVars, startVars, loopVars, Bystander,
            Phases, Aborts, Running
<1>1. CASE AddClientThrows \/ JoinsDone
    BY <1>1, BystanderIInv DEF AddClientThrows, JoinsDone
<1>2. CASE VisitClient \/ ClientDone
    BY <1>2, BystanderIInv DEF VisitClient, ClientDone, DeadFound
<1>3. CASE RelayThrows \/ MessagesDone
    BY <1>3, BystanderIInv DEF RelayThrows, MessagesDone
<1>4. CASE ChangeUnhandled
    BY <1>4, BystanderIInv DEF ChangeUnhandled, Accepted, Changing, Acting
<1>5. CASE ActionsDone
    BY <1>5, BystanderIInv DEF ActionsDone, AllHandled
<1>6. CASE StartThrows \/ ShutdownDone
    BY <1>6, BystanderIInv DEF StartThrows, ShutdownDone
<1>7. CASE FlushOutgoing \/ FlushDone
    BY <1>7, BystanderIInv DEF FlushOutgoing, FlushDone
<1>8. CASE Interrupt
    BY <1>8, BystanderIInv DEF Interrupt, QueueFits, NoInternalAbort
<1>9. CASE SocketBreaks
    BY <1>9, BystanderIInv DEF SocketBreaks, QueueFits, NoInternalAbort
<1> QED
    BY <1>1, <1>2, <1>3, <1>4, <1>5, <1>6, <1>7, <1>8, <1>9

LEMMA RemoversIInv ==
    ASSUME IInv, RemoveDeadClient \/ ClientLeaves \/ RelayRemoves
                   \/ FlushRemoves \/ ShutdownRemoves
    PROVE  IInv'
<1> USE DEF IInv, TypeOK, loopVars
<1>1. CASE RemoveDeadClient
  <2>1. PICK c \in DeadFound : RemoveClient(c)
      BY <1>1 DEF RemoveDeadClient
  <2> QED
      BY <1>1, <2>1, RemoveClientIInv DEF RemoveDeadClient, RemoveClient, DeadFound
<1>2. CASE ClientLeaves
    BY <1>2, RemoveClientIInv DEF ClientLeaves, RemoveClient
<1>3. CASE RelayRemoves
  <2>1. PICK c \in toVisit : RemoveClient(c) /\ toVisit' = toVisit \ {c}
      BY <1>3 DEF RelayRemoves
  <2> QED
      BY <1>3, <2>1, RemoveClientIInv DEF RelayRemoves
<1>4. CASE FlushRemoves
  <2>1. PICK c \in toVisit \cap broken : RemoveClient(c)
      BY <1>4 DEF FlushRemoves
  <2> QED
      BY <1>4, <2>1, RemoveClientIInv DEF FlushRemoves, RemoveClient
<1>5. CASE ShutdownRemoves
  <2>1. PICK c \in clients : RemoveClient(c)
      BY <1>5 DEF ShutdownRemoves
  <2> QED
      BY <1>5, <2>1, RemoveClientIInv DEF ShutdownRemoves
<1> QED
    BY <1>1, <1>2, <1>3, <1>4, <1>5

\* The lowest free id is a client id that is not in use.
LEMMA FreeIdFact ==
    ASSUME FreeClientIds # {}
    PROVE  GetFreeClientId \in ClientIds \ clients
<1>1. \E c \in FreeClientIds : \A d \in FreeClientIds : c <= d
  <2> DEFINE Less == {ss \in Nat \X Nat : ss[1] < ss[2]}
  <2>1. IsWellFoundedOn(Less, Nat)
      BY NatLessThanWellFounded DEF OpToRel
  <2>2. FreeClientIds \subseteq Nat /\ FreeClientIds # {}
      BY CountsAssumption DEF FreeClientIds, ClientIds
  <2> HIDE DEF Less
  <2>3. \E c \in FreeClientIds : \A d \in FreeClientIds : ~(<<d, c>> \in Less)
      BY <2>1, <2>2, WFMin
  <2>4. \A c, d \in Nat : <<d, c>> \in Less \/ c <= d
    <3> SUFFICES ASSUME NEW c \in Nat, NEW d \in Nat, ~(c <= d)
                 PROVE  <<d, c>> \in Less
        OBVIOUS
    <3> QED
        BY DEF Less
  <2> QED
      BY <2>2, <2>3, <2>4
<1> QED
    BY <1>1 DEF GetFreeClientId, FreeClientIds

LEMMA AddClientIInv ==
    ASSUME IInv, AddClient
    PROVE  IInv'
<1> DEFINE c == GetFreeClientId
<1>1. c \in ClientIds \ clients
    BY FreeIdFact DEF AddClient
<1> HIDE DEF c
<1> USE <1>1 DEF IInv
<1>2. /\ clients' = clients \cup {c} /\ neverAdmin' = neverAdmin \cup {c}
      /\ groups' = [groups EXCEPT ![c] = {Group("client", c), WorldGroup}]
      /\ tree' = [tree EXCEPT !.neveradmin = @ \cup {c}]
      /\ dead' = dead \cup (clients \cap broken)
      /\ phase = "join"
      /\ UNCHANGED <<phase, toVisit, visiting, interrupted, pending, admin, ready,
                     observer, playerId, broken, players, universe, map, allowObservers,
                     startGame, gameStarted>>
    BY DEF AddClient, NotifyAll, c, loopVars, gameVars, startVars
<1>3. TypeOK'
    BY <1>2 DEF TypeOK, Groups
<1>4. TreeAgrees' /\ ObserversApart' /\ NoInternalAbort'
    BY <1>2 DEF TypeOK, TreeAgrees, ObserversApart, NoInternalAbort, Running
<1>5. QueueFits' /\ GroupsLocked'
    BY <1>2 DEF QueueFits, GroupsLocked
<1> QED
    BY <1>3, <1>4, <1>5

LEMMA ReceiveIInv ==
    ASSUME IInv, ReceiveChangeSetting
    PROVE  IInv'
<1> USE DEF IInv, ReceiveChangeSetting, loopVars, clientVars, flagVars, gameVars, startVars
<1>1. PICK r \in Requests : pending' = Append(pending, ClientChangeSetting(visiting, r))
    OBVIOUS
<1> DEFINE a == ClientChangeSetting(visiting, r)
<1>2. a \in ServerActions /\ a \in InGameActions /\ a \in MaplessActions
  <2>1. visiting \in ClientIds
      BY DEF TypeOK
  <2> QED
      BY <2>1 DEF ServerActions, InGameActions, MaplessActions, LateKinds, ClientChangeSetting
<1>3. TypeOK'
    BY <1>1, <1>2, AppendProperties DEF TypeOK
<1>4. QueueFits'
    BY <1>1, <1>2, AppendProperties DEF QueueFits
<1>5. TreeAgrees' /\ ObserversApart' /\ GroupsLocked' /\ NoInternalAbort'
    BY DEF TreeAgrees, ObserversApart, GroupsLocked, NoInternalAbort, Running
<1> QED
    BY <1>3, <1>4, <1>5

\* The transition: nothing is queued, and the groups of the lobby are taken away.
LEMMA StartTheGameIInv ==
    ASSUME IInv, StartTheGame
    PROVE  IInv'
<1> USE DEF IInv, StartTheGame, flagVars, gameVars
<1>1. \A d \in clients : GameGroups(d) \subseteq {WorldGroup, PlaytimeGroup}
    BY DEF GameGroups
<1>2. TypeOK'
    BY <1>1 DEF TypeOK, Groups, Phases
<1>3. TreeAgrees' /\ ObserversApart' /\ NoInternalAbort'
    BY DEF TreeAgrees, ObserversApart, NoInternalAbort, Running, Aborts
<1>4. QueueFits'
    BY EmptySeq DEF QueueFits
<1>5. GroupsLocked'
    BY <1>1 DEF GroupsLocked, TypeOK
<1> QED
    BY <1>2, <1>3, <1>4, <1>5

-----------------------------------------------------------------------------
(* Steps of the pending actions *)

\* What is known of a request when a change to a setting is accepted.
LEMMA AcceptedFacts ==
    ASSUME IInv, NEW s, Accepted(s)
    PROVE  /\ phase = "actions" /\ Running /\ pending # <<>>
           /\ Request \in AllRequests /\ Request.setting = s
           /\ Head(pending).client \in clients
           /\ MayWrite(Head(pending).client, Request)
           /\ ~Refused(Request)
<1> USE DEF Accepted, Changing, Acting, Granted, IInv, TypeOK
<1>1. Head(pending) \in ServerActions /\ Head(pending).kind = "clientChangeSetting"
    BY HeadTailProperties
<1>2. Request \in Requests
    BY <1>1 DEF Request, ServerActions, ClientChangeSetting, EnsureAdminExists,
                CheckForGameStart, SetMapPlayMode, RequestUniverse, RequestMap
<1> QED
    BY <1>2, RequestsAssumption DEF Running, Aborts

\* In the game a client may set no leaf but "paused".
LEMMA LobbyOnly ==
    ASSUME IInv, NEW s, s # "paused", Accepted(s)
    PROVE  ~gameStarted
<1>1. groups[Head(pending).client] \cap Writers(Request) # {}
    BY AcceptedFacts DEF MayWrite
<1>2. Request.setting = s /\ Head(pending).client \in clients
    BY AcceptedFacts
<1>3. Writers(Request) \cap {WorldGroup, PlaytimeGroup} = {}
    BY <1>2 DEF Writers, Group, AdminGroup, WorldGroup, PlaytimeGroup
<1> QED
    BY <1>1, <1>2, <1>3 DEF IInv, GroupsLocked

\* An action that is done keeps the queue fit, if what it queues is.
LEMMA RequeueFits ==
    ASSUME IInv, phase = "actions", pending # <<>>,
           NEW front, NEW back, Requeue(front, back),
           front \in Seq(ServerActions), back \in Seq(ServerActions),
           gameStarted => front \in Seq(InGameActions) /\ back \in Seq(InGameActions),
           gameStarted' = gameStarted, phase' \notin {"join", "starting"},
           map' = None => /\ map = None
                          /\ front \in Seq(MaplessActions) /\ back \in Seq(MaplessActions)
    PROVE  pending' \in Seq(ServerActions) /\ QueueFits'
<1>1. pending' \in Seq(ServerActions)
    BY RequeueSeq DEF IInv, TypeOK
<1>2. gameStarted' => pending' \in Seq(InGameActions)
    BY RequeueSeq DEF IInv, QueueFits
<1>3. map' = None => pending' \in Seq(MaplessActions)
    BY RequeueSeq DEF IInv, QueueFits
<1> QED
    BY <1>1, <1>2, <1>3 DEF QueueFits

\* The same for an action that queues at most an admin search or start checks.
LEMMA PlainRequeueFits ==
    ASSUME IInv, phase = "actions", pending # <<>>,
           NEW front \in {<<>>, <<EnsureAdminExists>>}, NEW n \in Nat,
           NEW back \in {<<>>, Checks(n)}, Requeue(front, back),
           UNCHANGED <<gameStarted, map>>, phase' \notin {"join", "starting"}
    PROVE  pending' \in Seq(ServerActions) /\ QueueFits'
BY RequeueFits, ChecksSeq, EnsureSeq, EmptySeq

\* Actions that find nothing to do, or only tell a client so.
LEMMA IdleIInv ==
    ASSUME IInv, EnsureAdminIdle \/ ChangeIgnored \/ ChangeRejected
                   \/ CheckDeferred \/ CheckDone
    PROVE  IInv'
<1>1. /\ phase = "actions" /\ pending # <<>>
      /\ UNCHANGED <<toVisit, visiting, interrupted, clients, admin, neverAdmin, ready,
                     observer, dead, playerId, groups, broken, players, universe, map,
                     allowObservers, gameStarted, tree>>
      /\ phase' \in {"actions", "socketExn"}
      /\ \E back \in {<<>>, Checks(1)} : Requeue(<<>>, back)
    BY DEF EnsureAdminIdle, ChangeIgnored, ChangeRejected, CheckDeferred, CheckDone,
           Resubmitted, Acting, loopVars, clientVars, flagVars, gameVars, startVars
<1>2. pending' \in Seq(ServerActions) /\ QueueFits'
    BY <1>1, PlainRequeueFits
<1>3. startGame' \in BOOLEAN
    BY DEF IInv, TypeOK, EnsureAdminIdle, ChangeIgnored, ChangeRejected, CheckDeferred,
           CheckDone, startVars, AllClientsReady
<1>4. TypeOK'
    BY <1>1, <1>2, <1>3 DEF IInv, TypeOK, Phases, Aborts
<1>5. TreeAgrees' /\ ObserversApart'
    BY <1>1 DEF IInv, TreeAgrees, ObserversApart, Running, Aborts
<1>6. GroupsLocked' /\ NoInternalAbort'
    BY <1>1 DEF IInv, GroupsLocked, NoInternalAbort
<1> QED
    BY <1>2, <1>4, <1>5, <1>6 DEF IInv

\* The promotion is never refused: no client there is an admin, and the tree
\* says so too.
LEMMA EnsureAdminPromotesIInv ==
    ASSUME IInv, EnsureAdminPromotes
    PROVE  IInv'
<1> USE DEF IInv
<1>1. PICK c \in Candidates :
        /\ phase' = IF c \in tree.admin THEN "treeFatal" ELSE phase
        /\ admin' = admin \cup {c}
        /\ groups' = [groups EXCEPT ![c] = @ \cup {AdminGroup}]
        /\ tree' = [tree EXCEPT !.admin = @ \cup {c}]
    BY DEF EnsureAdminPromotes
<1>2. /\ phase = "actions" /\ pending # <<>> /\ ~gameStarted
      /\ c \in clients /\ c \notin admin /\ Running
      /\ dead' = dead \cup (clients \cap broken)
      /\ Requeue(<<>>, <<>>)
      /\ UNCHANGED <<toVisit, visiting, interrupted, clients, neverAdmin, ready, observer,
                     playerId, broken, players, universe, map, allowObservers, startGame,
                     gameStarted>>
    BY <1>1 DEF EnsureAdminPromotes, Acting, AdminNotNeeded, Candidates, NotifyAll, gameVars,
           startVars, Running, Aborts
<1>3. phase' = phase
    BY <1>1, <1>2 DEF TreeAgrees
<1>4. pending' \in Seq(ServerActions) /\ QueueFits'
    BY <1>2, <1>3, PlainRequeueFits, ChecksSeq
<1>5. TypeOK'
    BY <1>1, <1>2, <1>3, <1>4 DEF TypeOK, Groups
<1>6. TreeAgrees' /\ ObserversApart'
    BY <1>1, <1>2, <1>3 DEF TypeOK, TreeAgrees, ObserversApart, Running
<1>7. GroupsLocked' /\ NoInternalAbort'
    BY <1>2, <1>3 DEF GroupsLocked, NoInternalAbort
<1> QED
    BY <1>4, <1>5, <1>6, <1>7

\* Changes of a flag of one client.
LEMMA ChangeFlagIInv ==
    ASSUME IInv, ChangeAdmin \/ ChangeNeverAdmin \/ ChangeReady
    PROVE  IInv'
<1> USE DEF IInv
<1>1. ASSUME NEW s \in {"admin", "neveradmin", "ready"}, Accepted(s)
      PROVE  /\ phase = "actions" /\ pending # <<>> /\ Running /\ ~gameStarted
             /\ Target \in clients /\ Target \in ClientIds
  <2>1. Request.setting = s /\ NodeExists(Request)
      BY <1>1, AcceptedFacts DEF MayWrite
  <2> QED
      BY <1>1, <2>1, AcceptedFacts, LobbyOnly DEF NodeExists, BoolSettings, Target, TypeOK
<1>2. CASE ChangeAdmin
  <2> USE <1>2 DEF ChangeAdmin, NotifyAll, loopVars, gameVars, startVars
  <2>1. pending' \in Seq(ServerActions) /\ QueueFits'
      BY <1>1, PlainRequeueFits
  <2>2. TypeOK'
      BY <1>1, <2>1 DEF TypeOK, SetTo, Groups
  <2>3. TreeAgrees' /\ ObserversApart' /\ GroupsLocked' /\ NoInternalAbort'
      BY <1>1 DEF TypeOK, TreeAgrees, ObserversApart, GroupsLocked, NoInternalAbort, Running
  <2> QED
      BY <2>1, <2>2, <2>3
<1>3. CASE ChangeNeverAdmin
  <2> USE <1>3 DEF ChangeNeverAdmin, NotifyAll, loopVars, gameVars, startVars
  <2>1. pending' \in Seq(ServerActions) /\ QueueFits'
      BY <1>1, PlainRequeueFits
  <2>2. TypeOK'
      BY <1>1, <2>1 DEF TypeOK, SetTo
  <2>3. TreeAgrees' /\ ObserversApart' /\ GroupsLocked' /\ NoInternalAbort'
      BY <1>1 DEF TypeOK, TreeAgrees, ObserversApart, GroupsLocked, NoInternalAbort, Running
  <2> QED
      BY <2>1, <2>2, <2>3
<1>4. CASE ChangeReady
  <2> USE <1>4 DEF ChangeReady, NotifyAll, loopVars, gameVars, startVars
  <2>1. pending' \in Seq(ServerActions) /\ QueueFits'
      BY <1>1, PlainRequeueFits
  <2>2. TypeOK'
      BY <1>1, <2>1 DEF TypeOK, SetTo
  <2>3. TreeAgrees' /\ ObserversApart' /\ GroupsLocked' /\ NoInternalAbort'
      BY <1>1 DEF TypeOK, TreeAgrees, ObserversApart, GroupsLocked, NoInternalAbort, Running
  <2> QED
      BY <2>1, <2>2, <2>3
<1> QED
    BY <1>2, <1>3, <1>4

\* A client becomes an observer only while observers are allowed and it has no
\* player, since the tree shows whether it is one already.
LEMMA ChangeObserverIInv ==
    ASSUME IInv, ChangeObserver
    PROVE  IInv'
<1> USE DEF IInv, ChangeObserver, NotifyAll, loopVars, gameVars, startVars
<1>1. /\ phase = "actions" /\ pending # <<>> /\ Running /\ ~gameStarted
      /\ Request.setting = "observer" /\ NodeExists(Request) /\ ~Refused(Request)
    BY AcceptedFacts, LobbyOnly DEF MayWrite
<1>2. Target \in clients /\ Target \in ClientIds
    BY <1>1 DEF NodeExists, BoolSettings, Target, TypeOK
<1>3. Value = On => playerId[Target] = 0 /\ allowObservers
    BY <1>1 DEF Refused, HasValue, Target, Value, TreeAgrees
<1>4. pending' \in Seq(ServerActions) /\ QueueFits'
    BY <1>1, PlainRequeueFits
<1>5. TypeOK'
    BY <1>1, <1>2, <1>4 DEF TypeOK, SetTo
<1>6. TreeAgrees' /\ GroupsLocked' /\ NoInternalAbort'
    BY <1>1 DEF TypeOK, TreeAgrees, GroupsLocked, NoInternalAbort, Running
<1>7. ObserversApart'
    BY <1>1, <1>3 DEF ObserversApart, SetTo, Running
<1> QED
    BY <1>4, <1>5, <1>6, <1>7

\* An observer is not assigned to a player, and only existing players are.
LEMMA ChangePlayerIInv ==
    ASSUME IInv, ChangePlayer
    PROVE  IInv'
<1> USE DEF IInv, ChangePlayer, NotifyAll, flagVars, startVars
<1>1. /\ phase = "actions" /\ pending # <<>> /\ Running /\ ~gameStarted
      /\ Request.setting = "player" /\ NodeExists(Request) /\ ~Refused(Request)
      /\ Request \in AllRequests
    BY AcceptedFacts, LobbyOnly DEF MayWrite
<1>2. Target \in clients /\ Target \in ClientIds /\ Value \in Nat
    BY <1>1 DEF NodeExists, BoolSettings, Target, Value, TypeOK, AllRequests,
                UnhandledSettings
<1>3. Target \notin observer /\ Value \in DOMAIN players \cup {0}
    BY <1>1 DEF Refused, NotAssignable, Target, Value, TreeAgrees
<1>4. phase' \in {"actions", "attachAssert"}
    BY <1>1
<1>5. pending' \in Seq(ServerActions) /\ QueueFits'
    BY <1>1, <1>4, PlainRequeueFits
<1>6. TypeOK'
  <2>1. players' \in [DOMAIN players' -> Player] /\ DOMAIN players' = DOMAIN players
      BY <1>2, ReattachType DEF TypeOK
  <2>2. RegroupFor(Target, playerId[Target], Value) \subseteq Groups
      BY <1>2, <1>3 DEF TypeOK, RegroupFor, Groups
  <2> QED
      BY <1>2, <1>4, <1>5, <2>1, <2>2 DEF TypeOK, Phases, Aborts
<1>7. TreeAgrees'
    BY <1>1, <1>2 DEF TypeOK, TreeAgrees
<1>8. ObserversApart'
    BY <1>1, <1>2, <1>3 DEF TypeOK, ObserversApart
<1>9. GroupsLocked' /\ NoInternalAbort'
    BY <1>1, <1>4 DEF GroupsLocked, NoInternalAbort
<1> QED
    BY <1>5, <1>6, <1>7, <1>8, <1>9

LEMMA ChangeMaxClientsIInv ==
    ASSUME IInv, ChangeMaxClients
    PROVE  IInv'
<1> USE DEF IInv, ChangeMaxClients, NotifyAll, flagVars, startVars, loopVars
<1>1. /\ phase = "actions" /\ pending # <<>> /\ Running /\ ~gameStarted
      /\ Request.setting = "maxclients" /\ NodeExists(Request) /\ Request \in AllRequests
    BY AcceptedFacts, LobbyOnly DEF MayWrite
<1>2. Target \in DOMAIN players /\ Value \in Nat
    BY <1>1 DEF NodeExists, BoolSettings, Target, Value, AllRequests, UnhandledSettings
<1>3. players' \in [DOMAIN players' -> Player] /\ DOMAIN players' = DOMAIN players
  <2>1. [players[Target] EXCEPT !.maxclients = Value] \in Player
      BY <1>2 DEF TypeOK, Player
  <2>2. players' = [players EXCEPT ![Target] = [players[Target] EXCEPT !.maxclients = Value]]
      OBVIOUS
  <2> QED
      BY <1>2, <2>1, <2>2 DEF TypeOK
<1>4. pending' \in Seq(ServerActions) /\ QueueFits'
    BY <1>1, PlainRequeueFits
<1>5. TypeOK'
    BY <1>3, <1>4 DEF TypeOK
<1>6. TreeAgrees' /\ ObserversApart' /\ GroupsLocked' /\ NoInternalAbort'
    BY <1>1 DEF TreeAgrees, ObserversApart, GroupsLocked, NoInternalAbort, Running
<1> QED
    BY <1>4, <1>5, <1>6

\* Forbidding observers: every observer is one in the tree, so that the tree
\* does not refuse to dump it.
LEMMA ChangeAllowObserversIInv ==
    ASSUME IInv, ChangeAllowObservers
    PROVE  IInv'
<1> DEFINE dumped == Dumped(Value)
<1> USE DEF IInv
<1>1. /\ phase = "actions" /\ pending # <<>> /\ Running /\ ~gameStarted
      /\ Request.setting = "allowobservers" /\ Request \in AllRequests
    BY AcceptedFacts, LobbyOnly DEF ChangeAllowObservers
<1>2. Value \in {On, Off}
    BY <1>1 DEF Value, AllRequests, UnhandledSettings, BoolSettings
<1>3. /\ dumped \subseteq clients /\ dumped \subseteq tree.observer
      /\ Value = Off /\ allowObservers => dumped = observer
    BY <1>1, <1>2 DEF Dumped, TreeAgrees, TypeOK
<1> HIDE DEF dumped
<1>4. /\ phase' = phase
      /\ observer' = observer \ dumped
      /\ tree' = [tree EXCEPT !.allowobservers = (Value = On), !.observer = @ \ dumped]
      /\ allowObservers' = (Value = On)
      /\ dead' = dead \cup (clients \cap broken)
      /\ Requeue(<<>>, <<>>)
      /\ UNCHANGED <<toVisit, visiting, interrupted, clients, admin, neverAdmin, ready,
                     playerId, groups, broken, players, universe, map, startGame,
                     gameStarted>>
    BY <1>3 DEF ChangeAllowObservers, NotifyAll, startVars, dumped
<1>5. pending' \in Seq(ServerActions) /\ QueueFits'
    BY <1>1, <1>4, PlainRequeueFits, ChecksSeq
<1>6. TypeOK'
    BY <1>4, <1>5 DEF TypeOK
<1>7. TreeAgrees' /\ GroupsLocked' /\ NoInternalAbort'
    BY <1>1, <1>4 DEF TypeOK, TreeAgrees, GroupsLocked, NoInternalAbort, Running
<1>8. ObserversApart'
    BY <1>1, <1>2, <1>3, <1>4 DEF ObserversApart, On, Off
<1> QED
    BY <1>5, <1>6, <1>7, <1>8

\* The change of universe or map itself is queued, before the game only.
LEMMA ChangeResourceIInv ==
    ASSUME IInv, ChangeUniverse \/ ChangeMap
    PROVE  IInv'
<1> USE DEF IInv
<1>1. CASE ChangeUniverse
  <2> USE <1>1 DEF ChangeUniverse, NotifyAll, loopVars, flagVars, gameVars, startVars
  <2>1. /\ phase = "actions" /\ pending # <<>> /\ Running /\ ~gameStarted
        /\ Request.setting = "universe" /\ ~Refused(Request)
      BY AcceptedFacts, LobbyOnly
  <2>2. Value \in Universes
      BY <2>1 DEF Refused, Value
  <2>3. /\ <<RequestUniverse(Value)>> \in Seq(ServerActions)
        /\ <<RequestUniverse(Value)>> \in Seq(MaplessActions)
    <3>1. RequestUniverse(Value) \in ServerActions /\ RequestUniverse(Value) \in MaplessActions
        BY <2>2 DEF ServerActions, MaplessActions, RequestUniverse
    <3> QED
        BY <3>1
  <2>4. pending' \in Seq(ServerActions) /\ QueueFits'
      BY <2>1, <2>3, EmptySeq, RequeueFits
  <2>5. TypeOK'
      BY <2>4 DEF TypeOK
  <2>6. TreeAgrees' /\ ObserversApart' /\ GroupsLocked' /\ NoInternalAbort'
      BY <2>1 DEF TreeAgrees, ObserversApart, GroupsLocked, NoInternalAbort, Running
  <2> QED
      BY <2>4, <2>5, <2>6
<1>2. CASE ChangeMap
  <2> USE <1>2 DEF ChangeMap, NotifyAll, loopVars, flagVars, gameVars, startVars
  <2>1. /\ phase = "actions" /\ pending # <<>> /\ Running /\ ~gameStarted
        /\ Request.setting = "map" /\ ~Refused(Request)
      BY AcceptedFacts, LobbyOnly
  <2>2. Value \in Maps /\ universe \in Universes
      BY <2>1 DEF Refused, Value, TypeOK
  <2>3. /\ <<RequestMap(Value, universe)>> \in Seq(ServerActions)
        /\ <<RequestMap(Value, universe)>> \in Seq(MaplessActions)
    <3>1. /\ RequestMap(Value, universe) \in ServerActions
          /\ RequestMap(Value, universe) \in MaplessActions
        BY <2>2 DEF ServerActions, MaplessActions, RequestMap
    <3> QED
        BY <3>1
  <2>4. pending' \in Seq(ServerActions) /\ QueueFits'
      BY <2>1, <2>3, EmptySeq, RequeueFits
  <2>5. TypeOK'
      BY <2>4 DEF TypeOK
  <2>6. TreeAgrees' /\ ObserversApart' /\ GroupsLocked' /\ NoInternalAbort'
      BY <2>1 DEF TreeAgrees, ObserversApart, GroupsLocked, NoInternalAbort, Running
  <2> QED
      BY <2>4, <2>5, <2>6
<1> QED
    BY <1>1, <1>2

\* An action that belongs to the lobby is at the front only in the lobby.
LEMMA LateAction ==
    ASSUME IInv, NEW k \in LateKinds, Acting(k)
    PROVE  /\ phase = "actions" /\ pending # <<>> /\ Running /\ ~gameStarted
           /\ Head(pending) \in ServerActions /\ Head(pending).kind = k
           /\ k = "setMapPlayMode" => map # None
<1>1. phase = "actions" /\ pending # <<>> /\ Running /\ Head(pending).kind = k
    BY DEF Acting, Running, Aborts
<1>2. gameStarted => Head(pending) \in InGameActions
    BY <1>1, HeadTailProperties DEF IInv, QueueFits
<1>3. map = None => Head(pending) \in MaplessActions
    BY <1>1, HeadTailProperties DEF IInv, QueueFits
<1>4. Head(pending) \in ServerActions
    BY <1>1, HeadTailProperties DEF IInv, TypeOK
<1> QED
    BY <1>1, <1>2, <1>3, <1>4 DEF InGameActions, MaplessActions

LEMMA ActRequestIInv ==
    ASSUME IInv, ActRequestUniverse \/ ActRequestMap
    PROVE  IInv'
<1> USE DEF IInv
<1>1. CASE ActRequestUniverse
  <2> USE <1>1 DEF ActRequestUniverse, NotifyAll, flagVars, startVars
  <2>1. /\ phase = "actions" /\ pending # <<>> /\ Running /\ ~gameStarted
        /\ Head(pending) \in ServerActions /\ Head(pending).kind = "requestUniverse"
      BY LateAction DEF LateKinds
  <2>2. Head(pending).universe \in Universes
      BY <2>1 DEF ServerActions, EnsureAdminExists, CheckForGameStart, SetMapPlayMode,
                  ClientChangeSetting, RequestUniverse, RequestMap
  <2>3. pending' \in Seq(ServerActions) /\ QueueFits'
      BY <2>1, PlainRequeueFits, ChecksSeq
  <2>4. TypeOK'
      BY <2>1, <2>2, <2>3 DEF TypeOK
  <2>5. TreeAgrees' /\ ObserversApart' /\ GroupsLocked' /\ NoInternalAbort'
      BY <2>1 DEF TreeAgrees, ObserversApart, GroupsLocked, NoInternalAbort, Running
  <2> QED
      BY <2>3, <2>4, <2>5
<1>2. CASE ActRequestMap
  <2> USE <1>2 DEF ActRequestMap, NotifyAll, flagVars, startVars
  <2>1. /\ phase = "actions" /\ pending # <<>> /\ Running /\ ~gameStarted
        /\ Head(pending) \in ServerActions /\ Head(pending).kind = "requestMap"
      BY LateAction DEF LateKinds
  <2>2. Head(pending).map \in Maps /\ Head(pending).universe \in Universes
      BY <2>1 DEF ServerActions, EnsureAdminExists, CheckForGameStart, SetMapPlayMode,
                  ClientChangeSetting, RequestUniverse, RequestMap
  <2>3. map' \in [path : Maps, universe : Universes] /\ map' # None
      BY <2>2, NoneAssumption
  <2>4. <<SetMapPlayMode>> \in Seq(ServerActions)
      BY DEF ServerActions
  <2>5. pending' \in Seq(ServerActions) /\ QueueFits'
      BY <2>1, <2>3, <2>4, EmptySeq, RequeueFits
  <2>6. TypeOK'
      BY <2>1, <2>3, <2>5 DEF TypeOK
  <2>7. TreeAgrees' /\ ObserversApart' /\ GroupsLocked' /\ NoInternalAbort'
      BY <2>1 DEF TreeAgrees, ObserversApart, GroupsLocked, NoInternalAbort, Running
  <2> QED
      BY <2>5, <2>6, <2>7
<1> QED
    BY <1>1, <1>2

\* The clients attached to a player are finitely many, and the tree refuses to
\* detach none of them: each has a player in the tree and is no observer.
LEMMA ActSetMapPlayModeIInv ==
    ASSUME IInv, ActSetMapPlayMode
    PROVE  IInv'
<1> DEFINE attached == {c \in clients : playerId[c] # 0}
           refused == {c \in attached : tree.player[c] = 0 \/ c \in observer}
<1> USE DEF IInv
<1>1. /\ phase = "actions" /\ pending # <<>> /\ Running /\ ~gameStarted /\ map # None
    BY LateAction DEF LateKinds, ActSetMapPlayMode
<1>2. refused = {} /\ attached \subseteq ClientIds
    BY <1>1 DEF TypeOK, TreeAgrees, ObserversApart
<1>3. Cardinality(attached) + 1 \in Nat
  <2>1. IsFiniteSet(ClientIds)
      BY FS_Interval, CountsAssumption DEF ClientIds
  <2> QED
      BY <1>2, <2>1, FS_Subset, FS_CardinalityType
<1> HIDE DEF refused
<1>4. /\ phase' = phase
      /\ groups' = [c \in ClientIds |->
                      IF c \in attached THEN RegroupFor(c, playerId[c], 0) ELSE groups[c]]
      /\ playerId' = [c \in ClientIds |-> IF c \in attached THEN 0 ELSE playerId[c]]
      /\ tree' = [tree EXCEPT !.player = [c \in ClientIds |->
                                            IF c \in attached THEN 0 ELSE @[c]]]
      /\ Requeue(<<>>, Checks(Cardinality(attached) + 1))
      /\ players' = [p \in DOMAIN PlayMode[map.path] |-> NewPlayer(PlayMode[map.path][p])]
      /\ dead' = dead \cup (clients \cap broken)
      /\ UNCHANGED <<toVisit, visiting, interrupted, clients, admin, neverAdmin, ready,
                     observer, broken, universe, map, allowObservers, startGame,
                     gameStarted>>
    BY <1>1, <1>2 DEF ActSetMapPlayMode, NotifyAll, flagVars, startVars, refused
<1> HIDE DEF attached
<1>5. pending' \in Seq(ServerActions) /\ QueueFits'
    BY <1>1, <1>3, <1>4, PlainRequeueFits
<1>6. TypeOK'
  <2>1. map.path \in Maps
      BY <1>1 DEF TypeOK
  <2>2. DOMAIN players' \subseteq PlayerIds
      BY <1>4, <2>1 DEF PlayerIds
  <2>3. players' \in [DOMAIN players' -> Player]
      BY <1>4, <2>1, PlayModeAssumption DEF NewPlayer, Player
  <2>4. groups' \in [ClientIds -> SUBSET Groups]
      BY <1>4 DEF TypeOK, RegroupFor
  <2> QED
      BY <1>4, <1>5, <2>2, <2>3, <2>4 DEF TypeOK
<1>7. TreeAgrees'
    BY <1>1, <1>4 DEF TypeOK, TreeAgrees
<1>8. ObserversApart'
    BY <1>1, <1>4 DEF TypeOK, ObserversApart
<1>9. GroupsLocked' /\ NoInternalAbort'
    BY <1>1, <1>4 DEF GroupsLocked, NoInternalAbort
<1> QED
    BY <1>5, <1>6, <1>7, <1>8, <1>9

-----------------------------------------------------------------------------
(* The theorems *)

LEMMA StepIInv == IInv /\ [Next]_vars => IInv'
<1> SUFFICES ASSUME IInv, [Next]_vars PROVE IInv'
    OBVIOUS
<1>1. CASE AddClient
    BY <1>1, AddClientIInv
<1>2. CASE AddClientThrows \/ JoinsDone \/ ActionsDone
    BY <1>2, Bystanders
<1>3. CASE HandleClientMessages
    BY <1>3, RemoversIInv, Bystanders, ReceiveIInv DEF HandleClientMessages
<1>4. CASE ServerActionActs
  <2>1. CASE EnsureAdminIdle \/ CheckDeferred \/ CheckDone
      BY <2>1, IdleIInv
  <2>2. CASE EnsureAdminPromotes
      BY <2>2, EnsureAdminPromotesIInv
  <2>3. CASE ClientChangeSettingAct
      BY <2>3, IdleIInv, ChangeFlagIInv, ChangeObserverIInv, ChangePlayerIInv,
         ChangeMaxClientsIInv, ChangeAllowObserversIInv, ChangeResourceIInv, Bystanders
         DEF ClientChangeSettingAct
  <2>4. CASE ActRequestUniverse \/ ActRequestMap
      BY <2>4, ActRequestIInv
  <2>5. CASE ActSetMapPlayMode
      BY <2>5, ActSetMapPlayModeIInv
  <2> QED
      BY <1>4, <2>1, <2>2, <2>3, <2>4, <2>5 DEF ServerActionActs
<1>5. CASE PlayGame
    BY <1>5, StartTheGameIInv, Bystanders, RemoversIInv DEF PlayGame
<1>6. CASE Shutdown
    BY <1>6, RemoversIInv, Bystanders DEF Shutdown
<1>7. CASE Interrupt \/ SocketBreaks
    BY <1>7, Bystanders
<1>8. CASE Stopped \/ UNCHANGED vars
    BY <1>8 DEF IInv, TypeOK, TreeAgrees, ObserversApart, QueueFits, GroupsLocked,
                NoInternalAbort, Running, Stopped, vars, loopVars, clientVars, flagVars,
                gameVars, startVars
<1> QED
    BY <1>1, <1>2, <1>3, <1>4, <1>5, <1>6, <1>7, <1>8 DEF Next, Serve

LEMMA Invariance == Spec => []IInv
<1>1. Init => IInv
    BY InitIInv
<1>2. IInv /\ [Next]_vars => IInv'
    BY StepIInv
<1> QED
    BY <1>1, <1>2, PTL DEF Spec

\* Every variable keeps its type, for all the clients, maps and requests there
\* may be.
THEOREM TypeCorrect == Spec => []TypeOK
<1>1. IInv => TypeOK
    BY DEF IInv
<1> QED
    BY <1>1, Invariance, PTL

\* The server never aborts on its own changes to the settings tree, and never
\* runs an action of the lobby in the game (changeInClientBranch's SAKUSEN_FATAL,
\* and the assertions on isGameStarted in serveraction.cpp).
THEOREM NeverAbortsItself == Spec => []NoInternalAbort
<1>1. IInv => NoInternalAbort
    BY DEF IInv
<1> QED
    BY <1>1, Invariance, PTL

\* Observers never have a player and exist only while they are allowed.
THEOREM ObserversStayApart == Spec => []ObserversApart
<1>1. IInv => ObserversApart
    BY DEF IInv
<1> QED
    BY <1>1, Invariance, PTL

\* The settings tree always shows the state of the server.
THEOREM TreeShowsState == Spec => []TreeAgrees
<1>1. IInv => TreeAgrees
    BY DEF IInv
<1> QED
    BY <1>1, Invariance, PTL

-----------------------------------------------------------------------------
(* Action properties *)

\* Only admitting a client adds one, and only two actions make admins.
LEMMA WhoGrows ==
    ASSUME IInv, [Next]_vars
    PROVE  /\ AddClient \/ clients' \subseteq clients
           /\ EnsureAdminPromotes \/ ChangeAdmin \/ admin' \subseteq admin
<1> DEFINE Grows == /\ AddClient \/ clients' \subseteq clients
                    /\ EnsureAdminPromotes \/ ChangeAdmin \/ admin' \subseteq admin
<1> USE DEF loopVars, flagVars, clientVars, gameVars, startVars
<1>1. CASE AddClient
    BY <1>1 DEF AddClient
<1>2. CASE AddClientThrows \/ JoinsDone \/ ActionsDone
    BY <1>2 DEF AddClientThrows, JoinsDone, ActionsDone
<1>3. ASSUME NEW c, RemoveClient(c)
      PROVE  Grows
    BY <1>3 DEF RemoveClient
<1>4. CASE HandleClientMessages
  <2>1. CASE RemoveDeadClient \/ ClientLeaves \/ RelayRemoves
      BY <2>1, <1>3 DEF RemoveDeadClient, ClientLeaves, RelayRemoves
  <2>2. CASE VisitClient \/ ReceiveChangeSetting \/ ClientDone \/ RelayThrows \/ MessagesDone
      BY <2>2 DEF VisitClient, ReceiveChangeSetting, ClientDone, RelayThrows, MessagesDone
  <2> QED
      BY <1>4, <2>1, <2>2 DEF HandleClientMessages
<1>5. CASE ServerActionActs
  <2>1. CASE EnsureAdminIdle \/ CheckDeferred \/ CheckDone
      BY <2>1 DEF EnsureAdminIdle, CheckDeferred, CheckDone
  <2>2. CASE EnsureAdminPromotes
      BY <2>2 DEF EnsureAdminPromotes
  <2>3. CASE ChangeAdmin \/ ChangeNeverAdmin \/ ChangeReady \/ ChangeObserver
      BY <2>3 DEF ChangeAdmin, ChangeNeverAdmin, ChangeReady, ChangeObserver
  <2>4. CASE ChangePlayer \/ ChangeMaxClients \/ ChangeAllowObservers \/ ChangeUniverse
                \/ ChangeMap \/ ChangeUnhandled \/ ChangeIgnored \/ ChangeRejected
      BY <2>4 DEF ChangePlayer, ChangeMaxClients, ChangeAllowObservers, ChangeUniverse,
                  ChangeMap, ChangeUnhandled, ChangeIgnored, ChangeRejected
  <2>5. CASE ActRequestUniverse \/ ActRequestMap \/ ActSetMapPlayMode
      BY <2>5 DEF ActRequestUniverse, ActRequestMap, ActSetMapPlayMode
  <2> QED
      BY <1>5, <2>1, <2>2, <2>3, <2>4, <2>5 DEF ServerActionActs, ClientChangeSettingAct
<1>6. CASE PlayGame
  <2>1. CASE FlushRemoves
      BY <2>1, <1>3 DEF FlushRemoves
  <2>2. CASE StartTheGame \/ StartThrows \/ FlushOutgoing \/ FlushDone
      BY <2>2 DEF StartTheGame, StartThrows, FlushOutgoing, FlushDone
  <2> QED
      BY <1>6, <2>1, <2>2 DEF PlayGame
<1>7. CASE Shutdown
    BY <1>7, <1>3 DEF Shutdown, ShutdownRemoves, ShutdownDone
<1>8. CASE Interrupt \/ SocketBreaks \/ Stopped \/ UNCHANGED vars
    BY <1>8 DEF Interrupt, SocketBreaks, Stopped, vars
<1> QED
    BY <1>1, <1>2, <1>4, <1>5, <1>6, <1>7, <1>8 DEF Next, Serve

\* A client is never admitted under an id for which a request is queued.
THEOREM RequestsNotInherited == Spec => NoRequestInherited
<1>1. ASSUME IInv, [Next]_vars,
             NEW c \in clients' \ clients, NEW i \in DOMAIN pending
      PROVE  pending[i].kind = "clientChangeSetting" => pending[i].client # c
  <2>1. AddClient
      BY <1>1, WhoGrows
  <2>2. DOMAIN pending = {}
      BY <1>1, <2>1 DEF AddClient, IInv, QueueFits
  <2> QED
      BY <1>1, <2>2
<1>2. ASSUME IInv, [Next]_vars
      PROVE  \A c \in clients' \ clients : \A i \in DOMAIN pending :
                pending[i].kind = "clientChangeSetting" => pending[i].client # c
    BY <1>1, <1>2
<1> QED
    BY <1>2, Invariance, PTL DEF Spec, NoRequestInherited

\* Nobody is made admin against its will, neither by the server nor by another
\* admin.
THEOREM AdminsConsent == Spec => AdminConsents
<1>1. ASSUME IInv, [Next]_vars
      PROVE  (admin' \ admin) \cap neverAdmin = {}
  <2>1. CASE EnsureAdminPromotes
      BY <2>1 DEF EnsureAdminPromotes, Candidates
  <2>2. CASE ChangeAdmin
    <3>1. ~Refused(Request) /\ Request.setting = "admin"
        BY <1>1, <2>2, AcceptedFacts DEF ChangeAdmin
    <3> QED
        BY <2>2, <3>1 DEF ChangeAdmin, Refused, SetTo, Target, Value
  <2>3. CASE admin' \subseteq admin
      BY <2>3
  <2> QED
      BY <1>1, <2>1, <2>2, <2>3, WhoGrows
<1> QED
    BY <1>1, Invariance, PTL DEF Spec, AdminConsents

-----------------------------------------------------------------------------
(* Players, groups and roles *)

\* Nobody is assigned to a player, or in a group, under an id that is not in use.
AbsentUnassigned ==
    \A c \in ClientIds \ clients : playerId[c] = 0 /\ groups[c] = {}

RolesInv == AbsentUnassigned /\ PlayerListsExact /\ GroupsMatchRoles

\* Groups of different kinds differ, and so do those of two players.
LEMMA GroupsDiffer ==
    /\ \A p, q : Group("player", p) = Group("player", q) => p = q
    /\ \A p : /\ Group("player", p) # AdminGroup /\ Group("player", p) # WorldGroup
              /\ Group("player", p) # PlaytimeGroup
              /\ \A c : Group("player", p) # Group("client", c)
BY DEF Group, AdminGroup, WorldGroup, PlaytimeGroup

LEMMA InitRoles == Init => RolesInv
BY DEF Init, RolesInv, AbsentUnassigned, PlayerListsExact, GroupsMatchRoles

\* The steps that leave players, assignments and groups alone.
Uninvolved ==
    \/ AddClientThrows \/ JoinsDone \/ ActionsDone
    \/ VisitClient \/ ReceiveChangeSetting \/ ClientDone \/ RelayThrows \/ MessagesDone
    \/ EnsureAdminIdle \/ CheckDeferred \/ CheckDone \/ ChangeIgnored \/ ChangeRejected
    \/ ChangeNeverAdmin \/ ChangeReady \/ ChangeObserver \/ ChangeAllowObservers
    \/ ChangeUniverse \/ ChangeMap \/ ChangeUnhandled
    \/ ActRequestUniverse \/ ActRequestMap
    \/ StartThrows \/ FlushOutgoing \/ FlushDone \/ ShutdownDone
    \/ Interrupt \/ SocketBreaks

LEMMA UninvolvedFacts ==
    ASSUME Uninvolved
    PROVE  /\ UNCHANGED <<clients, playerId, groups, players, gameStarted>>
           /\ Running
<1> USE DEF loopVars, flagVars, clientVars, gameVars, startVars, Running, Aborts
<1>1. CASE AddClientThrows \/ JoinsDone \/ ActionsDone \/ VisitClient \/ ReceiveChangeSetting
    BY <1>1 DEF AddClientThrows, JoinsDone, ActionsDone, VisitClient, ReceiveChangeSetting
<1>2. CASE ClientDone \/ RelayThrows \/ MessagesDone \/ EnsureAdminIdle \/ CheckDeferred
    BY <1>2 DEF ClientDone, RelayThrows, MessagesDone, EnsureAdminIdle, CheckDeferred, Acting
<1>3. CASE CheckDone \/ ChangeIgnored \/ ChangeRejected \/ ChangeNeverAdmin \/ ChangeReady
    BY <1>3 DEF CheckDone, ChangeIgnored, ChangeRejected, ChangeNeverAdmin, ChangeReady,
                Accepted, Changing, Acting
<1>4. CASE ChangeObserver \/ ChangeAllowObservers \/ ChangeUniverse \/ ChangeMap
    BY <1>4 DEF ChangeObserver, ChangeAllowObservers, ChangeUniverse, ChangeMap,
                Accepted, Changing, Acting
<1>5. CASE ChangeUnhandled \/ ActRequestUniverse \/ ActRequestMap
    BY <1>5 DEF ChangeUnhandled, ActRequestUniverse, ActRequestMap, Accepted, Changing, Acting
<1>6. CASE StartThrows \/ FlushOutgoing \/ FlushDone \/ ShutdownDone \/ Interrupt \/ SocketBreaks
    BY <1>6 DEF StartThrows, FlushOutgoing, FlushDone, ShutdownDone, Interrupt, SocketBreaks
<1> QED
    BY <1>1, <1>2, <1>3, <1>4, <1>5, <1>6 DEF Uninvolved

\* What reattaching a client does to the lists of clients.
LEMMA ReattachClients ==
    ASSUME players \in [DOMAIN players -> Player], NEW c, NEW old, NEW new,
           NEW p \in DOMAIN players
    PROVE  /\ p # 0 /\ p = new =>
                Reattach(c, old, new)[p].clients = players[p].clients \cup {c}
           /\ p # 0 /\ p # new /\ p = old =>
                Reattach(c, old, new)[p].clients = players[p].clients \ {c}
           /\ p = 0 \/ (p # new /\ p # old) =>
                Reattach(c, old, new)[p].clients = players[p].clients
<1>1. players[p] \in Player
    OBVIOUS
<1>2. CASE p # 0 /\ p = new
    BY <1>1, <1>2 DEF Reattach, Player
<1>3. CASE p # 0 /\ p # new /\ p = old
    BY <1>1, <1>3 DEF Reattach, Player
<1>4. CASE p = 0 \/ (p # new /\ p # old)
    BY <1>1, <1>4 DEF Reattach, Player
<1> QED
    BY <1>2, <1>3, <1>4

\* removeClient takes the client out of its player's list, and out of all groups.
LEMMA RemoveClientRoles ==
    ASSUME IInv, RolesInv, Running, NEW c \in ClientIds, RemoveClient(c)
    PROVE  RolesInv'
<1>1. /\ clients' = clients \ {c}
      /\ playerId' = [playerId EXCEPT ![c] = 0] /\ groups' = [groups EXCEPT ![c] = {}]
      /\ players' = Reattach(c, playerId[c], 0) /\ gameStarted' = gameStarted
    BY DEF RemoveClient, startVars
<1>2. AbsentUnassigned'
    BY <1>1 DEF RolesInv, AbsentUnassigned, IInv, TypeOK
<1>3. DOMAIN players' = DOMAIN players
    BY <1>1 DEF Reattach
<1>4. ASSUME NEW p \in DOMAIN players
      PROVE  players'[p].clients =
                IF p # 0 /\ p = playerId[c] THEN players[p].clients \ {c} ELSE players[p].clients
  <2>1. players \in [DOMAIN players -> Player]
      BY DEF IInv, TypeOK
  <2>2. /\ p # 0 /\ p = playerId[c] => players'[p].clients = players[p].clients \ {c}
        /\ p = 0 \/ p # playerId[c] => players'[p].clients = players[p].clients
      BY <1>1, <2>1, ReattachClients
  <2> QED
      BY <2>2
<1>5. PlayerListsExact'
  <2>1. /\ \A d \in clients' : playerId'[d] = playerId[d]
        /\ clients \subseteq ClientIds
      BY <1>1 DEF IInv, TypeOK
  <2>2. PlayerListsExact
      BY DEF RolesInv
  <2>3. ASSUME NEW p \in DOMAIN players \ {0}
        PROVE  players'[p].clients = {d \in clients' : playerId'[d] = p}
    <3>1. players[p].clients = {d \in clients : playerId[d] = p}
        BY <2>2 DEF PlayerListsExact
    <3>2. {d \in clients' : playerId'[d] = p} = {d \in clients : playerId[d] = p} \ {c}
        BY <1>1, <2>1
    <3>3. CASE p = playerId[c]
        BY <1>4, <3>1, <3>2, <3>3
    <3>4. CASE p # playerId[c]
      <4>1. c \notin players[p].clients
          BY <3>1, <3>4
      <4> QED
          BY <1>4, <3>1, <3>2, <3>4, <4>1
    <3> QED
        BY <3>3, <3>4
  <2>4. 0 \in DOMAIN players => players'[0].clients = {}
      BY <1>4, <2>2 DEF PlayerListsExact
  <2>5. \A d \in clients' : playerId'[d] \in DOMAIN players' \cup {0}
      BY <1>1, <1>3, <2>1, <2>2 DEF PlayerListsExact
  <2> QED
      BY <1>3, <2>3, <2>4, <2>5 DEF PlayerListsExact
<1>6. GroupsMatchRoles'
    BY <1>1 DEF RolesInv, GroupsMatchRoles, IInv, TypeOK
<1> QED
    BY <1>2, <1>5, <1>6 DEF RolesInv

LEMMA RemoversRoles ==
    ASSUME IInv, RolesInv, RemoveDeadClient \/ ClientLeaves \/ RelayRemoves
                             \/ FlushRemoves \/ ShutdownRemoves
    PROVE  RolesInv'
<1>1. Running
    BY DEF RemoveDeadClient, ClientLeaves, RelayRemoves, FlushRemoves, ShutdownRemoves,
           Running, Aborts
<1>2. \E c \in ClientIds : RemoveClient(c)
    BY DEF IInv, TypeOK, DeadFound, RemoveDeadClient, ClientLeaves, RelayRemoves, FlushRemoves, ShutdownRemoves
<1>3. PICK c \in ClientIds : RemoveClient(c)
    BY <1>2
<1> QED
    BY <1>1, <1>3, RemoveClientRoles

LEMMA AddClientRoles ==
    ASSUME IInv, RolesInv, AddClient
    PROVE  RolesInv'
<1>1. PICK c \in ClientIds \ clients :
        /\ clients' = clients \cup {c}
        /\ groups' = [groups EXCEPT ![c] = {Group("client", c), WorldGroup}]
    BY FreeIdFact DEF AddClient
<1>2. Running /\ ~gameStarted /\ UNCHANGED <<playerId, players, gameStarted>>
    BY DEF AddClient, IInv, QueueFits, Running, Aborts, gameVars, startVars
<1>3. AbsentUnassigned'
    BY <1>1, <1>2 DEF RolesInv, AbsentUnassigned, IInv, TypeOK
<1>4. PlayerListsExact'
  <2>1. playerId[c] = 0
      BY <1>1 DEF RolesInv, AbsentUnassigned
  <2> QED
      BY <1>1, <1>2, <2>1 DEF RolesInv, PlayerListsExact
<1>5. GroupsMatchRoles'
  <2>1. playerId[c] = 0
      BY <1>1 DEF RolesInv, AbsentUnassigned
  <2>2. groups'[c] = {Group("client", c), WorldGroup}
      BY <1>1 DEF IInv, TypeOK
  <2>3. \A d \in clients : groups'[d] = groups[d]
      BY <1>1 DEF IInv, TypeOK
  <2> QED
      BY <1>1, <1>2, <2>1, <2>2, <2>3, GroupsDiffer DEF RolesInv, GroupsMatchRoles
<1> QED
    BY <1>3, <1>4, <1>5 DEF RolesInv

\* The steps that make an admin, or start the game, only touch other groups.
LEMMA RegroupRoles ==
    ASSUME IInv, RolesInv, EnsureAdminPromotes \/ ChangeAdmin \/ StartTheGame
    PROVE  RolesInv'
<1> USE DEF loopVars, flagVars, gameVars, startVars
<1>1. UNCHANGED <<clients, playerId, players>> /\ Running
    BY DEF EnsureAdminPromotes, ChangeAdmin, StartTheGame, Accepted, Changing, Acting,
           Running, Aborts
<1>2. PlayerListsExact'
    BY <1>1 DEF RolesInv, PlayerListsExact
<1>3. CASE EnsureAdminPromotes \/ ChangeAdmin
  <2>1. ~gameStarted /\ gameStarted' = gameStarted
      BY <1>3, LobbyOnly DEF EnsureAdminPromotes, ChangeAdmin, AdminNotNeeded
  <2>2. \E c \in clients : \E g \in {groups, [groups EXCEPT ![c] = @ \cup {AdminGroup}]} :
           groups' = g
    <3>1. CASE EnsureAdminPromotes
        BY <3>1 DEF EnsureAdminPromotes, Candidates
    <3>2. CASE ChangeAdmin
      <4>1. Target \in clients
          BY <3>2, AcceptedFacts DEF ChangeAdmin, MayWrite, NodeExists, BoolSettings, Target
      <4> QED
          BY <3>2, <4>1 DEF ChangeAdmin, IInv, TypeOK
    <3> QED
        BY <1>3, <3>1, <3>2
  <2>3. \A c \in ClientIds : /\ groups'[c] \in {groups[c], groups[c] \cup {AdminGroup}}
                             /\ c \notin clients => groups'[c] = groups[c]
      BY <2>2 DEF IInv, TypeOK
  <2>4. AbsentUnassigned'
      BY <1>1, <2>3 DEF RolesInv, AbsentUnassigned
  <2>5. GroupsMatchRoles'
    <3>1. ASSUME NEW c \in clients, NEW p
          PROVE  Group("player", p) \in groups'[c] <=> Group("player", p) \in groups[c]
      <4>1. c \in ClientIds
          BY DEF IInv, TypeOK
      <4> QED
          BY <2>3, <4>1, GroupsDiffer
    <3> QED
        BY <1>1, <2>1, <3>1 DEF RolesInv, GroupsMatchRoles
  <2> QED
      BY <1>2, <2>4, <2>5 DEF RolesInv
<1>4. CASE StartTheGame
  <2>1. gameStarted' = TRUE /\ \A c \in ClientIds :
            groups'[c] = IF c \in clients THEN GameGroups(c) ELSE groups[c]
      BY <1>4 DEF StartTheGame
  <2>2. \A c : GameGroups(c) \subseteq {WorldGroup, PlaytimeGroup}
      BY DEF GameGroups
  <2>3. AbsentUnassigned'
      BY <1>1, <2>1 DEF RolesInv, AbsentUnassigned
  <2>4. GroupsMatchRoles'
      BY <1>1, <2>1, <2>2, GroupsDiffer DEF GroupsMatchRoles, IInv, TypeOK
  <2> QED
      BY <1>2, <2>3, <2>4 DEF RolesInv
<1> QED
    BY <1>3, <1>4

\* A client moves from one player to another, which exists.
LEMMA ChangePlayerRoles ==
    ASSUME IInv, RolesInv, ChangePlayer
    PROVE  RolesInv'
<1>1. /\ Running /\ ~gameStarted /\ Request.setting = "player"
      /\ NodeExists(Request) /\ ~Refused(Request)
    BY AcceptedFacts, LobbyOnly DEF MayWrite, ChangePlayer
<1>2. Target \in clients /\ Target \in ClientIds
    BY <1>1 DEF NodeExists, BoolSettings, Target, IInv, TypeOK
<1>3. Value # playerId[Target] /\ Value \in DOMAIN players \cup {0}
    BY <1>1 DEF Refused, NotAssignable, Target, Value, IInv, TreeAgrees
<1> DEFINE c == Target
           old == playerId[c]
           new == Value
<1>4. /\ UNCHANGED <<clients, gameStarted>>
      /\ players' = Reattach(c, old, new)
      /\ groups'[c] = RegroupFor(c, old, new) /\ playerId'[c] = new
      /\ \A d \in ClientIds \ {c} : groups'[d] = groups[d] /\ playerId'[d] = playerId[d]
    BY <1>2 DEF ChangePlayer, startVars, IInv, TypeOK
<1>5. /\ players \in [DOMAIN players -> Player] /\ clients \subseteq ClientIds
      /\ old \in Nat /\ c \in clients /\ c \in ClientIds
    BY <1>2 DEF IInv, TypeOK
<1>6. DOMAIN players' = DOMAIN players
    BY <1>4 DEF Reattach
<1>7. new # old /\ new \in DOMAIN players \cup {0}
    BY <1>3
<1> HIDE DEF c, old, new
<1>8. AbsentUnassigned'
    BY <1>4, <1>5 DEF RolesInv, AbsentUnassigned
<1>9. PlayerListsExact'
  <2>1. PlayerListsExact
      BY DEF RolesInv
  <2>2. ASSUME NEW p \in DOMAIN players \ {0}
        PROVE  players'[p].clients = {d \in clients' : playerId'[d] = p}
    <3>1. players[p].clients = {d \in clients : playerId[d] = p}
        BY <1>1, <2>1 DEF PlayerListsExact
    <3>2. CASE p = new
      <4>1. players'[p].clients = players[p].clients \cup {c}
          BY <1>4, <1>5, <3>2, ReattachClients
      <4> QED
          BY <1>4, <1>5, <3>1, <3>2, <4>1
    <3>3. CASE p # new /\ p = old
      <4>1. players'[p].clients = players[p].clients \ {c}
          BY <1>4, <1>5, <3>3, ReattachClients
      <4> QED
          BY <1>4, <1>5, <3>1, <3>3, <4>1
    <3>4. CASE p # new /\ p # old
      <4>1. players'[p].clients = players[p].clients
          BY <1>4, <1>5, <3>4, ReattachClients
      <4>2. playerId[c] = old
          BY DEF old
      <4> QED
          BY <1>4, <1>5, <3>1, <3>4, <4>1, <4>2
    <3> QED
        BY <3>2, <3>3, <3>4
  <2>3. 0 \in DOMAIN players => players'[0].clients = {}
      BY <1>1, <1>4, <1>5, <2>1, ReattachClients DEF PlayerListsExact
  <2>4. \A d \in clients' : playerId'[d] \in DOMAIN players' \cup {0}
      BY <1>1, <1>4, <1>5, <1>6, <1>7, <2>1 DEF PlayerListsExact
  <2> QED
      BY <1>6, <2>2, <2>3, <2>4 DEF PlayerListsExact
<1>10. GroupsMatchRoles'
  <2>1. GroupsMatchRoles
      BY DEF RolesInv
  <2>2. ASSUME NEW p \in PlayerIds
        PROVE  Group("player", p) \in groups'[c] <=> p # 0 /\ new = p
    <3>1. Group("player", p) \in groups[c] <=> p # 0 /\ old = p
        BY <1>1, <1>5, <2>1 DEF GroupsMatchRoles, old
    <3>2. Group("player", p) = Group("player", old) <=> p = old
        BY GroupsDiffer
    <3>3. Group("player", p) = Group("player", new) <=> p = new
        BY GroupsDiffer
    <3> QED
        BY <1>4, <3>1, <3>2, <3>3 DEF RegroupFor
  <2>3. \A d \in clients : \A p \in PlayerIds :
           Group("player", p) \in groups'[d] <=> p # 0 /\ playerId'[d] = p
      BY <1>1, <1>4, <1>5, <2>1, <2>2 DEF GroupsMatchRoles
  <2> QED
      BY <1>1, <1>4, <2>3 DEF GroupsMatchRoles
<1> QED
    BY <1>8, <1>9, <1>10 DEF RolesInv

\* clearPlayers and the new players: nobody is assigned, no player has a client.
LEMMA ActSetMapPlayModeRoles ==
    ASSUME IInv, RolesInv, ActSetMapPlayMode
    PROVE  RolesInv'
<1>1. Running /\ ~gameStarted /\ map # None
    BY LateAction DEF LateKinds, ActSetMapPlayMode
<1>2. /\ UNCHANGED <<clients, gameStarted>>
      /\ groups' = [c \in ClientIds |-> IF c \in clients /\ playerId[c] # 0
                                        THEN RegroupFor(c, playerId[c], 0) ELSE groups[c]]
      /\ playerId' = [c \in ClientIds |->
                        IF c \in clients /\ playerId[c] # 0 THEN 0 ELSE playerId[c]]
      /\ players' = [p \in DOMAIN PlayMode[map.path] |-> NewPlayer(PlayMode[map.path][p])]
    BY DEF ActSetMapPlayMode, startVars
<1>3. clients \subseteq ClientIds
    BY DEF IInv, TypeOK
<1>4. \A c \in clients : playerId'[c] = 0
    BY <1>2, <1>3
<1>5. AbsentUnassigned'
    BY <1>2, <1>3 DEF RolesInv, AbsentUnassigned
<1>6. PlayerListsExact'
    BY <1>2, <1>4 DEF PlayerListsExact, NewPlayer
<1>7. ASSUME NEW c \in clients, NEW p \in PlayerIds
      PROVE  Group("player", p) \notin groups'[c]
  <2>1. Group("player", p) \in groups[c] <=> p # 0 /\ playerId[c] = p
      BY <1>1 DEF RolesInv, GroupsMatchRoles
  <2>2. CASE playerId[c] # 0
      BY <1>2, <1>3, <2>1, <2>2, GroupsDiffer DEF RegroupFor
  <2>3. CASE playerId[c] = 0
      BY <1>2, <1>3, <2>1, <2>3
  <2> QED
      BY <2>2, <2>3
<1>8. GroupsMatchRoles'
    BY <1>1, <1>2, <1>4, <1>7 DEF GroupsMatchRoles
<1> QED
    BY <1>5, <1>6, <1>8 DEF RolesInv

LEMMA ChangeMaxClientsRoles ==
    ASSUME IInv, RolesInv, ChangeMaxClients
    PROVE  RolesInv'
<1>1. /\ Running /\ UNCHANGED <<clients, playerId, groups, gameStarted>>
      /\ players' = [players EXCEPT ![Target].maxclients = Value]
    BY DEF ChangeMaxClients, startVars, Accepted, Changing, Acting, Running, Aborts
<1>2. /\ DOMAIN players' = DOMAIN players
      /\ \A p \in DOMAIN players : players'[p].clients = players[p].clients
  <2>1. ASSUME NEW p \in DOMAIN players
        PROVE  players'[p].clients = players[p].clients
    <3>1. players[p] \in Player
        BY DEF IInv, TypeOK
    <3> QED
        BY <1>1, <3>1 DEF Player
  <2> QED
      BY <1>1, <2>1
<1> QED
    BY <1>1, <1>2 DEF RolesInv, AbsentUnassigned, PlayerListsExact, GroupsMatchRoles

LEMMA StepRoles == IInv /\ RolesInv /\ [Next]_vars => RolesInv'
<1> SUFFICES ASSUME IInv, RolesInv, [Next]_vars PROVE RolesInv'
    OBVIOUS
<1>1. CASE Uninvolved
    BY <1>1, UninvolvedFacts
       DEF RolesInv, AbsentUnassigned, PlayerListsExact, GroupsMatchRoles
<1>2. CASE AddClient
    BY <1>2, AddClientRoles
<1>3. CASE RemoveDeadClient \/ ClientLeaves \/ RelayRemoves \/ FlushRemoves \/ ShutdownRemoves
    BY <1>3, RemoversRoles
<1>4. CASE EnsureAdminPromotes \/ ChangeAdmin \/ StartTheGame
    BY <1>4, RegroupRoles
<1>5. CASE ChangePlayer \/ ActSetMapPlayMode \/ ChangeMaxClients
    BY <1>5, ChangePlayerRoles, ActSetMapPlayModeRoles, ChangeMaxClientsRoles
<1>6. CASE Stopped \/ UNCHANGED vars
    BY <1>6 DEF RolesInv, AbsentUnassigned, PlayerListsExact, GroupsMatchRoles, Running,
                Stopped, vars, loopVars, clientVars, gameVars, startVars
<1> QED
    BY <1>1, <1>2, <1>3, <1>4, <1>5, <1>6
       DEF Next, Serve, HandleClientMessages, ServerActionActs, ClientChangeSettingAct,
           PlayGame, Shutdown, Uninvolved

LEMMA RolesInvariance == Spec => []RolesInv
<1>1. Init => RolesInv
    BY InitRoles
<1>2. IInv /\ RolesInv /\ [Next]_vars => RolesInv'
    BY StepRoles
<1> QED
    BY <1>1, <1>2, Invariance, PTL DEF Spec

\* The lists of clients that players hold are exactly the connected clients
\* assigned to them, and no client is assigned to a player that does not exist.
THEOREM PlayersListTheirs == Spec => []PlayerListsExact
<1>1. RolesInv => PlayerListsExact
    BY DEF RolesInv
<1> QED
    BY <1>1, RolesInvariance, PTL

\* In the lobby a client may change the settings of its own player and of no
\* other, and in the game those of none.
THEOREM GroupsFollowRoles == Spec => []GroupsMatchRoles
<1>1. RolesInv => GroupsMatchRoles
    BY DEF RolesInv
<1> QED
    BY <1>1, RolesInvariance, PTL

\* Once serve() has returned or the process is gone, nothing happens.
LEMMA OnlyRunning ==
    ASSUME [Next]_vars, ~Running
    PROVE  UNCHANGED vars
<1>1. ~Uninvolved
    BY UninvolvedFacts
<1>2. /\ ~AddClient /\ ~RemoveDeadClient /\ ~ClientLeaves /\ ~RelayRemoves
      /\ ~FlushRemoves /\ ~ShutdownRemoves /\ ~StartTheGame
    BY DEF AddClient, RemoveDeadClient, ClientLeaves, RelayRemoves, FlushRemoves,
           ShutdownRemoves, StartTheGame, Running, Aborts
<1>3. /\ ~EnsureAdminPromotes /\ ~ChangeAdmin /\ ~ChangePlayer /\ ~ChangeMaxClients
      /\ ~ActSetMapPlayMode
    BY DEF EnsureAdminPromotes, ChangeAdmin, ChangePlayer, ChangeMaxClients,
           ActSetMapPlayMode, Accepted, Changing, Acting, Running, Aborts
<1> QED
    BY <1>1, <1>2, <1>3
       DEF Next, Serve, HandleClientMessages, ServerActionActs, ClientChangeSettingAct,
           PlayGame, Shutdown, Uninvolved, Stopped

\* In the game only these steps change who is there and what it plays.
LEMMA GameSteps ==
    ASSUME IInv, RolesInv, [Next]_vars, gameStarted
    PROVE  \/ \E c \in ClientIds : RemoveClient(c) /\ Running
           \/ UNCHANGED <<clients, playerId, observer, players, map, universe>>
<1>1. CASE RemoveDeadClient \/ ClientLeaves \/ RelayRemoves \/ FlushRemoves \/ ShutdownRemoves
    BY <1>1 DEF RemoveDeadClient, ClientLeaves, RelayRemoves, FlushRemoves, ShutdownRemoves,
           Running, Aborts, IInv, TypeOK, DeadFound
<1>2. ~AddClient
    BY DEF AddClient, IInv, QueueFits
<1>3. /\ ~ChangeAdmin /\ ~ChangeNeverAdmin /\ ~ChangeReady /\ ~ChangeObserver
      /\ ~ChangePlayer /\ ~ChangeMaxClients /\ ~ChangeAllowObservers
      /\ ~ChangeUniverse /\ ~ChangeMap
    BY LobbyOnly DEF ChangeAdmin, ChangeNeverAdmin, ChangeReady, ChangeObserver,
       ChangePlayer, ChangeMaxClients, ChangeAllowObservers, ChangeUniverse, ChangeMap
<1>4. ~ActRequestUniverse /\ ~ActRequestMap /\ ~ActSetMapPlayMode
    BY LateAction DEF LateKinds, ActRequestUniverse, ActRequestMap, ActSetMapPlayMode
<1>5. CASE EnsureAdminIdle \/ EnsureAdminPromotes \/ CheckDeferred \/ CheckDone
             \/ ChangeIgnored \/ ChangeRejected \/ ChangeUnhandled
    BY <1>5 DEF EnsureAdminIdle, EnsureAdminPromotes, CheckDeferred, CheckDone, ChangeIgnored,
                ChangeRejected, ChangeUnhandled, clientVars, flagVars, gameVars
<1>6. CASE AddClientThrows \/ JoinsDone \/ ActionsDone \/ VisitClient
             \/ ReceiveChangeSetting \/ ClientDone \/ RelayThrows \/ MessagesDone
    BY <1>6 DEF AddClientThrows, JoinsDone, ActionsDone, VisitClient, ReceiveChangeSetting,
                ClientDone, RelayThrows, MessagesDone, clientVars, flagVars, gameVars
<1>7. CASE StartTheGame \/ StartThrows \/ FlushOutgoing \/ FlushDone \/ ShutdownDone
             \/ Interrupt \/ SocketBreaks \/ Stopped \/ UNCHANGED vars
    BY <1>7 DEF StartTheGame, StartThrows, FlushOutgoing, FlushDone, ShutdownDone, Interrupt,
                SocketBreaks, Stopped, vars, clientVars, flagVars, gameVars
<1> QED
    BY <1>1, <1>2, <1>3, <1>4, <1>5, <1>6, <1>7
       DEF Next, Serve, HandleClientMessages, ServerActionActs, ClientChangeSettingAct,
           PlayGame, Shutdown

\* Once the game is on nothing changes the role of a client that stays, the
\* players, the map or the universe.
THEOREM RolesStayFrozen == Spec => RolesFrozen
<1> DEFINE Frozen ==
        /\ \A c \in clients' :
             /\ playerId'[c] = playerId[c]
             /\ c \in observer' <=> c \in observer
        /\ DOMAIN players' = DOMAIN players
        /\ \A p \in DOMAIN players : players'[p].clients = players[p].clients \cap clients'
        /\ map' = map /\ universe' = universe
<1>1. ASSUME IInv, RolesInv, [Next]_vars, gameStarted, Running
      PROVE  Frozen
  <2>1. ASSUME NEW p \in DOMAIN players
        PROVE  /\ players[p].clients \subseteq clients
               /\ p = 0 => players[p].clients = {}
               /\ p # 0 => players[p].clients = {c \in clients : playerId[c] = p}
      BY <1>1 DEF RolesInv, PlayerListsExact
  <2>2. CASE UNCHANGED <<clients, playerId, observer, players, map, universe>>
      BY <2>1, <2>2
  <2>3. ASSUME NEW c \in ClientIds, RemoveClient(c)
        PROVE  Frozen
    <3>1. /\ clients' = clients \ {c} /\ observer' = observer \ {c}
          /\ playerId' = [playerId EXCEPT ![c] = 0]
          /\ players' = Reattach(c, playerId[c], 0)
          /\ map' = map /\ universe' = universe
        BY <2>3 DEF RemoveClient
    <3>2. /\ DOMAIN players' = DOMAIN players
          /\ \A d \in clients' : playerId'[d] = playerId[d] /\ (d \in observer' <=> d \in observer)
        BY <1>1, <3>1 DEF Reattach, IInv, TypeOK
    <3>3. ASSUME NEW p \in DOMAIN players
          PROVE  players'[p].clients = players[p].clients \cap clients'
      <4>1. players \in [DOMAIN players -> Player]
          BY <1>1 DEF IInv, TypeOK
      <4>2. CASE p # 0 /\ p = playerId[c]
        <5>1. players'[p].clients = players[p].clients \ {c}
            BY <3>1, <4>1, <4>2, ReattachClients
        <5> QED
            BY <2>1, <3>1, <5>1
      <4>3. CASE p = 0 \/ p # playerId[c]
        <5>1. players'[p].clients = players[p].clients
            BY <3>1, <4>1, <4>3, ReattachClients
        <5>2. c \notin players[p].clients
            BY <2>1, <4>3
        <5> QED
            BY <2>1, <3>1, <5>1, <5>2
      <4> QED
          BY <4>2, <4>3
    <3> QED
        BY <3>1, <3>2, <3>3
  <2> QED
      BY <1>1, <2>2, <2>3, GameSteps
<1>2. ASSUME [Next]_vars, ~Running
      PROVE  UNCHANGED vars
    BY <1>2, OnlyRunning
<1>3. ASSUME IInv, RolesInv, [Next]_vars
      PROVE  [gameStarted => Frozen]_vars
    BY <1>1, <1>2, <1>3
<1> QED
    BY <1>3, Invariance, RolesInvariance, PTL DEF Spec, RolesFrozen

-----------------------------------------------------------------------------
(* What the server owes its clients *)

\* Once the start is decided the lobby's loop does not begin again.
StartPending ==
    startGame /\ ~gameStarted => phase \notin {"join", "messages", "relay", "flush"}

OwedInv == ObligationsKept /\ StartPending

LEMMA InitOwed == Init => OwedInv
BY DEF Init, OwedInv, ObligationsKept, AdminSought, StartNotMissed, StartJustified,
       StartPending, CanStart

\* What is queued behind the front, or is put there by the action at the front,
\* is queued afterwards.
LEMMA RequeueKeeps ==
    ASSUME pending \in Seq(ServerActions), pending # <<>>,
           NEW front \in Seq(ServerActions), NEW back \in Seq(ServerActions),
           Requeue(front, back), NEW kind
    PROVE  /\ Queued(kind) /\ Head(pending).kind # kind => Queued(kind)'
           /\ (\E i \in DOMAIN front : front[i].kind = kind) => Queued(kind)'
           /\ (\E i \in DOMAIN back : back[i].kind = kind) => Queued(kind)'
<1> DEFINE rest == Tail(pending)
           all == front \o rest
<1>1. /\ rest \in Seq(ServerActions) /\ Len(rest) = Len(pending) - 1
      /\ \A i \in 1 .. Len(rest) : rest[i] = pending[i + 1]
      /\ DOMAIN pending = 1 .. Len(pending) /\ Len(pending) \in Nat
    BY HeadTailProperties, LenProperties
<1>2. /\ all \in Seq(ServerActions) /\ Len(all) = Len(front) + Len(rest)
      /\ \A i \in 1 .. Len(front) + Len(rest) :
            all[i] = IF i <= Len(front) THEN front[i] ELSE rest[i - Len(front)]
    BY <1>1, ConcatProperties
<1>3. /\ pending' = all \o back /\ pending' \in Seq(ServerActions)
      /\ Len(pending') = Len(all) + Len(back)
      /\ \A i \in 1 .. Len(all) + Len(back) :
            pending'[i] = IF i <= Len(all) THEN all[i] ELSE back[i - Len(all)]
    BY <1>2, ConcatProperties DEF Requeue
<1> HIDE DEF rest, all
<1>4. /\ DOMAIN pending' = 1 .. Len(pending') /\ DOMAIN front = 1 .. Len(front)
      /\ DOMAIN back = 1 .. Len(back)
      /\ {Len(front), Len(back), Len(rest), Len(all), Len(pending')} \subseteq Nat
    BY <1>1, <1>2, <1>3, LenProperties
<1>5. ASSUME Queued(kind), Head(pending).kind # kind
      PROVE  Queued(kind)'
  <2>1. PICK i \in 1 .. Len(pending) : pending[i].kind = kind
      BY <1>1, <1>5 DEF Queued
  <2>2. i # 1
      BY <1>5, <2>1
  <2>3. i - 1 \in 1 .. Len(rest) /\ rest[i - 1] = pending[i]
      BY <1>1, <2>1, <2>2
  <2> DEFINE j == Len(front) + i - 1
  <2>4. j \in 1 .. Len(all) /\ all[j] = pending[i] /\ j \in DOMAIN pending'
      BY <1>2, <1>3, <1>4, <2>3
  <2>5. pending'[j] = pending[i]
      BY <1>3, <1>4, <2>4
  <2> QED
      BY <2>1, <2>4, <2>5 DEF Queued
<1>6. ASSUME NEW i \in DOMAIN front, front[i].kind = kind
      PROVE  Queued(kind)'
  <2>1. i \in 1 .. Len(all) /\ all[i] = front[i] /\ i \in DOMAIN pending'
      BY <1>2, <1>3, <1>4
  <2>2. pending'[i] = front[i]
      BY <1>3, <1>4, <2>1
  <2> QED
      BY <1>6, <2>1, <2>2 DEF Queued
<1>7. ASSUME NEW i \in DOMAIN back, back[i].kind = kind
      PROVE  Queued(kind)'
  <2> DEFINE j == Len(all) + i
  <2>1. j \in DOMAIN pending' /\ pending'[j] = back[i]
      BY <1>3, <1>4
  <2> QED
      BY <1>7, <2>1 DEF Queued
<1> QED
    BY <1>5, <1>6, <1>7

\* Queued start checks and admin searches.
LEMMA ChecksQueue ==
    ASSUME NEW n \in Nat \ {0}
    PROVE  \E i \in DOMAIN Checks(n) : Checks(n)[i].kind = "checkForGameStart"
<1>1. 1 \in DOMAIN Checks(n) /\ Checks(n)[1] = CheckForGameStart
    BY DEF Checks
<1> QED
    BY <1>1 DEF CheckForGameStart

\* removeClient asks for both.
LEMMA RemoveClientOwed ==
    ASSUME IInv, OwedInv, NEW c, RemoveClient(c), phase' = phase,
           phase \notin {"actions", "starting"}
    PROVE  OwedInv'
<1>1. /\ pending' = <<EnsureAdminExists>> \o pending \o Checks(1)
      /\ pending \in Seq(ServerActions)
    BY DEF RemoveClient, IInv, TypeOK
<1>2. /\ <<EnsureAdminExists>> \in Seq(ServerActions) /\ Checks(1) \in Seq(ServerActions)
      /\ Len(<<EnsureAdminExists>>) = 1 /\ Len(Checks(1)) = 1 /\ Checks(1)[1] = CheckForGameStart
    BY EnsureSeq, ChecksSeq DEF Checks
<1> DEFINE some == <<EnsureAdminExists>> \o pending
<1>3. /\ some \in Seq(ServerActions) /\ Len(some) = 1 + Len(pending)
      /\ some[1] = EnsureAdminExists
    BY <1>1, <1>2, ConcatProperties, LenProperties
<1> HIDE DEF some
<1>4. /\ pending' \in Seq(ServerActions) /\ Len(pending') = Len(pending) + 2
      /\ pending'[1] = EnsureAdminExists /\ pending'[Len(pending) + 2] = CheckForGameStart
    <2>1. pending' = some \o Checks(1)
        BY <1>1 DEF some
    <2>2. /\ pending' \in Seq(ServerActions) /\ Len(pending') = Len(some) + Len(Checks(1))
          /\ \A i \in 1 .. Len(some) + Len(Checks(1)) :
                pending'[i] = IF i <= Len(some) THEN some[i] ELSE Checks(1)[i - Len(some)]
        BY <1>2, <1>3, <2>1, ConcatProperties
    <2>3. Len(pending) \in Nat
        BY <1>1, LenProperties
    <2> QED
        BY <1>2, <1>3, <2>2, <2>3
<1>5. Queued("ensureAdminExists")' /\ Queued("checkForGameStart")'
  <2>1. DOMAIN pending' = 1 .. Len(pending') /\ Len(pending) \in Nat
      BY <1>1, <1>4, LenProperties
  <2>2. 1 \in DOMAIN pending' /\ Len(pending) + 2 \in DOMAIN pending'
      BY <1>4, <2>1
  <2> QED
      BY <1>4, <2>2 DEF Queued, EnsureAdminExists, CheckForGameStart
<1>6. startGame' = startGame /\ gameStarted' = gameStarted
    BY DEF RemoveClient, startVars
<1> QED
    BY <1>5, <1>6 DEF OwedInv, ObligationsKept, AdminSought, StartNotMissed, StartJustified,
                      StartPending

LEMMA RemoversOwed ==
    ASSUME IInv, OwedInv, RemoveDeadClient \/ ClientLeaves \/ RelayRemoves
                            \/ FlushRemoves \/ ShutdownRemoves
    PROVE  OwedInv'
<1>1. phase' = phase /\ phase \notin {"actions", "starting"}
    BY DEF RemoveDeadClient, ClientLeaves, RelayRemoves, FlushRemoves, ShutdownRemoves, loopVars
<1>2. \E c : RemoveClient(c)
    BY DEF RemoveDeadClient, ClientLeaves, RelayRemoves, FlushRemoves, ShutdownRemoves
<1> QED
    BY <1>1, <1>2, RemoveClientOwed

\* Steps outside of the queue that change nothing of what is owed.
Elsewhere ==
    /\ UNCHANGED <<pending, clients, admin, neverAdmin, ready, observer, playerId, players,
                   map, startGame, gameStarted>>
    /\ ~gameStarted /\ startGame =>
         \/ phase' \notin {"join", "messages", "relay", "flush", "actions", "starting"}
         \/ phase' = phase
         \/ phase = "actions" /\ pending = <<>> /\ phase' = "starting"

LEMMA ElsewhereOwed ==
    ASSUME OwedInv, Elsewhere
    PROVE  OwedInv'
BY DEF OwedInv, Elsewhere, ObligationsKept, AdminSought, StartNotMissed, StartJustified,
       StartPending, Queued, CanStart, AllPlayersReady, AllClientsReady, PlayerReady,
       ClientReady

LEMMA ElsewhereSteps ==
    ASSUME IInv, OwedInv,
           \/ AddClientThrows \/ JoinsDone \/ ActionsDone
           \/ VisitClient \/ ClientDone \/ RelayThrows \/ MessagesDone \/ ChangeUnhandled
           \/ StartThrows \/ FlushOutgoing \/ FlushDone \/ ShutdownDone
           \/ Interrupt \/ SocketBreaks \/ Stopped \/ UNCHANGED vars
    PROVE  OwedInv'
<1> USE DEF Elsewhere, OwedInv, StartPending, loopVars, clientVars, flagVars, gameVars, startVars
<1>1. CASE AddClientThrows \/ JoinsDone \/ ActionsDone
    BY <1>1, ElsewhereOwed DEF AddClientThrows, JoinsDone, ActionsDone, AllHandled
<1>2. CASE VisitClient \/ ClientDone \/ RelayThrows \/ MessagesDone \/ ChangeUnhandled
    BY <1>2, ElsewhereOwed DEF VisitClient, ClientDone, RelayThrows, MessagesDone,
                               ChangeUnhandled
<1>3. CASE StartThrows \/ FlushOutgoing \/ FlushDone \/ ShutdownDone
    BY <1>3, ElsewhereOwed DEF StartThrows, FlushOutgoing, FlushDone, ShutdownDone
<1>4. CASE Interrupt \/ SocketBreaks \/ Stopped \/ UNCHANGED vars
    BY <1>4, ElsewhereOwed DEF Interrupt, SocketBreaks, Stopped, vars
<1> QED
    BY <1>1, <1>2, <1>3, <1>4

\* A step of an action at the front of the queue: what it makes owed it queues,
\* and what was owed before is behind it in the queue.
LEMMA ActionOwed ==
    ASSUME IInv, OwedInv, phase = "actions", pending # <<>>,
           NEW front \in Seq(ServerActions), NEW back \in Seq(ServerActions),
           Requeue(front, back), UNCHANGED <<clients, startGame, gameStarted>>,
           phase' \notin {"join", "messages", "relay", "flush", "starting"},
           \/ gameStarted \/ clients \cap admin' # {} \/ clients \subseteq neverAdmin'
           \/ /\ clients \cap admin = {} /\ ~(clients \subseteq neverAdmin)
              /\ Head(pending).kind # "ensureAdminExists"
           \/ \E i \in DOMAIN front : front[i].kind = "ensureAdminExists",
           \/ gameStarted \/ ~CanStart' \/ Queued("checkForGameStart")'
           \/ CanStart /\ Head(pending).kind \notin {"checkForGameStart", "setMapPlayMode"}
           \/ \E i \in DOMAIN front : front[i].kind = "setMapPlayMode"
           \/ \E i \in DOMAIN back : back[i].kind = "checkForGameStart"
    PROVE  OwedInv'
<1>1. gameStarted \/ ~startGame
    BY DEF OwedInv, ObligationsKept, StartJustified
<1>2. pending \in Seq(ServerActions)
    BY DEF IInv, TypeOK
<1>3. AdminSought'
    BY <1>2, RequeueKeeps DEF OwedInv, ObligationsKept, AdminSought
<1>4. StartNotMissed'
    BY <1>1, <1>2, RequeueKeeps DEF OwedInv, ObligationsKept, StartNotMissed
<1>5. StartJustified' /\ StartPending'
    BY <1>1 DEF StartJustified, StartPending
<1> QED
    BY <1>3, <1>4, <1>5 DEF OwedInv, ObligationsKept

\* What the readiness of the game depends on.
LEMMA SameCanStart ==
    ASSUME UNCHANGED <<clients, ready, observer, playerId, players, map>>
    PROVE  CanStart' <=> CanStart
BY DEF CanStart, AllPlayersReady, AllClientsReady, PlayerReady, ClientReady

LEMMA SearchOwed ==
    ASSUME IInv, OwedInv, EnsureAdminIdle \/ EnsureAdminPromotes
    PROVE  OwedInv'
<1>1. /\ phase = "actions" /\ pending # <<>> /\ Head(pending).kind = "ensureAdminExists"
      /\ UNCHANGED <<clients, ready, observer, playerId, players, map, neverAdmin,
                     startGame, gameStarted>>
      /\ Requeue(<<>>, <<>>) /\ phase' \in {"actions", "treeFatal"}
    BY DEF EnsureAdminIdle, EnsureAdminPromotes, Acting, loopVars, clientVars, flagVars,
           gameVars, startVars
<1>2. gameStarted \/ clients \cap admin' # {} \/ clients \subseteq neverAdmin'
    BY <1>1 DEF EnsureAdminIdle, EnsureAdminPromotes, AdminNotNeeded, Candidates, clientVars,
                flagVars
<1>3. CanStart' <=> CanStart
    BY <1>1, SameCanStart
<1> QED
    BY <1>1, <1>2, <1>3, ActionOwed, EmptySeq

\* Requests that are not carried out, or change nothing that readiness depends on.
LEMMA PlainChangeOwed ==
    ASSUME IInv, OwedInv,
           \/ ChangeIgnored \/ ChangeRejected \/ ChangeUniverse \/ ChangeMap
           \/ ActRequestUniverse
    PROVE  OwedInv'
<1> USE DEF Accepted, Changing, Acting, loopVars, clientVars, flagVars, gameVars, startVars
<1>1. /\ phase = "actions" /\ pending # <<>>
      /\ Head(pending).kind \in {"clientChangeSetting", "requestUniverse"}
      /\ UNCHANGED <<clients, ready, observer, playerId, players, map, admin, neverAdmin,
                     startGame, gameStarted>>
      /\ phase' \in {"actions", "socketExn", "lateActionAssert"}
    BY DEF ChangeIgnored, ChangeRejected, ChangeUniverse, ChangeMap, ActRequestUniverse
<1>2. \E front \in Seq(ServerActions) : Requeue(front, <<>>)
  <2>1. CASE ChangeIgnored \/ ChangeRejected \/ ActRequestUniverse
      BY <2>1, EmptySeq DEF ChangeIgnored, ChangeRejected, ActRequestUniverse
  <2>2. CASE ChangeUniverse
    <3>1. Value \in Universes
        BY <2>2, AcceptedFacts DEF ChangeUniverse, Refused, Value
    <3>2. <<RequestUniverse(Value)>> \in Seq(ServerActions)
      <4>1. RequestUniverse(Value) \in ServerActions
          BY <3>1 DEF ServerActions
      <4> QED
          BY <4>1
    <3> QED
        BY <2>2, <3>2, EmptySeq DEF ChangeUniverse
  <2>3. CASE ChangeMap
    <3>1. Value \in Maps /\ universe \in Universes
        BY <2>3, AcceptedFacts DEF ChangeMap, Refused, Value, IInv, TypeOK
    <3>2. <<RequestMap(Value, universe)>> \in Seq(ServerActions)
      <4>1. RequestMap(Value, universe) \in ServerActions
          BY <3>1 DEF ServerActions
      <4> QED
          BY <4>1
    <3> QED
        BY <2>3, <3>2, EmptySeq DEF ChangeMap
  <2> QED
      BY <2>1, <2>2, <2>3
<1>3. PICK front \in Seq(ServerActions) : Requeue(front, <<>>)
    BY <1>2
<1>4. CanStart' <=> CanStart
    BY <1>1, SameCanStart
<1> QED
    BY <1>1, <1>3, <1>4, ActionOwed, EmptySeq

\* An admin that gives up its status, or a client that becomes willing, has the
\* search queued.
LEMMA ChangeAdminOwed ==
    ASSUME IInv, OwedInv, ChangeAdmin \/ ChangeNeverAdmin
    PROVE  OwedInv'
<1> DEFINE front == IF Value = Off /\ Target \in IF ChangeAdmin THEN admin ELSE neverAdmin
                    THEN <<EnsureAdminExists>> ELSE <<>>
<1>1. ASSUME NEW s \in {"admin", "neveradmin"}, Accepted(s)
      PROVE  /\ phase = "actions" /\ pending # <<>> /\ Target \in clients
             /\ Head(pending).kind = "clientChangeSetting" /\ Value \in {On, Off}
  <2>1. Request.setting = s /\ NodeExists(Request) /\ Request \in AllRequests
      BY <1>1, AcceptedFacts DEF MayWrite
  <2>2. Value \in {On, Off}
      BY <2>1 DEF Value, AllRequests, BoolSettings, UnhandledSettings
  <2> QED
      BY <1>1, <2>1, <2>2 DEF NodeExists, BoolSettings, Target, Accepted, Changing, Acting
<1>2. Accepted("admin") => ~Accepted("neveradmin")
    BY DEF Accepted, Changing
<1>3. /\ phase = "actions" /\ pending # <<>> /\ Target \in clients /\ Value \in {On, Off}
      /\ Head(pending).kind = "clientChangeSetting"
    BY <1>1 DEF ChangeAdmin, ChangeNeverAdmin
<1>4. /\ UNCHANGED <<clients, ready, observer, playerId, players, map, startGame, gameStarted>>
      /\ phase' = phase /\ Requeue(front, <<>>)
    BY <1>2 DEF ChangeAdmin, ChangeNeverAdmin, loopVars, gameVars, startVars
<1>5. front \in {<<>>, <<EnsureAdminExists>>}
    OBVIOUS
<1>6. \/ clients \cap admin' # {} \/ clients \subseteq neverAdmin'
      \/ clients \cap admin = {} /\ ~(clients \subseteq neverAdmin)
      \/ front = <<EnsureAdminExists>>
  <2>1. CASE ChangeAdmin
    <3>1. CASE Value = On
        BY <1>3, <2>1, <3>1 DEF ChangeAdmin, SetTo
    <3>2. CASE Value = Off /\ Target \notin admin
        BY <1>3, <2>1, <3>2 DEF ChangeAdmin, SetTo, On, Off
    <3>3. CASE Value = Off /\ Target \in admin
        BY <2>1, <3>3
    <3> QED
        BY <1>3, <3>1, <3>2, <3>3
  <2>2. CASE ChangeNeverAdmin /\ ~ChangeAdmin
    <3>1. CASE Value = On
        BY <1>3, <2>2, <3>1 DEF ChangeNeverAdmin, SetTo
    <3>2. CASE Value = Off /\ Target \notin neverAdmin
        BY <1>3, <2>2, <3>2 DEF ChangeNeverAdmin, SetTo, On, Off
    <3>3. CASE Value = Off /\ Target \in neverAdmin
        BY <2>2, <3>3
    <3> QED
        BY <1>3, <3>1, <3>2, <3>3
  <2> QED
      BY <2>1, <2>2
<1>7. front \in Seq(ServerActions)
    BY <1>5, EnsureSeq, EmptySeq
<1>8. front = <<EnsureAdminExists>> =>
         \E i \in DOMAIN front : front[i].kind = "ensureAdminExists"
    BY DEF EnsureAdminExists
<1>9. CanStart' <=> CanStart
    BY <1>4, SameCanStart
<1> HIDE DEF front
<1> QED
    BY <1>3, <1>4, <1>6, <1>7, <1>8, <1>9, ActionOwed, EmptySeq

\* The step of an action that leaves admins alone, and queues a check if it makes
\* the game ready to start.
LEMMA ReadinessOwed ==
    ASSUME IInv, OwedInv, phase = "actions", pending # <<>>,
           Head(pending).kind # "ensureAdminExists",
           NEW back \in {<<>>} \cup {Checks(n) : n \in Nat \ {0}}, Requeue(<<>>, back),
           UNCHANGED <<clients, admin, neverAdmin, startGame, gameStarted>>,
           phase' \notin {"join", "messages", "relay", "flush", "starting"},
           back = <<>> =>
              /\ Head(pending).kind \notin {"checkForGameStart", "setMapPlayMode"}
              /\ CanStart' => CanStart
    PROVE  OwedInv'
<1>1. back \in Seq(ServerActions)
    BY ChecksSeq, EmptySeq
<1>2. back = <<>> \/ \E i \in DOMAIN back : back[i].kind = "checkForGameStart"
    BY ChecksQueue
<1> QED
    BY <1>1, <1>2, ActionOwed, EmptySeq

\* A flag set may complete the conditions and queues a check; one cleared
\* completes nothing.
LEMMA ChangeFlagOwed ==
    ASSUME IInv, OwedInv, ChangeReady \/ ChangeObserver
    PROVE  OwedInv'
<1>1. ASSUME NEW s \in {"ready", "observer"}, Accepted(s)
      PROVE  /\ phase = "actions" /\ pending # <<>> /\ Target \in clients
             /\ Head(pending).kind = "clientChangeSetting"
             /\ Value = On /\ s = "ready" => Target \notin ready
             /\ Value = On /\ s = "observer" => Target \notin observer
  <2>1. /\ Request.setting = s /\ NodeExists(Request) /\ ~Refused(Request) /\ Running
      BY <1>1, AcceptedFacts DEF MayWrite
  <2>2. /\ Value = On /\ s = "ready" => Target \notin ready
        /\ Value = On /\ s = "observer" => Target \notin observer
      BY <2>1 DEF Refused, HasValue, Value, Target, IInv, TreeAgrees
  <2> QED
      BY <1>1, <2>1, <2>2 DEF NodeExists, BoolSettings, Target, Accepted, Changing, Acting
<1> DEFINE back == IF Value = On THEN Checks(1) ELSE <<>>
<1>2. CASE ChangeReady
  <2> USE <1>2 DEF ChangeReady, loopVars, gameVars, startVars
  <2>1. Requeue(<<>>, back)
      BY <1>1
  <2>2. Value # On => (CanStart' => CanStart)
      BY DEF SetTo, CanStart, AllPlayersReady, AllClientsReady, PlayerReady, ClientReady
  <2>3. back \in {<<>>} \cup {Checks(n) : n \in Nat \ {0}}
      OBVIOUS
  <2>4. back = <<>> => Value # On
      BY DEF Checks
  <2> HIDE DEF back
  <2> QED
      BY <1>1, <2>1, <2>2, <2>3, <2>4, ReadinessOwed
<1>3. CASE ChangeObserver
  <2> USE <1>3 DEF ChangeObserver, loopVars, gameVars, startVars
  <2>1. Requeue(<<>>, back)
      BY <1>1
  <2>2. Value # On => (CanStart' => CanStart)
      BY DEF SetTo, CanStart, AllPlayersReady, AllClientsReady, PlayerReady, ClientReady
  <2>3. back \in {<<>>} \cup {Checks(n) : n \in Nat \ {0}}
      OBVIOUS
  <2>4. back = <<>> => Value # On
      BY DEF Checks
  <2> HIDE DEF back
  <2> QED
      BY <1>1, <2>1, <2>2, <2>3, <2>4, ReadinessOwed
<1> QED
    BY <1>2, <1>3

LEMMA ChangePlayerOwed ==
    ASSUME IInv, OwedInv, ChangePlayer
    PROVE  OwedInv'
<1>1. /\ phase = "actions" /\ pending # <<>> /\ Head(pending).kind = "clientChangeSetting"
      /\ Request.setting = "player" /\ ~Refused(Request) /\ Running
    BY AcceptedFacts DEF ChangePlayer, Accepted, Changing, Acting
<1>2. playerId[Target] # Value
    BY <1>1 DEF Refused, Target, Value, IInv, TreeAgrees
<1>3. /\ Requeue(<<>>, Checks(1)) /\ phase' \in {"actions", "attachAssert"}
      /\ UNCHANGED <<clients, admin, neverAdmin, startGame, gameStarted>>
    BY <1>1, <1>2 DEF ChangePlayer, flagVars, startVars
<1>4. Checks(1) # <<>> /\ Checks(1) \in {<<>>} \cup {Checks(n) : n \in Nat \ {0}}
    BY DEF Checks
<1> QED
    BY <1>1, <1>3, <1>4, ReadinessOwed

\* Neither the limit on a player's clients nor the end of observers makes a game
\* ready that was not.
LEMMA ChangeLimitsOwed ==
    ASSUME IInv, OwedInv, ChangeMaxClients \/ ChangeAllowObservers
    PROVE  OwedInv'
<1>1. /\ phase = "actions" /\ pending # <<>> /\ Head(pending).kind = "clientChangeSetting"
      /\ Requeue(<<>>, <<>>) /\ phase' \in {"actions", "treeFatal"}
      /\ UNCHANGED <<clients, admin, neverAdmin, ready, playerId, map, startGame, gameStarted>>
    BY DEF ChangeMaxClients, ChangeAllowObservers, Accepted, Changing, Acting, loopVars,
           flagVars, startVars
<1>2. CanStart' => CanStart
  <2>1. CASE ChangeMaxClients
    <3>1. ASSUME NEW p \in DOMAIN players
          PROVE  p \in DOMAIN players' /\ PlayerReady(p)' = PlayerReady(p)
      <4>1. players[p] \in Player
          BY DEF IInv, TypeOK
      <4> QED
          BY <2>1, <4>1 DEF ChangeMaxClients, PlayerReady, Player
    <3>2. AllClientsReady' = AllClientsReady
        BY <1>1, <2>1 DEF ChangeMaxClients, flagVars, AllClientsReady, ClientReady
    <3> QED
        BY <1>1, <3>1, <3>2 DEF CanStart, AllPlayersReady
  <2>2. CASE ChangeAllowObservers
      BY <1>1, <2>2 DEF ChangeAllowObservers, CanStart, AllPlayersReady, AllClientsReady,
                        PlayerReady, ClientReady
  <2> QED
      BY <2>1, <2>2
<1> QED
    BY <1>1, <1>2, ReadinessOwed

\* A new map has its play mode set next, and a new play mode is checked.
LEMMA ActMapOwed ==
    ASSUME IInv, OwedInv, ActRequestMap \/ ActSetMapPlayMode
    PROVE  OwedInv'
<1>1. CASE ActRequestMap
  <2>1. /\ phase = "actions" /\ pending # <<>> /\ Head(pending).kind = "requestMap"
        /\ Requeue(<<SetMapPlayMode>>, <<>>) /\ phase' \in {"actions", "lateActionAssert"}
        /\ UNCHANGED <<clients, admin, neverAdmin, startGame, gameStarted>>
      BY <1>1 DEF ActRequestMap, Acting, flagVars, startVars
  <2> DEFINE front == <<SetMapPlayMode>>
  <2>2. front \in Seq(ServerActions) /\ 1 \in DOMAIN front /\ front[1] = SetMapPlayMode
      BY DEF ServerActions
  <2>3. \E i \in DOMAIN front : front[i].kind = "setMapPlayMode"
      BY <2>2 DEF SetMapPlayMode
  <2>4. Requeue(front, <<>>)
      BY <2>1
  <2> HIDE DEF front
  <2> QED
      BY <2>1, <2>2, <2>3, <2>4, ActionOwed, EmptySeq DEF OwedInv, ObligationsKept, AdminSought
<1>2. CASE ActSetMapPlayMode
  <2> DEFINE attached == {c \in clients : playerId[c] # 0}
  <2>1. /\ phase = "actions" /\ pending # <<>> /\ Head(pending).kind = "setMapPlayMode"
        /\ ~gameStarted
      BY <1>2, LateAction DEF LateKinds, ActSetMapPlayMode
  <2>2. /\ Requeue(<<>>, Checks(Cardinality(attached) + 1))
        /\ phase' \in {"actions", "lateActionAssert", "treeFatal"}
        /\ UNCHANGED <<clients, admin, neverAdmin, startGame, gameStarted>>
      BY <1>2, <2>1 DEF ActSetMapPlayMode, flagVars, startVars
  <2>3. Cardinality(attached) + 1 \in Nat \ {0}
    <3>1. IsFiniteSet(ClientIds)
        BY FS_Interval, CountsAssumption DEF ClientIds
    <3>3. attached \subseteq ClientIds
        BY DEF IInv, TypeOK
    <3>2. Cardinality(attached) \in Nat
        BY <3>1, <3>3, FS_Subset, FS_CardinalityType
    <3> HIDE DEF attached
    <3> QED
        BY <3>2
  <2> DEFINE n == Cardinality(attached) + 1
  <2>4. n \in Nat \ {0} /\ Requeue(<<>>, Checks(n))
      BY <2>2, <2>3
  <2> HIDE DEF n
  <2>5. Checks(n) # <<>>
    <3>1. 1 \in DOMAIN Checks(n)
        BY <2>4 DEF Checks
    <3> QED
        BY <3>1
  <2> QED
      BY <2>1, <2>2, <2>4, <2>5, ReadinessOwed
<1> QED
    BY <1>1, <1>2

\* A check that is put off has another one behind it.
LEMMA CheckDeferredOwed ==
    ASSUME IInv, OwedInv, CheckDeferred
    PROVE  OwedInv'
<1>1. /\ phase = "actions" /\ pending # <<>> /\ Head(pending).kind = "checkForGameStart"
      /\ gameStarted \/ Len(pending) # 1
      /\ Requeue(<<>>, Resubmitted) /\ phase' = phase
      /\ UNCHANGED <<clients, admin, neverAdmin, startGame, gameStarted>>
    BY DEF CheckDeferred, Acting, LastAction, loopVars, clientVars, flagVars, startVars
<1>2. pending \in Seq(ServerActions)
    BY DEF IInv, TypeOK
<1>3. Resubmitted \in Seq(ServerActions)
    BY ChecksSeq, EmptySeq DEF Resubmitted
<1>4. gameStarted \/ Queued("checkForGameStart")'
  <2>1. CASE Resubmitted = Checks(1)
    <3>1. \E i \in DOMAIN Resubmitted : Resubmitted[i].kind = "checkForGameStart"
        BY <2>1, ChecksQueue
    <3> QED
        BY <1>1, <1>2, <1>3, <3>1, RequeueKeeps, EmptySeq
  <2>2. CASE ~gameStarted /\ pending[2].kind = "checkForGameStart"
    <3>1. Resubmitted = <<>>
        BY <2>2 DEF Resubmitted
    <3>2. /\ Tail(pending) \in Seq(ServerActions) /\ Len(Tail(pending)) = Len(pending) - 1
          /\ Len(pending) \in Nat /\ Len(pending) # 0
          /\ \A i \in 1 .. Len(Tail(pending)) : Tail(pending)[i] = pending[i + 1]
        BY <1>1, <1>2, HeadTailProperties, LenProperties, EmptySeq
    <3>3. pending' = Tail(pending)
        BY <1>1, <3>1, <3>2, ConcatEmptySeq DEF Requeue
    <3>4. 1 \in DOMAIN Tail(pending) /\ Tail(pending)[1] = pending[2]
      <4>1. Len(pending) \in Nat \ {0, 1}
          BY <1>1, <2>2, <3>2
      <4>2. 1 \in 1 .. Len(Tail(pending))
          BY <3>2, <4>1
      <4> QED
          BY <3>2, <4>2, LenProperties
    <3> QED
        BY <2>2, <3>3, <3>4 DEF Queued
  <2> QED
      BY <2>1, <2>2 DEF Resubmitted
<1> QED
    BY <1>1, <1>3, <1>4, ActionOwed, EmptySeq DEF OwedInv, ObligationsKept, AdminSought

\* The check that is made is the last action, so that no admin is sought.
LEMMA CheckDoneOwed ==
    ASSUME IInv, OwedInv, CheckDone
    PROVE  OwedInv'
<1>1. /\ phase = "actions" /\ pending # <<>> /\ Head(pending).kind = "checkForGameStart"
      /\ ~gameStarted /\ Len(pending) = 1 /\ Requeue(<<>>, <<>>)
      /\ startGame' = (IF map # None /\ AllPlayersReady THEN AllClientsReady ELSE startGame)
      /\ UNCHANGED <<phase, clients, admin, neverAdmin, ready, observer, playerId, players,
                     map, gameStarted>>
    BY DEF CheckDone, Acting, LastAction, loopVars, clientVars, flagVars, gameVars
<1>2. ~startGame
    BY <1>1 DEF OwedInv, ObligationsKept, StartJustified
<1>3. CanStart' <=> CanStart
    BY <1>1, SameCanStart
<1>4. startGame' <=> CanStart
    BY <1>1, <1>2 DEF CanStart
<1>5. pending' = <<>>
  <2>1. pending \in Seq(ServerActions)
      BY DEF IInv, TypeOK
  <2>2. Tail(pending) \in Seq(ServerActions) /\ Len(Tail(pending)) = 0
      BY <1>1, <2>1, HeadTailProperties
  <2>3. Tail(pending) = <<>>
      BY <2>2, EmptySeq
  <2> QED
      BY <1>1, <2>3, ConcatEmptySeq, EmptySeq DEF Requeue
<1>6. ~Queued("ensureAdminExists")
  <2>1. DOMAIN pending = {1} /\ Head(pending) = pending[1]
      BY <1>1, LenProperties, HeadTailProperties DEF IInv, TypeOK
  <2> QED
      BY <1>1, <2>1 DEF Queued
<1>7. AdminSought'
    BY <1>1, <1>6 DEF OwedInv, ObligationsKept, AdminSought
<1> QED
    BY <1>1, <1>3, <1>4, <1>5, <1>7
       DEF OwedInv, ObligationsKept, StartNotMissed, StartJustified, StartPending

\* A new client is unwilling to be admin, and not ready.
LEMMA AddClientOwed ==
    ASSUME IInv, OwedInv, AddClient
    PROVE  OwedInv'
<1>1. PICK c \in ClientIds \ clients :
        clients' = clients \cup {c} /\ neverAdmin' = neverAdmin \cup {c}
    BY FreeIdFact DEF AddClient
<1>2. /\ phase = "join" /\ ~gameStarted
      /\ UNCHANGED <<phase, pending, admin, ready, startGame, gameStarted>>
    BY DEF AddClient, IInv, QueueFits, loopVars, startVars
<1>3. ~startGame
    BY <1>2 DEF OwedInv, StartPending
<1>4. c \notin admin /\ c \notin ready
    BY <1>1 DEF IInv, TypeOK
<1>5. ~CanStart'
    BY <1>1, <1>2, <1>4 DEF CanStart, AllClientsReady, ClientReady
<1>6. AdminSought'
    BY <1>1, <1>2, <1>4 DEF OwedInv, ObligationsKept, AdminSought, Queued
<1> QED
    BY <1>2, <1>3, <1>5, <1>6
       DEF OwedInv, ObligationsKept, StartNotMissed, StartJustified, StartPending

LEMMA ReceiveOwed ==
    ASSUME IInv, OwedInv, ReceiveChangeSetting
    PROVE  OwedInv'
<1>1. /\ phase = "messages" /\ UNCHANGED <<phase, startGame, gameStarted, clients, admin,
                                           neverAdmin, ready, observer, playerId, players, map>>
      /\ \E r : pending' = Append(pending, ClientChangeSetting(visiting, r))
    BY DEF ReceiveChangeSetting, loopVars, clientVars, flagVars, gameVars, startVars
<1>2. PICK r : pending' = Append(pending, ClientChangeSetting(visiting, r))
    BY <1>1
<1>3. ASSUME NEW k, Queued(k)
      PROVE  Queued(k)'
  <2>1. pending \in Seq(ServerActions)
      BY DEF IInv, TypeOK
  <2>2. \A i \in DOMAIN pending : i \in DOMAIN pending' /\ pending'[i] = pending[i]
      BY <1>2, <2>1
  <2> QED
      BY <1>3, <2>2 DEF Queued
<1>4. CanStart' <=> CanStart
    BY <1>1, SameCanStart
<1> QED
    BY <1>1, <1>3, <1>4 DEF OwedInv, ObligationsKept, AdminSought, StartNotMissed,
                            StartJustified, StartPending

LEMMA StartTheGameOwed ==
    ASSUME StartTheGame
    PROVE  OwedInv'
BY DEF StartTheGame, OwedInv, ObligationsKept, AdminSought, StartNotMissed, StartJustified,
       StartPending

LEMMA StepOwed == IInv /\ OwedInv /\ [Next]_vars => OwedInv'
<1> SUFFICES ASSUME IInv, OwedInv, [Next]_vars PROVE OwedInv'
    OBVIOUS
<1>1. CASE RemoveDeadClient \/ ClientLeaves \/ RelayRemoves \/ FlushRemoves \/ ShutdownRemoves
    BY <1>1, RemoversOwed
<1>2. CASE AddClient \/ ReceiveChangeSetting \/ StartTheGame
    BY <1>2, AddClientOwed, ReceiveOwed, StartTheGameOwed
<1>3. CASE ServerActionActs /\ ~ChangeUnhandled
  <2>1. CASE EnsureAdminIdle \/ EnsureAdminPromotes \/ CheckDeferred \/ CheckDone
      BY <2>1, SearchOwed, CheckDeferredOwed, CheckDoneOwed
  <2>2. CASE ActRequestUniverse \/ ActRequestMap \/ ActSetMapPlayMode
      BY <2>2, PlainChangeOwed, ActMapOwed
  <2>3. CASE ClientChangeSettingAct /\ ~ChangeUnhandled
      BY <2>3, PlainChangeOwed, ChangeAdminOwed, ChangeFlagOwed, ChangePlayerOwed,
         ChangeLimitsOwed DEF ClientChangeSettingAct
  <2> QED
      BY <1>3, <2>1, <2>2, <2>3 DEF ServerActionActs
<1>4. CASE \/ AddClientThrows \/ JoinsDone \/ ActionsDone
           \/ VisitClient \/ ClientDone \/ RelayThrows \/ MessagesDone \/ ChangeUnhandled
           \/ StartThrows \/ FlushOutgoing \/ FlushDone \/ ShutdownDone
           \/ Interrupt \/ SocketBreaks \/ Stopped \/ UNCHANGED vars
    BY <1>4, ElsewhereSteps
<1> QED
    BY <1>1, <1>2, <1>3, <1>4
       DEF Next, Serve, HandleClientMessages, ServerActionActs, ClientChangeSettingAct,
           PlayGame, Shutdown

\* While there is no admin and somebody is willing, the search for one is queued;
\* a lobby that can start has its start decided or a check queued; and the game
\* starts only while its conditions hold, with nothing left to be done.
THEOREM ServerKeepsObligations == Spec => []ObligationsKept
<1>1. Init => OwedInv
    BY InitOwed
<1>2. IInv /\ OwedInv /\ [Next]_vars => OwedInv'
    BY StepOwed
<1>3. OwedInv => ObligationsKept
    BY DEF OwedInv
<1> QED
    BY <1>1, <1>2, <1>3, Invariance, PTL DEF Spec

=============================================================================
