---------------------------- MODULE SensorReturns ----------------------------
(***************************************************************************)
(* Units, their owners, and who sees them: libsakusen-server's Player,     *)
(* LayeredUnit and DynamicSensorReturns during a game, with the view that  *)
(* the clients of each player have of it (PartialWorld).                   *)
(*                                                                         *)
(* A tick acts on the units (orders, weapons, effects and scripts: here,   *)
(* any sequence of the operations they may call), then lets each player    *)
(* check its sensor returns, then clears the dirty flags of the units, and *)
(* sends the clients what they were told on the way.  Updates arrive in    *)
(* order and a client's reaction to them feeds nothing back, so views is   *)
(* the view after the updates queued so far.                               *)
(***************************************************************************)
EXTENDS Naturals, PartialWorld

CONSTANTS
    Units,        \* LayeredUnits; one that is gone may be used anew
    LastPlayer,   \* players are 0 (neutral) .. LastPlayer
    Sensors,      \* the sensor types that the units have
    JointReadings,\* what the sensors of a unit can read of another together
    MaxUnitId,    \* bound: units given to one player so far
    MaxReturnsId  \* bound: sensor returns of one player so far

Players == 0 .. LastPlayer
SensorTypes == {"optical", "infraRed", "radarPassive", "radarActive",
                "sonarPassive", "sonarActive", "seismar"}
\* The sensors that work only while the unit has them switched on
Switched == {"radarActive", "sonarActive"}

\* What one sensor can make of a unit: the unit within its range, a region
\* within twice its range, nothing beyond.  Units may be anywhere from tick to
\* tick, so any joint reading may come at any time.
Readings == {NothingPerceived, {"region"}, {"unit"}}

ASSUME SensorsAssumption == Sensors \subseteq SensorTypes
ASSUME ReadingsAssumption ==
    /\ JointReadings \subseteq [Sensors -> Readings]
    /\ [s \in Sensors |-> NothingPerceived] \in JointReadings
ASSUME PlayersAssumption == LastPlayer \in Nat
ASSUME BoundsAssumption == MaxUnitId \in Nat /\ MaxReturnsId \in Nat

VARIABLES
    phase,          \* "acting", "destroyed", "visible", "clearing" or "ended"
    checking,       \* the player whose checkSensorReturns runs
    unchecked,      \* the units its loop has still to reach
    alive,          \* the world's units
    owner,          \* LayeredUnit::owner
    unitId,         \* LayeredUnit::unitId
    status,         \* the switched sensors that are on: the part of a unit's
                    \*   status that its clients must be told of
    dirty,          \* the units whose dirty flag is set
    units,          \* Player::units: unit by id
    nextUnitId,
    returns,        \* Player::sensorReturns, by sensee
    nextReturnsId,
    failed,         \* whether a SAKUSEN_FATAL or assert of the server is reached
    views           \* what the clients of each player know

tickVars == <<phase, checking, unchecked>>
unitVars == <<alive, owner, unitId, status, dirty, units, nextUnitId>>
returnVars == <<returns, nextReturnsId>>
vars == <<tickVars, unitVars, returnVars, failed, views>>

-----------------------------------------------------------------------------
(* Units and their owners *)

\* Flags the returns that show the unit, for every player.
Flagged(u) ==
    [p \in Players |->
        IF u \in DOMAIN returns[p] /\ "unit" \in returns[p][u].perception
        THEN [returns[p] EXCEPT ![u].dirty = TRUE]
        ELSE returns[p]]

\* Mutant: the unit's own flag is forgotten.
SetDirtyReturnsOnly(u) ==
    /\ dirty' = dirty
    /\ returns' = IF u \in dirty THEN returns ELSE Flagged(u)
\* Mutant: the flags of its returns are forgotten.
SetDirtyUnitOnly(u) ==
    /\ dirty' = dirty \cup {u}
    /\ returns' = returns
\* LayeredUnit::setDirty: if the unit is dirty, its returns are taken to be.
SetDirty(u) ==
    /\ dirty' = dirty \cup {u}
    /\ returns' = IF u \in dirty THEN returns ELSE Flagged(u)

\* What the clients of the owner are told by clearDirty, if the unit is dirty
ToldOfChange(u) ==
    IF u \in dirty
    THEN [views EXCEPT ![owner[u]] = UnitAltered(@, unitId[u], status[u])]
    ELSE views

\* Mutant: the last changes are sent once the unit is gone.
ToldOfLossLate(u) ==
    LET removed == [views EXCEPT ![owner[u]] = UnitRemoved(@, unitId[u])]
    IN  IF u \in dirty
        THEN [removed EXCEPT ![owner[u]] = UnitAltered(@, unitId[u], status[u])]
        ELSE removed
\* clearDirty and Player::removeUnit: the clients see the last changes, then
\* that the unit is gone.
ToldOfLoss(u) ==
    [ToldOfChange(u) EXCEPT ![owner[u]] = UnitRemoved(@, unitId[u])]
UnitsWithout(u) ==
    [units EXCEPT ![owner[u]] = Without(@, unitId[u])]
NotTheirs(u) == unitId[u] \notin DOMAIN units[owner[u]]

\* Mutant: the unit is given the id that comes after its own.
AddUnitLateId(u, p, on, theirUnits, known) ==
    /\ units' = [theirUnits EXCEPT ![p] = With(@, nextUnitId[p], u)]
    /\ unitId' = [unitId EXCEPT ![u] = nextUnitId[p] + 1]
    /\ nextUnitId' = [nextUnitId EXCEPT ![p] = @ + 1]
    /\ views' = [known EXCEPT ![p] = UnitAdded(@, nextUnitId[p], on)]
\* Player::addUnit for a unit of status on, when its clients know known and
\* the players have theirUnits
AddUnit(u, p, on, theirUnits, known) ==
    /\ units' = [theirUnits EXCEPT ![p] = With(@, nextUnitId[p], u)]
    /\ unitId' = [unitId EXCEPT ![u] = nextUnitId[p]]
    /\ nextUnitId' = [nextUnitId EXCEPT ![p] = @ + 1]
    /\ views' = [known EXCEPT ![p] = UnitAdded(@, nextUnitId[p], on)]
IdTaken(p, theirUnits) == nextUnitId[p] \in DOMAIN theirUnits[p]

\* LayeredUnit::spawn and CompleteWorld::addUnit
Spawn(u, p, on) ==
    /\ phase = "acting"
    /\ u \notin alive
    /\ \A q \in Players : u \notin DOMAIN returns[q]
    /\ nextUnitId[p] < MaxUnitId
    /\ alive' = alive \cup {u}
    /\ owner' = [owner EXCEPT ![u] = p]
    /\ status' = [status EXCEPT ![u] = on]
    /\ AddUnit(u, p, on, units, views)
    /\ failed' = (failed \/ IdTaken(p, units))
    /\ UNCHANGED <<tickVars, dirty, returnVars>>

\* LayeredUnit::setRadar and setSonar; so do damage, repair, changeType and
\* removeLayer alter the unit and end in setDirty.
SwitchSensor(u, s, on) ==
    /\ phase = "acting"
    /\ u \in alive
    /\ status' = [status EXCEPT ![u] = IF on THEN @ \cup {s} ELSE @ \ {s}]
    /\ SetDirty(u)
    /\ UNCHANGED <<tickVars, alive, owner, unitId, units, nextUnitId,
                   nextReturnsId, failed, views>>

\* UnitCore::changeOwner of a unit that stays in the world
ChangeOwner(u, p) ==
    /\ phase = "acting"
    /\ u \in alive
    /\ nextUnitId[p] < MaxUnitId
    /\ dirty' = dirty \ {u}
    /\ owner' = [owner EXCEPT ![u] = p]
    /\ AddUnit(u, p, status[u], UnitsWithout(u), ToldOfLoss(u))
    /\ failed' = (failed \/ NotTheirs(u) \/ IdTaken(p, UnitsWithout(u)))
    /\ returns' = Flagged(u)
    /\ UNCHANGED <<tickVars, alive, status, nextReturnsId>>

\* DynamicSensorReturns::senseeDestroyed
SenseeDestroyed(return) ==
    [return EXCEPT !.perception = NothingPerceived, !.sensers = EmptyIndex,
                   !.dirty = TRUE]

\* CompleteWorld::removeUnit, called by UnitCore::kill: changeOwner to nobody,
\* then the destructor of the unit, which tells its returns.
RemoveUnit(u) ==
    /\ phase = "acting"
    /\ u \in alive
    /\ alive' = alive \ {u}
    /\ dirty' = dirty \ {u}
    /\ owner' = [owner EXCEPT ![u] = 0]
    /\ status' = [status EXCEPT ![u] = {}]
    /\ unitId' = [unitId EXCEPT ![u] = 0]
    /\ units' = UnitsWithout(u)
    /\ views' = ToldOfLoss(u)
    /\ returns' = [p \in Players |->
          IF u \in DOMAIN returns[p]
          THEN [returns[p] EXCEPT ![u] = SenseeDestroyed(@)]
          ELSE returns[p]]
    /\ failed' = (failed \/ NotTheirs(u) \/ \E p \in Players :
                      /\ u \in DOMAIN returns[p]
                      /\ returns[p][u].perception = NothingPerceived)
    /\ UNCHANGED <<tickVars, nextUnitId, nextReturnsId>>

-----------------------------------------------------------------------------
(* Sensing *)

NoReturn == [s \in Sensors |-> NothingPerceived]

\* SensorCapability::updateReturn, for each sensor of senser w
Seen(w, reading) ==
    [s \in Sensors |->
        IF s \in Switched /\ s \notin status[w]
        THEN NothingPerceived ELSE reading[s]]
Total(seen) == UNION {seen[s] : s \in Sensors}

\* What the return holds for senser i: each sensor's last reading
Held(return, i) ==
    IF i \in DOMAIN return.sensers THEN return.sensers[i] ELSE NoReturn
\* Mutant: readings accumulate.
KeptAll(held, seen) == [s \in Sensors |-> held[s] \cup seen[s]]
\* A sensor that reads nothing leaves what it read before.
Kept(held, seen) ==
    [s \in Sensors |-> IF seen[s] = NothingPerceived THEN held[s] ELSE seen[s]]
Changed(held, seen) == Kept(held, seen) # held

\* Mutant: a region is sent only when it is new.
SensedRegionOnce(return, p, readings) ==
    LET seen == [i \in DOMAIN units[p] |-> Seen(units[p][i], readings[i])]
        sensers == {i \in DOMAIN seen : Total(seen[i]) # NothingPerceived}
    IN  [return EXCEPT
            !.perception = UNION {Total(seen[i]) : i \in sensers},
            !.sensers = [i \in sensers |-> Kept(Held(return, i), seen[i])],
            !.dirty = @ \/ \E i \in sensers : Changed(Held(return, i), seen[i])]
\* DynamicSensorReturns::update for a unit of another player: every unit of p
\* tries its sensors; those that see nothing, or are gone, are forgotten.
Sensed(return, p, readings) ==
    LET seen == [i \in DOMAIN units[p] |-> Seen(units[p][i], readings[i])]
        sensers == {i \in DOMAIN seen : Total(seen[i]) # NothingPerceived}
        perception == UNION {Total(seen[i]) : i \in sensers}
    IN  [return EXCEPT
            !.perception = perception,
            !.sensers = [i \in sensers |-> Kept(Held(return, i), seen[i])],
            !.dirty = \/ @
                      \/ \E i \in sensers : Changed(Held(return, i), seen[i])
                      \/ "region" \in perception]

\* The neutral player sees every unit; nobody senses their own.
Updated(return, p, u, readings) ==
    IF p = 0
    THEN [return EXCEPT !.perception = {"unit"},
                        !.dirty = @ \/ return.perception # {"unit"}]
    ELSE IF owner[u] = p
    THEN [return EXCEPT !.sensers = EmptyIndex]
    ELSE Sensed(return, p, readings)

IsEmpty(return) == DOMAIN return.sensers = {}
NewReturn(p) ==
    [id |-> nextReturnsId[p], perception |-> NothingPerceived,
     sensers |-> EmptyIndex, dirty |-> FALSE]

-----------------------------------------------------------------------------
(* Player::checkSensorReturns, for the player checking *)

BeginChecks ==
    /\ phase = "acting"
    /\ phase' = "destroyed"
    /\ checking' = 0
    /\ UNCHANGED <<unchecked, unitVars, returnVars, failed, views>>

\* The first loop: returns that became empty since the last tick
DropDestroyed(u) ==
    LET return == returns[checking][u]
    IN  /\ phase = "destroyed"
        /\ u \in DOMAIN returns[checking]
        /\ IsEmpty(return)
        /\ failed' = (failed \/ return.perception # NothingPerceived)
        /\ returns' = [returns EXCEPT ![checking] = Without(@, u)]
        /\ views' = [views EXCEPT ![checking] = ReturnsRemoved(@, return.id)]
        /\ UNCHANGED <<tickVars, unitVars, nextReturnsId>>

DestroyedDone ==
    /\ phase = "destroyed"
    /\ \A u \in DOMAIN returns[checking] : ~IsEmpty(returns[checking][u])
    /\ phase' = "visible"
    /\ unchecked' = alive
    /\ UNCHANGED <<checking, unitVars, returnVars, failed, views>>

\* The second loop, at one unit of the world.  ReturnNow is its return to the
\* player after update(), or what a new return would be.
ReturnNow(u, readings) ==
    Updated(IF u \in DOMAIN returns[checking]
            THEN returns[checking][u] ELSE NewReturn(checking),
            checking, u, readings)
Visit(u) ==
    /\ phase = "visible"
    /\ u \in unchecked
    /\ unchecked' = unchecked \ {u}
    /\ UNCHANGED <<phase, checking, unitVars, failed>>
Clean(return) == [return EXCEPT !.dirty = FALSE]
ReportOn(u, return) == Report(return.perception, status[u])

LoseReturn(u, readings) ==
    LET return == ReturnNow(u, readings)
    IN  /\ Visit(u)
        /\ u \in DOMAIN returns[checking]
        /\ IsEmpty(return)
        /\ returns' = [returns EXCEPT ![checking] = Without(@, u)]
        /\ views' = [views EXCEPT ![checking] = ReturnsRemoved(@, return.id)]
        /\ UNCHANGED nextReturnsId

SendReturn(u, readings) ==
    LET return == ReturnNow(u, readings)
    IN  /\ Visit(u)
        /\ u \in DOMAIN returns[checking]
        /\ ~IsEmpty(return) /\ return.dirty
        /\ returns' = [returns EXCEPT ![checking][u] = Clean(return)]
        /\ views' = [views EXCEPT ![checking] =
                        ReturnsAltered(@, return.id, ReportOn(u, return))]
        /\ UNCHANGED nextReturnsId

\* An update that nothing seems to have come of is not sent.
KeepReturn(u, readings) ==
    LET return == ReturnNow(u, readings)
    IN  /\ Visit(u)
        /\ u \in DOMAIN returns[checking]
        /\ ~IsEmpty(return) /\ ~return.dirty
        /\ returns' = [returns EXCEPT ![checking][u] = return]
        /\ UNCHANGED <<nextReturnsId, views>>

AddReturn(u, readings) ==
    LET return == ReturnNow(u, readings)
    IN  /\ Visit(u)
        /\ u \notin DOMAIN returns[checking]
        /\ owner[u] # checking
        /\ ~IsEmpty(return)
        /\ nextReturnsId[checking] < MaxReturnsId
        /\ returns' = [returns EXCEPT ![checking] = With(@, u, Clean(return))]
        /\ nextReturnsId' = [nextReturnsId EXCEPT ![checking] = @ + 1]
        /\ views' = [views EXCEPT ![checking] =
                        ReturnsAdded(@, return.id, ReportOn(u, return))]

SeeNothing(u, readings) ==
    /\ Visit(u)
    /\ u \notin DOMAIN returns[checking]
    /\ owner[u] = checking \/ IsEmpty(ReturnNow(u, readings))
    /\ UNCHANGED <<returnVars, views>>

NextPlayer ==
    /\ phase = "visible"
    /\ unchecked = {}
    /\ checking < LastPlayer
    /\ checking' = checking + 1
    /\ phase' = "destroyed"
    /\ UNCHANGED <<unchecked, unitVars, returnVars, failed, views>>

-----------------------------------------------------------------------------
(* The end of the tick *)

ChecksDone ==
    /\ phase = "visible"
    /\ unchecked = {}
    /\ checking = LastPlayer
    /\ phase' = "clearing"
    /\ UNCHANGED <<checking, unchecked, unitVars, returnVars, failed, views>>

\* LayeredUnit::clearDirty, for every unit of the world
ClearDirty(u) ==
    /\ phase = "clearing"
    /\ u \in dirty
    /\ dirty' = dirty \ {u}
    /\ views' = ToldOfChange(u)
    /\ UNCHANGED <<tickVars, alive, owner, unitId, status, units, nextUnitId,
                   returnVars, failed>>

\* The tick is over and its updates are sent.
TickEnds ==
    /\ phase = "clearing"
    /\ dirty = {}
    /\ phase' = "ended"
    /\ UNCHANGED <<checking, unchecked, unitVars, returnVars, failed, views>>

\* The next tick: clients count it (endTick) before its updates.
NextTick ==
    /\ phase = "ended"
    /\ phase' = "acting"
    /\ views' = [p \in Players |-> EndTick(views[p])]
    /\ UNCHANGED <<checking, unchecked, unitVars, returnVars, failed>>

-----------------------------------------------------------------------------
Init ==
    /\ phase = "acting"
    /\ checking = 0
    /\ unchecked = {}
    /\ alive = {}
    /\ owner = [u \in Units |-> 0]
    /\ unitId = [u \in Units |-> 0]
    /\ status = [u \in Units |-> {}]
    /\ dirty = {}
    /\ units = [p \in Players |-> EmptyIndex]
    /\ nextUnitId = [p \in Players |-> 0]
    /\ returns = [p \in Players |-> EmptyIndex]
    /\ nextReturnsId = [p \in Players |-> 0]
    /\ failed = FALSE
    /\ views = [p \in Players |-> EmptyView]

Act ==
    \E u \in Units :
        \/ \E p \in Players, on \in SUBSET (Sensors \cap Switched) : Spawn(u, p, on)
        \/ \E s \in Sensors \cap Switched, on \in BOOLEAN : SwitchSensor(u, s, on)
        \/ \E p \in Players : ChangeOwner(u, p)
        \/ RemoveUnit(u)

CheckUnit ==
    \E u \in unchecked :
        \E readings \in [DOMAIN units[checking] -> JointReadings] :
            \/ LoseReturn(u, readings)
            \/ SendReturn(u, readings)
            \/ KeepReturn(u, readings)
            \/ AddReturn(u, readings)
            \/ SeeNothing(u, readings)

CheckSensorReturns ==
    \/ BeginChecks
    \/ \E u \in Units : DropDestroyed(u)
    \/ DestroyedDone
    \/ CheckUnit
    \/ NextPlayer
    \/ ChecksDone

EndOfTick ==
    \/ \E u \in Units : ClearDirty(u)
    \/ TickEnds
    \/ NextTick

Next == Act \/ CheckSensorReturns \/ EndOfTick

Spec == Init /\ [][Next]_vars

-----------------------------------------------------------------------------
(* Properties *)

UnitIds == 0 .. MaxUnitId
ReturnsIds == 0 .. MaxReturnsId
Statuses == SUBSET (Sensors \cap Switched)
IsReturn(return) ==
    /\ return = [id |-> return.id, perception |-> return.perception,
                 sensers |-> return.sensers, dirty |-> return.dirty]
    /\ return.id \in ReturnsIds /\ return.perception \subseteq Perceptions
    /\ IsIndex(return.sensers, UnitIds, [Sensors -> Readings])
    /\ return.dirty \in BOOLEAN
IsReturns(index) ==
    /\ index = [u \in DOMAIN index |-> index[u]]
    /\ DOMAIN index \subseteq Units
    /\ \A u \in DOMAIN index : IsReturn(index[u])

\* Types of the variables.
TypeOK ==
    /\ phase \in {"acting", "destroyed", "visible", "clearing", "ended"}
    /\ checking \in Players
    /\ unchecked \subseteq Units /\ alive \subseteq Units /\ dirty \subseteq alive
    /\ owner \in [Units -> Players]
    /\ unitId \in [Units -> UnitIds]
    /\ status \in [Units -> Statuses]
    /\ units = [p \in Players |-> units[p]]
    /\ returns = [p \in Players |-> returns[p]]
    /\ views = [p \in Players |-> views[p]]
    /\ \A p \in Players :
         /\ IsIndex(units[p], UnitIds, Units)
         /\ IsReturns(returns[p])
         /\ IsView(views[p], UnitIds, ReturnsIds, Statuses)
    /\ nextUnitId \in [Players -> UnitIds]
    /\ nextReturnsId \in [Players -> ReturnsIds]
    /\ failed \in BOOLEAN

\* The lists of units of the players, and the owner and id that each unit has,
\* say the same (Player::addUnit, removeUnit and UnitCore::changeOwner).
OwnersAgree ==
    /\ \A u \in alive : /\ unitId[u] \in DOMAIN units[owner[u]]
                        /\ units[owner[u]][unitId[u]] = u
    /\ \A p \in Players : \A i \in DOMAIN units[p] :
         /\ units[p][i] \in alive
         /\ owner[units[p][i]] = p /\ unitId[units[p][i]] = i

\* "The fact that the SensorReturns has become empty without our calling
\* update should be enough to prove that the unit is gone" (player.cpp), and
\* a unit that is gone has left no return that is not empty.
EmptyMeansGone ==
    \A p \in Players : \A u \in DOMAIN returns[p] :
        IsEmpty(returns[p][u]) <=> u \notin alive

\* The server's books on units agree: whose a unit is, under which id, and who
\* senses it are each kept twice, and a unit that is created, given away or gone
\* is so in both.
BooksAgree == OwnersAgree /\ EmptyMeansGone

\* The server reaches none of its own fatal errors and asserts: a unit that is
\* not the owner's, an id that is taken, a return destroyed though nothing is
\* perceived, or empty though something is.
ServerNeverFails == ~failed

\* No update a client gets is about an id it should know and does not, or
\* should not know and does.
ClientNeverMistaken == \A p \in Players : ~views[p].mistaken

\* Between them, the two sides of the updates never trip over each other: the
\* server reaches none of its own fatal errors, and sends each client only
\* updates about ids that the client knows, or does not, as each update needs.
NeitherSideErrs == ServerNeverFails /\ ClientNeverMistaken

\* After a tick, each client has exactly its player's units, as they are.
UnitsKnown ==
    phase = "ended" =>
        \A p \in Players :
            views[p].units = [i \in DOMAIN units[p] |-> status[units[p][i]]]

\* After a tick, each client has exactly the returns of its player, which are
\* of living units of other players, and no two of which have the same id.
ReturnsKnown ==
    phase = "ended" =>
        \A p \in Players :
            /\ DOMAIN views[p].returns = {returns[p][u].id : u \in DOMAIN returns[p]}
            /\ \A u, w \in DOMAIN returns[p] :
                 returns[p][u].id = returns[p][w].id => u = w
            /\ \A u \in DOMAIN returns[p] : u \in alive /\ owner[u] # p

\* Nothing a player has or senses is kept from its clients, and nothing is shown
\* to them that is not there: the updates of a tick, left out or sent by many
\* paths, leave a client with just the units and the returns of its player.
ViewComplete == UnitsKnown /\ ReturnsKnown

\* After a tick, a client is shown the unit behind a return when its player
\* perceives the unit, as it is now, and not otherwise.
ShownAsPerceived ==
    phase = "ended" =>
        \A p \in Players : \A u \in DOMAIN returns[p] :
            views[p].returns[returns[p][u].id].unit =
                Report(returns[p][u].perception, status[u]).unit

\* A client always has what it needs to extrapolate the returns that it is not
\* told about (UpdatedSensorReturns::incrementState).
ClientExtrapolates == \A p \in Players : ~views[p].aborted

\* A player perceives the unit and no region, while some unit of its own still
\* keeps both from its several sensors: one of them reads nothing now, and what it
\* read last was left in the return (SensorCapability::updateReturn).
OutOfDate(return) ==
    /\ return.perception = {"unit"}
    /\ \E i \in DOMAIN return.sensers : Total(return.sensers[i]) = Perceptions
\* Such a return seemed unchanged, was not sent, and shows its clients no unit.
Overlooked(p, u) ==
    /\ OutOfDate(returns[p][u])
    /\ ~Extrapolable(views[p].returns[returns[p][u].id])

\* Whatever sensors units have, a client is never quietly shown the wrong thing: at
\* the end of a tick, what it is shown of the unit behind a return is what its
\* player perceives, the unit's status as it is now included, or the return was
\* overlooked, and then the next tick cannot be extrapolated.  In particular no
\* stale status, and no unit out of sight, is ever shown.
WrongOnlyIfOverlooked ==
    phase = "ended" =>
        \A p \in Players : \A u \in DOMAIN returns[p] :
            \/ views[p].returns[returns[p][u].id].unit =
                  Report(returns[p][u].perception, status[u]).unit
            \/ Overlooked(p, u)

\* Whatever sensors units have, a client dies in no step but the beginning of a
\* tick that follows one in which a return of its player was overlooked: nothing
\* else leaves a client without what it must extrapolate.
DiesOnlyOfOverlooked ==
    [][\A p \in Players : views'[p].aborted =>
          \/ views[p].aborted
          \/ phase = "ended" /\ \E u \in DOMAIN returns[p] : Overlooked(p, u)]_vars

=============================================================================
