---------------------------- MODULE PartialWorld ----------------------------
(***************************************************************************)
(* What a client knows of the world: sakusen::client::PartialWorld.        *)
(*                                                                         *)
(* A view is the client's units and sensor returns by id, whether applying *)
(* an update ever found an id known that should be new or the reverse      *)
(* (mistaken: the code prints a message and carries on), and whether the   *)
(* client has died (aborted).  One operator per case of applyUpdate and    *)
(* one for endTick; SensorReturns composes them with the server.           *)
(***************************************************************************)
EXTENDS Functions

\* What a sensor return tells: an approximate region, or the unit itself
Perceptions == {"region", "unit"}
NothingPerceived == {}

\* What is kept by id; the index with an entry added or replaced, and with one taken out
With(index, id, value) ==
    [i \in DOMAIN index \cup {id} |-> IF i = id THEN value ELSE index[i]]
Without(index, id) == Restrict(index, DOMAIN index \ {id})

IsIndex(index, ids, values) ==
    DOMAIN index \subseteq ids /\ index \in [DOMAIN index -> values]
EmptyIndex == [i \in {} |-> {}]
EmptyView ==
    [units |-> EmptyIndex, returns |-> EmptyIndex,
     mistaken |-> FALSE, aborted |-> FALSE]

\* A SensorReturns as the server sends it: unit holds the status of the unit
\* when the perception includes it, and nothing otherwise.
Report(perception, status) ==
    [perception |-> perception,
     unit |-> IF "unit" \in perception THEN {status} ELSE {}]

\* An UpdatedSensorReturns: a report and whether it came in this tick
Fresh(report) ==
    [perception |-> report.perception, unit |-> report.unit, altered |-> TRUE]

Reports(statuses) ==
    [perception : SUBSET Perceptions, unit : SUBSET statuses, altered : BOOLEAN]
IsView(view, unitIds, returnIds, statuses) ==
    /\ view = [units |-> view.units, returns |-> view.returns,
               mistaken |-> view.mistaken, aborted |-> view.aborted]
    /\ IsIndex(view.units, unitIds, statuses)
    /\ IsIndex(view.returns, returnIds, Reports(statuses))
    /\ view.mistaken \in BOOLEAN /\ view.aborted \in BOOLEAN

UnitAdded(view, id, status) ==
    [view EXCEPT !.mistaken = @ \/ id \in DOMAIN view.units,
                 !.units = With(@, id, status)]

UnitRemoved(view, id) ==
    [view EXCEPT !.mistaken = @ \/ id \notin DOMAIN view.units,
                 !.units = Without(@, id)]

UnitAltered(view, id, status) ==
    IF id \in DOMAIN view.units
    THEN [view EXCEPT !.units = With(@, id, status)]
    ELSE [view EXCEPT !.mistaken = TRUE]

ReturnsAdded(view, id, report) ==
    [view EXCEPT !.mistaken = @ \/ id \in DOMAIN view.returns,
                 !.returns = With(@, id, Fresh(report))]

ReturnsRemoved(view, id) ==
    [view EXCEPT !.mistaken = @ \/ id \notin DOMAIN view.returns,
                 !.returns = Without(@, id)]

ReturnsAltered(view, id, report) ==
    IF id \in DOMAIN view.returns
    THEN [view EXCEPT !.returns = With(@, id, Fresh(report))]
    ELSE [view EXCEPT !.mistaken = TRUE]

\* endTick extrapolates what no update has altered, which takes a unit: a
\* return without one, left unaltered, is a fatal error.
Extrapolable(return) == return.altered \/ return.unit # {}

EndTick(view) ==
    [view EXCEPT
        !.aborted = @ \/ \E i \in DOMAIN view.returns :
                            ~Extrapolable(view.returns[i]),
        !.returns = [i \in DOMAIN @ |-> [@[i] EXCEPT !.altered = FALSE]]]

=============================================================================
