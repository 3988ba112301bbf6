----------------------------- MODULE ClientGame -----------------------------
(***************************************************************************)
(* The game as tedomari keeps it: tedomari::game::Game and, of the         *)
(* PartialWorld it drives, the clock and the motion of the player's own    *)
(* units.  A view is the clock, the units by id, and whether an update     *)
(* ever came out of order or named a unit that it should not, or should,   *)
(* have known (mistaken: the code prints a message and carries on).        *)
(***************************************************************************)
EXTENDS Integers, Sequences, SequencesExt, Functions

CONSTANTS
    Width,      \* positions are 0 .. Width - 1, on a map that is round
    NoTarget    \* UnitOrders without a linear target

\* Map::transform
Moved(position, velocity) == (position + velocity) % Width

NoUnits == [u \in {} |-> NoTarget]
StartOfGame == [timeNow |-> 0, units |-> NoUnits, mistaken |-> FALSE]

\* What a client makes of a status it is sent
Updated(status, target, altered) ==
    [position |-> status.position, velocity |-> status.velocity,
     target |-> target, altered |-> altered]

UnitAdded(view, update) ==
    LET ids == DOMAIN view.units \cup {update.unit}
        unit == Updated(update.status, NoTarget, FALSE)
    IN  [view EXCEPT
            !.mistaken = @ \/ update.unit \in DOMAIN view.units,
            !.units = [u \in ids |-> IF u = update.unit THEN unit ELSE @[u]]]

UnitRemoved(view, update) ==
    [view EXCEPT !.mistaken = @ \/ update.unit \notin DOMAIN view.units,
                 !.units = Restrict(@, DOMAIN @ \ {update.unit})]

UnitAltered(view, update) ==
    IF update.unit \in DOMAIN view.units
    THEN [view EXCEPT !.units[update.unit] = Updated(update.status, @.target, TRUE)]
    ELSE [view EXCEPT !.mistaken = TRUE]

OrderAccepted(view, update) ==
    IF update.unit \in DOMAIN view.units
    THEN [view EXCEPT !.units[update.unit].target = update.velocity]
    ELSE [view EXCEPT !.mistaken = TRUE]

ApplyUpdate(view, update) ==
    CASE update.type = "added"    -> UnitAdded(view, update)
      [] update.type = "removed"  -> UnitRemoved(view, update)
      [] update.type = "altered"  -> UnitAltered(view, update)
      [] update.type = "accepted" -> OrderAccepted(view, update)

\* Mutant of IncrementState: the flag is not reset
IncrementUnlessAltered(unit) ==
    IF unit.altered THEN unit ELSE [unit EXCEPT !.position = Moved(@, unit.velocity)]

\* What is not altered goes on as it was
IncrementState(unit) ==
    IF unit.altered THEN [unit EXCEPT !.altered = FALSE]
    ELSE [unit EXCEPT !.position = Moved(@, unit.velocity)]

EndTick(view) ==
    [view EXCEPT !.timeNow = @ + 1,
                 !.units = [u \in DOMAIN @ |-> IncrementState(@[u])]]

\* The client's ticks come one after the other
EndTicks(view, n) ==
    LET after[t \in 0 .. n] == IF t = 0 THEN view ELSE EndTick(after[t - 1])
    IN  after[n]

\* The updates of a message are applied in order
ApplyUpdates(view, updates) ==
    LET after[i \in 0 .. Len(updates)] ==
            IF i = 0 THEN view ELSE ApplyUpdate(after[i - 1], updates[i])
    IN  after[Len(updates)]

\* The clock is brought up to the message before its updates are applied
PushUpdates(view, message) ==
    LET behind == message.time - view.timeNow
        onTime == IF behind > 0 THEN EndTicks(view, behind) ELSE view
    IN  ApplyUpdates([onTime EXCEPT !.mistaken = @ \/ behind < 0], message.updates)
=============================================================================
