----------------------------- MODULE SharedGame -----------------------------
(***************************************************************************)
(* What a game promises to the clients of a player.  The orders each gives *)
(* are carried out in the order they were given, each once, unless their   *)
(* client leaves first; and every client sees every tick, one after the    *)
(* other, as it was when it ended.  Each client sees a tick in its own     *)
(* time.                                                                   *)
(***************************************************************************)
EXTENDS Integers, Sequences, SequencesExt, Functions

CONSTANTS
    Members, Orders, Units, Velocities,
    NoTarget            \* of a unit that has had no order
VARIABLES
    present,            \* those in the game
    submitted,          \* their orders that are not carried out
    goals,              \* what each unit has been told to do
    log,                \* the units as each tick left them
    shown               \* the tick each member sees, and its units

vars == <<present, submitted, goals, log, shown>>

Nothing == [u \in {} |-> NoTarget]
Status == [velocity : Velocities, target : Velocities \cup {NoTarget}]

Init ==
    /\ present = Members /\ submitted = [m \in Members |-> <<>>]
    /\ goals = [u \in {0} |-> NoTarget] /\ log = <<>>
    /\ shown = [m \in Members |-> [tick |-> 0, units |-> Nothing]]

Submit(m) ==
    /\ m \in present /\ Len(submitted'[m]) = Len(submitted[m]) + 1
    /\ \E o \in Orders : submitted' = [submitted EXCEPT ![m] = Append(@, o)]
    /\ UNCHANGED <<present, goals, log, shown>>

Leave(m) ==
    /\ m \in present /\ present' = present \ {m}
    /\ submitted' = [submitted EXCEPT ![m] = <<>>]
    /\ UNCHANGED <<goals, log, shown>>

\* The first of a member's orders are carried out
CarryOut(m) ==
    /\ submitted' = [submitted EXCEPT ![m] = submitted'[m]]
    /\ \E n \in 1 .. Len(submitted[m]) :
         /\ submitted'[m] = SubSeq(submitted[m], n + 1, Len(submitted[m]))
         /\ goals' = [u \in DOMAIN goals |->
                        LET mine == {i \in 1 .. n : submitted[m][i].unit = u}
                        IN  IF mine = {} THEN goals[u]
                            ELSE submitted[m][Max(mine)].velocity]
    /\ UNCHANGED <<present, log, shown>>

\* Units move, appear and disappear by rules of their own.  What they are to do
\* is what they were told.
Tick ==
    /\ Len(log') = Len(log) + 1 /\ log = Front(log')
    /\ DOMAIN goals' \subseteq Units
    /\ \A u \in DOMAIN goals' :
         goals'[u] = IF u \in DOMAIN goals THEN goals[u] ELSE NoTarget
    /\ DOMAIN Last(log') = DOMAIN goals' /\ Range(Last(log')) \subseteq Status
    /\ \A u \in DOMAIN goals' : Last(log')[u].target = goals'[u]
    /\ UNCHANGED <<present, submitted, shown>>

See(m) ==
    /\ shown[m].tick < Len(log) /\ shown'[m].tick = shown[m].tick + 1
    /\ LET next == shown[m].tick + 1
       IN  shown' = [shown EXCEPT ![m] = [tick |-> next, units |-> log[next]]]
    /\ UNCHANGED <<present, submitted, goals, log>>

Next ==
    \/ Tick
    \/ \E m \in Members : Submit(m) \/ Leave(m) \/ CarryOut(m) \/ See(m)
Spec == Init /\ [][Next]_vars
=============================================================================
