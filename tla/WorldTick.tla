----------------------------- MODULE WorldTick ------------------------------
(***************************************************************************)
(* CompleteWorld::incrementGameState: one tick of the world, loop by loop. *)
(* A tick updates the units, then the ballistics, the beams and the        *)
(* lingering effects, and then lets fuses go off and new effects happen    *)
(* until no effect does.  Units may be spawned, hurt and removed at every  *)
(* point of it, and the loops must survive that.                           *)
(*                                                                         *)
(* This module has the loops and the calls that modules of a game make to  *)
(* the world (spawn, damage, insertLayer, addFuse, removeFuse, ...); what  *)
(* the callbacks do is in TestGame and Sagittarius.                        *)
(***************************************************************************)
EXTENDS FuseQueue

CONSTANTS
    Units,            \* the units that may exist, positive integers
    Kinds,            \* UnitTypes of the universe
    MaxHitPoints,     \* for every kind
    Corpse,           \* for every kind the kind its units leave, or NoKind
    Weapons,          \* for every kind the sequence of its weapons
    NoKind,
    InitialUnits,     \* a sequence of kinds
    TokenModulus,     \* FuseToken is a machine integer
    RemovalTests      \* what an effect's onRemovalTest may answer

ASSUME WorldAssumption ==
    /\ IsFiniteSet(Units) /\ Units \subseteq Nat \ {0}
    /\ NoKind \notin Kinds
    /\ MaxHitPoints \in [Kinds -> Nat \ {0}]
    /\ Corpse \in [Kinds -> Kinds \cup {NoKind}]
    /\ Weapons \in [Kinds -> Seq(STRING)]
    /\ InitialUnits \in Seq(Kinds) /\ DOMAIN InitialUnits \subseteq Units
    /\ TokenModulus \in Nat \ {0}
    /\ RemovalTests \subseteq BOOLEAN

VARIABLES
    timeNow,
    units,            \* hash_list: the units in the order they are visited
    core,             \* UnitCore and layers of every unit in the list
    ballistics,       \* the start times of those in flight
    beams,            \* [source, end]
    newEffects,       \* how many effects are queued
    effects,          \* how many effects linger
    lastFuseToken,
    fuseQueue,
    fuseMap,          \* token -> the unit whose layer is the fuse
    removedFuses,
    phase,            \* the loop of incrementGameState that runs, or "idle"
    j, k,             \* the two iterators of the loop over the units
    step,             \* 0: layers are next; i > 0: the i-th weapon is
    it,               \* the iterator of the loop over other things
    effectHappened,
    fatal,            \* SAKUSEN_FATAL was reached
    turn              \* history: what the loop has done with each unit

clock == <<timeNow, phase, turn>>
people == <<units, core>>
shots == <<ballistics, beams>>
areas == <<newEffects, effects>>
fuses == <<lastFuseToken, fuseQueue, fuseMap, removedFuses>>
loops == <<j, k, step, it, effectHappened>>
vars == <<clock, people, shots, areas, fuses, loops, fatal>>

End == 0              \* units.end(), and a Ref whose unit is gone
Alive == Range(units)
Tokens == 0..(TokenModulus - 1)
Phases == {"idle", "units", "ballistics", "beams", "effects", "fuses", "new"}

\* A layer over the core: its type, and what it carries (hit points or a token)
Layer(type, n) == [type |-> type, n |-> n]
Unit(kind, hp, arms, layers) ==
    [kind |-> kind, hp |-> hp, arms |-> arms, layers |-> layers]
Nobody == Unit(NoKind, 0, NoKind, <<>>)

LayersOf(u, type) == {i \in DOMAIN core[u].layers : core[u].layers[i].type = type}

\* Mutant: the list is a ring without an end
SuccessorAround(u) ==
    IF u \notin Alive \/ u = Last(units) THEN Head(units)
    ELSE units[1 + CHOOSE i \in DOMAIN units : units[i] = u]

\* ++iterator.  What comes after end() is never looked at.
Successor(u) ==
    IF u \notin Alive \/ u = Last(units) THEN End
    ELSE units[1 + CHOOSE i \in DOMAIN units : units[i] = u]

-----------------------------------------------------------------------------
(***************************************************************************)
(* The calls a game's module makes                                         *)
(***************************************************************************)
\* UnitCore::damage and kill: what is left of a kind with hp hit points.  A
\* corpse is a new kind at full health that takes the damage left over; kill
\* itself is damage of exactly hp.
Damaged(kind, hp, amount) ==
    LET Hits == [kind : Kinds, hp : Nat \ {0}, amount : 0 .. amount]
        left[h \in Hits] ==
            IF h.amount = 0 THEN <<h.kind, h.hp>>
            ELSE IF h.hp > h.amount THEN <<h.kind, h.hp - h.amount>>
            ELSE IF Corpse[h.kind] = NoKind THEN <<NoKind, 0>>
            ELSE left[[kind |-> Corpse[h.kind], hp |-> MaxHitPoints[Corpse[h.kind]],
                       amount |-> h.amount - h.hp]]
    IN  left[[kind |-> kind, hp |-> hp, amount |-> amount]]

\* LayeredUnit::spawn: the unit goes to the end of the list.  The numbers stand
\* for storage, so one that an iterator or a fuse still points to is not used.
Free == {u \in Units \ (Alive \cup {j, k} \cup Range(fuseMap)) :
            \A i \in DOMAIN beams : beams[i].source # u}
Spawn(kind, hp, layers) ==
    /\ Free # {}
    /\ units' = Append(units, Min(Free))
    /\ core' = [core EXCEPT ![Min(Free)] = Unit(kind, hp, kind, layers)]

InsertLayer(u, layer) == [core EXCEPT ![u].layers = <<layer>> \o @]
WithoutLayer(u, i) == [core EXCEPT ![u].layers = RemoveAt(@, i)]

\* addFuse, whose token must not be one that is still in use
NextToken == (lastFuseToken + 1) % TokenModulus
AddFuse(u, time) ==
    /\ lastFuseToken' = NextToken
    /\ fatal' = (fatal \/ NextToken \in DOMAIN fuseMap \cup removedFuses)
    /\ fuseQueue' = Push(fuseQueue, [time |-> time, token |-> NextToken])
    /\ fuseMap' = [t \in DOMAIN fuseMap \cup {NextToken} |->
                      IF t = NextToken THEN u ELSE fuseMap[t]]
    /\ UNCHANGED removedFuses

\* Mutant: the layers do not hear of it
OnRemovalUnheard(us) == {}

\* The tokens of the fuses that the layers of units remove when these are removed
OnRemoval(us) ==
    UNION {{core[u].layers[i].n : i \in LayersOf(u, "paralysing")} : u \in us}

\* Mutant: the beams keep what they were given
Owned(dead) == beams

\* A Ref to a unit that is removed becomes null
Unreferenced(dead) ==
    [i \in DOMAIN beams |->
        IF beams[i].source \in dead THEN [beams[i] EXCEPT !.source = End] ELSE beams[i]]

\* Damage amounts[u] to every unit u of amounts' domain.  A unit of which
\* nothing is left leaves the list (removeUnit), its layers remove their fuses
\* (removeFuse fails if there is none).
Damage(amounts) ==
    LET after == [u \in DOMAIN amounts |-> Damaged(core[u].kind, core[u].hp, amounts[u])]
        dead == {u \in DOMAIN amounts : after[u][1] = NoKind}
        tokens == OnRemoval(dead)
    IN  /\ core' = [u \in Units |->
               IF u \in dead THEN Nobody
               ELSE IF u \in DOMAIN amounts
                    THEN [core[u] EXCEPT !.kind = after[u][1], !.hp = after[u][2]]
                    ELSE core[u]]
        /\ units' = Without(units, dead)
        /\ fatal' = (fatal \/ ~(tokens \subseteq DOMAIN fuseMap))
        /\ removedFuses' = removedFuses \cup tokens
        /\ fuseMap' = Restrict(fuseMap, DOMAIN fuseMap \ tokens)
        /\ beams' = Unreferenced(dead)

-----------------------------------------------------------------------------
Init ==
    /\ timeNow = 0 /\ phase = "idle"
    /\ units = [u \in DOMAIN InitialUnits |-> u]
    /\ core = [u \in Units |->
          IF u \in DOMAIN InitialUnits
          THEN LET kind == InitialUnits[u]
               IN  Unit(kind, MaxHitPoints[kind], kind, <<>>)
          ELSE Nobody]
    /\ ballistics = <<>> /\ beams = <<>>
    /\ newEffects = 0 /\ effects = 0
    /\ lastFuseToken = TokenModulus - 1 /\ fuseQueue = EmptyQueue
    /\ fuseMap = [t \in {} |-> End] /\ removedFuses = {}
    /\ j = End /\ k = End /\ step = 0 /\ it = 1
    /\ effectHappened = FALSE /\ fatal = FALSE
    /\ turn = [u \in Units |-> "new"]

\* The game is run for a bounded time
StartTick(MaxTime) ==
    /\ phase = "idle" /\ timeNow < MaxTime
    /\ timeNow' = timeNow + 1
    /\ phase' = "units"
    /\ j' = IF units = <<>> THEN End ELSE Head(units)
    /\ k' = IF units = <<>> THEN End ELSE Successor(Head(units))
    /\ step' = 0
    /\ turn' = [u \in Units |-> IF u \in Alive THEN "due" ELSE "new"]
    /\ UNCHANGED <<people, shots, areas, fuses, it, effectHappened, fatal>>

\* The loop over the units: *j is updated, layers first and then its weapons
Visiting == phase = "units" /\ j # End
AtLayers == Visiting /\ step = 0
Visited == turn' = [turn EXCEPT ![j] = IF @ = "done" THEN "twice" ELSE "done"]

\* A unit keeps the weapons it was made with.  Layers of these types do not
\* pass incrementWeaponsState on.
Disarmed(u) == LayersOf(u, "building") \cup LayersOf(u, "paralysing") # {}
Arms == IF j \in Alive /\ ~Disarmed(j) THEN Weapons[core[j].arms] ELSE <<>>
AtWeapon(weapon) == Visiting /\ step \in DOMAIN Arms /\ Arms[step] = weapon
AfterWeapons == Visiting /\ step > Len(Arms)

HoldFire ==
    /\ Visiting /\ step \in DOMAIN Arms
    /\ step' = step + 1
    /\ UNCHANGED <<clock, people, shots, areas, fuses, j, k, it, effectHappened, fatal>>

\* j = k, ++k: k must still be in the list
Advance ==
    /\ AfterWeapons
    /\ k \in Alive \cup {End}
    /\ j' = k
    /\ k' = Successor(k)
    /\ step' = 0
    /\ UNCHANGED <<clock, people, shots, areas, fuses, it, effectHappened, fatal>>

\* From one loop to the next
Turn(from, to) ==
    /\ phase = from /\ phase' = to /\ it' = 1
    /\ UNCHANGED <<timeNow, turn, people, shots, areas, fuses, j, k, step, effectHappened, fatal>>

UnitsDone ==
    /\ phase = "units" /\ j = End
    /\ phase' = "ballistics" /\ it' = 1
    /\ turn' = [u \in Units |-> "new"]
    /\ UNCHANGED <<timeNow, people, shots, areas, fuses, j, k, step, effectHappened, fatal>>
BallisticsDone == it > Len(ballistics) /\ Turn("ballistics", "beams")
BeamsDone == it > Len(beams) /\ Turn("beams", "effects")
EffectsDone == it > effects /\ Turn("effects", "fuses")

\* A ballistic flies on; one fired in this tick is not looked at
Fly ==
    /\ phase = "ballistics" /\ it <= Len(ballistics)
    /\ it' = it + 1
    /\ UNCHANGED <<clock, people, shots, areas, fuses, j, k, step, effectHappened, fatal>>
Collides == phase = "ballistics" /\ it <= Len(ballistics) /\ ballistics[it] < timeNow

\* Beams end with their time or with their source
Spent == timeNow >= beams[it].end \/ beams[it].source = End
RemoveBeam ==
    /\ phase = "beams" /\ it <= Len(beams) /\ Spent
    /\ beams' = RemoveAt(beams, it)
    /\ UNCHANGED <<clock, people, ballistics, areas, fuses, loops, fatal>>
Shines == phase = "beams" /\ it <= Len(beams) /\ ~Spent
Misses ==
    /\ Shines
    /\ it' = it + 1
    /\ UNCHANGED <<clock, people, shots, areas, fuses, j, k, step, effectHappened, fatal>>

\* processEffect on the effect at it: it stays, or is erased
Engulfs == phase = "effects" /\ it <= effects
Engulfed == \E gone \in RemovalTests :
    /\ effects' = IF gone THEN effects - 1 ELSE effects
    /\ it' = IF gone THEN it ELSE it + 1

\* The loop over the fuses that are due
Due == phase = "fuses" /\ fuseQueue # EmptyQueue /\ Top(fuseQueue).time <= timeNow
\* An entry whose fuse was removed since goes without a sound
SkipRemoved ==
    /\ Due /\ Top(fuseQueue).token \in removedFuses
    /\ fuseQueue' = Pop(fuseQueue)
    /\ removedFuses' = removedFuses \ {Top(fuseQueue).token}
    /\ UNCHANGED <<clock, people, shots, areas, lastFuseToken, fuseMap, loops, fatal>>

\* The bookkeeping around a fuse's expire
GoesOff(token) == Due /\ token = Top(fuseQueue).token /\ token \notin removedFuses
WentOff(token) ==
    /\ fuseQueue' = Pop(fuseQueue)
    /\ fuseMap' = Restrict(fuseMap, DOMAIN fuseMap \ {token})
    /\ UNCHANGED <<lastFuseToken, removedFuses>>

\* Mutant: effectHappened is not reset
FusesDoneUnreset ==
    /\ phase = "fuses" /\ ~Due
    /\ phase' = "new"
    /\ UNCHANGED <<timeNow, turn, people, shots, areas, fuses, loops, fatal>>

FusesDone ==
    /\ phase = "fuses" /\ ~Due
    /\ phase' = "new" /\ effectHappened' = FALSE
    /\ UNCHANGED <<timeNow, turn, people, shots, areas, fuses, j, k, step, it, fatal>>

\* A new effect is put in the list and processed like an old one
Happens == phase = "new" /\ newEffects > 0
Happened(MaxEffects) ==
    /\ newEffects' = newEffects - 1
    /\ effectHappened' = TRUE
    /\ \E gone \in RemovalTests :
          /\ gone \/ effects < MaxEffects
          /\ effects' = IF gone THEN effects ELSE effects + 1

\* Effects may have set fuses and fuses may cause effects: again until none did
NewDone ==
    /\ phase = "new" /\ newEffects = 0
    /\ phase' = IF effectHappened THEN "fuses" ELSE "idle"
    /\ UNCHANGED <<timeNow, turn, people, shots, areas, fuses, loops, fatal>>

\* What every game does
Loop ==
    \/ HoldFire \/ Advance \/ UnitsDone
    \/ Fly \/ BallisticsDone
    \/ RemoveBeam \/ Misses \/ BeamsDone
    \/ EffectsDone
    \/ SkipRemoved \/ FusesDone \/ NewDone
=============================================================================
