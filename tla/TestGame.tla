------------------------------ MODULE TestGame ------------------------------
(***************************************************************************)
(* The game module of the test universe: cannons whose shells explode,     *)
(* paralysers, units that create others and builders that finish them.     *)
(***************************************************************************)
EXTENDS WorldTick

CONSTANTS
    Creates,          \* creaters among the weapons -> the kind they make
    MaxTime,          \* bound: the tick at which the game stops
    MaxBallistics,    \* bound: shells in flight
    MaxBeams,         \* bound: beams at once
    MaxEffects,       \* bound: effects that linger
    FuseDelay,        \* how long a paralysis lasts
    BeamDuration,
    BlastDamage,      \* the damage of an explosion
    BuildRate         \* what a builder adds in a tick

ASSUME GameAssumption ==
    /\ Range(Creates) \subseteq Kinds
    /\ MaxTime + FuseDelay <= LastTime
    /\ {FuseDelay, BeamDuration, BlastDamage, BuildRate} \subseteq Nat \ {0}
    /\ {MaxTime, MaxBallistics, MaxBeams, MaxEffects} \subseteq Nat

\* No layer of this game's units does more than make materiel in a tick
UpdateLayers ==
    /\ AtLayers
    /\ step' = 1 /\ Visited
    /\ UNCHANGED <<timeNow, phase, people, shots, areas, fuses, j, k, it, effectHappened, fatal>>

\* Cannon::onFire
FireCannon ==
    /\ AtWeapon("cannon") /\ Len(ballistics) < MaxBallistics
    /\ ballistics' = Append(ballistics, timeNow)
    /\ step' = step + 1
    /\ UNCHANGED <<clock, people, beams, areas, fuses, j, k, it, effectHappened, fatal>>

\* Paralyzer::onFire
FireParalyzer ==
    /\ AtWeapon("paralyzer") /\ Len(beams) < MaxBeams
    /\ beams' = Append(beams, [source |-> j, end |-> timeNow + BeamDuration])
    /\ step' = step + 1
    /\ UNCHANGED <<clock, people, ballistics, areas, fuses, j, k, it, effectHappened, fatal>>

\* Creater::onFire: a unit with one hit point, under construction
Create == \E weapon \in DOMAIN Creates :
    /\ AtWeapon(weapon)
    /\ Spawn(Creates[weapon], 1, <<Layer("building", 1)>>)
    /\ step' = step + 1
    /\ UNCHANGED <<clock, shots, areas, fuses, j, k, it, effectHappened, fatal>>

\* UnitCore::repair, not beyond the limit max
Repaired(hp, amount, max) ==
    IF hp + amount <= max THEN hp + amount ELSE IF hp < max THEN max ELSE hp

\* Mutant: the last step of a construction is a whole one
ConstructWhole(u, i) ==
    LET max == MaxHitPoints[core[u].kind]
        built == core[u].layers[i].n
    IN  core' = IF built >= max THEN WithoutLayer(u, i)
                ELSE [core EXCEPT ![u].layers[i].n = built + 1,
                                  ![u].hp = Repaired(@, BuildRate, max)]

\* BuildingLayer::build on the topmost such layer.  The core's own maximum
\* limits the repair, the kind's maximum limits the construction.
Construct(u, i) ==
    LET max == MaxHitPoints[core[u].kind]
        built == core[u].layers[i].n
        amount == IF built + BuildRate > max THEN max - built ELSE BuildRate
    IN  core' = IF built >= max THEN WithoutLayer(u, i)
                ELSE [core EXCEPT ![u].layers[i].n = built + amount,
                                  ![u].hp = IF amount = 0 THEN @ ELSE Repaired(@, amount, max)]

\* Builder::onFire: a target that is not under construction is left alone
Build == \E u \in Alive :
    /\ AtWeapon("builder")
    /\ IF LayersOf(u, "building") = {} THEN UNCHANGED core
                                       ELSE Construct(u, Min(LayersOf(u, "building")))
    /\ step' = step + 1
    /\ UNCHANGED <<clock, units, shots, areas, fuses, j, k, it, effectHappened, fatal>>

\* Shell::onCollision
Collide ==
    /\ Collides
    /\ ballistics' = RemoveAt(ballistics, it)
    /\ newEffects' = newEffects + 1
    /\ UNCHANGED <<clock, people, beams, effects, fuses, loops, fatal>>

\* ParalyzationBeam::onInteractUnit: the first unit in its way but its source
Paralyse == \E u \in Alive :
    /\ Shines /\ u # beams[it].source
    /\ Cardinality(Queued(fuseQueue)) < TokenModulus
    /\ core' = InsertLayer(u, Layer("paralysing", NextToken))
    /\ AddFuse(u, timeNow + FuseDelay)
    /\ it' = it + 1
    /\ UNCHANGED <<clock, units, shots, areas, j, k, step, effectHappened>>

\* Explosion::onUnitPresent, for the units inside
Explode(us) == Damage([u \in us |-> BlastDamage])

EngulfOld == \E us \in SUBSET Alive :
    /\ Engulfs
    /\ Explode(us) /\ Engulfed
    /\ UNCHANGED <<clock, ballistics, newEffects, lastFuseToken, fuseQueue,
                   j, k, step, effectHappened>>

NewEffect == \E us \in SUBSET Alive :
    /\ Happens
    /\ Explode(us) /\ Happened(MaxEffects)
    /\ UNCHANGED <<clock, ballistics, lastFuseToken, fuseQueue, j, k, step, it>>

\* Mutant: the topmost paralysing layer is removed
TopParalysing(u, token) == LayersOf(u, "paralysing")
OwnLayer(u, token) ==
    {i \in LayersOf(u, "paralysing") : core[u].layers[i].n = token}

\* ParalyzingLayer::expire removes itself from the unit it lies on
ExpireFuse == \E token \in Tokens :
    LET u == fuseMap[token]
        mine == OwnLayer(u, token)
    IN  /\ GoesOff(token)
        /\ IF token \in DOMAIN fuseMap /\ mine # {}
           THEN core' = WithoutLayer(u, Min(mine)) /\ UNCHANGED fatal
           ELSE fatal' = TRUE /\ UNCHANGED core
        /\ WentOff(token)
        /\ UNCHANGED <<clock, units, shots, areas, loops>>

Next ==
    \/ StartTick(MaxTime) \/ Loop
    \/ UpdateLayers \/ FireCannon \/ FireParalyzer \/ Create \/ Build
    \/ Collide \/ Paralyse \/ EngulfOld \/ NewEffect \/ ExpireFuse

\* The server keeps calling incrementGameState, which keeps going
Spec == Init /\ [][Next]_vars /\ WF_vars(Next)

-----------------------------------------------------------------------------
Layers == [type : {"building", "paralysing"}, n : Nat]

\* The state has its type; who is in the list of units has hit points and a kind.
TypeOK ==
    /\ timeNow \in 0..MaxTime /\ phase \in Phases
    /\ units \in Seq(Units) /\ IsInjective(units)
    /\ \A u \in Units :
          IF u \in Alive
          THEN /\ core[u] \in [kind : Kinds, hp : Nat \ {0}, arms : Kinds, layers : Seq(Layers)]
               /\ \A i \in LayersOf(u, "paralysing") : core[u].layers[i].n \in Tokens
          ELSE core[u] = Nobody
    /\ ballistics \in Seq(0..MaxTime)
    /\ beams \in Seq([source : Alive \cup {End}, end : Nat])
    /\ newEffects \in Nat /\ effects \in 0..MaxEffects
    /\ lastFuseToken \in Tokens /\ IsQueue(fuseQueue, Tokens)
    /\ DOMAIN fuseMap \subseteq Tokens /\ Range(fuseMap) \subseteq Alive
    /\ removedFuses \subseteq Tokens
    /\ {j, k} \subseteq Units \cup {End} /\ step \in Nat /\ it \in Nat \ {0}
    /\ {effectHappened, fatal} \subseteq BOOLEAN
    /\ turn \in [Units -> {"new", "due", "done", "twice"}]

\* No call of the game or of the loops fails: a token given out is not one in
\* use, a fuse removed was there, an entry that is neither removed nor in the
\* map never comes to the top of the queue, and the layer that removes itself
\* is on its unit (the SAKUSEN_FATALs of addFuse, removeFuse, incrementGameState
\* and UnitCore::removeLayer).
NoFatal == ~fatal

\* The three tables of fuses agree: the queue has every fuse of the map and
\* every removed one once, and no fuse is both.
TablesAgree ==
    /\ Queued(fuseQueue) = DOMAIN fuseMap \cup removedFuses
    /\ DOMAIN fuseMap \cap removedFuses = {}
    /\ \A p \in DOMAIN fuseQueue :
          /\ IsInjective(fuseQueue[p])
          /\ \A q \in DOMAIN fuseQueue \ {p} : Range(fuseQueue[p]) \cap Range(fuseQueue[q]) = {}

\* Whoever is paralysed wakes up: every paralysing layer of a unit has the one
\* fuse of the map that points to the unit with its token, no fuse of the map is
\* without its layer, and the queue, by whose order fuses go off, has them all.
ParalysisFuses ==
    TablesAgree /\ \A u \in Alive :
        /\ \A i \in LayersOf(u, "paralysing") :
              LET token == core[u].layers[i].n
              IN  /\ token \in DOMAIN fuseMap /\ fuseMap[token] = u
                  /\ \A m \in LayersOf(u, "paralysing") : core[u].layers[m].n = token => m = i
        /\ \A token \in DOMAIN fuseMap : fuseMap[token] = u =>
              \E i \in LayersOf(u, "paralysing") : core[u].layers[i].n = token

\* The loop over the units updates none twice, whatever is spawned under its
\* iterators, and leaves out none that was there when the tick began.
EveryUnitOnce ==
    /\ \A u \in Units : turn[u] # "twice"
    /\ phase = "units" /\ j = End => \A u \in Alive : turn[u] # "due"

\* What is under construction has no more hit points than were built: damage and
\* building keep to it, whatever their order, for a unit that is not a corpse.
HealthWithinBuilt ==
    \A u \in Alive : \A i \in LayersOf(u, "building") :
        core[u].kind = core[u].arms => core[u].hp <= core[u].layers[i].n

\* Fuses go off when they were set for, in the order they were set, unless they
\* were removed, and no tick passes one that is due.
Book == INSTANCE FuseBook WITH
    now <- timeNow,
    book <- InOrder(fuseQueue, removedFuses)
ImplementsFuseBook == Book!Spec

\* A tick ends, although effects and fuses may cause each other.
TickEnds == phase # "idle" ~> phase = "idle"
=============================================================================
