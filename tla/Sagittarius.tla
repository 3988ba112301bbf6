---------------------------- MODULE Sagittarius -----------------------------
(***************************************************************************)
(* The game module of the universe sagittarius, from the time that the     *)
(* players have created their fleets: ships with lasers and torpedoes.  A  *)
(* torpedo is a neutral unit.  Its top layer is a fuse until that goes off *)
(* and puts a detonator in its place.                                      *)
(***************************************************************************)
EXTENDS WorldTick

CONSTANTS
    Attack,           \* what the command centre was set to
    FuseDelay,        \* how long a torpedo is harmless
    BeamDuration,
    Reload,           \* ticks between two torpedoes of a launcher
    MaxTime, MaxBeams \* bounds as in TestGame; Kinds is {"ship", "torp"}

VARIABLE lastFire     \* TorpedoLauncher::lastFire of every unit

Neutral(u) == core[u].kind = "torp"

\* Units without a detonator, and those whose detonator has nobody near, go on
UpdateLayers ==
    /\ AtLayers
    /\ step' = 1 /\ Visited
    /\ UNCHANGED <<timeNow, phase, people, shots, areas, fuses, j, k, it, effectHappened,
                   fatal, lastFire>>

\* TorpedoDetonator::incrementState: one unit near is damaged, the torpedo killed
Detonate == \E victim \in Alive :
    /\ AtLayers /\ LayersOf(j, "detonator") # {} /\ ~Neutral(victim)
    /\ Damage([u \in {j, victim} |-> IF u = j THEN core[j].hp ELSE Attack])
    /\ step' = 1 /\ Visited
    /\ UNCHANGED <<timeNow, phase, ballistics, areas, lastFuseToken, fuseQueue,
                   j, k, it, effectHappened, lastFire>>

\* Laserator::onFire
FireLaser ==
    /\ AtWeapon("laser") /\ Len(beams) < MaxBeams
    /\ beams' = Append(beams, [source |-> j, end |-> timeNow + BeamDuration])
    /\ step' = step + 1
    /\ UNCHANGED <<clock, people, ballistics, areas, fuses, j, k, it, effectHappened,
                   fatal, lastFire>>

\* LaserBeam::onInteractUnit
Burn == \E u \in Alive :
    /\ Shines /\ u # beams[it].source
    /\ Damage([v \in {u} |-> Attack])
    /\ it' = it + 1
    /\ UNCHANGED <<clock, ballistics, areas, lastFuseToken, fuseQueue, j, k, step,
                   effectHappened, lastFire>>

\* TorpedoLauncher::onFire: the torpedo, its fuse as a layer and as a fuse
Launch ==
    /\ AtWeapon("torpedo")
    /\ timeNow - lastFire[j] >= Reload
    /\ Cardinality(Queued(fuseQueue)) < TokenModulus
    /\ Spawn("torp", MaxHitPoints["torp"], <<Layer("fuse", NextToken)>>)
    /\ AddFuse(Min(Free), timeNow + FuseDelay)
    /\ lastFire' = [lastFire EXCEPT ![j] = timeNow, ![Min(Free)] = 0]
    /\ step' = step + 1
    /\ UNCHANGED <<clock, shots, areas, j, k, it, effectHappened>>

\* TorpedoFuse::expire: the detonator on top, the fuse away.  What it does on a
\* unit that was destroyed is undefined and not modelled.
Arm == \E token \in DOMAIN fuseMap :
    /\ GoesOff(token) /\ fuseMap[token] \in Alive
    /\ core' = [core EXCEPT ![fuseMap[token]].layers = <<Layer("detonator", 0)>> \o
                   SelectSeq(@, LAMBDA l : l # Layer("fuse", token))]
    /\ WentOff(token)
    /\ UNCHANGED <<clock, units, shots, areas, loops, fatal, lastFire>>

SagittariusInit == Init /\ lastFire = [u \in Units |-> 0]

Next ==
    \/ (StartTick(MaxTime) \/ Loop) /\ UNCHANGED lastFire
    \/ UpdateLayers \/ Detonate \/ FireLaser \/ Burn \/ Launch \/ Arm

Spec == SagittariusInit /\ [][Next]_<<vars, lastFire>>

-----------------------------------------------------------------------------
\* When a unit is destroyed nobody else holds its top layer (the assertion of
\* ~LayeredUnit): no fuse of the map is the layer of a unit that is gone.
TopLayerUnique == \A token \in DOMAIN fuseMap : fuseMap[token] \in Alive
=============================================================================
