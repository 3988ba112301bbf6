------------------------------ MODULE ShownProofs ------------------------------
(***************************************************************************)
(* Theorems about what clients are shown in SensorReturns, whatever        *)
(* sensors units have.  The last reading of one sensor may go stale while  *)
(* another reads, so a client is not always shown what its player          *)
(* perceives (see the run blink).  Proved here is that this is the only    *)
(* way in which it is not, and that with one kind of sensor it always is.  *)
(***************************************************************************)
EXTENDS SensorReturnsProofs

\* What the sensers of a return have kept between them
Perceived(return) ==
    UNION {Total(return.sensers[i]) : i \in DOMAIN return.sensers}

\* The checks of this tick have passed the return of u to p.
Checked(p, u) ==
    \/ phase \in {"destroyed", "visible"} /\ p < checking
    \/ phase = "visible" /\ p = checking /\ u \notin unchecked
    \/ phase \in {"clearing", "ended"}

\* The unit shown of a return that is not dirty is the one perceived.  When none
\* is shown, every senser has a region to its name: it has seen the unit since,
\* if at all, with another sensor, for a new reading would have made it dirty.
ShownRight(u, return, shown) ==
    ~return.dirty =>
        IF shown.unit = {}
        THEN \A i \in DOMAIN return.sensers : "region" \in Total(return.sensers[i])
        ELSE shown.unit = Report(return.perception, status[u]).unit
\* A region is always told of, and what is told of in a tick is as it is.
ToldOf(checked, u, return, shown) ==
    /\ checked => ~return.dirty /\ ("region" \in return.perception => shown.altered)
    /\ shown.altered =>
         checked /\ shown.unit = Report(return.perception, status[u]).unit
ShownWell(checked, u, return, shown) ==
    /\ ShownRight(u, return, shown)
    /\ ToldOf(checked, u, return, shown)
    /\ return.perception \subseteq Perceived(return)
\* The returns that show a dirty unit are dirty until they are checked.
FlaggedIfDirty(u, return) ==
    phase = "acting" /\ u \in dirty /\ "unit" \in return.perception => return.dirty
ReturnsShown ==
    \A p \in Players : \A u \in DOMAIN returns[p] :
        /\ ShownWell(Checked(p, u), u, returns[p][u],
                     views[p].returns[returns[p][u].id])
        /\ FlaggedIfDirty(u, returns[p][u])

-----------------------------------------------------------------------------
(* Acting on units *)

LEMMA InitShown == Init => ReturnsShown
BY DEF Init, EmptyIndex, ReturnsShown

\* A step before the checks that leaves a return as it is, flags it, or empties
\* it, and flags those that show a unit whose status or dirty flag it changes
LEMMA ActingShown ==
    ASSUME ReturnsShown, phase = "acting", phase' = "acting",
           \A p \in Players :
              /\ DOMAIN returns'[p] = DOMAIN returns[p]
              /\ views'[p].returns = views[p].returns,
           \A p \in Players : \A w \in DOMAIN returns[p] :
              /\ returns'[p][w].id = returns[p][w].id
              /\ \/ /\ returns'[p][w].dirty
                    /\ returns'[p][w].perception = NothingPerceived
                 \/ /\ returns'[p][w].perception = returns[p][w].perception
                    /\ returns'[p][w].sensers = returns[p][w].sensers
                    /\ \/ returns'[p][w].dirty
                       \/ "unit" \notin returns[p][w].perception /\ ~returns[p][w].dirty
                       \/ /\ ~returns[p][w].dirty
                          /\ status'[w] = status[w] /\ (w \in dirty' => w \in dirty)
    PROVE  ReturnsShown'
<1>1. ASSUME NEW p \in Players, NEW w \in DOMAIN returns[p]
      PROVE  /\ ShownWell(Checked(p, w), w, returns[p][w],
                          views[p].returns[returns[p][w].id])'
             /\ FlaggedIfDirty(w, returns[p][w])'
  <2> DEFINE now == returns'[p][w]
             before == returns[p][w]
             shown == views[p].returns[before.id]
  <2>1. /\ ShownRight(w, before, shown)
        /\ ToldOf(Checked(p, w), w, before, shown)
        /\ before.perception \subseteq Perceived(before)
        /\ w \in dirty /\ "unit" \in before.perception => before.dirty
      BY DEF ReturnsShown, ShownWell, FlaggedIfDirty
  <2>2. views'[p].returns[now.id] = shown
      OBVIOUS
  <2>3. ~Checked(p, w) /\ ~Checked(p, w)'
      BY DEF Checked
  <2>4. ~shown.altered
      BY <2>1, <2>3 DEF ToldOf
  <2>5. \/ now.dirty /\ now.perception = NothingPerceived
        \/ /\ now.perception = before.perception
           /\ now.sensers = before.sensers
           /\ \/ now.dirty
              \/ "unit" \notin before.perception /\ ~before.dirty
              \/ /\ ~before.dirty
                 /\ status'[w] = status[w] /\ (w \in dirty' => w \in dirty)
      OBVIOUS
  <2> HIDE DEF now, before, shown
  <2>6. (IF shown.unit = {}
         THEN \A i \in DOMAIN now.sensers : "region" \in Total(now.sensers[i])
         ELSE shown.unit = IF "unit" \in now.perception THEN {status'[w]} ELSE {})
        \/ now.dirty
      BY <2>1, <2>5 DEF ShownRight, Report
  <2>7. now.perception \subseteq Perceived(now)
      BY <2>1, <2>5 DEF Perceived, NothingPerceived
  <2>8. w \in dirty' /\ "unit" \in now.perception => now.dirty
      BY <2>1, <2>5 DEF NothingPerceived
  <2>9. ShownRight(w, returns[p][w], views[p].returns[returns[p][w].id])'
      BY <2>2, <2>6 DEF ShownRight, Report, now
  <2>10. ToldOf(Checked(p, w), w, returns[p][w],
                views[p].returns[returns[p][w].id])'
      BY <2>2, <2>3, <2>4 DEF ToldOf, now
  <2> QED
      BY <2>7, <2>8, <2>9, <2>10 DEF ShownWell, FlaggedIfDirty, Perceived, now
<1> QED
    BY <1>1 DEF ReturnsShown

\* The returns that Flagged leaves as they are do not show the unit.
LEMMA FlaggedShown ==
    ASSUME TypeOK, NEW u, NEW p \in Players, NEW w \in DOMAIN returns[p]
    PROVE  \/ Flagged(u)[p][w].dirty
           \/ "unit" \notin returns[p][w].perception /\ ~returns[p][w].dirty
           \/ w # u /\ ~returns[p][w].dirty
<1>1. IsReturns(returns[p])
    BY DEF TypeOK
<1>2. CASE u \in DOMAIN returns[p] /\ "unit" \in returns[p][u].perception
  <2> DEFINE return == returns[p][u]
  <2>1. Flagged(u)[p] = [returns[p] EXCEPT ![u].dirty = TRUE]
      BY <1>2 DEF Flagged
  <2>2. CASE w = u
    <3>1. IsReturn(returns[p][u]) /\ w \in DOMAIN returns[p]
        BY <1>1, <1>2 DEF IsReturns
    <3> DEFINE now == Flagged(u)[p][w]
    <3>2. now = [returns[p][u] EXCEPT !.dirty = TRUE]
        BY <1>1, <2>1, <2>2 DEF IsReturns
    <3> HIDE DEF now, return
    <3>3. now.dirty
        BY <3>1, <3>2 DEF IsReturn
    <3> QED
        BY <3>3 DEF now
  <2>3. CASE w # u
    <3>1. Flagged(u)[p][w] = returns[p][w]
        BY <2>1, <2>3
    <3> QED
        BY <2>3, <3>1
  <2> QED
      BY <2>2, <2>3
<1>3. CASE ~(u \in DOMAIN returns[p] /\ "unit" \in returns[p][u].perception)
  <2>1. Flagged(u)[p] = returns[p]
      BY <1>3 DEF Flagged
  <2> QED
      BY <1>3, <2>1
<1> QED
    BY <1>2, <1>3

LEMMA SpawnShown ==
    ASSUME IInv, ReturnsShown, NEW u \in Units, NEW p \in Players,
           NEW on \in SUBSET (Sensors \cap Switched), Spawn(u, p, on)
    PROVE  ReturnsShown'
<1>1. /\ phase = "acting" /\ u \notin alive /\ nextUnitId[p] < MaxUnitId
      /\ \A q \in Players : u \notin DOMAIN returns[q]
      /\ alive' = alive \cup {u} /\ owner' = [owner EXCEPT ![u] = p]
      /\ status' = [status EXCEPT ![u] = on]
      /\ AddUnit(u, p, on, units, views)
      /\ UNCHANGED <<phase, dirty, returns>>
    BY DEF Spawn, tickVars, returnVars
<1>2. /\ TypeOK /\ alive \in SUBSET Units /\ dirty' = dirty \ {u} /\ on \in Statuses
      /\ UnitsFit(alive, units, views)
    BY <1>1, AllUnitsFit DEF IInv, TypeOK, Statuses
<1>3. \A q \in Players : views'[q].returns = views[q].returns
    BY <1>1, <1>2, AddUnitFits
<1>4. \A q \in Players : \A w \in DOMAIN returns[q] : status'[w] = status[w]
    BY <1>1, <1>2 DEF TypeOK, IsReturns
<1> QED
    BY <1>1, <1>3, <1>4, ActingShown

LEMMA SwitchSensorShown ==
    ASSUME IInv, ReturnsShown, NEW u \in Units, NEW s \in Sensors \cap Switched,
           NEW on \in BOOLEAN, SwitchSensor(u, s, on)
    PROVE  ReturnsShown'
<1>1. /\ phase = "acting" /\ TypeOK
      /\ dirty' = dirty \cup {u}
      /\ returns' = IF u \in dirty THEN returns ELSE Flagged(u)
      /\ UNCHANGED <<phase, views>>
    BY DEF SwitchSensor, SetDirty, tickVars, IInv
<1>2. \A w \in Units \ {u} : status'[w] = status[w]
    BY <1>1 DEF SwitchSensor, TypeOK
<1>3. \A p \in Players : DOMAIN returns[p] \subseteq Units
    BY <1>1 DEF TypeOK, IsReturns
<1>4. CASE u \in dirty
  <2>1. ASSUME NEW p \in Players, NEW w \in DOMAIN returns[p]
        PROVE  \/ returns[p][w].dirty
               \/ "unit" \notin returns[p][w].perception /\ ~returns[p][w].dirty
               \/ /\ ~returns[p][w].dirty
                  /\ status'[w] = status[w] /\ (w \in dirty' => w \in dirty)
      BY <1>1, <1>2, <1>3, <1>4 DEF ReturnsShown, FlaggedIfDirty
  <2> QED
      BY <1>1, <1>4, <2>1, ActingShown
<1>5. CASE u \notin dirty
  <2>1. ASSUME NEW p \in Players, NEW w \in DOMAIN returns[p]
        PROVE  \/ Flagged(u)[p][w].dirty
               \/ "unit" \notin returns[p][w].perception /\ ~returns[p][w].dirty
               \/ /\ ~returns[p][w].dirty
                  /\ status'[w] = status[w] /\ (w \in dirty' => w \in dirty)
      BY <1>1, <1>2, <1>3, FlaggedShown
  <2> QED
      BY <1>1, <1>5, <2>1, FlaggedReturns, ActingShown
<1> QED
    BY <1>4, <1>5

LEMMA ChangeOwnerShown ==
    ASSUME IInv, ReturnsShown, NEW u \in Units, NEW p \in Players,
           ChangeOwner(u, p)
    PROVE  ReturnsShown'
<1> DEFINE left == UnitsWithout(u)
           known == ToldOfLoss(u)
<1>1. /\ phase = "acting" /\ u \in alive /\ nextUnitId[p] < MaxUnitId /\ TypeOK
      /\ dirty' = dirty \ {u} /\ owner' = [owner EXCEPT ![u] = p]
      /\ AddUnit(u, p, status[u], left, known)
      /\ returns' = Flagged(u)
      /\ UNCHANGED <<phase, alive, status>>
    BY DEF ChangeOwner, tickVars, IInv
<1>2. UnitsFit(alive \ {u}, left, known)
    BY <1>1, OthersFit
<1> HIDE DEF left, known
<1>3. /\ alive \ {u} \in SUBSET Units /\ u \in Units \ (alive \ {u})
      /\ status[u] \in Statuses /\ alive' = (alive \ {u}) \cup {u}
      /\ status' = [status EXCEPT ![u] = status[u]]
    BY <1>1 DEF TypeOK
<1>4. \A q \in Players : views'[q].returns = views[q].returns
    BY <1>1, <1>2, <1>3, AddUnitFits
<1>5. ASSUME NEW q \in Players, NEW w \in DOMAIN returns[q]
      PROVE  \/ Flagged(u)[q][w].dirty
             \/ "unit" \notin returns[q][w].perception /\ ~returns[q][w].dirty
             \/ /\ ~returns[q][w].dirty
                /\ status'[w] = status[w] /\ (w \in dirty' => w \in dirty)
    BY <1>1, FlaggedShown
<1> QED
    BY <1>1, <1>4, <1>5, FlaggedReturns, ActingShown

LEMMA RemoveUnitShown ==
    ASSUME IInv, ReturnsShown, NEW u \in Units, RemoveUnit(u)
    PROVE  ReturnsShown'
<1> DEFINE left == UnitsWithout(u)
           known == ToldOfLoss(u)
<1>1. /\ phase = "acting" /\ u \in alive /\ TypeOK
      /\ dirty' = dirty \ {u} /\ status' = [status EXCEPT ![u] = {}]
      /\ views' = known
      /\ returns' = [p \in Players |->
            IF u \in DOMAIN returns[p]
            THEN [returns[p] EXCEPT ![u] = SenseeDestroyed(@)]
            ELSE returns[p]]
      /\ phase' = phase
    BY DEF RemoveUnit, tickVars, IInv
<1>2. UnitsFit(alive \ {u}, left, known)
    BY <1>1, OthersFit
<1> HIDE DEF left, known
<1>3. \A p \in Players : views'[p].returns = views[p].returns
    BY <1>1, <1>2 DEF UnitsFit
<1>4. \A w \in Units \ {u} : status'[w] = status[w]
    BY <1>1 DEF TypeOK
<1>5. ASSUME NEW p \in Players
      PROVE  /\ DOMAIN returns'[p] = DOMAIN returns[p]
             /\ \A w \in DOMAIN returns[p] :
                  /\ returns'[p][w].id = returns[p][w].id
                  /\ \/ /\ returns'[p][w].dirty
                        /\ returns'[p][w].perception = NothingPerceived
                     \/ /\ returns'[p][w] = returns[p][w]
                        /\ status'[w] = status[w] /\ (w \in dirty' => w \in dirty)
  <2>1. /\ DOMAIN returns'[p] = DOMAIN returns[p]
        /\ \A w \in DOMAIN returns[p] :
             /\ returns'[p][w].id = returns[p][w].id
             /\ w # u => returns'[p][w] = returns[p][w]
             /\ w = u => /\ returns'[p][w].dirty
                         /\ returns'[p][w].perception = NothingPerceived
      BY <1>1, DestroyedReturns
  <2>2. DOMAIN returns[p] \subseteq Units
      BY <1>1 DEF TypeOK, IsReturns
  <2> QED
      BY <1>1, <1>4, <2>1, <2>2
<1>6. ASSUME NEW p \in Players, NEW w \in DOMAIN returns[p]
      PROVE  /\ returns'[p][w].id = returns[p][w].id
             /\ \/ /\ returns'[p][w].dirty
                   /\ returns'[p][w].perception = NothingPerceived
                \/ /\ returns'[p][w].perception = returns[p][w].perception
                   /\ returns'[p][w].sensers = returns[p][w].sensers
                   /\ \/ returns'[p][w].dirty
                      \/ "unit" \notin returns[p][w].perception /\ ~returns[p][w].dirty
                      \/ /\ ~returns[p][w].dirty
                         /\ status'[w] = status[w] /\ (w \in dirty' => w \in dirty)
    BY <1>5
<1> QED
    BY <1>1, <1>3, <1>5, <1>6, ActingShown

-----------------------------------------------------------------------------
(* Moving on *)

\* A step that passes no return that is still there
LEMMA MovingOnShown ==
    ASSUME ReturnsShown, UNCHANGED <<returns, status>>, phase' # "acting",
           \A p \in Players : views'[p].returns = views[p].returns,
           \A p \in Players : \A w \in DOMAIN returns[p] :
              Checked(p, w)' <=> Checked(p, w)
    PROVE  ReturnsShown'
<1>1. ASSUME NEW p \in Players, NEW w \in DOMAIN returns[p]
      PROVE  /\ ShownWell(Checked(p, w), w, returns[p][w],
                          views[p].returns[returns[p][w].id])'
             /\ FlaggedIfDirty(w, returns[p][w])'
  <2>1. /\ ShownRight(w, returns[p][w], views[p].returns[returns[p][w].id])
        /\ ToldOf(Checked(p, w), w, returns[p][w],
                  views[p].returns[returns[p][w].id])
        /\ returns[p][w].perception \subseteq Perceived(returns[p][w])
      BY DEF ReturnsShown, ShownWell
  <2>2. Checked(p, w)' <=> Checked(p, w)
      OBVIOUS
  <2>3. ShownRight(w, returns[p][w], views[p].returns[returns[p][w].id])'
      BY <2>1 DEF ShownRight, Report
  <2>4. ToldOf(Checked(p, w), w, returns[p][w],
               views[p].returns[returns[p][w].id])'
      BY <2>1, <2>2 DEF ToldOf, Report
  <2> QED
      BY <2>1, <2>3, <2>4 DEF ShownWell, FlaggedIfDirty, Perceived
<1> QED
    BY <1>1 DEF ReturnsShown

LEMMA BeginChecksShown == ReturnsShown /\ BeginChecks => ReturnsShown'
<1> SUFFICES ASSUME ReturnsShown, BeginChecks PROVE ReturnsShown'
    OBVIOUS
<1>1. \A p \in Players : \A w : ~Checked(p, w) /\ ~Checked(p, w)'
    BY PlayersAssumption DEF BeginChecks, Checked, Players
<1> QED
    BY <1>1, MovingOnShown DEF BeginChecks, unitVars, returnVars

LEMMA DestroyedDoneShown == IInv /\ ReturnsShown /\ DestroyedDone => ReturnsShown'
<1> SUFFICES ASSUME IInv, ReturnsShown, DestroyedDone PROVE ReturnsShown'
    OBVIOUS
<1>1. \A w \in DOMAIN returns[checking] : w \in alive
    BY DEF DestroyedDone, IInv, EmptyMeansGone, TypeOK
<1>2. \A p \in Players : \A w \in DOMAIN returns[p] :
        Checked(p, w)' <=> Checked(p, w)
    BY <1>1 DEF DestroyedDone, Checked
<1> QED
    BY <1>2, MovingOnShown DEF DestroyedDone, unitVars, returnVars

LEMMA NextPlayerShown == IInv /\ ReturnsShown /\ NextPlayer => ReturnsShown'
<1> SUFFICES ASSUME IInv, ReturnsShown, NextPlayer PROVE ReturnsShown'
    OBVIOUS
<1>1. \A p \in Players : p < checking + 1 <=> p < checking \/ p = checking
    BY PlayersAssumption DEF IInv, TypeOK, Players
<1>2. \A p \in Players : \A w \in DOMAIN returns[p] :
        Checked(p, w)' <=> Checked(p, w)
    BY <1>1 DEF NextPlayer, Checked
<1> QED
    BY <1>2, MovingOnShown DEF NextPlayer, unitVars, returnVars

LEMMA ChecksDoneShown == IInv /\ ReturnsShown /\ ChecksDone => ReturnsShown'
<1> SUFFICES ASSUME IInv, ReturnsShown, ChecksDone PROVE ReturnsShown'
    OBVIOUS
<1>1. \A p \in Players : p < checking \/ p = checking
    BY PlayersAssumption DEF IInv, TypeOK, Players, ChecksDone
<1>2. \A p \in Players : \A w \in DOMAIN returns[p] :
        Checked(p, w) /\ Checked(p, w)'
    BY <1>1 DEF ChecksDone, Checked
<1> QED
    BY <1>2, MovingOnShown DEF ChecksDone, unitVars, returnVars

LEMMA TickEndsShown == ReturnsShown /\ TickEnds => ReturnsShown'
<1> SUFFICES ASSUME ReturnsShown, TickEnds PROVE ReturnsShown'
    OBVIOUS
<1>1. \A p \in Players : \A w \in DOMAIN returns[p] :
        Checked(p, w) /\ Checked(p, w)'
    BY DEF TickEnds, Checked
<1> QED
    BY <1>1, MovingOnShown DEF TickEnds, unitVars, returnVars

LEMMA ClearDirtyShown ==
    ASSUME IInv, ReturnsShown, NEW u \in Units, ClearDirty(u) PROVE ReturnsShown'
<1>1. \A p \in Players : views'[p].returns = views[p].returns
  <2>1. u \in alive
      BY DEF ClearDirty, IInv, TypeOK
  <2>2. views' = ToldOfChange(u)
      BY DEF ClearDirty
  <2> QED
      BY <2>1, <2>2, ToldOfChangeViews
<1>2. \A p \in Players : \A w \in DOMAIN returns[p] :
        Checked(p, w) /\ Checked(p, w)'
    BY DEF ClearDirty, Checked, tickVars
<1> QED
    BY <1>1, <1>2, MovingOnShown DEF ClearDirty, tickVars, returnVars

LEMMA SeeNothingShown ==
    ASSUME ReturnsShown, NEW u, NEW readings, SeeNothing(u, readings)
    PROVE  ReturnsShown'
<1>1. \A p \in Players : \A w \in DOMAIN returns[p] :
        Checked(p, w)' <=> Checked(p, w)
    BY DEF SeeNothing, Visit, Checked
<1> QED
    BY <1>1, MovingOnShown DEF SeeNothing, Visit, unitVars, returnVars

LEMMA StutterShown == ReturnsShown /\ UNCHANGED vars => ReturnsShown'
<1> SUFFICES ASSUME ReturnsShown, UNCHANGED vars PROVE ReturnsShown'
    OBVIOUS
<1>1. UNCHANGED <<phase, checking, unchecked, status, dirty, returns, views>>
    BY DEF vars, tickVars, unitVars, returnVars
<1>2. ASSUME NEW p \in Players, NEW w \in DOMAIN returns[p]
      PROVE  /\ ShownWell(Checked(p, w), w, returns[p][w],
                          views[p].returns[returns[p][w].id])'
             /\ FlaggedIfDirty(w, returns[p][w])'
  <2>1. /\ ShownWell(Checked(p, w), w, returns[p][w],
                     views[p].returns[returns[p][w].id])
        /\ FlaggedIfDirty(w, returns[p][w])
      BY DEF ReturnsShown
  <2> QED
      BY <1>1, <2>1
      DEF ShownWell, ShownRight, ToldOf, Report, Checked, Perceived, FlaggedIfDirty
<1> QED
    BY <1>1, <1>2 DEF ReturnsShown

\* At the beginning of a tick nothing is told of yet, and all is shown as before.
LEMMA NextTickShown == IInv /\ ReturnsShown /\ NextTick => ReturnsShown'
<1> SUFFICES ASSUME IInv, ReturnsShown, NextTick PROVE ReturnsShown'
    OBVIOUS
<1>1. /\ phase = "ended" /\ phase' = "acting" /\ dirty' = {}
      /\ UNCHANGED <<returns, status>>
      /\ views' = [p \in Players |-> EndTick(views[p])]
    BY DEF NextTick, unitVars, returnVars, IInv, PlayersChecked
<1>2. ASSUME NEW p \in Players, NEW w \in DOMAIN returns[p]
      PROVE  LET id == returns[p][w].id
             IN  /\ views'[p].returns[id].unit = views[p].returns[id].unit
                 /\ ~views'[p].returns[id].altered
  <2> DEFINE view == views[p]
             id == returns[p][w].id
             known == [i \in DOMAIN view.returns |->
                          [view.returns[i] EXCEPT !.altered = FALSE]]
             ends == view.aborted \/ \E i \in DOMAIN view.returns :
                                       ~Extrapolable(view.returns[i])
             now == EndTick(view)
  <2>1. IsView(view, UnitIds, ReturnsIds, Statuses) /\ id \in DOMAIN view.returns
      BY DEF IInv, TypeOK, ReturnsTold, ReturnIds
  <2>2. known[id].unit = view.returns[id].unit /\ ~known[id].altered
      BY <2>1 DEF IsView, IsIndex, Reports
  <2>3. now = [view EXCEPT !.aborted = ends, !.returns = known]
      BY Zenon DEF EndTick
  <2> HIDE DEF known, ends, now
  <2>4. now.returns = known
      BY <2>1, <2>3 DEF IsView
  <2>5. views'[p] = now
      BY <1>1 DEF now
  <2> QED
      BY <2>2, <2>4, <2>5
<1>3. ASSUME NEW p \in Players, NEW w \in DOMAIN returns[p]
      PROVE  /\ ShownWell(Checked(p, w), w, returns[p][w],
                          views[p].returns[returns[p][w].id])'
             /\ FlaggedIfDirty(w, returns[p][w])'
  <2> DEFINE return == returns[p][w]
             shown == views[p].returns[return.id]
             next == views'[p].returns[return.id]
  <2>1. ShownRight(w, return, shown) /\ return.perception \subseteq Perceived(return)
      BY DEF ReturnsShown, ShownWell
  <2>2. next.unit = shown.unit /\ ~next.altered
      BY <1>2
  <2>3. ~Checked(p, w)'
      BY <1>1 DEF Checked
  <2>4. returns'[p][w] = return
      BY <1>1
  <2> HIDE DEF return, shown
  <2>5. ShownRight(w, return, shown)'
      BY <1>1, <2>1, <2>2, <2>4 DEF ShownRight, Report, return, shown
  <2>6. ToldOf(Checked(p, w), w, return, shown)'
      BY <1>1, <2>2, <2>3, <2>4 DEF ToldOf, return, shown
  <2> QED
      BY <1>1, <2>1, <2>4, <2>5, <2>6
      DEF ShownWell, FlaggedIfDirty, Perceived, return, shown
<1> QED
    BY <1>1, <1>3 DEF ReturnsShown

-----------------------------------------------------------------------------
(* Sensing *)

\* What a senser reads, with whichever of its sensors, is in what is kept of it.
LEMMA SeenIsKept ==
    ASSUME NEW held, NEW seen
    PROVE  Total(seen) \subseteq Total(Kept(held, seen))
BY DEF Total, Kept, NothingPerceived

\* All that is perceived is kept by some senser, and when it is but a region, that
\* is kept by every senser.  An update that leaves a return clean found it so, and
\* finds the unit, no region, and the sensers keeping what they kept.
LEMMA SensedShown ==
    ASSUME NEW p \in Players, NEW return, IsReturn(return),
           NEW readings \in [DOMAIN units[p] -> JointReadings]
    PROVE  LET now == Sensed(return, p, readings)
           IN  /\ now.perception \subseteq Perceived(now)
               /\ "unit" \notin now.perception => \A i \in DOMAIN now.sensers :
                     "region" \in Total(now.sensers[i])
               /\ ~now.dirty =>
                     /\ ~return.dirty /\ "region" \notin now.perception
                     /\ \A i \in DOMAIN now.sensers :
                          i \in DOMAIN return.sensers
                          /\ now.sensers[i] = return.sensers[i]
<1> DEFINE seen == [i \in DOMAIN units[p] |-> Seen(units[p][i], readings[i])]
           sensers == {i \in DOMAIN seen : Total(seen[i]) # NothingPerceived}
           perception == UNION {Total(seen[i]) : i \in sensers}
           kept == [i \in sensers |-> Kept(Held(return, i), seen[i])]
           changed == \E i \in sensers : Changed(Held(return, i), seen[i])
           flag == \/ return.dirty
                   \/ changed
                   \/ "region" \in perception
           now == Sensed(return, p, readings)
<1>1. now = [return EXCEPT !.perception = perception, !.sensers = kept,
                           !.dirty = flag]
    BY Zenon DEF Sensed
<1>2. \A i \in sensers : Total(seen[i]) \subseteq Perceptions
    BY SeenReadings
<1> HIDE DEF seen
<1>3. \A i \in sensers : Total(seen[i]) \subseteq Total(kept[i])
    BY SeenIsKept
<1>4. perception \subseteq UNION {Total(kept[i]) : i \in DOMAIN kept}
    BY <1>3
<1>5. ASSUME "unit" \notin perception, NEW i \in sensers
      PROVE  "region" \in Total(kept[i])
  <2>1. PICK x \in Total(seen[i]) : x \in Perceptions
      BY <1>2 DEF NothingPerceived
  <2>2. x \in perception
      OBVIOUS
  <2>3. x = "region"
      BY <1>5, <2>1, <2>2 DEF Perceptions
  <2> QED
      BY <1>3, <2>3
<1>6. ASSUME ~changed, NEW i \in sensers
      PROVE  i \in DOMAIN return.sensers /\ kept[i] = return.sensers[i]
  <2>1. kept[i] = Held(return, i)
      BY <1>6 DEF Changed
  <2>2. Total(NoReturn) = NothingPerceived
      BY DEF Total, NoReturn, NothingPerceived
  <2>3. Total(seen[i]) # NothingPerceived /\ Total(seen[i]) \subseteq Total(kept[i])
      BY <1>3
  <2>4. Held(return, i) # NoReturn
      BY <2>1, <2>2, <2>3 DEF NothingPerceived
  <2> QED
      BY <2>1, <2>4 DEF Held
<1>7. flag \in BOOLEAN
    BY DEF IsReturn
<1>8. DOMAIN kept = sensers
    OBVIOUS
<1> HIDE DEF sensers, perception, kept, changed
<1>9. ~flag => ~return.dirty /\ ~changed /\ "region" \notin perception
    OBVIOUS
<1> HIDE DEF flag, now
<1>10. now.perception = perception /\ now.sensers = kept /\ now.dirty = flag
    BY <1>1, <1>7 DEF IsReturn
<1> QED
    BY <1>4, <1>5, <1>6, <1>8, <1>9, <1>10 DEF Perceived, now

\* The same of the return that a visit finds or makes
LEMMA ReturnNowShown ==
    ASSUME IInv, NEW u \in Units,
           NEW readings \in [DOMAIN units[checking] -> JointReadings],
           ~IsEmpty(ReturnNow(u, readings))
    PROVE  LET now == ReturnNow(u, readings)
               before == returns[checking][u]
           IN  /\ now.perception \subseteq Perceived(now)
               /\ "unit" \notin now.perception => \A i \in DOMAIN now.sensers :
                     "region" \in Total(now.sensers[i])
               /\ u \in DOMAIN returns[checking] /\ ~now.dirty =>
                     /\ ~before.dirty /\ now.perception = {"unit"}
                     /\ \A i \in DOMAIN now.sensers :
                          i \in DOMAIN before.sensers
                          /\ now.sensers[i] = before.sensers[i]
<1> DEFINE before == IF u \in DOMAIN returns[checking]
                     THEN returns[checking][u] ELSE NewReturn(checking)
           now == ReturnNow(u, readings)
<1>1. /\ checking \in Players /\ IsReturns(returns[checking])
      /\ nextReturnsId[checking] \in ReturnsIds
    BY DEF IInv, TypeOK
<1>2. /\ checking # 0 /\ owner[u] # checking
      /\ IsReturn(now) /\ now.perception # NothingPerceived
    BY ReturnNowFits
<1>3. IsReturn(before)
  <2>1. CASE u \in DOMAIN returns[checking]
      BY <1>1, <2>1 DEF IsReturns
  <2>2. CASE u \notin DOMAIN returns[checking]
    <3>1. IsIndex(EmptyIndex, UnitIds, [Sensors -> Readings])
        BY EmptyIndexFits
    <3>2. before = [id |-> nextReturnsId[checking], perception |-> {},
                    sensers |-> EmptyIndex, dirty |-> FALSE]
        BY <2>2 DEF NewReturn, NothingPerceived
    <3> HIDE DEF before
    <3> QED
        BY <1>1, <3>1, <3>2 DEF IsReturn
  <2> QED
      BY <2>1, <2>2
<1>4. now = Sensed(before, checking, readings)
    BY <1>2 DEF ReturnNow, Updated
<1>5. u \in DOMAIN returns[checking] => before = returns[checking][u]
    OBVIOUS
<1> HIDE DEF before, now
<1>6. /\ now.perception \subseteq Perceived(now)
      /\ "unit" \notin now.perception => \A i \in DOMAIN now.sensers :
            "region" \in Total(now.sensers[i])
      /\ ~now.dirty => /\ ~before.dirty /\ "region" \notin now.perception
                       /\ \A i \in DOMAIN now.sensers :
                            i \in DOMAIN before.sensers
                            /\ now.sensers[i] = before.sensers[i]
    BY <1>1, <1>3, <1>4, SensedShown
<1>7. ~now.dirty => now.perception = {"unit"}
    BY <1>2, <1>6 DEF IsReturn, Perceptions, NothingPerceived
<1> QED
    BY <1>5, <1>6, <1>7 DEF now

-----------------------------------------------------------------------------
(* The loops *)

\* A step of either loop that does right by each return of the player
LEMMA LoopShown ==
    ASSUME IInv, ReturnsShown, NEW p \in Players, p = checking, NEW new, NEW view,
           returns' = [returns EXCEPT ![p] = new],
           views' = [views EXCEPT ![p] = view],
           UNCHANGED <<phase, checking, status>>,
           phase \in {"destroyed", "visible"},
           \A w \in DOMAIN new :
              ShownWell(phase = "visible" /\ w \notin unchecked', w, new[w],
                        view.returns[new[w].id])
    PROVE  ReturnsShown'
<1>1. /\ returns'[p] = new /\ views'[p] = view
      /\ \A q \in Players \ {p} :
            returns'[q] = returns[q] /\ views'[q] = views[q]
    BY DEF IInv, TypeOK
<1>2. ~(p < checking)
    BY DEF Players
<1>3. ASSUME NEW q \in Players, NEW w \in DOMAIN returns'[q]
      PROVE  /\ ShownWell(Checked(q, w), w, returns[q][w],
                          views[q].returns[returns[q][w].id])'
             /\ FlaggedIfDirty(w, returns[q][w])'
  <2>1. CASE q = p
    <3>1. Checked(q, w)' <=> (phase = "visible" /\ w \notin unchecked')
        BY <1>2, <2>1 DEF Checked
    <3>2. ShownWell(phase = "visible" /\ w \notin unchecked', w, new[w],
                    view.returns[new[w].id])
        BY <1>1, <2>1
    <3> QED
        BY <1>1, <2>1, <3>1, <3>2
        DEF ShownWell, ShownRight, ToldOf, Report, Perceived, FlaggedIfDirty
  <2>2. CASE q # p
    <3>1. Checked(q, w)' <=> Checked(q, w)
        BY <2>2 DEF Checked
    <3>2. /\ w \in DOMAIN returns[q] /\ returns'[q] = returns[q]
          /\ views'[q] = views[q]
        BY <1>1, <2>2
    <3>3. ShownWell(Checked(q, w), w, returns[q][w],
                    views[q].returns[returns[q][w].id])
        BY <3>2 DEF ReturnsShown
    <3> QED
        BY <3>1, <3>2, <3>3
        DEF ShownWell, ShownRight, ToldOf, Report, Perceived, FlaggedIfDirty
  <2> QED
      BY <2>1, <2>2
<1> QED
    BY <1>3 DEF ReturnsShown

\* The rest, when a return is dropped, are shown as before.
LEMMA DropShown ==
    ASSUME IInv, ReturnsShown, NEW p \in Players, NEW u \in DOMAIN returns[p]
    PROVE  LET new == Without(returns[p], u)
               view == ReturnsRemoved(views[p], returns[p][u].id)
           IN  \A w \in DOMAIN new :
                 /\ w \in DOMAIN returns[p] \ {u}
                 /\ ShownWell(Checked(p, w), w, new[w], view.returns[new[w].id])
<1> DEFINE id == returns[p][u].id
           new == Without(returns[p], u)
           view == ReturnsRemoved(views[p], id)
<1>1. ReturnsFit(p, returns[p], nextReturnsId[p], views[p])
    BY AllReturnsFit
<1>2. id \in DOMAIN views[p].returns
    BY <1>1 DEF ReturnsFit
<1>3. view.returns = Without(views[p].returns, id)
    BY <1>1, <1>2, ReturnsRemovedView DEF ReturnsFit
<1> HIDE DEF view
<1>4. \A i \in DOMAIN views[p].returns \ {id} : view.returns[i] = views[p].returns[i]
    BY <1>3 DEF Without, Restrict
<1>5. /\ DOMAIN new = DOMAIN returns[p] \ {u}
      /\ \A w \in DOMAIN new : new[w] = returns[p][w]
    BY DEF Without, Restrict
<1> HIDE DEF new
<1>6. \A w \in DOMAIN new : view.returns[new[w].id] = views[p].returns[new[w].id]
    BY <1>1, <1>4, <1>5 DEF ReturnsFit
<1>7. \A w \in DOMAIN new :
        ShownWell(Checked(p, w), w, new[w], view.returns[new[w].id])
    BY <1>5, <1>6 DEF ReturnsShown
<1> QED
    BY <1>5, <1>7 DEF new, view

LEMMA DropDestroyedShown ==
    ASSUME IInv, ReturnsShown, NEW u \in Units, DropDestroyed(u)
    PROVE  ReturnsShown'
<1> DEFINE new == Without(returns[checking], u)
           view == ReturnsRemoved(views[checking], returns[checking][u].id)
<1>1. /\ phase = "destroyed" /\ u \in DOMAIN returns[checking]
      /\ returns' = [returns EXCEPT ![checking] = new]
      /\ views' = [views EXCEPT ![checking] = view]
      /\ UNCHANGED <<phase, checking, status>> /\ checking \in Players
    BY DEF DropDestroyed, tickVars, unitVars, IInv, TypeOK
<1>2. \A w \in DOMAIN new :
        ShownWell(Checked(checking, w), w, new[w], view.returns[new[w].id])
    BY <1>1, DropShown
<1>3. \A w : ~Checked(checking, w)
    BY <1>1 DEF Checked, Players
<1> HIDE DEF new, view
<1>4. \A w \in DOMAIN new :
        ShownWell(phase = "visible" /\ w \notin unchecked', w, new[w],
                  view.returns[new[w].id])
    BY <1>1, <1>2, <1>3 DEF ShownWell, ToldOf
<1> QED
    BY <1>1, <1>4, LoopShown

LEMMA LoseReturnShown ==
    ASSUME IInv, ReturnsShown, NEW u \in Units,
           NEW readings \in [DOMAIN units[checking] -> JointReadings],
           LoseReturn(u, readings)
    PROVE  ReturnsShown'
<1> DEFINE new == Without(returns[checking], u)
           view == ReturnsRemoved(views[checking], returns[checking][u].id)
           now == ReturnNow(u, readings)
<1>1. /\ Visit(u) /\ u \in DOMAIN returns[checking]
      /\ returns' = [returns EXCEPT ![checking] = new]
      /\ views' = [views EXCEPT ![checking] = ReturnsRemoved(@, now.id)]
    BY DEF LoseReturn
<1>2. /\ phase = "visible" /\ checking \in Players
      /\ unchecked' = unchecked \ {u}
      /\ UNCHANGED <<phase, checking, status>>
    BY <1>1, VisitFacts DEF unitVars
<1>3. now.id = returns[checking][u].id
    BY <1>1, <1>2, UpdatedId
<1>4. views' = [views EXCEPT ![checking] = view]
    BY <1>1, <1>3
<1>5. \A w \in DOMAIN new :
        /\ w \in DOMAIN returns[checking] \ {u}
        /\ ShownWell(Checked(checking, w), w, new[w], view.returns[new[w].id])
    BY <1>1, <1>2, DropShown
<1> HIDE DEF new, view
<1>6. ASSUME NEW w \in DOMAIN new
      PROVE  Checked(checking, w) <=> w \notin unchecked'
  <2>1. w # u /\ ~(checking < checking)
      BY <1>2, <1>5 DEF Players
  <2> QED
      BY <1>2, <2>1 DEF Checked
<1>7. \A w \in DOMAIN new :
        ShownWell(phase = "visible" /\ w \notin unchecked', w, new[w],
                  view.returns[new[w].id])
    BY <1>2, <1>5, <1>6 DEF ShownWell, ToldOf
<1> QED
    BY <1>1, <1>2, <1>4, <1>7, LoopShown

\* A return that the clients have just been told of is shown as it is, and they
\* are shown the others as before.
LEMMA TellShown ==
    ASSUME IInv, ReturnsShown, NEW u \in Units, Visit(u),
           NEW now, IsReturn(now), now.perception \subseteq Perceived(now),
           "unit" \notin now.perception => \A i \in DOMAIN now.sensers :
              "region" \in Total(now.sensers[i]),
           NEW view,
           view.returns =
              With(views[checking].returns, now.id, Fresh(ReportOn(u, now))),
           \A w \in DOMAIN returns[checking] \ {u} :
              returns[checking][w].id # now.id,
           returns' = [returns EXCEPT ![checking] =
                          With(returns[checking], u, Clean(now))],
           views' = [views EXCEPT ![checking] = view]
    PROVE  ReturnsShown'
<1> DEFINE clean == Clean(now)
           new == With(returns[checking], u, clean)
<1>1. /\ phase = "visible" /\ checking \in Players
      /\ unchecked' = unchecked \ {u}
      /\ UNCHANGED <<phase, checking, status>>
    BY VisitFacts DEF unitVars
<1>2. /\ view.returns[now.id] = Fresh(ReportOn(u, now))
      /\ \A i \in DOMAIN views[checking].returns \ {now.id} :
           view.returns[i] = views[checking].returns[i]
    BY DEF With
<1>3. /\ clean.id = now.id /\ clean.perception = now.perception
      /\ clean.sensers = now.sensers /\ ~clean.dirty
  <2>1. clean = [now EXCEPT !.dirty = FALSE]
      BY DEF Clean
  <2> HIDE DEF clean
  <2> QED
      BY <2>1 DEF IsReturn
<1> HIDE DEF clean
<1>4. /\ DOMAIN new = DOMAIN returns[checking] \cup {u}
      /\ new[u] = clean
      /\ \A w \in DOMAIN returns[checking] \ {u} : new[w] = returns[checking][w]
    BY DEF With
<1> HIDE DEF new
<1> DEFINE shown == view.returns[clean.id]
<1>5. /\ shown.unit = Report(clean.perception, status[u]).unit
      /\ shown.altered
    BY <1>2, <1>3 DEF Fresh, ReportOn
<1>6. ASSUME NEW w \in DOMAIN new
      PROVE  ShownWell(phase = "visible" /\ w \notin unchecked', w, new[w],
                       view.returns[new[w].id])
  <2>1. CASE w = u
    <3> HIDE DEF shown
    <3>1. new[w] = clean /\ w \notin unchecked'
        BY <1>1, <1>4, <2>1
    <3>2. clean.perception \subseteq Perceived(clean)
        BY <1>3 DEF Perceived
    <3>3. shown.unit = {} => "unit" \notin clean.perception
        BY <1>5 DEF Report
    <3>4. ShownRight(w, clean, shown)
        BY <1>3, <1>5, <2>1, <3>3 DEF ShownRight
    <3>5. ToldOf(phase = "visible" /\ w \notin unchecked', w, clean, shown)
        BY <1>1, <1>3, <1>5, <2>1, <3>1 DEF ToldOf
    <3> QED
        BY <3>1, <3>2, <3>4, <3>5 DEF ShownWell, shown
  <2>2. CASE w # u
    <3>1. w \in DOMAIN returns[checking] \ {u} /\ new[w] = returns[checking][w]
        BY <1>4, <2>2
    <3>2. new[w].id \in DOMAIN views[checking].returns \ {now.id}
      <4>1. ReturnsFit(checking, returns[checking], nextReturnsId[checking],
                       views[checking])
          BY <1>1, AllReturnsFit
      <4> QED
          BY <3>1, <4>1 DEF ReturnsFit
    <3>3. view.returns[new[w].id] = views[checking].returns[new[w].id]
        BY <1>2, <3>2
    <3>4. Checked(checking, w) <=> w \notin unchecked'
      <4>1. ~(checking < checking)
          BY <1>1 DEF Players
      <4> QED
          BY <1>1, <2>2, <4>1 DEF Checked
    <3>5. ShownWell(Checked(checking, w), w, new[w],
                    views[checking].returns[new[w].id])
        BY <1>1, <3>1 DEF ReturnsShown
    <3> QED
        BY <1>1, <3>3, <3>4, <3>5 DEF ShownWell, ToldOf
  <2> QED
      BY <2>1, <2>2
<1> QED
    BY <1>1, <1>6, LoopShown DEF new, clean

LEMMA SendReturnShown ==
    ASSUME IInv, ReturnsShown, NEW u \in Units,
           NEW readings \in [DOMAIN units[checking] -> JointReadings],
           SendReturn(u, readings)
    PROVE  ReturnsShown'
<1> DEFINE now == ReturnNow(u, readings)
           view == ReturnsAltered(views[checking], now.id, ReportOn(u, now))
<1>1. /\ Visit(u) /\ u \in DOMAIN returns[checking] /\ ~IsEmpty(now)
      /\ returns' = [returns EXCEPT ![checking][u] = Clean(now)]
      /\ views' = [views EXCEPT ![checking] = view]
    BY DEF SendReturn
<1>2. checking \in Players
    BY <1>1, VisitFacts
<1>3. /\ IsReturn(now) /\ now.id = returns[checking][u].id
      /\ now.perception \subseteq Perceived(now)
      /\ "unit" \notin now.perception => \A i \in DOMAIN now.sensers :
            "region" \in Total(now.sensers[i])
    BY <1>1, ReturnNowFits, ReturnNowShown
<1>4. ReturnsFit(checking, returns[checking], nextReturnsId[checking], views[checking])
    BY <1>2, AllReturnsFit
<1>5. /\ IsView(views[checking], UnitIds, ReturnsIds, Statuses)
      /\ now.id \in DOMAIN views[checking].returns
      /\ \A w \in DOMAIN returns[checking] \ {u} : returns[checking][w].id # now.id
      /\ IsReturns(returns[checking])
    BY <1>1, <1>3, <1>4 DEF ReturnsFit
<1>6. now.perception \in SUBSET Perceptions /\ status[u] \in Statuses
    BY <1>3 DEF IsReturn, IInv, TypeOK
<1>7. view.returns = With(views[checking].returns, now.id, Fresh(ReportOn(u, now)))
    BY <1>5, <1>6, ReturnsAlteredView DEF ReportOn
<1>8. returns' = [returns EXCEPT ![checking] = With(returns[checking], u, Clean(now))]
    BY <1>1, <1>5 DEF With, IsReturns
<1> HIDE DEF now, view
<1> QED
    BY <1>1, <1>3, <1>5, <1>7, <1>8, TellShown

LEMMA AddReturnShown ==
    ASSUME IInv, ReturnsShown, NEW u \in Units,
           NEW readings \in [DOMAIN units[checking] -> JointReadings],
           AddReturn(u, readings)
    PROVE  ReturnsShown'
<1> DEFINE now == ReturnNow(u, readings)
           view == ReturnsAdded(views[checking], now.id, ReportOn(u, now))
<1>1. /\ Visit(u) /\ u \notin DOMAIN returns[checking] /\ ~IsEmpty(now)
      /\ returns' = [returns EXCEPT ![checking] =
                        With(returns[checking], u, Clean(now))]
      /\ views' = [views EXCEPT ![checking] = view]
    BY DEF AddReturn
<1>2. checking \in Players
    BY <1>1, VisitFacts
<1>3. /\ IsReturn(now) /\ now.id = nextReturnsId[checking]
      /\ now.perception \subseteq Perceived(now)
      /\ "unit" \notin now.perception => \A i \in DOMAIN now.sensers :
            "region" \in Total(now.sensers[i])
    BY <1>1, ReturnNowFits, ReturnNowShown
<1>4. ReturnsFit(checking, returns[checking], nextReturnsId[checking], views[checking])
    BY <1>2, AllReturnsFit
<1>5. \A w \in DOMAIN returns[checking] : returns[checking][w].id # now.id
  <2>1. nextReturnsId[checking] \in Nat
      BY <1>4, BoundsAssumption DEF ReturnsFit, ReturnsIds
  <2> QED
      BY <1>3, <1>4, <2>1 DEF ReturnsFit
<1>6. /\ IsView(views[checking], UnitIds, ReturnsIds, Statuses)
      /\ now.id \notin DOMAIN views[checking].returns
      /\ now.id \in ReturnsIds
    BY <1>3, <1>4, <1>5 DEF ReturnsFit
<1>7. now.perception \in SUBSET Perceptions /\ status[u] \in Statuses
    BY <1>3 DEF IsReturn, IInv, TypeOK
<1>8. view.returns = With(views[checking].returns, now.id, Fresh(ReportOn(u, now)))
    BY <1>6, <1>7, ReturnsAddedView DEF ReportOn
<1> HIDE DEF now, view
<1> QED
    BY <1>1, <1>3, <1>5, <1>8, TellShown

LEMMA KeepReturnShown ==
    ASSUME IInv, ReturnsShown, NEW u \in Units,
           NEW readings \in [DOMAIN units[checking] -> JointReadings],
           KeepReturn(u, readings)
    PROVE  ReturnsShown'
<1> DEFINE now == ReturnNow(u, readings)
           before == returns[checking][u]
           new == With(returns[checking], u, now)
           view == views[checking]
           shown == view.returns[now.id]
<1>1. /\ Visit(u) /\ u \in DOMAIN returns[checking] /\ ~IsEmpty(now) /\ ~now.dirty
      /\ returns' = [returns EXCEPT ![checking][u] = now]
      /\ UNCHANGED views
    BY DEF KeepReturn
<1>2. /\ phase = "visible" /\ checking \in Players
      /\ u \in unchecked /\ unchecked' = unchecked \ {u}
      /\ UNCHANGED <<phase, checking, status>>
      /\ views' = [views EXCEPT ![checking] = view]
    BY <1>1, VisitFacts DEF unitVars
<1>3. /\ now.id = before.id
      /\ now.perception \subseteq Perceived(now)
      /\ now.perception = {"unit"}
      /\ ~before.dirty
      /\ \A i \in DOMAIN now.sensers : i \in DOMAIN before.sensers
                                       /\ now.sensers[i] = before.sensers[i]
    BY <1>1, ReturnNowFits, ReturnNowShown
<1>4. IsReturns(returns[checking])
    BY <1>2 DEF IInv, TypeOK
<1>5. returns' = [returns EXCEPT ![checking] = new]
    BY <1>1, <1>4 DEF With, IsReturns
<1>6. /\ DOMAIN new = DOMAIN returns[checking] /\ new[u] = now
      /\ \A w \in DOMAIN returns[checking] \ {u} : new[w] = returns[checking][w]
    BY <1>1 DEF With
<1>7. ~(checking < checking)
    BY <1>2 DEF Players
<1>8. /\ ShownRight(u, before, shown)
      /\ ToldOf(Checked(checking, u), u, before, shown)
    BY <1>1, <1>2, <1>3 DEF ReturnsShown, ShownWell
<1> HIDE DEF now, new, before, shown
<1>9. ~shown.altered
    BY <1>2, <1>7, <1>8 DEF ToldOf, Checked
<1>10. ShownRight(u, now, shown)
  <2>1. CASE shown.unit = {}
      BY <1>3, <1>8, <2>1 DEF ShownRight
  <2>2. CASE shown.unit # {}
    <3>1. shown.unit = {status[u]}
        BY <1>3, <1>8, <2>2 DEF ShownRight, Report
    <3> QED
        BY <1>3, <2>2, <3>1 DEF ShownRight, Report
  <2> QED
      BY <2>1, <2>2
<1>11. ASSUME NEW w \in DOMAIN new
       PROVE  ShownWell(phase = "visible" /\ w \notin unchecked', w, new[w],
                        view.returns[new[w].id])
  <2>1. CASE w = u
    <3>1. ToldOf(phase = "visible" /\ w \notin unchecked', w, now, shown)
        BY <1>1, <1>3, <1>9 DEF ToldOf, now
    <3> QED
        BY <1>3, <1>6, <1>10, <2>1, <3>1 DEF ShownWell, shown
  <2>2. CASE w # u
    <3>1. w \in DOMAIN returns[checking] /\ new[w] = returns[checking][w]
        BY <1>6, <2>2
    <3>2. Checked(checking, w) <=> w \notin unchecked'
        BY <1>2, <1>7, <2>2 DEF Checked
    <3>3. ShownWell(Checked(checking, w), w, new[w], view.returns[new[w].id])
        BY <1>2, <3>1 DEF ReturnsShown
    <3> QED
        BY <1>2, <3>2, <3>3 DEF ShownWell, ToldOf
  <2> QED
      BY <2>1, <2>2
<1> HIDE DEF view
<1> QED
    BY <1>2, <1>5, <1>11, LoopShown

-----------------------------------------------------------------------------
(* The theorems *)

LEMMA NextShown == IInv /\ ReturnsShown /\ [Next]_vars => ReturnsShown'
<1> SUFFICES ASSUME IInv, ReturnsShown, [Next]_vars PROVE ReturnsShown'
    OBVIOUS
<1>1. CASE Act
  <2>1. ASSUME NEW u \in Units, NEW p \in Players,
               NEW on \in SUBSET (Sensors \cap Switched), Spawn(u, p, on)
        PROVE  ReturnsShown'
      BY <2>1, SpawnShown
  <2>2. ASSUME NEW u \in Units, NEW s \in Sensors \cap Switched,
               NEW on \in BOOLEAN, SwitchSensor(u, s, on)
        PROVE  ReturnsShown'
      BY <2>2, SwitchSensorShown
  <2>3. ASSUME NEW u \in Units, NEW p \in Players, ChangeOwner(u, p)
        PROVE  ReturnsShown'
      BY <2>3, ChangeOwnerShown
  <2>4. ASSUME NEW u \in Units, RemoveUnit(u)
        PROVE  ReturnsShown'
      BY <2>4, RemoveUnitShown
  <2> QED
      BY <1>1, <2>1, <2>2, <2>3, <2>4 DEF Act
<1>2. CASE CheckUnit
  <2> PICK u \in unchecked,
           readings \in [DOMAIN units[checking] -> JointReadings] :
        \/ LoseReturn(u, readings)
        \/ SendReturn(u, readings)
        \/ KeepReturn(u, readings)
        \/ AddReturn(u, readings)
        \/ SeeNothing(u, readings)
      BY <1>2 DEF CheckUnit
  <2>1. u \in Units
      BY DEF IInv, TypeOK
  <2>2. CASE LoseReturn(u, readings)
      BY <2>1, <2>2, LoseReturnShown
  <2>3. CASE SendReturn(u, readings)
      BY <2>1, <2>3, SendReturnShown
  <2>4. CASE KeepReturn(u, readings)
      BY <2>1, <2>4, KeepReturnShown
  <2>5. CASE AddReturn(u, readings)
      BY <2>1, <2>5, AddReturnShown
  <2>6. CASE SeeNothing(u, readings)
      BY <2>6, SeeNothingShown
  <2> QED
      BY <2>2, <2>3, <2>4, <2>5, <2>6
<1>3. CASE CheckSensorReturns
  <2>1. ASSUME NEW u \in Units, DropDestroyed(u)
        PROVE  ReturnsShown'
      BY <2>1, DropDestroyedShown
  <2> QED
      BY <1>2, <1>3, <2>1, BeginChecksShown, DestroyedDoneShown, NextPlayerShown,
         ChecksDoneShown
      DEF CheckSensorReturns
<1>4. CASE EndOfTick
  <2>1. ASSUME NEW u \in Units, ClearDirty(u)
        PROVE  ReturnsShown'
      BY <2>1, ClearDirtyShown
  <2> QED
      BY <1>4, <2>1, TickEndsShown, NextTickShown DEF EndOfTick
<1>5. CASE UNCHANGED vars
    BY <1>5, StutterShown
<1> QED
    BY <1>1, <1>3, <1>4, <1>5 DEF Next

\* The clients have been told, of each return, what the checks so far have found.
THEOREM ShownHolds == Spec => [](IInv /\ ReturnsShown)
<1>1. Init => IInv /\ ReturnsShown
    BY InitIInv, InitShown
<1>2. IInv /\ ReturnsShown /\ [Next]_vars => (IInv /\ ReturnsShown)'
    BY NextIInv, NextShown
<1> QED
    BY <1>1, <1>2, PTL DEF Spec

\* After a tick, a return that shows no unit, though the unit is perceived or no
\* update told of it, was overlooked.
LEMMA UntoldIsOverlooked ==
    ASSUME IInv, ReturnsShown, phase = "ended",
           NEW p \in Players, NEW u \in DOMAIN returns[p],
           views[p].returns[returns[p][u].id].unit = {},
           \/ "unit" \in returns[p][u].perception
           \/ ~views[p].returns[returns[p][u].id].altered
    PROVE  Overlooked(p, u)
<1> DEFINE return == returns[p][u]
           shown == views[p].returns[return.id]
<1>1. /\ ShownRight(u, return, shown) /\ ToldOf(Checked(p, u), u, return, shown)
      /\ return.perception \subseteq Perceived(return) /\ Checked(p, u)
    BY DEF ReturnsShown, ShownWell, Checked
<1>2. /\ IsReturn(return) /\ return.perception # NothingPerceived
    BY DEF IInv, TypeOK, IsReturns, PlayersChecked, SensesOthers, ReturnsTold,
           EmptyMeansGone
<1>3. shown.unit = {} /\ ("unit" \in return.perception \/ ~shown.altered)
    OBVIOUS
<1> HIDE DEF return, shown
<1>4. ~shown.altered
    BY <1>1, <1>3 DEF ToldOf, Report
<1>5. return.perception = {"unit"}
    BY <1>1, <1>2, <1>4 DEF ToldOf, IsReturn, Perceptions, NothingPerceived
<1>6. PICK i \in DOMAIN return.sensers : "unit" \in Total(return.sensers[i])
    BY <1>1, <1>5 DEF Perceived
<1>7. "region" \in Total(return.sensers[i])
    BY <1>1, <1>3 DEF ShownRight, ToldOf
<1>8. Total(return.sensers[i]) \subseteq Perceptions
  <2>1. return.sensers[i] \in [Sensors -> Readings]
      BY <1>2 DEF IsReturn, IsIndex
  <2> QED
      BY <2>1 DEF Total, Readings, Perceptions, NothingPerceived
<1>9. OutOfDate(return)
    BY <1>5, <1>6, <1>7, <1>8 DEF OutOfDate, Perceptions
<1> QED
    BY <1>3, <1>4, <1>9 DEF Overlooked, Extrapolable, return, shown

LEMMA ShownUnlessOverlooked ==
    ASSUME IInv, ReturnsShown PROVE WrongOnlyIfOverlooked
<1> SUFFICES ASSUME phase = "ended", NEW p \in Players, NEW u \in DOMAIN returns[p],
                    views[p].returns[returns[p][u].id].unit #
                       Report(returns[p][u].perception, status[u]).unit
             PROVE  Overlooked(p, u)
    BY DEF WrongOnlyIfOverlooked
<1> DEFINE return == returns[p][u]
           shown == views[p].returns[return.id]
<1>1. ShownRight(u, return, shown) /\ ~return.dirty
    BY DEF ReturnsShown, ShownWell, ToldOf, Checked
<1>2. shown.unit = {} /\ "unit" \in return.perception
    BY <1>1 DEF ShownRight, Report
<1> QED
    BY <1>2, UntoldIsOverlooked

\* Whatever sensors units have, a client is shown the wrong thing of a return after
\* a tick only if the return was overlooked: what it is shown otherwise is what
\* its player perceives, as it is.
THEOREM NeverQuietlyWrong == Spec => []WrongOnlyIfOverlooked
<1>1. IInv /\ ReturnsShown => WrongOnlyIfOverlooked
    BY ShownUnlessOverlooked
<1> QED
    BY <1>1, ShownHolds, PTL

-----------------------------------------------------------------------------
(* Which steps a client may die in *)

\* No client dies in this step.
LivesOn == \A p \in Players : views'[p].aborted = views[p].aborted

\* No update of a client's units kills it.
LEMMA ActLivesOn == IInv /\ Act => LivesOn
<1> SUFFICES ASSUME IInv, Act PROVE LivesOn
    OBVIOUS
<1>1. ASSUME NEW u \in Units, NEW p \in Players,
             NEW on \in SUBSET (Sensors \cap Switched), Spawn(u, p, on)
      PROVE  LivesOn
  <2>1. /\ u \notin alive /\ nextUnitId[p] < MaxUnitId
        /\ alive' = alive \cup {u} /\ owner' = [owner EXCEPT ![u] = p]
        /\ status' = [status EXCEPT ![u] = on] /\ dirty' = dirty
        /\ AddUnit(u, p, on, units, views)
      BY <1>1 DEF Spawn
  <2>2. /\ TypeOK /\ alive \in SUBSET Units /\ dirty' = dirty \ {u} /\ on \in Statuses
        /\ UnitsFit(alive, units, views)
      BY <2>1, AllUnitsFit DEF IInv, TypeOK, Statuses
  <2> QED
      BY <2>1, <2>2, AddUnitFits DEF LivesOn
<1>2. ASSUME NEW u \in Units, NEW s \in Sensors \cap Switched,
             NEW on \in BOOLEAN, SwitchSensor(u, s, on)
      PROVE  LivesOn
    BY <1>2 DEF SwitchSensor, LivesOn
<1>3. ASSUME NEW u \in Units, NEW p \in Players, ChangeOwner(u, p)
      PROVE  LivesOn
  <2> DEFINE left == UnitsWithout(u)
             known == ToldOfLoss(u)
  <2>1. /\ u \in alive /\ nextUnitId[p] < MaxUnitId /\ TypeOK
        /\ dirty' = dirty \ {u} /\ owner' = [owner EXCEPT ![u] = p]
        /\ AddUnit(u, p, status[u], left, known)
        /\ UNCHANGED <<alive, status>>
      BY <1>3 DEF ChangeOwner, IInv
  <2>2. UnitsFit(alive \ {u}, left, known)
      BY <2>1, OthersFit
  <2> HIDE DEF left, known
  <2>3. /\ alive \ {u} \in SUBSET Units /\ u \in Units \ (alive \ {u})
        /\ status[u] \in Statuses /\ alive' = (alive \ {u}) \cup {u}
        /\ status' = [status EXCEPT ![u] = status[u]]
      BY <2>1 DEF TypeOK
  <2> QED
      BY <2>1, <2>2, <2>3, AddUnitFits DEF LivesOn
<1>4. ASSUME NEW u \in Units, RemoveUnit(u)
      PROVE  LivesOn
  <2>1. u \in alive /\ views' = ToldOfLoss(u)
      BY <1>4 DEF RemoveUnit
  <2>2. UnitsFit(alive \ {u}, UnitsWithout(u), ToldOfLoss(u))
      BY <2>1, OthersFit
  <2> QED
      BY <2>1, <2>2 DEF UnitsFit, LivesOn
<1> QED
    BY <1>1, <1>2, <1>3, <1>4 DEF Act

\* Nor does one of its returns.
LEMMA CheckingLivesOn == IInv /\ CheckSensorReturns => LivesOn
<1> SUFFICES ASSUME IInv, CheckSensorReturns PROVE LivesOn
    OBVIOUS
<1>1. /\ checking \in Players /\ views = [p \in Players |-> views[p]]
      /\ ReturnsFit(checking, returns[checking], nextReturnsId[checking],
                    views[checking])
    BY AllReturnsFit DEF IInv, TypeOK
<1> DEFINE view == views[checking]
<1>2. IsView(view, UnitIds, ReturnsIds, Statuses)
    BY <1>1 DEF ReturnsFit
<1>3. ASSUME NEW after, after.aborted = view.aborted,
             views' = [views EXCEPT ![checking] = after]
      PROVE  LivesOn
    BY <1>1, <1>3 DEF LivesOn
<1>4. ASSUME NEW u \in DOMAIN returns[checking],
             views' = [views EXCEPT ![checking] =
                          ReturnsRemoved(@, returns[checking][u].id)]
      PROVE  LivesOn
  <2>1. returns[checking][u].id \in DOMAIN view.returns
      BY <1>1 DEF ReturnsFit
  <2>2. ReturnsRemoved(view, returns[checking][u].id).aborted = view.aborted
      BY <1>2, <2>1, ReturnsRemovedView
  <2> QED
      BY <1>3, <1>4, <2>2
<1>5. CASE CheckUnit
  <2> PICK u \in unchecked,
           readings \in [DOMAIN units[checking] -> JointReadings] :
        \/ LoseReturn(u, readings)
        \/ SendReturn(u, readings)
        \/ KeepReturn(u, readings)
        \/ AddReturn(u, readings)
        \/ SeeNothing(u, readings)
      BY <1>5 DEF CheckUnit
  <2> DEFINE now == ReturnNow(u, readings)
  <2>1. u \in Units
      BY DEF IInv, TypeOK
  <2>2. CASE LoseReturn(u, readings)
    <3>1. /\ u \in DOMAIN returns[checking]
          /\ views' = [views EXCEPT ![checking] = ReturnsRemoved(@, now.id)]
        BY <2>2 DEF LoseReturn
    <3>2. now.id = returns[checking][u].id
        BY <1>1, <2>1, <3>1, UpdatedId
    <3> QED
        BY <1>4, <3>1, <3>2
  <2>3. CASE SendReturn(u, readings)
    <3>1. /\ u \in DOMAIN returns[checking] /\ ~IsEmpty(now)
          /\ views' = [views EXCEPT ![checking] =
                          ReturnsAltered(@, now.id, ReportOn(u, now))]
        BY <2>3 DEF SendReturn
    <3>2. IsReturn(now) /\ now.id \in DOMAIN view.returns
        BY <1>1, <2>1, <3>1, ReturnNowFits DEF ReturnsFit
    <3>3. now.perception \in SUBSET Perceptions /\ status[u] \in Statuses
        BY <2>1, <3>2 DEF IsReturn, IInv, TypeOK
    <3> HIDE DEF now
    <3>4. ReturnsAltered(view, now.id, ReportOn(u, now)).aborted = view.aborted
        BY <1>2, <3>2, <3>3, ReturnsAlteredView DEF ReportOn
    <3> QED
        BY <1>3, <3>1, <3>4
  <2>4. CASE AddReturn(u, readings)
    <3>1. /\ u \notin DOMAIN returns[checking] /\ ~IsEmpty(now)
          /\ views' = [views EXCEPT ![checking] =
                          ReturnsAdded(@, now.id, ReportOn(u, now))]
        BY <2>4 DEF AddReturn
    <3>2. IsReturn(now) /\ now.id = nextReturnsId[checking]
        BY <2>1, <3>1, ReturnNowFits
    <3>3. now.id \in ReturnsIds /\ now.id \notin DOMAIN view.returns
      <4>1. nextReturnsId[checking] \in Nat
          BY <1>1, BoundsAssumption DEF ReturnsFit, ReturnsIds
      <4> QED
          BY <1>1, <3>2, <4>1 DEF ReturnsFit
    <3>4. now.perception \in SUBSET Perceptions /\ status[u] \in Statuses
        BY <2>1, <3>2 DEF IsReturn, IInv, TypeOK
    <3> HIDE DEF now
    <3>5. ReturnsAdded(view, now.id, ReportOn(u, now)).aborted = view.aborted
        BY <1>2, <3>3, <3>4, ReturnsAddedView DEF ReportOn
    <3> QED
        BY <1>3, <3>1, <3>5
  <2>5. CASE KeepReturn(u, readings) \/ SeeNothing(u, readings)
      BY <2>5 DEF KeepReturn, SeeNothing, LivesOn
  <2> QED
      BY <2>2, <2>3, <2>4, <2>5
<1>6. ASSUME NEW u \in Units, DropDestroyed(u)
      PROVE  LivesOn
    BY <1>4, <1>6 DEF DropDestroyed
<1>7. CASE BeginChecks \/ DestroyedDone \/ NextPlayer \/ ChecksDone
    BY <1>7 DEF BeginChecks, DestroyedDone, NextPlayer, ChecksDone, LivesOn
<1> QED
    BY <1>5, <1>6, <1>7 DEF CheckSensorReturns

\* A client that the beginning of a tick kills had a return overlooked.
LEMMA NextTickKills ==
    ASSUME IInv, ReturnsShown, NextTick, NEW p \in Players, views'[p].aborted
    PROVE  \/ views[p].aborted
           \/ phase = "ended" /\ \E u \in DOMAIN returns[p] : Overlooked(p, u)
<1> DEFINE view == views[p]
           known == [i \in DOMAIN view.returns |->
                        [view.returns[i] EXCEPT !.altered = FALSE]]
           ends == view.aborted \/ \E i \in DOMAIN view.returns :
                                     ~Extrapolable(view.returns[i])
           now == EndTick(view)
<1>1. phase = "ended" /\ views' = [q \in Players |-> EndTick(views[q])]
    BY DEF NextTick
<1>2. /\ IsView(view, UnitIds, ReturnsIds, Statuses)
      /\ DOMAIN view.returns = {returns[p][u].id : u \in DOMAIN returns[p]}
    BY DEF IInv, TypeOK, ReturnsTold, ReturnIds
<1>3. now = [view EXCEPT !.aborted = ends, !.returns = known]
    BY Zenon DEF EndTick
<1>4. views'[p] = now
    BY <1>1
<1>5. ends \in BOOLEAN
    BY <1>2 DEF IsView
<1> HIDE DEF known, ends, now
<1>6. now.aborted = ends
    BY <1>2, <1>3 DEF IsView
<1>7. ends
    BY <1>4, <1>5, <1>6
<1>8. CASE \E i \in DOMAIN view.returns : ~Extrapolable(view.returns[i])
  <2>1. PICK u \in DOMAIN returns[p] : ~Extrapolable(view.returns[returns[p][u].id])
      BY <1>2, <1>8
  <2>2. Overlooked(p, u)
      BY <1>1, <2>1, UntoldIsOverlooked DEF Extrapolable
  <2> QED
      BY <1>1, <2>2
<1> QED
    BY <1>7, <1>8 DEF ends

\* Whatever sensors units have, a client dies only at the beginning of a tick, and
\* only of a return of its player that was overlooked in the one before.
THEOREM NoOtherDeath == Spec => DiesOnlyOfOverlooked
<1>1. ASSUME IInv, ReturnsShown, [Next]_vars, NEW p \in Players, views'[p].aborted
      PROVE  \/ views[p].aborted
             \/ phase = "ended" /\ \E u \in DOMAIN returns[p] : Overlooked(p, u)
  <2>1. CASE NextTick
      BY <1>1, <2>1, NextTickKills
  <2>2. CASE LivesOn
      BY <1>1, <2>2 DEF LivesOn
  <2>3. ASSUME NEW u \in Units, ClearDirty(u)
        PROVE  LivesOn
    <3>1. u \in alive /\ views' = ToldOfChange(u)
        BY <1>1, <2>3 DEF ClearDirty, IInv, TypeOK
    <3> QED
        BY <1>1, <3>1, ToldOfChangeViews DEF LivesOn
  <2>4. TickEnds \/ UNCHANGED vars => LivesOn
      BY DEF TickEnds, vars, LivesOn
  <2> QED
      BY <1>1, <2>1, <2>2, <2>3, <2>4, ActLivesOn, CheckingLivesOn DEF Next, EndOfTick
<1>2. IInv /\ ReturnsShown /\ [Next]_vars =>
        [\A p \in Players : views'[p].aborted =>
            \/ views[p].aborted
            \/ phase = "ended" /\ \E u \in DOMAIN returns[p] : Overlooked(p, u)]_vars
    BY <1>1
<1> QED
    BY <1>2, ShownHolds, PTL DEF Spec, DiesOnlyOfOverlooked

-----------------------------------------------------------------------------
(* One kind of sensor *)

\* With one kind of sensor no senser keeps both perceptions, so nothing is
\* overlooked: what clients are shown is exact, and none of them dies.
COROLLARY OneSensorSuffices ==
    ASSUME \A s, t \in Sensors : s = t
    PROVE  Spec => [](ShownAsPerceived /\ ClientExtrapolates)
<1>1. ASSUME IInv, NEW p \in Players, NEW u \in DOMAIN returns[p]
      PROVE  ~Overlooked(p, u)
  <2> SUFFICES ASSUME NEW i \in DOMAIN returns[p][u].sensers
               PROVE  Total(returns[p][u].sensers[i]) # Perceptions
      BY DEF Overlooked, OutOfDate
  <2> DEFINE kept == returns[p][u].sensers[i]
  <2>1. IsReturn(returns[p][u])
      BY <1>1 DEF IInv, TypeOK, IsReturns
  <2>2. kept \in [Sensors -> Readings]
      BY <2>1 DEF IsReturn, IsIndex
  <2> HIDE DEF kept
  <2>3. SUFFICES ASSUME NEW s \in Sensors, "unit" \in kept[s],
                        NEW t \in Sensors, "region" \in kept[t]
                 PROVE  FALSE
      BY DEF Total, Perceptions, kept
  <2> QED
      BY <2>2, <2>3 DEF Readings, NothingPerceived
<1>2. IInv /\ WrongOnlyIfOverlooked => ShownAsPerceived
    BY <1>1 DEF WrongOnlyIfOverlooked, ShownAsPerceived
<1>3. Init => ClientExtrapolates
    BY DEF Init, ClientExtrapolates, EmptyView
<1>4. IInv /\ ClientExtrapolates
      /\ [\A p \in Players : views'[p].aborted =>
             \/ views[p].aborted
             \/ phase = "ended" /\ \E u \in DOMAIN returns[p] : Overlooked(p, u)]_vars
      => ClientExtrapolates'
    BY <1>1 DEF ClientExtrapolates, vars
<1> QED
    BY <1>2, <1>3, <1>4, IInvHolds, NeverQuietlyWrong, NoOtherDeath, PTL
    DEF Spec, DiesOnlyOfOverlooked

=============================================================================
