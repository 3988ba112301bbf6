------------------------ MODULE SensorReturnsProofs ------------------------
(***************************************************************************)
(* Theorems about SensorReturns, for any units, players and sensors, any   *)
(* readings and any bounds.                                                *)
(***************************************************************************)
EXTENDS SensorReturns, TLAPS

\* The ids that addUnit gives are larger than those in use, the clients of a
\* player know its units, and those that are not dirty as they are.
UnitsTold ==
    /\ \A p \in Players : \A i \in DOMAIN units[p] : i < nextUnitId[p]
    /\ \A p \in Players : DOMAIN views[p].units = DOMAIN units[p]
    /\ \A u \in alive \ dirty : views[owner[u]].units[unitId[u]] = status[u]

\* The same for sensor returns, which player 0 has none of.
ReturnIds(p) == {returns[p][u].id : u \in DOMAIN returns[p]}
ReturnsTold ==
    /\ DOMAIN returns[0] = {}
    /\ \A p \in Players : \A u \in DOMAIN returns[p] :
         /\ returns[p][u].id < nextReturnsId[p]
         /\ IsEmpty(returns[p][u]) <=> returns[p][u].perception = NothingPerceived
         /\ \A w \in DOMAIN returns[p] : returns[p][u].id = returns[p][w].id => u = w
    /\ \A p \in Players : DOMAIN views[p].returns = ReturnIds(p)

\* A player whose returns have been checked senses only living units of others.
SensesOthers(p, u) == u \in alive /\ owner[u] # p
PlayersChecked ==
    /\ \A p \in Players :
         \/ phase \in {"destroyed", "visible"} /\ p < checking
         \/ phase \in {"clearing", "ended"}
         => \A u \in DOMAIN returns[p] : SensesOthers(p, u)
    /\ phase = "visible" =>
         /\ unchecked \subseteq alive
         /\ \A u \in DOMAIN returns[checking] :
              u \in alive /\ (u \in unchecked \/ SensesOthers(checking, u))
    /\ phase = "ended" => dirty = {}

IInv ==
    /\ TypeOK
    /\ OwnersAgree
    /\ UnitsTold
    /\ EmptyMeansGone
    /\ ReturnsTold
    /\ PlayersChecked
    /\ ServerNeverFails
    /\ ClientNeverMistaken

-----------------------------------------------------------------------------
(* Indices and views *)

LEMMA EmptyIndexFits ==
    ASSUME NEW ids, NEW values
    PROVE  IsIndex(EmptyIndex, ids, values) /\ DOMAIN EmptyIndex = {}
BY DEF IsIndex, EmptyIndex

LEMMA WithIndex ==
    ASSUME NEW ids, NEW values, NEW index, IsIndex(index, ids, values),
           NEW id \in ids, NEW value \in values
    PROVE  IsIndex(With(index, id, value), ids, values)
BY DEF IsIndex, With

LEMMA WithoutIndex ==
    ASSUME NEW ids, NEW values, NEW index, IsIndex(index, ids, values), NEW id
    PROVE  IsIndex(Without(index, id), ids, values)
BY DEF IsIndex, Without, Restrict

LEMMA ReportType ==
    ASSUME NEW statuses, NEW perception \in SUBSET Perceptions, NEW status0 \in statuses
    PROVE  Fresh(Report(perception, status0)) \in Reports(statuses)
BY DEF Fresh, Report, Reports

\* What each update does to a view, if it is one the client can make sense of
LEMMA UnitAddedView ==
    ASSUME NEW A, NEW B, NEW S, NEW view, IsView(view, A, B, S),
           NEW id \in A, NEW on \in S, id \notin DOMAIN view.units
    PROVE  /\ IsView(UnitAdded(view, id, on), A, B, S)
           /\ UnitAdded(view, id, on).units = With(view.units, id, on)
           /\ UnitAdded(view, id, on).returns = view.returns
           /\ UnitAdded(view, id, on).mistaken = view.mistaken
           /\ UnitAdded(view, id, on).aborted = view.aborted
<1> DEFINE wrong == view.mistaken \/ id \in DOMAIN view.units
           known == With(view.units, id, on)
<1>1. UnitAdded(view, id, on) = [view EXCEPT !.mistaken = wrong, !.units = known]
    BY Zenon DEF UnitAdded
<1>2. wrong = view.mistaken
    BY DEF IsView
<1>3. IsIndex(known, A, S)
    BY WithIndex DEF IsView
<1> HIDE DEF wrong, known
<1> QED
    BY <1>1, <1>2, <1>3 DEF IsView, known

LEMMA UnitRemovedView ==
    ASSUME NEW A, NEW B, NEW S, NEW view, IsView(view, A, B, S),
           NEW id, id \in DOMAIN view.units
    PROVE  /\ IsView(UnitRemoved(view, id), A, B, S)
           /\ UnitRemoved(view, id).units = Without(view.units, id)
           /\ UnitRemoved(view, id).returns = view.returns
           /\ UnitRemoved(view, id).mistaken = view.mistaken
           /\ UnitRemoved(view, id).aborted = view.aborted
<1> DEFINE wrong == view.mistaken \/ id \notin DOMAIN view.units
           known == Without(view.units, id)
<1>1. UnitRemoved(view, id) = [view EXCEPT !.mistaken = wrong, !.units = known]
    BY Zenon DEF UnitRemoved
<1>2. wrong = view.mistaken
    BY DEF IsView
<1>3. IsIndex(known, A, S)
    BY WithoutIndex DEF IsView
<1> HIDE DEF wrong, known
<1> QED
    BY <1>1, <1>2, <1>3 DEF IsView, known

LEMMA UnitAlteredView ==
    ASSUME NEW A, NEW B, NEW S, NEW view, IsView(view, A, B, S),
           NEW id \in A, NEW on \in S, id \in DOMAIN view.units
    PROVE  /\ IsView(UnitAltered(view, id, on), A, B, S)
           /\ UnitAltered(view, id, on).units = With(view.units, id, on)
           /\ UnitAltered(view, id, on).returns = view.returns
           /\ UnitAltered(view, id, on).mistaken = view.mistaken
           /\ UnitAltered(view, id, on).aborted = view.aborted
BY WithIndex DEF IsView, UnitAltered

LEMMA ReturnsAddedView ==
    ASSUME NEW A, NEW B, NEW S, NEW view, IsView(view, A, B, S),
           NEW id \in B, NEW perception \in SUBSET Perceptions, NEW on \in S,
           id \notin DOMAIN view.returns
    PROVE  LET report == Report(perception, on)
           IN  /\ IsView(ReturnsAdded(view, id, report), A, B, S)
               /\ ReturnsAdded(view, id, report).units = view.units
               /\ ReturnsAdded(view, id, report).returns =
                    With(view.returns, id, Fresh(report))
               /\ ReturnsAdded(view, id, report).mistaken = view.mistaken
               /\ ReturnsAdded(view, id, report).aborted = view.aborted
<1> DEFINE report == Report(perception, on)
<1>1. Fresh(report) \in Reports(S)
    BY ReportType
<1>2. IsIndex(With(view.returns, id, Fresh(report)), B, Reports(S))
    BY <1>1, WithIndex DEF IsView
<1> DEFINE wrong == view.mistaken \/ id \in DOMAIN view.returns
           known == With(view.returns, id, Fresh(report))
<1>3. ReturnsAdded(view, id, report) =
        [view EXCEPT !.mistaken = wrong, !.returns = known]
    BY Zenon DEF ReturnsAdded
<1>4. wrong = view.mistaken
    BY DEF IsView
<1> HIDE DEF report, wrong, known
<1> QED
    BY <1>2, <1>3, <1>4 DEF IsView, report, known

LEMMA ReturnsRemovedView ==
    ASSUME NEW A, NEW B, NEW S, NEW view, IsView(view, A, B, S),
           NEW id, id \in DOMAIN view.returns
    PROVE  /\ IsView(ReturnsRemoved(view, id), A, B, S)
           /\ ReturnsRemoved(view, id).units = view.units
           /\ ReturnsRemoved(view, id).returns = Without(view.returns, id)
           /\ ReturnsRemoved(view, id).mistaken = view.mistaken
           /\ ReturnsRemoved(view, id).aborted = view.aborted
<1> DEFINE wrong == view.mistaken \/ id \notin DOMAIN view.returns
           known == Without(view.returns, id)
<1>1. ReturnsRemoved(view, id) =
        [view EXCEPT !.mistaken = wrong, !.returns = known]
    BY Zenon DEF ReturnsRemoved
<1>2. wrong = view.mistaken
    BY DEF IsView
<1>3. IsIndex(known, B, Reports(S))
    BY WithoutIndex DEF IsView
<1> HIDE DEF wrong, known
<1> QED
    BY <1>1, <1>2, <1>3 DEF IsView, known

LEMMA ReturnsAlteredView ==
    ASSUME NEW A, NEW B, NEW S, NEW view, IsView(view, A, B, S),
           NEW id, NEW perception \in SUBSET Perceptions, NEW on \in S,
           id \in DOMAIN view.returns
    PROVE  LET report == Report(perception, on)
           IN  /\ IsView(ReturnsAltered(view, id, report), A, B, S)
               /\ ReturnsAltered(view, id, report).units = view.units
               /\ ReturnsAltered(view, id, report).returns =
                    With(view.returns, id, Fresh(report))
               /\ ReturnsAltered(view, id, report).mistaken = view.mistaken
               /\ ReturnsAltered(view, id, report).aborted = view.aborted
<1> DEFINE report == Report(perception, on)
<1>1. Fresh(report) \in Reports(S)
    BY ReportType
<1>2. id \in B
    BY DEF IsView, IsIndex
<1>3. IsIndex(With(view.returns, id, Fresh(report)), B, Reports(S))
    BY <1>1, <1>2, WithIndex DEF IsView
<1> HIDE DEF report
<1> QED
    BY <1>3 DEF IsView, ReturnsAltered, report

LEMMA EndTickView ==
    ASSUME NEW A, NEW B, NEW S, NEW view, IsView(view, A, B, S)
    PROVE  /\ IsView(EndTick(view), A, B, S)
           /\ EndTick(view).units = view.units
           /\ DOMAIN EndTick(view).returns = DOMAIN view.returns
           /\ EndTick(view).mistaken = view.mistaken
<1> DEFINE known == [i \in DOMAIN view.returns |->
                        [view.returns[i] EXCEPT !.altered = FALSE]]
<1>1. IsIndex(known, B, Reports(S))
    BY DEF IsView, IsIndex, Reports
<1> DEFINE ends == view.aborted \/ \E i \in DOMAIN view.returns :
                                     ~Extrapolable(view.returns[i])
<1>2. EndTick(view) = [view EXCEPT !.aborted = ends, !.returns = known]
    BY Zenon DEF EndTick
<1>3. ends \in BOOLEAN
    BY DEF IsView
<1> HIDE DEF known, ends
<1> QED
    BY <1>1, <1>2, <1>3 DEF IsView, known

-----------------------------------------------------------------------------
(* The invariant: initially, and through the steps that only move on *)

LEMMA InitIInv == Init => IInv
<1> SUFFICES ASSUME Init PROVE IInv
    OBVIOUS
<1> USE DEF Init, EmptyIndex
<1>1. TypeOK
  <2>1. 0 \in Players /\ 0 \in UnitIds /\ 0 \in ReturnsIds
      BY PlayersAssumption, BoundsAssumption DEF Players, UnitIds, ReturnsIds
  <2>2. IsView(EmptyView, UnitIds, ReturnsIds, Statuses)
      BY DEF IsView, EmptyView, IsIndex
  <2>3. {} \in Statuses
      BY DEF Statuses
  <2> QED
      BY <2>1, <2>2, <2>3 DEF TypeOK, IsIndex, IsReturns
<1>2. OwnersAgree
    BY DEF OwnersAgree
<1>6. UnitsTold
  <2>1. \A p \in Players : DOMAIN units[p] = {} /\ DOMAIN views[p].units = {}
      BY DEF EmptyView
  <2>2. alive \ dirty = {}
      OBVIOUS
  <2> HIDE DEF Init
  <2> QED
      BY <2>1, <2>2 DEF UnitsTold
<1>3. EmptyMeansGone /\ ReturnsTold
  <2>1. /\ \A p \in Players : DOMAIN returns[p] = {} /\ DOMAIN views[p].returns = {}
        /\ 0 \in Players
      BY PlayersAssumption DEF EmptyView, Players
  <2> HIDE DEF Init
  <2>2. \A p \in Players : ReturnIds(p) = {}
      BY <2>1 DEF ReturnIds
  <2> QED
      BY <2>1, <2>2 DEF EmptyMeansGone, ReturnsTold
<1>4. PlayersChecked
    BY DEF PlayersChecked
<1>5. ServerNeverFails /\ ClientNeverMistaken
    BY DEF ServerNeverFails, ClientNeverMistaken, EmptyView
<1> QED
    BY <1>1, <1>2, <1>3, <1>4, <1>5, <1>6 DEF IInv

\* A step that changes nothing but how far the tick has come
LEMMA TickIInv ==
    ASSUME IInv, UNCHANGED <<unitVars, returnVars, failed, views>>,
           phase' \in {"acting", "destroyed", "visible", "clearing", "ended"},
           checking' \in Players, unchecked' \subseteq Units,
           PlayersChecked'
    PROVE  IInv'
<1> USE DEF IInv, unitVars, returnVars
<1>1. TypeOK'
    BY DEF TypeOK
<1>2. OwnersAgree' /\ UnitsTold'
    BY DEF OwnersAgree, UnitsTold
<1>3. EmptyMeansGone' /\ ReturnsTold'
    BY DEF EmptyMeansGone, ReturnsTold, ReturnIds
<1>4. ServerNeverFails' /\ ClientNeverMistaken'
    BY DEF ServerNeverFails, ClientNeverMistaken
<1> QED
    BY <1>1, <1>2, <1>3, <1>4

LEMMA StutterIInv == IInv /\ UNCHANGED vars => IInv'
<1> SUFFICES ASSUME IInv, UNCHANGED vars PROVE IInv'
    OBVIOUS
<1> USE DEF IInv, vars, tickVars, unitVars, returnVars
<1>1. PlayersChecked'
    BY DEF PlayersChecked, SensesOthers
<1>2. UNCHANGED <<unitVars, returnVars, failed, views>>
    OBVIOUS
<1> QED
    BY <1>1, <1>2, TickIInv DEF TypeOK

LEMMA BeginChecksIInv == IInv /\ BeginChecks => IInv'
<1> SUFFICES ASSUME IInv, BeginChecks PROVE IInv'
    OBVIOUS
<1>1. 0 \in Players /\ \A p \in Players : ~ p < 0
    BY PlayersAssumption DEF Players
<1>2. PlayersChecked'
    BY <1>1 DEF BeginChecks, PlayersChecked
<1> QED
    BY <1>1, <1>2, TickIInv DEF BeginChecks, IInv, TypeOK

LEMMA DestroyedDoneIInv == IInv /\ DestroyedDone => IInv'
<1> SUFFICES ASSUME IInv, DestroyedDone PROVE IInv'
    OBVIOUS
<1> USE DEF IInv
<1>1. checking \in Players /\ alive \subseteq Units
    BY DEF TypeOK
<1>2. \A u \in DOMAIN returns[checking] : u \in alive
    BY <1>1 DEF DestroyedDone, EmptyMeansGone
<1>3. PlayersChecked'
    BY <1>2 DEF DestroyedDone, PlayersChecked, SensesOthers, unitVars, returnVars
<1> QED
    BY <1>1, <1>3, TickIInv DEF DestroyedDone

LEMMA NextPlayerIInv == IInv /\ NextPlayer => IInv'
<1> SUFFICES ASSUME IInv, NextPlayer PROVE IInv'
    OBVIOUS
<1> USE DEF IInv
<1>1. /\ checking \in Players /\ checking + 1 \in Players
      /\ \A p \in Players : p < checking + 1 => p < checking \/ p = checking
    BY PlayersAssumption DEF TypeOK, Players, NextPlayer
<1>2. PlayersChecked'
    BY <1>1 DEF NextPlayer, PlayersChecked, SensesOthers, unitVars, returnVars
<1> QED
    BY <1>1, <1>2, TickIInv DEF NextPlayer, TypeOK

LEMMA ChecksDoneIInv == IInv /\ ChecksDone => IInv'
<1> SUFFICES ASSUME IInv, ChecksDone PROVE IInv'
    OBVIOUS
<1> USE DEF IInv
<1>1. \A p \in Players : p < checking \/ p = checking
    BY PlayersAssumption DEF TypeOK, Players, ChecksDone
<1>2. PlayersChecked'
    BY <1>1 DEF ChecksDone, PlayersChecked, SensesOthers, unitVars, returnVars
<1> QED
    BY <1>2, TickIInv DEF ChecksDone, TypeOK

LEMMA TickEndsIInv == IInv /\ TickEnds => IInv'
<1> SUFFICES ASSUME IInv, TickEnds PROVE IInv'
    OBVIOUS
<1> USE DEF IInv
<1>1. PlayersChecked'
    BY DEF TickEnds, PlayersChecked, SensesOthers, unitVars, returnVars
<1> QED
    BY <1>1, TickIInv DEF TickEnds, TypeOK

LEMMA NextTickIInv == IInv /\ NextTick => IInv'
<1> SUFFICES ASSUME IInv, NextTick PROVE IInv'
    OBVIOUS
<1> USE DEF IInv, NextTick, unitVars, returnVars
<1>1. \A p \in Players :
        /\ IsView(views'[p], UnitIds, ReturnsIds, Statuses)
        /\ views'[p].units = views[p].units
        /\ DOMAIN views'[p].returns = DOMAIN views[p].returns
        /\ views'[p].mistaken = views[p].mistaken
  <2> SUFFICES ASSUME NEW p \in Players
               PROVE  /\ IsView(EndTick(views[p]), UnitIds, ReturnsIds, Statuses)
                      /\ EndTick(views[p]).units = views[p].units
                      /\ DOMAIN EndTick(views[p]).returns = DOMAIN views[p].returns
                      /\ EndTick(views[p]).mistaken = views[p].mistaken
      OBVIOUS
  <2>1. IsView(views[p], UnitIds, ReturnsIds, Statuses)
      BY DEF TypeOK
  <2> HIDE DEF IInv, NextTick
  <2> QED
      BY <2>1, EndTickView
<1>2. TypeOK'
    BY <1>1 DEF TypeOK
<1>3. OwnersAgree' /\ EmptyMeansGone'
    BY DEF OwnersAgree, EmptyMeansGone
<1>4. UnitsTold'
  <2>1. \A u \in alive : owner[u] \in Players
      BY DEF TypeOK
  <2> QED
      BY <1>1, <2>1 DEF UnitsTold
<1>5. ReturnsTold'
    BY <1>1 DEF ReturnsTold, ReturnIds
<1>6. PlayersChecked'
    BY DEF PlayersChecked
<1>7. ServerNeverFails' /\ ClientNeverMistaken'
    BY <1>1 DEF ServerNeverFails, ClientNeverMistaken
<1> QED
    BY <1>2, <1>3, <1>4, <1>5, <1>6, <1>7

\* The clients of the owner are told of the unit as it is.
LEMMA ToldOfChangeViews ==
    ASSUME IInv, NEW u \in alive
    PROVE  LET told == ToldOfChange(u)
           IN  /\ told = [p \in Players |-> told[p]]
               /\ \A p \in Players :
                    /\ IsView(told[p], UnitIds, ReturnsIds, Statuses)
                    /\ DOMAIN told[p].units = DOMAIN units[p]
                    /\ told[p].returns = views[p].returns
                    /\ told[p].mistaken = views[p].mistaken
                    /\ told[p].aborted = views[p].aborted
               /\ \A w \in (alive \ dirty) \cup {u} :
                    told[owner[w]].units[unitId[w]] = status[w]
<1> USE DEF IInv
<1>1. /\ owner[u] \in Players /\ unitId[u] \in UnitIds /\ status[u] \in Statuses
      /\ \A w \in alive : owner[w] \in Players
      /\ views = [p \in Players |-> views[p]]
    BY DEF TypeOK
<1> DEFINE o == owner[u]
           i == unitId[u]
<1>2. IsView(views[o], UnitIds, ReturnsIds, Statuses) /\ i \in DOMAIN views[o].units
    BY <1>1 DEF TypeOK, OwnersAgree, UnitsTold
<1>3. CASE u \in dirty
  <2> DEFINE view == UnitAltered(views[o], i, status[u])
  <2>1. ToldOfChange(u) = [views EXCEPT ![o] = view]
      BY <1>3 DEF ToldOfChange
  <2>2. /\ IsView(view, UnitIds, ReturnsIds, Statuses)
        /\ view.units = With(views[o].units, i, status[u])
        /\ view.returns = views[o].returns
        /\ view.mistaken = views[o].mistaken
        /\ view.aborted = views[o].aborted
      BY <1>1, <1>2, UnitAlteredView
  <2>3. /\ DOMAIN view.units = DOMAIN views[o].units
        /\ view.units[i] = status[u]
        /\ \A j \in DOMAIN views[o].units \ {i} : view.units[j] = views[o].units[j]
      BY <1>2, <2>2 DEF With
  <2> HIDE DEF view
  <2>4. \A p \in Players :
            /\ IsView(ToldOfChange(u)[p], UnitIds, ReturnsIds, Statuses)
            /\ DOMAIN ToldOfChange(u)[p].units = DOMAIN units[p]
            /\ ToldOfChange(u)[p].returns = views[p].returns
            /\ ToldOfChange(u)[p].mistaken = views[p].mistaken
            /\ ToldOfChange(u)[p].aborted = views[p].aborted
      BY <1>1, <2>1, <2>2, <2>3 DEF TypeOK, UnitsTold
  <2>5. ASSUME NEW w \in (alive \ dirty) \cup {u}
        PROVE  ToldOfChange(u)[owner[w]].units[unitId[w]] = status[w]
    <3>1. CASE w = u
        BY <1>1, <2>1, <2>3, <3>1
    <3>2. CASE w # u /\ owner[w] = o
      <4>1. unitId[w] \in DOMAIN views[o].units \ {i}
          BY <1>1, <3>2 DEF OwnersAgree, UnitsTold
      <4>2. ToldOfChange(u)[owner[w]] = view
          BY <1>1, <2>1, <3>2
      <4>3. views[o].units[unitId[w]] = status[w]
          BY <3>2 DEF UnitsTold
      <4> QED
          BY <2>3, <4>1, <4>2, <4>3
    <3>3. CASE owner[w] # o
        BY <1>1, <2>1, <3>3 DEF UnitsTold
    <3> QED
        BY <3>1, <3>2, <3>3
  <2>6. ToldOfChange(u) = [p \in Players |-> ToldOfChange(u)[p]]
      BY <1>1, <2>1
  <2> QED
      BY <2>4, <2>5, <2>6
<1>4. CASE u \notin dirty
  <2>1. ToldOfChange(u) = views
      BY <1>4 DEF ToldOfChange
  <2> QED
      BY <1>1, <1>4, <2>1 DEF TypeOK, UnitsTold
<1> QED
    BY <1>3, <1>4

LEMMA ClearDirtyIInv ==
    ASSUME IInv, NEW u \in Units, ClearDirty(u) PROVE IInv'
<1> USE DEF IInv, ClearDirty, tickVars, returnVars
<1>1. u \in alive
    BY DEF TypeOK
<1>2. /\ views' = [p \in Players |-> views'[p]]
      /\ \A p \in Players :
            /\ IsView(views'[p], UnitIds, ReturnsIds, Statuses)
            /\ DOMAIN views'[p].units = DOMAIN units[p]
            /\ views'[p].returns = views[p].returns
            /\ views'[p].mistaken = views[p].mistaken
      /\ \A w \in (alive \ dirty) \cup {u} :
            views'[owner[w]].units[unitId[w]] = status[w]
    BY <1>1, ToldOfChangeViews
<1>3. TypeOK'
    BY <1>2 DEF TypeOK
<1>4. OwnersAgree' /\ EmptyMeansGone'
    BY DEF OwnersAgree, EmptyMeansGone
<1>5. UnitsTold'
    BY <1>2 DEF UnitsTold
<1>6. ReturnsTold'
    BY <1>2 DEF ReturnsTold, ReturnIds
<1>7. PlayersChecked'
    BY DEF PlayersChecked, SensesOthers
<1>8. ServerNeverFails' /\ ClientNeverMistaken'
    BY <1>2 DEF ServerNeverFails, ClientNeverMistaken
<1> QED
    BY <1>3, <1>4, <1>5, <1>6, <1>7, <1>8

-----------------------------------------------------------------------------
(* The operations on units *)

\* What is true of the units others, when the players have theirUnits and
\* their clients know known
UnitsFit(others, theirUnits, known) ==
    /\ theirUnits = [p \in Players |-> theirUnits[p]]
    /\ known = [p \in Players |-> known[p]]
    /\ \A p \in Players :
         /\ IsIndex(theirUnits[p], UnitIds, Units)
         /\ IsView(known[p], UnitIds, ReturnsIds, Statuses)
         /\ DOMAIN known[p].units = DOMAIN theirUnits[p]
         /\ known[p].returns = views[p].returns
         /\ ~known[p].mistaken
         /\ known[p].aborted = views[p].aborted
         /\ \A i \in DOMAIN theirUnits[p] :
              /\ i < nextUnitId[p]
              /\ theirUnits[p][i] \in others
              /\ owner[theirUnits[p][i]] = p /\ unitId[theirUnits[p][i]] = i
    /\ \A w \in others :
         /\ unitId[w] \in DOMAIN theirUnits[owner[w]]
         /\ theirUnits[owner[w]][unitId[w]] = w
         /\ w \notin dirty => known[owner[w]].units[unitId[w]] = status[w]

LEMMA AllUnitsFit == IInv => UnitsFit(alive, units, views)
<1> SUFFICES ASSUME IInv PROVE UnitsFit(alive, units, views)
    OBVIOUS
<1> USE DEF IInv
<1>1. /\ units = [p \in Players |-> units[p]]
      /\ views = [p \in Players |-> views[p]]
    BY DEF TypeOK
<1>2. \A p \in Players :
        /\ IsIndex(units[p], UnitIds, Units)
        /\ IsView(views[p], UnitIds, ReturnsIds, Statuses)
        /\ DOMAIN views[p].units = DOMAIN units[p]
        /\ ~views[p].mistaken
    BY DEF TypeOK, UnitsTold, ClientNeverMistaken
<1>3. \A p \in Players : \A i \in DOMAIN units[p] :
        /\ i < nextUnitId[p]
        /\ units[p][i] \in alive
        /\ owner[units[p][i]] = p /\ unitId[units[p][i]] = i
    BY DEF UnitsTold, OwnersAgree
<1>4. \A w \in alive :
        /\ unitId[w] \in DOMAIN units[owner[w]]
        /\ units[owner[w]][unitId[w]] = w
        /\ w \notin dirty => views[owner[w]].units[unitId[w]] = status[w]
    BY DEF UnitsTold, OwnersAgree
<1> QED
    BY <1>1, <1>2, <1>3, <1>4 DEF UnitsFit

LEMMA OthersFit ==
    ASSUME IInv, NEW u \in alive
    PROVE  UnitsFit(alive \ {u}, UnitsWithout(u), ToldOfLoss(u))
<1> DEFINE o == owner[u]
           i == unitId[u]
           told == ToldOfChange(u)
           left == UnitsWithout(u)
           known == ToldOfLoss(u)
           view == UnitRemoved(told[o], i)
<1> USE DEF IInv
<1>1. /\ o \in Players
      /\ \A w \in alive : owner[w] \in Players /\ w \in Units
      /\ units = [p \in Players |-> units[p]]
      /\ \A p \in Players : IsIndex(units[p], UnitIds, Units)
    BY DEF TypeOK
<1>2. /\ told = [p \in Players |-> told[p]]
      /\ \A p \in Players :
           /\ IsView(told[p], UnitIds, ReturnsIds, Statuses)
           /\ DOMAIN told[p].units = DOMAIN units[p]
           /\ told[p].returns = views[p].returns
           /\ told[p].mistaken = views[p].mistaken
           /\ told[p].aborted = views[p].aborted
      /\ \A w \in (alive \ dirty) \cup {u} :
           told[owner[w]].units[unitId[w]] = status[w]
    BY ToldOfChangeViews
<1>3. i \in DOMAIN told[o].units /\ units[o][i] = u
    BY <1>1, <1>2 DEF OwnersAgree
<1>4. known = [told EXCEPT ![o] = view] /\ left = [units EXCEPT ![o] = Without(@, i)]
    BY DEF ToldOfLoss, UnitsWithout
<1> HIDE DEF told, left, known
<1>5. /\ IsView(view, UnitIds, ReturnsIds, Statuses)
      /\ view.units = Without(told[o].units, i)
      /\ view.returns = told[o].returns
      /\ view.mistaken = told[o].mistaken
      /\ view.aborted = told[o].aborted
    BY <1>1, <1>2, <1>3, UnitRemovedView
<1> HIDE DEF view
<1>6. IsIndex(left[o], UnitIds, Units) /\ left[o] = Without(units[o], i)
    BY <1>1, <1>4, WithoutIndex
<1>7. /\ DOMAIN left[o] = DOMAIN units[o] \ {i}
      /\ DOMAIN view.units = DOMAIN units[o] \ {i}
      /\ \A j \in DOMAIN units[o] \ {i} :
           left[o][j] = units[o][j] /\ view.units[j] = told[o].units[j]
    BY <1>1, <1>2, <1>5, <1>6 DEF Without, Restrict
<1>8. /\ known[o] = view
      /\ \A p \in Players \ {o} : left[p] = units[p] /\ known[p] = told[p]
    BY <1>1, <1>2, <1>4
<1>9. left = [p \in Players |-> left[p]] /\ known = [p \in Players |-> known[p]]
    BY <1>1, <1>2, <1>4
<1>10. ASSUME NEW p \in Players
       PROVE  /\ IsIndex(left[p], UnitIds, Units)
              /\ IsView(known[p], UnitIds, ReturnsIds, Statuses)
              /\ DOMAIN known[p].units = DOMAIN left[p]
              /\ known[p].returns = views[p].returns
              /\ ~known[p].mistaken
              /\ known[p].aborted = views[p].aborted
    BY <1>1, <1>2, <1>5, <1>6, <1>7, <1>8 DEF ClientNeverMistaken
<1>11. ASSUME NEW p \in Players, NEW j \in DOMAIN left[p]
       PROVE  /\ j < nextUnitId[p]
              /\ left[p][j] \in alive \ {u}
              /\ owner[left[p][j]] = p /\ unitId[left[p][j]] = j
  <2>1. j \in DOMAIN units[p] /\ left[p][j] = units[p][j] /\ ~(p = o /\ j = i)
      BY <1>7, <1>8
  <2> QED
      BY <1>1, <2>1 DEF OwnersAgree, UnitsTold
<1>12. ASSUME NEW w \in alive \ {u}
       PROVE  /\ unitId[w] \in DOMAIN left[owner[w]]
              /\ left[owner[w]][unitId[w]] = w
              /\ w \notin dirty => known[owner[w]].units[unitId[w]] = status[w]
  <2>1. /\ owner[w] \in Players
        /\ unitId[w] \in DOMAIN units[owner[w]] /\ units[owner[w]][unitId[w]] = w
      BY <1>1 DEF OwnersAgree
  <2>2. owner[w] = o => unitId[w] # i
      BY <1>3, <2>1
  <2>3. w \notin dirty => told[owner[w]].units[unitId[w]] = status[w]
      BY <1>2
  <2>4. CASE owner[w] = o
      BY <1>7, <1>8, <2>1, <2>2, <2>3, <2>4
  <2>5. CASE owner[w] # o
      BY <1>8, <2>1, <2>3, <2>5
  <2> QED
      BY <2>4, <2>5
<1> QED
    BY <1>9, <1>10, <1>11, <1>12 DEF UnitsFit, left, known

\* addUnit keeps it so, for the unit added too.
LEMMA AddUnitFits ==
    ASSUME TypeOK, NEW others \in SUBSET Units, NEW theirUnits, NEW known,
           UnitsFit(others, theirUnits, known),
           NEW u \in Units \ others, NEW p \in Players, NEW on \in Statuses,
           nextUnitId[p] < MaxUnitId,
           AddUnit(u, p, on, theirUnits, known),
           alive' = others \cup {u}, dirty' = dirty \ {u},
           owner' = [owner EXCEPT ![u] = p], status' = [status EXCEPT ![u] = on]
    PROVE  /\ OwnersAgree' /\ UnitsTold' /\ ClientNeverMistaken'
           /\ ~IdTaken(p, theirUnits)
           /\ units' = [q \in Players |-> units'[q]]
           /\ views' = [q \in Players |-> views'[q]]
           /\ unitId' \in [Units -> UnitIds] /\ nextUnitId' \in [Players -> UnitIds]
           /\ \A q \in Players :
                /\ IsIndex(units'[q], UnitIds, Units)
                /\ IsView(views'[q], UnitIds, ReturnsIds, Statuses)
                /\ views'[q].returns = views[q].returns
                /\ views'[q].aborted = views[q].aborted
<1> DEFINE i == nextUnitId[p]
           view == UnitAdded(known[p], i, on)
<1>1. /\ nextUnitId \in [Players -> UnitIds] /\ unitId \in [Units -> UnitIds]
      /\ owner \in [Units -> Players] /\ status \in [Units -> Statuses]
    BY DEF TypeOK
<1>2. i \in UnitIds /\ i + 1 \in UnitIds /\ i \in Nat /\ UnitIds \subseteq Nat
    BY <1>1, BoundsAssumption DEF UnitIds
<1>3. /\ units' = [theirUnits EXCEPT ![p] = With(@, i, u)]
      /\ views' = [known EXCEPT ![p] = view]
      /\ unitId' = [unitId EXCEPT ![u] = i]
      /\ nextUnitId' = [nextUnitId EXCEPT ![p] = i + 1]
    BY DEF AddUnit
<1>4. /\ IsIndex(theirUnits[p], UnitIds, Units)
      /\ IsView(known[p], UnitIds, ReturnsIds, Statuses)
      /\ DOMAIN known[p].units = DOMAIN theirUnits[p]
      /\ i \notin DOMAIN theirUnits[p]
    BY <1>2 DEF UnitsFit, IsIndex
<1>5. /\ IsView(view, UnitIds, ReturnsIds, Statuses)
      /\ view.units = With(known[p].units, i, on)
      /\ view.returns = known[p].returns
      /\ view.mistaken = known[p].mistaken
      /\ view.aborted = known[p].aborted
    BY <1>2, <1>4, UnitAddedView
<1> HIDE DEF view
<1>6. /\ IsIndex(With(theirUnits[p], i, u), UnitIds, Units)
      /\ ~IdTaken(p, theirUnits)
    BY <1>2, <1>4, WithIndex DEF IdTaken
<1>7. /\ theirUnits = [q \in Players |-> theirUnits[q]]
      /\ known = [q \in Players |-> known[q]]
    BY DEF UnitsFit
<1>8. /\ units'[p] = With(theirUnits[p], i, u) /\ views'[p] = view
      /\ \A q \in Players \ {p} : units'[q] = theirUnits[q] /\ views'[q] = known[q]
    BY <1>3, <1>7
<1>9. /\ DOMAIN units'[p] = DOMAIN theirUnits[p] \cup {i}
      /\ DOMAIN views'[p].units = DOMAIN theirUnits[p] \cup {i}
      /\ units'[p][i] = u /\ views'[p].units[i] = on
      /\ \A j \in DOMAIN theirUnits[p] :
           units'[p][j] = theirUnits[p][j] /\ views'[p].units[j] = known[p].units[j]
    BY <1>4, <1>5, <1>8 DEF With
<1>10. ASSUME NEW q \in Players
       PROVE  /\ IsIndex(units'[q], UnitIds, Units)
              /\ IsView(views'[q], UnitIds, ReturnsIds, Statuses)
              /\ views'[q].returns = views[q].returns
              /\ ~views'[q].mistaken
              /\ views'[q].aborted = views[q].aborted
              /\ DOMAIN views'[q].units = DOMAIN units'[q]
  <2>1. CASE q = p
    <3>1. /\ known[p].returns = views[p].returns /\ ~known[p].mistaken
          /\ known[p].aborted = views[p].aborted
        BY DEF UnitsFit
    <3> QED
        BY <1>5, <1>6, <1>8, <1>9, <2>1, <3>1
  <2>2. CASE q # p
    <3>1. units'[q] = theirUnits[q] /\ views'[q] = known[q]
        BY <1>8, <2>2
    <3> QED
        BY <3>1 DEF UnitsFit
  <2> QED
      BY <2>1, <2>2
<1>11. ASSUME NEW q \in Players, NEW j \in DOMAIN units'[q]
       PROVE  /\ j < nextUnitId'[q]
              /\ units'[q][j] \in alive'
              /\ owner'[units'[q][j]] = q /\ unitId'[units'[q][j]] = j
  <2>1. CASE q = p /\ j = i
      BY <1>1, <1>2, <1>3, <1>9, <2>1
  <2>2. CASE ~(q = p /\ j = i)
    <3>1. j \in DOMAIN theirUnits[q] /\ units'[q][j] = theirUnits[q][j]
        BY <1>8, <1>9, <2>2
    <3>2. /\ j < nextUnitId[q] /\ j \in Nat
          /\ theirUnits[q][j] \in others /\ theirUnits[q][j] # u
          /\ owner[theirUnits[q][j]] = q /\ unitId[theirUnits[q][j]] = j
        BY <1>2, <3>1 DEF UnitsFit, IsIndex
    <3>3. j < nextUnitId'[q]
        BY <1>1, <1>2, <1>3, <3>2
    <3> QED
        BY <1>1, <1>3, <3>1, <3>2, <3>3
  <2> QED
      BY <2>1, <2>2
<1>12. ASSUME NEW w \in alive'
       PROVE  /\ unitId'[w] \in DOMAIN units'[owner'[w]]
              /\ units'[owner'[w]][unitId'[w]] = w
              /\ w \notin dirty' => views'[owner'[w]].units[unitId'[w]] = status'[w]
  <2>1. CASE w = u
      BY <1>1, <1>3, <1>9, <2>1
  <2>2. CASE w # u
    <3>1. /\ w \in others /\ owner'[w] = owner[w] /\ unitId'[w] = unitId[w]
          /\ status'[w] = status[w] /\ (w \in dirty' <=> w \in dirty)
          /\ owner[w] \in Players
        BY <1>1, <1>3, <2>2
    <3>2. /\ unitId[w] \in DOMAIN theirUnits[owner[w]]
          /\ theirUnits[owner[w]][unitId[w]] = w
          /\ w \notin dirty => known[owner[w]].units[unitId[w]] = status[w]
        BY <3>1 DEF UnitsFit
    <3> QED
        BY <1>8, <1>9, <3>1, <3>2
  <2> QED
      BY <2>1, <2>2
<1>13. OwnersAgree' /\ UnitsTold' /\ ClientNeverMistaken'
    BY <1>10, <1>11, <1>12 DEF OwnersAgree, UnitsTold, ClientNeverMistaken
<1>14. /\ units' = [q \in Players |-> units'[q]]
       /\ views' = [q \in Players |-> views'[q]]
       /\ unitId' \in [Units -> UnitIds] /\ nextUnitId' \in [Players -> UnitIds]
    BY <1>1, <1>2, <1>3, <1>7
<1> QED
    BY <1>6, <1>10, <1>13, <1>14

LEMMA SpawnIInv ==
    ASSUME IInv, NEW u \in Units, NEW p \in Players,
           NEW on \in SUBSET (Sensors \cap Switched), Spawn(u, p, on)
    PROVE  IInv'
<1> USE DEF IInv, tickVars, returnVars
<1>1. /\ phase = "acting" /\ u \notin alive /\ nextUnitId[p] < MaxUnitId
      /\ \A q \in Players : u \notin DOMAIN returns[q]
      /\ alive' = alive \cup {u} /\ owner' = [owner EXCEPT ![u] = p]
      /\ status' = [status EXCEPT ![u] = on]
      /\ AddUnit(u, p, on, units, views)
      /\ failed' = (failed \/ IdTaken(p, units))
      /\ UNCHANGED <<phase, checking, unchecked, dirty, returns, nextReturnsId>>
    BY DEF Spawn
<1>2. /\ alive \in SUBSET Units /\ dirty' = dirty \ {u} /\ on \in Statuses
      /\ UnitsFit(alive, units, views)
    BY <1>1, AllUnitsFit DEF TypeOK, Statuses
<1>3. /\ OwnersAgree' /\ UnitsTold' /\ ClientNeverMistaken'
      /\ ~IdTaken(p, units)
      /\ units' = [q \in Players |-> units'[q]]
      /\ views' = [q \in Players |-> views'[q]]
      /\ unitId' \in [Units -> UnitIds] /\ nextUnitId' \in [Players -> UnitIds]
      /\ \A q \in Players :
           /\ IsIndex(units'[q], UnitIds, Units)
           /\ IsView(views'[q], UnitIds, ReturnsIds, Statuses)
           /\ views'[q].returns = views[q].returns
    BY <1>1, <1>2, AddUnitFits
<1>4. failed' = FALSE
    BY <1>1, <1>3 DEF ServerNeverFails
<1>5. TypeOK'
  <2>1. /\ owner' \in [Units -> Players] /\ status' \in [Units -> Statuses]
        /\ alive' \subseteq Units /\ dirty' \subseteq alive'
      BY <1>1, <1>2 DEF TypeOK
  <2> QED
      BY <1>1, <1>3, <1>4, <2>1 DEF TypeOK
<1>6. EmptyMeansGone' /\ ReturnsTold'
    BY <1>1, <1>3 DEF EmptyMeansGone, ReturnsTold, ReturnIds
<1>7. PlayersChecked'
    BY <1>1 DEF PlayersChecked
<1> QED
    BY <1>3, <1>4, <1>5, <1>6, <1>7 DEF ServerNeverFails

\* Flagging returns changes nothing else about them.
LEMMA FlaggedReturns ==
    ASSUME TypeOK, NEW u
    PROVE  /\ Flagged(u) = [p \in Players |-> Flagged(u)[p]]
           /\ \A p \in Players :
                /\ DOMAIN Flagged(u)[p] = DOMAIN returns[p]
                /\ IsReturns(Flagged(u)[p])
                /\ \A w \in DOMAIN returns[p] :
                     /\ Flagged(u)[p][w].id = returns[p][w].id
                     /\ Flagged(u)[p][w].perception = returns[p][w].perception
                     /\ Flagged(u)[p][w].sensers = returns[p][w].sensers
<1>1. Flagged(u) = [p \in Players |-> Flagged(u)[p]]
    BY DEF Flagged
<1> SUFFICES ASSUME NEW p \in Players
             PROVE  /\ DOMAIN Flagged(u)[p] = DOMAIN returns[p]
                    /\ IsReturns(Flagged(u)[p])
                    /\ \A w \in DOMAIN returns[p] :
                         /\ Flagged(u)[p][w].id = returns[p][w].id
                         /\ Flagged(u)[p][w].perception = returns[p][w].perception
                         /\ Flagged(u)[p][w].sensers = returns[p][w].sensers
    BY <1>1
<1> DEFINE new == Flagged(u)[p]
<1>2. IsReturns(returns[p])
    BY DEF TypeOK
<1>3. \/ new = returns[p]
      \/ u \in DOMAIN returns[p] /\ new = [returns[p] EXCEPT ![u].dirty = TRUE]
    BY DEF Flagged
<1>4. CASE new = returns[p]
    BY <1>2, <1>4
<1>5. CASE u \in DOMAIN returns[p] /\ new = [returns[p] EXCEPT ![u].dirty = TRUE]
  <2> HIDE DEF new
  <2>1. /\ DOMAIN new = DOMAIN returns[p]
        /\ new = [w \in DOMAIN new |-> new[w]]
        /\ new[u] = [returns[p][u] EXCEPT !.dirty = TRUE]
        /\ \A w \in DOMAIN returns[p] \ {u} : new[w] = returns[p][w]
      BY <1>2, <1>5 DEF IsReturns
  <2>2. /\ IsReturn(new[u])
        /\ new[u].id = returns[p][u].id
        /\ new[u].perception = returns[p][u].perception
        /\ new[u].sensers = returns[p][u].sensers
    <3> DEFINE return == returns[p][u]
               now == new[u]
    <3>1. IsReturn(return)
        BY <1>2, <1>5 DEF IsReturns
    <3>2. now = [return EXCEPT !.dirty = TRUE]
        BY <2>1
    <3> HIDE DEF return, now
    <3>3. /\ IsReturn(now)
          /\ now.id = return.id
          /\ now.perception = return.perception
          /\ now.sensers = return.sensers
        BY <3>1, <3>2 DEF IsReturn
    <3> QED
        BY <3>3 DEF return, now
  <2>3. \A w \in DOMAIN returns[p] : IsReturn(new[w])
      BY <1>2, <2>1, <2>2 DEF IsReturns
  <2>4. IsReturns(new)
      BY <1>2, <2>1, <2>3 DEF IsReturns
  <2> QED
      BY <2>1, <2>2, <2>4 DEF new
<1> QED
    BY <1>3, <1>4, <1>5

LEMMA FlaggingKeepsReturns ==
    ASSUME IInv, NEW u, returns' = returns \/ returns' = Flagged(u),
           UNCHANGED <<alive, nextReturnsId>>,
           \A p \in Players : views'[p].returns = views[p].returns
    PROVE  /\ EmptyMeansGone' /\ ReturnsTold'
           /\ returns' = [p \in Players |-> returns'[p]]
           /\ \A p \in Players :
                IsReturns(returns'[p]) /\ DOMAIN returns'[p] = DOMAIN returns[p]
<1> USE DEF IInv
<1>1. /\ returns' = [p \in Players |-> returns'[p]]
      /\ \A p \in Players :
            /\ DOMAIN returns'[p] = DOMAIN returns[p]
            /\ IsReturns(returns'[p])
            /\ \A w \in DOMAIN returns[p] :
                 /\ returns'[p][w].id = returns[p][w].id
                 /\ returns'[p][w].perception = returns[p][w].perception
                 /\ returns'[p][w].sensers = returns[p][w].sensers
  <2>1. CASE returns' = returns
      BY <2>1 DEF TypeOK
  <2>2. CASE returns' = Flagged(u)
      BY <2>2, FlaggedReturns
  <2> QED
      BY <2>1, <2>2
<1>2. EmptyMeansGone'
    BY <1>1 DEF EmptyMeansGone, IsEmpty
<1>3. \A p \in Players : ReturnIds(p)' = ReturnIds(p)
    BY <1>1 DEF ReturnIds
<1>4. 0 \in Players
    BY PlayersAssumption DEF Players
<1>5. ReturnsTold'
    BY <1>1, <1>3, <1>4 DEF ReturnsTold, IsEmpty
<1> QED
    BY <1>1, <1>2, <1>5

LEMMA SwitchSensorIInv ==
    ASSUME IInv, NEW u \in Units, NEW s \in Sensors \cap Switched,
           NEW on \in BOOLEAN, SwitchSensor(u, s, on)
    PROVE  IInv'
<1> USE DEF IInv
<1>1. /\ phase = "acting" /\ u \in alive
      /\ dirty' = dirty \cup {u}
      /\ returns' = returns \/ returns' = Flagged(u)
      /\ UNCHANGED <<phase, checking, unchecked, alive, owner, unitId, units,
                     nextUnitId, nextReturnsId, failed, views>>
    BY DEF SwitchSensor, SetDirty, tickVars
<1>2. status' \in [Units -> Statuses] /\ \A w \in Units \ {u} : status'[w] = status[w]
  <2>1. status \in [Units -> Statuses]
      BY DEF TypeOK
  <2>2. status[u] \cup {s} \in Statuses /\ status[u] \ {s} \in Statuses
      BY <2>1 DEF Statuses
  <2>3. \/ status' = [status EXCEPT ![u] = status[u] \cup {s}]
        \/ status' = [status EXCEPT ![u] = status[u] \ {s}]
      BY DEF SwitchSensor
  <2> QED
      BY <2>1, <2>2, <2>3
<1>3. /\ EmptyMeansGone' /\ ReturnsTold'
      /\ returns' = [p \in Players |-> returns'[p]]
      /\ \A p \in Players : IsReturns(returns'[p])
    BY <1>1, FlaggingKeepsReturns
<1>4. TypeOK'
    BY <1>1, <1>2, <1>3 DEF TypeOK
<1>5. OwnersAgree'
    BY <1>1 DEF OwnersAgree
<1>6. UnitsTold'
  <2>1. \A w \in alive \ (dirty \cup {u}) : status'[w] = status[w]
      BY <1>2 DEF TypeOK
  <2> QED
      BY <1>1, <2>1 DEF UnitsTold
<1>7. PlayersChecked'
    BY <1>1 DEF PlayersChecked
<1>8. ServerNeverFails' /\ ClientNeverMistaken'
    BY <1>1 DEF ServerNeverFails, ClientNeverMistaken
<1> QED
    BY <1>3, <1>4, <1>5, <1>6, <1>7, <1>8

LEMMA ChangeOwnerIInv ==
    ASSUME IInv, NEW u \in Units, NEW p \in Players, ChangeOwner(u, p)
    PROVE  IInv'
<1> USE DEF IInv
<1> DEFINE left == UnitsWithout(u)
           known == ToldOfLoss(u)
<1>1. /\ phase = "acting" /\ u \in alive /\ nextUnitId[p] < MaxUnitId
      /\ dirty' = dirty \ {u} /\ owner' = [owner EXCEPT ![u] = p]
      /\ AddUnit(u, p, status[u], left, known)
      /\ failed' = (failed \/ NotTheirs(u) \/ IdTaken(p, left))
      /\ returns' = Flagged(u)
      /\ UNCHANGED <<phase, checking, unchecked, alive, status, nextReturnsId>>
    BY DEF ChangeOwner, tickVars
<1>2. UnitsFit(alive \ {u}, left, known)
    BY <1>1, OthersFit
<1> HIDE DEF left, known
<1>3. /\ alive \ {u} \in SUBSET Units /\ u \in Units \ (alive \ {u})
      /\ status[u] \in Statuses /\ alive' = (alive \ {u}) \cup {u}
      /\ status' = [status EXCEPT ![u] = status[u]]
    BY <1>1 DEF TypeOK
<1>4. /\ OwnersAgree' /\ UnitsTold' /\ ClientNeverMistaken'
      /\ ~IdTaken(p, left)
      /\ units' = [q \in Players |-> units'[q]]
      /\ views' = [q \in Players |-> views'[q]]
      /\ unitId' \in [Units -> UnitIds] /\ nextUnitId' \in [Players -> UnitIds]
      /\ \A q \in Players :
           /\ IsIndex(units'[q], UnitIds, Units)
           /\ IsView(views'[q], UnitIds, ReturnsIds, Statuses)
           /\ views'[q].returns = views[q].returns
    BY <1>1, <1>2, <1>3, AddUnitFits
<1>5. failed' = FALSE
    BY <1>1, <1>4 DEF ServerNeverFails, NotTheirs, OwnersAgree
<1>6. /\ EmptyMeansGone' /\ ReturnsTold'
      /\ returns' = [q \in Players |-> returns'[q]]
      /\ \A q \in Players : IsReturns(returns'[q])
    BY <1>1, <1>4, FlaggingKeepsReturns
<1>7. TypeOK'
  <2>1. owner' \in [Units -> Players] /\ dirty' \subseteq alive'
      BY <1>1 DEF TypeOK
  <2> QED
      BY <1>1, <1>4, <1>5, <1>6, <2>1 DEF TypeOK
<1>8. PlayersChecked'
    BY <1>1 DEF PlayersChecked
<1> QED
    BY <1>4, <1>5, <1>6, <1>7, <1>8 DEF ServerNeverFails

\* Destroying the unit empties its returns, and changes no other.
LEMMA DestroyedReturns ==
    ASSUME TypeOK, NEW u, NEW p \in Players,
           returns' = [q \in Players |->
              IF u \in DOMAIN returns[q]
              THEN [returns[q] EXCEPT ![u] = SenseeDestroyed(@)]
              ELSE returns[q]]
    PROVE  /\ DOMAIN returns'[p] = DOMAIN returns[p]
           /\ IsReturns(returns'[p])
           /\ \A w \in DOMAIN returns[p] :
                /\ returns'[p][w].id = returns[p][w].id
                /\ w # u => returns'[p][w] = returns[p][w]
                /\ w = u => /\ IsEmpty(returns'[p][w]) /\ returns'[p][w].dirty
                            /\ returns'[p][w].perception = NothingPerceived
<1>1. IsReturns(returns[p])
    BY DEF TypeOK
<1>2. CASE u \notin DOMAIN returns[p]
    BY <1>1, <1>2
<1>3. CASE u \in DOMAIN returns[p]
  <2> DEFINE return == returns[p][u]
             gone == SenseeDestroyed(return)
             new == returns'[p]
  <2>1. IsReturn(return)
      BY <1>1, <1>3 DEF IsReturns
  <2>2. new = [returns[p] EXCEPT ![u] = gone]
      BY <1>3
  <2> HIDE DEF return, new
  <2>3. /\ IsReturn(gone) /\ gone.id = return.id
        /\ IsEmpty(gone) /\ gone.perception = NothingPerceived
        /\ gone.dirty
    <3>1. /\ IsIndex(EmptyIndex, UnitIds, [Sensors -> Readings])
          /\ DOMAIN EmptyIndex = {}
        BY EmptyIndexFits
    <3>2. gone = [return EXCEPT !.perception = NothingPerceived,
                                !.sensers = EmptyIndex, !.dirty = TRUE]
        BY DEF SenseeDestroyed
    <3> HIDE DEF gone
    <3> QED
        BY <2>1, <3>1, <3>2 DEF IsReturn, IsEmpty, NothingPerceived
  <2> HIDE DEF gone
  <2>4. /\ DOMAIN new = DOMAIN returns[p]
        /\ new = [w \in DOMAIN new |-> new[w]]
        /\ new[u] = gone
        /\ \A w \in DOMAIN returns[p] \ {u} : new[w] = returns[p][w]
      BY <1>1, <1>3, <2>2 DEF IsReturns
  <2>5. IsReturns(new)
      BY <1>1, <2>3, <2>4 DEF IsReturns
  <2> QED
      BY <2>3, <2>4, <2>5 DEF return, new
<1> QED
    BY <1>2, <1>3

LEMMA RemoveUnitIInv ==
    ASSUME IInv, NEW u \in Units, RemoveUnit(u) PROVE IInv'
<1> USE DEF IInv
<1> DEFINE left == UnitsWithout(u)
           known == ToldOfLoss(u)
<1>1. /\ phase = "acting" /\ u \in alive
      /\ alive' = alive \ {u} /\ dirty' = dirty \ {u}
      /\ owner' = [owner EXCEPT ![u] = 0]
      /\ status' = [status EXCEPT ![u] = {}]
      /\ unitId' = [unitId EXCEPT ![u] = 0]
      /\ units' = left /\ views' = known
      /\ returns' = [p \in Players |->
            IF u \in DOMAIN returns[p]
            THEN [returns[p] EXCEPT ![u] = SenseeDestroyed(@)]
            ELSE returns[p]]
      /\ failed' = (failed \/ NotTheirs(u) \/ \E p \in Players :
                       /\ u \in DOMAIN returns[p]
                       /\ returns[p][u].perception = NothingPerceived)
      /\ UNCHANGED <<phase, checking, unchecked, nextUnitId, nextReturnsId>>
    BY DEF RemoveUnit, tickVars
<1>2. UnitsFit(alive \ {u}, left, known)
    BY <1>1, OthersFit
<1> HIDE DEF left, known
<1>3. /\ 0 \in Players /\ 0 \in UnitIds /\ {} \in Statuses
      /\ owner \in [Units -> Players] /\ status \in [Units -> Statuses]
      /\ unitId \in [Units -> UnitIds] /\ alive \subseteq Units
    BY PlayersAssumption, BoundsAssumption DEF TypeOK, Players, UnitIds, Statuses
<1>4. \A w \in alive \ {u} : /\ owner'[w] = owner[w] /\ unitId'[w] = unitId[w]
                             /\ status'[w] = status[w]
    BY <1>1, <1>3
<1>5. OwnersAgree' /\ UnitsTold' /\ ClientNeverMistaken'
    BY <1>1, <1>2, <1>4
    DEF UnitsFit, OwnersAgree, UnitsTold, ClientNeverMistaken
<1>6. ASSUME NEW p \in Players
      PROVE  /\ DOMAIN returns'[p] = DOMAIN returns[p]
             /\ IsReturns(returns'[p])
             /\ \A w \in DOMAIN returns[p] :
                  /\ returns'[p][w].id = returns[p][w].id
                  /\ w # u => returns'[p][w] = returns[p][w]
                  /\ w = u => /\ IsEmpty(returns'[p][w])
                              /\ returns'[p][w].perception = NothingPerceived
    BY <1>1, DestroyedReturns
<1>7. EmptyMeansGone'
    BY <1>1, <1>6 DEF EmptyMeansGone
<1>8. \A p \in Players : ReturnIds(p)' = ReturnIds(p)
    BY <1>6 DEF ReturnIds
<1>9. ReturnsTold'
  <2>1. DOMAIN returns'[0] = {}
      BY <1>3, <1>6 DEF ReturnsTold
  <2>2. \A p \in Players : \A w \in DOMAIN returns'[p] :
          /\ returns'[p][w].id < nextReturnsId'[p]
          /\ IsEmpty(returns'[p][w]) <=> returns'[p][w].perception = NothingPerceived
          /\ \A v \in DOMAIN returns'[p] :
               returns'[p][w].id = returns'[p][v].id => w = v
      BY <1>1, <1>6 DEF ReturnsTold
  <2>3. \A p \in Players : DOMAIN views'[p].returns = ReturnIds(p)'
      BY <1>1, <1>2, <1>8 DEF ReturnsTold, UnitsFit
  <2> QED
      BY <2>1, <2>2, <2>3 DEF ReturnsTold
<1>10. failed' = FALSE
  <2>1. ~failed /\ ~NotTheirs(u)
      BY <1>1 DEF ServerNeverFails, NotTheirs, OwnersAgree
  <2>2. \A p \in Players : u \in DOMAIN returns[p] =>
            returns[p][u].perception # NothingPerceived
      BY <1>1 DEF EmptyMeansGone, ReturnsTold
  <2> QED
      BY <1>1, <2>1, <2>2
<1>11. TypeOK'
  <2>1. /\ owner' \in [Units -> Players] /\ status' \in [Units -> Statuses]
        /\ unitId' \in [Units -> UnitIds] /\ alive' \subseteq Units
        /\ dirty' \subseteq alive'
      BY <1>1, <1>3 DEF TypeOK
  <2>2. returns' = [p \in Players |-> returns'[p]]
      BY <1>1
  <2>3. /\ units' = [p \in Players |-> units'[p]]
        /\ views' = [p \in Players |-> views'[p]]
        /\ \A p \in Players :
             /\ IsIndex(units'[p], UnitIds, Units)
             /\ IsView(views'[p], UnitIds, ReturnsIds, Statuses)
      BY <1>1, <1>2 DEF UnitsFit
  <2> QED
      BY <1>1, <1>6, <1>10, <2>1, <2>2, <2>3 DEF TypeOK
<1>12. PlayersChecked'
    BY <1>1 DEF PlayersChecked
<1> QED
    BY <1>5, <1>7, <1>9, <1>10, <1>11, <1>12 DEF ServerNeverFails

-----------------------------------------------------------------------------
(* Sensing *)

LEMMA SeenReadings ==
    ASSUME NEW w, NEW reading \in JointReadings
    PROVE  /\ Seen(w, reading) \in [Sensors -> Readings]
           /\ Total(Seen(w, reading)) \subseteq Perceptions
<1>1. reading \in [Sensors -> Readings]
    BY ReadingsAssumption
<1>2. Seen(w, reading) \in [Sensors -> Readings]
    BY <1>1 DEF Seen, Readings
<1>3. \A s \in Sensors : Seen(w, reading)[s] \subseteq Perceptions
    BY <1>2 DEF Readings, Perceptions, NothingPerceived
<1> QED
    BY <1>2, <1>3 DEF Total

LEMMA KeptReadings ==
    ASSUME NEW held \in [Sensors -> Readings], NEW seen \in [Sensors -> Readings]
    PROVE  Kept(held, seen) \in [Sensors -> Readings]
BY DEF Kept

\* A return is of the same unit after it is updated, and is empty exactly if
\* nothing is perceived.
LEMMA SensedFits ==
    ASSUME NEW p \in Players, NEW return, IsReturn(return),
           NEW readings \in [DOMAIN units[p] -> JointReadings],
           DOMAIN units[p] \subseteq UnitIds
    PROVE  LET now == Sensed(return, p, readings)
           IN  /\ IsReturn(now) /\ now.id = return.id
               /\ IsEmpty(now) <=> now.perception = NothingPerceived
<1> DEFINE seen == [i \in DOMAIN units[p] |-> Seen(units[p][i], readings[i])]
           sensers == {i \in DOMAIN seen : Total(seen[i]) # NothingPerceived}
           perception == UNION {Total(seen[i]) : i \in sensers}
           kept == [i \in sensers |-> Kept(Held(return, i), seen[i])]
           changed == \E i \in sensers : Changed(Held(return, i), seen[i])
           flag == \/ return.dirty
                   \/ changed
                   \/ "region" \in perception
           now == Sensed(return, p, readings)
<1>1. now = [return EXCEPT !.perception = perception, !.sensers = kept,
                           !.dirty = flag]
    BY Zenon DEF Sensed
<1>2. \A i \in DOMAIN units[p] :
        seen[i] \in [Sensors -> Readings] /\ Total(seen[i]) \subseteq Perceptions
    BY SeenReadings
<1>3. \A i \in sensers : Held(return, i) \in [Sensors -> Readings]
  <2>1. NoReturn \in [Sensors -> Readings]
      BY DEF NoReturn, Readings
  <2> QED
      BY <2>1 DEF Held, IsReturn, IsIndex
<1>4. flag \in BOOLEAN
    BY DEF IsReturn
<1>5. perception \subseteq Perceptions
    BY <1>2
<1>6. IsIndex(kept, UnitIds, [Sensors -> Readings]) /\ DOMAIN kept = sensers
  <2>1. \A i \in sensers : kept[i] \in [Sensors -> Readings]
      BY <1>2, <1>3, KeptReadings
  <2> HIDE DEF seen
  <2>2. sensers \subseteq UnitIds
      BY DEF seen
  <2> HIDE DEF sensers
  <2> QED
      BY <2>1, <2>2 DEF IsIndex
<1>7. sensers = {} <=> perception = NothingPerceived
  <2> HIDE DEF seen
  <2> QED
      BY DEF NothingPerceived
<1> HIDE DEF seen, sensers, perception, kept, flag, now
<1> QED
    BY <1>1, <1>4, <1>5, <1>6, <1>7 DEF IsReturn, IsEmpty, now

LEMMA CleanFits ==
    ASSUME NEW return, IsReturn(return)
    PROVE  LET clean == Clean(return)
           IN  /\ IsReturn(clean) /\ clean.id = return.id
               /\ clean.perception = return.perception
               /\ clean.sensers = return.sensers
<1> DEFINE clean == Clean(return)
<1>1. clean = [return EXCEPT !.dirty = FALSE]
    BY DEF Clean
<1> HIDE DEF clean
<1> QED
    BY <1>1 DEF IsReturn, clean

\* Only a unit of another player has a return that is not empty, and not to
\* player 0.
LEMMA ReturnNowFits ==
    ASSUME IInv, NEW u \in Units,
           NEW readings \in [DOMAIN units[checking] -> JointReadings],
           ~IsEmpty(ReturnNow(u, readings))
    PROVE  LET now == ReturnNow(u, readings)
           IN  /\ checking # 0 /\ owner[u] # checking
               /\ IsReturn(now) /\ now.perception # NothingPerceived
               /\ now.id = IF u \in DOMAIN returns[checking]
                           THEN returns[checking][u].id
                           ELSE nextReturnsId[checking]
<1> USE DEF IInv
<1> DEFINE before == IF u \in DOMAIN returns[checking]
                     THEN returns[checking][u] ELSE NewReturn(checking)
           now == ReturnNow(u, readings)
<1>1. /\ checking \in Players /\ IsReturns(returns[checking])
      /\ DOMAIN units[checking] \subseteq UnitIds
      /\ nextReturnsId[checking] \in ReturnsIds
    BY DEF TypeOK, IsIndex
<1>2. /\ IsReturn(before)
      /\ before.id = IF u \in DOMAIN returns[checking]
                     THEN returns[checking][u].id ELSE nextReturnsId[checking]
      /\ u \notin DOMAIN returns[checking] => IsEmpty(before)
  <2>1. CASE u \in DOMAIN returns[checking]
      BY <1>1, <2>1 DEF IsReturns
  <2>2. CASE u \notin DOMAIN returns[checking]
    <3>1. before = NewReturn(checking)
        BY <2>2
    <3>2. /\ IsIndex(EmptyIndex, UnitIds, [Sensors -> Readings])
          /\ DOMAIN EmptyIndex = {}
        BY EmptyIndexFits
    <3>3. before = [id |-> nextReturnsId[checking], perception |-> {},
                    sensers |-> EmptyIndex, dirty |-> FALSE]
        BY <3>1 DEF NewReturn, NothingPerceived
    <3> HIDE DEF before
    <3> QED
        BY <1>1, <2>2, <3>2, <3>3 DEF IsReturn, IsEmpty
  <2> QED
      BY <2>1, <2>2
<1>3. now = Updated(before, checking, u, readings)
    BY DEF ReturnNow
<1> HIDE DEF before, now
<1>4. CASE checking = 0
  <2>1. IsEmpty(before)
      BY <1>2, <1>4 DEF ReturnsTold
  <2> DEFINE flag == before.dirty \/ before.perception # {"unit"}
  <2>2. now = [before EXCEPT !.perception = {"unit"}, !.dirty = flag]
      BY <1>3, <1>4, Zenon DEF Updated
  <2> HIDE DEF flag
  <2>3. now.sensers = before.sensers
      BY <1>2, <2>2 DEF IsReturn
  <2>4. IsEmpty(now)
      BY <2>1, <2>3 DEF IsEmpty
  <2> QED
      BY <2>4 DEF now
<1>5. CASE checking # 0 /\ owner[u] = checking
  <2>1. now = [before EXCEPT !.sensers = EmptyIndex]
      BY <1>3, <1>5 DEF Updated
  <2>2. DOMAIN EmptyIndex = {}
      BY DEF EmptyIndex
  <2>3. IsEmpty(now)
      BY <1>2, <2>1, <2>2 DEF IsReturn, IsEmpty
  <2> QED
      BY <2>3 DEF now
<1>6. CASE checking # 0 /\ owner[u] # checking
  <2>1. now = Sensed(before, checking, readings)
      BY <1>3, <1>6 DEF Updated
  <2>2. /\ IsReturn(now) /\ now.id = before.id
        /\ IsEmpty(now) <=> now.perception = NothingPerceived
      BY <1>1, <1>2, <2>1, SensedFits
  <2> QED
      BY <1>2, <1>6, <2>2 DEF now
<1> QED
    BY <1>4, <1>5, <1>6

\* An update does not change the id.
LEMMA UpdatedId ==
    ASSUME IInv, NEW u \in Units, checking \in Players,
           NEW readings \in [DOMAIN units[checking] -> JointReadings],
           u \in DOMAIN returns[checking]
    PROVE  ReturnNow(u, readings).id = returns[checking][u].id
<1> DEFINE before == returns[checking][u]
           now == ReturnNow(u, readings)
<1>1. IsReturn(before) /\ DOMAIN units[checking] \subseteq UnitIds
    BY DEF IInv, TypeOK, IsReturns, IsIndex
<1>2. now = Updated(before, checking, u, readings)
    BY DEF ReturnNow
<1> HIDE DEF before, now
<1>3. CASE checking = 0
  <2> DEFINE flag == before.dirty \/ before.perception # {"unit"}
  <2>1. now = [before EXCEPT !.perception = {"unit"}, !.dirty = flag]
      BY <1>2, <1>3, Zenon DEF Updated
  <2> HIDE DEF flag
  <2> QED
      BY <1>1, <2>1 DEF IsReturn, before, now
<1>4. CASE checking # 0 /\ owner[u] = checking
  <2>1. now = [before EXCEPT !.sensers = EmptyIndex]
      BY <1>2, <1>4 DEF Updated
  <2> QED
      BY <1>1, <2>1 DEF IsReturn, before, now
<1>5. CASE checking # 0 /\ owner[u] # checking
  <2>1. now = Sensed(before, checking, readings)
      BY <1>2, <1>5 DEF Updated
  <2> QED
      BY <1>1, <2>1, SensedFits DEF before, now
<1> QED
    BY <1>3, <1>4, <1>5

-----------------------------------------------------------------------------
(* Player::checkSensorReturns *)

\* What is true of the returns of player p when they are new, and the clients
\* know view
ReturnsFit(p, new, next, view) ==
    /\ p = 0 => DOMAIN new = {}
    /\ IsReturns(new) /\ next \in ReturnsIds
    /\ \A w \in DOMAIN new :
         /\ new[w].id < next
         /\ IsEmpty(new[w]) <=> new[w].perception = NothingPerceived
         /\ IsEmpty(new[w]) <=> w \notin alive
         /\ \A v \in DOMAIN new : new[w].id = new[v].id => w = v
    /\ IsView(view, UnitIds, ReturnsIds, Statuses)
    /\ view.units = views[p].units /\ ~view.mistaken
    /\ DOMAIN view.returns = {new[w].id : w \in DOMAIN new}

LEMMA AllReturnsFit ==
    ASSUME IInv, NEW p \in Players
    PROVE  ReturnsFit(p, returns[p], nextReturnsId[p], views[p])
<1> USE DEF IInv
<1>1. /\ IsReturns(returns[p]) /\ nextReturnsId[p] \in ReturnsIds
      /\ IsView(views[p], UnitIds, ReturnsIds, Statuses)
    BY DEF TypeOK
<1>2. \A w \in DOMAIN returns[p] :
        /\ returns[p][w].id < nextReturnsId[p]
        /\ IsEmpty(returns[p][w]) <=> returns[p][w].perception = NothingPerceived
        /\ IsEmpty(returns[p][w]) <=> w \notin alive
        /\ \A v \in DOMAIN returns[p] : returns[p][w].id = returns[p][v].id => w = v
    BY DEF ReturnsTold, EmptyMeansGone
<1>3. /\ p = 0 => DOMAIN returns[p] = {}
      /\ ~views[p].mistaken
      /\ DOMAIN views[p].returns = {returns[p][w].id : w \in DOMAIN returns[p]}
    BY DEF ReturnsTold, ReturnIds, ClientNeverMistaken
<1> QED
    BY <1>1, <1>2, <1>3 DEF ReturnsFit

\* A step of either loop at some returns of the player whose turn it is
LEMMA LoopIInv ==
    ASSUME IInv, NEW p \in Players, p = checking, NEW new, NEW next, NEW view,
           ReturnsFit(p, new, next, view),
           returns' = [returns EXCEPT ![p] = new],
           nextReturnsId' = [nextReturnsId EXCEPT ![p] = next],
           views' = [views EXCEPT ![p] = view],
           UNCHANGED <<phase, checking, unitVars, failed>>,
           unchecked' \subseteq unchecked,
           phase \in {"destroyed", "visible"},
           phase = "visible" =>
              \A w \in DOMAIN new : w \in unchecked' \/ SensesOthers(p, w)
    PROVE  IInv'
<1> USE DEF IInv, unitVars
<1>1. /\ returns' = [q \in Players |-> returns'[q]]
      /\ views' = [q \in Players |-> views'[q]]
      /\ nextReturnsId' \in [Players -> ReturnsIds]
      /\ returns'[p] = new /\ views'[p] = view /\ nextReturnsId'[p] = next
      /\ \A q \in Players \ {p} :
            /\ returns'[q] = returns[q] /\ views'[q] = views[q]
            /\ nextReturnsId'[q] = nextReturnsId[q]
    BY DEF TypeOK, ReturnsFit
<1>2. \A q \in Players :
        ReturnsFit(q, returns'[q], nextReturnsId'[q], views'[q])
    BY <1>1, AllReturnsFit
<1>3. TypeOK'
  <2>1. \A q \in Players :
          /\ IsReturns(returns'[q])
          /\ IsView(views'[q], UnitIds, ReturnsIds, Statuses)
      BY <1>2 DEF ReturnsFit
  <2>2. unchecked' \subseteq Units
      BY DEF TypeOK
  <2> QED
      BY <1>1, <2>1, <2>2 DEF TypeOK
<1>4. OwnersAgree'
    BY DEF OwnersAgree
<1>5. UnitsTold'
  <2>1. \A q \in Players : views'[q].units = views[q].units
      BY <1>2 DEF ReturnsFit
  <2>2. \A w \in alive : owner[w] \in Players
      BY DEF TypeOK
  <2> QED
      BY <2>1, <2>2 DEF UnitsTold
<1>6. EmptyMeansGone'
    BY <1>2 DEF ReturnsFit, EmptyMeansGone
<1>7. ReturnsTold'
  <2>1. 0 \in Players
      BY PlayersAssumption DEF Players
  <2>2. DOMAIN returns'[0] = {}
      BY <1>2, <2>1 DEF ReturnsFit
  <2>3. \A q \in Players : \A w \in DOMAIN returns'[q] :
          /\ returns'[q][w].id < nextReturnsId'[q]
          /\ IsEmpty(returns'[q][w]) <=> returns'[q][w].perception = NothingPerceived
          /\ \A v \in DOMAIN returns'[q] :
               returns'[q][w].id = returns'[q][v].id => w = v
      BY <1>2 DEF ReturnsFit
  <2>4. \A q \in Players : DOMAIN views'[q].returns = ReturnIds(q)'
      BY <1>2 DEF ReturnsFit, ReturnIds
  <2> QED
      BY <2>2, <2>3, <2>4 DEF ReturnsTold
<1>8. PlayersChecked'
  <2>1. ~(p < checking)
      BY DEF Players
  <2>2. \A q \in Players : q < checking =>
            \A w \in DOMAIN returns'[q] : SensesOthers(q, w)
      BY <1>1, <2>1 DEF PlayersChecked
  <2>3. phase = "visible" =>
            /\ unchecked' \subseteq alive
            /\ \A w \in DOMAIN returns'[p] :
                 w \in alive /\ (w \in unchecked' \/ SensesOthers(p, w))
      BY <1>1 DEF PlayersChecked, SensesOthers
  <2> QED
      BY <2>2, <2>3 DEF PlayersChecked, SensesOthers
<1>9. ServerNeverFails' /\ ClientNeverMistaken'
    BY <1>2 DEF ReturnsFit, ServerNeverFails, ClientNeverMistaken
<1> QED
    BY <1>3, <1>4, <1>5, <1>6, <1>7, <1>8, <1>9

\* A return is dropped, and the clients are told.
LEMMA DropFits ==
    ASSUME IInv, NEW p \in Players, NEW u \in DOMAIN returns[p]
    PROVE  ReturnsFit(p, Without(returns[p], u), nextReturnsId[p],
                      ReturnsRemoved(views[p], returns[p][u].id))
<1> DEFINE new == Without(returns[p], u)
           id == returns[p][u].id
           view == ReturnsRemoved(views[p], id)
<1>1. ReturnsFit(p, returns[p], nextReturnsId[p], views[p])
    BY AllReturnsFit
<1>2. IsReturns(returns[p])
    BY <1>1 DEF ReturnsFit
<1>3. /\ DOMAIN new = DOMAIN returns[p] \ {u}
      /\ new = [w \in DOMAIN new |-> new[w]]
      /\ \A w \in DOMAIN new : new[w] = returns[p][w]
    BY DEF Without, Restrict
<1> HIDE DEF new
<1>4. IsReturns(new)
    BY <1>2, <1>3 DEF IsReturns
<1>5. id \in DOMAIN views[p].returns
    BY <1>1 DEF ReturnsFit
<1>6. /\ IsView(view, UnitIds, ReturnsIds, Statuses)
      /\ view.units = views[p].units
      /\ view.returns = Without(views[p].returns, id)
      /\ view.mistaken = views[p].mistaken
    BY <1>1, <1>5, ReturnsRemovedView DEF ReturnsFit
<1> HIDE DEF view
<1>7. DOMAIN view.returns = DOMAIN views[p].returns \ {id}
    BY <1>6 DEF Without, Restrict
<1>8. DOMAIN view.returns = {new[w].id : w \in DOMAIN new}
    BY <1>1, <1>3, <1>7 DEF ReturnsFit
<1>9. /\ p = 0 => DOMAIN new = {}
      /\ nextReturnsId[p] \in ReturnsIds
      /\ \A w \in DOMAIN new :
           /\ new[w].id < nextReturnsId[p]
           /\ IsEmpty(new[w]) <=> new[w].perception = NothingPerceived
           /\ IsEmpty(new[w]) <=> w \notin alive
           /\ \A v \in DOMAIN new : new[w].id = new[v].id => w = v
    BY <1>1, <1>3 DEF ReturnsFit
<1> QED
    BY <1>1, <1>4, <1>6, <1>8, <1>9 DEF ReturnsFit, new, view

LEMMA DropDestroyedIInv ==
    ASSUME IInv, NEW u \in Units, DropDestroyed(u) PROVE IInv'
<1> USE DEF IInv
<1> DEFINE id == returns[checking][u].id
           new == Without(returns[checking], u)
           view == ReturnsRemoved(views[checking], id)
<1>1. /\ phase = "destroyed" /\ u \in DOMAIN returns[checking]
      /\ IsEmpty(returns[checking][u])
      /\ failed' = (failed \/ returns[checking][u].perception # NothingPerceived)
      /\ returns' = [returns EXCEPT ![checking] = new]
      /\ views' = [views EXCEPT ![checking] = view]
      /\ UNCHANGED <<phase, checking, unchecked, unitVars, nextReturnsId>>
    BY DEF DropDestroyed, tickVars
<1>2. /\ checking \in Players
      /\ nextReturnsId' = [nextReturnsId EXCEPT ![checking] = nextReturnsId[checking]]
    BY <1>1 DEF TypeOK
<1>3. ReturnsFit(checking, new, nextReturnsId[checking], view)
    BY <1>1, <1>2, DropFits
<1>4. failed' = failed
  <2>1. returns[checking][u].perception = NothingPerceived
      BY <1>1, <1>2 DEF ReturnsTold
  <2>2. failed = FALSE
      BY DEF ServerNeverFails, TypeOK
  <2> QED
      BY <1>1, <2>1, <2>2
<1> HIDE DEF new, view
<1> QED
    BY <1>1, <1>2, <1>3, <1>4, LoopIInv

\* A return of a living unit is put in place, for the first time or again, and
\* the clients are told or, if they know of it, may not be.
LEMMA PutFits ==
    ASSUME IInv, NEW p \in Players, p # 0, NEW u \in Units, u \in alive,
           NEW return, IsReturn(return), ~IsEmpty(return),
           return.perception # NothingPerceived,
           NEW next \in ReturnsIds,
           \/ /\ u \in DOMAIN returns[p] /\ return.id = returns[p][u].id
              /\ next = nextReturnsId[p]
           \/ /\ u \notin DOMAIN returns[p] /\ return.id = nextReturnsId[p]
              /\ next = nextReturnsId[p] + 1,
           NEW view, IsView(view, UnitIds, ReturnsIds, Statuses),
           view.units = views[p].units, ~view.mistaken,
           DOMAIN view.returns = DOMAIN views[p].returns \cup {return.id}
    PROVE  ReturnsFit(p, With(returns[p], u, return), next, view)
<1> DEFINE new == With(returns[p], u, return)
<1>1. ReturnsFit(p, returns[p], nextReturnsId[p], views[p])
    BY AllReturnsFit
<1>2. IsReturns(returns[p])
    BY <1>1 DEF ReturnsFit
<1>3. /\ DOMAIN new = DOMAIN returns[p] \cup {u}
      /\ new = [w \in DOMAIN new |-> new[w]]
      /\ new[u] = return
      /\ \A w \in DOMAIN returns[p] \ {u} : new[w] = returns[p][w]
    BY DEF With
<1> HIDE DEF new
<1>4. IsReturns(new)
    BY <1>2, <1>3 DEF IsReturns
<1>5. /\ nextReturnsId[p] \in Nat /\ next \in Nat /\ nextReturnsId[p] <= next
      /\ return.id < next
      /\ \A w \in DOMAIN returns[p] \ {u} :
           /\ returns[p][w].id \in Nat /\ returns[p][w].id < nextReturnsId[p]
           /\ returns[p][w].id # return.id
  <2>1. ReturnsIds \subseteq Nat
      BY BoundsAssumption DEF ReturnsIds
  <2>2. nextReturnsId[p] \in Nat /\ next \in Nat /\ return.id \in Nat
      BY <1>1, <2>1 DEF ReturnsFit, IsReturn
  <2>3. \A w \in DOMAIN returns[p] : returns[p][w].id \in Nat
      BY <1>2, <2>1 DEF IsReturns, IsReturn
  <2>4. \A w \in DOMAIN returns[p] : returns[p][w].id < nextReturnsId[p]
      BY <1>1 DEF ReturnsFit
  <2>5. \A w, v \in DOMAIN returns[p] : returns[p][w].id = returns[p][v].id => w = v
      BY <1>1 DEF ReturnsFit
  <2>6. CASE /\ u \in DOMAIN returns[p] /\ return.id = returns[p][u].id
             /\ next = nextReturnsId[p]
      BY <2>2, <2>3, <2>4, <2>5, <2>6
  <2>7. CASE /\ u \notin DOMAIN returns[p] /\ return.id = nextReturnsId[p]
             /\ next = nextReturnsId[p] + 1
    <3>1. \A w \in DOMAIN returns[p] : returns[p][w].id # nextReturnsId[p]
        BY <2>2, <2>3, <2>4
    <3> QED
        BY <2>2, <2>3, <2>4, <2>7, <3>1
  <2> QED
      BY <2>6, <2>7
<1>6. DOMAIN view.returns = {new[w].id : w \in DOMAIN new}
  <2>1. DOMAIN views[p].returns = {returns[p][w].id : w \in DOMAIN returns[p]}
      BY <1>1 DEF ReturnsFit
  <2> QED
      BY <1>3, <2>1
<1>7. \A w \in DOMAIN new :
        /\ new[w].id < next
        /\ IsEmpty(new[w]) <=> new[w].perception = NothingPerceived
        /\ IsEmpty(new[w]) <=> w \notin alive
  <2> TAKE w \in DOMAIN new
  <2>1. CASE w = u
      BY <1>3, <1>5, <2>1
  <2>2. CASE w # u
    <3>1. w \in DOMAIN returns[p] \ {u} /\ new[w] = returns[p][w]
        BY <1>3, <2>2
    <3> QED
        BY <1>1, <1>5, <3>1 DEF ReturnsFit
  <2> QED
      BY <2>1, <2>2
<1>8. \A w, v \in DOMAIN new : new[w].id = new[v].id => w = v
    BY <1>1, <1>3, <1>5 DEF ReturnsFit
<1> QED
    BY <1>4, <1>6, <1>7, <1>8 DEF ReturnsFit, new

\* What a visit finds out about the unit, whichever way it ends
LEMMA VisitFacts ==
    ASSUME IInv, NEW u \in Units, Visit(u)
    PROVE  /\ phase = "visible" /\ u \in unchecked /\ u \in alive
           /\ checking \in Players
           /\ unchecked' = unchecked \ {u}
           /\ UNCHANGED <<phase, checking, unitVars, failed>>
           /\ nextReturnsId = [p \in Players |-> nextReturnsId[p]]
           /\ views = [p \in Players |-> views[p]]
           /\ \A w \in DOMAIN returns[checking] \ {u} :
                w \in unchecked' \/ SensesOthers(checking, w)
BY DEF IInv, TypeOK, Visit, PlayersChecked

LEMMA LoseReturnIInv ==
    ASSUME IInv, NEW u \in Units,
           NEW readings \in [DOMAIN units[checking] -> JointReadings],
           LoseReturn(u, readings)
    PROVE  IInv'
<1> DEFINE id == returns[checking][u].id
           new == Without(returns[checking], u)
           view == ReturnsRemoved(views[checking], id)
           now == ReturnNow(u, readings)
<1>1. /\ Visit(u) /\ u \in DOMAIN returns[checking]
      /\ returns' = [returns EXCEPT ![checking] = new]
      /\ views' = [views EXCEPT ![checking] = ReturnsRemoved(@, now.id)]
      /\ UNCHANGED nextReturnsId
    BY DEF LoseReturn
<1>2. /\ phase = "visible" /\ checking \in Players /\ unchecked' \subseteq unchecked
      /\ UNCHANGED <<phase, checking, unitVars, failed>>
      /\ nextReturnsId' = [nextReturnsId EXCEPT ![checking] = nextReturnsId[checking]]
      /\ \A w \in DOMAIN returns[checking] \ {u} :
           w \in unchecked' \/ SensesOthers(checking, w)
    BY <1>1, VisitFacts
<1>3. now.id = id
    BY <1>1, <1>2, UpdatedId
<1>4. views' = [views EXCEPT ![checking] = view]
    BY <1>1, <1>3
<1>5. ReturnsFit(checking, new, nextReturnsId[checking], view)
    BY <1>1, <1>2, DropFits
<1>6. DOMAIN new = DOMAIN returns[checking] \ {u}
    BY DEF Without, Restrict
<1> HIDE DEF new, view
<1> QED
    BY <1>1, <1>2, <1>4, <1>5, <1>6, LoopIInv

LEMMA SendReturnIInv ==
    ASSUME IInv, NEW u \in Units,
           NEW readings \in [DOMAIN units[checking] -> JointReadings],
           SendReturn(u, readings)
    PROVE  IInv'
<1> DEFINE now == ReturnNow(u, readings)
           clean == Clean(now)
           new == With(returns[checking], u, clean)
           view == ReturnsAltered(views[checking], now.id, ReportOn(u, now))
<1>1. /\ Visit(u) /\ u \in DOMAIN returns[checking] /\ ~IsEmpty(now)
      /\ returns' = [returns EXCEPT ![checking][u] = clean]
      /\ views' = [views EXCEPT ![checking] = view]
      /\ UNCHANGED nextReturnsId
    BY DEF SendReturn
<1>2. /\ phase = "visible" /\ checking \in Players /\ unchecked' \subseteq unchecked
      /\ u \in alive
      /\ UNCHANGED <<phase, checking, unitVars, failed>>
      /\ nextReturnsId' = [nextReturnsId EXCEPT ![checking] = nextReturnsId[checking]]
      /\ \A w \in DOMAIN returns[checking] \ {u} :
           w \in unchecked' \/ SensesOthers(checking, w)
    BY <1>1, VisitFacts
<1>3. /\ checking # 0 /\ owner[u] # checking
      /\ IsReturn(now) /\ now.perception # NothingPerceived
      /\ now.id = returns[checking][u].id
    BY <1>1, ReturnNowFits
<1>4. ReturnsFit(checking, returns[checking], nextReturnsId[checking], views[checking])
    BY <1>2, AllReturnsFit
<1>5. /\ IsReturns(returns[checking]) /\ nextReturnsId[checking] \in ReturnsIds
      /\ IsView(views[checking], UnitIds, ReturnsIds, Statuses)
      /\ now.id \in DOMAIN views[checking].returns
      /\ ~views[checking].mistaken
    BY <1>1, <1>3, <1>4 DEF ReturnsFit
<1>6. now.perception \in SUBSET Perceptions /\ status[u] \in Statuses
    BY <1>3 DEF IsReturn, IInv, TypeOK
<1>7. /\ IsView(view, UnitIds, ReturnsIds, Statuses)
      /\ view.units = views[checking].units
      /\ view.returns = With(views[checking].returns, now.id, Fresh(ReportOn(u, now)))
      /\ view.mistaken = views[checking].mistaken
    BY <1>5, <1>6, ReturnsAlteredView DEF ReportOn
<1>8. DOMAIN view.returns = DOMAIN views[checking].returns \cup {now.id}
    BY <1>7 DEF With
<1>9. returns' = [returns EXCEPT ![checking] = new]
    BY <1>1, <1>5 DEF With, IsReturns
<1> HIDE DEF now, view
<1>10. /\ IsReturn(clean) /\ clean.id = now.id /\ clean.perception = now.perception
       /\ clean.sensers = now.sensers
    BY <1>3, CleanFits
<1> HIDE DEF clean
<1>11. ReturnsFit(checking, new, nextReturnsId[checking], view)
    BY <1>1, <1>2, <1>3, <1>5, <1>7, <1>8, <1>10, PutFits DEF IsEmpty
<1>12. \A w \in DOMAIN new : w \in unchecked' \/ SensesOthers(checking, w)
    BY <1>2, <1>3 DEF With, SensesOthers
<1> HIDE DEF new
<1> QED
    BY <1>1, <1>2, <1>9, <1>11, <1>12, LoopIInv

LEMMA KeepReturnIInv ==
    ASSUME IInv, NEW u \in Units,
           NEW readings \in [DOMAIN units[checking] -> JointReadings],
           KeepReturn(u, readings)
    PROVE  IInv'
<1> DEFINE now == ReturnNow(u, readings)
           new == With(returns[checking], u, now)
           view == views[checking]
<1>1. /\ Visit(u) /\ u \in DOMAIN returns[checking] /\ ~IsEmpty(now)
      /\ returns' = [returns EXCEPT ![checking][u] = now]
      /\ UNCHANGED <<nextReturnsId, views>>
    BY DEF KeepReturn
<1>2. /\ phase = "visible" /\ checking \in Players /\ unchecked' \subseteq unchecked
      /\ u \in alive
      /\ UNCHANGED <<phase, checking, unitVars, failed>>
      /\ nextReturnsId' = [nextReturnsId EXCEPT ![checking] = nextReturnsId[checking]]
      /\ views' = [views EXCEPT ![checking] = view]
      /\ \A w \in DOMAIN returns[checking] \ {u} :
           w \in unchecked' \/ SensesOthers(checking, w)
    BY <1>1, VisitFacts
<1>3. /\ checking # 0 /\ owner[u] # checking
      /\ IsReturn(now) /\ now.perception # NothingPerceived
      /\ now.id = returns[checking][u].id
    BY <1>1, ReturnNowFits
<1>4. ReturnsFit(checking, returns[checking], nextReturnsId[checking], view)
    BY <1>2, AllReturnsFit
<1>5. /\ IsReturns(returns[checking]) /\ nextReturnsId[checking] \in ReturnsIds
      /\ IsView(view, UnitIds, ReturnsIds, Statuses)
      /\ DOMAIN view.returns = DOMAIN view.returns \cup {now.id}
      /\ ~view.mistaken
    BY <1>1, <1>3, <1>4 DEF ReturnsFit
<1>6. returns' = [returns EXCEPT ![checking] = new]
    BY <1>1, <1>5 DEF With, IsReturns
<1> HIDE DEF now
<1>7. ReturnsFit(checking, new, nextReturnsId[checking], view)
    BY <1>1, <1>2, <1>3, <1>5, PutFits
<1>8. \A w \in DOMAIN new : w \in unchecked' \/ SensesOthers(checking, w)
    BY <1>2, <1>3 DEF With, SensesOthers
<1> HIDE DEF new, view
<1> QED
    BY <1>1, <1>2, <1>6, <1>7, <1>8, LoopIInv

LEMMA AddReturnIInv ==
    ASSUME IInv, NEW u \in Units,
           NEW readings \in [DOMAIN units[checking] -> JointReadings],
           AddReturn(u, readings)
    PROVE  IInv'
<1> DEFINE now == ReturnNow(u, readings)
           clean == Clean(now)
           new == With(returns[checking], u, clean)
           next == nextReturnsId[checking] + 1
           view == ReturnsAdded(views[checking], now.id, ReportOn(u, now))
<1>1. /\ Visit(u) /\ u \notin DOMAIN returns[checking] /\ ~IsEmpty(now)
      /\ nextReturnsId[checking] < MaxReturnsId
      /\ returns' = [returns EXCEPT ![checking] = new]
      /\ nextReturnsId' = [nextReturnsId EXCEPT ![checking] = next]
      /\ views' = [views EXCEPT ![checking] = view]
    BY DEF AddReturn
<1>2. /\ phase = "visible" /\ checking \in Players /\ unchecked' \subseteq unchecked
      /\ u \in alive
      /\ UNCHANGED <<phase, checking, unitVars, failed>>
      /\ \A w \in DOMAIN returns[checking] \ {u} :
           w \in unchecked' \/ SensesOthers(checking, w)
    BY <1>1, VisitFacts
<1>3. /\ checking # 0 /\ owner[u] # checking
      /\ IsReturn(now) /\ now.perception # NothingPerceived
      /\ now.id = nextReturnsId[checking]
    BY <1>1, ReturnNowFits
<1>4. ReturnsFit(checking, returns[checking], nextReturnsId[checking], views[checking])
    BY <1>2, AllReturnsFit
<1>5. /\ nextReturnsId[checking] \in ReturnsIds /\ next \in ReturnsIds
      /\ IsView(views[checking], UnitIds, ReturnsIds, Statuses)
      /\ ~views[checking].mistaken
  <2>1. nextReturnsId[checking] \in ReturnsIds
      BY <1>4 DEF ReturnsFit
  <2> QED
      BY <1>1, <1>4, <2>1, BoundsAssumption DEF ReturnsFit, ReturnsIds
<1>6. now.id \notin DOMAIN views[checking].returns
  <2>4. ReturnsIds \subseteq Nat
      BY BoundsAssumption DEF ReturnsIds
  <2>1. \A w \in DOMAIN returns[checking] :
          /\ returns[checking][w].id < nextReturnsId[checking]
          /\ returns[checking][w].id \in Nat
    <3>1. \A w \in DOMAIN returns[checking] : returns[checking][w].id \in ReturnsIds
        BY <1>4 DEF ReturnsFit, IsReturns, IsReturn
    <3> QED
        BY <1>4, <2>4, <3>1 DEF ReturnsFit
  <2>2. nextReturnsId[checking] \in Nat
      BY <1>5, <2>4
  <2>3. DOMAIN views[checking].returns =
            {returns[checking][w].id : w \in DOMAIN returns[checking]}
      BY <1>4 DEF ReturnsFit
  <2> QED
      BY <1>3, <2>1, <2>2, <2>3
<1>7. now.perception \in SUBSET Perceptions /\ status[u] \in Statuses
    BY <1>3 DEF IsReturn, IInv, TypeOK
<1>8. /\ IsView(view, UnitIds, ReturnsIds, Statuses)
      /\ view.units = views[checking].units
      /\ view.returns = With(views[checking].returns, now.id, Fresh(ReportOn(u, now)))
      /\ view.mistaken = views[checking].mistaken
    BY <1>3, <1>5, <1>6, <1>7, ReturnsAddedView DEF ReportOn
<1>9. DOMAIN view.returns = DOMAIN views[checking].returns \cup {now.id}
    BY <1>8 DEF With
<1> HIDE DEF now, view
<1>10. /\ IsReturn(clean) /\ clean.id = now.id /\ clean.perception = now.perception
       /\ clean.sensers = now.sensers
    BY <1>3, CleanFits
<1> HIDE DEF clean
<1>11. ReturnsFit(checking, new, next, view)
    BY <1>1, <1>2, <1>3, <1>5, <1>8, <1>9, <1>10, PutFits DEF IsEmpty
<1>12. \A w \in DOMAIN new : w \in unchecked' \/ SensesOthers(checking, w)
    BY <1>2, <1>3 DEF With, SensesOthers
<1> HIDE DEF new, next
<1> QED
    BY <1>1, <1>2, <1>11, <1>12, LoopIInv

LEMMA SeeNothingIInv ==
    ASSUME IInv, NEW u \in Units, NEW readings, SeeNothing(u, readings)
    PROVE  IInv'
<1> USE DEF IInv
<1>1. /\ Visit(u) /\ u \notin DOMAIN returns[checking]
      /\ UNCHANGED <<returnVars, views>>
    BY DEF SeeNothing
<1>2. /\ phase = "visible" /\ unchecked' = unchecked \ {u}
      /\ UNCHANGED <<phase, checking, unitVars, failed>>
    BY <1>1 DEF Visit
<1>3. PlayersChecked'
    BY <1>1, <1>2 DEF PlayersChecked, SensesOthers, unitVars, returnVars
<1> QED
    BY <1>1, <1>2, <1>3, TickIInv DEF TypeOK

-----------------------------------------------------------------------------
(* The theorems *)

LEMMA NextIInv == IInv /\ [Next]_vars => IInv'
<1> SUFFICES ASSUME IInv, [Next]_vars PROVE IInv'
    OBVIOUS
<1>1. CASE Act
  <2>1. ASSUME NEW u \in Units, NEW p \in Players,
               NEW on \in SUBSET (Sensors \cap Switched), Spawn(u, p, on)
        PROVE  IInv'
      BY <2>1, SpawnIInv
  <2>2. ASSUME NEW u \in Units, NEW s \in Sensors \cap Switched,
               NEW on \in BOOLEAN, SwitchSensor(u, s, on)
        PROVE  IInv'
      BY <2>2, SwitchSensorIInv
  <2>3. ASSUME NEW u \in Units, NEW p \in Players, ChangeOwner(u, p)
        PROVE  IInv'
      BY <2>3, ChangeOwnerIInv
  <2>4. ASSUME NEW u \in Units, RemoveUnit(u)
        PROVE  IInv'
      BY <2>4, RemoveUnitIInv
  <2> QED
      BY <1>1, <2>1, <2>2, <2>3, <2>4 DEF Act
<1>2. CASE CheckUnit
  <2> PICK u \in unchecked :
        \E readings \in [DOMAIN units[checking] -> JointReadings] :
            \/ LoseReturn(u, readings)
            \/ SendReturn(u, readings)
            \/ KeepReturn(u, readings)
            \/ AddReturn(u, readings)
            \/ SeeNothing(u, readings)
      BY <1>2 DEF CheckUnit
  <2> PICK readings \in [DOMAIN units[checking] -> JointReadings] :
        \/ LoseReturn(u, readings)
        \/ SendReturn(u, readings)
        \/ KeepReturn(u, readings)
        \/ AddReturn(u, readings)
        \/ SeeNothing(u, readings)
      OBVIOUS
  <2>1. u \in Units
      BY DEF IInv, TypeOK
  <2>2. CASE LoseReturn(u, readings)
      BY <2>1, <2>2, LoseReturnIInv
  <2>3. CASE SendReturn(u, readings)
      BY <2>1, <2>3, SendReturnIInv
  <2>4. CASE KeepReturn(u, readings)
      BY <2>1, <2>4, KeepReturnIInv
  <2>5. CASE AddReturn(u, readings)
      BY <2>1, <2>5, AddReturnIInv
  <2>6. CASE SeeNothing(u, readings)
      BY <2>1, <2>6, SeeNothingIInv
  <2> QED
      BY <2>2, <2>3, <2>4, <2>5, <2>6
<1>3. CASE CheckSensorReturns
  <2>1. ASSUME NEW u \in Units, DropDestroyed(u)
        PROVE  IInv'
      BY <2>1, DropDestroyedIInv
  <2> QED
      BY <1>2, <1>3, <2>1, BeginChecksIInv, DestroyedDoneIInv, NextPlayerIInv,
         ChecksDoneIInv
      DEF CheckSensorReturns
<1>4. CASE EndOfTick
  <2>1. ASSUME NEW u \in Units, ClearDirty(u)
        PROVE  IInv'
      BY <2>1, ClearDirtyIInv
  <2> QED
      BY <1>4, <2>1, TickEndsIInv, NextTickIInv DEF EndOfTick
<1>5. CASE UNCHANGED vars
    BY <1>5, StutterIInv
<1> QED
    BY <1>1, <1>3, <1>4, <1>5 DEF Next

\* The inductive invariant holds: between any two actions, the server's lists
\* of units and of returns and what each client has been told of them fit.
THEOREM IInvHolds == Spec => []IInv
<1> QED
    BY InitIInv, NextIInv, PTL DEF Spec

\* Every variable keeps its type.
THEOREM TypeCorrect == Spec => []TypeOK
<1>1. IInv => TypeOK
    BY DEF IInv
<1> QED
    BY <1>1, IInvHolds, PTL

\* However units are spawned, given away and killed, the players' lists and the
\* units' owners and ids say the same.
THEOREM OwnersAlwaysAgree == Spec => []OwnersAgree
<1>1. IInv => OwnersAgree
    BY DEF IInv
<1> QED
    BY <1>1, IInvHolds, PTL

\* What the first loop of checkSensorReturns takes an empty return to prove, it
\* does: the unit is gone.
THEOREM EmptyProvesGone == Spec => []EmptyMeansGone
<1>1. IInv => EmptyMeansGone
    BY DEF IInv
<1> QED
    BY <1>1, IInvHolds, PTL

\* Units are where their owners say, and sensed by whom the returns say.
THEOREM BooksAlwaysAgree == Spec => []BooksAgree
<1>1. OwnersAgree /\ EmptyMeansGone => BooksAgree
    BY DEF BooksAgree
<1> QED
    BY <1>1, OwnersAlwaysAgree, EmptyProvesGone, PTL

\* None of the fatal errors and asserts of these functions is ever reached.
THEOREM ServerSafe == Spec => []ServerNeverFails
<1>1. IInv => ServerNeverFails
    BY DEF IInv
<1> QED
    BY <1>1, IInvHolds, PTL

\* Every update is about an id that the client knows, or does not, as it should.
THEOREM UpdatesFit == Spec => []ClientNeverMistaken
<1>1. IInv => ClientNeverMistaken
    BY DEF IInv
<1> QED
    BY <1>1, IInvHolds, PTL

\* The server never reaches a fatal error, and never sends a client an update
\* that does not fit what the client holds.
THEOREM NoSideErrs == Spec => []NeitherSideErrs
<1>1. ServerNeverFails /\ ClientNeverMistaken => NeitherSideErrs
    BY DEF NeitherSideErrs
<1> QED
    BY <1>1, ServerSafe, UpdatesFit, PTL

\* At the end of a tick each client has its player's units, as they are.
THEOREM UnitsAlwaysKnown == Spec => []UnitsKnown
<1>1. IInv => UnitsKnown
  <2> SUFFICES ASSUME IInv, phase = "ended", NEW p \in Players
               PROVE  views[p].units = [i \in DOMAIN units[p] |-> status[units[p][i]]]
      BY DEF UnitsKnown
  <2> USE DEF IInv
  <2>1. dirty = {}
      BY DEF PlayersChecked
  <2>2. views[p].units = [i \in DOMAIN units[p] |-> views[p].units[i]]
      BY DEF TypeOK, IsView, IsIndex, UnitsTold
  <2>3. \A i \in DOMAIN units[p] : views[p].units[i] = status[units[p][i]]
      BY <2>1 DEF OwnersAgree, UnitsTold
  <2> QED
      BY <2>2, <2>3
<1> QED
    BY <1>1, IInvHolds, PTL

\* At the end of a tick each client has its player's returns, by ids that are
\* distinct, and they are of living units of others.
THEOREM ReturnsAlwaysKnown == Spec => []ReturnsKnown
<1>1. IInv => ReturnsKnown
    BY DEF IInv, ReturnsKnown, ReturnsTold, ReturnIds, PlayersChecked, SensesOthers
<1> QED
    BY <1>1, IInvHolds, PTL

\* At the end of a tick no client misses a unit or a return of its player, or has
\* one too many.
THEOREM ViewsComplete == Spec => []ViewComplete
<1>1. UnitsKnown /\ ReturnsKnown => ViewComplete
    BY DEF ViewComplete
<1> QED
    BY <1>1, UnitsAlwaysKnown, ReturnsAlwaysKnown, PTL

=============================================================================
