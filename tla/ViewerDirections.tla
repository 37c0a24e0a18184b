---------------------------- MODULE ViewerDirections ----------------------------
(***************************************************************************)
(* The directions of the web viewer (nginx/html/viewer.js) once its map    *)
(* exists: the stops of the trip, their markers, the place card, and the   *)
(* answers that arrive late: names of points (reverse geocoding), the      *)
(* position of the browser and routes.                                     *)
(*                                                                         *)
(* The viewer compares points by identity: every point of the map it makes *)
(* is a new object, so a point here is a spot and the number of the object.*)
(* A request counter is modelled by the mark `newest` of the one request   *)
(* that still equals the counter.                                          *)
(***************************************************************************)
EXTENDS Naturals, Sequences, FiniteSets, SequencesExt

CONSTANTS
  Spot,         \* places of the map
  Profile,      \* means of transport
  MAX_POINTS,   \* stops of a trip (25 in the source)
  MaxGesture,   \* what the user does, and positions that arrive, in a behaviour
  MaxStop,      \* stops made in a behaviour
  MaxNaming,    \* names asked for at a time
  MaxAsked      \* calculations under way at a time

VARIABLES
  stops,          \* the trip: sequence of [id, point, label]
  activeStopId,   \* the stop the next click of the map fills
  focused,        \* the stop whose input has the focus, or NoStop
  nextStopId,
  opened,         \* the directions card is shown
  profile,
  routes,         \* the routes listed: those of a trip and a profile, or NoRoutes
  calculating,    \* POST /routes/calculate under way
  loaded,         \* the map has its style and the layers of the routes
  drawn,          \* what the layers of the routes show
  markers,        \* markers of the stops on the map
  place,          \* the place of the card: [point, name], or NoPlace
  naming,         \* reverse geocoding under way, for a stop or (NoStop) the card
  locating,       \* stops waiting for the position of the browser
  gestures        \* gestures so far; each makes at most one point, known by its number

directionsVars == <<stops, activeStopId, focused, nextStopId, opened, profile, routes,
                    calculating, loaded, drawn, markers, place, naming, locating, gestures>>

NoStop == 0
NoPoint == [at |-> "nowhere", object |-> 0]
NoPlace == [point |-> NoPoint, name |-> "none"]
NoRoutes == [trip |-> <<>>, by |-> "none"]

(* Labels: none, a text that names no address, or the name of a spot. *)
NoLabel == "none"
MapPoint == "Punto en el mapa"
OwnPosition == "Tu ubicación"
Label == {NoLabel, MapPoint, OwnPosition} \union Spot

ASSUME DirectionsAssumption ==
  MAX_POINTS \in Nat \ {0, 1} /\ {NoLabel, MapPoint, OwnPosition} \intersect Spot = {}

newStop(id) == [id |-> id, point |-> NoPoint, label |-> NoLabel]
Empties(s) == {i \in DOMAIN s : s[i].point = NoPoint}
FirstOf(I) == CHOOSE i \in I : \A j \in I : i <= j
FirstEmpty(s) == IF Empties(s) = {} THEN NoStop ELSE s[FirstOf(Empties(s))].id
Ids(s) == {s[i].id : i \in DOMAIN s}
IndexOf(id) == CHOOSE i \in DOMAIN stops : stops[i].id = id
Trip(s) == [i \in DOMAIN s |-> s[i].point.at]

stopRole(i, s) == IF i = 1 THEN "origin" ELSE IF i = Len(s) THEN "destination" ELSE "stop"

(* syncMarkers: one marker for each stop with a point. *)
Markers(s) == {[id |-> s[i].id, at |-> s[i].point.at, role |-> stopRole(i, s)] :
                 i \in DOMAIN s \ Empties(s)}

(* drawRoutes: the routes, joined by dotted links to the ends of the trip. *)
Picture(r, s) == [routes |-> r, ends |-> IF r = NoRoutes THEN <<>> ELSE <<s[1].point.at, Last(s).point.at>>]
drawRoutes(r, s) == drawn' = IF loaded THEN Picture(r, s) ELSE drawn

(* Mutant of Superseded: an older request still counts. *)
UnmarkedRequestsMutant(R) == R

Superseded(R) == {[q EXCEPT !.newest = FALSE] : q \in R}

(* calculate(): an incomplete trip clears the routes; otherwise the old ones stay until the answer. *)
calculate(s, p) ==
  IF Empties(s) # {}
  THEN /\ calculating' = Superseded(calculating)
       /\ routes' = NoRoutes
       /\ drawRoutes(NoRoutes, s)
  ELSE /\ calculating' = Superseded(calculating) \union {[trip |-> Trip(s), by |-> p, newest |-> TRUE]}
       /\ Cardinality(calculating') <= MaxAsked
       /\ UNCHANGED <<routes, drawn>>

(* renderStops puts the focus back on the row that had it, which makes its stop the active one;  *)
(* so does focusing another row afterwards.                                                      *)
Refocused(s, active, focus) ==
  LET kept == IF focused \in Ids(s) THEN focused ELSE NoStop
      now == IF focus # NoStop THEN focus ELSE kept
  IN /\ focused' = now
     /\ activeStopId' = IF now # NoStop THEN now ELSE active

(* update(): rows, markers and routes follow the stops. *)
update(s, active, focus) ==
  /\ stops' = s
  /\ Refocused(s, active, focus)
  /\ markers' = Markers(s)
  /\ calculate(s, profile)

setStop(id, point, label, focusNext) ==
  IF id \in Ids(stops)
  THEN LET s == [stops EXCEPT ![IndexOf(id)] = [id |-> id, point |-> point, label |-> label]]
           next == FirstEmpty(s)
       IN update(s, IF next # NoStop THEN next ELSE id, IF focusNext THEN next ELSE NoStop)
  ELSE UNCHANGED <<stops, activeStopId, focused, markers, calculating, routes, drawn>>

Gesture == gestures < MaxGesture /\ gestures' = gestures + 1
NewPoint(spot) == [at |-> spot, object |-> gestures + 1]
AskName(for, point) ==
  /\ naming' = naming \union {[for |-> for, point |-> point]}
  /\ Cardinality(naming') <= MaxNaming

DirectionsInit ==
  /\ stops = <<newStop(1), newStop(2)>>
  /\ nextStopId = 3
  /\ activeStopId = 1
  /\ focused = NoStop
  /\ opened \in BOOLEAN
  /\ profile \in Profile
  /\ routes = NoRoutes
  /\ calculating = {}
  /\ loaded = FALSE
  /\ drawn = Picture(NoRoutes, stops)
  /\ markers = {}
  /\ place = NoPlace
  /\ naming = {}
  /\ locating = {}
  /\ gestures = 0
-----------------------------------------------------------------------------
(* map 'load': the layers of the routes are added and filled. *)
MapLoads ==
  /\ ~loaded
  /\ loaded' = TRUE
  /\ drawn' = Picture(routes, stops)
  /\ UNCHANGED <<stops, activeStopId, focused, nextStopId, opened, profile, routes, calculating,
                 markers, place, naming, locating, gestures>>

(* A result of the suggestions of the row being edited: its point is a new object. *)
SelectForStop(id, spot) ==
  /\ opened
  /\ focused = id
  /\ Gesture
  /\ setStop(id, NewPoint(spot), spot, TRUE)
  /\ UNCHANGED <<nextStopId, opened, profile, loaded, place, naming, locating>>

(* Mutant of ClearText: the markers are not drawn again. *)
StaleMarkersMutant(id) ==
  /\ Gesture
  /\ opened
  /\ focused = id
  /\ stops[IndexOf(id)].point # NoPoint
  /\ LET s == [stops EXCEPT ![IndexOf(id)] = newStop(id)]
     IN stops' = s /\ calculate(s, profile)
  /\ UNCHANGED <<markers, activeStopId, focused, nextStopId, opened, profile, loaded, place,
                 naming, locating>>

(* The input of the row is emptied. *)
ClearText(id) ==
  /\ Gesture
  /\ opened
  /\ focused = id
  /\ stops[IndexOf(id)].point # NoPoint
  /\ LET s == [stops EXCEPT ![IndexOf(id)] = newStop(id)]
     IN stops' = s /\ markers' = Markers(s) /\ calculate(s, profile)
  /\ UNCHANGED <<activeStopId, focused, nextStopId, opened, profile, loaded, place, naming,
                 locating>>

Focus(id) ==
  /\ Gesture
  /\ opened
  /\ id \in Ids(stops)
  /\ focused' = id
  /\ activeStopId' = id
  /\ UNCHANGED <<stops, nextStopId, opened, profile, routes, calculating, loaded, drawn, markers,
                 place, naming, locating>>

Blur ==
  /\ focused # NoStop
  /\ focused' = NoStop
  /\ UNCHANGED <<stops, activeStopId, nextStopId, opened, profile, routes, calculating, loaded,
                 drawn, markers, place, naming, locating, gestures>>

moveStop(i, target) ==
  /\ Gesture
  /\ opened
  /\ i \in DOMAIN stops /\ target \in DOMAIN stops /\ (target = i + 1 \/ i = target + 1)
  /\ update([stops EXCEPT ![i] = stops[target], ![target] = stops[i]], activeStopId, stops[i].id)
  /\ UNCHANGED <<nextStopId, opened, profile, loaded, place, naming, locating>>

(* The ids of removed stops are not used again: newStop counts on. *)
removeStop(i) ==
  /\ Gesture
  /\ opened
  /\ i \in DOMAIN stops
  /\ LET shorter == Len(stops) > 2
         s == IF shorter THEN RemoveAt(stops, i) ELSE [stops EXCEPT ![i] = newStop(stops[i].id)]
         near == s[IF i <= Len(s) THEN i ELSE Len(s)].id
         active == IF ~shorter THEN stops[i].id
                   ELSE IF stops[i].id = activeStopId THEN near ELSE activeStopId
     IN update(s, active, near)
  /\ UNCHANGED <<nextStopId, opened, profile, loaded, place, naming, locating>>

(* addStop: a new stop before the destination, with the point of the place card or empty. *)
Inserted(point, label) ==
  LET id == nextStopId
      s == InsertAt(stops, Len(stops), [id |-> id, point |-> point, label |-> label])
      empty == FirstEmpty(s)
      active == IF point = NoPoint \/ empty = NoStop THEN id ELSE empty
  IN /\ nextStopId <= MaxStop
     /\ nextStopId' = nextStopId + 1
     /\ update(s, active, IF point = NoPoint THEN id ELSE NoStop)

addStop ==
  /\ Gesture
  /\ opened
  /\ Len(stops) < MAX_POINTS
  /\ Inserted(NoPoint, NoLabel)
  /\ UNCHANGED <<opened, profile, loaded, place, naming, locating>>

swapStops ==
  /\ Gesture
  /\ opened
  /\ update(Reverse(stops), activeStopId, NoStop)
  /\ UNCHANGED <<nextStopId, opened, profile, loaded, place, naming, locating>>

(* Button of the origin's row: the position arrives when the browser has it. *)
locate(id) ==
  /\ Gesture
  /\ opened
  /\ id = stops[1].id
  /\ locating' = locating \union {id}
  /\ UNCHANGED <<stops, activeStopId, focused, nextStopId, opened, profile, routes, calculating,
                 loaded, drawn, markers, place, naming>>

Located(id, spot) ==
  /\ Gesture
  /\ id \in locating
  /\ locating' = locating \ {id}
  /\ setStop(id, NewPoint(spot), OwnPosition, TRUE)
  /\ UNCHANGED <<nextStopId, opened, profile, loaded, place, naming>>

NotLocated(id) ==
  /\ id \in locating
  /\ locating' = locating \ {id}
  /\ UNCHANGED <<stops, activeStopId, focused, nextStopId, opened, profile, routes, calculating,
                 loaded, drawn, markers, place, naming, gestures>>

(* A marker is dropped elsewhere. *)
DragEnds(id, spot) ==
  /\ \E m \in markers : m.id = id
  /\ Gesture
  /\ setStop(id, NewPoint(spot), MapPoint, FALSE)
  /\ AskName(id, NewPoint(spot))
  /\ UNCHANGED <<nextStopId, opened, profile, loaded, place, locating>>

(* A click of the map fills the active stop if it is empty, else the first empty one, else it   *)
(* opens the place card.                                                                        *)
onMapClick(spot) ==
  LET point == NewPoint(spot)
      activeIsEmpty == \E i \in Empties(stops) : stops[i].id = activeStopId
      target == IF activeIsEmpty THEN activeStopId ELSE FirstEmpty(stops)
  IN /\ Gesture
     /\ IF opened /\ target # NoStop
        THEN /\ setStop(target, point, MapPoint, FALSE)
             /\ AskName(target, point)
             /\ UNCHANGED place
        ELSE /\ place' = [point |-> point, name |-> MapPoint]
             /\ AskName(NoStop, point)
             /\ UNCHANGED <<stops, activeStopId, focused, markers, calculating, routes, drawn>>
     /\ UNCHANGED <<nextStopId, opened, profile, loaded, locating>>

(* The search box: the place found is shown. *)
SelectPlace(spot) ==
  /\ Gesture
  /\ place' = [point |-> NewPoint(spot), name |-> spot]
  /\ UNCHANGED <<stops, activeStopId, focused, nextStopId, opened, profile, routes, calculating,
                 loaded, drawn, markers, naming, locating>>

hidePlace ==
  /\ Gesture
  /\ place # NoPlace
  /\ place' = NoPlace
  /\ UNCHANGED <<stops, activeStopId, focused, nextStopId, opened, profile, routes, calculating,
                 loaded, drawn, markers, naming, locating>>

(* Mutant of NamesStop: the stop is looked up, not its point. *)
AnyPointMutant(q) == q.for \in Ids(stops)

(* nameFromMap and onMapClick: an address goes on the very point it was asked for. *)
NamesStop(q) == q.for \in Ids(stops) /\ stops[IndexOf(q.for)].point = q.point
NamesPlace(q) == q.for = NoStop /\ place.point = q.point

Named(q) ==
  /\ q \in naming
  /\ naming' = naming \ {q}
  /\ stops' = IF NamesStop(q) THEN [stops EXCEPT ![IndexOf(q.for)].label = q.point.at] ELSE stops
  /\ place' = IF NamesPlace(q) THEN [place EXCEPT !.name = q.point.at] ELSE place
  /\ UNCHANGED <<activeStopId, focused, nextStopId, opened, profile, routes, calculating, loaded,
                 drawn, markers, locating, gestures>>

(* reverseGeocode answers null for an error. *)
NotNamed(q) ==
  /\ q \in naming
  /\ naming' = naming \ {q}
  /\ UNCHANGED <<stops, activeStopId, focused, nextStopId, opened, profile, routes, calculating,
                 loaded, drawn, markers, place, locating, gestures>>
-----------------------------------------------------------------------------
openDirections ==
  /\ Gesture
  /\ opened' = TRUE
  /\ Refocused(stops, activeStopId,
               IF FirstEmpty(stops) # NoStop THEN FirstEmpty(stops) ELSE activeStopId)
  /\ UNCHANGED <<stops, nextStopId, profile, routes, calculating, loaded, drawn, markers, place,
                 naming, locating>>

(* Mutant of closeDirections: the active stop is left as it was. *)
StaleActiveMutant ==
  /\ Gesture
  /\ opened
  /\ nextStopId < MaxStop
  /\ nextStopId' = nextStopId + 2
  /\ opened' = FALSE
  /\ update(<<newStop(nextStopId), newStop(nextStopId + 1)>>, activeStopId, NoStop)
  /\ UNCHANGED <<profile, loaded, place, naming, locating>>

closeDirections ==
  /\ Gesture
  /\ opened
  /\ nextStopId < MaxStop
  /\ nextStopId' = nextStopId + 2
  /\ opened' = FALSE
  /\ update(<<newStop(nextStopId), newStop(nextStopId + 1)>>, nextStopId, NoStop)
  /\ UNCHANGED <<profile, loaded, place, naming, locating>>

(* "Cómo llegar" and "Desde aquí" of the place card. *)
PlaceAsEnd(i) ==
  /\ Gesture
  /\ i \in {1, Len(stops)}
  /\ place # NoPlace
  /\ LET s == [stops EXCEPT ![i].point = place.point, ![i].label = place.name]
         active == IF FirstEmpty(s) # NoStop THEN FirstEmpty(s) ELSE s[i].id
     IN update(s, active, active)
  /\ opened' = TRUE
  /\ place' = NoPlace
  /\ UNCHANGED <<nextStopId, profile, loaded, naming, locating>>

(* "Añadir parada": the first empty stop takes the place, or a new one; beyond the limit the    *)
(* card stays.                                                                                  *)
PlaceAsStop ==
  /\ Gesture
  /\ opened
  /\ place # NoPlace
  /\ IF FirstEmpty(stops) # NoStop
     THEN setStop(FirstEmpty(stops), place.point, place.name, FALSE) /\ UNCHANGED nextStopId
     ELSE Len(stops) < MAX_POINTS /\ Inserted(place.point, place.name)
  /\ place' = NoPlace
  /\ UNCHANGED <<opened, profile, loaded, naming, locating>>

ChooseProfile(p) ==
  /\ Gesture
  /\ p # profile
  /\ profile' = p
  /\ calculate(stops, p)
  /\ UNCHANGED <<stops, activeStopId, focused, nextStopId, opened, loaded, markers, place, naming,
                 locating>>

(* Another route of the list is selected: the routes are drawn again, over the stops of now. *)
SelectRoute ==
  /\ Gesture
  /\ routes # NoRoutes
  /\ drawRoutes(routes, stops)
  /\ UNCHANGED <<stops, activeStopId, focused, nextStopId, opened, profile, routes, calculating,
                 loaded, markers, place, naming, locating>>

(* The answer of a calculation, or its error, which clears the routes. *)
Finish(q, r) ==
  /\ q \in calculating
  /\ calculating' = calculating \ {q}
  /\ IF q.newest THEN routes' = r /\ drawRoutes(r, stops) ELSE UNCHANGED <<routes, drawn>>
  /\ UNCHANGED <<stops, activeStopId, focused, nextStopId, opened, profile, loaded, markers, place,
                 naming, locating, gestures>>
Calculated(q) == Finish(q, [trip |-> q.trip, by |-> q.by])
NotCalculated(q) == Finish(q, NoRoutes)

DirectionsNext ==
  \/ MapLoads \/ Blur \/ addStop \/ swapStops \/ hidePlace
  \/ openDirections \/ closeDirections \/ PlaceAsStop \/ SelectRoute
  \/ \E id \in 1..MaxStop : ClearText(id) \/ Focus(id) \/ locate(id) \/ NotLocated(id)
  \/ \E id \in 1..MaxStop, spot \in Spot :
       SelectForStop(id, spot) \/ Located(id, spot) \/ DragEnds(id, spot)
  \/ \E i, j \in 1..MAX_POINTS : moveStop(i, j)
  \/ \E i \in 1..MAX_POINTS : removeStop(i) \/ PlaceAsEnd(i)
  \/ \E spot \in Spot : onMapClick(spot) \/ SelectPlace(spot)
  \/ \E q \in naming : Named(q) \/ NotNamed(q)
  \/ \E q \in calculating : Calculated(q) \/ NotCalculated(q)
  \/ \E p \in Profile : ChooseProfile(p)

DirectionsSpec == DirectionsInit /\ [][DirectionsNext]_directionsVars
-----------------------------------------------------------------------------
(* viewer.js:1027-1062.  Once no request is under way, the routes listed and drawn, with the    *)
(* links to their ends, are those of the stops and the profile on screen, whatever order the    *)
(* answers came in and whatever the user changed meanwhile.                                     *)
RoutesAreOfTheTrip ==
  (\A q \in calculating : ~q.newest) =>
    /\ routes # NoRoutes => routes = [trip |-> Trip(stops), by |-> profile]
    /\ loaded => drawn = Picture(routes, stops)

(* viewer.js:899-906 and 990-1008.  An address that arrives late never names another point: the *)
(* label of a stop or of the card is of the place where its point is.                           *)
NamesAreOfTheirPoints ==
  /\ \A i \in DOMAIN stops : stops[i].label \in Spot => stops[i].label = stops[i].point.at
  /\ place.name \in Spot => place.name = place.point.at

(* viewer.js:952-970.  The markers are those of the stops, with the role each has now. *)
MarkersAreOfTheStops == markers = Markers(stops)

(* viewer.js:881-936 and 972-988.  The stop that the next click fills is one of the trip, which *)
(* keeps between two and MAX_POINTS stops, each known by its own id.                            *)
ActiveStopIsListed ==
  /\ activeStopId \in Ids(stops)
  /\ Len(stops) \in 2..MAX_POINTS
  /\ Cardinality(Ids(stops)) = Len(stops)

(* viewer.js:881-988.  The list of stops, the markers on the map and the stop that the next     *)
(* click fills are about one trip, after whichever gestures and late answers.                   *)
StopsAreInStep == MarkersAreOfTheStops /\ ActiveStopIsListed
=============================================================================
