------------------------------- MODULE MapTraffic -------------------------------
(***************************************************************************)
(* What the web map draws of the trips measured: the traffic layer shared  *)
(* by the viewer and the SDK (TrafficLayer, nginx/html/sdk/map-style.js),  *)
(* and the activity of the last day in the viewer (viewer.js,              *)
(* refreshActivity).  Both ask the server for the box on screen while the  *)
(* user moves the map and switches the layers.                             *)
(*                                                                         *)
(* A view is the grid box of a city, or TooWide.  An answer counts while   *)
(* its request is still the layer's newest.                                *)
(***************************************************************************)
EXTENDS Naturals, FiniteSets

CONSTANTS
  City,       \* boxes of city-sized views
  TooWide,    \* a view beyond the limits of zoom and span
  MaxMove,    \* moves of the map and switches in a behaviour
  MaxFailure  \* requests that fail in a behaviour

ASSUME MapTrafficAssumption ==
  /\ "nothing" \notin City /\ TooWide \notin City
  /\ {MaxMove, MaxFailure} \subseteq Nat

VARIABLES
  view,          \* what the map shows
  visible,       \* TrafficLayer.visible
  flow,          \* box whose segments are on the map, or Empty
  lastBox,       \* box of the last flow received
  fresh,         \* less than TRAFFIC_REFRESH_MS since it was received
  debouncing,    \* a refresh is due shortly after the last move
  asking,        \* GET /traffic/flow under way: [box, newest]
  status,        \* onStatus: "", "flow", "wide" or "error"
  activityOn,    \* the activity layer is switched on
  heat,          \* box whose activity the layer holds, or Empty
  heatAsking,    \* GET /traffic/activity under way: [box, newest]
  heatAsked,     \* box of the newest of those requests, or Empty (history)
  heatFailed,    \* it failed (history)
  moves, failures

trafficMapVars == <<view, visible, flow, lastBox, fresh, debouncing, asking, status, activityOn,
                    heat, heatAsking, heatAsked, heatFailed, moves, failures>>
heatVars == <<activityOn, heat, heatAsking, heatAsked, heatFailed>>

Empty == "nothing"
Outdated(R) == {[q EXCEPT !.newest = FALSE] : q \in R}

(* TrafficLayer.refresh on view v: a wide view shows no segments; the box received last is not  *)
(* asked for again while it is fresh, unless forced.                                            *)
refresh(v, force) ==
  IF v = TooWide
  THEN /\ asking' = Outdated(asking)
       /\ lastBox' = Empty
       /\ flow' = Empty
       /\ status' = "wide"
  ELSE /\ asking' = IF ~force /\ v = lastBox /\ fresh THEN asking
                    ELSE Outdated(asking) \union {[box |-> v, newest |-> TRUE]}
       /\ UNCHANGED <<lastBox, flow, status>>

(* refreshActivity on view v. *)
refreshActivity(v, on) ==
  IF on /\ v # TooWide
  THEN /\ heatAsking' = Outdated(heatAsking) \union {[box |-> v, newest |-> TRUE]}
       /\ heatAsked' = v
       /\ heatFailed' = FALSE
  ELSE UNCHANGED <<heatAsking, heatAsked, heatFailed>>

Moves == moves < MaxMove /\ moves' = moves + 1
Fails == failures < MaxFailure /\ failures' = failures + 1

MapTrafficInit ==
  /\ view \in City
  /\ visible = FALSE
  /\ flow = Empty
  /\ lastBox = Empty
  /\ fresh = FALSE
  /\ debouncing = FALSE
  /\ asking = {}
  /\ status = ""
  /\ activityOn = FALSE
  /\ heat = Empty
  /\ heatAsking = {}
  /\ heatAsked = Empty
  /\ heatFailed = FALSE
  /\ moves = 0
  /\ failures = 0
-----------------------------------------------------------------------------
(* 'moveend': the activity is asked for at once, the traffic when the map rests. *)
MoveEnds(v) ==
  /\ Moves
  /\ view' = v
  /\ debouncing' = visible
  /\ refreshActivity(v, activityOn)
  /\ UNCHANGED <<visible, flow, lastBox, fresh, asking, status, activityOn, heat, failures>>

DebounceEnds ==
  /\ debouncing
  /\ debouncing' = FALSE
  /\ refresh(view, FALSE)
  /\ UNCHANGED <<view, visible, fresh, heatVars, moves, failures>>

(* setVisible(true) asks at once. *)
ShowTraffic ==
  /\ Moves
  /\ ~visible
  /\ visible' = TRUE
  /\ debouncing' = FALSE
  /\ refresh(view, TRUE)
  /\ refreshActivity(view, activityOn)   \* applyLayers
  /\ UNCHANGED <<view, fresh, activityOn, heat, failures>>

(* setVisible(false): the layers are hidden with their data, and no answer counts any more. *)
HideTraffic ==
  /\ Moves
  /\ visible
  /\ visible' = FALSE
  /\ debouncing' = FALSE
  /\ asking' = Outdated(asking)
  /\ status' = ""
  /\ refreshActivity(view, activityOn)   \* applyLayers
  /\ UNCHANGED <<view, flow, lastBox, fresh, activityOn, heat, failures>>

(* Mutant of MinutePasses: an error ends the refreshing. *)
StopsOnErrorMutant ==
  /\ visible
  /\ status # "error"
  /\ refresh(view, TRUE)
  /\ UNCHANGED <<view, visible, fresh, debouncing, heatVars, moves, failures>>

(* setInterval: every minute while the traffic is shown and the page is in front. *)
MinutePasses ==
  /\ visible
  /\ refresh(view, TRUE)
  /\ UNCHANGED <<view, visible, fresh, debouncing, heatVars, moves, failures>>

FlowAges ==
  /\ fresh
  /\ fresh' = FALSE
  /\ UNCHANGED <<view, visible, flow, lastBox, debouncing, asking, status, heatVars, moves, failures>>

FlowArrives(q) ==
  /\ q \in asking
  /\ asking' = asking \ {q}
  /\ IF q.newest /\ visible
     THEN /\ flow' = q.box
          /\ lastBox' = q.box
          /\ fresh' = TRUE
          /\ status' = "flow"
     ELSE UNCHANGED <<flow, lastBox, fresh, status>>
  /\ UNCHANGED <<view, visible, debouncing, heatVars, moves, failures>>

(* Mutant of FlowFails: the failure of an older request is told. *)
LateStatusMutant(q) ==
  /\ Fails
  /\ q \in asking
  /\ asking' = asking \ {q}
  /\ status' = "error"
  /\ UNCHANGED <<view, visible, flow, lastBox, fresh, debouncing, heatVars, moves>>

FlowFails(q) ==
  /\ Fails
  /\ q \in asking
  /\ asking' = asking \ {q}
  /\ status' = IF q.newest THEN "error" ELSE status
  /\ UNCHANGED <<view, visible, flow, lastBox, fresh, debouncing, heatVars, moves>>

SwitchActivity ==
  /\ Moves
  /\ activityOn' = ~activityOn
  /\ refreshActivity(view, ~activityOn)
  /\ UNCHANGED <<view, visible, flow, lastBox, fresh, debouncing, asking, status, heat, failures>>

(* Mutant of HeatArrives: an older answer is applied. *)
AnyHeatMutant(q) ==
  /\ q \in heatAsking
  /\ heatAsking' = heatAsking \ {q}
  /\ heat' = q.box
  /\ UNCHANGED <<view, visible, flow, lastBox, fresh, debouncing, asking, status, activityOn,
                 heatAsked, heatFailed, moves, failures>>

(* The answer is applied whether or not the layer is still on. *)
HeatArrives(q) ==
  /\ q \in heatAsking
  /\ heatAsking' = heatAsking \ {q}
  /\ heat' = IF q.newest THEN q.box ELSE heat
  /\ UNCHANGED <<view, visible, flow, lastBox, fresh, debouncing, asking, status, activityOn,
                 heatAsked, heatFailed, moves, failures>>

HeatFails(q) ==
  /\ Fails
  /\ q \in heatAsking
  /\ heatAsking' = heatAsking \ {q}
  /\ heatFailed' = (heatFailed \/ q.newest)
  /\ UNCHANGED <<view, visible, flow, lastBox, fresh, debouncing, asking, status, activityOn,
                 heat, heatAsked, moves>>

FlowAnswered == \E q \in asking : q.newest /\ FlowArrives(q)

MapTrafficNext ==
  \/ DebounceEnds \/ ShowTraffic \/ HideTraffic \/ MinutePasses \/ FlowAges \/ SwitchActivity
  \/ \E v \in City \union {TooWide} : MoveEnds(v)
  \/ \E q \in asking : FlowArrives(q) \/ FlowFails(q)
  \/ \E q \in heatAsking : HeatArrives(q) \/ HeatFails(q)

MapTrafficSpec == MapTrafficInit /\ [][MapTrafficNext]_trafficMapVars

(* Timers fire while the page is in front of the user.  A request that a minute's tick replaces *)
(* is answered in vain; the strong fairness says that this does not happen for ever, so that    *)
(* the server answers within a minute now and then.                                             *)
MapTrafficFairness ==
  /\ WF_trafficMapVars(DebounceEnds)
  /\ WF_trafficMapVars(MinutePasses)
  /\ SF_trafficMapVars(FlowAnswered)

MapTrafficTypeOK ==
  /\ view \in City \union {TooWide}
  /\ visible \in BOOLEAN /\ debouncing \in BOOLEAN /\ activityOn \in BOOLEAN /\ heatFailed \in BOOLEAN
  /\ flow \in City \union {Empty} /\ lastBox \in City \union {Empty}
  /\ heat \in City \union {Empty} /\ heatAsked \in City \union {Empty}
  /\ status \in {"", "flow", "wide", "error"}
  /\ asking \subseteq [box : City, newest : BOOLEAN]
  /\ heatAsking \subseteq [box : City, newest : BOOLEAN]
-----------------------------------------------------------------------------
(* map-style.js:284-288 and 309-317.  Hidden traffic stays silent: no answer or failure that    *)
(* arrives after the switch says anything, and what is said while it is shown is of the         *)
(* segments on the map.                                                                         *)
TrafficSpeaksOfWhatItShows ==
  /\ ~visible => status = ""
  /\ status = "flow" => flow = lastBox /\ flow # Empty
  /\ status = "wide" => flow = Empty

(* viewer.js:567-576.  Answers of activity out of order: once the newest request has ended      *)
(* well, the layer holds what it asked for.                                                     *)
HeatIsOfTheNewest ==
  ~heatFailed /\ (\A q \in heatAsking : ~q.newest) => heat = heatAsked

(* Traffic and activity say what their newest answer or failure was, with answers of older      *)
(* views and of hidden layers still on their way.                                               *)
LayersSpeakTrue == TrafficSpeaksOfWhatItShows /\ HeatIsOfTheNewest

(* map-style.js:282-283 and 295-318.  Traffic left on over a city ends up showing that city,    *)
(* also when the map came back to a box before the answer for another one arrived.              *)
TrafficCatchesUp ==
  \A c \in City : (<>[](visible /\ view = c)) => <>[](flow = c)
=============================================================================
