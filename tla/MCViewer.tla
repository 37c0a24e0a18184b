------------------------------- MODULE MCViewer -------------------------------
(***************************************************************************)
(* Instances of the web viewer for TLC.  Its parts share the page but no   *)
(* state: a behaviour is about one of them.                                *)
(***************************************************************************)
EXTENDS ViewerDirections, ViewerSearch, MapTraffic, MapStyle

CONSTANT Part   \* the parts of the run

(* Directions are run twice: with all the gestures, one profile and one    *)
(* address under way at a time ("directions"), and with one gesture less,  *)
(* every profile and MaxNaming addresses ("choices").  So is the search:   *)
(* with a second box, of one text, where the map is ("search"), and with   *)
(* the map moving and one box ("moves").                                   *)

VARIABLE part
viewerVars == <<directionsVars, searchVars, trafficMapVars, styleVars, part>>

MCSize(text) == IF text = "ab" THEN 2 ELSE IF text = "none" THEN 0 ELSE 3
MCFound(text) == IF text = "abd" THEN {} ELSE {"r1"}

(* A trip of two named points with its route on screen: a state every user reaches. *)
ReadyTrip ==
  /\ stops = << [id |-> 1, point |-> [at |-> "x", object |-> MaxGesture + 1], label |-> "x"],
                [id |-> 2, point |-> [at |-> "y", object |-> MaxGesture + 2], label |-> "y"] >>
  /\ nextStopId = 3 /\ activeStopId = 2 /\ focused = NoStop /\ opened = TRUE
  /\ profile \in Profile
  /\ routes = [trip |-> Trip(stops), by |-> profile]
  /\ calculating = {} /\ loaded = TRUE
  /\ drawn = Picture(routes, stops) /\ markers = Markers(stops)
  /\ place = NoPlace /\ naming = {} /\ locating = {} /\ gestures = 1

(* A country with a city inside it and another region over its border, published with several   *)
(* sets of data, with and without the world.                                                    *)
Region_(i, b, a) == [id |-> i, bbox |-> b, assets |-> a]
World_ == Region_("world", <<0, 0, 9, 9>>, {})
Country_(a) == Region_("ecuador", <<1, 1, 6, 6>>, a)
City_ == Region_("quito", <<2, 2, 3, 3>>, {"satellite", "terrain"})
Border_ == Region_("border", <<5, 5, 8, 6>>, {"satellite", "overlays"})
MCRegionList ==
  { <<City_, World_, Country_({"satellite", "terrain", "overlays"})>>,
    <<Border_, City_, Country_({})>>,
    <<World_, City_, Border_>> }

Layer_(i, s, z, m, h) == [id |-> i, source |-> s, minzoom |-> z, maxzoom |-> m, hidden |-> h]
MCTemplate ==
  << Layer_("background", "none", 0, 24, FALSE),
     Layer_("landuse", "basemap", 0, 24, FALSE),
     Layer_("road-path", "basemap", 14, 24, FALSE),
     Layer_("road", "basemap", 0, 24, FALSE),
     Layer_("traffic-network", "basemap", 5, 24, TRUE),
     Layer_("overlay-population", "overlays", 0, 15, TRUE),
     Layer_("place-city", "basemap", 4, 24, FALSE) >>
MCMapTypes ==
  [ satellite |-> [asset |-> "satellite", imagery |-> TRUE, hide |-> {"road-path"},
                   paint |-> {"road", "place-city"},
                   layers |-> << [id |-> "satellite", before |-> "road-path"] >>],
    relief |-> [asset |-> "terrain", imagery |-> FALSE, hide |-> {"landuse"}, paint |-> {},
                layers |-> << [id |-> "relief-color", before |-> "landuse"],
                              [id |-> "hillshade", before |-> "road-path"] >>] ]
MCSwitched == [traffic |-> {"traffic-network"}, population |-> {"overlay-population"}]

Init ==
  /\ part \in Part
  /\ DirectionsInit \/ (part \in {"directions", "choices"} /\ ReadyTrip)
  /\ SearchInit /\ MapTrafficInit /\ StyleInit
  /\ opened
  /\ part # "choices" => profile = CHOOSE p \in Profile : TRUE
  /\ part # "moves" => centre = CHOOSE c \in Centre : TRUE
  /\ part # "traffic" => view = "c1"
  /\ part # "style" => regions = <<Border_, City_, Country_({})>>
Next ==
  /\ part' = part
  /\ \/ /\ part \in {"directions", "choices"} /\ DirectionsNext
        /\ part = "directions" => profile' = profile /\ Cardinality(naming') <= 1
        /\ part = "choices" => gestures' < MaxGesture
        /\ UNCHANGED <<searchVars, trafficMapVars, styleVars>>
     \/ /\ part \in {"search", "moves"} /\ SearchNext
        /\ part = "search" => centre' = centre /\ typed'["b2"] \in {NoQuery, "abc"}
        /\ part = "moves" => typed'["b2"] = NoQuery
        /\ UNCHANGED <<directionsVars, trafficMapVars, styleVars>>
     \/ part = "traffic" /\ MapTrafficNext /\ UNCHANGED <<directionsVars, searchVars, styleVars>>
     \/ part = "style" /\ StyleNext /\ UNCHANGED <<directionsVars, searchVars, trafficMapVars>>
Spec == Init /\ [][Next]_viewerVars /\ (part = "traffic" => MapTrafficFairness)
=============================================================================
