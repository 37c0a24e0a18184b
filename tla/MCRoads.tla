-------------------------------- MODULE MCRoads --------------------------------
(***************************************************************************)
(* Instances for TLC of what the server answers about roads and places,    *)
(* which MCServer runs together with its records.                          *)
(* The parts share no state: a behaviour is about one of them.  A part of  *)
(* pure functions takes one input, its probe, and compares what the code   *)
(* computes with what it should.                                           *)
(***************************************************************************)
EXTENDS NativeResult, RouteService, RouteConditions, PlaceAnswers, Geocoding

VARIABLES part, probe
roadVars == <<routerVars, serviceVars, geoVars, conditionVars, probe>>

Arr(s) == [i \in 0..Len(s) - 1 |-> s[i + 1]]
Inputs(part_) == part = part_ /\ probe.kind = "none"

-----------------------------------------------------------------------------
(* Networks: a block with a short cut and steps, which cars do not use, and a roundabout. *)
Edge_(u, v, len, slow, flags, name) ==
  [u |-> u, v |-> v, length |-> len, slow |-> slow, flags |-> flags, class |-> "street", name |-> name, points |-> <<<<0, 0>>>>]
Loaded_(g) == [nodes |-> g.nodes, x |-> g.x, edges |-> g.edges, ent |-> entries(g)]
MCNetworks ==
  {Loaded_([nodes |-> 4, x |-> Arr(<<0, 2, 3, 5>>),
            edges |-> Arr(<<Edge_(0, 1, 2, 1, {}, "a"), Edge_(1, 2, 1, 2, {}, "b"), Edge_(1, 3, 4, 1, {}, "a"),
                            Edge_(2, 3, 2, 1, {}, "b"), Edge_(0, 2, 4, 1, {"stateRoad"}, "c"), Edge_(0, 3, 5, 0, {}, "steps")>>)]),
   Loaded_([nodes |-> 5, x |-> Arr(<<0, 2, 1, 4, 6>>),
            edges |-> Arr(<<Edge_(0, 1, 2, 1, {}, "a"), Edge_(0, 2, 2, 1, {"roundabout"}, ""), Edge_(1, 3, 2, 2, {}, ""),
                            Edge_(2, 3, 4, 1, {"roundabout"}, ""), Edge_(3, 4, 2, 1, {}, "a")>>)])}
(* Legs between two snaps, some of which coincide: on one road, or as the  *)
(* end of one and the beginning of the next; and routes over a stop that   *)
(* is snapped to one place in both its legs, or to two.                    *)
Snap(at) == [edge |-> at[1], offset |-> at[2]]
LegOf(a, b) == [from |-> Snap(a), to |-> Snap(b)]
MCQueries ==
  {[legs |-> <<LegOf(a, b)>>, alternatives |-> n] :
     a \in {<<0, 0>>, <<0, 1>>, <<3, 2>>}, b \in {<<2, 1>>, <<3, 1>>, <<4, 1>>, <<0, 2>>}, n \in {0, 2}}
  \cup {[legs |-> <<LegOf(<<0, 1>>, m), LegOf(m, b)>>, alternatives |-> 0] :
          m \in {<<3, 1>>, <<4, 1>>}, b \in {<<0, 0>>, <<0, 2>>, <<2, 1>>}}
  \cup {[legs |-> <<LegOf(<<0, 1>>, <<0, 1>>)>>, alternatives |-> n] : n \in {0, 2}}
  \cup {[legs |-> <<l, LegOf(m, <<3, 1>>)>>, alternatives |-> 0] :
          l \in {LegOf(<<0, 1>>, <<0, 1>>), LegOf(<<0, 1>>, <<0, 2>>)}, m \in {<<0, 1>>, <<0, 2>>, <<4, 1>>}}
  \cup {[legs |-> <<LegOf(<<0, 2>>, <<2, 0>>)>>, alternatives |-> n] : n \in {0, 2}}
  \cup {[legs |-> <<LegOf(<<0, 2>>, <<2, 0>>), LegOf(<<2, 0>>, <<3, 1>>)>>, alternatives |-> 0],
         [legs |-> <<LegOf(<<0, 1>>, <<0, 2>>), LegOf(<<0, 2>>, <<2, 0>>)>>, alternatives |-> 0]}

(* Small graphs for their indexes: loops, parallel edges, separate parts. *)
Line(a, b) ==
  LET steps == MaxOf({Abs(b[1] - a[1]), Abs(b[2] - a[2]), 1}) IN
  [i \in 1..steps + 1 |-> <<a[1] + ((b[1] - a[1]) * (i - 1)) \div steps, a[2] + ((b[2] - a[2]) * (i - 1)) \div steps>>]
Spot == Arr(<<<<0, 0>>, <<6, 6>>, <<6, 0>>, <<6, 1>>, <<-2, 4>>>>)
Way(u, v, class) ==
  [u |-> u, v |-> v, length |-> 1, slow |-> 1, flags |-> {}, class |-> class, name |-> 0, points |-> Line(Spot[u], Spot[v])]
EdgeAt(u, v) == Way(u, v, "street")
SmallGraphs == {[nodes |-> 5, edges |-> Arr(<<EdgeAt(a[1], a[2]), EdgeAt(b[1], b[2]), EdgeAt(c[1], c[2])>>)] :
                  a \in {<<0, 1>>, <<1, 1>>, <<0, 2>>}, b \in {<<2, 3>>, <<0, 1>>, <<3, 0>>},
                  c \in {<<3, 4>>, <<2, 3>>, <<1, 4>>}}
Walks == {[nodes |-> 5, edges |-> Arr(<<Way(4, 0, "street"), Way(0, 1, a), Way(1, 3, b), Way(2, 3, "street")>>)] :
            a, b \in {"street", "footway"}}
AskGraph ==
  /\ Inputs("graph")
  /\ \/ \E g \in Walks, of \in {"CAR", "PEDESTRIAN"}, p, q \in {<<-1, 3>>, <<6, 6>>, <<6, 1>>, <<9, 0>>}, far \in {1, 9} :
          probe' = [kind |-> "snap", graph |-> g, profile |-> of, from |-> p, to |-> q, far |-> far]
     \/ \E g \in SmallGraphs, accept \in {{0, 1, 2}, {0, 2}} :
          \/ probe' = [kind |-> "network", graph |-> g, accept |-> accept]
          \/ \E at \in {<<0, 0>>, <<-1, 2>>, <<4, 3>>, <<5, 1>>}, max \in {1, 3}, limit \in {1, 2} :
               probe' = [kind |-> "near", graph |-> g, accept |-> accept, at |-> at, max |-> max, limit |-> limit]

-----------------------------------------------------------------------------
(* Turns, and answers of Valhalla and OSRM: lines of up to three points, in one leg or two that meet. *)
Lines == UNION {[1..n -> {<<0, 0>>, <<-1, 1>>, <<40, -40>>}] : n \in 1..3}
Paths == {s \in Lines : \A i \in 1..Len(s) - 1 : s[i] # s[i + 1]}
ManeuverAt(type, begin, end) == [type |-> type, begin |-> begin, end |-> end]
ManeuversOf(n) ==
  {<<ManeuverAt(1, 0, n - 1), ManeuverAt(4, n - 1, n - 1)>>}
    \cup (IF n = 2 THEN {} ELSE {<<ManeuverAt(1, 0, 1), ManeuverAt(8, 1, n - 1), ManeuverAt(4, n - 1, n - 1)>>})
ValhallaLegs ==
  UNION {{[shape |-> encodePolyline(s), maneuvers |-> m, first |-> s[1], last |-> Last(s)] : m \in ManeuversOf(Len(s))} :
           s \in {x \in Paths : Len(x) > 1}}
OsrmLegs == {<<[arrival |-> FALSE, points |-> s], [arrival |-> TRUE, points |-> <<Last(s), Last(s)>>]>> : s \in Paths}
AskEngine ==
  /\ Inputs("engines")
  /\ \/ \E s \in Lines : probe' = [kind |-> "shape", line |-> s]
     \/ \E a \in -359..359 : probe' = [kind |-> "turn", angle |-> a]
     \/ \E a \in ValhallaLegs : probe' = [kind |-> "valhalla", legs |-> <<a>>]
     \/ \E a, b \in ValhallaLegs : a.last = b.first /\ probe' = [kind |-> "valhalla", legs |-> <<a, b>>]
     \/ \E a, b \in OsrmLegs : Last(a[1].points) = b[1].points[1] /\ probe' = [kind |-> "osrm", steps |-> <<a, b>>]

-----------------------------------------------------------------------------
(* Conditions: two wet zones that overlap, a dry one, and another part of  *)
(* the dry one's district; routes of up to six positions, in and out of    *)
(* them and level with their corners.                                      *)
Zone(range, district, max, triangle) ==
  [range |-> range, district |-> district, max |-> max, polygons |-> {<<Append(triangle, triangle[1])>>}]
Coast == Zone("dry", "coast", 1, <<<<0, 0>>, <<4, 1>>, <<0, 3>>>>)
Sierra == Zone("wet", "sierra", 3, <<<<3, 3>>, <<1, 1>>, <<4, 0>>>>)
Orient == Zone("wet", "orient", 3, <<<<6, 0>>, <<6, 4>>, <<1, 2>>>>)
Flat(zones) == [kind |-> "zones", zones |-> zones]
MissingFile == [kind |-> "missing", zones |-> <<>>]
MCClimates ==
  {Flat(<<Coast, Sierra, Orient, [Coast EXCEPT !.polygons = Orient.polygons]>>), Flat(<<Orient, Coast>>), MissingFile,
   [kind |-> "damaged", zones |-> <<>>]}
RouteOf(meters, seconds, positions) == [meters |-> meters, seconds |-> seconds, positions |-> positions]
MCRoutes ==
  {RouteOf(250, 15, <<<<1, 1>>, <<1, 2>>, <<5, 1>>, <<5, 2>>, <<3, 2>>, <<3, 2>>>>), RouteOf(30, 1, <<<<3, 2>>>>)}
MCTrafficRows == {[speed |-> s[1], samples |-> 5, trips |-> s[2]] : s \in {<<5, 3>>, <<40, 3>>, <<5, 2>>}}

-----------------------------------------------------------------------------
(* Traffic: the second version of the graph numbers its edges differently. *)
MCRoads_ == [v \in 1..3 |-> IF v = 1 THEN (0 :> "a" @@ 1 :> "b") ELSE (0 :> "b" @@ 1 :> "a" @@ 2 :> "c")]
Fix_(id, trip, road, speed_, day, at) ==
  [id |-> id, trip |-> trip, road |-> road, speed |-> speed_, day |-> day, hour |-> at]
MCReport ==
  {Fix_(1, "t", "a", 30, "today", 0), Fix_(2, "u", "a", 10, "today", 0), Fix_(3, "t", "b", 20, "today", 0),
   Fix_(4, "t", "b", 20, "today", 0), Fix_(5, "v", "a", 30, "earlier", 1), Fix_(6, "w", "a", 20, "earlier", 0),
   Fix_(7, "x", "b", 20, "earlier", 1)}
MCFreeFlow == [r \in {"a", "b", "c"} |-> 40]

-----------------------------------------------------------------------------
(* Search: words of a letter or two, two entries with names and contexts they share. *)
Entry(name, context, kind, at, street) ==
  [name |-> name, names |-> <<name>>, context |-> context, kind |-> kind, type |-> kind, rank |-> 5, bonus |-> 40,
   at |-> at, street |-> street]
Rows == {Entry(n, c, k, at, -1) : n \in {<<<<1, 1>>>>, <<<<1, 1, 2>>, <<2, 2>>>>, <<<<2, 2>>>>}, c \in {{}, {<<2, 2>>}},
                                k \in {"street", "place"}, at \in {<<0, 0>>, <<9, 9>>}}
MCSingularOf == (<<1, 1, 2>> :> {<<1, 1>>})
MCNoWords == {}
Point(at, kind) == Entry(<<<<1, 1>>>>, {}, kind, at, -1)
AskSearch ==
  /\ Inputs("search")
  /\ \/ \E a, b \in Rows, other \in {<<>>, <<<<<<1, 2>>>>>>}, w \in {<<1>>, <<1, 1>>, <<1, 2>>, <<1, 1, 2>>, <<2, 2>>} :
          probe' = [kind |-> "typed", index |-> <<a, [b EXCEPT !.names = @ \o other]>>, word |-> w]
     \/ \E x, u \in 0..5, y \in {0, 3}, k \in {"poi", "street"}, p \in 0..5, q \in {0, 2}, m \in 0..3 :
          probe' = [kind |-> "tap", index |-> <<Point(<<x, y>>, "poi"), Point(<<u, 0>>, k)>>, at |-> <<p, q>>, meters |-> m]

(* Places: Lima and its namesakes, Peru, and the crossings of streets whose names overlap. *)
lima == <<1, 2>>
peru == <<3, 4>>
oro == <<5>>
and == <<9>>
MCCrossing == {and}
World(name, type, capital, context, code, population, at) ==
  [name |-> name, names |-> {name}, context |-> context, type |-> type, capital |-> capital, code |-> code,
   population |-> population, at |-> at]
Worlds == {World(<<lima>>, "city", "2", {<<peru>>}, "PE", 9, <<0, 0>>), World(<<lima>>, "city", "", {<<oro>>}, "US", 1, <<50, 0>>),
           World(<<peru>>, "country", "", {}, "PE", 0, <<0, 9>>), World(<<lima, oro>>, "city", "", {}, "EC", 1, <<2, 0>>)}
Detail(name, type, at) == [name |-> name, at |-> at, source |-> "native", type |-> type]
Details == {Detail(<<lima>>, "city", <<1, 0>>), Detail(<<lima>>, "street", <<20, 0>>), Detail(<<oro>>, "town", <<50, 0>>),
            Detail(<<lima>>, "town", <<21, 0>>)}
Text(name, context, comma, codes, limit) ==
  [name |-> name, context |-> context, comma |-> comma, codes |-> codes, limit |-> limit]
Texts == {Text(<<lima>>, <<>>, FALSE, {}, 1), Text(<<lima>>, <<>>, FALSE, {}, 3), Text(<<<<1>>>>, <<>>, FALSE, {"US"}, 3),
          Text(<<lima, peru>>, <<>>, FALSE, {}, 3), Text(<<lima>>, <<peru>>, TRUE, {}, 3)}
Distinct(S, n) == UNION {{s \in [1..k -> S] : \A i, j \in 1..k : s[i] = s[j] => i = j} : k \in 0..n}
Street_(u, v, name, class, points) ==
  [u |-> u, v |-> v, name |-> name, class |-> class, points |-> points, length |-> 1]
Block(class, corner) ==
  [nodes |-> 4, at |-> Arr(<<<<0, 0>>, <<4, 0>>, <<4, 4>>, corner>>),
   edges |-> Arr(<<Street_(0, 1, 1, "street", <<<<0, 0>>, <<4, 0>>>>), Street_(1, 2, 2, class, <<<<4, 0>>, <<4, 2>>, <<4, 4>>>>),
                   Street_(2, 3, 1, "street", <<<<4, 4>>, corner>>)>>)]
Blocks == {Block(class, corner) : class \in {"street", "connector"}, corner \in {<<0, 4>>, <<4, 0>>}}
Gazetteer(n, k) == <<Entry(<<lima>>, {}, "street", <<0, 0>>, 1), Entry(<<oro>>, {}, "street", <<4, 0>>, 2),
                     Entry(<<lima, oro>>, {}, "street", <<0, 0>>, n), Entry(<<peru>>, {}, k, <<4, 3>>, -1)>>
AskPlaces ==
  /\ Inputs("places")
  /\ \/ \E t \in Texts, w \in Distinct(Worlds, 2), d \in Distinct(Details, 3), near \in {{}, {<<0, 0>>}} :
          probe' = [kind |-> "merge", text |-> t, world |-> w, detailed |-> d, near |-> near]
     \/ \E g \in Blocks, n \in {1, 2, -1}, limit \in {1, 4},
           words \in {<<lima, and, oro>>, <<lima, oro, and, lima>>, <<oro, and, <<1>>>>, <<oro>>, <<and, lima>>} :
          probe' = [kind |-> "crossing", graph |-> g, index |-> Gazetteer(n, "poi"), words |-> words, limit |-> limit]
     \/ \E g \in {<<>>} \cup {<<b>> : b \in Blocks}, k \in {"poi", "place"}, x \in {0, 2, 5, 8}, y \in {0, 2, 3, 6} :
          probe' = [kind |-> "address", graph |-> g, index |-> Gazetteer(1, k), at |-> <<x, y>>]

-----------------------------------------------------------------------------
RoadsInit ==
  /\ RouterInit /\ ServiceInit /\ GeoInit /\ ConditionsInit /\ probe = [kind |-> "none"]
  \* where a part does not matter, it begins in one way
  /\ part # "router" => net = CHOOSE n \in MCNetworks : TRUE
  /\ part # "service" => engine = "native" /\ graphFile = 0
  /\ part # "conditions" => climateFiles = <<MissingFile>>
  /\ part # "geocoding" => provider = "native" /\ placesFile = 0 /\ detailUp
RoadsNext ==
  \/ UNCHANGED <<routerVars, serviceVars, geoVars, conditionVars>> /\ (AskGraph \/ AskEngine \/ AskSearch \/ AskPlaces)
  \/ part = "router" /\ RouterNext /\ UNCHANGED <<serviceVars, geoVars, conditionVars, probe>>
  \/ part = "service" /\ ServiceNext /\ UNCHANGED <<routerVars, geoVars, conditionVars, probe>>
  \/ part = "geocoding" /\ GeoNext /\ UNCHANGED <<routerVars, serviceVars, conditionVars, probe>>
  \/ part = "conditions" /\ ConditionsNext /\ UNCHANGED <<routerVars, serviceVars, geoVars, probe>>

-----------------------------------------------------------------------------
(* The properties of the modules of pure functions, for the probes of      *)
(* their kind.                                                             *)

(* The adjacency of NativeGraph lists each edge at each of its ends, in    *)
(* the direction that leaves the node, once, loops and parallel edges too. *)
AdjacencyHolds == probe.kind = "network" => AdjacencyIsExact(probe.graph)

(* Two nodes have a component in common exactly when accepted edges join   *)
(* them, and each edge is of the component of its ends (components).       *)
ComponentsHold == probe.kind = "network" => ComponentsAreNetworks(probe.graph, probe.accept)

(* nearestEdges, which looks into rings of cells around the position and   *)
(* stops early, gives the edges that looking at all of them would give.    *)
NearestHold == probe.kind = "near" => NearestAreNearest(probe.graph, probe.at, probe.max, probe.accept, probe.limit)

(* snapPair gives a motor vehicle two roads that a way joins, and none     *)
(* when there is no road near the start.                                   *)
SnapsHold == probe.kind = "snap" => SnapsAreJoined(probe.graph, probe.profile, probe.from, probe.to, 1, probe.far)

(* turnType says of a left turn what it says of the right turn of the same *)
(* angle, over the whole circle.                                           *)
TurnsHold == probe.kind = "turn" => TurnsMirror(probe.angle)

(* An encoded line decodes to its positions, and a cut one is refused or   *)
(* loses its last position: nothing else comes of it (decodePolyline).     *)
ShapesHold == probe.kind = "shape" => ShapeSurvives(probe.line)

(* A step of a Valhalla route covers the points that its manoeuvre covers  *)
(* in the shape of its leg, though legs are joined at a shared point.      *)
ManeuversHold == probe.kind = "valhalla" => ManeuversKeepTheirPoints(probe.legs)

(* A step of an OSRM route covers the points of its own geometry, though   *)
(* arrivals between legs are not in the geometry of the whole.             *)
OsrmStepsHold == probe.kind = "osrm" => StepsKeepTheirPoints(probe.steps)

(* What is typed finds each entry with a word in its name that begins so,  *)
(* up to the limit, or a better entry of the same place (search).          *)
TypingHolds == probe.kind = "typed" => TypingFindsNames(probe.index, probe.word, 2)

(* A tap finds the nearest of the entries accepted within its reach, in    *)
(* whichever cell of the grid that entry lies (nearest).                   *)
TapsHold == probe.kind = "tap" => TapFindsNearest(probe.index, probe.at, probe.meters, {1, 2})

(* The places of the world and of the country are merged without a repeat, *)
(* each list in its order, within the limit (mergeResults).                *)
MergesHold == probe.kind = "merge" => MergeKeepsOrder(probe.world, probe.text, probe.detailed, probe.near)

(* "A with B" gives positions that streets of both names end at, each once *)
(* (NativeGeocodingProvider.search).                                       *)
CrossingsHold == probe.kind = "crossing" => CrossingsMeet(probe.index, probe.graph, probe.words, probe.limit)

(* A tap is answered with a place of interest at hand, else a named street *)
(* of the graph, else the place around it (reverse).                       *)
AddressesHold == probe.kind = "address" => TapIsNamed(probe.index, probe.graph, probe.at)

(* The indexes built when a graph is loaded answer as a look at all of its *)
(* edges would: adjacency, components, nearest edges, and the pair of      *)
(* edges that a leg begins and ends on.                                    *)
GraphIndexIsExact == AdjacencyHolds /\ ComponentsHold /\ NearestHold /\ SnapsHold

(* The steps of a route cover it without a gap or an overlap, whichever    *)
(* engine made it, and the turn told is the one driven.                    *)
StepsAreOfTheRoute ==
  StepsTileTheRoute /\ TurnsHold /\ ShapesHold /\ ManeuversHold /\ OsrmStepsHold

(* A search finds by its words, its taps and its crossings what is there,  *)
(* and places of both sources are merged in order and without a repeat.    *)
PlacesAreFound == TypingHolds /\ TapsHold /\ MergesHold /\ CrossingsHold /\ AddressesHold
================================================================================
