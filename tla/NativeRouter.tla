----------------------------- MODULE NativeRouter -----------------------------
(***************************************************************************)
(* Routing on the native graph (NativeRouter): snapping two points to the  *)
(* same network, A* on travel time over arrays that every search of the    *)
(* process shares, and alternatives by the penalty method.  JavaScript     *)
(* runs a search to its end before the next one; the arrays are what one   *)
(* leaves to the other.  An edge costs `slow' seconds per unit of length,  *)
(* at least 1, the inverse of the greatest speed.                          *)
(***************************************************************************)
EXTENDS NativeGraph

CONSTANTS
  Networks,        \* graphs, each with the indexes of its instance
  MaxStamp,        \* 2_000_000_000
  FirstStamp,      \* searches the process had made before
  Queries,         \* requests: the snaps of each leg, and the number of alternatives
  MaxRequest,      \* bound: requests one after the other
  Delay,           \* JUNCTION_DELAY
  PenaltyFactor,   \* 1.6 in the code, an integer here
  StretchPercent,  \* an alternative takes at most this part of the time of the route ...
  SharedPercent    \* ... and shares at most this part of its length with another

(* An entry leads from one end of its edge to the other. *)
Begin(g, entry) == IF entry % 2 = 0 THEN g.edges[entry \div 2].u ELSE g.edges[entry \div 2].v
Entries(g) == 0..2 * Cardinality(Edges(g)) - 1
(* What is loaded: edges numbered from 0, no shorter than the distance of  *)
(* their ends, and the entries of each node (NativeGraph).                 *)
IsLoaded(g) ==
  /\ g.nodes \in Nat /\ g.x \in [Nodes(g) -> Int] /\ g.ent \in [Nodes(g) -> Seq(Nat)]
  /\ IsFiniteSet(Edges(g)) /\ Edges(g) = 0..Cardinality(Edges(g)) - 1
  /\ \A e \in Edges(g) : /\ {g.edges[e].u, g.edges[e].v} \subseteq Nodes(g)
                         /\ {g.edges[e].length, g.edges[e].slow} \subseteq Nat
                         /\ Abs(g.x[g.edges[e].u] - g.x[g.edges[e].v]) <= g.edges[e].length
  /\ \A n \in Nodes(g) : Range(g.ent[n]) = {entry \in Entries(g) : Begin(g, entry) = n}
(* A snap is a place on a road of the profile. *)
IsSnap(g, snap) ==
  snap.edge \in Edges(g) /\ g.edges[snap.edge].slow > 0 /\ snap.offset \in 0..g.edges[snap.edge].length

ASSUME NativeRouterAssumption ==
  /\ {MaxStamp, FirstStamp, MaxRequest, Delay, StretchPercent} \subseteq Nat
  /\ SharedPercent \in 0..99 /\ PenaltyFactor \in Nat \ {0}
  /\ \A g \in Networks : IsLoaded(g)
  /\ \A query \in Queries :
       /\ query.alternatives \in Nat /\ Len(query.legs) \in Nat \ {0}
       /\ \A i \in 1..Len(query.legs), g \in Networks :
            IsSnap(g, query.legs[i].from) /\ IsSnap(g, query.legs[i].to)

VARIABLES
  net,        \* NativeGraph
  request,    \* the request being answered: its snaps, and the alternatives asked for
  asked,      \* requests so far
  stamp, marks, cost, via, heap,   \* NativeRouter's fields
  taken,                           \* the stamp of the search under way
  best, bestEnd,                   \* of the search under way
  phase,
  penalty,    \* factor of each edge
  accepted,   \* the legs of the route, or the route and its alternatives
  attempt

arrays == <<stamp, marks, cost, via, heap, taken>>
routerVars == <<net, request, asked, arrays, best, bestEnd, phase, penalty, accepted, attempt>>

Infinity == -1   \* no cost is negative
NoRequest == [legs |-> <<>>, alternatives |-> 0]
(* The snaps of the leg being searched for. *)
Leg == request.legs[IF Len(request.legs) = 1 THEN 1 ELSE Len(accepted) + 1]
From == Leg.from
To == Leg.to

(* The tables of speeds, in km/h by road class, and the slower surfaces. *)
URBAN_SPEEDS == [CAR |-> <<80, 60, 55, 45, 35, 28, 15, 20, 0, 0, 0, 25>>,
                 TRUCK |-> <<70, 50, 45, 38, 30, 22, 10, 15, 0, 0, 0, 20>>,
                 MOTORCYCLE |-> <<80, 60, 55, 45, 35, 28, 15, 20, 0, 0, 0, 25>>,
                 BICYCLE |-> <<0, 18, 18, 17, 16, 15, 13, 12, 12, 6, 0, 12>>,
                 PEDESTRIAN |-> <<0, 5, 5, 5, 5, 5, 5, 4, 4, 5, 3, 5>>]
STATE_SPEEDS == [CAR |-> <<90, 65, 55>>, TRUCK |-> <<75, 52, 45>>, MOTORCYCLE |-> <<85, 62, 52>>,
                 BICYCLE |-> <<20, 18, 16>>, PEDESTRIAN |-> <<4, 4, 4>>]
Profile == DOMAIN URBAN_SPEEDS
MOTOR_PROFILES == {"CAR", "TRUCK", "MOTORCYCLE"}
(* Hundredths of km/h. *)
speed(profile, class, flags) ==
  LET urban == URBAN_SPEEDS[profile][CLASS[class]]
      kph == IF urban > 0 /\ "stateRoad" \in flags /\ CLASS[class] <= CLASS["primary"]
             THEN STATE_SPEEDS[profile][CLASS[class]] ELSE urban
      surface == IF "unpaved" \notin flags THEN 10 ELSE IF profile \in MOTOR_PROFILES THEN 6 ELSE 8 IN
  kph * surface * (IF "approximate" \in flags THEN 7 ELSE 10)
maxSpeed(profile) == 100 * MaxOf(Range(URBAN_SPEEDS[profile]) \cup Range(STATE_SPEEDS[profile]))
usable(g, profile) == {e \in Edges(g) : speed(profile, g.edges[e].class, g.edges[e].flags) > 0}

-----------------------------------------------------------------------------
(* snapPair: the closest pair of candidates of one component, else the     *)
(* main network.  `near' and `far' stand for 2 and 30 km.                  *)
AnyComponentMutant(g, profile) == anyComponent(g)
ComponentsOf(g, profile) == IF profile \in MOTOR_PROFILES THEN motorComponent(g) ELSE anyComponent(g)
Component(g, c, snap) == c.of[g.edges[snap.edge].u]
SnappedTo(g, c, roads, from, to, origins, destinations, far) ==
  LET Pairs == {p \in Range(origins) \X Range(destinations) :
                  /\ Component(g, c, p[1]) = Component(g, c, p[2])
                  /\ Component(g, c, p[1]) >= 0}
      Sum(p) == p[1].distance + p[2].distance
      Main(p, candidates) ==
        LET ofMain == SelectSeq(candidates, LAMBDA s : Component(g, c, s) = c.largest) IN
        IF ofMain # <<>> THEN <<Head(ofMain)>>
        ELSE nearestEdges(g, p, far, {e \in roads : c.of[g.edges[e].u] = c.largest}, 1) IN
  IF Pairs # {} THEN CHOOSE p \in Pairs : \A q \in Pairs : Sum(p) <= Sum(q)
  ELSE Main(from, origins) \o Main(to, destinations)   \* fewer than two: NoRouteError
snapPair(g, profile, from, to, near, far) ==
  SnappedTo(g, ComponentsOf(g, profile), usable(g, profile), from, to,
            nearestEdges(g, from, near, usable(g, profile), 12),
            nearestEdges(g, to, near, usable(g, profile), 12), far)

-----------------------------------------------------------------------------
(* The binary heap of (key, node): a hole moves up from the end, or down   *)
(* from the top, to where the entry fits.                                  *)

push(h, e) ==
  LET up[i \in 1..Len(h) + 1] ==
        IF i = 1 \/ h[i \div 2].key <= e.key THEN [Append(h, e) EXCEPT ![i] = e]
        ELSE [up[i \div 2] EXCEPT ![i] = h[i \div 2]] IN
  up[Len(h) + 1]
Child(h, i) == IF 2 * i + 1 <= Len(h) /\ h[2 * i + 1].key < h[2 * i].key THEN 2 * i + 1 ELSE 2 * i
SiftDown(h, e) ==
  LET down[i \in 1..Len(h)] ==
        IF 2 * i > Len(h) \/ h[Child(h, i)].key >= e.key THEN [h EXCEPT ![i] = e]
        ELSE [down[Child(h, i)] EXCEPT ![i] = h[Child(h, i)]] IN
  down[1]
pop(h) == IF Len(h) = 1 THEN <<>> ELSE SiftDown(Front(h), Last(h))

-----------------------------------------------------------------------------
(* leg: A* from both ends of the edge of the origin. *)

Seconds(g, e, length) == length * g.edges[e].slow
Length(g, e) == g.edges[e].length
junctionDelay(g, e, node) ==
  IF "stateRoad" \in g.edges[e].flags THEN 0 ELSE IF Len(g.ent[node]) >= 3 THEN Delay ELSE 0

(* Along a straight line: nodes and snaps have a position on one axis. *)
PositionOf(g, snap) ==
  LET u == g.x[g.edges[snap.edge].u]
      v == g.x[g.edges[snap.edge].v] IN
  u + (IF v < u THEN -1 ELSE 1) * MinOf({snap.offset, Abs(v - u)})
estimate(g, goal, node) == Abs(g.x[node] - PositionOf(g, goal))

(* Between a snap and the ends of its edge: the seeds and the tails. *)
CostToU(g, p, snap) == Seconds(g, snap.edge, snap.offset) * p[snap.edge]
CostToV(g, p, snap) == Seconds(g, snap.edge, Length(g, snap.edge) - snap.offset) * p[snap.edge]
CostsToEnd(g, p, snap, node) ==
  (IF node = g.edges[snap.edge].u THEN {CostToU(g, p, snap)} ELSE {})
    \cup (IF node = g.edges[snap.edge].v THEN {CostToV(g, p, snap)} ELSE {})
(* Both on one edge: along it. *)
CostBetween(g, p, from, to) ==
  IF to.edge = from.edge THEN Seconds(g, to.edge, Abs(to.offset - from.offset)) * p[to.edge] ELSE Infinity
(* Along the edge of an entry, and over the junction that it leads to. *)
CostOver(g, p, entry) ==
  LET e == entry \div 2 IN
  (Seconds(g, e, Length(g, e)) + junctionDelay(g, e, NodeAt(g, entry))) * p[e]

Relabelled(s, now, node, value, arrivedBy, entry) ==
  [marks |-> [s.marks EXCEPT ![node] = now], cost |-> [s.cost EXCEPT ![node] = value],
   via |-> [s.via EXCEPT ![node] = arrivedBy], heap |-> push(s.heap, entry)]
UnmarkedMutant(g, goal, s, now, node, value, arrivedBy) ==
  IF s.marks[node] # 0 /\ s.cost[node] <= value THEN s
  ELSE Relabelled(s, now, node, value, arrivedBy, [key |-> value + estimate(g, goal, node), node |-> node])
relax(g, goal, s, now, node, value, arrivedBy) ==
  IF s.marks[node] = now /\ s.cost[node] <= value THEN s
  ELSE Relabelled(s, now, node, value, arrivedBy, [key |-> value + estimate(g, goal, node), node |-> node])
Store(s) == marks' = s.marks /\ cost' = s.cost /\ via' = s.via /\ heap' = s.heap

(* The marks are cleared before the stamp comes round; this search keeps   *)
(* the stamp it took.                                                      *)
StartLeg ==
  LET now == stamp + 1
      clean == IF now > MaxStamp THEN [n \in DOMAIN marks |-> 0] ELSE marks
      e == net.edges[From.edge]
      s0 == [marks |-> clean, cost |-> cost, via |-> via, heap |-> <<>>]
      s1 == relax(net, To, s0, now, e.u, CostToU(net, penalty, From), -1)
      s2 == relax(net, To, s1, now, e.v, CostToV(net, penalty, From), -2) IN
  /\ phase = "leg"
  /\ phase' = "search"
  /\ taken' = now /\ stamp' = IF now > MaxStamp THEN 1 ELSE now
  /\ Store(s2)
  /\ best' = CostBetween(net, penalty, From, To)
  /\ bestEnd' = IF To.edge = From.edge THEN -3 ELSE -1
  /\ UNCHANGED <<net, request, asked, penalty, accepted, attempt>>

Improves(value) == best = Infinity \/ value < best

(* The entries of the node that is settled, one after the other. *)
Spread(g, p, goal, now, s0, node) ==
  LET Over(s, entry) ==
        IF g.edges[entry \div 2].slow = 0 THEN s
        ELSE relax(g, goal, s, now, NodeAt(g, entry), s0.cost[node] + CostOver(g, p, entry), entry)
      after[i \in 0..Len(g.ent[node])] == IF i = 0 THEN s0 ELSE Over(after[i - 1], g.ent[node][i]) IN
  after[Len(g.ent[node])]

(* One turn of the loop: the node with the least key is settled. *)
Settle ==
  LET top == heap[1]
      node == top.node
      known == cost[node] + estimate(net, To, node)
      through == {cost[node] + tail : tail \in CostsToEnd(net, penalty, To, node)}
      ends == through # {} /\ Improves(MinOf(through)) IN
  /\ phase = "search" /\ heap # <<>> /\ Improves(top.key)
  /\ \/ /\ top.key > known            \* a stale entry
        /\ heap' = pop(heap)
        /\ UNCHANGED <<marks, cost, via, best, bestEnd>>
     \/ /\ top.key <= known
        /\ best' = IF ends THEN MinOf(through) ELSE best
        /\ bestEnd' = IF ends THEN node ELSE bestEnd
        /\ Store(Spread(net, penalty, To, taken,
                        [marks |-> marks, cost |-> cost, via |-> via, heap |-> pop(heap)], node))
  /\ UNCHANGED <<net, request, asked, stamp, taken, phase, penalty, accepted, attempt>>

(* Rebuild: the pieces from the seed to the node, and on to the goal.  A   *)
(* piece is an edge and the offsets it is travelled between.               *)
SeedPiece(g, from, reachedU) ==
  [edge |-> from.edge, reverse |-> reachedU, from |-> from.offset,
   to |-> IF reachedU THEN 0 ELSE Length(g, from.edge)]
WholePiece(g, entry) ==
  LET e == entry \div 2
      reverse == entry % 2 = 1 IN
  [edge |-> e, reverse |-> reverse, from |-> IF reverse THEN Length(g, e) ELSE 0,
   to |-> IF reverse THEN 0 ELSE Length(g, e)]
Back(g, from, by, reached, node) ==
  LET back[n \in reached] ==
        IF by[n] < 0 THEN <<SeedPiece(g, from, by[n] = -1)>>
        ELSE Append(back[Begin(g, by[n])], WholePiece(g, by[n])) IN
  back[node]

(* The goal's edge is entered at u when the tail from u was taken. *)
FromVMutant(g, to, node) ==
  LET atU == node = g.edges[to.edge].u IN
  [edge |-> to.edge, reverse |-> atU, from |-> IF atU THEN Length(g, to.edge) ELSE 0, to |-> to.offset]
LastPiece(g, to, node) ==
  [edge |-> to.edge, reverse |-> node = g.edges[to.edge].v,
   from |-> IF node = g.edges[to.edge].u THEN 0 ELSE Length(g, to.edge), to |-> to.offset]
Pieces ==
  IF bestEnd = -3
  THEN <<[edge |-> To.edge, reverse |-> To.offset < From.offset,
          from |-> From.offset, to |-> To.offset]>>
  ELSE Append(Back(net, From, via, {n \in Nodes(net) : marks[n] = taken}, bestEnd),
              LastPiece(net, To, bestEnd))

Total(numbers) ==
  LET total[i \in 0..Len(numbers)] == IF i = 0 THEN 0 ELSE total[i - 1] + numbers[i] IN
  total[Len(numbers)]
Travelled(p) == Abs(p.to - p.from)
Meters(pieces) == Total([i \in 1..Len(pieces) |-> Travelled(pieces[i])])
NodeAfter(g, p) == IF p.reverse THEN g.edges[p.edge].u ELSE g.edges[p.edge].v
Duration(g, pieces) ==
  Total([i \in 1..Len(pieces) |->
           Seconds(g, pieces[i].edge, Travelled(pieces[i]))
             + (IF i < Len(pieces) THEN junctionDelay(g, pieces[i].edge, NodeAfter(g, pieces[i])) ELSE 0)])
(* Pieces of no length are left out, unless there is one piece. *)
WithoutEmpty(pieces) ==
  LET kept[i \in 0..Len(pieces)] ==
        IF i = 0 THEN <<>>
        ELSE IF pieces[i].from = pieces[i].to THEN kept[i - 1] ELSE Append(kept[i - 1], pieces[i]) IN
  IF Len(pieces) = 1 THEN pieces ELSE kept[Len(pieces)]
LegFound ==
  [edges |-> WithoutEmpty(Pieces), seconds |-> Duration(net, Pieces), meters |-> Meters(Pieces)]

Searched == phase = "search" /\ (heap # <<>> => ~Improves(heap[1].key))

-----------------------------------------------------------------------------
(* route: the primary leg, then the attempts at alternatives. *)

AskRoute(query) ==
  /\ phase = "idle" /\ asked < MaxRequest
  /\ request' = query
  /\ asked' = asked + 1
  /\ phase' = "leg"
  /\ penalty' = [e \in Edges(net) |-> 1]
  /\ accepted' = <<>> /\ attempt' = 0
  /\ UNCHANGED <<net, arrays, best, bestEnd>>

EdgesOf(pieces) == {pieces[i].edge : i \in 1..Len(pieces)}
sharedMeters(a, b) ==
  Total([i \in 1..Len(b.edges) |->
           IF b.edges[i].edge \in EdgesOf(a.edges) THEN Travelled(b.edges[i]) ELSE 0])
(* Each time that an edge is driven multiplies its penalty. *)
Grown(value, times) ==
  LET grown[i \in 0..times] == IF i = 0 THEN value ELSE grown[i - 1] * PenaltyFactor IN grown[times]
TimesDriven(e, legs) ==
  Total([l \in 1..Len(legs) |-> Cardinality({i \in 1..Len(legs[l].edges) : legs[l].edges[i].edge = e})])
Penalized(legs) == [e \in Edges(net) |-> Grown(penalty[e], TimesDriven(e, legs))]
KeepsMutant(candidate) == sharedMeters(accepted[1], candidate) * 100 <= candidate.meters * SharedPercent
Keeps(candidate) ==
  \A i \in DOMAIN accepted : sharedMeters(accepted[i], candidate) * 100 <= candidate.meters * SharedPercent

Finish == phase' = "idle" /\ UNCHANGED <<penalty, attempt>>
TryAgain ==
  IF attempt < request.alternatives + 2 /\ Len(accepted') - 1 < request.alternatives
  THEN phase' = "leg" /\ attempt' = attempt + 1 /\ penalty' = Penalized(accepted')
  ELSE Finish

(* NoRouteError: the request fails, or the attempts end. *)
NotConnected ==
  /\ Searched /\ best = Infinity
  /\ UNCHANGED accepted /\ Finish
  /\ UNCHANGED <<net, request, asked, arrays, best, bestEnd>>

TooSlow(candidate) == accepted # <<>> /\ candidate.seconds * 100 > accepted[1].seconds * StretchPercent
Joins(candidate) == IF accepted = <<>> THEN TRUE ELSE Keeps(candidate)

TakeLeg ==
  /\ Searched /\ best # Infinity
  /\ IF Len(request.legs) > 1
     THEN /\ accepted' = Append(accepted, LegFound)
          /\ phase' = IF Len(accepted') = Len(request.legs) THEN "idle" ELSE "leg"
          /\ UNCHANGED <<penalty, attempt>>
     ELSE IF TooSlow(LegFound) THEN UNCHANGED accepted /\ Finish
     ELSE /\ accepted' = IF Joins(LegFound) THEN Append(accepted, LegFound) ELSE accepted
          /\ TryAgain
  /\ UNCHANGED <<net, request, asked, arrays, best, bestEnd>>

RouterInit ==
  /\ net \in Networks
  /\ request = NoRequest /\ asked = 0 /\ phase = "idle"
  /\ stamp = FirstStamp /\ taken = 0
  /\ marks = [n \in Nodes(net) |-> 0] /\ cost = marks /\ via = marks /\ heap = <<>>
  /\ best = Infinity /\ bestEnd = -1
  /\ penalty = [e \in Edges(net) |-> 1] /\ accepted = <<>> /\ attempt = 0

RouterNext ==
  \/ \E query \in Queries : AskRoute(query)
  \/ StartLeg \/ Settle \/ NotConnected \/ TakeLeg

RouterSpec == RouterInit /\ [][RouterNext]_routerVars

-----------------------------------------------------------------------------
(* Properties. *)

(* What the walks of at most k edges from the origin to each node cost. *)
Into(g, node) == {x \in Entries(g) : NodeAt(g, x) = node /\ g.edges[x \div 2].slow > 0}
Longer(g, p, walks) ==
  [n \in Nodes(g) |->
     walks[n] \cup UNION {{c + CostOver(g, p, x) : c \in walks[Begin(g, x)]} : x \in Into(g, n)}]
CostsOfWalks(g, p, from) ==
  LET walks[k \in Nat] ==
        IF k = 0 THEN [n \in Nodes(g) |-> CostsToEnd(g, p, from, n)] ELSE Longer(g, p, walks[k - 1]) IN
  walks
(* No walk of least cost has more edges than there are nodes. *)
CostsToGoal(g, p, from, to) ==
  (IF to.edge = from.edge THEN {CostBetween(g, p, from, to)} ELSE {})
    \cup UNION {{c + tail : c \in CostsOfWalks(g, p, from)[g.nodes][n], tail \in CostsToEnd(g, p, to, n)} :
                  n \in Nodes(g)}
IsLeast(value, costs) ==
  IF costs = {} THEN value = Infinity ELSE value \in costs /\ \A c \in costs : value <= c

(* A search finds the least cost there is, whatever earlier searches left  *)
(* in the arrays, and finds none only when the points are not connected    *)
(* (leg).                                                                  *)
LegIsFastest == Searched => IsLeast(best, CostsToGoal(net, penalty, From, To))

(* The edges rebuilt lead from the origin to the destination without a     *)
(* gap, and the duration told is the cost searched for, plus at most the   *)
(* delay of the first junction (leg).  A goal on a loop is entered at u,   *)
(* whichever of its tails was the shorter one.                             *)
EndsAt(g, e, offset) ==
  {n \in Nodes(g) : \/ n = g.edges[e].u /\ offset = 0
                    \/ n = g.edges[e].v /\ offset = Length(g, e)}
IsWalk(g, from, to, w) ==
  /\ w[1].edge = from.edge /\ w[1].from = from.offset
  /\ w[Len(w)].edge = to.edge /\ w[Len(w)].to = to.offset
  /\ \A i \in 1..Len(w) - 1 : EndsAt(g, w[i].edge, w[i].to) \cap EndsAt(g, w[i + 1].edge, w[i + 1].from) # {}
IsUnpenalized == \A e \in Edges(net) : penalty[e] = 1
LegIsAWalk ==
  Searched /\ best # Infinity =>
    /\ IsWalk(net, From, To, Pieces)
    /\ IsUnpenalized /\ net.edges[To.edge].u # net.edges[To.edge].v => Duration(net, Pieces) - best \in 0..Delay

(* Alternatives are as many as were asked for at most, not much slower     *)
(* than the route, and each differs from it and from the others, unless    *)
(* it has no length (route).                                               *)
AlternativesDiffer ==
  Len(request.legs) = 1 =>
    /\ Len(accepted) <= request.alternatives + 1
    /\ \A i, j \in 1..Len(accepted) : i < j =>
         /\ accepted[i].meters > 0 => accepted[j].edges # accepted[i].edges
         /\ accepted[j].seconds * 100 <= accepted[1].seconds * StretchPercent

(* What a search answers, and the route made of the answers, are right     *)
(* (leg, route).                                                           *)
LegsAreRight == LegIsFastest /\ LegIsAWalk /\ AlternativesDiffer

(* Two points are snapped to roads that a vehicle can drive between, and   *)
(* are told apart from the network only when no road is near (snapPair).   *)
PairIsJoined(g, roads, pair, around) ==
  /\ Len(pair) = 2 => <<g.edges[pair[1].edge].u, g.edges[pair[2].edge].u>> \in Joined(g, roads)
  /\ around = <<>> => Len(pair) < 2
SnapsAreJoined(g, profile, from, to, near, far) ==
  profile \in MOTOR_PROFILES =>
    PairIsJoined(g, usable(g, profile), snapPair(g, profile, from, to, near, far),
                 nearestEdges(g, from, far, usable(g, profile), 1))
=============================================================================
