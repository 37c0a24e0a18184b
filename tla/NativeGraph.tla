----------------------------- MODULE NativeGraph -----------------------------
(***************************************************************************)
(* The road network of the platform (NativeGraph) and the indexes derived  *)
(* when it is loaded: adjacency, connected components, the grid of edges,  *)
(* and the search of the nearest edges.  A graph is a record: `nodes' the  *)
(* number of nodes and `edges' a function on 0..n-1; an edge has its ends, *)
(* its length, its class, its name and its points from u to v, digitised.  *)
(* Distances are measured along the longer axis.                           *)
(***************************************************************************)
EXTENDS Integers, Sequences, FiniteSets, SequencesExt

CONSTANT CellSize   \* CELL, the side of a cell of the grid

ASSUME NativeGraphAssumption == CellSize \in Nat \ {0}

(* ROAD_CLASSES, in their order, and the flags of an edge. *)
ROAD_CLASSES == <<"motorway", "trunk", "primary", "secondary", "tertiary", "street", "service",
                  "track", "path", "footway", "steps", "connector">>
CLASS == [c \in Range(ROAD_CLASSES) |-> CHOOSE i \in 1..Len(ROAD_CLASSES) : ROAD_CLASSES[i] = c]
Flag == {"roundabout", "stateRoad", "unpaved", "tunnel", "approximate"}

Nodes(g) == 0..g.nodes - 1
Edges(g) == DOMAIN g.edges
NodeAt(g, entry) == IF entry % 2 = 0 THEN g.edges[entry \div 2].v ELSE g.edges[entry \div 2].u
MaxOf(S) == CHOOSE x \in S : \A y \in S : y <= x
MinOf(S) == CHOOSE x \in S : \A y \in S : x <= y
Abs(x) == IF x < 0 THEN -x ELSE x

(* parse: `names' is "edge_u" and the other sections a file has. *)
Sections == {"node_lon", "node_lat", "edge_u", "edge_v", "edge_len", "edge_cls", "edge_flags",
             "edge_name", "edge_ref", "edge_parish", "shape_off", "shape_lon", "shape_lat",
             "names_off", "names"}
Parses(file) == file.magic = "RMGRAPH2" /\ file.version = 2 /\ Sections \subseteq file.sections

-----------------------------------------------------------------------------
(* Adjacency: an entry is edge * 2 + direction, and the entries of a node  *)
(* are those from adjacencyStart[node] up to adjacencyStart[node + 1].     *)

EntriesAt(g, node) ==
  Cardinality({e \in Edges(g) : g.edges[e].u = node}) + Cardinality({e \in Edges(g) : g.edges[e].v = node})
adjacencyStart(g) ==
  LET start[n \in 0..g.nodes] == IF n = 0 THEN 0 ELSE start[n - 1] + EntriesAt(g, n - 1) IN start
SameSlotMutant(g) ==
  LET Put(acc, node, entry) == [acc EXCEPT !.list[acc.fill[node]] = entry, !.fill[node] = @ + 1]
      Both(acc, e) == LET a == Put(acc, g.edges[e].u, 2 * e) IN
                      IF g.edges[e].u = g.edges[e].v THEN a ELSE Put(a, g.edges[e].v, 2 * e + 1)
      n == Cardinality(Edges(g)) IN
  FoldLeft(Both, [fill |-> adjacencyStart(g), list |-> [i \in 0..2 * n - 1 |-> -1]],
           [i \in 1..n |-> i - 1]).list
adjacency(g) ==
  LET Put(acc, node, entry) == [acc EXCEPT !.list[acc.fill[node]] = entry, !.fill[node] = @ + 1]
      Both(acc, e) == Put(Put(acc, g.edges[e].u, 2 * e), g.edges[e].v, 2 * e + 1)
      n == Cardinality(Edges(g)) IN
  FoldLeft(Both, [fill |-> adjacencyStart(g), list |-> [i \in 0..2 * n - 1 |-> -1]],
           [i \in 1..n |-> i - 1]).list
entries(g) ==
  LET start == adjacencyStart(g)
      list == adjacency(g) IN
  [n \in Nodes(g) |-> [i \in 1..start[n + 1] - start[n] |-> list[start[n] + i - 1]]]
degree(g, node) == EntriesAt(g, node)

-----------------------------------------------------------------------------
(* components: a depth-first search from every node not reached yet.  A    *)
(* node that no accepted edge touches keeps -1.                            *)

Flood(next, node, component, id) ==
  LET flood[stack \in Seq(DOMAIN next), of \in [DOMAIN next -> Int]] ==
        IF stack = <<>> THEN of
        ELSE LET fresh == {o \in next[Last(stack)] : of[o] = -1} IN
             flood[Front(stack) \o SetToSeq(fresh), [n \in DOMAIN of |-> IF n \in fresh THEN id ELSE of[n]]] IN
  flood[<<node>>, [component EXCEPT ![node] = id]]

LastWinsMutant(g, accept) ==
  LET ent == entries(g)
      next == [n \in Nodes(g) |-> {NodeAt(g, x) : x \in {y \in Range(ent[n]) : y \div 2 \in accept}}]
      Visit(acc, n) ==
        IF acc.of[n] # -1 \/ next[n] = {} THEN acc
        ELSE LET of == Flood(next, n, acc.of, acc.next)
                 size == Cardinality({m \in Nodes(g) : of[m] = acc.next}) IN
             [of |-> of, next |-> acc.next + 1, size |-> acc.size,
              largest |-> IF size > acc.size THEN acc.next ELSE acc.largest] IN
  FoldLeft(Visit, [of |-> [n \in Nodes(g) |-> -1], next |-> 0, size |-> 0, largest |-> -1],
           [i \in 1..g.nodes |-> i - 1])
components(g, accept) ==
  LET ent == entries(g)
      next == [n \in Nodes(g) |-> {NodeAt(g, x) : x \in {y \in Range(ent[n]) : y \div 2 \in accept}}]
      Visit(acc, n) ==
        IF acc.of[n] # -1 \/ next[n] = {} THEN acc
        ELSE LET of == Flood(next, n, acc.of, acc.next)
                 size == Cardinality({m \in Nodes(g) : of[m] = acc.next}) IN
             [of |-> of, next |-> acc.next + 1,
              size |-> IF size > acc.size THEN size ELSE acc.size,
              largest |-> IF size > acc.size THEN acc.next ELSE acc.largest] IN
  FoldLeft(Visit, [of |-> [n \in Nodes(g) |-> -1], next |-> 0, size |-> 0, largest |-> -1],
           [i \in 1..g.nodes |-> i - 1])

(* Motor vehicles keep to the classes up to track, and to connectors. *)
MotorEdges(g) == {e \in Edges(g) : CLASS[g.edges[e].class] <= CLASS["track"] \/ g.edges[e].class = "connector"}
motorComponent(g) == components(g, MotorEdges(g))
anyComponent(g) == components(g, Edges(g))

(* edgesNamed: the edges of each street, indexed when first asked for. *)
edgesNamed(g, name) == {e \in Edges(g) : g.edges[e].name = name /\ name >= 0}

-----------------------------------------------------------------------------
(* The grid: an edge is in every cell of its bounding box.                 *)

cell(value) == value \div CellSize
CellsOf(points) ==
  LET xs == {points[i][1] : i \in DOMAIN points}
      ys == {points[i][2] : i \in DOMAIN points} IN
  (cell(MinOf(xs))..cell(MaxOf(xs))) \X (cell(MinOf(ys))..cell(MaxOf(ys)))

(* cellKey, as wide as the map: keys are sorted and found by bisection. *)
cellKey(c) == (c[2] + 100) * 400 + c[1] + 200
Ascending(S) == [i \in 1..Cardinality(S) |-> CHOOSE x \in S : Cardinality({y \in S : y < x}) = i - 1]
CellKeys(g) == Ascending({cellKey(c) : c \in UNION {CellsOf(g.edges[e].points) : e \in Edges(g)}})
findCell(keys, key) ==
  LET bisect[low \in Nat, high \in Nat] ==
        IF low > high THEN 0
        ELSE LET middle == (low + high) \div 2 IN
             IF keys[middle] = key THEN middle
             ELSE IF keys[middle] < key THEN bisect[middle + 1, high] ELSE bisect[low, middle - 1] IN
  bisect[1, Len(keys)]
EdgesInCell(g, keys, c) ==
  IF findCell(keys, cellKey(c)) = 0 THEN {}
  ELSE {e \in Edges(g) : \E d \in CellsOf(g.edges[e].points) : cellKey(d) = keys[findCell(keys, cellKey(c))]}

(* project: the nearest point of the edge, and how far along it is. *)
Distance(p, q) == MaxOf({Abs(p[1] - q[1]), Abs(p[2] - q[2])})
project(g, e, p) ==
  LET points == g.edges[e].points
      at == CHOOSE i \in DOMAIN points :
              \A j \in DOMAIN points : /\ Distance(p, points[i]) <= Distance(p, points[j])
                                       /\ j < i => Distance(p, points[i]) < Distance(p, points[j]) IN
  [edge |-> e, distance |-> Distance(p, points[at]), offset |-> at - 1, point |-> points[at]]

(* nearestEdges: rings of cells outwards, until `limit' edges are closer   *)
(* than any edge of a farther ring can be.  Ties are in order of edges.    *)
Nearer(a, b) == a.distance < b.distance \/ (a.distance = b.distance /\ a.edge < b.edge)
FirstOf(found, limit) ==
  [i \in 1..MinOf({limit, Cardinality(found)}) |->
     CHOOSE a \in found : Cardinality({b \in found : Nearer(b, a)}) = i - 1]
RingOf(p, ring) ==
  {c \in (cell(p[1]) - ring..cell(p[1]) + ring) \X (cell(p[2]) - ring..cell(p[2]) + ring) :
     MaxOf({Abs(c[1] - cell(p[1])), Abs(c[2] - cell(p[2]))}) = ring}
NextRingMutant(found, limit, ring) ==
  Len(FirstOf(found, limit)) = limit /\ FirstOf(found, limit)[limit].distance <= (ring + 1) * CellSize
CloseEnough(found, limit, ring) ==
  Len(FirstOf(found, limit)) = limit /\ FirstOf(found, limit)[limit].distance <= ring * CellSize
FoundWithin(g, p, max, accept, ring) ==
  LET keys == CellKeys(g)
      cells == UNION {RingOf(p, r) : r \in 0..ring} IN
  {n \in {project(g, e, p) : e \in accept \cap UNION {EdgesInCell(g, keys, c) : c \in cells}} : n.distance <= max}
nearestEdges(g, p, max, accept, limit) ==
  LET last == (max + CellSize - 1) \div CellSize + 1
      stop == MinOf({r \in 0..last : r = last \/ CloseEnough(FoundWithin(g, p, max, accept, r), limit, r)}) IN
  FirstOf(FoundWithin(g, p, max, accept, stop), limit)

-----------------------------------------------------------------------------
(* Properties of a graph. *)

(* The compressed adjacency gives every node each end of an edge at it,    *)
(* once, loops and parallel edges included (the constructor, Adjacency).   *)
AdjacencyIsExact(g) ==
  LET ent == entries(g) IN
  \A n \in Nodes(g) :
    /\ Range(ent[n]) = {2 * e : e \in {d \in Edges(g) : g.edges[d].u = n}}
                              \cup {2 * e + 1 : e \in {d \in Edges(g) : g.edges[d].v = n}}
    /\ Len(ent[n]) = Cardinality(Range(ent[n]))

(* Nodes have one component exactly when accepted edges join them, and the *)
(* largest component has the most nodes (components).                      *)
Joined(g, accept) ==
  LET N == Nodes(g)
      Touch(n, m) == n = m \/ \E e \in accept : {n, m} = {g.edges[e].u, g.edges[e].v}
      Further(R, m) == R \cup {p \in N \X N : <<p[1], m>> \in R /\ <<m, p[2]>> \in R} IN
  FoldLeft(Further, {p \in N \X N : Touch(p[1], p[2])}, [i \in 1..g.nodes |-> i - 1])
ComponentsAreNetworks(g, accept) ==
  LET c == components(g, accept)
      joined == Joined(g, accept)
      Size(id) == Cardinality({n \in Nodes(g) : c.of[n] = id}) IN
  /\ \A n, m \in Nodes(g) : c.of[n] = c.of[m] /\ c.of[n] # -1 <=>
       <<n, m>> \in joined /\ \E e \in accept : n \in {g.edges[e].u, g.edges[e].v}
  /\ \A id \in 0..c.next - 1 : Size(id) <= Size(c.largest)

(* The edges returned are the nearest of those accepted, and all within    *)
(* the distance when fewer than the limit are (nearestEdges).              *)
NearestAreNearest(g, p, max, accept, limit) ==
  LET result == nearestEdges(g, p, max, accept, limit)
      within == {e \in accept : project(g, e, p).distance <= max} IN
  /\ Len(result) = MinOf({limit, Cardinality(within)})
  /\ \A i \in DOMAIN result : \A e \in within :
       \/ \E j \in DOMAIN result : result[j].edge = e
       \/ result[i].distance <= project(g, e, p).distance
=============================================================================
