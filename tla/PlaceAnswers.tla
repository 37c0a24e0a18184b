----------------------------- MODULE PlaceAnswers -----------------------------
(***************************************************************************)
(* What a place search answers: the countries and cities of the world      *)
(* (WorldPlaceIndex), the detailed results of the prepared country         *)
(* (NativeGeocodingProvider, from the search index and the road graph) and *)
(* their merge (CompositeGeocodingProvider).  Texts are tuples of words.   *)
(* Rows of the search index also have `street', the id that their name has *)
(* in the graph (-1: none), and nodes of the graph a rounded place, `at'.  *)
(***************************************************************************)
EXTENDS NativeSearch

CONSTANTS
  BIG_CITY_POPULATION, SAME_PLACE_METERS, PREFERRED_PLACE_METERS,
  Crossing,                                  \* "y", "esquina", "con"
  REVERSE_STREET_METERS, REVERSE_POI_METERS,
  REVERSE_PLACE_METERS                       \* 3000

ASSUME PlaceAnswersAssumption == REVERSE_POI_METERS \in Nat /\ REVERSE_STREET_METERS \in Nat

-----------------------------------------------------------------------------
(* The world. *)

matchTier(names, text) ==
  IF text \in names THEN 0
  ELSE IF \E n \in names : Continues(n, 1, text) THEN 1
  ELSE IF \E n \in names : \E i \in 2..Len(n) : Continues(n, i, text) THEN 2
  ELSE -1
kindRank(place) ==
  IF place.type = "country" THEN 0 ELSE IF place.capital = "2" THEN 1 ELSE IF place.capital = "4" THEN 2 ELSE 3

Fits(place, name, context, codes) ==
  /\ codes # {} => place.code \in codes
  /\ context # <<>> => \E c \in place.context : Continues(c, 1, context)
  /\ matchTier(place.names, name) >= 0
match(places, name, context, codes) ==
  LET Rank(i) == <<matchTier(places[i].names, name), kindRank(places[i]), -places[i].population, i>>
      Sooner(i, j) == Before(Rank(i), Rank(j)) IN
  SetToSortSeq({i \in DOMAIN places : Fits(places[i], name, context, codes)}, Sooner)

important(place, tier) ==
  tier <= 1 /\ (place.type = "country" \/ place.capital = "2" \/ place.population >= BIG_CITY_POPULATION)
WorldResult(place) ==
  [name |-> place.name, at |-> place.at, source |-> "world",
   type |-> IF place.type = "country" THEN "country" ELSE IF place.capital = "2" THEN "capital" ELSE "city"]
FirstUpTo(answers, limit) == SubSeq(answers, 1, MinOf({limit, Len(answers)}))
WorldResults(places, found, name) ==
  [k \in DOMAIN found |-> [result |-> WorldResult(places[found[k]]),
                           important |-> important(places[found[k]], matchTier(places[found[k]].names, name))]]
(* "lima, peru", and "lima peru" when no name has both words. *)
worldSearch(places, query) ==
  LET whole == {i \in DOMAIN places : Fits(places[i], query.name, query.context, query.codes)}
      split == whole = {} /\ ~query.comma /\ Len(query.name) > 1
      name == IF split THEN Front(query.name) ELSE query.name
      context == IF split THEN <<Last(query.name)>> ELSE query.context IN
  IF query.name = <<>> THEN <<>>
  ELSE WorldResults(places, FirstUpTo(match(places, name, context, query.codes), query.limit), name)

-----------------------------------------------------------------------------
(* Both sources. *)

PLACE_TYPES == {"capital", "city", "town", "state", "county", "administrative"}
samePlace(a, b) == a.name = b.name /\ Distance(a.at, b.at) < SAME_PLACE_METERS
(* The detailed places that come first and are near what the map shows. *)
AnyPlaceMutant(detailed, near) ==
  SelectSeq(detailed, LAMBDA r : near # {} /\ r.type \in PLACE_TYPES
                                 /\ \A p \in near : Distance(r.at, p) <= PREFERRED_PLACE_METERS)
Preferred(detailed, near) ==
  LET Comes(i) == /\ near # {} /\ detailed[i].type \in PLACE_TYPES
                  /\ \A p \in near : Distance(detailed[i].at, p) <= PREFERRED_PLACE_METERS
      prefix == {i \in DOMAIN detailed : \A j \in 1..i : Comes(j)} IN
  SubSeq(detailed, 1, Cardinality(prefix))
Merged(world, detailed, limit, first) ==
  LET Results(of) == [k \in DOMAIN of |-> of[k].result]
      Keep(kept, r) ==
        IF Len(kept) >= limit \/ \E k \in DOMAIN kept : samePlace(kept[k], r) THEN kept ELSE Append(kept, r) IN
  FoldLeft(Keep, <<>>, first \o Results(SelectSeq(world, LAMBDA m : m.important))
                             \o SubSeq(detailed, Len(first) + 1, Len(detailed))
                             \o Results(SelectSeq(world, LAMBDA m : ~m.important)))
mergeResults(world, detailed, limit, near) == Merged(world, detailed, limit, Preferred(detailed, near))

-----------------------------------------------------------------------------
(* The prepared country. *)

DetailedResult(index, i) ==
  [name |-> index[i].name, at |-> index[i].at, source |-> "native",
   type |-> IF index[i].kind = "street" THEN "street" ELSE index[i].type]

(* "A y B": the words before the first such word, and the words after it.  *)
Splits(words) == {i \in 2..Len(words) - 1 : words[i] \in Crossing}
RepeatMutant(spots) == spots
OncePerSpot(spots) ==
  FoldLeft(LAMBDA kept, s : IF \E k \in DOMAIN kept : kept[k].at = s.at THEN kept ELSE Append(kept, s), <<>>, spots)
BestFirst(spots) ==
  LET Better(i, j) == spots[i].score > spots[j].score \/ (spots[i].score = spots[j].score /\ i < j) IN
  [k \in DOMAIN spots |-> spots[SetToSortSeq(DOMAIN spots, Better)[k]]]
SpotsOf(index, g, first, second, a, b) ==
  LET Pair(k) == <<a[(k - 1) \div Len(b) + 1], b[((k - 1) % Len(b)) + 1]>>
      Worth(k) == Score(index, Pair(k)[1], first, TRUE) + Score(index, Pair(k)[2], second, TRUE)
      Spots(k) == LET nodes == SetToSeq(intersections(g, index[Pair(k)[1]].street, index[Pair(k)[2]].street)) IN
                  [n \in DOMAIN nodes |-> [at |-> g.at[nodes[n]], score |-> Worth(k)]] IN
  FlattenSeq([k \in 1..Len(a) * Len(b) |-> Spots(k)])
Crossings(index, g, first, second) ==
  BestFirst(OncePerSpot(SpotsOf(index, g, first, second, streets(index, first), streets(index, second))))
(* At most three crossings, then what the index finds. *)
CrossingResults(spots) ==
  [k \in DOMAIN spots |-> [name |-> <<>>, at |-> spots[k].at, source |-> "native", type |-> "intersection"]]
DetailedResults(index, hits) == [k \in DOMAIN hits |-> DetailedResult(index, hits[k])]
SplitSpots(index, g, words, at) ==
  IF at = {} THEN <<>>
  ELSE Crossings(index, g, SubSeq(words, 1, MinOf(at) - 1), SubSeq(words, MinOf(at) + 1, Len(words)))
nativeSearch(index, g, words, limit) ==
  FirstUpTo(CrossingResults(FirstUpTo(SplitSpots(index, g, words, Splits(words)), 3))
              \o DetailedResults(index, search(index, words, TRUE, limit)), limit)

(* reverse: a point of interest, the nearest street with a name, or the    *)
(* nearest place; without a graph there are no streets.                    *)
AnyEdgeMutant(g) == {e \in Edges(g) : g.edges[e].name >= 0}
Named(g) == {e \in Edges(g) : g.edges[e].name >= 0 /\ g.edges[e].class # "connector"}
reverse(index, graph, p) ==
  LET OfKind(kind) == {i \in DOMAIN index : index[i].kind = kind}
      poi == nearest(index, p, REVERSE_POI_METERS, OfKind("poi"))
      street == IF graph = <<>> THEN <<>>
                ELSE nearestEdges(graph[1], p, REVERSE_STREET_METERS, Named(graph[1]), 1)
      place == nearest(index, p, REVERSE_PLACE_METERS, OfKind("place")) IN
  IF poi # 0 THEN [kind |-> "poi", of |-> poi]
  ELSE IF street # <<>> THEN [kind |-> "street", of |-> street[1].edge]
  ELSE IF place # 0 THEN [kind |-> "place", of |-> place]
  ELSE [kind |-> "nothing", of |-> 0]

-----------------------------------------------------------------------------
(* Properties. *)

(* What is left out of an answer is the same place as one that is kept, or *)
(* beyond the limit; the order of the detailed results "is never changed", *)
(* and streets come after the countries and big cities that are asked for  *)
(* (mergeResults).                                                         *)
KeepsOrder(world, detailed, limit, kept) ==
  LET offered == Range(detailed) \cup {world[k].result : k \in DOMAIN world}
      At(r) == CHOOSE k \in DOMAIN kept : kept[k] = r IN
  /\ \A j \in DOMAIN kept : \A k \in 1..j - 1 : ~samePlace(kept[k], kept[j])
  /\ \A r \in offered \ Range(kept) : Len(kept) = limit \/ \E k \in DOMAIN kept : samePlace(kept[k], r)
  /\ \A i, j \in DOMAIN detailed : i < j /\ {detailed[i], detailed[j]} \subseteq Range(kept) =>
       At(detailed[i]) <= At(detailed[j])
  /\ \A k \in DOMAIN world : \A i \in DOMAIN detailed :
       world[k].important /\ detailed[i].type \notin PLACE_TYPES /\ {world[k].result, detailed[i]} \subseteq Range(kept) =>
         At(world[k].result) < At(detailed[i])
MergeKeepsOrder(places, query, detailed, near) ==
  LET world == worldSearch(places, query) IN
  KeepsOrder(world, detailed, query.limit, mergeResults(world, detailed, query.limit, near))

(* The crossings of a search are where edges of the two streets meet, and  *)
(* none is told twice though several names match (intersections).          *)
SpotsMeet(g, found, limit) ==
  LET spots == {k \in DOMAIN found : found[k].type = "intersection"} IN
  /\ Len(found) <= limit
  /\ \A j, k \in spots : found[j].at = found[k].at => j = k
  /\ \A k \in spots : \E d, e \in Edges(g), n \in Nodes(g) :
       /\ g.edges[d].name # g.edges[e].name /\ g.at[n] = found[k].at
       /\ n \in {g.edges[d].u, g.edges[d].v} \cap {g.edges[e].u, g.edges[e].v}
CrossingsMeet(index, g, words, limit) == SpotsMeet(g, nativeSearch(index, g, words, limit), limit)

(* A tap is answered by the nearest of what has a name where it is, never  *)
(* by a segment added to join the network, and goes without an answer only *)
(* when there is nothing around (reverse).                                 *)
TapIsNamed(index, graph, p) ==
  LET answer == reverse(index, graph, p)
      Near(kind, meters) == {i \in DOMAIN index : index[i].kind = kind /\ Distance(index[i].at, p) <= meters}
      Streets == IF graph = <<>> THEN {}
                 ELSE {e \in Edges(graph[1]) : /\ graph[1].edges[e].name >= 0 /\ graph[1].edges[e].class # "connector"
                                               /\ project(graph[1], e, p).distance <= REVERSE_STREET_METERS} IN
  answer.kind = CASE Near("poi", REVERSE_POI_METERS) # {} -> "poi"
                  [] Near("poi", REVERSE_POI_METERS) = {} /\ Streets # {} -> "street"
                  [] OTHER -> IF Near("place", REVERSE_PLACE_METERS) # {} THEN "place" ELSE "nothing"
=============================================================================
