----------------------------- MODULE ViewerProofs -----------------------------
(***************************************************************************)
(* Theorems about the web viewer, for any number of boxes, texts, views,   *)
(* moves, stops, gestures, names and failures: the directions of           *)
(* ViewerDirections, the searches of ViewerSearch and the answers that     *)
(* MapTraffic draws.                                                       *)
(***************************************************************************)
EXTENDS ViewerDirections, ViewerSearch, MapTraffic, SequenceTheorems, FiniteSetTheorems, TLAPS

-----------------------------------------------------------------------------
(* ViewerDirections.  The trip, its markers and the stop to fill stay in   *)
(* step, the routes are those of the trip, and an address never names      *)
(* another point.                                                          *)

Point == [at : Spot \union {"nowhere"}, object : Nat]
MadePoint == [at : Spot, object : Nat]
Honest(name, point) == name \in Spot => name = point.at
Stop == {t \in [id : Nat \ {0}, point : Point, label : Label] : Honest(t.label, t.point)}

(* The trips whose stops are known by ids of their own, below n. *)
Trips(n) ==
  {s \in Seq(Stop) : /\ Len(s) \in 2..MAX_POINTS
                     /\ \A i \in 1..Len(s) : s[i].id < n
                     /\ \A i, j \in 1..Len(s) : s[i].id = s[j].id => i = j}

Calculation == [trip : {Trip(s) : s \in Seq(Stop)}, by : Profile, newest : BOOLEAN]

(* The request that counts is for trip s and profile p; without one, so is what is shown. *)
RoutesAreOf(s, p) ==
  /\ calculating \in SUBSET Calculation
  /\ \A q \in calculating : q.newest => q.trip = Trip(s) /\ q.by = p
  /\ (\A q \in calculating : ~q.newest) =>
       /\ routes # NoRoutes => routes = [trip |-> Trip(s), by |-> p]
       /\ loaded => drawn = Picture(routes, s)

TripInv ==
  /\ nextStopId \in Nat
  /\ stops \in Trips(nextStopId)
  /\ activeStopId \in Ids(stops)
  /\ focused \in Ids(stops) \union {NoStop}
  /\ markers = Markers(stops)

RoutesInv == profile \in Profile /\ loaded \in BOOLEAN /\ RoutesAreOf(stops, profile)

CardInv ==
  /\ gestures \in Nat
  /\ place \in [point : Point, name : Label]
  /\ Honest(place.name, place.point)
  /\ \A q \in naming : q.point \in MadePoint

DirectionsInv == TripInv /\ RoutesInv /\ CardInv

-----------------------------------------------------------------------------
(* Sequences and the operators of the component.                           *)

(* A set of naturals has a least one. *)
LEMMA Least ==
  ASSUME NEW T \in SUBSET Nat, T # {}
  PROVE  \E x \in T : \A y \in T : x <= y
  <1> DEFINE less == {p \in Nat \X Nat : p[1] < p[2]}
  <1>1. IsWellFoundedOn(less, Nat)
    BY NatLessThanWellFounded, Zenon DEF OpToRel
  <1>2. PICK x \in T : \A y \in T : <<y, x>> \notin less
    BY <1>1, WFMin, Zenon
  <1>3. \A m, n \in Nat : <<m, n>> \in less <=> m < n
    OBVIOUS
  <1> HIDE DEF less
  <1>4. \A y \in T : ~(y < x)
    BY <1>2, <1>3, Zenon
  <1> QED  BY <1>4

LEMMA TripType ==
  ASSUME NEW n, NEW s \in Trips(n)
  PROVE  /\ s \in Seq(Stop) /\ Len(s) \in 2..MAX_POINTS /\ Len(s) \in Nat
         /\ DOMAIN s = 1..Len(s)
         /\ Ids(s) = {s[i].id : i \in 1..Len(s)} /\ NoStop \notin Ids(s)
  <1>1. s \in Seq(Stop) /\ Len(s) \in 2..MAX_POINTS
    BY DEF Trips
  <1>2. Len(s) \in Nat /\ DOMAIN s = 1..Len(s) /\ \A i \in 1..Len(s) : s[i] \in Stop
    BY <1>1, LenProperties, ElementOfSeq
  <1>3. \A i \in 1..Len(s) : s[i].id # NoStop
    BY <1>2 DEF Stop, NoStop
  <1> QED  BY <1>1, <1>2, <1>3 DEF Ids

LEMMA FirstEmptyIsListed ==
  ASSUME NEW n, NEW s \in Trips(n)
  PROVE  FirstEmpty(s) \in Ids(s) \union {NoStop}
  <1>1. CASE Empties(s) # {}
    <2>1. Empties(s) \in SUBSET Nat /\ Empties(s) \subseteq DOMAIN s
      BY TripType DEF Empties
    <2>2. \E i \in Empties(s) : \A j \in Empties(s) : i <= j
      BY <1>1, <2>1, Least
    <2>3. FirstOf(Empties(s)) \in DOMAIN s
      BY <2>1, <2>2 DEF FirstOf
    <2> QED  BY <1>1, <2>3 DEF FirstEmpty, Ids
  <1> QED  BY <1>1 DEF FirstEmpty

LEMMA IndexIsOfTheId ==
  ASSUME NEW id \in Ids(stops)
  PROVE  IndexOf(id) \in DOMAIN stops /\ stops[IndexOf(id)].id = id
  BY DEF IndexOf, Ids

(* One stop of a trip is changed. *)
LEMMA ChangedStop ==
  ASSUME NEW n, NEW s \in Trips(n), NEW i \in 1..Len(s), NEW x \in Stop, x.id = s[i].id
  PROVE  LET r == [s EXCEPT ![i] = x] IN
         r \in Trips(n) /\ Ids(r) = Ids(s) /\ Len(r) = Len(s)
         /\ \A j \in 1..Len(s) : r[j] = IF j = i THEN x ELSE s[j]
  <1> DEFINE r == [s EXCEPT ![i] = x]
  <1>1. /\ r \in Seq(Stop) /\ Len(r) = Len(s)
        /\ \A j \in 1..Len(s) : r[j] = IF j = i THEN x ELSE s[j]
    BY ExceptSeq DEF Trips
  <1> HIDE DEF r
  <1>2. \A j \in 1..Len(s) : r[j].id = s[j].id
    BY <1>1
  <1>3. r \in Trips(n)
    BY <1>1, <1>2 DEF Trips
  <1>4. Ids(r) = {r[j].id : j \in 1..Len(r)} /\ Ids(s) = {s[j].id : j \in 1..Len(s)}
    BY <1>3, TripType
  <1>5. Ids(r) = Ids(s)
    BY <1>1, <1>2, <1>4
  <1> QED  BY <1>1, <1>3, <1>5 DEF r

(* The stops of a trip in another order, or some of them. *)
LEMMA Rearranged ==
  ASSUME NEW n, NEW s \in Trips(n), NEW r \in Seq(Stop), Len(r) \in 2..MAX_POINTS,
         NEW f \in [1..Len(r) -> 1..Len(s)], \A i, j \in 1..Len(r) : f[i] = f[j] => i = j,
         \A i \in 1..Len(r) : r[i] = s[f[i]]
  PROVE  r \in Trips(n) /\ Ids(r) \subseteq Ids(s)
  <1>0. \A i \in 1..Len(r) : f[i] \in 1..Len(s) /\ r[i].id = s[f[i]].id
    OBVIOUS
  <1>1. r \in Trips(n)
    <2>1. \A i \in 1..Len(s) : s[i].id < n
      BY DEF Trips
    <2>2. \A i, j \in 1..Len(s) : s[i].id = s[j].id => i = j
      BY DEF Trips
    <2>3. \A i \in 1..Len(r) : r[i].id < n
      BY <1>0, <2>1
    <2>4. ASSUME NEW i \in 1..Len(r), NEW j \in 1..Len(r), r[i].id = r[j].id PROVE i = j
      <3>1. f[i] = f[j]
        BY <1>0, <2>2, <2>4
      <3> QED  BY <3>1
    <2> QED  BY <2>3, <2>4 DEF Trips
  <1>2. Ids(r) = {r[i].id : i \in 1..Len(r)} /\ Ids(s) = {s[i].id : i \in 1..Len(s)}
    BY <1>1, TripType
  <1> QED  BY <1>0, <1>1, <1>2

LEMMA Swapped ==
  ASSUME NEW n, NEW s \in Trips(n), NEW i \in 1..Len(s), NEW j \in 1..Len(s)
  PROVE  LET r == [s EXCEPT ![i] = s[j], ![j] = s[i]] IN
         r \in Trips(n) /\ Ids(r) \subseteq Ids(s) /\ s[i].id \in Ids(r)
  <1> DEFINE r == [s EXCEPT ![i] = s[j], ![j] = s[i]]
             f == [k \in 1..Len(s) |-> IF k = j THEN i ELSE IF k = i THEN j ELSE k]
  <1>1. s \in Seq(Stop) /\ s[i] \in Stop /\ s[j] \in Stop /\ Len(s) \in 2..MAX_POINTS
    BY TripType, ElementOfSeq
  <1>2. LET t == [s EXCEPT ![i] = s[j]] IN
        t \in Seq(Stop) /\ Len(t) = Len(s) /\ \A k \in 1..Len(s) : t[k] = IF k = i THEN s[j] ELSE s[k]
    BY <1>1, ExceptSeq
  <1>3. /\ r \in Seq(Stop) /\ Len(r) = Len(s)
        /\ \A k \in 1..Len(s) : r[k] = IF k = j THEN s[i] ELSE IF k = i THEN s[j] ELSE s[k]
    BY <1>1, <1>2, ExceptSeq
  <1>4. f \in [1..Len(s) -> 1..Len(s)] /\ \A k, m \in 1..Len(s) : f[k] = f[m] => k = m
    OBVIOUS
  <1>5. \A k \in 1..Len(s) : r[k] = s[f[k]]
    BY <1>3
  <1>6. r[j] = s[i]
    BY <1>3
  <1> HIDE DEF r, f
  <1>7. r \in Trips(n) /\ Ids(r) \subseteq Ids(s)
    <2>1. Len(r) \in 2..MAX_POINTS /\ f \in [1..Len(r) -> 1..Len(s)]
          /\ \A k \in 1..Len(r) : r[k] = s[f[k]]
      BY <1>1, <1>3, <1>4, <1>5
    <2>2. \A k, m \in 1..Len(r) : f[k] = f[m] => k = m
      BY <1>3, <1>4
    <2> QED  BY <1>3, <2>1, <2>2, Rearranged
  <1>8. s[i].id \in Ids(r)
    BY <1>3, <1>6, <1>7, TripType
  <1> QED  BY <1>7, <1>8 DEF r

LEMMA Reversed ==
  ASSUME NEW n, NEW s \in Trips(n)
  PROVE  Reverse(s) \in Trips(n) /\ Ids(s) \subseteq Ids(Reverse(s))
  <1> DEFINE r == Reverse(s)
             f == [k \in 1..Len(s) |-> Len(s) - k + 1]
  <1>1. s \in Seq(Stop) /\ Len(s) \in Nat /\ Len(s) \in 2..MAX_POINTS /\ DOMAIN s = 1..Len(s)
        /\ \A k \in 1..Len(s) : s[k] \in Stop
    BY TripType, ElementOfSeq
  <1>2. f \in [1..Len(s) -> 1..Len(s)] /\ \A k, m \in 1..Len(s) : f[k] = f[m] => k = m
    BY <1>1
  <1>3. r = [k \in 1..Len(s) |-> s[f[k]]]
    BY <1>1 DEF Reverse
  <1>4. r \in [1..Len(s) -> Stop]
    BY <1>1, <1>2, <1>3
  <1>5. r \in Seq(Stop)
    BY <1>1, <1>4, SeqDef
  <1>6. Len(r) = Len(s)
    BY <1>1, <1>4, <1>5, LenProperties
  <1>7. \A k \in 1..Len(r) : r[k] = s[f[k]]
    BY <1>3, <1>6
  <1>8. \A k \in 1..Len(s) : f[k] \in 1..Len(s) /\ s[k] = r[f[k]]
    BY <1>1, <1>3
  <1> HIDE DEF r, f
  <1>9. r \in Trips(n)
    <2>1. /\ Len(r) \in 2..MAX_POINTS /\ f \in [1..Len(r) -> 1..Len(s)]
          /\ \A k, m \in 1..Len(r) : f[k] = f[m] => k = m
      BY <1>1, <1>2, <1>6
    <2> QED  BY <1>5, <1>7, <2>1, Rearranged
  <1>10. Ids(s) = {s[i].id : i \in 1..Len(s)} /\ Ids(r) = {r[i].id : i \in 1..Len(r)}
    BY <1>9, TripType
  <1> QED  BY <1>6, <1>8, <1>9, <1>10 DEF r

LEMMA Removed ==
  ASSUME NEW n, NEW s \in Trips(n), NEW i \in 1..Len(s), Len(s) > 2
  PROVE  RemoveAt(s, i) \in Trips(n) /\ Len(RemoveAt(s, i)) = Len(s) - 1
  <1> DEFINE r == RemoveAt(s, i)
             a == SubSeq(s, 1, i - 1)
             b == SubSeq(s, i + 1, Len(s))
             f == [k \in 1..(Len(s) - 1) |-> IF k < i THEN k ELSE k + 1]
  <1>1. s \in Seq(Stop) /\ Len(s) \in Nat /\ Len(s) \in 2..MAX_POINTS /\ MAX_POINTS \in Nat
        /\ \A k \in 1..Len(s) : s[k] \in Stop
    BY TripType, ElementOfSeq, DirectionsAssumption
  <1>2. /\ a \in Seq(Stop) /\ Len(a) = i - 1
        /\ \A k \in 1..(i - 1) : a[k] = s[k]
    BY <1>1, SubSeqProperties
  <1>3. /\ b \in Seq(Stop) /\ Len(b) = Len(s) - i
        /\ \A k \in 1..(Len(s) - i) : b[k] = s[i + k]
    BY <1>1, SubSeqProperties
  <1> HIDE DEF a, b
  <1>4. /\ r \in Seq(Stop) /\ Len(r) = Len(s) - 1
        /\ \A k \in 1..(Len(s) - 1) : r[k] = IF k <= i - 1 THEN a[k] ELSE b[k - (i - 1)]
    <2>1. r = a \o b
      BY DEF RemoveAt, a, b
    <2>2. Len(a) + Len(b) = Len(s) - 1
      BY <1>1, <1>2, <1>3
    <2> HIDE DEF r
    <2> QED  BY <1>2, <1>3, <2>1, <2>2, ConcatProperties
  <1>5. f \in [1..(Len(s) - 1) -> 1..Len(s)] /\ \A k, m \in 1..(Len(s) - 1) : f[k] = f[m] => k = m
    BY <1>1
  <1>6. \A k \in 1..(Len(s) - 1) : r[k] = s[f[k]]
    <2> HIDE DEF r
    <2> QED  BY <1>1, <1>2, <1>3, <1>4
  <1>7. Len(r) \in 2..MAX_POINTS
    BY <1>1, <1>4
  <1> HIDE DEF r, f
  <1>8. r \in Trips(n)
    <2>1. /\ f \in [1..Len(r) -> 1..Len(s)]
          /\ \A k, m \in 1..Len(r) : f[k] = f[m] => k = m
          /\ \A k \in 1..Len(r) : r[k] = s[f[k]]
      BY <1>4, <1>5, <1>6
    <2> QED  BY <1>4, <1>7, <2>1, Rearranged
  <1> QED  BY <1>4, <1>8 DEF r

(* A stop with a new id goes before the destination. *)
LEMMA Inserts ==
  ASSUME NEW n \in Nat, NEW s \in Trips(n), Len(s) < MAX_POINTS, NEW x \in Stop, x.id = n
  PROVE  InsertAt(s, Len(s), x) \in Trips(n + 1) /\ n \in Ids(InsertAt(s, Len(s), x))
  <1> DEFINE r == InsertAt(s, Len(s), x)
             a == SubSeq(s, 1, Len(s) - 1)
             b == SubSeq(s, Len(s), Len(s))
             l == Len(s)
  <1>1. s \in Seq(Stop) /\ l \in Nat /\ l \in 2..MAX_POINTS /\ MAX_POINTS \in Nat
        /\ \A k \in 1..l : s[k] \in Stop
    BY TripType, ElementOfSeq, DirectionsAssumption
  <1>2. /\ a \in Seq(Stop) /\ Len(a) = l - 1
        /\ \A k \in 1..(l - 1) : a[k] = s[k]
    BY <1>1, SubSeqProperties
  <1>3. b \in Seq(Stop) /\ Len(b) = 1 /\ b[1] = s[l]
    BY <1>1, SubSeqProperties
  <1>4. <<x>> \in Seq(Stop) /\ Len(<<x>>) = 1 /\ <<x>>[1] = x
    OBVIOUS
  <1> HIDE DEF a, b
  <1>5. /\ a \o <<x>> \in Seq(Stop) /\ Len(a \o <<x>>) = l
        /\ \A k \in 1..l : (a \o <<x>>)[k] = IF k < l THEN s[k] ELSE x
    BY <1>1, <1>2, <1>4, ConcatProperties
  <1>6. r = (a \o <<x>>) \o b
    BY DEF InsertAt, a, b
  <1>7. /\ r \in Seq(Stop) /\ Len(r) = l + 1
        /\ \A k \in 1..(l + 1) : r[k] = IF k < l THEN s[k] ELSE IF k = l THEN x ELSE s[l]
    <2> HIDE DEF r
    <2> DEFINE c == a \o <<x>>
    <2>1. c \in Seq(Stop) /\ Len(c) = l /\ \A k \in 1..l : c[k] = IF k < l THEN s[k] ELSE x
      BY <1>5
    <2>2. r = c \o b
      BY <1>6
    <2> HIDE DEF c
    <2>0. r \in Seq(Stop) /\ Len(r) = Len(c) + Len(b)
          /\ \A k \in 1..(Len(c) + Len(b)) : r[k] = IF k <= Len(c) THEN c[k] ELSE b[k - Len(c)]
      BY <1>3, <2>1, <2>2, ConcatProperties
    <2>3. r \in Seq(Stop) /\ Len(r) = l + 1
          /\ \A k \in 1..(l + 1) : r[k] = IF k <= l THEN c[k] ELSE b[k - l]
      BY <1>3, <2>0, <2>1
    <2> QED  BY <1>1, <1>3, <2>1, <2>3
  <1>8. \A k \in 1..l : s[k].id < n
    BY DEF Trips
  <1>9. \A i, j \in 1..l : s[i].id = s[j].id => i = j
    BY DEF Trips
  <1> HIDE DEF r, l
  <1>10. \A k \in 1..(l + 1) : r[k].id < n + 1
    <2>1. \A k \in 1..l : s[k].id \in Nat
      BY <1>1 DEF Stop
    <2> QED  BY <1>1, <1>7, <1>8, <2>1
  <1>11. \A i, j \in 1..(l + 1) : r[i].id = r[j].id => i = j
    <2>1. \A k \in 1..l : s[k].id # n
      BY <1>1, <1>8 DEF Stop
    <2>2. \A k \in 1..(l + 1) : r[k].id = IF k < l THEN s[k].id ELSE IF k = l THEN n ELSE s[l].id
      BY <1>7
    <2> SUFFICES ASSUME NEW i \in 1..(l + 1), NEW j \in 1..(l + 1), r[i].id = r[j].id PROVE i = j
      OBVIOUS
    <2> QED  BY <1>1, <1>9, <2>1, <2>2
  <1>12. l + 1 \in 2..MAX_POINTS
    BY <1>1 DEF l
  <1>13. r \in Trips(n + 1)
    BY <1>7, <1>10, <1>11, <1>12 DEF Trips
  <1>14. n \in Ids(r)
    <2>1. r[l].id = n /\ l \in 1..Len(r)
      BY <1>1, <1>7
    <2> QED  BY <1>13, <2>1, TripType
  <1> QED  BY <1>13, <1>14 DEF r, l

(* A stop may change its label: nothing that is drawn, listed or asked depends on it. *)
LEMMA OnlyLabels ==
  ASSUME NEW n, NEW s \in Trips(n), NEW r \in Trips(n), Len(r) = Len(s),
         \A i \in 1..Len(s) : r[i].id = s[i].id /\ r[i].point = s[i].point
  PROVE  /\ Ids(r) = Ids(s) /\ Trip(r) = Trip(s) /\ Markers(r) = Markers(s)
         /\ \A x : Picture(x, r) = Picture(x, s)
  <1>1. DOMAIN s = 1..Len(s) /\ DOMAIN r = 1..Len(s) /\ Len(s) \in 2..MAX_POINTS
    BY TripType
  <1>2. Ids(r) = {r[i].id : i \in 1..Len(s)} /\ Ids(s) = {s[i].id : i \in 1..Len(s)}
    BY TripType
  <1>3. Ids(r) = Ids(s)
    BY <1>2
  <1>4. Trip(r) = Trip(s)
    BY <1>1 DEF Trip
  <1>5. Empties(r) = Empties(s)
    BY <1>1 DEF Empties
  <1>6. Markers(r) = Markers(s)
    BY <1>1, <1>5 DEF Markers, stopRole
  <1>7. r[1].point = s[1].point /\ Last(r).point = Last(s).point
    BY <1>1 DEF Last
  <1>8. \A x : Picture(x, r) = Picture(x, s)
    BY <1>7 DEF Picture
  <1> QED  BY <1>3, <1>4, <1>6, <1>8

(* One id for each stop. *)
LEMMA IdsAreTheirOwn ==
  ASSUME NEW n, NEW s \in Trips(n)
  PROVE  Cardinality(Ids(s)) = Len(s)
  <1> DEFINE f == [i \in 1..Len(s) |-> s[i].id]
  <1>1. Len(s) \in Nat /\ Ids(s) = {s[i].id : i \in 1..Len(s)}
    BY TripType
  <1>2. \A i, j \in 1..Len(s) : s[i].id = s[j].id => i = j
    BY DEF Trips
  <1>3. f \in Bijection(1..Len(s), Ids(s))
    BY <1>1, <1>2 DEF Bijection, Injection, IsInjective, Surjection
  <1>4. ExistsBijection(1..Len(s), Ids(s))
    BY <1>3 DEF ExistsBijection
  <1> QED  BY <1>1, <1>4, FS_CountingElements

-----------------------------------------------------------------------------
(* calculate and update.                                                   *)

LEMMA CalculateKeeps ==
  ASSUME calculating \in SUBSET Calculation, NEW s \in Seq(Stop), NEW p \in Profile,
         calculate(s, p), UNCHANGED loaded
  PROVE  /\ calculating' \in SUBSET Calculation
         /\ \A q \in calculating' : q.newest => q.trip = Trip(s) /\ q.by = p
         /\ (\A q \in calculating' : ~q.newest) =>
              /\ routes' # NoRoutes => routes' = [trip |-> Trip(s), by |-> p]
              /\ loaded' => drawn' = Picture(routes', s)
  <1>1. Superseded(calculating) \in SUBSET Calculation /\ \A q \in Superseded(calculating) : ~q.newest
    BY DEF Superseded, Calculation
  <1>2. CASE Empties(s) # {}
    <2>1. calculating' = Superseded(calculating) /\ routes' = NoRoutes /\ (loaded => drawn' = Picture(NoRoutes, s))
      BY <1>2 DEF calculate, drawRoutes
    <2> QED  BY <1>1, <2>1
  <1>3. CASE Empties(s) = {}
    <2> DEFINE q == [trip |-> Trip(s), by |-> p, newest |-> TRUE]
    <2>1. calculating' = Superseded(calculating) \union {q}
      BY <1>3 DEF calculate
    <2>2. q \in Calculation /\ q.newest /\ q.trip = Trip(s) /\ q.by = p
      BY DEF Calculation
    <2> HIDE DEF q
    <2> QED  BY <1>1, <2>1, <2>2
  <1> QED  BY <1>2, <1>3

LEMMA UpdateKeeps ==
  ASSUME RoutesInv, nextStopId' \in Nat, NEW s \in Trips(nextStopId'),
         NEW active, NEW focus \in Ids(s) \union {NoStop}, focus # NoStop \/ active \in Ids(s),
         update(s, active, focus), UNCHANGED <<profile, loaded>>
  PROVE  TripInv' /\ RoutesInv'
  <1>1. stops' = s /\ markers' = Markers(s) /\ calculate(s, profile)
    BY DEF update
  <1>2. NoStop \notin Ids(s) /\ s \in Seq(Stop)
    BY TripType
  <1>3. activeStopId' \in Ids(s) /\ focused' \in Ids(s) \union {NoStop}
    BY <1>2 DEF update, Refocused
  <1>4. TripInv'
    BY <1>1, <1>3 DEF TripInv
  <1>5. RoutesInv'
    BY <1>1, <1>2, CalculateKeeps DEF RoutesInv, RoutesAreOf
  <1> QED  BY <1>4, <1>5

(* setStop: the point and its label are of one place. *)
LEMMA SetStopKeeps ==
  ASSUME TripInv, RoutesInv, NEW id, NEW point \in Point, NEW label \in Label, Honest(label, point),
         NEW focusNext \in BOOLEAN, setStop(id, point, label, focusNext),
         UNCHANGED <<nextStopId, profile, loaded>>
  PROVE  TripInv' /\ RoutesInv'
  <1>1. CASE id \in Ids(stops)
    <2> DEFINE x == [id |-> id, point |-> point, label |-> label]
               s == [stops EXCEPT ![IndexOf(id)] = x]
               next == FirstEmpty(s)
    <2>1. IndexOf(id) \in 1..Len(stops) /\ stops[IndexOf(id)].id = id /\ stops \in Trips(nextStopId)
      BY <1>1, IndexIsOfTheId, TripType DEF TripInv
    <2>2. x \in Stop /\ x.id = id
      <3>1. stops[IndexOf(id)] \in Stop
        BY <2>1, ElementOfSeq, TripType
      <3> QED  BY <2>1, <3>1 DEF Stop
    <2>3. s \in Trips(nextStopId) /\ Ids(s) = Ids(stops)
      <3> HIDE DEF x
      <3> QED  BY <2>1, <2>2, ChangedStop
    <2>4. update(s, IF next # NoStop THEN next ELSE id, IF focusNext THEN next ELSE NoStop)
      BY <1>1 DEF setStop
    <2> HIDE DEF x, s
    <2>5. next \in Ids(s) \union {NoStop} /\ id # NoStop
      BY <1>1, <2>1, <2>3, FirstEmptyIsListed, TripType
    <2> HIDE DEF next
    <2>6. nextStopId' \in Nat /\ s \in Trips(nextStopId')
      BY <2>3 DEF TripInv
    <2> QED  BY <1>1, <2>3, <2>4, <2>5, <2>6, UpdateKeeps
  <1>2. CASE id \notin Ids(stops)
    BY <1>2 DEF setStop, TripInv, RoutesInv, RoutesAreOf
  <1> QED  BY <1>1, <1>2

(* addStop. *)
LEMMA InsertedKeeps ==
  ASSUME TripInv, RoutesInv, NEW point \in Point, NEW label \in Label, Honest(label, point),
         Len(stops) < MAX_POINTS, Inserted(point, label), UNCHANGED <<profile, loaded>>
  PROVE  TripInv' /\ RoutesInv'
  <1> DEFINE id == nextStopId
             x == [id |-> id, point |-> point, label |-> label]
             s == InsertAt(stops, Len(stops), x)
             empty == FirstEmpty(s)
             active == IF point = NoPoint \/ empty = NoStop THEN id ELSE empty
             focus == IF point = NoPoint THEN id ELSE NoStop
  <1>1. nextStopId \in Nat /\ stops \in Trips(nextStopId) /\ nextStopId' = nextStopId + 1
    BY DEF TripInv, Inserted
  <1>2. nextStopId > 0
    <2>1. 1 \in 1..Len(stops) /\ stops[1] \in Stop /\ stops[1].id < nextStopId
      BY <1>1, TripType, ElementOfSeq, DirectionsAssumption DEF Trips
    <2> QED  BY <1>1, <2>1 DEF Stop
  <1>3. x \in Stop /\ x.id = nextStopId
    BY <1>1, <1>2 DEF Stop
  <1>4. update(s, active, focus)
    BY DEF Inserted
  <1> HIDE DEF x
  <1>5. s \in Trips(nextStopId') /\ id \in Ids(s)
    BY <1>1, <1>3, Inserts
  <1> HIDE DEF s
  <1>6. empty \in Ids(s) \union {NoStop} /\ id # NoStop
    BY <1>2, <1>5, FirstEmptyIsListed DEF NoStop
  <1> HIDE DEF empty, id
  <1>7. active \in Ids(s) /\ active # NoStop /\ focus \in Ids(s) \union {NoStop}
    BY <1>5, <1>6
  <1> HIDE DEF active, focus
  <1>8. nextStopId' \in Nat
    BY <1>1
  <1> QED  BY <1>4, <1>5, <1>7, <1>8, UpdateKeeps

LEMMA NoPointIsHonest == NoPoint \in Point /\ NoLabel \in Label /\ Honest(NoLabel, NoPoint)
  BY DirectionsAssumption DEF NoPoint, Point, Label, Honest

LEMMA NewPointIsHonest ==
  ASSUME gestures \in Nat, NEW spot \in Spot
  PROVE  /\ NewPoint(spot) \in Point /\ NewPoint(spot) \in MadePoint
         /\ \A label \in {spot, MapPoint, OwnPosition} : label \in Label /\ Honest(label, NewPoint(spot))
  BY DirectionsAssumption DEF NewPoint, Point, MadePoint, Label, Honest

LEMMA NewStopIsStop ==
  ASSUME NEW id \in Nat \ {0}
  PROVE  newStop(id) \in Stop /\ newStop(id).id = id
  BY NoPointIsHonest DEF newStop, Stop

LEMMA EmptyTrip ==
  ASSUME NEW n \in Nat \ {0}
  PROVE  LET s == <<newStop(n), newStop(n + 1)>> IN s \in Trips(n + 2) /\ Ids(s) = {n, n + 1}
  <1> DEFINE s == <<newStop(n), newStop(n + 1)>>
  <1>1. newStop(n) \in Stop /\ newStop(n + 1) \in Stop /\ newStop(n).id = n /\ newStop(n + 1).id = n + 1
    BY NewStopIsStop
  <1>2. s \in Seq(Stop) /\ Len(s) = 2 /\ s[1].id = n /\ s[2].id = n + 1
    BY <1>1
  <1> HIDE DEF s
  <1>3. s \in Trips(n + 2)
    <2>1. \A i \in 1..2 : s[i].id = n + i - 1
      BY <1>2
    <2>2. \A i \in 1..2 : s[i].id < n + 2
      BY <2>1
    <2>3. \A i, j \in 1..2 : s[i].id = s[j].id => i = j
      BY <2>1
    <2>4. 2 \in 2..MAX_POINTS
      BY DirectionsAssumption
    <2> QED  BY <1>2, <2>2, <2>3, <2>4 DEF Trips
  <1>4. Ids(s) = {n, n + 1}
    BY <1>2, <1>3, TripType
  <1> QED  BY <1>3, <1>4 DEF s

LEMMA DirectionsInitInv == DirectionsInit => DirectionsInv
  <1> SUFFICES ASSUME DirectionsInit PROVE DirectionsInv
    OBVIOUS
  <1>1. stops \in Trips(3) /\ Ids(stops) = {1, 2}
    BY EmptyTrip DEF DirectionsInit
  <1>2. markers = Markers(stops)
    <2>1. DOMAIN stops = 1..2 /\ stops[1].point = NoPoint /\ stops[2].point = NoPoint
      BY DEF DirectionsInit, newStop
    <2>2. Empties(stops) = DOMAIN stops
      BY <2>1 DEF Empties
    <2> QED  BY <2>2 DEF Markers, DirectionsInit
  <1>3. TripInv
    BY <1>1, <1>2 DEF TripInv, DirectionsInit, NoStop
  <1>4. RoutesInv
    BY DEF RoutesInv, RoutesAreOf, DirectionsInit
  <1>5. CardInv
    BY NoPointIsHonest DEF CardInv, DirectionsInit, NoPlace, NoLabel
  <1> QED  BY <1>3, <1>4, <1>5 DEF DirectionsInv

-----------------------------------------------------------------------------
(* The actions: first what they do to the trip, its markers and routes.    *)

LEMMA SameTrip ==
  ASSUME TripInv, RoutesInv,
         UNCHANGED <<stops, activeStopId, focused, nextStopId, profile, routes, calculating, loaded, drawn, markers>>
  PROVE  TripInv' /\ RoutesInv'
  BY DEF TripInv, RoutesInv, RoutesAreOf

LEMMA SameRoutes ==
  ASSUME RoutesInv, UNCHANGED <<stops, profile, routes, calculating, loaded, drawn>>
  PROVE  RoutesInv'
  BY DEF RoutesInv, RoutesAreOf

LEMMA ClearTextKeeps ==
  ASSUME TripInv, RoutesInv, NEW id \in Nat \ {0}, ClearText(id)
  PROVE  TripInv' /\ RoutesInv'
  <1> DEFINE s == [stops EXCEPT ![IndexOf(id)] = newStop(id)]
  <1>1. id \in Ids(stops)
    BY DEF TripInv, ClearText, NoStop
  <1>2. IndexOf(id) \in 1..Len(stops) /\ stops[IndexOf(id)].id = id /\ stops \in Trips(nextStopId)
    BY <1>1, IndexIsOfTheId, TripType DEF TripInv
  <1>3. s \in Trips(nextStopId) /\ Ids(s) = Ids(stops)
    BY <1>2, NewStopIsStop, ChangedStop
  <1>4. /\ stops' = s /\ markers' = Markers(s) /\ calculate(s, profile)
        /\ UNCHANGED <<activeStopId, focused, nextStopId, profile, loaded>>
    BY DEF ClearText
  <1> HIDE DEF s
  <1>5. TripInv'
    BY <1>3, <1>4 DEF TripInv
  <1>6. RoutesInv'
    <2>1. s \in Seq(Stop)
      BY <1>3, TripType
    <2> QED  BY <1>4, <2>1, CalculateKeeps DEF RoutesInv, RoutesAreOf
  <1> QED  BY <1>5, <1>6

LEMMA RemoveStopKeeps ==
  ASSUME TripInv, RoutesInv, NEW i \in Nat, removeStop(i)
  PROVE  TripInv' /\ RoutesInv'
  <1> DEFINE shorter == Len(stops) > 2
             s == IF shorter THEN RemoveAt(stops, i) ELSE [stops EXCEPT ![i] = newStop(stops[i].id)]
             near == s[IF i <= Len(s) THEN i ELSE Len(s)].id
             active == IF ~shorter THEN stops[i].id
                       ELSE IF stops[i].id = activeStopId THEN near ELSE activeStopId
  <1>1. i \in 1..Len(stops) /\ stops \in Trips(nextStopId) /\ Len(stops) \in Nat
    BY TripType DEF removeStop, TripInv
  <1>2. s \in Trips(nextStopId)
    <2>1. CASE shorter
      BY <1>1, <2>1, Removed
    <2>2. CASE ~shorter
      <3>1. stops[i] \in Stop
        BY <1>1, TripType, ElementOfSeq
      <3>2. newStop(stops[i].id) \in Stop /\ newStop(stops[i].id).id = stops[i].id
        BY <3>1, NewStopIsStop DEF Stop
      <3> QED  BY <1>1, <2>2, <3>2, ChangedStop
    <2> QED  BY <2>1, <2>2
  <1>3. update(s, active, near) /\ UNCHANGED <<nextStopId, profile, loaded>>
    BY DEF removeStop
  <1> HIDE DEF s
  <1>4. near \in Ids(s) /\ near # NoStop
    <2>1. LET k == IF i <= Len(s) THEN i ELSE Len(s) IN k \in 1..Len(s)
      BY <1>1, <1>2, TripType, DirectionsAssumption
    <2> QED  BY <1>2, <2>1, TripType
  <1> HIDE DEF near
  <1> HIDE DEF active
  <1>5. nextStopId' \in Nat /\ s \in Trips(nextStopId')
    BY <1>2, <1>3 DEF TripInv
  <1> QED  BY <1>3, <1>4, <1>5, UpdateKeeps

LEMMA CloseDirectionsKeeps ==
  ASSUME TripInv, RoutesInv, closeDirections
  PROVE  TripInv' /\ RoutesInv'
  <1> DEFINE s == <<newStop(nextStopId), newStop(nextStopId + 1)>>
  <1>1. nextStopId \in Nat \ {0}
    <2>1. 1 \in 1..Len(stops) /\ stops[1] \in Stop /\ stops[1].id < nextStopId
      BY TripType, ElementOfSeq, DirectionsAssumption DEF TripInv, Trips
    <2> QED  BY <2>1 DEF TripInv, Stop
  <1>2. nextStopId' = nextStopId + 2 /\ update(s, nextStopId, NoStop) /\ UNCHANGED <<profile, loaded>>
    BY DEF closeDirections
  <1>3. s \in Trips(nextStopId') /\ nextStopId \in Ids(s)
    BY <1>1, <1>2, EmptyTrip
  <1> HIDE DEF s
  <1>4. nextStopId' \in Nat
    BY <1>1, <1>2
  <1> QED  BY <1>2, <1>3, <1>4, UpdateKeeps

LEMMA PlaceAsEndKeeps ==
  ASSUME DirectionsInv, NEW i \in Nat, PlaceAsEnd(i)
  PROVE  TripInv' /\ RoutesInv'
  <1> DEFINE s == [stops EXCEPT ![i].point = place.point, ![i].label = place.name]
             x == [id |-> stops[i].id, point |-> place.point, label |-> place.name]
             active == IF FirstEmpty(s) # NoStop THEN FirstEmpty(s) ELSE s[i].id
  <1>1. i \in 1..Len(stops) /\ stops \in Trips(nextStopId) /\ DOMAIN stops = 1..Len(stops)
    BY TripType, DirectionsAssumption DEF PlaceAsEnd, DirectionsInv, TripInv
  <1>2. stops[i] \in Stop
    BY <1>1, TripType, ElementOfSeq
  <1>3. x \in Stop /\ x.id = stops[i].id
    BY <1>2 DEF DirectionsInv, CardInv, Stop
  <1>4. s = [stops EXCEPT ![i] = x]
    <2> DEFINE once == [stops EXCEPT ![i] = [stops[i] EXCEPT !.point = place.point]]
    <2>1. stops \in [1..Len(stops) -> Stop]
      BY <1>1, TripType, LenProperties
    <2>2. once[i] = [stops[i] EXCEPT !.point = place.point] /\ DOMAIN once = 1..Len(stops)
      BY <1>1, <2>1
    <2>3. x = [once[i] EXCEPT !.label = place.name]
      BY <1>2, <2>2 DEF Stop
    <2>4. s = [once EXCEPT ![i] = [once[i] EXCEPT !.label = place.name]]
      BY <1>1
    <2> HIDE DEF s, x
    <2>5. s = [once EXCEPT ![i] = x]
      BY <2>3, <2>4
    <2> QED  BY <1>1, <2>1, <2>5
  <1>5. update(s, active, active) /\ UNCHANGED <<nextStopId, profile, loaded>>
    BY DEF PlaceAsEnd
  <1> HIDE DEF s, x
  <1>6. s \in Trips(nextStopId) /\ s[i].id \in Ids(s) /\ s[i].id # NoStop
    <2>1. s \in Trips(nextStopId) /\ Len(s) = Len(stops)
      BY <1>1, <1>3, <1>4, ChangedStop
    <2> QED  BY <1>1, <2>1, TripType
  <1>7. active \in Ids(s) /\ active # NoStop
    BY <1>6, FirstEmptyIsListed
  <1> HIDE DEF active
  <1>8. nextStopId' \in Nat /\ s \in Trips(nextStopId')
    BY <1>5, <1>6 DEF DirectionsInv, TripInv
  <1> QED  BY <1>5, <1>7, <1>8, UpdateKeeps DEF DirectionsInv

LEMMA NamedKeeps ==
  ASSUME DirectionsInv, NEW q \in naming, Named(q)
  PROVE  TripInv' /\ RoutesInv'
  <1>1. CASE NamesStop(q)
    <2> DEFINE i == IndexOf(q.for)
               s == [stops EXCEPT ![i].label = q.point.at]
               x == [stops[i] EXCEPT !.label = q.point.at]
    <2>1. i \in 1..Len(stops) /\ stops \in Trips(nextStopId) /\ stops[i].point = q.point
      BY <1>1, IndexIsOfTheId, TripType DEF NamesStop, DirectionsInv, TripInv
    <2>2. stops[i] \in Stop
      BY <2>1, TripType, ElementOfSeq
    <2>3. x \in Stop /\ x.id = stops[i].id /\ x.point = stops[i].point
      BY <2>1, <2>2 DEF DirectionsInv, CardInv, MadePoint, Stop, Honest, Label
    <2>4. s = [stops EXCEPT ![i] = x] /\ stops' = s
      BY <1>1 DEF Named
    <2> HIDE DEF s, x, i
    <2>0. /\ s \in Trips(nextStopId) /\ Len(s) = Len(stops) /\ Ids(s) = Ids(stops)
          /\ \A j \in 1..Len(stops) : s[j] = IF j = i THEN x ELSE stops[j]
      <3> DEFINE t == [stops EXCEPT ![i] = x]
      <3>1. /\ t \in Trips(nextStopId) /\ Len(t) = Len(stops) /\ Ids(t) = Ids(stops)
            /\ \A j \in 1..Len(stops) : t[j] = IF j = i THEN x ELSE stops[j]
        BY <2>1, <2>3, ChangedStop
      <3> QED  BY <2>4, <3>1
    <2>5. \A j \in 1..Len(stops) : s[j].id = stops[j].id /\ s[j].point = stops[j].point
      BY <2>0, <2>3
    <2>6. Trip(s) = Trip(stops) /\ Markers(s) = Markers(stops) /\ \A r : Picture(r, s) = Picture(r, stops)
      BY <2>0, <2>1, <2>5, OnlyLabels
    <2>7. UNCHANGED <<activeStopId, focused, nextStopId, profile, routes, calculating, loaded, drawn, markers>>
      BY DEF Named
    <2>8. TripInv'
      BY <2>0, <2>4, <2>6, <2>7 DEF DirectionsInv, TripInv
    <2>9. RoutesInv'
      BY <2>4, <2>6, <2>7 DEF DirectionsInv, RoutesInv, RoutesAreOf
    <2> QED  BY <2>8, <2>9
  <1>2. CASE ~NamesStop(q)
    BY <1>2, SameTrip DEF Named, DirectionsInv
  <1> QED  BY <1>1, <1>2

LEMMA FinishKeeps ==
  ASSUME RoutesInv, NEW q \in calculating, NEW r,
         r # NoRoutes => r = [trip |-> q.trip, by |-> q.by], Finish(q, r)
  PROVE  RoutesInv'
  <1>1. UNCHANGED <<stops, profile, loaded>> /\ calculating' = calculating \ {q}
    BY DEF Finish
  <1>2. CASE q.newest
    <2>1. routes' = r /\ drawn' = IF loaded THEN Picture(r, stops) ELSE drawn
      BY <1>2 DEF Finish, drawRoutes
    <2>2. q.trip = Trip(stops) /\ q.by = profile
      BY <1>2 DEF RoutesInv, RoutesAreOf
    <2> QED  BY <1>1, <2>1, <2>2 DEF RoutesInv, RoutesAreOf
  <1>3. CASE ~q.newest
    BY <1>1, <1>3 DEF Finish, RoutesInv, RoutesAreOf
  <1> QED  BY <1>2, <1>3

LEMMA TripNextKeeps == DirectionsInv /\ [DirectionsNext]_directionsVars => TripInv' /\ RoutesInv'
  <1> SUFFICES ASSUME DirectionsInv, [DirectionsNext]_directionsVars PROVE TripInv' /\ RoutesInv'
    OBVIOUS
  <1>0. TripInv /\ RoutesInv /\ CardInv /\ stops \in Trips(nextStopId) /\ gestures \in Nat
    BY DEF DirectionsInv, TripInv, CardInv
  <1>1. CASE MapLoads
    BY <1>0, <1>1 DEF MapLoads, TripInv, RoutesInv, RoutesAreOf
  <1>2. CASE Blur
    BY <1>0, <1>2, SameRoutes DEF Blur, TripInv
  <1>3. CASE addStop
    BY <1>0, <1>3, InsertedKeeps, NoPointIsHonest DEF addStop
  <1>4. CASE swapStops
    <2> DEFINE s == Reverse(stops)
    <2>1. s \in Trips(nextStopId) /\ activeStopId \in Ids(s)
      BY <1>0, Reversed DEF TripInv
    <2>2. update(s, activeStopId, NoStop) /\ UNCHANGED <<nextStopId, profile, loaded>>
      BY <1>4 DEF swapStops
    <2> HIDE DEF s
    <2>3. nextStopId' \in Nat /\ s \in Trips(nextStopId')
      BY <1>0, <2>1, <2>2 DEF TripInv
    <2> QED  BY <1>0, <2>1, <2>2, <2>3, UpdateKeeps
  <1>5. CASE hidePlace
    BY <1>0, <1>5, SameTrip DEF hidePlace
  <1>6. CASE openDirections
    <2>1. FirstEmpty(stops) \in Ids(stops) \union {NoStop} /\ NoStop \notin Ids(stops)
      BY <1>0, FirstEmptyIsListed, TripType
    <2>2. activeStopId' \in Ids(stops) /\ focused' \in Ids(stops) \union {NoStop}
      BY <1>0, <1>6, <2>1 DEF openDirections, Refocused, TripInv
    <2>3. UNCHANGED <<stops, nextStopId, profile, routes, calculating, loaded, drawn, markers>>
      BY <1>6 DEF openDirections
    <2> QED  BY <1>0, <2>2, <2>3, SameRoutes DEF TripInv
  <1>7. CASE closeDirections
    BY <1>0, <1>7, CloseDirectionsKeeps
  <1>8. CASE PlaceAsStop
    <2>1. place.point \in Point /\ place.name \in Label /\ Honest(place.name, place.point)
      BY <1>0 DEF CardInv
    <2> QED  BY <1>0, <1>8, <2>1, SetStopKeeps, InsertedKeeps DEF PlaceAsStop
  <1>9. CASE SelectRoute
    BY <1>0, <1>9 DEF SelectRoute, drawRoutes, TripInv, RoutesInv, RoutesAreOf
  <1>10. ASSUME NEW id \in 1..MaxStop, ClearText(id) PROVE TripInv' /\ RoutesInv'
    BY <1>0, <1>10, ClearTextKeeps
  <1>11. ASSUME NEW id \in 1..MaxStop, Focus(id) PROVE TripInv' /\ RoutesInv'
    BY <1>0, <1>11, SameRoutes DEF Focus, TripInv
  <1>12. ASSUME NEW id \in 1..MaxStop, locate(id) \/ NotLocated(id) PROVE TripInv' /\ RoutesInv'
    BY <1>0, <1>12, SameTrip DEF locate, NotLocated
  <1>13. ASSUME NEW id \in 1..MaxStop, NEW spot \in Spot,
                SelectForStop(id, spot) \/ Located(id, spot) \/ DragEnds(id, spot)
         PROVE  TripInv' /\ RoutesInv'
    BY <1>0, <1>13, NewPointIsHonest, SetStopKeeps DEF SelectForStop, Located, DragEnds
  <1>14. ASSUME NEW i \in 1..MAX_POINTS, NEW j \in 1..MAX_POINTS, moveStop(i, j) PROVE TripInv' /\ RoutesInv'
    <2> DEFINE s == [stops EXCEPT ![i] = stops[j], ![j] = stops[i]]
    <2>1. i \in 1..Len(stops) /\ j \in 1..Len(stops)
      BY <1>0, <1>14, TripType DEF moveStop
    <2>2. s \in Trips(nextStopId) /\ stops[i].id \in Ids(s)
      BY <1>0, <2>1, Swapped
    <2>3. update(s, activeStopId, stops[i].id) /\ UNCHANGED <<nextStopId, profile, loaded>>
      BY <1>14 DEF moveStop
    <2> HIDE DEF s
    <2>4. nextStopId' \in Nat /\ s \in Trips(nextStopId') /\ NoStop \notin Ids(s)
      BY <1>0, <2>2, <2>3, TripType DEF TripInv
    <2> QED  BY <1>0, <2>2, <2>3, <2>4, UpdateKeeps
  <1>15. ASSUME NEW i \in 1..MAX_POINTS, removeStop(i) PROVE TripInv' /\ RoutesInv'
    BY <1>0, <1>15, RemoveStopKeeps
  <1>16. ASSUME NEW i \in 1..MAX_POINTS, PlaceAsEnd(i) PROVE TripInv' /\ RoutesInv'
    BY <1>0, <1>16, PlaceAsEndKeeps
  <1>17. ASSUME NEW spot \in Spot, onMapClick(spot) PROVE TripInv' /\ RoutesInv'
    <2>1. NewPoint(spot) \in Point /\ MapPoint \in Label /\ Honest(MapPoint, NewPoint(spot))
      BY <1>0, NewPointIsHonest
    <2> QED  BY <1>0, <1>17, <2>1, SetStopKeeps, SameTrip DEF onMapClick
  <1>18. ASSUME NEW spot \in Spot, SelectPlace(spot) PROVE TripInv' /\ RoutesInv'
    BY <1>0, <1>18, SameTrip DEF SelectPlace
  <1>19. ASSUME NEW q \in naming, Named(q) PROVE TripInv' /\ RoutesInv'
    BY <1>19, NamedKeeps
  <1>20. ASSUME NEW q \in naming, NotNamed(q) PROVE TripInv' /\ RoutesInv'
    BY <1>0, <1>20, SameTrip DEF NotNamed
  <1>21. ASSUME NEW q \in calculating, Calculated(q) \/ NotCalculated(q) PROVE TripInv' /\ RoutesInv'
    <2>1. RoutesInv'
      BY <1>0, <1>21, FinishKeeps DEF Calculated, NotCalculated
    <2>2. TripInv'
      BY <1>0, <1>21 DEF Calculated, NotCalculated, Finish, TripInv
    <2> QED  BY <2>1, <2>2
  <1>22. ASSUME NEW p \in Profile, ChooseProfile(p) PROVE TripInv' /\ RoutesInv'
    <2>1. RoutesInv'
      BY <1>0, <1>22, TripType, CalculateKeeps DEF ChooseProfile, RoutesInv, RoutesAreOf
    <2>2. TripInv'
      BY <1>0, <1>22 DEF ChooseProfile, TripInv
    <2> QED  BY <2>1, <2>2
  <1>23. CASE UNCHANGED directionsVars
    BY <1>0, <1>23, SameTrip DEF directionsVars
  <1> QED
    BY <1>1, <1>2, <1>3, <1>4, <1>5, <1>6, <1>7, <1>8, <1>9, <1>10, <1>11, <1>12, <1>13, <1>14, <1>15, <1>16,
       <1>17, <1>18, <1>19, <1>20, <1>21, <1>22, <1>23 DEF DirectionsNext

-----------------------------------------------------------------------------
(* The place card and the names to come: a name goes with the very point   *)
(* it was asked for.                                                       *)

LEMMA SameCard ==
  ASSUME CardInv, UNCHANGED <<place, naming>>, gestures' = gestures \/ Gesture
  PROVE  CardInv'
  BY DEF CardInv, Gesture

LEMMA HiddenCard ==
  ASSUME CardInv, Gesture, place' = NoPlace, UNCHANGED naming
  PROVE  CardInv'
  <1>1. NoPlace \in [point : Point, name : Label] /\ NoPlace.point = NoPoint /\ NoPlace.name = NoLabel
    BY NoPointIsHonest DEF NoPlace, NoLabel
  <1> QED  BY <1>1, NoPointIsHonest DEF CardInv, Gesture

LEMMA NameIsAsked ==
  ASSUME CardInv, NEW spot \in Spot, Gesture, NEW for, AskName(for, NewPoint(spot)),
         UNCHANGED place \/ (\E name \in {spot, MapPoint} : place' = [point |-> NewPoint(spot), name |-> name])
  PROVE  CardInv'
  <1> DEFINE point == NewPoint(spot)
  <1>1. /\ point \in Point /\ point \in MadePoint
        /\ \A label \in {spot, MapPoint} : label \in Label /\ Honest(label, point)
    BY NewPointIsHonest DEF CardInv
  <1>2. naming' = naming \union {[for |-> for, point |-> point]}
    BY DEF AskName
  <1> HIDE DEF point
  <1>3. \A q \in naming' : q.point \in MadePoint
    BY <1>1, <1>2 DEF CardInv
  <1>4. place' \in [point : Point, name : Label] /\ Honest(place'.name, place'.point)
    <2>1. CASE UNCHANGED place
      BY <2>1 DEF CardInv
    <2>2. ASSUME NEW name \in {spot, MapPoint}, place' = [point |-> point, name |-> name]
          PROVE  place' \in [point : Point, name : Label] /\ Honest(place'.name, place'.point)
      BY <1>1, <2>2
    <2> QED  BY <2>1, <2>2 DEF point
  <1> QED  BY <1>3, <1>4 DEF CardInv, Gesture

LEMMA CardNextKeeps == DirectionsInv /\ [DirectionsNext]_directionsVars => CardInv'
  <1> SUFFICES ASSUME DirectionsInv, [DirectionsNext]_directionsVars PROVE CardInv'
    OBVIOUS
  <1>0. CardInv
    BY DEF DirectionsInv
  <1>1. CASE MapLoads \/ Blur \/ addStop \/ swapStops \/ openDirections \/ closeDirections \/ SelectRoute
    BY <1>0, <1>1, SameCard
       DEF MapLoads, Blur, addStop, swapStops, openDirections, closeDirections, SelectRoute
  <1>2. CASE hidePlace \/ PlaceAsStop
    BY <1>0, <1>2, HiddenCard DEF hidePlace, PlaceAsStop
  <1>3. ASSUME NEW id \in 1..MaxStop, ClearText(id) \/ Focus(id) \/ locate(id) \/ NotLocated(id) PROVE CardInv'
    BY <1>0, <1>3, SameCard DEF ClearText, Focus, locate, NotLocated
  <1>4. ASSUME NEW id \in 1..MaxStop, NEW spot \in Spot, SelectForStop(id, spot) \/ Located(id, spot) PROVE CardInv'
    BY <1>0, <1>4, SameCard DEF SelectForStop, Located
  <1>5. ASSUME NEW id \in 1..MaxStop, NEW spot \in Spot, DragEnds(id, spot) PROVE CardInv'
    BY <1>0, <1>5, NameIsAsked DEF DragEnds
  <1>6. ASSUME NEW i \in 1..MAX_POINTS, NEW j \in 1..MAX_POINTS, moveStop(i, j) \/ removeStop(i) PROVE CardInv'
    BY <1>0, <1>6, SameCard DEF moveStop, removeStop
  <1>7. ASSUME NEW i \in 1..MAX_POINTS, PlaceAsEnd(i) PROVE CardInv'
    BY <1>0, <1>7, HiddenCard DEF PlaceAsEnd
  <1>8. ASSUME NEW spot \in Spot, onMapClick(spot) PROVE CardInv'
    <2>1. Gesture /\ \E for : AskName(for, NewPoint(spot))
      BY <1>8 DEF onMapClick
    <2>2. UNCHANGED place \/ place' = [point |-> NewPoint(spot), name |-> MapPoint]
      BY <1>8 DEF onMapClick
    <2> QED  BY <1>0, <2>1, <2>2, NameIsAsked
  <1>9. ASSUME NEW spot \in Spot, SelectPlace(spot) PROVE CardInv'
    <2>1. /\ NewPoint(spot) \in Point /\ spot \in Label /\ Honest(spot, NewPoint(spot))
      BY <1>0, NewPointIsHonest DEF CardInv
    <2> QED  BY <1>0, <1>9, <2>1 DEF SelectPlace, CardInv, Gesture
  <1>10. ASSUME NEW q \in naming, Named(q) PROVE CardInv'
    <2>1. naming' \in SUBSET naming /\ UNCHANGED gestures
      BY <1>10 DEF Named
    <2>2. CASE NamesPlace(q)
      <3>1. place' = [place EXCEPT !.name = q.point.at] /\ place.point = q.point
        BY <1>10, <2>2 DEF Named, NamesPlace
      <3>2. q.point.at \in Label
        BY <1>0 DEF CardInv, MadePoint, Label
      <3> QED  BY <1>0, <2>1, <3>1, <3>2 DEF CardInv, Honest
    <2>3. CASE ~NamesPlace(q)
      BY <1>0, <1>10, <2>1, <2>3 DEF Named, CardInv
    <2> QED  BY <2>2, <2>3
  <1>11. ASSUME NEW q \in naming, NotNamed(q) PROVE CardInv'
    BY <1>0, <1>11 DEF NotNamed, CardInv
  <1>12. ASSUME NEW q \in calculating, Calculated(q) \/ NotCalculated(q) PROVE CardInv'
    BY <1>0, <1>12, SameCard DEF Calculated, NotCalculated, Finish
  <1>13. ASSUME NEW p \in Profile, ChooseProfile(p) PROVE CardInv'
    BY <1>0, <1>13, SameCard DEF ChooseProfile
  <1>14. CASE UNCHANGED directionsVars
    BY <1>0, <1>14, SameCard DEF directionsVars
  <1> QED
    BY <1>1, <1>2, <1>3, <1>4, <1>5, <1>6, <1>7, <1>8, <1>9, <1>10, <1>11, <1>12, <1>13, <1>14 DEF DirectionsNext

LEMMA DirectionsNextKeepsInv == DirectionsInv /\ [DirectionsNext]_directionsVars => DirectionsInv'
  BY TripNextKeeps, CardNextKeeps DEF DirectionsInv

-----------------------------------------------------------------------------
(* The list of stops, the markers on the map and the stop that the next    *)
(* click fills are about one trip of two to MAX_POINTS stops, each known   *)
(* by its own id, after whichever gestures and late answers (update,       *)
(* setStop, removeStop, addStop, syncMarkers).                             *)
THEOREM StopsAlwaysInStep == DirectionsSpec => []StopsAreInStep
  <1>1. DirectionsInv => StopsAreInStep
    BY TripType, IdsAreTheirOwn
       DEF DirectionsInv, TripInv, StopsAreInStep, MarkersAreOfTheStops, ActiveStopIsListed
  <1> QED  BY <1>1, DirectionsInitInv, DirectionsNextKeepsInv, PTL DEF DirectionsSpec

(* With no request under way that counts, the routes listed and drawn are  *)
(* those of the stops and the profile on screen, whatever order answers    *)
(* and failures came in (calculate, drawRoutes).                           *)
THEOREM RoutesAlwaysOfTheTrip == DirectionsSpec => []RoutesAreOfTheTrip
  <1>1. DirectionsInv => RoutesAreOfTheTrip
    BY DEF DirectionsInv, RoutesInv, RoutesAreOf, RoutesAreOfTheTrip
  <1> QED  BY <1>1, DirectionsInitInv, DirectionsNextKeepsInv, PTL DEF DirectionsSpec

(* An address that arrives late never names another point: the label of a  *)
(* stop or of the card is of the place where its point is (nameFromMap,    *)
(* onMapClick).                                                            *)
THEOREM NamesAlwaysOfTheirPoints == DirectionsSpec => []NamesAreOfTheirPoints
  <1>1. ASSUME DirectionsInv PROVE NamesAreOfTheirPoints
    <2>1. stops \in Seq(Stop) /\ DOMAIN stops = 1..Len(stops)
      BY <1>1, TripType DEF DirectionsInv, TripInv
    <2>2. \A i \in DOMAIN stops : Honest(stops[i].label, stops[i].point)
      BY <2>1, ElementOfSeq DEF Stop
    <2> QED  BY <1>1, <2>2 DEF DirectionsInv, CardInv, NamesAreOfTheirPoints, Honest
  <1> QED  BY <1>1, DirectionsInitInv, DirectionsNextKeepsInv, PTL DEF DirectionsSpec

-----------------------------------------------------------------------------
(* ViewerSearch.  What is asked for is kept in the cache as long as a      *)
(* search waits for it.                                                    *)

SearchInv == SearchTypeOK /\ SearchesAreAsked
Asking == [key : Key, first : BOOLEAN, newest : BOOLEAN]

LEMMA SearchInitInv == SearchInit => SearchInv
  BY DEF SearchInit, SearchInv, SearchTypeOK, SearchesAreAsked

LEMMA SupersedingKeepsKeys ==
  ASSUME NEW R \in SUBSET Asking
  PROVE  Superseding(R) \in SUBSET Asking /\ \A q \in Superseding(R) : \E r \in R : q.key = r.key
  BY DEF Superseding, Asking

(* Superseded searches stay under way. *)
LEMMA ClosedKeepsInv ==
  ASSUME SearchInv, NEW b \in InputBox, Close(b), typed' \in [InputBox -> Query \union {NoQuery}],
         UNCHANGED <<cache, centre>>
  PROVE  SearchInv'
  <1>1. Superseding(searches[b]) \in SUBSET Asking
        /\ \A q \in Superseding(searches[b]) : \E r \in searches[b] : q.key = r.key
    BY SupersedingKeepsKeys DEF SearchInv, SearchTypeOK, Asking
  <1>2. searches' = [searches EXCEPT ![b] = Superseding(searches[b])] /\ timer' = [timer EXCEPT ![b] = NoQuery]
    BY DEF Close
  <1>3. SearchTypeOK'
    BY <1>1, <1>2 DEF SearchInv, SearchTypeOK, Asking
  <1>4. SearchesAreAsked'
    BY <1>1, <1>2 DEF SearchInv, SearchTypeOK, SearchesAreAsked
  <1> QED  BY <1>3, <1>4 DEF SearchInv

(* run: a search that waits does so for a promise under way. *)
LEMMA RunKeepsInv ==
  ASSUME SearchInv, NEW b \in InputBox, NEW text \in Query, NEW first \in BOOLEAN, run(b, text, first),
         timer' = [timer EXCEPT ![b] = NoQuery], UNCHANGED <<typed, centre>>
  PROVE  SearchInv'
  <1> DEFINE q == [key |-> <<text, centre>>, first |-> first, newest |-> TRUE]
             old == Superseding(searches[b])
  <1>1. old \in SUBSET Asking /\ \A p \in old : \E r \in searches[b] : p.key = r.key
    BY SupersedingKeepsKeys DEF SearchInv, SearchTypeOK, Asking
  <1>2. q.key \in Key /\ q \in Asking
    BY DEF SearchInv, SearchTypeOK, Key, Asking
  <1>3. timer' \in [InputBox -> Query \union {NoQuery}]
    BY DEF SearchInv, SearchTypeOK
  <1>4. CASE cache[q.key] = "kept"
    <2>1. searches' = [searches EXCEPT ![b] = old] /\ UNCHANGED cache
      BY <1>4 DEF run
    <2> HIDE DEF old
    <2>2. SearchTypeOK'
      BY <1>1, <1>3, <2>1 DEF SearchInv, SearchTypeOK, Asking
    <2>3. SearchesAreAsked'
      BY <1>1, <2>1 DEF SearchInv, SearchTypeOK, SearchesAreAsked
    <2> QED  BY <2>2, <2>3 DEF SearchInv
  <1>5. CASE cache[q.key] # "kept"
    <2>1. searches' = [searches EXCEPT ![b] = old \union {q}] /\ cache' = [cache EXCEPT ![q.key] = "asked"]
      BY <1>5 DEF run
    <2> HIDE DEF old, q
    <2>2. SearchTypeOK'
      BY <1>1, <1>2, <1>3, <2>1 DEF SearchInv, SearchTypeOK, Asking
    <2>3. SearchesAreAsked'
      BY <1>1, <1>2, <2>1 DEF SearchInv, SearchTypeOK, SearchesAreAsked
    <2> QED  BY <2>2, <2>3 DEF SearchInv
  <1> QED  BY <1>4, <1>5

(* A promise settles for everyone who waits for it, in whichever box. *)
LEMMA SettledKeepsInv ==
  ASSUME SearchInv, NEW k \in Key, NEW now \in {"kept", "absent"},
         cache' = [cache EXCEPT ![k] = now],
         searches' = [b \in InputBox |-> searches[b] \ Waiting(b, k)],
         timer' \in [InputBox -> Query \union {NoQuery}], UNCHANGED <<typed, centre>>
  PROVE  SearchInv'
  <1>1. SearchTypeOK'
    BY DEF SearchInv, SearchTypeOK
  <1>2. SearchesAreAsked'
    BY DEF SearchInv, SearchTypeOK, SearchesAreAsked, Waiting
  <1> QED  BY <1>1, <1>2 DEF SearchInv

LEMMA SearchNextKeepsInv == SearchInv /\ [SearchNext]_searchVars => SearchInv'
  <1> SUFFICES ASSUME SearchInv, [SearchNext]_searchVars PROVE SearchInv'
    OBVIOUS
  <1>0. /\ typed \in [InputBox -> Query \union {NoQuery}] /\ timer \in [InputBox -> Query \union {NoQuery}]
        /\ centre \in Centre
    BY DEF SearchInv, SearchTypeOK
  <1>1. ASSUME NEW b \in InputBox, TimerFires(b) PROVE SearchInv'
    BY <1>0, <1>1, RunKeepsInv DEF TimerFires
  <1>2. ASSUME NEW b \in InputBox, Choose(b) \/ Leave(b) PROVE SearchInv'
    BY <1>0, <1>2, ClosedKeepsInv DEF Choose, Leave
  <1>3. ASSUME NEW b \in InputBox, Enter(b) PROVE SearchInv'
    <2>1. typed[b] \in Query
      BY <1>0, <1>3, SearchAssumption DEF Enter
    <2> QED  BY <1>3, <2>1, RunKeepsInv DEF Enter
  <1>4. ASSUME NEW b \in InputBox, NEW text \in Query \union {NoQuery}, Type(b, text) PROVE SearchInv'
    <2>1. typed' \in [InputBox -> Query \union {NoQuery}] /\ UNCHANGED <<cache, centre>>
      BY <1>0, <1>4 DEF Type
    <2>2. CASE Close(b)
      BY <2>1, <2>2, ClosedKeepsInv
    <2>3. CASE timer' = [timer EXCEPT ![b] = text] /\ UNCHANGED <<listbox, searches>>
      BY <1>0, <2>1, <2>3 DEF SearchInv, SearchTypeOK, SearchesAreAsked
    <2> QED  BY <1>4, <2>2, <2>3 DEF Type
  <1>5. ASSUME NEW c \in Centre, MoveMap(c) PROVE SearchInv'
    BY <1>5 DEF MoveMap, SearchInv, SearchTypeOK, SearchesAreAsked
  <1>6. ASSUME NEW k \in Key, Answered(k) PROVE SearchInv'
    <2>1. timer' \in [InputBox -> Query \union {NoQuery}]
      BY <1>0, <1>6 DEF Answered
    <2> QED  BY <1>6, <2>1, SettledKeepsInv DEF Answered
  <1>7. ASSUME NEW k \in Key, Failed(k) PROVE SearchInv'
    BY <1>0, <1>7, SettledKeepsInv DEF Failed
  <1>8. CASE UNCHANGED searchVars
    BY <1>8 DEF searchVars, SearchInv, SearchTypeOK, SearchesAreAsked
  <1> QED  BY <1>1, <1>2, <1>3, <1>4, <1>5, <1>6, <1>7, <1>8 DEF SearchNext

(* A box never waits for an answer that will not come: each search under   *)
(* way is for a request under way, also when several boxes share it and    *)
(* when an earlier request for the same text failed (searchPlaces, run).   *)
THEOREM BoxesAreAnswered == SearchSpec => []SearchesAreAsked
  <1>1. SearchInv => SearchesAreAsked
    BY DEF SearchInv
  <1> QED  BY <1>1, SearchInitInv, SearchNextKeepsInv, PTL DEF SearchSpec

-----------------------------------------------------------------------------
(* ViewerSearch.  What a box shows goes with the text in it.               *)

Result == UNION {Found(text) : text \in Query}
Listbox == [open : BOOLEAN, of : Query \union {NoQuery}, results : SUBSET Result]

(* What the page shows in a box goes with the text in it: the timer is     *)
(* for that text, one search at most counts, it is for that text unless    *)
(* the timer will search again, and so are the suggestions when nothing is *)
(* to come.                                                                *)
InStep(text, wait, asked, list) ==
  /\ list \in Listbox
  /\ wait # NoQuery => wait = text
  /\ \A p, q \in asked : p.newest /\ q.newest => p = q
  /\ \A q \in asked : q.newest /\ wait = NoQuery => q.key[1] = text
  /\ list.open /\ list.of # NoQuery /\ wait = NoQuery /\ (\A q \in asked : ~q.newest)
     => list.of = text
BoxInStep(b) == InStep(typed[b], timer[b], searches[b], listbox[b])
BoxesInStep == DOMAIN listbox = InputBox /\ \A b \in InputBox : BoxInStep(b)

LEMMA SupersededCountsNot ==
  ASSUME NEW R \in SUBSET Asking
  PROVE  \A q \in Superseding(R) : ~q.newest
  BY DEF Superseding, Asking

LEMMA ListedFits ==
  ASSUME NEW q \in Asking, NEW box \in Listbox
  PROVE  Listed(q, box) \in Listbox /\ (q.newest => Listed(q, box).of \in {NoQuery, q.key[1]})
  <1> DEFINE text == q.key[1]
  <1>1. text \in Query
    BY DEF Asking, Key
  <1> HIDE DEF text
  <1>2. Found(text) \in SUBSET Result
    BY <1>1 DEF Result
  <1>3. Suggested(text) \in Listbox /\ Suggested(text).of \in {NoQuery, text}
    BY <1>1, <1>2 DEF Suggested, Listbox
  <1>4. LET shut == [Suggested(text) EXCEPT !.open = FALSE]
        IN shut \in Listbox /\ shut.of \in {NoQuery, text}
    BY <1>3 DEF Listbox
  <1> QED  BY <1>3, <1>4 DEF Listed, text

LEMMA BoxesInitInStep == SearchInit => BoxesInStep
  <1>1. Closed \in Listbox /\ ~Closed.open
    BY DEF Closed, Listbox
  <1> QED  BY <1>1 DEF SearchInit, BoxesInStep, BoxInStep, InStep

LEMMA OthersInStep ==
  ASSUME SearchInv, BoxesInStep, NEW b \in InputBox, NEW c \in InputBox \ {b},
         typed'[c] = typed[c], timer'[c] = timer[c], searches'[c] = searches[c], listbox'[c] = listbox[c]
  PROVE  BoxInStep(c)'
  BY DEF BoxesInStep, BoxInStep

(* close(): nothing is to come and nothing is shown. *)
LEMMA ClosedInStep ==
  ASSUME SearchInv, BoxesInStep, NEW b \in InputBox, Close(b), typed' \in [InputBox -> Query \union {NoQuery}],
         \A c \in InputBox \ {b} : typed'[c] = typed[c]
  PROVE  BoxesInStep'
  <1> DEFINE old == Superseding(searches[b])
             shut == [listbox[b] EXCEPT !.open = FALSE]
  <1>1. /\ timer' = [timer EXCEPT ![b] = NoQuery]
        /\ searches' = [searches EXCEPT ![b] = old]
        /\ listbox' = [listbox EXCEPT ![b] = shut]
    BY DEF Close
  <1>2. \A q \in old : ~q.newest
    BY SupersededCountsNot DEF SearchInv, SearchTypeOK, Asking
  <1>3. shut \in Listbox /\ ~shut.open
    BY DEF BoxesInStep, BoxInStep, InStep, Listbox
  <1> HIDE DEF old, shut
  <1>4. timer'[b] = NoQuery /\ searches'[b] = old /\ listbox'[b] = shut
    BY <1>1 DEF SearchInv, SearchTypeOK, BoxesInStep
  <1>5. BoxInStep(b)'
    BY <1>2, <1>3, <1>4 DEF BoxInStep, InStep
  <1>6. ASSUME NEW c \in InputBox \ {b} PROVE BoxInStep(c)'
    BY <1>1, OthersInStep DEF SearchInv, SearchTypeOK, BoxesInStep
  <1> QED  BY <1>1, <1>5, <1>6 DEF BoxesInStep

(* run: what is kept is shown at once, else the search is the one to come. *)
LEMMA RunInStep ==
  ASSUME SearchInv, BoxesInStep, NEW b \in InputBox, NEW first \in BOOLEAN, run(b, typed[b], first),
         typed[b] \in Query, timer' = [timer EXCEPT ![b] = NoQuery], UNCHANGED typed
  PROVE  BoxesInStep'
  <1> DEFINE q == [key |-> <<typed[b], centre>>, first |-> first, newest |-> TRUE]
             old == Superseding(searches[b])
             waiting == IF listbox[b].open THEN listbox[b] ELSE Info
  <1>1. \A p \in old : ~p.newest
    BY SupersededCountsNot DEF SearchInv, SearchTypeOK, Asking
  <1>2. q \in Asking /\ q.newest /\ q.key[1] = typed[b] /\ waiting \in Listbox
    BY DEF SearchInv, SearchTypeOK, Asking, Key, BoxesInStep, BoxInStep, InStep, Info, Listbox
  <1>3. timer'[b] = NoQuery
    BY DEF SearchInv, SearchTypeOK
  <1>4. CASE cache[q.key] = "kept"
    <2>1. listbox' = [listbox EXCEPT ![b] = Listed(q, waiting)] /\ searches' = [searches EXCEPT ![b] = old]
      BY <1>4 DEF run
    <2>2. Listed(q, waiting) \in Listbox /\ Listed(q, waiting).of \in {NoQuery, typed[b]}
      BY <1>2, ListedFits
    <2> HIDE DEF q, old, waiting
    <2>3. searches'[b] = old /\ listbox'[b] = Listed(q, waiting)
      BY <2>1 DEF SearchInv, SearchTypeOK, BoxesInStep
    <2>4. BoxInStep(b)'
      BY <1>1, <1>3, <2>2, <2>3 DEF BoxInStep, InStep
    <2>5. ASSUME NEW c \in InputBox \ {b} PROVE BoxInStep(c)'
      BY <2>1, OthersInStep DEF SearchInv, SearchTypeOK, BoxesInStep
    <2> QED  BY <2>1, <2>4, <2>5 DEF BoxesInStep
  <1>5. CASE cache[q.key] # "kept"
    <2>1. listbox' = [listbox EXCEPT ![b] = waiting] /\ searches' = [searches EXCEPT ![b] = old \union {q}]
      BY <1>5 DEF run
    <2> HIDE DEF q, old, waiting
    <2>3. searches'[b] = old \union {q} /\ listbox'[b] = waiting
      BY <2>1 DEF SearchInv, SearchTypeOK, BoxesInStep
    <2>4. BoxInStep(b)'
      BY <1>1, <1>2, <1>3, <2>3 DEF BoxInStep, InStep
    <2>5. ASSUME NEW c \in InputBox \ {b} PROVE BoxInStep(c)'
      BY <2>1, OthersInStep DEF SearchInv, SearchTypeOK, BoxesInStep
    <2> QED  BY <2>1, <2>4, <2>5 DEF BoxesInStep
  <1> QED  BY <1>4, <1>5

(* An answer is shown in the boxes whose newest search it is. *)
LEMMA AnsweredInStep ==
  ASSUME SearchInv, BoxesInStep, NEW k \in Key, Answered(k)
  PROVE  BoxesInStep'
  <1> SUFFICES ASSUME NEW b \in InputBox PROVE BoxInStep(b)'
    BY DEF Answered, BoxesInStep
  <1>1. /\ typed'[b] = typed[b]
        /\ searches'[b] = searches[b] \ Waiting(b, k)
        /\ listbox'[b] = OnScreen(b, k, listbox[b])
        /\ timer'[b] = IF Took(b, k) THEN NoQuery ELSE timer[b]
    BY DEF Answered
  <1>2. InStep(typed[b], timer[b], searches[b], listbox[b])
    BY DEF BoxesInStep, BoxInStep
  <1>3. CASE \E q \in Waiting(b, k) : q.newest
    <2> DEFINE q == CHOOSE r \in Waiting(b, k) : r.newest
    <2>1. q \in Waiting(b, k) /\ q.newest
      BY <1>3
    <2>2. listbox'[b] = Listed(q, listbox[b])
      BY <1>1, <1>3 DEF OnScreen
    <2> HIDE DEF q
    <2>3. q \in searches[b] /\ \A r \in searches[b] : r.newest => r = q
      BY <1>2, <2>1 DEF InStep, Waiting
    <2>4. \A r \in searches'[b] : ~r.newest
      BY <1>1, <2>1, <2>3
    <2>5. Took(b, k) <=> Takes(q)
      BY <2>1, <2>3 DEF Took, Takes, Waiting
    <2>0. /\ Listed(q, listbox[b]) \in Listbox
          /\ Listed(q, listbox[b]).of \in {NoQuery, q.key[1]}
      BY <1>2, <2>1, <2>3, ListedFits DEF SearchInv, SearchTypeOK, Asking, InStep
    <2>6. CASE Takes(q)
      <3>1. timer'[b] = NoQuery
        BY <1>1, <2>5, <2>6
      <3>2. ~Listed(q, listbox[b]).open
        BY <2>1, <2>6 DEF Listed, Suggested
      <3> QED  BY <2>0, <2>2, <2>4, <3>1, <3>2 DEF BoxInStep, InStep
    <2>7. CASE ~Takes(q)
      <3>1. timer'[b] = timer[b]
        BY <1>1, <2>5, <2>7
      <3>2. timer[b] = NoQuery => q.key[1] = typed[b]
        BY <1>2, <2>1, <2>3 DEF InStep
      <3>3. timer[b] # NoQuery => timer[b] = typed[b]
        BY <1>2 DEF InStep
      <3> QED  BY <1>1, <2>0, <2>2, <2>4, <3>1, <3>2, <3>3 DEF BoxInStep, InStep
    <2> QED  BY <2>6, <2>7
  <1>4. CASE \A q \in Waiting(b, k) : ~q.newest
    <2>1. timer'[b] = timer[b] /\ listbox'[b] = listbox[b]
      BY <1>1, <1>4 DEF OnScreen, Took, Takes
    <2>2. \A q \in searches[b] : q.newest => q \in searches'[b]
      BY <1>1, <1>4
    <2> QED  BY <1>1, <1>2, <2>1, <2>2 DEF BoxInStep, InStep
  <1> QED  BY <1>3, <1>4

LEMMA FailedInStep ==
  ASSUME SearchInv, BoxesInStep, NEW k \in Key, Failed(k)
  PROVE  BoxesInStep'
  <1> SUFFICES ASSUME NEW b \in InputBox PROVE BoxInStep(b)'
    BY DEF Failed, BoxesInStep
  <1>1. /\ typed'[b] = typed[b] /\ timer'[b] = timer[b]
        /\ searches'[b] = searches[b] \ Waiting(b, k)
        /\ listbox'[b] = IF \E q \in Waiting(b, k) : q.newest THEN Info ELSE listbox[b]
    BY DEF Failed
  <1>2. InStep(typed[b], timer[b], searches[b], listbox[b])
    BY DEF BoxesInStep, BoxInStep
  <1>3. CASE \E q \in Waiting(b, k) : q.newest
    <2>1. Info \in Listbox /\ Info.of = NoQuery
      BY DEF Info, Listbox
    <2> QED  BY <1>1, <1>2, <1>3, <2>1 DEF BoxInStep, InStep
  <1>4. CASE \A q \in Waiting(b, k) : ~q.newest
    <2>1. \A q \in searches[b] : q.newest => q \in searches'[b]
      BY <1>1, <1>4
    <2> QED  BY <1>1, <1>2, <1>4, <2>1 DEF BoxInStep, InStep
  <1> QED  BY <1>3, <1>4

LEMMA SearchNextInStep == SearchInv /\ BoxesInStep /\ [SearchNext]_searchVars => BoxesInStep'
  <1> SUFFICES ASSUME SearchInv, BoxesInStep, [SearchNext]_searchVars PROVE BoxesInStep'
    OBVIOUS
  <1>0. /\ typed \in [InputBox -> Query \union {NoQuery}] /\ timer \in [InputBox -> Query \union {NoQuery}]
        /\ \A b \in InputBox : timer[b] # NoQuery => timer[b] = typed[b]
    BY DEF SearchInv, SearchTypeOK, BoxesInStep, BoxInStep, InStep
  <1>1. ASSUME NEW b \in InputBox, TimerFires(b) PROVE BoxesInStep'
    <2>1. timer[b] = typed[b] /\ typed[b] \in Query
      BY <1>0, <1>1 DEF TimerFires
    <2> QED  BY <1>1, <2>1, RunInStep DEF TimerFires
  <1>2. ASSUME NEW b \in InputBox, Choose(b) \/ Leave(b) PROVE BoxesInStep'
    BY <1>0, <1>2, ClosedInStep DEF Choose, Leave
  <1>3. ASSUME NEW b \in InputBox, Enter(b) PROVE BoxesInStep'
    <2>1. typed[b] \in Query
      BY <1>0, <1>3, SearchAssumption DEF Enter
    <2> QED  BY <1>3, <2>1, RunInStep DEF Enter
  <1>4. ASSUME NEW b \in InputBox, NEW text \in Query \union {NoQuery}, Type(b, text) PROVE BoxesInStep'
    <2>1. typed' = [typed EXCEPT ![b] = text] /\ typed' \in [InputBox -> Query \union {NoQuery}]
      BY <1>0, <1>4 DEF Type
    <2>2. CASE Close(b)
      BY <1>0, <2>1, <2>2, ClosedInStep
    <2>3. CASE ~(Size(text) < SEARCH_MIN_LENGTH) /\ timer' = [timer EXCEPT ![b] = text]
             /\ UNCHANGED <<listbox, searches>>
      <3>1. text # NoQuery
        BY <2>3, SearchAssumption
      <3>2. typed'[b] = text /\ timer'[b] = text
        BY <1>0, <2>1, <2>3
      <3>3. BoxInStep(b)'
        BY <2>3, <3>1, <3>2 DEF BoxesInStep, BoxInStep, InStep
      <3>4. ASSUME NEW c \in InputBox \ {b} PROVE BoxInStep(c)'
        BY <1>0, <2>1, <2>3, OthersInStep
      <3> QED  BY <2>3, <3>3, <3>4 DEF BoxesInStep
    <2> QED  BY <1>4, <2>2, <2>3 DEF Type
  <1>5. ASSUME NEW c \in Centre, MoveMap(c) PROVE BoxesInStep'
    BY <1>5 DEF MoveMap, BoxesInStep, BoxInStep
  <1>6. ASSUME NEW k \in Key, Answered(k) \/ Failed(k) PROVE BoxesInStep'
    BY <1>6, AnsweredInStep, FailedInStep
  <1>7. CASE UNCHANGED searchVars
    BY <1>7 DEF searchVars, BoxesInStep, BoxInStep
  <1> QED  BY <1>1, <1>2, <1>3, <1>4, <1>5, <1>6, <1>7 DEF SearchNext

(* Suggestions left on screen with nothing more to come are those of the   *)
(* text in the box, in whatever order searches were superseded, answered   *)
(* out of the cache or by the server, failed, or were closed               *)
(* (createCombobox).                                                       *)
THEOREM SuggestionsAlwaysOfTheText == SearchSpec => []SuggestionsAreOfTheText
  <1>1. SearchInit => SearchInv /\ BoxesInStep
    BY SearchInitInv, BoxesInitInStep
  <1>2. SearchInv /\ BoxesInStep /\ [SearchNext]_searchVars => SearchInv' /\ BoxesInStep'
    BY SearchNextKeepsInv, SearchNextInStep
  <1>3. BoxesInStep => SuggestionsAreOfTheText
    BY DEF BoxesInStep, BoxInStep, InStep, SuggestionsAreOfTheText
  <1> QED  BY <1>1, <1>2, <1>3, PTL DEF SearchSpec

-----------------------------------------------------------------------------
(* MapTraffic.  Hidden traffic has no request that counts, and the newest  *)
(* request of activity is for the box asked last.                          *)

HiddenIsSilent == ~visible => ~debouncing /\ \A q \in asking : ~q.newest
NewestHeatIsAsked == \A q \in heatAsking : q.newest => q.box = heatAsked

TrafficInv ==
  MapTrafficTypeOK /\ HiddenIsSilent /\ NewestHeatIsAsked /\ TrafficSpeaksOfWhatItShows /\ HeatIsOfTheNewest

Request == [box : City, newest : BOOLEAN]

LEMMA TrafficInitInv == MapTrafficInit => TrafficInv
  BY DEF MapTrafficInit, TrafficInv, MapTrafficTypeOK, HiddenIsSilent, NewestHeatIsAsked,
         TrafficSpeaksOfWhatItShows, HeatIsOfTheNewest, Empty

LEMMA OutdatedCountsNot ==
  ASSUME NEW R \in SUBSET Request
  PROVE  Outdated(R) \in SUBSET Request /\ \A q \in Outdated(R) : ~q.newest
  BY DEF Outdated, Request

(* What the traffic says and shows, with the activity set aside. *)
FlowInv ==
  /\ view \in City \union {TooWide} /\ visible \in BOOLEAN /\ debouncing \in BOOLEAN
  /\ flow \in City \union {Empty} /\ lastBox \in City \union {Empty}
  /\ status \in {"", "flow", "wide", "error"} /\ asking \in SUBSET Request
  /\ HiddenIsSilent /\ TrafficSpeaksOfWhatItShows
HeatInv ==
  /\ activityOn \in BOOLEAN /\ heatFailed \in BOOLEAN
  /\ heat \in City \union {Empty} /\ heatAsked \in City \union {Empty} /\ heatAsking \in SUBSET Request
  /\ NewestHeatIsAsked /\ HeatIsOfTheNewest

LEMMA TwoParts == TrafficInv <=> FlowInv /\ HeatInv
  BY DEF TrafficInv, FlowInv, HeatInv, MapTrafficTypeOK, Request

(* refresh, for a map that shows the traffic. *)
LEMMA RefreshKeepsFlow ==
  ASSUME FlowInv, NEW force \in BOOLEAN, refresh(view, force), visible' = TRUE, debouncing' \in BOOLEAN,
         UNCHANGED view
  PROVE  FlowInv'
  <1>1. Outdated(asking) \in SUBSET Request /\ \A q \in Outdated(asking) : ~q.newest
    BY OutdatedCountsNot DEF FlowInv
  <1>2. CASE view = TooWide
    <2>1. asking' = Outdated(asking) /\ lastBox' = Empty /\ flow' = Empty /\ status' = "wide"
      BY <1>2 DEF refresh
    <2> QED  BY <1>1, <2>1 DEF FlowInv, HiddenIsSilent, TrafficSpeaksOfWhatItShows
  <1>3. CASE view # TooWide
    <2>1. [box |-> view, newest |-> TRUE] \in Request
      BY <1>3 DEF FlowInv, Request
    <2>2. asking' \in SUBSET Request /\ UNCHANGED <<lastBox, flow, status>>
      BY <1>1, <1>3, <2>1 DEF refresh, FlowInv
    <2> QED  BY <2>2 DEF FlowInv, HiddenIsSilent, TrafficSpeaksOfWhatItShows
  <1> QED  BY <1>2, <1>3

LEMMA ActivityKeepsHeat ==
  ASSUME HeatInv, NEW v \in City \union {TooWide}, NEW on \in BOOLEAN, refreshActivity(v, on),
         activityOn' \in BOOLEAN, UNCHANGED heat
  PROVE  HeatInv'
  <1>1. Outdated(heatAsking) \in SUBSET Request /\ \A q \in Outdated(heatAsking) : ~q.newest
    BY OutdatedCountsNot DEF HeatInv
  <1>2. CASE on /\ v # TooWide
    <2> DEFINE new == [box |-> v, newest |-> TRUE]
    <2>1. new \in Request /\ new.newest /\ new.box = v
      BY <1>2 DEF Request
    <2>2. heatAsking' = Outdated(heatAsking) \union {new} /\ heatAsked' = v /\ heatFailed' = FALSE
      BY <1>2 DEF refreshActivity
    <2> HIDE DEF new
    <2> QED  BY <1>1, <1>2, <2>1, <2>2 DEF HeatInv, NewestHeatIsAsked, HeatIsOfTheNewest
  <1>3. CASE ~(on /\ v # TooWide)
    BY <1>3 DEF refreshActivity, HeatInv, NewestHeatIsAsked, HeatIsOfTheNewest
  <1> QED  BY <1>2, <1>3

LEMMA SameFlow ==
  ASSUME FlowInv, UNCHANGED <<view, visible, flow, lastBox, debouncing, asking, status>>
  PROVE  FlowInv'
  BY DEF FlowInv, HiddenIsSilent, TrafficSpeaksOfWhatItShows
LEMMA SameHeat ==
  ASSUME HeatInv, UNCHANGED <<activityOn, heat, heatAsking, heatAsked, heatFailed>>
  PROVE  HeatInv'
  BY DEF HeatInv, NewestHeatIsAsked, HeatIsOfTheNewest

(* One case for each action; each disturbs the traffic, the activity or both. *)
LEMMA TrafficNextKeepsInv == TrafficInv /\ [MapTrafficNext]_trafficMapVars => TrafficInv'
  <1> SUFFICES ASSUME FlowInv, HeatInv, [MapTrafficNext]_trafficMapVars PROVE FlowInv' /\ HeatInv'
    BY TwoParts DEF TrafficInv, FlowInv, HeatInv, MapTrafficTypeOK, Request
  <1>0. view \in City \union {TooWide} /\ activityOn \in BOOLEAN
    BY DEF FlowInv, HeatInv
  <1>1. CASE DebounceEnds
    <2>1. visible = TRUE
      BY <1>1 DEF DebounceEnds, FlowInv, HiddenIsSilent
    <2> QED  BY <1>1, <2>1, RefreshKeepsFlow, SameHeat DEF DebounceEnds, heatVars
  <1>2. CASE ShowTraffic
    BY <1>0, <1>2, RefreshKeepsFlow, ActivityKeepsHeat DEF ShowTraffic
  <1>3. CASE HideTraffic
    <2>1. HeatInv'
      BY <1>0, <1>3, ActivityKeepsHeat DEF HideTraffic
    <2>2. Outdated(asking) \in SUBSET Request /\ \A q \in Outdated(asking) : ~q.newest
      BY OutdatedCountsNot DEF FlowInv
    <2>3. FlowInv'
      BY <1>3, <2>2 DEF HideTraffic, FlowInv, HiddenIsSilent, TrafficSpeaksOfWhatItShows
    <2> QED  BY <2>1, <2>3
  <1>4. CASE MinutePasses
    BY <1>4, RefreshKeepsFlow, SameHeat DEF MinutePasses, heatVars, FlowInv
  <1>5. CASE FlowAges
    BY <1>5, SameFlow, SameHeat DEF FlowAges, heatVars
  <1>6. CASE SwitchActivity
    <2>1. HeatInv'
      BY <1>0, <1>6, ActivityKeepsHeat DEF SwitchActivity
    <2> QED  BY <1>6, <2>1, SameFlow DEF SwitchActivity
  <1>7. ASSUME NEW v \in City \union {TooWide}, MoveEnds(v) PROVE FlowInv' /\ HeatInv'
    <2>1. HeatInv'
      BY <1>0, <1>7, ActivityKeepsHeat DEF MoveEnds
    <2>2. FlowInv'
      BY <1>7 DEF MoveEnds, FlowInv, HiddenIsSilent, TrafficSpeaksOfWhatItShows
    <2> QED  BY <2>1, <2>2
  <1>8. ASSUME NEW q \in asking, FlowArrives(q) PROVE FlowInv' /\ HeatInv'
    <2>1. q.box \in City /\ q.box # Empty
      BY <1>8, MapTrafficAssumption DEF FlowInv, Request, Empty
    <2>2. UNCHANGED <<view, visible, debouncing>> /\ asking' \in SUBSET Request /\ HiddenIsSilent'
      BY <1>8 DEF FlowArrives, FlowInv, HiddenIsSilent
    <2>0. HeatInv'
      BY <1>8, SameHeat DEF FlowArrives, heatVars
    <2>3. CASE q.newest /\ visible
      <3>1. flow' = q.box /\ lastBox' = q.box /\ status' = "flow"
        BY <1>8, <2>3 DEF FlowArrives
      <3> QED  BY <2>0, <2>1, <2>2, <2>3, <3>1 DEF FlowInv, TrafficSpeaksOfWhatItShows
    <2>4. CASE ~(q.newest /\ visible)
      <3>1. UNCHANGED <<flow, lastBox, status>>
        BY <1>8, <2>4 DEF FlowArrives
      <3> QED  BY <2>0, <2>2, <3>1 DEF FlowInv, TrafficSpeaksOfWhatItShows
    <2> QED  BY <2>3, <2>4
  <1>9. ASSUME NEW q \in asking, FlowFails(q) PROVE FlowInv' /\ HeatInv'
    <2>1. FlowInv'
      BY <1>9 DEF FlowFails, FlowInv, HiddenIsSilent, TrafficSpeaksOfWhatItShows
    <2> QED  BY <1>9, <2>1, SameHeat DEF FlowFails, heatVars
  <1>10. ASSUME NEW q \in heatAsking, HeatArrives(q) PROVE FlowInv' /\ HeatInv'
    <2>1. q.box \in City
      BY DEF HeatInv, Request
    <2>2. HeatInv'
      BY <1>10, <2>1 DEF HeatArrives, HeatInv, NewestHeatIsAsked, HeatIsOfTheNewest
    <2> QED  BY <1>10, <2>2, SameFlow DEF HeatArrives
  <1>11. ASSUME NEW q \in heatAsking, HeatFails(q) PROVE FlowInv' /\ HeatInv'
    <2>1. q.newest \in BOOLEAN
      BY DEF HeatInv, Request
    <2>2. HeatInv'
      BY <1>11, <2>1 DEF HeatFails, HeatInv, NewestHeatIsAsked, HeatIsOfTheNewest
    <2> QED  BY <1>11, <2>2, SameFlow DEF HeatFails
  <1>12. CASE UNCHANGED trafficMapVars
    BY <1>12, SameFlow, SameHeat DEF trafficMapVars
  <1> QED
    BY <1>1, <1>2, <1>3, <1>4, <1>5, <1>6, <1>7, <1>8, <1>9, <1>10, <1>11, <1>12 DEF MapTrafficNext

(* Hidden traffic stays silent, what is said while it is shown is of the   *)
(* segments on the map, and the activity is that of the newest request     *)
(* that ended well, in whichever order answers and failures come           *)
(* (TrafficLayer, refreshActivity).                                        *)
THEOREM LayersAlwaysSpeakTrue == MapTrafficSpec => []LayersSpeakTrue
  <1>1. TrafficInv => LayersSpeakTrue
    BY DEF TrafficInv, LayersSpeakTrue
  <1> QED  BY <1>1, TrafficInitInv, TrafficNextKeepsInv, PTL DEF MapTrafficSpec
===============================================================================
