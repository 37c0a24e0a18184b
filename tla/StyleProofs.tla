----------------------------- MODULE StyleProofs -----------------------------
(***************************************************************************)
(* Theorems about the style of the web map (MapStyle), for any template,   *)
(* map types, switches and published regions: after any choices the map is *)
(* the one that the switches give to a new one.                            *)
(*                                                                         *)
(* The invariant says which map it is, so a proof about what the user sees *)
(* is one about buildStyle, setMapType and the switches of a layer: the    *)
(* layers of a type can be told from those under them (MapUnderType),      *)
(* undoing a type gives back the map there was (TypedIsUndone), and        *)
(* switching under a type is the same as before it (TypedIsApplied).       *)
(***************************************************************************)
EXTENDS MapStyle, SequenceTheorems, FiniteSetTheorems, TLAPS

(* A set of naturals has a least one. *)
LEMMA Least ==
  ASSUME NEW T \in SUBSET Nat, T # {}
  PROVE  \E x \in T : \A y \in T : x <= y
  <1> DEFINE less == {p \in Nat \X Nat : p[1] < p[2]}
  <1>1. IsWellFoundedOn(less, Nat)
    BY NatLessThanWellFounded, Zenon DEF OpToRel
  <1>2. PICK x \in T : \A y \in T : <<y, x>> \notin less
    BY <1>1, WFMin, Zenon
  <1>3. \A m, n \in Nat : <<m, n>> \in less <=> m < n
    OBVIOUS
  <1> HIDE DEF less
  <1>4. \A y \in T : ~(y < x)
    BY <1>2, <1>3, Zenon
  <1> QED  BY <1>4

-----------------------------------------------------------------------------
(* MapStyle.  Lists put together from their spots.                         *)

Spot3 == Int \X Int \X Int
Lower(F, a) == {b \in F : Before(b, a)}

(* Spots are in a strict, total order. *)
LEMMA SpotsAreOrdered ==
  \A a, b, c \in Spot3 : /\ ~Before(a, a)
                         /\ Before(a, b) /\ Before(b, c) => Before(a, c)
                         /\ a = b \/ Before(a, b) \/ Before(b, a)
  BY DEF Spot3, Before

(* The places of the spots of a finite set. *)
LEMMA SpotsHavePlaces ==
  ASSUME NEW F \in SUBSET Spot3, IsFiniteSet(F)
  PROVE  /\ Cardinality(F) \in Nat
         /\ \A a \in F : Cardinality(Lower(F, a)) \in Nat /\ Cardinality(Lower(F, a)) + 1 \in 1..Cardinality(F)
         /\ \A a, b \in F : Before(a, b) => Cardinality(Lower(F, a)) < Cardinality(Lower(F, b))
         /\ \A p \in 1..Cardinality(F) : \E a \in F : Cardinality(Lower(F, a)) + 1 = p
  <1> DEFINE n == Cardinality(F)
             size(a) == Cardinality(Lower(F, a))
  <1>0. \A a, b, c \in F : /\ ~Before(a, a)
                           /\ Before(a, b) /\ Before(b, c) => Before(a, c)
                           /\ a = b \/ Before(a, b) \/ Before(b, a)
    BY SpotsAreOrdered, Zenon
  <1>1. n \in Nat
    BY FS_CardinalityType
  <1>2. ASSUME NEW a \in F PROVE IsFiniteSet(Lower(F, a)) /\ size(a) \in Nat /\ size(a) + 1 <= n
    <2>1. Lower(F, a) \subseteq F \ {a}
      BY <1>0, Zenon DEF Lower
    <2>2. IsFiniteSet(F \ {a}) /\ Cardinality(F \ {a}) = n - 1
      BY FS_RemoveElement
    <2>3. IsFiniteSet(Lower(F, a)) /\ size(a) <= n - 1
      BY <2>1, <2>2, FS_Subset
    <2>4. size(a) \in Nat
      BY <2>3, FS_CardinalityType
    <2> QED  BY <1>1, <2>3, <2>4
  <1>3. ASSUME NEW a \in F, NEW b \in F, Before(a, b) PROVE size(a) < size(b)
    <2>1. Lower(F, a) \subseteq Lower(F, b) \ {a} /\ a \in Lower(F, b)
      BY <1>0, <1>3, Zenon DEF Lower
    <2>2. IsFiniteSet(Lower(F, b) \ {a}) /\ Cardinality(Lower(F, b) \ {a}) = size(b) - 1
      BY <1>2, <2>1, FS_RemoveElement
    <2>3. size(a) <= size(b) - 1
      BY <2>1, <2>2, FS_Subset
    <2> QED  BY <1>2, <2>3
  <1> DEFINE f == [a \in F |-> size(a) + 1]
  <1>4. f \in Injection(F, 1..n)
    <2>1. f \in [F -> 1..n]
      <3> HIDE DEF size
      <3> QED  BY <1>1, <1>2
    <2>2. ASSUME NEW a \in F, NEW b \in F, f[a] = f[b] PROVE a = b
      <3>1. size(a) \in Nat /\ size(b) \in Nat /\ size(a) = size(b)
        <4> HIDE DEF size
        <4> QED  BY <1>2, <2>2
      <3>2. ~Before(a, b) /\ ~Before(b, a)
        <4> HIDE DEF size
        <4> QED  BY <1>3, <3>1
      <3> QED  BY <1>0, <3>2
    <2> HIDE DEF f
    <2> QED  BY <2>1, <2>2 DEF Injection, IsInjective
  <1>5. IsFiniteSet(1..n) /\ Cardinality(1..n) = n
    BY <1>1, FS_Interval
  <1>6. f \in Surjection(F, 1..n)
    <2> HIDE DEF f
    <2> QED  BY <1>4, <1>5, FS_Injection
  <1>7. ASSUME NEW p \in 1..n PROVE \E a \in F : size(a) + 1 = p
    <2>1. \E a \in F : f[a] = p
      <3> HIDE DEF f
      <3> QED  BY <1>6 DEF Surjection
    <2> QED  BY <2>1
  <1>8. \A a \in F : size(a) \in Nat /\ size(a) + 1 \in 1..n
    <2> HIDE DEF size
    <2> QED  BY <1>1, <1>2
  <1> QED  BY <1>1, <1>3, <1>7, <1>8

Counts(F, at, n) ==
  /\ n \in Nat /\ at \in [1..n -> F] /\ DOMAIN at = 1..n
  /\ \A p, q \in 1..n : p < q => Before(at[p], at[q])
  /\ \A a \in F : \E p \in 1..n : at[p] = a

(* InOrder lists each spot once, in order. *)
LEMMA InOrderCounts ==
  ASSUME NEW F \in SUBSET Spot3, IsFiniteSet(F)
  PROVE  Counts(F, InOrder(F), Cardinality(F))
  <1> DEFINE n == Cardinality(F)
             at == InOrder(F)
             place(a) == Cardinality(Lower(F, a)) + 1
  <1>1. /\ n \in Nat
        /\ \A a \in F : place(a) \in 1..n
        /\ \A a, b \in F : Before(a, b) => place(a) < place(b)
        /\ \A p \in 1..n : \E a \in F : place(a) = p
    BY SpotsHavePlaces
  <1> DEFINE places == [a \in F |-> Cardinality(Lower(F, a)) + 1]
  <1>2. at = [p \in 1..n |-> CHOOSE a \in F : places[a] = p]
    BY Zenon DEF InOrder, Lower
  <1>9. \A a \in F : places[a] = place(a)
    OBVIOUS
  <1> HIDE DEF n, at, place, places
  <1>3. \A p \in 1..n : at[p] \in F /\ place(at[p]) = p
    BY <1>1, <1>2, <1>9
  <1>4. \A a, b \in F : place(a) = place(b) => a = b
    BY <1>1, SpotsAreOrdered
  <1>5. ASSUME NEW p \in 1..n, NEW q \in 1..n, p < q PROVE Before(at[p], at[q])
    <2>1. at[p] \in F /\ at[q] \in F /\ place(at[p]) = p /\ place(at[q]) = q
      BY <1>3
    <2>2. ~Before(at[q], at[p]) /\ at[p] # at[q]
      BY <1>1, <1>5, <2>1
    <2> QED  BY <2>1, <2>2, SpotsAreOrdered
  <1>6. ASSUME NEW a \in F PROVE \E p \in 1..n : at[p] = a
    <2>1. place(a) \in 1..n
      BY <1>1
    <2>2. at[place(a)] = a
      BY <1>3, <1>4, <2>1
    <2> QED  BY <2>1, <2>2
  <1>7. at \in [1..n -> F] /\ DOMAIN at = 1..n
    BY <1>2, <1>3
  <1> QED  BY <1>1, <1>5, <1>6, <1>7, Zenon DEF Counts, n, at

(* There is one list of each spot once, in order. *)
LEMMA OneCount ==
  ASSUME NEW F \in SUBSET Spot3, NEW f, NEW g, NEW m, NEW n, Counts(F, f, m), Counts(F, g, n)
  PROVE  m = n /\ f = g
  <1>0. /\ m \in Nat /\ n \in Nat /\ f \in [1..m -> F] /\ g \in [1..n -> F]
        /\ \A a \in F : (\E p \in 1..m : f[p] = a) /\ \E p \in 1..n : g[p] = a
        /\ \A p, q \in 1..m : p < q => Before(f[p], f[q])
        /\ \A p, q \in 1..n : p < q => Before(g[p], g[q])
    BY DEF Counts
  <1>1. \A p, q \in 1..m : f[p] = f[q] => p = q
    BY <1>0, SpotsAreOrdered
  <1>2. \A p, q \in 1..n : g[p] = g[q] => p = q
    BY <1>0, SpotsAreOrdered
  <1>3. \A p \in 1..m : p \in 1..n /\ f[p] = g[p]
    <2> DEFINE T == {p \in 1..m : p \notin 1..n \/ f[p] # g[p]}
    <2> SUFFICES ASSUME T # {} PROVE FALSE
      OBVIOUS
    <2>1. PICK p \in T : \A y \in T : p <= y
      <3>1. T \in SUBSET Nat
        BY <1>0
      <3> QED  BY <3>1, Least
    <2>2. p \in 1..m /\ p \in Nat /\ f[p] \in F /\ \A y \in 1..p - 1 : y \in 1..n /\ f[y] = g[y]
      <3>1. p \in 1..m /\ p \in Nat /\ f[p] \in F
        BY <1>0, <2>1
      <3>2. \A y \in 1..p - 1 : y \in 1..m /\ y \notin T
        BY <1>0, <3>1, <2>1
      <3> QED  BY <3>1, <3>2
    <2>3. PICK q \in 1..n : g[q] = f[p]
      BY <1>0, <2>2
    <2>4. ~(q < p)
      <3> SUFFICES ASSUME q < p PROVE FALSE
        OBVIOUS
      <3>1. q \in 1..m /\ q \in 1..p - 1
        BY <1>0, <2>2
      <3>2. f[q] = f[p]
        BY <2>2, <2>3, <3>1
      <3> QED  BY <1>1, <2>2, <3>1, <3>2
    <2>5. q # p
      BY <2>1, <2>3
    <2>6. p \in 1..n /\ p < q
      BY <1>0, <2>2, <2>3, <2>4, <2>5
    <2>7. PICK r \in 1..m : f[r] = g[p]
      BY <1>0, <2>6
    <2>8. ~(r < p)
      <3> SUFFICES ASSUME r < p PROVE FALSE
        OBVIOUS
      <3>1. r \in 1..p - 1 /\ r \in 1..n
        BY <1>0, <2>2, <2>6
      <3>2. g[r] = g[p]
        BY <2>2, <2>7, <3>1
      <3> QED  BY <1>2, <2>6, <3>1, <3>2
    <2>9. r # p
      BY <2>1, <2>6, <2>7
    <2>10. p < r
      BY <2>2, <2>8, <2>9
    <2>11. Before(g[p], f[p]) /\ Before(f[p], g[p]) /\ g[p] \in F
      BY <1>0, <2>2, <2>3, <2>6, <2>7, <2>10
    <2> QED  BY <2>2, <2>11, SpotsAreOrdered
  <1>4. \A p \in 1..n : p \in 1..m
    <2> SUFFICES ASSUME NEW p \in 1..n PROVE p \in 1..m
      OBVIOUS
    <2>1. PICK q \in 1..m : f[q] = g[p]
      BY <1>0
    <2> QED  BY <1>2, <1>3, <2>1
  <1>5. m = n
    <2>1. m = 0 \/ m \in 1..m
      BY <1>0
    <2>2. n = 0 \/ n \in 1..n
      BY <1>0
    <2> QED  BY <1>0, <1>3, <1>4, <2>1, <2>2
  <1> QED  BY <1>0, <1>3, <1>5

(* The image of a finite set is finite. *)
LEMMA ImageIsFinite ==
  ASSUME NEW S, NEW F, IsFiniteSet(S), NEW f \in [S -> F], \A a \in F : \E x \in S : f[x] = a
  PROVE  IsFiniteSet(F)
  <1>1. f \in Surjection(S, F)
    BY DEF Surjection
  <1> QED  BY <1>1, FS_Surjection

LEMMA PlacesAreFinite ==
  ASSUME NEW n \in Nat, NEW I \in SUBSET (1..n)
  PROVE  IsFiniteSet(I)
  <1>1. IsFiniteSet(1..n)
    BY FS_Interval
  <1> QED  BY <1>1, FS_Subset

(* t holds what list has at the places I, f tells where each item comes from. *)
Picks(list, t, f, m, I) ==
  /\ m \in Nat /\ f \in [1..m -> I]
  /\ \A p, q \in 1..m : p < q => f[p] < f[q]
  /\ \A i \in I : \E p \in 1..m : f[p] = i
  /\ t = [p \in 1..m |-> list[f[p]]]

LEMMA Selection ==
  ASSUME NEW list, NEW n \in Nat, NEW I \in SUBSET (1..n)
  PROVE  /\ \E f, m : Picks(list, Selected(list, I), f, m, I)
         /\ \A t, f, m : Picks(list, t, f, m, I) => Selected(list, I) = t
  <1> DEFINE F == {<<i, 0, 0>> : i \in I}
             at == InOrder(F)
             size == Cardinality(F)
  <1>1. F \in SUBSET Spot3
    BY DEF Spot3
  <1>2. IsFiniteSet(F)
    <2> DEFINE g == [i \in I |-> <<i, 0, 0>>]
    <2>1. g \in [I -> F] /\ \A a \in F : \E i \in I : g[i] = a
      OBVIOUS
    <2> HIDE DEF g, F
    <2> QED  BY <2>1, PlacesAreFinite, ImageIsFinite
  <1>3. Counts(F, at, size)
    BY <1>1, <1>2, InOrderCounts
  <1>4. Selected(list, I) = [p \in DOMAIN at |-> list[at[p][1]]]
    BY DEF Selected
  <1>5. \A a, b \in F : Before(a, b) <=> a[1] < b[1]
    BY DEF Before
  <1>6. \A a \in F : a[1] \in I /\ a = <<a[1], 0, 0>>
    OBVIOUS
  <1>7. \E f, m : Picks(list, Selected(list, I), f, m, I)
    <2> DEFINE f == [p \in 1..size |-> at[p][1]]
    <2> HIDE DEF F
    <2>1. /\ size \in Nat /\ at \in [1..size -> F] /\ DOMAIN at = 1..size
          /\ \A p, q \in 1..size : p < q => Before(at[p], at[q])
          /\ \A a \in F : \E p \in 1..size : at[p] = a
      BY <1>3 DEF Counts
    <2> HIDE DEF at, size
    <2>2. f \in [1..size -> I] /\ \A p, q \in 1..size : p < q => f[p] < f[q]
      BY <1>5, <1>6, <2>1
    <2>3. ASSUME NEW i \in I PROVE \E p \in 1..size : f[p] = i
      <3>1. <<i, 0, 0>> \in F
        BY DEF F
      <3>2. PICK p \in 1..size : at[p] = <<i, 0, 0>>
        BY <2>1, <3>1
      <3> QED  BY <3>2
    <2>4. Selected(list, I) = [p \in 1..size |-> list[f[p]]]
      BY <1>4, <2>1
    <2> HIDE DEF f
    <2>5. Picks(list, Selected(list, I), f, size, I)
      BY <2>1, <2>2, <2>3, <2>4 DEF Picks
    <2> QED  BY <2>5
  <1>8. ASSUME NEW t, NEW f, NEW m, Picks(list, t, f, m, I) PROVE Selected(list, I) = t
    <2> DEFINE g == [p \in 1..m |-> <<f[p], 0, 0>>]
    <2>1. /\ m \in Nat /\ f \in [1..m -> I]
          /\ \A p, q \in 1..m : p < q => f[p] < f[q]
          /\ \A i \in I : \E p \in 1..m : f[p] = i
          /\ t = [p \in 1..m |-> list[f[p]]]
      BY <1>8 DEF Picks
    <2>2. g \in [1..m -> F] /\ DOMAIN g = 1..m /\ \A p \in 1..m : g[p][1] = f[p]
      BY <2>1
    <2>3. \A a \in F : \E p \in 1..m : g[p] = a
      BY <2>1
    <2> HIDE DEF g, F
    <2>4. \A p, q \in 1..m : p < q => Before(g[p], g[q])
      BY <1>5, <2>1, <2>2
    <2>5. Counts(F, g, m)
      BY <2>1, <2>2, <2>3, <2>4 DEF Counts
    <2>6. at = g
      BY <1>1, <1>3, <2>5, OneCount
    <2>7. Selected(list, I) = [p \in 1..m |-> list[f[p]]]
      <3> HIDE DEF at
      <3> QED  BY <1>4, <2>2, <2>6
    <2> QED  BY <2>1, <2>7
  <1> QED  BY <1>7, <1>8

-----------------------------------------------------------------------------
(* Regions and the ones drawn.                                             *)

LEMMA LongerProduct ==
  \A a, b, c \in Int : c > 0 => (a > b => a * c > b * c) /\ (a >= b => a * c >= b * c)
  <1> SUFFICES ASSUME NEW a \in Int, NEW b \in Int, NEW c \in Int, c > 0, a >= b
               PROVE  a * c >= b * c /\ (a > b => a * c > b * c)
    OBVIOUS
  <1>1. \A d \in Nat : d * c >= 0 /\ (d > 0 => d * c > 0)
    OBVIOUS
  <1>2. a - b \in Nat /\ a * c - b * c = (a - b) * c /\ a * c \in Int /\ b * c \in Int
    OBVIOUS
  <1> QED  BY <1>1, <1>2

(* A box is as large as one inside it only if they are the same. *)
LEMMA InnerBoxIsSmaller ==
  ASSUME NEW a, NEW b, IsBox(a), IsBox(b)
  PROVE  /\ area(a) \in Int
         /\ containsBox(a, b) => area(a) >= area(b) /\ (area(a) = area(b) => containsBox(b, a))
  <1>1. /\ a[1] \in Int /\ a[2] \in Int /\ a[3] \in Int /\ a[4] \in Int /\ a[1] < a[3] /\ a[2] < a[4]
        /\ b[1] \in Int /\ b[2] \in Int /\ b[3] \in Int /\ b[4] \in Int /\ b[1] < b[3] /\ b[2] < b[4]
    BY DEF IsBox
  <1> DEFINE w == a[3] - a[1]
             h == a[4] - a[2]
             v == b[3] - b[1]
             g == b[4] - b[2]
  <1>2. w \in Int /\ h \in Int /\ v \in Int /\ g \in Int /\ w > 0 /\ h > 0 /\ v > 0 /\ g > 0
    BY <1>1
  <1>3. area(a) = w * h /\ area(b) = v * g
    BY DEF area
  <1>4. containsBox(a, b) => w >= v /\ h >= g /\ (w = v /\ h = g => containsBox(b, a))
    BY <1>1 DEF containsBox
  <1> HIDE DEF w, h, v, g
  <1>5. w * h \in Int /\ v * g \in Int /\ v * h \in Int /\ v * h = h * v /\ v * g = g * v
    BY <1>2
  <1>6. ASSUME w >= v, h >= g
        PROVE  w * h >= v * g /\ (w * h = v * g => w = v /\ h = g)
    <2>1. w * h >= v * h /\ (w > v => w * h > v * h)
      BY <1>2, <1>6, LongerProduct
    <2>2. h * v >= g * v /\ (h > g => h * v > g * v)
      BY <1>2, <1>6, LongerProduct
    <2> QED  BY <1>2, <1>5, <1>6, <2>1, <2>2
  <1> QED  BY <1>3, <1>4, <1>5, <1>6

Regions(list) ==
  /\ \E n \in Nat : DOMAIN list = 1..n
  /\ list = [i \in DOMAIN list |-> list[i]]
  /\ \A i \in DOMAIN list : list[i].id # App /\ IsBox(list[i].bbox)
  /\ \A i, j \in DOMAIN list : list[i].id = list[j].id => i = j
Descending(list) ==
  \A i, j \in DOMAIN list : i < j => area(list[i].bbox) >= area(list[j].bbox)

(* A selection of regions is one of regions, in the same order. *)
LEMMA SelectedRegions ==
  ASSUME NEW list, Regions(list), NEW I \in SUBSET DOMAIN list
  PROVE  /\ Regions(Selected(list, I))
         /\ Items(Selected(list, I)) = {list[i] : i \in I}
         /\ Descending(list) => Descending(Selected(list, I))
  <1> DEFINE s == Selected(list, I)
  <1>1. PICK n \in Nat : DOMAIN list = 1..n
    BY DEF Regions
  <1>2. PICK f, m : Picks(list, s, f, m, I)
    BY <1>1, Selection
  <1> HIDE DEF s
  <1>3. /\ m \in Nat /\ f \in [1..m -> I]
        /\ \A p, q \in 1..m : p < q => f[p] < f[q]
        /\ \A i \in I : \E p \in 1..m : f[p] = i
        /\ s = [p \in 1..m |-> list[f[p]]]
    BY <1>2 DEF Picks
  <1>4. DOMAIN s = 1..m /\ \A p \in 1..m : f[p] \in I /\ f[p] \in 1..n /\ s[p] = list[f[p]]
    BY <1>1, <1>3
  <1>5. \A p, q \in 1..m : f[p] = f[q] => p = q
    BY <1>3, <1>4
  <1>6. Regions(s)
    BY <1>1, <1>3, <1>4, <1>5 DEF Regions
  <1>7. Items(s) = {list[i] : i \in I}
    <2>1. Items(s) = {s[p] : p \in 1..m}
      BY <1>4 DEF Items
    <2>2. \A p \in 1..m : s[p] \in {list[i] : i \in I}
      BY <1>4
    <2>3. ASSUME NEW i \in I PROVE \E p \in 1..m : s[p] = list[i]
      <3>1. PICK p \in 1..m : f[p] = i
        BY <1>3
      <3> QED  BY <1>4, <3>1
    <2> QED  BY <2>1, <2>2, <2>3
  <1>8. Descending(list) => Descending(s)
    BY <1>1, <1>3, <1>4 DEF Descending
  <1> QED  BY <1>6, <1>7, <1>8 DEF s

(* widestFirst keeps the regions and orders them. *)
LEMMA WidestFirstSorts ==
  ASSUME NEW list, Regions(list)
  PROVE  /\ Regions(widestFirst(list)) /\ Descending(widestFirst(list))
         /\ Items(widestFirst(list)) = Items(list)
  <1> DEFINE s == widestFirst(list)
             F == {<<0 - area(list[i].bbox), i, 0>> : i \in DOMAIN list}
             at == InOrder(F)
             m == Cardinality(F)
  <1>1. PICK n \in Nat : DOMAIN list = 1..n
    BY DEF Regions
  <1>2. \A i \in 1..n : area(list[i].bbox) \in Int
    BY <1>1, InnerBoxIsSmaller DEF Regions
  <1>3. F \in SUBSET Spot3
    BY <1>1, <1>2 DEF Spot3
  <1>4. IsFiniteSet(F)
    <2> DEFINE g == [i \in 1..n |-> <<0 - area(list[i].bbox), i, 0>>]
    <2>1. g \in [1..n -> F] /\ \A a \in F : \E i \in 1..n : g[i] = a
      BY <1>1
    <2>2. IsFiniteSet(1..n)
      BY FS_Interval
    <2> HIDE DEF g, F
    <2> QED  BY <2>1, <2>2, ImageIsFinite
  <1>5. Counts(F, at, m)
    BY <1>3, <1>4, InOrderCounts
  <1>6. s = [p \in DOMAIN at |-> list[at[p][2]]]
    BY DEF widestFirst
  <1>7. \A a \in F : a[2] \in 1..n /\ a[1] = 0 - area(list[a[2]].bbox) /\ a[3] = 0
    BY <1>1
  <1>8. \A i \in 1..n : \E a \in F : a[2] = i
    <2>1. \A i \in 1..n : <<0 - area(list[i].bbox), i, 0>> \in F
      BY <1>1
    <2> QED  BY <2>1
  <1> HIDE DEF F, at, m, s
  <1>9. /\ m \in Nat /\ at \in [1..m -> F] /\ DOMAIN at = 1..m
        /\ \A p, q \in 1..m : p < q => Before(at[p], at[q])
        /\ \A a \in F : \E p \in 1..m : at[p] = a
    BY <1>5 DEF Counts
  <1>10. /\ DOMAIN s = 1..m /\ s = [p \in 1..m |-> s[p]]
         /\ \A p \in 1..m : at[p] \in F /\ at[p][2] \in 1..n /\ s[p] = list[at[p][2]]
    BY <1>6, <1>7, <1>9
  <1>11. \A p, q \in 1..m : at[p][2] = at[q][2] => p = q
    <2> SUFFICES ASSUME NEW p \in 1..m, NEW q \in 1..m, at[p][2] = at[q][2], p # q PROVE FALSE
      OBVIOUS
    <2>1. Before(at[p], at[q]) \/ Before(at[q], at[p])
      BY <1>9
    <2>2. /\ at[p] \in F /\ at[p][2] \in 1..n /\ at[p][1] = 0 - area(list[at[p][2]].bbox) /\ at[p][3] = 0
          /\ at[q] \in F /\ at[q][1] = 0 - area(list[at[q][2]].bbox) /\ at[q][3] = 0
      BY <1>7, <1>10
    <2>3. area(list[at[p][2]].bbox) \in Int
      BY <1>2, <2>2
    <2>4. at[p][1] = at[q][1] /\ at[p][3] = at[q][3] /\ at[p][1] \in Int /\ at[p][2] \in Int /\ at[p][3] \in Int
      BY <1>1, <2>2, <2>3
    <2> QED  BY <2>1, <2>4 DEF Before
  <1>12. Descending(s)
    <2> SUFFICES ASSUME NEW p \in 1..m, NEW q \in 1..m, p < q
                 PROVE  area(s[p].bbox) >= area(s[q].bbox)
      BY <1>10 DEF Descending
    <2>1. Before(at[p], at[q])
      BY <1>9
    <2>2. at[p][1] = 0 - area(s[p].bbox) /\ at[q][1] = 0 - area(s[q].bbox)
      BY <1>7, <1>10
    <2>3. area(s[p].bbox) \in Int /\ area(s[q].bbox) \in Int
      BY <1>2, <1>10
    <2>4. at[p][1] \in Int /\ at[q][1] \in Int
      BY <2>2, <2>3
    <2>5. at[p][1] <= at[q][1]
      BY <2>1, <2>4 DEF Before
    <2> QED  BY <2>2, <2>3, <2>5
  <1>13. Regions(s)
    <2>1. \E k \in Nat : DOMAIN s = 1..k
      BY <1>9, <1>10
    <2>2. \A p \in 1..m : s[p].id # App /\ IsBox(s[p].bbox)
      BY <1>1, <1>10 DEF Regions
    <2>3. ASSUME NEW p \in 1..m, NEW q \in 1..m, s[p].id = s[q].id PROVE p = q
      <3>1. at[p][2] \in 1..n /\ at[q][2] \in 1..n /\ list[at[p][2]].id = list[at[q][2]].id
        BY <1>10, <2>3
      <3>2. at[p][2] = at[q][2]
        BY <1>1, <3>1 DEF Regions
      <3> QED  BY <1>11, <3>2
    <2> QED  BY <1>10, <2>1, <2>2, <2>3 DEF Regions
  <1>14. Items(s) = Items(list)
    <2>1. ASSUME NEW i \in 1..n PROVE \E p \in 1..m : at[p][2] = i
      <3>1. PICK a \in F : a[2] = i
        BY <1>8
      <3>2. PICK p \in 1..m : at[p] = a
        BY <1>9
      <3> QED  BY <3>1, <3>2
    <2> QED  BY <1>1, <1>10, <2>1 DEF Items
  <1> QED  BY <1>12, <1>13, <1>14 DEF s

(* What outermost leaves: the widest first, none inside another, everything inside one of them. *)
LEMMA OutermostCovers ==
  ASSUME NEW list, Regions(list)
  PROVE  LET drawn == outermost(list) IN
         /\ Regions(drawn) /\ Descending(drawn) /\ Items(drawn) \subseteq Items(list)
         /\ \A r \in Items(list) : \E d \in Items(drawn) : containsBox(d.bbox, r.bbox)
         /\ \A d, e \in Items(drawn) : d # e => ~containsBox(d.bbox, e.bbox)
  <1> DEFINE s == widestFirst(list)
             inside(j) == \E i \in DOMAIN s : i < j /\ containsBox(s[i].bbox, s[j].bbox)
             I == {j \in DOMAIN s : ~inside(j)}
             drawn == outermost(list)
  <1>1. Regions(s) /\ Descending(s) /\ Items(s) = Items(list)
    BY WidestFirstSorts
  <1>2. drawn = Selected(s, I)
    BY DEF outermost
  <1>3. I \in SUBSET DOMAIN s
    OBVIOUS
  <1>4. PICK n \in Nat : DOMAIN s = 1..n
    BY <1>1 DEF Regions
  <1> HIDE DEF s
  <1>5. Regions(drawn) /\ Descending(drawn) /\ Items(drawn) = {s[i] : i \in I}
    <2> HIDE DEF I, drawn
    <2> QED  BY <1>1, <1>2, <1>3, SelectedRegions
  <1>6. ASSUME NEW r \in Items(list) PROVE \E i \in I : containsBox(s[i].bbox, r.bbox)
    <2> DEFINE T == {i \in 1..n : containsBox(s[i].bbox, r.bbox)}
    <2>1. PICK k \in 1..n : s[k] = r
      BY <1>1, <1>4 DEF Items
    <2>2. IsBox(r.bbox)
      BY <1>1, <1>4, <2>1 DEF Regions
    <2>3. containsBox(r.bbox, r.bbox)
      BY <2>2 DEF containsBox, IsBox
    <2>4. T \in SUBSET Nat /\ T # {}
      BY <2>1, <2>3
    <2>5. PICK i \in T : \A y \in T : i <= y
      <3> HIDE DEF T
      <3> QED  BY <2>4, Least
    <2>6. i \in 1..n /\ containsBox(s[i].bbox, r.bbox) /\ \A y \in 1..n : y < i => ~containsBox(s[y].bbox, r.bbox)
      BY <2>5
    <2>7. ~inside(i)
      <3> SUFFICES ASSUME NEW y \in 1..n, y < i, containsBox(s[y].bbox, s[i].bbox) PROVE FALSE
        BY <1>4
      <3>1. IsBox(s[y].bbox) /\ IsBox(s[i].bbox)
        BY <1>1, <1>4, <2>6 DEF Regions
      <3>2. containsBox(s[y].bbox, r.bbox)
        BY <2>2, <2>6, <3>1 DEF containsBox, IsBox
      <3> QED  BY <2>6, <3>2
    <2>8. i \in I
      BY <1>4, <2>6, <2>7
    <2> QED  BY <2>6, <2>8
  <1>7. ASSUME NEW i \in I, NEW j \in I, s[i] # s[j] PROVE ~containsBox(s[i].bbox, s[j].bbox)
    <2>1. i \in 1..n /\ j \in 1..n /\ i # j /\ ~inside(i) /\ ~inside(j)
      BY <1>4, <1>7
    <2>2. IsBox(s[i].bbox) /\ IsBox(s[j].bbox)
      BY <1>1, <1>4, <2>1 DEF Regions
    <2> HIDE DEF inside
    <2>3. CASE i < j
      BY <1>4, <2>1, <2>3 DEF inside
    <2>4. CASE j < i
      <3>1. area(s[j].bbox) >= area(s[i].bbox)
        BY <1>1, <1>4, <2>1, <2>4 DEF Descending
      <3>2. area(s[j].bbox) \in Int /\ area(s[i].bbox) \in Int
        BY <2>2, InnerBoxIsSmaller
      <3>3. ~containsBox(s[j].bbox, s[i].bbox)
        BY <1>4, <2>1, <2>4 DEF inside
      <3> QED  BY <2>2, <3>1, <3>2, <3>3, InnerBoxIsSmaller
    <2> QED  BY <2>1, <2>3, <2>4
  <1> HIDE DEF I, drawn, inside
  <1>8. Items(drawn) \subseteq Items(list)
    BY <1>1, <1>3, <1>5 DEF Items
  <1>9. \A r \in Items(list) : \E d \in Items(drawn) : containsBox(d.bbox, r.bbox)
    BY <1>5, <1>6
  <1>10. \A d, e \in Items(drawn) : d # e => ~containsBox(d.bbox, e.bbox)
    BY <1>5, <1>7
  <1> QED  BY <1>5, <1>8, <1>9, <1>10 DEF drawn

(* The regions of the style, world first, and which of them lie above which. *)
WorldBelow(sets) ==
  \A i, j \in DOMAIN sets :
    i < j /\ WorldId \notin {sets[i].id, sets[j].id} => area(sets[i].bbox) >= area(sets[j].bbox)

LEMMA PublishedAreRegions ==
  ASSUME NEW list \in RegionList
  PROVE  /\ \A i \in DOMAIN list : list[i].id # App /\ IsBox(list[i].bbox)
         /\ \A i, j \in DOMAIN list : list[i].id = list[j].id => i = j
         /\ \E n \in Nat : DOMAIN list = 1..n
  BY RegionListAssumption

(* The published list may be any function on its places: a selection of it is a list of regions. *)
LEMMA SelectedOfPublished ==
  ASSUME NEW list \in RegionList, NEW I \in SUBSET DOMAIN list
  PROVE  Regions(Selected(list, I)) /\ Items(Selected(list, I)) = {list[i] : i \in I}
  <1> DEFINE l == [i \in DOMAIN list |-> list[i]]
  <1>1. Regions(l) /\ DOMAIN l = DOMAIN list
    BY PublishedAreRegions DEF Regions
  <1>2. Selected(list, I) = Selected(l, I)
    <2>1. PICK n \in Nat : DOMAIN list = 1..n
      BY PublishedAreRegions
    <2>2. PICK f, m : Picks(list, Selected(list, I), f, m, I)
      BY <2>1, Selection
    <2>3. Picks(l, Selected(list, I), f, m, I)
      BY <2>2 DEF Picks
    <2> HIDE DEF l
    <2> QED  BY <2>1, <2>3, Selection
  <1>3. {l[i] : i \in I} = {list[i] : i \in I}
    OBVIOUS
  <1> HIDE DEF l
  <1>4. Regions(Selected(l, I)) /\ Items(Selected(l, I)) = {l[i] : i \in I}
    BY <1>1, SelectedRegions
  <1> QED  BY <1>2, <1>3, <1>4

(* The regions of detail and the world are lists of regions. *)
LEMMA DetailedAreRegions ==
  ASSUME NEW list \in RegionList
  PROVE  /\ Regions(detailed(list)) /\ Items(detailed(list)) = {r \in Items(list) : r.id # WorldId}
         /\ Regions(worldOf(list)) /\ Items(worldOf(list)) = {r \in Items(list) : r.id = WorldId}
  <1> DEFINE I == {i \in DOMAIN list : list[i].id # WorldId}
             W == {i \in DOMAIN list : list[i].id = WorldId}
  <1>1. I \in SUBSET DOMAIN list /\ W \in SUBSET DOMAIN list
    OBVIOUS
  <1>2. {list[i] : i \in I} = {r \in Items(list) : r.id # WorldId}
        /\ {list[i] : i \in W} = {r \in Items(list) : r.id = WorldId}
    BY DEF Items
  <1>3. detailed(list) = widestFirst(Selected(list, I)) /\ worldOf(list) = Selected(list, W)
    BY DEF detailed, worldOf
  <1> HIDE DEF I, W
  <1>4. /\ Regions(Selected(list, I)) /\ Items(Selected(list, I)) = {list[i] : i \in I}
        /\ Regions(Selected(list, W)) /\ Items(Selected(list, W)) = {list[i] : i \in W}
    BY <1>1, SelectedOfPublished
  <1> QED  BY <1>2, <1>3, <1>4, WidestFirstSorts

LEMMA RegionsAreLists ==
  ASSUME NEW s, Regions(s)
  PROVE  s \in Seq(Items(s)) /\ DOMAIN s = 1..Len(s) /\ Len(s) \in Nat
  <1>1. PICK n \in Nat : DOMAIN s = 1..n
    BY DEF Regions
  <1>2. s \in [1..n -> Items(s)]
    BY <1>1 DEF Regions, Items
  <1> QED  BY <1>1, <1>2

(* The regions that the style is made for are published ones, each once. *)
LEMMA TilesetsAreRegions ==
  ASSUME NEW list \in RegionList
  PROVE  /\ Regions(tilesets(list)) /\ WorldBelow(tilesets(list))
         /\ Items(tilesets(list)) \subseteq Items(list)
  <1> DEFINE w == worldOf(list)
             d == outermost(detailed(list))
             s == tilesets(list)
             all == Items(list)
  <1>1. /\ Regions(w) /\ Items(w) \subseteq all /\ \A r \in Items(w) : r.id = WorldId
        /\ Regions(d) /\ Items(d) \subseteq all /\ \A r \in Items(d) : r.id # WorldId
        /\ Descending(d)
    BY DetailedAreRegions, OutermostCovers
  <1>2. s = w \o d
    BY DEF tilesets
  <1>3. /\ w \in Seq(all) /\ DOMAIN w = 1..Len(w) /\ Len(w) \in Nat
        /\ d \in Seq(all) /\ DOMAIN d = 1..Len(d) /\ Len(d) \in Nat
    <2>1. w \in Seq(Items(w)) /\ d \in Seq(Items(d))
      BY <1>1, RegionsAreLists
    <2> HIDE DEF w, d, all
    <2>2. w \in Seq(all) /\ d \in Seq(all)
      BY <1>1, <2>1, SeqMonotonic
    <2> QED  BY <1>1, <2>2, RegionsAreLists
  <1> DEFINE m == Len(w)
             n == Len(w) + Len(d)
  <1> HIDE DEF w, d, s, all
  <1>4. /\ s \in Seq(all) /\ Len(s) = n
        /\ \A i \in 1..n : s[i] = IF i <= m THEN w[i] ELSE d[i - m]
    BY <1>2, <1>3, ConcatProperties
  <1>5. n \in Nat /\ DOMAIN s = 1..n /\ s = [i \in 1..n |-> s[i]]
    BY <1>3, <1>4, LenProperties
  <1>6. /\ \A i \in 1..n : i <= m => i \in DOMAIN w /\ s[i] = w[i] /\ w[i] \in Items(w)
        /\ \A i \in 1..n : i > m => i - m \in DOMAIN d /\ s[i] = d[i - m] /\ d[i - m] \in Items(d)
    <2>1. ASSUME NEW i \in 1..n, i <= m PROVE i \in DOMAIN w /\ s[i] = w[i] /\ w[i] \in Items(w)
      BY <1>3, <1>4, <2>1 DEF Items
    <2>2. ASSUME NEW i \in 1..n, i > m PROVE i - m \in DOMAIN d /\ s[i] = d[i - m] /\ d[i - m] \in Items(d)
      <3>1. i - m \in 1..Len(d)
        BY <1>3, <2>2
      <3>2. s[i] = d[i - m]
        BY <1>3, <1>4, <2>2
      <3> QED  BY <1>3, <3>1, <3>2 DEF Items
    <2> QED  BY <2>1, <2>2
  <1>7. \A i \in 1..n : s[i].id # App /\ IsBox(s[i].bbox) /\ s[i] \in all
    BY <1>1, <1>3, <1>5, <1>6 DEF Regions
  <1>8. ASSUME NEW i \in 1..n, NEW j \in 1..n, s[i].id = s[j].id PROVE i = j
    <2>1. CASE i <= m /\ j <= m
      BY <1>1, <1>6, <1>8, <2>1 DEF Regions
    <2>2. CASE i > m /\ j > m
      <3>1. i - m = j - m
        BY <1>1, <1>6, <1>8, <2>2 DEF Regions
      <3> QED  BY <1>3, <3>1
    <2>3. ~(i <= m /\ j > m) /\ ~(j <= m /\ i > m)
      BY <1>1, <1>6, <1>8
    <2> QED  BY <1>3, <2>1, <2>2, <2>3
  <1>9. Regions(s)
    BY <1>5, <1>7, <1>8 DEF Regions
  <1>10. WorldBelow(s)
    <2> SUFFICES ASSUME NEW i \in 1..n, NEW j \in 1..n, i < j, s[i].id # WorldId, s[j].id # WorldId
                 PROVE  area(s[i].bbox) >= area(s[j].bbox)
      BY <1>5 DEF WorldBelow
    <2>1. i > m /\ j > m
      BY <1>1, <1>3, <1>6
    <2>2. i - m \in DOMAIN d /\ j - m \in DOMAIN d /\ i - m < j - m /\ s[i] = d[i - m] /\ s[j] = d[j - m]
      BY <1>3, <1>6, <2>1
    <2> QED  BY <1>1, <2>2 DEF Descending
  <1>11. Items(s) \subseteq all
    BY <1>5, <1>7 DEF Items
  <1> QED  BY <1>9, <1>10, <1>11 DEF s, all

(* The map types draw regions of the list, the wider below. *)
LEMMA DrawnAreRegions ==
  ASSUME NEW list \in RegionList, NEW spec
  PROVE  LET drawn == regionsDrawn(list, spec) IN
         Regions(drawn) /\ Descending(drawn) /\ Items(drawn) \subseteq Items(list)
  <1> DEFINE I == {i \in DOMAIN list : spec.asset \in list[i].assets}
             l == Selected(list, I)
  <1>1. I \in SUBSET DOMAIN list /\ {list[i] : i \in I} \subseteq Items(list)
    BY DEF Items
  <1>2. WithData(list, spec) = l
    BY DEF WithData
  <1> HIDE DEF I
  <1>3. Regions(l) /\ Items(l) \subseteq Items(list)
    BY <1>1, SelectedOfPublished
  <1>4. regionsDrawn(list, spec) = widestFirst(l) \/ regionsDrawn(list, spec) = outermost(l)
    BY <1>2 DEF regionsDrawn
  <1> HIDE DEF l
  <1> QED  BY <1>3, <1>4, WidestFirstSorts, OutermostCovers

-----------------------------------------------------------------------------
(* The layers of a new map.                                                *)

IsLayer(l) ==
  /\ l = [of |-> l.of, name |-> l.name, hidden |-> l.hidden, paint |-> l.paint,
          source |-> l.source, maxzoom |-> l.maxzoom]
  /\ l.hidden \in BOOLEAN

(* A map without a type. *)
IsPlain(m) ==
  /\ m = [layers |-> m.layers, sources |-> m.sources, type |-> NoType, added |-> {},
          addedSources |-> {}, restore |-> NothingChanged]
  /\ \E n \in Nat : DOMAIN m.layers = 1..n
  /\ m.layers = [i \in DOMAIN m.layers |-> m.layers[i]]
  /\ \A i \in DOMAIN m.layers : IsLayer(m.layers[i]) /\ InTemplate(m.layers[i].name)
  /\ \A i, j \in DOMAIN m.layers : IdOf(m.layers[i]) = IdOf(m.layers[j]) => i = j

(* The layers are in the order of the template, and the copies of one widest first. *)
InStack(layers, list) ==
  /\ \A i, j \in DOMAIN layers : i < j => PositionIn(layers[i].name) <= PositionIn(layers[j].name)
  /\ \A i \in DOMAIN layers : IF layers[i].of = App THEN Template[PositionIn(layers[i].name)].source = "none"
                              ELSE \E r \in Items(list) : r.id = layers[i].of
  /\ \A i, j \in DOMAIN layers :
       i < j /\ layers[i].name = layers[j].name /\ WorldId \notin {layers[i].of, layers[j].of} =>
         \E r, q \in Items(list) : r.id = layers[i].of /\ q.id = layers[j].of /\ area(r.bbox) >= area(q.bbox)

IsAsBuilt(m) ==
  \A i \in DOMAIN m.layers : LET l == m.layers[i] IN
    /\ l.paint = Plain /\ (l.hidden => l.of # App /\ SwitchOf(l.name) # {})
    /\ l.of # App => l.source \in m.sources

(* A template layer is found by its name. *)
LEMMA TemplateNames ==
  ASSUME NEW i \in DOMAIN Template
  PROVE  InTemplate(Template[i].id) /\ PositionIn(Template[i].id) = i
  BY TemplateAssumption DEF InTemplate, PositionIn

LEMMA InTemplateHasPosition ==
  ASSUME NEW name, InTemplate(name)
  PROVE  PositionIn(name) \in DOMAIN Template /\ Template[PositionIn(name)].id = name
         /\ PositionIn(name) \in Nat \ {0}
  BY TemplateAssumption DEF InTemplate, PositionIn

(* What a new map lists: layers without source, and the copies for a region. *)
LEMMA CopySpotsAreSpots ==
  ASSUME NEW sets, NEW k \in Nat, DOMAIN sets = 1..k
  PROVE  /\ CopySpots(sets) \in SUBSET Spot3 /\ IsFiniteSet(CopySpots(sets))
         /\ \A a \in CopySpots(sets) :
              /\ a = <<a[1], a[2], 0>> /\ a[1] \in DOMAIN Template
              /\ \/ a[2] = 0 /\ Template[a[1]].source = "none"
                 \/ a[2] \in DOMAIN sets /\ Template[a[1]].source # "none"
  <1> DEFINE F == CopySpots(sets)
             t == Len(Template)
             P == (1..t) \X (0..k)
  <1>1. t \in Nat /\ DOMAIN Template = 1..t
    BY TemplateAssumption
  <1>2. \A a \in F : /\ a = <<a[1], a[2], 0>> /\ a[1] \in DOMAIN Template
                     /\ \/ a[2] = 0 /\ Template[a[1]].source = "none"
                        \/ a[2] \in DOMAIN sets /\ Template[a[1]].source # "none"
    BY DEF CopySpots
  <1> HIDE DEF F, t
  <1>3. \A a \in F : a = <<a[1], a[2], 0>> /\ a[1] \in 1..t /\ a[2] \in 0..k
    BY <1>1, <1>2
  <1>4. F \in SUBSET Spot3
    BY <1>1, <1>3 DEF Spot3
  <1>5. IsFiniteSet(F)
    <2>1. IsFiniteSet(P)
      <3>1. IsFiniteSet(1..t) /\ IsFiniteSet(0..k)
        BY <1>1, FS_Interval
      <3> QED  BY <3>1, FS_Product
    <2>2. CASE F = {}
      BY <2>2, FS_EmptySet
    <2>3. CASE F # {}
      <3>1. PICK z \in F : TRUE
        BY <2>3
      <3> DEFINE g == [b \in P |-> IF <<b[1], b[2], 0>> \in F THEN <<b[1], b[2], 0>> ELSE z]
      <3>2. g \in [P -> F]
        BY <3>1
      <3>3. \A a \in F : \E b \in P : g[b] = a
        <4> SUFFICES ASSUME NEW a \in F PROVE \E b \in P : g[b] = a
          OBVIOUS
        <4>1. <<a[1], a[2]>> \in P /\ <<a[1], a[2], 0>> = a
          BY <1>3
        <4>2. g[<<a[1], a[2]>>] = a
          BY <4>1
        <4> QED  BY <4>1, <4>2
      <3> HIDE DEF g, P
      <3> QED  BY <2>1, <3>2, <3>3, ImageIsFinite
    <2> QED  BY <2>2, <2>3
  <1> QED  BY <1>2, <1>4, <1>5 DEF F

(* A new map has the layers in their order, each once, as the template has them. *)
LEMMA NewMapIsPlain ==
  ASSUME NEW list \in RegionList
  PROVE  LET m == buildStyle(tilesets(list)) IN IsPlain(m) /\ InStack(m.layers, list) /\ IsAsBuilt(m)
  <1> DEFINE sets == tilesets(list)
             m == buildStyle(sets)
             F == CopySpots(sets)
             at == InOrder(F)
             n == Cardinality(F)
             L == [p \in DOMAIN at |-> IF at[p][2] = 0 THEN AppLayer(Template[at[p][1]].id)
                                       ELSE Copy(Template[at[p][1]], sets[at[p][2]])]
             sources == UNION {{<<r.id, "map">>, OverlaySource(r)} : r \in Items(sets)}
  <1>1. Regions(sets) /\ WorldBelow(sets) /\ Items(sets) \subseteq Items(list)
    BY TilesetsAreRegions
  <1>2. PICK k \in Nat : DOMAIN sets = 1..k
    BY <1>1 DEF Regions
  <1>3. m = [layers |-> L, sources |-> sources, type |-> NoType, added |-> {}, addedSources |-> {},
             restore |-> NothingChanged]
    BY DEF buildStyle
  <1> HIDE DEF sets, m
  <1>4. /\ F \in SUBSET Spot3 /\ IsFiniteSet(F)
        /\ \A a \in F : /\ a = <<a[1], a[2], 0>> /\ a[1] \in DOMAIN Template
                        /\ \/ a[2] = 0 /\ Template[a[1]].source = "none"
                           \/ a[2] \in DOMAIN sets /\ Template[a[1]].source # "none"
    BY <1>2, CopySpotsAreSpots
  <1>5. Counts(F, at, n)
    BY <1>4, InOrderCounts
  <1> HIDE DEF F, at, n
  <1>6. /\ n \in Nat /\ DOMAIN at = 1..n /\ \A p \in 1..n : at[p] \in F
        /\ \A p, q \in 1..n : p < q => Before(at[p], at[q])
    BY <1>5 DEF Counts
  <1>7. m.layers = L /\ m.sources = sources /\ DOMAIN L = 1..n /\ L = [p \in 1..n |-> L[p]]
    BY <1>3, <1>6
  (* The layer of a spot. *)
  <1>8. ASSUME NEW p \in 1..n
        PROVE  /\ IsLayer(L[p]) /\ L[p].name = Template[at[p][1]].id /\ L[p].paint = Plain
               /\ at[p] = <<at[p][1], at[p][2], 0>> /\ at[p][1] \in DOMAIN Template
               /\ L[p].hidden => L[p].of # App /\ SwitchOf(L[p].name) # {}
               /\ \/ /\ at[p][2] = 0 /\ L[p].of = App /\ Template[at[p][1]].source = "none"
                  \/ /\ at[p][2] \in DOMAIN sets /\ L[p].of = sets[at[p][2]].id /\ L[p].of # App
                     /\ L[p].source \in sources
    <2> DEFINE a == at[p]
               t == Template[a[1]]
    <2>1. /\ a = <<a[1], a[2], 0>> /\ a[1] \in DOMAIN Template
          /\ \/ a[2] = 0 /\ t.source = "none"
             \/ a[2] \in DOMAIN sets /\ t.source # "none"
      BY <1>4, <1>6
    <2>2. t.hidden \in BOOLEAN /\ (t.hidden => SwitchOf(t.id) # {})
      BY <2>1, TemplateAssumption
    <2>3. CASE a[2] = 0
      <3>1. L[p] = AppLayer(t.id)
        BY <1>6, <2>3
      <3>2. t.source = "none"
        BY <1>2, <2>1, <2>3
      <3> HIDE DEF L, a, t
      <3>3. IsLayer(L[p]) /\ L[p].name = t.id /\ L[p].paint = Plain /\ L[p].hidden = FALSE /\ L[p].of = App
        BY <3>1 DEF AppLayer, IsLayer
      <3> QED  BY <2>1, <2>3, <3>2, <3>3 DEF a, t
    <2>4. CASE a[2] # 0
      <3> DEFINE r == sets[a[2]]
      <3>1. L[p] = Copy(t, r)
        BY <1>6, <2>4
      <3>2. a[2] \in DOMAIN sets /\ r \in Items(sets) /\ r.id # App
        BY <1>1, <2>1, <2>4 DEF Regions, Items
      <3> HIDE DEF L, a, t, r
      <3>3. /\ IsLayer(L[p]) /\ L[p].name = t.id /\ L[p].paint = Plain /\ L[p].hidden = t.hidden
            /\ L[p].of = r.id /\ L[p].source = IF t.source = "overlays" THEN OverlaySource(r) ELSE <<r.id, "map">>
        BY <2>2, <3>1 DEF Copy, IsLayer
      <3>4. L[p].source \in sources
        BY <3>2, <3>3
      <3> HIDE DEF sources
      <3> QED  BY <2>1, <2>2, <3>2, <3>3, <3>4 DEF a, t, r
    <2> QED  BY <2>3, <2>4
  <1> HIDE DEF L, sources
  <1>9. \A p \in 1..n : InTemplate(L[p].name) /\ PositionIn(L[p].name) = at[p][1]
    BY <1>8, TemplateNames
  <1>10. ASSUME NEW p \in 1..n, NEW q \in 1..n, p < q
         PROVE  /\ at[p][1] <= at[q][1] /\ at[p] # at[q]
                /\ at[p][1] = at[q][1] => at[p][2] < at[q][2]
    <2>1. Before(at[p], at[q]) /\ at[p] \in Spot3 /\ at[q] \in Spot3 /\ at[p][3] = 0 /\ at[q][3] = 0
      BY <1>4, <1>6, <1>8, <1>10
    <2> QED  BY <2>1 DEF Before, Spot3
  <1>11. \A p, q \in 1..n : at[p] = at[q] => p = q
    BY <1>6, <1>10
  <1>12. IsPlain(m)
    <2>1. ASSUME NEW p \in 1..n, NEW q \in 1..n, IdOf(L[p]) = IdOf(L[q]) PROVE p = q
      <3>1. L[p].of = L[q].of /\ L[p].name = L[q].name
        BY <2>1 DEF IdOf
      <3>2. at[p][1] = at[q][1]
        BY <1>9, <3>1
      <3>3. at[p][2] = at[q][2]
        BY <1>1, <1>2, <1>8, <3>1 DEF Regions
      <3> QED  BY <1>8, <1>11, <3>2, <3>3
    <2>2. m = [layers |-> m.layers, sources |-> m.sources, type |-> NoType, added |-> {}, addedSources |-> {},
               restore |-> NothingChanged]
      BY <1>3
    <2> QED  BY <1>6, <1>7, <1>8, <1>9, <2>1, <2>2 DEF IsPlain
  <1>13. InStack(m.layers, list)
    <2>1. \A p, q \in 1..n : p < q => PositionIn(L[p].name) <= PositionIn(L[q].name)
      BY <1>9, <1>10
    <2>2. ASSUME NEW p \in 1..n
          PROVE  IF L[p].of = App THEN Template[PositionIn(L[p].name)].source = "none"
                 ELSE \E r \in Items(list) : r.id = L[p].of
      <3>1. CASE L[p].of = App
        BY <1>8, <1>9, <3>1
      <3>2. CASE L[p].of # App
        <4>1. at[p][2] \in DOMAIN sets /\ L[p].of = sets[at[p][2]].id
          BY <1>8, <3>2
        <4>2. sets[at[p][2]] \in Items(list)
          BY <1>1, <4>1 DEF Items
        <4> QED  BY <3>2, <4>1, <4>2
      <3> QED  BY <3>1, <3>2
    <2>3. ASSUME NEW p \in 1..n, NEW q \in 1..n, p < q, L[p].name = L[q].name,
                 WorldId \notin {L[p].of, L[q].of}
          PROVE  \E r, u \in Items(list) : r.id = L[p].of /\ u.id = L[q].of /\ area(r.bbox) >= area(u.bbox)
      <3>1. at[p][1] = at[q][1] /\ at[p][2] < at[q][2]
        BY <1>9, <1>10, <2>3
      <3>2. at[p][2] \in DOMAIN sets /\ at[q][2] \in DOMAIN sets
        <4>1. at[q][2] \in DOMAIN sets
          <5>1. at[p][2] = 0 \/ at[p][2] \in 1..k
            BY <1>2, <1>8
          <5>2. at[q][2] # 0
            BY <1>2, <1>8, <3>1, <5>1
          <5> QED  BY <1>8, <5>2
        <4>2. Template[at[q][1]].source # "none"
          <5>1. at[q][2] # 0
            BY <1>2, <4>1
          <5> QED  BY <1>4, <1>6, <5>1
        <4> QED  BY <1>8, <3>1, <4>1, <4>2
      <3>3. L[p].of = sets[at[p][2]].id /\ L[q].of = sets[at[q][2]].id
        BY <1>2, <1>8, <3>2
      <3>4. area(sets[at[p][2]].bbox) >= area(sets[at[q][2]].bbox)
        BY <1>1, <2>3, <3>1, <3>2, <3>3 DEF WorldBelow
      <3>5. sets[at[p][2]] \in Items(list) /\ sets[at[q][2]] \in Items(list)
        BY <1>1, <3>2 DEF Items
      <3> QED  BY <3>3, <3>4, <3>5
    <2> QED  BY <1>7, <2>1, <2>2, <2>3 DEF InStack
  <1>14. IsAsBuilt(m)
    BY <1>7, <1>8 DEF IsAsBuilt
  <1> QED  BY <1>12, <1>13, <1>14 DEF m, sets

-----------------------------------------------------------------------------
(* The switches.                                                           *)

(* A switch changes nothing of a layer but whether it is hidden, and the last one counts. *)
LEMMA LitLayer ==
  ASSUME NEW l, IsLayer(l), NEW on
  PROVE  /\ IsLayer(Lit(l, on)) /\ IdOf(Lit(l, on)) = IdOf(l)
         /\ Lit(l, on).of = l.of /\ Lit(l, on).name = l.name /\ Lit(l, on).paint = l.paint
         /\ Lit(l, on).source = l.source /\ Lit(l, on).maxzoom = l.maxzoom
         /\ Lit(l, on).hidden = IF l.of # App /\ SwitchOf(l.name) # {} THEN SwitchOf(l.name) \cap on = {}
                                ELSE l.hidden
         /\ \A on2 : Lit(Lit(l, on), on2) = Lit(l, on2)
  <1>1. CASE l.of # App /\ SwitchOf(l.name) # {}
    <2> DEFINE h == SwitchOf(l.name) \cap on = {}
    <2>1. Lit(l, on) = [l EXCEPT !.hidden = h]
      BY <1>1 DEF Lit
    <2>2. h \in BOOLEAN
      OBVIOUS
    <2>3. Lit(l, on) = [of |-> l.of, name |-> l.name, hidden |-> h, paint |-> l.paint,
                        source |-> l.source, maxzoom |-> l.maxzoom]
      <3> HIDE DEF h
      <3> QED  BY <2>1 DEF IsLayer
    <2>4. ASSUME NEW on2 PROVE Lit(Lit(l, on), on2) = Lit(l, on2)
      <3> DEFINE h2 == SwitchOf(l.name) \cap on2 = {}
      <3>1. Lit(l, on2) = [l EXCEPT !.hidden = h2]
        BY <1>1 DEF Lit
      <3>2. Lit(Lit(l, on), on2) = [Lit(l, on) EXCEPT !.hidden = h2]
        <4> HIDE DEF h
        <4>1. Lit(l, on).of = l.of /\ Lit(l, on).name = l.name
          BY <2>3
        <4> QED  BY <1>1, <4>1 DEF Lit
      <3> HIDE DEF h, h2
      <3> QED  BY <2>3, <3>1, <3>2 DEF IsLayer
    <2>5. (IF l.of # App /\ SwitchOf(l.name) # {} THEN SwitchOf(l.name) \cap on = {} ELSE l.hidden) = h
      BY <1>1
    <2>6. IsLayer(Lit(l, on))
      <3> HIDE DEF h
      <3> QED  BY <2>2, <2>3 DEF IsLayer
    <2> HIDE DEF h
    <2> QED  BY <2>3, <2>4, <2>5, <2>6 DEF IdOf
  <1>2. CASE ~(l.of # App /\ SwitchOf(l.name) # {})
    <2>1. Lit(l, on) = l
      BY <1>2 DEF Lit
    <2> QED  BY <1>2, <2>1
  <1> QED  BY <1>1, <1>2

LEMMA OtherLayers ==
  ASSUME NEW m, IsPlain(m), NEW L
  PROVE  [m EXCEPT !.layers = L] = [layers |-> L, sources |-> m.sources, type |-> NoType, added |-> {},
                                    addedSources |-> {}, restore |-> NothingChanged]
  <1> DEFINE K == m.layers
             s == m.sources
  <1>1. m = [layers |-> K, sources |-> s, type |-> NoType, added |-> {}, addedSources |-> {},
             restore |-> NothingChanged]
    BY DEF IsPlain
  <1> HIDE DEF K, s
  <1>2. [m EXCEPT !.layers = L] = [layers |-> L, sources |-> s, type |-> NoType, added |-> {},
                                   addedSources |-> {}, restore |-> NothingChanged]
    BY <1>1
  <1> QED  BY <1>2 DEF s

(* The switches leave a map plain. *)
LEMMA AppliedIsPlain ==
  ASSUME NEW m, IsPlain(m), NEW on
  PROVE  LET a == applyLayers(m, on) IN
         /\ IsPlain(a) /\ a.layers = [i \in DOMAIN m.layers |-> Lit(m.layers[i], on)]
         /\ a.sources = m.sources
  <1> DEFINE a == applyLayers(m, on)
             L == [i \in DOMAIN m.layers |-> Lit(m.layers[i], on)]
  <1>1. a = [m EXCEPT !.layers = L]
    BY DEF applyLayers
  <1> HIDE DEF L
  <1>2. a = [layers |-> L, sources |-> m.sources, type |-> NoType, added |-> {}, addedSources |-> {},
             restore |-> NothingChanged]
    BY <1>1, OtherLayers
  <1> HIDE DEF a
  <1>3. a.layers = L /\ a.sources = m.sources /\ DOMAIN L = DOMAIN m.layers /\ L = [i \in DOMAIN L |-> L[i]]
        /\ \A i \in DOMAIN m.layers : L[i] = Lit(m.layers[i], on)
    BY <1>2 DEF L
  <1>4. \A i \in DOMAIN m.layers : /\ IsLayer(L[i]) /\ IdOf(L[i]) = IdOf(m.layers[i])
                                   /\ L[i].name = m.layers[i].name /\ IsLayer(m.layers[i])
    BY <1>3, LitLayer DEF IsPlain
  <1>5. IsPlain(a)
    BY <1>2, <1>3, <1>4 DEF IsPlain
  <1> QED  BY <1>3, <1>5 DEF a, L

(* Of two switches in a row the last one counts. *)
LEMMA LastSwitchesCount ==
  ASSUME NEW m, IsPlain(m), NEW on, NEW on2
  PROVE  applyLayers(applyLayers(m, on), on2) = applyLayers(m, on2)
  <1> DEFINE a == applyLayers(m, on)
             K == [i \in DOMAIN m.layers |-> Lit(m.layers[i], on2)]
  <1>0. IsPlain(a) /\ a.layers = [i \in DOMAIN m.layers |-> Lit(m.layers[i], on)] /\ a.sources = m.sources
    BY AppliedIsPlain
  <1> HIDE DEF a
  <1>1. /\ IsPlain(a) /\ DOMAIN a.layers = DOMAIN m.layers /\ a.sources = m.sources
        /\ \A i \in DOMAIN m.layers : a.layers[i] = Lit(m.layers[i], on)
    BY <1>0
  <1>2. \A i \in DOMAIN m.layers : Lit(a.layers[i], on2) = Lit(m.layers[i], on2)
    BY <1>1, LitLayer DEF IsPlain
  <1>3. [i \in DOMAIN a.layers |-> Lit(a.layers[i], on2)] = K
    BY <1>1, <1>2
  <1>4. applyLayers(a, on2) = [a EXCEPT !.layers = K] /\ applyLayers(m, on2) = [m EXCEPT !.layers = K]
    BY <1>3 DEF applyLayers
  <1> HIDE DEF K
  <1>5. [a EXCEPT !.layers = K] = [layers |-> K, sources |-> a.sources, type |-> NoType, added |-> {},
                                   addedSources |-> {}, restore |-> NothingChanged]
    BY <1>1, OtherLayers
  <1>6. [m EXCEPT !.layers = K] = [layers |-> K, sources |-> m.sources, type |-> NoType, added |-> {},
                                   addedSources |-> {}, restore |-> NothingChanged]
    BY OtherLayers
  <1>7. applyLayers(a, on2) = applyLayers(m, on2)
    BY <1>1, <1>4, <1>5, <1>6
  <1> QED  BY <1>7 DEF a

-----------------------------------------------------------------------------
(* The layers of a type between those of the map.                          *)

IsType(spec) == \E t \in DOMAIN MapTypes : spec = MapTypes[t]

(* g and h tell where the layers of the map and those of the type are. *)
IsStack(S, L, spec, drawn, g, h, N) ==
  /\ N \in Nat /\ DOMAIN S = 1..N /\ S = [p \in 1..N |-> S[p]]
  /\ g \in [DOMAIN L -> 1..N] /\ h \in [(DOMAIN spec.layers) \X DOMAIN drawn -> 1..N]
  /\ \A p \in 1..N : (\E i \in DOMAIN L : g[i] = p)
                       \/ \E a \in (DOMAIN spec.layers) \X DOMAIN drawn : h[a] = p
  /\ \A i \in DOMAIN L : S[g[i]] = L[i]
  /\ \A a \in (DOMAIN spec.layers) \X DOMAIN drawn : S[h[a]] = TypeLayer(spec, drawn[a[2]], spec.layers[a[1]])
  /\ \A i, j \in DOMAIN L : i < j => g[i] < g[j]
  /\ \A a \in (DOMAIN spec.layers) \X DOMAIN drawn, i \in DOMAIN L :
       IF i < firstLayerFrom(L, spec.layers[a[1]].before) THEN g[i] < h[a] ELSE h[a] < g[i]
  /\ \A a, b \in (DOMAIN spec.layers) \X DOMAIN drawn : a[1] = b[1] /\ a[2] < b[2] => h[a] < h[b]

(* firstLayerFrom: the place of the first layer from the one named, or the end. *)
LEMMA FirstOfLater ==
  ASSUME NEW L, NEW n \in Nat, DOMAIN L = 1..n, L = [i \in 1..n |-> L[i]], NEW name
  PROVE  LET p == firstLayerFrom(L, name) IN
         /\ p \in 1..n + 1 /\ (p \in 1..n => From(name, L[p]))
         /\ \A i \in 1..n : i < p => ~From(name, L[i])
  <1> DEFINE later == {i \in DOMAIN L : From(name, L[i])}
             p == firstLayerFrom(L, name)
  <1>1. Len(L) = n
    <2>1. L \in [1..n -> Items(L)]
      BY DEF Items
    <2>2. L \in Seq(Items(L))
      BY <2>1
    <2>3. Len(L) \in Nat /\ DOMAIN L = 1..Len(L)
      BY <2>2, LenProperties
    <2> QED  BY <2>3
  <1>2. CASE later = {}
    <2>1. p = n + 1
      BY <1>1, <1>2 DEF firstLayerFrom
    <2>2. \A i \in 1..n : ~From(name, L[i])
      BY <1>2
    <2> QED  BY <2>1, <2>2
  <1>3. CASE later # {}
    <2>1. later \in SUBSET Nat
      OBVIOUS
    <2>2. \E i \in later : \A j \in later : i <= j
      <3> HIDE DEF later
      <3> QED  BY <1>3, <2>1, Least
    <2>3. p = CHOOSE i \in later : \A j \in later : i <= j
      BY <1>3 DEF firstLayerFrom
    <2>4. p \in later /\ \A j \in later : p <= j
      <3> HIDE DEF later, p
      <3> QED  BY <2>2, <2>3
    <2> HIDE DEF p
    <2>5. p \in 1..n /\ From(name, L[p])
      BY <2>4
    <2>6. \A i \in 1..n : i < p => ~From(name, L[i])
      <3> SUFFICES ASSUME NEW i \in 1..n, i < p, From(name, L[i]) PROVE FALSE
        OBVIOUS
      <3>1. p <= i
        BY <2>4
      <3> QED  BY <2>5, <3>1
    <2>7. p \in 1..n + 1
      BY <2>5
    <2> QED  BY <2>5, <2>6, <2>7 DEF p
  <1> QED  BY <1>2, <1>3

(* What Stacked lists: the layers of the map and those of the type. *)
LEMMA StackSpots ==
  ASSUME NEW L, NEW n \in Nat, DOMAIN L = 1..n, L = [i \in 1..n |-> L[i]], NEW spec, IsType(spec),
         NEW drawn, NEW k \in Nat, DOMAIN drawn = 1..k
  PROVE  LET F == {<<i, OnTop(spec), 0>> : i \in DOMAIN L} \union TypeSpots(L, spec, drawn)
         IN /\ F \in SUBSET Spot3 /\ IsFiniteSet(F)
            /\ \A s \in F : IF s[2] = OnTop(spec) THEN s[1] \in DOMAIN L
                            ELSE s[2] \in DOMAIN spec.layers /\ s[3] \in DOMAIN drawn
  <1> DEFINE A == (DOMAIN spec.layers) \X DOMAIN drawn
             top == OnTop(spec)
             base(i) == <<i, top, 0>>
             first(l) == firstLayerFrom(L, spec.layers[l].before)
             added(a) == <<first(a[1]), a[1], a[2]>>
             F == {<<i, top, 0>> : i \in DOMAIN L} \union TypeSpots(L, spec, drawn)
             e == Len(spec.layers)
  <1>1. e \in Nat /\ DOMAIN spec.layers = 1..e /\ top = e + 1
    BY MapTypesAssumption DEF IsType, OnTop
  <1>2. \A l \in 1..e : first(l) \in 1..n + 1
    BY FirstOfLater
  <1> HIDE DEF e, top, first
  <1>3. \A a \in A : a = <<a[1], a[2]>> /\ a[1] \in 1..e /\ a[2] \in 1..k /\ first(a[1]) \in 1..n + 1
    BY <1>1, <1>2
  <1>4. TypeSpots(L, spec, drawn) = {added(a) : a \in A}
    BY DEF TypeSpots, first
  <1>5. F = {base(i) : i \in 1..n} \union {added(a) : a \in A}
    BY <1>4
  <1> HIDE DEF F
  <1>6. F \in SUBSET Spot3
    <2>1. \A i \in 1..n : base(i) \in Spot3
      BY <1>1 DEF Spot3
    <2>2. \A a \in A : added(a) \in Spot3
      BY <1>3 DEF Spot3
    <2> HIDE DEF base, added, A
    <2> QED  BY <1>5, <2>1, <2>2
  <1>7. IsFiniteSet(F)
    <2>1. IsFiniteSet({base(i) : i \in 1..n})
      <3> DEFINE f == [i \in 1..n |-> base(i)]
                 B == {base(i) : i \in 1..n}
      <3>1. f \in [1..n -> B] /\ \A b \in B : \E i \in 1..n : f[i] = b
        OBVIOUS
      <3>2. IsFiniteSet(1..n)
        BY FS_Interval
      <3> HIDE DEF f, B
      <3>3. IsFiniteSet(B)
        BY <3>1, <3>2, ImageIsFinite
      <3> QED  BY <3>3 DEF B
    <2>2. IsFiniteSet({added(a) : a \in A})
      <3> DEFINE f == [a \in A |-> added(a)]
                 B == {added(a) : a \in A}
      <3>1. f \in [A -> B] /\ \A b \in B : \E a \in A : f[a] = b
        <4> HIDE DEF A, added
        <4> QED  OBVIOUS
      <3>2. IsFiniteSet(A)
        <4>1. IsFiniteSet(1..e) /\ IsFiniteSet(1..k)
          BY <1>1, FS_Interval
        <4> QED  BY <1>1, <4>1, FS_Product
      <3> HIDE DEF f, B, A
      <3>3. IsFiniteSet(B)
        BY <3>1, <3>2, ImageIsFinite
      <3> QED  BY <3>3 DEF B
    <2> HIDE DEF A, base, added
    <2> QED  BY <1>5, <2>1, <2>2, FS_Union
  <1>8. ASSUME NEW s \in F
        PROVE  IF s[2] = top THEN s[1] \in DOMAIN L ELSE s[2] \in DOMAIN spec.layers /\ s[3] \in DOMAIN drawn
    <2>1. CASE \E i \in 1..n : s = base(i)
      BY <2>1
    <2>2. CASE \E a \in A : s = added(a)
      <3>1. PICK a \in A : s = added(a)
        BY <2>2
      <3>2. s[2] = a[1] /\ s[3] = a[2]
        BY <3>1
      <3> QED  BY <1>1, <1>3, <3>2
    <2> HIDE DEF A, base, added
    <2> QED  BY <1>5, <2>1, <2>2
  <1> QED  BY <1>6, <1>7, <1>8 DEF F, top

(* Each layer of the map and of the type has its place in the stack. *)
LEMMA StackedIsStack ==
  ASSUME NEW L, NEW n \in Nat, DOMAIN L = 1..n, L = [i \in 1..n |-> L[i]], NEW spec, IsType(spec),
         NEW drawn, NEW k \in Nat, DOMAIN drawn = 1..k
  PROVE  \E g, h, N : IsStack(Stacked(L, spec, drawn), L, spec, drawn, g, h, N)
  <1> DEFINE A == (DOMAIN spec.layers) \X DOMAIN drawn
             top == OnTop(spec)
             base(i) == <<i, top, 0>>
             first(l) == firstLayerFrom(L, spec.layers[l].before)
             added(a) == <<first(a[1]), a[1], a[2]>>
             F == {<<i, top, 0>> : i \in DOMAIN L} \union TypeSpots(L, spec, drawn)
             at == InOrder(F)
             N == Cardinality(F)
             S == Stacked(L, spec, drawn)
             e == Len(spec.layers)
  <1>1. e \in Nat /\ DOMAIN spec.layers = 1..e /\ top = e + 1
    BY MapTypesAssumption DEF IsType, OnTop
  <1>2. \A l \in 1..e : first(l) \in 1..n + 1
    BY FirstOfLater
  <1> HIDE DEF e, top, first
  <1>3. \A a \in A : a = <<a[1], a[2]>> /\ a[1] \in 1..e /\ a[2] \in 1..k /\ first(a[1]) \in 1..n + 1
    BY <1>1, <1>2
  <1>4. TypeSpots(L, spec, drawn) = {added(a) : a \in A}
    BY DEF TypeSpots, first
  <1>5. F = {base(i) : i \in 1..n} \union {added(a) : a \in A}
    BY <1>4
  <1> HIDE DEF F
  <1>6. F \in SUBSET Spot3 /\ IsFiniteSet(F)
    BY StackSpots DEF F, top
  <1>8. Counts(F, at, N)
    BY <1>6, InOrderCounts
  <1>9. S = [p \in DOMAIN at |-> IF at[p][2] = top THEN L[at[p][1]]
                                 ELSE TypeLayer(spec, drawn[at[p][3]], spec.layers[at[p][2]])]
    BY Zenon DEF Stacked, F, top
  <1> HIDE DEF at, N, S
  <1>10. /\ N \in Nat /\ DOMAIN at = 1..N /\ \A p \in 1..N : at[p] \in F
         /\ \A p, q \in 1..N : p < q => Before(at[p], at[q])
         /\ \A s \in F : \E p \in 1..N : at[p] = s
    BY <1>8 DEF Counts
  <1> DEFINE place(s) == CHOOSE p \in 1..N : at[p] = s
             g == [i \in 1..n |-> place(base(i))]
             h == [a \in A |-> place(added(a))]
  <1>11. \A i \in 1..n : g[i] \in 1..N /\ at[g[i]] = base(i)
    <2> SUFFICES ASSUME NEW i \in 1..n PROVE g[i] \in 1..N /\ at[g[i]] = base(i)
      OBVIOUS
    <2>1. base(i) \in F
      BY <1>5
    <2>2. \E p \in 1..N : at[p] = base(i)
      <3> HIDE DEF base
      <3> QED  BY <1>10, <2>1
    <2>3. g[i] = place(base(i))
      OBVIOUS
    <2> HIDE DEF g, base
    <2> QED  BY <2>2, <2>3
  <1>12. \A a \in A : h[a] \in 1..N /\ at[h[a]] = added(a)
    <2> SUFFICES ASSUME NEW a \in A PROVE h[a] \in 1..N /\ at[h[a]] = added(a)
      OBVIOUS
    <2>1. added(a) \in F
      <3> HIDE DEF base, added, A
      <3> QED  BY <1>5
    <2>2. \E p \in 1..N : at[p] = added(a)
      <3> HIDE DEF added
      <3> QED  BY <1>10, <2>1
    <2>3. h[a] = place(added(a))
      <3> HIDE DEF A, added
      <3> QED  OBVIOUS
    <2> HIDE DEF h, added
    <2> QED  BY <2>2, <2>3
  <1>13. g \in [1..n -> 1..N] /\ h \in [A -> 1..N]
    <2> HIDE DEF A, base, added
    <2>1. \A i \in 1..n : g[i] \in 1..N
      BY <1>11
    <2>2. \A a \in A : h[a] \in 1..N
      BY <1>12
    <2>3. g = [i \in 1..n |-> g[i]] /\ h = [a \in A |-> h[a]]
      OBVIOUS
    <2> HIDE DEF g, h
    <2> QED  BY <2>1, <2>2, <2>3
  <1> HIDE DEF g, h, place
  <1>14. \A p, q \in 1..N : Before(at[p], at[q]) => p < q
    <2> SUFFICES ASSUME NEW p \in 1..N, NEW q \in 1..N, Before(at[p], at[q]), ~(p < q) PROVE FALSE
      OBVIOUS
    <2>1. p = q \/ q < p
      BY <1>10
    <2>2. at[p] \in Spot3 /\ at[q] \in Spot3
      BY <1>6, <1>10
    <2>3. p = q \/ Before(at[q], at[p])
      BY <1>10, <2>1
    <2> QED  BY <2>2, <2>3, SpotsAreOrdered
  <1>15. ASSUME NEW p \in 1..N PROVE (\E i \in 1..n : g[i] = p) \/ \E a \in A : h[a] = p
    <2>1. at[p] \in F
      BY <1>10
    <2>2. \A q \in 1..N : at[q] = at[p] => q = p
      <3> SUFFICES ASSUME NEW q \in 1..N, at[q] = at[p], q # p PROVE FALSE
        OBVIOUS
      <3>1. Before(at[p], at[p])
        BY <1>10
      <3>2. at[p] \in Spot3
        BY <1>6, <2>1
      <3> QED  BY <3>1, <3>2, SpotsAreOrdered
    <2>3. CASE \E i \in 1..n : at[p] = base(i)
      BY <1>11, <2>2, <2>3
    <2>4. CASE \E a \in A : at[p] = added(a)
      <3> HIDE DEF A, added
      <3> QED  BY <1>12, <2>2, <2>4
    <2> HIDE DEF A, base, added
    <2> QED  BY <1>5, <2>1, <2>3, <2>4
  <1>16. DOMAIN S = 1..N /\ S = [p \in 1..N |-> S[p]]
    BY <1>9, <1>10
  <1>17. \A i \in 1..n : S[g[i]] = L[i]
    BY <1>9, <1>10, <1>11
  <1>18. ASSUME NEW a \in A PROVE S[h[a]] = TypeLayer(spec, drawn[a[2]], spec.layers[a[1]])
    <2>1. at[h[a]][2] = a[1] /\ at[h[a]][3] = a[2] /\ h[a] \in DOMAIN at
      BY <1>10, <1>12
    <2>2. a[1] # top
      BY <1>1, <1>3
    <2> QED  BY <1>9, <2>1, <2>2
  <1>19. ASSUME NEW i \in 1..n, NEW j \in 1..n, i < j PROVE g[i] < g[j]
    <2>1. Before(base(i), base(j))
      BY <1>19 DEF Before
    <2> HIDE DEF base
    <2> QED  BY <1>11, <1>14, <2>1
  <1>20. ASSUME NEW a \in A, NEW i \in 1..n
         PROVE  IF i < first(a[1]) THEN g[i] < h[a] ELSE h[a] < g[i]
    <2>1. /\ base(i)[1] = i /\ base(i)[2] = e + 1 /\ base(i)[3] = 0
          /\ added(a)[1] = first(a[1]) /\ added(a)[2] = a[1] /\ added(a)[3] = a[2]
      BY <1>1
    <2>2. a[1] \in 1..e /\ a[2] \in 1..k /\ first(a[1]) \in 1..n + 1 /\ e \in Nat
      BY <1>1, <1>3
    <2> HIDE DEF base, added
    <2>3. IF i < first(a[1]) THEN Before(base(i), added(a)) ELSE Before(added(a), base(i))
      BY <2>1, <2>2 DEF Before
    <2> QED  BY <1>11, <1>12, <1>14, <2>3
  <1>21. ASSUME NEW a \in A, NEW b \in A, a[1] = b[1], a[2] < b[2] PROVE h[a] < h[b]
    <2>1. Before(added(a), added(b))
      BY <1>21 DEF Before
    <2> HIDE DEF added
    <2> QED  BY <1>12, <1>14, <2>1
  <1>22. IsStack(S, L, spec, drawn, g, h, N)
    <2> HIDE DEF A
    <2>1. /\ N \in Nat /\ DOMAIN S = 1..N /\ S = [p \in 1..N |-> S[p]]
          /\ g \in [DOMAIN L -> 1..N] /\ h \in [A -> 1..N]
      BY <1>10, <1>13, <1>16
    <2>2. \A a \in A, i \in DOMAIN L : IF i < first(a[1]) THEN g[i] < h[a] ELSE h[a] < g[i]
      BY <1>20
    <2>3. /\ \A p \in 1..N : (\E i \in DOMAIN L : g[i] = p) \/ \E a \in A : h[a] = p
          /\ \A i \in DOMAIN L : S[g[i]] = L[i]
          /\ \A a \in A : S[h[a]] = TypeLayer(spec, drawn[a[2]], spec.layers[a[1]])
          /\ \A i, j \in DOMAIN L : i < j => g[i] < g[j]
          /\ \A a, b \in A : a[1] = b[1] /\ a[2] < b[2] => h[a] < h[b]
      BY <1>15, <1>17, <1>18, <1>19, <1>21
    <2> QED  BY <2>1, <2>2, <2>3, Zenon DEF IsStack, A, first
  <1> QED  BY <1>22 DEF S

LEMMA SameLayer ==
  ASSUME NEW k, NEW l, IsLayer(k), IsLayer(l), k.of = l.of, k.name = l.name, k.hidden = l.hidden,
         k.paint = l.paint, k.source = l.source, k.maxzoom = l.maxzoom
  PROVE  k = l
  BY DEF IsLayer

(* A type changes nothing of a layer but whether it is hidden and its paint. *)
LEMMA ChangedLayer ==
  ASSUME NEW l, IsLayer(l), NEW spec, NEW type
  PROVE  LET c == Changed(spec, type, l) IN
         /\ IsLayer(c) /\ IdOf(c) = IdOf(l) /\ c.of = l.of /\ c.name = l.name
         /\ c.source = l.source /\ c.maxzoom = l.maxzoom
         /\ c.hidden = (l.hidden \/ Hides(spec, l))
         /\ c.paint = IF Restyles(spec, l) THEN type ELSE l.paint
  <1> DEFINE h == l.hidden \/ Hides(spec, l)
             p == IF Restyles(spec, l) THEN type ELSE l.paint
             c == Changed(spec, type, l)
  <1>1. c = [l EXCEPT !.hidden = h, !.paint = p]
    BY DEF Changed
  <1>2. h \in BOOLEAN
    OBVIOUS
  <1> HIDE DEF h, p, c
  <1>3. c = [of |-> l.of, name |-> l.name, hidden |-> h, paint |-> p, source |-> l.source, maxzoom |-> l.maxzoom]
    BY <1>1 DEF IsLayer
  <1>4. /\ c.of = l.of /\ c.name = l.name /\ c.source = l.source /\ c.maxzoom = l.maxzoom
        /\ c.hidden = h /\ c.paint = p
    BY <1>3
  <1>5. IsLayer(c)
    BY <1>2, <1>3, <1>4 DEF IsLayer
  <1>6. IdOf(c) = IdOf(l)
    BY <1>4 DEF IdOf
  <1> QED  BY <1>4, <1>5, <1>6 DEF h, p, c

LEMMA TypesAreOfTheTemplate ==
  ASSUME NEW spec, IsType(spec)
  PROVE  /\ Len(spec.layers) \in Nat /\ DOMAIN spec.layers = 1..Len(spec.layers)
         /\ \A k, l \in DOMAIN spec.layers : spec.layers[k].id = spec.layers[l].id => k = l
         /\ \A k \in DOMAIN spec.layers :
              /\ ~InTemplate(spec.layers[k].id) /\ SwitchOf(spec.layers[k].id) = {}
              /\ InTemplate(spec.layers[k].before)
              /\ \A i \in DOMAIN Template : Template[i].source = "none" => i < PositionIn(spec.layers[k].before)
         /\ \A name \in spec.hide : SwitchOf(name) = {}
  BY MapTypesAssumption DEF IsType

(* The layers of a type on a plain map. *)
OnMap(m, spec, drawn, S, g, h, N) ==
  IsPlain(m) /\ IsType(spec) /\ Regions(drawn) /\ IsStack(S, m.layers, spec, drawn, g, h, N)

(* The layers of a stack are those of the map or of the type, never of both. *)
StackLayers(m, spec, drawn, S, g, h, N) ==
  LET A == (DOMAIN spec.layers) \X DOMAIN drawn IN
  /\ \A p \in 1..N : IsLayer(S[p])
  /\ \A i \in DOMAIN m.layers : g[i] \in 1..N /\ S[g[i]] = m.layers[i] /\ InTemplate(S[g[i]].name)
  /\ \A a \in A :
       /\ h[a] \in 1..N /\ S[h[a]].of = drawn[a[2]].id /\ S[h[a]].name = spec.layers[a[1]].id
       /\ ~InTemplate(S[h[a]].name) /\ SwitchOf(S[h[a]].name) = {} /\ S[h[a]].of # App
       /\ S[h[a]].source = <<drawn[a[2]].id, spec.asset>> /\ S[h[a]].hidden = FALSE
  /\ \A i \in DOMAIN m.layers, a \in A : g[i] # h[a]

LEMMA StackHasLayers ==
  ASSUME NEW m, NEW spec, NEW drawn, NEW S, NEW g, NEW h, NEW N, OnMap(m, spec, drawn, S, g, h, N)
  PROVE  StackLayers(m, spec, drawn, S, g, h, N)
  <1> DEFINE A == (DOMAIN spec.layers) \X DOMAIN drawn
             L == m.layers
  <1>0. IsPlain(m) /\ IsType(spec) /\ Regions(drawn) /\ IsStack(S, m.layers, spec, drawn, g, h, N)
    BY DEF OnMap
  <1>1. /\ N \in Nat /\ g \in [DOMAIN L -> 1..N] /\ h \in [A -> 1..N]
        /\ \A p \in 1..N : (\E i \in DOMAIN L : g[i] = p) \/ \E a \in A : h[a] = p
        /\ \A i \in DOMAIN L : S[g[i]] = L[i]
        /\ \A a \in A : S[h[a]] = TypeLayer(spec, drawn[a[2]], spec.layers[a[1]])
    BY <1>0, Zenon DEF IsStack
  <1>2. \A i \in DOMAIN L : IsLayer(L[i]) /\ InTemplate(L[i].name)
    BY <1>0 DEF IsPlain
  <1>3. \A i \in DOMAIN L : g[i] \in 1..N /\ S[g[i]] = L[i] /\ InTemplate(S[g[i]].name) /\ IsLayer(S[g[i]])
    BY <1>1, <1>2
  <1>4. ASSUME NEW a \in A
        PROVE  /\ h[a] \in 1..N /\ S[h[a]].of = drawn[a[2]].id /\ S[h[a]].name = spec.layers[a[1]].id
               /\ ~InTemplate(S[h[a]].name) /\ SwitchOf(S[h[a]].name) = {} /\ S[h[a]].of # App
               /\ S[h[a]].source = <<drawn[a[2]].id, spec.asset>> /\ S[h[a]].hidden = FALSE
               /\ IsLayer(S[h[a]])
    <2>1. a[1] \in DOMAIN spec.layers /\ a[2] \in DOMAIN drawn
      OBVIOUS
    <2>2. ~InTemplate(spec.layers[a[1]].id) /\ SwitchOf(spec.layers[a[1]].id) = {}
      BY <1>0, <2>1, TypesAreOfTheTemplate
    <2>3. drawn[a[2]].id # App
      BY <1>0, <2>1 DEF Regions
    <2> HIDE DEF A
    <2>4. h[a] \in 1..N /\ S[h[a]] = TypeLayer(spec, drawn[a[2]], spec.layers[a[1]])
      BY <1>1
    <2>5. /\ S[h[a]].of = drawn[a[2]].id /\ S[h[a]].name = spec.layers[a[1]].id
          /\ S[h[a]].source = <<drawn[a[2]].id, spec.asset>> /\ S[h[a]].hidden = FALSE /\ IsLayer(S[h[a]])
      BY <2>4 DEF TypeLayer, IsLayer
    <2> QED  BY <2>2, <2>3, <2>4, <2>5
  <1> HIDE DEF A, L
  <1>5. ASSUME NEW p \in 1..N PROVE IsLayer(S[p])
    <2>1. (\E i \in DOMAIN L : g[i] = p) \/ \E a \in A : h[a] = p
      BY <1>1
    <2>2. (\A i \in DOMAIN L : IsLayer(S[g[i]])) /\ \A a \in A : IsLayer(S[h[a]])
      BY <1>3, <1>4, Zenon
    <2> QED  BY <2>1, <2>2
  <1>6. \A i \in DOMAIN L, a \in A : g[i] # h[a]
    BY <1>3, <1>4
  <1> QED  BY <1>3, <1>4, <1>5, <1>6, Zenon DEF A, L, StackLayers

(* A type is shown on a plain map in a stack of both. *)
LEMMA TypeIsStacked ==
  ASSUME NEW m, IsPlain(m), NEW list \in RegionList, NEW t \in DOMAIN MapTypes
  PROVE  LET spec == MapTypes[t]
             drawn == regionsDrawn(list, spec)
         IN /\ IsType(spec) /\ Regions(drawn)
            /\ \E g, h, N : IsStack(Stacked(m.layers, spec, drawn), m.layers, spec, drawn, g, h, N)
  <1> DEFINE spec == MapTypes[t]
             drawn == regionsDrawn(list, spec)
  <1>1. IsType(spec)
    BY DEF IsType
  <1> HIDE DEF spec
  <1>2. Regions(drawn)
    BY DrawnAreRegions
  <1> HIDE DEF drawn
  <1>3. PICK k \in Nat : DOMAIN drawn = 1..k
    BY <1>2 DEF Regions
  <1>4. PICK n \in Nat : DOMAIN m.layers = 1..n
    BY DEF IsPlain
  <1>5. m.layers = [i \in 1..n |-> m.layers[i]]
    BY <1>4 DEF IsPlain
  <1>6. \E g, h, N : IsStack(Stacked(m.layers, spec, drawn), m.layers, spec, drawn, g, h, N)
    BY <1>1, <1>3, <1>4, <1>5, StackedIsStack
  <1> QED  BY <1>1, <1>2, <1>6 DEF spec, drawn

(* The layers of the map between those of a type, as the type shows them. *)
LEMMA MapUnderType ==
  ASSUME NEW m, NEW spec, NEW drawn, NEW S, NEW g, NEW h, NEW N, OnMap(m, spec, drawn, S, g, h, N), NEW type
  PROVE  LET layers == Restyled(spec, type, S)
             added == TypeIds(spec, drawn)
         IN /\ Selected(layers, {p \in DOMAIN layers : IdOf(layers[p]) \notin added})
                 = Restyled(spec, type, m.layers)
            /\ added \subseteq {IdOf(l) : l \in Items(layers)}
  <1> DEFINE L == m.layers
             A == (DOMAIN spec.layers) \X DOMAIN drawn
             layers == Restyled(spec, type, S)
             added == TypeIds(spec, drawn)
             I == {p \in DOMAIN layers : IdOf(layers[p]) \notin added}
             under == Restyled(spec, type, L)
  <1>0. IsPlain(m) /\ IsType(spec) /\ Regions(drawn) /\ IsStack(S, m.layers, spec, drawn, g, h, N)
    BY DEF OnMap
  <1>20. StackLayers(m, spec, drawn, S, g, h, N)
    BY StackHasLayers
  <1>1. /\ N \in Nat /\ DOMAIN S = 1..N /\ g \in [DOMAIN L -> 1..N]
        /\ \A p \in 1..N : (\E i \in DOMAIN L : g[i] = p) \/ \E a \in A : h[a] = p
        /\ \A i, j \in DOMAIN L : i < j => g[i] < g[j]
    BY <1>0, Zenon DEF IsStack
  <1>2. /\ \A p \in 1..N : IsLayer(S[p])
        /\ \A i \in DOMAIN L : g[i] \in 1..N /\ S[g[i]] = L[i] /\ InTemplate(S[g[i]].name)
        /\ \A a \in A : h[a] \in 1..N /\ S[h[a]].of = drawn[a[2]].id /\ S[h[a]].name = spec.layers[a[1]].id
    BY <1>20 DEF StackLayers
  <1>3. \A p \in 1..N : layers[p] = Changed(spec, type, S[p]) /\ IdOf(layers[p]) = <<S[p].of, S[p].name>>
    BY <1>1, <1>2, ChangedLayer DEF IdOf, Restyled
  <1>4. \A x \in added : \E a \in A : x = <<drawn[a[2]].id, spec.layers[a[1]].id>>
    <2> SUFFICES ASSUME NEW r \in Items(drawn), NEW layer \in Items(spec.layers)
                 PROVE  \E a \in A : <<r.id, layer.id>> = <<drawn[a[2]].id, spec.layers[a[1]].id>>
      BY DEF TypeIds
    <2>1. PICK d \in DOMAIN drawn : drawn[d] = r
      BY DEF Items
    <2>2. PICK k \in DOMAIN spec.layers : spec.layers[k] = layer
      BY DEF Items
    <2>3. <<k, d>> \in A
      OBVIOUS
    <2> QED  BY <2>1, <2>2, <2>3
  <1>5. \A a \in A : <<drawn[a[2]].id, spec.layers[a[1]].id>> \in added
    <2> SUFFICES ASSUME NEW a \in A PROVE <<drawn[a[2]].id, spec.layers[a[1]].id>> \in added
      OBVIOUS
    <2>1. drawn[a[2]] \in Items(drawn) /\ spec.layers[a[1]] \in Items(spec.layers)
      BY DEF Items
    <2> QED  BY <2>1 DEF TypeIds
  <1>6. \A a \in A : ~InTemplate(spec.layers[a[1]].id)
    BY <1>0, TypesAreOfTheTemplate
  <1> HIDE DEF A, added, layers
  <1>7. \A i \in DOMAIN L : IdOf(layers[g[i]]) \notin added
    <2> SUFFICES ASSUME NEW i \in DOMAIN L, IdOf(layers[g[i]]) \in added PROVE FALSE
      OBVIOUS
    <2>1. IdOf(layers[g[i]]) = <<S[g[i]].of, S[g[i]].name>> /\ InTemplate(S[g[i]].name)
      BY <1>2, <1>3
    <2>2. PICK a \in A : IdOf(layers[g[i]]) = <<drawn[a[2]].id, spec.layers[a[1]].id>>
      BY <1>4
    <2> QED  BY <1>6, <2>1, <2>2
  <1>8. \A a \in A : IdOf(layers[h[a]]) \in added
    BY <1>2, <1>3, <1>5
  <1>9. DOMAIN layers = 1..N
    BY <1>1 DEF layers, Restyled
  <1>10. PICK n \in Nat : DOMAIN L = 1..n
    BY <1>0 DEF IsPlain
  <1>11. Picks(layers, under, g, n, I)
    <2>1. g \in [1..n -> I]
      BY <1>1, <1>2, <1>7, <1>9, <1>10
    <2>2. \A p \in I : \E i \in 1..n : g[i] = p
      BY <1>1, <1>8, <1>9, <1>10
    <2>3. under = [i \in 1..n |-> layers[g[i]]]
      BY <1>2, <1>3, <1>10 DEF Restyled
    <2> HIDE DEF I, under
    <2> QED  BY <1>1, <1>10, <2>1, <2>2, <2>3 DEF Picks
  <1>12. Selected(layers, I) = under
    <2>1. I \in SUBSET (1..N)
      BY <1>9
    <2> HIDE DEF I, under
    <2> QED  BY <1>1, <1>11, <2>1, Selection
  <1>13. added \subseteq {IdOf(l) : l \in Items(layers)}
    <2> SUFFICES ASSUME NEW x \in added PROVE \E l \in Items(layers) : x = IdOf(l)
      OBVIOUS
    <2>1. PICK a \in A : x = <<drawn[a[2]].id, spec.layers[a[1]].id>>
      BY <1>4
    <2>2. h[a] \in 1..N /\ IdOf(layers[h[a]]) = x
      BY <1>2, <1>3, <2>1
    <2>3. layers[h[a]] \in Items(layers)
      BY <1>9, <2>2 DEF Items
    <2> QED  BY <2>2, <2>3
  <1> QED  BY <1>12, <1>13 DEF L, I, under, layers, added

(* What is kept of a layer is what it was: the layers have ids of their own. *)
LEMMA KeptIsRestored ==
  ASSUME NEW m, NEW spec, NEW drawn, NEW S, NEW g, NEW h, NEW N, OnMap(m, spec, drawn, S, g, h, N), NEW type, NEW i \in DOMAIN m.layers
  PROVE  LET l == m.layers[i]
             c == Changed(spec, type, l)
             kept_ == Changes(spec, S)
         IN KeptOf(c, kept_.hidden, c.hidden) = l.hidden /\ KeptOf(c, kept_.paint, c.paint) = l.paint
  <1> DEFINE l == m.layers[i]
             c == Changed(spec, type, l)
             H == {<<IdOf(k), k.hidden>> : k \in {j \in Items(S) : Hides(spec, j)}}
             P == {<<IdOf(k), k.paint>> : k \in {j \in Items(S) : Restyles(spec, j)}}
  <1>0. IsPlain(m) /\ IsType(spec) /\ Regions(drawn) /\ IsStack(S, m.layers, spec, drawn, g, h, N)
    BY DEF OnMap
  <1>20. StackLayers(m, spec, drawn, S, g, h, N)
    BY StackHasLayers
  <1>1. Changes(spec, S).hidden = H /\ Changes(spec, S).paint = P
    BY DEF Changes
  <1>2. IsLayer(l) /\ InTemplate(l.name)
    BY <1>0 DEF IsPlain
  <1>3. /\ IdOf(c) = IdOf(l) /\ c.hidden = (l.hidden \/ Hides(spec, l))
        /\ c.paint = IF Restyles(spec, l) THEN type ELSE l.paint
    BY <1>2, ChangedLayer
  <1>4. l \in Items(S)
    <2>1. g[i] \in 1..N /\ S[g[i]] = l
      BY <1>20 DEF StackLayers
    <2>2. DOMAIN S = 1..N
      BY <1>0 DEF IsStack
    <2> QED  BY <2>1, <2>2 DEF Items
  <1>5. ASSUME NEW k \in Items(S), IdOf(k) = IdOf(l) PROVE k = l
    <2> DEFINE A == (DOMAIN spec.layers) \X DOMAIN drawn
    <2>1. PICK p \in 1..N : k = S[p]
      BY <1>0 DEF Items, IsStack
    <2>2. (\E j \in DOMAIN m.layers : g[j] = p) \/ \E a \in A : h[a] = p
      BY <1>0, Zenon DEF IsStack
    <2>3. k.name = l.name
      BY <1>5 DEF IdOf
    <2>4. ~\E a \in A : h[a] = p
      <3>1. \A a \in A : ~InTemplate(S[h[a]].name)
        BY <1>20 DEF StackLayers
      <3> QED  BY <1>2, <2>1, <2>3, <3>1
    <2>5. PICK j \in DOMAIN m.layers : g[j] = p
      BY <2>2, <2>4
    <2>6. k = m.layers[j]
      <3>1. S[g[j]] = m.layers[j]
        BY <1>20 DEF StackLayers
      <3> QED  BY <2>1, <2>5, <3>1
    <2>7. j = i
      BY <1>0, <1>5, <2>6 DEF IsPlain
    <2> QED  BY <2>6, <2>7
  <1> HIDE DEF l, c
  <1>6. KeptOf(c, H, c.hidden) = l.hidden
    <2> DEFINE mine == {s \in H : s[1] = IdOf(c)}
    <2>1. KeptOf(c, H, c.hidden) = IF mine = {} THEN c.hidden ELSE (CHOOSE s \in mine : TRUE)[2]
      BY DEF KeptOf
    <2>2. \A s \in mine : Hides(spec, l) /\ s[2] = l.hidden
      BY <1>3, <1>5
    <2>3. Hides(spec, l) => <<IdOf(l), l.hidden>> \in mine
      BY <1>3, <1>4
    <2> HIDE DEF mine
    <2>4. CASE mine = {}
      <3>1. ~Hides(spec, l)
        BY <2>3, <2>4
      <3>2. c.hidden = l.hidden
        BY <1>2, <1>3, <3>1 DEF IsLayer, l
      <3> QED  BY <2>1, <2>4, <3>2
    <2>5. CASE mine # {}
      <3>1. (CHOOSE s \in mine : TRUE) \in mine
        BY <2>5
      <3> QED  BY <2>1, <2>2, <2>5, <3>1
    <2> QED  BY <2>4, <2>5
  <1>7. KeptOf(c, P, c.paint) = l.paint
    <2> DEFINE mine == {s \in P : s[1] = IdOf(c)}
    <2>1. KeptOf(c, P, c.paint) = IF mine = {} THEN c.paint ELSE (CHOOSE s \in mine : TRUE)[2]
      BY DEF KeptOf
    <2>2. \A s \in mine : Restyles(spec, l) /\ s[2] = l.paint
      BY <1>3, <1>5
    <2>3. Restyles(spec, l) => <<IdOf(l), l.paint>> \in mine
      BY <1>3, <1>4
    <2> HIDE DEF mine
    <2>4. CASE mine = {}
      BY <1>3, <2>1, <2>3, <2>4
    <2>5. CASE mine # {}
      <3>1. (CHOOSE s \in mine : TRUE) \in mine
        BY <2>5
      <3> QED  BY <2>1, <2>2, <2>5, <3>1
    <2> QED  BY <2>4, <2>5
  <1> QED  BY <1>1, <1>6, <1>7 DEF l, c

LEMMA TypedMap ==
  ASSUME NEW m, NEW list, NEW t
  PROVE  LET spec == MapTypes[t]
             drawn == regionsDrawn(list, spec)
             S == Stacked(m.layers, spec, drawn)
             M == Typed(m, list, t)
         IN /\ M = [layers |-> M.layers, sources |-> M.sources, type |-> M.type, added |-> M.added,
                    addedSources |-> M.addedSources, restore |-> M.restore]
            /\ M.layers = Restyled(spec, t, S) /\ M.type = t /\ M.added = TypeIds(spec, drawn)
            /\ M.sources = m.sources \union TypeSources(spec, drawn)
            /\ M.addedSources = TypeSources(spec, drawn) \ m.sources
            /\ M.restore = Changes(spec, S)
  BY DEF Typed

(* The undone map is the one there was before the type. *)
LEMMA TypedIsUndone ==
  ASSUME NEW m, IsPlain(m), NEW list \in RegionList, NEW t \in DOMAIN MapTypes
  PROVE  Undone(Typed(m, list, t)) = m
  <1> DEFINE spec == MapTypes[t]
             drawn == regionsDrawn(list, spec)
             S == Stacked(m.layers, spec, drawn)
             M == Typed(m, list, t)
             src == TypeSources(spec, drawn)
             under == Restyled(spec, t, m.layers)
             saved == Changes(spec, S)
  <1>1. /\ M.layers = Restyled(spec, t, S) /\ M.sources = m.sources \union src
        /\ M.addedSources = src \ m.sources /\ M.added = TypeIds(spec, drawn) /\ M.restore = saved
    BY TypedMap
  <1>2. PICK g, h, N : OnMap(m, spec, drawn, S, g, h, N)
    BY TypeIsStacked, Zenon DEF OnMap
  <1> HIDE DEF spec, drawn, S, M
  <1>3. Selected(M.layers, {p \in DOMAIN M.layers : IdOf(M.layers[p]) \notin M.added}) = under
    BY <1>1, <1>2, MapUnderType
  <1>4. \A i \in DOMAIN m.layers : IsLayer(m.layers[i])
    BY DEF IsPlain
  <1>5. ASSUME NEW i \in DOMAIN m.layers
        PROVE  [under[i] EXCEPT !.hidden = KeptOf(under[i], saved.hidden, @),
                                !.paint = KeptOf(under[i], saved.paint, @)] = m.layers[i]
    <2> DEFINE l == m.layers[i]
               c == Changed(spec, t, l)
    <2>1. KeptOf(c, saved.hidden, c.hidden) = l.hidden /\ KeptOf(c, saved.paint, c.paint) = l.paint
      BY <1>2, KeptIsRestored
    <2>2. under[i] = c
      BY DEF Restyled
    <2>3. IsLayer(c) /\ c.of = l.of /\ c.name = l.name /\ c.source = l.source /\ c.maxzoom = l.maxzoom
      BY <1>4, ChangedLayer
    <2>4. IsLayer(l)
      BY <1>4
    <2> HIDE DEF l, c, saved
    <2>5. [c EXCEPT !.hidden = KeptOf(c, saved.hidden, @), !.paint = KeptOf(c, saved.paint, @)]
            = [c EXCEPT !.hidden = l.hidden, !.paint = l.paint]
      BY <2>1, <2>3 DEF IsLayer
    <2>6. [c EXCEPT !.hidden = l.hidden, !.paint = l.paint] = l
      BY <2>3, <2>4 DEF IsLayer
    <2> HIDE DEF under
    <2> QED  BY <2>2, <2>5, <2>6 DEF l
  <1>6. Restored(under, saved) = m.layers
    <2>1. Restored(under, saved) = [i \in DOMAIN m.layers |-> m.layers[i]]
      <3>1. DOMAIN under = DOMAIN m.layers
        BY DEF Restyled
      <3> HIDE DEF under, saved
      <3> QED  BY <1>5, <3>1 DEF Restored
    <2> QED  BY <2>1 DEF IsPlain
  <1>7. M.sources \ M.addedSources = m.sources
    BY <1>1
  <1>8. Undone(M) = [layers |-> m.layers, sources |-> m.sources, type |-> NoType, added |-> {},
                     addedSources |-> {}, restore |-> NothingChanged]
    <2> HIDE DEF under, saved, src
    <2> QED  BY <1>1, <1>3, <1>6, <1>7 DEF Undone
  <1>9. m = [layers |-> m.layers, sources |-> m.sources, type |-> NoType, added |-> {},
             addedSources |-> {}, restore |-> NothingChanged]
    BY DEF IsPlain
  <1> QED  BY <1>8, <1>9 DEF M

(* Nothing is to be undone on a plain map. *)
LEMMA PlainIsUndone ==
  ASSUME NEW m, IsPlain(m)
  PROVE  Undone(m) = m
  <1> DEFINE L == m.layers
             s == m.sources
  <1>1. m = [layers |-> L, sources |-> s, type |-> NoType, added |-> {}, addedSources |-> {},
             restore |-> NothingChanged]
    BY DEF IsPlain
  <1>2. PICK n \in Nat : DOMAIN L = 1..n
    BY DEF IsPlain
  <1>3. L = [i \in 1..n |-> L[i]] /\ \A i \in 1..n : IsLayer(L[i])
    BY <1>2 DEF IsPlain
  <1> HIDE DEF L, s
  <1>4. m.layers = L /\ m.sources = s /\ m.added = {} /\ m.addedSources = {} /\ m.restore = NothingChanged
    BY <1>1
  <1>5. Selected(L, 1..n) = L
    <2> DEFINE f == [i \in 1..n |-> i]
    <2>1. f \in [1..n -> 1..n] /\ \A i \in 1..n : f[i] = i
      OBVIOUS
    <2> HIDE DEF f
    <2>2. L = [i \in 1..n |-> L[f[i]]]
      BY <1>3, <2>1
    <2>3. Picks(L, L, f, n, 1..n)
      BY <2>1, <2>2 DEF Picks
    <2> QED  BY <2>3, Selection
  <1>6. {i \in DOMAIN L : IdOf(L[i]) \notin {}} = 1..n
    BY <1>2
  <1>7. Restored(L, NothingChanged) = L
    <2>1. \A l : KeptOf(l, NothingChanged.hidden, l.hidden) = l.hidden /\ KeptOf(l, NothingChanged.paint, l.paint) = l.paint
      BY DEF KeptOf, NothingChanged
    <2>2. ASSUME NEW i \in 1..n
          PROVE  [L[i] EXCEPT !.hidden = KeptOf(L[i], NothingChanged.hidden, @),
                              !.paint = KeptOf(L[i], NothingChanged.paint, @)] = L[i]
      <3> DEFINE l == L[i]
      <3>1. IsLayer(l)
        BY <1>3
      <3> HIDE DEF l
      <3>2. [l EXCEPT !.hidden = KeptOf(l, NothingChanged.hidden, @),
                      !.paint = KeptOf(l, NothingChanged.paint, @)]
              = [l EXCEPT !.hidden = l.hidden, !.paint = l.paint]
        BY <2>1, <3>1 DEF IsLayer
      <3>3. [l EXCEPT !.hidden = l.hidden, !.paint = l.paint] = l
        BY <3>1 DEF IsLayer
      <3> QED  BY <3>2, <3>3 DEF l
    <2>3. Restored(L, NothingChanged) = [i \in 1..n |-> L[i]]
      BY <1>2, <2>2 DEF Restored
    <2> QED  BY <1>3, <2>3
  <1>8. s \ {} = s
    OBVIOUS
  <1>9. Undone(m) = [layers |-> L, sources |-> s, type |-> NoType, added |-> {}, addedSources |-> {},
                     restore |-> NothingChanged]
    BY <1>4, <1>5, <1>6, <1>7, <1>8 DEF Undone
  <1> QED  BY <1>1, <1>9

(* A switch under a type is the type over a switch. *)
LEMMA LitIsChanged ==
  ASSUME NEW l, IsLayer(l), NEW spec, IsType(spec), NEW type, NEW on
  PROVE  /\ Changed(spec, type, Lit(l, on)) = Lit(Changed(spec, type, l), on)
         /\ Hides(spec, Lit(l, on)) = Hides(spec, l) /\ Restyles(spec, Lit(l, on)) = Restyles(spec, l)
         /\ Hides(spec, l) => Lit(l, on) = l
  <1> DEFINE k == Lit(l, on)
             c == Changed(spec, type, l)
             ck == Changed(spec, type, k)
             kc == Lit(c, on)
             h == SwitchOf(l.name) \cap on = {}
  <1>1. /\ IsLayer(k) /\ k.of = l.of /\ k.name = l.name /\ k.paint = l.paint
        /\ k.source = l.source /\ k.maxzoom = l.maxzoom
        /\ k.hidden = IF l.of # App /\ SwitchOf(l.name) # {} THEN h ELSE l.hidden
    BY LitLayer
  <1>2. Hides(spec, k) = Hides(spec, l) /\ Restyles(spec, k) = Restyles(spec, l)
    BY <1>1, Zenon DEF Hides, Restyles
  <1>3. /\ IsLayer(c) /\ c.of = l.of /\ c.name = l.name /\ c.source = l.source /\ c.maxzoom = l.maxzoom
        /\ c.hidden = (l.hidden \/ Hides(spec, l)) /\ c.paint = IF Restyles(spec, l) THEN type ELSE l.paint
    BY ChangedLayer
  <1>4. Hides(spec, l) => SwitchOf(l.name) = {}
    BY TypesAreOfTheTemplate DEF Hides
  <1>5. Hides(spec, l) => k = l
    BY <1>4 DEF Lit
  <1> HIDE DEF k, c
  <1>6. /\ IsLayer(ck) /\ ck.of = k.of /\ ck.name = k.name /\ ck.source = k.source /\ ck.maxzoom = k.maxzoom
        /\ ck.hidden = (k.hidden \/ Hides(spec, k)) /\ ck.paint = IF Restyles(spec, k) THEN type ELSE k.paint
    BY <1>1, ChangedLayer
  <1>7. /\ IsLayer(kc) /\ kc.of = c.of /\ kc.name = c.name /\ kc.paint = c.paint
        /\ kc.source = c.source /\ kc.maxzoom = c.maxzoom
        /\ kc.hidden = IF c.of # App /\ SwitchOf(c.name) # {} THEN SwitchOf(c.name) \cap on = {} ELSE c.hidden
    BY <1>3, LitLayer
  <1> HIDE DEF ck, kc
  <1>8. ck.hidden = kc.hidden
    <2>1. CASE l.of # App /\ SwitchOf(l.name) # {}
      <3>1. k.hidden = h /\ kc.hidden = h /\ ~Hides(spec, k)
        BY <1>1, <1>2, <1>3, <1>4, <1>7, <2>1
      <3>2. ck.hidden = (h \/ FALSE)
        BY <1>6, <3>1
      <3> QED  BY <3>1, <3>2
    <2>2. CASE ~(l.of # App /\ SwitchOf(l.name) # {})
      <3>1. k.hidden = l.hidden /\ kc.hidden = c.hidden
        BY <1>1, <1>3, <1>7, <2>2
      <3> QED  BY <1>2, <1>3, <1>6, <3>1
    <2> QED  BY <2>1, <2>2
  <1>9. ck = kc
    <2>1. ck.of = kc.of /\ ck.name = kc.name /\ ck.paint = kc.paint /\ ck.source = kc.source /\ ck.maxzoom = kc.maxzoom
      BY <1>1, <1>2, <1>3, <1>6, <1>7
    <2> QED  BY <1>6, <1>7, <1>8, <2>1, SameLayer
  <1> QED  BY <1>2, <1>5, <1>9 DEF k, c, ck, kc

(* The layers of the map are in the same places whatever is switched. *)
LEMMA LitStack ==
  ASSUME NEW m, IsPlain(m), NEW spec, IsType(spec), NEW drawn, Regions(drawn), NEW on
  PROVE  LET S == Stacked(m.layers, spec, drawn)
         IN Stacked(applyLayers(m, on).layers, spec, drawn) = [p \in DOMAIN S |-> Lit(S[p], on)]
  <1> DEFINE L == m.layers
             K == applyLayers(m, on).layers
             S == Stacked(L, spec, drawn)
             top == OnTop(spec)
             F == {<<i, top, 0>> : i \in DOMAIN L} \union TypeSpots(L, spec, drawn)
             at == InOrder(F)
             layer(x, s) == IF s[2] = top THEN x[s[1]] ELSE TypeLayer(spec, drawn[s[3]], spec.layers[s[2]])
  <1>1. PICK n \in Nat : DOMAIN L = 1..n
    BY DEF IsPlain
  <1>2. L = [i \in 1..n |-> L[i]] /\ \A i \in 1..n : IsLayer(L[i])
    BY <1>1 DEF IsPlain
  <1>20. IsPlain(applyLayers(m, on)) /\ K = [i \in DOMAIN L |-> Lit(L[i], on)]
    BY AppliedIsPlain
  <1> HIDE DEF K
  <1>3. DOMAIN K = 1..n /\ K = [i \in 1..n |-> K[i]] /\ \A i \in 1..n : K[i] = Lit(L[i], on)
    BY <1>1, <1>20
  <1>4. PICK k \in Nat : DOMAIN drawn = 1..k
    BY DEF Regions
  <1> HIDE DEF L, K
  <1>5. ASSUME NEW name PROVE firstLayerFrom(K, name) = firstLayerFrom(L, name)
    <2> DEFINE p == firstLayerFrom(L, name)
               q == firstLayerFrom(K, name)
    <2>1. p \in 1..n + 1 /\ (p \in 1..n => From(name, L[p])) /\ \A i \in 1..n : i < p => ~From(name, L[i])
      BY <1>1, <1>2, FirstOfLater
    <2>2. q \in 1..n + 1 /\ (q \in 1..n => From(name, K[q])) /\ \A i \in 1..n : i < q => ~From(name, K[i])
      BY <1>3, FirstOfLater
    <2>3. \A i \in 1..n : From(name, K[i]) <=> From(name, L[i])
      <3>1. \A i \in 1..n : K[i].of = L[i].of /\ K[i].name = L[i].name
        BY <1>2, <1>3, LitLayer
      <3> QED  BY <3>1, Zenon DEF From
    <2> HIDE DEF p, q
    <2>4. ~(p < q) /\ ~(q < p)
      BY <2>1, <2>2, <2>3
    <2> QED  BY <2>1, <2>2, <2>4 DEF p, q
  <1>6. TypeSpots(K, spec, drawn) = TypeSpots(L, spec, drawn)
    BY <1>5 DEF TypeSpots
  <1>7. {<<i, top, 0>> : i \in DOMAIN K} \union TypeSpots(K, spec, drawn) = F
    BY <1>1, <1>3, <1>6
  <1>8. Stacked(K, spec, drawn) = [p \in DOMAIN at |-> layer(K, at[p])]
    BY <1>7, Zenon DEF Stacked
  <1>9. S = [p \in DOMAIN at |-> layer(L, at[p])]
    BY Zenon DEF Stacked
  <1>10. /\ F \in SUBSET Spot3 /\ IsFiniteSet(F)
         /\ \A s \in F : IF s[2] = top THEN s[1] \in DOMAIN L
                         ELSE s[2] \in DOMAIN spec.layers /\ s[3] \in DOMAIN drawn
    BY <1>1, <1>2, <1>4, StackSpots
  <1> HIDE DEF F, top
  <1>11. \A p \in DOMAIN at : at[p] \in F
    BY <1>10, InOrderCounts DEF Counts
  <1> HIDE DEF at
  <1>12. \A s \in F : layer(K, s) = Lit(layer(L, s), on)
    <2> SUFFICES ASSUME NEW s \in F PROVE layer(K, s) = Lit(layer(L, s), on)
      OBVIOUS
    <2>1. CASE s[2] = top
      BY <1>1, <1>3, <1>10, <2>1
    <2>2. CASE s[2] # top
      <3> DEFINE l == TypeLayer(spec, drawn[s[3]], spec.layers[s[2]])
      <3>1. s[2] \in DOMAIN spec.layers
        BY <1>10, <2>2
      <3>2. l.name = spec.layers[s[2]].id
        BY DEF TypeLayer
      <3>3. SwitchOf(l.name) = {}
        BY <3>1, <3>2, TypesAreOfTheTemplate
      <3> HIDE DEF l
      <3>4. Lit(l, on) = l
        BY <3>3 DEF Lit
      <3> QED  BY <2>2, <3>4 DEF l
    <2> QED  BY <2>1, <2>2
  <1> HIDE DEF layer, S
  <1>13. DOMAIN S = DOMAIN at /\ \A p \in DOMAIN at : S[p] = layer(L, at[p])
    BY <1>9
  <1>14. Stacked(K, spec, drawn) = [p \in DOMAIN S |-> Lit(S[p], on)]
    BY <1>8, <1>11, <1>12, <1>13
  <1> QED  BY <1>14 DEF K, L, S

(* Switching a detail while a type is shown gives the map of the type over the switches. *)
LEMMA TypedIsApplied ==
  ASSUME NEW m, IsPlain(m), NEW list \in RegionList, NEW t \in DOMAIN MapTypes, NEW on
  PROVE  applyLayers(Typed(m, list, t), on) = Typed(applyLayers(m, on), list, t)
  <1> DEFINE spec == MapTypes[t]
             drawn == regionsDrawn(list, spec)
             S == Stacked(m.layers, spec, drawn)
             M == Typed(m, list, t)
             a == applyLayers(m, on)
             R == Stacked(a.layers, spec, drawn)
             T == Typed(a, list, t)
             lit == [p \in DOMAIN M.layers |-> Lit(M.layers[p], on)]
  <1>1. /\ M = [layers |-> M.layers, sources |-> M.sources, type |-> M.type, added |-> M.added,
                addedSources |-> M.addedSources, restore |-> M.restore]
        /\ M.layers = Restyled(spec, t, S) /\ M.type = t /\ M.added = TypeIds(spec, drawn)
        /\ M.sources = m.sources \union TypeSources(spec, drawn)
        /\ M.addedSources = TypeSources(spec, drawn) \ m.sources
        /\ M.restore = Changes(spec, S)
    BY TypedMap
  <1>2. /\ T = [layers |-> T.layers, sources |-> T.sources, type |-> T.type, added |-> T.added,
                addedSources |-> T.addedSources, restore |-> T.restore]
        /\ T.layers = Restyled(spec, t, R) /\ T.type = t /\ T.added = TypeIds(spec, drawn)
        /\ T.sources = a.sources \union TypeSources(spec, drawn)
        /\ T.addedSources = TypeSources(spec, drawn) \ a.sources
        /\ T.restore = Changes(spec, R)
    BY TypedMap
  <1>3. a.sources = m.sources
    BY AppliedIsPlain
  <1>4. PICK g, h, N : OnMap(m, spec, drawn, S, g, h, N)
    BY TypeIsStacked, Zenon DEF OnMap
  <1>5. IsType(spec) /\ Regions(drawn)
    BY <1>4 DEF OnMap
  <1>6. R = [p \in DOMAIN S |-> Lit(S[p], on)]
    <2> HIDE DEF spec, drawn
    <2> QED  BY <1>5, LitStack
  <1>7. applyLayers(M, on) = [M EXCEPT !.layers = lit]
    BY DEF applyLayers
  <1> HIDE DEF spec, drawn, S, M, a, R, T
  <1>8. DOMAIN S = 1..N /\ \A p \in 1..N : IsLayer(S[p])
    <2>1. StackLayers(m, spec, drawn, S, g, h, N)
      BY <1>4, StackHasLayers
    <2>2. IsStack(S, m.layers, spec, drawn, g, h, N)
      BY <1>4 DEF OnMap
    <2> QED  BY <2>1, <2>2 DEF StackLayers, IsStack
  <1>9. DOMAIN R = 1..N /\ \A p \in 1..N : R[p] = Lit(S[p], on)
    BY <1>6, <1>8
  <1>10. T.layers = lit
    <2>1. \A p \in 1..N : Changed(spec, t, R[p]) = Lit(Changed(spec, t, S[p]), on)
      BY <1>5, <1>8, <1>9, LitIsChanged
    <2>2. DOMAIN M.layers = 1..N /\ \A p \in 1..N : M.layers[p] = Changed(spec, t, S[p])
      BY <1>1, <1>8 DEF Restyled
    <2>3. T.layers = [p \in 1..N |-> Changed(spec, t, R[p])]
      BY <1>2, <1>9 DEF Restyled
    <2>4. lit = [p \in 1..N |-> Lit(Changed(spec, t, S[p]), on)]
      BY <2>2
    <2> HIDE DEF lit
    <2> QED  BY <2>1, <2>3, <2>4
  <1>11. Changes(spec, R) = Changes(spec, S)
    <2>1. \A p \in 1..N : /\ Hides(spec, R[p]) = Hides(spec, S[p]) /\ Restyles(spec, R[p]) = Restyles(spec, S[p])
                          /\ Hides(spec, S[p]) => R[p] = S[p]
                          /\ IdOf(R[p]) = IdOf(S[p]) /\ R[p].paint = S[p].paint
      BY <1>5, <1>8, <1>9, LitIsChanged, LitLayer
    <2>2. Items(R) = {R[p] : p \in 1..N} /\ Items(S) = {S[p] : p \in 1..N}
      BY <1>8, <1>9 DEF Items
    <2>3. {<<IdOf(l), l.hidden>> : l \in {k \in Items(R) : Hides(spec, k)}}
            = {<<IdOf(l), l.hidden>> : l \in {k \in Items(S) : Hides(spec, k)}}
      BY <2>1, <2>2
    <2>4. {<<IdOf(l), l.paint>> : l \in {k \in Items(R) : Restyles(spec, k)}}
            = {<<IdOf(l), l.paint>> : l \in {k \in Items(S) : Restyles(spec, k)}}
      BY <2>1, <2>2
    <2> QED  BY <2>3, <2>4 DEF Changes
  <1>12. [M EXCEPT !.layers = lit] = [layers |-> lit, sources |-> M.sources, type |-> M.type, added |-> M.added,
                                      addedSources |-> M.addedSources, restore |-> M.restore]
    <2> DEFINE l == M.layers
               s == M.sources
               y == M.type
               d == M.added
               e == M.addedSources
               r == M.restore
    <2>1. M = [layers |-> l, sources |-> s, type |-> y, added |-> d, addedSources |-> e, restore |-> r]
      BY <1>1
    <2> HIDE DEF l, s, y, d, e, r, lit
    <2>2. [M EXCEPT !.layers = lit] = [layers |-> lit, sources |-> s, type |-> y, added |-> d,
                                       addedSources |-> e, restore |-> r]
      BY <2>1
    <2> QED  BY <2>2 DEF s, y, d, e, r
  <1> HIDE DEF lit
  <1>13. T = [layers |-> lit, sources |-> M.sources, type |-> M.type, added |-> M.added,
              addedSources |-> M.addedSources, restore |-> M.restore]
    BY <1>1, <1>2, <1>3, <1>10, <1>11
  <1> QED  BY <1>7, <1>12, <1>13 DEF M, T, a

-----------------------------------------------------------------------------
(* The map of the switches, made anew. *)
NewMap(list) == buildStyle(tilesets(list))
Styled(list, on, t) ==
  LET m == applyLayers(NewMap(list), on) IN IF Shows(list, t) THEN Typed(m, list, t) ELSE m

(* The inductive invariant: the map is the one of the switches, with all that is kept to undo   *)
(* the type; a page that has loaded has no type chosen that it does not show.                   *)
StyleInv ==
  /\ regions \in RegionList /\ mapReady \in BOOLEAN
  /\ ~mapReady => map = NewMap(regions)
  /\ mapReady => map = Styled(regions, activeLayers, mapType) /\ (mapType = NoType \/ Shows(regions, mapType))

(* Undoing the type leaves the map of the switches. *)
LEMMA StyledIsUndone ==
  ASSUME NEW list \in RegionList, NEW on, NEW t
  PROVE  /\ Undone(Styled(list, on, t)) = applyLayers(NewMap(list), on)
         /\ IsPlain(NewMap(list)) /\ IsPlain(applyLayers(NewMap(list), on))
  <1> DEFINE m == applyLayers(NewMap(list), on)
  <1>1. IsPlain(NewMap(list))
    BY NewMapIsPlain DEF NewMap
  <1>2. IsPlain(m)
    BY <1>1, AppliedIsPlain
  <1>3. Styled(list, on, t) = IF Shows(list, t) THEN Typed(m, list, t) ELSE m
    BY DEF Styled
  <1> HIDE DEF m
  <1>4. CASE Shows(list, t)
    <2>1. t \in DOMAIN MapTypes
      BY <1>4 DEF Shows
    <2> QED  BY <1>2, <1>3, <1>4, <2>1, TypedIsUndone, <1>1 DEF m
  <1>5. CASE ~Shows(list, t)
    BY <1>1, <1>2, <1>3, <1>5, PlainIsUndone DEF m
  <1> QED  BY <1>4, <1>5

(* The last switches count, whatever type is shown. *)
LEMMA StyledIsApplied ==
  ASSUME NEW list \in RegionList, NEW on, NEW on2, NEW t
  PROVE  applyLayers(Styled(list, on, t), on2) = Styled(list, on2, t)
  <1> DEFINE m == applyLayers(NewMap(list), on)
             k == applyLayers(NewMap(list), on2)
  <1>1. IsPlain(NewMap(list)) /\ IsPlain(m)
    BY StyledIsUndone
  <1>2. applyLayers(m, on2) = k
    BY <1>1, LastSwitchesCount
  <1>3. /\ Styled(list, on, t) = IF Shows(list, t) THEN Typed(m, list, t) ELSE m
        /\ Styled(list, on2, t) = IF Shows(list, t) THEN Typed(k, list, t) ELSE k
    BY DEF Styled
  <1> HIDE DEF m, k
  <1>4. CASE Shows(list, t)
    <2>1. t \in DOMAIN MapTypes
      BY <1>4 DEF Shows
    <2>2. applyLayers(Typed(m, list, t), on2) = Typed(applyLayers(m, on2), list, t)
      BY <1>1, <2>1, TypedIsApplied
    <2> QED  BY <1>2, <1>3, <1>4, <2>2
  <1>5. CASE ~Shows(list, t)
    BY <1>2, <1>3, <1>5
  <1> QED  BY <1>4, <1>5

(* A type that is chosen is shown on the plain map, or the plain map is left. *)
LEMMA TypeIsSet ==
  ASSUME NEW m, NEW list \in RegionList, NEW on, NEW t, Undone(m) = applyLayers(NewMap(list), on)
  PROVE  /\ setMapType(m, list, t) = Styled(list, on, typeApplied(list, t))
         /\ typeApplied(list, t) = NoType \/ Shows(list, typeApplied(list, t))
  <1>1. ~Shows(list, NoType)
    BY DEF Shows
  <1>2. CASE Shows(list, t)
    <2>1. typeApplied(list, t) = t
      BY <1>2 DEF typeApplied
    <2> QED  BY <1>2, <2>1 DEF setMapType, Styled
  <1>3. CASE ~Shows(list, t)
    <2>1. typeApplied(list, t) = NoType
      BY <1>3 DEF typeApplied
    <2> QED  BY <1>1, <1>3, <2>1 DEF setMapType, Styled
  <1> QED  BY <1>2, <1>3

(* Every step keeps the invariant. *)
LEMMA StyleStep ==
  ASSUME StyleInv, [StyleNext]_styleVars
  PROVE  StyleInv'
  <1>0. /\ regions \in RegionList /\ mapReady \in BOOLEAN
        /\ ~mapReady => map = NewMap(regions)
        /\ mapReady => map = Styled(regions, activeLayers, mapType) /\ (mapType = NoType \/ Shows(regions, mapType))
    BY DEF StyleInv
  <1>1. CASE StyleLoads
    <2>1. map = NewMap(regions) /\ mapReady' = TRUE /\ regions' = regions /\ activeLayers' = activeLayers
          /\ mapType' = typeApplied(regions, mapType)
          /\ map' = applyLayers(setMapType(map, regions, mapType), activeLayers)
      BY <1>0, <1>1 DEF StyleLoads
    <2> DEFINE t == typeApplied(regions, mapType)
               m == NewMap(regions)
    <2>2. IsPlain(m)
      BY <1>0, StyledIsUndone
    <2>3. t = NoType \/ Shows(regions, t)
      BY DEF typeApplied
    <2>4. map' = IF Shows(regions, mapType) THEN applyLayers(Typed(m, regions, mapType), activeLayers)
                 ELSE applyLayers(m, activeLayers)
      BY <2>1, <2>2, PlainIsUndone DEF setMapType
    <2>5. Shows(regions, mapType) => mapType \in DOMAIN MapTypes
      BY DEF Shows
    <2> HIDE DEF m
    <2>6. map' = IF Shows(regions, mapType) THEN Typed(applyLayers(m, activeLayers), regions, mapType)
                 ELSE applyLayers(m, activeLayers)
      BY <1>0, <2>2, <2>4, <2>5, TypedIsApplied
    <2>7. map' = Styled(regions, activeLayers, t)
      <3>1. ~Shows(regions, NoType)
        BY DEF Shows
      <3>2. t = IF Shows(regions, mapType) THEN mapType ELSE NoType
        BY DEF typeApplied
      <3> HIDE DEF t
      <3> QED  BY <2>6, <3>1, <3>2 DEF Styled, m
    <2> HIDE DEF t
    <2>8. Styled(regions, activeLayers, t) = Styled(regions', activeLayers', t)
      BY <2>1
    <2> QED  BY <1>0, <2>1, <2>3, <2>7, <2>8 DEF StyleInv, t
  <1>2. ASSUME NEW t, ChooseType(t) PROVE StyleInv'
    <2>1. mapReady' = mapReady /\ regions' = regions /\ activeLayers' = activeLayers
      BY <1>2 DEF ChooseType
    <2>2. CASE mapReady
      <3>1. mapType' = typeApplied(regions, t) /\ map' = setMapType(map, regions, t)
        BY <1>2, <2>2 DEF ChooseType
      <3>2. Undone(map) = applyLayers(NewMap(regions), activeLayers)
        BY <1>0, <2>2, StyledIsUndone
      <3>3. /\ map' = Styled(regions, activeLayers, typeApplied(regions, t))
            /\ typeApplied(regions, t) = NoType \/ Shows(regions, typeApplied(regions, t))
        BY <1>0, <3>1, <3>2, TypeIsSet
      <3> QED  BY <1>0, <2>1, <2>2, <3>1, <3>3 DEF StyleInv
    <2>3. CASE ~mapReady
      <3>1. map' = map
        BY <1>2, <2>3 DEF ChooseType
      <3> QED  BY <1>0, <2>1, <2>3, <3>1 DEF StyleInv
    <2> QED  BY <2>2, <2>3
  <1>3. ASSUME NEW d, SwitchLayer(d) PROVE StyleInv'
    <2>1. /\ mapReady' = mapReady /\ regions' = regions /\ mapType' = mapType
          /\ map' = IF mapReady THEN applyLayers(map, activeLayers') ELSE map
      BY <1>3 DEF SwitchLayer
    <2>2. CASE mapReady
      <3>1. map' = Styled(regions, activeLayers', mapType)
        BY <1>0, <2>1, <2>2, StyledIsApplied
      <3> QED  BY <1>0, <2>1, <2>2, <3>1 DEF StyleInv
    <2>3. CASE ~mapReady
      BY <1>0, <2>1, <2>3 DEF StyleInv
    <2> QED  BY <2>2, <2>3
  <1>4. ASSUME NEW list \in RegionList, Reload(list) PROVE StyleInv'
    BY <1>4 DEF Reload, Opened, StyleInv, NewMap
  <1>5. CASE UNCHANGED styleVars
    BY <1>0, <1>5 DEF styleVars, StyleInv
  <1> QED  BY <1>1, <1>2, <1>3, <1>4, <1>5 DEF StyleNext

(* Whatever is switched and chosen, in any order and over any reloads, the map is the one that  *)
(* the switches give to a new map (setMapType, setOverlay, TrafficLayer.setVisible).             *)
THEOREM StyleIsOfItsSwitches == StyleSpec => []StyleInv
  <1>1. StyleInit => StyleInv
    BY DEF StyleInit, StyleInv, NewMap
  <1>2. StyleInv /\ [StyleNext]_styleVars => StyleInv'
    BY StyleStep
  <1> QED  BY <1>1, <1>2, PTL DEF StyleSpec

-----------------------------------------------------------------------------
(* What the switches show: the map of the switches under the layers of the type. *)
ShownRegions(list, t) == IF t = NoType THEN <<>> ELSE regionsDrawn(list, TypeOf(t))
Under(layers, spec, drawn) ==
  Selected(layers, {i \in DOMAIN layers : IdOf(layers[i]) \notin TypeIds(spec, drawn)})
SameData(k, l) == k.of = l.of /\ k.name = l.name /\ k.source = l.source

IsShown(M, m, spec, drawn, t) ==
  /\ Under(M.layers, spec, drawn) = Restyled(spec, t, m.layers)
  /\ TypeIds(spec, drawn) \subseteq {IdOf(l) : l \in Items(M.layers)}
  /\ M.sources = m.sources \union TypeSources(spec, drawn)
  /\ \A p \in DOMAIN M.layers : \/ \E i \in DOMAIN m.layers : SameData(M.layers[p], m.layers[i])
                                \/ M.layers[p].source \in TypeSources(spec, drawn)

(* Without a type the map is the one of the switches. *)
LEMMA NothingIsShownOnTop ==
  ASSUME NEW m, IsPlain(m), NEW spec, spec = TypeOf(NoType)
  PROVE  IsShown(m, m, spec, <<>>, NoType)
  <1>1. TypeIds(spec, <<>>) = {} /\ TypeSources(spec, <<>>) = {}
    BY DEF TypeIds, TypeSources, Items
  <1>2. spec.hide = {} /\ spec.paint = {}
    BY DEF TypeOf
  <1>3. PICK n \in Nat : DOMAIN m.layers = 1..n
    BY DEF IsPlain
  <1>4. m.layers = [i \in 1..n |-> m.layers[i]] /\ \A i \in 1..n : IsLayer(m.layers[i])
    BY <1>3 DEF IsPlain
  <1>5. Restyled(spec, NoType, m.layers) = m.layers
    <2>1. ASSUME NEW i \in 1..n PROVE Changed(spec, NoType, m.layers[i]) = m.layers[i]
      <3> DEFINE l == m.layers[i]
                 c == Changed(spec, NoType, l)
      <3>1. IsLayer(l)
        BY <1>4
      <3>2. ~Hides(spec, l) /\ ~Restyles(spec, l)
        BY <1>2 DEF Hides, Restyles
      <3> HIDE DEF l
      <3>3. /\ IsLayer(c) /\ IdOf(c) = IdOf(l) /\ c.of = l.of /\ c.name = l.name
            /\ c.source = l.source /\ c.maxzoom = l.maxzoom
            /\ c.hidden = (l.hidden \/ Hides(spec, l))
            /\ c.paint = IF Restyles(spec, l) THEN NoType ELSE l.paint
        BY <3>1, ChangedLayer
      <3>4. l.hidden \in BOOLEAN
        BY <3>1 DEF IsLayer
      <3> HIDE DEF c
      <3>5. c.hidden = l.hidden /\ c.paint = l.paint
        BY <3>2, <3>3, <3>4
      <3>6. c = l
        BY <3>1, <3>3, <3>5, SameLayer
      <3> QED  BY <3>6 DEF c, l
    <2> QED  BY <1>3, <1>4, <2>1 DEF Restyled
  <1>6. Selected(m.layers, 1..n) = m.layers
    <2> DEFINE f == [i \in 1..n |-> i]
               L == m.layers
    <2>1. f \in [1..n -> 1..n] /\ \A i \in 1..n : f[i] = i
      OBVIOUS
    <2> HIDE DEF f, L
    <2>2. L = [i \in 1..n |-> L[f[i]]]
      BY <1>4, <2>1 DEF L
    <2>3. Picks(L, L, f, n, 1..n)
      BY <2>1, <2>2 DEF Picks
    <2>4. Selected(L, 1..n) = L
      BY <2>3, Selection
    <2> QED  BY <2>4 DEF L
  <1>7. Under(m.layers, spec, <<>>) = m.layers
    <2>1. {i \in DOMAIN m.layers : IdOf(m.layers[i]) \notin {}} = 1..n
      BY <1>3
    <2> QED  BY <1>1, <1>6, <2>1 DEF Under
  <1>8. \A p \in DOMAIN m.layers : \E i \in DOMAIN m.layers : SameData(m.layers[p], m.layers[i])
    BY DEF SameData
  <1>9. m.sources = m.sources \union {}
    OBVIOUS
  <1> QED  BY <1>1, <1>5, <1>7, <1>8, <1>9 DEF IsShown

(* With a type, its layers are told from the map under them. *)
LEMMA TypeIsShownOnTop ==
  ASSUME NEW m, IsPlain(m), NEW list \in RegionList, NEW t \in DOMAIN MapTypes
  PROVE  IsShown(Typed(m, list, t), m, MapTypes[t], regionsDrawn(list, MapTypes[t]), t)
  <1> DEFINE spec == MapTypes[t]
             drawn == regionsDrawn(list, spec)
             S == Stacked(m.layers, spec, drawn)
             M == Typed(m, list, t)
  <1>1. M.layers = Restyled(spec, t, S) /\ M.sources = m.sources \union TypeSources(spec, drawn)
    BY TypedMap
  <1>2. PICK g, h, N : OnMap(m, spec, drawn, S, g, h, N)
    BY TypeIsStacked, Zenon DEF OnMap
  <1> HIDE DEF spec, drawn, S, M
  <1>3. /\ Under(M.layers, spec, drawn) = Restyled(spec, t, m.layers)
        /\ TypeIds(spec, drawn) \subseteq {IdOf(l) : l \in Items(M.layers)}
    BY <1>1, <1>2, MapUnderType DEF Under
  <1>4. StackLayers(m, spec, drawn, S, g, h, N)
    BY <1>2, StackHasLayers
  <1>5. IsStack(S, m.layers, spec, drawn, g, h, N)
    BY <1>2 DEF OnMap
  <1>6. DOMAIN S = 1..N /\ \A p \in 1..N : (\E i \in DOMAIN m.layers : g[i] = p)
                                 \/ \E a \in (DOMAIN spec.layers) \X DOMAIN drawn : h[a] = p
    BY <1>5, Zenon DEF IsStack
  <1>7. DOMAIN M.layers = 1..N /\ \A p \in 1..N : SameData(M.layers[p], S[p])
    BY <1>1, <1>4, <1>6, ChangedLayer DEF Restyled, StackLayers, SameData
  <1>8. ASSUME NEW p \in 1..N
        PROVE  \/ \E i \in DOMAIN m.layers : SameData(M.layers[p], m.layers[i])
               \/ M.layers[p].source \in TypeSources(spec, drawn)
    <2>1. CASE \E i \in DOMAIN m.layers : g[i] = p
      BY <1>4, <1>7, <2>1 DEF StackLayers
    <2>2. ASSUME NEW a \in (DOMAIN spec.layers) \X DOMAIN drawn, h[a] = p
          PROVE  M.layers[p].source \in TypeSources(spec, drawn)
      <3>1. S[h[a]].source = <<drawn[a[2]].id, spec.asset>>
        BY <1>4 DEF StackLayers
      <3>2. M.layers[p].source = S[p].source
        BY <1>7 DEF SameData
      <3>3. drawn[a[2]] \in Items(drawn)
        BY DEF Items
      <3> QED  BY <2>2, <3>1, <3>2, <3>3 DEF TypeSources
    <2> QED  BY <1>6, <2>1, <2>2
  <1>9. IsShown(M, m, spec, drawn, t)
    BY <1>1, <1>3, <1>7, <1>8, Zenon DEF IsShown
  <1> QED  BY <1>9 DEF M, spec, drawn

LEMMA SwitchesAreShown ==
  ASSUME NEW list \in RegionList, NEW on, NEW t, t = NoType \/ Shows(list, t)
  PROVE  IsShown(Styled(list, on, t), applyLayers(NewMap(list), on), TypeOf(t), ShownRegions(list, t), t)
  <1> DEFINE m == applyLayers(NewMap(list), on)
  <1>1. IsPlain(m)
    BY StyledIsUndone
  <1>2. Styled(list, on, t) = IF Shows(list, t) THEN Typed(m, list, t) ELSE m
    BY DEF Styled
  <1>3. CASE t = NoType
    <2>1. ~Shows(list, t)
      BY <1>3 DEF Shows
    <2> HIDE DEF m
    <2>2. IsShown(m, m, TypeOf(NoType), <<>>, NoType)
      BY <1>1, NothingIsShownOnTop
    <2> QED  BY <1>2, <1>3, <2>1, <2>2 DEF ShownRegions, m
  <1>4. CASE t # NoType
    <2>1. Shows(list, t) /\ t \in DOMAIN MapTypes /\ TypeOf(t) = MapTypes[t]
          /\ ShownRegions(list, t) = regionsDrawn(list, MapTypes[t])
      BY <1>4 DEF Shows, TypeOf, ShownRegions
    <2> HIDE DEF m
    <2>2. IsShown(Typed(m, list, t), m, MapTypes[t], regionsDrawn(list, MapTypes[t]), t)
      BY <1>1, <2>1, TypeIsShownOnTop
    <2> QED  BY <1>2, <2>1, <2>2 DEF m
  <1> QED  BY <1>3, <1>4

LEMMA BaseOfLayer ==
  ASSUME NEW l, IsLayer(l)
  PROVE  Base(l) = [of |-> l.of, name |-> l.name, hidden |-> FALSE, paint |-> Plain,
                    source |-> l.source, maxzoom |-> l.maxzoom]
  <1> DEFINE h == FALSE
             p == Plain
             c == Base(l)
  <1>1. c = [l EXCEPT !.hidden = h, !.paint = p]
    BY DEF Base
  <1> HIDE DEF h, p, c
  <1>2. c = [of |-> l.of, name |-> l.name, hidden |-> h, paint |-> p, source |-> l.source, maxzoom |-> l.maxzoom]
    BY <1>1 DEF IsLayer
  <1> QED  BY <1>2 DEF h, p, c

(* A layer of a new map under the switches and a type. *)
LEMMA LayerOfTheSwitches ==
  ASSUME NEW k, IsLayer(k), NEW spec, NEW t, NEW on, k.paint = Plain,
         k.hidden => k.of # App /\ SwitchOf(k.name) # {}, k.of = App => SwitchOf(k.name) = {}
  PROVE  LET l == Changed(spec, t, Lit(k, on)) IN
         /\ Base(l) = Base(k) /\ l.of = k.of /\ l.name = k.name /\ l.source = k.source
         /\ l.hidden <=> (SwitchOf(l.name) # {} /\ SwitchOf(l.name) \cap on = {})
                           \/ (l.of # App /\ l.name \in spec.hide)
         /\ l.paint = IF l.of # App /\ l.name \in spec.paint THEN t ELSE Plain
  <1> DEFINE i == Lit(k, on)
             l == Changed(spec, t, i)
  <1>1. /\ IsLayer(i) /\ i.of = k.of /\ i.name = k.name /\ i.paint = k.paint
        /\ i.source = k.source /\ i.maxzoom = k.maxzoom
        /\ i.hidden = IF k.of # App /\ SwitchOf(k.name) # {} THEN SwitchOf(k.name) \cap on = {} ELSE k.hidden
    BY LitLayer
  <1> HIDE DEF i
  <1>2. /\ IsLayer(l) /\ l.of = i.of /\ l.name = i.name /\ l.source = i.source /\ l.maxzoom = i.maxzoom
        /\ l.hidden = (i.hidden \/ Hides(spec, i)) /\ l.paint = IF Restyles(spec, i) THEN t ELSE i.paint
    BY <1>1, ChangedLayer
  <1> HIDE DEF l
  <1>3. Base(l) = Base(k)
    <2>1. l.of = k.of /\ l.name = k.name /\ l.source = k.source /\ l.maxzoom = k.maxzoom
      BY <1>1, <1>2
    <2>2. /\ Base(l) = [of |-> l.of, name |-> l.name, hidden |-> FALSE, paint |-> Plain,
                        source |-> l.source, maxzoom |-> l.maxzoom]
          /\ Base(k) = [of |-> k.of, name |-> k.name, hidden |-> FALSE, paint |-> Plain,
                        source |-> k.source, maxzoom |-> k.maxzoom]
      BY <1>2, BaseOfLayer
    <2> QED  BY <2>1, <2>2
  <1>4. l.paint = IF l.of # App /\ l.name \in spec.paint THEN t ELSE Plain
    BY <1>1, <1>2 DEF Restyles
  <1>5. l.hidden <=> i.hidden \/ (l.of # App /\ l.name \in spec.hide)
    <2>1. Hides(spec, i) = (l.of # App /\ l.name \in spec.hide)
      BY <1>2 DEF Hides
    <2> QED  BY <1>2, <2>1
  <1>6. i.hidden <=> SwitchOf(l.name) # {} /\ SwitchOf(l.name) \cap on = {}
    <2>1. k.hidden \in BOOLEAN /\ l.name = k.name
      BY <1>1, <1>2 DEF IsLayer
    <2>2. CASE k.of # App /\ SwitchOf(k.name) # {}
      BY <1>1, <2>1, <2>2
    <2>3. CASE ~(k.of # App /\ SwitchOf(k.name) # {})
      BY <1>1, <2>1, <2>3
    <2> QED  BY <2>2, <2>3
  <1>7. l.of = k.of /\ l.name = k.name /\ l.source = k.source
    BY <1>1, <1>2
  <1> QED  BY <1>3, <1>4, <1>5, <1>6, <1>7 DEF l, i

(* The first part of StyleIsWhole. *)
LEMMA MapIsOfTheSwitches ==
  ASSUME StyleInv
  PROVE  StyleIsOfTheSwitches
  <1> SUFFICES ASSUME mapReady PROVE StyleIsOfTheSwitches
    BY DEF StyleIsOfTheSwitches
  <1> DEFINE spec == TypeOf(mapType)
             drawn == ShownRegions(regions, mapType)
             plain == NewMap(regions)
             m == applyLayers(plain, activeLayers)
             base == Under(map.layers, spec, drawn)
             off(l) == SwitchOf(l.name) # {} /\ SwitchOf(l.name) \cap activeLayers = {}
  <1>1. /\ regions \in RegionList /\ map = Styled(regions, activeLayers, mapType)
        /\ mapType = NoType \/ Shows(regions, mapType)
    BY DEF StyleInv
  <1>2. IsShown(map, m, spec, drawn, mapType)
    BY <1>1, SwitchesAreShown
  <1>3. IsPlain(plain) /\ InStack(plain.layers, regions) /\ IsAsBuilt(plain)
    BY <1>1, NewMapIsPlain DEF NewMap
  <1>4. /\ m.sources = plain.sources /\ DOMAIN m.layers = DOMAIN plain.layers
        /\ \A i \in DOMAIN plain.layers : m.layers[i] = Lit(plain.layers[i], activeLayers)
    <2> HIDE DEF plain
    <2>1. m.sources = plain.sources /\ m.layers = [i \in DOMAIN plain.layers |-> Lit(plain.layers[i], activeLayers)]
      BY <1>3, AppliedIsPlain
    <2> HIDE DEF m
    <2> QED  BY <2>1
  <1> HIDE DEF plain, m, base, spec, drawn
  <1>5. base = Restyled(spec, mapType, m.layers)
    BY <1>2 DEF IsShown, base
  <1>6. DOMAIN base = DOMAIN plain.layers
        /\ \A i \in DOMAIN plain.layers : base[i] = Changed(spec, mapType, Lit(plain.layers[i], activeLayers))
    BY <1>4, <1>5 DEF Restyled
  <1>7. \A i \in DOMAIN plain.layers : LET k == plain.layers[i] IN
          /\ IsLayer(k) /\ k.paint = Plain /\ (k.hidden => k.of # App /\ SwitchOf(k.name) # {})
          /\ k.of = App => SwitchOf(k.name) = {}
          /\ k.of # App => k.source \in plain.sources
    <2> SUFFICES ASSUME NEW i \in DOMAIN plain.layers
                 PROVE  LET k == plain.layers[i] IN
                        /\ IsLayer(k) /\ k.paint = Plain /\ (k.hidden => k.of # App /\ SwitchOf(k.name) # {})
                        /\ k.of = App => SwitchOf(k.name) = {}
                        /\ k.of # App => k.source \in plain.sources
      OBVIOUS
    <2> DEFINE k == plain.layers[i]
    <2>1. IsLayer(k) /\ InTemplate(k.name)
      BY <1>3 DEF IsPlain
    <2>2. k.of = App => Template[PositionIn(k.name)].source = "none"
      BY <1>3 DEF InStack
    <2>3. PositionIn(k.name) \in DOMAIN Template /\ Template[PositionIn(k.name)].id = k.name
      BY <2>1, InTemplateHasPosition
    <2>4. k.of = App => SwitchOf(k.name) = {}
      BY <2>2, <2>3, TemplateAssumption
    <2>5. /\ k.paint = Plain /\ (k.hidden => k.of # App /\ SwitchOf(k.name) # {})
          /\ k.of # App => k.source \in plain.sources
      BY <1>3 DEF IsAsBuilt
    <2> QED  BY <2>1, <2>4, <2>5
  <1>8. ASSUME NEW i \in DOMAIN plain.layers
        PROVE  /\ Base(base[i]) = Base(plain.layers[i])
               /\ base[i].hidden <=> off(base[i]) \/ (base[i].of # App /\ base[i].name \in spec.hide)
               /\ base[i].paint = IF base[i].of # App /\ base[i].name \in spec.paint THEN mapType ELSE Plain
    <2> DEFINE k == plain.layers[i]
    <2>1. /\ IsLayer(k) /\ k.paint = Plain /\ (k.hidden => k.of # App /\ SwitchOf(k.name) # {})
          /\ k.of = App => SwitchOf(k.name) = {}
      BY <1>7
    <2>2. base[i] = Changed(spec, mapType, Lit(k, activeLayers))
      BY <1>6
    <2> HIDE DEF k
    <2> DEFINE l == Changed(spec, mapType, Lit(k, activeLayers))
    <2>3. /\ Base(l) = Base(k)
          /\ l.hidden <=> off(l) \/ (l.of # App /\ l.name \in spec.hide)
          /\ l.paint = IF l.of # App /\ l.name \in spec.paint THEN mapType ELSE Plain
      BY <2>1, LayerOfTheSwitches
    <2> HIDE DEF l, off
    <2> QED  BY <2>2, <2>3 DEF l, k
  <1>9. [i \in DOMAIN base |-> Base(base[i])] = [i \in DOMAIN plain.layers |-> Base(plain.layers[i])]
    BY <1>6, <1>8
  <1>10. \A l \in Items(base) :
           /\ l.hidden <=> off(l) \/ (l.of # App /\ l.name \in spec.hide)
           /\ l.paint = IF l.of # App /\ l.name \in spec.paint THEN mapType ELSE Plain
    BY <1>6, <1>8 DEF Items
  <1>11. /\ TypeIds(spec, drawn) \subseteq {IdOf(l) : l \in Items(map.layers)}
         /\ map.sources = plain.sources \union TypeSources(spec, drawn)
    BY <1>2, <1>4 DEF IsShown
  <1>12. ASSUME NEW l \in Items(map.layers), l.of # App PROVE l.source \in map.sources
    <2>1. PICK p \in DOMAIN map.layers : map.layers[p] = l
      BY DEF Items
    <2>2. \/ \E i \in DOMAIN m.layers : SameData(l, m.layers[i])
          \/ l.source \in TypeSources(spec, drawn)
      BY <1>2, <2>1 DEF IsShown
    <2>3. ASSUME NEW i \in DOMAIN m.layers, SameData(l, m.layers[i]) PROVE l.source \in plain.sources
      <3> DEFINE k == plain.layers[i]
      <3>1. IsLayer(k) /\ (k.of # App => k.source \in plain.sources)
        BY <1>4, <1>7
      <3>2. m.layers[i] = Lit(k, activeLayers)
        BY <1>4
      <3> HIDE DEF k
      <3>3. m.layers[i].of = k.of /\ m.layers[i].source = k.source
        BY <3>1, <3>2, LitLayer
      <3> QED  BY <1>12, <2>3, <3>1, <3>3 DEF SameData
    <2> QED  BY <1>11, <2>2, <2>3
  <1> QED  BY <1>9, <1>10, <1>11, <1>12, Zenon
           DEF StyleIsOfTheSwitches, base, Under, spec, drawn, ShownRegions, plain, NewMap

-----------------------------------------------------------------------------
(* The order of the layers, two at a time. *)
Rank(l) == IF InTemplate(l.name) THEN PositionIn(l.name) ELSE 0
BoxOf(list, id) == (CHOOSE r \in Items(list) : r.id = id).bbox
BeforeOf(spec, name) == (CHOOSE l \in Items(spec.layers) : l.id = name).before
InOrderThere(k, l, list, spec) ==
  /\ Rank(k) # 0 /\ Rank(l) # 0 => Rank(k) <= Rank(l)
  /\ Rank(k) = 0 /\ Rank(l) # 0 => Rank(l) >= PositionIn(BeforeOf(spec, k.name))
  /\ Rank(k) # 0 /\ Rank(l) = 0 => Rank(k) < PositionIn(BeforeOf(spec, l.name))
  /\ k.name = l.name /\ WorldId \notin {k.of, l.of} => area(BoxOf(list, k.of)) >= area(BoxOf(list, l.of))

LEMMA RegionHasBox ==
  ASSUME NEW list \in RegionList, NEW r \in Items(list)
  PROVE  BoxOf(list, r.id) = r.bbox
  <1>1. \A q \in Items(list) : q.id = r.id => q = r
    BY RegionListAssumption DEF Items
  <1> QED  BY <1>1 DEF BoxOf

LEMMA LayerHasBefore ==
  ASSUME NEW spec, IsType(spec), NEW k \in DOMAIN spec.layers
  PROVE  BeforeOf(spec, spec.layers[k].id) = spec.layers[k].before
  <1>1. spec.layers[k] \in Items(spec.layers)
    BY DEF Items
  <1>2. \A l \in Items(spec.layers) : l.id = spec.layers[k].id => l = spec.layers[k]
    BY TypesAreOfTheTemplate DEF Items
  <1> QED  BY <1>1, <1>2 DEF BeforeOf

(* The layers of a plain map are in order. *)
LEMMA PlainIsInOrder ==
  ASSUME NEW m, IsPlain(m), NEW list \in RegionList, InStack(m.layers, list), NEW spec,
         NEW i \in DOMAIN m.layers, NEW j \in DOMAIN m.layers, i < j
  PROVE  InOrderThere(m.layers[i], m.layers[j], list, spec)
  <1> DEFINE k == m.layers[i]
             l == m.layers[j]
  <1>1. InTemplate(k.name) /\ InTemplate(l.name)
    BY DEF IsPlain
  <1>2. Rank(k) = PositionIn(k.name) /\ Rank(l) = PositionIn(l.name) /\ Rank(k) # 0 /\ Rank(l) # 0
    BY <1>1, InTemplateHasPosition DEF Rank
  <1>3. PositionIn(k.name) <= PositionIn(l.name)
    BY DEF InStack
  <1>4. ASSUME k.name = l.name, WorldId \notin {k.of, l.of}
        PROVE  area(BoxOf(list, k.of)) >= area(BoxOf(list, l.of))
    <2>1. PICK r \in Items(list), q \in Items(list) : r.id = k.of /\ q.id = l.of /\ area(r.bbox) >= area(q.bbox)
      BY <1>4 DEF InStack
    <2>2. BoxOf(list, r.id) = r.bbox /\ BoxOf(list, q.id) = q.bbox
      BY RegionHasBox
    <2> QED  BY <2>1, <2>2
  <1> HIDE DEF k, l
  <1>5. InOrderThere(k, l, list, spec)
    BY <1>2, <1>3, <1>4 DEF InOrderThere
  <1> QED  BY <1>5 DEF k, l

LEMMA AppliedIsInStack ==
  ASSUME NEW m, IsPlain(m), NEW list, InStack(m.layers, list), NEW on
  PROVE  InStack(applyLayers(m, on).layers, list)
  <1> DEFINE K == applyLayers(m, on).layers
             L == m.layers
  <1>0. K = [i \in DOMAIN L |-> Lit(L[i], on)]
    BY AppliedIsPlain
  <1>1. DOMAIN K = DOMAIN L /\ \A i \in DOMAIN L : K[i] = Lit(L[i], on)
    <2> HIDE DEF K, L
    <2> QED  BY <1>0
  <1>2. \A i \in DOMAIN L : IsLayer(L[i])
    BY DEF IsPlain
  <1> HIDE DEF K, L
  <1>3. \A i \in DOMAIN L : K[i].of = L[i].of /\ K[i].name = L[i].name
    BY <1>1, <1>2, LitLayer
  <1>4. InStack(L, list)
    BY DEF L
  <1>5. InStack(K, list)
    <2>1. \A i, j \in DOMAIN K : i < j => PositionIn(K[i].name) <= PositionIn(K[j].name)
      BY <1>1, <1>3, <1>4 DEF InStack
    <2>2. \A i \in DOMAIN K : IF K[i].of = App THEN Template[PositionIn(K[i].name)].source = "none"
                              ELSE \E r \in Items(list) : r.id = K[i].of
      BY <1>1, <1>3, <1>4 DEF InStack
    <2>3. ASSUME NEW i \in DOMAIN K, NEW j \in DOMAIN K, i < j, K[i].name = K[j].name, WorldId \notin {K[i].of, K[j].of}
          PROVE  \E r, q \in Items(list) : r.id = K[i].of /\ q.id = K[j].of /\ area(r.bbox) >= area(q.bbox)
      BY <1>1, <1>3, <1>4, <2>3 DEF InStack
    <2> QED  BY <2>1, <2>2, <2>3 DEF InStack
  <1> QED  BY <1>5 DEF K

(* A layer of the type against one of the map, on both sides, and two of the type. *)
LEMMA TypeOverMap ==
  ASSUME NEW m, NEW spec, NEW drawn, NEW S, NEW g, NEW h, NEW N, OnMap(m, spec, drawn, S, g, h, N),
         NEW list \in RegionList, InStack(m.layers, list),
         NEW i \in DOMAIN m.layers, NEW a \in (DOMAIN spec.layers) \X DOMAIN drawn
  PROVE  /\ g[i] < h[a] => InOrderThere(S[g[i]], S[h[a]], list, spec)
         /\ h[a] < g[i] => InOrderThere(S[h[a]], S[g[i]], list, spec)
  <1> DEFINE L == m.layers
             b == spec.layers[a[1]].before
             p == firstLayerFrom(L, b)
             k == S[g[i]]
             l == S[h[a]]
  <1>0. /\ IsPlain(m) /\ IsType(spec) /\ IsStack(S, m.layers, spec, drawn, g, h, N)
        /\ StackLayers(m, spec, drawn, S, g, h, N)
    BY StackHasLayers DEF OnMap
  <1>1. PICK n \in Nat : DOMAIN L = 1..n
    BY <1>0 DEF IsPlain
  <1>2. L = [q \in 1..n |-> L[q]]
    BY <1>0, <1>1 DEF IsPlain
  <1>3. /\ k = L[i] /\ InTemplate(k.name) /\ g[i] \in 1..N /\ h[a] \in 1..N /\ N \in Nat
        /\ l.name = spec.layers[a[1]].id /\ ~InTemplate(l.name)
    BY <1>0 DEF StackLayers, IsStack
  <1>4. Rank(k) = PositionIn(k.name) /\ Rank(k) \in Nat \ {0} /\ Rank(l) = 0 /\ k.name # l.name
    BY <1>3, InTemplateHasPosition DEF Rank
  <1>5. BeforeOf(spec, l.name) = b
    BY <1>0, <1>3, LayerHasBefore
  <1>6. IF i < p THEN g[i] < h[a] ELSE h[a] < g[i]
    BY <1>0 DEF IsStack
  <1>7. /\ InTemplate(b) /\ \A q \in DOMAIN Template : Template[q].source = "none" => q < PositionIn(b)
    BY <1>0, TypesAreOfTheTemplate
  <1>8. PositionIn(b) \in Nat /\ Template[PositionIn(k.name)].id = k.name /\ PositionIn(k.name) \in DOMAIN Template
    BY <1>3, <1>7, InTemplateHasPosition
  <1> HIDE DEF b
  <1>9. p \in 1..n + 1 /\ (p \in 1..n => From(b, L[p])) /\ \A q \in 1..n : q < p => ~From(b, L[q])
    BY <1>1, <1>2, FirstOfLater
  <1> HIDE DEF p
  <1>10. ASSUME i < p PROVE Rank(k) < PositionIn(b)
    <2>1. ~From(b, k)
      BY <1>1, <1>3, <1>9, <1>10
    <2>2. CASE k.of = App
      <3>1. Template[PositionIn(k.name)].source = "none"
        BY <1>3, <2>2 DEF InStack
      <3> QED  BY <1>4, <1>7, <1>8, <3>1
    <2>3. CASE k.of # App
      <3>1. ~(PositionIn(k.name) >= PositionIn(b))
        BY <1>3, <2>1, <2>3 DEF From
      <3> QED  BY <1>4, <1>8, <3>1
    <2> QED  BY <2>2, <2>3
  <1>11. ASSUME ~(i < p) PROVE Rank(k) >= PositionIn(b)
    <2>1. p \in 1..n /\ (p < i \/ p = i)
      BY <1>1, <1>9, <1>11
    <2>2. InTemplate(L[p].name) /\ PositionIn(L[p].name) >= PositionIn(b)
      BY <1>9, <2>1 DEF From
    <2>3. PositionIn(L[p].name) <= PositionIn(L[i].name)
      <3>1. CASE p = i
        BY <1>3, <1>4, <3>1
      <3>2. CASE p < i
        BY <1>1, <2>1, <3>2 DEF InStack
      <3> QED  BY <2>1, <3>1, <3>2
    <2>4. PositionIn(L[p].name) \in Nat
      BY <2>2, InTemplateHasPosition
    <2> QED  BY <1>3, <1>4, <1>8, <2>2, <2>3, <2>4
  <1> HIDE DEF k, l
  <1>12. g[i] < h[a] => InOrderThere(k, l, list, spec)
    <2> SUFFICES ASSUME g[i] < h[a] PROVE InOrderThere(k, l, list, spec)
      OBVIOUS
    <2>1. Rank(k) < PositionIn(BeforeOf(spec, l.name))
      BY <1>3, <1>5, <1>6, <1>10
    <2> QED  BY <1>4, <2>1 DEF InOrderThere
  <1>13. h[a] < g[i] => InOrderThere(l, k, list, spec)
    <2> SUFFICES ASSUME h[a] < g[i] PROVE InOrderThere(l, k, list, spec)
      OBVIOUS
    <2>1. Rank(k) >= PositionIn(BeforeOf(spec, l.name))
      BY <1>3, <1>5, <1>6, <1>11
    <2> QED  BY <1>4, <2>1 DEF InOrderThere
  <1> QED  BY <1>12, <1>13 DEF k, l

LEMMA TypeOverType ==
  ASSUME NEW m, NEW spec, NEW drawn, NEW S, NEW g, NEW h, NEW N, OnMap(m, spec, drawn, S, g, h, N),
         NEW list \in RegionList, Descending(drawn), Items(drawn) \subseteq Items(list),
         NEW a \in (DOMAIN spec.layers) \X DOMAIN drawn, NEW b \in (DOMAIN spec.layers) \X DOMAIN drawn,
         h[a] < h[b]
  PROVE  InOrderThere(S[h[a]], S[h[b]], list, spec)
  <1> DEFINE k == S[h[a]]
             l == S[h[b]]
             r == drawn[a[2]]
             q == drawn[b[2]]
  <1>0. /\ IsType(spec) /\ Regions(drawn) /\ IsStack(S, m.layers, spec, drawn, g, h, N)
        /\ StackLayers(m, spec, drawn, S, g, h, N)
    BY StackHasLayers DEF OnMap
  <1>1. /\ k.name = spec.layers[a[1]].id /\ ~InTemplate(k.name) /\ k.of = r.id /\ h[a] \in 1..N
        /\ l.name = spec.layers[b[1]].id /\ ~InTemplate(l.name) /\ l.of = q.id /\ h[b] \in 1..N
    BY <1>0 DEF StackLayers
  <1>2. Rank(k) = 0 /\ Rank(l) = 0
    BY <1>1 DEF Rank
  <1>3. ASSUME k.name = l.name PROVE area(BoxOf(list, k.of)) >= area(BoxOf(list, l.of))
    <2>1. a[1] = b[1]
      <3>1. a[1] \in DOMAIN spec.layers /\ b[1] \in DOMAIN spec.layers
        OBVIOUS
      <3>2. spec.layers[a[1]].id = spec.layers[b[1]].id
        BY <1>1, <1>3
      <3>3. IsType(spec)
        BY <1>0
      <3> HIDE DEF k, l, r, q
      <3> QED  BY <3>1, <3>2, <3>3, TypesAreOfTheTemplate
    <2>2. PICK n \in Nat : DOMAIN drawn = 1..n
      BY <1>0 DEF Regions
    <2>3. a[2] \in 1..n /\ b[2] \in 1..n
      BY <2>2
    <2>4. a[2] # b[2]
      <3>1. a = <<a[1], a[2]>> /\ b = <<b[1], b[2]>>
        OBVIOUS
      <3>2. a[2] = b[2] => a = b
        BY <2>1, <3>1
      <3> QED  BY <1>1, <3>2
    <2>5. ~(b[2] < a[2])
      <3>1. b[2] < a[2] => h[b] < h[a]
        BY <1>0, <2>1 DEF IsStack
      <3> QED  BY <1>1, <3>1
    <2>6. a[2] < b[2]
      BY <2>3, <2>4, <2>5
    <2>7. area(r.bbox) >= area(q.bbox)
      BY <2>2, <2>3, <2>6 DEF Descending
    <2>8. r \in Items(list) /\ q \in Items(list)
      BY <2>2, <2>3 DEF Items
    <2>9. BoxOf(list, r.id) = r.bbox /\ BoxOf(list, q.id) = q.bbox
      BY <2>8, RegionHasBox
    <2> QED  BY <1>1, <2>7, <2>9
  <1> HIDE DEF k, l
  <1>4. InOrderThere(k, l, list, spec)
    BY <1>2, <1>3 DEF InOrderThere
  <1> QED  BY <1>4 DEF k, l

(* And so are those of a stack. *)
LEMMA StackedIsInOrder ==
  ASSUME NEW m, NEW spec, NEW drawn, NEW S, NEW g, NEW h, NEW N, OnMap(m, spec, drawn, S, g, h, N),
         NEW list \in RegionList, InStack(m.layers, list),
         Descending(drawn), Items(drawn) \subseteq Items(list),
         NEW p \in 1..N, NEW q \in 1..N, p < q
  PROVE  InOrderThere(S[p], S[q], list, spec)
  <1> DEFINE A == (DOMAIN spec.layers) \X DOMAIN drawn
  <1>0. /\ IsPlain(m) /\ IsStack(S, m.layers, spec, drawn, g, h, N) /\ StackLayers(m, spec, drawn, S, g, h, N)
    BY StackHasLayers DEF OnMap
  <1>1. /\ N \in Nat /\ \A x \in 1..N : (\E i \in DOMAIN m.layers : g[i] = x) \/ \E a \in A : h[a] = x
        /\ \A i, j \in DOMAIN m.layers : i < j => g[i] < g[j]
    BY <1>0, Zenon DEF IsStack
  <1>2. \A i \in DOMAIN m.layers : g[i] \in 1..N /\ S[g[i]] = m.layers[i]
    BY <1>0 DEF StackLayers
  <1> HIDE DEF A
  <1>3. ASSUME NEW i \in DOMAIN m.layers, NEW j \in DOMAIN m.layers, g[i] = p, g[j] = q
        PROVE  InOrderThere(S[p], S[q], list, spec)
    <2>1. i < j
      <3>1. PICK n \in Nat : DOMAIN m.layers = 1..n
        BY <1>0 DEF IsPlain
      <3>2. ~(j < i) /\ i # j
        BY <1>1, <1>3
      <3> QED  BY <3>1, <3>2
    <2>2. InOrderThere(m.layers[i], m.layers[j], list, spec)
      BY <1>0, <2>1, PlainIsInOrder
    <2> QED  BY <1>2, <1>3, <2>2
  <1>4. ASSUME NEW i \in DOMAIN m.layers, NEW a \in A, g[i] = p, h[a] = q
        PROVE  InOrderThere(S[p], S[q], list, spec)
    BY <1>4, TypeOverMap DEF A
  <1>5. ASSUME NEW i \in DOMAIN m.layers, NEW a \in A, h[a] = p, g[i] = q
        PROVE  InOrderThere(S[p], S[q], list, spec)
    BY <1>5, TypeOverMap DEF A
  <1>6. ASSUME NEW a \in A, NEW b \in A, h[a] = p, h[b] = q
        PROVE  InOrderThere(S[p], S[q], list, spec)
    BY <1>6, TypeOverType DEF A
  <1> QED  BY <1>1, <1>3, <1>4, <1>5, <1>6

(* The order is one of ids: a switch or another paint does not change it. *)
LEMMA OrderIsOfIds ==
  ASSUME NEW k, NEW l, NEW k2, NEW l2, k.of = k2.of, k.name = k2.name, l.of = l2.of, l.name = l2.name,
         NEW list, NEW spec, InOrderThere(k, l, list, spec)
  PROVE  InOrderThere(k2, l2, list, spec)
  <1>1. Rank(k) = Rank(k2) /\ Rank(l) = Rank(l2)
    BY DEF Rank
  <1> QED  BY <1>1 DEF InOrderThere

LEMMA StyledIsInOrder ==
  ASSUME NEW list \in RegionList, NEW on, NEW t
  PROVE  LET M == Styled(list, on, t) IN
         \A i, j \in DOMAIN M.layers : i < j =>
           InOrderThere(M.layers[i], M.layers[j], list, TypeOf(M.type))
  <1> DEFINE M == Styled(list, on, t)
             m == applyLayers(NewMap(list), on)
  <1>1. IsPlain(m)
    BY StyledIsUndone
  <1>2. InStack(m.layers, list)
    BY NewMapIsPlain, AppliedIsInStack DEF NewMap
  <1>3. M = IF Shows(list, t) THEN Typed(m, list, t) ELSE m
    BY DEF Styled
  <1> HIDE DEF M, m
  <1>4. CASE ~Shows(list, t)
    BY <1>1, <1>2, <1>3, <1>4, PlainIsInOrder DEF M
  <1>5. CASE Shows(list, t)
    <2> DEFINE spec == MapTypes[t]
               drawn == regionsDrawn(list, spec)
               S == Stacked(m.layers, spec, drawn)
    <2>1. t \in DOMAIN MapTypes /\ t # NoType /\ TypeOf(t) = spec
      BY <1>5 DEF Shows, TypeOf
    <2>2. M.layers = Restyled(spec, t, S) /\ M.type = t
      BY <1>3, <1>5, TypedMap
    <2>3. PICK g, h, N : OnMap(m, spec, drawn, S, g, h, N)
      BY <1>1, <2>1, TypeIsStacked, Zenon DEF OnMap
    <2>4. Descending(drawn) /\ Items(drawn) \subseteq Items(list)
      BY DrawnAreRegions
    <2> HIDE DEF spec, drawn, S
    <2>5. DOMAIN S = 1..N /\ \A p \in 1..N : IsLayer(S[p])
      <3>1. StackLayers(m, spec, drawn, S, g, h, N) /\ IsStack(S, m.layers, spec, drawn, g, h, N)
        BY <2>3, StackHasLayers DEF OnMap
      <3> QED  BY <3>1 DEF StackLayers, IsStack
    <2>6. DOMAIN M.layers = 1..N /\ \A p \in 1..N : M.layers[p].of = S[p].of /\ M.layers[p].name = S[p].name
      BY <2>2, <2>5, ChangedLayer DEF Restyled
    <2>7. ASSUME NEW p \in 1..N, NEW q \in 1..N, p < q
          PROVE  InOrderThere(M.layers[p], M.layers[q], list, spec)
      <3>1. InOrderThere(S[p], S[q], list, spec)
        BY <1>2, <2>3, <2>4, <2>7, StackedIsInOrder
      <3> QED  BY <2>6, <3>1, OrderIsOfIds
    <2> QED  BY <2>1, <2>2, <2>6, <2>7 DEF M
  <1> QED  BY <1>4, <1>5

(* The second part of StyleIsWhole. *)
LEMMA LayersAreStacked ==
  ASSUME StyleInv
  PROVE  StackIsInOrder
  <1> SUFFICES ASSUME mapReady PROVE StackIsInOrder
    BY DEF StackIsInOrder
  <1> DEFINE layers == map.layers
             spec == TypeOf(map.type)
  <1>1. regions \in RegionList /\ map = Styled(regions, activeLayers, mapType)
    BY DEF StyleInv
  <1>2. \A i, j \in DOMAIN layers : i < j => InOrderThere(layers[i], layers[j], regions, spec)
    BY <1>1, StyledIsInOrder
  <1> DEFINE ranks == [i \in DOMAIN layers |-> Rank(layers[i])]
             before(i) == BeforeOf(spec, layers[i].name)
             bboxOf(id) == BoxOf(regions, id)
  <1> HIDE DEF layers, spec
  <1>3. \A i, j \in DOMAIN layers : i < j =>
          /\ ranks[i] # 0 /\ ranks[j] # 0 => ranks[i] <= ranks[j]
          /\ ranks[i] = 0 /\ ranks[j] # 0 => ranks[j] >= PositionIn(before(i))
          /\ ranks[i] # 0 /\ ranks[j] = 0 => ranks[i] < PositionIn(before(j))
          /\ layers[i].name = layers[j].name /\ WorldId \notin {layers[i].of, layers[j].of} =>
               area(bboxOf(layers[i].of)) >= area(bboxOf(layers[j].of))
    BY <1>2, Zenon DEF InOrderThere
  <1> QED  BY <1>3, Zenon DEF StackIsInOrder, Rank, BeforeOf, BoxOf, layers, spec

(* The third part of StyleIsWhole. *)
LEMMA RegionsAreDrawnOnce ==
  ASSUME StyleInv
  PROVE  EveryRegionIsDrawnOnce
  <1>1. Regions(detailed(regions))
    BY DetailedAreRegions DEF StyleInv
  <1> QED  BY <1>1, OutermostCovers DEF EveryRegionIsDrawnOnce

(* After any sequence of map types, switches and reloads the style is the one that the same     *)
(* switches give to a new map, in the same order, with each region drawn once                   *)
(* (map-style.js:72-220, LayersControl of viewer.js).                                          *)
THEOREM StyleAlwaysWhole == StyleSpec => []StyleIsWhole
  <1>1. StyleInv => StyleIsWhole
    BY MapIsOfTheSwitches, LayersAreStacked, RegionsAreDrawnOnce DEF StyleIsWhole
  <1> QED  BY <1>1, StyleIsOfItsSwitches, PTL
=============================================================================
