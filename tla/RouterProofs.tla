----------------------------- MODULE RouterProofs -----------------------------
(***************************************************************************)
(* Proofs about the native router (NativeRouter): the binary heap, A* and  *)
(* the path that it rebuilds, and the alternatives, on every graph.        *)
(***************************************************************************)
EXTENDS NativeRouter, TLAPS, FiniteSetTheorems, SequenceTheorems, NaturalsInduction, WellFoundedInduction

-----------------------------------------------------------------------------
(* Recursive functions.  A domain is well founded for `down' when every    *)
(* set of its elements has one that is a base or leads out of the set.     *)

IsGrounded(D, Base, down) ==
  /\ \A i \in D : i \notin Base => down[i] \in D
  /\ \A S \in SUBSET D : S # {} => \E s \in S : s \in Base \/ down[s] \notin S

(* A function is defined by its values at the bases, and by a step from    *)
(* the value below.                                                        *)
IsRecursion(D, R, Base, down, A, G) ==
  /\ IsGrounded(D, Base, down)
  /\ \A i \in D : i \in Base => A[i] \in R
  /\ \A i \in D, r \in R : i \notin Base => G[<<i, r>>] \in R
LEMMA RecursionExists ==
  ASSUME NEW D, NEW R, NEW Base, NEW down, NEW A, NEW G, IsRecursion(D, R, Base, down, A, G)
  PROVE  \E f \in [D -> R] : \A i \in D : f[i] = IF i \in Base THEN A[i] ELSE G[<<i, f[down[i]]>>]
  <1> DEFINE Solves(f, C) == \A i \in C : f[i] = IF i \in Base THEN A[i] ELSE G[<<i, f[down[i]]>>]
             IsClosed(C) == \A i \in C : i \in Base \/ down[i] \in C
             Part == {a \in (SUBSET D) \X [D -> R] : IsClosed(a[1]) /\ Solves(a[2], a[1])}
  <1>0. /\ IsGrounded(D, Base, down)
        /\ \A i \in D : i \in Base => A[i] \in R
        /\ \A i \in D, r \in R : i \notin Base => G[<<i, r>>] \in R
    BY DEF IsRecursion
  <1>1. \A a, b \in Part : \A i \in a[1] \cap b[1] : a[2][i] = b[2][i]
    <2> SUFFICES ASSUME NEW a \in Part, NEW b \in Part,
                        NEW j \in a[1] \cap b[1], a[2][j] # b[2][j]
                 PROVE  FALSE
      BY Zenon
    <2> DEFINE S == {i \in a[1] \cap b[1] : a[2][i] # b[2][i]}
    <2>1. S \in SUBSET D /\ S # {}
      OBVIOUS
    <2>2. PICK s \in S : s \in Base \/ down[s] \notin S
      BY <1>0, <2>1, Zenon DEF IsGrounded
    <2>3. s \in a[1] /\ s \in b[1] /\ a[2][s] # b[2][s]
      OBVIOUS
    <2>4. (s \in Base \/ down[s] \in a[1]) /\ (s \in Base \/ down[s] \in b[1])
      BY <2>3
    <2>5. a[2][s] = (IF s \in Base THEN A[s] ELSE G[<<s, a[2][down[s]]>>])
          /\ b[2][s] = (IF s \in Base THEN A[s] ELSE G[<<s, b[2][down[s]]>>])
      BY <2>3
    <2>6. CASE s \in Base
      BY <2>3, <2>5, <2>6
    <2>7. CASE s \notin Base
      <3>1. down[s] \in a[1] \cap b[1] /\ down[s] \notin S
        BY <2>2, <2>4, <2>7
      <3>2. a[2][down[s]] = b[2][down[s]]
        BY <3>1
      <3> QED  BY <2>3, <2>5, <2>7, <3>2
    <2> QED  BY <2>6, <2>7
  <1>2. \A i \in D : \E a \in Part : i \in a[1]
    <2> SUFFICES ASSUME NEW j \in D, \A a \in Part : j \notin a[1]
                 PROVE  FALSE
      BY Zenon
    <2> DEFINE S == {i \in D : \A a \in Part : i \notin a[1]}
    <2>1. PICK s \in S : s \in Base \/ down[s] \notin S
      <3>1. S \in SUBSET D /\ S # {}
        OBVIOUS
      <3> QED  BY <1>0, <3>1, Zenon DEF IsGrounded
    <2>2. s \in D
      OBVIOUS
    <2>3. CASE s \in Base
      <3> DEFINE f == [x \in D |-> A[s]]
      <3>1. f \in [D -> R] /\ {s} \in SUBSET D /\ f[s] = A[s]
        BY <1>0, <2>2, <2>3
      <3>2. Solves(f, {s}) /\ IsClosed({s})
        BY <2>2, <2>3
      <3>3. <<{s}, f>> \in Part
        BY <3>1, <3>2
      <3> QED  BY <3>3
    <2>4. CASE s \notin Base
      <3>1. down[s] \in D /\ down[s] \notin S
        BY <1>0, <2>1, <2>2, <2>4 DEF IsGrounded
      <3>2. PICK a \in Part : down[s] \in a[1]
        BY <3>1
      <3>3. s \notin a[1]
        OBVIOUS
      <3> DEFINE v == G[<<s, a[2][down[s]]>>]
                 f == [a[2] EXCEPT ![s] = v]
                 C == a[1] \union {s}
      <3>4. a[2] \in [D -> R] /\ a[1] \in SUBSET D /\ IsClosed(a[1]) /\ Solves(a[2], a[1])
        OBVIOUS
      <3>5. v \in R
        BY <1>0, <2>2, <2>4, <3>1, <3>4
      <3>6. f \in [D -> R] /\ C \in SUBSET D /\ f[s] = v /\ \A i \in a[1] : f[i] = a[2][i]
        BY <2>2, <3>3, <3>4, <3>5
      <3>7. IsClosed(C)
        BY <3>2, <3>4
      <3>8. ASSUME NEW i \in C
            PROVE  f[i] = IF i \in Base THEN A[i] ELSE G[<<i, f[down[i]]>>]
        <4>1. CASE i = s
          BY <2>4, <3>2, <3>6, <4>1
        <4>2. CASE i # s
          <5>1. i \in a[1] /\ (i \in Base \/ down[i] \in a[1])
            BY <4>2, <3>4
          <5>2. a[2][i] = IF i \in Base THEN A[i] ELSE G[<<i, a[2][down[i]]>>]
            BY <5>1, <3>4
          <5> QED  BY <5>1, <5>2, <3>6
        <4> QED  BY <4>1, <4>2
      <3>9. <<C, f>> \in Part
        <4> HIDE DEF f, C
        <4> QED  BY <3>6, <3>7, <3>8
      <3> QED  BY <3>9
    <2> QED  BY <2>3, <2>4
  <1> DEFINE Of(i) == CHOOSE a \in Part : i \in a[1]
             F == [i \in D |-> Of(i)[2][i]]
  <1>3. \A i \in D : Of(i) \in Part /\ i \in Of(i)[1]
    BY <1>2, Zenon
  <1>4. \A a \in Part : /\ a[2] \in [D -> R] /\ a[1] \in SUBSET D
                        /\ \A i \in a[1] : /\ i \in Base \/ down[i] \in a[1]
                                           /\ a[2][i] = IF i \in Base THEN A[i] ELSE G[<<i, a[2][down[i]]>>]
    OBVIOUS
  <1> HIDE DEF Part, Of
  <1>5. F \in [D -> R]
    BY <1>3, <1>4
  <1>6. ASSUME NEW i \in D
        PROVE  F[i] = IF i \in Base THEN A[i] ELSE G[<<i, F[down[i]]>>]
    <2>1. CASE i \in Base
      BY <2>1, <1>3, <1>4
    <2>2. CASE i \notin Base
      <3>1. down[i] \in Of(i)[1] /\ down[i] \in D
        BY <2>2, <1>3, <1>4
      <3>2. Of(i)[2][down[i]] = Of(down[i])[2][down[i]]
        BY <3>1, <1>1, <1>3
      <3> QED  BY <2>2, <3>1, <3>2, <1>3, <1>4
    <2> QED  BY <2>1, <2>2
  <1> QED  BY <1>5, <1>6
(* What passes from the value below to the value holds everywhere. *)
LEMMA GroundedInduction ==
  ASSUME NEW D, NEW Base, NEW down, IsGrounded(D, Base, down), NEW T,
         \A i \in D : i \in Base \/ down[i] \in T => i \in T
  PROVE  D \subseteq T
  <1> DEFINE S == {i \in D : i \notin T}
  <1> SUFFICES ASSUME S # {} PROVE FALSE
    OBVIOUS
  <1>1. PICK s \in S : s \in Base \/ down[s] \notin S
    <2>1. S \in SUBSET D
      OBVIOUS
    <2> QED  BY <2>1, Zenon DEF IsGrounded
  <1>2. s \in D /\ s \notin T
    OBVIOUS
  <1>3. s \notin Base /\ down[s] \notin T
    BY <1>2
  <1>4. down[s] \in D
    BY <1>2, <1>3 DEF IsGrounded
  <1> QED  BY <1>1, <1>3, <1>4

(* A set of naturals has a least one. *)
LEMMA LeastNatural ==
  ASSUME NEW T \in SUBSET Nat, T # {}
  PROVE  \E x \in T : \A y \in T : x <= y
  <1> DEFINE less == {p \in Nat \X Nat : p[1] < p[2]}
  <1>1. IsWellFoundedOn(less, Nat)
    BY NatLessThanWellFounded, Zenon DEF OpToRel
  <1>2. PICK x \in T : \A y \in T : <<y, x>> \notin less
    BY <1>1, WFMin, Zenon
  <1>3. \A m, n \in Nat : <<m, n>> \in less <=> m < n
    OBVIOUS
  <1> HIDE DEF less
  <1>4. \A y \in T : ~(y < x)
    BY <1>2, <1>3, Zenon
  <1> QED  BY <1>4

(* A measure that decreases grounds a domain. *)
LEMMA MeasureGrounds ==
  ASSUME NEW D, NEW Base, NEW down, NEW measure,
         \A i \in D : measure[i] \in Nat,
         \A i \in D : i \notin Base => down[i] \in D /\ measure[down[i]] < measure[i]
  PROVE  IsGrounded(D, Base, down)
  <1>1. ASSUME NEW S \in SUBSET D, S # {}
        PROVE  \E s \in S : s \in Base \/ down[s] \notin S
    <2> DEFINE Values == {measure[i] : i \in S}
    <2>1. Values \in SUBSET Nat /\ Values # {}
      BY <1>1
    <2>2. PICK x \in Values : \A y \in Values : x <= y
      BY <2>1, LeastNatural
    <2>3. PICK s \in S : x = measure[s]
      OBVIOUS
    <2>4. SUFFICES ASSUME s \notin Base, down[s] \in S PROVE FALSE
      OBVIOUS
    <2>5. measure[down[s]] < measure[s] /\ measure[down[s]] \in Values /\ measure[s] \in Nat /\ measure[down[s]] \in Nat
      BY <2>4
    <2> QED  BY <2>2, <2>3, <2>5
  <1> QED  BY <1>1 DEF IsGrounded

Upwards(n) == [i \in 0..n |-> i - 1]
LEMMA UpwardsGrounded ==
  ASSUME NEW n \in Nat
  PROVE  IsGrounded(0..n, {0}, Upwards(n))
  <1> DEFINE measure == [i \in 0..n |-> i]
  <1>1. \A i \in 0..n : measure[i] \in Nat
    OBVIOUS
  <1>2. \A i \in 0..n : i \notin {0} => Upwards(n)[i] \in 0..n /\ measure[Upwards(n)[i]] < measure[i]
    BY DEF Upwards
  <1> HIDE DEF measure
  <1> QED  BY <1>1, <1>2, MeasureGrounds

(* Induction up to a number, and over all numbers, as facts about a set. *)
LEMMA UpTo ==
  ASSUME NEW n \in Nat, NEW T, 0 \in T, \A i \in 1..n : i - 1 \in T => i \in T
  PROVE  0..n \subseteq T
  <1> DEFINE D == 0..n
             Base == {0}
             down == Upwards(n)
  <1>1. \A i \in D : i \in Base \/ down[i] \in T => i \in T
    BY DEF Upwards
  <1>2. IsGrounded(D, Base, down)
    BY UpwardsGrounded
  <1> HIDE DEF D, Base, down
  <1>3. D \subseteq T
    BY <1>1, <1>2, GroundedInduction
  <1> QED  BY <1>3 DEF D

LEMMA AllNaturals ==
  ASSUME NEW T, 0 \in T, \A i \in Nat : i \in T => i + 1 \in T
  PROVE  Nat \subseteq T
  <1> SUFFICES ASSUME NEW n \in Nat PROVE n \in T
    OBVIOUS
  <1>1. \A i \in 1..n : i - 1 \in T => i \in T
    <2> SUFFICES ASSUME NEW i \in 1..n, i - 1 \in T PROVE i \in T
      OBVIOUS
    <2>1. i - 1 \in Nat /\ (i - 1) + 1 = i
      OBVIOUS
    <2> QED  BY <2>1
  <1>2. 0..n \subseteq T
    BY <1>1, UpTo
  <1> QED  BY <1>2

-----------------------------------------------------------------------------
(* The binary heap.                                                        *)

Keyed(E) == \A x \in E : x.key \in Int
IsHeap(h) == \A j \in 2..Len(h) : h[j \div 2].key <= h[j].key

LEMMA Halves ==
  /\ \A i \in Nat : i >= 2 => i \div 2 \in 1..i - 1
  /\ \A i, j \in Nat : j <= i => j \div 2 <= i \div 2
  /\ \A i, j \in Nat : j \div 2 = i <=> j = 2 * i \/ j = 2 * i + 1
  OBVIOUS

(* push puts the entry into the heap, keeps the others, and leaves a heap. *)
LEMMA Push ==
  ASSUME NEW E, Keyed(E), NEW h \in Seq(E), IsHeap(h), NEW e \in E
  PROVE  /\ push(h, e) \in Seq(E) /\ IsHeap(push(h, e)) /\ Len(push(h, e)) = Len(h) + 1
         /\ \A j \in 1..Len(push(h, e)) : push(h, e)[j] = e \/ \E k \in 1..Len(h) : push(h, e)[j] = h[k]
         /\ \E j \in 1..Len(push(h, e)) : push(h, e)[j] = e
         /\ \A k \in 1..Len(h) : \E j \in 1..Len(push(h, e)) : push(h, e)[j] = h[k]
  <1> DEFINE n == Len(h) + 1
             D == 1..n
             R == [D -> E]
             long == Append(h, e)
             Base == {i \in D : i = 1 \/ h[i \div 2].key <= e.key}
             down == [i \in D |-> i \div 2]
             A == [i \in D |-> [long EXCEPT ![i] = e]]
             G == [a \in D \X R |-> [a[2] EXCEPT ![a[1]] = h[a[1] \div 2]]]
             Body(f, i) == IF i = 1 \/ h[i \div 2].key <= e.key THEN [Append(h, e) EXCEPT ![i] = e]
                           ELSE [f[i \div 2] EXCEPT ![i] = h[i \div 2]]
             up == CHOOSE u : u = [i \in 1..Len(h) + 1 |->
                                     IF i = 1 \/ h[i \div 2].key <= e.key THEN [Append(h, e) EXCEPT ![i] = e]
                                     ELSE [u[i \div 2] EXCEPT ![i] = h[i \div 2]]]
  <1>1. /\ Len(h) \in Nat /\ n \in Nat \ {0} /\ D = 1..n /\ long \in R
        /\ \A j \in 1..Len(h) : h[j] \in E /\ long[j] = h[j] /\ h[j].key \in Int
        /\ long[n] = e /\ e.key \in Int
    <2>1. Len(h) \in Nat /\ (\A j \in 1..Len(h) : h[j] \in E) /\ \A x \in E : x.key \in Int
      BY DEF Keyed
    <2>2. long \in Seq(E) /\ Len(long) = n /\ long[n] = e /\ \A j \in 1..Len(h) : long[j] = h[j]
      BY AppendProperties
    <2>3. long \in R
      <3>1. long \in [1..Len(long) -> E]
        BY <2>2, LenProperties
      <3> QED  BY <2>2, <3>1
    <2> QED  BY <2>1, <2>2, <2>3
  <1>0. \A x \in E : x.key \in Int
    BY DEF Keyed
  <1>2. \A i \in D : i # 1 => i \div 2 \in D /\ i \div 2 \in 1..Len(h) /\ i \div 2 < i /\ i \div 2 <= i - 1
    BY <1>1, Halves
  <1>3. IsGrounded(D, Base, down)
    <2> DEFINE measure == [i \in D |-> i]
    <2>1. \A i \in D : measure[i] \in Nat
      BY <1>1
    <2>2. \A i \in D : i \notin Base => down[i] \in D /\ measure[down[i]] < measure[i]
      BY <1>2
    <2> HIDE DEF D, Base, down, measure
    <2> QED  BY <2>1, <2>2, MeasureGrounds
  <1>4. up = [i \in D |-> Body(up, i)]
    <2>1. \A i \in D : i \in Base => A[i] \in R
      BY <1>1
    <2>2. \A i \in D, r \in R : i \notin Base => G[<<i, r>>] \in R
      BY <1>1, <1>2
    <2>3. PICK f \in [D -> R] : \A i \in D : f[i] = IF i \in Base THEN A[i] ELSE G[<<i, f[down[i]]>>]
      <3> HIDE DEF D, R, Base, down, A, G
      <3>1. IsRecursion(D, R, Base, down, A, G)
        BY <1>3, <2>1, <2>2 DEF IsRecursion
      <3> QED  BY <3>1, RecursionExists
    <2>4. \A i \in D : f[i] = Body(f, i)
      <3> SUFFICES ASSUME NEW i \in D PROVE f[i] = Body(f, i)
        OBVIOUS
      <3>1. CASE i \in Base
        BY <2>3, <3>1
      <3>2. CASE i \notin Base
        <4>1. down[i] = i \div 2 /\ i \div 2 \in D /\ f[i \div 2] \in R
          BY <1>2, <3>2
        <4>2. G[<<i, f[down[i]]>>] = [f[i \div 2] EXCEPT ![i] = h[i \div 2]]
          BY <4>1
        <4> QED  BY <2>3, <3>2, <4>2
      <3> QED  BY <3>1, <3>2
    <2>5. f = [i \in D |-> Body(f, i)]
      <3> HIDE DEF Body
      <3> QED  BY <2>4
    <2> QED  BY <2>5, Zenon
  <1>5. push(h, e) = up[n]
    BY Zenon DEF push
  <1> DEFINE Good(u, i) ==
               /\ u \in R
               /\ \A j \in i + 1..n : u[j] = long[j]
               /\ \A j \in 2..i : u[j \div 2].key <= u[j].key
               /\ \A j \in 1..i - 1 : u[j].key <= long[j].key
               /\ i < n /\ e.key <= long[i].key => u[i].key <= long[i].key
               /\ \A j \in 1..i : u[j] = e \/ \E k \in 1..i - 1 : u[j] = long[k]
               /\ \E j \in 1..i : u[j] = e
               /\ \A k \in 1..i - 1 : \E j \in 1..i : u[j] = long[k]
             T == {i \in D : Good(up[i], i)}
  <1>6. \A j \in 2..n - 1 : long[j \div 2].key <= long[j].key
    BY <1>1, <1>2 DEF IsHeap
  <1>7. ASSUME NEW i \in D, i \in Base \/ down[i] \in T
        PROVE  Good(up[i], i)
    <2> HIDE DEF up, long, n
    <2>1. CASE i \in Base
      <3>1. up[i] = [long EXCEPT ![i] = e]
        BY <1>4, <2>1 DEF long
      <3>2. up[i] \in R /\ up[i][i] = e /\ \A j \in D : j # i => up[i][j] = long[j]
        BY <3>1, <1>1
      <3>3. \A j \in D : long[j].key \in Int /\ up[i][j].key \in Int
        BY <1>0, <1>1, <3>2
      <3>4. ASSUME NEW j \in 2..i PROVE up[i][j \div 2].key <= up[i][j].key
        <4>1. j \in D /\ j \div 2 \in D /\ j \div 2 < j /\ j \div 2 # i
          BY <1>1, <1>2
        <4>2. CASE j = i
          <5>1. h[j \div 2].key <= e.key /\ long[j \div 2] = h[j \div 2]
            BY <4>2, <2>1, <1>1, <1>2, <4>1
          <5> QED  BY <5>1, <4>1, <4>2, <3>2
        <4>3. CASE j # i
          <5>1. j \in 2..n - 1
            BY <4>3, <1>1
          <5>2. up[i][j] = long[j] /\ up[i][j \div 2] = long[j \div 2]
            BY <4>1, <4>3, <3>2
          <5> QED  BY <5>1, <5>2, <1>6
        <4> QED  BY <4>2, <4>3
      <3>5. \A j \in 1..i - 1 : j \in D /\ j # i
        BY <1>1
      <3>6. \A j \in i + 1..n : j \in D /\ j # i
        BY <1>1
      <3>7. \A j \in 1..i : j = i \/ j \in 1..i - 1
        OBVIOUS
      <3>8. i \in 1..i /\ \A k \in 1..i - 1 : k \in 1..i
        OBVIOUS
      <3>9. /\ \A j \in i + 1..n : up[i][j] = long[j]
            /\ \A j \in 1..i - 1 : up[i][j] = long[j] /\ long[j].key <= long[j].key
        BY <3>2, <3>3, <3>5, <3>6
      <3> QED  BY <3>2, <3>3, <3>4, <3>7, <3>8, <3>9
    <2>2. CASE i \notin Base
      <3> DEFINE q == i \div 2
                 w == up[q]
      <3>1. q \in D /\ q \in 1..i - 1 /\ q \in 1..Len(h) /\ q < i /\ down[i] = q /\ i # 1
        BY <1>2, <2>2
      <3>2. Good(w, q)
        BY <1>7, <2>2, <3>1
      <3> HIDE DEF q
      <3>3. up[i] = [w EXCEPT ![i] = long[q]]
        BY <1>4, <1>1, <2>2, <3>1 DEF q
      <3>4. /\ up[i] \in R /\ up[i][i] = long[q] /\ \A j \in D : j # i => up[i][j] = w[j]
        BY <3>1, <3>2, <3>3, <1>1
      <3>5. \A j \in D : long[j].key \in Int /\ up[i][j].key \in Int /\ w[j].key \in Int
        BY <1>0, <1>1, <3>2, <3>4
      <3>6. e.key < long[q].key
        BY <2>2, <1>1, <3>1, <3>5 DEF q
      <3>7. w[q].key <= long[q].key
        BY <3>2, <3>6, <3>5, <3>1, <1>1
      <3>8. \A j \in q + 1..i - 1 : j \in D /\ w[j] = long[j] /\ up[i][j] = long[j]
        BY <3>1, <3>2, <3>4, <1>1
      <3>9. ASSUME NEW j \in 2..i PROVE up[i][j \div 2].key <= up[i][j].key
        <4>1. j \in D /\ j \div 2 \in D /\ j \div 2 < j /\ j \div 2 # i /\ j \div 2 <= q
          BY <1>1, <1>2, Halves DEF q
        <4>2. up[i][j \div 2] = w[j \div 2]
          BY <4>1, <3>4
        <4>3. w[j \div 2].key <= long[j \div 2].key
          <5>1. CASE j \div 2 = q
            BY <5>1, <3>7
          <5>2. CASE j \div 2 # q
            <6>1. j \div 2 \in 1..q - 1
              BY <5>2, <4>1, <3>1, <1>1
            <6> QED  BY <6>1, <3>2
          <5> QED  BY <5>1, <5>2
        <4>4. CASE j = i
          BY <4>1, <4>2, <4>3, <4>4, <3>4, <3>7 DEF q
        <4>5. CASE j \in q + 1..i - 1
          <5>1. long[j \div 2].key <= long[j].key
            BY <4>5, <1>6, <3>1, <1>1
          <5>2. w[j \div 2].key <= long[j].key
            BY <4>1, <4>3, <5>1, <3>5
          <5> QED  BY <4>2, <5>2, <3>8, <4>5
        <4>6. CASE j \in 2..q
          <5>1. w[j \div 2].key <= w[j].key
            BY <4>6, <3>2
          <5>2. j # i
            BY <4>6, <3>1
          <5> QED  BY <4>1, <4>2, <5>1, <5>2, <3>4
        <4> QED  BY <4>4, <4>5, <4>6, <3>1
      <3>10. \A j \in 1..i - 1 : up[i][j].key <= long[j].key
        <4> SUFFICES ASSUME NEW j \in 1..i - 1 PROVE up[i][j].key <= long[j].key
          OBVIOUS
        <4>1. CASE j \in q + 1..i - 1
          BY <4>1, <3>8, <3>5
        <4>2. CASE j = q
          BY <4>2, <3>4, <3>7, <3>1
        <4>3. CASE j \in 1..q - 1
          <5>1. w[j].key <= long[j].key
            BY <4>3, <3>2
          <5>2. j \in D /\ j # i
            BY <4>3, <3>1, <1>1
          <5> QED  BY <5>1, <5>2, <3>4
        <4> QED  BY <4>1, <4>2, <4>3, <3>1
      <3>11. i < n /\ e.key <= long[i].key => up[i][i].key <= long[i].key
        <4>1. i < n => long[i \div 2].key <= long[i].key
          BY <1>6, <1>1, <3>1
        <4> QED  BY <4>1, <3>4 DEF q
      <3>12. \A j \in 1..i : up[i][j] = e \/ \E k \in 1..i - 1 : up[i][j] = long[k]
        <4> SUFFICES ASSUME NEW j \in 1..i PROVE up[i][j] = e \/ \E k \in 1..i - 1 : up[i][j] = long[k]
          OBVIOUS
        <4>1. CASE j = i
          BY <4>1, <3>4, <3>1
        <4>2. CASE j \in q + 1..i - 1
          BY <4>2, <3>8
        <4>3. CASE j \in 1..q
          <5>1. up[i][j] = w[j]
            BY <4>3, <3>1, <3>4, <1>1
          <5>2. w[j] = e \/ \E k \in 1..q - 1 : w[j] = long[k]
            BY <4>3, <3>2
          <5>3. \A k \in 1..q - 1 : k \in 1..i - 1
            BY <3>1
          <5> QED  BY <5>1, <5>2, <5>3
        <4> QED  BY <4>1, <4>2, <4>3, <3>1
      <3>13. \E j \in 1..i : up[i][j] = e
        <4>1. PICK j \in 1..q : w[j] = e
          BY <3>2
        <4>2. j \in 1..i /\ j \in D /\ j # i
          BY <3>1, <1>1
        <4> QED  BY <4>1, <4>2, <3>4
      <3>14. \A k \in 1..i - 1 : \E j \in 1..i : up[i][j] = long[k]
        <4> SUFFICES ASSUME NEW k \in 1..i - 1 PROVE \E j \in 1..i : up[i][j] = long[k]
          OBVIOUS
        <4>1. CASE k = q
          BY <4>1, <3>4, <3>1
        <4>2. CASE k \in q + 1..i - 1
          BY <4>2, <3>8
        <4>3. CASE k \in 1..q - 1
          <5>1. PICK j \in 1..q : w[j] = long[k]
            BY <4>3, <3>2
          <5>2. j \in 1..i /\ j \in D /\ j # i
            BY <3>1, <1>1
          <5> QED  BY <5>1, <5>2, <3>4
        <4> QED  BY <4>1, <4>2, <4>3, <3>1
      <3>15. \A j \in i + 1..n : up[i][j] = long[j]
        BY <3>1, <3>2, <3>4, <1>1
      <3> HIDE DEF w
      <3> QED  BY <3>4, <3>9, <3>10, <3>11, <3>12, <3>13, <3>14, <3>15
    <2> QED  BY <2>1, <2>2
  <1>8. Good(up[n], n)
    <2>1. \A i \in D : i \in Base \/ down[i] \in T => i \in T
      <3> HIDE DEF Base, down, up, Good
      <3> QED  BY <1>7
    <2> HIDE DEF Base, down
    <2>2. D \subseteq T
      <3> HIDE DEF D, T
      <3> QED  BY <1>3, <2>1, GroundedInduction
    <2>3. n \in T
      <3> HIDE DEF T
      <3> QED  BY <1>1, <2>2
    <2> HIDE DEF Good, up
    <2> QED  BY <2>3
  <1> DEFINE r == up[n]
  <1>9. r \in R /\ Len(r) = n /\ r \in Seq(E)
    <2>1. r \in R
      BY <1>8
    <2>2. DOMAIN r = 1..n /\ n \in Nat
      BY <1>1, <2>1
    <2> HIDE DEF r, n
    <2>3. r \in Seq(E)
      BY <2>1, <2>2, <1>1, IsASeq
    <2>4. Len(r) \in Nat /\ DOMAIN r = 1..Len(r)
      BY <2>3, LenProperties
    <2>5. Len(r) = n
      BY <2>2, <2>4
    <2> QED  BY <2>1, <2>3, <2>5
  <1>10. IsHeap(r)
    BY <1>8, <1>9 DEF IsHeap
  <1>11. \A k \in 1..Len(h) : long[k] = h[k] /\ k \in 1..n - 1
    BY <1>1
  <1>12. n - 1 = Len(h)
    BY <1>1
  <1>13. /\ \A j \in 1..n : r[j] = e \/ \E k \in 1..Len(h) : r[j] = h[k]
         /\ \E j \in 1..n : r[j] = e
         /\ \A k \in 1..Len(h) : \E j \in 1..n : r[j] = h[k]
    <2>1. /\ \A j \in 1..n : r[j] = e \/ \E k \in 1..n - 1 : r[j] = long[k]
          /\ \E j \in 1..n : r[j] = e
          /\ \A k \in 1..n - 1 : \E j \in 1..n : r[j] = long[k]
      BY <1>8
    <2> HIDE DEF r, long, n
    <2> QED  BY <2>1, <1>11, <1>12
  <1> HIDE DEF up, long, R
  <1> QED  BY <1>5, <1>9, <1>10, <1>13

(* A function from 1..n is a sequence. *)
LEMMA FunctionIsSeq ==
  ASSUME NEW n \in Nat, NEW S, NEW f \in [1..n -> S]
  PROVE  f \in Seq(S) /\ Len(f) = n
  <1>1. f \in Seq(S)
    BY SeqDef
  <1>2. Len(f) \in Nat /\ DOMAIN f = 1..Len(f)
    BY <1>1, LenProperties
  <1>3. DOMAIN f = 1..n
    OBVIOUS
  <1> QED  BY <1>1, <1>2, <1>3

LEMMA Children ==
  ASSUME NEW E, Keyed(E), NEW h \in Seq(E), NEW i \in 1..Len(h), 2 * i <= Len(h)
  PROVE  /\ Child(h, i) \in {2 * i, 2 * i + 1} /\ Child(h, i) \in 1..Len(h) /\ Child(h, i) > i
         /\ \A j \in 2..Len(h) : j \div 2 = i => h[Child(h, i)].key <= h[j].key
  <1>1. Len(h) \in Nat /\ \A j \in 1..Len(h) : h[j] \in E /\ h[j].key \in Int
    BY LenProperties, ElementOfSeq DEF Keyed
  <1>2. \A j \in 2..Len(h) : j \div 2 = i => j = 2 * i \/ j = 2 * i + 1
    BY <1>1
  <1>3. 2 * i \in 1..Len(h)
    BY <1>1
  <1>4. CASE 2 * i + 1 <= Len(h) /\ h[2 * i + 1].key < h[2 * i].key
    BY <1>1, <1>2, <1>3, <1>4, SMTT(30) DEF Child
  <1>5. CASE ~(2 * i + 1 <= Len(h) /\ h[2 * i + 1].key < h[2 * i].key)
    <2>1. Child(h, i) = 2 * i
      BY <1>5 DEF Child
    <2>2. ASSUME 2 * i + 1 <= Len(h)
          PROVE  h[2 * i].key <= h[2 * i + 1].key
      <3>1. 2 * i + 1 \in 1..Len(h)
        BY <2>2, <1>1
      <3> QED  BY <2>2, <1>5, <3>1, <1>1, <1>3
    <2> QED  BY <1>1, <1>2, <1>3, <2>1, <2>2, SMTT(30)
  <1> QED  BY <1>4, <1>5

(* SiftDown puts the entry for the first one, and leaves a heap. *)
LEMMA Sift ==
  ASSUME NEW E, Keyed(E), NEW h \in Seq(E), IsHeap(h), Len(h) > 0, NEW e \in E
  PROVE  /\ SiftDown(h, e) \in Seq(E) /\ IsHeap(SiftDown(h, e)) /\ Len(SiftDown(h, e)) = Len(h)
         /\ \A j \in 1..Len(h) : SiftDown(h, e)[j] = e \/ \E k \in 2..Len(h) : SiftDown(h, e)[j] = h[k]
         /\ \E j \in 1..Len(h) : SiftDown(h, e)[j] = e
         /\ \A k \in 2..Len(h) : \E j \in 1..Len(h) : SiftDown(h, e)[j] = h[k]
  <1> DEFINE n == Len(h)
             D == 1..n
             R == [D -> E]
             Base == {i \in D : 2 * i > n \/ h[Child(h, i)].key >= e.key}
             below == [i \in D |-> Child(h, i)]
             A == [i \in D |-> [h EXCEPT ![i] = e]]
             G == [a \in D \X R |-> [a[2] EXCEPT ![a[1]] = h[Child(h, a[1])]]]
             Body(f, i) == IF 2 * i > Len(h) \/ h[Child(h, i)].key >= e.key THEN [h EXCEPT ![i] = e]
                           ELSE [f[Child(h, i)] EXCEPT ![i] = h[Child(h, i)]]
             down == CHOOSE u : u = [i \in 1..Len(h) |->
                                       IF 2 * i > Len(h) \/ h[Child(h, i)].key >= e.key THEN [h EXCEPT ![i] = e]
                                       ELSE [u[Child(h, i)] EXCEPT ![i] = h[Child(h, i)]]]
  <1>1. /\ n \in Nat \ {0} /\ h \in R /\ e.key \in Int
        /\ \A j \in D : h[j] \in E /\ h[j].key \in Int
    BY LenProperties, ElementOfSeq DEF Keyed
  <1>0. \A x \in E : x.key \in Int
    BY DEF Keyed
  <1>2. \A i \in D : i \notin Base => /\ Child(h, i) \in D /\ Child(h, i) > i /\ Child(h, i) \div 2 = i
                                      /\ h[Child(h, i)].key < e.key
                                      /\ \A j \in 2..n : j \div 2 = i => h[Child(h, i)].key <= h[j].key
    <2> SUFFICES ASSUME NEW i \in D, i \notin Base
                 PROVE  /\ Child(h, i) \in D /\ Child(h, i) > i /\ Child(h, i) \div 2 = i
                        /\ h[Child(h, i)].key < e.key
                        /\ \A j \in 2..n : j \div 2 = i => h[Child(h, i)].key <= h[j].key
      OBVIOUS
    <2>1. 2 * i <= n /\ ~(h[Child(h, i)].key >= e.key)
      BY <1>1
    <2>2. /\ Child(h, i) \in {2 * i, 2 * i + 1} /\ Child(h, i) \in 1..n /\ Child(h, i) > i
          /\ \A j \in 2..n : j \div 2 = i => h[Child(h, i)].key <= h[j].key
      BY <2>1, Children
    <2> DEFINE c == Child(h, i)
    <2>3. c \in {2 * i, 2 * i + 1} /\ c \in D /\ c > i /\ ~(h[c].key >= e.key)
          /\ \A j \in 2..n : j \div 2 = i => h[c].key <= h[j].key
      BY <2>1, <2>2
    <2> HIDE DEF c, n
    <2>4. c \div 2 = i
      BY <2>3, <1>1
    <2>5. h[c].key < e.key
      BY <2>3, <1>1
    <2> QED  BY <2>3, <2>4, <2>5 DEF c
  <1>3. IsGrounded(D, Base, below)
    <2> DEFINE measure == [i \in D |-> n - i]
    <2>1. \A i \in D : measure[i] \in Nat
      BY <1>1
    <2>2. \A i \in D : i \notin Base => below[i] \in D /\ measure[below[i]] < measure[i]
      BY <1>1, <1>2
    <2> HIDE DEF D, Base, below, measure
    <2> QED  BY <2>1, <2>2, MeasureGrounds
  <1>4. down = [i \in D |-> Body(down, i)]
    <2>1. \A i \in D : i \in Base => A[i] \in R
      BY <1>1
    <2>2. \A i \in D, r \in R : i \notin Base => G[<<i, r>>] \in R
      <3> SUFFICES ASSUME NEW i \in D, NEW r \in R, i \notin Base PROVE G[<<i, r>>] \in R
        OBVIOUS
      <3>1. G[<<i, r>>] = [r EXCEPT ![i] = h[Child(h, i)]] /\ h[Child(h, i)] \in E
        BY <1>1, <1>2
      <3> QED  BY <3>1
    <2>3. PICK f \in [D -> R] : \A i \in D : f[i] = IF i \in Base THEN A[i] ELSE G[<<i, f[below[i]]>>]
      <3> HIDE DEF D, R, Base, below, A, G
      <3>1. IsRecursion(D, R, Base, below, A, G)
        BY <1>3, <2>1, <2>2 DEF IsRecursion
      <3> QED  BY <3>1, RecursionExists
    <2>4. \A i \in D : f[i] = Body(f, i)
      <3> SUFFICES ASSUME NEW i \in D PROVE f[i] = Body(f, i)
        OBVIOUS
      <3>1. CASE i \in Base
        BY <2>3, <3>1
      <3>2. CASE i \notin Base
        <4>1. below[i] = Child(h, i) /\ Child(h, i) \in D /\ f[Child(h, i)] \in R
          BY <1>2, <3>2
        <4>2. G[<<i, f[below[i]]>>] = [f[Child(h, i)] EXCEPT ![i] = h[Child(h, i)]]
          BY <4>1
        <4> QED  BY <2>3, <3>2, <4>2
      <3> QED  BY <3>1, <3>2
    <2>5. f = [i \in D |-> Body(f, i)]
      <3> HIDE DEF Body
      <3> QED  BY <2>4
    <2> QED  BY <2>5, Zenon
  <1>5. SiftDown(h, e) = down[1]
    BY Zenon DEF SiftDown
  <1> DEFINE Good(u, i) ==
               /\ u \in R
               /\ \A j \in 1..i - 1 : u[j] = h[j]
               /\ \A j \in 2..n : j > i => u[j \div 2].key <= u[j].key
               /\ \A j \in i + 1..n : h[j].key <= u[j].key
               /\ e.key >= h[i].key => u[i].key >= h[i].key
               /\ \A j \in i..n : u[j] = e \/ \E k \in i + 1..n : u[j] = h[k]
               /\ \E j \in i..n : u[j] = e
               /\ \A k \in i + 1..n : \E j \in i..n : u[j] = h[k]
             T == {i \in D : Good(down[i], i)}
  <1>6. \A j \in 2..n : h[j \div 2].key <= h[j].key /\ j \div 2 \in D /\ j \div 2 < j
    BY <1>1, Halves DEF IsHeap
  <1>7. ASSUME NEW i \in D, i \in Base \/ below[i] \in T
        PROVE  Good(down[i], i)
    <2> HIDE DEF down, n
    <2>0. n = Len(h)
      BY DEF n
    <2>1. CASE i \in Base
      <3>1. down[i] = [h EXCEPT ![i] = e]
        BY <1>4, <2>1, <2>0
      <3>2. down[i] \in R /\ down[i][i] = e /\ \A j \in D : j # i => down[i][j] = h[j]
        BY <3>1, <1>1
      <3>3. \A j \in D : h[j].key \in Int /\ down[i][j].key \in Int
        BY <1>0, <1>1, <3>2
      <3>4. ASSUME NEW j \in 2..n, j > i PROVE down[i][j \div 2].key <= down[i][j].key
        <4>1. j \in D /\ j # i /\ down[i][j] = h[j]
          BY <1>1, <3>2, <3>4
        <4>2. CASE j \div 2 = i
          <5>1. 2 * i <= n /\ h[Child(h, i)].key >= e.key
            BY <4>2, <1>1, <2>1
          <5>2. h[Child(h, i)].key <= h[j].key /\ Child(h, i) \in D
            BY <5>1, <4>2, <2>0, Children
          <5>3. e.key <= h[j].key
            BY <5>1, <5>2, <4>1, <1>1
          <5> QED  BY <5>3, <4>1, <4>2, <3>2
        <4>3. CASE j \div 2 # i
          BY <4>1, <4>3, <3>2, <1>6
        <4> QED  BY <4>2, <4>3
      <3>5. /\ \A j \in 1..i - 1 : j \in D /\ j # i
            /\ \A j \in i + 1..n : j \in D /\ j # i /\ j \in i..n
            /\ \A j \in i..n : j = i \/ j \in i + 1..n
            /\ i \in i..n
        BY <1>1
      <3>6. /\ \A j \in 1..i - 1 : down[i][j] = h[j]
            /\ \A j \in i + 1..n : down[i][j] = h[j] /\ h[j].key <= h[j].key
        BY <3>2, <3>3, <3>5
      <3> QED  BY <3>2, <3>3, <3>4, <3>5, <3>6
    <2>2. CASE i \notin Base
      <3> DEFINE c == Child(h, i)
                 w == down[c]
      <3>1. c \in D /\ c \in i + 1..n /\ c > i /\ c \div 2 = i /\ below[i] = c /\ h[c].key < e.key
        BY <1>1, <1>2, <2>2
      <3>2. \A j \in 2..n : j \div 2 = i => h[c].key <= h[j].key
        BY <1>2, <2>2
      <3>3. Good(w, c)
        BY <1>7, <2>2, <3>1
      <3>4. down[i] = [w EXCEPT ![i] = h[c]]
        BY <1>4, <2>2, <2>0
      <3> HIDE DEF c
      <3>5. down[i] \in R /\ down[i][i] = h[c] /\ \A j \in D : j # i => down[i][j] = w[j]
        BY <3>1, <3>3, <3>4, <1>1
      <3>6. \A j \in D : h[j].key \in Int /\ down[i][j].key \in Int /\ w[j].key \in Int
        BY <1>0, <1>1, <3>3, <3>5
      <3>7. w[c].key >= h[c].key
        BY <3>1, <3>3, <3>6, SMTT(30)
      <3>8. \A j \in D : j < c => w[j] = h[j]
        BY <3>1, <3>3, <1>1
      <3>9. \A j \in i + 1..n : j \in D /\ h[j].key <= w[j].key
        <4> SUFFICES ASSUME NEW j \in i + 1..n PROVE j \in D /\ h[j].key <= w[j].key
          OBVIOUS
        <4>1. j \in D
          BY <1>1
        <4>2. CASE j < c
          BY <4>1, <4>2, <3>8, <3>6
        <4>3. CASE j = c
          BY <4>1, <4>3, <3>7, <3>6
        <4>4. CASE j > c
          BY <4>1, <4>4, <3>1, <3>3, <1>1
        <4> QED  BY <4>1, <4>2, <4>3, <4>4, <3>1
      <3>10. ASSUME NEW j \in 2..n, j > i PROVE down[i][j \div 2].key <= down[i][j].key
        <4>1. j \in D /\ j \in i + 1..n /\ j # i /\ down[i][j] = w[j] /\ j \div 2 \in D
          BY <1>1, <1>6, <3>5, <3>10
        <4>2. CASE j \div 2 = i
          <5>1. h[c].key <= h[j].key /\ h[j].key <= w[j].key
            BY <4>1, <4>2, <3>2, <3>9
          <5>2. h[c].key <= w[j].key
            BY <5>1, <4>1, <3>6, <3>1
          <5> QED  BY <5>2, <4>1, <4>2, <3>5
        <4>3. CASE j \div 2 # i /\ j > c
          <5>1. w[j \div 2].key <= w[j].key
            BY <4>3, <3>3
          <5> QED  BY <5>1, <4>1, <4>3, <3>5
        <4>4. CASE j \div 2 # i /\ j < c
          <5>1. j \div 2 < c
            BY <4>4, <4>1, <1>6, <3>1
          <5>2. w[j] = h[j] /\ w[j \div 2] = h[j \div 2]
            BY <4>1, <4>4, <5>1, <3>8
          <5>3. h[j \div 2].key <= h[j].key
            BY <1>6
          <5>4. down[i][j \div 2] = w[j \div 2] /\ down[i][j] = w[j]
            BY <4>1, <4>4, <3>5
          <5> QED  BY <5>2, <5>3, <5>4, Zenon
        <4>5. j < c \/ j = c \/ j > c
          BY <3>1
        <4> QED  BY <4>2, <4>3, <4>4, <4>5, <3>1
      <3>11. /\ \A j \in 1..i - 1 : down[i][j] = h[j]
             /\ \A j \in i + 1..n : h[j].key <= down[i][j].key /\ down[i][j] = w[j]
        <4>1. \A j \in 1..i - 1 : j \in D /\ j # i /\ j < c
          BY <1>1, <3>1
        <4>2. \A j \in i + 1..n : j # i
          OBVIOUS
        <4> QED  BY <4>1, <4>2, <3>5, <3>8, <3>9
      <3>12. down[i][i].key >= h[i].key
        <4>1. h[i].key <= h[c].key
          BY <3>1, <1>6, <1>1
        <4> QED  BY <4>1, <3>1, <3>5, <3>6
      <3>13. \A j \in i..n : down[i][j] = e \/ \E k \in i + 1..n : down[i][j] = h[k]
        <4> SUFFICES ASSUME NEW j \in i..n PROVE down[i][j] = e \/ \E k \in i + 1..n : down[i][j] = h[k]
          OBVIOUS
        <4>1. CASE j = i
          BY <4>1, <3>5, <3>1
        <4>2. CASE j # i /\ j < c
          <5>1. j \in i + 1..n /\ j \in D
            BY <4>2, <1>1
          <5> QED  BY <5>1, <4>2, <3>8, <3>11
        <4>3. CASE j \in c..n
          <5>1. w[j] = e \/ \E k \in c + 1..n : w[j] = h[k]
            BY <4>3, <3>3
          <5>2. (\A k \in c + 1..n : k \in i + 1..n) /\ j \in i + 1..n
            BY <3>1, <4>3
          <5> QED  BY <5>1, <5>2, <3>11
        <4> QED  BY <4>1, <4>2, <4>3, <3>1
      <3>14. \E j \in i..n : down[i][j] = e
        <4>1. PICK j \in c..n : w[j] = e
          BY <3>3
        <4>2. j \in i..n /\ j \in i + 1..n
          BY <3>1
        <4> QED  BY <4>1, <4>2, <3>11
      <3>15. \A k \in i + 1..n : \E j \in i..n : down[i][j] = h[k]
        <4> SUFFICES ASSUME NEW k \in i + 1..n PROVE \E j \in i..n : down[i][j] = h[k]
          OBVIOUS
        <4>1. CASE k = c
          BY <4>1, <3>5, <3>1
        <4>2. CASE k < c
          <5>1. k \in D /\ k \in i..n
            BY <1>1
          <5> QED  BY <4>2, <5>1, <3>8, <3>11
        <4>3. CASE k \in c + 1..n
          <5>1. PICK j \in c..n : w[j] = h[k]
            BY <4>3, <3>3
          <5>2. j \in i..n /\ j \in i + 1..n
            BY <3>1
          <5> QED  BY <5>1, <5>2, <3>11
        <4> QED  BY <4>1, <4>2, <4>3, <3>1
      <3> HIDE DEF w
      <3> QED  BY <3>5, <3>10, <3>11, <3>12, <3>13, <3>14, <3>15
    <2> QED  BY <2>1, <2>2
  <1>8. Good(down[1], 1)
    <2>1. \A i \in D : i \in Base \/ below[i] \in T => i \in T
      <3> HIDE DEF Base, below, down, Good
      <3> QED  BY <1>7
    <2> HIDE DEF Base, below
    <2>2. D \subseteq T
      <3> HIDE DEF D, T
      <3> QED  BY <1>3, <2>1, GroundedInduction
    <2>3. 1 \in T
      <3> HIDE DEF T
      <3> QED  BY <1>1, <2>2
    <2> HIDE DEF Good, down
    <2> QED  BY <2>3
  <1> DEFINE r == down[1]
  <1>9. r \in Seq(E) /\ Len(r) = n
    <2>1. r \in R
      BY <1>8
    <2> HIDE DEF r, n
    <2> QED  BY <1>1, <2>1, FunctionIsSeq
  <1>10. /\ \A j \in 2..n : r[j \div 2].key <= r[j].key
         /\ \A j \in 1..n : r[j] = e \/ \E k \in 2..n : r[j] = h[k]
         /\ \E j \in 1..n : r[j] = e
         /\ \A k \in 2..n : \E j \in 1..n : r[j] = h[k]
    <2>1. 1 + 1 = 2 /\ \A j \in 2..n : j > 1
      OBVIOUS
    <2>2. /\ \A j \in 2..n : j > 1 => r[j \div 2].key <= r[j].key
          /\ \A j \in 1..n : r[j] = e \/ \E k \in 1 + 1..n : r[j] = h[k]
          /\ \E j \in 1..n : r[j] = e
          /\ \A k \in 1 + 1..n : \E j \in 1..n : r[j] = h[k]
      <3> HIDE DEF down, n, R
      <3> QED  BY <1>8
    <2> HIDE DEF r, n
    <2> QED  BY <2>1, <2>2
  <1>11. SiftDown(h, e) = r /\ n = Len(h)
    BY <1>5
  <1> HIDE DEF r, n
  <1>12. IsHeap(r)
    BY <1>9, <1>10 DEF IsHeap
  <1> QED  BY <1>9, <1>10, <1>11, <1>12

(* pop takes the first entry away, keeps the others, and leaves a heap. *)
LEMMA Pop ==
  ASSUME NEW E, Keyed(E), NEW h \in Seq(E), IsHeap(h), Len(h) > 0
  PROVE  /\ pop(h) \in Seq(E) /\ IsHeap(pop(h)) /\ Len(pop(h)) = Len(h) - 1
         /\ \A j \in 1..Len(pop(h)) : \E k \in 1..Len(h) : pop(h)[j] = h[k]
         /\ \A k \in 2..Len(h) : \E j \in 1..Len(pop(h)) : pop(h)[j] = h[k]
  <1>1. Len(h) \in Nat /\ \A j \in 1..Len(h) : h[j] \in E
    BY LenProperties, ElementOfSeq
  <1>2. CASE Len(h) = 1
    <2>1. pop(h) = <<>>
      BY <1>2 DEF pop
    <2> QED  BY <2>1, <1>1, <1>2 DEF IsHeap
  <1>3. CASE Len(h) # 1
    <2> DEFINE n == Len(h) - 1
               front == Front(h)
    <2>3. n \in Nat /\ n > 0 /\ Len(h) = n + 1
      <3>1. \A m \in Nat : m > 0 /\ m # 1 => m - 1 \in Nat /\ m - 1 > 0 /\ m = (m - 1) + 1
        OBVIOUS
      <3> QED  BY <1>1, <1>3, <3>1
    <2>1. front \in Seq(E) /\ Len(front) = n /\ \A j \in 1..n : front[j] = h[j]
      <3>1. front = SubSeq(h, 1, n)
        BY DEF Front
      <3> HIDE DEF front, n
      <3> QED  BY <1>1, <2>3, <3>1
    <2> DEFINE last == Last(h)
    <2>2. last = h[Len(h)] /\ last \in E
      BY <1>1 DEF Last
    <2>4. IsHeap(front)
      <3> SUFFICES ASSUME NEW j \in 2..n PROVE front[j \div 2].key <= front[j].key
        BY <2>1 DEF IsHeap
      <3>1. j \div 2 \in 1..n /\ j \in 1..n /\ j \in 2..Len(h)
        BY <2>3, Halves
      <3> QED  BY <3>1, <2>1 DEF IsHeap
    <2> DEFINE r == SiftDown(front, last)
    <2>5. pop(h) = r
      BY <1>3 DEF pop
    <2> HIDE DEF front, last, n
    <2>6. /\ r \in Seq(E) /\ IsHeap(r) /\ Len(r) = n
          /\ \A j \in 1..n : r[j] = last \/ \E k \in 2..n : r[j] = front[k]
          /\ \E j \in 1..n : r[j] = last
          /\ \A k \in 2..n : \E j \in 1..n : r[j] = front[k]
      <3>1. Len(front) > 0
        BY <2>1, <2>3
      <3>2. front \in Seq(E) /\ last \in E
        BY <2>1, <2>2
      <3>3. /\ r \in Seq(E) /\ IsHeap(r) /\ Len(r) = Len(front)
            /\ \A j \in 1..Len(front) : r[j] = last \/ \E k \in 2..Len(front) : r[j] = front[k]
            /\ \E j \in 1..Len(front) : r[j] = last
            /\ \A k \in 2..Len(front) : \E j \in 1..Len(front) : r[j] = front[k]
        <4>1. /\ SiftDown(front, last) \in Seq(E) /\ IsHeap(SiftDown(front, last))
              /\ Len(SiftDown(front, last)) = Len(front)
          BY <2>4, <3>1, <3>2, Sift
        <4>2. \A j \in 1..Len(front) : SiftDown(front, last)[j] = last
                                       \/ \E k \in 2..Len(front) : SiftDown(front, last)[j] = front[k]
          BY <2>4, <3>1, <3>2, Sift, SMTT(30)
        <4>3. \E j \in 1..Len(front) : SiftDown(front, last)[j] = last
          BY <2>4, <3>1, <3>2, Sift
        <4>4. \A k \in 2..Len(front) : \E j \in 1..Len(front) : SiftDown(front, last)[j] = front[k]
          BY <2>4, <3>1, <3>2, Sift
        <4> QED  BY <4>1, <4>2, <4>3, <4>4
      <3> QED  BY <2>1, <3>3
    <2> HIDE DEF r
    <2>7. \A k \in 2..n : front[k] = h[k] /\ k \in 1..Len(h)
      BY <2>1, <2>3
    <2>8. \A k \in 2..Len(h) : k \in 2..n \/ k = Len(h)
      BY <2>3
    <2>9. Len(h) \in 1..Len(h) /\ n = Len(h) - 1
      BY <2>3
    <2>10. ASSUME NEW j \in 1..n PROVE \E k \in 1..Len(h) : r[j] = h[k]
      <3>1. CASE r[j] = last
        BY <3>1, <2>2, <2>9
      <3>2. CASE \E k \in 2..n : r[j] = front[k]
        BY <3>2, <2>7
      <3> QED  BY <3>1, <3>2, <2>6
    <2>11. \A k \in 2..Len(h) : \E j \in 1..n : r[j] = h[k]
      BY <2>2, <2>6, <2>7, <2>8
    <2> QED  BY <2>5, <2>6, <2>9, <2>10, <2>11
  <1> QED  BY <1>2, <1>3

-----------------------------------------------------------------------------
(* Costs on a graph.                                                       *)

Penalties(g) == [Edges(g) -> Nat \ {0}]
Usable(g) == {x \in Entries(g) : g.edges[x \div 2].slow > 0}

LEMMA Products ==
  ASSUME NEW a \in Nat, NEW b \in Nat
  PROVE  a * b \in Nat /\ (b > 0 => a * b >= a)
  <1>1. a * b \in Nat
    OBVIOUS
  <1>2. ASSUME b > 0 PROVE a * b >= a
    <2>1. b - 1 \in Nat /\ a * (b - 1) >= 0 /\ a * b = a * (b - 1) + a
      BY <1>2
    <2> QED  BY <2>1, <1>1
  <1> QED  BY <1>1, <1>2

(* An entry is of an edge, and joins two nodes. *)
LEMMA EntryEnds ==
  ASSUME NEW g, IsLoaded(g), NEW x \in Entries(g)
  PROVE  /\ x \in Nat /\ x \div 2 \in Edges(g) /\ Begin(g, x) \in Nodes(g) /\ NodeAt(g, x) \in Nodes(g)
         /\ x % 2 \in {0, 1}
         /\ x % 2 = 0 => Begin(g, x) = g.edges[x \div 2].u /\ NodeAt(g, x) = g.edges[x \div 2].v
         /\ x % 2 = 1 => Begin(g, x) = g.edges[x \div 2].v /\ NodeAt(g, x) = g.edges[x \div 2].u
  <1> DEFINE m == Cardinality(Edges(g))
  <1>1. m \in Nat /\ Edges(g) = 0..m - 1 /\ x \in 0..2 * m - 1
    BY FS_CardinalityType DEF IsLoaded, Entries
  <1> HIDE DEF m
  <1>2. x \in Nat /\ x \div 2 \in 0..m - 1 /\ x % 2 \in {0, 1}
    BY <1>1
  <1>3. x \div 2 \in Edges(g)
    BY <1>1, <1>2
  <1>4. g.edges[x \div 2].u \in Nodes(g) /\ g.edges[x \div 2].v \in Nodes(g)
    BY <1>3 DEF IsLoaded
  <1> QED  BY <1>2, <1>3, <1>4 DEF Begin, NodeAt

LEMMA DelayType ==
  ASSUME NEW g, NEW e, NEW n
  PROVE  junctionDelay(g, e, n) \in 0..Delay
  BY NativeRouterAssumption DEF junctionDelay

LEMMA CostOverType ==
  ASSUME NEW g, IsLoaded(g), NEW p \in Penalties(g), NEW x \in Usable(g)
  PROVE  CostOver(g, p, x) \in Nat /\ g.edges[x \div 2].length <= CostOver(g, p, x)
  <1> DEFINE e == x \div 2
             l == g.edges[e].length
             w == g.edges[e].slow
             d == junctionDelay(g, e, NodeAt(g, x))
  <1>1. e \in Edges(g) /\ w > 0
    BY EntryEnds DEF Usable
  <1>2. l \in Nat /\ w \in Nat /\ d \in Nat
    BY <1>1, DelayType, NativeRouterAssumption DEF IsLoaded
  <1>3. p[e] \in Nat /\ p[e] > 0
    BY <1>1 DEF Penalties
  <1>4. CostOver(g, p, x) = (l * w + d) * p[e]
    BY DEF CostOver, Seconds, Length
  <1> HIDE DEF l, w, d, e
  <1>5. l * w \in Nat /\ l * w >= l
    BY <1>1, <1>2, Products
  <1>6. l * w + d \in Nat /\ l * w + d >= l
    BY <1>2, <1>5
  <1> DEFINE s == l * w + d
  <1> HIDE DEF s
  <1>7. s * p[e] \in Nat /\ s * p[e] >= s
    BY <1>3, <1>6, Products DEF s
  <1> QED  BY <1>2, <1>4, <1>6, <1>7 DEF s, l, e

LEMMA CostToEndType ==
  ASSUME NEW g, IsLoaded(g), NEW p \in Penalties(g), NEW snap, IsSnap(g, snap)
  PROVE  /\ CostToU(g, p, snap) \in Nat /\ snap.offset <= CostToU(g, p, snap)
         /\ CostToV(g, p, snap) \in Nat
         /\ g.edges[snap.edge].length - snap.offset <= CostToV(g, p, snap)
  <1> DEFINE e == snap.edge
             l == g.edges[e].length
             w == g.edges[e].slow
             o == snap.offset
             r == l - o
             f == p[e]
  <1>1. e \in Edges(g) /\ w > 0 /\ o \in 0..l
    BY DEF IsSnap
  <1>2. l \in Nat /\ w \in Nat
    BY <1>1 DEF IsLoaded
  <1>3. f \in Nat /\ f > 0
    BY <1>1 DEF Penalties
  <1>4. o \in Nat /\ r \in Nat
    BY <1>1, <1>2
  <1>5. CostToU(g, p, snap) = (o * w) * f /\ CostToV(g, p, snap) = (r * w) * f
    BY DEF CostToU, CostToV, Seconds, Length
  <1> HIDE DEF e, l, w, o, r, f
  <1>6. o * w \in Nat /\ o * w >= o /\ r * w \in Nat /\ r * w >= r
    BY <1>1, <1>2, <1>4, Products
  <1> DEFINE s == o * w
             t == r * w
  <1> HIDE DEF s, t
  <1>7. s * f \in Nat /\ s * f >= s /\ t * f \in Nat /\ t * f >= t
    BY <1>3, <1>6, Products DEF s, t
  <1>8. (o * w) * f \in Nat /\ o <= (o * w) * f /\ (r * w) * f \in Nat /\ r <= (r * w) * f
    BY <1>4, <1>6, <1>7 DEF s, t
  <1> QED  BY <1>5, <1>8 DEF r, o, l, e

LEMMA CostsToEndType ==
  ASSUME NEW g, IsLoaded(g), NEW p \in Penalties(g), NEW snap, IsSnap(g, snap), NEW n, NEW c \in CostsToEnd(g, p, snap, n)
  PROVE  c \in Nat
  BY CostToEndType DEF CostsToEnd

(* The estimate never exceeds what is left, from any node or over any edge *)
(* (estimate: the straight line at the greatest speed).                    *)
LEMMA EstimateType ==
  ASSUME NEW g, IsLoaded(g), NEW to, IsSnap(g, to), NEW n \in Nodes(g)
  PROVE  estimate(g, to, n) \in Nat /\ PositionOf(g, to) \in Int
  <1> DEFINE e == g.edges[to.edge]
  <1>1. to.edge \in Edges(g) /\ to.offset \in 0..e.length
    BY DEF IsSnap
  <1>2. e.u \in Nodes(g) /\ e.v \in Nodes(g) /\ e.length \in Nat
    BY <1>1 DEF IsLoaded
  <1>3. g.x[e.u] \in Int /\ g.x[e.v] \in Int /\ g.x[n] \in Int
    BY <1>2 DEF IsLoaded
  <1> DEFINE a == g.x[e.u]
             b == g.x[e.v]
             o == to.offset
             m == MinOf({o, Abs(b - a)})
  <1>4. a \in Int /\ b \in Int /\ o \in Nat /\ Abs(b - a) \in Nat
    BY <1>1, <1>2, <1>3 DEF Abs
  <1>5. m \in Nat
    <2> HIDE DEF o, a, b
    <2> DEFINE d == Abs(b - a)
    <2>1. d \in Nat
      BY <1>4
    <2> HIDE DEF d
    <2>2. \E y \in {o, d} : \A z \in {o, d} : y <= z
      BY <1>4, <2>1
    <2>3. MinOf({o, d}) \in {o, d}
      BY <2>2 DEF MinOf
    <2> QED  BY <2>1, <2>3, <1>4 DEF d
  <1>6. PositionOf(g, to) = a + (IF b < a THEN -1 ELSE 1) * m
    BY DEF PositionOf
  <1> HIDE DEF a, b, o, m
  <1>7. PositionOf(g, to) \in Int
    BY <1>4, <1>5, <1>6
  <1>8. g.x[n] - PositionOf(g, to) \in Int
    BY <1>3, <1>7
  <1> QED  BY <1>7, <1>8 DEF estimate, Abs

LEMMA EstimateAtEnds ==
  ASSUME NEW g, IsLoaded(g), NEW p \in Penalties(g), NEW to, IsSnap(g, to), NEW n,
         NEW c \in CostsToEnd(g, p, to, n)
  PROVE  estimate(g, to, n) <= c /\ n \in Nodes(g)
  <1> DEFINE e == g.edges[to.edge]
             a == g.x[e.u]
             b == g.x[e.v]
             o == to.offset
             l == e.length
             d == Abs(b - a)
             m == MinOf({o, d})
             q == PositionOf(g, to)
  <1>1. to.edge \in Edges(g) /\ o \in 0..l
    BY DEF IsSnap
  <1>2. e.u \in Nodes(g) /\ e.v \in Nodes(g) /\ l \in Nat /\ Abs(a - b) <= l
    BY <1>1 DEF IsLoaded
  <1>3. a \in Int /\ b \in Int
    BY <1>2 DEF IsLoaded
  <1>4. d \in Nat /\ d <= l /\ o \in Nat
    <2> HIDE DEF a, b, l, o
    <2> QED  BY <1>1, <1>2, <1>3 DEF Abs
  <1>5. m \in {o, d} /\ m <= o /\ m <= d
    <2> HIDE DEF o, d
    <2>1. \E y \in {o, d} : \A z \in {o, d} : y <= z
      BY <1>4
    <2>2. MinOf({o, d}) \in {o, d} /\ \A z \in {o, d} : MinOf({o, d}) <= z
      BY <2>1 DEF MinOf
    <2> QED  BY <2>2
  <1>6. q = a + (IF b < a THEN -1 ELSE 1) * m
    BY DEF PositionOf
  <1>7. estimate(g, to, e.u) = Abs(a - q) /\ estimate(g, to, e.v) = Abs(b - q)
    BY DEF estimate
  <1> HIDE DEF m, q
  <1>8. d = (IF b < a THEN a - b ELSE b - a)
    <2> HIDE DEF a, b
    <2> QED  BY <1>3 DEF Abs
  <1> HIDE DEF a, b, o, l, d
  <1>9. m \in Nat
    BY <1>4, <1>5
  <1>10. Abs(a - q) = m /\ Abs(b - q) = d - m
    <2>1. CASE b < a
      <3>1. q = a - m /\ d = a - b
        BY <1>3, <1>6, <1>8, <1>9, <2>1
      <3> QED  BY <3>1, <1>3, <1>4, <1>5, <1>9 DEF Abs
    <2>2. CASE ~(b < a)
      <3>1. q = a + m /\ d = b - a
        BY <1>3, <1>6, <1>8, <1>9, <2>2
      <3> QED  BY <3>1, <1>3, <1>4, <1>5, <1>9 DEF Abs
    <2> QED  BY <2>1, <2>2
  <1>11. m <= o /\ d - m <= l - o
    BY <1>1, <1>2, <1>4, <1>5, <1>9
  <1>12. /\ CostToU(g, p, to) \in Nat /\ o <= CostToU(g, p, to)
         /\ CostToV(g, p, to) \in Nat /\ l - o <= CostToV(g, p, to)
    BY CostToEndType DEF o, l
  <1>13. CASE n = e.u /\ c = CostToU(g, p, to)
    BY <1>13, <1>2, <1>4, <1>7, <1>9, <1>10, <1>11, <1>12
  <1>14. CASE n = e.v /\ c = CostToV(g, p, to)
    BY <1>14, <1>2, <1>4, <1>7, <1>9, <1>10, <1>11, <1>12
  <1>15. (n = e.u /\ c = CostToU(g, p, to)) \/ (n = e.v /\ c = CostToV(g, p, to))
    BY DEF CostsToEnd
  <1> QED  BY <1>13, <1>14, <1>15

LEMMA EstimateOver ==
  ASSUME NEW g, IsLoaded(g), NEW p \in Penalties(g), NEW to, IsSnap(g, to), NEW x \in Usable(g)
  PROVE  estimate(g, to, Begin(g, x)) <= CostOver(g, p, x) + estimate(g, to, NodeAt(g, x))
  <1> DEFINE e == g.edges[x \div 2]
             a == g.x[Begin(g, x)]
             b == g.x[NodeAt(g, x)]
             q == PositionOf(g, to)
             c == CostOver(g, p, x)
  <1>1. x \in Entries(g)
    BY DEF Usable
  <1>2. /\ x \div 2 \in Edges(g) /\ Begin(g, x) \in Nodes(g) /\ NodeAt(g, x) \in Nodes(g)
        /\ {g.x[e.u], g.x[e.v]} = {a, b}
    BY <1>1, EntryEnds
  <1>3. Abs(g.x[e.u] - g.x[e.v]) <= e.length /\ a \in Int /\ b \in Int /\ e.length \in Nat
    BY <1>2 DEF IsLoaded
  <1>4. c \in Nat /\ e.length <= c
    BY CostOverType
  <1>5. q \in Int
    BY <1>2, EstimateType
  <1>6. estimate(g, to, Begin(g, x)) = Abs(a - q) /\ estimate(g, to, NodeAt(g, x)) = Abs(b - q)
    BY DEF estimate
  <1> DEFINE r == g.x[e.u]
             t == g.x[e.v]
             l == e.length
  <1>7. (r = a /\ t = b) \/ (r = b /\ t = a)
    BY <1>2
  <1> HIDE DEF a, b, q, c, r, t, l
  <1>8. Abs(r - t) <= l /\ l <= c /\ l \in Nat
    BY <1>3, <1>4 DEF r, t, l
  <1>9. Abs(a - q) <= c + Abs(b - q)
    BY <1>3, <1>4, <1>5, <1>7, <1>8 DEF Abs
  <1> QED  BY <1>6, <1>9 DEF c

-----------------------------------------------------------------------------
(* The walks from the origin, by the number of their edges.                *)

AreWalks(g, p, from, W) ==
  /\ \A k \in Nat, n \in Nodes(g) : W[k][n] \subseteq Nat
  /\ \A n \in Nodes(g) : W[0][n] = CostsToEnd(g, p, from, n)
  /\ \A k \in Nat, n \in Nodes(g) : W[k][n] \subseteq W[k + 1][n]
  /\ \A k \in Nat, x \in Usable(g) : \A c \in W[k][Begin(g, x)] : c + CostOver(g, p, x) \in W[k + 1][NodeAt(g, x)]
  /\ \A k \in Nat, n \in Nodes(g) : \A c \in W[k + 1][n] :
       \/ c \in W[k][n]
       \/ \E x \in Usable(g) : NodeAt(g, x) = n /\ \E b \in W[k][Begin(g, x)] : c = b + CostOver(g, p, x)

LEMMA LongerType ==
  ASSUME NEW g, IsLoaded(g), NEW p \in Penalties(g), NEW w \in [Nodes(g) -> SUBSET Nat]
  PROVE  /\ Longer(g, p, w) \in [Nodes(g) -> SUBSET Nat]
         /\ \A n \in Nodes(g) : w[n] \subseteq Longer(g, p, w)[n]
         /\ \A x \in Usable(g) : \A c \in w[Begin(g, x)] : c + CostOver(g, p, x) \in Longer(g, p, w)[NodeAt(g, x)]
         /\ \A n \in Nodes(g) : \A c \in Longer(g, p, w)[n] :
              \/ c \in w[n]
              \/ \E x \in Usable(g) : NodeAt(g, x) = n /\ \E b \in w[Begin(g, x)] : c = b + CostOver(g, p, x)
  <1>1. \A n : Into(g, n) = {x \in Usable(g) : NodeAt(g, x) = n}
    BY Zenon DEF Into, Usable
  <1>2. \A x \in Usable(g) : x \in Entries(g) /\ Begin(g, x) \in Nodes(g) /\ NodeAt(g, x) \in Nodes(g)
    BY EntryEnds DEF Usable
  <1>3. \A x \in Usable(g) : CostOver(g, p, x) \in Nat
    BY CostOverType
  <1>4. \A n \in Nodes(g) :
          Longer(g, p, w)[n] = w[n] \cup UNION {{c + CostOver(g, p, x) : c \in w[Begin(g, x)]} : x \in Into(g, n)}
    BY DEF Longer
  <1>5. ASSUME NEW n \in Nodes(g), NEW c \in Longer(g, p, w)[n]
        PROVE  /\ c \in Nat
               /\ \/ c \in w[n]
                  \/ \E x \in Usable(g) : NodeAt(g, x) = n /\ \E b \in w[Begin(g, x)] : c = b + CostOver(g, p, x)
    <2>1. c \in w[n] \/ \E x \in Into(g, n) : c \in {b + CostOver(g, p, x) : b \in w[Begin(g, x)]}
      BY <1>4, <1>5
    <2>2. CASE c \in w[n]
      BY <2>2
    <2>3. CASE \E x \in Into(g, n) : c \in {b + CostOver(g, p, x) : b \in w[Begin(g, x)]}
      <3>1. PICK x \in Usable(g) : NodeAt(g, x) = n /\ c \in {b + CostOver(g, p, x) : b \in w[Begin(g, x)]}
        BY <1>1, <2>3
      <3>2. PICK b \in w[Begin(g, x)] : c = b + CostOver(g, p, x)
        BY <3>1
      <3>3. b \in Nat
        BY <1>2
      <3>4. c \in Nat
        BY <1>3, <3>2, <3>3
      <3> QED  BY <3>1, <3>2, <3>4
    <2> QED  BY <2>1, <2>2, <2>3
  <1>6. Longer(g, p, w) = [n \in Nodes(g) |-> Longer(g, p, w)[n]]
    BY <1>4 DEF Longer
  <1>7. Longer(g, p, w) \in [Nodes(g) -> SUBSET Nat]
    BY <1>5, <1>6
  <1>8. ASSUME NEW x \in Usable(g), NEW c \in w[Begin(g, x)]
        PROVE  c + CostOver(g, p, x) \in Longer(g, p, w)[NodeAt(g, x)]
    <2>1. x \in Into(g, NodeAt(g, x))
      BY <1>1
    <2>2. c + CostOver(g, p, x) \in {b + CostOver(g, p, x) : b \in w[Begin(g, x)]}
      OBVIOUS
    <2> QED  BY <1>2, <1>4, <2>1, <2>2
  <1> QED  BY <1>4, <1>5, <1>7, <1>8

LEMMA WalksUnfold ==
  ASSUME NEW g, IsLoaded(g), NEW p \in Penalties(g), NEW from, IsSnap(g, from)
  PROVE  AreWalks(g, p, from, CostsOfWalks(g, p, from))
  <1> DEFINE D == Nat
             R == [Nodes(g) -> SUBSET Nat]
             Base == {0}
             down == [i \in Nat |-> i - 1]
             A == [i \in Nat |-> [n \in Nodes(g) |-> CostsToEnd(g, p, from, n)]]
             G == [a \in D \X R |-> Longer(g, p, a[2])]
             W == CHOOSE walks : walks = [k \in Nat |->
                    IF k = 0 THEN [n \in Nodes(g) |-> CostsToEnd(g, p, from, n)] ELSE Longer(g, p, walks[k - 1])]
             id == [i \in Nat |-> i]
  <1>1. IsGrounded(D, Base, down)
    <2>1. \A i \in D : id[i] \in Nat
      OBVIOUS
    <2>2. \A i \in D : i \notin Base => down[i] \in D /\ id[down[i]] < id[i]
      OBVIOUS
    <2> HIDE DEF D, Base, down, id
    <2> QED  BY <2>1, <2>2, MeasureGrounds
  <1>2. \A i \in D : A[i] \in R
    <2>1. \A n \in Nodes(g) : CostsToEnd(g, p, from, n) \in SUBSET Nat
      BY CostsToEndType
    <2> QED  BY <2>1
  <1>3. \A i \in D, r \in R : G[<<i, r>>] \in R
    <2> TAKE i \in D, r \in R
    <2>1. G[<<i, r>>] = Longer(g, p, r)
      OBVIOUS
    <2> QED  BY <2>1, LongerType
  <1>4. IsRecursion(D, R, Base, down, A, G)
    <2> HIDE DEF D, R, Base, down, A, G
    <2> QED  BY <1>1, <1>2, <1>3 DEF IsRecursion
  <1>5. PICK f \in [D -> R] : \A i \in D : f[i] = IF i \in Base THEN A[i] ELSE G[<<i, f[down[i]]>>]
    <2> HIDE DEF D, R, Base, down, A, G
    <2> QED  BY <1>4, RecursionExists
  <1>6. f = [k \in Nat |-> IF k = 0 THEN [n \in Nodes(g) |-> CostsToEnd(g, p, from, n)] ELSE Longer(g, p, f[k - 1])]
    <2>1. \A k \in Nat : f[k] = IF k = 0 THEN [n \in Nodes(g) |-> CostsToEnd(g, p, from, n)] ELSE Longer(g, p, f[k - 1])
      <3> TAKE k \in Nat
      <3>1. CASE k = 0
        <4>1. f[k] = A[k]
          BY <1>5, <3>1
        <4> QED  BY <3>1, <4>1
      <3>2. CASE k # 0
        <4>1. k - 1 \in Nat /\ down[k] = k - 1
          BY <3>2
        <4>2. f[k] = G[<<k, f[k - 1]>>] /\ f[k - 1] \in R
          BY <1>5, <3>2, <4>1
        <4>3. G[<<k, f[k - 1]>>] = Longer(g, p, f[k - 1])
          BY <4>2
        <4> QED  BY <3>2, <4>2, <4>3
      <3> QED  BY <3>1, <3>2
    <2>2. f = [k \in Nat |-> f[k]]
      OBVIOUS
    <2> QED  BY <2>1, <2>2
  <1>7. W = [k \in Nat |-> IF k = 0 THEN [n \in Nodes(g) |-> CostsToEnd(g, p, from, n)] ELSE Longer(g, p, W[k - 1])]
    BY <1>6, Zenon
  <1>8. CostsOfWalks(g, p, from) = W
    BY Zenon DEF CostsOfWalks
  <1> HIDE DEF W
  <1>9. W[0] = [n \in Nodes(g) |-> CostsToEnd(g, p, from, n)] /\ \A k \in Nat : W[k + 1] = Longer(g, p, W[k])
    <2>1. \A k \in Nat : W[k] = IF k = 0 THEN [n \in Nodes(g) |-> CostsToEnd(g, p, from, n)] ELSE Longer(g, p, W[k - 1])
      BY <1>7
    <2>2. \A k \in Nat : k + 1 \in Nat /\ k + 1 # 0 /\ (k + 1) - 1 = k
      OBVIOUS
    <2>3. 0 \in Nat
      OBVIOUS
    <2>4. ASSUME NEW k \in Nat PROVE W[k + 1] = Longer(g, p, W[k])
      <3>1. W[k + 1] = Longer(g, p, W[(k + 1) - 1])
        BY <2>1, <2>2
      <3>2. (k + 1) - 1 = k
        OBVIOUS
      <3> HIDE DEF W
      <3> QED  BY <3>1, <3>2
    <2> QED  BY <2>1, <2>3, <2>4
  <1>10. \A k \in Nat : W[k] \in [Nodes(g) -> SUBSET Nat]
    <2> DEFINE T == {k \in Nat : W[k] \in [Nodes(g) -> SUBSET Nat]}
    <2>1. 0 \in T
      BY <1>2, <1>9
    <2>2. \A k \in Nat : k \in T => k + 1 \in T
      BY <1>9, LongerType
    <2>3. Nat \subseteq T
      <3> HIDE DEF T
      <3> QED  BY <2>1, <2>2, AllNaturals
    <2> QED  BY <2>3
  <1>11. ASSUME NEW k \in Nat
         PROVE  /\ \A n \in Nodes(g) : W[k][n] \subseteq W[k + 1][n]
                /\ \A x \in Usable(g) : \A c \in W[k][Begin(g, x)] : c + CostOver(g, p, x) \in W[k + 1][NodeAt(g, x)]
                /\ \A n \in Nodes(g) : \A c \in W[k + 1][n] :
                     \/ c \in W[k][n]
                     \/ \E x \in Usable(g) : NodeAt(g, x) = n /\ \E b \in W[k][Begin(g, x)] : c = b + CostOver(g, p, x)
    <2> DEFINE w == W[k]
    <2>1. w \in [Nodes(g) -> SUBSET Nat] /\ W[k + 1] = Longer(g, p, w)
      BY <1>9, <1>10
    <2> HIDE DEF w
    <2>2. /\ \A n \in Nodes(g) : w[n] \subseteq Longer(g, p, w)[n]
          /\ \A x \in Usable(g) : \A c \in w[Begin(g, x)] : c + CostOver(g, p, x) \in Longer(g, p, w)[NodeAt(g, x)]
          /\ \A n \in Nodes(g) : \A c \in Longer(g, p, w)[n] :
               \/ c \in w[n]
               \/ \E x \in Usable(g) : NodeAt(g, x) = n /\ \E b \in w[Begin(g, x)] : c = b + CostOver(g, p, x)
      BY <2>1, LongerType
    <2> QED  BY <2>1, <2>2, ZenonT(30) DEF w
  <1>12. /\ \A k \in Nat, n \in Nodes(g) : W[k][n] \subseteq Nat
         /\ \A n \in Nodes(g) : W[0][n] = CostsToEnd(g, p, from, n)
    BY <1>9, <1>10
  <1>13. AreWalks(g, p, from, W)
    BY <1>11, <1>12, Zenon DEF AreWalks
  <1> QED  BY <1>8, <1>13

(* The costs of all walks to a node, and the nodes of which the walks of   *)
(* at most k edges have a least cost.                                      *)
AllCosts(W, n) == UNION {W[k][n] : k \in Nat}
IsBest(W, n, c) == c \in AllCosts(W, n) /\ \A d \in AllCosts(W, n) : c <= d
Covered(g, W, k) == {n \in Nodes(g) : \A c \in AllCosts(W, n) : \E d \in W[k][n] : d <= c}

LEMMA AllCostsFacts ==
  ASSUME NEW g, IsLoaded(g), NEW p \in Penalties(g), NEW from, NEW W, AreWalks(g, p, from, W)
  PROVE  /\ \A n \in Nodes(g) : AllCosts(W, n) \subseteq Nat
         /\ \A n \in Nodes(g) : CostsToEnd(g, p, from, n) \subseteq AllCosts(W, n)
         /\ \A k \in Nat, n \in Nodes(g) : W[k][n] \subseteq AllCosts(W, n)
         /\ \A x \in Usable(g) : \A c \in AllCosts(W, Begin(g, x)) : c + CostOver(g, p, x) \in AllCosts(W, NodeAt(g, x))
         /\ \A n \in Nodes(g) : AllCosts(W, n) # {} => \E c \in AllCosts(W, n) : IsBest(W, n, c)
  <1>1. \A n \in Nodes(g) : AllCosts(W, n) \subseteq Nat
    BY DEF AreWalks, AllCosts
  <1>2. \A n \in Nodes(g) : CostsToEnd(g, p, from, n) \subseteq AllCosts(W, n)
    BY DEF AreWalks, AllCosts
  <1>3. \A k \in Nat, n \in Nodes(g) : W[k][n] \subseteq AllCosts(W, n)
    BY DEF AllCosts
  <1>4. ASSUME NEW x \in Usable(g), NEW c \in AllCosts(W, Begin(g, x))
        PROVE  c + CostOver(g, p, x) \in AllCosts(W, NodeAt(g, x))
    <2>1. PICK k \in Nat : c \in W[k][Begin(g, x)]
      BY DEF AllCosts
    <2>2. c + CostOver(g, p, x) \in W[k + 1][NodeAt(g, x)] /\ k + 1 \in Nat
      BY <2>1 DEF AreWalks
    <2> QED  BY <2>2 DEF AllCosts
  <1>5. ASSUME NEW n \in Nodes(g), AllCosts(W, n) # {} PROVE \E c \in AllCosts(W, n) : IsBest(W, n, c)
    <2> DEFINE T == AllCosts(W, n)
    <2>1. T \in SUBSET Nat /\ T # {}
      BY <1>1, <1>5
    <2> HIDE DEF T
    <2>2. \E x \in T : \A y \in T : x <= y
      BY <2>1, LeastNatural
    <2> QED  BY <2>2, Zenon DEF IsBest, T
  <1> QED  BY <1>1, <1>2, <1>3, <1>4, <1>5

LEMMA WalksGrow ==
  ASSUME NEW g, IsLoaded(g), NEW p \in Penalties(g), NEW from, NEW W, AreWalks(g, p, from, W),
         NEW k \in Nat, NEW j \in 0..k, NEW n \in Nodes(g)
  PROVE  W[j][n] \subseteq W[k][n]
  <1> DEFINE T == {i \in 0..k : \A h \in 0..i : W[h][n] \subseteq W[i][n]}
  <1>1. 0 \in T
    <2>1. \A h \in 0..0 : h = 0
      OBVIOUS
    <2> QED  BY <2>1
  <1>2. ASSUME NEW i \in 1..k, i - 1 \in T PROVE i \in T
    <2>1. i - 1 \in Nat /\ (i - 1) + 1 = i
      OBVIOUS
    <2>2. W[i - 1][n] \subseteq W[i][n]
      BY <2>1 DEF AreWalks
    <2>3. ASSUME NEW h \in 0..i PROVE W[h][n] \subseteq W[i][n]
      <3>1. CASE h = i
        BY <3>1
      <3>2. CASE h # i
        <4>1. h \in 0..i - 1
          BY <3>2
        <4> QED  BY <1>2, <2>2, <4>1
      <3> QED  BY <3>1, <3>2
    <2> QED  BY <2>3
  <1>3. 0..k \subseteq T
    <2> HIDE DEF T
    <2> QED  BY <1>1, <1>2, UpTo
  <1>4. k \in T
    BY <1>3
  <1> QED  BY <1>4

(* One more edge reaches the least cost of one more node.                  *)
LEMMA OneMore ==
  ASSUME NEW g, IsLoaded(g), NEW p \in Penalties(g), NEW from, NEW W, AreWalks(g, p, from, W), NEW k \in Nat
  PROVE  /\ Covered(g, W, k) \subseteq Covered(g, W, k + 1)
         /\ Covered(g, W, k) = Nodes(g) \/ Covered(g, W, k + 1) # Covered(g, W, k)
  <1>1. Covered(g, W, k) \subseteq Covered(g, W, k + 1)
    <2>1. \A n \in Nodes(g) : W[k][n] \subseteq W[k + 1][n]
      BY DEF AreWalks
    <2> QED  BY <2>1 DEF Covered
  <1>2. ASSUME Covered(g, W, k) # Nodes(g) PROVE Covered(g, W, k + 1) # Covered(g, W, k)
    <2> DEFINE J == {j \in Nat : \E n \in Nodes(g) : n \notin Covered(g, W, k) /\ \E c \in W[j][n] : IsBest(W, n, c)}
    <2>1. J # {}
      <3>1. PICK n \in Nodes(g) : n \notin Covered(g, W, k)
        BY <1>2 DEF Covered
      <3>2. AllCosts(W, n) # {}
        BY <3>1 DEF Covered
      <3>3. PICK c \in AllCosts(W, n) : IsBest(W, n, c)
        BY <3>2, AllCostsFacts
      <3>4. PICK j \in Nat : c \in W[j][n]
        BY DEF AllCosts
      <3> QED  BY <3>1, <3>3, <3>4
    <2>2. PICK j \in J : \A i \in J : j <= i
      <3>1. J \in SUBSET Nat
        OBVIOUS
      <3> HIDE DEF J
      <3> QED  BY <2>1, <3>1, LeastNatural
    <2>3. PICK n \in Nodes(g) : n \notin Covered(g, W, k) /\ \E c \in W[j][n] : IsBest(W, n, c)
      BY <2>2
    <2>4. PICK c \in W[j][n] : IsBest(W, n, c)
      BY <2>3
    <2>5. j \in Nat
      BY <2>2
    <2> HIDE DEF J
    <2>6. j > k
      <3>1. SUFFICES ASSUME j <= k PROVE FALSE
        BY <2>5
      <3>2. c \in W[k][n]
        BY <2>5, <3>1, WalksGrow
      <3> QED  BY <2>3, <2>4, <3>2 DEF Covered, IsBest
    <2>7. j - 1 \in Nat /\ (j - 1) + 1 = j /\ j - 1 \notin J
      BY <2>2, <2>5, <2>6
    <2>8. \/ c \in W[j - 1][n]
          \/ \E x \in Usable(g) : NodeAt(g, x) = n /\ \E b \in W[j - 1][Begin(g, x)] : c = b + CostOver(g, p, x)
      <3>1. c \in W[(j - 1) + 1][n]
        BY <2>7
      <3> QED  BY <2>7, <3>1 DEF AreWalks
    <2>9. c \notin W[j - 1][n]
      BY <2>3, <2>4, <2>7 DEF J
    <2>10. PICK x \in Usable(g) : NodeAt(g, x) = n /\ \E b \in W[j - 1][Begin(g, x)] : c = b + CostOver(g, p, x)
      BY <2>8, <2>9
    <2>11. PICK b \in W[j - 1][Begin(g, x)] : c = b + CostOver(g, p, x)
      BY <2>10
    <2>12. Begin(g, x) \in Nodes(g) /\ CostOver(g, p, x) \in Nat
      BY EntryEnds, CostOverType DEF Usable
    <2>13. b \in AllCosts(W, Begin(g, x)) /\ b \in Nat
      BY <2>7, <2>12, AllCostsFacts
    <2>14. IsBest(W, Begin(g, x), b)
      <3>1. SUFFICES ASSUME NEW d \in AllCosts(W, Begin(g, x)) PROVE b <= d
        BY <2>13 DEF IsBest
      <3>2. d \in Nat /\ d + CostOver(g, p, x) \in AllCosts(W, n)
        BY <2>10, <2>12, AllCostsFacts
      <3>3. c <= d + CostOver(g, p, x)
        BY <2>4, <3>2 DEF IsBest
      <3> QED  BY <2>11, <2>12, <2>13, <3>2, <3>3
    <2>15. Begin(g, x) \in Covered(g, W, k)
      BY <2>7, <2>12, <2>14 DEF J
    <2>16. PICK d \in W[k][Begin(g, x)] : d <= b
      BY <2>13, <2>15 DEF Covered
    <2>17. d \in AllCosts(W, Begin(g, x)) /\ d \in Nat
      BY <2>12, AllCostsFacts
    <2>18. d = b
      BY <2>13, <2>14, <2>16, <2>17 DEF IsBest
    <2>19. c \in W[k + 1][n]
      BY <2>10, <2>11, <2>16, <2>18 DEF AreWalks
    <2>20. n \in Covered(g, W, k + 1)
      BY <2>4, <2>19 DEF Covered, IsBest
    <2> QED  BY <2>3, <2>20
  <1> QED  BY <1>1, <1>2

(* No walk of least cost has more edges than there are nodes.              *)
LEMMA LeastWalks ==
  ASSUME NEW g, IsLoaded(g), NEW p \in Penalties(g), NEW from, NEW W, AreWalks(g, p, from, W),
         NEW n \in Nodes(g), NEW c \in AllCosts(W, n)
  PROVE  \E d \in W[g.nodes][n] : d <= c
  <1>1. g.nodes \in Nat /\ Nodes(g) = 0..g.nodes - 1
    BY DEF IsLoaded, Nodes
  <1>2. IsFiniteSet(Nodes(g)) /\ Cardinality(Nodes(g)) = g.nodes
    <2>1. 0 \in Int /\ g.nodes - 1 \in Int
      BY <1>1
    <2>2. IsFiniteSet(0..g.nodes - 1) /\ Cardinality(0..g.nodes - 1) = IF 0 > g.nodes - 1 THEN 0 ELSE (g.nodes - 1) - 0 + 1
      BY <2>1, FS_Interval
    <2> QED  BY <1>1, <2>2
  <1> DEFINE F(k) == Covered(g, W, k)
             T == {k \in Nat : F(k) = Nodes(g) \/ Cardinality(F(k)) >= k}
  <1>3. \A k \in Nat : F(k) \subseteq Nodes(g) /\ F(k) \subseteq F(k + 1) /\ (F(k) = Nodes(g) \/ F(k + 1) # F(k))
    <2>1. \A k : F(k) \subseteq Nodes(g)
      BY DEF Covered
    <2> QED  BY <2>1, OneMore
  <1>4. \A k \in Nat : IsFiniteSet(F(k)) /\ Cardinality(F(k)) \in Nat
    <2> HIDE DEF F
    <2> QED  BY <1>2, <1>3, FS_Subset, FS_CardinalityType
  <1>5. 0 \in T
    BY <1>4
  <1>6. ASSUME NEW k \in Nat, k \in T PROVE k + 1 \in T
    <2>1. k + 1 \in Nat
      OBVIOUS
    <2>2. CASE F(k) = Nodes(g)
      <3>1. F(k + 1) = Nodes(g)
        BY <1>3, <2>1, <2>2
      <3> QED  BY <2>1, <3>1
    <2>3. CASE F(k) # Nodes(g)
      <3> DEFINE S == F(k)
                 U == F(k + 1)
      <3>1. S \subseteq U /\ U # S /\ IsFiniteSet(U) /\ IsFiniteSet(S) /\ Cardinality(S) >= k
        BY <1>3, <1>4, <1>6, <2>1, <2>3
      <3> HIDE DEF S, U
      <3>2. Cardinality(S) <= Cardinality(U) /\ Cardinality(S) # Cardinality(U)
        BY <3>1, FS_Subset
      <3>3. Cardinality(S) \in Nat /\ Cardinality(U) \in Nat
        BY <3>1, FS_CardinalityType
      <3>4. Cardinality(U) >= k + 1
        BY <3>1, <3>2, <3>3
      <3> QED  BY <2>1, <3>4 DEF U
    <2> QED  BY <2>2, <2>3
  <1>7. Nat \subseteq T
    <2> HIDE DEF T
    <2> QED  BY <1>5, <1>6, AllNaturals
  <1>8. g.nodes \in T
    BY <1>1, <1>7
  <1>9. F(g.nodes) = Nodes(g)
    <2> DEFINE S == F(g.nodes)
               N == Nodes(g)
    <2>1. S \subseteq N /\ IsFiniteSet(N) /\ Cardinality(N) = g.nodes /\ (S = N \/ Cardinality(S) >= g.nodes)
      BY <1>1, <1>2, <1>3, <1>8
    <2> HIDE DEF S, N
    <2>2. Cardinality(S) <= Cardinality(N) /\ IsFiniteSet(S) /\ (Cardinality(S) = Cardinality(N) => S = N)
      BY <2>1, FS_Subset
    <2>3. Cardinality(S) \in Nat /\ Cardinality(N) \in Nat
      BY <2>1, <2>2, FS_CardinalityType
    <2>4. S = N
      BY <2>1, <2>2, <2>3
    <2> QED  BY <2>4 DEF S, N
  <1> QED  BY <1>9 DEF Covered

-----------------------------------------------------------------------------
(* What holds of the arrays and the heap in a search.                      *)

IsLeg(g, p, from, to) == IsLoaded(g) /\ p \in Penalties(g) /\ IsSnap(g, from) /\ IsSnap(g, to)
WalkCosts(g, p, from, n) == AllCosts(CostsOfWalks(g, p, from), n)
Queued(g) == [key : Nat, node : Nodes(g)]
Labels(g) == [marks : [Nodes(g) -> Nat], cost : [Nodes(g) -> Nat], via : [Nodes(g) -> Int], heap : Seq(Queued(g))]

MayArrive(g, p, from, now, s, node, value, by) ==
  \/ by = -1 /\ node = g.edges[from.edge].u /\ value = CostToU(g, p, from)
  \/ by = -2 /\ node = g.edges[from.edge].v /\ value = CostToV(g, p, from)
  \/ /\ by \in Usable(g) /\ NodeAt(g, by) = node
     /\ s.marks[Begin(g, by)] = now /\ s.cost[Begin(g, by)] + CostOver(g, p, by) <= value

Marked(g, now, s) == {n \in Nodes(g) : s.marks[n] = now}
Seeded(g, s) == {n \in Nodes(g) : s.via[n] < 0}
Before(g, s) == [n \in Nodes(g) |-> Begin(g, s.via[n])]
HeapHolds(now, s) == IsHeap(s.heap) /\ \A j \in 1..Len(s.heap) : s.marks[s.heap[j].node] = now
InSearch(g, p, from, now, s) ==
  /\ s \in Labels(g) /\ HeapHolds(now, s)
  /\ \A n \in Marked(g, now, s) : /\ s.cost[n] \in WalkCosts(g, p, from, n)
                                  /\ MayArrive(g, p, from, now, s, n, s.cost[n], s.via[n])
  /\ IsGrounded(Marked(g, now, s), Seeded(g, s), Before(g, s))

Reached(now, s, n, c) == s.marks[n] = now /\ s.cost[n] <= c
KeyOf(g, to, s, n) == [key |-> s.cost[n] + estimate(g, to, n), node |-> n]
Live(g, to, s, n) == \E j \in 1..Len(s.heap) : s.heap[j] = KeyOf(g, to, s, n)
IsSpread(g, p, now, s, n) ==
  \A x \in Usable(g) : Begin(g, x) = n => Reached(now, s, NodeAt(g, x), s.cost[n] + CostOver(g, p, x))
IsTaken(g, p, to, best_, s, n) == \A t \in CostsToEnd(g, p, to, n) : best_ # Infinity /\ best_ <= s.cost[n] + t
Progress(g, p, to, now, best_, s, X) ==
  \A n \in Marked(g, now, s) : \/ n \in X \/ Live(g, to, s, n)
                               \/ IsSpread(g, p, now, s, n) /\ IsTaken(g, p, to, best_, s, n)

(* A label is only ever lowered.                                           *)
Lowered(g, now, s, t) ==
  \A n \in Nodes(g) : s.marks[n] = now => t.marks[n] = now /\ t.cost[n] <= s.cost[n]
Kept(g, s, t, node) == \A n \in Nodes(g) : n # node => t.marks[n] = s.marks[n] /\ t.cost[n] = s.cost[n] /\ t.via[n] = s.via[n]

LEMMA WalkCostsFacts ==
  ASSUME NEW g, NEW p, NEW from, NEW to, IsLeg(g, p, from, to)
  PROVE  /\ \A n \in Nodes(g) : WalkCosts(g, p, from, n) \subseteq Nat
         /\ \A n \in Nodes(g) : CostsToEnd(g, p, from, n) \subseteq WalkCosts(g, p, from, n)
         /\ \A k \in Nat, n \in Nodes(g) : CostsOfWalks(g, p, from)[k][n] \subseteq WalkCosts(g, p, from, n)
         /\ \A x \in Usable(g) : \A c \in WalkCosts(g, p, from, Begin(g, x)) :
              c + CostOver(g, p, x) \in WalkCosts(g, p, from, NodeAt(g, x))
  BY WalksUnfold, AllCostsFacts DEF IsLeg, WalkCosts

LEMMA UsableFacts ==
  ASSUME NEW g, NEW p, NEW from, NEW to, IsLeg(g, p, from, to)
  PROVE  \A x \in Usable(g) : /\ x \in Nat /\ x \div 2 \in Edges(g) /\ Begin(g, x) \in Nodes(g) /\ NodeAt(g, x) \in Nodes(g)
                              /\ CostOver(g, p, x) \in Nat
  BY EntryEnds, CostOverType DEF IsLeg, Usable

LEMMA Relax ==
  ASSUME NEW g, NEW p, NEW from, NEW to, IsLeg(g, p, from, to), NEW now \in Nat, NEW s, InSearch(g, p, from, now, s),
         NEW best_, NEW X, Progress(g, p, to, now, best_, s, X),
         NEW node \in Nodes(g), NEW value \in WalkCosts(g, p, from, node),
         NEW by \in Int, MayArrive(g, p, from, now, s, node, value, by)
  PROVE  /\ InSearch(g, p, from, now, relax(g, to, s, now, node, value, by))
         /\ Progress(g, p, to, now, best_, relax(g, to, s, now, node, value, by), X)
         /\ Reached(now, relax(g, to, s, now, node, value, by), node, value)
         /\ Kept(g, s, relax(g, to, s, now, node, value, by), node)
         /\ Lowered(g, now, s, relax(g, to, s, now, node, value, by))
         /\ Reached(now, s, node, value) => relax(g, to, s, now, node, value, by) = s
         /\ \A n \in Nodes(g) : relax(g, to, s, now, node, value, by).marks[n] \in {s.marks[n], now}
  <1> DEFINE t == relax(g, to, s, now, node, value, by)
             e == [key |-> value + estimate(g, to, node), node |-> node]
  <1>1. s \in Labels(g) /\ value \in Nat /\ \A n \in Nodes(g) : estimate(g, to, n) \in Nat
    BY WalkCostsFacts, EstimateType DEF InSearch, IsLeg
  <1>2. CASE Reached(now, s, node, value)
    <2>1. t = s
      BY <1>2 DEF relax, Reached
    <2>2. \A n \in Nodes(g) : s.cost[n] <= s.cost[n]
      BY <1>1 DEF Labels
    <2> QED  BY <1>2, <2>1, <2>2 DEF Kept, Lowered
  <1>3. CASE ~Reached(now, s, node, value)
    <2>1. t = Relabelled(s, now, node, value, by, e)
      BY <1>3 DEF relax, Reached
    <2> DEFINE h == push(s.heap, e)
    <2>2. e \in Queued(g) /\ Keyed(Queued(g)) /\ s.heap \in Seq(Queued(g)) /\ IsHeap(s.heap)
      BY <1>1 DEF Queued, Keyed, Labels, InSearch, HeapHolds
    <2>3. /\ h \in Seq(Queued(g)) /\ IsHeap(h) /\ Len(h) = Len(s.heap) + 1
          /\ \A j \in 1..Len(h) : h[j] = e \/ \E k \in 1..Len(s.heap) : h[j] = s.heap[k]
          /\ \E j \in 1..Len(h) : h[j] = e
          /\ \A k \in 1..Len(s.heap) : \E j \in 1..Len(h) : h[j] = s.heap[k]
      <3> DEFINE q == s.heap
                 E == Queued(g)
      <3>1. e \in E /\ Keyed(E) /\ q \in Seq(E) /\ IsHeap(q)
        BY <2>2
      <3> HIDE DEF e, q, E
      <3>2. push(q, e) \in Seq(E) /\ IsHeap(push(q, e)) /\ Len(push(q, e)) = Len(q) + 1
        BY <3>1, Push
      <3>3. \A j \in 1..Len(push(q, e)) : push(q, e)[j] = e \/ \E k \in 1..Len(q) : push(q, e)[j] = q[k]
        BY <3>1, Push
      <3>4. \E j \in 1..Len(push(q, e)) : push(q, e)[j] = e
        BY <3>1, Push
      <3>5. \A k \in 1..Len(q) : \E j \in 1..Len(push(q, e)) : push(q, e)[j] = q[k]
        BY <3>1, Push
      <3> QED  BY <3>2, <3>3, <3>4, <3>5, Zenon DEF q, E, h
    <2> HIDE DEF h
    <2>4. /\ t.marks = [s.marks EXCEPT ![node] = now] /\ t.cost = [s.cost EXCEPT ![node] = value]
          /\ t.via = [s.via EXCEPT ![node] = by] /\ t.heap = h
          /\ t = [marks |-> t.marks, cost |-> t.cost, via |-> t.via, heap |-> t.heap]
      BY <2>1 DEF Relabelled, h
    <2> HIDE DEF t
    <2>5. t \in Labels(g)
      <3>1. s.marks \in [Nodes(g) -> Nat] /\ s.cost \in [Nodes(g) -> Nat] /\ s.via \in [Nodes(g) -> Int]
        BY <1>1 DEF Labels
      <3>2. t.marks \in [Nodes(g) -> Nat] /\ t.cost \in [Nodes(g) -> Nat] /\ t.via \in [Nodes(g) -> Int] /\ t.heap \in Seq(Queued(g))
        BY <1>1, <2>3, <2>4, <3>1
      <3> QED  BY <2>4, <3>2 DEF Labels
    <2>6. /\ t.marks[node] = now /\ t.cost[node] = value /\ t.via[node] = by
          /\ \A n \in Nodes(g) : n # node => t.marks[n] = s.marks[n] /\ t.cost[n] = s.cost[n] /\ t.via[n] = s.via[n]
      BY <1>1, <2>4 DEF Labels
    <2>7. Kept(g, s, t, node) /\ Reached(now, t, node, value) /\ \A n \in Nodes(g) : t.marks[n] \in {s.marks[n], now}
      BY <1>1, <2>6 DEF Kept, Reached
    <2>8. Lowered(g, now, s, t)
      <3> SUFFICES ASSUME NEW n \in Nodes(g), s.marks[n] = now PROVE t.marks[n] = now /\ t.cost[n] <= s.cost[n]
        BY DEF Lowered
      <3>1. s.cost[n] \in Nat
        BY <1>1 DEF Labels
      <3>2. CASE n = node
        BY <1>1, <1>3, <2>6, <3>1, <3>2 DEF Reached
      <3>3. CASE n # node
        BY <2>6, <3>1, <3>3
      <3> QED  BY <3>2, <3>3
    <2>9. HeapHolds(now, t)
      <3>1. ASSUME NEW j \in 1..Len(h) PROVE t.marks[h[j].node] = now
        <4>1. CASE h[j] = e
          BY <2>6, <4>1
        <4>2. CASE \E k \in 1..Len(s.heap) : h[j] = s.heap[k]
          <5>1. PICK k \in 1..Len(s.heap) : h[j] = s.heap[k]
            BY <4>2
          <5>2. s.heap[k] \in Queued(g)
            BY <2>2, ElementOfSeq
          <5>3. s.marks[s.heap[k].node] = now /\ s.heap[k].node \in Nodes(g)
            BY <5>2 DEF InSearch, HeapHolds, Queued
          <5> QED  BY <2>8, <5>1, <5>3 DEF Lowered
        <4> QED  BY <2>3, <4>1, <4>2
      <3> QED  BY <2>3, <2>4, <3>1 DEF HeapHolds
    <2>10. ASSUME NEW n \in Marked(g, now, t)
           PROVE  /\ t.cost[n] \in WalkCosts(g, p, from, n)
                  /\ MayArrive(g, p, from, now, t, n, t.cost[n], t.via[n])
      <3>1. ASSUME NEW m \in Nodes(g), NEW c \in Int, NEW b, MayArrive(g, p, from, now, s, m, c, b)
            PROVE  MayArrive(g, p, from, now, t, m, c, b)
        <4>1. CASE \/ b = -1 /\ m = g.edges[from.edge].u /\ c = CostToU(g, p, from)
                   \/ b = -2 /\ m = g.edges[from.edge].v /\ c = CostToV(g, p, from)
          BY <4>1, Zenon DEF MayArrive
        <4>2. CASE /\ b \in Usable(g) /\ NodeAt(g, b) = m
                   /\ s.marks[Begin(g, b)] = now /\ s.cost[Begin(g, b)] + CostOver(g, p, b) <= c
          <5>1. Begin(g, b) \in Nodes(g) /\ CostOver(g, p, b) \in Nat
            BY <4>2, UsableFacts
          <5>2. t.marks[Begin(g, b)] = now /\ t.cost[Begin(g, b)] <= s.cost[Begin(g, b)]
            BY <2>8, <4>2, <5>1 DEF Lowered
          <5>3. t.cost[Begin(g, b)] \in Nat /\ s.cost[Begin(g, b)] \in Nat
            BY <1>1, <2>5, <5>1 DEF Labels
          <5>4. t.cost[Begin(g, b)] + CostOver(g, p, b) <= c
            BY <4>2, <5>1, <5>2, <5>3
          <5> QED  BY <4>2, <5>2, <5>4 DEF MayArrive
        <4> QED  BY <3>1, <4>1, <4>2 DEF MayArrive
      <3>2. CASE n = node
        BY <1>1, <2>6, <3>1, <3>2
      <3>3. CASE n # node
        <4>1. n \in Marked(g, now, s) /\ n \in Nodes(g) /\ t.cost[n] = s.cost[n] /\ t.via[n] = s.via[n]
          BY <2>6, <3>3 DEF Marked
        <4>2. s.cost[n] \in WalkCosts(g, p, from, n) /\ MayArrive(g, p, from, now, s, n, s.cost[n], s.via[n])
          BY <4>1 DEF InSearch
        <4>3. s.cost[n] \in Int
          BY <1>1, <4>1 DEF Labels
        <4> QED  BY <3>1, <4>1, <4>2, <4>3
      <3> QED  BY <3>2, <3>3
    <2>11. IsGrounded(Marked(g, now, t), Seeded(g, t), Before(g, t))
      <3>1. ASSUME NEW n \in Marked(g, now, t), n \notin Seeded(g, t) PROVE Before(g, t)[n] \in Marked(g, now, t)
        <4>1. n \in Nodes(g) /\ ~(t.via[n] < 0) /\ MayArrive(g, p, from, now, t, n, t.cost[n], t.via[n])
          BY <2>10, <3>1 DEF Marked, Seeded
        <4>2. t.via[n] \in Usable(g) /\ t.marks[Begin(g, t.via[n])] = now
          BY <4>1 DEF MayArrive
        <4> QED  BY <4>1, <4>2, UsableFacts DEF Before, Marked
      <3>2. ASSUME NEW S \in SUBSET Marked(g, now, t), S # {}
            PROVE  \E m \in S : m \in Seeded(g, t) \/ Before(g, t)[m] \notin S
        <4> DEFINE U == {m \in S : m # node /\ (node \notin S \/ s.cost[m] <= value)}
        <4>1. U \subseteq Marked(g, now, s)
          BY <2>6 DEF Marked
        <4>2. ASSUME U # {} PROVE \E m \in S : m \in Seeded(g, t) \/ Before(g, t)[m] \notin S
          <5>1. PICK m \in U : m \in Seeded(g, s) \/ Before(g, s)[m] \notin U
            BY <4>1, <4>2 DEF InSearch, IsGrounded
          <5>2. m \in Nodes(g) /\ m # node /\ t.via[m] = s.via[m]
            BY <2>6, <5>1 DEF Marked
          <5>3. CASE m \in Seeded(g, s)
            BY <5>2, <5>3 DEF Seeded
          <5>4. CASE m \notin Seeded(g, s) /\ Before(g, s)[m] \notin U
            <6> DEFINE b == Begin(g, s.via[m])
            <6>1. Before(g, s)[m] = b /\ Before(g, t)[m] = b
              BY <5>2 DEF Before
            <6>2. /\ s.via[m] \in Usable(g) /\ s.marks[b] = now /\ s.cost[b] + CostOver(g, p, s.via[m]) <= s.cost[m]
              <7>1. MayArrive(g, p, from, now, s, m, s.cost[m], s.via[m]) /\ ~(s.via[m] < 0)
                BY <4>1, <5>2, <5>4 DEF InSearch, Seeded
              <7> QED  BY <7>1 DEF MayArrive
            <6>3. b \in Nodes(g) /\ CostOver(g, p, s.via[m]) \in Nat /\ s.cost[b] \in Nat /\ s.cost[m] \in Nat
              BY <1>1, <5>2, <6>2, UsableFacts DEF Labels
            <6>4. s.cost[b] <= s.cost[m]
              BY <6>2, <6>3
            <6> HIDE DEF b
            <6>5. ASSUME b \in S PROVE FALSE
              <7>1. CASE node \notin S
                BY <5>4, <6>1, <6>5, <7>1
              <7>2. CASE node \in S
                <8>1. s.cost[m] <= value
                  BY <5>1, <7>2
                <8>2. s.cost[b] <= value
                  BY <1>1, <6>3, <6>4, <8>1
                <8>3. b = node
                  BY <5>4, <6>1, <6>5, <8>2
                <8> QED  BY <1>3, <6>2, <8>2, <8>3 DEF Reached
              <7> QED  BY <7>1, <7>2
            <6> QED  BY <6>1, <6>5
          <5> QED  BY <5>1, <5>3, <5>4
        <4>3. ASSUME U = {} PROVE \E m \in S : m \in Seeded(g, t) \/ Before(g, t)[m] \notin S
          <5>1. node \in S
            BY <3>2, <4>3
          <5>2. CASE by < 0
            BY <2>6, <5>1, <5>2 DEF Seeded
          <5>3. CASE ~(by < 0)
            <6>1. by \in Usable(g) /\ s.marks[Begin(g, by)] = now /\ s.cost[Begin(g, by)] + CostOver(g, p, by) <= value
              BY <5>3 DEF MayArrive
            <6> DEFINE b == Begin(g, by)
            <6>2. b \in Nodes(g) /\ CostOver(g, p, by) \in Nat /\ s.cost[b] \in Nat
              BY <1>1, <6>1, UsableFacts DEF Labels
            <6>3. s.cost[b] <= value /\ b # node
              BY <1>1, <1>3, <6>1, <6>2 DEF Reached
            <6>4. Before(g, t)[node] = b
              BY <2>6 DEF Before
            <6>5. b \notin S
              BY <4>3, <6>3
            <6> QED  BY <5>1, <6>4, <6>5
          <5> QED  BY <5>2, <5>3
        <4> QED  BY <4>2, <4>3
      <3> QED  BY <3>1, <3>2 DEF IsGrounded
    <2>12. Progress(g, p, to, now, best_, t, X)
      <3> SUFFICES ASSUME NEW n \in Marked(g, now, t), n \notin X
                   PROVE  \/ Live(g, to, t, n)
                          \/ IsSpread(g, p, now, t, n) /\ IsTaken(g, p, to, best_, t, n)
        BY DEF Progress
      <3>1. CASE n = node
        <4>1. KeyOf(g, to, t, n) = e
          BY <2>6, <3>1 DEF KeyOf
        <4> QED  BY <2>3, <2>4, <4>1 DEF Live
      <3>2. CASE n # node
        <4>1. n \in Marked(g, now, s) /\ n \in Nodes(g) /\ t.cost[n] = s.cost[n]
          BY <2>6, <3>2 DEF Marked
        <4>2. CASE Live(g, to, s, n)
          <5>1. KeyOf(g, to, t, n) = KeyOf(g, to, s, n)
            BY <4>1 DEF KeyOf
          <5>2. PICK k \in 1..Len(s.heap) : s.heap[k] = KeyOf(g, to, s, n)
            BY <4>2 DEF Live
          <5>3. PICK j \in 1..Len(h) : h[j] = s.heap[k]
            BY <2>3
          <5> QED  BY <2>4, <5>1, <5>2, <5>3 DEF Live
        <4>3. CASE IsSpread(g, p, now, s, n) /\ IsTaken(g, p, to, best_, s, n)
          <5>1. IsTaken(g, p, to, best_, t, n)
            BY <4>1, <4>3 DEF IsTaken
          <5>2. ASSUME NEW x \in Usable(g), Begin(g, x) = n
                PROVE  Reached(now, t, NodeAt(g, x), t.cost[n] + CostOver(g, p, x))
            <6>1. Reached(now, s, NodeAt(g, x), s.cost[n] + CostOver(g, p, x))
              BY <4>3, <5>2 DEF IsSpread
            <6>2. NodeAt(g, x) \in Nodes(g) /\ CostOver(g, p, x) \in Nat
              BY UsableFacts
            <6>3. t.marks[NodeAt(g, x)] = now /\ t.cost[NodeAt(g, x)] <= s.cost[NodeAt(g, x)]
              BY <2>8, <6>1, <6>2 DEF Lowered, Reached
            <6>4. s.cost[n] \in Nat /\ s.cost[NodeAt(g, x)] \in Nat /\ t.cost[NodeAt(g, x)] \in Nat
              BY <1>1, <2>5, <4>1, <6>2 DEF Labels
            <6> QED  BY <4>1, <6>1, <6>2, <6>3, <6>4 DEF Reached
          <5> QED  BY <5>1, <5>2 DEF IsSpread
        <4> QED  BY <3>2, <4>1, <4>2, <4>3 DEF Progress
      <3> QED  BY <3>1, <3>2
    <2>13. InSearch(g, p, from, now, t)
      BY <2>5, <2>9, <2>10, <2>11 DEF InSearch
    <2> QED  BY <1>3, <2>7, <2>8, <2>12, <2>13 DEF t
  <1> QED  BY <1>2, <1>3

LEMMA RelaxType ==
  ASSUME NEW g, IsLoaded(g), NEW to, IsSnap(g, to), NEW now \in Nat, NEW s \in Labels(g), IsHeap(s.heap),
         NEW node \in Nodes(g), NEW value \in Nat, NEW by \in Int
  PROVE  relax(g, to, s, now, node, value, by) \in Labels(g) /\ IsHeap(relax(g, to, s, now, node, value, by).heap)
  <1> DEFINE t == relax(g, to, s, now, node, value, by)
             e == [key |-> value + estimate(g, to, node), node |-> node]
  <1>1. CASE t = s
    BY <1>1
  <1>2. CASE t = Relabelled(s, now, node, value, by, e)
    <2> DEFINE q == s.heap
               E == Queued(g)
               h == push(q, e)
    <2>1. e \in E /\ Keyed(E) /\ q \in Seq(E) /\ IsHeap(q)
      BY EstimateType DEF Queued, Keyed, Labels
    <2> HIDE DEF e, q, E
    <2>2. h \in Seq(E) /\ IsHeap(h)
      BY <2>1, Push
    <2> HIDE DEF h
    <2>3. /\ t.marks = [s.marks EXCEPT ![node] = now] /\ t.cost = [s.cost EXCEPT ![node] = value]
          /\ t.via = [s.via EXCEPT ![node] = by] /\ t.heap = h
          /\ t = [marks |-> t.marks, cost |-> t.cost, via |-> t.via, heap |-> t.heap]
      BY <1>2 DEF Relabelled, h, q
    <2> HIDE DEF t
    <2>4. s.marks \in [Nodes(g) -> Nat] /\ s.cost \in [Nodes(g) -> Nat] /\ s.via \in [Nodes(g) -> Int]
      BY DEF Labels
    <2>5. t.marks \in [Nodes(g) -> Nat] /\ t.cost \in [Nodes(g) -> Nat] /\ t.via \in [Nodes(g) -> Int] /\ t.heap \in Seq(E)
      BY <2>2, <2>3, <2>4
    <2> QED  BY <2>2, <2>3, <2>5 DEF Labels, E, t
  <1>3. t = s \/ t = Relabelled(s, now, node, value, by, e)
    BY DEF relax
  <1> QED  BY <1>1, <1>2, <1>3

(* What one label leads to when its node is settled (Settle).              *)
SpreadOver(g, p, goal, now, s0, node, s, entry) ==
  IF g.edges[entry \div 2].slow = 0 THEN s
  ELSE relax(g, goal, s, now, NodeAt(g, entry), s0.cost[node] + CostOver(g, p, entry), entry)
LEMMA SpreadUnfold ==
  ASSUME NEW g, NEW p, NEW from, NEW to, IsLeg(g, p, from, to), NEW now \in Nat,
         NEW s \in Labels(g), IsHeap(s.heap), NEW node \in Nodes(g)
  PROVE  \E f \in [0..Len(g.ent[node]) -> Labels(g)] :
           /\ f[0] = s /\ Spread(g, p, to, now, s, node) = f[Len(g.ent[node])]
           /\ \A i \in 1..Len(g.ent[node]) : f[i] = SpreadOver(g, p, to, now, s, node, f[i - 1], g.ent[node][i])
  <1> DEFINE n == Len(g.ent[node])
             D == 0..n
             R == {r \in Labels(g) : IsHeap(r.heap)}
             Base == {0}
             down == Upwards(n)
             A == [i \in D |-> s]
             G == [a \in D \X R |-> SpreadOver(g, p, to, now, s, node, a[2], g.ent[node][a[1]])]
             Over(r, entry) ==
               IF g.edges[entry \div 2].slow = 0 THEN r
               ELSE relax(g, to, r, now, NodeAt(g, entry), s.cost[node] + CostOver(g, p, entry), entry)
             u == CHOOSE after : after = [i \in 0..Len(g.ent[node]) |-> IF i = 0 THEN s ELSE Over(after[i - 1], g.ent[node][i])]
  <1>1. n \in Nat /\ \A i \in 1..n : g.ent[node][i] \in Entries(g)
    <2>1. g.ent[node] \in Seq(Nat) /\ \A i \in DOMAIN g.ent[node] : g.ent[node][i] \in Range(g.ent[node])
      BY DEF IsLeg, IsLoaded, Range
    <2>2. Range(g.ent[node]) \subseteq Entries(g)
      BY DEF IsLeg, IsLoaded
    <2> QED  BY <2>1, <2>2
  <1>2. IsGrounded(D, Base, down)
    <2> HIDE DEF n
    <2> QED  BY <1>1, UpwardsGrounded
  <1>3. \A i \in D : i \in Base => A[i] \in R
    OBVIOUS
  <1>4. ASSUME NEW i \in D, NEW r \in R, i \notin Base PROVE G[<<i, r>>] \in R
    <2> DEFINE x == g.ent[node][i]
    <2>1. G[<<i, r>>] = SpreadOver(g, p, to, now, s, node, r, x)
      BY <1>4
    <2>2. x \in Entries(g) /\ i \in 1..n
      <3> HIDE DEF n
      <3> QED  BY <1>1, <1>4
    <2> HIDE DEF x
    <2>3. CASE g.edges[x \div 2].slow = 0
      BY <2>1, <2>3 DEF SpreadOver
    <2>4. CASE g.edges[x \div 2].slow # 0
      <3>1. x \div 2 \in Edges(g) /\ NodeAt(g, x) \in Nodes(g) /\ x \in Int
        BY <2>2, EntryEnds DEF IsLeg
      <3>2. g.edges[x \div 2].slow > 0
        BY <2>4, <3>1 DEF IsLeg, IsLoaded
      <3>3. x \in Usable(g)
        BY <2>2, <3>2 DEF Usable
      <3>4. CostOver(g, p, x) \in Nat
        BY <3>3, UsableFacts
      <3>5. s.cost[node] + CostOver(g, p, x) \in Nat
        BY <3>4 DEF Labels
      <3> DEFINE v == s.cost[node] + CostOver(g, p, x)
                 w == NodeAt(g, x)
      <3>6. SpreadOver(g, p, to, now, s, node, r, x) = relax(g, to, r, now, w, v, x)
        BY <2>4 DEF SpreadOver
      <3> HIDE DEF v, w
      <3>7. relax(g, to, r, now, w, v, x) \in Labels(g) /\ IsHeap(relax(g, to, r, now, w, v, x).heap)
        BY <3>1, <3>5, RelaxType DEF v, w, IsLeg
      <3> QED  BY <2>1, <3>6, <3>7
    <2> QED  BY <2>3, <2>4
  <1>5. IsRecursion(D, R, Base, down, A, G)
    <2> HIDE DEF D, R, Base, down, A, G
    <2> QED  BY <1>2, <1>3, <1>4 DEF IsRecursion
  <1>6. PICK f \in [D -> R] : \A i \in D : f[i] = IF i \in Base THEN A[i] ELSE G[<<i, f[down[i]]>>]
    <2> HIDE DEF D, R, Base, down, A, G
    <2> QED  BY <1>5, RecursionExists
  <1>7. f[0] = s
    <2>1. 0 \in D /\ 0 \in Base
      <3> HIDE DEF n
      <3> QED  BY <1>1
    <2> QED  BY <1>6, <2>1
  <1>8. ASSUME NEW i \in 1..n PROVE f[i] = SpreadOver(g, p, to, now, s, node, f[i - 1], g.ent[node][i])
    <2>1. i \in D /\ i \notin Base /\ down[i] = i - 1 /\ i - 1 \in D
      <3> HIDE DEF n
      <3> QED  BY <1>1 DEF Upwards
    <2>2. f[i] = G[<<i, f[i - 1]>>] /\ f[i - 1] \in R
      BY <1>6, <2>1
    <2> QED  BY <2>1, <2>2
  <1>9. f = [i \in 0..Len(g.ent[node]) |-> IF i = 0 THEN s ELSE Over(f[i - 1], g.ent[node][i])]
    <2>1. \A i \in D : f[i] = IF i = 0 THEN s ELSE Over(f[i - 1], g.ent[node][i])
      <3> TAKE i \in D
      <3>1. CASE i = 0
        BY <1>7, <3>1
      <3>2. CASE i # 0
        <4>1. i \in 1..n
          <5> HIDE DEF n
          <5> QED  BY <1>1, <3>2
        <4>2. f[i] = Over(f[i - 1], g.ent[node][i])
          BY <1>8, <4>1, Zenon DEF SpreadOver
        <4> QED  BY <3>2, <4>2
      <3> QED  BY <3>1, <3>2
    <2>2. f = [i \in D |-> f[i]]
      OBVIOUS
    <2> HIDE DEF Over
    <2> QED  BY <2>1, <2>2
  <1>10. u = [i \in 0..Len(g.ent[node]) |-> IF i = 0 THEN s ELSE Over(u[i - 1], g.ent[node][i])]
    BY <1>9, Zenon
  <1>11. Spread(g, p, to, now, s, node) = u[n]
    BY Zenon DEF Spread
  <1> HIDE DEF u
  <1>12. u \in [D -> Labels(g)] /\ u[0] = s
         /\ \A i \in 1..n : u[i] = SpreadOver(g, p, to, now, s, node, u[i - 1], g.ent[node][i])
    <2> DEFINE T == {i \in D : u[i] = f[i]}
    <2>1. \A i \in D : u[i] = IF i = 0 THEN s ELSE Over(u[i - 1], g.ent[node][i])
      <3> HIDE DEF Over
      <3> QED  BY <1>10
    <2>2. 0 \in T
      <3>1. 0 \in D
        <4> HIDE DEF n
        <4> QED  BY <1>1
      <3> QED  BY <1>7, <2>1, <3>1
    <2>3. ASSUME NEW i \in 1..n, i - 1 \in T PROVE i \in T
      <3>1. i \in D /\ i # 0
        <4> HIDE DEF n
        <4> QED  BY <1>1
      <3>2. u[i] = Over(u[i - 1], g.ent[node][i]) /\ u[i - 1] = f[i - 1]
        <4> HIDE DEF Over
        <4> QED  BY <2>1, <2>3, <3>1
      <3>3. f[i] = Over(f[i - 1], g.ent[node][i])
        BY <1>8, Zenon DEF SpreadOver
      <3> HIDE DEF Over
      <3> QED  BY <3>1, <3>2, <3>3
    <2>4. D \subseteq T
      <3> HIDE DEF T, n
      <3> QED  BY <1>1, <2>2, <2>3, UpTo
    <2>5. u = f
      <3>1. u = [i \in D |-> u[i]]
        <4> HIDE DEF Over
        <4> QED  BY <1>10
      <3>2. f = [i \in D |-> f[i]]
        OBVIOUS
      <3> QED  BY <2>4, <3>1, <3>2
    <2>6. f \in [D -> Labels(g)]
      OBVIOUS
    <2> QED  BY <1>7, <1>8, <2>5, <2>6
  <1> QED  BY <1>11, <1>12

HasSpread(g, p, from, to, now, best_, s, t, node) ==
  /\ InSearch(g, p, from, now, t) /\ Progress(g, p, to, now, best_, t, {node})
  /\ IsSpread(g, p, now, t, node) /\ t.cost[node] = s.cost[node] /\ Lowered(g, now, s, t)
  /\ \A m \in Nodes(g) : t.marks[m] \in {s.marks[m], now}
LEMMA Spreads ==
  ASSUME NEW g, NEW p, NEW from, NEW to, IsLeg(g, p, from, to), NEW now \in Nat, NEW s, InSearch(g, p, from, now, s),
         NEW node \in Nodes(g), s.marks[node] = now, NEW best_, Progress(g, p, to, now, best_, s, {node})
  PROVE  HasSpread(g, p, from, to, now, best_, s, Spread(g, p, to, now, s, node), node)
  <1> DEFINE n == Len(g.ent[node])
             Entry(i) == g.ent[node][i]
             Value(i) == s.cost[node] + CostOver(g, p, Entry(i))
             Good(t, i) ==
               /\ InSearch(g, p, from, now, t) /\ Progress(g, p, to, now, best_, t, {node})
               /\ t.marks[node] = now /\ t.cost[node] = s.cost[node] /\ Lowered(g, now, s, t)
               /\ \A m \in Nodes(g) : t.marks[m] \in {s.marks[m], now}
               /\ \A j \in 1..i : Entry(j) \in Usable(g) => Reached(now, t, NodeAt(g, Entry(j)), Value(j))
  <1>1. s \in Labels(g) /\ IsHeap(s.heap) /\ s.cost[node] \in Nat /\ s.cost[node] \in WalkCosts(g, p, from, node)
    BY DEF InSearch, HeapHolds, Marked, Labels
  <1>2. n \in Nat /\ \A i \in 1..n : Entry(i) \in Entries(g) /\ Begin(g, Entry(i)) = node
    <2>1. g.ent[node] \in Seq(Nat) /\ \A i \in DOMAIN g.ent[node] : g.ent[node][i] \in Range(g.ent[node])
      BY DEF IsLeg, IsLoaded, Range
    <2>2. Range(g.ent[node]) = {x \in Entries(g) : Begin(g, x) = node}
      BY DEF IsLeg, IsLoaded
    <2> QED  BY <2>1, <2>2
  <1>3. PICK f \in [0..n -> Labels(g)] :
          /\ f[0] = s /\ Spread(g, p, to, now, s, node) = f[n]
          /\ \A i \in 1..n : f[i] = SpreadOver(g, p, to, now, s, node, f[i - 1], Entry(i))
    BY <1>1, SpreadUnfold
  <1> HIDE DEF n
  <1> DEFINE T == {i \in 0..n : Good(f[i], i)}
  <1>4. 0 \in T
    <2>1. Lowered(g, now, s, s)
      <3>1. \A m \in Nodes(g) : s.cost[m] \in Nat
        BY <1>1 DEF Labels
      <3>2. \A m \in Nodes(g) : s.cost[m] <= s.cost[m]
        BY <3>1
      <3> QED  BY <3>2 DEF Lowered
    <2>2. \A j \in 1..0 : FALSE
      OBVIOUS
    <2>3. Good(s, 0)
      BY <2>1, <2>2
    <2>4. 0 \in 0..n
      BY <1>2
    <2> HIDE DEF Good
    <2> QED  BY <1>3, <2>3, <2>4
  <1>5. ASSUME NEW i \in 1..n, i - 1 \in T PROVE i \in T
    <2> DEFINE r == f[i - 1]
               x == Entry(i)
               m == NodeAt(g, x)
               v == Value(i)
    <2>1. Good(r, i - 1) /\ i \in 0..n /\ f[i] = SpreadOver(g, p, to, now, s, node, r, x)
      <3> HIDE DEF Good
      <3> QED  BY <1>2, <1>3, <1>5
    <2>2. x \in Entries(g) /\ Begin(g, x) = node
      BY <1>2
    <2>3. x \div 2 \in Edges(g) /\ m \in Nodes(g) /\ x \in Int
      BY <2>2, EntryEnds DEF IsLeg
    <2>4. \A j \in 1..i : j = i \/ j \in 1..i - 1
      BY <1>2
    <2>5. CASE g.edges[x \div 2].slow = 0
      <3>1. f[i] = r
        BY <2>1, <2>5 DEF SpreadOver
      <3>2. x \notin Usable(g)
        BY <2>5 DEF Usable
      <3>3. \A j \in 1..i : Entry(j) \in Usable(g) => Reached(now, r, NodeAt(g, Entry(j)), Value(j))
        BY <2>1, <2>4, <3>2
      <3>4. Good(r, i)
        BY <2>1, <3>3
      <3> HIDE DEF Good
      <3> QED  BY <2>1, <3>1, <3>4
    <2>6. CASE g.edges[x \div 2].slow # 0
      <3> DEFINE t == relax(g, to, r, now, m, v, x)
      <3>1. x \in Usable(g)
        <4>1. g.edges[x \div 2].slow \in Nat
          BY <2>3 DEF IsLeg, IsLoaded
        <4>2. g.edges[x \div 2].slow > 0
          BY <2>6, <4>1
        <4> QED  BY <2>2, <4>2 DEF Usable
      <3>2. CostOver(g, p, x) \in Nat /\ v \in WalkCosts(g, p, from, m)
        BY <1>1, <2>2, <3>1, UsableFacts, WalkCostsFacts
      <3>3. f[i] = t
        BY <2>1, <2>6 DEF SpreadOver
      <3>4. v \in Nat
        BY <1>1, <3>2
      <3>5. MayArrive(g, p, from, now, r, m, v, x)
        <4>1. r.marks[Begin(g, x)] = now /\ r.cost[Begin(g, x)] + CostOver(g, p, x) <= v
          BY <1>1, <2>1, <2>2, <3>2
        <4> QED  BY <3>1, <4>1 DEF MayArrive
      <3>6. InSearch(g, p, from, now, r) /\ Progress(g, p, to, now, best_, r, {node})
        BY <2>1
      <3> HIDE DEF r, m, v, x
      <3>7. /\ InSearch(g, p, from, now, t) /\ Progress(g, p, to, now, best_, t, {node})
            /\ Reached(now, t, m, v) /\ Kept(g, r, t, m)
        BY <2>3, <3>2, <3>5, <3>6, Relax
      <3>8. /\ Lowered(g, now, r, t)
            /\ Reached(now, r, m, v) => t = r
            /\ \A k \in Nodes(g) : t.marks[k] \in {r.marks[k], now}
        BY <2>3, <3>2, <3>5, <3>6, Relax
      <3> HIDE DEF t
      <3>9. t.marks[node] = now /\ t.cost[node] = s.cost[node]
        <4>1. CASE m = node
          <5>1. r.marks[node] = now /\ r.cost[node] = s.cost[node]
            BY <2>1 DEF r
          <5>2. s.cost[node] <= v
            BY <1>1, <3>2 DEF v, x
          <5>3. t = r
            BY <3>8, <4>1, <5>1, <5>2 DEF Reached
          <5> QED  BY <5>1, <5>3
        <4>2. CASE m # node
          <5>1. t.marks[node] = r.marks[node] /\ t.cost[node] = r.cost[node]
            BY <3>7, <4>2 DEF Kept
          <5> QED  BY <2>1, <5>1 DEF r
        <4> QED  BY <4>1, <4>2
      <3>10. s \in Labels(g) /\ r \in Labels(g) /\ t \in Labels(g)
        BY <1>1, <3>6, <3>7 DEF InSearch
      <3>11. Lowered(g, now, s, t)
        <4> SUFFICES ASSUME NEW k \in Nodes(g), s.marks[k] = now PROVE t.marks[k] = now /\ t.cost[k] <= s.cost[k]
          BY DEF Lowered
        <4>1. r.marks[k] = now /\ r.cost[k] <= s.cost[k]
          BY <2>1 DEF Lowered, r
        <4>2. t.marks[k] = now /\ t.cost[k] <= r.cost[k]
          BY <3>8, <4>1 DEF Lowered
        <4>3. s.cost[k] \in Nat /\ r.cost[k] \in Nat /\ t.cost[k] \in Nat
          BY <3>10 DEF Labels
        <4> QED  BY <4>1, <4>2, <4>3
      <3>12. \A k \in Nodes(g) : t.marks[k] \in {s.marks[k], now}
        <4>1. \A k \in Nodes(g) : r.marks[k] \in {s.marks[k], now}
          BY <2>1 DEF r
        <4> QED  BY <3>8, <4>1
      <3>13. ASSUME NEW j \in 1..i, Entry(j) \in Usable(g) PROVE Reached(now, t, NodeAt(g, Entry(j)), Value(j))
        <4>1. CASE j = i
          BY <3>7, <4>1 DEF m, v, x
        <4>2. CASE j # i
          <5>1. Reached(now, r, NodeAt(g, Entry(j)), Value(j))
            BY <2>1, <2>4, <3>13, <4>2 DEF r
          <5> DEFINE k == NodeAt(g, Entry(j))
                     w == Value(j)
          <5>2. k \in Nodes(g) /\ w \in Nat
            BY <1>1, <3>13, UsableFacts
          <5> HIDE DEF k, w
          <5>3. t.marks[k] = now /\ t.cost[k] <= r.cost[k] /\ r.cost[k] <= w
            BY <3>8, <5>1, <5>2 DEF Lowered, Reached, k, w
          <5>4. r.cost[k] \in Nat /\ t.cost[k] \in Nat
            BY <3>10, <5>2 DEF Labels
          <5>5. Reached(now, t, k, w)
            BY <5>2, <5>3, <5>4 DEF Reached
          <5> QED  BY <5>5 DEF k, w
        <4> QED  BY <4>1, <4>2
      <3>14. Good(t, i)
        BY <3>7, <3>9, <3>11, <3>12, <3>13
      <3> HIDE DEF Good
      <3> QED  BY <2>1, <3>3, <3>14
    <2> QED  BY <2>5, <2>6
  <1>6. 0..n \subseteq T
    <2> HIDE DEF T
    <2> QED  BY <1>2, <1>4, <1>5, UpTo
  <1>7. Good(f[n], n)
    <2>1. n \in T
      <3> HIDE DEF T
      <3> QED  BY <1>2, <1>6
    <2> HIDE DEF Good
    <2> QED  BY <2>1
  <1> DEFINE t == f[n]
  <1>8. IsSpread(g, p, now, t, node)
    <2> SUFFICES ASSUME NEW x \in Usable(g), Begin(g, x) = node
                 PROVE  Reached(now, t, NodeAt(g, x), t.cost[node] + CostOver(g, p, x))
      BY DEF IsSpread
    <2>1. x \in Range(g.ent[node])
      BY DEF IsLeg, IsLoaded, Usable
    <2>2. PICK i \in 1..n : Entry(i) = x
      <3>1. g.ent[node] \in Seq(Nat) /\ DOMAIN g.ent[node] = 1..n
        BY DEF IsLeg, IsLoaded, n
      <3>2. PICK i \in DOMAIN g.ent[node] : g.ent[node][i] = x
        BY <2>1 DEF Range
      <3> QED  BY <3>1, <3>2
    <2> QED  BY <1>7, <2>2
  <1> QED  BY <1>3, <1>7, <1>8 DEF HasSpread

(* The first entry of the heap has the least key.                          *)
LEMMA HeapLeast ==
  ASSUME NEW E, Keyed(E), NEW h \in Seq(E), IsHeap(h)
  PROVE  \A j \in 1..Len(h) : h[1].key <= h[j].key
  <1> DEFINE n == Len(h)
             D == 1..n
             Base == {1}
             down == [i \in D |-> i \div 2]
             id == [i \in D |-> i]
             T == {i \in D : h[1].key <= h[i].key}
  <1>1. n \in Nat /\ \A i \in D : h[i] \in E /\ h[i].key \in Int
    BY LenProperties, ElementOfSeq DEF Keyed
  <1> HIDE DEF n
  <1>2. IsGrounded(D, Base, down)
    <2>1. \A i \in D : id[i] \in Nat
      BY <1>1
    <2>2. \A i \in D : i \notin Base => down[i] \in D /\ id[down[i]] < id[i]
      <3> TAKE i \in D
      <3>1. i \notin Base => i \div 2 \in 1..i - 1 /\ i \div 2 \in D
        BY <1>1, Halves
      <3> QED  BY <1>1, <3>1
    <2> HIDE DEF D, Base, down, id
    <2> QED  BY <2>1, <2>2, MeasureGrounds
  <1>3. ASSUME NEW i \in D, i \in Base \/ down[i] \in T PROVE i \in T
    <2>1. CASE i = 1
      BY <1>1, <2>1
    <2>2. CASE i # 1
      <3>1. i \in 2..n /\ i \div 2 \in T
        BY <1>1, <1>3, <2>2
      <3>2. h[i \div 2].key <= h[i].key
        BY <3>1 DEF IsHeap, n
      <3>3. h[1].key \in Int /\ h[i].key \in Int /\ h[i \div 2].key \in Int
        BY <1>1, <3>1
      <3> QED  BY <3>1, <3>2, <3>3
    <2> QED  BY <2>1, <2>2
  <1>4. D \subseteq T
    <2> HIDE DEF D, Base, down, T
    <2> QED  BY <1>2, <1>3, GroundedInduction
  <1> QED  BY <1>4 DEF n

-----------------------------------------------------------------------------
(* What holds of a whole leg: the seeds are labelled, and what was found   *)
(* is the cost of a walk to the goal, by the label of its last node.       *)

Seeds(g, p, from, now, s) == \A n \in Nodes(g) : \A c \in CostsToEnd(g, p, from, n) : Reached(now, s, n, c)
IsFound(g, p, from, to, best_) ==
  /\ best_ \in Nat \cup {Infinity}
  /\ best_ # Infinity => \/ to.edge = from.edge /\ best_ = CostBetween(g, p, from, to)
                         \/ \E n \in Nodes(g) : \E c \in WalkCosts(g, p, from, n), t \in CostsToEnd(g, p, to, n) : best_ = c + t
  /\ to.edge = from.edge => best_ # Infinity /\ best_ <= CostBetween(g, p, from, to)
IsReached(g, p, from, to, now, best_, bestEnd_, s) ==
  best_ # Infinity =>
    \/ bestEnd_ = -3 /\ to.edge = from.edge /\ best_ = CostBetween(g, p, from, to)
    \/ bestEnd_ \in Marked(g, now, s) /\ \E t \in CostsToEnd(g, p, to, bestEnd_) : s.cost[bestEnd_] + t <= best_
InLeg(g, p, from, to, now, best_, bestEnd_, s) ==
  /\ InSearch(g, p, from, now, s) /\ Progress(g, p, to, now, best_, s, {}) /\ Seeds(g, p, from, now, s)
  /\ IsFound(g, p, from, to, best_) /\ IsReached(g, p, from, to, now, best_, bestEnd_, s)

LEMMA CostBetweenType ==
  ASSUME NEW g, NEW p, NEW from, NEW to, IsLeg(g, p, from, to), to.edge = from.edge
  PROVE  CostBetween(g, p, from, to) \in Nat
  <1> DEFINE d == Abs(to.offset - from.offset)
             w == g.edges[to.edge].slow
             f == p[to.edge]
  <1>1. to.edge \in Edges(g) /\ to.offset \in Int /\ from.offset \in Int
    BY DEF IsLeg, IsSnap
  <1>2. d \in Nat /\ w \in Nat /\ f \in Nat
    BY <1>1 DEF IsLeg, IsLoaded, Penalties, Abs
  <1>3. CostBetween(g, p, from, to) = (d * w) * f
    BY DEF CostBetween, Seconds
  <1> HIDE DEF d, w, f
  <1> QED  BY <1>2, <1>3

(* Where a search stands after a step that found s with the marks old.     *)
InLegFrom(g, p, from, to, now, old, best_, bestEnd_, s) ==
  InLeg(g, p, from, to, now, best_, bestEnd_, s) /\ \A n \in Nodes(g) : s.marks[n] \in {old[n], now}
IsBegun(g, p, from, to, now, old, s) ==
  InLegFrom(g, p, from, to, now, old, CostBetween(g, p, from, to), IF to.edge = from.edge THEN -3 ELSE -1, s)
IsSettled(g, p, from, to, now, s, best_, bestEnd_, t) ==
  LET node == s.heap[1].node
      through == {s.cost[node] + tail : tail \in CostsToEnd(g, p, to, node)}
      ends == through # {} /\ (best_ = Infinity \/ MinOf(through) < best_) IN
  InLegFrom(g, p, from, to, now, s.marks, IF ends THEN MinOf(through) ELSE best_, IF ends THEN node ELSE bestEnd_, t)

LEMMA AtMostThrough ==
  ASSUME NEW a \in Nat, NEW b \in Nat, NEW c \in Nat, a <= b, b <= c
  PROVE  a <= c
  OBVIOUS

(* Both ends of the edge of the origin are labelled first.                 *)
LEMMA Starts ==
  ASSUME NEW g, NEW p, NEW from, NEW to, IsLeg(g, p, from, to), NEW now \in Nat,
         NEW marks_ \in [Nodes(g) -> Nat], NEW cost_ \in [Nodes(g) -> Nat], NEW via_ \in [Nodes(g) -> Int],
         \A n \in Nodes(g) : marks_[n] # now,
         NEW s0, s0 = [marks |-> marks_, cost |-> cost_, via |-> via_, heap |-> <<>>],
         NEW s1, s1 = relax(g, to, s0, now, g.edges[from.edge].u, CostToU(g, p, from), -1),
         NEW s2, s2 = relax(g, to, s1, now, g.edges[from.edge].v, CostToV(g, p, from), -2)
  PROVE  IsBegun(g, p, from, to, now, marks_, s2)
  <1> DEFINE b == CostBetween(g, p, from, to)
             u == g.edges[from.edge].u
             v == g.edges[from.edge].v
             cu == CostToU(g, p, from)
             cv == CostToV(g, p, from)
  <1>1. from.edge \in Edges(g) /\ u \in Nodes(g) /\ v \in Nodes(g)
    BY DEF IsLeg, IsSnap, IsLoaded
  <1>2. cu \in Nat /\ cv \in Nat
    BY CostToEndType DEF IsLeg
  <1>3. cu \in WalkCosts(g, p, from, u) /\ cv \in WalkCosts(g, p, from, v)
    <2>1. cu \in CostsToEnd(g, p, from, u) /\ cv \in CostsToEnd(g, p, from, v)
      BY DEF CostsToEnd
    <2> QED  BY <1>1, <2>1, WalkCostsFacts
  <1>4. InSearch(g, p, from, now, s0) /\ Progress(g, p, to, now, b, s0, {})
    <2>1. Marked(g, now, s0) = {}
      BY DEF Marked
    <2>2. s0.heap = <<>> /\ s0 \in Labels(g) /\ Len(s0.heap) = 0
      BY DEF Labels
    <2>3. HeapHolds(now, s0)
      BY <2>2 DEF HeapHolds, IsHeap
    <2>4. IsGrounded({}, Seeded(g, s0), Before(g, s0))
      BY DEF IsGrounded
    <2> QED  BY <2>1, <2>2, <2>3, <2>4 DEF InSearch, Progress
  <1>5. MayArrive(g, p, from, now, s0, u, cu, -1) /\ MayArrive(g, p, from, now, s1, v, cv, -2)
    BY DEF MayArrive
  <1>6. s1 = relax(g, to, s0, now, u, cu, -1) /\ s2 = relax(g, to, s1, now, v, cv, -2)
    OBVIOUS
  <1> HIDE DEF u, v, cu, cv, b
  <1>7. InSearch(g, p, from, now, s1) /\ Progress(g, p, to, now, b, s1, {}) /\ Reached(now, s1, u, cu)
    BY <1>1, <1>3, <1>4, <1>5, <1>6, Relax
  <1>8. \A n \in Nodes(g) : s1.marks[n] \in {s0.marks[n], now}
    BY <1>1, <1>3, <1>4, <1>5, <1>6, Relax, SMTT(30)
  <1>9. InSearch(g, p, from, now, s2) /\ Progress(g, p, to, now, b, s2, {}) /\ Reached(now, s2, v, cv)
    BY <1>1, <1>3, <1>5, <1>6, <1>7, Relax, SMTT(30)
  <1>10. Lowered(g, now, s1, s2) /\ \A n \in Nodes(g) : s2.marks[n] \in {s1.marks[n], now}
    <2>1. Lowered(g, now, s1, relax(g, to, s1, now, v, cv, -2))
      BY <1>1, <1>3, <1>5, <1>7, Relax
    <2>2. \A n \in Nodes(g) : relax(g, to, s1, now, v, cv, -2).marks[n] \in {s1.marks[n], now}
      BY <1>1, <1>3, <1>5, <1>7, Relax, SMTT(30)
    <2> QED  BY <1>6, <2>1, <2>2
  <1>11. Reached(now, s2, u, cu)
    <2>1. s2.marks[u] = now /\ s2.cost[u] <= s1.cost[u] /\ s1.cost[u] <= cu
      BY <1>1, <1>7, <1>10 DEF Lowered, Reached
    <2>2. s1.cost[u] \in Nat /\ s2.cost[u] \in Nat
      BY <1>1, <1>7, <1>9 DEF InSearch, Labels
    <2>3. s2.cost[u] <= cu
      BY <1>2, <2>1, <2>2, AtMostThrough
    <2> QED  BY <2>1, <2>3, Zenon DEF Reached
  <1>12. Seeds(g, p, from, now, s2)
    BY <1>9, <1>11 DEF Seeds, CostsToEnd, u, v, cu, cv
  <1>13. IsFound(g, p, from, to, b)
    <2>1. CASE to.edge = from.edge
      <3>1. b \in Nat /\ b <= b /\ b # Infinity
        BY <2>1, CostBetweenType DEF b, Infinity
      <3> QED  BY <2>1, <3>1 DEF IsFound, b
    <2>2. CASE to.edge # from.edge
      <3>1. b = Infinity
        BY <2>2 DEF b, CostBetween
      <3> QED  BY <2>2, <3>1 DEF IsFound
    <2> QED  BY <2>1, <2>2
  <1>14. IsReached(g, p, from, to, now, b, IF to.edge = from.edge THEN -3 ELSE -1, s2)
    <2>1. CASE to.edge = from.edge
      BY <2>1 DEF IsReached, b
    <2>2. CASE to.edge # from.edge
      BY <2>2 DEF IsReached, b, CostBetween
    <2> QED  BY <2>1, <2>2
  <1>15. \A n \in Nodes(g) : s2.marks[n] \in {marks_[n], now}
    BY <1>8, <1>10
  <1>16. InLeg(g, p, from, to, now, b, IF to.edge = from.edge THEN -3 ELSE -1, s2)
    BY <1>9, <1>12, <1>13, <1>14 DEF InLeg, b
  <1>17. InLegFrom(g, p, from, to, now, marks_, b, IF to.edge = from.edge THEN -3 ELSE -1, s2)
    <2> DEFINE d == IF to.edge = from.edge THEN -3 ELSE -1
    <2>1. InLeg(g, p, from, to, now, b, d, s2)
      BY <1>16
    <2> HIDE DEF d
    <2>2. InLegFrom(g, p, from, to, now, marks_, b, d, s2)
      BY <1>15, <2>1, Zenon DEF InLegFrom
    <2> QED  BY <2>2, Zenon DEF d
  <1> QED  BY <1>17 DEF IsBegun, b

(* An entry that is taken from the heap is that of its node, or stale.     *)
Popped(s) == [marks |-> s.marks, cost |-> s.cost, via |-> s.via, heap |-> pop(s.heap)]
LEMMA Pops ==
  ASSUME NEW g, NEW p, NEW from, NEW to, IsLeg(g, p, from, to), NEW now \in Nat, NEW s, InSearch(g, p, from, now, s),
         NEW best_, Progress(g, p, to, now, best_, s, {}), s.heap # <<>>
  PROVE  /\ InSearch(g, p, from, now, Popped(s)) /\ Progress(g, p, to, now, best_, Popped(s), {s.heap[1].node})
         /\ s.heap[1].node \in Nodes(g) /\ s.marks[s.heap[1].node] = now
         /\ s.heap[1] # KeyOf(g, to, s, s.heap[1].node) => Progress(g, p, to, now, best_, Popped(s), {})
  <1> DEFINE t == Popped(s)
             q == s.heap
             h == pop(q)
             E == Queued(g)
  <1>1. s \in Labels(g) /\ q \in Seq(E) /\ IsHeap(q) /\ Keyed(E)
    BY DEF InSearch, HeapHolds, Labels, Queued, Keyed
  <1>2. Len(q) \in Nat /\ Len(q) > 0
    <2> HIDE DEF q, E
    <2>1. q # <<>>
      BY DEF q
    <2> QED  BY <1>1, <2>1, EmptySeq, LenProperties
  <1>3. q[1] \in E /\ q[1].node \in Nodes(g) /\ s.marks[q[1].node] = now
    <2>1. 1 \in 1..Len(q)
      BY <1>2
    <2>2. q[1] \in E
      <3> HIDE DEF q, E
      <3> QED  BY <1>1, <2>1, ElementOfSeq
    <2> QED  BY <2>1, <2>2 DEF InSearch, HeapHolds, Queued
  <1> HIDE DEF E
  <1>4. h \in Seq(E) /\ IsHeap(h) /\ Len(h) = Len(q) - 1
    <2> HIDE DEF q
    <2> QED  BY <1>1, <1>2, Pop
  <1>5. \A j \in 1..Len(h) : \E k \in 1..Len(q) : h[j] = q[k]
    <2> HIDE DEF q
    <2> QED  BY <1>1, <1>2, Pop
  <1>6. \A k \in 2..Len(q) : \E j \in 1..Len(h) : h[j] = q[k]
    <2> HIDE DEF q
    <2> QED  BY <1>1, <1>2, Pop
  <1>7. t.marks = s.marks /\ t.cost = s.cost /\ t.via = s.via /\ t.heap = h
    BY DEF Popped
  <1> HIDE DEF h
  <1>8. t \in Labels(g)
    <2>1. s.marks \in [Nodes(g) -> Nat] /\ s.cost \in [Nodes(g) -> Nat] /\ s.via \in [Nodes(g) -> Int]
      BY <1>1 DEF Labels
    <2> QED  BY <1>4, <2>1 DEF Labels, Popped, h, E
  <1> HIDE DEF t
  <1>9. InSearch(g, p, from, now, t)
    <2>1. HeapHolds(now, t)
      <3>1. \A j \in 1..Len(h) : s.marks[h[j].node] = now
        BY <1>5 DEF InSearch, HeapHolds
      <3> QED  BY <1>4, <1>7, <3>1 DEF HeapHolds
    <2>2. Marked(g, now, t) = Marked(g, now, s) /\ Seeded(g, t) = Seeded(g, s) /\ Before(g, t) = Before(g, s)
      BY <1>7 DEF Marked, Seeded, Before
    <2>3. \A n, c, b : MayArrive(g, p, from, now, t, n, c, b) <=> MayArrive(g, p, from, now, s, n, c, b)
      BY <1>7 DEF MayArrive
    <2> QED  BY <1>7, <1>8, <2>1, <2>2, <2>3 DEF InSearch
  <1>10. ASSUME NEW n \in Marked(g, now, t)
         PROVE  /\ n \in Marked(g, now, s) /\ KeyOf(g, to, t, n) = KeyOf(g, to, s, n)
                /\ IsSpread(g, p, now, s, n) => IsSpread(g, p, now, t, n)
                /\ IsTaken(g, p, to, best_, s, n) => IsTaken(g, p, to, best_, t, n)
                /\ Live(g, to, s, n) => Live(g, to, t, n) \/ q[1] = KeyOf(g, to, s, n)
    <2>1. n \in Marked(g, now, s) /\ KeyOf(g, to, t, n) = KeyOf(g, to, s, n)
      BY <1>7 DEF Marked, KeyOf
    <2>2. IsSpread(g, p, now, s, n) => IsSpread(g, p, now, t, n)
      BY <1>7 DEF IsSpread, Reached
    <2>3. IsTaken(g, p, to, best_, s, n) => IsTaken(g, p, to, best_, t, n)
      BY <1>7 DEF IsTaken
    <2>4. ASSUME Live(g, to, s, n), q[1] # KeyOf(g, to, s, n) PROVE Live(g, to, t, n)
      <3>1. PICK k \in 1..Len(q) : q[k] = KeyOf(g, to, s, n)
        BY <2>4 DEF Live
      <3>2. k \in 2..Len(q)
        BY <1>2, <2>4, <3>1
      <3>3. PICK j \in 1..Len(h) : h[j] = q[k]
        BY <1>6, <3>2
      <3> QED  BY <1>7, <2>1, <3>1, <3>3 DEF Live
    <2> QED  BY <2>1, <2>2, <2>3, <2>4
  <1>11. Progress(g, p, to, now, best_, t, {q[1].node})
    <2> SUFFICES ASSUME NEW n \in Marked(g, now, t), n # q[1].node
                 PROVE  Live(g, to, t, n) \/ (IsSpread(g, p, now, t, n) /\ IsTaken(g, p, to, best_, t, n))
      BY DEF Progress
    <2>1. q[1] # KeyOf(g, to, s, n)
      BY DEF KeyOf
    <2> QED  BY <1>10, <2>1 DEF Progress
  <1>12. ASSUME q[1] # KeyOf(g, to, s, q[1].node) PROVE Progress(g, p, to, now, best_, t, {})
    <2> SUFFICES ASSUME NEW n \in Marked(g, now, t)
                 PROVE  Live(g, to, t, n) \/ (IsSpread(g, p, now, t, n) /\ IsTaken(g, p, to, best_, t, n))
      BY DEF Progress
    <2>1. q[1] # KeyOf(g, to, s, n)
      BY <1>12 DEF KeyOf
    <2> QED  BY <1>10, <2>1 DEF Progress
  <1> QED  BY <1>3, <1>9, <1>11, <1>12 DEF t

LEMMA Settles ==
  ASSUME NEW g, NEW p, NEW from, NEW to, IsLeg(g, p, from, to), NEW now \in Nat, NEW s, NEW best_, NEW bestEnd_,
         InLeg(g, p, from, to, now, best_, bestEnd_, s), s.heap # <<>>,
         NEW t, t = Spread(g, p, to, now, Popped(s), s.heap[1].node)
  PROVE  IsSettled(g, p, from, to, now, s, best_, bestEnd_, t)
  <1> DEFINE node == s.heap[1].node
             through == {s.cost[node] + tail : tail \in CostsToEnd(g, p, to, node)}
             ends == through # {} /\ (best_ = Infinity \/ MinOf(through) < best_)
  <1>0. /\ node = s.heap[1].node /\ through = {s.cost[node] + tail : tail \in CostsToEnd(g, p, to, node)}
        /\ ends \in BOOLEAN /\ (ends <=> through # {} /\ (best_ = Infinity \/ MinOf(through) < best_))
        /\ t = Spread(g, p, to, now, Popped(s), node)
    OBVIOUS
  <1> HIDE DEF node, through, ends
  <1> USE <1>0
  <1> DEFINE b2 == IF ends THEN MinOf(through) ELSE best_
             e2 == IF ends THEN node ELSE bestEnd_
             o == Popped(s)
  <1>1. InSearch(g, p, from, now, s) /\ Progress(g, p, to, now, best_, s, {}) /\ Seeds(g, p, from, now, s)
        /\ IsFound(g, p, from, to, best_) /\ IsReached(g, p, from, to, now, best_, bestEnd_, s)
    BY DEF InLeg
  <1>2. InSearch(g, p, from, now, o) /\ Progress(g, p, to, now, best_, o, {node}) /\ node \in Nodes(g) /\ s.marks[node] = now
    BY <1>1, Pops
  <1>3. o.marks = s.marks /\ o.cost = s.cost
    BY DEF Popped
  <1>4. o.marks[node] = now
    BY <1>2, <1>3
  <1> HIDE DEF o
  <1>5. HasSpread(g, p, from, to, now, best_, o, Spread(g, p, to, now, o, node), node)
    BY <1>2, <1>4, Spreads
  <1>6. /\ InSearch(g, p, from, now, t) /\ Progress(g, p, to, now, best_, t, {node}) /\ IsSpread(g, p, now, t, node)
        /\ t.cost[node] = s.cost[node] /\ Lowered(g, now, o, t)
    BY <1>3, <1>5 DEF HasSpread, o
  <1>7. \A m \in Nodes(g) : t.marks[m] \in {s.marks[m], now}
    BY <1>3, <1>5 DEF HasSpread, o
  <1>8. Lowered(g, now, s, t)
    BY <1>3, <1>6 DEF Lowered
  <1>9. s \in Labels(g) /\ t \in Labels(g)
    BY <1>1, <1>6 DEF InSearch
  <1>10. s.cost[node] \in WalkCosts(g, p, from, node) /\ s.cost[node] \in Nat /\ t.marks[node] = now
    BY <1>1, <1>2, <1>8, <1>9 DEF InSearch, Marked, Labels, Lowered
  <1>11. \A tail \in CostsToEnd(g, p, to, node) : tail \in Nat
    BY CostsToEndType DEF IsLeg
  <1>12. through \in SUBSET Nat
    BY <1>10, <1>11
  <1>13. ASSUME through # {}
         PROVE  /\ \A c \in through : MinOf(through) <= c
                /\ MinOf(through) \in Nat
                /\ \E tail \in CostsToEnd(g, p, to, node) : MinOf(through) = s.cost[node] + tail
    <2>1. \E x \in through : \A y \in through : x <= y
      BY <1>12, <1>13, LeastNatural
    <2>2. MinOf(through) \in through /\ \A y \in through : MinOf(through) <= y
      BY <2>1, Zenon DEF MinOf
    <2> QED  BY <1>12, <2>2
  <1>14. best_ \in Nat \cup {Infinity} /\ b2 \in Nat \cup {Infinity}
    BY <1>1, <1>13 DEF IsFound
  <1>15. best_ # Infinity => b2 # Infinity /\ b2 <= best_
    BY <1>13, <1>14, SMTT(30) DEF Infinity
  <1>16. \A tail \in CostsToEnd(g, p, to, node) : b2 # Infinity /\ b2 <= s.cost[node] + tail
    <2> TAKE tail \in CostsToEnd(g, p, to, node)
    <2>1. s.cost[node] + tail \in through /\ s.cost[node] + tail \in Nat
      BY <1>10, <1>11, SMTT(30)
    <2>2. through # {} /\ MinOf(through) <= s.cost[node] + tail /\ MinOf(through) \in Nat
      BY <1>13, <2>1
    <2>3. CASE ends
      BY <2>2, <2>3, SMTT(30) DEF Infinity
    <2>4. CASE ~ends
      BY <1>14, <2>1, <2>2, <2>4, SMTT(30)
    <2> QED  BY <2>3, <2>4
  <1>17. IsFound(g, p, from, to, b2)
    <2>1. ASSUME ends PROVE \E tail \in CostsToEnd(g, p, to, node) : b2 = s.cost[node] + tail
      BY <1>13, <2>1
    <2>2. b2 # Infinity => \/ to.edge = from.edge /\ b2 = CostBetween(g, p, from, to)
                           \/ \E n \in Nodes(g) : \E c \in WalkCosts(g, p, from, n), tail \in CostsToEnd(g, p, to, n) : b2 = c + tail
      <3>1. CASE ends
        BY <1>2, <1>10, <2>1, <3>1
      <3>2. CASE ~ends
        BY <1>1, <3>2 DEF IsFound
      <3> QED  BY <3>1, <3>2
    <2>3. ASSUME to.edge = from.edge PROVE b2 # Infinity /\ b2 <= CostBetween(g, p, from, to)
      <3>1. best_ # Infinity /\ best_ <= CostBetween(g, p, from, to)
        BY <1>1, <2>3 DEF IsFound
      <3>2. CostBetween(g, p, from, to) \in Nat
        BY <2>3, CostBetweenType
      <3>3. b2 \in Nat /\ best_ \in Nat /\ b2 <= best_ /\ b2 # Infinity
        BY <1>14, <1>15, <3>1
      <3> HIDE DEF b2
      <3> QED  BY <3>1, <3>2, <3>3
    <2> HIDE DEF b2
    <2> QED  BY <1>14, <2>2, <2>3 DEF IsFound
  <1>18. IsReached(g, p, from, to, now, b2, e2, t)
    <2>1. CASE ends
      <3>1. PICK tail \in CostsToEnd(g, p, to, node) : b2 = s.cost[node] + tail
        BY <1>13, <2>1
      <3>2. node \in Marked(g, now, t) /\ e2 = node
        BY <1>2, <1>10, <2>1 DEF Marked
      <3>3. t.cost[node] + tail <= b2
        BY <1>6, <1>10, <1>11, <3>1, SMTT(30)
      <3> HIDE DEF b2, e2
      <3> QED  BY <3>2, <3>3 DEF IsReached
    <2>2. CASE ~ends
      <3>1. b2 = best_ /\ e2 = bestEnd_
        BY <2>2
      <3>2. ASSUME best_ # Infinity, NEW tail \in CostsToEnd(g, p, to, bestEnd_), bestEnd_ \in Marked(g, now, s),
                   s.cost[bestEnd_] + tail <= best_
            PROVE  bestEnd_ \in Marked(g, now, t) /\ t.cost[bestEnd_] + tail <= best_
        <4>1. bestEnd_ \in Nodes(g) /\ s.marks[bestEnd_] = now
          BY <3>2 DEF Marked
        <4>2. t.marks[bestEnd_] = now /\ t.cost[bestEnd_] <= s.cost[bestEnd_]
          BY <1>8, <4>1 DEF Lowered
        <4>3. t.cost[bestEnd_] \in Nat /\ s.cost[bestEnd_] \in Nat /\ tail \in Nat /\ best_ \in Nat
          BY <1>9, <1>14, <3>2, <4>1, CostsToEndType DEF Labels, IsLeg
        <4>4. bestEnd_ \in Marked(g, now, t)
          BY <4>1, <4>2 DEF Marked
        <4>5. t.cost[bestEnd_] + tail <= best_
          BY <3>2, <4>2, <4>3, SMT
        <4> QED  BY <4>4, <4>5
      <3> HIDE DEF b2, e2
      <3> QED  BY <1>1, <3>1, <3>2 DEF IsReached
    <2> QED  BY <2>1, <2>2
  <1>19. Seeds(g, p, from, now, t)
    <2> SUFFICES ASSUME NEW n \in Nodes(g), NEW c \in CostsToEnd(g, p, from, n) PROVE Reached(now, t, n, c)
      BY DEF Seeds
    <2>1. s.marks[n] = now /\ s.cost[n] <= c
      BY <1>1 DEF Seeds, Reached
    <2>2. t.marks[n] = now /\ t.cost[n] <= s.cost[n]
      BY <1>8, <2>1 DEF Lowered
    <2>3. c \in Nat /\ s.cost[n] \in Nat /\ t.cost[n] \in Nat
      BY <1>9, CostsToEndType DEF Labels, IsLeg
    <2> QED  BY <2>1, <2>2, <2>3 DEF Reached
  <1>20. Progress(g, p, to, now, b2, t, {})
    <2> SUFFICES ASSUME NEW n \in Marked(g, now, t)
                 PROVE  Live(g, to, t, n) \/ (IsSpread(g, p, now, t, n) /\ IsTaken(g, p, to, b2, t, n))
      BY DEF Progress
    <2>1. CASE n = node
      <3>1. IsTaken(g, p, to, b2, t, n)
        BY <1>6, <1>16, <2>1 DEF IsTaken
      <3> QED  BY <1>6, <2>1, <3>1
    <2>2. CASE n # node
      <3>1. Live(g, to, t, n) \/ (IsSpread(g, p, now, t, n) /\ IsTaken(g, p, to, best_, t, n))
        BY <1>6, <2>2 DEF Progress
      <3>2. ASSUME IsTaken(g, p, to, best_, t, n) PROVE IsTaken(g, p, to, b2, t, n)
        <4> SUFFICES ASSUME NEW tail \in CostsToEnd(g, p, to, n) PROVE b2 # Infinity /\ b2 <= t.cost[n] + tail
          BY DEF IsTaken
        <4>1. best_ # Infinity /\ best_ <= t.cost[n] + tail
          BY <3>2 DEF IsTaken
        <4>2. b2 # Infinity /\ b2 <= best_ /\ b2 \in Nat /\ best_ \in Nat
          BY <1>14, <1>15, <4>1
        <4>3. t.cost[n] \in Nat /\ tail \in Nat
          BY <1>9, CostsToEndType DEF Labels, IsLeg, Marked
        <4> HIDE DEF b2
        <4> QED  BY <4>1, <4>2, <4>3
      <3> QED  BY <3>1, <3>2
    <2> QED  BY <2>1, <2>2
  <1> HIDE DEF b2, e2
  <1>21. InLeg(g, p, from, to, now, b2, e2, t)
    BY <1>6, <1>17, <1>18, <1>19, <1>20 DEF InLeg
  <1>22. InLegFrom(g, p, from, to, now, s.marks, b2, e2, t)
    BY <1>7, <1>21 DEF InLegFrom
  <1> QED  BY <1>22, Zenon DEF b2, e2, node, through, ends, IsSettled

LEMMA SkipsStale ==
  ASSUME NEW g, NEW p, NEW from, NEW to, IsLeg(g, p, from, to), NEW now \in Nat, NEW s, NEW best_, NEW bestEnd_,
         InLeg(g, p, from, to, now, best_, bestEnd_, s), s.heap # <<>>,
         s.heap[1].key > s.cost[s.heap[1].node] + estimate(g, to, s.heap[1].node)
  PROVE  InLeg(g, p, from, to, now, best_, bestEnd_, Popped(s))
  <1> DEFINE node == s.heap[1].node
             o == Popped(s)
  <1>1. InSearch(g, p, from, now, s) /\ Progress(g, p, to, now, best_, s, {})
    BY DEF InLeg
  <1>2. InSearch(g, p, from, now, o) /\ node \in Nodes(g)
    BY <1>1, Pops
  <1>3. s.heap[1] # KeyOf(g, to, s, node)
    <2>1. s.cost[node] + estimate(g, to, node) \in Nat
      BY <1>1, <1>2, EstimateType, SMTT(30) DEF IsLeg, InSearch, Labels
    <2> HIDE DEF node
    <2>2. KeyOf(g, to, s, node).key = s.cost[node] + estimate(g, to, node)
      BY DEF KeyOf
    <2> QED  BY <2>1, <2>2 DEF node
  <1>4. Progress(g, p, to, now, best_, o, {})
    BY <1>1, <1>3, Pops
  <1>5. o.marks = s.marks /\ o.cost = s.cost
    BY DEF Popped
  <1> HIDE DEF o
  <1>6. Seeds(g, p, from, now, o) /\ IsReached(g, p, from, to, now, best_, bestEnd_, o)
    BY <1>5 DEF InLeg, Seeds, Reached, IsReached, Marked
  <1> QED  BY <1>2, <1>4, <1>6 DEF InLeg, o

(* A search that stops has found nothing dearer than any walk: what is     *)
(* still in the heap cannot do better, as no estimate exceeds what is left.*)
IsOver(best_, s) == s.heap # <<>> => best_ # Infinity /\ best_ <= s.heap[1].key

LEMMA Ends ==
  ASSUME NEW g, NEW p, NEW from, NEW to, IsLeg(g, p, from, to), NEW now \in Nat, NEW s, NEW best_, NEW bestEnd_,
         InLeg(g, p, from, to, now, best_, bestEnd_, s), IsOver(best_, s)
  PROVE  /\ IsLeast(best_, CostsToGoal(g, p, from, to))
         /\ \A n \in Nodes(g) : \A c \in WalkCosts(g, p, from, n), t \in CostsToEnd(g, p, to, n) :
              best_ # Infinity /\ best_ <= c + t
  <1> DEFINE W == CostsOfWalks(g, p, from)
             Within(n, c) == best_ # Infinity /\ best_ <= c + estimate(g, to, n)
  <1>1. InSearch(g, p, from, now, s) /\ Progress(g, p, to, now, best_, s, {}) /\ Seeds(g, p, from, now, s)
        /\ IsFound(g, p, from, to, best_)
    BY DEF InLeg
  <1>2. s \in Labels(g) /\ s.heap \in Seq(Queued(g)) /\ best_ \in Nat \cup {Infinity}
    BY <1>1 DEF InSearch, Labels, IsFound
  <1>3. \A n \in Nodes(g) : estimate(g, to, n) \in Nat /\ s.cost[n] \in Nat
    BY <1>2, EstimateType DEF IsLeg, Labels
  <1>4. ASSUME NEW n \in Nodes(g), Live(g, to, s, n) PROVE Within(n, s.cost[n])
    <2>1. PICK j \in 1..Len(s.heap) : s.heap[j] = KeyOf(g, to, s, n)
      BY <1>4 DEF Live
    <2>2. s.heap[1].key <= s.heap[j].key
      <3> DEFINE q == s.heap
                 E == Queued(g)
      <3>1. q \in Seq(E) /\ Keyed(E) /\ IsHeap(q)
        BY <1>1, <1>2 DEF Queued, Keyed, InSearch, HeapHolds
      <3> HIDE DEF q, E
      <3>2. \A i \in 1..Len(q) : q[1].key <= q[i].key
        BY <3>1, HeapLeast
      <3> QED  BY <3>2 DEF q
    <2>3. s.heap[j].key = s.cost[n] + estimate(g, to, n)
      BY <2>1 DEF KeyOf
    <2>4. s.heap # <<>> /\ Len(s.heap) \in Nat /\ 1 \in 1..Len(s.heap)
      <3>1. Len(s.heap) \in Nat
        BY <1>2, LenProperties
      <3>2. 1 \in 1..Len(s.heap)
        BY <3>1
      <3>3. Len(<<>>) = 0
        BY EmptySeq
      <3> QED  BY <3>1, <3>2, <3>3
    <2>5. s.heap[1] \in Queued(g)
      BY <1>2, <2>4, ElementOfSeq
    <2>6. s.heap[1].key \in Nat
      BY <2>5 DEF Queued
    <2>7. best_ # Infinity /\ best_ <= s.heap[1].key
      BY <2>4 DEF IsOver
    <2>8. best_ \in Nat
      BY <1>2, <2>7
    <2> QED  BY <1>3, <2>2, <2>3, <2>6, <2>7, <2>8
  <1>5. AreWalks(g, p, from, W)
    BY WalksUnfold DEF IsLeg
  <1> DEFINE T == {k \in Nat : \A n \in Nodes(g) : \A c \in W[k][n] : Reached(now, s, n, c) \/ Within(n, c)}
  <1>6. 0 \in T
    BY <1>1, <1>5 DEF AreWalks, Seeds
  <1>7. ASSUME NEW k \in Nat, k \in T PROVE k + 1 \in T
    <2> SUFFICES ASSUME NEW n \in Nodes(g), NEW c \in W[k + 1][n] PROVE Reached(now, s, n, c) \/ Within(n, c)
      OBVIOUS
    <2>1. \/ c \in W[k][n]
          \/ \E x \in Usable(g) : NodeAt(g, x) = n /\ \E b \in W[k][Begin(g, x)] : c = b + CostOver(g, p, x)
      BY <1>5 DEF AreWalks
    <2>2. CASE c \in W[k][n]
      BY <1>7, <2>2
    <2>3. ASSUME NEW x \in Usable(g), NodeAt(g, x) = n, NEW b \in W[k][Begin(g, x)], c = b + CostOver(g, p, x)
          PROVE  Reached(now, s, n, c) \/ Within(n, c)
      <3> DEFINE m == Begin(g, x)
                 o == CostOver(g, p, x)
      <3>1. m \in Nodes(g) /\ o \in Nat
        BY UsableFacts
      <3>2. b \in Nat
        BY <1>5, <3>1 DEF AreWalks
      <3>3. estimate(g, to, m) <= o + estimate(g, to, n)
        BY <2>3, EstimateOver DEF IsLeg
      <3>4. Reached(now, s, m, b) \/ Within(m, b)
        BY <1>7, <3>1
      <3> DEFINE em == estimate(g, to, m)
                 en == estimate(g, to, n)
                 cm == s.cost[m]
      <3>5. em \in Nat /\ en \in Nat /\ cm \in Nat
        BY <1>3, <3>1
      <3>6. ASSUME Within(m, b) PROVE Within(n, c)
        <4>1. best_ \in Nat /\ best_ <= b + em /\ best_ # Infinity
          BY <1>2, <3>6
        <4>2. em <= o + en /\ c = b + o
          BY <2>3, <3>3
        <4> HIDE DEF em, en, o
        <4>3. best_ <= c + en
          BY <3>1, <3>2, <3>5, <4>1, <4>2 DEF o
        <4> QED  BY <4>1, <4>3 DEF en
      <3>7. ASSUME Reached(now, s, m, b) PROVE Reached(now, s, n, c) \/ Within(n, c)
        <4>1. m \in Marked(g, now, s) /\ cm <= b
          BY <3>1, <3>7 DEF Reached, Marked
        <4>2. CASE Live(g, to, s, m)
          <5>1. Within(m, cm)
            BY <1>4, <3>1, <4>2
          <5>2. Within(m, b)
            <6>1. best_ \in Nat /\ best_ <= cm + em /\ best_ # Infinity
              BY <1>2, <5>1
            <6> HIDE DEF em, cm
            <6>2. best_ <= b + em
              BY <3>2, <3>5, <4>1, <6>1
            <6> QED  BY <6>1, <6>2 DEF em
          <5> QED  BY <3>6, <5>2
        <4>3. CASE IsSpread(g, p, now, s, m)
          <5>1. Reached(now, s, n, cm + o)
            BY <2>3, <4>3 DEF IsSpread
          <5>2. s.marks[n] = now /\ s.cost[n] <= cm + o /\ s.cost[n] \in Nat
            BY <1>3, <5>1 DEF Reached
          <5> HIDE DEF cm, o
          <5>3. s.cost[n] <= c
            BY <2>3, <3>1, <3>2, <3>5, <4>1, <5>2 DEF o
          <5> QED  BY <5>2, <5>3 DEF Reached
        <4> QED  BY <1>1, <4>1, <4>2, <4>3 DEF Progress
      <3> QED  BY <3>4, <3>6, <3>7
    <2> QED  BY <2>1, <2>2, <2>3
  <1>8. Nat \subseteq T
    <2> HIDE DEF T
    <2> QED  BY <1>6, <1>7, AllNaturals
  <1>9. ASSUME NEW n \in Nodes(g), NEW c \in WalkCosts(g, p, from, n), NEW t \in CostsToEnd(g, p, to, n)
        PROVE  best_ # Infinity /\ best_ <= c + t
    <2>1. PICK k \in Nat : c \in W[k][n]
      BY DEF WalkCosts, AllCosts
    <2>2. Reached(now, s, n, c) \/ Within(n, c)
      BY <1>8, <2>1
    <2>3. c \in Nat /\ t \in Nat /\ estimate(g, to, n) <= t
      BY WalkCostsFacts, CostsToEndType, EstimateAtEnds DEF IsLeg
    <2> DEFINE en == estimate(g, to, n)
               cn == s.cost[n]
    <2>4. en \in Nat /\ cn \in Nat /\ en <= t
      BY <1>3, <2>3
    <2>5. CASE Within(n, c)
      <3>1. best_ \in Nat /\ best_ # Infinity /\ best_ <= c + en
        BY <1>2, <2>5
      <3> HIDE DEF en
      <3> QED  BY <2>3, <2>4, <3>1
    <2>6. CASE Reached(now, s, n, c)
      <3>1. n \in Marked(g, now, s) /\ cn <= c
        BY <2>6 DEF Reached, Marked
      <3>2. CASE Live(g, to, s, n)
        <4>1. best_ \in Nat /\ best_ # Infinity /\ best_ <= cn + en
          BY <1>2, <1>4, <3>2
        <4> HIDE DEF en, cn
        <4> QED  BY <2>3, <2>4, <3>1, <4>1
      <3>3. CASE IsTaken(g, p, to, best_, s, n)
        <4>1. best_ # Infinity /\ best_ <= cn + t
          BY <3>3 DEF IsTaken
        <4>2. best_ \in Nat
          BY <1>2, <4>1
        <4> HIDE DEF cn
        <4> QED  BY <2>3, <2>4, <3>1, <4>1, <4>2
      <3> QED  BY <1>1, <3>1, <3>2, <3>3 DEF Progress
    <2> QED  BY <2>2, <2>5, <2>6
  <1>10. g.nodes \in Nat
    BY DEF IsLeg, IsLoaded
  <1> DEFINE C == CostsToGoal(g, p, from, to)
  <1>11. \A c : c \in C <=> \/ to.edge = from.edge /\ c = CostBetween(g, p, from, to)
                           \/ \E n \in Nodes(g) : \E d \in W[g.nodes][n], t \in CostsToEnd(g, p, to, n) : c = d + t
    BY DEF CostsToGoal
  <1> HIDE DEF C
  <1>12. ASSUME NEW c \in C PROVE best_ # Infinity /\ best_ <= c
    <2>1. CASE to.edge = from.edge /\ c = CostBetween(g, p, from, to)
      BY <1>1, <2>1 DEF IsFound
    <2>2. CASE \E n \in Nodes(g) : \E d \in W[g.nodes][n], t \in CostsToEnd(g, p, to, n) : c = d + t
      BY <1>9, <1>10, <2>2, WalkCostsFacts
    <2> QED  BY <1>11, <2>1, <2>2
  <1>13. ASSUME best_ # Infinity PROVE best_ \in C
    <2>1. CASE to.edge = from.edge /\ best_ = CostBetween(g, p, from, to)
      BY <1>11, <2>1
    <2>2. ASSUME NEW n \in Nodes(g), NEW c \in WalkCosts(g, p, from, n), NEW t \in CostsToEnd(g, p, to, n), best_ = c + t
          PROVE  best_ \in C
      <3>1. PICK d \in W[g.nodes][n] : d <= c
        <4>1. c \in AllCosts(W, n)
          BY DEF WalkCosts
        <4> QED  BY <1>5, <4>1, LeastWalks DEF IsLeg
      <3>2. d \in WalkCosts(g, p, from, n) /\ d \in Nat /\ c \in Nat /\ t \in Nat
        BY <1>10, WalkCostsFacts, CostsToEndType DEF IsLeg
      <3>3. best_ <= d + t
        BY <1>9, <3>2
      <3>4. best_ = d + t
        BY <2>2, <3>1, <3>2, <3>3
      <3> QED  BY <1>11, <3>4
    <2> QED  BY <1>1, <1>13, <2>1, <2>2 DEF IsFound
  <1>14. IsLeast(best_, C)
    <2>1. CASE C = {}
      BY <1>13, <2>1 DEF IsLeast
    <2>2. CASE C # {}
      BY <1>12, <1>13, <2>2 DEF IsLeast
    <2> QED  BY <2>1, <2>2
  <1> QED  BY <1>9, <1>14 DEF C

-----------------------------------------------------------------------------
(* Sums along a sequence.                                                  *)

IsSum(t, n, h) == t[0] = 0 /\ \A i \in 1..n : t[i] = t[i - 1] + h[i]
LEMMA SumExists ==
  ASSUME NEW n \in Nat, NEW h \in [1..n -> Nat]
  PROVE  \E t \in [0..n -> Nat] : IsSum(t, n, h) /\ Total(h) = t[n]
  <1> DEFINE D == 0..n
             R == Nat
             Base == {0}
             down == Upwards(n)
             A == [i \in D |-> 0]
             G == [a \in D \X R |-> a[2] + h[a[1]]]
             u == CHOOSE total : total = [i \in 0..Len(h) |-> IF i = 0 THEN 0 ELSE total[i - 1] + h[i]]
  <1>1. Len(h) = n
    BY FunctionIsSeq
  <1>2. IsGrounded(D, Base, down)
    BY UpwardsGrounded
  <1>3. ASSUME NEW i \in D, NEW r \in R, i \notin Base PROVE G[<<i, r>>] \in R
    <2>1. i \in 1..n
      BY <1>3
    <2>2. G[<<i, r>>] = r + h[i]
      OBVIOUS
    <2> QED  BY <2>1, <2>2
  <1>4. IsRecursion(D, R, Base, down, A, G)
    <2>1. \A i \in D : i \in Base => A[i] \in R
      OBVIOUS
    <2> HIDE DEF D, R, Base, down, A, G
    <2> QED  BY <1>2, <1>3, <2>1 DEF IsRecursion
  <1>5. PICK f \in [D -> R] : \A i \in D : f[i] = IF i \in Base THEN A[i] ELSE G[<<i, f[down[i]]>>]
    <2> HIDE DEF D, R, Base, down, A, G
    <2> QED  BY <1>4, RecursionExists
  <1>6. f[0] = 0 /\ \A i \in 1..n : f[i] = f[i - 1] + h[i]
    <2>1. f[0] = 0
      <3>1. 0 \in D /\ 0 \in Base /\ A[0] = 0
        OBVIOUS
      <3> HIDE DEF D, Base, A, G
      <3> QED  BY <1>5, <3>1
    <2>2. ASSUME NEW i \in 1..n PROVE f[i] = f[i - 1] + h[i]
      <3>1. i \in D /\ i \notin Base /\ down[i] = i - 1 /\ i - 1 \in D
        BY DEF Upwards
      <3>2. f[i] = G[<<i, f[i - 1]>>] /\ f[i - 1] \in R
        BY <1>5, <3>1
      <3> QED  BY <3>1, <3>2
    <2> QED  BY <2>1, <2>2
  <1>7. f = [i \in 0..Len(h) |-> IF i = 0 THEN 0 ELSE f[i - 1] + h[i]]
    <2>1. \A i \in D : f[i] = IF i = 0 THEN 0 ELSE f[i - 1] + h[i]
      BY <1>6
    <2>2. f = [i \in D |-> f[i]]
      OBVIOUS
    <2> QED  BY <1>1, <2>1, <2>2
  <1>8. u = [i \in 0..Len(h) |-> IF i = 0 THEN 0 ELSE u[i - 1] + h[i]]
    BY <1>7, Zenon
  <1>9. Total(h) = u[n]
    BY <1>1, Zenon DEF Total
  <1> HIDE DEF u
  <1>10. IsSum(u, n, h)
    <2>1. \A i \in 0..n : u[i] = IF i = 0 THEN 0 ELSE u[i - 1] + h[i]
      BY <1>1, <1>8
    <2> QED  BY <2>1 DEF IsSum
  <1>11. u \in [0..n -> Nat]
    <2> DEFINE T == {i \in 0..n : u[i] \in Nat}
    <2>1. 0 \in T
      BY <1>10 DEF IsSum
    <2>2. \A i \in 1..n : i - 1 \in T => i \in T
      BY <1>10 DEF IsSum
    <2>3. 0..n \subseteq T
      <3> HIDE DEF T
      <3> QED  BY <2>1, <2>2, UpTo
    <2>4. u = [i \in 0..n |-> u[i]]
      BY <1>1, <1>8
    <2> QED  BY <2>3, <2>4
  <1> QED  BY <1>9, <1>10, <1>11

LEMMA SumUnique ==
  ASSUME NEW n \in Nat, NEW h, NEW t, NEW u, IsSum(t, n, h), IsSum(u, n, h)
  PROVE  t[n] = u[n]
  <1> DEFINE T == {i \in 0..n : t[i] = u[i]}
  <1>1. 0 \in T
    BY DEF IsSum
  <1>2. \A i \in 1..n : i - 1 \in T => i \in T
    BY DEF IsSum
  <1>3. 0..n \subseteq T
    <2> HIDE DEF T
    <2> QED  BY <1>1, <1>2, UpTo
  <1> QED  BY <1>3

(* One more term.                                                          *)
LEMMA TotalGrows ==
  ASSUME NEW n \in Nat, NEW h \in [1..n -> Nat], NEW k \in [1..n + 1 -> Nat], \A i \in 1..n : k[i] = h[i]
  PROVE  Total(h) \in Nat /\ Total(k) = Total(h) + k[n + 1]
  <1>1. PICK t \in [0..n -> Nat] : IsSum(t, n, h) /\ Total(h) = t[n]
    BY SumExists
  <1>2. PICK u \in [0..n + 1 -> Nat] : IsSum(u, n + 1, k) /\ Total(k) = u[n + 1]
    <2>1. n + 1 \in Nat
      OBVIOUS
    <2> DEFINE m == n + 1
    <2> HIDE DEF m
    <2>2. m \in Nat /\ k \in [1..m -> Nat]
      BY <2>1 DEF m
    <2>3. \E u \in [0..m -> Nat] : IsSum(u, m, k) /\ Total(k) = u[m]
      BY <2>2, SumExists
    <2> QED  BY <2>3 DEF m
  <1>3. IsSum(u, n, h)
    BY <1>2 DEF IsSum
  <1>4. u[n] = t[n]
    BY <1>1, <1>3, SumUnique
  <1>5. n + 1 \in 1..n + 1 /\ (n + 1) - 1 = n
    OBVIOUS
  <1>6. u[n + 1] = u[n] + k[n + 1]
    BY <1>2, <1>5 DEF IsSum
  <1> QED  BY <1>1, <1>2, <1>4, <1>6

LEMMA TotalOfNone ==
  ASSUME NEW h \in [1..0 -> Nat]
  PROVE  Total(h) = 0
  <1>1. PICK t \in [0..0 -> Nat] : IsSum(t, 0, h) /\ Total(h) = t[0]
    BY SumExists
  <1> QED  BY <1>1 DEF IsSum

LEMMA TotalType ==
  ASSUME NEW n \in Nat, NEW h \in [1..n -> Nat]
  PROVE  Total(h) \in Nat
  BY SumExists

-----------------------------------------------------------------------------
(* The pieces of a leg.                                                    *)

Piece(g) == [edge : Edges(g), reverse : BOOLEAN, from : Nat, to : Nat]

LEMMA TravelledType ==
  ASSUME NEW g, NEW q \in Piece(g)
  PROVE  Travelled(q) \in Nat /\ (q.from = q.to => Travelled(q) = 0)
  BY DEF Piece, Travelled, Abs

LEMMA MetersGrow ==
  ASSUME NEW g, NEW w \in Seq(Piece(g)), NEW q \in Piece(g)
  PROVE  Meters(w) \in Nat /\ Meters(Append(w, q)) = Meters(w) + Travelled(q)
  <1> DEFINE n == Len(w)
             v == Append(w, q)
             h == [i \in 1..n |-> Travelled(w[i])]
             k == [i \in 1..n + 1 |-> Travelled(v[i])]
  <1>1. n \in Nat /\ v \in Seq(Piece(g)) /\ Len(v) = n + 1 /\ v[n + 1] = q /\ \A i \in 1..n : v[i] = w[i] /\ w[i] \in Piece(g)
    OBVIOUS
  <1>2. Meters(w) = Total(h) /\ Meters(v) = Total(k)
    BY <1>1 DEF Meters
  <1> HIDE DEF n, v
  <1>3. h \in [1..n -> Nat]
    BY <1>1, TravelledType
  <1>4. k \in [1..n + 1 -> Nat]
    <2>1. \A i \in 1..n + 1 : v[i] \in Piece(g)
      BY <1>1
    <2> QED  BY <2>1, TravelledType
  <1>5. \A i \in 1..n : k[i] = h[i]
    BY <1>1
  <1>6. k[n + 1] = Travelled(q)
    BY <1>1
  <1> HIDE DEF h, k
  <1>7. Total(h) \in Nat /\ Total(k) = Total(h) + k[n + 1]
    BY <1>1, <1>3, <1>4, <1>5, TotalGrows
  <1> QED  BY <1>2, <1>6, <1>7 DEF v

(* Leaving out the pieces of no length changes no distance.                *)
LEMMA WithoutEmptyKeeps ==
  ASSUME NEW g, NEW w \in Seq(Piece(g))
  PROVE  WithoutEmpty(w) \in Seq(Piece(g)) /\ Meters(WithoutEmpty(w)) = Meters(w) /\ Meters(w) \in Nat
  <1> DEFINE n == Len(w)
             D == 0..n
             R == Seq(Piece(g))
             Base == {0}
             down == Upwards(n)
             A == [i \in D |-> <<>>]
             G == [a \in D \X R |-> IF w[a[1]].from = w[a[1]].to THEN a[2] ELSE Append(a[2], w[a[1]])]
             u == CHOOSE kept : kept = [i \in 0..Len(w) |->
                    IF i = 0 THEN <<>>
                    ELSE IF w[i].from = w[i].to THEN kept[i - 1] ELSE Append(kept[i - 1], w[i])]
  <1>1. n \in Nat /\ \A i \in 1..n : w[i] \in Piece(g)
    OBVIOUS
  <1>2. IsGrounded(D, Base, down)
    <2> HIDE DEF n
    <2> QED  BY <1>1, UpwardsGrounded
  <1>3. ASSUME NEW i \in D, NEW r \in R, i \notin Base PROVE G[<<i, r>>] \in R
    <2>1. i \in 1..n
      <3> HIDE DEF n
      <3> QED  BY <1>1, <1>3
    <2>2. G[<<i, r>>] = IF w[i].from = w[i].to THEN r ELSE Append(r, w[i])
      OBVIOUS
    <2> HIDE DEF G
    <2> QED  BY <1>1, <2>1, <2>2
  <1>4. IsRecursion(D, R, Base, down, A, G)
    <2>1. \A i \in D : i \in Base => A[i] \in R
      OBVIOUS
    <2> HIDE DEF D, R, Base, down, A, G
    <2> QED  BY <1>2, <1>3, <2>1 DEF IsRecursion
  <1>5. PICK f \in [D -> R] : \A i \in D : f[i] = IF i \in Base THEN A[i] ELSE G[<<i, f[down[i]]>>]
    <2> HIDE DEF D, R, Base, down, A, G
    <2> QED  BY <1>4, RecursionExists
  <1>6. f = [i \in 0..Len(w) |->
               IF i = 0 THEN <<>>
               ELSE IF w[i].from = w[i].to THEN f[i - 1] ELSE Append(f[i - 1], w[i])]
    <2>1. \A i \in D : f[i] = IF i = 0 THEN <<>>
                              ELSE IF w[i].from = w[i].to THEN f[i - 1] ELSE Append(f[i - 1], w[i])
      <3> TAKE i \in D
      <3>1. CASE i = 0
        BY <1>5, <3>1
      <3>2. CASE i # 0
        <4>1. i \notin Base /\ down[i] = i - 1 /\ i - 1 \in D
          <5> HIDE DEF n
          <5> QED  BY <1>1, <3>2 DEF Upwards
        <4>2. f[i] = G[<<i, f[i - 1]>>] /\ f[i - 1] \in R
          BY <1>5, <4>1
        <4>3. f[i] = IF w[i].from = w[i].to THEN f[i - 1] ELSE Append(f[i - 1], w[i])
          BY <4>2
        <4> QED  BY <3>2, <4>3
      <3> QED  BY <3>1, <3>2
    <2>2. f = [i \in D |-> f[i]]
      OBVIOUS
    <2> QED  BY <2>1, <2>2, Zenon
  <1>7. u = [i \in 0..Len(w) |->
               IF i = 0 THEN <<>>
               ELSE IF w[i].from = w[i].to THEN u[i - 1] ELSE Append(u[i - 1], w[i])]
    BY <1>6, Zenon
  <1>8. WithoutEmpty(w) = IF Len(w) = 1 THEN w ELSE u[n]
    BY Zenon DEF WithoutEmpty
  <1> HIDE DEF u
  <1> DEFINE h == [i \in 1..n |-> Travelled(w[i])]
  <1>9. h \in [1..n -> Nat] /\ Meters(w) = Total(h)
    BY <1>1, TravelledType DEF Meters
  <1> HIDE DEF h
  <1>10. PICK t \in [0..n -> Nat] : IsSum(t, n, h) /\ Total(h) = t[n]
    <2> HIDE DEF n
    <2> QED  BY <1>1, <1>9, SumExists
  <1> DEFINE T == {i \in 0..n : u[i] \in Seq(Piece(g)) /\ Meters(u[i]) = t[i]}
  <1>11. 0 \in T
    <2>1. u[0] = <<>>
      BY <1>7
    <2>2. Meters(<<>>) = 0
      <3>1. Len(<<>>) = 0
        BY EmptySeq
      <3> DEFINE e == <<>>
      <3>2. [i \in 1..Len(e) |-> Travelled(e[i])] \in [1..0 -> Nat]
        BY <3>1
      <3> HIDE DEF e
      <3>3. Meters(e) = 0
        BY <3>2, TotalOfNone DEF Meters
      <3> QED  BY <3>3 DEF e
    <2>3. <<>> \in Seq(Piece(g)) /\ t[0] = 0 /\ 0 \in 0..n
      BY <1>10 DEF IsSum
    <2> QED  BY <2>1, <2>2, <2>3
  <1>12. ASSUME NEW i \in 1..n, i - 1 \in T PROVE i \in T
    <2> DEFINE r == u[i - 1]
    <2>1. u[i] = IF w[i].from = w[i].to THEN r ELSE Append(r, w[i])
      <3>1. i \in 0..Len(w) /\ i # 0
        OBVIOUS
      <3> QED  BY <1>7, <3>1
    <2>2. r \in Seq(Piece(g)) /\ Meters(r) = t[i - 1]
      BY <1>12
    <2>3. w[i] \in Piece(g) /\ t[i] = t[i - 1] + Travelled(w[i]) /\ t[i - 1] \in Nat /\ i \in 0..n
      <3>1. i \in 1..n /\ i \in 0..n /\ i - 1 \in 0..n
        <4> HIDE DEF n
        <4> QED  BY <1>1
      <3>2. h[i] = Travelled(w[i])
        BY <3>1 DEF h
      <3>3. t[i] = t[i - 1] + h[i] /\ t[i - 1] \in Nat
        BY <1>10, <3>1 DEF IsSum
      <3> QED  BY <1>1, <3>1, <3>2, <3>3
    <2> HIDE DEF r
    <2>4. CASE w[i].from = w[i].to
      <3>1. Travelled(w[i]) = 0
        BY <2>3, <2>4, TravelledType
      <3>2. u[i] = r
        BY <2>1, <2>4
      <3>3. t[i] = t[i - 1]
        BY <2>3, <3>1
      <3> QED  BY <2>2, <2>3, <3>2, <3>3
    <2>5. CASE w[i].from # w[i].to
      <3>1. u[i] = Append(r, w[i])
        BY <2>1, <2>5
      <3>2. Meters(Append(r, w[i])) = Meters(r) + Travelled(w[i])
        BY <2>2, <2>3, MetersGrow
      <3>3. Append(r, w[i]) \in Seq(Piece(g))
        BY <2>2, <2>3
      <3> QED  BY <2>2, <2>3, <3>1, <3>2, <3>3
    <2> QED  BY <2>4, <2>5
  <1>13. 0..n \subseteq T
    <2> HIDE DEF T, n
    <2> QED  BY <1>1, <1>11, <1>12, UpTo
  <1>14. u[n] \in Seq(Piece(g)) /\ Meters(u[n]) = Total(h)
    <2>1. n \in T
      <3> HIDE DEF T, n
      <3> QED  BY <1>1, <1>13
    <2> QED  BY <1>10, <2>1
  <1>15. Total(h) \in Nat
    BY <1>1, <1>9, TotalType
  <1> QED  BY <1>8, <1>9, <1>14, <1>15

(* The way back from a labelled node is the way back from the node before, *)
(* and one more edge.                                                      *)
BackOf(g, from, now, s, n) == Back(g, from, s.via, Marked(g, now, s), n)
StepsBack(g, p, from, now, s, n) ==
  /\ BackOf(g, from, now, s, n) \in Seq(Piece(g))
  /\ s.via[n] < 0 => /\ SeedPiece(g, from, s.via[n] = -1) \in Piece(g)
                     /\ BackOf(g, from, now, s, n) = <<SeedPiece(g, from, s.via[n] = -1)>>
  /\ ~(s.via[n] < 0) =>
       /\ Begin(g, s.via[n]) \in Marked(g, now, s) /\ WholePiece(g, s.via[n]) \in Piece(g)
       /\ BackOf(g, from, now, s, n) = Append(BackOf(g, from, now, s, Begin(g, s.via[n])), WholePiece(g, s.via[n]))
       /\ s.via[n] \in Usable(g) /\ NodeAt(g, s.via[n]) = n
       /\ s.cost[Begin(g, s.via[n])] + CostOver(g, p, s.via[n]) <= s.cost[n]
LEMMA BackUnfold ==
  ASSUME NEW g, NEW p, NEW from, NEW to, IsLeg(g, p, from, to), NEW now \in Nat, NEW s, InSearch(g, p, from, now, s)
  PROVE  \A n \in Marked(g, now, s) : StepsBack(g, p, from, now, s, n)
  <1> DEFINE by == s.via
             D == Marked(g, now, s)
             R == Seq(Piece(g))
             Base == Seeded(g, s)
             down == Before(g, s)
             A == [n \in D |-> <<SeedPiece(g, from, by[n] = -1)>>]
             G == [a \in D \X R |-> Append(a[2], WholePiece(g, by[a[1]]))]
             u == CHOOSE back : back = [n \in D |->
                    IF by[n] < 0 THEN <<SeedPiece(g, from, by[n] = -1)>>
                    ELSE Append(back[Begin(g, by[n])], WholePiece(g, by[n]))]
  <1>1. \A b \in BOOLEAN : SeedPiece(g, from, b) \in Piece(g)
    <2>1. from.edge \in Edges(g) /\ from.offset \in Nat /\ g.edges[from.edge].length \in Nat
      BY DEF IsLeg, IsSnap, IsLoaded
    <2> QED  BY <2>1 DEF SeedPiece, Piece, Length
  <1>2. \A x \in Usable(g) : WholePiece(g, x) \in Piece(g)
    <2> TAKE x \in Usable(g)
    <2>1. x \div 2 \in Edges(g)
      BY UsableFacts
    <2>2. g.edges[x \div 2].length \in Nat
      BY <2>1 DEF IsLeg, IsLoaded
    <2>3. (x % 2 = 1) \in BOOLEAN
      OBVIOUS
    <2> QED  BY <2>1, <2>2, <2>3 DEF WholePiece, Piece, Length
  <1>3. IsGrounded(D, Base, down)
    BY DEF InSearch
  <1>4. \A n \in D : n \in Nodes(g) /\ by[n] \in Int /\ (n \in Base <=> by[n] < 0) /\ down[n] = Begin(g, by[n])
    BY DEF Marked, Seeded, Before, InSearch, Labels
  <1>5. ASSUME NEW n \in D, ~(by[n] < 0)
        PROVE  /\ Begin(g, by[n]) \in D /\ by[n] \in Usable(g) /\ NodeAt(g, by[n]) = n
               /\ s.cost[Begin(g, by[n])] + CostOver(g, p, by[n]) <= s.cost[n]
    <2>1. MayArrive(g, p, from, now, s, n, s.cost[n], by[n])
      BY DEF InSearch
    <2>2. /\ by[n] \in Usable(g) /\ NodeAt(g, by[n]) = n /\ s.marks[Begin(g, by[n])] = now
          /\ s.cost[Begin(g, by[n])] + CostOver(g, p, by[n]) <= s.cost[n]
      BY <1>5, <2>1 DEF MayArrive
    <2> QED  BY <2>2, UsableFacts DEF Marked
  <1> HIDE DEF D, Base, down, by, R
  <1>6. ASSUME NEW n \in D, n \in Base PROVE A[n] \in R
    <2>1. SeedPiece(g, from, by[n] = -1) \in Piece(g)
      BY <1>1
    <2> QED  BY <2>1 DEF R
  <1>7. ASSUME NEW n \in D, NEW r \in R, n \notin Base PROVE G[<<n, r>>] \in R
    <2>1. G[<<n, r>>] = Append(r, WholePiece(g, by[n]))
      OBVIOUS
    <2>2. WholePiece(g, by[n]) \in Piece(g)
      BY <1>2, <1>4, <1>5, <1>7
    <2> HIDE DEF G
    <2> QED  BY <2>1, <2>2 DEF R
  <1>8. IsRecursion(D, R, Base, down, A, G)
    <2> HIDE DEF A, G
    <2> QED  BY <1>3, <1>6, <1>7 DEF IsRecursion
  <1>9. PICK f \in [D -> R] : \A i \in D : f[i] = IF i \in Base THEN A[i] ELSE G[<<i, f[down[i]]>>]
    <2> HIDE DEF A, G
    <2> QED  BY <1>8, RecursionExists
  <1>10. f = [n \in D |-> IF by[n] < 0 THEN <<SeedPiece(g, from, by[n] = -1)>>
                          ELSE Append(f[Begin(g, by[n])], WholePiece(g, by[n]))]
    <2>1. \A n \in D : f[n] = IF by[n] < 0 THEN <<SeedPiece(g, from, by[n] = -1)>>
                              ELSE Append(f[Begin(g, by[n])], WholePiece(g, by[n]))
      <3> TAKE n \in D
      <3>1. CASE by[n] < 0
        BY <1>4, <1>9, <3>1
      <3>2. CASE ~(by[n] < 0)
        <4>1. n \notin Base /\ down[n] = Begin(g, by[n]) /\ Begin(g, by[n]) \in D
          BY <1>4, <1>5, <3>2
        <4>2. f[n] = G[<<n, f[Begin(g, by[n])]>>] /\ f[Begin(g, by[n])] \in R
          BY <1>9, <4>1
        <4>3. f[n] = Append(f[Begin(g, by[n])], WholePiece(g, by[n]))
          BY <4>2
        <4> QED  BY <3>2, <4>3
      <3> QED  BY <3>1, <3>2
    <2>2. f = [n \in D |-> f[n]]
      OBVIOUS
    <2> QED  BY <2>1, <2>2, Zenon
  <1>11. u = [n \in D |-> IF by[n] < 0 THEN <<SeedPiece(g, from, by[n] = -1)>>
                          ELSE Append(u[Begin(g, by[n])], WholePiece(g, by[n]))]
    BY <1>10, Zenon
  <1>12. \A n : Back(g, from, by, D, n) = u[n]
    BY Zenon DEF Back
  <1> HIDE DEF u
  <1>13. \A n \in D : u[n] = IF by[n] < 0 THEN <<SeedPiece(g, from, by[n] = -1)>>
                             ELSE Append(u[Begin(g, by[n])], WholePiece(g, by[n]))
    BY <1>11
  <1> DEFINE T == {n \in D : u[n] \in R}
  <1>14. ASSUME NEW n \in D, n \in Base \/ down[n] \in T PROVE n \in T
    <2>1. CASE by[n] < 0
      <3>1. u[n] = A[n]
        BY <1>13, <2>1
      <3>2. n \in Base
        BY <1>4, <2>1
      <3> HIDE DEF A
      <3>3. A[n] \in R
        BY <1>6, <3>2
      <3> QED  BY <3>1, <3>3
    <2>2. CASE ~(by[n] < 0)
      <3>1. u[Begin(g, by[n])] \in R
        BY <1>4, <1>14, <2>2
      <3>2. WholePiece(g, by[n]) \in Piece(g)
        BY <1>2, <1>5, <2>2
      <3>3. u[n] = Append(u[Begin(g, by[n])], WholePiece(g, by[n]))
        BY <1>13, <2>2
      <3> DEFINE v == u[Begin(g, by[n])]
                 w == WholePiece(g, by[n])
      <3> HIDE DEF v, w
      <3>4. Append(v, w) \in Seq(Piece(g))
        BY <3>1, <3>2 DEF R, v, w
      <3> QED  BY <3>3, <3>4 DEF R, v, w
    <2> QED  BY <2>1, <2>2
  <1>15. D \subseteq T
    <2> HIDE DEF T
    <2> QED  BY <1>3, <1>14, GroundedInduction
  <1>16. ASSUME NEW n \in D
         PROVE  /\ Back(g, from, by, D, n) \in R
                /\ Back(g, from, by, D, n) = IF by[n] < 0 THEN <<SeedPiece(g, from, by[n] = -1)>>
                                             ELSE Append(Back(g, from, by, D, Begin(g, by[n])), WholePiece(g, by[n]))
                /\ by[n] < 0 => SeedPiece(g, from, by[n] = -1) \in Piece(g)
                /\ ~(by[n] < 0) => /\ Begin(g, by[n]) \in D /\ WholePiece(g, by[n]) \in Piece(g)
                                   /\ by[n] \in Usable(g) /\ NodeAt(g, by[n]) = n
                                   /\ s.cost[Begin(g, by[n])] + CostOver(g, p, by[n]) <= s.cost[n]
    <2>1. Back(g, from, by, D, n) \in R
      BY <1>12, <1>15
    <2>2. Back(g, from, by, D, n) = IF by[n] < 0 THEN <<SeedPiece(g, from, by[n] = -1)>>
                                    ELSE Append(Back(g, from, by, D, Begin(g, by[n])), WholePiece(g, by[n]))
      BY <1>12, <1>13, Zenon
    <2>3. (by[n] = -1) \in BOOLEAN
      OBVIOUS
    <2>4. by[n] < 0 => SeedPiece(g, from, by[n] = -1) \in Piece(g)
      BY <1>1, <2>3
    <2> QED  BY <1>2, <1>5, <2>1, <2>2, <2>4
  <1>17. ASSUME NEW n \in D PROVE StepsBack(g, p, from, now, s, n)
    <2>1. CASE by[n] < 0
      BY <1>16, <2>1 DEF StepsBack, BackOf, D, R, by
    <2>2. CASE ~(by[n] < 0)
      BY <1>16, <2>2 DEF StepsBack, BackOf, D, R, by
    <2> QED  BY <2>1, <2>2
  <1> QED  BY <1>17 DEF D

(* The time over pieces, with the delay of the junction after each.        *)
SecondsOf(g, q) == Seconds(g, q.edge, Travelled(q))
DelayAfter(g, q) == junctionDelay(g, q.edge, NodeAfter(g, q))
FullTime(g, w) == Total([i \in 1..Len(w) |-> SecondsOf(g, w[i]) + DelayAfter(g, w[i])])

LEMMA SecondsType ==
  ASSUME NEW g, IsLoaded(g), NEW q \in Piece(g)
  PROVE  SecondsOf(g, q) \in Nat /\ DelayAfter(g, q) \in 0..Delay /\ DelayAfter(g, q) \in Nat
  <1> DEFINE a == Travelled(q)
             b == g.edges[q.edge].slow
  <1>1. q.edge \in Edges(g) /\ a \in Nat
    BY TravelledType DEF Piece
  <1>2. b \in Nat
    BY <1>1 DEF IsLoaded
  <1>3. SecondsOf(g, q) = a * b
    BY DEF SecondsOf, Seconds
  <1> HIDE DEF a, b
  <1>4. a * b \in Nat
    BY <1>1, <1>2
  <1>5. DelayAfter(g, q) \in 0..Delay /\ Delay \in Nat
    BY DelayType, NativeRouterAssumption DEF DelayAfter
  <1> QED  BY <1>3, <1>4, <1>5

LEMMA TimesGrow ==
  ASSUME NEW g, IsLoaded(g), NEW w \in Seq(Piece(g)), NEW q \in Piece(g)
  PROVE  /\ FullTime(g, w) \in Nat
         /\ FullTime(g, Append(w, q)) = FullTime(g, w) + (SecondsOf(g, q) + DelayAfter(g, q))
         /\ Duration(g, Append(w, q)) = FullTime(g, w) + SecondsOf(g, q)
  <1> DEFINE n == Len(w)
             v == Append(w, q)
             h == [i \in 1..n |-> SecondsOf(g, w[i]) + DelayAfter(g, w[i])]
             k == [i \in 1..n + 1 |-> SecondsOf(g, v[i]) + DelayAfter(g, v[i])]
             l == [i \in 1..n + 1 |-> SecondsOf(g, v[i]) + (IF i < n + 1 THEN DelayAfter(g, v[i]) ELSE 0)]
  <1>1. n \in Nat /\ v \in Seq(Piece(g)) /\ Len(v) = n + 1 /\ v[n + 1] = q /\ \A i \in 1..n : v[i] = w[i] /\ w[i] \in Piece(g)
    OBVIOUS
  <1>2. FullTime(g, w) = Total(h) /\ FullTime(g, v) = Total(k)
    BY <1>1 DEF FullTime
  <1>3. Duration(g, v) = Total(l)
    BY <1>1 DEF Duration, SecondsOf, DelayAfter
  <1> HIDE DEF n, v
  <1>4. \A i \in 1..n : i \in 1..n + 1 /\ i < n + 1
    BY <1>1
  <1>5. \A i \in 1..n + 1 : v[i] \in Piece(g)
    BY <1>1
  <1>6. \A i \in 1..n + 1 : SecondsOf(g, v[i]) \in Nat /\ DelayAfter(g, v[i]) \in Nat
    BY <1>5, SecondsType
  <1>7. h \in [1..n -> Nat]
    <2>1. \A i \in 1..n : SecondsOf(g, w[i]) \in Nat /\ DelayAfter(g, w[i]) \in Nat
      BY <1>1, SecondsType
    <2> QED  BY <2>1
  <1>8. k \in [1..n + 1 -> Nat]
    BY <1>6
  <1>9. l \in [1..n + 1 -> Nat]
    BY <1>6
  <1>10. (\A i \in 1..n : k[i] = h[i]) /\ (\A i \in 1..n : l[i] = h[i])
    BY <1>1, <1>4
  <1>11. k[n + 1] = SecondsOf(g, q) + DelayAfter(g, q)
    BY <1>1
  <1>12. l[n + 1] = SecondsOf(g, q)
    <2>1. n + 1 \in 1..n + 1 /\ ~(n + 1 < n + 1) /\ SecondsOf(g, q) \in Nat
      BY <1>1, SecondsType
    <2> QED  BY <1>1, <2>1
  <1> HIDE DEF h, k, l
  <1>13. Total(h) \in Nat /\ Total(k) = Total(h) + k[n + 1]
    BY <1>1, <1>7, <1>8, <1>10, TotalGrows
  <1>14. Total(l) = Total(h) + l[n + 1]
    BY <1>1, <1>7, <1>9, <1>10, TotalGrows
  <1> QED  BY <1>2, <1>3, <1>11, <1>12, <1>13, <1>14 DEF v

LEMMA TimeOfNone ==
  ASSUME NEW g
  PROVE  FullTime(g, <<>>) = 0
  <1> DEFINE e == <<>>
  <1>1. Len(e) = 0
    BY EmptySeq
  <1>2. [i \in 1..Len(e) |-> SecondsOf(g, e[i]) + DelayAfter(g, e[i])] \in [1..0 -> Nat]
    BY <1>1
  <1> HIDE DEF e
  <1>3. FullTime(g, e) = 0
    BY <1>2, TotalOfNone DEF FullTime
  <1> QED  BY <1>3 DEF e

(* A walk that leads from the origin to a node goes on over an edge that   *)
(* the node is an end of.                                                  *)
LeadsTo(g, from, w, n) ==
  /\ w \in Seq(Piece(g)) /\ Len(w) >= 1 /\ w[1].edge = from.edge /\ w[1].from = from.offset
  /\ n \in EndsAt(g, w[Len(w)].edge, w[Len(w)].to)
  /\ \A i \in 1..Len(w) - 1 : EndsAt(g, w[i].edge, w[i].to) \cap EndsAt(g, w[i + 1].edge, w[i + 1].from) # {}

LEMMA GoesOn ==
  ASSUME NEW g, NEW from, NEW w, NEW n, LeadsTo(g, from, w, n), NEW q \in Piece(g), n \in EndsAt(g, q.edge, q.from)
  PROVE  /\ Append(w, q) \in Seq(Piece(g)) /\ Len(Append(w, q)) = Len(w) + 1 /\ Len(w) >= 1 /\ Len(w) \in Nat
         /\ Append(w, q)[1].edge = from.edge /\ Append(w, q)[1].from = from.offset
         /\ Append(w, q)[Len(w) + 1] = q
         /\ \A i \in 1..Len(Append(w, q)) - 1 :
              EndsAt(g, Append(w, q)[i].edge, Append(w, q)[i].to)
                \cap EndsAt(g, Append(w, q)[i + 1].edge, Append(w, q)[i + 1].from) # {}
  <1> DEFINE v == Append(w, q)
             l == Len(w)
  <1>1. w \in Seq(Piece(g)) /\ l >= 1
    BY DEF LeadsTo
  <1>2. v \in Seq(Piece(g)) /\ Len(v) = l + 1 /\ l \in Nat /\ v[l + 1] = q /\ \A i \in 1..l : v[i] = w[i]
    BY <1>1
  <1> HIDE DEF v, l
  <1>3. v[1].edge = from.edge /\ v[1].from = from.offset
    BY <1>1, <1>2 DEF LeadsTo
  <1>4. ASSUME NEW i \in 1..Len(v) - 1
        PROVE  EndsAt(g, v[i].edge, v[i].to) \cap EndsAt(g, v[i + 1].edge, v[i + 1].from) # {}
    <2>1. CASE i = l
      <3>1. v[i] = w[l] /\ v[i + 1] = q
        BY <1>1, <1>2, <2>1
      <3>2. n \in EndsAt(g, w[l].edge, w[l].to)
        BY DEF LeadsTo, l
      <3> QED  BY <3>1, <3>2
    <2>2. CASE i # l
      <3>1. i \in 1..l - 1 /\ v[i] = w[i] /\ v[i + 1] = w[i + 1]
        BY <1>1, <1>2, <2>2, SMTT(30)
      <3>2. EndsAt(g, w[i].edge, w[i].to) \cap EndsAt(g, w[i + 1].edge, w[i + 1].from) # {}
        BY <3>1 DEF LeadsTo, l
      <3> QED  BY <3>1, <3>2
    <2> QED  BY <2>1, <2>2
  <1> QED  BY <1>1, <1>2, <1>3, <1>4 DEF v, l

(* A whole edge is left at the end that its entry leads to, and entered at *)
(* the other.                                                              *)
LEMMA WholeEnds ==
  ASSUME NEW g, IsLoaded(g), NEW x \in Entries(g)
  PROVE  /\ Begin(g, x) \in EndsAt(g, WholePiece(g, x).edge, WholePiece(g, x).from)
         /\ NodeAt(g, x) \in EndsAt(g, WholePiece(g, x).edge, WholePiece(g, x).to)
         /\ NodeAfter(g, WholePiece(g, x)) = NodeAt(g, x)
         /\ Travelled(WholePiece(g, x)) = g.edges[x \div 2].length
  <1> DEFINE e == x \div 2
             l == g.edges[e].length
             q == WholePiece(g, x)
  <1>1. /\ e \in Edges(g) /\ Begin(g, x) \in Nodes(g) /\ NodeAt(g, x) \in Nodes(g) /\ x % 2 \in {0, 1}
        /\ x % 2 = 0 => Begin(g, x) = g.edges[e].u /\ NodeAt(g, x) = g.edges[e].v
        /\ x % 2 = 1 => Begin(g, x) = g.edges[e].v /\ NodeAt(g, x) = g.edges[e].u
    BY EntryEnds
  <1>2. l \in Nat
    BY <1>1 DEF IsLoaded
  <1>3. CASE x % 2 = 0
    <2>1. q.edge = e /\ q.from = 0 /\ q.to = l /\ ~q.reverse
      <3>1. ~(x % 2 = 1)
        BY <1>3
      <3>2. q = [edge |-> e, reverse |-> FALSE, from |-> 0, to |-> l]
        BY <3>1, Zenon DEF WholePiece, Length
      <3> HIDE DEF q
      <3> QED  BY <3>2
    <2> HIDE DEF q, l, e
    <2> QED  BY <1>1, <1>2, <1>3, <2>1 DEF EndsAt, NodeAfter, Travelled, Abs, Length, l, e, q
  <1>4. CASE x % 2 = 1
    <2>1. q.edge = e /\ q.from = l /\ q.to = 0 /\ q.reverse
      BY <1>4 DEF WholePiece, Length
    <2> HIDE DEF q, l, e
    <2> QED  BY <1>1, <1>2, <1>4, <2>1 DEF EndsAt, NodeAfter, Travelled, Abs, Length, l, e, q
  <1> QED  BY <1>1, <1>3, <1>4

LEMMA SeedEnds ==
  ASSUME NEW g, IsLoaded(g), NEW from, IsSnap(g, from), NEW atU \in BOOLEAN,
         NEW n, n = (IF atU THEN g.edges[from.edge].u ELSE g.edges[from.edge].v)
  PROVE  /\ n \in EndsAt(g, SeedPiece(g, from, atU).edge, SeedPiece(g, from, atU).to)
         /\ Travelled(SeedPiece(g, from, atU)) = (IF atU THEN from.offset ELSE g.edges[from.edge].length - from.offset)
         /\ SeedPiece(g, from, atU).edge = from.edge /\ SeedPiece(g, from, atU).from = from.offset
  <1> DEFINE e == from.edge
             l == g.edges[e].length
             o == from.offset
             q == SeedPiece(g, from, atU)
  <1>1. e \in Edges(g) /\ o \in 0..l
    BY DEF IsSnap
  <1>2. l \in Nat /\ o \in Nat /\ l - o \in Nat
    BY <1>1 DEF IsLoaded
  <1>3. n \in Nodes(g)
    BY <1>1 DEF IsLoaded
  <1>4. q.edge = e /\ q.from = o /\ q.to = IF atU THEN 0 ELSE l
    BY DEF SeedPiece, Length
  <1>5. Travelled(q) = IF atU THEN o ELSE l - o
    <2> HIDE DEF q, l, o
    <2> QED  BY <1>2, <1>4 DEF Travelled, Abs
  <1>6. n \in EndsAt(g, q.edge, q.to)
    <2> HIDE DEF q
    <2>1. g.edges[e].length = l
      OBVIOUS
    <2> HIDE DEF e, l, o
    <2> QED  BY <1>3, <1>4, <2>1 DEF EndsAt, Length, e
  <1> QED  BY <1>4, <1>5, <1>6

Unpenalized(g, p) == \A e \in Edges(g) : p[e] = 1

(* The way back is a walk from the origin, and its time what the label     *)
(* says, but for the delay of the first junction.                          *)
LEMMA Backs ==
  ASSUME NEW g, NEW p, NEW from, NEW to, IsLeg(g, p, from, to), NEW now \in Nat, NEW s, InSearch(g, p, from, now, s)
  PROVE  \A n \in Marked(g, now, s) :
           /\ LeadsTo(g, from, BackOf(g, from, now, s, n), n)
           /\ Unpenalized(g, p) =>
                /\ FullTime(g, BackOf(g, from, now, s, n)) <= s.cost[n] + Delay
                /\ \E c \in WalkCosts(g, p, from, n) : c <= FullTime(g, BackOf(g, from, now, s, n))
  <1> DEFINE D == Marked(g, now, s)
             B(n) == BackOf(g, from, now, s, n)
             Timed(n) == /\ FullTime(g, B(n)) <= s.cost[n] + Delay
                         /\ \E c \in WalkCosts(g, p, from, n) : c <= FullTime(g, B(n))
             T == {n \in D : LeadsTo(g, from, B(n), n) /\ (Unpenalized(g, p) => Timed(n))}
  <1>1. IsLoaded(g) /\ IsSnap(g, from) /\ from.edge \in Edges(g)
    BY DEF IsLeg, IsSnap
  <1>2. ASSUME NEW n \in D
        PROVE  /\ n \in Nodes(g) /\ s.cost[n] \in Nat /\ s.via[n] \in Int
               /\ s.cost[n] \in WalkCosts(g, p, from, n) /\ MayArrive(g, p, from, now, s, n, s.cost[n], s.via[n])
    BY DEF Marked, InSearch, Labels
  <1>3. ASSUME NEW n \in D, n \in Seeded(g, s) PROVE n \in T
    <2> DEFINE atU == s.via[n] = -1
               e == from.edge
               q == SeedPiece(g, from, atU)
               w == g.edges[e].slow
               l == g.edges[e].length
               o == from.offset
    <2>1. s.via[n] < 0 /\ B(n) = <<q>> /\ q \in Piece(g)
      <3>1. s.via[n] < 0
        BY <1>3 DEF Seeded
      <3>2. StepsBack(g, p, from, now, s, n)
        BY BackUnfold
      <3> QED  BY <3>1, <3>2 DEF StepsBack
    <2>2. /\ atU => n = g.edges[e].u /\ s.cost[n] = CostToU(g, p, from)
          /\ ~atU => n = g.edges[e].v /\ s.cost[n] = CostToV(g, p, from)
      <3>1. \A x \in Usable(g) : ~(x < 0)
        BY UsableFacts
      <3> QED  BY <1>2, <2>1, <3>1 DEF MayArrive
    <2>3. /\ n \in EndsAt(g, q.edge, q.to) /\ q.edge = e /\ q.from = o
          /\ Travelled(q) = IF atU THEN o ELSE l - o
      <3> DEFINE b == atU
      <3>1. b \in BOOLEAN /\ n = (IF b THEN g.edges[from.edge].u ELSE g.edges[from.edge].v)
        BY <2>2
      <3> HIDE DEF b
      <3>2. /\ n \in EndsAt(g, SeedPiece(g, from, b).edge, SeedPiece(g, from, b).to)
            /\ Travelled(SeedPiece(g, from, b)) = (IF b THEN from.offset ELSE g.edges[from.edge].length - from.offset)
            /\ SeedPiece(g, from, b).edge = from.edge /\ SeedPiece(g, from, b).from = from.offset
        BY <1>1, <3>1, SeedEnds
      <3> QED  BY <3>2, Zenon DEF b
    <2> HIDE DEF q
    <2>4. <<q>> \in Seq(Piece(g)) /\ Len(<<q>>) = 1 /\ <<q>>[1] = q
      BY <2>1
    <2>5. LeadsTo(g, from, <<q>>, n)
      <3>1. \A i \in 1..1 - 1 : FALSE
        OBVIOUS
      <3> DEFINE v == <<q>>
      <3> HIDE DEF v
      <3>2. v \in Seq(Piece(g)) /\ Len(v) = 1 /\ v[1] = q
        BY <2>4 DEF v
      <3>3. LeadsTo(g, from, v, n)
        BY <2>3, <3>1, <3>2 DEF LeadsTo
      <3> QED  BY <3>3 DEF v
    <2>6. ASSUME Unpenalized(g, p) PROVE Timed(n)
      <3> DEFINE z == <<>>
      <3>1. z \in Seq(Piece(g)) /\ FullTime(g, z) = 0 /\ Append(z, q) = <<q>>
        BY TimeOfNone
      <3> HIDE DEF z
      <3>2. FullTime(g, <<q>>) = 0 + (SecondsOf(g, q) + DelayAfter(g, q))
        BY <1>1, <2>1, <3>1, TimesGrow
      <3>3. SecondsOf(g, q) \in Nat /\ DelayAfter(g, q) \in 0..Delay
        BY <1>1, <2>1, SecondsType
      <3>4. SecondsOf(g, q) = s.cost[n]
        <4>1. p[e] = 1
          BY <1>1, <2>6 DEF Unpenalized
        <4>2. w \in Nat /\ l \in Nat /\ o \in Nat /\ l - o \in Nat
          BY <1>1 DEF IsLoaded, IsSnap
        <4>3. CASE atU
          <5>1. s.cost[n] = (o * w) * p[e] /\ SecondsOf(g, q) = o * w
            BY <2>2, <2>3, <4>3 DEF CostToU, Seconds, SecondsOf
          <5> HIDE DEF o, w
          <5>2. o * w \in Nat
            BY <4>2
          <5> DEFINE ow == o * w
          <5> HIDE DEF ow
          <5>3. ow * 1 = ow
            BY <5>2 DEF ow
          <5> QED  BY <4>1, <5>1, <5>3 DEF ow
        <4>4. CASE ~atU
          <5> DEFINE r == l - o
          <5>1. s.cost[n] = (r * w) * p[e] /\ SecondsOf(g, q) = r * w
            BY <2>2, <2>3, <4>4 DEF CostToV, Seconds, SecondsOf, Length
          <5>2. r \in Nat
            BY <4>2
          <5> HIDE DEF r, w
          <5>3. r * w \in Nat
            BY <4>2, <5>2
          <5> DEFINE rw == r * w
          <5> HIDE DEF rw
          <5>4. rw * 1 = rw
            BY <5>3 DEF rw
          <5> QED  BY <4>1, <5>1, <5>4 DEF rw
        <4> QED  BY <4>3, <4>4
      <3>5. Delay \in Nat
        BY NativeRouterAssumption
      <3>6. FullTime(g, B(n)) = s.cost[n] + DelayAfter(g, q)
        BY <1>2, <2>1, <3>2, <3>3, <3>4
      <3> HIDE DEF B
      <3> QED  BY <1>2, <3>3, <3>5, <3>6
    <2> HIDE DEF Timed, B
    <2> QED  BY <2>1, <2>5, <2>6
  <1>4. ASSUME NEW n \in D, n \notin Seeded(g, s), Before(g, s)[n] \in T PROVE n \in T
    <2> DEFINE x == s.via[n]
               m == Begin(g, x)
               q == WholePiece(g, x)
               o == CostOver(g, p, x)
    <2>1. ~(x < 0) /\ Before(g, s)[n] = m
      BY <1>2, <1>4 DEF Seeded, Before
    <2>2. /\ B(n) = Append(B(m), q) /\ q \in Piece(g) /\ m \in D /\ x \in Usable(g) /\ NodeAt(g, x) = n
          /\ s.cost[m] + o <= s.cost[n]
      <3>1. StepsBack(g, p, from, now, s, n)
        BY BackUnfold
      <3> QED  BY <2>1, <3>1 DEF StepsBack
    <2>3. LeadsTo(g, from, B(m), m) /\ (Unpenalized(g, p) => Timed(m))
      BY <1>4, <2>1
    <2>4. /\ m \in EndsAt(g, q.edge, q.from) /\ n \in EndsAt(g, q.edge, q.to)
          /\ NodeAfter(g, q) = n /\ Travelled(q) = g.edges[x \div 2].length
      BY <1>1, <2>2, WholeEnds DEF Usable
    <2>5. LeadsTo(g, from, B(n), n)
      <3> DEFINE v == B(m)
      <3>1. LeadsTo(g, from, v, m) /\ B(n) = Append(v, q)
        BY <2>2, <2>3
      <3> HIDE DEF v, q, m
      <3>2. /\ Append(v, q) \in Seq(Piece(g)) /\ Len(Append(v, q)) = Len(v) + 1 /\ Len(v) >= 1 /\ Len(v) \in Nat
            /\ Append(v, q)[1].edge = from.edge /\ Append(v, q)[1].from = from.offset
            /\ Append(v, q)[Len(v) + 1] = q
        BY <2>2, <2>4, <3>1, GoesOn
      <3>3. \A i \in 1..Len(Append(v, q)) - 1 :
              EndsAt(g, Append(v, q)[i].edge, Append(v, q)[i].to)
                \cap EndsAt(g, Append(v, q)[i + 1].edge, Append(v, q)[i + 1].from) # {}
        BY <2>2, <2>4, <3>1, GoesOn
      <3> DEFINE a == Append(v, q)
      <3> HIDE DEF a
      <3>4. Len(a) >= 1 /\ a[Len(a)] = q
        BY <3>2 DEF a
      <3>5. LeadsTo(g, from, a, n)
        BY <2>4, <3>2, <3>3, <3>4 DEF LeadsTo, a
      <3> QED  BY <3>1, <3>5 DEF a
    <2>6. ASSUME Unpenalized(g, p) PROVE Timed(n)
      <3> DEFINE f == FullTime(g, B(m))
                 d == SecondsOf(g, q) + DelayAfter(g, q)
      <3>1. FullTime(g, B(n)) = f + d /\ f \in Nat
        <4>1. B(m) \in Seq(Piece(g))
          BY <2>3 DEF LeadsTo
        <4> HIDE DEF q, B
        <4> QED  BY <1>1, <2>2, <4>1, TimesGrow
      <3>2. o = d /\ o \in Nat
        <4> DEFINE e == x \div 2
        <4>1. e \in Edges(g) /\ o \in Nat
          BY <2>2, UsableFacts
        <4>2. p[e] = 1
          BY <2>6, <4>1 DEF Unpenalized
        <4>3. q.edge = e
          BY DEF WholePiece
        <4>4. o = (SecondsOf(g, q) + DelayAfter(g, q)) * p[e]
          BY <2>2, <2>4, <4>3 DEF CostOver, SecondsOf, DelayAfter, Length
        <4>5. SecondsOf(g, q) \in Nat /\ DelayAfter(g, q) \in Nat
          BY <1>1, <2>2, SecondsType
        <4>6. d \in Nat
          BY <4>5
        <4> HIDE DEF d, o
        <4>7. d * 1 = d
          BY <4>6
        <4> QED  BY <4>1, <4>2, <4>4, <4>7 DEF d
      <3>3. Timed(m)
        BY <2>3, <2>6
      <3>4. PICK c \in WalkCosts(g, p, from, m) : c <= f
        BY <3>3
      <3>5. c \in Nat /\ c + o \in WalkCosts(g, p, from, n)
        <4>1. m \in Nodes(g)
          BY <1>2, <2>2
        <4> QED  BY <2>2, <4>1, WalkCostsFacts
      <3>6. f <= s.cost[m] + Delay /\ s.cost[m] \in Nat /\ s.cost[n] \in Nat /\ Delay \in Nat
        BY <1>2, <2>2, <3>3, NativeRouterAssumption
      <3> DEFINE cm == s.cost[m]
                 cn == s.cost[n]
      <3> HIDE DEF f, d, o, cm, cn, B
      <3>7. cm + o <= cn /\ f <= cm + Delay /\ cm \in Nat /\ cn \in Nat
        BY <2>2, <3>6 DEF cm, cn, o
      <3>8. FullTime(g, B(n)) <= cn + Delay /\ c + o <= FullTime(g, B(n))
        BY <3>1, <3>2, <3>4, <3>5, <3>6, <3>7
      <3> QED  BY <3>5, <3>8 DEF cn
    <2> HIDE DEF Timed, B
    <2> QED  BY <2>5, <2>6
  <1>5. D \subseteq T
    <2>1. IsGrounded(D, Seeded(g, s), Before(g, s))
      BY DEF InSearch
    <2>2. \A n \in D : n \in Seeded(g, s) \/ Before(g, s)[n] \in T => n \in T
      BY <1>3, <1>4
    <2> HIDE DEF D, T
    <2> QED  BY <2>1, <2>2, GroundedInduction
  <1> QED  BY <1>5

Along(from, to) == [edge |-> to.edge, reverse |-> to.offset < from.offset, from |-> from.offset, to |-> to.offset]
LegPieces(g, from, to, now, s, bestEnd_) ==
  IF bestEnd_ = -3 THEN <<Along(from, to)>>
  ELSE Append(BackOf(g, from, now, s, bestEnd_), LastPiece(g, to, bestEnd_))

LEMMA LastEnds ==
  ASSUME NEW g, IsLoaded(g), NEW p, NEW to, IsSnap(g, to), NEW n \in Nodes(g), NEW t \in CostsToEnd(g, p, to, n)
  PROVE  /\ LastPiece(g, to, n) \in Piece(g) /\ LastPiece(g, to, n).edge = to.edge /\ LastPiece(g, to, n).to = to.offset
         /\ n \in EndsAt(g, LastPiece(g, to, n).edge, LastPiece(g, to, n).from)
         /\ Unpenalized(g, p) /\ g.edges[to.edge].u # g.edges[to.edge].v => SecondsOf(g, LastPiece(g, to, n)) = t
  <1> DEFINE e == to.edge
             l == g.edges[e].length
             w == g.edges[e].slow
             o == to.offset
             q == LastPiece(g, to, n)
             u == g.edges[e].u
             v == g.edges[e].v
             r == l - o
  <1>1. e \in Edges(g) /\ o \in 0..l
    BY DEF IsSnap
  <1>2. l \in Nat /\ o \in Nat /\ r \in Nat /\ w \in Nat
    BY <1>1 DEF IsLoaded
  <1>3. (n = u /\ t = CostToU(g, p, to)) \/ (n = v /\ t = CostToV(g, p, to))
    BY DEF CostsToEnd
  <1>4. q.edge = e /\ q.to = o /\ q.from = (IF n = u THEN 0 ELSE l)
    BY DEF LastPiece, Length
  <1>5. q \in Piece(g)
    <2>1. (n = v) \in BOOLEAN
      OBVIOUS
    <2> QED  BY <1>1, <1>2, <2>1 DEF LastPiece, Piece, Length
  <1>6. CostToU(g, p, to) = (o * w) * p[e] /\ CostToV(g, p, to) = (r * w) * p[e]
    BY DEF CostToU, CostToV, Seconds, Length
  <1>7. Travelled(q) = (IF n = u THEN o ELSE r)
    <2> HIDE DEF q
    <2> QED  BY <1>2, <1>4 DEF Travelled, Abs
  <1>8. SecondsOf(g, q) = (IF n = u THEN o ELSE r) * w
    <2> HIDE DEF q
    <2> QED  BY <1>4, <1>7 DEF SecondsOf, Seconds
  <1>9. n \in EndsAt(g, q.edge, q.from)
    <2> HIDE DEF q
    <2> QED  BY <1>3, <1>4 DEF EndsAt, Length
  <1>10. ASSUME Unpenalized(g, p), u # v PROVE SecondsOf(g, q) = t
    <2>1. p[e] = 1
      BY <1>1, <1>10 DEF Unpenalized
    <2> HIDE DEF q, o, r, w, e
    <2> DEFINE ow == o * w
               rw == r * w
    <2>2. ow \in Nat /\ rw \in Nat
      BY <1>2
    <2> HIDE DEF ow, rw
    <2>3. ow * 1 = ow /\ rw * 1 = rw
      BY <2>2
    <2>4. CostToU(g, p, to) = ow * p[e] /\ CostToV(g, p, to) = rw * p[e]
      BY <1>6 DEF ow, rw
    <2>5. SecondsOf(g, q) = IF n = u THEN ow ELSE rw
      BY <1>8 DEF ow, rw
    <2> QED  BY <1>3, <1>10, <2>1, <2>3, <2>4, <2>5
  <1> QED  BY <1>4, <1>5, <1>9, <1>10

(* The pieces rebuilt are a walk, of the time that the search found.       *)
LEMMA LegWalks ==
  ASSUME NEW g, NEW p, NEW from, NEW to, IsLeg(g, p, from, to), NEW now \in Nat, NEW s, NEW best_, NEW bestEnd_,
         InLeg(g, p, from, to, now, best_, bestEnd_, s), best_ # Infinity,
         NEW w, w = LegPieces(g, from, to, now, s, bestEnd_)
  PROVE  /\ w \in Seq(Piece(g)) /\ Duration(g, w) \in Nat /\ IsWalk(g, from, to, w)
         /\ IsOver(best_, s) /\ Unpenalized(g, p) /\ g.edges[to.edge].u # g.edges[to.edge].v =>
              Duration(g, w) - best_ \in 0..Delay
  <1>1. InSearch(g, p, from, now, s) /\ IsReached(g, p, from, to, now, best_, bestEnd_, s) /\ best_ \in Nat
    BY DEF InLeg, IsFound
  <1>2. IsLoaded(g) /\ IsSnap(g, from) /\ IsSnap(g, to) /\ Delay \in Nat
    BY NativeRouterAssumption DEF IsLeg
  <1>3. CASE bestEnd_ = -3
    <2> DEFINE q == Along(from, to)
               z == <<>>
    <2>1. to.edge = from.edge /\ best_ = CostBetween(g, p, from, to)
      <3>1. bestEnd_ \notin Marked(g, now, s)
        BY <1>3 DEF Marked, Nodes
      <3> QED  BY <1>1, <3>1 DEF IsReached
    <2>2. q \in Piece(g) /\ q.edge = to.edge /\ q.from = from.offset /\ q.to = to.offset
      <3>1. to.edge \in Edges(g) /\ to.offset \in Nat /\ from.offset \in Nat
        BY <1>2 DEF IsSnap
      <3>2. (to.offset < from.offset) \in BOOLEAN
        OBVIOUS
      <3> QED  BY <3>1, <3>2 DEF Along, Piece
    <2>3. w = Append(z, q) /\ w = <<q>> /\ z \in Seq(Piece(g)) /\ FullTime(g, z) = 0
      BY <1>3, TimeOfNone DEF LegPieces
    <2>4. w \in Seq(Piece(g)) /\ Len(w) = 1 /\ w[1] = q
      <3> HIDE DEF q
      <3> QED  BY <2>2, <2>3
    <2>5. SecondsOf(g, q) \in Nat
      BY <1>2, <2>2, SecondsType
    <2> HIDE DEF z
    <2>6. Duration(g, w) = SecondsOf(g, q)
      <3> HIDE DEF q
      <3>1. Duration(g, Append(z, q)) = FullTime(g, z) + SecondsOf(g, q)
        BY <1>2, <2>2, <2>3, TimesGrow
      <3> QED  BY <2>3, <2>5, <3>1
    <2>7. IsWalk(g, from, to, w)
      <3>1. \A i \in 1..1 - 1 : FALSE
        OBVIOUS
      <3> HIDE DEF q
      <3> QED  BY <2>1, <2>2, <2>4, <3>1 DEF IsWalk
    <2>8. ASSUME Unpenalized(g, p) PROVE Duration(g, w) = best_
      <3>1. p[to.edge] = 1
        BY <1>2, <2>8 DEF Unpenalized, IsSnap
      <3>2. best_ = SecondsOf(g, q) * p[to.edge]
        BY <2>1, <2>2 DEF CostBetween, SecondsOf, Travelled
      <3> HIDE DEF q
      <3>3. SecondsOf(g, q) * 1 = SecondsOf(g, q)
        BY <2>5
      <3> QED  BY <2>6, <3>1, <3>2, <3>3
    <2> HIDE DEF q
    <2> QED  BY <1>1, <1>2, <2>4, <2>5, <2>6, <2>7, <2>8
  <1>4. CASE bestEnd_ # -3
    <2> DEFINE b == BackOf(g, from, now, s, bestEnd_)
               q == LastPiece(g, to, bestEnd_)
               v == Append(b, q)
    <2>1. PICK t \in CostsToEnd(g, p, to, bestEnd_) : bestEnd_ \in Marked(g, now, s) /\ s.cost[bestEnd_] + t <= best_
      BY <1>1, <1>4 DEF IsReached
    <2>2. bestEnd_ \in Nodes(g) /\ s.cost[bestEnd_] \in Nat /\ t \in Nat
      BY <1>1, <2>1, CostsToEndType DEF Marked, InSearch, Labels, IsLeg
    <2>3. /\ q \in Piece(g) /\ q.edge = to.edge /\ q.to = to.offset
          /\ bestEnd_ \in EndsAt(g, q.edge, q.from)
          /\ Unpenalized(g, p) /\ g.edges[to.edge].u # g.edges[to.edge].v => SecondsOf(g, q) = t
      BY <1>2, <2>2, LastEnds
    <2>4. w = v
      BY <1>4 DEF LegPieces
    <2>5. /\ LeadsTo(g, from, b, bestEnd_)
          /\ Unpenalized(g, p) =>
               /\ FullTime(g, b) <= s.cost[bestEnd_] + Delay
               /\ \E c \in WalkCosts(g, p, from, bestEnd_) : c <= FullTime(g, b)
      BY <1>1, <2>1, Backs
    <2> HIDE DEF b, q
    <2>6. v \in Seq(Piece(g)) /\ Len(v) = Len(b) + 1 /\ Len(b) >= 1 /\ Len(b) \in Nat
          /\ v[1].edge = from.edge /\ v[1].from = from.offset /\ v[Len(b) + 1] = q
      BY <2>3, <2>5, GoesOn
    <2>7. \A i \in 1..Len(v) - 1 : EndsAt(g, v[i].edge, v[i].to) \cap EndsAt(g, v[i + 1].edge, v[i + 1].from) # {}
      BY <2>3, <2>5, GoesOn, SMTT(30)
    <2>8. b \in Seq(Piece(g))
      BY <2>5 DEF LeadsTo
    <2>9. Duration(g, v) = FullTime(g, b) + SecondsOf(g, q) /\ FullTime(g, b) \in Nat /\ SecondsOf(g, q) \in Nat
      BY <1>2, <2>3, <2>8, TimesGrow, SecondsType
    <2> HIDE DEF v
    <2>10. IsWalk(g, from, to, v)
      BY <2>3, <2>6, <2>7 DEF IsWalk
    <2>11. ASSUME IsOver(best_, s), Unpenalized(g, p), g.edges[to.edge].u # g.edges[to.edge].v
           PROVE  Duration(g, v) - best_ \in 0..Delay
      <3>1. PICK c \in WalkCosts(g, p, from, bestEnd_) : c <= FullTime(g, b)
        BY <2>5, <2>11
      <3>2. c \in Nat
        BY <2>2, WalkCostsFacts
      <3>3. best_ <= c + t
        BY <2>2, <2>11, Ends
      <3>4. FullTime(g, b) <= s.cost[bestEnd_] + Delay /\ SecondsOf(g, q) = t
        BY <2>3, <2>5, <2>11
      <3> QED  BY <1>1, <1>2, <2>1, <2>2, <2>9, <3>1, <3>2, <3>3, <3>4
    <2> QED  BY <2>4, <2>6, <2>9, <2>10, <2>11
  <1> QED  BY <1>3, <1>4

-----------------------------------------------------------------------------
(* Penalties only grow.                                                    *)

LEMMA GrownType ==
  ASSUME NEW value \in Nat \ {0}, NEW times \in Nat
  PROVE  Grown(value, times) \in Nat \ {0}
  <1> DEFINE D == 0..times
             R == Nat \ {0}
             Base == {0}
             down == Upwards(times)
             A == [i \in D |-> value]
             G == [a \in D \X R |-> a[2] * PenaltyFactor]
             u == CHOOSE grown : grown = [i \in 0..times |-> IF i = 0 THEN value ELSE grown[i - 1] * PenaltyFactor]
  <1>1. \A r \in R : r * PenaltyFactor \in R
    <2> TAKE r \in R
    <2> DEFINE f == PenaltyFactor
    <2>1. f \in Nat /\ f > 0 /\ r \in Nat /\ r > 0
      BY NativeRouterAssumption
    <2> HIDE DEF f
    <2>2. r * f \in Nat /\ r * f >= r
      BY <2>1, Products
    <2> QED  BY <2>1, <2>2 DEF f
  <1>2. IsGrounded(D, Base, down)
    BY UpwardsGrounded
  <1>3. ASSUME NEW i \in D, NEW r \in R PROVE G[<<i, r>>] \in R
    <2>1. G[<<i, r>>] = r * PenaltyFactor
      OBVIOUS
    <2> QED  BY <1>1, <2>1
  <1>4. IsRecursion(D, R, Base, down, A, G)
    <2>1. \A i \in D : i \in Base => A[i] \in R
      OBVIOUS
    <2> HIDE DEF D, R, Base, down, A, G
    <2> QED  BY <1>2, <1>3, <2>1 DEF IsRecursion
  <1>5. PICK f \in [D -> R] : \A i \in D : f[i] = IF i \in Base THEN A[i] ELSE G[<<i, f[down[i]]>>]
    <2> HIDE DEF D, R, Base, down, A, G
    <2> QED  BY <1>4, RecursionExists
  <1>6. f = [i \in 0..times |-> IF i = 0 THEN value ELSE f[i - 1] * PenaltyFactor]
    <2>1. \A i \in D : f[i] = IF i = 0 THEN value ELSE f[i - 1] * PenaltyFactor
      <3> TAKE i \in D
      <3>1. CASE i = 0
        <4>1. i \in Base /\ A[i] = value
          BY <3>1
        <4> HIDE DEF D, Base, A, G
        <4> QED  BY <1>5, <3>1, <4>1
      <3>2. CASE i # 0
        <4>1. i \notin Base /\ down[i] = i - 1 /\ i - 1 \in D
          BY <3>2 DEF Upwards
        <4>2. f[i] = G[<<i, f[i - 1]>>] /\ f[i - 1] \in R
          BY <1>5, <4>1
        <4>3. f[i] = f[i - 1] * PenaltyFactor
          BY <4>2
        <4> QED  BY <3>2, <4>3
      <3> QED  BY <3>1, <3>2
    <2>2. f = [i \in D |-> f[i]]
      OBVIOUS
    <2> QED  BY <2>1, <2>2, Zenon
  <1>7. u = [i \in 0..times |-> IF i = 0 THEN value ELSE u[i - 1] * PenaltyFactor]
    BY <1>6, Zenon
  <1>8. Grown(value, times) = u[times]
    BY Zenon DEF Grown
  <1> HIDE DEF u
  <1> DEFINE T == {i \in 0..times : u[i] \in R}
  <1>9. 0 \in T
    BY <1>7
  <1>10. ASSUME NEW i \in 1..times, i - 1 \in T PROVE i \in T
    <2>1. u[i] = u[i - 1] * PenaltyFactor /\ i \in 0..times
      BY <1>7
    <2>2. u[i - 1] \in R
      BY <1>10
    <2> HIDE DEF R
    <2> QED  BY <1>1, <2>1, <2>2
  <1>11. 0..times \subseteq T
    <2> HIDE DEF T
    <2> QED  BY <1>9, <1>10, UpTo
  <1> QED  BY <1>8, <1>11

RouteLegs(g) ==
  {l \in [edges : Seq(Piece(g)), seconds : Nat, meters : Nat] : l.meters = Meters(l.edges)}

LEMMA TimesDrivenType ==
  ASSUME NEW g, NEW legs \in Seq(RouteLegs(g)), NEW e
  PROVE  TimesDriven(e, legs) \in Nat
  <1> DEFINE n == Len(legs)
             h == [l \in 1..n |-> Cardinality({i \in 1..Len(legs[l].edges) : legs[l].edges[i].edge = e})]
  <1>1. n \in Nat
    OBVIOUS
  <1>2. ASSUME NEW l \in 1..n PROVE h[l] \in Nat
    <2> DEFINE m == Len(legs[l].edges)
               S == {i \in 1..m : legs[l].edges[i].edge = e}
    <2>1. legs[l] \in RouteLegs(g)
      OBVIOUS
    <2>2. legs[l].edges \in Seq(Piece(g))
      BY <2>1 DEF RouteLegs
    <2>3. m \in Nat
      BY <2>2
    <2> HIDE DEF m
    <2>4. IsFiniteSet(1..m)
      BY <2>3, FS_Interval
    <2>5. S \subseteq 1..m
      OBVIOUS
    <2> HIDE DEF S
    <2>6. IsFiniteSet(S)
      BY <2>4, <2>5, FS_Subset
    <2>7. Cardinality(S) \in Nat
      BY <2>6, FS_CardinalityType
    <2> QED  BY <2>7 DEF S, m
  <1>3. h \in [1..n -> Nat]
    <2> DEFINE k(l) == Cardinality({i \in 1..Len(legs[l].edges) : legs[l].edges[i].edge = e})
    <2>1. \A l \in 1..n : k(l) \in Nat
      BY <1>2
    <2> HIDE DEF k
    <2>2. [l \in 1..n |-> k(l)] \in [1..n -> Nat]
      BY <2>1
    <2> QED  BY <2>2 DEF k
  <1>4. TimesDriven(e, legs) = Total(h)
    BY DEF TimesDriven
  <1> HIDE DEF h, n
  <1> QED  BY <1>1, <1>3, <1>4, TotalType

-----------------------------------------------------------------------------
(* A route and an alternative to it.                                       *)

(* What a leg shares with a leg over the same edges is all of it.          *)
LEMMA SharesAll ==
  ASSUME NEW g, NEW a \in RouteLegs(g), NEW b \in RouteLegs(g), a.edges = b.edges
  PROVE  sharedMeters(a, b) = b.meters /\ a.meters = b.meters
  <1> DEFINE w == b.edges
             h == [i \in 1..Len(w) |-> Travelled(w[i])]
             k == [i \in 1..Len(w) |-> IF w[i].edge \in EdgesOf(w) THEN Travelled(w[i]) ELSE 0]
  <1>1. sharedMeters(a, b) = Total(k)
    BY DEF sharedMeters
  <1>2. b.meters = Total(h) /\ a.meters = b.meters
    BY DEF RouteLegs, Meters
  <1>3. \A i \in 1..Len(w) : w[i].edge \in EdgesOf(w)
    BY DEF EdgesOf
  <1>4. h = k
    BY <1>3
  <1> QED  BY <1>1, <1>2, <1>4

Different(legs) ==
  \A i, j \in 1..Len(legs) : i < j =>
    /\ legs[i].meters > 0 => legs[j].edges # legs[i].edges
    /\ legs[j].seconds * 100 <= legs[1].seconds * StretchPercent

LEMMA OneMoreDiffers ==
  ASSUME NEW g, NEW legs \in Seq(RouteLegs(g)), Different(legs), NEW leg \in RouteLegs(g),
         \A i \in 1..Len(legs) : sharedMeters(legs[i], leg) * 100 <= leg.meters * SharedPercent,
         Len(legs) > 0 => ~(leg.seconds * 100 > legs[1].seconds * StretchPercent)
  PROVE  Different(Append(legs, leg))
  <1> DEFINE n == Len(legs)
             v == Append(legs, leg)
  <1>1. n \in Nat /\ Len(v) = n + 1 /\ v[n + 1] = leg /\ \A i \in 1..n : v[i] = legs[i] /\ legs[i] \in RouteLegs(g)
    OBVIOUS
  <1> HIDE DEF v, n
  <1>2. ASSUME NEW i \in 1..n PROVE leg.meters > 0 \/ legs[i].meters > 0 => leg.edges # legs[i].edges
    <2>1. SUFFICES ASSUME leg.edges = legs[i].edges, leg.meters > 0 \/ legs[i].meters > 0 PROVE FALSE
      OBVIOUS
    <2> DEFINE m == leg.meters
    <2>2. sharedMeters(legs[i], leg) = m /\ legs[i].meters = m
      BY <1>1, <2>1, SharesAll
    <2>3. m * 100 <= m * SharedPercent
      BY <2>2 DEF n
    <2>4. m \in Nat /\ m > 0
      BY <2>1, <2>2 DEF RouteLegs
    <2> DEFINE f == SharedPercent
               d == 99 - f
    <2>5. f \in Nat /\ d \in Nat /\ f = 99 - d
      BY NativeRouterAssumption
    <2> HIDE DEF m, f, d
    <2>6. m * f = m * 99 - m * d /\ m * d \in Nat
      BY <2>4, <2>5
    <2>7. m * 100 <= m * 99
      BY <2>3, <2>4, <2>6 DEF f
    <2> QED  BY <2>4, <2>7
  <1>3. n > 0 => leg.seconds * 100 <= legs[1].seconds * StretchPercent
    <2> SUFFICES ASSUME n > 0 PROVE leg.seconds * 100 <= legs[1].seconds * StretchPercent
      OBVIOUS
    <2> DEFINE a == leg.seconds * 100
               b == legs[1].seconds
               c == StretchPercent
    <2>1. a \in Nat /\ b \in Nat /\ c \in Nat
      <3>1. leg.seconds \in Nat /\ 1 \in 1..n
        BY <1>1 DEF RouteLegs
      <3>2. legs[1] \in RouteLegs(g)
        BY <1>1, <3>1
      <3>3. legs[1].seconds \in Nat
        BY <3>2 DEF RouteLegs
      <3> QED  BY <3>1, <3>3, NativeRouterAssumption
    <2>2. ~(a > b * c)
      BY DEF n
    <2> HIDE DEF a, b, c
    <2>3. b * c \in Nat
      BY <2>1
    <2>4. a <= b * c
      BY <2>1, <2>2, <2>3
    <2> QED  BY <2>4 DEF a, b, c
  <1>4. ASSUME NEW i \in 1..n + 1, NEW j \in 1..n + 1, i < j
        PROVE  /\ v[i].meters > 0 => v[j].edges # v[i].edges
               /\ v[j].seconds * 100 <= v[1].seconds * StretchPercent
    <2>1. i \in 1..n /\ n > 0 /\ v[i] = legs[i] /\ v[1] = legs[1]
      BY <1>1, <1>4
    <2>2. CASE j = n + 1
      BY <1>1, <1>2, <1>3, <2>1, <2>2
    <2>3. CASE j # n + 1
      <3>1. j \in 1..n /\ v[j] = legs[j]
        BY <1>1, <2>3
      <3> QED  BY <1>4, <2>1, <3>1 DEF Different, n
    <2> QED  BY <2>2, <2>3
  <1> QED  BY <1>1, <1>4 DEF Different, v

-----------------------------------------------------------------------------
(* The inductive invariant of the router.                                  *)

Current == [marks |-> marks, cost |-> cost, via |-> via, heap |-> heap]
RouterTypeOK ==
  /\ net \in Networks /\ penalty \in Penalties(net) /\ stamp \in Nat
  /\ marks \in [Nodes(net) -> Nat] /\ cost \in [Nodes(net) -> Nat] /\ via \in [Nodes(net) -> Int]
  /\ accepted \in Seq(RouteLegs(net)) /\ request \in Queries \cup {NoRequest}
(* No node has the stamp that the next search takes.                       *)
StampsAreOld == \A n \in Nodes(net) : marks[n] <= stamp \/ marks[n] > MaxStamp
LegsAreLeft ==
  phase # "idle" =>
    /\ request \in Queries
    /\ Len(request.legs) > 1 => Len(accepted) < Len(request.legs)
    /\ Len(request.legs) = 1 => Len(accepted) <= request.alternatives
SearchIsSound ==
  phase = "search" =>
    /\ taken \in Nat /\ (taken <= stamp \/ taken > MaxStamp)
    /\ InLeg(net, penalty, From, To, taken, best, bestEnd, Current)
AlternativesHold ==
  Len(request.legs) = 1 => Len(accepted) <= request.alternatives + 1 /\ Different(accepted)
RouterInv == RouterTypeOK /\ StampsAreOld /\ LegsAreLeft /\ SearchIsSound /\ AlternativesHold

LEMMA QueryType ==
  ASSUME NEW query \in Queries
  PROVE  query.alternatives \in Nat /\ Len(query.legs) \in Nat \ {0}
  BY NativeRouterAssumption

LEMMA LegNow ==
  ASSUME RouterTypeOK, LegsAreLeft, phase # "idle"
  PROVE  IsLeg(net, penalty, From, To)
  <1>1. net \in Networks /\ penalty \in Penalties(net) /\ request \in Queries /\ Len(accepted) \in Nat
    BY DEF RouterTypeOK, LegsAreLeft
  <1> DEFINE i == IF Len(request.legs) = 1 THEN 1 ELSE Len(accepted) + 1
  <1>2. i \in 1..Len(request.legs)
    <2> DEFINE n == Len(request.legs)
               m == Len(accepted)
    <2>1. n \in Nat \ {0} /\ m \in Nat /\ (n > 1 => m < n)
      BY <1>1, QueryType DEF LegsAreLeft
    <2>2. i = IF n = 1 THEN 1 ELSE m + 1
      OBVIOUS
    <2> HIDE DEF n, m, i
    <2>3. i \in 1..n
      BY <2>1, <2>2
    <2> QED  BY <2>3 DEF n
  <1>3. From = request.legs[i].from /\ To = request.legs[i].to
    BY DEF From, To, Leg
  <1> HIDE DEF i
  <1>4. IsLoaded(net) /\ IsSnap(net, From) /\ IsSnap(net, To)
    BY <1>1, <1>2, <1>3, NativeRouterAssumption
  <1> QED  BY <1>1, <1>4 DEF IsLeg

LEMMA RouterStarts ==
  ASSUME RouterInit
  PROVE  RouterInv
  <1>1. net \in Networks /\ request = NoRequest /\ phase = "idle" /\ accepted = <<>>
    BY DEF RouterInit
  <1>2. penalty \in Penalties(net)
    <2>1. [e \in Edges(net) |-> 1] \in [Edges(net) -> Nat \ {0}]
      OBVIOUS
    <2> QED  BY <2>1 DEF RouterInit, Penalties
  <1>3. stamp \in Nat
    BY NativeRouterAssumption DEF RouterInit
  <1>4. marks \in [Nodes(net) -> Nat] /\ cost \in [Nodes(net) -> Nat] /\ via \in [Nodes(net) -> Int]
        /\ \A n \in Nodes(net) : marks[n] = 0
    BY DEF RouterInit
  <1>5. accepted \in Seq(RouteLegs(net))
    BY <1>1
  <1>6. Len(request.legs) = 0
    BY <1>1, EmptySeq DEF NoRequest
  <1>7. StampsAreOld
    BY <1>3, <1>4 DEF StampsAreOld
  <1> QED  BY <1>1, <1>2, <1>3, <1>4, <1>5, <1>6, <1>7
           DEF RouterInv, RouterTypeOK, LegsAreLeft, SearchIsSound, AlternativesHold

LEMMA AskRouteKeeps ==
  ASSUME RouterInv, NEW query \in Queries, AskRoute(query)
  PROVE  RouterInv'
  <1>1. /\ request' = query /\ phase' = "leg" /\ accepted' = <<>> /\ penalty' = [e \in Edges(net) |-> 1]
        /\ net' = net /\ stamp' = stamp /\ marks' = marks /\ cost' = cost /\ via' = via
    BY DEF AskRoute, arrays
  <1>2. penalty' \in Penalties(net)
    BY <1>1 DEF Penalties
  <1>3. accepted' \in Seq(RouteLegs(net)) /\ Len(accepted') = 0
    BY <1>1, EmptySeq
  <1>4. RouterTypeOK'
    BY <1>1, <1>2, <1>3 DEF RouterInv, RouterTypeOK
  <1>5. StampsAreOld'
    BY <1>1 DEF RouterInv, StampsAreOld
  <1>6. LegsAreLeft'
    BY <1>1, <1>3, QueryType DEF LegsAreLeft
  <1>7. AlternativesHold'
    <2>1. Different(accepted')
      BY <1>3 DEF Different
    <2> QED  BY <1>1, <1>3, <2>1, QueryType DEF AlternativesHold
  <1>8. SearchIsSound'
    BY <1>1 DEF SearchIsSound
  <1> QED  BY <1>4, <1>5, <1>6, <1>7, <1>8 DEF RouterInv

(* What a step of a search leaves alone.                                   *)
LEMMA SearchStepKeeps ==
  ASSUME RouterInv, UNCHANGED <<net, request, penalty, accepted>>, phase # "idle", stamp' \in Nat, StampsAreOld',
         NEW t, t \in Labels(net), marks' = t.marks, cost' = t.cost, via' = t.via, heap' = t.heap,
         taken' \in Nat, taken' <= stamp' \/ taken' > MaxStamp,
         InLeg(net, penalty, From, To, taken', best', bestEnd', t)
  PROVE  RouterInv'
  <1>1. RouterTypeOK' /\ LegsAreLeft'
    BY DEF RouterInv, RouterTypeOK, LegsAreLeft, Labels
  <1>2. AlternativesHold'
    BY DEF RouterInv, AlternativesHold
  <1>3. From' = From /\ To' = To
    BY DEF From, To, Leg
  <1>4. Current' = t
    <2>1. Current' = [marks |-> t.marks, cost |-> t.cost, via |-> t.via, heap |-> t.heap]
      BY DEF Current
    <2>2. t = [marks |-> t.marks, cost |-> t.cost, via |-> t.via, heap |-> t.heap]
      BY DEF Labels
    <2> QED  BY <2>1, <2>2
  <1>5. SearchIsSound'
    <2> DEFINE c == Current
    <2> HIDE DEF c
    <2>1. InLeg(net', penalty', From', To', taken', best', bestEnd', Current')
      BY <1>3, <1>4
    <2> QED  BY <2>1 DEF SearchIsSound
  <1> QED  BY <1>1, <1>2, <1>5 DEF RouterInv

LEMMA StartLegKeeps ==
  ASSUME RouterInv, StartLeg
  PROVE  RouterInv'
  <1> DEFINE now == stamp + 1
             clean == IF now > MaxStamp THEN [n \in DOMAIN marks |-> 0] ELSE marks
             e == net.edges[From.edge]
             s0 == [marks |-> clean, cost |-> cost, via |-> via, heap |-> <<>>]
             s1 == relax(net, To, s0, now, e.u, CostToU(net, penalty, From), -1)
             s2 == relax(net, To, s1, now, e.v, CostToV(net, penalty, From), -2)
  <1>1. /\ phase = "leg" /\ phase' = "search" /\ taken' = now /\ stamp' = (IF now > MaxStamp THEN 1 ELSE now)
        /\ marks' = s2.marks /\ cost' = s2.cost /\ via' = s2.via /\ heap' = s2.heap
        /\ best' = CostBetween(net, penalty, From, To)
        /\ bestEnd' = (IF To.edge = From.edge THEN -3 ELSE -1)
        /\ UNCHANGED <<net, request, penalty, accepted>>
    BY DEF StartLeg, Store
  <1>2. RouterTypeOK /\ StampsAreOld /\ LegsAreLeft /\ stamp \in Nat /\ MaxStamp \in Nat
    BY NativeRouterAssumption DEF RouterInv, RouterTypeOK
  <1>3. IsLeg(net, penalty, From, To)
    BY <1>1, <1>2, LegNow
  <1>4. now \in Nat /\ clean \in [Nodes(net) -> Nat] /\ \A n \in Nodes(net) : clean[n] # now /\ clean[n] \in {marks[n], 0}
    <2>1. marks \in [Nodes(net) -> Nat] /\ now \in Nat /\ now > stamp
      BY <1>2 DEF RouterTypeOK
    <2>2. CASE now > MaxStamp
      <3>1. clean = [n \in Nodes(net) |-> 0]
        BY <2>1, <2>2
      <3> QED  BY <1>2, <2>1, <3>1
    <2>3. CASE ~(now > MaxStamp)
      <3>1. clean = marks
        BY <2>3
      <3>2. \A n \in Nodes(net) : marks[n] # now
        BY <1>2, <2>1, <2>3 DEF StampsAreOld
      <3> QED  BY <2>1, <3>1, <3>2
    <2> QED  BY <2>2, <2>3
  <1>5. cost \in [Nodes(net) -> Nat] /\ via \in [Nodes(net) -> Int]
    BY <1>2 DEF RouterTypeOK
  <1>6. /\ InLeg(net, penalty, From, To, now, CostBetween(net, penalty, From, To), IF To.edge = From.edge THEN -3 ELSE -1, s2)
        /\ \A n \in Nodes(net) : s2.marks[n] \in {clean[n], now}
    <2> DEFINE r0 == s0
               r1 == s1
               r2 == s2
    <2>1. /\ r0 = [marks |-> clean, cost |-> cost, via |-> via, heap |-> <<>>]
          /\ r1 = relax(net, To, r0, now, net.edges[From.edge].u, CostToU(net, penalty, From), -1)
          /\ r2 = relax(net, To, r1, now, net.edges[From.edge].v, CostToV(net, penalty, From), -2)
      BY Zenon
    <2>3. now \in Nat /\ clean \in [Nodes(net) -> Nat] /\ \A n \in Nodes(net) : clean[n] # now
      BY <1>4
    <2> HIDE DEF r0, r1, r2, clean, now
    <2>4. IsBegun(net, penalty, From, To, now, clean, r2)
      BY <1>3, <1>5, <2>1, <2>3, Starts
    <2>5. IsBegun(net, penalty, From, To, now, clean, s2)
      BY <2>4 DEF r2
    <2> HIDE DEF s2
    <2> QED  BY <2>5 DEF IsBegun, InLegFrom
  <1> HIDE DEF s2, clean
  <1>7. s2 \in Labels(net)
    BY <1>6 DEF InLeg, InSearch
  <1>8. stamp' \in Nat /\ (taken' <= stamp' \/ taken' > MaxStamp)
    BY <1>1, <1>2, <1>4
  <1>9. StampsAreOld'
    <2> SUFFICES ASSUME NEW n \in Nodes(net) PROVE s2.marks[n] <= stamp' \/ s2.marks[n] > MaxStamp
      BY <1>1 DEF StampsAreOld
    <2>1. s2.marks[n] \in {marks[n], 0, now} /\ marks[n] \in Nat
      BY <1>2, <1>4, <1>6 DEF RouterTypeOK
    <2>2. CASE now > MaxStamp
      <3>1. clean[n] = 0
        <4>1. marks \in [Nodes(net) -> Nat]
          BY <1>2 DEF RouterTypeOK
        <4> QED  BY <2>2, <4>1 DEF clean
      <3>2. stamp' = 1
        BY <1>1, <2>2
      <3> QED  BY <1>4, <1>6, <2>2, <3>1, <3>2
    <2>3. CASE ~(now > MaxStamp)
      <3>1. stamp' = now /\ (marks[n] <= stamp \/ marks[n] > MaxStamp)
        BY <1>1, <1>2, <2>3 DEF StampsAreOld
      <3> QED  BY <1>2, <2>1, <3>1
    <2> QED  BY <2>2, <2>3
  <1>10. InLeg(net, penalty, From, To, taken', best', bestEnd', s2)
    BY <1>1, <1>6
  <1>11. taken' \in Nat /\ phase # "idle"
    BY <1>1, <1>4
  <1> QED  BY <1>1, <1>7, <1>8, <1>9, <1>10, <1>11, SearchStepKeeps

LEMMA SettleKeeps ==
  ASSUME RouterInv, Settle
  PROVE  RouterInv'
  <1> DEFINE node == heap[1].node
             known == cost[node] + estimate(net, To, node)
             through == {cost[node] + tail : tail \in CostsToEnd(net, penalty, To, node)}
             ends == through # {} /\ Improves(MinOf(through))
             s == Current
             o == [marks |-> marks, cost |-> cost, via |-> via, heap |-> pop(heap)]
             t == Spread(net, penalty, To, taken, o, node)
  <1>1. /\ phase = "search" /\ heap # <<>> /\ UNCHANGED <<net, request, stamp, taken, phase, penalty, accepted>>
        /\ \/ heap[1].key > known /\ heap' = pop(heap) /\ UNCHANGED <<marks, cost, via, best, bestEnd>>
           \/ /\ heap[1].key <= known
              /\ best' = IF ends THEN MinOf(through) ELSE best
              /\ bestEnd' = IF ends THEN node ELSE bestEnd
              /\ Store(t)
    BY DEF Settle
  <1>2. RouterTypeOK /\ StampsAreOld /\ LegsAreLeft /\ stamp \in Nat /\ MaxStamp \in Nat
    BY NativeRouterAssumption DEF RouterInv, RouterTypeOK
  <1>3. IsLeg(net, penalty, From, To)
    BY <1>1, <1>2, LegNow
  <1>4. /\ taken \in Nat /\ (taken <= stamp \/ taken > MaxStamp)
        /\ InLeg(net, penalty, From, To, taken, best, bestEnd, s)
    BY <1>1 DEF RouterInv, SearchIsSound
  <1>5. s.heap = heap /\ s.cost = cost /\ s.marks = marks /\ Popped(s) = o
    BY DEF Current, Popped
  <1>6. CASE heap[1].key > known /\ heap' = pop(heap) /\ UNCHANGED <<marks, cost, via, best, bestEnd>>
    <2>1. InLeg(net, penalty, From, To, taken, best, bestEnd, Popped(s))
      <3> HIDE DEF s
      <3>1. s.heap # <<>> /\ s.heap[1].key > s.cost[s.heap[1].node] + estimate(net, To, s.heap[1].node)
        BY <1>1, <1>5, <1>6
      <3> QED  BY <1>3, <1>4, <3>1, SkipsStale
    <2>2. o \in Labels(net) /\ InLeg(net, penalty, From, To, taken', best', bestEnd', o)
      <3>1. InLeg(net, penalty, From, To, taken, best, bestEnd, o)
        BY <1>5, <2>1
      <3> HIDE DEF o
      <3> QED  BY <1>1, <1>6, <3>1 DEF InLeg, InSearch
    <2>3. marks' = o.marks /\ cost' = o.cost /\ via' = o.via /\ heap' = o.heap
      BY <1>6
    <2>4. StampsAreOld'
      BY <1>1, <1>2, <1>6 DEF StampsAreOld
    <2>5. taken' \in Nat /\ (taken' <= stamp' \/ taken' > MaxStamp) /\ stamp' \in Nat /\ phase # "idle"
      BY <1>1, <1>2, <1>4
    <2> HIDE DEF o
    <2> QED  BY <1>1, <2>2, <2>3, <2>4, <2>5, SearchStepKeeps
  <1>7. CASE /\ heap[1].key <= known
             /\ best' = IF ends THEN MinOf(through) ELSE best
             /\ bestEnd' = IF ends THEN node ELSE bestEnd
             /\ Store(t)
    <2>1. /\ InLeg(net, penalty, From, To, taken, IF ends THEN MinOf(through) ELSE best, IF ends THEN node ELSE bestEnd, t)
          /\ \A m \in Nodes(net) : t.marks[m] \in {s.marks[m], taken}
      <3> DEFINE r == t
      <3>1. r = Spread(net, penalty, To, taken, Popped(s), s.heap[1].node) /\ s.heap # <<>>
        BY <1>1, <1>5
      <3> HIDE DEF s, r
      <3>2. IsSettled(net, penalty, From, To, taken, s, best, bestEnd, r)
        BY <1>3, <1>4, <3>1, Settles
      <3>3. IsSettled(net, penalty, From, To, taken, s, best, bestEnd, t)
        BY <3>2 DEF r
      <3>4. InLegFrom(net, penalty, From, To, taken, s.marks, IF ends THEN MinOf(through) ELSE best, IF ends THEN node ELSE bestEnd, t)
        <4> HIDE DEF t
        <4> QED  BY <1>5, <3>3, Zenon DEF IsSettled, Improves
      <3> HIDE DEF t, ends, through, node
      <3> QED  BY <3>4 DEF InLegFrom
    <2> HIDE DEF t, ends, through, node
    <2>2. InLeg(net, penalty, From, To, taken', best', bestEnd', t)
      BY <1>1, <1>7, <2>1
    <2>3. t \in Labels(net)
      BY <2>1 DEF InLeg, InSearch
    <2>4. marks' = t.marks /\ cost' = t.cost /\ via' = t.via /\ heap' = t.heap
      BY <1>7 DEF Store
    <2>5. StampsAreOld'
      <3> SUFFICES ASSUME NEW n \in Nodes(net) PROVE t.marks[n] <= stamp \/ t.marks[n] > MaxStamp
        BY <1>1, <2>4 DEF StampsAreOld
      <3>1. t.marks[n] \in {marks[n], taken}
        BY <1>5, <2>1
      <3> QED  BY <1>2, <1>4, <3>1 DEF StampsAreOld
    <2>6. taken' \in Nat /\ (taken' <= stamp' \/ taken' > MaxStamp) /\ stamp' \in Nat /\ phase # "idle"
      BY <1>1, <1>2, <1>4
    <2> QED  BY <1>1, <2>2, <2>3, <2>4, <2>5, <2>6, SearchStepKeeps
  <1> QED  BY <1>1, <1>6, <1>7

(* The search that is over, as the leg it found.                           *)
LEMMA LegAsFound ==
  ASSUME RouterInv, phase = "search"
  PROVE  /\ IsLeg(net, penalty, From, To) /\ taken \in Nat
         /\ InLeg(net, penalty, From, To, taken, best, bestEnd, Current)
         /\ Pieces = LegPieces(net, From, To, taken, Current, bestEnd)
  <1>1. phase # "idle" /\ RouterTypeOK /\ LegsAreLeft
    BY DEF RouterInv
  <1>2. taken \in Nat /\ InLeg(net, penalty, From, To, taken, best, bestEnd, Current)
    BY DEF RouterInv, SearchIsSound
  <1>3. Current.via = via /\ Current.marks = marks
    BY DEF Current
  <1>4. Pieces = LegPieces(net, From, To, taken, Current, bestEnd)
    BY <1>3, Zenon DEF Pieces, LegPieces, BackOf, Marked, Along
  <1> QED  BY <1>1, <1>2, <1>4, LegNow

LEMMA LegFoundType ==
  ASSUME RouterInv, phase = "search", best # Infinity
  PROVE  LegFound \in RouteLegs(net)
  <1> DEFINE w == Pieces
             s == Current
  <1>1. /\ IsLeg(net, penalty, From, To) /\ taken \in Nat
        /\ InLeg(net, penalty, From, To, taken, best, bestEnd, s)
        /\ w = LegPieces(net, From, To, taken, s, bestEnd)
    BY LegAsFound
  <1> HIDE DEF w, s
  <1>2. w \in Seq(Piece(net)) /\ Duration(net, w) \in Nat
    BY <1>1, LegWalks
  <1>3. WithoutEmpty(w) \in Seq(Piece(net)) /\ Meters(WithoutEmpty(w)) = Meters(w) /\ Meters(w) \in Nat
    BY <1>2, WithoutEmptyKeeps
  <1>4. LegFound = [edges |-> WithoutEmpty(w), seconds |-> Duration(net, w), meters |-> Meters(w)]
    BY DEF LegFound, w
  <1> QED  BY <1>2, <1>3, <1>4 DEF RouteLegs

LEMMA PenalizedType ==
  ASSUME penalty \in Penalties(net), NEW legs \in Seq(RouteLegs(net))
  PROVE  Penalized(legs) \in Penalties(net)
  <1> SUFFICES ASSUME NEW e \in Edges(net) PROVE Grown(penalty[e], TimesDriven(e, legs)) \in Nat \ {0}
    BY DEF Penalized, Penalties
  <1>1. penalty[e] \in Nat \ {0}
    BY DEF Penalties
  <1>2. TimesDriven(e, legs) \in Nat
    BY TimesDrivenType
  <1> QED  BY <1>1, <1>2, GrownType

(* What the end of a search leaves alone, and what it may change.          *)
LEMMA SearchEndKeeps ==
  ASSUME RouterInv, UNCHANGED <<net, request, stamp, marks, cost, via>>, phase' \in {"idle", "leg"},
         penalty' \in Penalties(net), accepted' \in Seq(RouteLegs(net)), LegsAreLeft', AlternativesHold'
  PROVE  RouterInv'
  <1>1. RouterTypeOK'
    BY DEF RouterInv, RouterTypeOK
  <1>2. StampsAreOld'
    BY DEF RouterInv, StampsAreOld
  <1>3. SearchIsSound'
    BY DEF SearchIsSound
  <1> QED  BY <1>1, <1>2, <1>3 DEF RouterInv

LEMMA NotConnectedKeeps ==
  ASSUME RouterInv, NotConnected
  PROVE  RouterInv'
  <1>1. /\ UNCHANGED <<net, request, stamp, marks, cost, via>> /\ phase' = "idle" /\ UNCHANGED <<penalty, accepted>>
    BY DEF NotConnected, Finish, arrays
  <1>2. penalty' \in Penalties(net) /\ accepted' \in Seq(RouteLegs(net))
    BY <1>1 DEF RouterInv, RouterTypeOK
  <1>3. LegsAreLeft'
    BY <1>1 DEF LegsAreLeft
  <1>4. AlternativesHold'
    BY <1>1 DEF RouterInv, AlternativesHold
  <1> QED  BY <1>1, <1>2, <1>3, <1>4, SearchEndKeeps

LEMMA TakeLegKeeps ==
  ASSUME RouterInv, TakeLeg
  PROVE  RouterInv'
  <1> DEFINE l == LegFound
             n == Len(request.legs)
             m == Len(accepted)
  <1>1. /\ UNCHANGED <<net, request, stamp, marks, cost, via>> /\ phase = "search" /\ best # Infinity
        /\ \/ /\ n > 1
              /\ accepted' = Append(accepted, l)
              /\ phase' = IF Len(accepted') = n THEN "idle" ELSE "leg"
              /\ UNCHANGED <<penalty, attempt>>
           \/ ~(n > 1) /\ TooSlow(l) /\ UNCHANGED accepted /\ Finish
           \/ ~(n > 1) /\ ~TooSlow(l) /\ accepted' = (IF Joins(l) THEN Append(accepted, l) ELSE accepted) /\ TryAgain
    BY DEF TakeLeg, Searched, arrays
  <1>2. l \in RouteLegs(net)
    BY <1>1, LegFoundType
  <1>3. accepted \in Seq(RouteLegs(net)) /\ m \in Nat /\ penalty \in Penalties(net)
    BY DEF RouterInv, RouterTypeOK
  <1>4. request \in Queries /\ n \in Nat \ {0} /\ request.alternatives \in Nat
        /\ (n > 1 => m < n) /\ (n = 1 => m <= request.alternatives)
    BY <1>1, QueryType DEF RouterInv, LegsAreLeft
  <1>5. Append(accepted, l) \in Seq(RouteLegs(net)) /\ Len(Append(accepted, l)) = m + 1
    BY <1>2, <1>3
  <1>6. n = 1 => Different(accepted)
    BY DEF RouterInv, AlternativesHold
  <1> HIDE DEF l
  <1>7. CASE /\ n > 1 /\ accepted' = Append(accepted, l)
             /\ phase' = IF Len(accepted') = n THEN "idle" ELSE "leg"
             /\ UNCHANGED <<penalty, attempt>>
    <2>1. phase' \in {"idle", "leg"} /\ penalty' \in Penalties(net) /\ accepted' \in Seq(RouteLegs(net))
      BY <1>3, <1>5, <1>7
    <2>2. AlternativesHold'
      BY <1>1, <1>7 DEF AlternativesHold
    <2>3. ASSUME phase' # "idle" PROVE Len(accepted') < n
      <3>1. Len(accepted') = m + 1 /\ Len(accepted') # n
        BY <1>5, <1>7, <2>3
      <3> HIDE DEF n, m
      <3> QED  BY <1>3, <1>4, <1>7, <3>1
    <2>4. LegsAreLeft'
      <3>1. n # 1
        <4> HIDE DEF n
        <4> QED  BY <1>4, <1>7
      <3> QED  BY <1>1, <1>4, <2>3, <3>1 DEF LegsAreLeft
    <2> QED  BY <1>1, <2>1, <2>2, <2>4, SearchEndKeeps
  <1>8. CASE ~(n > 1) /\ TooSlow(l) /\ UNCHANGED accepted /\ Finish
    <2>1. phase' = "idle" /\ penalty' = penalty
      BY <1>8 DEF Finish
    <2>2. AlternativesHold'
      BY <1>1, <1>8 DEF RouterInv, AlternativesHold
    <2>3. LegsAreLeft'
      BY <2>1 DEF LegsAreLeft
    <2> QED  BY <1>1, <1>3, <1>8, <2>1, <2>2, <2>3, SearchEndKeeps
  <1>9. CASE /\ ~(n > 1) /\ ~TooSlow(l)
             /\ accepted' = (IF Joins(l) THEN Append(accepted, l) ELSE accepted) /\ TryAgain
    <2>1. n = 1
      <3> HIDE DEF n
      <3> QED  BY <1>4, <1>9
    <2>2. accepted' \in Seq(RouteLegs(net)) /\ Len(accepted') \in Nat /\ Len(accepted') <= m + 1
      <3>1. accepted' = Append(accepted, l) \/ accepted' = accepted
        BY <1>9
      <3> QED  BY <1>3, <1>5, <3>1
    <2>3. Len(accepted') <= request.alternatives + 1
      <3> HIDE DEF n, m
      <3> QED  BY <1>3, <1>4, <2>1, <2>2
    <2>4. Different(accepted')
      <3>1. CASE ~Joins(l)
        BY <1>6, <1>9, <2>1, <3>1
      <3>2. CASE Joins(l)
        <4>1. \A i \in 1..Len(accepted) : sharedMeters(accepted[i], l) * 100 <= l.meters * SharedPercent
          <5>1. CASE accepted = <<>>
            BY <5>1
          <5>2. CASE accepted # <<>>
            <6>1. Keeps(l) /\ DOMAIN accepted = 1..Len(accepted)
              BY <1>3, <3>2, <5>2 DEF Joins
            <6> QED  BY <6>1 DEF Keeps
          <5> QED  BY <5>1, <5>2
        <4>2. Len(accepted) > 0 => ~(l.seconds * 100 > accepted[1].seconds * StretchPercent)
          <5>1. Len(accepted) > 0 => accepted # <<>>
            BY <1>3
          <5> QED  BY <1>9, <5>1 DEF TooSlow
        <4>3. Different(Append(accepted, l))
          BY <1>2, <1>3, <1>6, <2>1, <4>1, <4>2, OneMoreDiffers
        <4> QED  BY <1>9, <3>2, <4>3
      <3> QED  BY <3>1, <3>2
    <2>5. AlternativesHold'
      BY <1>1, <2>3, <2>4 DEF AlternativesHold
    <2>6. \/ phase' = "leg" /\ Len(accepted') - 1 < request.alternatives /\ penalty' = Penalized(accepted')
          \/ phase' = "idle" /\ penalty' = penalty
      BY <1>9 DEF TryAgain, Finish
    <2>7. LegsAreLeft'
      <3>1. phase' # "idle" => Len(accepted') <= request.alternatives
        BY <1>4, <2>2, <2>6
      <3> QED  BY <1>1, <1>4, <2>1, <3>1 DEF LegsAreLeft
    <2>8. penalty' \in Penalties(net) /\ phase' \in {"idle", "leg"}
      <3>1. CASE phase' = "leg" /\ penalty' = Penalized(accepted')
        BY <1>3, <2>2, <3>1, PenalizedType
      <3>2. CASE phase' = "idle" /\ penalty' = penalty
        BY <1>3, <3>2
      <3> QED  BY <2>6, <3>1, <3>2
    <2> QED  BY <1>1, <2>2, <2>5, <2>7, <2>8, SearchEndKeeps
  <1> QED  BY <1>1, <1>7, <1>8, <1>9

LEMMA RouterKeeps ==
  ASSUME RouterInv, [RouterNext]_routerVars
  PROVE  RouterInv'
  <1>1. CASE UNCHANGED routerVars
    <2>1. UNCHANGED <<net, request, stamp, marks, cost, via, heap, taken, best, bestEnd, phase, penalty, accepted>>
      BY <1>1 DEF routerVars, arrays
    <2>2. From' = From /\ To' = To /\ Current' = Current
      BY <2>1 DEF From, To, Leg, Current
    <2> QED  BY <2>1, <2>2 DEF RouterInv, RouterTypeOK, StampsAreOld, LegsAreLeft, SearchIsSound, AlternativesHold
  <1> QED  BY <1>1, AskRouteKeeps, StartLegKeeps, SettleKeeps, NotConnectedKeeps, TakeLegKeeps DEF RouterNext

(* The router keeps its invariant: labels are costs of walks, the arrays   *)
(* of earlier searches never pass for this one's, and every label is still *)
(* to be settled or has been spread.                                       *)
THEOREM RouterIsSound == RouterSpec => []RouterInv
  BY RouterStarts, RouterKeeps, PTL DEF RouterSpec

(* Nothing that is left in the heap improves on what a search has found.   *)
LEMMA NoneImproves ==
  ASSUME RouterInv, Searched
  PROVE  IsOver(best, Current)
  <1> DEFINE s == Current
  <1>1. phase = "search" /\ (heap # <<>> => ~Improves(heap[1].key)) /\ s.heap = heap
    BY DEF Searched, Current
  <1>2. InLeg(net, penalty, From, To, taken, best, bestEnd, s)
    BY <1>1, LegAsFound
  <1> HIDE DEF s
  <1>3. best \in Nat \cup {Infinity}
    BY <1>2 DEF InLeg, IsFound
  <1>4. ASSUME heap # <<>> PROVE heap[1].key \in Nat
    <2>1. heap \in Seq(Queued(net)) /\ 1 \in 1..Len(heap)
      BY <1>1, <1>2, <1>4 DEF InLeg, InSearch, Labels
    <2>2. heap[1] \in Queued(net)
      BY <2>1
    <2> QED  BY <2>2 DEF Queued
  <1>5. ASSUME heap # <<>> PROVE best # Infinity /\ best <= heap[1].key
    BY <1>1, <1>3, <1>4, <1>5 DEF Improves
  <1>6. IsOver(best, s)
    BY <1>1, <1>5 DEF IsOver
  <1> QED  BY <1>6 DEF s

(* leg: when a search ends, its cost is the least of all the walks there   *)
(* are, whatever earlier searches left in the arrays.                      *)
THEOREM FastestLegs == RouterSpec => []LegIsFastest
  <1>1. ASSUME RouterInv PROVE LegIsFastest
    <2> SUFFICES ASSUME Searched PROVE IsLeast(best, CostsToGoal(net, penalty, From, To))
      BY DEF LegIsFastest
    <2>1. phase = "search"
      BY DEF Searched
    <2> QED  BY <1>1, <2>1, LegAsFound, NoneImproves, Ends
  <1> QED  BY <1>1, RouterIsSound, PTL

(* leg, rebuild: the edges of a leg lead from the origin to the            *)
(* destination without a gap, and without penalties the duration told is   *)
(* the cost searched for and at most one delay more.                       *)
THEOREM LegsAreWalks == RouterSpec => []LegIsAWalk
  <1>1. ASSUME RouterInv PROVE LegIsAWalk
    <2> SUFFICES ASSUME Searched, best # Infinity
                 PROVE  /\ IsWalk(net, From, To, Pieces)
                        /\ IsUnpenalized /\ net.edges[To.edge].u # net.edges[To.edge].v =>
                             Duration(net, Pieces) - best \in 0..Delay
      BY DEF LegIsAWalk
    <2> DEFINE s == Current
               w == Pieces
    <2>1. phase = "search"
      BY DEF Searched
    <2>2. /\ IsLeg(net, penalty, From, To) /\ taken \in Nat /\ InLeg(net, penalty, From, To, taken, best, bestEnd, s)
          /\ w = LegPieces(net, From, To, taken, s, bestEnd)
      BY <2>1, <1>1, LegAsFound
    <2>3. IsOver(best, s)
      BY <1>1, NoneImproves
    <2>4. IsUnpenalized <=> Unpenalized(net, penalty)
      BY DEF IsUnpenalized, Unpenalized
    <2> HIDE DEF s, w
    <2>5. IsWalk(net, From, To, w)
      BY <2>2, LegWalks
    <2>6. Unpenalized(net, penalty) /\ net.edges[To.edge].u # net.edges[To.edge].v => Duration(net, w) - best \in 0..Delay
      BY <2>2, <2>3, LegWalks
    <2> QED  BY <2>4, <2>5, <2>6 DEF w
  <1> QED  BY <1>1, RouterIsSound, PTL

(* route: the alternatives are at most as many as were asked for, not much *)
(* slower than the route, and each differs from it and from the others.    *)
THEOREM DifferentAlternatives == RouterSpec => []AlternativesDiffer
  <1>1. ASSUME RouterInv PROVE AlternativesDiffer
    BY <1>1 DEF RouterInv, AlternativesHold, AlternativesDiffer, Different
  <1> QED  BY <1>1, RouterIsSound, PTL

(* leg, route: what the native engine answers is right on every graph and  *)
(* for every request, whatever requests it answered before.                *)
THEOREM LegsAlwaysRight == RouterSpec => []LegsAreRight
  BY FastestLegs, LegsAreWalks, DifferentAlternatives, PTL DEF LegsAreRight
===============================================================================
