---------------------------- MODULE RegionProofs ----------------------------
(***************************************************************************)
(* Theorems about the regions, for any number of builds and of processes   *)
(* that register them, whatever the operator does: the row is of the files *)
(* in place, a registered region is a whole build, and the rules of ranges *)
(* and of versions, for headers, sizes and versions of any length.         *)
(***************************************************************************)
EXTENDS RegionProperties, FiniteSetTheorems, SequenceTheorems, TLAPS

Place == Nat \ {0}
Numbers == Seq(Nat) \ {<<>>}

(* Two versions have the same segments before place i. *)
AlikeBefore(x, y, i) == \A k \in Place : k < i => Segment(x, k) = Segment(y, k)
(* They differ at place i first, and x is the newer one. *)
NewerAt(x, y, i) == i \in Place /\ AlikeBefore(x, y, i) /\ Segment(x, i) > Segment(y, i)

(* A set of naturals has a least one. *)
LEMMA Least ==
  ASSUME NEW T \in SUBSET Nat, T # {}
  PROVE  \E x \in T : \A y \in T : x <= y
  <1> DEFINE less == {p \in Nat \X Nat : p[1] < p[2]}
  <1>1. IsWellFoundedOn(less, Nat)
    BY NatLessThanWellFounded, Zenon DEF OpToRel
  <1>2. PICK x \in T : \A y \in T : <<y, x>> \notin less
    BY <1>1, WFMin, Zenon
  <1>3. \A m, n \in Nat : <<m, n>> \in less <=> m < n
    OBVIOUS
  <1> HIDE DEF less
  <1>4. \A y \in T : ~(y < x)
    BY <1>2, <1>3, Zenon
  <1> QED  BY <1>4

LEMMA SegmentType ==
  ASSUME NEW x \in Seq(Nat), NEW i \in Place
  PROVE  Segment(x, i) \in Nat /\ (i > Len(x) => Segment(x, i) = 0)
  <1>1. DOMAIN x = 1..Len(x) /\ Len(x) \in Nat /\ \A k \in 1..Len(x) : x[k] \in Nat
    BY LenProperties, ElementOfSeq
  <1> QED  BY <1>1 DEF Segment, Place

(* The comparison finds the first place where the versions differ. *)
LEMMA CompareCases ==
  ASSUME NEW x \in Seq(Nat), NEW y \in Seq(Nat)
  PROVE  \/ compareVersions(x, y) = 0 /\ \A i \in Place : Segment(x, i) = Segment(y, i)
         \/ compareVersions(x, y) = 1 /\ \E i \in Place : NewerAt(x, y, i)
         \/ compareVersions(x, y) = -1 /\ \E i \in Place : NewerAt(y, x, i)
  <1> DEFINE length == IF Len(x) > Len(y) THEN Len(x) ELSE Len(y)
             differ == {i \in 1..length : Segment(x, i) # Segment(y, i)}
             first == CHOOSE i \in differ : \A j \in differ : i <= j
  <1>0. Len(x) \in Nat /\ Len(y) \in Nat
    BY LenProperties
  <1>1. length \in Nat /\ length >= Len(x) /\ length >= Len(y)
    BY <1>0
  <1>2. \A i \in Place : i > length => Segment(x, i) = 0 /\ Segment(y, i) = 0
    BY <1>0, <1>1, SegmentType DEF Place
  <1>3. compareVersions(x, y) = IF differ = {} THEN 0
                                ELSE IF Segment(x, first) > Segment(y, first) THEN 1 ELSE -1
    BY DEF compareVersions
  <1>4. \A i \in Place : Segment(x, i) # Segment(y, i) => i \in differ
    BY <1>1, <1>2 DEF Place
  <1>5. \A i \in differ : i \in Place /\ Segment(x, i) # Segment(y, i)
    BY <1>1 DEF Place
  <1>6. differ \in SUBSET Nat
    OBVIOUS
  <1> HIDE DEF length, differ
  <1>7. CASE differ = {}
    BY <1>3, <1>4, <1>7
  <1>8. CASE differ # {}
    <2>1. \E i \in differ : \A j \in differ : i <= j
      BY <1>6, <1>8, Least
    <2>2. first \in differ /\ \A j \in differ : first <= j
      BY <2>1
    <2> HIDE DEF first
    <2>3. first \in Place /\ Segment(x, first) # Segment(y, first)
      BY <1>5, <2>2
    <2>4. \A k \in Place : k < first => Segment(x, k) = Segment(y, k)
      BY <1>4, <2>2, <2>3 DEF Place
    <2>5. AlikeBefore(x, y, first) /\ AlikeBefore(y, x, first)
      BY <2>4 DEF AlikeBefore
    <2>6. Segment(x, first) \in Nat /\ Segment(y, first) \in Nat
      BY <2>3, SegmentType
    <2>7. CASE Segment(x, first) > Segment(y, first)
      BY <1>3, <1>8, <2>3, <2>5, <2>7 DEF NewerAt
    <2>8. CASE ~(Segment(x, first) > Segment(y, first))
      <3>1. Segment(y, first) > Segment(x, first)
        BY <2>3, <2>6, <2>8
      <3>2. NewerAt(y, x, first)
        BY <2>3, <2>5, <3>1 DEF NewerAt
      <3>3. compareVersions(x, y) = -1
        BY <1>3, <1>8, <2>8
      <3> QED  BY <2>3, <3>2, <3>3
    <2> QED  BY <2>7, <2>8
  <1> QED  BY <1>7, <1>8

(* Two versions do not differ first at two places, nor there both ways. *)
LEMMA OneFirst ==
  ASSUME NEW x \in Seq(Nat), NEW y \in Seq(Nat),
         NEW i \in Place, NEW k \in Place, NewerAt(x, y, i)
  PROVE  ~NewerAt(y, x, k) /\ ~(\A n \in Place : Segment(x, n) = Segment(y, n))
  <1>1. Segment(x, i) \in Nat /\ Segment(y, i) \in Nat /\ Segment(x, k) \in Nat /\ Segment(y, k) \in Nat
    BY SegmentType
  <1>2. Segment(x, i) > Segment(y, i) /\ (k < i => Segment(x, k) = Segment(y, k))
    BY DEF NewerAt, AlikeBefore
  <1>3. NewerAt(y, x, k) => Segment(y, k) > Segment(x, k) /\ (i < k => Segment(y, i) = Segment(x, i))
    BY DEF NewerAt, AlikeBefore
  <1> QED  BY <1>1, <1>2, <1>3 DEF Place

LEMMA CompareIs ==
  ASSUME NEW x \in Seq(Nat), NEW y \in Seq(Nat)
  PROVE  /\ compareVersions(x, y) \in {-1, 0, 1}
         /\ compareVersions(x, y) = 0 <=> \A i \in Place : Segment(x, i) = Segment(y, i)
         /\ compareVersions(x, y) = 1 <=> \E i \in Place : NewerAt(x, y, i)
         /\ compareVersions(x, y) = -1 <=> \E i \in Place : NewerAt(y, x, i)
  <1>1. (\E i \in Place : NewerAt(x, y, i)) =>
          (~\E i \in Place : NewerAt(y, x, i)) /\ ~\A i \in Place : Segment(x, i) = Segment(y, i)
    BY OneFirst
  <1>2. (\E i \in Place : NewerAt(y, x, i)) => ~\A i \in Place : Segment(x, i) = Segment(y, i)
    BY OneFirst
  <1> QED  BY <1>1, <1>2, CompareCases

(* Newer than a version that is no older than a third one is newer than it. *)
LEMMA NewerThanBoth ==
  ASSUME NEW x \in Seq(Nat), NEW y \in Seq(Nat), NEW z \in Seq(Nat),
         compareVersions(x, y) = 1, compareVersions(y, z) >= 0
  PROVE  compareVersions(x, z) = 1
  <1>1. PICK i \in Place : NewerAt(x, y, i)
    BY CompareIs
  <1>2. AlikeBefore(x, y, i) /\ Segment(x, i) > Segment(y, i)
    BY <1>1 DEF NewerAt
  <1>3. CASE \A n \in Place : Segment(y, n) = Segment(z, n)
    <2>1. NewerAt(x, z, i)
      BY <1>2, <1>3 DEF NewerAt, AlikeBefore
    <2> QED  BY <2>1, CompareIs
  <1>4. CASE \E k \in Place : NewerAt(y, z, k)
    <2>1. PICK k \in Place : NewerAt(y, z, k)
      BY <1>4
    <2>2. AlikeBefore(y, z, k) /\ Segment(y, k) > Segment(z, k)
      BY <2>1 DEF NewerAt
    <2>3. /\ Segment(x, i) \in Nat /\ Segment(y, i) \in Nat /\ Segment(z, i) \in Nat
          /\ Segment(x, k) \in Nat /\ Segment(y, k) \in Nat /\ Segment(z, k) \in Nat
      BY SegmentType
    <2> DEFINE first == IF i <= k THEN i ELSE k
    <2>4. first \in Place /\ first <= i /\ first <= k /\ (first = i \/ first = k)
      BY DEF Place
    <2>5. \A n \in Place : n < first => Segment(x, n) = Segment(y, n) /\ Segment(y, n) = Segment(z, n)
      BY <1>2, <2>2, <2>4 DEF AlikeBefore, Place
    <2>6. AlikeBefore(x, z, first)
      BY <2>5 DEF AlikeBefore
    <2>7. i < k => Segment(y, i) = Segment(z, i)
      BY <2>2 DEF AlikeBefore
    <2>8. k < i => Segment(x, k) = Segment(y, k)
      BY <1>2 DEF AlikeBefore
    <2>9. Segment(x, first) > Segment(z, first)
      <3>1. CASE i < k
        BY <1>2, <2>7, <3>1 DEF Place
      <3>2. CASE k < i
        BY <2>2, <2>8, <3>2 DEF Place
      <3>3. CASE i = k
        BY <1>2, <2>2, <2>3, <3>3 DEF Place
      <3> QED  BY <3>1, <3>2, <3>3 DEF Place
    <2>10. NewerAt(x, z, first)
      BY <2>4, <2>6, <2>9 DEF NewerAt
    <2> QED  BY <2>4, <2>10, CompareIs
  <1>5. compareVersions(y, z) = 0 \/ compareVersions(y, z) = 1
    <2>1. compareVersions(y, z) \in {-1, 0, 1}
      BY CompareIs
    <2> QED  BY <2>1
  <1>6. (\A n \in Place : Segment(y, n) = Segment(z, n)) \/ \E k \in Place : NewerAt(y, z, k)
    BY <1>5, CompareIs
  <1> QED  BY <1>3, <1>4, <1>6

(* The order of versions of any number of segments: an update offered is   *)
(* never a step back, nor the version the device has written otherwise     *)
(* (region-version.ts).                                                    *)
THEOREM UpdatesAlwaysForward ==
  ASSUME NEW x \in Numbers, NEW y \in Numbers, NEW z \in Numbers
  PROVE  GoesForward(x, y, z)
  <1>0. x \in Seq(Nat) /\ y \in Seq(Nat) /\ z \in Seq(Nat) /\ z # <<>>
    BY DEF Numbers
  <1>1. compareVersions(x, y) = -compareVersions(y, x)
    <2>1. compareVersions(x, y) = 0 <=> compareVersions(y, x) = 0
      BY <1>0, CompareIs
    <2>2. compareVersions(x, y) = 1 <=> compareVersions(y, x) = -1
      BY <1>0, CompareIs
    <2>3. compareVersions(x, y) \in {-1, 0, 1} /\ compareVersions(y, x) \in {-1, 0, 1}
      BY <1>0, CompareIs
    <2> QED  BY <2>1, <2>2, <2>3
  <1>2. ASSUME updateAvailable(x, y), compareVersions(y, z) >= 0 PROVE updateAvailable(x, z)
    <2>1. compareVersions(x, y) = 1
      <3>1. compareVersions(x, y) > 0
        BY <1>2 DEF updateAvailable
      <3>2. compareVersions(x, y) \in {-1, 0, 1}
        BY <1>0, CompareIs
      <3> QED  BY <3>1, <3>2
    <2>2. compareVersions(x, z) = 1
      BY <1>0, <1>2, <2>1, NewerThanBoth
    <2> QED  BY <1>0, <2>2 DEF updateAvailable
  <1> QED  BY <1>1, <1>2 DEF GoesForward

(* The bytes of a file of any size that a header names, wherever it begins *)
(* and ends (http-range.ts).                                               *)
Header == [form : {"none", "from", "between", "suffix"}, a : Nat, b : Nat]
THEOREM RangeAlwaysNamed ==
  ASSUME NEW h \in Header, NEW size \in Nat \ {0}
  PROVE  RangeIsNamed(h, size)
  <1>0. h.a \in Nat /\ h.b \in Nat /\ h.form \in {"none", "from", "between", "suffix"}
    BY DEF Header
  <1>1. CASE h.form = "none"
    BY <1>1 DEF RangeIsNamed, parseRangeHeader, WholeFile
  <1>2. CASE h.form = "from"
    <2> DEFINE p == parseRangeHeader(h, size)
    <2>1. p = IF h.a >= size \/ h.a > size - 1 THEN Unsatisfiable
              ELSE [type |-> "range", start |-> h.a, end |-> size - 1]
      BY <1>2 DEF parseRangeHeader
    <2>2. Named(h, size) = {i \in 0..(size - 1) : i >= h.a}
      BY <1>2 DEF Named
    <2>3. CASE h.a >= size
      <3>1. Named(h, size) = {}
        BY <1>0, <2>2, <2>3
      <3>2. p = Unsatisfiable
        BY <2>1, <2>3
      <3> QED  BY <3>1, <3>2 DEF RangeIsNamed, Unsatisfiable
    <2>4. CASE ~(h.a >= size)
      <3>1. h.a..(size - 1) = Named(h, size)
        BY <1>0, <2>2, <2>4
      <3>2. p = [type |-> "range", start |-> h.a, end |-> size - 1]
        BY <1>0, <2>1, <2>4
      <3> QED  BY <1>2, <3>1, <3>2 DEF RangeIsNamed
    <2> QED  BY <2>3, <2>4
  <1>3. CASE h.form = "between"
    <2> DEFINE p == parseRangeHeader(h, size)
               end == Smaller(h.b, size - 1)
    <2>1. p = IF h.a >= size \/ h.a > end THEN Unsatisfiable
              ELSE [type |-> "range", start |-> h.a, end |-> end]
      BY <1>3 DEF parseRangeHeader
    <2>2. Named(h, size) = {i \in 0..(size - 1) : i >= h.a /\ i <= h.b}
      BY <1>3 DEF Named
    <2>3. end \in Int /\ end <= h.b /\ end <= size - 1 /\ (end = h.b \/ end = size - 1)
      BY <1>0 DEF Smaller
    <2> HIDE DEF end
    <2>4. CASE h.a >= size \/ h.a > end
      <3>1. Named(h, size) = {}
        BY <1>0, <2>2, <2>3, <2>4
      <3>2. p = Unsatisfiable
        BY <2>1, <2>4
      <3> QED  BY <3>1, <3>2 DEF RangeIsNamed, Unsatisfiable
    <2>5. CASE ~(h.a >= size \/ h.a > end)
      <3>1. h.a..end = Named(h, size)
        BY <1>0, <2>2, <2>3, <2>5
      <3>2. p = [type |-> "range", start |-> h.a, end |-> end]
        BY <2>1, <2>5
      <3> QED  BY <1>3, <3>1, <3>2 DEF RangeIsNamed
    <2> QED  BY <2>4, <2>5
  <1>4. CASE h.form = "suffix"
    <2> DEFINE p == parseRangeHeader(h, size)
               start == IF size > h.a THEN size - h.a ELSE 0
    <2>1. p = IF h.a = 0 \/ start >= size \/ start > size - 1 THEN Unsatisfiable
              ELSE [type |-> "range", start |-> start, end |-> size - 1]
      BY <1>4 DEF parseRangeHeader
    <2>2. Named(h, size) = {i \in 0..(size - 1) : i >= size - h.a}
      BY <1>4 DEF Named
    <2>3. start \in Nat /\ start >= size - h.a /\ (start = size - h.a \/ start = 0)
      BY <1>0
    <2>4. h.a # 0 => start < size
      BY <1>0
    <2>5. \A i \in 0..(size - 1) : i >= start <=> i >= size - h.a
      BY <1>0
    <2> HIDE DEF start
    <2>6. CASE h.a = 0
      <3>1. Named(h, size) = {}
        BY <2>2, <2>6
      <3> QED  BY <2>1, <2>6, <3>1 DEF RangeIsNamed, Unsatisfiable
    <2>7. CASE h.a # 0
      <3>1. start..(size - 1) = Named(h, size)
        BY <2>2, <2>3, <2>5
      <3>2. p = [type |-> "range", start |-> start, end |-> size - 1]
        BY <1>0, <2>1, <2>3, <2>4, <2>7
      <3> QED  BY <1>4, <3>1, <3>2 DEF RangeIsNamed
    <2> QED  BY <2>6, <2>7
  <1> QED  BY <1>0, <1>1, <1>2, <1>3, <1>4
-----------------------------------------------------------------------------
(* The catalog. *)

Working == {"map", "routing", "row", "asset", "hashAsset", "plan", "hashRouting", "upsert"}
Stage == {"idle", "map", "asset", "manifest", "restart", "cli", "wait", "done"}

(* A registration knows its manifest, and that the map is what it says. *)
JobKnows(j) ==
  /\ j.step \in Working => j.manifest \in Build
  /\ j.step \in {"hashRouting", "upsert"} => j.sum = j.manifest

(* Row r is of build b: version, size and checksums. *)
Describes(r, b) ==
  /\ r.version = VersionOf[b] /\ r.sum = b /\ r.size = MapSize[b]
  /\ AssetSize[b] > 0 => r.asset = b

(* From the restart on, a registration sees build b only; an older row it  *)
(* has read that is of b is so still.                                      *)
JobIsOf(j, b, r) ==
  /\ j.step \in Working => j.manifest = b
  /\ j.step \in Working \ {"map"} => j.size = MapSize[b]
  /\ j.step \in {"asset", "hashAsset", "plan"} => (Describes(j.old, b) => Describes(r, b))
  /\ j.step \in {"plan", "hashRouting", "upsert"} => (AssetSize[b] > 0 => j.asset = b)

Restarted == publisher.step \in {"cli", "wait", "done"}
JobGood(j, r) == JobKnows(j) /\ (Restarted => JobIsOf(j, publisher.build, r))

(* What the CLI has registered without an error is of the build. *)
CliGood(j, r) ==
  publisher.step = "wait" /\ j.step \notin Working /\ ~j.failed => Describes(r, publisher.build)
DoneGood(r) == publisher.step = "done" => Describes(r, publisher.build)

RowGood(r) ==
  /\ r \in Row
  /\ r.version # None => r.sum \in Build /\ VersionOf[r.sum] = r.version
  /\ r.enabled => r.version # None

CatalogType ==
  /\ disk \in [Kind \cup {"manifest"} -> Build \cup {None}]
  /\ job \in [Process -> Job]
  /\ publisher \in [step : Stage, build : Build \cup {None}]

(* Files are installed one after the other. *)
Publication ==
  LET step == publisher.step  b == publisher.build IN
  /\ step # "idle" => b \in Build
  /\ step \notin {"idle", "map"} => disk["map"] = b
  /\ step \notin {"idle", "map", "asset"} => (AssetSize[b] > 0 => disk["asset"] = b)
  /\ step \notin {"idle", "map", "asset", "manifest"} => disk["manifest"] = b

CatalogInv ==
  /\ CatalogType /\ Publication
  /\ RowGood(row) /\ DoneGood(row) /\ CliGood(job["cli"], row)
  /\ \A p \in Process : JobGood(job[p], row)

LEMMA Sizes ==
  /\ \A b \in Build \union {None} :
       SizeOf("map", b) \in Nat /\ SizeOf("asset", b) \in Nat /\ SizeOf("routing", b) \in Nat
  /\ \A b \in Build : /\ b # None /\ VersionOf[b] \in Nat \ {0} /\ VersionOf[b] # None
                      /\ SizeOf("map", b) = MapSize[b] /\ MapSize[b] \in Nat \ {0}
                      /\ SizeOf("asset", b) = AssetSize[b] /\ AssetSize[b] \in Nat
  <1>1. \A b \in Build : /\ b # None /\ VersionOf[b] \in Nat \ {0} /\ MapSize[b] \in Nat \ {0}
                         /\ AssetSize[b] \in Nat /\ RoutingSize[b] \in Nat
    BY RegionCatalogAssumption DEF None
  <1>2. \A b \in Build : /\ SizeOf("map", b) = MapSize[b] /\ SizeOf("asset", b) = AssetSize[b]
                         /\ SizeOf("routing", b) = RoutingSize[b]
    BY <1>1 DEF SizeOf
  <1>3. SizeOf("map", None) = 0 /\ SizeOf("asset", None) = 0 /\ SizeOf("routing", None) = 0
    BY DEF SizeOf
  <1> QED  BY <1>1, <1>2, <1>3 DEF None

LEMMA CatalogFacts ==
  ASSUME CatalogInv
  PROVE  /\ \A p \in Process : job[p] \in Job
         /\ \A f \in {"map", "asset", "routing", "manifest"} : disk[f] \in Build \union {None}
         /\ publisher.step \in Stage /\ publisher.build \in Build \union {None}
         /\ row \in Row /\ "cli" \in Process
         /\ Restarted => /\ publisher.build \in Build
                         /\ disk["map"] = publisher.build /\ disk["manifest"] = publisher.build
                         /\ AssetSize[publisher.build] > 0 => disk["asset"] = publisher.build
  <1>1. CatalogType /\ Publication /\ RowGood(row)
    BY DEF CatalogInv
  <1>2. disk \in [Kind \cup {"manifest"} -> Build \cup {None}]
    BY <1>1 DEF CatalogType
  <1>3. \A f \in {"map", "asset", "routing", "manifest"} : disk[f] \in Build \union {None}
    BY <1>2 DEF Kind
  <1>4. job \in [Process -> Job] /\ publisher \in [step : Stage, build : Build \cup {None}]
    BY <1>1 DEF CatalogType
  <1>5. Restarted => publisher.step \notin {"idle", "map", "asset", "manifest"}
    BY DEF Restarted
  <1>6. Restarted => /\ publisher.build \in Build
                     /\ disk["map"] = publisher.build /\ disk["manifest"] = publisher.build
                     /\ AssetSize[publisher.build] > 0 => disk["asset"] = publisher.build
    BY <1>1, <1>5 DEF Publication
  <1>7. "cli" \in Process /\ row \in Row
    BY <1>1, RegionCatalogAssumption DEF RowGood
  <1> QED  BY <1>3, <1>4, <1>6, <1>7

(* A step of one registration, which may write a row that is no less of    *)
(* the build that is being published.                                      *)
LEMMA JobStepKeeps ==
  ASSUME CatalogInv, NEW p \in Process, NEW j \in Job, NEW r,
         job' = [job EXCEPT ![p] = j], row' = r, UNCHANGED <<disk, publisher>>,
         RowGood(r), JobGood(j, r), p = "cli" => CliGood(j, r),
         Restarted /\ Describes(row, publisher.build) => Describes(r, publisher.build)
  PROVE  CatalogInv'
  <1>1. job \in [Process -> Job] /\ CatalogType'
    BY DEF CatalogInv, CatalogType
  <1>2. Publication'
    BY DEF CatalogInv, Publication
  <1>3. DoneGood(row)' /\ RowGood(row)'
    BY DEF CatalogInv, DoneGood, Restarted
  <1>4. \A q \in Process : job'[q] = IF q = p THEN j ELSE job[q]
    BY <1>1
  <1>5. "cli" \in Process
    BY RegionCatalogAssumption
  <1>6. CliGood(job["cli"], row)'
    <2>1. CASE p = "cli"
      <3>1. job'["cli"] = j
        BY <1>4, <1>5, <2>1
      <3> QED  BY <2>1, <3>1 DEF CliGood
    <2>2. CASE p # "cli"
      <3>1. job'["cli"] = job["cli"]
        BY <1>4, <1>5, <2>2
      <3> QED  BY <3>1 DEF CatalogInv, CliGood, Restarted
    <2> QED  BY <2>1, <2>2
  <1>7. ASSUME NEW q \in Process PROVE JobGood(job[q], row)'
    <2>1. CASE q = p
      <3>1. job'[q] = j
        BY <1>4, <2>1
      <3>2. JobKnows(job[q])' /\ (Restarted => JobIsOf(j, publisher.build, r))
        BY <3>1 DEF JobGood, JobKnows
      <3> QED  BY <3>1, <3>2 DEF JobGood, JobIsOf, Restarted
    <2>2. CASE q # p
      <3>1. job'[q] = job[q]
        BY <1>4, <2>2
      <3>2. JobGood(job[q], row)
        BY DEF CatalogInv
      <3>3. JobKnows(job[q])'
        BY <3>1, <3>2 DEF JobGood, JobKnows
      <3>4. Restarted => JobIsOf(job[q], publisher.build, r)
        BY <3>2 DEF JobGood, JobIsOf
      <3> QED  BY <3>1, <3>3, <3>4 DEF JobGood, JobIsOf, Restarted
    <2> QED  BY <2>1, <2>2
  <1> QED  BY <1>1, <1>2, <1>3, <1>6, <1>7 DEF CatalogInv

(* A registration that no longer works on its manifest. *)
LEMMA EndedJobs ==
  ASSUME NEW failed \in BOOLEAN, NEW seen \in BOOLEAN
  PROVE  /\ Idle \in Job /\ Idle.step = "idle"
         /\ [Idle EXCEPT !.step = "sweep", !.seen = TRUE] \in Job
         /\ [Idle EXCEPT !.step = "sweep", !.seen = TRUE].step = "sweep"
         /\ [Idle EXCEPT !.step = "sweep", !.failed = TRUE] \in Job
         /\ [Idle EXCEPT !.step = "sweep", !.failed = TRUE].step = "sweep"
         /\ [Idle EXCEPT !.step = "sweep", !.failed = TRUE].failed = TRUE
         /\ [Idle EXCEPT !.failed = failed] \in Job
         /\ [Idle EXCEPT !.failed = failed].step = "idle"
         /\ [Idle EXCEPT !.failed = failed].failed = failed
  <1>1. NoRow \in Row
    BY DEF NoRow, Row, None
  <1>2. Idle \in Job /\ Idle.step = "idle"
    BY <1>1 DEF Idle, Job, JobStep, None
  <1> QED  BY <1>1, <1>2 DEF Job, JobStep

LEMMA StartedJob ==
  ASSUME CatalogInv, NEW force \in BOOLEAN
  PROVE  /\ Started(force) \in Job
         /\ Started(force).step \in {"map", "sweep"} /\ Started(force).failed = FALSE
         /\ Started(force).manifest = disk["manifest"]
         /\ Started(force).step = "map" <=> disk["manifest"] # None
  <1>1. disk["manifest"] \in Build \union {None}
    BY CatalogFacts
  <1>2. NoRow \in Row
    BY DEF NoRow, Row, None
  <1> QED  BY <1>1, <1>2 DEF Started, Idle, Job, JobStep, None

LEMMA RowStays ==
  ASSUME CatalogInv
  PROVE  RowGood(row) /\ \A p \in Process : JobGood(job[p], row)
  BY DEF CatalogInv

(* A registration gives its manifest up, keeps the row as it is, or ends. *)
LEMMA FailKeeps ==
  ASSUME CatalogInv, NEW p \in Process, Fail(p), UNCHANGED <<disk, row, publisher>>
  PROVE  CatalogInv'
  <1> DEFINE j == [Idle EXCEPT !.step = "sweep", !.failed = TRUE]
  <1>1. j \in Job /\ j.step = "sweep" /\ j.failed = TRUE
    BY EndedJobs
  <1>2. job' = [job EXCEPT ![p] = j]
    BY DEF Fail, Advance
  <1> HIDE DEF j
  <1>3. JobGood(j, row) /\ CliGood(j, row)
    BY <1>1 DEF JobGood, JobKnows, JobIsOf, CliGood, Working
  <1> QED  BY <1>1, <1>2, <1>3, RowStays, JobStepKeeps

LEMMA DoneKeeps ==
  ASSUME CatalogInv, NEW p \in Process, NEW r, Done(p), UNCHANGED <<disk, publisher>>,
         row' = r, RowGood(r), Restarted => Describes(r, publisher.build)
  PROVE  CatalogInv'
  <1> DEFINE j == [Idle EXCEPT !.step = "sweep", !.seen = TRUE]
  <1>1. j \in Job /\ j.step = "sweep"
    BY EndedJobs
  <1>2. job' = [job EXCEPT ![p] = j]
    BY DEF Done, Advance
  <1> HIDE DEF j
  <1>3. JobGood(j, r) /\ CliGood(j, r)
    BY <1>1 DEF JobGood, JobKnows, JobIsOf, CliGood, Working, Restarted
  <1> QED  BY <1>1, <1>2, <1>3, JobStepKeeps

LEMMA EndedKeeps ==
  ASSUME CatalogInv, NEW p \in Process, NEW r, job[p].step \notin Working,
         Advance(p, Ended(p)), UNCHANGED <<disk, publisher>>,
         row' = r, RowGood(r), \A b \in Build : Describes(row, b) => Describes(r, b)
  PROVE  CatalogInv'
  <1> DEFINE j == [Idle EXCEPT !.failed = job[p].failed]
  <1>0. job[p].failed \in BOOLEAN
    BY CatalogFacts DEF Job
  <1>1. j \in Job /\ j.step = "idle" /\ j.failed = job[p].failed
    BY <1>0, EndedJobs
  <1>2. job' = [job EXCEPT ![p] = j]
    BY DEF Ended, Advance
  <1> HIDE DEF j
  <1>3. Restarted /\ Describes(row, publisher.build) => Describes(r, publisher.build)
    BY CatalogFacts
  <1>4. JobGood(j, r)
    BY <1>1 DEF JobGood, JobKnows, JobIsOf, Working
  <1>5. p = "cli" => CliGood(j, r)
    BY <1>1, <1>3 DEF CatalogInv, CliGood, Restarted
  <1> QED  BY <1>1, <1>2, <1>3, <1>4, <1>5, JobStepKeeps

(* A registration goes on working on its manifest. *)
LEMMA WorkKeeps ==
  ASSUME CatalogInv, NEW p \in Process, NEW j \in Job, j.step \in Working, Advance(p, j),
         UNCHANGED <<disk, row, publisher>>, JobKnows(j),
         Restarted => JobIsOf(j, publisher.build, row)
  PROVE  CatalogInv'
  <1>1. JobGood(j, row) /\ CliGood(j, row)
    BY DEF JobGood, CliGood
  <1>2. job' = [job EXCEPT ![p] = j]
    BY DEF Advance
  <1> QED  BY <1>1, <1>2, RowStays, JobStepKeeps

LEMMA StatMapKeeps ==
  ASSUME CatalogInv, NEW p \in Process, StatMap(p)
  PROVE  CatalogInv'
  <1> DEFINE j == [Step(p, "routing") EXCEPT !.size = SizeOf("map", disk["map"])]
  <1>1. CASE disk["map"] = None
    BY <1>1, FailKeeps DEF StatMap
  <1>2. CASE disk["map"] # None
    <2>0. job[p] \in Job /\ disk["map"] \in Build /\ SizeOf("map", disk["map"]) \in Nat
      BY <1>2, CatalogFacts, Sizes
    <2>1. /\ j \in Job /\ j.step = "routing" /\ j.manifest = job[p].manifest
          /\ j.size = SizeOf("map", disk["map"])
      BY <2>0 DEF Step, Job, JobStep
    <2>2. Advance(p, j) /\ job[p].step = "map" /\ UNCHANGED <<disk, row, publisher>>
      BY <1>2 DEF StatMap, At
    <2> HIDE DEF j
    <2>3. JobGood(job[p], row)
      BY RowStays
    <2>4. JobKnows(j) /\ j.step \in Working
      BY <2>1, <2>2, <2>3 DEF JobGood, JobKnows, Working
    <2>5. Restarted => j.manifest = publisher.build /\ j.size = MapSize[publisher.build]
      BY <2>1, <2>2, <2>3, CatalogFacts, Sizes DEF JobGood, JobIsOf, Working
    <2>6. Restarted => JobIsOf(j, publisher.build, row)
      BY <2>1, <2>5 DEF JobIsOf
    <2> QED  BY <2>1, <2>2, <2>4, <2>6, WorkKeeps
  <1> QED  BY <1>1, <1>2

LEMMA StatRoutingKeeps ==
  ASSUME CatalogInv, NEW p \in Process, StatRouting(p)
  PROVE  CatalogInv'
  <1> DEFINE size == IF SizeOf("routing", job[p].manifest) > 0
                     THEN SizeOf("routing", disk["routing"]) ELSE 0
             j == [Step(p, "row") EXCEPT !.routingSize = size]
  <1>0. job[p] \in Job /\ SizeOf("routing", disk["routing"]) \in Nat
    BY CatalogFacts, Sizes
  <1>1. size \in Nat
    BY <1>0
  <1>2. Advance(p, j) /\ job[p].step = "routing" /\ UNCHANGED <<disk, row, publisher>>
    BY DEF StatRouting, At
  <1> HIDE DEF size
  <1>3. /\ j \in Job /\ j.step = "row" /\ j.manifest = job[p].manifest /\ j.size = job[p].size
    BY <1>0, <1>1 DEF Step, Job, JobStep
  <1> HIDE DEF j
  <1>4. JobGood(job[p], row)
    BY RowStays
  <1>5. JobKnows(j) /\ j.step \in Working
    BY <1>2, <1>3, <1>4 DEF JobGood, JobKnows, Working
  <1>6. Restarted => JobIsOf(j, publisher.build, row)
    BY <1>2, <1>3, <1>4 DEF JobGood, JobIsOf, Working
  <1> QED  BY <1>2, <1>3, <1>5, <1>6, WorkKeeps

LEMMA FindRowKeeps ==
  ASSUME CatalogInv, NEW p \in Process, FindRow(p)
  PROVE  CatalogInv'
  <1> DEFINE j == [Step(p, "asset") EXCEPT !.old = row]
  <1>0. job[p] \in Job /\ row \in Row
    BY CatalogFacts
  <1>2. Advance(p, j) /\ job[p].step = "row" /\ UNCHANGED <<disk, row, publisher>>
    BY DEF FindRow, At
  <1>3. /\ j \in Job /\ j.step = "asset" /\ j.manifest = job[p].manifest /\ j.size = job[p].size
        /\ j.old = row
    BY <1>0 DEF Step, Job, JobStep
  <1> HIDE DEF j
  <1>4. JobGood(job[p], row)
    BY RowStays
  <1>5. JobKnows(j) /\ j.step \in Working
    BY <1>2, <1>3, <1>4 DEF JobGood, JobKnows, Working
  <1>6. Restarted => JobIsOf(j, publisher.build, row)
    BY <1>2, <1>3, <1>4 DEF JobGood, JobIsOf, Working
  <1> QED  BY <1>2, <1>3, <1>5, <1>6, WorkKeeps

(* What the next steps of a registration keep of what it knows. *)
LEMMA SameKnowledge ==
  ASSUME CatalogInv, NEW p \in Process, NEW j \in Job,
         job[p].step \in {"asset", "hashAsset", "plan"}, j.step \in {"hashAsset", "plan"},
         j.manifest = job[p].manifest, j.size = job[p].size, j.old = job[p].old,
         Restarted /\ AssetSize[publisher.build] > 0 /\ j.step = "plan" => j.asset = publisher.build,
         Advance(p, j), UNCHANGED <<disk, row, publisher>>
  PROVE  CatalogInv'
  <1>1. JobGood(job[p], row)
    BY RowStays
  <1>2. JobKnows(j) /\ j.step \in Working
    BY <1>1 DEF JobGood, JobKnows, Working
  <1>3. ASSUME Restarted PROVE JobIsOf(j, publisher.build, row)
    <2>1. /\ job[p].manifest = publisher.build /\ job[p].size = MapSize[publisher.build]
          /\ Describes(job[p].old, publisher.build) => Describes(row, publisher.build)
      BY <1>1, <1>3 DEF JobGood, JobIsOf, Working
    <2>2. j.step \notin {"hashRouting", "upsert"}
      OBVIOUS
    <2> QED  BY <1>3, <2>1, <2>2 DEF JobIsOf
  <1> QED  BY <1>2, <1>3, WorkKeeps

LEMMA StatAssetKeeps ==
  ASSUME CatalogInv, NEW p \in Process, StatAsset(p)
  PROVE  CatalogInv'
  <1> DEFINE size == SizeOf("asset", disk["asset"])
  <1>0. job[p] \in Job /\ size \in Nat /\ job[p].old \in Row
    BY CatalogFacts, Sizes DEF Job
  <1>1. job[p].step = "asset" /\ UNCHANGED <<disk, row, publisher>>
    BY DEF StatAsset, At
  <1>2. Restarted => job[p].manifest = publisher.build
    BY <1>1, RowStays DEF JobGood, JobIsOf, Working
  <1>3. Restarted /\ AssetSize[publisher.build] > 0 =>
          size = AssetSize[publisher.build]
          /\ SizeOf("asset", job[p].manifest) = AssetSize[publisher.build]
    BY <1>2, CatalogFacts, Sizes
  <1>4. Restarted => AssetSize[publisher.build] \in Nat
    BY CatalogFacts, Sizes
  <1>5. Advance(p, IF SizeOf("asset", job[p].manifest) = 0 \/ size = 0 THEN Step(p, "plan")
                   ELSE IF SameAsset(job[p], size)
                   THEN [Step(p, "plan") EXCEPT !.assetSize = size, !.asset = job[p].old.asset]
                   ELSE [Step(p, "hashAsset") EXCEPT !.assetSize = size])
    BY DEF StatAsset
  <1> HIDE DEF size
  <1>6. CASE SizeOf("asset", job[p].manifest) = 0 \/ size = 0
    <2> DEFINE j == Step(p, "plan")
    <2>1. /\ j \in Job /\ j.step = "plan" /\ j.manifest = job[p].manifest
          /\ j.size = job[p].size /\ j.old = job[p].old
      BY <1>0 DEF Step, Job, JobStep
    <2>2. Advance(p, j)
      BY <1>5, <1>6
    <2> HIDE DEF j
    <2>3. ~(Restarted /\ AssetSize[publisher.build] > 0)
      BY <1>3, <1>4, <1>6
    <2> QED  BY <1>1, <2>1, <2>2, <2>3, SameKnowledge
  <1>7. CASE ~(SizeOf("asset", job[p].manifest) = 0 \/ size = 0) /\ SameAsset(job[p], size)
    <2> DEFINE j == [Step(p, "plan") EXCEPT !.assetSize = size, !.asset = job[p].old.asset]
    <2>1. /\ j \in Job /\ j.step = "plan" /\ j.manifest = job[p].manifest
          /\ j.size = job[p].size /\ j.old = job[p].old /\ j.asset = job[p].old.asset
      BY <1>0 DEF Step, Job, JobStep, Row
    <2>2. Advance(p, j)
      BY <1>5, <1>7
    <2> HIDE DEF j
    <2>3. Restarted => j.asset = publisher.build
      BY <1>2, <1>7, <2>1 DEF SameAsset
    <2> QED  BY <1>1, <2>1, <2>2, <2>3, SameKnowledge
  <1>8. CASE ~(SizeOf("asset", job[p].manifest) = 0 \/ size = 0) /\ ~SameAsset(job[p], size)
    <2> DEFINE j == [Step(p, "hashAsset") EXCEPT !.assetSize = size]
    <2>1. /\ j \in Job /\ j.step = "hashAsset" /\ j.manifest = job[p].manifest
          /\ j.size = job[p].size /\ j.old = job[p].old
      BY <1>0 DEF Step, Job, JobStep
    <2>2. Advance(p, j)
      BY <1>5, <1>8
    <2> HIDE DEF j
    <2> QED  BY <1>1, <2>1, <2>2, SameKnowledge
  <1> QED  BY <1>6, <1>7, <1>8

LEMMA HashAssetKeeps ==
  ASSUME CatalogInv, NEW p \in Process, HashAsset(p)
  PROVE  CatalogInv'
  <1>0. job[p] \in Job /\ disk["asset"] \in Build \union {None}
    BY CatalogFacts
  <1>1. job[p].step = "hashAsset" /\ UNCHANGED <<disk, row, publisher>>
    BY DEF HashAsset, At
  <1>2. Restarted => job[p].manifest = publisher.build
    BY <1>1, RowStays DEF JobGood, JobIsOf, Working
  <1>3. CASE disk["asset"] # job[p].manifest
    BY <1>1, <1>3, FailKeeps DEF HashAsset
  <1>4. CASE disk["asset"] = job[p].manifest
    <2> DEFINE j == [Step(p, "plan") EXCEPT !.asset = disk["asset"]]
    <2>1. /\ j \in Job /\ j.step = "plan" /\ j.manifest = job[p].manifest
          /\ j.size = job[p].size /\ j.old = job[p].old /\ j.asset = disk["asset"]
      BY <1>0 DEF Step, Job, JobStep
    <2>2. Advance(p, j)
      BY <1>4 DEF HashAsset
    <2> HIDE DEF j
    <2>3. Restarted => j.asset = publisher.build
      BY <1>2, <1>4, <2>1
    <2> QED  BY <1>1, <2>1, <2>2, <2>3, SameKnowledge
  <1> QED  BY <1>3, <1>4

LEMMA UnchangedKeeps ==
  ASSUME CatalogInv, NEW p \in Process, Unchanged(p)
  PROVE  CatalogInv'
  <1>1. job[p].step = "plan" /\ UNCHANGED <<disk, row, publisher>> /\ Done(p)
        /\ SameMap(job[p]) /\ SameAssets(job[p])
    BY DEF Unchanged, At
  <1>2. ASSUME Restarted PROVE Describes(row, publisher.build)
    <2> DEFINE b == publisher.build
    <2>1. JobIsOf(job[p], b, row)
      BY <1>2, RowStays DEF JobGood
    <2>2. /\ job[p].manifest = b /\ job[p].size = MapSize[b]
          /\ AssetSize[b] > 0 => job[p].asset = b
          /\ Describes(job[p].old, b) => Describes(row, b)
      BY <1>1, <2>1 DEF JobIsOf, Working
    <2>3. Describes(job[p].old, b)
      BY <1>1, <2>2 DEF SameMap, SameAssets, Describes
    <2> QED  BY <2>2, <2>3
  <1> QED  BY <1>1, <1>2, RowStays, DoneKeeps

LEMMA HashMapKeeps ==
  ASSUME CatalogInv, NEW p \in Process, HashMap(p)
  PROVE  CatalogInv'
  <1> DEFINE sum == IF SameMap(job[p]) THEN job[p].old.sum ELSE disk["map"]
  <1>0. job[p] \in Job
    BY CatalogFacts
  <1>1. job[p].step = "plan" /\ UNCHANGED <<disk, row, publisher>>
        /\ IF sum # job[p].manifest THEN Fail(p)
           ELSE Advance(p, [Step(p, "hashRouting") EXCEPT !.sum = sum])
    BY DEF HashMap, At
  <1>2. JobGood(job[p], row)
    BY RowStays
  <1> HIDE DEF sum
  <1>3. CASE sum # job[p].manifest
    BY <1>1, <1>3, FailKeeps
  <1>4. CASE sum = job[p].manifest
    <2> DEFINE j == [Step(p, "hashRouting") EXCEPT !.sum = sum]
    <2>1. /\ j \in Job /\ j.step = "hashRouting" /\ j.manifest = job[p].manifest
          /\ j.size = job[p].size /\ j.asset = job[p].asset /\ j.sum = job[p].manifest
      BY <1>0, <1>4 DEF Step, Job, JobStep
    <2>2. Advance(p, j)
      BY <1>1, <1>4
    <2> HIDE DEF j
    <2>3. JobKnows(j) /\ j.step \in Working
      BY <1>1, <1>2, <2>1 DEF JobGood, JobKnows, Working
    <2>4. Restarted => JobIsOf(j, publisher.build, row)
      BY <1>1, <1>2, <2>1 DEF JobGood, JobIsOf, Working
    <2> QED  BY <1>1, <2>1, <2>2, <2>3, <2>4, WorkKeeps
  <1> QED  BY <1>3, <1>4

LEMMA HashRoutingKeeps ==
  ASSUME CatalogInv, NEW p \in Process, HashRouting(p)
  PROVE  CatalogInv'
  <1> DEFINE gone == job[p].routingSize > 0 /\ ~(SameRouting(job[p]) /\ job[p].old.routing # None)
                     /\ disk["routing"] = None
             routing == IF job[p].routingSize = 0 THEN None
                        ELSE IF SameRouting(job[p]) /\ job[p].old.routing # None
                        THEN job[p].old.routing ELSE disk["routing"]
             j == [Step(p, "upsert") EXCEPT !.old = NoRow, !.routing = routing]
  <1>0. job[p] \in Job /\ disk["routing"] \in Build \union {None} /\ NoRow \in Row
    BY CatalogFacts DEF NoRow, Row, None
  <1>1. job[p].step = "hashRouting" /\ UNCHANGED <<disk, row, publisher>>
        /\ IF gone THEN Fail(p) ELSE Advance(p, j)
    BY DEF HashRouting, At
  <1>2. routing \in Build \union {None}
    BY <1>0 DEF Job, Row
  <1>3. JobGood(job[p], row)
    BY RowStays
  <1> HIDE DEF gone, routing
  <1>4. CASE gone
    BY <1>1, <1>4, FailKeeps
  <1>5. CASE ~gone
    <2>1. /\ j \in Job /\ j.step = "upsert" /\ j.manifest = job[p].manifest
          /\ j.size = job[p].size /\ j.asset = job[p].asset /\ j.sum = job[p].sum
      BY <1>0, <1>2 DEF Step, Job, JobStep
    <2>2. Advance(p, j)
      BY <1>1, <1>5
    <2> HIDE DEF j
    <2>3. JobKnows(j) /\ j.step \in Working
      BY <1>1, <1>3, <2>1 DEF JobGood, JobKnows, Working
    <2>4. Restarted => JobIsOf(j, publisher.build, row)
      BY <1>1, <1>3, <2>1 DEF JobGood, JobIsOf, Working
    <2> QED  BY <1>1, <2>1, <2>2, <2>3, <2>4, WorkKeeps
  <1> QED  BY <1>4, <1>5

LEMMA UpsertKeeps ==
  ASSUME CatalogInv, NEW p \in Process, Upsert(p)
  PROVE  CatalogInv'
  <1> DEFINE j == job[p]
             r == [version |-> VersionOf[j.manifest], size |-> j.size, sum |-> j.sum,
                   assetSize |-> j.assetSize, asset |-> j.asset,
                   routingSize |-> j.routingSize, routing |-> j.routing, enabled |-> TRUE]
  <1>0. j \in Job
    BY CatalogFacts
  <1>1. j.step = "upsert" /\ UNCHANGED <<disk, publisher>> /\ row' = r /\ Done(p)
    BY DEF Upsert, At
  <1>2. j.manifest \in Build /\ j.sum = j.manifest
    BY <1>1, RowStays DEF JobGood, JobKnows, Working
  <1>3. VersionOf[j.manifest] # None
    BY <1>2, Sizes
  <1>4. RowGood(r)
    <2>1. r \in Row
      BY <1>0, <1>2 DEF Job, Row
    <2> QED  BY <1>2, <1>3, <2>1 DEF RowGood
  <1>5. Restarted => Describes(r, publisher.build)
    <2>1. Restarted => JobIsOf(j, publisher.build, row)
      BY RowStays DEF JobGood
    <2> QED  BY <1>1, <1>2, <2>1 DEF JobIsOf, Describes, Working
  <1> HIDE DEF r
  <1> QED  BY <1>1, <1>4, <1>5, DoneKeeps

LEMMA SweepStepKeeps ==
  ASSUME CatalogInv, NEW p \in Process, NEW step \in {"sweepFile", "disable"},
         job[p].step \in {"sweep", "sweepFile"}, Advance(p, Step(p, step)),
         UNCHANGED <<disk, row, publisher>>
  PROVE  CatalogInv'
  <1> DEFINE j == Step(p, step)
  <1>0. job[p] \in Job
    BY CatalogFacts
  <1>1. j \in Job /\ j.step = step /\ j.failed = job[p].failed
    BY <1>0 DEF Step, Job, JobStep
  <1>2. job' = [job EXCEPT ![p] = j]
    BY DEF Advance
  <1> HIDE DEF j
  <1>3. JobGood(j, row)
    BY <1>1 DEF JobGood, JobKnows, JobIsOf, Working
  <1>4. p = "cli" => CliGood(j, row)
    BY <1>1 DEF CatalogInv, CliGood, Working
  <1> QED  BY <1>1, <1>2, <1>3, <1>4, RowStays, JobStepKeeps

(* Enabling or disabling a row says nothing else of it. *)
LEMMA EnabledRow ==
  ASSUME CatalogInv, NEW enabled \in BOOLEAN, enabled => row.version # None
  PROVE  /\ RowGood([row EXCEPT !.enabled = enabled])
         /\ \A b \in Build : Describes(row, b) => Describes([row EXCEPT !.enabled = enabled], b)
  <1> DEFINE r == [row EXCEPT !.enabled = enabled]
  <1>1. RowGood(row)
    BY RowStays
  <1>2. /\ r \in Row /\ r.version = row.version /\ r.sum = row.sum /\ r.size = row.size
        /\ r.asset = row.asset /\ r.enabled = enabled
    BY <1>1 DEF RowGood, Row
  <1> HIDE DEF r
  <1>3. RowGood(r)
    BY <1>1, <1>2 DEF RowGood
  <1>4. \A b \in Build : Describes(row, b) => Describes(r, b)
    BY <1>2 DEF Describes
  <1> QED  BY <1>3, <1>4 DEF r

LEMMA SweepingKeeps ==
  ASSUME CatalogInv, NEW p \in Process, Sweep(p) \/ SweepFile(p) \/ Disable(p)
  PROVE  CatalogInv'
  <1>1. CASE Sweep(p)
    <2>1. job[p].step = "sweep" /\ UNCHANGED <<disk, row, publisher>>
          /\ (Advance(p, Step(p, "sweepFile")) \/ Advance(p, Ended(p)))
      BY <1>1 DEF Sweep, At
    <2>2. job[p].step \notin Working
      BY <2>1 DEF Working
    <2>3. CASE Advance(p, Ended(p))
      BY <2>1, <2>2, <2>3, RowStays, EndedKeeps
    <2> QED  BY <2>1, <2>3, SweepStepKeeps
  <1>2. CASE SweepFile(p)
    <2>1. job[p].step = "sweepFile" /\ UNCHANGED <<disk, row, publisher>>
          /\ (Advance(p, Step(p, "disable")) \/ Advance(p, Ended(p)))
      BY <1>2 DEF SweepFile, At
    <2>2. job[p].step \notin Working
      BY <2>1 DEF Working
    <2>3. CASE Advance(p, Ended(p))
      BY <2>1, <2>2, <2>3, RowStays, EndedKeeps
    <2> QED  BY <2>1, <2>3, SweepStepKeeps
  <1>3. CASE Disable(p)
    <2>1. job[p].step = "disable" /\ UNCHANGED <<disk, publisher>>
          /\ row' = [row EXCEPT !.enabled = FALSE] /\ Advance(p, Ended(p))
      BY <1>3 DEF Disable, At
    <2>2. job[p].step \notin Working
      BY <2>1 DEF Working
    <2>3. /\ RowGood([row EXCEPT !.enabled = FALSE])
          /\ \A b \in Build : Describes(row, b) => Describes([row EXCEPT !.enabled = FALSE], b)
      BY EnabledRow
    <2> QED  BY <2>1, <2>2, <2>3, EndedKeeps
  <1> QED  BY <1>1, <1>2, <1>3

LEMMA SyncStepKeeps ==
  ASSUME CatalogInv, NEW p \in Process, SyncStep(p)
  PROVE  CatalogInv'
  BY StatMapKeeps, StatRoutingKeeps, FindRowKeeps, StatAssetKeeps, HashAssetKeeps, UnchangedKeeps,
     HashMapKeeps, HashRoutingKeeps, UpsertKeeps, SweepingKeeps DEF SyncStep

(* A registration that begins after the restart finds the manifest of the build. *)
LEMMA StartedGood ==
  ASSUME CatalogInv, NEW force \in BOOLEAN, NEW r
  PROVE  /\ JobKnows(Started(force))
         /\ Restarted => JobIsOf(Started(force), publisher.build, r)
  <1>1. /\ Started(force).step \in {"map", "sweep"}
        /\ Started(force).manifest = disk["manifest"]
        /\ Started(force).step = "map" <=> disk["manifest"] # None
    BY StartedJob
  <1>2. disk["manifest"] \in Build \union {None} /\ (Restarted => disk["manifest"] = publisher.build)
    BY CatalogFacts
  <1> QED  BY <1>1, <1>2 DEF JobKnows, JobIsOf, Working

LEMMA StartSyncKeeps ==
  ASSUME CatalogInv, NEW p \in Process, NEW force \in BOOLEAN, StartSync(p, force)
  PROVE  CatalogInv'
  <1>1. /\ p # "cli" /\ job' = [job EXCEPT ![p] = Started(force)]
        /\ UNCHANGED <<disk, row, publisher>>
    BY DEF StartSync, Advance
  <1>2. Started(force) \in Job /\ JobGood(Started(force), row)
    BY StartedJob, StartedGood DEF JobGood
  <1> QED  BY <1>1, <1>2, RowStays, JobStepKeeps

LEMMA SetEnabledKeeps ==
  ASSUME CatalogInv, NEW enabled \in BOOLEAN, SetEnabled(enabled)
  PROVE  CatalogInv'
  <1> DEFINE r == [row EXCEPT !.enabled = enabled]
  <1>1. row.version # None /\ row' = r /\ UNCHANGED <<disk, job, publisher>>
    BY DEF SetEnabled
  <1>2. RowGood(r) /\ \A b \in Build : Describes(row, b) => Describes(r, b)
    BY <1>1, EnabledRow
  <1> HIDE DEF r
  <1>3. "cli" \in Process /\ job \in [Process -> Job] /\ job["cli"] \in Job
    BY CatalogFacts DEF CatalogInv, CatalogType
  <1>4. JobGood(job["cli"], r) /\ CliGood(job["cli"], r)
    BY <1>2, <1>3, CatalogFacts DEF CatalogInv, JobGood, JobIsOf, CliGood, Restarted
  <1>5. job' = [job EXCEPT !["cli"] = job["cli"]]
    BY <1>1, <1>3
  <1>6. Restarted /\ Describes(row, publisher.build) => Describes(r, publisher.build)
    BY <1>2, CatalogFacts
  <1> QED  BY <1>1, <1>2, <1>3, <1>4, <1>5, <1>6, JobStepKeeps

(* The steps of the publication: until the restart nothing is asked of the *)
(* registrations, and the restart lets none go on.                         *)
LEMMA StageKeeps ==
  ASSUME CatalogInv, NEW stage \in Stage \ {"cli", "wait", "done"}, NEW b \in Build \union {None},
         publisher' = [step |-> stage, build |-> b], UNCHANGED <<row, job>>,
         disk' \in [Kind \cup {"manifest"} -> Build \cup {None}], Publication'
  PROVE  CatalogInv'
  <1>1. publisher'.step = stage /\ ~Restarted'
    BY DEF Restarted
  <1>2. CatalogType'
    BY DEF CatalogInv, CatalogType
  <1>3. RowGood(row)' /\ DoneGood(row)' /\ CliGood(job["cli"], row)'
    BY <1>1 DEF CatalogInv, DoneGood, CliGood
  <1>4. \A p \in Process : JobGood(job[p], row)'
    BY <1>1 DEF CatalogInv, JobGood, JobKnows
  <1> QED  BY <1>2, <1>3, <1>4 DEF CatalogInv

LEMMA PublisherFields ==
  ASSUME CatalogInv, NEW step \in Stage, Goto(step)
  PROVE  publisher' = [step |-> step, build |-> publisher.build]
         /\ publisher.build \in Build \union {None}
  BY DEF CatalogInv, CatalogType, Goto

LEMMA PublishKeeps ==
  ASSUME CatalogInv, NEW b \in Build, Publish(b)
  PROVE  CatalogInv'
  <1>1. publisher' = [step |-> "map", build |-> b] /\ UNCHANGED <<disk, row, job>>
    BY DEF Publish
  <1>2. Publication' /\ disk' \in [Kind \cup {"manifest"} -> Build \cup {None}]
    BY <1>1 DEF Publication, CatalogInv, CatalogType
  <1> QED  BY <1>1, <1>2, StageKeeps DEF Stage

LEMMA WithdrawnKeeps ==
  ASSUME CatalogInv, NEW b \in Build \union {None}, publisher' = [step |-> "idle", build |-> b],
         UNCHANGED <<row, job>>, disk' \in [Kind \cup {"manifest"} -> Build \cup {None}]
  PROVE  CatalogInv'
  <1>1. Publication'
    BY DEF Publication
  <1> QED  BY <1>1, StageKeeps DEF Stage

LEMMA InstallKeeps ==
  ASSUME CatalogInv,
         Install("map", "asset") \/ Install("asset", "manifest") \/ Install("manifest", "restart")
  PROVE  CatalogInv'
  <1> DEFINE b == publisher.build
  <1>0. /\ disk \in [Kind \cup {"manifest"} -> Build \cup {None}] /\ UNCHANGED <<row, job>>
        /\ publisher.step \in {"map", "asset", "manifest"}
    BY DEF CatalogInv, CatalogType, Install
  <1>1. b \in Build
    BY <1>0 DEF CatalogInv, Publication
  <1>2. /\ b # None /\ SizeOf("map", b) > 0
        /\ SizeOf("asset", b) = AssetSize[b] /\ AssetSize[b] \in Nat
    BY <1>1, Sizes
  <1>3. CASE Install("map", "asset")
    <2>1. disk' = [disk EXCEPT !["map"] = b] /\ Goto("asset") /\ publisher.step = "map"
      BY <1>2, <1>3 DEF Install
    <2>2. publisher' = [step |-> "asset", build |-> b]
      BY <2>1, PublisherFields DEF Stage
    <2>3. disk' \in [Kind \cup {"manifest"} -> Build \cup {None}] /\ disk'["map"] = b
      BY <1>0, <1>1, <2>1 DEF Kind
    <2>4. Publication'
      BY <1>1, <2>2, <2>3 DEF Publication
    <2> QED  BY <1>0, <1>1, <2>2, <2>3, <2>4, StageKeeps DEF Stage
  <1>4. CASE Install("asset", "manifest")
    <2>1. /\ disk' = [disk EXCEPT !["asset"] = IF AssetSize[b] > 0 THEN b ELSE @]
          /\ Goto("manifest") /\ publisher.step = "asset"
      BY <1>2, <1>4 DEF Install
    <2>2. publisher' = [step |-> "manifest", build |-> b]
      BY <2>1, PublisherFields DEF Stage
    <2>3. /\ disk' \in [Kind \cup {"manifest"} -> Build \cup {None}] /\ disk'["map"] = disk["map"]
          /\ AssetSize[b] > 0 => disk'["asset"] = b
      BY <1>0, <1>1, <2>1 DEF Kind
    <2>4. disk["map"] = b
      BY <2>1 DEF CatalogInv, Publication
    <2>5. Publication'
      BY <1>1, <2>2, <2>3, <2>4 DEF Publication
    <2> QED  BY <1>0, <1>1, <2>2, <2>3, <2>5, StageKeeps DEF Stage
  <1>5. CASE Install("manifest", "restart")
    <2>1. disk' = [disk EXCEPT !["manifest"] = b] /\ Goto("restart") /\ publisher.step = "manifest"
      BY <1>5 DEF Install
    <2>2. publisher' = [step |-> "restart", build |-> b]
      BY <2>1, PublisherFields DEF Stage
    <2>3. /\ disk' \in [Kind \cup {"manifest"} -> Build \cup {None}] /\ disk'["manifest"] = b
          /\ disk'["map"] = disk["map"] /\ disk'["asset"] = disk["asset"]
      BY <1>0, <1>1, <2>1 DEF Kind
    <2>4. disk["map"] = b /\ (AssetSize[b] > 0 => disk["asset"] = b)
      BY <2>1 DEF CatalogInv, Publication
    <2>5. Publication'
      BY <1>1, <2>2, <2>3, <2>4 DEF Publication
    <2> QED  BY <1>0, <1>1, <2>2, <2>3, <2>5, StageKeeps DEF Stage
  <1> QED  BY <1>3, <1>4, <1>5

LEMMA StopPublisherKeeps ==
  ASSUME CatalogInv, StopPublisher
  PROVE  CatalogInv'
  <1>1. UNCHANGED <<disk, row, job>> /\ Goto("idle")
    BY DEF StopPublisher
  <1>2. publisher' = [step |-> "idle", build |-> publisher.build]
        /\ publisher.build \in Build \union {None}
    BY <1>1, PublisherFields DEF Stage
  <1>3. disk' \in [Kind \cup {"manifest"} -> Build \cup {None}]
    BY <1>1 DEF CatalogInv, CatalogType
  <1> QED  BY <1>1, <1>2, <1>3, WithdrawnKeeps

LEMMA OperatorKeeps ==
  ASSUME CatalogInv, (\E b \in Build : InstallRouting(b)) \/ RemoveFiles
  PROVE  CatalogInv'
  <1>1. /\ publisher' = [step |-> "idle", build |-> None] /\ UNCHANGED <<row, job>>
        /\ \/ \E b \in Build : disk' = [disk EXCEPT !["routing"] = b]
           \/ disk' = [f \in DOMAIN disk |-> None]
    BY DEF InstallRouting, RemoveFiles
  <1>2. disk \in [Kind \cup {"manifest"} -> Build \cup {None}]
    BY DEF CatalogInv, CatalogType
  <1>3. disk' \in [Kind \cup {"manifest"} -> Build \cup {None}]
    BY <1>1, <1>2 DEF Kind
  <1> QED  BY <1>1, <1>3, WithdrawnKeeps

LEMMA RestartKeeps ==
  ASSUME CatalogInv, NEW onStartup \in BOOLEAN, Restart(onStartup)
  PROVE  CatalogInv'
  <1>1. /\ publisher.step = "restart" /\ UNCHANGED <<disk, row>> /\ Goto("cli")
        /\ job' = [p \in Process |-> IF p = "cli" \/ ~onStartup THEN Idle ELSE Started(FALSE)]
    BY DEF Restart
  <1>2. publisher' = [step |-> "cli", build |-> publisher.build]
        /\ publisher.build \in Build \union {None}
    BY <1>1, PublisherFields DEF Stage
  <1>3. publisher.build \in Build /\ disk["manifest"] = publisher.build /\ disk["map"] = publisher.build
        /\ (AssetSize[publisher.build] > 0 => disk["asset"] = publisher.build)
    BY <1>1 DEF CatalogInv, Publication
  <1>4. Publication'
    BY <1>1, <1>2, <1>3 DEF Publication
  <1>5. Idle \in Job /\ Idle.step = "idle" /\ Started(FALSE) \in Job
        /\ Started(FALSE).step = "map" /\ Started(FALSE).manifest = publisher.build
    <2>1. publisher.build # None
      BY <1>3, Sizes
    <2> QED  BY <1>3, <2>1, EndedJobs, StartedJob
  <1>6. CatalogType'
    <2>1. job' \in [Process -> Job]
      BY <1>1, <1>5
    <2> QED  BY <1>1, <1>2, <2>1 DEF CatalogInv, CatalogType, Stage
  <1>7. RowGood(row)' /\ DoneGood(row)' /\ CliGood(job["cli"], row)'
    BY <1>1, <1>2 DEF CatalogInv, DoneGood, CliGood
  <1>8. ASSUME NEW p \in Process PROVE JobGood(job[p], row)'
    <2>1. job'[p] = Idle \/ job'[p] = Started(FALSE)
      BY <1>1
    <2>2. /\ job'[p].step \in {"idle", "map"}
          /\ job'[p].step = "map" => job'[p].manifest = publisher.build
      BY <1>5, <2>1
    <2>3. publisher'.build = publisher.build
      BY <1>2
    <2> QED  BY <1>3, <2>2, <2>3 DEF JobGood, JobKnows, JobIsOf, Working
  <1> QED  BY <1>4, <1>6, <1>7, <1>8 DEF CatalogInv

LEMMA RunCliKeeps ==
  ASSUME CatalogInv, RunCli
  PROVE  CatalogInv'
  <1>1. /\ publisher.step = "cli" /\ UNCHANGED <<disk, row>> /\ Goto("wait")
        /\ job' = [job EXCEPT !["cli"] = Started(FALSE)]
    BY DEF RunCli, Advance
  <1>2. publisher' = [step |-> "wait", build |-> publisher.build]
        /\ publisher.build \in Build \union {None}
    BY <1>1, PublisherFields DEF Stage
  <1>3. Restarted /\ Restarted' /\ "cli" \in Process
    BY <1>1, <1>2, CatalogFacts DEF Restarted
  <1>4. Publication'
    BY <1>1, <1>2 DEF CatalogInv, Publication
  <1>5. Started(FALSE) \in Job /\ Started(FALSE).step = "map" /\ JobGood(Started(FALSE), row)
    <2>1. disk["manifest"] \in Build
      BY <1>3, CatalogFacts
    <2>2. disk["manifest"] # None
      BY <2>1, Sizes
    <2> QED  BY <2>2, StartedJob, StartedGood DEF JobGood
  <1>6. job \in [Process -> Job] /\ CatalogType'
    BY <1>1, <1>2, <1>5 DEF CatalogInv, CatalogType, Stage
  <1>7. job'["cli"] = Started(FALSE)
    BY <1>1, <1>3, <1>6
  <1>8. RowGood(row)' /\ DoneGood(row)' /\ CliGood(job["cli"], row)'
    BY <1>1, <1>2, <1>5, <1>7 DEF CatalogInv, DoneGood, CliGood, Working
  <1>9. ASSUME NEW p \in Process PROVE JobGood(job[p], row)'
    <2>1. job'[p] = IF p = "cli" THEN Started(FALSE) ELSE job[p]
      BY <1>1, <1>6
    <2>2. JobGood(job[p], row)
      BY RowStays
    <2>3. JobGood(job'[p], row)
      BY <1>5, <2>1, <2>2
    <2>4. JobKnows(job'[p]) /\ JobIsOf(job'[p], publisher.build, row)
      BY <1>3, <2>3 DEF JobGood
    <2>5. publisher'.build = publisher.build /\ row' = row
      BY <1>1, <1>2
    <2> QED  BY <2>4, <2>5 DEF JobGood, JobKnows, JobIsOf
  <1> QED  BY <1>4, <1>6, <1>8, <1>9 DEF CatalogInv

LEMMA PublishedKeeps ==
  ASSUME CatalogInv, Published
  PROVE  CatalogInv'
  <1>1. /\ publisher.step = "wait" /\ job["cli"].step = "idle" /\ UNCHANGED <<disk, row, job>>
        /\ Goto(IF job["cli"].failed THEN "idle" ELSE "done")
    BY DEF Published, At
  <1>2. CASE job["cli"].failed
    <2>1. publisher' = [step |-> "idle", build |-> publisher.build]
          /\ publisher.build \in Build \union {None}
      BY <1>1, <1>2, PublisherFields DEF Stage
    <2>2. disk' \in [Kind \cup {"manifest"} -> Build \cup {None}]
      BY <1>1 DEF CatalogInv, CatalogType
    <2> QED  BY <1>1, <2>1, <2>2, WithdrawnKeeps
  <1>3. CASE ~job["cli"].failed
    <2>1. publisher' = [step |-> "done", build |-> publisher.build]
          /\ publisher.build \in Build \union {None}
      BY <1>1, <1>3, PublisherFields DEF Stage
    <2>2. Describes(row, publisher.build)
      BY <1>1, <1>3 DEF CatalogInv, CliGood, Working
    <2>3. CatalogType' /\ Publication'
      BY <1>1, <2>1 DEF CatalogInv, CatalogType, Publication, Stage
    <2>4. RowGood(row)' /\ DoneGood(row)' /\ CliGood(job["cli"], row)'
      BY <1>1, <2>1, <2>2 DEF CatalogInv, DoneGood, CliGood, Describes
    <2>5. ASSUME NEW p \in Process PROVE JobGood(job[p], row)'
      <3>1. JobKnows(job[p]) /\ JobIsOf(job[p], publisher.build, row)
        BY <1>1, RowStays DEF JobGood, Restarted
      <3>2. publisher'.build = publisher.build /\ row' = row /\ job' = job
        BY <1>1, <2>1
      <3> QED  BY <3>1, <3>2 DEF JobGood, JobKnows, JobIsOf
    <2> QED  BY <2>3, <2>4, <2>5 DEF CatalogInv
  <1> QED  BY <1>2, <1>3

LEMMA CatalogInitially ==
  ASSUME CatalogInit
  PROVE  CatalogInv
  <1>1. NoRow \in Row /\ NoRow.version = None /\ NoRow.enabled = FALSE
    BY DEF NoRow, Row, None
  <1>2. Idle \in Job /\ Idle.step = "idle"
    BY EndedJobs
  <1>3. publisher = [step |-> "idle", build |-> None] /\ row = NoRow
    BY DEF CatalogInit
  <1>4. CatalogType
    BY <1>2, <1>3 DEF CatalogInit, CatalogType, Stage
  <1>5. \A p \in Process : JobGood(job[p], row)
    BY <1>2, <1>3 DEF CatalogInit, JobGood, JobKnows, Restarted, Working
  <1>6. Publication /\ DoneGood(row) /\ CliGood(job["cli"], row)
    BY <1>3 DEF Publication, DoneGood, CliGood
  <1> QED  BY <1>1, <1>3, <1>4, <1>5, <1>6 DEF CatalogInv, RowGood

LEMMA CatalogKeeps ==
  ASSUME CatalogInv, NEW operator, CatalogNext(operator)
  PROVE  CatalogInv'
  <1>1. CASE \E p \in Process : SyncStep(p)
    BY <1>1, SyncStepKeeps
  <1>2. CASE \E p \in Process, force \in BOOLEAN : StartSync(p, force)
    BY <1>2, StartSyncKeeps
  <1>3. CASE \E b \in Build : Publish(b)
    BY <1>3, PublishKeeps
  <1>4. CASE PublisherStep
    BY <1>4, InstallKeeps, RunCliKeeps, PublishedKeeps DEF PublisherStep
  <1>5. CASE Restart("startup" \in operator)
    <2>1. ("startup" \in operator) \in BOOLEAN
      OBVIOUS
    <2> QED  BY <1>5, <2>1, RestartKeeps
  <1>6. CASE StopPublisher
    BY <1>6, StopPublisherKeeps
  <1>7. CASE \E enabled \in BOOLEAN : SetEnabled(enabled)
    BY <1>7, SetEnabledKeeps
  <1>8. CASE (\E b \in Build : InstallRouting(b)) \/ RemoveFiles
    BY <1>8, OperatorKeeps
  <1> QED  BY <1>1, <1>2, <1>3, <1>4, <1>5, <1>6, <1>7, <1>8 DEF CatalogNext

-----------------------------------------------------------------------------
(* The phone and the requests it makes. *)

(* An entry of the catalog tells the version of the build it tells the checksum of. *)
EntryGood(e) == e.sum \in Build /\ e.version = VersionOf[e.sum]

GetInv ==
  /\ "step" \in DOMAIN get
  /\ get.step \in {"region", "stat", "send"} => DOMAIN get = DOMAIN NoRequest
  /\ get.step = "send" => get.size \in Nat \ {0}

Ending == {"rename", "register", "removeTask", "removeOld"}
PhoneInv ==
  /\ cat # NoEntry => EntryGood(cat)
  /\ DOMAIN run = DOMAIN NoRun
  /\ run.step \notin {"idle", "deleteRow", "deleteFiles"} => EntryGood(run.entry)
  /\ DOMAIN target = Version
  /\ run.step = "rename" => part[v] = Whole(run.entry.sum)
  /\ run.step = "register" => target[v] = Whole(run.entry.sum)
  /\ run.step \in {"removeTask", "removeOld"} => reg = run.entry
  /\ run.step = "deleteFiles" => reg = NoEntry
  /\ RegisteredIsWhole

RegionInv == CatalogInv /\ GetInv /\ PhoneInv

LEMMA GetFields ==
  /\ DOMAIN NoRequest = {"step", "from", "ifRange", "region", "size"}
  /\ NoRequest.step = "none"
  /\ \A status, sum, total, body :
       /\ Answer(status, sum, total, body).step = "answer"
       /\ "step" \in DOMAIN Answer(status, sum, total, body)
  BY DEF NoRequest, Answer

LEMMA RunFields ==
  /\ DOMAIN NoRun = {"step", "entry", "etag", "offset", "again"}
  /\ NoRun.step = "idle"
  BY DEF NoRun

(* What a row that is offered tells is good. *)
LEMMA OfferedIsGood ==
  ASSUME CatalogInv, row.enabled
  PROVE  EntryGood([version |-> row.version, size |-> row.size, sum |-> row.sum])
  BY DEF CatalogInv, RowGood, EntryGood

LEMMA EntryIsOfAVersion ==
  ASSUME NEW e, EntryGood(e)
  PROVE  e.version \in Version /\ e.sum \in Build /\ VersionOf[e.sum] = e.version
  BY DEF EntryGood, Version

(* Only an answered request is read by the phone; it is asked anew or ended. *)
LEMMA GetOver ==
  ASSUME GetInv, get' = NoRequest \/ UNCHANGED get
  PROVE  GetInv'
  BY GetFields DEF GetInv

LEMMA ServeKeeps ==
  ASSUME RegionInv, ServeStep
  PROVE  RegionInv'
  <1>1. UNCHANGED <<catalogVars, cat, task, run, part, target, reg>>
    BY DEF ServeStep, GetEnabled, StatFile, SendFile
  <1>2. CatalogInv'
    BY <1>1 DEF RegionInv, CatalogInv, CatalogType, Publication, RowGood, DoneGood, CliGood, JobGood,
                JobKnows, JobIsOf, Restarted, Describes, catalogVars
  <1>3. PhoneInv'
    BY <1>1 DEF RegionInv, PhoneInv, RegisteredIsWhole, v
  <1>4. GetInv'
    <2>1. CASE \E status, sum, total, body : get' = Answer(status, sum, total, body)
      BY <2>1, GetFields DEF GetInv
    <2>2. CASE GetEnabled /\ row.enabled
      <3>1. /\ get.step = "region"
            /\ get' = [get EXCEPT !.step = "stat",
                         !.region = [version |-> row.version, size |-> row.size, sum |-> row.sum]]
        BY <2>2 DEF GetEnabled
      <3>2. DOMAIN get = {"step", "from", "ifRange", "region", "size"}
        BY <3>1, GetFields DEF RegionInv, GetInv
      <3>3. DOMAIN get' = DOMAIN get /\ get'.step = "stat"
        BY <3>1, <3>2
      <3> QED  BY <3>2, <3>3, GetFields DEF GetInv
    <2>3. CASE StatFile /\ disk["map"] # None
      <3>1. /\ get.step = "stat"
            /\ get' = [get EXCEPT !.step = "send", !.size = SizeOf("map", disk["map"])]
        BY <2>3 DEF StatFile
      <3>2. DOMAIN get = {"step", "from", "ifRange", "region", "size"}
        BY <3>1, GetFields DEF RegionInv, GetInv
      <3>3. DOMAIN get' = DOMAIN get /\ get'.step = "send" /\ get'.size = SizeOf("map", disk["map"])
        BY <3>1, <3>2
      <3>4. disk["map"] \in Build
        BY <2>3, CatalogFacts DEF RegionInv
      <3>5. SizeOf("map", disk["map"]) \in Nat \ {0}
        BY <3>4, Sizes
      <3> QED  BY <3>2, <3>3, <3>5, GetFields DEF GetInv
    <2> QED  BY <2>1, <2>2, <2>3 DEF ServeStep, GetEnabled, StatFile, SendFile
  <1> QED  BY <1>2, <1>3, <1>4 DEF RegionInv

LEMMA ToFields ==
  ASSUME PhoneInv, NEW step, To(step)
  PROVE  DOMAIN run' = DOMAIN NoRun /\ run'.step = step /\ run'.entry = run.entry
  <1>1. DOMAIN run = {"step", "entry", "etag", "offset", "again"}
    BY RunFields DEF PhoneInv
  <1>2. run' = [run EXCEPT !.step = step]
    BY DEF To
  <1> QED  BY <1>1, <1>2, RunFields

(* Before the rename a download changes nothing of what is registered. *)
Transfer == {"begin", "request", "wait", "write", "verify"}
LEMMA TransferKeeps ==
  ASSUME PhoneInv, UNCHANGED <<cat, target, reg>>, DOMAIN run' = DOMAIN NoRun,
         run'.step \in Transfer \union {"idle"}, run'.step # "idle" => EntryGood(run'.entry)
  PROVE  PhoneInv'
  <1>1. run'.step \notin {"deleteRow", "deleteFiles", "rename", "register", "removeTask", "removeOld"}
    BY DEF Transfer
  <1>2. RegisteredIsWhole'
    BY DEF PhoneInv, RegisteredIsWhole
  <1>3. (cat # NoEntry => EntryGood(cat))' /\ (DOMAIN target = Version)'
    BY DEF PhoneInv
  <1>4. (run.step \notin {"idle", "deleteRow", "deleteFiles"} => EntryGood(run.entry))'
    BY DEF EntryGood
  <1> QED  BY <1>1, <1>2, <1>3, <1>4 DEF PhoneInv

LEMMA StoppedKeeps ==
  ASSUME PhoneInv, GetInv, NEW status, Stop(status), UNCHANGED <<cat, target, reg>>
  PROVE  PhoneInv' /\ GetInv'
  <1>1. run' = NoRun /\ get' = NoRequest
    BY DEF Stop
  <1>2. DOMAIN run' = DOMAIN NoRun /\ run'.step = "idle"
    BY <1>1, RunFields
  <1> QED  BY <1>1, <1>2, GetOver, TransferKeeps

LEMMA BeginKeeps ==
  ASSUME PhoneInv, Begin
  PROVE  PhoneInv' /\ UNCHANGED get
  <1>1. /\ run.step = "begin" /\ UNCHANGED <<get, cat, target, reg>>
        /\ \E step \in {"request", "verify"} : \E etag, offset :
             run' = [run EXCEPT !.step = step, !.etag = etag, !.offset = offset]
    <2> DEFINE etag == IF task.version = v THEN task.etag ELSE None
               received == IF Len(part[v]) > run.entry.size THEN <<>> ELSE part[v]
               step == IF Len(received) < run.entry.size THEN "request" ELSE "verify"
    <2>1. run' = [run EXCEPT !.step = step, !.etag = etag, !.offset = Len(received)]
      BY DEF Begin
    <2>2. step \in {"request", "verify"}
      OBVIOUS
    <2> HIDE DEF step, etag, received
    <2>3. run.step = "begin" /\ UNCHANGED <<get, cat, target, reg>>
      BY DEF Begin, Running
    <2> QED  BY <2>1, <2>2, <2>3
  <1>2. PICK step \in {"request", "verify"} : \E etag, offset :
          run' = [run EXCEPT !.step = step, !.etag = etag, !.offset = offset]
    BY <1>1
  <1>3. DOMAIN run = {"step", "entry", "etag", "offset", "again"}
    BY RunFields DEF PhoneInv
  <1>4. DOMAIN run' = DOMAIN NoRun /\ run'.step = step /\ run'.entry = run.entry
    BY <1>2, <1>3, RunFields
  <1>5. EntryGood(run.entry)
    BY <1>1 DEF PhoneInv
  <1>6. run'.step \in Transfer /\ EntryGood(run'.entry)
    BY <1>4, <1>5 DEF Transfer
  <1> QED  BY <1>1, <1>4, <1>6, TransferKeeps

LEMMA RequestKeeps ==
  ASSUME RegionInv, Request
  PROVE  PhoneInv' /\ GetInv'
  <1> DEFINE sent == [NoRequest EXCEPT !.step = "region", !.from = run.offset,
                        !.ifRange = IF run.offset > 0 THEN run.etag ELSE None]
  <1>1. run.step = "request" /\ To("wait") /\ UNCHANGED <<cat, target, reg>> /\ get' = sent
    BY DEF Request, Running
  <1>2. DOMAIN sent = DOMAIN NoRequest /\ sent.step = "region"
    BY GetFields
  <1> HIDE DEF sent
  <1>3. GetInv'
    BY <1>1, <1>2, GetFields DEF GetInv
  <1>4. EntryGood(run.entry)
    BY <1>1 DEF RegionInv, PhoneInv
  <1>5. DOMAIN run' = DOMAIN NoRun /\ run'.step = "wait" /\ run'.entry = run.entry
    BY <1>1, ToFields DEF RegionInv
  <1>6. run'.step \in Transfer /\ EntryGood(run'.entry)
    BY <1>4, <1>5 DEF Transfer
  <1> QED  BY <1>1, <1>3, <1>5, <1>6, TransferKeeps DEF RegionInv

LEMMA ReceiveKeeps ==
  ASSUME RegionInv, Receive
  PROVE  PhoneInv' /\ GetInv'
  <1>1. run.step = "wait" /\ UNCHANGED <<cat, target, reg>>
    BY DEF Receive, Running
  <1>2. EntryGood(run.entry) /\ DOMAIN run = {"step", "entry", "etag", "offset", "again"}
    BY <1>1, RunFields DEF RegionInv, PhoneInv
  <1>3. \/ Stop("failed")
        \/ run' = StartOver /\ get' = NoRequest
        \/ /\ run' = [NoRun EXCEPT !.step = "write", !.entry = run.entry]
           /\ get' = Answer(200, None, get.total, get.body)
    BY DEF Receive
  <1>4. CASE Stop("failed")
    BY <1>1, <1>4, StoppedKeeps DEF RegionInv
  <1>5. CASE run' = StartOver /\ get' = NoRequest
    <2>1. DOMAIN run' = DOMAIN NoRun /\ run'.step = "request" /\ run'.entry = run.entry
      BY <1>2, <1>5, RunFields DEF StartOver
    <2>2. run'.step \in Transfer /\ EntryGood(run'.entry)
      BY <1>2, <2>1 DEF Transfer
    <2> QED  BY <1>1, <1>5, <2>1, <2>2, GetOver, TransferKeeps DEF RegionInv
  <1>6. CASE /\ run' = [NoRun EXCEPT !.step = "write", !.entry = run.entry]
             /\ get' = Answer(200, None, get.total, get.body)
    <2>1. DOMAIN run' = DOMAIN NoRun /\ run'.step = "write" /\ run'.entry = run.entry
      BY <1>6, RunFields
    <2>2. run'.step \in Transfer /\ EntryGood(run'.entry)
      BY <1>2, <2>1 DEF Transfer
    <2>3. GetInv'
      BY <1>6, GetFields DEF GetInv
    <2> QED  BY <1>1, <2>1, <2>2, <2>3, TransferKeeps DEF RegionInv
  <1> QED  BY <1>3, <1>4, <1>5, <1>6

LEMMA WriteKeeps ==
  ASSUME RegionInv, Write
  PROVE  PhoneInv' /\ GetInv'
  <1>1. run.step = "write" /\ UNCHANGED <<cat, target, reg>>
    BY DEF Write, Running
  <1>2. CASE Stop("failed")
    BY <1>1, <1>2, StoppedKeeps DEF RegionInv
  <1>3. CASE get' = [get EXCEPT !.body = Tail(@), !.total = @ - 1] /\ UNCHANGED run
    <2>1. "step" \in DOMAIN get
      BY DEF RegionInv, GetInv
    <2>2. DOMAIN get' = DOMAIN get /\ get'.step = get.step
      BY <1>3, <2>1
    <2>3. "size" \in DOMAIN get => get'.size = get.size
      BY <1>3
    <2>4. GetInv'
      BY <2>2, <2>3, GetFields DEF RegionInv, GetInv
    <2>5. DOMAIN run' = DOMAIN NoRun /\ run'.step \in Transfer /\ EntryGood(run'.entry)
      BY <1>1, <1>3 DEF RegionInv, PhoneInv, Transfer
    <2> QED  BY <1>1, <2>4, <2>5, TransferKeeps DEF RegionInv
  <1> QED  BY <1>2, <1>3 DEF Write

LEMMA EndOfBodyKeeps ==
  ASSUME RegionInv, EndOfBody
  PROVE  PhoneInv' /\ GetInv'
  <1>1. run.step = "write" /\ UNCHANGED <<cat, target, reg>>
    BY DEF EndOfBody, Running
  <1>2. CASE Stop("failed")
    BY <1>1, <1>2, StoppedKeeps DEF RegionInv
  <1>3. CASE To("verify") /\ get' = NoRequest
    <2>1. DOMAIN run' = DOMAIN NoRun /\ run'.step = "verify" /\ run'.entry = run.entry
      BY <1>3, ToFields DEF RegionInv
    <2>2. run'.step \in Transfer /\ EntryGood(run'.entry)
      BY <1>1, <2>1 DEF RegionInv, PhoneInv, Transfer
    <2> QED  BY <1>1, <1>3, <2>1, <2>2, GetOver, TransferKeeps DEF RegionInv
  <1> QED  BY <1>2, <1>3 DEF EndOfBody

LEMMA VerifyKeeps ==
  ASSUME RegionInv, Verify
  PROVE  PhoneInv' /\ GetInv'
  <1>1. run.step = "verify" /\ UNCHANGED <<cat, target, reg>>
    BY DEF Verify, Running
  <1>2. CASE Stop("failed")
    BY <1>1, <1>2, StoppedKeeps DEF RegionInv
  <1>3. CASE part[v] = Whole(run.entry.sum) /\ To("rename") /\ UNCHANGED <<get, task, part>>
    <2>1. DOMAIN run' = DOMAIN NoRun /\ run'.step = "rename" /\ run'.entry = run.entry
      BY <1>3, ToFields DEF RegionInv
    <2>2. EntryGood(run'.entry)
      BY <1>1, <2>1 DEF RegionInv, PhoneInv
    <2>3. (part[v] = Whole(run.entry.sum))'
      BY <1>3, <2>1 DEF v, Whole
    <2>4. RegisteredIsWhole'
      BY <1>1 DEF RegionInv, PhoneInv, RegisteredIsWhole
    <2>5. PhoneInv'
      BY <1>1, <2>1, <2>2, <2>3, <2>4 DEF RegionInv, PhoneInv
    <2> QED  BY <1>3, <2>5, GetOver DEF RegionInv
  <1> QED  BY <1>2, <1>3 DEF Verify

(* The version of the download is known, and the file of the others stays. *)
LEMMA RenameKeeps ==
  ASSUME RegionInv, Rename
  PROVE  PhoneInv' /\ GetInv'
  <1>1. /\ run.step = "rename" /\ UNCHANGED <<get, cat, reg>>
        /\ target' = [target EXCEPT ![v] = part[v]] /\ To("register")
    BY DEF Rename, Running
  <1>2. DOMAIN run' = DOMAIN NoRun /\ run'.step = "register" /\ run'.entry = run.entry
    BY <1>1, ToFields DEF RegionInv
  <1>3. EntryGood(run.entry) /\ DOMAIN target = Version /\ part[v] = Whole(run.entry.sum)
    BY <1>1 DEF RegionInv, PhoneInv
  <1>4. v \in Version /\ run.entry.sum \in Build /\ VersionOf[run.entry.sum] = v
    BY <1>3, EntryIsOfAVersion DEF v
  <1>5. v' = v
    BY <1>2 DEF v
  <1>6. /\ DOMAIN target' = Version /\ target'[v] = Whole(run.entry.sum)
        /\ \A w \in Version : w # v => target'[w] = target[w]
    BY <1>1, <1>3, <1>4
  <1>7. RegisteredIsWhole'
    <2>1. SUFFICES ASSUME reg # NoEntry
                   PROVE  \E b \in Build : VersionOf[b] = reg.version /\ target'[reg.version] = Whole(b)
      BY <1>1 DEF RegisteredIsWhole, Whole
    <2>2. CASE reg.version = v
      BY <1>4, <1>6, <2>2
    <2>3. CASE reg.version # v
      <3>1. PICK b \in Build : VersionOf[b] = reg.version /\ target[reg.version] = Whole(b)
        BY <2>1 DEF RegionInv, PhoneInv, RegisteredIsWhole
      <3>2. reg.version \in Version
        BY <3>1 DEF Version
      <3> QED  BY <1>6, <2>3, <3>1, <3>2
    <2> QED  BY <2>2, <2>3
  <1>8. (target[v] = Whole(run.entry.sum))'
    BY <1>2, <1>5, <1>6 DEF Whole
  <1>9. PhoneInv'
    BY <1>1, <1>2, <1>3, <1>6, <1>7, <1>8 DEF RegionInv, PhoneInv
  <1> QED  BY <1>1, <1>9, GetOver DEF RegionInv

LEMMA SaveDownloadedKeeps ==
  ASSUME RegionInv, SaveDownloaded
  PROVE  PhoneInv' /\ GetInv'
  <1>1. /\ run.step = "register" /\ UNCHANGED <<get, cat, target>>
        /\ reg' = run.entry /\ To("removeTask")
    BY DEF SaveDownloaded, Running
  <1>2. DOMAIN run' = DOMAIN NoRun /\ run'.step = "removeTask" /\ run'.entry = run.entry
    BY <1>1, ToFields DEF RegionInv
  <1>3. EntryGood(run.entry) /\ target[v] = Whole(run.entry.sum)
    BY <1>1 DEF RegionInv, PhoneInv
  <1>4. v = run.entry.version /\ run.entry.sum \in Build /\ VersionOf[run.entry.sum] = v
    BY <1>3, EntryIsOfAVersion DEF v
  <1>5. RegisteredIsWhole'
    BY <1>1, <1>3, <1>4 DEF RegisteredIsWhole, Whole
  <1>6. PhoneInv'
    BY <1>1, <1>2, <1>3, <1>5 DEF RegionInv, PhoneInv
  <1> QED  BY <1>1, <1>6, GetOver DEF RegionInv

LEMMA RemoveTaskKeeps ==
  ASSUME RegionInv, RemoveTask
  PROVE  PhoneInv' /\ GetInv'
  <1>1. run.step = "removeTask" /\ UNCHANGED <<get, cat, target, reg>> /\ To("removeOld")
    BY DEF RemoveTask, Running
  <1>2. DOMAIN run' = DOMAIN NoRun /\ run'.step = "removeOld" /\ run'.entry = run.entry
    BY <1>1, ToFields DEF RegionInv
  <1>3. RegisteredIsWhole'
    BY <1>1 DEF RegionInv, PhoneInv, RegisteredIsWhole
  <1>4. PhoneInv'
    BY <1>1, <1>2, <1>3 DEF RegionInv, PhoneInv
  <1> QED  BY <1>1, <1>4, GetOver DEF RegionInv

(* The phone is idle again; what it has is that of before. *)
LEMMA IdleAgain ==
  ASSUME RegionInv, run' = NoRun, UNCHANGED cat, DOMAIN target' = Version, RegisteredIsWhole'
  PROVE  PhoneInv'
  <1>1. DOMAIN run' = DOMAIN NoRun /\ run'.step = "idle"
    BY RunFields
  <1> QED  BY <1>1 DEF RegionInv, PhoneInv

LEMMA RemoveOldKeeps ==
  ASSUME RegionInv, RemoveOld
  PROVE  PhoneInv' /\ GetInv'
  <1>1. /\ run.step = "removeOld" /\ UNCHANGED <<get, cat, reg>> /\ run' = NoRun
        /\ target' = [w \in Version |-> IF w = v THEN target[w] ELSE <<>>]
    BY DEF RemoveOld, Running
  <1>2. EntryGood(run.entry) /\ reg = run.entry
    BY <1>1 DEF RegionInv, PhoneInv
  <1>3. v \in Version /\ reg.version = v
    BY <1>2, EntryIsOfAVersion DEF v
  <1>4. DOMAIN target' = Version /\ target'[reg.version] = target[reg.version]
    BY <1>1, <1>3
  <1>5. RegisteredIsWhole'
    BY <1>1, <1>4 DEF RegionInv, PhoneInv, RegisteredIsWhole, Whole
  <1> QED  BY <1>1, <1>4, <1>5, IdleAgain, GetOver DEF RegionInv

LEMMA DeleteFilesKeeps ==
  ASSUME RegionInv, DeleteFiles
  PROVE  PhoneInv' /\ GetInv'
  <1>1. /\ run.step = "deleteFiles" /\ UNCHANGED <<get, cat, reg>> /\ run' = NoRun
        /\ target' = [w \in Version |-> <<>>]
    BY DEF DeleteFiles, Running
  <1>2. reg' = NoEntry
    BY <1>1 DEF RegionInv, PhoneInv
  <1>3. RegisteredIsWhole' /\ DOMAIN target' = Version
    BY <1>1, <1>2 DEF RegisteredIsWhole
  <1> QED  BY <1>1, <1>3, IdleAgain, GetOver DEF RegionInv

LEMMA DeletionKeeps ==
  ASSUME RegionInv, DeleteRegion \/ DeleteRow
  PROVE  PhoneInv' /\ GetInv'
  <1>1. UNCHANGED <<get, cat, target>> /\ (UNCHANGED reg \/ reg' = NoEntry)
    BY DEF DeleteRegion, DeleteRow
  <1>2. RegisteredIsWhole'
    BY <1>1 DEF RegionInv, PhoneInv, RegisteredIsWhole
  <1>3. CASE DeleteRegion
    <2>1. DOMAIN run' = DOMAIN NoRun /\ run'.step = "deleteRow"
      BY <1>3, ToFields DEF DeleteRegion, RegionInv
    <2>2. PhoneInv'
      BY <1>1, <1>2, <2>1 DEF RegionInv, PhoneInv
    <2> QED  BY <1>1, <2>2, GetOver DEF RegionInv
  <1>4. CASE DeleteRow
    <2>1. DOMAIN run' = DOMAIN NoRun /\ run'.step = "deleteFiles" /\ reg' = NoEntry
      BY <1>4, ToFields DEF DeleteRow, RegionInv
    <2>2. PhoneInv'
      BY <1>1, <1>2, <2>1 DEF RegionInv, PhoneInv
    <2> QED  BY <1>1, <2>2, GetOver DEF RegionInv
  <1> QED  BY <1>3, <1>4

LEMMA RestartAppKeeps ==
  ASSUME RegionInv, RestartApp
  PROVE  PhoneInv' /\ GetInv'
  <1>1. /\ run' = NoRun /\ get' = NoRequest /\ UNCHANGED <<cat, target>>
        /\ UNCHANGED reg \/ reg' = NoEntry
    BY DEF RestartApp
  <1>2. RegisteredIsWhole' /\ DOMAIN target' = Version
    BY <1>1 DEF RegionInv, PhoneInv, RegisteredIsWhole
  <1> QED  BY <1>1, <1>2, IdleAgain, GetOver DEF RegionInv

LEMMA RefreshCatalogKeeps ==
  ASSUME RegionInv, RefreshCatalog
  PROVE  PhoneInv' /\ GetInv'
  <1>1. run.step = "idle" /\ UNCHANGED <<get, run, part, target, reg>>
    BY DEF RefreshCatalog, Running
  <1>2. (cat # NoEntry => EntryGood(cat))'
    <2>1. CASE row.enabled
      <3>1. cat' = [version |-> row.version, size |-> row.size, sum |-> row.sum]
        BY <2>1 DEF RefreshCatalog
      <3>2. EntryGood(cat')
        BY <2>1, <3>1, OfferedIsGood DEF RegionInv
      <3> QED  BY <3>2 DEF EntryGood
    <2>2. CASE ~row.enabled
      BY <2>2 DEF RefreshCatalog
    <2> QED  BY <2>1, <2>2
  <1>3. RegisteredIsWhole'
    BY <1>1 DEF RegionInv, PhoneInv, RegisteredIsWhole
  <1>4. PhoneInv'
    BY <1>1, <1>2, <1>3 DEF RegionInv, PhoneInv
  <1> QED  BY <1>1, <1>4, GetOver DEF RegionInv

LEMMA DownloadKeeps ==
  ASSUME RegionInv, Download
  PROVE  PhoneInv' /\ GetInv'
  <1>1. /\ cat # NoEntry /\ run' = [NoRun EXCEPT !.step = "begin", !.entry = cat]
        /\ UNCHANGED <<get, cat, target, reg>>
    BY DEF Download
  <1>2. EntryGood(cat)
    BY <1>1 DEF RegionInv, PhoneInv
  <1>3. DOMAIN run' = DOMAIN NoRun /\ run'.step = "begin" /\ run'.entry = cat
    BY <1>1, RunFields
  <1>4. run'.step \in Transfer /\ EntryGood(run'.entry)
    BY <1>2, <1>3 DEF Transfer
  <1> QED  BY <1>1, <1>3, <1>4, TransferKeeps, GetOver DEF RegionInv

LEMMA InterruptKeeps ==
  ASSUME RegionInv, NEW status, Interrupt(status)
  PROVE  PhoneInv' /\ GetInv'
  BY StoppedKeeps DEF Interrupt, RegionInv

LEMMA PhoneStepKeeps ==
  ASSUME RegionInv, PhoneStep
  PROVE  PhoneInv' /\ GetInv'
  <1>1. CASE Begin
    BY <1>1, BeginKeeps, GetOver DEF RegionInv
  <1> QED  BY <1>1, RequestKeeps, ReceiveKeeps, WriteKeeps, EndOfBodyKeeps, VerifyKeeps, RenameKeeps,
              SaveDownloadedKeeps, RemoveTaskKeeps, RemoveOldKeeps, DeletionKeeps, DeleteFilesKeeps
              DEF PhoneStep

LEMMA CatalogSame ==
  ASSUME CatalogInv, UNCHANGED catalogVars
  PROVE  CatalogInv'
  BY DEF CatalogInv, CatalogType, Publication, RowGood, DoneGood, CliGood, JobGood, JobKnows,
         JobIsOf, Restarted, Describes, catalogVars

LEMMA PhoneSame ==
  ASSUME RegionInv, UNCHANGED phoneVars
  PROVE  PhoneInv' /\ GetInv'
  BY DEF RegionInv, PhoneInv, GetInv, RegisteredIsWhole, EntryGood, Whole, v, phoneVars

LEMMA RegionInitially ==
  ASSUME DownloadInit
  PROVE  RegionInv
  <1>1. CatalogInv
    BY CatalogInitially DEF DownloadInit
  <1>2. /\ get = NoRequest /\ cat = NoEntry /\ run = NoRun /\ reg = NoEntry
        /\ target = [w \in Version |-> <<>>]
    BY DEF DownloadInit, PhoneInit
  <1>3. GetInv
    BY <1>2, GetFields DEF GetInv
  <1>4. PhoneInv
    BY <1>2, RunFields DEF PhoneInv, RegisteredIsWhole
  <1> QED  BY <1>1, <1>3, <1>4 DEF RegionInv

LEMMA RegionKeeps ==
  ASSUME RegionInv, NEW operator, [DownloadNext(operator)]_downloadVars
  PROVE  RegionInv'
  <1>1. CASE CatalogNext(operator) /\ UNCHANGED phoneVars
    BY <1>1, CatalogKeeps, PhoneSame DEF RegionInv
  <1>2. CASE ServeStep
    BY <1>2, ServeKeeps
  <1>3. CASE PhoneStep
    <2>1. UNCHANGED catalogVars
      BY <1>3 DEF PhoneStep, Begin, Request, Receive, Write, EndOfBody, Verify, Rename,
                  SaveDownloaded, RemoveTask, RemoveOld, DeleteRow, DeleteFiles
    <2> QED  BY <1>3, <2>1, PhoneStepKeeps, CatalogSame DEF RegionInv
  <1>4. CASE RefreshCatalog \/ Download \/ DeleteRegion \/ RestartApp
             \/ \E status \in {"paused", "failed"} : Interrupt(status)
    <2>1. UNCHANGED catalogVars
      BY <1>4 DEF RefreshCatalog, Download, DeleteRegion, RestartApp, Interrupt
    <2> QED  BY <1>4, <2>1, CatalogSame, RefreshCatalogKeeps, DownloadKeeps, DeletionKeeps,
                RestartAppKeeps, InterruptKeeps DEF RegionInv
  <1>5. CASE UNCHANGED downloadVars
    BY <1>5, CatalogSame, PhoneSame DEF downloadVars, RegionInv
  <1> QED  BY <1>1, <1>2, <1>3, <1>4, <1>5 DEF DownloadNext

LEMMA RegionAlways ==
  ASSUME NEW CONSTANT operator
  PROVE  RegionSpec(operator) => []RegionInv
  <1>1. DownloadInit => RegionInv
    BY RegionInitially
  <1>2. RegionInv /\ [DownloadNext(operator)]_downloadVars => RegionInv'
    BY RegionKeeps
  <1> QED  BY <1>1, <1>2, PTL DEF RegionSpec

(* Whatever is published, removed, enabled and registered at once, the row *)
(* never mixes builds, and tells the files in place once a publication     *)
(* ended well (syncFromStorage).                                           *)
THEOREM RowAlwaysOfItsFiles ==
  ASSUME NEW CONSTANT operator
  PROVE  RegionSpec(operator) => []RowIsOfItsFiles
  <1>1. ASSUME RegionInv PROVE RowIsOfItsFiles
    <2>1. VersionIsThatOfItsFile
      BY <1>1 DEF RegionInv, CatalogInv, RowGood, VersionIsThatOfItsFile
    <2>2. ASSUME Settled
          PROVE  /\ row.version = VersionOf[disk["manifest"]]
                 /\ row.sum = disk["map"] /\ row.size = SizeOf("map", disk["map"])
                 /\ SizeOf("asset", disk["manifest"]) > 0 => row.asset = disk["asset"]
      <3> DEFINE b == publisher.build
      <3>1. publisher.step = "done" /\ Restarted
        BY <2>2 DEF Settled, Restarted
      <3>2. /\ b \in Build /\ disk["map"] = b /\ disk["manifest"] = b
            /\ AssetSize[b] > 0 => disk["asset"] = b
        BY <1>1, <3>1, CatalogFacts DEF RegionInv
      <3>3. Describes(row, b)
        BY <1>1, <3>1 DEF RegionInv, CatalogInv, DoneGood
      <3>4. SizeOf("map", b) = MapSize[b] /\ SizeOf("asset", b) = AssetSize[b]
        BY <3>2, Sizes
      <3> QED  BY <3>2, <3>3, <3>4 DEF Describes
    <2> QED  BY <2>1, <2>2 DEF RowIsOfItsFiles, RowDescribesFiles
  <1> QED  BY <1>1, RegionAlways, PTL

(* A region the phone has registered is a whole build of its version, for  *)
(* files of any number of chunks (RegionDownloadManager).                  *)
THEOREM RegisteredAlwaysWhole ==
  ASSUME NEW CONSTANT operator
  PROVE  RegionSpec(operator) => []RegisteredIsWhole
  <1>1. RegionInv => RegisteredIsWhole
    BY DEF RegionInv, PhoneInv
  <1> QED  BY <1>1, RegionAlways, PTL

(* Any request the server answers gets the bytes it names of the file that *)
(* was found, and any device goes forward (http-range, region-version).    *)
THEOREM RangesAlwaysNamed ==
  ASSUME NEW CONSTANT operator
  PROVE  RegionSpec(operator) => []RangesAndVersions
  <1>1. ASSUME NEW n \in 1..3, NEW x \in [1..n -> 0..1]
        PROVE  x \in Numbers
    <2>1. x \in [1..n -> Nat] /\ n \in Nat
      OBVIOUS
    <2>2. x \in Seq(Nat) /\ Len(x) = n
      BY <2>1
    <2>3. x # <<>>
      BY <2>2
    <2> QED  BY <2>2, <2>3 DEF Numbers
  <1>2. VersionNumbers \subseteq Numbers
    BY <1>1 DEF VersionNumbers
  <1>3. UpdatesGoForward
    BY <1>2, UpdatesAlwaysForward DEF UpdatesGoForward
  <1>4. RangeHeader \subseteq Header
    BY DEF RangeHeader, Header
  <1>5. RegionInv => RangesAreNamed
    BY <1>4, RangeAlwaysNamed DEF RegionInv, GetInv, RangesAreNamed
  <1> QED  BY <1>3, <1>5, RegionAlways, PTL DEF RangesAndVersions
=============================================================================
