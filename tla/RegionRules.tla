------------------------------ MODULE RegionRules ------------------------------
(***************************************************************************)
(* The pure rules of region downloads: the Range header of a request       *)
(* (http-range.ts) and the order of data versions (region-version.ts).     *)
(***************************************************************************)
EXTENDS Integers, Sequences, FiniteSets

(* Range: bytes=... of RFC 9110.  Header forms: "none" (absent, several    *)
(* ranges or malformed), "from" (a-), "between" (a-b) and "suffix" (-a).   *)

RangeHeader == [form : {"none", "from", "between", "suffix"}, a : 0..3, b : 0..3]
WholeFile == [type |-> "none", start |-> 0, end |-> 0]
Unsatisfiable == [type |-> "unsatisfiable", start |-> 0, end |-> 0]

Smaller(x, y) == IF x < y THEN x ELSE y

(* Mutant of parseRangeHeader: the end of a range is not cut at the end of the file. *)
UncutMutant(h, size) ==
  LET end == IF h.form = "between" THEN h.b ELSE size - 1 IN
  IF h.form = "none" THEN WholeFile
  ELSE IF h.form # "suffix" /\ (h.a >= size \/ h.a > end) THEN Unsatisfiable
  ELSE IF h.form = "suffix" /\ h.a = 0 THEN Unsatisfiable
  ELSE [type |-> "range", end |-> end,
        start |-> IF h.form = "suffix" THEN (IF size > h.a THEN size - h.a ELSE 0) ELSE h.a]

parseRangeHeader(h, size) ==
  LET start == CASE h.form = "suffix" -> IF size > h.a THEN size - h.a ELSE 0
                 [] OTHER -> h.a
      end == IF h.form = "between" THEN Smaller(h.b, size - 1) ELSE size - 1
  IN IF h.form = "none" THEN WholeFile
     ELSE IF (h.form = "suffix" /\ h.a = 0) \/ start >= size \/ start > end THEN Unsatisfiable
     ELSE [type |-> "range", start |-> start, end |-> end]

-----------------------------------------------------------------------------
(* A version is the sequence of its segments: "2026.09" is <<2026, 9>>.    *)
(* Segments that are not numbers are left out: none is ever published.     *)

Segment(version, i) == IF i \in DOMAIN version THEN version[i] ELSE 0

(* Mutant of compareVersions: segments one of them lacks are not compared. *)
PrefixMutant(left, right) ==
  LET length == Smaller(Len(left), Len(right))
      differ == {i \in 1..length : Segment(left, i) # Segment(right, i)}
      first == CHOOSE i \in differ : \A j \in differ : i <= j
  IN IF differ = {} THEN 0
     ELSE IF Segment(left, first) > Segment(right, first) THEN 1 ELSE -1

compareVersions(left, right) ==
  LET length == IF Len(left) > Len(right) THEN Len(left) ELSE Len(right)
      differ == {i \in 1..length : Segment(left, i) # Segment(right, i)}
      first == CHOOSE i \in differ : \A j \in differ : i <= j
  IN IF differ = {} THEN 0
     ELSE IF Segment(left, first) > Segment(right, first) THEN 1 ELSE -1

(* `local' is <<>> when the device did not say what it has. *)
updateAvailable(latest, local) == local # <<>> /\ compareVersions(latest, local) > 0

(* POST /maps/regions/updates: of what a device holds, the versions known. *)
checkUpdates(enabledVersion, local) ==
  [id \in DOMAIN local \cap DOMAIN enabledVersion |->
     updateAvailable(enabledVersion[id], local[id])]
=============================================================================
