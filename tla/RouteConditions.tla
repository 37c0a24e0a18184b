---------------------------- MODULE RouteConditions ----------------------------
(***************************************************************************)
(* What a calculated route is told besides its geometry: the delay of the  *)
(* traffic observed along it and the climate zones it crosses              *)
(* (RouteConditionsService).  The zones are of a file that the pipeline    *)
(* replaces and that is kept in memory until its mtime changes; every      *)
(* await is the end of a step.  Positions are on an integer grid.          *)
(***************************************************************************)
EXTENDS Integers, Sequences, SequencesExt, FiniteSets

CONSTANTS
  ClimateSamples,   \* 150: positions looked at along a route, about
  MaxTold,          \* 20: zones told
  Evaluation,       \* routes evaluated at a time
  Routes,           \* routes evaluated: [meters, seconds, positions]
  TrafficRows,      \* what trips say of a route: [speed in km/h, samples, trips]
  Climates,         \* contents of the climate file: [kind, zones]
  MaxClimate        \* bound: contents that follow each other in the file

Position == Int \X Int
IsZone(zone) == zone.max \in Nat /\ \A rings \in zone.polygons : rings \in Seq(Seq(Position))

ASSUME RouteConditionsAssumption ==
  /\ ClimateSamples \in Nat \ {0} /\ MaxTold \in Nat \ {0}
  /\ \A r \in Routes : r.meters \in Nat /\ r.seconds \in Nat /\ r.positions \in Seq(Position)
  /\ \A row \in TrafficRows : row.speed \in Nat
  /\ \A f \in Climates :
       /\ f.kind \in {"zones", "missing", "damaged"}
       /\ Len(f.zones) \in Nat /\ DOMAIN f.zones = 1..Len(f.zones) /\ \A i \in DOMAIN f.zones : IsZone(f.zones[i])

VARIABLES
  climateFiles,   \* the contents that the file had; its mtime is their number
  climate,        \* RouteConditionsService.climate; no mtime before a first load
  evaluations

conditionVars == <<climateFiles, climate, evaluations>>

-----------------------------------------------------------------------------
(* evaluate: observed and expected speed in km/h; without observations, or *)
(* when they are not slower, the duration stays.  adjusted rounds to the   *)
(* nearest second.                                                         *)
Smaller(a, b) == IF a <= b THEN a ELSE b
Rounded(numerator, denominator) == (2 * numerator + denominator) \div (2 * denominator)
UncappedMutant(meters, seconds, observed) ==
  IF observed = 0 \/ seconds = 0 \/ 36 * meters <= 10 * observed * seconds THEN seconds
  ELSE Rounded(36 * meters, 10 * observed)
adjusted(meters, seconds, observed) ==
  IF observed = 0 \/ seconds = 0 \/ 36 * meters <= 10 * observed * seconds THEN seconds
  ELSE Smaller(Rounded(36 * meters, 10 * observed), Rounded(5 * seconds, 2))
delaySeconds(meters, seconds, observed) ==
  LET delay == adjusted(meters, seconds, observed) - seconds IN IF delay > 0 THEN delay ELSE 0

(* traffic: too few fixes along the route in the last 15 minutes, or of    *)
(* too few trips, are no observation.                                      *)
averageSpeed(row) == IF row.samples >= 5 /\ row.trips >= 3 THEN row.speed ELSE 0

-----------------------------------------------------------------------------
(* insideRing: crossings of the ray to the right, an edge holding its      *)
(* lower end and not its upper one.                                        *)
CrossesMutant(p, a, b) ==
  /\ (a[2] >= p[2]) # (b[2] > p[2])
  /\ IF b[2] > a[2] THEN (p[1] - a[1]) * (b[2] - a[2]) < (b[1] - a[1]) * (p[2] - a[2])
     ELSE (p[1] - a[1]) * (b[2] - a[2]) > (b[1] - a[1]) * (p[2] - a[2])
Crosses(p, a, b) ==
  /\ (a[2] > p[2]) # (b[2] > p[2])
  /\ IF b[2] > a[2] THEN (p[1] - a[1]) * (b[2] - a[2]) < (b[1] - a[1]) * (p[2] - a[2])
     ELSE (p[1] - a[1]) * (b[2] - a[2]) > (b[1] - a[1]) * (p[2] - a[2])
insideRing(p, ring) ==
  Cardinality({i \in DOMAIN ring : Crosses(p, ring[i], ring[IF i = 1 THEN Len(ring) ELSE i - 1])}) % 2 = 1
insidePolygon(p, rings) ==
  /\ rings # <<>> /\ insideRing(p, rings[1])
  /\ \A i \in 2..Len(rings) : ~insideRing(p, rings[i])
insideBbox(p, zone) ==
  LET corners == UNION {UNION {Range(rings[i]) : i \in DOMAIN rings} : rings \in zone.polygons} IN
  /\ \E a, b \in corners : a[1] <= p[1] /\ p[1] <= b[1]
  /\ \E a, b \in corners : a[2] <= p[2] /\ p[2] <= b[2]
Covers(zone, p) == insideBbox(p, zone) /\ \E rings \in zone.polygons : insidePolygon(p, rings)

(* climateAlong: the zones found at one of the positions looked at, those  *)
(* of one range, whose millimetres are written in it, and district once;   *)
(* the wettest first and, of those equally wet, the one found first.       *)
Stride(positions) == LET wide == Len(positions) \div ClimateSamples IN IF wide > 1 THEN wide ELSE 1
Strided(positions) == {i \in DOMAIN positions : (i - 1) % Stride(positions) = 0}
RareMutant(positions) ==
  LET stride == 1 + Len(positions) \div ClimateSamples IN {i \in DOMAIN positions : i % stride = 0}
LookedAt(positions) == Strided(positions)

Summary(zone) == [range |-> zone.range, district |-> zone.district, max |-> zone.max]
Earlier(a, b) == a[1] < b[1] \/ (a[1] = b[1] /\ a[2] < b[2])
FirstFound(positions, zones) ==
  LET found == {a \in LookedAt(positions) \X DOMAIN zones : Covers(zones[a[2]], positions[a[1]])} IN
  {a \in found : \A b \in found : Summary(zones[b[2]]) = Summary(zones[a[2]]) => ~Earlier(b, a)}
Ahead(zones, a, b) ==
  \/ zones[a[2]].max > zones[b[2]].max
  \/ zones[a[2]].max = zones[b[2]].max /\ Earlier(a, b)
climateAlong(positions, zones) ==
  LET found == FirstFound(positions, zones)
      place(a) == Cardinality({b \in found : Ahead(zones, b, a)}) + 1 IN
  [p \in 1..Smaller(Cardinality(found), MaxTold) |-> Summary(zones[(CHOOSE a \in found : place(a) = p)[2]])]

-----------------------------------------------------------------------------
(* A route is evaluated; loadClimate begins with the stat of the file.     *)

NotAsked == [pc |-> "idle"]
NoClimate == [status |-> "unavailable", zones |-> <<>>]
ClimateTold(route, zones) ==
  IF zones = <<>> THEN NoClimate
  ELSE [status |-> "climatology", zones |-> climateAlong(route.positions, zones)]

Evaluates(e, evaluation) == evaluations' = [evaluations EXCEPT ![e] = evaluation]
Tells(e, told) == Evaluates(e, [evaluations[e] EXCEPT !.pc = "told", !.told = told])
InPlace == climateFiles[Len(climateFiles)]

EvaluateRoute(e, route) ==
  /\ evaluations[e].pc \in {"idle", "answered"}
  /\ Evaluates(e, [pc |-> "stat", route |-> route, since |-> Len(climateFiles), mtime |-> 0, read |-> <<>>,
                   told |-> NoClimate, speed |-> 0, adjusted |-> 0, delay |-> 0])
  /\ UNCHANGED <<climateFiles, climate>>

StatClimate(e) ==
  /\ evaluations[e].pc = "stat"
  /\ IF InPlace.kind = "missing" THEN Tells(e, NoClimate)
     ELSE Evaluates(e, [evaluations[e] EXCEPT !.pc = "look", !.mtime = Len(climateFiles)])
  /\ UNCHANGED <<climateFiles, climate>>

(* What is in memory is used when it is of the mtime just read. *)
AnyMutant(mtime) == climate.mtime # 0
IsKept(mtime) == climate.mtime = mtime
LookAtClimate(e) ==
  /\ evaluations[e].pc = "look"
  /\ IF IsKept(evaluations[e].mtime) THEN Tells(e, ClimateTold(evaluations[e].route, climate.zones))
     ELSE Evaluates(e, [evaluations[e] EXCEPT !.pc = "read"])
  /\ UNCHANGED <<climateFiles, climate>>

ReadClimate(e) ==
  /\ evaluations[e].pc = "read"
  /\ IF InPlace.kind # "zones" THEN Tells(e, NoClimate)
     ELSE Evaluates(e, [evaluations[e] EXCEPT !.pc = "keep", !.read = InPlace.zones])
  /\ UNCHANGED <<climateFiles, climate>>

KeepClimate(e) ==
  /\ evaluations[e].pc = "keep"
  /\ climate' = [mtime |-> evaluations[e].mtime, zones |-> evaluations[e].read]
  /\ Tells(e, ClimateTold(evaluations[e].route, evaluations[e].read))
  /\ UNCHANGED climateFiles

(* evaluate goes on when the query of the traffic has answered too; one    *)
(* that fails is a row without observations.                               *)
AnswerConditions(e, row) ==
  LET route == evaluations[e].route
      speed == averageSpeed(row) IN
  /\ evaluations[e].pc = "told"
  /\ Evaluates(e, [evaluations[e] EXCEPT !.pc = "answered", !.speed = speed,
                     !.adjusted = adjusted(route.meters, route.seconds, speed),
                     !.delay = delaySeconds(route.meters, route.seconds, speed)])
  /\ UNCHANGED <<climateFiles, climate>>

(* The pipeline writes the file anew, or removes it. *)
PublishClimate ==
  /\ Len(climateFiles) < MaxClimate
  /\ \E file \in Climates : climateFiles' = Append(climateFiles, file)
  /\ UNCHANGED <<climate, evaluations>>

ConditionsInit ==
  /\ climateFiles \in {<<file>> : file \in Climates}
  /\ climate = [mtime |-> 0, zones |-> <<>>]
  /\ evaluations = [e \in Evaluation |-> NotAsked]

ConditionsNext ==
  \/ \E e \in Evaluation :
       \/ \E route \in Routes : EvaluateRoute(e, route)
       \/ StatClimate(e) \/ LookAtClimate(e) \/ ReadClimate(e) \/ KeepClimate(e)
       \/ \E row \in TrafficRows : AnswerConditions(e, row)
  \/ PublishClimate

ConditionsSpec == ConditionsInit /\ [][ConditionsNext]_conditionVars

-----------------------------------------------------------------------------
(* Properties. *)

Evaluated == {e \in Evaluation : evaluations[e].pc = "answered"}

(* Slower traffic never makes a route shorter, nor more than two and a     *)
(* half times as long, and the delay told is the one added (evaluate).     *)
(* An average of 0 adds no delay.                                          *)
DelaysAreBounded ==
  /\ \A e \in Evaluated : LET x == evaluations[e] IN
       /\ x.route.seconds + x.delay = x.adjusted /\ x.delay >= 0
       /\ 2 * x.adjusted <= 5 * x.route.seconds + 1
  /\ \A e, f \in Evaluated : LET x == evaluations[e]
                                y == evaluations[f] IN
       /\ x.route.meters = y.route.meters /\ x.route.seconds = y.route.seconds
       /\ 0 < x.speed /\ x.speed <= y.speed
       => x.adjusted >= y.adjusted

(* Strictly inside and strictly outside of a triangle, whichever way its   *)
(* ring goes; as everywhere in GeoJSON, the ring ends where it began.      *)
Side(p, a, b) == (b[1] - a[1]) * (p[2] - a[2]) - (b[2] - a[2]) * (p[1] - a[1])
IsTriangle(rings) ==
  Len(rings) = 1 /\ Len(rings[1]) = 4 /\ rings[1][4] = rings[1][1] /\ Side(rings[1][1], rings[1][2], rings[1][3]) # 0
Sides(p, r) == {Side(p, r[1], r[2]), Side(p, r[2], r[3]), Side(p, r[3], r[1])}
OnOneSide(p, r) == (\A s \in Sides(p, r) : s > 0) \/ (\A s \in Sides(p, r) : s < 0)
IsIn(p, zone) == \E rings \in zone.polygons : IsTriangle(rings) /\ OnOneSide(p, rings[1])
IsOut(p, zone) ==
  \A rings \in zone.polygons : IsTriangle(rings) /\ 0 \notin Sides(p, rings[1]) /\ ~OnOneSide(p, rings[1])

(* A zone that a route stays inside for as many positions as two of those  *)
(* looked at are apart is told, unless as many as can be told are as wet;  *)
(* no zone is told twice, or of a route that stays outside of it           *)
(* (climateAlong, insideRing).                                             *)
IsToldOf(route, file, told) ==
  LET positions == route.positions
      long == Stride(positions) IN
  IF told.status = "unavailable" THEN file.kind # "zones" \/ file.zones = <<>>
  ELSE
    /\ file.kind = "zones" /\ Len(told.zones) <= MaxTold
    /\ \A i, j \in DOMAIN told.zones : i < j => told.zones[i].max >= told.zones[j].max /\ told.zones[i] # told.zones[j]
    /\ \A z \in DOMAIN file.zones, i \in 1..Len(positions) - long + 1 :
         (\A k \in i..i + long - 1 : IsIn(positions[k], file.zones[z])) =>
            \/ \E j \in DOMAIN told.zones : told.zones[j] = Summary(file.zones[z])
            \/ Len(told.zones) = MaxTold /\ \A j \in DOMAIN told.zones : told.zones[j].max >= file.zones[z].max
    /\ \A j \in DOMAIN told.zones : \E z \in DOMAIN file.zones, k \in DOMAIN positions :
         told.zones[j] = Summary(file.zones[z]) /\ ~IsOut(positions[k], file.zones[z])

(* The zones told are those of a file that was in place since the route    *)
(* was asked about: never of one replaced before (loadClimate).            *)
ClimateIsCurrent ==
  \A e \in Evaluated : \E v \in evaluations[e].since..Len(climateFiles) :
    IsToldOf(evaluations[e].route, climateFiles[v], evaluations[e].told)

(* What is added to a route is bounded by what was measured, and tells     *)
(* every zone of rain that the route stays in, as the file has it.         *)
ConditionsAreBounded == DelaysAreBounded /\ ClimateIsCurrent
=============================================================================
