----------------------------- MODULE EngineAnswers -----------------------------
(***************************************************************************)
(* What the adapters of external routing engines make of their answers     *)
(* (ValhallaRoutingProvider, OsrmRoutingProvider): the encoded shapes, the *)
(* steps with their ranges of the geometry, and the failures up to the     *)
(* status the API answers with.                                            *)
(***************************************************************************)
EXTENDS Integers, Sequences, SequencesExt

(* encodePolyline and decodePolyline: each coordinate is its difference    *)
(* with the one before, zigzag, in groups of 5 bits, the lowest first; a   *)
(* group that is not the last has bit 0x20.                                *)
Groups[v \in Nat] == IF v >= 32 THEN <<32 + (v % 32)>> \o Groups[v \div 32] ELSE <<v>>
EncodeNumber(value) == Groups[IF value < 0 THEN -2 * value - 1 ELSE 2 * value]
encodePolyline(positions) ==
  FoldLeft(LAMBDA acc, p : [out |-> acc.out \o EncodeNumber(p[2] - acc.at[2]) \o EncodeNumber(p[1] - acc.at[1]),
                            at |-> p],
           [out |-> <<>>, at |-> <<0, 0>>], positions).out

SignMutant(result) == IF result % 2 = 1 THEN -(result \div 2) ELSE result \div 2
Unzigzag(result) == IF result % 2 = 1 THEN -(result \div 2) - 1 ELSE result \div 2
(* A number ends at a group below 0x20; two numbers make a position. *)
Grouped(acc, byte) ==
  LET result == acc.result + (byte % 32) * 2 ^ acc.shift IN
  IF byte >= 32 THEN [acc EXCEPT !.result = result, !.shift = @ + 5]
  ELSE [result |-> 0, shift |-> 0, numbers |-> Append(acc.numbers, Unzigzag(result))]
decodePolyline(encoded) ==
  LET read == FoldLeft(Grouped, [result |-> 0, shift |-> 0, numbers |-> <<>>], encoded)
      n == Len(read.numbers)
      Add(line, i) ==
        LET before == IF line = <<>> THEN <<0, 0>> ELSE Last(line) IN
        Append(line, <<before[1] + read.numbers[2 * i], before[2] + read.numbers[2 * i - 1]>>) IN
  IF read.shift > 0 \/ n % 2 = 1 THEN "Invalid encoded polyline"
  ELSE FoldLeft(Add, <<>>, [i \in 1..n \div 2 |-> i])

-----------------------------------------------------------------------------
(* Valhalla: every leg has its shape and its manoeuvres, whose indices are *)
(* those of that shape, from 0.  Legs share their joint.                   *)

ARRIVAL_TYPES == {4, 5, 6}
DoubledJointMutant(acc, leg, isLastLeg) ==
  LET shape == decodePolyline(leg.shape)
      offset == Len(acc.coordinates)
      Step(m) == [maneuver |-> IF ~isLastLeg /\ m.type \in ARRIVAL_TYPES THEN "WAYPOINT" ELSE m.type,
                  range |-> <<offset + m.begin, offset + m.end>>] IN
  [coordinates |-> acc.coordinates \o (IF acc.coordinates = <<>> THEN shape ELSE Tail(shape)),
   steps |-> acc.steps \o [i \in DOMAIN leg.maneuvers |-> Step(leg.maneuvers[i])]]
ValhallaLeg(acc, leg, isLastLeg) ==
  LET shape == decodePolyline(leg.shape)
      offset == IF acc.coordinates = <<>> THEN 0 ELSE Len(acc.coordinates) - 1
      Step(m) == [maneuver |-> IF ~isLastLeg /\ m.type \in ARRIVAL_TYPES THEN "WAYPOINT" ELSE m.type,
                  range |-> <<offset + m.begin, offset + m.end>>] IN
  [coordinates |-> acc.coordinates \o (IF acc.coordinates = <<>> THEN shape ELSE Tail(shape)),
   steps |-> acc.steps \o [i \in DOMAIN leg.maneuvers |-> Step(leg.maneuvers[i])]]
ValhallaResult(legs) ==
  FoldLeft(LAMBDA acc, i : ValhallaLeg(acc, legs[i], i = Len(legs)),
           [coordinates |-> <<>>, steps |-> <<>>], [i \in DOMAIN legs |-> i])

(* OSRM: every step has its own points, shared at the joints, and one      *)
(* geometry holds the whole route; an arrival has no length.               *)
ArrivalAdvancesMutant(acc, step, last) ==
  LET length == Len(step.points) - 1
      end == IF acc.cursor + length < last THEN acc.cursor + length ELSE last IN
  [cursor |-> acc.cursor + length, ranges |-> Append(acc.ranges, <<acc.cursor, end>>)]
OsrmStep(acc, step, last) ==
  LET length == IF step.arrival THEN 0 ELSE IF step.points = <<>> THEN 0 ELSE Len(step.points) - 1
      end == IF acc.cursor + length < last THEN acc.cursor + length ELSE last IN
  [cursor |-> acc.cursor + length, ranges |-> Append(acc.ranges, <<acc.cursor, end>>)]
OsrmResult(coordinates, legs) ==
  FoldLeft(LAMBDA acc, s : OsrmStep(acc, s, Len(coordinates) - 1),
           [cursor |-> 0, ranges |-> <<>>], FoldLeft(LAMBDA all, leg : all \o leg, <<>>, legs)).ranges

-----------------------------------------------------------------------------
(* fetchJson: how a call ends.  An answer whose body does not arrive is an *)
(* error of its own.                                                       *)
Outcome == {"unreachable", "noAnswer", "noBody", "ok", "noRoute", "limit", "rejected", "serverError"}
fetchJson(outcome) ==
  CASE outcome \in {"unreachable", "noAnswer"} -> "UpstreamUnavailableError"
    [] outcome = "noBody" -> "Error"
    [] outcome = "serverError" -> "UpstreamHttpError 5xx"
    [] outcome \in {"noRoute", "limit", "rejected"} -> "UpstreamHttpError 4xx"
    [] outcome = "ok" -> "none"
(* mapError: for OSRM, "limit" is not told from other rejections. *)
mapError(outcome) ==
  LET error == fetchJson(outcome) IN
  IF error = "UpstreamHttpError 4xx"
  THEN (IF outcome = "noRoute" THEN "RouteNotFoundError" ELSE "InvalidRouteRequestError")
  ELSE IF error \in {"UpstreamHttpError 5xx", "UpstreamUnavailableError"}
  THEN "RoutingProviderUnavailableError" ELSE error
(* callProvider, and AllExceptionsFilter for any other error. *)
callProvider(error) ==
  CASE error = "none" -> [status |-> 200, code |-> "none"]
    [] error = "RouteNotFoundError" -> [status |-> 404, code |-> "ROUTE_NOT_FOUND"]
    [] error = "RoutingProfileNotSupportedError" -> [status |-> 422, code |-> "ROUTING_PROFILE_NOT_SUPPORTED"]
    [] error = "InvalidRouteRequestError" -> [status |-> 422, code |-> "ROUTE_NOT_FOUND"]
    [] error = "RoutingProviderUnavailableError" -> [status |-> 503, code |-> "ROUTING_PROVIDER_UNAVAILABLE"]
    [] OTHER -> [status |-> 500, code |-> "INTERNAL_ERROR"]

-----------------------------------------------------------------------------
(* Properties of the conversions. *)

(* A shape decodes to the positions encoded, negative ones, repeated ones  *)
(* and long jumps included, and a shape cut in the middle of a position is *)
(* refused (decodePolyline).                                               *)
ShapeSurvives(positions) ==
  LET encoded == encodePolyline(positions) IN
  /\ decodePolyline(encoded) = positions
  /\ encoded # <<>> => decodePolyline(Front(encoded)) \in
       {"Invalid encoded polyline", Front(positions)}

(* The range of a step covers, in the geometry of the whole route, the     *)
(* points its manoeuvre covers in the shape of its leg, and the last step  *)
(* ends where the route does (ValhallaRoutingProvider.toRouteResult).      *)
ManeuversKeepTheirPoints(legs) ==
  LET result == ValhallaResult(legs)
      all == FoldLeft(LAMBDA acc, leg : acc \o [i \in DOMAIN leg.maneuvers |-> <<leg.shape, leg.maneuvers[i]>>],
                      <<>>, legs) IN
  /\ \A i \in DOMAIN result.steps :
       LET range == result.steps[i].range
           m == all[i][2] IN
       /\ range[2] < Len(result.coordinates)
       /\ SubSeq(result.coordinates, range[1] + 1, range[2] + 1)
            = SubSeq(decodePolyline(all[i][1]), m.begin + 1, m.end + 1)
  /\ \A i \in 1..Len(result.coordinates) - 1 : result.coordinates[i] # result.coordinates[i + 1]

(* The same for OSRM: each step has its own points in the geometry, though *)
(* an arrival between legs has a geometry of its own that the whole does   *)
(* not repeat (OsrmRoutingProvider.toRouteResult).                         *)
StepsKeepTheirPoints(legs) ==
  LET steps == FoldLeft(LAMBDA all, leg : all \o leg, <<>>, legs)
      coordinates == FoldLeft(LAMBDA line, s : IF s.arrival THEN line
                                               ELSE IF line = <<>> THEN s.points ELSE line \o Tail(s.points),
                              <<>>, steps)
      ranges == OsrmResult(coordinates, legs) IN
  \A i \in DOMAIN steps :
    LET points == SubSeq(coordinates, ranges[i][1] + 1, ranges[i][2] + 1) IN
    IF steps[i].arrival THEN points = <<steps[i].points[1]>> ELSE points = steps[i].points
=============================================================================
