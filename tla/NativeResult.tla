----------------------------- MODULE NativeResult -----------------------------
(***************************************************************************)
(* The answer of the native router: the geometry of a route through its    *)
(* legs, the sections that are approximate, and the steps, each with its   *)
(* range of the geometry (NativeRouter.result, slice, instructions).       *)
(***************************************************************************)
EXTENDS NativeRouter

CONSTANT Artefact   \* 25 m: shorter runs within a road are digitising artefacts

(* slice: the points of an edge from one offset to another.  A point is a  *)
(* node or a place inside an edge.                                         *)
PointAt(e, offset) ==
  IF offset = 0 THEN <<-1, net.edges[e].u>>
  ELSE IF offset = Length(net, e) THEN <<-1, net.edges[e].v>> ELSE <<e, offset>>
slice(p) ==
  IF p.from <= p.to THEN [i \in 1..p.to - p.from + 1 |-> PointAt(p.edge, p.from + i - 1)]
  ELSE [i \in 1..p.from - p.to + 1 |-> PointAt(p.edge, p.from - i + 1)]

(* result: the points of the pieces, without consecutive repetitions. *)
Extend(coordinates, point) ==
  IF coordinates # <<>> /\ Last(coordinates) = point THEN coordinates ELSE Append(coordinates, point)
Geometry(pieces) == FoldLeft(LAMBDA line, p : FoldLeft(Extend, line, slice(p)), <<>>, pieces)
(* A line of fewer than two points is told as two, the second a hand's     *)
(* breadth from the first, which is that of the line or the origin asked   *)
(* for; the steps keep the ranges they were given on the line.             *)
Drawn(line) ==
  IF Len(line) >= 2 THEN line
  ELSE LET only == IF line = <<>> THEN <<-2, 0>> ELSE Head(line) IN <<only, <<-3, 0>>>>
PiecesOf(legs) == FoldLeft(LAMBDA all, l : all \o l.edges, <<>>, legs)
approximateSections(pieces) ==
  {<<MaxOf({0, Len(Geometry(SubSeq(pieces, 1, i - 1))) - 1}), Len(Geometry(SubSeq(pieces, 1, i))) - 1>> :
     i \in {j \in DOMAIN pieces : "approximate" \in net.edges[pieces[j].edge].flags}}

-----------------------------------------------------------------------------
(* instructions: runs of pieces on the same road. *)

Key(e) ==
  IF "approximate" \in net.edges[e].flags THEN "approximate"
  ELSE IF "roundabout" \in net.edges[e].flags THEN "roundabout"
  ELSE IF net.edges[e].name # "" THEN net.edges[e].name
  ELSE IF net.edges[e].class = "connector" THEN "" ELSE net.edges[e].class
Roundabout(e) == "roundabout" \in net.edges[e].flags
Exits(p) == IF Roundabout(p.edge) /\ Len(net.ent[NodeAfter(net, p)]) >= 3 THEN 1 ELSE 0
AddPiece(runs, p) ==
  LET key == Key(p.edge) IN
  IF runs # <<>> /\ (key = "" \/ key = Last(runs).key)
  THEN [runs EXCEPT ![Len(runs)].meters = @ + Travelled(p), ![Len(runs)].exits = @ + Exits(p),
                    ![Len(runs)].points = @ \o Tail(slice(p))]
  ELSE Append(runs, [key |-> IF key = "" THEN net.edges[p.edge].class ELSE key,
                     roundabout |-> Roundabout(p.edge), meters |-> Travelled(p), exits |-> Exits(p),
                     points |-> slice(p)])
RECURSIVE WithoutArtefacts(_, _)
WithoutArtefacts(runs, i) ==
  IF i >= Len(runs) THEN runs
  ELSE IF runs[i].meters < Artefact /\ runs[i - 1].key = runs[i + 1].key /\ ~runs[i].roundabout
  THEN WithoutArtefacts(
         SubSeq(runs, 1, i - 2)
           \o <<[runs[i - 1] EXCEPT !.meters = @ + runs[i].meters + runs[i + 1].meters,
                                    !.points = @ \o Tail(runs[i].points) \o Tail(runs[i + 1].points)]>>
           \o SubSeq(runs, i + 2, Len(runs)), i)
  ELSE WithoutArtefacts(runs, i + 1)
Runs(pieces) == WithoutArtefacts(FoldLeft(AddPiece, <<>>, pieces), 2)

(* locate: the first place of a point in the geometry from an index on.    *)
FromStartMutant(coordinates, point, index) ==
  LET found == {i \in 1..Len(coordinates) : coordinates[i] = point} IN
  IF found = {} THEN index ELSE MinOf(found)
locate(coordinates, point, index) ==
  LET found == {i \in index..Len(coordinates) : coordinates[i] = point} IN
  IF found = {} THEN index ELSE MinOf(found)

Maneuver(runs, i, legIndex) ==
  IF i = 1 THEN (IF legIndex = 1 THEN "DEPART" ELSE "WAYPOINT")
  ELSE IF runs[i].roundabout THEN "ROUNDABOUT_ENTER"
  ELSE IF runs[i - 1].roundabout THEN "ROUNDABOUT_EXIT"
  ELSE IF runs[i].key = "approximate" THEN "OTHER" ELSE "TURN"
instructions(legs, legIndex) ==
  LET coordinates == Geometry(PiecesOf(SubSeq(legs, 1, legIndex)))
      before == Len(Geometry(PiecesOf(SubSeq(legs, 1, legIndex - 1))))
      runs == Runs(legs[legIndex].edges)
      last == Len(coordinates)
      Add(acc, i) ==
        LET begin == locate(coordinates, runs[i].points[1], acc.index)
            end == locate(coordinates, Last(runs[i].points), acc.index) IN
        [index |-> begin,
         steps |-> Append(acc.steps, [maneuver |-> Maneuver(runs, i, legIndex), meters |-> runs[i].meters,
                                      range |-> <<begin, MaxOf({begin, end})>>])] IN
  Append(FoldLeft(Add, [index |-> MaxOf({1, before}), steps |-> <<>>], [i \in DOMAIN runs |-> i]).steps,
         [maneuver |-> IF legIndex = Len(legs) THEN "ARRIVE" ELSE "WAYPOINT", meters |-> 0,
          range |-> <<last, last>>])
Steps(legs) == FoldLeft(LAMBDA all, i : all \o instructions(legs, i), <<>>, [i \in DOMAIN legs |-> i])

-----------------------------------------------------------------------------
(* turnAngle brings the difference of two bearings into -179..180, and     *)
(* turnType names it.                                                      *)
RECURSIVE turnAngle(_)
turnAngle(angle) ==
  IF angle > 180 THEN turnAngle(angle - 360) ELSE IF angle <= -180 THEN turnAngle(angle + 360) ELSE angle
LateSharpMutant(angle) ==
  LET size == Abs(angle) IN
  IF size < 20 THEN <<"CONTINUE", "NONE">> ELSE IF size > 170 THEN <<"UTURN", "NONE">>
  ELSE <<IF size < 45 THEN "SLIGHT" ELSE IF size < 135 THEN "TURN" ELSE "SHARP",
         IF angle >= -90 THEN "RIGHT" ELSE "LEFT">>
turnType(angle) ==
  LET size == Abs(angle) IN
  IF size < 20 THEN <<"CONTINUE", "NONE">> ELSE IF size >= 170 THEN <<"UTURN", "NONE">>
  ELSE <<IF size < 45 THEN "SLIGHT" ELSE IF size < 135 THEN "TURN" ELSE "SHARP",
         IF angle > 0 THEN "RIGHT" ELSE "LEFT">>

-----------------------------------------------------------------------------
(* Properties. *)

RouteFound == IF Len(request.legs) > 1 \/ accepted = <<>> THEN accepted ELSE <<accepted[1]>>

Routed == phase = "idle" /\ RouteFound # <<>> /\ Len(RouteFound) = Len(request.legs)

(* The two legs of a stop end and begin at one place. *)
Place(snap) == PointAt(snap.edge, snap.offset)
StopsAreShared ==
  \A i \in 1..Len(request.legs) - 1 : Place(request.legs[i].to) = Place(request.legs[i + 1].from)

(* The ranges of the steps tile the line of the route, in order and to its *)
(* end, and their lengths add up to that of the route, though a later leg  *)
(* comes back over the road of an earlier one; the phone cuts the geometry *)
(* by these ranges when it reuses a saved route (instructions).  Where the *)
(* legs of a stop were snapped to different places, one segment between    *)
(* them is of no step.  A route of one point is told as two, and its steps *)
(* stay on the first.  A route whose first leg has no pieces is left out:  *)
(* the only step of such a leg is before the line (range [0, 0] here).     *)
StepsTileTheRoute ==
  Routed =>
    LET steps == Steps(RouteFound)
        line == Geometry(PiecesOf(RouteFound))
        geometry == Drawn(line) IN
    /\ Total([i \in DOMAIN steps |-> steps[i].meters]) = Total([i \in DOMAIN RouteFound |-> RouteFound[i].meters])
    /\ Len(geometry) >= 2 /\ \A i \in 1..Len(geometry) - 1 : geometry[i] # geometry[i + 1]
    /\ RouteFound[1].edges # <<>> =>
         /\ steps[1].range[1] = 1 /\ Last(steps).range[2] = Len(line)
         /\ \A i \in 1..Len(steps) - 1 :
              steps[i + 1].range[1] - steps[i].range[2] \in IF StopsAreShared THEN {0} ELSE {0, 1}

(* A turn and its mirror image are named alike, on the other side, and     *)
(* whole turns change nothing (turnAngle, turnType).                       *)
TurnsMirror(a) ==
  LET t == turnAngle(a) IN
  /\ t \in -179..180 /\ turnAngle(a + 360) = t
  /\ turnType(-t)[1] = turnType(t)[1]
  /\ turnType(-t)[2] = turnType(t)[2] <=> turnType(t)[2] = "NONE"
=============================================================================
