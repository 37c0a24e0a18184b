------------------------------ MODULE Geofences ------------------------------
(***************************************************************************)
(* A geofence: GeofencesService over PrismaGeofenceRepository.  An update  *)
(* of the shape reads the row, merges the fields it was sent and writes    *)
(* the columns of the whole shape.                                         *)
(***************************************************************************)
EXTENDS Integers

CONSTANTS
  Editor,          \* requests handled at once
  Centre,          \* coordinates, in range
  MaxRadius,       \* MAX_RADIUS_METERS
  Ring,            \* polygons
  ValidRing,       \* those of at most MAX_POLYGON_VERTICES that PostGIS finds valid
  Nothing          \* NULL, or a field that is not sent

ASSUME GeofencesAssumption == MaxRadius \in Nat \ {0} /\ ValidRing \subseteq Ring

Radius == 0..MaxRadius + 1

VARIABLES fence, edit
fenceVars == <<fence, edit>>

(* GeofenceShape: a circle or a polygon, `area' the column PostGIS tests.  *)
Buffer(centre, radius) == <<centre, radius>>
Circle(centre, radius) ==
  [type |-> "CIRCLE", centre |-> centre, radius |-> radius, area |-> Buffer(centre, radius)]
Polygon(ring) == [type |-> "POLYGON", centre |-> Nothing, radius |-> Nothing, area |-> ring]
NoFence == [type |-> "none"]
NoShape == [type |-> Nothing, centre |-> Nothing, radius |-> Nothing, ring |-> Nothing]
Patch == [type : {"CIRCLE", "POLYGON", Nothing}, centre : Centre \cup {Nothing},
          radius : Radius \cup {Nothing}, ring : Ring \cup {Nothing}]
NoEdit == [step |-> "idle", patch |-> NoShape, shape |-> NoFence]

FencesInit == fence = NoFence /\ edit = [e \in Editor |-> NoEdit]

Or(sent, stored) == IF sent = Nothing THEN stored ELSE sent

(* mergeShape: NoFence when a field is missing. *)
mergeShape(current, patch) ==
  IF Or(patch.type, current.type) = "CIRCLE"
  THEN LET centre == Or(patch.centre, current.centre)
           radius == Or(patch.radius, current.radius) IN
       IF Nothing \in {centre, radius} THEN NoFence ELSE Circle(centre, radius)
  ELSE LET ring == Or(patch.ring, IF current.type = "POLYGON" THEN current.area ELSE Nothing) IN
       IF ring = Nothing THEN NoFence ELSE Polygon(ring)

validateShape(shape) ==
  \/ shape.type = "CIRCLE" /\ shape.radius \in 1..MaxRadius
  \/ shape.type = "POLYGON" /\ shape.area \in ValidRing

-----------------------------------------------------------------------------
(* create: the shape is validated, then inserted. *)
CreateFence(shape) ==
  /\ fence = NoFence
  /\ validateShape(shape)
  /\ fence' = shape
  /\ UNCHANGED edit

(* update: the row is read (findById), then written by another statement.  *)
ReadFence(e, patch) ==
  /\ edit[e] = NoEdit
  /\ fence # NoFence
  /\ LET shape == mergeShape(fence, patch) IN
     /\ validateShape(shape)
     /\ edit' = [edit EXCEPT ![e] = [step |-> "write", patch |-> patch, shape |-> shape]]
  /\ UNCHANGED fence

(* The columns of the shape, all of them; the row may be gone. *)
SentColumnsMutant(e) ==
  /\ edit[e].step = "write"
  /\ fence' = IF fence = NoFence THEN NoFence
              ELSE [type |-> edit[e].shape.type,
                    centre |-> Or(edit[e].patch.centre, fence.centre),
                    radius |-> Or(edit[e].patch.radius, fence.radius),
                    area |-> edit[e].shape.area]
  /\ edit' = [edit EXCEPT ![e] = NoEdit]
WriteFence(e) ==
  /\ edit[e].step = "write"
  /\ fence' = IF fence = NoFence THEN NoFence ELSE edit[e].shape
  /\ edit' = [edit EXCEPT ![e] = NoEdit]

DeleteFence ==
  /\ fence # NoFence
  /\ fence' = NoFence
  /\ UNCHANGED edit

Shape == {Circle(c, r) : c \in Centre, r \in Radius} \cup {Polygon(p) : p \in Ring}
FencesNext ==
  \/ \E shape \in Shape : CreateFence(shape)
  \/ \E e \in Editor : WriteFence(e) \/ \E patch \in Patch \ {NoShape} : ReadFence(e, patch)
  \/ DeleteFence

FencesSpec == FencesInit /\ [][FencesNext]_fenceVars

(* The area a point is tested against is that of the centre and radius the *)
(* geofence shows, or the polygon it was given, and valid, whatever        *)
(* partial updates overlap (GeofencesService.update, shapeSql).            *)
FenceIsWhole ==
  fence # NoFence =>
    /\ fence.type = "CIRCLE" =>
         fence.radius \in 1..MaxRadius /\ fence.area = Buffer(fence.centre, fence.radius)
    /\ fence.type = "POLYGON" =>
         fence.centre = Nothing /\ fence.radius = Nothing /\ fence.area \in ValidRing
=============================================================================
