-------------------------------- MODULE MapStyle --------------------------------
(***************************************************************************)
(* The style of the web map (nginx/html/sdk/map-style.js) and its switches *)
(* in the viewer (viewer.js): the map type (plain, satellite, relief), the *)
(* overlays and the traffic, all kept for the next visit.                  *)
(*                                                                         *)
(* A layer of the map is a copy of a template layer for a region, or one   *)
(* that the application added (`of` is Nobody's).  Paint properties are    *)
(* abstracted to whose they are: the template's or a map type's.           *)
(***************************************************************************)
EXTENDS Integers, Sequences, FiniteSets

CONSTANTS
  RegionList,   \* lists the server may publish: sequences of [id, bbox, assets]
  Template,     \* template layers, bottom first: [id, source, minzoom, maxzoom, hidden]
  MapTypes,     \* types other than "map": [asset, imagery, layers, hide, paint]
  Switched,     \* template layers of each detail that can be switched
  WorldId,
  WORLD_MAX_VISIBLE_ZOOM,
  MaxSwitch     \* changes of the switches and reloads in a behaviour

VARIABLES
  regions,       \* what the server published when the page was opened
  mapReady,      \* the map has loaded its style
  map,           \* the map: [layers, sources] and what setMapType added and changed
  mapType,       \* the type chosen
  activeLayers,  \* the details switched on
  kept,          \* localStorage: [type, layers]
  switches

styleVars == <<regions, mapReady, map, mapType, activeLayers, kept, switches>>

NoType == "map"
App == ""
Plain == "template"
NothingChanged == [hidden |-> {}, paint |-> {}]
Items(s) == {s[i] : i \in DOMAIN s}

area(b) == (b[3] - b[1]) * (b[4] - b[2])
containsBox(outer, inner) ==
  outer[1] <= inner[1] /\ outer[2] <= inner[2] /\ outer[3] >= inner[3] /\ outer[4] >= inner[4]

(* Lists are put together from their spots: triples of numbers, in lexicographic order. *)
Before(a, b) ==
  \/ a[1] < b[1]
  \/ a[1] = b[1] /\ (a[2] < b[2] \/ (a[2] = b[2] /\ a[3] < b[3]))
InOrder(F) ==
  LET place == [a \in F |-> Cardinality({b \in F : Before(b, a)}) + 1]
  IN [p \in 1..Cardinality(F) |-> CHOOSE a \in F : place[a] = p]

(* The items of a list at some of its places. *)
Selected(list, I) ==
  LET at == InOrder({<<i, 0, 0>> : i \in I}) IN [p \in DOMAIN at |-> list[at[p][1]]]

(* Mutant of widestFirst: the regions in the order published. *)
AsListedMutant(list) == list

(* A stable sort by decreasing area. *)
widestFirst(list) ==
  LET at == InOrder({<<0 - area(list[i].bbox), i, 0>> : i \in DOMAIN list})
  IN [p \in DOMAIN at |-> list[at[p][2]]]

(* Mutant of outermost: a region is drawn although the one that contains it is not the next wider. *)
NextOnlyMutant(list) ==
  LET sorted == widestFirst(list)
      inside(j) == j > 1 /\ containsBox(sorted[j - 1].bbox, sorted[j].bbox)
  IN Selected(sorted, {j \in DOMAIN sorted : ~inside(j)})

outermost(list) ==
  LET sorted == widestFirst(list)
      inside(j) == \E i \in DOMAIN sorted : i < j /\ containsBox(sorted[i].bbox, sorted[j].bbox)
  IN Selected(sorted, {j \in DOMAIN sorted : ~inside(j)})

detailed(list) == widestFirst(Selected(list, {i \in DOMAIN list : list[i].id # WorldId}))
worldOf(list) == Selected(list, {i \in DOMAIN list : list[i].id = WorldId})

(* styleForRegions: the world below, then the regions that are not inside another one. *)
tilesets(list) == worldOf(list) \o outermost(detailed(list))

OverlaySource(r) == IF "overlays" \in r.assets THEN <<r.id, "overlays">> ELSE <<r.id, "map">>
Copied(t, r) == r.id = WorldId => t.minzoom < WORLD_MAX_VISIBLE_ZOOM /\ t.source # "overlays"
Lesser(a, b) == IF a < b THEN a ELSE b
Copy(t, r) ==
  [of |-> r.id, name |-> t.id, hidden |-> t.hidden, paint |-> Plain,
   source |-> IF t.source = "overlays" THEN OverlaySource(r) ELSE <<r.id, "map">>,
   maxzoom |-> IF r.id = WorldId THEN Lesser(t.maxzoom, WORLD_MAX_VISIBLE_ZOOM) ELSE t.maxzoom]
AppLayer(name) ==
  [of |-> App, name |-> name, hidden |-> FALSE, paint |-> Plain, source |-> <<App, name>>, maxzoom |-> 24]

(* buildStyle: the copies of a layer next to each other; a layer without source is not copied. *)
CopySpots(sets) ==
  {<<i, 0, 0>> : i \in {j \in DOMAIN Template : Template[j].source = "none"}}
    \union {<<a[1], a[2], 0>> : a \in {b \in (DOMAIN Template) \X DOMAIN sets :
                                     Template[b[1]].source # "none" /\ Copied(Template[b[1]], sets[b[2]])}}
buildStyle(sets) ==
  LET at == InOrder(CopySpots(sets))
  IN [layers |-> [p \in DOMAIN at |-> IF at[p][2] = 0 THEN AppLayer(Template[at[p][1]].id)
                                       ELSE Copy(Template[at[p][1]], sets[at[p][2]])],
      sources |-> UNION {{<<r.id, "map">>, OverlaySource(r)} : r \in Items(sets)},
      type |-> NoType, added |-> {}, addedSources |-> {}, restore |-> NothingChanged]
-----------------------------------------------------------------------------
(* setMapType *)
PositionIn(name) == CHOOSE i \in DOMAIN Template : Template[i].id = name
InTemplate(name) == \E i \in DOMAIN Template : Template[i].id = name
IdOf(layer) == <<layer.of, layer.name>>

(* firstLayerFrom: the first copy of the layer named or, if the style has none, of a later one. *)
From(name, layer) ==
  layer.of # App /\ InTemplate(layer.name) /\ PositionIn(layer.name) >= PositionIn(name)
firstLayerFrom(layers, name) ==
  LET later == {i \in DOMAIN layers : From(name, layers[i])} IN
  IF later = {} THEN Len(layers) + 1 ELSE CHOOSE i \in later : \A j \in later : i <= j

(* Mutant of Restored: what a type changed stays changed. *)
NothingRestoredMutant(layers, saved) == layers

(* What was kept of a layer is put back (each of its properties is kept once, setMapType:197-207). *)
KeptOf(layer, pairs, otherwise) ==
  LET mine == {s \in pairs : s[1] = IdOf(layer)} IN IF mine = {} THEN otherwise ELSE (CHOOSE s \in mine : TRUE)[2]
Restored(layers, saved) ==
  [i \in DOMAIN layers |-> [layers[i] EXCEPT !.hidden = KeptOf(layers[i], saved.hidden, @),
                                             !.paint = KeptOf(layers[i], saved.paint, @)]]

(* Undoing the type shown: its layers and sources go, what it changed is put back. *)
Undone(m) ==
  [layers |-> Restored(Selected(m.layers, {i \in DOMAIN m.layers : IdOf(m.layers[i]) \notin m.added}), m.restore),
   sources |-> m.sources \ m.addedSources,
   type |-> NoType, added |-> {}, addedSources |-> {}, restore |-> NothingChanged]

WithData(list, spec) == Selected(list, {i \in DOMAIN list : spec.asset \in list[i].assets})
regionsDrawn(list, spec) ==
  IF spec.imagery THEN widestFirst(WithData(list, spec)) ELSE outermost(WithData(list, spec))

(* One layer of the type per region, the most detailed on top, under the layer it names and     *)
(* over what the type put there before.  A spot is a place of the map, the number of the layer  *)
(* of the type (for the layer of the map there, one more than they are) and that of the region. *)
TypeLayer(spec, r, layer) ==
  [of |-> r.id, name |-> layer.id, hidden |-> FALSE, paint |-> Plain,
   source |-> <<r.id, spec.asset>>, maxzoom |-> 24]
OnTop(spec) == Len(spec.layers) + 1
TypeSpots(layers, spec, drawn) ==
  {<<firstLayerFrom(layers, spec.layers[a[1]].before), a[1], a[2]>> : a \in (DOMAIN spec.layers) \X DOMAIN drawn}

(* Mutant of TypeSpots: the layers of the type go above everything. *)
OnTopMutant(layers, spec, drawn) ==
  {<<Len(layers) + 1, a[1], a[2]>> : a \in (DOMAIN spec.layers) \X DOMAIN drawn}

Stacked(layers, spec, drawn) ==
  LET at == InOrder({<<i, OnTop(spec), 0>> : i \in DOMAIN layers} \union TypeSpots(layers, spec, drawn))
  IN [p \in DOMAIN at |-> IF at[p][2] = OnTop(spec) THEN layers[at[p][1]]
                           ELSE TypeLayer(spec, drawn[at[p][3]], spec.layers[at[p][2]])]

(* The layers that a type hides or restyles, and what is kept to undo it. *)
Hides(spec, layer) == layer.of # App /\ layer.name \in spec.hide
Restyles(spec, layer) == layer.of # App /\ layer.name \in spec.paint
Changed(spec, type, layer) ==
  [layer EXCEPT !.hidden = @ \/ Hides(spec, layer), !.paint = IF Restyles(spec, layer) THEN type ELSE @]
Changes(spec, layers) ==
  [hidden |-> {<<IdOf(l), l.hidden>> : l \in {k \in Items(layers) : Hides(spec, k)}},
   paint |-> {<<IdOf(l), l.paint>> : l \in {k \in Items(layers) : Restyles(spec, k)}}]

Restyled(spec, type, layers) == [i \in DOMAIN layers |-> Changed(spec, type, layers[i])]

TypeIds(spec, drawn) == {<<r.id, layer.id>> : r \in Items(drawn), layer \in Items(spec.layers)}
TypeSources(spec, drawn) == {<<r.id, spec.asset>> : r \in Items(drawn)}
Typed(plain, list, type) ==
  LET spec == MapTypes[type]
      drawn == regionsDrawn(list, spec)
      stacked == Stacked(plain.layers, spec, drawn)
  IN [layers |-> Restyled(spec, type, stacked),
      sources |-> plain.sources \union TypeSources(spec, drawn),
      type |-> type,
      added |-> TypeIds(spec, drawn),
      addedSources |-> TypeSources(spec, drawn) \ plain.sources,
      restore |-> Changes(spec, stacked)]

(* The plain map is left when the type is not in the template or no region has its data. *)
Shows(list, type) ==
  type # NoType /\ type \in DOMAIN MapTypes /\ DOMAIN regionsDrawn(list, MapTypes[type]) # {}
setMapType(m, list, type) == IF Shows(list, type) THEN Typed(Undone(m), list, type) ELSE Undone(m)

(* setOverlay and TrafficLayer.setVisible: the copies of the detail's layers in every region. *)
SwitchOf(name) == {d \in DOMAIN Switched : name \in Switched[d]}
Lit(layer, on) ==
  IF layer.of # App /\ SwitchOf(layer.name) # {} THEN [layer EXCEPT !.hidden = SwitchOf(layer.name) \cap on = {}]
  ELSE layer
applyLayers(m, on) == [m EXCEPT !.layers = [i \in DOMAIN @ |-> Lit(@[i], on)]]

(* applyMapType: a type whose data is gone leaves the plain map chosen. *)
typeApplied(list, type) == IF Shows(list, type) THEN type ELSE NoType
(* What publication and style.json keep, and the style needs.  A published box is not empty       *)
(* (map-region.service.ts:167).  A template layer is hidden only if a switch shows it, and has    *)
(* one switch at most.  The layers of a type are not of the template, go under one that is, above *)
(* the background, and no type hides what has a switch.                                           *)
IsBox(b) == b \in Int \X Int \X Int \X Int /\ b[1] < b[3] /\ b[2] < b[4]
ASSUME RegionListAssumption ==
  \A list \in RegionList :
    /\ Len(list) \in Nat /\ DOMAIN list = 1..Len(list)
    /\ \A i \in DOMAIN list : list[i].id # App /\ IsBox(list[i].bbox)
    /\ \A i, j \in DOMAIN list : list[i].id = list[j].id => i = j
ASSUME TemplateAssumption ==
  /\ Len(Template) \in Nat /\ DOMAIN Template = 1..Len(Template)
  /\ \A i, j \in DOMAIN Template : Template[i].id = Template[j].id => i = j
  /\ \A i \in DOMAIN Template :
       /\ Template[i].hidden \in BOOLEAN
       /\ Template[i].hidden => SwitchOf(Template[i].id) # {}
       /\ Template[i].source = "none" => SwitchOf(Template[i].id) = {}
  /\ \A d, e \in DOMAIN Switched : d # e => Switched[d] \cap Switched[e] = {}
ASSUME MapTypesAssumption ==
  \A t \in DOMAIN MapTypes : LET spec == MapTypes[t] IN
    /\ Len(spec.layers) \in Nat /\ DOMAIN spec.layers = 1..Len(spec.layers)
    /\ \A k, l \in DOMAIN spec.layers : spec.layers[k].id = spec.layers[l].id => k = l
    /\ \A k \in DOMAIN spec.layers :
         /\ ~InTemplate(spec.layers[k].id) /\ SwitchOf(spec.layers[k].id) = {}
         /\ InTemplate(spec.layers[k].before)
         /\ \A i \in DOMAIN Template :
              Template[i].source = "none" => i < PositionIn(spec.layers[k].before)
    /\ \A name \in spec.hide : SwitchOf(name) = {}
-----------------------------------------------------------------------------
(* LayersControl.onAdd: a type kept from another visit is used if a region has its data. *)
mapTypes(list) ==
  {NoType} \union {t \in DOMAIN MapTypes : DOMAIN WithData(list, MapTypes[t]) # {}}
Opened(list) ==
  /\ regions' = list
  /\ mapReady' = FALSE
  /\ map' = buildStyle(tilesets(list))
  /\ mapType' = IF kept.type \in mapTypes(list) THEN kept.type ELSE NoType
  /\ activeLayers' = kept.layers

StyleInit ==
  /\ regions \in RegionList
  /\ mapReady = FALSE
  /\ map = buildStyle(tilesets(regions))
  /\ mapType = NoType
  /\ activeLayers = {}
  /\ kept = [type |-> NoType, layers |-> {}]
  /\ switches = 0

Switches == switches < MaxSwitch /\ switches' = switches + 1

(* 'load': the switches are applied (the layers the application adds of its own, for routes and *)
(* segments, are never touched by them: their ids name no region).                              *)
StyleLoads ==
  /\ ~mapReady
  /\ mapReady' = TRUE
  /\ mapType' = typeApplied(regions, mapType)
  /\ map' = applyLayers(setMapType(map, regions, mapType), activeLayers)
  /\ UNCHANGED <<regions, activeLayers, kept, switches>>

ChooseType(t) ==
  /\ Switches
  /\ t \in mapTypes(regions) /\ t # mapType
  /\ kept' = [kept EXCEPT !.type = t]
  /\ IF mapReady THEN mapType' = typeApplied(regions, t) /\ map' = setMapType(map, regions, t)
     ELSE mapType' = t /\ UNCHANGED map
  /\ UNCHANGED <<regions, mapReady, activeLayers>>

SwitchLayer(d) ==
  /\ Switches
  /\ activeLayers' = IF d \in activeLayers THEN activeLayers \ {d} ELSE activeLayers \union {d}
  /\ kept' = [kept EXCEPT !.layers = activeLayers']
  /\ map' = IF mapReady THEN applyLayers(map, activeLayers') ELSE map
  /\ UNCHANGED <<regions, mapReady, mapType>>

(* The page is opened again; the server may publish other regions by then. *)
Reload(list) ==
  /\ Switches
  /\ Opened(list)
  /\ UNCHANGED kept

StyleNext ==
  \/ StyleLoads
  \/ \E t \in {NoType} \union DOMAIN MapTypes : ChooseType(t)
  \/ \E d \in DOMAIN Switched : SwitchLayer(d)
  \/ \E list \in RegionList : Reload(list)
StyleSpec == StyleInit /\ [][StyleNext]_styleVars
-----------------------------------------------------------------------------
(* map-style.js:165-220.  Whatever types and details were shown before, the map is the one that *)
(* the switches of now say: nothing of another type stays, nothing it hid stays hidden, and a   *)
(* detail switched meanwhile keeps its switch.                                                  *)
TypeOf(t) == IF t = NoType THEN [asset |-> "none", imagery |-> TRUE, layers |-> <<>>, hide |-> {}, paint |-> {}]
             ELSE MapTypes[t]
Base(l) == [l EXCEPT !.hidden = FALSE, !.paint = Plain]
StyleIsOfTheSwitches ==
  mapReady =>
    LET spec == TypeOf(mapType)
        plain == buildStyle(tilesets(regions))
        drawn == IF mapType = NoType THEN <<>> ELSE regionsDrawn(regions, spec)
        base == Selected(map.layers, {i \in DOMAIN map.layers : IdOf(map.layers[i]) \notin TypeIds(spec, drawn)})
        off(l) == SwitchOf(l.name) # {} /\ SwitchOf(l.name) \cap activeLayers = {}
    IN /\ [i \in DOMAIN base |-> Base(base[i])] = [i \in DOMAIN plain.layers |-> Base(plain.layers[i])]
       /\ TypeIds(spec, drawn) \subseteq {IdOf(l) : l \in Items(map.layers)}
       /\ \A l \in Items(base) :
            /\ l.hidden <=> off(l) \/ (l.of # App /\ l.name \in spec.hide)
            /\ l.paint = IF l.of # App /\ l.name \in spec.paint THEN mapType ELSE Plain
       /\ map.sources = plain.sources \union TypeSources(spec, drawn)
       /\ \A l \in Items(map.layers) : l.of # App => l.source \in map.sources

(* map-style.js:94-131 and 146-152.  Labels stay above every fill of every region, imagery is   *)
(* above what the layer it goes before covers and under that layer and all those over it, and   *)
(* the most detailed region is on top.                                                          *)
StackIsInOrder ==
  LET layers == map.layers
      ranks == [i \in DOMAIN layers |-> IF InTemplate(layers[i].name) THEN PositionIn(layers[i].name) ELSE 0]
      before(i) == (CHOOSE l \in Items(TypeOf(map.type).layers) : l.id = layers[i].name).before
      bboxOf(id) == (CHOOSE r \in Items(regions) : r.id = id).bbox
  IN mapReady => \A i, j \in DOMAIN layers : i < j =>
       /\ ranks[i] # 0 /\ ranks[j] # 0 => ranks[i] <= ranks[j]
       /\ ranks[i] = 0 /\ ranks[j] # 0 => ranks[j] >= PositionIn(before(i))
       /\ ranks[i] # 0 /\ ranks[j] = 0 => ranks[i] < PositionIn(before(j))
       /\ layers[i].name = layers[j].name /\ WorldId \notin {layers[i].of, layers[j].of} =>
            area(bboxOf(layers[i].of)) >= area(bboxOf(layers[j].of))

(* map-style.js:72-87.  Every published region is inside one that is drawn, and nothing is      *)
(* drawn twice: no region drawn lies inside another one.                                        *)
EveryRegionIsDrawnOnce ==
  mapReady =>
  LET drawn == Items(outermost(detailed(regions)))
  IN /\ \A r \in Items(detailed(regions)) : \E d \in drawn : containsBox(d.bbox, r.bbox)
     /\ \A d, e \in drawn : d # e => ~containsBox(d.bbox, e.bbox)

(* After any sequence of map types and switches the style is the one that the same switches     *)
(* give to a new map, in the same order, with each region drawn once.                            *)
StyleIsWhole == StyleIsOfTheSwitches /\ StackIsInOrder /\ EveryRegionIsDrawnOnce
=============================================================================
