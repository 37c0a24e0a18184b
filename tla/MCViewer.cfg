CHECK_DEADLOCK FALSE
SPECIFICATION Spec
CONSTANTS
  Part = {"directions", "choices", "search", "moves", "traffic", "style"}
  Spot = {"x", "y"}
  Profile = {"CAR", "BICYCLE"}
  MAX_POINTS = 3
  MaxGesture = 4
  MaxStop = 4
  MaxNaming = 2
  MaxAsked = 2
  InputBox = {"b1", "b2"}
  Query = {"ab", "abc", "abd"}
  NoQuery = "none"
  Size <- MCSize
  Found <- MCFound
  Centre = {1, 2}
  SEARCH_MIN_LENGTH = 3
  MaxSearches = 2
  City = {"c1", "c2"}
  TooWide = "wide"
  MaxMove = 4
  MaxFailure = 1
  RegionList <- MCRegionList
  Template <- MCTemplate
  MapTypes <- MCMapTypes
  Switched <- MCSwitched
  WorldId = "world"
  WORLD_MAX_VISIBLE_ZOOM = 8
  MaxSwitch = 5
INVARIANTS
  RoutesAreOfTheTrip
  NamesAreOfTheirPoints
  StopsAreInStep
  SuggestionsAreOfTheText
  LayersSpeakTrue
  StyleIsWhole
PROPERTIES
  TrafficCatchesUp
