CHECK_DEADLOCK FALSE
SPECIFICATION Spec
CONSTANTS
  Part = {"routes"}
  Account = {"a1"}
  NoAccount = "none"
  MaxToken = 3
  Writer = {"d1"}
  MaxRoute = 2
  MaxWrite = 3
  MaxClock = 2
  Longest = 1
  Overlap = 1
  PageLimit = 1
  MaxPages = 1
  Owner = {"u1", "u2"}
  Nobody = "nobody"
  Client = {"c1", "c2"}
  MaxFix = 2
  Editor = {"e1", "e2"}
  Centre = {"x", "y"}
  MaxRadius = 1
  Ring = {square, bowtie}
  ValidRing = {square}
  Nothing = null
  CellSize = 2
  Networks <- MCNetworks
  Queries <- MCQueries
  MaxStamp = 4
  FirstStamp = 0
  MaxRequest = 2
  Delay = 1
  PenaltyFactor = 2
  StretchPercent = 145
  SharedPercent = 70
  Artefact = 2
  Caller = {c1, c2}
  MaxQuestion = 2
  MaxVersion = 3
  Unreadable = {2}
  MaxHour = 1
  Roads <- MCRoads_
  Report <- MCReport
  FreeFlow <- MCFreeFlow
  MIN_SAMPLES = 2
  MIN_TRIPS = 2
  MIN_TYPICAL_TRIPS = 2
  ClimateSamples = 3
  MaxTold = 2
  Evaluation = {e1, e2}
  Routes <- MCRoutes
  TrafficRows <- MCTrafficRows
  Climates <- MCClimates
  MaxClimate = 2
  SOFT_WORDS <- MCNoWords
  SingularOf <- MCSingularOf
  MaxPrefix = 4
  GRID = 2
  BIG_CITY_POPULATION = 5
  SAME_PLACE_METERS = 3
  PREFERRED_PLACE_METERS = 20
  Crossing <- MCCrossing
  REVERSE_STREET_METERS = 1
  REVERSE_POI_METERS = 1
  REVERSE_PLACE_METERS = 3
  Searcher = {s1, s2}
  MaxSearch = 2
  MaxRelease = 2
  BadFile = {2}
  MaxMinute = 2
  RECHECK = 1
  DEGRADED = 1
INVARIANTS
  FeedIsFollowed
