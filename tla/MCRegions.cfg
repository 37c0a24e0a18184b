SPECIFICATION LiveSpec
CONSTANTS
  Build = {1, 2, 3, 4}
  VersionOf <- MCVersionOf
  MapSize <- MCMapSize
  AssetSize <- MCAssetSize
  RoutingSize <- MCRoutingSize
  Process = {"backend", "cli"}
  Scene = {"resume", "shrink", "upgrade", "withdraw", "rebuild", "force", "enable", "remove", "routing"}
INVARIANTS
  RowIsOfItsFiles
  RegisteredIsWhole
  RangesAndVersions
PROPERTIES
  DownloadEnds
