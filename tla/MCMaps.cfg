CONSTANTS
  HostNames = {"a"}
  HostSubmaps = 2
  HostMappers = 2
  LaneMappers = 3
  LaneFrames = 3
  LaneCap = 2
  MapperLimit = 2
  MapperPatience = 2
  MapperHeld = 2
  GraphReach = 1
  GraphSubmaps = 4
  GraphTurns = 1
  GraphMaxAge = 1
  GraphMaxTravel = 2
  GraphMinTravel = 1
  GraphJump = 1
  GraphScans = 2
  GraphGap = 1
  GraphRadius = 1
  GraphFloor = 1
  GraphBase = 0
  GraphPer = 1
  GraphCap = 1
  LedgerLines = {"0.16", "0.17"}
  LedgerPriors = {2, 6}
  LedgerSamples = {1, 9}
  LedgerKeep = 2
  LedgerMin = 2
  LedgerHold = 1
  LedgerTurns = 3
  RunNames = {"a", "b"}
  RunSpots = {0, 2}
  RunCells = {1, 2}
  RunAgree = 1
  RunAsks = 3
  RouteRows = 3
  RouteCols = 7
  RouteVaried = {8, 12}
  RouteSpots = {13, 18}
  RouteFroms = {10}
  RouteGoals = {14}
  RouteInflate = 1
  RouteTight = 0
  RouteRim = 1
  RouteRimTight = 0
  RouteYield = 2
  RouteDropKill = 1
  RouteBumpKill = 2
  RouteFree = 10
  RouteDear = 30
  RouteHug = 30
  RouteBand = 2
  RouteReach = 1
  RouteFar = 2
  RouteStray = 1
  RouteSlack = 4
  RouteMin = 2
  RouteCap = 8
  RouteBack = 1
  RouteBlock = 1
  RouteAhead = 2
  RouteOff = 1
  RouteWalksMax = 1
  ScanSide = 6
  ScanCellCm = 20
  ScanRooms = {{9, 27}}
  ScanStands = {14, 21}
  ScanYaws = {0, 1}
  ScanLegs = {19, 26}
  ScanMinFrames = 3
  ScanVotes = 2
  ScanFar = 9
  ScanFan = {14, 15, 0, 1, 2}
  ScanMinWindow = 5
  ScanPasses = 2
  ScanWindows = 2
  ScanMinBeams = 3
  ScanStride = 2
  ScanPerYaw = 2
  ScanTopK = 3
  ScanSep = 3
  ScanRefine = 1
  ScanShift = 1
  ScanKept = 1
  ScanJudged = 1
  ScanCores = {1}
  ViewRows = 7
  ViewCols = 7
  ViewWalls = {{8, 9, 10, 11, 12, 15, 19, 22, 26, 29, 33, 36, 37, 38, 39, 40, 24}, {8, 9, 10, 11, 12, 15, 19, 22, 26, 29, 33, 36, 37, 38, 39, 40, 17, 25}, {1, 9, 10, 18, 26, 21, 29, 30, 38, 46}}
  ViewHidden = {18, 23, 24, 31, 41, 0}
  ViewLeft = {23, 24, 31}
  ViewBanded = {17, 31}
  ViewStands = {16, 32}
  ViewClear = 30
  ViewLens = {40, 60}
  ViewHalves = {5, 10, 35}
  ViewRadius = 2
SPECIFICATION MapsSpec
INVARIANTS
  MapsTypeOK
  HostTrue
  LanePoseOnFrame
  MapperTrue
  GraphTrue
  LedgerTrue
  RunTrue
  RouteTrue
  ScanTrue
  MapsViewTrue
PROPERTIES
  MapperCareful
  GraphRides
  LedgerKeeps
CHECK_DEADLOCK FALSE
