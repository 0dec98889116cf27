CONSTANTS
  TurnBigs = {"b"}
  TurnSlivers = {"s"}
  TurnPatience = 1
  TurnStuckMax = 1
  TurnForgets = 0
  TurnLooks = 1
  TurnPanoramas = 0
  TurnSame = 0
  TurnGrowth = 0
  TurnTroubles = 1
  BooksLast = 3
  WayStalls = 2
  WayTouches = 2
  WayRefused = 2
  WayTurns = 2
  WayStand = 3
  WayCareful = 2
  WayRim = 1
  WayPlans = 1
  SweepNudge = 2
  SweepYield = 3
  HeadIdle = 1
  HeadGlance = 2
  HeadFade = 1
  HeadPause = 4
  HeadLease = 1
  GaitIters = 1
  GaitTries = 1
  GaitWalk = 3
  GaitShort = 2
  CliffMemory = 2
  CliffKeep = 3
  CliffSettle = 3
  CliffBodySettle = 1
  CliffDeadman = 1
  CliffMove = 1
  CliffRows = 4
  SearchSteps = 2
  SearchOld = 1
  StepWalks = {20}
  StepYaws = {0, 30, 70}
  StepAheads = {20, 40}
  StepAsides = {0, 15}
  StepEdges = {20}
  StepRooms = {1, 5}
  StepFrames = 1
  TeachSpots = {"p"}
  TeachPoints = {0, 1, 4}
  TeachMaps = {1, 2}
  TeachShift = 3
  TeachMerge = 1
  TeachRadii = {3}
  TeachDefault = 1
  TeachAnchors = 2
SPECIFICATION BodySpec
INVARIANTS
  BodyTypeOK
  BooksTrue
  WayTrue
  SweepStandsAside
  GaitStaysOff
  CliffTrue
  SearchTrue
  StepTrue
  TeachTrue
PROPERTIES
  BooksHoleStays
  TurnFinishes
  SweepGetsTheHead
CHECK_DEADLOCK FALSE
