SPECIFICATION MCSpec
CONSTANTS
  Names = {n1}
  Builtin = {n1}
  Ops = {o1, o2}
  Notes = {n1}
  Texts = {x1, x2}
  Titles = {h1, h2}
  Gone = Gone
  Indexers = {o1, o2}
  MaxIds = 2
  MaxQueue = 1
  Calls = {o1, o2}
  MaxTries = 2
  MaxRecent = 3
  MaxTotal = 4
  MaxRuns = 3
  Attempts = 2
  MaxStalled = 1
  Requests = {o1, o2}
  Windows = {1}
  Day = 2
  MaxNow = 1
  MaxSeeds = 2
  Scripts = {s1}
  Taps = {o1, o2}
  NoScreen = NoScreen
  MaxWords = 3
  MaxScenes = 3
  Beats = 3
  Beat = 5
  WordLengths = {1, 3}
  SceneLengths = {3, 8}
  Transitions = {0, 3}
  FrameTicks = 2
  TailTicks = 4
  MaxChars = 6
  MaxLines = 2
  Gap = 4
  Hold = 3
  TextFrames = 4
  CtaFrames = 2
  MinText = 2
  Exit = 1
  Fades = {1, 4}
  Margin = 1
INVARIANTS
  TypeOK
  ApprovedOnGrounds
  
  BookedOncePerAnswer
  CostOfRun
  VideoIsThere
  RenderAccountedFor
  DashboardAddsUp
  OwnerNotMisled
  VideoFollowsVoice
PROPERTIES
  IndexRepairs
SYMMETRY Symmetric
CHECK_DEADLOCK FALSE
