SPECIFICATION Spec
CONSTANTS
  Parts = {"gateway", "operators", "federation", "sweep", "halting", "console", "stages", "watcher", "provision", "verdicts", "scorecard"}
  c1 = c1
  c2 = c2
  d1 = d1
  d2 = d2
  Calls = {c1, c2}
  Shapes <- MCShapes
  Postures <- MCPostures
  Tools = {"t1"}
  StoredScores <- MCStoredScores
  Samples <- MCSamples
  SampleEvery = 1
  WindowSize = 1
  BaselineWindows = 1
  Band = 1
  Cooldown = 1
  MaxStoreFaults = 1
  MaxGatewayCrashes = 1
  Documents <- MCDocuments
  Callers <- MCCallers
  Manifests <- MCManifests
  ServiceOf <- MCServiceOf
  Procs = {"ledger", "kill"}
  MaxTime = 2
  Scenes <- MCScenes
  MaxRetired = 6
  RecordWindow = 1
  RecordSlots = 1
  Ids = {1, 2, 3}
  Brokers = {c1, c2}
  Writers = {d1, d2}
  BrokerCallers = {"c1"}
  Home = "Home"
  FederationFaults = 1
  Offers <- MCOffers
  Crossings <- MCCrossings
  StoredRows <- MCStoredRows
  NormalForm <- MCNormal
  Inside <- MCInside
  Swept = {"a1"}
  Owners = {"ann", "bob"}
  Sweeps = {"s1", "s2"}
  Ticks = {"s2"}
  Reattest = 1
  Rosters <- MCRosters
  Scopes <- MCSweepScopes
  SweepBudget <- MCSweepBudget
  Bodies = {"a1", "a2"}
  Sdk = "a1"
  Threads = {"t1"}
  Kills = {"k1"}
  MaxAge = 1
  HaltTimeout = 1
  HaltBudgets <- MCHaltBudgets
  ConsoleAgents = {c1, c2}
  Domains = {d1, d2}
  Halts = {"h1"}
  Streams = {"s1", "s2"}
  MaxStreams = 1
  ConsoleMode = "enforce"
  ConsoleMaxEdits = 1
  ConsoleFaults = 1
  LiveRuns = {"r1", "r2"}
  Builds = {"b1"}
  Proofs <- MCProofs
  StageBudget <- MCStageBudget
  Watchers = {"w1", "w2"}
  Interval = 1
  Timeout = 1
  WatchMaxAge = 4
  WatchBudget <- MCWatchBudget
  Runs = {"p", "q"}
  ProvisionManifests <- MCProvisionManifests
  HeldBefore = {"none", "old"}
  ProvisionFaults = 2
  Checks = {"c1"}
  Modes = {"enforce", "log_only"}
  Requests <- MCRequests
  VerdictFaults = 3
  EstateChanges = 2
  Runners = {"none", "cmd", "process"}
  ScoreChanges = 2
  ScoreFaults = 1
INVARIANTS
  GatewaySound
  OperatorsSound
  StopsSound
  ChecksSound
  EstateSound
PROPERTIES
  StepsSound
SYMMETRY Alike
CHECK_DEADLOCK FALSE
