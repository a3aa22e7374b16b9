SPECIFICATION Spec
CONSTANTS
  Parts = {"witness", "bundle", "sealing", "ledgercli", "replay", "boardpack", "packfile", "regwatch"}
  c1 = c1
  c2 = c2
  k1 = k1
  k2 = k2
  AnchorKeys = {"k1"}
  AnchorRuns = {"r1", "r2"}
  MaxLength = 3
  WitnessBudgets <- MCWitnessBudgets
  Agents = {c1, c2}
  MaxEvents = 4
  Times = {1}
  MaxDamage = 1
  Appends = {c1, c2}
  CallerIds = {"kill-switch"}
  CallerKeys = {k1, k2}
  SignKeys = {"s1"}
  SealingSettings <- MCSettings
  MaxChanges = 1
  Cmds = {c1, c2}
  Orders <- MCOrders
  Closed = 1
  MaxSegs = 3
  CliFaults = 1
  CliMaxEdits = 1
  Grants = {c1, c2}
  Windows <- MCWindows
  ReplayCap = 2
  Lifetime = 2
  MaxClock = 4
  MaxArchives = 2
  ReplayFaults = 1
  PackRequests <- MCPackRequests
  Quarter <- MCQuarter
  Written <- MCWritten
  PackMaxEvents = 3
  PackMaxArchives = 1
  PackFaults = 2
  PackMaxBoth = 4
  Renders = {"r1", "r2"}
  Keys = {"k1"}
  EstateKeys = {"k1", "bad", "unset"}
  Signers = {"", "ann"}
  MaxPacks = 2
  FileFaults = 1
  MaxEdits = 1
  Frameworks = {"eu"}
  Urls = {"elu", "mir"}
  Tiers <- MCTiers
  Texts = {"v1", "v2", "short"}
  Shortened = {"short"}
  NoReadings = {"challenge"}
  CorpusServed = {"s"}
  Typed = {"c"}
  MaxRuns = 3
  MaxPageEdits = 1
  RegwatchFaults = 1
INVARIANTS
  EvidenceSound
  OperatorsToldTrue
  ReportsSound
PROPERTIES
  NothingForgotten
SYMMETRY Alike
CHECK_DEADLOCK FALSE
