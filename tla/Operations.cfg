SPECIFICATION Spec
CONSTANTS
  Parts = {"approver", "observer", "rotation", "renewal", "alerts", "lanes"}
  Asks = {"a1", "a2"}
  ApproverScenes <- MCApproverScenes
  Watched = {"sealed-ledger", "kill-switch"}
  ObserverModes = {"off", "enforce"}
  Files <- MCFiles
  MaxCount = 2
  ObserverBudgets <- MCObserverBudgets
  Creds = {1, 2, 3}
  RotationScopes <- MCScopes
  RotationBudget <- MCRotationBudget
  Tokens = {1, 2, 3}
  RenewalBudget <- MCRenewalBudget
  Senders = {"s1"}
  MaxAttempts = 2
  AlertBudget = 2
  LaneRequests = {"r1", "r2", "r3"}
  LaneKinds = {"health", "append", "events", "export", "apply"}
  LaneThreads <- MCThreads
  ReadConcurrency = 1
  MaxRequests = 3
INVARIANTS
  ApproverSound
  CredentialsSound
  NoticesAccounted
PROPERTIES
  TokensSpared
  CredentialsSettle
  AsksAnswered
  NoticesArrive
  QuickAnswered
CHECK_DEADLOCK FALSE
