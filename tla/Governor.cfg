CONSTANTS
  r1 = r1
  r2 = r2
  r3 = r3
  act = act
  known = known
  unknown = unknown
  alice = alice
  bob = bob
  Req = {r1, r2, r3}
  Asks <- MCAsks
  Humans = {alice, bob}
  Actions = {act}
  Models = {known, unknown}
  Priced = {known}
  InitCaps <- MCCaps
  InitLimits <- MCLimits
  InitPolicies <- MCPolicies
  InitSpend <- MCSpend
  Second = 2
  Day = 1
  CentUnits = 2
  MaxClock = 2
  MaxFaults = 1
SPECIFICATION Spec
INVARIANTS
  OneOpen
  SpendLedgered
  SpendHeeded
  RetryExact
PROPERTIES
  FirstResolverWins
CHECK_DEADLOCK FALSE
