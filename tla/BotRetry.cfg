SPECIFICATION ScenarioSpec
CHECK_DEADLOCK FALSE
CONSTANTS
  m1 = m1
  m2 = m2
  f1 = f1
  f2 = f2
  Scenarios = {"calm"}
  Mints = {m1}
  Flows = {f1, f2}
  POOL_SIZE = 195
  AccountSize <- FaultySizes
  Accepts = {}
  PoolSol <- Sols
  BotSol = 2
  KEEP = 1
  CrashPoints <- AllAwaits
  MaxCrashes = 1
  MaxFailures = 2
  MaxCancels = 1
  MaxStrangers = 1
  CalmAccepts = {}
  CalmCrashes = 0
  CalmCancels = 0
PROPERTY CalmFailedIsRetried
