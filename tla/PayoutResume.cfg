SPECIFICATION FairSpec
CONSTANTS
  a = a
  b = b
  c = c
  w1 = w1
  w2 = w2
  w3 = w3
  w4 = w4
  w5 = w5
  Mints = {a}
  Wallets = {w1, w2, w3, w4}
  OffCurve = {w4}
  Totals <- SomeTotals
  Snapshotted = {a}
  Points <- SomePoints
  Pool <- PoolOfEach
  Short <- SomeShort
  Balance = 13
  MIN_PAYOUT_USDC = 2
  TRANSFERS_PER_TX = 2
  INSERT_SIZE = 2
  PENDING_LIMIT = 3
  TOTALS_LIMIT = 8
  DryRuns = {FALSE}
  MaxFaults = 1
PROPERTY ResumesWhenInterrupted
