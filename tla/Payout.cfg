SPECIFICATION FairSpec
CONSTANTS
  a = a
  b = b
  c = c
  w1 = w1
  w2 = w2
  w3 = w3
  w4 = w4
  w5 = w5
  Mints = {a, b, c}
  Wallets = {w1, w2, w3, w4, w5}
  OffCurve = {w4}
  Totals <- SomeTotals
  Snapshotted = {a, b, c}
  Points <- SomePoints
  Pool <- PoolOfEach
  Short <- SomeShort
  Balance = 12
  MIN_PAYOUT_USDC = 2
  TRANSFERS_PER_TX = 2
  INSERT_SIZE = 4
  PENDING_LIMIT = 3
  TOTALS_LIMIT = 7
  DryRuns = {FALSE, TRUE}
  MaxFaults = 2
INVARIANTS PaidWithinPool RowsTellPayments CompletedIsThrough
PROPERTIES CompletesUndisturbed LedgerSpec
