SPECIFICATION ServicesSpec
CONSTANTS
  a = a
  b = b
  w1 = w1
  w2 = w2
  Mints = {a, b}
  PoolMints = {a, b}
  Tokens = {a, b}
  Workers = {p1}
  Loyal = {w1}
  Visitors <- VisitorOfA
  HoldingUsd = {100}
  Days = {1, 3, 12}
  BATCH_SIZE = 1
  MAX_BACKFILL = 7
  Polls = {p1, p2}
  MaxTxs = 4
  Swaps = {2, 3}
  Shared = {3}
  Timeframes = {1, 3}
  SIG_LIMIT = 2
  MaxFaults = 2
  MaxPollFaults = 1
  Trader = trader
  Relayer = relayer
  TxFee = 1
  Estimate = 1
  Rent = 4
  MaxRows = 2
  Stamp <- Stamps
  Price <- Prices
  Forms <- SomeForms
  Opening <- OpeningReserves
  Holding <- HoldsSomeOfA
  PoolSpace = 211
  Deposit = 5
  Threshold = 3
INVARIANTS NeverOverCredited OneFaultOneTokenDay CandlesMatchTrades PlainTradesAreRight
PROPERTIES EverySwapIsStored ReadsAreOfTheField
