SPECIFICATION Spec
CHECK_DEADLOCK FALSE
CONSTANTS
  MaxU64 = 2147483647
  NaN = NaN
  ShareUnit = 10000
  LP_FEE_BPS = 4000
  AIRDROP_FEE_BPS = 3333
  SNIPE_BPS_1 = 150
  SNIPE_BPS_2 = 250
  SNIPE_BPS_3 = 500
  GRAD_FEE_BPS = 250
  GRAD_PROTOCOL_BPS = 2000
  GRAD_AIRDROP_BPS = 800
  GRAD_HOLDER_BPS = 1200
  alice = alice
  bob = bob
  treasury = treasury
  bot = bot
  Treasuries = {treasury, bot}
  Deployer <- DeployedByAlice
  RENT = 2
  INITIAL_SOL = 10
  GRADUATION_THRESHOLD_LAMPORTS = 2000
  DEPLOY_FEE_LAMPORTS = 1500
  DEPLOY_LP_PCT = 50
  DEPLOY_AIRDROP_PCT = 10
  Mints = {m1}
  Users = {alice, bob}
  FloatSlack = 0
  SUPPLY = 100000
  UserSol = 6000
  TreasurySol = 100
  ConfigArgs <- OneAndAHalfPercent
  AmountsOne = {65000}
  AmountsTwo = {750}
  BuyAmounts = {2000}
  SellAmounts = {600}
  Instants = {0}
  MaxSwaps = 3
  MaxPrepares = 2
  SNIPE_WINDOW_1 = 0
  SNIPE_WINDOW_2 = 0
  SNIPE_WINDOW_3 = 0
INVARIANT GlobalHoldsPoolSol
