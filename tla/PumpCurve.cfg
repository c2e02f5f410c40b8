SPECIFICATION Spec
CONSTANTS
  MaxU64 = 1844674
  NaN = NaN
  ShareUnit = 10000
  LP_FEE_BPS = 4000
  AIRDROP_FEE_BPS = 3333
  SNIPE_BPS_1 = 150
  SNIPE_BPS_2 = 250
  SNIPE_BPS_3 = 500
  GRAD_FEE_BPS = 250
  GRAD_PROTOCOL_BPS = 2000
  GRAD_AIRDROP_BPS = 800
  GRAD_HOLDER_BPS = 1200
  alice = alice
  bob = bob
  treasury = treasury
  bot = bot
  Treasuries = {treasury, bot}
  Deployer <- DeployedByAlice
  RENT = 2
  INITIAL_SOL = 10
  GRADUATION_THRESHOLD_LAMPORTS = 2000
  DEPLOY_FEE_LAMPORTS = 1500
  DEPLOY_LP_PCT = 50
  DEPLOY_AIRDROP_PCT = 10
  Mints = {m1}
  Users = {alice, bob}
  FloatSlack = 0
  SUPPLY = 100000
  UserSol = 4000
  TreasurySol = 100
  SNIPE_WINDOW_1 = 120
  SNIPE_WINDOW_2 = 300
  SNIPE_WINDOW_3 = 600
  ConfigArgs <- FeesOfEveryKind
  AmountsOne = {65000}
  AmountsTwo = {0, 20000}
  BuyAmounts = {10, 20, 1000}
  SellAmounts = {700, 31000}
  Instants = {119, 120, 300, 600}
  MaxSwaps = 4
  MaxPrepares = 0
INVARIANTS GraduatedIffRaised WalletCapHolds HoldersCanExitInParts
PROPERTIES ProductNeverShrinks
CHECK_DEADLOCK FALSE
