-------------------------------- MODULE Pump --------------------------------
(***************************************************************************)
(* The pump program: the instructions of programs/pump that move SOL and   *)
(* tokens.  One action is one successful transaction holding one           *)
(* instruction; a transaction that fails changes nothing and is no step.   *)
(*                                                                         *)
(* Accounts.  One system account, the "global" PDA, holds the SOL of every *)
(* pool (globalSol); each mint has a pool record, a vault (the global      *)
(* PDA's token account) and a migration escrow (SOL and tokens).  Wallets  *)
(* hold SOL (sol) and tokens (tok).                                        *)
(*                                                                         *)
(* Left out: fields no instruction reads (token_one, token_two, bump,      *)
(* creator), fields no instruction writes (meteora_pool stays at its       *)
(* default, so its two guards always pass; migration_complete), the rent   *)
(* of program and token accounts, and transaction fees.                    *)
(***************************************************************************)
EXTENDS Curve, FiniteSets, Functions

CONSTANTS
  Mints, Users, Treasuries,
  Deployer,                   \* who holds the whole supply of a mint at first
  SUPPLY,                     \* mint.supply
  UserSol, TreasurySol,       \* SOL a wallet starts with
  RENT,                       \* Rent::minimum_balance(0)
  INITIAL_SOL,                \* SOL initialize sends to the global PDA
  GRADUATION_THRESHOLD_LAMPORTS,
  DEPLOY_FEE_LAMPORTS, DEPLOY_LP_PCT, DEPLOY_AIRDROP_PCT,
  ConfigArgs,                 \* arguments initialize is called with
  AmountsOne, AmountsTwo,     \* arguments of add_liquidity
  BuyAmounts, SellAmounts,    \* arguments of swap
  Instants,                   \* readings of the clock
  MaxSwaps, MaxPrepares       \* bounds on the number of swaps, preparations

Wallets == Users \cup Treasuries

ConfigRecords ==
  [fees : Int \cup {NaN}, protocol_wallet : Treasuries,
   airdrop_wallet : Treasuries, migration_authority : Treasuries]

ASSUME ActorAssumption ==
  /\ Treasuries # {}
  /\ Users \cap Treasuries = {}
  /\ Deployer \in [Mints -> Users]

ASSUME AmountAssumption ==
  /\ {SUPPLY, UserSol, TreasurySol, RENT, INITIAL_SOL} \subseteq Nat
  /\ DEPLOY_FEE_LAMPORTS \in Nat
  /\ DEPLOY_LP_PCT \in 1..100 /\ DEPLOY_AIRDROP_PCT \in 0..100
  /\ GRADUATION_THRESHOLD_LAMPORTS \in 1..MaxU64
  /\ AmountsOne \subseteq Nat /\ AmountsTwo \subseteq Nat
  /\ BuyAmounts \subseteq Nat /\ SellAmounts \subseteq Nat

ASSUME ArgumentAssumption ==
  /\ ConfigArgs \subseteq ConfigRecords
  /\ Instants \subseteq Nat
  /\ MaxSwaps \in Nat /\ MaxPrepares \in Nat

VARIABLES
  now,         \* Clock::unix_timestamp
  config,      \* CurveConfiguration
  pool,        \* LiquidityPool of each mint
  shares,      \* LiquidityProvider.shares of each mint and user
  sol,         \* lamports of the wallets
  globalSol,   \* lamports of the global PDA
  escrowSol,   \* lamports of each migration escrow
  tok,         \* tokens of the wallets
  vault,       \* tokens in the pool's token account
  escrowTok,   \* tokens in the escrow's token account
  \* History, read by the properties and by the bounds only:
  backing,     \* lamports each pool has put into the global PDA, net
  claimed,     \* lamports its deploy claimed beyond the fee it paid
  prepares,    \* successful prepare_migration calls
  swaps        \* successful swaps

chain == <<now, config, pool, shares, sol, globalSol, escrowSol, tok, vault,
           escrowTok>>

vars == <<chain, backing, claimed, prepares, swaps>>

-----------------------------------------------------------------------------
(***************************************************************************)
(* Accounts that do not exist yet.                                         *)
(***************************************************************************)
NoConfig ==
  LET w == CHOOSE t \in Treasuries : TRUE
  IN [exists |-> FALSE, fees |-> 0, protocol_wallet |-> w,
      airdrop_wallet |-> w, migration_authority |-> w]

NoPool ==
  [exists |-> FALSE, reserve_one |-> 0, reserve_two |-> 0, total_supply |-> 0,
   launch_timestamp |-> 0, graduated |-> FALSE, total_sol_raised |-> 0,
   airdrop_pool |-> 0, graduation_ts |-> 0]

Init ==
  /\ now = 0
  /\ config = NoConfig
  /\ pool = [m \in Mints |-> NoPool]
  /\ shares = [m \in Mints |-> [u \in Users |-> 0]]
  /\ sol = [w \in Wallets |-> IF w \in Users THEN UserSol ELSE TreasurySol]
  /\ globalSol = 0
  /\ escrowSol = [m \in Mints |-> 0]
  /\ tok = [m \in Mints |->
              [w \in Wallets |-> IF w = Deployer[m] THEN SUPPLY ELSE 0]]
  /\ vault = [m \in Mints |-> 0]
  /\ escrowTok = [m \in Mints |-> 0]
  /\ backing = [m \in Mints |-> 0]
  /\ claimed = [m \in Mints |-> 0]
  /\ prepares = [m \in Mints |-> 0]
  /\ swaps = 0

(***************************************************************************)
(* The system program: a transaction may not leave an account with fewer   *)
(* lamports than its rent unless it leaves it with none.                   *)
(***************************************************************************)
RentExempt(lamports) == lamports = 0 \/ lamports >= RENT

CanSend_Saturating(balance, amount) ==
  RentExempt(Saturating_sub(balance, amount))

CanSend(balance, amount) == amount <= balance /\ RentExempt(balance - amount)

Credit(balances, w, amount) == [balances EXCEPT ![w] = @ + amount]

Debit(balances, w, amount) == [balances EXCEPT ![w] = @ - amount]

-----------------------------------------------------------------------------
(***************************************************************************)
(* initialize, once: NaN passes the range check.  The code drops the       *)
(* result of the transfer, but a failed cross-program call aborts it all.  *)
(***************************************************************************)
Initialize(admin, args) ==
  /\ ~config.exists
  /\ args.fees \in ValidFees
  /\ CanSend(sol[admin], INITIAL_SOL)
  /\ RentExempt(globalSol + INITIAL_SOL)
  /\ sol' = Debit(sol, admin, INITIAL_SOL)
  /\ globalSol' = globalSol + INITIAL_SOL
  /\ config' = [exists |-> TRUE, fees |-> args.fees,
                protocol_wallet |-> args.protocol_wallet,
                airdrop_wallet |-> args.airdrop_wallet,
                migration_authority |-> args.migration_authority]
  /\ UNCHANGED <<now, pool, shares, escrowSol, tok, vault, escrowTok, backing,
                 claimed, prepares, swaps>>

(***************************************************************************)
(* add_liquidity opens the pool.  The reserve of SOL is credited with      *)
(* amount_two and half of the deploy fee, the global PDA with the deploy   *)
(* fee: amount_two itself, any u64 the caller likes, is never transferred. *)
(***************************************************************************)
LpPortion == (DEPLOY_FEE_LAMPORTS * DEPLOY_LP_PCT) \div 100

AirdropPortion == (DEPLOY_FEE_LAMPORTS * DEPLOY_AIRDROP_PCT) \div 100

Deposit(amountTwo) == amountTwo + LpPortion

AddLiquidity(m, u, amountOne, amountTwo) ==
  /\ ~pool[m].exists
  /\ Deposit(amountTwo) <= MaxU64 /\ amountOne <= MaxU64
  /\ CanSend(sol[u], DEPLOY_FEE_LAMPORTS)
  /\ RentExempt(globalSol + DEPLOY_FEE_LAMPORTS)
  /\ amountOne <= tok[m][u]
  /\ \E s \in InitialShares(amountOne, Deposit(amountTwo)) :
       /\ s > 0
       /\ shares' = [shares EXCEPT ![m][u] = @ + s]
       /\ pool' = [pool EXCEPT ![m] =
            [exists |-> TRUE, reserve_one |-> amountOne,
             reserve_two |-> Deposit(amountTwo), total_supply |-> s,
             launch_timestamp |-> now, graduated |-> FALSE,
             total_sol_raised |-> 0, airdrop_pool |-> AirdropPortion,
             graduation_ts |-> 0]]
  /\ sol' = Debit(sol, u, DEPLOY_FEE_LAMPORTS)
  /\ globalSol' = globalSol + DEPLOY_FEE_LAMPORTS
  /\ tok' = [tok EXCEPT ![m] = Debit(@, u, amountOne)]
  /\ vault' = Credit(vault, m, amountOne)
  /\ backing' = Credit(backing, m, DEPLOY_FEE_LAMPORTS)
  /\ claimed' = Credit(claimed, m,
                       Saturating_sub(Deposit(amountTwo), DEPLOY_FEE_LAMPORTS))
  /\ UNCHANGED <<now, config, escrowSol, escrowTok, prepares, swaps>>

(***************************************************************************)
(* swap, on an open curve, by a wallet that can pay the amount.  The fee   *)
(* of either side is taken out of what is quoted and stays in the          *)
(* reserves; airdrop_pool counts its part, in lamports on a buy and in     *)
(* tokens on a sell.                                                       *)
(***************************************************************************)
CurveOpen_AfterGraduation(m) == config.exists /\ pool[m].exists

CurveOpen(m) == config.exists /\ pool[m].exists /\ ~pool[m].graduated

AfterFee(p, amount, adj) ==
  [p EXCEPT !.airdrop_pool =
              Saturate(@ + AirdropFee(TotalFee(amount, adj)))]

Reserves(p, r1, r2) == [p EXCEPT !.reserve_one = r1, !.reserve_two = r2]

\* checked_add(amount_out): what the cap is compared with.
BalanceAfter_BoughtOnly(balance, out) == out

BalanceAfter(balance, out) == balance + out

ShouldGraduate_Above(raised) == raised > GRADUATION_THRESHOLD_LAMPORTS

ShouldGraduate(raised) == raised >= GRADUATION_THRESHOLD_LAMPORTS

\* total_sol_raised after a buy, and graduation with it.
Raise(p, amount) ==
  LET raised == Saturate(p.total_sol_raised + amount)
  IN [p EXCEPT !.total_sol_raised = raised,
               !.graduated = ShouldGraduate(raised),
               !.graduation_ts = IF ShouldGraduate(raised) THEN now ELSE @]

\* What a sell asks of the pool and of the seller, before any quote, ...
Offers(m, u, amount) ==
  /\ CurveOpen(m)
  /\ amount > 0 /\ amount <= tok[m][u]
  /\ pool[m].reserve_one + amount <= MaxU64

\* ... and of a quote of out for the adj tokens that the fee leaves.
Pays(m, u, amount, adj, out) ==
  /\ pool[m].reserve_one + adj <= MaxU64
  /\ FeeSplitFits(TotalFee(amount, adj))
  /\ CanSend(globalSol, out)
  /\ RentExempt(sol[u] + out)

\* style == 1: tokens in, SOL out.
Sell(m, u, amount) ==
  LET p == pool[m] IN
  /\ Offers(m, u, amount)
  /\ \E adj \in Adjusted(config.fees, amount) :
     \E out \in AmountOut(p.reserve_two, p.reserve_one, adj) :
       /\ Pays(m, u, amount, adj, out)
       /\ pool' = [pool EXCEPT ![m] =
            Reserves(AfterFee(p, amount, adj),
                     p.reserve_one + amount, p.reserve_two - out)]
       /\ globalSol' = globalSol - out
       /\ sol' = Credit(sol, u, out)
       /\ backing' = Debit(backing, m, out)
  /\ tok' = [tok EXCEPT ![m] = Debit(@, u, amount)]
  /\ vault' = Credit(vault, m, amount)
  /\ swaps' = swaps + 1
  /\ UNCHANGED <<now, config, shares, escrowSol, escrowTok, claimed, prepares>>

\* Any other style: SOL in, tokens out, under the anti-snipe cap.
Buy(m, u, amount) ==
  LET p == pool[m] IN
  /\ CurveOpen(m)
  /\ amount > 0 /\ CanSend(sol[u], amount)
  /\ p.reserve_two + amount <= MaxU64
  /\ \E adj \in Adjusted(config.fees, amount) :
     \E out \in AmountOut(p.reserve_one, p.reserve_two, adj) :
       /\ p.reserve_two + adj <= MaxU64
       /\ FeeSplitFits(TotalFee(amount, adj))
       /\ WithinWalletCap(now - p.launch_timestamp, SUPPLY,
                          BalanceAfter(tok[m][u], out))
       /\ out <= vault[m]
       /\ RentExempt(globalSol + amount)
       /\ pool' = [pool EXCEPT ![m] =
            Raise(Reserves(AfterFee(p, amount, adj),
                           p.reserve_one - out, p.reserve_two + amount),
                  amount)]
       /\ tok' = [tok EXCEPT ![m] = Credit(@, u, out)]
       /\ vault' = Debit(vault, m, out)
  /\ sol' = Debit(sol, u, amount)
  /\ globalSol' = globalSol + amount
  /\ backing' = Credit(backing, m, amount)
  /\ swaps' = swaps + 1
  /\ UNCHANGED <<now, config, shares, escrowSol, escrowTok, claimed, prepares>>

-----------------------------------------------------------------------------
(***************************************************************************)
(* prepare_migration: anyone, for a graduated pool, with any holder wallet *)
(* (no constraint names it).  Four transfers of SOL and one of tokens; the *)
(* pool record is not written.                                             *)
(***************************************************************************)
CanMigrate_AnyTime(m) == config.exists /\ pool[m].exists

CanMigrate(m) == config.exists /\ pool[m].exists /\ pool[m].graduated

\* The tokens the pool record says the pool holds.
PoolTokens_InVault(m) == vault[m]

PoolTokens(m) == pool[m].reserve_one

PayFees(poolSol, holderWallet) ==
  Credit(Credit(Credit(sol, config.protocol_wallet, ProtocolPart(poolSol)),
                config.airdrop_wallet, AirdropPart(poolSol)),
         holderWallet, HolderPart(poolSol))

\* The four transfers of SOL out of the global PDA.
SentFromGlobal(poolSol) ==
  ProtocolPart(poolSol) + AirdropPart(poolSol) + HolderPart(poolSol)
    + SolToEscrow(poolSol)

PrepareMigration(m, holderWallet) ==
  LET poolSol == pool[m].reserve_two IN
  /\ CanMigrate(m)
  /\ GradFeeFits(poolSol)
  /\ CanSend(globalSol, SentFromGlobal(poolSol))
  /\ PoolTokens(m) <= vault[m]
  /\ sol' = PayFees(poolSol, holderWallet)
  /\ \A w \in Wallets : RentExempt(sol'[w])
  /\ RentExempt(escrowSol[m] + SolToEscrow(poolSol))
  /\ globalSol' = globalSol - SentFromGlobal(poolSol)
  /\ escrowSol' = Credit(escrowSol, m, SolToEscrow(poolSol))
  /\ vault' = Debit(vault, m, PoolTokens(m))
  /\ escrowTok' = Credit(escrowTok, m, PoolTokens(m))
  /\ backing' = Debit(backing, m, SentFromGlobal(poolSol))
  /\ prepares' = Credit(prepares, m, 1)
  /\ UNCHANGED <<now, config, pool, shares, tok, claimed, swaps>>

\* All that leaves an escrow: its SOL but for the rent.
Withdrawable(m) == Saturating_sub(escrowSol[m], RENT)

(***************************************************************************)
(* release_escrow: the migration authority takes SOL and tokens.           *)
(***************************************************************************)
ReleaseEscrow(m) ==
  LET authority == config.migration_authority IN
  /\ CanMigrate(m)
  /\ escrowSol[m] > 0 \/ escrowTok[m] > 0
  /\ RentExempt(sol[authority] + Withdrawable(m))
  /\ sol' = Credit(sol, authority, Withdrawable(m))
  /\ escrowSol' = Debit(escrowSol, m, Withdrawable(m))
  /\ tok' = [tok EXCEPT ![m] = Credit(@, authority, escrowTok[m])]
  /\ escrowTok' = [escrowTok EXCEPT ![m] = 0]
  /\ UNCHANGED <<now, config, pool, shares, globalSol, vault, backing,
                 claimed, prepares, swaps>>

(***************************************************************************)
(* cancel_escrow: the protocol wallet sends the escrow back.  Before a     *)
(* first preparation the escrow's token account does not exist and the     *)
(* call fails; with an empty escrow it succeeds and moves nothing.         *)
(***************************************************************************)
CancelEscrow(m) ==
  /\ CanMigrate(m)
  /\ prepares[m] > 0
  /\ RentExempt(globalSol + Withdrawable(m))
  /\ globalSol' = globalSol + Withdrawable(m)
  /\ escrowSol' = Debit(escrowSol, m, Withdrawable(m))
  /\ vault' = Credit(vault, m, escrowTok[m])
  /\ escrowTok' = [escrowTok EXCEPT ![m] = 0]
  /\ backing' = Credit(backing, m, Withdrawable(m))
  /\ UNCHANGED <<now, config, pool, shares, sol, tok, claimed, prepares,
                 swaps>>

-----------------------------------------------------------------------------
\* The clock never runs backwards.
Tick ==
  /\ now' \in {t \in Instants : t > now}
  /\ UNCHANGED <<config, pool, shares, sol, globalSol, escrowSol, tok, vault,
                 escrowTok, backing, claimed, prepares, swaps>>

\* Whole balances are sold too.
SellChoices(m, u) == SellAmounts \cup {tok[m][u]}

Next ==
  \/ \E admin \in Wallets, args \in ConfigArgs : Initialize(admin, args)
  \/ \E m \in Mints, u \in Users, a1 \in AmountsOne, a2 \in AmountsTwo :
       AddLiquidity(m, u, a1, a2)
  \/ /\ swaps < MaxSwaps
     /\ \E m \in Mints, u \in Users :
          \/ \E amount \in BuyAmounts : Buy(m, u, amount)
          \/ \E amount \in SellChoices(m, u) : Sell(m, u, amount)
  \/ \E m \in Mints, h \in Wallets :
       prepares[m] < MaxPrepares /\ PrepareMigration(m, h)
  \/ \E m \in Mints : ReleaseEscrow(m)
  \/ \E m \in Mints : CancelEscrow(m)
  \/ Tick

Spec == Init /\ [][Next]_vars

-----------------------------------------------------------------------------
PoolRecords ==
  [exists : BOOLEAN, reserve_one : Nat, reserve_two : Nat, total_supply : Nat,
   launch_timestamp : Nat, graduated : BOOLEAN, total_sol_raised : Nat,
   airdrop_pool : Nat, graduation_ts : Nat]

\* Every balance is a natural (no transfer overdraws an account), every
\* account holds what its type says.
TypeOK ==
  /\ now \in Nat
  /\ config \in [exists : BOOLEAN, fees : ValidFees,
                 protocol_wallet : Treasuries, airdrop_wallet : Treasuries,
                 migration_authority : Treasuries]
  /\ pool \in [Mints -> PoolRecords]
  /\ shares \in [Mints -> [Users -> Nat]]
  /\ sol \in [Wallets -> Nat]
  /\ globalSol \in Nat
  /\ escrowSol \in [Mints -> Nat]
  /\ tok \in [Mints -> [Wallets -> Nat]]
  /\ vault \in [Mints -> Nat]
  /\ escrowTok \in [Mints -> Nat]
  /\ backing \in [Mints -> Int]
  /\ claimed \in [Mints -> Nat]
  /\ prepares \in [Mints -> Nat]
  /\ swaps \in Nat

\* Tokens the migration authority has received; it trades on no curve.
PaidTokens(m) == tok[m][config.migration_authority]

\* The tokens of m in the vault, in the escrow and paid out.
Held(m, inVault, inEscrow, paid) ==
  /\ vault[m] = inVault
  /\ escrowTok[m] = inEscrow
  /\ PaidTokens(m) = paid

\* The pool record counts tokens that are in exactly one place: the vault
\* while the curve trades; the vault, the escrow or the migration authority's
\* wallet after it.  prepare_migration reads reserve_one and never clears it,
\* release and cancel read the token account: they must agree.
CustodyOf(m) ==
  LET r == pool[m].reserve_one IN
  /\ ~pool[m].exists => Held(m, 0, 0, 0)
  /\ pool[m].exists => r > 0
  /\ pool[m].exists /\ ~pool[m].graduated => Held(m, r, 0, 0)
  /\ pool[m].exists /\ pool[m].graduated =>
       Held(m, r, 0, 0) \/ Held(m, 0, r, 0) \/ Held(m, 0, 0, r)

TokenCustody == \A m \in Mints : CustodyOf(m)

\* A pool has graduated if and only if the SOL it took in on buys has reached
\* the threshold: no buy slips past it, no sell or migration call undoes it.
GraduationOf(m) ==
  pool[m].exists =>
    (pool[m].graduated
       <=> pool[m].total_sol_raised >= GRADUATION_THRESHOLD_LAMPORTS)

GraduatedIffRaised == \A m \in Mints : GraduationOf(m)

\* Through buys, sells and the passing of time, no wallet but the deployer's
\* ever holds more of a young pool's tokens than the window it is in allows.
CapOf(m) ==
  \A u \in Users \ {Deployer[m]} : pool[m].exists =>
    WithinWalletCap(now - pool[m].launch_timestamp, SUPPLY, tok[m][u])

WalletCapHolds == \A m \in Mints : CapOf(m)

\* What one preparation too many costs: the fees of the graduation, and the
\* rent that the cancel before it left in the escrow.
AgainCost(poolSol) ==
  ProtocolPart(poolSol) + AirdropPart(poolSol) + HolderPart(poolSol) + RENT

\* What a pool may cost the others: the SOL its deploy claimed and did not pay,
\* and each preparation after the first.
Cost(m) ==
  claimed[m] + Saturating_sub(prepares[m], 1) * AgainCost(pool[m].reserve_two)

\* All pools share one account, and no pool spends more of the others' SOL
\* than that: but for its Cost, the global PDA has received from m at least m's
\* reserve until m's first migration, and has never paid out more for m than
\* it received, whatever amount_two was claimed and however often the
\* migration was prepared, cancelled and prepared again.
SubsidyOf(m) ==
  pool[m].exists =>
    /\ prepares[m] = 0 => backing[m] + Cost(m) >= pool[m].reserve_two
    /\ backing[m] + Cost(m) >= 0

NoCrossSubsidy == \A m \in Mints : SubsidyOf(m)

\* The guard of Sell, for some quote.
CanSell(m, u, amount) ==
  /\ Offers(m, u, amount)
  /\ \E adj \in Adjusted(config.fees, amount) :
     \E out \in AmountOut(pool[m].reserve_two, pool[m].reserve_one, adj) :
       Pays(m, u, amount, adj, out)

Costs == SumFunctionOnSet([m \in Mints |-> Cost(m)], Mints)

\* The quotes for all tokens of a holder that leave the costs in the reserve
\* are paid.
SellsOut(m, u, all) ==
  /\ Offers(m, u, all)
  /\ \A adj \in Adjusted(config.fees, all) :
     \A out \in AmountOut(pool[m].reserve_two, pool[m].reserve_one, adj) :
       out + Costs <= pool[m].reserve_two => Pays(m, u, all, adj, out)
  /\ Costs = 0 => CanSell(m, u, all)

\* Whatever the other pools have done in the meantime, a holder of tokens on an
\* open curve is paid every quote that leaves in the reserve what all pools
\* together may have cost; where that is nothing, all tokens of a holder sell
\* at once, always.  (Short of amounts whose fee split overflows a u64.)
HoldersCanExit ==
  \A m \in Mints, u \in Users :
    /\ CurveOpen(m)
    /\ tok[m][u] > 0 /\ FeeSplitFits(tok[m][u])
    /\ sol[u] >= RENT
    => SellsOut(m, u, tok[m][u])

\* The global PDA has the SOL of every pool: no pool has cost it more than it
\* brought in, and this one brought in its reserve.
Funded(m) ==
  /\ backing[m] >= pool[m].reserve_two
  /\ \A n \in Mints : backing[n] >= 0

\* What a holder sells at a time who sells all in so many parts.
OneOf(parts, amount) == (amount + parts - 1) \div parts

\* The fee of a quarter of the supply can be split, whatever configuration
\* initialize accepts.
QuartersFit ==
  LET quarter == OneOf(4, SUPPLY) IN
  \A args \in ConfigArgs : args.fees \in ValidFees \ {NaN} =>
    FeeSplitFits(TotalFee(quarter, Part(quarter, 10000 - args.fees)))

\* The fee split of a sell is a product of token units in a u64, and panics
\* when a sell is too large for it.  It never strands a holder: whatever
\* somebody holds, the deployer's part of the supply included, goes in four.
\* (Where the pool's SOL was paid in, and the fee is a number: with NaN every
\* quote is 0 and nobody trades.)
HoldersCanExitInParts ==
  \A m \in Mints, u \in Users :
    /\ CurveOpen(m) /\ config.fees # NaN
    /\ Funded(m)
    /\ tok[m][u] > 0 /\ sol[u] >= RENT
    => CanSell(m, u, OneOf(4, tok[m][u]))

\* The curve never loses to a trade: the product of the reserves does not
\* shrink, up to what the rounding of an f64 quote can give away.
ProductNeverShrinks ==
  [][\A m \in Mints : CurveOpen(m) =>
       (pool'[m].reserve_one + FloatSlack) * (pool'[m].reserve_two + FloatSlack)
         >= pool[m].reserve_one * pool[m].reserve_two]_vars

\* A pool is paid out once: after the migration authority has its tokens no
\* preparation funds the escrow again, whatever is cancelled or retried.
PaidOutOnce ==
  [][\A m \in Mints : PaidTokens(m) > 0 =>
       /\ (PaidTokens(m) > 0)'
       /\ escrowTok'[m] = 0
       /\ escrowSol'[m] <= escrowSol[m]]_vars

(***************************************************************************)
(* What makes the properties above inductive, pool by pool.  A pool that   *)
(* does not exist has no history and its tokens are its deployer's; a pool *)
(* that exists has two positive reserves (so a quote never empties one,    *)
(* and an empty vault cannot pay reserve_one a second time), was launched  *)
(* in the past and migrates only once graduated.  No treasury holds tokens *)
(* before the configuration names the migration authority.                 *)
(***************************************************************************)
Unborn(m) ==
  ~pool[m].exists =>
    /\ prepares[m] = 0 /\ backing[m] = 0
    /\ \A u \in Users \ {Deployer[m]} : tok[m][u] = 0

Alive(m) ==
  pool[m].exists =>
    /\ pool[m].reserve_one > 0 /\ pool[m].reserve_two > 0
    /\ pool[m].launch_timestamp <= now
    /\ prepares[m] > 0 => pool[m].graduated

Unpaid(m) == ~config.exists => \A w \in Treasuries : tok[m][w] = 0

PoolInv(m) == Unborn(m) /\ Alive(m) /\ Unpaid(m) /\ CustodyOf(m)

IndInv ==
  /\ TypeOK
  /\ \A m \in Mints : PoolInv(m)

(***************************************************************************)
(* The life of a pool, read off where its tokens are.                      *)
(***************************************************************************)
Phase(m) ==
  IF ~pool[m].exists THEN "none"
  ELSE IF ~pool[m].graduated THEN "curve"
  ELSE IF PaidTokens(m) > 0 THEN "paid"
  ELSE IF escrowTok[m] > 0 THEN "escrowed"
  ELSE "graduated"

Stake(m) == vault[m] + escrowTok[m] + PaidTokens(m)

Lifecycle == INSTANCE PoolLifecycle
  WITH phase <- [m \in Mints |-> Phase(m)],
       stake <- [m \in Mints |-> Stake(m)]

\* The program implements the promised life cycle of every pool.
LifecycleSpec == Lifecycle!Spec
=============================================================================
