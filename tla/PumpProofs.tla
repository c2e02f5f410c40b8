----------------------------- MODULE PumpProofs -----------------------------
(***************************************************************************)
(* Theorems about Pump for any number of mints and wallets, any amounts    *)
(* and any values of the program's constants that meet the assumptions:    *)
(* the arithmetic of the curve, the types, what each instruction does to   *)
(* the one pool it names (an Effect lemma each), the inductive invariant   *)
(* IndInv that the safety properties rest on, and the books of the whole   *)
(* program (Accounts), which say that a holder can sell.                   *)
(***************************************************************************)
EXTENDS Pump, SumTheorems

(***************************************************************************)
(* The arithmetic of Curve.                                                *)
(***************************************************************************)
\* Dividing by 10000 rounds down.
LEMMA DivBounds ==
  ASSUME NEW n \in Nat
  PROVE  /\ n \div 10000 \in Nat
         /\ 10000 * (n \div 10000) <= n
         /\ n < 10000 * (n \div 10000) + 10000
  OBVIOUS

\* Taking at most 10000 basis points of an amount gives at most the amount.
LEMMA PartBounds ==
  ASSUME NEW x \in Nat, NEW bps \in Nat, bps <= 10000
  PROVE  Part(x, bps) \in Nat /\ Part(x, bps) <= x
<1>1. x * bps \in Nat /\ x * bps <= x * 10000
  <2>1. x * bps + x * (10000 - bps) = x * 10000
    OBVIOUS
  <2>2. x * bps \in Nat /\ x * (10000 - bps) \in Nat
    OBVIOUS
  <2>. QED  BY <2>1, <2>2
<1>. DEFINE y == x * bps
<1>2. y \in Nat /\ y <= x * 10000
  BY <1>1
<1>. HIDE DEF y
<1>3. y \div 10000 \in Nat /\ y \div 10000 <= x
  BY <1>2, DivBounds
<1>. QED  BY <1>3 DEF Part, y

\* A part of an amount is a natural number, for any number of basis points.
LEMMA PartNat ==
  ASSUME NEW x \in Nat, NEW bps \in Nat
  PROVE  Part(x, bps) \in Nat
<1>1. x * bps \in Nat
  OBVIOUS
<1>. QED  BY <1>1, DivBounds DEF Part

\* The three parts paid out of the graduation fee add up to at most the fee
\* (migrate.rs:45-48 never underflows), and the four transfers of
\* prepare_migration add up to the pool's SOL.
LEMMA GraduationSplit ==
  ASSUME NEW p \in Nat
  PROVE  /\ ProtocolPart(p) \in Nat /\ AirdropPart(p) \in Nat
         /\ HolderPart(p) \in Nat /\ SolToEscrow(p) \in Nat
         /\ ProtocolPart(p) + AirdropPart(p) + HolderPart(p) <= GradFee(p)
         /\ ProtocolPart(p) + AirdropPart(p) + HolderPart(p) + SolToEscrow(p)
              = p
<1>. DEFINE f == GradFee(p)
            a == GRAD_PROTOCOL_BPS
            b == GRAD_AIRDROP_BPS
            c == GRAD_HOLDER_BPS
<1>1. f \in Nat /\ f <= p
  <2>1. GRAD_FEE_BPS \in Nat /\ GRAD_FEE_BPS <= 10000
    BY GraduationFeeAssumption
  <2>2. Part(p, GRAD_FEE_BPS) \in Nat /\ Part(p, GRAD_FEE_BPS) <= p
    BY <2>1, PartBounds
  <2>. QED  BY <2>2 DEF GradFee
<1>2. a \in Nat /\ b \in Nat /\ c \in Nat /\ a + b + c <= 10000
  BY GraduationFeeAssumption
<1>. HIDE DEF f, a, b, c
<1>3. /\ f * a \in Nat /\ f * b \in Nat /\ f * c \in Nat
      /\ f * a + f * b + f * c <= f * 10000
  <2>1. f * a + f * b + f * c + f * (10000 - (a + b + c)) = f * 10000
    BY <1>1, <1>2
  <2>2. f * a \in Nat /\ f * b \in Nat /\ f * c \in Nat
    BY <1>1, <1>2
  <2>3. f * (10000 - (a + b + c)) \in Nat
    BY <1>1, <1>2
  <2>. QED  BY <2>1, <2>2, <2>3, <1>1
<1>4. /\ Part(f, a) \in Nat /\ Part(f, b) \in Nat /\ Part(f, c) \in Nat
      /\ Part(f, a) + Part(f, b) + Part(f, c) <= f
  <2>. DEFINE fa == f * a
              fb == f * b
              fc == f * c
  <2>1. /\ fa \in Nat /\ fb \in Nat /\ fc \in Nat
        /\ fa + fb + fc <= f * 10000
    BY <1>3
  <2>. HIDE DEF fa, fb, fc
  <2>2. /\ fa \div 10000 \in Nat /\ fb \div 10000 \in Nat
        /\ fc \div 10000 \in Nat
        /\ (fa \div 10000) + (fb \div 10000) + (fc \div 10000) <= f
    BY <1>1, <2>1, DivBounds
  <2>. QED  BY <2>2 DEF Part, fa, fb, fc
<1>. QED
  BY <1>1, <1>4
  DEF f, a, b, c, ProtocolPart, AirdropPart, HolderPart, SolToEscrow

\* What is left of a swap's amount after the fee is at most the amount, but
\* for the rounding.
LEMMA AdjustedBounds ==
  ASSUME NEW fees \in ValidFees, NEW amount \in Nat,
         NEW adj \in Adjusted(fees, amount)
  PROVE  adj \in Nat /\ adj <= amount + FloatSlack
<1>1. CASE fees = NaN
  BY <1>1, WidthAssumption DEF Adjusted
<1>2. CASE fees # NaN
  <2>1. 10000 - fees \in Nat /\ 10000 - fees <= 10000
    BY <1>2 DEF ValidFees
  <2>2. Part(amount, 10000 - fees) \in Nat /\ Part(amount, 10000 - fees) <= amount
    BY <2>1, PartBounds
  <2>. QED  BY <1>2, <2>2, WidthAssumption DEF Adjusted, Near
<1>. QED  BY <1>1, <1>2

\* The part of a swap fee that airdrop_pool counts is a natural.
LEMMA AirdropFeeNat ==
  ASSUME NEW amount \in Nat, NEW adj \in Nat
  PROVE  AirdropFee(TotalFee(amount, adj)) \in Nat
<1>1. TotalFee(amount, adj) \in Nat
  BY DEF TotalFee, Saturating_sub
<1>2. AIRDROP_FEE_BPS \in Nat
  BY FeeAssumption
<1>3. Part(TotalFee(amount, adj), AIRDROP_FEE_BPS) \in Nat
  BY <1>1, <1>2, PartNat
<1>. QED  BY <1>3 DEF AirdropFee

\* Saturation keeps a natural a natural.
LEMMA SaturateNat ==
  ASSUME NEW x \in Nat
  PROVE  Saturate(x) \in Nat
  BY WidthAssumption DEF Saturate

\* A quote never exceeds the reserve it is paid from, and never empties it
\* while the other reserve is positive.
LEMMA AmountOutBounds ==
  ASSUME NEW rOut \in Nat, NEW rIn \in Nat, NEW adj \in Nat,
         NEW out \in AmountOut(rOut, rIn, adj)
  PROVE  /\ out \in Nat /\ out <= rOut
         /\ rIn > 0 /\ rOut > 0 => out < rOut
<1>1. CASE adj = 0
  BY <1>1 DEF AmountOut
<1>2. CASE adj # 0
  <2>1. (rOut * adj) \div (rIn + adj) \in Int
    <3>1. rOut * adj \in Nat /\ rIn + adj \in Nat \ {0}
      BY <1>2
    <3>. QED  BY <3>1
  <2>. QED  BY <1>2, <2>1, WidthAssumption DEF AmountOut, Near
<1>. QED  BY <1>1, <1>2

\* Shares are granted for a first deposit only if both amounts are positive.
LEMMA SharesNeedDeposit ==
  ASSUME NEW a1 \in Nat, NEW a2 \in Nat,
         NEW s \in InitialShares(a1, a2), s > 0
  PROVE  s \in Nat /\ a1 > 0 /\ a2 > 0
<1>1. a1 * a2 \in Nat
  OBVIOUS
<1>2. (a1 * a2) \div ShareUnit > 0
  BY WidthAssumption, <1>1 DEF InitialShares
<1>3. a1 * a2 # 0
  <2>1. SUFFICES ASSUME a1 * a2 = 0 PROVE FALSE
    OBVIOUS
  <2>2. 0 \div ShareUnit = 0
    BY WidthAssumption
  <2>. QED  BY <1>2, <2>1, <2>2
<1>4. s \in Nat
  BY <1>1, WidthAssumption DEF InitialShares
<1>. QED  BY <1>3, <1>4

\* Waiting only loosens the cap, and holding less only helps.
LEMMA CapLoosens ==
  ASSUME NEW supply \in Nat, NEW e \in Nat, NEW later \in Nat, e <= later,
         NEW b \in Nat, NEW less \in Nat, less <= b,
         WithinWalletCap(e, supply, b)
  PROVE  WithinWalletCap(later, supply, less)
<1>1. /\ Part(supply, SNIPE_BPS_1) \in Nat
      /\ Part(supply, SNIPE_BPS_2) \in Nat
      /\ Part(supply, SNIPE_BPS_3) \in Nat
  BY PartNat, SnipeAssumption
<1>2. ASSUME NEW x \in Nat, NEW y \in Nat, x <= y
      PROVE  Part(supply, x) <= Part(supply, y)
  <2>1. supply * x \in Nat /\ supply * y \in Nat /\ supply * x <= supply * y
    <3>1. supply * x + supply * (y - x) = supply * y
      BY <1>2
    <3>2. supply * (y - x) \in Nat /\ supply * x \in Nat
      BY <1>2
    <3>. QED  BY <3>1, <3>2, <1>2
  <2>. QED  BY <2>1 DEF Part
<1>3. /\ Part(supply, SNIPE_BPS_1) <= Part(supply, SNIPE_BPS_2)
      /\ Part(supply, SNIPE_BPS_2) <= Part(supply, SNIPE_BPS_3)
  BY <1>2, SnipeAssumption
<1>. QED  BY <1>1, <1>3, SnipeAssumption DEF WithinWalletCap

\* Multiplication of naturals is monotone in both arguments.
LEMMA ProductMonotone ==
  ASSUME NEW x \in Nat, NEW y \in Nat, NEW v \in Nat, NEW w \in Nat,
         x <= v, y <= w
  PROVE  x * y \in Nat /\ v * w \in Nat /\ x * y <= v * w
<1>1. v * w = x * y + x * (w - y) + (v - x) * w
  OBVIOUS
<1>2. x * y \in Nat /\ x * (w - y) \in Nat /\ (v - x) * w \in Nat
  <2>1. w - y \in Nat /\ v - x \in Nat
    OBVIOUS
  <2>. QED  BY <2>1
<1>. QED  BY <1>1, <1>2

\* A quotient by any positive number rounds down.
LEMMA QuotientBelow ==
  ASSUME NEW n \in Nat, NEW d \in Nat, d > 0
  PROVE  n \div d \in Nat /\ d * (n \div d) <= n
  OBVIOUS

\* A quote leaves at least the old product in the reserves: what is paid out
\* (rOut loses out) is worth no more than what came in (rIn gains amount, of
\* which adj is quoted), up to the slack of the rounding.
LEMMA QuoteKeepsProduct ==
  ASSUME NEW rOut \in Nat, NEW rIn \in Nat, NEW amount \in Nat,
         NEW adj \in Nat, adj <= amount + FloatSlack, NEW out \in AmountOut(rOut, rIn, adj)
  PROVE  (rOut - out + FloatSlack) * (rIn + amount + FloatSlack) >= rOut * rIn
<1>0. FloatSlack \in Nat
  BY WidthAssumption
<1>1. out \in Nat /\ out <= rOut
  BY AmountOutBounds
<1>. DEFINE d == rIn + adj
            n == rOut * adj
            q == n \div d
<1>2. CASE adj = 0
  <2>1. out = 0
    BY <1>2 DEF AmountOut
  <2>. QED
    BY <2>1, <1>0, ProductMonotone, rOut <= rOut - out + FloatSlack,
       rIn <= rIn + amount + FloatSlack
<1>3. CASE adj # 0
  <2>1. d \in Nat /\ d > 0 /\ n \in Nat
    BY <1>3
  <2>2. q \in Nat /\ d * q <= n
    <3>. HIDE DEF d, n
    <3>. QED  BY <2>1, QuotientBelow
  <2>3. out <= q + FloatSlack
    BY <1>3, <2>2, <1>0 DEF AmountOut, Near
  <2>. HIDE DEF q
  <2>4. q <= rOut
    <3>1. SUFFICES ASSUME q >= rOut + 1 PROVE FALSE
      BY <2>2
    <3>2. d * (rOut + 1) <= d * q
      BY <2>1, <2>2, <3>1, ProductMonotone
    <3>3. d * (rOut + 1) = rOut * rIn + rOut * adj + d
      OBVIOUS
    <3>4. rOut * rIn \in Nat
      OBVIOUS
    <3>. QED  BY <2>1, <2>2, <3>2, <3>3, <3>4
  <2>5. (rOut - q) * d = rOut * rIn + n - d * q
    BY <2>2
  <2>6. rOut * rIn <= (rOut - q) * d
    BY <2>1, <2>2, <2>5
  <2>7. (rOut - q) * d
          <= (rOut - out + FloatSlack) * (rIn + amount + FloatSlack)
    <3>1. rOut - q \in Nat /\ rOut - q <= rOut - out + FloatSlack
      BY <1>0, <1>1, <2>2, <2>3, <2>4
    <3>2. d \in Nat /\ d <= rIn + amount + FloatSlack
      BY <1>0
    <3>3. /\ rOut - out + FloatSlack \in Nat
          /\ rIn + amount + FloatSlack \in Nat
      BY <1>0, <1>1
    <3>. HIDE DEF d
    <3>. QED  BY <3>1, <3>2, <3>3, ProductMonotone
  <2>8. /\ rOut * rIn \in Nat
        /\ (rOut - q) * d \in Int
        /\ (rOut - out + FloatSlack) * (rIn + amount + FloatSlack) \in Int
    BY <1>0, <1>1, <2>2
  <2>. QED  BY <2>6, <2>7, <2>8
<1>. QED  BY <1>2, <1>3

-----------------------------------------------------------------------------
(***************************************************************************)
(* The types.                                                              *)
(***************************************************************************)
(***************************************************************************)
(* The pieces of a pool record keep it a pool record.                      *)
(***************************************************************************)
LEMMA NoPoolType == NoPool \in PoolRecords
  BY DEF NoPool, PoolRecords

LEMMA AfterFeeType ==
  ASSUME NEW p \in PoolRecords, NEW amount \in Nat, NEW adj \in Nat
  PROVE  AfterFee(p, amount, adj) \in PoolRecords
<1>1. p.airdrop_pool + AirdropFee(TotalFee(amount, adj)) \in Nat
  <2>1. p.airdrop_pool \in Nat
    BY DEF PoolRecords
  <2>2. AirdropFee(TotalFee(amount, adj)) \in Nat
    BY AirdropFeeNat
  <2>. QED  BY <2>1, <2>2
<1>2. Saturate(p.airdrop_pool + AirdropFee(TotalFee(amount, adj))) \in Nat
  BY <1>1, SaturateNat
<1>. QED  BY <1>2 DEF AfterFee, PoolRecords

LEMMA ReservesType ==
  ASSUME NEW p \in PoolRecords, NEW r1 \in Nat, NEW r2 \in Nat
  PROVE  Reserves(p, r1, r2) \in PoolRecords
  BY DEF Reserves, PoolRecords

LEMMA RaiseType ==
  ASSUME NEW p \in PoolRecords, NEW amount \in Nat, now \in Nat
  PROVE  Raise(p, amount) \in PoolRecords
<1>1. Saturate(p.total_sol_raised + amount) \in Nat
  BY SaturateNat DEF PoolRecords
<1>2. ShouldGraduate(Saturate(p.total_sol_raised + amount)) \in BOOLEAN
  BY DEF ShouldGraduate
<1>. QED  BY <1>1, <1>2 DEF Raise, PoolRecords

LEMMA NoConfigType ==
  NoConfig \in [exists : BOOLEAN, fees : ValidFees,
                protocol_wallet : Treasuries, airdrop_wallet : Treasuries,
                migration_authority : Treasuries]
<1>1. (CHOOSE t \in Treasuries : TRUE) \in Treasuries
  BY ActorAssumption
<1>. QED  BY <1>1 DEF NoConfig, ValidFees

(***************************************************************************)
(* Balances.                                                               *)
(***************************************************************************)
LEMMA CreditType ==
  ASSUME NEW S, NEW f \in [S -> Nat], NEW x \in S, NEW n \in Nat
  PROVE  Credit(f, x, n) \in [S -> Nat]
  BY DEF Credit

LEMMA DebitType ==
  ASSUME NEW S, NEW f \in [S -> Nat], NEW x \in S, NEW n \in Nat, n <= f[x]
  PROVE  Debit(f, x, n) \in [S -> Nat]
  BY DEF Debit

-----------------------------------------------------------------------------
LEMMA InitType == Init => TypeOK
<1>. SUFFICES ASSUME Init PROVE TypeOK
  OBVIOUS
<1>1. sol \in [Wallets -> Nat]
  BY AmountAssumption DEF Init
<1>2. tok \in [Mints -> [Wallets -> Nat]]
  BY AmountAssumption DEF Init
<1>3. pool \in [Mints -> PoolRecords]
  BY NoPoolType DEF Init
<1>. QED  BY <1>1, <1>2, <1>3, NoConfigType DEF Init, TypeOK

LEMMA InitializeType ==
  ASSUME TypeOK, NEW admin \in Wallets, NEW args \in ConfigArgs,
         Initialize(admin, args)
  PROVE  TypeOK'
<1>1. args \in ConfigRecords
  BY ArgumentAssumption
<1>2. config' \in [exists : BOOLEAN, fees : ValidFees,
                   protocol_wallet : Treasuries, airdrop_wallet : Treasuries,
                   migration_authority : Treasuries]
  BY <1>1 DEF Initialize, ConfigRecords
<1>3. sol' \in [Wallets -> Nat]
  BY AmountAssumption, DebitType DEF Initialize, CanSend, TypeOK
<1>4. globalSol' \in Nat
  BY AmountAssumption DEF Initialize, TypeOK
<1>. QED  BY <1>2, <1>3, <1>4 DEF Initialize, TypeOK

LEMMA DepositNat ==
  ASSUME NEW a2 \in AmountsTwo
  PROVE  LpPortion \in Nat /\ Deposit(a2) \in Nat /\ AirdropPortion \in Nat
<1>1. ASSUME NEW x \in Nat, NEW y \in Nat
      PROVE  (x * y) \div 100 \in Nat
  <2>1. x * y \in Nat
    OBVIOUS
  <2>. QED  BY <2>1
<1>2. /\ DEPLOY_FEE_LAMPORTS \in Nat /\ DEPLOY_LP_PCT \in Nat
      /\ DEPLOY_AIRDROP_PCT \in Nat /\ a2 \in Nat
  BY AmountAssumption
<1>. QED  BY <1>1, <1>2 DEF LpPortion, Deposit, AirdropPortion

LEMMA AddLiquidityType ==
  ASSUME TypeOK, NEW m \in Mints, NEW u \in Users,
         NEW a1 \in AmountsOne, NEW a2 \in AmountsTwo,
         AddLiquidity(m, u, a1, a2)
  PROVE  TypeOK'
<1>1. /\ a1 \in Nat /\ Deposit(a2) \in Nat /\ AirdropPortion \in Nat
      /\ DEPLOY_FEE_LAMPORTS \in Nat /\ u \in Wallets
  BY AmountAssumption, DepositNat DEF Wallets
<1>2. PICK s \in InitialShares(a1, Deposit(a2)) :
        /\ s > 0
        /\ shares' = [shares EXCEPT ![m][u] = @ + s]
        /\ pool' = [pool EXCEPT ![m] =
             [exists |-> TRUE, reserve_one |-> a1,
              reserve_two |-> Deposit(a2), total_supply |-> s,
              launch_timestamp |-> now, graduated |-> FALSE,
              total_sol_raised |-> 0, airdrop_pool |-> AirdropPortion,
              graduation_ts |-> 0]]
  BY DEF AddLiquidity
<1>3. s \in Nat
  BY <1>1, <1>2, SharesNeedDeposit
<1>4. shares' \in [Mints -> [Users -> Nat]]
  BY <1>2, <1>3 DEF TypeOK
<1>5. pool' \in [Mints -> PoolRecords]
  BY <1>1, <1>2, <1>3 DEF TypeOK, PoolRecords
<1>6. sol' \in [Wallets -> Nat]
  BY <1>1, DebitType DEF AddLiquidity, CanSend, TypeOK
<1>7. tok' \in [Mints -> [Wallets -> Nat]]
  <2>1. Debit(tok[m], u, a1) \in [Wallets -> Nat]
    BY <1>1, DebitType DEF AddLiquidity, TypeOK
  <2>. QED  BY <2>1 DEF AddLiquidity, TypeOK
<1>8. vault' \in [Mints -> Nat]
  BY <1>1, CreditType DEF AddLiquidity, TypeOK
<1>9. backing' \in [Mints -> Int] /\ globalSol' \in Nat
  BY <1>1 DEF AddLiquidity, TypeOK, Credit
<1>10. claimed' \in [Mints -> Nat]
  <2>1. Saturating_sub(Deposit(a2), DEPLOY_FEE_LAMPORTS) \in Nat
    BY <1>1 DEF Saturating_sub
  <2>. QED  BY <2>1, CreditType DEF AddLiquidity, TypeOK
<1>. QED  BY <1>4, <1>5, <1>6, <1>7, <1>8, <1>9, <1>10 DEF AddLiquidity, TypeOK

\* The two quantities a swap computes, whatever the rounding.
LEMMA SwapQuote ==
  ASSUME TypeOK, NEW m \in Mints, NEW amount \in Nat,
         NEW adj \in Adjusted(config.fees, amount)
  PROVE  /\ adj \in Nat /\ adj <= amount + FloatSlack
         /\ \A out \in AmountOut(pool[m].reserve_one, pool[m].reserve_two, adj) :
              out \in Nat /\ out <= pool[m].reserve_one
         /\ \A out \in AmountOut(pool[m].reserve_two, pool[m].reserve_one, adj) :
              out \in Nat /\ out <= pool[m].reserve_two
<1>1. adj \in Nat /\ adj <= amount + FloatSlack
  <2>1. config.fees \in ValidFees
    BY DEF TypeOK
  <2>. QED  BY <2>1, AdjustedBounds
<1>2. pool[m].reserve_one \in Nat /\ pool[m].reserve_two \in Nat
  BY DEF TypeOK, PoolRecords
<1>. QED  BY <1>1, <1>2, AmountOutBounds

LEMMA SellType ==
  ASSUME TypeOK, NEW m \in Mints, NEW u \in Users, NEW amount \in Nat,
         Sell(m, u, amount)
  PROVE  TypeOK'
<1>1. /\ u \in Wallets
      /\ pool[m] \in PoolRecords
      /\ pool[m].reserve_one \in Nat /\ pool[m].reserve_two \in Nat
  BY DEF Wallets, TypeOK, PoolRecords
<1>2. PICK adj \in Adjusted(config.fees, amount) :
      \E out \in AmountOut(pool[m].reserve_two, pool[m].reserve_one, adj) :
        /\ CanSend(globalSol, out)
        /\ pool' = [pool EXCEPT ![m] =
             Reserves(AfterFee(pool[m], amount, adj),
                      pool[m].reserve_one + amount,
                      pool[m].reserve_two - out)]
        /\ globalSol' = globalSol - out
        /\ sol' = Credit(sol, u, out)
        /\ backing' = Debit(backing, m, out)
  BY DEF Sell, Pays
<1>3. PICK out \in AmountOut(pool[m].reserve_two, pool[m].reserve_one, adj) :
        /\ CanSend(globalSol, out)
        /\ pool' = [pool EXCEPT ![m] =
             Reserves(AfterFee(pool[m], amount, adj),
                      pool[m].reserve_one + amount,
                      pool[m].reserve_two - out)]
        /\ globalSol' = globalSol - out
        /\ sol' = Credit(sol, u, out)
        /\ backing' = Debit(backing, m, out)
  BY <1>2
<1>4. adj \in Nat /\ out \in Nat /\ out <= pool[m].reserve_two
  BY SwapQuote
<1>5. pool' \in [Mints -> PoolRecords]
  <2>1. AfterFee(pool[m], amount, adj) \in PoolRecords
    BY <1>1, <1>4, AfterFeeType
  <2>2. /\ pool[m].reserve_one + amount \in Nat
        /\ pool[m].reserve_two - out \in Nat
    BY <1>1, <1>4
  <2>3. Reserves(AfterFee(pool[m], amount, adj),
                 pool[m].reserve_one + amount, pool[m].reserve_two - out)
          \in PoolRecords
    BY <2>1, <2>2, ReservesType
  <2>. QED  BY <1>3, <2>3 DEF TypeOK
<1>6. globalSol' \in Nat /\ backing' \in [Mints -> Int]
  BY <1>3, <1>4 DEF CanSend, Debit, TypeOK
<1>7. sol' \in [Wallets -> Nat]
  BY <1>1, <1>3, <1>4, CreditType DEF TypeOK
<1>8. tok' \in [Mints -> [Wallets -> Nat]]
  <2>1. Debit(tok[m], u, amount) \in [Wallets -> Nat]
    BY <1>1, DebitType DEF Sell, Offers, TypeOK
  <2>. QED  BY <2>1 DEF Sell, TypeOK
<1>9. vault' \in [Mints -> Nat] /\ swaps' \in Nat
  <2>1. vault' = Credit(vault, m, amount) /\ swaps' = swaps + 1
    BY DEF Sell
  <2>2. vault \in [Mints -> Nat] /\ swaps \in Nat
    BY DEF TypeOK
  <2>3. Credit(vault, m, amount) \in [Mints -> Nat]
    BY <2>2, CreditType
  <2>. QED  BY <2>1, <2>2, <2>3
<1>. QED  BY <1>5, <1>6, <1>7, <1>8, <1>9 DEF Sell, TypeOK

LEMMA BuyType ==
  ASSUME TypeOK, NEW m \in Mints, NEW u \in Users, NEW amount \in Nat,
         Buy(m, u, amount)
  PROVE  TypeOK'
<1>1. /\ u \in Wallets
      /\ pool[m] \in PoolRecords
      /\ pool[m].reserve_one \in Nat /\ pool[m].reserve_two \in Nat
  BY DEF Wallets, TypeOK, PoolRecords
<1>2. PICK adj \in Adjusted(config.fees, amount) :
      \E out \in AmountOut(pool[m].reserve_one, pool[m].reserve_two, adj) :
        /\ out <= vault[m]
        /\ pool' = [pool EXCEPT ![m] =
             Raise(Reserves(AfterFee(pool[m], amount, adj),
                            pool[m].reserve_one - out,
                            pool[m].reserve_two + amount), amount)]
        /\ tok' = [tok EXCEPT ![m] = Credit(@, u, out)]
        /\ vault' = Debit(vault, m, out)
  BY DEF Buy
<1>3. PICK out \in AmountOut(pool[m].reserve_one, pool[m].reserve_two, adj) :
        /\ out <= vault[m]
        /\ pool' = [pool EXCEPT ![m] =
             Raise(Reserves(AfterFee(pool[m], amount, adj),
                            pool[m].reserve_one - out,
                            pool[m].reserve_two + amount), amount)]
        /\ tok' = [tok EXCEPT ![m] = Credit(@, u, out)]
        /\ vault' = Debit(vault, m, out)
  BY <1>2
<1>4. adj \in Nat /\ out \in Nat /\ out <= pool[m].reserve_one
  BY SwapQuote
<1>5. pool' \in [Mints -> PoolRecords]
  <2>1. AfterFee(pool[m], amount, adj) \in PoolRecords
    BY <1>1, <1>4, AfterFeeType
  <2>2. /\ pool[m].reserve_one - out \in Nat
        /\ pool[m].reserve_two + amount \in Nat
    BY <1>1, <1>4
  <2>3. Reserves(AfterFee(pool[m], amount, adj),
                 pool[m].reserve_one - out, pool[m].reserve_two + amount)
          \in PoolRecords
    BY <2>1, <2>2, ReservesType
  <2>4. Raise(Reserves(AfterFee(pool[m], amount, adj),
                       pool[m].reserve_one - out,
                       pool[m].reserve_two + amount), amount) \in PoolRecords
    BY <2>3, RaiseType DEF TypeOK
  <2>. QED  BY <1>3, <2>4 DEF TypeOK
<1>6. sol' \in [Wallets -> Nat]
  BY <1>1, DebitType DEF Buy, CanSend, TypeOK
<1>7. tok' \in [Mints -> [Wallets -> Nat]]
  <2>1. Credit(tok[m], u, out) \in [Wallets -> Nat]
    BY <1>1, <1>4, CreditType DEF TypeOK
  <2>. QED  BY <2>1, <1>3 DEF TypeOK
<1>8. vault' \in [Mints -> Nat]
  BY <1>3, <1>4, DebitType DEF TypeOK
<1>9. globalSol' \in Nat /\ backing' \in [Mints -> Int] /\ swaps' \in Nat
  BY DEF Buy, Credit, TypeOK
<1>. QED  BY <1>5, <1>6, <1>7, <1>8, <1>9 DEF Buy, TypeOK

\* The pool's SOL, as the four transfers of prepare_migration move it.
LEMMA MigrationAmounts ==
  ASSUME TypeOK, NEW m \in Mints
  PROVE  /\ ProtocolPart(pool[m].reserve_two) \in Nat
         /\ AirdropPart(pool[m].reserve_two) \in Nat
         /\ HolderPart(pool[m].reserve_two) \in Nat
         /\ SolToEscrow(pool[m].reserve_two) \in Nat
         /\ SentFromGlobal(pool[m].reserve_two) = pool[m].reserve_two
         /\ pool[m].reserve_two \in Nat
<1>1. pool[m].reserve_two \in Nat
  BY DEF TypeOK, PoolRecords
<1>. QED  BY <1>1, GraduationSplit DEF SentFromGlobal

LEMMA PrepareType ==
  ASSUME TypeOK, NEW m \in Mints, NEW h \in Wallets,
         PrepareMigration(m, h)
  PROVE  TypeOK'
<1>. DEFINE s == pool[m].reserve_two
<1>1. /\ ProtocolPart(s) \in Nat /\ AirdropPart(s) \in Nat
      /\ HolderPart(s) \in Nat /\ SolToEscrow(s) \in Nat
      /\ SentFromGlobal(s) = s /\ s \in Nat
  BY MigrationAmounts
<1>2. /\ config.protocol_wallet \in Wallets
      /\ config.airdrop_wallet \in Wallets /\ h \in Wallets
  BY DEF TypeOK, Wallets
<1>3. sol' \in [Wallets -> Nat]
  <2>. DEFINE f == Credit(sol, config.protocol_wallet, ProtocolPart(s))
              g == Credit(f, config.airdrop_wallet, AirdropPart(s))
  <2>1. f \in [Wallets -> Nat]
    BY <1>1, <1>2, CreditType DEF TypeOK
  <2>2. g \in [Wallets -> Nat]
    <3>. HIDE DEF f
    <3>. QED  BY <2>1, <1>1, <1>2, CreditType
  <2>3. Credit(g, h, HolderPart(s)) \in [Wallets -> Nat]
    <3>. HIDE DEF g
    <3>. QED  BY <2>2, <1>1, <1>2, CreditType
  <2>4. sol' = Credit(g, h, HolderPart(s))
    BY DEF PrepareMigration, PayFees
  <2>. QED  BY <2>3, <2>4
<1>4. globalSol' \in Nat /\ backing' \in [Mints -> Int]
  BY <1>1 DEF PrepareMigration, CanSend, Debit, TypeOK
<1>5. escrowSol' \in [Mints -> Nat]
  BY <1>1, CreditType DEF PrepareMigration, TypeOK
<1>6. pool[m].reserve_one \in Nat
  BY DEF TypeOK, PoolRecords
<1>7. vault' \in [Mints -> Nat] /\ escrowTok' \in [Mints -> Nat]
  BY <1>6, CreditType, DebitType DEF PrepareMigration, PoolTokens, TypeOK
<1>8. prepares' \in [Mints -> Nat]
  BY CreditType DEF PrepareMigration, TypeOK
<1>. QED  BY <1>3, <1>4, <1>5, <1>7, <1>8 DEF PrepareMigration, TypeOK

LEMMA WithdrawableNat ==
  ASSUME TypeOK, NEW m \in Mints
  PROVE  Withdrawable(m) \in Nat /\ Withdrawable(m) <= escrowSol[m]
  BY AmountAssumption DEF Withdrawable, Saturating_sub, TypeOK

LEMMA ReleaseType ==
  ASSUME TypeOK, NEW m \in Mints, ReleaseEscrow(m)
  PROVE  TypeOK'
<1>1. config.migration_authority \in Wallets
  BY DEF TypeOK, Wallets
<1>2. sol' \in [Wallets -> Nat]
  BY <1>1, WithdrawableNat, CreditType DEF ReleaseEscrow, TypeOK
<1>3. escrowSol' \in [Mints -> Nat]
  BY WithdrawableNat, DebitType DEF ReleaseEscrow, TypeOK
<1>4. tok' \in [Mints -> [Wallets -> Nat]]
  <2>1. Credit(tok[m], config.migration_authority, escrowTok[m])
          \in [Wallets -> Nat]
    BY <1>1, CreditType DEF TypeOK
  <2>. QED  BY <2>1 DEF ReleaseEscrow, TypeOK
<1>5. escrowTok' \in [Mints -> Nat]
  BY DEF ReleaseEscrow, TypeOK
<1>. QED  BY <1>2, <1>3, <1>4, <1>5 DEF ReleaseEscrow, TypeOK

LEMMA CancelType ==
  ASSUME TypeOK, NEW m \in Mints, CancelEscrow(m)
  PROVE  TypeOK'
<1>1. escrowSol' \in [Mints -> Nat]
  BY WithdrawableNat, DebitType DEF CancelEscrow, TypeOK
<1>2. globalSol' \in Nat /\ backing' \in [Mints -> Int]
  BY WithdrawableNat DEF CancelEscrow, Credit, TypeOK
<1>3. vault' \in [Mints -> Nat]
  BY CreditType DEF CancelEscrow, TypeOK
<1>4. escrowTok' \in [Mints -> Nat]
  BY DEF CancelEscrow, TypeOK
<1>. QED  BY <1>1, <1>2, <1>3, <1>4 DEF CancelEscrow, TypeOK

LEMMA TickType == TypeOK /\ Tick => TypeOK'
  BY ArgumentAssumption DEF Tick, TypeOK

\* The amounts of swaps are naturals: an argument, or a whole balance.
LEMMA SwapAmounts ==
  ASSUME TypeOK, NEW m \in Mints, NEW u \in Users
  PROVE  BuyAmounts \subseteq Nat /\ SellChoices(m, u) \subseteq Nat
<1>1. tok[m][u] \in Nat
  BY DEF TypeOK, Wallets
<1>. QED  BY <1>1, AmountAssumption DEF SellChoices

LEMMA StepType == TypeOK /\ [Next]_vars => TypeOK'
<1>. SUFFICES ASSUME TypeOK, [Next]_vars PROVE TypeOK'
  OBVIOUS
<1>1. ASSUME NEW admin \in Wallets, NEW args \in ConfigArgs,
             Initialize(admin, args)
      PROVE  TypeOK'
  BY <1>1, InitializeType
<1>2. ASSUME NEW m \in Mints, NEW u \in Users,
             NEW a1 \in AmountsOne, NEW a2 \in AmountsTwo,
             AddLiquidity(m, u, a1, a2)
      PROVE  TypeOK'
  BY <1>2, AddLiquidityType
<1>3. ASSUME NEW m \in Mints, NEW u \in Users, NEW amount \in BuyAmounts,
             Buy(m, u, amount)
      PROVE  TypeOK'
  BY <1>3, SwapAmounts, BuyType
<1>4. ASSUME NEW m \in Mints, NEW u \in Users,
             NEW amount \in SellChoices(m, u), Sell(m, u, amount)
      PROVE  TypeOK'
  BY <1>4, SwapAmounts, SellType
<1>5. ASSUME NEW m \in Mints, NEW h \in Wallets, PrepareMigration(m, h)
      PROVE  TypeOK'
  BY <1>5, PrepareType
<1>6. ASSUME NEW m \in Mints, ReleaseEscrow(m)
      PROVE  TypeOK'
  BY <1>6, ReleaseType
<1>7. ASSUME NEW m \in Mints, CancelEscrow(m)
      PROVE  TypeOK'
  BY <1>7, CancelType
<1>8. CASE Tick
  BY <1>8, TickType
<1>9. CASE UNCHANGED vars
  BY <1>9 DEF vars, chain, TypeOK
<1>. QED
  BY <1>1, <1>2, <1>3, <1>4, <1>5, <1>6, <1>7, <1>8, <1>9 DEF Next

\* Every reachable state is well typed: no transfer ever overdraws an account,
\* no reserve is ever negative.
THEOREM TypeCorrect == Spec => []TypeOK
  BY InitType, StepType, PTL DEF Spec

-----------------------------------------------------------------------------
(***************************************************************************)
(* The inductive invariant.  Each action is first summed up by what it     *)
(* does to the one pool it names.                                          *)
(***************************************************************************)
(***************************************************************************)
(* Effects                                                                 *)
(***************************************************************************)
\* What a pool's balances and record are to the invariants.
Same(n) ==
  /\ pool'[n] = pool[n] /\ vault'[n] = vault[n] /\ tok'[n] = tok[n]
  /\ escrowTok'[n] = escrowTok[n]
  /\ prepares'[n] = prepares[n] /\ backing'[n] = backing[n]

Others(m) == \A n \in Mints \ {m} : Same(n)

LEMMA InitializeEffect ==
  ASSUME TypeOK, NEW admin \in Wallets, NEW args \in ConfigArgs,
         Initialize(admin, args)
  PROVE  /\ ~config.exists /\ config'.exists
         /\ config'.migration_authority \in Treasuries
         /\ now' = now
         /\ \A n \in Mints : Same(n)
<1>1. args.migration_authority \in Treasuries
  BY ArgumentAssumption DEF ConfigRecords
<1>. QED  BY <1>1 DEF Initialize, Same

LEMMA AddLiquidityEffect ==
  ASSUME TypeOK, NEW m \in Mints, NEW u \in Users,
         NEW a1 \in AmountsOne, NEW a2 \in AmountsTwo,
         AddLiquidity(m, u, a1, a2)
  PROVE  /\ ~pool[m].exists /\ pool'[m].exists /\ ~pool'[m].graduated
         /\ a1 \in Nat /\ a1 > 0 /\ a1 <= tok[m][u]
         /\ Deposit(a2) \in Nat /\ Deposit(a2) > 0
         /\ pool'[m].reserve_one = a1 /\ pool'[m].reserve_two = Deposit(a2)
         /\ pool'[m].launch_timestamp = now
         /\ pool'[m].total_sol_raised = 0
         /\ tok'[m] = Debit(tok[m], u, a1)
         /\ vault'[m] = vault[m] + a1 /\ escrowTok'[m] = escrowTok[m]
         /\ prepares'[m] = prepares[m]
         /\ backing'[m] = backing[m] + DEPLOY_FEE_LAMPORTS
         /\ now' = now /\ config' = config
         /\ Others(m)
<1>1. a1 \in Nat /\ Deposit(a2) \in Nat
  BY AmountAssumption, DepositNat
<1>2. PICK s \in InitialShares(a1, Deposit(a2)) :
        /\ s > 0
        /\ pool' = [pool EXCEPT ![m] =
             [exists |-> TRUE, reserve_one |-> a1,
              reserve_two |-> Deposit(a2), total_supply |-> s,
              launch_timestamp |-> now, graduated |-> FALSE,
              total_sol_raised |-> 0, airdrop_pool |-> AirdropPortion,
              graduation_ts |-> 0]]
  BY DEF AddLiquidity
<1>3. a1 > 0 /\ Deposit(a2) > 0
  BY <1>1, <1>2, SharesNeedDeposit
<1>4. /\ pool'[m] = [exists |-> TRUE, reserve_one |-> a1,
              reserve_two |-> Deposit(a2), total_supply |-> s,
              launch_timestamp |-> now, graduated |-> FALSE,
              total_sol_raised |-> 0, airdrop_pool |-> AirdropPortion,
              graduation_ts |-> 0]
      /\ \A n \in Mints \ {m} : pool'[n] = pool[n]
  BY <1>2 DEF TypeOK
<1>5. /\ ~pool[m].exists /\ a1 <= tok[m][u]
      /\ tok' = [tok EXCEPT ![m] = Debit(@, u, a1)]
      /\ vault' = Credit(vault, m, a1)
      /\ backing' = Credit(backing, m, DEPLOY_FEE_LAMPORTS)
      /\ UNCHANGED <<now, config, escrowTok, prepares>>
  BY DEF AddLiquidity
<1>6. /\ tok'[m] = Debit(tok[m], u, a1)
      /\ vault'[m] = vault[m] + a1
      /\ backing'[m] = backing[m] + DEPLOY_FEE_LAMPORTS
      /\ \A n \in Mints \ {m} : /\ tok'[n] = tok[n] /\ vault'[n] = vault[n]
                                /\ backing'[n] = backing[n]
  BY <1>5 DEF TypeOK, Credit
<1>. QED  BY <1>1, <1>3, <1>4, <1>5, <1>6 DEF Others, Same

\* Counting the fee changes airdrop_pool only.
LEMMA AfterFeeFields ==
  ASSUME NEW p \in PoolRecords, NEW amount \in Nat, NEW adj \in Nat, NEW f,
         f = AfterFee(p, amount, adj)
  PROVE  /\ f \in PoolRecords
         /\ f.exists = p.exists /\ f.graduated = p.graduated
         /\ f.launch_timestamp = p.launch_timestamp
         /\ f.total_sol_raised = p.total_sol_raised
  BY AfterFeeType DEF AfterFee, PoolRecords

\* A buy then raises total_sol_raised and may graduate the pool.
LEMMA RaiseFields ==
  ASSUME NEW p \in PoolRecords, NEW amount \in Nat, NEW q,
         q = Raise(p, amount)
  PROVE  /\ q.reserve_one = p.reserve_one /\ q.reserve_two = p.reserve_two
         /\ q.exists = p.exists /\ q.launch_timestamp = p.launch_timestamp
         /\ q.total_sol_raised = Saturate(p.total_sol_raised + amount)
         /\ q.graduated = ShouldGraduate(q.total_sol_raised)
  BY DEF Raise, PoolRecords

LEMMA SellEffect ==
  ASSUME TypeOK, NEW m \in Mints, NEW u \in Users, NEW amount \in Nat,
         Sell(m, u, amount)
  PROVE  \E out \in Nat :
           /\ CurveOpen(m) /\ amount > 0 /\ amount <= tok[m][u]
           /\ out <= pool[m].reserve_two
           /\ pool[m].reserve_one > 0 /\ pool[m].reserve_two > 0
                => out < pool[m].reserve_two
           /\ pool'[m].exists /\ ~pool'[m].graduated
           /\ pool'[m].reserve_one = pool[m].reserve_one + amount
           /\ pool'[m].reserve_two = pool[m].reserve_two - out
           /\ (pool'[m].reserve_one + FloatSlack)
                * (pool'[m].reserve_two + FloatSlack)
                >= pool[m].reserve_one * pool[m].reserve_two
           /\ pool'[m].launch_timestamp = pool[m].launch_timestamp
           /\ pool'[m].total_sol_raised = pool[m].total_sol_raised
           /\ tok'[m] = Debit(tok[m], u, amount)
           /\ vault'[m] = vault[m] + amount /\ escrowTok'[m] = escrowTok[m]
           /\ prepares'[m] = prepares[m] /\ backing'[m] = backing[m] - out
           /\ now' = now /\ config' = config
           /\ Others(m)
<1>. DEFINE p == pool[m]
<1>1. /\ p \in PoolRecords
      /\ p.reserve_one \in Nat /\ p.reserve_two \in Nat
  BY DEF TypeOK, PoolRecords
<1>2. PICK adj \in Adjusted(config.fees, amount) :
      \E out \in AmountOut(p.reserve_two, p.reserve_one, adj) :
        /\ pool' = [pool EXCEPT ![m] =
             Reserves(AfterFee(p, amount, adj),
                      p.reserve_one + amount, p.reserve_two - out)]
        /\ backing' = Debit(backing, m, out)
  BY DEF Sell
<1>3. PICK out \in AmountOut(p.reserve_two, p.reserve_one, adj) :
        /\ pool' = [pool EXCEPT ![m] =
             Reserves(AfterFee(p, amount, adj),
                      p.reserve_one + amount, p.reserve_two - out)]
        /\ backing' = Debit(backing, m, out)
  BY <1>2
<1>4. adj \in Nat /\ adj <= amount + FloatSlack /\ out \in Nat /\ out <= p.reserve_two
  BY SwapQuote
<1>5. p.reserve_one > 0 /\ p.reserve_two > 0 => out < p.reserve_two
  BY <1>1, <1>4, AmountOutBounds
<1>6. (p.reserve_two - out + FloatSlack)
        * (p.reserve_one + amount + FloatSlack)
        >= p.reserve_two * p.reserve_one
  BY <1>1, <1>4, QuoteKeepsProduct
<1>7. /\ CurveOpen(m) /\ amount > 0 /\ amount <= tok[m][u]
      /\ tok' = [tok EXCEPT ![m] = Debit(@, u, amount)]
      /\ vault' = Credit(vault, m, amount)
      /\ UNCHANGED <<now, config, escrowTok, prepares>>
  BY DEF Sell, Offers
<1>8. /\ pool'[m] = Reserves(AfterFee(p, amount, adj),
                             p.reserve_one + amount, p.reserve_two - out)
      /\ \A n \in Mints \ {m} : pool'[n] = pool[n]
  BY <1>3 DEF TypeOK
<1>9. /\ pool'[m].reserve_one = p.reserve_one + amount
      /\ pool'[m].reserve_two = p.reserve_two - out
      /\ pool'[m].exists = p.exists /\ pool'[m].graduated = p.graduated
      /\ pool'[m].launch_timestamp = p.launch_timestamp
      /\ pool'[m].total_sol_raised = p.total_sol_raised
  <2>. DEFINE r1 == p.reserve_one + amount
              r2 == p.reserve_two - out
  <2>1. r1 \in Nat /\ r2 \in Nat
    BY <1>1, <1>4
  <2>. DEFINE f == AfterFee(p, amount, adj)
  <2>2. pool'[m] = Reserves(f, r1, r2)
    BY <1>8
  <2>3. /\ f \in PoolRecords
        /\ f.exists = p.exists /\ f.graduated = p.graduated
        /\ f.launch_timestamp = p.launch_timestamp
        /\ f.total_sol_raised = p.total_sol_raised
    <3>1. f = AfterFee(p, amount, adj)
      OBVIOUS
    <3>2. p \in PoolRecords /\ adj \in Nat
      BY <1>1, <1>4
    <3>. HIDE DEF p, r1, r2, f
    <3>3. f \in PoolRecords
      BY <3>1, <3>2, AfterFeeFields
    <3>4. f.exists = p.exists
      BY <3>1, <3>2, AfterFeeFields
    <3>5. f.graduated = p.graduated
      BY <3>1, <3>2, AfterFeeFields
    <3>6. f.launch_timestamp = p.launch_timestamp
      BY <3>1, <3>2, AfterFeeFields
    <3>7. f.total_sol_raised = p.total_sol_raised
      BY <3>1, <3>2, AfterFeeFields
    <3>. QED  BY <3>3, <3>4, <3>5, <3>6, <3>7
  <2>. HIDE DEF p, f, r1, r2
  <2>4. /\ pool'[m].reserve_one = r1 /\ pool'[m].reserve_two = r2
        /\ pool'[m].exists = p.exists /\ pool'[m].graduated = p.graduated
        /\ pool'[m].launch_timestamp = p.launch_timestamp
        /\ pool'[m].total_sol_raised = p.total_sol_raised
    BY <2>1, <2>2, <2>3 DEF Reserves, PoolRecords
  <2>. QED  BY <2>4 DEF r1, r2
<1>10. (pool'[m].reserve_one + FloatSlack) * (pool'[m].reserve_two + FloatSlack)
         >= p.reserve_one * p.reserve_two
  <2>1. ASSUME NEW x \in Int, NEW y \in Int PROVE x * y = y * x
    OBVIOUS
  <2>2. /\ p.reserve_two - out + FloatSlack \in Int
        /\ p.reserve_one + amount + FloatSlack \in Int
    BY <1>1, <1>4, WidthAssumption
  <2>3. (p.reserve_one + amount + FloatSlack) * (p.reserve_two - out + FloatSlack)
          >= p.reserve_one * p.reserve_two
    BY <1>1, <1>6, <2>1, <2>2
  <2>. QED  BY <1>9, <2>3
<1>11. /\ tok'[m] = Debit(tok[m], u, amount)
       /\ vault'[m] = vault[m] + amount
       /\ backing'[m] = backing[m] - out
       /\ \A n \in Mints \ {m} : /\ tok'[n] = tok[n] /\ vault'[n] = vault[n]
                                 /\ backing'[n] = backing[n]
  BY <1>3, <1>7 DEF TypeOK, Credit, Debit
<1>12. Others(m)
  BY <1>7, <1>8, <1>11 DEF Others, Same
<1>. QED
  BY <1>4, <1>5, <1>7, <1>9, <1>10, <1>11, <1>12 DEF CurveOpen

LEMMA BuyEffect ==
  ASSUME TypeOK, NEW m \in Mints, NEW u \in Users, NEW amount \in Nat,
         Buy(m, u, amount)
  PROVE  \E out \in Nat :
           /\ CurveOpen(m) /\ amount > 0
           /\ out <= pool[m].reserve_one /\ out <= vault[m]
           /\ pool[m].reserve_one > 0 /\ pool[m].reserve_two > 0
                => out < pool[m].reserve_one
           /\ WithinWalletCap(now - pool[m].launch_timestamp, SUPPLY,
                              tok[m][u] + out)
           /\ pool'[m].exists
           /\ pool'[m].reserve_one = pool[m].reserve_one - out
           /\ pool'[m].reserve_two = pool[m].reserve_two + amount
           /\ (pool'[m].reserve_one + FloatSlack)
                * (pool'[m].reserve_two + FloatSlack)
                >= pool[m].reserve_one * pool[m].reserve_two
           /\ pool'[m].launch_timestamp = pool[m].launch_timestamp
           /\ pool'[m].total_sol_raised
                = Saturate(pool[m].total_sol_raised + amount)
           /\ pool'[m].graduated = ShouldGraduate(pool'[m].total_sol_raised)
           /\ tok'[m] = Credit(tok[m], u, out)
           /\ vault'[m] = vault[m] - out /\ escrowTok'[m] = escrowTok[m]
           /\ prepares'[m] = prepares[m] /\ backing'[m] = backing[m] + amount
           /\ now' = now /\ config' = config
           /\ Others(m)
<1>. DEFINE p == pool[m]
<1>1. /\ p \in PoolRecords
      /\ p.reserve_one \in Nat /\ p.reserve_two \in Nat
  BY DEF TypeOK, PoolRecords
<1>2. PICK adj \in Adjusted(config.fees, amount) :
      \E out \in AmountOut(p.reserve_one, p.reserve_two, adj) :
        /\ WithinWalletCap(now - p.launch_timestamp, SUPPLY,
                           BalanceAfter(tok[m][u], out))
        /\ out <= vault[m]
        /\ pool' = [pool EXCEPT ![m] =
             Raise(Reserves(AfterFee(p, amount, adj),
                            p.reserve_one - out, p.reserve_two + amount),
                   amount)]
        /\ tok' = [tok EXCEPT ![m] = Credit(@, u, out)]
        /\ vault' = Debit(vault, m, out)
  BY DEF Buy
<1>3. PICK out \in AmountOut(p.reserve_one, p.reserve_two, adj) :
        /\ WithinWalletCap(now - p.launch_timestamp, SUPPLY,
                           BalanceAfter(tok[m][u], out))
        /\ out <= vault[m]
        /\ pool' = [pool EXCEPT ![m] =
             Raise(Reserves(AfterFee(p, amount, adj),
                            p.reserve_one - out, p.reserve_two + amount),
                   amount)]
        /\ tok' = [tok EXCEPT ![m] = Credit(@, u, out)]
        /\ vault' = Debit(vault, m, out)
  BY <1>2
<1>4. adj \in Nat /\ adj <= amount + FloatSlack /\ out \in Nat /\ out <= p.reserve_one
  BY SwapQuote
<1>5. p.reserve_one > 0 /\ p.reserve_two > 0 => out < p.reserve_one
  BY <1>1, <1>4, AmountOutBounds
<1>6. (p.reserve_one - out + FloatSlack)
        * (p.reserve_two + amount + FloatSlack)
        >= p.reserve_one * p.reserve_two
  BY <1>1, <1>4, QuoteKeepsProduct
<1>7. /\ CurveOpen(m) /\ amount > 0
      /\ backing' = Credit(backing, m, amount)
      /\ UNCHANGED <<now, config, escrowTok, prepares>>
  BY DEF Buy
<1>. DEFINE q == Reserves(AfterFee(p, amount, adj),
                          p.reserve_one - out, p.reserve_two + amount)
<1>8. /\ pool'[m] = Raise(q, amount)
      /\ \A n \in Mints \ {m} : pool'[n] = pool[n]
  BY <1>3 DEF TypeOK
<1>9. /\ q \in PoolRecords
      /\ q.reserve_one = p.reserve_one - out
      /\ q.reserve_two = p.reserve_two + amount
      /\ q.exists = p.exists
      /\ q.launch_timestamp = p.launch_timestamp
      /\ q.total_sol_raised = p.total_sol_raised
  <2>. DEFINE r1 == p.reserve_one - out
              r2 == p.reserve_two + amount
  <2>1. r1 \in Nat /\ r2 \in Nat
    BY <1>1, <1>4
  <2>. DEFINE f == AfterFee(p, amount, adj)
  <2>2. q = Reserves(f, r1, r2)
    OBVIOUS
  <2>3. /\ f \in PoolRecords
        /\ f.exists = p.exists
        /\ f.launch_timestamp = p.launch_timestamp
        /\ f.total_sol_raised = p.total_sol_raised
    <3>1. f = AfterFee(p, amount, adj)
      OBVIOUS
    <3>2. p \in PoolRecords /\ adj \in Nat
      BY <1>1, <1>4
    <3>. HIDE DEF p, q, r1, r2, f
    <3>3. f \in PoolRecords
      BY <3>1, <3>2, AfterFeeFields
    <3>4. f.exists = p.exists
      BY <3>1, <3>2, AfterFeeFields
    <3>5. f.launch_timestamp = p.launch_timestamp
      BY <3>1, <3>2, AfterFeeFields
    <3>6. f.total_sol_raised = p.total_sol_raised
      BY <3>1, <3>2, AfterFeeFields
    <3>. QED  BY <3>3, <3>4, <3>5, <3>6
  <2>. HIDE DEF p, q, f, r1, r2
  <2>4. /\ q \in PoolRecords
        /\ q.reserve_one = r1 /\ q.reserve_two = r2
        /\ q.exists = p.exists
        /\ q.launch_timestamp = p.launch_timestamp
        /\ q.total_sol_raised = p.total_sol_raised
    BY <2>1, <2>2, <2>3 DEF Reserves, PoolRecords
  <2>. QED  BY <2>4 DEF r1, r2
<1>10. /\ pool'[m].reserve_one = p.reserve_one - out
       /\ pool'[m].reserve_two = p.reserve_two + amount
       /\ pool'[m].exists = p.exists
       /\ pool'[m].launch_timestamp = p.launch_timestamp
       /\ pool'[m].total_sol_raised = Saturate(p.total_sol_raised + amount)
       /\ pool'[m].graduated = ShouldGraduate(pool'[m].total_sol_raised)
  <2>. HIDE DEF p, q
  <2>. QED  BY <1>8, <1>9, RaiseFields
<1>11. /\ tok'[m] = Credit(tok[m], u, out)
       /\ vault'[m] = vault[m] - out
       /\ backing'[m] = backing[m] + amount
       /\ \A n \in Mints \ {m} : /\ tok'[n] = tok[n] /\ vault'[n] = vault[n]
                                 /\ backing'[n] = backing[n]
  BY <1>3, <1>7 DEF TypeOK, Credit, Debit
<1>12. Others(m)
  BY <1>7, <1>8, <1>11 DEF Others, Same
<1>13. WithinWalletCap(now - p.launch_timestamp, SUPPLY, tok[m][u] + out)
  BY <1>3 DEF BalanceAfter
<1>. QED
  BY <1>3, <1>4, <1>5, <1>6, <1>7, <1>10, <1>11, <1>12, <1>13 DEF CurveOpen

LEMMA PrepareEffect ==
  ASSUME TypeOK, NEW m \in Mints, NEW h \in Wallets,
         PrepareMigration(m, h)
  PROVE  /\ CanMigrate(m)
         /\ pool[m].reserve_one <= vault[m]
         /\ pool' = pool /\ tok' = tok /\ config' = config /\ now' = now
         /\ vault'[m] = vault[m] - pool[m].reserve_one
         /\ escrowTok'[m] = escrowTok[m] + pool[m].reserve_one
         /\ backing'[m] = backing[m] - pool[m].reserve_two
         /\ prepares'[m] = prepares[m] + 1
         /\ \A n \in Mints \ {m} : Same(n) /\ escrowSol'[n] = escrowSol[n]
<1>1. SentFromGlobal(pool[m].reserve_two) = pool[m].reserve_two
  BY MigrationAmounts
<1>2. /\ CanMigrate(m) /\ PoolTokens(m) <= vault[m]
      /\ vault' = Debit(vault, m, PoolTokens(m))
      /\ escrowTok' = Credit(escrowTok, m, PoolTokens(m))
      /\ backing' = Debit(backing, m, pool[m].reserve_two)
      /\ prepares' = Credit(prepares, m, 1)
      /\ escrowSol' = Credit(escrowSol, m, SolToEscrow(pool[m].reserve_two))
      /\ UNCHANGED <<now, config, pool, tok>>
  BY <1>1 DEF PrepareMigration
<1>. QED  BY <1>2 DEF TypeOK, Credit, Debit, Same, PoolTokens

LEMMA ReleaseEffect ==
  ASSUME TypeOK, NEW m \in Mints, ReleaseEscrow(m)
  PROVE  /\ CanMigrate(m)
         /\ pool' = pool /\ config' = config /\ now' = now
         /\ vault' = vault /\ prepares' = prepares /\ backing' = backing
         /\ tok'[m] = Credit(tok[m], config.migration_authority, escrowTok[m])
         /\ escrowTok'[m] = 0
         /\ escrowSol'[m] <= escrowSol[m]
         /\ \A n \in Mints \ {m} : Same(n) /\ escrowSol'[n] = escrowSol[n]
<1>1. /\ CanMigrate(m)
      /\ escrowSol' = Debit(escrowSol, m, Withdrawable(m))
      /\ tok' = [tok EXCEPT
           ![m] = Credit(@, config.migration_authority, escrowTok[m])]
      /\ escrowTok' = [escrowTok EXCEPT ![m] = 0]
      /\ UNCHANGED <<now, config, pool, vault, backing, prepares>>
  BY DEF ReleaseEscrow
<1>2. Withdrawable(m) \in Nat
  BY WithdrawableNat
<1>. QED  BY <1>1, <1>2 DEF TypeOK, Debit, Same

LEMMA CancelEffect ==
  ASSUME TypeOK, NEW m \in Mints, CancelEscrow(m)
  PROVE  /\ CanMigrate(m) /\ prepares[m] > 0
         /\ pool' = pool /\ config' = config /\ now' = now /\ tok' = tok
         /\ prepares' = prepares /\ backing'[m] >= backing[m]
         /\ vault'[m] = vault[m] + escrowTok[m]
         /\ escrowTok'[m] = 0
         /\ escrowSol'[m] <= escrowSol[m]
         /\ \A n \in Mints \ {m} : Same(n) /\ escrowSol'[n] = escrowSol[n]
<1>1. /\ CanMigrate(m) /\ prepares[m] > 0
      /\ escrowSol' = Debit(escrowSol, m, Withdrawable(m))
      /\ vault' = Credit(vault, m, escrowTok[m])
      /\ escrowTok' = [escrowTok EXCEPT ![m] = 0]
      /\ backing' = Credit(backing, m, Withdrawable(m))
      /\ UNCHANGED <<now, config, pool, tok, prepares>>
  BY DEF CancelEscrow
<1>2. Withdrawable(m) \in Nat
  BY WithdrawableNat
<1>. QED  BY <1>1, <1>2 DEF TypeOK, Credit, Debit, Same

-----------------------------------------------------------------------------
(***************************************************************************)
(* IndInv is inductive.                                                    *)
(***************************************************************************)
\* A pool whose balances do not change keeps its invariant.
LEMMA FramePool ==
  ASSUME NEW n \in Mints, PoolInv(n), Same(n), config' = config, now' = now
  PROVE  PoolInv(n)'
  BY DEF Same, PoolInv, Unborn, Alive, Unpaid, CustodyOf, Held, PaidTokens

\* A trade by a user moves no treasury's tokens.
LEMMA TreasuriesDoNotTrade ==
  ASSUME TypeOK, NEW m \in Mints, NEW u \in Users, NEW x \in Nat,
         \/ tok'[m] = Debit(tok[m], u, x)
         \/ tok'[m] = Credit(tok[m], u, x)
  PROVE  /\ \A w \in Treasuries : tok'[m][w] = tok[m][w]
         /\ config.migration_authority \in Treasuries
         /\ tok'[m][config.migration_authority] = PaidTokens(m)
<1>1. u \notin Treasuries
  BY ActorAssumption
<1>2. config.migration_authority \in Treasuries /\ Treasuries \subseteq Wallets
  BY DEF TypeOK, Wallets
<1>3. \A w \in Treasuries : tok'[m][w] = tok[m][w]
  BY <1>1, <1>2 DEF TypeOK, Credit, Debit
<1>. QED  BY <1>2, <1>3 DEF PaidTokens

LEMMA InitPools == Init => \A m \in Mints : PoolInv(m)
<1>. SUFFICES ASSUME Init, NEW m \in Mints PROVE PoolInv(m)
  OBVIOUS
<1>1. /\ pool[m].exists = FALSE /\ vault[m] = 0 /\ escrowTok[m] = 0
      /\ prepares[m] = 0 /\ backing[m] = 0
  BY DEF Init, NoPool
<1>2. \A w \in Wallets : w # Deployer[m] => tok[m][w] = 0
  BY DEF Init
<1>3. \A w \in Treasuries : tok[m][w] = 0
  BY <1>2, ActorAssumption DEF Wallets
<1>4. PaidTokens(m) = 0
  <2>1. config.migration_authority \in Treasuries
    BY InitType DEF TypeOK
  <2>. QED  BY <1>3, <2>1 DEF PaidTokens
<1>. QED
  BY <1>1, <1>2, <1>3, <1>4
  DEF PoolInv, Unborn, Alive, Unpaid, CustodyOf, Held, Wallets

\* Naming the migration authority finds no tokens in its wallet.
LEMMA InitializePools ==
  ASSUME IndInv, NEW admin \in Wallets, NEW args \in ConfigArgs,
         Initialize(admin, args), NEW n \in Mints
  PROVE  PoolInv(n)'
<1>1. /\ ~config.exists /\ config'.exists
      /\ config'.migration_authority \in Treasuries
      /\ now' = now /\ Same(n)
  BY InitializeEffect DEF IndInv
<1>2. PaidTokens(n) = 0 /\ PaidTokens(n)' = 0
  <2>1. config.migration_authority \in Treasuries
    BY DEF IndInv, TypeOK
  <2>2. \A w \in Treasuries : tok[n][w] = 0 /\ tok'[n][w] = 0
    BY <1>1 DEF IndInv, PoolInv, Unpaid, Same
  <2>. QED  BY <1>1, <2>1, <2>2 DEF PaidTokens
<1>3. CustodyOf(n)'
  BY <1>1, <1>2 DEF IndInv, PoolInv, CustodyOf, Held, Same
<1>. QED  BY <1>1, <1>3 DEF IndInv, PoolInv, Unborn, Alive, Unpaid, Same

LEMMA AddLiquidityPool ==
  ASSUME IndInv, NEW m \in Mints, NEW u \in Users,
         NEW a1 \in AmountsOne, NEW a2 \in AmountsTwo,
         AddLiquidity(m, u, a1, a2)
  PROVE  PoolInv(m)'
<1>. DEFINE r1 == pool'[m].reserve_one
            r2 == pool'[m].reserve_two
<1>1. /\ ~pool[m].exists /\ pool'[m].exists /\ ~pool'[m].graduated
      /\ r1 \in Nat /\ r1 > 0 /\ r2 \in Nat /\ r2 > 0
      /\ pool'[m].launch_timestamp = now
      /\ tok'[m] = Debit(tok[m], u, r1)
      /\ vault'[m] = vault[m] + r1 /\ escrowTok'[m] = escrowTok[m]
      /\ prepares'[m] = prepares[m]
      /\ now' = now /\ config' = config
  BY AddLiquidityEffect DEF IndInv
<1>. HIDE DEF r1, r2
<1>2. vault[m] = 0 /\ escrowTok[m] = 0 /\ PaidTokens(m) = 0 /\ prepares[m] = 0
  BY <1>1 DEF IndInv, PoolInv, CustodyOf, Held, Unborn
<1>3. /\ \A w \in Treasuries : tok'[m][w] = tok[m][w]
      /\ PaidTokens(m)' = 0
  BY <1>1, <1>2, TreasuriesDoNotTrade DEF IndInv, PaidTokens
<1>4. CustodyOf(m)'
  BY <1>1, <1>2, <1>3 DEF CustodyOf, Held, r1
<1>5. Alive(m)'
  BY <1>1, <1>2 DEF Alive, IndInv, TypeOK, r1, r2
<1>6. Unpaid(m)' /\ Unborn(m)'
  BY <1>1, <1>3 DEF IndInv, PoolInv, Unpaid, Unborn
<1>. QED  BY <1>4, <1>5, <1>6 DEF PoolInv

LEMMA SellPool ==
  ASSUME IndInv, NEW m \in Mints, NEW u \in Users, NEW amount \in Nat,
         Sell(m, u, amount)
  PROVE  PoolInv(m)'
<1>. DEFINE r1 == pool[m].reserve_one
            r2 == pool[m].reserve_two
<1>1. PICK out \in Nat :
        /\ CurveOpen(m)
        /\ (r1 > 0 /\ r2 > 0) => out < r2
        /\ pool'[m].exists /\ ~pool'[m].graduated
        /\ pool'[m].reserve_one = r1 + amount
        /\ pool'[m].reserve_two = r2 - out
        /\ pool'[m].launch_timestamp = pool[m].launch_timestamp
        /\ tok'[m] = Debit(tok[m], u, amount)
        /\ vault'[m] = vault[m] + amount /\ escrowTok'[m] = escrowTok[m]
        /\ prepares'[m] = prepares[m]
        /\ now' = now /\ config' = config
  BY SellEffect DEF IndInv
<1>2. /\ r1 \in Nat /\ r1 > 0 /\ r2 \in Nat /\ r2 > 0 /\ prepares[m] = 0
      /\ Held(m, r1, 0, 0) /\ pool[m].launch_timestamp <= now
  BY <1>1 DEF IndInv, TypeOK, PoolRecords, PoolInv, CustodyOf, Alive, CurveOpen
<1>. HIDE DEF r1, r2
<1>3. /\ \A w \in Treasuries : tok'[m][w] = tok[m][w]
      /\ PaidTokens(m)' = 0
  BY <1>1, <1>2, TreasuriesDoNotTrade DEF IndInv, PaidTokens, Held
<1>4. CustodyOf(m)'
  BY <1>1, <1>2, <1>3 DEF CustodyOf, Held
<1>5. Alive(m)'
  BY <1>1, <1>2 DEF Alive
<1>6. Unpaid(m)' /\ Unborn(m)'
  BY <1>1, <1>3 DEF IndInv, PoolInv, Unpaid, Unborn
<1>. QED  BY <1>4, <1>5, <1>6 DEF PoolInv

LEMMA BuyPool ==
  ASSUME IndInv, NEW m \in Mints, NEW u \in Users, NEW amount \in Nat,
         Buy(m, u, amount)
  PROVE  PoolInv(m)'
<1>. DEFINE r1 == pool[m].reserve_one
            r2 == pool[m].reserve_two
<1>1. PICK out \in Nat :
        /\ CurveOpen(m)
        /\ (r1 > 0 /\ r2 > 0) => out < r1
        /\ pool'[m].exists
        /\ pool'[m].reserve_one = r1 - out
        /\ pool'[m].reserve_two = r2 + amount
        /\ pool'[m].launch_timestamp = pool[m].launch_timestamp
        /\ tok'[m] = Credit(tok[m], u, out)
        /\ vault'[m] = vault[m] - out /\ escrowTok'[m] = escrowTok[m]
        /\ prepares'[m] = prepares[m]
        /\ now' = now /\ config' = config
  BY BuyEffect DEF IndInv
<1>2. /\ r1 \in Nat /\ r1 > 0 /\ r2 \in Nat /\ r2 > 0 /\ prepares[m] = 0
      /\ Held(m, r1, 0, 0) /\ pool[m].launch_timestamp <= now
  BY <1>1 DEF IndInv, TypeOK, PoolRecords, PoolInv, CustodyOf, Alive, CurveOpen
<1>. HIDE DEF r1, r2
<1>3. /\ \A w \in Treasuries : tok'[m][w] = tok[m][w]
      /\ PaidTokens(m)' = 0
  BY <1>1, <1>2, TreasuriesDoNotTrade DEF IndInv, PaidTokens, Held
<1>4. CustodyOf(m)'
  BY <1>1, <1>2, <1>3 DEF CustodyOf, Held
<1>5. Alive(m)'
  BY <1>1, <1>2 DEF Alive
<1>6. Unpaid(m)' /\ Unborn(m)'
  BY <1>1, <1>3 DEF IndInv, PoolInv, Unpaid, Unborn
<1>. QED  BY <1>4, <1>5, <1>6 DEF PoolInv

\* Only a full vault can fund the escrow: r is positive, and in the other two
\* places of CustodyOf the vault is empty.
LEMMA PreparePool ==
  ASSUME IndInv, NEW m \in Mints, NEW h \in Wallets,
         PrepareMigration(m, h)
  PROVE  PoolInv(m)' /\ Held(m, pool[m].reserve_one, 0, 0)
<1>. DEFINE r == pool[m].reserve_one
<1>1. /\ CanMigrate(m)
      /\ r <= vault[m]
      /\ pool' = pool /\ tok' = tok /\ config' = config /\ now' = now
      /\ vault'[m] = vault[m] - r
      /\ escrowTok'[m] = escrowTok[m] + r
  BY PrepareEffect DEF IndInv
<1>2. /\ r \in Nat /\ r > 0
      /\ Held(m, r, 0, 0) \/ Held(m, 0, r, 0) \/ Held(m, 0, 0, r)
  BY <1>1 DEF IndInv, TypeOK, PoolRecords, PoolInv, CustodyOf, CanMigrate
<1>3. Held(m, r, 0, 0)
  BY <1>1, <1>2 DEF Held
<1>4. Held(m, 0, r, 0)'
  BY <1>1, <1>2, <1>3 DEF Held, PaidTokens
<1>5. CustodyOf(m)'
  BY <1>1, <1>2, <1>4 DEF CustodyOf, CanMigrate
<1>6. Alive(m)' /\ Unpaid(m)' /\ Unborn(m)'
  BY <1>1 DEF IndInv, PoolInv, Alive, Unpaid, Unborn, CanMigrate
<1>. QED  BY <1>3, <1>5, <1>6 DEF PoolInv

LEMMA ReleasePool ==
  ASSUME IndInv, NEW m \in Mints, ReleaseEscrow(m)
  PROVE  /\ PoolInv(m)'
         /\ PaidTokens(m)' = PaidTokens(m) + escrowTok[m]
         /\ escrowTok[m] > 0 => Held(m, 0, pool[m].reserve_one, 0)
<1>. DEFINE r == pool[m].reserve_one
            authority == config.migration_authority
<1>1. /\ CanMigrate(m)
      /\ pool' = pool /\ config' = config /\ now' = now
      /\ vault' = vault /\ prepares' = prepares /\ backing' = backing
      /\ tok'[m] = Credit(tok[m], authority, escrowTok[m])
      /\ escrowTok'[m] = 0
  BY ReleaseEffect DEF IndInv
<1>2. /\ r \in Nat /\ r > 0
      /\ Held(m, r, 0, 0) \/ Held(m, 0, r, 0) \/ Held(m, 0, 0, r)
  BY <1>1 DEF IndInv, TypeOK, PoolRecords, PoolInv, CustodyOf, CanMigrate
<1>3. authority \in Wallets /\ tok[m] \in [Wallets -> Nat] /\ escrowTok[m] \in Nat
  BY DEF IndInv, TypeOK, Wallets
<1>4. PaidTokens(m)' = PaidTokens(m) + escrowTok[m]
  BY <1>1, <1>3 DEF PaidTokens, Credit
<1>5. CASE escrowTok[m] = 0
  <2>1. tok'[m] = tok[m]
    BY <1>1, <1>3, <1>5 DEF Credit
  <2>2. Same(m)
    BY <1>1, <1>5, <2>1 DEF Same
  <2>. QED  BY <1>1, <1>4, <1>5, <2>2, FramePool DEF IndInv
<1>6. CASE escrowTok[m] # 0
  <2>1. Held(m, 0, r, 0)
    BY <1>2, <1>6 DEF Held
  <2>2. Held(m, 0, 0, r)'
    BY <1>1, <1>2, <1>4, <2>1 DEF Held
  <2>3. CustodyOf(m)'
    BY <1>1, <1>2, <2>2 DEF CustodyOf, CanMigrate
  <2>4. Alive(m)' /\ Unpaid(m)' /\ Unborn(m)'
    BY <1>1 DEF IndInv, PoolInv, Alive, Unpaid, Unborn, CanMigrate
  <2>. QED  BY <1>4, <2>1, <2>3, <2>4 DEF PoolInv
<1>. QED  BY <1>5, <1>6

LEMMA CancelPool ==
  ASSUME IndInv, NEW m \in Mints, CancelEscrow(m)
  PROVE  PoolInv(m)'
<1>. DEFINE r == pool[m].reserve_one
<1>1. /\ CanMigrate(m)
      /\ pool' = pool /\ config' = config /\ now' = now /\ tok' = tok
      /\ prepares' = prepares
      /\ vault'[m] = vault[m] + escrowTok[m]
      /\ escrowTok'[m] = 0
  BY CancelEffect DEF IndInv
<1>2. /\ r \in Nat /\ r > 0
      /\ Held(m, r, 0, 0) \/ Held(m, 0, r, 0) \/ Held(m, 0, 0, r)
  BY <1>1 DEF IndInv, TypeOK, PoolRecords, PoolInv, CustodyOf, CanMigrate
<1>3. Held(m, r, 0, 0)' \/ Held(m, 0, 0, r)'
  BY <1>1, <1>2 DEF Held, PaidTokens
<1>4. CustodyOf(m)'
  BY <1>1, <1>2, <1>3 DEF CustodyOf, CanMigrate
<1>5. Alive(m)' /\ Unpaid(m)' /\ Unborn(m)'
  BY <1>1 DEF IndInv, PoolInv, Alive, Unpaid, Unborn, CanMigrate
<1>. QED  BY <1>4, <1>5 DEF PoolInv

LEMMA TickPools ==
  ASSUME IndInv, Tick, NEW m \in Mints
  PROVE  PoolInv(m)'
<1>1. /\ now' \in Nat /\ now' > now
      /\ UNCHANGED <<config, pool, tok, vault, escrowTok, backing, prepares>>
  BY ArgumentAssumption DEF Tick
<1>. QED
  BY <1>1 DEF IndInv, TypeOK, PoolRecords, PoolInv, Unborn, Alive, Unpaid,
              CustodyOf, Held, PaidTokens

LEMMA Induction == IndInv /\ [Next]_vars => IndInv'
<1>. SUFFICES ASSUME IndInv, [Next]_vars, NEW n \in Mints
              PROVE  PoolInv(n)'
  BY StepType DEF IndInv
<1>. USE DEF IndInv
<1>0. ASSUME NEW m \in Mints, Others(m), PoolInv(m)', config' = config,
             now' = now
      PROVE  PoolInv(n)'
  BY <1>0, FramePool DEF Others
<1>1. ASSUME NEW admin \in Wallets, NEW args \in ConfigArgs,
             Initialize(admin, args)
      PROVE  PoolInv(n)'
  BY <1>1, InitializePools
<1>2. ASSUME NEW m \in Mints, NEW u \in Users,
             NEW a1 \in AmountsOne, NEW a2 \in AmountsTwo,
             AddLiquidity(m, u, a1, a2)
      PROVE  PoolInv(n)'
  BY <1>0, <1>2, AddLiquidityPool, AddLiquidityEffect
<1>3. ASSUME NEW m \in Mints, NEW u \in Users, NEW amount \in BuyAmounts,
             Buy(m, u, amount)
      PROVE  PoolInv(n)'
  <2>1. amount \in Nat
    BY AmountAssumption
  <2>2. PoolInv(m)'
    BY <1>3, <2>1, BuyPool
  <2>3. Others(m) /\ config' = config /\ now' = now
    BY <1>3, <2>1, BuyEffect
  <2>. QED  BY <1>0, <2>2, <2>3
<1>4. ASSUME NEW m \in Mints, NEW u \in Users,
             NEW amount \in SellChoices(m, u), Sell(m, u, amount)
      PROVE  PoolInv(n)'
  <2>1. amount \in Nat
    BY SwapAmounts
  <2>2. PoolInv(m)'
    BY <1>4, <2>1, SellPool
  <2>3. Others(m) /\ config' = config /\ now' = now
    BY <1>4, <2>1, SellEffect
  <2>. QED  BY <1>0, <2>2, <2>3
<1>5. ASSUME NEW m \in Mints, NEW h \in Wallets, PrepareMigration(m, h)
      PROVE  PoolInv(n)'
  BY <1>0, <1>5, PreparePool, PrepareEffect DEF Others
<1>6. ASSUME NEW m \in Mints, ReleaseEscrow(m)
      PROVE  PoolInv(n)'
  BY <1>0, <1>6, ReleasePool, ReleaseEffect DEF Others
<1>7. ASSUME NEW m \in Mints, CancelEscrow(m)
      PROVE  PoolInv(n)'
  BY <1>0, <1>7, CancelPool, CancelEffect DEF Others
<1>8. CASE Tick
  BY <1>8, TickPools
<1>9. CASE UNCHANGED vars
  BY <1>9, FramePool DEF vars, chain, Same
<1>. QED
  BY <1>1, <1>2, <1>3, <1>4, <1>5, <1>6, <1>7, <1>8, <1>9 DEF Next

\* The inductive invariant holds of every reachable state.
THEOREM Invariant == Spec => []IndInv
<1>1. Init => IndInv
  BY InitType, InitPools DEF IndInv
<1>. QED  BY <1>1, Induction, PTL DEF Spec

\* The tokens a pool record counts are in exactly one place, in every
\* reachable state: no sequence of migrations, cancellations and releases
\* pays them out twice or strands them.
THEOREM Custody == Spec => []TokenCustody
<1>1. IndInv => TokenCustody
  BY DEF IndInv, PoolInv, TokenCustody
<1>. QED  BY <1>1, Invariant, PTL
-----------------------------------------------------------------------------
(***************************************************************************)
(* The curve's and the migration's safety properties, for every value of   *)
(* the constants, and the refinement of PoolLifecycle.  Each proof looks   *)
(* at one pool: a step either leaves it idle or is one of six operations   *)
(* on it (StepOfPool).                                                     *)
(***************************************************************************)

\* A step that is about another pool, the configuration or the clock.
Idle(m) ==
  /\ Same(m) /\ escrowSol'[m] = escrowSol[m]
  /\ now' \in Nat /\ now' >= now
  /\ config.exists => config' = config

LEMMA StepOfPool ==
  ASSUME TypeOK, [Next]_vars, NEW m \in Mints
  PROVE  \/ Idle(m)
         \/ \E u \in Users, a1 \in AmountsOne, a2 \in AmountsTwo :
              AddLiquidity(m, u, a1, a2)
         \/ \E u \in Users, amount \in Nat : Buy(m, u, amount)
         \/ \E u \in Users, amount \in Nat : Sell(m, u, amount)
         \/ \E h \in Wallets : PrepareMigration(m, h)
         \/ ReleaseEscrow(m)
         \/ CancelEscrow(m)
<1>0. now \in Nat
  BY DEF TypeOK
<1>1. ASSUME NEW admin \in Wallets, NEW args \in ConfigArgs,
             Initialize(admin, args)
      PROVE  Idle(m)
  <2>1. ~config.exists /\ now' = now /\ Same(m)
    BY <1>1, InitializeEffect
  <2>2. escrowSol' = escrowSol
    BY <1>1 DEF Initialize
  <2>. QED  BY <1>0, <2>1, <2>2 DEF Idle
<1>2. ASSUME NEW n \in Mints, n # m, NEW u \in Users,
             NEW a1 \in AmountsOne, NEW a2 \in AmountsTwo,
             AddLiquidity(n, u, a1, a2)
      PROVE  Idle(m)
  <2>1. Others(n) /\ now' = now /\ config' = config
    BY <1>2, AddLiquidityEffect
  <2>2. escrowSol' = escrowSol
    BY <1>2 DEF AddLiquidity
  <2>. QED  BY <1>0, <1>2, <2>1, <2>2 DEF Idle, Others
<1>3. ASSUME NEW n \in Mints, n # m, NEW u \in Users, NEW amount \in Nat,
             Buy(n, u, amount)
      PROVE  Idle(m)
  <2>1. Others(n) /\ now' = now /\ config' = config
    BY <1>3, BuyEffect
  <2>2. escrowSol' = escrowSol
    BY <1>3 DEF Buy
  <2>. QED  BY <1>0, <1>3, <2>1, <2>2 DEF Idle, Others
<1>4. ASSUME NEW n \in Mints, n # m, NEW u \in Users, NEW amount \in Nat,
             Sell(n, u, amount)
      PROVE  Idle(m)
  <2>1. Others(n) /\ now' = now /\ config' = config
    BY <1>4, SellEffect
  <2>2. escrowSol' = escrowSol
    BY <1>4 DEF Sell
  <2>. QED  BY <1>0, <1>4, <2>1, <2>2 DEF Idle, Others
<1>5. ASSUME NEW n \in Mints, n # m, NEW h \in Wallets,
             PrepareMigration(n, h)
      PROVE  Idle(m)
  BY <1>0, <1>5, PrepareEffect DEF Idle
<1>6. ASSUME NEW n \in Mints, n # m, ReleaseEscrow(n)
      PROVE  Idle(m)
  BY <1>0, <1>6, ReleaseEffect DEF Idle
<1>7. ASSUME NEW n \in Mints, n # m, CancelEscrow(n)
      PROVE  Idle(m)
  BY <1>0, <1>7, CancelEffect DEF Idle
<1>8. CASE Tick
  <2>1. now' \in Nat /\ now' >= now
    BY <1>0, <1>8, ArgumentAssumption DEF Tick
  <2>. QED  BY <1>8, <2>1 DEF Tick, Idle, Same
<1>9. CASE UNCHANGED vars
  BY <1>0, <1>9 DEF vars, chain, Idle, Same
<1>10. ASSUME NEW n \in Mints, NEW u \in Users
       PROVE  BuyAmounts \subseteq Nat /\ SellChoices(n, u) \subseteq Nat
  BY SwapAmounts
<1>11. CASE \E n \in Mints, u \in Users :
              \/ \E amount \in BuyAmounts : Buy(n, u, amount)
              \/ \E amount \in SellChoices(n, u) : Sell(n, u, amount)
  BY <1>3, <1>4, <1>10, <1>11
<1>. QED
  BY <1>1, <1>2, <1>5, <1>6, <1>7, <1>8, <1>9, <1>11 DEF Next

-----------------------------------------------------------------------------
LEMMA GraduationStep ==
  ASSUME IndInv, [Next]_vars, NEW m \in Mints, GraduationOf(m)
  PROVE  GraduationOf(m)'
<1>. USE DEF IndInv
<1>1. CASE Idle(m)
  BY <1>1 DEF Idle, Same, GraduationOf
<1>2. ASSUME NEW u \in Users, NEW a1 \in AmountsOne, NEW a2 \in AmountsTwo,
             AddLiquidity(m, u, a1, a2)
      PROVE  GraduationOf(m)'
  <2>1. ~pool'[m].graduated /\ pool'[m].total_sol_raised = 0
    BY <1>2, AddLiquidityEffect
  <2>. QED  BY <2>1, AmountAssumption DEF GraduationOf
<1>3. ASSUME NEW u \in Users, NEW amount \in Nat, Buy(m, u, amount)
      PROVE  GraduationOf(m)'
  <2>1. pool'[m].graduated = ShouldGraduate(pool'[m].total_sol_raised)
    BY <1>3, BuyEffect
  <2>. QED  BY <2>1 DEF GraduationOf, ShouldGraduate
<1>4. ASSUME NEW u \in Users, NEW amount \in Nat, Sell(m, u, amount)
      PROVE  GraduationOf(m)'
  <2>1. /\ CurveOpen(m) /\ ~pool'[m].graduated
        /\ pool'[m].total_sol_raised = pool[m].total_sol_raised
    BY <1>4, SellEffect
  <2>. QED  BY <2>1 DEF GraduationOf, CurveOpen
<1>5. CASE pool' = pool
  BY <1>5 DEF GraduationOf
<1>. QED
  BY <1>1, <1>2, <1>3, <1>4, <1>5, StepOfPool, PrepareEffect, ReleaseEffect,
     CancelEffect

\* Graduation is exactly the threshold being reached, in every reachable state.
THEOREM Graduation == Spec => []GraduatedIffRaised
<1>1. Init => GraduatedIffRaised
  BY DEF Init, NoPool, GraduatedIffRaised, GraduationOf
<1>2. IndInv /\ GraduatedIffRaised /\ [Next]_vars => GraduatedIffRaised'
  BY GraduationStep DEF GraduatedIffRaised
<1>. QED  BY <1>1, <1>2, Invariant, PTL DEF Spec

-----------------------------------------------------------------------------
LEMMA CapStep ==
  ASSUME IndInv, [Next]_vars, NEW m \in Mints, CapOf(m),
         NEW u \in Users \ {Deployer[m]}, pool'[m].exists
  PROVE  WithinWalletCap(now - pool[m].launch_timestamp, SUPPLY, tok[m][u])'
<1>. USE DEF IndInv
<1>. DEFINE e == now - pool[m].launch_timestamp
            Goal == WithinWalletCap(e, SUPPLY, tok[m][u])'
<1>1. /\ u \in Users /\ u \in Wallets /\ u \notin Treasuries
      /\ tok[m] \in [Wallets -> Nat] /\ tok[m][u] \in Nat
      /\ SUPPLY \in Nat
  <2>1. u \in Users /\ u \in Wallets
    BY DEF Wallets
  <2>2. u \notin Treasuries
    BY <2>1, ActorAssumption
  <2>3. tok[m] \in [Wallets -> Nat] /\ tok[m][u] \in Nat
    BY <2>1 DEF TypeOK
  <2>. QED  BY <2>1, <2>2, <2>3, AmountAssumption
<1>2. ASSUME pool[m].exists
      PROVE  e \in Nat /\ WithinWalletCap(e, SUPPLY, tok[m][u])
  BY <1>2 DEF CapOf, PoolInv, Alive, TypeOK, PoolRecords
<1>3. ASSUME pool[m].exists,
             pool'[m].launch_timestamp = pool[m].launch_timestamp,
             now' \in Nat, now' >= now, tok'[m][u] \in Nat,
             tok'[m][u] <= tok[m][u]
      PROVE  Goal
  <2>1. e' \in Nat /\ e <= e'
    BY <1>2, <1>3 DEF TypeOK, PoolRecords
  <2>2. e \in Nat /\ WithinWalletCap(e, SUPPLY, tok[m][u])
    BY <1>2, <1>3
  <2>. HIDE DEF e
  <2>3. WithinWalletCap(e', SUPPLY, tok'[m][u])
    BY <1>1, <1>3, <2>1, <2>2, CapLoosens
  <2>. QED  BY <2>3 DEF e
<1>4. CASE Idle(m)
  BY <1>1, <1>3, <1>4 DEF Idle, Same
<1>5. ASSUME NEW v \in Users, NEW a1 \in AmountsOne, NEW a2 \in AmountsTwo,
             AddLiquidity(m, v, a1, a2)
      PROVE  Goal
  <2>1. /\ ~pool[m].exists /\ a1 \in Nat /\ a1 > 0 /\ a1 <= tok[m][v]
        /\ pool'[m].launch_timestamp = now /\ now' = now
        /\ tok'[m] = Debit(tok[m], v, a1)
    BY <1>5, AddLiquidityEffect
  <2>2. \A x \in Users \ {Deployer[m]} : tok[m][x] = 0
    BY <2>1 DEF PoolInv, Unborn
  <2>3. tok'[m][u] = 0
    BY <1>1, <2>1, <2>2 DEF Debit
  <2>4. e' = 0
    BY <2>1 DEF TypeOK
  <2>5. /\ Part(SUPPLY, SNIPE_BPS_1) \in Nat
        /\ Part(SUPPLY, SNIPE_BPS_2) \in Nat
        /\ Part(SUPPLY, SNIPE_BPS_3) \in Nat
    BY <1>1, PartNat, SnipeAssumption
  <2>. QED  BY <2>3, <2>5 DEF WithinWalletCap
<1>6. ASSUME NEW v \in Users, NEW amount \in Nat, Buy(m, v, amount)
      PROVE  Goal
  <2>1. PICK out \in Nat :
          /\ CurveOpen(m)
          /\ WithinWalletCap(e, SUPPLY, tok[m][v] + out)
          /\ pool'[m].launch_timestamp = pool[m].launch_timestamp
          /\ tok'[m] = Credit(tok[m], v, out)
          /\ now' = now
    BY <1>6, BuyEffect
  <2>2. CASE v = u
    BY <1>1, <2>1, <2>2 DEF Credit
  <2>3. CASE v # u
    BY <1>1, <1>3, <2>1, <2>3 DEF Credit, CurveOpen, TypeOK
  <2>. QED  BY <2>2, <2>3
<1>7. ASSUME NEW v \in Users, NEW amount \in Nat, Sell(m, v, amount)
      PROVE  Goal
  <2>1. /\ CurveOpen(m) /\ amount <= tok[m][v]
        /\ pool'[m].launch_timestamp = pool[m].launch_timestamp
        /\ tok'[m] = Debit(tok[m], v, amount)
        /\ now' = now
    BY <1>7, SellEffect
  <2>2. tok'[m][u] \in Nat /\ tok'[m][u] <= tok[m][u]
    BY <1>1, <2>1 DEF Debit
  <2>. QED  BY <1>3, <2>1, <2>2 DEF CurveOpen, TypeOK
<1>8. ASSUME NEW h \in Wallets, PrepareMigration(m, h)
      PROVE  Goal
  BY <1>1, <1>3, <1>8, PrepareEffect DEF CanMigrate, TypeOK
<1>9. CASE ReleaseEscrow(m)
  <2>1. /\ CanMigrate(m) /\ pool' = pool /\ now' = now
        /\ tok'[m] = Credit(tok[m], config.migration_authority, escrowTok[m])
    BY <1>9, ReleaseEffect
  <2>2. config.migration_authority \in Treasuries
    BY DEF TypeOK
  <2>3. tok'[m][u] = tok[m][u]
    BY <1>1, <2>1, <2>2 DEF Credit
  <2>. QED  BY <1>1, <1>3, <2>1, <2>3 DEF CanMigrate, TypeOK
<1>10. CASE CancelEscrow(m)
  BY <1>1, <1>3, <1>10, CancelEffect DEF CanMigrate, TypeOK
<1>. QED
  BY <1>4, <1>5, <1>6, <1>7, <1>8, <1>9, <1>10, StepOfPool

\* No wallet but the deployer's ever exceeds the cap of the window it is in,
\* at any time, whatever it bought, sold and waited for.
THEOREM WalletCap == Spec => []WalletCapHolds
<1>1. Init => WalletCapHolds
  BY DEF Init, NoPool, WalletCapHolds, CapOf
<1>2. IndInv /\ WalletCapHolds /\ [Next]_vars => WalletCapHolds'
  BY CapStep DEF WalletCapHolds, CapOf
<1>. QED  BY <1>1, <1>2, Invariant, PTL DEF Spec

-----------------------------------------------------------------------------
(***************************************************************************)
(* What a pool costs the others.  A pool whose tokens are in the vault has *)
(* its reserve in the global PDA but for what it claimed and what each     *)
(* preparation so far has lost (AgainCost): a cancelled one brings back    *)
(* what it sent to the escrow, which is there as long as the tokens are,   *)
(* but for the rent, so that the fees and the rent are lost.               *)
(***************************************************************************)
Own(m) ==
  backing[m] + claimed[m] + prepares[m] * AgainCost(pool[m].reserve_two)

SubsidyInv(m) ==
  pool[m].exists =>
    /\ prepares[m] = 0 => Own(m) >= pool[m].reserve_two
    /\ prepares[m] > 0 => Own(m) >= AgainCost(pool[m].reserve_two)
    /\ vault[m] > 0 => Own(m) >= pool[m].reserve_two
    /\ escrowTok[m] > 0 => escrowSol[m] >= SolToEscrow(pool[m].reserve_two)

SubsidyBooks == \A m \in Mints : SubsidyInv(m)

\* What is claimed is never forgotten.
LEMMA ClaimStep ==
  ASSUME TypeOK, [Next]_vars, NEW m \in Mints
  PROVE  /\ claimed[m] \in Nat /\ claimed'[m] \in Nat
         /\ claimed'[m] >= claimed[m]
<1>1. claimed \in [Mints -> Nat] /\ claimed' \in [Mints -> Nat]
  BY StepType DEF TypeOK
<1>2. ASSUME NEW n \in Mints, NEW u \in Users,
             NEW a1 \in AmountsOne, NEW a2 \in AmountsTwo,
             AddLiquidity(n, u, a1, a2)
      PROVE  claimed'[m] >= claimed[m]
  <2>1. PICK d \in Nat : d = Saturating_sub(Deposit(a2), DEPLOY_FEE_LAMPORTS)
    BY DepositNat, AmountAssumption DEF Saturating_sub
  <2>2. claimed' = Credit(claimed, n, d)
    BY <1>2, <2>1 DEF AddLiquidity
  <2>. QED  BY <1>1, <2>1, <2>2 DEF Credit
<1>3. CASE claimed' = claimed
  BY <1>1, <1>3
<1>4. \/ claimed' = claimed
      \/ \E n \in Mints, u \in Users, a1 \in AmountsOne, a2 \in AmountsTwo :
           AddLiquidity(n, u, a1, a2)
  BY DEF Next, vars, Initialize, Buy, Sell, PrepareMigration, ReleaseEscrow,
         CancelEscrow, Tick
<1>. QED  BY <1>1, <1>2, <1>3, <1>4

LEMMA AgainCostNat ==
  ASSUME NEW r \in Nat
  PROVE  /\ AgainCost(r) \in Nat /\ SolToEscrow(r) \in Nat
         /\ AgainCost(r) + SolToEscrow(r) = r + RENT
<1>1. /\ ProtocolPart(r) \in Nat /\ AirdropPart(r) \in Nat
      /\ HolderPart(r) \in Nat /\ SolToEscrow(r) \in Nat
      /\ ProtocolPart(r) + AirdropPart(r) + HolderPart(r) + SolToEscrow(r) = r
  BY GraduationSplit
<1>. QED  BY <1>1, AmountAssumption DEF AgainCost

\* One preparation more.
LEMMA OneMore ==
  ASSUME NEW k \in Nat, NEW a \in Nat
  PROVE  /\ k * a \in Nat /\ (k + 1) * a = k * a + a
         /\ k = 0 => k * a = 0 /\ Saturating_sub(k, 1) * a = 0
         /\ k > 0 => Saturating_sub(k, 1) * a = k * a - a
         /\ Saturating_sub(k, 1) * a \in Nat
<1>1. CASE k = 0
  BY <1>1 DEF Saturating_sub
<1>2. CASE k > 0
  <2>1. PICK j \in Nat : k = j + 1
    BY <1>2
  <2>2. Saturating_sub(k, 1) = j
    BY <2>1 DEF Saturating_sub
  <2>3. j * a \in Nat /\ (j + 1) * a = j * a + a /\ (k + 1) * a = k * a + a
    OBVIOUS
  <2>. QED  BY <1>2, <2>1, <2>2, <2>3
<1>. QED  BY <1>1, <1>2

\* SubsidyInv in numbers, before a step and after it.
LEMMA SubsidyIs ==
  ASSUME TypeOK, NEW m \in Mints, SubsidyInv(m)
  PROVE  /\ Cost(m) \in Nat /\ backing[m] \in Int
         /\ SubsidyOf(m)
<1>1. PICK k \in Nat, c \in Nat, b \in Int, r \in Nat :
        /\ k = prepares[m] /\ c = claimed[m] /\ b = backing[m]
        /\ r = pool[m].reserve_two
  BY DEF TypeOK, PoolRecords
<1>2. PICK a \in Nat : a = AgainCost(r)
  BY AgainCostNat
<1>3. PICK x \in Nat : x = k * a
  BY OneMore
<1>4. PICK y \in Nat : /\ y = Saturating_sub(k, 1) * a
                       /\ k = 0 => x = 0 /\ y = 0
                       /\ k > 0 => y = x - a
  BY <1>3, OneMore
<1>5. Cost(m) = c + y /\ Own(m) = b + c + x
  BY <1>1, <1>2, <1>3, <1>4 DEF Cost, Own
<1>6. pool[m].exists => /\ k = 0 => b + c + x >= r
                        /\ k > 0 => b + c + x >= a
  BY <1>1, <1>2, <1>5 DEF SubsidyInv
<1>7. pool[m].exists => /\ k = 0 => b + (c + y) >= r
                        /\ b + (c + y) >= 0
  BY <1>4, <1>6
<1>. QED  BY <1>1, <1>5, <1>7 DEF SubsidyOf

LEMMA SubsidyStep ==
  ASSUME IndInv, [Next]_vars, NEW m \in Mints, SubsidyInv(m)
  PROVE  SubsidyInv(m)'
<1>. USE DEF IndInv
<1>1. PICK k \in Nat, b \in Int, r \in Nat, v \in Nat, t \in Nat, s \in Nat :
        /\ k = prepares[m] /\ b = backing[m] /\ r = pool[m].reserve_two
        /\ v = vault[m] /\ t = escrowTok[m] /\ s = escrowSol[m]
  BY DEF TypeOK, PoolRecords
<1>2. PICK c \in Nat, d \in Nat : c = claimed[m] /\ d = claimed'[m] /\ d >= c
  BY ClaimStep
<1>3. PICK a \in Nat, e \in Nat :
        a = AgainCost(r) /\ e = SolToEscrow(r) /\ a + e = r + RENT
  BY AgainCostNat
<1>4. PICK x \in Nat : x = k * a /\ (k = 0 => x = 0) /\ (k + 1) * a = x + a
  BY OneMore
<1>5. Own(m) = b + c + x
  BY <1>1, <1>2, <1>3, <1>4 DEF Own
<1>6. pool[m].exists => /\ k = 0 => b + c + x >= r
                        /\ k > 0 => b + c + x >= a
                        /\ v > 0 => b + c + x >= r
                        /\ t > 0 => s >= e
  BY <1>1, <1>3, <1>5 DEF SubsidyInv
\* A step that keeps the pool's record and takes nothing from the others.
<1>7. ASSUME pool'[m] = pool[m], prepares'[m] = k,
             NEW b2 \in Int, backing'[m] = b2, b2 >= b,
             vault'[m] > 0 => v > 0 \/ b2 + d + x >= r,
             escrowTok'[m] > 0 => t > 0 /\ escrowSol'[m] = s
      PROVE  SubsidyInv(m)'
  <2>1. Own(m)' = b2 + d + x
    BY <1>1, <1>2, <1>3, <1>4, <1>7 DEF Own
  <2>. QED  BY <1>1, <1>2, <1>3, <1>6, <1>7, <2>1 DEF SubsidyInv
\* A step before the first preparation: what remains is to compare sums.
<1>8. ASSUME NEW r2 \in Nat, pool'[m].reserve_two = r2, prepares'[m] = 0,
             NEW b2 \in Int, backing'[m] = b2, b2 + d >= r2,
             escrowTok'[m] = 0
      PROVE  SubsidyInv(m)'
  <2>1. PICK a2 \in Nat : a2 = AgainCost(r2)
    BY AgainCostNat
  <2>2. 0 * a2 = 0
    OBVIOUS
  <2>3. Own(m)' = b2 + d
    BY <1>2, <1>8, <2>1, <2>2 DEF Own
  <2>. QED  BY <1>8, <2>3 DEF SubsidyInv
<1>9. CASE Idle(m)
  <2>1. /\ pool'[m] = pool[m] /\ prepares'[m] = k /\ backing'[m] = b
        /\ vault'[m] = v /\ escrowTok'[m] = t /\ escrowSol'[m] = s
    BY <1>1, <1>9 DEF Idle, Same
  <2>. QED  BY <1>7, <2>1
<1>10. ASSUME NEW u \in Users, NEW a1 \in AmountsOne, NEW a2 \in AmountsTwo,
              AddLiquidity(m, u, a1, a2)
       PROVE  SubsidyInv(m)'
  <2>1. PICK f \in Nat, z \in Nat : f = DEPLOY_FEE_LAMPORTS /\ z = Deposit(a2)
    BY DepositNat, AmountAssumption
  <2>2. /\ ~pool[m].exists
        /\ pool'[m].reserve_two = z
        /\ backing'[m] = b + f /\ prepares'[m] = k /\ escrowTok'[m] = t
    BY <1>1, <1>10, <2>1, AddLiquidityEffect
  <2>3. b = 0 /\ k = 0 /\ t = 0
    BY <1>1, <2>2 DEF PoolInv, Unborn, CustodyOf, Held
  <2>4. claimed' = Credit(claimed, m, Saturating_sub(z, f))
    BY <1>10, <2>1 DEF AddLiquidity
  <2>5. d = c + Saturating_sub(z, f)
    BY <1>2, <2>4 DEF Credit, TypeOK
  <2>6. f + d >= z
    BY <2>1, <2>5 DEF Saturating_sub
  <2>. QED  BY <1>8, <2>1, <2>2, <2>3, <2>6
<1>11. ASSUME NEW u \in Users, NEW amount \in Nat, Buy(m, u, amount)
       PROVE  SubsidyInv(m)'
  <2>1. /\ CurveOpen(m)
        /\ pool'[m].reserve_two = r + amount
        /\ escrowTok'[m] = t
        /\ prepares'[m] = k /\ backing'[m] = b + amount
    BY <1>1, <1>11, BuyEffect
  <2>2. k = 0 /\ t = 0
    BY <1>1, <2>1 DEF PoolInv, Alive, CurveOpen, CustodyOf, Held
  <2>3. b + c >= r
    BY <1>4, <1>6, <2>1, <2>2 DEF CurveOpen
  <2>. QED  BY <1>2, <1>8, <2>1, <2>2, <2>3
<1>12. ASSUME NEW u \in Users, NEW amount \in Nat, Sell(m, u, amount)
       PROVE  SubsidyInv(m)'
  <2>1. PICK out \in Nat :
          /\ CurveOpen(m)
          /\ out <= r
          /\ pool'[m].reserve_two = r - out
          /\ escrowTok'[m] = t
          /\ prepares'[m] = k /\ backing'[m] = b - out
    BY <1>1, <1>12, SellEffect
  <2>2. k = 0 /\ t = 0
    BY <1>1, <2>1 DEF PoolInv, Alive, CurveOpen, CustodyOf, Held
  <2>3. b + c >= r
    BY <1>4, <1>6, <2>1, <2>2 DEF CurveOpen
  <2>4. r - out \in Nat /\ b - out \in Int /\ (b - out) + d >= r - out
    BY <1>2, <2>1, <2>3
  <2>. QED  BY <1>8, <2>1, <2>2, <2>4
<1>13. ASSUME NEW h \in Wallets, PrepareMigration(m, h)
       PROVE  SubsidyInv(m)'
  <2>1. /\ CanMigrate(m) /\ prepares'[m] = k + 1 /\ pool' = pool
        /\ pool[m].reserve_one <= v /\ vault'[m] = v - pool[m].reserve_one
        /\ backing'[m] = b - r
    BY <1>1, <1>13, PrepareEffect
  <2>2. v = pool[m].reserve_one /\ v > 0
    BY <1>1, <1>13, <2>1, PreparePool DEF PoolInv, Alive, CanMigrate, Held, TypeOK,
       PoolRecords
  <2>3. escrowSol'[m] = s + e
    BY <1>1, <1>3, <1>13 DEF PrepareMigration, Credit, TypeOK
  <2>4. b + c + x >= r
    BY <1>6, <2>1, <2>2 DEF CanMigrate
  <2>5. Own(m)' = (b - r) + d + (x + a)
    BY <1>1, <1>2, <1>3, <1>4, <2>1 DEF Own
  <2>6. Own(m)' >= a /\ s + e >= e
    BY <1>2, <2>4, <2>5
  <2>7. vault'[m] = 0
    BY <2>1, <2>2
  <2>. QED  BY <1>1, <1>3, <2>1, <2>3, <2>6, <2>7 DEF SubsidyInv
<1>14. CASE ReleaseEscrow(m)
  <2>1. /\ pool' = pool /\ prepares'[m] = k /\ backing'[m] = b
        /\ vault'[m] = v /\ escrowTok'[m] = 0
    BY <1>1, <1>14, ReleaseEffect
  <2>. QED  BY <1>7, <2>1
<1>15. CASE CancelEscrow(m)
  <2>1. PICK w \in Nat : w = Withdrawable(m) /\ w >= s - RENT
    BY <1>1, WithdrawableNat, AmountAssumption DEF Withdrawable, Saturating_sub
  <2>2. /\ CanMigrate(m) /\ k > 0 /\ prepares'[m] = k /\ pool' = pool
        /\ vault'[m] = v + t /\ escrowTok'[m] = 0
    BY <1>1, <1>15, CancelEffect
  <2>3. backing'[m] = b + w
    BY <1>1, <1>15, <2>1 DEF CancelEscrow, Credit, TypeOK
  <2>4. t > 0 => (b + w) + d + x >= r
    <3>1. RENT \in Nat
      BY AmountAssumption
    <3>. QED  BY <1>2, <1>3, <1>6, <2>1, <2>2, <3>1 DEF CanMigrate
  <2>. QED  BY <1>7, <2>2, <2>3, <2>4
<1>. QED
  BY <1>9, <1>10, <1>11, <1>12, <1>13, <1>14, <1>15, StepOfPool

LEMMA SubsidyInvariant == Spec => []SubsidyBooks
<1>1. Init => SubsidyBooks
  BY DEF Init, NoPool, SubsidyInv, SubsidyBooks
<1>2. IndInv /\ SubsidyBooks /\ [Next]_vars => SubsidyBooks'
  BY SubsidyStep DEF SubsidyBooks
<1>. QED  BY <1>1, <1>2, Invariant, PTL DEF Spec

\* No pool is paid out of another pool's SOL but for its Cost, whatever its
\* deploy claimed and however often its migration is prepared.
THEOREM NoSubsidy == Spec => []NoCrossSubsidy
<1>1. IndInv /\ SubsidyBooks => NoCrossSubsidy
  BY SubsidyIs DEF IndInv, NoCrossSubsidy, SubsidyBooks
<1>. QED  BY <1>1, Invariant, SubsidyInvariant, PTL

-----------------------------------------------------------------------------
LEMMA PaidStep ==
  ASSUME IndInv, [Next]_vars, NEW m \in Mints, PaidTokens(m) > 0
  PROVE  /\ (PaidTokens(m) > 0)'
         /\ escrowTok'[m] = 0
         /\ escrowSol'[m] <= escrowSol[m]
<1>. USE DEF IndInv
<1>1. /\ PaidTokens(m) \in Nat /\ escrowSol[m] \in Nat
      /\ config.migration_authority \in Treasuries
  BY DEF TypeOK, PaidTokens, Wallets
<1>2. /\ config.exists /\ pool[m].exists /\ pool[m].graduated
      /\ escrowTok[m] = 0 /\ ~Held(m, pool[m].reserve_one, 0, 0)
  <2>1. config.exists
    BY <1>1 DEF PoolInv, Unpaid, PaidTokens
  <2>2. /\ CustodyOf(m) /\ pool[m].reserve_one \in Nat
    BY DEF PoolInv, TypeOK, PoolRecords
  <2>. QED  BY <1>1, <2>1, <2>2 DEF CustodyOf, Held, TypeOK
<1>3. CASE Idle(m)
  BY <1>1, <1>2, <1>3 DEF Idle, Same, PaidTokens
<1>4. ASSUME NEW u \in Users, NEW a1 \in AmountsOne, NEW a2 \in AmountsTwo,
             AddLiquidity(m, u, a1, a2)
      PROVE  FALSE
  BY <1>2, <1>4, AddLiquidityEffect
<1>5. ASSUME NEW u \in Users, NEW amount \in Nat,
             Buy(m, u, amount) \/ Sell(m, u, amount)
      PROVE  FALSE
  BY <1>2, <1>5 DEF Buy, Sell, Offers, CurveOpen
<1>6. ASSUME NEW h \in Wallets, PrepareMigration(m, h)
      PROVE  FALSE
  BY <1>2, <1>6, PreparePool
<1>7. CASE ReleaseEscrow(m)
  BY <1>1, <1>2, <1>7, ReleaseEffect, ReleasePool
<1>8. CASE CancelEscrow(m)
  BY <1>1, <1>2, <1>8, CancelEffect DEF PaidTokens
<1>. QED
  BY <1>3, <1>4, <1>5, <1>6, <1>7, <1>8, StepOfPool

\* Once the migration authority has a pool's tokens the pool is never prepared
\* again and its escrow only empties.
THEOREM PaidOnce == Spec => PaidOutOnce
<1>1. IndInv /\ [Next]_vars =>
        [\A m \in Mints : PaidTokens(m) > 0 =>
           /\ (PaidTokens(m) > 0)'
           /\ escrowTok'[m] = 0
           /\ escrowSol'[m] <= escrowSol[m]]_vars
  BY PaidStep
<1>. QED  BY <1>1, Invariant, PTL DEF Spec, PaidOutOnce

-----------------------------------------------------------------------------
LEMMA ProductStep ==
  ASSUME TypeOK, [Next]_vars, NEW m \in Mints, CurveOpen(m)
  PROVE  (pool'[m].reserve_one + FloatSlack)
           * (pool'[m].reserve_two + FloatSlack)
           >= pool[m].reserve_one * pool[m].reserve_two
<1>1. /\ pool[m].reserve_one \in Nat /\ pool[m].reserve_two \in Nat
      /\ FloatSlack \in Nat
  BY WidthAssumption DEF TypeOK, PoolRecords
<1>2. ASSUME pool'[m] = pool[m]
      PROVE  (pool'[m].reserve_one + FloatSlack)
               * (pool'[m].reserve_two + FloatSlack)
               >= pool[m].reserve_one * pool[m].reserve_two
  <2>. DEFINE x == pool[m].reserve_one
              y == pool[m].reserve_two
              v == x + FloatSlack
              w == y + FloatSlack
  <2>1. x \in Nat /\ y \in Nat /\ v \in Nat /\ w \in Nat /\ x <= v /\ y <= w
    BY <1>1
  <2>2. x * y \in Nat /\ v * w \in Nat /\ x * y <= v * w
    <3>. HIDE DEF x, y, v, w
    <3>. QED  BY <2>1, ProductMonotone
  <2>. QED  BY <1>2, <2>2
<1>3. CASE Idle(m)
  BY <1>2, <1>3 DEF Idle, Same
<1>4. ASSUME NEW u \in Users, NEW a1 \in AmountsOne, NEW a2 \in AmountsTwo,
             AddLiquidity(m, u, a1, a2)
      PROVE  FALSE
  BY <1>4 DEF AddLiquidity, CurveOpen
<1>5. CASE \E u \in Users, amount \in Nat : Buy(m, u, amount)
  BY <1>5, BuyEffect
<1>6. CASE \E u \in Users, amount \in Nat : Sell(m, u, amount)
  BY <1>6, SellEffect
<1>7. CASE pool' = pool
  BY <1>2, <1>7
<1>. QED
  BY <1>3, <1>4, <1>5, <1>6, <1>7, StepOfPool, PrepareEffect, ReleaseEffect,
     CancelEffect

\* No swap lets the product of the reserves shrink by more than the rounding
\* of one quote.
THEOREM Product == Spec => ProductNeverShrinks
<1>1. TypeOK /\ [Next]_vars =>
        [\A m \in Mints : CurveOpen(m) =>
           (pool'[m].reserve_one + FloatSlack)
             * (pool'[m].reserve_two + FloatSlack)
             >= pool[m].reserve_one * pool[m].reserve_two]_vars
  BY ProductStep
<1>. QED  BY <1>1, TypeCorrect, PTL DEF Spec, ProductNeverShrinks

-----------------------------------------------------------------------------
(***************************************************************************)
(* Holders can exit.  A sell asks for room in the reserve and in the fee   *)
(* split, and for SOL in the global PDA.  The room is there because the    *)
(* tokens of a mint are conserved (SupplyOf), the SOL because the global   *)
(* PDA holds INITIAL_SOL and what every pool has put into it, net          *)
(* (GlobalIsBacking), of each pool its reserve but for what it costs       *)
(* (SubsidyInv), whatever is withdrawn on their behalf; the initial SOL    *)
(* keeps the PDA rent exempt when the last lamport is sold out.            *)
(***************************************************************************)
SupplyOf(m) ==
  SumFunctionOnSet(tok[m], Wallets) + vault[m] + escrowTok[m] = SUPPLY

GlobalIsBacking ==
  globalSol = SumFunctionOnSet(backing, Mints)
                + (IF config.exists THEN INITIAL_SOL ELSE 0)

\* The fee in force is one initialize was called with.
FeesGiven == config.exists => \E args \in ConfigArgs : config.fees = args.fees

LEMMA SumCredit ==
  ASSUME NEW S, IsFiniteSet(S), NEW f \in [S -> Int], NEW x \in S, NEW d \in Int
  PROVE  /\ SumFunctionOnSet(Credit(f, x, d), S) = SumFunctionOnSet(f, S) + d
         /\ SumFunctionOnSet(Debit(f, x, d), S) = SumFunctionOnSet(f, S) - d
<1>1. PICK g : g = Credit(f, x, d)
  OBVIOUS
<1>2. /\ \A y \in S : f[y] \in Int /\ g[y] \in Int
      /\ \A y \in S \ {x} : g[y] = f[y]
      /\ g[x] = f[x] + d
  BY <1>1 DEF Credit
<1>3. SumFunctionOnSet(g, S) = SumFunctionOnSet(f, S) + d
  BY <1>2, SumGrows
<1>4. PICK h : h = Debit(f, x, d)
  OBVIOUS
<1>5. PICK e \in Int : e = -d
  OBVIOUS
<1>6. /\ \A y \in S : f[y] \in Int /\ h[y] \in Int
      /\ \A y \in S \ {x} : h[y] = f[y]
      /\ h[x] = f[x] + e
  BY <1>4, <1>5 DEF Debit
<1>7. SumFunctionOnSet(h, S) = SumFunctionOnSet(f, S) + e
  BY <1>6, SumGrows
<1>8. SumFunctionOnSet(f, S) \in Int
  BY <1>2, SumInt
<1>. QED  BY <1>1, <1>3, <1>4, <1>5, <1>7, <1>8

\* Zero everywhere but at one place.
LEMMA SumOfOne ==
  ASSUME NEW S, IsFiniteSet(S), NEW x \in S, NEW n \in Int, NEW f,
         \A y \in S : f[y] = IF y = x THEN n ELSE 0
  PROVE  SumFunctionOnSet(f, S) = n
<1>1. PICK R : R = S \ {x}
  OBVIOUS
<1>2. IsFiniteSet(R)
  BY <1>1, FS_Subset
<1>3. SumFunctionOnSet(f, S) = f[x] + SumFunctionOnSet(f, R)
  BY <1>1, SumRemove
<1>4. SumFunctionOnSet(f, R) = 0
  BY <1>1, <1>2, SumZero
<1>. QED  BY <1>3, <1>4

\* Nothing of a mint is created or lost.
LEMMA SupplyStep ==
  ASSUME TypeOK, [Next]_vars, IsFiniteSet(Wallets), NEW m \in Mints, SupplyOf(m)
  PROVE  SupplyOf(m)'
<1>1. PICK t \in [Wallets -> Nat] : t = tok[m]
  BY DEF TypeOK
<1>2. PICK v \in Nat, e \in Nat : v = vault[m] /\ e = escrowTok[m]
  BY DEF TypeOK
<1>3. PICK s \in Int : s = SumFunctionOnSet(t, Wallets)
  <2>1. \A w \in Wallets : t[w] \in Int
    BY <1>1
  <2>. QED  BY <2>1, SumInt
<1>4. s + v + e = SUPPLY
  BY <1>1, <1>2, <1>3 DEF SupplyOf
<1>5. ASSUME NEW w \in Wallets, NEW d \in Nat, NEW V, NEW E,
             \/ tok'[m] = Credit(t, w, d) /\ V + E = v + e - d
             \/ tok'[m] = Debit(t, w, d) /\ V + E = v + e + d,
             vault'[m] = V, escrowTok'[m] = E, V \in Int, E \in Int
      PROVE  SupplyOf(m)'
  <2>1. /\ SumFunctionOnSet(Credit(t, w, d), Wallets) = s + d
        /\ SumFunctionOnSet(Debit(t, w, d), Wallets) = s - d
    <3>1. t \in [Wallets -> Int] /\ d \in Int
      BY <1>1
    <3>. QED  BY <1>3, <3>1, SumCredit
  <2>2. SumFunctionOnSet(tok'[m], Wallets) + V + E = SUPPLY
    BY <1>4, <1>5, <2>1
  <2>. QED  BY <1>5, <2>2 DEF SupplyOf
<1>6. ASSUME NEW V, NEW E, tok'[m] = t, V + E = v + e,
             vault'[m] = V, escrowTok'[m] = E, V \in Int, E \in Int
      PROVE  SupplyOf(m)'
  <2>1. SumFunctionOnSet(tok'[m], Wallets) + V + E = SUPPLY
    BY <1>3, <1>4, <1>6
  <2>. QED  BY <1>6, <2>1 DEF SupplyOf
<1>7. CASE Idle(m)
  BY <1>1, <1>2, <1>6, <1>7 DEF Idle, Same
<1>8. ASSUME NEW u \in Users, NEW a1 \in AmountsOne, NEW a2 \in AmountsTwo,
             AddLiquidity(m, u, a1, a2)
      PROVE  SupplyOf(m)'
  <2>1. /\ a1 \in Nat /\ tok'[m] = Debit(t, u, a1)
        /\ vault'[m] = v + a1 /\ escrowTok'[m] = e
    BY <1>1, <1>2, <1>8, AddLiquidityEffect
  <2>. QED  BY <1>5, <2>1 DEF Wallets
<1>9. ASSUME NEW u \in Users, NEW amount \in Nat, Buy(m, u, amount)
      PROVE  SupplyOf(m)'
  <2>1. PICK out \in Nat :
          /\ tok'[m] = Credit(tok[m], u, out)
          /\ vault'[m] = vault[m] - out /\ escrowTok'[m] = escrowTok[m]
    BY <1>9, BuyEffect
  <2>. QED  BY <1>1, <1>2, <1>5, <2>1 DEF Wallets
<1>10. ASSUME NEW u \in Users, NEW amount \in Nat, Sell(m, u, amount)
       PROVE  SupplyOf(m)'
  <2>1. /\ tok'[m] = Debit(t, u, amount)
        /\ vault'[m] = v + amount /\ escrowTok'[m] = e
    BY <1>1, <1>2, <1>10, SellEffect
  <2>. QED  BY <1>5, <2>1 DEF Wallets
<1>11. ASSUME NEW h \in Wallets, PrepareMigration(m, h)
       PROVE  SupplyOf(m)'
  <2>1. pool[m].reserve_one \in Nat
    BY DEF TypeOK, PoolRecords
  <2>2. /\ tok'[m] = t
        /\ vault'[m] = v - pool[m].reserve_one
        /\ escrowTok'[m] = e + pool[m].reserve_one
    BY <1>1, <1>2, <1>11, PrepareEffect
  <2>. QED  BY <1>6, <2>1, <2>2
<1>12. CASE ReleaseEscrow(m)
  <2>1. config.migration_authority \in Wallets
    BY DEF TypeOK, Wallets
  <2>2. /\ tok'[m] = Credit(t, config.migration_authority, e)
        /\ vault'[m] = v /\ escrowTok'[m] = 0
    BY <1>1, <1>2, <1>12, ReleaseEffect
  <2>. QED  BY <1>5, <2>1, <2>2
<1>13. CASE CancelEscrow(m)
  <2>1. /\ tok'[m] = t /\ vault'[m] = v + e /\ escrowTok'[m] = 0
    BY <1>1, <1>2, <1>13, CancelEffect
  <2>. QED  BY <1>6, <2>1
<1>. QED
  BY <1>7, <1>8, <1>9, <1>10, <1>11, <1>12, <1>13, StepOfPool

\* SOL enters or leaves the global PDA on behalf of one pool.
Flows ==
  \E m \in Mints, d \in Int :
    /\ backing' = Credit(backing, m, d) /\ globalSol' = globalSol + d
    /\ config' = config

\* What a step does to the global PDA it does to the backing of one pool, but
\* for the SOL initialize sends.
LEMMA GlobalFlow ==
  ASSUME TypeOK, [Next]_vars
  PROVE  \/ Flows
         \/ /\ UNCHANGED backing
            /\ ~config.exists /\ config'.exists
            /\ globalSol' = globalSol + INITIAL_SOL
            /\ \E args \in ConfigArgs : config'.fees = args.fees
         \/ UNCHANGED <<backing, globalSol, config>>
<1>0. /\ backing \in [Mints -> Int] /\ globalSol \in Nat
      /\ \A n \in Mints : escrowSol[n] \in Nat
  BY DEF TypeOK
<1>1. ASSUME NEW m \in Mints, NEW d \in Nat,
             backing' = Credit(backing, m, d) /\ globalSol' = globalSol + d,
             config' = config
      PROVE  Flows
  BY <1>1 DEF Flows
<1>2. ASSUME NEW m \in Mints, NEW d \in Nat,
             backing' = Debit(backing, m, d) /\ globalSol' = globalSol - d,
             config' = config
      PROVE  Flows
  <2>1. PICK c \in Int : c = -d
    OBVIOUS
  <2>2. Debit(backing, m, d) = Credit(backing, m, c) /\ globalSol - d = globalSol + c
    BY <1>0, <2>1 DEF Credit, Debit
  <2>. QED  BY <1>2, <2>2 DEF Flows
<1>3. ASSUME NEW admin \in Wallets, NEW args \in ConfigArgs,
             Initialize(admin, args)
      PROVE  /\ UNCHANGED backing
             /\ ~config.exists /\ config'.exists
             /\ globalSol' = globalSol + INITIAL_SOL
             /\ config'.fees = args.fees
  BY <1>3 DEF Initialize
<1>4. ASSUME NEW m \in Mints, NEW u \in Users,
             NEW a1 \in AmountsOne, NEW a2 \in AmountsTwo,
             AddLiquidity(m, u, a1, a2)
      PROVE  Flows
  BY <1>1, <1>4, AmountAssumption DEF AddLiquidity
<1>5. ASSUME NEW m \in Mints, NEW u \in Users, NEW amount \in Nat,
             Buy(m, u, amount)
      PROVE  Flows
  BY <1>1, <1>5 DEF Buy
<1>6. ASSUME NEW m \in Mints, NEW u \in Users, NEW amount \in Nat,
             Sell(m, u, amount)
      PROVE  Flows
  <2>1. PICK adj \in Adjusted(config.fees, amount) :
          \E out \in AmountOut(pool[m].reserve_two, pool[m].reserve_one, adj) :
            /\ globalSol' = globalSol - out /\ backing' = Debit(backing, m, out)
    BY <1>6 DEF Sell
  <2>2. PICK out \in AmountOut(pool[m].reserve_two, pool[m].reserve_one, adj) :
            /\ globalSol' = globalSol - out /\ backing' = Debit(backing, m, out)
    BY <2>1
  <2>3. out \in Nat
    BY SwapQuote
  <2>4. config' = config
    BY <1>6 DEF Sell
  <2>. QED  BY <1>2, <2>2, <2>3, <2>4
<1>7. ASSUME NEW m \in Mints, NEW h \in Wallets, PrepareMigration(m, h)
      PROVE  Flows
  <2>1. /\ SentFromGlobal(pool[m].reserve_two) = pool[m].reserve_two
        /\ pool[m].reserve_two \in Nat
    BY MigrationAmounts DEF TypeOK, PoolRecords
  <2>2. /\ globalSol' = globalSol - pool[m].reserve_two
        /\ backing' = Debit(backing, m, pool[m].reserve_two)
        /\ config' = config
    BY <1>7, <2>1 DEF PrepareMigration
  <2>. QED  BY <1>2, <2>1, <2>2
<1>8. ASSUME NEW m \in Mints, CancelEscrow(m)
      PROVE  Flows
  <2>1. Withdrawable(m) \in Nat
    BY WithdrawableNat
  <2>. QED  BY <1>1, <1>8, <2>1 DEF CancelEscrow
<1>9. ASSUME NEW m \in Mints, ReleaseEscrow(m)
      PROVE  UNCHANGED <<backing, globalSol, config>>
  BY <1>9 DEF ReleaseEscrow
<1>10. CASE Tick
  BY <1>10 DEF Tick
<1>11. CASE UNCHANGED vars
  BY <1>11 DEF vars, chain
<1>12. ASSUME NEW n \in Mints, NEW u \in Users
       PROVE  BuyAmounts \subseteq Nat /\ SellChoices(n, u) \subseteq Nat
  BY SwapAmounts
<1>13. ASSUME NEW n \in Mints, NEW u \in Users,
              \/ \E amount \in BuyAmounts : Buy(n, u, amount)
              \/ \E amount \in SellChoices(n, u) : Sell(n, u, amount)
       PROVE  Flows
  BY <1>5, <1>6, <1>12, <1>13
<1>14. \/ Flows
       \/ \E args \in ConfigArgs :
             /\ UNCHANGED backing
             /\ ~config.exists /\ config'.exists
             /\ globalSol' = globalSol + INITIAL_SOL
             /\ config'.fees = args.fees
       \/ UNCHANGED <<backing, globalSol, config>>
  BY <1>3, <1>4, <1>7, <1>8, <1>9, <1>10, <1>11, <1>13 DEF Next
<1>. QED  BY <1>14

LEMMA GlobalStep ==
  ASSUME TypeOK, [Next]_vars, IsFiniteSet(Mints), GlobalIsBacking, FeesGiven
  PROVE  GlobalIsBacking' /\ FeesGiven'
<1>1. backing \in [Mints -> Int] /\ globalSol \in Nat /\ INITIAL_SOL \in Nat
  BY AmountAssumption DEF TypeOK
<1>2. PICK s \in Int : s = SumFunctionOnSet(backing, Mints)
  <2>1. \A m \in Mints : backing[m] \in Int
    BY <1>1
  <2>. QED  BY <2>1, SumInt
<1>3. CASE Flows
  <2>1. PICK m \in Mints, d \in Int :
              /\ backing' = Credit(backing, m, d) /\ globalSol' = globalSol + d
              /\ config' = config
    BY <1>3 DEF Flows
  <2>2. SumFunctionOnSet(backing', Mints) = s + d
    BY <1>1, <1>2, <2>1, SumCredit
  <2>3. GlobalIsBacking'
    BY <1>1, <1>2, <2>1, <2>2 DEF GlobalIsBacking
  <2>. QED  BY <2>1, <2>3 DEF FeesGiven
<1>4. CASE /\ UNCHANGED backing
           /\ ~config.exists /\ config'.exists
           /\ globalSol' = globalSol + INITIAL_SOL
           /\ \E args \in ConfigArgs : config'.fees = args.fees
  BY <1>1, <1>2, <1>4 DEF GlobalIsBacking, FeesGiven
<1>5. CASE UNCHANGED <<backing, globalSol, config>>
  BY <1>5 DEF GlobalIsBacking, FeesGiven
<1>. QED  BY <1>3, <1>4, <1>5, GlobalFlow

\* Both, and the fee that initialize was given.
Accounts == GlobalIsBacking /\ FeesGiven /\ \A m \in Mints : SupplyOf(m)

\* The books of the whole program balance: every token of every mint is in a
\* wallet, the vault or the escrow, and the global PDA holds what initialize
\* and the pools have put into it.
THEOREM BooksBalance ==
  ASSUME IsFiniteSet(Mints), IsFiniteSet(Wallets)
  PROVE  Spec => []Accounts
<1>1. Init => Accounts
  <2>. SUFFICES ASSUME Init PROVE Accounts
    OBVIOUS
  <2>1. ASSUME NEW m \in Mints PROVE SupplyOf(m)
    <3>1. Deployer[m] \in Wallets /\ SUPPLY \in Int
      BY ActorAssumption, AmountAssumption DEF Wallets
    <3>2. \A w \in Wallets : tok[m][w] = IF w = Deployer[m] THEN SUPPLY ELSE 0
      BY DEF Init
    <3>3. SumFunctionOnSet(tok[m], Wallets) = SUPPLY
      BY <3>1, <3>2, SumOfOne
    <3>. QED  BY <3>1, <3>3 DEF Init, SupplyOf
  <2>2. SumFunctionOnSet(backing, Mints) = 0
    <3>1. \A m \in Mints : backing[m] = 0
      BY DEF Init
    <3>. QED  BY <3>1, SumZero
  <2>. QED  BY <2>1, <2>2 DEF Init, NoConfig, GlobalIsBacking, FeesGiven, Accounts
<1>2. TypeOK /\ Accounts /\ [Next]_vars => Accounts'
  <2>. SUFFICES ASSUME TypeOK, Accounts, [Next]_vars PROVE Accounts'
    OBVIOUS
  <2>1. GlobalIsBacking' /\ FeesGiven'
    BY GlobalStep DEF Accounts
  <2>2. \A m \in Mints : SupplyOf(m)'
    BY SupplyStep DEF Accounts
  <2>. QED  BY <2>1, <2>2 DEF Accounts
<1>. QED  BY <1>1, <1>2, TypeCorrect, PTL DEF Spec
-----------------------------------------------------------------------------
(***************************************************************************)
(* A quote that pays.                                                      *)
(***************************************************************************)
\* What is left of an amount after the fee, quoted without rounding.
Net(fees, amount) == IF fees = NaN THEN 0 ELSE Part(amount, 10000 - fees)

LEMMA NetIs ==
  ASSUME NEW fees \in ValidFees, NEW amount \in Nat
  PROVE  /\ Net(fees, amount) \in Nat /\ Net(fees, amount) <= amount
         /\ Net(fees, amount) \in Adjusted(fees, amount)
<1>1. CASE fees = NaN
  BY <1>1 DEF Net, Adjusted
<1>2. CASE fees # NaN
  <2>1. 10000 - fees \in Nat /\ 10000 - fees <= 10000
    BY <1>2 DEF ValidFees
  <2>2. PICK x : x = Part(amount, 10000 - fees)
    OBVIOUS
  <2>3. x \in Nat /\ x <= amount
    BY <2>1, <2>2, PartBounds
  <2>4. x \in Near(x)
    BY <2>3, WidthAssumption DEF Near
  <2>. QED  BY <1>2, <2>2, <2>3, <2>4 DEF Net, Adjusted
<1>. QED  BY <1>1, <1>2

\* There is a quote that does not take the last lamport.
LEMMA QuoteExists ==
  ASSUME NEW rOut \in Nat, NEW rIn \in Nat, NEW adj \in Nat, rOut > 0, rIn > 0
  PROVE  \E out \in AmountOut(rOut, rIn, adj) : out \in Nat /\ out < rOut
<1>1. CASE adj = 0
  BY <1>1 DEF AmountOut
<1>2. CASE adj # 0
  <2>1. PICK d \in Nat : d = rIn + adj
    OBVIOUS
  <2>2. PICK n \in Nat : n = rOut * adj
    OBVIOUS
  <2>3. PICK q : q = n \div d
    OBVIOUS
  <2>4. q \in Nat /\ d * q <= n
    BY <1>2, <2>1, <2>3, QuotientBelow
  <2>5. q < rOut
    <3>1. SUFFICES ASSUME q >= rOut PROVE FALSE
      BY <2>4
    <3>2. d * rOut \in Nat /\ d * q \in Nat /\ d * rOut <= d * q
      BY <2>4, <3>1, ProductMonotone
    <3>3. d * rOut = rIn * rOut + n
      BY <2>1, <2>2
    <3>4. PICK p \in Nat : p = rIn * rOut /\ p > 0
      OBVIOUS
    <3>. QED  BY <2>2, <2>4, <3>2, <3>3, <3>4
  <2>6. q \in Near(q)
    BY <2>4, WidthAssumption DEF Near
  <2>7. q \in AmountOut(rOut, rIn, adj)
    BY <1>2, <2>1, <2>2, <2>3, <2>5, <2>6 DEF AmountOut
  <2>. QED  BY <2>4, <2>5, <2>7
<1>. QED  BY <1>1, <1>2

\* A smaller fee is split without overflow if a larger one is.
LEMMA SplitMonotone ==
  ASSUME NEW a \in Nat, NEW b \in Nat, a <= b, FeeSplitFits(b)
  PROVE  FeeSplitFits(a)
<1>1. ASSUME NEW x \in Nat PROVE a * x <= b * x
  <2>1. b * x = a * x + (b - a) * x
    OBVIOUS
  <2>2. (b - a) * x \in Nat /\ a * x \in Nat
    OBVIOUS
  <2>. QED  BY <2>1, <2>2
<1>2. LP_FEE_BPS \in Nat /\ AIRDROP_FEE_BPS \in Nat /\ MaxU64 \in Nat
  BY FeeAssumption, WidthAssumption
<1>3. a * LP_FEE_BPS <= b * LP_FEE_BPS /\ a * AIRDROP_FEE_BPS <= b * AIRDROP_FEE_BPS
  BY <1>1, <1>2
<1>4. /\ b * LP_FEE_BPS <= MaxU64 /\ b * AIRDROP_FEE_BPS <= MaxU64
      /\ b * LP_FEE_BPS \in Nat /\ b * AIRDROP_FEE_BPS \in Nat
      /\ a * LP_FEE_BPS \in Nat /\ a * AIRDROP_FEE_BPS \in Nat
  BY <1>2 DEF FeeSplitFits
<1>5. ASSUME NEW x \in Nat, NEW y \in Nat, x <= y, y <= MaxU64
      PROVE  x <= MaxU64
  BY <1>2, <1>5
<1>. QED  BY <1>3, <1>4, <1>5 DEF FeeSplitFits

\* The fee grows with the amount.
LEMMA FeeMonotone ==
  ASSUME NEW k \in Nat, k <= 10000, NEW a \in Nat, NEW b \in Nat, a <= b
  PROVE  /\ TotalFee(a, Part(a, k)) \in Nat
         /\ TotalFee(b, Part(b, k)) \in Nat
         /\ TotalFee(a, Part(a, k)) <= TotalFee(b, Part(b, k))
<1>1. PICK x \in Nat : x = Part(a, k) /\ x <= a
  BY PartBounds
<1>2. PICK y \in Nat : y = Part(b, k) /\ y <= b
  BY PartBounds
<1>3. PICK m \in Nat : m = a * k
  OBVIOUS
<1>4. PICK n \in Nat : n = b * k
  OBVIOUS
<1>5. m < 10000 * x + 10000
  BY <1>1, <1>3, DivBounds DEF Part
<1>6. 10000 * y <= n
  BY <1>2, <1>4, DivBounds DEF Part
<1>7. n - m <= 10000 * (b - a)
  <2>1. PICK c \in Nat : c = b - a
    OBVIOUS
  <2>2. PICK l \in Nat : l = 10000 - k
    OBVIOUS
  <2>3. c * l \in Nat
    OBVIOUS
  <2>4. n - m = c * k
    BY <1>3, <1>4, <2>1
  <2>5. c * k = c * 10000 - c * l
    BY <2>2
  <2>. QED  BY <2>1, <2>3, <2>4, <2>5
<1>8. y - x <= b - a
  BY <1>5, <1>6, <1>7
<1>. QED  BY <1>1, <1>2, <1>8 DEF TotalFee, Saturating_sub

\* The SOL of every pool is in the global PDA, beside the initial SOL and but
\* for the costs of all of them.
LEMMA GlobalCovers ==
  ASSUME TypeOK, GlobalIsBacking, IsFiniteSet(Mints), config.exists,
         NEW cost, \A n \in Mints : cost[n] \in Nat /\ backing[n] + cost[n] >= 0,
         NEW m \in Mints
  PROVE  /\ SumFunctionOnSet(cost, Mints) \in Nat
         /\ globalSol + SumFunctionOnSet(cost, Mints)
              >= backing[m] + cost[m] + INITIAL_SOL
<1>1. PICK R : R = Mints \ {m} /\ IsFiniteSet(R)
  BY FS_Subset
<1>2. /\ \A n \in Mints : backing[n] \in Int /\ cost[n] \in Int
      /\ \A n \in R : backing[n] \in Int /\ cost[n] \in Int
  BY <1>1 DEF TypeOK
<1>3. PICK b \in Int, c \in Int : /\ b = SumFunctionOnSet(backing, R)
                                  /\ c = SumFunctionOnSet(cost, R)
  BY <1>1, <1>2, SumInt
<1>4. b + c >= 0
  <2>1. PICK minus \in Int, one \in Int, zero \in Int :
          minus = -1 /\ one = 1 /\ zero = 0
    OBVIOUS
  <2>2. \A n \in R : minus * backing[n] <= one * cost[n] + zero
    BY <1>1, <1>2, <2>1
  <2>3. minus * SumFunctionOnSet(backing, R)
          <= one * SumFunctionOnSet(cost, R) + zero * Cardinality(R)
    BY <1>1, <1>2, <2>2, SumBound
  <2>4. Cardinality(R) \in Nat
    BY <1>1, FS_CardinalityType
  <2>. QED  BY <1>3, <2>1, <2>3, <2>4
<1>5. /\ SumFunctionOnSet(backing, Mints) = backing[m] + b
      /\ SumFunctionOnSet(cost, Mints) = cost[m] + c
  BY <1>1, <1>2, <1>3, SumRemove
<1>6. SumFunctionOnSet(cost, Mints) \in Nat
  BY SumNat
<1>7. globalSol = backing[m] + b + INITIAL_SOL
  BY <1>5 DEF GlobalIsBacking
<1>. QED  BY <1>2, <1>3, <1>4, <1>5, <1>6, <1>7, AmountAssumption

\* A wallet and the reserve of an open curve hold no more than the supply.
LEMMA RoomForTokens ==
  ASSUME IndInv, NEW m \in Mints, SupplyOf(m), IsFiniteSet(Wallets),
         CurveOpen(m), NEW u \in Users
  PROVE  /\ tok[m][u] \in Nat /\ pool[m].reserve_one \in Nat
         /\ tok[m][u] + pool[m].reserve_one <= SUPPLY
<1>1. PICK t \in [Wallets -> Nat] : t = tok[m]
  BY DEF IndInv, TypeOK
<1>2. u \in Wallets /\ \A w \in Wallets : t[w] \in Nat
  BY <1>1 DEF Wallets
<1>3. t[u] <= SumFunctionOnSet(t, Wallets) /\ SumFunctionOnSet(t, Wallets) \in Nat
  BY <1>2, SumMember, SumNat
<1>4. vault[m] = pool[m].reserve_one
  BY DEF IndInv, PoolInv, CustodyOf, Held, CurveOpen
<1>5. vault[m] \in Nat /\ escrowTok[m] \in Nat
  BY DEF IndInv, TypeOK
<1>. QED  BY <1>1, <1>2, <1>3, <1>4, <1>5, AmountAssumption DEF SupplyOf

\* What is needed to sell: a fee that can be split, and a pool that is funded.
LEMMA SellIsPossible ==
  ASSUME IndInv, Accounts, IsFiniteSet(Mints), IsFiniteSet(Wallets),
         SUPPLY <= MaxU64, RENT <= INITIAL_SOL,
         NEW m \in Mints, NEW u \in Users, CurveOpen(m), Funded(m),
         sol[u] >= RENT,
         NEW amount \in Nat, amount > 0, amount <= tok[m][u],
         FeeSplitFits(TotalFee(amount, Net(config.fees, amount)))
  PROVE  CanSell(m, u, amount)
<1>1. PICK r1 \in Nat, r2 \in Nat :
        r1 = pool[m].reserve_one /\ r2 = pool[m].reserve_two
  BY DEF IndInv, TypeOK, PoolRecords
<1>2. r1 > 0 /\ r2 > 0
  BY <1>1 DEF IndInv, PoolInv, Alive, CurveOpen
<1>3. PICK adj \in Nat : adj = Net(config.fees, amount)
        /\ adj <= amount /\ adj \in Adjusted(config.fees, amount)
  <2>1. config.fees \in ValidFees
    BY DEF IndInv, TypeOK
  <2>. QED  BY <2>1, NetIs
<1>4. PICK out \in AmountOut(r2, r1, adj) : out \in Nat /\ out < r2
  BY <1>2, QuoteExists
<1>5. r1 + amount <= MaxU64 /\ r1 + adj <= MaxU64
  <2>1. tok[m][u] \in Nat /\ tok[m][u] + r1 <= SUPPLY
    BY <1>1, RoomForTokens DEF Accounts
  <2>. QED  BY <1>3, <2>1, AmountAssumption, WidthAssumption
<1>6. CanSend(globalSol, out)
  <2>0. PICK zero : zero = [n \in Mints |-> 0]
    OBVIOUS
  <2>1. globalSol >= backing[m] + INITIAL_SOL /\ backing[m] >= r2
    <3>1. \A n \in Mints : zero[n] \in Nat /\ backing[n] + zero[n] >= 0
      BY <2>0 DEF Funded, IndInv, TypeOK
    <3>2. SumFunctionOnSet(zero, Mints) = 0
      BY <2>0, SumZero
    <3>3. globalSol + 0 >= backing[m] + 0 + INITIAL_SOL
      BY <2>0, <3>1, <3>2, GlobalCovers DEF Accounts, IndInv, CurveOpen
    <3>4. globalSol \in Nat /\ backing[m] \in Int
      BY DEF IndInv, TypeOK
    <3>. QED  BY <1>1, <3>3, <3>4 DEF Funded
  <2>2. globalSol \in Nat /\ backing[m] \in Int /\ RENT \in Nat /\ INITIAL_SOL \in Nat
    BY AmountAssumption DEF IndInv, TypeOK
  <2>3. out <= globalSol /\ globalSol - out >= RENT
    BY <1>4, <2>1, <2>2
  <2>. QED  BY <2>3 DEF CanSend, RentExempt
<1>7. RentExempt(sol[u] + out)
  <2>1. sol[u] \in Nat /\ RENT \in Nat
    BY AmountAssumption DEF IndInv, TypeOK, Wallets
  <2>. QED  BY <1>4, <2>1 DEF RentExempt
<1>8. Offers(m, u, amount)
  BY <1>1, <1>5 DEF Offers
<1>9. Pays(m, u, amount, adj, out)
  BY <1>1, <1>3, <1>5, <1>6, <1>7 DEF Pays
<1>. QED  BY <1>1, <1>3, <1>4, <1>8, <1>9 DEF CanSell

\* Every quote that leaves in the reserve what the pools may have cost is paid.
LEMMA QuoteIsPaid ==
  ASSUME IndInv, Accounts, SubsidyBooks,
         IsFiniteSet(Mints), IsFiniteSet(Wallets),
         SUPPLY + FloatSlack <= MaxU64, RENT <= INITIAL_SOL,
         NEW m \in Mints, NEW u \in Users, CurveOpen(m), sol[u] >= RENT,
         NEW amount \in Nat, amount = tok[m][u], FeeSplitFits(amount),
         NEW adj \in Adjusted(config.fees, amount),
         NEW out \in AmountOut(pool[m].reserve_two, pool[m].reserve_one, adj),
         out + Costs <= pool[m].reserve_two
  PROVE  Pays(m, u, amount, adj, out)
<1>1. PICK r1 \in Nat, r2 \in Nat :
        r1 = pool[m].reserve_one /\ r2 = pool[m].reserve_two
  BY DEF IndInv, TypeOK, PoolRecords
<1>2. adj \in Nat /\ adj <= amount + FloatSlack
  BY AdjustedBounds DEF IndInv, TypeOK
<1>3. out \in Nat
  BY <1>1, <1>2, AmountOutBounds
<1>4. r1 + adj <= MaxU64
  <2>1. amount + r1 <= SUPPLY
    BY <1>1, RoomForTokens DEF Accounts
  <2>. QED  BY <1>1, <1>2, <2>1, AmountAssumption, WidthAssumption
<1>5. FeeSplitFits(TotalFee(amount, adj))
  <2>1. TotalFee(amount, adj) \in Nat /\ TotalFee(amount, adj) <= amount
    BY <1>2 DEF TotalFee, Saturating_sub
  <2>. QED  BY <2>1, SplitMonotone
<1>6. CanSend(globalSol, out)
  <2>1. PICK cost : cost = [n \in Mints |-> Cost(n)]
    OBVIOUS
  <2>2. \A n \in Mints : cost[n] \in Nat /\ backing[n] + cost[n] >= 0
    <3>1. ASSUME NEW n \in Mints PROVE Cost(n) \in Nat /\ backing[n] + Cost(n) >= 0
      <4>1. Cost(n) \in Nat /\ backing[n] \in Int /\ SubsidyOf(n)
        BY SubsidyIs DEF IndInv, SubsidyBooks
      <4>2. ~pool[n].exists => backing[n] = 0
        BY DEF IndInv, PoolInv, Unborn
      <4>. QED  BY <4>1, <4>2 DEF SubsidyOf
    <3>. QED  BY <2>1, <3>1
  <2>3. Costs = SumFunctionOnSet(cost, Mints)
    BY <2>1 DEF Costs
  <2>4. /\ Costs \in Nat
        /\ globalSol + Costs >= backing[m] + cost[m] + INITIAL_SOL
    BY <2>2, <2>3, GlobalCovers DEF Accounts, IndInv, CurveOpen
  <2>5. backing[m] + cost[m] >= r2
    <3>1. prepares[m] = 0 /\ pool[m].exists
      BY DEF IndInv, TypeOK, PoolInv, Alive, CurveOpen
    <3>. QED  BY <1>1, <2>1, <3>1, SubsidyIs DEF IndInv, SubsidyBooks, SubsidyOf
  <2>6. /\ globalSol \in Nat /\ backing[m] \in Int /\ cost[m] \in Nat
        /\ RENT \in Nat /\ INITIAL_SOL \in Nat
    BY <2>2, AmountAssumption DEF IndInv, TypeOK
  <2>7. out <= globalSol /\ globalSol - out >= RENT
    BY <1>1, <1>3, <2>4, <2>5, <2>6
  <2>. QED  BY <2>7 DEF CanSend, RentExempt
<1>7. RentExempt(sol[u] + out)
  <2>1. sol[u] \in Nat /\ RENT \in Nat
    BY AmountAssumption DEF IndInv, TypeOK, Wallets
  <2>. QED  BY <1>3, <2>1 DEF RentExempt
<1>. QED  BY <1>1, <1>4, <1>5, <1>6, <1>7 DEF Pays

\* A holder of tokens of an open curve is paid every quote that leaves the
\* costs of all pools in the reserve, and can sell all at once where there are
\* none: whatever was claimed, prepared, cancelled and prepared again.
THEOREM HoldersExit ==
  ASSUME IsFiniteSet(Mints), IsFiniteSet(Wallets),
         SUPPLY + FloatSlack <= MaxU64, RENT <= INITIAL_SOL
  PROVE  Spec => []HoldersCanExit
<1>1. IndInv /\ Accounts /\ SubsidyBooks => HoldersCanExit
  <2>. SUFFICES ASSUME IndInv, Accounts, SubsidyBooks,
                       NEW m \in Mints, NEW u \in Users, CurveOpen(m),
                       tok[m][u] > 0, FeeSplitFits(tok[m][u]), sol[u] >= RENT
                PROVE  SellsOut(m, u, tok[m][u])
    BY DEF HoldersCanExit
  <2>0. PICK amount \in Nat : amount = tok[m][u]
    BY DEF IndInv, TypeOK, Wallets
  <2>1. Offers(m, u, amount)
    <3>1. /\ pool[m].reserve_one \in Nat
          /\ amount + pool[m].reserve_one <= SUPPLY
      BY <2>0, RoomForTokens DEF Accounts
    <3>. QED  BY <2>0, <3>1, AmountAssumption, WidthAssumption DEF Offers
  <2>2. ASSUME NEW adj \in Adjusted(config.fees, amount),
               NEW out \in AmountOut(pool[m].reserve_two,
                                     pool[m].reserve_one, adj),
               out + Costs <= pool[m].reserve_two
        PROVE  Pays(m, u, amount, adj, out)
    BY <2>0, <2>2, QuoteIsPaid
  <2>3. ASSUME Costs = 0
        PROVE  CanSell(m, u, amount)
    <3>1. /\ pool[m].reserve_one \in Nat /\ pool[m].reserve_two \in Nat
          /\ pool[m].reserve_one > 0 /\ pool[m].reserve_two > 0
      BY DEF IndInv, TypeOK, PoolRecords, PoolInv, Alive, CurveOpen
    <3>2. PICK adj \in Nat : adj \in Adjusted(config.fees, amount)
      BY NetIs DEF IndInv, TypeOK
    <3>3. PICK out \in AmountOut(pool[m].reserve_two, pool[m].reserve_one, adj) :
            out \in Nat /\ out < pool[m].reserve_two
      BY <3>1, <3>2, QuoteExists
    <3>4. out + Costs <= pool[m].reserve_two
      BY <2>3, <3>1, <3>3
    <3>5. Pays(m, u, amount, adj, out)
      BY <2>2, <3>2, <3>3, <3>4
    <3>6. \E x \in Adjusted(config.fees, amount) :
          \E y \in AmountOut(pool[m].reserve_two, pool[m].reserve_one, x) :
            Pays(m, u, amount, x, y)
      BY <3>2, <3>3, <3>5
    <3>. QED  BY <2>1, <3>6, Zenon DEF CanSell
  <2>4. SellsOut(m, u, amount)
    BY <2>1, <2>2, <2>3 DEF SellsOut
  <2>. QED  BY <2>0, <2>4
<1>. QED  BY <1>1, Invariant, BooksBalance, SubsidyInvariant, PTL

\* A quarter, rounded up.
LEMMA QuarterIs ==
  ASSUME NEW t \in Nat, NEW s \in Nat, t <= s
  PROVE  /\ OneOf(4, t) \in Nat /\ OneOf(4, s) \in Nat
         /\ OneOf(4, t) <= t /\ OneOf(4, t) <= OneOf(4, s)
         /\ t > 0 => OneOf(4, t) > 0
  BY DEF OneOf

\* What is too much for one sell is sold in four, whatever part of the supply
\* it is, if a quarter of the supply is not too much.
THEOREM HoldersExitInParts ==
  ASSUME IsFiniteSet(Mints), IsFiniteSet(Wallets), QuartersFit,
         SUPPLY <= MaxU64, RENT <= INITIAL_SOL
  PROVE  Spec => []HoldersCanExitInParts
<1>1. IndInv /\ Accounts => HoldersCanExitInParts
  <2>. SUFFICES ASSUME IndInv, Accounts,
                       NEW m \in Mints, NEW u \in Users, CurveOpen(m),
                       config.fees # NaN, Funded(m),
                       tok[m][u] > 0, sol[u] >= RENT
                PROVE  CanSell(m, u, OneOf(4, tok[m][u]))
    BY DEF HoldersCanExitInParts
  <2>1. PICK t \in Nat : t = tok[m][u] /\ t <= SUPPLY
    BY RoomForTokens, AmountAssumption DEF Accounts
  <2>2. PICK part : part = OneOf(4, t)
    OBVIOUS
  <2>3. PICK quarter : quarter = OneOf(4, SUPPLY)
    OBVIOUS
  <2>4. /\ part \in Nat /\ quarter \in Nat
        /\ part <= t /\ part <= quarter /\ part > 0
    <3>1. SUPPLY \in Nat /\ t > 0
      BY <2>1, AmountAssumption
    <3>. QED  BY <2>1, <2>2, <2>3, <3>1, QuarterIs
  <2>5. PICK args \in ConfigArgs : config.fees = args.fees
    BY DEF Accounts, FeesGiven, CurveOpen
  <2>6. PICK fees : fees = config.fees
    OBVIOUS
  <2>7. fees \in ValidFees /\ fees # NaN
    BY <2>6 DEF IndInv, TypeOK
  <2>8. PICK k \in Nat : k = 10000 - fees /\ k <= 10000
    <3>1. fees \in 0..10000
      BY <2>7 DEF ValidFees
    <3>. QED  BY <3>1
  <2>9. FeeSplitFits(TotalFee(quarter, Part(quarter, k)))
    <3>1. args.fees \in ValidFees \ {NaN} /\ args.fees = fees
      BY <2>5, <2>6, <2>7
    <3>2. FeeSplitFits(TotalFee(quarter, Part(quarter, 10000 - args.fees)))
      BY <2>3, <3>1 DEF QuartersFit
    <3>. QED  BY <2>8, <3>1, <3>2
  <2>10. FeeSplitFits(TotalFee(part, Part(part, k)))
    <3>1. /\ TotalFee(part, Part(part, k)) \in Nat
          /\ TotalFee(quarter, Part(quarter, k)) \in Nat
          /\ TotalFee(part, Part(part, k)) <= TotalFee(quarter, Part(quarter, k))
      BY <2>4, <2>8, FeeMonotone
    <3>. QED  BY <2>9, <3>1, SplitMonotone
  <2>11. Net(config.fees, part) = Part(part, k)
    BY <2>6, <2>7, <2>8 DEF Net
  <2>12. FeeSplitFits(TotalFee(part, Net(config.fees, part)))
    BY <2>10, <2>11
  <2>13. CanSell(m, u, part)
    BY <2>1, <2>4, <2>12, SellIsPossible
  <2>. QED  BY <2>1, <2>2, <2>13
<1>. QED  BY <1>1, Invariant, BooksBalance, PTL

-----------------------------------------------------------------------------
(***************************************************************************)
(* The program implements the life cycle of PoolLifecycle: initial states  *)
(* map to initial states, and every step to a step of one pool's life or   *)
(* to a stutter.                                                           *)
(***************************************************************************)
phases == [m \in Mints |-> Phase(m)]

stakes == [m \in Mints |-> Stake(m)]

\* Pools other than m are where they were.
OthersStay(m) ==
  \A n \in Mints \ {m} : Phase(n)' = Phase(n) /\ Stake(n)' = Stake(n)

LEMMA FramePhase ==
  ASSUME NEW n \in Mints, Same(n), PaidTokens(n)' = PaidTokens(n)
  PROVE  Phase(n)' = Phase(n) /\ Stake(n)' = Stake(n)
  BY DEF Same, Phase, Stake

LEMMA OthersStayPut ==
  ASSUME NEW m \in Mints, Others(m), config' = config
  PROVE  OthersStay(m)
<1>1. ASSUME NEW n \in Mints \ {m}
      PROVE  Same(n) /\ PaidTokens(n)' = PaidTokens(n)
  BY DEF Others, Same, PaidTokens
<1>. QED  BY <1>1, FramePhase DEF OthersStay

\* One pool moves: the abstract variables change at that pool only.
LEMMA OnePoolMoves ==
  ASSUME NEW m \in Mints, OthersStay(m), NEW to, Phase(m)' = to
  PROVE  /\ phases' = [phases EXCEPT ![m] = to]
         /\ stakes' = [stakes EXCEPT ![m] = Stake(m)']
         /\ phases[m] = Phase(m) /\ stakes'[m] = Stake(m)'
         /\ Stake(m)' = Stake(m) => stakes' = stakes
  BY DEF OthersStay, phases, stakes

\* Where a pool is, by where its tokens are.
LEMMA PhaseOf ==
  ASSUME NEW m \in Mints, NEW r \in Nat, r > 0, pool[m].exists
  PROVE  /\ ~pool[m].graduated => Phase(m) = "curve"
         /\ pool[m].graduated /\ Held(m, r, 0, 0) => Phase(m) = "graduated"
         /\ pool[m].graduated /\ Held(m, 0, r, 0) => Phase(m) = "escrowed"
         /\ pool[m].graduated /\ Held(m, 0, 0, r) => Phase(m) = "paid"
         /\ Held(m, r, 0, 0) \/ Held(m, 0, r, 0) \/ Held(m, 0, 0, r)
              => Stake(m) = r
  BY DEF Phase, Held, Stake

-----------------------------------------------------------------------------
LEMMA InitRefines == Init => Lifecycle!Init
<1>. SUFFICES ASSUME Init, NEW m \in Mints
              PROVE  Phase(m) = "none" /\ Stake(m) = 0
  BY DEF Lifecycle!Init
<1>1. ~pool[m].exists /\ Held(m, 0, 0, 0)
  BY InitPools DEF Init, NoPool, PoolInv, CustodyOf
<1>. QED  BY <1>1 DEF Phase, Stake, Held

LEMMA InitializeStutters ==
  ASSUME IndInv, NEW admin \in Wallets, NEW args \in ConfigArgs,
         Initialize(admin, args)
  PROVE  phases' = phases /\ stakes' = stakes
<1>1. ASSUME NEW n \in Mints
      PROVE  Same(n) /\ PaidTokens(n)' = PaidTokens(n)
  <2>1. /\ ~config.exists /\ config'.migration_authority \in Treasuries
        /\ Same(n)
    BY InitializeEffect DEF IndInv
  <2>2. config.migration_authority \in Treasuries
    BY DEF IndInv, TypeOK
  <2>3. \A w \in Treasuries : tok[n][w] = 0 /\ tok'[n][w] = 0
    BY <2>1 DEF IndInv, PoolInv, Unpaid, Same
  <2>. QED  BY <2>1, <2>2, <2>3 DEF PaidTokens
<1>. QED  BY <1>1, FramePhase DEF phases, stakes

LEMMA AddLiquidityLaunches ==
  ASSUME IndInv, NEW m \in Mints, NEW u \in Users,
         NEW a1 \in AmountsOne, NEW a2 \in AmountsTwo,
         AddLiquidity(m, u, a1, a2)
  PROVE  /\ Phase(m) = "none" /\ Phase(m)' = "curve"
         /\ Stake(m)' \in Nat \ {0}
         /\ OthersStay(m)
<1>1. /\ ~pool[m].exists /\ pool'[m].exists /\ ~pool'[m].graduated
      /\ config' = config /\ Others(m)
  BY AddLiquidityEffect DEF IndInv
<1>2. Stake(m)' = pool'[m].reserve_one /\ pool'[m].reserve_one \in Nat \ {0}
  <2>1. CustodyOf(m)' /\ TypeOK'
    BY AddLiquidityPool, AddLiquidityType DEF PoolInv, IndInv
  <2>. QED
    BY <1>1, <2>1 DEF CustodyOf, Held, Stake, TypeOK, PoolRecords
<1>. QED  BY <1>1, <1>2, OthersStayPut DEF Phase

LEMMA SwapTrades ==
  ASSUME IndInv, NEW m \in Mints, NEW u \in Users, NEW amount \in Nat,
         Buy(m, u, amount) \/ Sell(m, u, amount)
  PROVE  /\ Phase(m) = "curve" /\ Phase(m)' \in {"curve", "graduated"}
         /\ Stake(m)' \in Nat \ {0}
         /\ OthersStay(m)
<1>. USE DEF IndInv
<1>1. /\ CurveOpen(m) /\ pool'[m].exists
      /\ config' = config /\ Others(m) /\ escrowTok'[m] = escrowTok[m]
      /\ \E x \in Nat : \/ tok'[m] = Debit(tok[m], u, x)
                        \/ tok'[m] = Credit(tok[m], u, x)
  BY BuyEffect, SellEffect
<1>2. PaidTokens(m)' = 0 /\ escrowTok'[m] = 0
  <2>1. PaidTokens(m) = 0 /\ escrowTok[m] = 0
    BY <1>1 DEF PoolInv, CustodyOf, Held, CurveOpen
  <2>. QED  BY <1>1, <2>1, TreasuriesDoNotTrade DEF PaidTokens
<1>3. CustodyOf(m)' /\ TypeOK'
  BY BuyPool, SellPool, BuyType, SellType DEF PoolInv
<1>4. Stake(m)' = pool'[m].reserve_one /\ pool'[m].reserve_one \in Nat \ {0}
  BY <1>1, <1>2, <1>3 DEF CustodyOf, Held, Stake, TypeOK, PoolRecords
<1>5. Phase(m) = "curve" /\ Phase(m)' \in {"curve", "graduated"}
  BY <1>1, <1>2 DEF Phase, CurveOpen
<1>. QED  BY <1>1, <1>4, <1>5, OthersStayPut

LEMMA PrepareFillsEscrow ==
  ASSUME IndInv, NEW m \in Mints, NEW h \in Wallets,
         PrepareMigration(m, h)
  PROVE  /\ Phase(m) = "graduated" /\ Phase(m)' = "escrowed"
         /\ Stake(m)' = Stake(m)
         /\ OthersStay(m)
<1>. USE DEF IndInv
<1>. DEFINE r == pool[m].reserve_one
<1>1. /\ CanMigrate(m) /\ pool' = pool /\ tok' = tok /\ config' = config
      /\ vault'[m] = vault[m] - r /\ escrowTok'[m] = escrowTok[m] + r
      /\ Others(m)
  BY PrepareEffect DEF Others
<1>2. Held(m, r, 0, 0) /\ r \in Nat /\ r > 0
  BY <1>1, PreparePool DEF PoolInv, CustodyOf, TypeOK, PoolRecords, CanMigrate
<1>3. PaidTokens(m)' = PaidTokens(m)
  BY <1>1 DEF PaidTokens
<1>. QED
  BY <1>1, <1>2, <1>3, OthersStayPut DEF Phase, Stake, Held, CanMigrate

LEMMA ReleasePaysOut ==
  ASSUME IndInv, NEW m \in Mints, ReleaseEscrow(m)
  PROVE  /\ \/ Phase(m) = "escrowed" /\ Phase(m)' = "paid"
            \/ Phase(m)' = Phase(m)
         /\ Stake(m)' = Stake(m)
         /\ OthersStay(m)
<1>. USE DEF IndInv
<1>. DEFINE r == pool[m].reserve_one
<1>1. /\ CanMigrate(m) /\ pool' = pool /\ config' = config
      /\ vault' = vault /\ escrowTok'[m] = 0 /\ Others(m)
  BY ReleaseEffect DEF Others
<1>2. /\ r \in Nat /\ r > 0 /\ CustodyOf(m) /\ escrowTok[m] \in Nat
  BY <1>1 DEF PoolInv, CustodyOf, TypeOK, PoolRecords, CanMigrate
<1>3. /\ PaidTokens(m)' = PaidTokens(m) + escrowTok[m]
      /\ escrowTok[m] > 0 => Held(m, 0, r, 0)
  BY ReleasePool
<1>4. CASE escrowTok[m] = 0
  BY <1>1, <1>2, <1>3, <1>4, OthersStayPut
  DEF CustodyOf, Phase, Stake, Held, CanMigrate
<1>5. CASE escrowTok[m] > 0
  BY <1>1, <1>2, <1>3, <1>5, OthersStayPut DEF Phase, Stake, Held, CanMigrate
<1>. QED  BY <1>2, <1>4, <1>5

LEMMA CancelReturns ==
  ASSUME IndInv, NEW m \in Mints, CancelEscrow(m)
  PROVE  /\ \/ Phase(m) = "escrowed" /\ Phase(m)' = "graduated"
            \/ Phase(m)' = Phase(m)
         /\ Stake(m)' = Stake(m)
         /\ OthersStay(m)
<1>. USE DEF IndInv
<1>. DEFINE r == pool[m].reserve_one
<1>1. /\ CanMigrate(m) /\ pool' = pool /\ tok' = tok /\ config' = config
      /\ vault'[m] = vault[m] + escrowTok[m] /\ escrowTok'[m] = 0
      /\ Others(m)
  BY CancelEffect DEF Others
<1>2. /\ r \in Nat /\ r > 0
      /\ Held(m, r, 0, 0) \/ Held(m, 0, r, 0) \/ Held(m, 0, 0, r)
  BY <1>1 DEF PoolInv, CustodyOf, TypeOK, PoolRecords, CanMigrate
<1>3. PaidTokens(m)' = PaidTokens(m)
  BY <1>1 DEF PaidTokens
<1>. QED
  BY <1>1, <1>2, <1>3, OthersStayPut DEF Phase, Stake, Held, CanMigrate

-----------------------------------------------------------------------------
\* The steps of the abstract specification, in terms of where pools are.
LEMMA AbstractLaunch ==
  ASSUME NEW m \in Mints, OthersStay(m), Stake(m)' \in Nat \ {0},
         Phase(m) = "none", Phase(m)' = "curve"
  PROVE  Lifecycle!Next
<1>1. Lifecycle!Launch(m)
  BY OnePoolMoves DEF Lifecycle!Launch, Lifecycle!Restake, phases, stakes
<1>. QED  BY <1>1 DEF Lifecycle!Next

LEMMA AbstractTrade ==
  ASSUME NEW m \in Mints, OthersStay(m), Stake(m)' \in Nat \ {0},
         Phase(m) = "curve", Phase(m)' \in {"curve", "graduated"}
  PROVE  Lifecycle!Next
<1>1. Lifecycle!Trade(m)
  BY OnePoolMoves DEF Lifecycle!Trade, Lifecycle!Restake, phases, stakes
<1>. QED  BY <1>1 DEF Lifecycle!Next

LEMMA AbstractMove ==
  ASSUME NEW m \in Mints, OthersStay(m), Stake(m)' = Stake(m),
         \/ Phase(m) = "graduated" /\ Phase(m)' = "escrowed"
         \/ Phase(m) = "escrowed" /\ Phase(m)' = "graduated"
         \/ Phase(m) = "escrowed" /\ Phase(m)' = "paid"
  PROVE  Lifecycle!Next
<1>1. Lifecycle!Move(m, Phase(m), Phase(m)')
  BY OnePoolMoves DEF Lifecycle!Move, phases, stakes
<1>. QED  BY <1>1 DEF Lifecycle!Next

LEMMA AbstractStutter ==
  ASSUME NEW m \in Mints, OthersStay(m), Stake(m)' = Stake(m),
         Phase(m)' = Phase(m)
  PROVE  UNCHANGED Lifecycle!vars
<1>1. \A n \in Mints : Phase(n)' = Phase(n) /\ Stake(n)' = Stake(n)
  BY DEF OthersStay
<1>. QED  BY <1>1 DEF Lifecycle!vars

LEMMA StepRefines ==
  IndInv /\ [Next]_vars => [Lifecycle!Next]_(Lifecycle!vars)
<1>. SUFFICES ASSUME IndInv, [Next]_vars
              PROVE  Lifecycle!Next \/ UNCHANGED Lifecycle!vars
  OBVIOUS
<1>. USE DEF IndInv
<1>0. ASSUME phases' = phases, stakes' = stakes
      PROVE  UNCHANGED Lifecycle!vars
  BY <1>0 DEF Lifecycle!vars, phases, stakes
<1>1. ASSUME NEW admin \in Wallets, NEW args \in ConfigArgs,
             Initialize(admin, args)
      PROVE  UNCHANGED Lifecycle!vars
  BY <1>0, <1>1, InitializeStutters
<1>2. ASSUME NEW m \in Mints, NEW u \in Users,
             NEW a1 \in AmountsOne, NEW a2 \in AmountsTwo,
             AddLiquidity(m, u, a1, a2)
      PROVE  Lifecycle!Next
  BY <1>2, AddLiquidityLaunches, AbstractLaunch
<1>3. ASSUME NEW m \in Mints, NEW u \in Users, NEW amount \in Nat,
             Buy(m, u, amount) \/ Sell(m, u, amount)
      PROVE  Lifecycle!Next
  BY <1>3, SwapTrades, AbstractTrade
<1>4. ASSUME NEW m \in Mints, NEW h \in Wallets, PrepareMigration(m, h)
      PROVE  Lifecycle!Next
  BY <1>4, PrepareFillsEscrow, AbstractMove
<1>5. ASSUME NEW m \in Mints, ReleaseEscrow(m)
      PROVE  Lifecycle!Next \/ UNCHANGED Lifecycle!vars
  BY <1>5, ReleasePaysOut, AbstractMove, AbstractStutter
<1>6. ASSUME NEW m \in Mints, CancelEscrow(m)
      PROVE  Lifecycle!Next \/ UNCHANGED Lifecycle!vars
  BY <1>6, CancelReturns, AbstractMove, AbstractStutter
<1>7. CASE Tick \/ UNCHANGED vars
  <2>1. UNCHANGED <<config, pool, tok, vault, escrowTok>>
    BY <1>7 DEF Tick, vars, chain
  <2>2. \A n \in Mints : Phase(n)' = Phase(n) /\ Stake(n)' = Stake(n)
    BY <2>1 DEF Phase, Stake, PaidTokens
  <2>. QED  BY <2>2 DEF Lifecycle!vars
<1>8. ASSUME NEW m \in Mints, NEW u \in Users
      PROVE  BuyAmounts \subseteq Nat /\ SellChoices(m, u) \subseteq Nat
  BY SwapAmounts
<1>9. CASE \E m \in Mints, u \in Users :
             \/ \E amount \in BuyAmounts : Buy(m, u, amount)
             \/ \E amount \in SellChoices(m, u) : Sell(m, u, amount)
  BY <1>3, <1>8, <1>9
<1>. QED
  BY <1>1, <1>2, <1>4, <1>5, <1>6, <1>7, <1>9 DEF Next

\* Every behaviour of the program, seen through where each pool's tokens are,
\* is a behaviour of the promised life cycle.
THEOREM Refinement == Spec => LifecycleSpec
<1>1. Spec => Lifecycle!Init /\ [][Lifecycle!Next]_(Lifecycle!vars)
  BY InitRefines, StepRefines, Invariant, PTL DEF Spec
<1>. QED  BY <1>1 DEF LifecycleSpec, Lifecycle!Spec
=============================================================================
