------------------------------- MODULE Curve -------------------------------
(***************************************************************************)
(* The arithmetic of the bonding curve, as pure operators: the swap fee,   *)
(* the quoted output, the share formula, the anti-snipe caps and the split *)
(* of the graduation fee.  Amounts are naturals; the unit of SOL and of    *)
(* tokens is left to the constants.                                        *)
(*                                                                         *)
(* The program quotes in f64.  What is kept of the floating point is that  *)
(* a quote may miss the exact quotient by a few units: FloatSlack bounds   *)
(* the miss, and a quote is a member of a small interval.                  *)
(***************************************************************************)
EXTENDS Integers

CONSTANTS
  MaxU64,                         \* largest value of a u64
  FloatSlack,                     \* units by which an f64 quote may be off
  NaN,                            \* the f64 that is not a number
  ShareUnit,                      \* 10^(decimals + 9), the scale of a share
  LP_FEE_BPS, AIRDROP_FEE_BPS,
  SNIPE_WINDOW_1, SNIPE_WINDOW_2, SNIPE_WINDOW_3,
  SNIPE_BPS_1, SNIPE_BPS_2, SNIPE_BPS_3,
  GRAD_FEE_BPS, GRAD_PROTOCOL_BPS, GRAD_AIRDROP_BPS, GRAD_HOLDER_BPS

ASSUME WidthAssumption ==
  /\ MaxU64 \in Nat
  /\ FloatSlack \in Nat
  /\ NaN \notin Int
  /\ ShareUnit \in Nat \ {0}

ASSUME FeeAssumption ==
  /\ LP_FEE_BPS \in Nat
  /\ AIRDROP_FEE_BPS \in 0..10000

\* Later windows are longer and looser (consts.rs).
ASSUME SnipeAssumption ==
  /\ {SNIPE_WINDOW_1, SNIPE_WINDOW_2, SNIPE_WINDOW_3} \subseteq Nat
  /\ SNIPE_WINDOW_1 <= SNIPE_WINDOW_2 /\ SNIPE_WINDOW_2 <= SNIPE_WINDOW_3
  /\ {SNIPE_BPS_1, SNIPE_BPS_2, SNIPE_BPS_3} \subseteq Nat
  /\ SNIPE_BPS_1 <= SNIPE_BPS_2 /\ SNIPE_BPS_2 <= SNIPE_BPS_3

\* The shares paid out of the graduation fee are at most the whole of it.
ASSUME GraduationFeeAssumption ==
  /\ {GRAD_PROTOCOL_BPS, GRAD_AIRDROP_BPS, GRAD_HOLDER_BPS} \subseteq Nat
  /\ GRAD_PROTOCOL_BPS + GRAD_AIRDROP_BPS + GRAD_HOLDER_BPS <= 10000
  /\ GRAD_FEE_BPS \in 0..10000

(***************************************************************************)
(* u64 arithmetic                                                          *)
(***************************************************************************)
Saturate(x) == IF x > MaxU64 THEN MaxU64 ELSE x

Saturating_sub(x, y) == IF x > y THEN x - y ELSE 0

Part(x, bps) == (x * bps) \div 10000

(***************************************************************************)
(* The swap fee.  fees is a percentage in f64; here it is in basis points, *)
(* so 100 % is 10000.  The range check of initialize compares with < and   *)
(* >, which NaN passes.  Anything multiplied by NaN is NaN, and NaN cast   *)
(* to u64 is 0.                                                            *)
(***************************************************************************)
ValidFees == (0..10000) \cup {NaN}

Near(x) == {y \in (x - FloatSlack)..(x + FloatSlack) : y >= 0}

Adjusted(fees, amount) ==
  IF fees = NaN THEN {0} ELSE Near(Part(amount, 10000 - fees))

TotalFee(amount, adj) == Saturating_sub(amount, adj)

FeeSplitFits_ScaledFirst(fee) == fee * 10000 <= MaxU64

\* Both products are computed with overflow checks on: a fee too large for
\* them aborts the swap.
FeeSplitFits(fee) ==
  /\ fee * LP_FEE_BPS <= MaxU64
  /\ fee * AIRDROP_FEE_BPS <= MaxU64

AirdropFee(fee) == Part(fee, AIRDROP_FEE_BPS)

(***************************************************************************)
(* The quote: reserveOut / ((reserveIn + adj) / adj).  A zero adj divides  *)
(* by zero in f64 and the infinite divisor makes the quote 0.  A quote     *)
(* above the reserve fails the checked subtraction.  A reserve is never    *)
(* quoted out whole while the other one is positive, whatever the          *)
(* rounding: the relative error of f64 is far below reserveIn / adj.       *)
(*                                                                         *)
(* (A definition with an underscored suffix is a mutant: a mistake that a  *)
(* property must notice when it replaces the definition.)                  *)
(***************************************************************************)
AmountOut_ByReserve(reserveOut, reserveIn, adj) ==
  IF adj = 0 \/ reserveIn = 0 THEN {0}
  ELSE LET out == (reserveOut * adj) \div reserveIn
       IN IF out > reserveOut THEN {reserveOut} ELSE Near(out)

AmountOut(reserveOut, reserveIn, adj) ==
  IF adj = 0 THEN {0}
  ELSE {out \in Near((reserveOut * adj) \div (reserveIn + adj)) :
          /\ out <= reserveOut
          /\ (reserveIn > 0 /\ reserveOut > 0) => out < reserveOut}

(***************************************************************************)
(* Shares of the first deposit: the integer square root of the product.    *)
(***************************************************************************)
InitialShares(a1, a2) ==
  LET product == (a1 * a2) \div ShareUnit
  IN {s \in 0..product : /\ s > 0 => s <= product \div s
                         /\ s + 1 > product \div (s + 1)}

(***************************************************************************)
(* Anti-snipe: the most a wallet may hold after a buy, by the age of the   *)
(* pool.  There is no cap once the last window has closed.                 *)
(***************************************************************************)
WithinWalletCap(elapsed, supply, balance) ==
  /\ elapsed < SNIPE_WINDOW_1 => balance <= Part(supply, SNIPE_BPS_1)
  /\ (SNIPE_WINDOW_1 <= elapsed /\ elapsed < SNIPE_WINDOW_2)
       => balance <= Part(supply, SNIPE_BPS_2)
  /\ (SNIPE_WINDOW_2 <= elapsed /\ elapsed < SNIPE_WINDOW_3)
       => balance <= Part(supply, SNIPE_BPS_3)

(***************************************************************************)
(* The graduation fee: three parts leave for wallets, the rest of the pool *)
(* goes to the escrow.                                                     *)
(***************************************************************************)
GradFee(poolSol) == Part(poolSol, GRAD_FEE_BPS)

\* The products are checked: one that overflows panics.
GradFeeFits(poolSol) ==
  /\ poolSol * GRAD_FEE_BPS <= MaxU64
  /\ \A bps \in {GRAD_PROTOCOL_BPS, GRAD_AIRDROP_BPS, GRAD_HOLDER_BPS} :
       GradFee(poolSol) * bps <= MaxU64

ProtocolPart(poolSol) == Part(GradFee(poolSol), GRAD_PROTOCOL_BPS)

AirdropPart(poolSol) == Part(GradFee(poolSol), GRAD_AIRDROP_BPS)

HolderPart(poolSol) == Part(GradFee(poolSol), GRAD_HOLDER_BPS)

SolToEscrow_KeepsHolderPart(poolSol) ==
  poolSol - ProtocolPart(poolSol) - AirdropPart(poolSol)

SolToEscrow(poolSol) ==
  poolSol - ProtocolPart(poolSol) - AirdropPart(poolSol) - HolderPart(poolSol)
=============================================================================
