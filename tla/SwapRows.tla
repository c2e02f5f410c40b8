------------------------------ MODULE SwapRows ------------------------------
(***************************************************************************)
(* What the indexer makes of a transaction (parseSwapFromTx): from the     *)
(* instructions it has, and from what its balances were before and after,  *)
(* it takes one row of the table trades.                                   *)
(*                                                                         *)
(* A transaction is what wallets and programs may send: one swap or        *)
(* several by one trader, paid for by that trader or by somebody else,     *)
(* directly or through another program, with the token accounts it needs.  *)
(* SOL and tokens are counted in units of equal decimals, 10^9 in the      *)
(* code; the fee of the curve is left out.  Indexer has when rows are      *)
(* written and what candles make of them.                                  *)
(***************************************************************************)
EXTENDS Integers, Sequences, SequencesExt, FiniteSetsExt

CONSTANTS
  PoolMints,         \* mints with a pool
  Trader, Relayer,   \* who swaps, and who else may pay for it
  Forms,             \* the sequences of swaps that transactions have
  Opening,           \* the reserves of a pool at first
  Holding,           \* tokens of each mint the trader has at first
  TxFee,             \* of a transaction, in SOL
  Estimate,          \* what the indexer takes it for
  Rent,              \* of a token account
  MaxRows            \* bound on transactions

\* style is a u64.
Swap == [mint : PoolMints, style : Nat, amount : Nat \ {0}]

\* A transaction costs a fee per signature, no less than is estimated.
ASSUME SwapRowsAssumption ==
  /\ \A swaps \in Forms :
       /\ Len(swaps) \in Nat \ {0} /\ DOMAIN swaps = 1..Len(swaps)
       /\ \A i \in DOMAIN swaps : swaps[i] \in Swap
  /\ Opening \in [one : Nat \ {0}, two : Nat \ {0}]
  /\ Holding \in [PoolMints -> Nat]
  /\ {TxFee, Estimate, Rent, MaxRows} \subseteq Nat /\ Estimate <= TxFee

VARIABLES
  reserves,    \* of each pool: one in tokens, two in SOL
  held,        \* of each mint, in the trader's account; -1 if there is none
  txs,         \* transactions so far, and what they did
  info,        \* reserves of each pool as fetchAllMints read them
  rowOf,       \* the row of each transaction, or NoRow
  quoted       \* the prices each pool has had (history)

swapRowVars == <<reserves, held, txs, info, rowOf, quoted>>

NoRow == [mint |-> "none"]

PriceOf(r) == <<r.two, r.one>>

SwapRowsInit ==
  /\ reserves = [m \in PoolMints |-> Opening]
  /\ held = [m \in PoolMints |-> IF Holding[m] = 0 THEN -1 ELSE Holding[m]]
  /\ txs = <<>>
  /\ info = [m \in PoolMints |-> Opening]
  /\ rowOf = <<>>
  /\ quoted = [m \in PoolMints |-> {PriceOf(Opening)}]

-----------------------------------------------------------------------------
(***************************************************************************)
(* A transaction on chain.                                                 *)
(***************************************************************************)
\* Whatever is not 1 buys.
Sells(s) == s.style = 1

Quote(r, s) ==
  IF ~Sells(s) THEN (r.one * s.amount) \div (r.two + s.amount)
  ELSE (r.two * s.amount) \div (r.one + s.amount)

\* pools, tokens and SOL of the trader after a swap.
Swapped(acc, s) ==
  LET r == acc.reserves[s.mint]
      out == Quote(r, s)
      tok == IF Sells(s) THEN -s.amount ELSE out
      sol == IF Sells(s) THEN out ELSE -s.amount
  IN [reserves |-> [acc.reserves EXCEPT ![s.mint] =
                      [one |-> r.one - tok, two |-> r.two - sol]],
      tokens |-> [acc.tokens EXCEPT ![s.mint] = @ + tok],
      sol |-> acc.sol + sol,
      goes |-> acc.goes /\ acc.tokens[s.mint] + tok >= 0]

MintsOf(swaps) == {swaps[i].mint : i \in DOMAIN swaps}

Abs(n) == IF n < 0 THEN -n ELSE n

\* What is kept of a transaction: its instructions, whether it failed, by how
\* much the payer's SOL and the token accounts of each mint changed, and (for
\* the properties) what its first swap moved.
Transact(swaps, payer, direct, ok) ==
  LET missing == {m \in MintsOf(swaps) : held[m] = -1}
      opened == [m \in PoolMints |-> IF m \in missing THEN 0 ELSE held[m]]
      start == [reserves |-> reserves, tokens |-> opened, sol |-> 0, goes |-> TRUE]
      end == FoldLeft(Swapped, start, swaps)
      first == Swapped(start, swaps[1])
      costs == TxFee + Rent * Cardinality(missing)
      payerSol == (IF payer = Trader THEN end.sol ELSE 0) - costs
  IN /\ Len(txs) < MaxRows
     /\ ok => end.goes
     /\ txs' = Append(txs,
          [swaps |-> swaps, payer |-> payer, direct |-> direct, ok |-> ok,
           opens |-> Cardinality(missing),
           solChange |-> IF ok THEN Abs(payerSol) ELSE TxFee,
           tokChange |-> [m \in PoolMints |->
                            IF ok THEN Abs(end.tokens[m] - opened[m]) ELSE 0],
           first |-> [sol |-> Abs(first.sol),
                      tok |-> Abs(first.tokens[swaps[1].mint]
                                    - opened[swaps[1].mint])]])
     /\ rowOf' = Append(rowOf, NoRow)
     /\ IF ok
        THEN /\ reserves' = end.reserves
             /\ held' = [m \in PoolMints |->
                  IF m \in MintsOf(swaps) THEN end.tokens[m] ELSE held[m]]
             /\ quoted' = [m \in PoolMints |->
                             quoted[m] \cup {PriceOf(end.reserves[m])}]
        ELSE UNCHANGED <<reserves, held, quoted>>
     /\ UNCHANGED info

-----------------------------------------------------------------------------
(***************************************************************************)
(* The indexer.                                                            *)
(***************************************************************************)
Unread == [one |-> 0, two |-> 0]

\* fetchAllMints reads the reserves once for all pools of a poll; a read that
\* fails leaves zeros.
FetchMints ==
  /\ \E read \in SUBSET PoolMints :
       info' = [m \in PoolMints |-> IF m \in read THEN reserves[m] ELSE Unread]
  /\ UNCHANGED <<reserves, held, txs, rowOf, quoted>>

\* A transaction that went through, with an instruction of the program that
\* has the discriminator of swap; calls by other programs are not seen.
IsSwapTx(tx) == tx.ok /\ tx.direct

solChanged_Adding(tx) ==
  IF tx.solChange > 2 * Estimate THEN tx.solChange + Estimate ELSE tx.solChange

\* "Subtract estimated tx fee".
solChanged(tx) ==
  IF tx.solChange > 2 * Estimate THEN tx.solChange - Estimate ELSE tx.solChange

\* The largest change of an account of the mint.
tokenAmount(tx, m) == tx.tokChange[m]

effectiveSol(tx) ==
  IF solChanged(tx) > 0 THEN solChanged(tx) ELSE tx.swaps[1].amount

NoPrice == <<0, 1>>

\* The price as SOL over tokens; one above 1, or none, is replaced by that of
\* the pool if it is the pool of the poll and was read.
rowPrice(tx, polled) ==
  LET m == tx.swaps[1].mint
      own == <<effectiveSol(tx), tokenAmount(tx, m)>>
  IN IF m = polled /\ info[m] # Unread /\ own[1] > own[2] THEN PriceOf(info[m])
     ELSE IF own[2] = 0 THEN NoPrice ELSE own

\* The first swap is the one that is recorded; whatever is not 0 is a sell.
parseSwapFromTx(tx, polled) ==
  LET s == tx.swaps[1]
  IN [mint |-> s.mint, side |-> IF s.style = 0 THEN "buy" ELSE "sell",
      sol_amount |-> s.amount, token_amount |-> tokenAmount(tx, s.mint),
      price |-> rowPrice(tx, polled)]

\* A poll comes to a transaction that names its pool; one that is known is a
\* duplicate.
Process(polled, i) ==
  /\ polled \in MintsOf(txs[i].swaps)
  /\ IsSwapTx(txs[i]) /\ rowOf[i] = NoRow
  /\ rowOf' = [rowOf EXCEPT ![i] = parseSwapFromTx(txs[i], polled)]
  /\ UNCHANGED <<reserves, held, txs, info, quoted>>

SwapRowsNext ==
  \/ \E swaps \in Forms, payer \in {Trader, Relayer}, direct, ok \in BOOLEAN :
       Transact(swaps, payer, direct, ok)
  \/ FetchMints
  \/ \E i \in DOMAIN txs, m \in PoolMints : Process(m, i)

SwapRowsSpec == SwapRowsInit /\ [][SwapRowsNext]_swapRowVars
-----------------------------------------------------------------------------
SwapRowsTypeOK ==
  /\ \A m \in PoolMints : /\ reserves[m] \in [one : Nat \ {0}, two : Nat \ {0}]
                          /\ held[m] \in Nat \cup {-1}
  /\ Len(txs) \in 0..MaxRows /\ DOMAIN rowOf = DOMAIN txs

Recorded == {i \in DOMAIN rowOf : rowOf[i] # NoRow}

\* As the browser sends them: one swap, by who pays for it.
Plain(tx) == Len(tx.swaps) = 1 /\ tx.payer = Trader

\* By how much the price of a plain trade may be off: a buy's has the rent of
\* a new account in it and more of the fee than was estimated; of a sell's the
\* fee is taken twice.
WithinCosts(sol, tx) ==
  LET costs == Rent * tx.opens + TxFee
      off == sol - tx.first.sol
  IN IF ~Sells(tx.swaps[1]) THEN off \in 0 .. costs
     ELSE Abs(off) <= costs + Estimate

\* The SOL of a sell that yields what it costs does not change, and is taken
\* for unknown.
BreaksEven(tx) ==
  Sells(tx.swaps[1]) /\ tx.first.sol = Rent * tx.opens + TxFee

\* Of a plain trade the row has the tokens that moved, and a price that is
\* right but for the costs; or one the pool has had, because the trade is so
\* small that its costs are more than its tokens; or none if nothing moved; or
\* one token for one SOL if it broke even.
PlainTradesAreRight ==
  \A i \in Recorded :
    LET row == rowOf[i]
        tx == txs[i]
        costs == Rent * tx.opens + TxFee + Estimate
    IN Plain(tx) =>
         /\ row.token_amount = tx.first.tok
         /\ \/ row.price[2] = tx.first.tok /\ WithinCosts(row.price[1], tx)
            \/ row.price = NoPrice /\ tx.first.tok = 0
            \/ row.price = <<tx.first.tok, tx.first.tok>> /\ BreaksEven(tx)
            \/ /\ row.price \in quoted[row.mint]
               /\ tx.first.sol + costs > tx.first.tok
=============================================================================
