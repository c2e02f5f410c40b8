------------------------------ MODULE MCPayout ------------------------------
(***************************************************************************)
(* Instances of Payout for TLC.                                            *)
(***************************************************************************)
EXTENDS Payout

CONSTANTS a, b, c, w1, w2, w3, w4, w5

\* The owner of the pools, w4, and w3 and w5 are holders of b only, which has
\* one pending row more than are read.  The holders of c have no points.
SomePoints ==
  [m \in Mints |-> [w \in Wallets |->
    CASE m = c -> 0
      [] w = w1 -> IF m = a THEN 1 ELSE 9
      [] w = w2 -> IF m = a THEN 1 ELSE 7
      [] w = w3 -> IF m = a THEN 0 ELSE 1
      [] w = w4 -> IF m = a THEN 0 ELSE 8
      [] w = w5 -> IF m = a THEN 0 ELSE 7]]

\* The shares of a are rounded up to 6 of 5, that of w3 in b is dust.
PoolOfEach == [m \in Mints |-> IF m = a THEN 5 ELSE 32]

\* Of c one row is left.
SomeTotals ==
  {r \in Mints \X Wallets : SomePoints[r[1]][r[2]] > 0 \/ r = <<c, w1>>}

\* Once a is paid the bot has too little for w5, and just enough for w2, whose
\* transfer is one unit below its row.
SomeShort == {r \in Mints \X Wallets : r = <<b, w2>>}
=============================================================================
