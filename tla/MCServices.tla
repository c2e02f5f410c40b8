----------------------------- MODULE MCServices -----------------------------
(***************************************************************************)
(* Instances for TLC of the programs that read the chain and keep rows:    *)
(* the airdrop worker (Snapshot), the indexer (Indexer, and SwapRows for   *)
(* what it makes of a transaction) and the offsets they all read accounts  *)
(* at (Layout).  They share no state, so that they are checked side by     *)
(* side: `part' is the one that takes its steps, the others stay as they   *)
(* begin.                                                                  *)
(***************************************************************************)
EXTENDS Layout, Snapshot, Indexer, SwapRows

CONSTANTS a, b, w1, w2

\* One token has a visitor, the other the loyal holder only.
VisitorOfA == [m \in Mints |-> IF m = a THEN {w2} ELSE {}]

\* The first three transactions fall into one long candle, the first two into
\* one short candle.
Stamps == [i \in 1..MaxTxs |-> IF i <= 2 THEN 0 ELSE i - 1]

Prices == [i \in 1..MaxTxs |-> IF i = 1 THEN 5 ELSE IF i = 2 THEN 9 ELSE 2]

Do(m, style, amount) == [mint |-> m, style |-> style, amount |-> amount]

\* Trades large and small of one pool, the first one in another, there and
\* back, in both pools at once, and one of a style that nobody names.
SomeForms ==
  { <<Do(a, 0, 1)>>, <<Do(a, 0, 10)>>, <<Do(a, 1, 20)>>, <<Do(a, 1, 4)>>,
    <<Do(b, 0, 10)>>, <<Do(b, 1, 2)>>,
    <<Do(a, 0, 10), Do(a, 1, 25)>>,
    <<Do(b, 0, 10), Do(a, 0, 1)>>,
    <<Do(a, 1, 20), Do(b, 0, 1)>>,
    <<Do(b, 2, 10)>> }

OpeningReserves == [one |-> 100, two |-> 30]

HoldsSomeOfA == [m \in Mints |-> IF m = a THEN 40 ELSE 0]

VARIABLE part

servicesVars == <<part, snapshotVars, indexerVars, swapRowVars, vars>>

Parts == {"snapshot", "indexer", "rows", "layout"}

ServicesInit ==
  /\ part \in Parts
  /\ SnapshotInit /\ IndexerInit /\ SwapRowsInit /\ Init
  /\ part # "snapshot" => \A d \in Days : today <= d

Snapshots(A) ==
  part = "snapshot" /\ A /\ UNCHANGED <<part, indexerVars, swapRowVars, vars>>
Indexes(A) ==
  part = "indexer" /\ A /\ UNCHANGED <<part, snapshotVars, swapRowVars, vars>>
Records(A) ==
  part = "rows" /\ A /\ UNCHANGED <<part, snapshotVars, indexerVars, vars>>
Reads(A) ==
  part = "layout" /\ A /\ UNCHANGED <<part, snapshotVars, indexerVars, swapRowVars>>

ServicesNext ==
  \/ Snapshots(SnapshotNext) \/ Indexes(IndexerNext)
  \/ Records(SwapRowsNext) \/ Reads(Next)

\* The fairness of Indexer.
ServicesSpec ==
  /\ ServicesInit /\ [][ServicesNext]_servicesVars
  /\ \A p \in Polls :
       /\ WF_servicesVars(Indexes(Step(p)))
       /\ SF_servicesVars(Indexes(StartPoll(p)))

-----------------------------------------------------------------------------
\* The values the variables take.
ServicesTypeOK ==
  /\ part \in Parts /\ SnapshotTypeOK /\ IndexerTypeOK /\ SwapRowsTypeOK /\ TypeOK
=============================================================================
