------------------------------- MODULE Indexer -------------------------------
(***************************************************************************)
(* The trade indexer (indexer.js): every POLL_INTERVAL_MS it reads the     *)
(* last SIG_LIMIT transactions of a pool, stores the swaps it does not     *)
(* know in the table trades and adds each to a candle per timeframe, read  *)
(* and written in two requests.                                            *)
(*                                                                         *)
(* A poll that takes longer than the interval overlaps with the next one.  *)
(* A request may fail, with or without effect, and the process may be      *)
(* restarted between two requests.                                         *)
(*                                                                         *)
(* The model has the rows of one mint and the transactions of its pool.    *)
(* runOnce takes the pools one after another, and a trade is stored under  *)
(* the mint that its transaction names: one that trades in two pools is in *)
(* both lists and may be met first in the list of the other, before older  *)
(* trades of this mint are stored.  Transactions are numbered in the order *)
(* of the chain; what each is, when it happened and at what price is a     *)
(* constant.  Of a candle, volume is left out: it is added to where count  *)
(* is.                                                                     *)
(***************************************************************************)
EXTENDS Integers, FiniteSets, FiniteSetsExt, Functions, Sequences

CONSTANTS
  Polls,        \* runs of runOnce that may be under way at once
  MaxTxs,       \* bound on transactions
  Swaps,        \* the transactions stored as a trade of this mint
  Shared,       \* those of them that are in the list of another pool too
  Stamp,        \* blockTime of each transaction, in units of the timeframes
  Price,        \* SOL per token
  Timeframes,   \* lengths of the candles
  SIG_LIMIT,
  MaxPollFaults \* bound on failed requests and restarts

ASSUME IndexerAssumption ==
  /\ {MaxTxs, MaxPollFaults} \subseteq Nat /\ SIG_LIMIT \in Nat \ {0}
  /\ Shared \subseteq Swaps /\ Swaps \subseteq 1..MaxTxs
  /\ Stamp \in [1..MaxTxs -> Nat] /\ Price \in [1..MaxTxs -> Int]
  /\ Timeframes \subseteq Nat \ {0} /\ Timeframes # {} /\ IsFiniteSet(Timeframes)

VARIABLES
  height,      \* transactions of the pool so far
  trades,      \* the transactions stored in trades
  candles,     \* the rows of candles, by id
  poll,
  pollFaults,
  overlapped,  \* two polls have been under way at once (history)
  strayed      \* a trade was met in the list of another pool (history)

tables == <<trades, candles>>
past == <<overlapped, strayed>>
indexerVars == <<height, tables, poll, pollFaults, past>>

NoCandle == 0      \* no row

IdlePoll == [pc |-> "idle", sigs |-> <<>>, left |-> {}, row |-> NoCandle,
             read |-> [count |-> 0]]

IndexerInit ==
  /\ height = 0
  /\ trades = {}
  /\ candles = <<>>
  /\ poll = [p \in Polls |-> IdlePoll]
  /\ pollFaults = 0
  /\ overlapped = FALSE /\ strayed = FALSE

At(p, pc) == poll[p].pc = pc

PollGoes(p, to) == poll' = [poll EXCEPT ![p] = to]

PollFails ==
  /\ pollFaults < MaxPollFaults
  /\ pollFaults' = pollFaults + 1

tx(p) == Head(poll[p].sigs)

\* On to the next transaction; the poll ends after the last.
NextTx(p) ==
  LET rest == Tail(poll[p].sigs)
  IN PollGoes(p, IF rest = <<>> THEN IdlePoll
             ELSE [IdlePoll EXCEPT !.pc = "tx", !.sigs = rest])

-----------------------------------------------------------------------------
Trade ==
  /\ height < MaxTxs
  /\ height' = height + 1
  /\ UNCHANGED <<tables, poll, pollFaults, past>>

Recent_NewestFirst ==
  LET older == Max({0, height - SIG_LIMIT})
  IN [i \in 1..height - older |-> height + 1 - i]

Recent_Oldest == [i \in 1..Min({height, SIG_LIMIT}) |-> i]

\* The last SIG_LIMIT transactions, oldest first.
Recent ==
  LET older == Max({0, height - SIG_LIMIT})
  IN [i \in 1..height - older |-> older + i]

Begins(p, sigs) ==
  /\ At(p, "idle")
  /\ PollGoes(p, [IdlePoll EXCEPT !.pc = "tx", !.sigs = sigs])
  /\ overlapped' = (overlapped \/ \E q \in Polls \ {p} : ~At(q, "idle"))
  /\ UNCHANGED <<height, tables, pollFaults>>

\* runOnce at this pool, up to the first transaction; one that fails reads
\* nothing.
StartPoll(p) == height > 0 /\ Begins(p, Recent) /\ UNCHANGED strayed

\* runOnce at another pool: of its list, the transactions of this mint, one at
\* a time and whichever its SIG_LIMIT leaves in it.
StartOther(p) ==
  /\ \E i \in Shared \cap 1..height : Begins(p, <<i>>)
  /\ strayed' = TRUE

IsSwap(i) == i \in Swaps

\* getTransaction, parseSwapFromTx: what is not found is left for another
\* poll, what is no swap, or a trade of another mint, is passed over.
ReadTx(p) ==
  /\ At(p, "tx")
  /\ \/ IsSwap(tx(p)) /\ PollGoes(p, [poll[p] EXCEPT !.pc = "insert"])
        /\ UNCHANGED pollFaults
     \/ ~IsSwap(tx(p)) /\ NextTx(p) /\ UNCHANGED pollFaults
     \/ NextTx(p) /\ PollFails
  /\ UNCHANGED <<height, tables, past>>

\* tx_sig is unique.
Known(i) == i \in trades

\* A duplicate, and any other error, is passed over.
InsertTrade(p) ==
  /\ At(p, "insert")
  /\ \/ Known(tx(p)) /\ NextTx(p) /\ UNCHANGED <<trades, pollFaults>>
     \/ /\ ~Known(tx(p))
        /\ trades' = trades \cup {tx(p)}
        /\ \/ /\ PollGoes(p, [poll[p] EXCEPT !.pc = "read", !.left = Timeframes])
              /\ UNCHANGED pollFaults
           \/ NextTx(p) /\ PollFails
     \/ NextTx(p) /\ PollFails /\ UNCHANGED trades
  /\ UNCHANGED <<height, candles, past>>

getBucket(i, tf) == Stamp[i] \div tf

timeframe(p) == Min(poll[p].left)

FoundRows(p) ==
  {id \in DOMAIN candles : /\ candles[id].timeframe = timeframe(p)
                           /\ candles[id].bucket = getBucket(tx(p), timeframe(p))}

\* upsertCandle reads a row of the bucket; an error reads as none.
ReadCandle(p) ==
  /\ At(p, "read")
  /\ \/ \E id \in FoundRows(p) :
          /\ PollGoes(p, [poll[p] EXCEPT !.pc = "write", !.row = id,
                                     !.read = candles[id]])
          /\ UNCHANGED pollFaults
     \/ /\ IF FoundRows(p) = {} THEN UNCHANGED pollFaults ELSE PollFails
        /\ PollGoes(p, [poll[p] EXCEPT !.pc = "write"])
  /\ UNCHANGED <<height, tables, past>>

NewCandle(p) ==
  LET price == Price[tx(p)]
  IN [timeframe |-> timeframe(p), bucket |-> getBucket(tx(p), timeframe(p)),
      open |-> price, high |-> price, low |-> price, close |-> price,
      count |-> 1]

Updated(p) ==
  LET c == poll[p].read
      price == Price[tx(p)]
  IN [c EXCEPT !.high = Max({@, price}), !.low = Min({@, price}),
               !.close = price, !.count = @ + 1]

\* The columns that are written are computed from the row that was read.
Written(p) ==
  IF poll[p].row = NoCandle THEN Append(candles, NewCandle(p))
  ELSE [candles EXCEPT ![poll[p].row] = Updated(p)]

NextTimeframe(p) ==
  IF poll[p].left = {timeframe(p)} THEN NextTx(p)
  ELSE PollGoes(p, [IdlePoll EXCEPT !.pc = "read", !.sigs = poll[p].sigs,
                            !.left = poll[p].left \ {timeframe(p)}])

\* Its error is not looked at.
WriteCandle(p) ==
  /\ At(p, "write")
  /\ \/ candles' = Written(p) /\ UNCHANGED pollFaults
     \/ UNCHANGED candles /\ PollFails
  /\ NextTimeframe(p)
  /\ UNCHANGED <<height, trades, past>>

Restart ==
  /\ \E p \in Polls : ~At(p, "idle")
  /\ PollFails
  /\ poll' = [p \in Polls |-> IdlePoll]
  /\ UNCHANGED <<height, tables, past>>

Step(p) == ReadTx(p) \/ InsertTrade(p) \/ ReadCandle(p) \/ WriteCandle(p)

IndexerNext ==
  \/ Trade \/ Restart
  \/ \E p \in Polls : StartPoll(p) \/ StartOther(p) \/ Step(p)

IndexerSpec == IndexerInit /\ [][IndexerNext]_indexerVars

\* A poll that has begun goes on, the timer begins another, and this pool has
\* its turn among the pools.
IndexerFairSpec ==
  /\ IndexerSpec
  /\ \A p \in Polls : WF_indexerVars(Step(p)) /\ SF_indexerVars(StartPoll(p))

-----------------------------------------------------------------------------
IndexerTypeOK ==
  /\ height \in 0..MaxTxs
  /\ trades \subseteq Swaps \cap 1..height
  /\ \A id \in DOMAIN candles :
       /\ candles[id].timeframe \in Timeframes
       /\ candles[id].count \in Nat \ {0}
       /\ {candles[id].open, candles[id].high, candles[id].low,
           candles[id].close} \subseteq {Price[i] : i \in trades}
  /\ \A p \in Polls : /\ poll[p].left \subseteq Timeframes
                      /\ poll[p].row \in 0..Len(candles)
  /\ pollFaults \in 0..MaxPollFaults
  /\ overlapped \in BOOLEAN /\ strayed \in BOOLEAN

Rows(tf, b) ==
  {id \in DOMAIN candles : candles[id].timeframe = tf /\ candles[id].bucket = b}

TradesIn(tf, b) == {i \in trades : getBucket(i, tf) = b}

Counted(tf, b) ==
  SumFunctionOnSet([id \in Rows(tf, b) |-> candles[id].count], Rows(tf, b))

Buckets(tf) == {getBucket(i, tf) : i \in 1..MaxTxs}

AllCounted(tf) ==
  SumFunctionOnSet([b \in Buckets(tf) |-> Counted(tf, b)], Buckets(tf))

AllIdle == \A p \in Polls : At(p, "idle")

\* c counts the trades `in' and has their highest and lowest price; the first
\* and the last price are of trades of `in', and of the first and the last of
\* them unless trades were met in the list of another pool.
IsCandle(c, in) ==
  /\ c.count = Cardinality(in)
  /\ c.high = Max({Price[i] : i \in in}) /\ c.low = Min({Price[i] : i \in in})
  /\ {c.open, c.close} \subseteq {Price[i] : i \in in}
  /\ ~strayed => c.open = Price[Min(in)] /\ c.close = Price[Max(in)]

\* However polls overlap, fail and are repeated, the candles of a bucket count
\* no trade twice.  As long as polls do not overlap, a failed request or a
\* restart costs each timeframe the candle update of one trade at most; with
\* none of either there is one row, the candle of the trades of its bucket.
CandlesMatchTrades ==
  \A tf \in Timeframes :
    /\ \A b \in Buckets(tf) : Counted(tf, b) <= Cardinality(TradesIn(tf, b))
    /\ AllIdle /\ ~overlapped =>
         /\ Cardinality(trades) - AllCounted(tf) <= pollFaults
         /\ pollFaults = 0 => \A b \in Buckets(tf) : TradesIn(tf, b) # {} =>
              \E id \in Rows(tf, b) :
                Rows(tf, b) = {id} /\ IsCandle(candles[id], TradesIn(tf, b))

\* Every swap is stored in the end, unless SIG_LIMIT later transactions push
\* it out of what a poll asks for.
EverySwapIsStored ==
  \A i \in Swaps : height >= i ~> i \in trades \/ height >= i + SIG_LIMIT
=============================================================================
