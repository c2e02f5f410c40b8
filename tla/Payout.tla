------------------------------- MODULE Payout -------------------------------
(***************************************************************************)
(* The quarterly distribution (distribute.js): for each token one batch    *)
(* row, one payout row per wallet in proportion to its points, and USDC    *)
(* transfers of TRANSFERS_PER_TX wallets per transaction, recorded row by  *)
(* row.                                                                    *)
(*                                                                         *)
(* One process runs at a time, for real or as a DRY_RUN, and may be run    *)
(* again.  A request may fail, one that writes may take effect and lose    *)
(* its reply, the process may crash between two requests, and a            *)
(* transaction that was sent takes effect, fails or expires at any time    *)
(* after, whatever the bot has heard of it.                                *)
(*                                                                         *)
(* Payout rows are addressed by id and (quarter, mint, wallet) is UNIQUE:  *)
(* a batch of rows that holds a known wallet is refused as a whole.        *)
(* Amounts are in the smallest unit of USDC.                               *)
(***************************************************************************)
EXTENDS Naturals, FiniteSets, FiniteSetsExt, Sequences, SequencesExt

CONSTANTS
  Mints,
  Wallets,
  OffCurve,          \* those that are program addresses: the pools' owner
  Totals,            \* the rows of airdrop_totals, as <<mint, wallet>>
  Snapshotted,       \* mints with a snapshot in the quarter
  Points,            \* quarter_points of each mint and wallet
  Pool,              \* pool_usdc of each mint
  Short,             \* rows whose amount times 1e6 is a bit below the number
                     \* of units, as <<mint, wallet>>
  Balance,           \* what the bot has at first
  MIN_PAYOUT_USDC,
  TRANSFERS_PER_TX,
  INSERT_SIZE,       \* rows in one request
  PENDING_LIMIT,     \* pending rows that are read: 10000
  TOTALS_LIMIT,      \* rows of airdrop_totals that are read: 1000
  DryRuns,           \* the values DRY_RUN may have
  MaxFaults          \* bound on failed requests, refusals and crashes

ASSUME PayoutAssumption ==
  /\ IsFiniteSet(Wallets) /\ OffCurve \subseteq Wallets
  /\ Totals \subseteq Mints \X Wallets /\ Snapshotted \subseteq Mints
  /\ Points \in [Mints -> [Wallets -> Nat]]
  /\ Pool \in [Mints -> Nat \ {0}]
  /\ {MIN_PAYOUT_USDC, TRANSFERS_PER_TX, INSERT_SIZE,
      PENDING_LIMIT} \subseteq Nat \ {0}
  /\ {Balance, TOTALS_LIMIT, MaxFaults} \subseteq Nat
  /\ DryRuns \subseteq BOOLEAN
  /\ Short \subseteq Mints \X Wallets
  /\ Short # {} => MIN_PAYOUT_USDC > 1

VARIABLES
  batch,      \* airdrop_payout_batches: the row of each mint
  rows,       \* airdrop_payouts: the status of each mint and wallet
  received,   \* USDC each wallet has got for each mint
  balance,    \* USDC of the bot
  txs,        \* transactions on their way, with the result once there is one
  bot,
  faults,
  refused     \* payouts whose transaction failed on chain (history)

tables == <<batch, rows>>
chain == <<received, balance, txs, refused>>
vars == <<tables, chain, bot, faults>>

-----------------------------------------------------------------------------
Eligible(m) == {w \in Wallets : Points[m][w] > 0}

totalPoints(m) == SumFunctionOnSet(Points[m], Eligible(m))

\* share * poolUsdc, rounded to the nearest unit.
usdc_amount(m, w) ==
  (2 * Points[m][w] * Pool[m] + totalPoints(m)) \div (2 * totalPoints(m))

\* Math.floor of the row's amount times 1e6, in floating point.
transferred(m, w) ==
  usdc_amount(m, w) - (IF <<m, w>> \in Short THEN 1 ELSE 0)

FirstStatus(m, w) ==
  IF Points[m][w] * Pool[m] < MIN_PAYOUT_USDC * totalPoints(m)
  THEN "skipped" ELSE "pending"

Amount(m, chunk) ==
  SumFunctionOnSet([w \in Wallets |-> usdc_amount(m, w)], chunk)

Cost(m, chunk) ==
  SumFunctionOnSet([w \in Wallets |-> transferred(m, w)], chunk)

NoBatch == [status |-> "none", wallets_paid |-> 0, usdc_distributed |-> 0]

Idle == [pc |-> "idle", dry |-> FALSE, todo |-> {}, mint |-> "none",
         payouts |-> {}, left |-> <<>>, tx |-> {}, row |-> 0, paid |-> 0, distributed |-> 0]

Init ==
  /\ batch = [m \in Mints |-> NoBatch]
  /\ rows = [m \in Mints |-> [w \in Wallets |-> "none"]]
  /\ received = [m \in Mints |-> [w \in Wallets |-> 0]]
  /\ balance = Balance
  /\ txs = {}
  /\ bot = Idle
  /\ faults = 0
  /\ refused = {}

Fails ==
  /\ faults < MaxFaults
  /\ faults' = faults + 1

mint == bot.mint

\* The wallets of the transaction in hand, in order.
Chunk == SubSeq(bot.left, 1, Min({TRANSFERS_PER_TX, Len(bot.left)}))

Goes(pc) == bot' = [bot EXCEPT !.pc = pc, !.row = 0]

\* distributeForToken returns or throws; the next token's turn.
Leaves ==
  bot' = [Idle EXCEPT !.pc = "token", !.dry = bot.dry,
                      !.todo = bot.todo \ {mint}]

\* A request that writes: it takes effect and is answered, takes effect and is
\* not answered, or neither.
Request(write, keep, then, otherwise) ==
  \/ write /\ then /\ UNCHANGED faults
  \/ write /\ otherwise /\ Fails
  \/ keep /\ otherwise /\ Fails

-----------------------------------------------------------------------------
\* The tokens of a run: airdrop_totals has a row for each holder of each, in no
\* order, and those that are read name the tokens.
TokensRead ==
  {{r[1] : r \in read} :
     read \in kSubset(Min({TOTALS_LIMIT, Cardinality(Totals)}), Totals)}

\* distribute up to its first token.
Start ==
  /\ bot.pc = "idle"
  /\ \E dry \in DryRuns, tokens \in TokensRead :
       bot' = [Idle EXCEPT !.pc = "token", !.dry = dry, !.todo = tokens]
  /\ UNCHANGED <<tables, chain, faults>>

Exit ==
  /\ bot.pc = "token" /\ bot.todo = {}
  /\ bot' = Idle
  /\ UNCHANGED <<tables, chain, faults>>

Crash ==
  /\ bot.pc # "idle"
  /\ Fails
  /\ bot' = Idle
  /\ UNCHANGED <<tables, chain>>

\* The batch and the points of a token are read.  One that has snapshots and no
\* points has its batch all the same.
Open(m) ==
  LET turn == [bot EXCEPT !.mint = m, !.payouts = Eligible(m)]
      over == [bot EXCEPT !.todo = @ \ {m}]
  IN /\ bot.pc = "token" /\ m \in bot.todo
     /\ \/ /\ batch[m].status # "completed" /\ m \in Snapshotted
           /\ bot' = [turn EXCEPT
                !.pc = IF batch[m].status = "none" THEN "create" ELSE "insert"]
           /\ UNCHANGED faults
        \/ /\ batch[m].status = "completed" \/ m \notin Snapshotted
           /\ bot' = over /\ UNCHANGED faults
        \/ bot' = over /\ Fails
     /\ UNCHANGED <<tables, chain>>

CreateBatch ==
  /\ bot.pc = "create"
  /\ Request(batch' = [batch EXCEPT ![mint].status = "distributing"],
             UNCHANGED batch, Goes("insert"), Leaves)
  /\ UNCHANGED <<rows, chain>>

\* The holders of a token come in no order: which of those left are in the next
\* request is open.
Slices == kSubset(Min({INSERT_SIZE, Cardinality(bot.payouts)}), bot.payouts)

Known_Never(slice) == FALSE

Known_ByToken(slice) == \E w \in Wallets : rows[mint][w] # "none"

\* The UNIQUE constraint refuses the request.
Known(slice) == \E w \in slice : rows[mint][w] # "none"

\* The payout rows, INSERT_SIZE at a time; if there is none, no request.
InsertSlice(slice) ==
  \/ Known(slice) /\ Leaves /\ UNCHANGED <<rows, faults>>
  \/ /\ ~Known(slice)
     /\ Request(rows' = [rows EXCEPT ![mint] =
                  [w \in Wallets |-> IF w \in slice
                                     THEN FirstStatus(mint, w) ELSE @[w]]],
                UNCHANGED rows,
                bot' = [bot EXCEPT !.payouts = @ \ slice,
                          !.pc = IF slice = bot.payouts THEN "pending" ELSE @],
                Leaves)

InsertPayouts ==
  /\ bot.pc = "insert"
  /\ IF bot.payouts = {} THEN Goes("pending") /\ UNCHANGED <<rows, faults>>
     ELSE \E slice \in Slices : InsertSlice(slice)
  /\ UNCHANGED <<batch, chain>>

ReadPart(order) == SubSeq(order, 1, Min({PENDING_LIMIT, Len(order)}))

\* The pending rows, largest first, no more than the limit, and the counters of
\* the batch.
ReadPending ==
  LET pending == {w \in Wallets : rows[mint][w] = "pending"}
  IN /\ bot.pc = "pending"
     /\ \/ \E order \in SetToSeqs(pending) :
             /\ \A i, j \in DOMAIN order : i < j =>
                  usdc_amount(mint, order[i]) >= usdc_amount(mint, order[j])
             /\ bot' = [bot EXCEPT
                  !.pc = IF pending = {} \/ bot.dry THEN "final" ELSE "send",
                  !.left = ReadPart(order), !.row = 0,
                  !.paid = batch[mint].wallets_paid,
                  !.distributed = batch[mint].usdc_distributed]
             /\ UNCHANGED faults
        \/ Leaves /\ Fails
     /\ UNCHANGED <<tables, chain>>

-----------------------------------------------------------------------------
(***************************************************************************)
(* One transaction after another.                                          *)
(***************************************************************************)
Tx(result) == [mint |-> mint, wallets |-> bot.tx, result |-> result]

NextChunk_Recounting(now) ==
  LET rest == SubSeq(now.left, Len(Chunk) + 1, Len(now.left))
  IN [now EXCEPT !.pc = IF rest = <<>> THEN "final" ELSE "send",
               !.left = rest, !.tx = {}, !.row = 0, !.paid = 0]

NextChunk_Overlapping(now) ==
  LET rest == SubSeq(now.left, Len(Chunk), Len(now.left))
  IN [now EXCEPT !.pc = IF rest = <<>> THEN "final" ELSE "send",
               !.left = rest, !.tx = {}, !.row = 0]

NextChunk(now) ==
  LET rest == SubSeq(now.left, Len(Chunk) + 1, Len(now.left))
  IN [now EXCEPT !.pc = IF rest = <<>> THEN "final" ELSE "send",
               !.left = rest, !.tx = {}, !.row = 0]

\* Built, signed and sent without preflight.  A program address has no
\* associated token account the bot would name: the whole chunk fails.
Send ==
  LET wallets == Range(Chunk)
      sent == [mint |-> mint, wallets |-> wallets, result |-> "sent"]
  IN /\ bot.pc = "send"
     /\ \/ wallets \cap OffCurve # {} /\ Goes("failed")
                                      /\ UNCHANGED <<txs, faults>>
        \/ /\ wallets \cap OffCurve = {}
           /\ Request(txs' = {t \in txs : t.mint # mint \/ t.wallets # wallets}
                               \cup {sent},
                      UNCHANGED txs,
                      bot' = [bot EXCEPT !.pc = "confirm", !.tx = wallets],
                      Goes("failed"))
     /\ UNCHANGED <<tables, received, balance, refused>>

Processed_OrExpired == {Tx("landed"), Tx("failed"), Tx("expired")}

Processed == {Tx("landed"), Tx("failed")}

\* confirmTransaction returns for a transaction that was processed, with an
\* error or without, and throws for one that expired or was not heard of.
Confirm ==
  /\ bot.pc = "confirm"
  /\ \/ Processed \cap txs # {}
        /\ Goes("record") /\ UNCHANGED faults
     \/ Tx("expired") \in txs /\ Goes("failed") /\ UNCHANGED faults
     \/ Goes("failed") /\ Fails
  /\ UNCHANGED <<tables, chain>>

RowTo(status) == rows' = [rows EXCEPT ![mint][Chunk[bot.row + 1]] = status]

RecordRow ==
  LET amount == usdc_amount(mint, Chunk[bot.row + 1])
  IN /\ bot.pc = "record"
     /\ Request(RowTo("confirmed"), UNCHANGED rows,
                bot' = [bot EXCEPT
                  !.row = @ + 1, !.paid = @ + 1, !.distributed = @ + amount,
                  !.pc = IF bot.row + 1 = Len(Chunk) THEN "progress" ELSE @],
                Goes("failed"))
     /\ UNCHANGED <<batch, chain>>

Counted(m, status) ==
  batch' = [batch EXCEPT ![m] = [status |-> status,
    wallets_paid |-> bot.paid, usdc_distributed |-> bot.distributed]]

RecordProgress ==
  /\ bot.pc = "progress"
  /\ Request(Counted(mint, batch[mint].status), UNCHANGED batch,
             bot' = NextChunk(bot), Goes("failed"))
  /\ UNCHANGED <<rows, chain>>

\* The catch block: every row of the chunk, those just confirmed included.
MarkFailed ==
  /\ bot.pc = "failed"
  /\ Request(RowTo("failed"), UNCHANGED rows,
             bot' = IF bot.row + 1 = Len(Chunk) THEN NextChunk(bot)
                    ELSE [bot EXCEPT !.row = @ + 1],
             Leaves)
  /\ UNCHANGED <<batch, chain>>

\* A dry run has sent nothing and leaves the batch open.
Finalize ==
  /\ bot.pc = "final"
  /\ Request(Counted(mint, IF bot.left = <<>> THEN "completed" ELSE "pending"),
             UNCHANGED batch, Leaves, Leaves)
  /\ UNCHANGED <<rows, chain>>

-----------------------------------------------------------------------------
(***************************************************************************)
(* The cluster.                                                            *)
(***************************************************************************)
Becomes(t, result) == txs' = (txs \ {t}) \cup {[t EXCEPT !.result = result]}

Land(t) ==
  LET cost == Cost(t.mint, t.wallets)
  IN /\ t.result = "sent" /\ balance >= cost
     /\ Becomes(t, "landed")
     /\ balance' = balance - cost
     /\ received' = [received EXCEPT ![t.mint] = [w \in Wallets |->
          @[w] + IF w \in t.wallets THEN transferred(t.mint, w) ELSE 0]]
     /\ UNCHANGED <<tables, bot, faults, refused>>

\* Processed with an error: the bot has too little USDC, or anything else.
Refuse(t) ==
  /\ t.result = "sent"
  /\ IF balance < Cost(t.mint, t.wallets) THEN UNCHANGED faults ELSE Fails
  /\ Becomes(t, "failed")
  /\ refused' = refused \cup {<<t.mint, w>> : w \in t.wallets}
  /\ UNCHANGED <<tables, received, balance, bot>>

Expire(t) ==
  /\ t.result = "sent"
  /\ Fails
  /\ Becomes(t, "expired")
  /\ UNCHANGED <<tables, received, balance, bot, refused>>

BotStep ==
  \/ Exit \/ (\E m \in Mints : Open(m)) \/ CreateBatch \/ InsertPayouts
  \/ ReadPending \/ Send \/ Confirm \/ RecordRow \/ RecordProgress
  \/ MarkFailed \/ Finalize

Cluster == \E t \in txs : Land(t) \/ Refuse(t)

Next == Start \/ BotStep \/ Crash \/ Cluster \/ (\E t \in txs : Expire(t))

Spec == Init /\ [][Next]_vars

\* The bot runs on, whoever operates it starts it again, and a transaction
\* that was sent is processed or expires.
FairSpec ==
  Spec /\ WF_vars(BotStep) /\ WF_vars(Start) /\ WF_vars(Cluster)

-----------------------------------------------------------------------------
Statuses == {"none", "pending", "skipped", "confirmed", "failed"}

TypeOK ==
  /\ batch \in [Mints -> [status : {"none", "distributing", "pending",
                                    "completed"},
                          wallets_paid : Nat, usdc_distributed : Nat]]
  /\ rows \in [Mints -> [Wallets -> Statuses]]
  /\ received \in [Mints -> [Wallets -> Nat]]
  /\ balance \in 0..Balance
  /\ \A t \in txs : /\ t.mint \in Mints /\ t.wallets \subseteq Wallets
                    /\ t.result \in {"sent", "landed", "failed", "expired"}
  /\ bot.todo \subseteq Mints
  /\ bot.payouts \subseteq Wallets /\ Range(bot.left) \subseteq Wallets
  /\ faults \in 0..MaxFaults

\* A token's batch pays out its pool at most, but for the rounding of the
\* amounts to units.
PaidWithinPool ==
  \A m \in Mints :
    2 * SumFunctionOnSet(received[m], Wallets)
      <= 2 * Pool[m] + Cardinality(Wallets)

\* A row that says confirmed stands for a payment of its amount or one unit
\* less, or for a transaction that failed on chain (whose error is not looked
\* at); a wallet without a row, or whose share is dust, has got nothing.
RowsTellPayments ==
  \A m \in Mints, w \in Wallets :
    /\ rows[m][w] = "confirmed" =>
         \/ received[m][w] \in {usdc_amount(m, w), usdc_amount(m, w) - 1} \ {0}
         \/ <<m, w>> \in refused
    /\ rows[m][w] \in {"none", "skipped"} => received[m][w] = 0

With(m, status) == {w \in Wallets : rows[m][w] = status}

\* A completed batch is through with every row it read, its counters miss no
\* row that was confirmed, and are exact when no call was lost; then a program
\* address among the holders has taken its own transaction down and no other.
\* What it leaves pending, for ever, is what the limit cut off: it has read as
\* many rows as it can, and none of a smaller share.
CompletedIsThrough ==
  \A m \in Mints : batch[m].status = "completed" =>
    LET confirmed == With(m, "confirmed")
        failed == With(m, "failed")
    IN /\ With(m, "none") \cap Eligible(m) = {}
       /\ batch[m].wallets_paid >= Cardinality(confirmed)
       /\ batch[m].usdc_distributed >= Amount(m, confirmed)
       /\ faults = 0 => /\ batch[m].wallets_paid = Cardinality(confirmed)
                        /\ batch[m].usdc_distributed = Amount(m, confirmed)
                        /\ Cardinality(failed) <= TRANSFERS_PER_TX
                             * Cardinality(failed \cap OffCurve)
       /\ \A w \in With(m, "pending") :
            /\ Cardinality(confirmed \cup failed) = PENDING_LIMIT
            /\ \A v \in confirmed \cup failed :
                 usdc_amount(m, v) >= usdc_amount(m, w)

\* The ledger this distribution keeps, where a group is a transaction.
Groups(results) ==
  {<<t.mint, t.wallets>> : t \in {u \in txs : u.result \in results}}

TheLedger == INSTANCE Ledger WITH
  Amount <- transferred,
  out <- Groups({"sent"}),
  paid <- Groups({"landed"}),
  void <- Groups({"failed", "expired"}),
  got <- received,
  funds <- balance,
  closed <- {m \in Mints : batch[m].status = "completed"}

\* However often the script is run, for real or not, and whatever is lost or
\* late: no share is put into a second transaction, a transaction pays all its
\* wallets or none, and once a batch is completed nothing more is sent for it.
LedgerSpec == TheLedger!Spec

\* A batch that is begun for real is completed, if nothing fails.
CompletesUndisturbed ==
  \A m \in Mints :
    batch[m].status = "distributing" /\ bot.mint = m /\ ~bot.dry
      ~> batch[m].status = "completed" \/ faults > 0

\* distribute.js:14, "Resume from where it stopped if interrupted".
ResumesWhenInterrupted ==
  \A m \in Mints :
    batch[m].status = "distributing" ~> batch[m].status = "completed"
=============================================================================
