---------------------------- MODULE PayoutProofs -----------------------------
(***************************************************************************)
(* The properties of Payout.                                               *)
(***************************************************************************)
EXTENDS Payout, SumTheorems

PCs == {"idle", "token", "create", "insert", "pending", "send", "confirm",
        "record", "progress", "failed", "final"}

Sending == {"send", "confirm", "record", "progress", "failed"}

Results == {"sent", "landed", "failed", "expired"}

TxType == [mint : Mints, wallets : SUBSET Wallets, result : Results]

BotType ==
  [pc : PCs, dry : BOOLEAN, todo : SUBSET Mints, mint : Mints \cup {"none"},
   payouts : SUBSET Wallets, left : Seq(Wallets), tx : SUBSET Wallets,
   row : Nat, paid : Nat, distributed : Nat]

Types ==
  /\ batch \in [Mints -> [status : {"none", "distributing", "pending",
                                    "completed"},
                          wallets_paid : Nat, usdc_distributed : Nat]]
  /\ rows \in [Mints -> [Wallets -> Statuses]]
  /\ received \in [Mints -> [Wallets -> Nat]]
  /\ balance \in 0..Balance
  /\ txs \subseteq TxType
  /\ bot \in BotType
  /\ faults \in 0..MaxFaults

\* Every holder of m has a row.
Begun(m) == \A w \in Eligible(m) : rows[m][w] # "none"

Sure == {"pending", "confirmed", "failed"}

\* Only a share that is not dust has such a row.
RowsOK ==
  \A m \in Mints, w \in Wallets :
    rows[m][w] \in Sure =>
      /\ w \in Eligible(m)
      /\ Points[m][w] * Pool[m] >= MIN_PAYOUT_USDC * totalPoints(m)

\* Transactions of one token have no wallet in common, and those of their
\* wallets have rows.
TxsOK ==
  /\ \A t \in txs : /\ t.wallets # {}
                    /\ Begun(t.mint)
                    /\ \A w \in t.wallets : rows[t.mint][w] \in Sure
  /\ \A t, u \in txs :
       t.mint = u.mint => t = u \/ t.wallets \cap u.wallets = {}

In(m, w, results) ==
  \E t \in txs : t.mint = m /\ w \in t.wallets /\ t.result \in results

\* What each wallet has got is what the transactions that landed say.
Receipts ==
  \A m \in Mints, w \in Wallets :
    /\ received[m][w] =
         IF In(m, w, {"landed"}) THEN transferred(m, w) ELSE 0
    /\ In(m, w, {"failed"}) => <<m, w>> \in refused
    /\ rows[m][w] = "confirmed" => In(m, w, {"landed", "failed"})

Free(w) == rows[mint][w] = "pending" /\ ~In(mint, w, Results)

Size == Min({TRANSFERS_PER_TX, Len(bot.left)})

\* Where the bot is: it has a token whose batch is open,
OnToken ==
  bot.pc \notin {"idle", "token"} =>
    mint \in Mints /\ batch[mint].status # "completed"

\* what it has still to insert is all that has no row,
OnPayouts ==
  /\ bot.pc = "create" => bot.payouts = Eligible(mint)
  /\ bot.pc = "insert" =>
       /\ bot.payouts \in SUBSET Eligible(mint)
       /\ bot.payouts = {} => Eligible(mint) = {}
       /\ \A w \in Eligible(mint) \ bot.payouts : rows[mint][w] # "none"

\* it has begun the rows itself, before any transaction,
OnRows ==
  /\ bot.pc \in {"pending", "final"} \cup Sending => Begun(mint)
  /\ bot.pc = "pending" => \A t \in txs : t.mint # mint

\* what it has still to send is in no transaction,
OnChunk ==
  bot.pc \in Sending =>
    /\ bot.left # <<>>
    /\ \A i, j \in DOMAIN bot.left : bot.left[i] = bot.left[j] => i = j
    /\ \A i \in DOMAIN bot.left :
         /\ rows[mint][bot.left[i]] \in Sure
         /\ bot.pc = "send" \/ i > Size => Free(bot.left[i])

\* and what it records was processed.
OnTx ==
  /\ bot.pc \in {"confirm", "record", "progress"} => bot.tx = Range(Chunk)
  /\ bot.pc = "record" => Processed \cap txs # {}
  /\ bot.pc \in {"record", "failed"} => bot.row < Size

BotOK == OnToken /\ OnPayouts /\ OnRows /\ OnChunk /\ OnTx

IInv == Types /\ RowsOK /\ TxsOK /\ Receipts /\ BotOK

-----------------------------------------------------------------------------
LEMMA ConstantTypes ==
  /\ IsFiniteSet(Wallets) /\ OffCurve \subseteq Wallets
  /\ Points \in [Mints -> [Wallets -> Nat]]
  /\ Pool \in [Mints -> Nat \ {0}]
  /\ MIN_PAYOUT_USDC \in Nat \ {0}
  /\ TRANSFERS_PER_TX \in Nat \ {0}
  /\ INSERT_SIZE \in Nat \ {0}
  /\ PENDING_LIMIT \in Nat \ {0}
  /\ Balance \in Nat /\ TOTALS_LIMIT \in Nat
  /\ MaxFaults \in Nat /\ DryRuns \subseteq BOOLEAN
  /\ Totals \subseteq Mints \X Wallets /\ Short \subseteq Mints \X Wallets
  /\ Short # {} => MIN_PAYOUT_USDC > 1
  BY PayoutAssumption

LEMMA EligibleFinite ==
  ASSUME NEW m \in Mints
  PROVE  Eligible(m) \in SUBSET Wallets /\ IsFiniteSet(Eligible(m))
<1>1. Eligible(m) \in SUBSET Wallets
  BY DEF Eligible
<1> QED
  BY <1>1, ConstantTypes, FS_Subset

\* A token with a holder has points to share.
LEMMA TotalPoints ==
  ASSUME NEW m \in Mints
  PROVE  /\ totalPoints(m) \in Nat
         /\ Eligible(m) # {} => totalPoints(m) > 0
<1>1. \A w \in Eligible(m) : Points[m][w] \in Nat /\ Points[m][w] > 0
  BY ConstantTypes DEF Eligible
<1>2. totalPoints(m) \in Nat
  BY <1>1, EligibleFinite, SumNat DEF totalPoints
<1>3. ASSUME NEW w \in Eligible(m) PROVE Points[m][w] <= totalPoints(m)
  BY <1>1, EligibleFinite, SumMember DEF totalPoints
<1> QED
  BY <1>1, <1>2, <1>3

\* Rounding to the nearest unit: at most half a unit more than the share, and
\* no less than the minimum for a share that is not dust.
LEMMA AmountOfShare ==
  ASSUME NEW m \in Mints, NEW w \in Wallets, Eligible(m) # {}
  PROVE  /\ usdc_amount(m, w) \in Nat
         /\ 2 * totalPoints(m) * usdc_amount(m, w)
              <= 2 * Points[m][w] * Pool[m] + totalPoints(m)
         /\ Points[m][w] * Pool[m] >= MIN_PAYOUT_USDC * totalPoints(m)
              => usdc_amount(m, w) >= MIN_PAYOUT_USDC
<1>1. PICK T \in Nat : T = totalPoints(m) /\ T > 0
  BY TotalPoints
<1>2. PICK P \in Nat : P = Points[m][w] * Pool[m]
  BY ConstantTypes
<1>3. usdc_amount(m, w) = (2 * P + T) \div (2 * T)
  BY <1>1, <1>2, ConstantTypes DEF usdc_amount
<1>4. PICK A \in Int : A = (2 * P + T) \div (2 * T)
  BY <1>1
<1>5. A >= 0 /\ 2 * T * A <= 2 * P + T /\ 2 * P + T < 2 * T * (A + 1)
  BY <1>1, <1>4
<1>6. ASSUME P >= MIN_PAYOUT_USDC * T PROVE A >= MIN_PAYOUT_USDC
  <2>1. PICK k \in Nat : k = MIN_PAYOUT_USDC
    BY ConstantTypes
  <2>2. 2 * T * k <= 2 * P + T
    BY <1>1, <1>6, <2>1
  <2>3. 2 * T * k < 2 * T * (A + 1)
    BY <1>1, <1>4, <1>5, <2>1, <2>2
  <2>4. ~(A + 1 <= k)
    <3>1. ASSUME A + 1 <= k PROVE FALSE
      <4>1. PICK d \in Nat : d = k - (A + 1)
        BY <3>1
      <4>2. PICK U \in Nat : U = 2 * T
        BY <1>1
      <4>3. PICK x, y \in Int : x = U * (A + 1) /\ y = U * d /\ y >= 0
        BY <4>1, <4>2
      <4>4. U * k = x + y
        BY <4>1, <4>2, <4>3
      <4>5. U * k < x
        BY <2>3, <4>2, <4>3
      <4> QED
        BY <4>3, <4>4, <4>5
    <3> QED
      BY <3>1
  <2> QED
    BY <2>1, <2>4
<1> QED
  BY <1>1, <1>2, <1>3, <1>4, <1>5, <1>6, ConstantTypes

\* What a row that is not dust moves: its amount, or one unit less.
LEMMA TransferOfShare ==
  ASSUME NEW m \in Mints, NEW w \in Wallets, Eligible(m) # {},
         Points[m][w] * Pool[m] >= MIN_PAYOUT_USDC * totalPoints(m)
  PROVE  /\ transferred(m, w) \in Nat /\ transferred(m, w) > 0
         /\ transferred(m, w) \in {usdc_amount(m, w), usdc_amount(m, w) - 1}
         /\ transferred(m, w) <= usdc_amount(m, w)
<1>1. PICK A \in Nat : A = usdc_amount(m, w) /\ A >= MIN_PAYOUT_USDC
  BY AmountOfShare
<1>2. <<m, w>> \in Short => A > 1
  BY <1>1, ConstantTypes
<1>3. transferred(m, w) = A - (IF <<m, w>> \in Short THEN 1 ELSE 0)
  BY <1>1 DEF transferred
<1> QED
  BY <1>1, <1>2, <1>3, ConstantTypes

LEMMA AmountNat ==
  ASSUME NEW m \in Mints, NEW ws \in SUBSET Eligible(m)
  PROVE  Amount(m, ws) \in Nat
<1>1. IsFiniteSet(ws)
  BY EligibleFinite, FS_Subset
<1>2. \A w \in ws : [v \in Wallets |-> usdc_amount(m, v)][w] \in Nat
  BY AmountOfShare, EligibleFinite
<1> QED
  BY <1>1, <1>2, SumNat DEF Amount

LEMMA CostNat ==
  ASSUME NEW m \in Mints, NEW ws \in SUBSET Eligible(m),
         \A w \in ws : transferred(m, w) \in Nat
  PROVE  Cost(m, ws) \in Nat
<1>1. IsFiniteSet(ws) /\ ws \in SUBSET Wallets
  BY EligibleFinite, FS_Subset
<1>2. \A w \in ws : [v \in Wallets |-> transferred(m, v)][w] \in Nat
  BY <1>1
<1> QED
  BY <1>1, <1>2, SumNat DEF Cost

LEMMA MinOfTwo ==
  ASSUME NEW a \in Nat, NEW b \in Nat
  PROVE  Min({a, b}) = IF a <= b THEN a ELSE b
  BY DEF Min

\* The first elements of a sequence.
LEMMA Prefix ==
  ASSUME NEW S, NEW s \in Seq(S), NEW k \in 1..Len(s)
  PROVE  /\ SubSeq(s, 1, k) \in Seq(S) /\ Len(SubSeq(s, 1, k)) = k
         /\ DOMAIN SubSeq(s, 1, k) = 1..k
         /\ \A i \in 1..k : SubSeq(s, 1, k)[i] = s[i]
<1>1. PICK c : c = SubSeq(s, 1, k)
  OBVIOUS
<1>2. Len(c) = k /\ c \in Seq(S) /\ \A i \in 1..k : c[i] = s[i]
  BY <1>1
<1> QED
  BY <1>1, <1>2

\* The wallets of the transaction in hand.
LEMMA TheChunk ==
  ASSUME NEW l \in Seq(Wallets), l # <<>>, bot.left = l
  PROVE  /\ Size \in 1..Len(l)
         /\ Len(Chunk) = Size
         /\ \A i \in 1..Size : Chunk[i] = l[i]
         /\ Range(Chunk) = {l[i] : i \in 1..Size}
         /\ Range(Chunk) \in SUBSET Wallets /\ Range(Chunk) # {}
<1>1. Len(l) \in Nat /\ Len(l) > 0
  OBVIOUS
<1>2. TRANSFERS_PER_TX \in Nat /\ TRANSFERS_PER_TX > 0
  BY ConstantTypes
<1>3. Size = IF TRANSFERS_PER_TX <= Len(l) THEN TRANSFERS_PER_TX ELSE Len(l)
  BY <1>1, <1>2 DEF Size, Min
<1>4. Size \in 1..Len(l)
  BY <1>1, <1>2, <1>3
<1>5. Chunk = SubSeq(l, 1, Size)
  BY DEF Chunk, Size
<1>6. PICK n \in 1..Len(l) : n = Size
  BY <1>4
<1>7. PICK c : c = SubSeq(l, 1, n)
  OBVIOUS
<1>8. Len(c) = n /\ c \in Seq(Wallets) /\ \A i \in 1..n : c[i] = l[i]
  BY <1>6, <1>7
<1>9. Range(c) = {l[i] : i \in 1..n} /\ DOMAIN c = 1..n
  BY <1>8 DEF Range
<1>10. Range(c) \in SUBSET Wallets /\ Range(c) # {}
  <2>1. 1 \in 1..n
    BY <1>6
  <2> QED
    BY <1>8, <1>9, <2>1 DEF Range
<1> QED
  BY <1>4, <1>5, <1>6, <1>7, <1>8, <1>9, <1>10

-----------------------------------------------------------------------------
(***************************************************************************)
(* What the steps have in common.                                          *)
(***************************************************************************)
LEMMA BotFields ==
  ASSUME Types
  PROVE  /\ bot \in BotType
         /\ bot.pc \in PCs /\ bot.dry \in BOOLEAN /\ bot.todo \in SUBSET Mints
         /\ bot.payouts \in SUBSET Wallets
         /\ bot.left \in Seq(Wallets) /\ bot.tx \in SUBSET Wallets
         /\ bot.row \in Nat /\ bot.paid \in Nat /\ bot.distributed \in Nat
  BY DEF Types, BotType

LEMMA IdleType == Idle \in BotType
<1>1. "idle" \in PCs /\ "none" \in Mints \cup {"none"} /\ <<>> \in Seq(Wallets)
  BY DEF PCs
<1> QED
  BY <1>1 DEF Idle, BotType

LEMMA FailsType ==
  ASSUME Types, Fails
  PROVE  faults' \in 0..MaxFaults
  BY ConstantTypes DEF Types, Fails

LEMMA RequestFaults ==
  ASSUME Types, NEW ACTION write, NEW ACTION keep, NEW ACTION then,
         NEW ACTION otherwise, Request(write, keep, then, otherwise)
  PROVE  faults' \in 0..MaxFaults
  BY FailsType DEF Types, Request

\* Between two tokens nothing is said of the bot.
LEMMA Quiet ==
  ASSUME bot'.pc \in {"idle", "token"}
  PROVE  BotOK'
  BY DEF BotOK, OnToken, OnPayouts, OnRows, OnChunk, OnTx, Sending

LEMMA LeavesOK ==
  ASSUME Types, Leaves
  PROVE  bot' \in BotType /\ BotOK'
<1>1. "token" \in PCs /\ bot.todo \ {mint} \in SUBSET Mints
  BY BotFields DEF PCs
<1>2. bot' \in BotType /\ bot'.pc = "token" /\ bot'.row = 0
  BY <1>1, IdleType, BotFields DEF Leaves, BotType, Idle
<1> QED
  BY <1>2, Quiet

LEMMA GoesType ==
  ASSUME Types, NEW pc \in PCs, Goes(pc)
  PROVE  /\ bot' \in BotType /\ bot'.pc = pc /\ bot'.row = 0
         /\ bot'.mint = mint /\ bot'.payouts = bot.payouts
         /\ bot'.left = bot.left /\ bot'.tx = bot.tx
  BY BotFields DEF BotType, Goes, mint

\* A step that touches neither the payout rows nor the cluster.
LEMMA TablesKept ==
  ASSUME IInv, UNCHANGED <<rows, received, txs, refused>>
  PROVE  RowsOK' /\ TxsOK' /\ Receipts'
  BY DEF IInv, RowsOK, TxsOK, Receipts, Begun, In

-----------------------------------------------------------------------------
LEMMA InitIInv == Init => IInv
<1> SUFFICES ASSUME Init PROVE IInv
  OBVIOUS
<1>1. Types
  BY IdleType, ConstantTypes DEF Init, Types, NoBatch, Statuses
<1>2. RowsOK /\ TxsOK /\ Receipts
  BY DEF Init, RowsOK, TxsOK, Receipts, In, Sure
<1>3. BotOK
  BY DEF Init, BotOK, OnToken, OnPayouts, OnRows, OnChunk, OnTx, Sending, Idle
<1> QED
  BY <1>1, <1>2, <1>3 DEF IInv

LEMMA StartKeeps ==
  ASSUME IInv, Start
  PROVE  IInv'
<1>1. PICK dry \in DryRuns, tokens \in TokensRead :
        bot' = [Idle EXCEPT !.pc = "token", !.dry = dry, !.todo = tokens]
  BY DEF Start
<1>2. tokens \in SUBSET Mints
  <2> DEFINE k == Min({TOTALS_LIMIT, Cardinality(Totals)})
  <2>1. PICK read \in kSubset(k, Totals) : tokens = {r[1] : r \in read}
    BY DEF TokensRead
  <2>2. read \subseteq Totals
    BY <2>1 DEF kSubset
  <2>3. \A r \in Totals : r[1] \in Mints
    BY ConstantTypes
  <2> QED
    BY <2>1, <2>2, <2>3
<1>3. "token" \in PCs /\ dry \in BOOLEAN
  BY ConstantTypes DEF PCs
<1>4. bot' \in BotType /\ bot'.pc = "token" /\ bot'.row = 0
  BY <1>1, <1>2, <1>3, IdleType DEF BotType, Idle
<1>5. Types'
  BY <1>4 DEF IInv, Types, Start, tables, chain
<1> QED
  BY <1>4, <1>5, Quiet, TablesKept DEF IInv, Start, tables, chain

LEMMA ExitKeeps ==
  ASSUME IInv, Exit \/ Crash
  PROVE  IInv'
<1>1. bot' = Idle /\ UNCHANGED <<tables, chain>> /\ faults' \in 0..MaxFaults
  BY FailsType DEF IInv, Types, Exit, Crash
<1>2. bot' \in BotType /\ bot'.pc = "idle" /\ bot'.row = 0
  BY <1>1, IdleType DEF Idle
<1>3. Types'
  BY <1>1, <1>2 DEF IInv, Types, tables, chain
<1> QED
  BY <1>1, <1>2, <1>3, Quiet, TablesKept DEF IInv, tables, chain

LEMMA OpenKeeps ==
  ASSUME IInv, NEW m \in Mints, Open(m)
  PROVE  IInv'
<1>1. bot.pc = "token" /\ UNCHANGED <<tables, chain>>
  BY DEF Open
<1>2. faults' \in 0..MaxFaults
  BY FailsType DEF IInv, Types, Open
<1>3. CASE /\ bot' = [bot EXCEPT !.todo = @ \ {m}]
  <2>1. bot' \in BotType /\ bot'.pc = "token"
    BY <1>1, <1>3, BotFields DEF IInv, BotType
  <2>2. Types'
    BY <1>1, <1>2, <2>1 DEF IInv, Types, tables, chain
  <2> QED
    BY <1>1, <2>1, <2>2, Quiet, TablesKept DEF IInv, tables, chain
<1>4. CASE /\ batch[m].status # "completed"
           /\ \E pc \in {"create", "insert"} :
                bot' = [bot EXCEPT !.mint = m, !.pc = pc,
                                   !.payouts = Eligible(m)]
  <2>1. PICK pc \in {"create", "insert"} :
          bot' = [bot EXCEPT !.mint = m, !.pc = pc, !.payouts = Eligible(m)]
    BY <1>4
  <2>2. pc \in PCs
    BY DEF PCs
  <2>3. /\ bot' \in BotType /\ bot'.pc = pc /\ bot'.mint = m
        /\ bot'.payouts = Eligible(m)
    <3>1. PICK E \in SUBSET Wallets : E = Eligible(m)
      BY EligibleFinite
    <3>2. bot' = [bot EXCEPT !.mint = m, !.pc = pc, !.payouts = E]
      BY <2>1, <3>1
    <3> QED
      BY <1>1, <2>2, <3>1, <3>2, BotFields DEF IInv, BotType
  <2>4. Types'
    BY <1>1, <1>2, <2>3 DEF IInv, Types, tables, chain
  <2>5. OnToken' /\ OnPayouts'
    BY <1>1, <1>4, <2>3 DEF OnToken, OnPayouts, mint, tables, Eligible
  <2>6. OnRows' /\ OnChunk' /\ OnTx'
    BY <2>3 DEF OnRows, OnChunk, OnTx, Sending
  <2> QED
    BY <1>1, <2>4, <2>5, <2>6, TablesKept DEF IInv, BotOK, tables, chain
<1> QED
  BY <1>3, <1>4 DEF Open

-----------------------------------------------------------------------------
(***************************************************************************)
(* The rows.                                                               *)
(***************************************************************************)
LEMMA CreateBatchKeeps ==
  ASSUME IInv, CreateBatch
  PROVE  IInv'
<1>1. /\ bot.pc = "create" /\ mint \in Mints
      /\ bot.payouts = Eligible(mint) /\ Eligible(mint) \in SUBSET Wallets
      /\ UNCHANGED <<rows, chain>>
  BY EligibleFinite DEF IInv, BotOK, OnToken, OnPayouts, CreateBatch
<1>2. faults' \in 0..MaxFaults
  BY FailsType DEF IInv, Types, CreateBatch, Request
<1>3. \/ UNCHANGED batch
      \/ batch' = [batch EXCEPT ![mint].status = "distributing"]
  BY DEF CreateBatch, Request
<1>4. batch' \in [Mints -> [status : {"none", "distributing", "pending",
                                      "completed"},
                            wallets_paid : Nat, usdc_distributed : Nat]]
  BY <1>1, <1>3, ZenonT(60) DEF IInv, Types
<1>5. CASE Leaves
  <2>1. bot' \in BotType /\ BotOK'
    BY <1>5, LeavesOK DEF IInv
  <2>2. Types'
    BY <1>1, <1>2, <1>4, <2>1 DEF IInv, Types, chain
  <2> QED
    BY <1>1, <2>1, <2>2, TablesKept DEF IInv, chain
<1>6. CASE Goes("insert") /\ batch' = [batch EXCEPT ![mint].status = "distributing"]
  <2>1. "insert" \in PCs
    BY DEF PCs
  <2>2. /\ bot' \in BotType /\ bot'.pc = "insert" /\ bot'.mint = mint
        /\ bot'.payouts = bot.payouts
    BY <1>6, <2>1, GoesType DEF IInv
  <2>3. Types'
    BY <1>1, <1>2, <1>4, <2>2 DEF IInv, Types, chain
  <2>4. OnToken' /\ OnPayouts'
    <3>1. batch'[mint].status = "distributing"
      BY <1>1, <1>6 DEF IInv, Types
    <3> QED
      BY <1>1, <2>2, <3>1 DEF OnToken, OnPayouts, mint, Eligible
  <2>5. OnRows' /\ OnChunk' /\ OnTx'
    BY <2>2 DEF OnRows, OnChunk, OnTx, Sending
  <2> QED
    BY <1>1, <2>3, <2>4, <2>5, TablesKept DEF IInv, BotOK, chain
<1> QED
  BY <1>5, <1>6 DEF CreateBatch, Request

LEMMA BegunKept ==
  ASSUME NEW m,
         \A w \in Eligible(m) : rows[m][w] # "none" => rows'[m][w] # "none",
         Begun(m)
  PROVE  Begun(m)'
  BY DEF Begun, Eligible

\* The wallets of a request are among those left, and there are some.
LEMMA SliceOfPayouts ==
  ASSUME IInv, bot.payouts # {}, NEW slice \in Slices
  PROVE  slice \in SUBSET bot.payouts /\ slice # {}
<1>1. PICK P : P = bot.payouts
  OBVIOUS
<1>2. P \in SUBSET Wallets /\ P # {} /\ IsFiniteSet(P)
  BY <1>1, BotFields, ConstantTypes, FS_Subset DEF IInv
<1>3. PICK n \in Nat : n = Cardinality(P) /\ n > 0
  BY <1>2, FS_CardinalityType, FS_EmptySet
<1>4. Min({INSERT_SIZE, n}) > 0 /\ Min({INSERT_SIZE, n}) \in Nat
  BY <1>3, ConstantTypes, MinOfTwo
<1>5. slice \in SUBSET P /\ Cardinality(slice) = Min({INSERT_SIZE, n})
  BY <1>1, <1>3 DEF Slices, kSubset
<1>6. slice # {}
  BY <1>4, <1>5, FS_EmptySet
<1> QED
  BY <1>1, <1>5, <1>6

\* A request that inserts rows and is not refused: no transaction of the token
\* has been sent, for one of its holders has no row.
LEMMA Inserts ==
  ASSUME IInv, bot.pc = "insert", bot.payouts # {}, NEW slice \in Slices,
         ~Known(slice),
         rows' = [rows EXCEPT ![mint] =
                    [w \in Wallets |-> IF w \in slice
                                       THEN FirstStatus(mint, w) ELSE @[w]]],
         UNCHANGED chain
  PROVE  /\ mint \in Mints /\ slice \in SUBSET Eligible(mint) /\ slice # {}
         /\ Eligible(mint) \in SUBSET Wallets
         /\ rows' \in [Mints -> [Wallets -> Statuses]]
         /\ \A m \in Mints, w \in Wallets :
              rows'[m][w] = IF m = mint /\ w \in slice
                            THEN FirstStatus(mint, w) ELSE rows[m][w]
         /\ RowsOK' /\ TxsOK' /\ Receipts'
         /\ \A w \in Eligible(mint) \ (bot.payouts \ slice) :
              rows'[mint][w] # "none"
         /\ ~Begun(mint)
         /\ \A t \in txs : t.mint # mint
<1>1. /\ mint \in Mints /\ bot.payouts \in SUBSET Eligible(mint)
      /\ \A w \in Eligible(mint) \ bot.payouts : rows[mint][w] # "none"
  BY DEF IInv, BotOK, OnToken, OnPayouts
<1>2. /\ slice \in SUBSET Eligible(mint) /\ slice # {}
      /\ Eligible(mint) \in SUBSET Wallets
  BY <1>1, SliceOfPayouts, EligibleFinite
<1>3. \A w \in slice : rows[mint][w] = "none"
  BY DEF Known
<1>4. /\ rows' \in [Mints -> [Wallets -> Statuses]]
      /\ \A m \in Mints, w \in Wallets :
           rows'[m][w] = IF m = mint /\ w \in slice
                         THEN FirstStatus(mint, w) ELSE rows[m][w]
  <2>1. \A w \in Wallets : FirstStatus(mint, w) \in Statuses
    BY DEF FirstStatus, Statuses
  <2> QED
    BY <1>1, <2>1 DEF IInv, Types
<1>5. \A m \in Mints, w \in Wallets :
        rows[m][w] # "none" => rows'[m][w] = rows[m][w]
  BY <1>3, <1>4
<1>6. \A m \in Mints : Begun(m) => Begun(m)'
  <2>1. \A m \in Mints : Eligible(m) \subseteq Wallets
    BY EligibleFinite
  <2> QED
    BY <1>5, <2>1, BegunKept
<1>7. RowsOK'
  <2> SUFFICES ASSUME NEW m \in Mints, NEW w \in Wallets, rows'[m][w] \in Sure
               PROVE  /\ w \in Eligible(m)
                      /\ Points[m][w] * Pool[m]
                           >= MIN_PAYOUT_USDC * totalPoints(m)
    BY DEF RowsOK, Eligible, totalPoints
  <2>1. CASE m = mint /\ w \in slice
    <3>1. FirstStatus(mint, w) = "pending"
      BY <1>4, <2>1 DEF FirstStatus, Sure
    <3>2. ~(Points[m][w] * Pool[m] < MIN_PAYOUT_USDC * totalPoints(m))
      BY <2>1, <3>1 DEF FirstStatus
    <3>3. /\ Points[m][w] * Pool[m] \in Nat
          /\ MIN_PAYOUT_USDC * totalPoints(m) \in Nat
      BY ConstantTypes, TotalPoints
    <3> QED
      BY <1>2, <2>1, <3>2, <3>3
  <2>2. CASE ~(m = mint /\ w \in slice)
    BY <1>4, <2>2 DEF IInv, RowsOK
  <2> QED
    BY <2>1, <2>2
<1>8. TxsOK'
  <2>1. \A t \in txs : /\ t.mint \in Mints /\ t.wallets \in SUBSET Wallets
                       /\ \A w \in t.wallets : rows'[t.mint][w] \in Sure
    <3>1. \A t \in txs : t.mint \in Mints /\ t.wallets \in SUBSET Wallets
      BY DEF IInv, Types, TxType
    <3> QED
      BY <1>5, <3>1 DEF IInv, TxsOK, Sure
  <2>2. txs' = txs
    BY DEF chain
  <2>3. \A t \in txs : Begun(t.mint)'
    BY <1>6, <2>1 DEF IInv, TxsOK
  <2> QED
    BY <2>1, <2>2, <2>3 DEF IInv, TxsOK, Begun, Eligible
<1>9. Receipts'
  <2>1. \A m \in Mints, w \in Wallets :
          rows'[m][w] = "confirmed" => rows[m][w] = "confirmed"
    BY <1>4 DEF FirstStatus
  <2>2. Receipts /\ UNCHANGED <<received, txs, refused>>
    BY DEF IInv, chain
  <2>3. \A m, w, results : In(m, w, results)' = In(m, w, results)
    BY <2>2 DEF In
  <2> QED
    BY <2>1, <2>2, <2>3
    DEF Receipts, transferred, usdc_amount, totalPoints, Eligible
<1>10. ~Begun(mint) /\ \A t \in txs : t.mint # mint
  <2>1. ~Begun(mint)
    BY <1>2, <1>3 DEF Begun
  <2> QED
    BY <2>1 DEF IInv, TxsOK
<1>11. \A w \in Eligible(mint) \ (bot.payouts \ slice) : rows'[mint][w] # "none"
  <2> SUFFICES ASSUME NEW w \in Eligible(mint), w \notin bot.payouts \/ w \in slice
               PROVE  rows'[mint][w] # "none"
    OBVIOUS
  <2>1. CASE w \in slice
    BY <1>1, <1>2, <1>4, <2>1 DEF FirstStatus
  <2>2. CASE w \notin slice
    BY <1>1, <1>2, <1>5, <2>2
  <2> QED
    BY <2>1, <2>2
<1> QED
  BY <1>1, <1>2, <1>4, <1>7, <1>8, <1>9, <1>10, <1>11

LEMMA InsertPayoutsKeeps ==
  ASSUME IInv, InsertPayouts
  PROVE  IInv'
<1>1. /\ bot.pc = "insert" /\ mint \in Mints
      /\ batch[mint].status # "completed"
      /\ UNCHANGED <<batch, chain>>
  BY DEF IInv, BotOK, OnToken, InsertPayouts
<1>2. faults' \in 0..MaxFaults
  BY FailsType DEF IInv, Types, InsertPayouts, InsertSlice, Request
<1>3. CASE bot.payouts = {} /\ Goes("pending") /\ UNCHANGED <<rows, faults>>
  <2>1. "pending" \in PCs
    BY DEF PCs
  <2>2. bot' \in BotType /\ bot'.pc = "pending" /\ bot'.mint = mint
    BY <1>3, <2>1, GoesType DEF IInv
  <2>3. Types'
    BY <1>1, <1>2, <1>3, <2>2 DEF IInv, Types, chain
  <2>4. Eligible(mint) = {}
    BY <1>1, <1>3 DEF IInv, BotOK, OnPayouts
  <2>5. \A t \in txs : t.mint # mint
    <3> SUFFICES ASSUME NEW t \in txs, t.mint = mint PROVE FALSE
      OBVIOUS
    <3>1. PICK w \in t.wallets : rows[mint][w] \in Sure
      BY DEF IInv, TxsOK
    <3>2. w \in Wallets
      BY <3>1 DEF IInv, Types, TxType
    <3> QED
      BY <1>1, <2>4, <3>1, <3>2 DEF IInv, RowsOK
  <2>6. OnToken' /\ OnPayouts' /\ OnChunk' /\ OnTx'
    BY <1>1, <2>2 DEF OnToken, OnPayouts, OnChunk, OnTx, Sending, mint
  <2>7. OnRows'
    <3>1. mint' = mint /\ txs' = txs
      BY <1>1, <2>2 DEF mint, chain
    <3>2. Begun(mint)'
      BY <2>4, <3>1 DEF Begun, Eligible
    <3> QED
      BY <2>5, <3>1, <3>2 DEF OnRows
  <2> QED
    BY <1>1, <1>3, <2>3, <2>6, <2>7, TablesKept DEF IInv, BotOK, chain
<1>4. CASE bot.payouts # {} /\ \E slice \in Slices : InsertSlice(slice)
  <2>1. PICK slice \in Slices : InsertSlice(slice)
    BY <1>4
  <2>2. CASE UNCHANGED rows /\ Leaves
    <3>1. bot' \in BotType /\ BotOK'
      BY <2>2, LeavesOK DEF IInv
    <3>2. Types'
      BY <1>1, <1>2, <2>2, <3>1 DEF IInv, Types, chain
    <3> QED
      BY <1>1, <2>2, <3>1, <3>2, TablesKept DEF IInv, chain
  <2>3. ASSUME ~Known(slice),
               rows' = [rows EXCEPT ![mint] =
                          [w \in Wallets |-> IF w \in slice
                                             THEN FirstStatus(mint, w) ELSE @[w]]],
               \/ Leaves
               \/ bot' = [bot EXCEPT !.payouts = @ \ slice,
                           !.pc = IF slice = bot.payouts THEN "pending" ELSE @]
        PROVE  IInv'
    <3>1. /\ slice \in SUBSET Eligible(mint)
          /\ Eligible(mint) \in SUBSET Wallets
          /\ rows' \in [Mints -> [Wallets -> Statuses]]
          /\ RowsOK' /\ TxsOK' /\ Receipts'
          /\ \A w \in Eligible(mint) \ (bot.payouts \ slice) :
               rows'[mint][w] # "none"
          /\ \A t \in txs : t.mint # mint
      BY <1>1, <1>4, <2>3, Inserts
    <3>2. CASE Leaves
      <4>1. bot' \in BotType /\ BotOK'
        BY <3>2, LeavesOK DEF IInv
      <4>2. Types'
        BY <1>1, <1>2, <3>1, <4>1 DEF IInv, Types, chain
      <4> QED
        BY <3>1, <4>1, <4>2 DEF IInv
    <3>3. CASE bot' = [bot EXCEPT !.payouts = @ \ slice,
                       !.pc = IF slice = bot.payouts THEN "pending" ELSE @]
      <4>1. PICK pc \in {"pending", "insert"} :
              pc = IF slice = bot.payouts THEN "pending" ELSE "insert"
        OBVIOUS
      <4>2. PICK P \in SUBSET Wallets : P = bot.payouts \ slice
        BY BotFields DEF IInv
      <4>3. bot' = [bot EXCEPT !.payouts = P, !.pc = pc]
        BY <1>1, <3>3, <4>1, <4>2, BotFields DEF IInv, BotType
      <4>4. /\ bot' \in BotType /\ bot'.pc = pc /\ bot'.mint = mint
            /\ bot'.payouts = P
        <5>1. pc \in PCs
          BY <4>1 DEF PCs
        <5> QED
          BY <4>3, <5>1, BotFields DEF IInv, BotType, mint
      <4>5. Types'
        BY <1>1, <1>2, <3>1, <4>4 DEF IInv, Types, chain
      <4>6. mint' = mint /\ txs' = txs
        BY <1>1, <4>4 DEF mint, chain
      <4>7. OnToken' /\ OnChunk' /\ OnTx'
        BY <1>1, <4>1, <4>4, <4>6 DEF OnToken, OnChunk, OnTx, Sending
      <4>8. bot.payouts \in SUBSET Eligible(mint) /\ slice \in SUBSET bot.payouts
        BY <1>1, <1>4, <2>1, SliceOfPayouts DEF IInv, BotOK, OnPayouts
      <4>9. OnPayouts'
        <5>1. /\ pc = "insert" => P # {}
              /\ P \in SUBSET Eligible(mint)
              /\ \A w \in Eligible(mint) \ P : rows'[mint][w] # "none"
          <6>1. pc = "insert" => P # {}
            BY <4>1, <4>2, <4>8
          <6>2. P \in SUBSET Eligible(mint)
            BY <4>2, <4>8
          <6>3. \A w \in Eligible(mint) \ P : rows'[mint][w] # "none"
            BY <3>1, <4>2
          <6> QED
            BY <6>1, <6>2, <6>3
        <5>2. Eligible(mint)' = Eligible(mint)
          BY <4>6 DEF Eligible
        <5>3. bot'.pc # "create" /\ bot'.payouts = P
          BY <4>1, <4>4
        <5> QED
          BY <4>4, <4>6, <5>1, <5>2, <5>3 DEF OnPayouts
      <4>10. OnRows'
        <5>1. pc = "pending" => \A w \in Eligible(mint) : rows'[mint][w] # "none"
          BY <3>1, <4>1
        <5> QED
          BY <3>1, <4>1, <4>4, <4>6, <5>1 DEF OnRows, Begun, Eligible, Sending
      <4> QED
        BY <3>1, <4>5, <4>7, <4>9, <4>10 DEF IInv, BotOK
    <3> QED
      BY <2>3, <3>2, <3>3
  <2> QED
    BY <2>1, <2>2, <2>3 DEF InsertSlice, Request
<1> QED
  BY <1>3, <1>4 DEF InsertPayouts

-----------------------------------------------------------------------------
(***************************************************************************)
(* The pending rows and the transactions.                                  *)
(***************************************************************************)

\* What is read of an order of the pending wallets.
LEMMA PartRead ==
  ASSUME NEW pending \in SUBSET Wallets, NEW order \in SetToSeqs(pending),
         pending # {}
  PROVE  /\ ReadPart(order) \in Seq(Wallets) /\ ReadPart(order) # <<>>
         /\ \A i \in DOMAIN ReadPart(order) : ReadPart(order)[i] \in pending
         /\ \A i, j \in DOMAIN ReadPart(order) :
              ReadPart(order)[i] = ReadPart(order)[j] => i = j
<1>1. IsFiniteSet(pending)
  BY ConstantTypes, FS_Subset
<1>2. PICK n \in Nat : n = Cardinality(pending) /\ n > 0
  BY <1>1, FS_CardinalityType, FS_EmptySet
<1>3. /\ order \in [1..n -> pending]
      /\ \A i, j \in 1..n : i # j => order[i] # order[j]
  BY <1>2 DEF SetToSeqs
<1>4. order \in Seq(Wallets) /\ Len(order) = n
  BY <1>3
<1>5. PICK k \in 1..n : k = Min({PENDING_LIMIT, n})
  <2>1. PENDING_LIMIT \in Nat /\ PENDING_LIMIT > 0
    BY ConstantTypes
  <2>2. Min({PENDING_LIMIT, n}) = IF PENDING_LIMIT <= n THEN PENDING_LIMIT ELSE n
    BY <2>1, MinOfTwo
  <2> QED
    BY <1>2, <2>1, <2>2
<1>6. ReadPart(order) = SubSeq(order, 1, k)
  BY <1>4, <1>5 DEF ReadPart
<1>7. PICK part : part = SubSeq(order, 1, k)
  OBVIOUS
<1>8. /\ part \in Seq(Wallets) /\ DOMAIN part = 1..k
      /\ \A i \in 1..k : part[i] = order[i]
      /\ Len(part) = k
  BY <1>4, <1>5, <1>7, Prefix, ZenonT(60)
<1>9. /\ part # <<>>
      /\ \A i \in DOMAIN part : part[i] \in pending
      /\ \A i, j \in DOMAIN part : part[i] = part[j] => i = j
  <2>1. k \in Nat /\ k >= 1 /\ \A i \in 1..k : i \in 1..n
    BY <1>5
  <2>2. part # <<>>
    BY <1>8, <2>1
  <2>3. \A i \in 1..k : part[i] \in pending
    BY <1>3, <1>8, <2>1
  <2>4. \A i, j \in 1..k : part[i] = part[j] => i = j
    BY <1>3, <1>8, <2>1, SMTT(30)
  <2> QED
    BY <1>8, <2>2, <2>3, <2>4
<1> QED
  BY <1>6, <1>7, <1>8, <1>9

LEMMA ReadPendingKeeps ==
  ASSUME IInv, ReadPending
  PROVE  IInv'
<1> DEFINE pending == {w \in Wallets : rows[mint][w] = "pending"}
<1>1. /\ bot.pc = "pending" /\ mint \in Mints
      /\ batch[mint].status # "completed"
      /\ Begun(mint) /\ \A t \in txs : t.mint # mint
      /\ UNCHANGED <<tables, chain>>
  BY DEF IInv, BotOK, OnToken, OnRows, ReadPending
<1>2. faults' \in 0..MaxFaults
  BY FailsType DEF IInv, Types, ReadPending
<1>3. CASE Leaves
  <2>1. bot' \in BotType /\ BotOK'
    BY <1>3, LeavesOK DEF IInv
  <2>2. Types'
    BY <1>1, <1>2, <2>1 DEF IInv, Types, tables, chain
  <2> QED
    BY <1>1, <2>1, <2>2, TablesKept DEF IInv, tables, chain
<1>4. ASSUME NEW order \in SetToSeqs(pending),
             bot' = [bot EXCEPT
                  !.pc = IF pending = {} \/ bot.dry THEN "final" ELSE "send",
                  !.left = ReadPart(order), !.row = 0,
                  !.paid = batch[mint].wallets_paid,
                  !.distributed = batch[mint].usdc_distributed]
      PROVE  IInv'
  <2>1. PICK pc \in {"final", "send"} :
          pc = IF pending = {} \/ bot.dry THEN "final" ELSE "send"
    OBVIOUS
  <2>2. PICK l : l = ReadPart(order)
    OBVIOUS
  <2>3. l \in Seq(Wallets)
    <3>1. CASE pending = {}
      <4>1. order \in [1..0 -> {}]
        BY <3>1, FS_EmptySet DEF SetToSeqs
      <4>2. order = <<>>
        BY <4>1
      <4>3. ReadPart(order) = <<>>
        <5>1. Min({PENDING_LIMIT, Len(<<>>)}) = 0
          BY ConstantTypes DEF Min
        <5> QED
          BY <4>2, <5>1 DEF ReadPart
      <4> QED
        BY <2>2, <4>3
    <3>2. CASE pending # {}
      <4> HIDE DEF pending
      <4>1. pending \in SUBSET Wallets
        BY DEF pending
      <4> QED
        BY <2>2, <3>2, <4>1, PartRead
    <3> QED
      BY <3>1, <3>2
  <2>4. /\ bot' \in BotType /\ bot'.pc = pc /\ bot'.row = 0
        /\ bot'.mint = mint /\ bot'.left = l
    <3>1. batch[mint].wallets_paid \in Nat /\ batch[mint].usdc_distributed \in Nat
      BY <1>1 DEF IInv, Types
    <3>2. pc \in PCs
      BY DEF PCs
    <3>3. bot' = [bot EXCEPT !.pc = pc, !.left = l, !.row = 0,
                  !.paid = batch[mint].wallets_paid,
                  !.distributed = batch[mint].usdc_distributed]
      BY <1>4, <2>1, <2>2
    <3> HIDE DEF pending
    <3> QED
      BY <2>3, <3>1, <3>2, <3>3, BotFields DEF IInv, BotType, mint
  <2>5. Types'
    BY <1>1, <1>2, <2>4 DEF IInv, Types, tables, chain
  <2>6. /\ mint' = mint /\ UNCHANGED <<batch, rows, txs>>
    BY <1>1, <2>4 DEF mint, tables, chain
  <2>7. OnToken' /\ OnPayouts' /\ OnTx'
    BY <1>1, <2>4, <2>6 DEF OnToken, OnPayouts, OnTx
  <2>8. OnRows'
    BY <1>1, <2>4, <2>6 DEF OnRows, Begun, Eligible
  <2>9. OnChunk'
    <3>1. SUFFICES ASSUME pc = "send" PROVE OnChunk'
      BY <2>4 DEF OnChunk, Sending
    <3>2. pending # {} /\ pending \in SUBSET Wallets
      BY <2>1, <3>1
    <3>3. /\ l # <<>>
          /\ \A i \in DOMAIN l : l[i] \in pending
          /\ \A i, j \in DOMAIN l : l[i] = l[j] => i = j
      <4> HIDE DEF pending
      <4> QED
        BY <1>4, <2>2, <3>2, PartRead
    <3>4. \A i \in DOMAIN l : rows'[mint][l[i]] = "pending"
      BY <2>6, <3>3
    <3>5. \A i \in DOMAIN l : Free(l[i])'
      BY <1>1, <2>6, <3>4 DEF Free, In
    <3> QED
      BY <2>4, <2>6, <3>3, <3>4, <3>5 DEF OnChunk, Sure
  <2> QED
    BY <1>1, <2>5, <2>7, <2>8, <2>9, TablesKept DEF IInv, BotOK, tables, chain
<1> QED
  BY <1>3, <1>4 DEF ReadPending

\* What holds while transactions are sent.
LEMMA WhileSending ==
  ASSUME IInv, bot.pc \in Sending
  PROVE  /\ mint \in Mints /\ batch[mint].status # "completed" /\ Begun(mint)
         /\ bot.left \in Seq(Wallets) /\ bot.left # <<>>
         /\ Size \in 1..Len(bot.left) /\ Len(Chunk) = Size
         /\ \A i \in 1..Size : Chunk[i] = bot.left[i]
         /\ Range(Chunk) = {bot.left[i] : i \in 1..Size}
         /\ Range(Chunk) \in SUBSET Wallets /\ Range(Chunk) # {}
         /\ \A i \in DOMAIN bot.left : bot.left[i] \in Wallets
         /\ \A i, j \in DOMAIN bot.left : bot.left[i] = bot.left[j] => i = j
         /\ \A i \in DOMAIN bot.left :
              /\ rows[mint][bot.left[i]] \in Sure
              /\ bot.pc = "send" \/ i > Size => Free(bot.left[i])
<1>1. bot.pc \notin {"idle", "token"}
      /\ bot.pc \in {"pending", "final"} \cup Sending
  BY DEF Sending
<1>2. mint \in Mints /\ batch[mint].status # "completed" /\ Begun(mint)
  BY <1>1 DEF IInv, BotOK, OnToken, OnRows
<1>3. PICK l \in Seq(Wallets) : l = bot.left
  BY BotFields DEF IInv
<1>4. OnChunk
  BY DEF IInv, BotOK
<1>5. l # <<>>
  BY <1>3, <1>4 DEF OnChunk
<1>6. /\ Size \in 1..Len(l) /\ Len(Chunk) = Size
      /\ \A i \in 1..Size : Chunk[i] = l[i]
      /\ Range(Chunk) = {l[i] : i \in 1..Size}
      /\ Range(Chunk) \in SUBSET Wallets /\ Range(Chunk) # {}
  BY <1>3, <1>5, TheChunk
<1>7. \A i \in DOMAIN l : l[i] \in Wallets
  OBVIOUS
<1> QED
  BY <1>2, <1>3, <1>4, <1>5, <1>6, <1>7 DEF OnChunk

\* The bot on its way from one pc of a transaction to another: what is left
\* stays, and has to be free still.
LEMMA SamePart ==
  ASSUME IInv, bot.pc \in Sending, bot'.pc \in Sending \ {"send"},
         bot'.mint = mint, bot'.left = bot.left,
         batch'[mint].status # "completed",
         \A m \in Mints : m = mint => Begun(m)',
         \A i \in DOMAIN bot.left :
           /\ rows'[mint][bot.left[i]] \in Sure
           /\ i > Size => /\ rows'[mint][bot.left[i]] = "pending"
                          /\ \A t \in txs' : t.mint = mint
                                               => bot.left[i] \notin t.wallets
  PROVE  /\ OnToken' /\ OnPayouts' /\ OnRows' /\ OnChunk'
         /\ Size' = Size /\ Chunk' = Chunk /\ mint' = mint
<1>1. Size' = Size /\ Chunk' = Chunk /\ mint' = mint
  BY DEF Size, Chunk, mint
<1>2. /\ mint \in Mints /\ batch[mint].status # "completed"
      /\ bot.left # <<>>
      /\ \A i, j \in DOMAIN bot.left : bot.left[i] = bot.left[j] => i = j
  BY WhileSending
<1>3. OnToken'
  BY <1>1, <1>2 DEF OnToken
<1>4. OnPayouts'
  BY DEF OnPayouts, Sending
<1>5. OnRows'
  <2>1. bot'.pc # "pending"
    BY DEF Sending
  <2>2. PICK m \in Mints : m = mint
    BY <1>2
  <2>3. Begun(m)' /\ m = mint'
    BY <1>1, <2>2
  <2>4. Begun(mint)'
    BY <2>3 DEF Begun, Eligible
  <2> QED
    BY <2>1, <2>4 DEF OnRows
<1>6. \A i \in DOMAIN bot.left : i > Size => Free(bot.left[i])'
  BY <1>1 DEF Free, In
<1>7. OnChunk'
  BY <1>1, <1>2, <1>6 DEF OnChunk
<1> QED
  BY <1>1, <1>3, <1>4, <1>5, <1>7

\* A transaction of the chunk in hand joins those that were sent.
LEMMA Sends ==
  ASSUME IInv, bot.pc = "send", UNCHANGED <<tables, received, refused>>,
         txs' = {t \in txs : t.mint # mint \/ t.wallets # Range(Chunk)}
                  \cup {[mint |-> mint, wallets |-> Range(Chunk),
                         result |-> "sent"]}
  PROVE  /\ txs' = txs \cup {[mint |-> mint, wallets |-> Range(Chunk),
                              result |-> "sent"]}
         /\ txs' \subseteq TxType
         /\ RowsOK' /\ TxsOK' /\ Receipts'
<1> DEFINE sent == [mint |-> mint, wallets |-> Range(Chunk), result |-> "sent"]
<1>0. bot.pc \in Sending
  BY DEF Sending
<1>1. \A w \in Range(Chunk) : Free(w) /\ rows[mint][w] \in Sure
  BY <1>0, WhileSending
<1>2. Range(Chunk) # {}
  BY <1>0, WhileSending
<1>3. \A t \in txs : t.mint = mint => t.wallets \cap Range(Chunk) = {}
  <2>1. \A t \in txs : t.result \in Results
    BY DEF IInv, Types, TxType, Results
  <2> QED
    BY <1>1, <2>1 DEF Free, In
<1>4. \A t \in txs : t.wallets # {}
  BY DEF IInv, TxsOK
<1>5. txs' = txs \cup {sent}
  BY <1>2, <1>3
<1>6. sent \in TxType
  <2>1. "sent" \in Results
    BY DEF Results
  <2> QED
    BY <1>0, <2>1, WhileSending DEF TxType
<1>7. RowsOK'
  BY DEF IInv, RowsOK, tables
<1>8. TxsOK'
  <2>1. Begun(mint) /\ sent.mint = mint /\ sent.wallets = Range(Chunk)
    BY <1>0, WhileSending
  <2>2. \A t \in txs' : /\ t.wallets # {} /\ Begun(t.mint)
                        /\ \A w \in t.wallets : rows[t.mint][w] \in Sure
    BY <1>1, <1>2, <1>5, <2>1 DEF IInv, TxsOK
  <2>3. \A t, u \in txs' :
          t.mint = u.mint => t = u \/ t.wallets \cap u.wallets = {}
    <3> SUFFICES ASSUME NEW t \in txs', NEW u \in txs', t.mint = u.mint
                 PROVE  t = u \/ t.wallets \cap u.wallets = {}
      OBVIOUS
    <3>1. CASE t \in txs /\ u \in txs
      BY <3>1 DEF IInv, TxsOK
    <3>2. CASE t = sent /\ u \in txs
      BY <1>3, <2>1, <3>2
    <3>3. CASE u = sent /\ t \in txs
      BY <1>3, <2>1, <3>3
    <3> QED
      BY <1>5, <3>1, <3>2, <3>3
  <2>4. \A t \in txs' : Begun(t.mint)'
    BY <2>2 DEF Begun, Eligible, tables
  <2> QED
    BY <2>2, <2>3, <2>4 DEF TxsOK, tables
<1>9. Receipts'
  <2>1. \A m, w : /\ In(m, w, {"landed"})' <=> In(m, w, {"landed"})
                  /\ In(m, w, {"failed"})' <=> In(m, w, {"failed"})
                  /\ In(m, w, {"landed", "failed"})'
                       <=> In(m, w, {"landed", "failed"})
    BY <1>5 DEF In
  <2>2. Receipts /\ UNCHANGED <<rows, received, refused>>
    BY DEF IInv, tables
  <2> QED
    BY <2>1, <2>2
    DEF Receipts, transferred, usdc_amount, totalPoints, Eligible
<1> QED
  BY <1>5, <1>6, <1>7, <1>8, <1>9 DEF IInv, Types

LEMMA SendKeeps ==
  ASSUME IInv, Send
  PROVE  IInv'
<1> DEFINE sent == [mint |-> mint, wallets |-> Range(Chunk), result |-> "sent"]
<1>1. bot.pc = "send" /\ bot.pc \in Sending
      /\ UNCHANGED <<tables, received, balance, refused>>
  BY DEF Send, Sending
<1>2. faults' \in 0..MaxFaults
  BY FailsType DEF IInv, Types, Send, Request
<1>3. CASE /\ Goes("failed") \/ bot' = [bot EXCEPT !.pc = "confirm",
                                                   !.tx = Range(Chunk)]
           /\ \/ UNCHANGED txs
              \/ txs' = {t \in txs : t.mint # mint \/ t.wallets # Range(Chunk)}
                          \cup {sent}
  <2>1. /\ bot' \in BotType /\ bot'.pc \in {"failed", "confirm"}
        /\ bot'.mint = mint /\ bot'.left = bot.left
        /\ bot'.pc = "failed" => bot'.row = 0
        /\ bot'.pc = "confirm" => bot'.tx = Range(Chunk)
    <3>1. CASE Goes("failed")
      <4>1. "failed" \in PCs
        BY DEF PCs
      <4> QED
        BY <3>1, <4>1, GoesType DEF IInv
    <3>2. CASE bot' = [bot EXCEPT !.pc = "confirm", !.tx = Range(Chunk)]
      <4>1. "confirm" \in PCs
        BY DEF PCs
      <4>2. Range(Chunk) \in SUBSET Wallets
        BY <1>1, WhileSending
      <4> QED
        BY <3>2, <4>1, <4>2, BotFields DEF IInv, BotType, mint
    <3> QED
      BY <1>3, <3>1, <3>2
  <2>2. /\ txs' \subseteq txs \cup {sent} /\ txs' \subseteq TxType
        /\ RowsOK' /\ TxsOK' /\ Receipts'
    <3>1. CASE UNCHANGED txs
      BY <1>1, <3>1, TablesKept DEF IInv, Types, tables
    <3>2. CASE txs' = {t \in txs : t.mint # mint \/ t.wallets # Range(Chunk)}
                        \cup {sent}
      BY <1>1, <3>2, Sends
    <3> QED
      BY <1>3, <3>1, <3>2
  <2>3. Types'
    BY <1>1, <1>2, <2>1, <2>2 DEF IInv, Types, tables
  <2>4. \A m \in Mints : m = mint => Begun(m)'
    <3>1. \A m : Begun(m)' <=> Begun(m)
      BY <1>1 DEF Begun, Eligible, tables
    <3> QED
      BY <1>1, <3>1, WhileSending
  <2>5. \A i \in DOMAIN bot.left :
          /\ rows'[mint][bot.left[i]] \in Sure
          /\ i > Size => /\ rows'[mint][bot.left[i]] = "pending"
                         /\ \A t \in txs' : t.mint = mint
                                              => bot.left[i] \notin t.wallets
    <3>1. UNCHANGED rows
      BY <1>1 DEF tables
    <3>2. ASSUME NEW i \in DOMAIN bot.left, i > Size
          PROVE  /\ rows'[mint][bot.left[i]] = "pending"
                 /\ \A t \in txs' : t.mint = mint => bot.left[i] \notin t.wallets
      <4>1. Free(bot.left[i])
        BY <1>1, <3>2, WhileSending
      <4>2. \A t \in txs : t.mint = mint => bot.left[i] \notin t.wallets
        BY <4>1 DEF Free, In, IInv, Types, TxType, Results
      <4>3. bot.left[i] \notin Range(Chunk)
        BY <1>1, <3>2, WhileSending
      <4> QED
        BY <2>2, <3>1, <4>1, <4>2, <4>3 DEF Free
    <3> QED
      BY <1>1, <3>1, <3>2, WhileSending
  <2>6. /\ OnToken' /\ OnPayouts' /\ OnRows' /\ OnChunk'
        /\ Size' = Size /\ Chunk' = Chunk
    <3>1. bot'.pc \in Sending \ {"send"}
      BY <2>1 DEF Sending
    <3>2. batch'[mint].status # "completed"
      BY <1>1, WhileSending DEF tables
    <3> QED
      BY <1>1, <2>1, <2>4, <2>5, <3>1, <3>2, SamePart
  <2>7. OnTx'
    <3>1. 0 < Size
      BY <1>1, WhileSending
    <3> QED
      BY <2>1, <2>6, <3>1 DEF OnTx
  <2> QED
    BY <2>2, <2>3, <2>6, <2>7 DEF IInv, BotOK
<1> QED
  BY <1>3 DEF Send, Request

LEMMA ConfirmKeeps ==
  ASSUME IInv, Confirm
  PROVE  IInv'
<1>1. bot.pc = "confirm" /\ bot.pc \in Sending /\ UNCHANGED <<tables, chain>>
  BY DEF Confirm, Sending
<1>2. faults' \in 0..MaxFaults
  BY FailsType DEF IInv, Types, Confirm
<1>3. PICK pc \in {"record", "failed"} :
        Goes(pc) /\ (pc = "record" => Processed \cap txs # {})
  BY DEF Confirm
<1>4. /\ bot' \in BotType /\ bot'.pc = pc /\ bot'.row = 0
      /\ bot'.mint = mint /\ bot'.left = bot.left /\ bot'.tx = bot.tx
  <2>1. pc \in PCs
    BY DEF PCs
  <2> QED
    BY <1>3, <2>1, GoesType DEF IInv
<1>5. Types'
  BY <1>1, <1>2, <1>4 DEF IInv, Types, tables, chain
<1>6. \A m \in Mints : m = mint => Begun(m)'
  <2>1. \A m : Begun(m)' <=> Begun(m)
    BY <1>1 DEF Begun, Eligible, tables
  <2> QED
    BY <1>1, <2>1, WhileSending
<1>7. \A i \in DOMAIN bot.left :
        /\ rows'[mint][bot.left[i]] \in Sure
        /\ i > Size => /\ rows'[mint][bot.left[i]] = "pending"
                       /\ \A t \in txs' : t.mint = mint
                                            => bot.left[i] \notin t.wallets
  <2>1. \A t \in txs : t.result \in Results
    BY DEF IInv, Types, TxType, Results
  <2>2. rows' = rows /\ txs' = txs
    BY <1>1 DEF tables, chain
  <2> QED
    BY <1>1, <2>1, <2>2, WhileSending DEF Free, In
<1>8. /\ OnToken' /\ OnPayouts' /\ OnRows' /\ OnChunk'
      /\ Size' = Size /\ Chunk' = Chunk /\ mint' = mint
  <2>1. bot'.pc \in Sending \ {"send"}
    BY <1>4 DEF Sending
  <2>2. batch'[mint].status # "completed"
    BY <1>1, WhileSending DEF tables
  <2> QED
    BY <1>1, <1>4, <1>6, <1>7, <2>1, <2>2, SamePart
<1>9. OnTx'
  <2>1. 0 < Size
    BY <1>1, WhileSending
  <2>2. bot.tx = Range(Chunk)
    BY <1>1 DEF IInv, BotOK, OnTx
  <2>3. Processed' = Processed /\ txs' = txs
    BY <1>1, <1>4, <1>8 DEF Processed, Tx, chain
  <2> QED
    BY <1>3, <1>4, <1>8, <2>1, <2>2, <2>3 DEF OnTx
<1> QED
  BY <1>1, <1>5, <1>8, <1>9, TablesKept DEF IInv, BotOK, tables, chain

-----------------------------------------------------------------------------
(***************************************************************************)
(* What is recorded.                                                       *)
(***************************************************************************)

\* The row of one wallet of the chunk in hand.
LEMMA RowToKeeps ==
  ASSUME IInv, bot.pc \in {"record", "failed"}, UNCHANGED <<batch, chain>>,
         NEW status \in {"confirmed", "failed"}, RowTo(status),
         status = "confirmed" => bot.pc = "record"
  PROVE  /\ rows' \in [Mints -> [Wallets -> Statuses]]
         /\ RowsOK' /\ TxsOK' /\ Receipts'
         /\ \A m \in Mints : m = mint => Begun(m)'
         /\ \A i \in DOMAIN bot.left :
              /\ rows'[mint][bot.left[i]] \in Sure
              /\ i > Size => rows'[mint][bot.left[i]] = "pending"
<1>1. bot.pc \in Sending /\ bot.row \in Nat /\ bot.row < Size
  BY BotFields DEF IInv, BotOK, OnTx, Sending
<1>2. PICK n \in 1..Size : n = bot.row + 1
  BY <1>1, WhileSending
<1>3. PICK v \in Wallets : v = bot.left[n] /\ v = Chunk[bot.row + 1]
                           /\ v \in Range(Chunk)
  BY <1>1, <1>2, WhileSending
<1>4. status \in Statuses /\ status \in Sure
  BY DEF Statuses, Sure
<1>5. /\ rows' \in [Mints -> [Wallets -> Statuses]]
      /\ \A m \in Mints, w \in Wallets :
           rows'[m][w] = IF m = mint /\ w = v THEN status ELSE rows[m][w]
  <2>1. rows' = [rows EXCEPT ![mint][v] = status]
    BY <1>3 DEF RowTo
  <2> QED
    BY <1>1, <1>3, <1>4, <2>1, WhileSending DEF IInv, Types
<1>6. rows[mint][v] \in Sure /\ mint \in Mints
  BY <1>1, <1>2, <1>3, WhileSending
<1>7. \A m \in Mints, w \in Wallets :
        /\ rows[m][w] \in Sure => rows'[m][w] \in Sure
        /\ rows'[m][w] \in Sure => rows[m][w] \in Sure
        /\ rows[m][w] # "none" => rows'[m][w] # "none"
  BY <1>4, <1>5, <1>6 DEF Sure
<1>8. RowsOK'
  BY <1>7 DEF IInv, RowsOK, Eligible, totalPoints
<1>9. \A m \in Mints : Begun(m) => Begun(m)'
  <2>1. \A m \in Mints : Eligible(m) \subseteq Wallets
    BY EligibleFinite
  <2> QED
    BY <1>7, <2>1, BegunKept
<1>10. TxsOK'
  <2>1. \A t \in txs : /\ t.mint \in Mints /\ t.wallets \in SUBSET Wallets
                       /\ \A w \in t.wallets : rows'[t.mint][w] \in Sure
    <3>1. \A t \in txs : t.mint \in Mints /\ t.wallets \in SUBSET Wallets
      BY DEF IInv, Types, TxType
    <3> QED
      BY <1>7, <3>1 DEF IInv, TxsOK
  <2>2. txs' = txs
    BY DEF chain
  <2>3. \A t \in txs : Begun(t.mint)'
    BY <1>9, <2>1 DEF IInv, TxsOK
  <2> QED
    BY <2>1, <2>2, <2>3 DEF IInv, TxsOK, Begun, Eligible
<1>11. Receipts'
  <2>1. ASSUME status = "confirmed"
        PROVE  In(mint, v, {"landed", "failed"})
    <3>1. bot.pc = "record"
      BY <2>1
    <3>2. PICK t \in Processed : t \in txs
      BY <3>1 DEF IInv, BotOK, OnTx
    <3>3. t.mint = mint /\ t.wallets = bot.tx /\ t.result \in {"landed", "failed"}
      BY <3>2 DEF Processed, Tx
    <3>4. bot.tx = Range(Chunk)
      BY <3>1 DEF IInv, BotOK, OnTx
    <3> QED
      BY <1>3, <3>2, <3>3, <3>4 DEF In
  <2>2. Receipts /\ UNCHANGED <<received, txs, refused>>
    BY DEF IInv, chain
  <2>3. \A m, w, results : In(m, w, results)' = In(m, w, results)
    BY <2>2 DEF In
  <2>4. \A m \in Mints, w \in Wallets :
          rows'[m][w] = "confirmed" => In(m, w, {"landed", "failed"})
    BY <1>5, <2>1, <2>2 DEF Receipts
  <2> QED
    BY <2>2, <2>3, <2>4
    DEF Receipts, transferred, usdc_amount, totalPoints, Eligible
<1>12. \A i \in DOMAIN bot.left :
        /\ rows'[mint][bot.left[i]] \in Sure
        /\ i > Size => rows'[mint][bot.left[i]] = "pending"
  <2> SUFFICES ASSUME NEW i \in DOMAIN bot.left
               PROVE  /\ rows'[mint][bot.left[i]] \in Sure
                      /\ i > Size => rows'[mint][bot.left[i]] = "pending"
    OBVIOUS
  <2>1. bot.left[i] \in Wallets /\ rows[mint][bot.left[i]] \in Sure
    BY <1>1, WhileSending
  <2>2. ASSUME i > Size PROVE rows'[mint][bot.left[i]] = "pending"
    <3>1. rows[mint][bot.left[i]] = "pending"
      BY <1>1, <2>2, WhileSending DEF Free
    <3>2. n \in DOMAIN bot.left /\ n # i
      BY <1>1, <1>2, <2>2, WhileSending
    <3>3. bot.left[i] # v
      BY <1>1, <1>3, <3>2, WhileSending
    <3> QED
      BY <1>5, <1>6, <2>1, <3>1, <3>3
  <2> QED
    BY <1>6, <1>7, <2>1, <2>2
<1>13. \A m \in Mints : m = mint => Begun(m)'
  BY <1>1, <1>9, WhileSending
<1> QED
  BY <1>5, <1>8, <1>10, <1>11, <1>12, <1>13

\* No transaction holds what is left after the chunk.
LEMMA RestIsFree ==
  ASSUME IInv, bot.pc \in Sending, NEW i \in DOMAIN bot.left, i > Size
  PROVE  /\ rows[mint][bot.left[i]] = "pending"
         /\ \A t \in txs : t.mint = mint => bot.left[i] \notin t.wallets
<1>1. Free(bot.left[i])
  BY WhileSending
<1>2. \A t \in txs : t.result \in Results
  BY DEF IInv, Types, TxType, Results
<1> QED
  BY <1>1, <1>2 DEF Free, In

LEMMA CountedRow ==
  ASSUME Types, NEW pc \in PCs, NEW r \in Nat, NEW p \in Nat, NEW d \in Nat,
         bot' = [bot EXCEPT !.row = r, !.paid = p, !.distributed = d, !.pc = pc]
  PROVE  /\ bot' \in BotType /\ bot'.pc = pc /\ bot'.row = r
         /\ bot'.mint = mint /\ bot'.left = bot.left /\ bot'.tx = bot.tx
  BY BotFields DEF BotType, mint

LEMMA RecordRowKeeps ==
  ASSUME IInv, RecordRow
  PROVE  IInv'
<1> DEFINE amount == usdc_amount(mint, Chunk[bot.row + 1])
<1>1. /\ bot.pc = "record" /\ bot.pc \in Sending
      /\ UNCHANGED <<batch, chain>>
  BY DEF RecordRow, Sending
<1>2. faults' \in 0..MaxFaults
  BY FailsType DEF IInv, Types, RecordRow, Request
<1>3. /\ rows' \in [Mints -> [Wallets -> Statuses]]
      /\ RowsOK' /\ TxsOK' /\ Receipts'
      /\ \A m \in Mints : m = mint => Begun(m)'
      /\ \A i \in DOMAIN bot.left :
           /\ rows'[mint][bot.left[i]] \in Sure
           /\ i > Size => rows'[mint][bot.left[i]] = "pending"
  <2>1. CASE RowTo("confirmed")
    BY <1>1, <2>1, RowToKeeps
  <2>2. CASE UNCHANGED rows
    <3>1. RowsOK' /\ TxsOK' /\ Receipts'
      BY <1>1, <2>2, TablesKept DEF chain
    <3>2. \A m : Begun(m)' <=> Begun(m)
      BY <2>2 DEF Begun, Eligible
    <3> QED
      BY <1>1, <2>2, <3>1, <3>2, WhileSending, RestIsFree DEF IInv, Types
  <2> QED
    BY <2>1, <2>2 DEF RecordRow, Request
<1>4. \/ Goes("failed")
      \/ bot' = [bot EXCEPT
           !.row = @ + 1, !.paid = @ + 1, !.distributed = @ + amount,
           !.pc = IF bot.row + 1 = Len(Chunk) THEN "progress" ELSE @]
  BY DEF RecordRow, Request
<1>5. /\ bot' \in BotType /\ bot'.mint = mint /\ bot'.left = bot.left
      /\ bot'.pc \in {"record", "progress", "failed"}
      /\ bot'.pc # "failed" => bot'.tx = bot.tx
      /\ bot'.pc \in {"record", "failed"} => bot'.row < Size
  <2>1. 0 < Size /\ Len(Chunk) = Size /\ bot.row < Size /\ Size \in Nat
    BY <1>1, WhileSending DEF IInv, BotOK, OnTx
  <2>2. CASE Goes("failed")
    <3>1. "failed" \in PCs
      BY DEF PCs
    <3> QED
      BY <2>1, <2>2, <3>1, GoesType DEF IInv
  <2>3. CASE bot' = [bot EXCEPT
               !.row = @ + 1, !.paid = @ + 1, !.distributed = @ + amount,
               !.pc = IF bot.row + 1 = Len(Chunk) THEN "progress" ELSE @]
    <3>1. amount \in Nat
      <4>1. PICK v \in Wallets : v = Chunk[bot.row + 1]
                                 /\ rows[mint][v] \in Sure
        <5>1. PICK n \in 1..Size : n = bot.row + 1
          BY <2>1, BotFields DEF IInv
        <5>2. n \in DOMAIN bot.left
          BY <1>1, <5>1, WhileSending
        <5> QED
          BY <1>1, <5>1, <5>2, WhileSending
      <4>2. mint \in Mints /\ v \in Eligible(mint)
        BY <1>1, <4>1, WhileSending DEF IInv, RowsOK
      <4> QED
        BY <4>1, <4>2, AmountOfShare
    <3>2. PICK pc \in {"record", "progress"} :
            pc = (IF bot.row + 1 = Len(Chunk) THEN "progress" ELSE bot.pc)
      BY <1>1
    <3>3. bot' = [bot EXCEPT !.row = @ + 1, !.paid = @ + 1,
                             !.distributed = @ + amount, !.pc = pc]
      BY <2>3, <3>2
    <3>4. pc \in PCs
      BY DEF PCs
    <3>5. PICK r \in Nat, p \in Nat, d \in Nat :
            r = bot.row + 1 /\ p = bot.paid + 1 /\ d = bot.distributed + amount
      BY <3>1, BotFields DEF IInv
    <3>6. bot' = [bot EXCEPT !.row = r, !.paid = p, !.distributed = d, !.pc = pc]
      BY <3>3, <3>5
    <3>7. pc = "record" => bot.row + 1 < Size
      BY <2>1, <3>2, BotFields DEF IInv
    <3>8. /\ bot' \in BotType /\ bot'.pc = pc /\ bot'.row = r
          /\ bot'.mint = mint /\ bot'.left = bot.left /\ bot'.tx = bot.tx
      BY <3>4, <3>6, CountedRow DEF IInv
    <3> QED
      BY <3>2, <3>5, <3>7, <3>8
  <2> QED
    BY <1>4, <2>2, <2>3
<1>6. Types'
  BY <1>1, <1>2, <1>3, <1>5 DEF IInv, Types, chain
<1>7. /\ OnToken' /\ OnPayouts' /\ OnRows' /\ OnChunk'
      /\ Size' = Size /\ Chunk' = Chunk /\ mint' = mint
  <2>1. bot'.pc \in Sending \ {"send"} /\ UNCHANGED <<batch, txs>>
    BY <1>1, <1>5 DEF Sending, chain
  <2>2. \A i \in DOMAIN bot.left :
          i > Size => \A t \in txs' : t.mint = mint
                                        => bot.left[i] \notin t.wallets
    BY <1>1, <2>1, RestIsFree
  <2>3. batch'[mint].status # "completed"
    BY <1>1, WhileSending
  <2> QED
    BY <1>1, <1>3, <1>5, <2>1, <2>2, <2>3, SamePart
<1>8. OnTx'
  <2>1. bot.tx = Range(Chunk) /\ Processed \cap txs # {}
    BY <1>1 DEF IInv, BotOK, OnTx
  <2>2. bot'.pc = "record" => Processed' = Processed /\ txs' = txs
    BY <1>1, <1>5, <1>7 DEF Processed, Tx, chain
  <2> QED
    BY <1>5, <1>7, <2>1, <2>2 DEF OnTx
<1> QED
  BY <1>3, <1>6, <1>7, <1>8 DEF IInv, BotOK

LEMMA Suffix ==
  ASSUME NEW S, NEW s \in Seq(S), NEW k \in 1..Len(s)
  PROVE  /\ SubSeq(s, k + 1, Len(s)) \in Seq(S)
         /\ DOMAIN SubSeq(s, k + 1, Len(s)) = 1 .. Len(s) - k
         /\ \A i \in 1 .. Len(s) - k : SubSeq(s, k + 1, Len(s))[i] = s[k + i]
<1>1. PICK c : c = SubSeq(s, k + 1, Len(s))
  OBVIOUS
<1>2. /\ Len(c) = Len(s) - k /\ c \in Seq(S)
      /\ \A i \in 1 .. Len(s) - k : c[i] = s[k + i]
  BY <1>1
<1>3. DOMAIN c = 1 .. Len(s) - k
  BY <1>2
<1> QED
  BY <1>1, <1>2, <1>3

LEMMA MovedOn ==
  ASSUME Types, NEW pc \in PCs, NEW r \in Seq(Wallets),
         bot' = [bot EXCEPT !.pc = pc, !.left = r, !.tx = {}, !.row = 0]
  PROVE  /\ bot' \in BotType /\ bot'.pc = pc /\ bot'.row = 0
         /\ bot'.mint = mint /\ bot'.left = r
  BY BotFields DEF BotType, mint

\* The next transaction: what is left is what was left after the chunk.
LEMMA NextChunkOK ==
  ASSUME IInv, bot.pc \in {"progress", "failed"}, bot' = NextChunk(bot),
         UNCHANGED txs, batch'[mint].status # "completed",
         \A m \in Mints : m = mint => Begun(m)',
         \A i \in DOMAIN bot.left :
           i > Size => rows'[mint][bot.left[i]] = "pending"
  PROVE  bot' \in BotType /\ BotOK'
<1> DEFINE rest == SubSeq(bot.left, Size + 1, Len(bot.left))
<1>1. bot.pc \in Sending
  BY DEF Sending
<1>2. PICK l \in Seq(Wallets) : l = bot.left
  BY <1>1, WhileSending
<1>3. PICK k \in 1..Len(l) : k = Size
  BY <1>1, <1>2, WhileSending
<1>0. PICK r : r = SubSeq(l, k + 1, Len(l))
  OBVIOUS
<1>4. /\ r \in Seq(Wallets) /\ DOMAIN r = 1 .. Len(l) - k
      /\ \A i \in 1 .. Len(l) - k : r[i] = l[k + i]
  BY <1>0, <1>2, <1>3, Suffix, SMTT(30)
<1>5. PICK pc \in {"final", "send"} :
        pc = IF r = <<>> THEN "final" ELSE "send"
  OBVIOUS
<1>6. bot' = [bot EXCEPT !.pc = pc, !.left = r, !.tx = {}, !.row = 0]
  BY <1>0, <1>1, <1>2, <1>3, <1>5, WhileSending DEF NextChunk
<1>7. pc \in PCs
  BY DEF PCs
<1>8. /\ bot' \in BotType /\ bot'.pc = pc /\ bot'.row = 0
      /\ bot'.mint = mint /\ bot'.left = r
  BY <1>4, <1>6, <1>7, MovedOn DEF IInv
<1>9. mint' = mint /\ mint \in Mints
  BY <1>1, <1>8, WhileSending DEF mint
<1>10. OnToken' /\ OnPayouts' /\ OnTx'
  BY <1>8, <1>9 DEF OnToken, OnPayouts, OnTx
<1>11. OnRows'
  <2>1. PICK m \in Mints : m = mint
    BY <1>9
  <2>2. Begun(m)' /\ m = mint'
    BY <1>9, <2>1
  <2>3. Begun(mint)'
    BY <2>2 DEF Begun, Eligible
  <2> QED
    BY <1>8, <2>3 DEF OnRows
<1>12. OnChunk'
  <2>1. SUFFICES ASSUME pc = "send" PROVE OnChunk'
    BY <1>8 DEF OnChunk, Sending
  <2>2. r # <<>>
    BY <1>5, <2>1
  <2>3. \A i \in 1 .. Len(l) - k : k + i \in DOMAIN l /\ k + i > k
    BY <1>2, <1>3
  <2>4. \A i, j \in DOMAIN r : r[i] = r[j] => i = j
    <3>1. \A i, j \in 1 .. Len(l) - k : l[k + i] = l[k + j] => k + i = k + j
      BY <1>1, <1>2, <2>3, WhileSending
    <3> QED
      BY <1>2, <1>3, <1>4, <3>1
  <2>5. \A i \in DOMAIN r :
          /\ rows'[mint][r[i]] = "pending"
          /\ \A t \in txs : t.mint = mint => r[i] \notin t.wallets
    <3>1. \A j \in DOMAIN l : j > k =>
            /\ rows'[mint][l[j]] = "pending"
            /\ \A t \in txs : t.mint = mint => l[j] \notin t.wallets
      BY <1>1, <1>2, <1>3, RestIsFree
    <3> QED
      BY <1>4, <2>3, <3>1
  <2>6. \A i \in DOMAIN r : Free(r[i])'
    BY <1>9, <2>5 DEF Free, In
  <2> QED
    BY <1>8, <1>9, <2>2, <2>4, <2>5, <2>6 DEF OnChunk, Sure
<1> QED
  BY <1>8, <1>10, <1>11, <1>12 DEF BotOK

\* The counters of the batch are those of the bot.
LEMMA CountedType ==
  ASSUME IInv, mint \in Mints,
         NEW status \in {"none", "distributing", "pending", "completed"},
         Counted(mint, status)
  PROVE  /\ batch' \in [Mints -> [status : {"none", "distributing", "pending",
                                            "completed"},
                                  wallets_paid : Nat, usdc_distributed : Nat]]
         /\ \A m \in Mints :
              batch'[m].status = IF m = mint THEN status ELSE batch[m].status
<1>1. PICK b \in [status : {"none", "distributing", "pending", "completed"},
                  wallets_paid : Nat, usdc_distributed : Nat] :
        b = [status |-> status, wallets_paid |-> bot.paid,
             usdc_distributed |-> bot.distributed]
  BY BotFields DEF IInv
<1>2. batch' = [batch EXCEPT ![mint] = b]
  BY <1>1 DEF Counted
<1> QED
  BY <1>1, <1>2 DEF IInv, Types

LEMMA RecordProgressKeeps ==
  ASSUME IInv, RecordProgress
  PROVE  IInv'
<1>1. /\ bot.pc = "progress" /\ bot.pc \in Sending
      /\ UNCHANGED <<rows, chain>>
  BY DEF RecordProgress, Sending
<1>2. faults' \in 0..MaxFaults
  BY FailsType DEF IInv, Types, RecordProgress, Request
<1>3. mint \in Mints /\ batch[mint].status # "completed"
  BY <1>1, WhileSending
<1>4. /\ batch' \in [Mints -> [status : {"none", "distributing", "pending",
                                         "completed"},
                               wallets_paid : Nat, usdc_distributed : Nat]]
      /\ batch'[mint].status # "completed"
  <2>1. CASE Counted(mint, batch[mint].status)
    <3>1. batch[mint].status \in {"none", "distributing", "pending", "completed"}
      BY <1>3 DEF IInv, Types
    <3> QED
      BY <1>3, <2>1, <3>1, CountedType
  <2>2. CASE UNCHANGED batch
    BY <1>3, <2>2 DEF IInv, Types
  <2> QED
    BY <2>1, <2>2 DEF RecordProgress, Request
<1>5. \A m \in Mints : m = mint => Begun(m)'
  <2>1. \A m : Begun(m)' <=> Begun(m)
    BY <1>1 DEF Begun, Eligible
  <2> QED
    BY <1>1, <2>1, WhileSending
<1>6. CASE bot' = NextChunk(bot)
  <2>1. bot' \in BotType /\ BotOK'
    BY <1>1, <1>4, <1>5, <1>6, NextChunkOK, RestIsFree DEF chain
  <2>2. Types'
    BY <1>1, <1>2, <1>4, <2>1 DEF IInv, Types, chain
  <2> QED
    BY <1>1, <2>1, <2>2, TablesKept DEF IInv, chain
<1>7. CASE Goes("failed")
  <2>1. "failed" \in PCs
    BY DEF PCs
  <2>2. /\ bot' \in BotType /\ bot'.pc = "failed" /\ bot'.row = 0
        /\ bot'.mint = mint /\ bot'.left = bot.left
    BY <1>7, <2>1, GoesType DEF IInv
  <2>3. bot'.pc \in Sending \ {"send"}
    BY <2>2 DEF Sending
  <2>4. \A i \in DOMAIN bot.left :
          /\ rows'[mint][bot.left[i]] \in Sure
          /\ i > Size => /\ rows'[mint][bot.left[i]] = "pending"
                         /\ \A t \in txs' : t.mint = mint
                                              => bot.left[i] \notin t.wallets
    BY <1>1, RestIsFree, WhileSending DEF chain
  <2>5. /\ OnToken' /\ OnPayouts' /\ OnRows' /\ OnChunk'
        /\ Size' = Size /\ Chunk' = Chunk /\ mint' = mint
    BY <1>1, <1>4, <1>5, <2>2, <2>3, <2>4, SamePart
  <2>6. OnTx'
    BY <1>1, <2>2, <2>5, WhileSending DEF OnTx
  <2>7. Types'
    BY <1>1, <1>2, <1>4, <2>2 DEF IInv, Types, chain
  <2> QED
    BY <1>1, <2>5, <2>6, <2>7, TablesKept DEF IInv, BotOK, chain
<1> QED
  BY <1>6, <1>7 DEF RecordProgress, Request

LEMMA MarkFailedKeeps ==
  ASSUME IInv, MarkFailed
  PROVE  IInv'
<1>1. /\ bot.pc = "failed" /\ bot.pc \in Sending
      /\ UNCHANGED <<batch, chain>>
  BY DEF MarkFailed, Sending
<1>2. faults' \in 0..MaxFaults
  BY FailsType DEF IInv, Types, MarkFailed, Request
<1>3. /\ rows' \in [Mints -> [Wallets -> Statuses]]
      /\ RowsOK' /\ TxsOK' /\ Receipts'
      /\ \A m \in Mints : m = mint => Begun(m)'
      /\ \A i \in DOMAIN bot.left :
           /\ rows'[mint][bot.left[i]] \in Sure
           /\ i > Size => rows'[mint][bot.left[i]] = "pending"
  <2>1. CASE RowTo("failed")
    <3>1. PICK status \in {"confirmed", "failed"} : status = "failed"
      OBVIOUS
    <3>2. RowTo(status) /\ (status = "confirmed" => bot.pc = "record")
      BY <2>1, <3>1
    <3> QED
      BY <1>1, <3>1, <3>2, RowToKeeps
  <2>2. CASE UNCHANGED rows
    <3>1. RowsOK' /\ TxsOK' /\ Receipts'
      BY <1>1, <2>2, TablesKept DEF chain
    <3>2. \A m : Begun(m)' <=> Begun(m)
      BY <2>2 DEF Begun, Eligible
    <3> QED
      BY <1>1, <2>2, <3>1, <3>2, WhileSending, RestIsFree DEF IInv, Types
  <2> QED
    BY <2>1, <2>2 DEF MarkFailed, Request
<1>4. mint \in Mints /\ batch'[mint].status # "completed"
  BY <1>1, WhileSending
<1>5. ASSUME bot' \in BotType, BotOK' PROVE IInv'
  <2>1. Types'
    BY <1>1, <1>2, <1>3, <1>5 DEF IInv, Types, chain
  <2> QED
    BY <1>3, <1>5, <2>1 DEF IInv
<1>6. CASE Leaves
  BY <1>5, <1>6, LeavesOK DEF IInv
<1>7. CASE bot' = NextChunk(bot)
  BY <1>1, <1>3, <1>4, <1>5, <1>7, NextChunkOK DEF chain
<1>8. CASE /\ bot' = [bot EXCEPT !.row = @ + 1] /\ bot.row + 1 # Len(Chunk)
  <2>1. /\ bot' \in BotType /\ bot'.pc = "failed" /\ bot'.row = bot.row + 1
        /\ bot'.mint = mint /\ bot'.left = bot.left
    <3>1. bot.row + 1 \in Nat
      BY BotFields DEF IInv
    <3> QED
      BY <1>1, <1>8, <3>1, BotFields DEF IInv, BotType, mint
  <2>2. bot'.row < Size
    <3>1. bot.row < Size /\ bot.row \in Nat
      BY <1>1, BotFields DEF IInv, BotOK, OnTx
    <3>2. Len(Chunk) = Size /\ Size \in Nat
      BY <1>1, WhileSending
    <3> QED
      BY <1>8, <2>1, <3>1, <3>2
  <2>3. bot'.pc \in Sending \ {"send"}
    BY <2>1 DEF Sending
  <2>4. \A i \in DOMAIN bot.left :
          i > Size => \A t \in txs' : t.mint = mint
                                        => bot.left[i] \notin t.wallets
    BY <1>1, RestIsFree DEF chain
  <2>5. /\ OnToken' /\ OnPayouts' /\ OnRows' /\ OnChunk'
        /\ Size' = Size /\ Chunk' = Chunk /\ mint' = mint
    BY <1>1, <1>3, <1>4, <2>1, <2>3, <2>4, SamePart
  <2>6. OnTx'
    BY <2>1, <2>2, <2>5 DEF OnTx
  <2> QED
    BY <1>5, <2>1, <2>5, <2>6 DEF BotOK
<1>9. CASE bot.row + 1 = Len(Chunk)
  BY <1>6, <1>7, <1>9 DEF MarkFailed, Request
<1>10. CASE bot.row + 1 # Len(Chunk)
  BY <1>6, <1>8, <1>10 DEF MarkFailed, Request
<1> QED
  BY <1>9, <1>10

LEMMA FinalizeKeeps ==
  ASSUME IInv, Finalize
  PROVE  IInv'
<1>1. bot.pc = "final" /\ mint \in Mints /\ UNCHANGED <<rows, chain>>
  BY DEF IInv, BotOK, OnToken, Finalize
<1>2. faults' \in 0..MaxFaults /\ Leaves
  BY FailsType DEF IInv, Types, Finalize, Request
<1>3. batch' \in [Mints -> [status : {"none", "distributing", "pending",
                                      "completed"},
                            wallets_paid : Nat, usdc_distributed : Nat]]
  <2>1. CASE UNCHANGED batch
    BY <2>1 DEF IInv, Types
  <2>2. ASSUME NEW status \in {"pending", "completed"}, Counted(mint, status)
        PROVE  batch' \in [Mints ->
                 [status : {"none", "distributing", "pending", "completed"},
                  wallets_paid : Nat, usdc_distributed : Nat]]
    BY <1>1, <2>2, CountedType
  <2>3. CASE bot.left = <<>>
    BY <2>1, <2>2, <2>3 DEF Finalize, Request
  <2>4. CASE bot.left # <<>>
    BY <2>1, <2>2, <2>4 DEF Finalize, Request
  <2> QED
    BY <2>3, <2>4
<1>4. bot' \in BotType /\ BotOK'
  BY <1>2, LeavesOK DEF IInv
<1>5. Types'
  BY <1>1, <1>2, <1>3, <1>4 DEF IInv, Types, chain
<1> QED
  BY <1>1, <1>4, <1>5, TablesKept DEF IInv, chain

-----------------------------------------------------------------------------
(***************************************************************************)
(* The cluster.                                                            *)
(***************************************************************************)
LEMMA Becoming ==
  ASSUME IInv, NEW t \in txs, t.result = "sent",
         NEW result \in {"landed", "failed", "expired"}, Becomes(t, result),
         UNCHANGED <<tables, bot>>
  PROVE  /\ txs' \subseteq TxType
         /\ RowsOK' /\ TxsOK' /\ BotOK'
         /\ t.mint \in Mints /\ t.wallets \subseteq Eligible(t.mint)
         /\ \A m \in Mints, w \in Wallets :
              /\ m = t.mint /\ w \in t.wallets =>
                   /\ \A r \in {{"landed"}, {"failed"}, {"landed", "failed"}} :
                        /\ ~In(m, w, r)
                        /\ In(m, w, r)' <=> result \in r
              /\ ~(m = t.mint /\ w \in t.wallets) =>
                   \A r : In(m, w, r)' <=> In(m, w, r)
<1>1. PICK u : u = [t EXCEPT !.result = result]
  OBVIOUS
<1>2. txs' = (txs \ {t}) \cup {u}
  BY <1>1 DEF Becomes
<1>3. t \in TxType
  BY DEF IInv, Types
<1>4. /\ u \in TxType /\ u.mint = t.mint /\ u.wallets = t.wallets
      /\ u.result = result
  BY <1>1, <1>3 DEF TxType, Results
<1>5. txs' \subseteq TxType
  BY <1>2, <1>4 DEF IInv, Types
<1>6. RowsOK'
  BY DEF IInv, RowsOK, tables
<1>7. TxsOK /\ rows' = rows
  BY DEF IInv, tables
<1>8. TxsOK'
  <2>1. \A v \in txs' : /\ v.wallets # {} /\ Begun(v.mint)
                        /\ \A w \in v.wallets : rows[v.mint][w] \in Sure
    BY <1>2, <1>4, <1>7 DEF TxsOK
  <2>2. \A v, x \in txs' :
          v.mint = x.mint => v = x \/ v.wallets \cap x.wallets = {}
    <3> SUFFICES ASSUME NEW v \in txs', NEW x \in txs', v.mint = x.mint
                 PROVE  v = x \/ v.wallets \cap x.wallets = {}
      OBVIOUS
    <3>1. CASE v # u /\ x # u
      BY <1>2, <1>7, <3>1 DEF TxsOK
    <3>2. CASE v = u /\ x # u
      BY <1>2, <1>4, <1>7, <3>2 DEF TxsOK
    <3>3. CASE v # u /\ x = u
      BY <1>2, <1>4, <1>7, <3>3 DEF TxsOK
    <3> QED
      BY <3>1, <3>2, <3>3
  <2>3. \A v \in txs' : Begun(v.mint)'
    BY <1>7, <2>1 DEF Begun, Eligible
  <2> QED
    BY <1>7, <2>1, <2>2, <2>3 DEF TxsOK
<1>9. t.mint \in Mints /\ t.wallets \subseteq Eligible(t.mint)
  BY <1>3, <1>7 DEF TxType, TxsOK, IInv, RowsOK
<1>10. BotOK'
  <2>1. BotOK /\ UNCHANGED <<batch, rows, bot>>
    BY DEF IInv, tables
  <2>2. OnToken' /\ OnPayouts'
    BY <2>1 DEF BotOK, OnToken, OnPayouts, mint, Eligible
  <2>3. OnRows'
    BY <1>2, <1>4, <2>1
    DEF BotOK, OnRows, Begun, Eligible, mint
  <2>4. \A w : Free(w) => Free(w)'
    <3>1. \A v \in txs' : v.result \in Results =>
            \E x \in txs : /\ x.mint = v.mint /\ x.wallets = v.wallets
                           /\ x.result \in Results
      BY <1>2, <1>3, <1>4 DEF TxType, Results
    <3> QED
      BY <2>1, <3>1 DEF Free, In, mint
  <2>5. OnChunk'
    <3>1. OnChunk /\ Size' = Size /\ mint' = mint
      BY <2>1 DEF BotOK, Size, mint
    <3> QED
      BY <2>1, <2>4, <3>1 DEF OnChunk
  <2>6. OnTx'
    <3>1. /\ OnTx /\ Size' = Size /\ Chunk' = Chunk
          /\ Processed' = Processed
      BY <2>1 DEF BotOK, Size, Chunk, Processed, Tx, mint
    <3>2. t \notin Processed
      BY DEF Processed, Tx
    <3> QED
      BY <1>2, <2>1, <3>1, <3>2 DEF OnTx
  <2> QED
    BY <2>2, <2>3, <2>5, <2>6 DEF BotOK
<1>11. ASSUME NEW w \in Wallets, w \in t.wallets,
              NEW r \in {{"landed"}, {"failed"}, {"landed", "failed"}}
       PROVE  /\ ~In(t.mint, w, r)
              /\ In(t.mint, w, r)' <=> result \in r
  <2>1. \A v \in txs : v.mint = t.mint /\ w \in v.wallets => v = t
    BY <1>7, <1>11 DEF TxsOK
  <2>2. t.result \notin r
    OBVIOUS
  <2> QED
    BY <1>2, <1>4, <1>11, <2>1, <2>2 DEF In
<1>12. ASSUME NEW m \in Mints, NEW w \in Wallets,
              ~(m = t.mint /\ w \in t.wallets), NEW r
       PROVE  In(m, w, r)' <=> In(m, w, r)
  BY <1>2, <1>4, <1>12 DEF In
<1> QED
  BY <1>5, <1>6, <1>8, <1>9, <1>10, <1>11, <1>12

\* What a transaction transfers.
LEMMA TransactionPays ==
  ASSUME IInv, NEW t \in txs
  PROVE  /\ t.mint \in Mints /\ t.wallets \in SUBSET Eligible(t.mint)
         /\ \A w \in t.wallets : /\ transferred(t.mint, w) \in Nat
                                  /\ transferred(t.mint, w) > 0
         /\ Cost(t.mint, t.wallets) \in Nat
<1>1. t.mint \in Mints /\ t.wallets \in SUBSET Wallets
  BY DEF IInv, Types, TxType
<1>2. \A w \in t.wallets :
        /\ w \in Eligible(t.mint)
        /\ Points[t.mint][w] * Pool[t.mint]
             >= MIN_PAYOUT_USDC * totalPoints(t.mint)
  BY <1>1 DEF IInv, TxsOK, RowsOK
<1>3. \A w \in t.wallets : /\ transferred(t.mint, w) \in Nat
                           /\ transferred(t.mint, w) > 0
  BY <1>1, <1>2, TransferOfShare
<1> QED
  BY <1>1, <1>2, <1>3, CostNat

LEMMA LandKeeps ==
  ASSUME IInv, NEW t \in txs, Land(t)
  PROVE  IInv'
<1>1. /\ t.result = "sent" /\ balance >= Cost(t.mint, t.wallets)
      /\ Becomes(t, "landed")
      /\ balance' = balance - Cost(t.mint, t.wallets)
      /\ received' = [received EXCEPT ![t.mint] = [w \in Wallets |->
           @[w] + IF w \in t.wallets THEN transferred(t.mint, w) ELSE 0]]
      /\ UNCHANGED <<tables, bot, faults, refused>>
  BY DEF Land
<1>2. /\ txs' \subseteq TxType /\ RowsOK' /\ TxsOK' /\ BotOK'
      /\ t.mint \in Mints /\ t.wallets \subseteq Eligible(t.mint)
      /\ \A m \in Mints, w \in Wallets :
           /\ m = t.mint /\ w \in t.wallets =>
                /\ ~In(m, w, {"landed"}) /\ In(m, w, {"landed"})'
                /\ ~In(m, w, {"failed"}) /\ ~In(m, w, {"failed"})'
                /\ In(m, w, {"landed", "failed"})'
           /\ ~(m = t.mint /\ w \in t.wallets) =>
                \A r : In(m, w, r)' <=> In(m, w, r)
  BY <1>1, Becoming
<1>3. \A w \in t.wallets : transferred(t.mint, w) \in Nat
  BY <1>1, TransactionPays
<1>4. \A m \in Mints, w \in Wallets :
        /\ received[m][w] \in Nat
        /\ received'[m][w] = IF m = t.mint /\ w \in t.wallets
                             THEN received[m][w] + transferred(m, w)
                             ELSE received[m][w]
  BY <1>1, <1>2 DEF IInv, Types
<1>5. received' \in [Mints -> [Wallets -> Nat]]
  <2>1. \A w \in Wallets :
          received[t.mint][w]
            + (IF w \in t.wallets THEN transferred(t.mint, w) ELSE 0) \in Nat
    BY <1>2, <1>3, <1>4
  <2>2. received \in [Mints -> [Wallets -> Nat]]
    BY DEF IInv, Types
  <2> QED
    BY <1>1, <1>2, <2>1, <2>2
<1>6. Types'
  <2>1. Cost(t.mint, t.wallets) \in Nat
    BY <1>1, TransactionPays
  <2>2. balance' \in 0..Balance
    BY <1>1, <2>1, ConstantTypes DEF IInv, Types
  <2> QED
    BY <1>1, <1>2, <1>5, <2>2 DEF IInv, Types, tables
<1>7. Receipts'
  <2> SUFFICES ASSUME NEW m \in Mints, NEW w \in Wallets
               PROVE  /\ received'[m][w] =
                           IF In(m, w, {"landed"})' THEN transferred(m, w) ELSE 0
                      /\ In(m, w, {"failed"})' => <<m, w>> \in refused'
                      /\ rows'[m][w] = "confirmed"
                           => In(m, w, {"landed", "failed"})'
    BY
    DEF Receipts, transferred, usdc_amount, totalPoints, Eligible
  <2>1. /\ received[m][w] = IF In(m, w, {"landed"}) THEN transferred(m, w) ELSE 0
        /\ In(m, w, {"failed"}) => <<m, w>> \in refused
        /\ rows[m][w] = "confirmed" => In(m, w, {"landed", "failed"})
    BY DEF IInv, Receipts
  <2>2. rows' = rows /\ refused' = refused
    BY <1>1 DEF tables
  <2>3. CASE m = t.mint /\ w \in t.wallets
    <3>1. received[m][w] = 0 /\ transferred(m, w) \in Nat
      BY <1>2, <1>3, <2>1, <2>3
    <3>2. received'[m][w] = transferred(m, w)
      BY <1>4, <2>3, <3>1
    <3> QED
      BY <1>2, <2>3, <3>2
  <2>4. CASE ~(m = t.mint /\ w \in t.wallets)
    BY <1>2, <1>4, <2>1, <2>2, <2>4
  <2> QED
    BY <2>3, <2>4
<1> QED
  BY <1>2, <1>6, <1>7 DEF IInv

LEMMA VoidKeeps ==
  ASSUME IInv, NEW t \in txs, Refuse(t) \/ Expire(t)
  PROVE  IInv'
<1>1. PICK result \in {"failed", "expired"} :
        /\ t.result = "sent" /\ Becomes(t, result)
        /\ UNCHANGED <<tables, received, balance, bot>>
        /\ refused \subseteq refused'
        /\ result = "failed" =>
             \A w \in t.wallets : <<t.mint, w>> \in refused'
  <2>1. CASE Refuse(t)
    BY <2>1 DEF Refuse
  <2>2. CASE Expire(t)
    BY <2>2 DEF Expire
  <2> QED
    BY <2>1, <2>2
<1>2. faults' \in 0..MaxFaults
  BY FailsType DEF IInv, Types, Refuse, Expire
<1>3. /\ txs' \subseteq TxType /\ RowsOK' /\ TxsOK' /\ BotOK'
      /\ \A m \in Mints, w \in Wallets :
           /\ m = t.mint /\ w \in t.wallets =>
                /\ ~In(m, w, {"landed"}) /\ ~In(m, w, {"landed"})'
                /\ ~In(m, w, {"landed", "failed"})
                /\ In(m, w, {"failed"})' <=> result = "failed"
           /\ ~(m = t.mint /\ w \in t.wallets) =>
                \A r : In(m, w, r)' <=> In(m, w, r)
  BY <1>1, Becoming
<1>4. Types'
  BY <1>1, <1>2, <1>3 DEF IInv, Types, tables
<1>5. Receipts'
  <2> SUFFICES ASSUME NEW m \in Mints, NEW w \in Wallets
               PROVE  /\ received'[m][w] =
                           IF In(m, w, {"landed"})' THEN transferred(m, w) ELSE 0
                      /\ In(m, w, {"failed"})' => <<m, w>> \in refused'
                      /\ rows'[m][w] = "confirmed"
                           => In(m, w, {"landed", "failed"})'
    BY
    DEF Receipts, transferred, usdc_amount, totalPoints, Eligible
  <2>1. /\ received[m][w] = IF In(m, w, {"landed"}) THEN transferred(m, w) ELSE 0
        /\ In(m, w, {"failed"}) => <<m, w>> \in refused
        /\ rows[m][w] = "confirmed" => In(m, w, {"landed", "failed"})
    BY DEF IInv, Receipts
  <2>2. rows' = rows /\ received' = received
    BY <1>1 DEF tables
  <2>3. CASE m = t.mint /\ w \in t.wallets
    BY <1>1, <1>3, <2>1, <2>2, <2>3
  <2>4. CASE ~(m = t.mint /\ w \in t.wallets)
    BY <1>1, <1>3, <2>1, <2>2, <2>4
  <2> QED
    BY <2>3, <2>4
<1> QED
  BY <1>3, <1>4, <1>5 DEF IInv

-----------------------------------------------------------------------------
LEMMA NextKeeps == IInv /\ [Next]_vars => IInv'
<1> SUFFICES ASSUME IInv, [Next]_vars PROVE IInv'
  OBVIOUS
<1>1. CASE UNCHANGED vars
  <2>1. RowsOK' /\ TxsOK' /\ Receipts'
    BY <1>1, TablesKept DEF vars, tables, chain
  <2>2. Types'
    BY <1>1 DEF IInv, Types, vars, tables, chain
  <2>3. BotOK'
    <3>1. UNCHANGED <<batch, rows, txs, bot>>
      BY <1>1 DEF vars, tables, chain
    <3>2. /\ mint' = mint /\ Size' = Size /\ Chunk' = Chunk
          /\ Processed' = Processed
      BY <3>1 DEF mint, Size, Chunk, Processed, Tx
    <3>3. OnToken' /\ OnPayouts' /\ OnRows'
      BY <3>1, <3>2
      DEF IInv, BotOK, OnToken, OnPayouts, OnRows, Begun, Eligible
    <3>4. \A w : Free(w)' <=> Free(w)
      BY <3>1, <3>2 DEF Free, In
    <3>5. OnChunk' /\ OnTx'
      BY <3>1, <3>2, <3>4 DEF IInv, BotOK, OnChunk, OnTx
    <3> QED
      BY <3>3, <3>5 DEF BotOK
  <2> QED
    BY <2>1, <2>2, <2>3 DEF IInv
<1>2. CASE Start
  BY <1>2, StartKeeps
<1>3. CASE BotStep
  <2>1. CASE Exit
    BY <2>1, ExitKeeps
  <2>2. CASE \E m \in Mints : Open(m)
    BY <2>2, OpenKeeps
  <2>3. CASE CreateBatch
    BY <2>3, CreateBatchKeeps
  <2>4. CASE InsertPayouts
    BY <2>4, InsertPayoutsKeeps
  <2>5. CASE ReadPending
    BY <2>5, ReadPendingKeeps
  <2>6. CASE Send
    BY <2>6, SendKeeps
  <2>7. CASE Confirm
    BY <2>7, ConfirmKeeps
  <2>8. CASE RecordRow
    BY <2>8, RecordRowKeeps
  <2>9. CASE RecordProgress
    BY <2>9, RecordProgressKeeps
  <2>10. CASE MarkFailed
    BY <2>10, MarkFailedKeeps
  <2>11. CASE Finalize
    BY <2>11, FinalizeKeeps
  <2> QED
    BY <1>3, <2>1, <2>2, <2>3, <2>4, <2>5, <2>6, <2>7, <2>8, <2>9, <2>10, <2>11
    DEF BotStep
<1>4. CASE Crash
  BY <1>4, ExitKeeps
<1>5. CASE Cluster
  BY <1>5, LandKeeps, VoidKeeps DEF Cluster
<1>6. CASE \E t \in txs : Expire(t)
  BY <1>6, VoidKeeps
<1> QED
  BY <1>1, <1>2, <1>3, <1>4, <1>5, <1>6 DEF Next

LEMMA Invariance == Spec => []IInv
  BY InitIInv, NextKeeps, PTL DEF Spec

\* The type invariant of the distribution.
THEOREM TypeCorrect == Spec => []TypeOK
<1>1. IInv => TypeOK
  <2> SUFFICES ASSUME IInv PROVE TypeOK
    OBVIOUS
  <2>1. Range(bot.left) \subseteq Wallets
    <3>1. PICK l \in Seq(Wallets) : l = bot.left
      BY BotFields DEF IInv
    <3>2. \A i \in DOMAIN l : l[i] \in Wallets
      OBVIOUS
    <3> QED
      BY <3>1, <3>2 DEF Range
  <2> QED
    BY <2>1, BotFields DEF IInv, Types, TypeOK, TxType, Results
<1> QED
  BY Invariance, <1>1, PTL

\* What the rows say of a payment is so, whatever is lost: confirmed rows were
\* paid, to a unit, or failed on chain, wallets without a row or with dust got
\* nothing.
THEOREM RowsTell == Spec => []RowsTellPayments
<1>1. IInv => RowsTellPayments
  <2> SUFFICES ASSUME IInv, NEW m \in Mints, NEW w \in Wallets
               PROVE  /\ rows[m][w] = "confirmed" =>
                           \/ received[m][w] \in
                                {usdc_amount(m, w), usdc_amount(m, w) - 1} \ {0}
                           \/ <<m, w>> \in refused
                      /\ rows[m][w] \in {"none", "skipped"}
                           => received[m][w] = 0
    BY DEF RowsTellPayments
  <2>1. /\ received[m][w] = IF In(m, w, {"landed"}) THEN transferred(m, w) ELSE 0
        /\ In(m, w, {"failed"}) => <<m, w>> \in refused
        /\ rows[m][w] = "confirmed" => In(m, w, {"landed", "failed"})
    BY DEF IInv, Receipts
  <2>2. In(m, w, {"landed", "failed"})
          => In(m, w, {"landed"}) \/ In(m, w, {"failed"})
    BY DEF In
  <2>3. rows[m][w] = "confirmed" =>
          transferred(m, w) \in {usdc_amount(m, w), usdc_amount(m, w) - 1} \ {0}
    <3> SUFFICES ASSUME rows[m][w] = "confirmed"
                 PROVE  transferred(m, w) \in
                          {usdc_amount(m, w), usdc_amount(m, w) - 1} \ {0}
      OBVIOUS
    <3>1. /\ w \in Eligible(m)
          /\ Points[m][w] * Pool[m] >= MIN_PAYOUT_USDC * totalPoints(m)
      BY DEF IInv, RowsOK, Sure
    <3> QED
      BY <3>1, TransferOfShare
  <2>4. In(m, w, {"landed"}) => rows[m][w] \in Sure
    BY DEF IInv, TxsOK, In
  <2> QED
    BY <2>1, <2>2, <2>3, <2>4 DEF Sure
<1> QED
  BY Invariance, <1>1, PTL

-----------------------------------------------------------------------------
\* No wallet has got more than its rounded share,
LEMMA ShareBound ==
  ASSUME IInv, NEW m \in Mints, Eligible(m) # {}, NEW w \in Wallets
  PROVE  (2 * totalPoints(m)) * received[m][w]
           <= (2 * Pool[m]) * Points[m][w] + totalPoints(m)
<1>1. PICK T \in Nat, P \in Nat, L \in Nat, A \in Nat :
        T = totalPoints(m) /\ P = Points[m][w] /\ L = Pool[m]
        /\ A = usdc_amount(m, w)
  BY ConstantTypes, TotalPoints, AmountOfShare
<1>2. 2 * T * A <= 2 * P * L + T
  BY <1>1, AmountOfShare
<1>3. received[m][w] \in Nat /\ received[m][w] <= A
  <2>1. CASE In(m, w, {"landed"})
    <3>1. rows[m][w] \in Sure
      BY <2>1 DEF IInv, TxsOK, In
    <3>2. Points[m][w] * Pool[m] >= MIN_PAYOUT_USDC * totalPoints(m)
      BY <3>1 DEF IInv, RowsOK
    <3> QED
      BY <1>1, <2>1, <3>2, TransferOfShare DEF IInv, Receipts
  <2>2. CASE ~In(m, w, {"landed"})
    <3>1. received[m][w] = 0
      BY <2>2 DEF IInv, Receipts
    <3> QED
      BY <1>1, <3>1
  <2> QED
    BY <2>1, <2>2
<1>4. PICK R \in Nat : R = received[m][w] /\ R <= A
  BY <1>1, <1>3
<1>5. 2 * T * R <= 2 * T * A /\ (2 * T) * R = 2 * T * R /\ (2 * L) * P = 2 * P * L
  <2>1. PICK d \in Nat : A = R + d
    <3>1. A - R \in Nat
      BY <1>4
    <3> QED
      BY <3>1
  <2>2. PICK x, y \in Int : x = 2 * T * R /\ y = 2 * T * d /\ y >= 0
    OBVIOUS
  <2>3. 2 * T * A = x + y
    BY <2>1, <2>2
  <2>4. (2 * T) * R = 2 * T * R /\ (2 * L) * P = 2 * P * L
    OBVIOUS
  <2> QED
    BY <2>2, <2>3, <2>4
<1> QED
  BY <1>1, <1>2, <1>4, <1>5

\* and all of them together no more than the pool and half a unit each.
THEOREM WithinPool == Spec => []PaidWithinPool
<1>1. IInv => PaidWithinPool
  <2> SUFFICES ASSUME IInv, NEW m \in Mints
               PROVE  2 * SumFunctionOnSet(received[m], Wallets)
                        <= 2 * Pool[m] + Cardinality(Wallets)
    BY DEF PaidWithinPool
  <2>1. PICK n \in Nat, L \in Nat, T \in Nat :
          n = Cardinality(Wallets) /\ L = Pool[m] /\ T = totalPoints(m)
    BY ConstantTypes, TotalPoints, FS_CardinalityType
  <2>2. PICK got : got = received[m]
    OBVIOUS
  <2>3. PICK points : points = Points[m]
    OBVIOUS
  <2>4. \A w \in Wallets : got[w] \in Nat /\ points[w] \in Nat
                           /\ got[w] \in Int /\ points[w] \in Int
    BY <2>2, <2>3, ConstantTypes DEF IInv, Types
  <2>5. PICK R \in Nat : R = SumFunctionOnSet(got, Wallets)
    BY <2>4, ConstantTypes, SumNat
  <2>6. CASE Eligible(m) = {}
    <3>0. PICK none \in SUBSET Wallets : none = {}
      OBVIOUS
    <3>1. ASSUME NEW w \in Wallets PROVE got[w] = 0
      <4>1. \A t \in txs : t.mint = m => w \notin t.wallets
        BY <2>6 DEF IInv, TxsOK, RowsOK
      <4>2. ~In(m, w, {"landed"})
        BY <4>1 DEF In
      <4> QED
        BY <2>2, <4>2 DEF IInv, Receipts
    <3>2. R = 0
      <4>1. SumFunctionOnSet(got, none) = SumFunctionOnSet(got, Wallets)
        BY <2>4, <3>1, ConstantTypes, SumPart
      <4> QED
        BY <2>5, <3>0, <4>1, SumEmpty
    <3> QED
      BY <2>1, <2>2, <2>5, <3>2
  <2>7. CASE Eligible(m) # {}
    <3>1. SumFunctionOnSet(points, Wallets) = T
      <4>1. \A w \in Wallets \ Eligible(m) : points[w] = 0
        BY <2>3, <2>4 DEF Eligible
      <4>2. SumFunctionOnSet(points, Eligible(m))
              = SumFunctionOnSet(points, Wallets)
        BY <2>4, <4>1, ConstantTypes, EligibleFinite, SumPart
      <4> QED
        BY <2>1, <2>3, <4>2 DEF totalPoints
    <3>2. PICK a \in Int, b \in Int : a = 2 * T /\ b = 2 * L
      OBVIOUS
    <3>3. \A w \in Wallets : a * got[w] <= b * points[w] + T
      BY <2>1, <2>2, <2>3, <2>7, <3>2, ShareBound
    <3>4. a * R <= b * T + T * n
      <4>1. PICK c \in Int : c = T
        OBVIOUS
      <4>2. \A w \in Wallets : got[w] \in Int /\ points[w] \in Int
        BY <2>4
      <4>3. \A w \in Wallets : a * got[w] <= b * points[w] + c
        BY <3>3, <4>1
      <4>4. IsFiniteSet(Wallets)
        BY ConstantTypes
      <4>5. a * SumFunctionOnSet(got, Wallets)
              <= b * SumFunctionOnSet(points, Wallets) + c * Cardinality(Wallets)
        BY <3>2, <4>1, <4>2, <4>3, <4>4, SumBound
      <4> QED
        BY <2>1, <2>5, <3>1, <4>1, <4>5
    <3>5. T > 0
      BY <2>1, <2>7, TotalPoints
    <3>6. T * (2 * R) <= T * (2 * L + n)
      <4>1. (2 * T) * R = T * (2 * R) /\ (2 * L) * T + T * n = T * (2 * L + n)
        OBVIOUS
      <4> QED
        BY <3>2, <3>4, <4>1
    <3>7. \A x, y \in Int : T * x <= T * y => x <= y
      BY <3>5
    <3>8. 2 * R <= 2 * L + n
      BY <3>6, <3>7
    <3> QED
      BY <2>1, <2>2, <2>5, <3>8
  <2> QED
    BY <2>6, <2>7
<1> QED
  BY Invariance, <1>1, PTL

-----------------------------------------------------------------------------
(***************************************************************************)
(* What a completed batch says.  The counters and the rows of a token are  *)
(* the work of one run of the bot: a run that finds rows leaves.           *)
(***************************************************************************)

\* No transaction has been recorded for the token yet.
Fresh(m) ==
  /\ batch[m].wallets_paid = 0 /\ batch[m].usdc_distributed = 0
  /\ \A w \in Wallets : rows[m][w] \in {"none", "pending", "skipped"}

\* The bot adds rows to a fresh token, and before it sends every holder has one.
Untouched == \A m \in Mints : Begun(m) \/ Fresh(m)

OnInsert == bot.pc = "pending" => Fresh(mint)

\* Nothing is counted for a token that has no holder.
Nobody ==
  /\ \A m \in Mints : Eligible(m) = {} =>
       batch[m].wallets_paid = 0 /\ batch[m].usdc_distributed = 0
  /\ bot.pc = "final" /\ Eligible(mint) = {} =>
       bot.paid = 0 /\ bot.distributed = 0

\* All the way from the pending rows to the end of a run that is for real.
Working == bot.pc \in Sending \/ (bot.pc = "final" /\ bot.left = <<>>)

AllKnown ==
  bot.pc = "pending" \/ Working =>
    \A w \in Eligible(mint) : rows[mint][w] # "none"

\* The rows the limit cut off, and those it did not.
Cut == With(mint, "pending") \ Range(bot.left)

Read == {w \in Wallets : rows[mint][w] \in Sure} \ Cut

CutOff ==
  Working =>
    \A w \in Cut :
      /\ Cardinality(Read) = PENDING_LIMIT
      /\ \A v \in Read : usdc_amount(mint, v) >= usdc_amount(mint, w)

\* The rows whose transactions are over as far as the bot is concerned: it
\* takes back those of a transaction it is marking as failed.
Settled ==
  With(mint, "confirmed") \ (IF bot.pc = "failed" THEN Range(Chunk) ELSE {})

Down ==
  With(mint, "failed") \cup (IF bot.pc = "failed" THEN Range(Chunk) ELSE {})

Tally ==
  Working =>
    /\ bot.paid >= Cardinality(Settled)
    /\ bot.distributed >= Amount(mint, Settled)
    /\ faults = 0 => /\ bot.paid = Cardinality(Settled)
                     /\ bot.distributed = Amount(mint, Settled)

Downed ==
  Working /\ faults = 0 =>
    Cardinality(Down) <= TRANSFERS_PER_TX * Cardinality(Down \cap OffCurve)

\* How far the rows of the chunk in hand are.
ChunkRows ==
  bot.pc \in Sending =>
    \A i \in 1..Size :
      /\ bot.pc = "confirm" => rows[mint][bot.left[i]] = "pending"
      /\ bot.pc = "record" => rows[mint][bot.left[i]] =
                                IF i <= bot.row THEN "confirmed" ELSE "pending"
      /\ bot.pc = "progress" => rows[mint][bot.left[i]] = "confirmed"
      /\ bot.pc = "failed" /\ i <= bot.row => rows[mint][bot.left[i]] = "failed"

NoneExpired == faults = 0 => \A t \in txs : t.result # "expired"

Progress == AllKnown /\ CutOff /\ Tally /\ Downed /\ ChunkRows

Through == Untouched /\ OnInsert /\ Progress /\ NoneExpired /\ CompletedIsThrough

LEMMA AmountFixed == \A m, ws : Amount(m, ws)' = Amount(m, ws)
  BY DEF Amount, usdc_amount, totalPoints, Eligible

LEMMA AmountAdds ==
  ASSUME NEW m \in Mints, NEW ws \in SUBSET Eligible(m),
         NEW w \in Eligible(m) \ ws
  PROVE  Amount(m, ws \cup {w}) = Amount(m, ws) + usdc_amount(m, w)
<1>1. PICK S : S = ws \cup {w}
  OBVIOUS
<1>2. IsFiniteSet(S)
  BY <1>1, EligibleFinite, FS_Subset
<1>3. PICK f : f = [v \in Wallets |-> usdc_amount(m, v)]
  OBVIOUS
<1>4. \A v \in S : f[v] \in Int
  BY <1>1, <1>3, AmountOfShare, EligibleFinite
<1>5. SumFunctionOnSet(f, S) = f[w] + SumFunctionOnSet(f, S \ {w})
  BY <1>1, <1>2, <1>4, SumRemove
<1>6. S \ {w} = ws /\ f[w] = usdc_amount(m, w)
  BY <1>1, <1>3, EligibleFinite
<1>7. SumFunctionOnSet(f, ws) \in Nat /\ f[w] \in Nat
  BY <1>3, <1>6, AmountNat, AmountOfShare, EligibleFinite DEF Amount
<1>8. Amount(m, S) = SumFunctionOnSet(f, S)
      /\ Amount(m, ws) = SumFunctionOnSet(f, ws)
  BY <1>3 DEF Amount
<1>9. Amount(m, S) = f[w] + Amount(m, ws)
  BY <1>5, <1>6, <1>8
<1>10. Amount(m, ws) \in Nat
  BY <1>7, <1>8
<1> QED
  BY <1>1, <1>6, <1>7, <1>9, <1>10

LEMMA AmountLess ==
  ASSUME NEW m \in Mints, NEW ws \in SUBSET Eligible(m), NEW vs \in SUBSET ws
  PROVE  Amount(m, vs) <= Amount(m, ws)
<1>1. IsFiniteSet(ws)
  BY EligibleFinite, FS_Subset
<1>2. PICK f : f = [v \in Wallets |-> usdc_amount(m, v)]
  OBVIOUS
<1>3. \A v \in ws : f[v] \in Nat
  BY <1>2, AmountOfShare, EligibleFinite
<1> QED
  BY <1>1, <1>2, <1>3, SumPart DEF Amount

LEMMA AmountOfNone ==
  ASSUME NEW m, NEW ws, ws = {}
  PROVE  Amount(m, ws) = 0 /\ Cardinality(ws) = 0
  BY SumEmpty, FS_EmptySet DEF Amount

\* The wallets that have a row of a status that is no dust.
LEMMA SureRows ==
  ASSUME IInv, NEW m \in Mints, NEW s \in Sure
  PROVE  /\ With(m, s) \in SUBSET Eligible(m)
         /\ IsFiniteSet(With(m, s)) /\ Cardinality(With(m, s)) \in Nat
<1>1. With(m, s) \in SUBSET Eligible(m)
  BY DEF IInv, RowsOK, With
<1> QED
  BY <1>1, EligibleFinite, FS_Subset, FS_CardinalityType

LEMMA PartIsFinite ==
  ASSUME NEW ws \in SUBSET Wallets
  PROVE  IsFiniteSet(ws) /\ Cardinality(ws) \in Nat
  BY ConstantTypes, FS_Subset, FS_CardinalityType

-----------------------------------------------------------------------------
\* Batches that are over stay as they are,
LEMMA CompletedStay ==
  ASSUME IInv, CompletedIsThrough, faults' = 0 => faults = 0,
         \A m \in Mints : batch'[m].status = "completed" =>
                            batch'[m] = batch[m] /\ rows'[m] = rows[m]
  PROVE  CompletedIsThrough'
<1>1. \A m, w : usdc_amount(m, w)' = usdc_amount(m, w)
  BY DEF usdc_amount, totalPoints, Eligible
<1>2. \A m : Eligible(m)' = Eligible(m)
  BY DEF Eligible
<1>3. ASSUME NEW m \in Mints, batch'[m].status = "completed"
      PROVE  /\ batch'[m] = batch[m] /\ batch[m].status = "completed"
             /\ With(m, "none")' = With(m, "none")
             /\ With(m, "confirmed")' = With(m, "confirmed")
             /\ With(m, "failed")' = With(m, "failed")
             /\ With(m, "pending")' = With(m, "pending")
  BY <1>3 DEF With
<1> QED
  BY <1>1, <1>2, <1>3, AmountFixed DEF CompletedIsThrough

\* and so do those that are not begun.
LEMMA UntouchedStay ==
  ASSUME IInv, Untouched,
         \A m \in Mints :
           \/ Begun(m)'
           \/ Fresh(m)'
           \/ /\ rows'[m] = rows[m]
              /\ batch'[m].wallets_paid = batch[m].wallets_paid
              /\ batch'[m].usdc_distributed = batch[m].usdc_distributed
  PROVE  Untouched'
<1> SUFFICES ASSUME NEW m \in Mints, ~Begun(m)', rows'[m] = rows[m],
               batch'[m].wallets_paid = batch[m].wallets_paid,
               batch'[m].usdc_distributed = batch[m].usdc_distributed
             PROVE  Fresh(m)'
  BY DEF Untouched
<1>1. ~Begun(m)
  BY DEF Begun, Eligible
<1> QED
  BY <1>1 DEF Untouched, Fresh

LEMMA TablesStay ==
  ASSUME IInv, Through, UNCHANGED tables, faults' = 0 => faults = 0
  PROVE  Untouched' /\ CompletedIsThrough'
  BY CompletedStay, UntouchedStay DEF Through, tables

\* A request that fails is counted.
LEMMA FailsCounts ==
  ASSUME Types, Fails
  PROVE  faults' # 0
  BY ConstantTypes DEF Types, Fails

\* Nothing is said of a bot that is not at work on rows.
Resting ==
  \/ bot.pc \in {"idle", "token", "create", "insert"}
  \/ bot.pc = "final" /\ bot.left # <<>>

LEMMA Rests ==
  ASSUME Resting'
  PROVE  OnInsert' /\ Progress'
  BY DEF Resting, OnInsert, Progress, AllKnown, CutOff, Tally, Downed,
         ChunkRows, Working, Sending

LEMMA LeavesRest ==
  ASSUME IInv, Leaves
  PROVE  Resting'
  BY DEF Leaves, Resting, Idle
LEMMA InitThrough == Init => Through
<1> SUFFICES ASSUME Init PROVE Through
  OBVIOUS
<1>1. Untouched
  BY DEF Init, Untouched, Fresh, NoBatch
<1>2. OnInsert /\ Progress
  BY DEF Init, Idle, OnInsert, Progress, AllKnown, CutOff, Tally, Downed,
         ChunkRows, Working, Sending
<1>3. NoneExpired /\ CompletedIsThrough
  BY DEF Init, NoneExpired, CompletedIsThrough, NoBatch
<1> QED
  BY <1>1, <1>2, <1>3 DEF Through

LEMMA RestsThrough ==
  ASSUME IInv, Through, UNCHANGED <<tables, chain>>, Resting',
         faults' = 0 => faults = 0
  PROVE  Through'
<1>1. NoneExpired'
  BY DEF Through, NoneExpired, chain
<1> QED
  BY <1>1, Rests, TablesStay DEF Through

\* What goes on between tokens,
LEMMA StartThrough ==
  ASSUME IInv, Through, Start
  PROVE  Through'
<1>1. PICK dry \in DryRuns, tokens \in TokensRead :
        bot' = [Idle EXCEPT !.pc = "token", !.dry = dry, !.todo = tokens]
  BY DEF Start
<1>2. UNCHANGED <<tables, chain, faults>>
  BY DEF Start
<1>3. Resting'
  BY <1>1 DEF Resting, Idle
<1> QED
  BY <1>2, <1>3, RestsThrough

LEMMA ExitThrough ==
  ASSUME IInv, Through, Exit \/ Crash
  PROVE  Through'
<1>1. UNCHANGED <<tables, chain>> /\ bot' = Idle
      /\ (faults' = 0 => faults = 0)
  BY FailsCounts DEF IInv, Exit, Crash
<1>2. Resting'
  BY <1>1 DEF Resting, Idle
<1> QED
  BY <1>1, <1>2, RestsThrough

LEMMA OpenThrough ==
  ASSUME IInv, Through, NEW m \in Mints, Open(m)
  PROVE  Through'
<1>1. bot.pc = "token" /\ UNCHANGED <<tables, chain>>
  BY DEF Open
<1>2. faults' = 0 => faults = 0
  BY FailsCounts DEF IInv, Open
<1>3. bot'.pc \in {"token", "create", "insert"}
  <2>1. CASE bot' = [bot EXCEPT !.todo = @ \ {m}]
    BY <1>1, <2>1, BotFields DEF IInv, BotType
  <2>2. CASE \E pc \in {"create", "insert"} :
               bot' = [bot EXCEPT !.mint = m, !.pc = pc,
                                  !.payouts = Eligible(m)]
    BY <1>1, <2>2, BotFields DEF IInv, BotType
  <2> QED
    BY <2>1, <2>2 DEF Open
<1>4. Resting'
  BY <1>3 DEF Resting
<1> QED
  BY <1>1, <1>2, <1>4, RestsThrough

\* and in the cluster.
LEMMA ClusterThrough ==
  ASSUME IInv, Through, NEW t \in txs, Land(t) \/ Refuse(t) \/ Expire(t)
  PROVE  Through'
<1>1. UNCHANGED <<tables, bot>> /\ (faults' = 0 => faults = 0)
  BY FailsCounts DEF IInv, Land, Refuse, Expire
<1>2. mint' = mint /\ Chunk' = Chunk /\ Size' = Size
  BY <1>1 DEF mint, Chunk, Size
<1>3. NoneExpired'
  <2>1. CASE Expire(t)
    BY <2>1, FailsCounts DEF IInv, Expire, NoneExpired
  <2>2. ASSUME NEW result \in {"landed", "failed"}, Becomes(t, result),
               t.result = "sent"
        PROVE  NoneExpired'
    <3>1. t \in TxType
      BY DEF IInv, Types
    <3>2. [t EXCEPT !.result = result].result # "expired"
      BY <3>1 DEF TxType
    <3> QED
      BY <1>1, <2>2, <3>2 DEF Becomes, NoneExpired, Through
  <2> QED
    BY <2>1, <2>2 DEF Land, Refuse
<1>4. \A m, s : With(m, s)' = With(m, s)
  BY <1>1 DEF With, tables
<1>5. OnInsert'
  BY <1>1, <1>2 DEF Through, OnInsert, Fresh, tables
<1>6. /\ Working' = Working /\ Cut' = Cut /\ Read' = Read
      /\ Settled' = Settled /\ Down' = Down
  BY <1>1, <1>2, <1>4 DEF Working, Cut, Read, Settled, Down, tables
<1>7. AllKnown' /\ ChunkRows'
  BY <1>1, <1>2, <1>6 DEF Through, Progress, AllKnown, ChunkRows, tables, Eligible
<1>8. CutOff' /\ Downed'
  <2>1. \A m, w : usdc_amount(m, w)' = usdc_amount(m, w)
    BY DEF usdc_amount, totalPoints, Eligible
  <2> QED
    BY <1>1, <1>2, <1>6, <2>1 DEF Through, Progress, CutOff, Downed
<1>9. Tally'
  BY <1>1, <1>2, <1>6, AmountFixed DEF Through, Progress, Tally
<1> QED
  BY <1>1, <1>3, <1>5, <1>7, <1>8, <1>9, TablesStay DEF Through, Progress

-----------------------------------------------------------------------------
LEMMA CreateBatchThrough ==
  ASSUME IInv, Through, CreateBatch
  PROVE  Through'
<1>1. /\ bot.pc = "create" /\ mint \in Mints /\ UNCHANGED <<rows, chain>>
      /\ (faults' = 0 => faults = 0)
  BY FailsCounts DEF IInv, BotOK, OnToken, CreateBatch, Request
<1>2. Resting'
  <2>1. CASE Leaves
    BY <2>1, LeavesRest
  <2>2. CASE Goes("insert")
    <3>1. "insert" \in PCs
      BY DEF PCs
    <3> QED
      BY <2>2, <3>1, GoesType DEF IInv, Resting
  <2> QED
    BY <2>1, <2>2 DEF CreateBatch, Request
<1>3. \A m \in Mints :
        /\ batch'[m].wallets_paid = batch[m].wallets_paid
        /\ batch'[m].usdc_distributed = batch[m].usdc_distributed
        /\ batch'[m].status = "completed" => batch'[m] = batch[m]
  <2>1. CASE UNCHANGED batch
    BY <2>1
  <2>2. CASE batch' = [batch EXCEPT ![mint].status = "distributing"]
    BY <1>1, <2>2 DEF IInv, Types
  <2> QED
    BY <2>1, <2>2 DEF CreateBatch, Request
<1>4. Untouched' /\ CompletedIsThrough'
  BY <1>1, <1>3, UntouchedStay, CompletedStay DEF Through
<1>5. NoneExpired'
  BY <1>1 DEF Through, NoneExpired, chain
<1> QED
  BY <1>2, <1>4, <1>5, Rests DEF Through

LEMMA InsertPayoutsThrough ==
  ASSUME IInv, Nobody, Through, InsertPayouts
  PROVE  Through'
<1>1. /\ bot.pc = "insert" /\ mint \in Mints
      /\ batch[mint].status # "completed"
      /\ UNCHANGED <<batch, chain>> /\ (faults' = 0 => faults = 0)
  BY FailsCounts
  DEF IInv, BotOK, OnToken, InsertPayouts, InsertSlice, Request
<1>2. NoneExpired'
  BY <1>1 DEF Through, NoneExpired, chain
<1>3. OnRows'
  BY InsertPayoutsKeeps DEF IInv, BotOK
<1>4. ASSUME bot'.pc = "pending", mint' = mint, Fresh(mint)',
             Untouched', CompletedIsThrough'
      PROVE  Through'
  <2>1. AllKnown'
    <3>1. Begun(mint)'
      BY <1>3, <1>4 DEF OnRows
    <3> QED
      BY <3>1, <1>4 DEF AllKnown, Begun
  <2>2. OnInsert'
    BY <1>4 DEF OnInsert
  <2>3. CutOff' /\ Tally' /\ Downed' /\ ChunkRows'
    BY <1>4 DEF CutOff, Tally, Downed, ChunkRows, Working, Sending
  <2> QED
    BY <1>2, <1>4, <2>1, <2>2, <2>3 DEF Through, Progress
<1>5. CASE bot.payouts = {} /\ Goes("pending") /\ UNCHANGED <<rows, faults>>
  <2>1. "pending" \in PCs
    BY DEF PCs
  <2>2. bot'.pc = "pending" /\ mint' = mint
    BY <1>5, <2>1, GoesType DEF IInv, mint
  <2>3. Eligible(mint) = {}
    BY <1>1, <1>5 DEF IInv, BotOK, OnPayouts
  <2>4. \A w \in Wallets : rows[mint][w] \in {"none", "pending", "skipped"}
    BY <1>1, <2>3 DEF IInv, Types, RowsOK, Statuses, Sure
  <2>5. batch[mint].wallets_paid = 0 /\ batch[mint].usdc_distributed = 0
    BY <1>1, <2>3 DEF Nobody
  <2>6. Fresh(mint)'
    BY <1>1, <1>5, <2>2, <2>4, <2>5 DEF Fresh
  <2> QED
    BY <1>1, <1>4, <1>5, <2>2, <2>6, TablesStay DEF tables
<1>6. CASE bot.payouts # {} /\ \E slice \in Slices : InsertSlice(slice)
  <2>1. PICK slice \in Slices : InsertSlice(slice)
    BY <1>6
  <2>2. CASE UNCHANGED rows /\ Leaves
    BY <1>1, <1>2, <2>2, LeavesRest, Rests, TablesStay DEF Through, tables
  <2>3. ASSUME ~Known(slice),
               rows' = [rows EXCEPT ![mint] =
                          [w \in Wallets |-> IF w \in slice
                                             THEN FirstStatus(mint, w) ELSE @[w]]],
               \/ Leaves
               \/ bot' = [bot EXCEPT !.payouts = @ \ slice,
                           !.pc = IF slice = bot.payouts THEN "pending" ELSE @]
        PROVE  Through'
    <3>1. /\ ~Begun(mint) /\ Eligible(mint) \in SUBSET Wallets
          /\ \A m \in Mints, w \in Wallets :
               rows'[m][w] = IF m = mint /\ w \in slice
                             THEN FirstStatus(mint, w) ELSE rows[m][w]
      BY <1>1, <1>6, <2>1, <2>3, Inserts
    <3>2. \A m \in Mints \ {mint} : rows'[m] = rows[m]
      BY <2>3 DEF IInv, Types
    <3>3. Fresh(mint)
      BY <1>1, <3>1 DEF Through, Untouched
    <3>4. \A w : FirstStatus(mint, w) \in {"skipped", "pending"}
      BY DEF FirstStatus
    <3>5. /\ batch'[mint].wallets_paid = 0 /\ batch'[mint].usdc_distributed = 0
          /\ \A w \in Wallets : rows'[mint][w] \in {"none", "pending", "skipped"}
      BY <1>1, <3>1, <3>3, <3>4 DEF Fresh
    <3>6. Untouched' /\ CompletedIsThrough'
      <4>1. \A m \in Mints : m = mint => Fresh(m)'
        BY <3>5 DEF Fresh
      <4> QED
        BY <1>1, <3>2, <4>1, UntouchedStay, CompletedStay DEF Through
    <3>7. CASE Leaves
      BY <1>2, <3>6, <3>7, LeavesRest, Rests DEF Through
    <3>8. CASE bot' = [bot EXCEPT !.payouts = @ \ slice,
                       !.pc = IF slice = bot.payouts THEN "pending" ELSE @]
      <4>1. PICK pc \in {"pending", "insert"} :
              pc = IF slice = bot.payouts THEN "pending" ELSE "insert"
        OBVIOUS
      <4>2. bot' = [bot EXCEPT !.payouts = bot.payouts \ slice, !.pc = pc]
        BY <1>1, <3>8, <4>1, BotFields DEF IInv, BotType
      <4>3. bot'.pc = pc /\ mint' = mint
        BY <4>2, BotFields DEF IInv, BotType, mint
      <4>4. CASE pc = "insert"
        <5>1. Resting'
          BY <4>3, <4>4 DEF Resting
        <5> QED
          BY <1>2, <3>6, <5>1, Rests DEF Through
      <4>5. CASE pc = "pending"
        <5>1. Fresh(mint)'
          BY <3>5, <4>3 DEF Fresh
        <5> QED
          BY <1>4, <3>6, <4>3, <4>5, <5>1
      <4> QED
        BY <4>1, <4>4, <4>5
    <3> QED
      BY <2>3, <3>7, <3>8
  <2> QED
    BY <2>1, <2>2, <2>3 DEF InsertSlice, Request
<1> QED
  BY <1>5, <1>6 DEF InsertPayouts

-----------------------------------------------------------------------------
\* What the limit cuts off an order of the pending wallets by their shares.
LEMMA PartOrder ==
  ASSUME NEW m, NEW pending \in SUBSET Wallets, pending # {},
         NEW order \in SetToSeqs(pending),
         \A i, j \in DOMAIN order : i < j =>
           usdc_amount(m, order[i]) >= usdc_amount(m, order[j])
  PROVE  /\ Range(ReadPart(order)) \in SUBSET pending
         /\ \A w \in pending \ Range(ReadPart(order)) :
              /\ Cardinality(Range(ReadPart(order))) = PENDING_LIMIT
              /\ \A v \in Range(ReadPart(order)) :
                   usdc_amount(m, v) >= usdc_amount(m, w)
<1>1. IsFiniteSet(pending)
  BY ConstantTypes, FS_Subset
<1>2. PICK n \in Nat : n = Cardinality(pending) /\ n > 0
  BY <1>1, FS_CardinalityType, FS_EmptySet
<1>3. /\ order \in [1..n -> pending]
      /\ \A i, j \in 1..n : i # j => order[i] # order[j]
  BY <1>2 DEF SetToSeqs
<1>4. order \in Seq(Wallets) /\ Len(order) = n
  BY <1>3
<1>5. PENDING_LIMIT \in Nat /\ PENDING_LIMIT > 0
  BY ConstantTypes
<1>6. PICK k \in 1..n : /\ k = Min({PENDING_LIMIT, n})
                        /\ k < n => k = PENDING_LIMIT
  <2>1. Min({PENDING_LIMIT, n}) = IF PENDING_LIMIT <= n THEN PENDING_LIMIT ELSE n
    BY <1>5, MinOfTwo
  <2> QED
    BY <1>2, <1>5, <2>1
<1>7. PICK part : part = SubSeq(order, 1, k)
  OBVIOUS
<1>8. ReadPart(order) = part
  BY <1>4, <1>6, <1>7 DEF ReadPart
<1>9. /\ part \in Seq(Wallets) /\ DOMAIN part = 1..k /\ Len(part) = k
      /\ \A i \in 1..k : part[i] = order[i]
  BY <1>4, <1>6, <1>7, Prefix, ZenonT(60)
<1>10. PICK R : R = Range(part)
  OBVIOUS
<1>11. R = {order[i] : i \in 1..k}
  BY <1>9, <1>10 DEF Range
<1>12. \A i \in 1..k : i \in 1..n
  BY <1>6
<1>13. R \in SUBSET pending
  BY <1>3, <1>11, <1>12
<1>14. Cardinality(R) = k
  <2>1. part \in [1..k -> R] /\ \A i, j \in 1..k : part[i] = part[j] => i = j
    BY <1>3, <1>9, <1>11, <1>12
  <2>2. part \in Injection(1..k, R)
    BY <1>9, <2>1 DEF Injection, IsInjective
  <2>4. \A w \in R : \E i \in 1..k : part[i] = w
    BY <1>9, <1>11
  <2>5. part \in Surjection(1..k, R)
    BY <2>1, <2>4 DEF Surjection
  <2>3. ExistsBijection(1..k, R)
    BY <2>2, <2>5 DEF ExistsBijection, Bijection
  <2> QED
    BY <2>3, FS_CountingElements
<1>15. ASSUME NEW w \in pending \ R
       PROVE  /\ Cardinality(R) = PENDING_LIMIT
              /\ \A v \in R : usdc_amount(m, v) >= usdc_amount(m, w)
  <2>1. \E j \in 1..n : order[j] = w
    <3>1. order \in Injection(1..n, pending)
      BY <1>3 DEF Injection, IsInjective
    <3>2. Cardinality(1..n) = n
      BY FS_Interval
    <3>3. order \in Surjection(1..n, pending)
      BY <1>1, <1>2, <3>1, <3>2, FS_Injection
    <3> QED
      BY <3>3 DEF Surjection
  <2>2. PICK j \in 1..n : order[j] = w
    BY <2>1
  <2>3. j > k
    BY <1>6, <1>11, <2>2
  <2>4. k < n
    BY <1>6, <2>2, <2>3
  <2>5. \A i \in 1..k : usdc_amount(m, order[i]) >= usdc_amount(m, w)
    <3>1. \A i \in 1..k : i \in DOMAIN order /\ j \in DOMAIN order /\ i < j
      BY <1>3, <1>12, <2>2, <2>3, SMTT(30)
    <3> QED
      BY <2>2, <3>1
  <2> QED
    BY <1>6, <1>11, <1>14, <2>4, <2>5
<1> QED
  BY <1>8, <1>10, <1>13, <1>15

LEMMA ReadPendingThrough ==
  ASSUME IInv, Through, ReadPending
  PROVE  Through'
<1>1. /\ bot.pc = "pending" /\ mint \in Mints
      /\ UNCHANGED <<tables, chain>>
      /\ (faults' = 0 => faults = 0)
  BY FailsCounts DEF IInv, BotOK, OnToken, ReadPending
<1>2. CASE Leaves
  BY <1>1, <1>2, LeavesRest, RestsThrough
<1>3. PICK pending \in SUBSET Wallets : pending = With(mint, "pending")
  BY DEF With
<1>4. ASSUME NEW order \in SetToSeqs(pending),
             \A i, j \in DOMAIN order : i < j =>
               usdc_amount(mint, order[i]) >= usdc_amount(mint, order[j]),
             bot' = [bot EXCEPT
                  !.pc = IF pending = {} \/ bot.dry THEN "final" ELSE "send",
                  !.left = ReadPart(order), !.row = 0,
                  !.paid = batch[mint].wallets_paid,
                  !.distributed = batch[mint].usdc_distributed]
      PROVE  Through'
  <2>1. PICK pc \in {"final", "send"} :
          pc = IF pending = {} \/ bot.dry THEN "final" ELSE "send"
    OBVIOUS
  <2>2. PICK l : l = ReadPart(order)
    OBVIOUS
  <2>3. /\ batch[mint].wallets_paid = 0 /\ batch[mint].usdc_distributed = 0
        /\ \A w \in Wallets : rows[mint][w] \in {"none", "pending", "skipped"}
    BY <1>1 DEF Through, OnInsert, Fresh
  <2>4. /\ bot'.pc = pc /\ bot'.mint = mint /\ bot'.left = l
        /\ bot'.paid = 0 /\ bot'.distributed = 0
    <3>1. bot' = [bot EXCEPT !.pc = pc, !.left = l, !.row = 0,
                  !.paid = batch[mint].wallets_paid,
                  !.distributed = batch[mint].usdc_distributed]
      BY <1>4, <2>1, <2>2
    <3> QED
      BY <2>3, <3>1, BotFields DEF IInv, BotType, mint
  <2>5. mint' = mint /\ UNCHANGED <<batch, rows, txs>>
    BY <1>1, <2>4 DEF mint, tables, chain
  <2>6. CASE pc = "final" /\ l # <<>>
    <3>1. Resting'
      BY <2>4, <2>6 DEF Resting
    <3> QED
      BY <1>1, <3>1, RestsThrough
  <2>7. CASE pc = "send" \/ l = <<>>
    <3>1. Working' /\ bot'.pc # "failed"
      BY <2>1, <2>4, <2>7 DEF Working, Sending
    <3>2. OnInsert'
      BY <2>1, <2>4 DEF OnInsert
    <3>3. AllKnown'
      <4>1. \A w \in Eligible(mint) : rows[mint][w] # "none"
        BY <1>1 DEF Through, Progress, AllKnown
      <4> QED
        BY <2>5, <4>1 DEF AllKnown, Eligible
    <3>4. /\ With(mint, "pending")' = pending
          /\ With(mint, "confirmed")' = {} /\ With(mint, "failed")' = {}
      BY <1>3, <2>3, <2>5 DEF With
    <3>5. Settled' = {} /\ Down' = {}
      BY <3>1, <3>4 DEF Settled, Down
    <3>6. Tally'
      <4>1. PICK ws : ws = Settled'
        OBVIOUS
      <4>2. Cardinality(ws) = 0 /\ Amount(mint, ws) = 0
        BY <3>5, <4>1, AmountOfNone
      <4> QED
        BY <2>4, <2>5, <4>1, <4>2, AmountFixed DEF Tally
    <3>7. Downed'
      <4>1. PICK ws, os : ws = Down' /\ os = ws \cap OffCurve
        OBVIOUS
      <4>2. ws = {} /\ os = {} /\ Cardinality(ws) = 0 /\ Cardinality(os) = 0
        BY <3>5, <4>1, FS_EmptySet
      <4>3. TRANSFERS_PER_TX * Cardinality(os) = 0
        BY <4>2, ConstantTypes
      <4> QED
        BY <4>1, <4>2, <4>3 DEF Downed
    <3>8. CutOff'
      <4>1. CASE pending = {}
        BY <3>4, <4>1 DEF CutOff, Cut
      <4>2. CASE pending # {}
        <5>1. PICK R : R = Range(l)
          OBVIOUS
        <5>2. /\ R \in SUBSET pending
              /\ \A w \in pending \ R :
                   /\ Cardinality(R) = PENDING_LIMIT
                   /\ \A v \in R : usdc_amount(mint, v) >= usdc_amount(mint, w)
          <6>1. PICK m : m = mint
            OBVIOUS
          <6>2. \A i, j \in DOMAIN order : i < j =>
                  usdc_amount(m, order[i]) >= usdc_amount(m, order[j])
            BY <1>4, <6>1
          <6>3. PICK part : part = ReadPart(order)
            OBVIOUS
          <6>4. /\ Range(part) \in SUBSET pending
                /\ \A w \in pending \ Range(part) :
                     /\ Cardinality(Range(part)) = PENDING_LIMIT
                     /\ \A v \in Range(part) :
                          usdc_amount(m, v) >= usdc_amount(m, w)
            BY <4>2, <6>2, <6>3, PartOrder
          <6> QED
            BY <2>2, <5>1, <6>1, <6>3, <6>4
        <5>3. Cut' = pending \ R
          BY <2>4, <3>4, <5>1 DEF Cut
        <5>4. {w \in Wallets : rows'[mint'][w] \in Sure} = pending
          BY <1>3, <2>3, <2>5 DEF Sure, With
        <5>5. Read' = R
          BY <5>2, <5>3, <5>4 DEF Read
        <5>6. \A m, w : usdc_amount(m, w)' = usdc_amount(m, w)
          BY DEF usdc_amount, totalPoints, Eligible
        <5> QED
          BY <2>5, <5>2, <5>3, <5>5, <5>6 DEF CutOff
      <4> QED
        BY <4>1, <4>2
    <3>9. ChunkRows'
      BY <2>1, <2>4 DEF ChunkRows, Sending
    <3>10. NoneExpired'
      BY <1>1, <2>5 DEF Through, NoneExpired
    <3> QED
      BY <1>1, <3>2, <3>3, <3>6, <3>7, <3>8, <3>9, <3>10, TablesStay
      DEF Through, Progress
  <2> QED
    BY <2>1, <2>6, <2>7
<1> QED
  BY <1>2, <1>3, <1>4, ZenonT(60) DEF ReadPending, With
-----------------------------------------------------------------------------
(***************************************************************************)
(* While transactions are sent.                                            *)
(***************************************************************************)
\* Rows only change among those of the wallets that are left.
LEMMA CutKept ==
  ASSUME IInv, Through, bot.pc \in Sending, mint' = mint,
         \A w \in Wallets :
           \/ rows'[mint][w] = rows[mint][w]
           \/ rows'[mint][w] \in Sure /\ rows[mint][w] \in Sure,
         \A w \in Wallets :
           rows'[mint][w] = "pending" /\ w \notin Range(bot'.left)
             <=> rows[mint][w] = "pending" /\ w \notin Range(bot.left)
  PROVE  AllKnown' /\ CutOff'
<1>1. Working /\ mint \in Mints
  BY WhileSending DEF Working
<1>2. AllKnown'
  <2>1. \A w \in Eligible(mint) : w \in Wallets /\ rows[mint][w] # "none"
    BY <1>1, EligibleFinite DEF Through, Progress, AllKnown
  <2>2. \A w \in Eligible(mint) : rows'[mint][w] # "none"
    BY <2>1 DEF Sure
  <2> QED
    BY <2>2 DEF AllKnown, Eligible
<1>3. Cut' = Cut
  BY DEF Cut, With
<1>4. Read' = Read
  BY <1>3 DEF Read
<1>5. \A m, w : usdc_amount(m, w)' = usdc_amount(m, w)
  BY DEF usdc_amount, totalPoints, Eligible
<1> QED
  BY <1>1, <1>2, <1>3, <1>4, <1>5 DEF Through, Progress, CutOff

LEMMA SettledRows ==
  ASSUME IInv, mint \in Mints
  PROVE  /\ Settled \in SUBSET Eligible(mint) /\ IsFiniteSet(Settled)
         /\ Cardinality(Settled) \in Nat /\ Amount(mint, Settled) \in Nat
<1>1. PICK m \in Mints : m = mint
  OBVIOUS
<1>2. PICK ws : ws = Settled
  OBVIOUS
<1>3. "confirmed" \in Sure
  BY DEF Sure
<1>4. ws \in SUBSET Eligible(m)
  BY <1>1, <1>2, <1>3, SureRows DEF Settled
<1>5. IsFiniteSet(ws)
  BY <1>4, EligibleFinite, FS_Subset
<1> QED
  BY <1>1, <1>2, <1>4, <1>5, FS_CardinalityType, AmountNat

\* Nothing is counted, and at most rows are taken back.
LEMMA TallyKept ==
  ASSUME IInv, Through, bot.pc \in Sending, mint' = mint,
         bot'.paid = bot.paid, bot'.distributed = bot.distributed,
         Settled' \in SUBSET Settled,
         faults' = 0 => faults = 0 /\ Settled' = Settled
  PROVE  Tally'
<1>1. Working /\ mint \in Mints
  BY WhileSending DEF Working
<1>2. PICK m \in Mints : m = mint
  BY <1>1
<1>3. PICK ws : ws = Settled
  OBVIOUS
<1>4. PICK vs : vs = Settled'
  OBVIOUS
<1>5. ws \in SUBSET Eligible(m) /\ IsFiniteSet(ws) /\ Cardinality(ws) \in Nat
      /\ Amount(m, ws) \in Nat
  BY <1>1, <1>2, <1>3, SettledRows
<1>6. vs \in SUBSET ws
  BY <1>3, <1>4
<1>7. Cardinality(vs) <= Cardinality(ws) /\ Cardinality(vs) \in Nat
  BY <1>5, <1>6, FS_Subset, FS_CardinalityType
<1>8. Amount(m, vs) <= Amount(m, ws)
  BY <1>5, <1>6, AmountLess
<1>9. Amount(m, vs) \in Nat
  BY <1>5, <1>6, AmountNat
<1>10. /\ bot.paid \in Nat /\ bot.distributed \in Nat
       /\ bot.paid >= Cardinality(ws) /\ bot.distributed >= Amount(m, ws)
       /\ faults = 0 => /\ bot.paid = Cardinality(ws)
                        /\ bot.distributed = Amount(m, ws)
  BY <1>1, <1>2, <1>3, BotFields DEF IInv, Through, Progress, Tally
<1>11. /\ bot'.paid >= Cardinality(vs) /\ bot'.distributed >= Amount(m, vs)
       /\ faults' = 0 => /\ bot'.paid = Cardinality(vs)
                         /\ bot'.distributed = Amount(m, vs)
  <2>1. bot'.paid >= Cardinality(vs)
    BY <1>5, <1>7, <1>10
  <2>2. bot'.distributed >= Amount(m, vs)
    BY <1>5, <1>8, <1>9, <1>10
  <2>3. faults' = 0 => vs = ws /\ faults = 0
    BY <1>3, <1>4
  <2> QED
    BY <1>10, <2>1, <2>2, <2>3
<1> QED
  BY <1>2, <1>4, <1>11, AmountFixed DEF Tally

LEMMA DownedKept ==
  ASSUME Through, bot.pc \in Sending, faults' = 0 => faults = 0 /\ Down' = Down
  PROVE  Downed'
<1>1. faults' = 0 => Down' = Down /\ Downed /\ Working /\ faults = 0
  BY DEF Through, Progress, Working
<1> QED
  BY <1>1 DEF Downed

\* The parts of what is to be shown of a step.
LEMMA SendingThrough ==
  ASSUME bot'.pc \in Sending \cup {"final"}, Untouched', CompletedIsThrough',
         NoneExpired', AllKnown', CutOff', Tally', Downed', ChunkRows'
  PROVE  Through'
<1>1. OnInsert'
  BY DEF OnInsert, Sending
<1> QED
  BY <1>1 DEF Through, Progress

LEMMA GoesCounts ==
  ASSUME Types, NEW pc, Goes(pc)
  PROVE  bot'.paid = bot.paid /\ bot'.distributed = bot.distributed
  BY BotFields DEF BotType, Goes

\* A chunk none of whose rows has been recorded is in no set yet.
LEMMA ChunkPending ==
  ASSUME IInv, Through, bot.pc \in {"send", "confirm"}
  PROVE  \A w \in Range(Chunk) : rows[mint][w] = "pending"
<1>1. bot.pc \in Sending
  BY DEF Sending
<1>2. \A i \in 1..Size : rows[mint][bot.left[i]] = "pending"
  <2>1. CASE bot.pc = "send"
    BY <1>1, <2>1, WhileSending DEF Free
  <2>2. CASE bot.pc = "confirm"
    BY <1>1, <2>2 DEF Through, Progress, ChunkRows
  <2> QED
    BY <2>1, <2>2
<1> QED
  BY <1>1, <1>2, WhileSending

LEMMA SendThrough ==
  ASSUME IInv, Through, Send
  PROVE  Through'
<1>1. bot.pc = "send" /\ bot.pc \in Sending
      /\ UNCHANGED <<tables, received, balance, refused>>
  BY DEF Send, Sending
<1>2. /\ \/ /\ Goes("failed")
            /\ Range(Chunk) \cap OffCurve # {} \/ faults' # 0
         \/ bot' = [bot EXCEPT !.pc = "confirm", !.tx = Range(Chunk)]
      /\ faults' = 0 => faults = 0
  BY FailsCounts DEF IInv, Send, Request
<1>3. /\ bot'.pc \in {"failed", "confirm"} /\ bot'.mint = mint
      /\ bot'.left = bot.left
      /\ bot'.pc = "failed" =>
           /\ bot'.row = 0
           /\ Range(Chunk) \cap OffCurve # {} \/ faults' # 0
      /\ bot'.paid = bot.paid /\ bot'.distributed = bot.distributed
  <2>1. CASE /\ Goes("failed")
             /\ Range(Chunk) \cap OffCurve # {} \/ faults' # 0
    <3>1. "failed" \in PCs
      BY DEF PCs
    <3> QED
      BY <2>1, <3>1, GoesType, GoesCounts DEF IInv
  <2>2. CASE bot' = [bot EXCEPT !.pc = "confirm", !.tx = Range(Chunk)]
    BY <2>2, BotFields DEF IInv, BotType, mint
  <2> QED
    BY <1>2, <2>1, <2>2
<1>4. /\ mint' = mint /\ Chunk' = Chunk /\ Size' = Size /\ rows' = rows
      /\ \A m, s : With(m, s)' = With(m, s)
  BY <1>1, <1>3 DEF mint, Chunk, Size, With, tables
<1>5. \A w \in Range(Chunk) : rows[mint][w] = "pending"
  BY <1>1, ChunkPending
<1>6. AllKnown' /\ CutOff'
  BY <1>1, <1>3, <1>4, CutKept
<1>7. Tally'
  <2>1. Settled' = Settled
    BY <1>1, <1>3, <1>4, <1>5 DEF Settled, With
  <2> QED
    BY <1>1, <1>2, <1>3, <1>4, <2>1, TallyKept
<1>8. Downed'
  <2>1. CASE bot'.pc = "confirm"
    <3>1. Down' = Down
      BY <1>1, <1>4, <2>1 DEF Down
    <3> QED
      BY <1>1, <1>2, <3>1, DownedKept
  <2>2. CASE bot'.pc = "failed"
    <3>1. SUFFICES ASSUME faults' = 0 PROVE Downed'
      BY DEF Downed
    <3>2. PICK D, C, E : D = With(mint, "failed") /\ C = Range(Chunk)
                         /\ E = D \cup C
      OBVIOUS
    <3>3. Down = D /\ Down' = E
      BY <1>1, <1>4, <2>2, <3>2 DEF Down
    <3>4. D \cap C = {} /\ D \in SUBSET Wallets /\ C \in SUBSET Wallets
      BY <1>1, <1>5, <3>2, WhileSending DEF With
    <3>5. PICK v \in Wallets : v \in C \cap OffCurve
      BY <1>2, <1>3, <2>2, <3>1, <3>2, <3>4
    <3>6. PICK d \in Nat, c \in Nat, o \in Nat, p \in Nat, T \in Nat :
            /\ d = Cardinality(D) /\ c = Cardinality(C)
            /\ o = Cardinality(D \cap OffCurve)
            /\ p = Cardinality(E \cap OffCurve) /\ T = TRANSFERS_PER_TX
      <4>1. D \cap OffCurve \in SUBSET Wallets /\ E \cap OffCurve \in SUBSET Wallets
        BY <3>2, <3>4
      <4> QED
        BY <3>4, <4>1, PartIsFinite, ConstantTypes
    <3>7. d <= T * o
      BY <1>1, <1>2, <3>1, <3>3, <3>6
      DEF Through, Progress, Downed, Working
    <3>8. Cardinality(E) = d + c
      <4>1. IsFiniteSet(D) /\ IsFiniteSet(C) /\ Cardinality({}) = 0
        BY <3>4, PartIsFinite, FS_EmptySet
      <4> QED
        <5>1. Cardinality(D \cup C)
                = Cardinality(D) + Cardinality(C) - Cardinality(D \cap C)
          BY <4>1, FS_Union
        <5>2. Cardinality(D \cap C) = 0
          BY <3>4, <4>1
        <5> QED
          BY <3>2, <3>6, <5>1, <5>2
    <3>9. c <= T
      <4>1. c <= Size
        <5>1. PICK n \in Nat : n = Size /\ n = Len(Chunk)
          BY <1>1, WhileSending
        <5>2. Chunk \in Surjection(1..n, C)
          <6>1. /\ \A i \in 1..n : Chunk[i] \in C
                /\ \A w \in C : \E i \in 1..n : Chunk[i] = w
            BY <1>1, <3>2, <5>1, WhileSending
          <6>2. Chunk \in [1..n -> C]
            <7>1. bot.left \in Seq(Wallets) /\ n \in 1..Len(bot.left)
              BY <1>1, <5>1, WhileSending
            <7>2. Chunk = SubSeq(bot.left, 1, n)
              BY <5>1 DEF Chunk, Size
            <7>3. PICK c1 : c1 = SubSeq(bot.left, 1, n)
              OBVIOUS
            <7>4. c1 \in Seq(Wallets) /\ Len(c1) = n
              BY <7>1, <7>3, Prefix
            <7>5. c1 = Chunk
              BY <7>2, <7>3
            <7>6. c1 \in [1..n -> Wallets]
              BY <7>4
            <7> QED
              BY <6>1, <7>5, <7>6
          <6> QED
            BY <6>1, <6>2 DEF Surjection
        <5>3. IsFiniteSet(1..n) /\ Cardinality(1..n) = n
          BY FS_Interval
        <5> QED
          BY <3>6, <5>1, <5>2, <5>3, FS_Surjection
      <4>2. Size <= T /\ Size \in Nat
        <5>1. Len(bot.left) \in Nat /\ Size \in Nat
          BY <1>1, WhileSending
        <5> QED
          BY <3>6, <5>1, MinOfTwo, SMTT(30) DEF Size
      <4> QED
        BY <4>1, <4>2
    <3>10. p >= o + 1
      <4>1. PICK O : O = D \cap OffCurve
        OBVIOUS
      <4>2. PICK O1 : O1 = O \cup {v}
        OBVIOUS
      <4>3. v \notin O /\ O \in SUBSET Wallets
        BY <3>4, <3>5, <4>1
      <4>4. Cardinality(O1) = o + 1
        BY <3>6, <4>1, <4>2, <4>3, PartIsFinite, FS_AddElement
      <4>5. O1 \in SUBSET (E \cap OffCurve) /\ E \cap OffCurve \in SUBSET Wallets
        BY <3>2, <3>4, <3>5, <4>1, <4>2
      <4> QED
        BY <3>6, <4>4, <4>5, PartIsFinite, FS_Subset
    <3>11. T * o + T <= T * p
      <4>1. PICK k \in Nat : p = o + 1 + k
        <5>1. p - (o + 1) \in Nat /\ p = o + 1 + (p - (o + 1))
          BY <3>10
        <5> QED
          BY <5>1
      <4>2. T * (o + 1 + k) = T * o + T + T * k /\ T * k \in Nat
        OBVIOUS
      <4>3. T * o \in Nat
        OBVIOUS
      <4> QED
        BY <4>1, <4>2, <4>3
    <3>12. d + c <= T * p
      <4>1. T * o \in Nat /\ T * p \in Nat
        OBVIOUS
      <4> QED
        BY <3>7, <3>9, <3>11, <4>1
    <3> QED
      BY <3>3, <3>6, <3>8, <3>12 DEF Downed
  <2> QED
    BY <1>3, <2>1, <2>2
<1>9. ChunkRows'
  <2>1. \A i \in 1..Size : rows[mint][bot.left[i]] = "pending"
    BY <1>1, <1>5, WhileSending
  <2> QED
    BY <1>3, <1>4, <2>1 DEF ChunkRows
<1>10. NoneExpired'
  <2>1. txs' = txs \/ \E t : t.result = "sent" /\ txs' \subseteq txs \cup {t}
    BY DEF Send, Request
  <2> QED
    BY <1>2, <2>1 DEF Through, NoneExpired
<1>11. Untouched' /\ CompletedIsThrough'
  BY <1>1, <1>2, TablesStay
<1>12. bot'.pc \in Sending
  BY <1>3 DEF Sending
<1> QED
  BY <1>6, <1>7, <1>8, <1>9, <1>10, <1>11, <1>12, SendingThrough
LEMMA ConfirmThrough ==
  ASSUME IInv, Through, Confirm
  PROVE  Through'
<1>1. bot.pc = "confirm" /\ bot.pc \in Sending /\ UNCHANGED <<tables, chain>>
  BY DEF Confirm, Sending
<1>2. /\ Goes("record") \/ Goes("failed")
      /\ faults' = 0 => faults = 0
      /\ Goes("failed") => Tx("expired") \in txs \/ faults' # 0 \/ Goes("record")
  BY FailsCounts DEF IInv, Confirm
<1>3. /\ bot'.pc \in {"record", "failed"} /\ bot'.row = 0 /\ bot'.mint = mint
      /\ bot'.left = bot.left
      /\ bot'.paid = bot.paid /\ bot'.distributed = bot.distributed
      /\ faults' = 0 => bot'.pc = "record"
  <2>1. "record" \in PCs /\ "failed" \in PCs
    BY DEF PCs
  <2>2. Tx("expired") \in txs => faults # 0
    <3>1. Tx("expired").result = "expired"
      BY DEF Tx
    <3> QED
      BY <3>1 DEF Through, NoneExpired
  <2>3. CASE Goes("record")
    BY <2>1, <2>3, GoesType, GoesCounts DEF IInv
  <2>4. CASE Goes("failed") /\ ~Goes("record")
    BY <1>2, <2>1, <2>2, <2>4, GoesType, GoesCounts DEF IInv
  <2> QED
    BY <1>2, <2>3, <2>4
<1>4. /\ mint' = mint /\ Chunk' = Chunk /\ Size' = Size /\ rows' = rows
      /\ \A m, s : With(m, s)' = With(m, s)
  BY <1>1, <1>3 DEF mint, Chunk, Size, With, tables
<1>5. \A w \in Range(Chunk) : rows[mint][w] = "pending"
  BY <1>1, ChunkPending
<1>6. AllKnown' /\ CutOff'
  BY <1>1, <1>3, <1>4, CutKept
<1>7. Tally'
  <2>1. Settled' = Settled
    BY <1>1, <1>3, <1>4, <1>5 DEF Settled, With
  <2> QED
    BY <1>1, <1>2, <1>3, <1>4, <2>1, TallyKept
<1>8. Downed'
  <2>1. bot'.pc = "record" => Down' = Down
    BY <1>1, <1>4 DEF Down
  <2> QED
    BY <1>1, <1>2, <1>3, <2>1, DownedKept
<1>9. ChunkRows'
  <2>1. \A i \in 1..Size : rows[mint][bot.left[i]] = "pending" /\ ~(i <= 0)
    <3>1. Size \in Nat /\ \A i \in 1..Size : ~(i <= 0)
      BY <1>1, WhileSending
    <3> QED
      BY <1>1, <1>5, <3>1, WhileSending
  <2> QED
    BY <1>3, <1>4, <2>1 DEF ChunkRows
<1>10. NoneExpired'
  BY <1>1, <1>2 DEF Through, NoneExpired, chain
<1>11. Untouched' /\ CompletedIsThrough'
  BY <1>1, <1>2, TablesStay
<1>12. bot'.pc \in Sending
  BY <1>3 DEF Sending
<1> QED
  BY <1>6, <1>7, <1>8, <1>9, <1>10, <1>11, <1>12, SendingThrough

\* The row of the chunk that is written.
LEMMA TheRow ==
  ASSUME IInv, bot.pc \in {"record", "failed"}, NEW status \in Sure,
         RowTo(status)
  PROVE  \E v \in Wallets :
           /\ v = bot.left[bot.row + 1] /\ v = Chunk[bot.row + 1]
           /\ v \in Range(Chunk) /\ v \in Range(bot.left)
           /\ rows[mint][v] \in Sure
           /\ \A w \in Wallets :
                rows'[mint][w] = IF w = v THEN status ELSE rows[mint][w]
           /\ \A m \in Mints \ {mint} : rows'[m] = rows[m]
           /\ \A i \in 1..Size : bot.left[i] = v => i = bot.row + 1
<1>1. bot.pc \in Sending /\ bot.row \in Nat /\ bot.row < Size
  BY BotFields DEF IInv, BotOK, OnTx, Sending
<1>2. PICK n \in 1..Size : n = bot.row + 1
  BY <1>1, WhileSending
<1>3. n \in DOMAIN bot.left /\ \A i \in 1..Size : i \in DOMAIN bot.left
  BY <1>1, <1>2, WhileSending
<1>4. PICK v \in Wallets : v = bot.left[n] /\ v = Chunk[bot.row + 1]
                           /\ v \in Range(Chunk) /\ v \in Range(bot.left)
                           /\ rows[mint][v] \in Sure
  BY <1>1, <1>2, <1>3, WhileSending DEF Range
<1>5. status \in Statuses
  BY DEF Statuses, Sure
<1>6. /\ \A w \in Wallets :
           rows'[mint][w] = IF w = v THEN status ELSE rows[mint][w]
      /\ \A m \in Mints \ {mint} : rows'[m] = rows[m]
  <2>1. rows' = [rows EXCEPT ![mint][v] = status]
    BY <1>4 DEF RowTo
  <2> QED
    BY <1>1, <1>4, <1>5, <2>1, WhileSending DEF IInv, Types
<1>7. \A i \in 1..Size : bot.left[i] = v => i = n
  BY <1>1, <1>3, <1>4, WhileSending
<1> QED
  BY <1>2, <1>4, <1>6, <1>7

LEMMA RecordRowThrough ==
  ASSUME IInv, Through, RecordRow
  PROVE  Through'
<1> DEFINE amount == usdc_amount(mint, Chunk[bot.row + 1])
<1>1. /\ bot.pc = "record" /\ bot.pc \in Sending
      /\ UNCHANGED <<batch, chain>> /\ (faults' = 0 => faults = 0)
  BY FailsCounts DEF IInv, RecordRow, Request, Sending
<1>2. /\ mint \in Mints /\ batch[mint].status # "completed" /\ Begun(mint)
      /\ bot.row \in Nat /\ bot.row < Size /\ Size \in Nat /\ Len(Chunk) = Size
  BY <1>1, WhileSending, BotFields DEF IInv, BotOK, OnTx
<1>3. NoneExpired'
  BY <1>1 DEF Through, NoneExpired, chain
<1>4. \A i \in 1..Size : rows[mint][bot.left[i]] =
                           IF i <= bot.row THEN "confirmed" ELSE "pending"
  BY <1>1 DEF Through, Progress, ChunkRows
<1>5. ASSUME UNCHANGED rows, Goes("failed"), faults' # 0
      PROVE  Through'
  <2>1. "failed" \in PCs
    BY DEF PCs
  <2>2. /\ bot'.pc = "failed" /\ bot'.row = 0 /\ bot'.mint = mint
        /\ bot'.left = bot.left
        /\ bot'.paid = bot.paid /\ bot'.distributed = bot.distributed
    BY <1>5, <2>1, GoesType, GoesCounts DEF IInv
  <2>3. mint' = mint /\ Chunk' = Chunk /\ Size' = Size
        /\ \A m, s : With(m, s)' = With(m, s)
    BY <1>5, <2>2 DEF mint, Chunk, Size, With
  <2>4. AllKnown' /\ CutOff'
    BY <1>1, <1>5, <2>2, <2>3, CutKept
  <2>5. Tally'
    <3>1. Settled' \in SUBSET Settled
      BY <1>1, <2>2, <2>3 DEF Settled
    <3> QED
      BY <1>1, <1>5, <2>2, <2>3, <3>1, TallyKept
  <2>6. Downed'
    BY <1>5 DEF Downed
  <2>7. ChunkRows'
    <3>1. \A i \in 1..Size : ~(i <= 0)
      BY <1>2
    <3> QED
      BY <2>2, <2>3, <3>1 DEF ChunkRows
  <2>8. Untouched' /\ CompletedIsThrough'
    BY <1>1, <1>5, TablesStay DEF tables
  <2>9. bot'.pc \in Sending
    BY <2>2 DEF Sending
  <2> QED
    BY <1>3, <2>4, <2>5, <2>6, <2>7, <2>8, <2>9, SendingThrough
<1>6. ASSUME RowTo("confirmed")
      PROVE  Through'
  <2>0. "confirmed" \in Sure /\ "confirmed" \in {"confirmed", "failed"}
    BY DEF Sure
  <2>1. PICK v \in Wallets :
           /\ v = bot.left[bot.row + 1] /\ v = Chunk[bot.row + 1]
           /\ v \in Range(Chunk) /\ v \in Range(bot.left)
           /\ rows[mint][v] \in Sure
           /\ \A w \in Wallets :
                rows'[mint][w] = IF w = v THEN "confirmed" ELSE rows[mint][w]
           /\ \A m \in Mints \ {mint} : rows'[m] = rows[m]
           /\ \A i \in 1..Size : bot.left[i] = v => i = bot.row + 1
    BY <1>1, <1>6, <2>0, TheRow
  <2>2. rows[mint][v] = "pending"
    <3>1. PICK n \in 1..Size : n = bot.row + 1
      BY <1>2
    <3>2. v = bot.left[n]
      BY <2>1, <3>1
    <3>3. ~(n <= bot.row)
      BY <1>2, <3>1
    <3> QED
      BY <1>4, <3>1, <3>2, <3>3
  <2>3. /\ With(mint, "confirmed")' = With(mint, "confirmed") \cup {v}
           \/ mint' # mint
        /\ With(mint, "failed")' = With(mint, "failed") \/ mint' # mint
        /\ v \notin With(mint, "confirmed")
    BY <2>1, <2>2 DEF With
  <2>4. Untouched' /\ CompletedIsThrough'
    <3>1. \A m \in Mints : m = mint => Begun(m)'
      BY <1>1, <1>6, <2>0, RowToKeeps
    <3>2. batch' = batch
      BY <1>1
    <3>3. Untouched'
      BY <2>1, <3>1, <3>2, UntouchedStay DEF Through
    <3>4. CompletedIsThrough'
      BY <1>1, <1>2, <2>1, <3>2, CompletedStay DEF Through
    <3> QED
      BY <3>3, <3>4
  <2>5. ASSUME mint' = mint, bot'.left = bot.left
        PROVE  AllKnown' /\ CutOff'
    <3>1. \A w \in Wallets :
            \/ rows'[mint][w] = rows[mint][w]
            \/ rows'[mint][w] \in Sure /\ rows[mint][w] \in Sure
      BY <2>0, <2>1
    <3>2. \A w \in Wallets :
            rows'[mint][w] = "pending" /\ w \notin Range(bot'.left)
              <=> rows[mint][w] = "pending" /\ w \notin Range(bot.left)
      BY <2>1, <2>5
    <3> QED
      BY <1>1, <2>5, <3>1, <3>2, CutKept
  <2>6. CASE Goes("failed") /\ faults' # 0
    <3>1. "failed" \in PCs
      BY DEF PCs
    <3>2. /\ bot'.pc = "failed" /\ bot'.row = 0 /\ bot'.mint = mint
          /\ bot'.left = bot.left
          /\ bot'.paid = bot.paid /\ bot'.distributed = bot.distributed
      BY <2>6, <3>1, GoesType, GoesCounts DEF IInv
    <3>3. mint' = mint /\ Chunk' = Chunk /\ Size' = Size
      BY <3>2 DEF mint, Chunk, Size
    <3>4. Tally'
      <4>1. Settled' \in SUBSET Settled
        BY <1>1, <2>1, <2>3, <3>2, <3>3 DEF Settled
      <4> QED
        BY <1>1, <2>6, <3>2, <3>3, <4>1, TallyKept
    <3>5. Downed'
      BY <2>6 DEF Downed
    <3>6. ChunkRows'
      <4>1. \A i \in 1..Size : ~(i <= 0)
        BY <1>2
      <4> QED
        BY <3>2, <3>3, <4>1 DEF ChunkRows
    <3>7. bot'.pc \in Sending
      BY <3>2 DEF Sending
    <3> QED
      BY <1>3, <2>4, <2>5, <3>2, <3>3, <3>4, <3>5, <3>6, <3>7, SendingThrough
  <2>7. CASE /\ bot' = [bot EXCEPT
               !.row = @ + 1, !.paid = @ + 1, !.distributed = @ + amount,
               !.pc = IF bot.row + 1 = Len(Chunk) THEN "progress" ELSE @]
             /\ UNCHANGED faults
    <3>1. PICK pc \in {"record", "progress"} :
            pc = (IF bot.row + 1 = Len(Chunk) THEN "progress" ELSE bot.pc)
      BY <1>1
    <3>2. v \in Eligible(mint)
      BY <1>2, <2>1 DEF IInv, RowsOK
    <3>3. PICK a \in Nat : a = usdc_amount(mint, v)
      BY <1>2, <3>2, AmountOfShare
    <3>4. /\ bot'.pc = pc /\ bot'.row = bot.row + 1 /\ bot'.mint = mint
          /\ bot'.left = bot.left
          /\ bot'.paid = bot.paid + 1 /\ bot'.distributed = bot.distributed + a
      <4>1. bot' = [bot EXCEPT !.row = @ + 1, !.paid = @ + 1,
                               !.distributed = @ + a, !.pc = pc]
        BY <2>1, <2>7, <3>1, <3>3
      <4> QED
        BY <4>1, BotFields DEF IInv, BotType, mint
    <3>5. mint' = mint /\ Chunk' = Chunk /\ Size' = Size
      BY <3>4 DEF mint, Chunk, Size
    <3>6. Settled' = Settled \cup {v} /\ v \notin Settled
      BY <1>1, <2>3, <3>1, <3>4, <3>5 DEF Settled
    <3>7. Tally'
      <4>1. Working
        BY <1>1 DEF Working
      <4>2. PICK m \in Mints : m = mint
        BY <1>2
      <4>3. PICK ws : ws = Settled
        OBVIOUS
      <4>4. PICK vs : vs = Settled'
        OBVIOUS
      <4>5. ws \in SUBSET Eligible(m) /\ IsFiniteSet(ws) /\ Cardinality(ws) \in Nat
            /\ Amount(m, ws) \in Nat
        BY <1>2, <4>2, <4>3, SettledRows
      <4>6. vs = ws \cup {v} /\ v \in Eligible(m) \ ws
        BY <3>2, <3>6, <4>2, <4>3, <4>4
      <4>7. Cardinality(vs) = Cardinality(ws) + 1
        BY <4>5, <4>6, FS_AddElement
      <4>8. Amount(m, vs) = Amount(m, ws) + a
        BY <3>3, <4>2, <4>5, <4>6, AmountAdds
      <4>9. /\ bot.paid \in Nat /\ bot.distributed \in Nat
            /\ bot.paid >= Cardinality(ws) /\ bot.distributed >= Amount(m, ws)
            /\ faults = 0 => /\ bot.paid = Cardinality(ws)
                             /\ bot.distributed = Amount(m, ws)
        BY <4>1, <4>2, <4>3, BotFields DEF IInv, Through, Progress, Tally
      <4>10. /\ bot'.paid >= Cardinality(vs) /\ bot'.distributed >= Amount(m, vs)
             /\ faults' = 0 => /\ bot'.paid = Cardinality(vs)
                               /\ bot'.distributed = Amount(m, vs)
        BY <1>1, <3>4, <4>5, <4>7, <4>8, <4>9
      <4> QED
        BY <3>5, <4>2, <4>4, <4>10, AmountFixed DEF Tally
    <3>8. Downed'
      <4>1. Down' = Down
        BY <1>1, <2>3, <3>1, <3>4, <3>5 DEF Down
      <4> QED
        BY <1>1, <4>1, DownedKept
    <3>9. ChunkRows'
      <4>1. \A i \in 1..Size : rows'[mint][bot.left[i]] =
              IF i <= bot.row + 1 THEN "confirmed" ELSE "pending"
        <5> SUFFICES ASSUME NEW i \in 1..Size
                     PROVE  rows'[mint][bot.left[i]] =
                       IF i <= bot.row + 1 THEN "confirmed" ELSE "pending"
          OBVIOUS
        <5>1. bot.left[i] \in Wallets /\ i \in Nat
          BY <1>1, <1>2, WhileSending
        <5>2. CASE i = bot.row + 1
          <6>1. bot.left[i] = v
            BY <2>1, <5>2
          <6>2. rows'[mint][v] = "confirmed"
            BY <2>1
          <6>3. i <= bot.row + 1
            BY <1>2, <5>1, <5>2
          <6> QED
            BY <6>1, <6>2, <6>3
        <5>3. CASE i # bot.row + 1
          BY <1>2, <1>4, <2>1, <5>1, <5>3
        <5> QED
          BY <5>2, <5>3
      <4>2. pc = "progress" => \A i \in 1..Size : i <= bot.row + 1
        BY <1>1, <1>2, <3>1
      <4> QED
        BY <3>1, <3>4, <3>5, <4>1, <4>2 DEF ChunkRows
    <3>10. bot'.pc \in Sending
      BY <3>1, <3>4 DEF Sending
    <3> QED
      BY <1>3, <2>4, <2>5, <3>4, <3>5, <3>7, <3>8, <3>9, <3>10, SendingThrough
  <2> QED
    BY <1>6, <2>6, <2>7, FailsCounts DEF IInv, RecordRow, Request, RowTo
<1> QED
  BY <1>5, <1>6, FailsCounts DEF IInv, RecordRow, Request
\* After the chunk: what is left is what was left but for the chunk.
LEMMA LeftAfter ==
  ASSUME IInv, bot.pc \in {"progress", "failed"}, bot' = NextChunk(bot)
  PROVE  /\ bot'.pc \in {"send", "final"} /\ bot'.mint = mint /\ mint' = mint
         /\ bot'.pc = "final" => bot'.left = <<>>
         /\ bot'.paid = bot.paid /\ bot'.distributed = bot.distributed
         /\ Range(bot.left) = Range(Chunk) \cup Range(bot'.left)
<1>1. bot.pc \in Sending
  BY DEF Sending
<1>2. PICK l \in Seq(Wallets) : l = bot.left
  BY <1>1, WhileSending
<1>3. PICK k \in 1..Len(l) : k = Size
  BY <1>1, <1>2, WhileSending
<1>4. PICK r : r = SubSeq(l, k + 1, Len(l))
  OBVIOUS
<1>5. /\ r \in Seq(Wallets) /\ DOMAIN r = 1 .. Len(l) - k
      /\ \A i \in 1 .. Len(l) - k : r[i] = l[k + i]
  BY <1>4, <1>2, <1>3, Suffix
<1>6. PICK pc \in {"final", "send"} :
        pc = IF r = <<>> THEN "final" ELSE "send"
  OBVIOUS
<1>7. bot' = [bot EXCEPT !.pc = pc, !.left = r, !.tx = {}, !.row = 0]
  BY <1>1, <1>2, <1>3, <1>4, <1>6, WhileSending DEF NextChunk
<1>8. /\ bot'.pc = pc /\ bot'.mint = mint /\ mint' = mint /\ bot'.left = r
      /\ bot'.paid = bot.paid /\ bot'.distributed = bot.distributed
  BY <1>7, BotFields DEF IInv, BotType, mint
<1>9. Range(l) = Range(Chunk) \cup Range(r)
  <2>1. Range(Chunk) = {l[i] : i \in 1..k}
    BY <1>1, <1>2, <1>3, WhileSending
  <2>2. DOMAIN l = 1..Len(l) /\ Len(l) \in Nat
    BY <1>2
  <2>3. Range(l) = {l[i] : i \in 1..Len(l)}
    BY <2>2 DEF Range
  <2>4. Range(r) = {l[k + i] : i \in 1 .. Len(l) - k}
    BY <1>5 DEF Range
  <2>5. \A i \in 1..Len(l) : i \in 1..k \/ (i - k \in 1 .. Len(l) - k
                                             /\ k + (i - k) = i)
    BY <1>3, <2>2
  <2>6. \A i \in 1..k : i \in 1..Len(l)
    BY <1>3, <2>2
  <2>7. \A i \in 1 .. Len(l) - k : k + i \in 1..Len(l)
    BY <1>3, <2>2
  <2>8. Range(l) \subseteq Range(Chunk) \cup Range(r)
    <3> SUFFICES ASSUME NEW i \in 1..Len(l), i \notin 1..k
                 PROVE  l[i] \in Range(r)
      BY <2>1, <2>3
    <3>1. PICK j \in 1 .. Len(l) - k : k + j = i
      BY <2>5
    <3> QED
      BY <2>4, <3>1
  <2>9. Range(Chunk) \cup Range(r) \subseteq Range(l)
    BY <2>1, <2>3, <2>4, <2>6, <2>7
  <2> QED
    BY <2>8, <2>9
<1> QED
  BY <1>2, <1>6, <1>8, <1>9

\* The next transaction, when no row of the chunk is pending any more.
LEMMA NextChunkThrough ==
  ASSUME IInv, Through, bot.pc \in {"progress", "failed"},
         bot' = NextChunk(bot), faults' = 0 => faults = 0,
         Untouched', CompletedIsThrough', NoneExpired',
         \A w \in Wallets :
           \/ rows'[mint][w] = rows[mint][w]
           \/ /\ w \in Range(Chunk)
              /\ rows'[mint][w] \in Sure /\ rows[mint][w] \in Sure,
         \A w \in Range(Chunk) : rows'[mint][w] # "pending",
         With(mint, "confirmed")' = Settled, With(mint, "failed")' = Down
  PROVE  Through'
<1>1. bot.pc \in Sending
  BY DEF Sending
<1>2. /\ bot'.pc \in {"send", "final"} /\ bot'.mint = mint /\ mint' = mint
      /\ bot'.pc = "final" => bot'.left = <<>>
      /\ bot'.paid = bot.paid /\ bot'.distributed = bot.distributed
      /\ Range(bot.left) = Range(Chunk) \cup Range(bot'.left)
  BY LeftAfter
<1>3. AllKnown' /\ CutOff'
  <2>1. \A w \in Wallets :
          rows'[mint][w] = "pending" /\ w \notin Range(bot'.left)
            <=> rows[mint][w] = "pending" /\ w \notin Range(bot.left)
    <3> SUFFICES ASSUME NEW w \in Wallets
                 PROVE rows'[mint][w] = "pending" /\ w \notin Range(bot'.left)
                   <=> rows[mint][w] = "pending" /\ w \notin Range(bot.left)
      OBVIOUS
    <3>1. CASE w \in Range(Chunk)
      BY <1>2, <3>1
    <3>2. CASE w \notin Range(Chunk)
      BY <1>2, <3>2
    <3> QED
      BY <3>1, <3>2
  <2> QED
    BY <1>1, <1>2, <2>1, CutKept
<1>4. Settled' = Settled /\ Down' = Down
  BY <1>2 DEF Settled, Down
<1>5. Tally'
  BY <1>1, <1>2, <1>4, TallyKept
<1>6. Downed'
  BY <1>1, <1>4, DownedKept
<1>7. ChunkRows'
  BY <1>2 DEF ChunkRows
<1>8. bot'.pc \in Sending \cup {"final"}
  BY <1>2 DEF Sending
<1> QED
  BY <1>3, <1>5, <1>6, <1>7, <1>8, SendingThrough

LEMMA RecordProgressThrough ==
  ASSUME IInv, Through, RecordProgress
  PROVE  Through'
<1>1. /\ bot.pc = "progress" /\ bot.pc \in Sending
      /\ UNCHANGED <<rows, chain>> /\ (faults' = 0 => faults = 0)
  BY FailsCounts DEF IInv, RecordProgress, Request, Sending
<1>2. /\ mint \in Mints /\ batch[mint].status # "completed" /\ Begun(mint)
      /\ Size \in Nat
  BY <1>1, WhileSending
<1>3. NoneExpired'
  BY <1>1 DEF Through, NoneExpired, chain
<1>4. \A w \in Range(Chunk) : rows[mint][w] = "confirmed"
  <2>1. \A i \in 1..Size : rows[mint][bot.left[i]] = "confirmed"
    BY <1>1 DEF Through, Progress, ChunkRows
  <2> QED
    BY <1>1, <2>1, WhileSending
<1>5. Untouched' /\ CompletedIsThrough'
  <2>1. \A m \in Mints : m # mint => batch'[m] = batch[m]
    BY DEF RecordProgress, Request, Counted, IInv, Types
  <2>2. batch'[mint].status # "completed"
    <3>1. batch[mint].status \in {"none", "distributing", "pending", "completed"}
      BY <1>2 DEF IInv, Types
    <3> QED
      BY <1>2, <3>1, CountedType DEF RecordProgress, Request
  <2>3. \A m \in Mints : m = mint => Begun(m)'
    BY <1>1, <1>2 DEF Begun, Eligible
  <2>4. CompletedIsThrough'
    BY <1>1, <2>1, <2>2, CompletedStay DEF Through
  <2>5. Untouched'
    BY <1>1, <2>1, <2>3, UntouchedStay DEF Through
  <2> QED
    BY <2>4, <2>5
<1>6. CASE bot' = NextChunk(bot)
  <2>1. mint' = mint
    BY <1>1, <1>6, LeftAfter
  <2>2. /\ With(mint, "confirmed")' = Settled
        /\ With(mint, "failed")' = Down
    BY <1>1, <2>1 DEF Settled, Down, With
  <2>3. /\ \A w \in Wallets : rows'[mint][w] = rows[mint][w]
        /\ \A w \in Range(Chunk) : rows'[mint][w] # "pending"
    BY <1>1, <1>4
  <2> QED
    BY <1>1, <1>3, <1>5, <1>6, <2>2, <2>3, NextChunkThrough
<1>7. CASE Goes("failed") /\ faults' # 0
  <2>1. "failed" \in PCs
    BY DEF PCs
  <2>2. /\ bot'.pc = "failed" /\ bot'.row = 0 /\ bot'.mint = mint
        /\ bot'.left = bot.left
        /\ bot'.paid = bot.paid /\ bot'.distributed = bot.distributed
    BY <1>7, <2>1, GoesType, GoesCounts DEF IInv
  <2>3. mint' = mint /\ Chunk' = Chunk /\ Size' = Size
        /\ \A m, s : With(m, s)' = With(m, s)
    BY <1>1, <2>2 DEF mint, Chunk, Size, With
  <2>4. AllKnown' /\ CutOff'
    BY <1>1, <2>2, <2>3, CutKept
  <2>5. Tally'
    <3>1. Settled' \in SUBSET Settled
      BY <1>1, <2>2, <2>3 DEF Settled
    <3> QED
      BY <1>1, <1>7, <2>2, <2>3, <3>1, TallyKept
  <2>6. Downed'
    BY <1>7 DEF Downed
  <2>7. ChunkRows'
    <3>1. \A i \in 1..Size : ~(i <= 0)
      BY <1>2
    <3> QED
      BY <2>2, <2>3, <3>1 DEF ChunkRows
  <2>8. bot'.pc \in Sending
    BY <2>2 DEF Sending
  <2> QED
    BY <1>3, <1>5, <2>4, <2>5, <2>6, <2>7, <2>8, SendingThrough
<1> QED
  BY <1>6, <1>7, FailsCounts DEF IInv, RecordProgress, Request

LEMMA MarkFailedThrough ==
  ASSUME IInv, Through, MarkFailed
  PROVE  Through'
<1>1. /\ bot.pc = "failed" /\ bot.pc \in Sending
      /\ UNCHANGED <<batch, chain>> /\ (faults' = 0 => faults = 0)
  BY FailsCounts DEF IInv, MarkFailed, Request, Sending
<1>2. /\ mint \in Mints /\ batch[mint].status # "completed" /\ Begun(mint)
      /\ bot.row \in Nat /\ bot.row < Size /\ Size \in Nat /\ Len(Chunk) = Size
  BY <1>1, WhileSending, BotFields DEF IInv, BotOK, OnTx
<1>3. NoneExpired'
  BY <1>1 DEF Through, NoneExpired, chain
<1>4. \A i \in 1..Size : i <= bot.row => rows[mint][bot.left[i]] = "failed"
  BY <1>1 DEF Through, Progress, ChunkRows
<1>5. CASE UNCHANGED rows /\ Leaves
  <2>1. UNCHANGED <<tables, chain>>
    BY <1>1, <1>5 DEF tables
  <2> QED
    BY <1>1, <1>5, <2>1, LeavesRest, RestsThrough
<1>6. ASSUME RowTo("failed")
      PROVE  Through'
  <2>0. "failed" \in Sure /\ "failed" \in {"confirmed", "failed"}
        /\ "failed" # "confirmed"
    BY DEF Sure
  <2>1. PICK v \in Wallets :
           /\ v = bot.left[bot.row + 1] /\ v = Chunk[bot.row + 1]
           /\ v \in Range(Chunk) /\ v \in Range(bot.left)
           /\ rows[mint][v] \in Sure
           /\ \A w \in Wallets :
                rows'[mint][w] = IF w = v THEN "failed" ELSE rows[mint][w]
           /\ \A m \in Mints \ {mint} : rows'[m] = rows[m]
           /\ \A i \in 1..Size : bot.left[i] = v => i = bot.row + 1
    BY <1>1, <1>6, <2>0, TheRow
  <2>2. \A i \in 1..Size : i <= bot.row + 1
                             => rows'[mint][bot.left[i]] = "failed"
    <3> SUFFICES ASSUME NEW i \in 1..Size, i <= bot.row + 1
                 PROVE  rows'[mint][bot.left[i]] = "failed"
      OBVIOUS
    <3>1. bot.left[i] \in Wallets /\ i \in Nat
      BY <1>1, <1>2, WhileSending
    <3>2. CASE i = bot.row + 1
      <4>1. bot.left[i] = v
        BY <2>1, <3>2
      <4> QED
        BY <2>1, <4>1
    <3>3. CASE i # bot.row + 1
      <4>1. i <= bot.row
        BY <1>2, <3>1, <3>3
      <4>2. rows[mint][bot.left[i]] = "failed"
        BY <1>4, <4>1
      <4> QED
        BY <2>1, <3>1, <4>2
    <3> QED
      BY <3>2, <3>3
  <2>3. mint' = mint =>
          /\ With(mint, "confirmed")' = With(mint, "confirmed") \ {v}
          /\ With(mint, "failed")' = With(mint, "failed") \cup {v}
    BY <2>0, <2>1 DEF With
  <2>4. Untouched' /\ CompletedIsThrough'
    <3>1. \A m \in Mints : m = mint => Begun(m)'
      BY <1>1, <1>6, <2>0, RowToKeeps
    <3>2. batch' = batch
      BY <1>1
    <3>3. Untouched'
      BY <2>1, <3>1, <3>2, UntouchedStay DEF Through
    <3>4. CompletedIsThrough'
      BY <1>1, <1>2, <2>1, <3>2, CompletedStay DEF Through
    <3> QED
      BY <3>3, <3>4
  <2>5. \A w \in Wallets :
          \/ rows'[mint][w] = rows[mint][w]
          \/ /\ w \in Range(Chunk)
             /\ rows'[mint][w] \in Sure /\ rows[mint][w] \in Sure
    BY <2>0, <2>1
  <2>6. CASE Leaves
    <3>1. Resting'
      BY <2>6, LeavesRest
    <3> QED
      BY <1>3, <2>4, <3>1, Rests DEF Through
  <2>7. CASE bot.row + 1 = Len(Chunk) /\ bot' = NextChunk(bot)
    <3>1. \A w \in Range(Chunk) : rows'[mint][w] = "failed"
      <4>1. \A i \in 1..Size : i <= bot.row + 1
        BY <1>2, <2>7
      <4>2. \A i \in 1..Size : rows'[mint][bot.left[i]] = "failed"
        BY <2>2, <4>1
      <4> QED
        BY <1>1, <4>2, WhileSending
    <3>2. mint' = mint /\ Range(Chunk) \in SUBSET Wallets
      BY <1>1, <2>7, LeftAfter, WhileSending
    <3>3. With(mint, "confirmed")' = Settled
      BY <1>1, <2>0, <2>5, <3>1, <3>2 DEF Settled, With
    <3>4. With(mint, "failed")' = Down
      BY <1>1, <2>0, <2>5, <3>1, <3>2 DEF Down, With
    <3> QED
      BY <1>1, <1>3, <2>4, <2>5, <2>7, <3>1, <3>3, <3>4, NextChunkThrough
  <2>8. CASE bot.row + 1 # Len(Chunk) /\ bot' = [bot EXCEPT !.row = @ + 1]
    <3>1. /\ bot'.pc = "failed" /\ bot'.row = bot.row + 1 /\ bot'.mint = mint
          /\ bot'.left = bot.left
          /\ bot'.paid = bot.paid /\ bot'.distributed = bot.distributed
      BY <1>1, <2>8, BotFields DEF IInv, BotType, mint
    <3>2. mint' = mint /\ Chunk' = Chunk /\ Size' = Size
      BY <3>1 DEF mint, Chunk, Size
    <3>3. Settled' = Settled /\ Down' = Down
      BY <1>1, <2>1, <2>3, <3>1, <3>2 DEF Settled, Down
    <3>4. AllKnown' /\ CutOff'
      <4>1. \A w \in Wallets :
              rows'[mint][w] = "pending" /\ w \notin Range(bot'.left)
                <=> rows[mint][w] = "pending" /\ w \notin Range(bot.left)
        BY <2>1, <3>1
      <4> QED
        BY <1>1, <2>5, <3>2, <4>1, CutKept
    <3>5. Tally'
      BY <1>1, <3>1, <3>2, <3>3, TallyKept
    <3>6. Downed'
      BY <1>1, <3>3, DownedKept
    <3>7. ChunkRows'
      BY <2>2, <3>1, <3>2 DEF ChunkRows
    <3>8. bot'.pc \in Sending
      BY <3>1 DEF Sending
    <3> QED
      BY <1>3, <2>4, <3>4, <3>5, <3>6, <3>7, <3>8, SendingThrough
  <2>9. \/ Leaves
        \/ bot' = IF bot.row + 1 = Len(Chunk) THEN NextChunk(bot)
                  ELSE [bot EXCEPT !.row = @ + 1]
    BY DEF MarkFailed, Request
  <2> QED
    BY <2>6, <2>7, <2>8, <2>9
<1> QED
  BY <1>5, <1>6 DEF MarkFailed, Request
\* The last request says what the batch has come to.
LEMMA FinalizeThrough ==
  ASSUME IInv, Through, Finalize
  PROVE  Through'
<1>1. /\ bot.pc = "final" /\ mint \in Mints /\ Begun(mint)
      /\ UNCHANGED <<rows, chain>>
      /\ Leaves /\ (faults' = 0 => faults = 0)
  BY FailsCounts DEF IInv, BotOK, OnToken, OnRows, Finalize, Request
<1>2. NoneExpired'
  BY <1>1 DEF Through, NoneExpired, chain
<1>3. OnInsert' /\ Progress'
  BY <1>1, LeavesRest, Rests
<1>4. CASE UNCHANGED batch
  <2>1. UNCHANGED <<tables, chain>> /\ Resting'
    BY <1>1, <1>4, LeavesRest DEF tables
  <2> QED
    BY <1>1, <2>1, RestsThrough
<1>5. ASSUME NEW status \in {"pending", "completed"}, Counted(mint, status),
             status = "completed" => bot.left = <<>>
      PROVE  Through'
  <2>1. PICK b : b = [status |-> status, wallets_paid |-> bot.paid,
                      usdc_distributed |-> bot.distributed]
    OBVIOUS
  <2>2. batch' = [batch EXCEPT ![mint] = b]
    BY <1>5, <2>1 DEF Counted
  <2>3. /\ batch'[mint] = b
        /\ \A m \in Mints : m # mint => batch'[m] = batch[m]
    BY <1>1, <2>2 DEF IInv, Types
  <2>4. Untouched'
    <3>1. \A m \in Mints : m = mint => Begun(m)'
      BY <1>1 DEF Begun, Eligible
    <3> QED
      BY <1>1, <2>3, <3>1, UntouchedStay DEF Through
  <2>5. CASE status = "pending"
    <3>1. batch'[mint].status # "completed"
      BY <2>1, <2>3, <2>5
    <3>2. CompletedIsThrough'
      BY <1>1, <2>3, <3>1, CompletedStay DEF Through
    <3> QED
      BY <1>2, <1>3, <2>4, <3>2 DEF Through
  <2>6. CASE status = "completed"
    <3>1. Working /\ bot.left = <<>>
      BY <1>1, <1>5, <2>6 DEF Working
    <3>2. \A w \in Eligible(mint) : rows[mint][w] # "none"
      BY <3>1 DEF Through, Progress, AllKnown
    <3>3. Settled = With(mint, "confirmed") /\ Down = With(mint, "failed")
      BY <1>1 DEF Settled, Down
    <3>4. /\ bot.paid >= Cardinality(With(mint, "confirmed"))
          /\ bot.distributed >= Amount(mint, With(mint, "confirmed"))
          /\ faults = 0 =>
               /\ bot.paid = Cardinality(With(mint, "confirmed"))
               /\ bot.distributed = Amount(mint, With(mint, "confirmed"))
      BY <3>1, <3>3 DEF Through, Progress, Tally
    <3>5. faults = 0 =>
            Cardinality(With(mint, "failed")) <= TRANSFERS_PER_TX
              * Cardinality(With(mint, "failed") \cap OffCurve)
      BY <3>1, <3>3 DEF Through, Progress, Downed
    <3>6. Cut = With(mint, "pending")
      BY <3>1 DEF Cut, Range
    <3>7. Read = With(mint, "confirmed") \cup With(mint, "failed")
      BY <3>6 DEF Read, With, Sure
    <3>8. \A w \in With(mint, "pending") :
            /\ Cardinality(With(mint, "confirmed") \cup With(mint, "failed"))
                 = PENDING_LIMIT
            /\ \A v \in With(mint, "confirmed") \cup With(mint, "failed") :
                 usdc_amount(mint, v) >= usdc_amount(mint, w)
      BY <3>1, <3>6, <3>7 DEF Through, Progress, CutOff
    <3>9. With(mint, "none") \cap Eligible(mint) = {}
      BY <3>2 DEF With
    <3>10. \A m \in Mints : m # mint /\ batch'[m].status = "completed" =>
             batch'[m] = batch[m] /\ rows'[m] = rows[m]
      BY <1>1, <2>3
    <3>11. CompletedIsThrough'
      <4>1. b.wallets_paid = bot.paid /\ b.usdc_distributed = bot.distributed
        BY <2>1
      <4>2. \A m, s : With(m, s)' = With(m, s)
        BY <1>1 DEF With
      <4>3. /\ \A m, w : usdc_amount(m, w)' = usdc_amount(m, w)
            /\ \A m : Eligible(m)' = Eligible(m)
        BY DEF usdc_amount, totalPoints, Eligible
      <4>4. PICK n \in Mints : n = mint
        BY <1>1
      <4>5. /\ batch'[n].wallets_paid = bot.paid
            /\ batch'[n].usdc_distributed = bot.distributed
        BY <2>3, <4>1, <4>4
      <4> SUFFICES ASSUME NEW m \in Mints, batch'[m].status = "completed"
                   PROVE
            /\ With(m, "none") \cap Eligible(m) = {}
            /\ batch'[m].wallets_paid >= Cardinality(With(m, "confirmed"))
            /\ batch'[m].usdc_distributed >= Amount(m, With(m, "confirmed"))
            /\ faults' = 0 =>
                 /\ batch'[m].wallets_paid = Cardinality(With(m, "confirmed"))
                 /\ batch'[m].usdc_distributed
                      = Amount(m, With(m, "confirmed"))
                 /\ Cardinality(With(m, "failed")) <= TRANSFERS_PER_TX
                      * Cardinality(With(m, "failed") \cap OffCurve)
            /\ \A w \in With(m, "pending") :
                 /\ Cardinality(With(m, "confirmed") \cup With(m, "failed"))
                      = PENDING_LIMIT
                 /\ \A v \in With(m, "confirmed") \cup With(m, "failed") :
                      usdc_amount(m, v) >= usdc_amount(m, w)
        BY <4>2, <4>3, AmountFixed DEF CompletedIsThrough
      <4>6. CASE m = n
        BY <1>1, <3>4, <3>5, <3>8, <3>9, <4>4, <4>5, <4>6
      <4>7. CASE m # n
        BY <1>1, <3>10, <4>4, <4>7 DEF Through, CompletedIsThrough
      <4> QED
        BY <4>6, <4>7
    <3> QED
      BY <1>2, <1>3, <2>4, <3>11 DEF Through
  <2> QED
    BY <2>5, <2>6
<1>6. CASE bot.left = <<>>
  BY <1>4, <1>5, <1>6 DEF Finalize, Request
<1>7. CASE bot.left # <<>>
  BY <1>4, <1>5, <1>7 DEF Finalize, Request
<1> QED
  BY <1>6, <1>7

\* A token without a holder never gets so far as to be counted.
LEMMA SendingHasHolders ==
  ASSUME IInv, bot.pc \in Sending
  PROVE  mint \in Mints /\ Eligible(mint) # {}
<1>1. 1 \in DOMAIN bot.left /\ mint \in Mints
  BY WhileSending
<1>2. bot.left[1] \in Wallets /\ rows[mint][bot.left[1]] \in Sure
  BY <1>1, WhileSending
<1> QED
  BY <1>1, <1>2 DEF IInv, RowsOK

LEMMA CountedMint ==
  ASSUME IInv, mint \in Mints, NEW status, Counted(mint, status)
  PROVE  \A m \in Mints :
           /\ m = mint => /\ batch'[m].wallets_paid = bot.paid
                          /\ batch'[m].usdc_distributed = bot.distributed
           /\ m # mint => batch'[m] = batch[m]
<1>1. PICK b : b = [status |-> status, wallets_paid |-> bot.paid,
                    usdc_distributed |-> bot.distributed]
  OBVIOUS
<1>2. batch' = [batch EXCEPT ![mint] = b]
  BY <1>1 DEF Counted
<1>3. b.wallets_paid = bot.paid /\ b.usdc_distributed = bot.distributed
  BY <1>1
<1> QED
  BY <1>2, <1>3 DEF IInv, Types

\* A bot that has the same token, or is not at its end, has counted nothing more.
LEMMA NobodyStays ==
  ASSUME Nobody,
         \A m \in Mints : Eligible(m) # {} \/
           /\ batch'[m].wallets_paid = batch[m].wallets_paid
           /\ batch'[m].usdc_distributed = batch[m].usdc_distributed,
         \/ bot'.pc # "final"
         \/ bot' = bot
         \/ Eligible(mint) # {} /\ bot'.mint = mint
         \/ bot'.mint = mint /\ bot'.paid = 0 /\ bot'.distributed = 0
  PROVE  Nobody'
<1>1. \A m : Eligible(m)' = Eligible(m)
  BY DEF Eligible
<1>2. \A m \in Mints : Eligible(m)' = {} =>
        batch'[m].wallets_paid = 0 /\ batch'[m].usdc_distributed = 0
  BY <1>1 DEF Nobody
<1>3. bot'.pc = "final" /\ Eligible(mint)' = {} =>
        bot'.paid = 0 /\ bot'.distributed = 0
  BY <1>1 DEF Nobody, mint
<1> QED
  BY <1>2, <1>3 DEF Nobody

LEMMA NextNobody == IInv /\ Nobody /\ [Next]_vars => Nobody'
<1> SUFFICES ASSUME IInv, Nobody, [Next]_vars PROVE Nobody'
  OBVIOUS
<1>1. CASE bot' = bot /\ UNCHANGED batch
  BY <1>1, NobodyStays
<1>2. CASE bot'.pc # "final" /\ UNCHANGED batch
  BY <1>2, NobodyStays
<1>3. ASSUME Leaves PROVE bot'.pc # "final"
  BY <1>3 DEF Leaves, Idle
<1>4. ASSUME NEW pc \in PCs \ {"final"}, Goes(pc) PROVE bot'.pc # "final"
  BY <1>4, GoesType DEF IInv
<1>5. CASE CreateBatch
  <2>1. bot.pc = "create" /\ mint \in Mints
    BY <1>5 DEF CreateBatch, IInv, BotOK, OnToken
  <2>2. \A m \in Mints :
          /\ batch'[m].wallets_paid = batch[m].wallets_paid
          /\ batch'[m].usdc_distributed = batch[m].usdc_distributed
    <3>1. CASE UNCHANGED batch
      BY <3>1
    <3>2. CASE batch' = [batch EXCEPT ![mint].status = "distributing"]
      BY <2>1, <3>2 DEF IInv, Types
    <3> QED
      BY <1>5, <3>1, <3>2 DEF CreateBatch, Request
  <2>3. bot'.pc # "final"
    BY <1>3, <1>4, <1>5 DEF CreateBatch, Request, PCs
  <2> QED
    BY <2>2, <2>3, NobodyStays
<1>6. CASE RecordProgress \/ MarkFailed
  <2>1. bot.pc \in Sending
    BY <1>6 DEF RecordProgress, MarkFailed, Sending
  <2>2. mint \in Mints /\ Eligible(mint) # {}
    BY <2>1, SendingHasHolders
  <2>3. \A m \in Mints : Eligible(m) # {} \/ batch'[m] = batch[m]
    <3>1. CASE UNCHANGED batch
      BY <3>1
    <3>2. CASE Counted(mint, batch[mint].status)
      BY <2>2, <3>2, CountedMint
    <3> QED
      BY <1>6, <3>1, <3>2 DEF RecordProgress, MarkFailed, Request
  <2>4. bot'.pc # "final" \/ bot'.mint = mint
    <3>1. CASE Leaves
      BY <1>3, <3>1
    <3>2. CASE bot' = NextChunk(bot)
      BY <3>2, BotFields DEF IInv, BotType, NextChunk, mint
    <3>3. CASE Goes("failed")
      BY <1>4, <3>3 DEF PCs
    <3>4. CASE bot' = [bot EXCEPT !.row = @ + 1]
      BY <3>4, BotFields DEF IInv, BotType, mint
    <3> QED
      BY <1>6, <3>1, <3>2, <3>3, <3>4 DEF RecordProgress, MarkFailed, Request
  <2> QED
    BY <2>2, <2>3, <2>4, NobodyStays
<1>7. CASE Finalize
  <2>1. bot.pc = "final" /\ mint \in Mints /\ Leaves
    BY <1>7 DEF Finalize, Request, IInv, BotOK, OnToken
  <2>2. \A m \in Mints : Eligible(m) # {} \/
          /\ batch'[m].wallets_paid = batch[m].wallets_paid
          /\ batch'[m].usdc_distributed = batch[m].usdc_distributed
    <3>1. CASE UNCHANGED batch
      BY <3>1
    <3>2. ASSUME NEW status, Counted(mint, status)
          PROVE  \A m \in Mints : Eligible(m) # {} \/
                   /\ batch'[m].wallets_paid = batch[m].wallets_paid
                   /\ batch'[m].usdc_distributed = batch[m].usdc_distributed
      BY <2>1, <3>2, CountedMint, SMTT(30) DEF Nobody
    <3> QED
      BY <1>7, <3>1, <3>2 DEF Finalize, Request
  <2> QED
    BY <1>3, <2>1, <2>2, NobodyStays
<1>8. CASE ReadPending
  <2>1. bot.pc = "pending" /\ mint \in Mints /\ UNCHANGED batch
    BY <1>8 DEF ReadPending, tables, IInv, BotOK, OnToken
  <2>2. CASE Leaves
    BY <1>2, <1>3, <2>1, <2>2
  <2>3. ASSUME NEW pc, NEW l,
               bot' = [bot EXCEPT !.pc = pc, !.left = l, !.row = 0,
                         !.paid = batch[mint].wallets_paid,
                         !.distributed = batch[mint].usdc_distributed]
        PROVE  Nobody'
    <3>1. /\ bot'.mint = mint /\ bot'.paid = batch[mint].wallets_paid
          /\ bot'.distributed = batch[mint].usdc_distributed
      BY <2>3, BotFields DEF IInv, BotType, mint
    <3>2. Eligible(mint) = {} => bot'.paid = 0 /\ bot'.distributed = 0
      BY <2>1, <3>1 DEF Nobody
    <3> QED
      BY <2>1, <3>1, <3>2, NobodyStays
  <2> QED
    BY <1>8, <2>2, <2>3 DEF ReadPending
<1>9. CASE Start \/ Exit \/ Crash \/ \E m \in Mints : Open(m)
  <2>1. UNCHANGED batch
    BY <1>9 DEF Start, Exit, Crash, Open, tables
  <2>2. bot'.pc # "final"
    <3>1. CASE Start
      BY <3>1 DEF Start, Idle
    <3>2. CASE Exit \/ Crash
      BY <3>2 DEF Exit, Crash, Idle
    <3>3. CASE \E m \in Mints : Open(m)
      BY <3>3, BotFields DEF Open, IInv, BotType
    <3> QED
      BY <1>9, <3>1, <3>2, <3>3
  <2> QED
    BY <1>2, <2>1, <2>2, SMTT(30)
<1>10. CASE InsertPayouts
  <2>1. bot.pc = "insert" /\ UNCHANGED batch
    BY <1>10 DEF InsertPayouts
  <2>2. CASE Leaves \/ Goes("pending")
    BY <1>2, <1>3, <1>4, <2>1, <2>2 DEF PCs
  <2>3. ASSUME NEW slice,
               bot' = [bot EXCEPT !.payouts = @ \ slice,
                         !.pc = IF slice = bot.payouts THEN "pending" ELSE @]
        PROVE  Nobody'
    <3>1. bot'.pc \in {"pending", "insert"}
      BY <2>1, <2>3, BotFields DEF IInv, BotType
    <3> QED
      BY <1>2, <2>1, <3>1
  <2> QED
    BY <1>10, <2>2, <2>3 DEF InsertPayouts, InsertSlice, Request
<1>11. CASE Send \/ Confirm
  <2>1. UNCHANGED batch
    BY <1>11 DEF Send, Confirm, tables
  <2>2. bot'.pc # "final"
    <3>1. CASE \E pc \in {"failed", "record"} : Goes(pc)
      BY <1>4, <3>1 DEF PCs
    <3>2. CASE \E wallets : bot' = [bot EXCEPT !.pc = "confirm", !.tx = wallets]
      BY <3>2, BotFields DEF IInv, BotType
    <3> QED
      BY <1>11, <3>1, <3>2 DEF Send, Confirm, Request
  <2> QED
    BY <1>2, <2>1, <2>2
<1>12. CASE RecordRow
  <2>1. bot.pc = "record" /\ bot.pc \in Sending /\ UNCHANGED batch
    BY <1>12 DEF RecordRow, Sending
  <2>2. bot'.pc # "final"
    <3>1. CASE Goes("failed")
      BY <1>4, <3>1 DEF PCs
    <3>2. ASSUME NEW a,
                 bot' = [bot EXCEPT
                  !.row = @ + 1, !.paid = @ + 1, !.distributed = @ + a,
                  !.pc = IF bot.row + 1 = Len(Chunk) THEN "progress" ELSE @]
          PROVE  bot'.pc # "final"
      BY <2>1, <3>2, BotFields DEF IInv, BotType
    <3> QED
      BY <1>12, <3>1, <3>2 DEF RecordRow, Request
  <2> QED
    BY <1>2, <2>1, <2>2
<1>13. CASE Cluster \/ (\E t \in txs : Expire(t)) \/ UNCHANGED vars
  BY <1>1, <1>13 DEF Cluster, Land, Refuse, Expire, tables, vars
<1> QED
  BY <1>5, <1>6, <1>7, <1>8, <1>9, <1>10, <1>11, <1>12, <1>13 DEF Next, BotStep

LEMMA NextThrough == IInv /\ Nobody /\ Through /\ [Next]_vars => Through'
<1> SUFFICES ASSUME IInv, Nobody, Through, [Next]_vars PROVE Through'
  OBVIOUS
<1>1. CASE UNCHANGED vars
  <2>1. UNCHANGED <<tables, txs, bot, faults>>
    BY <1>1 DEF vars, chain
  <2>2. mint' = mint /\ Chunk' = Chunk /\ Size' = Size
    BY <2>1 DEF mint, Chunk, Size
  <2>3. \A m, s : With(m, s)' = With(m, s)
    BY <2>1 DEF With, tables
  <2>4. /\ Working' = Working /\ Cut' = Cut /\ Read' = Read
        /\ Settled' = Settled /\ Down' = Down
    BY <2>1, <2>2, <2>3 DEF Working, Cut, Read, Settled, Down, tables
  <2>5. OnInsert' /\ NoneExpired'
    BY <2>1, <2>2 DEF Through, OnInsert, Fresh, NoneExpired, tables
  <2>6. AllKnown' /\ ChunkRows'
    BY <2>1, <2>2, <2>4
    DEF Through, Progress, AllKnown, ChunkRows, tables, Eligible
  <2>7. CutOff' /\ Downed'
    <3>1. \A m, w : usdc_amount(m, w)' = usdc_amount(m, w)
      BY DEF usdc_amount, totalPoints, Eligible
    <3> QED
      BY <2>1, <2>2, <2>4, <3>1 DEF Through, Progress, CutOff, Downed
  <2>8. Tally'
    BY <2>1, <2>2, <2>4, AmountFixed DEF Through, Progress, Tally
  <2> QED
    BY <2>1, <2>5, <2>6, <2>7, <2>8, TablesStay DEF Through, Progress
<1>2. CASE Start
  BY <1>2, StartThrough
<1>3. CASE BotStep
  <2>1. CASE Exit
    BY <2>1, ExitThrough
  <2>2. CASE \E m \in Mints : Open(m)
    BY <2>2, OpenThrough
  <2>3. CASE CreateBatch
    BY <2>3, CreateBatchThrough
  <2>4. CASE InsertPayouts
    BY <2>4, InsertPayoutsThrough
  <2>5. CASE ReadPending
    BY <2>5, ReadPendingThrough
  <2>6. CASE Send
    BY <2>6, SendThrough
  <2>7. CASE Confirm
    BY <2>7, ConfirmThrough
  <2>8. CASE RecordRow
    BY <2>8, RecordRowThrough
  <2>9. CASE RecordProgress
    BY <2>9, RecordProgressThrough
  <2>10. CASE MarkFailed
    BY <2>10, MarkFailedThrough
  <2>11. CASE Finalize
    BY <2>11, FinalizeThrough
  <2> QED
    BY <1>3, <2>1, <2>2, <2>3, <2>4, <2>5, <2>6, <2>7, <2>8, <2>9, <2>10, <2>11
    DEF BotStep
<1>4. CASE Crash
  BY <1>4, ExitThrough
<1>5. CASE Cluster
  BY <1>5, ClusterThrough DEF Cluster
<1>6. CASE \E t \in txs : Expire(t)
  BY <1>6, ClusterThrough
<1> QED
  BY <1>1, <1>2, <1>3, <1>4, <1>5, <1>6 DEF Next

\* A batch that says completed is through with every row it has read, and its
\* counters say what the rows say, whatever happened on the way.
THEOREM CompletedSays == Spec => []CompletedIsThrough
<1>1. Through => CompletedIsThrough
  BY DEF Through
<1>2. Init => Nobody
  BY DEF Init, Nobody, NoBatch, Idle
<1> QED
  BY Invariance, InitIInv, InitThrough, NextKeeps, NextNobody, NextThrough,
     <1>1, <1>2, PTL
  DEF Spec
-----------------------------------------------------------------------------
(***************************************************************************)
(* The distribution implements the ledger.                                 *)
(***************************************************************************)
Closed == {m \in Mints : batch[m].status = "completed"}

LEMMA LedgerStutters ==
  ASSUME UNCHANGED chain, Closed' = Closed
  PROVE  UNCHANGED TheLedger!vars
  BY DEF chain, TheLedger!vars, Groups, Closed

\* A transaction that is sent is a group given out.
LEMMA SendGivesOut ==
  ASSUME IInv, Send
  PROVE  TheLedger!Next \/ UNCHANGED TheLedger!vars
<1> DEFINE sent == [mint |-> mint, wallets |-> Range(Chunk), result |-> "sent"]
           g == <<mint, Range(Chunk)>>
<1>1. bot.pc = "send" /\ bot.pc \in Sending
      /\ UNCHANGED <<tables, received, balance, refused>>
  BY DEF Send, Sending
<1>2. CASE UNCHANGED txs
  <2>1. UNCHANGED chain /\ Closed' = Closed
    BY <1>1, <1>2 DEF chain, tables, Closed
  <2> QED
    BY <2>1, LedgerStutters
<1>3. CASE txs' = {t \in txs : t.mint # mint \/ t.wallets # Range(Chunk)}
                    \cup {sent}
  <2>1. txs' = txs \cup {sent}
    BY <1>1, <1>3, Sends
  <2>2. mint \in Mints \ Closed /\ Range(Chunk) \subseteq Wallets
        /\ Range(Chunk) # {}
    BY <1>1, WhileSending DEF Closed
  <2>3. \A t \in txs : t.mint = mint => t.wallets \cap Range(Chunk) = {}
    <3>1. \A w \in Range(Chunk) : Free(w)
      BY <1>1, WhileSending
    <3>2. \A t \in txs : t.result \in Results
      BY DEF IInv, Types, TxType, Results
    <3> QED
      BY <3>1, <3>2 DEF Free, In
  <2>4. sent.result = "sent" /\ sent.mint = mint /\ sent.wallets = Range(Chunk)
    OBVIOUS
  <2>5. /\ Groups({"sent"})' = Groups({"sent"}) \cup {g}
        /\ Groups({"landed"})' = Groups({"landed"})
        /\ Groups({"failed", "expired"})' = Groups({"failed", "expired"})
    <3> HIDE DEF sent
    <3>1. \A r : {u \in txs' : u.result \in r}
                   = {u \in txs : u.result \in r}
                       \cup (IF "sent" \in r THEN {sent} ELSE {})
      BY <2>1, <2>4
    <3>2. \A r : Groups(r)' = Groups(r) \cup (IF "sent" \in r THEN {g} ELSE {})
      BY <2>4, <3>1 DEF Groups
    <3> QED
      BY <3>2
  <2>6. \A h \in Groups({"sent"}) \cup Groups({"landed"})
                   \cup Groups({"failed", "expired"}) :
          h[1] = mint => h[2] \cap Range(Chunk) = {}
    BY <2>3 DEF Groups
  <2>7. g \notin Groups({"sent"}) /\ g[1] = mint /\ g[2] = Range(Chunk)
    BY <2>2, <2>6
  <2>8. Closed' = Closed
    BY <1>1 DEF tables, Closed
  <2>9. TheLedger!GiveOut(g)
    <3>1. TheLedger!Apart(g)
      BY <2>6, <2>7 DEF TheLedger!Apart
    <3> QED
      BY <1>1, <2>2, <2>5, <2>7, <2>8, <3>1 DEF TheLedger!GiveOut, Closed
  <2>10. g \in Groups({"sent"})' \ Groups({"sent"})
    BY <2>5, <2>7
  <2> QED
    BY <2>9, <2>10 DEF TheLedger!Next
<1> QED
  BY <1>2, <1>3 DEF Send, Request

\* A transaction that is processed or expires is a group no longer out.
LEMMA GroupMoves ==
  ASSUME IInv, NEW t \in txs, t.result = "sent",
         NEW result \in {"landed", "failed", "expired"}, Becomes(t, result)
  PROVE  /\ <<t.mint, t.wallets>> \in Groups({"sent"})
         /\ Groups({"sent"})' = Groups({"sent"}) \ {<<t.mint, t.wallets>>}
         /\ Groups({"landed"})' = Groups({"landed"})
              \cup (IF result = "landed" THEN {<<t.mint, t.wallets>>} ELSE {})
         /\ Groups({"failed", "expired"})' = Groups({"failed", "expired"})
              \cup (IF result = "landed" THEN {} ELSE {<<t.mint, t.wallets>>})
<1>1. PICK u : u = [t EXCEPT !.result = result]
  OBVIOUS
<1>2. txs' = (txs \ {t}) \cup {u}
  BY <1>1 DEF Becomes
<1>3. /\ u.mint = t.mint /\ u.wallets = t.wallets /\ u.result = result
  BY <1>1 DEF IInv, Types, TxType
<1>4. PICK g : g = <<t.mint, t.wallets>>
  OBVIOUS
<1>5. \A v \in txs : v.mint = t.mint /\ v.wallets = t.wallets => v = t
  BY DEF IInv, TxsOK
<1>6. g \in Groups({"sent"})
  BY <1>4 DEF Groups
<1>7. \A r : t.result \notin r =>
        Groups(r)' = Groups(r) \cup (IF result \in r THEN {g} ELSE {})
  <2> SUFFICES ASSUME NEW r, t.result \notin r
               PROVE  Groups(r)' = Groups(r) \cup (IF result \in r THEN {g} ELSE {})
    OBVIOUS
  <2>1. {v \in txs' : v.result \in r}
          = {v \in txs : v.result \in r} \cup (IF result \in r THEN {u} ELSE {})
    BY <1>2, <1>3
  <2> QED
    BY <1>3, <1>4, <2>1 DEF Groups
<1>8. Groups({"sent"})' = Groups({"sent"}) \ {g}
  <2>1. {v \in txs' : v.result \in {"sent"}}
          = {v \in txs : v.result \in {"sent"}} \ {t}
    BY <1>2, <1>3
  <2>2. \A v \in {v \in txs : v.result \in {"sent"}} :
          <<v.mint, v.wallets>> = g => v = t
    BY <1>4, <1>5
  <2> QED
    BY <1>4, <2>1, <2>2 DEF Groups
<1> QED
  BY <1>4, <1>6, <1>7, <1>8

LEMMA LandPays ==
  ASSUME IInv, NEW t \in txs, Land(t)
  PROVE  TheLedger!Next
<1>1. PICK g : g = <<t.mint, t.wallets>>
  OBVIOUS
<1>2. g[1] = t.mint /\ g[2] = t.wallets
  BY <1>1
<1>3. /\ t.result = "sent" /\ balance >= Cost(g[1], g[2])
      /\ Becomes(t, "landed")
      /\ balance' = balance - Cost(g[1], g[2])
      /\ received' = [received EXCEPT ![g[1]] = [w \in Wallets |->
           @[w] + IF w \in g[2] THEN transferred(g[1], w) ELSE 0]]
      /\ UNCHANGED tables
  BY <1>2 DEF Land
<1>4. PICK result \in {"landed", "failed", "expired"} : result = "landed"
  OBVIOUS
<1>5. /\ g \in Groups({"sent"})
      /\ Groups({"sent"})' = Groups({"sent"}) \ {g}
      /\ Groups({"landed"})' = Groups({"landed"}) \cup {g}
      /\ Groups({"failed", "expired"})' = Groups({"failed", "expired"})
  BY <1>1, <1>3, <1>4, GroupMoves
<1>6. Cost(g[1], g[2]) = TheLedger!Cost(g[1], g[2])
  BY DEF Cost, SumFunctionOnSet, FoldFunctionOnSet, MapThenFoldSet,
         TheLedger!Cost, TheLedger!SumFunctionOnSet,
         TheLedger!FoldFunctionOnSet, TheLedger!MapThenFoldSet
<1>7. /\ g[1] \in Mints /\ g[2] \subseteq Eligible(g[1])
      /\ \A w \in Wallets : w \in g[2] => ~In(g[1], w, {"landed"})
  <2>1. Becomes(t, result) /\ UNCHANGED <<tables, bot>>
    BY <1>3, <1>4 DEF Land
  <2> QED
    BY <1>2, <1>3, <2>1, Becoming
<1>8. \A w \in g[2] : transferred(g[1], w) \in Nat
  BY <1>2, TransactionPays
<1>9. \A w \in Wallets :
        /\ received[g[1]][w] \in Nat
        /\ w \in g[2] => received[g[1]][w] = 0
  BY <1>7 DEF IInv, Types, Receipts
<1>10. \A w \in Wallets :
         received[g[1]][w] + (IF w \in g[2] THEN transferred(g[1], w) ELSE 0)
           = IF w \in g[2] THEN transferred(g[1], w) ELSE received[g[1]][w]
  BY <1>8, <1>9
<1>11. received' = [received EXCEPT ![g[1]] =
          [w \in Wallets |-> IF w \in g[2] THEN transferred(g[1], w) ELSE @[w]]]
  BY <1>3, <1>7, <1>10 DEF IInv, Types
<1>12. Closed' = Closed
  BY <1>3 DEF tables, Closed
<1>13. TheLedger!Pay(g)
  BY <1>3, <1>5, <1>6, <1>11, <1>12 DEF TheLedger!Pay, Closed
<1> QED
  BY <1>5, <1>13 DEF TheLedger!Next

LEMMA VoidVoids ==
  ASSUME IInv, NEW t \in txs, Refuse(t) \/ Expire(t)
  PROVE  TheLedger!Next
<1>1. PICK result \in {"failed", "expired"} :
        /\ t.result = "sent" /\ Becomes(t, result)
        /\ UNCHANGED <<tables, received, balance>>
  BY DEF Refuse, Expire
<1>2. PICK g : g = <<t.mint, t.wallets>>
  OBVIOUS
<1>3. /\ g \in Groups({"sent"})
      /\ Groups({"sent"})' = Groups({"sent"}) \ {g}
      /\ Groups({"landed"})' = Groups({"landed"})
      /\ Groups({"failed", "expired"})' = Groups({"failed", "expired"}) \cup {g}
  BY <1>1, <1>2, GroupMoves
<1>4. Closed' = Closed
  BY <1>1 DEF tables, Closed
<1>5. TheLedger!Void(g)
  BY <1>1, <1>3, <1>4 DEF TheLedger!Void, Closed
<1> QED
  BY <1>3, <1>5 DEF TheLedger!Next

\* A batch is closed, or its counters change and nothing else.
LEMMA TablesClose ==
  ASSUME IInv, CreateBatch \/ RecordProgress \/ Finalize
  PROVE  TheLedger!Next \/ UNCHANGED TheLedger!vars
<1>1. /\ UNCHANGED chain /\ mint \in Mints
      /\ batch[mint].status # "completed"
  BY DEF IInv, BotOK, OnToken, CreateBatch, RecordProgress, Finalize
<1>2. PICK status \in {"none", "distributing", "pending", "completed"} :
        \A m \in Mints :
          batch'[m].status = IF m = mint THEN status ELSE batch[m].status
  <2>1. CASE UNCHANGED batch
    <3>1. batch[mint].status \in {"none", "distributing", "pending", "completed"}
      BY <1>1 DEF IInv, Types
    <3> QED
      BY <2>1, <3>1
  <2>2. CASE batch' = [batch EXCEPT ![mint].status = "distributing"]
    BY <1>1, <2>2 DEF IInv, Types
  <2>3. ASSUME NEW status \in {"none", "distributing", "pending", "completed"},
               Counted(mint, status)
        PROVE  \A m \in Mints :
                 batch'[m].status = IF m = mint THEN status ELSE batch[m].status
    BY <1>1, <2>3, CountedType
  <2>4. CASE CreateBatch
    BY <2>1, <2>2, <2>4 DEF CreateBatch, Request
  <2>5. CASE RecordProgress
    <3>1. batch[mint].status \in {"none", "distributing", "pending", "completed"}
      BY <1>1 DEF IInv, Types
    <3> QED
      BY <2>1, <2>3, <2>5, <3>1 DEF RecordProgress, Request
  <2>6. CASE Finalize /\ bot.left = <<>>
    BY <2>1, <2>3, <2>6 DEF Finalize, Request
  <2>7. CASE Finalize /\ bot.left # <<>>
    BY <2>1, <2>3, <2>7 DEF Finalize, Request
  <2> QED
    BY <2>4, <2>5, <2>6, <2>7
<1>3. CASE status = "completed"
  <2>0. PICK m \in Mints : m = mint
    BY <1>1
  <2>1. Closed' = Closed \cup {m} /\ m \in Mints \ Closed
    BY <1>1, <1>2, <1>3, <2>0 DEF Closed
  <2>2. TheLedger!Close(m)
    BY <1>1, <2>1 DEF TheLedger!Close, Closed, chain, Groups
  <2> QED
    BY <2>1, <2>2 DEF TheLedger!Next, Closed
<1>4. CASE status # "completed"
  <2>1. Closed' = Closed
    BY <1>1, <1>2, <1>4 DEF Closed
  <2> QED
    BY <1>1, <2>1, LedgerStutters
<1> QED
  BY <1>3, <1>4

\* The distribution is a ledger: no share is in two transactions, a transaction
\* pays all its wallets or none and once, out of what there is, and nothing is
\* sent for a batch that is completed.
THEOREM Implements == Spec => LedgerSpec
<1>1. Init => TheLedger!Init
  BY ConstantTypes DEF Init, TheLedger!Init, Groups, NoBatch
<1>2. IInv /\ [Next]_vars => [TheLedger!Next]_(TheLedger!vars)
  <2> SUFFICES ASSUME IInv, [Next]_vars
               PROVE  TheLedger!Next \/ UNCHANGED TheLedger!vars
    OBVIOUS
  <2>1. ASSUME UNCHANGED <<tables, chain>> PROVE UNCHANGED TheLedger!vars
    BY <2>1, LedgerStutters DEF tables, Closed
  <2>2. ASSUME UNCHANGED <<batch, chain>> PROVE UNCHANGED TheLedger!vars
    BY <2>2, LedgerStutters DEF Closed
  <2>3. CASE UNCHANGED vars
    BY <2>1, <2>3, SMTT(30) DEF vars
  <2>4. CASE Start \/ Exit \/ Crash \/ ReadPending \/ Confirm
    BY <2>1, <2>4 DEF Start, Exit, Crash, ReadPending, Confirm
  <2>5. CASE \E m \in Mints : Open(m)
    BY <2>1, <2>5 DEF Open
  <2>6. CASE InsertPayouts \/ RecordRow \/ MarkFailed
    BY <2>2, <2>6 DEF InsertPayouts, RecordRow, MarkFailed
  <2>7. CASE CreateBatch \/ RecordProgress \/ Finalize
    BY <2>7, TablesClose
  <2>8. CASE Send
    BY <2>8, SendGivesOut
  <2>9. CASE Cluster \/ \E t \in txs : Expire(t)
    BY <2>9, LandPays, VoidVoids DEF Cluster
  <2> QED
    BY <2>3, <2>4, <2>5, <2>6, <2>7, <2>8, <2>9 DEF Next, BotStep
<1> QED
  BY <1>1, <1>2, Invariance, PTL DEF Spec, LedgerSpec, TheLedger!Spec

=============================================================================
