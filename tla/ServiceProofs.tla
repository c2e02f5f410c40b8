---------------------------- MODULE ServiceProofs ----------------------------
(***************************************************************************)
(* Proofs about the programs that keep rows of what is on the chain.       *)
(*                                                                         *)
(* Snapshot, for any tokens and wallets, any days, batches and failures:   *)
(* types for any number of worker processes, and for one that no total     *)
(* exceeds its rows.  NeverOverCredited is not inductive: between reading  *)
(* the totals and writing them the worker holds totals that nothing        *)
(* accounts for yet.  Covered says what of them the rows account for in    *)
(* each phase; it needs that a day without rows has none until the worker  *)
(* writes them, which is not so of two workers.                            *)
(* For one worker too, a failure costs one token's holders a day at most:  *)
(* of the days that are owed, begun or passed by the run (Due), a holder's *)
(* total counts all but those that the failures so far pay for, a day of   *)
(* one token each (Affords), where the day that the run is about to count  *)
(* is taken as counted (Promised).                                         *)
(*                                                                         *)
(* SwapRows, for any pools, trades and reserves: the rows of plain trades  *)
(* are right, because the balances of a transaction tell what was traded   *)
(* (BalancesTell) and the reserves that the indexer has read are ones the  *)
(* pool has had (PricesKnown).                                             *)
(*                                                                         *)
(* Indexer, for any number of polls, any chain, timeframes and faults: the *)
(* candles never count a trade twice, as each trade can be assigned to one *)
(* row of its bucket while a poll that has yet to count it assigns it to   *)
(* none (Assigned).  Where polls do not overlap, the trades that no candle *)
(* counts are the one under way and those lost with a fault (Calm), and    *)
(* without faults the candles are exactly those of the trades (Exact).     *)
(*                                                                         *)
(* Layout, for any mints and sizes of a pool that are not too short for    *)
(* its page: the offset of a field is the sum of the widths before it      *)
(* (OffsetIsSum), which gives the tables that the readers have by heart.   *)
(***************************************************************************)
EXTENDS Snapshot, Indexer, SwapRows, Layout, SumTheorems, SequenceTheorems

DayRowType(t) ==
  [mint : Tokens, date : 1 .. t, wallet : Wallets, days : 0 .. t, points : Nat]

TotalType(t) ==
  [points : Nat, first_seen : 0 .. t, last : 0 .. t, days : Nat]

EntryType(t) == [row : DayRowType(t), total : TotalType(t)]

RunType(t) ==
  [pc : {"idle", "tokens", "read", "snapshots", "totals"}, date : 0 .. t,
   dates : Seq(1 .. t), tokens : SUBSET Tokens, mint : Tokens \cup {None},
   entries : Seq(EntryType(t)), done : Nat]

SnapTypes ==
  /\ today \in Days
  /\ snapshots \in SUBSET DayRowType(today) /\ IsFiniteSet(snapshots)
  /\ totals \in [Tokens -> [Wallets -> TotalType(today)]]
  /\ lastDate \in 0 .. today
  /\ worker \in [Workers -> RunType(today)]
  /\ faults \in 0 .. MaxFaults
  /\ owed \in SUBSET (1 .. today)

Writing == {"snapshots", "totals"}

\* What a run has at hand.
RunOK(run) ==
  /\ run.pc # "idle" => run.dates # <<>> /\ run.date > 0
  /\ run.pc \in {"read"} \cup Writing => run.mint \in Tokens
  /\ run.pc \notin Writing => run.done = 0
  /\ run.pc \in Writing =>
       /\ run.done < Len(run.entries)
       /\ \A i \in DOMAIN run.entries :
            /\ run.entries[i].row.mint = run.mint
            /\ run.entries[i].row.date = Head(run.dates)
       /\ \A i, j \in DOMAIN run.entries :
            run.entries[i].row.wallet = run.entries[j].row.wallet => i = j

RunsOK == \A p \in Workers : RunOK(worker[p])

SnapTypeInv == SnapTypes /\ RunsOK

-----------------------------------------------------------------------------
\* The day is not begun for the token.
Fresh(run) ==
  run.pc = "read" =>
    \A r \in snapshots : ~(r.mint = run.mint /\ r.date = Head(run.dates))

\* A new total is the old one with the points of the row; it is accounted for
\* once the row is written.
RowComes(run) ==
  run.pc = "snapshots" =>
    \A i \in DOMAIN run.entries :
      LET e == run.entries[i]
          w == e.row.wallet
      IN  /\ e.total.points = totals[run.mint][w].points + e.row.points
          /\ IF i <= run.done
             THEN e.total.points <= PointsOf(RowsOf(run.mint, w))
             ELSE \A r \in RowsOf(run.mint, w) : r.date # Head(run.dates)

TotalComes(run) ==
  run.pc = "totals" =>
    \A i \in DOMAIN run.entries :
      LET e == run.entries[i]
      IN  i > run.done =>
            e.total.points <= PointsOf(RowsOf(run.mint, e.row.wallet))

Covered(run) == Fresh(run) /\ RowComes(run) /\ TotalComes(run)

CreditInv == NeverOverCredited /\ \A p \in Workers : Covered(worker[p])

OneWorker == \A p, q \in Workers : p = q

-----------------------------------------------------------------------------
LEMMA SnapshotConstants ==
  /\ IsFiniteSet(Wallets) /\ HoldingUsd \subseteq Nat
  /\ Days \subseteq Nat \ {0} /\ BATCH_SIZE \in Nat \ {0}
  /\ MAX_BACKFILL \in Nat /\ MaxFaults \in Nat
  BY SnapshotAssumption

LEMMA JoinedSeq ==
  ASSUME NEW S, NEW s \in Seq(S), NEW e \in Seq(S), Len(s) > 0
  PROVE  s \o e \in Seq(S) /\ s \o e # <<>>
<1>1. s \o e \in Seq(S) /\ Len(s \o e) = Len(s) + Len(e)
  OBVIOUS
<1>2. Len(s) \in Nat /\ Len(e) \in Nat
  OBVIOUS
<1>3. Len(s \o e) # 0
  BY <1>1, <1>2
<1> QED
  BY <1>1, <1>3

LEMMA TailOfSeq ==
  ASSUME NEW S, NEW s \in Seq(S), Len(s) > 1
  PROVE  Tail(s) \in Seq(S) /\ Tail(s) # <<>>
<1>1. PICK n \in Nat : n = Len(s) /\ n > 1
  OBVIOUS
<1>2. s # <<>>
  BY <1>1
<1>3. PICK u : u = Tail(s)
  OBVIOUS
<1>4. u \in Seq(S) /\ Len(u) = n - 1
  BY <1>1, <1>2, <1>3
<1>5. n - 1 # 0
  BY <1>1, SMTT(30)
<1>6. u # <<>>
  BY <1>4, <1>5
<1> QED
  BY <1>3, <1>4, <1>6

LEMMA HeadOfSeq ==
  ASSUME NEW S, NEW s \in Seq(S), s # <<>>
  PROVE  Head(s) \in S
<1>1. 1 \in DOMAIN s /\ Head(s) = s[1]
  OBVIOUS
<1> QED
  BY <1>1

LEMMA EmptyIsSeq ==
  ASSUME NEW S
  PROVE  <<>> \in Seq(S)
  OBVIOUS

LEMMA MinOfTwo ==
  ASSUME NEW x \in Int, NEW y \in Int
  PROVE  Min({x, y}) = IF x <= y THEN x ELSE y
<1>1. \E z \in {x, y} : \A u \in {x, y} : z <= u
  OBVIOUS
<1> QED
  BY <1>1 DEF Min

LEMMA MaxOfTwo ==
  ASSUME NEW x \in Int, NEW y \in Int
  PROVE  Max({x, y}) = IF x >= y THEN x ELSE y
<1>1. \E z \in {x, y} : \A u \in {x, y} : z >= u
  OBVIOUS
<1> QED
  BY <1>1 DEF Max

LEMMA MaxOfInterval ==
  ASSUME NEW x \in Int, NEW y \in Int, x <= y
  PROVE  Max(x .. y) = y
<1>1. y \in x .. y /\ \A u \in x .. y : y >= u /\ u \in Int
  OBVIOUS
<1>2. \A z \in x .. y : (\A u \in x .. y : z >= u) => z = y
  BY <1>1
<1> QED
  BY <1>1, <1>2 DEF Max

\* Some of the entries that are left, in their order.
LEMMA ChunkIs ==
  ASSUME NEW t, NEW run \in RunType(t), run.done < Len(run.entries)
  PROVE  \E top \in run.done + 1 .. Len(run.entries) :
           Chunk(run) = run.done + 1 .. top /\ Max(Chunk(run)) = top
<1>1. PICK n \in Nat : n = Len(run.entries)
  BY DEF RunType
<1>2. PICK d \in Nat : d = run.done
  BY DEF RunType
<1>3. PICK top : top = Min({d + BATCH_SIZE, n})
  OBVIOUS
<1>4. top \in d + 1 .. n
  <2>1. top = IF d + BATCH_SIZE <= n THEN d + BATCH_SIZE ELSE n
    BY <1>3, MinOfTwo, SnapshotConstants
  <2> QED
    BY <1>1, <1>2, <2>1, SnapshotConstants
<1>5. Chunk(run) = d + 1 .. top
  BY <1>1, <1>2, <1>3 DEF Chunk
<1>6. Max(d + 1 .. top) = top
  BY <1>4, MaxOfInterval
<1> QED
  BY <1>1, <1>2, <1>4, <1>5, <1>6

-----------------------------------------------------------------------------
(***************************************************************************)
(* SnapTypes.                                                                  *)
(***************************************************************************)
LEMMA TypesGrow ==
  ASSUME NEW t \in Nat, NEW u \in Nat, t <= u
  PROVE  /\ DayRowType(t) \subseteq DayRowType(u) /\ TotalType(t) \subseteq TotalType(u)
         /\ RunType(t) \subseteq RunType(u)
<1>1. 0 .. t \subseteq 0 .. u /\ 1 .. t \subseteq 1 .. u
  OBVIOUS
<1>2. DayRowType(t) \subseteq DayRowType(u) /\ TotalType(t) \subseteq TotalType(u)
  BY <1>1 DEF DayRowType, TotalType
<1>3. EntryType(t) \subseteq EntryType(u)
  BY <1>2 DEF EntryType
<1>4. Seq(1 .. t) \subseteq Seq(1 .. u) /\ Seq(EntryType(t)) \subseteq Seq(EntryType(u))
  BY <1>1, <1>3
<1>5. RunType(t) \subseteq RunType(u)
  BY <1>1, <1>4 DEF RunType
<1> QED
  BY <1>2, <1>5

LEMMA SnapshotInits ==
  SnapshotInit => SnapTypeInv /\ CreditInv
<1> SUFFICES ASSUME SnapshotInit PROVE SnapTypeInv /\ CreditInv
  OBVIOUS
<1>1. today \in Nat \ {0}
  BY SnapshotConstants DEF SnapshotInit
<1>2. Idle \in RunType(today) /\ NoTotal \in TotalType(today)
  BY <1>1 DEF Idle, NoTotal, RunType, TotalType, None
<1>3. SnapTypes
  <2>1. IsFiniteSet({})
    BY FS_EmptySet
  <2> QED
    BY <1>1, <1>2, <2>1, SnapshotConstants DEF SnapshotInit, SnapTypes, None
<1>4. RunsOK
  BY DEF SnapshotInit, RunsOK, RunOK, Idle, Writing
<1>5. NeverOverCredited
  <2> SUFFICES ASSUME NEW m \in Tokens, NEW w \in Wallets
               PROVE  totals[m][w].points <= PointsOf(RowsOf(m, w))
    BY DEF NeverOverCredited
  <2>1. RowsOf(m, w) = {}
    BY DEF RowsOf, SnapshotInit
  <2>2. PointsOf({}) = 0
    BY SumEmpty DEF PointsOf
  <2> QED
    BY <2>1, <2>2 DEF SnapshotInit, NoTotal
<1>6. \A p \in Workers : Covered(worker[p])
  BY DEF SnapshotInit, Covered, Fresh, RowComes, TotalComes, Idle
<1> QED
  BY <1>3, <1>4, <1>5, <1>6 DEF SnapTypeInv, CreditInv

LEMMA WorkerTypes ==
  ASSUME SnapTypeInv, NEW p \in Workers
  PROVE  /\ worker[p] \in RunType(today) /\ RunOK(worker[p])
         /\ today \in Nat \ {0} /\ MaxFaults \in Nat /\ faults \in 0 .. MaxFaults
  BY SnapshotConstants DEF SnapTypeInv, SnapTypes, RunsOK

\* One process goes on; others do not.
LEMMA RunMoves ==
  ASSUME SnapTypeInv, NEW p \in Workers, NEW to \in RunType(today), RunOK(to),
         Goes(p, to)
  PROVE  /\ worker' \in [Workers -> RunType(today)]
         /\ worker'[p] = to /\ \A q \in Workers : RunOK(worker'[q])
<1>1. worker \in [Workers -> RunType(today)]
  BY DEF SnapTypeInv, SnapTypes
<1>2. \A q \in Workers : worker'[q] = IF q = p THEN to ELSE worker[q]
  BY <1>1 DEF Goes
<1> QED
  BY <1>1, <1>2 DEF Goes, SnapTypeInv, RunsOK

LEMMA FaultsTyped ==
  ASSUME SnapTypeInv, UNCHANGED faults \/ Fails
  PROVE  faults' \in 0 .. MaxFaults
  BY SnapshotConstants DEF SnapTypeInv, SnapTypes, Fails

\* Such a step that changes nothing else but the failures.
LEMMA RunStep ==
  ASSUME SnapTypeInv, NEW p \in Workers, NEW to \in RunType(today), RunOK(to),
         Goes(p, to), UNCHANGED faults \/ Fails,
         UNCHANGED <<today, snapshots, totals, lastDate, owed>>
  PROVE  SnapTypeInv'
<1>1. SnapTypes'
  BY RunMoves, FaultsTyped DEF SnapTypeInv, SnapTypes
<1>2. RunsOK'
  BY RunMoves DEF RunsOK, RunOK, Writing
<1> QED
  BY <1>1, <1>2 DEF SnapTypeInv

LEMMA DatesTyped ==
  ASSUME SnapTypeInv
  PROVE  DatesOfRun(today) \in Seq(1 .. today) /\ DatesOfRun(today) # <<>>
<1>1. PICK t \in Nat \ {0} : t = today
  BY SnapshotConstants DEF SnapTypeInv, SnapTypes
<1>2. PICK l \in 0 .. t : l = lastDate
  BY <1>1 DEF SnapTypeInv, SnapTypes
<1>3. PICK end : end = <<t>>
  OBVIOUS
<1>4. end \in Seq(1 .. t) /\ end # <<>> /\ Len(end) = 1
  BY <1>1, <1>3
<1>5. CASE CanBackfill(t)
  <2>1. PICK k \in Nat \ {0} : k = daysMissed(t) /\ k = t - l - 1
    BY <1>1, <1>2, <1>5, SnapshotConstants DEF CanBackfill, daysMissed
  <2>2. PICK s : s = [d \in 1 .. k |-> l + d]
    OBVIOUS
  <2>3. s \in Seq(1 .. t) /\ Len(s) = k
    <3>1. \A d \in 1 .. k : l + d \in 1 .. t
      BY <1>1, <1>2, <2>1
    <3> QED
      BY <2>1, <2>2, <3>1
  <2>4. s \o end \in Seq(1 .. t) /\ s \o end # <<>>
    BY <1>4, <2>1, <2>3, JoinedSeq
  <2> QED
    BY <1>1, <1>2, <1>3, <1>5, <2>1, <2>2, <2>4 DEF DatesOfRun
<1>6. CASE ~CanBackfill(t)
  BY <1>1, <1>3, <1>4, <1>6 DEF DatesOfRun
<1> QED
  BY <1>5, <1>6

LEMMA IdleTyped ==
  ASSUME SnapTypeInv
  PROVE  Idle \in RunType(today)
<1>1. <<>> \in Seq(1 .. today) /\ <<>> \in Seq(EntryType(today))
  BY EmptyIsSeq
<1>2. 0 \in 0 .. today
  BY SnapshotConstants DEF SnapTypeInv, SnapTypes
<1> QED
  BY <1>1, <1>2 DEF Idle, RunType, None

LEMMA StartTypes ==
  ASSUME SnapTypeInv, NEW p \in Workers, Start(p)
  PROVE  SnapTypeInv'
<1>1. PICK dates \in Seq(1 .. today) : dates = DatesOfRun(today) /\ dates # <<>>
  BY DatesTyped
<1>2. PICK to : to = [Idle EXCEPT !.pc = "tokens", !.date = today,
                                  !.dates = dates, !.tokens = Tokens]
  OBVIOUS
<1>3. today \in 0 .. today
  BY WorkerTypes
<1>4. to \in RunType(today)
  BY <1>2, <1>3, IdleTyped DEF RunType
<1>5. RunOK(to)
  <2>1. today > 0
    BY WorkerTypes
  <2>2. /\ to.pc = "tokens" /\ to.date = today /\ to.dates = dates
        /\ to.done = 0
    BY <1>2 DEF Idle
  <2> QED
    BY <1>1, <2>1, <2>2 DEF RunOK, Writing
<1> QED
  BY <1>1, <1>2, <1>4, <1>5, RunStep DEF Start

LEMMA CrashTypes ==
  ASSUME SnapTypeInv, NEW p \in Workers, Crash(p)
  PROVE  SnapTypeInv'
<1>1. Idle \in RunType(today)
  BY IdleTyped
<1>2. RunOK(Idle)
  BY DEF Idle, RunOK, Writing
<1> QED
  BY <1>1, <1>2, RunStep DEF Crash

LEMMA LeaveTyped ==
  ASSUME NEW t, NEW run \in RunType(t), RunOK(run), run.pc # "idle",
         NEW m \in Tokens
  PROVE  /\ LeaveToken(run, m) \in RunType(t) /\ RunOK(LeaveToken(run, m))
         /\ LeaveToken(run, m).pc = "tokens"
<1>1. PICK dates : dates = IF run.tokens = {m} /\ Len(run.dates) > 1
                           THEN Tail(run.dates) ELSE run.dates
  OBVIOUS
<1>2. dates \in Seq(1 .. t) /\ dates # <<>>
  <2>1. PICK old \in Seq(1 .. t) : old = run.dates /\ old # <<>>
    BY DEF RunType, RunOK
  <2>2. Len(old) > 1 => Tail(old) \in Seq(1 .. t) /\ Tail(old) # <<>>
    BY TailOfSeq
  <2> QED
    BY <1>1, <2>1, <2>2
<1>3. PICK tokens \in SUBSET Tokens :
        tokens = IF run.tokens = {m} /\ Len(run.dates) > 1
                 THEN Tokens ELSE run.tokens \ {m}
  BY DEF RunType
<1>4. PICK to : to = [run EXCEPT !.pc = "tokens", !.tokens = tokens, !.dates = dates,
                                 !.mint = None, !.entries = <<>>, !.done = 0]
  OBVIOUS
<1>5. to = LeaveToken(run, m)
  BY <1>1, <1>3, <1>4 DEF LeaveToken
<1>6. to \in RunType(t)
  <2>1. <<>> \in Seq(EntryType(t)) /\ 0 \in Nat
    BY EmptyIsSeq
  <2> QED
    BY <1>2, <1>3, <1>4, <2>1 DEF RunType
<1>7. RunOK(to) /\ to.pc = "tokens"
  BY <1>2, <1>4 DEF RunOK, Writing, RunType
<1> QED
  BY <1>5, <1>6, <1>7

\* A token is left, whether or not a batch of it was written.
LEMMA LeaveStep ==
  ASSUME SnapTypeInv, NEW p \in Workers, NEW m \in Tokens, worker[p].pc # "idle",
         Goes(p, LeaveToken(worker[p], m)), UNCHANGED faults \/ Fails
  PROVE  /\ worker' \in [Workers -> RunType(today)]
         /\ \A q \in Workers : RunOK(worker'[q])
         /\ faults' \in 0 .. MaxFaults
         /\ UNCHANGED <<today, snapshots, totals, lastDate, owed>> => SnapTypeInv'
<1>1. PICK to \in RunType(today) :
        to = LeaveToken(worker[p], m) /\ RunOK(to)
  BY WorkerTypes, LeaveTyped
<1> QED
  BY <1>1, RunMoves, RunStep, FaultsTyped

LEMMA LookTypes ==
  ASSUME SnapTypeInv, NEW p \in Workers, NEW m \in Tokens, Look(p, m)
  PROVE  SnapTypeInv'
<1>1. PICK run \in RunType(today) : run = worker[p] /\ RunOK(run)
  BY WorkerTypes
<1>2. PICK to : to = [run EXCEPT !.pc = "read", !.mint = m]
  OBVIOUS
<1>3. to \in RunType(today)
  BY <1>2 DEF RunType
<1>4. run.pc = "tokens" => RunOK(to)
  BY <1>1, <1>2 DEF RunOK, Writing, RunType
<1>5. \/ Goes(p, to) /\ UNCHANGED faults
      \/ Goes(p, LeaveToken(worker[p], m)) /\ (UNCHANGED faults \/ Fails)
  BY <1>1, <1>2 DEF Look, Dropped
<1>6. worker[p].pc = "tokens" /\ UNCHANGED <<today, snapshots, totals, lastDate, owed>>
  BY DEF Look
<1> QED
  BY <1>1, <1>3, <1>4, <1>5, <1>6, RunStep, LeaveStep

\* There is a tier for every holding, and points are whole.
LEMMA PointsAreNat ==
  ASSUME NEW usd \in Nat, NEW age \in Int
  PROVE  dailyPts(usd, age) \in Nat
<1>1. \E t \in TIERS :
        usd >= t.min /\ \A u \in TIERS : usd >= u.min => u.min <= t.min
  <2> DEFINE rich == [min |-> 100000, pts |-> 250]
  <2> DEFINE good == [min |-> 10000, pts |-> 150]
  <2> DEFINE fair == [min |-> 1000, pts |-> 80]
  <2> DEFINE some == [min |-> 100, pts |-> 30]
  <2> DEFINE least == [min |-> 0, pts |-> 10]
  <2>2. TIERS = {rich, good, fair, some, least}
    BY DEF TIERS
  <2>3. /\ rich.min = 100000 /\ good.min = 10000 /\ fair.min = 1000
        /\ some.min = 100 /\ least.min = 0
    OBVIOUS
  <2> HIDE DEF rich, good, fair, some, least
  <2>4. CASE usd >= 100000
    BY <2>2, <2>3, <2>4
  <2>5. CASE usd < 100000 /\ usd >= 10000
    BY <2>2, <2>3, <2>5
  <2>6. CASE usd < 10000 /\ usd >= 1000
    BY <2>2, <2>3, <2>6
  <2>7. CASE usd < 1000 /\ usd >= 100
    BY <2>2, <2>3, <2>7
  <2>8. CASE usd < 100
    BY <2>2, <2>3, <2>8
  <2> QED
    BY <2>4, <2>5, <2>6, <2>7, <2>8
<1>2. getTier(usd) \in TIERS
  BY <1>1 DEF getTier
<1>3. getTier(usd).pts \in {250, 150, 80, 30, 10}
  BY <1>2 DEF TIERS
<1>4. PICK n \in Nat : n = getTimeMultiplier(age)
  <2>1. PICK D : D = {d \in {1, 7, 30} : age >= d}
    OBVIOUS
  <2>2. PICK n \in Nat : n = 30
    OBVIOUS
  <2>3. IsFiniteSet(1 .. n) /\ D \in SUBSET (1 .. n)
    <3>1. IsFiniteSet(1 .. n)
      BY FS_Interval
    <3>2. 1 \in 1 .. n /\ 7 \in 1 .. n /\ 30 \in 1 .. n
      BY <2>2
    <3> QED
      BY <2>1, <3>1, <3>2
  <2>4. IsFiniteSet(D)
    BY <2>3, FS_Subset
  <2>5. Cardinality(D) \in Nat
    BY <2>4, FS_CardinalityType
  <2>6. getTimeMultiplier(age) = 1 + Cardinality(D)
    BY <2>1 DEF getTimeMultiplier
  <2> QED
    BY <2>5, <2>6
<1> QED
  BY <1>3, <1>4 DEF dailyPts

LEMMA EntryIs ==
  ASSUME SnapTypeInv, NEW m \in Tokens, NEW date \in 1 .. today, NEW w \in Wallets,
         NEW usd \in Nat
  PROVE  LET e == Entry(m, date, w, usd)
         IN  /\ e \in EntryType(today)
             /\ e.row.mint = m /\ e.row.date = date /\ e.row.wallet = w
             /\ e.total.points = totals[m][w].points + e.row.points
             /\ e.total.days = totals[m][w].days + 1
<1>1. PICK old \in TotalType(today) : old = totals[m][w]
  BY DEF SnapTypeInv, SnapTypes
<1>2. today \in Nat /\ date \in Nat /\ date <= today
  BY SnapshotConstants DEF SnapTypeInv, SnapTypes
<1>3. PICK seen \in 0 .. today : seen = firstSeen(old, date)
  BY <1>1, <1>2 DEF firstSeen, TotalType
<1>4. PICK age \in 0 .. today : age = daysHeld(seen, date)
  <2>1. daysHeld(seen, date) = IF 0 >= date - seen THEN 0 ELSE date - seen
    BY <1>2, MaxOfTwo DEF daysHeld
  <2> QED
    BY <1>2, <2>1
<1>5. PICK pts \in Nat : pts = dailyPts(usd, age)
  BY <1>2, PointsAreNat
<1>6. PICK row : row = [mint |-> m, date |-> date, wallet |-> w, days |-> age,
                        points |-> pts]
  OBVIOUS
<1>7. PICK total : total = [points |-> old.points + pts, first_seen |-> seen,
                            last |-> date, days |-> old.days + 1]
  OBVIOUS
<1>8. PICK e : e = [row |-> row, total |-> total]
  OBVIOUS
<1>9. e = Entry(m, date, w, usd)
  BY <1>1, <1>3, <1>4, <1>5, <1>6, <1>7, <1>8 DEF Entry
<1>10. row \in DayRowType(today)
  BY <1>2, <1>6 DEF DayRowType
<1>11. total \in TotalType(today)
  <2>1. old.points + pts \in Nat /\ old.days + 1 \in Nat /\ date \in 0 .. today
    BY <1>1, <1>2 DEF TotalType
  <2> QED
    BY <1>7, <2>1 DEF TotalType
<1>12. e \in EntryType(today)
  BY <1>8, <1>10, <1>11 DEF EntryType
<1>13. /\ e.row.mint = m /\ e.row.date = date /\ e.row.wallet = w
       /\ e.total.points = totals[m][w].points + e.row.points
       /\ e.total.days = totals[m][w].days + 1
  BY <1>1, <1>6, <1>7, <1>8, SMTT(30)
<1> QED
  BY <1>9, <1>12, <1>13

\* The entries of a token and day as they are computed: one for each wallet.
Lists(m, date, entries) ==
  /\ entries \in Seq(EntryType(today)) /\ Len(entries) > 0
  /\ \A i \in DOMAIN entries :
       /\ entries[i].row.mint = m /\ entries[i].row.date = date
       /\ entries[i].total.points =
            totals[m][entries[i].row.wallet].points + entries[i].row.points
       /\ entries[i].total.days = totals[m][entries[i].row.wallet].days + 1
  /\ \A i, j \in DOMAIN entries :
       entries[i].row.wallet = entries[j].row.wallet => i = j

LEMMA EntriesAre ==
  ASSUME SnapTypeInv, NEW m \in Tokens, NEW date \in 1 .. today,
         NEW H \in SUBSET Wallets, H # {}, NEW order \in SetToSeqs(H),
         NEW usd \in [Wallets -> HoldingUsd],
         NEW entries, entries = [i \in DOMAIN order |->
                                   Entry(m, date, order[i], usd[order[i]])]
  PROVE  /\ Lists(m, date, entries)
         /\ \A w \in H : \E i \in DOMAIN entries : entries[i].row.wallet = w
<1>1. PICK n \in Nat : n = Cardinality(H) /\ n > 0
  <2>1. IsFiniteSet(H)
    BY SnapshotConstants, FS_Subset
  <2>2. Cardinality(H) \in Nat /\ Cardinality(H) # 0
    BY <2>1, FS_CardinalityType, FS_EmptySet
  <2> QED
    BY <2>2
<1>2. /\ order \in [1 .. n -> H] /\ DOMAIN order = 1 .. n
      /\ \A i, j \in 1 .. n : i # j => order[i] # order[j]
  BY <1>1 DEF SetToSeqs, IsInjective
<1>3. \A i \in 1 .. n :
        /\ entries[i] \in EntryType(today)
        /\ entries[i].row.mint = m /\ entries[i].row.date = date
        /\ entries[i].row.wallet = order[i]
        /\ entries[i].total.points = totals[m][order[i]].points + entries[i].row.points
        /\ entries[i].total.days = totals[m][order[i]].days + 1
  <2> SUFFICES ASSUME NEW i \in 1 .. n
               PROVE  /\ entries[i] \in EntryType(today)
                      /\ entries[i].row.mint = m /\ entries[i].row.date = date
                      /\ entries[i].row.wallet = order[i]
                      /\ entries[i].total.points =
                           totals[m][order[i]].points + entries[i].row.points
                      /\ entries[i].total.days = totals[m][order[i]].days + 1
    OBVIOUS
  <2>1. PICK w \in Wallets : w = order[i]
    BY <1>2
  <2>2. PICK u \in Nat : u = usd[w]
    BY SnapshotConstants
  <2>3. entries[i] = Entry(m, date, w, u)
    BY <1>2, <2>1, <2>2
  <2> QED
    BY <2>1, <2>3, EntryIs
<1>4. entries \in Seq(EntryType(today)) /\ DOMAIN entries = 1 .. n /\ Len(entries) = n
  <2>1. entries = [i \in 1 .. n |-> entries[i]]
    BY <1>2
  <2>2. entries \in [1 .. n -> EntryType(today)]
    BY <1>3, <2>1
  <2> QED
    BY <2>2
<1>5. \A w \in H : \E i \in 1 .. n : order[i] = w
  <2>1. IsFiniteSet(H) /\ IsFiniteSet(1 .. n) /\ Cardinality(1 .. n) = n
    BY <1>1, SnapshotConstants, FS_Subset, FS_Interval
  <2>2. order \in Injection(1 .. n, H)
    BY <1>2 DEF Injection, IsInjective
  <2>3. order \in Surjection(1 .. n, H)
    BY <1>1, <2>1, <2>2, FS_Injection
  <2> QED
    BY <2>3 DEF Surjection
<1> QED
  BY <1>1, <1>2, <1>3, <1>4, <1>5, SMTT(30) DEF Lists

LEMMA HeadTyped ==
  ASSUME SnapTypeInv, NEW p \in Workers, worker[p].pc # "idle"
  PROVE  Head(worker[p].dates) \in 1 .. today
<1>1. PICK dates : dates = worker[p].dates
  OBVIOUS
<1>2. dates \in Seq(1 .. today) /\ dates # <<>>
  BY <1>1, WorkerTypes, SMTT(30) DEF RunType, RunOK
<1> QED
  BY <1>1, <1>2, HeadOfSeq

LEMMA ReadIs ==
  ASSUME SnapTypeInv, NEW p \in Workers, ReadTotals(p)
  PROVE  LET m == worker[p].mint
             date == Head(worker[p].dates)
         IN \/ Goes(p, LeaveToken(worker[p], m)) /\ (Loyal # {} => Fails)
            \/ \E entries :
                 /\ Goes(p, [worker[p] EXCEPT !.pc = "snapshots", !.entries = entries])
                 /\ Lists(m, date, entries)
                 /\ \/ Fails
                    \/ /\ UNCHANGED faults
                       /\ \A w \in Loyal :
                            \E i \in DOMAIN entries : entries[i].row.wallet = w
<1>1. PICK m \in Tokens : m = worker[p].mint
  BY WorkerTypes, ZenonT(60) DEF ReadTotals, RunOK
<1>2. PICK date \in 1 .. today : date = Head(worker[p].dates)
  BY HeadTyped DEF ReadTotals
<1>3. CASE Dropped(p, m)
  BY <1>1, <1>3 DEF Dropped
<1>4. CASE ~Dropped(p, m)
  <2>1. PICK H \in SUBSET Wallets, usd \in [Wallets -> HoldingUsd] :
          /\ Fetched(m, H)
          /\ \E order \in SetToSeqs(H) :
               Goes(p, IF H = {} THEN LeaveToken(worker[p], m)
                       ELSE [worker[p] EXCEPT !.pc = "snapshots",
                               !.entries = [i \in DOMAIN order |->
                                 Entry(m, date, order[i], usd[order[i]])]])
    BY <1>1, <1>2, <1>4 DEF ReadTotals
  <2>2. PICK order \in SetToSeqs(H) :
             Goes(p, IF H = {} THEN LeaveToken(worker[p], m)
                     ELSE [worker[p] EXCEPT !.pc = "snapshots",
                             !.entries = [i \in DOMAIN order |->
                               Entry(m, date, order[i], usd[order[i]])]])
    BY <2>1
  <2>3. \/ Fails
        \/ UNCHANGED faults /\ Loyal \subseteq H
    BY <2>1 DEF Fetched
  <2>4. CASE H = {}
    <3>1. Goes(p, LeaveToken(worker[p], m))
      BY <2>2, <2>4
    <3>2. Loyal # {} => Fails
      BY <2>3, <2>4
    <3> QED
      BY <1>1, <3>1, <3>2
  <2>5. CASE H # {}
    <3>1. PICK entries : entries = [i \in DOMAIN order |->
                                      Entry(m, date, order[i], usd[order[i]])]
      OBVIOUS
    <3>2. Goes(p, [worker[p] EXCEPT !.pc = "snapshots", !.entries = entries])
      BY <2>2, <2>5, <3>1
    <3>3. /\ Lists(m, date, entries)
          /\ \A w \in H : \E i \in DOMAIN entries : entries[i].row.wallet = w
      BY <2>5, <3>1, EntriesAre
    <3> QED
      BY <1>1, <1>2, <2>3, <3>2, <3>3
  <2> QED
    BY <2>4, <2>5, ZenonT(60)
<1> QED
  BY <1>3, <1>4, ZenonT(60)

LEMMA ReadTypes ==
  ASSUME SnapTypeInv, NEW p \in Workers, ReadTotals(p)
  PROVE  SnapTypeInv'
<1>1. PICK run \in RunType(today) : run = worker[p] /\ RunOK(run)
  BY WorkerTypes, SMTT(30)
<1>2. PICK m \in Tokens : m = run.mint
  BY <1>1, ZenonT(60) DEF ReadTotals, RunOK
<1>3. /\ run.pc = "read" /\ (UNCHANGED faults \/ Fails)
      /\ UNCHANGED <<today, snapshots, totals, lastDate, owed>>
  BY <1>1 DEF ReadTotals, Dropped, Fetched
<1>4. CASE Goes(p, LeaveToken(worker[p], m))
  BY <1>1, <1>2, <1>3, <1>4, LeaveStep
<1>5. CASE ~Goes(p, LeaveToken(worker[p], m))
  <2>1. PICK entries : /\ Goes(p, [run EXCEPT !.pc = "snapshots", !.entries = entries])
                       /\ Lists(m, Head(run.dates), entries)
    BY <1>1, <1>2, <1>5, ReadIs
  <2>2. PICK to : to = [run EXCEPT !.pc = "snapshots", !.entries = entries]
    OBVIOUS
  <2>3. to \in RunType(today)
    BY <2>1, <2>2 DEF RunType, Lists
  <2>4. RunOK(to)
    <3>1. /\ to.pc = "snapshots" /\ to.dates = run.dates /\ to.mint = m
          /\ to.entries = entries /\ to.done = 0 /\ to.date = run.date
      BY <1>1, <1>2, <1>3, <2>2 DEF RunType, RunOK, Writing
    <3>2. run.dates # <<>> /\ run.date > 0
      BY <1>1, <1>3 DEF RunOK
    <3> QED
      BY <1>2, <2>1, <3>1, <3>2 DEF RunOK, Writing, Lists
  <2> QED
    BY <1>3, <2>1, <2>2, <2>3, <2>4, RunStep
<1> QED
  BY <1>4, <1>5

\* A batch is written, and the next one comes, what follows the last, or the
\* next token.
LEMMA AdvanceIs ==
  ASSUME SnapTypeInv, NEW p \in Workers, worker[p].pc \in Writing, NEW then,
         Advance(p, then)
  PROVE  \E top \in worker[p].done + 1 .. Len(worker[p].entries) :
           /\ Chunk(worker[p]) = worker[p].done + 1 .. top
           /\ IF top < Len(worker[p].entries)
              THEN Goes(p, [worker[p] EXCEPT !.done = top])
              ELSE Goes(p, then)
<1>1. PICK run \in RunType(today) : run = worker[p] /\ RunOK(run)
  BY WorkerTypes
<1>2. run.done < Len(run.entries)
  BY <1>1 DEF RunOK
<1>3. PICK top \in run.done + 1 .. Len(run.entries) :
        Chunk(run) = run.done + 1 .. top /\ Max(Chunk(run)) = top
  BY <1>2, ChunkIs
<1>4. IF top < Len(run.entries)
      THEN Goes(p, [run EXCEPT !.done = top]) ELSE Goes(p, then)
  BY <1>1, <1>3 DEF Advance
<1> QED
  BY <1>1, <1>3, <1>4

LEMMA BatchMoves ==
  ASSUME SnapTypeInv, NEW p \in Workers, worker[p].pc \in Writing,
         NEW then \in RunType(today), RunOK(then),
         \/ Advance(p, then) /\ UNCHANGED faults
         \/ Dropped(p, worker[p].mint)
  PROVE  /\ worker' \in [Workers -> RunType(today)]
         /\ \A q \in Workers : RunOK(worker'[q])
         /\ faults' \in 0 .. MaxFaults
<1>1. PICK run \in RunType(today) : run = worker[p] /\ RunOK(run)
  BY WorkerTypes
<1>2. run.mint \in Tokens /\ run.pc # "idle"
  BY <1>1 DEF RunOK, Writing
<1>3. CASE Dropped(p, run.mint)
  BY <1>1, <1>2, <1>3, LeaveStep DEF Dropped
<1>4. CASE Advance(p, then) /\ UNCHANGED faults
  <2>1. PICK top \in run.done + 1 .. Len(run.entries) :
          IF top < Len(run.entries)
          THEN Goes(p, [run EXCEPT !.done = top]) ELSE Goes(p, then)
    BY <1>1, <1>4, AdvanceIs
  <2>2. PICK next : next = [run EXCEPT !.done = top]
    OBVIOUS
  <2>3. top \in Nat
    BY <1>1, <2>1 DEF RunType
  <2>4. next \in RunType(today)
    BY <2>2, <2>3 DEF RunType
  <2>5. top < Len(run.entries) => RunOK(next)
    BY <1>1, <2>2 DEF RunOK, Writing, RunType
  <2> QED
    BY <1>4, <2>1, <2>2, <2>4, <2>5, RunMoves, FaultsTyped
<1> QED
  BY <1>1, <1>3, <1>4

LEMMA WriteSnapshotsTypes ==
  ASSUME SnapTypeInv, NEW p \in Workers, WriteSnapshots(p)
  PROVE  SnapTypeInv'
<1>1. PICK run \in RunType(today) : run = worker[p] /\ RunOK(run)
  BY WorkerTypes
<1>2. PICK then : then = [run EXCEPT !.pc = "totals", !.done = 0]
  OBVIOUS
<1>3. run.pc = "snapshots"
  BY <1>1 DEF WriteSnapshots
<1>4. then \in RunType(today)
  BY <1>2 DEF RunType
<1>5. RunOK(then)
  <2>1. run.done \in Nat /\ run.entries \in Seq(EntryType(today))
    BY DEF RunType
  <2>2. Len(run.entries) > 0
    BY <1>1, <1>3, <2>1 DEF RunOK, Writing
  <2>3. /\ then.pc = "totals" /\ then.done = 0 /\ then.entries = run.entries
        /\ then.dates = run.dates /\ then.mint = run.mint /\ then.date = run.date
    BY <1>2 DEF RunType
  <2> QED
    BY <1>1, <1>3, <2>2, <2>3 DEF RunOK, Writing
<1>6. PICK rows : rows = {run.entries[i].row : i \in Chunk(run)}
  OBVIOUS
<1>7. /\ \/ Advance(p, then) /\ UNCHANGED faults
         \/ Dropped(p, run.mint)
      /\ \/ \A r : r \in snapshots' => r \in snapshots \/ r \in rows
         \/ UNCHANGED snapshots
      /\ UNCHANGED <<today, totals, lastDate, owed>>
  BY <1>1, <1>2, <1>6 DEF WriteSnapshots, Post
<1>8. rows \in SUBSET DayRowType(today) /\ IsFiniteSet(rows)
  <2>1. PICK top \in run.done + 1 .. Len(run.entries) :
          Chunk(run) = run.done + 1 .. top
    BY <1>1, <1>3, ChunkIs DEF RunOK, Writing
  <2>2. run.done \in Nat /\ run.entries \in Seq(EntryType(today)) /\ top \in Nat
    BY <2>1 DEF RunType
  <2>3. Chunk(run) \subseteq DOMAIN run.entries
    BY <2>1, <2>2
  <2>4. \A i \in Chunk(run) : run.entries[i].row \in DayRowType(today)
    <3>1. \A i \in Chunk(run) : run.entries[i] \in EntryType(today)
      BY <2>2, <2>3
    <3> QED
      BY <3>1 DEF EntryType
  <2>5. IsFiniteSet(Chunk(run))
    BY <2>1, <2>2, FS_Interval
  <2>6. PICK C : C = Chunk(run)
    OBVIOUS
  <2>7. PICK f : f = [i \in C |-> run.entries[i].row]
    OBVIOUS
  <2>8. f \in Surjection(C, rows)
    BY <1>6, <2>6, <2>7 DEF Surjection
  <2> QED
    BY <1>6, <2>4, <2>5, <2>6, <2>8, FS_Surjection
<1>9. snapshots' \in SUBSET DayRowType(today) /\ IsFiniteSet(snapshots')
  <2>1. snapshots \in SUBSET DayRowType(today) /\ IsFiniteSet(snapshots)
    BY DEF SnapTypeInv, SnapTypes
  <2>2. IsFiniteSet(snapshots \cup rows)
    BY <1>8, <2>1, FS_Union
  <2>3. snapshots' \in SUBSET (snapshots \cup rows)
    BY <1>7
  <2> QED
    BY <1>8, <2>1, <2>2, <2>3, FS_Subset
<1>10. /\ worker' \in [Workers -> RunType(today)]
       /\ \A q \in Workers : RunOK(worker'[q]) /\ faults' \in 0 .. MaxFaults
  BY <1>1, <1>3, <1>4, <1>5, <1>7, BatchMoves DEF Writing
<1>11. SnapTypes'
  <2>1. faults' \in 0 .. MaxFaults
    BY <1>1, <1>3, <1>4, <1>5, <1>7, BatchMoves DEF Writing
  <2> QED
    BY <1>7, <1>9, <1>10, <2>1 DEF SnapTypeInv, SnapTypes
<1>12. RunsOK'
  BY <1>10 DEF RunsOK, RunOK, Writing
<1> QED
  BY <1>11, <1>12 DEF SnapTypeInv

\* What a batch of totals that is written leaves behind.
TotalsWritten(p) ==
  LET run == worker[p]
  IN /\ totals' \in [Tokens -> [Wallets -> TotalType(today)]]
     /\ \A m \in Tokens, w \in Wallets :
          \/ /\ totals'[m][w] = totals[m][w]
             /\ \A i \in Chunk(run) : m # run.mint \/ run.entries[i].row.wallet # w
          \/ /\ m = run.mint
             /\ \E i \in Chunk(run) :
                  /\ i \in DOMAIN run.entries /\ i > run.done
                  /\ run.entries[i].row.wallet = w
                  /\ totals'[m][w] = run.entries[i].total

LEMMA WriteTotalsIs ==
  ASSUME SnapTypeInv, NEW p \in Workers, WriteTotals(p)
  PROVE  \/ TotalsWritten(p)
         \/ UNCHANGED totals /\ Dropped(p, worker[p].mint)
<1>1. PICK run \in RunType(today) : run = worker[p] /\ RunOK(run)
  BY WorkerTypes
<1>2. PICK m \in Tokens : m = run.mint
  BY <1>1 DEF WriteTotals, RunOK, Writing
<1>3. PICK U : U = [w \in Wallets |->
                 {run.entries[i].total :
                    i \in {j \in Chunk(run) : run.entries[j].row.wallet = w}}]
  OBVIOUS
<1>4. PICK new : new = [w \in Wallets |-> IF U[w] = {} THEN totals[m][w]
                                          ELSE CHOOSE t \in U[w] : TRUE]
  OBVIOUS
<1>5. \/ UNCHANGED totals /\ Dropped(p, m)
      \/ totals' = [totals EXCEPT ![m] = new]
  <2>1. \/ UNCHANGED totals /\ Dropped(p, m)
        \/ totals' = [totals EXCEPT ![m] =
             [w \in Wallets |->
                IF {run.entries[i].total :
                      i \in {j \in Chunk(run) : run.entries[j].row.wallet = w}} = {}
                THEN @[w]
                ELSE CHOOSE t \in {run.entries[i].total :
                       i \in {j \in Chunk(run) : run.entries[j].row.wallet = w}} : TRUE]]
    BY <1>1, <1>2 DEF WriteTotals, Post
  <2>2. new = [w \in Wallets |->
                IF {run.entries[i].total :
                      i \in {j \in Chunk(run) : run.entries[j].row.wallet = w}} = {}
                THEN totals[m][w]
                ELSE CHOOSE t \in {run.entries[i].total :
                       i \in {j \in Chunk(run) : run.entries[j].row.wallet = w}} : TRUE]
    BY <1>3, <1>4, SMTT(30)
  <2> QED
    BY <2>1, <2>2
<1>6. PICK top \in run.done + 1 .. Len(run.entries) :
        Chunk(run) = run.done + 1 .. top
  BY <1>1, ChunkIs DEF RunOK, WriteTotals, Writing
<1>7. run.done \in Nat /\ run.entries \in Seq(EntryType(today)) /\ top \in Nat
  BY <1>6 DEF RunType
<1>8. \A i \in Chunk(run) : /\ i \in DOMAIN run.entries /\ i > run.done
                            /\ run.entries[i] \in EntryType(today)
  BY <1>6, <1>7
<1>9. ASSUME NEW w \in Wallets
      PROVE  \/ /\ new[w] = totals[m][w]
                /\ \A i \in Chunk(run) : run.entries[i].row.wallet # w
             \/ \E i \in Chunk(run) :
                  run.entries[i].row.wallet = w /\ new[w] = run.entries[i].total
  <2>1. U[w] = {run.entries[i].total :
                  i \in {j \in Chunk(run) : run.entries[j].row.wallet = w}}
    BY <1>3
  <2>2. CASE U[w] = {}
    BY <1>4, <2>1, <2>2
  <2>3. CASE U[w] # {}
    <3>1. new[w] \in U[w]
      BY <1>4, <2>3
    <3> QED
      BY <2>1, <3>1
  <2> QED
    BY <2>2, <2>3
<1>10. totals \in [Tokens -> [Wallets -> TotalType(today)]]
  BY DEF SnapTypeInv, SnapTypes
<1>11. new \in [Wallets -> TotalType(today)]
  <2>1. \A w \in Wallets : new[w] \in TotalType(today)
    BY <1>8, <1>9, <1>10 DEF EntryType
  <2> QED
    BY <1>4, <2>1
<1>12. ASSUME totals' = [totals EXCEPT ![m] = new]
       PROVE  TotalsWritten(p)
  <2>1. totals' \in [Tokens -> [Wallets -> TotalType(today)]]
    BY <1>10, <1>11, <1>12
  <2>2. totals'[m] = new /\ \A n \in Tokens \ {m} : totals'[n] = totals[n]
    BY <1>10, <1>12
  <2>3. ASSUME NEW n \in Tokens, NEW w \in Wallets
        PROVE  \/ /\ totals'[n][w] = totals[n][w]
                  /\ \A i \in Chunk(run) : n # run.mint \/ run.entries[i].row.wallet # w
               \/ /\ n = run.mint
                  /\ \E i \in Chunk(run) :
                       /\ i \in DOMAIN run.entries /\ i > run.done
                       /\ run.entries[i].row.wallet = w
                       /\ totals'[n][w] = run.entries[i].total
    <3>1. CASE n # m
      BY <1>2, <2>2, <3>1
    <3>2. CASE n = m
      BY <1>2, <1>8, <1>9, <2>2, <3>2
    <3> QED
      BY <3>1, <3>2
  <2> QED
    BY <1>1, <2>1, <2>3 DEF TotalsWritten
<1> QED
  BY <1>1, <1>2, <1>5, <1>12, SMTT(30)

LEMMA WriteTotalsTypes ==
  ASSUME SnapTypeInv, NEW p \in Workers, WriteTotals(p)
  PROVE  SnapTypeInv'
<1>1. PICK run \in RunType(today) : run = worker[p] /\ RunOK(run)
  BY WorkerTypes
<1>2. run.pc = "totals" /\ run.mint \in Tokens
  BY <1>1 DEF WriteTotals, RunOK, Writing
<1>3. PICK then \in RunType(today) : then = LeaveToken(run, run.mint) /\ RunOK(then)
  BY <1>1, <1>2, LeaveTyped, SMTT(30)
<1>4. /\ \/ Advance(p, then) /\ UNCHANGED faults
         \/ Dropped(p, run.mint)
      /\ UNCHANGED <<today, snapshots, lastDate, owed>>
  BY <1>1, <1>3 DEF WriteTotals, Post
<1>5. /\ worker' \in [Workers -> RunType(today)]
      /\ \A q \in Workers : RunOK(worker'[q])
  BY <1>1, <1>2, <1>3, <1>4, BatchMoves DEF Writing
<1>6. faults' \in 0 .. MaxFaults
  BY <1>1, <1>2, <1>3, <1>4, BatchMoves DEF Writing
<1>7. totals' \in [Tokens -> [Wallets -> TotalType(today)]]
  BY WriteTotalsIs DEF SnapTypeInv, SnapTypes, TotalsWritten
<1>8. SnapTypes'
  BY <1>4, <1>5, <1>6, <1>7 DEF SnapTypeInv, SnapTypes
<1>9. RunsOK'
  BY <1>5 DEF RunsOK, RunOK, Writing
<1> QED
  BY <1>8, <1>9, SMTT(30) DEF SnapTypeInv

LEMMA FinishTypes ==
  ASSUME SnapTypeInv, NEW p \in Workers, Finish(p)
  PROVE  SnapTypeInv'
<1>1. PICK t \in Nat \ {0} : t = today
  BY WorkerTypes
<1>2. PICK date \in 1 .. t : date = worker[p].date
  <2>1. worker[p].date \in 0 .. t /\ worker[p].date > 0
    BY <1>1, WorkerTypes DEF RunType, RunOK, Finish
  <2> QED
    BY <1>1, <2>1
<1>3. Idle \in RunType(today) /\ RunOK(Idle)
  BY IdleTyped DEF Idle, RunOK, Writing
<1>4. /\ worker' \in [Workers -> RunType(today)]
      /\ \A q \in Workers : RunOK(worker'[q])
  BY <1>3, RunMoves DEF Finish
<1>5. PICK l \in 0 .. t : l = lastDate
  BY <1>1 DEF SnapTypeInv, SnapTypes
<1>6. owed' \in SUBSET (1 .. t)
  <2>1. l + 1 .. date \in SUBSET (1 .. t) /\ {date} \in SUBSET (1 .. t)
    BY <1>1, <1>2, <1>5
  <2>2. owed \in SUBSET (1 .. t)
    BY <1>1 DEF SnapTypeInv, SnapTypes
  <2>3. owed' = owed \cup (l + 1 .. date) \/ owed' = owed \cup {date}
    BY <1>2, <1>5 DEF Finish
  <2> QED
    BY <2>1, <2>2, <2>3
<1>7. SnapTypes'
  BY <1>1, <1>2, <1>4, <1>6 DEF SnapTypeInv, SnapTypes, Finish
<1>8. RunsOK'
  BY <1>4 DEF RunsOK, RunOK, Writing
<1> QED
  BY <1>7, <1>8 DEF SnapTypeInv

LEMMA TickTypes ==
  ASSUME SnapTypeInv, Tick
  PROVE  SnapTypeInv'
<1>1. PICK t \in Nat, u \in Nat : t = today /\ u = today' /\ t <= u /\ u \in Days
  BY SnapshotConstants DEF SnapTypeInv, SnapTypes, Tick
<1>2. /\ DayRowType(t) \subseteq DayRowType(u) /\ TotalType(t) \subseteq TotalType(u)
      /\ RunType(t) \subseteq RunType(u)
  BY <1>1, TypesGrow
<1>3. 0 .. t \subseteq 0 .. u /\ 1 .. t \subseteq 1 .. u
  BY <1>1
<1>4. totals \in [Tokens -> [Wallets -> TotalType(u)]]
  BY <1>1, <1>2 DEF SnapTypeInv, SnapTypes
<1>5. worker \in [Workers -> RunType(u)]
  BY <1>1, <1>2 DEF SnapTypeInv, SnapTypes
<1>6. /\ u \in Days /\ snapshots \in SUBSET DayRowType(u) /\ IsFiniteSet(snapshots)
      /\ lastDate \in 0 .. u /\ faults \in 0 .. MaxFaults /\ owed \in SUBSET (1 .. u)
  BY <1>1, <1>2, <1>3 DEF SnapTypeInv, SnapTypes
<1>7. SnapTypes'
  BY <1>1, <1>4, <1>5, <1>6 DEF SnapTypes, Tick
<1>8. RunsOK'
  BY DEF SnapTypeInv, RunsOK, RunOK, Writing, Tick
<1> QED
  BY <1>7, <1>8 DEF SnapTypeInv

LEMMA StepTypes ==
  ASSUME SnapTypeInv, [SnapshotNext]_snapshotVars
  PROVE  SnapTypeInv'
<1>1. CASE UNCHANGED snapshotVars
  BY <1>1 DEF snapshotVars, SnapTypeInv, SnapTypes, RunsOK, RunOK, Writing
<1> QED
  BY <1>1, TickTypes, StartTypes, LookTypes, ReadTypes, WriteSnapshotsTypes,
     WriteTotalsTypes, FinishTypes, CrashTypes DEF SnapshotNext

LEMMA SnapshotInvariant ==
  SnapshotSpec => []SnapTypeInv
BY SnapshotInits, StepTypes, PTL DEF SnapshotSpec

\* Rows, totals and runs keep their types, for any number of workers that are
\* at work at once, any tokens and wallets and any failures
\* (airdrop-worker-v2.js).
THEOREM SnapshotTypes ==
  SnapshotSpec => []SnapshotTypeOK
<1>1. SnapTypeInv => SnapshotTypeOK
  <2> SUFFICES ASSUME SnapTypeInv PROVE SnapshotTypeOK
    OBVIOUS
  <2>1. \A r \in snapshots :
          /\ DOMAIN r = {"mint", "date", "wallet", "days", "points"}
          /\ r.mint \in Tokens /\ r.wallet \in Wallets
          /\ r.date \in 1..today /\ r.days \in 0..today /\ r.points \in Nat
    BY DEF SnapTypeInv, SnapTypes, DayRowType
  <2>2. ASSUME NEW p \in Workers
        PROVE  /\ worker[p].pc \in {"idle", "tokens", "read", "snapshots", "totals"}
               /\ worker[p].tokens \subseteq Tokens
               /\ worker[p].done \in 0..Len(worker[p].entries)
    <3>1. PICK run \in RunType(today) : run = worker[p] /\ RunOK(run)
      BY WorkerTypes
    <3>2. PICK n \in Nat : n = Len(run.entries)
      BY DEF RunType
    <3>3. run.done \in 0 .. n
      BY <3>1, <3>2 DEF RunType, RunOK
    <3> QED
      BY <3>1, <3>2, <3>3 DEF RunType
  <2>3. totals \in [Tokens -> [Wallets ->
          [points : Nat, first_seen : 0..today, last : 0..today, days : Nat]]]
    BY DEF SnapTypeInv, SnapTypes, TotalType
  <2> QED
    BY <2>1, <2>2, <2>3 DEF SnapTypeInv, SnapTypes, SnapshotTypeOK
<1> QED
  BY SnapshotInvariant, <1>1, PTL
-----------------------------------------------------------------------------
(***************************************************************************)
(* The rows account for the totals, with one worker.                       *)
(***************************************************************************)
LEMMA PointsOfPart ==
  ASSUME NEW S, IsFiniteSet(S), NEW R \in SUBSET S, \A r \in S : r.points \in Nat
  PROVE  /\ PointsOf(R) \in Nat /\ PointsOf(S) \in Nat
         /\ PointsOf(R) <= PointsOf(S)
<1>1. IsFiniteSet(R)
  BY FS_Subset
<1>2. PICK f : f = [r \in S |-> r.points]
  OBVIOUS
<1>3. PICK g : g = [r \in R |-> r.points]
  OBVIOUS
<1>4. PointsOf(S) = SumFunctionOnSet(f, S) /\ PointsOf(R) = SumFunctionOnSet(g, R)
  BY <1>2, <1>3 DEF PointsOf
<1>5. SumFunctionOnSet(g, R) = SumFunctionOnSet(f, R)
  <2>1. \A r \in R : g[r] = f[r]
    BY <1>2, <1>3
  <2> QED
    BY <1>1, <2>1, SumAgree
<1>6. \A r \in S : f[r] \in Nat
  BY <1>2
<1>7. \A r \in R : f[r] \in Nat
  BY <1>6
<1>8. SumFunctionOnSet(f, S) \in Nat
  BY <1>6, SumNat
<1>9. SumFunctionOnSet(f, R) \in Nat
  BY <1>1, <1>7, SumNat
<1>10. SumFunctionOnSet(f, R) <= SumFunctionOnSet(f, S)
  BY <1>6, SumPart
<1> QED
  BY <1>4, <1>5, <1>8, <1>9, <1>10

LEMMA PointsOfOneMore ==
  ASSUME NEW R, IsFiniteSet(R), NEW x, x \notin R,
         \A r \in R \cup {x} : r.points \in Nat
  PROVE  PointsOf(R \cup {x}) = PointsOf(R) + x.points
<1>1. PICK S : S = R \cup {x}
  OBVIOUS
<1>2. IsFiniteSet(S) /\ x \in S /\ S \ {x} = R
  BY <1>1, FS_AddElement
<1>3. PICK f : f = [r \in S |-> r.points]
  OBVIOUS
<1>4. PICK g : g = [r \in R |-> r.points]
  OBVIOUS
<1>5. PointsOf(S) = SumFunctionOnSet(f, S) /\ PointsOf(R) = SumFunctionOnSet(g, R)
  BY <1>3, <1>4 DEF PointsOf
<1>6. SumFunctionOnSet(g, R) = SumFunctionOnSet(f, R)
  <2>1. \A r \in R : g[r] = f[r]
    BY <1>1, <1>3, <1>4
  <2> QED
    BY <2>1, SumAgree
<1>7. \A r \in S : f[r] \in Int
  BY <1>1, <1>3
<1>8. SumFunctionOnSet(f, S) = f[x] + SumFunctionOnSet(f, S \ {x})
  BY <1>2, <1>7, SumRemove
<1>9. f[x] = x.points
  BY <1>1, <1>3
<1>10. PointsOf(S) = x.points + PointsOf(R)
  BY <1>2, <1>5, <1>6, <1>8, <1>9
<1>11. PointsOf(R) \in Nat /\ x.points \in Nat
  BY PointsOfPart
<1> QED
  BY <1>1, <1>10, <1>11

LEMMA RowsTyped ==
  ASSUME NEW t, NEW S \in SUBSET DayRowType(t), IsFiniteSet(S), NEW R \in SUBSET S
  PROVE  IsFiniteSet(R) /\ \A r \in R : r.points \in Nat
  BY FS_Subset DEF DayRowType

LEMMA MoreRows ==
  ASSUME SnapTypeInv, SnapTypeInv', snapshots \subseteq snapshots'
  PROVE  \A m \in Tokens, w \in Wallets :
           /\ PointsOf(RowsOf(m, w)) \in Nat /\ PointsOf(RowsOf(m, w))' \in Nat
           /\ PointsOf(RowsOf(m, w)) <= PointsOf(RowsOf(m, w))'
<1> SUFFICES ASSUME NEW m \in Tokens, NEW w \in Wallets
             PROVE  /\ PointsOf(RowsOf(m, w)) \in Nat
                    /\ PointsOf(RowsOf(m, w))' \in Nat
                    /\ PointsOf(RowsOf(m, w)) <= PointsOf(RowsOf(m, w))'
  OBVIOUS
<1>1. PICK R : R = {r \in snapshots : r.mint = m /\ r.wallet = w}
  OBVIOUS
<1>2. PICK S : S = {r \in snapshots' : r.mint = m /\ r.wallet = w}
  OBVIOUS
<1>3. RowsOf(m, w) = R /\ RowsOf(m, w)' = S
  BY <1>1, <1>2 DEF RowsOf
<1>4. IsFiniteSet(S) /\ \A r \in S : r.points \in Nat
  <2>0. PICK t : t = today'
    OBVIOUS
  <2>1. PICK T \in SUBSET DayRowType(t) : T = snapshots' /\ IsFiniteSet(T)
    BY <2>0 DEF SnapTypeInv, SnapTypes
  <2>2. S \in SUBSET T
    BY <1>2, <2>1
  <2> QED
    BY <2>1, <2>2, RowsTyped
<1>5. R \in SUBSET S
  BY <1>1, <1>2
<1>6. PointsOf(R) \in Nat /\ PointsOf(S) \in Nat /\ PointsOf(R) <= PointsOf(S)
  BY <1>4, <1>5, PointsOfPart
<1>7. PointsOf(RowsOf(m, w)) = PointsOf(R) /\ PointsOf(RowsOf(m, w))' = PointsOf(S)
  BY <1>3 DEF PointsOf
<1> QED
  BY <1>6, <1>7

\* A row that no other of its wallet had been.
LEMMA RowAdded ==
  ASSUME SnapTypeInv, SnapTypeInv', NEW m \in Tokens, NEW w \in Wallets, NEW row,
         row \notin RowsOf(m, w), RowsOf(m, w)' = RowsOf(m, w) \cup {row}
  PROVE  /\ PointsOf(RowsOf(m, w)) \in Nat /\ row.points \in Nat
         /\ PointsOf(RowsOf(m, w))' = PointsOf(RowsOf(m, w)) + row.points
<1>1. PICK R : R = RowsOf(m, w)
  OBVIOUS
<1>2. PICK S : S = RowsOf(m, w)'
  OBVIOUS
<1>3. S = R \cup {row} /\ row \notin R
  BY <1>1, <1>2
<1>4. IsFiniteSet(S) /\ \A r \in S : r.points \in Nat
  <2>0. PICK t : t = today'
    OBVIOUS
  <2>1. PICK T \in SUBSET DayRowType(t) : T = snapshots' /\ IsFiniteSet(T)
    BY <2>0 DEF SnapTypeInv, SnapTypes
  <2>2. S \in SUBSET T
    BY <1>2, <2>1 DEF RowsOf
  <2> QED
    BY <2>1, <2>2, RowsTyped
<1>5. IsFiniteSet(R) /\ R \in SUBSET S
  BY <1>3, <1>4, FS_Subset
<1>6. PointsOf(R) \in Nat
  BY <1>4, <1>5, PointsOfPart
<1>7. PointsOf(S) = PointsOf(R) + row.points
  BY <1>3, <1>4, <1>5, PointsOfOneMore
<1>8. PointsOf(RowsOf(m, w)) = PointsOf(R) /\ PointsOf(RowsOf(m, w))' = PointsOf(S)
  BY <1>1, <1>2 DEF PointsOf
<1> QED
  BY <1>3, <1>4, <1>6, <1>7, <1>8

LEMMA TotalsKept ==
  ASSUME SnapTypeInv, SnapTypeInv', NeverOverCredited, UNCHANGED totals,
         snapshots \subseteq snapshots'
  PROVE  NeverOverCredited'
<1> SUFFICES ASSUME NEW m \in Tokens, NEW w \in Wallets
             PROVE  (totals[m][w].points <= PointsOf(RowsOf(m, w)))'
  BY DEF NeverOverCredited
<1>1. PICK x \in Nat : x = totals[m][w].points
  BY DEF SnapTypeInv, SnapTypes, TotalType
<1>2. x <= PointsOf(RowsOf(m, w)) /\ totals'[m][w].points = x
  BY <1>1, SMTT(30) DEF NeverOverCredited
<1> QED
  BY <1>1, <1>2, MoreRows

LEMMA OneGoes ==
  ASSUME OneWorker, SnapTypeInv, NEW p \in Workers, NEW to, Goes(p, to),
         Covered(to)', NeverOverCredited'
  PROVE  CreditInv'
<1>1. \A q \in Workers : worker'[q] = to
  <2>1. worker \in [Workers -> RunType(today)]
    BY DEF SnapTypeInv, SnapTypes
  <2> QED
    BY <2>1 DEF Goes, OneWorker
<1> QED
  BY <1>1 DEF CreditInv, Covered, Fresh, RowComes, TotalComes

\* A run with nothing at hand.
LEMMA OneLeaves ==
  ASSUME OneWorker, SnapTypeInv, NEW p \in Workers, NEW to, Goes(p, to),
         to.pc \in {"idle", "tokens"}, NeverOverCredited'
  PROVE  CreditInv'
<1>1. Covered(to)'
  BY DEF Covered, Fresh, RowComes, TotalComes
<1> QED
  BY <1>1, OneGoes

LEMMA OneLeavesToken ==
  ASSUME OneWorker, SnapTypeInv, NEW p \in Workers, worker[p].pc # "idle",
         NEW m \in Tokens, Goes(p, LeaveToken(worker[p], m)), NeverOverCredited'
  PROVE  CreditInv'
<1>1. PICK to : to = LeaveToken(worker[p], m) /\ to.pc = "tokens"
  BY WorkerTypes, LeaveTyped
<1> QED
  BY <1>1, OneLeaves

LEMMA LookCredit ==
  ASSUME OneWorker, SnapTypeInv, SnapTypeInv', CreditInv, NEW p \in Workers,
         NEW m \in Tokens, Look(p, m)
  PROVE  CreditInv'
<1>1. PICK run \in RunType(today) : run = worker[p] /\ RunOK(run)
  BY WorkerTypes
<1>2. run.pc = "tokens" /\ UNCHANGED <<snapshots, totals>>
  BY <1>1 DEF Look
<1>3. NeverOverCredited'
  BY <1>2, TotalsKept DEF CreditInv
<1>4. CASE Goes(p, LeaveToken(run, m))
  BY <1>1, <1>2, <1>3, <1>4, OneLeavesToken
<1>5. CASE ~Goes(p, LeaveToken(run, m))
  <2>1. PICK to : to = [run EXCEPT !.pc = "read", !.mint = m]
    OBVIOUS
  <2>2. Goes(p, to) /\ ~snapshotExistsForDate(m, Head(run.dates))
    BY <1>1, <1>5, <2>1 DEF Look, Dropped
  <2>3. to.pc = "read" /\ to.mint = m /\ to.dates = run.dates
    BY <2>1 DEF RunType
  <2>4. Covered(to)'
    BY <1>2, <2>2, <2>3 DEF Covered, Fresh, RowComes, TotalComes, snapshotExistsForDate
  <2> QED
    BY <1>3, <2>2, <2>4, OneGoes
<1> QED
  BY <1>4, <1>5

LEMMA ReadCredit ==
  ASSUME OneWorker, SnapTypeInv, SnapTypeInv', CreditInv, NEW p \in Workers, ReadTotals(p)
  PROVE  CreditInv'
<1>1. PICK run \in RunType(today) : run = worker[p] /\ RunOK(run)
  BY WorkerTypes, SMTT(30)
<1>2. PICK m \in Tokens : m = run.mint
  BY <1>1 DEF ReadTotals, RunOK
<1>3. run.pc = "read" /\ UNCHANGED <<snapshots, totals>>
  BY <1>1 DEF ReadTotals
<1>4. NeverOverCredited'
  BY <1>3, TotalsKept DEF CreditInv
<1>5. CASE Goes(p, LeaveToken(run, m))
  BY <1>1, <1>3, <1>4, <1>5, OneLeavesToken
<1>6. CASE ~Goes(p, LeaveToken(run, m))
  <2>1. PICK entries : /\ Goes(p, [run EXCEPT !.pc = "snapshots", !.entries = entries])
                       /\ Lists(m, Head(run.dates), entries)
    BY <1>1, <1>2, <1>6, ReadIs
  <2>2. PICK to : to = [run EXCEPT !.pc = "snapshots", !.entries = entries]
    OBVIOUS
  <2>3. /\ to.pc = "snapshots" /\ to.mint = m /\ to.dates = run.dates
        /\ to.entries = entries /\ to.done = 0
    BY <1>1, <1>2, <1>3, <2>2 DEF RunType, RunOK, Writing
  <2>4. ASSUME NEW i \in DOMAIN entries
        PROVE  /\ entries[i].total.points =
                    totals[m][entries[i].row.wallet].points + entries[i].row.points
               /\ ~(i <= 0)
               /\ \A r \in RowsOf(m, entries[i].row.wallet) : r.date # Head(run.dates)
    <3>1. ~(i <= 0)
      BY <2>1, <2>4 DEF Lists
    <3>2. Fresh(run)
      BY <1>1 DEF CreditInv, Covered
    <3>3. \A r \in snapshots : ~(r.mint = m /\ r.date = Head(run.dates))
      BY <1>2, <1>3, <3>2 DEF Fresh
    <3> QED
      BY <2>1, <3>1, <3>3 DEF Lists, RowsOf
  <2>5. Covered(to)'
    BY <1>3, <2>3, <2>4 DEF Covered, Fresh, RowComes, TotalComes, RowsOf
  <2> QED
    BY <1>4, <2>1, <2>2, <2>5, OneGoes
<1> QED
  BY <1>5, <1>6

\* The rows of a batch are added to those there are.
LEMMA RowsWritten ==
  ASSUME SnapTypeInv, CreditInv, NEW p \in Workers, WriteSnapshots(p),
         NEW rows, rows = {worker[p].entries[i].row : i \in Chunk(worker[p])}
  PROVE  UNCHANGED snapshots \/ snapshots' = snapshots \cup rows
<1>1. PICK run \in RunType(today) : run = worker[p] /\ RunOK(run)
  BY WorkerTypes
<1>2. run.pc = "snapshots" /\ Covered(run)
  BY <1>1 DEF WriteSnapshots, CreditInv
<1>3. ASSUME NEW r \in snapshots, NEW s \in rows
      PROVE  ~(r.mint = s.mint /\ r.date = s.date /\ r.wallet = s.wallet)
  <2>1. PICK i \in Chunk(run) : s = run.entries[i].row
    BY <1>1, <1>3
  <2>2. i \in DOMAIN run.entries /\ ~(i <= run.done)
    <3>1. PICK n \in Nat : n = Len(run.entries)
      BY DEF RunType
    <3>2. PICK d \in Nat : d = run.done
      BY DEF RunType
    <3>3. PICK top \in d + 1 .. n : Chunk(run) = d + 1 .. top
      BY <1>1, <1>2, <3>1, <3>2, ChunkIs DEF RunOK, Writing
    <3>4. i \in 1 .. n /\ ~(i <= d)
      BY <2>1, <3>3
    <3> QED
      BY <3>1, <3>2, <3>4 DEF RunType
  <2>3. \A q \in RowsOf(run.mint, s.wallet) : q.date # Head(run.dates)
    BY <1>2, <2>1, <2>2 DEF Covered, RowComes
  <2>4. s.mint = run.mint /\ s.date = Head(run.dates)
    BY <1>1, <1>2, <2>1, <2>2 DEF RunOK, Writing
  <2> QED
    BY <2>3, <2>4 DEF RowsOf
<1>4. \/ UNCHANGED snapshots
      \/ snapshots' = {r \in snapshots : \A s \in rows :
             ~(r.mint = s.mint /\ r.date = s.date /\ r.wallet = s.wallet)} \cup rows
  BY DEF WriteSnapshots, Post
<1> QED
  BY <1>3, <1>4

\* Then the rows of a wallet are one more if it is in the batch, and the same
\* if it comes later.
LEMMA EntriesWritten ==
  ASSUME SnapTypeInv, SnapTypeInv', CreditInv, NEW p \in Workers, NEW run, run = worker[p],
         run.pc = "snapshots", NEW m, m = run.mint,
         NEW top \in run.done + 1 .. Len(run.entries),
         snapshots' = snapshots \cup {run.entries[i].row : i \in run.done + 1 .. top}
  PROVE  \A i \in DOMAIN run.entries :
           LET e == run.entries[i]
           IN  IF i <= top
               THEN e.total.points <= PointsOf(RowsOf(m, e.row.wallet))'
               ELSE \A r \in RowsOf(m, e.row.wallet)' : r.date # Head(run.dates)
<1>1. run \in RunType(today) /\ RunOK(run) /\ run = worker[p]
  BY WorkerTypes
<1>2. PICK d \in Nat : d = run.done
  BY <1>1 DEF RunType
<1>3. PICK n \in Nat : n = Len(run.entries) /\ DOMAIN run.entries = 1 .. n
  BY <1>1 DEF RunType
<1>4. top \in d + 1 .. n
  BY <1>1, <1>2, <1>3
<1>5. RowComes(run) /\ m \in Tokens /\ run.pc = "snapshots" /\ m = run.mint
  BY <1>1 DEF CreditInv, Covered, RunOK, Writing
<1>6. PICK old : old = snapshots
  OBVIOUS
<1>7. PICK new : new = snapshots'
  OBVIOUS
<1>8. new = old \cup {run.entries[i].row : i \in d + 1 .. top}
  BY <1>1, <1>2, <1>6, <1>7
<1> SUFFICES ASSUME NEW i \in 1 .. n
             PROVE  IF i <= top
                    THEN run.entries[i].total.points
                           <= PointsOf(RowsOf(m, run.entries[i].row.wallet))'
                    ELSE \A r \in RowsOf(m, run.entries[i].row.wallet)' :
                           r.date # Head(run.dates)
  BY <1>1, <1>3
<1>9. PICK e : e = run.entries[i]
  OBVIOUS
<1>10. PICK w \in Wallets : w = e.row.wallet
  <2>1. e \in EntryType(today)
    BY <1>1, <1>3, <1>9, SMTT(30) DEF RunType
  <2> QED
    BY <2>1 DEF EntryType, DayRowType
<1>11. /\ e.total.points = totals[m][w].points + e.row.points
       /\ IF i <= d
          THEN e.total.points <= PointsOf(RowsOf(m, w))
          ELSE \A r \in RowsOf(m, w) : r.date # Head(run.dates)
  BY <1>2, <1>3, <1>5, <1>9, <1>10 DEF RowComes
<1>12. e.row.mint = m /\ e.row.date = Head(run.dates)
  BY <1>1, <1>3, <1>5, <1>9 DEF RunOK, Writing
<1>13. e.total.points \in Nat /\ totals[m][w].points \in Nat /\ e.row.points \in Nat
  <2>1. e \in EntryType(today)
    BY <1>1, <1>3, <1>9 DEF RunType
  <2> QED
    BY <1>5, <2>1, ZenonT(60) DEF EntryType, DayRowType, TotalType, SnapTypeInv, SnapTypes
<1>14. \A j \in 1 .. n : run.entries[j].row.wallet = w => j = i
  BY <1>1, <1>3, <1>5, <1>9, <1>10 DEF RunOK, Writing
<1>15. CASE i <= d
  <2>1. PointsOf(RowsOf(m, w)) \in Nat /\ PointsOf(RowsOf(m, w))' \in Nat
    BY <1>5, <1>6, <1>7, <1>8, MoreRows
  <2>2. PointsOf(RowsOf(m, w)) <= PointsOf(RowsOf(m, w))'
    BY <1>5, <1>6, <1>7, <1>8, MoreRows
  <2>3. e.total.points <= PointsOf(RowsOf(m, w))
    BY <1>11, <1>15
  <2>4. e.total.points <= PointsOf(RowsOf(m, w))'
    BY <1>13, <2>1, <2>2, <2>3
  <2>5. i <= top
    BY <1>4, <1>15
  <2> QED
    BY <1>9, <1>10, <2>4, <2>5
<1>16. CASE i > d /\ i <= top
  <2>1. \A r \in RowsOf(m, w) : r.date # Head(run.dates)
    BY <1>11, <1>16
  <2>2. e.row \notin RowsOf(m, w)
    BY <1>12, <2>1
  <2>3. RowsOf(m, w)' = RowsOf(m, w) \cup {e.row}
    <3>1. \A j \in d + 1 .. top : j \in 1 .. n
      BY <1>4
    <3>2. i \in d + 1 .. top
      BY <1>4, <1>16
    <3>3. \A r : r \in RowsOf(m, w)' <=>
                   r \in RowsOf(m, w) \/ r = e.row
      <4>1. ASSUME NEW r, r \in new, r \notin old, r.wallet = w
            PROVE  r = e.row
        <5>1. PICK j \in d + 1 .. top : r = run.entries[j].row
          BY <1>8, <4>1
        <5> QED
          BY <1>9, <1>14, <3>1, <4>1, <5>1
      <4>2. e.row \in new /\ e.row.mint = m /\ e.row.wallet = w
        BY <1>8, <1>9, <1>10, <1>12, <3>2
      <4>3. old \subseteq new
        BY <1>8
      <4> QED
        BY <1>6, <1>7, <4>1, <4>2, <4>3 DEF RowsOf
    <3> QED
      BY <3>3
  <2>4. PICK row : row = e.row
    OBVIOUS
  <2>5. PointsOf(RowsOf(m, w)) \in Nat
        /\ PointsOf(RowsOf(m, w))' = PointsOf(RowsOf(m, w)) + e.row.points
    BY <1>5, <2>2, <2>3, <2>4, RowAdded
  <2>6. totals[m][w].points <= PointsOf(RowsOf(m, w))
    BY <1>5 DEF CreditInv, NeverOverCredited
  <2>7. e.total.points <= PointsOf(RowsOf(m, w))'
    BY <1>11, <1>13, <2>5, <2>6
  <2> QED
    BY <1>9, <1>10, <1>16, <2>7
<1>17. CASE ~(i <= top)
  <2>1. ~(i <= d)
    BY <1>4, <1>17
  <2>2. \A r \in RowsOf(m, w) : r.date # Head(run.dates)
    BY <1>11, <2>1
  <2>3. \A r \in RowsOf(m, w)' : r \in RowsOf(m, w)
    <3>1. \A j \in d + 1 .. top : j \in 1 .. n /\ j # i
      BY <1>4, <1>17
    <3>2. \A j \in d + 1 .. top : run.entries[j].row.wallet # w
      BY <1>14, <3>1
    <3>3. \A r \in new : r.wallet = w => r \in old
      BY <1>8, <3>2
    <3> QED
      BY <1>6, <1>7, <3>3 DEF RowsOf
  <2> QED
    BY <1>9, <1>10, <1>17, <2>2, <2>3
<1> QED
  BY <1>2, <1>4, <1>15, <1>16, <1>17

LEMMA WriteSnapshotsCredit ==
  ASSUME OneWorker, SnapTypeInv, SnapTypeInv', CreditInv, NEW p \in Workers,
         WriteSnapshots(p)
  PROVE  CreditInv'
<1>1. PICK run \in RunType(today) : run = worker[p] /\ RunOK(run)
  BY WorkerTypes
<1>2. PICK m \in Tokens : m = run.mint
  BY <1>1 DEF WriteSnapshots, RunOK, Writing
<1>3. PICK then : then = [run EXCEPT !.pc = "totals", !.done = 0]
  OBVIOUS
<1>4. run.pc = "snapshots" /\ UNCHANGED totals
  BY <1>1 DEF WriteSnapshots
<1>5. PICK top \in run.done + 1 .. Len(run.entries) : Chunk(run) = run.done + 1 .. top
  BY <1>1, <1>4, ChunkIs DEF RunOK, Writing
<1>6. PICK rows : rows = {run.entries[i].row : i \in Chunk(run)}
  OBVIOUS
<1>7. UNCHANGED snapshots \/ snapshots' = snapshots \cup rows
  <2>1. rows = {worker[p].entries[i].row : i \in Chunk(worker[p])}
    BY <1>1, <1>6
  <2> QED
    BY <2>1, RowsWritten
<1>8. NeverOverCredited'
  BY <1>4, <1>7, TotalsKept DEF CreditInv
<1>9. CASE Goes(p, LeaveToken(run, m))
  BY <1>1, <1>2, <1>4, <1>8, <1>9, OneLeavesToken
<1>10. CASE ~Goes(p, LeaveToken(run, m))
  <2>1. Advance(p, then)
    BY <1>1, <1>2, <1>3, <1>10 DEF WriteSnapshots, Post, Dropped
  <2>2. PICK t \in run.done + 1 .. Len(run.entries) :
          /\ Chunk(run) = run.done + 1 .. t
          /\ IF t < Len(run.entries)
             THEN Goes(p, [run EXCEPT !.done = t]) ELSE Goes(p, then)
    BY <1>1, <1>4, <2>1, AdvanceIs DEF Writing
  <2>3. snapshots' = snapshots \cup {run.entries[i].row : i \in run.done + 1 .. t}
    <3>1. ~Dropped(p, run.mint)
      BY <1>1, <1>2, <1>10 DEF Dropped
    <3>2. snapshots' = {r \in snapshots : \A s \in rows :
             ~(r.mint = s.mint /\ r.date = s.date /\ r.wallet = s.wallet)} \cup rows
      BY <1>1, <1>6, <3>1 DEF WriteSnapshots, Post
    <3>3. snapshots' = snapshots \cup rows
      BY <1>7, <3>2
    <3> QED
      BY <1>6, <2>2, <3>3
  <2>4. \A i \in DOMAIN run.entries :
          LET e == run.entries[i]
          IN  IF i <= t
              THEN e.total.points <= PointsOf(RowsOf(m, e.row.wallet))'
              ELSE \A r \in RowsOf(m, e.row.wallet)' : r.date # Head(run.dates)
    BY <1>1, <1>2, <1>4, <2>2, <2>3, EntriesWritten, SMTT(30)
  <2>5. CASE t < Len(run.entries)
    <3>1. PICK to : to = [run EXCEPT !.done = t]
      OBVIOUS
    <3>2. /\ to.pc = "snapshots" /\ to.mint = m /\ to.dates = run.dates
          /\ to.entries = run.entries /\ to.done = t
      BY <1>2, <1>4, <3>1 DEF RunType
    <3>3. RowComes(run)
      BY <1>1 DEF CreditInv, Covered
    <3>4. \A i \in DOMAIN run.entries :
            LET e == run.entries[i]
            IN  e.total.points = totals[m][e.row.wallet].points + e.row.points
      BY <1>2, <1>4, <3>3 DEF RowComes
    <3>5. RowComes(to)'
      BY <1>4, <2>4, <3>2, <3>4 DEF RowComes
    <3>6. Covered(to)'
      BY <3>2, <3>5 DEF Covered, Fresh, TotalComes
    <3> QED
      BY <1>8, <2>2, <2>5, <3>1, <3>6, OneGoes
  <2>6. CASE ~(t < Len(run.entries))
    <3>1. then.pc = "totals" /\ then.mint = m /\ then.entries = run.entries
      BY <1>2, <1>3 DEF RunType
    <3>2. \A i \in DOMAIN run.entries : i <= t
      BY <2>2, <2>6 DEF RunType
    <3>3. TotalComes(then)'
      BY <2>4, <3>1, <3>2 DEF TotalComes
    <3>4. Covered(then)'
      BY <3>1, <3>3, SMTT(30) DEF Covered, Fresh, RowComes
    <3> QED
      BY <1>8, <2>2, <2>6, <3>4, OneGoes
  <2> QED
    BY <2>5, <2>6
<1> QED
  BY <1>9, <1>10

LEMMA WriteTotalsCredit ==
  ASSUME OneWorker, SnapTypeInv, SnapTypeInv', CreditInv, NEW p \in Workers, WriteTotals(p)
  PROVE  CreditInv'
<1>1. PICK run \in RunType(today) : run = worker[p] /\ RunOK(run)
  BY WorkerTypes
<1>2. PICK m \in Tokens : m = run.mint
  BY <1>1 DEF WriteTotals, RunOK, Writing
<1>3. run.pc = "totals" /\ UNCHANGED snapshots /\ TotalComes(run)
  BY <1>1 DEF WriteTotals, CreditInv, Covered
<1>4. \A i \in DOMAIN run.entries : i > run.done =>
        run.entries[i].total.points <= PointsOf(RowsOf(m, run.entries[i].row.wallet))
  BY <1>2, <1>3 DEF TotalComes
<1>5. \A n, w : RowsOf(n, w)' = RowsOf(n, w)
  BY <1>3 DEF RowsOf
<1>6. \A n, w : PointsOf(RowsOf(n, w))' = PointsOf(RowsOf(n, w))
  BY <1>5 DEF PointsOf
<1>7. NeverOverCredited'
  <2> SUFFICES ASSUME NEW n \in Tokens, NEW w \in Wallets
               PROVE  totals'[n][w].points <= PointsOf(RowsOf(n, w))
    BY <1>6 DEF NeverOverCredited
  <2>1. totals[n][w].points <= PointsOf(RowsOf(n, w))
    BY DEF CreditInv, NeverOverCredited
  <2>2. \/ totals'[n][w] = totals[n][w]
        \/ /\ n = m
           /\ \E i \in DOMAIN run.entries :
                /\ i > run.done /\ run.entries[i].row.wallet = w
                /\ totals'[n][w] = run.entries[i].total
    BY <1>1, <1>2, WriteTotalsIs DEF TotalsWritten
  <2> QED
    BY <1>4, <2>1, <2>2
<1>8. CASE Goes(p, LeaveToken(run, m))
  BY <1>1, <1>2, <1>3, <1>7, <1>8, OneLeavesToken
<1>9. CASE ~Goes(p, LeaveToken(run, m))
  <2>1. PICK then : then = LeaveToken(run, m)
    BY SMTT(30)
  <2>2. Advance(p, then)
    BY <1>1, <1>2, <1>9, <2>1 DEF WriteTotals, Post, Dropped
  <2>3. PICK t \in run.done + 1 .. Len(run.entries) :
          IF t < Len(run.entries)
          THEN Goes(p, [run EXCEPT !.done = t]) ELSE Goes(p, then)
    BY <1>1, <1>3, <2>2, AdvanceIs DEF Writing
  <2>4. PICK to : to = [run EXCEPT !.done = t]
    OBVIOUS
  <2>5. Goes(p, to)
    BY <1>9, <2>1, <2>3, <2>4
  <2>6. to.pc = "totals" /\ to.mint = m /\ to.entries = run.entries /\ to.done = t
    BY <1>2, <1>3, <2>4 DEF RunType
  <2>7. \A i \in DOMAIN run.entries : i > t => i > run.done
    BY <2>3 DEF RunType
  <2>8. TotalComes(to)'
    BY <1>4, <1>6, <2>6, <2>7 DEF TotalComes
  <2>9. Covered(to)'
    BY <2>6, <2>8 DEF Covered, Fresh, RowComes
  <2> QED
    BY <1>7, <2>5, <2>9, OneGoes
<1> QED
  BY <1>8, <1>9

LEMMA StepCredit ==
  ASSUME OneWorker, SnapTypeInv, SnapTypeInv', CreditInv, [SnapshotNext]_snapshotVars
  PROVE  CreditInv'
<1>1. ASSUME UNCHANGED <<snapshots, totals, worker>> PROVE CreditInv'
  <2>1. \A m, w : RowsOf(m, w)' = RowsOf(m, w)
    BY <1>1 DEF RowsOf
  <2>2. \A m, w : PointsOf(RowsOf(m, w))' = PointsOf(RowsOf(m, w))
    BY <2>1 DEF PointsOf
  <2>3. NeverOverCredited'
    BY <1>1, <2>2 DEF CreditInv, NeverOverCredited
  <2>4. ASSUME NEW p \in Workers PROVE Covered(worker[p])'
    <3>1. PICK run : run = worker[p] /\ Covered(run)
      BY DEF CreditInv
    <3>2. worker'[p] = run
      BY <1>1, <3>1
    <3>3. Fresh(run)'
      BY <1>1, <3>1, SMTT(30) DEF Covered, Fresh
    <3>4. RowComes(run)'
      BY <1>1, <2>1, <2>2, <3>1 DEF Covered, RowComes
    <3>5. TotalComes(run)'
      BY <2>2, <3>1 DEF Covered, TotalComes
    <3> QED
      BY <3>2, <3>3, <3>4, <3>5 DEF Covered, Fresh, RowComes, TotalComes
  <2> QED
    BY <2>3, <2>4 DEF CreditInv, Covered, Fresh, RowComes, TotalComes
<1>2. CASE Tick \/ UNCHANGED snapshotVars
  BY <1>1, <1>2 DEF Tick, snapshotVars
<1>3. ASSUME NEW p \in Workers, Start(p) \/ Crash(p) \/ Finish(p)
      PROVE  CreditInv'
  <2>1. \E to : Goes(p, to) /\ to.pc \in {"idle", "tokens"}
    <3>1. CASE Start(p)
      <4>1. PICK to : to = [Idle EXCEPT !.pc = "tokens", !.date = today,
                              !.dates = DatesOfRun(today), !.tokens = Tokens]
        OBVIOUS
      <4>2. to.pc = "tokens"
        BY <4>1 DEF Idle
      <4> QED
        BY <3>1, <4>1, <4>2 DEF Start
    <3>2. CASE Crash(p) \/ Finish(p)
      BY <3>2 DEF Crash, Finish, Idle
    <3> QED
      BY <1>3, <3>1, <3>2
  <2>2. NeverOverCredited'
    BY <1>3, TotalsKept DEF CreditInv, Start, Crash, Finish
  <2> QED
    BY <2>1, <2>2, OneLeaves
<1> QED
  BY <1>2, <1>3, LookCredit, ReadCredit, WriteSnapshotsCredit, WriteTotalsCredit, SMTT(30)
     DEF SnapshotNext

\* With one worker no wallet's total of a token is more than its rows account
\* for: whatever requests fail, are written without a reply or are run again,
\* wherever the process dies, and however many days it catches up on
\* (airdrop-worker-v2.js, "Idempotent writes").
THEOREM NeverMore ==
  ASSUME OneWorker
  PROVE  SnapshotSpec => []NeverOverCredited
<1>1. SnapshotInit => SnapTypeInv /\ CreditInv
  BY SnapshotInits
<1>2. SnapTypeInv /\ CreditInv /\ [SnapshotNext]_snapshotVars => (SnapTypeInv /\ CreditInv)'
  BY StepTypes, StepCredit
<1>3. SnapTypeInv /\ CreditInv => NeverOverCredited
  BY DEF CreditInv
<1> QED
  BY <1>1, <1>2, <1>3, PTL DEF SnapshotSpec

-----------------------------------------------------------------------------
\* Snapshot: what a failure costs.

\* A day of a token and a wallet has one row.
OneRowADay(rows) ==
  \A r, s \in rows :
    r.mint = s.mint /\ r.date = s.date /\ r.wallet = s.wallet => r = s

\* The first of the days that a run goes through.
FirstDay(date, last) ==
  IF last # None /\ date - last - 1 \in 1 .. MAX_BACKFILL THEN last + 1 ELSE date

\* A run has its last days, without a gap, before it.
RunDates(run, last) ==
  run.pc # "idle" =>
    /\ \A i \in 1 .. Len(run.dates) : run.dates[i] = run.date - Len(run.dates) + i
    /\ FirstDay(run.date, last) <= Head(run.dates)
    /\ run.tokens = {} /\ Tokens # {} => Len(run.dates) = 1
    /\ run.pc \in {"read"} \cup Writing => run.mint \in run.tokens

InHand(run, m) == run.pc \in Writing /\ run.mint = m

\* The days that a run is done with for a token, or has in hand.
Passed(run, m, last) ==
  IF run.pc = "idle" THEN {}
  ELSE FirstDay(run.date, last) ..
         (IF m \in run.tokens /\ ~InHand(run, m)
          THEN Head(run.dates) - 1 ELSE Head(run.dates))

Begun(m, rows) == {d \in Nat : \E r \in rows : r.mint = m /\ r.date = d}

\* The days that the total of a token's holders may come to be asked for.
Due(run, m, ow, rows, last) == ow \cup Begun(m, rows) \cup Passed(run, m, last)

\* Whether the run at work will count a day for the wallet.
Promised(run, m, w) ==
  IF /\ InHand(run, m)
     /\ \E i \in 1 .. Len(run.entries) :
          /\ run.entries[i].row.wallet = w
          /\ run.pc = "totals" => i > run.done
  THEN 1 ELSE 0

NextDays(run, tot) ==
  run.pc \in Writing =>
    \A i \in 1 .. Len(run.entries) :
      (run.pc = "totals" => i > run.done) =>
        run.entries[i].total.days
          = tot[run.mint][run.entries[i].row.wallet].days + 1

\* The days that a wallet's total lacks of a token.
Lack(run, ow, rows, last, tot) ==
  [m \in Tokens |-> [w \in Loyal |->
     Cardinality(Due(run, m, ow, rows, last)) - tot[m][w].days
       - Promised(run, m, w)]]

\* Every token can be given a part of the failures that makes up for what any
\* one of its holders lacks.
Affords(lack, n) ==
  \E cost \in [Tokens -> Nat] :
    /\ SumFunctionOnSet(cost, Tokens) <= n
    /\ \A m \in Tokens, w \in Loyal : lack[m][w] <= cost[m]

DayInv ==
  /\ OneRowADay(snapshots)
  /\ \A p \in Workers :
       /\ RunDates(worker[p], lastDate) /\ NextDays(worker[p], totals)
       /\ Affords(Lack(worker[p], owed, snapshots, lastDate, totals), faults)

-----------------------------------------------------------------------------
LEMMA AffordsLess ==
  ASSUME IsFiniteSet(Tokens), NEW a, NEW b, NEW n \in Nat, NEW k \in Nat, n <= k,
         Affords(a, n),
         \A m \in Tokens, w \in Loyal :
           a[m][w] \in Int /\ b[m][w] \in Int /\ b[m][w] <= a[m][w]
  PROVE  Affords(b, k)
<1>1. PICK cost \in [Tokens -> Nat] :
        /\ SumFunctionOnSet(cost, Tokens) <= n
        /\ \A m \in Tokens, w \in Loyal : a[m][w] <= cost[m]
  BY DEF Affords
<1>2. SumFunctionOnSet(cost, Tokens) \in Nat
  BY <1>1, SumNat
<1>3. SumFunctionOnSet(cost, Tokens) <= k
  BY <1>1, <1>2
<1>4. \A m \in Tokens, w \in Loyal : b[m][w] <= cost[m]
  BY <1>1
<1> QED
  BY <1>1, <1>3, <1>4 DEF Affords

\* A failure pays for one more day of one token.
LEMMA AffordsMore ==
  ASSUME IsFiniteSet(Tokens), NEW a, NEW b, NEW n \in Nat, Affords(a, n),
         NEW x \in Tokens,
         \A m \in Tokens, w \in Loyal :
           /\ a[m][w] \in Int /\ b[m][w] \in Int
           /\ b[m][w] <= a[m][w] + (IF m = x THEN 1 ELSE 0)
  PROVE  Affords(b, n + 1)
<1>1. PICK cost \in [Tokens -> Nat] :
        /\ SumFunctionOnSet(cost, Tokens) <= n
        /\ \A m \in Tokens, w \in Loyal : a[m][w] <= cost[m]
  BY DEF Affords
<1>2. PICK more : more = [cost EXCEPT ![x] = cost[x] + 1]
  OBVIOUS
<1>3. /\ more \in [Tokens -> Nat]
      /\ \A m \in Tokens : more[m] = cost[m] + (IF m = x THEN 1 ELSE 0)
  BY <1>1, <1>2
<1>4. SumFunctionOnSet(more, Tokens) = SumFunctionOnSet(cost, Tokens) + 1
  <2>1. /\ SumFunctionOnSet(cost, Tokens)
             = cost[x] + SumFunctionOnSet(cost, Tokens \ {x})
        /\ SumFunctionOnSet(more, Tokens)
             = more[x] + SumFunctionOnSet(more, Tokens \ {x})
    BY <1>1, <1>3, SumRemove
  <2>2. IsFiniteSet(Tokens \ {x})
    BY FS_RemoveElement
  <2>3. SumFunctionOnSet(more, Tokens \ {x}) = SumFunctionOnSet(cost, Tokens \ {x})
    <3>1. \A m \in Tokens \ {x} : more[m] = cost[m]
      BY <1>1, <1>3
    <3> QED
      BY <2>2, <3>1, SumAgree
  <2>4. SumFunctionOnSet(cost, Tokens \ {x}) \in Nat
    <3>1. \A m \in Tokens \ {x} : cost[m] \in Nat
      BY <1>1
    <3> QED
      BY <2>2, <3>1, SumNat
  <2> QED
    BY <1>1, <1>3, <2>1, <2>3, <2>4
<1>5. SumFunctionOnSet(cost, Tokens) \in Nat
  BY <1>1, SumNat
<1>6. SumFunctionOnSet(more, Tokens) <= n + 1
  BY <1>1, <1>4, <1>5
<1>7. \A m \in Tokens, w \in Loyal : b[m][w] <= more[m]
  BY <1>1, <1>3
<1> QED
  BY <1>3, <1>6, <1>7 DEF Affords

-----------------------------------------------------------------------------
\* Days are numbers up to today, so that there are finitely many.
LEMMA DueIsFinite ==
  ASSUME NEW t \in Nat, NEW run \in RunType(t), RunOK(run),
         NEW ow \in SUBSET (1 .. t), NEW rows \in SUBSET DayRowType(t),
         NEW last \in 0 .. t, NEW m
  PROVE  /\ Due(run, m, ow, rows, last) \in SUBSET (1 .. t)
         /\ IsFiniteSet(Due(run, m, ow, rows, last))
         /\ Cardinality(Due(run, m, ow, rows, last)) \in Nat
<1>1. Begun(m, rows) \in SUBSET (1 .. t)
  BY DEF Begun, DayRowType
<1>2. Passed(run, m, last) \in SUBSET (1 .. t)
  <2>1. CASE run.pc = "idle"
    BY <2>1 DEF Passed
  <2>2. CASE run.pc # "idle"
    <3>1. PICK date \in 1 .. t : date = run.date
      BY <2>2 DEF RunType, RunOK
    <3>2. PICK first \in 1 .. t : first = FirstDay(date, last)
      BY <3>1, SnapshotConstants DEF FirstDay, None
    <3>3. PICK head \in 1 .. t : head = Head(run.dates)
      <4>1. run.dates \in Seq(1 .. t) /\ run.dates # <<>>
        BY <2>2 DEF RunType, RunOK
      <4>2. PICK dates : dates = run.dates
        OBVIOUS
      <4> QED
        BY <4>1, <4>2, HeadOfSeq
    <3>4. \/ Passed(run, m, last) = first .. head
          \/ Passed(run, m, last) = first .. head - 1
      BY <2>2, <3>1, <3>2, <3>3 DEF Passed
    <3> QED
      BY <3>2, <3>3, <3>4
  <2> QED
    BY <2>1, <2>2
<1>3. Due(run, m, ow, rows, last) \in SUBSET (1 .. t)
  BY <1>1, <1>2 DEF Due
<1>4. IsFiniteSet(1 .. t)
  BY FS_Interval
<1>5. IsFiniteSet(Due(run, m, ow, rows, last))
  BY <1>3, <1>4, FS_Subset
<1> QED
  BY <1>3, <1>5, FS_CardinalityType

\* What a run, rows, dates and totals are.
DayTypes(t, run, ow, rows, last, tot) ==
  /\ t \in Nat /\ run \in RunType(t) /\ RunOK(run)
  /\ ow \in SUBSET (1 .. t) /\ rows \in SUBSET DayRowType(t)
  /\ last \in 0 .. t /\ tot \in [Tokens -> [Wallets -> TotalType(t)]]

LEMMA LackIs ==
  ASSUME NEW t, NEW run, NEW ow, NEW rows, NEW last, NEW tot,
         DayTypes(t, run, ow, rows, last, tot), NEW m \in Tokens, NEW w \in Loyal
  PROVE  /\ Lack(run, ow, rows, last, tot)[m][w]
              = Cardinality(Due(run, m, ow, rows, last)) - tot[m][w].days
                  - Promised(run, m, w)
         /\ Cardinality(Due(run, m, ow, rows, last)) \in Nat
         /\ tot[m][w].days \in Nat /\ Promised(run, m, w) \in {0, 1}
<1>1. w \in Wallets
  BY DEF Wallets
<1>2. tot[m][w] \in TotalType(t)
  BY <1>1 DEF DayTypes
<1> QED
  BY <1>2, DueIsFinite DEF DayTypes, Lack, Promised, TotalType

\* No more is due, or what more is due is counted, but for j days.
Counts(was, is, wasDays, isDays, j) ==
  \/ is \subseteq was /\ wasDays <= isDays + j
  \/ (\E d : is \subseteq was \cup {d}) /\ wasDays + 1 <= isDays + j

LEMMA LackGrows ==
  ASSUME NEW t, NEW run, NEW ow, NEW rows, NEW last, NEW tot,
         DayTypes(t, run, ow, rows, last, tot),
         NEW to, NEW ow2, NEW rows2, NEW last2, NEW tot2,
         DayTypes(t, to, ow2, rows2, last2, tot2),
         NEW m \in Tokens, NEW w \in Loyal, NEW j \in {0, 1},
         Counts(Due(run, m, ow, rows, last), Due(to, m, ow2, rows2, last2),
                tot[m][w].days + Promised(run, m, w),
                tot2[m][w].days + Promised(to, m, w), j)
  PROVE  /\ Lack(run, ow, rows, last, tot)[m][w] \in Int
         /\ Lack(to, ow2, rows2, last2, tot2)[m][w] \in Int
         /\ Lack(to, ow2, rows2, last2, tot2)[m][w]
              <= Lack(run, ow, rows, last, tot)[m][w] + j
<1>1. PICK D : D = Due(run, m, ow, rows, last) /\ IsFiniteSet(D)
  BY DueIsFinite DEF DayTypes
<1>2. PICK E : E = Due(to, m, ow2, rows2, last2) /\ IsFiniteSet(E)
  BY DueIsFinite DEF DayTypes
<1>3. PICK c \in Nat : c = Cardinality(D)
  BY <1>1, FS_CardinalityType
<1>4. PICK e \in Nat : e = Cardinality(E)
  BY <1>2, FS_CardinalityType
<1>6. PICK x \in Nat, y \in {0, 1} :
        /\ x = tot[m][w].days /\ y = Promised(run, m, w)
        /\ Lack(run, ow, rows, last, tot)[m][w] = c - x - y
  BY <1>1, <1>3, LackIs
<1>7. PICK u \in Nat, v \in {0, 1} :
        /\ u = tot2[m][w].days /\ v = Promised(to, m, w)
        /\ Lack(to, ow2, rows2, last2, tot2)[m][w] = e - u - v
  BY <1>2, <1>4, LackIs
<1>8. Counts(D, E, x + y, u + v, j)
  BY <1>1, <1>2, <1>6, <1>7
<1>9. CASE E \subseteq D /\ x + y <= u + v + j
  <2>1. e <= c
    BY <1>1, <1>3, <1>4, <1>9, FS_Subset
  <2> QED
    BY <1>6, <1>7, <1>9, <2>1
<1>10. CASE (\E d : E \subseteq D \cup {d}) /\ x + y + 1 <= u + v + j
  <2>1. PICK d : E \subseteq D \cup {d}
    BY <1>10
  <2>2. IsFiniteSet(D \cup {d}) /\ Cardinality(D \cup {d}) \in {c, c + 1}
    BY <1>1, <1>3, FS_AddElement
  <2>3. e <= Cardinality(D \cup {d})
    BY <1>4, <2>1, <2>2, FS_Subset
  <2>4. e <= c + 1
    BY <2>2, <2>3
  <2> QED
    BY <1>6, <1>7, <1>10, <2>4
<1> QED
  BY <1>8, <1>9, <1>10 DEF Counts

-----------------------------------------------------------------------------
LEMMA RunDatesAre ==
  ASSUME NEW t \in Nat, NEW run \in RunType(t), RunOK(run), run.pc # "idle",
         NEW last \in 0 .. t, RunDates(run, last)
  PROVE  \E n \in Nat \ {0} :
           /\ n = Len(run.dates) /\ run.date \in 1 .. t
           /\ Head(run.dates) = run.date - n + 1 /\ Head(run.dates) \in 1 .. t
           /\ FirstDay(run.date, last) \in 1 .. t
<1>1. PICK dates \in Seq(1 .. t) : dates = run.dates /\ dates # <<>>
  BY DEF RunType, RunOK
<1>2. PICK n \in Nat \ {0} : n = Len(dates)
  BY <1>1
<1>3. Head(dates) = dates[1] /\ Head(dates) \in 1 .. t
  BY <1>1, HeadOfSeq
<1>4. dates[1] = run.date - n + 1
  BY <1>1, <1>2 DEF RunDates
<1>5. run.date \in 1 .. t
  BY DEF RunType, RunOK
<1>6. FirstDay(run.date, last) \in 1 .. t
  BY <1>5, SnapshotConstants DEF FirstDay, None
<1> QED
  BY <1>1, <1>2, <1>3, <1>4, <1>5, <1>6

LEMMA TailIs ==
  ASSUME NEW S, NEW s \in Seq(S), NEW n \in Nat, n = Len(s), n > 1
  PROVE  /\ Len(Tail(s)) = n - 1 /\ Head(Tail(s)) = s[2]
         /\ \A i \in 1 .. n - 1 : Tail(s)[i] = s[i + 1]
<1>1. s # <<>>
  OBVIOUS
<1>2. PICK u : u = Tail(s)
  OBVIOUS
<1>3. u \in Seq(S) /\ Len(u) = n - 1
  BY <1>1, <1>2
<1>4. \A i \in 1 .. n - 1 : u[i] = s[i + 1]
  BY <1>1, <1>2
<1>5. Head(u) = s[2]
  <2>1. u # <<>>
    BY <1>3
  <2>2. Head(u) = u[1]
    BY <2>1, <1>3
  <2> QED
    BY <1>4, <2>2
<1> QED
  BY <1>2, <1>3, <1>4, <1>5

\* A token that is left is done with for the day; the next day of the run is
\* the day after.
LEMMA LeavePasses ==
  ASSUME NEW t \in Nat, NEW run \in RunType(t), RunOK(run), run.pc # "idle",
         NEW last \in 0 .. t, RunDates(run, last),
         NEW m \in run.tokens, run.pc # "tokens" => run.mint = m,
         NEW to, to = LeaveToken(run, m)
  PROVE  /\ RunDates(to, last)
         /\ to.pc = "tokens" /\ \A n, w : Promised(to, n, w) = 0
         /\ \A n \in Tokens : Passed(to, n, last) =
              Passed(run, n, last) \cup (IF n = m THEN {Head(run.dates)} ELSE {})
<1>1. PICK n \in Nat \ {0} :
        /\ n = Len(run.dates) /\ run.date \in 1 .. t
        /\ Head(run.dates) = run.date - n + 1 /\ Head(run.dates) \in 1 .. t
        /\ FirstDay(run.date, last) \in 1 .. t
  BY RunDatesAre
<1>2. PICK first \in Nat, h \in Nat, date \in Nat :
        /\ first = FirstDay(run.date, last) /\ h = Head(run.dates) /\ date = run.date
        /\ first <= h /\ h = date - n + 1
  BY <1>1 DEF RunDates
<1>3. PICK dates \in Seq(1 .. t) :
        dates = run.dates /\ dates # <<>> /\ Len(dates) = n
  BY <1>1 DEF RunType, RunOK
<1>4. run.tokens \in SUBSET Tokens /\ m \in Tokens
  BY DEF RunType
<1>5. \A i \in 1 .. n : dates[i] = date - n + i
  BY <1>2, <1>3 DEF RunDates
<1>6. \A x \in Tokens : InHand(run, x) => x = m
  BY DEF InHand, Writing
<1>7. \A x \in Tokens : Passed(run, x, last) =
        first .. (IF x \in run.tokens /\ ~InHand(run, x) THEN h - 1 ELSE h)
  BY <1>2 DEF Passed
<1>8. to.pc = "tokens" /\ \A x, w : Promised(to, x, w) = 0
  <2>1. to.pc = "tokens"
    BY LeaveTyped, <1>4
  <2>2. \A x, w : Promised(to, x, w) = 0
    BY <2>1 DEF Promised, InHand, Writing
  <2> QED
    BY <2>1, <2>2
<1>9. CASE run.tokens = {m} /\ n > 1
  <2>1. PICK tail : tail = Tail(dates)
    OBVIOUS
  <2>2. /\ tail \in Seq(1 .. t) /\ Len(tail) = n - 1 /\ tail # <<>>
        /\ \A i \in 1 .. n - 1 : tail[i] = dates[i + 1]
    <3>1. Len(dates) = n /\ n > 1 /\ n \in Nat
      BY <1>3, <1>9
    <3>2. tail \in Seq(1 .. t) /\ tail # <<>>
      BY <2>1, <3>1, TailOfSeq
    <3> QED
      BY <2>1, <3>1, <3>2, TailIs
  <2>3. Head(tail) = h + 1
    <3>1. Head(tail) = dates[2]
      BY <1>3, <1>9, <2>1, TailIs
    <3>2. 2 \in 1 .. n
      BY <1>9
    <3>3. dates[2] = date - n + 2
      BY <1>5, <3>2
    <3> QED
      BY <1>2, <3>1, <3>3, SMTT(30)
  <2>4. /\ to.pc = "tokens" /\ to.tokens = Tokens /\ to.dates = tail
        /\ to.date = date
    <3>1. Len(run.dates) > 1
      BY <1>1, <1>9
    <3>2. to = [run EXCEPT !.pc = "tokens", !.tokens = Tokens, !.dates = Tail(@),
                           !.mint = None, !.entries = <<>>, !.done = 0]
      BY <1>9, <3>1 DEF LeaveToken
    <3> QED
      BY <1>2, <1>3, <2>1, <3>2 DEF RunType
  <2>5. RunDates(to, last)
    <3>1. \A i \in 1 .. Len(tail) : tail[i] = date - Len(tail) + i
      <4>1. ASSUME NEW i \in 1 .. n - 1 PROVE tail[i] = date - (n - 1) + i
        <5>1. i + 1 \in 1 .. n /\ tail[i] = dates[i + 1]
          BY <2>2, SMTT(30)
        <5>2. dates[i + 1] = date - n + (i + 1)
          BY <1>5, <5>1
        <5> QED
          BY <5>1, <5>2
      <4> QED
        BY <2>2, <4>1
    <3> QED
      BY <1>2, <1>4, <2>3, <2>4, <3>1, SMTT(30) DEF RunDates, Writing
  <2>6. \A x \in Tokens : Passed(to, x, last) = first .. h
    BY <1>2, <2>3, <2>4 DEF Passed, InHand, Writing
  <2>7. \A x \in Tokens :
          first .. h = Passed(run, x, last) \cup (IF x = m THEN {h} ELSE {})
    BY <1>2, <1>7, <1>9, SMTT(30)
  <2> QED
    BY <1>2, <1>8, <2>5, <2>6, <2>7
<1>10. CASE ~(run.tokens = {m} /\ n > 1)
  <2>1. /\ to.pc = "tokens" /\ to.tokens = run.tokens \ {m} /\ to.dates = dates
        /\ to.date = date
    BY <1>1, <1>2, <1>3, <1>10 DEF LeaveToken, RunType
  <2>2. RunDates(to, last)
    <3>1. to.tokens = {} => n = 1
      BY <1>10, <2>1
    <3> QED
      BY <1>2, <1>3, <1>5, <2>1, <3>1 DEF RunDates, Writing
  <2>3. \A x \in Tokens : Passed(to, x, last) =
          first .. (IF x \in run.tokens \ {m} THEN h - 1 ELSE h)
    BY <1>2, <1>3, <2>1 DEF Passed, InHand, Writing
  <2>4. \A x \in Tokens :
          first .. (IF x \in run.tokens \ {m} THEN h - 1 ELSE h)
            = Passed(run, x, last) \cup (IF x = m THEN {h} ELSE {})
    BY <1>2, <1>6, <1>7, SMTT(30)
  <2> QED
    BY <1>2, <1>8, <2>2, <2>3, <2>4
<1> QED
  BY <1>9, <1>10

\* What becomes of the one worker.
LEMMA OneDay ==
  ASSUME OneWorker, SnapTypeInv, NEW p \in Workers, NEW to, Goes(p, to),
         OneRowADay(snapshots'), RunDates(to, lastDate'), NextDays(to, totals'),
         Affords(Lack(to, owed', snapshots', lastDate', totals'), faults')
  PROVE  DayInv'
<1>1. \A q \in Workers : worker'[q] = to
  <2>1. worker \in [Workers -> RunType(today)]
    BY DEF SnapTypeInv, SnapTypes
  <2> QED
    BY <2>1 DEF Goes, OneWorker
<1> QED
  BY <1>1 DEF DayInv

LEMMA DayTypesHold ==
  ASSUME SnapTypeInv, NEW p \in Workers
  PROVE  /\ DayTypes(today, worker[p], owed, snapshots, lastDate, totals)
         /\ faults \in Nat
  BY WorkerTypes, SnapshotConstants DEF DayTypes, SnapTypeInv, SnapTypes

\* The run goes on and what is lacking afterwards can be afforded: without a
\* failure, or with one that is about the token x.
LEMMA DayGoesOn ==
  ASSUME OneWorker, IsFiniteSet(Tokens), SnapTypeInv, SnapTypeInv', DayInv,
         UNCHANGED today,
         NEW p \in Workers, NEW run, run = worker[p], NEW to, Goes(p, to),
         OneRowADay(snapshots'), RunDates(to, lastDate'), NextDays(to, totals'),
         NEW x \in Tokens \cup {None}, UNCHANGED faults \/ Fails,
         \A m \in Tokens, w \in Loyal :
           Counts(Due(run, m, owed, snapshots, lastDate),
                  Due(to, m, owed', snapshots', lastDate'),
                  totals[m][w].days + Promised(run, m, w),
                  totals'[m][w].days + Promised(to, m, w),
                  IF m = x /\ Fails THEN 1 ELSE 0)
  PROVE  DayInv'
<1>1. PICK t, ow, rows, last, tot :
        /\ t = today /\ ow = owed /\ rows = snapshots /\ last = lastDate /\ tot = totals
  OBVIOUS
<1>2. PICK ow2, rows2, last2, tot2 :
        /\ ow2 = owed' /\ rows2 = snapshots' /\ last2 = lastDate' /\ tot2 = totals'
  OBVIOUS
<1>3. DayTypes(t, run, ow, rows, last, tot) /\ faults \in Nat
  BY <1>1, DayTypesHold
<1>4. DayTypes(t, to, ow2, rows2, last2, tot2)
  <2>1. worker'[p] = to
    BY DEF Goes, SnapTypeInv, SnapTypes
  <2>2. t \in Nat
    BY <1>3 DEF DayTypes
  <2>3. to \in RunType(t)
    BY <1>1, <2>1, ZenonT(60) DEF SnapTypeInv, SnapTypes, RunType, EntryType, DayRowType, TotalType
  <2>4. RunOK(to)
    BY <2>1 DEF SnapTypeInv, RunsOK, RunOK, Writing
  <2>5. /\ ow2 \in SUBSET (1 .. t) /\ rows2 \in SUBSET DayRowType(t)
        /\ last2 \in 0 .. t /\ tot2 \in [Tokens -> [Wallets -> TotalType(t)]]
    BY <1>1, <1>2 DEF SnapTypeInv, SnapTypes, DayRowType, TotalType
  <2> QED
    BY <2>2, <2>3, <2>4, <2>5 DEF DayTypes
<1>5. PICK a : a = Lack(run, ow, rows, last, tot)
  OBVIOUS
<1>6. PICK b : b = Lack(to, ow2, rows2, last2, tot2)
  OBVIOUS
<1>7. Affords(a, faults)
  BY <1>1, <1>5 DEF DayInv
<1>8. ASSUME NEW m \in Tokens, NEW w \in Loyal, NEW j \in {0, 1},
             j = IF m = x /\ Fails THEN 1 ELSE 0
      PROVE  a[m][w] \in Int /\ b[m][w] \in Int /\ b[m][w] <= a[m][w] + j
  <2>1. Counts(Due(run, m, ow, rows, last), Due(to, m, ow2, rows2, last2),
               tot[m][w].days + Promised(run, m, w),
               tot2[m][w].days + Promised(to, m, w), j)
    BY <1>1, <1>2, <1>8
  <2>2. /\ Lack(run, ow, rows, last, tot)[m][w] \in Int
        /\ Lack(to, ow2, rows2, last2, tot2)[m][w] \in Int
        /\ Lack(to, ow2, rows2, last2, tot2)[m][w]
             <= Lack(run, ow, rows, last, tot)[m][w] + j
    BY <1>3, <1>4, <2>1, LackGrows
  <2> QED
    BY <1>5, <1>6, <2>2
<1>9. Affords(b, faults')
  <2>1. CASE UNCHANGED faults
    <3>1. ~Fails
      BY <1>3, <2>1 DEF Fails
    <3>2. \A m \in Tokens, w \in Loyal :
            a[m][w] \in Int /\ b[m][w] \in Int /\ b[m][w] <= a[m][w]
      BY <1>8, <3>1
    <3> QED
      BY <1>3, <1>7, <2>1, <3>2, AffordsLess
  <2>2. CASE Fails /\ x \in Tokens
    <3>1. \A m \in Tokens, w \in Loyal :
            /\ a[m][w] \in Int /\ b[m][w] \in Int
            /\ b[m][w] <= a[m][w] + (IF m = x THEN 1 ELSE 0)
      BY <1>8, <2>2
    <3>2. faults' = faults + 1
      BY <2>2 DEF Fails
    <3> QED
      BY <1>3, <1>7, <2>2, <3>1, <3>2, AffordsMore
  <2>3. CASE Fails /\ x \notin Tokens
    <3>1. \A m \in Tokens, w \in Loyal :
            a[m][w] \in Int /\ b[m][w] \in Int /\ b[m][w] <= a[m][w]
      BY <1>8, <2>3
    <3>2. faults' \in Nat /\ faults <= faults'
      BY <1>3, <2>3 DEF Fails
    <3> QED
      BY <1>3, <1>7, <3>1, <3>2, AffordsLess
  <2> QED
    BY <2>1, <2>2, <2>3
<1> QED
  BY <1>2, <1>6, <1>9, OneDay

\* What a run has in hand counts as passed.
LEMMA HeadInHand ==
  ASSUME NEW t \in Nat, NEW run \in RunType(t), RunOK(run), run.pc # "idle",
         NEW last \in 0 .. t, RunDates(run, last), NEW m, InHand(run, m)
  PROVE  Head(run.dates) \in Passed(run, m, last)
<1>1. PICK h \in Nat : h = Head(run.dates)
  BY RunDatesAre
<1>2. PICK first \in Nat : first = FirstDay(run.date, last) /\ first <= h
  BY <1>1, RunDatesAre DEF RunDates
<1> QED
  BY <1>1, <1>2 DEF Passed

LEMMA RunDay ==
  ASSUME SnapTypeInv, DayInv, NEW p \in Workers
  PROVE  /\ today \in Nat /\ lastDate \in 0 .. today
         /\ worker[p] \in RunType(today) /\ RunOK(worker[p])
         /\ RunDates(worker[p], lastDate) /\ NextDays(worker[p], totals)
         /\ \A m, w : Promised(worker[p], m, w) \in {0, 1}
         /\ \A m \in Tokens, w \in Loyal : totals[m][w].days \in Nat
<1>1. \A m \in Tokens, w \in Loyal : totals[m][w].days \in Nat
  <2>1. Loyal \subseteq Wallets
    BY DEF Wallets
  <2> QED
    BY <2>1 DEF SnapTypeInv, SnapTypes, TotalType
<1> QED
  BY <1>1, WorkerTypes DEF SnapTypeInv, SnapTypes, DayInv, Promised

\* A token is left: with a failure, or without one when the day was begun for
\* it and all its holders are counted.
LEMMA LeaveDay ==
  ASSUME OneWorker, IsFiniteSet(Tokens), SnapTypeInv, SnapTypeInv', DayInv,
         NEW p \in Workers, NEW run, run = worker[p], run.pc # "idle",
         NEW m \in run.tokens, run.pc # "tokens" => run.mint = m,
         Goes(p, LeaveToken(run, m)), UNCHANGED <<today, lastDate, owed>>,
         OneRowADay(snapshots'),
         \A n \in Tokens : Begun(n, snapshots') \subseteq
           Begun(n, snapshots) \cup (IF n = m THEN {Head(run.dates)} ELSE {}),
         \A n \in Tokens, w \in Loyal : totals[n][w].days <= totals'[n][w].days,
         \/ Fails
         \/ /\ UNCHANGED faults
            /\ InHand(run, m) \/ Head(run.dates) \in Begun(m, snapshots)
            /\ \A w \in Loyal : totals[m][w].days + Promised(run, m, w)
                                  <= totals'[m][w].days
  PROVE  DayInv'
<1>1. PICK to : to = LeaveToken(run, m)
  OBVIOUS
<1>2. PICK last : last = lastDate
  OBVIOUS
<1>3. PICK h : h = Head(run.dates)
  OBVIOUS
<1>4. /\ today \in Nat /\ last \in 0 .. today
      /\ run \in RunType(today) /\ RunOK(run) /\ RunDates(run, last)
      /\ \A n, w : Promised(run, n, w) \in {0, 1}
      /\ \A n \in Tokens, w \in Loyal : totals[n][w].days \in Nat
  BY <1>2, RunDay
<1>5. /\ RunDates(to, last) /\ to.pc = "tokens" /\ \A n, w : Promised(to, n, w) = 0
      /\ \A n \in Tokens : Passed(to, n, last) =
           Passed(run, n, last) \cup (IF n = m THEN {h} ELSE {})
  BY <1>1, <1>3, <1>4, LeavePasses
<1>6. m \in Tokens /\ m \in Tokens \cup {None}
  BY <1>4 DEF RunType
<1>7. \A n \in Tokens, w \in Loyal : totals'[n][w].days \in Nat
  <2>1. Loyal \subseteq Wallets
    BY DEF Wallets
  <2> QED
    BY <2>1 DEF SnapTypeInv, SnapTypes, TotalType
<1>8. ASSUME NEW n \in Tokens, NEW w \in Loyal
      PROVE  Counts(Due(run, n, owed, snapshots, last),
                    Due(to, n, owed', snapshots', last),
                    totals[n][w].days + Promised(run, n, w),
                    totals'[n][w].days + Promised(to, n, w),
                    IF n = m /\ Fails THEN 1 ELSE 0)
  <2>1. PICK D : D = Due(run, n, owed, snapshots, last)
    OBVIOUS
  <2>2. PICK E : E = Due(to, n, owed', snapshots', last)
    OBVIOUS
  <2>3. E \subseteq D \cup (IF n = m THEN {h} ELSE {})
    BY <1>3, <1>5, <2>1, <2>2 DEF Due
  <2>4. PICK x \in Nat, y \in Nat, q \in {0, 1} :
          /\ x = totals[n][w].days /\ y = totals'[n][w].days
          /\ q = Promised(run, n, w) /\ x <= y
    BY <1>4, <1>7
  <2>5. Promised(to, n, w) = 0
    BY <1>5
  <2>6. Counts(D, E, x + q, y + 0, IF n = m /\ Fails THEN 1 ELSE 0)
    <3>1. CASE n # m
      <4>1. q = 0
        BY <2>4, <3>1 DEF Promised, InHand, Writing
      <4> QED
        BY <2>3, <2>4, <3>1, <4>1 DEF Counts
    <3>2. CASE n = m /\ InHand(run, m)
      <4>1. h \in D
        BY <1>3, <1>4, <2>1, <3>2, HeadInHand DEF Due
      <4>2. E \subseteq D
        BY <2>3, <4>1
      <4>3. Fails \/ x + q <= y
        BY <2>4, <3>2
      <4> QED
        BY <2>4, <3>2, <4>2, <4>3 DEF Counts
    <3>3. CASE n = m /\ ~InHand(run, m)
      <4>1. q = 0
        BY <2>4, <3>3 DEF Promised
      <4>2. CASE Fails
        BY <2>3, <2>4, <3>3, <4>1, <4>2 DEF Counts
      <4>3. CASE ~Fails
        <5>1. h \in D
          BY <1>3, <2>1, <3>3, <4>3 DEF Due
        <5> QED
          BY <2>3, <2>4, <3>3, <4>1, <4>3, <5>1 DEF Counts
      <4> QED
        BY <4>2, <4>3
    <3> QED
      BY <3>1, <3>2, <3>3
  <2> QED
    BY <2>1, <2>2, <2>4, <2>5, <2>6
<1>9. NextDays(to, totals')
  BY <1>5 DEF NextDays, Writing
<1> QED
  BY <1>1, <1>2, <1>5, <1>6, <1>8, <1>9, DayGoesOn

\* A run that goes on and needs neither a failure nor makes up for one.
LEMMA PlainDay ==
  ASSUME OneWorker, IsFiniteSet(Tokens), SnapTypeInv, SnapTypeInv', DayInv,
         UNCHANGED <<today, faults>>,
         NEW p \in Workers, NEW run, run = worker[p], NEW to, Goes(p, to),
         OneRowADay(snapshots'), RunDates(to, lastDate'), NextDays(to, totals'),
         \A m \in Tokens :
           /\ Due(to, m, owed', snapshots', lastDate')
                \subseteq Due(run, m, owed, snapshots, lastDate)
           /\ \A w \in Loyal : totals[m][w].days + Promised(run, m, w)
                                 <= totals'[m][w].days + Promised(to, m, w)
  PROVE  DayInv'
<1>1. ~Fails
  BY DayTypesHold DEF Fails
<1>2. \A m \in Tokens, w \in Loyal :
        /\ totals[m][w].days + Promised(run, m, w) \in Nat
        /\ totals'[m][w].days + Promised(to, m, w) \in Nat
  <2>1. Loyal \subseteq Wallets
    BY DEF Wallets
  <2>2. \A m \in Tokens, w \in Loyal :
          totals[m][w].days \in Nat /\ totals'[m][w].days \in Nat
    BY <2>1 DEF SnapTypeInv, SnapTypes, TotalType
  <2>3. \A m, w : Promised(run, m, w) \in {0, 1} /\ Promised(to, m, w) \in {0, 1}
    BY DEF Promised
  <2> QED
    BY <2>2, <2>3
<1>3. \A m \in Tokens, w \in Loyal :
        Counts(Due(run, m, owed, snapshots, lastDate),
               Due(to, m, owed', snapshots', lastDate'),
               totals[m][w].days + Promised(run, m, w),
               totals'[m][w].days + Promised(to, m, w),
               IF m = None /\ Fails THEN 1 ELSE 0)
  BY <1>1, <1>2 DEF Counts
<1>4. None \in Tokens \cup {None}
  OBVIOUS
<1> QED
  BY <1>3, <1>4, DayGoesOn

LEMMA LookDay ==
  ASSUME OneWorker, IsFiniteSet(Tokens), SnapTypeInv, SnapTypeInv', DayInv,
         NEW p \in Workers, NEW m \in Tokens, Look(p, m)
  PROVE  DayInv'
<1>1. PICK run : run = worker[p]
  OBVIOUS
<1>2. /\ run.pc = "tokens" /\ m \in run.tokens
      /\ UNCHANGED <<today, snapshots, totals, lastDate, owed>>
  BY <1>1 DEF Look
<1>3. /\ today \in Nat /\ run \in RunType(today) /\ RunOK(run)
      /\ RunDates(run, lastDate)
      /\ \A n \in Tokens, w \in Loyal : totals[n][w].days \in Nat
  BY <1>1, RunDay
<1>4. OneRowADay(snapshots')
  BY <1>2 DEF DayInv
<1>5. \A n, w : Promised(run, n, w) = 0
  BY <1>2 DEF Promised, InHand, Writing
<1>6. CASE Dropped(p, m)
  <2>1. Goes(p, LeaveToken(run, m)) /\ Fails
    BY <1>1, <1>6 DEF Dropped
  <2>2. /\ \A n \in Tokens : Begun(n, snapshots') \subseteq
             Begun(n, snapshots) \cup (IF n = m THEN {Head(run.dates)} ELSE {})
        /\ \A n \in Tokens, w \in Loyal : totals[n][w].days <= totals'[n][w].days
    BY <1>2, <1>3
  <2> QED
    BY <1>1, <1>2, <1>4, <2>1, <2>2, LeaveDay
<1>7. CASE ~Dropped(p, m) /\ snapshotExistsForDate(m, Head(run.dates))
  <2>1. Goes(p, LeaveToken(run, m)) /\ UNCHANGED faults
    BY <1>1, <1>7 DEF Look
  <2>2. /\ \A n \in Tokens : Begun(n, snapshots') \subseteq
             Begun(n, snapshots) \cup (IF n = m THEN {Head(run.dates)} ELSE {})
        /\ \A n \in Tokens, w \in Loyal : totals[n][w].days <= totals'[n][w].days
    BY <1>2, <1>3
  <2>3. Head(run.dates) \in Begun(m, snapshots)
    <3>1. Head(run.dates) \in Nat
      <4>1. Head(run.dates) \in 1 .. today
        BY <1>1, <1>2, HeadTyped
      <4> QED
        BY <1>3, <4>1
    <3> QED
      BY <1>7, <3>1 DEF snapshotExistsForDate, Begun
  <2>4. \A w \in Loyal : totals[m][w].days + Promised(run, m, w) <= totals'[m][w].days
    BY <1>2, <1>3, <1>5
  <2> QED
    BY <1>1, <1>2, <1>4, <2>1, <2>2, <2>3, <2>4, LeaveDay
<1>8. CASE ~Dropped(p, m) /\ ~snapshotExistsForDate(m, Head(run.dates))
  <2>1. PICK to : to = [run EXCEPT !.pc = "read", !.mint = m]
    OBVIOUS
  <2>2. Goes(p, to) /\ UNCHANGED faults
    BY <1>1, <1>8, <2>1 DEF Look
  <2>3. /\ to.pc = "read" /\ to.mint = m /\ to.dates = run.dates
        /\ to.tokens = run.tokens /\ to.date = run.date
    BY <1>3, <2>1 DEF RunType
  <2>4. RunDates(to, lastDate)
    BY <1>2, <1>3, <2>3 DEF RunDates, Writing
  <2>5. NextDays(to, totals')
    BY <2>3 DEF NextDays, Writing
  <2>6. \A n, w : Promised(to, n, w) = 0
    BY <2>3 DEF Promised, InHand, Writing
  <2>7. \A n : Passed(to, n, lastDate) = Passed(run, n, lastDate)
    BY <1>2, <2>3 DEF Passed, InHand, Writing
  <2>8. \A n \in Tokens :
          /\ Due(to, n, owed', snapshots', lastDate')
               \subseteq Due(run, n, owed, snapshots, lastDate)
          /\ \A w \in Loyal : totals[n][w].days + Promised(run, n, w)
                                <= totals'[n][w].days + Promised(to, n, w)
    BY <1>2, <1>3, <1>5, <2>6, <2>7 DEF Due
  <2> QED
    BY <1>1, <1>2, <1>4, <2>2, <2>4, <2>5, <2>8, PlainDay
<1> QED
  BY <1>6, <1>7, <1>8

LEMMA OneMoreIs ==
  ASSUME NEW S, NEW s \in Seq(S), NEW e \in S, NEW k \in Nat, Len(s) = k
  PROVE  /\ Len(s \o <<e>>) = k + 1 /\ (s \o <<e>>)[k + 1] = e
         /\ \A i \in 1 .. k : (s \o <<e>>)[i] = s[i]
  BY AppendIsConcat, AppendProperties

LEMMA StartDay ==
  ASSUME OneWorker, IsFiniteSet(Tokens), SnapTypeInv, SnapTypeInv', DayInv,
         NEW p \in Workers, Start(p)
  PROVE  DayInv'
<1>1. PICK run : run = worker[p]
  OBVIOUS
<1>2. PICK dates \in Seq(1 .. today) : dates = DatesOfRun(today) /\ dates # <<>>
  BY DatesTyped
<1>3. PICK to : to = [Idle EXCEPT !.pc = "tokens", !.date = today,
                                  !.dates = dates, !.tokens = Tokens]
  OBVIOUS
<1>4. /\ run.pc = "idle" /\ Goes(p, to)
      /\ UNCHANGED <<today, snapshots, totals, lastDate, faults, owed>>
  BY <1>1, <1>2, <1>3 DEF Start
<1>5. /\ to.pc = "tokens" /\ to.date = today /\ to.dates = dates /\ to.tokens = Tokens
  BY <1>3 DEF Idle
<1>6. PICK t \in Nat, l \in Nat : t = today /\ l = lastDate
  BY RunDay
<1>7. PICK n \in Nat \ {0} : n = Len(dates)
  BY <1>2
<1>8. /\ \A i \in 1 .. n : dates[i] = t - n + i
      /\ FirstDay(t, l) = t - n + 1
  <2>1. CASE CanBackfill(t)
    <3>1. PICK k \in Nat \ {0} :
            k = daysMissed(t) /\ k = t - l - 1 /\ k \in 1 .. MAX_BACKFILL /\ l # None
      BY <1>6, <2>1, SnapshotConstants DEF CanBackfill, daysMissed
    <3>2. PICK s : s = [d \in 1 .. k |-> l + d]
      OBVIOUS
    <3>3. s \in Seq(Nat) /\ Len(s) = k /\ \A i \in 1 .. k : s[i] = l + i
      <4>1. \A d \in 1 .. k : l + d \in Nat
        OBVIOUS
      <4> QED
        BY <3>2, <4>1
    <3>4. dates = s \o <<t>>
      <4>1. DatesOfRun(t) = [d \in 1 .. daysMissed(t) |-> lastDate + d] \o <<t>>
        BY <2>1 DEF DatesOfRun
      <4>2. [d \in 1 .. daysMissed(t) |-> lastDate + d] = s
        BY <1>6, <3>1, <3>2
      <4> QED
        BY <1>2, <1>6, <4>1, <4>2
    <3>5. /\ Len(dates) = k + 1 /\ dates[k + 1] = t
          /\ \A i \in 1 .. k : dates[i] = s[i]
      <4>1. s \in Seq(Nat) /\ t \in Nat /\ k \in Nat /\ Len(s) = k
        BY <3>3
      <4> QED
        BY <3>4, <4>1, OneMoreIs
    <3>6. \A i \in 1 .. k + 1 : i \in 1 .. k \/ i = k + 1
      OBVIOUS
    <3>7. ASSUME NEW i \in 1 .. k + 1 PROVE dates[i] = l + i
      <4>1. CASE i \in 1 .. k
        BY <3>3, <3>5, <4>1
      <4>2. CASE i = k + 1
        BY <3>1, <3>5, <4>2
      <4> QED
        BY <3>6, <4>1, <4>2
    <3>8. FirstDay(t, l) = l + 1
      BY <3>1 DEF FirstDay
    <3> QED
      BY <1>7, <3>1, <3>5, <3>7, <3>8
  <2>2. CASE ~CanBackfill(t)
    <3>1. dates = <<t>>
      BY <1>2, <1>6, <2>2 DEF DatesOfRun
    <3>2. FirstDay(t, l) = t
      BY <1>6, <2>2 DEF FirstDay, CanBackfill, daysMissed
    <3> QED
      BY <1>7, <3>1, <3>2
  <2> QED
    BY <2>1, <2>2
<1>9. Head(dates) = t - n + 1
  BY <1>2, <1>7, <1>8
<1>10. RunDates(to, lastDate')
  BY <1>4, <1>5, <1>6, <1>7, <1>8, <1>9 DEF RunDates, Writing
<1>11. NextDays(to, totals') /\ \A m, w : Promised(to, m, w) = 0 /\ Promised(run, m, w) = 0
  BY <1>4, <1>5 DEF NextDays, Promised, InHand, Writing
<1>12. \A m \in Tokens : Passed(to, m, lastDate') = {}
  BY <1>4, <1>5, <1>6, <1>8, <1>9 DEF Passed, InHand, Writing
<1>13. OneRowADay(snapshots') /\ \A m \in Tokens, w \in Loyal : totals[m][w].days \in Nat
  BY <1>4, RunDay DEF DayInv
<1>14. \A m \in Tokens :
         /\ Due(to, m, owed', snapshots', lastDate')
              \subseteq Due(run, m, owed, snapshots, lastDate)
         /\ \A w \in Loyal : totals[m][w].days + Promised(run, m, w)
                               <= totals'[m][w].days + Promised(to, m, w)
  BY <1>4, <1>11, <1>12, <1>13 DEF Due
<1> QED
  BY <1>1, <1>4, <1>10, <1>11, <1>13, <1>14, PlainDay

LEMMA CrashDay ==
  ASSUME OneWorker, IsFiniteSet(Tokens), SnapTypeInv, SnapTypeInv', DayInv,
         NEW p \in Workers, Crash(p)
  PROVE  DayInv'
<1>1. PICK run \in RunType(today) : run = worker[p]
  BY RunDay
<1>7. PICK x \in Tokens \cup {None} : x = run.mint
  BY DEF RunType
<1>8. PICK to : to = Idle
  OBVIOUS
<1>2. to = Idle /\ to.pc = "idle"
  BY <1>8 DEF Idle
<1>3. /\ Goes(p, to) /\ Fails
      /\ UNCHANGED <<today, snapshots, totals, lastDate, owed>>
  BY <1>2, SMTT(30) DEF Crash
<1>4. RunDates(to, lastDate') /\ NextDays(to, totals') /\ OneRowADay(snapshots')
  BY <1>2, <1>3 DEF RunDates, NextDays, DayInv, Writing
<1>5. \A n \in Tokens, w \in Loyal : totals[n][w].days \in Nat
  BY RunDay
<1>6. ASSUME NEW n \in Tokens, NEW w \in Loyal
      PROVE  Counts(Due(run, n, owed, snapshots, lastDate),
                    Due(to, n, owed', snapshots', lastDate'),
                    totals[n][w].days + Promised(run, n, w),
                    totals'[n][w].days + Promised(to, n, w),
                    IF n = x /\ Fails THEN 1 ELSE 0)
  <2>1. Due(to, n, owed', snapshots', lastDate')
          \subseteq Due(run, n, owed, snapshots, lastDate)
    BY <1>2, <1>3 DEF Due, Passed
  <2>2. Promised(to, n, w) = 0
    BY <1>2 DEF Promised, InHand, Writing
  <2>3. Promised(run, n, w) \in {0, 1} /\ (n # x => Promised(run, n, w) = 0)
    BY <1>7 DEF Promised, InHand
  <2>4. totals'[n][w].days = totals[n][w].days /\ totals[n][w].days \in Nat
    BY <1>3, <1>5
  <2> QED
    BY <1>3, <2>1, <2>2, <2>3, <2>4 DEF Counts
<1> QED
  BY <1>1, <1>3, <1>4, <1>6, <1>7, DayGoesOn, SMTT(30)

\* All the days that are owed from now on were passed.
LEMMA FinishDay ==
  ASSUME OneWorker, IsFiniteSet(Tokens), SnapTypeInv, SnapTypeInv', DayInv,
         NEW p \in Workers, Finish(p)
  PROVE  DayInv'
<1>1. PICK run : run = worker[p]
  OBVIOUS
<1>11. PICK to : to = Idle
  OBVIOUS
<1>2. to = Idle /\ to.pc = "idle"
  BY <1>11 DEF Idle
<1>3. /\ run.pc = "tokens" /\ run.tokens = {} /\ lastDate' = run.date /\ Goes(p, to)
      /\ UNCHANGED <<today, snapshots, totals, faults>>
  BY <1>1, <1>2, SMTT(30) DEF Finish
<1>4. RunDates(to, lastDate') /\ NextDays(to, totals') /\ OneRowADay(snapshots')
  BY <1>2, <1>3 DEF RunDates, NextDays, DayInv, Writing
<1>5. \A n, w : Promised(to, n, w) = 0 /\ Promised(run, n, w) = 0
  BY <1>2, <1>3 DEF Promised, InHand, Writing
<1>6. /\ today \in Nat /\ lastDate \in 0 .. today
      /\ run \in RunType(today) /\ RunOK(run) /\ RunDates(run, lastDate)
      /\ \A n \in Tokens, w \in Loyal : totals[n][w].days \in Nat
  BY <1>1, RunDay
<1>7. PICK n \in Nat \ {0} :
        /\ n = Len(run.dates) /\ run.date \in 1 .. today
        /\ Head(run.dates) = run.date - n + 1
  BY <1>3, <1>6, RunDatesAre
<1>8. PICK l \in Nat, date \in Nat : l = lastDate /\ date = run.date
  BY <1>6, <1>7
<1>9. ASSUME NEW m \in Tokens
      PROVE  owed' \subseteq owed \cup Passed(run, m, l)
  <2>1. n = 1
    BY <1>3, <1>6, <1>7 DEF RunDates
  <2>2. Head(run.dates) = date
    BY <1>7, <1>8, <2>1
  <2>3. Passed(run, m, l) = FirstDay(date, l) .. date
    BY <1>3, <1>8, <2>2 DEF Passed
  <2>4. owed' = owed \cup (IF l # None /\ date - l - 1 <= MAX_BACKFILL
                           THEN l + 1 .. date ELSE {date})
    BY <1>1, <1>8 DEF Finish, daysMissed
  <2>5. (IF l # None /\ date - l - 1 <= MAX_BACKFILL THEN l + 1 .. date ELSE {date})
          \subseteq FirstDay(date, l) .. date
    <3>1. CASE l # None /\ date - l - 1 \in 1 .. MAX_BACKFILL
      BY <1>8, <3>1, SnapshotConstants DEF FirstDay
    <3>2. CASE ~(l # None /\ date - l - 1 \in 1 .. MAX_BACKFILL)
      <4>1. FirstDay(date, l) = date
        BY <3>2 DEF FirstDay
      <4>2. CASE l # None /\ date - l - 1 <= MAX_BACKFILL
        <5>1. date - l - 1 <= 0
          BY <1>8, <3>2, <4>2, SnapshotConstants
        <5> QED
          BY <1>8, <4>1, <4>2, <5>1
      <4>3. CASE ~(l # None /\ date - l - 1 <= MAX_BACKFILL)
        BY <4>1, <4>3
      <4> QED
        BY <4>2, <4>3
    <3> QED
      BY <3>1, <3>2
  <2> QED
    BY <2>3, <2>4, <2>5
<1>10. \A m \in Tokens :
         /\ Due(to, m, owed', snapshots', lastDate')
              \subseteq Due(run, m, owed, snapshots, lastDate)
         /\ \A w \in Loyal : totals[m][w].days + Promised(run, m, w)
                               <= totals'[m][w].days + Promised(to, m, w)
  <2>1. \A m : Passed(to, m, lastDate') = {}
    BY <1>2 DEF Passed
  <2> QED
    BY <1>3, <1>5, <1>6, <1>8, <1>9, <2>1 DEF Due
<1> QED
  BY <1>1, <1>3, <1>4, <1>10, PlainDay

LEMMA ReadDay ==
  ASSUME OneWorker, IsFiniteSet(Tokens), Loyal # {}, SnapTypeInv, SnapTypeInv', DayInv,
         NEW p \in Workers, ReadTotals(p)
  PROVE  DayInv'
<1>1. PICK run : run = worker[p]
  OBVIOUS
<1>2. /\ run.pc = "read" /\ (UNCHANGED faults \/ Fails)
      /\ UNCHANGED <<today, snapshots, totals, lastDate, owed>>
  BY <1>1 DEF ReadTotals, Dropped, Fetched
<1>3. /\ today \in Nat /\ run \in RunType(today) /\ RunOK(run)
      /\ RunDates(run, lastDate) /\ OneRowADay(snapshots')
      /\ \A n \in Tokens, w \in Loyal : totals[n][w].days \in Nat
  BY <1>1, <1>2, RunDay DEF DayInv
<1>4. PICK m \in Tokens : m = run.mint /\ m \in run.tokens
  BY <1>2, <1>3 DEF RunDates, RunType
<1>5. CASE Goes(p, LeaveToken(run, m)) /\ Fails
  <2>1. /\ \A n \in Tokens : Begun(n, snapshots') \subseteq
             Begun(n, snapshots) \cup (IF n = m THEN {Head(run.dates)} ELSE {})
        /\ \A n \in Tokens, w \in Loyal : totals[n][w].days <= totals'[n][w].days
    BY <1>2, <1>3
  <2> QED
    BY <1>1, <1>2, <1>3, <1>4, <1>5, <2>1, LeaveDay
<1>6. CASE ~(Goes(p, LeaveToken(run, m)) /\ Fails)
  <2>8. ~(Goes(p, LeaveToken(worker[p], worker[p].mint)) /\ (Loyal # {} => Fails))
    BY <1>1, <1>4, <1>6
  <2>10. PICK entries :
          /\ Goes(p, [worker[p] EXCEPT !.pc = "snapshots", !.entries = entries])
          /\ Lists(worker[p].mint, Head(worker[p].dates), entries)
          /\ \/ Fails
             \/ /\ UNCHANGED faults
                /\ \A w \in Loyal :
                     \E i \in DOMAIN entries : entries[i].row.wallet = w
    BY <2>8, ReadIs
  <2>1. /\ Goes(p, [run EXCEPT !.pc = "snapshots", !.entries = entries])
        /\ Lists(m, Head(run.dates), entries)
        /\ \/ Fails
           \/ /\ UNCHANGED faults
              /\ \A w \in Loyal :
                   \E i \in DOMAIN entries : entries[i].row.wallet = w
    BY <1>1, <1>4, <2>10
  <2>2. PICK to : to = [run EXCEPT !.pc = "snapshots", !.entries = entries]
    OBVIOUS
  <2>3. /\ to.pc = "snapshots" /\ to.mint = m /\ to.dates = run.dates
        /\ to.tokens = run.tokens /\ to.date = run.date /\ to.entries = entries
        /\ Goes(p, to)
    BY <1>3, <1>4, <2>1, <2>2 DEF RunType
  <2>4. DOMAIN entries = 1 .. Len(entries)
    BY <2>1 DEF Lists
  <2>9. m \in Tokens \cup {None}
    OBVIOUS
  <2>5. RunDates(to, lastDate')
    BY <1>2, <1>3, <1>4, <2>3 DEF RunDates, Writing
  <2>6. NextDays(to, totals')
    BY <1>2, <2>1, <2>3, <2>4 DEF NextDays, Lists
  <2>7. ASSUME NEW n \in Tokens, NEW w \in Loyal
        PROVE  Counts(Due(run, n, owed, snapshots, lastDate),
                      Due(to, n, owed', snapshots', lastDate'),
                      totals[n][w].days + Promised(run, n, w),
                      totals'[n][w].days + Promised(to, n, w),
                      IF n = m /\ Fails THEN 1 ELSE 0)
    <3>1. Promised(run, n, w) = 0
      BY <1>2 DEF Promised, InHand, Writing
    <3>2. totals'[n][w].days = totals[n][w].days /\ totals[n][w].days \in Nat
      BY <1>2, <1>3
    <3>3. CASE n # m
      <4>1. Passed(to, n, lastDate) = Passed(run, n, lastDate)
        BY <1>2, <1>4, <2>3, <3>3 DEF Passed, InHand, Writing
      <4>2. Promised(to, n, w) = 0
        BY <2>3, <3>3 DEF Promised, InHand
      <4>3. Due(to, n, owed', snapshots', lastDate')
              = Due(run, n, owed, snapshots, lastDate)
        BY <1>2, <4>1 DEF Due
      <4> QED
        BY <3>1, <3>2, <3>3, <4>2, <4>3 DEF Counts
    <3>4. CASE n = m
      <4>1. PICK h \in Nat, f \in Nat :
              h = Head(run.dates) /\ f = FirstDay(run.date, lastDate)
        BY <1>2, <1>3, RunDatesAre, RunDay
      <4>2. /\ Passed(to, m, lastDate) = f .. h
            /\ Passed(run, m, lastDate) = f .. h - 1
        BY <1>2, <1>4, <2>3, <4>1 DEF Passed, InHand, Writing
      <4>3. Passed(to, m, lastDate) \subseteq Passed(run, m, lastDate) \cup {h}
        BY <4>2
      <4>4. Due(to, n, owed', snapshots', lastDate')
              \subseteq Due(run, n, owed, snapshots, lastDate) \cup {h}
        BY <1>2, <3>4, <4>3 DEF Due
      <4>5. Promised(to, n, w) \in {0, 1} /\ (~Fails => Promised(to, n, w) = 1)
        BY <2>1, <2>3, <2>4, <3>4 DEF Promised, InHand, Writing
      <4> QED
        BY <3>1, <3>2, <3>4, <4>4, <4>5 DEF Counts
    <3> QED
      BY <3>3, <3>4
  <2> QED
    BY <1>1, <1>2, <1>3, <1>4, <2>3, <2>5, <2>6, <2>7, <2>9, DayGoesOn
<1> QED
  BY <1>5, <1>6

\* A batch of rows is all of the token and day at hand.
LEMMA RowsDay ==
  ASSUME SnapTypeInv, SnapTypeInv', DayInv, NEW p \in Workers,
         NEW run, run = worker[p], WriteSnapshots(p)
  PROVE  /\ OneRowADay(snapshots')
         /\ \A n : Begun(n, snapshots') \subseteq
              Begun(n, snapshots) \cup (IF n = run.mint THEN {Head(run.dates)} ELSE {})
<1>1. run \in RunType(today) /\ RunOK(run) /\ run.pc = "snapshots"
  BY RunDay DEF WriteSnapshots
<1>2. PICK top \in run.done + 1 .. Len(run.entries) :
        Chunk(run) = run.done + 1 .. top
  BY <1>1, ChunkIs DEF RunOK, Writing
<1>3. PICK C : C = Chunk(run) /\ C \subseteq DOMAIN run.entries
  <2>1. run.done \in Nat /\ run.entries \in Seq(EntryType(today)) /\ top \in Nat
    BY <1>1, <1>2 DEF RunType
  <2> QED
    BY <1>2, <2>1
<1>4. PICK rows : rows = {run.entries[i].row : i \in C}
  OBVIOUS
<1>5. /\ \A r \in rows : r.mint = run.mint /\ r.date = Head(run.dates)
      /\ \A r, s \in rows : r.wallet = s.wallet => r = s
  BY <1>1, <1>3, <1>4 DEF RunOK, Writing
<1>6. \/ UNCHANGED snapshots
      \/ snapshots' = {r \in snapshots : \A s \in rows :
                         ~(r.mint = s.mint /\ r.date = s.date /\ r.wallet = s.wallet)}
                       \cup rows
  BY <1>3, <1>4 DEF WriteSnapshots, Post
<1>7. OneRowADay(snapshots)
  BY DEF DayInv
<1>8. OneRowADay(snapshots')
  BY <1>5, <1>6, <1>7 DEF OneRowADay
<1>9. \A r \in snapshots' : r \in snapshots \/ r \in rows
  BY <1>6
<1>10. ASSUME NEW n
       PROVE  Begun(n, snapshots') \subseteq
                Begun(n, snapshots) \cup (IF n = run.mint THEN {Head(run.dates)} ELSE {})
  BY <1>5, <1>9 DEF Begun
<1> QED
  BY <1>8, <1>10

LEMMA WriteSnapshotsDay ==
  ASSUME OneWorker, IsFiniteSet(Tokens), SnapTypeInv, SnapTypeInv', DayInv,
         NEW p \in Workers, WriteSnapshots(p)
  PROVE  DayInv'
<1>1. PICK run : run = worker[p]
  OBVIOUS
<1>2. /\ today \in Nat /\ lastDate \in 0 .. today
      /\ run \in RunType(today) /\ RunOK(run) /\ RunDates(run, lastDate)
      /\ NextDays(run, totals)
      /\ \A n \in Tokens, w \in Loyal : totals[n][w].days \in Nat
  BY <1>1, RunDay
<1>3. /\ run.pc = "snapshots" /\ UNCHANGED <<today, totals, lastDate, owed>>
  BY <1>1 DEF WriteSnapshots
<1>4. PICK m \in run.tokens : m = run.mint
  BY <1>2, <1>3 DEF RunDates, Writing
<1>5. m \in Tokens /\ InHand(run, m)
  BY <1>2, <1>3, <1>4 DEF RunType, InHand, Writing
<1>6. /\ OneRowADay(snapshots')
      /\ \A n \in Tokens : Begun(n, snapshots') \subseteq
           Begun(n, snapshots) \cup (IF n = m THEN {Head(run.dates)} ELSE {})
  BY <1>1, <1>4, RowsDay
<1>7. PICK then : then = [run EXCEPT !.pc = "totals", !.done = 0]
  OBVIOUS
<1>8. \/ Dropped(p, m)
      \/ Advance(p, then) /\ UNCHANGED faults
  BY <1>1, <1>4, <1>7 DEF WriteSnapshots, Post
<1>9. CASE Dropped(p, m)
  <2>1. Goes(p, LeaveToken(run, m)) /\ Fails
    BY <1>1, <1>9 DEF Dropped
  <2>2. \A n \in Tokens, w \in Loyal : totals[n][w].days <= totals'[n][w].days
    BY <1>2, <1>3
  <2> QED
    BY <1>1, <1>3, <1>4, <1>6, <2>1, <2>2, LeaveDay
<1>10. CASE Advance(p, then) /\ UNCHANGED faults
  <2>1. PICK top \in run.done + 1 .. Len(run.entries) :
          IF top < Len(run.entries)
          THEN Goes(p, [run EXCEPT !.done = top]) ELSE Goes(p, then)
    BY <1>1, <1>3, <1>10, AdvanceIs DEF Writing
  <2>2. PICK more : more = [run EXCEPT !.done = top]
    OBVIOUS
  <2>3. PICK to : Goes(p, to) /\ (to = more \/ to = then)
    BY <2>1, <2>2
  <2>4. /\ to.pc = "snapshots" \/ (to.pc = "totals" /\ to.done = 0)
        /\ to.mint = m /\ to.dates = run.dates /\ to.tokens = run.tokens
        /\ to.date = run.date /\ to.entries = run.entries
    BY <1>2, <1>3, <1>4, <1>7, <2>2, <2>3 DEF RunType
  <2>5. RunDates(to, lastDate')
    BY <1>2, <1>3, <1>4, <2>4 DEF RunDates, Writing
  <2>6. NextDays(to, totals')
    BY <1>2, <1>3, <1>4, <2>4 DEF NextDays, Writing
  <2>7. \A n : InHand(to, n) <=> InHand(run, n)
    BY <1>3, <1>4, <2>4 DEF InHand, Writing
  <2>8. \A n : Passed(to, n, lastDate) = Passed(run, n, lastDate)
    BY <1>3, <2>4, <2>7 DEF Passed
  <2>9. \A n, w : Promised(to, n, w) = Promised(run, n, w)
    <3>1. Len(to.entries) = Len(run.entries)
      BY <2>4
    <3>2. \A i \in 1 .. Len(run.entries) : to.pc = "totals" => i > to.done
      BY <2>4
    <3>3. \A i \in 1 .. Len(run.entries) : run.pc = "totals" => i > run.done
      BY <1>3
    <3> QED
      BY <2>4, <2>7, <3>1, <3>2, <3>3 DEF Promised
  <2>10. ASSUME NEW n \in Tokens
         PROVE  /\ Due(to, n, owed', snapshots', lastDate')
                     \subseteq Due(run, n, owed, snapshots, lastDate)
                /\ \A w \in Loyal : totals[n][w].days + Promised(run, n, w)
                                      <= totals'[n][w].days + Promised(to, n, w)
    <3>1. n = m => Head(run.dates) \in Passed(run, n, lastDate)
      BY <1>2, <1>3, <1>5, HeadInHand
    <3>2. Due(to, n, owed', snapshots', lastDate')
            \subseteq Due(run, n, owed, snapshots, lastDate)
      BY <1>3, <1>6, <2>8, <3>1 DEF Due
    <3>3. \A w : Promised(run, n, w) \in {0, 1}
      BY DEF Promised
    <3> QED
      BY <1>2, <1>3, <2>9, <3>2, <3>3
  <2> QED
    BY <1>1, <1>3, <1>6, <1>10, <2>3, <2>5, <2>6, <2>10, PlainDay
<1> QED
  BY <1>8, <1>9, <1>10

LEMMA WriteTotalsDay ==
  ASSUME OneWorker, IsFiniteSet(Tokens), SnapTypeInv, SnapTypeInv', DayInv,
         NEW p \in Workers, WriteTotals(p)
  PROVE  DayInv'
<1>1. PICK run : run = worker[p]
  OBVIOUS
<1>2. /\ today \in Nat /\ lastDate \in 0 .. today
      /\ run \in RunType(today) /\ RunOK(run) /\ RunDates(run, lastDate)
      /\ NextDays(run, totals)
      /\ \A n \in Tokens, w \in Loyal : totals[n][w].days \in Nat
  BY <1>1, RunDay
<1>3. /\ run.pc = "totals" /\ UNCHANGED <<today, snapshots, lastDate, owed>>
  BY <1>1 DEF WriteTotals
<1>4. PICK m \in run.tokens : m = run.mint
  BY <1>2, <1>3 DEF RunDates, Writing
<1>5. m \in Tokens /\ InHand(run, m)
  BY <1>2, <1>3, <1>4 DEF RunType, InHand, Writing
<1>6. OneRowADay(snapshots')
  BY <1>3 DEF DayInv
<1>7. PICK top \in run.done + 1 .. Len(run.entries) :
        Chunk(run) = run.done + 1 .. top
  BY <1>1, <1>2, <1>3, ChunkIs DEF RunOK, Writing
<1>8. PICK d \in Nat, k \in Nat : d = run.done /\ k = Len(run.entries) /\ top \in d + 1 .. k
  BY <1>2, <1>7 DEF RunType
<1>9. DOMAIN run.entries = 1 .. k
  BY <1>2, <1>8 DEF RunType
\* A total that is written counts one day more.
<1>10. \A n \in Tokens, w \in Loyal :
         \/ /\ totals'[n][w].days = totals[n][w].days
            /\ \/ UNCHANGED totals /\ Dropped(p, m)
               \/ \A i \in d + 1 .. top : n # m \/ run.entries[i].row.wallet # w
         \/ /\ n = m
            /\ totals'[n][w].days = totals[n][w].days + 1
  <2>1. CASE UNCHANGED totals /\ Dropped(p, m)
    BY <2>1
  <2>2. CASE TotalsWritten(p)
    <3>1. ASSUME NEW n \in Tokens, NEW w \in Loyal
          PROVE  \/ /\ totals'[n][w] = totals[n][w]
                    /\ \A i \in d + 1 .. top : n # m \/ run.entries[i].row.wallet # w
                 \/ /\ n = m
                    /\ \E i \in d + 1 .. top :
                         /\ run.entries[i].row.wallet = w
                         /\ totals'[n][w] = run.entries[i].total
      <4>1. w \in Wallets
        BY DEF Wallets
      <4> QED
        BY <1>1, <1>4, <1>7, <1>8, <2>2, <4>1, SMTT(30) DEF TotalsWritten
    <3>2. \A i \in d + 1 .. top :
            run.entries[i].total.days = totals[m][run.entries[i].row.wallet].days + 1
      <4>1. \A i \in d + 1 .. top : i \in 1 .. Len(run.entries) /\ i > run.done
        BY <1>8
      <4> QED
        BY <1>2, <1>3, <1>4, <4>1 DEF NextDays, Writing
    <3> QED
      BY <3>1, <3>2
  <2> QED
    BY <1>1, <1>4, <2>1, <2>2, WriteTotalsIs
<1>11. \A n \in Tokens, w \in Loyal : totals[n][w].days <= totals'[n][w].days
  BY <1>2, <1>10
<1>12. \A n \in Tokens : Begun(n, snapshots') \subseteq
           Begun(n, snapshots) \cup (IF n = m THEN {Head(run.dates)} ELSE {})
  BY <1>3
<1>13. CASE Dropped(p, m)
  <2>1. Goes(p, LeaveToken(run, m)) /\ Fails
    BY <1>1, <1>13 DEF Dropped
  <2> QED
    BY <1>1, <1>3, <1>4, <1>6, <1>11, <1>12, <2>1, LeaveDay
<1>14. CASE ~Dropped(p, m)
  <2>1. PICK then : then = LeaveToken(run, m)
    BY SMTT(30)
  <2>2. Advance(p, then) /\ UNCHANGED faults
    BY <1>1, <1>4, <1>14, <2>1 DEF WriteTotals, Post
  <2>3. PICK t \in run.done + 1 .. Len(run.entries) :
          /\ Chunk(run) = run.done + 1 .. t
          /\ IF t < Len(run.entries)
             THEN Goes(p, [run EXCEPT !.done = t]) ELSE Goes(p, then)
    BY <1>1, <1>3, <2>2, AdvanceIs DEF Writing
  <2>4. t = top
    <3>1. t \in Int /\ top \in Int /\ d + 1 .. t = d + 1 .. top /\ t >= d + 1
      BY <1>7, <1>8, <2>3
    <3> QED
      BY <1>8, <3>1
  <2>5. \A n \in Tokens, w \in Loyal :
          \/ /\ totals'[n][w].days = totals[n][w].days
             /\ \A i \in d + 1 .. top : n # m \/ run.entries[i].row.wallet # w
          \/ /\ n = m
             /\ totals'[n][w].days = totals[n][w].days + 1
    BY <1>10, <1>14
  <2>6. CASE top = k
    <3>1. Goes(p, then)
      BY <1>8, <2>3, <2>4, <2>6
    <3>2. ASSUME NEW w \in Loyal
          PROVE  totals[m][w].days + Promised(run, m, w) <= totals'[m][w].days
      <4>1. CASE totals'[m][w].days = totals[m][w].days + 1
        BY <1>2, <1>5, <4>1 DEF Promised
      <4>2. CASE /\ totals'[m][w].days = totals[m][w].days
                 /\ \A i \in d + 1 .. top : run.entries[i].row.wallet # w
        <5>1. \A i \in 1 .. Len(run.entries) : i > run.done => i \in d + 1 .. top
          BY <1>8, <2>6
        <5>2. Promised(run, m, w) = 0
          BY <1>3, <4>2, <5>1 DEF Promised
        <5> QED
          BY <1>2, <1>5, <4>2, <5>2
      <4> QED
        BY <1>5, <2>5, <4>1, <4>2
    <3> QED
      BY <1>1, <1>3, <1>4, <1>5, <1>6, <1>11, <1>12, <2>1, <2>2, <3>1, <3>2, LeaveDay
  <2>7. CASE top # k
    <3>1. PICK to : to = [run EXCEPT !.done = top]
      OBVIOUS
    <3>2. Goes(p, to)
      BY <1>8, <2>3, <2>4, <2>7, <3>1
    <3>3. /\ to.pc = "totals" /\ to.done = top
          /\ to.mint = m /\ to.dates = run.dates /\ to.tokens = run.tokens
          /\ to.date = run.date /\ to.entries = run.entries
      BY <1>2, <1>3, <1>4, <3>1 DEF RunType
    <3>4. RunDates(to, lastDate')
      BY <1>2, <1>3, <1>4, <3>3 DEF RunDates, Writing
    <3>5. NextDays(to, totals')
      <4>1. ASSUME NEW i \in 1 .. k, i > top
            PROVE  run.entries[i].total.days
                     = totals'[m][run.entries[i].row.wallet].days + 1
        <5>1. PICK w : w = run.entries[i].row.wallet
          OBVIOUS
        <5>2. \A j \in d + 1 .. top : j \in 1 .. k /\ j # i
          BY <1>8, <4>1
        <5>3. \A j \in d + 1 .. top : run.entries[j].row.wallet # w
          BY <1>2, <1>3, <1>9, <5>1, <5>2 DEF RunOK, Writing
        <5>4. w \in Wallets
          <6>1. run.entries[i] \in EntryType(today)
            BY <1>2, <1>8 DEF RunType
          <6> QED
            BY <5>1, <6>1 DEF EntryType, DayRowType
        <5>5. totals'[m][w] = totals[m][w]
          <6>1. TotalsWritten(p)
            BY <1>1, <1>4, <1>14, WriteTotalsIs
          <6> QED
            BY <1>1, <1>5, <1>7, <1>8, <5>3, <5>4, <6>1 DEF TotalsWritten
        <5>6. run.entries[i].total.days = totals[m][w].days + 1
          <6>1. i \in 1 .. Len(run.entries) /\ i > run.done
            BY <1>8, <4>1
          <6> QED
            BY <1>2, <1>3, <1>4, <5>1, <6>1 DEF NextDays, Writing
        <5> QED
          BY <5>1, <5>5, <5>6
      <4> QED
        BY <1>8, <3>3, <4>1 DEF NextDays
    <3>6. \A n : InHand(to, n) <=> InHand(run, n)
      BY <1>3, <1>4, <3>3 DEF InHand, Writing
    <3>7. \A n : Passed(to, n, lastDate) = Passed(run, n, lastDate)
      BY <1>3, <3>3, <3>6 DEF Passed
    <3>8. ASSUME NEW n \in Tokens, NEW w \in Loyal
          PROVE  totals[n][w].days + Promised(run, n, w)
                   <= totals'[n][w].days + Promised(to, n, w)
      <4>1. Promised(run, n, w) \in {0, 1} /\ Promised(to, n, w) \in {0, 1}
        BY DEF Promised
      <4>2. CASE n = m /\ totals'[n][w].days = totals[n][w].days + 1
        BY <1>2, <4>1, <4>2
      <4>3. CASE /\ totals'[n][w].days = totals[n][w].days
                 /\ \A i \in d + 1 .. top : n # m \/ run.entries[i].row.wallet # w
        <5>1. \A i \in 1 .. Len(run.entries) :
                i > run.done /\ i \notin d + 1 .. top => i > top
          BY <1>8
        <5>2. Promised(run, n, w) = 1 => Promised(to, n, w) = 1
          BY <1>3, <1>4, <3>3, <3>6, <4>3, <5>1 DEF Promised, InHand
        <5> QED
          BY <1>2, <4>1, <4>3, <5>2
      <4> QED
        BY <2>5, <4>2, <4>3
    <3>9. \A n \in Tokens :
            /\ Due(to, n, owed', snapshots', lastDate')
                 \subseteq Due(run, n, owed, snapshots, lastDate)
            /\ \A w \in Loyal : totals[n][w].days + Promised(run, n, w)
                                  <= totals'[n][w].days + Promised(to, n, w)
      BY <1>3, <3>7, <3>8 DEF Due
    <3> QED
      BY <1>1, <1>3, <1>6, <2>2, <3>2, <3>4, <3>5, <3>9, PlainDay
  <2> QED
    BY <2>6, <2>7
<1> QED
  BY <1>13, <1>14

LEMMA StepDay ==
  ASSUME OneWorker, IsFiniteSet(Tokens), Loyal # {}, SnapTypeInv, SnapTypeInv', DayInv,
         [SnapshotNext]_snapshotVars
  PROVE  DayInv'
<1>1. CASE Tick \/ UNCHANGED snapshotVars
  <2>1. UNCHANGED <<snapshots, worker, lastDate, totals, owed, faults>>
    BY <1>1 DEF Tick, snapshotVars
  <2> QED
    BY <2>1 DEF DayInv
<1> QED
  BY <1>1, StartDay, LookDay, ReadDay, WriteSnapshotsDay, WriteTotalsDay,
     FinishDay, CrashDay DEF SnapshotNext

LEMMA DayStarts ==
  ASSUME IsFiniteSet(Tokens), SnapshotInit
  PROVE  DayInv
<1>1. OneRowADay(snapshots)
  BY DEF SnapshotInit, OneRowADay
<1>2. PICK run : run = Idle
  OBVIOUS
<1>3. run.pc = "idle" /\ \A p \in Workers : worker[p] = run
  BY <1>2 DEF SnapshotInit, Idle
<1>4. RunDates(run, lastDate) /\ NextDays(run, totals)
  BY <1>3 DEF RunDates, NextDays, Writing
<1>5. PICK cost : cost = [m \in Tokens |-> 0]
  OBVIOUS
<1>6. SumFunctionOnSet(cost, Tokens) = 0
  BY <1>5, SumEmpty, SumPart
<1>7. ASSUME NEW m \in Tokens, NEW w \in Loyal
      PROVE  Lack(run, owed, snapshots, lastDate, totals)[m][w] = 0
  <2>1. Due(run, m, owed, snapshots, lastDate) = {}
    BY <1>3 DEF Due, Passed, Begun, SnapshotInit
  <2>2. Promised(run, m, w) = 0
    BY <1>3 DEF Promised, InHand, Writing
  <2>3. totals[m][w].days = 0
    BY DEF SnapshotInit, NoTotal, Wallets
  <2>4. Cardinality({}) = 0
    BY FS_EmptySet
  <2> QED
    BY <2>1, <2>2, <2>3, <2>4 DEF Lack
<1>8. Affords(Lack(run, owed, snapshots, lastDate, totals), faults)
  <2>1. faults = 0
    BY DEF SnapshotInit
  <2>2. cost \in [Tokens -> Nat]
    BY <1>5
  <2>3. \A m \in Tokens, w \in Loyal :
          Lack(run, owed, snapshots, lastDate, totals)[m][w] <= cost[m]
    BY <1>5, <1>7
  <2> QED
    BY <1>6, <2>1, <2>2, <2>3 DEF Affords
<1> QED
  BY <1>1, <1>3, <1>4, <1>8 DEF DayInv

\* What a wallet's rows and total leave out is among the days that are due.
LEMMA UncountedIsLack ==
  ASSUME SnapTypeInv, DayInv, NEW p \in Workers, worker[p].pc = "idle",
         NEW m \in Tokens, NEW w \in Loyal
  PROVE  /\ Uncounted(m, w) \in Int
         /\ Uncounted(m, w) <= Lack(worker[p], owed, snapshots, lastDate, totals)[m][w]
<1>1. PICK run : run = worker[p]
  OBVIOUS
<1>2. DayTypes(today, run, owed, snapshots, lastDate, totals)
  BY <1>1, DayTypesHold
<1>3. PICK D : D = Due(run, m, owed, snapshots, lastDate) /\ IsFiniteSet(D)
  BY <1>2, DueIsFinite DEF DayTypes
<1>4. PICK c \in Nat, x \in Nat :
        /\ c = Cardinality(D) /\ x = totals[m][w].days
        /\ Lack(run, owed, snapshots, lastDate, totals)[m][w] = c - x
  <2>1. Promised(run, m, w) = 0
    BY <1>1 DEF Promised, InHand, Writing
  <2> QED
    BY <1>2, <1>3, <2>1, LackIs
<1>5. PICK R : R = RowsOf(m, w)
  OBVIOUS
<1>6. /\ IsFiniteSet(R)
      /\ \A r \in R : r \in snapshots /\ r.mint = m /\ r.wallet = w
      /\ \A r \in R : r.date \in Nat
  <2>1. R \in SUBSET snapshots /\ IsFiniteSet(snapshots)
    BY <1>5 DEF RowsOf, SnapTypeInv, SnapTypes
  <2>2. today \in Nat
    BY <1>2 DEF DayTypes
  <2> QED
    BY <1>5, <2>1, <2>2, FS_Subset DEF RowsOf, SnapTypeInv, SnapTypes, DayRowType
<1>7. PICK days : days = {d \in Nat : \E r \in R : r.date = d}
  OBVIOUS
<1>8. IsFiniteSet(days) /\ Cardinality(days) = Cardinality(R)
  <2>1. PICK f : f = [r \in R |-> r.date]
    OBVIOUS
  <2>2. f \in [R -> days] /\ \A r \in R : f[r] = r.date
    BY <1>6, <1>7, <2>1
  <2>3. \A r, s \in R : r.date = s.date => r = s
    BY <1>6 DEF DayInv, OneRowADay
  <2>4. f \in Injection(R, days)
    BY <2>2, <2>3 DEF Injection, IsInjective
  <2>5. f \in Surjection(R, days)
    BY <1>7, <2>2 DEF Surjection
  <2> QED
    BY <1>6, <2>4, <2>5, FS_Surjection
<1>9. PICK left : left = {d \in owed : \A r \in R : r.date # d}
  OBVIOUS
<1>10. days \subseteq D /\ left \subseteq D /\ days \cap left = {}
  BY <1>3, <1>6, <1>7, <1>9 DEF Due, Begun
<1>11. IsFiniteSet(left) /\ Cardinality(left) + Cardinality(days) <= c
  <2>1. IsFiniteSet(left)
    BY <1>3, <1>10, FS_Subset
  <2>2. /\ IsFiniteSet(days \cup left)
        /\ Cardinality(days \cup left)
             = Cardinality(days) + Cardinality(left) - Cardinality({})
    BY <1>8, <1>10, <2>1, FS_Union
  <2>3. Cardinality(days \cup left) <= c
    BY <1>3, <1>4, <1>10, FS_Subset
  <2>4. Cardinality(days) \in Nat /\ Cardinality(left) \in Nat /\ Cardinality({}) = 0
    BY <1>8, <2>1, FS_CardinalityType, FS_EmptySet
  <2> QED
    BY <2>1, <2>2, <2>3, <2>4
<1>12. Cardinality(left) \in Nat /\ Cardinality(R) \in Nat
  BY <1>6, <1>11, FS_CardinalityType
<1>13. Uncounted(m, w) = Cardinality(left) + Cardinality(R) - x
  BY <1>4, <1>5, <1>9 DEF Uncounted
<1> QED
  BY <1>1, <1>4, <1>8, <1>11, <1>12, <1>13

LEMMA FaultsPay ==
  ASSUME Workers # {}, IsFiniteSet(Tokens), Loyal # {}, SnapTypeInv, DayInv
  PROVE  OneFaultOneTokenDay
<1> SUFFICES ASSUME \A p \in Workers : worker[p].pc = "idle"
             PROVE  SumFunctionOnSet(
                      [m \in Tokens |-> Max({Uncounted(m, w) : w \in Loyal})], Tokens)
                        <= faults
  BY DEF OneFaultOneTokenDay
<1>1. PICK p \in Workers : TRUE
  OBVIOUS
<1>2. PICK lack : lack = Lack(worker[p], owed, snapshots, lastDate, totals)
  OBVIOUS
<1>3. PICK cost \in [Tokens -> Nat] :
        /\ SumFunctionOnSet(cost, Tokens) <= faults
        /\ \A m \in Tokens, w \in Loyal : lack[m][w] <= cost[m]
  <2>1. Affords(lack, faults)
    BY <1>2 DEF DayInv
  <2> QED
    BY <2>1 DEF Affords
<1>4. PICK worst : worst = [m \in Tokens |-> Max({Uncounted(m, w) : w \in Loyal})]
  OBVIOUS
<1>5. ASSUME NEW m \in Tokens
      PROVE  worst[m] \in Int /\ worst[m] <= cost[m]
  <2>1. PICK U : U = {Uncounted(m, w) : w \in Loyal}
    OBVIOUS
  <2>2. \A w \in Loyal : /\ Uncounted(m, w) \in Int /\ lack[m][w] \in Int
                         /\ Uncounted(m, w) <= cost[m]
    <3> SUFFICES ASSUME NEW w \in Loyal
                 PROVE  /\ Uncounted(m, w) \in Int /\ lack[m][w] \in Int
                        /\ Uncounted(m, w) <= cost[m]
      OBVIOUS
    <3>1. Uncounted(m, w) \in Int /\ Uncounted(m, w) <= lack[m][w]
      BY <1>2, UncountedIsLack
    <3>2. lack[m][w] \in Int
      <4>1. DayTypes(today, worker[p], owed, snapshots, lastDate, totals)
        BY DayTypesHold
      <4>2. \A c, x, q \in Int : c - x - q \in Int
        OBVIOUS
      <4>3. /\ lack[m][w] = Cardinality(Due(worker[p], m, owed, snapshots, lastDate))
                               - totals[m][w].days - Promised(worker[p], m, w)
            /\ Cardinality(Due(worker[p], m, owed, snapshots, lastDate)) \in Nat
            /\ totals[m][w].days \in Nat /\ Promised(worker[p], m, w) \in {0, 1}
        BY <1>2, <4>1, LackIs
      <4> QED
        BY <4>2, <4>3
    <3>3. lack[m][w] <= cost[m] /\ cost[m] \in Nat
      BY <1>3
    <3> QED
      BY <3>1, <3>2, <3>3
  <2>3. IsFiniteSet(U)
    <3>1. IsFiniteSet(Loyal)
      BY SnapshotConstants, FS_Subset DEF Wallets
    <3>2. PICK f : f = [w \in Loyal |-> Uncounted(m, w)]
      OBVIOUS
    <3>3. f \in Surjection(Loyal, U)
      BY <2>1, <3>2 DEF Surjection
    <3> QED
      BY <3>1, <3>3, FS_Surjection
  <2>4. U \in SUBSET Int /\ U # {}
    BY <2>1, <2>2
  <2>5. Max(U) \in U
    BY <2>3, <2>4, MaxOfSet
  <2>6. worst[m] = Max(U)
    BY <1>4, <2>1
  <2> QED
    BY <2>1, <2>2, <2>5, <2>6
<1>6. SumFunctionOnSet(worst, Tokens) <= SumFunctionOnSet(cost, Tokens)
  <2>1. /\ \A m \in Tokens : worst[m] \in Int /\ cost[m] \in Int
        /\ \A m \in Tokens : 1 * worst[m] <= 1 * cost[m] + 0
    BY <1>3, <1>5
  <2>2. 1 * SumFunctionOnSet(worst, Tokens)
          <= 1 * SumFunctionOnSet(cost, Tokens) + 0 * Cardinality(Tokens)
    <3>1. 1 \in Int /\ 0 \in Int
      OBVIOUS
    <3> QED
      BY <2>1, <3>1, SumBound
  <2>3. /\ SumFunctionOnSet(worst, Tokens) \in Int
        /\ SumFunctionOnSet(cost, Tokens) \in Int /\ Cardinality(Tokens) \in Nat
    BY <1>3, <1>5, SumInt, FS_CardinalityType
  <2> QED
    BY <2>2, <2>3
<1>7. SumFunctionOnSet(worst, Tokens) \in Int /\ SumFunctionOnSet(cost, Tokens) \in Int
  BY <1>3, <1>5, SumInt
<1>8. faults \in Nat
  BY DayTypesHold
<1> QED
  BY <1>3, <1>4, <1>6, <1>7, <1>8

\* A failed request, a partial answer of the node or a crash costs the holders
\* of one token one day at most, for one worker and any tokens, holders, days,
\* batches and failures: every other day that the worker reached, or caught up
\* on, is in the rows and in the totals of everybody who held the token all
\* along once the run is over (airdrop-worker-v2.js, runSnapshot and
\* snapshotTokenForDate).
THEOREM OneFaultOneDay ==
  ASSUME OneWorker, Workers # {}, IsFiniteSet(Tokens), Loyal # {}
  PROVE  SnapshotSpec => []OneFaultOneTokenDay
<1>1. SnapshotInit => SnapTypeInv /\ DayInv
  BY SnapshotInits, DayStarts
<1>2. SnapTypeInv /\ DayInv /\ [SnapshotNext]_snapshotVars => (SnapTypeInv /\ DayInv)'
  BY StepTypes, StepDay
<1>3. SnapTypeInv /\ DayInv => OneFaultOneTokenDay
  BY FaultsPay
<1> QED
  BY <1>1, <1>2, <1>3, PTL DEF SnapshotSpec

-----------------------------------------------------------------------------
\* SwapRows: what a row says of a trade.
ReserveType == [one : Nat \ {0}, two : Nat \ {0}]

\* What the swaps of a transaction work on.
Account ==
  [reserves : [PoolMints -> ReserveType], tokens : [PoolMints -> Int],
   sol : Int, goes : BOOLEAN]

LEMMA QuoteBounds ==
  ASSUME NEW r \in ReserveType, NEW s \in Swap
  PROVE  /\ Quote(r, s) \in Nat
         /\ IF Sells(s) THEN Quote(r, s) < r.two ELSE Quote(r, s) < r.one
<1>1. \A x, y, z \in Nat \ {0} :
        /\ (x * z) \div (y + z) \in Nat
        /\ (x * z) \div (y + z) < x
  <2> TAKE x, y, z \in Nat \ {0}
  <2>1. PICK q \in Int : q = (x * z) \div (y + z)
    OBVIOUS
  <2>2. q * (y + z) <= x * z /\ x * z < q * (y + z) + (y + z)
    BY <2>1
  <2>3. x * z < x * (y + z) /\ x * z > 0
    OBVIOUS
  <2>4. q >= 0
    <3>1. SUFFICES ASSUME q <= -1 PROVE FALSE
      OBVIOUS
    <3>2. q * (y + z) <= -1 * (y + z)
      BY <3>1
    <3> QED
      BY <2>2, <2>3, <3>2
  <2>5. q < x
    <3>1. SUFFICES ASSUME q >= x PROVE FALSE
      OBVIOUS
    <3>2. q * (y + z) >= x * (y + z)
      BY <3>1
    <3> QED
      BY <2>2, <2>3, <3>2
  <2> QED
    BY <2>1, <2>4, <2>5
<1>2. r.one \in Nat \ {0} /\ r.two \in Nat \ {0} /\ s.amount \in Nat \ {0}
  BY DEF ReserveType, Swap
<1> QED
  BY <1>1, <1>2 DEF Quote

\* A swap keeps the reserves above zero, and does not go through if it takes
\* more tokens than there are.
LEMMA SwappedType ==
  ASSUME NEW acc \in Account, NEW s \in Swap
  PROVE  /\ Swapped(acc, s) \in Account
         /\ Swapped(acc, s).goes =>
              /\ acc.goes
              /\ Swapped(acc, s).tokens[s.mint] >= 0
         /\ \A m \in PoolMints \ {s.mint} :
              Swapped(acc, s).tokens[m] = acc.tokens[m]
<1> DEFINE r == acc.reserves[s.mint]
           out == Quote(r, s)
           tok == IF Sells(s) THEN -s.amount ELSE out
           sol == IF Sells(s) THEN out ELSE -s.amount
<1>1. /\ acc.reserves \in [PoolMints -> ReserveType]
      /\ acc.tokens \in [PoolMints -> Int]
      /\ acc.sol \in Int /\ acc.goes \in BOOLEAN
  BY DEF Account
<1>2. s.mint \in PoolMints /\ s.amount \in Nat \ {0}
  BY DEF Swap
<1>3. r \in ReserveType
  BY <1>1, <1>2
<1>4. /\ out \in Nat
      /\ IF Sells(s) THEN out < r.two ELSE out < r.one
  <2> HIDE DEF r
  <2> QED
    BY <1>3, QuoteBounds
<1>5. r.one \in Nat \ {0} /\ r.two \in Nat \ {0}
  BY <1>3 DEF ReserveType
<1>6. tok \in Int /\ sol \in Int /\ r.one - tok \in Nat \ {0}
      /\ r.two - sol \in Nat \ {0}
  <2> HIDE DEF r, out
  <2> QED
    BY <1>2, <1>4, <1>5
<1>7. Swapped(acc, s) =
        [reserves |-> [acc.reserves EXCEPT ![s.mint] =
                      [one |-> r.one - tok, two |-> r.two - sol]],
         tokens |-> [acc.tokens EXCEPT ![s.mint] = acc.tokens[s.mint] + tok],
         sol |-> acc.sol + sol,
         goes |-> acc.goes /\ acc.tokens[s.mint] + tok >= 0]
  BY DEF Swapped
<1> HIDE DEF r, out, tok, sol
<1>8. PICK R : R = [one |-> r.one - tok, two |-> r.two - sol]
  OBVIOUS
<1>9. R \in ReserveType
  BY <1>6, <1>8 DEF ReserveType
<1>10. acc.tokens[s.mint] + tok \in Int
  BY <1>1, <1>2, <1>6
<1>11. PICK A : A = [acc.reserves EXCEPT ![s.mint] = R]
  OBVIOUS
<1>12. A \in [PoolMints -> ReserveType]
  BY <1>1, <1>2, <1>9, <1>11
<1>13. PICK B : B = [acc.tokens EXCEPT ![s.mint] = acc.tokens[s.mint] + tok]
  OBVIOUS
<1>14. /\ B \in [PoolMints -> Int] /\ B[s.mint] = acc.tokens[s.mint] + tok
       /\ \A m \in PoolMints \ {s.mint} : B[m] = acc.tokens[m]
  BY <1>1, <1>2, <1>10, <1>13
<1>15. PICK g \in BOOLEAN : g = (acc.goes /\ acc.tokens[s.mint] + tok >= 0)
  OBVIOUS
<1>16. Swapped(acc, s) = [reserves |-> A, tokens |-> B, sol |-> acc.sol + sol,
                          goes |-> g]
  BY <1>7, <1>8, <1>11, <1>13, <1>15
<1>17. acc.sol + sol \in Int
  BY <1>1, <1>6
<1>18. Swapped(acc, s).goes => acc.goes /\ Swapped(acc, s).tokens[s.mint] >= 0
  <2>1. Swapped(acc, s).goes = g /\ Swapped(acc, s).tokens = B
    BY <1>16
  <2>2. g => acc.goes /\ acc.tokens[s.mint] + tok >= 0
    BY <1>15
  <2> QED
    BY <1>14, <2>1, <2>2
<1>19. Swapped(acc, s).tokens = B
  BY <1>16
<1>20. Swapped(acc, s) \in Account
  BY <1>12, <1>14, <1>16, <1>17 DEF Account
<1> QED
  BY <1>14, <1>18, <1>19, <1>20

-----------------------------------------------------------------------------
\* The swaps of a transaction one after another: FoldLeft by the last of the
\* swaps that are left.
Folds(iter, start, swaps, T) ==
  iter = [s \in SUBSET T |->
            IF s = {} THEN start
            ELSE Swapped(iter[s \ {Max(s)}], swaps[Max(s)])]

LEMMA FoldsAgree ==
  ASSUME NEW S \in SUBSET Int, IsFiniteSet(S), NEW start, NEW swaps,
         NEW T \in SUBSET S, NEW V \in SUBSET S, NEW g, NEW h,
         Folds(g, start, swaps, T), Folds(h, start, swaps, V)
  PROVE  \A s \in SUBSET S : s \subseteq T /\ s \subseteq V => g[s] = h[s]
<1> DEFINE G == {s \in SUBSET S : s \subseteq T /\ s \subseteq V => g[s] = h[s]}
<1>1. ASSUME NEW s \in SUBSET S, \A u \in SUBSET s : u # s => u \in G,
             s \subseteq T, s \subseteq V
      PROVE  g[s] = h[s]
  <2>1. CASE s = {}
    BY <1>1, <2>1 DEF Folds
  <2>2. CASE s # {}
    <3>1. /\ g[s] = Swapped(g[s \ {Max(s)}], swaps[Max(s)])
          /\ h[s] = Swapped(h[s \ {Max(s)}], swaps[Max(s)])
      BY <1>1, <2>2 DEF Folds
    <3>2. s \ {Max(s)} \in G
      BY <1>1, <2>2, LastIn
    <3> QED
      BY <1>1, <3>1, <3>2
  <2> QED
    BY <2>1, <2>2
<1>2. \A s \in SUBSET S : (\A u \in SUBSET s : u # s => u \in G) => s \in G
  BY <1>1
<1> HIDE DEF G
<1>4. \A s \in SUBSET S : s \in G
  BY <1>2, SubsetInduction
<1> QED
  BY <1>4 DEF G

LEMMA FoldsStep ==
  ASSUME NEW S \in SUBSET Int, IsFiniteSet(S), NEW start, NEW swaps,
         NEW U \in SUBSET S, NEW g, NEW h, Folds(g, start, swaps, U),
         U # {} => Folds(h, start, swaps, U \ {Max(U)})
  PROVE  g[U] = IF U = {} THEN start
                ELSE Swapped(h[U \ {Max(U)}], swaps[Max(U)])
<1>1. CASE U = {}
  BY <1>1 DEF Folds
<1>2. CASE U # {}
  <2>1. PICK u : u = U \ {Max(U)}
    OBVIOUS
  <2>2. u \in SUBSET S /\ u \subseteq U
    BY <2>1
  <2>3. g[u] = h[u]
    BY <1>2, <2>1, <2>2, FoldsAgree
  <2>4. g[U] = Swapped(g[u], swaps[Max(U)])
    BY <1>2, <2>1 DEF Folds
  <2> QED
    BY <1>2, <2>1, <2>3, <2>4
<1> QED
  BY <1>1, <1>2

LEMMA FoldsExists ==
  ASSUME NEW S \in SUBSET Int, IsFiniteSet(S), NEW start, NEW swaps
  PROVE  \E g : Folds(g, start, swaps, S)
<1> DEFINE G == {T \in SUBSET S : \E g : Folds(g, start, swaps, T)}
<1>1. ASSUME NEW T \in SUBSET S, \A U \in SUBSET T : U # T => U \in G
      PROVE  \E g : Folds(g, start, swaps, T)
  <2>1. PICK of : of = [U \in SUBSET T |-> CHOOSE g : Folds(g, start, swaps, U)]
    OBVIOUS
  <2>2. \A U \in SUBSET T : U # T => Folds(of[U], start, swaps, U)
    BY <1>1, <2>1
  <2>3. PICK all : all = [s \in SUBSET T |->
            IF s = {} THEN start
            ELSE Swapped(of[s \ {Max(s)}][s \ {Max(s)}], swaps[Max(s)])]
    OBVIOUS
  <2>4. ASSUME NEW U \in SUBSET T, U # T
        PROVE  all[U] = of[U][U]
    <3>1. U # {} => Folds(of[U \ {Max(U)}], start, swaps, U \ {Max(U)})
      <4>1. U # {} => U \ {Max(U)} \in SUBSET T /\ U \ {Max(U)} # T
        BY LastIn
      <4> QED
        BY <4>1, <2>2
    <3>2. U \in SUBSET S /\ Folds(of[U], start, swaps, U)
      BY <2>2, <2>4
    <3>3. of[U][U] = IF U = {} THEN start
                     ELSE Swapped(of[U \ {Max(U)}][U \ {Max(U)}], swaps[Max(U)])
      BY <3>1, <3>2, FoldsStep
    <3>4. all[U] = IF U = {} THEN start
                   ELSE Swapped(of[U \ {Max(U)}][U \ {Max(U)}], swaps[Max(U)])
      BY <2>3
    <3> QED
      BY <3>3, <3>4
  <2>5. ASSUME NEW s \in SUBSET T, s # {}
        PROVE  all[s \ {Max(s)}] = of[s \ {Max(s)}][s \ {Max(s)}]
    <3>1. s \ {Max(s)} \in SUBSET T /\ s \ {Max(s)} # T
      BY <2>5, LastIn
    <3> QED
      BY <3>1, <2>4
  <2>6. all = [s \in SUBSET T |->
                 IF s = {} THEN start
                 ELSE Swapped(all[s \ {Max(s)}], swaps[Max(s)])]
    BY <2>3, <2>5
  <2> QED
    BY <2>6 DEF Folds
<1>2. \A T \in SUBSET S : (\A U \in SUBSET T : U # T => U \in G) => T \in G
  BY <1>1
<1> HIDE DEF G
<1>4. S \in G
  BY <1>2, SubsetInduction
<1> QED
  BY <1>4 DEF G

LEMMA FoldIsFolds ==
  ASSUME NEW start, NEW swaps, NEW n \in Nat, DOMAIN swaps = 1..n
  PROVE  \E iter : /\ Folds(iter, start, swaps, 1..n)
                   /\ FoldLeft(Swapped, start, swaps) = iter[1..n]
<1> DEFINE the == CHOOSE iter : Folds(iter, start, swaps, 1..n)
<1>1. Folds(the, start, swaps, 1..n)
  <2>1. PICK S : S = 1..n
    OBVIOUS
  <2>2. S \in SUBSET Int /\ IsFiniteSet(S)
    BY <2>1, FirstAreFinite
  <2>3. \E g : Folds(g, start, swaps, S)
    BY <2>2, FoldsExists
  <2> QED
    BY <2>1, <2>3
<1>2. FoldLeft(Swapped, start, swaps) = the[1..n]
  BY DEF FoldLeft, MapThenFoldSet, Folds
<1> QED
  BY <1>1, <1>2

\* A transaction that goes through leaves no account below zero.
LEMMA FoldType ==
  ASSUME NEW start \in Account, NEW swaps, NEW n \in Nat, DOMAIN swaps = 1..n,
         \A i \in 1..n : swaps[i] \in Swap,
         \A m \in MintsOf(swaps) : start.tokens[m] >= 0
  PROVE  /\ FoldLeft(Swapped, start, swaps) \in Account
         /\ FoldLeft(Swapped, start, swaps).goes =>
              \A m \in MintsOf(swaps) : FoldLeft(Swapped, start, swaps).tokens[m] >= 0
<1> DEFINE Fits(acc) == acc.goes => \A m \in MintsOf(swaps) : acc.tokens[m] >= 0
<1>1. PICK S : S = 1..n
  OBVIOUS
<1>2. S \in SUBSET Int /\ IsFiniteSet(S)
  BY <1>1, FirstAreFinite
<1>3. PICK iter : /\ Folds(iter, start, swaps, S)
                  /\ FoldLeft(Swapped, start, swaps) = iter[S]
  BY <1>1, FoldIsFolds
<1> DEFINE G == {T \in SUBSET S : iter[T] \in Account /\ Fits(iter[T])}
<1>4. ASSUME NEW T \in SUBSET S, \A U \in SUBSET T : U # T => U \in G
      PROVE  T \in G
  <2>1. CASE T = {}
    BY <1>3, <2>1 DEF Folds
  <2>2. CASE T # {}
    <3>1. PICK i : i = Max(T)
      OBVIOUS
    <3>2. i \in T
      BY <1>2, <2>2, <3>1, LastIn
    <3>3. PICK acc : acc = iter[T \ {i}]
      OBVIOUS
    <3>4. acc \in Account /\ Fits(acc)
      BY <1>4, <3>2, <3>3
    <3>5. PICK s : s = swaps[i]
      OBVIOUS
    <3>6. s \in Swap
      BY <1>1, <3>2, <3>5
    <3>7. iter[T] = Swapped(acc, s)
      BY <1>3, <2>2, <3>1, <3>3, <3>5 DEF Folds
    <3>8. Swapped(acc, s) \in Account
      BY <3>4, <3>6, SwappedType
    <3>9. Swapped(acc, s).goes => acc.goes /\ Swapped(acc, s).tokens[s.mint] >= 0
      BY <3>4, <3>6, SwappedType
    <3>10. \A m \in PoolMints \ {s.mint} :
             Swapped(acc, s).tokens[m] = acc.tokens[m]
      BY <3>4, <3>6, SwappedType
    <3>11. MintsOf(swaps) \subseteq PoolMints
      BY <1>1 DEF MintsOf, Swap
    <3>12. Fits(Swapped(acc, s))
      BY <3>4, <3>9, <3>10, <3>11
    <3> QED
      BY <3>7, <3>8, <3>12
  <2> QED
    BY <2>1, <2>2
<1>5. \A T \in SUBSET S : (\A U \in SUBSET T : U # T => U \in G) => T \in G
  BY <1>4
<1>6. \A T \in SUBSET S : T \in G
  <2> HIDE DEF G
  <2> QED
    BY <1>2, <1>5, SubsetInduction
<1>7. iter[S] \in Account /\ Fits(iter[S])
  BY <1>6
<1> QED
  BY <1>3, <1>7

\* One swap alone.
LEMMA FoldOne ==
  ASSUME NEW start, NEW swaps, DOMAIN swaps = 1..1
  PROVE  FoldLeft(Swapped, start, swaps) = Swapped(start, swaps[1])
<1>1. PICK n \in Nat : n = 1
  OBVIOUS
<1>2. PICK iter : /\ Folds(iter, start, swaps, 1..n)
                  /\ FoldLeft(Swapped, start, swaps) = iter[1..n]
  BY <1>1, FoldIsFolds
<1>3. 1..n = {1}
  BY <1>1
<1>4. Max({1}) = 1
  BY DEF Max
<1>5. {1} \ {1} = {}
  OBVIOUS
<1>6. iter[{1}] = Swapped(iter[{}], swaps[1]) /\ iter[{}] = start
  BY <1>2, <1>3, <1>4, <1>5 DEF Folds
<1> QED
  BY <1>2, <1>3, <1>6

-----------------------------------------------------------------------------
RowTx ==
  [swaps : Forms, payer : {Trader, Relayer}, direct : BOOLEAN, ok : BOOLEAN,
   opens : Nat, solChange : Nat, tokChange : [PoolMints -> Nat],
   first : [sol : Nat, tok : Nat]]

SwapRowType ==
  [mint : PoolMints, side : {"buy", "sell"}, sol_amount : Nat,
   token_amount : Nat, price : Nat \X Nat]

RowTypes ==
  /\ reserves \in [PoolMints -> ReserveType]
  /\ held \in [PoolMints -> Nat \cup {-1}]
  /\ info \in [PoolMints -> ReserveType \cup {Unread}]
  /\ txs \in Seq(RowTx) /\ Len(txs) <= MaxRows
  /\ rowOf \in Seq(SwapRowType \cup {NoRow}) /\ Len(rowOf) = Len(txs)

CostOf(txn) == Rent * txn.opens + TxFee

\* What the balances say of a plain trade.
BalancesTell(txn) ==
  txn.ok /\ Plain(txn) =>
    LET s == txn.swaps[1]
    IN /\ txn.tokChange[s.mint] = txn.first.tok
       /\ IF Sells(s)
          THEN /\ txn.solChange = Abs(txn.first.sol - CostOf(txn))
               /\ txn.first.tok = s.amount
          ELSE /\ txn.solChange = txn.first.sol + CostOf(txn)
               /\ txn.first.sol = s.amount

\* The prices of the pools, and those that were read, are known.
PricesKnown ==
  \A m \in PoolMints :
    /\ PriceOf(reserves[m]) \in quoted[m]
    /\ info[m] # Unread => PriceOf(info[m]) \in quoted[m]

RowIsRight(row, txn) ==
  Plain(txn) =>
    /\ row.token_amount = txn.first.tok
    /\ \/ row.price[2] = txn.first.tok /\ WithinCosts(row.price[1], txn)
       \/ row.price = NoPrice /\ txn.first.tok = 0
       \/ row.price = <<txn.first.tok, txn.first.tok>> /\ BreaksEven(txn)
       \/ /\ row.price \in quoted[row.mint]
          /\ txn.first.sol + (CostOf(txn) + Estimate) > txn.first.tok

RowsInv ==
  /\ RowTypes /\ PricesKnown
  /\ \A i \in DOMAIN txs : BalancesTell(txs[i])
  /\ \A i \in DOMAIN rowOf : rowOf[i] # NoRow => RowIsRight(rowOf[i], txs[i])

LEMMA FormType ==
  ASSUME NEW swaps \in Forms
  PROVE  /\ Len(swaps) \in Nat \ {0} /\ DOMAIN swaps = 1..Len(swaps)
         /\ \A i \in 1..Len(swaps) : swaps[i] \in Swap
         /\ swaps[1] \in Swap
         /\ MintsOf(swaps) \subseteq PoolMints
         /\ swaps[1].mint \in MintsOf(swaps)
         /\ IsFiniteSet(MintsOf(swaps))
<1>1. /\ Len(swaps) \in Nat \ {0} /\ DOMAIN swaps = 1..Len(swaps)
      /\ \A i \in 1..Len(swaps) : swaps[i] \in Swap
  BY SwapRowsAssumption
<1>2. 1 \in 1..Len(swaps)
  BY <1>1
<1>3. MintsOf(swaps) \subseteq PoolMints
  BY <1>1 DEF MintsOf, Swap
<1>4. IsFiniteSet(MintsOf(swaps))
  <2>1. PICK S : S = DOMAIN swaps
    OBVIOUS
  <2>2. IsFiniteSet(S)
    <3>1. PICK o \in Int : o = 1
      OBVIOUS
    <3>2. PICK n : n = Len(swaps)
      OBVIOUS
    <3>3. n \in Int /\ S = o..n
      BY <1>1, <2>1, <3>1, <3>2
    <3>4. IsFiniteSet(o..n)
      BY <3>3, FS_Interval
    <3> QED
      BY <3>3, <3>4
  <2>3. PICK f : f = [i \in S |-> swaps[i].mint]
    OBVIOUS
  <2>4. f \in Surjection(S, MintsOf(swaps))
    BY <2>1, <2>3 DEF Surjection, MintsOf
  <2> QED
    BY <2>2, <2>4, FS_Surjection
<1> QED
  BY <1>1, <1>2, <1>3, <1>4 DEF MintsOf

LEMMA RowsInit == SwapRowsInit => RowsInv
<1> SUFFICES ASSUME SwapRowsInit PROVE RowsInv
  OBVIOUS
<1> USE DEF SwapRowsInit
<1>1. reserves \in [PoolMints -> ReserveType]
  BY SwapRowsAssumption DEF ReserveType
<1>2. info \in [PoolMints -> ReserveType \cup {Unread}]
  BY SwapRowsAssumption DEF ReserveType
<1>3. held \in [PoolMints -> Nat \cup {-1}]
  BY SwapRowsAssumption
<1>4. PricesKnown
  BY DEF PricesKnown
<1>5. MaxRows \in Nat /\ txs = <<>> /\ rowOf = <<>>
  BY SwapRowsAssumption
<1>6. RowTypes
  <2>1. \A R : <<>> \in Seq(R)
    OBVIOUS
  <2>2. Len(txs) <= MaxRows /\ Len(rowOf) = Len(txs)
    BY <1>5
  <2> QED
    BY <1>1, <1>2, <1>3, <1>5, <2>1, <2>2 DEF RowTypes
<1>7. DOMAIN txs = {} /\ DOMAIN rowOf = {}
  BY <1>5
<1> QED
  BY <1>4, <1>6, <1>7 DEF RowsInv

\* The row the indexer makes of a plain trade is right.
LEMMA RowOfTrade ==
  ASSUME RowTypes, PricesKnown, NEW txn \in RowTx, BalancesTell(txn), txn.ok,
         NEW polled \in PoolMints
  PROVE  /\ parseSwapFromTx(txn, polled) \in SwapRowType
         /\ RowIsRight(parseSwapFromTx(txn, polled), txn)
<1>1. PICK s : s = txn.swaps[1]
  OBVIOUS
<1>2. PICK row : row = parseSwapFromTx(txn, polled)
  OBVIOUS
<1>3. s \in Swap /\ s.mint \in PoolMints /\ s.amount \in Nat \ {0}
  BY <1>1, FormType DEF RowTx, Swap
<1>4. /\ TxFee \in Nat /\ Estimate \in Nat /\ Rent \in Nat /\ Estimate <= TxFee
  BY SwapRowsAssumption
<1>5. /\ txn.opens \in Nat /\ txn.solChange \in Nat
      /\ txn.tokChange \in [PoolMints -> Nat]
      /\ txn.first.sol \in Nat /\ txn.first.tok \in Nat
  BY DEF RowTx
<1>6. PICK costs \in Nat : costs = CostOf(txn) /\ costs >= Estimate
  <2>1. \A r, o \in Nat : r * o \in Nat
    OBVIOUS
  <2>2. PICK k \in Nat : k = Rent * txn.opens
    BY <1>4, <1>5, <2>1
  <2> QED
    BY <1>4, <2>2 DEF CostOf
<1>7. PICK changed \in Nat : changed = solChanged(txn)
  BY <1>4, <1>5 DEF solChanged
<1>8. PICK paid \in Nat : paid = effectiveSol(txn)
                          /\ paid = IF changed > 0 THEN changed ELSE s.amount
  BY <1>1, <1>3, <1>7 DEF effectiveSol
<1>9. PICK tok \in Nat : tok = tokenAmount(txn, s.mint) /\ tok = txn.tokChange[s.mint]
  BY <1>3, <1>5 DEF tokenAmount
<1>10. /\ row.mint = s.mint /\ row.token_amount = tok
       /\ row.price = rowPrice(txn, polled)
       /\ row \in [mint : {s.mint}, side : {"buy", "sell"}, sol_amount : {s.amount},
                   token_amount : {tok}, price : {rowPrice(txn, polled)}]
  BY <1>1, <1>2, <1>9, SMTT(30) DEF parseSwapFromTx
<1>11. \/ /\ info[s.mint] # Unread /\ paid > tok
          /\ row.price = PriceOf(info[s.mint])
       \/ row.price = NoPrice /\ tok = 0
       \/ row.price = <<paid, tok>> /\ tok # 0
  BY <1>1, <1>8, <1>9, <1>10 DEF rowPrice
<1>12. row.price \in Nat \X Nat
  <2>1. CASE info[s.mint] # Unread /\ row.price = PriceOf(info[s.mint])
    <3>1. info[s.mint] \in ReserveType
      BY <1>3, <2>1 DEF RowTypes
    <3> QED
      BY <2>1, <3>1 DEF PriceOf, ReserveType
  <2>2. CASE row.price = NoPrice
    BY <2>2 DEF NoPrice
  <2>3. CASE row.price = <<paid, tok>>
    BY <2>3
  <2> QED
    BY <1>11, <2>1, <2>2, <2>3
<1>13. row \in SwapRowType
  BY <1>3, <1>10, <1>12 DEF SwapRowType
<1>14. ASSUME Plain(txn)
       PROVE  /\ tok = txn.first.tok
              /\ \/ paid = tok /\ BreaksEven(txn)
                 \/ WithinCosts(paid, txn)
              /\ paid > tok => txn.first.sol + (CostOf(txn) + Estimate) > txn.first.tok
  <2>1. tok = txn.first.tok
    BY <1>1, <1>9, <1>14 DEF BalancesTell
  <2>2. costs = Rent * txn.opens + TxFee
    BY <1>6 DEF CostOf
  <2>3. CASE ~Sells(s)
    <3>1. txn.solChange = txn.first.sol + costs
      BY <1>1, <1>6, <1>14, <2>3 DEF BalancesTell
    <3>2. changed = IF txn.solChange > 2 * Estimate THEN txn.solChange - Estimate
                    ELSE txn.solChange
      BY <1>7 DEF solChanged
    <3>3. CASE changed > 0
      <4>1. paid - txn.first.sol \in 0..costs
        BY <1>4, <1>5, <1>6, <1>8, <3>1, <3>2, <3>3
      <4>2. WithinCosts(paid, txn)
        BY <1>1, <2>2, <2>3, <4>1 DEF WithinCosts
      <4> QED
        BY <1>4, <1>5, <1>6, <2>1, <4>1, <4>2
    <3>4. CASE changed = 0
      \* Nothing was paid in, which no swap does.
      <4>1. txn.solChange = 0
        BY <1>4, <1>5, <3>2, <3>4
      <4>2. txn.first.sol > 0
        BY <1>1, <1>3, <1>14, <2>3 DEF BalancesTell
      <4> QED
        BY <1>5, <3>1, <4>1, <4>2
    <3> QED
      BY <3>3, <3>4
  <2>4. CASE Sells(s)
    <3>1. /\ txn.solChange = Abs(txn.first.sol - costs)
          /\ txn.first.tok = s.amount
      BY <1>1, <1>6, <1>14, <2>4 DEF BalancesTell
    <3>2. changed = IF txn.solChange > 2 * Estimate THEN txn.solChange - Estimate
                    ELSE txn.solChange
      BY <1>7 DEF solChanged
    <3>3. txn.solChange = IF txn.first.sol < costs THEN costs - txn.first.sol
                         ELSE txn.first.sol - costs
      BY <1>5, <3>1 DEF Abs
    <3>4. CASE changed > 0
      <4>1. Abs(paid - txn.first.sol) <= costs + Estimate
        BY <1>4, <1>5, <1>8, <3>2, <3>3, <3>4 DEF Abs
      <4>2. WithinCosts(paid, txn)
        BY <1>1, <2>2, <2>4, <4>1 DEF WithinCosts
      <4>3. paid <= txn.first.sol + costs
        BY <1>4, <1>5, <1>8, <3>2, <3>3, <3>4
      <4> QED
        BY <1>4, <1>5, <1>6, <2>1, <4>2, <4>3
    <3>5. CASE changed = 0
      <4>1. txn.first.sol = costs
        BY <1>4, <1>5, <3>2, <3>3, <3>5
      <4> QED
        BY <1>1, <1>8, <2>1, <2>2, <2>4, <3>1, <3>5, <4>1 DEF BreaksEven
    <3> QED
      BY <3>4, <3>5
  <2> QED
    BY <2>3, <2>4
<1>15. RowIsRight(row, txn)
  <2> SUFFICES ASSUME Plain(txn)
               PROVE  /\ row.token_amount = txn.first.tok
                      /\ \/ row.price[2] = txn.first.tok /\ WithinCosts(row.price[1], txn)
                         \/ row.price = NoPrice /\ txn.first.tok = 0
                         \/ row.price = <<txn.first.tok, txn.first.tok>> /\ BreaksEven(txn)
                         \/ /\ row.price \in quoted[row.mint]
                            /\ txn.first.sol + (CostOf(txn) + Estimate) > txn.first.tok
    BY DEF RowIsRight
  <2>1. CASE info[s.mint] # Unread /\ paid > tok /\ row.price = PriceOf(info[s.mint])
    BY <1>3, <1>10, <1>14, <2>1 DEF PricesKnown
  <2>2. CASE row.price = NoPrice /\ tok = 0
    BY <1>10, <1>14, <2>2
  <2>3. CASE row.price = <<paid, tok>> /\ tok # 0
    <3>1. row.price[1] = paid /\ row.price[2] = tok
      BY <2>3
    <3> QED
      BY <1>10, <1>14, <2>3, <3>1
  <2> QED
    BY <1>11, <2>1, <2>2, <2>3
<1> QED
  BY <1>2, <1>13, <1>15

-----------------------------------------------------------------------------
\* What a transaction starts from.
OpenedOf(missing) == [m \in PoolMints |-> IF m \in missing THEN 0 ELSE held[m]]

StartOf(opened) ==
  [reserves |-> reserves, tokens |-> opened, sol |-> 0, goes |-> TRUE]

\* A swap of its own: what comes in or goes out is the amount.
LEMMA FirstSwap ==
  ASSUME NEW start \in Account, NEW s \in Swap, start.sol = 0
  PROVE  /\ Swapped(start, s).sol \in Int
         /\ Swapped(start, s).tokens[s.mint] - start.tokens[s.mint] \in Int
         /\ IF Sells(s)
            THEN /\ Swapped(start, s).sol >= 0
                 /\ Swapped(start, s).tokens[s.mint] - start.tokens[s.mint]
                      = -s.amount
            ELSE Swapped(start, s).sol = -s.amount
<1>1. /\ start.reserves \in [PoolMints -> ReserveType]
      /\ start.tokens \in [PoolMints -> Int]
      /\ s.mint \in PoolMints /\ s.amount \in Nat \ {0}
  BY DEF Account, Swap
<1>2. PICK r : r = start.reserves[s.mint]
  OBVIOUS
<1>3. r \in ReserveType
  BY <1>1, <1>2
<1>4. PICK out : out = Quote(r, s)
  OBVIOUS
<1>5. out \in Nat
  BY <1>3, <1>4, QuoteBounds
<1>6. PICK tok \in Int : tok = IF Sells(s) THEN -s.amount ELSE out
  BY <1>1, <1>5
<1>7. PICK sol \in Int : sol = IF Sells(s) THEN out ELSE -s.amount
  BY <1>1, <1>5
<1>8. /\ Swapped(start, s).sol = start.sol + sol
      /\ Swapped(start, s).tokens
           = [start.tokens EXCEPT ![s.mint] = start.tokens[s.mint] + tok]
  BY <1>2, <1>4, <1>6, <1>7 DEF Swapped
<1>9. Swapped(start, s).tokens[s.mint] = start.tokens[s.mint] + tok
  BY <1>1, <1>8
<1>10. start.tokens[s.mint] \in Int
  BY <1>1
<1> QED
  BY <1>1, <1>5, <1>6, <1>7, <1>8, <1>9, <1>10

LEMMA TransactKeeps ==
  ASSUME RowsInv, NEW swaps \in Forms, NEW payer \in {Trader, Relayer},
         NEW direct \in BOOLEAN, NEW ok \in BOOLEAN,
         Transact(swaps, payer, direct, ok)
  PROVE  RowsInv'
<1>1. /\ reserves \in [PoolMints -> ReserveType]
      /\ held \in [PoolMints -> Nat \cup {-1}]
      /\ info \in [PoolMints -> ReserveType \cup {Unread}]
      /\ txs \in Seq(RowTx) /\ Len(txs) <= MaxRows
      /\ rowOf \in Seq(SwapRowType \cup {NoRow}) /\ Len(rowOf) = Len(txs)
  BY DEF RowsInv, RowTypes
<1>2. /\ TxFee \in Nat /\ Estimate \in Nat /\ Rent \in Nat /\ MaxRows \in Nat
  BY SwapRowsAssumption
<1>3. PICK missing : missing = {m \in MintsOf(swaps) : held[m] = -1}
  OBVIOUS
<1>4. PICK opens \in Nat : opens = Cardinality(missing)
  <2>1. IsFiniteSet(missing)
    <3>1. IsFiniteSet(MintsOf(swaps)) /\ missing \in SUBSET MintsOf(swaps)
      BY <1>3, FormType
    <3> QED
      BY <3>1, FS_Subset
  <2> QED
    BY <2>1, FS_CardinalityType
<1>5. PICK opened : opened = OpenedOf(missing)
  OBVIOUS
<1>6. /\ opened \in [PoolMints -> Int]
      /\ \A m \in MintsOf(swaps) : opened[m] >= 0
  <2>1. \A m \in PoolMints : held[m] \in Nat \cup {-1}
    BY <1>1
  <2>2. MintsOf(swaps) \subseteq PoolMints
    BY FormType
  <2> QED
    BY <1>3, <1>5, <2>1, <2>2 DEF OpenedOf
<1>7. PICK start : start = StartOf(opened)
  OBVIOUS
<1>8. start \in Account /\ start.tokens = opened /\ start.sol = 0
  BY <1>1, <1>6, <1>7 DEF Account, StartOf
<1>9. PICK n \in Nat : n = Len(swaps) /\ DOMAIN swaps = 1..n
                       /\ \A i \in 1..n : swaps[i] \in Swap
  BY FormType
<1>10. PICK end : end = FoldLeft(Swapped, start, swaps)
  OBVIOUS
<1>11. end \in Account
  BY <1>6, <1>8, <1>9, <1>10, FoldType
<1>12. end.goes => \A m \in MintsOf(swaps) : end.tokens[m] >= 0
  BY <1>6, <1>8, <1>9, <1>10, FoldType
<1>13. n = 1 => end = Swapped(start, swaps[1])
  BY <1>9, <1>10, FoldOne
<1>14. PICK s \in Swap : s = swaps[1] /\ s.mint \in PoolMints
  BY FormType DEF Swap
<1>15. PICK first : first = Swapped(start, s)
  OBVIOUS
<1>16. PICK got \in Int : got = first.sol
  BY <1>8, <1>15, FirstSwap
<1>17. PICK moved \in Int : moved = first.tokens[s.mint] - opened[s.mint]
  BY <1>8, <1>15, FirstSwap
<1>18. IF Sells(s) THEN got >= 0 /\ moved = -s.amount ELSE got = -s.amount
  BY <1>8, <1>15, <1>16, <1>17, FirstSwap
<1>19. PICK costs \in Nat : costs = TxFee + Rent * opens
  <2>1. \A r, o \in Nat : r * o \in Nat
    OBVIOUS
  <2> QED
    BY <1>2, <2>1
<1>20. PICK paid \in Int : paid = (IF payer = Trader THEN end.sol ELSE 0) - costs
  BY <1>11 DEF Account
<1>21. \A k \in Int : Abs(k) \in Nat
  BY DEF Abs
<1>22. PICK solChange \in Nat : solChange = IF ok THEN Abs(paid) ELSE TxFee
  BY <1>2, <1>21
<1>23. PICK tokChange : tokChange = [m \in PoolMints |->
                          IF ok THEN Abs(end.tokens[m] - opened[m]) ELSE 0]
  OBVIOUS
<1>24. tokChange \in [PoolMints -> Nat]
  <2>1. \A m \in PoolMints : end.tokens[m] - opened[m] \in Int
    BY <1>6, <1>11 DEF Account
  <2> QED
    BY <1>21, <1>23, <2>1
<1>25. PICK f : f = [sol |-> Abs(got), tok |-> Abs(moved)]
  OBVIOUS
<1>26. f \in [sol : Nat, tok : Nat] /\ f.sol = Abs(got) /\ f.tok = Abs(moved)
  BY <1>21, <1>25
<1>27. PICK txn : txn = [swaps |-> swaps, payer |-> payer, direct |-> direct,
                       ok |-> ok, opens |-> opens, solChange |-> solChange,
                       tokChange |-> tokChange, first |-> f]
  OBVIOUS
<1>28. txn \in RowTx
  BY <1>24, <1>26, <1>27 DEF RowTx
<1>29. /\ Len(txs) < MaxRows
       /\ ok => end.goes
       /\ txs' = Append(txs, txn)
       /\ rowOf' = Append(rowOf, NoRow)
       /\ IF ok
          THEN /\ reserves' = end.reserves
               /\ held' = [m \in PoolMints |->
                    IF m \in MintsOf(swaps) THEN end.tokens[m] ELSE held[m]]
               /\ quoted' = [m \in PoolMints |->
                               quoted[m] \cup {PriceOf(end.reserves[m])}]
          ELSE UNCHANGED <<reserves, held, quoted>>
       /\ UNCHANGED info
  BY <1>3, <1>4, <1>5, <1>7, <1>10, <1>14, <1>15, <1>16, <1>17, <1>19, <1>20,
     <1>22, <1>23, <1>25, <1>27, ZenonT(60) DEF Transact, OpenedOf, StartOf
<1>30. /\ txs' \in Seq(RowTx) /\ Len(txs') = Len(txs) + 1
       /\ DOMAIN txs' = 1 .. Len(txs) + 1 /\ DOMAIN txs = 1..Len(txs)
       /\ txs'[Len(txs) + 1] = txn
       /\ \A i \in DOMAIN txs : txs'[i] = txs[i]
  BY <1>1, <1>28, <1>29
<1>31. /\ rowOf' \in Seq(SwapRowType \cup {NoRow}) /\ Len(rowOf') = Len(rowOf) + 1
       /\ DOMAIN rowOf' = 1 .. Len(rowOf) + 1 /\ DOMAIN rowOf = 1..Len(rowOf)
       /\ rowOf'[Len(rowOf) + 1] = NoRow
       /\ \A i \in DOMAIN rowOf : rowOf'[i] = rowOf[i]
  BY <1>1, <1>29
<1>32. Len(txs) \in Nat /\ Len(rowOf) \in Nat
  BY <1>1
<1>33. reserves' \in [PoolMints -> ReserveType]
  BY <1>1, <1>11, <1>29 DEF Account
<1>34. held' \in [PoolMints -> Nat \cup {-1}]
  <2>1. CASE ok
    <3>1. end.tokens \in [PoolMints -> Int]
      BY <1>11 DEF Account
    <3>2. \A m \in MintsOf(swaps) : m \in PoolMints /\ end.tokens[m] \in Nat
      BY <1>12, <1>29, <2>1, <3>1, FormType
    <3> QED
      BY <1>1, <1>29, <2>1, <3>2
  <2>2. CASE ~ok
    BY <1>1, <1>29, <2>2
  <2> QED
    BY <2>1, <2>2
<1>35. RowTypes'
  BY <1>1, <1>2, <1>29, <1>30, <1>31, <1>32, <1>33, <1>34 DEF RowTypes
<1>36. \A m \in PoolMints : quoted[m] \subseteq quoted'[m]
  BY <1>29
<1>37. PricesKnown'
  <2>1. \A m \in PoolMints : PriceOf(reserves'[m]) \in quoted'[m]
    BY <1>29 DEF RowsInv, PricesKnown
  <2>2. \A m \in PoolMints : info'[m] # Unread => PriceOf(info'[m]) \in quoted'[m]
    BY <1>29, <1>36 DEF RowsInv, PricesKnown
  <2> QED
    BY <2>1, <2>2 DEF PricesKnown, PriceOf
<1>38. BalancesTell(txn)
  <2>1. /\ txn.swaps = swaps /\ txn.payer = payer /\ txn.ok = ok /\ txn.opens = opens
        /\ txn.solChange = solChange /\ txn.tokChange = tokChange
        /\ txn.first.sol = Abs(got) /\ txn.first.tok = Abs(moved)
    BY <1>26, <1>27
  <2> SUFFICES ASSUME ok, Plain(txn)
               PROVE  /\ txn.tokChange[s.mint] = txn.first.tok
                      /\ IF Sells(s)
                         THEN /\ txn.solChange = Abs(txn.first.sol - CostOf(txn))
                              /\ txn.first.tok = s.amount
                         ELSE /\ txn.solChange = txn.first.sol + CostOf(txn)
                              /\ txn.first.sol = s.amount
    BY <1>14, <2>1 DEF BalancesTell
  <2>2. n = 1 /\ payer = Trader
    BY <1>9, <2>1 DEF Plain
  <2>3. end = first
    BY <1>13, <1>14, <1>15, <2>2
  <2>4. tokChange[s.mint] = Abs(moved)
    BY <1>14, <1>17, <1>23, <2>3
  <2>5. CostOf(txn) = costs
    BY <1>2, <1>19, <2>1 DEF CostOf
  <2>6. solChange = Abs(got - costs)
    BY <1>16, <1>20, <1>22, <2>2, <2>3
  <2>7. s.amount \in Nat \ {0}
    BY DEF Swap
  <2> QED
    BY <1>18, <2>1, <2>4, <2>5, <2>6, <2>7 DEF Abs
<1>39. \A i \in DOMAIN txs' : BalancesTell(txs'[i])
  BY <1>30, <1>32, <1>38 DEF RowsInv
<1>40. ASSUME NEW i \in DOMAIN rowOf', rowOf'[i] # NoRow
       PROVE  RowIsRight(rowOf[i], txs[i])'
  <2>1. /\ i \in DOMAIN rowOf /\ i \in DOMAIN txs
        /\ rowOf'[i] = rowOf[i] /\ txs'[i] = txs[i]
    BY <1>1, <1>30, <1>31, <1>32, <1>40
  <2>2. RowIsRight(rowOf[i], txs[i])
    BY <1>40, <2>1 DEF RowsInv
  <2>3. rowOf[i] \in SwapRowType
    BY <1>1, <1>40, <2>1
  <2>4. rowOf[i].mint \in PoolMints
    BY <2>3 DEF SwapRowType
  <2>5. PICK row, t : row = rowOf[i] /\ t = txs[i]
    OBVIOUS
  <2>6. RowIsRight(row, t) /\ row.mint \in PoolMints
    BY <2>2, <2>4, <2>5
  <2>7. RowIsRight(row, t)'
    BY <1>36, <2>6 DEF RowIsRight
  <2>8. row = rowOf'[i] /\ t = txs'[i]
    BY <2>1, <2>5
  <2> QED
    BY <2>7, <2>8
<1> QED
  BY <1>35, <1>37, <1>39, <1>40 DEF RowsInv

LEMMA FetchKeeps ==
  ASSUME RowsInv, FetchMints
  PROVE  RowsInv'
<1>1. PICK read \in SUBSET PoolMints :
        info' = [m \in PoolMints |-> IF m \in read THEN reserves[m] ELSE Unread]
  BY DEF FetchMints
<1>2. UNCHANGED <<reserves, held, txs, rowOf, quoted>>
  BY DEF FetchMints
<1>3. info' \in [PoolMints -> ReserveType \cup {Unread}]
  BY <1>1 DEF RowsInv, RowTypes
<1>4. RowTypes'
  BY <1>2, <1>3 DEF RowsInv, RowTypes
<1>5. PricesKnown'
  BY <1>1, <1>2 DEF RowsInv, PricesKnown
<1>6. ASSUME NEW i \in DOMAIN rowOf', rowOf'[i] # NoRow
      PROVE  RowIsRight(rowOf'[i], txs[i])
  BY <1>2, <1>6 DEF RowsInv
<1> QED
  BY <1>2, <1>4, <1>5, <1>6 DEF RowsInv, RowIsRight

LEMMA RowReplaced ==
  ASSUME NEW R, NEW seq \in Seq(R), NEW i \in DOMAIN seq, NEW x \in R
  PROVE  /\ [seq EXCEPT ![i] = x] \in Seq(R)
         /\ Len([seq EXCEPT ![i] = x]) = Len(seq)
         /\ DOMAIN [seq EXCEPT ![i] = x] = DOMAIN seq
         /\ \A j \in DOMAIN seq :
              [seq EXCEPT ![i] = x][j] = IF j = i THEN x ELSE seq[j]
<1>1. seq \in [1..Len(seq) -> R] /\ Len(seq) \in Nat
  OBVIOUS
<1>2. [seq EXCEPT ![i] = x] \in [1..Len(seq) -> R]
  BY <1>1
<1>3. \A n \in Nat : \A f \in [1..n -> R] : f \in Seq(R) /\ Len(f) = n
  OBVIOUS
<1> QED
  BY <1>1, <1>2, <1>3

LEMMA ProcessKeeps ==
  ASSUME RowsInv, NEW polled \in PoolMints, NEW i \in DOMAIN txs,
         Process(polled, i)
  PROVE  RowsInv'
<1>1. PICK row : row = parseSwapFromTx(txs[i], polled)
  OBVIOUS
<1>2. /\ txs[i] \in RowTx /\ txs[i].ok /\ BalancesTell(txs[i])
      /\ RowTypes /\ PricesKnown
  BY DEF RowsInv, RowTypes, Process, IsSwapTx
<1>3. row \in SwapRowType /\ RowIsRight(row, txs[i])
  BY <1>1, <1>2, RowOfTrade
<1>4. rowOf' = [rowOf EXCEPT ![i] = row]
  BY <1>1 DEF Process
<1>5. UNCHANGED <<reserves, held, txs, info, quoted>>
  BY DEF Process
<1>6. rowOf \in Seq(SwapRowType \cup {NoRow})
  BY <1>2 DEF RowTypes
<1>7. /\ rowOf' \in Seq(SwapRowType \cup {NoRow}) /\ Len(rowOf') = Len(rowOf)
      /\ DOMAIN rowOf' = DOMAIN rowOf
      /\ \A j \in DOMAIN rowOf : rowOf'[j] = IF j = i THEN row ELSE rowOf[j]
  <2>1. i \in DOMAIN rowOf
    BY <1>2 DEF RowTypes
  <2> QED
    BY <1>3, <1>4, <1>6, <2>1, RowReplaced
<1>8. RowTypes'
  BY <1>2, <1>5, <1>7 DEF RowTypes
<1>9. PricesKnown'
  BY <1>2, <1>5 DEF PricesKnown
<1>10. ASSUME NEW j \in DOMAIN rowOf', rowOf'[j] # NoRow
       PROVE  RowIsRight(rowOf'[j], txs[j])
  BY <1>3, <1>7, <1>10 DEF RowsInv
<1>11. \A j \in DOMAIN txs' : BalancesTell(txs'[j])
  BY <1>5 DEF RowsInv
<1>12. \A j \in DOMAIN rowOf' :
         rowOf'[j] # NoRow => RowIsRight(rowOf[j], txs[j])'
  BY <1>5, <1>10 DEF RowIsRight
<1> QED
  BY <1>8, <1>9, <1>11, <1>12 DEF RowsInv

LEMMA RowsStep == RowsInv /\ [SwapRowsNext]_swapRowVars => RowsInv'
<1> SUFFICES ASSUME RowsInv, [SwapRowsNext]_swapRowVars PROVE RowsInv'
  OBVIOUS
<1>1. ASSUME NEW swaps \in Forms, NEW payer \in {Trader, Relayer},
             NEW direct \in BOOLEAN, NEW ok \in BOOLEAN,
             Transact(swaps, payer, direct, ok)
      PROVE  RowsInv'
  BY <1>1, TransactKeeps
<1>2. ASSUME FetchMints
      PROVE  RowsInv'
  BY <1>2, FetchKeeps
<1>3. ASSUME NEW i \in DOMAIN txs, NEW m \in PoolMints, Process(m, i)
      PROVE  RowsInv'
  BY <1>3, ProcessKeeps
<1>4. ASSUME UNCHANGED swapRowVars
      PROVE  RowsInv'
  BY <1>4 DEF swapRowVars, RowsInv, RowTypes, PricesKnown, RowIsRight
<1> QED
  BY <1>1, <1>2, <1>3, <1>4 DEF SwapRowsNext

\* The reserves of a pool stay above zero, whatever is swapped, and the
\* accounts of the trader never go below it.
THEOREM SwapRowTypes == SwapRowsSpec => []SwapRowsTypeOK
<1>1. RowsInv => SwapRowsTypeOK
  <2> SUFFICES ASSUME RowsInv PROVE SwapRowsTypeOK
    OBVIOUS
  <2>1. \A m \in PoolMints : /\ reserves[m] \in [one : Nat \ {0}, two : Nat \ {0}]
                             /\ held[m] \in Nat \cup {-1}
    BY DEF RowsInv, RowTypes, ReserveType
  <2>2. /\ Len(txs) \in Nat /\ Len(txs) <= MaxRows /\ MaxRows \in Nat
        /\ DOMAIN rowOf = 1..Len(rowOf) /\ DOMAIN txs = 1..Len(txs)
        /\ Len(rowOf) = Len(txs)
    BY SwapRowsAssumption DEF RowsInv, RowTypes
  <2>3. Len(txs) \in 0..MaxRows /\ DOMAIN rowOf = DOMAIN txs
    BY <2>2
  <2> QED
    BY <2>1, <2>3 DEF SwapRowsTypeOK
<1> QED
  BY <1>1, RowsInit, RowsStep, PTL DEF SwapRowsSpec

\* Of every plain trade, whatever else has happened to its pool and whichever
\* pool is polled, the row has the tokens that moved and a price that is right
\* but for the costs, or is one of those PlainTradesAreRight names.
THEOREM PlainTrades == SwapRowsSpec => []PlainTradesAreRight
<1>1. RowsInv => PlainTradesAreRight
  <2> SUFFICES ASSUME RowsInv, NEW i \in Recorded
               PROVE  LET row == rowOf[i]
                          txn == txs[i]
                          costs == Rent * txn.opens + TxFee + Estimate
                      IN Plain(txn) =>
                         /\ row.token_amount = txn.first.tok
                         /\ \/ row.price[2] = txn.first.tok /\ WithinCosts(row.price[1], txn)
                            \/ row.price = NoPrice /\ txn.first.tok = 0
                            \/ row.price = <<txn.first.tok, txn.first.tok>> /\ BreaksEven(txn)
                            \/ /\ row.price \in quoted[row.mint]
                               /\ txn.first.sol + costs > txn.first.tok
    BY DEF PlainTradesAreRight
  <2>1. RowIsRight(rowOf[i], txs[i])
    BY DEF Recorded, RowsInv
  <2> QED
    BY <2>1 DEF RowIsRight, CostOf
<1> QED
  BY <1>1, RowsInit, RowsStep, PTL DEF SwapRowsSpec

-----------------------------------------------------------------------------
\* Indexer: what the candles say of the trades.

Txs == 1..MaxTxs

CandleType ==
  [timeframe : Timeframes, bucket : Nat, open : Int, high : Int, low : Int,
   close : Int, count : Nat \ {0}]

PollType ==
  [pc : {"idle", "tx", "insert", "read", "write"}, sigs : Seq(Txs),
   left : SUBSET Timeframes, row : Nat, read : CandleType \cup {[count |-> 0]}]

PricesOf(c) == {c.open, c.high, c.low, c.close}

Traded(c, tr) == PricesOf(c) \subseteq {Price[i] : i \in tr}

IndexTypes ==
  /\ height \in 0..MaxTxs
  /\ trades \in SUBSET (Swaps \cap 1..height)
  /\ candles \in Seq(CandleType)
  /\ \A id \in DOMAIN candles : Traded(candles[id], trades)
  /\ poll \in [Polls -> PollType]
  /\ pollFaults \in 0..MaxPollFaults
  /\ overlapped \in BOOLEAN /\ strayed \in BOOLEAN

\* Of a poll r: the trade it works on, the timeframe and the bucket it brings
\* up to date with it.
TxOf(r) == Head(r.sigs)

Updates(r) == r.pc \in {"read", "write"}

Pending(r, tf) == Updates(r) /\ tf \in r.left

Frame(r) == Min(r.left)

BucketOf(r) == getBucket(TxOf(r), Frame(r))

HasRead(r) == r.pc = "write" /\ r.row # NoCandle

IsFor(c, r) == c.timeframe = Frame(r) /\ c.bucket = BucketOf(r)

\* A poll has the transactions of a stretch of the chain before it.  It updates
\* candles for a trade that is stored, and what it has read is of the row it
\* is about to write.  (h, tr, cs and pl: height, trades, candles and poll.)
PollOK(r, h, tr, cs) ==
  /\ r.pc # "idle" =>
       /\ r.sigs # <<>>
       /\ \A k \in 1..Len(r.sigs) : r.sigs[k] = r.sigs[1] + (k - 1)
       /\ \A k \in 1..Len(r.sigs) : r.sigs[k] <= h
  /\ r.pc \in {"insert", "read", "write"} => TxOf(r) \in Swaps
  /\ Updates(r) => TxOf(r) \in tr /\ r.left # {}
  /\ r.pc # "write" => r.row = NoCandle
  /\ HasRead(r) =>
       /\ r.row \in DOMAIN cs /\ IsFor(cs[r.row], r)
       /\ r.read \in CandleType /\ Traded(r.read, tr) /\ IsFor(r.read, r)

PollsOK(h, tr, cs, pl) == \A p \in Polls : PollOK(pl[p], h, tr, cs)

\* No two polls update candles for the same trade.
OneOwner(pl) ==
  \A p, q \in Polls :
    Updates(pl[p]) /\ Updates(pl[q]) /\ p # q => TxOf(pl[p]) # TxOf(pl[q])

BucketRows(cs, tf, b) ==
  {id \in DOMAIN cs : cs[id].timeframe = tf /\ cs[id].bucket = b}

Given(g, id) == {i \in Txs : g[i] = id}

\* g assigns a trade to a row of its bucket, or to none as long as a poll is
\* about to count it; no row, and no copy of a row that is about to be
\* written, counts more than the trades that are assigned to it.
Assigns(g, tf, tr, cs, pl) ==
  /\ \A i \in Txs : g[i] # NoCandle =>
       i \in tr /\ g[i] \in BucketRows(cs, tf, getBucket(i, tf))
  /\ \A id \in DOMAIN cs :
       cs[id].timeframe = tf => cs[id].count <= Cardinality(Given(g, id))
  /\ \A p \in Polls : Pending(pl[p], tf) => g[TxOf(pl[p])] = NoCandle
  /\ \A p \in Polls : HasRead(pl[p]) /\ Frame(pl[p]) = tf =>
       pl[p].read.count <= Cardinality(Given(g, pl[p].row))

Assigned(tr, cs, pl) ==
  \A tf \in Timeframes :
    \E g \in [Txs -> 0..Len(cs)] : Assigns(g, tf, tr, cs, pl)

\* As long as polls do not overlap, there is one at a time, what it has read
\* is still so, and a trade without a candle is one that waits for it or one
\* that a fault has cost.
Single(pl) ==
  \A p, q \in Polls : pl[p].pc # "idle" /\ pl[q].pc # "idle" => p = q

Current(pl, cs) ==
  \A p \in Polls : HasRead(pl[p]) => pl[p].read = cs[pl[p].row]

Waiting(pl, tf) == IF \E p \in Polls : Pending(pl[p], tf) THEN 1 ELSE 0

CountOf(cs, tf, b) ==
  SumFunctionOnSet([id \in BucketRows(cs, tf, b) |-> cs[id].count], BucketRows(cs, tf, b))

CountAll(cs, tf) ==
  SumFunctionOnSet([b \in Buckets(tf) |-> CountOf(cs, tf, b)], Buckets(tf))

Calm(tr, cs, pl, lost) ==
  /\ Single(pl) /\ Current(pl, cs)
  /\ \A tf \in Timeframes :
       Cardinality(tr) <= CountAll(cs, tf) + Waiting(pl, tf) + lost

\* The trades of a bucket that its candle must show: all but the one for which
\* it is being brought up to date.
Shown(tr, pl, tf, b) ==
  {i \in tr : /\ getBucket(i, tf) = b
              /\ \A p \in Polls : Pending(pl[p], tf) => i # TxOf(pl[p])}

\* (st: strayed, where the first and the last trade are not told apart.)
IsCandleOf(c, in, st) ==
  /\ c.count = Cardinality(in)
  /\ \E i \in in : c.open = Price[i] /\ (~st => \A j \in in : i <= j)
  /\ \E i \in in : c.close = Price[i] /\ (~st => \A j \in in : j <= i)
  /\ \E i \in in : c.high = Price[i] /\ \A j \in in : Price[j] <= c.high
  /\ \E i \in in : c.low = Price[i] /\ \A j \in in : c.low <= Price[j]

BucketExact(cs, in, tf, b, st) ==
  IF in = {} THEN BucketRows(cs, tf, b) = {}
  ELSE \E id \in BucketRows(cs, tf, b) :
         BucketRows(cs, tf, b) = {id} /\ IsCandleOf(cs[id], in, st)

\* Without lost trades are stored in their order: of those that a poll may
\* still come to, none is missing before one that is stored, and none is
\* stored after the one that candles are brought up to date with.
InOrder(h, tr, pl) ==
  /\ \A i \in Swaps, j \in tr :
       /\ i < j
       /\ \/ i > h - SIG_LIMIT
          \/ \E p \in Polls : pl[p].pc # "idle" /\ TxOf(pl[p]) <= i
       => i \in tr
  /\ \A p \in Polls : pl[p].pc # "idle" =>
       \A i \in Swaps : i < TxOf(pl[p]) /\ i > h - SIG_LIMIT => i \in tr
  /\ \A p \in Polls : Updates(pl[p]) => \A j \in tr : j <= TxOf(pl[p])

NewIsMissing(pl, cs) ==
  \A p \in Polls : pl[p].pc = "write" /\ pl[p].row = NoCandle =>
    BucketRows(cs, Frame(pl[p]), BucketOf(pl[p])) = {}

Exact(h, tr, cs, pl, st) ==
  /\ ~st => InOrder(h, tr, pl)
  /\ NewIsMissing(pl, cs)
  /\ \A tf \in Timeframes : \A b \in Buckets(tf) :
       BucketExact(cs, Shown(tr, pl, tf, b), tf, b, st)

IndexInv ==
  /\ IndexTypes
  /\ PollsOK(height, trades, candles, poll) /\ OneOwner(poll)
  /\ Assigned(trades, candles, poll)
  /\ ~overlapped => Calm(trades, candles, poll, pollFaults)
  /\ ~overlapped /\ pollFaults = 0 => Exact(height, trades, candles, poll, strayed)

-----------------------------------------------------------------------------
LEMMA MinOfSet ==
  ASSUME NEW S \in SUBSET Int, IsFiniteSet(S), S # {}
  PROVE  Min(S) \in S /\ \A x \in S : Min(S) <= x
<1>1. PICK N : N = {-x : x \in S}
  OBVIOUS
<1>2. N \in SUBSET Int /\ N # {}
  <2>1. \A x \in S : -x \in Int /\ -x \in N
    BY <1>1
  <2> QED
    BY <1>1, <2>1
<1>3. IsFiniteSet(N)
  <2>1. PICK f : f = [x \in S |-> -x]
    OBVIOUS
  <2>2. f \in Surjection(S, N)
    BY <1>1, <2>1 DEF Surjection
  <2> QED
    BY <2>2, FS_Surjection
<1>4. PICK m : m = Max(N)
  OBVIOUS
<1>5. m \in N /\ \A x \in N : x <= m
  BY <1>2, <1>3, <1>4, MaxOfSet
<1>6. PICK k \in S : m = -k
  BY <1>1, <1>5
<1>7. ASSUME NEW x \in S
      PROVE  k <= x
  <2>1. -x <= -k
    BY <1>1, <1>5, <1>6
  <2> QED
    BY <2>1
<1> QED
  BY <1>7 DEF Min

LEMMA MinOfTwoInts ==
  ASSUME NEW x \in Int, NEW y \in Int
  PROVE  Min({x, y}) = IF x <= y THEN x ELSE y
  BY DEF Min

\* What a function maps to the members of R is counted by each of them.
LEMMA SumOfFibres ==
  ASSUME NEW D, IsFiniteSet(D), NEW R, IsFiniteSet(R), NEW g,
         NEW of, of = [id \in R |-> Cardinality({i \in D : g[i] = id})]
  PROVE  SumFunctionOnSet(of, R) = Cardinality({i \in D : g[i] \in R})
<1> DEFINE G == {T \in SUBSET R :
                   SumFunctionOnSet(of, T) = Cardinality({i \in D : g[i] \in T})}
<1>0. \A x \in R : of[x] \in Int
  <2> SUFFICES ASSUME NEW x \in R PROVE of[x] \in Int
    OBVIOUS
  <2>1. PICK F : F = {i \in D : g[i] = x}
    OBVIOUS
  <2>2. IsFiniteSet(F)
    BY <2>1, FS_Subset
  <2> QED
    BY <2>1, <2>2, FS_CardinalityType
<1>1. ASSUME NEW T \in SUBSET R, \A U \in SUBSET T : U # T => U \in G
      PROVE  T \in G
  <2>1. CASE T = {}
    <3>1. {i \in D : g[i] \in T} = {}
      BY <2>1
    <3> QED
      BY <2>1, <3>1, SumEmpty, FS_EmptySet
  <2>2. CASE T # {}
    <3>1. PICK x \in T : TRUE
      BY <2>2
    <3>2. PICK U : U = T \ {x}
      OBVIOUS
    <3>3. PICK F, K, A : /\ F = {i \in D : g[i] = x}
                         /\ K = {i \in D : g[i] \in U}
                         /\ A = {i \in D : g[i] \in T}
      OBVIOUS
    <3>4. IsFiniteSet(F) /\ IsFiniteSet(K)
      BY <3>3, FS_Subset
    <3>5. A = F \cup K /\ F \cap K = {}
      BY <3>1, <3>2, <3>3
    <3>6. /\ Cardinality(A) = Cardinality(F) + Cardinality(K) - Cardinality(F \cap K)
          /\ Cardinality(F \cap K) = 0
      BY <3>4, <3>5, FS_Union, FS_EmptySet
    <3>7. Cardinality(F) \in Nat /\ Cardinality(K) \in Nat
      BY <3>4, FS_CardinalityType
    <3>8. SumFunctionOnSet(of, U) = Cardinality(K)
      BY <1>1, <3>1, <3>2, <3>3
    <3>9. SumFunctionOnSet(of, T) = of[x] + SumFunctionOnSet(of, U)
      <4>1. IsFiniteSet(T) /\ \A y \in T : of[y] \in Int
        BY <1>0, FS_Subset
      <4> QED
        BY <3>1, <3>2, <4>1, SumRemove
    <3>10. of[x] = Cardinality(F)
      BY <3>1, <3>3
    <3> QED
      BY <3>3, <3>6, <3>7, <3>8, <3>9, <3>10
  <2> QED
    BY <2>1, <2>2
<1>2. \A T \in SUBSET R : (\A U \in SUBSET T : U # T => U \in G) => T \in G
  BY <1>1
<1> HIDE DEF G
<1>3. R \in G
  BY <1>2, SubsetInduction
<1> QED
  BY <1>3 DEF G

LEMMA StretchIsFinite ==
  ASSUME NEW n \in Nat
  PROVE  IsFiniteSet(1..n)
<1>1. PICK o \in Int : o = 1
  OBVIOUS
<1>2. IsFiniteSet(o..n)
  BY FS_Interval
<1> QED
  BY <1>1, <1>2

-----------------------------------------------------------------------------
LEMMA TxsFinite ==
  /\ MaxTxs \in Nat /\ IsFiniteSet(Txs)
  /\ \A S \in SUBSET Txs : IsFiniteSet(S) /\ Cardinality(S) \in Nat
<1>1. MaxTxs \in Nat
  BY IndexerAssumption
<1>2. IsFiniteSet(Txs)
  BY <1>1, StretchIsFinite DEF Txs
<1> QED
  BY <1>1, <1>2, FS_Subset, FS_CardinalityType

LEMMA TxsAreNat == \A i \in Txs : i \in Nat
<1> SUFFICES ASSUME NEW i \in Txs PROVE i \in Nat
  OBVIOUS
<1>1. i \in 1..MaxTxs
  BY DEF Txs
<1> QED
  BY <1>1, TxsFinite

LEMMA BucketType ==
  ASSUME NEW i \in Txs, NEW tf \in Timeframes
  PROVE  getBucket(i, tf) \in Nat /\ getBucket(i, tf) \in Buckets(tf)
<1>1. Stamp[i] \in Nat /\ tf \in Nat \ {0}
  BY IndexerAssumption DEF Txs
<1>2. \A s \in Nat, k \in Nat \ {0} : s \div k \in Nat
  OBVIOUS
<1>3. getBucket(i, tf) \in Nat
  BY <1>1, <1>2 DEF getBucket
<1> QED
  BY <1>3 DEF Buckets, Txs

LEMMA BucketsFinite ==
  ASSUME NEW tf \in Timeframes
  PROVE  IsFiniteSet(Buckets(tf))
<1>1. PICK f : f = [i \in Txs |-> getBucket(i, tf)]
  OBVIOUS
<1>2. f \in Surjection(Txs, Buckets(tf))
  BY <1>1 DEF Surjection, Buckets, Txs
<1> QED
  BY <1>2, TxsFinite, FS_Surjection

LEMMA FrameIn ==
  ASSUME NEW r \in PollType, r.left # {}
  PROVE  Frame(r) \in r.left /\ Frame(r) \in Timeframes
<1>1. r.left \in SUBSET Timeframes
  BY DEF PollType
<1>2. r.left \in SUBSET Int /\ IsFiniteSet(r.left)
  <2>1. Timeframes \in SUBSET Int /\ IsFiniteSet(Timeframes)
    BY IndexerAssumption
  <2> QED
    BY <1>1, <2>1, FS_Subset
<1> QED
  BY <1>1, <1>2, MinOfSet DEF Frame

LEMMA TxOfType ==
  ASSUME NEW r \in PollType, r.sigs # <<>>
  PROVE  TxOf(r) \in Txs /\ TxOf(r) = r.sigs[1] /\ TxOf(r) \in Nat \ {0}
<1>1. r.sigs \in Seq(Txs)
  BY DEF PollType
<1>2. TxOf(r) \in Txs /\ TxOf(r) = r.sigs[1]
  BY <1>1 DEF TxOf
<1> QED
  BY <1>2, TxsFinite DEF Txs

LEMMA IdleFacts ==
  /\ IdlePoll \in PollType /\ IdlePoll.pc = "idle" /\ IdlePoll.row = NoCandle
  /\ \A h, tr, cs : PollOK(IdlePoll, h, tr, cs)
<1>1. IdlePoll.pc = "idle" /\ IdlePoll.row = NoCandle
  BY DEF IdlePoll
<1>2. IdlePoll \in PollType
  <2>1. <<>> \in Seq(Txs) /\ {} \in SUBSET Timeframes /\ NoCandle \in Nat
    BY DEF NoCandle
  <2> QED
    BY <2>1 DEF IdlePoll, PollType
<1>3. \A h, tr, cs : PollOK(IdlePoll, h, tr, cs)
  BY <1>1 DEF PollOK, Updates, HasRead
<1> QED
  BY <1>1, <1>2, <1>3

\* What comes after a transaction.
NextOf(r) ==
  IF Tail(r.sigs) = <<>> THEN IdlePoll
  ELSE [IdlePoll EXCEPT !.pc = "tx", !.sigs = Tail(r.sigs)]

LEMMA NextFacts ==
  ASSUME NEW r \in PollType, NEW h, NEW tr, NEW cs, r.pc # "idle",
         PollOK(r, h, tr, cs)
  PROVE  /\ NextOf(r) \in PollType /\ NextOf(r).pc \in {"idle", "tx"}
         /\ PollOK(NextOf(r), h, tr, cs)
         /\ NextOf(r).pc # "idle" => TxOf(NextOf(r)) = TxOf(r) + 1
<1>1. CASE Tail(r.sigs) = <<>>
  BY <1>1, IdleFacts DEF NextOf
<1>2. CASE Tail(r.sigs) # <<>>
  <2>1. PICK n : n = NextOf(r)
    OBVIOUS
  <2>2. n = [pc |-> "tx", sigs |-> Tail(r.sigs), left |-> {}, row |-> NoCandle,
             read |-> [count |-> 0]]
    BY <1>2, <2>1 DEF NextOf, IdlePoll
  <2>3. r.sigs \in Seq(Txs) /\ r.sigs # <<>>
    BY DEF PollType, PollOK
  <2>4. PICK t \in Seq(Txs) : t = Tail(r.sigs)
    BY <2>3, HeadTailProperties
  <2>5. /\ Len(t) = Len(r.sigs) - 1 /\ Len(r.sigs) \in Nat /\ Len(t) \in Nat
        /\ \A k \in 1..Len(t) : t[k] = r.sigs[k + 1]
    BY <2>3, <2>4, HeadTailProperties
  <2>6. n.pc = "tx" /\ n.sigs = t /\ n.row = NoCandle /\ t # <<>>
    BY <1>2, <2>2, <2>4
  <2>7. n \in PollType
    <3>1. t \in Seq(Txs) /\ {} \in SUBSET Timeframes /\ NoCandle \in Nat
      BY DEF NoCandle
    <3> QED
      BY <2>2, <2>4, <3>1 DEF PollType
  <2>8. \A k \in 1..Len(r.sigs) : /\ r.sigs[k] = r.sigs[1] + (k - 1)
                                  /\ r.sigs[k] <= h
    BY DEF PollOK
  <2>9. r.sigs[1] \in Nat
    <3>1. r.sigs[1] \in Txs
      BY <2>3
    <3> QED
      BY <3>1, TxsFinite DEF Txs
  <2>10. 1 \in 1..Len(t) /\ t[1] = r.sigs[1] + 1
    BY <2>5, <2>6, <2>8
  <2>11. ASSUME NEW k \in 1..Len(t)
         PROVE  t[k] = t[1] + (k - 1) /\ t[k] <= h
    <3>1. k + 1 \in 1..Len(r.sigs) /\ t[k] = r.sigs[k + 1]
      BY <2>5
    <3>2. r.sigs[k + 1] = r.sigs[1] + ((k + 1) - 1) /\ r.sigs[k + 1] <= h
      BY <2>8, <3>1
    <3> QED
      BY <2>5, <2>9, <2>10, <3>1, <3>2
  <2>12. PollOK(n, h, tr, cs)
    BY <2>6, <2>11 DEF PollOK, Updates, HasRead
  <2>13. TxOf(n) = TxOf(r) + 1
    BY <2>3, <2>6, <2>10 DEF TxOf
  <2> QED
    BY <2>1, <2>6, <2>7, <2>12, <2>13
<1> QED
  BY <1>1, <1>2

-----------------------------------------------------------------------------
LEMMA PollOKKept ==
  ASSUME NEW r, NEW h \in Int, NEW tr, NEW cs, PollOK(r, h, tr, cs),
         r \in PollType, NEW h2 \in Int, h <= h2, NEW tr2, tr \subseteq tr2, NEW cs2,
         \A id \in DOMAIN cs :
           /\ id \in DOMAIN cs2 /\ cs2[id].timeframe = cs[id].timeframe
           /\ cs2[id].bucket = cs[id].bucket
  PROVE  PollOK(r, h2, tr2, cs2)
<1>1. r.pc # "idle" =>
        /\ r.sigs # <<>>
        /\ \A k \in 1..Len(r.sigs) : r.sigs[k] = r.sigs[1] + (k - 1)
        /\ \A k \in 1..Len(r.sigs) : r.sigs[k] <= h2
  <2> SUFFICES ASSUME r.pc # "idle", NEW k \in 1..Len(r.sigs)
               PROVE  r.sigs[k] <= h2
    BY DEF PollOK
  <2>1. r.sigs[k] <= h /\ r.sigs[k] \in Int
    <3>1. r.sigs[k] \in Txs
      BY DEF PollType
    <3> QED
      BY <3>1, TxsFinite DEF PollOK, Txs
  <2> QED
    BY <2>1
<1>2. Updates(r) => TxOf(r) \in tr2 /\ r.left # {}
  BY DEF PollOK
<1>3. HasRead(r) =>
        /\ r.row \in DOMAIN cs2 /\ IsFor(cs2[r.row], r)
        /\ r.read \in CandleType /\ Traded(r.read, tr2) /\ IsFor(r.read, r)
  BY DEF PollOK, IsFor, Traded
<1> QED
  BY <1>1, <1>2, <1>3 DEF PollOK

LEMMA OwnerKept ==
  ASSUME NEW pl \in [Polls -> PollType], OneOwner(pl), NEW p \in Polls, NEW to,
         Updates(to) => \A q \in Polls \ {p} :
                          Updates(pl[q]) => TxOf(pl[q]) # TxOf(to),
         NEW pl2, pl2 = [pl EXCEPT ![p] = to]
  PROVE  OneOwner(pl2)
  BY DEF OneOwner

\* What is assigned stays so as long as no row is written.
LEMMA AssignedKept ==
  ASSUME NEW tr, NEW cs, NEW pl, Assigned(tr, cs, pl),
         NEW tr2, tr \subseteq tr2, NEW pl2,
         \A q \in Polls :
           \/ pl2[q] = pl[q]
           \/ /\ \A tf \in Timeframes : Pending(pl2[q], tf) =>
                   \/ Pending(pl[q], tf) /\ TxOf(pl2[q]) = TxOf(pl[q])
                   \/ TxOf(pl2[q]) \in Txs \ tr
              /\ HasRead(pl2[q]) =>
                   /\ pl2[q].row \in DOMAIN cs
                   /\ cs[pl2[q].row].timeframe = Frame(pl2[q])
                   /\ pl2[q].read = cs[pl2[q].row]
  PROVE  Assigned(tr2, cs, pl2)
<1> SUFFICES ASSUME NEW tf \in Timeframes
             PROVE  \E g \in [Txs -> 0..Len(cs)] : Assigns(g, tf, tr2, cs, pl2)
  BY DEF Assigned
<1>1. PICK g \in [Txs -> 0..Len(cs)] : Assigns(g, tf, tr, cs, pl)
  BY DEF Assigned
<1>2. \A i \in Txs : g[i] # NoCandle =>
        i \in tr /\ i \in tr2 /\ g[i] \in BucketRows(cs, tf, getBucket(i, tf))
  BY <1>1 DEF Assigns
<1>3. \A id \in DOMAIN cs :
        cs[id].timeframe = tf => cs[id].count <= Cardinality(Given(g, id))
  BY <1>1 DEF Assigns
<1>4. \A p \in Polls : Pending(pl2[p], tf) => g[TxOf(pl2[p])] = NoCandle
  BY <1>1, <1>2 DEF Assigns
<1>5. \A p \in Polls : HasRead(pl2[p]) /\ Frame(pl2[p]) = tf =>
        pl2[p].read.count <= Cardinality(Given(g, pl2[p].row))
  BY <1>1, <1>3 DEF Assigns
<1>6. Assigns(g, tf, tr2, cs, pl2)
  BY <1>2, <1>3, <1>4, <1>5 DEF Assigns
<1> QED
  BY <1>6

\* A poll that is alone.
LEMMA Alone ==
  ASSUME NEW p \in Polls, NEW pl \in [Polls -> PollType],
         \A q \in Polls \ {p} : pl[q].pc = "idle"
  PROVE  /\ Single(pl)
         /\ \A tf : Waiting(pl, tf) = IF Pending(pl[p], tf) THEN 1 ELSE 0
         /\ \A tr, tf, b : Shown(tr, pl, tf, b) =
              {i \in tr : /\ getBucket(i, tf) = b
                          /\ Pending(pl[p], tf) => i # TxOf(pl[p])}
         /\ \A cs : Current(pl, cs) <=> (HasRead(pl[p]) => pl[p].read = cs[pl[p].row])
         /\ \A cs : NewIsMissing(pl, cs) <=>
              (pl[p].pc = "write" /\ pl[p].row = NoCandle =>
                 BucketRows(cs, Frame(pl[p]), BucketOf(pl[p])) = {})
<1>1. \A q \in Polls : pl[q].pc # "idle" => q = p
  OBVIOUS
<1>2. \A q \in Polls : Updates(pl[q]) \/ HasRead(pl[q]) \/ pl[q].pc = "write" => q = p
  BY <1>1 DEF Updates, HasRead
<1>3. Single(pl)
  BY <1>1 DEF Single
<1>4. \A tf : Waiting(pl, tf) = IF Pending(pl[p], tf) THEN 1 ELSE 0
  BY <1>2 DEF Waiting, Pending
<1>5. ASSUME NEW tr, NEW tf, NEW b
      PROVE  Shown(tr, pl, tf, b) =
              {i \in tr : /\ getBucket(i, tf) = b
                          /\ Pending(pl[p], tf) => i # TxOf(pl[p])}
  BY <1>2 DEF Shown, Pending
<1>6. ASSUME NEW cs
      PROVE  Current(pl, cs) <=> (HasRead(pl[p]) => pl[p].read = cs[pl[p].row])
  BY <1>2 DEF Current
<1>7. ASSUME NEW cs
      PROVE  NewIsMissing(pl, cs) <=>
              (pl[p].pc = "write" /\ pl[p].row = NoCandle =>
                 BucketRows(cs, Frame(pl[p]), BucketOf(pl[p])) = {})
  BY <1>2 DEF NewIsMissing
<1> QED
  BY <1>3, <1>4, <1>5, <1>6, <1>7

LEMMA AloneInOrder ==
  ASSUME NEW p \in Polls, NEW pl \in [Polls -> PollType],
         \A q \in Polls \ {p} : pl[q].pc = "idle", NEW h, NEW tr
  PROVE  InOrder(h, tr, pl) <=>
           /\ \A i \in Swaps, j \in tr :
                /\ i < j
                /\ \/ i > h - SIG_LIMIT
                   \/ pl[p].pc # "idle" /\ TxOf(pl[p]) <= i
                => i \in tr
           /\ pl[p].pc # "idle" => \A i \in Swaps :
                i < TxOf(pl[p]) /\ i > h - SIG_LIMIT => i \in tr
           /\ Updates(pl[p]) => \A j \in tr : j <= TxOf(pl[p])
<1>1. \A q \in Polls : pl[q].pc # "idle" => q = p
  OBVIOUS
<1>2. \A q \in Polls : Updates(pl[q]) => q = p
  BY <1>1 DEF Updates
<1>3. \A i : (\E q \in Polls : pl[q].pc # "idle" /\ TxOf(pl[q]) <= i)
               <=> (pl[p].pc # "idle" /\ TxOf(pl[p]) <= i)
  BY <1>1
<1>4. (\A q \in Polls : pl[q].pc # "idle" => \A i \in Swaps :
         i < TxOf(pl[q]) /\ i > h - SIG_LIMIT => i \in tr)
      <=> (pl[p].pc # "idle" => \A i \in Swaps :
             i < TxOf(pl[p]) /\ i > h - SIG_LIMIT => i \in tr)
  BY <1>1
<1>5. (\A q \in Polls : Updates(pl[q]) => \A j \in tr : j <= TxOf(pl[q]))
      <=> (Updates(pl[p]) => \A j \in tr : j <= TxOf(pl[p]))
  BY <1>2
<1>6. (\A i \in Swaps, j \in tr :
         /\ i < j
         /\ \/ i > h - SIG_LIMIT
            \/ \E q \in Polls : pl[q].pc # "idle" /\ TxOf(pl[q]) <= i
         => i \in tr)
      <=> (\A i \in Swaps, j \in tr :
             /\ i < j
             /\ \/ i > h - SIG_LIMIT
                \/ pl[p].pc # "idle" /\ TxOf(pl[p]) <= i
             => i \in tr)
  BY <1>3
<1> QED
  BY <1>4, <1>5, <1>6 DEF InOrder

-----------------------------------------------------------------------------
\* cs2 is cs with the row id written by the poll r: the one it has read, or a
\* new one.
Wrote(cs, cs2, id, r) ==
  /\ DOMAIN cs2 = DOMAIN cs \cup {id}
  /\ IsFor(cs2[id], r)
  /\ \A j \in DOMAIN cs \ {id} : cs2[j] = cs[j]
  /\ \/ /\ id \in DOMAIN cs /\ IsFor(cs[id], r) /\ HasRead(r) /\ r.row = id
        /\ cs2[id].count = r.read.count + 1
     \/ id \notin DOMAIN cs /\ cs2[id].count = 1

\* The trade is assigned to the row that is written for it.
LEMMA AssignedWritten ==
  ASSUME NEW tr \in SUBSET Txs, NEW cs \in Seq(CandleType),
         NEW pl \in [Polls -> PollType], Assigned(tr, cs, pl), OneOwner(pl),
         NEW p \in Polls, NEW r, r = pl[p], NEW h, PollOK(r, h, tr, cs),
         r.pc = "write", TxOf(r) \in Txs,
         NEW cs2 \in Seq(CandleType), NEW id \in Nat \ {0}, Wrote(cs, cs2, id, r),
         NEW to, NEW pl2, pl2 = [pl EXCEPT ![p] = to],
         \A t \in Timeframes : Pending(to, t) => Pending(r, t) /\ t # Frame(r),
         Updates(to) => TxOf(to) = TxOf(r), ~HasRead(to)
  PROVE  Assigned(tr, cs2, pl2)
<1>1. PICK x \in Txs : x = TxOf(r)
  OBVIOUS
<1>2. PICK tf \in Timeframes : tf = Frame(r)
  BY FrameIn DEF PollOK, Updates
<1>3. Pending(r, tf) /\ x \in tr
  BY <1>1, <1>2, FrameIn DEF PollOK, Updates, Pending
<1>4. Len(cs) \in Nat /\ DOMAIN cs = 1..Len(cs)
      /\ Len(cs2) \in Nat /\ DOMAIN cs2 = 1..Len(cs2)
  OBVIOUS
<1>5. /\ DOMAIN cs2 = DOMAIN cs \cup {id}
      /\ cs2[id].timeframe = tf /\ cs2[id].bucket = getBucket(x, tf)
      /\ \A j \in DOMAIN cs \ {id} : cs2[j] = cs[j]
      /\ \/ /\ id \in DOMAIN cs /\ cs[id].timeframe = tf
            /\ cs[id].bucket = getBucket(x, tf)
            /\ HasRead(r) /\ r.row = id
            /\ cs2[id].count = r.read.count + 1
         \/ id \notin DOMAIN cs /\ cs2[id].count = 1
  BY <1>1, <1>2 DEF Wrote, IsFor, BucketOf
<1>6. \A t, b : BucketRows(cs, t, b) \subseteq BucketRows(cs2, t, b)
  BY <1>5 DEF BucketRows
<1>7. id \in BucketRows(cs2, tf, getBucket(x, tf))
  BY <1>5 DEF BucketRows
<1>8. 0..Len(cs) \subseteq 0..Len(cs2) /\ id \in 0..Len(cs2)
  <2>1. 1..Len(cs) \subseteq 1..Len(cs2) /\ id \in 1..Len(cs2)
    BY <1>4, <1>5
  <2> QED
    BY <1>4, <2>1
<1> SUFFICES ASSUME NEW t \in Timeframes
             PROVE  \E g \in [Txs -> 0..Len(cs2)] : Assigns(g, t, tr, cs2, pl2)
  BY DEF Assigned
<1>9. PICK g \in [Txs -> 0..Len(cs)] : Assigns(g, t, tr, cs, pl)
  BY DEF Assigned
<1>10. g \in [Txs -> 0..Len(cs2)]
  BY <1>8
<1>11. \A q \in Polls : pl2[q] = IF q = p THEN to ELSE pl[q]
  OBVIOUS
<1>12. /\ \A i \in Txs : g[i] # NoCandle =>
            i \in tr /\ g[i] \in BucketRows(cs, t, getBucket(i, t))
       /\ \A j \in DOMAIN cs :
            cs[j].timeframe = t => cs[j].count <= Cardinality(Given(g, j))
       /\ \A q \in Polls : Pending(pl[q], t) => g[TxOf(pl[q])] = NoCandle
       /\ \A q \in Polls : HasRead(pl[q]) /\ Frame(pl[q]) = t =>
            pl[q].read.count <= Cardinality(Given(g, pl[q].row))
  BY <1>9 DEF Assigns
<1>13. CASE t # tf
  <2>1. \A i \in Txs : g[i] # NoCandle =>
          i \in tr /\ g[i] \in BucketRows(cs2, t, getBucket(i, t))
    BY <1>6, <1>12
  <2>2. \A j \in DOMAIN cs2 :
          cs2[j].timeframe = t => cs2[j].count <= Cardinality(Given(g, j))
    BY <1>5, <1>12, <1>13
  <2>3. ASSUME NEW q \in Polls, Pending(pl2[q], t)
        PROVE  g[TxOf(pl2[q])] = NoCandle
    <3>1. CASE q = p
      <4>1. Pending(r, t) /\ TxOf(to) = TxOf(r)
        BY <1>11, <2>3, <3>1 DEF Pending
      <4> QED
        BY <1>11, <1>12, <3>1, <4>1
    <3>2. CASE q # p
      BY <1>11, <1>12, <2>3, <3>2
    <3> QED
      BY <3>1, <3>2
  <2>4. \A q \in Polls : HasRead(pl2[q]) /\ Frame(pl2[q]) = t =>
          pl2[q].read.count <= Cardinality(Given(g, pl2[q].row))
    BY <1>11, <1>12
  <2>5. Assigns(g, t, tr, cs2, pl2)
    BY <2>1, <2>2, <2>3, <2>4 DEF Assigns
  <2> QED
    BY <1>10, <2>5
<1>14. CASE t = tf
  <2>1. PICK k : k = [g EXCEPT ![x] = id]
    OBVIOUS
  <2>2. k \in [Txs -> 0..Len(cs2)]
    BY <1>8, <1>10, <2>1
  <2>3. \A i \in Txs : k[i] = IF i = x THEN id ELSE g[i]
    BY <2>1
  <2>4. g[x] = NoCandle
    BY <1>1, <1>3, <1>12, <1>14
  <2>5. id # NoCandle
    BY DEF NoCandle
  <2>6. ASSUME NEW j, j # NoCandle
        PROVE  /\ Given(k, j) = IF j = id THEN Given(g, j) \cup {x} ELSE Given(g, j)
               /\ Cardinality(Given(g, j)) \in Nat
               /\ Cardinality(Given(k, j)) =
                    IF j = id THEN Cardinality(Given(g, j)) + 1
                    ELSE Cardinality(Given(g, j))
    <3>1. Given(k, j) = IF j = id THEN Given(g, j) \cup {x} ELSE Given(g, j)
      BY <2>3, <2>4, <2>5, <2>6 DEF Given
    <3>2. x \notin Given(g, j)
      BY <2>4, <2>6 DEF Given
    <3>3. PICK F : F = Given(g, j)
      OBVIOUS
    <3>4. F \in SUBSET Txs
      BY <3>3 DEF Given
    <3>5. IsFiniteSet(F) /\ Cardinality(F) \in Nat
      BY <3>4, TxsFinite
    <3>6. Cardinality(F \cup {x}) = Cardinality(F) + 1
      BY <3>2, <3>3, <3>5, FS_AddElement
    <3> QED
      BY <3>1, <3>3, <3>5, <3>6
  <2>7. \A i \in Txs : k[i] # NoCandle =>
          i \in tr /\ k[i] \in BucketRows(cs2, tf, getBucket(i, tf))
    BY <1>3, <1>6, <1>7, <1>12, <1>14, <2>3
  <2>8. ASSUME NEW j \in DOMAIN cs2, cs2[j].timeframe = tf
        PROVE  cs2[j].count <= Cardinality(Given(k, j))
    <3>1. j # NoCandle
      BY <1>4 DEF NoCandle
    <3>2. CASE j # id
      <4>1. j \in DOMAIN cs /\ cs2[j] = cs[j]
        BY <1>5, <3>2
      <4> QED
        BY <1>12, <1>14, <2>6, <2>8, <3>1, <3>2, <4>1
    <3>3. CASE j = id /\ id \in DOMAIN cs
      <4>1. HasRead(pl[p]) /\ Frame(pl[p]) = tf /\ pl[p].row = id
            /\ cs2[id].count = pl[p].read.count + 1
        BY <1>2, <1>5, <3>3
      <4>2. pl[p].read.count <= Cardinality(Given(g, id))
        BY <1>12, <1>14, <4>1
      <4>3. pl[p].read.count \in Nat
        BY <4>1 DEF PollOK, CandleType
      <4> QED
        BY <2>6, <3>1, <3>3, <4>1, <4>2, <4>3
    <3>4. CASE j = id /\ id \notin DOMAIN cs
      <4>1. cs2[id].count = 1
        BY <1>5, <3>4
      <4>2. Cardinality(Given(g, id)) \in Nat
            /\ Cardinality(Given(k, id)) = Cardinality(Given(g, id)) + 1
        BY <2>6, <3>1, <3>4
      <4> QED
        BY <3>4, <4>1, <4>2
    <3> QED
      BY <3>2, <3>3, <3>4
  <2>9. ASSUME NEW q \in Polls, Pending(pl2[q], tf)
        PROVE  k[TxOf(pl2[q])] = NoCandle
    <3>1. q # p
      BY <1>2, <1>11, <2>9
    <3>2. pl2[q] = pl[q] /\ Pending(pl[q], tf)
      BY <1>11, <2>9, <3>1
    <3>3. TxOf(pl[q]) # x
      BY <1>1, <1>3, <3>1, <3>2 DEF OneOwner, Pending
    <3>4. g[TxOf(pl[q])] = NoCandle
      BY <1>12, <1>14, <3>2
    <3> QED
      BY <2>1, <3>2, <3>3, <3>4
  <2>10. ASSUME NEW q \in Polls, HasRead(pl2[q]), Frame(pl2[q]) = tf
         PROVE  pl2[q].read.count <= Cardinality(Given(k, pl2[q].row))
    <3>1. q # p /\ pl2[q] = pl[q]
      BY <1>11, <2>10
    <3>2. pl[q].read.count <= Cardinality(Given(g, pl[q].row))
      BY <1>12, <1>14, <2>10, <3>1
    <3>3. PICK j : j = pl[q].row
      OBVIOUS
    <3>4. j # NoCandle
      BY <2>10, <3>1, <3>3 DEF HasRead
    <3>5. Cardinality(Given(g, j)) \in Nat
          /\ \/ Cardinality(Given(k, j)) = Cardinality(Given(g, j))
             \/ Cardinality(Given(k, j)) = Cardinality(Given(g, j)) + 1
      BY <2>6, <3>4
    <3>6. pl[q].read.count \in Int
      <4>1. pl[q] \in PollType
        OBVIOUS
      <4>2. pl[q].read \in CandleType \cup {[count |-> 0]}
        BY <4>1 DEF PollType
      <4>3. \A c \in CandleType : c.count \in Int
        BY DEF CandleType
      <4> QED
        BY <4>2, <4>3
    <3> QED
      BY <3>1, <3>2, <3>3, <3>5, <3>6
  <2>11. Assigns(k, tf, tr, cs2, pl2)
    BY <2>7, <2>8, <2>9, <2>10 DEF Assigns
  <2> QED
    BY <1>14, <2>2, <2>11
<1> QED
  BY <1>13, <1>14

-----------------------------------------------------------------------------
LEMMA RowsFinite ==
  ASSUME NEW cs \in Seq(CandleType), NEW t, NEW b
  PROVE  /\ IsFiniteSet(BucketRows(cs, t, b))
         /\ \A id \in DOMAIN cs : cs[id] \in CandleType /\ cs[id].count \in Nat
         /\ CountOf(cs, t, b) \in Nat
<1>1. PICK n \in Nat : n = Len(cs) /\ DOMAIN cs = 1..n
  OBVIOUS
<1>2. PICK R : R = BucketRows(cs, t, b)
  OBVIOUS
<1>3. IsFiniteSet(R)
  <2>1. R \in SUBSET (1..n)
    BY <1>1, <1>2 DEF BucketRows
  <2> QED
    BY <2>1, StretchIsFinite, FS_Subset
<1>4. \A id \in DOMAIN cs : cs[id] \in CandleType /\ cs[id].count \in Nat
  <2>1. \A id \in DOMAIN cs : cs[id] \in CandleType
    OBVIOUS
  <2>2. \A c \in CandleType : c.count \in Nat
    BY DEF CandleType
  <2> QED
    BY <2>1, <2>2
<1>5. PICK f : f = [id \in R |-> cs[id].count]
  OBVIOUS
<1>6. \A id \in R : f[id] \in Nat
  BY <1>2, <1>4, <1>5 DEF BucketRows
<1>7. SumFunctionOnSet(f, R) \in Nat
  BY <1>3, <1>6, SumNat
<1> QED
  BY <1>2, <1>3, <1>4, <1>5, <1>7 DEF CountOf

LEMMA CountAllType ==
  ASSUME NEW cs \in Seq(CandleType), NEW tf \in Timeframes
  PROVE  CountAll(cs, tf) \in Nat
<1>1. PICK f, B : B = Buckets(tf) /\ f = [b \in B |-> CountOf(cs, tf, b)]
  OBVIOUS
<1>2. IsFiniteSet(B) /\ \A b \in B : f[b] \in Nat
  BY <1>1, BucketsFinite, RowsFinite
<1> QED
  BY <1>1, <1>2, SumNat DEF CountAll

\* A write counts one trade more in its bucket.
LEMMA CountWritten ==
  ASSUME NEW cs \in Seq(CandleType), NEW cs2 \in Seq(CandleType),
         NEW id, NEW r, Wrote(cs, cs2, id, r), HasRead(r) => r.read = cs[r.row],
         NEW t, NEW b
  PROVE  CountOf(cs2, t, b) = CountOf(cs, t, b)
           + (IF t = Frame(r) /\ b = BucketOf(r) THEN 1 ELSE 0)
<1>1. PICK R, R2 : R = BucketRows(cs, t, b) /\ R2 = BucketRows(cs2, t, b)
  OBVIOUS
<1>2. PICK f, f2 : f = [j \in R |-> cs[j].count] /\ f2 = [j \in R2 |-> cs2[j].count]
  OBVIOUS
<1>3. /\ CountOf(cs, t, b) = SumFunctionOnSet(f, R)
      /\ CountOf(cs2, t, b) = SumFunctionOnSet(f2, R2)
  BY <1>1, <1>2 DEF CountOf
<1>4. IsFiniteSet(R) /\ IsFiniteSet(R2) /\ SumFunctionOnSet(f, R) \in Nat
  BY <1>1, <1>3, RowsFinite
<1>5. (\A j \in R : f[j] \in Int) /\ (\A j \in R2 : f2[j] \in Int)
  <2>1. \A j \in DOMAIN cs : cs[j].count \in Nat
    BY RowsFinite
  <2>2. \A j \in DOMAIN cs2 : cs2[j].count \in Nat
    BY RowsFinite
  <2> QED
    BY <1>1, <1>2, <2>1, <2>2 DEF BucketRows
<1>6. /\ DOMAIN cs2 = DOMAIN cs \cup {id}
      /\ cs2[id].timeframe = Frame(r) /\ cs2[id].bucket = BucketOf(r)
      /\ \A j \in DOMAIN cs \ {id} : cs2[j] = cs[j]
      /\ \/ /\ id \in DOMAIN cs /\ cs[id].timeframe = Frame(r)
            /\ cs[id].bucket = BucketOf(r)
            /\ cs2[id].count = cs[id].count + 1
         \/ id \notin DOMAIN cs /\ cs2[id].count = 1
  BY DEF Wrote, IsFor
<1>7. CASE ~(t = Frame(r) /\ b = BucketOf(r))
  <2>1. R2 = R /\ id \notin R
    BY <1>1, <1>6, <1>7 DEF BucketRows
  <2>2. \A j \in R : f[j] = f2[j]
    BY <1>1, <1>2, <1>6, <2>1 DEF BucketRows
  <2>3. SumFunctionOnSet(f, R) = SumFunctionOnSet(f2, R)
    BY <1>4, <2>2, SumAgree
  <2> QED
    BY <1>3, <1>4, <1>7, <2>1, <2>3
<1>8. CASE (t = Frame(r) /\ b = BucketOf(r)) /\ id \in DOMAIN cs
  <2>1. R2 = R /\ id \in R
    BY <1>1, <1>6, <1>8 DEF BucketRows
  <2>2. PICK d \in Int : d = 1
    OBVIOUS
  <2>3. /\ \A j \in R \ {id} : f2[j] = f[j]
        /\ f2[id] = f[id] + d
    BY <1>1, <1>2, <1>6, <1>8, <2>1, <2>2 DEF BucketRows
  <2>4. \A j \in R : f[j] \in Int /\ f2[j] \in Int
    BY <1>5, <2>1
  <2>5. SumFunctionOnSet(f2, R) = SumFunctionOnSet(f, R) + d
    BY <1>4, <2>1, <2>3, <2>4, SumGrows
  <2> QED
    BY <1>3, <1>8, <2>1, <2>2, <2>5
<1>9. CASE (t = Frame(r) /\ b = BucketOf(r)) /\ id \notin DOMAIN cs
  <2>1. R2 = R \cup {id} /\ id \notin R
    BY <1>1, <1>6, <1>9 DEF BucketRows
  <2>2. R2 \ {id} = R /\ id \in R2
    BY <2>1
  <2>3. SumFunctionOnSet(f2, R2) = f2[id] + SumFunctionOnSet(f2, R)
    <3>1. SumFunctionOnSet(f2, R2) = f2[id] + SumFunctionOnSet(f2, R2 \ {id})
      BY <1>4, <1>5, <2>2, SumRemove
    <3> QED
      BY <2>2, <3>1
  <2>4. f2[id] = 1
    BY <1>2, <1>6, <1>9, <2>2
  <2>5. \A j \in R : f[j] = f2[j]
    BY <1>1, <1>2, <1>6, <2>1 DEF BucketRows
  <2>6. SumFunctionOnSet(f, R) = SumFunctionOnSet(f2, R)
    BY <1>4, <2>5, SumAgree
  <2> QED
    BY <1>3, <1>4, <1>9, <2>3, <2>4, <2>6
<1> QED
  BY <1>7, <1>8, <1>9

LEMMA CountAllWritten ==
  ASSUME NEW cs \in Seq(CandleType), NEW cs2 \in Seq(CandleType),
         NEW id, NEW r, Wrote(cs, cs2, id, r), HasRead(r) => r.read = cs[r.row],
         NEW t \in Timeframes, t = Frame(r) => BucketOf(r) \in Buckets(t)
  PROVE  CountAll(cs2, t) = CountAll(cs, t) + (IF t = Frame(r) THEN 1 ELSE 0)
<1>1. PICK B : B = Buckets(t)
  OBVIOUS
<1>2. PICK f, f2 : /\ f = [b \in B |-> CountOf(cs, t, b)]
                   /\ f2 = [b \in B |-> CountOf(cs2, t, b)]
  OBVIOUS
<1>3. /\ CountAll(cs, t) = SumFunctionOnSet(f, B)
      /\ CountAll(cs2, t) = SumFunctionOnSet(f2, B)
  BY <1>1, <1>2 DEF CountAll
<1>4. IsFiniteSet(B) /\ \A b \in B : f[b] \in Int /\ f2[b] \in Int
  <2>1. \A b \in B : CountOf(cs, t, b) \in Nat /\ CountOf(cs2, t, b) \in Nat
    BY RowsFinite
  <2> QED
    BY <1>1, <1>2, <2>1, BucketsFinite
<1>5. \A b \in B : f2[b] = f[b] + (IF t = Frame(r) /\ b = BucketOf(r) THEN 1 ELSE 0)
  BY <1>2, CountWritten
<1>6. CASE t # Frame(r)
  <2>1. \A b \in B : f[b] = f2[b]
    BY <1>4, <1>5, <1>6
  <2>2. SumFunctionOnSet(f, B) = SumFunctionOnSet(f2, B)
    BY <1>4, <2>1, SumAgree
  <2>3. CountAll(cs, t) \in Nat
    BY CountAllType
  <2> QED
    BY <1>3, <1>6, <2>2, <2>3
<1>7. CASE t = Frame(r)
  <2>1. PICK d \in Int, b \in B : d = 1 /\ b = BucketOf(r)
    BY <1>1, <1>7
  <2>2. (\A y \in B \ {b} : f2[y] = f[y]) /\ f2[b] = f[b] + d
    BY <1>4, <1>5, <1>7, <2>1
  <2>3. SumFunctionOnSet(f2, B) = SumFunctionOnSet(f, B) + d
    BY <1>4, <2>2, SumGrows
  <2> QED
    BY <1>3, <1>7, <2>1, <2>3
<1> QED
  BY <1>6, <1>7

\* No bucket counts more trades than it has.
LEMMA CountIsAssigned ==
  ASSUME NEW cs \in Seq(CandleType), NEW tr \in SUBSET Txs, NEW pl,
         NEW tf, NEW b, NEW g \in [Txs -> 0..Len(cs)], Assigns(g, tf, tr, cs, pl)
  PROVE  CountOf(cs, tf, b) <= Cardinality({i \in tr : getBucket(i, tf) = b})
<1>1. PICK R : R = BucketRows(cs, tf, b)
  OBVIOUS
<1>2. PICK f, of : /\ f = [id \in R |-> cs[id].count]
                   /\ of = [id \in R |-> Cardinality({i \in Txs : g[i] = id})]
  OBVIOUS
<1>3. IsFiniteSet(R)
  BY <1>1, RowsFinite
<1>4. \A id \in R : f[id] \in Nat /\ of[id] \in Nat /\ f[id] <= of[id]
  <2> SUFFICES ASSUME NEW id \in R
               PROVE  f[id] \in Nat /\ of[id] \in Nat /\ f[id] <= of[id]
    OBVIOUS
  <2>1. id \in DOMAIN cs /\ cs[id].timeframe = tf
    BY <1>1 DEF BucketRows
  <2>2. cs[id].count <= Cardinality(Given(g, id)) /\ cs[id].count \in Nat
    BY <2>1, RowsFinite DEF Assigns
  <2>3. Given(g, id) \in SUBSET Txs
    BY DEF Given
  <2>4. Cardinality(Given(g, id)) \in Nat
    BY <2>3, TxsFinite
  <2> QED
    BY <1>2, <2>2, <2>4 DEF Given
<1>5. SumFunctionOnSet(f, R) <= SumFunctionOnSet(of, R)
  <2>1. PICK z \in Int, o \in Int : z = 0 /\ o = 1
    OBVIOUS
  <2>2. \A id \in R : /\ f[id] \in Int /\ of[id] \in Int
                       /\ o * f[id] <= o * of[id] + z
    BY <1>4, <2>1
  <2>3. o * SumFunctionOnSet(f, R) <= o * SumFunctionOnSet(of, R) + z * Cardinality(R)
    BY <1>3, <2>2, SumBound
  <2>4. SumFunctionOnSet(f, R) \in Nat /\ SumFunctionOnSet(of, R) \in Nat
        /\ Cardinality(R) \in Nat
    BY <1>3, <1>4, SumNat, FS_CardinalityType
  <2> QED
    BY <2>1, <2>3, <2>4
<1>6. PICK A, T : A = {i \in Txs : g[i] \in R} /\ T = {i \in tr : getBucket(i, tf) = b}
  OBVIOUS
<1>7. SumFunctionOnSet(of, R) = Cardinality(A)
  <2>1. PICK D : D = Txs
    OBVIOUS
  <2>2. IsFiniteSet(D) /\ of = [id \in R |-> Cardinality({i \in D : g[i] = id})]
    BY <1>2, <2>1, TxsFinite
  <2>3. SumFunctionOnSet(of, R) = Cardinality({i \in D : g[i] \in R})
    BY <1>3, <2>2, SumOfFibres
  <2> QED
    BY <1>6, <2>1, <2>3
<1>8. A \subseteq T
  <2> SUFFICES ASSUME NEW i \in Txs, g[i] \in R
               PROVE  i \in tr /\ getBucket(i, tf) = b
    BY <1>6
  <2>1. g[i] # NoCandle
    <3>1. g[i] \in DOMAIN cs
      BY <1>1 DEF BucketRows
    <3> QED
      BY <3>1 DEF NoCandle
  <2>2. i \in tr /\ g[i] \in BucketRows(cs, tf, getBucket(i, tf))
    BY <2>1 DEF Assigns
  <2> QED
    BY <1>1, <2>2 DEF BucketRows
<1>9. IsFiniteSet(T) /\ Cardinality(A) <= Cardinality(T)
      /\ Cardinality(A) \in Nat /\ Cardinality(T) \in Nat
  <2>1. T \in SUBSET Txs /\ A \in SUBSET Txs /\ A \in SUBSET T
    BY <1>6, <1>8
  <2> QED
    BY <2>1, TxsFinite, FS_Subset
<1>10. CountOf(cs, tf, b) = SumFunctionOnSet(f, R)
  BY <1>1, <1>2 DEF CountOf
<1>11. SumFunctionOnSet(f, R) \in Nat
  BY <1>3, <1>4, SumNat
<1> QED
  BY <1>5, <1>6, <1>7, <1>9, <1>10, <1>11

-----------------------------------------------------------------------------
\* A candle with one trade, and with one more that is later than all of its.
LEMMA NewCandleIsOf ==
  ASSUME NEW x \in Txs, NEW c, c.count = 1, c.open = Price[x], c.close = Price[x],
         c.high = Price[x], c.low = Price[x]
  PROVE  \A st : IsCandleOf(c, {x}, st)
<1>1. Price[x] \in Int /\ x \in Int
  BY IndexerAssumption, TxsFinite DEF Txs
<1>2. Cardinality({x}) = 1
  BY FS_Singleton
<1> QED
  BY <1>1, <1>2 DEF IsCandleOf

LEMMA UpdatedIsOf ==
  ASSUME NEW in \in SUBSET Txs, NEW x \in Txs \ in, in # {},
         NEW st \in BOOLEAN, ~st => \A j \in in : j < x,
         NEW c \in CandleType, IsCandleOf(c, in, st),
         NEW d, d.count = c.count + 1, d.open = c.open, d.close = Price[x],
         d.high = Max({c.high, Price[x]}), d.low = Min({c.low, Price[x]})
  PROVE  IsCandleOf(d, in \cup {x}, st)
<1>1. /\ Price[x] \in Int /\ x \in Int
      /\ \A j \in in : j \in Int /\ Price[j] \in Int
  BY IndexerAssumption, TxsFinite DEF Txs
<1>2. /\ c.high \in Int /\ c.low \in Int /\ c.count \in Nat
  BY DEF CandleType
<1>3. /\ d.high = IF c.high >= Price[x] THEN c.high ELSE Price[x]
      /\ d.low = IF c.low <= Price[x] THEN c.low ELSE Price[x]
  BY <1>1, <1>2, MaxOfTwo, MinOfTwoInts
<1>4. d.count = Cardinality(in \cup {x})
  <2>1. x \notin in /\ IsFiniteSet(in)
    BY <1>1, TxsFinite
  <2> QED
    BY <2>1, FS_AddElement, ZenonT(60) DEF IsCandleOf
<1>5. \E i \in in \cup {x} : d.open = Price[i] /\ (~st => \A j \in in \cup {x} : i <= j)
  <2>1. PICK i \in in : c.open = Price[i] /\ (~st => \A j \in in : i <= j)
    BY DEF IsCandleOf
  <2>2. ~st => i <= x
    BY <1>1
  <2> QED
    BY <2>1, <2>2
<1>6. \E i \in in \cup {x} : d.close = Price[i] /\ (~st => \A j \in in \cup {x} : j <= i)
  <2>1. ~st => \A j \in in \cup {x} : j <= x
    BY <1>1
  <2> QED
    BY <2>1
<1>7. \E i \in in \cup {x} : d.high = Price[i] /\ \A j \in in \cup {x} : Price[j] <= d.high
  <2>1. PICK i \in in : c.high = Price[i] /\ \A j \in in : Price[j] <= c.high
    BY DEF IsCandleOf
  <2>2. CASE c.high >= Price[x]
    BY <1>1, <1>2, <1>3, <2>1, <2>2
  <2>3. CASE ~(c.high >= Price[x])
    <3>1. \A j \in in \cup {x} : Price[j] <= Price[x]
      BY <1>1, <1>2, <2>1, <2>3
    <3> QED
      BY <1>3, <2>3, <3>1
  <2> QED
    BY <2>2, <2>3
<1>8. \E i \in in \cup {x} : d.low = Price[i] /\ \A j \in in \cup {x} : d.low <= Price[j]
  <2>1. PICK i \in in : c.low = Price[i] /\ \A j \in in : c.low <= Price[j]
    BY DEF IsCandleOf
  <2>2. CASE c.low <= Price[x]
    BY <1>1, <1>2, <1>3, <2>1, <2>2
  <2>3. CASE ~(c.low <= Price[x])
    <3>1. \A j \in in \cup {x} : Price[x] <= Price[j]
      BY <1>1, <1>2, <2>1, <2>3
    <3> QED
      BY <1>3, <2>3, <3>1
  <2> QED
    BY <2>2, <2>3
<1> QED
  BY <1>4, <1>5, <1>6, <1>7, <1>8 DEF IsCandleOf

-----------------------------------------------------------------------------
\* What holds however polls overlap.
SafeInv ==
  /\ IndexTypes
  /\ PollsOK(height, trades, candles, poll) /\ OneOwner(poll)
  /\ Assigned(trades, candles, poll)

LEMMA TypeFacts ==
  ASSUME IndexTypes
  PROVE  /\ height \in Nat /\ height <= MaxTxs /\ Swaps \subseteq Txs
         /\ trades \in SUBSET Txs /\ trades \subseteq Swaps
         /\ trades \subseteq 1..height
         /\ IsFiniteSet(trades) /\ Cardinality(trades) \in Nat
         /\ candles \in Seq(CandleType) /\ poll \in [Polls -> PollType]
         /\ pollFaults \in Nat /\ MaxPollFaults \in Nat
<1>1. height \in Nat /\ height <= MaxTxs /\ Swaps \subseteq Txs
  BY IndexerAssumption DEF IndexTypes, Txs
<1>2. trades \in SUBSET Txs /\ trades \subseteq Swaps /\ trades \subseteq 1..height
  BY <1>1 DEF IndexTypes
<1> QED
  BY <1>1, <1>2, TxsFinite, IndexerAssumption DEF IndexTypes

\* One poll goes on, no row is written.
LEMMA SafeMove ==
  ASSUME SafeInv, NEW p \in Polls, NEW r, r = poll[p], NEW to \in PollType,
         poll' = [poll EXCEPT ![p] = to], UNCHANGED <<height, candles>>,
         trades \subseteq trades', trades' \in SUBSET (Swaps \cap 1..height),
         pollFaults' \in 0..MaxPollFaults,
         overlapped' \in BOOLEAN, strayed' \in BOOLEAN,
         PollOK(to, height, trades', candles),
         Updates(to) => \/ Updates(r) /\ TxOf(to) = TxOf(r)
                        \/ TxOf(to) \in Txs \ trades,
         \A tf \in Timeframes : Pending(to, tf) =>
           \/ Pending(r, tf)
           \/ TxOf(to) \in Txs \ trades,
         HasRead(to) => to.read = candles[to.row]
  PROVE  SafeInv'
<1>1. poll \in [Polls -> PollType] /\ height \in Nat
  BY TypeFacts DEF SafeInv
<1>2. /\ poll' \in [Polls -> PollType]
      /\ \A q \in Polls : poll'[q] = IF q = p THEN to ELSE poll[q]
  BY <1>1
<1>3. IndexTypes'
  <2>1. \A id \in DOMAIN candles : Traded(candles[id], trades')
    BY DEF SafeInv, IndexTypes, Traded
  <2> QED
    BY <1>2, <2>1 DEF SafeInv, IndexTypes
<1>4. ASSUME NEW q \in Polls
      PROVE  PollOK(poll'[q], height, trades', candles)
  <2>1. CASE q = p
    BY <1>2, <2>1
  <2>2. CASE q # p
    <3>1. PICK w, tr2 : w = poll[q] /\ tr2 = trades'
      OBVIOUS
    <3>2. PollOK(w, height, trades, candles) /\ w \in PollType /\ height \in Int
      BY <1>1, <3>1 DEF SafeInv, PollsOK
    <3>3. PollOK(w, height, tr2, candles)
      BY <3>1, <3>2, PollOKKept
    <3> QED
      BY <1>2, <2>2, <3>1, <3>3
  <2> QED
    BY <2>1, <2>2
<1>5. PollsOK(height, trades, candles, poll)'
  BY <1>4 DEF PollsOK
<1>6. OneOwner(poll')
  <2>1. ASSUME Updates(to), NEW q \in Polls \ {p}, Updates(poll[q])
        PROVE  TxOf(poll[q]) # TxOf(to)
    <3>1. TxOf(poll[q]) \in trades
      BY <2>1 DEF SafeInv, PollsOK, PollOK
    <3>2. CASE Updates(r) /\ TxOf(to) = TxOf(r)
      BY <2>1, <3>2 DEF SafeInv, OneOwner
    <3>3. CASE TxOf(to) \in Txs \ trades
      BY <3>1, <3>3
    <3> QED
      BY <2>1, <3>2, <3>3
  <2>2. PICK pl2 : pl2 = poll'
    OBVIOUS
  <2>3. OneOwner(pl2)
    BY <1>1, <2>1, <2>2, OwnerKept DEF SafeInv
  <2> QED
    BY <2>2, <2>3
<1>7. Assigned(trades', candles, poll')
  <2>1. PICK pl2, tr2 : pl2 = poll' /\ tr2 = trades'
    OBVIOUS
  <2>2. ASSUME NEW tf \in Timeframes, Pending(to, tf)
        PROVE  \/ Pending(r, tf) /\ TxOf(to) = TxOf(r)
               \/ TxOf(to) \in Txs \ trades
    BY <2>2 DEF Pending
  <2>3. HasRead(to) =>
          /\ to.row \in DOMAIN candles
          /\ candles[to.row].timeframe = Frame(to)
          /\ to.read = candles[to.row]
    BY DEF PollOK, IsFor
  <2>4. ASSUME NEW q \in Polls
        PROVE  \/ pl2[q] = poll[q]
               \/ /\ \A tf \in Timeframes : Pending(pl2[q], tf) =>
                       \/ Pending(poll[q], tf) /\ TxOf(pl2[q]) = TxOf(poll[q])
                       \/ TxOf(pl2[q]) \in Txs \ trades
                  /\ HasRead(pl2[q]) =>
                       /\ pl2[q].row \in DOMAIN candles
                       /\ candles[pl2[q].row].timeframe = Frame(pl2[q])
                       /\ pl2[q].read = candles[pl2[q].row]
    BY <1>2, <2>1, <2>2, <2>3
  <2>5. PICK tr, cs, pl : tr = trades /\ cs = candles /\ pl = poll
    OBVIOUS
  <2>6. Assigned(tr, cs, pl) /\ tr \subseteq tr2
    BY <2>1, <2>5 DEF SafeInv
  <2>7. \A q \in Polls :
          \/ pl2[q] = pl[q]
          \/ /\ \A tf \in Timeframes : Pending(pl2[q], tf) =>
                  \/ Pending(pl[q], tf) /\ TxOf(pl2[q]) = TxOf(pl[q])
                  \/ TxOf(pl2[q]) \in Txs \ tr
             /\ HasRead(pl2[q]) =>
                  /\ pl2[q].row \in DOMAIN cs
                  /\ cs[pl2[q].row].timeframe = Frame(pl2[q])
                  /\ pl2[q].read = cs[pl2[q].row]
    BY <2>4, <2>5
  <2>8. Assigned(tr2, cs, pl2)
    BY <2>6, <2>7, AssignedKept
  <2> QED
    BY <2>1, <2>5, <2>8
<1> QED
  BY <1>3, <1>5, <1>6, <1>7 DEF SafeInv

\* The same where polls do not overlap.
LEMMA CalmMove ==
  ASSUME IndexInv, ~overlapped, NEW p \in Polls, NEW r, r = poll[p],
         NEW to \in PollType, \A q \in Polls \ {p} : poll[q].pc = "idle",
         poll' = [poll EXCEPT ![p] = to], UNCHANGED candles,
         HasRead(to) => to.read = candles[to.row],
         Cardinality(trades') \in Nat, pollFaults' \in Nat,
         \A tf \in Timeframes :
           Cardinality(trades') + pollFaults + (IF Pending(r, tf) THEN 1 ELSE 0)
             <= Cardinality(trades) + pollFaults' + (IF Pending(to, tf) THEN 1 ELSE 0)
  PROVE  Calm(trades', candles', poll', pollFaults')
<1>1. /\ poll \in [Polls -> PollType] /\ Cardinality(trades) \in Nat
      /\ pollFaults \in Nat /\ candles \in Seq(CandleType)
  BY TypeFacts DEF IndexInv
<1>2. PICK pl2 : pl2 = poll'
  OBVIOUS
<1>3. pl2 \in [Polls -> PollType] /\ pl2[p] = to
      /\ \A q \in Polls \ {p} : pl2[q].pc = "idle"
  BY <1>1, <1>2
<1>4. Single(pl2)
  BY <1>3, Alone
<1>5. Current(pl2, candles)
  BY <1>3, Alone
<1>6. ASSUME NEW tf \in Timeframes
      PROVE  Cardinality(trades') <= CountAll(candles, tf) + Waiting(pl2, tf) + pollFaults'
  <2>1. Waiting(pl2, tf) = IF Pending(to, tf) THEN 1 ELSE 0
    BY <1>3, Alone
  <2>2. Waiting(poll, tf) = IF Pending(r, tf) THEN 1 ELSE 0
    BY <1>1, Alone
  <2>3. Cardinality(trades) <= CountAll(candles, tf) + Waiting(poll, tf) + pollFaults
    BY DEF IndexInv, Calm
  <2>4. CountAll(candles, tf) \in Nat
    BY <1>1, CountAllType
  <2> QED
    BY <1>1, <2>1, <2>2, <2>3, <2>4, SMTT(30)
<1> QED
  BY <1>2, <1>4, <1>5, <1>6 DEF Calm

LEMMA BucketKept ==
  ASSUME NEW cs, NEW in, NEW tf, NEW b, NEW st, NEW st2, BucketExact(cs, in, tf, b, st),
         st2 = st \/ st2 = TRUE
  PROVE  BucketExact(cs, in, tf, b, st2)
<1>1. \A c : IsCandleOf(c, in, st) => IsCandleOf(c, in, st2)
  BY ZenonT(60) DEF IsCandleOf
<1> QED
  BY <1>1 DEF BucketExact

LEMMA ExactMove ==
  ASSUME IndexInv, ~overlapped, pollFaults = 0, NEW p \in Polls, NEW r, r = poll[p],
         NEW to \in PollType, \A q \in Polls \ {p} : poll[q].pc = "idle",
         poll' = [poll EXCEPT ![p] = to], UNCHANGED <<height, candles>>,
         strayed' = strayed \/ strayed' = TRUE,
         ~strayed' => InOrder(height, trades', poll'),
         to.pc = "write" /\ to.row = NoCandle =>
           BucketRows(candles, Frame(to), BucketOf(to)) = {},
         \A i : \A tf \in Timeframes : (i \in trades' /\ (Pending(to, tf) => i # TxOf(to)))
                      <=> (i \in trades /\ (Pending(r, tf) => i # TxOf(r)))
  PROVE  Exact(height', trades', candles', poll', strayed')
<1>1. poll \in [Polls -> PollType]
  BY TypeFacts DEF IndexInv
<1>2. PICK pl2, tr2 : pl2 = poll' /\ tr2 = trades'
  OBVIOUS
<1>3. pl2 \in [Polls -> PollType] /\ pl2[p] = to
      /\ \A q \in Polls \ {p} : pl2[q].pc = "idle"
  BY <1>1, <1>2
<1>4. NewIsMissing(pl2, candles)
  BY <1>3, Alone
<1>5. ASSUME NEW tf \in Timeframes, NEW b
      PROVE  Shown(tr2, pl2, tf, b) = Shown(trades, poll, tf, b)
  <2>1. Shown(tr2, pl2, tf, b) =
          {i \in tr2 : /\ getBucket(i, tf) = b
                       /\ Pending(to, tf) => i # TxOf(to)}
    BY <1>3, Alone
  <2>2. Shown(trades, poll, tf, b) =
          {i \in trades : /\ getBucket(i, tf) = b
                          /\ Pending(r, tf) => i # TxOf(r)}
    BY <1>1, Alone
  <2> QED
    BY <1>2, <2>1, <2>2
<1>6. ASSUME NEW tf \in Timeframes, NEW b \in Buckets(tf)
      PROVE  BucketExact(candles, Shown(tr2, pl2, tf, b), tf, b, strayed')
  <2>1. PICK S : S = Shown(trades, poll, tf, b)
    OBVIOUS
  <2>2. BucketExact(candles, S, tf, b, strayed)
    BY <2>1 DEF IndexInv, Exact
  <2>3. BucketExact(candles, S, tf, b, strayed')
    BY <2>2, BucketKept
  <2> QED
    BY <1>5, <2>1, <2>3
<1>7. ~strayed' => InOrder(height, tr2, pl2)
  BY <1>2
<1> QED
  BY <1>2, <1>4, <1>6, <1>7 DEF Exact

\* Without lost, what comes after a trade that is stored, or after what is no
\* swap, is in order.
LEMMA NextInOrder ==
  ASSUME IndexInv, ~overlapped, ~strayed, pollFaults = 0, NEW p \in Polls, NEW r, r = poll[p],
         r.pc # "idle", \A q \in Polls \ {p} : poll[q].pc = "idle",
         poll' = [poll EXCEPT ![p] = NextOf(r)], UNCHANGED <<height, trades>>,
         TxOf(r) \in Swaps => TxOf(r) \in trades
  PROVE  InOrder(height, trades', poll')
<1>1. poll \in [Polls -> PollType] /\ r \in PollType /\ Swaps \subseteq Txs
  BY TypeFacts DEF IndexInv
<1>2. PICK pl2, to : pl2 = poll' /\ to = NextOf(r)
  OBVIOUS
<1>3. PollOK(r, height, trades, candles)
  BY DEF IndexInv, PollsOK
<1>4. /\ to \in PollType /\ to.pc \in {"idle", "tx"}
      /\ to.pc # "idle" => TxOf(to) = TxOf(r) + 1
  BY <1>1, <1>2, <1>3, NextFacts
<1>5. pl2 \in [Polls -> PollType] /\ pl2[p] = to
      /\ \A q \in Polls \ {p} : pl2[q].pc = "idle"
  BY <1>1, <1>2, <1>4
<1>6. /\ \A i \in Swaps, j \in trades :
           /\ i < j
           /\ \/ i > height - SIG_LIMIT
              \/ r.pc # "idle" /\ TxOf(r) <= i
           => i \in trades
      /\ \A i \in Swaps : i < TxOf(r) /\ i > height - SIG_LIMIT => i \in trades
  <2>1. InOrder(height, trades, poll)
    BY DEF IndexInv, Exact
  <2> QED
    BY <1>1, <2>1, AloneInOrder
<1>7. TxOf(r) \in Nat
  <2>1. r.sigs # <<>>
    BY <1>3 DEF PollOK
  <2> QED
    BY <1>1, <2>1, TxOfType
<1>8. \A i \in Swaps : i \in Nat
  BY <1>1, TxsAreNat
<1>9. \A i \in Swaps, j \in trades :
        /\ i < j
        /\ \/ i > height - SIG_LIMIT
           \/ to.pc # "idle" /\ TxOf(to) <= i
        => i \in trades
  BY <1>4, <1>6, <1>7, <1>8
<1>10. to.pc # "idle" => \A i \in Swaps :
         i < TxOf(to) /\ i > height - SIG_LIMIT => i \in trades
  BY <1>4, <1>6, <1>7, <1>8
<1>11. ~Updates(to)
  BY <1>4 DEF Updates
<1>12. InOrder(height, trades, pl2)
  BY <1>5, <1>9, <1>10, <1>11, AloneInOrder
<1> QED
  BY <1>2, <1>12

\* A poll that is under way is alone unless polls have overlapped.
LEMMA AloneUnlessOverlapped ==
  ASSUME IndexInv, ~overlapped, NEW p \in Polls, poll[p].pc # "idle"
  PROVE  \A q \in Polls \ {p} : poll[q].pc = "idle"
  BY DEF IndexInv, Calm, Single

-----------------------------------------------------------------------------
LEMMA IndexStarts == IndexerInit => IndexInv
<1> SUFFICES ASSUME IndexerInit PROVE IndexInv
  OBVIOUS
<1>1. /\ height = 0 /\ trades = {} /\ candles = <<>>
      /\ poll = [p \in Polls |-> IdlePoll] /\ pollFaults = 0 /\ overlapped = FALSE
      /\ strayed = FALSE
  BY DEF IndexerInit
<1>2. DOMAIN candles = {} /\ Len(candles) = 0 /\ candles \in Seq(CandleType)
  BY <1>1
<1>3. \A p \in Polls : /\ poll[p] = IdlePoll /\ poll[p].pc = "idle"
                       /\ poll[p].row = NoCandle
  BY <1>1, IdleFacts
<1>4. \A p \in Polls : ~Updates(poll[p]) /\ ~HasRead(poll[p])
  BY <1>3 DEF Updates, HasRead
<1>5. IndexTypes
  <2>1. MaxTxs \in Nat /\ MaxPollFaults \in Nat
    BY IndexerAssumption
  <2>2. poll \in [Polls -> PollType]
    BY <1>1, IdleFacts
  <2>3. height \in 0..MaxTxs /\ pollFaults \in 0..MaxPollFaults
    BY <1>1, <2>1
  <2>4. /\ trades \in SUBSET (Swaps \cap 1..height)
        /\ overlapped \in BOOLEAN /\ strayed \in BOOLEAN
    BY <1>1
  <2> QED
    BY <1>2, <2>2, <2>3, <2>4 DEF IndexTypes
<1>6. PollsOK(height, trades, candles, poll)
  BY <1>3, IdleFacts DEF PollsOK
<1>7. OneOwner(poll)
  BY <1>4 DEF OneOwner
<1>8. Assigned(trades, candles, poll)
  <2> SUFFICES ASSUME NEW tf \in Timeframes
               PROVE  \E g \in [Txs -> 0..Len(candles)] : Assigns(g, tf, trades, candles, poll)
    BY DEF Assigned
  <2>1. PICK g : g = [i \in Txs |-> 0]
    OBVIOUS
  <2>2. g \in [Txs -> 0..Len(candles)] /\ \A i \in Txs : g[i] = NoCandle
    BY <1>2, <2>1 DEF NoCandle
  <2>3. Assigns(g, tf, trades, candles, poll)
    BY <1>2, <1>4, <2>2 DEF Assigns, Pending
  <2> QED
    BY <2>2, <2>3
<1>9. \A tf, b : BucketRows(candles, tf, b) = {} /\ Shown(trades, poll, tf, b) = {}
  BY <1>1, <1>2 DEF BucketRows, Shown
<1>10. Calm(trades, candles, poll, pollFaults)
  <2>1. Single(poll) /\ Current(poll, candles)
    BY <1>3, <1>4 DEF Single, Current
  <2>2. ASSUME NEW tf \in Timeframes
        PROVE  Cardinality(trades) <= CountAll(candles, tf) + Waiting(poll, tf) + pollFaults
    <3>1. CountAll(candles, tf) \in Nat
      BY <1>2, CountAllType
    <3>2. Waiting(poll, tf) \in Nat
      BY DEF Waiting
    <3>3. Cardinality(trades) = 0
      BY <1>1, FS_EmptySet
    <3> QED
      BY <1>1, <3>1, <3>2, <3>3
  <2> QED
    BY <2>1, <2>2 DEF Calm
<1>11. Exact(height, trades, candles, poll, strayed)
  <2>1. InOrder(height, trades, poll)
    BY <1>1, <1>3, <1>4 DEF InOrder
  <2>2. NewIsMissing(poll, candles)
    BY <1>3 DEF NewIsMissing
  <2>3. \A tf \in Timeframes : \A b \in Buckets(tf) :
          BucketExact(candles, Shown(trades, poll, tf, b), tf, b, strayed)
    BY <1>9 DEF BucketExact
  <2> QED
    BY <2>1, <2>2, <2>3 DEF Exact
<1> QED
  BY <1>5, <1>6, <1>7, <1>8, <1>10, <1>11 DEF IndexInv

\* The parts of the invariant together.
LEMMA FromParts ==
  ASSUME SafeInv', ~overlapped' => Calm(trades', candles', poll', pollFaults'),
         ~overlapped' /\ pollFaults' = 0 => Exact(height', trades', candles', poll', strayed')
  PROVE  IndexInv'
  BY DEF SafeInv, IndexInv

LEMMA SafePart == IndexInv => SafeInv
  BY DEF SafeInv, IndexInv

LEMMA TradeKeeps ==
  ASSUME IndexInv, Trade
  PROVE  IndexInv'
<1>1. /\ height < MaxTxs /\ height' = height + 1
      /\ UNCHANGED <<trades, candles, poll, pollFaults, overlapped, strayed>>
  BY DEF Trade, tables, past
<1>2. height \in Nat /\ poll \in [Polls -> PollType] /\ MaxTxs \in Nat
      /\ trades \subseteq 1..height /\ Swaps \subseteq Txs
  BY TypeFacts, TxsFinite DEF IndexInv
<1>3. height' \in 0..MaxTxs /\ trades \subseteq 1..height'
  BY <1>1, <1>2
<1>4. IndexTypes'
  <2>1. trades \in SUBSET (Swaps \cap 1..height')
    BY <1>3 DEF IndexInv, IndexTypes
  <2> QED
    BY <1>1, <1>3, <2>1 DEF IndexInv, IndexTypes
<1>5. ASSUME NEW p \in Polls
      PROVE  PollOK(poll[p], height', trades, candles)
  <2>1. PICK r \in PollType, h \in Int, h2 \in Int :
          r = poll[p] /\ h = height /\ h2 = height'
    BY <1>1, <1>2
  <2>2. r \in PollType /\ PollOK(r, h, trades, candles) /\ h <= h2
    BY <1>1, <1>2, <2>1 DEF IndexInv, PollsOK
  <2>3. PollOK(r, h2, trades, candles)
    BY <2>2, PollOKKept
  <2> QED
    BY <2>1, <2>3
<1>6. ASSUME InOrder(height, trades, poll)
      PROVE  InOrder(height', trades, poll)
  <2>1. \A i \in Swaps : i \in Nat
    BY <1>2 DEF Txs
  <2>2. SIG_LIMIT \in Nat
    BY IndexerAssumption
  <2>3. \A i \in Swaps : i > height' - SIG_LIMIT => i > height - SIG_LIMIT
    <3>1. PICK h \in Int, l \in Int : h = height /\ l = SIG_LIMIT /\ height' = h + 1
      BY <1>1, <1>2, <2>2
    <3>2. \A i \in Nat : i > (h + 1) - l => i > h - l
      BY <3>1
    <3> QED
      BY <2>1, <3>1, <3>2
  <2> QED
    BY <1>6, <2>3 DEF InOrder
<1> QED
  BY <1>1, <1>4, <1>5, <1>6 DEF IndexInv, PollsOK, Exact

LEMMA RecentFacts ==
  ASSUME IndexTypes, height > 0
  PROVE  /\ Recent \in Seq(Txs) /\ Recent # <<>>
         /\ \A k \in 1..Len(Recent) : Recent[k] = Recent[1] + (k - 1)
         /\ \A k \in 1..Len(Recent) : Recent[k] <= height
         /\ Recent[1] > 0 /\ \A i \in Txs : i < Recent[1] => ~(i > height - SIG_LIMIT)
         /\ Recent[1] > height - SIG_LIMIT
<1>1. height \in Nat \ {0} /\ height <= MaxTxs /\ MaxTxs \in Nat /\ SIG_LIMIT \in Nat \ {0}
  BY TypeFacts, TxsFinite, IndexerAssumption
<1>2. PICK older \in Nat : older = Max({0, height - SIG_LIMIT})
  <2>1. PICK z \in Int, d \in Int : z = 0 /\ d = height - SIG_LIMIT
    BY <1>1
  <2>2. Max({z, d}) = IF z >= d THEN z ELSE d
    BY MaxOfTwo
  <2> QED
    BY <2>1, <2>2
<1>3. older = (IF 0 >= height - SIG_LIMIT THEN 0 ELSE height - SIG_LIMIT)
  <2>1. PICK z \in Int, d \in Int : z = 0 /\ d = height - SIG_LIMIT
    BY <1>1
  <2>2. Max({z, d}) = IF z >= d THEN z ELSE d
    BY MaxOfTwo
  <2> QED
    BY <1>2, <2>1, <2>2
<1>4. PICK n \in Nat \ {0} : n = height - older
  BY <1>1, <1>3
<1>5. Recent = [i \in 1..n |-> older + i]
  BY <1>2, <1>4 DEF Recent
<1>6. \A k \in 1..n : older + k \in Txs /\ older + k <= height
  BY <1>1, <1>4 DEF Txs
<1>7. Recent \in [1..n -> Txs]
  BY <1>5, <1>6
<1>8. Recent \in Seq(Txs) /\ Len(Recent) = n
  <2>1. \A f \in [1..n -> Txs] : f \in Seq(Txs) /\ Len(f) = n
    OBVIOUS
  <2> QED
    BY <1>7, <2>1
<1>9. 1 \in 1..n /\ Recent[1] = older + 1
  BY <1>5
<1>10. \A k \in 1..n : Recent[k] = Recent[1] + (k - 1) /\ Recent[k] <= height
  BY <1>5, <1>6, <1>9
<1>11. \A i \in Txs : i < Recent[1] => ~(i > height - SIG_LIMIT)
  BY <1>1, <1>3, <1>9 DEF Txs
<1>12. Recent # <<>>
  BY <1>8
<1> QED
  BY <1>1, <1>3, <1>8, <1>9, <1>10, <1>11, <1>12

\* A poll begins, with a list that is the end of this pool's, or with any other
\* stretch as soon as the order of trades is given up.
LEMMA ListKeeps ==
  ASSUME IndexInv, NEW p \in Polls, NEW sigs \in Seq(Txs), Begins(p, sigs), sigs # <<>>,
         \A k \in 1..Len(sigs) : sigs[k] = sigs[1] + (k - 1) /\ sigs[k] <= height,
         \/ strayed' = TRUE
         \/ strayed' = strayed /\ height > 0 /\ sigs = Recent
  PROVE  IndexInv'
<1>1. PICK r, to : r = poll[p] /\ to = [IdlePoll EXCEPT !.pc = "tx", !.sigs = sigs]
  OBVIOUS
<1>2. /\ r.pc = "idle" /\ poll' = [poll EXCEPT ![p] = to]
      /\ overlapped' = (overlapped \/ \E q \in Polls \ {p} : ~At(q, "idle"))
      /\ UNCHANGED <<height, trades, candles, pollFaults>>
  BY <1>1 DEF Begins, At, PollGoes, tables
<1>3. IndexTypes /\ SafeInv
  BY SafePart DEF IndexInv
<1>4. /\ height \in Nat /\ trades \subseteq Swaps /\ Swaps \subseteq Txs
      /\ poll \in [Polls -> PollType] /\ Cardinality(trades) \in Nat /\ pollFaults \in Nat
  BY <1>3, TypeFacts
<1>5. to = [pc |-> "tx", sigs |-> sigs, left |-> {}, row |-> NoCandle,
            read |-> [count |-> 0]]
  BY <1>1 DEF IdlePoll
<1>6. to \in PollType
  <2>1. {} \in SUBSET Timeframes /\ NoCandle \in Nat
    BY DEF NoCandle
  <2> QED
    BY <1>5, <2>1 DEF PollType
<1>7. to.pc = "tx" /\ to.sigs = sigs /\ to.row = NoCandle
  BY <1>5
<1>8. ~Updates(to) /\ ~HasRead(to) /\ ~Updates(r)
  BY <1>2, <1>7 DEF Updates, HasRead
<1>9. PollOK(to, height, trades, candles)
  BY <1>2, <1>3, <1>7, <1>8 DEF PollOK
<1>10. SafeInv'
  <2>1. /\ trades' \in SUBSET (Swaps \cap 1..height) /\ pollFaults' \in 0..MaxPollFaults
        /\ overlapped' \in BOOLEAN /\ strayed' \in BOOLEAN
    BY <1>2, <1>3 DEF IndexTypes
  <2>2. PollOK(to, height, trades', candles) /\ trades \subseteq trades'
    BY <1>2, <1>9
  <2>3. \A tf \in Timeframes : ~Pending(to, tf)
    BY <1>8 DEF Pending
  <2> QED
    BY <1>1, <1>2, <1>3, <1>6, <1>8, <2>1, <2>2, <2>3, SafeMove
<1>11. ASSUME ~overlapped'
       PROVE  ~overlapped /\ \A q \in Polls \ {p} : poll[q].pc = "idle"
  BY <1>2, <1>11 DEF At
<1>12. ~overlapped' => Calm(trades', candles', poll', pollFaults')
  <2>1. \A tf \in Timeframes : ~Pending(to, tf) /\ ~Pending(r, tf)
    BY <1>8 DEF Pending
  <2>2. /\ UNCHANGED candles /\ Cardinality(trades') = Cardinality(trades)
        /\ pollFaults' = pollFaults
    BY <1>2
  <2>3. \A tf \in Timeframes :
          Cardinality(trades') + pollFaults + (IF Pending(r, tf) THEN 1 ELSE 0)
            <= Cardinality(trades) + pollFaults' + (IF Pending(to, tf) THEN 1 ELSE 0)
    BY <1>4, <2>1, <2>2
  <2> QED
    BY <1>1, <1>2, <1>4, <1>6, <1>8, <1>11, <2>2, <2>3, CalmMove, ZenonT(60)
<1>13. ASSUME ~overlapped', pollFaults' = 0
       PROVE  Exact(height', trades', candles', poll', strayed')
  <2>1. pollFaults = 0 /\ UNCHANGED <<height, candles>> /\ trades' = trades
    BY <1>2, <1>13
  <2>10. ASSUME ~strayed'
         PROVE  InOrder(height, trades', poll')
    <3>1. ~strayed /\ height > 0 /\ sigs = Recent
      BY <2>10
    <3>2. PICK pl2 : pl2 = poll'
      OBVIOUS
    <3>3. pl2 \in [Polls -> PollType] /\ pl2[p] = to
          /\ \A q \in Polls \ {p} : pl2[q].pc = "idle"
      BY <1>2, <1>4, <1>6, <1>11, <1>13, <3>2
    <3>4. \A i \in Swaps, j \in trades : i < j /\ i > height - SIG_LIMIT => i \in trades
      BY <1>11, <1>13, <2>1, <3>1 DEF IndexInv, Exact, InOrder
    <3>5. TxOf(to) = Recent[1] /\ TxOf(to) \in Nat
      BY <1>2, <1>3, <1>6, <1>7, <3>1, TxOfType, RecentFacts
    <3>6. \A i \in Swaps : i \in Nat /\ i \in Txs
      BY <1>4 DEF Txs
    <3>7. SIG_LIMIT \in Nat
      BY IndexerAssumption
    <3>8. \A i \in Swaps : TxOf(to) <= i => i > height - SIG_LIMIT
      BY <1>2, <1>3, <1>4, <3>1, <3>5, <3>6, <3>7, RecentFacts
    <3>9. \A i \in Swaps : ~(i < TxOf(to) /\ i > height - SIG_LIMIT)
      BY <1>2, <1>3, <3>1, <3>5, <3>6, RecentFacts
    <3>10. InOrder(height, trades, pl2)
      BY <1>8, <3>3, <3>4, <3>8, <3>9, AloneInOrder
    <3> QED
      BY <2>1, <3>2, <3>10
  <2>11. \A i : \A tf \in Timeframes : (i \in trades' /\ (Pending(to, tf) => i # TxOf(to)))
                      <=> (i \in trades /\ (Pending(r, tf) => i # TxOf(r)))
    BY <1>8, <2>1 DEF Pending
  <2>13. to.pc # "write"
    BY <1>7
  <2> QED
    BY <1>1, <1>2, <1>6, <1>11, <1>13, <2>1, <2>10, <2>11, <2>13, ExactMove, ZenonT(60)
<1> QED
  BY <1>10, <1>12, <1>13, FromParts

LEMMA StartPollKeeps ==
  ASSUME IndexInv, NEW p \in Polls, StartPoll(p)
  PROVE  IndexInv'
<1>1. height > 0 /\ Begins(p, Recent) /\ strayed' = strayed
  BY DEF StartPoll
<1>2. IndexTypes
  BY DEF IndexInv
<1>3. /\ Recent \in Seq(Txs) /\ Recent # <<>>
      /\ \A k \in 1..Len(Recent) : Recent[k] = Recent[1] + (k - 1) /\ Recent[k] <= height
  BY <1>1, <1>2, RecentFacts
<1>4. PICK sigs : sigs = Recent
  OBVIOUS
<1> QED
  BY <1>1, <1>3, <1>4, ListKeeps

LEMMA StartOtherKeeps ==
  ASSUME IndexInv, NEW p \in Polls, StartOther(p)
  PROVE  IndexInv'
<1>1. PICK i \in Shared \cap 1..height : Begins(p, <<i>>)
  BY DEF StartOther
<1>2. i \in Txs /\ i \in Nat /\ i <= height
  <2>1. height \in Nat /\ Shared \subseteq Txs
    BY TypeFacts, IndexerAssumption DEF IndexInv, Txs
  <2> QED
    BY <1>1, <2>1 DEF Txs
<1>3. PICK sigs : sigs = <<i>>
  OBVIOUS
<1>4. /\ sigs \in Seq(Txs) /\ sigs # <<>>
      /\ \A k \in 1..Len(sigs) : sigs[k] = sigs[1] + (k - 1) /\ sigs[k] <= height
  BY <1>2, <1>3
<1>5. strayed' = TRUE
  BY DEF StartOther
<1> QED
  BY <1>1, <1>3, <1>4, <1>5, ListKeeps

-----------------------------------------------------------------------------
\* The poll goes on to the next transaction: with a fault, or with nothing
\* left to do for this one.
LEMMA NextKeeps ==
  ASSUME IndexInv, NEW p \in Polls, NEW r, r = poll[p], r.pc # "idle",
         poll' = [poll EXCEPT ![p] = NextOf(r)],
         UNCHANGED <<height, candles, overlapped, strayed>>,
         \/ pollFaults' = pollFaults /\ trades' = trades /\ ~Updates(r)
            /\ (TxOf(r) \in Swaps => TxOf(r) \in trades)
         \/ /\ pollFaults' = pollFaults + 1 /\ pollFaults < MaxPollFaults
            /\ ~Updates(r)
            /\ \/ trades' = trades
               \/ r.pc = "insert" /\ trades' = trades \cup {TxOf(r)}
  PROVE  IndexInv'
<1>1. PICK to : to = NextOf(r)
  OBVIOUS
<1>2. IndexTypes /\ SafeInv
  BY SafePart DEF IndexInv
<1>3. /\ height \in Nat /\ trades \subseteq Swaps /\ Swaps \subseteq Txs
      /\ poll \in [Polls -> PollType] /\ Cardinality(trades) \in Nat
      /\ pollFaults \in Nat /\ MaxPollFaults \in Nat /\ IsFiniteSet(trades)
  BY <1>2, TypeFacts
<1>4. r \in PollType /\ PollOK(r, height, trades, candles)
  BY <1>3 DEF IndexInv, PollsOK
<1>5. /\ to \in PollType /\ to.pc \in {"idle", "tx"}
      /\ to.pc # "idle" => TxOf(to) = TxOf(r) + 1
      /\ \A tr : PollOK(r, height, tr, candles) => PollOK(to, height, tr, candles)
  BY <1>1, <1>4, NextFacts
<1>6. ~Updates(to) /\ ~HasRead(to)
  BY <1>5 DEF Updates, HasRead
<1>7. r.sigs # <<>> /\ TxOf(r) \in Txs /\ TxOf(r) <= height /\ TxOf(r) \in 1..height
  <2>1. r.sigs # <<>> /\ \A k \in 1..Len(r.sigs) : r.sigs[k] <= height
    BY <1>4 DEF PollOK
  <2>2. TxOf(r) \in Txs /\ TxOf(r) = r.sigs[1] /\ TxOf(r) \in Nat \ {0}
    BY <1>4, <2>1, TxOfType
  <2>3. 1 \in 1..Len(r.sigs)
    BY <1>4, <2>1 DEF PollType
  <2> QED
    BY <1>3, <2>1, <2>2, <2>3
<1>8. /\ trades \subseteq trades' /\ trades' \in SUBSET (Swaps \cap 1..height)
      /\ Cardinality(trades') \in Nat
      /\ Cardinality(trades') <= Cardinality(trades) + 1
      /\ pollFaults' = pollFaults => trades' = trades
  <2>1. trades \in SUBSET (Swaps \cap 1..height)
    BY <1>2 DEF IndexTypes
  <2>2. CASE trades' = trades
    BY <1>3, <2>1, <2>2
  <2>3. CASE r.pc = "insert" /\ trades' = trades \cup {TxOf(r)} /\ pollFaults' # pollFaults
    <3>1. TxOf(r) \in Swaps
      BY <1>4, <2>3 DEF PollOK
    <3>2. PICK x : x = TxOf(r)
      OBVIOUS
    <3>3. Cardinality(trades \cup {x}) = IF x \in trades THEN Cardinality(trades)
                                        ELSE Cardinality(trades) + 1
      BY <1>3, FS_AddElement
    <3> QED
      BY <1>3, <1>7, <2>1, <2>3, <3>1, <3>2, <3>3
  <2> QED
    BY <1>3, <2>2, <2>3
<1>9. \A tf : ~Pending(to, tf) /\ ~Pending(r, tf)
  BY <1>6 DEF Pending
<1>10. SafeInv'
  <2>1. PollOK(r, height, trades', candles)
    <3>0. PICK tr2 : tr2 = trades'
      OBVIOUS
    <3>1. PICK h \in Int : h = height
      BY <1>3
    <3>2. PollOK(r, h, trades, candles) /\ trades \subseteq tr2 /\ h <= h
      BY <1>4, <1>8, <3>0, <3>1
    <3>3. PollOK(r, h, tr2, candles)
      BY <1>4, <3>2, PollOKKept
    <3> QED
      BY <3>0, <3>1, <3>3
  <2>2. PollOK(to, height, trades', candles)
    <3>1. PICK tr2 : tr2 = trades'
      OBVIOUS
    <3> QED
      BY <1>5, <2>1, <3>1
  <2>3. pollFaults' \in 0..MaxPollFaults /\ overlapped' \in BOOLEAN /\ strayed' \in BOOLEAN
    BY <1>2, <1>3 DEF IndexTypes
  <2> QED
    BY <1>1, <1>2, <1>5, <1>6, <1>8, <1>9, <2>2, <2>3, SafeMove
<1>11. ASSUME ~overlapped'
       PROVE  Calm(trades', candles', poll', pollFaults')
  <2>1. ~overlapped /\ \A q \in Polls \ {p} : poll[q].pc = "idle"
    BY <1>11, AloneUnlessOverlapped
  <2>2. pollFaults' \in Nat /\ UNCHANGED candles
    BY <1>3
  <2>3. \A tf \in Timeframes :
          Cardinality(trades') + pollFaults + (IF Pending(r, tf) THEN 1 ELSE 0)
            <= Cardinality(trades) + pollFaults' + (IF Pending(to, tf) THEN 1 ELSE 0)
    BY <1>3, <1>8, <1>9
  <2> QED
    BY <1>1, <1>5, <1>6, <1>8, <2>1, <2>2, <2>3, CalmMove
<1>12. ASSUME ~overlapped', pollFaults' = 0
       PROVE  Exact(height', trades', candles', poll', strayed')
  <2>1. ~overlapped /\ \A q \in Polls \ {p} : poll[q].pc = "idle"
    BY <1>12, AloneUnlessOverlapped
  <2>2. pollFaults = 0 /\ pollFaults' = pollFaults
    BY <1>3, <1>12
  <2>3. trades' = trades /\ (TxOf(r) \in Swaps => TxOf(r) \in trades)
    BY <2>2
  <2>4. ~strayed' => InOrder(height, trades', poll')
    BY <2>1, <2>2, <2>3, NextInOrder
  <2>5. \A i : \A tf \in Timeframes : (i \in trades' /\ (Pending(to, tf) => i # TxOf(to)))
                     <=> (i \in trades /\ (Pending(r, tf) => i # TxOf(r)))
    BY <1>9, <2>3
  <2>6. to.pc # "write"
    BY <1>5
  <2> QED
    BY <1>1, <1>5, <2>1, <2>2, <2>4, <2>5, <2>6, ExactMove, ZenonT(60)
<1> QED
  BY <1>10, <1>11, <1>12, FromParts

LEMMA NextTxIs ==
  ASSUME NEW p \in Polls, NEW r, r = poll[p], NextTx(p)
  PROVE  poll' = [poll EXCEPT ![p] = NextOf(r)]
  BY DEF NextTx, PollGoes, NextOf

\* From one request to the next for the same transaction.
LEMMA StepInOrder ==
  ASSUME IndexInv, ~overlapped, ~strayed, pollFaults = 0, NEW p \in Polls, NEW r, r = poll[p],
         r.pc # "idle", \A q \in Polls \ {p} : poll[q].pc = "idle",
         NEW to \in PollType, to.pc # "idle", TxOf(to) = TxOf(r),
         Updates(to) => Updates(r),
         poll' = [poll EXCEPT ![p] = to]
  PROVE  InOrder(height, trades, poll')
<1>1. poll \in [Polls -> PollType]
  BY TypeFacts DEF IndexInv
<1>2. PICK pl2 : pl2 = poll'
  OBVIOUS
<1>3. pl2 \in [Polls -> PollType] /\ pl2[p] = to
      /\ \A q \in Polls \ {p} : pl2[q].pc = "idle"
  BY <1>1, <1>2
<1>4. InOrder(height, trades, poll)
  BY DEF IndexInv, Exact
<1>5. /\ \A i \in Swaps, j \in trades :
           /\ i < j
           /\ \/ i > height - SIG_LIMIT
              \/ r.pc # "idle" /\ TxOf(r) <= i
           => i \in trades
      /\ \A i \in Swaps : i < TxOf(r) /\ i > height - SIG_LIMIT => i \in trades
      /\ Updates(r) => \A j \in trades : j <= TxOf(r)
  BY <1>1, <1>4, AloneInOrder
<1>6. InOrder(height, trades, pl2)
  BY <1>3, <1>5, AloneInOrder
<1> QED
  BY <1>2, <1>6

LEMMA ReadTxKeeps ==
  ASSUME IndexInv, NEW p \in Polls, ReadTx(p)
  PROVE  IndexInv'
<1>1. PICK r : r = poll[p]
  OBVIOUS
<1>2. /\ r.pc = "tx" /\ UNCHANGED <<height, trades, candles, overlapped, strayed>>
      /\ \/ TxOf(r) \in Swaps /\ poll' = [poll EXCEPT ![p] = [r EXCEPT !.pc = "insert"]]
            /\ UNCHANGED pollFaults
         \/ TxOf(r) \notin Swaps /\ NextTx(p) /\ UNCHANGED pollFaults
         \/ NextTx(p) /\ PollFails
  BY <1>1 DEF ReadTx, At, PollGoes, tables, past, IsSwap, tx, TxOf
<1>3. ~Updates(r) /\ ~HasRead(r)
  BY <1>2 DEF Updates, HasRead
<1>4. CASE TxOf(r) \notin Swaps /\ NextTx(p) /\ UNCHANGED pollFaults
  BY <1>1, <1>2, <1>3, <1>4, NextTxIs, NextKeeps
<1>5. CASE NextTx(p) /\ PollFails
  BY <1>1, <1>2, <1>3, <1>5, NextTxIs, NextKeeps DEF PollFails
<1>6. CASE TxOf(r) \in Swaps /\ poll' = [poll EXCEPT ![p] = [r EXCEPT !.pc = "insert"]]
           /\ UNCHANGED pollFaults
  <2>1. IndexTypes /\ SafeInv /\ poll \in [Polls -> PollType] /\ Cardinality(trades) \in Nat
        /\ pollFaults \in Nat /\ trades \in SUBSET (Swaps \cap 1..height)
    BY SafePart, TypeFacts DEF IndexInv, IndexTypes
  <2>2. r \in PollType /\ PollOK(r, height, trades, candles)
    BY <1>1, <2>1 DEF IndexInv, PollsOK
  <2>3. PICK to : to = [r EXCEPT !.pc = "insert"]
    OBVIOUS
  <2>4. /\ to \in PollType /\ to.pc = "insert" /\ to.sigs = r.sigs /\ to.row = r.row
        /\ TxOf(to) = TxOf(r)
    BY <2>2, <2>3 DEF PollType, TxOf
  <2>5. ~Updates(to) /\ ~HasRead(to)
    BY <2>4 DEF Updates, HasRead
  <2>6. PollOK(to, height, trades, candles)
    BY <1>2, <1>6, <2>2, <2>4, <2>5 DEF PollOK
  <2>7. \A tf : ~Pending(to, tf) /\ ~Pending(r, tf)
    BY <1>3, <2>5 DEF Pending
  <2>8. /\ trades' = trades /\ candles' = candles /\ height' = height
        /\ pollFaults' = pollFaults /\ overlapped' = overlapped
        /\ strayed' = strayed
    BY <1>2, <1>6
  <2>9. SafeInv'
    <3>1. /\ trades \subseteq trades' /\ trades' \in SUBSET (Swaps \cap 1..height)
          /\ pollFaults' \in 0..MaxPollFaults /\ overlapped' \in BOOLEAN /\ strayed' \in BOOLEAN
          /\ PollOK(to, height, trades', candles)
      BY <2>1, <2>6, <2>8 DEF IndexTypes
    <3> QED
      BY <1>1, <1>6, <2>1, <2>3, <2>4, <2>5, <2>7, <2>8, <3>1, SafeMove
  <2>10. ASSUME ~overlapped'
         PROVE  Calm(trades', candles', poll', pollFaults')
    <3>1. ~overlapped /\ \A q \in Polls \ {p} : poll[q].pc = "idle"
      BY <1>1, <1>2, <2>8, <2>10, AloneUnlessOverlapped
    <3>2. \A tf \in Timeframes :
            Cardinality(trades') + pollFaults + (IF Pending(r, tf) THEN 1 ELSE 0)
              <= Cardinality(trades) + pollFaults' + (IF Pending(to, tf) THEN 1 ELSE 0)
      BY <2>1, <2>7, <2>8
    <3>3. Cardinality(trades') \in Nat /\ pollFaults' \in Nat
      BY <2>1, <2>8
    <3> QED
      BY <1>1, <1>6, <2>3, <2>4, <2>5, <2>8, <3>1, <3>2, <3>3, CalmMove
  <2>11. ASSUME ~overlapped', pollFaults' = 0
         PROVE  Exact(height', trades', candles', poll', strayed')
    <3>1. ~overlapped /\ pollFaults = 0 /\ \A q \in Polls \ {p} : poll[q].pc = "idle"
      BY <1>1, <1>2, <2>8, <2>11, AloneUnlessOverlapped
    <3>2. ASSUME ~strayed'
          PROVE  InOrder(height, trades', poll')
      <4>1. ~strayed
        BY <2>8, <3>2
      <4>2. poll' = [poll EXCEPT ![p] = to]
        BY <1>6, <2>3
      <4>3. InOrder(height, trades, poll')
        BY <1>1, <1>2, <2>4, <2>5, <3>1, <4>1, <4>2, StepInOrder
      <4> QED
        BY <2>8, <4>3
    <3>3. \A i : \A tf \in Timeframes : (i \in trades' /\ (Pending(to, tf) => i # TxOf(to)))
                       <=> (i \in trades /\ (Pending(r, tf) => i # TxOf(r)))
      BY <2>7, <2>8
    <3>4. to.pc # "write"
      BY <2>4
    <3> QED
      BY <1>1, <1>6, <2>3, <2>4, <2>8, <3>1, <3>2, <3>3, <3>4, ExactMove, ZenonT(60)
  <2> QED
    BY <2>9, <2>10, <2>11, FromParts
<1> QED
  BY <1>2, <1>4, <1>5, <1>6

-----------------------------------------------------------------------------
LEMMA InsertTradeKeeps ==
  ASSUME IndexInv, NEW p \in Polls, InsertTrade(p)
  PROVE  IndexInv'
<1>1. PICK r : r = poll[p]
  OBVIOUS
<1>2. /\ r.pc = "insert" /\ UNCHANGED <<height, candles, overlapped, strayed>>
      /\ \/ TxOf(r) \in trades /\ NextTx(p) /\ UNCHANGED <<trades, pollFaults>>
         \/ /\ TxOf(r) \notin trades /\ trades' = trades \cup {TxOf(r)}
            /\ \/ /\ UNCHANGED pollFaults
                  /\ poll' = [poll EXCEPT ![p] = [r EXCEPT !.pc = "read",
                                                           !.left = Timeframes]]
               \/ NextTx(p) /\ PollFails
         \/ NextTx(p) /\ PollFails /\ UNCHANGED trades
  BY <1>1 DEF InsertTrade, At, PollGoes, past, Known, tx, TxOf
<1>3. ~Updates(r) /\ ~HasRead(r)
  BY <1>2 DEF Updates, HasRead
<1>4. CASE TxOf(r) \in trades /\ NextTx(p) /\ UNCHANGED <<trades, pollFaults>>
  BY <1>1, <1>2, <1>3, <1>4, NextTxIs, NextKeeps
<1>5. CASE /\ NextTx(p) /\ PollFails
           /\ trades' = trades \/ trades' = trades \cup {TxOf(r)}
  BY <1>1, <1>2, <1>3, <1>5, NextTxIs, NextKeeps DEF PollFails
<1>6. CASE /\ TxOf(r) \notin trades /\ trades' = trades \cup {TxOf(r)}
           /\ UNCHANGED pollFaults
           /\ poll' = [poll EXCEPT ![p] = [r EXCEPT !.pc = "read", !.left = Timeframes]]
  <2>1. /\ IndexTypes /\ SafeInv /\ poll \in [Polls -> PollType]
        /\ Cardinality(trades) \in Nat /\ IsFiniteSet(trades) /\ height \in Nat
        /\ pollFaults \in Nat /\ trades \in SUBSET (Swaps \cap 1..height)
        /\ Swaps \subseteq Txs /\ trades \subseteq Txs
    BY SafePart, TypeFacts DEF IndexInv, IndexTypes
  <2>2. r \in PollType /\ PollOK(r, height, trades, candles)
    BY <1>1, <2>1 DEF IndexInv, PollsOK
  <2>3. PICK to : to = [r EXCEPT !.pc = "read", !.left = Timeframes]
    OBVIOUS
  <2>4. /\ to \in PollType /\ to.pc = "read" /\ to.sigs = r.sigs /\ to.row = r.row
        /\ to.left = Timeframes /\ TxOf(to) = TxOf(r)
    BY <2>2, <2>3 DEF PollType, TxOf
  <2>5. Updates(to) /\ ~HasRead(to)
    BY <2>4 DEF Updates, HasRead
  <2>6. PICK x : x = TxOf(r)
    OBVIOUS
  <2>7. r.sigs # <<>> /\ \A k \in 1..Len(r.sigs) : r.sigs[k] <= height
    BY <1>2, <2>2 DEF PollOK
  <2>8. x \in Txs /\ x = r.sigs[1] /\ x \in Nat \ {0} /\ x \in Swaps /\ x <= height
    <3>1. x \in Txs /\ x = r.sigs[1] /\ x \in Nat \ {0}
      BY <2>2, <2>6, <2>7, TxOfType
    <3>2. 1 \in 1..Len(r.sigs)
      BY <2>2, <2>7 DEF PollType
    <3> QED
      BY <1>2, <2>2, <2>6, <2>7, <3>1, <3>2 DEF PollOK
  <2>9. PICK tr2 : tr2 = trades \cup {x}
    OBVIOUS
  <2>10. trades' = tr2 /\ x \notin trades /\ Cardinality(tr2) = Cardinality(trades) + 1
    BY <1>6, <2>1, <2>6, <2>9, FS_AddElement
  <2>11. PollOK(to, height, tr2, candles)
    <3>1. Timeframes # {}
      BY IndexerAssumption
    <3> QED
      BY <1>2, <2>2, <2>4, <2>5, <2>6, <2>8, <2>9, <3>1 DEF PollOK
  <2>12. \A tf \in Timeframes : Pending(to, tf) /\ ~Pending(r, tf)
    BY <1>3, <2>4, <2>5 DEF Pending
  <2>13. SafeInv'
    <3>0. tr2 \in SUBSET (Swaps \cap 1..height)
      <4>1. x \in 1..height
        BY <2>1, <2>8
      <4> QED
        BY <2>1, <2>8, <2>9, <4>1
    <3>1. /\ trades \subseteq trades' /\ trades' \in SUBSET (Swaps \cap 1..height)
          /\ pollFaults' \in 0..MaxPollFaults /\ overlapped' \in BOOLEAN /\ strayed' \in BOOLEAN
          /\ PollOK(to, height, trades', candles)
      BY <1>2, <1>6, <2>1, <2>9, <2>10, <2>11, <3>0 DEF IndexTypes
    <3>2. TxOf(to) \in Txs \ trades
      BY <2>4, <2>6, <2>8, <2>10
    <3> QED
      BY <1>1, <1>2, <1>6, <2>1, <2>3, <2>4, <2>5, <3>1, <3>2, SafeMove
  <2>14. ASSUME ~overlapped'
         PROVE  Calm(trades', candles', poll', pollFaults')
    <3>1. ~overlapped /\ \A q \in Polls \ {p} : poll[q].pc = "idle"
      BY <1>1, <1>2, <2>14, AloneUnlessOverlapped
    <3>2. \A tf \in Timeframes :
            Cardinality(trades') + pollFaults + (IF Pending(r, tf) THEN 1 ELSE 0)
              <= Cardinality(trades) + pollFaults' + (IF Pending(to, tf) THEN 1 ELSE 0)
      <4>1. /\ Cardinality(trades') = Cardinality(trades) + 1
            /\ pollFaults' = pollFaults
        BY <1>6, <2>10
      <4> QED
        BY <2>1, <2>12, <4>1
    <3>3. Cardinality(trades') \in Nat /\ pollFaults' \in Nat /\ UNCHANGED candles
      <4>1. UNCHANGED candles
        BY <1>2
      <4>2. pollFaults' = pollFaults /\ Cardinality(trades') = Cardinality(trades) + 1
        BY <1>6, <2>10
      <4> QED
        BY <2>1, <4>1, <4>2
    <3> QED
      BY <1>1, <1>6, <2>3, <2>4, <2>5, <3>1, <3>2, <3>3, CalmMove
  <2>15. ASSUME ~overlapped', pollFaults' = 0
         PROVE  Exact(height', trades', candles', poll', strayed')
    <3>1. ~overlapped /\ pollFaults = 0 /\ \A q \in Polls \ {p} : poll[q].pc = "idle"
      BY <1>1, <1>2, <1>6, <2>15, AloneUnlessOverlapped
    <3>2. PICK pl2 : pl2 = poll'
      OBVIOUS
    <3>3. pl2 \in [Polls -> PollType] /\ pl2[p] = to
          /\ \A q \in Polls \ {p} : pl2[q].pc = "idle"
      BY <1>6, <2>1, <2>3, <2>4, <3>1, <3>2
    <3>11. ASSUME ~strayed'
           PROVE  InOrder(height, trades', poll')
      <4>4. InOrder(height, trades, poll)
        BY <1>2, <3>1, <3>11 DEF IndexInv, Exact
      <4>5. /\ \A i \in Swaps, j \in trades :
                 i < j /\ (i > height - SIG_LIMIT \/ x <= i) => i \in trades
            /\ \A i \in Swaps : i < x /\ i > height - SIG_LIMIT => i \in trades
        BY <1>1, <1>2, <2>1, <2>6, <3>1, <4>4, AloneInOrder
      <4>6. \A i \in Txs : i \in Nat
        BY TxsAreNat
      <4>7. \A j \in tr2 : j <= x
        <5> SUFFICES ASSUME NEW j \in trades, j > x
                     PROVE  FALSE
          <6>1. \A j \in trades : j \in Nat /\ (j <= x \/ j > x)
            BY <2>1, <2>8, <4>6
          <6> QED
            BY <2>8, <2>9, <6>1
        <5>1. x \in trades
          BY <2>8, <4>5
        <5> QED
          BY <2>10, <5>1
      <4>8. \A i \in Swaps, j \in tr2 :
              i < j /\ (i > height - SIG_LIMIT \/ (to.pc # "idle" /\ x <= i)) => i \in tr2
        <5> SUFFICES ASSUME NEW i \in Swaps, NEW j \in tr2, i < j,
                            i > height - SIG_LIMIT \/ x <= i
                     PROVE  i \in tr2
          OBVIOUS
        <5>1. CASE j \in trades
          BY <2>9, <4>5, <5>1
        <5>2. CASE j = x
          <6>1. i \in Nat /\ x \in Nat
            BY <2>1, <2>8, <4>6
          <6> QED
            BY <2>9, <4>5, <5>2, <6>1
        <5> QED
          BY <2>9, <5>1, <5>2
      <4>9. \A i \in Swaps : i < x /\ i > height - SIG_LIMIT => i \in tr2
        BY <2>9, <4>5
      <4>10. InOrder(height, tr2, pl2)
        <5>1. TxOf(to) = x /\ to.pc # "idle"
          BY <2>4, <2>6
        <5>2. /\ \A i \in Swaps, j \in tr2 :
                   i < j /\ (i > height - SIG_LIMIT \/ (to.pc # "idle" /\ TxOf(to) <= i))
                     => i \in tr2
              /\ \A i \in Swaps : i < TxOf(to) /\ i > height - SIG_LIMIT => i \in tr2
              /\ \A j \in tr2 : j <= TxOf(to)
          BY <4>7, <4>8, <4>9, <5>1
        <5> QED
          BY <3>3, <5>2, AloneInOrder
      <4> QED
        BY <2>10, <3>2, <4>10
    <3>12. \A i : \A tf \in Timeframes : (i \in trades' /\ (Pending(to, tf) => i # TxOf(to)))
                       <=> (i \in trades /\ (Pending(r, tf) => i # TxOf(r)))
      BY <2>4, <2>6, <2>9, <2>10, <2>12
    <3>13. to.pc # "write" /\ UNCHANGED <<height, candles, strayed>>
      BY <1>2, <2>4
    <3>14. poll' = [poll EXCEPT ![p] = to] /\ pollFaults' = pollFaults
      BY <1>6, <2>3
    <3> QED
      BY <1>1, <3>14, <2>3, <2>4, <3>1, <3>11, <3>12, <3>13, ExactMove, ZenonT(60)
  <2> QED
    BY <2>13, <2>14, <2>15, FromParts
<1> QED
  BY <1>2, <1>4, <1>5, <1>6

\* From the read to the write of a candle.
LEMMA ReadMoves ==
  ASSUME IndexInv, NEW p \in Polls, NEW r, r = poll[p], r.pc = "read",
         NEW to \in PollType, to.pc = "write", to.sigs = r.sigs, to.left = r.left,
         poll' = [poll EXCEPT ![p] = to],
         UNCHANGED <<height, trades, candles, overlapped, strayed>>,
         \/ to.row = NoCandle
         \/ /\ to.row \in BucketRows(candles, Frame(r), BucketOf(r))
            /\ to.read = candles[to.row],
         \/ /\ pollFaults' = pollFaults
            /\ to.row = NoCandle => BucketRows(candles, Frame(r), BucketOf(r)) = {}
         \/ pollFaults' = pollFaults + 1 /\ pollFaults < MaxPollFaults
  PROVE  IndexInv'
<1>1. /\ IndexTypes /\ SafeInv /\ poll \in [Polls -> PollType]
      /\ Cardinality(trades) \in Nat /\ candles \in Seq(CandleType)
      /\ pollFaults \in Nat /\ MaxPollFaults \in Nat
      /\ trades \in SUBSET (Swaps \cap 1..height)
  BY SafePart, TypeFacts DEF IndexInv, IndexTypes
<1>2. r \in PollType /\ PollOK(r, height, trades, candles)
  BY <1>1 DEF IndexInv, PollsOK
<1>3. TxOf(to) = TxOf(r) /\ Frame(to) = Frame(r) /\ BucketOf(to) = BucketOf(r)
  BY DEF TxOf, Frame, BucketOf
<1>4. /\ Updates(to) /\ Updates(r)
      /\ \A tf : Pending(to, tf) <=> Pending(r, tf)
  BY DEF Updates, Pending
<1>5. HasRead(to) => to.row \in BucketRows(candles, Frame(r), BucketOf(r))
                     /\ to.read = candles[to.row]
  BY DEF HasRead
<1>6. PollOK(to, height, trades, candles)
  <2>1. ASSUME HasRead(to)
        PROVE  /\ to.row \in DOMAIN candles /\ IsFor(candles[to.row], to)
               /\ to.read \in CandleType /\ Traded(to.read, trades) /\ IsFor(to.read, to)
    <3>1. to.row \in DOMAIN candles /\ IsFor(candles[to.row], to)
      BY <1>3, <1>5, <2>1 DEF BucketRows, IsFor
    <3>2. candles[to.row] \in CandleType /\ Traded(candles[to.row], trades)
      BY <1>1, <3>1 DEF IndexTypes
    <3> QED
      BY <1>5, <2>1, <3>1, <3>2
  <2> QED
    BY <1>2, <1>3, <1>4, <2>1 DEF PollOK
<1>7. pollFaults' \in 0..MaxPollFaults /\ pollFaults' \in Nat /\ pollFaults' >= pollFaults
  BY <1>1 DEF IndexTypes
<1>8. SafeInv'
  <2>1. /\ trades \subseteq trades' /\ trades' \in SUBSET (Swaps \cap 1..height)
        /\ overlapped' \in BOOLEAN /\ strayed' \in BOOLEAN /\ PollOK(to, height, trades', candles)
    BY <1>1, <1>6 DEF IndexTypes
  <2> QED
    BY <1>1, <1>3, <1>4, <1>5, <1>7, <2>1, SafeMove
<1>9. ASSUME ~overlapped'
      PROVE  Calm(trades', candles', poll', pollFaults')
  <2>1. ~overlapped /\ \A q \in Polls \ {p} : poll[q].pc = "idle"
    BY <1>9, AloneUnlessOverlapped
  <2>2. \A tf \in Timeframes :
          Cardinality(trades') + pollFaults + (IF Pending(r, tf) THEN 1 ELSE 0)
            <= Cardinality(trades) + pollFaults' + (IF Pending(to, tf) THEN 1 ELSE 0)
    BY <1>1, <1>4, <1>7
  <2>3. Cardinality(trades') \in Nat /\ UNCHANGED candles
    BY <1>1
  <2> QED
    BY <1>5, <1>7, <2>1, <2>2, <2>3, CalmMove
<1>10. ASSUME ~overlapped', pollFaults' = 0
       PROVE  Exact(height', trades', candles', poll', strayed')
  <2>1. ~overlapped /\ \A q \in Polls \ {p} : poll[q].pc = "idle"
    BY <1>10, AloneUnlessOverlapped
  <2>2. pollFaults = 0 /\ (to.row = NoCandle => BucketRows(candles, Frame(r), BucketOf(r)) = {})
    BY <1>1, <1>7, <1>10
  <2>3. ~strayed' => InOrder(height, trades', poll')
    <3>1. ~strayed => InOrder(height, trades, poll')
      BY <1>3, <1>4, <2>1, <2>2, StepInOrder
    <3> QED
      BY <3>1
  <2>4. \A i : \A tf \in Timeframes : (i \in trades' /\ (Pending(to, tf) => i # TxOf(to)))
                   <=> (i \in trades /\ (Pending(r, tf) => i # TxOf(r)))
    BY <1>3, <1>4
  <2> QED
    BY <1>3, <2>1, <2>2, <2>3, <2>4, ExactMove, ZenonT(60)
<1> QED
  BY <1>8, <1>9, <1>10, FromParts

LEMMA ReadCandleKeeps ==
  ASSUME IndexInv, NEW p \in Polls, ReadCandle(p)
  PROVE  IndexInv'
<1>1. PICK r, R : r = poll[p] /\ R = BucketRows(candles, Frame(r), BucketOf(r))
  OBVIOUS
<1>2. FoundRows(p) = R
  BY <1>1 DEF FoundRows, timeframe, tx, TxOf, Frame, BucketOf, BucketRows
<1>3. /\ r.pc = "read" /\ UNCHANGED <<height, trades, candles, overlapped, strayed>>
      /\ \/ /\ UNCHANGED pollFaults
            /\ \E id \in R : poll' = [poll EXCEPT ![p] =
                 [r EXCEPT !.pc = "write", !.row = id, !.read = candles[id]]]
         \/ /\ IF R = {} THEN UNCHANGED pollFaults ELSE PollFails
            /\ poll' = [poll EXCEPT ![p] = [r EXCEPT !.pc = "write"]]
  BY <1>1, <1>2 DEF ReadCandle, At, PollGoes, tables, past
<1>4. poll \in [Polls -> PollType] /\ candles \in Seq(CandleType)
  BY TypeFacts DEF IndexInv
<1>5. r \in PollType /\ PollOK(r, height, trades, candles)
  BY <1>1, <1>4 DEF IndexInv, PollsOK
<1>6. CASE /\ UNCHANGED pollFaults
           /\ \E id \in R : poll' = [poll EXCEPT ![p] =
                [r EXCEPT !.pc = "write", !.row = id, !.read = candles[id]]]
  <2>1. PICK id \in R : poll' = [poll EXCEPT ![p] =
                [r EXCEPT !.pc = "write", !.row = id, !.read = candles[id]]]
    BY <1>6
  <2>2. id \in DOMAIN candles /\ id \in Nat \ {0} /\ candles[id] \in CandleType
    BY <1>1, <1>4 DEF BucketRows
  <2>3. PICK c : c = candles[id]
    OBVIOUS
  <2>4. PICK to : to = [r EXCEPT !.pc = "write", !.row = id, !.read = c]
    OBVIOUS
  <2>5. /\ to \in PollType /\ to.pc = "write" /\ to.sigs = r.sigs /\ to.left = r.left
        /\ to.row = id /\ to.read = c
    BY <1>5, <2>2, <2>3, <2>4 DEF PollType
  <2>6. to.row # NoCandle
    BY <2>2, <2>5 DEF NoCandle
  <2>7. poll' = [poll EXCEPT ![p] = to]
    BY <2>1, <2>3, <2>4
  <2>8. /\ to.row \in BucketRows(candles, Frame(r), BucketOf(r))
        /\ to.read = candles[to.row]
    BY <1>1, <2>3, <2>5
  <2>9. pollFaults' = pollFaults
    BY <1>6
  <2> QED
    BY <1>1, <1>3, <2>5, <2>6, <2>7, <2>8, <2>9, ReadMoves, ZenonT(60)
<1>7. CASE /\ IF R = {} THEN UNCHANGED pollFaults ELSE PollFails
           /\ poll' = [poll EXCEPT ![p] = [r EXCEPT !.pc = "write"]]
  <2>1. PICK to : to = [r EXCEPT !.pc = "write"]
    OBVIOUS
  <2>2. /\ to \in PollType /\ to.pc = "write" /\ to.sigs = r.sigs /\ to.left = r.left
        /\ to.row = r.row
    BY <1>5, <2>1 DEF PollType
  <2>3. to.row = NoCandle
    BY <1>3, <1>5, <2>2 DEF PollOK
  <2>4. \/ /\ pollFaults' = pollFaults
           /\ to.row = NoCandle => R = {}
        \/ pollFaults' = pollFaults + 1 /\ pollFaults < MaxPollFaults
    BY <1>7 DEF PollFails
  <2>5. poll' = [poll EXCEPT ![p] = to]
    BY <1>7, <2>1
  <2> QED
    BY <1>1, <1>3, <2>2, <2>3, <2>4, <2>5, ReadMoves, ZenonT(60)
<1> QED
  BY <1>3, <1>6, <1>7

-----------------------------------------------------------------------------
\* NewCandle, Updated and Written of a poll r that has the rows cs before it.
NewOf(r) ==
  [timeframe |-> Frame(r), bucket |-> BucketOf(r), open |-> Price[TxOf(r)],
   high |-> Price[TxOf(r)], low |-> Price[TxOf(r)], close |-> Price[TxOf(r)],
   count |-> 1]

UpdatedOf(r) ==
  [r.read EXCEPT !.high = Max({@, Price[TxOf(r)]}), !.low = Min({@, Price[TxOf(r)]}),
                 !.close = Price[TxOf(r)], !.count = @ + 1]

WrittenOf(cs, r) ==
  IF r.row = NoCandle THEN Append(cs, NewOf(r))
  ELSE [cs EXCEPT ![r.row] = UpdatedOf(r)]

RowOf(cs, r) == IF r.row = NoCandle THEN Len(cs) + 1 ELSE r.row

LEMMA WrittenIs ==
  ASSUME NEW p \in Polls, NEW r, r = poll[p]
  PROVE  Written(p) = WrittenOf(candles, r)
<1>1. NewCandle(p) = NewOf(r)
  BY DEF NewCandle, NewOf, timeframe, Frame, BucketOf, TxOf, tx
<1>2. Updated(p) = UpdatedOf(r)
  BY DEF Updated, UpdatedOf, TxOf, tx
<1> QED
  BY <1>1, <1>2 DEF Written, WrittenOf

\* The new row is one of the trades that are stored.
LEMMA NewOfType ==
  ASSUME NEW r \in PollType, NEW tr, NEW x \in tr, x = TxOf(r), x \in Txs,
         r.left # {}, NEW c, c = NewOf(r)
  PROVE  c \in CandleType /\ Traded(c, tr) /\ IsFor(c, r)
<1>1. Frame(r) \in Timeframes
  BY FrameIn
<1>2. Price[x] \in Int /\ BucketOf(r) \in Nat
  <2>1. BucketOf(r) \in Nat
    BY <1>1, BucketType DEF BucketOf
  <2> QED
    BY <2>1, IndexerAssumption DEF Txs
<1>3. c = [timeframe |-> Frame(r), bucket |-> BucketOf(r), open |-> Price[x],
           high |-> Price[x], low |-> Price[x], close |-> Price[x], count |-> 1]
  BY DEF NewOf
<1>4. 1 \in Nat \ {0}
  OBVIOUS
<1>5. c \in CandleType
  BY <1>1, <1>2, <1>3, <1>4 DEF CandleType
<1>6. PricesOf(c) = {Price[x]}
  BY <1>3 DEF PricesOf
<1> QED
  BY <1>3, <1>5, <1>6 DEF Traded, IsFor

LEMMA UpdatedOfSays ==
  ASSUME NEW r, r.read \in CandleType, NEW c, c = UpdatedOf(r)
  PROVE  /\ c.high = Max({r.read.high, Price[TxOf(r)]})
         /\ c.low = Min({r.read.low, Price[TxOf(r)]})
         /\ c.open = r.read.open /\ c.close = Price[TxOf(r)]
         /\ c.timeframe = r.read.timeframe /\ c.bucket = r.read.bucket
         /\ c.count = r.read.count + 1
<1>1. PICK d \in CandleType : d = r.read
  OBVIOUS
<1>2. PICK hi, lo, v, n : /\ hi = Max({d.high, Price[TxOf(r)]})
                          /\ lo = Min({d.low, Price[TxOf(r)]})
                          /\ v = Price[TxOf(r)] /\ n = d.count + 1
  OBVIOUS
<1>3. c = [d EXCEPT !.high = hi, !.low = lo, !.close = v, !.count = n]
  BY <1>1, <1>2 DEF UpdatedOf
<1>4. /\ c.high = hi /\ c.low = lo /\ c.open = d.open /\ c.close = v
      /\ c.timeframe = d.timeframe /\ c.bucket = d.bucket /\ c.count = n
  BY <1>3 DEF CandleType
<1> QED
  BY <1>1, <1>2, <1>4

LEMMA UpdatedOfType ==
  ASSUME NEW r, NEW tr, TxOf(r) \in tr, TxOf(r) \in Txs,
         r.read \in CandleType, Traded(r.read, tr), IsFor(r.read, r),
         NEW c, c = UpdatedOf(r)
  PROVE  c \in CandleType /\ Traded(c, tr) /\ IsFor(c, r)
<1>1. PICK d \in CandleType : d = r.read
  OBVIOUS
<1>2. /\ d.high \in Int /\ d.low \in Int /\ d.open \in Int /\ d.close \in Int
      /\ d.count \in Nat \ {0}
  BY DEF CandleType
<1>3. PICK v \in Int : v = Price[TxOf(r)]
  BY IndexerAssumption DEF Txs
<1>4. PICK hi, lo : hi = Max({d.high, v}) /\ lo = Min({d.low, v})
  OBVIOUS
<1>5. hi \in {d.high, v} /\ lo \in {d.low, v} /\ hi \in Int /\ lo \in Int
  BY <1>2, <1>4, MaxOfTwo, MinOfTwoInts
<1>6. PICK n \in Nat \ {0} : n = d.count + 1
  BY <1>2
<1>7. c = [d EXCEPT !.high = hi, !.low = lo, !.close = v, !.count = n]
  BY <1>1, <1>3, <1>4, <1>6 DEF UpdatedOf
<1>8. c \in CandleType
  BY <1>5, <1>7 DEF CandleType
<1>9. /\ c.high = hi /\ c.low = lo /\ c.open = d.open /\ c.close = v
      /\ c.timeframe = d.timeframe /\ c.bucket = d.bucket
  BY <1>7 DEF CandleType
<1>10. PricesOf(c) \subseteq PricesOf(d) \cup {Price[TxOf(r)]}
  BY <1>3, <1>5, <1>9 DEF PricesOf
<1>11. Traded(c, tr)
  BY <1>1, <1>10 DEF Traded
<1> QED
  BY <1>1, <1>8, <1>9, <1>11 DEF IsFor

\* What a write does to the rows.
LEMMA WrittenFacts ==
  ASSUME NEW cs \in Seq(CandleType), NEW tr, \A id \in DOMAIN cs : Traded(cs[id], tr),
         NEW r \in PollType, NEW h, PollOK(r, h, tr, cs), r.pc = "write",
         TxOf(r) \in Txs, NEW cs2, cs2 = WrittenOf(cs, r), NEW id, id = RowOf(cs, r)
  PROVE  /\ cs2 \in Seq(CandleType) /\ \A j \in DOMAIN cs2 : Traded(cs2[j], tr)
         /\ id \in Nat \ {0} /\ id \in DOMAIN cs2 /\ Wrote(cs, cs2, id, r)
         /\ r.row = NoCandle => cs2[id] = NewOf(r)
         /\ r.row # NoCandle => cs2[id] = UpdatedOf(r) /\ HasRead(r) /\ id = r.row
<1>1. PICK x : x = TxOf(r)
  OBVIOUS
<1>2. x \in tr /\ x \in Txs /\ r.left # {}
  BY <1>1 DEF PollOK, Updates
<1>3. Len(cs) \in Nat /\ DOMAIN cs = 1..Len(cs)
  OBVIOUS
<1>4. CASE r.row = NoCandle
  <2>1. PICK c : c = NewOf(r)
    OBVIOUS
  <2>2. c \in CandleType /\ Traded(c, tr) /\ IsFor(c, r) /\ c.count = 1
    <3>1. c.count = 1
      BY <2>1 DEF NewOf
    <3> QED
      BY <1>1, <1>2, <2>1, <3>1, NewOfType
  <2>3. cs2 = Append(cs, c) /\ id = Len(cs) + 1
    BY <1>4, <2>1 DEF WrittenOf, RowOf
  <2>4. /\ cs2 \in Seq(CandleType) /\ Len(cs2) = Len(cs) + 1 /\ cs2[id] = c
        /\ \A j \in 1..Len(cs) : cs2[j] = cs[j]
    BY <2>2, <2>3, AppendProperties
  <2>5. DOMAIN cs2 = DOMAIN cs \cup {id} /\ id \notin DOMAIN cs /\ id \in Nat \ {0}
    BY <1>3, <2>3, <2>4
  <2>6. \A j \in DOMAIN cs2 : Traded(cs2[j], tr)
    BY <1>3, <2>2, <2>4, <2>5
  <2>7. Wrote(cs, cs2, id, r)
    BY <1>3, <2>2, <2>4, <2>5 DEF Wrote
  <2> QED
    BY <1>4, <2>1, <2>4, <2>5, <2>6, <2>7
<1>5. CASE r.row # NoCandle
  <2>1. PICK c : c = UpdatedOf(r)
    OBVIOUS
  <2>2. HasRead(r)
    BY <1>5 DEF HasRead
  <2>3. /\ r.row \in DOMAIN cs /\ IsFor(cs[r.row], r)
        /\ r.read \in CandleType /\ Traded(r.read, tr) /\ IsFor(r.read, r)
    BY <2>2 DEF PollOK
  <2>4. c \in CandleType /\ Traded(c, tr) /\ IsFor(c, r) /\ c.count = r.read.count + 1
    <3>1. c \in CandleType /\ Traded(c, tr) /\ IsFor(c, r)
      BY <1>1, <1>2, <2>1, <2>3, UpdatedOfType
    <3>2. c.count = r.read.count + 1
      BY <2>1, <2>3, UpdatedOfSays
    <3> QED
      BY <3>1, <3>2
  <2>5. cs2 = [cs EXCEPT ![id] = c] /\ id = r.row
    BY <1>5, <2>1 DEF WrittenOf, RowOf
  <2>6. /\ cs2 \in Seq(CandleType) /\ DOMAIN cs2 = DOMAIN cs /\ cs2[id] = c
        /\ \A j \in DOMAIN cs \ {id} : cs2[j] = cs[j]
    BY <2>3, <2>4, <2>5
  <2>7. id \in DOMAIN cs /\ id \in Nat \ {0}
    BY <1>3, <2>3, <2>5
  <2>8. \A j \in DOMAIN cs2 : Traded(cs2[j], tr)
    BY <2>4, <2>6
  <2>9. Wrote(cs, cs2, id, r)
    BY <2>2, <2>3, <2>4, <2>5, <2>6, <2>7, ZenonT(60) DEF Wrote
  <2> QED
    BY <1>5, <2>1, <2>2, <2>5, <2>6, <2>7, <2>8, <2>9
<1> QED
  BY <1>4, <1>5

LEMMA BucketRowsWritten ==
  ASSUME NEW cs, NEW cs2, NEW id, NEW r, Wrote(cs, cs2, id, r), NEW t, NEW b
  PROVE  /\ t = Frame(r) /\ b = BucketOf(r) =>
              BucketRows(cs2, t, b) = BucketRows(cs, t, b) \cup {id}
         /\ ~(t = Frame(r) /\ b = BucketOf(r)) =>
              /\ BucketRows(cs2, t, b) = BucketRows(cs, t, b)
              /\ \A j \in BucketRows(cs, t, b) : cs2[j] = cs[j]
<1>1. /\ DOMAIN cs2 = DOMAIN cs \cup {id}
      /\ cs2[id].timeframe = Frame(r) /\ cs2[id].bucket = BucketOf(r)
      /\ \A j \in DOMAIN cs \ {id} : cs2[j] = cs[j]
      /\ id \in DOMAIN cs => cs[id].timeframe = Frame(r) /\ cs[id].bucket = BucketOf(r)
  BY DEF Wrote, IsFor
<1>2. ASSUME t = Frame(r), b = BucketOf(r)
      PROVE  BucketRows(cs2, t, b) = BucketRows(cs, t, b) \cup {id}
  BY <1>1, <1>2 DEF BucketRows
<1>3. ASSUME ~(t = Frame(r) /\ b = BucketOf(r))
      PROVE  /\ BucketRows(cs2, t, b) = BucketRows(cs, t, b)
             /\ \A j \in BucketRows(cs, t, b) : cs2[j] = cs[j]
  BY <1>1, <1>3 DEF BucketRows
<1> QED
  BY <1>2, <1>3

\* The next timeframe, or the next transaction after the last.
NextFrameOf(r) ==
  IF r.left = {Frame(r)} THEN NextOf(r)
  ELSE [IdlePoll EXCEPT !.pc = "read", !.sigs = r.sigs, !.left = r.left \ {Frame(r)}]

LEMMA NextFrameIs ==
  ASSUME NEW p \in Polls, NEW r, r = poll[p], NextTimeframe(p)
  PROVE  poll' = [poll EXCEPT ![p] = NextFrameOf(r)]
  BY DEF NextTimeframe, NextTx, PollGoes, NextOf, NextFrameOf, timeframe, Frame

LEMMA NextFrameFacts ==
  ASSUME NEW r \in PollType, NEW h, NEW tr, NEW cs, PollOK(r, h, tr, cs),
         r.pc = "write", NEW to, to = NextFrameOf(r)
  PROVE  /\ to \in PollType /\ to.pc \in {"idle", "tx", "read"} /\ ~HasRead(to)
         /\ \A cs2 : PollOK(to, h, tr, cs2)
         /\ Updates(to) => TxOf(to) = TxOf(r)
         /\ \A t : Pending(to, t) <=> Pending(r, t) /\ t # Frame(r)
         /\ \/ to = NextOf(r) /\ ~Updates(to)
            \/ Updates(to) /\ TxOf(to) = TxOf(r)
<1>1. CASE r.left = {Frame(r)}
  <2>1. to = NextOf(r)
    BY <1>1 DEF NextFrameOf
  <2>2. /\ to \in PollType /\ to.pc \in {"idle", "tx"} /\ PollOK(to, h, tr, cs)
    BY <2>1, NextFacts
  <2>3. ~Updates(to) /\ ~HasRead(to)
    BY <2>2 DEF Updates, HasRead
  <2>4. \A cs2 : PollOK(to, h, tr, cs2)
    BY <2>2, <2>3 DEF PollOK
  <2>5. \A t : ~Pending(to, t) /\ ~(Pending(r, t) /\ t # Frame(r))
    BY <1>1, <2>3 DEF Pending
  <2> QED
    BY <2>1, <2>2, <2>3, <2>4, <2>5
<1>2. CASE r.left # {Frame(r)}
  <2>1. to = [pc |-> "read", sigs |-> r.sigs, left |-> r.left \ {Frame(r)},
              row |-> NoCandle, read |-> [count |-> 0]]
    BY <1>2 DEF NextFrameOf, IdlePoll
  <2>2. /\ to.pc = "read" /\ to.sigs = r.sigs /\ to.left = r.left \ {Frame(r)}
        /\ to.row = NoCandle
    BY <2>1
  <2>3. to \in PollType
    <3>1. r.sigs \in Seq(Txs) /\ to.left \in SUBSET Timeframes /\ NoCandle \in Nat
      BY <2>2 DEF PollType, NoCandle
    <3> QED
      BY <2>1, <2>2, <3>1 DEF PollType
  <2>4. Updates(to) /\ Updates(r) /\ ~HasRead(to) /\ TxOf(to) = TxOf(r)
    BY <2>2 DEF Updates, HasRead, TxOf
  <2>5. to.left # {}
    BY <1>2, <2>2, <2>4 DEF PollOK
  <2>6. \A cs2 : PollOK(to, h, tr, cs2)
    BY <2>2, <2>4, <2>5 DEF PollOK
  <2>7. \A t : Pending(to, t) <=> Pending(r, t) /\ t # Frame(r)
    BY <2>2, <2>4 DEF Pending
  <2> QED
    BY <2>2, <2>3, <2>4, <2>6, <2>7
<1> QED
  BY <1>1, <1>2

-----------------------------------------------------------------------------
LEMMA FrameInOrder ==
  ASSUME IndexInv, ~overlapped, ~strayed, pollFaults = 0, NEW p \in Polls, NEW r, r = poll[p],
         r.pc = "write", \A q \in Polls \ {p} : poll[q].pc = "idle",
         poll' = [poll EXCEPT ![p] = NextFrameOf(r)], UNCHANGED <<height, trades>>
  PROVE  InOrder(height, trades', poll')
<1>1. poll \in [Polls -> PollType]
  BY TypeFacts DEF IndexInv
<1>2. r \in PollType /\ PollOK(r, height, trades, candles)
  BY <1>1 DEF IndexInv, PollsOK
<1>3. Updates(r) /\ TxOf(r) \in trades
  BY <1>2 DEF Updates, PollOK
<1>4. PICK to : to = NextFrameOf(r)
  OBVIOUS
<1>5. /\ to \in PollType
      /\ \/ to = NextOf(r) /\ ~Updates(to)
         \/ Updates(to) /\ TxOf(to) = TxOf(r)
  BY <1>2, <1>4, NextFrameFacts
<1>6. CASE to = NextOf(r)
  BY <1>3, <1>4, <1>6, NextInOrder
<1>7. CASE Updates(to) /\ TxOf(to) = TxOf(r)
  <2>1. to.pc # "idle"
    BY <1>7 DEF Updates
  <2>2. InOrder(height, trades, poll')
    BY <1>3, <1>4, <1>5, <1>7, <2>1, StepInOrder
  <2> QED
    BY <2>2
<1> QED
  BY <1>5, <1>6, <1>7

LEMMA WrittenPolls ==
  ASSUME NEW h \in Int, NEW tr, NEW cs, NEW pl \in [Polls -> PollType],
         PollsOK(h, tr, cs, pl), NEW p \in Polls, NEW r, r = pl[p], r.pc = "write",
         NEW cs2, NEW id, Wrote(cs, cs2, id, r),
         NEW pl2, pl2 = [pl EXCEPT ![p] = NextFrameOf(r)]
  PROVE  PollsOK(h, tr, cs2, pl2)
<1>1. r \in PollType /\ PollOK(r, h, tr, cs)
  BY DEF PollsOK
<1>2. PICK to : to = NextFrameOf(r)
  OBVIOUS
<1>3. PollOK(to, h, tr, cs2)
  BY <1>1, <1>2, NextFrameFacts
<1>4. \A j \in DOMAIN cs :
        /\ j \in DOMAIN cs2 /\ cs2[j].timeframe = cs[j].timeframe
        /\ cs2[j].bucket = cs[j].bucket
  BY DEF Wrote, IsFor
<1>5. ASSUME NEW q \in Polls, q # p
      PROVE  PollOK(pl2[q], h, tr, cs2)
  <2>1. PICK w \in PollType : w = pl[q]
    OBVIOUS
  <2>2. PollOK(w, h, tr, cs)
    BY <2>1 DEF PollsOK
  <2>3. PollOK(w, h, tr, cs2)
    BY <1>4, <2>2, PollOKKept
  <2> QED
    BY <1>5, <2>1, <2>3
<1>6. pl2[p] = to
  BY <1>2
<1> QED
  BY <1>3, <1>5, <1>6 DEF PollsOK

LEMMA WrittenCalm ==
  ASSUME NEW tr, Cardinality(tr) \in Nat, NEW cs \in Seq(CandleType),
         NEW pl \in [Polls -> PollType], NEW f \in Nat, Calm(tr, cs, pl, f),
         NEW p \in Polls, NEW r, r = pl[p], r.pc = "write",
         \A q \in Polls \ {p} : pl[q].pc = "idle", NEW h, PollOK(r, h, tr, cs),
         TxOf(r) \in Txs,
         NEW cs2 \in Seq(CandleType), NEW id, Wrote(cs, cs2, id, r),
         NEW pl2, pl2 = [pl EXCEPT ![p] = NextFrameOf(r)]
  PROVE  Calm(tr, cs2, pl2, f)
<1>1. PICK to : to = NextFrameOf(r)
  OBVIOUS
<1>2. /\ to \in PollType /\ ~HasRead(to)
      /\ \A t : Pending(to, t) <=> Pending(r, t) /\ t # Frame(r)
  BY <1>1, NextFrameFacts
<1>3. pl2 \in [Polls -> PollType] /\ pl2[p] = to
      /\ \A q \in Polls \ {p} : pl2[q].pc = "idle"
  BY <1>1, <1>2
<1>4. Single(pl2) /\ Current(pl2, cs2)
  BY <1>2, <1>3, Alone
<1>5. HasRead(r) => r.read = cs[r.row]
  BY DEF Calm, Current
<1>6. r.left # {} /\ Updates(r)
  BY DEF PollOK, Updates
<1>7. Frame(r) \in Timeframes /\ Pending(r, Frame(r))
  BY <1>6, FrameIn DEF Pending
<1>8. BucketOf(r) \in Buckets(Frame(r))
  BY <1>7, BucketType DEF BucketOf
<1>9. ASSUME NEW t \in Timeframes
      PROVE  Cardinality(tr) <= CountAll(cs2, t) + Waiting(pl2, t) + f
  <2>1. Waiting(pl, t) = (IF Pending(r, t) THEN 1 ELSE 0)
    BY Alone
  <2>2. Waiting(pl2, t) = (IF Pending(to, t) THEN 1 ELSE 0)
    BY <1>3, Alone
  <2>3. CountAll(cs2, t) = CountAll(cs, t) + (IF t = Frame(r) THEN 1 ELSE 0)
    BY <1>5, <1>8, CountAllWritten
  <2>4. Cardinality(tr) <= CountAll(cs, t) + Waiting(pl, t) + f
    BY DEF Calm
  <2>5. CountAll(cs, t) \in Nat
    BY CountAllType
  <2>6. CASE t = Frame(r)
    <3>1. Pending(r, t) /\ ~Pending(to, t)
      BY <1>2, <1>7, <2>6
    <3> QED
      BY <2>1, <2>2, <2>3, <2>4, <2>5, <2>6, <3>1
  <2>7. CASE t # Frame(r)
    <3>1. Pending(to, t) <=> Pending(r, t)
      BY <1>2, <2>7
    <3> QED
      BY <2>1, <2>2, <2>3, <2>4, <2>5, <2>7, <3>1
  <2> QED
    BY <2>6, <2>7
<1> QED
  BY <1>4, <1>9 DEF Calm

LEMMA ShownAlone ==
  ASSUME NEW p \in Polls, NEW pl \in [Polls -> PollType],
         \A q \in Polls \ {p} : pl[q].pc = "idle", NEW r, r = pl[p],
         NEW tr, NEW tf, NEW b
  PROVE  Shown(tr, pl, tf, b) =
           {i \in tr : getBucket(i, tf) = b /\ (Pending(r, tf) => i # TxOf(r))}
<1>1. Shown(tr, pl, tf, b) =
        {i \in tr : /\ getBucket(i, tf) = b
                    /\ Pending(pl[p], tf) => i # TxOf(pl[p])}
  BY Alone
<1> QED
  BY <1>1

\* The poll p, alone, has written the row id: the rows cs and the polls pl have
\* become cs2 and pl2.
WritesAlone(h, tr, cs, pl, p, cs2, id, pl2, st) ==
  /\ tr \in SUBSET Txs /\ cs \in Seq(CandleType) /\ pl \in [Polls -> PollType]
  /\ Exact(h, tr, cs, pl, st) /\ st \in BOOLEAN /\ Current(pl, cs) /\ pl[p].pc = "write"
  /\ \A q \in Polls \ {p} : pl[q].pc = "idle" /\ pl2[q].pc = "idle"
  /\ PollOK(pl[p], h, tr, cs) /\ TxOf(pl[p]) \in Txs /\ Wrote(cs, cs2, id, pl[p])
  /\ pl[p].row = NoCandle => cs2[id] = NewOf(pl[p])
  /\ pl[p].row # NoCandle =>
       cs2[id] = UpdatedOf(pl[p]) /\ HasRead(pl[p]) /\ id = pl[p].row
  /\ pl2 \in [Polls -> PollType] /\ pl2[p] = NextFrameOf(pl[p])

\* The candle of the bucket shows the trade as well.
LEMMA WrittenShows ==
  ASSUME NEW h, NEW tr, NEW cs, NEW pl, NEW p \in Polls, NEW cs2, NEW id, NEW pl2,
         NEW st, WritesAlone(h, tr, cs, pl, p, cs2, id, pl2, st),
         NEW tf \in Timeframes, NEW b \in Buckets(tf)
  PROVE  BucketExact(cs2, Shown(tr, pl2, tf, b), tf, b, st)
<1>1. PICK r, to : r = pl[p] /\ to = pl2[p]
  OBVIOUS
<1>2. /\ tr \in SUBSET Txs /\ cs \in Seq(CandleType) /\ pl \in [Polls -> PollType]
      /\ Exact(h, tr, cs, pl, st) /\ st \in BOOLEAN /\ Current(pl, cs) /\ r.pc = "write"
      /\ \A q \in Polls \ {p} : pl[q].pc = "idle"
      /\ PollOK(r, h, tr, cs) /\ TxOf(r) \in Txs /\ r \in PollType
  BY <1>1 DEF WritesAlone
<1>3. /\ Wrote(cs, cs2, id, r)
      /\ r.row = NoCandle => cs2[id] = NewOf(r)
      /\ r.row # NoCandle => cs2[id] = UpdatedOf(r) /\ HasRead(r) /\ id = r.row
  BY <1>1 DEF WritesAlone
<1>4. pl2 \in [Polls -> PollType] /\ \A q \in Polls \ {p} : pl2[q].pc = "idle"
  BY DEF WritesAlone
<1>5. to = NextFrameOf(r)
  BY <1>1 DEF WritesAlone
<1>6. PICK x : x = TxOf(r)
  OBVIOUS
<1>7. /\ to \in PollType /\ ~HasRead(to)
      /\ \A t : Pending(to, t) <=> Pending(r, t) /\ t # Frame(r)
      /\ Updates(to) => TxOf(to) = TxOf(r)
  BY <1>2, <1>5, NextFrameFacts
<1>8. x \in tr /\ x \in Txs /\ r.left # {} /\ Updates(r)
  BY <1>6, <1>2 DEF PollOK, Updates
<1>9. Pending(r, Frame(r))
  BY <1>8, <1>2, FrameIn DEF Pending
<1>10. PICK S, S2 : S = Shown(tr, pl, tf, b) /\ S2 = Shown(tr, pl2, tf, b)
  OBVIOUS
<1>11. /\ S = {i \in tr : getBucket(i, tf) = b /\ (Pending(r, tf) => i # x)}
      /\ S2 = {i \in tr : getBucket(i, tf) = b /\ (Pending(to, tf) => i # TxOf(to))}
  <2>1. S = {i \in tr : getBucket(i, tf) = b /\ (Pending(r, tf) => i # x)}
    BY <1>1, <1>6, <1>10, <1>2, ShownAlone
  <2>2. S2 = {i \in tr : getBucket(i, tf) = b /\ (Pending(to, tf) => i # TxOf(to))}
    <3>1. Shown(tr, pl2, tf, b) =
            {i \in tr : getBucket(i, tf) = b /\ (Pending(to, tf) => i # TxOf(to))}
      BY <1>1, <1>4, ShownAlone
    <3> QED
      BY <1>10, <3>1
  <2> QED
    BY <2>1, <2>2
<1>12. BucketExact(cs, S, tf, b, st)
  BY <1>10, <1>2 DEF Exact
<1>13. CASE tf = Frame(r) /\ b = BucketOf(r)
  <2>1. getBucket(x, tf) = b /\ Pending(r, tf) /\ ~Pending(to, tf)
    BY <1>6, <1>7, <1>9, <1>13 DEF BucketOf
  <2>2. S2 = S \cup {x} /\ x \notin S /\ S \in SUBSET Txs
    BY <1>8, <1>11, <1>2, <2>1
  <2>3. BucketRows(cs2, tf, b) = BucketRows(cs, tf, b) \cup {id}
    BY <1>13, <1>3, BucketRowsWritten
  <2>4. HasRead(r) => r.row \in BucketRows(cs, tf, b) /\ r.read = cs[r.row]
                      /\ r.read \in CandleType
    BY <1>1, <1>13, <1>2 DEF PollOK, BucketRows, IsFor, Current
  <2>5. CASE S = {}
    <3>1. BucketRows(cs, tf, b) = {}
      BY <1>12, <2>5 DEF BucketExact
    <3>2. r.row = NoCandle
      BY <1>3, <2>4, <3>1
    <3>3. IsCandleOf(cs2[id], {x}, st)
      <4>1. PICK c : c = cs2[id]
        OBVIOUS
      <4>2. c.count = 1 /\ c.open = Price[x] /\ c.close = Price[x]
            /\ c.high = Price[x] /\ c.low = Price[x]
        BY <1>6, <1>3, <3>2, <4>1 DEF NewOf
      <4>3. IsCandleOf(c, {x}, st)
        BY <1>8, <4>2, NewCandleIsOf
      <4> QED
        BY <4>1, <4>3
    <3>4. BucketRows(cs2, tf, b) = {id} /\ S2 = {x}
      BY <2>2, <2>3, <2>5, <3>1
    <3> QED
      BY <1>10, <3>3, <3>4 DEF BucketExact
  <2>6. CASE S # {}
    <3>1. PICK id0 \in BucketRows(cs, tf, b) :
            BucketRows(cs, tf, b) = {id0} /\ IsCandleOf(cs[id0], S, st)
      BY <1>12, <2>6 DEF BucketExact
    <3>2. r.row # NoCandle
      <4>1. r.row = NoCandle => BucketRows(cs, Frame(r), BucketOf(r)) = {}
        BY <1>1, <1>2 DEF Exact, NewIsMissing
      <4> QED
        BY <1>13, <3>1, <4>1
    <3>3. id = id0 /\ id = r.row /\ r.read = cs[id0] /\ r.read \in CandleType
          /\ cs2[id] = UpdatedOf(r)
      BY <1>3, <2>4, <3>1, <3>2
    <3>4. ~st => \A j \in S : j < x
      <4>1. ~st => \A j \in tr : j <= x
        BY <1>1, <1>6, <1>8, <1>2, AloneInOrder DEF Exact
      <4>2. \A j \in S : j \in tr /\ j \in Int /\ x \in Int
        BY <1>8, <1>11, <2>2 DEF Txs
      <4> QED
        BY <2>2, <4>1, <4>2
    <3>5. IsCandleOf(cs2[id], S \cup {x}, st)
      <4>1. PICK c, d : c = r.read /\ d = cs2[id] /\ c \in CandleType
        BY <3>3
      <4>2. /\ d.count = c.count + 1 /\ d.open = c.open /\ d.close = Price[x]
            /\ d.high = Max({c.high, Price[x]}) /\ d.low = Min({c.low, Price[x]})
        <5>1. r.read \in CandleType /\ d = UpdatedOf(r)
          BY <3>3, <4>1
        <5>2. /\ d.count = r.read.count + 1 /\ d.open = r.read.open
              /\ d.close = Price[TxOf(r)] /\ d.high = Max({r.read.high, Price[TxOf(r)]})
              /\ d.low = Min({r.read.low, Price[TxOf(r)]})
          BY <5>1, UpdatedOfSays
        <5> QED
          BY <1>6, <4>1, <5>2
      <4>3. IsCandleOf(c, S, st)
        BY <3>1, <3>3, <4>1
      <4>4. IsCandleOf(d, S \cup {x}, st)
        BY <1>2, <1>8, <2>2, <2>6, <3>4, <4>1, <4>2, <4>3, UpdatedIsOf
      <4> QED
        BY <4>1, <4>4
    <3>6. BucketRows(cs2, tf, b) = {id} /\ S2 = S \cup {x} /\ S2 # {}
      BY <2>2, <2>3, <3>1, <3>3
    <3> QED
      BY <1>10, <3>5, <3>6 DEF BucketExact
  <2> QED
    BY <2>5, <2>6
<1>14. CASE ~(tf = Frame(r) /\ b = BucketOf(r))
  <2>1. S2 = S
    <3>1. CASE tf = Frame(r)
      <4>1. getBucket(x, tf) # b
        BY <1>6, <1>14, <3>1 DEF BucketOf
      <4> QED
        BY <1>7, <1>11, <3>1, <4>1
    <3>2. CASE tf # Frame(r)
      <4>1. Pending(to, tf) <=> Pending(r, tf)
        BY <1>7, <3>2
      <4>2. Pending(to, tf) => TxOf(to) = x
        BY <1>6, <1>7 DEF Pending
      <4> QED
        BY <1>11, <4>1, <4>2
    <3> QED
      BY <3>1, <3>2
  <2>2. /\ BucketRows(cs2, tf, b) = BucketRows(cs, tf, b)
        /\ \A j \in BucketRows(cs, tf, b) : cs2[j] = cs[j]
    BY <1>14, <1>3, BucketRowsWritten
  <2> QED
    BY <1>10, <1>12, <2>1, <2>2 DEF BucketExact
<1> QED
  BY <1>13, <1>14

LEMMA WriteCandleKeeps ==
  ASSUME IndexInv, NEW p \in Polls, WriteCandle(p)
  PROVE  IndexInv'
<1>1. PICK r, to : r = poll[p] /\ to = NextFrameOf(r)
  OBVIOUS
<1>2. /\ r.pc = "write" /\ UNCHANGED <<height, trades, overlapped, strayed>>
      /\ poll' = [poll EXCEPT ![p] = to]
      /\ \/ candles' = WrittenOf(candles, r) /\ UNCHANGED pollFaults
         \/ UNCHANGED candles /\ PollFails
  <2>1. Written(p) = WrittenOf(candles, r)
    BY <1>1, WrittenIs
  <2>2. poll' = [poll EXCEPT ![p] = to]
    BY <1>1, NextFrameIs DEF WriteCandle
  <2> QED
    BY <1>1, <2>1, <2>2 DEF WriteCandle, At, past
<1>3. /\ IndexTypes /\ SafeInv /\ poll \in [Polls -> PollType]
      /\ Cardinality(trades) \in Nat /\ candles \in Seq(CandleType) /\ height \in Nat
      /\ pollFaults \in Nat /\ MaxPollFaults \in Nat /\ trades \in SUBSET Txs
      /\ trades \in SUBSET (Swaps \cap 1..height)
  BY SafePart, TypeFacts DEF IndexInv, IndexTypes
<1>4. r \in PollType /\ PollOK(r, height, trades, candles)
  BY <1>1, <1>3 DEF IndexInv, PollsOK
<1>5. /\ to \in PollType /\ ~HasRead(to)
      /\ \A cs2 : PollOK(to, height, trades, cs2)
      /\ Updates(to) => TxOf(to) = TxOf(r)
      /\ \A t : Pending(to, t) <=> Pending(r, t) /\ t # Frame(r)
  BY <1>1, <1>2, <1>4, NextFrameFacts
<1>6. Updates(r) /\ TxOf(r) \in trades /\ TxOf(r) \in Txs
  BY <1>2, <1>3, <1>4 DEF Updates, PollOK
<1>7. CASE UNCHANGED candles /\ PollFails
  <2>1. pollFaults' = pollFaults + 1 /\ pollFaults' \in 0..MaxPollFaults
    BY <1>3, <1>7 DEF PollFails
  <2>2. SafeInv'
    <3>1. /\ trades \subseteq trades' /\ trades' \in SUBSET (Swaps \cap 1..height)
          /\ overlapped' \in BOOLEAN /\ strayed' \in BOOLEAN /\ PollOK(to, height, trades', candles)
      BY <1>2, <1>3, <1>5 DEF IndexTypes
    <3> QED
      BY <1>1, <1>2, <1>3, <1>5, <1>6, <1>7, <2>1, <3>1, SafeMove
  <2>3. ASSUME ~overlapped'
        PROVE  Calm(trades', candles', poll', pollFaults')
    <3>1. ~overlapped /\ \A q \in Polls \ {p} : poll[q].pc = "idle"
      BY <1>1, <1>2, <2>3, AloneUnlessOverlapped
    <3>2. trades' = trades /\ UNCHANGED candles
      BY <1>2, <1>7
    <3>3. \A tf \in Timeframes :
            Cardinality(trades') + pollFaults + (IF Pending(r, tf) THEN 1 ELSE 0)
              <= Cardinality(trades) + pollFaults' + (IF Pending(to, tf) THEN 1 ELSE 0)
      BY <1>3, <2>1, <3>2
    <3>4. Cardinality(trades') \in Nat /\ pollFaults' \in Nat
      BY <1>3, <2>1, <3>2
    <3> QED
      BY <1>1, <1>2, <1>5, <3>1, <3>2, <3>3, <3>4, CalmMove
  <2>4. pollFaults' # 0
    BY <1>3, <2>1
  <2> QED
    BY <2>2, <2>3, <2>4, FromParts
<1>8. CASE candles' = WrittenOf(candles, r) /\ UNCHANGED pollFaults
  <2>1. PICK id, tr, cs, pl, h, cs2, pl2 :
          /\ id = RowOf(candles, r) /\ tr = trades /\ cs = candles /\ pl = poll
          /\ h = height /\ cs2 = candles' /\ pl2 = poll'
    OBVIOUS
  <2>2. /\ cs \in Seq(CandleType) /\ \A j \in DOMAIN cs : Traded(cs[j], tr)
        /\ PollOK(r, h, tr, cs) /\ h \in Int /\ tr \in SUBSET Txs
        /\ pl \in [Polls -> PollType] /\ r = pl[p] /\ cs2 = WrittenOf(cs, r)
        /\ id = RowOf(cs, r) /\ pl2 = [pl EXCEPT ![p] = to]
        /\ PollsOK(h, tr, cs, pl) /\ OneOwner(pl) /\ Assigned(tr, cs, pl)
        /\ Cardinality(tr) \in Nat
    BY <1>1, <1>2, <1>3, <1>4, <1>8, <2>1 DEF IndexInv, IndexTypes
  <2>3. /\ cs2 \in Seq(CandleType) /\ \A j \in DOMAIN cs2 : Traded(cs2[j], tr)
        /\ id \in Nat \ {0} /\ id \in DOMAIN cs2 /\ Wrote(cs, cs2, id, r)
    BY <1>2, <1>4, <1>6, <2>2, WrittenFacts, ZenonT(60)
  <2>4. IndexTypes'
    <3>1. pl2 \in [Polls -> PollType]
      BY <1>5, <2>2
    <3> QED
      BY <1>2, <1>3, <1>8, <2>1, <2>3, <3>1 DEF IndexTypes
  <2>5. PollsOK(h, tr, cs2, pl2)
    BY <1>1, <1>2, <2>2, <2>3, WrittenPolls
  <2>6. OneOwner(pl2)
    <3>1. ASSUME Updates(to), NEW q \in Polls \ {p}, Updates(pl[q])
          PROVE  TxOf(pl[q]) # TxOf(to)
      BY <1>5, <1>6, <2>2, <3>1 DEF OneOwner
    <3> QED
      BY <2>2, <3>1, OwnerKept
  <2>7. Assigned(tr, cs2, pl2)
    BY <1>2, <1>5, <1>6, <2>2, <2>3, AssignedWritten
  <2>8. SafeInv'
    BY <1>2, <2>1, <2>4, <2>5, <2>6, <2>7 DEF SafeInv
  <2>9. ASSUME ~overlapped'
        PROVE  Calm(trades', candles', poll', pollFaults')
    <3>1. ~overlapped /\ \A q \in Polls \ {p} : poll[q].pc = "idle"
      BY <1>1, <1>2, <2>9, AloneUnlessOverlapped
    <3>2. PICK f \in Nat : f = pollFaults
      BY <1>3
    <3>3. Calm(tr, cs, pl, f) /\ \A q \in Polls \ {p} : pl[q].pc = "idle"
      BY <2>1, <3>1, <3>2 DEF IndexInv
    <3>4. Calm(tr, cs2, pl2, f)
      BY <1>1, <1>2, <1>6, <2>2, <2>3, <3>3, WrittenCalm
    <3> QED
      BY <1>2, <1>8, <2>1, <3>2, <3>4
  <2>10. ASSUME ~overlapped', pollFaults' = 0
         PROVE  Exact(height', trades', candles', poll', strayed')
    <3>0. PICK st : st = strayed
      OBVIOUS
    <3>1. /\ ~overlapped /\ pollFaults = 0
          /\ \A q \in Polls \ {p} : poll[q].pc = "idle"
      BY <1>1, <1>2, <1>8, <2>10, AloneUnlessOverlapped
    <3>2. ASSUME ~strayed'
          PROVE  InOrder(height, trades', poll')
      <4>1. UNCHANGED <<height, trades, strayed>>
        BY <1>2
      <4>2. r.pc = "write" /\ poll' = [poll EXCEPT ![p] = NextFrameOf(r)]
        BY <1>1, <1>2
      <4>3. ~strayed /\ r = poll[p]
        BY <1>1, <3>2, <4>1
      <4> QED
        BY <3>1, <4>1, <4>2, <4>3, FrameInOrder
    <3>3. /\ Exact(h, tr, cs, pl, st) /\ st \in BOOLEAN /\ Current(pl, cs)
          /\ \A q \in Polls \ {p} : pl[q].pc = "idle"
      BY <2>1, <3>1, <3>0 DEF IndexInv, Calm, IndexTypes
    <3>4. ASSUME NEW tf \in Timeframes, NEW b \in Buckets(tf)
          PROVE  BucketExact(cs2, Shown(tr, pl2, tf, b), tf, b, st)
      <4>1. pl2 \in [Polls -> PollType] /\ to = pl2[p] /\ to = NextFrameOf(r)
            /\ \A q \in Polls \ {p} : pl2[q].pc = "idle"
        BY <1>1, <1>5, <2>2, <3>3
      <4>2. /\ cs \in Seq(CandleType) /\ \A j \in DOMAIN cs : Traded(cs[j], tr)
            /\ r \in PollType /\ PollOK(r, h, tr, cs) /\ r.pc = "write"
            /\ TxOf(r) \in Txs /\ cs2 = WrittenOf(cs, r) /\ id = RowOf(cs, r)
        BY <1>2, <1>4, <1>6, <2>2
      <4>3. r.row = NoCandle => cs2[id] = NewOf(r)
        BY <4>2, WrittenFacts, SMTT(30)
      <4>4. r.row # NoCandle => cs2[id] = UpdatedOf(r) /\ HasRead(r) /\ id = r.row
        BY <4>2, WrittenFacts
      <4>5. WritesAlone(h, tr, cs, pl, p, cs2, id, pl2, st)
        BY <2>2, <2>3, <3>3, <4>1, <4>2, <4>3, <4>4 DEF WritesAlone
      <4> QED
        BY <4>5, WrittenShows
    <3>5. NewIsMissing(pl2, cs2)
      <4>1. pl2 \in [Polls -> PollType] /\ pl2[p] = to
            /\ \A q \in Polls \ {p} : pl2[q].pc = "idle"
        BY <1>5, <2>2, <3>3
      <4>2. to.pc # "write"
        BY <1>1, <1>2, <1>4, NextFrameFacts
      <4> QED
        BY <4>1, <4>2, Alone
    <3>6. ~st => InOrder(h, tr, pl2)
      BY <1>2, <2>1, <3>0, <3>2
    <3>7. Exact(h, tr, cs2, pl2, st)
      BY <3>4, <3>5, <3>6 DEF Exact
    <3> QED
      BY <1>2, <2>1, <3>0, <3>7
  <2> QED
    BY <2>8, <2>9, <2>10, FromParts
<1> QED
  BY <1>2, <1>7, <1>8

LEMMA RestartKeeps ==
  ASSUME IndexInv, Restart
  PROVE  IndexInv'
<1>1. /\ pollFaults < MaxPollFaults /\ pollFaults' = pollFaults + 1
      /\ poll' = [p \in Polls |-> IdlePoll]
      /\ UNCHANGED <<height, trades, candles, overlapped, strayed>>
  BY DEF Restart, PollFails, tables, past
<1>2. /\ IndexTypes /\ SafeInv /\ pollFaults \in Nat /\ MaxPollFaults \in Nat
      /\ Cardinality(trades) \in Nat /\ candles \in Seq(CandleType)
  BY SafePart, TypeFacts DEF IndexInv
<1>3. PICK pl2, pl, tr, cs, h :
        pl2 = poll' /\ pl = poll /\ tr = trades /\ cs = candles /\ h = height
  OBVIOUS
<1>4. \A q \in Polls : pl2[q] = IdlePoll
  BY <1>1, <1>3
<1>5. ~Updates(IdlePoll) /\ ~HasRead(IdlePoll) /\ IdlePoll.pc = "idle"
      /\ \A t : ~Pending(IdlePoll, t)
  BY IdleFacts DEF Updates, HasRead, Pending
<1>6. IndexTypes'
  <2>1. pl2 \in [Polls -> PollType]
    BY <1>1, <1>3, IdleFacts
  <2>2. pollFaults' \in 0..MaxPollFaults
    BY <1>1, <1>2
  <2> QED
    BY <1>1, <1>2, <1>3, <2>1, <2>2 DEF IndexTypes
<1>7. PollsOK(h, tr, cs, pl2) /\ OneOwner(pl2)
  BY <1>4, <1>5, IdleFacts DEF PollsOK, OneOwner
<1>8. Assigned(tr, cs, pl2)
  <2>1. Assigned(tr, cs, pl)
    BY <1>3 DEF IndexInv
  <2>2. tr \subseteq tr
    OBVIOUS
  <2>3. \A q \in Polls :
          \/ pl2[q] = pl[q]
          \/ /\ \A tf \in Timeframes : Pending(pl2[q], tf) =>
                  \/ Pending(pl[q], tf) /\ TxOf(pl2[q]) = TxOf(pl[q])
                  \/ TxOf(pl2[q]) \in Txs \ tr
             /\ HasRead(pl2[q]) =>
                  /\ pl2[q].row \in DOMAIN cs
                  /\ cs[pl2[q].row].timeframe = Frame(pl2[q])
                  /\ pl2[q].read = cs[pl2[q].row]
    BY <1>4, <1>5
  <2> QED
    BY <2>1, <2>2, <2>3, AssignedKept
<1>9. SafeInv'
  BY <1>1, <1>3, <1>6, <1>7, <1>8 DEF SafeInv
<1>10. ASSUME ~overlapped'
       PROVE  Calm(trades', candles', poll', pollFaults')
  <2>1. Single(pl2) /\ Current(pl2, cs)
    BY <1>4, <1>5 DEF Single, Current
  <2>2. ASSUME NEW t \in Timeframes
        PROVE  Cardinality(tr) <= CountAll(cs, t) + Waiting(pl2, t) + pollFaults'
    <3>1. Cardinality(tr) <= CountAll(cs, t) + Waiting(pl, t) + pollFaults
      BY <1>1, <1>3, <1>10 DEF IndexInv, Calm
    <3>2. Waiting(pl, t) \in {0, 1} /\ Waiting(pl2, t) = 0
      BY <1>4, <1>5 DEF Waiting
    <3>3. CountAll(cs, t) \in Nat
      BY <1>2, <1>3, CountAllType
    <3> QED
      BY <1>1, <1>2, <1>3, <3>1, <3>2, <3>3
  <2> QED
    BY <1>1, <1>3, <2>1, <2>2 DEF Calm
<1>11. pollFaults' # 0
  BY <1>1, <1>2
<1> QED
  BY <1>9, <1>10, <1>11, FromParts

-----------------------------------------------------------------------------
LEMMA IndexStep == IndexInv /\ [IndexerNext]_indexerVars => IndexInv'
<1> SUFFICES ASSUME IndexInv, [IndexerNext]_indexerVars
             PROVE  IndexInv'
  OBVIOUS
<1>1. CASE Trade
  BY <1>1, TradeKeeps
<1>2. CASE Restart
  BY <1>2, RestartKeeps
<1>3. ASSUME NEW p \in Polls, StartPoll(p)
      PROVE  IndexInv'
  BY <1>3, StartPollKeeps
<1>6. ASSUME NEW p \in Polls, StartOther(p)
      PROVE  IndexInv'
  BY <1>6, StartOtherKeeps
<1>4. ASSUME NEW p \in Polls, Step(p)
      PROVE  IndexInv'
  BY <1>4, ReadTxKeeps, InsertTradeKeeps, ReadCandleKeeps, WriteCandleKeeps DEF Step
<1>5. CASE UNCHANGED indexerVars
  <2>1. UNCHANGED <<height, trades, candles, poll, pollFaults, overlapped, strayed>>
    BY <1>5 DEF indexerVars, tables, past
  <2> QED
    BY <2>1 DEF IndexInv, IndexTypes
<1> QED
  BY <1>1, <1>2, <1>3, <1>4, <1>5, <1>6 DEF IndexerNext

LEMMA IndexAlways == IndexerSpec => []IndexInv
  BY IndexStarts, IndexStep, PTL DEF IndexerSpec

LEMMA IndexTypesSuffice == IndexInv => IndexerTypeOK
<1> SUFFICES ASSUME IndexInv PROVE IndexerTypeOK
  OBVIOUS
<1>1. IndexTypes /\ PollsOK(height, trades, candles, poll)
  BY DEF IndexInv
<1>2. /\ candles \in Seq(CandleType) /\ poll \in [Polls -> PollType]
      /\ trades \in SUBSET Txs
  BY <1>1, TypeFacts
<1>3. ASSUME NEW id \in DOMAIN candles
      PROVE  /\ candles[id].timeframe \in Timeframes
             /\ candles[id].count \in Nat \ {0}
             /\ {candles[id].open, candles[id].high, candles[id].low,
                 candles[id].close} \subseteq {Price[i] : i \in trades}
  <2>1. PICK c \in CandleType : c = candles[id]
    BY <1>2
  <2>2. Traded(c, trades)
    BY <1>1, <2>1 DEF IndexTypes
  <2>3. c.timeframe \in Timeframes /\ c.count \in Nat \ {0}
    BY DEF CandleType
  <2> QED
    BY <2>1, <2>2, <2>3 DEF Traded, PricesOf
<1>4. ASSUME NEW p \in Polls
      PROVE  poll[p].left \subseteq Timeframes /\ poll[p].row \in 0..Len(candles)
  <2>1. PICK r \in PollType : r = poll[p]
    BY <1>2
  <2>2. r.left \subseteq Timeframes /\ r.row \in Nat
    BY DEF PollType
  <2>3. PollOK(r, height, trades, candles)
    BY <1>1, <2>1 DEF PollsOK
  <2>4. r.row = NoCandle \/ r.row \in DOMAIN candles
    BY <2>3 DEF PollOK, HasRead
  <2>5. Len(candles) \in Nat /\ DOMAIN candles = 1..Len(candles)
    BY <1>2
  <2> QED
    BY <2>1, <2>2, <2>4, <2>5 DEF NoCandle
<1>5. /\ height \in 0..MaxTxs /\ trades \subseteq Swaps \cap 1..height
      /\ pollFaults \in 0..MaxPollFaults /\ overlapped \in BOOLEAN
      /\ strayed \in BOOLEAN
  BY <1>1 DEF IndexTypes
<1> QED
  BY <1>3, <1>4, <1>5 DEF IndexerTypeOK

\* The tables and the polls have the types that IndexerTypeOK names, and every
\* price of a candle is the price of a trade that is stored (upsertCandle).
THEOREM IndexerTypes == IndexerSpec => []IndexerTypeOK
  BY IndexAlways, IndexTypesSuffice, PTL

-----------------------------------------------------------------------------
\* What the counts of the candles are as Counted and AllCounted say it.
LEMMA CountsAre ==
  /\ \A tf, b : Counted(tf, b) = CountOf(candles, tf, b)
  /\ \A tf : AllCounted(tf) = CountAll(candles, tf)
<1>1. \A tf, b : Rows(tf, b) = BucketRows(candles, tf, b)
  BY DEF Rows, BucketRows
<1>2. \A tf, b : Counted(tf, b) = CountOf(candles, tf, b)
  BY <1>1 DEF Counted, CountOf
<1>3. \A tf : AllCounted(tf) = CountAll(candles, tf)
  BY <1>2 DEF AllCounted, CountAll
<1> QED
  BY <1>2, <1>3

\* The candle that IsCandleOf describes is one of CandlesMatchTrades.
LEMMA CandleIs ==
  ASSUME NEW c \in CandleType, NEW in \in SUBSET Txs, in # {},
         IsCandleOf(c, in, strayed)
  PROVE  IsCandle(c, in)
<1>1. in \in SUBSET Int /\ IsFiniteSet(in)
  BY TxsFinite DEF Txs
<1>2. PICK lo, hi : lo = Min(in) /\ hi = Max(in)
  OBVIOUS
<1>3. lo \in in /\ hi \in in /\ \A i \in in : lo <= i /\ i <= hi
  BY <1>1, <1>2, MinOfSet, MaxOfSet
<1>4. (~strayed => c.open = Price[lo]) /\ c.open \in {Price[i] : i \in in}
  <2>1. PICK i \in in : c.open = Price[i] /\ (~strayed => \A j \in in : i <= j)
    BY DEF IsCandleOf
  <2>2. ~strayed => i = lo
    BY <1>1, <1>3, <2>1
  <2> QED
    BY <2>1, <2>2
<1>5. (~strayed => c.close = Price[hi]) /\ c.close \in {Price[i] : i \in in}
  <2>1. PICK i \in in : c.close = Price[i] /\ (~strayed => \A j \in in : j <= i)
    BY DEF IsCandleOf
  <2>2. ~strayed => i = hi
    BY <1>1, <1>3, <2>1
  <2> QED
    BY <2>1, <2>2
<1>6. PICK V : V = {Price[i] : i \in in}
  OBVIOUS
<1>7. V \in SUBSET Int /\ IsFiniteSet(V) /\ V # {}
  <2>1. \A i \in in : Price[i] \in Int /\ Price[i] \in V
    BY <1>6, IndexerAssumption DEF Txs
  <2>2. V \in SUBSET Int /\ V # {}
    BY <1>6, <2>1
  <2>3. PICK f : f = [i \in in |-> Price[i]]
    OBVIOUS
  <2>4. f \in Surjection(in, V)
    BY <1>6, <2>1, <2>3 DEF Surjection
  <2> QED
    BY <1>1, <2>2, <2>4, FS_Surjection
<1>8. PICK top, low : top = Max(V) /\ low = Min(V)
  OBVIOUS
<1>9. top \in V /\ low \in V /\ \A v \in V : low <= v /\ v <= top
  BY <1>7, <1>8, MinOfSet, MaxOfSet
<1>10. c.high = top
  <2>1. PICK i \in in : c.high = Price[i] /\ \A j \in in : Price[j] <= c.high
    BY DEF IsCandleOf
  <2>2. c.high \in V /\ \A v \in V : v <= c.high
    BY <1>6, <2>1
  <2>3. c.high \in Int /\ top \in Int
    BY <1>7, <1>9, <2>2
  <2> QED
    BY <1>9, <2>2, <2>3
<1>11. c.low = low
  <2>1. PICK i \in in : c.low = Price[i] /\ \A j \in in : c.low <= Price[j]
    BY DEF IsCandleOf
  <2>2. c.low \in V /\ \A v \in V : c.low <= v
    BY <1>6, <2>1
  <2>3. c.low \in Int /\ low \in Int
    BY <1>7, <1>9, <2>2
  <2> QED
    BY <1>9, <2>2, <2>3
<1>12. c.count = Cardinality(in)
  BY DEF IsCandleOf
<1> QED
  BY <1>2, <1>4, <1>5, <1>6, <1>8, <1>10, <1>11, <1>12 DEF IsCandle

LEMMA IndexSuffices == IndexInv => CandlesMatchTrades
<1> SUFFICES ASSUME IndexInv, NEW tf \in Timeframes
    PROVE  /\ \A b \in Buckets(tf) : Counted(tf, b) <= Cardinality(TradesIn(tf, b))
           /\ AllIdle /\ ~overlapped =>
                /\ Cardinality(trades) - AllCounted(tf) <= pollFaults
                /\ pollFaults = 0 => \A b \in Buckets(tf) : TradesIn(tf, b) # {} =>
                     \E id \in Rows(tf, b) :
                       Rows(tf, b) = {id} /\ IsCandle(candles[id], TradesIn(tf, b))
  BY DEF CandlesMatchTrades
<1>1. /\ candles \in Seq(CandleType) /\ poll \in [Polls -> PollType]
      /\ trades \in SUBSET Txs /\ Cardinality(trades) \in Nat /\ pollFaults \in Nat
  BY TypeFacts DEF IndexInv
<1>2. PICK tr, cs, pl : tr = trades /\ cs = candles /\ pl = poll
  OBVIOUS
<1>3. ASSUME NEW b \in Buckets(tf)
      PROVE  Counted(tf, b) <= Cardinality(TradesIn(tf, b))
  <2>1. PICK g \in [Txs -> 0..Len(cs)] : Assigns(g, tf, tr, cs, pl)
    BY <1>2 DEF IndexInv, Assigned
  <2>2. CountOf(cs, tf, b) <= Cardinality({i \in tr : getBucket(i, tf) = b})
    BY <1>1, <1>2, <2>1, CountIsAssigned
  <2> QED
    BY <1>2, <2>2, CountsAre DEF TradesIn
<1>4. ASSUME AllIdle
      PROVE  \A p \in Polls : ~Pending(pl[p], tf)
  BY <1>2, <1>4 DEF AllIdle, At, Pending, Updates
<1>5. ASSUME AllIdle, ~overlapped
      PROVE  Cardinality(trades) - AllCounted(tf) <= pollFaults
  <2>1. Cardinality(tr) <= CountAll(cs, tf) + Waiting(pl, tf) + pollFaults
    BY <1>2, <1>5 DEF IndexInv, Calm
  <2>2. Waiting(pl, tf) = 0
    BY <1>4, <1>5 DEF Waiting
  <2>3. CountAll(cs, tf) \in Nat
    BY <1>1, <1>2, CountAllType
  <2> QED
    BY <1>1, <1>2, <2>1, <2>2, <2>3, CountsAre
<1>6. ASSUME AllIdle, ~overlapped, pollFaults = 0, NEW b \in Buckets(tf),
             TradesIn(tf, b) # {}
      PROVE  \E id \in Rows(tf, b) :
               Rows(tf, b) = {id} /\ IsCandle(candles[id], TradesIn(tf, b))
  <2>1. PICK in : in = TradesIn(tf, b)
    OBVIOUS
  <2>2. in = Shown(tr, pl, tf, b) /\ in \in SUBSET Txs /\ in # {}
    BY <1>1, <1>2, <1>4, <1>6, <2>1 DEF TradesIn, Shown
  <2>3. BucketExact(cs, Shown(tr, pl, tf, b), tf, b, strayed)
    BY <1>2, <1>6 DEF IndexInv, Exact
  <2>4. PICK id \in BucketRows(cs, tf, b) :
          BucketRows(cs, tf, b) = {id} /\ IsCandleOf(cs[id], in, strayed)
    BY <2>2, <2>3 DEF BucketExact
  <2>5. id \in DOMAIN cs /\ cs[id].timeframe = tf /\ cs[id].bucket = b
    BY <2>4 DEF BucketRows
  <2>6. PICK c \in CandleType : c = cs[id]
    BY <1>1, <1>2, <2>5
  <2>7. IsCandle(c, in)
    BY <2>2, <2>4, <2>6, CandleIs
  <2>8. Rows(tf, b) = {id}
    BY <1>2, <2>4 DEF Rows, BucketRows
  <2> QED
    BY <1>2, <2>1, <2>6, <2>7, <2>8
<1> QED
  BY <1>3, <1>5, <1>6

\* However polls overlap, fail and are repeated, the candles count no trade
\* twice; without overlap a fault costs one update at most; with neither, a
\* bucket has the one candle that its trades make, but for the order in which
\* the list of another pool brings them (indexer.js, upsertCandle).
THEOREM CandlesAreOfTrades == IndexerSpec => []CandlesMatchTrades
  BY IndexAlways, IndexSuffices, PTL

-----------------------------------------------------------------------------
\* Layout: the offsets of fields, and what is read at them.

\* The bytes before and of some fields, one after another: FoldLeft by the last
\* of the fields that are left.
Adding(iter, fields, T) ==
  iter = [s \in SUBSET T |->
            IF s = {} THEN 8 ELSE iter[s \ {Max(s)}] + fields[Max(s)][2]]

LEMMA OffsetIsSum ==
  ASSUME NEW struct, NEW k, NEW n \in Nat,
         DOMAIN SubSeq(struct, 1, k - 1) = 1..n, NEW w,
         \A i \in 1..n : w[i] = SubSeq(struct, 1, k - 1)[i][2] /\ w[i] \in Nat
  PROVE  Offset(struct, k) = 8 + SumFunctionOnSet(w, 1..n)
<1> DEFINE fields == SubSeq(struct, 1, k - 1)
<1> DEFINE the == CHOOSE iter : Adding(iter, fields, 1..n)
<1>0. DOMAIN fields = 1..n /\ \A i \in 1..n : w[i] = fields[i][2] /\ w[i] \in Nat
  OBVIOUS
<1> HIDE DEF fields
<1>1. PICK X : X = 1..n
  OBVIOUS
<1>2. X \in SUBSET Int /\ IsFiniteSet(X)
  BY <1>1, FirstAreFinite
<1>3. \A x \in X : w[x] \in Int /\ w[x] = fields[x][2]
  BY <1>0, <1>1
<1>4. ASSUME NEW s \in SUBSET X
      PROVE  /\ SumFunctionOnSet(w, s) \in Int
             /\ s # {} => /\ Max(s) \in s /\ Max(s) \in X
                          /\ SumFunctionOnSet(w, s)
                               = SumFunctionOnSet(w, s \ {Max(s)}) + fields[Max(s)][2]
                          /\ SumFunctionOnSet(w, s \ {Max(s)}) \in Int
                          /\ fields[Max(s)][2] \in Int
  <2>1. IsFiniteSet(s)
    BY <1>2, FS_Subset
  <2>2. SumFunctionOnSet(w, s) \in Int
    BY <1>3, <2>1, SumInt
  <2>3. ASSUME s # {}
        PROVE  /\ Max(s) \in s /\ Max(s) \in X
               /\ SumFunctionOnSet(w, s)
                    = SumFunctionOnSet(w, s \ {Max(s)}) + fields[Max(s)][2]
               /\ SumFunctionOnSet(w, s \ {Max(s)}) \in Int
               /\ fields[Max(s)][2] \in Int
    <3>1. PICK x : x = Max(s)
      OBVIOUS
    <3>2. x \in s /\ x \in X
      BY <1>2, <2>3, <3>1, LastIn
    <3>3. SumFunctionOnSet(w, s) = w[x] + SumFunctionOnSet(w, s \ {x})
      BY <1>3, <2>1, <3>2, SumRemove
    <3>4. IsFiniteSet(s \ {x})
      BY <2>1, FS_Subset
    <3>5. SumFunctionOnSet(w, s \ {x}) \in Int
      BY <1>3, <3>4, SumInt
    <3>6. w[x] = fields[x][2] /\ w[x] \in Int
      BY <1>3, <3>2
    <3> QED
      BY <3>1, <3>2, <3>3, <3>5, <3>6
  <2> QED
    BY <2>2, <2>3
<1>5. \E iter : Adding(iter, fields, X)
  <2>1. PICK g : g = [s \in SUBSET X |-> 8 + SumFunctionOnSet(w, s)]
    OBVIOUS
  <2>2. ASSUME NEW s \in SUBSET X
        PROVE  g[s] = IF s = {} THEN 8 ELSE g[s \ {Max(s)}] + fields[Max(s)][2]
    <3>1. CASE s = {}
      BY <2>1, <3>1, SumEmpty
    <3>2. CASE s # {}
      <4>1. PICK u \in SUBSET X : u = s \ {Max(s)}
        OBVIOUS
      <4>2. g[u] = 8 + SumFunctionOnSet(w, u) /\ g[s] = 8 + SumFunctionOnSet(w, s)
        BY <2>1
      <4>3. /\ SumFunctionOnSet(w, s)
                 = SumFunctionOnSet(w, u) + fields[Max(s)][2]
            /\ SumFunctionOnSet(w, u) \in Int /\ fields[Max(s)][2] \in Int
        BY <1>4, <3>2, <4>1
      <4> QED
        BY <3>2, <4>1, <4>2, <4>3, SMTT(30)
    <3> QED
      BY <3>1, <3>2
  <2>3. Adding(g, fields, X)
    BY <2>1, <2>2 DEF Adding
  <2> QED
    BY <2>3
<1>6. Adding(the, fields, X)
  BY <1>1, <1>5
<1> DEFINE G == {s \in SUBSET X : the[s] = 8 + SumFunctionOnSet(w, s)}
<1>7. ASSUME NEW s \in SUBSET X, \A u \in SUBSET s : u # s => u \in G
      PROVE  s \in G
  <2> HIDE DEF the
  <2>1. CASE s = {}
    BY <1>6, <2>1, SumEmpty DEF Adding
  <2>2. CASE s # {}
    <3>1. PICK u \in SUBSET s : u = s \ {Max(s)}
      OBVIOUS
    <3>2. u \in G
      BY <1>4, <1>7, <2>2, <3>1
    <3>3. the[s] = the[u] + fields[Max(s)][2]
      BY <1>6, <2>2, <3>1 DEF Adding
    <3>4. the[u] = 8 + SumFunctionOnSet(w, u)
      BY <3>2
    <3>5. /\ SumFunctionOnSet(w, s) = SumFunctionOnSet(w, u) + fields[Max(s)][2]
          /\ SumFunctionOnSet(w, u) \in Int /\ fields[Max(s)][2] \in Int
      BY <1>4, <2>2, <3>1
    <3>6. the[s] = 8 + SumFunctionOnSet(w, s)
      BY <3>3, <3>4, <3>5
    <3> QED
      BY <3>6
  <2> QED
    BY <2>1, <2>2
<1>8. X \in G
  <2> HIDE DEF G
  <2> QED
    BY <1>2, <1>7, SubsetInduction
<1>9. Offset(struct, k) = the[1..n]
  BY <1>0 DEF fields, Offset, FoldLeft, MapThenFoldSet, Adding
<1> QED
  BY <1>1, <1>8, <1>9

\* A field starts where the one before it ends.
LEMMA OffsetNext ==
  ASSUME NEW V, NEW struct \in Seq(V), \A i \in DOMAIN struct : struct[i][2] \in Nat
  PROVE  /\ Offset(struct, 1) = 8
         /\ \A i \in 1..Len(struct) :
              /\ Offset(struct, i) \in Nat
              /\ Offset(struct, i + 1) = Offset(struct, i) + struct[i][2]
<1>1. PICK w : w = [i \in 1..Len(struct) |-> struct[i][2]]
  OBVIOUS
<1>2. \A i \in 1..Len(struct) : w[i] = struct[i][2] /\ w[i] \in Nat
  BY <1>1
<1>3. ASSUME NEW n \in 0..Len(struct)
      PROVE  Offset(struct, n + 1) = 8 + SumFunctionOnSet(w, 1..n)
  <2>1. PICK fields : fields = SubSeq(struct, 1, n)
    OBVIOUS
  <2>2. DOMAIN fields = 1..n /\ \A i \in 1..n : fields[i] = struct[i]
    BY <2>1
  <2>3. \A i \in 1..n : w[i] = fields[i][2] /\ w[i] \in Nat
    BY <1>2, <2>2
  <2>4. PICK k : k = n + 1
    OBVIOUS
  <2>5. n \in Nat /\ k - 1 = n
    BY <2>4
  <2> QED
    BY <2>1, <2>2, <2>3, <2>4, <2>5, OffsetIsSum, SMTT(30)
<1>4. Offset(struct, 1) = 8
  <2>1. 1..0 = {} /\ 0 + 1 = 1 /\ 0 \in 0..Len(struct)
    OBVIOUS
  <2>2. SumFunctionOnSet(w, {}) = 0
    BY SumEmpty
  <2>3. Offset(struct, 0 + 1) = 8 + SumFunctionOnSet(w, 1..0)
    BY <1>3, <2>1
  <2> QED
    BY <2>1, <2>2, <2>3
<1>5. ASSUME NEW i \in 1..Len(struct)
      PROVE  /\ Offset(struct, i) \in Nat
             /\ Offset(struct, i + 1) = Offset(struct, i) + struct[i][2]
  <2>1. PICK X : X = 1..i
    OBVIOUS
  <2>2. IsFiniteSet(X) /\ i \in X /\ X \ {i} = 1..(i - 1) /\ \A x \in X : w[x] \in Nat
    <3>1. PICK o \in Int, j \in Int : o = 1 /\ j = i
      OBVIOUS
    <3>2. IsFiniteSet(X)
      BY <2>1, <3>1, FS_Interval
    <3> QED
      BY <1>2, <2>1, <3>2
  <2>3. SumFunctionOnSet(w, X) = w[i] + SumFunctionOnSet(w, X \ {i})
    <3>1. \A x \in X : w[x] \in Int
      BY <2>2
    <3> QED
      BY <2>2, <3>1, SumRemove
  <2>4. SumFunctionOnSet(w, X \ {i}) \in Nat
    <3>1. IsFiniteSet(X \ {i}) /\ \A x \in X \ {i} : w[x] \in Nat
      BY <2>2, FS_Subset
    <3> QED
      BY <3>1, SumNat
  <2>5. Offset(struct, i + 1) = 8 + SumFunctionOnSet(w, X)
    BY <1>3, <2>1
  <2>6. Offset(struct, i) = 8 + SumFunctionOnSet(w, X \ {i})
    <3>1. i - 1 \in 0..Len(struct) /\ (i - 1) + 1 = i
      OBVIOUS
    <3>2. Offset(struct, (i - 1) + 1) = 8 + SumFunctionOnSet(w, 1..(i - 1))
      BY <1>3, <3>1
    <3> QED
      BY <2>2, <3>1, <3>2
  <2>7. w[i] = struct[i][2] /\ w[i] \in Nat
    BY <1>2
  <2>8. Offset(struct, i) \in Nat
    BY <2>4, <2>6
  <2>9. Offset(struct, i + 1) = Offset(struct, i) + struct[i][2]
    BY <2>3, <2>4, <2>5, <2>6, <2>7
  <2> QED
    BY <2>8, <2>9
<1> QED
  BY <1>4, <1>5
\* Where the fields of the three structs are, and where the structs end.
PoolCells ==
  {<<8, 32, "token_one">>, <<40, 32, "token_two">>, <<72, 8, "total_supply">>,
   <<80, 8, "reserve_one">>, <<88, 8, "reserve_two">>, <<96, 1, "bump">>,
   <<97, 8, "launch_timestamp">>, <<105, 1, "graduated">>,
   <<106, 8, "total_sol_raised">>, <<114, 32, "creator">>,
   <<146, 8, "airdrop_pool">>, <<154, 8, "graduation_ts">>,
   <<162, 32, "meteora_pool">>, <<194, 1, "migration_complete">>}

LEMMA PoolLayout ==
  Layouts.pool = PoolCells /\ Offset(LiquidityPool, 15) = 195
<1>1. PICK struct : struct = LiquidityPool
  OBVIOUS
<1>2. Len(struct) = 14 /\ DOMAIN struct = 1..14
  BY <1>1 DEF LiquidityPool
<1>3. /\ struct[1] = <<"token_one", 32>>
      /\ struct[2] = <<"token_two", 32>>
      /\ struct[3] = <<"total_supply", 8>>
      /\ struct[4] = <<"reserve_one", 8>>
      /\ struct[5] = <<"reserve_two", 8>>
      /\ struct[6] = <<"bump", 1>>
      /\ struct[7] = <<"launch_timestamp", 8>>
      /\ struct[8] = <<"graduated", 1>>
      /\ struct[9] = <<"total_sol_raised", 8>>
      /\ struct[10] = <<"creator", 32>>
      /\ struct[11] = <<"airdrop_pool", 8>>
      /\ struct[12] = <<"graduation_ts", 8>>
      /\ struct[13] = <<"meteora_pool", 32>>
      /\ struct[14] = <<"migration_complete", 1>>
  BY <1>1 DEF LiquidityPool
<1>4. \A i \in 1..14 : struct[i][2] \in Nat
  BY <1>1 DEF LiquidityPool
<1>5. PICK V : struct \in Seq(V)
  <2>1. struct \in Seq({struct[1], struct[2], struct[3], struct[4], struct[5], struct[6], struct[7], struct[8], struct[9], struct[10], struct[11], struct[12], struct[13], struct[14]})
    BY <1>1 DEF LiquidityPool
  <2> QED
    BY <2>1
<1>6. /\ Offset(struct, 1) = 8
      /\ \A i \in 1..14 : Offset(struct, i + 1) = Offset(struct, i) + struct[i][2]
  BY <1>2, <1>4, <1>5, OffsetNext
<1>7. /\ Offset(struct, 2) = Offset(struct, 1) + 32
      /\ Offset(struct, 3) = Offset(struct, 2) + 32
      /\ Offset(struct, 4) = Offset(struct, 3) + 8
      /\ Offset(struct, 5) = Offset(struct, 4) + 8
      /\ Offset(struct, 6) = Offset(struct, 5) + 8
      /\ Offset(struct, 7) = Offset(struct, 6) + 1
      /\ Offset(struct, 8) = Offset(struct, 7) + 8
      /\ Offset(struct, 9) = Offset(struct, 8) + 1
      /\ Offset(struct, 10) = Offset(struct, 9) + 8
      /\ Offset(struct, 11) = Offset(struct, 10) + 32
      /\ Offset(struct, 12) = Offset(struct, 11) + 8
      /\ Offset(struct, 13) = Offset(struct, 12) + 8
      /\ Offset(struct, 14) = Offset(struct, 13) + 32
      /\ Offset(struct, 15) = Offset(struct, 14) + 1
  BY <1>3, <1>6
<1>8. /\ Offset(struct, 1) = 8 /\ Offset(struct, 2) = 40
      /\ Offset(struct, 3) = 72 /\ Offset(struct, 4) = 80
      /\ Offset(struct, 5) = 88 /\ Offset(struct, 6) = 96
      /\ Offset(struct, 7) = 97 /\ Offset(struct, 8) = 105
      /\ Offset(struct, 9) = 106 /\ Offset(struct, 10) = 114
      /\ Offset(struct, 11) = 146 /\ Offset(struct, 12) = 154
      /\ Offset(struct, 13) = 162 /\ Offset(struct, 14) = 194
      /\ Offset(struct, 15) = 195
  BY <1>6, <1>7
<1>9. {<<Offset(struct, i), struct[i][2], struct[i][1]>> : i \in DOMAIN struct} = PoolCells
  BY <1>2, <1>3, <1>8 DEF PoolCells
<1> QED
  BY <1>1, <1>8, <1>9 DEF Layouts

RegistryCells ==
  {<<8, 32, "mint">>, <<40, 32, "ticker_hash">>, <<72, 32, "image_hash">>,
   <<104, 32, "identity_hash">>, <<136, 16, "ticker_raw">>,
   <<152, 1, "protected">>, <<153, 8, "protected_at">>,
   <<161, 32, "creator">>, <<193, 8, "created_at">>, <<201, 1, "bump">>}

LEMMA RegistryLayout ==
  Layouts.registry = RegistryCells /\ Offset(TokenRegistry, 11) = 202
<1>1. PICK struct : struct = TokenRegistry
  OBVIOUS
<1>2. Len(struct) = 10 /\ DOMAIN struct = 1..10
  BY <1>1 DEF TokenRegistry
<1>3. /\ struct[1] = <<"mint", 32>>
      /\ struct[2] = <<"ticker_hash", 32>>
      /\ struct[3] = <<"image_hash", 32>>
      /\ struct[4] = <<"identity_hash", 32>>
      /\ struct[5] = <<"ticker_raw", 16>>
      /\ struct[6] = <<"protected", 1>>
      /\ struct[7] = <<"protected_at", 8>>
      /\ struct[8] = <<"creator", 32>>
      /\ struct[9] = <<"created_at", 8>>
      /\ struct[10] = <<"bump", 1>>
  BY <1>1 DEF TokenRegistry
<1>4. \A i \in 1..10 : struct[i][2] \in Nat
  BY <1>1 DEF TokenRegistry
<1>5. PICK V : struct \in Seq(V)
  <2>1. struct \in Seq({struct[1], struct[2], struct[3], struct[4], struct[5], struct[6], struct[7], struct[8], struct[9], struct[10]})
    BY <1>1 DEF TokenRegistry
  <2> QED
    BY <2>1
<1>6. /\ Offset(struct, 1) = 8
      /\ \A i \in 1..10 : Offset(struct, i + 1) = Offset(struct, i) + struct[i][2]
  BY <1>2, <1>4, <1>5, OffsetNext
<1>7. /\ Offset(struct, 2) = Offset(struct, 1) + 32
      /\ Offset(struct, 3) = Offset(struct, 2) + 32
      /\ Offset(struct, 4) = Offset(struct, 3) + 32
      /\ Offset(struct, 5) = Offset(struct, 4) + 32
      /\ Offset(struct, 6) = Offset(struct, 5) + 16
      /\ Offset(struct, 7) = Offset(struct, 6) + 1
      /\ Offset(struct, 8) = Offset(struct, 7) + 8
      /\ Offset(struct, 9) = Offset(struct, 8) + 32
      /\ Offset(struct, 10) = Offset(struct, 9) + 8
      /\ Offset(struct, 11) = Offset(struct, 10) + 1
  BY <1>3, <1>6
<1>8. /\ Offset(struct, 1) = 8 /\ Offset(struct, 2) = 40
      /\ Offset(struct, 3) = 72 /\ Offset(struct, 4) = 104
      /\ Offset(struct, 5) = 136 /\ Offset(struct, 6) = 152
      /\ Offset(struct, 7) = 153 /\ Offset(struct, 8) = 161
      /\ Offset(struct, 9) = 193 /\ Offset(struct, 10) = 201
      /\ Offset(struct, 11) = 202
  BY <1>6, <1>7
<1>9. {<<Offset(struct, i), struct[i][2], struct[i][1]>> : i \in DOMAIN struct} = RegistryCells
  BY <1>2, <1>3, <1>8 DEF RegistryCells
<1> QED
  BY <1>1, <1>8, <1>9 DEF Layouts

ConfigCells ==
  {<<8, 8, "fees">>, <<16, 32, "protocol_wallet">>,
   <<48, 32, "airdrop_wallet">>, <<80, 32, "antivamp_signer">>,
   <<112, 32, "migration_authority">>}

LEMMA ConfigLayout ==
  Layouts.config = ConfigCells /\ Offset(CurveConfiguration, 6) = 144
<1>1. PICK struct : struct = CurveConfiguration
  OBVIOUS
<1>2. Len(struct) = 5 /\ DOMAIN struct = 1..5
  BY <1>1 DEF CurveConfiguration
<1>3. /\ struct[1] = <<"fees", 8>>
      /\ struct[2] = <<"protocol_wallet", 32>>
      /\ struct[3] = <<"airdrop_wallet", 32>>
      /\ struct[4] = <<"antivamp_signer", 32>>
      /\ struct[5] = <<"migration_authority", 32>>
  BY <1>1 DEF CurveConfiguration
<1>4. \A i \in 1..5 : struct[i][2] \in Nat
  BY <1>1 DEF CurveConfiguration
<1>5. PICK V : struct \in Seq(V)
  <2>1. struct \in Seq({struct[1], struct[2], struct[3], struct[4], struct[5]})
    BY <1>1 DEF CurveConfiguration
  <2> QED
    BY <2>1
<1>6. /\ Offset(struct, 1) = 8
      /\ \A i \in 1..5 : Offset(struct, i + 1) = Offset(struct, i) + struct[i][2]
  BY <1>2, <1>4, <1>5, OffsetNext
<1>7. /\ Offset(struct, 2) = Offset(struct, 1) + 8
      /\ Offset(struct, 3) = Offset(struct, 2) + 32
      /\ Offset(struct, 4) = Offset(struct, 3) + 32
      /\ Offset(struct, 5) = Offset(struct, 4) + 32
      /\ Offset(struct, 6) = Offset(struct, 5) + 32
  BY <1>3, <1>6
<1>8. /\ Offset(struct, 1) = 8 /\ Offset(struct, 2) = 16
      /\ Offset(struct, 3) = 48 /\ Offset(struct, 4) = 80
      /\ Offset(struct, 5) = 112 /\ Offset(struct, 6) = 144
  BY <1>6, <1>7
<1>9. {<<Offset(struct, i), struct[i][2], struct[i][1]>> : i \in DOMAIN struct} = ConfigCells
  BY <1>2, <1>3, <1>8 DEF ConfigCells
<1> QED
  BY <1>1, <1>8, <1>9 DEF Layouts

-----------------------------------------------------------------------------
\* The cell of a field is the field, wherever no other starts there.
LEMMA FieldIsRead ==
  ASSUME NEW kind, NEW account, NEW o, NEW w, NEW f,
         <<o, w, f>> \in Layouts[kind],
         \A cell \in Layouts[kind] :
           /\ cell = <<cell[1], cell[2], cell[3]>>
           /\ cell[1] = o => cell[3] = f
  PROVE  Decode(kind, account, <<o, w>>) = account[f]
<1>1. \A x, y, z : SubSeq(<<x, y, z>>, 1, 2) = <<x, y>>
  <2>1. ASSUME NEW x, NEW y, NEW z
        PROVE  SubSeq(<<x, y, z>>, 1, 2) = <<x, y>>
    <3>1. PICK t : t = <<x, y, z>>
      OBVIOUS
    <3>2. t \in Seq({x, y, z}) /\ Len(t) = 3 /\ t[1] = x /\ t[2] = y
      BY <3>1
    <3>3. PICK u : u = SubSeq(t, 1, 2)
      OBVIOUS
    <3>4. u \in Seq({x, y, z}) /\ Len(u) = 2 /\ u[1] = x /\ u[2] = y
      BY <3>2, <3>3
    <3>5. u = <<x, y>>
      BY <3>4
    <3> QED
      BY <3>1, <3>3, <3>5
  <2> QED
    BY <2>1
<1>2. PICK hits : hits = {cell \in Layouts[kind] : SubSeq(cell, 1, 2) = <<o, w>>}
  OBVIOUS
<1>3. <<o, w, f>> \in hits
  BY <1>1, <1>2
<1>4. \A cell \in hits : cell[3] = f
  <2>1. ASSUME NEW cell \in hits
        PROVE  cell[3] = f
    <3>1. cell \in Layouts[kind] /\ SubSeq(cell, 1, 2) = <<o, w>>
      BY <1>2
    <3>2. PICK x, y, z : cell = <<x, y, z>>
      BY <3>1
    <3>3. x = o
      BY <1>1, <3>1, <3>2
    <3> QED
      BY <3>1, <3>2, <3>3
  <2> QED
    BY <2>1
<1>5. (CHOOSE cell \in hits : TRUE) \in hits
  BY <1>3
<1> QED
  BY <1>2, <1>3, <1>4, <1>5 DEF Decode

\* A reader finds a field where it takes it to be.
Finds(kind, f, at) ==
  \A account : Decode(kind, account, at) = account[f]

LEMMA PoolFields ==
  \A cell \in PoolCells : Finds("pool", cell[3], <<cell[1], cell[2]>>)
<1>1. ASSUME NEW cell \in PoolCells, NEW account
      PROVE  Decode("pool", account, <<cell[1], cell[2]>>) = account[cell[3]]
  <2>1. Layouts["pool"] = PoolCells
    BY PoolLayout
  <2>2. \A c \in PoolCells : c = <<c[1], c[2], c[3]>>
    BY DEF PoolCells
  <2>3. \A c \in PoolCells : c[1] = cell[1] => c[3] = cell[3]
    BY DEF PoolCells
  <2>4. PICK o, w, f : o = cell[1] /\ w = cell[2] /\ f = cell[3]
    OBVIOUS
  <2>5. <<o, w, f>> \in PoolCells
    BY <2>2, <2>4
  <2> QED
    BY <2>1, <2>2, <2>3, <2>4, <2>5, FieldIsRead
<1> QED
  BY <1>1 DEF Finds

LEMMA RegistryFields ==
  \A cell \in RegistryCells : Finds("registry", cell[3], <<cell[1], cell[2]>>)
<1>1. ASSUME NEW cell \in RegistryCells, NEW account
      PROVE  Decode("registry", account, <<cell[1], cell[2]>>) = account[cell[3]]
  <2>1. Layouts["registry"] = RegistryCells
    BY RegistryLayout
  <2>2. \A c \in RegistryCells : c = <<c[1], c[2], c[3]>>
    BY DEF RegistryCells
  <2>3. \A c \in RegistryCells : c[1] = cell[1] => c[3] = cell[3]
    BY DEF RegistryCells
  <2>4. PICK o, w, f : o = cell[1] /\ w = cell[2] /\ f = cell[3]
    OBVIOUS
  <2>5. <<o, w, f>> \in RegistryCells
    BY <2>2, <2>4
  <2> QED
    BY <2>1, <2>2, <2>3, <2>4, <2>5, FieldIsRead
<1> QED
  BY <1>1 DEF Finds

LEMMA ConfigFields ==
  \A cell \in ConfigCells : Finds("config", cell[3], <<cell[1], cell[2]>>)
<1>1. ASSUME NEW cell \in ConfigCells, NEW account
      PROVE  Decode("config", account, <<cell[1], cell[2]>>) = account[cell[3]]
  <2>1. Layouts["config"] = ConfigCells
    BY ConfigLayout
  <2>2. \A c \in ConfigCells : c = <<c[1], c[2], c[3]>>
    BY DEF ConfigCells
  <2>3. \A c \in ConfigCells : c[1] = cell[1] => c[3] = cell[3]
    BY DEF ConfigCells
  <2>4. PICK o, w, f : o = cell[1] /\ w = cell[2] /\ f = cell[3]
    OBVIOUS
  <2>5. <<o, w, f>> \in ConfigCells
    BY <2>2, <2>4
  <2> QED
    BY <2>1, <2>2, <2>3, <2>4, <2>5, FieldIsRead
<1> QED
  BY <1>1 DEF Finds

\* Every reader but the airdrop worker has the offsets right.
RightCells(kind, cells) == \A f \in DOMAIN cells : Finds(kind, f, cells[f])

LEMMA RightOffsets ==
  ASSUME NEW r \in DOMAIN Readers \ {"worker"}
  PROVE  /\ RightCells(Readers[r].of, Readers[r].cells)
         /\ RightCells(Readers[r].of, Readers[r].late)
         /\ Readers[r].of \in {"pool", "registry", "config"}
<1>1. r \in {"bot", "botConfig", "indexer", "indexerMints", "registries",
            "page", "feed"}
  BY DEF Readers
<1>2. /\ RightCells("pool", NoLate) /\ RightCells("registry", NoLate)
      /\ RightCells("config", NoLate)
  BY DEF RightCells, NoLate
<1>3. CASE r = "bot"
  <2>1. Readers[r] = pollForGraduations
    BY <1>3 DEF Readers
  <2>2. /\ Finds("pool", "graduated", <<105, 1>>)
        /\ Finds("pool", "token_one", <<8, 32>>)
    BY PoolFields DEF PoolCells
  <2>3. RightCells("pool", pollForGraduations.cells)
    BY <2>2 DEF RightCells, pollForGraduations
  <2>4. pollForGraduations.of = "pool" /\ pollForGraduations.late = NoLate
    BY DEF pollForGraduations
  <2> QED
    BY <1>2, <2>1, <2>3, <2>4
<1>4. CASE r = "botConfig"
  <2>1. Readers[r] = botWallets
    BY <1>4 DEF Readers
  <2>2. /\ Finds("config", "protocol_wallet", <<16, 32>>)
        /\ Finds("config", "airdrop_wallet", <<48, 32>>)
    BY ConfigFields DEF ConfigCells
  <2>3. RightCells("config", botWallets.cells)
    BY <2>2 DEF RightCells, botWallets
  <2>4. botWallets.of = "config" /\ botWallets.late = NoLate
    BY DEF botWallets
  <2> QED
    BY <1>2, <2>1, <2>3, <2>4
<1>5. CASE r = "indexer"
  <2>1. Readers[r] = poolReserves
    BY <1>5 DEF Readers
  <2>2. /\ Finds("pool", "reserve_one", <<80, 8>>)
        /\ Finds("pool", "reserve_two", <<88, 8>>)
    BY PoolFields DEF PoolCells
  <2>3. RightCells("pool", poolReserves.cells)
    BY <2>2 DEF RightCells, poolReserves
  <2>4. poolReserves.of = "pool" /\ poolReserves.late = NoLate
    BY DEF poolReserves
  <2> QED
    BY <1>2, <2>1, <2>3, <2>4
<1>6. CASE r = "indexerMints"
  <2>1. Readers[r] = fetchAllMints
    BY <1>6 DEF Readers
  <2>2. /\ Finds("registry", "mint", <<8, 32>>)
        /\ Finds("registry", "ticker_raw", <<136, 16>>)
    BY RegistryFields DEF RegistryCells
  <2>3. RightCells("registry", fetchAllMints.cells)
    BY <2>2 DEF RightCells, fetchAllMints
  <2>4. fetchAllMints.of = "registry" /\ fetchAllMints.late = NoLate
    BY DEF fetchAllMints
  <2> QED
    BY <1>2, <2>1, <2>3, <2>4
<1>7. CASE r = "registries"
  <2>1. Readers[r] = fetchDeployedTokens
    BY <1>7 DEF Readers
  <2>2. /\ Finds("registry", "mint", <<8, 32>>)
        /\ Finds("registry", "ticker_raw", <<136, 16>>)
        /\ Finds("registry", "protected", <<152, 1>>)
        /\ Finds("registry", "protected_at", <<153, 8>>)
        /\ Finds("registry", "creator", <<161, 32>>)
        /\ Finds("registry", "created_at", <<193, 8>>)
    BY RegistryFields DEF RegistryCells
  <2>3. RightCells("registry", fetchDeployedTokens.cells)
    BY <2>2 DEF RightCells, fetchDeployedTokens
  <2>4. fetchDeployedTokens.of = "registry" /\ fetchDeployedTokens.late = NoLate
    BY DEF fetchDeployedTokens
  <2> QED
    BY <1>2, <2>1, <2>3, <2>4
<1>8. CASE r \in {"page", "feed"}
  <2>1. Readers[r] = fetchPoolData
    BY <1>8 DEF Readers, fetchAllTokensWithPools
  <2>2. /\ Finds("pool", "reserve_one", <<80, 8>>)
        /\ Finds("pool", "reserve_two", <<88, 8>>)
        /\ Finds("pool", "launch_timestamp", <<97, 8>>)
        /\ Finds("pool", "graduated", <<105, 1>>)
        /\ Finds("pool", "total_sol_raised", <<106, 8>>)
        /\ Finds("pool", "creator", <<114, 32>>)
        /\ Finds("pool", "airdrop_pool", <<146, 8>>)
        /\ Finds("pool", "graduation_ts", <<154, 8>>)
        /\ Finds("pool", "meteora_pool", <<162, 32>>)
        /\ Finds("pool", "migration_complete", <<194, 1>>)
    BY PoolFields DEF PoolCells
  <2>3. RightCells("pool", fetchPoolData.cells) /\ RightCells("pool", fetchPoolData.late)
    BY <2>2 DEF RightCells, fetchPoolData
  <2>4. fetchPoolData.of = "pool"
    BY DEF fetchPoolData
  <2> QED
    BY <1>2, <2>1, <2>3, <2>4
<1> QED
  BY <1>1, <1>3, <1>4, <1>5, <1>6, <1>7, <1>8


LEMMA SeenIsSo ==
  ASSUME NEW r \in DOMAIN Readers \ {"worker"}, NEW m
  PROVE  \A f \in DOMAIN Seen(r, m) : Seen(r, m)[f] = Of(r, m)[f]
<1>1. PICK by, kind : by = Readers[r] /\ kind = by.of
  OBVIOUS
<1>2. RightCells(kind, by.cells) /\ RightCells(kind, by.late)
  BY <1>1, RightOffsets
<1>3. PICK late, account : /\ late = IF Space[by.of] >= 195 THEN DOMAIN by.late ELSE {}
                           /\ account = Of(r, m)
  OBVIOUS
<1>4. PICK seen : seen = Seen(r, m)
  OBVIOUS
<1>5. seen = [f \in DOMAIN by.cells \cup late |->
                Decode(kind, account, IF f \in late THEN by.late[f] ELSE by.cells[f])]
  BY <1>1, <1>3, <1>4 DEF Seen
<1>6. ASSUME NEW f \in DOMAIN by.cells \cup late
      PROVE  seen[f] = account[f]
  <2>1. CASE f \in late
    <3>1. f \in DOMAIN by.late
      BY <1>3, <2>1
    <3>2. Decode(kind, account, by.late[f]) = account[f]
      BY <1>2, <3>1 DEF RightCells, Finds
    <3> QED
      BY <1>5, <2>1, <3>2
  <2>2. CASE f \notin late
    <3>1. f \in DOMAIN by.cells
      BY <2>2
    <3>2. Decode(kind, account, by.cells[f]) = account[f]
      BY <1>2, <3>1 DEF RightCells, Finds
    <3> QED
      BY <1>5, <2>2, <3>2
  <2> QED
    BY <2>1, <2>2
<1> QED
  BY <1>3, <1>4, <1>5, <1>6

\* A pool is long enough for its page, a registry as long as it is asked for.
LEMMA FoundIsThere ==
  ASSUME PoolSpace \in Nat, PoolSpace >= 154,
         NEW r \in DOMAIN Readers \ {"bot", "worker"}, NEW m
  PROVE  Found(r, m) <=> Of(r, m) # NoAccount
<1>1. r \in {"botConfig", "indexer", "indexerMints", "registries", "page", "feed"}
  BY DEF Readers
<1>2. Space.pool = PoolSpace /\ Space.registry = 202 /\ Space.config = 144
  <2>1. Len(TokenRegistry) = 10 /\ Len(CurveConfiguration) = 5
    BY DEF TokenRegistry, CurveConfiguration
  <2>2. Len(TokenRegistry) + 1 = 11 /\ Len(CurveConfiguration) + 1 = 6
    BY <2>1
  <2>3. Space.registry = Offset(TokenRegistry, 11)
        /\ Space.config = Offset(CurveConfiguration, 6) /\ Space.pool = PoolSpace
    BY <2>2 DEF Space
  <2> QED
    BY <2>3, RegistryLayout, ConfigLayout
<1>3. PICK by : by = Readers[r]
  OBVIOUS
<1>4. \/ by.of = "config" /\ by.least = 0 /\ by.scan = {}
      \/ by.of = "pool" /\ by.least \in {96, 154} /\ by.scan = {}
      \/ by.of = "registry" /\ by.least = 0 /\ by.scan = {202}
  <2>1. r = "botConfig" => by = botWallets
    BY <1>3 DEF Readers
  <2>2. r = "indexer" => by = poolReserves
    BY <1>3 DEF Readers
  <2>3. r = "indexerMints" => by = fetchAllMints
    BY <1>3 DEF Readers
  <2>4. r = "registries" => by = fetchDeployedTokens
    BY <1>3 DEF Readers
  <2>5. r \in {"page", "feed"} => by = fetchPoolData
    BY <1>3 DEF Readers, fetchAllTokensWithPools
  <2>6. /\ botWallets.of = "config" /\ botWallets.least = 0
        /\ botWallets.scan = {}
        /\ poolReserves.of = "pool" /\ poolReserves.least = 96
        /\ poolReserves.scan = {}
        /\ fetchAllMints.of = "registry" /\ fetchAllMints.least = 0
        /\ fetchAllMints.scan = {202}
        /\ fetchDeployedTokens.of = "registry" /\ fetchDeployedTokens.least = 0
        /\ fetchDeployedTokens.scan = {202}
        /\ fetchPoolData.of = "pool" /\ fetchPoolData.least = 154
        /\ fetchPoolData.scan = {}
    BY DEF botWallets, poolReserves, fetchAllMints, fetchDeployedTokens, fetchPoolData
  <2> QED
    BY <1>1, <2>1, <2>2, <2>3, <2>4, <2>5, <2>6
<1>5. Space[by.of] >= by.least /\ (by.scan # {} => Space[by.of] \in by.scan)
  BY <1>2, <1>4
<1> QED
  BY <1>3, <1>5 DEF Found

\* Each program finds the fields of the structs where they are, and the
\* accounts of the program by the sizes they have, whatever the program does
\* with them (solana.js:420-583, indexer.js:81-93, the bot's index.js:466-470);
\* the hypothesis is that of solana.js:494, on state.rs:69.
THEOREM FieldsAreRead ==
  ASSUME PoolSpace \in Nat, PoolSpace >= 154
  PROVE  Spec => ReadsAreOfTheField
<1>1. ASSUME NEW r \in DOMAIN Readers, NEW m \in Mints, Read(r, m)
      PROVE  LET reader == lastRead'.reader
                 account == Of(reader, lastRead'.mint)
             IN /\ lastRead'.found /\ reader # "worker" =>
                     \A f \in DOMAIN lastRead'.seen : lastRead'.seen[f] = account[f]
                /\ reader \notin {"bot", "worker"} =>
                     (lastRead'.found <=> account # NoAccount)
  <2>1. PICK to : to = lastRead'
    OBVIOUS
  <2>2. to = IF Found(r, m)
               THEN [reader |-> r, mint |-> m, found |-> TRUE, seen |-> Seen(r, m)]
               ELSE [reader |-> r, mint |-> m, found |-> FALSE]
    BY <1>1, <2>1 DEF Read
  <2>3. to.reader = r /\ to.mint = m /\ (to.found <=> Found(r, m))
    BY <2>2
  <2>4. to.found => to.seen = Seen(r, m)
    BY <2>2
  <2>5. r # "worker" => \A f \in DOMAIN Seen(r, m) : Seen(r, m)[f] = Of(r, m)[f]
    BY SeenIsSo
  <2>6. r \notin {"bot", "worker"} => (Found(r, m) <=> Of(r, m) # NoAccount)
    BY FoundIsThere
  <2> QED
    BY <2>1, <2>3, <2>4, <2>5, <2>6
<1>2. [Next]_vars =>
        [Reading =>
           LET reader == lastRead'.reader
               account == Of(reader, lastRead'.mint)
           IN /\ lastRead'.found /\ reader # "worker" =>
                   \A f \in DOMAIN lastRead'.seen : lastRead'.seen[f] = account[f]
              /\ reader \notin {"bot", "worker"} =>
                   (lastRead'.found <=> account # NoAccount)]_vars
  <2>1. ASSUME Next, Reading
        PROVE  \E r \in DOMAIN Readers, m \in Mints : Read(r, m)
    BY <2>1, ZenonT(60) DEF Next, Reading, create_token_registry, add_liquidity, swap
  <2> QED
    BY <1>1, <2>1, SMTT(30)
<1> QED
  BY <1>2, PTL DEF Spec, ReadsAreOfTheField
=============================================================================
