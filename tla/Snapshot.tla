------------------------------ MODULE Snapshot ------------------------------
(***************************************************************************)
(* The airdrop snapshot worker (airdrop-worker-v2.js): once a day it gives *)
(* every holder of every token points for the value of the holding and for *)
(* the days it has been held.  It keeps a row per day, token and wallet in *)
(* airdrop_snapshots and a running total per token and wallet in           *)
(* airdrop_totals, and catches up on the days it missed.                   *)
(*                                                                         *)
(* There is one worker process, as a daemon or started by cron, or there   *)
(* are two that know nothing of each other: nothing keeps a second one     *)
(* from being started while the first is at work.  A request to the        *)
(* database or to the RPC node may fail, one that writes may take effect   *)
(* and lose its reply, a process may crash between two requests and be     *)
(* started again the same day or days later.                               *)
(*                                                                         *)
(* Days are numbered, points are counted in halves, a wallet has one token *)
(* account of a mint, and what it holds is its value in dollars.           *)
(***************************************************************************)
EXTENDS Integers, FiniteSets, FiniteSetsExt, Functions, Sequences, SequencesExt

CONSTANTS
  Workers,     \* processes
  Tokens,      \* mints with a pool
  Loyal,       \* wallets that hold every token every day
  Visitors,    \* of each token, the wallets that hold it on some days
  HoldingUsd,  \* what a holding may be worth
  Days,        \* days the worker may find itself on
  BATCH_SIZE,
  MAX_BACKFILL,
  MaxFaults    \* bound on failed requests and crashes

Wallets == Loyal \cup UNION {Visitors[m] : m \in Tokens}

ASSUME SnapshotAssumption ==
  /\ IsFiniteSet(Wallets)
  /\ HoldingUsd \subseteq Nat
  /\ Days \subseteq Nat \ {0}
  /\ BATCH_SIZE \in Nat \ {0}
  /\ {MAX_BACKFILL, MaxFaults} \subseteq Nat

None == 0      \* no last_snapshot_date

VARIABLES
  today,
  snapshots,   \* the rows of airdrop_snapshots
  totals,      \* airdrop_totals: a row for each mint and wallet, or NoTotal
  lastDate,    \* last_snapshot_date of airdrop_worker_state
  worker,      \* the run of each process
  faults,
  owed         \* days the worker has reached and not declared lost (history)

snapshotVars == <<today, snapshots, totals, lastDate, worker, faults, owed>>

-----------------------------------------------------------------------------
(***************************************************************************)
(* Points.                                                                 *)
(***************************************************************************)
TIERS == {[min |-> 100000, pts |-> 250], [min |-> 10000, pts |-> 150],
          [min |-> 1000, pts |-> 80], [min |-> 100, pts |-> 30],
          [min |-> 0, pts |-> 10]}

getTier(holdingUsd) ==
  CHOOSE t \in TIERS :
    /\ holdingUsd >= t.min
    /\ \A u \in TIERS : holdingUsd >= u.min => u.min <= t.min

\* In halves: 0.5, 1 from the first day, 1.5 from the seventh, 2 from the
\* thirtieth.
getTimeMultiplier(daysHeld) ==
  1 + Cardinality({d \in {1, 7, 30} : daysHeld >= d})

dailyPts(holdingUsd, daysHeld) ==
  getTier(holdingUsd).pts * getTimeMultiplier(daysHeld)

NoTotal == [points |-> 0, first_seen |-> None, last |-> None, days |-> 0]

firstSeen(existing, date) ==
  IF existing = NoTotal THEN date ELSE existing.first_seen

daysHeld(from, date) == Max({0, date - from})

\* What one holder's row and new total are.
Entry(m, date, wallet, usd) ==
  LET existing == totals[m][wallet]
      seen == firstSeen(existing, date)
      held == daysHeld(seen, date)
      pts == dailyPts(usd, held)
  IN [row |-> [mint |-> m, date |-> date, wallet |-> wallet,
               days |-> held, points |-> pts],
      total |-> [points |-> existing.points + pts, first_seen |-> seen,
                 last |-> date, days |-> existing.days + 1]]

-----------------------------------------------------------------------------
(***************************************************************************)
(* A run.  pc is "tokens" between two tokens, "read" once the day was      *)
(* found not done for one, "snapshots" and "totals" while its batches are  *)
(* written.                                                                *)
(***************************************************************************)
Idle == [pc |-> "idle", date |-> None, dates |-> <<>>, tokens |-> {},
         mint |-> None, entries |-> <<>>, done |-> 0]

SnapshotInit ==
  /\ today \in Days
  /\ snapshots = {}
  /\ totals = [m \in Tokens |-> [w \in Wallets |-> NoTotal]]
  /\ lastDate = None
  /\ worker = [p \in Workers |-> Idle]
  /\ faults = 0
  /\ owed = {}

Fails ==
  /\ faults < MaxFaults
  /\ faults' = faults + 1

daysMissed(date) == date - lastDate - 1

CanBackfill(date) ==
  lastDate # None /\ daysMissed(date) \in 1..MAX_BACKFILL

DatesOfRun_Short(date) ==
  IF CanBackfill(date)
  THEN [d \in 1..daysMissed(date) - 1 |-> lastDate + d] \o <<date>>
  ELSE <<date>>

\* The missed days in order, then today.
DatesOfRun(date) ==
  IF CanBackfill(date)
  THEN [d \in 1..daysMissed(date) |-> lastDate + d] \o <<date>>
  ELSE <<date>>

Goes(p, to) == worker' = [worker EXCEPT ![p] = to]

\* runSnapshot up to its first token.
Start(p) ==
  /\ worker[p].pc = "idle"
  /\ Goes(p, [Idle EXCEPT !.pc = "tokens", !.date = today,
                          !.dates = DatesOfRun(today), !.tokens = Tokens])
  /\ UNCHANGED <<today, snapshots, totals, lastDate, faults, owed>>

\* The process dies, a request outside the tokens' try blocks throws, or no
\* token is found.
Crash(p) ==
  /\ worker[p].pc # "idle"
  /\ Fails
  /\ Goes(p, Idle)
  /\ UNCHANGED <<today, snapshots, totals, lastDate, owed>>

\* On to the day's next token, or to the next day of the run.
LeaveToken(run, m) ==
  LET through == run.tokens = {m} /\ Len(run.dates) > 1
  IN [run EXCEPT !.pc = "tokens",
                 !.tokens = IF through THEN Tokens ELSE @ \ {m},
                 !.dates = IF through THEN Tail(@) ELSE @,
                 !.mint = None, !.entries = <<>>, !.done = 0]

snapshotExistsForDate_ByState(m, date) == date <= lastDate

snapshotExistsForDate(m, date) ==
  \E r \in snapshots : r.mint = m /\ r.date = date

\* A failed request inside a token's try block: the token is left out.
Dropped(p, m) ==
  /\ Fails
  /\ Goes(p, LeaveToken(worker[p], m))

\* Whether the day is done already.
Look(p, m) ==
  LET run == worker[p]
  IN /\ run.pc = "tokens" /\ m \in run.tokens
     /\ \/ /\ Goes(p, IF snapshotExistsForDate(m, Head(run.dates))
                      THEN LeaveToken(run, m)
                      ELSE [run EXCEPT !.pc = "read", !.mint = m])
           /\ UNCHANGED faults
        \/ Dropped(p, m)
     /\ UNCHANGED <<today, snapshots, totals, lastDate, owed>>

\* fetchAllHolders: everybody who holds the token, in some order; when pages
\* fail, those of the pages before, and nobody when the fallback fails too.
Fetched(m, H) ==
  /\ H \subseteq Loyal \cup Visitors[m]
  /\ IF Loyal \subseteq H THEN UNCHANGED faults ELSE Fails

\* snapshotTokenForDate from there to its first write.
ReadTotals(p) ==
  LET run == worker[p]
      m == run.mint
  IN /\ run.pc = "read"
     /\ \/ \E H \in SUBSET Wallets, usd \in [Wallets -> HoldingUsd] :
             /\ Fetched(m, H)
             /\ \E order \in SetToSeqs(H) :
                  Goes(p,
                    IF H = {} THEN LeaveToken(run, m)
                    ELSE [run EXCEPT !.pc = "snapshots",
                            !.entries = [i \in DOMAIN order |->
                              Entry(m, Head(run.dates), order[i], usd[order[i]])]])
        \/ Dropped(p, m)
     /\ UNCHANGED <<today, snapshots, totals, lastDate, owed>>

Chunk(run) == run.done + 1 .. Min({run.done + BATCH_SIZE, Len(run.entries)})

\* After a chunk: the next one, or whatever follows the last.
Advance(p, then) ==
  LET reached == Max(Chunk(worker[p]))
  IN  Goes(p, IF reached < Len(worker[p].entries)
              THEN [worker[p] EXCEPT !.done = reached] ELSE then)

\* One batch: written, written without a reply, or not written; without a
\* reply the token is left as it is.
Post(p, write, keep, then) ==
  \/ write /\ Advance(p, then) /\ UNCHANGED faults
  \/ write /\ Dropped(p, worker[p].mint)
  \/ keep /\ Dropped(p, worker[p].mint)

\* Rows have the key (mint, date, wallet) and a batch overwrites them.
WriteSnapshots(p) ==
  LET run == worker[p]
      rows == {run.entries[i].row : i \in Chunk(run)}
      Same(r, s) == r.mint = s.mint /\ r.date = s.date /\ r.wallet = s.wallet
  IN /\ run.pc = "snapshots"
     /\ Post(p,
             snapshots' = {r \in snapshots : \A s \in rows : ~Same(r, s)}
                          \cup rows,
             UNCHANGED snapshots,
             [run EXCEPT !.pc = "totals", !.done = 0])
     /\ UNCHANGED <<today, totals, lastDate, owed>>

\* The total is what was computed from the row read before the writes.
WriteTotals(p) ==
  LET run == worker[p]
      Upserted(w) == {run.entries[i].total :
                        i \in {j \in Chunk(run) : run.entries[j].row.wallet = w}}
  IN /\ run.pc = "totals"
     /\ Post(p,
             totals' = [totals EXCEPT ![run.mint] =
                [w \in Wallets |-> IF Upserted(w) = {} THEN @[w]
                                   ELSE CHOOSE t \in Upserted(w) : TRUE]],
             UNCHANGED totals,
             LeaveToken(run, run.mint))
     /\ UNCHANGED <<today, snapshots, lastDate, owed>>

\* Today's tokens are through: the date is recorded, whatever failed.
Finish(p) ==
  LET run == worker[p]
  IN /\ run.pc = "tokens" /\ run.tokens = {}
     /\ lastDate' = run.date
     /\ Goes(p, Idle)
     /\ owed' = owed \cup
          (IF lastDate # None /\ daysMissed(run.date) <= MAX_BACKFILL
           THEN lastDate + 1 .. run.date ELSE {run.date})
     /\ UNCHANGED <<today, snapshots, totals, faults>>

Tick ==
  /\ \E d \in Days : d > today /\ today' = d
  /\ UNCHANGED <<snapshots, totals, lastDate, worker, faults, owed>>

SnapshotNext ==
  \/ Tick
  \/ \E p \in Workers :
       \/ Start(p) \/ (\E m \in Tokens : Look(p, m)) \/ ReadTotals(p)
       \/ WriteSnapshots(p) \/ WriteTotals(p) \/ Finish(p)
       \/ Crash(p)

SnapshotSpec == SnapshotInit /\ [][SnapshotNext]_snapshotVars

-----------------------------------------------------------------------------
SnapshotTypeOK ==
  /\ today \in Days
  /\ \A r \in snapshots :
       /\ DOMAIN r = {"mint", "date", "wallet", "days", "points"}
       /\ r.mint \in Tokens /\ r.wallet \in Wallets
       /\ r.date \in 1..today /\ r.days \in 0..today /\ r.points \in Nat
  /\ totals \in [Tokens -> [Wallets ->
       [points : Nat, first_seen : 0..today, last : 0..today, days : Nat]]]
  /\ lastDate \in 0..today
  /\ \A p \in Workers :
       /\ worker[p].pc \in {"idle", "tokens", "read", "snapshots", "totals"}
       /\ worker[p].tokens \subseteq Tokens
       /\ worker[p].done \in 0..Len(worker[p].entries)
  /\ faults \in 0..MaxFaults
  /\ owed \subseteq 1..today

RowsOf(m, w) == {r \in snapshots : r.mint = m /\ r.wallet = w}

PointsOf(rows) == SumFunctionOnSet([r \in rows |-> r.points], rows)

\* A wallet's total never exceeds the points its rows account for, whatever
\* is run again, caught up on or lost: "Idempotent writes (safe to re-run same
\* day)" (airdrop-worker-v2.js:10).
NeverOverCredited ==
  \A m \in Tokens, w \in Wallets :
    totals[m][w].points <= PointsOf(RowsOf(m, w))

\* The owed days a wallet has no row of, and the rows its total lacks.
Uncounted(m, w) ==
  Cardinality({d \in owed : \A r \in RowsOf(m, w) : r.date # d})
    + Cardinality(RowsOf(m, w)) - totals[m][w].days

\* A failed request or a crash costs the holders of one token one day at
\* most: every other day the worker reached, or missed by no more than
\* MAX_BACKFILL days, is in the rows and in the totals once a run is over.
OneFaultOneTokenDay ==
  (\A p \in Workers : worker[p].pc = "idle") =>
    SumFunctionOnSet([m \in Tokens |-> Max({Uncounted(m, w) : w \in Loyal})],
                     Tokens) <= faults
=============================================================================
