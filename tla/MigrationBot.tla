---------------------------- MODULE MigrationBot ----------------------------
(***************************************************************************)
(* The migration bot: it polls the chain for graduated pools and takes     *)
(* each through prepare_migration, release_escrow, the creation of a       *)
(* Meteora pool and the locking of its liquidity, recording its progress   *)
(* in a row of the graduated_pools table.  A step of the model is one      *)
(* await: between any two, another poll, the administrator or a crash may  *)
(* come in.                                                                *)
(*                                                                         *)
(* The chain is seen as PoolLifecycle promises it (Pump implements it):    *)
(* the tokens of a pool move as a whole, so they are in the bot's wallet   *)
(* or they are not; SOL is counted, because the bot's wallet mixes the     *)
(* SOL of all pools.  Transaction fees are left out.                       *)
(***************************************************************************)
EXTENDS Integers, FiniteSets

CONSTANTS
  Mints,
  Flows,            \* polls that may run at once: setInterval does not wait
  POOL_SIZE,        \* size of the accounts the bot asks for
  AccountSize,      \* size each pool was created with
  Accepts,          \* pools whose release_escrow the program takes from the bot
  PoolSol,          \* SOL prepare_migration puts into each escrow
  BotSol,           \* SOL the bot starts with
  KEEP,             \* SOL step 3 leaves in the wallet
  CrashPoints,      \* where the process may crash
  MaxCrashes, MaxFailures, MaxCancels, MaxStrangers   \* bounds

\* A pool graduates at 85 SOL; the bot keeps a twentieth of one.
ASSUME BotAssumption ==
  /\ "none" \notin Mints
  /\ PoolSol \in [Mints -> Nat] /\ BotSol \in Nat /\ KEEP \in Nat
  /\ \A m \in Mints : PoolSol[m] > KEEP
  /\ Accepts \subseteq Mints
  /\ MaxCrashes \in Nat /\ MaxFailures \in Nat
  /\ MaxCancels \in Nat /\ MaxStrangers \in Nat

VARIABLES
  phase,      \* of each pool, as in PoolLifecycle
  opened,     \* mints whose escrow has its accounts
  botSol,     \* SOL in the bot's wallet
  botTok,     \* mints whose tokens are in the bot's wallet
  wsol,       \* SOL the bot has wrapped
  meteora,    \* the Meteora pool of each mint
  row,        \* the row of each mint in graduated_pools
  flow,       \* the polls
  faults      \* what has gone wrong so far, for the bounds

chain == <<phase, opened, botSol, botTok, wsol, meteora>>

vars == <<chain, row, flow, faults>>

NoRow == [status |-> "none", pool |-> FALSE, lock |-> FALSE]

NoMeteora == [exists |-> FALSE, sol |-> 0, locked |-> FALSE]

Idle == [pc |-> "idle", todo |-> {}, mint |-> "none", row |-> NoRow, sol |-> 0]

Init ==
  /\ phase = [m \in Mints |-> "curve"]
  /\ opened = {}
  /\ botSol = BotSol
  /\ botTok = {}
  /\ wsol = 0
  /\ meteora = [m \in Mints |-> NoMeteora]
  /\ row = [m \in Mints |-> NoRow]
  /\ flow = [f \in Flows |-> Idle]
  /\ faults = [crashes |-> 0, failures |-> 0, cancels |-> 0, strangers |-> 0]

-----------------------------------------------------------------------------
(***************************************************************************)
(* How an await ends.  Ends: it returns and the flow goes on at pc; a      *)
(* call that took effect may still throw, its reply lost.  Refused: the    *)
(* callee rejects the call.  Lost: the call fails and has no effect.       *)
(***************************************************************************)
At(f, pc) == flow[f].pc = pc

Mint(f) == flow[f].mint

Fails ==
  /\ faults.failures < MaxFailures
  /\ faults' = [faults EXCEPT !.failures = @ + 1]

\* The poll's loop goes on with the next mint, if there is one.
AfterMint(f) ==
  [Idle EXCEPT !.pc = IF flow[f].todo = {} THEN "idle" ELSE "check",
               !.todo = flow[f].todo]

Goes(f, to) == flow' = [flow EXCEPT ![f] = to]

Ends(f, pc) ==
  \/ Goes(f, [flow[f] EXCEPT !.pc = pc]) /\ UNCHANGED faults
  \/ Goes(f, [flow[f] EXCEPT !.pc = "failed"]) /\ Fails

Refused(f) ==
  /\ Goes(f, [flow[f] EXCEPT !.pc = "failed"])
  /\ UNCHANGED <<chain, row, faults>>

\* The awaits of runMigration's try block.
Awaits == {"begin", "prepare", "record", "reread", "release", "readSol",
           "readTok", "wrap", "create", "recordPool", "lock", "recordLock",
           "live"}

Lost(f) ==
  /\ flow[f].pc \in Awaits
  /\ Goes(f, [flow[f] EXCEPT !.pc = "failed"])
  /\ Fails
  /\ UNCHANGED <<chain, row>>

-----------------------------------------------------------------------------
(***************************************************************************)
(* pollForGraduations: the graduated pools among the accounts of the size  *)
(* asked for, one after the other, but those whose row says live.  A       *)
(* failed query ends the poll.                                             *)
(***************************************************************************)
Graduated(m) == phase[m] \notin {"none", "curve"}

Found == {m \in Mints : AccountSize[m] = POOL_SIZE /\ Graduated(m)}

Poll(f) ==
  /\ At(f, "idle")
  /\ Found # {}
  /\ Goes(f, [Idle EXCEPT !.pc = "check", !.todo = Found])
  /\ UNCHANGED <<chain, row, faults>>

Check(f) ==
  /\ At(f, "check")
  /\ \/ \E m \in flow[f].todo :
          LET rest == [flow[f] EXCEPT !.todo = @ \ {m}] IN
          /\ Goes(f, IF row[m].status # "live"
                     THEN [rest EXCEPT !.pc = "begin", !.mint = m]
                     ELSE IF rest.todo = {} THEN Idle ELSE rest)
          /\ UNCHANGED faults
     \/ Goes(f, Idle) /\ Fails
  /\ UNCHANGED <<chain, row>>

\* What is left to do, by the flow's own copy of the row.
Remaining_WithoutLock(r) == IF ~r.pool THEN "release" ELSE "live"

Remaining(r) ==
  IF ~r.pool THEN "release" ELSE IF ~r.lock THEN "lock" ELSE "live"

\* No row, or one that says failed, means step 1.
FromStep1_NoRow(r) == r.status = "none"

FromStep1(r) == r.status \in {"none", "failed"}

\* runMigration starts.
Begin(f) ==
  LET r == row[Mint(f)] IN
  /\ At(f, "begin")
  /\ Goes(f, [flow[f] EXCEPT !.row = r,
                !.pc = IF FromStep1(r) THEN "prepare" ELSE Remaining(r)])
  /\ UNCHANGED <<chain, row, faults>>

(***************************************************************************)
(* Step 1: prepare_migration, then INSERT or PATCH, then the row again.    *)
(***************************************************************************)
Escrow(m) ==
  /\ phase' = [phase EXCEPT ![m] = "escrowed"]
  /\ opened' = opened \cup {m}

CanPrepare(m) == phase[m] = "graduated"

Prepare(f) ==
  /\ At(f, "prepare")
  /\ \/ /\ CanPrepare(Mint(f))
        /\ Escrow(Mint(f))
        /\ Ends(f, "record")
        /\ UNCHANGED <<botSol, botTok, wsol, meteora, row>>
     \/ ~CanPrepare(Mint(f)) /\ Refused(f)

\* The table is keyed by mint: a second INSERT is refused.
Record(f) ==
  LET m == Mint(f) IN
  /\ At(f, "record")
  /\ \/ /\ flow[f].row = NoRow => row[m] = NoRow
        /\ row' = [row EXCEPT ![m].status = "pending"]
        /\ Ends(f, "reread")
        /\ UNCHANGED chain
     \/ flow[f].row = NoRow /\ row[m] # NoRow /\ Refused(f)

Reread(f) ==
  LET r == row[Mint(f)] IN
  /\ At(f, "reread")
  /\ Goes(f, [flow[f] EXCEPT !.row = r, !.pc = Remaining(r)])
  /\ UNCHANGED <<chain, row, faults>>

(***************************************************************************)
(* Step 2: release_escrow.  The rent an escrow keeps makes a second        *)
(* release succeed and move nothing.  With the eight accounts the bot      *)
(* lists, where the program has more, every call is refused: Accepts is    *)
(* then empty.                                                             *)
(***************************************************************************)
EscrowFunded_Once(m) == m \in opened

EscrowFunded(m) == phase[m] = "escrowed"

CanRelease(m) == m \in Accepts /\ m \in opened

Release(f) ==
  LET m == Mint(f) IN
  /\ At(f, "release")
  /\ \/ /\ CanRelease(m)
        /\ IF EscrowFunded(m)
           THEN /\ phase' = [phase EXCEPT ![m] = "paid"]
                /\ botSol' = botSol + PoolSol[m]
                /\ botTok' = botTok \cup {m}
           ELSE UNCHANGED <<phase, botSol, botTok>>
        /\ Ends(f, "readSol")
        /\ UNCHANGED <<opened, wsol, meteora, row>>
     \/ ~CanRelease(m) /\ Refused(f)

(***************************************************************************)
(* Step 3: all the SOL of the wallet but KEEP and all its tokens of the    *)
(* mint go into a Meteora pool: two reads, a wrap, a creation.             *)
(***************************************************************************)
SolForPool_All == botSol

SolForPool == botSol - KEEP

ReadSol(f) ==
  /\ At(f, "readSol")
  /\ Goes(f, [flow[f] EXCEPT !.sol = SolForPool, !.pc = "readTok"])
  /\ UNCHANGED <<chain, row, faults>>

Enough(m, amount) == amount > 0 /\ m \in botTok

ReadTok(f) ==
  /\ At(f, "readTok")
  /\ \/ /\ Enough(Mint(f), flow[f].sol)
        /\ Goes(f, [flow[f] EXCEPT !.pc = "wrap"])
        /\ UNCHANGED <<chain, row, faults>>
     \/ ~Enough(Mint(f), flow[f].sol) /\ Refused(f)

Wrap(f) ==
  LET amount == flow[f].sol IN
  /\ At(f, "wrap")
  /\ \/ /\ botSol >= amount
        /\ botSol' = botSol - amount
        /\ wsol' = wsol + amount
        /\ Ends(f, "create")
        /\ UNCHANGED <<phase, opened, botTok, meteora, row>>
     \/ botSol < amount /\ Refused(f)

CanCreate(m, amount) ==
  ~meteora[m].exists /\ m \in botTok /\ wsol >= amount

Create(f) ==
  LET m == Mint(f)
      amount == flow[f].sol IN
  /\ At(f, "create")
  /\ \/ /\ CanCreate(m, amount)
        /\ meteora' = [meteora EXCEPT ![m] =
             [exists |-> TRUE, sol |-> amount, locked |-> FALSE]]
        /\ botTok' = botTok \ {m}
        /\ wsol' = wsol - amount
        /\ Ends(f, "recordPool")
        /\ UNCHANGED <<phase, opened, botSol, row>>
     \/ ~CanCreate(m, amount) /\ Refused(f)

\* A PATCH of columns of the mint's row; of no row, it changes nothing.
Patch(m, r) == row' = [row EXCEPT ![m] = IF @ = NoRow THEN NoRow ELSE r]

RecordPool(f) ==
  LET m == Mint(f) IN
  /\ At(f, "recordPool")
  /\ Patch(m, [row[m] EXCEPT !.pool = TRUE])
  /\ Ends(f, "reread")
  /\ UNCHANGED chain

(***************************************************************************)
(* Step 4: the lock.  What Meteora answers to a second lock is not known.  *)
(***************************************************************************)
Lock(f) ==
  LET m == Mint(f) IN
  /\ At(f, "lock")
  /\ \/ /\ meteora[m].exists
        /\ meteora' = [meteora EXCEPT ![m].locked = TRUE]
        /\ Ends(f, "recordLock")
        /\ UNCHANGED <<phase, opened, botSol, botTok, wsol, row>>
     \/ (~meteora[m].exists \/ meteora[m].locked) /\ Refused(f)

RecordLock(f) ==
  LET m == Mint(f) IN
  /\ At(f, "recordLock")
  /\ Patch(m, [row[m] EXCEPT !.lock = TRUE])
  /\ Ends(f, "live")
  /\ UNCHANGED chain

\* Step 5.
MarkLive(f) ==
  LET m == Mint(f) IN
  /\ At(f, "live")
  /\ Patch(m, [row[m] EXCEPT !.status = "live"])
  /\ \/ Goes(f, AfterMint(f)) /\ UNCHANGED faults
     \/ Goes(f, [flow[f] EXCEPT !.pc = "failed"]) /\ Fails
  /\ UNCHANGED chain

\* The catch block; an error of its own PATCH is swallowed.
MarkFailed(f) ==
  LET m == Mint(f) IN
  /\ At(f, "failed")
  /\ \/ Patch(m, [row[m] EXCEPT !.status = "failed"]) /\ UNCHANGED faults
     \/ UNCHANGED row /\ Fails
  /\ Goes(f, AfterMint(f))
  /\ UNCHANGED chain

Step(f) ==
  \/ Poll(f) \/ Check(f) \/ Begin(f)
  \/ Prepare(f) \/ Record(f) \/ Reread(f) \/ Release(f)
  \/ ReadSol(f) \/ ReadTok(f) \/ Wrap(f) \/ Create(f) \/ RecordPool(f)
  \/ Lock(f) \/ RecordLock(f) \/ MarkLive(f) \/ MarkFailed(f)

-----------------------------------------------------------------------------
(***************************************************************************)
(* What the bot does not control: a pool graduates; the protocol wallet    *)
(* cancels an escrow; somebody else calls prepare_migration, which is open *)
(* to all; the process crashes, and with it every poll.                    *)
(***************************************************************************)
Graduate(m) ==
  /\ phase[m] = "curve"
  /\ phase' = [phase EXCEPT ![m] = "graduated"]
  /\ UNCHANGED <<opened, botSol, botTok, wsol, meteora, row, flow, faults>>

Cancel(m) ==
  /\ faults.cancels < MaxCancels
  /\ phase[m] = "escrowed"
  /\ phase' = [phase EXCEPT ![m] = "graduated"]
  /\ faults' = [faults EXCEPT !.cancels = @ + 1]
  /\ UNCHANGED <<opened, botSol, botTok, wsol, meteora, row, flow>>

PreparedByAnother(m) ==
  /\ faults.strangers < MaxStrangers
  /\ CanPrepare(m)
  /\ Escrow(m)
  /\ faults' = [faults EXCEPT !.strangers = @ + 1]
  /\ UNCHANGED <<botSol, botTok, wsol, meteora, row, flow>>

Crash ==
  /\ faults.crashes < MaxCrashes
  /\ \A f \in Flows : flow[f].pc \in CrashPoints \cup {"idle"}
  /\ \E f \in Flows : ~At(f, "idle")
  /\ flow' = [f \in Flows |-> Idle]
  /\ faults' = [faults EXCEPT !.crashes = @ + 1]
  /\ UNCHANGED <<chain, row>>

Next ==
  \/ \E f \in Flows : Step(f) \/ Lost(f)
  \/ \E m \in Mints : Graduate(m) \/ Cancel(m) \/ PreparedByAnother(m)
  \/ Crash

Spec == Init /\ [][Next]_vars

\* The interval fires for ever and every await ends.
Fairness == \A f \in Flows : WF_vars(Step(f))

FairSpec == Spec /\ Fairness
-----------------------------------------------------------------------------
Statuses == {"none", "pending", "failed", "live"}

Rows == [status : Statuses, pool : BOOLEAN, lock : BOOLEAN]

PCs == Awaits \cup {"idle", "check", "failed"}

TypeOK ==
  /\ phase \in [Mints -> {"curve", "graduated", "escrowed", "paid"}]
  /\ opened \subseteq Mints
  /\ botSol \in Nat
  /\ botTok \subseteq Mints
  /\ wsol \in Nat
  /\ meteora \in [Mints -> [exists : BOOLEAN, sol : Nat, locked : BOOLEAN]]
  /\ row \in [Mints -> Rows]
  /\ flow \in [Flows -> [pc : PCs, todo : SUBSET Mints,
                        mint : Mints \cup {"none"}, row : Rows, sol : Int]]
  /\ faults \in [crashes : 0..MaxCrashes, failures : 0..MaxFailures,
                 cancels : 0..MaxCancels, strangers : 0..MaxStrangers]

\* The table never runs ahead of the chain: a row names a Meteora pool only
\* when there is one, and says locked or live only when its liquidity is
\* locked, whatever overlaps, fails, crashes or is cancelled.
RowNeverAhead ==
  \A m \in Mints :
    /\ row[m].pool => meteora[m].exists
    /\ row[m].lock \/ row[m].status = "live" => meteora[m].locked

\* The tokens released for a mint are in the bot's wallet or in the mint's
\* Meteora pool, never in both and never spent twice by two polls.
ReleasedTokensInOnePlace ==
  \A m \in Mints :
    phase[m] = "paid" <=> (m \in botTok) # meteora[m].exists

OnePoll == \A f, g \in DOMAIN flow : f = g

Spare == IF BotSol > KEEP THEN BotSol - KEEP ELSE 0

\* A Meteora pool is created with its own mint's SOL, KEEP of which the wallet
\* may lack, and what the bot could spare, never with the SOL of another mint,
\* where polls do not overlap and for as long as no crash and no failed call
\* has left SOL behind.
OwnSolOnly ==
  OnePoll /\ faults.crashes = 0 /\ faults.failures = 0 =>
    \A m \in Mints : meteora[m].exists =>
      meteora[m].sol \in PoolSol[m] - KEEP .. PoolSol[m] + Spare

\* Where a pool the bot finds comes to rest: live, if the program takes its
\* release; else in its escrow with all its tokens, none of them in the bot's
\* wallet or in a Meteora pool, under a row that says failed.
Settled(m) ==
  IF m \in Accepts
  THEN row[m].status = "live"
  ELSE /\ phase[m] = "escrowed" /\ m \notin botTok /\ ~meteora[m].exists
       /\ row[m].status = "failed"

\* Every graduated pool the bot finds settles if the process crashes no more,
\* whether the releases of all, of some or of none are taken: one that is
\* refused again and again does not hold up the others.  Wherever the process
\* has crashed before, and whatever row, wrapped SOL or empty escrow that
\* left behind: a pool that is graduated then, or that the protocol wallet
\* makes so again by cancelling its escrow, settles.
Settles ==
  \A m \in {n \in Mints : AccountSize[n] = POOL_SIZE},
     crashes \in 0 .. MaxCrashes :
    faults.crashes = crashes /\ phase[m] = "graduated"
      ~> Settled(m) \/ faults.crashes > crashes

\* index.js:378, "Retry failed migration from step 1": a failed migration is
\* taken up again.
FailedIsRetried ==
  \A m \in Mints :
    row[m].status = "failed" ~> row[m].status \in {"pending", "live"}
=============================================================================
