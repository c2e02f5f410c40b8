------------------------------ MODULE BotProofs ------------------------------
(***************************************************************************)
(* Proofs about MigrationBot, for any mints, any number of overlapping     *)
(* polls and any number of crashes, lost calls, cancels and strangers.     *)
(*                                                                         *)
(* RowNeverAhead is not inductive: the bot writes to the table what it     *)
(* believes, so the invariant says of every poll what it may believe at    *)
(* the await it is in (FlowOK).  A poll's copy of the row may be old; it   *)
(* decides where the poll goes on only at once after it was read.          *)
(*                                                                         *)
(* OwnSolOnly needs how much SOL is in the wallet at every await of the    *)
(* one poll (WalletOK): before the release what the bot started with or    *)
(* KEEP, between release and wrap the SOL of the poll's mint on top.       *)
(***************************************************************************)
EXTENDS MigrationBot, TLAPS

FlowType == [pc : PCs, todo : SUBSET Mints,
             mint : Mints \cup {"none"}, row : Rows, sol : Int]

FaultsType == [crashes : 0..MaxCrashes, failures : 0..MaxFailures,
               cancels : 0..MaxCancels, strangers : 0..MaxStrangers]

\* What a poll may believe at the await it is in.
FlowOK(r) ==
  /\ r.pc \notin {"idle", "check"} => r.mint \in Mints
  /\ r.pc \in {"wrap", "create"} => r.sol > 0
  /\ r.pc = "recordPool" => meteora[r.mint].exists
  /\ r.pc \in {"recordLock", "live"} => meteora[r.mint].locked

FlowsOK == \A f \in Flows : FlowOK(flow[f])

LocksNeedPool == \A m \in Mints : meteora[m].locked => meteora[m].exists

\* Tokens that were not released are neither in the wallet nor in a Meteora pool.
TokensOK ==
  \A m \in Mints :
    IF phase[m] = "paid" THEN (m \in botTok) # meteora[m].exists
    ELSE m \notin botTok /\ ~meteora[m].exists

IInv == TypeOK /\ FlowsOK /\ LocksNeedPool /\ TokensOK /\ RowNeverAhead

USE BotAssumption DEF FlowType, FaultsType

LEMMA InitIInv == Init => IInv
BY DEF Init, IInv, TypeOK, FlowsOK, FlowOK, LocksNeedPool, TokensOK, RowNeverAhead,
   Idle, NoRow, NoMeteora, PCs, Rows, Statuses

-----------------------------------------------------------------------------
\* One poll moves, the others do not.
LEMMA FlowMoves ==
  ASSUME TypeOK, NEW f \in Flows, NEW to \in FlowType, Goes(f, to)
  PROVE  /\ flow' \in [Flows -> FlowType]
         /\ flow'[f] = to
         /\ \A g \in Flows \ {f} : flow'[g] = flow[g]
BY DEF TypeOK, Goes

LEMMA FailsTyped ==
  ASSUME TypeOK, Fails
  PROVE  faults' \in FaultsType
<1> DEFINE n == faults.failures
<1>1. faults \in FaultsType /\ n < MaxFailures
  BY DEF TypeOK, Fails
<1>2. faults' = [faults EXCEPT !.failures = n + 1]
  BY DEF Fails
<1>3. n + 1 \in 0..MaxFailures
  BY <1>1
<1> QED
  BY <1>1, <1>2, <1>3

\* How an await that changes something may end.
LEMMA EndsOrFails ==
  ASSUME TypeOK, NEW f \in Flows, NEW pc \in PCs, Ends(f, pc)
  PROVE  /\ faults' \in FaultsType
         /\ \E next \in {pc, "failed"} : Goes(f, [flow[f] EXCEPT !.pc = next])
BY FailsTyped DEF Ends, TypeOK

\* What Meteora has, it keeps: what polls believe stays true.
LEMMA BeliefsStay ==
  ASSUME IInv, NEW f \in Flows, NEW to \in FlowType, Goes(f, to),
         meteora' \in [Mints -> [exists : BOOLEAN, sol : Nat, locked : BOOLEAN]],
         \A m \in Mints : /\ meteora[m].exists => meteora'[m].exists
                          /\ meteora[m].locked => meteora'[m].locked,
         FlowOK(to)'
  PROVE  FlowsOK' /\ flow' \in [Flows -> FlowType]
<1>1. /\ flow' \in [Flows -> FlowType]
      /\ flow'[f] = to
      /\ \A g \in Flows \ {f} : flow'[g] = flow[g]
  BY FlowMoves DEF IInv
<1>2. ASSUME NEW g \in Flows \ {f} PROVE FlowOK(flow[g])'
  <2>1. flow[g] \in FlowType /\ FlowOK(flow[g]) /\ flow'[g] = flow[g]
    BY <1>1 DEF IInv, TypeOK, FlowsOK
  <2> QED
    BY <2>1 DEF FlowOK
<1>3. FlowOK(flow[f])'
  BY <1>1 DEF FlowOK
<1> QED
  BY <1>1, <1>2, <1>3 DEF FlowsOK

\* A step that only moves a poll.
LEMMA OnlyMoves ==
  ASSUME IInv, NEW f \in Flows, NEW to \in FlowType, Goes(f, to), FlowOK(to),
         UNCHANGED <<chain, row>>, faults' \in FaultsType
  PROVE  IInv'
<1>1. FlowOK(to)'
  BY DEF FlowOK, chain
<1>2. FlowsOK' /\ flow' \in [Flows -> FlowType]
  BY <1>1, BeliefsStay DEF chain, IInv, TypeOK
<1>3. TypeOK'
  BY <1>2 DEF IInv, TypeOK, chain
<1> QED
  BY <1>2, <1>3 DEF IInv, LocksNeedPool, TokensOK, RowNeverAhead, chain

LEMMA IdleOK == Idle \in FlowType /\ FlowOK(Idle)
BY DEF Idle, FlowOK, PCs, NoRow, Rows, Statuses

LEMMA AfterMintOK ==
  ASSUME IInv, NEW f \in Flows
  PROVE  AfterMint(f) \in FlowType /\ FlowOK(AfterMint(f))
<1>1. flow[f] \in FlowType
  BY DEF IInv, TypeOK
<1>2. NoRow \in Rows
  BY DEF NoRow, Rows, Statuses
<1>3. AfterMint(f) \in FlowType
  <2> DEFINE pc == IF flow[f].todo = {} THEN "idle" ELSE "check"
  <2>1. pc \in PCs /\ flow[f].todo \in SUBSET Mints /\ Idle \in FlowType
    BY <1>1, IdleOK DEF PCs
  <2> HIDE DEF pc
  <2>2. [Idle EXCEPT !.pc = pc, !.todo = flow[f].todo] \in FlowType
    BY <2>1
  <2> QED
    BY <2>2 DEF AfterMint, pc
<1>4. AfterMint(f).pc \in {"idle", "check"}
  BY DEF AfterMint, Idle
<1> QED
  BY <1>3, <1>4 DEF FlowOK

\* An active poll has a mint of its own.
LEMMA ActiveMint ==
  ASSUME IInv, NEW f \in Flows, flow[f].pc \notin {"idle", "check"}
  PROVE  Mint(f) \in Mints /\ flow[f] \in FlowType
BY DEF IInv, TypeOK, FlowsOK, FlowOK, Mint

LEMMA FailedOK ==
  ASSUME IInv, NEW f \in Flows, flow[f].pc \notin {"idle", "check"}
  PROVE  /\ [flow[f] EXCEPT !.pc = "failed"] \in FlowType
         /\ FlowOK([flow[f] EXCEPT !.pc = "failed"])
BY ActiveMint DEF FlowOK, PCs, Mint

LEMMA RefusedKeeps ==
  ASSUME IInv, NEW f \in Flows, flow[f].pc \notin {"idle", "check"}, Refused(f)
  PROVE  IInv'
BY FailedOK, OnlyMoves DEF Refused, IInv, TypeOK

LEMMA LostKeeps == ASSUME IInv, NEW f \in Flows, Lost(f) PROVE IInv'
BY FailedOK, OnlyMoves, FailsTyped DEF Lost, IInv, Awaits

-----------------------------------------------------------------------------
LEMMA PollKeeps == ASSUME IInv, NEW f \in Flows, Poll(f) PROVE IInv'
<1> DEFINE to == [Idle EXCEPT !.pc = "check", !.todo = Found]
<1>1. to \in FlowType /\ to.pc = "check"
  BY IdleOK DEF Idle, Found, PCs
<1> HIDE DEF to
<1>2. FlowOK(to)
  BY <1>1 DEF FlowOK
<1>3. Goes(f, to) /\ UNCHANGED <<chain, row>> /\ faults' \in FaultsType
  BY SMTT(30) DEF Poll, to, IInv, TypeOK
<1> QED
  BY <1>1, <1>2, <1>3, OnlyMoves

LEMMA CheckKeeps == ASSUME IInv, NEW f \in Flows, Check(f) PROVE IInv'
<1>1. flow[f] \in FlowType /\ flow[f].pc = "check"
  BY DEF IInv, TypeOK, Check, At
<1>2. ASSUME NEW to \in FlowType, Goes(f, to), FlowOK(to), faults' \in FaultsType
      PROVE  IInv'
  BY <1>2, OnlyMoves DEF Check
<1>3. CASE Goes(f, Idle) /\ Fails
  BY <1>2, <1>3, IdleOK, FailsTyped DEF IInv
<1>4. ASSUME NEW m \in Mints, UNCHANGED faults,
             NEW rest, rest = [flow[f] EXCEPT !.todo = @ \ {m}],
             Goes(f, IF row[m].status # "live"
                     THEN [rest EXCEPT !.pc = "begin", !.mint = m]
                     ELSE IF rest.todo = {} THEN Idle ELSE rest)
      PROVE  IInv'
  <2> DEFINE on == [rest EXCEPT !.pc = "begin", !.mint = m]
  <2>1. rest \in FlowType /\ rest.pc = "check"
    BY <1>1, <1>4
  <2>2. on \in FlowType /\ on.pc = "begin" /\ on.mint = m
    BY <2>1 DEF PCs, Awaits
  <2> HIDE DEF on
  <2>3. FlowOK(on) /\ FlowOK(rest)
    BY <2>1, <2>2 DEF FlowOK
  <2>4. faults' \in FaultsType
    BY <1>4 DEF IInv, TypeOK
  <2>5. Goes(f, on) \/ Goes(f, Idle) \/ Goes(f, rest)
    BY <1>4 DEF on
  <2> QED
    BY <1>2, <2>1, <2>2, <2>3, <2>4, <2>5, IdleOK
<1>5. flow[f].todo \subseteq Mints
  BY <1>1
<1> QED
  BY <1>3, <1>4, <1>5 DEF Check

\* Where a poll goes on, and what its copy of the row says, right after it was
\* read: a row with a pool and a lock is that of a locked pool.
LEMMA RemainingOK ==
  ASSUME IInv, NEW m \in Mints
  PROVE  /\ Remaining(row[m]) \in {"release", "lock", "live"}
         /\ Remaining(row[m]) = "live" => meteora[m].locked
BY DEF Remaining, IInv, RowNeverAhead

LEMMA BeginKeeps == ASSUME IInv, NEW f \in Flows, Begin(f) PROVE IInv'
<1> DEFINE r == row[Mint(f)]
           pc == IF FromStep1(r) THEN "prepare" ELSE Remaining(r)
           to == [flow[f] EXCEPT !.row = r, !.pc = pc]
<1>1. Mint(f) \in Mints /\ flow[f] \in FlowType /\ r \in Rows
  BY ActiveMint DEF Begin, At, IInv, TypeOK
<1>2. pc \in {"prepare", "release", "lock", "live"} /\ (pc = "live" => meteora[Mint(f)].locked)
  BY <1>1, RemainingOK
<1>3. to \in FlowType /\ FlowOK(to)
  BY <1>1, <1>2 DEF PCs, Awaits, FlowOK, Mint
<1>4. Goes(f, to) /\ UNCHANGED <<chain, row>> /\ faults' \in FaultsType
  BY DEF Begin, IInv, TypeOK
<1> QED
  BY <1>3, <1>4, OnlyMoves

LEMMA RereadKeeps == ASSUME IInv, NEW f \in Flows, Reread(f) PROVE IInv'
<1> DEFINE r == row[Mint(f)]
           to == [flow[f] EXCEPT !.row = r, !.pc = Remaining(r)]
<1>1. Mint(f) \in Mints /\ flow[f] \in FlowType /\ r \in Rows
  BY ActiveMint DEF Reread, At, IInv, TypeOK
<1>2. /\ Remaining(r) \in {"release", "lock", "live"}
      /\ Remaining(r) = "live" => meteora[Mint(f)].locked
  BY <1>1, RemainingOK
<1>3. to \in FlowType /\ FlowOK(to)
  BY <1>1, <1>2 DEF PCs, Awaits, FlowOK, Mint
<1>4. Goes(f, to) /\ UNCHANGED <<chain, row>> /\ faults' \in FaultsType
  BY DEF Reread, IInv, TypeOK
<1> QED
  BY <1>3, <1>4, OnlyMoves

LEMMA ReadSolKeeps == ASSUME IInv, NEW f \in Flows, ReadSol(f) PROVE IInv'
<1> DEFINE to == [flow[f] EXCEPT !.sol = SolForPool, !.pc = "readTok"]
<1>1. Mint(f) \in Mints /\ flow[f] \in FlowType /\ SolForPool \in Int
  BY ActiveMint DEF ReadSol, At, IInv, TypeOK, SolForPool
<1>2. to \in FlowType /\ FlowOK(to)
  BY <1>1 DEF PCs, Awaits, FlowOK, Mint
<1>3. Goes(f, to) /\ UNCHANGED <<chain, row>> /\ faults' \in FaultsType
  BY DEF ReadSol, IInv, TypeOK
<1> QED
  BY <1>2, <1>3, OnlyMoves

LEMMA ReadTokKeeps == ASSUME IInv, NEW f \in Flows, ReadTok(f) PROVE IInv'
<1> DEFINE to == [flow[f] EXCEPT !.pc = "wrap"]
<1>1. Mint(f) \in Mints /\ flow[f] \in FlowType /\ flow[f].pc = "readTok"
  BY ActiveMint DEF ReadTok, At
<1>2. CASE /\ Enough(Mint(f), flow[f].sol)
           /\ Goes(f, to)
           /\ UNCHANGED <<chain, row, faults>>
  <2>1. to \in FlowType /\ FlowOK(to)
    BY <1>1, <1>2 DEF PCs, Awaits, FlowOK, Mint, Enough
  <2> QED
    BY <1>2, <2>1, OnlyMoves DEF IInv, TypeOK
<1>3. CASE Refused(f)
  BY <1>1, <1>3, RefusedKeeps
<1> QED
  BY <1>2, <1>3 DEF ReadTok

-----------------------------------------------------------------------------
MeteoraType == [Mints -> [exists : BOOLEAN, sol : Nat, locked : BOOLEAN]]

MeteoraKeeps ==
  /\ meteora' \in MeteoraType
  /\ \A m \in Mints : /\ meteora[m].exists => meteora'[m].exists
                      /\ meteora[m].locked => meteora'[m].locked

LEMMA MeteoraStays == ASSUME TypeOK, UNCHANGED meteora PROVE MeteoraKeeps
BY DEF TypeOK, MeteoraKeeps, MeteoraType

\* An await that changes something and ends, or whose reply is lost.
LEMMA EndsKeeps ==
  ASSUME IInv, NEW f \in Flows, flow[f].pc \notin {"idle", "check"},
         NEW pc \in PCs, Ends(f, pc), MeteoraKeeps,
         /\ pc \in {"wrap", "create"} => flow[f].sol > 0
         /\ pc = "recordPool" => meteora'[Mint(f)].exists
         /\ pc \in {"recordLock", "live"} => meteora'[Mint(f)].locked
  PROVE  FlowsOK' /\ flow' \in [Flows -> FlowType] /\ faults' \in FaultsType
<1>1. faults' \in FaultsType
  BY EndsOrFails DEF IInv
<1>2. PICK next \in {pc, "failed"} : Goes(f, [flow[f] EXCEPT !.pc = next])
  BY EndsOrFails DEF IInv
<1>3. Mint(f) \in Mints /\ flow[f] \in FlowType /\ next \in PCs
  BY ActiveMint DEF PCs
<1>4. \E to \in FlowType : /\ Goes(f, to)
                           /\ to.pc = next /\ to.mint = Mint(f) /\ to.sol = flow[f].sol
  BY <1>2, <1>3 DEF Mint
<1>5. PICK to \in FlowType : /\ Goes(f, to)
                             /\ to.pc = next /\ to.mint = Mint(f) /\ to.sol = flow[f].sol
  BY <1>4
<1>6. FlowOK(to)'
  BY <1>2, <1>3, <1>5 DEF FlowOK
<1>7. FlowsOK' /\ flow' \in [Flows -> FlowType]
  BY <1>5, <1>6, BeliefsStay DEF MeteoraKeeps, MeteoraType
<1> QED
  BY <1>1, <1>7

-----------------------------------------------------------------------------
LEMMA PrepareKeeps == ASSUME IInv, NEW f \in Flows, Prepare(f) PROVE IInv'
<1>1. Mint(f) \in Mints /\ flow[f].pc = "prepare"
  BY ActiveMint DEF Prepare, At
<1>2. CASE /\ CanPrepare(Mint(f))
           /\ Escrow(Mint(f))
           /\ Ends(f, "record")
           /\ UNCHANGED <<botSol, botTok, wsol, meteora, row>>
  <2>1. FlowsOK' /\ flow' \in [Flows -> FlowType] /\ faults' \in FaultsType
    BY <1>1, <1>2, EndsKeeps, MeteoraStays DEF IInv, PCs, Awaits
  <2>2. TypeOK'
    BY <1>1, <1>2, <2>1 DEF IInv, TypeOK, Escrow
  <2>3. TokensOK'
    BY <1>1, <1>2 DEF IInv, TypeOK, TokensOK, Escrow, CanPrepare
  <2> QED
    BY <1>2, <2>1, <2>2, <2>3 DEF IInv, LocksNeedPool, RowNeverAhead
<1> QED
  BY <1>1, <1>2, RefusedKeeps DEF Prepare

LEMMA RecordKeeps == ASSUME IInv, NEW f \in Flows, Record(f) PROVE IInv'
<1>1. Mint(f) \in Mints /\ flow[f].pc = "record"
  BY ActiveMint DEF Record, At
<1>2. CASE /\ row' = [row EXCEPT ![Mint(f)].status = "pending"]
           /\ Ends(f, "reread")
           /\ UNCHANGED chain
  <2>1. FlowsOK' /\ flow' \in [Flows -> FlowType] /\ faults' \in FaultsType
    BY <1>1, <1>2, EndsKeeps, MeteoraStays DEF IInv, PCs, Awaits, chain
  <2>2. row' \in [Mints -> Rows]
    BY <1>1, <1>2, SMTT(30) DEF IInv, TypeOK, Rows, Statuses
  <2>3. RowNeverAhead'
    BY <1>1, <1>2 DEF IInv, TypeOK, RowNeverAhead, chain, Rows
  <2> QED
    BY <1>2, <2>1, <2>2, <2>3 DEF IInv, TypeOK, LocksNeedPool, TokensOK, chain
<1> QED
  BY <1>1, <1>2, RefusedKeeps DEF Record

LEMMA ReleaseKeeps == ASSUME IInv, NEW f \in Flows, Release(f) PROVE IInv'
<1> DEFINE m == Mint(f)
<1>1. m \in Mints /\ flow[f].pc = "release"
  BY ActiveMint DEF Release, At
<1>2. CASE ~Refused(f)
  <2>1. FlowsOK' /\ flow' \in [Flows -> FlowType] /\ faults' \in FaultsType
    BY <1>1, <1>2, EndsKeeps, MeteoraStays DEF Release, IInv, PCs, Awaits
  <2>2. CASE /\ EscrowFunded(m)
             /\ phase' = [phase EXCEPT ![m] = "paid"]
             /\ botSol' = botSol + PoolSol[m]
             /\ botTok' = botTok \cup {m}
    <3>1. TypeOK'
      BY <1>1, <1>2, <2>1, <2>2 DEF Release, IInv, TypeOK
    <3>2. TokensOK'
      BY <1>1, <1>2, <2>2 DEF Release, IInv, TypeOK, TokensOK, EscrowFunded
    <3> QED
      BY <1>2, <2>1, <3>1, <3>2 DEF Release, IInv, LocksNeedPool, RowNeverAhead
  <2>3. CASE UNCHANGED <<phase, botSol, botTok>>
    BY <1>2, <2>1, <2>3 DEF Release, IInv, TypeOK, TokensOK, LocksNeedPool, RowNeverAhead
  <2> QED
    BY <1>2, <2>2, <2>3 DEF Release
<1> QED
  BY <1>1, <1>2, RefusedKeeps

LEMMA WrapKeeps == ASSUME IInv, NEW f \in Flows, Wrap(f) PROVE IInv'
<1> DEFINE amount == flow[f].sol
<1>1. Mint(f) \in Mints /\ flow[f].pc = "wrap" /\ amount \in Int /\ amount > 0
  BY ActiveMint DEF Wrap, At, IInv, FlowsOK, FlowOK
<1>2. CASE ~Refused(f)
  <2>1. FlowsOK' /\ flow' \in [Flows -> FlowType] /\ faults' \in FaultsType
    BY <1>1, <1>2, EndsKeeps, MeteoraStays DEF Wrap, IInv, PCs, Awaits
  <2>2. botSol' \in Nat /\ wsol' \in Nat
    BY <1>1, <1>2 DEF Wrap, IInv, TypeOK
  <2> QED
    BY <1>2, <2>1, <2>2 DEF Wrap, IInv, TypeOK, TokensOK, LocksNeedPool, RowNeverAhead
<1> QED
  BY <1>1, <1>2, RefusedKeeps

LEMMA CreateKeeps == ASSUME IInv, NEW f \in Flows, Create(f) PROVE IInv'
<1> DEFINE m == Mint(f)
           amount == flow[f].sol
           new == [exists |-> TRUE, sol |-> amount, locked |-> FALSE]
<1>1. m \in Mints /\ flow[f].pc = "create" /\ amount \in Int /\ amount > 0
  BY ActiveMint DEF Create, At, IInv, FlowsOK, FlowOK
<1>2. CASE ~Refused(f)
  <2>1. /\ CanCreate(m, amount)
        /\ meteora' = [meteora EXCEPT ![m] = new]
        /\ botTok' = botTok \ {m}
        /\ wsol' = wsol - amount
        /\ Ends(f, "recordPool")
        /\ UNCHANGED <<phase, opened, botSol, row>>
    BY <1>2 DEF Create
  <2>2. ~meteora[m].exists /\ ~meteora[m].locked
    BY <1>1, <2>1 DEF CanCreate, IInv, TypeOK, LocksNeedPool
  <2>3. MeteoraKeeps /\ meteora'[m] = new
    BY <1>1, <2>1, <2>2 DEF MeteoraKeeps, MeteoraType, IInv, TypeOK
  <2>4. FlowsOK' /\ flow' \in [Flows -> FlowType] /\ faults' \in FaultsType
    BY <1>1, <2>1, <2>3, EndsKeeps DEF PCs, Awaits
  <2>5. wsol' \in Nat
    BY <1>1, <2>1 DEF IInv, TypeOK, CanCreate
  <2>6. TokensOK'
    <3>1. /\ meteora'[m].exists /\ m \notin botTok'
          /\ phase'[m] = "paid"
      BY <1>1, <2>1, <2>3 DEF IInv, TokensOK, CanCreate
    <3>2. ASSUME NEW n \in Mints, n # m
          PROVE  meteora'[n] = meteora[n] /\ (n \in botTok' <=> n \in botTok)
      BY <2>1, <3>2 DEF IInv, TypeOK
    <3>3. ASSUME NEW n \in Mints, n # m
          PROVE  IF phase'[n] = "paid" THEN (n \in botTok') # meteora'[n].exists
                 ELSE n \notin botTok' /\ ~meteora'[n].exists
      BY <2>1, <3>2, <3>3 DEF IInv, TokensOK
    <3>4. (m \in botTok') # meteora'[m].exists
      BY <2>3, <3>1
    <3> QED
      BY <3>1, <3>3, <3>4 DEF TokensOK
  <2>7. LocksNeedPool'
    BY <1>1, <2>1 DEF IInv, TypeOK, LocksNeedPool
  <2>8. RowNeverAhead'
    BY <2>1, <2>3 DEF IInv, RowNeverAhead, MeteoraKeeps
  <2> QED
    BY <2>1, <2>3, <2>4, <2>5, <2>6, <2>7, <2>8 DEF IInv, TypeOK, MeteoraKeeps, MeteoraType
<1> QED
  BY <1>1, <1>2, RefusedKeeps

LEMMA LockKeeps == ASSUME IInv, NEW f \in Flows, Lock(f) PROVE IInv'
<1> DEFINE m == Mint(f)
<1>1. m \in Mints /\ flow[f].pc = "lock"
  BY ActiveMint DEF Lock, At
<1>2. CASE ~Refused(f)
  <2>1. /\ meteora[m].exists
        /\ meteora' = [meteora EXCEPT ![m].locked = TRUE]
        /\ Ends(f, "recordLock")
        /\ UNCHANGED <<phase, opened, botSol, botTok, wsol, row>>
    BY <1>2 DEF Lock
  <2>2. /\ MeteoraKeeps /\ meteora'[m].locked
        /\ \A n \in Mints : meteora'[n].exists = meteora[n].exists
    <3>1. meteora \in MeteoraType
      BY DEF IInv, TypeOK, MeteoraType
    <3>2. /\ meteora' \in MeteoraType
          /\ meteora'[m].locked /\ meteora'[m].exists = meteora[m].exists
          /\ \A n \in Mints \ {m} : meteora'[n] = meteora[n]
      BY <1>1, <2>1, <3>1 DEF MeteoraType
    <3> QED
      BY <2>1, <3>1, <3>2 DEF MeteoraKeeps
  <2>3. FlowsOK' /\ flow' \in [Flows -> FlowType] /\ faults' \in FaultsType
    BY <1>1, <2>1, <2>2, EndsKeeps DEF PCs, Awaits
  <2>4. TokensOK'
    BY <2>1, <2>2 DEF IInv, TokensOK
  <2>5. LocksNeedPool'
    BY <1>1, <2>1 DEF IInv, TypeOK, LocksNeedPool
  <2>6. RowNeverAhead'
    BY <2>1, <2>2 DEF IInv, RowNeverAhead, MeteoraKeeps
  <2> QED
    BY <2>1, <2>2, <2>3, <2>4, <2>5, <2>6 DEF IInv, TypeOK, MeteoraKeeps, MeteoraType
<1> QED
  BY <1>1, <1>2, RefusedKeeps

\* A PATCH that says of a mint no more than what is so.
LEMMA PatchKeeps ==
  ASSUME IInv, NEW m \in Mints, NEW r \in Rows, Patch(m, r), UNCHANGED chain,
         r.pool => meteora[m].exists,
         r.lock \/ r.status = "live" => meteora[m].locked,
         FlowsOK', flow' \in [Flows -> FlowType], faults' \in FaultsType
  PROVE  IInv'
<1>1. row' \in [Mints -> Rows]
  BY DEF Patch, IInv, TypeOK, NoRow, Rows, Statuses
<1>2. RowNeverAhead'
  BY DEF Patch, IInv, TypeOK, RowNeverAhead, chain, NoRow
<1> QED
  BY <1>1, <1>2 DEF IInv, TypeOK, LocksNeedPool, TokensOK, chain

\* What a PATCH leaves of a row.
LEMMA RowEdits ==
  ASSUME NEW q \in Rows
  PROVE  /\ [q EXCEPT !.pool = TRUE] \in Rows
         /\ [q EXCEPT !.lock = TRUE] \in Rows
BY DEF Rows

LEMMA RecordPoolKeeps == ASSUME IInv, NEW f \in Flows, RecordPool(f) PROVE IInv'
<1> DEFINE m == Mint(f)
           r == [row[m] EXCEPT !.pool = TRUE]
<1>1. m \in Mints /\ flow[f].pc = "recordPool" /\ meteora[m].exists
  BY ActiveMint DEF RecordPool, At, IInv, FlowsOK, FlowOK, Mint
<1>2. FlowsOK' /\ flow' \in [Flows -> FlowType] /\ faults' \in FaultsType
  BY <1>1, EndsKeeps, MeteoraStays DEF RecordPool, IInv, PCs, Awaits, chain
<1>3. /\ r \in Rows
      /\ r.pool => meteora[m].exists
      /\ r.lock \/ r.status = "live" => meteora[m].locked
  <2>1. row[m] \in Rows /\ r \in Rows
    BY <1>1, RowEdits DEF IInv, TypeOK
  <2>2. /\ row[m].pool => meteora[m].exists
        /\ row[m].lock \/ row[m].status = "live" => meteora[m].locked
    BY <1>1 DEF IInv, RowNeverAhead
  <2>3. meteora[m].locked => meteora[m].exists
    BY <1>1 DEF IInv, LocksNeedPool
  <2>4. r.lock = row[m].lock /\ r.status = row[m].status
    BY <2>1 DEF Rows
  <2> HIDE DEF r
  <2> QED
    BY <1>1, <2>1, <2>2, <2>3, <2>4
<1> QED
  BY <1>1, <1>2, <1>3, PatchKeeps DEF RecordPool

LEMMA RecordLockKeeps == ASSUME IInv, NEW f \in Flows, RecordLock(f) PROVE IInv'
<1> DEFINE m == Mint(f)
           r == [row[m] EXCEPT !.lock = TRUE]
<1>1. m \in Mints /\ flow[f].pc = "recordLock" /\ meteora[m].locked
  BY ActiveMint DEF RecordLock, At, IInv, FlowsOK, FlowOK, Mint
<1>2. FlowsOK' /\ flow' \in [Flows -> FlowType] /\ faults' \in FaultsType
  BY <1>1, EndsKeeps, MeteoraStays DEF RecordLock, IInv, PCs, Awaits, chain, Mint
<1>3. /\ r \in Rows
      /\ r.pool => meteora[m].exists
      /\ r.lock \/ r.status = "live" => meteora[m].locked
  <2>1. row[m] \in Rows /\ r \in Rows
    BY <1>1, RowEdits DEF IInv, TypeOK
  <2>2. /\ row[m].pool => meteora[m].exists
        /\ row[m].lock \/ row[m].status = "live" => meteora[m].locked
    BY <1>1 DEF IInv, RowNeverAhead
  <2>3. meteora[m].locked => meteora[m].exists
    BY <1>1 DEF IInv, LocksNeedPool
  <2>4. r.pool = row[m].pool /\ r.status = row[m].status
    BY <2>1 DEF Rows
  <2> HIDE DEF r
  <2> QED
    BY <1>1, <2>1, <2>2, <2>3, <2>4
<1> QED
  BY <1>1, <1>2, <1>3, PatchKeeps DEF RecordLock

LEMMA MarkLiveKeeps == ASSUME IInv, NEW f \in Flows, MarkLive(f) PROVE IInv'
<1> DEFINE m == Mint(f)
           r == [row[m] EXCEPT !.status = "live"]
<1>1. m \in Mints /\ flow[f].pc = "live" /\ meteora[m].locked
  BY ActiveMint DEF MarkLive, At, IInv, FlowsOK, FlowOK, Mint
<1>2. PICK to \in FlowType : Goes(f, to) /\ FlowOK(to)
  BY <1>1, AfterMintOK, FailedOK DEF MarkLive
<1>3. FlowOK(to)'
  BY <1>2 DEF FlowOK, MarkLive, chain
<1>4. FlowsOK' /\ flow' \in [Flows -> FlowType]
  BY <1>2, <1>3, BeliefsStay DEF MarkLive, chain, IInv, TypeOK
<1>5. faults' \in FaultsType
  BY FailsTyped DEF MarkLive, IInv, TypeOK
<1>6. /\ r \in Rows
      /\ r.pool => meteora[m].exists
      /\ r.lock \/ r.status = "live" => meteora[m].locked
  BY <1>1, SMTT(30) DEF IInv, TypeOK, RowNeverAhead, Rows, Statuses
<1> QED
  BY <1>1, <1>4, <1>5, <1>6, PatchKeeps DEF MarkLive

LEMMA MarkFailedKeeps == ASSUME IInv, NEW f \in Flows, MarkFailed(f) PROVE IInv'
<1> DEFINE m == Mint(f)
           r == [row[m] EXCEPT !.status = "failed"]
<1>1. m \in Mints /\ flow[f].pc = "failed"
  BY ActiveMint DEF MarkFailed, At
<1>2. PICK to \in FlowType : Goes(f, to) /\ FlowOK(to)
  BY AfterMintOK DEF MarkFailed
<1>3. FlowOK(to)'
  BY <1>2 DEF FlowOK, MarkFailed, chain
<1>4. FlowsOK' /\ flow' \in [Flows -> FlowType]
  BY <1>2, <1>3, BeliefsStay DEF MarkFailed, chain, IInv, TypeOK
<1>5. faults' \in FaultsType
  BY FailsTyped DEF MarkFailed, IInv, TypeOK
<1>6. CASE Patch(m, r)
  <2>1. /\ r \in Rows
        /\ r.pool => meteora[m].exists
        /\ r.lock \/ r.status = "live" => meteora[m].locked
    BY <1>1, SMTT(30) DEF IInv, TypeOK, RowNeverAhead, Rows, Statuses
  <2> QED
    BY <1>1, <1>4, <1>5, <1>6, <2>1, PatchKeeps DEF MarkFailed
<1>7. CASE UNCHANGED row
  BY <1>4, <1>5, <1>7 DEF MarkFailed, IInv, TypeOK, LocksNeedPool, TokensOK, RowNeverAhead, chain
<1> QED
  BY <1>6, <1>7 DEF MarkFailed

-----------------------------------------------------------------------------
\* A step of the outside world that moves no token into or out of the wallet.
LEMMA OutsideKeeps ==
  ASSUME IInv, NEW m \in Mints, NEW to \in {"graduated", "escrowed"},
         phase[m] # "paid", phase' = [phase EXCEPT ![m] = to],
         opened' \subseteq Mints, faults' \in FaultsType,
         UNCHANGED <<botSol, botTok, wsol, meteora, row, flow>>
  PROVE  IInv'
<1>1. TypeOK'
  BY DEF IInv, TypeOK
<1>2. TokensOK'
  BY DEF IInv, TypeOK, TokensOK
<1>3. FlowsOK'
  BY DEF IInv, FlowsOK, FlowOK
<1> QED
  BY <1>1, <1>2, <1>3 DEF IInv, LocksNeedPool, RowNeverAhead

LEMMA GraduateKeeps == ASSUME IInv, NEW m \in Mints, Graduate(m) PROVE IInv'
BY OutsideKeeps DEF Graduate, IInv, TypeOK

LEMMA CancelKeeps == ASSUME IInv, NEW m \in Mints, Cancel(m) PROVE IInv'
<1>1. faults' \in FaultsType
  BY DEF Cancel, IInv, TypeOK
<1> QED
  BY <1>1, OutsideKeeps DEF Cancel, IInv, TypeOK

LEMMA StrangerKeeps ==
  ASSUME IInv, NEW m \in Mints, PreparedByAnother(m)
  PROVE  IInv'
<1>1. faults' \in FaultsType
  BY DEF PreparedByAnother, IInv, TypeOK
<1> QED
  BY <1>1, OutsideKeeps DEF PreparedByAnother, CanPrepare, Escrow, IInv, TypeOK

LEMMA CrashKeeps == ASSUME IInv, Crash PROVE IInv'
<1>1. faults' \in FaultsType
  BY DEF Crash, IInv, TypeOK
<1>2. flow' \in [Flows -> FlowType] /\ FlowsOK'
  <2>1. flow' = [f \in Flows |-> Idle] /\ Idle \in FlowType /\ Idle.pc = "idle"
    BY IdleOK DEF Crash, Idle
  <2> HIDE DEF FlowType
  <2> QED
    BY <2>1 DEF FlowsOK, FlowOK
<1> QED
  BY <1>1, <1>2 DEF Crash, IInv, TypeOK, LocksNeedPool, TokensOK, RowNeverAhead, chain

LEMMA NextKeeps == ASSUME IInv, [Next]_vars PROVE IInv'
<1>1. CASE UNCHANGED vars
  BY <1>1 DEF IInv, TypeOK, FlowsOK, FlowOK, LocksNeedPool, TokensOK, RowNeverAhead,
     vars, chain
<1>2. ASSUME NEW f \in Flows, Step(f) \/ Lost(f) PROVE IInv'
  BY <1>2, PollKeeps, CheckKeeps, BeginKeeps, PrepareKeeps, RecordKeeps, RereadKeeps,
     ReleaseKeeps, ReadSolKeeps, ReadTokKeeps, WrapKeeps, CreateKeeps,
     RecordPoolKeeps, LockKeeps, RecordLockKeeps, MarkLiveKeeps, MarkFailedKeeps,
     LostKeeps DEF Step
<1>3. ASSUME NEW m \in Mints, Graduate(m) \/ Cancel(m) \/ PreparedByAnother(m)
      PROVE  IInv'
  BY <1>3, GraduateKeeps, CancelKeeps, StrangerKeeps
<1> QED
  BY <1>1, <1>2, <1>3, CrashKeeps DEF Next

LEMMA Invariance == Spec => []IInv
BY InitIInv, NextKeeps, PTL DEF Spec

\* The chain, the table and the polls always have their types: no SOL balance
\* becomes negative, and every active poll has a mint.
THEOREM TypeCorrect == Spec => []TypeOK
<1>1. IInv => TypeOK
  BY DEF IInv
<1> QED
  BY <1>1, Invariance, PTL

\* The table never runs ahead of the chain (index.js:440), for any mints, polls
\* and faults.
THEOREM RowHonest == Spec => []RowNeverAhead
<1>1. IInv => RowNeverAhead
  BY DEF IInv
<1> QED
  BY <1>1, Invariance, PTL

\* Released tokens are in the bot's wallet or in the mint's Meteora pool, in
\* one of them (index.js:559: polls overlap), for any mints, polls and faults.
THEOREM TokensInOnePlace == Spec => []ReleasedTokensInOnePlace
<1>1. IInv => ReleasedTokensInOnePlace
  <2> SUFFICES ASSUME IInv, NEW m \in Mints
               PROVE  phase[m] = "paid" <=> (m \in botTok) # meteora[m].exists
    BY DEF ReleasedTokensInOnePlace
  <2>1. meteora[m].exists \in BOOLEAN
    BY DEF IInv, TypeOK
  <2>2. CASE phase[m] = "paid"
    BY <2>2 DEF IInv, TokensOK
  <2>3. CASE phase[m] # "paid"
    <3>1. m \notin botTok /\ ~meteora[m].exists
      BY <2>3 DEF IInv, TokensOK
    <3> QED
      BY <2>1, <2>3, <3>1
  <2> QED
    BY <2>2, <2>3
<1> QED
  BY <1>1, Invariance, PTL

-----------------------------------------------------------------------------
\* The SOL of the wallet when nothing of a pool is in it.
Base == {BotSol, KEEP}

\* The range OwnSolOnly allows for.
Own(m) == PoolSol[m] - KEEP .. PoolSol[m] + Spare

\* What is in the wallet at each await of the only poll, if nothing failed.
WalletOK(r) ==
  CASE r.pc = "create" ->
         botTok = {r.mint} /\ wsol = r.sol /\ botSol = KEEP /\ r.sol \in Own(r.mint)
    [] r.pc \in {"readSol", "readTok", "wrap"} ->
         /\ wsol = 0
         /\ \/ botTok = {} /\ botSol \in Base /\ r.pc # "wrap"
            \/ botTok = {r.mint} /\ botSol - PoolSol[r.mint] \in Base
         /\ r.pc # "readSol" => r.sol = botSol - KEEP
    [] OTHER -> botTok = {} /\ wsol = 0 /\ botSol \in Base

PoolsOK == \A m \in Mints : meteora[m].exists => meteora[m].sol \in Own(m)

Undisturbed == OnePoll /\ faults.crashes = 0 /\ faults.failures = 0

WalletInv == Undisturbed => PoolsOK /\ \A f \in Flows : WalletOK(flow[f])

LEMMA InitWallet == Init => WalletInv
<1> SUFFICES ASSUME Init PROVE PoolsOK /\ \A f \in Flows : WalletOK(flow[f])
  BY DEF WalletInv
<1>1. PoolsOK
  BY DEF Init, PoolsOK, NoMeteora
<1>2. ASSUME NEW f \in Flows PROVE WalletOK(flow[f])
  BY DEF Init, Idle, WalletOK, Base
<1> QED
  BY <1>1, <1>2

\* Without a failure, an await ends.
LEMMA EndsSmoothly ==
  ASSUME IInv, NEW f \in Flows, NEW pc \in PCs, Ends(f, pc), faults'.failures = 0
  PROVE  flow'[f] = [flow[f] EXCEPT !.pc = pc]
<1>1. ~Fails
  BY DEF Fails, IInv, TypeOK
<1> QED
  BY <1>1 DEF Ends, Goes, IInv, TypeOK

LEMMA NoFailure == ASSUME IInv, faults'.failures = 0 PROVE ~Fails
BY DEF Fails, IInv, TypeOK

\* A step that leaves the wallet alone, between awaits of the same kind.
LEMMA WalletStays ==
  ASSUME NEW r, NEW q, WalletOK(r), UNCHANGED <<botSol, botTok, wsol>>,
         r.pc \notin {"readSol", "readTok", "wrap", "create"},
         q.pc \notin {"readSol", "readTok", "wrap", "create"}
  PROVE  WalletOK(q)'
BY DEF WalletOK

Quiet(f) ==
  \/ Poll(f) \/ Check(f) \/ Begin(f) \/ Prepare(f) \/ Record(f) \/ Reread(f)
  \/ RecordPool(f) \/ Lock(f) \/ RecordLock(f) \/ MarkLive(f) \/ MarkFailed(f)

\* Those steps leave the SOL and the tokens alone.
LEMMA QuietWallet ==
  ASSUME IInv, NEW f \in Flows, Quiet(f), WalletOK(flow[f]), PoolsOK,
         faults'.failures = 0
  PROVE  WalletOK(flow[f])' /\ PoolsOK'
<1>1. /\ UNCHANGED <<botSol, botTok, wsol>>
      /\ flow[f].pc \notin {"readSol", "readTok", "wrap", "create"}
  BY DEF Quiet, Poll, Check, Begin, Prepare, Record, Reread, RecordPool, Lock,
     RecordLock, MarkLive, MarkFailed, Refused, chain, At
<1>2. flow'[f].pc \notin {"readSol", "readTok", "wrap", "create"}
  <2>1. flow \in [Flows -> FlowType]
    BY DEF IInv, TypeOK
  <2>2. ASSUME NEW to, Goes(f, to) PROVE flow'[f] = to
    BY <2>1, <2>2 DEF Goes
  <2>3. CASE Poll(f) \/ Check(f) \/ MarkLive(f) \/ MarkFailed(f)
    <3>1. /\ Idle.pc = "idle" /\ AfterMint(f).pc \in {"idle", "check"}
          /\ [Idle EXCEPT !.pc = "check", !.todo = Found].pc = "check"
      BY DEF Idle, AfterMint
    <3>2. CASE Check(f)
      <4>1. flow[f] \in FlowType /\ flow[f].pc = "check"
        BY <2>1, <3>2 DEF Check, At
      <4>2. PICK m \in flow[f].todo :
              LET rest == [flow[f] EXCEPT !.todo = @ \ {m}] IN
              Goes(f, IF row[m].status # "live"
                      THEN [rest EXCEPT !.pc = "begin", !.mint = m]
                      ELSE IF rest.todo = {} THEN Idle ELSE rest)
        BY <3>2, NoFailure DEF Check
      <4> DEFINE rest == [flow[f] EXCEPT !.todo = @ \ {m}]
                 on == [rest EXCEPT !.pc = "begin", !.mint = m]
      <4>3. rest.pc = "check" /\ on.pc = "begin"
        BY <4>1
      <4> HIDE DEF on
      <4>4. flow'[f] \in {on, Idle, rest}
        BY <2>2, <4>2 DEF on
      <4> QED
        BY <3>1, <4>3, <4>4
    <3>3. CASE Poll(f) \/ MarkLive(f) \/ MarkFailed(f)
      BY <2>2, <3>1, <3>3, NoFailure DEF Poll, MarkLive, MarkFailed
    <3> QED
      BY <2>3, <3>2, <3>3
  <2>4. CASE Begin(f) \/ Reread(f)
    <3>1. ASSUME NEW r, NEW pc PROVE [flow[f] EXCEPT !.row = r, !.pc = pc].pc = pc
      BY <2>1
    <3>2. \A r \in Rows : Remaining(r) \in {"release", "lock", "live"}
      BY DEF Remaining
    <3>3. row[Mint(f)] \in Rows
      BY <2>4, ActiveMint DEF Begin, Reread, At, IInv, TypeOK
    <3> DEFINE r == row[Mint(f)]
    <3>4. \E pc \in {"prepare", Remaining(r)} :
            Goes(f, [flow[f] EXCEPT !.row = r, !.pc = pc])
      BY <2>4 DEF Begin, Reread
    <3>5. PICK pc \in {"prepare", Remaining(r)} :
            Goes(f, [flow[f] EXCEPT !.row = r, !.pc = pc])
      BY <3>4
    <3>6. flow'[f].pc = pc
      BY <2>2, <3>1, <3>5
    <3> QED
      BY <3>2, <3>3, <3>5, <3>6
  <2>6. CASE Refused(f)
    BY <2>1, <2>2, <2>6 DEF Refused
  <2>5. ASSUME NEW pc \in {"record", "reread", "recordLock", "live"}, Ends(f, pc)
        PROVE  flow'[f].pc = pc
    <3>1. pc \in PCs
      BY DEF PCs, Awaits
    <3>2. flow'[f] = [flow[f] EXCEPT !.pc = pc]
      BY <2>5, <3>1, EndsSmoothly
    <3> QED
      BY <2>1, <3>2
  <2> QED
    BY <2>3, <2>4, <2>5, <2>6 DEF Quiet, Prepare, Record, RecordPool, Lock, RecordLock
<1>3. PoolsOK'
  <2>1. CASE UNCHANGED meteora
    BY <2>1 DEF PoolsOK
  <2>2. CASE Lock(f) /\ ~UNCHANGED meteora
    <3>1. \A m \in Mints : /\ meteora'[m].exists = meteora[m].exists
                           /\ meteora'[m].sol = meteora[m].sol
      BY <2>2, SMTT(30) DEF Lock, Refused, chain, IInv, TypeOK
    <3> QED
      BY <3>1 DEF PoolsOK, Own
  <2> QED
    BY <2>1, <2>2 DEF Quiet, Poll, Check, Begin, Prepare, Record, Reread, RecordPool,
       RecordLock, MarkLive, MarkFailed, Refused, chain
<1> QED
  BY <1>1, <1>2, <1>3, WalletStays, SMTT(30)

LEMMA Lands ==
  ASSUME IInv, NEW f \in Flows, NEW to, Goes(f, to)
  PROVE  flow'[f] = to
BY DEF Goes, IInv, TypeOK

LEMMA PoolsStay == ASSUME PoolsOK, UNCHANGED meteora PROVE PoolsOK'
BY DEF PoolsOK, Own

LEMMA ReleaseWallet ==
  ASSUME IInv, NEW f \in Flows, Release(f), WalletOK(flow[f]), PoolsOK,
         faults'.failures = 0
  PROVE  WalletOK(flow[f])' /\ PoolsOK'
<1> DEFINE m == Mint(f)
<1>1. m \in Mints /\ flow[f] \in FlowType /\ flow[f].pc = "release"
  BY ActiveMint DEF Release, At
<1>2. botTok = {} /\ wsol = 0 /\ botSol \in Base /\ Base \subseteq Nat
  BY <1>1 DEF WalletOK, Base
<1>3. CASE Refused(f)
  <2>1. flow'[f].pc = "failed"
    BY <1>1, <1>3, Lands DEF Refused
  <2> QED
    BY <1>1, <1>3, <2>1, WalletStays, PoolsStay DEF Refused, chain
<1>4. CASE ~Refused(f)
  <2>1. flow'[f] = [flow[f] EXCEPT !.pc = "readSol"]
    BY <1>4, EndsSmoothly DEF Release, PCs, Awaits
  <2>2. flow'[f].pc = "readSol" /\ flow'[f].mint = m
    BY <1>1, <2>1 DEF Mint
  <2>3. \/ botTok' = {} /\ botSol' \in Base
        \/ botTok' = {m} /\ botSol' - PoolSol[m] \in Base
    <3>1. CASE EscrowFunded(m)
      <4>1. botSol' = botSol + PoolSol[m] /\ botTok' = {m}
        BY <1>2, <1>4, <3>1 DEF Release
      <4>2. botSol' - PoolSol[m] = botSol
        BY <1>1, <1>2, <4>1
      <4> QED
        BY <1>2, <4>1, <4>2
    <3>2. CASE ~EscrowFunded(m)
      BY <1>2, <1>4, <3>2 DEF Release
    <3> QED
      BY <3>1, <3>2
  <2>4. wsol' = 0
    BY <1>2, <1>4 DEF Release
  <2>5. WalletOK(flow[f])'
    BY <2>2, <2>3, <2>4 DEF WalletOK, Base
  <2> QED
    BY <1>4, <2>5, PoolsStay DEF Release
<1> QED
  BY <1>3, <1>4

LEMMA ReadSolWallet ==
  ASSUME IInv, NEW f \in Flows, ReadSol(f), WalletOK(flow[f]), PoolsOK
  PROVE  WalletOK(flow[f])' /\ PoolsOK'
<1>1. flow[f] \in FlowType /\ flow[f].pc = "readSol" /\ UNCHANGED chain
  BY ActiveMint DEF ReadSol, At
<1>2. flow'[f] = [flow[f] EXCEPT !.sol = SolForPool, !.pc = "readTok"]
  BY Lands DEF ReadSol
<1>3. /\ flow'[f].pc = "readTok" /\ flow'[f].mint = flow[f].mint
      /\ flow'[f].sol = botSol - KEEP
  BY <1>1, <1>2 DEF SolForPool
<1>4. WalletOK(flow[f])'
  BY <1>1, <1>3 DEF WalletOK, Base, chain
<1> QED
  BY <1>1, <1>4, PoolsStay DEF chain

\* Tokens of the mint and SOL of their own come together, and there is more of
\* it than KEEP: the step between does not refuse.
LEMMA ReadTokWallet ==
  ASSUME IInv, NEW f \in Flows, ReadTok(f), WalletOK(flow[f]), PoolsOK
  PROVE  WalletOK(flow[f])' /\ PoolsOK'
<1> DEFINE m == flow[f].mint
<1>1. /\ flow[f] \in FlowType /\ flow[f].pc = "readTok" /\ UNCHANGED chain
      /\ m \in Mints /\ Mint(f) = m
  BY ActiveMint DEF ReadTok, At, Refused, Mint
<1>2. /\ wsol = 0 /\ flow[f].sol = botSol - KEEP
      /\ \/ botTok = {} /\ botSol \in Base
         \/ botTok = {m} /\ botSol - PoolSol[m] \in Base
  BY <1>1 DEF WalletOK
<1>3. CASE Enough(m, flow[f].sol)
  <2>1. botTok = {m} /\ botSol - PoolSol[m] \in Base
    BY <1>2, <1>3 DEF Enough
  <2>2. flow'[f] = [flow[f] EXCEPT !.pc = "wrap"]
    BY <1>1, <1>3, Lands DEF ReadTok
  <2>3. flow'[f].pc = "wrap" /\ flow'[f].mint = m /\ flow'[f].sol = flow[f].sol
    BY <1>1, <2>2
  <2>4. WalletOK(flow[f])'
    BY <1>1, <1>2, <2>1, <2>3 DEF WalletOK, Base, chain
  <2> QED
    BY <1>1, <2>4, PoolsStay DEF chain
<1>4. CASE ~Enough(m, flow[f].sol)
  <2>1. botTok = {} /\ botSol \in Base
    <3>1. SUFFICES ASSUME botTok = {m}, botSol - PoolSol[m] \in Base PROVE FALSE
      BY <1>2
    <3>2. flow[f].sol \in Int /\ PoolSol[m] \in Nat /\ PoolSol[m] > KEEP /\ botSol \in Nat
      BY <1>1 DEF IInv, TypeOK
    <3>3. botSol - PoolSol[m] \in Nat
      BY <3>1 DEF Base
    <3>4. flow[f].sol > 0
      BY <1>2, <3>2, <3>3
    <3> QED
      BY <1>4, <3>1, <3>4 DEF Enough
  <2>2. flow'[f] = [flow[f] EXCEPT !.pc = "failed"]
    BY <1>1, <1>4, Lands DEF ReadTok, Refused
  <2>3. flow'[f].pc = "failed"
    BY <1>1, <2>2
  <2>4. WalletOK(flow[f])'
    BY <1>1, <1>2, <2>1, <2>3 DEF WalletOK, Base, chain
  <2> QED
    BY <1>1, <2>4, PoolsStay DEF chain
<1> QED
  BY <1>3, <1>4

LEMMA WrapWallet ==
  ASSUME IInv, NEW f \in Flows, Wrap(f), WalletOK(flow[f]), PoolsOK,
         faults'.failures = 0
  PROVE  WalletOK(flow[f])' /\ PoolsOK'
<1> DEFINE m == flow[f].mint
           amount == flow[f].sol
<1>1. flow[f] \in FlowType /\ flow[f].pc = "wrap" /\ m \in Mints
  BY ActiveMint DEF Wrap, At, Mint
<1>2. /\ wsol = 0 /\ amount = botSol - KEEP /\ botTok = {m}
      /\ botSol - PoolSol[m] \in Base
  BY <1>1 DEF WalletOK
<1>3. amount \in Int /\ botSol \in Nat /\ PoolSol[m] \in Nat
  BY <1>1 DEF IInv, TypeOK
<1>4. botSol' = KEEP /\ wsol' = amount /\ UNCHANGED <<meteora, botTok>> /\ Ends(f, "create")
  BY <1>2, <1>3 DEF Wrap
<1>5. flow'[f] = [flow[f] EXCEPT !.pc = "create"]
  BY <1>4, EndsSmoothly DEF PCs, Awaits
<1>6. flow'[f].pc = "create" /\ flow'[f].mint = m /\ flow'[f].sol = amount
  BY <1>1, <1>5
<1>7. amount \in Own(m)
  <2>1. PICK b \in Base : botSol - PoolSol[m] = b
    BY <1>2
  <2>2. b \in Nat /\ KEEP \in Nat /\ Spare \in Nat /\ 0 - KEEP <= b - KEEP /\ b - KEEP <= Spare
    BY DEF Base, Spare
  <2>3. amount = PoolSol[m] + (b - KEEP)
    BY <1>2, <1>3, <2>1, <2>2
  <2> QED
    BY <1>3, <2>2, <2>3 DEF Own
<1>8. WalletOK(flow[f])'
  BY <1>2, <1>4, <1>6, <1>7 DEF WalletOK, Own, Spare
<1> QED
  BY <1>4, <1>8, PoolsStay

LEMMA CreateWallet ==
  ASSUME IInv, NEW f \in Flows, Create(f), WalletOK(flow[f]), PoolsOK,
         faults'.failures = 0
  PROVE  WalletOK(flow[f])' /\ PoolsOK'
<1> DEFINE m == flow[f].mint
           amount == flow[f].sol
<1>1. flow[f] \in FlowType /\ flow[f].pc = "create" /\ m \in Mints /\ Mint(f) = m
  BY ActiveMint DEF Create, At, Mint
<1>2. botTok = {m} /\ wsol = amount /\ botSol = KEEP /\ amount \in Own(m)
  BY <1>1 DEF WalletOK
<1>3. amount \in Int
  BY <1>1
<1>4. CanCreate(m, amount)
  <2>1. ~meteora[m].exists
    <3>1. meteora[m].exists \in BOOLEAN
      BY <1>1 DEF IInv, TypeOK
    <3>2. phase[m] = "paid"
      BY <1>1, <1>2 DEF IInv, TokensOK
    <3> QED
      BY <1>1, <1>2, <3>1, <3>2 DEF IInv, TokensOK
  <2> QED
    BY <1>2, <1>3, <2>1 DEF CanCreate
<1>5. /\ meteora' = [meteora EXCEPT ![m] = [exists |-> TRUE, sol |-> amount, locked |-> FALSE]]
      /\ botTok' = {} /\ wsol' = 0 /\ botSol' = KEEP /\ Ends(f, "recordPool")
  BY <1>1, <1>2, <1>3, <1>4 DEF Create
<1>6. flow'[f] = [flow[f] EXCEPT !.pc = "recordPool"]
  BY <1>5, EndsSmoothly DEF PCs, Awaits
<1>7. flow'[f].pc = "recordPool"
  BY <1>1, <1>6
<1>8. WalletOK(flow[f])'
  BY <1>5, <1>7 DEF WalletOK, Base
<1>9. PoolsOK'
  BY <1>1, <1>2, <1>5 DEF PoolsOK, Own, Spare, IInv, TypeOK
<1> QED
  BY <1>8, <1>9

LEMMA StepWallet ==
  ASSUME IInv, NEW f \in Flows, Step(f) \/ Lost(f), WalletOK(flow[f]), PoolsOK,
         faults'.failures = 0
  PROVE  WalletOK(flow[f])' /\ PoolsOK'
BY NoFailure, QuietWallet, ReleaseWallet, ReadSolWallet, ReadTokWallet, WrapWallet,
   CreateWallet DEF Step, Quiet, Lost

\* Faults are counted, not forgotten, and the polls stay the same.
LEMMA StaysDisturbed ==
  ASSUME IInv, [Next]_vars, Undisturbed'
  PROVE  Undisturbed /\ ~Crash
<1>1. IInv'
  BY NextKeeps
<1>2. DOMAIN flow = Flows /\ DOMAIN flow' = Flows
  BY <1>1 DEF IInv, TypeOK
<1>3. faults \in FaultsType
  BY SMTT(30) DEF IInv, TypeOK
<1>4. \/ UNCHANGED faults
      \/ faults' = [faults EXCEPT !.failures = @ + 1]
      \/ faults' = [faults EXCEPT !.cancels = @ + 1]
      \/ faults' = [faults EXCEPT !.strangers = @ + 1]
      \/ Crash
  BY ZenonT(60) DEF Next, vars, Step, Lost, Poll, Check, Begin, Prepare, Record, Reread, Release,
     ReadSol, ReadTok, Wrap, Create, RecordPool, Lock, RecordLock, MarkLive,
     MarkFailed, Refused, Ends, Fails, Graduate, Cancel, PreparedByAnother
<1>5. faults.crashes = 0 /\ faults.failures = 0 /\ ~Crash
  BY <1>3, <1>4 DEF Undisturbed, Crash
<1> QED
  BY <1>2, <1>5 DEF Undisturbed, OnePoll

LEMMA NextWallet == ASSUME IInv, WalletInv, [Next]_vars PROVE WalletInv'
<1> SUFFICES ASSUME Undisturbed' PROVE PoolsOK' /\ \A f \in Flows : WalletOK(flow[f])'
  BY DEF WalletInv
<1>1. Undisturbed /\ ~Crash /\ PoolsOK /\ \A f \in Flows : WalletOK(flow[f])
  BY StaysDisturbed DEF WalletInv
<1>2. CASE \E f \in Flows : Step(f) \/ Lost(f)
  <2>1. PICK f \in Flows : Step(f) \/ Lost(f)
    BY <1>2
  <2>2. Flows = {f}
    BY <1>1, <2>1 DEF Undisturbed, OnePoll, IInv, TypeOK
  <2>3. faults'.failures = 0
    BY DEF Undisturbed
  <2> QED
    BY <1>1, <2>1, <2>2, <2>3, StepWallet
<1>3. CASE UNCHANGED <<botSol, botTok, wsol, meteora, flow>>
  BY <1>1, <1>3, PoolsStay DEF WalletOK, Base, Own, Spare
<1> QED
  BY <1>1, <1>2, <1>3 DEF Next, Graduate, Cancel, PreparedByAnother, vars, chain

\* Where polls do not overlap, no Meteora pool is made with another mint's SOL
\* (index.js:261), for any mints and any SOL in them, as long as nothing failed.
THEOREM OwnSol == Spec => []OwnSolOnly
<1>1. WalletInv => OwnSolOnly
  BY DEF WalletInv, OwnSolOnly, Undisturbed, PoolsOK, Own
<1>2. Spec => []WalletInv
  BY InitWallet, NextWallet, Invariance, PTL DEF Spec
<1> QED
  BY <1>1, <1>2, PTL

-----------------------------------------------------------------------------
\* The bot does not look at how many tokens a pool has.
stakes == [m \in Mints |-> 1]

Life == INSTANCE PoolLifecycle WITH stake <- stakes

LEMMA PhaseSteps ==
  ASSUME IInv, [Next]_vars
  PROVE  \/ UNCHANGED phase
         \/ \E m \in Mints :
              \/ phase[m] = "curve" /\ phase' = [phase EXCEPT ![m] = "graduated"]
              \/ phase[m] = "graduated" /\ phase' = [phase EXCEPT ![m] = "escrowed"]
              \/ phase[m] = "escrowed" /\ phase' = [phase EXCEPT ![m] = "graduated"]
              \/ phase[m] = "escrowed" /\ phase' = [phase EXCEPT ![m] = "paid"]
<1>1. ASSUME NEW f \in Flows, Prepare(f) \/ Release(f), ~UNCHANGED phase
      PROVE  /\ Mint(f) \in Mints
             /\ \/ /\ phase[Mint(f)] = "graduated"
                   /\ phase' = [phase EXCEPT ![Mint(f)] = "escrowed"]
                \/ /\ phase[Mint(f)] = "escrowed"
                   /\ phase' = [phase EXCEPT ![Mint(f)] = "paid"]
  <2>1. Mint(f) \in Mints
    BY <1>1, ActiveMint DEF Prepare, Release, At
  <2> QED
    BY <1>1, <2>1 DEF Prepare, Release, CanPrepare, Escrow, EscrowFunded, Refused, chain
<1>2. ASSUME NEW f \in Flows, Step(f) \/ Lost(f), ~Prepare(f), ~Release(f)
      PROVE  UNCHANGED phase
  BY <1>2 DEF Step, Lost, Poll, Check, Begin, Record, Reread, ReadSol, ReadTok, Wrap,
     Create, RecordPool, Lock, RecordLock, MarkLive, MarkFailed, Refused, chain
<1> QED
  BY <1>1, <1>2 DEF Next, Graduate, Cancel, PreparedByAnother, CanPrepare, Escrow,
     Crash, vars, chain

\* The chain that the bot is checked against does nothing but what
\* PoolLifecycle lets a pool do, and the program implements that: the theorems
\* about the bot are about the bot over this program.
THEOREM ChainAsPromised == Spec => [][Life!Next]_(Life!vars)
<1>1. ASSUME IInv, [Next]_vars PROVE [Life!Next]_(Life!vars)
  <2>1. stakes' = stakes /\ \A m \in Mints : stakes[m] \in Nat \ {0}
    BY DEF stakes
  <2>2. \A m \in Mints : stakes' = [stakes EXCEPT ![m] = stakes'[m]]
    BY DEF stakes
  <2>3. CASE UNCHANGED phase
    BY <2>1, <2>3 DEF Life!vars
  <2>4. CASE \E m \in Mints :
              /\ phase[m] = "curve"
              /\ phase' = [phase EXCEPT ![m] = "graduated"]
    BY <2>1, <2>2, <2>4 DEF Life!Next, Life!Trade, Life!Restake
  <2>5. CASE \E m \in Mints :
              \/ phase[m] = "graduated" /\ phase' = [phase EXCEPT ![m] = "escrowed"]
              \/ phase[m] = "escrowed" /\ phase' = [phase EXCEPT ![m] = "graduated"]
              \/ phase[m] = "escrowed" /\ phase' = [phase EXCEPT ![m] = "paid"]
    BY <2>1, <2>5 DEF Life!Next, Life!Move
  <2> QED
    BY <1>1, PhaseSteps, <2>3, <2>4, <2>5
<1> QED
  BY <1>1, Invariance, PTL DEF Spec
=============================================================================
