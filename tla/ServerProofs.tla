---------------------------- MODULE ServerProofs -----------------------------
(***************************************************************************)
(* Proofs about Deploy, for any number of deploys, any sources and hashes, *)
(* and any number of lost calls; and about RateLimiter, for any window and *)
(* limit, however often the server restarts.                               *)
(*                                                                         *)
(* FlowOK says what the browser of a deploy may rely on at each of its     *)
(* awaits, SentOK what a transaction on its way was built from.  That      *)
(* locks are dropped for a reason needs more (DropOK): an attempt that     *)
(* failed without a reason has cost one of the lost calls, and two such    *)
(* attempts come before the locks are dropped.                             *)
(*                                                                         *)
(* LoadIsBounded is not inductive: the window of an entry begins at any    *)
(* time, so that WindowInv counts what was let through since it began      *)
(* apart from what was let through before.                                 *)
(*                                                                         *)
(* The keys of Sources, for any numbers of tweets and any sites: a key is  *)
(* made of parts of what tells its page from others.                       *)
(***************************************************************************)
EXTENDS Deploy, RateLimiter, Sources, SumTheorems

FlowType == [pc : PCs, signed : BOOLEAN, claims : BOOLEAN, source : BOOLEAN,
             attempt : 0..3, result : {"none", "ok", "err"}, gave : BOOLEAN]

\* What a deploy may rely on.
FlowOK(m, f) ==
  /\ f.pc \in {"ask", "similar"} \/ f.signed => Source[m] # None
  /\ f.pc \in {"build", "send", "confirm", "tell", "done"} => m \in registries
  /\ f.pc \in {"send", "confirm"} => f.attempt > 0
  /\ f.pc \in {"send", "confirm"} /\ f.attempt = 3 => ~f.claims
  /\ f.pc \in {"tell", "done"} => m \in pools
  /\ f.pc = "tell" => f.signed
  /\ f.source => f.signed

FlowsOK == \A m \in Mints : FlowOK(m, flow[m])

SentOK ==
  \A tx \in sent : /\ tx.mint \in registries
                   /\ tx.source => flow[tx.mint].signed

IInv == TypeOK /\ FlowsOK /\ SentOK /\ LocksComeWithThePool

USE DeployAssumption DEF FlowType

LEMMA HashTyped == ASSUME NEW m \in Mints, NEW k \in Kinds PROVE Hash[m][k] \in Hashes
BY DEF Hashes

LEMMA InitIInv == Init => IInv
<1> SUFFICES ASSUME Init PROVE IInv
  OBVIOUS
<1>1. NewFlow \in FlowType /\ NewFlow.pc = "form" /\ ~NewFlow.signed /\ ~NewFlow.source
  BY DEF NewFlow, PCs
<1>2. TypeOK
  BY <1>1 DEF Init, TypeOK
<1>3. FlowsOK
  BY <1>1 DEF Init, FlowsOK, FlowOK
<1>4. LocksComeWithThePool
  BY HashTyped DEF Init, LocksComeWithThePool, Held
<1> QED
  BY <1>2, <1>3, <1>4 DEF Init, IInv, SentOK

-----------------------------------------------------------------------------
LEMMA Lands ==
  ASSUME TypeOK, NEW m \in Mints, NEW to, Goes(m, to)
  PROVE  flow'[m] = to /\ \A n \in Mints \ {m} : flow'[n] = flow[n]
BY DEF TypeOK, Goes

LEMMA FailsTyped ==
  ASSUME TypeOK, Fails
  PROVE  faults' \in 0..MaxFaults
BY DEF TypeOK, Fails

\* A deploy moves; registries and pools only grow, a source once approved stays
\* approved: what the other deploys rely on stays true.
LEMMA MoveKeeps ==
  ASSUME IInv, NEW m \in Mints, NEW to \in FlowType, Goes(m, to),
         registries \subseteq registries', pools \subseteq pools',
         flow[m].signed => to.signed, FlowOK(m, to)',
         \A tx \in sent' \ sent : tx.mint \in registries' /\
                                  (tx.source => flow'[tx.mint].signed)
  PROVE  flow' \in [Mints -> FlowType] /\ FlowsOK' /\ SentOK'
<1>1. flow'[m] = to /\ \A n \in Mints \ {m} : flow'[n] = flow[n]
  BY Lands DEF IInv
<1>2. flow \in [Mints -> FlowType] /\ flow' \in [Mints -> FlowType]
  BY DEF IInv, TypeOK, Goes
<1>3. ASSUME NEW n \in Mints \ {m} PROVE FlowOK(n, flow[n])'
  <2>1. flow'[n] = flow[n] /\ FlowOK(n, flow[n])
    BY <1>1 DEF IInv, FlowsOK
  <2> QED
    BY <2>1 DEF FlowOK
<1>4. FlowOK(m, flow[m])'
  BY <1>1 DEF FlowOK
<1>5. \A n \in Mints : flow[n].signed => flow'[n].signed
  BY <1>1
<1>6. SentOK'
  <2> SUFFICES ASSUME NEW tx \in sent'
               PROVE  tx.mint \in registries' /\ (tx.source => flow'[tx.mint].signed)
    BY DEF SentOK
  <2>1. CASE tx \in sent
    <3>1. tx.mint \in Mints
      BY <2>1 DEF IInv, TypeOK, Transactions
    <3> QED
      BY <1>5, <2>1, <3>1 DEF IInv, SentOK
  <2> QED
    BY <2>1
<1> QED
  BY <1>2, <1>3, <1>4, <1>6 DEF FlowsOK

\* A step that only moves a deploy.
LEMMA OnlyMoves ==
  ASSUME IInv, NEW m \in Mints, NEW to \in FlowType, Goes(m, to),
         flow[m].signed => to.signed, FlowOK(m, to),
         UNCHANGED <<chain, cache, sent>>, faults' \in 0..MaxFaults
  PROVE  IInv'
<1>1. FlowOK(m, to)'
  BY DEF FlowOK, chain
<1>2. flow' \in [Mints -> FlowType] /\ FlowsOK' /\ SentOK'
  BY <1>1, MoveKeeps DEF chain
<1>3. TypeOK'
  BY <1>2 DEF IInv, TypeOK, chain, Transactions
<1> QED
  BY <1>2, <1>3 DEF IInv, LocksComeWithThePool, Held, chain

\* A step to another pc that only moves a deploy.
LEMMA OnlyGoes ==
  ASSUME IInv, NEW m \in Mints, NEW pc \in PCs \ {"send", "confirm"}, GoesTo(m, pc),
         UNCHANGED <<chain, cache, sent>>, faults' \in 0..MaxFaults,
         pc \in {"ask", "similar"} => Source[m] # None,
         pc \in {"build", "tell", "done"} => m \in registries,
         pc \in {"tell", "done"} => m \in pools,
         pc = "tell" => flow[m].signed
  PROVE  IInv'
<1> DEFINE to == [flow[m] EXCEPT !.pc = pc]
<1>1. flow[m] \in FlowType /\ FlowOK(m, flow[m])
  BY DEF IInv, TypeOK, FlowsOK
<1>2. to \in FlowType /\ to.pc = pc /\ to.signed = flow[m].signed
      /\ to.source = flow[m].source
  BY <1>1
<1> HIDE DEF to
<1>3. FlowOK(m, to)
  BY <1>1, <1>2 DEF FlowOK
<1> QED
  BY <1>2, <1>3, OnlyMoves DEF GoesTo, to

-----------------------------------------------------------------------------
\* Before the first transaction is built.
LEMMA FormKeeps ==
  ASSUME IInv, NEW m \in Mints, Check(m) \/ AskSource(m) \/ Unsigned(m)
  PROVE  IInv'
<1>1. faults' \in 0..MaxFaults
  BY FailsTyped DEF Check, AskSource, Unsigned, Free, IInv, TypeOK
<1>2. UNCHANGED <<chain, cache, sent>>
  BY DEF Check, AskSource, Unsigned
<1>3. CASE Check(m)
  <2> DEFINE pc == IF Source[m] = None THEN "tx1" ELSE "ask"
  <2>1. GoesTo(m, pc) /\ pc \in PCs \ {"send", "confirm"}
    BY <1>3 DEF Check, PCs
  <2> QED
    BY <1>1, <1>2, <2>1, OnlyGoes
<1>4. CASE AskSource(m)
  <2>1. Source[m] # None
    BY <1>4 DEF AskSource, At, IInv, FlowsOK, FlowOK
  <2> QED
    BY <1>1, <1>2, <1>4, <2>1, OnlyGoes DEF AskSource, PCs
<1>5. CASE Unsigned(m)
  BY <1>1, <1>2, <1>5, OnlyGoes DEF Unsigned, PCs
<1> QED
  BY <1>3, <1>4, <1>5

LEMMA AskImageKeeps == ASSUME IInv, NEW m \in Mints, AskImage(m) PROVE IInv'
<1> DEFINE to == [flow[m] EXCEPT !.pc = "tx1", !.signed = TRUE]
<1>1. flow[m] \in FlowType /\ FlowOK(m, flow[m]) /\ flow[m].pc = "similar"
  BY DEF IInv, TypeOK, FlowsOK, AskImage, At
<1>2. to \in FlowType /\ to.pc = "tx1" /\ to.signed
  BY <1>1 DEF PCs
<1> HIDE DEF to
<1>3. FlowOK(m, to)
  BY <1>1, <1>2 DEF FlowOK
<1>4. faults' \in 0..MaxFaults
  BY FailsTyped DEF AskImage, Free, IInv, TypeOK
<1> QED
  BY <1>2, <1>3, <1>4, OnlyMoves DEF AskImage, to

LEMMA Tx1Keeps == ASSUME IInv, NEW m \in Mints, Tx1(m) PROVE IInv'
<1>1. flow[m] \in FlowType /\ FlowOK(m, flow[m]) /\ flow[m].pc = "tx1"
  BY DEF IInv, TypeOK, FlowsOK, Tx1, At
<1>2. faults' \in 0..MaxFaults
  BY FailsTyped DEF Tx1, IInv, TypeOK
<1>3. /\ registries \subseteq registries' /\ registries' \subseteq Mints
      /\ UNCHANGED <<locks, pools, cache, sent>>
  BY DEF Tx1, CreateTokenRegistry, IInv, TypeOK
<1>4. PICK pc \in {"build", "failed"} : GoesTo(m, pc) /\ (pc = "build" => m \in registries')
  BY DEF Tx1, CreateTokenRegistry
<1>5. \E to \in FlowType : /\ Goes(m, to) /\ to.pc = pc
                           /\ to.signed = flow[m].signed /\ to.source = flow[m].source
  BY <1>1, <1>4 DEF GoesTo, PCs
<1>6. PICK to \in FlowType : /\ Goes(m, to) /\ to.pc = pc
                             /\ to.signed = flow[m].signed /\ to.source = flow[m].source
  BY <1>5
<1>7. FlowOK(m, to)'
  BY <1>1, <1>4, <1>6 DEF FlowOK
<1>8. flow' \in [Mints -> FlowType] /\ FlowsOK' /\ SentOK'
  BY <1>3, <1>6, <1>7, MoveKeeps
<1> QED
  BY <1>2, <1>3, <1>8 DEF IInv, TypeOK, LocksComeWithThePool, Held

LEMMA BuildKeeps == ASSUME IInv, NEW m \in Mints, Build(m) PROVE IInv'
<1>1. flow[m] \in FlowType /\ FlowOK(m, flow[m]) /\ flow[m].pc = "build"
  BY DEF IInv, TypeOK, FlowsOK, Build, At
<1>2. PICK claims \in BOOLEAN, source \in {flow[m].signed, FALSE} :
        /\ IF claims /\ source = flow[m].signed THEN UNCHANGED faults ELSE Fails
        /\ Goes(m, [flow[m] EXCEPT !.pc = "send", !.claims = claims,
                      !.source = source, !.attempt = 1, !.gave = ~claims])
  BY DEF Build
<1> DEFINE gave == ~claims
           to == [flow[m] EXCEPT !.pc = "send", !.claims = claims,
                    !.source = source, !.attempt = 1, !.gave = gave]
<1>. gave \in BOOLEAN /\ source \in BOOLEAN /\ (source => flow[m].signed)
  BY <1>1
<1> HIDE DEF gave
<1>3. to \in FlowType /\ to.pc = "send" /\ to.signed = flow[m].signed
      /\ to.source = source /\ to.attempt = 1
  <2>1. "send" \in PCs /\ 1 \in 0..3
    BY DEF PCs
  <2> QED
    BY <1>1, <2>1
<1> HIDE DEF to
<1>4. FlowOK(m, to)
  BY <1>1, <1>3 DEF FlowOK
<1>5. faults' \in 0..MaxFaults
  BY <1>2, FailsTyped DEF IInv, TypeOK
<1> QED
  BY <1>2, <1>3, <1>4, <1>5, OnlyMoves DEF Build, to, gave

LEMMA SendKeeps == ASSUME IInv, NEW m \in Mints, Send(m) PROVE IInv'
<1>1. flow[m] \in FlowType /\ FlowOK(m, flow[m]) /\ flow[m].pc = "send"
  BY DEF IInv, TypeOK, FlowsOK, Send, At
<1> DEFINE tx == [mint |-> m, attempt |-> flow[m].attempt,
                  claims |-> flow[m].claims, source |-> flow[m].source]
<1>2. tx \in Transactions /\ tx.mint = m /\ tx.source = flow[m].source
  BY <1>1 DEF Transactions, FlowOK
<1> HIDE DEF tx
<1>3. sent' = sent \cup {tx} /\ UNCHANGED <<chain, cache, faults>>
  BY DEF Send, tx
<1>4. \E to \in FlowType :
        /\ Goes(m, to) /\ to.pc = "confirm" /\ to.signed = flow[m].signed
        /\ to.source = flow[m].source /\ to.attempt = flow[m].attempt
        /\ to.claims = flow[m].claims
  <2>1. "confirm" \in PCs
    BY DEF PCs
  <2> DEFINE next == [flow[m] EXCEPT !.pc = "confirm", !.result = "none"]
  <2>2. Goes(m, next)
    BY DEF Send
  <2>3. /\ next \in FlowType /\ next.pc = "confirm" /\ next.signed = flow[m].signed
        /\ next.source = flow[m].source /\ next.attempt = flow[m].attempt
        /\ next.claims = flow[m].claims
    BY <1>1, <2>1
  <2> HIDE DEF next
  <2> QED
    BY <2>2, <2>3
<1>5. PICK to \in FlowType :
        /\ Goes(m, to) /\ to.pc = "confirm" /\ to.signed = flow[m].signed
        /\ to.source = flow[m].source /\ to.attempt = flow[m].attempt
        /\ to.claims = flow[m].claims
  BY <1>4
<1>6. FlowOK(m, to)'
  BY <1>1, <1>3, <1>5 DEF FlowOK, chain
<1>7. flow'[m] = to
  BY <1>5, Lands DEF IInv
<1>8. tx.mint \in registries' /\ (tx.source => flow'[tx.mint].signed)
  BY <1>1, <1>2, <1>3, <1>5, <1>7 DEF FlowOK, chain
<1>9. flow' \in [Mints -> FlowType] /\ FlowsOK' /\ SentOK'
  BY <1>3, <1>5, <1>6, <1>8, MoveKeeps DEF chain
<1> QED
  BY <1>2, <1>3, <1>9 DEF IInv, TypeOK, LocksComeWithThePool, Held, chain

LEMMA NextAttemptKeeps ==
  ASSUME IInv, NEW m \in Mints, At(m, "confirm"), NextAttempt(m),
         UNCHANGED <<chain, cache, sent>>, faults' \in 0..MaxFaults
  PROVE  IInv'
<1> DEFINE f == flow[m]
           drop == f.attempt = DropAfter /\ (f.claims \/ f.source)
<1>1. f \in FlowType /\ FlowOK(m, f) /\ f.pc = "confirm"
  BY DEF IInv, TypeOK, FlowsOK, At
<1>2. CASE f.attempt = 3
  <2>1. GoesTo(m, "failed")
    BY <1>2 DEF NextAttempt, GoesTo
  <2> QED
    BY <2>1, OnlyGoes DEF PCs
<1>3. CASE f.attempt # 3
  <2> DEFINE claims == f.claims /\ ~drop
             source == f.source /\ ~drop
             to == [f EXCEPT !.pc = "send", !.attempt = @ + 1,
                             !.claims = claims, !.source = source]
  <2>1. f.attempt \in 1..2 /\ f.attempt + 1 \in 2..3
    BY <1>1, <1>3 DEF FlowOK
  <2>2. Goes(m, to)
    BY <1>3 DEF NextAttempt
  <2>3. /\ claims \in BOOLEAN /\ source \in BOOLEAN /\ (source => f.source)
        /\ f.attempt + 1 = 3 => ~claims
    BY <2>1 DEF DropAfter
  <2> HIDE DEF claims, source
  <2>4. /\ to \in FlowType /\ to.pc = "send" /\ to.signed = f.signed
        /\ to.attempt = f.attempt + 1 /\ to.claims = claims /\ to.source = source
    <3>1. "send" \in PCs /\ f.attempt + 1 \in 0..3
      BY <2>1 DEF PCs
    <3> QED
      BY <1>1, <2>3, <3>1
  <2> HIDE DEF to
  <2>5. to.attempt = 3 => ~to.claims
    BY <2>3, <2>4
  <2>6. FlowOK(m, to)
    BY <1>1, <2>1, <2>3, <2>4, <2>5 DEF FlowOK
  <2> QED
    BY <2>2, <2>4, <2>6, OnlyMoves
<1> QED
  BY <1>2, <1>3

LEMMA ConfirmKeeps ==
  ASSUME IInv, NEW m \in Mints, Confirm(m) \/ LoseConfirmation(m)
  PROVE  IInv'
<1>1. flow[m] \in FlowType /\ FlowOK(m, flow[m]) /\ At(m, "confirm")
  BY DEF IInv, TypeOK, FlowsOK, Confirm, LoseConfirmation
<1>2. UNCHANGED <<chain, cache, sent>> /\ faults' \in 0..MaxFaults
  BY FailsTyped DEF Confirm, LoseConfirmation, IInv, TypeOK
<1>3. CASE NextAttempt(m)
  BY <1>1, <1>2, <1>3, NextAttemptKeeps
<1>4. CASE Deployed(m) /\ GoesTo(m, IF flow[m].signed THEN "tell" ELSE "done")
  <2>1. m \in pools /\ m \in registries
    BY <1>1, <1>4 DEF Deployed, IInv, TypeOK
  <2> QED
    BY <1>2, <1>4, <2>1, OnlyGoes DEF PCs
<1> QED
  BY <1>3, <1>4 DEF Confirm, LoseConfirmation

LEMMA TellKeeps == ASSUME IInv, NEW m \in Mints, TellServer(m) PROVE IInv'
<1>1. flow[m] \in FlowType /\ FlowOK(m, flow[m]) /\ flow[m].pc = "tell"
  BY DEF IInv, TypeOK, FlowsOK, TellServer, At
<1>2. m \in pools /\ m \in registries /\ Source[m] \in Sources
  BY <1>1 DEF FlowOK
<1>3. UNCHANGED <<chain, sent>> /\ faults' \in 0..MaxFaults
  BY FailsTyped DEF TellServer, IInv, TypeOK
<1>4. CASE UNCHANGED cache
  BY <1>2, <1>3, <1>4, OnlyGoes DEF TellServer, PCs
<1>5. CASE ConfirmLock(Source[m], m)
  <2>1. \E to \in FlowType : /\ Goes(m, to) /\ to.pc = "done"
                             /\ to.signed = flow[m].signed /\ to.source = flow[m].source
    BY <1>1 DEF TellServer, GoesTo, PCs
  <2>2. PICK to \in FlowType : /\ Goes(m, to) /\ to.pc = "done"
                               /\ to.signed = flow[m].signed /\ to.source = flow[m].source
    BY <2>1
  <2>3. FlowOK(m, to)'
    BY <1>1, <1>2, <1>3, <2>2 DEF FlowOK, chain
  <2>4. flow' \in [Mints -> FlowType] /\ FlowsOK' /\ SentOK'
    BY <1>3, <2>2, <2>3, MoveKeeps DEF chain
  <2>5. cache' \in [Sources -> Mints \cup {None}]
    BY <1>2, <1>5 DEF ConfirmLock, IInv, TypeOK
  <2> QED
    BY <1>3, <2>4, <2>5 DEF IInv, TypeOK, LocksComeWithThePool, Held, chain
<1> QED
  BY <1>4, <1>5 DEF TellServer

LEMMA TellOfKeeps ==
  ASSUME IInv, NEW s \in Sources, NEW m \in Named, TellOf(s, m)
  PROVE  IInv'
<1>1. cache' \in [Sources -> Mints \cup {None}] /\ UNCHANGED <<chain, flow, sent, faults>>
  BY DEF TellOf, ConfirmLock, IInv, TypeOK
<1> QED
  BY <1>1 DEF IInv, TypeOK, FlowsOK, FlowOK, SentOK, LocksComeWithThePool, Held, chain

-----------------------------------------------------------------------------
(***************************************************************************)
(* The second transaction.                                                 *)
(***************************************************************************)
LEMMA ResultTyped ==
  ASSUME IInv, NEW tx \in sent, NEW r \in {"none", "ok", "err"}, Result(tx, r)
  PROVE  /\ flow' \in [Mints -> FlowType]
         /\ \A n \in Mints : /\ flow'[n].pc = flow[n].pc
                             /\ flow'[n].signed = flow[n].signed
                             /\ flow'[n].claims = flow[n].claims
                             /\ flow'[n].source = flow[n].source
                             /\ flow'[n].attempt = flow[n].attempt
                             /\ flow'[n].gave = flow[n].gave
<1>1. flow \in [Mints -> FlowType] /\ tx.mint \in Mints
  BY DEF IInv, TypeOK, Transactions
<1> DEFINE res == IF At(tx.mint, "confirm") /\ flow[tx.mint].attempt = tx.attempt
                  THEN r ELSE flow[tx.mint].result
<1>2. res \in {"none", "ok", "err"}
  BY <1>1
<1>3. flow' = [flow EXCEPT ![tx.mint] = [flow[tx.mint] EXCEPT !.result = res]]
  BY DEF Result
<1> HIDE DEF res
<1> QED
  BY <1>1, <1>2, <1>3

\* The browsers learn of a result; registries and pools only grow.
LEMMA ResultKeeps ==
  ASSUME IInv, NEW tx \in sent, NEW r \in {"none", "ok", "err"}, Result(tx, r),
         sent' = sent \ {tx}, registries' = registries, pools \subseteq pools'
  PROVE  flow' \in [Mints -> FlowType] /\ FlowsOK' /\ SentOK' /\ sent' \subseteq Transactions
<1>1. ASSUME NEW n \in Mints PROVE FlowOK(n, flow[n])'
  BY ResultTyped DEF IInv, FlowsOK, FlowOK
<1>2. SentOK'
  BY ResultTyped DEF IInv, SentOK, TypeOK, Transactions
<1> QED
  BY <1>1, <1>2, ResultTyped DEF FlowsOK, IInv, TypeOK

\* claim_locks takes the three locks of a mint, and those of no other mint.
LEMMA ClaimTakes ==
  ASSUME IInv, NEW m \in Mints, CanClaim(m), ClaimLocks(m)
  PROVE  /\ locks' \in [Kinds -> [Hashes -> Mints \cup {None}]]
         /\ Held(m)' = Kinds
         /\ \A n \in Mints \ {m} : Held(n)' = Held(n)
<1>1. \A k \in Kinds, h \in Hashes :
        locks'[k][h] = IF h = Hash[m][k] THEN m ELSE locks[k][h]
  BY HashTyped DEF ClaimLocks, IInv, TypeOK
<1>2. locks' \in [Kinds -> [Hashes -> Mints \cup {None}]]
  BY HashTyped DEF ClaimLocks, IInv, TypeOK
<1>3. \A k \in Kinds : locks'[k][Hash[m][k]] = m
  BY <1>1, HashTyped
<1>4. ASSUME NEW n \in Mints \ {m}, NEW k \in Kinds
      PROVE  locks'[k][Hash[n][k]] = n <=> locks[k][Hash[n][k]] = n
  <2>1. CASE Hash[n][k] = Hash[m][k]
    BY <1>1, <1>4, <2>1, HashTyped DEF CanClaim
  <2>2. CASE Hash[n][k] # Hash[m][k]
    BY <1>1, <1>4, <2>2, HashTyped
  <2> QED
    BY <2>1, <2>2
<1> QED
  BY <1>2, <1>3, <1>4 DEF Held

LEMMA LandKeeps == ASSUME IInv, NEW tx \in sent, Land(tx) PROVE IInv'
<1> DEFINE m == tx.mint
<1>1. m \in Mints /\ m \in registries /\ sent' = sent \ {tx}
      /\ UNCHANGED <<registries, cache, faults>>
  BY DEF IInv, TypeOK, Transactions, SentOK, Land
<1>2. CASE ~Valid(tx) /\ Result(tx, "err") /\ UNCHANGED <<pools, locks>>
  <2>1. flow' \in [Mints -> FlowType] /\ FlowsOK' /\ SentOK' /\ sent' \subseteq Transactions
    BY <1>1, <1>2, ResultKeeps
  <2> QED
    BY <1>1, <1>2, <2>1 DEF IInv, TypeOK, LocksComeWithThePool, Held
<1>3. CASE /\ Valid(tx)
           /\ pools' = pools \cup {m}
           /\ IF tx.claims THEN ClaimLocks(m) ELSE UNCHANGED locks
           /\ Result(tx, "ok")
  <2>1. flow' \in [Mints -> FlowType] /\ FlowsOK' /\ SentOK' /\ sent' \subseteq Transactions
    BY <1>1, <1>3, ResultKeeps
  <2>2. pools' \subseteq registries'
    BY <1>1, <1>3 DEF IInv, TypeOK
  <2>3. /\ locks' \in [Kinds -> [Hashes -> Mints \cup {None}]]
        /\ LocksComeWithThePool'
    <3>1. CASE tx.claims
      <4>1. CanClaim(m) /\ ClaimLocks(m)
        BY <1>3, <3>1 DEF Valid
      <4> QED
        BY <1>1, <1>3, <4>1, ClaimTakes DEF IInv, LocksComeWithThePool
    <3>2. CASE ~tx.claims
      BY <1>3, <3>2 DEF IInv, TypeOK, LocksComeWithThePool, Held
    <3> QED
      BY <3>1, <3>2
  <2> QED
    BY <1>1, <2>1, <2>2, <2>3 DEF IInv, TypeOK
<1> QED
  BY <1>2, <1>3 DEF Land

LEMMA ExpireKeeps == ASSUME IInv, NEW tx \in sent, Expire(tx) PROVE IInv'
<1>1. flow' \in [Mints -> FlowType] /\ FlowsOK' /\ SentOK' /\ sent' \subseteq Transactions
  BY ResultKeeps DEF Expire, chain
<1>2. faults' \in 0..MaxFaults
  BY FailsTyped DEF Expire, IInv, TypeOK
<1> QED
  BY <1>1, <1>2 DEF Expire, IInv, TypeOK, LocksComeWithThePool, Held, chain

LEMMA NextKeeps == ASSUME IInv, [Next]_vars PROVE IInv'
<1>1. CASE UNCHANGED vars
  BY <1>1 DEF IInv, TypeOK, FlowsOK, FlowOK, SentOK, LocksComeWithThePool,
     Held, vars, chain
<1>2. ASSUME NEW m \in Mints, Step(m) PROVE IInv'
  BY <1>2, FormKeeps, AskImageKeeps, Tx1Keeps, BuildKeeps, SendKeeps, ConfirmKeeps,
     TellKeeps DEF Step
<1> QED
  BY <1>1, <1>2, LandKeeps, ExpireKeeps, TellOfKeeps DEF Next

LEMMA Invariance == Spec => []IInv
BY InitIInv, NextKeeps, PTL DEF Spec

\* Registries, locks, pools, the table and the browsers always have their types,
\* and every pool has a registry.
THEOREM TypeCorrect == Spec => []TypeOK
<1>1. IInv => TypeOK
  BY DEF IInv
<1> QED
  BY <1>1, Invariance, PTL

\* The three locks of a mint come together, and only with its pool (App.jsx:2331),
\* for any deploys, retries and lost calls.
THEOREM LocksWithPool == Spec => []LocksComeWithThePool
<1>1. IInv => LocksComeWithThePool
  BY DEF IInv
<1> QED
  BY <1>1, Invariance, PTL

-----------------------------------------------------------------------------
(***************************************************************************)
(* Why locks are dropped.                                                  *)
(***************************************************************************)
\* One of the locks m would claim is there, its own or another's.
Reason(m) == \E k \in Kinds : locks[k][Hash[m][k]] # None

Excused(m, n) == Reason(m) \/ faults >= n

DropFlow(m, f) ==
  /\ f.pc \in {"form", "ask", "similar", "tx1", "build"} => ~f.gave
  /\ ~f.signed /\ ~f.gave =>
       /\ m \in pools => Reason(m)
       /\ f.pc \in {"send", "confirm"} =>
            /\ ~f.claims => Reason(m)
            /\ Excused(m, f.attempt - 1)
            /\ f.result = "err" /\ f.pc = "confirm" => Excused(m, f.attempt)

DropTx(tx) ==
  ~flow[tx.mint].signed /\ ~flow[tx.mint].gave /\ ~tx.claims => Reason(tx.mint)

DropOK ==
  faults <= 1 =>
    /\ \A m \in Mints : DropFlow(m, flow[m])
    /\ \A tx \in sent : DropTx(tx)

LEMMA InitDrop == Init => DropOK
<1> SUFFICES ASSUME Init, NEW m \in Mints PROVE DropFlow(m, flow[m])
  BY DEF DropOK, Init
<1>1. flow[m].pc = "form" /\ ~flow[m].gave /\ m \notin pools
  BY DEF Init, NewFlow
<1> QED
  BY <1>1 DEF DropFlow

\* Locks are never given back.
LEMMA ReasonStays ==
  ASSUME IInv, [Next]_vars, NEW m \in Mints, Reason(m)
  PROVE  Reason(m)'
<1>1. CASE locks' = locks
  BY <1>1 DEF Reason
<1>2. CASE \E tx \in sent : ClaimLocks(tx.mint)
  <2>1. PICK tx \in sent : ClaimLocks(tx.mint)
    BY <1>2
  <2>2. tx.mint \in Mints
    BY DEF IInv, TypeOK, Transactions
  <2>3. \A k \in Kinds, h \in Hashes :
          locks'[k][h] = IF h = Hash[tx.mint][k] THEN tx.mint ELSE locks[k][h]
    BY <2>1, <2>2, HashTyped DEF ClaimLocks, IInv, TypeOK
  <2> QED
    BY <2>2, <2>3, HashTyped DEF Reason
<1> QED
  BY <1>1, <1>2 DEF Next, Step, Check, AskSource, AskImage, Unsigned, Tx1, Build, Send,
     Confirm, LoseConfirmation, TellServer, TellOf, Land, Expire, vars, chain

LEMMA FaultsGrow == ASSUME IInv, [Next]_vars PROVE faults <= faults' /\ faults \in Nat /\ faults' \in Nat
<1>1. faults' = faults \/ Fails
  BY DEF Next, Step, Check, AskSource, AskImage, Unsigned, Free, Tx1, Build, Send,
     Confirm, LoseConfirmation, TellServer, TellOf, Land, Expire, vars
<1> QED
  BY <1>1 DEF Fails, IInv, TypeOK

\* A transaction without a reason to fail works.
LEMMA InvalidHasReason ==
  ASSUME IInv, DropOK, faults <= 1, NEW tx \in sent, ~Valid(tx),
         ~flow[tx.mint].signed, ~flow[tx.mint].gave
  PROVE  Reason(tx.mint)
<1> DEFINE m == tx.mint
<1>1. m \in Mints /\ m \in registries /\ ~tx.source
  BY DEF IInv, TypeOK, Transactions, SentOK
<1>2. CASE m \in pools
  BY <1>1, <1>2 DEF DropOK, DropFlow
<1>3. CASE tx.claims /\ ~CanClaim(m)
  BY <1>1, <1>3 DEF CanClaim, Reason
<1> QED
  BY <1>1, <1>2, <1>3 DEF Valid

\* One deploy moves, and what it knows of its locks stays explained.
LEMMA MoveDrops ==
  ASSUME IInv, DropOK, [Next]_vars, faults' <= 1, NEW m \in Mints,
         \A n \in Mints \ {m} : flow'[n] = flow[n],
         pools' = pools, DropFlow(m, flow[m])',
         flow[m].signed => flow'[m].signed, flow[m].gave => flow'[m].gave,
         \A tx \in sent' \ sent : tx.mint = m /\ DropTx(tx)'
  PROVE  DropOK'
<1>1. faults <= 1 /\ faults <= faults' /\ faults \in Nat /\ faults' \in Nat
  BY FaultsGrow
<1>2. ASSUME NEW n \in Mints \ {m} PROVE DropFlow(n, flow[n])'
  <2>1. DropFlow(n, flow[n]) /\ flow'[n] = flow[n] /\ (Reason(n) => Reason(n)')
    BY <1>1, ReasonStays DEF DropOK
  <2>2. flow[n].attempt \in Nat
    BY DEF IInv, TypeOK
  <2>3. \A k \in Int : Excused(n, k) => Excused(n, k)'
    BY <1>1, <2>1 DEF Excused
  <2> QED
    BY <2>1, <2>2, <2>3 DEF DropFlow
<1>3. ASSUME NEW tx \in sent' PROVE DropTx(tx)'
  <2>1. CASE tx \in sent
    <3>1. tx.mint \in Mints /\ DropTx(tx) /\ (Reason(tx.mint) => Reason(tx.mint)')
      BY <1>1, <2>1, ReasonStays DEF DropOK, IInv, TypeOK, Transactions
    <3>2. /\ flow[tx.mint].signed => flow'[tx.mint].signed
          /\ flow[tx.mint].gave => flow'[tx.mint].gave
      BY <3>1
    <3> QED
      BY <3>1, <3>2 DEF DropTx
  <2> QED
    BY <2>1
<1> QED
  BY <1>2, <1>3 DEF DropOK

\* A deploy goes somewhere where nothing is in flight.
LEMMA GoesDrops ==
  ASSUME IInv, DropOK, [Next]_vars, faults' <= 1, NEW m \in Mints,
         NEW pc \in PCs \ {"send", "confirm"}, GoesTo(m, pc),
         UNCHANGED <<pools, sent>>,
         pc \in {"form", "ask", "similar", "tx1", "build"}
           => flow[m].pc \in {"form", "ask", "similar", "tx1", "build"}
  PROVE  DropOK'
<1>1. flow[m] \in FlowType /\ DropFlow(m, flow[m]) /\ (Reason(m) => Reason(m)')
  BY FaultsGrow, ReasonStays DEF DropOK, IInv, TypeOK
<1>2. flow'[m] = [flow[m] EXCEPT !.pc = pc] /\ \A n \in Mints \ {m} : flow'[n] = flow[n]
  BY Lands DEF GoesTo, IInv
<1>3. /\ flow'[m].pc = pc /\ flow'[m].signed = flow[m].signed
      /\ flow'[m].gave = flow[m].gave
  BY <1>1, <1>2
<1>4. DropFlow(m, flow[m])'
  BY <1>1, <1>3 DEF DropFlow
<1> QED
  BY <1>2, <1>3, <1>4, MoveDrops

LEMMA FormDrops ==
  ASSUME IInv, DropOK, [Next]_vars, faults' <= 1, NEW m \in Mints,
         Check(m) \/ AskSource(m) \/ Unsigned(m) \/ Tx1(m) \/ TellServer(m)
  PROVE  DropOK'
<1>1. UNCHANGED <<pools, sent>>
  BY DEF Check, AskSource, Unsigned, Tx1, TellServer, chain
<1>2. PICK pc \in {"ask", "similar", "tx1", "build", "failed", "done"} : GoesTo(m, pc)
  BY DEF Check, AskSource, Unsigned, Tx1, TellServer
<1>3. CASE TellServer(m)
  BY <1>1, <1>3, GoesDrops DEF TellServer, PCs
<1>4. CASE ~TellServer(m)
  <2>1. flow[m].pc \in {"form", "ask", "similar", "tx1", "build"}
    BY <1>4 DEF Check, AskSource, Unsigned, Tx1, At
  <2> QED
    BY <1>1, <1>2, <2>1, GoesDrops DEF PCs
<1> QED
  BY <1>3, <1>4

LEMMA AskImageDrops ==
  ASSUME IInv, DropOK, [Next]_vars, faults' <= 1, NEW m \in Mints, AskImage(m)
  PROVE  DropOK'
<1>1. flow[m] \in FlowType /\ DropFlow(m, flow[m]) /\ flow[m].pc = "similar"
  BY FaultsGrow DEF DropOK, IInv, TypeOK, AskImage, At
<1>2. /\ flow'[m] = [flow[m] EXCEPT !.pc = "tx1", !.signed = TRUE]
      /\ \A n \in Mints \ {m} : flow'[n] = flow[n]
  BY Lands DEF AskImage, IInv
<1>3. flow'[m].pc = "tx1" /\ flow'[m].signed /\ flow'[m].gave = flow[m].gave
  BY <1>1, <1>2
<1>4. DropFlow(m, flow[m])'
  BY <1>1, <1>3 DEF DropFlow
<1> QED
  BY <1>2, <1>3, <1>4, MoveDrops DEF AskImage, chain

LEMMA BuildDrops ==
  ASSUME IInv, DropOK, [Next]_vars, faults' <= 1, NEW m \in Mints, Build(m)
  PROVE  DropOK'
<1>1. flow[m] \in FlowType /\ DropFlow(m, flow[m]) /\ flow[m].pc = "build"
      /\ (Reason(m) => Reason(m)') /\ faults' \in Nat
  BY FaultsGrow, ReasonStays DEF DropOK, IInv, TypeOK, Build, At
<1>2. PICK claims \in BOOLEAN, source \in {flow[m].signed, FALSE} :
        Goes(m, [flow[m] EXCEPT !.pc = "send", !.claims = claims,
                   !.source = source, !.attempt = 1, !.gave = ~claims])
  BY DEF Build
<1>3. /\ flow'[m] = [flow[m] EXCEPT !.pc = "send", !.claims = claims,
                       !.source = source, !.attempt = 1, !.gave = ~claims]
      /\ \A n \in Mints \ {m} : flow'[n] = flow[n]
  BY <1>2, Lands DEF IInv
<1>4. /\ flow'[m].pc = "send" /\ flow'[m].signed = flow[m].signed
      /\ flow'[m].gave = ~claims /\ flow'[m].claims = claims /\ flow'[m].attempt = 1
  BY <1>1, <1>3
<1>5. ~flow[m].gave
  BY <1>1 DEF DropFlow
<1>6. DropFlow(m, flow[m])'
  <2>1. ~flow'[m].gave => flow'[m].claims
    BY <1>4
  <2>2. Excused(m, flow[m].attempt - 1)'
    BY <1>1, <1>4 DEF Excused
  <2>3. ~flow[m].signed /\ m \in pools => Reason(m)
    BY <1>1, <1>5 DEF DropFlow
  <2>4. flow'[m].pc = "send" /\ flow'[m].signed = flow[m].signed /\ pools' = pools
    BY <1>4 DEF Build, chain
  <2> QED
    BY <1>1, <2>1, <2>2, <2>3, <2>4 DEF DropFlow
<1> QED
  BY <1>3, <1>4, <1>5, <1>6, MoveDrops DEF Build, chain

LEMMA SendDrops ==
  ASSUME IInv, DropOK, [Next]_vars, faults' <= 1, NEW m \in Mints, Send(m)
  PROVE  DropOK'
<1>1. flow[m] \in FlowType /\ DropFlow(m, flow[m]) /\ flow[m].pc = "send"
  BY FaultsGrow DEF DropOK, IInv, TypeOK, Send, At
<1>2. /\ flow'[m] = [flow[m] EXCEPT !.pc = "confirm", !.result = "none"]
      /\ \A n \in Mints \ {m} : flow'[n] = flow[n]
  BY Lands DEF Send, IInv
<1>3. /\ flow'[m].pc = "confirm" /\ flow'[m].result = "none"
      /\ flow'[m].signed = flow[m].signed /\ flow'[m].gave = flow[m].gave
      /\ flow'[m].claims = flow[m].claims /\ flow'[m].attempt = flow[m].attempt
  BY <1>1, <1>2
<1>4. UNCHANGED <<chain, faults>>
  BY DEF Send
<1>5. DropFlow(m, flow[m])'
  BY <1>1, <1>3, <1>4 DEF DropFlow, Reason, Excused, chain
<1>6. ASSUME NEW tx \in sent' \ sent PROVE tx.mint = m /\ DropTx(tx)'
  <2>1. tx.mint = m /\ tx.claims = flow[m].claims
    BY DEF Send
  <2> QED
    BY <1>1, <1>3, <1>4, <2>1 DEF DropTx, DropFlow, Reason, chain
<1> QED
  BY <1>2, <1>3, <1>4, <1>5, <1>6, MoveDrops DEF chain

\* The second failed attempt drops the locks: both had a reason to fail, or
\* cost a call each.
LEMMA NextAttemptDrops ==
  ASSUME IInv, DropOK, [Next]_vars, faults' <= 1, NEW m \in Mints,
         At(m, "confirm"), NextAttempt(m), UNCHANGED <<chain, sent>>,
         ~flow[m].signed /\ ~flow[m].gave => Reason(m)' \/ faults' >= flow[m].attempt
  PROVE  DropOK'
<1> DEFINE f == flow[m]
           drop == f.attempt = DropAfter /\ (f.claims \/ f.source)
<1>1. f \in FlowType /\ FlowOK(m, f) /\ f.pc = "confirm" /\ DropFlow(m, f)
      /\ (Reason(m) => Reason(m)') /\ faults' \in Nat
  BY FaultsGrow, ReasonStays DEF DropOK, IInv, TypeOK, FlowsOK, At
<1>2. CASE f.attempt = 3
  <2>1. GoesTo(m, "failed")
    BY <1>2 DEF NextAttempt, GoesTo
  <2> QED
    BY <2>1, GoesDrops DEF PCs, chain
<1>3. CASE f.attempt # 3
  <2>1. f.attempt \in 1..2
    BY <1>1, <1>3 DEF FlowOK
  <2>2. /\ flow'[m] = [f EXCEPT !.pc = "send", !.attempt = @ + 1,
                          !.claims = @ /\ ~drop, !.source = @ /\ ~drop]
        /\ \A n \in Mints \ {m} : flow'[n] = flow[n]
    BY <1>3, Lands DEF NextAttempt, IInv
  <2>3. /\ flow'[m].pc = "send" /\ flow'[m].signed = f.signed
        /\ flow'[m].gave = f.gave /\ flow'[m].attempt = f.attempt + 1
        /\ flow'[m].claims = (f.claims /\ ~drop)
    BY <1>1, <2>2
  <2>4. ASSUME ~f.signed, ~f.gave PROVE
             /\ m \in pools' => Reason(m)'
             /\ ~flow'[m].claims => Reason(m)'
             /\ Excused(m, flow[m].attempt - 1)'
    <3>1. Reason(m)' \/ faults' >= f.attempt
      BY <2>4
    <3>2. Excused(m, flow[m].attempt - 1)'
      BY <2>1, <2>3, <3>1 DEF Excused
    <3>3. CASE drop
      <4>1. Reason(m)'
        BY <1>1, <3>1, <3>3 DEF DropAfter
      <4> QED
        BY <3>2, <4>1
    <3>4. CASE ~drop
      <4>1. ~flow'[m].claims => Reason(m)
        BY <1>1, <2>3, <2>4, <3>4 DEF DropFlow
      <4>2. m \in pools' => Reason(m)
        BY <1>1, <2>4 DEF DropFlow, chain
      <4> QED
        BY <1>1, <3>2, <4>1, <4>2
    <3> QED
      BY <3>3, <3>4
  <2>5. DropFlow(m, flow[m])'
    BY <2>3, <2>4 DEF DropFlow
  <2> QED
    BY <2>2, <2>3, <2>5, MoveDrops DEF chain
<1> QED
  BY <1>2, <1>3

LEMMA ConfirmDrops ==
  ASSUME IInv, DropOK, [Next]_vars, faults' <= 1, NEW m \in Mints,
         Confirm(m) \/ LoseConfirmation(m)
  PROVE  DropOK'
<1> DEFINE f == flow[m]
<1>1. f \in FlowType /\ f.pc = "confirm" /\ DropFlow(m, f) /\ At(m, "confirm")
      /\ (Reason(m) => Reason(m)') /\ faults \in Nat /\ faults' \in Nat /\ faults <= faults'
  BY FaultsGrow, ReasonStays DEF DropOK, IInv, TypeOK, Confirm, LoseConfirmation, At
<1>2. UNCHANGED <<chain, sent>>
  BY DEF Confirm, LoseConfirmation
<1>3. CASE Deployed(m) /\ GoesTo(m, IF f.signed THEN "tell" ELSE "done")
  BY <1>2, <1>3, GoesDrops DEF PCs, chain
<1>4. CASE f.result = "err" /\ NextAttempt(m)
  <2>1. ~f.signed /\ ~f.gave => Reason(m)' \/ faults' >= f.attempt
    BY <1>1, <1>4 DEF DropFlow, Excused
  <2> QED
    BY <1>1, <1>2, <1>4, <2>1, NextAttemptDrops
<1>5. CASE NextAttempt(m) /\ Fails
  <2>1. ~f.signed /\ ~f.gave => Reason(m)' \/ faults' >= f.attempt
    <3>1. faults' = faults + 1
      BY <1>5 DEF Fails
    <3>2. ~f.signed /\ ~f.gave => Reason(m) \/ faults >= f.attempt - 1
      BY <1>1 DEF DropFlow, Excused
    <3> QED
      BY <1>1, <3>1, <3>2
  <2> QED
    BY <1>1, <1>2, <1>5, <2>1, NextAttemptDrops
<1> QED
  BY <1>3, <1>4, <1>5 DEF Confirm, LoseConfirmation

LEMMA StepDrops ==
  ASSUME IInv, DropOK, [Next]_vars, faults' <= 1, NEW m \in Mints, Step(m)
  PROVE  DropOK'
BY FormDrops, AskImageDrops, BuildDrops, SendDrops, ConfirmDrops DEF Step

\* A transaction ends: its deploy, if it still waits for it, learns of an error
\* only if there was a reason or a call is lost.
LEMMA ResultDrops ==
  ASSUME IInv, DropOK, [Next]_vars, faults' <= 1, NEW tx \in sent,
         NEW r \in {"ok", "err"}, Result(tx, r), sent' = sent \ {tx},
         pools' \subseteq pools \cup {tx.mint},
         ~flow[tx.mint].signed /\ ~flow[tx.mint].gave =>
           /\ tx.mint \in pools' => Reason(tx.mint)'
           /\ r = "err" => Reason(tx.mint)' \/ faults' > faults
  PROVE  DropOK'
<1>1. faults <= 1 /\ faults <= faults' /\ faults \in Nat /\ faults' \in Nat
  BY FaultsGrow
<1>2. ASSUME NEW n \in Mints PROVE DropFlow(n, flow[n])'
  <2>1. DropFlow(n, flow[n]) /\ (Reason(n) => Reason(n)') /\ flow[n] \in FlowType
        /\ flow'[n] \in FlowType
    BY <1>1, ReasonStays, ResultTyped DEF DropOK, IInv, TypeOK
  <2>2. /\ flow'[n].pc = flow[n].pc /\ flow'[n].signed = flow[n].signed
        /\ flow'[n].claims = flow[n].claims /\ flow'[n].attempt = flow[n].attempt
        /\ flow'[n].gave = flow[n].gave
    BY ResultTyped
  <2>3. flow'[n].result = flow[n].result \/ (n = tx.mint /\ flow'[n].result = r)
    BY <2>1 DEF Result, IInv, TypeOK
  <2>4. ASSUME ~flow[n].signed, ~flow[n].gave, flow[n].pc \in {"send", "confirm"}
        PROVE  /\ ~flow'[n].claims => Reason(n)'
               /\ Excused(n, flow[n].attempt - 1)'
               /\ flow'[n].result = "err" /\ flow'[n].pc = "confirm"
                    => Excused(n, flow[n].attempt)'
    <3>1. Reason(n)' \/ faults' >= flow[n].attempt - 1
      BY <1>1, <2>1, <2>4 DEF DropFlow, Excused
    <3>2. CASE flow'[n].result = flow[n].result
      BY <1>1, <2>1, <2>2, <2>4, <3>1, <3>2 DEF DropFlow, Excused
    <3>3. CASE n = tx.mint /\ flow'[n].result = r
      <4>1. r = "err" => Reason(n)' \/ faults' >= flow[n].attempt
        <5>1. Reason(n)' \/ faults >= flow[n].attempt - 1
          BY <2>1, <2>4 DEF DropFlow, Excused
        <5> QED
          BY <1>1, <2>1, <2>4, <3>3, <5>1
      <4> QED
        BY <2>1, <2>2, <2>4, <3>1, <3>3, <4>1 DEF DropFlow, Excused
    <3> QED
      BY <2>3, <3>2, <3>3
  <2>5. ASSUME ~flow[n].signed, ~flow[n].gave, n \in pools' PROVE Reason(n)'
    BY <2>1, <2>5 DEF DropFlow
  <2> QED
    BY <2>1, <2>2, <2>4, <2>5 DEF DropFlow
<1>3. ASSUME NEW t \in sent' PROVE DropTx(t)'
  <2>1. t \in sent /\ t.mint \in Mints
    BY DEF IInv, TypeOK, Transactions
  <2>2. DropTx(t) /\ (Reason(t.mint) => Reason(t.mint)')
    BY <1>1, <2>1, ReasonStays DEF DropOK
  <2> QED
    BY <2>1, <2>2, ResultTyped DEF DropTx
<1> QED
  BY <1>2, <1>3 DEF DropOK

LEMMA LandDrops ==
  ASSUME IInv, DropOK, [Next]_vars, faults' <= 1, NEW tx \in sent, Land(tx)
  PROVE  DropOK'
<1> DEFINE m == tx.mint
<1>1. m \in Mints /\ faults <= 1 /\ (Reason(m) => Reason(m)') /\ DropTx(tx)
      /\ DropFlow(m, flow[m])
  BY FaultsGrow, ReasonStays DEF IInv, TypeOK, Transactions, DropOK
<1>2. CASE ~Valid(tx) /\ Result(tx, "err") /\ UNCHANGED <<pools, locks>>
  <2>1. ~flow[m].signed /\ ~flow[m].gave => Reason(m)'
    BY <1>1, <1>2, InvalidHasReason
  <2> QED
    BY <1>2, <2>1, ResultDrops DEF Land
<1>3. CASE /\ Valid(tx)
           /\ pools' = pools \cup {m}
           /\ IF tx.claims THEN ClaimLocks(m) ELSE UNCHANGED locks
           /\ Result(tx, "ok")
  <2>1. ~flow[m].signed /\ ~flow[m].gave => Reason(m)'
    <3>1. CASE tx.claims
      <4>1. Held(m)' = Kinds
        BY <1>1, <1>3, <3>1, ClaimTakes DEF Valid
      <4>2. "ticker" \in Kinds
        BY DEF Kinds
      <4> QED
        BY <1>1, <4>1, <4>2 DEF Held, Reason
    <3>2. CASE ~tx.claims
      BY <1>1, <3>2 DEF DropTx
    <3> QED
      BY <3>1, <3>2
  <2> QED
    BY <1>3, <2>1, ResultDrops DEF Land
<1> QED
  BY <1>2, <1>3 DEF Land

LEMMA ExpireDrops ==
  ASSUME IInv, DropOK, [Next]_vars, faults' <= 1, NEW tx \in sent, Expire(tx)
  PROVE  DropOK'
<1> DEFINE m == tx.mint
<1>1. m \in Mints /\ faults <= 1 /\ (Reason(m) => Reason(m)') /\ faults \in Nat
      /\ DropFlow(m, flow[m])
  BY FaultsGrow, ReasonStays DEF IInv, TypeOK, Transactions, DropOK
<1>2. faults' > faults /\ pools' = pools
  BY <1>1 DEF Expire, Fails, chain
<1>3. ~flow[m].signed /\ ~flow[m].gave /\ m \in pools' => Reason(m)'
  BY <1>1, <1>2 DEF DropFlow
<1> QED
  BY <1>2, <1>3, ResultDrops DEF Expire

LEMMA NextDrops == ASSUME IInv, DropOK, [Next]_vars PROVE DropOK'
<1> SUFFICES ASSUME faults' <= 1 PROVE DropOK'
  BY DEF DropOK
<1>1. CASE UNCHANGED vars
  BY <1>1 DEF DropOK, DropFlow, DropTx, Reason, Excused, vars, chain
<1>2. ASSUME NEW s \in Sources, NEW m \in Named, TellOf(s, m) PROVE DropOK'
  BY <1>2 DEF TellOf, DropOK, DropFlow, DropTx, Reason, Excused, chain
<1> QED
  BY <1>1, <1>2, StepDrops, LandDrops, ExpireDrops DEF Next

\* While at most one call was lost, a deploy that ended well without its locks had
\* a reason (App.jsx:2340), for any deploys, sources and hashes.
THEOREM LocksDropped == Spec => []LocksDroppedForAReason
<1>1. IInv /\ DropOK => LocksDroppedForAReason
  <2> SUFFICES ASSUME IInv, DropOK, faults <= 1, NEW m \in Mints, At(m, "done"),
                      Held(m) = {}, ~flow[m].signed, ~flow[m].gave
               PROVE  \E k \in Kinds : locks[k][Hash[m][k]] \notin {m, None}
    BY DEF LocksDroppedForAReason
  <2>1. m \in pools
    BY DEF At, IInv, FlowsOK, FlowOK
  <2>2. Reason(m)
    BY <2>1 DEF DropOK, DropFlow
  <2> QED
    BY <2>2 DEF Reason, Held
<1>2. Spec => []DropOK
  BY InitDrop, NextDrops, Invariance, PTL DEF Spec
<1> QED
  BY <1>1, <1>2, Invariance, PTL

-----------------------------------------------------------------------------
(***************************************************************************)
(* The rate limiter.                                                       *)
(***************************************************************************)
Hits(n) == IF n > MaxHits THEN MaxHits ELSE n

\* Nothing is let through before its time.
NothingAhead ==
  \A ip \in Ips, t \in Times : t > now => admitted[ip][t] = 0

After(t) == {u \in LastWindow : u > t}

\* While an entry's window lasts, what was let through after it began is what
\* the entry counted after its first request, and what was let through before
\* is less than one entry's worth for each restart and one; then what is left
\* of it in the last window is less than that again, because the request that
\* began it has left.
WindowInv(ip) ==
  LET entry == limiter[ip]
      a == admitted[ip]
  IN  IF WindowOver(entry)
      THEN SumFunctionOnSet(a, LastWindow) <= (1 + restarts) * MaxHits - 1
      ELSE /\ SumFunctionOnSet(a, After(entry.start)) <= Hits(entry.count) - 1
           /\ SumFunctionOnSet(a, LastWindow)
                <= (1 + restarts) * MaxHits - 1 + Hits(entry.count)

LimiterInv == LimiterTypeOK /\ NothingAhead /\ \A ip \in Ips : WindowInv(ip)

-----------------------------------------------------------------------------
LEMMA IntervalIsFinite ==
  ASSUME NEW n \in Nat, NEW T \in SUBSET (0 .. n)
  PROVE  IsFiniteSet(T)
<1>1. IsFiniteSet(0 .. n)
  BY FS_Interval
<1> QED
  BY <1>1, FS_Subset

LEMMA Allowance ==
  ASSUME NEW r \in Nat
  PROVE  /\ (1 + r) * MaxHits \in Nat /\ (1 + r) * MaxHits >= MaxHits
         /\ (1 + (r + 1)) * MaxHits = (1 + r) * MaxHits + MaxHits
         /\ (2 + r) * MaxHits = (1 + r) * MaxHits + MaxHits
<1>1. /\ (1 + r) * MaxHits = MaxHits + r * MaxHits
      /\ (1 + (r + 1)) * MaxHits = MaxHits + MaxHits + r * MaxHits
      /\ (2 + r) * MaxHits = MaxHits + MaxHits + r * MaxHits
  BY LimiterAssumption
<1>2. r * MaxHits \in Nat
  BY LimiterAssumption
<1> QED
  BY <1>1, <1>2, LimiterAssumption

\* One more at a time, and what that makes of a sum.
LEMMA OneMore ==
  ASSUME NEW D, NEW f \in [D -> Nat], NEW x \in D, NEW g,
         g = [f EXCEPT ![x] = @ + 1], NEW S \in SUBSET D, IsFiniteSet(S)
  PROVE  SumFunctionOnSet(g, S)
           = SumFunctionOnSet(f, S) + (IF x \in S THEN 1 ELSE 0)
<1>1. \A y \in S : f[y] \in Int /\ g[y] \in Int
  OBVIOUS
<1>2. CASE x \in S
  <2>1. PICK R : R = S \ {x}
    OBVIOUS
  <2>2. IsFiniteSet(R) /\ R \subseteq S
    BY <2>1, FS_Subset
  <2>3. SumFunctionOnSet(f, S) = f[x] + SumFunctionOnSet(f, R)
    BY <1>1, <1>2, <2>1, SumRemove
  <2>4. SumFunctionOnSet(g, S) = g[x] + SumFunctionOnSet(g, R)
    BY <1>1, <1>2, <2>1, SumRemove
  <2>5. SumFunctionOnSet(f, R) = SumFunctionOnSet(g, R)
    <3>1. \A y \in R : f[y] = g[y]
      BY <2>1
    <3> QED
      BY <2>2, <3>1, SumAgree
  <2>6. SumFunctionOnSet(f, R) \in Int
    BY <1>1, <2>2, SumInt
  <2>7. g[x] = f[x] + 1 /\ f[x] \in Int
    OBVIOUS
  <2> QED
    BY <1>2, <2>3, <2>4, <2>5, <2>6, <2>7
<1>3. CASE x \notin S
  <2>1. \A y \in S : f[y] = g[y]
    BY <1>3
  <2>2. SumFunctionOnSet(f, S) = SumFunctionOnSet(g, S)
    BY <2>1, SumAgree
  <2>3. SumFunctionOnSet(f, S) \in Int
    BY <1>1, SumInt
  <2> QED
    BY <1>3, <2>2, <2>3
<1> QED
  BY <1>2, <1>3

LEMMA WindowTypes ==
  ASSUME LimiterTypeOK, NEW ip \in Ips
  PROVE  /\ LastWindow \in SUBSET Times /\ IsFiniteSet(LastWindow)
         /\ admitted[ip] \in [Times -> Nat]
         /\ limiter[ip] \in [start : 0 .. now, count : 0 .. MaxHits + 1]
         /\ now \in Nat /\ now \in Times /\ restarts \in Nat
         /\ \A S \in SUBSET Times :
              IsFiniteSet(S) /\ SumFunctionOnSet(admitted[ip], S) \in Nat
<1>1. now \in Nat /\ now \in Times /\ restarts \in Nat /\ Horizon \in Nat
  BY LimiterAssumption DEF LimiterTypeOK, Times
<1>2. LastWindow \in SUBSET Times
  BY <1>1 DEF LastWindow, Times
<1>3. \A S \in SUBSET Times : IsFiniteSet(S)
  BY <1>1, IntervalIsFinite DEF Times
<1>4. admitted[ip] \in [Times -> Nat]
  BY DEF LimiterTypeOK
<1>5. \A S \in SUBSET Times : SumFunctionOnSet(admitted[ip], S) \in Nat
  BY <1>3, <1>4, SumNat
<1> QED
  BY <1>1, <1>2, <1>3, <1>4, <1>5 DEF LimiterTypeOK

LEMMA LimiterInits ==
  LimiterInit => LimiterInv
<1> SUFFICES ASSUME LimiterInit PROVE LimiterInv
  OBVIOUS
<1>1. LimiterTypeOK
  BY LimiterAssumption DEF LimiterInit, LimiterTypeOK, Times, NoEntry
<1>2. NothingAhead
  BY DEF LimiterInit, NothingAhead
<1>3. ASSUME NEW ip \in Ips PROVE WindowInv(ip)
  <2>1. limiter[ip].count = 0
    BY DEF LimiterInit, NoEntry
  <2>2. LastWindow = {0}
    BY LimiterAssumption DEF LimiterInit, LastWindow
  <2>3. PICK a : a = admitted[ip]
    OBVIOUS
  <2>4. a \in [Times -> Nat] /\ a[0] = 0 /\ 0 \in Times
    BY <2>3, LimiterAssumption DEF LimiterInit, Times
  <2>5. PICK one : one = {0}
    OBVIOUS
  <2>6. IsFiniteSet(one) /\ one \ {0} = {} /\ 0 \in one
    BY <2>5, FS_Singleton
  <2>7. SumFunctionOnSet(a, one) = a[0] + SumFunctionOnSet(a, one \ {0})
    <3>1. \A x \in one : a[x] \in Int
      BY <2>4, <2>5
    <3> QED
      BY <2>6, <3>1, SumRemove
  <2>8. SumFunctionOnSet(a, one) = 0
    BY <2>4, <2>6, <2>7, SumEmpty
  <2>9. (1 + restarts) * MaxHits - 1 >= 0
    BY LimiterAssumption DEF LimiterInit
  <2> QED
    BY <2>1, <2>2, <2>3, <2>5, <2>8, <2>9 DEF WindowInv, WindowOver
<1> QED
  BY <1>1, <1>2, <1>3 DEF LimiterInv

\* An address to which nothing happens.
LEMMA SameAddress ==
  ASSUME NEW ip \in Ips, WindowInv(ip), UNCHANGED <<now, restarts>>,
         limiter'[ip] = limiter[ip], admitted'[ip] = admitted[ip]
  PROVE  WindowInv(ip)'
  BY DEF WindowInv, WindowOver, LastWindow, After

\* An address that has no entry any more.
LEMMA NoEntryLeft ==
  ASSUME NEW ip \in Ips, NEW r \in Nat, restarts' = r,
         limiter'[ip] = NoEntry, UNCHANGED now, admitted'[ip] = admitted[ip],
         SumFunctionOnSet(admitted[ip], LastWindow) <= (1 + r) * MaxHits - 1
  PROVE  WindowInv(ip)'
  BY DEF WindowInv, WindowOver, LastWindow, NoEntry

LEMMA CleanUpKeeps ==
  ASSUME LimiterInv, CleanUp
  PROVE  LimiterInv'
<1>1. LimiterTypeOK'
  BY LimiterAssumption
     DEF LimiterInv, LimiterTypeOK, CleanUp, NoEntry, Times
<1>2. NothingAhead'
  BY DEF LimiterInv, NothingAhead, CleanUp
<1>3. ASSUME NEW ip \in Ips PROVE WindowInv(ip)'
  <2>1. WindowInv(ip) /\ restarts \in Nat
    BY WindowTypes DEF LimiterInv
  <2>2. CASE WindowOver(limiter[ip])
    BY <2>1, <2>2, NoEntryLeft DEF CleanUp, WindowInv
  <2>3. CASE ~WindowOver(limiter[ip])
    BY <2>1, <2>3, SameAddress DEF CleanUp
  <2> QED
    BY <2>2, <2>3
<1> QED
  BY <1>1, <1>2, <1>3 DEF LimiterInv

LEMMA RestartKeeps ==
  ASSUME LimiterInv, Restart
  PROVE  LimiterInv'
<1>1. LimiterTypeOK'
  BY LimiterAssumption
     DEF LimiterInv, LimiterTypeOK, Restart, NoEntry, Times
<1>2. NothingAhead'
  BY DEF LimiterInv, NothingAhead, Restart
<1>3. ASSUME NEW ip \in Ips PROVE WindowInv(ip)'
  <2>1. WindowInv(ip) /\ LimiterTypeOK
    BY DEF LimiterInv
  <2>2. PICK r \in Nat : r = restarts
    BY <2>1, WindowTypes
  <2>3. PICK sum \in Nat : sum = SumFunctionOnSet(admitted[ip], LastWindow)
    BY <2>1, WindowTypes
  <2>4. /\ (1 + r) * MaxHits \in Nat /\ MaxHits \in Nat
        /\ (1 + (r + 1)) * MaxHits = (1 + r) * MaxHits + MaxHits
    BY Allowance, LimiterAssumption
  <2>5. Hits(limiter[ip].count) <= MaxHits /\ Hits(limiter[ip].count) \in Int
    <3>1. limiter[ip].count \in 0 .. MaxHits + 1
      BY <2>1, WindowTypes
    <3> QED
      BY <3>1, LimiterAssumption DEF Hits
  <2>6. sum <= (1 + (r + 1)) * MaxHits - 1
    BY <2>1, <2>2, <2>3, <2>4, <2>5 DEF WindowInv
  <2>7. /\ restarts' = r + 1 /\ r + 1 \in Nat /\ limiter'[ip] = NoEntry
        /\ UNCHANGED now /\ admitted'[ip] = admitted[ip]
    BY <2>2 DEF Restart
  <2> QED
    BY <2>3, <2>6, <2>7, NoEntryLeft
<1> QED
  BY <1>1, <1>2, <1>3 DEF LimiterInv

\* What the address that asks has then.
LEMMA AskedAddress ==
  ASSUME LimiterInv, NEW ip \in Ips, isRateLimited(ip)
  PROVE  WindowInv(ip)'
<1> PICK e : e = limiter[ip]
  OBVIOUS
<1> PICK a : a = admitted[ip]
  OBVIOUS
<1> PICK b : b = admitted'[ip]
  OBVIOUS
<1> PICK g : g = Counted(e)
  OBVIOUS
<1>1. /\ LimiterTypeOK /\ WindowInv(ip)
      /\ now \in Nat /\ now \in Times /\ restarts \in Nat /\ MaxHits \in Nat \ {0}
      /\ e \in [start : 0 .. now, count : 0 .. MaxHits + 1]
      /\ a \in [Times -> Nat]
      /\ LastWindow \in SUBSET Times /\ IsFiniteSet(LastWindow)
  BY WindowTypes, LimiterAssumption DEF LimiterInv
<1>2. PICK quota \in Nat : quota = (1 + restarts) * MaxHits
  BY <1>1, Allowance
<1>3. /\ limiter'[ip] = g /\ UNCHANGED <<now, restarts>>
      /\ b = IF g.count > MaxHits THEN a ELSE [a EXCEPT ![now] = @ + 1]
  BY <1>1 DEF isRateLimited, Over, LimiterTypeOK
<1>4. now \in LastWindow
  BY <1>1, LimiterAssumption DEF LastWindow
<1>5. \A S \in SUBSET Times :
        /\ SumFunctionOnSet(a, S) \in Nat
        /\ g.count <= MaxHits => SumFunctionOnSet(b, S)
             = SumFunctionOnSet(a, S) + (IF now \in S THEN 1 ELSE 0)
        /\ ~(g.count <= MaxHits) /\ g.count \in Int
             => SumFunctionOnSet(b, S) = SumFunctionOnSet(a, S)
  <2> SUFFICES ASSUME NEW S \in SUBSET Times
               PROVE  /\ SumFunctionOnSet(a, S) \in Nat
                      /\ g.count <= MaxHits => SumFunctionOnSet(b, S)
                           = SumFunctionOnSet(a, S) + (IF now \in S THEN 1 ELSE 0)
                      /\ ~(g.count <= MaxHits) /\ g.count \in Int
                           => SumFunctionOnSet(b, S) = SumFunctionOnSet(a, S)
    OBVIOUS
  <2>1. IsFiniteSet(S) /\ SumFunctionOnSet(a, S) \in Nat
    BY <1>1, WindowTypes
  <2>2. ASSUME b = [a EXCEPT ![now] = @ + 1]
        PROVE  SumFunctionOnSet(b, S)
                 = SumFunctionOnSet(a, S) + (IF now \in S THEN 1 ELSE 0)
    <3>1. PICK x \in Times : x = now
      BY <1>1
    <3>2. b = [a EXCEPT ![x] = @ + 1]
      BY <2>2, <3>1
    <3>3. SumFunctionOnSet(b, S)
            = SumFunctionOnSet(a, S) + (IF x \in S THEN 1 ELSE 0)
      <4>1. PICK D : D = Times
        OBVIOUS
      <4>2. a \in [D -> Nat] /\ x \in D /\ S \in SUBSET D /\ IsFiniteSet(S)
        BY <1>1, <2>1, <4>1
      <4> QED
        BY <3>2, <4>2, OneMore
    <3> QED
      BY <3>1, <3>3
  <2>3. g.count \in Int
    BY <1>1 DEF Counted, Capped
  <2> QED
    BY <1>1, <1>3, <2>1, <2>2, <2>3
<1>6. PICK late : late = After(g.start)
  OBVIOUS
<1>7. late \in SUBSET Times
  BY <1>1, <1>6 DEF After
<1>8. /\ After(g.start)' = late /\ LastWindow' = LastWindow
      /\ WindowOver(g)' = WindowOver(g)
  BY <1>3, <1>6 DEF After, LastWindow, WindowOver
<1>9. /\ ~WindowOver(g)
      /\ SumFunctionOnSet(b, late) <= Hits(g.count) - 1
      /\ SumFunctionOnSet(b, LastWindow) <= quota - 1 + Hits(g.count)
  <2>1. CASE WindowOver(e)
    <3>1. g = [start |-> now, count |-> 1]
      BY <2>1 DEF Counted
    <3>2. ~WindowOver(g) /\ Hits(g.count) = 1 /\ g.count <= MaxHits
      BY <1>1, <3>1, LimiterAssumption DEF WindowOver, Hits
    <3>3. late = {}
      BY <1>1, <1>6, <3>1 DEF After, LastWindow
    <3>4. SumFunctionOnSet(b, late) = 0
      BY <3>3, SumEmpty
    <3>5. SumFunctionOnSet(a, LastWindow) <= quota - 1
      BY <1>1, <1>2, <2>1 DEF WindowInv
    <3> QED
      BY <1>1, <1>4, <1>5, <3>2, <3>4, <3>5
  <2>2. CASE ~WindowOver(e)
    <3>1. g = [e EXCEPT !.count = Capped(@ + 1)]
      BY <2>2 DEF Counted
    <3>2. PICK c \in 0 .. MaxHits + 1 : c = e.count
      BY <1>1
    <3>3. g.start = e.start /\ g.count = Capped(c + 1) /\ e.start \in 0 .. now
      BY <1>1, <3>1, <3>2
    <3>4. c > 0 /\ now - e.start <= Window
      BY <1>1, <2>2, <3>2, LimiterAssumption DEF WindowOver
    <3>5. ~WindowOver(g)
      BY <1>1, <3>2, <3>3, <3>4, LimiterAssumption DEF WindowOver, Capped
    <3>6. /\ SumFunctionOnSet(a, late) <= Hits(c) - 1
          /\ SumFunctionOnSet(a, LastWindow) <= quota - 1 + Hits(c)
      BY <1>1, <1>2, <1>6, <2>2, <3>2, <3>3 DEF WindowInv
    <3>7. CASE c + 1 <= MaxHits
      <4>1. g.count = c + 1 /\ Hits(g.count) = Hits(c) + 1 /\ g.count <= MaxHits
            /\ Hits(c) \in Int
        BY <1>1, <3>2, <3>3, <3>7 DEF Capped, Hits
      <4> QED
        BY <1>1, <1>5, <1>7, <3>5, <3>6, <4>1
    <3>8. CASE c + 1 > MaxHits
      <4>1. /\ g.count = MaxHits + 1 /\ g.count \in Int /\ ~(g.count <= MaxHits)
            /\ Hits(g.count) = MaxHits /\ Hits(c) <= MaxHits /\ Hits(c) \in Int
        BY <1>1, <3>2, <3>3, <3>8 DEF Capped, Hits
      <4>2. /\ SumFunctionOnSet(b, late) = SumFunctionOnSet(a, late)
            /\ SumFunctionOnSet(b, LastWindow) = SumFunctionOnSet(a, LastWindow)
            /\ SumFunctionOnSet(a, late) \in Nat
            /\ SumFunctionOnSet(a, LastWindow) \in Nat
        BY <1>1, <1>5, <1>7, <4>1
      <4> QED
        BY <1>1, <1>2, <3>5, <3>6, <4>1, <4>2
    <3> QED
      BY <1>1, <3>2, <3>7, <3>8
  <2> QED
    BY <2>1, <2>2
<1> QED
  BY <1>2, <1>3, <1>6, <1>8, <1>9 DEF WindowInv

LEMMA AskKeeps ==
  ASSUME LimiterInv, NEW ip \in Ips, isRateLimited(ip)
  PROVE  LimiterInv'
<1>1. /\ LimiterTypeOK /\ now \in Nat /\ now \in Times
      /\ limiter \in [Ips -> [start : 0 .. now, count : 0 .. MaxHits + 1]]
      /\ admitted \in [Ips -> [Times -> Nat]] /\ MaxHits \in Nat \ {0}
  BY WindowTypes, LimiterAssumption DEF LimiterInv, LimiterTypeOK
<1>2. Counted(limiter[ip]) \in [start : 0 .. now, count : 0 .. MaxHits + 1]
  <2>1. limiter[ip] \in [start : 0 .. now, count : 0 .. MaxHits + 1]
    BY <1>1
  <2>2. Capped(limiter[ip].count + 1) \in 0 .. MaxHits + 1
    BY <1>1, <2>1 DEF Capped
  <2>3. 1 \in 0 .. MaxHits + 1 /\ now \in 0 .. now
    BY <1>1
  <2> QED
    BY <2>1, <2>2, <2>3 DEF Counted
<1>3. admitted' \in [Ips -> [Times -> Nat]]
  <2>1. [admitted[ip] EXCEPT ![now] = @ + 1] \in [Times -> Nat]
    BY <1>1
  <2>2. [admitted EXCEPT ![ip][now] = @ + 1]
          = [admitted EXCEPT ![ip] = [admitted[ip] EXCEPT ![now] = @ + 1]]
    BY <1>1
  <2> QED
    BY <1>1, <2>1, <2>2 DEF isRateLimited
<1>4. LimiterTypeOK'
  BY <1>1, <1>2, <1>3 DEF LimiterTypeOK, isRateLimited
<1>5. \A j \in Ips \ {ip} : limiter'[j] = limiter[j] /\ admitted'[j] = admitted[j]
  BY <1>1 DEF isRateLimited
<1>6. \A t \in Times : t > now => admitted'[ip][t] = admitted[ip][t]
  BY <1>1 DEF isRateLimited
<1>7. NothingAhead'
  BY <1>1, <1>5, <1>6 DEF LimiterInv, NothingAhead, isRateLimited, Times
<1>8. ASSUME NEW j \in Ips PROVE WindowInv(j)'
  <2>1. CASE j = ip
    BY <2>1, AskedAddress
  <2>2. CASE j # ip
    BY <1>5, <2>2, SameAddress DEF LimiterInv, isRateLimited
  <2> QED
    BY <2>1, <2>2
<1> QED
  BY <1>4, <1>7, <1>8 DEF LimiterInv

\* The clock goes on, and the last window with it.
LEMMA TickAddress ==
  ASSUME LimiterInv, Tick, NEW ip \in Ips
  PROVE  WindowInv(ip)'
<1> PICK e : e = limiter[ip]
  OBVIOUS
<1> PICK a : a = admitted[ip]
  OBVIOUS
<1> PICK b : b = admitted'[ip]
  OBVIOUS
<1> PICK n \in Nat : n = now
  BY WindowTypes DEF LimiterInv
<1> PICK m \in Nat : m = n + 1
  OBVIOUS
<1>0. now' = m
  BY DEF Tick
<1>1. /\ LimiterTypeOK /\ WindowInv(ip)
      /\ n \in Nat /\ m \in Times /\ restarts \in Nat /\ MaxHits \in Nat \ {0}
      /\ e \in [start : 0 .. n, count : 0 .. MaxHits + 1]
      /\ a \in [Times -> Nat] /\ Window \in Nat
      /\ LastWindow \in SUBSET Times
      /\ \A t \in Times : t > n => a[t] = 0
  BY WindowTypes, LimiterAssumption
     DEF LimiterInv, Tick, Times, LimiterTypeOK, NothingAhead
<1>2. PICK quota \in Nat : quota = (1 + restarts) * MaxHits /\ quota >= MaxHits
  BY <1>1, Allowance
<1>3. /\ now' = m /\ UNCHANGED restarts /\ limiter'[ip] = e
      /\ \A t \in Times : b[t] = IF m - t > Window THEN 0 ELSE a[t]
  <2>1. now' = m /\ UNCHANGED restarts /\ limiter'[ip] = e
    BY <1>0 DEF Tick
  <2>2. \A t \in Times : b[t] = IF now' - t > Window THEN 0 ELSE a[t]
    BY DEF Tick
  <2> QED
    BY <2>1, <2>2
<1>4. PICK W : W = {t \in 0 .. n : n - t <= Window}
  OBVIOUS
<1>5. PICK V : V = {t \in 0 .. m : m - t <= Window}
  OBVIOUS
<1>6. W = LastWindow /\ V = LastWindow'
  BY <1>0, <1>4, <1>5 DEF LastWindow
<1>7. W \in SUBSET Times /\ V \in SUBSET Times
  BY <1>1, <1>4, <1>5, LimiterAssumption DEF Times
<1>8. \A S \in SUBSET Times :
        IsFiniteSet(S) /\ SumFunctionOnSet(a, S) \in Nat
  BY <1>1, WindowTypes
\* What is summed up then was summed up before.
<1>9. ASSUME NEW S \in SUBSET V, NEW T \in SUBSET W, \A t \in S : t = m \/ t \in T
      PROVE  SumFunctionOnSet(b, S) <= SumFunctionOnSet(a, T)
  <2>1. S \in SUBSET Times /\ T \in SUBSET Times /\ S \cap T \in SUBSET Times
    BY <1>7
  <2>2. PICK C : C = S \cap T
    OBVIOUS
  <2>3. SumFunctionOnSet(b, S) = SumFunctionOnSet(a, S)
    <3>1. \A t \in S : b[t] = a[t]
      BY <1>1, <1>3, <1>5, <1>7
    <3> QED
      BY <1>8, <2>1, <3>1, SumAgree
  <2>4. SumFunctionOnSet(a, C) = SumFunctionOnSet(a, S)
    <3>1. \A t \in S \ C : a[t] = 0
      BY <1>1, <1>9, <2>2
    <3>2. \A t \in S : a[t] \in Nat
      BY <1>1, <2>1
    <3> QED
      BY <1>8, <2>1, <2>2, <3>1, <3>2, SumPart
  <2>5. SumFunctionOnSet(a, C) <= SumFunctionOnSet(a, T)
    <3>1. \A t \in T : a[t] \in Nat
      BY <1>1, <2>1
    <3> QED
      BY <1>8, <2>1, <2>2, <3>1, SumPart
  <2> QED
    BY <2>3, <2>4, <2>5
<1>10. SumFunctionOnSet(b, V) <= SumFunctionOnSet(a, W)
  <2>1. \A t \in V : t = m \/ t \in W
    BY <1>1, <1>4, <1>5
  <2> QED
    BY <1>9, <2>1
<1>11. PICK old : old = {u \in W : u > e.start}
  OBVIOUS
<1>12. PICK new : new = {u \in V : u > e.start}
  OBVIOUS
<1>13. SumFunctionOnSet(b, new) <= SumFunctionOnSet(a, old)
  <2>1. \A t \in new : t = m \/ t \in old
    BY <1>1, <1>4, <1>5, <1>11, <1>12
  <2> QED
    BY <1>9, <1>11, <1>12, <2>1
<1>14. old = After(e.start) /\ new = After(e.start)'
  BY <1>6, <1>11, <1>12 DEF After
<1>15. /\ SumFunctionOnSet(a, W) \in Nat /\ SumFunctionOnSet(a, old) \in Nat
       /\ old \in SUBSET Times
  BY <1>7, <1>8, <1>11
<1>16. /\ SumFunctionOnSet(b, V) \in Nat /\ SumFunctionOnSet(b, new) \in Nat
  <2>1. \A t \in Times : b[t] \in Nat
    BY <1>1, <1>3
  <2>2. new \in SUBSET Times
    BY <1>7, <1>12
  <2> QED
    BY <1>7, <1>8, <2>1, <2>2, SumNat
<1>17. Hits(e.count) \in Int /\ Hits(e.count) <= MaxHits
  BY <1>1 DEF Hits
<1>18. WindowOver(e) <=> (e.count = 0 \/ n - e.start > Window)
  BY DEF WindowOver
<1>19. WindowOver(e)' <=> (e.count = 0 \/ m - e.start > Window)
  BY <1>0 DEF WindowOver
<1>20. CASE WindowOver(e)
  <2>1. SumFunctionOnSet(b, V) <= quota - 1
    BY <1>1, <1>2, <1>6, <1>10, <1>15, <1>16, <1>20 DEF WindowInv
  <2>2. WindowOver(e)'
    BY <1>1, <1>18, <1>19, <1>20
  <2> QED
    BY <1>2, <1>3, <1>6, <2>1, <2>2 DEF WindowInv
<1>21. CASE ~WindowOver(e)
  <2>1. /\ SumFunctionOnSet(a, old) <= Hits(e.count) - 1
        /\ SumFunctionOnSet(a, W) <= quota - 1 + Hits(e.count)
    BY <1>1, <1>2, <1>6, <1>14, <1>21 DEF WindowInv
  <2>2. CASE WindowOver(e)'
    <3>1. V = new
      BY <1>1, <1>5, <1>12, <1>18, <1>19, <1>21, <2>2
    <3>2. SumFunctionOnSet(b, V) <= quota - 1
      BY <1>1, <1>2, <1>13, <1>15, <1>16, <1>17, <2>1, <3>1
    <3> QED
      BY <1>2, <1>3, <1>6, <2>2, <3>2 DEF WindowInv
  <2>3. CASE ~WindowOver(e)'
    <3>1. /\ SumFunctionOnSet(b, new) <= Hits(e.count) - 1
          /\ SumFunctionOnSet(b, V) <= quota - 1 + Hits(e.count)
      BY <1>10, <1>13, <1>15, <1>16, <1>17, <2>1
    <3> QED
      BY <1>2, <1>3, <1>6, <1>14, <2>3, <3>1 DEF WindowInv
  <2> QED
    BY <2>2, <2>3
<1> QED
  BY <1>20, <1>21

LEMMA TickKeepsLimits ==
  ASSUME LimiterInv, Tick
  PROVE  LimiterInv'
<1>1. /\ now \in Nat /\ now + 1 \in Times /\ Window \in Nat
      /\ limiter \in [Ips -> [start : 0 .. now, count : 0 .. MaxHits + 1]]
      /\ admitted \in [Ips -> [Times -> Nat]] /\ restarts \in 0 .. MaxRestarts
  BY LimiterAssumption DEF LimiterInv, LimiterTypeOK, Tick, Times
<1>2. 0 .. now \subseteq 0 .. now + 1
  BY <1>1
<1>3. \A ip \in Ips, t \in Times :
        admitted'[ip][t] \in Nat /\ (t > now + 1 => admitted'[ip][t] = 0)
  <2> SUFFICES ASSUME NEW ip \in Ips, NEW t \in Times
               PROVE  /\ admitted'[ip][t] \in Nat
                      /\ t > now + 1 => admitted'[ip][t] = 0
    OBVIOUS
  <2>1. admitted'[ip][t] \in {0, admitted[ip][t]}
    BY DEF Tick
  <2>2. admitted[ip][t] \in Nat /\ (t > now => admitted[ip][t] = 0) /\ t \in Int
    BY <1>1, LimiterAssumption DEF LimiterInv, NothingAhead, Times
  <2> QED
    BY <1>1, <2>1, <2>2
<1>4. admitted' = [ip \in Ips |-> [t \in Times |-> admitted'[ip][t]]]
  BY DEF Tick
<1>5. limiter' \in [Ips -> [start : 0 .. now + 1, count : 0 .. MaxHits + 1]]
  BY <1>1, <1>2 DEF Tick
<1>6. LimiterTypeOK'
  BY <1>1, <1>3, <1>4, <1>5 DEF LimiterTypeOK, Tick, Times
<1>7. NothingAhead'
  BY <1>3 DEF NothingAhead, Tick, Times
<1> QED
  BY <1>6, <1>7, TickAddress DEF LimiterInv

LEMMA LimiterSteps ==
  ASSUME LimiterInv, [LimiterNext]_limiterVars
  PROVE  LimiterInv'
<1>1. CASE UNCHANGED limiterVars
  BY <1>1 DEF limiterVars, LimiterInv, LimiterTypeOK, NothingAhead, WindowInv,
              WindowOver, LastWindow, After, Times
<1> QED
  BY <1>1, AskKeeps, CleanUpKeeps, TickKeepsLimits, RestartKeeps DEF LimiterNext

LEMMA LimiterInvariant ==
  LimiterSpec => []LimiterInv
BY LimiterInits, LimiterSteps, PTL DEF LimiterSpec

\* The clock, the entries and what is let through keep their types.
THEOREM LimiterTypes ==
  LimiterSpec => []LimiterTypeOK
BY LimiterInvariant, PTL DEF LimiterInv

\* However its requests are spread over windows, sweeps and restarts, an
\* address has less than twice RATE_LIMIT_MAX let through in any time of a
\* window, and RATE_LIMIT_MAX more for each restart (isRateLimited).
THEOREM LoadBound ==
  LimiterSpec => []LoadIsBounded
<1>1. LimiterInv => LoadIsBounded
  <2> SUFFICES ASSUME LimiterInv, NEW ip \in Ips
               PROVE  AdmittedInAWindow(ip) < (2 + restarts) * MaxHits
    BY DEF LoadIsBounded
  <2>1. PICK r \in Nat : r = restarts
    BY WindowTypes DEF LimiterInv
  <2>2. PICK sum \in Nat : sum = SumFunctionOnSet(admitted[ip], LastWindow)
    BY WindowTypes DEF LimiterInv
  <2>3. PICK hits \in Nat : hits = Hits(limiter[ip].count) /\ hits <= MaxHits
    <3>1. limiter[ip].count \in 0 .. MaxHits + 1
      BY WindowTypes DEF LimiterInv
    <3> QED
      BY <3>1, LimiterAssumption DEF Hits
  <2>4. PICK quota \in Nat :
          /\ quota = (1 + r) * MaxHits
          /\ (2 + r) * MaxHits = quota + MaxHits
    BY Allowance
  <2>5. sum <= quota - 1 + hits
    BY <2>1, <2>2, <2>3, <2>4 DEF LimiterInv, WindowInv
  <2> QED
    BY <2>1, <2>2, <2>3, <2>4, <2>5, LimiterAssumption DEF AdmittedInAWindow
<1> QED
  BY LimiterInvariant, <1>1, PTL

-----------------------------------------------------------------------------
\* Sources: the keys of links.

\* The keys of links that lead to where their key says.
LEMMA OwnKey ==
  ASSUME NEW u \in Links, ~Borrowed(u), canonicalizeUrl(u) # NoKey
  PROVE  \/ IsTweet(u) /\ canonicalizeUrl(u) = <<"x", u.id>>
         \/ /\ ~IsTweet(u)
            /\ canonicalizeUrl(u) = <<"article", u.site, u.path, u.id>>
<1>1. CASE IsTweet(u)
  BY <1>1 DEF IsTweet, canonicalizeUrl, canonicalizeTweet, HasTweetSite
<1>2. CASE ~IsTweet(u)
  <2>1. u.site \notin EndsInX /\ u.query.kind # "quotes"
    BY <1>2 DEF Borrowed
  <2>2. canonicalizeTweet(u) = NoKey
    BY <1>2, <2>1 DEF canonicalizeTweet, HasTweetSite, IsTweet
  <2> QED
    BY <1>2, <2>2 DEF canonicalizeUrl, canonicalizeArticle
<1> QED
  BY <1>1, <1>2

\* Such keys are alike when the pages are, but for query and letters.
LEMMA KeysTellPages ==
  ASSUME NEW u \in Links, NEW v \in Links, ~Borrowed(u), ~Borrowed(v),
         canonicalizeUrl(u) # NoKey, canonicalizeUrl(v) # NoKey
  PROVE  /\ Page(u) = Page(v) => canonicalizeUrl(u) = canonicalizeUrl(v)
         /\ canonicalizeUrl(u) = canonicalizeUrl(v) => Alike(u, v)
<1>1. \A i, j, s, t, p, q, k, l, m, n :
        /\ <<"x", i>> = <<"x", j>> <=> i = j
        /\ <<"tweet", i>> = <<"tweet", j>> <=> i = j
        /\ <<"article", s, p, i>> = <<"article", t, q, j>> <=> s = t /\ p = q /\ i = j
        /\ <<s, p, i>> = <<t, q, j>> <=> s = t /\ p = q /\ i = j
        /\ <<s, p, i, k, m>> = <<t, q, j, l, n>> => s = t /\ p = q /\ i = j
        /\ <<"x", i>> # <<"article", t, q, j>>
        /\ <<"tweet", i>> # <<t, q, j, l, n>>
  OBVIOUS
<1>2. /\ IsTweet(u) => Page(u) = <<"tweet", u.id>>
      /\ ~IsTweet(u) => Page(u) = <<u.site, u.path, u.id, u.letters, Selected(u)>>
      /\ IsTweet(v) => Page(v) = <<"tweet", v.id>>
      /\ ~IsTweet(v) => Page(v) = <<v.site, v.path, v.id, v.letters, Selected(v)>>
  BY DEF Page
<1>3. PICK a, b, x, y :
        /\ a = canonicalizeUrl(u) /\ b = canonicalizeUrl(v)
        /\ x = Page(u) /\ y = Page(v)
  OBVIOUS
<1>4. CASE IsTweet(u) /\ IsTweet(v)
  BY <1>1, <1>2, <1>4, OwnKey DEF Alike
<1>5. CASE ~IsTweet(u) /\ ~IsTweet(v)
  <2>1. /\ a = <<"article", u.site, u.path, u.id>>
        /\ b = <<"article", v.site, v.path, v.id>>
    BY <1>3, <1>5, OwnKey
  <2>2. x = y => u.site = v.site /\ u.path = v.path /\ u.id = v.id
    BY <1>1, <1>2, <1>3, <1>5
  <2>3. a = b => u.site = v.site /\ u.path = v.path /\ u.id = v.id
    BY <1>1, <2>1
  <2> QED
    BY <1>3, <1>5, <2>1, <2>2, <2>3 DEF Alike
<1>6. CASE IsTweet(u) /\ ~IsTweet(v)
  BY <1>1, <1>2, <1>6, OwnKey
<1>7. CASE ~IsTweet(u) /\ IsTweet(v)
  BY <1>1, <1>2, <1>7, OwnKey
<1> QED
  BY <1>4, <1>5, <1>6, <1>7

\* What the other links have.
LEMMA OtherKeys ==
  ASSUME NEW u \in Links
  PROVE  /\ canonicalizeUrl(u) = NoKey =>
              u.path = "profile" \/ u.query.kind = "mentions" \/ Borrowed(u)
         /\ Borrowed(u) => canonicalizeUrl(u) \in {NoKey} \cup {<<"x", i>> : i \in Ids}
<1>1. /\ u.id \in Ids /\ u.query \in Query
      /\ \/ u.site \in TwitterSites /\ u.path \in TweetPaths \cup {"profile"}
         \/ u.site \in Articles /\ u.path \in {"article", "user"}
  BY DEF Links
<1>2. u.query.kind = "quotes" => u.query.id \in Ids
  BY <1>1 DEF Query
<1>3. ASSUME canonicalizeUrl(u) = NoKey, u.path # "profile", ~Borrowed(u)
      PROVE  u.query.kind = "mentions"
  <2>1. ~IsTweet(u)
    <3>1. IsTweet(u) => canonicalizeUrl(u) = <<"x", u.id>>
      BY DEF IsTweet, canonicalizeUrl, canonicalizeTweet, HasTweetSite
    <3> QED
      BY <1>1, <1>3, <3>1, SourcesAssumption
  <2>2. u.site \in Articles /\ u.path \in {"article", "user"} /\ u.site \notin TwitterSites
    BY <1>1, <1>3, <2>1, SourcesAssumption DEF IsTweet
  <2>3. u.site \notin EndsInX /\ u.query.kind # "quotes"
    BY <1>3, <2>1 DEF Borrowed
  <2>4. canonicalizeArticle(u) # NoKey
    BY <1>1, <2>2, SourcesAssumption DEF canonicalizeArticle
  <2> QED
    BY <1>3, <2>2, <2>3, <2>4 DEF canonicalizeUrl, HasTweetSite
<1>4. ASSUME Borrowed(u)
      PROVE  canonicalizeUrl(u) \in {NoKey} \cup {<<"x", i>> : i \in Ids}
  <2>1. canonicalizeUrl(u) = canonicalizeTweet(u)
    BY <1>4 DEF Borrowed, canonicalizeUrl, HasTweetSite
  <2> QED
    BY <1>1, <1>2, <2>1 DEF canonicalizeTweet
<1> QED
  BY <1>3, <1>4

\* One page, one key, however its link is spelled; and what shares a key is one
\* tweet, or one path of a site, where the link borrows no name
\* (antivamp-server.js:118-165).
THEOREM KeyOfAPage == SourcesSpec => OneKeyAPage
<1>1. SourcesInit => link \in Links
  BY DEF SourcesInit
<1>2. link \in Links /\ [SourcesNext]_<<link>> => (link \in Links)'
  BY DEF SourcesNext
<1>3. link \in Links /\ [SourcesNext]_<<link>> =>
        [/\ Key = NoKey =>
              link.path = "profile" \/ link.query.kind = "mentions" \/ Borrowed(link)
         /\ Borrowed(link) => Key \in {NoKey} \cup {<<"x", i>> : i \in Ids}
         /\ Key # NoKey /\ Key' # NoKey /\ ~Borrowed(link) /\ ~Borrowed(link)' =>
              /\ Page(link) = Page(link)' => Key = Key'
              /\ Key = Key' => Alike(link, link')]_<<link>>
  <2>1. ASSUME link \in Links, link' \in Links
        PROVE  /\ Key = NoKey =>
                    link.path = "profile" \/ link.query.kind = "mentions" \/ Borrowed(link)
               /\ Borrowed(link) => Key \in {NoKey} \cup {<<"x", i>> : i \in Ids}
               /\ Key # NoKey /\ Key' # NoKey /\ ~Borrowed(link) /\ ~Borrowed(link)' =>
                    /\ Page(link) = Page(link)' => Key = Key'
                    /\ Key = Key' => Alike(link, link')
    <3>1. PICK u \in Links, v \in Links : u = link /\ v = link'
      BY <2>1
    <3>2. /\ Key = canonicalizeUrl(u) /\ Key' = canonicalizeUrl(v)
          /\ Page(link) = Page(u) /\ Page(link)' = Page(v)
          /\ Borrowed(link) = Borrowed(u) /\ Borrowed(link)' = Borrowed(v)
          /\ Alike(link, link') = Alike(u, v)
      BY <3>1 DEF Key, Page, IsTweet, Selected, Borrowed, canonicalizeUrl,
         canonicalizeTweet, canonicalizeArticle, HasTweetSite
    <3> QED
      BY <3>1, <3>2, KeysTellPages, OtherKeys
  <2> QED
    BY <2>1 DEF SourcesNext
<1> QED
  BY <1>1, <1>2, <1>3, PTL DEF SourcesSpec, OneKeyAPage
=============================================================================
