------------------------------- MODULE Deploy -------------------------------
(***************************************************************************)
(* A token is deployed: the browser asks the anti-vamp server for the      *)
(* source (a tweet or an article), creates the mint and its registry in    *)
(* one transaction, its pool and its locks in a second one that is tried   *)
(* three times, and tells the server.  Several users do so at once.        *)
(*                                                                         *)
(* A deploy is named by its mint, which is new each time.  On chain there  *)
(* are the registries, the ticker, image and identity locks and the        *)
(* pools; the server keeps nothing but the table source_locks.             *)
(*                                                                         *)
(* create_source_lock is not an instruction of the program (source_lock.rs *)
(* is in no module) and a second transaction that carries it is larger     *)
(* than a packet: such a transaction never takes effect.  Nor do           *)
(* activate_protection and deactivate_protection: claim_locks leaves the   *)
(* discriminator of the lock accounts zero and both ask for typed ones.    *)
(***************************************************************************)
EXTENDS Naturals, FiniteSets

CONSTANTS
  Mints,
  None,
  Sources,     \* canonical keys
  Source,      \* the source of each deploy, or None
  Hash,        \* its ticker, image and identity hash; one for "no image"
  Picture,     \* the perceptual hash the server computes, or None
  Named,       \* the mints that others tell the server of
  MaxFaults    \* bound on lost calls

Kinds == {"ticker", "image", "identity"}

ASSUME DeployAssumption ==
  /\ None \notin Mints
  /\ Source \in [Mints -> Sources \cup {None}]
  /\ \A m \in Mints : DOMAIN Hash[m] = Kinds
  /\ DOMAIN Picture = Mints
  /\ Named \subseteq Mints
  /\ MaxFaults \in Nat

Hashes == {Hash[m][k] : m \in Mints, k \in Kinds}

VARIABLES
  registries,   \* mints with a TokenRegistry
  locks,        \* for each kind and hash, the mint whose registry claimed it
  pools,        \* mints with a pool
  cache,        \* source_locks: the mint of each source
  flow,         \* the browser of each deploy
  sent,         \* second transactions on their way
  faults

chain == <<registries, locks, pools>>

vars == <<chain, cache, flow, sent, faults>>

NewFlow == [pc |-> "form", signed |-> FALSE, claims |-> FALSE,
            source |-> FALSE, attempt |-> 0, result |-> "none", gave |-> FALSE]

Init ==
  /\ registries = {}
  /\ locks = [k \in Kinds |-> [h \in Hashes |-> None]]
  /\ pools = {}
  /\ cache = [s \in Sources |-> None]
  /\ flow = [m \in Mints |-> NewFlow]
  /\ sent = {}
  /\ faults = 0

At(m, pc) == flow[m].pc = pc

Goes(m, to) == flow' = [flow EXCEPT ![m] = to]

GoesTo(m, pc) == Goes(m, [flow[m] EXCEPT !.pc = pc])

Fails ==
  /\ faults < MaxFaults
  /\ faults' = faults + 1

-----------------------------------------------------------------------------
(***************************************************************************)
(* The server.  A query that fails reads as "not locked".                  *)
(***************************************************************************)
Taken(m) == cache[Source[m]] # None

\* Some locked source has a picture like this one.
Similar(m) ==
  /\ Picture[m] # None
  /\ \E s \in Sources : cache[s] # None /\ Picture[cache[s]] = Picture[m]

Free(claimed) ==
  \/ ~claimed /\ UNCHANGED faults
  \/ claimed /\ Fails

\* GET /check while the form is filled in: the form of a taken source is not
\* sent, and the form of any other is sent later.
Check(m) ==
  /\ At(m, "form")
  /\ IF Source[m] = None THEN UNCHANGED faults ELSE Free(Taken(m))
  /\ GoesTo(m, IF Source[m] = None THEN "tx1" ELSE "ask")
  /\ UNCHANGED <<chain, cache, sent>>

\* POST /canonicalize up to its first query ...
AskSource(m) ==
  /\ At(m, "ask")
  /\ Free(Taken(m))
  /\ GoesTo(m, "similar")
  /\ UNCHANGED <<chain, cache, sent>>

\* ... and from its second one to the signature.
AskImage(m) ==
  /\ At(m, "similar")
  /\ Free(Similar(m))
  /\ Goes(m, [flow[m] EXCEPT !.pc = "tx1", !.signed = TRUE])
  /\ UNCHANGED <<chain, cache, sent>>

\* The server refuses (a source that is taken, a picture that is, a tweet that
\* is not fresh, too many requests) or does not answer: the browser logs it
\* and goes on without a signature.
Unsigned(m) ==
  /\ flow[m].pc \in {"ask", "similar"}
  /\ GoesTo(m, "tx1")
  /\ UNCHANGED <<chain, cache, sent, faults>>

-----------------------------------------------------------------------------
(***************************************************************************)
(* The first transaction: mint, supply and registry.  If it fails, or its  *)
(* confirmation does, the deploy has failed.                               *)
(***************************************************************************)
CreateTokenRegistry(m) == registries' = registries \cup {m}

Tx1(m) ==
  /\ At(m, "tx1")
  /\ \/ CreateTokenRegistry(m) /\ GoesTo(m, "build") /\ UNCHANGED faults
     \/ CreateTokenRegistry(m) /\ GoesTo(m, "failed") /\ Fails
     \/ UNCHANGED registries /\ GoesTo(m, "failed") /\ Fails
  /\ UNCHANGED <<locks, pools, cache, sent>>

\* The instructions of the second one; those for locks may fail to be built.
Build(m) ==
  /\ At(m, "build")
  /\ \E claims \in BOOLEAN, source \in {flow[m].signed, FALSE} :
       /\ IF claims /\ source = flow[m].signed THEN UNCHANGED faults ELSE Fails
       /\ Goes(m, [flow[m] EXCEPT !.pc = "send", !.claims = claims,
                     !.source = source, !.attempt = 1, !.gave = ~claims])
  /\ UNCHANGED <<chain, cache, sent>>

Send(m) ==
  /\ At(m, "send")
  /\ sent' = sent \cup {[mint |-> m, attempt |-> flow[m].attempt,
                         claims |-> flow[m].claims, source |-> flow[m].source]}
  /\ Goes(m, [flow[m] EXCEPT !.pc = "confirm", !.result = "none"])
  /\ UNCHANGED <<chain, cache, faults>>

(***************************************************************************)
(* The second transaction lands, some time: add_liquidity, which creates   *)
(* the pool, and claim_locks, which creates three locks, or nothing.       *)
(***************************************************************************)
CanClaim_Ticker(m) ==
  m \in registries /\ locks["ticker"][Hash[m]["ticker"]] = None

CanClaim(m) ==
  m \in registries /\ \A k \in Kinds : locks[k][Hash[m][k]] = None

Valid(tx) ==
  /\ tx.mint \notin pools
  /\ ~tx.source
  /\ tx.claims => CanClaim(tx.mint)

ClaimLocks(m) ==
  locks' = [k \in Kinds |-> [locks[k] EXCEPT ![Hash[m][k]] = m]]

Result(tx, r) ==
  flow' = [flow EXCEPT ![tx.mint].result =
             IF At(tx.mint, "confirm") /\ flow[tx.mint].attempt = tx.attempt
             THEN r ELSE @]

Land(tx) ==
  /\ sent' = sent \ {tx}
  /\ \/ /\ Valid(tx)
        /\ pools' = pools \cup {tx.mint}
        /\ IF tx.claims THEN ClaimLocks(tx.mint) ELSE UNCHANGED locks
        /\ Result(tx, "ok")
     \/ ~Valid(tx) /\ Result(tx, "err") /\ UNCHANGED <<pools, locks>>
  /\ UNCHANGED <<registries, cache, faults>>

\* It never lands: its blockhash expires and the confirmation says so.
Expire(tx) ==
  /\ sent' = sent \ {tx}
  /\ Result(tx, "err")
  /\ Fails
  /\ UNCHANGED <<chain, cache>>

-----------------------------------------------------------------------------
(***************************************************************************)
(* After a failed attempt: the second failure drops the locks, the third   *)
(* ends the deploy.                                                        *)
(***************************************************************************)
DropAfter_Third == 3

DropAfter_First == 1

DropAfter == 2

NextAttempt(m) ==
  LET f == flow[m]
      drop == f.attempt = DropAfter /\ (f.claims \/ f.source) IN
  Goes(m, IF f.attempt = 3
          THEN [f EXCEPT !.pc = "failed"]
          ELSE [f EXCEPT !.pc = "send", !.attempt = @ + 1,
                         !.claims = @ /\ ~drop, !.source = @ /\ ~drop])

\* Confirmed on chain, and the pool is there.
Deployed(m) == flow[m].result = "ok" /\ m \in pools

Confirm(m) ==
  /\ At(m, "confirm")
  /\ \/ /\ Deployed(m)
        /\ GoesTo(m, IF flow[m].signed THEN "tell" ELSE "done")
     \/ flow[m].result = "err" /\ NextAttempt(m)
  /\ UNCHANGED <<chain, cache, sent, faults>>

\* The confirmation, or the look at the pool, fails; the transaction may land.
LoseConfirmation(m) ==
  /\ At(m, "confirm")
  /\ NextAttempt(m)
  /\ Fails
  /\ UNCHANGED <<chain, cache, sent>>

\* POST /confirm-lock takes any mint for any source, and the upsert of setLock
\* replaces what is there.
ConfirmLock(s, m) == cache' = [cache EXCEPT ![s] = m]

TellServer(m) ==
  /\ At(m, "tell")
  /\ \/ ConfirmLock(Source[m], m) /\ UNCHANGED faults
     \/ UNCHANGED cache /\ Fails
  /\ GoesTo(m, "done")
  /\ UNCHANGED <<chain, sent>>

\* Anybody may call it, of a mint that has no pool or another source too.
TellOf(s, m) ==
  /\ ConfirmLock(s, m)
  /\ UNCHANGED <<chain, flow, sent, faults>>

Step(m) ==
  \/ Check(m) \/ AskSource(m) \/ AskImage(m) \/ Unsigned(m)
  \/ Tx1(m) \/ Build(m) \/ Send(m)
  \/ Confirm(m) \/ LoseConfirmation(m) \/ TellServer(m)

Next ==
  \/ \E m \in Mints : Step(m)
  \/ \E tx \in sent : Land(tx) \/ Expire(tx)
  \/ \E s \in Sources, m \in Named : TellOf(s, m)

Spec == Init /\ [][Next]_vars

\* The browser stays open, and the cluster decides on every transaction.
Fairness ==
  /\ \A m \in Mints : WF_vars(Step(m))
  /\ WF_vars(\E tx \in sent : Land(tx) \/ Expire(tx))

FairSpec == Spec /\ Fairness
-----------------------------------------------------------------------------
PCs == {"form", "ask", "similar", "tx1", "build", "send", "confirm", "tell",
        "done", "failed"}

Transactions == [mint : Mints, attempt : 1..3, claims : BOOLEAN,
                 source : BOOLEAN]

TypeOK ==
  /\ registries \subseteq Mints
  /\ locks \in [Kinds -> [Hashes -> Mints \cup {None}]]
  /\ pools \subseteq registries
  /\ cache \in [Sources -> Mints \cup {None}]
  /\ flow \in [Mints -> [pc : PCs, signed : BOOLEAN, claims : BOOLEAN,
                         source : BOOLEAN, attempt : 0..3,
                         result : {"none", "ok", "err"}, gave : BOOLEAN]]
  /\ sent \subseteq Transactions
  /\ faults \in 0..MaxFaults

Held(m) == {k \in Kinds : locks[k][Hash[m][k]] = m}

\* A mint has all three locks or none, and only together with its pool: a
\* failed or repeated second transaction leaves no lock behind, and nobody
\* takes one of the three over later.
LocksComeWithThePool ==
  \A m \in Mints : Held(m) = {} \/ (Held(m) = Kinds /\ m \in pools)

\* A deploy that ends well gave up its locks for a reason: somebody else has
\* one of them, or its source was approved (the transaction that carries the
\* source lock never works), or the instruction could not be built.  One lost
\* call is not a reason: that is why there are two attempts.
LocksDroppedForAReason ==
  faults <= 1 =>
    \A m \in Mints : At(m, "done") /\ Held(m) = {} =>
      \/ flow[m].signed \/ flow[m].gave
      \/ \E k \in Kinds : locks[k][Hash[m][k]] \notin {m, None}

\* Whatever locks are taken and whatever the table says, a deploy that gets
\* through its first transaction ends with a pool, if no call is lost: the
\* chain decides, and a row that names no pool stops nobody.
PoolInTheEnd ==
  \A m \in Mints : At(m, "build") ~> m \in pools \/ faults > 0

\* antivamp-server.js:4, "One tweet = one CA. First deploy wins.": the token
\* recorded for a source stays.
FirstDeployWins ==
  [][\A s \in Sources : cache[s] # None => cache'[s] = cache[s]]_vars
=============================================================================
