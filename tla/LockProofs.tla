----------------------------- MODULE LockProofs -----------------------------
(***************************************************************************)
(* Theorems about the locks of the program: of sources (SourceLock), for   *)
(* any sources, deploys, forms of transactions and times, and of tickers,  *)
(* pictures and identities (Protection), for any mints and hashes; and     *)
(* about the form of what is sent to it (Calls).                           *)
(*                                                                         *)
(* Sources.  IInv adds to the type invariant how late a signature may      *)
(* expire: LockedWhileFresh and SignaturesWork follow from when it was     *)
(* given, which only the signed messages tell.                             *)
(*                                                                         *)
(* Registries.  Why a lock is active exactly when its token is protected:  *)
(* both are always false.  RegistryInv says so, and why: no lock account   *)
(* ever has a discriminator, so no activation loads its locks.             *)
(*                                                                         *)
(* Calls, for any mints, users, addresses and number of transactions under *)
(* way: every instruction that is sent is one of those that have the form  *)
(* their handler asks for (FormedCalls), whoever sends it, and then it has *)
(* it in whatever transaction and after whatever other instructions; what  *)
(* a transaction does, the fold of its instructions, is taken apart by the *)
(* subsets of them (Runs).                                                 *)
(***************************************************************************)
EXTENDS SourceLock, Protection, Calls, SumTheorems

\* A signature expires Ttl after it was given, and for a tweet that was while
\* it was fresh.
SignedInTime ==
  \A m \in signed :
    /\ m.expiry <= now + Ttl
    /\ m.source \notin Articles => m.expiry <= Posted[m.source] + Fresh + Ttl

IInv == TypeOK /\ SignedInTime /\ LockedAsSigned

LEMMA ConstantTypes ==
  /\ Ttl \in Nat /\ ChainTtl \in Nat /\ Grace \in Nat /\ Fresh \in Nat
  /\ MaxSkew \in Nat /\ Horizon \in Nat
  /\ Posted \in [Sources -> Int]
  BY SourceLockAssumption

LEMMA InitIInv == Init => IInv
  BY ConstantTypes DEF Init, IInv, TypeOK, SignedInTime, LockedAsSigned, Near, Lock

-----------------------------------------------------------------------------
\* All locks a transaction creates carry the message of its first Ed25519
\* instruction.
LEMMA SameMessage ==
  ASSUME NEW form, NEW msg, NEW i, NEW j,
         Verified(form, msg, i), Verified(form, msg, j),
         DOMAIN form \subseteq Int
  PROVE  msg[i] = msg[j]
<1>1. PICK a \in Places(form, "ed25519") :
        (\A k \in Places(form, "ed25519") : a <= k) /\ msg[a] = msg[i]
  BY DEF Verified
<1>2. PICK b \in Places(form, "ed25519") :
        (\A k \in Places(form, "ed25519") : b <= k) /\ msg[b] = msg[j]
  BY DEF Verified
<1>3. a <= b /\ b <= a /\ a \in Int /\ b \in Int
  BY <1>1, <1>2 DEF Places
<1>4. a = b
  BY <1>3
<1> QED
  BY <1>1, <1>2, <1>4

LEMMA FormDomain ==
  ASSUME NEW form \in Forms
  PROVE  DOMAIN form \subseteq Int
  BY SourceLockAssumption

\* What create_source_lock does to the lock of one source.
LEMMA CreateEffect ==
  ASSUME TypeOK,
         NEW form \in Forms, NEW msg \in [DOMAIN form -> signed \cup Unsigned],
         NEW own \in BOOLEAN, CreateSourceLock(form, msg, own), NEW s \in Sources
  PROVE  \/ locks'[s] = locks[s]
         \/ /\ locks[s] = Unlocked
            /\ \E i \in Places(form, "lock") :
                 /\ own => msg[i] \in signed
                 /\ msg[i].source = s
                 /\ Verified(form, msg, i)
                 /\ chain <= msg[i].expiry
                 /\ locks'[s] = [deploy |-> msg[i].deploy,
                                 createdAt |-> chain, own |-> own]
<1> DEFINE here == {i \in Places(form, "lock") : msg[i].source = s}
<1>1. locks'[s] = IF here = {} THEN locks[s]
                  ELSE [deploy |-> msg[CHOOSE i \in here : TRUE].deploy,
                        createdAt |-> chain, own |-> own]
  BY DEF CreateSourceLock
<1>2. CASE here = {}
  BY <1>1, <1>2
<1>3. CASE here # {}
  <2> DEFINE i == CHOOSE k \in here : TRUE
  <2>1. i \in here
    BY <1>3
  <2>2. Accepted(form, msg, own, i) /\ locks[s] = Unlocked
    BY <2>1 DEF CreateSourceLock, Creates
  <2>3. /\ own => msg[i] \in signed
        /\ Verified(form, msg, i)
        /\ chain <= msg[i].expiry
    BY <2>2 DEF Accepted, Unexpired, SignerMatches
  <2>4. locks'[s] = [deploy |-> msg[i].deploy, createdAt |-> chain, own |-> own]
    BY <1>1, <1>3
  <2> HIDE DEF i
  <2> QED
    BY <2>1, <2>2, <2>3, <2>4
<1> QED
  BY <1>2, <1>3

-----------------------------------------------------------------------------
LEMMA CanonicalizeStep ==
  ASSUME IInv, NEW s \in Sources, NEW d \in Deploys, Canonicalize(s, d)
  PROVE  IInv'
<1> DEFINE new == [source |-> s, deploy |-> d, expiry |-> Expiry]
<1> USE ConstantTypes DEF IInv
<1>1. signed' = signed \cup {new}
  BY DEF Canonicalize
<1>2. now \in 0 .. Horizon
  BY DEF TypeOK
<1>3. new \in Message /\ new.expiry \in Ttl .. Horizon + Ttl
  BY <1>2 DEF Message, Expiry
<1>4. new.expiry = now + Ttl /\ new.source = s
  BY DEF Expiry
<1>5. s \notin Articles => new.expiry <= Posted[s] + Fresh + Ttl
  <2>1. s \notin Articles => now - Posted[s] <= Fresh
    BY DEF Canonicalize, IsFresh
  <2> QED
    BY <2>1, <1>2, <1>4
<1> HIDE DEF new
<1>6. TypeOK'
  BY <1>1, <1>3 DEF TypeOK, Canonicalize, Near
<1>7. SignedInTime'
  BY <1>1, <1>2, <1>4, <1>5 DEF SignedInTime, Canonicalize
<1>8. LockedAsSigned'
  BY <1>1 DEF LockedAsSigned, Canonicalize
<1> QED
  BY <1>6, <1>7, <1>8

LEMMA LandStep ==
  ASSUME IInv, Land
  PROVE  IInv'
<1>0. PICK form \in Forms :
        \E msg \in [DOMAIN form -> signed \cup Unsigned], own \in BOOLEAN :
          CreateSourceLock(form, msg, own)
  BY DEF Land
<1>1. PICK msg \in [DOMAIN form -> signed \cup Unsigned], own \in BOOLEAN :
        CreateSourceLock(form, msg, own)
  BY <1>0
<1>2. TypeOK
  BY DEF IInv
<1>3. UNCHANGED <<now, chain, signed, cache>>
  BY <1>1 DEF CreateSourceLock
<1>4. TypeOK'
  <2>1. ASSUME NEW s \in Sources
        PROVE  locks'[s] \in Lock \cup {Unlocked}
    <3>1. \A m \in signed \cup Unsigned : m.deploy \in Deploys
      BY <1>2 DEF TypeOK, Message, Unsigned
    <3>2. chain \in Int /\ locks[s] \in Lock \cup {Unlocked}
      BY <1>2 DEF TypeOK
    <3>3. \/ locks'[s] = locks[s]
          \/ \E m \in signed \cup Unsigned :
               locks'[s] = [deploy |-> m.deploy, createdAt |-> chain, own |-> own]
      BY <1>1, <1>2, CreateEffect DEF Places
    <3>4. ASSUME NEW m \in signed \cup Unsigned,
                 locks'[s] = [deploy |-> m.deploy, createdAt |-> chain, own |-> own]
          PROVE  locks'[s] \in Lock
      BY <3>1, <3>2, <3>4 DEF Lock
    <3> QED
      BY <3>2, <3>3, <3>4
  <2>2. locks' = [s \in Sources |-> locks'[s]]
    BY <1>1 DEF CreateSourceLock
  <2>3. locks' \in [Sources -> Lock \cup {Unlocked}]
    BY <2>1, <2>2
  <2> QED
    BY <1>2, <1>3, <2>3 DEF TypeOK, Near
<1>5. SignedInTime'
  BY <1>3 DEF IInv, SignedInTime
<1>6. LockedAsSigned'
  <2> SUFFICES ASSUME NEW s \in Sources, locks'[s] # Unlocked, locks'[s].own
               PROVE  \E m \in signed :
                        /\ m.source = s
                        /\ m.deploy = locks'[s].deploy
                        /\ locks'[s].createdAt <= m.expiry
    BY <1>3 DEF LockedAsSigned
  <2>1. CASE locks'[s] = locks[s]
    BY <2>1 DEF IInv, LockedAsSigned
  <2>2. CASE \E i \in Places(form, "lock") :
               /\ own => msg[i] \in signed
               /\ msg[i].source = s
               /\ chain <= msg[i].expiry
               /\ locks'[s] = [deploy |-> msg[i].deploy,
                               createdAt |-> chain, own |-> own]
    BY <2>2
  <2> QED
    BY <1>1, <1>2, <2>1, <2>2, CreateEffect
<1> QED
  BY <1>4, <1>5, <1>6 DEF IInv

LEMMA ConfirmLockStep ==
  ASSUME IInv, NEW s \in Sources, NEW d \in Deploys, ConfirmLock(s, d)
  PROVE  IInv'
  BY DEF ConfirmLock, IInv, TypeOK, SignedInTime, LockedAsSigned, Near

LEMMA TickStep ==
  ASSUME IInv, ServerTick \/ ChainTick
  PROVE  IInv'
<1>1. TypeOK'
  BY ConstantTypes DEF ServerTick, ChainTick, IInv, TypeOK, Near
<1>2. SignedInTime'
  <2>1. now \in Int /\ (now' = now \/ now' = now + 1) /\ signed' = signed
    BY DEF ServerTick, ChainTick, IInv, TypeOK
  <2>2. \A m \in signed : m.expiry \in Int
    BY DEF IInv, TypeOK, Message
  <2> QED
    BY <2>1, <2>2, ConstantTypes DEF IInv, SignedInTime
<1>3. LockedAsSigned'
  BY DEF ServerTick, ChainTick, IInv, LockedAsSigned
<1> QED
  BY <1>1, <1>2, <1>3 DEF IInv

LEMMA StutterStep == IInv /\ UNCHANGED vars => IInv'
  BY DEF IInv, vars, TypeOK, SignedInTime, LockedAsSigned, Near

LEMMA NextIInv == IInv /\ [Next]_vars => IInv'
  BY CanonicalizeStep, LandStep, ConfirmLockStep, TickStep, StutterStep DEF Next

-----------------------------------------------------------------------------
\* The variables keep their types: server and chain at any speed within MaxSkew.
THEOREM TypeCorrect == Spec => []TypeOK
<1>1. IInv => TypeOK
  BY DEF IInv
<1> QED
  BY <1>1, InitIInv, NextIInv, PTL DEF Spec

\* Whatever transactions are sent to create_source_lock, a lock that comes of
\* an Ed25519 instruction about its own bytes is one the server has signed.
THEOREM LocksAreSigned == Spec => []LockedAsSigned
<1>1. IInv => LockedAsSigned
  BY DEF IInv
<1> QED
  BY <1>1, InitIInv, NextIInv, PTL DEF Spec

\* Such a lock of a tweet is made in the time the server gives it, by the
\* chain's clock.
THEOREM LocksAreFresh == Spec => []LockedWhileFresh
<1>1. IInv => LockedWhileFresh
  <2> SUFFICES ASSUME IInv, NEW s \in Sources \ Articles,
                      locks[s] # Unlocked, locks[s].own
               PROVE  locks[s].createdAt <= Posted[s] + Fresh + Ttl
    BY DEF LockedWhileFresh
  <2>1. PICK m \in signed : m.source = s /\ locks[s].createdAt <= m.expiry
    BY DEF IInv, LockedAsSigned
  <2>2. m.expiry <= Posted[s] + Fresh + Ttl
    BY <2>1 DEF IInv, SignedInTime
  <2>3. m.expiry \in Int /\ locks[s].createdAt \in Int /\ Posted[s] \in Int
    BY ConstantTypes DEF IInv, TypeOK, Message, Lock
  <2> QED
    BY <2>1, <2>2, <2>3, ConstantTypes
<1> QED
  BY <1>1, InitIInv, NextIInv, PTL DEF Spec

\* No skew up to MaxSkew makes the program refuse a signature that lasts.
THEOREM SignaturesAccepted == Spec => []SignaturesWork
<1>1. IInv => SignaturesWork
  <2> SUFFICES ASSUME IInv, NEW m \in signed, chain <= m.expiry
               PROVE  m.expiry <= chain + ChainTtl + Grace
    BY DEF SignaturesWork, Unexpired
  <2>1. m.expiry <= now + Ttl /\ now - chain <= MaxSkew
    BY DEF IInv, SignedInTime, TypeOK, Near
  <2>2. m.expiry \in Int /\ now \in Int /\ chain \in Int
    BY DEF IInv, TypeOK, Message
  <2> QED
    BY <2>1, <2>2, ConstantTypes, SkewAssumption
<1> QED
  BY <1>1, InitIInv, NextIInv, PTL DEF Spec

LEMMA LandLocksOne ==
  ASSUME IInv, Land
  PROVE  /\ \A s \in Sources : locks[s] # Unlocked => locks'[s] = locks[s]
         /\ Cardinality({s \in Sources : locks'[s] # locks[s]}) <= 1
<1> DEFINE changed == {s \in Sources : locks'[s] # locks[s]}
<1>0. PICK form \in Forms :
        \E msg \in [DOMAIN form -> signed \cup Unsigned], own \in BOOLEAN :
          CreateSourceLock(form, msg, own)
  BY DEF Land
<1>1. PICK msg \in [DOMAIN form -> signed \cup Unsigned], own \in BOOLEAN :
        CreateSourceLock(form, msg, own)
  BY <1>0
<1>2. TypeOK
  BY DEF IInv
<1>3. \A s \in Sources : locks[s] # Unlocked => locks'[s] = locks[s]
  BY <1>1, <1>2, CreateEffect
<1>4. ASSUME NEW s \in changed, NEW t \in changed
      PROVE  s = t
  <2>1. PICK i \in Places(form, "lock") :
          msg[i].source = s /\ Verified(form, msg, i)
    BY <1>1, <1>2, <1>4, CreateEffect
  <2>2. PICK j \in Places(form, "lock") :
          msg[j].source = t /\ Verified(form, msg, j)
    BY <1>1, <1>2, <1>4, CreateEffect
  <2>3. msg[i] = msg[j]
    BY <2>1, <2>2, SameMessage, FormDomain
  <2> QED
    BY <2>1, <2>2, <2>3
<1>5. CASE changed = {}
  BY <1>3, <1>5, FS_EmptySet
<1>6. CASE changed # {}
  <2>1. PICK s \in changed : TRUE
    BY <1>6
  <2>2. changed = {s}
    BY <1>4, <2>1
  <2>3. Cardinality({s}) = 1
    BY FS_Singleton
  <2>4. Cardinality(changed) <= 1
    BY <2>2, <2>3
  <2> QED
    BY <1>3, <2>4
<1> QED
  BY <1>5, <1>6

\* The first transaction wins, and locks one source at most.
THEOREM FirstWins == Spec => FirstLockWins
<1>1. ASSUME IInv, [Next]_vars
      PROVE  [/\ \A s \in Sources : locks[s] # Unlocked => locks'[s] = locks[s]
              /\ Cardinality({s \in Sources : locks'[s] # locks[s]}) <= 1]_vars
  <2>1. CASE Land
    BY <1>1, <2>1, LandLocksOne
  <2>2. CASE UNCHANGED locks
    <3>1. {s \in Sources : locks'[s] # locks[s]} = {}
      BY <2>2
    <3> QED
      BY <2>2, <3>1, FS_EmptySet
  <2> QED
    BY <1>1, <2>1, <2>2
    DEF Next, vars, Canonicalize, ConfirmLock, ServerTick, ChainTick
<1> QED
  BY <1>1, InitIInv, NextIInv, PTL DEF Spec, FirstLockWins

-----------------------------------------------------------------------------
(***************************************************************************)
(* Registries and the locks they claim.                                    *)
(***************************************************************************)
Untyped ==
  \A k \in Kinds, h \in Hashes :
    lock[k][h] # Absent => ~lock[k][h].typed /\ ~lock[k][h].active

Unprotected ==
  \A m \in Mints : Registered(m) => ~registry[m].protected

ClaimedByRegistered ==
  \A k \in Kinds, h \in Hashes : lock[k][h] # Absent => Registered(lock[k][h].mint)

RegistryInv == ProtectionTypeOK /\ Untyped /\ Unprotected /\ ClaimedByRegistered

LEMMA InitRegistryInv == ProtectionInit => RegistryInv
BY DEF ProtectionInit, RegistryInv, ProtectionTypeOK, Untyped, Unprotected, ClaimedByRegistered, Registered

\* In a state of the invariant no locks load.
LEMMA NothingLoads ==
  ASSUME RegistryInv, NEW m \in Mints
  PROVE  ~Loads(m)
<1> SUFFICES ASSUME Loads(m) PROVE FALSE
  OBVIOUS
<1>1. registry[m] \in Registry
  BY DEF RegistryInv, ProtectionTypeOK, Loads, Registered
<1>2. registry[m].hash["ticker"] \in Hashes /\ "ticker" \in Kinds
  BY <1>1 DEF Registry, HashesOf, Kinds
<1>3. lock["ticker"][registry[m].hash["ticker"]].typed
  BY <1>2 DEF Loads
<1>4. lock["ticker"][registry[m].hash["ticker"]] # Absent
  BY <1>2 DEF Loads
<1> QED
  BY <1>2, <1>3, <1>4 DEF RegistryInv, Untyped

\* A refused instruction leaves the invariant alone.
LEMMA RefusedKeeps == ASSUME RegistryInv, Refused PROVE RegistryInv'
BY DEF RegistryInv, ProtectionTypeOK, Untyped, Unprotected, ClaimedByRegistered, Registered, Refused

LEMMA CreateKeeps ==
  ASSUME RegistryInv, NEW m \in Mints, NEW hash \in HashesOf,
         create_token_registry(m, hash)
  PROVE  RegistryInv'
<1>1. CASE Registered(m) /\ Refused
  BY <1>1, RefusedKeeps
<1>2. CASE ~Registered(m)
  <2> DEFINE new == [hash |-> hash, protected |-> FALSE]
  <2>1. registry' = [registry EXCEPT ![m] = new] /\ last' = "ok" /\ lock' = lock
    BY <1>2 DEF create_token_registry
  <2>2. new \in Registry /\ new.protected = FALSE
    BY DEF Registry
  <2>3. ProtectionTypeOK'
    BY <2>1, <2>2 DEF RegistryInv, ProtectionTypeOK
  <2>4. Untyped'
    BY <2>1 DEF RegistryInv, Untyped
  <2>5. Unprotected'
    BY <2>1, <2>2 DEF RegistryInv, ProtectionTypeOK, Unprotected, Registered
  <2>6. \A n \in Mints : Registered(n) => Registered(n)'
    <3> SUFFICES ASSUME NEW n \in Mints, Registered(n) PROVE Registered(n)'
      OBVIOUS
    <3>1. n # m
      BY <1>2
    <3> QED
      BY <3>1, <2>1 DEF RegistryInv, ProtectionTypeOK, Registered
  <2>7. ClaimedByRegistered'
    <3> SUFFICES ASSUME NEW k \in Kinds, NEW h \in Hashes, lock[k][h] # Absent
                 PROVE  Registered(lock[k][h].mint)'
      BY <2>1 DEF ClaimedByRegistered, Registered
    <3>1. lock[k][h] \in LockState /\ Registered(lock[k][h].mint)
      BY DEF RegistryInv, ProtectionTypeOK, ClaimedByRegistered
    <3> QED
      BY <3>1, <2>6, <2>1 DEF LockState, Registered
  <2> QED
    BY <2>3, <2>4, <2>5, <2>7 DEF RegistryInv
<1> QED
  BY <1>1, <1>2 DEF create_token_registry

LEMMA ClaimKeeps ==
  ASSUME RegistryInv, NEW m \in Mints, NEW hash \in HashesOf, claim_locks(m, hash)
  PROVE  RegistryInv'
<1>1. CASE ~Claimable(m, hash) /\ Refused
  BY <1>1, RefusedKeeps
<1>2. CASE Claimable(m, hash) /\ last' = "ok"
  <2>1. /\ lock' = [k \in Kinds |-> [lock[k] EXCEPT ![hash[k]] = NewLock(m)]]
        /\ last' = "ok" /\ registry' = registry /\ Registered(m)
    BY <1>2 DEF claim_locks, Claimable
  <2>2. NewLock(m) \in LockState /\ NewLock(m).mint = m
        /\ ~NewLock(m).typed /\ ~NewLock(m).active
    BY DEF NewLock, LockState
  <2>3. \A k \in Kinds, h \in Hashes :
          lock'[k][h] = IF h = hash[k] THEN NewLock(m) ELSE lock[k][h]
    BY <2>1 DEF RegistryInv, ProtectionTypeOK
  <2>4. ProtectionTypeOK'
    BY <2>1, <2>2 DEF RegistryInv, ProtectionTypeOK, HashesOf
  <2>5. Untyped'
    BY <2>2, <2>3 DEF RegistryInv, Untyped
  <2>6. Unprotected'
    BY <2>1 DEF RegistryInv, Unprotected, Registered
  <2>7. ClaimedByRegistered'
    BY <2>1, <2>2, <2>3 DEF RegistryInv, ClaimedByRegistered, Registered
  <2> QED
    BY <2>4, <2>5, <2>6, <2>7 DEF RegistryInv
<1> QED
  BY <1>1, <1>2 DEF claim_locks

LEMMA SetKeeps ==
  ASSUME RegistryInv, NEW m \in Mints, NEW to \in BOOLEAN, SetProtected(m, to)
  PROVE  RegistryInv'
<1>1. Refused
  BY NothingLoads DEF SetProtected
<1> QED
  BY <1>1, RefusedKeeps

LEMMA NextKeeps == ASSUME RegistryInv, [ProtectionNext]_protectionVars PROVE RegistryInv'
<1>1. CASE UNCHANGED protectionVars
  BY <1>1 DEF RegistryInv, ProtectionTypeOK, Untyped, Unprotected, ClaimedByRegistered,
     Registered, protectionVars
<1>2. CASE ProtectionNext
  <2> PICK m \in Mints :
        \/ \E hash \in HashesOf :
             create_token_registry(m, hash) \/ claim_locks(m, hash)
        \/ activate_protection(m)
        \/ deactivate_protection(m)
    BY <1>2 DEF ProtectionNext
  <2> QED
    BY CreateKeeps, ClaimKeeps, SetKeeps
       DEF activate_protection, deactivate_protection
<1> QED
  BY <1>1, <1>2

LEMMA Invariance == ProtectionSpec => []RegistryInv
BY InitRegistryInv, NextKeeps, PTL DEF ProtectionSpec

\* The registries, the locks and the outcome of an instruction (register_token.rs)
\* always have their types.
THEOREM RegistryTypes == ProtectionSpec => []ProtectionTypeOK
<1>1. RegistryInv => ProtectionTypeOK
  BY DEF RegistryInv
<1> QED
  BY <1>1, Invariance, PTL

\* A lock is active exactly when its registry is protected (registry.rs:54), for
\* any mints and hashes: activate_protection never gets past its accounts.
THEOREM ActiveMirrorsProtected == ProtectionSpec => []ActiveAsProtected
<1>1. RegistryInv => ActiveAsProtected
  <2> SUFFICES ASSUME RegistryInv, NEW k \in Kinds, NEW h \in Hashes, lock[k][h] # Absent
               PROVE  /\ Registered(lock[k][h].mint)
                      /\ lock[k][h].active = registry[lock[k][h].mint].protected
    BY DEF ActiveAsProtected
  <2>1. lock[k][h] \in LockState /\ ~lock[k][h].active /\ Registered(lock[k][h].mint)
    BY DEF RegistryInv, ProtectionTypeOK, Untyped, ClaimedByRegistered
  <2>2. registry[lock[k][h].mint] \in Registry
        /\ ~registry[lock[k][h].mint].protected
    BY <2>1 DEF RegistryInv, ProtectionTypeOK, Unprotected, Registered, LockState
  <2> QED
    BY <2>1, <2>2 DEF LockState, Registry
<1> QED
  BY <1>1, Invariance, PTL

\* claim_locks never takes a lock that is taken: its accounts are created
\* (register_token.rs:37, first deployer wins).
THEOREM FirstClaim == ProtectionSpec => FirstClaimStays
<1>1. ASSUME RegistryInv, [ProtectionNext]_protectionVars, NEW k \in Kinds, NEW h \in Hashes, lock[k][h] # Absent
      PROVE  lock'[k][h] # Absent /\ lock'[k][h].mint = lock[k][h].mint
  <2>1. CASE lock' = lock
    BY <1>1, <2>1
  <2>2. CASE \E m \in Mints, hash \in HashesOf : Claimable(m, hash) /\ claim_locks(m, hash)
    <3> PICK m \in Mints, hash \in HashesOf : Claimable(m, hash) /\ claim_locks(m, hash)
      BY <2>2
    <3>1. h # hash[k]
      BY <1>1 DEF Claimable, Vacant
    <3>2. lock' = [j \in Kinds |-> [lock[j] EXCEPT ![hash[j]] = NewLock(m)]]
      BY SMTT(30) DEF claim_locks, Refused
    <3> QED
      BY <1>1, <3>1, <3>2 DEF RegistryInv, ProtectionTypeOK
  <2>3. lock' = lock \/ \E m \in Mints, hash \in HashesOf :
                          Claimable(m, hash) /\ claim_locks(m, hash)
    BY <1>1, NothingLoads DEF ProtectionNext, protectionVars, create_token_registry, claim_locks,
       activate_protection, deactivate_protection, SetProtected, Refused
  <2> QED
    BY <2>1, <2>2, <2>3
<1>2. RegistryInv /\ [ProtectionNext]_protectionVars =>
        [\A k \in Kinds, h \in Hashes : lock[k][h] # Absent =>
           /\ lock'[k][h] # Absent
           /\ lock'[k][h].mint = lock[k][h].mint]_protectionVars
  BY <1>1
<1> QED
  BY <1>2, Invariance, PTL DEF ProtectionSpec, FirstClaimStays

-----------------------------------------------------------------------------
\* Calls: what is sent has the form that the program asks for.

CallKinds == {"config", "tx1", "tx2", "trade", "mint", "add", "buy", "prepare",
              "botPrepare", "release", "botAta", "botRelease"}

\* A transaction of one of the senders; those that have the wallet of the
\* scripts in their accounts are signed by it.
WellSent(tx) ==
  /\ tx.kind \in CallKinds
  /\ tx.kind \in {"config", "prepare", "botPrepare"} => tx.user = Admin

SentInv ==
  /\ \A tx \in sent : WellSent(tx)
  /\ script \in {"mint", "add", "buy", "prepare", "release", "end"}

\* The instruction of its own, if no other gives its accounts more.
Formed(call, m, u) ==
  LET h == Handler(call.to, m, u)
  IN /\ h # NoHandler
     /\ ~(call.bytes < h.bytes)
     /\ ~(Len(call.metas) < Len(h.accounts))
     /\ \A i \in DOMAIN h.accounts :
          /\ h.accounts[i].at = call.metas[i][1]
          /\ h.accounts[i].needs \subseteq call.metas[i][2]
          /\ i \in DOMAIN call.metas

\* Whatever else is in its transaction, an instruction of that form fits or is
\* refused for an account that is missing or taken.
LEMMA FormedFits ==
  ASSUME NEW tx, NEW call, Formed(call, tx.mint, tx.user),
         NEW metas, Range(call.metas) \subseteq metas, NEW on
  PROVE  Verdict(tx, metas, call, on) \notin Misfit
<1> DEFINE h == Handler(call.to, tx.mint, tx.user)
<1>1. h # NoHandler /\ ~(call.bytes < h.bytes) /\ ~(Len(call.metas) < Len(h.accounts))
  BY DEF Formed
<1>2. ASSUME NEW i \in DOMAIN h.accounts
      PROVE  /\ h.accounts[i].at = call.metas[i][1]
             /\ h.accounts[i].needs \subseteq Privileges(metas, call.metas[i][1])
  <2>1. call.metas[i] \in metas
    BY DEF Formed, Range
  <2>2. call.metas[i][2] \subseteq Privileges(metas, call.metas[i][1])
    BY <2>1 DEF Privileges
  <2> QED
    BY <2>2 DEF Formed
<1> QED
  BY <1>1, <1>2 DEF Verdict, Misfit

\* An instruction whose accounts are listed one by one.
LEMMA FormedAs ==
  ASSUME NEW call, NEW m, NEW u, NEW h, h = Handler(call.to, m, u),
         Len(h.accounts) = Len(call.metas), Len(h.accounts) \in Nat,
         Len(h.accounts) > 0, DOMAIN h.accounts = DOMAIN call.metas,
         ~(call.bytes < h.bytes),
         \A i \in DOMAIN h.accounts :
           /\ h.accounts[i].at = call.metas[i][1]
           /\ h.accounts[i].needs \subseteq call.metas[i][2]
  PROVE  Formed(call, m, u)
<1>1. h # NoHandler
  BY DEF NoHandler
<1>2. ~(Len(call.metas) < Len(h.accounts))
  OBVIOUS
<1> QED
  BY <1>1, <1>2 DEF Formed

LEMMA InitializeFormed ==
  ASSUME NEW m
  PROVE  Formed(initConfig, m, Admin)
<1>1. PICK h, c : h = Handler(initConfig.to, m, Admin) /\ c = initConfig
  OBVIOUS
<1>2. h.accounts =
        <<New(Config), Credited(Global), Payer(Admin), Given(Rent),
          Given(Sys)>>
  BY <1>1 DEF initConfig, Call, Handler, Initialize
<1>3. c.metas = <<W(Config), W(Global), S(Admin), R(Rent), R(Sys)>>
  BY <1>1 DEF initConfig, Call
<1>4. ~(c.bytes < h.bytes)
  BY <1>1 DEF initConfig, Call, Handler, Initialize
<1>5. /\ DOMAIN h.accounts = 1..5 /\ DOMAIN c.metas = 1..5
      /\ Len(h.accounts) = 5 /\ Len(c.metas) = 5
  BY <1>2, <1>3
<1>6. \A i \in 1..5 : /\ h.accounts[i].at = c.metas[i][1]
                     /\ h.accounts[i].needs \subseteq c.metas[i][2]
  BY <1>2, <1>3 DEF New, Given, Credited, Payer, Entry, R, W, S
<1>7. /\ Len(h.accounts) = Len(c.metas) /\ DOMAIN h.accounts = DOMAIN c.metas
      /\ Len(h.accounts) \in Nat /\ Len(h.accounts) > 0
  BY <1>5
<1>8. \A i \in DOMAIN h.accounts : /\ h.accounts[i].at = c.metas[i][1]
                                  /\ h.accounts[i].needs \subseteq c.metas[i][2]
  BY <1>5, <1>6
<1> QED
  BY <1>1, <1>4, <1>7, <1>8, FormedAs

LEMMA CreateAccountFormed ==
  ASSUME NEW m, NEW u
  PROVE  Formed(createAccount(m, u), m, u)
<1>1. PICK h, c : h = Handler(createAccount(m, u).to, m, u) /\ c = createAccount(m, u)
  OBVIOUS
<1>2. h.accounts = <<Payer(u), New(Mint(m))>>
  BY <1>1 DEF createAccount, Call, Handler, Externals
<1>3. c.metas = <<S(u), W(Mint(m))>>
  BY <1>1 DEF createAccount, Call
<1>4. ~(c.bytes < h.bytes)
  BY <1>1 DEF createAccount, Call, Handler, Externals
<1>5. /\ DOMAIN h.accounts = 1..2 /\ DOMAIN c.metas = 1..2
      /\ Len(h.accounts) = 2 /\ Len(c.metas) = 2
  BY <1>2, <1>3
<1>6. \A i \in 1..2 : /\ h.accounts[i].at = c.metas[i][1]
                     /\ h.accounts[i].needs \subseteq c.metas[i][2]
  BY <1>2, <1>3 DEF New, Payer, Entry, W, S
<1>7. /\ Len(h.accounts) = Len(c.metas) /\ DOMAIN h.accounts = DOMAIN c.metas
      /\ Len(h.accounts) \in Nat /\ Len(h.accounts) > 0
  BY <1>5
<1>8. \A i \in DOMAIN h.accounts : /\ h.accounts[i].at = c.metas[i][1]
                                  /\ h.accounts[i].needs \subseteq c.metas[i][2]
  BY <1>5, <1>6
<1> QED
  BY <1>1, <1>4, <1>7, <1>8, FormedAs

LEMMA CreateAtaFormed ==
  ASSUME NEW m, NEW u
  PROVE  Formed(createAta(m, u), m, u)
<1>1. PICK h, c : h = Handler(createAta(m, u).to, m, u) /\ c = createAta(m, u)
  OBVIOUS
<1>2. h.accounts =
        <<Payer(u), New(Ata(m, u)), Given(Wallet(u)), Loaded(Mint(m))>>
  BY <1>1 DEF createAta, Call, Handler, Externals
<1>3. c.metas = <<S(u), W(Ata(m, u)), R(Wallet(u)), R(Mint(m))>>
  BY <1>1 DEF createAta, Call
<1>4. ~(c.bytes < h.bytes)
  BY <1>1 DEF createAta, Call, Handler, Externals
<1>5. /\ DOMAIN h.accounts = 1..4 /\ DOMAIN c.metas = 1..4
      /\ Len(h.accounts) = 4 /\ Len(c.metas) = 4
  BY <1>2, <1>3
<1>6. \A i \in 1..4 : /\ h.accounts[i].at = c.metas[i][1]
                     /\ h.accounts[i].needs \subseteq c.metas[i][2]
  BY <1>2, <1>3 DEF New, Loaded, Given, Payer, Entry, R, W, S
<1>7. /\ Len(h.accounts) = Len(c.metas) /\ DOMAIN h.accounts = DOMAIN c.metas
      /\ Len(h.accounts) \in Nat /\ Len(h.accounts) > 0
  BY <1>5
<1>8. \A i \in DOMAIN h.accounts : /\ h.accounts[i].at = c.metas[i][1]
                                  /\ h.accounts[i].needs \subseteq c.metas[i][2]
  BY <1>5, <1>6
<1> QED
  BY <1>1, <1>4, <1>7, <1>8, FormedAs

LEMMA CreateRegistryFormed ==
  ASSUME NEW m, NEW u
  PROVE  Formed(createRegistry(m, u), m, u)
<1>1. PICK h, c : h = Handler(createRegistry(m, u).to, m, u) /\ c = createRegistry(m, u)
  OBVIOUS
<1>2. h.accounts =
        <<New(RegistryAt(m)), Credited(Mint(m)), Payer(u), Given(Sys)>>
  BY <1>1 DEF createRegistry, Call, Handler, CreateTokenRegistry
<1>3. c.metas = <<W(RegistryAt(m)), W(Mint(m)), S(u), R(Sys)>>
  BY <1>1 DEF createRegistry, Call
<1>4. ~(c.bytes < h.bytes)
  BY <1>1 DEF createRegistry, Call, Handler, CreateTokenRegistry
<1>5. /\ DOMAIN h.accounts = 1..4 /\ DOMAIN c.metas = 1..4
      /\ Len(h.accounts) = 4 /\ Len(c.metas) = 4
  BY <1>2, <1>3
<1>6. \A i \in 1..4 : /\ h.accounts[i].at = c.metas[i][1]
                     /\ h.accounts[i].needs \subseteq c.metas[i][2]
  BY <1>2, <1>3 DEF New, Given, Credited, Payer, Entry, R, W, S
<1>7. /\ Len(h.accounts) = Len(c.metas) /\ DOMAIN h.accounts = DOMAIN c.metas
      /\ Len(h.accounts) \in Nat /\ Len(h.accounts) > 0
  BY <1>5
<1>8. \A i \in DOMAIN h.accounts : /\ h.accounts[i].at = c.metas[i][1]
                                  /\ h.accounts[i].needs \subseteq c.metas[i][2]
  BY <1>5, <1>6
<1> QED
  BY <1>1, <1>4, <1>7, <1>8, FormedAs

LEMMA AddLiquidityFormed ==
  ASSUME NEW m, NEW u
  PROVE  Formed(addLiquidity(m, u), m, u)
<1>1. PICK h, c : h = Handler(addLiquidity(m, u).to, m, u) /\ c = addLiquidity(m, u)
  OBVIOUS
<1>2. h.accounts =
        <<New(Pool(m)), Credited(Global), Ensured(Provider(m, u)),
          Changed(Mint(m)), New(Ata(m, Global)), Changed(Ata(m, u)),
          Payer(u), Given(Sys), Given(Tok), Given(AtaProg)>>
  BY <1>1 DEF addLiquidity, Call, Handler, AddLiquidity
<1>3. c.metas =
        <<W(Pool(m)), W(Global), W(Provider(m, u)), W(Mint(m)), W(Ata(m,
          Global)), W(Ata(m, u)), S(u), R(Sys), R(Tok), R(AtaProg)>>
  BY <1>1 DEF addLiquidity, Call
<1>4. ~(c.bytes < h.bytes)
  BY <1>1 DEF addLiquidity, Call, Handler, AddLiquidity
<1>5. /\ DOMAIN h.accounts = 1..10 /\ DOMAIN c.metas = 1..10
      /\ Len(h.accounts) = 10 /\ Len(c.metas) = 10
  BY <1>2, <1>3
<1>6. \A i \in 1..10 : /\ h.accounts[i].at = c.metas[i][1]
                      /\ h.accounts[i].needs \subseteq c.metas[i][2]
  BY <1>2, <1>3 DEF New, Ensured, Changed, Given, Credited, Payer, Entry, R, W, S
<1>7. /\ Len(h.accounts) = Len(c.metas) /\ DOMAIN h.accounts = DOMAIN c.metas
      /\ Len(h.accounts) \in Nat /\ Len(h.accounts) > 0
  BY <1>5
<1>8. \A i \in DOMAIN h.accounts : /\ h.accounts[i].at = c.metas[i][1]
                                  /\ h.accounts[i].needs \subseteq c.metas[i][2]
  BY <1>5, <1>6
<1> QED
  BY <1>1, <1>4, <1>7, <1>8, FormedAs

LEMMA ClaimLocksFormed ==
  ASSUME NEW m, NEW u
  PROVE  Formed(claimLocks(m, u), m, u)
<1>1. PICK h, c : h = Handler(claimLocks(m, u).to, m, u) /\ c = claimLocks(m, u)
  OBVIOUS
<1>2. h.accounts =
        <<Loaded(RegistryAt(m)), New(LockAt("ticker", m)),
          New(LockAt("image", m)), New(LockAt("identity", m)), Payer(u),
          Given(Sys)>>
  BY <1>1 DEF claimLocks, Call, Handler, ClaimLocks
<1>3. c.metas =
        <<R(RegistryAt(m)), W(LockAt("ticker", m)), W(LockAt("image", m)),
          W(LockAt("identity", m)), S(u), R(Sys)>>
  BY <1>1 DEF claimLocks, Call
<1>4. ~(c.bytes < h.bytes)
  BY <1>1 DEF claimLocks, Call, Handler, ClaimLocks
<1>5. /\ DOMAIN h.accounts = 1..6 /\ DOMAIN c.metas = 1..6
      /\ Len(h.accounts) = 6 /\ Len(c.metas) = 6
  BY <1>2, <1>3
<1>6. \A i \in 1..6 : /\ h.accounts[i].at = c.metas[i][1]
                     /\ h.accounts[i].needs \subseteq c.metas[i][2]
  BY <1>2, <1>3 DEF New, Loaded, Given, Payer, Entry, R, W, S
<1>7. /\ Len(h.accounts) = Len(c.metas) /\ DOMAIN h.accounts = DOMAIN c.metas
      /\ Len(h.accounts) \in Nat /\ Len(h.accounts) > 0
  BY <1>5
<1>8. \A i \in DOMAIN h.accounts : /\ h.accounts[i].at = c.metas[i][1]
                                  /\ h.accounts[i].needs \subseteq c.metas[i][2]
  BY <1>5, <1>6
<1> QED
  BY <1>1, <1>4, <1>7, <1>8, FormedAs

\* A swap with the least amount of the browser is longer than one without.
LEMMA SwapFormed ==
  ASSUME NEW m, NEW u, NEW bytes, bytes \in {16, 24}
  PROVE  Formed(swap(m, u, bytes), m, u)
<1>1. PICK h, c : h = Handler(swap(m, u, bytes).to, m, u) /\ c = swap(m, u, bytes)
  OBVIOUS
<1>2. h.accounts =
        <<Changed(Config), Changed(Pool(m)), Credited(Global),
          Changed(Mint(m)), Changed(Ata(m, Global)), Changed(Ata(m, u)),
          Payer(u), Given(Rent), Given(Sys), Given(Tok), Given(AtaProg)>>
  BY <1>1 DEF swap, Call, Handler, Swap
<1>3. c.metas =
        <<W(Config), W(Pool(m)), W(Global), W(Mint(m)), W(Ata(m, Global)),
          W(Ata(m, u)), S(u), R(Rent), R(Sys), R(Tok), R(AtaProg)>>
  BY <1>1 DEF swap, Call
<1>4. ~(c.bytes < h.bytes)
  BY <1>1 DEF swap, Call, Handler, Swap
<1>5. /\ DOMAIN h.accounts = 1..11 /\ DOMAIN c.metas = 1..11
      /\ Len(h.accounts) = 11 /\ Len(c.metas) = 11
  BY <1>2, <1>3
<1>6. \A i \in 1..11 : /\ h.accounts[i].at = c.metas[i][1]
                      /\ h.accounts[i].needs \subseteq c.metas[i][2]
  BY <1>2, <1>3 DEF Changed, Given, Credited, Payer, Entry, R, W, S
<1>7. /\ Len(h.accounts) = Len(c.metas) /\ DOMAIN h.accounts = DOMAIN c.metas
      /\ Len(h.accounts) \in Nat /\ Len(h.accounts) > 0
  BY <1>5
<1>8. \A i \in DOMAIN h.accounts : /\ h.accounts[i].at = c.metas[i][1]
                                  /\ h.accounts[i].needs \subseteq c.metas[i][2]
  BY <1>5, <1>6
<1> QED
  BY <1>1, <1>4, <1>7, <1>8, FormedAs

LEMMA PrepareFormed ==
  ASSUME NEW m
  PROVE  Formed(prepare(m), m, Admin)
<1>1. PICK h, c : h = Handler(prepare(m).to, m, Admin) /\ c = prepare(m)
  OBVIOUS
<1>2. h.accounts =
        <<Changed(Pool(m)), Credited(Global), Loaded(Config),
          Credited(Escrow(m)), Changed(Ata(m, Global)), Ensured(Ata(m,
          Escrow(m))), Changed(Mint(m)), Credited(Wallet(Admin)),
          Credited(Wallet(Admin)), Credited(Wallet(Admin)), Payer(Admin),
          Given(Tok), Given(AtaProg), Given(Sys)>>
  BY <1>1 DEF prepare, Call, Handler, PrepareMigration
<1>3. c.metas =
        <<W(Pool(m)), W(Global), R(Config), W(Escrow(m)), W(Ata(m, Global)),
          W(Ata(m, Escrow(m))), W(Mint(m)), W(Wallet(Admin)),
          W(Wallet(Admin)), W(Wallet(Admin)), S(Admin), R(Tok), R(AtaProg),
          R(Sys)>>
  BY <1>1 DEF prepare, Call
<1>4. ~(c.bytes < h.bytes)
  BY <1>1 DEF prepare, Call, Handler, PrepareMigration
<1>5. /\ DOMAIN h.accounts = 1..14 /\ DOMAIN c.metas = 1..14
      /\ Len(h.accounts) = 14 /\ Len(c.metas) = 14
  BY <1>2, <1>3
<1>6. \A i \in 1..14 : /\ h.accounts[i].at = c.metas[i][1]
                      /\ h.accounts[i].needs \subseteq c.metas[i][2]
  BY <1>2, <1>3 DEF Ensured, Loaded, Changed, Given, Credited, Payer, Entry, R, W, S
<1>7. /\ Len(h.accounts) = Len(c.metas) /\ DOMAIN h.accounts = DOMAIN c.metas
      /\ Len(h.accounts) \in Nat /\ Len(h.accounts) > 0
  BY <1>5
<1>8. \A i \in DOMAIN h.accounts : /\ h.accounts[i].at = c.metas[i][1]
                                  /\ h.accounts[i].needs \subseteq c.metas[i][2]
  BY <1>5, <1>6
<1> QED
  BY <1>1, <1>4, <1>7, <1>8, FormedAs

LEMMA ReleaseFormed ==
  ASSUME NEW m, NEW u
  PROVE  Formed(release(m), m, u)
<1>1. PICK h, c : h = Handler(release(m).to, m, u) /\ c = release(m)
  OBVIOUS
<1>2. h.accounts =
        <<Loaded(Pool(m)), Loaded(Config), Credited(Escrow(m)),
          Changed(Ata(m, Escrow(m))), Changed(Ata(m, Admin)),
          Changed(Mint(m)), Payer(Admin), Given(Tok), Given(Sys)>>
  BY <1>1 DEF release, Call, Handler, ReleaseEscrow
<1>3. c.metas =
        <<R(Pool(m)), R(Config), W(Escrow(m)), W(Ata(m, Escrow(m))), W(Ata(m,
          Admin)), W(Mint(m)), S(Admin), R(Tok), R(Sys)>>
  BY <1>1 DEF release, Call
<1>4. ~(c.bytes < h.bytes)
  BY <1>1 DEF release, Call, Handler, ReleaseEscrow
<1>5. /\ DOMAIN h.accounts = 1..9 /\ DOMAIN c.metas = 1..9
      /\ Len(h.accounts) = 9 /\ Len(c.metas) = 9
  BY <1>2, <1>3
<1>6. \A i \in 1..9 : /\ h.accounts[i].at = c.metas[i][1]
                     /\ h.accounts[i].needs \subseteq c.metas[i][2]
  BY <1>2, <1>3 DEF Loaded, Changed, Given, Credited, Payer, Entry, R, W, S
<1>7. /\ Len(h.accounts) = Len(c.metas) /\ DOMAIN h.accounts = DOMAIN c.metas
      /\ Len(h.accounts) \in Nat /\ Len(h.accounts) > 0
  BY <1>5
<1>8. \A i \in DOMAIN h.accounts : /\ h.accounts[i].at = c.metas[i][1]
                                  /\ h.accounts[i].needs \subseteq c.metas[i][2]
  BY <1>5, <1>6
<1> QED
  BY <1>1, <1>4, <1>7, <1>8, FormedAs

-----------------------------------------------------------------------------
\* The instructions that have the form, of a user about a mint.
FormedCalls(m, u) ==
  {createAccount(m, u), createAta(m, u), createRegistry(m, u),
   addLiquidity(m, u), claimLocks(m, u), swap(m, u, 16), swap(m, u, 24),
   release(m)}
  \cup (IF u = Admin THEN {initConfig, prepare(m)} ELSE {})

LEMMA AllFormed ==
  ASSUME NEW m, NEW u, NEW call \in FormedCalls(m, u)
  PROVE  Formed(call, m, u)
<1>1. Formed(swap(m, u, 16), m, u) /\ Formed(swap(m, u, 24), m, u)
  BY SwapFormed
<1>2. CASE call \in {initConfig, prepare(m)} /\ u = Admin
  BY <1>2, InitializeFormed, PrepareFormed
<1>3. CASE call \in {createAccount(m, u), createAta(m, u), createRegistry(m, u),
                     addLiquidity(m, u), claimLocks(m, u), release(m)}
  BY <1>3, CreateAccountFormed, CreateAtaFormed, CreateRegistryFormed,
     AddLiquidityFormed, ClaimLocksFormed, ReleaseFormed
<1> QED
  BY <1>1, <1>2, <1>3 DEF FormedCalls

\* What is sent, but for the source lock and the bot's release.
LEMMA SentFormed ==
  ASSUME NEW tx, WellSent(tx), tx.kind # "botRelease",
         ~(tx.kind = "tx2" /\ "source" \in tx.parts)
  PROVE  Calls(tx) \in Seq(FormedCalls(tx.mint, tx.user))
<1>1. PICK m, u, P : m = tx.mint /\ u = tx.user /\ P = FormedCalls(m, u)
  OBVIOUS
<1>2. /\ createAccount(m, u) \in P /\ createAta(m, u) \in P
      /\ createRegistry(m, u) \in P /\ addLiquidity(m, u) \in P
      /\ claimLocks(m, u) \in P /\ swap(m, u, 16) \in P /\ swap(m, u, 24) \in P
      /\ release(m) \in P
      /\ u = Admin => initConfig \in P /\ prepare(m) \in P
  BY <1>1 DEF FormedCalls
<1>3. \A call \in P : /\ Mentions("locks", tx, call) \in Seq(P)
                      /\ Mentions("ata", tx, call) \in Seq(P)
                      /\ <<call>> \in Seq(P)
  BY DEF Mentions
<1>4. CASE tx.kind = "config"
  <2>1. Calls(tx) = <<initConfig>>
    BY <1>4 DEF Calls
  <2> QED
    BY <1>1, <1>2, <1>4, <2>1 DEF WellSent
<1>5. CASE tx.kind = "tx1"
  <2>1. Calls(tx) = <<createAccount(m, u), createAta(m, u), createRegistry(m, u)>>
    BY <1>1, <1>5 DEF Calls
  <2> QED
    BY <1>1, <1>2, <2>1
<1>6. CASE tx.kind = "tx2"
  <2>1. Calls(tx) = <<addLiquidity(m, u)>>
                      \o Mentions("locks", tx, claimLocks(m, u))
                      \o Mentions("source", tx, createSourceLock(m, u))
    BY <1>1, <1>6 DEF Calls
  <2>2. Mentions("source", tx, createSourceLock(m, u)) \in Seq(P)
    BY <1>6 DEF Mentions
  <2>3. <<addLiquidity(m, u)>> \in Seq(P)
        /\ Mentions("locks", tx, claimLocks(m, u)) \in Seq(P)
    BY <1>2, <1>3
  <2> QED
    BY <1>1, <2>1, <2>2, <2>3
<1>7. CASE tx.kind = "trade"
  <2>1. Calls(tx) = Mentions("ata", tx, createAta(m, u)) \o <<swap(m, u, 24)>>
    BY <1>1, <1>7 DEF Calls
  <2>2. Mentions("ata", tx, createAta(m, u)) \in Seq(P) /\ <<swap(m, u, 24)>> \in Seq(P)
    BY <1>2, <1>3
  <2> QED
    BY <1>1, <2>1, <2>2
<1>8. CASE tx.kind = "mint"
  <2>1. Calls(tx) = <<createAccount(m, u), createAta(m, u)>>
    BY <1>1, <1>8 DEF Calls
  <2> QED
    BY <1>1, <1>2, <2>1
<1>9. CASE tx.kind \in {"prepare", "botPrepare"}
  <2>1. Calls(tx) = <<prepare(m)>>
    BY <1>1, <1>9 DEF Calls
  <2> QED
    BY <1>1, <1>2, <1>9, <2>1 DEF WellSent
<1>10. CASE tx.kind \in {"add", "buy", "release", "botAta"}
  <2>1. \/ Calls(tx) = <<addLiquidity(m, u)>> \/ Calls(tx) = <<swap(m, u, 16)>>
        \/ Calls(tx) = <<release(m)>> \/ Calls(tx) = <<createAta(m, u)>>
    BY <1>1, <1>10 DEF Calls
  <2>2. /\ <<addLiquidity(m, u)>> \in Seq(P) /\ <<swap(m, u, 16)>> \in Seq(P)
        /\ <<release(m)>> \in Seq(P) /\ <<createAta(m, u)>> \in Seq(P)
    BY <1>2, <1>3
  <2> QED
    BY <1>1, <2>1, <2>2
<1> QED
  BY <1>4, <1>5, <1>6, <1>7, <1>8, <1>9, <1>10 DEF WellSent, CallKinds

-----------------------------------------------------------------------------
\* The calls of a transaction one after another: FoldLeft by the last of the
\* calls that are left.
Runs(iter, tx, metas, start, calls, T) ==
  iter = [s \in SUBSET T |->
            IF s = {} THEN start
            ELSE Follow(tx, metas, iter[s \ {Max(s)}], calls[Max(s)])]

LEMMA RunsAgree ==
  ASSUME NEW X \in SUBSET Int, IsFiniteSet(X), NEW tx, NEW metas, NEW start,
         NEW calls, NEW T \in SUBSET X, NEW V \in SUBSET X, NEW g, NEW h,
         Runs(g, tx, metas, start, calls, T), Runs(h, tx, metas, start, calls, V)
  PROVE  \A s \in SUBSET X : s \subseteq T /\ s \subseteq V => g[s] = h[s]
<1> DEFINE G == {s \in SUBSET X : s \subseteq T /\ s \subseteq V => g[s] = h[s]}
<1>1. ASSUME NEW s \in SUBSET X, \A u \in SUBSET s : u # s => u \in G,
             s \subseteq T, s \subseteq V
      PROVE  g[s] = h[s]
  <2>1. CASE s = {}
    BY <1>1, <2>1 DEF Runs
  <2>2. CASE s # {}
    <3>1. /\ g[s] = Follow(tx, metas, g[s \ {Max(s)}], calls[Max(s)])
          /\ h[s] = Follow(tx, metas, h[s \ {Max(s)}], calls[Max(s)])
      BY <1>1, <2>2 DEF Runs
    <3>2. s \ {Max(s)} \in G
      BY <1>1, <2>2, LastIn
    <3> QED
      BY <1>1, <3>1, <3>2
  <2> QED
    BY <2>1, <2>2
<1>2. \A s \in SUBSET X : (\A u \in SUBSET s : u # s => u \in G) => s \in G
  BY <1>1
<1> HIDE DEF G
<1>3. \A s \in SUBSET X : s \in G
  BY <1>2, SubsetInduction
<1> QED
  BY <1>3 DEF G

LEMMA RunsStep ==
  ASSUME NEW X \in SUBSET Int, IsFiniteSet(X), NEW tx, NEW metas, NEW start,
         NEW calls, NEW U \in SUBSET X, NEW g, NEW h,
         Runs(g, tx, metas, start, calls, U),
         U # {} => Runs(h, tx, metas, start, calls, U \ {Max(U)})
  PROVE  g[U] = IF U = {} THEN start
                ELSE Follow(tx, metas, h[U \ {Max(U)}], calls[Max(U)])
<1>1. CASE U = {}
  BY <1>1 DEF Runs
<1>2. CASE U # {}
  <2>1. PICK u : u = U \ {Max(U)}
    OBVIOUS
  <2>2. u \in SUBSET X /\ u \subseteq U
    BY <2>1
  <2>3. g[u] = h[u]
    BY <1>2, <2>1, <2>2, RunsAgree
  <2>4. g[U] = Follow(tx, metas, g[u], calls[Max(U)])
    BY <1>2, <2>1 DEF Runs
  <2> QED
    BY <1>2, <2>1, <2>3, <2>4
<1> QED
  BY <1>1, <1>2

LEMMA RunsExist ==
  ASSUME NEW X \in SUBSET Int, IsFiniteSet(X), NEW tx, NEW metas, NEW start,
         NEW calls
  PROVE  \E g : Runs(g, tx, metas, start, calls, X)
<1> DEFINE G == {T \in SUBSET X : \E g : Runs(g, tx, metas, start, calls, T)}
<1>1. ASSUME NEW T \in SUBSET X, \A U \in SUBSET T : U # T => U \in G
      PROVE  \E g : Runs(g, tx, metas, start, calls, T)
  <2>1. PICK of : of = [U \in SUBSET T |->
                          CHOOSE g : Runs(g, tx, metas, start, calls, U)]
    OBVIOUS
  <2>2. \A U \in SUBSET T : U # T => Runs(of[U], tx, metas, start, calls, U)
    BY <1>1, <2>1
  <2>3. PICK all : all = [s \in SUBSET T |->
            IF s = {} THEN start
            ELSE Follow(tx, metas, of[s \ {Max(s)}][s \ {Max(s)}], calls[Max(s)])]
    OBVIOUS
  <2>4. ASSUME NEW U \in SUBSET T, U # T
        PROVE  all[U] = of[U][U]
    <3>1. U # {} => Runs(of[U \ {Max(U)}], tx, metas, start, calls, U \ {Max(U)})
      <4>1. U # {} => U \ {Max(U)} \in SUBSET T /\ U \ {Max(U)} # T
        BY LastIn
      <4> QED
        BY <4>1, <2>2
    <3>2. U \in SUBSET X /\ Runs(of[U], tx, metas, start, calls, U)
      BY <2>2, <2>4
    <3>3. of[U][U] =
            IF U = {} THEN start
            ELSE Follow(tx, metas, of[U \ {Max(U)}][U \ {Max(U)}], calls[Max(U)])
      BY <3>1, <3>2, RunsStep
    <3>4. all[U] =
            IF U = {} THEN start
            ELSE Follow(tx, metas, of[U \ {Max(U)}][U \ {Max(U)}], calls[Max(U)])
      BY <2>3
    <3> QED
      BY <3>3, <3>4
  <2>5. ASSUME NEW s \in SUBSET T, s # {}
        PROVE  all[s \ {Max(s)}] = of[s \ {Max(s)}][s \ {Max(s)}]
    <3>1. s \ {Max(s)} \in SUBSET T /\ s \ {Max(s)} # T
      BY <2>5, LastIn
    <3> QED
      BY <3>1, <2>4
  <2>6. all = [s \in SUBSET T |->
                 IF s = {} THEN start
                 ELSE Follow(tx, metas, all[s \ {Max(s)}], calls[Max(s)])]
    BY <2>3, <2>5
  <2> QED
    BY <2>6 DEF Runs
<1>2. \A T \in SUBSET X : (\A U \in SUBSET T : U # T => U \in G) => T \in G
  BY <1>1
<1> HIDE DEF G
<1>3. X \in G
  BY <1>2, SubsetInduction
<1> QED
  BY <1>3 DEF G

LEMMA ExecuteRuns ==
  ASSUME NEW tx, NEW n \in Nat, DOMAIN Calls(tx) = 1..n, NEW start,
         start = [verdict |-> "fits", on |-> existing]
  PROVE  \E iter : /\ Runs(iter, tx, MetasOf(Calls(tx)), start, Calls(tx), 1..n)
                   /\ Execute(tx) = iter[1..n]
<1> DEFINE the ==
      CHOOSE iter : Runs(iter, tx, MetasOf(Calls(tx)), start, Calls(tx), 1..n)
<1>1. Runs(the, tx, MetasOf(Calls(tx)), start, Calls(tx), 1..n)
  <2>1. PICK X : X = 1..n
    OBVIOUS
  <2>2. X \in SUBSET Int /\ IsFiniteSet(X)
    BY <2>1, FirstAreFinite
  <2>3. \E g : Runs(g, tx, MetasOf(Calls(tx)), start, Calls(tx), X)
    BY <2>2, RunsExist
  <2> QED
    BY <2>1, <2>3
<1>2. Execute(tx) = the[1..n]
  BY DEF Execute, FoldLeft, MapThenFoldSet, Runs
<1> QED
  BY <1>1, <1>2

\* No call that has the form spoils a transaction, after whatever others.
LEMMA ExecuteFits ==
  ASSUME NEW tx, Calls(tx) \in Seq(FormedCalls(tx.mint, tx.user))
  PROVE  Execute(tx).verdict \notin Misfit
<1>1. PICK calls, metas, n, X, start :
        /\ calls = Calls(tx) /\ metas = MetasOf(Calls(tx))
        /\ n = Len(calls) /\ X = 1..n
        /\ start = [verdict |-> "fits", on |-> existing]
  OBVIOUS
<1>2. n \in Nat /\ DOMAIN calls = X
  BY <1>1
<1>3. X \in SUBSET Int /\ IsFiniteSet(X)
  BY <1>1, <1>2, FirstAreFinite
<1>4. PICK iter : Runs(iter, tx, metas, start, calls, X) /\ Execute(tx) = iter[X]
  BY <1>1, <1>2, ExecuteRuns
<1>5. ASSUME NEW i \in X, NEW on
      PROVE  Verdict(tx, metas, calls[i], on) \notin Misfit
  <2>1. calls[i] \in FormedCalls(tx.mint, tx.user) /\ calls[i] \in Range(calls)
    BY <1>1, <1>2 DEF Range
  <2>2. Range(calls[i].metas) \subseteq metas
    BY <1>1, <2>1 DEF MetasOf
  <2>3. Formed(calls[i], tx.mint, tx.user)
    BY <2>1, AllFormed
  <2> QED
    BY <2>2, <2>3, FormedFits
<1> DEFINE Fine(run) == /\ run = [verdict |-> run.verdict, on |-> run.on]
                        /\ run.verdict \notin Misfit
<1> DEFINE G == {T \in SUBSET X : Fine(iter[T])}
<1>6. ASSUME NEW run, Fine(run), NEW i \in X
      PROVE  Fine(Follow(tx, metas, run, calls[i]))
  <2>1. PICK verdict : verdict = Verdict(tx, metas, calls[i], run.on)
    OBVIOUS
  <2>2. verdict \notin Misfit
    BY <1>5, <2>1
  <2>3. Follow(tx, metas, run, calls[i]) \in
          {run, [run EXCEPT !.verdict = verdict],
           [run EXCEPT !.on = @ \cup Makes(tx, calls[i])]}
    BY <2>1 DEF Follow
  <2>4. PICK v, on : run = [verdict |-> v, on |-> on]
    BY <1>6
  <2> QED
    BY <1>6, <2>2, <2>3, <2>4
<1>7. ASSUME NEW T \in SUBSET X, \A U \in SUBSET T : U # T => U \in G
      PROVE  T \in G
  <2>1. CASE T = {}
    <3>1. iter[T] = start
      BY <1>4, <2>1 DEF Runs
    <3>2. iter[T] = [verdict |-> "fits", on |-> existing]
      BY <1>1, <3>1
    <3>3. Fine(iter[T])
      BY <3>2 DEF Misfit
    <3> QED
      BY <3>3
  <2>2. CASE T # {}
    <3>1. Max(T) \in T
      BY <1>3, <2>2, LastIn
    <3>2. iter[T] = Follow(tx, metas, iter[T \ {Max(T)}], calls[Max(T)])
      BY <1>4, <2>2 DEF Runs
    <3>3. T \ {Max(T)} \in G
      BY <1>7, <3>1
    <3>4. Fine(iter[T \ {Max(T)}])
      BY <3>3
    <3> QED
      BY <1>6, <3>1, <3>2, <3>4
  <2> QED
    BY <2>1, <2>2
<1> HIDE DEF G
<1>8. X \in G
  BY <1>3, <1>7, SubsetInduction
<1> QED
  BY <1>4, <1>8 DEF G

-----------------------------------------------------------------------------
LEMMA SentInits == CallsInit => SentInv
  BY DEF CallsInit, SentInv

\* Each sender sends a transaction of its own kinds.
LEMMA SentSteps ==
  ASSUME SentInv, [CallsNext]_callVars
  PROVE  SentInv'
<1>1. CASE UNCHANGED callVars
  BY <1>1 DEF callVars, SentInv, WellSent
<1>2. CASE InitConfig
  BY <1>2 DEF InitConfig, Sends, Tx, SentInv, WellSent, CallKinds
<1>3. ASSUME NEW m \in Deployed, DeployMint(m) \/ DeployPool(m)
      PROVE  SentInv'
  BY <1>3 DEF DeployMint, DeployPool, Sends, Tx, SentInv, WellSent, CallKinds
<1>4. ASSUME NEW m \in AllMints, NEW u \in Users, Trade(m, u)
      PROVE  SentInv'
  BY <1>4 DEF Trade, Sends, Tx, SentInv, WellSent, CallKinds
<1>5. CASE RunScript
  BY <1>5 DEF RunScript, Sends, Tx, SentInv, WellSent, CallKinds
<1>6. ASSUME NEW m \in AllMints, BotPrepare(m)
      PROVE  SentInv'
  BY <1>6 DEF BotPrepare, Sends, Tx, SentInv, WellSent, CallKinds
<1>7. CASE step2_releaseEscrow
  BY <1>7 DEF step2_releaseEscrow, Sends, Tx, SentInv, WellSent, CallKinds
<1>8. ASSUME NEW tx \in sent, Lands(tx) \/ Fail(tx)
      PROVE  SentInv'
  <2>1. sent' \subseteq sent
    BY <1>8 DEF Lands, Fail
  <2>2. PICK ok : script' \in ScriptGoes(tx.kind, ok)
    BY <1>8 DEF Lands, Fail, Learn
  <2>3. script' \in {"mint", "add", "buy", "prepare", "release", "end"}
    BY <2>2 DEF ScriptGoes, SentInv
  <2> QED
    BY <2>1, <2>3 DEF SentInv
<1> QED
  BY <1>1, <1>2, <1>3, <1>4, <1>5, <1>6, <1>7, <1>8 DEF CallsNext

\* What the browser, the bot, the script and the test send has the form that
\* the program asks for, at every moment of its way and with whatever accounts
\* there are then: only a source lock has no handler, and only the bot's
\* release lacks an account.
THEOREM CallsHaveTheForm == CallsSpec => []CallsFit
<1>1. SentInv => CallsFit
  <2>1. ASSUME SentInv, NEW tx \in sent, tx.kind # "botRelease",
               ~(tx.kind = "tx2" /\ "source" \in tx.parts)
        PROVE  Execute(tx).verdict \notin Misfit
    BY <2>1, SentFormed, ExecuteFits DEF SentInv
  <2> QED
    BY <2>1 DEF CallsFit
<1> QED
  BY <1>1, SentInits, SentSteps, PTL DEF CallsSpec
=============================================================================
