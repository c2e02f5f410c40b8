----------------------------- MODULE Protection ------------------------------
(***************************************************************************)
(* The registry and the locks of the program, instruction by instruction:  *)
(* whoever sends them, in any order, with any hashes.  Deploy has them as  *)
(* the browser uses them; here are also the keeper's two.                  *)
(*                                                                         *)
(* A lock is an account at an address made of its kind and hash.           *)
(* claim_locks creates it as plain bytes and fills in all but the first    *)
(* eight, the discriminator by which the program later knows the type.     *)
(* Timestamps are left out: nothing reads them.                            *)
(***************************************************************************)
EXTENDS FiniteSets

CONSTANTS
  Mints,
  Hashes,
  Absent     \* no registry, no lock

Kinds == {"ticker", "image", "identity"}

ASSUME ProtectionAssumption == Absent \notin Mints

HashesOf == [Kinds -> Hashes]

VARIABLES
  registry,   \* of each mint: its hashes and protected
  lock,       \* of each kind and hash: the mint of its registry, active, typed
  last        \* whether the last instruction went through

protectionVars == <<registry, lock, last>>

ProtectionInit ==
  /\ registry = [m \in Mints |-> Absent]
  /\ lock = [k \in Kinds |-> [h \in Hashes |-> Absent]]
  /\ last = "ok"

Registered(m) == registry[m] # Absent

Refused ==
  /\ last' = "refused"
  /\ UNCHANGED <<registry, lock>>

-----------------------------------------------------------------------------
\* init: one registry for a mint.
create_token_registry(m, hash) ==
  \/ /\ ~Registered(m)
     /\ registry' = [registry EXCEPT ![m] = [hash |-> hash, protected |-> FALSE]]
     /\ last' = "ok"
     /\ UNCHANGED lock
  \/ Registered(m) /\ Refused

Vacant_OfOthers(m, hash) == TRUE

\* init: none of the three addresses is taken.
Vacant(m, hash) == \A k \in Kinds : lock[k][hash[k]] = Absent

NewLock(m) == [mint |-> m, active |-> FALSE, typed |-> FALSE]

Claimable(m, hash) == Registered(m) /\ Vacant(m, hash)

\* The hashes are arguments and need not be those of the registry.
claim_locks(m, hash) ==
  \/ /\ Claimable(m, hash)
     /\ lock' = [k \in Kinds |-> [lock[k] EXCEPT ![hash[k]] = NewLock(m)]]
     /\ last' = "ok"
     /\ UNCHANGED registry
  \/ ~Claimable(m, hash) /\ Refused

\* The locks at the hashes of the registry, whoever's they are; an account
\* without the discriminator is refused.
Loads(m) ==
  /\ Registered(m)
  /\ \A k \in Kinds : LET l == lock[k][registry[m].hash[k]] IN
       l # Absent /\ l.typed

SetProtected(m, to) ==
  IF Loads(m)
  THEN /\ registry' = [registry EXCEPT ![m].protected = to]
       /\ lock' = [k \in Kinds |->
                     [lock[k] EXCEPT ![registry[m].hash[k]].active = to]]
       /\ last' = "ok"
  ELSE Refused

\* By the protocol wallet, which is the keeper's.
activate_protection(m) == SetProtected(m, TRUE)

deactivate_protection(m) == SetProtected(m, FALSE)

ProtectionNext ==
  \E m \in Mints :
    \/ \E hash \in HashesOf : create_token_registry(m, hash) \/ claim_locks(m, hash)
    \/ activate_protection(m)
    \/ deactivate_protection(m)

ProtectionSpec == ProtectionInit /\ [][ProtectionNext]_protectionVars

-----------------------------------------------------------------------------
Registry == [hash : HashesOf, protected : BOOLEAN]

LockState == [mint : Mints, active : BOOLEAN, typed : BOOLEAN]

\* The values the variables take.
ProtectionTypeOK ==
  /\ registry \in [Mints -> Registry \cup {Absent}]
  /\ lock \in [Kinds -> [Hashes -> LockState \cup {Absent}]]
  /\ last \in {"ok", "refused"}

\* registry.rs:54, active "Mirrors TokenRegistry.protected": a lock is active
\* exactly when the token that claimed it is protected, though activation goes
\* by the hashes of the registry and these may belong to a lock of another.  It
\* holds because activation is always refused.
ActiveAsProtected ==
  \A k \in Kinds, h \in Hashes :
    lock[k][h] # Absent =>
      /\ Registered(lock[k][h].mint)
      /\ lock[k][h].active = registry[lock[k][h].mint].protected

\* Of all that claim a ticker, a picture or an identity the first keeps it.
FirstClaimStays ==
  [][\A k \in Kinds, h \in Hashes :
       lock[k][h] # Absent =>
         /\ lock'[k][h] # Absent
         /\ lock'[k][h].mint = lock[k][h].mint]_protectionVars
=============================================================================
