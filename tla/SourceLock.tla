----------------------------- MODULE SourceLock -----------------------------
(***************************************************************************)
(* "One tweet = one CA": the anti-vamp server canonicalizes a source, and  *)
(* signs for a deploy (a mint and its creator) that may lock it until the  *)
(* signature expires; create_source_lock checks the signature and creates  *)
(* the lock, whose address is derived from the source.  Server and chain   *)
(* have a clock each.  source_lock.rs is in no module of the crate: this   *)
(* is the instruction as written, against the server that runs.            *)
(*                                                                         *)
(* A source stands for its canonical key and hash, a deploy for a mint and *)
(* a creator; the perceptual hash, which is signed but never compared on   *)
(* chain, is left out.                                                     *)
(***************************************************************************)
EXTENDS Integers, Sequences, FiniteSets

CONSTANTS
  Sources,
  Posted,        \* when each source was posted; an article is always fresh
  Articles,
  Deploys,
  None,
  Ttl,           \* SIGNATURE_TTL_SEC of the server
  ChainTtl,      \* SIGNATURE_TTL_SECS of the program
  Grace,         \* what the program adds to it "for clock skew"
  Fresh,         \* TWEET_FRESHNESS_SEC
  MaxSkew,       \* how far the clocks are apart at most
  Horizon,       \* bound on the server's clock
  Forms          \* orders of instructions that transactions have

ASSUME SourceLockAssumption ==
  /\ Articles \subseteq Sources
  /\ Posted \in [Sources -> Int]
  /\ None \notin Deploys
  /\ {Ttl, ChainTtl, Grace, Fresh, MaxSkew, Horizon} \subseteq Nat
  /\ Forms \subseteq Seq({"ed25519", "lock", "other"})

\* The clocks are less far apart than the program allows for.
ASSUME SkewAssumption == Ttl + MaxSkew <= ChainTtl + Grace

VARIABLES
  now,        \* the server's clock
  chain,      \* Clock::get()
  signed,     \* messages the server has signed
  locks,      \* the SourceLock accounts
  cache       \* source_locks

vars == <<now, chain, signed, locks, cache>>

Message == [source : Sources, deploy : Deploys, expiry : Int]

\* own says how the lock came about (see CreateSourceLock), which the account
\* does not.
Lock == [deploy : Deploys, createdAt : Int, own : BOOLEAN]

Unlocked == [deploy |-> None, createdAt |-> 0, own |-> TRUE]

Init ==
  /\ now = 0
  /\ chain \in -MaxSkew .. MaxSkew
  /\ signed = {}
  /\ locks = [s \in Sources |-> Unlocked]
  /\ cache = [s \in Sources |-> None]

-----------------------------------------------------------------------------
(***************************************************************************)
(* POST /canonicalize and POST /confirm-lock.                              *)
(***************************************************************************)
\* A tweet from the future is fresh.
IsFresh(s) == s \in Articles \/ now - Posted[s] <= Fresh

Expiry == now + Ttl

\* A request that is refused changes nothing here; RateLimiter has what else
\* it may be refused for.
Canonicalize(s, d) ==
  /\ IsFresh(s)
  /\ cache[s] = None
  /\ signed' = signed \cup {[source |-> s, deploy |-> d, expiry |-> Expiry]}
  /\ UNCHANGED <<now, chain, locks, cache>>

\* Whoever says that a deploy has locked a source is believed, and the upsert
\* replaces what is there.
ConfirmLock(s, d) ==
  /\ cache' = [cache EXCEPT ![s] = d]
  /\ UNCHANGED <<now, chain, signed, locks>>

-----------------------------------------------------------------------------
(***************************************************************************)
(* create_source_lock.  A transaction is a sequence of instructions: its   *)
(* form says which instruction stands where and msg the message each one   *)
(* carries.  The header of an Ed25519 instruction says at which offsets of *)
(* which instructions the key, the message and the signature are; the      *)
(* program takes the offsets from it and looks for the bytes there in the  *)
(* Ed25519 instruction itself.  own says that its header refers to the     *)
(* instruction itself, as that of the browser does: then the bytes that    *)
(* the program compares are those the Ed25519 program has verified, and    *)
(* what the server has not signed is signed by somebody else.  Otherwise   *)
(* nothing is known of them.                                               *)
(***************************************************************************)
Places(form, kind) == {i \in DOMAIN form : form[i] = kind}

\* verify_ed25519_ix looks at the first Ed25519 instruction before this one.
Verified_Any(form, msg, i) ==
  \E j \in Places(form, "ed25519") : j < i /\ msg[j] = msg[i]

Verified(form, msg, i) ==
  \E j \in Places(form, "ed25519") :
    /\ j < i
    /\ \A k \in Places(form, "ed25519") : j <= k
    /\ msg[j] = msg[i]

SignerMatches_Anyone(m, own) == TRUE

SignerMatches(m, own) == own => m \in signed

Unexpired(m) ==
  /\ chain <= m.expiry
  /\ m.expiry <= chain + ChainTtl + Grace

Accepted(form, msg, own, i) ==
  /\ Unexpired(msg[i])
  /\ Verified(form, msg, i)
  /\ SignerMatches(msg[i], own)

\* init: the account exists neither before nor by an earlier instruction.
Creates(form, msg) ==
  \A i \in Places(form, "lock") :
    /\ locks[msg[i].source] = Unlocked
    /\ \A j \in Places(form, "lock") :
         msg[j].source = msg[i].source => j = i

CreateSourceLock(form, msg, own) ==
  /\ Places(form, "lock") # {}
  /\ Creates(form, msg)
  /\ \A i \in Places(form, "lock") : Accepted(form, msg, own, i)
  /\ locks' = [s \in Sources |->
       LET here == {i \in Places(form, "lock") : msg[i].source = s} IN
       IF here = {} THEN locks[s]
       ELSE [deploy |-> msg[CHOOSE i \in here : TRUE].deploy,
             createdAt |-> chain, own |-> own]]
  /\ UNCHANGED <<now, chain, signed, cache>>

\* Messages a transaction may carry: the signed ones and, for each source and
\* deploy, one that nobody but its sender has signed.
Unsigned == [source : Sources, deploy : Deploys, expiry : {chain}] \ signed

Land ==
  \E form \in Forms :
    \E msg \in [DOMAIN form -> signed \cup Unsigned], own \in BOOLEAN :
      CreateSourceLock(form, msg, own)

-----------------------------------------------------------------------------
(***************************************************************************)
(* Time.  The clocks go forwards, MaxSkew apart at most.                   *)
(***************************************************************************)
Near(a, b) == a - b <= MaxSkew /\ b - a <= MaxSkew

ServerTick ==
  /\ now < Horizon
  /\ now' = now + 1
  /\ Near(now', chain)
  /\ UNCHANGED <<chain, signed, locks, cache>>

ChainTick ==
  /\ chain < Horizon + MaxSkew
  /\ chain' = chain + 1
  /\ Near(now, chain')
  /\ UNCHANGED <<now, signed, locks, cache>>

Next ==
  \/ \E s \in Sources, d \in Deploys : Canonicalize(s, d) \/ ConfirmLock(s, d)
  \/ Land
  \/ ServerTick
  \/ ChainTick

Spec == Init /\ [][Next]_vars

-----------------------------------------------------------------------------
\* The values the variables take.
TypeOK ==
  /\ now \in 0 .. Horizon
  /\ chain \in Int /\ Near(now, chain)
  /\ \A m \in signed : m \in Message /\ m.expiry \in Ttl .. Horizon + Ttl
  /\ locks \in [Sources -> Lock \cup {Unlocked}]
  /\ cache \in [Sources -> Deploys \cup {None}]

\* A source is locked for a deploy only if the server has signed just that,
\* and at a time at which the signature had not expired: a message signed for
\* another source or deploy, or by another key, never locks it.  This is so
\* for transactions whose Ed25519 instruction refers to its own bytes, the
\* only ones whose bytes the program knows to be verified.
LockedAsSigned ==
  \A s \in Sources : locks[s] # Unlocked /\ locks[s].own =>
    \E m \in signed :
      /\ m.source = s
      /\ m.deploy = locks[s].deploy
      /\ locks[s].createdAt <= m.expiry

\* Such a transaction locks a tweet while it is fresh or while a signature
\* given then lasts, by whatever clock: Fresh + Ttl after it was posted is too
\* late.
LockedWhileFresh ==
  \A s \in Sources \ Articles :
    locks[s] # Unlocked /\ locks[s].own =>
      locks[s].createdAt <= Posted[s] + Fresh + Ttl

\* "First transaction to create this PDA wins" (registry.rs:97): a lock is
\* never replaced or removed, and a transaction locks one source at most.
FirstLockWins ==
  [][/\ \A s \in Sources : locks[s] # Unlocked => locks'[s] = locks[s]
     /\ Cardinality({s \in Sources : locks'[s] # locks[s]}) <= 1]_vars

\* A signature works from the moment it is given until it expires, however
\* the clocks differ: the program never takes it for one from the future.
SignaturesWork ==
  \A m \in signed : chain <= m.expiry => Unexpired(m)
=============================================================================
