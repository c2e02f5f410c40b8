---------------------------- MODULE PoolLifecycle ----------------------------
(***************************************************************************)
(* What the launchpad promises about one pool, whatever the accounting     *)
(* underneath: a pool is launched once, trades on its curve until it       *)
(* graduates, and never trades again; from then on the tokens it held at   *)
(* graduation (its stake) move as a whole, into the escrow, back to the    *)
(* vault when a migration is cancelled, or out to the migration authority, *)
(* which happens once and is final.                                        *)
(***************************************************************************)
EXTENDS Naturals

CONSTANT Mints

VARIABLES
  phase,     \* where each pool is in its life
  stake      \* the tokens of the pool that are not in traders' wallets

vars == <<phase, stake>>

Phases == {"none", "curve", "graduated", "escrowed", "paid"}

TypeOK ==
  /\ phase \in [Mints -> Phases]
  /\ stake \in [Mints -> Nat]

Init ==
  /\ phase = [m \in Mints |-> "none"]
  /\ stake = [m \in Mints |-> 0]

\* The stake of m becomes some positive amount; the other pools keep theirs.
Restake(m) ==
  /\ stake'[m] \in Nat \ {0}
  /\ stake' = [stake EXCEPT ![m] = stake'[m]]

Launch(m) ==
  /\ phase[m] = "none"
  /\ phase' = [phase EXCEPT ![m] = "curve"]
  /\ Restake(m)

\* A swap may be the one that graduates the pool.
Trade(m) ==
  /\ phase[m] = "curve"
  /\ \E next \in {"curve", "graduated"} : phase' = [phase EXCEPT ![m] = next]
  /\ Restake(m)

Move(m, from, to) ==
  /\ phase[m] = from
  /\ phase' = [phase EXCEPT ![m] = to]
  /\ UNCHANGED stake

Next == \E m \in Mints : \/ Launch(m)
                         \/ Trade(m)
                         \/ Move(m, "graduated", "escrowed")
                         \/ Move(m, "escrowed", "graduated")
                         \/ Move(m, "escrowed", "paid")

Spec == Init /\ [][Next]_vars
=============================================================================
