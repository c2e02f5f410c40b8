------------------------------- MODULE MCPump -------------------------------
(***************************************************************************)
(* Instances of Pump for TLC.  SOL is counted in thousandths: a deploy fee *)
(* of 1.5 SOL is 1500, the threshold of 2 SOL is 2000.  Basis points,      *)
(* percentages and windows are those of consts.rs.                         *)
(***************************************************************************)
EXTENDS Pump, FiniteSetsExt

CONSTANTS alice, bob, treasury, bot

DeployedByAlice == [m \in Mints |-> alice]

Args(fee) == [fees |-> fee, protocol_wallet |-> treasury,
              airdrop_wallet |-> treasury, migration_authority |-> bot]

OneAndAHalfPercent == {Args(150)}

\* A fee of 1.5 %, one that is refused and one that is not a number.
FeesOfEveryKind == {Args(150), Args(10001), Args(NaN)}

-----------------------------------------------------------------------------
(***************************************************************************)
(* What the repository says of the program and the program does not do.    *)
(***************************************************************************)
\* migrate.rs:136, "Global PDA - holds pool SOL": the account holds the
\* reserve_two of every pool whose tokens are in the vault.
GlobalHoldsPoolSol ==
  globalSol >=
    MapThenSumSet(LAMBDA m : pool[m].reserve_two,
                  {m \in Mints : Phase(m) \in {"curve", "graduated"}})
=============================================================================
