------------------------------- MODULE Layout -------------------------------
(***************************************************************************)
(* The accounts of the program as bytes, and the programs off chain that   *)
(* read them.  The program writes the fields of a struct in their order    *)
(* after a discriminator of eight bytes; the migration bot, the airdrop    *)
(* worker, the indexer and the browser each repeat the offsets by hand,    *)
(* and two of them ask for accounts by their size.                         *)
(*                                                                         *)
(* A field that is read is named by the field of the program the reader    *)
(* takes it for: what the worker calls solReserve is its reserve_two.      *)
(***************************************************************************)
EXTENDS Integers, Sequences, SequencesExt

CONSTANTS
  Mints,
  PoolSpace,      \* bytes the program allocates for a LiquidityPool
  Deposit,        \* tokens a pool opens with
  Threshold       \* SOL raised at which a pool graduates

VARIABLES
  registry,     \* a TokenRegistry of each mint, or NoAccount
  pool,         \* a LiquidityPool of each mint, or NoAccount
  lastRead      \* who read last, of which mint, and what

vars == <<registry, pool, lastRead>>

NoAccount == [none |-> TRUE]

\* Bytes that are of no one field.
Garbage == -1

-----------------------------------------------------------------------------
(***************************************************************************)
(* The structs: names and widths in bytes, in the order they are written.  *)
(***************************************************************************)
CurveConfiguration ==
  << <<"fees", 8>>, <<"protocol_wallet", 32>>, <<"airdrop_wallet", 32>>,
     <<"antivamp_signer", 32>>, <<"migration_authority", 32>> >>

LiquidityPool_FlagLast ==
  << <<"token_one", 32>>, <<"token_two", 32>>, <<"total_supply", 8>>,
     <<"reserve_one", 8>>, <<"reserve_two", 8>>, <<"bump", 1>>,
     <<"launch_timestamp", 8>>, <<"total_sol_raised", 8>>, <<"graduated", 1>>,
     <<"creator", 32>>, <<"airdrop_pool", 8>>, <<"graduation_ts", 8>>,
     <<"meteora_pool", 32>>, <<"migration_complete", 1>> >>

LiquidityPool ==
  << <<"token_one", 32>>, <<"token_two", 32>>, <<"total_supply", 8>>,
     <<"reserve_one", 8>>, <<"reserve_two", 8>>, <<"bump", 1>>,
     <<"launch_timestamp", 8>>, <<"graduated", 1>>, <<"total_sol_raised", 8>>,
     <<"creator", 32>>, <<"airdrop_pool", 8>>, <<"graduation_ts", 8>>,
     <<"meteora_pool", 32>>, <<"migration_complete", 1>> >>

TokenRegistry ==
  << <<"mint", 32>>, <<"ticker_hash", 32>>, <<"image_hash", 32>>,
     <<"identity_hash", 32>>, <<"ticker_raw", 16>>, <<"protected", 1>>,
     <<"protected_at", 8>>, <<"creator", 32>>, <<"created_at", 8>>,
     <<"bump", 1>> >>

\* Where the i-th field starts; the one after the last is the size.
Offset(struct, i) ==
  FoldLeft(LAMBDA sum, field : sum + field[2], 8, SubSeq(struct, 1, i - 1))

Layouts ==
  LET Cells(struct) == {<<Offset(struct, i), struct[i][2], struct[i][1]>> :
                          i \in DOMAIN struct}
  IN [pool |-> Cells(LiquidityPool), registry |-> Cells(TokenRegistry),
      config |-> Cells(CurveConfiguration)]

\* What a reader gets from the given offset and width: a field, if these are
\* its bytes.
Decode(kind, account, at) ==
  LET hits == {cell \in Layouts[kind] : SubSeq(cell, 1, 2) = at}
  IN IF hits = {} THEN Garbage ELSE account[(CHOOSE cell \in hits : TRUE)[3]]

-----------------------------------------------------------------------------
(***************************************************************************)
(* What the program does to the two accounts of a token.  A bool is a byte *)
(* 0 or 1.  Wallets, hashes and times are numbers of their own: only that  *)
(* they are read from the right field matters.                             *)
(***************************************************************************)
\* Written by initialize, before all else, and never again.
Config ==
  [fees |-> 100, protocol_wallet |-> 101, airdrop_wallet |-> 102,
   antivamp_signer |-> 0, migration_authority |-> 103]

Init ==
  /\ registry = [m \in Mints |-> NoAccount]
  /\ pool = [m \in Mints |-> NoAccount]
  /\ lastRead = [reader |-> "nobody", found |-> FALSE]

create_token_registry(m) ==
  /\ registry[m] = NoAccount
  /\ registry' = [registry EXCEPT ![m] =
       [mint |-> m, ticker_hash |-> 201, image_hash |-> 202,
        identity_hash |-> 203, ticker_raw |-> 204,
        protected |-> 0, protected_at |-> 0, creator |-> 104,
        created_at |-> 301, bump |-> 255]]
  /\ UNCHANGED <<pool, lastRead>>

\* Half a deploy fee of SOL is in the new pool.
add_liquidity(m) ==
  /\ pool[m] = NoAccount
  /\ pool' = [pool EXCEPT ![m] =
       [token_one |-> m, token_two |-> m, total_supply |-> 0,
        reserve_one |-> Deposit, reserve_two |-> 1, bump |-> 254,
        launch_timestamp |-> 302, graduated |-> 0, total_sol_raised |-> 0,
        creator |-> 104, airdrop_pool |-> 3, graduation_ts |-> 0,
        meteora_pool |-> 0, migration_complete |-> 0]]
  /\ UNCHANGED <<registry, lastRead>>

\* A swap moves both reserves and adds to the airdrop pool.  A buy adds to
\* what was raised, and one that reaches the threshold graduates the pool.
swap(m, buy) ==
  LET p == pool[m]
      d == IF buy THEN 1 ELSE -1
      raised == IF buy THEN p.total_sol_raised + 1 ELSE p.total_sol_raised
      full == buy /\ raised >= Threshold
      one == p.reserve_one - d
      two == p.reserve_two + d
  IN /\ p # NoAccount
     /\ p.graduated = 0
     /\ one > 0 /\ two > 0 /\ p.airdrop_pool < 3 + 2 * Threshold
     /\ pool' = [pool EXCEPT ![m] =
          [@ EXCEPT !.reserve_one = one, !.reserve_two = two,
                    !.total_sol_raised = raised,
                    !.airdrop_pool = p.airdrop_pool + 1,
                    !.graduated = IF full THEN 1 ELSE 0,
                    !.graduation_ts = IF full THEN 303 ELSE 0]]
     /\ UNCHANGED <<registry, lastRead>>

-----------------------------------------------------------------------------
(***************************************************************************)
(* The readers.  One that scans asks for the accounts of one size; the     *)
(* others derive the address.  Nothing is made of an account shorter than  *)
(* `least', and the fields of `late' are read of longer ones only.         *)
(* fetchAllPools of the indexer, which asks for 170 bytes, is never        *)
(* called.  activate_protection never succeeds (Protection), so that       *)
(* protected stays as it was written.                                      *)
(***************************************************************************)
Space ==
  [pool |-> PoolSpace,
   registry |-> Offset(TokenRegistry, Len(TokenRegistry) + 1),
   config |-> Offset(CurveConfiguration, Len(CurveConfiguration) + 1)]

NoLate == [f \in {} |-> <<0, 0>>]

pollForGraduations ==
  [of |-> "pool", scan |-> {195}, least |-> 0, late |-> NoLate,
   cells |-> [graduated |-> <<105, 1>>, token_one |-> <<8, 32>>]]

\* The wallets prepare_migration pays.
botWallets ==
  [of |-> "config", scan |-> {}, least |-> 0, late |-> NoLate,
   cells |-> [protocol_wallet |-> <<16, 32>>, airdrop_wallet |-> <<48, 32>>]]

\* Of the airdrop worker, which takes the first reserve for the SOL.
getActiveTokens ==
  [of |-> "pool", scan |-> {195}, least |-> 0, late |-> NoLate,
   cells |-> [token_one |-> <<8, 32>>, reserve_two |-> <<80, 8>>,
              reserve_one |-> <<88, 8>>, graduated |-> <<105, 1>>]]

\* Of the indexer.
poolReserves ==
  [of |-> "pool", scan |-> {}, least |-> 96, late |-> NoLate,
   cells |-> [reserve_one |-> <<80, 8>>, reserve_two |-> <<88, 8>>]]

fetchAllMints ==
  [of |-> "registry", scan |-> {202}, least |-> 0, late |-> NoLate,
   cells |-> [mint |-> <<8, 32>>, ticker_raw |-> <<136, 16>>]]

\* Of the browser.
fetchDeployedTokens ==
  [of |-> "registry", scan |-> {202}, least |-> 0, late |-> NoLate,
   cells |-> [mint |-> <<8, 32>>, ticker_raw |-> <<136, 16>>,
              protected |-> <<152, 1>>, protected_at |-> <<153, 8>>,
              creator |-> <<161, 32>>, created_at |-> <<193, 8>>]]

fetchPoolData ==
  [of |-> "pool", scan |-> {}, least |-> 154,
   cells |-> [reserve_one |-> <<80, 8>>, reserve_two |-> <<88, 8>>,
              launch_timestamp |-> <<97, 8>>, graduated |-> <<105, 1>>,
              total_sol_raised |-> <<106, 8>>, creator |-> <<114, 32>>,
              airdrop_pool |-> <<146, 8>>],
   late |-> [graduation_ts |-> <<154, 8>>, meteora_pool |-> <<162, 32>>,
             migration_complete |-> <<194, 1>>]]

\* The feed repeats what the page of a token does.
fetchAllTokensWithPools == fetchPoolData

Readers ==
  [bot |-> pollForGraduations, botConfig |-> botWallets, worker |-> getActiveTokens,
   indexer |-> poolReserves, indexerMints |-> fetchAllMints,
   registries |-> fetchDeployedTokens, page |-> fetchPoolData,
   feed |-> fetchAllTokensWithPools]

Of(r, m) == CASE Readers[r].of = "pool" -> pool[m]
              [] Readers[r].of = "registry" -> registry[m]
              [] Readers[r].of = "config" -> Config

Found(r, m) ==
  LET by == Readers[r]
  IN /\ Of(r, m) # NoAccount
     /\ Space[by.of] >= by.least
     /\ by.scan # {} => Space[by.of] \in by.scan

Seen(r, m) ==
  LET by == Readers[r]
      late == IF Space[by.of] >= 195 THEN DOMAIN by.late ELSE {}
      At(f) == IF f \in late THEN by.late[f] ELSE by.cells[f]
  IN [f \in DOMAIN by.cells \cup late |-> Decode(by.of, Of(r, m), At(f))]

Read(r, m) ==
  /\ lastRead' = IF Found(r, m)
               THEN [reader |-> r, mint |-> m, found |-> TRUE, seen |-> Seen(r, m)]
               ELSE [reader |-> r, mint |-> m, found |-> FALSE]
  /\ UNCHANGED <<registry, pool>>

Next ==
  \/ \E m \in Mints :
       \/ create_token_registry(m)
       \/ add_liquidity(m)
       \/ \E buy \in BOOLEAN : swap(m, buy)
  \/ \E r \in DOMAIN Readers, m \in Mints : Read(r, m)

Spec == Init /\ [][Next]_vars

-----------------------------------------------------------------------------
(***************************************************************************)
(* Every account has the fields of its struct, and what was read last is   *)
(* made of such fields, none of bytes that cut across two.                 *)
(***************************************************************************)
TypeOK ==
  /\ \A m \in Mints :
       /\ registry[m] # NoAccount =>
            DOMAIN registry[m] = {TokenRegistry[i][1] : i \in DOMAIN TokenRegistry}
       /\ pool[m] # NoAccount =>
            DOMAIN pool[m] = {LiquidityPool[i][1] : i \in DOMAIN LiquidityPool}
  /\ lastRead.found =>
       /\ lastRead.mint \in Mints /\ lastRead.reader \in DOMAIN Readers
       /\ \A f \in DOMAIN lastRead.seen : lastRead.seen[f] # Garbage

\* A step that is a read, and not a repeated one.
Reading == lastRead' # lastRead

\* Offsets repeated in four programs (solana.js:425-432, 495-512, 552-583,
\* indexer.js:81-93, the bot's index.js:466-470) still fit the structs of the
\* program: whatever is read, but by the airdrop worker, is the field it is
\* taken for, as it is at that moment.  And sizes still do (solana.js:420,
\* 482-493): a reader other than the two that scan for pools by their size
\* misses no account there is, and sees none there is not.
ReadsAreOfTheField ==
  [][Reading =>
       LET reader == lastRead'.reader
           account == Of(reader, lastRead'.mint)
       IN /\ lastRead'.found /\ reader # "worker" =>
               \A f \in DOMAIN lastRead'.seen : lastRead'.seen[f] = account[f]
          /\ reader \notin {"bot", "worker"} =>
               (lastRead'.found <=> account # NoAccount)]_vars
=============================================================================
