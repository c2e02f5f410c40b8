------------------------------- MODULE Calls -------------------------------
(***************************************************************************)
(* What the program asks of an instruction (its handler, the length of its *)
(* arguments, its accounts in order, which of them sign and may be written,*)
(* which must exist already and which must not), and what each sender in   *)
(* the repository puts into one: the browser, the migration bot, the       *)
(* script that initializes the program and the end-to-end test.  A         *)
(* transaction takes effect as a whole or not at all.                      *)
(*                                                                         *)
(* What a body refuses once its accounts fit is a choice here; Pump has it.*)
(* The deployers' wallets are those of users, the wallet of the scripts is *)
(* the bot's, as init-config.js makes it.                                  *)
(***************************************************************************)
EXTENDS Integers, Sequences, SequencesExt, FiniteSets, TLC

CONSTANTS
  Deployed,       \* the mints deployed through the browser
  ScriptMint,     \* deployed by the end-to-end test
  Users,          \* traders, deployers among them
  Creator,        \* who deploys each mint
  Admin,          \* the wallet of the scripts and the bot
  HashOf,         \* the ticker, image, identity and source hash of each mint
  Actors,         \* of "scripts", "bot" and "traders", who takes part
  MaxSent         \* how many transactions are under way at most

VARIABLES
  existing,    \* the addresses at which there is an account
  sent,        \* transactions under way
  app,         \* the deploy of each mint in its browser
  script,      \* where the end-to-end test stands
  bot          \* where the migration bot stands

callVars == <<existing, sent, app, script, bot>>

AllMints == Deployed \cup {ScriptMint}

\* Addresses, as what they are derived from.
Pool(m) == <<"liquidity_pool", m>>
RegistryAt(m) == <<"token_registry", m>>
Escrow(m) == <<"migration_escrow", m>>
Provider(m, u) == <<"LiqudityProvider", m, u>>
LockAt(kind, m) == <<kind, HashOf[kind][m]>>
Config == <<"CurveConfiguration">>
Global == <<"global">>
Mint(m) == <<"mint", m>>
Wallet(u) == <<"wallet", u>>
Ata(m, owner) == <<"ata", m, owner>>
Rent == <<"rent">>
Sys == <<"system program">>
Tok == <<"token program">>
AtaProg == <<"associated token program">>

-----------------------------------------------------------------------------
(***************************************************************************)
(* The program: an entry for each account, of what it must be given.       *)
(***************************************************************************)
Entry(a, needs, was) == [at |-> a, needs |-> needs, was |-> was]
New(a) == Entry(a, {"writable"}, {FALSE})
Ensured(a) == Entry(a, {"writable"}, BOOLEAN)
Loaded(a) == Entry(a, {}, {TRUE})
Changed(a) == Entry(a, {"writable"}, {TRUE})
Given(a) == Entry(a, {}, BOOLEAN)
Credited(a) == Entry(a, {"writable"}, BOOLEAN)
Payer(u) == Entry(Wallet(u), {"writable", "signer"}, BOOLEAN)

Initialize(u) ==
  [bytes |-> 104,
   accounts |-> <<New(Config), Credited(Global), Payer(u), Given(Rent), Given(Sys)>>]

AddLiquidity(m, u) ==
  [bytes |-> 16,
   accounts |-> <<New(Pool(m)), Credited(Global), Ensured(Provider(m, u)),
                  Changed(Mint(m)), New(Ata(m, Global)), Changed(Ata(m, u)),
                  Payer(u), Given(Sys), Given(Tok), Given(AtaProg)>>]

Swap(m, u) ==
  [bytes |-> 16,
   accounts |-> <<Changed(Config), Changed(Pool(m)), Credited(Global),
                  Changed(Mint(m)), Changed(Ata(m, Global)), Changed(Ata(m, u)),
                  Payer(u), Given(Rent), Given(Sys), Given(Tok), Given(AtaProg)>>]

PrepareMigration(m, u) ==
  [bytes |-> 0,
   accounts |-> <<Changed(Pool(m)), Credited(Global), Loaded(Config),
                  Credited(Escrow(m)), Changed(Ata(m, Global)),
                  Ensured(Ata(m, Escrow(m))), Changed(Mint(m)),
                  Credited(Wallet(Admin)), Credited(Wallet(Admin)),
                  Credited(Wallet(Admin)), Payer(u), Given(Tok),
                  Given(AtaProg), Given(Sys)>>]

ReleaseEscrow(m) ==
  [bytes |-> 0,
   accounts |-> <<Loaded(Pool(m)), Loaded(Config), Credited(Escrow(m)),
                  Changed(Ata(m, Escrow(m))), Changed(Ata(m, Admin)),
                  Changed(Mint(m)), Payer(Admin), Given(Tok), Given(Sys)>>]

CreateTokenRegistry(m, u) ==
  [bytes |-> 112,
   accounts |-> <<New(RegistryAt(m)), Credited(Mint(m)), Payer(u),
                  Given(Sys)>>]

ClaimLocks(m, u) ==
  [bytes |-> 96,
   accounts |-> <<Loaded(RegistryAt(m)), New(LockAt("ticker", m)),
                  New(LockAt("image", m)), New(LockAt("identity", m)), Payer(u),
                  Given(Sys)>>]

NoHandler == [bytes |-> 0, accounts |-> <<>>]

\* Of other programs: making a mint, and a token account of it.
Externals(to, m, u) ==
  CASE to = "createAccount" -> [bytes |-> 0, accounts |-> <<Payer(u), New(Mint(m))>>]
    [] to = "createAta" ->
         [bytes |-> 0,
          accounts |-> <<Payer(u), New(Ata(m, u)), Given(Wallet(u)), Loaded(Mint(m))>>]
    [] OTHER -> NoHandler

\* The entry points of lib.rs that are sent to; create_source_lock is none.
Handler(to, m, u) ==
  CASE to = "initialize" -> Initialize(u)
    [] to = "add_liquidity" -> AddLiquidity(m, u)
    [] to = "swap" -> Swap(m, u)
    [] to = "prepare_migration" -> PrepareMigration(m, u)
    [] to = "release_escrow" -> ReleaseEscrow(m)
    [] to = "create_token_registry" -> CreateTokenRegistry(m, u)
    [] to = "claim_locks" -> ClaimLocks(m, u)
    [] OTHER -> Externals(to, m, u)

-----------------------------------------------------------------------------
(***************************************************************************)
(* The senders.  A call names its handler and lists its accounts, each     *)
(* with its privileges.                                                    *)
(***************************************************************************)
R(a) == <<a, {}>>
W(a) == <<a, {"writable"}>>
S(u) == <<Wallet(u), {"writable", "signer"}>>

Call(to, bytes, metas) == [to |-> to, bytes |-> bytes, metas |-> metas]

initConfig ==
  Call("initialize", 104, <<W(Config), W(Global), S(Admin), R(Rent), R(Sys)>>)

createAccount(m, u) == Call("createAccount", 0, <<S(u), W(Mint(m))>>)

createAta(m, u) ==
  Call("createAta", 0, <<S(u), W(Ata(m, u)), R(Wallet(u)), R(Mint(m))>>)

createRegistry(m, u) ==
  Call("create_token_registry", 112,
       <<W(RegistryAt(m)), W(Mint(m)), S(u), R(Sys)>>)

\* Of the browser and the test alike.
addLiquidity(m, u) ==
  Call("add_liquidity", 16,
       <<W(Pool(m)), W(Global), W(Provider(m, u)), W(Mint(m)), W(Ata(m, Global)),
         W(Ata(m, u)), S(u), R(Sys), R(Tok), R(AtaProg)>>)

claimLocks(m, u) ==
  Call("claim_locks", 96,
       <<R(RegistryAt(m)), W(LockAt("ticker", m)), W(LockAt("image", m)),
         W(LockAt("identity", m)), S(u), R(Sys)>>)

\* Behind the instruction that has the signature verified.
createSourceLock(m, u) ==
  Call("create_source_lock", 184,
       <<W(LockAt("source", m)), R(Config), R(Mint(m)), S(u),
         R(<<"instructions">>), R(Sys)>>)

swap_MintReadOnly(m, u, bytes) ==
  Call("swap", bytes,
       <<W(Config), W(Pool(m)), W(Global), R(Mint(m)), W(Ata(m, Global)),
         W(Ata(m, u)), S(u), R(Rent), R(Sys), R(Tok), R(AtaProg)>>)

\* The browser sends a least amount that the program does not read.
swap(m, u, bytes) ==
  Call("swap", bytes,
       <<W(Config), W(Pool(m)), W(Global), W(Mint(m)), W(Ata(m, Global)),
         W(Ata(m, u)), S(u), R(Rent), R(Sys), R(Tok), R(AtaProg)>>)

prepare(m) ==
  Call("prepare_migration", 0,
       <<W(Pool(m)), W(Global), R(Config), W(Escrow(m)), W(Ata(m, Global)),
         W(Ata(m, Escrow(m))), W(Mint(m)), W(Wallet(Admin)), W(Wallet(Admin)),
         W(Wallet(Admin)), S(Admin), R(Tok), R(AtaProg), R(Sys)>>)

\* Of the test; the interface of the bot has no configuration.
release(m) ==
  Call("release_escrow", 0,
       <<R(Pool(m)), R(Config), W(Escrow(m)), W(Ata(m, Escrow(m))),
         W(Ata(m, Admin)), W(Mint(m)), S(Admin), R(Tok), R(Sys)>>)

botRelease(m) ==
  Call("release_escrow", 0,
       <<R(Pool(m)), W(Escrow(m)), W(Ata(m, Escrow(m))), W(Ata(m, Admin)),
         W(Mint(m)), S(Admin), R(Tok), R(Sys)>>)

Mentions(part, tx, call) == IF part \in tx.parts THEN <<call>> ELSE <<>>

Calls(tx) ==
  LET m == tx.mint
      u == tx.user
  IN CASE tx.kind = "config" -> <<initConfig>>
       [] tx.kind = "tx1" -> <<createAccount(m, u), createAta(m, u), createRegistry(m, u)>>
       [] tx.kind = "tx2" -> <<addLiquidity(m, u)>>
                               \o Mentions("locks", tx, claimLocks(m, u))
                               \o Mentions("source", tx, createSourceLock(m, u))
       [] tx.kind = "trade" -> Mentions("ata", tx, createAta(m, u)) \o <<swap(m, u, 24)>>
       [] tx.kind = "mint" -> <<createAccount(m, u), createAta(m, u)>>
       [] tx.kind = "add" -> <<addLiquidity(m, u)>>
       [] tx.kind = "buy" -> <<swap(m, u, 16)>>
       [] tx.kind \in {"prepare", "botPrepare"} -> <<prepare(m)>>
       [] tx.kind = "release" -> <<release(m)>>
       [] tx.kind = "botAta" -> <<createAta(m, u)>>
       [] tx.kind = "botRelease" -> <<botRelease(m)>>

Tx(kind, m, u, n, parts) ==
  [kind |-> kind, mint |-> m, user |-> u, n |-> n, parts |-> parts]

-----------------------------------------------------------------------------
(***************************************************************************)
(* What becomes of a transaction.  An account has the privileges that any  *)
(* instruction of the transaction gives it.                                *)
(***************************************************************************)
Privileges(metas, a) == UNION {meta[2] : meta \in {x \in metas : x[1] = a}}

Verdict(tx, metas, call, on) ==
  LET h == Handler(call.to, tx.mint, tx.user)
      Some(was) == \E entry \in Range(h.accounts) :
                     entry.was = {was} /\ (entry.at \in on) # was
  IN CASE h = NoHandler -> "no handler"
       [] call.bytes < h.bytes -> "bad data"
       [] Len(call.metas) < Len(h.accounts) -> "bad accounts"
       [] \E i \in DOMAIN h.accounts :
            \/ h.accounts[i].at # call.metas[i][1]
            \/ ~(h.accounts[i].needs \subseteq Privileges(metas, call.metas[i][1]))
            -> "bad accounts"
       [] Some(TRUE) -> "missing"
       [] Some(FALSE) -> "taken"
       [] OTHER -> "fits"

\* Whatever a call may write to exists once it has succeeded.
Makes(tx, call) ==
  {e.at : e \in {x \in Range(Handler(call.to, tx.mint, tx.user).accounts) : x.needs # {}}}

\* One call after others, of a transaction whose accounts are metas.
Follow(tx, metas, run, call) ==
  LET verdict == Verdict(tx, metas, call, run.on)
  IN IF run.verdict # "fits" THEN run
     ELSE IF verdict # "fits" THEN [run EXCEPT !.verdict = verdict]
     ELSE [run EXCEPT !.on = @ \cup Makes(tx, call)]

MetasOf(calls) == UNION {Range(call.metas) : call \in Range(calls)}

Execute(tx) ==
  FoldLeft(LAMBDA run, call : Follow(tx, MetasOf(Calls(tx)), run, call),
           [verdict |-> "fits", on |-> existing], Calls(tx))

\* The accounts there are once it was executed.
After(run) == IF run.verdict = "fits" THEN run.on ELSE existing

-----------------------------------------------------------------------------
CallsInit ==
  /\ existing = {}
  /\ sent = {}
  /\ app = [m \in Deployed |->
              [attempt |-> 0, source |-> FALSE, done |-> FALSE]]
  /\ script = "mint"
  /\ bot = [at |-> "poll", mint |-> ScriptMint]

\* A transaction is sent; two that are equal are one, by their signature.
Sends(tx) ==
  /\ tx \notin sent /\ Cardinality(sent) < MaxSent
  /\ sent' = sent \cup {tx}

UnderWay(kinds, m, u) ==
  \E tx \in sent : tx.kind \in kinds /\ tx.mint = m /\ tx.user = u

\* init-config.js.
InitConfig ==
  /\ "scripts" \in Actors
  /\ Sends(Tx("config", ScriptMint, Admin, 1, {}))
  /\ UNCHANGED <<existing, app, script, bot>>

\* The first transaction of a deploy, with the answer of the anti-vamp server
\* about a source, if one was given.
DeployMint(m) ==
  /\ app[m].attempt = 0
  /\ \E source \in BOOLEAN :
       app' = [app EXCEPT ![m] = [attempt |-> 1, source |-> source, done |-> FALSE]]
  /\ Sends(Tx("tx1", m, Creator[m], 1, {}))
  /\ UNCHANGED <<existing, script, bot>>

Attempts(m) == app[m].attempt \in 1..3

\* The second one, up to three times, as the last one failed or was not heard
\* of; the third time with the pool alone.
DeployPool(m) ==
  LET n == app[m].attempt
      locks == IF n <= 2
                 THEN {"locks"} \cup (IF app[m].source THEN {"source"} ELSE {})
                 ELSE {}
  IN /\ Attempts(m) /\ ~app[m].done
     /\ RegistryAt(m) \in existing
     /\ Sends(Tx("tx2", m, Creator[m], n, locks))
     /\ app' = [app EXCEPT ![m].attempt = n + 1]
     /\ UNCHANGED <<existing, script, bot>>

\* Whether the user has an account for the tokens is asked before signing.
buildSwapTx(m, u) == IF Ata(m, u) \in existing THEN {} ELSE {"ata"}

Trade(m, u) ==
  \E press \in {1, 2} :
    /\ "traders" \in Actors /\ Pool(m) \in existing
    /\ Sends(Tx("trade", m, u, press, buildSwapTx(m, u)))
    /\ UNCHANGED <<existing, app, script, bot>>

\* The end-to-end test awaits each of its transactions.
RunScript ==
  /\ "scripts" \in Actors
  /\ script # "end"
  /\ ~UnderWay({"mint", "add", "buy", "prepare", "release"}, ScriptMint, Admin)
  /\ Sends(Tx(script, ScriptMint, Admin, 1, {}))
  /\ UNCHANGED <<existing, app, script, bot>>

\* Where it goes: it buys until the pool graduates or a buy fails for good,
\* and goes on to release what could not be prepared.
ScriptGoes(kind, ok) ==
  CASE kind = "mint" -> IF ok THEN {"add"} ELSE {"end"}
    [] kind = "add" -> IF ok THEN {"buy"} ELSE {"end"}
    [] kind = "buy" -> {"buy", "prepare", "end"}
    [] kind = "prepare" -> {"release"}
    [] kind = "release" -> {"end"}
    [] OTHER -> {script}

\* The bot takes a pool that it found graduated, and awaits likewise.  Its row
\* and its failures are in MigrationBot.
BotPrepare(m) ==
  /\ "bot" \in Actors /\ bot.at = "poll" /\ Pool(m) \in existing
  /\ ~UnderWay({"botPrepare"}, bot.mint, Admin)
  /\ Sends(Tx("botPrepare", m, Admin, 1, {}))
  /\ bot' = [at |-> "poll", mint |-> m]
  /\ UNCHANGED <<existing, app, script>>

\* It makes itself an account for the tokens when it has none.
step2_releaseEscrow ==
  /\ bot.at = "release"
  /\ ~UnderWay({"botAta", "botRelease"}, bot.mint, Admin)
  /\ Sends(Tx(IF Ata(bot.mint, Admin) \in existing
                THEN "botRelease" ELSE "botAta",
              bot.mint, Admin, 1, {}))
  /\ UNCHANGED <<existing, app, script, bot>>

BotGoes(kind, ok) ==
  CASE kind \in {"botPrepare", "botAta"} -> IF ok THEN "release" ELSE "poll"
    [] kind = "botRelease" -> "poll"
    [] OTHER -> bot.at

\* Those who await a transaction learn of it; a browser may not.
Learn(tx, ok) ==
  /\ script' \in ScriptGoes(tx.kind, ok)
  /\ bot' = [bot EXCEPT !.at = BotGoes(tx.kind, ok)]
  /\ \/ UNCHANGED app
     \/ /\ tx.kind = "tx2" /\ ok /\ ~app[tx.mint].done
        /\ app' = [app EXCEPT ![tx.mint].done = TRUE]

\* A transaction is executed.  Where its accounts fit, its bodies may still
\* refuse it (Fail).
Lands(tx) ==
  LET run == Execute(tx)
  IN /\ tx \in sent
     /\ sent' = sent \ {tx}
     /\ Learn(tx, run.verdict = "fits")
     /\ existing' = After(run)

\* Or it is refused for another reason, or not executed in the life of its
\* blockhash.
Fail(tx) ==
  /\ tx \in sent
  /\ sent' = sent \ {tx}
  /\ Learn(tx, FALSE)
  /\ UNCHANGED existing

CallsNext ==
  \/ InitConfig
  \/ \E m \in Deployed : DeployMint(m) \/ DeployPool(m)
  \/ \E m \in AllMints, u \in Users : Trade(m, u)
  \/ RunScript
  \/ \E m \in AllMints : BotPrepare(m)
  \/ step2_releaseEscrow
  \/ \E tx \in sent : Lands(tx) \/ Fail(tx)

CallsSpec == CallsInit /\ [][CallsNext]_callVars

-----------------------------------------------------------------------------
\* Deploys, the test and the bot are where they can be, and what is under way
\* was sent by one of them or a trader.
CallsTypeOK ==
  /\ \A tx \in sent : tx.mint \in AllMints /\ tx.user \in Users \cup {Admin}
  /\ app \in [Deployed -> [attempt : 0..4, source : BOOLEAN, done : BOOLEAN]]
  /\ \A m \in Deployed : app[m].done => Pool(m) \in existing
  /\ script \in {"mint", "add", "buy", "prepare", "release", "end"}
  /\ bot \in [at : {"poll", "release"}, mint : AllMints]

Misfit == {"no handler", "bad data", "bad accounts"}

\* Six places of the repository write out accounts and arguments of the
\* program by hand (solana.js:170-190, 262-278, 300-317, App.jsx:2286-2297,
\* init-config.js:25-43, test-e2e.js:62-185): but for the source lock and the
\* bot's release, whatever is sent has the form the program asks for, whenever
\* it lands.
CallsFit ==
  \A tx \in sent : Execute(tx).verdict \in Misfit =>
    \/ tx.kind = "tx2" /\ "source" \in tx.parts
    \/ tx.kind = "botRelease"
=============================================================================
