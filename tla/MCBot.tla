-------------------------------- MODULE MCBot --------------------------------
(***************************************************************************)
(* Instances of MigrationBot for TLC: one with every fault at once and two *)
(* polls, for what must hold whatever happens, which the constants of the  *)
(* cfg describe; and a calm one, Calm, for what must happen in the end.    *)
(* `scenario' says which of them takes its steps; they share all           *)
(* variables, and the invariants of MigrationBot are about both.           *)
(***************************************************************************)
EXTENDS MigrationBot

CONSTANTS
  m1, m2, f1, f2,
  Scenarios,                   \* of "faults" and "calm"
  CalmAccepts,                 \* Accepts of the calm one, and its bounds
  CalmCrashes, CalmCancels

VARIABLE scenario

\* Each pool brings an amount of its own.
Sols == [m \in Mints |-> IF m = m1 THEN 3 ELSE 5]

\* Pools of the size the bot asks for; with faults the second has that which
\* the program gives them, and is not found.
CalmSizes == [m \in Mints |-> POOL_SIZE]
FaultySizes == [m \in Mints |-> IF m = m1 THEN POOL_SIZE ELSE 211]

\* A crash may come at any await.
AllAwaits ==
  {"begin", "prepare", "record", "reread", "release", "readSol", "readTok",
   "wrap", "create", "recordPool", "lock", "recordLock", "live"}

\* One poll at a time, and no failed call.
Calm ==
  INSTANCE MigrationBot WITH
    Flows <- {f1}, AccountSize <- CalmSizes, Accepts <- CalmAccepts,
    MaxCrashes <- CalmCrashes, MaxFailures <- 0,
    MaxCancels <- CalmCancels, MaxStrangers <- 0

ScenarioInit ==
  /\ scenario \in Scenarios
  /\ \/ scenario = "faults" /\ Init
     \/ scenario = "calm" /\ Calm!Init

InFaults(A) == scenario = "faults" /\ A /\ UNCHANGED scenario
InCalm(A) == scenario = "calm" /\ A /\ UNCHANGED scenario

ScenarioNext ==
  \/ InFaults(Next)
  \/ InCalm(Calm!Next)

\* The interval fires for ever and every await ends.
ScenarioSpec ==
  /\ ScenarioInit
  /\ [][ScenarioNext]_<<scenario, vars>>
  /\ WF_<<scenario, vars>>(InCalm(Calm!Step(f1)))

-----------------------------------------------------------------------------
\* Every graduated pool settles, after a crash too: the one whose release is
\* taken goes live, the one whose release is refused, as the program refuses
\* the account list the bot has, rests in its escrow under a failed row.
CalmSettles == scenario = "calm" => Calm!Settles

\* index.js:378, "Retry failed migration from step 1": a failed migration is
\* taken up again.
CalmFailedIsRetried == scenario = "calm" => Calm!FailedIsRetried
=============================================================================
