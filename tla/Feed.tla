-------------------------------- MODULE Feed --------------------------------
(***************************************************************************)
(* The feed of tokens in the browser.  Every 30 seconds a load starts,     *)
(* whether or not the last one has ended: it reads the registries, then    *)
(* all pools in one call, then the statistics of each token, and along     *)
(* with that the table source_locks, and replaces the feed.  A deploy in   *)
(* this browser adds its token at once.                                    *)
(*                                                                         *)
(* What is shown of a token is the stage of its curve: 0 for no pool,      *)
(* Graduated for the last.  Statistics are left out: a token is shown with *)
(* zeros if they fail.                                                     *)
(***************************************************************************)
EXTENDS Integers, Sequences, FiniteSets, SequencesExt

CONSTANTS
  Mints,
  Own,            \* the token this browser deploys
  Graduated,      \* the stage of a graduated pool
  BatchLimit,     \* how many accounts getMultipleAccounts takes
  MaxInFlight,    \* bound on loads at once
  MaxFailures     \* bound on calls that fail

ASSUME FeedAssumption ==
  /\ Own \in Mints
  /\ {Graduated, MaxInFlight, MaxFailures} \subseteq Nat \ {0}

VARIABLES
  registries,   \* mints with a TokenRegistry
  stages,       \* of each pool
  table,        \* mints in source_locks
  had,          \* history: mints that have been in it
  told,         \* onDeployed has been called
  loads,        \* loads under way, in the order they started
  feed,
  failures

world == <<registries, stages, table, had>>

feedVars == <<registries, stages, table, had, told, loads, feed, failures>>

NotShown == [stage |-> -1, locked |-> FALSE]

FeedInit ==
  /\ registries = {}
  /\ stages = [m \in Mints |-> 0]
  /\ table = {}
  /\ had = {}
  /\ told = FALSE
  /\ loads = <<>>
  /\ feed = [m \in Mints |-> NotShown]
  /\ failures = 0

-----------------------------------------------------------------------------
(***************************************************************************)
(* What happens on chain and at the server meanwhile.                      *)
(***************************************************************************)
Register(m) ==
  /\ m \notin registries
  /\ registries' = registries \cup {m}
  /\ UNCHANGED <<stages, table, had, told, loads, feed, failures>>

\* The pool is created, trades, graduates and trades no more.
Advance(m) ==
  /\ m \in registries
  /\ stages[m] < Graduated
  /\ stages' = [stages EXCEPT ![m] = @ + 1]
  /\ UNCHANGED <<registries, table, had, told, loads, feed, failures>>

\* POST /confirm-lock takes any mint, one of these or another, and the upsert
\* of setLock adds a row for it or replaces the mint of the source's row.
ConfirmLock(named, lost) ==
  /\ Cardinality(named) <= 1 /\ Cardinality(lost) <= 1
  /\ lost \subseteq table
  /\ table' = (table \ lost) \cup named
  /\ had' = had \cup named
  /\ UNCHANGED <<registries, stages, told, loads, feed, failures>>

-----------------------------------------------------------------------------
(***************************************************************************)
(* A load.  overlapped says that the feed has changed since it began,      *)
(* failed that one of its calls has, and gone what was no longer in the    *)
(* table when it read it.                                                  *)
(***************************************************************************)
NoPools == [m \in Mints |-> 0]

NewLoad == [pc |-> "registries", mints |-> {}, stages |-> NoPools,
            locked |-> {}, gone |-> {}, hasLocks |-> FALSE,
            overlapped |-> FALSE, failed |-> FALSE]

Start_Once ==
  /\ loads = <<>>
  /\ \A m \in Mints : feed[m] = NotShown
  /\ loads' = <<NewLoad>>
  /\ UNCHANGED <<world, told, feed, failures>>

Start ==
  /\ Len(loads) < MaxInFlight
  /\ loads' = Append(loads, NewLoad)
  /\ UNCHANGED <<world, told, feed, failures>>

FeedFails ==
  /\ failures < MaxFailures
  /\ failures' = failures + 1

\* getProgramAccounts; an error gives no registries.
ReadRegistries(i) ==
  /\ loads[i].pc = "registries"
  /\ \/ /\ loads' = [loads EXCEPT ![i].pc = "pools", ![i].mints = registries]
        /\ UNCHANGED failures
     \/ /\ loads' = [loads EXCEPT ![i].pc = "pools", ![i].failed = TRUE]
        /\ FeedFails
  /\ UNCHANGED <<world, told, feed>>

Fits(mints) == Cardinality(mints) <= BatchLimit

\* getMultipleAccountsInfo for all of them; an error reads as no pool.
ReadPools(i) ==
  /\ loads[i].pc = "pools"
  /\ \/ /\ Fits(loads[i].mints)
        /\ loads' = [loads EXCEPT ![i].pc = "read",
                       ![i].stages = [m \in Mints |-> IF m \in loads[i].mints
                                                      THEN stages[m] ELSE 0]]
        /\ UNCHANGED failures
     \/ /\ loads' = [loads EXCEPT ![i].pc = "read", ![i].failed = TRUE,
                       ![i].stages = NoPools]
        /\ IF Fits(loads[i].mints) THEN FeedFails ELSE UNCHANGED failures
  /\ UNCHANGED <<world, told, feed>>

\* source_locks, at any time of the load; an error gives no locks.
ReadLocks(i) ==
  /\ ~loads[i].hasLocks
  /\ \/ /\ loads' = [loads EXCEPT ![i].hasLocks = TRUE, ![i].locked = table,
                       ![i].gone = had \ table]
        /\ UNCHANGED failures
     \/ /\ loads' = [loads EXCEPT ![i].hasLocks = TRUE, ![i].failed = TRUE]
        /\ FeedFails
  /\ UNCHANGED <<world, told, feed>>

Others(i) ==
  LET rest == RemoveAt(loads, i) IN
  [j \in DOMAIN rest |-> [rest[j] EXCEPT !.overlapped = TRUE]]

Ready(i) == loads[i].pc = "read" /\ loads[i].hasLocks

Badge(load, m) == m \in load.locked

Enriched(load) ==
  [m \in Mints |-> IF m \in load.mints
                   THEN [stage |-> load.stages[m], locked |-> Badge(load, m)]
                   ELSE NotShown]

Shows(load) == load.mints # {}

\* The feed is replaced, unless nothing was found.
Apply(i) ==
  /\ Ready(i)
  /\ IF Shows(loads[i])
     THEN /\ feed' = Enriched(loads[i])
          /\ loads' = Others(i)
     ELSE /\ loads' = RemoveAt(loads, i)
          /\ UNCHANGED feed
  /\ UNCHANGED <<world, told, failures>>

OnDeployed_Alone ==
  /\ stages[Own] > 0
  /\ ~told
  /\ told' = TRUE
  /\ feed' = [m \in Mints |-> IF m = Own THEN [stage |-> 1, locked |-> FALSE]
                              ELSE NotShown]
  /\ UNCHANGED <<world, loads, failures>>

\* onDeployed: the own token is added if the feed does not have it.
OnDeployed ==
  /\ stages[Own] > 0
  /\ ~told
  /\ told' = TRUE
  /\ IF feed[Own] = NotShown
     THEN /\ feed' = [feed EXCEPT ![Own] = [stage |-> 1, locked |-> FALSE]]
          /\ loads' = [i \in DOMAIN loads |->
                         [loads[i] EXCEPT !.overlapped = TRUE]]
     ELSE UNCHANGED <<feed, loads>>
  /\ UNCHANGED <<world, failures>>

Step(i) == ReadRegistries(i) \/ ReadPools(i) \/ ReadLocks(i) \/ Apply(i)

FeedNext ==
  \/ \E m \in Mints : Register(m) \/ Advance(m)
  \/ \E named, lost \in SUBSET Mints : ConfirmLock(named, lost)
  \/ Start
  \/ \E i \in DOMAIN loads : Step(i)
  \/ OnDeployed

FeedSpec == FeedInit /\ [][FeedNext]_feedVars

\* setInterval goes on starting loads, and the calls of a load end.
FeedFairSpec ==
  /\ FeedSpec
  /\ WF_feedVars(Start)
  /\ WF_feedVars(loads # <<>> /\ Step(1))

-----------------------------------------------------------------------------
\* The values the variables take.
FeedTypeOK ==
  /\ registries \subseteq Mints
  /\ stages \in [Mints -> 0 .. Graduated]
  /\ table \subseteq had /\ had \subseteq Mints
  /\ told \in BOOLEAN
  /\ Len(loads) <= MaxInFlight
  /\ \A i \in DOMAIN loads :
       /\ loads[i].pc \in {"registries", "pools", "read"}
       /\ loads[i].mints \subseteq registries
  /\ feed \in [Mints -> [stage : -1 .. Graduated, locked : BOOLEAN]]
  /\ failures \in 0 .. MaxFailures

Behind(new, old) == new.stage < old.stage \/ (old.locked /\ ~new.locked)

\* A token goes back or is lost only by a load that failed in part, or in
\* whose time another load ended or the own token was added.  Its badge alone
\* goes also because another token had taken over its row.
GoesBackForAReason ==
  [][\A m \in Mints : Behind(feed'[m], feed[m]) =>
       \E i \in DOMAIN loads :
         /\ Ready(i)
         /\ feed' = Enriched(loads[i])
         /\ \/ loads[i].overlapped \/ loads[i].failed
            \/ feed'[m].stage >= feed[m].stage /\ m \in loads[i].gone]_feedVars

Truth ==
  [m \in Mints |-> IF m \in registries
                   THEN [stage |-> stages[m], locked |-> m \in table]
                   ELSE NotShown]

\* When nothing more changes and no more calls fail, the feed shows what is:
\* "Fetch all tokens with real pool stats" (solana.js:529).
FeedSettles == <>[][table' = table]_feedVars => <>[](feed = Truth)
=============================================================================
