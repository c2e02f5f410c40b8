---------------------------- MODULE RateLimiter ----------------------------
(***************************************************************************)
(* The rate limiter of the anti-vamp server, which POST /canonicalize asks *)
(* first.  A window starts with a request and lasts Window; it is not a    *)
(* sliding one.  Entries are in memory and swept every five minutes.       *)
(*                                                                         *)
(* The count of an entry is capped: more than MaxHits are as good as       *)
(* MaxHits + 1.                                                            *)
(***************************************************************************)
EXTENDS Integers, Functions

CONSTANTS
  Ips,
  Window,        \* RATE_LIMIT_WINDOW_MS
  MaxHits,       \* RATE_LIMIT_MAX
  Horizon,       \* bound on the clock
  MaxRestarts    \* bound on restarts of the server

ASSUME LimiterAssumption ==
  /\ {Window, Horizon, MaxRestarts} \subseteq Nat
  /\ MaxHits \in Nat \ {0}

VARIABLES
  now,        \* Date.now()
  limiter,    \* rateLimitMap; an entry with count 0 is none
  admitted,   \* requests of each address let through, by their time
  restarts

limiterVars == <<now, limiter, admitted, restarts>>

Times == 0 .. Horizon

NoEntry == [start |-> 0, count |-> 0]

LimiterInit ==
  /\ now = 0
  /\ limiter = [ip \in Ips |-> NoEntry]
  /\ admitted = [ip \in Ips |-> [t \in Times |-> 0]]
  /\ restarts = 0

WindowOver(entry) == entry.count = 0 \/ now - entry.start > Window

Capped(n) == IF n > MaxHits THEN MaxHits + 1 ELSE n

Counted(entry) ==
  IF WindowOver(entry) THEN [start |-> now, count |-> 1]
  ELSE [entry EXCEPT !.count = Capped(@ + 1)]

Over(ip) == Counted(limiter[ip]).count > MaxHits

isRateLimited(ip) ==
  /\ limiter' = [limiter EXCEPT ![ip] = Counted(@)]
  /\ admitted' = IF Over(ip) THEN admitted
                 ELSE [admitted EXCEPT ![ip][now] = @ + 1]
  /\ UNCHANGED <<now, restarts>>

CleanUp_All ==
  /\ limiter' = [ip \in Ips |-> NoEntry]
  /\ UNCHANGED <<now, admitted, restarts>>

\* The sweep; its timer may fire at any time.
CleanUp ==
  /\ limiter' = [ip \in Ips |->
                   IF WindowOver(limiter[ip]) THEN NoEntry ELSE limiter[ip]]
  /\ UNCHANGED <<now, admitted, restarts>>

\* Time passes; requests older than Window are forgotten, by us.
Tick ==
  /\ now < Horizon
  /\ now' = now + 1
  /\ admitted' = [ip \in Ips |-> [t \in Times |->
                    IF now' - t > Window THEN 0 ELSE admitted[ip][t]]]
  /\ UNCHANGED <<limiter, restarts>>

\* A restart loses the map.
Restart ==
  /\ restarts < MaxRestarts
  /\ restarts' = restarts + 1
  /\ limiter' = [ip \in Ips |-> NoEntry]
  /\ UNCHANGED <<now, admitted>>

LimiterNext ==
  \/ \E ip \in Ips : isRateLimited(ip)
  \/ CleanUp
  \/ Tick
  \/ Restart

LimiterSpec == LimiterInit /\ [][LimiterNext]_limiterVars

-----------------------------------------------------------------------------
\* The values the variables take.
LimiterTypeOK ==
  /\ now \in Times
  /\ limiter \in [Ips -> [start : 0 .. now, count : 0 .. MaxHits + 1]]
  /\ admitted \in [Ips -> [Times -> Nat]]
  /\ restarts \in 0 .. MaxRestarts

\* The last Window units of time.
LastWindow == {t \in 0 .. now : now - t <= Window}

AdmittedInAWindow(ip) == SumFunctionOnSet(admitted[ip], LastWindow)

\* However its requests are spread, an address has less than twice MaxHits
\* let through in any time of Window, and MaxHits more for each restart.
LoadIsBounded ==
  \A ip \in Ips : AdmittedInAWindow(ip) < (2 + restarts) * MaxHits

=============================================================================
