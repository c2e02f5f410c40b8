------------------------------ MODULE MCServer -------------------------------
(***************************************************************************)
(* Instances for TLC of what the anti-vamp server takes part in: deploys   *)
(* (Deploy), and side by side with them its rate limiter and its keys,     *)
(* which share no state with them or with each other.  `part' is the one   *)
(* that takes its steps, the others stay as they begin.                    *)
(***************************************************************************)
EXTENDS MCDeploy, RateLimiter, Sources

CONSTANTS ip1, ip2

VARIABLE part

serverVars == <<part, vars, limiterVars, link>>

Parts == {"deploys", "limiter", "keys"}

ServerInit ==
  /\ part \in Parts
  /\ Init /\ LimiterInit
  /\ IF part = "keys" THEN SourcesInit ELSE link = CHOOSE u \in Links : TRUE

Deploys(A) == part = "deploys" /\ A /\ UNCHANGED <<part, limiterVars, link>>
Limits(A) == part = "limiter" /\ A /\ UNCHANGED <<part, vars, link>>
Keys(A) == part = "keys" /\ A /\ UNCHANGED <<part, vars, limiterVars>>

ServerNext == Deploys(Next) \/ Limits(LimiterNext) \/ Keys(SourcesNext)

\* The fairness of Deploy.
ServerSpec ==
  /\ ServerInit /\ [][ServerNext]_serverVars
  /\ \A m \in Mints : WF_serverVars(Deploys(Step(m)))
  /\ WF_serverVars(Deploys(\E tx \in sent : Land(tx) \/ Expire(tx)))

-----------------------------------------------------------------------------
\* The values the variables take.
ServerTypeOK == part \in Parts /\ TypeOK /\ LimiterTypeOK /\ link \in Links
=============================================================================
