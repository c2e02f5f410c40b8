------------------------------- MODULE MCPage -------------------------------
(***************************************************************************)
(* Instances of Feed, Trade and Chart for TLC: the three parts of the page *)
(* that load, trade and draw.  They share no state (each reads the chain,  *)
(* the table of the bot or that of the indexer on its own), so that they   *)
(* are checked side by side: `part' is the one that takes its steps, the   *)
(* others stay as they begin.                                              *)
(***************************************************************************)
EXTENDS Trade, Feed

CONSTANTS m1, Ranges, Limit, Synthetic, Graduation, MaxTime, MaxLoads

\* Ranges are named by the width of their candles.
Widths == [r \in Ranges |-> r]

VARIABLES part, now, curve, market, range, live, chartLoads, chart

chartVars == <<now, curve, market, range, live, chartLoads, chart>>

\* Feed has a count of failed calls of its own; the other two share one.
pageVars == <<part, feedVars, vars, chartVars>>

C == INSTANCE Chart WITH Width <- Widths, loads <- chartLoads

Parts == {"feed", "trade", "chart"}

\* A chart that is not drawn has no trades.
PageInit ==
  /\ part \in Parts
  /\ FeedInit /\ Init /\ C!Init
  /\ part # "chart" => curve = {} /\ \A r \in Ranges : range <= r

Feeds(A) == part = "feed" /\ A /\ UNCHANGED <<part, vars, chartVars>>
Trades(A) == part = "trade" /\ A /\ UNCHANGED <<part, feedVars, chartVars>>
Charts(A) ==
  /\ part = "chart" /\ A
  /\ UNCHANGED <<part, feedVars, stage, row, page, polls, panel, flow>>

PageNext == Feeds(FeedNext) \/ Trades(Next) \/ Charts(C!Next)

\* The fairness of each part.
PageSpec ==
  /\ PageInit /\ [][PageNext]_pageVars
  /\ WF_pageVars(Feeds(Start))
  /\ WF_pageVars(Feeds(loads # <<>> /\ Step(1)))
  /\ WF_pageVars(Trades(Tick))
  /\ WF_pageVars(Trades(Poll))
  /\ \A s \in {"none", "pending", "failed", "live"} :
       WF_pageVars(Trades(Answer /\ s \in polls /\ s \notin polls'))
  /\ \A i \in 1 .. MaxFlows : WF_pageVars(Trades(AfterSign(i)))
  /\ WF_pageVars(Charts(C!Poll))
  /\ WF_pageVars(Charts(chartLoads # <<>> /\ C!Load(1)))

-----------------------------------------------------------------------------
\* The values the variables take.
PageTypeOK == part \in Parts /\ FeedTypeOK /\ TypeOK /\ C!TypeOK

\* In the end the feed shows what is.
FeedShowsAll == part = "feed" => FeedSettles

\* The page of a graduated token shows that it is live once it is.
LiveIsShown == part = "trade" => ShowsLive

\* The chart of a token that stays live shows the market in the end.
MarketIsShown == part = "chart" => C!ShowsMarket
=============================================================================
