-------------------------------- MODULE Chart --------------------------------
(***************************************************************************)
(* The chart on the page of a graduated token.  Selecting a range, or a    *)
(* change of the migration's state, starts a load; while the page is live  *)
(* another starts every 15 seconds.  A load reads the candles of the       *)
(* indexer, and then those of Birdeye, or a price from Jupiter to make     *)
(* candles of.  Loads are not cancelled: whatever answers is shown.        *)
(*                                                                         *)
(* A candle is its time and where it comes from.  The indexer's times are  *)
(* strings and the others numbers, so no two of them are ever equal.       *)
(***************************************************************************)
EXTENDS Integers, Sequences, FiniteSets, SequencesExt

CONSTANTS
  Ranges,
  Width,        \* of a candle of a range
  Limit,        \* candles asked for: 100
  Synthetic,    \* candles made of one price: 30
  Graduation,   \* time of the last trade on the curve
  MaxTime,      \* bound on time
  MaxLoads,     \* bound on loads at once
  MaxFaults     \* bound on calls that fail

VARIABLES
  now,
  curve,      \* times of the trades on the curve
  market,     \* times of the trades on Meteora
  range,
  live,       \* gradState is LIVE
  loads,      \* loads under way, in the order they started
  chart,
  faults

world == <<now, curve, market>>

vars == <<now, curve, market, range, live, loads, chart, faults>>

\* late says that the answer of a newer load has been shown before.
NewLoad(r, poll) ==
  [pc |-> "bonding", range |-> r, poll |-> poll, bonding |-> <<>>,
   market |-> <<>>, late |-> FALSE]

\* Random candles, labelled as simulated.
NoChart(load) ==
  [range |-> load.range, candles |-> <<>>, source |-> "bonding",
   late |-> load.late]

Init ==
  /\ now = Graduation
  /\ curve \in SUBSET (0 .. Graduation)
  /\ market = {}
  /\ range \in Ranges
  /\ live = FALSE
  /\ loads = <<NewLoad(range, FALSE)>>
  /\ chart = NoChart(loads[1])
  /\ faults = 0

Fails ==
  /\ faults < MaxFaults
  /\ faults' = faults + 1

-----------------------------------------------------------------------------
Tick ==
  /\ now < MaxTime
  /\ now' = now + 1
  /\ \/ market' = market \cup {now}
     \/ UNCHANGED market
  /\ UNCHANGED <<curve, range, live, loads, chart, faults>>

-----------------------------------------------------------------------------
(***************************************************************************)
(* What a load reads.                                                      *)
(***************************************************************************)
Bucket(t, w) == w * (t \div w)

Buckets(times, w) == {Bucket(t, w) : t \in times}

InOrder(times, source) ==
  LET ts == SetToSortSeq(times, <)
  IN  [k \in 1 .. Len(ts) |-> [t |-> ts[k], source |-> source]]

Newest(s) == SubSeq(s, IF Len(s) > Limit THEN Len(s) - Limit + 1 ELSE 1, Len(s))

fetchCandles(w) == Newest(InOrder(Buckets(curve, w), "bonding"))

birdeye(w) ==
  InOrder(Buckets({t \in market : t >= now - w * Limit}, w), "birdeye")

\* The last of them is one candle before now.
jupiter(w) ==
  LET n == IF Limit < Synthetic THEN Limit ELSE Synthetic
  IN  [k \in 1 .. n |-> [t |-> now - w * (n - k + 1), source |-> "jupiter"]]

Answers(w) ==
  {jupiter(w)} \cup (IF Len(birdeye(w)) >= 2 THEN {birdeye(w)} ELSE {})

Combined(load) ==
  LET both == load.bonding \o load.market
      before(i, j) == both[i].t < both[j].t \/ (both[i].t = both[j].t /\ i < j)
  IN  [k \in 1 .. Len(both) |-> both[SetToSortSeq(1 .. Len(both), before)[k]]]

-----------------------------------------------------------------------------
(***************************************************************************)
(* The page.                                                               *)
(***************************************************************************)
Starts(r, poll) ==
  /\ Len(loads) < MaxLoads
  /\ loads' = Append(loads, NewLoad(r, poll))

SelectRange(r) ==
  /\ r # range
  /\ range' = r
  /\ Starts(r, FALSE)
  /\ UNCHANGED <<world, live, chart, faults>>

\* The state of the migration is live; a poll of it that fails takes it back.
Status ==
  /\ live' = ~live
  /\ IF live THEN Fails ELSE UNCHANGED faults
  /\ Starts(range, FALSE)
  /\ UNCHANGED <<world, range, chart>>

Poll_AsEffect ==
  /\ live
  /\ Starts(range, FALSE)
  /\ UNCHANGED <<world, range, live, chart, faults>>

Poll ==
  /\ live
  /\ Starts(range, TRUE)
  /\ UNCHANGED <<world, range, live, chart, faults>>

\* An error reads as no candles, here and below.
ReadBonding(i) ==
  LET load == loads[i] IN
  /\ load.pc = "bonding"
  /\ \/ /\ loads' = [loads EXCEPT ![i].bonding = fetchCandles(Width[load.range]),
                                  ![i].pc = "market"]
        /\ UNCHANGED faults
     \/ /\ loads' = [loads EXCEPT ![i].pc = "market"]
        /\ Fails
  /\ UNCHANGED <<world, range, live, chart>>

\* What the effect starts does not ask for the market: it passes on the page's
\* migrationComplete, which is read from the pool and never set there.
ReadMarket(i) ==
  LET load == loads[i] IN
  /\ load.pc = "market"
  /\ \/ /\ load.poll
        /\ \E answer \in Answers(Width[load.range]) :
             loads' = [loads EXCEPT ![i].market = answer, ![i].pc = "answer"]
        /\ UNCHANGED faults
     \/ /\ loads' = [loads EXCEPT ![i].pc = "answer"]
        /\ IF load.poll THEN Fails ELSE UNCHANGED faults
  /\ UNCHANGED <<world, range, live, chart>>

\* With fewer than two candles a poll leaves the chart alone.
Shown(load) ==
  IF Len(Combined(load)) >= 2
  THEN [range |-> load.range, candles |-> Combined(load),
        source |-> IF load.market = <<>> THEN "bonding" ELSE "live",
        late |-> load.late]
  ELSE IF load.poll THEN chart ELSE NoChart(load)

Show(i) ==
  /\ loads[i].pc = "answer"
  /\ chart' = Shown(loads[i])
  /\ loads' = RemoveAt([k \in 1 .. Len(loads) |->
                          [loads[k] EXCEPT !.late = @ \/ k < i]], i)
  /\ UNCHANGED <<world, range, live, faults>>

Load(i) == ReadBonding(i) \/ ReadMarket(i) \/ Show(i)

Next ==
  \/ Tick
  \/ \E r \in Ranges : SelectRange(r)
  \/ Status \/ Poll
  \/ \E i \in 1 .. Len(loads) : Load(i)

Spec == Init /\ [][Next]_vars

\* Calls return and setInterval polls.
FairSpec ==
  /\ Spec
  /\ WF_vars(Poll)
  /\ WF_vars(loads # <<>> /\ Load(1))

-----------------------------------------------------------------------------
Candles == [t : Int, source : {"bonding", "birdeye", "jupiter"}]

\* The values the variables take.
TypeOK ==
  /\ now \in Graduation .. MaxTime
  /\ curve \subseteq 0 .. Graduation /\ market \subseteq Graduation .. MaxTime
  /\ range \in Ranges /\ live \in BOOLEAN
  /\ Len(loads) <= MaxLoads
  /\ \A i \in 1 .. Len(loads) :
       /\ loads[i].pc \in {"bonding", "market", "answer"}
       /\ loads[i].range \in Ranges
       /\ Len(loads[i].bonding) <= Limit /\ Len(loads[i].market) <= Limit + 1
       /\ \A c \in ToSet(loads[i].bonding \o loads[i].market) : c \in Candles
  /\ chart.range \in Ranges /\ chart.source \in {"bonding", "live"}
  /\ ToSet(chart.candles) \subseteq Candles
  /\ faults \in 0 .. MaxFaults

\* The page of a token that stays live shows the market in the end, however the
\* loads of ranges, of the effect and of polls overtake each other; not while the
\* user selects one range after another, which starts the 15 seconds again.
ShowsMarket ==
  <>[][FALSE]_range => (live ~> chart.source = "live" \/ ~live)

=============================================================================
