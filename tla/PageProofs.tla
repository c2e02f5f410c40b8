------------------------------ MODULE PageProofs ------------------------------
(***************************************************************************)
(* What is proved of the browser: what the panel of a token's page says of *)
(* a trade is so (Trade), and a token goes back in the feed, or is lost    *)
(* from it, for a reason only (Feed).                                      *)
(***************************************************************************)
EXTENDS Trade, Feed, TLAPS

(***************************************************************************)
(* Trade.                                                                  *)
(***************************************************************************)
FlowRec ==
  [pc : {"new", "build", "blockhash", "sign", "send", "until", "confirm", "over"},
   route : {"none", "curve", "jupiter"}, side : {"none", "buy", "sell"},
   left : -1 .. Valid, until : -1 .. Valid,
   sent : BOOLEAN, landed : {"no", "ok", "error"}, broken : BOOLEAN,
   shows : {"nothing", "done", "failed", "expired", "cancelled"}]

\* Nothing is sent before it is signed, and what is not sent does not land.
UnsentUnlanded(f) ==
  /\ f.landed # "no" => f.sent
  /\ f.pc \in {"new", "build", "blockhash", "sign", "send"} => ~f.sent

\* The panel waits until the transaction is too old to land: for the curve it
\* is signed with the blockhash that is confirmed with.
WaitsLongEnough(f) ==
  f.pc = "confirm" \/ (f.pc \in {"sign", "send"} /\ f.route = "curve")
    => f.left <= f.until

\* What is shown, with what still keeps it so.
ShowsWhatIs(f) ==
  /\ f.pc # "over" => f.shows = "nothing" /\ ~f.broken
  /\ f.broken => f.shows = "failed"
  /\ f.shows = "done" => f.landed = "ok"
  /\ f.shows = "cancelled" => ~f.sent
  /\ f.shows = "failed" => f.broken \/ ~f.sent \/ f.landed = "error"
  /\ f.shows = "expired" => f.landed = "no" /\ f.left < 0

Honest(f) == UnsentUnlanded(f) /\ WaitsLongEnough(f) /\ ShowsWhatIs(f)

HonestFlow == \A i \in Flows : Honest(flow[i])

-----------------------------------------------------------------------------
LEMMA FlowType ==
  TypeOK => flow \in [Flows -> FlowRec]
  BY DEF TypeOK, FlowRec

LEMMA TradeInits ==
  Init => TypeOK /\ HonestFlow
<1> SUFFICES ASSUME Init PROVE TypeOK /\ HonestFlow
  OBVIOUS
<1>1. TypeOK
  BY TradeAssumption DEF Init, TypeOK, NewFlow, Closed, Flows
<1>2. HonestFlow
  BY DEF Init, NewFlow, HonestFlow, Honest, UnsentUnlanded, WaitsLongEnough,
         ShowsWhatIs
<1> QED
  BY <1>1, <1>2

\* A step that gives one flow a new record.
LEMMA OneFlow ==
  ASSUME TypeOK, HonestFlow, NEW i \in Flows, NEW g \in FlowRec, Honest(g),
         flow' = [flow EXCEPT ![i] = g]
  PROVE  flow' \in [Flows -> FlowRec] /\ HonestFlow'
<1>1. flow \in [Flows -> FlowRec]
  BY FlowType
<1>2. \A j \in Flows : flow'[j] = IF j = i THEN g ELSE flow[j]
  BY <1>1
<1>3. \A j \in Flows : Honest(flow'[j])
  BY <1>2 DEF HonestFlow
<1>4. HonestFlow'
  BY <1>3 DEF HonestFlow, Flows, Honest, UnsentUnlanded, WaitsLongEnough,
              ShowsWhatIs
<1> QED
  BY <1>1, <1>4

\* ... and leaves the world alone.
LEMMA FlowStep ==
  ASSUME TypeOK, HonestFlow, NEW i \in Flows, NEW g \in FlowRec, Honest(g),
         Goes(i, g), faults' \in 0 .. MaxFaults
  PROVE  TypeOK' /\ HonestFlow'
<1>1. flow' \in [Flows -> FlowRec] /\ HonestFlow'
  BY OneFlow DEF Goes
<1>2. TypeOK'
  BY <1>1 DEF TypeOK, Goes, FlowRec, Flows
<1> QED
  BY <1>1, <1>2

LEMMA FaultsStay ==
  ASSUME TypeOK, Fails \/ UNCHANGED faults
  PROVE  faults' \in 0 .. MaxFaults
  BY TradeAssumption DEF TypeOK, Fails

LEMMA BreaksKeeps ==
  ASSUME TypeOK, HonestFlow, NEW i \in Flows, NEW s \in BOOLEAN, Breaks(i, s),
         ~s => ~flow[i].sent
  PROVE  TypeOK' /\ HonestFlow'
<1> PICK g : g = [flow[i] EXCEPT !.pc = "over", !.shows = "failed",
                                 !.sent = s, !.broken = TRUE]
  OBVIOUS
<1>1. flow[i] \in FlowRec /\ Honest(flow[i])
  BY FlowType DEF HonestFlow
<1>2. g \in FlowRec
  BY <1>1 DEF FlowRec
<1>3. Honest(g)
  BY <1>1 DEF FlowRec, Honest, UnsentUnlanded, WaitsLongEnough, ShowsWhatIs
<1>4. Goes(i, g) /\ faults' \in 0 .. MaxFaults
  BY FaultsStay DEF Breaks
<1> QED
  BY <1>2, <1>3, <1>4, FlowStep

\* A flow that ends and says what is so.
LEMMA EndsKeeps ==
  ASSUME TypeOK, HonestFlow, NEW i \in Flows,
         NEW shows \in {"done", "failed", "expired", "cancelled"},
         Ends(i, shows), UNCHANGED faults, ~flow[i].broken,
         shows = "done" => flow[i].landed = "ok",
         shows = "cancelled" => ~flow[i].sent,
         shows = "failed" => ~flow[i].sent \/ flow[i].landed = "error",
         shows = "expired" => flow[i].landed = "no" /\ flow[i].left < 0
  PROVE  TypeOK' /\ HonestFlow'
<1> PICK g : g = [flow[i] EXCEPT !.pc = "over", !.shows = shows]
  OBVIOUS
<1>1. flow[i] \in FlowRec /\ Honest(flow[i])
  BY FlowType DEF HonestFlow
<1>2. g \in FlowRec
  BY <1>1, ZenonT(60) DEF FlowRec
<1>3. Honest(g)
  BY <1>1 DEF FlowRec, Honest, UnsentUnlanded, WaitsLongEnough, ShowsWhatIs
<1>4. Goes(i, g) /\ faults' \in 0 .. MaxFaults
  BY FaultsStay DEF Ends
<1> QED
  BY <1>2, <1>3, <1>4, FlowStep

\* A flow that goes on.
LEMMA GoesOnKeeps ==
  ASSUME TypeOK, HonestFlow, NEW i \in Flows, UNCHANGED faults,
         flow[i].pc # "over",
         NEW pc \in {"blockhash", "sign", "send", "until", "confirm"},
         NEW left \in -1 .. Valid, NEW until \in -1 .. Valid, NEW s \in BOOLEAN,
         Goes(i, [flow[i] EXCEPT !.pc = pc, !.left = left, !.until = until,
                                 !.sent = s]),
         flow[i].landed # "no" => s,
         pc \in {"blockhash", "sign", "send"} => ~s,
         pc = "confirm" \/ (pc \in {"sign", "send"} /\ flow[i].route = "curve")
           => left <= until
  PROVE  TypeOK' /\ HonestFlow'
<1> PICK g : g = [flow[i] EXCEPT !.pc = pc, !.left = left, !.until = until,
                                 !.sent = s]
  OBVIOUS
<1>1. flow[i] \in FlowRec /\ Honest(flow[i])
  BY FlowType DEF HonestFlow
<1>2. g \in FlowRec
  BY <1>1 DEF FlowRec
<1>3. Honest(g)
  BY <1>1 DEF FlowRec, Honest, UnsentUnlanded, WaitsLongEnough, ShowsWhatIs
<1>4. Goes(i, g) /\ faults' \in 0 .. MaxFaults
  BY FaultsStay
<1> QED
  BY <1>2, <1>3, <1>4, FlowStep

\* A record with two fields of its own written again is the same record.
LEMMA SameRecord ==
  ASSUME NEW f \in FlowRec, NEW pc, NEW left, NEW until, NEW s
  PROVE  /\ [f EXCEPT !.pc = pc, !.left = left]
              = [f EXCEPT !.pc = pc, !.left = left, !.until = f.until,
                          !.sent = f.sent]
         /\ [f EXCEPT !.pc = pc, !.left = left, !.until = until]
              = [f EXCEPT !.pc = pc, !.left = left, !.until = until,
                          !.sent = f.sent]
         /\ [f EXCEPT !.pc = pc]
              = [f EXCEPT !.pc = pc, !.left = f.left, !.until = f.until,
                          !.sent = f.sent]
         /\ [f EXCEPT !.sent = s, !.pc = pc]
              = [f EXCEPT !.pc = pc, !.left = f.left, !.until = f.until,
                          !.sent = s]
         /\ [f EXCEPT !.pc = pc, !.until = until]
              = [f EXCEPT !.pc = pc, !.left = f.left, !.until = until,
                          !.sent = f.sent]
  BY DEF FlowRec

-----------------------------------------------------------------------------
LEMMA BuildKeeps ==
  ASSUME TypeOK, HonestFlow, NEW i \in Flows, Build(i)
  PROVE  TypeOK' /\ HonestFlow'
<1> PICK f : f = flow[i]
  OBVIOUS
<1>1. f \in FlowRec /\ Honest(f) /\ f.pc = "build" /\ Valid \in -1 .. Valid
  BY FlowType, TradeAssumption DEF HonestFlow, Build
<1>2. ~f.sent /\ ~f.broken /\ f.landed = "no"
  BY <1>1 DEF Honest, UnsentUnlanded, ShowsWhatIs, FlowRec
<1>3. f.until \in -1 .. Valid /\ f.sent \in BOOLEAN
  BY <1>1 DEF FlowRec
<1>4. CASE buildSwapTx(i) /\ UNCHANGED faults
  <2>1. Goes(i, [f EXCEPT !.pc = "blockhash", !.left = Valid,
                          !.until = f.until, !.sent = f.sent])
    BY <1>1, <1>4, SameRecord, ZenonT(60) DEF buildSwapTx
  <2> QED
    BY <1>1, <1>2, <1>3, <1>4, <2>1, GoesOnKeeps, ZenonT(60)
<1>5. CASE buildJupiterSwapTx(i) /\ UNCHANGED faults
  <2>1. CASE row = "live"
    <3>1. Goes(i, [f EXCEPT !.pc = "sign", !.left = Valid,
                            !.until = f.until, !.sent = f.sent])
      BY <1>1, <1>5, <2>1, SameRecord DEF buildJupiterSwapTx
    <3> QED
      BY <1>1, <1>2, <1>3, <1>5, <3>1, GoesOnKeeps, ZenonT(60) DEF buildJupiterSwapTx
  <2>2. CASE row # "live"
    <3>1. Ends(i, "failed")
      BY <1>5, <2>2 DEF buildJupiterSwapTx
    <3> QED
      BY <1>2, <1>5, <3>1, EndsKeeps
  <2> QED
    BY <2>1, <2>2
<1>6. CASE Breaks(i, FALSE)
  BY <1>2, <1>6, BreaksKeeps
<1> QED
  BY <1>4, <1>5, <1>6 DEF Build

LEMMA BlockhashKeeps ==
  ASSUME TypeOK, HonestFlow, NEW i \in Flows, Blockhash(i)
  PROVE  TypeOK' /\ HonestFlow'
<1> PICK f : f = flow[i]
  OBVIOUS
<1>1. /\ f \in FlowRec /\ Honest(f) /\ f.pc = "blockhash"
      /\ Valid \in -1 .. Valid /\ Valid <= Valid
  BY FlowType, TradeAssumption DEF HonestFlow, Blockhash
<1>2. ~f.sent /\ ~f.broken /\ f.landed = "no" /\ f.sent \in BOOLEAN
  BY <1>1, SMTT(30) DEF Honest, UnsentUnlanded, ShowsWhatIs, FlowRec
<1>3. CASE /\ Goes(i, [f EXCEPT !.pc = "sign", !.left = Valid, !.until = Valid])
           /\ UNCHANGED faults
  <2>1. Goes(i, [f EXCEPT !.pc = "sign", !.left = Valid, !.until = Valid,
                          !.sent = f.sent])
    BY <1>1, <1>3, SameRecord
  <2> QED
    BY <1>1, <1>2, <1>3, <2>1, GoesOnKeeps, ZenonT(60)
<1>4. CASE Breaks(i, FALSE)
  BY <1>2, <1>4, BreaksKeeps
<1> QED
  BY <1>3, <1>4 DEF Blockhash

LEMMA SignKeeps ==
  ASSUME TypeOK, HonestFlow, NEW i \in Flows, Sign(i)
  PROVE  TypeOK' /\ HonestFlow'
<1> PICK f : f = flow[i]
  OBVIOUS
<1>1. f \in FlowRec /\ Honest(f) /\ f.pc = "sign" /\ UNCHANGED faults
  BY FlowType DEF HonestFlow, Sign
<1>2. /\ ~f.sent /\ ~f.broken /\ f.landed = "no" /\ f.sent \in BOOLEAN
      /\ f.left \in -1 .. Valid /\ f.until \in -1 .. Valid
      /\ f.route = "curve" => f.left <= f.until
  BY <1>1 DEF Honest, UnsentUnlanded, WaitsLongEnough, ShowsWhatIs, FlowRec
<1>3. CASE Goes(i, [f EXCEPT !.pc = "send"])
  <2>1. Goes(i, [f EXCEPT !.pc = "send", !.left = f.left, !.until = f.until,
                          !.sent = f.sent])
    BY <1>1, <1>3, SameRecord
  <2> QED
    BY <1>1, <1>2, <2>1, GoesOnKeeps, ZenonT(60)
<1>4. CASE Ends(i, "cancelled")
  BY <1>1, <1>2, <1>4, EndsKeeps
<1> QED
  BY <1>3, <1>4 DEF Sign

LEMMA SendKeeps ==
  ASSUME TypeOK, HonestFlow, NEW i \in Flows, Send(i)
  PROVE  TypeOK' /\ HonestFlow'
<1> PICK f : f = flow[i]
  OBVIOUS
<1>1. f \in FlowRec /\ Honest(f) /\ f.pc = "send"
  BY FlowType DEF HonestFlow, Send
<1>2. /\ ~f.sent /\ ~f.broken /\ f.landed = "no"
      /\ f.left \in -1 .. Valid /\ f.until \in -1 .. Valid
      /\ f.route = "curve" => f.left <= f.until
  BY <1>1 DEF Honest, UnsentUnlanded, WaitsLongEnough, ShowsWhatIs, FlowRec
<1>3. CASE /\ Goes(i, [f EXCEPT !.sent = TRUE, !.pc =
                         IF f.route = "curve" THEN "confirm" ELSE "until"])
           /\ UNCHANGED faults
  <2>1. PICK pc \in {"confirm", "until"} :
          pc = IF f.route = "curve" THEN "confirm" ELSE "until"
    OBVIOUS
  <2>2. Goes(i, [f EXCEPT !.pc = pc, !.left = f.left, !.until = f.until,
                          !.sent = TRUE])
    BY <1>1, <1>3, <2>1, SameRecord
  <2> QED
    BY <1>1, <1>2, <1>3, <2>1, <2>2, GoesOnKeeps, ZenonT(60)
<1>4. CASE Ends(i, "failed") /\ UNCHANGED faults
  BY <1>2, <1>4, EndsKeeps
<1>5. CASE Breaks(i, TRUE)
  BY <1>5, BreaksKeeps
<1> QED
  BY <1>3, <1>4, <1>5 DEF Send

LEMMA UntilKeeps ==
  ASSUME TypeOK, HonestFlow, NEW i \in Flows, Until(i)
  PROVE  TypeOK' /\ HonestFlow'
<1> PICK f : f = flow[i]
  OBVIOUS
<1>1. f \in FlowRec /\ Honest(f) /\ f.pc = "until"
  BY FlowType DEF HonestFlow, Until
<1>2. /\ f.landed # "no" => f.sent
      /\ ~f.broken /\ f.sent \in BOOLEAN
      /\ f.left \in -1 .. Valid /\ f.left <= Valid /\ Valid \in -1 .. Valid
  BY <1>1, TradeAssumption DEF Honest, UnsentUnlanded, ShowsWhatIs, FlowRec
<1>3. CASE /\ Goes(i, [f EXCEPT !.pc = "confirm", !.until = Valid])
           /\ UNCHANGED faults
  <2>1. Goes(i, [f EXCEPT !.pc = "confirm", !.left = f.left, !.until = Valid,
                          !.sent = f.sent])
    BY <1>1, <1>3, SameRecord
  <2> QED
    BY <1>1, <1>2, <1>3, <2>1, GoesOnKeeps, ZenonT(60)
<1>4. CASE Breaks(i, TRUE)
  BY <1>4, BreaksKeeps
<1> QED
  BY <1>3, <1>4 DEF Until

LEMMA ConfirmKeeps ==
  ASSUME TypeOK, HonestFlow, NEW i \in Flows, Confirm(i)
  PROVE  TypeOK' /\ HonestFlow'
<1> PICK f : f = flow[i]
  OBVIOUS
<1>1. f \in FlowRec /\ Honest(f) /\ f.pc = "confirm"
  BY FlowType DEF HonestFlow, Confirm
<1>2. /\ ~f.broken /\ f.left \in -1 .. Valid /\ f.until \in -1 .. Valid
      /\ f.left <= f.until
  BY <1>1 DEF Honest, ShowsWhatIs, WaitsLongEnough, FlowRec
<1>3. CASE f.landed = "ok" /\ Ends(i, "done") /\ UNCHANGED faults
  BY <1>2, <1>3, EndsKeeps
<1>4. CASE f.landed = "error" /\ Ends(i, "failed") /\ UNCHANGED faults
  BY <1>2, <1>4, EndsKeeps
<1>5. CASE /\ f.landed = "no" /\ f.until < 0
           /\ Ends(i, "expired") /\ UNCHANGED faults
  <2>1. f.left < 0
    BY <1>2, <1>5
  <2> QED
    BY <1>2, <1>5, <2>1, EndsKeeps
<1>6. CASE Breaks(i, TRUE)
  BY <1>6, BreaksKeeps
<1> QED
  BY <1>3, <1>4, <1>5, <1>6 DEF Confirm

LEMMA PressKeeps ==
  ASSUME TypeOK, HonestFlow, NEW i \in Flows, Press(i)
  PROVE  TypeOK' /\ HonestFlow'
<1>1. PICK side \in Sides :
        flow' = [flow EXCEPT ![i] =
                  [NewFlow EXCEPT !.pc = "build", !.side = side,
                     !.route = IF page.stage = Top THEN "jupiter" ELSE "curve"]]
  BY DEF Press
<1>2. PICK g :
        g = [NewFlow EXCEPT !.pc = "build", !.side = side,
               !.route = IF page.stage = Top THEN "jupiter" ELSE "curve"]
  OBVIOUS
<1>3. g \in FlowRec
  <2>1. side \in {"none", "buy", "sell"} /\ -1 \in -1 .. Valid
    BY TradeAssumption
  <2> QED
    BY <1>2, <2>1 DEF NewFlow, FlowRec
<1>4. Honest(g)
  BY <1>2 DEF NewFlow, Honest, UnsentUnlanded, WaitsLongEnough, ShowsWhatIs
<1>5. flow' \in [Flows -> FlowRec] /\ HonestFlow'
  BY <1>1, <1>2, <1>3, <1>4, OneFlow
<1>6. i \in 0 .. MaxFlows
  BY DEF Flows
<1>7. TypeOK'
  BY <1>5, <1>6 DEF TypeOK, Press, FlowRec, Flows
<1> QED
  BY <1>5, <1>7

\* Nothing lands twice, or when it is too old.
LEMMA LandKeeps ==
  ASSUME TypeOK, HonestFlow, NEW i \in Flows, Land(i)
  PROVE  TypeOK' /\ HonestFlow'
<1> PICK f : f = flow[i]
  OBVIOUS
<1>1. /\ f \in FlowRec /\ Honest(f)
      /\ f.sent /\ f.landed = "no" /\ f.left >= 0
  BY FlowType DEF HonestFlow, Land
<1>2. PICK landed \in {"ok", "error"} :
        flow' = [flow EXCEPT ![i].landed = landed]
  BY DEF Land
<1>3. PICK g : g = [f EXCEPT !.landed = landed]
  OBVIOUS
<1>4. flow' = [flow EXCEPT ![i] = g]
  BY <1>2, <1>3
<1>5. g \in FlowRec
  BY <1>1, <1>3 DEF FlowRec
<1>6. Honest(g)
  BY <1>1, <1>3
     DEF FlowRec, Honest, UnsentUnlanded, WaitsLongEnough, ShowsWhatIs
<1>7. flow' \in [Flows -> FlowRec] /\ HonestFlow'
  BY <1>4, <1>5, <1>6, OneFlow
<1>8. /\ stage' \in 0 .. Top /\ stage' >= stage
      /\ stage = Top => stage' = Top
  BY <1>1, TradeAssumption DEF Land, Possible, TypeOK
<1>9. TypeOK'
  BY <1>7, <1>8, TradeAssumption, SMTT(30) DEF TypeOK, Land, FlowRec, Flows
<1> QED
  BY <1>7, <1>9

\* Blocks pass for both blockhashes alike.
LEMMA TickKeeps ==
  ASSUME TypeOK, HonestFlow, Tick
  PROVE  TypeOK' /\ HonestFlow'
<1>1. flow \in [Flows -> FlowRec]
  BY FlowType
<1>2. \A n \in -1 .. Valid : /\ Older(n) \in -1 .. Valid
                            /\ Older(n) <= n /\ (n < 0 => Older(n) < 0)
  BY TradeAssumption DEF Older
<1>3. \A m, n \in -1 .. Valid : m <= n => Older(m) <= Older(n)
  BY TradeAssumption DEF Older
<1>4. ASSUME NEW j \in Flows
      PROVE  flow'[j] \in FlowRec /\ Honest(flow'[j])
  <2> PICK f, g : f = flow[j] /\ g = flow'[j]
    OBVIOUS
  <2>1. f \in FlowRec /\ Honest(f)
    BY <1>1 DEF HonestFlow
  <2>2. g = [f EXCEPT !.left = Older(@), !.until = Older(@)]
    BY DEF Tick
  <2>3. PICK l \in -1 .. Valid, u \in -1 .. Valid :
          /\ l = Older(f.left) /\ u = Older(f.until)
          /\ f.left < 0 => l < 0
          /\ f.left <= f.until => l <= u
    BY <1>2, <1>3, <2>1 DEF FlowRec
  <2>4. g = [f EXCEPT !.left = l, !.until = u]
    BY <2>1, <2>2, <2>3 DEF FlowRec
  <2>5. g \in FlowRec
    BY <2>1, <2>4 DEF FlowRec
  <2>6. Honest(g)
    BY <2>1, <2>3, <2>4
       DEF FlowRec, Honest, UnsentUnlanded, WaitsLongEnough, ShowsWhatIs
  <2> QED
    BY <2>5, <2>6
<1>5. flow' = [j \in Flows |-> flow'[j]]
  BY DEF Tick
<1>6. flow' \in [Flows -> FlowRec]
  BY <1>4, <1>5
<1>7. HonestFlow'
  BY <1>4, SMTT(30) DEF HonestFlow, Flows, Honest, UnsentUnlanded, WaitsLongEnough,
              ShowsWhatIs
<1>8. TypeOK'
  BY <1>6 DEF TypeOK, Tick, FlowRec, Flows
<1> QED
  BY <1>7, <1>8

\* What happens beside the flows.
LEMMA FlowsKept ==
  ASSUME HonestFlow, UNCHANGED flow
  PROVE  HonestFlow'
  BY DEF HonestFlow, Flows, Honest, UnsentUnlanded, WaitsLongEnough, ShowsWhatIs

LEMMA BesideKeeps ==
  ASSUME TypeOK, HonestFlow,
         OthersBuy \/ Migrate \/ Select \/ Close \/ Poll \/ Answer
  PROVE  TypeOK' /\ HonestFlow'
<1>1. CASE OthersBuy
  BY <1>1, TradeAssumption, FlowsKept DEF OthersBuy, TypeOK
<1>2. CASE Migrate
  BY <1>2, FlowsKept DEF Migrate, TypeOK
<1>3. CASE Select
  BY <1>3, FlowsKept DEF Select, TypeOK
<1>4. CASE Close
  <2>1. 0 \in 0 .. stage /\ 0 \in 0 .. MaxFlows
    BY TradeAssumption DEF TypeOK
  <2> QED
    BY <1>4, <2>1, FlowsKept DEF Close, Closed, TypeOK
<1>5. CASE Poll
  <2>1. faults' \in 0 .. MaxFaults
    BY <1>5, FaultsStay DEF Poll
  <2> QED
    BY <1>5, <2>1, FlowsKept DEF Poll, TypeOK
<1>6. CASE Answer
  BY <1>6, FlowsKept DEF Answer, TypeOK
<1> QED
  BY <1>1, <1>2, <1>3, <1>4, <1>5, <1>6

LEMMA TradeStutters ==
  ASSUME TypeOK, HonestFlow, UNCHANGED vars
  PROVE  TypeOK' /\ HonestFlow'
  BY FlowsKept DEF vars, TypeOK

LEMMA TradeSteps ==
  ASSUME TypeOK, HonestFlow, [Next]_vars
  PROVE  TypeOK' /\ HonestFlow'
<1>1. CASE OthersBuy \/ Migrate \/ Select \/ Close \/ Poll \/ Answer
  BY <1>1, BesideKeeps
<1>2. CASE Tick
  BY <1>2, TickKeeps
<1>3. ASSUME NEW i \in Flows,
             \/ Press(i) \/ Build(i) \/ Blockhash(i) \/ Sign(i)
             \/ AfterSign(i) \/ Land(i)
      PROVE  TypeOK' /\ HonestFlow'
  BY <1>3, PressKeeps, BuildKeeps, BlockhashKeeps, SignKeeps, SendKeeps,
     UntilKeeps, ConfirmKeeps, LandKeeps DEF AfterSign
<1>4. CASE UNCHANGED vars
  BY <1>4, TradeStutters
<1> QED
  BY <1>1, <1>2, <1>3, <1>4 DEF Next

LEMMA TradeInvariant ==
  Spec => [](TypeOK /\ HonestFlow)
<1>1. TypeOK /\ HonestFlow /\ [Next]_vars => (TypeOK /\ HonestFlow)'
  BY TradeSteps
<1> QED
  BY TradeInits, <1>1, PTL DEF Spec

\* The chain, the page and the flows keep their types, for any number of flows
\* and faults and however long a blockhash is valid (App.jsx, SwapPanel).
THEOREM TypeCorrect ==
  Spec => []TypeOK
BY TradeInvariant, PTL

\* What the panel says of a trade is so unless a call of the flow failed: a
\* transaction is confirmed with the blockhash it is sent with, or a later
\* one, and given up only when it is too old to land (App.jsx, SwapPanel).
THEOREM PanelTells ==
  Spec => []ShownIsSo
<1>1. TypeOK /\ HonestFlow => ShownIsSo
  <2> SUFFICES ASSUME TypeOK, HonestFlow, NEW i \in Flows
               PROVE  /\ flow[i].shows = "done" => flow[i].landed = "ok"
                      /\ flow[i].shows \in {"failed", "cancelled", "expired"}
                           /\ ~flow[i].broken => flow[i].landed # "ok"
    BY DEF ShownIsSo
  <2>1. Honest(flow[i]) /\ flow[i] \in FlowRec
    BY FlowType DEF HonestFlow
  <2> QED
    BY <2>1 DEF Honest, ShowsWhatIs, UnsentUnlanded, FlowRec
<1> QED
  BY TradeInvariant, <1>1, PTL

(***************************************************************************)
(* Feed.                                                                   *)
(***************************************************************************)
LoadRec ==
  [pc : {"registries", "pools", "read"}, mints : SUBSET Mints,
   stages : [Mints -> 0 .. Graduated], locked : SUBSET Mints,
   gone : SUBSET Mints, hasLocks : BOOLEAN, overlapped : BOOLEAN, failed : BOOLEAN]

FeedTypes ==
  /\ registries \subseteq Mints
  /\ stages \in [Mints -> 0 .. Graduated]
  /\ table \subseteq had /\ had \subseteq Mints
  /\ told \in BOOLEAN
  /\ loads \in Seq(LoadRec)
  /\ feed \in [Mints -> [stage : -1 .. Graduated, locked : BOOLEAN]]
  /\ failures \in 0 .. MaxFailures

\* A load has read of the chain and of the table what was so once.
NotAhead(l) ==
  /\ l.mints \subseteq registries
  /\ \A m \in Mints : l.stages[m] <= stages[m]
  /\ l.locked \subseteq had

\* What a load has read is no older than what is shown, if none of its calls
\* has failed and the feed is as it was when it began.
UpToDate(l) ==
  ~l.overlapped /\ ~l.failed =>
    \A m \in Mints :
      /\ l.pc # "registries" /\ m \notin l.mints => feed[m] = NotShown
      /\ l.pc = "read" => feed[m].stage <= l.stages[m]
      /\ l.hasLocks /\ feed[m].locked => m \in l.locked \cup l.gone

\* Nor does the feed show what is not so yet.
FeedNotAhead ==
  \A m \in Mints :
    /\ feed[m] # NotShown => m \in registries
    /\ feed[m].stage <= stages[m]
    /\ feed[m].locked => m \in had

LoadsNotAhead == \A i \in DOMAIN loads : NotAhead(loads[i])

LoadsUpToDate == \A i \in DOMAIN loads : UpToDate(loads[i])

\* Only what is registered has a pool.
StagesRegistered == \A m \in Mints : stages[m] > 0 => m \in registries

FeedInv ==
  /\ FeedTypes
  /\ StagesRegistered
  /\ FeedNotAhead
  /\ LoadsNotAhead
  /\ LoadsUpToDate

FeedBounded == Len(loads) <= MaxInFlight

-----------------------------------------------------------------------------
LEMMA SeqExcept ==
  ASSUME NEW S, NEW s \in Seq(S), NEW i \in DOMAIN s, NEW g \in S,
         NEW t, t = [s EXCEPT ![i] = g]
  PROVE  /\ t \in Seq(S) /\ DOMAIN t = DOMAIN s /\ Len(t) = Len(s)
         /\ \A j \in DOMAIN s : t[j] = IF j = i THEN g ELSE s[j]
  OBVIOUS

\* Past its first part a concatenation is its second.
LEMMA ConcatSecond ==
  ASSUME NEW S, NEW a \in Seq(S), NEW b \in Seq(S),
         NEW k \in Len(a) + 1 .. Len(a) + Len(b)
  PROVE  (a \o b)[k] = b[k - Len(a)]
<1>1. Len(a) \in Nat /\ Len(b) \in Nat /\ k \in Nat /\ k > Len(a)
  OBVIOUS
<1> QED
  BY <1>1

LEMMA SeqRemove ==
  ASSUME NEW S, NEW s \in Seq(S), NEW i \in DOMAIN s
  PROVE  /\ RemoveAt(s, i) \in Seq(S) /\ Len(RemoveAt(s, i)) = Len(s) - 1
         /\ \A k \in DOMAIN RemoveAt(s, i) :
              \E j \in DOMAIN s : RemoveAt(s, i)[k] = s[j]
<1>1. i \in 1 .. Len(s) /\ Len(s) \in Nat
  OBVIOUS
<1>2. PICK a, b : a = SubSeq(s, 1, i - 1) /\ b = SubSeq(s, i + 1, Len(s))
  OBVIOUS
<1>3. /\ a \in Seq(S) /\ Len(a) = i - 1
      /\ \A k \in 1 .. i - 1 : a[k] = s[k]
  BY <1>1, <1>2
<1>4. /\ b \in Seq(S) /\ Len(b) = Len(s) - i
      /\ \A k \in 1 .. Len(s) - i : b[k] = s[k + i]
  BY <1>1, <1>2
<1>5. PICK c : c = a \o b
  OBVIOUS
<1>6. /\ c \in Seq(S) /\ Len(c) = Len(s) - 1 /\ DOMAIN c = 1 .. Len(s) - 1
  BY <1>1, <1>3, <1>4, <1>5
<1>7. ASSUME NEW k \in 1 .. Len(s) - 1
      PROVE  \E j \in DOMAIN s : c[k] = s[j]
  <2>1. CASE k <= i - 1
    <3>1. k \in 1 .. i - 1 /\ k \in DOMAIN s
      BY <1>1, <2>1
    <3>2. c[k] = a[k]
      BY <1>3, <1>4, <1>5, <3>1
    <3> QED
      BY <1>3, <3>1, <3>2
  <2>2. CASE k > i - 1
    <3>1. /\ k - (i - 1) \in 1 .. Len(s) - i /\ k + 1 \in DOMAIN s
          /\ k - (i - 1) + i = k + 1
      BY <1>1, <2>2
    <3>2. c[k] = b[k - (i - 1)]
      <4>1. /\ a \in Seq(S) /\ Len(a) = i - 1 /\ b \in Seq(S)
            /\ Len(b) = Len(s) - i
        BY <1>3, <1>4
      <4>2. k \in Len(a) + 1 .. Len(a) + Len(b)
        BY <1>1, <2>2, <4>1
      <4>3. (a \o b)[k] = b[k - Len(a)]
        BY <4>1, <4>2, ConcatSecond
      <4> QED
        BY <1>5, <4>1, <4>3
    <3> QED
      BY <1>4, <3>1, <3>2
  <2> QED
    BY <1>1, <2>1, <2>2
<1>8. RemoveAt(s, i) = c
  BY <1>2, <1>5 DEF RemoveAt
<1> QED
  BY <1>6, <1>7, <1>8

LEMMA FeedInits ==
  FeedInit => FeedInv /\ FeedBounded
<1> SUFFICES ASSUME FeedInit PROVE FeedInv /\ FeedBounded
  OBVIOUS
<1>1. FeedTypes /\ FeedBounded
  <2>1. /\ 0 \in 0 .. Graduated /\ -1 \in -1 .. Graduated
        /\ 0 \in 0 .. MaxFailures /\ 0 <= MaxInFlight
    BY FeedAssumption
  <2>2. loads = <<>> /\ Len(loads) = 0 /\ loads \in Seq(LoadRec)
    BY DEF FeedInit
  <2>3. NotShown \in [stage : -1 .. Graduated, locked : BOOLEAN]
    BY <2>1 DEF NotShown
  <2> QED
    BY <2>1, <2>2, <2>3 DEF FeedInit, FeedTypes, FeedBounded
<1>2. StagesRegistered /\ FeedNotAhead /\ LoadsNotAhead /\ LoadsUpToDate
  BY FeedAssumption DEF FeedInit, NotShown, StagesRegistered, FeedNotAhead,
                        LoadsNotAhead, LoadsUpToDate
<1> QED
  BY <1>1, <1>2 DEF FeedInv

LEMMA FailuresStay ==
  ASSUME FeedTypes, FeedFails \/ UNCHANGED failures
  PROVE  failures' \in 0 .. MaxFailures
  BY FeedAssumption DEF FeedTypes, FeedFails

\* What is on chain and what has been in the table only grows, and what has been
\* read of it stays behind.
LEMMA WorldGrows ==
  ASSUME FeedInv, UNCHANGED <<told, loads, feed, failures>>,
         registries' \subseteq Mints, registries \subseteq registries',
         stages' \in [Mints -> 0 .. Graduated],
         \A m \in Mints : stages[m] <= stages'[m],
         \A m \in Mints : stages'[m] > 0 => m \in registries',
         had' \subseteq Mints, had \subseteq had', table' \subseteq had'
  PROVE  FeedInv'
<1>1. FeedTypes'
  BY DEF FeedInv, FeedTypes
<1>2. FeedNotAhead'
  BY DEF FeedInv, FeedTypes, FeedNotAhead, NotShown
<1>3. LoadsNotAhead'
  <2> SUFFICES ASSUME NEW i \in DOMAIN loads PROVE NotAhead(loads[i])'
    BY DEF LoadsNotAhead
  <2>1. NotAhead(loads[i]) /\ loads[i] \in LoadRec
    BY DEF FeedInv, LoadsNotAhead, FeedTypes
  <2> QED
    BY <2>1 DEF NotAhead, LoadRec, FeedInv, FeedTypes
<1>4. LoadsUpToDate'
  BY DEF FeedInv, LoadsUpToDate, UpToDate, NotShown
<1> QED
  BY <1>1, <1>2, <1>3, <1>4 DEF FeedInv, StagesRegistered

LEMMA WorldKeeps ==
  ASSUME FeedInv, NEW m \in Mints, Register(m) \/ Advance(m)
  PROVE  FeedInv'
<1>1. CASE Register(m)
  BY <1>1, WorldGrows DEF Register, FeedInv, FeedTypes, StagesRegistered
<1>2. CASE Advance(m)
  <2>1. /\ stages' \in [Mints -> 0 .. Graduated]
        /\ \A n \in Mints : stages[n] <= stages'[n]
        /\ \A n \in Mints : stages'[n] > 0 => n \in registries
    BY <1>2, FeedAssumption, SMTT(30) DEF Advance, FeedInv, FeedTypes, StagesRegistered
  <2> QED
    BY <1>2, <2>1, WorldGrows DEF Advance, FeedInv, FeedTypes
<1> QED
  BY <1>1, <1>2

LEMMA ConfirmLockKeeps ==
  ASSUME FeedInv, NEW named \in SUBSET Mints, NEW lost \in SUBSET Mints,
         ConfirmLock(named, lost)
  PROVE  FeedInv'
<1>1. /\ \A m \in Mints : stages'[m] = stages[m] /\ stages[m] \in Int
      /\ registries' = registries /\ registries \subseteq Mints
      /\ stages' \in [Mints -> 0 .. Graduated]
      /\ \A m \in Mints : stages'[m] > 0 => m \in registries'
      /\ UNCHANGED <<told, loads, feed, failures>>
  BY FeedAssumption DEF ConfirmLock, FeedInv, FeedTypes, StagesRegistered
<1>2. had' \subseteq Mints /\ had \subseteq had' /\ table' \subseteq had'
  BY DEF ConfirmLock, FeedInv, FeedTypes
<1>3. \A m \in Mints : stages[m] <= stages'[m]
  BY <1>1
<1> QED
  BY <1>1, <1>2, <1>3, WorldGrows

\* A step in which the feed stays and each load is one of before or one that
\* is in order.
LEMMA LoadsChange ==
  ASSUME FeedInv, UNCHANGED <<world, told, feed>>,
         failures' \in 0 .. MaxFailures, loads' \in Seq(LoadRec),
         \A k \in DOMAIN loads' :
           \/ \E j \in DOMAIN loads : loads'[k] = loads[j]
           \/ NotAhead(loads'[k]) /\ UpToDate(loads'[k])
  PROVE  FeedInv'
<1>1. FeedTypes'
  BY DEF FeedInv, FeedTypes, world
<1>2. FeedNotAhead'
  BY DEF FeedInv, FeedNotAhead, NotShown, world
<1>3. \A k \in DOMAIN loads' : NotAhead(loads'[k]) /\ UpToDate(loads'[k])
  BY DEF FeedInv, LoadsNotAhead, LoadsUpToDate
<1>4. LoadsNotAhead'
  BY <1>3 DEF LoadsNotAhead, NotAhead, world
<1>5. LoadsUpToDate'
  BY <1>3 DEF LoadsUpToDate, UpToDate, NotShown, world
<1> QED
  BY <1>1, <1>2, <1>4, <1>5 DEF FeedInv, StagesRegistered, world

LEMMA OneLoad ==
  ASSUME FeedInv, UNCHANGED <<world, told, feed>>,
         FeedFails \/ UNCHANGED failures,
         NEW i \in DOMAIN loads, NEW g \in LoadRec, NotAhead(g), UpToDate(g),
         loads' = [loads EXCEPT ![i] = g]
  PROVE  FeedInv'
<1>1. loads \in Seq(LoadRec) /\ failures' \in 0 .. MaxFailures
  BY FailuresStay DEF FeedInv, FeedTypes
<1>2. /\ loads' \in Seq(LoadRec) /\ DOMAIN loads' = DOMAIN loads
      /\ \A j \in DOMAIN loads : loads'[j] = IF j = i THEN g ELSE loads[j]
  BY <1>1, SeqExcept
<1>3. \A k \in DOMAIN loads' :
        \/ \E j \in DOMAIN loads : loads'[k] = loads[j]
        \/ NotAhead(loads'[k]) /\ UpToDate(loads'[k])
  BY <1>2
<1> QED
  BY <1>1, <1>2, <1>3, LoadsChange

-----------------------------------------------------------------------------
LEMMA StartKeeps ==
  ASSUME FeedInv, Start
  PROVE  FeedInv'
<1>1. loads \in Seq(LoadRec) /\ failures \in 0 .. MaxFailures
  BY DEF FeedInv, FeedTypes
<1>2. NewLoad \in LoadRec
  <2>1. 0 \in 0 .. Graduated
    BY FeedAssumption
  <2> QED
    BY <2>1 DEF NewLoad, LoadRec, NoPools
<1>3. NotAhead(NewLoad) /\ UpToDate(NewLoad)
  BY FeedAssumption
     DEF NewLoad, NoPools, NotAhead, UpToDate, FeedInv, FeedTypes
<1>4. NotAhead(NewLoad)' /\ UpToDate(NewLoad)'
  BY <1>3 DEF Start, world, NotAhead, UpToDate, NewLoad, NotShown, NoPools
<1>5. /\ loads' \in Seq(LoadRec)
      /\ \A k \in DOMAIN loads' :
           (\E j \in DOMAIN loads : loads'[k] = loads[j]) \/ loads'[k] = NewLoad
  BY <1>1, <1>2 DEF Start
<1>6. \A k \in DOMAIN loads' :
           \/ \E j \in DOMAIN loads : loads'[k] = loads[j]
           \/ NotAhead(loads'[k]) /\ UpToDate(loads'[k])
  BY <1>3, <1>5
<1> QED
  BY <1>1, <1>5, <1>6, LoadsChange DEF Start

LEMMA ReadRegistriesKeeps ==
  ASSUME FeedInv, NEW i \in DOMAIN loads, ReadRegistries(i)
  PROVE  FeedInv'
<1> PICK l : l = loads[i]
  OBVIOUS
<1>1. l \in LoadRec /\ NotAhead(l) /\ UpToDate(l) /\ loads \in Seq(LoadRec)
  BY DEF FeedInv, FeedTypes, LoadsNotAhead, LoadsUpToDate
<1>2. /\ registries \subseteq Mints
      /\ \A m \in Mints : feed[m] # NotShown => m \in registries
  BY DEF FeedInv, FeedTypes, FeedNotAhead
<1>3. CASE /\ loads' = [loads EXCEPT ![i].pc = "pools", ![i].mints = registries]
           /\ UNCHANGED failures
  <2>1. PICK g : g = [l EXCEPT !.pc = "pools", !.mints = registries]
    OBVIOUS
  <2>2. loads' = [loads EXCEPT ![i] = g]
    BY <1>1, <1>3, <2>1
  <2>3. g \in LoadRec
    BY <1>1, <1>2, <2>1 DEF LoadRec
  <2>4. NotAhead(g)
    BY <1>1, <2>1 DEF LoadRec, NotAhead
  <2>5. UpToDate(g)
    BY <1>1, <1>2, <2>1 DEF LoadRec, UpToDate
  <2> QED
    BY <1>3, <2>2, <2>3, <2>4, <2>5, OneLoad DEF ReadRegistries
<1>4. CASE /\ loads' = [loads EXCEPT ![i].pc = "pools", ![i].failed = TRUE]
           /\ FeedFails
  <2>1. PICK g : g = [l EXCEPT !.pc = "pools", !.failed = TRUE]
    OBVIOUS
  <2>2. loads' = [loads EXCEPT ![i] = g]
    BY <1>1, <1>4, <2>1
  <2>3. g \in LoadRec
    BY <1>1, <2>1 DEF LoadRec
  <2>4. NotAhead(g) /\ UpToDate(g)
    BY <1>1, <2>1 DEF LoadRec, NotAhead, UpToDate
  <2> QED
    BY <1>4, <2>2, <2>3, <2>4, OneLoad DEF ReadRegistries
<1> QED
  BY <1>3, <1>4 DEF ReadRegistries

LEMMA ReadPoolsKeeps ==
  ASSUME FeedInv, NEW i \in DOMAIN loads, ReadPools(i)
  PROVE  FeedInv'
<1> PICK l : l = loads[i]
  OBVIOUS
<1>1. /\ l \in LoadRec /\ NotAhead(l) /\ UpToDate(l) /\ loads \in Seq(LoadRec)
      /\ l.pc = "pools"
  BY DEF FeedInv, FeedTypes, LoadsNotAhead, LoadsUpToDate, ReadPools
<1>2. /\ 0 \in 0 .. Graduated /\ stages \in [Mints -> 0 .. Graduated]
      /\ \A m \in Mints : feed[m].stage <= stages[m]
  BY FeedAssumption DEF FeedInv, FeedTypes, FeedNotAhead
<1>3. \A m \in Mints : 0 <= stages[m]
  BY <1>2
<1>4. CASE /\ loads' = [loads EXCEPT ![i].pc = "read",
                          ![i].stages = [m \in Mints |-> IF m \in loads[i].mints
                                                         THEN stages[m] ELSE 0]]
           /\ UNCHANGED failures
  <2>1. PICK read : read = [m \in Mints |-> IF m \in l.mints
                                            THEN stages[m] ELSE 0]
    OBVIOUS
  <2>2. PICK g : g = [l EXCEPT !.pc = "read", !.stages = read]
    OBVIOUS
  <2>3. loads' = [loads EXCEPT ![i] = g]
    BY <1>1, <1>4, <2>1, <2>2
  <2>4. read \in [Mints -> 0 .. Graduated]
    BY <1>2, <2>1
  <2>5. g \in LoadRec
    BY <1>1, <2>2, <2>4 DEF LoadRec
  <2>6. NotAhead(g)
    BY <1>1, <1>2, <1>3, <2>1, <2>2, <2>4 DEF LoadRec, NotAhead
  <2>7. ASSUME ~g.overlapped, ~g.failed, NEW m \in Mints
        PROVE  /\ m \notin g.mints => feed[m] = NotShown
               /\ feed[m].stage <= g.stages[m]
               /\ g.hasLocks /\ feed[m].locked => m \in g.locked \cup g.gone
    <3>1. /\ m \notin l.mints => feed[m] = NotShown
          /\ l.hasLocks /\ feed[m].locked => m \in l.locked \cup l.gone
      BY <1>1, <2>2, <2>7 DEF LoadRec, UpToDate
    <3>2. /\ g.mints = l.mints /\ g.stages = read /\ g.hasLocks = l.hasLocks
          /\ g.locked = l.locked /\ g.gone = l.gone
      BY <1>1, <2>2 DEF LoadRec
    <3>3. feed[m].stage <= read[m]
      BY <1>2, <2>1, <3>1 DEF NotShown
    <3> QED
      BY <3>1, <3>2, <3>3
  <2>8. UpToDate(g)
    BY <2>7 DEF UpToDate
  <2> QED
    BY <1>4, <2>3, <2>5, <2>6, <2>8, OneLoad DEF ReadPools
<1>5. CASE /\ loads' = [loads EXCEPT ![i].pc = "read", ![i].failed = TRUE,
                                     ![i].stages = NoPools]
           /\ FeedFails \/ UNCHANGED failures
  <2>1. PICK g : g = [l EXCEPT !.pc = "read", !.failed = TRUE, !.stages = NoPools]
    OBVIOUS
  <2>2. loads' = [loads EXCEPT ![i] = g]
    BY <1>1, <1>5, <2>1
  <2>3. g \in LoadRec
    BY <1>1, <1>2, <2>1 DEF LoadRec, NoPools
  <2>4. NotAhead(g)
    BY <1>1, <1>3, <2>1 DEF LoadRec, NotAhead, NoPools
  <2>5. UpToDate(g)
    BY <1>1, <2>1 DEF LoadRec, UpToDate
  <2> QED
    BY <1>5, <2>2, <2>3, <2>4, <2>5, OneLoad DEF ReadPools
<1> QED
  BY <1>4, <1>5 DEF ReadPools

LEMMA ReadLocksKeeps ==
  ASSUME FeedInv, NEW i \in DOMAIN loads, ReadLocks(i)
  PROVE  FeedInv'
<1> PICK l : l = loads[i]
  OBVIOUS
<1>1. l \in LoadRec /\ NotAhead(l) /\ UpToDate(l) /\ loads \in Seq(LoadRec)
  BY DEF FeedInv, FeedTypes, LoadsNotAhead, LoadsUpToDate
<1>2. /\ table \subseteq had /\ had \subseteq Mints
      /\ \A m \in Mints : feed[m].locked => m \in had
  BY DEF FeedInv, FeedTypes, FeedNotAhead
<1>3. CASE /\ loads' = [loads EXCEPT ![i].hasLocks = TRUE, ![i].locked = table,
                                     ![i].gone = had \ table]
           /\ UNCHANGED failures
  <2>1. PICK g : g = [l EXCEPT !.hasLocks = TRUE, !.locked = table, !.gone = had \ table]
    OBVIOUS
  <2>2. loads' = [loads EXCEPT ![i] = g]
    BY <1>1, <1>3, <2>1
  <2>3. g \in LoadRec
    BY <1>1, <1>2, <2>1 DEF LoadRec
  <2>4. NotAhead(g)
    BY <1>1, <1>2, <2>1 DEF LoadRec, NotAhead
  <2>5. UpToDate(g)
    BY <1>1, <1>2, <2>1 DEF LoadRec, UpToDate
  <2> QED
    BY <1>3, <2>2, <2>3, <2>4, <2>5, OneLoad DEF ReadLocks
<1>4. CASE /\ loads' = [loads EXCEPT ![i].hasLocks = TRUE, ![i].failed = TRUE]
           /\ FeedFails
  <2>1. PICK g : g = [l EXCEPT !.hasLocks = TRUE, !.failed = TRUE]
    OBVIOUS
  <2>2. loads' = [loads EXCEPT ![i] = g]
    BY <1>1, <1>4, <2>1
  <2>3. g \in LoadRec
    BY <1>1, <2>1 DEF LoadRec
  <2>4. NotAhead(g) /\ UpToDate(g)
    BY <1>1, <2>1 DEF LoadRec, NotAhead, UpToDate
  <2> QED
    BY <1>4, <2>2, <2>3, <2>4, OneLoad DEF ReadLocks
<1> QED
  BY <1>3, <1>4 DEF ReadLocks

\* The feed changes, and with it every load that goes on is overlapped.
LEMMA FeedChange ==
  ASSUME FeedInv, UNCHANGED <<world, failures>>, told' \in BOOLEAN,
         loads' \in Seq(LoadRec),
         feed' \in [Mints -> [stage : -1 .. Graduated, locked : BOOLEAN]],
         FeedNotAhead',
         \A k \in DOMAIN loads' :
           \E j \in DOMAIN loads :
             loads'[k] = [loads[j] EXCEPT !.overlapped = TRUE]
  PROVE  FeedInv'
<1>1. FeedTypes'
  BY DEF FeedInv, FeedTypes, world
<1>2. ASSUME NEW k \in DOMAIN loads'
      PROVE  NotAhead(loads'[k]) /\ loads'[k].overlapped
  <2>1. PICK j \in DOMAIN loads :
          loads'[k] = [loads[j] EXCEPT !.overlapped = TRUE]
    OBVIOUS
  <2>2. loads[j] \in LoadRec /\ NotAhead(loads[j])
    BY DEF FeedInv, FeedTypes, LoadsNotAhead
  <2> QED
    BY <2>1, <2>2 DEF LoadRec, NotAhead
<1>3. LoadsNotAhead'
  BY <1>2 DEF LoadsNotAhead, NotAhead, world
<1>4. LoadsUpToDate'
  BY <1>2 DEF LoadsUpToDate, UpToDate
<1> QED
  BY <1>1, <1>3, <1>4 DEF FeedInv, StagesRegistered, world

LEMMA Overlapping ==
  ASSUME NEW s \in Seq(LoadRec), NEW t,
         t = [j \in DOMAIN s |-> [s[j] EXCEPT !.overlapped = TRUE]]
  PROVE  t \in Seq(LoadRec) /\ DOMAIN t = DOMAIN s /\ Len(t) = Len(s)
<1>1. DOMAIN s = 1 .. Len(s) /\ Len(s) \in Nat
  OBVIOUS
<1>2. ASSUME NEW j \in 1 .. Len(s) PROVE t[j] \in LoadRec
  <2>1. PICK l \in LoadRec : l = s[j]
    BY <1>1
  <2>2. [l EXCEPT !.overlapped = TRUE] \in LoadRec
    BY DEF LoadRec
  <2>3. t[j] = [l EXCEPT !.overlapped = TRUE]
    BY <1>1, <2>1
  <2> QED
    BY <2>2, <2>3
<1>3. t = [j \in 1 .. Len(s) |-> t[j]]
  BY <1>1
<1>4. t \in [1 .. Len(s) -> LoadRec]
  BY <1>2, <1>3
<1>5. t \in Seq(LoadRec) /\ Len(t) = Len(s) /\ DOMAIN t = 1 .. Len(s)
  BY <1>1, <1>4
<1> QED
  BY <1>1, <1>5

LEMMA OthersAre ==
  ASSUME FeedInv, NEW i \in DOMAIN loads
  PROVE  /\ Others(i) \in Seq(LoadRec) /\ Len(Others(i)) = Len(loads) - 1
         /\ \A k \in DOMAIN Others(i) :
              \E j \in DOMAIN loads :
                Others(i)[k] = [loads[j] EXCEPT !.overlapped = TRUE]
<1>1. loads \in Seq(LoadRec)
  BY DEF FeedInv, FeedTypes
<1>2. PICK rest : rest = RemoveAt(loads, i)
  OBVIOUS
<1>3. /\ rest \in Seq(LoadRec) /\ Len(rest) = Len(loads) - 1
      /\ \A k \in DOMAIN rest : \E j \in DOMAIN loads : rest[k] = loads[j]
  BY <1>1, <1>2, SeqRemove
<1>4. Others(i) = [j \in DOMAIN rest |-> [rest[j] EXCEPT !.overlapped = TRUE]]
  BY <1>2 DEF Others
<1>5. PICK others : others = Others(i)
  OBVIOUS
<1>6. /\ others \in Seq(LoadRec) /\ Len(others) = Len(rest)
      /\ DOMAIN others = DOMAIN rest
  BY <1>3, <1>4, <1>5, Overlapping
<1>7. ASSUME NEW k \in DOMAIN rest
      PROVE  \E j \in DOMAIN loads :
               others[k] = [loads[j] EXCEPT !.overlapped = TRUE]
  <2>1. PICK j \in DOMAIN loads : rest[k] = loads[j]
    BY <1>3
  <2>2. others[k] = [rest[k] EXCEPT !.overlapped = TRUE]
    BY <1>4, <1>5
  <2> QED
    BY <2>1, <2>2
<1> QED
  BY <1>3, <1>5, <1>6, <1>7

LEMMA EnrichedIs ==
  ASSUME FeedInv, NEW l \in LoadRec, NotAhead(l)
  PROVE  /\ Enriched(l) \in [Mints -> [stage : -1 .. Graduated, locked : BOOLEAN]]
         /\ \A m \in Mints :
              /\ Enriched(l)[m] # NotShown => m \in registries
              /\ Enriched(l)[m].stage <= stages[m]
              /\ Enriched(l)[m].locked => m \in had
<1>1. NotShown \in [stage : -1 .. Graduated, locked : BOOLEAN]
  <2>1. -1 \in -1 .. Graduated
    BY FeedAssumption
  <2> QED
    BY <2>1 DEF NotShown
<1>2. stages \in [Mints -> 0 .. Graduated]
  BY DEF FeedInv, FeedTypes
<1>3. ASSUME NEW m \in Mints
      PROVE  /\ Enriched(l)[m] \in [stage : -1 .. Graduated, locked : BOOLEAN]
             /\ Enriched(l)[m] # NotShown => m \in registries
             /\ Enriched(l)[m].stage <= stages[m]
             /\ Enriched(l)[m].locked => m \in had
  <2>1. CASE m \in l.mints
    <3>1. Enriched(l)[m] = [stage |-> l.stages[m], locked |-> Badge(l, m)]
      BY <2>1 DEF Enriched
    <3>2. /\ l.stages[m] \in -1 .. Graduated /\ Badge(l, m) \in BOOLEAN
          /\ Badge(l, m) => m \in had
          /\ l.stages[m] <= stages[m] /\ m \in registries
      <4>1. l.stages[m] \in 0 .. Graduated
        BY DEF LoadRec
      <4> QED
        BY <2>1, <4>1, FeedAssumption DEF NotAhead, Badge
    <3> QED
      BY <3>1, <3>2
  <2>2. CASE m \notin l.mints
    <3>1. Enriched(l)[m] = NotShown
      BY <2>2 DEF Enriched
    <3>2. NotShown.stage = -1 /\ NotShown.locked = FALSE /\ -1 <= stages[m]
      BY <1>2, FeedAssumption DEF NotShown
    <3> QED
      BY <1>1, <3>1, <3>2
  <2> QED
    BY <2>1, <2>2
<1>4. Enriched(l) = [m \in Mints |-> Enriched(l)[m]]
  BY DEF Enriched
<1> QED
  BY <1>3, <1>4

LEMMA ApplyKeeps ==
  ASSUME FeedInv, NEW i \in DOMAIN loads, Apply(i)
  PROVE  FeedInv'
<1> PICK l : l = loads[i]
  OBVIOUS
<1>1. /\ l \in LoadRec /\ NotAhead(l) /\ loads \in Seq(LoadRec)
      /\ told \in BOOLEAN /\ failures \in 0 .. MaxFailures
  BY DEF FeedInv, FeedTypes, LoadsNotAhead
<1>2. CASE Shows(l)
  <2>1. /\ feed' = Enriched(l) /\ loads' = Others(i)
        /\ UNCHANGED <<world, told, failures>>
    BY <1>2 DEF Apply
  <2>2. /\ feed' \in [Mints -> [stage : -1 .. Graduated, locked : BOOLEAN]]
        /\ \A m \in Mints :
              /\ feed'[m] # NotShown => m \in registries
              /\ feed'[m].stage <= stages[m]
              /\ feed'[m].locked => m \in had
    BY <1>1, <2>1, EnrichedIs
  <2>3. FeedNotAhead'
    BY <2>1, <2>2 DEF FeedNotAhead, NotShown, world
  <2>4. /\ loads' \in Seq(LoadRec)
        /\ \A k \in DOMAIN loads' :
             \E j \in DOMAIN loads :
               loads'[k] = [loads[j] EXCEPT !.overlapped = TRUE]
    BY <2>1, OthersAre
  <2> QED
    BY <1>1, <2>1, <2>2, <2>3, <2>4, FeedChange
<1>3. CASE ~Shows(l)
  <2>1. /\ loads' = RemoveAt(loads, i) /\ UNCHANGED feed
        /\ UNCHANGED <<world, told, failures>>
    BY <1>3 DEF Apply
  <2>2. /\ loads' \in Seq(LoadRec)
        /\ \A k \in DOMAIN loads' : \E j \in DOMAIN loads : loads'[k] = loads[j]
    BY <1>1, <2>1, SeqRemove
  <2> QED
    BY <1>1, <2>1, <2>2, LoadsChange
<1> QED
  BY <1>2, <1>3

LEMMA OnDeployedKeeps ==
  ASSUME FeedInv, OnDeployed
  PROVE  FeedInv'
<1>1. /\ loads \in Seq(LoadRec) /\ failures \in 0 .. MaxFailures
      /\ feed \in [Mints -> [stage : -1 .. Graduated, locked : BOOLEAN]]
      /\ stages \in [Mints -> 0 .. Graduated] /\ Own \in Mints
  BY FeedAssumption DEF FeedInv, FeedTypes
<1>2. CASE feed[Own] = NotShown
  <2>1. PICK own : own = [stage |-> 1, locked |-> FALSE]
    OBVIOUS
  <2>2. feed' = [feed EXCEPT ![Own] = own]
    BY <1>2, <2>1 DEF OnDeployed
  <2>3. own \in [stage : -1 .. Graduated, locked : BOOLEAN]
    <3>1. 1 \in -1 .. Graduated
      BY FeedAssumption
    <3> QED
      BY <2>1, <3>1
  <2>4. /\ feed' \in [Mints -> [stage : -1 .. Graduated, locked : BOOLEAN]]
        /\ \A m \in Mints : feed'[m] = IF m = Own THEN own ELSE feed[m]
    BY <1>1, <2>2, <2>3
  <2>5. Own \in registries
    BY <1>1 DEF OnDeployed, FeedInv, StagesRegistered
  <2>6. \A m \in Mints :
          /\ feed'[m] # NotShown => m \in registries
          /\ feed'[m].stage <= stages[m]
          /\ feed'[m].locked => m \in had
    <3>1. own.stage <= stages[Own] /\ ~own.locked
      BY <1>1, <2>1 DEF OnDeployed
    <3> QED
      BY <2>4, <2>5, <3>1 DEF FeedInv, FeedNotAhead
  <2>7. FeedNotAhead'
    BY <2>6 DEF FeedNotAhead, NotShown, OnDeployed, world
  <2>8. loads' = [k \in DOMAIN loads |-> [loads[k] EXCEPT !.overlapped = TRUE]]
    BY <1>2 DEF OnDeployed
  <2>9. PICK after : after = loads'
    OBVIOUS
  <2>10. after \in Seq(LoadRec) /\ DOMAIN after = DOMAIN loads
    BY <1>1, <2>8, <2>9, Overlapping
  <2>11. \A k \in DOMAIN loads' :
           \E j \in DOMAIN loads :
             loads'[k] = [loads[j] EXCEPT !.overlapped = TRUE]
    BY <2>8, <2>9, <2>10
  <2> QED
    BY <2>4, <2>7, <2>9, <2>10, <2>11, FeedChange DEF OnDeployed
<1>3. CASE feed[Own] # NotShown
  <2>1. UNCHANGED <<feed, loads, world, failures>> /\ told' \in BOOLEAN
    BY <1>3 DEF OnDeployed
  <2> QED
    BY <2>1 DEF FeedInv, FeedTypes, FeedNotAhead, LoadsNotAhead, LoadsUpToDate,
                NotAhead, UpToDate, NotShown, world, StagesRegistered
<1> QED
  BY <1>2, <1>3

-----------------------------------------------------------------------------
LEMMA FeedStutters ==
  ASSUME FeedInv, UNCHANGED feedVars
  PROVE  FeedInv'
  BY DEF feedVars, FeedInv, FeedTypes, StagesRegistered, FeedNotAhead,
         LoadsNotAhead, LoadsUpToDate, NotAhead, UpToDate, NotShown

LEMMA FeedSteps ==
  ASSUME FeedInv, [FeedNext]_feedVars
  PROVE  FeedInv'
<1>1. ASSUME NEW m \in Mints, Register(m) \/ Advance(m)
      PROVE  FeedInv'
  BY <1>1, WorldKeeps
<1>2. ASSUME NEW i \in DOMAIN loads, Step(i) PROVE FeedInv'
  BY <1>2, ReadRegistriesKeeps, ReadPoolsKeeps, ReadLocksKeeps, ApplyKeeps
     DEF Step
<1>3. ASSUME NEW named \in SUBSET Mints, NEW lost \in SUBSET Mints,
             ConfirmLock(named, lost)
      PROVE  FeedInv'
  BY <1>3, ConfirmLockKeeps
<1> QED
  BY <1>1, <1>2, <1>3, StartKeeps, OnDeployedKeeps, FeedStutters DEF FeedNext

\* Of loads there are never too many.
LEMMA FeedBounds ==
  ASSUME FeedInv, FeedBounded, [FeedNext]_feedVars
  PROVE  FeedBounded'
<1>1. loads \in Seq(LoadRec) /\ Len(loads) \in Nat /\ MaxInFlight \in Nat
  BY FeedAssumption DEF FeedInv, FeedTypes
<1>2. ASSUME UNCHANGED loads PROVE FeedBounded'
  BY <1>2 DEF FeedBounded
<1>3. ASSUME NEW m, NEW named, NEW lost,
             Register(m) \/ Advance(m) \/ ConfirmLock(named, lost)
      PROVE  FeedBounded'
  BY <1>2, <1>3 DEF Register, Advance, ConfirmLock
<1>4. CASE Start
  BY <1>1, <1>4 DEF Start, FeedBounded
<1>5. ASSUME NEW i \in DOMAIN loads, NEW after, after = loads',
             DOMAIN after = DOMAIN loads, after \in Seq(LoadRec)
      PROVE  FeedBounded'
  BY <1>1, <1>5 DEF FeedBounded
<1>6. ASSUME NEW i \in DOMAIN loads, Step(i) PROVE FeedBounded'
  <2>1. FeedInv' /\ loads' \in Seq(LoadRec)
    BY <1>6, FeedSteps DEF FeedNext, FeedInv, FeedTypes
  <2>2. CASE ReadRegistries(i)
    BY <1>1, <2>1, <2>2 DEF ReadRegistries, FeedBounded
  <2>3. CASE ReadPools(i)
    BY <1>1, <2>1, <2>3 DEF ReadPools, FeedBounded
  <2>4. CASE ReadLocks(i)
    BY <1>1, <2>1, <2>4 DEF ReadLocks, FeedBounded
  <2>5. CASE Apply(i)
    <3>1. Len(loads') = Len(loads) - 1
      BY <1>1, <2>5, OthersAre, SeqRemove DEF Apply
    <3> QED
      BY <1>1, <3>1 DEF FeedBounded
  <2> QED
    BY <1>6, <2>2, <2>3, <2>4, <2>5 DEF Step
<1>7. CASE OnDeployed
  <2>1. FeedInv' /\ loads' \in Seq(LoadRec)
    BY <1>7, FeedSteps DEF FeedNext, FeedInv, FeedTypes
  <2>2. DOMAIN loads' = DOMAIN loads
    BY <1>7 DEF OnDeployed
  <2> QED
    BY <1>1, <2>1, <2>2 DEF FeedBounded
<1>8. CASE UNCHANGED feedVars
  BY <1>2, <1>8 DEF feedVars
<1> QED
  BY <1>3, <1>4, <1>6, <1>7, <1>8 DEF FeedNext

LEMMA FeedInvariant ==
  FeedSpec => [](FeedInv /\ FeedBounded)
<1>1. FeedInv /\ FeedBounded /\ [FeedNext]_feedVars => (FeedInv /\ FeedBounded)'
  BY FeedSteps, FeedBounds
<1> QED
  BY FeedInits, <1>1, PTL DEF FeedSpec

\* What the browser has read, what it shows and what there is keep their
\* types, and no load has read what is not there (solana.js, fetchAllTokens).
THEOREM FeedTypesCorrect ==
  FeedSpec => []FeedTypeOK
<1>1. FeedInv /\ FeedBounded => FeedTypeOK
  <2> SUFFICES ASSUME FeedInv, FeedBounded PROVE FeedTypeOK
    OBVIOUS
  <2>1. \A i \in DOMAIN loads : loads[i] \in LoadRec /\ NotAhead(loads[i])
    BY DEF FeedInv, FeedTypes, LoadsNotAhead
  <2> QED
    BY <2>1 DEF FeedInv, FeedTypes, FeedTypeOK, FeedBounded, LoadRec, NotAhead
<1> QED
  BY FeedInvariant, <1>1, PTL

\* A step in which a token goes back ends a load that was overlapped or whose
\* calls failed in part; or only its badge goes, and its row is another's.
LEMMA BackByALoad ==
  ASSUME FeedInv, [FeedNext]_feedVars, NEW m \in Mints, Behind(feed'[m], feed[m])
  PROVE  \E i \in DOMAIN loads :
           /\ Ready(i)
           /\ feed' = Enriched(loads[i])
           /\ \/ loads[i].overlapped \/ loads[i].failed
              \/ feed'[m].stage >= feed[m].stage /\ m \in loads[i].gone
<1>1. /\ feed \in [Mints -> [stage : -1 .. Graduated, locked : BOOLEAN]]
      /\ feed[m].stage \in Int /\ feed[m].stage >= -1
      /\ loads \in Seq(LoadRec)
  BY FeedAssumption DEF FeedInv, FeedTypes
<1>2. feed' # feed
  BY <1>1 DEF Behind
<1>3. ~OnDeployed
  <2>1. SUFFICES ASSUME OnDeployed PROVE FALSE
    OBVIOUS
  <2>2. /\ feed[Own] = NotShown
        /\ feed' = [feed EXCEPT ![Own] = [stage |-> 1, locked |-> FALSE]]
    BY <1>2, <2>1 DEF OnDeployed
  <2>3. CASE m = Own
    <3>1. feed'[m] = [stage |-> 1, locked |-> FALSE]
      BY <1>1, <2>2, <2>3
    <3> QED
      BY <2>2, <2>3, <3>1 DEF Behind, NotShown
  <2>4. CASE m # Own
    <3>1. feed'[m] = feed[m]
      BY <1>1, <2>2, <2>4, SMTT(30)
    <3> QED
      BY <1>1, <3>1 DEF Behind
  <2> QED
    BY <2>3, <2>4
<1>4. PICK i \in DOMAIN loads : Apply(i)
  BY <1>2, <1>3 DEF FeedNext, feedVars, Register, Advance, ConfirmLock, Start,
                    Step, ReadRegistries, ReadPools, ReadLocks
<1> PICK l : l = loads[i]
  OBVIOUS
<1>5. l \in LoadRec /\ UpToDate(l) /\ feed' = Enriched(l) /\ Ready(i)
  BY <1>1, <1>2, <1>4 DEF FeedInv, LoadsUpToDate, Apply
<1>6. SUFFICES ASSUME ~l.overlapped, ~l.failed
               PROVE  feed'[m].stage >= feed[m].stage /\ m \in l.gone
  BY <1>5
<1>7. /\ m \notin l.mints => feed[m] = NotShown
      /\ feed[m].stage <= l.stages[m]
      /\ feed[m].locked => m \in l.locked \cup l.gone
  BY <1>5, <1>6 DEF UpToDate, Ready
<1>8. CASE m \in l.mints
  <2>1. feed'[m] = [stage |-> l.stages[m], locked |-> Badge(l, m)]
    BY <1>5, <1>8 DEF Enriched
  <2>2. l.stages[m] \in Int
    BY <1>5 DEF LoadRec
  <2> QED
    BY <1>1, <1>7, <2>1, <2>2 DEF Behind, Badge
<1>9. CASE m \notin l.mints
  <2>1. feed'[m] = NotShown /\ feed[m] = NotShown
    BY <1>5, <1>7, <1>9 DEF Enriched
  <2> QED
    BY <2>1 DEF Behind, NotShown
<1> QED
  BY <1>8, <1>9

\* A token goes back in the feed, or is lost from it, only by a load that failed
\* in part or in whose time another one ended or the own token was added
\* (App.jsx, the feed's interval and onDeployed); its badge also when its row has
\* become another token's (antivamp-server.js:247-254).
THEOREM FeedGoesBack ==
  FeedSpec => GoesBackForAReason
<1>1. FeedInv /\ [FeedNext]_feedVars =>
        [\A m \in Mints : Behind(feed'[m], feed[m]) =>
           \E i \in DOMAIN loads :
             /\ Ready(i)
             /\ feed' = Enriched(loads[i])
             /\ \/ loads[i].overlapped \/ loads[i].failed
                \/ feed'[m].stage >= feed[m].stage /\ m \in loads[i].gone]_feedVars
  BY BackByALoad
<1> QED
  BY FeedInvariant, <1>1, PTL DEF FeedSpec, GoesBackForAReason
=============================================================================
