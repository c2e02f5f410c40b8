------------------------------- MODULE Trade --------------------------------
(***************************************************************************)
(* A user trades on the page of a token.  The page has the token as it was *)
(* in the feed when it was selected, and does not read it again; whether   *)
(* the panel goes to the curve or to Jupiter depends on that.  A flow is   *)
(* one press of the button: closing the page does not stop it, and a page  *)
(* that is opened again has a new panel.                                   *)
(*                                                                         *)
(* left and until count the blocks until a transaction is too old and      *)
(* until confirmTransaction gives it up; -1 is past.  What is shown of the *)
(* curve is its stage: Top for a graduated one.                            *)
(***************************************************************************)
EXTENDS Integers

CONSTANTS
  Top,
  Valid,        \* blocks a blockhash is valid for
  Sides,        \* "buy", "sell"
  MaxFlows,     \* bound on flows
  MaxFaults     \* bound on calls that fail

ASSUME TradeAssumption ==
  /\ {Top, Valid, MaxFlows, MaxFaults} \subseteq Nat
  /\ Sides \subseteq {"buy", "sell"}

Flows == 1 .. MaxFlows

VARIABLES
  stage,      \* of the pool on chain
  row,        \* status of graduated_pools: the bot's
  page,       \* TokenPage
  polls,      \* answers of fetchMigrationState on their way to it
  panel,      \* the last flow of the panel on the page, 0 for none
  flow,
  faults

vars == <<stage, row, page, polls, panel, flow, faults>>

\* broken says that a call of the flow has failed.
NewFlow == [pc |-> "new", route |-> "none", side |-> "none",
            left |-> -1, until |-> -1, sent |-> FALSE, landed |-> "no",
            broken |-> FALSE, shows |-> "nothing"]

Closed == [open |-> FALSE, stage |-> 0, status |-> "unknown"]

Init ==
  /\ stage = 0
  /\ row = "none"
  /\ page = Closed
  /\ polls = {}
  /\ panel = 0
  /\ flow = [i \in Flows |-> NewFlow]
  /\ faults = 0

Fails ==
  /\ faults < MaxFaults
  /\ faults' = faults + 1

-----------------------------------------------------------------------------
(***************************************************************************)
(* The chain, the bot and the other traders.                               *)
(***************************************************************************)
OthersBuy ==
  /\ stage < Top
  /\ stage' = stage + 1
  /\ UNCHANGED <<row, page, polls, panel, flow, faults>>

\* The row as MigrationBot writes it; when it says live the pool on Meteora is
\* there.
Migrate ==
  /\ stage = Top
  /\ \/ row \in {"none", "failed"} /\ row' = "pending"
     \/ row = "pending" /\ row' \in {"failed", "live"}
  /\ UNCHANGED <<stage, page, polls, panel, flow, faults>>

Older(n) == IF n < 0 THEN n ELSE n - 1

Tick ==
  /\ \E i \in Flows : flow[i].left >= 0 \/ flow[i].until >= 0
  /\ flow' = [i \in Flows |-> [flow[i] EXCEPT !.left = Older(@),
                                              !.until = Older(@)]]
  /\ UNCHANGED <<stage, row, page, polls, panel, faults>>

Possible(f) == IF f.route = "curve" THEN stage < Top ELSE row = "live"

Land(i) ==
  /\ flow[i].sent /\ flow[i].landed = "no"
  /\ flow[i].left >= 0
  /\ \/ /\ Possible(flow[i])
        /\ flow' = [flow EXCEPT ![i].landed = "ok"]
        /\ stage' = IF flow[i].route = "curve" /\ flow[i].side = "buy"
                    THEN stage + 1 ELSE stage
     \/ /\ flow' = [flow EXCEPT ![i].landed = "error"]
        /\ UNCHANGED stage
  /\ UNCHANGED <<row, page, polls, panel, faults>>

-----------------------------------------------------------------------------
(***************************************************************************)
(* The page.                                                               *)
(***************************************************************************)
\* A token is selected as the feed has it, which may be behind.
Select ==
  /\ ~page.open
  /\ \E seen \in 0 .. stage :
       page' = [open |-> TRUE, stage |-> seen, status |-> "unknown"]
  /\ UNCHANGED <<stage, row, polls, panel, flow, faults>>

Close ==
  /\ page.open
  /\ page' = Closed
  /\ polls' = {}
  /\ panel' = 0
  /\ UNCHANGED <<stage, row, flow, faults>>

Poll_Once ==
  /\ page.open /\ page.stage = Top
  /\ page.status = "unknown"
  /\ polls' = polls \cup {row}
  /\ UNCHANGED <<stage, row, page, panel, flow, faults>>

\* Every 10 seconds; an error reads as no row.
Poll ==
  /\ page.open /\ page.stage = Top
  /\ \/ polls' = polls \cup {row} /\ UNCHANGED faults
     \/ polls' = polls \cup {"none"} /\ Fails
  /\ UNCHANGED <<stage, row, page, panel, flow>>

Answer ==
  \E status \in polls :
    /\ page' = [page EXCEPT !.status = status]
    /\ polls' = polls \ {status}
    /\ UNCHANGED <<stage, row, panel, flow, faults>>

gradState ==
  IF page.stage < Top THEN "TRADING"
  ELSE CASE page.status = "live" -> "LIVE"
         [] page.status = "pending" -> "MIGRATING"
         [] OTHER -> "GRADUATED"

-----------------------------------------------------------------------------
(***************************************************************************)
(* A flow, one action for each await.                                      *)
(***************************************************************************)
Goes(i, to) ==
  /\ flow' = [flow EXCEPT ![i] = to]
  /\ UNCHANGED <<stage, row, page, polls, panel>>

Ends(i, shows) ==
  Goes(i, [flow[i] EXCEPT !.pc = "over", !.shows = shows])

\* A call of the flow fails, or its answer is lost; sent says whether the
\* transaction is on its way all the same.
Breaks(i, sent) ==
  /\ Goes(i, [flow[i] EXCEPT !.pc = "over", !.shows = "failed",
                             !.sent = sent, !.broken = TRUE])
  /\ Fails

\* The button waits for the flow it started and for nothing else.
Press(i) ==
  /\ page.open
  /\ panel = 0 \/ (panel # 0 /\ flow[panel].pc = "over")
  /\ flow[i].pc = "new" /\ \A j \in Flows : j < i => flow[j].pc # "new"
  /\ \E side \in Sides :
       flow' = [flow EXCEPT ![i] =
                  [NewFlow EXCEPT !.pc = "build", !.side = side,
                     !.route = IF page.stage = Top THEN "jupiter" ELSE "curve"]]
  /\ panel' = i
  /\ UNCHANGED <<stage, row, page, polls, faults>>

\* With a blockhash that is not used.
buildSwapTx(i) ==
  /\ flow[i].route = "curve"
  /\ Goes(i, [flow[i] EXCEPT !.pc = "blockhash", !.left = Valid])

\* A quote and a transaction, with the blockhash it is sent with; before the pool
\* on Meteora there is no route.
buildJupiterSwapTx(i) ==
  /\ flow[i].route = "jupiter"
  /\ IF row = "live" THEN Goes(i, [flow[i] EXCEPT !.pc = "sign", !.left = Valid])
                     ELSE Ends(i, "failed")

Build(i) ==
  /\ flow[i].pc = "build"
  /\ \/ (buildSwapTx(i) \/ buildJupiterSwapTx(i)) /\ UNCHANGED faults
     \/ Breaks(i, FALSE)

\* The curve's second blockhash: signed with and confirmed with.
Blockhash(i) ==
  /\ flow[i].pc = "blockhash"
  /\ \/ /\ Goes(i, [flow[i] EXCEPT !.pc = "sign", !.left = Valid, !.until = Valid])
        /\ UNCHANGED faults
     \/ Breaks(i, FALSE)

\* The user may take any time, and may say no.
Sign(i) ==
  /\ flow[i].pc = "sign"
  /\ \/ Goes(i, [flow[i] EXCEPT !.pc = "send"])
     \/ Ends(i, "cancelled")
  /\ UNCHANGED faults

\* On the curve the transaction is simulated first.  The call may fail before
\* the transaction is on its way, or after.
Send(i) ==
  /\ flow[i].pc = "send"
  /\ \/ /\ flow[i].route = "curve" => Possible(flow[i]) /\ flow[i].left >= 0
        /\ Goes(i, [flow[i] EXCEPT !.sent = TRUE, !.pc =
             IF flow[i].route = "curve" THEN "confirm" ELSE "until"])
        /\ UNCHANGED faults
     \/ Ends(i, "failed") /\ UNCHANGED faults
     \/ Breaks(i, TRUE)

\* For Jupiter the blockhash to confirm with is read after sending.
Until(i) ==
  /\ flow[i].pc = "until"
  /\ \/ /\ Goes(i, [flow[i] EXCEPT !.pc = "confirm", !.until = Valid])
        /\ UNCHANGED faults
     \/ Breaks(i, TRUE)

Confirm_NoError(i) ==
  /\ flow[i].pc = "confirm"
  /\ \/ flow[i].landed # "no" /\ Ends(i, "done")
     \/ flow[i].landed = "no" /\ flow[i].until < 0 /\ Ends(i, "expired")
  /\ UNCHANGED faults

\* ... or, as the panel calls it, with the blockhash.
Confirm(i) ==
  /\ flow[i].pc = "confirm"
  /\ \/ flow[i].landed = "ok" /\ Ends(i, "done") /\ UNCHANGED faults
     \/ flow[i].landed = "error" /\ Ends(i, "failed") /\ UNCHANGED faults
     \/ /\ flow[i].landed = "no" /\ flow[i].until < 0
        /\ Ends(i, "expired")
        /\ UNCHANGED faults
     \/ Breaks(i, TRUE)

AfterSign(i) == Send(i) \/ Until(i) \/ Confirm(i)

Next ==
  \/ OthersBuy \/ Migrate \/ Tick
  \/ Select \/ Close \/ Poll \/ Answer
  \/ \E i \in Flows :
       Press(i) \/ Build(i) \/ Blockhash(i) \/ Sign(i) \/ AfterSign(i) \/ Land(i)

Spec == Init /\ [][Next]_vars

\* Blocks follow each other, calls return and setInterval polls; the user may
\* stop at any point, and a transaction need not land.
FairSpec ==
  /\ Spec
  /\ WF_vars(Tick)
  /\ WF_vars(Poll) /\ \A s \in {"none", "pending", "failed", "live"} :
       WF_vars(Answer /\ s \in polls /\ s \notin polls')
  /\ \A i \in Flows : WF_vars(AfterSign(i))

-----------------------------------------------------------------------------
\* The values the variables take.
TypeOK ==
  /\ stage \in 0 .. Top
  /\ row \in {"none", "pending", "failed", "live"}
  /\ row # "none" => stage = Top
  /\ page \in [open : BOOLEAN, stage : 0 .. stage,
               status : {"unknown", "none", "pending", "failed", "live"}]
  /\ polls \subseteq {"none", "pending", "failed", "live"}
  /\ panel \in 0 .. MaxFlows
  /\ flow \in [Flows ->
       [pc : {"new", "build", "blockhash", "sign", "send", "until", "confirm", "over"},
        route : {"none", "curve", "jupiter"}, side : {"none", "buy", "sell"},
        left : -1 .. Valid, until : -1 .. Valid,
        sent : BOOLEAN, landed : {"no", "ok", "error"}, broken : BOOLEAN,
        shows : {"nothing", "done", "failed", "expired", "cancelled"}]]
  /\ faults \in 0 .. MaxFaults

\* What the panel says of a trade is so: confirmed means that it took effect,
\* and failed, cancelled or expired that it did not, unless a call of the flow
\* failed on the way.  A user who trades again does not trade twice.
ShownIsSo ==
  \A i \in Flows :
    /\ flow[i].shows = "done" => flow[i].landed = "ok"
    /\ flow[i].shows \in {"failed", "cancelled", "expired"} /\ ~flow[i].broken
         => flow[i].landed # "ok"

\* A page of a graduated token shows that it is live once it is, whatever order
\* the answers of overlapping polls come in.
ShowsLive ==
  page.open /\ page.stage = Top /\ row = "live"
    ~> gradState = "LIVE" \/ ~page.open

=============================================================================
