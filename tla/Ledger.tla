------------------------------- MODULE Ledger -------------------------------
(***************************************************************************)
(* What a distribution promises, whatever its tables say.  A group of      *)
(* wallets is given out to be paid, and no wallet is in two groups of one  *)
(* token; a group is paid as a whole, once, out of what there is, or is    *)
(* void for good; once a token is closed no group of it is given out.      *)
(***************************************************************************)
EXTENDS Naturals, Functions

CONSTANTS
  Mints,
  Wallets,
  Amount(_, _)     \* the share of a wallet in a token

VARIABLES
  out,       \* groups that are given out, as <<token, wallets>>
  paid,      \* groups that are paid
  void,      \* groups that never will be
  got,       \* what each wallet has got for each token
  funds,     \* what is left
  closed     \* tokens that are through

vars == <<out, paid, void, got, funds, closed>>

Init ==
  /\ out = {} /\ paid = {} /\ void = {}
  /\ got = [m \in Mints |-> [w \in Wallets |-> 0]]
  /\ funds \in Nat
  /\ closed = {}

Apart(g) ==
  \A h \in out \cup paid \cup void : h[1] = g[1] => h[2] \cap g[2] = {}

GiveOut(g) ==
  /\ g[1] \in Mints \ closed /\ g[2] \subseteq Wallets /\ g[2] # {}
  /\ Apart(g)
  /\ out' = out \cup {g}
  /\ UNCHANGED <<paid, void, got, funds, closed>>

Cost(m, ws) == SumFunctionOnSet([w \in Wallets |-> Amount(m, w)], ws)

Pay(g) ==
  /\ funds >= Cost(g[1], g[2])
  /\ funds' = funds - Cost(g[1], g[2])
  /\ got' = [got EXCEPT ![g[1]] =
               [w \in Wallets |-> IF w \in g[2] THEN Amount(g[1], w) ELSE @[w]]]
  /\ out' = out \ {g} /\ paid' = paid \cup {g}
  /\ UNCHANGED <<void, closed>>

Void(g) ==
  /\ out' = out \ {g} /\ void' = void \cup {g}
  /\ UNCHANGED <<paid, got, funds, closed>>

Close(m) ==
  /\ closed' = closed \cup {m}
  /\ UNCHANGED <<out, paid, void, got, funds>>

Next ==
  \/ \E g \in out' \ out : GiveOut(g)
  \/ \E g \in out : Pay(g) \/ Void(g)
  \/ \E m \in Mints \ closed : Close(m)

Spec == Init /\ [][Next]_vars
=============================================================================
