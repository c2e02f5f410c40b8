------------------------------ MODULE MCProgram ------------------------------
(***************************************************************************)
(* Instances for TLC of three parts of the program that share no state:    *)
(* the registry and its locks (Protection), the lock of a source           *)
(* (SourceLock; a unit of time is 30 seconds) and the accounts that its    *)
(* instructions ask for, against what is sent (Calls).  They are checked   *)
(* side by side: `part' is the one that takes its steps, the others stay   *)
(* as they begin.                                                          *)
(***************************************************************************)
EXTENDS SourceLock, Protection, Calls

CONSTANTS
  tweet, article, d1, d2,
  m1, ms, u1, hash1, hash2, hash3

VARIABLE part

programVars == <<part, vars, protectionVars, callVars>>

\* The tweet is posted when the server's clock starts.
PostedAtZero == [s \in Sources |-> 0]

\* The transactions: with no, one and two Ed25519 instructions, in the order
\* the program asks for and in others, and with two locks.
SomeForms ==
  {<<"lock", "ed25519">>, <<"ed25519", "lock">>,
   <<"ed25519", "ed25519", "lock">>, <<"ed25519", "lock", "ed25519", "lock">>}

\* One token is deployed in a browser, one by the end-to-end test.
ByItsUser == [m \in Deployed |-> u1]

\* The ticker has the hash of the source, but not its address.
ThreeHashes ==
  [ticker |-> m1 :> hash3, image |-> m1 :> hash1, identity |-> m1 :> hash2,
   source |-> m1 :> hash3]

Parts == {"protection", "source", "calls"}

\* Clocks that do not run are not apart.
ProgramInit ==
  /\ part \in Parts
  /\ ProtectionInit /\ Init /\ CallsInit
  /\ part # "source" => chain = now

Protects(A) == part = "protection" /\ A /\ UNCHANGED <<part, vars, callVars>>
Locks(A) == part = "source" /\ A /\ UNCHANGED <<part, protectionVars, callVars>>
Calling(A) == part = "calls" /\ A /\ UNCHANGED <<part, vars, protectionVars>>

ProgramNext == Protects(ProtectionNext) \/ Locks(Next) \/ Calling(CallsNext)

ProgramSpec == ProgramInit /\ [][ProgramNext]_programVars

-----------------------------------------------------------------------------
\* The deploys of SourceLock are alike.
Alike == Permutations({d1, d2})

\* Two signatures, or one and a source recorded.
FewCalls ==
  Cardinality(signed) + Cardinality({s \in Sources : cache[s] # None}) <= 2

\* The values the variables take.
ProgramTypeOK == part \in Parts /\ ProtectionTypeOK /\ TypeOK /\ CallsTypeOK
=============================================================================
