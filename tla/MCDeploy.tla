------------------------------ MODULE MCDeploy ------------------------------
(***************************************************************************)
(* Instances of Deploy for TLC.                                            *)
(***************************************************************************)
EXTENDS Deploy

CONSTANTS m1, m2, m3, s1, img, t1, t2, noImage, anonymous, twitter

\* Two deploys of one tweet and one without a source.
TwoOfOneTweet == [m \in Mints |-> IF m = m3 THEN None ELSE s1]

\* The deploys of the tweet have a ticker each and share the rest; the third
\* has the first one's ticker.
SharedHashes ==
  [m \in Mints |-> [ticker |-> IF m = m2 THEN t2 ELSE t1,
                    image |-> noImage,
                    identity |-> IF m = m3 THEN anonymous ELSE twitter]]

SamePicture == [m \in Mints |-> IF m = m3 THEN None ELSE img]
=============================================================================
