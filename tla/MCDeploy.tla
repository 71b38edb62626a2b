------------------------------ MODULE MCDeploy ------------------------------
(* Small instances of Deploy for TLC. *)
EXTENDS Deploy, TLC

CONSTANTS d1, d2, k1, h1, h2, key1, key2, token

\* Two users deploy one pipeline, from directories that differ.
PairPipeline == d1 :> k1 @@ d2 :> k1
PairPackage == d1 :> h1 @@ d2 :> h2
PairTrace == d1 :> {key1, token} @@ d2 :> {key1, key2, token}
PairLocal == d1 :> {key1, token} @@ d2 :> {key1, key2}
=============================================================================
