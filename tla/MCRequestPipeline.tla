-------------------------- MODULE MCRequestPipeline --------------------------
(* Instances of RequestPipeline for TLC.                                   *)
EXTENDS RequestPipeline, TLC

CONSTANTS r1, r2, r3, t1, w1, w2

\* Requests of one tenant and two task identities, one more than a correct bot
\* ever needs at a time.
SameTenant == [r \in Requests |-> t1]
SameServes == [w \in Workers |-> t1]

PairSymmetry == Permutations({r1, r2}) \cup Permutations({w1, w2})
=============================================================================
