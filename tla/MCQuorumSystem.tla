-------------------------- MODULE MCQuorumSystem --------------------------
(* Two members: one request that asks both, or two that ask the first.      *)
EXTENDS QuorumSystem, TLC

CONSTANTS ann, bob, sAnn, sBob

TwoUsers == <<[name |-> ann, secret |-> sAnn], [name |-> bob, secret |-> sBob]>>
=============================================================================
