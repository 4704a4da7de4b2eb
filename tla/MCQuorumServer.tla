--------------------------- MODULE MCQuorumServer ---------------------------
(* Small instances of QuorumServer for TLC. *)
EXTENDS QuorumServerInv, TLC

CONSTANTS ann, bob, eve, sAnn, sBob, sShort

\* Two members, each with a YubiKey of their own.
TwoUsers == <<[name |-> ann, secret |-> sAnn], [name |-> bob, secret |-> sBob]>>

\* The members register while the server runs.
NoUsers == <<>>

Symmetry == Permutations(EncryptionIds) \cup Permutations(RequestIds)
            \cup Permutations(ChallengeIds) \cup Permutations(Workers)
=============================================================================
