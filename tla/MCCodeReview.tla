---------------------------- MODULE MCCodeReview ----------------------------
(* Two developers with a clone each.                                        *)
EXTENDS CodeReview, TLC

CONSTANTS ann, bob, f, i1, i2

NoSync == Commands \ {"sync"}
All == [d \in Clones |-> Commands]
Closers == (ann :> {"mail", "submit", "sync"}) @@ (bob :> {"clpatch", "submit", "sync"})
Symmetry == Permutations(Clones) \cup Permutations(Issues)
=============================================================================
