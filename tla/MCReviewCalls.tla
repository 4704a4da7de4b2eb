--------------------------- MODULE MCReviewCalls ---------------------------
(* Three threads over two slots.                                           *)
EXTENDS ReviewCalls

CONSTANTS t1, t2, t3
=============================================================================
