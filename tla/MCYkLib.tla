------------------------------ MODULE MCYkLib ------------------------------
(* Instances of YkLib: sequence numbers of 0..2 wrap after two writes, two  *)
(* slices make a response of which one can be missing.                      *)
EXTENDS YkLib, TLC

CONSTANTS neo, old, c1, c2

=============================================================================
