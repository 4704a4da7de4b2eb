---------------------------- MODULE MCHardDrive ----------------------------
(* HardDrive on two files, one of them binary, and three encryptions.  The *)
(* files are told apart by their kind, the encryptions by nothing.         *)
EXTENDS HardDrive, TLC

CONSTANTS letter, picture

EncryptionSymmetry == Permutations(EncryptionIds)
=============================================================================
