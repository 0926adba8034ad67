---------------------------- MODULE MCEasyPerform ----------------------------
(***************************************************************************)
(* Instances of EasyPerform for TLC.                                       *)
(***************************************************************************)
EXTENDS EasyPerform, TLC

CONSTANTS main, worker, m1, m2, m3, m4

MultiSymmetry == Permutations(Multis)
==============================================================================
