---------------------------- MODULE MCCurlMulti ----------------------------
(***************************************************************************)
(* Instances of CurlMulti for TLC.                                         *)
(***************************************************************************)
EXTENDS CurlMulti, TLC

CONSTANTS e1, e2, e3, m1, m2

\* Each easy may be attached twice: added, removed or completed, added again.
TwiceEach == [e \in Easies |-> 2]

\* Each easy may be attached once.
OnceEach == [e \in Easies |-> 1]

\* Multis are interchangeable, and so are easies.
HandleSymmetry == Permutations(Multis) \cup Permutations(Easies)
=============================================================================
