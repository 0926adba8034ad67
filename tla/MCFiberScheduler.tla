-------------------------- MODULE MCFiberScheduler --------------------------
(***************************************************************************)
(* Instances of FiberScheduler for TLC.                                    *)
(***************************************************************************)
EXTENDS FiberScheduler, TLC

CONSTANTS e1, e2, e3

\* e1 performs twice, the others once: a perform meets what another one left.
FirstTwice == [e \in Easies |-> IF e = e1 THEN 2 ELSE 1]

MCFaultSets ==
  {{"body", "status", "complete"}, {"setup", "drive", "cancel"},
   {"body", "status", "setup", "cancel"}}
=============================================================================
