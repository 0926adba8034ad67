---------------------------- MODULE AtomicInstall ----------------------------
(***************************************************************************)
(* What a download promises about the file it is to create: the file       *)
(* appears whole, in one step, and only where there was none, unless the   *)
(* caller asked to overwrite.  Other programs create files as they like.   *)
(***************************************************************************)
CONSTANTS Downloads, Paths, PathOf, Overwrite, Absent, Foreign

VARIABLE target  \* target[p]: Absent, Foreign, or what a download put there

Whole(d) == [by |-> d, whole |-> TRUE]

Init == target \in [Paths -> {Absent, Foreign}]

Create(p) == target[p] = Absent /\ target' = [target EXCEPT ![p] = Foreign]

Install(d) ==
  /\ target[PathOf[d]] = Absent \/ Overwrite[d]
  /\ target' = [target EXCEPT ![PathOf[d]] = Whole(d)]

Next == (\E p \in Paths : Create(p)) \/ (\E d \in Downloads : Install(d))

Spec == Init /\ [][Next]_target
==============================================================================
