-------------------------- MODULE TransferContract --------------------------
(***************************************************************************)
(* What Curl::Multi promises about transfers, without tables, counters,    *)
(* callbacks or a loop: an easy has at most one owner at a time and passes *)
(* from one owner to another only through nobody; a multi with an          *)
(* undelivered callback exception starts nothing and delivers it when it   *)
(* owns nothing; a shut multi owns nothing for good.                       *)
(***************************************************************************)
CONSTANTS Easies, Multis, Nobody

VARIABLES
  owner,   \* owner[e]: the multi in which e is a transfer in progress
  failed,  \* failed[m]: a callback exception waits to be raised
  shut     \* shut[m]: Multi#close has succeeded

vars == <<owner, failed, shut>>

OwnedBy(m) == {e \in Easies : owner[e] = m}
Released(S) == [e \in Easies |-> IF e \in S THEN Nobody ELSE owner[e]]

Init ==
  /\ owner = [e \in Easies |-> Nobody]
  /\ failed = [m \in Multis |-> FALSE]
  /\ shut = [m \in Multis |-> FALSE]

\* A multi takes an easy that nobody owns.
Start(m, e) ==
  /\ owner[e] = Nobody
  /\ ~failed[m]
  /\ ~shut[m]
  /\ owner' = [owner EXCEPT ![e] = m]
  /\ UNCHANGED <<failed, shut>>

\* Some transfers of one multi end (complete, are removed, are closed); the
\* end may be a callback exception, whose rollback ends others as well.
Stop(m, S) ==
  /\ S \subseteq OwnedBy(m)
  /\ owner' = Released(S)
  /\ \/ UNCHANGED failed
     \/ failed' = [failed EXCEPT ![m] = TRUE]
  /\ UNCHANGED shut

\* The exception is raised once the multi owns nothing.
Deliver(m) ==
  /\ failed[m]
  /\ OwnedBy(m) = {}
  /\ failed' = [failed EXCEPT ![m] = FALSE]
  /\ UNCHANGED <<owner, shut>>

\* Closing ends every transfer of the multi and drops the exception.
Close(m) ==
  /\ owner' = Released(OwnedBy(m))
  /\ failed' = [failed EXCEPT ![m] = FALSE]
  /\ \/ shut' = [shut EXCEPT ![m] = TRUE]
     \/ ~failed[m] /\ UNCHANGED shut

Next ==
  \E m \in Multis :
    \/ \E e \in Easies : Start(m, e)
    \/ \E S \in SUBSET Easies : Stop(m, S)
    \/ Deliver(m)
    \/ Close(m)

Spec == Init /\ [][Next]_vars
=============================================================================
