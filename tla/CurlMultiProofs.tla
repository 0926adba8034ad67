-------------------------- MODULE CurlMultiProofs --------------------------
(***************************************************************************)
(* Proofs about CurlMulti, for any finite set of easies, any set of        *)
(* multis, any setting of autoclose and any liberties of the program (a    *)
(* theorem names those it excludes): first Owned, the invariant of who     *)
(* holds which easy, and on it the counters, the perform loop and the      *)
(* deferred exception.                                                     *)
(***************************************************************************)
EXTENDS CurlMulti, FiniteSetTheorems, TLAPS

-----------------------------------------------------------------------------
(***************************************************************************)
(* Counting.                                                               *)
(***************************************************************************)

\* Sets of easies are finite, so the extension's counters are numbers.
LEMMA EasySetFinite ==
  ASSUME NEW S \in SUBSET Easies
  PROVE  IsFiniteSet(S) /\ Cardinality(S) \in Nat
BY ConstantsAssumption, FS_Subset, FS_CardinalityType

\* Taking T out of S takes its cardinality off.
LEMMA CardinalityWithout ==
  ASSUME NEW S \in SUBSET Easies, NEW T \in SUBSET S
  PROVE  Cardinality(S \ T) = Cardinality(S) - Cardinality(T)
<1>1. IsFiniteSet(S) /\ Cardinality(S) \in Nat BY EasySetFinite
<1>2. Cardinality(S \ T) = Cardinality(S) - Cardinality(S \cap T)
  BY <1>1, FS_Difference
<1>3. S \cap T = T OBVIOUS
<1> QED BY <1>2, <1>3

\* A subset is no larger.
LEMMA CardinalitySubset ==
  ASSUME NEW S \in SUBSET Easies, NEW T \in SUBSET S
  PROVE  Cardinality(T) <= Cardinality(S)
BY EasySetFinite, FS_Subset

\* A new element counts one.
LEMMA CardinalityWith ==
  ASSUME NEW S \in SUBSET Easies, NEW e \in Easies, e \notin S
  PROVE  Cardinality(S \cup {e}) = Cardinality(S) + 1
BY EasySetFinite, FS_AddElement

\* The two sets whose size is a number in the code.
LEMMA CardinalitySmall ==
  /\ Cardinality({}) = 0
  /\ \A e : Cardinality({e}) = 1
BY FS_EmptySet, FS_Singleton

\* Nothing is counted exactly when there is nothing.
LEMMA CardinalityZero ==
  ASSUME NEW S \in SUBSET Easies
  PROVE  Cardinality(S) = 0 <=> S = {}
BY EasySetFinite, FS_EmptySet

\* The saturating decrement of active stays a number.
LEMMA DecrementType ==
  ASSUME NEW n \in Nat, NEW k \in Nat
  PROVE  Decrement(n, k) \in Nat
BY DEF Decrement

-----------------------------------------------------------------------------
(***************************************************************************)
(* Type correctness.                                                       *)
(***************************************************************************)

USE DEF UserPoints

LEMMA TypeDetach ==
  ASSUME TypeOK, NEW m \in Multis, NEW S \in SUBSET Easies, Detach(m, S)
  PROVE  /\ added' \in [Multis -> SUBSET Easies]
         /\ done' \in [Multis -> SUBSET Easies]
         /\ attached' \in [Multis -> SUBSET Easies]
         /\ active' \in [Multis -> Nat]
<1>1. Cardinality(S) \in Nat BY EasySetFinite
<1>2. active[m] \in Nat BY DEF TypeOK
<1>3. Decrement(active[m], Cardinality(S)) \in Nat BY <1>1, <1>2, DecrementType
<1> QED BY <1>3 DEF TypeOK, Detach, Without

LEMMA TypeClear ==
  ASSUME TypeOK, NEW S, ClearBackReferences(S)
  PROVE  easyMulti' \in [Easies -> Multis \cup {None}]
BY DEF TypeOK, ClearBackReferences

LEMMA TypeStops ==
  ASSUME TypeOK, NEW m \in Multis, CloseStops(m)
  PROVE  /\ added' \in [Multis -> SUBSET Easies]
         /\ done' \in [Multis -> SUBSET Easies]
         /\ attached' \in [Multis -> SUBSET Easies]
         /\ active' \in [Multis -> Nat]
         /\ easyMulti' \in [Easies -> Multis \cup {None}]
<1>1. PICK R \in SUBSET (requests[m] \ Unremovable(m)) : Detach(m, R) /\ ClearBackReferences(R)
  BY DEF CloseStops
<1>2. R \in SUBSET Easies BY <1>1 DEF TypeOK
<1> QED BY <1>1, <1>2, TypeDetach, TypeClear

LEMMA TypeFinish ==
  ASSUME TypeOK, NEW m \in Multis,
         NEW references \in [Easies -> Multis \cup {None}],
         FinishCompletion(m, references)
  PROVE  /\ easyMulti' \in [Easies -> Multis \cup {None}]
         /\ callbackActive' \in [Multis -> BOOLEAN]
         /\ completing' \in [Multis -> Easies \cup {None}]
         /\ snapshot' \in [Multis -> [Easies -> Nat]]
         /\ masked' \in [Multis -> BOOLEAN]
         /\ pc' \in [Multis -> UserPoints \cup {"run", "info"}]
         /\ late' \in [Multis -> SUBSET Easies]
         /\ UNCHANGED <<handle, closed, performActive, running, idleRefs, generation,
                        callbackError, last, result>>
BY DEF TypeOK, FinishCompletion, NoSnapshot

\* Every action keeps every variable in its type: in particular the counters
\* active and running stay numbers although they are decremented by code that
\* does not know whether they were incremented.
LEMMA TypeStep == TypeOK /\ [Next]_vars => TypeOK'
<1> SUFFICES ASSUME TypeOK, [Next]_vars PROVE TypeOK'
  OBVIOUS
<1>1. CASE UNCHANGED vars
  BY <1>1 DEF TypeOK, vars, multiVars, rubyVars, easyVars, curlVars, frameVars
<1>2. ASSUME NEW m \in Multis, NEW e \in Easies, Add(m, e) PROVE TypeOK'
  BY <1>2 DEF TypeOK, Add, Without, RunningAfterAdd, ErrorsAfterSetup, frameVars
<1>2a. ASSUME NEW m \in Multis, NEW e \in Easies, AddRaises(m, e) PROVE TypeOK'
  BY <1>2a DEF TypeOK, AddRaises, ErrorsAfterSetup, rubyVars, curlVars, frameVars
<1>3. ASSUME NEW m \in Multis, NEW e \in Easies, Remove(m, e) PROVE TypeOK'
  <2>1. {e} \in SUBSET Easies OBVIOUS
  <2>2. requests' \in [Multis -> SUBSET Easies] BY <1>3 DEF Remove, Without, TypeOK
  <2>3. CASE RemoveHandleOK(m, e)
    <3>1. Detach(m, {e}) /\ ClearBackReferences({e}) BY <1>3, <2>3 DEF Remove
    <3> QED BY <1>3, <2>1, <2>2, <3>1, TypeDetach, TypeClear DEF TypeOK, Remove, frameVars
  <2>4. CASE ~RemoveHandleOK(m, e)
    BY <1>3, <2>2, <2>4 DEF TypeOK, Remove, frameVars
  <2> QED BY <2>3, <2>4
<1>4. ASSUME NEW e \in Easies, NEW n \in Multis \cup {None}, Assign(e, n) PROVE TypeOK'
  <2>1. idleRefs' \in [Multis -> SUBSET Easies] BY <1>4 DEF Assign, TypeOK
  <2>2. easyMulti' \in [Easies -> Multis \cup {None}] BY <1>4 DEF Assign, TypeOK
  <2>3. CASE easyMulti[e] \in HoldersOf(e)
    <3>1. easyMulti[e] \in Multis /\ {e} \in SUBSET Easies BY <2>3 DEF HoldersOf
    <3>2. Detach(easyMulti[e], {e}) BY <1>4, <2>3 DEF Assign
    <3>3. requests' = Without(requests, easyMulti[e], {e}) BY <1>4, <2>3 DEF Assign
    <3>4. requests' \in [Multis -> SUBSET Easies] BY <3>1, <3>3 DEF Without, TypeOK
    <3> QED BY <1>4, <2>1, <2>2, <3>1, <3>2, <3>4, TypeDetach DEF TypeOK, Assign, frameVars
  <2>4. CASE easyMulti[e] \notin HoldersOf(e)
    BY <1>4, <2>1, <2>2, <2>4 DEF TypeOK, Assign, frameVars
  <2> QED BY <2>3, <2>4
<1>5. ASSUME NEW e \in Easies, CloseEasy(e) PROVE TypeOK'
  BY <1>5 DEF TypeOK, CloseEasy, frameVars
<1>6. ASSUME NEW m \in Multis, CloseMulti(m) PROVE TypeOK'
  <2>0. late' \in [Multis -> SUBSET Easies] BY <1>6 DEF CloseMulti, TypeOK
  <2>1. CASE CloseStops(m)
    BY <1>6, <2>0, <2>1, TypeStops DEF TypeOK, CloseMulti, CloseStops, frameVars
  <2>2. CASE CloseRejected(m)
    <3>1. requests[m] \in SUBSET Easies BY DEF TypeOK
    <3>2. Detach(m, requests[m]) /\ ClearBackReferences(ClosedReferences(m, TRUE))
      BY <2>2 DEF CloseRejected
    <3> QED BY <1>6, <2>0, <2>2, <3>1, <3>2, TypeDetach, TypeClear
            DEF TypeOK, CloseMulti, CloseRejected, ForgetIdle, frameVars
  <2>3. CASE CloseAccepted(m, TRUE)
    <3>1. ClearBackReferences(ClosedReferences(m, TRUE) \cup attached[m])
      BY <2>3 DEF CloseAccepted
    <3> QED BY <1>6, <2>0, <2>3, <3>1, TypeClear
            DEF TypeOK, CloseMulti, CloseAccepted, ForgetIdle, frameVars
  <2> QED BY <1>6, <2>1, <2>2, <2>3 DEF CloseMulti
<1>7. ASSUME NEW m \in Multis, Perform(m) PROVE TypeOK'
  BY <1>7 DEF TypeOK, Perform, rubyVars, easyVars, curlVars
<1>8. ASSUME NEW m \in Multis, Run(m) PROVE TypeOK'
  <2>1. PICK D \in SUBSET (added[m] \ done[m]) : \E B \in SUBSET D :
         /\ done' = [done EXCEPT ![m] = @ \cup D]
         /\ running' = [running EXCEPT ![m] = Cardinality(added[m] \ (done[m] \cup D))]
         /\ callbackError' = [e \in Easies |-> IF e \in B THEN generation[e] ELSE callbackError[e]]
    BY <1>8 DEF Run
  <2>2. Cardinality(added[m] \ (done[m] \cup D)) \in Nat
    <3>1. added[m] \ (done[m] \cup D) \in SUBSET Easies BY DEF TypeOK
    <3> QED BY <3>1, EasySetFinite
  <2>3. running' \in [Multis -> Nat] BY <2>1, <2>2 DEF TypeOK
  <2>4. done' \in [Multis -> SUBSET Easies] BY <2>1 DEF TypeOK
  <2>5. callbackError' \in [Easies -> Nat] BY <2>1 DEF TypeOK
  <2> QED BY <1>8, <2>3, <2>4, <2>5 DEF TypeOK, Run, rubyVars
<1>9. ASSUME NEW m \in Multis, RunRaises(m) PROVE TypeOK'
  BY <1>9 DEF TypeOK, RunRaises, Leave, rubyVars, easyVars, curlVars
<1>10. ASSUME NEW m \in Multis, NEW e \in Easies, HandleComplete(m, e) PROVE TypeOK'
  <2>1. Detach(m, {e}) /\ {e} \in SUBSET Easies BY <1>10 DEF HandleComplete
  <2>2. snapshot' \in [Multis -> [Easies -> Nat]] BY <1>10 DEF HandleComplete, TypeOK
  <2>3. deferred' \in [Multis -> Exceptions \cup {None}]
    BY <1>10 DEF HandleComplete, StashIfUnset, Exceptions, TypeOK
  <2>4. late' \in [Multis -> SUBSET Easies] BY <1>10 DEF HandleComplete, TypeOK
  <2> QED BY <1>10, <2>1, <2>2, <2>3, <2>4, TypeDetach DEF TypeOK, HandleComplete, Without
<1>11. ASSUME NEW m \in Multis, CallbackReturns(m) PROVE TypeOK'
  <2>1. easyMulti \in [Easies -> Multis \cup {None}] BY DEF TypeOK
  <2> QED BY <1>11, <2>1, TypeFinish DEF TypeOK, CallbackReturns
<1>12. ASSUME NEW m \in Multis, CallbackRaises(m) PROVE TypeOK'
  <2> DEFINE R == AddedSinceSnapshot(m)
             references == [x \in Easies |-> IF x \in R THEN None ELSE easyMulti[x]]
  <2>1. R \in SUBSET Easies BY DEF AddedSinceSnapshot, TypeOK
  <2>2. references \in [Easies -> Multis \cup {None}] BY DEF TypeOK
  <2>3. Detach(m, R) /\ FinishCompletion(m, references) BY <1>12 DEF CallbackRaises
  <2>4. deferred' \in [Multis -> Exceptions \cup {None}]
    BY <1>12 DEF CallbackRaises, StashIfUnset, Exceptions, TypeOK
  <2>5. requests' \in [Multis -> SUBSET Easies] BY <1>12 DEF CallbackRaises, Without, TypeOK
  <2> HIDE DEF R, references
  <2> QED BY <2>1, <2>2, <2>3, <2>4, <2>5, TypeDetach, TypeFinish DEF TypeOK
<1>13. ASSUME NEW m \in Multis, CallbackThrows(m) PROVE TypeOK'
  <2>1. easyMulti \in [Easies -> Multis \cup {None}] BY DEF TypeOK
  <2>2. deferred' \in [Multis -> Exceptions \cup {None}]
    BY <1>13 DEF CallbackThrows, StashIfUnset, Exceptions, TypeOK
  <2> QED BY <1>13, <2>1, <2>2, TypeFinish DEF TypeOK, CallbackThrows
<1>14. ASSUME NEW m \in Multis, InfoEnds(m) PROVE TypeOK'
  <2>1. UNCHANGED <<handle, closed, active, running, attached, requests, idleRefs,
                    easyVars, curlVars, completing, snapshot, masked>>
    BY <1>14 DEF InfoEnds, Leave
  <2>2. CASE /\ deferred' = [deferred EXCEPT ![m] = None]
             /\ late' = [late EXCEPT ![m] = {}]
             /\ Leave(m, "raised")
    BY <2>1, <2>2 DEF TypeOK, Leave, easyVars, curlVars
  <2>3. CASE /\ pc' = [pc EXCEPT ![m] = "block"]
             /\ UNCHANGED <<deferred, late, last, performActive, callbackActive, result>>
    BY <2>1, <2>3 DEF TypeOK, easyVars, curlVars
  <2> QED BY <1>14, <2>2, <2>3 DEF InfoEnds
<1>15. ASSUME NEW m \in Multis, BlockReturns(m) PROVE TypeOK'
  BY <1>15 DEF TypeOK, BlockReturns, multiVars, rubyVars, easyVars, curlVars
<1>16. ASSUME NEW m \in Multis, BlockRaises(m) PROVE TypeOK'
  BY <1>16 DEF TypeOK, BlockRaises, Leave, rubyVars, easyVars, curlVars
<1>17. ASSUME NEW m \in Multis, PerformReturns(m) PROVE TypeOK'
  <2>1. CASE CloseAccepted(m, FALSE) /\ Leave(m, "ok") /\ late' = [late EXCEPT ![m] = {}]
    <3>1. ClearBackReferences(ClosedReferences(m, FALSE) \cup attached[m])
      BY <2>1 DEF CloseAccepted
    <3> QED BY <1>17, <2>1, <3>1, TypeClear
            DEF TypeOK, PerformReturns, CloseAccepted, ForgetIdle, Leave
  <2>2. CASE CloseStops(m) /\ Leave(m, "raised") /\ UNCHANGED late
    BY <1>17, <2>2, TypeStops DEF TypeOK, PerformReturns, CloseStops, Leave
  <2>3. CASE /\ Leave(m, "ok")
             /\ UNCHANGED <<handle, closed, active, running, attached, rubyVars, easyMulti,
                            curlVars, late>>
    BY <1>17, <2>3 DEF TypeOK, PerformReturns, Leave, rubyVars, curlVars
  <2> QED BY <1>17, <2>1, <2>2, <2>3 DEF PerformReturns
<1> QED
  BY <1>1, <1>2, <1>3, <1>4, <1>5, <1>6, <1>7, <1>8, <1>9, <1>10, <1>11, <1>12, <1>13,
     <1>14, <1>15, <1>16, <1>17, <1>2a DEF Next, Program, Loop

\* Type correctness of Curl::Multi, whatever the program does.
THEOREM TypeCorrect == Spec => []TypeOK
<1>1. Init => TypeOK
  BY DEF Init, TypeOK, NoSnapshot
<1> QED BY <1>1, TypeStep, PTL DEF Spec

-----------------------------------------------------------------------------
(***************************************************************************)
(* Ownership.  OwnershipAgrees is inductive together with the fact that a  *)
(* multi without a native handle holds nothing, which is what lets _add    *)
(* start from empty tables when it re-creates the handle.                  *)
(***************************************************************************)

ReleasedIsEmpty == \A m \in Multis : ~handle[m] => attached[m] = {} /\ requests[m] = {}

Owned == TypeOK /\ OwnershipAgrees /\ ReleasedIsEmpty

\* An attached easy is in the multi its back reference names and in no other,
\* so libcurl never refuses to take it out of that multi.
LEMMA AttachedRemovable ==
  ASSUME Owned, NEW m \in Multis, NEW e \in attached[m]
  PROVE  /\ RemoveHandleOK(m, e)
         /\ easyMulti[e] = m
         /\ \A n \in Multis : e \in attached[n] => n = m
<1>1. handle[m] BY DEF Owned, ReleasedIsEmpty
<1>2. e \in Easies BY DEF Owned, TypeOK
<1> QED BY <1>1, <1>2 DEF Owned, OwnershipAgrees, RemoveHandleOK

\* A step that only takes easies out of tables, the same easies out of each of
\* the three tables and no others out of the requests, keeps the tables agreed
\* if it leaves the back references of the remaining ones alone.
LEMMA OwnershipShrinks ==
  ASSUME Owned, NEW m \in Multis, NEW S,
         added' = Without(added, m, S),
         done' = Without(done, m, S),
         attached' = Without(attached, m, S),
         requests' = requests \/ requests' = Without(requests, m, S),
         \A n \in Multis \ {m} : \A x \in attached[n] : easyMulti'[x] = easyMulti[x],
         \A x \in attached[m] \ S : easyMulti'[x] = easyMulti[x],
         handle' = handle
  PROVE  OwnershipAgrees' /\ ReleasedIsEmpty'
<1> USE DEF Owned
<1>1. ASSUME NEW n \in Multis, n # m
      PROVE  /\ added'[n] = added[n] /\ done'[n] = done[n]
             /\ attached'[n] = attached[n] /\ requests'[n] = requests[n]
  BY <1>1 DEF TypeOK, Without
<1>2. /\ added'[m] = added[m] \ S /\ done'[m] = done[m] \ S
      /\ attached'[m] = attached[m] \ S
      /\ requests'[m] = requests[m] \/ requests'[m] = requests[m] \ S
  BY DEF TypeOK, Without
<1> HIDE DEF Owned
<1>3. TypeOK /\ OwnershipAgrees /\ ReleasedIsEmpty BY DEF Owned
<1>4. ASSUME NEW n \in Multis
      PROVE  /\ added'[n] = attached'[n]
             /\ done'[n] \subseteq attached'[n]
             /\ attached'[n] \subseteq requests'[n]
             /\ \A e \in attached'[n] : easyMulti'[e] = n
             /\ ~handle'[n] => attached'[n] = {} /\ requests'[n] = {}
  <2>1. CASE n = m
    <3>1. added'[m] = attached'[m] /\ done'[m] \subseteq attached'[m]
      BY <1>2, <1>3 DEF OwnershipAgrees
    <3>2. attached'[m] \subseteq requests'[m] BY <1>2, <1>3 DEF OwnershipAgrees
    <3>3. \A e \in attached'[m] : easyMulti'[e] = m BY <1>2, <1>3 DEF OwnershipAgrees
    <3>4. ~handle'[m] => attached'[m] = {} /\ requests'[m] = {}
      BY <1>2, <1>3 DEF ReleasedIsEmpty
    <3> QED BY <2>1, <3>1, <3>2, <3>3, <3>4
  <2>2. CASE n # m BY <1>1, <1>3, <2>2 DEF OwnershipAgrees, ReleasedIsEmpty
  <2> QED BY <2>1, <2>2
<1> QED BY <1>4 DEF OwnershipAgrees, ReleasedIsEmpty

\* Easies that libcurl agrees to take out of m are in no other multi.
LEMMA RemovableElsewhere ==
  ASSUME Owned, NEW m \in Multis, NEW S, \A e \in S : RemoveHandleOK(m, e)
  PROVE  \A n \in Multis \ {m} : \A x \in attached[n] : x \notin S
BY DEF Owned, OwnershipAgrees, RemoveHandleOK

LEMMA OwnershipStep == Owned /\ [Next]_vars => OwnershipAgrees' /\ ReleasedIsEmpty'
<1> SUFFICES ASSUME Owned, [Next]_vars PROVE OwnershipAgrees' /\ ReleasedIsEmpty'
  OBVIOUS
<1> USE DEF Owned
<1>1. CASE UNCHANGED vars
  BY <1>1 DEF OwnershipAgrees, ReleasedIsEmpty, vars, multiVars, rubyVars, easyVars, curlVars
<1>2. ASSUME NEW m \in Multis, NEW e \in Easies, Add(m, e)
      PROVE  OwnershipAgrees' /\ ReleasedIsEmpty'
  <2>1. \A n \in Multis : e \notin attached[n]
    BY <1>2 DEF Add, AddHandleOK, OwnershipAgrees
  <2>2. /\ attached'[m] = attached[m] \cup {e} /\ added'[m] = added[m] \cup {e}
        /\ requests'[m] = requests[m] \cup {e} /\ done'[m] = done[m] /\ handle'[m]
        /\ easyMulti'[e] = m /\ \A x \in Easies \ {e} : easyMulti'[x] = easyMulti[x]
    BY <1>2 DEF TypeOK, Add
  <2>3. ASSUME NEW n \in Multis, n # m
        PROVE  /\ attached'[n] = attached[n] /\ added'[n] = added[n]
               /\ requests'[n] = requests[n] /\ done'[n] = done[n] /\ handle'[n] = handle[n]
    BY <1>2, <2>3 DEF TypeOK, Add
  <2>4. \A n \in Multis : attached[n] \subseteq Easies BY DEF TypeOK
  <2>5. ASSUME NEW n \in Multis
        PROVE  /\ added'[n] = attached'[n]
               /\ done'[n] \subseteq attached'[n]
               /\ attached'[n] \subseteq requests'[n]
               /\ \A x \in attached'[n] : easyMulti'[x] = n
               /\ ~handle'[n] => attached'[n] = {} /\ requests'[n] = {}
    <3>1. CASE n = m
      <4>1. added[m] = attached[m] /\ done[m] \subseteq attached[m]
            /\ attached[m] \subseteq requests[m] /\ \A x \in attached[m] : easyMulti[x] = m
        BY DEF OwnershipAgrees
      <4>2. \A x \in attached'[m] : easyMulti'[x] = m BY <2>2, <2>4, <4>1
      <4>3. added'[m] = attached'[m] /\ done'[m] \subseteq attached'[m]
            /\ attached'[m] \subseteq requests'[m]
        BY <2>2, <4>1
      <4> QED BY <2>2, <3>1, <4>2, <4>3
    <3>2. CASE n # m BY <2>1, <2>2, <2>3, <2>4, <3>2 DEF OwnershipAgrees, ReleasedIsEmpty
    <3> QED BY <3>1, <3>2
  <2> QED BY <2>5 DEF OwnershipAgrees, ReleasedIsEmpty
<1>2a. ASSUME NEW m \in Multis, NEW e \in Easies, AddRaises(m, e)
       PROVE  OwnershipAgrees' /\ ReleasedIsEmpty'
  BY <1>2a DEF TypeOK, OwnershipAgrees, ReleasedIsEmpty, AddRaises, rubyVars, curlVars
<1>3. ASSUME NEW m \in Multis, NEW e \in Easies, Remove(m, e)
      PROVE  OwnershipAgrees' /\ ReleasedIsEmpty'
  <2>1. CASE RemoveHandleOK(m, e)
    <3>1. Detach(m, {e}) /\ ClearBackReferences({e}) BY <1>3, <2>1 DEF Remove
    <3>2. requests' = Without(requests, m, {e}) /\ handle' = handle BY <1>3 DEF Remove
    <3>3. \A n \in Multis \ {m} : \A x \in attached[n] : x \notin {e}
      <4>1. \A x \in {e} : RemoveHandleOK(m, x) BY <2>1
      <4> QED BY <4>1, RemovableElsewhere
    <3>4. \A n \in Multis : \A x \in attached[n] : x \notin {e} => easyMulti'[x] = easyMulti[x]
      BY <3>1 DEF ClearBackReferences, TypeOK
    <3> QED BY <3>1, <3>2, <3>3, <3>4, OwnershipShrinks DEF Detach
  <2>2. CASE ~RemoveHandleOK(m, e)
    <3>1. e \notin attached[m] BY <2>2, AttachedRemovable
    <3>2. /\ requests' = Without(requests, m, {e})
          /\ UNCHANGED <<added, done, attached, easyMulti, handle>>
      BY <1>3, <2>2 DEF Remove
    <3> QED BY <3>1, <3>2 DEF TypeOK, OwnershipAgrees, ReleasedIsEmpty, Without
  <2> QED BY <2>1, <2>2
<1>4. ASSUME NEW e \in Easies, NEW n \in Multis \cup {None}, Assign(e, n)
      PROVE  OwnershipAgrees' /\ ReleasedIsEmpty'
  <2>1. CASE easyMulti[e] \in HoldersOf(e)
    <3>1. PICK m \in Multis : m = easyMulti[e] BY <2>1 DEF HoldersOf
    <3>2. /\ RemoveHandleOK(m, e)
          /\ requests' = Without(requests, m, {e})
          /\ Detach(m, {e})
          /\ easyMulti' = [easyMulti EXCEPT ![e] = n]
          /\ handle' = handle
      BY <1>4, <2>1, <3>1 DEF Assign
    <3>3. \A k \in Multis \ {m} : \A x \in attached[k] : x \notin {e}
      BY <3>2, RemovableElsewhere
    <3>4. \A k \in Multis : \A x \in attached[k] : x \notin {e} => easyMulti'[x] = easyMulti[x]
      BY <3>2 DEF TypeOK
    <3> QED BY <3>2, <3>3, <3>4, OwnershipShrinks DEF Detach
  <2>2. CASE easyMulti[e] \notin HoldersOf(e)
    <3>1. \A m \in Multis : e \notin attached[m]
      BY <2>2 DEF HoldersOf, OwnershipAgrees, TypeOK
    <3>2. /\ UNCHANGED <<requests, added, done, attached, handle>>
          /\ easyMulti' = [easyMulti EXCEPT ![e] = n]
      BY <1>4, <2>2 DEF Assign
    <3> QED BY <3>1, <3>2 DEF TypeOK, OwnershipAgrees, ReleasedIsEmpty
  <2> QED BY <2>1, <2>2
<1>5. ASSUME NEW e \in Easies, CloseEasy(e) PROVE OwnershipAgrees' /\ ReleasedIsEmpty'
  <2>1. \A n \in Multis : \A x \in attached[n] : x \notin {e} => easyMulti'[x] = easyMulti[x]
    BY <1>5 DEF CloseEasy, TypeOK
  <2>2. CASE easyMulti[e] \in Multis
    <3>1. PICK m \in Multis : m = easyMulti[e] BY <2>2
    <3>2. \A n \in Multis \ {m} : \A x \in attached[n] : x \notin {e}
      BY <3>1 DEF OwnershipAgrees
    <3>3. /\ added' = Without(added, m, {e}) /\ done' = Without(done, m, {e})
          /\ attached' = Without(attached, m, {e}) /\ requests' = requests /\ handle' = handle
      BY <1>5, <3>1 DEF CloseEasy, Without, TypeOK
    <3> QED BY <2>1, <3>2, <3>3, OwnershipShrinks
  <2>3. CASE easyMulti[e] \notin Multis
    <3>1. UNCHANGED <<added, done, attached, requests, handle>>
      BY <1>5, <2>3 DEF CloseEasy, TypeOK
    <3>2. \A n \in Multis : \A x \in attached[n] : x \notin {e}
      BY <2>3 DEF OwnershipAgrees
    <3> QED BY <2>1, <3>1, <3>2 DEF OwnershipAgrees, ReleasedIsEmpty
  <2> QED BY <2>2, <2>3
<1>6. ASSUME NEW m \in Multis, CloseStops(m) PROVE OwnershipAgrees' /\ ReleasedIsEmpty'
  <2>1. PICK R \in SUBSET (requests[m] \ Unremovable(m)) : Detach(m, R) /\ ClearBackReferences(R)
    BY <1>6 DEF CloseStops
  <2>2. \A e \in R : RemoveHandleOK(m, e) BY <2>1 DEF Unremovable
  <2>3. UNCHANGED <<handle, requests>> BY <1>6 DEF CloseStops
  <2>4. \A n \in Multis \ {m} : \A x \in attached[n] : x \notin R
    BY <2>2, RemovableElsewhere
  <2>5. \A n \in Multis : \A x \in attached[n] : x \notin R => easyMulti'[x] = easyMulti[x]
    BY <2>1 DEF ClearBackReferences, TypeOK
  <2> QED BY <2>1, <2>3, <2>4, <2>5, OwnershipShrinks DEF Detach
<1>7. ASSUME NEW m \in Multis, NEW permanent \in BOOLEAN, CloseAccepted(m, permanent)
      PROVE  OwnershipAgrees' /\ ReleasedIsEmpty'
  <2>1. \A e \in requests[m] : RemoveHandleOK(m, e) BY <1>7 DEF CloseAccepted, Unremovable
  <2>2. \A n \in Multis \ {m} : \A e \in ClosedReferences(m, permanent) \cup attached[m] :
           e \notin attached[n]
    BY <2>1 DEF ClosedReferences, OwnershipAgrees, RemoveHandleOK, TypeOK
  <2> HIDE DEF ClosedReferences
  <2> QED BY <1>7, <2>2 DEF TypeOK, OwnershipAgrees, ReleasedIsEmpty, CloseAccepted,
                            ClearBackReferences
<1>8. ASSUME NEW m \in Multis, CloseRejected(m) PROVE OwnershipAgrees' /\ ReleasedIsEmpty'
  <2>1. \A e \in requests[m] : RemoveHandleOK(m, e) BY <1>8 DEF CloseRejected, Unremovable
  <2>2. \A n \in Multis \ {m} : \A e \in ClosedReferences(m, TRUE) : e \notin attached[n]
    BY <2>1 DEF ClosedReferences, OwnershipAgrees, RemoveHandleOK, TypeOK
  <2>3. \A n \in Multis \ {m} : \A x \in attached[n] : easyMulti'[x] = easyMulti[x]
    BY <1>8, <2>2 DEF CloseRejected, ClearBackReferences, TypeOK
  <2>4. attached[m] \ requests[m] = {} BY DEF OwnershipAgrees
  <2>5. requests' = Without(requests, m, requests[m]) BY <1>8 DEF CloseRejected, Without, TypeOK
  <2>6. Detach(m, requests[m]) /\ handle' = handle BY <1>8 DEF CloseRejected
  <2> QED BY <2>3, <2>4, <2>5, <2>6, OwnershipShrinks DEF Detach
<1>9. ASSUME NEW m \in Multis, CloseMulti(m) PROVE OwnershipAgrees' /\ ReleasedIsEmpty'
  BY <1>6, <1>7, <1>8, <1>9 DEF CloseMulti
<1>10. ASSUME NEW m \in Multis, Perform(m) PROVE OwnershipAgrees' /\ ReleasedIsEmpty'
  BY <1>10 DEF TypeOK, OwnershipAgrees, ReleasedIsEmpty, Perform, rubyVars, easyVars, curlVars
<1>11. ASSUME NEW m \in Multis, Run(m) PROVE OwnershipAgrees' /\ ReleasedIsEmpty'
  <2>1. PICK D \in SUBSET (added[m] \ done[m]) : done' = [done EXCEPT ![m] = @ \cup D]
    BY <1>11 DEF Run
  <2> QED BY <1>11, <2>1 DEF TypeOK, OwnershipAgrees, ReleasedIsEmpty, Run, rubyVars
<1>12. ASSUME NEW m \in Multis, RunRaises(m) \/ BlockRaises(m)
       PROVE  OwnershipAgrees' /\ ReleasedIsEmpty'
  BY <1>12 DEF OwnershipAgrees, ReleasedIsEmpty, RunRaises, BlockRaises, rubyVars, easyVars, curlVars
<1>13. ASSUME NEW m \in Multis, NEW e \in Easies, HandleComplete(m, e)
       PROVE  OwnershipAgrees' /\ ReleasedIsEmpty'
  BY <1>13, OwnershipShrinks DEF HandleComplete, Detach
<1>14. ASSUME NEW m \in Multis, CallbackReturns(m) \/ CallbackThrows(m)
       PROVE  OwnershipAgrees' /\ ReleasedIsEmpty'
  BY <1>14 DEF TypeOK, OwnershipAgrees, ReleasedIsEmpty, CallbackReturns, CallbackThrows,
               FinishCompletion, AttachedAgain
<1>15. ASSUME NEW m \in Multis, CallbackRaises(m) PROVE OwnershipAgrees' /\ ReleasedIsEmpty'
  <2> DEFINE R == AddedSinceSnapshot(m)
             references == [x \in Easies |-> IF x \in R THEN None ELSE easyMulti[x]]
  <2>1. R \subseteq attached[m] BY DEF AddedSinceSnapshot
  <2>2. /\ Detach(m, R)
        /\ requests' = Without(requests, m, R)
        /\ handle' = handle
        /\ easyMulti' = [references EXCEPT ![completing[m]] =
              IF @ = m /\ ~AttachedAgain(m, completing[m]) THEN None ELSE @]
    BY <1>15 DEF CallbackRaises, FinishCompletion
  <2>3. \A n \in Multis \ {m} : \A e \in attached[n] : e \notin R
    BY <2>1 DEF OwnershipAgrees
  <2> HIDE DEF R
  <2>4. \A n \in Multis \ {m} : attached'[n] = attached[n]
    BY <2>2 DEF Detach, Without, TypeOK
  <2>5. attached'[m] = attached[m] \ R BY <2>2 DEF Detach, Without, TypeOK
  <2>6. \A n \in Multis \ {m} : \A x \in attached[n] : easyMulti'[x] = easyMulti[x]
    BY <2>2, <2>3 DEF OwnershipAgrees, TypeOK
  <2>7. \A x \in attached[m] \ R : easyMulti'[x] = easyMulti[x]
    BY <2>2, <2>5 DEF AttachedAgain, TypeOK
  <2> QED BY <2>2, <2>6, <2>7, OwnershipShrinks DEF Detach
<1>16. ASSUME NEW m \in Multis, InfoEnds(m) \/ BlockReturns(m)
       PROVE  OwnershipAgrees' /\ ReleasedIsEmpty'
  BY <1>16 DEF OwnershipAgrees, ReleasedIsEmpty, InfoEnds, BlockReturns, multiVars, rubyVars,
               easyVars, curlVars
<1>17. ASSUME NEW m \in Multis, PerformReturns(m) PROVE OwnershipAgrees' /\ ReleasedIsEmpty'
  <2>1. CASE UNCHANGED <<handle, closed, active, running, attached, rubyVars, easyMulti,
                         curlVars, late>>
    BY <2>1 DEF OwnershipAgrees, ReleasedIsEmpty, rubyVars, curlVars
  <2> QED BY <1>6, <1>7, <1>17, <2>1 DEF PerformReturns
<1> QED
  BY <1>1, <1>2, <1>3, <1>4, <1>5, <1>9, <1>10, <1>11, <1>12, <1>13, <1>14, <1>15, <1>16,
     <1>17, <1>2a DEF Next, Program, Loop

\* The inductive invariant, which the proofs about the loop use as well.
LEMMA OwnedInvariant == Spec => []Owned
<1>1. Init => Owned
  BY DEF Init, Owned, TypeOK, NoSnapshot, OwnershipAgrees, ReleasedIsEmpty
<1>2. Owned /\ [Next]_vars => Owned'
  BY TypeStep, OwnershipStep DEF Owned
<1> QED BY <1>1, <1>2, PTL DEF Spec

\* The attached table, libcurl's set, the request table and the back references
\* of the easies agree in every state of every program, also when callbacks
\* attach, detach, move or close handles, and when a close is refused half way.
THEOREM OwnershipCorrect == Spec => []OwnershipAgrees
<1>1. Owned => OwnershipAgrees
  BY DEF Owned
<1> QED BY <1>1, OwnedInvariant, PTL

-----------------------------------------------------------------------------
(***************************************************************************)
(* The tables of one multi after a step, easy by easy.                     *)
(***************************************************************************)

\* Detach changes the tables of one multi only.
LEMMA DetachFacts ==
  ASSUME TypeOK, NEW m \in Multis, NEW S, Detach(m, S)
  PROVE  /\ attached'[m] = attached[m] \ S
         /\ added'[m] = added[m] \ S
         /\ done'[m] = done[m] \ S
         /\ active'[m] = Decrement(active[m], Cardinality(S))
         /\ \A n \in Multis \ {m} : /\ attached'[n] = attached[n] /\ added'[n] = added[n]
                                    /\ done'[n] = done[n] /\ active'[n] = active[n]
BY DEF TypeOK, Detach, Without

\* So does forgetting requests.
LEMMA WithoutFacts ==
  ASSUME TypeOK, NEW m \in Multis, NEW S, requests' = Without(requests, m, S)
  PROVE  /\ requests'[m] = requests[m] \ S
         /\ \A n \in Multis \ {m} : requests'[n] = requests[n]
BY DEF TypeOK, Without

\* The end of a perform concerns one frame only.
LEMMA LeaveFacts ==
  ASSUME TypeOK, NEW m \in Multis, NEW how, Leave(m, how)
  PROVE  /\ pc'[m] = "idle" /\ ~last'[m] /\ ~performActive'[m] /\ ~callbackActive'[m]
         /\ result'[m] = how
         /\ \A n \in Multis \ {m} : /\ pc'[n] = pc[n] /\ last'[n] = last[n]
                                    /\ performActive'[n] = performActive[n]
                                    /\ callbackActive'[n] = callbackActive[n]
                                    /\ result'[n] = result[n]
         /\ UNCHANGED <<completing, snapshot, masked>>
BY DEF TypeOK, Leave

-----------------------------------------------------------------------------
(***************************************************************************)
(* Counting.  active is the number of requests, and running is at least    *)
(* the number of transfers that have not finished.                         *)
(***************************************************************************)

ActiveExact(m) == requests[m] = attached[m] /\ active[m] = Cardinality(requests[m])
RunningCovers(m) == Cardinality(added[m] \ done[m]) <= running[m]

\* active keeps counting the requests when some of them are taken out.
LEMMA ActiveShrinks ==
  ASSUME TypeOK, NEW m \in Multis, NEW S \in SUBSET requests[m], Detach(m, S),
         requests' = Without(requests, m, S), \A n \in Multis : ActiveExact(n)
  PROVE  \A n \in Multis : ActiveExact(n)'
<1>1. requests[m] \in SUBSET Easies BY DEF TypeOK
<1>2. Cardinality(requests[m] \ S) = Cardinality(requests[m]) - Cardinality(S)
  BY <1>1, CardinalityWithout
<1>3. Cardinality(S) <= Cardinality(requests[m]) BY <1>1, CardinalitySubset
<1>4. Cardinality(S) \in Nat /\ Cardinality(requests[m]) \in Nat BY <1>1, EasySetFinite
<1>5. Decrement(active[m], Cardinality(S)) = Cardinality(requests[m] \ S)
  BY <1>2, <1>3, <1>4 DEF Decrement, ActiveExact
<1>6. /\ requests'[m] = requests[m] \ S /\ attached'[m] = attached[m] \ S
      /\ active'[m] = Cardinality(requests[m] \ S)
      /\ \A n \in Multis \ {m} : /\ requests'[n] = requests[n] /\ attached'[n] = attached[n]
                                 /\ active'[n] = active[n]
  BY <1>5, DetachFacts, WithoutFacts
<1> QED BY <1>6 DEF ActiveExact

\* Without closed attached easies every request can be removed.
LEMMA RequestsRemovable ==
  ASSUME Owned, NEW m \in Multis, ActiveExact(m)
  PROVE  Unremovable(m) = {}
BY AttachedRemovable DEF ActiveExact, Unremovable

LEMMA ActiveStep ==
  ASSUME "close_attached" \notin Liberties, Owned, [Next]_vars,
         \A n \in Multis : ActiveExact(n)
  PROVE  \A n \in Multis : ActiveExact(n)'
<1> DEFINE Goal == \A n \in Multis : ActiveExact(n)'
<1>0. TypeOK /\ OwnershipAgrees /\ ReleasedIsEmpty BY DEF Owned
<1>1. ASSUME UNCHANGED <<requests, attached, active>> PROVE Goal
  BY <1>1 DEF ActiveExact
<1>2. ASSUME NEW m \in Multis, NEW e \in Easies, Add(m, e) PROVE Goal
  <2>1. /\ requests'[m] = requests[m] \cup {e} /\ attached'[m] = attached[m] \cup {e}
        /\ active'[m] = IF handle[m] THEN active[m] + 1 ELSE 1
        /\ e \notin requests[m]
    BY <1>0, <1>2 DEF TypeOK, Add
  <2>2. \A n \in Multis \ {m} : /\ requests'[n] = requests[n] /\ attached'[n] = attached[n]
                                /\ active'[n] = active[n]
    BY <1>0, <1>2 DEF TypeOK, Add
  <2>3. Cardinality(requests[m] \cup {e}) = Cardinality(requests[m]) + 1
    BY <1>0, <2>1, CardinalityWith DEF TypeOK
  <2>4. ~handle[m] => Cardinality(requests[m]) = 0
    BY <1>0, CardinalitySmall DEF ReleasedIsEmpty
  <2>5. active'[m] = Cardinality(requests'[m])
    BY <2>1, <2>3, <2>4 DEF ActiveExact
  <2> QED BY <2>1, <2>2, <2>5 DEF ActiveExact
<1>3. ASSUME NEW m \in Multis, NEW e \in Easies, AddRaises(m, e) PROVE Goal
  <2>1. active' = [active EXCEPT ![m] = IF handle[m] THEN @ ELSE 0] BY <1>3 DEF AddRaises
  <2>2. ~handle[m] => requests[m] = {} BY <1>0 DEF ReleasedIsEmpty
  <2>3. ~handle[m] => active[m] = 0 BY <2>2, CardinalitySmall DEF ActiveExact
  <2>4. active' = active BY <1>0, <2>1, <2>3 DEF TypeOK
  <2> QED BY <1>1, <1>3, <2>4 DEF AddRaises, rubyVars
<1>4. ASSUME NEW m \in Multis, NEW e \in Easies, Remove(m, e) PROVE Goal
  <2>1. RemoveHandleOK(m, e) BY <1>4, AttachedRemovable DEF Remove, ActiveExact
  <2> QED BY <1>0, <1>4, <2>1, ActiveShrinks DEF Remove
<1>5. ASSUME NEW e \in Easies, NEW n \in Multis \cup {None}, Assign(e, n) PROVE Goal
  <2>1. CASE easyMulti[e] \in HoldersOf(e)
    <3>1. PICK m \in Multis : m = easyMulti[e] /\ e \in requests[m]
      BY <2>1 DEF HoldersOf, ActiveExact
    <3> QED BY <1>0, <1>5, <2>1, <3>1, ActiveShrinks DEF Assign
  <2>2. CASE easyMulti[e] \notin HoldersOf(e) BY <1>1, <1>5, <2>2 DEF Assign
  <2> QED BY <2>1, <2>2
<1>6. ASSUME NEW e \in Easies, CloseEasy(e) PROVE Goal
  <2>1. \A m \in Multis : e \notin attached[m] BY <1>6 DEF CloseEasy
  <2>2. attached' = attached BY <1>0, <1>6, <2>1 DEF CloseEasy, TypeOK
  <2> QED BY <1>1, <1>6, <2>2 DEF CloseEasy
<1>7. ASSUME NEW m \in Multis, CloseStops(m) PROVE Goal
  BY <1>7, RequestsRemovable DEF CloseStops
<1>8. ASSUME NEW m \in Multis, NEW permanent \in BOOLEAN, CloseAccepted(m, permanent) PROVE Goal
  BY <1>0, <1>8, CardinalitySmall DEF TypeOK, CloseAccepted, ActiveExact
<1>9. ASSUME NEW m \in Multis, CloseRejected(m) PROVE Goal
  <2>1. requests' = Without(requests, m, requests[m])
    BY <1>0, <1>9 DEF CloseRejected, Without, TypeOK
  <2> QED BY <1>0, <1>9, <2>1, ActiveShrinks DEF CloseRejected
<1>10. ASSUME NEW m \in Multis, CloseMulti(m) PROVE Goal
  BY <1>7, <1>8, <1>9, <1>10 DEF CloseMulti
<1>11. ASSUME NEW m \in Multis, Perform(m) PROVE Goal
  <2>1. active' = active
    BY <1>0, <1>11, CardinalitySmall DEF TypeOK, Perform, ReleasedIsEmpty, ActiveExact
  <2> QED BY <1>1, <1>11, <2>1 DEF Perform, rubyVars
<1>12. ASSUME NEW m \in Multis, NEW e \in Easies, HandleComplete(m, e) PROVE Goal
  <2>1. e \in requests[m] BY <1>0, <1>12 DEF HandleComplete, OwnershipAgrees
  <2> QED BY <1>0, <1>12, <2>1, ActiveShrinks DEF HandleComplete
<1>13. ASSUME NEW m \in Multis, CallbackRaises(m) PROVE Goal
  <2>1. AddedSinceSnapshot(m) \in SUBSET requests[m]
    BY DEF AddedSinceSnapshot, ActiveExact
  <2> QED BY <1>0, <1>13, <2>1, ActiveShrinks DEF CallbackRaises
<1>14. ASSUME NEW m \in Multis, PerformReturns(m) PROVE Goal
  BY <1>1, <1>7, <1>8, <1>14 DEF PerformReturns, rubyVars
<1>15. ASSUME NEW m \in Multis,
              \/ Run(m) \/ RunRaises(m) \/ CallbackReturns(m) \/ CallbackThrows(m)
              \/ InfoEnds(m) \/ BlockReturns(m) \/ BlockRaises(m)
       PROVE  Goal
  BY <1>1, <1>15 DEF Run, RunRaises, CallbackReturns, CallbackThrows, InfoEnds, BlockReturns,
                     BlockRaises, multiVars, rubyVars
<1>16. CASE UNCHANGED vars BY <1>1, <1>16 DEF vars, multiVars, rubyVars
<1> QED
  BY <1>2, <1>3, <1>4, <1>5, <1>6, <1>10, <1>11, <1>12, <1>13, <1>14, <1>15, <1>16
  DEF Next, Program, Loop

\* The counter by which raise_multi_deferred_exception_if_idle decides is the
\* number of requests, and a request is a transfer, in every program that does
\* not close attached easies.
THEOREM ActiveCorrect == Spec => []ActiveIsExact
<1>1. CASE "close_attached" \notin Liberties
  <2> DEFINE Exact == \A m \in Multis : ActiveExact(m)
  <2>1. Init => Exact
    BY CardinalitySmall DEF Init, ActiveExact
  <2>2. Owned /\ Exact /\ [Next]_vars => Exact'
    BY <1>1, ActiveStep
  <2>3. Exact => ActiveIsExact
    BY DEF ActiveIsExact, ActiveExact
  <2> QED BY <2>1, <2>2, <2>3, OwnedInvariant, PTL DEF Spec
<1>2. CASE "close_attached" \in Liberties
  <2>1. ActiveIsExact BY <1>2 DEF ActiveIsExact
  <2> QED BY <2>1, PTL
<1> QED BY <1>1, <1>2

LEMMA RunningStep ==
  ASSUME Owned, [Next]_vars, \A n \in Multis : RunningCovers(n)
  PROVE  \A n \in Multis : RunningCovers(n)'
<1> DEFINE Goal == \A n \in Multis : RunningCovers(n)'
<1>0. TypeOK /\ OwnershipAgrees /\ ReleasedIsEmpty BY DEF Owned
<1>1. ASSUME NEW n \in Multis, added'[n] \ done'[n] \subseteq added[n] \ done[n],
             running'[n] = running[n]
      PROVE  RunningCovers(n)'
  <2>1. added[n] \ done[n] \in SUBSET Easies BY <1>0 DEF TypeOK
  <2>2. Cardinality(added'[n] \ done'[n]) <= Cardinality(added[n] \ done[n])
    BY <1>1, <2>1, CardinalitySubset
  <2>3. /\ Cardinality(added[n] \ done[n]) \in Nat /\ Cardinality(added'[n] \ done'[n]) \in Nat
        /\ running[n] \in Nat
    BY <1>0, <1>1, <2>1, EasySetFinite DEF TypeOK
  <2> QED BY <1>1, <2>2, <2>3 DEF RunningCovers
<1>2. ASSUME NEW n \in Multis, added'[n] = {}, running'[n] = 0
      PROVE  RunningCovers(n)'
  <2>1. added'[n] \ done'[n] = {} BY <1>2
  <2> QED BY <1>2, <2>1, CardinalitySmall DEF RunningCovers
<1>3. ASSUME UNCHANGED <<added, done, running>> PROVE Goal
  BY <1>1, <1>3
<1>4. ASSUME NEW m \in Multis, NEW S, Detach(m, S), UNCHANGED running PROVE Goal
  BY <1>0, <1>1, <1>4, DetachFacts
<1>5. ASSUME NEW m \in Multis, NEW e \in Easies, Add(m, e) PROVE Goal
  <2>1. /\ added'[m] = added[m] \cup {e} /\ done'[m] = done[m]
        /\ running'[m] = IF handle[m] THEN running[m] + 1 ELSE 1
        /\ e \notin added[m]
        /\ running[m] \in Nat
    BY <1>0, <1>5 DEF TypeOK, Add, AddHandleOK, RunningAfterAdd
  <2>2. \A n \in Multis \ {m} : /\ added'[n] = added[n] /\ done'[n] = done[n]
                                /\ running'[n] = running[n]
    BY <1>0, <1>5 DEF TypeOK, Add
  <2>3. e \notin done[m] BY <1>0, <2>1 DEF OwnershipAgrees
  <2>4. added'[m] \ done'[m] = (added[m] \ done[m]) \cup {e} BY <2>1, <2>3
  <2>5. Cardinality(added'[m] \ done'[m]) = Cardinality(added[m] \ done[m]) + 1
    BY <1>0, <2>1, <2>4, CardinalityWith DEF TypeOK
  <2>6. ~handle[m] => Cardinality(added[m] \ done[m]) = 0
    <3>1. ~handle[m] => added[m] \ done[m] = {} BY <1>0 DEF ReleasedIsEmpty, OwnershipAgrees
    <3> QED BY <3>1, CardinalitySmall
  <2>7. Cardinality(added[m] \ done[m]) \in Nat BY <1>0, EasySetFinite DEF TypeOK
  <2>8. RunningCovers(m)' BY <2>1, <2>5, <2>6, <2>7 DEF RunningCovers
  <2> QED BY <1>1, <2>2, <2>8
<1>6. ASSUME NEW m \in Multis, UNCHANGED <<added, done>>,
             running' = [running EXCEPT ![m] = IF handle[m] THEN @ ELSE 0]
      PROVE  Goal
  <2>1. CASE handle[m] BY <1>0, <1>3, <1>6, <2>1 DEF TypeOK
  <2>2. CASE ~handle[m]
    <3>1. added'[m] = {} /\ running'[m] = 0
      BY <1>0, <1>6, <2>2 DEF TypeOK, ReleasedIsEmpty, OwnershipAgrees
    <3>2. \A n \in Multis \ {m} : running'[n] = running[n] BY <1>0, <1>6 DEF TypeOK
    <3> QED BY <1>1, <1>2, <1>6, <3>1, <3>2
  <2> QED BY <2>1, <2>2
<1>7. ASSUME NEW m \in Multis, NEW e \in Easies, AddRaises(m, e) PROVE Goal
  BY <1>6, <1>7 DEF AddRaises, curlVars
<1>8. ASSUME NEW m \in Multis, NEW e \in Easies, Remove(m, e) PROVE Goal
  BY <1>3, <1>4, <1>8 DEF Remove
<1>9. ASSUME NEW e \in Easies, NEW n \in Multis \cup {None}, Assign(e, n) PROVE Goal
  BY <1>3, <1>4, <1>9 DEF Assign, HoldersOf
<1>10. ASSUME NEW e \in Easies, CloseEasy(e) PROVE Goal
  <2>1. \A m \in Multis : added'[m] \ done'[m] \subseteq added[m] \ done[m] /\ running'[m] = running[m]
    BY <1>0, <1>10 DEF CloseEasy, TypeOK
  <2> QED BY <1>1, <2>1
<1>11. ASSUME NEW m \in Multis, CloseStops(m) PROVE Goal
  BY <1>4, <1>11 DEF CloseStops
<1>12. ASSUME NEW m \in Multis, NEW permanent \in BOOLEAN, CloseAccepted(m, permanent) PROVE Goal
  <2>1. added'[m] = {} /\ running'[m] = 0 BY <1>0, <1>12 DEF CloseAccepted, TypeOK
  <2>2. \A n \in Multis \ {m} : /\ added'[n] = added[n] /\ done'[n] = done[n]
                                /\ running'[n] = running[n]
    BY <1>0, <1>12 DEF CloseAccepted, TypeOK
  <2> QED BY <1>1, <1>2, <2>1, <2>2
<1>13. ASSUME NEW m \in Multis, CloseRejected(m) PROVE Goal
  BY <1>4, <1>13 DEF CloseRejected
<1>14. ASSUME NEW m \in Multis, CloseMulti(m) PROVE Goal
  BY <1>11, <1>12, <1>13, <1>14 DEF CloseMulti
<1>15. ASSUME NEW m \in Multis, Perform(m) PROVE Goal
  BY <1>6, <1>15 DEF Perform, curlVars
<1>16. ASSUME NEW m \in Multis, Run(m) PROVE Goal
  <2>1. PICK D \in SUBSET (added[m] \ done[m]) :
          /\ done' = [done EXCEPT ![m] = @ \cup D]
          /\ running' = [running EXCEPT ![m] = Cardinality(added[m] \ (done[m] \cup D))]
    BY <1>16 DEF Run
  <2>2. added' = added BY <1>16 DEF Run
  <2>3. /\ done'[m] = done[m] \cup D
        /\ running'[m] = Cardinality(added[m] \ (done[m] \cup D))
        /\ \A n \in Multis \ {m} : done'[n] = done[n] /\ running'[n] = running[n]
    BY <1>0, <2>1 DEF TypeOK
  <2>4. running'[m] \in Nat
    <3>1. added[m] \ (done[m] \cup D) \in SUBSET Easies BY <1>0 DEF TypeOK
    <3> QED BY <2>3, <3>1, EasySetFinite
  <2>5. RunningCovers(m)' BY <2>2, <2>3, <2>4 DEF RunningCovers
  <2> QED BY <1>1, <2>2, <2>3, <2>5
<1>17. ASSUME NEW m \in Multis, NEW e \in Easies, HandleComplete(m, e) PROVE Goal
  BY <1>4, <1>17 DEF HandleComplete
<1>18. ASSUME NEW m \in Multis, CallbackRaises(m) PROVE Goal
  BY <1>4, <1>18 DEF CallbackRaises, FinishCompletion
<1>19. ASSUME NEW m \in Multis, CallbackReturns(m) \/ CallbackThrows(m) PROVE Goal
  BY <1>3, <1>19 DEF CallbackReturns, CallbackThrows, FinishCompletion
<1>20. ASSUME NEW m \in Multis, PerformReturns(m) PROVE Goal
  BY <1>3, <1>11, <1>12, <1>20 DEF PerformReturns, curlVars
<1>21. ASSUME NEW m \in Multis,
              RunRaises(m) \/ InfoEnds(m) \/ BlockReturns(m) \/ BlockRaises(m)
       PROVE  Goal
  BY <1>3, <1>21 DEF RunRaises, InfoEnds, BlockReturns, BlockRaises, multiVars, curlVars
<1>22. CASE UNCHANGED vars BY <1>3, <1>22 DEF vars, multiVars, curlVars
<1> QED
  BY <1>5, <1>7, <1>8, <1>9, <1>10, <1>14, <1>15, <1>16, <1>17, <1>18, <1>19, <1>20, <1>21, <1>22
  DEF Next, Program, Loop

\* The perform loop never stops while a transfer is unfinished: running covers
\* the transfers, whatever is added and removed between two calls of
\* curl_multi_perform, and however the native handle is re-created.
THEOREM RunningCorrect == Spec => []RunningCoversTransfers
<1> DEFINE Covered == \A m \in Multis : RunningCovers(m)
<1>1. Init => Covered
  <2>1. Init => \A m \in Multis : added[m] \ done[m] = {} /\ running[m] = 0 BY DEF Init
  <2> QED BY <2>1, CardinalitySmall DEF RunningCovers
<1>2. Owned /\ Covered /\ [Next]_vars => Covered'
  BY RunningStep
<1>3. Covered => RunningCoversTransfers
  BY DEF RunningCoversTransfers, RunningCovers
<1> QED BY <1>1, <1>2, <1>3, OwnedInvariant, PTL DEF Spec

-----------------------------------------------------------------------------
(***************************************************************************)
(* What the place of a frame says about its multi.  While the completion   *)
(* callbacks run, the handle exists and close is guarded; a multi without  *)
(* a handle has no pending exception, and a closed one has no handle; and  *)
(* the block is called when every message has been read.                   *)
(***************************************************************************)

Placed(m) ==
  /\ pc[m] = "callback" => handle[m] /\ callbackActive[m]
  /\ completing[m] # None <=> pc[m] = "callback"
  /\ ~handle[m] => deferred[m] = None
  /\ closed[m] => ~handle[m]
  /\ pc[m] = "block" => done[m] = {}

LEMMA PlacedStep ==
  ASSUME Owned, [Next]_vars, \A n \in Multis : Placed(n)
  PROVE  \A n \in Multis : Placed(n)'
<1> DEFINE Goal == \A n \in Multis : Placed(n)'
<1> USE DEF Placed
<1>0. TypeOK /\ OwnershipAgrees /\ ReleasedIsEmpty BY DEF Owned
<1>1. ASSUME UNCHANGED <<pc, handle, callbackActive, completing, deferred, closed>>,
             \A n \in Multis : done'[n] \subseteq done[n]
      PROVE  Goal
  BY <1>1
<1>2. ASSUME NEW m \in Multis, NEW S, Detach(m, S) PROVE \A n \in Multis : done'[n] \subseteq done[n]
  BY <1>0, <1>2, DetachFacts
<1>3. ASSUME NEW m \in Multis, NEW e \in Easies, Add(m, e) PROVE Goal
  BY <1>0, <1>3 DEF TypeOK, Add, Accepting, frameVars
<1>3a. ASSUME NEW m \in Multis, NEW e \in Easies, AddRaises(m, e) PROVE Goal
  BY <1>0, <1>3a DEF TypeOK, AddRaises, rubyVars, curlVars, frameVars
<1>4. ASSUME NEW m \in Multis, NEW e \in Easies, Remove(m, e) PROVE Goal
  BY <1>1, <1>2, <1>4 DEF Remove, frameVars
<1>5. ASSUME NEW e \in Easies, NEW n \in Multis \cup {None}, Assign(e, n) PROVE Goal
  BY <1>1, <1>2, <1>5 DEF Assign, HoldersOf, frameVars
<1>6. ASSUME NEW e \in Easies, CloseEasy(e) PROVE Goal
  <2>1. \A n \in Multis : done'[n] \subseteq done[n] BY <1>0, <1>6 DEF CloseEasy, TypeOK
  <2> QED BY <1>1, <1>6, <2>1 DEF CloseEasy, frameVars
<1>7. ASSUME NEW m \in Multis, CloseMulti(m) PROVE Goal
  <2>1. CASE CloseStops(m) BY <1>1, <1>2, <1>7, <2>1 DEF CloseMulti, CloseStops, frameVars
  <2>2. CASE CloseRejected(m) BY <1>1, <1>2, <1>7, <2>2 DEF CloseMulti, CloseRejected, frameVars
  <2>3. CASE ~CloseGuarded(m) /\ CloseAccepted(m, TRUE)
    <3>1. pc[m] # "callback" BY <2>3 DEF CloseGuarded
    <3> QED BY <1>0, <1>7, <2>3, <3>1 DEF TypeOK, CloseMulti, CloseAccepted, frameVars
  <2> QED BY <1>7, <2>1, <2>2, <2>3 DEF CloseMulti
<1>8. ASSUME NEW m \in Multis, Perform(m) PROVE Goal
  BY <1>0, <1>8 DEF TypeOK, Perform, rubyVars, curlVars
<1>9. ASSUME NEW m \in Multis, Run(m) PROVE Goal
  <2>1. \A n \in Multis \ {m} : done'[n] = done[n] BY <1>0, <1>9 DEF TypeOK, Run
  <2> QED BY <1>0, <1>9, <2>1 DEF TypeOK, Run, rubyVars
<1>9a. ASSUME NEW m \in Multis, NEW how, Leave(m, how), pc[m] # "callback",
              UNCHANGED <<handle, closed, done>>,
              deferred' = deferred \/ deferred' = [deferred EXCEPT ![m] = None]
       PROVE  Goal
  <2>1. /\ pc'[m] = "idle" /\ completing' = completing
        /\ \A n \in Multis \ {m} : pc'[n] = pc[n] /\ callbackActive'[n] = callbackActive[n]
    BY <1>0, <1>9a, LeaveFacts
  <2>2. /\ deferred'[m] = deferred[m] \/ deferred'[m] = None
        /\ \A n \in Multis \ {m} : deferred'[n] = deferred[n]
    BY <1>0, <1>9a DEF TypeOK
  <2>3. Placed(m)' BY <1>9a, <2>1, <2>2
  <2>4. \A n \in Multis \ {m} : Placed(n)' BY <1>9a, <2>1, <2>2
  <2> QED BY <2>3, <2>4
<1>10. ASSUME NEW m \in Multis, RunRaises(m) \/ BlockRaises(m) PROVE Goal
  BY <1>9a, <1>10 DEF RunRaises, BlockRaises, rubyVars, curlVars
<1>11. ASSUME NEW m \in Multis, NEW e \in Easies, HandleComplete(m, e) PROVE Goal
  <2>1. handle[m] BY <1>0, <1>11 DEF HandleComplete, OwnershipAgrees, ReleasedIsEmpty
  <2>2. \A n \in Multis : done'[n] \subseteq done[n] BY <1>2, <1>11 DEF HandleComplete
  <2>3. e # None BY ConstantsAssumption
  <2>4. \A n \in Multis \ {m} : deferred'[n] = deferred[n]
    BY <1>0, <1>11 DEF TypeOK, HandleComplete, StashIfUnset
  <2> QED BY <1>0, <1>11, <2>1, <2>2, <2>3, <2>4 DEF TypeOK, HandleComplete
<1>12. ASSUME NEW m \in Multis, CallbackReturns(m) \/ CallbackRaises(m) \/ CallbackThrows(m)
       PROVE  Goal
  <2>1. \A n \in Multis : done'[n] \subseteq done[n]
    BY <1>2, <1>12 DEF CallbackReturns, CallbackRaises, CallbackThrows
  <2>2. \A n \in Multis \ {m} : deferred'[n] = deferred[n]
    BY <1>0, <1>12 DEF TypeOK, CallbackReturns, CallbackRaises, CallbackThrows, StashIfUnset
  <2>3. /\ pc[m] = "callback" /\ UNCHANGED <<handle, closed>>
        /\ callbackActive' = [callbackActive EXCEPT ![m] = FALSE]
        /\ completing' = [completing EXCEPT ![m] = None]
        /\ pc' = [pc EXCEPT ![m] = "info"]
    BY <1>12 DEF CallbackReturns, CallbackRaises, CallbackThrows, FinishCompletion
  <2> QED BY <1>0, <2>1, <2>2, <2>3 DEF TypeOK
<1>13. ASSUME NEW m \in Multis, InfoEnds(m) PROVE Goal
  <2>1. pc[m] = "info" /\ done[m] = {} /\ UNCHANGED <<handle, closed, done>>
    BY <1>13 DEF InfoEnds, curlVars
  <2>2. CASE Leave(m, "raised") /\ deferred' = [deferred EXCEPT ![m] = None]
    BY <1>9a, <2>1, <2>2
  <2>3. CASE pc' = [pc EXCEPT ![m] = "block"] /\ UNCHANGED <<deferred, callbackActive, completing>>
    BY <1>0, <2>1, <2>3 DEF TypeOK
  <2> QED BY <1>13, <2>2, <2>3 DEF InfoEnds
<1>13a. ASSUME NEW m \in Multis, BlockReturns(m) PROVE Goal
  BY <1>0, <1>13a DEF TypeOK, BlockReturns, multiVars, rubyVars, curlVars
<1>14. ASSUME NEW m \in Multis, PerformReturns(m) PROVE Goal
  <2>1. /\ pc[m] = "block" /\ pc' = [pc EXCEPT ![m] = "idle"]
        /\ callbackActive' = [callbackActive EXCEPT ![m] = FALSE]
        /\ completing' = completing
    BY <1>14 DEF PerformReturns, Leave
  <2>2. CASE CloseAccepted(m, FALSE) BY <1>0, <2>1, <2>2 DEF TypeOK, CloseAccepted
  <2>3. CASE CloseStops(m)
    <3>1. \A n \in Multis : done'[n] \subseteq done[n] BY <1>2, <2>3 DEF CloseStops
    <3> QED BY <1>0, <2>1, <2>3, <3>1 DEF TypeOK, CloseStops
  <2>4. CASE UNCHANGED <<handle, closed, deferred, done>> BY <1>0, <2>1, <2>4 DEF TypeOK
  <2> QED BY <1>14, <2>2, <2>3, <2>4 DEF PerformReturns, rubyVars, curlVars
<1>15. CASE UNCHANGED vars
  BY <1>1, <1>15 DEF vars, multiVars, rubyVars, curlVars, frameVars
<1> QED
  BY <1>3, <1>3a, <1>4, <1>5, <1>6, <1>7, <1>8, <1>9, <1>10, <1>11, <1>12, <1>13, <1>13a,
     <1>14, <1>15
  DEF Next, Program, Loop

LEMMA PlacedInvariant == Spec => [](\A m \in Multis : Placed(m))
<1>1. Init => \A m \in Multis : Placed(m)
  BY DEF Init, Placed
<1>2. Owned /\ (\A m \in Multis : Placed(m)) /\ [Next]_vars => (\A m \in Multis : Placed(m))'
  BY PlacedStep
<1> QED BY <1>1, <1>2, OwnedInvariant, PTL DEF Spec

-----------------------------------------------------------------------------
(***************************************************************************)
(* The handle outlives the perform: perform_active is raised from the      *)
(* start of a perform to its end, so that close is rejected in between.    *)
(***************************************************************************)

Guarded(m) == pc[m] # "idle" => handle[m] /\ performActive[m]

\* A perform on a multi that autoclose released lowers the flag again; in every
\* other program the CURLM handle that a perform uses is not freed under it.
THEOREM HandleSafe ==
  ASSUME "perform_released" \notin Liberties
  PROVE  Spec => []HandleOutlivesPerform
<1> DEFINE AllGuarded == \A m \in Multis : Guarded(m)
<1>1. Init => AllGuarded
  BY DEF Init, Guarded
<1>2. Owned /\ AllGuarded /\ [Next]_vars => AllGuarded'
  <2> SUFFICES ASSUME Owned, AllGuarded, [Next]_vars PROVE AllGuarded'
    OBVIOUS
  <2> USE DEF Guarded
  <2>0. TypeOK BY DEF Owned
  <2>1. ASSUME UNCHANGED <<pc, handle, performActive>> PROVE AllGuarded'
    BY <2>1
  <2>2. ASSUME NEW m \in Multis, NEW e \in Easies, Add(m, e) \/ AddRaises(m, e) PROVE AllGuarded'
    <3>1. /\ pc' = pc /\ handle' = [handle EXCEPT ![m] = TRUE]
          /\ performActive' = [performActive EXCEPT ![m] = @ /\ handle[m]]
      BY <2>2 DEF Add, AddRaises, frameVars
    <3> QED BY <2>0, <3>1 DEF TypeOK
  <2>3. ASSUME NEW m \in Multis, NEW e \in Easies, Remove(m, e) PROVE AllGuarded'
    BY <2>1, <2>3 DEF Remove, frameVars
  <2>4. ASSUME NEW e \in Easies, CloseEasy(e) \/ \E n \in Multis \cup {None} : Assign(e, n)
        PROVE  AllGuarded'
    BY <2>1, <2>4 DEF CloseEasy, Assign, frameVars
  <2>5. ASSUME NEW m \in Multis, CloseMulti(m) PROVE AllGuarded'
    <3>1. CASE CloseStops(m) \/ CloseRejected(m)
      BY <2>1, <2>5, <3>1 DEF CloseMulti, CloseStops, CloseRejected, frameVars
    <3>2. CASE ~CloseGuarded(m) /\ CloseAccepted(m, TRUE)
      BY <2>0, <2>5, <3>2 DEF TypeOK, CloseMulti, CloseGuarded, CloseAccepted, frameVars
    <3> QED BY <2>5, <3>1, <3>2 DEF CloseMulti
  <2>6. ASSUME NEW m \in Multis, Perform(m) PROVE AllGuarded'
    BY <2>0, <2>6 DEF TypeOK, Perform
  <2>7. ASSUME NEW m \in Multis, Leave(m, "ok") \/ Leave(m, "raised"),
               \A n \in Multis \ {m} : handle'[n] = handle[n]
        PROVE  AllGuarded'
    BY <2>0, <2>7, LeaveFacts
  <2>8. ASSUME NEW m \in Multis, RunRaises(m) \/ BlockRaises(m) PROVE AllGuarded'
    BY <2>7, <2>8 DEF RunRaises, BlockRaises
  <2>9. ASSUME NEW m \in Multis, Run(m) \/ \E e \in Easies : HandleComplete(m, e)
        PROVE  AllGuarded'
    <3>1. UNCHANGED <<handle, performActive>> BY <2>9 DEF Run, HandleComplete
    <3>2. pc[m] # "idle" BY <2>9 DEF Run, HandleComplete
    <3>3. pc' = [pc EXCEPT ![m] = "info"] \/ pc' = [pc EXCEPT ![m] = "callback"]
      BY <2>9 DEF Run, HandleComplete
    <3>4. \A n \in Multis \ {m} : pc'[n] = pc[n] BY <2>0, <3>3 DEF TypeOK
    <3> QED BY <3>1, <3>2, <3>4
  <2>10. ASSUME NEW m \in Multis, CallbackReturns(m) \/ CallbackRaises(m) \/ CallbackThrows(m)
         PROVE  AllGuarded'
    BY <2>0, <2>10 DEF TypeOK, CallbackReturns, CallbackRaises, CallbackThrows, FinishCompletion
  <2>11. ASSUME NEW m \in Multis, InfoEnds(m) PROVE AllGuarded'
    BY <2>0, <2>7, <2>11 DEF TypeOK, InfoEnds
  <2>12. ASSUME NEW m \in Multis, BlockReturns(m) PROVE AllGuarded'
    BY <2>0, <2>12 DEF TypeOK, BlockReturns, multiVars
  <2>13. ASSUME NEW m \in Multis, PerformReturns(m) PROVE AllGuarded'
    <3>1. \A n \in Multis \ {m} : handle'[n] = handle[n]
      BY <2>0, <2>13 DEF TypeOK, PerformReturns, CloseAccepted, CloseStops
    <3> QED BY <2>7, <2>13, <3>1 DEF PerformReturns
  <2>14. CASE UNCHANGED vars BY <2>1, <2>14 DEF vars, multiVars, frameVars
  <2> QED
    BY <2>2, <2>3, <2>4, <2>5, <2>6, <2>8, <2>9, <2>10, <2>11, <2>12, <2>13, <2>14
    DEF Next, Program, Loop
<1>3. AllGuarded => HandleOutlivesPerform
  BY DEF HandleOutlivesPerform, Guarded
<1> QED BY <1>1, <1>2, <1>3, OwnedInvariant, PTL DEF Spec

-----------------------------------------------------------------------------
(***************************************************************************)
(* Stored callback errors.                                                 *)
(***************************************************************************)

Fresh(e) == callbackError[e] \in {0, generation[e]}

\* The error that a completion reads was raised by the transfer that completes,
\* although removed, moved and closed transfers leave their errors behind.
THEOREM ErrorsFresh == Spec => []CallbackErrorIsFresh
<1> DEFINE AllFresh == \A e \in Easies : Fresh(e)
<1>1. Init => AllFresh
  BY DEF Init, Fresh
<1>2. Owned /\ AllFresh /\ [Next]_vars => AllFresh'
  <2> SUFFICES ASSUME Owned, AllFresh, [Next]_vars PROVE AllFresh'
    OBVIOUS
  <2> USE DEF Fresh
  <2>0. TypeOK BY DEF Owned
  <2>1. ASSUME UNCHANGED <<callbackError, generation>> PROVE AllFresh'
    BY <2>1
  <2>2. ASSUME NEW m \in Multis, NEW e \in Easies, Add(m, e) \/ AddRaises(m, e) PROVE AllFresh'
    <3>1. CASE Add(m, e)
      BY <2>0, <3>1 DEF TypeOK, Add, ErrorsAfterSetup
    <3>2. CASE AddRaises(m, e)
      BY <2>0, <3>2 DEF TypeOK, AddRaises, ErrorsAfterSetup
    <3> QED BY <2>2, <3>1, <3>2
  <2>3. ASSUME NEW e \in Easies, CloseEasy(e) PROVE AllFresh'
    BY <2>0, <2>3 DEF TypeOK, CloseEasy
  <2>4. ASSUME NEW m \in Multis, Run(m) PROVE AllFresh'
    BY <2>0, <2>4 DEF TypeOK, Run
  <2>5. ASSUME NEW m \in Multis, NEW e \in Easies, HandleComplete(m, e) PROVE AllFresh'
    BY <2>0, <2>5 DEF TypeOK, HandleComplete
  <2>6. ASSUME NEW m \in Multis, NEW e \in Easies, Remove(m, e) PROVE AllFresh'
    BY <2>1, <2>6 DEF Remove
  <2>7. ASSUME NEW e \in Easies, NEW n \in Multis \cup {None}, Assign(e, n) PROVE AllFresh'
    BY <2>1, <2>7 DEF Assign
  <2>8. ASSUME NEW m \in Multis,
               \/ CloseMulti(m) \/ Perform(m) \/ RunRaises(m)
               \/ CallbackReturns(m) \/ CallbackRaises(m) \/ CallbackThrows(m)
               \/ InfoEnds(m) \/ BlockReturns(m) \/ BlockRaises(m) \/ PerformReturns(m)
        PROVE  AllFresh'
    BY <2>1, <2>8 DEF CloseMulti, Perform, RunRaises, CallbackReturns,
       CallbackRaises, CallbackThrows, FinishCompletion, InfoEnds, BlockReturns, BlockRaises,
       PerformReturns, easyVars
  <2>9. CASE UNCHANGED vars BY <2>1, <2>9 DEF vars, easyVars
  <2> QED
    BY <2>2, <2>3, <2>4, <2>5, <2>6, <2>7, <2>8, <2>9 DEF Next, Program, Loop
<1>3. Owned /\ AllFresh => CallbackErrorIsFresh
  BY DEF CallbackErrorIsFresh, Fresh, Owned, TypeOK
<1> QED BY <1>1, <1>2, <1>3, OwnedInvariant, PTL DEF Spec

-----------------------------------------------------------------------------
(***************************************************************************)
(* Replacement work.  late is empty while nothing is pending outside the   *)
(* callbacks; during the callbacks every late easy has a generation newer  *)
(* than the snapshot, which is how the rollback finds it; and once the     *)
(* exception is stashed nothing late is attached.                          *)
(***************************************************************************)

LateIsKnown(m) ==
  /\ deferred[m] = None /\ pc[m] # "callback" => late[m] = {}
  /\ deferred[m] \in {"body", "status"} => attached[m] \cap late[m] = {}
  /\ \A x \in Easies : snapshot[m][x] <= generation[x]
  /\ deferred[m] = None /\ pc[m] = "callback" => \A x \in late[m] : snapshot[m][x] < generation[x]

\* Nothing that LateIsKnown speaks about has changed for n, except that some of
\* its transfers may have ended and easies may have been attached again.
LEMMA LateUntouched ==
  ASSUME TypeOK, NEW n \in Multis, LateIsKnown(n),
         deferred'[n] = deferred[n], late'[n] = late[n], snapshot'[n] = snapshot[n],
         pc'[n] = "callback" <=> pc[n] = "callback",
         attached'[n] \subseteq attached[n],
         \A x \in Easies : generation'[x] = generation[x] \/ generation'[x] = generation[x] + 1
  PROVE  LateIsKnown(n)'
<1>1. \A x \in Easies : snapshot[n][x] \in Nat /\ generation[x] \in Nat BY DEF TypeOK
<1>2. late[n] \subseteq Easies BY DEF TypeOK
<1>3. deferred'[n] = None /\ pc'[n] # "callback" => late'[n] = {} BY DEF LateIsKnown
<1>4. deferred'[n] \in {"body", "status"} => attached'[n] \cap late'[n] = {} BY DEF LateIsKnown
<1>5. \A x \in Easies : snapshot'[n][x] <= generation'[x] BY <1>1 DEF LateIsKnown
<1>6. deferred'[n] = None /\ pc'[n] = "callback"
        => \A x \in late'[n] : snapshot'[n][x] < generation'[x]
  BY <1>1, <1>2 DEF LateIsKnown
<1> QED BY <1>3, <1>4, <1>5, <1>6 DEF LateIsKnown

\* Nothing is late after the step.
LEMMA LateEmptied ==
  ASSUME TypeOK, NEW m \in Multis, LateIsKnown(m), late'[m] = {},
         \/ snapshot'[m] = snapshot[m]
         \/ snapshot'[m] = NoSnapshot
         \/ \A x \in Easies : snapshot'[m][x] \in {0, generation[x]},
         generation' = generation
  PROVE  LateIsKnown(m)'
<1>1. \A x \in Easies : snapshot[m][x] \in Nat /\ generation[x] \in Nat BY DEF TypeOK
<1>2. \A x \in Easies : snapshot'[m][x] <= generation'[x] BY <1>1 DEF LateIsKnown, NoSnapshot
<1> QED BY <1>2 DEF LateIsKnown

LEMMA LateStep ==
  ASSUME Owned, [Next]_vars, \A n \in Multis : LateIsKnown(n), \A n \in Multis : Placed(n)
  PROVE  \A n \in Multis : LateIsKnown(n)'
<1> DEFINE Goal == \A n \in Multis : LateIsKnown(n)'
<1>0. TypeOK /\ OwnershipAgrees BY DEF Owned
<1>1. ASSUME UNCHANGED <<deferred, late, snapshot, generation>>,
             \A n \in Multis : pc'[n] = "callback" <=> pc[n] = "callback",
             \A n \in Multis : attached'[n] \subseteq attached[n]
      PROVE  Goal
  BY <1>0, <1>1, LateUntouched
<1>2. ASSUME NEW m \in Multis, generation' = generation,
             \A n \in Multis \ {m} : /\ deferred'[n] = deferred[n] /\ late'[n] = late[n]
                                     /\ snapshot'[n] = snapshot[n] /\ pc'[n] = pc[n]
                                     /\ attached'[n] = attached[n],
             LateIsKnown(m)'
      PROVE  Goal
  BY <1>0, <1>2, LateUntouched
<1>3. ASSUME NEW m \in Multis, NEW S, Detach(m, S)
      PROVE  \A n \in Multis : attached'[n] \subseteq attached[n]
  BY <1>0, <1>3, DetachFacts
<1>4. ASSUME NEW m \in Multis, NEW e \in Easies, Add(m, e) PROVE Goal
  <2>1. /\ deferred[m] = None /\ UNCHANGED <<deferred, pc, snapshot>>
        /\ \A n \in Multis \ {m} : attached'[n] = attached[n] /\ late'[n] = late[n]
        /\ generation'[e] = generation[e] + 1
        /\ \A x \in Easies \ {e} : generation'[x] = generation[x]
    BY <1>0, <1>4 DEF TypeOK, Add, Accepting, frameVars
  <2>2. late'[m] = IF pc[m] = "callback" THEN late[m] \cup {e} ELSE late[m]
    BY <1>0, <1>4, <2>1 DEF TypeOK, Add
  <2>3. \A x \in Easies : snapshot[m][x] \in Nat /\ generation[x] \in Nat BY <1>0 DEF TypeOK
  <2>4. late[m] \subseteq Easies BY <1>0 DEF TypeOK
  <2>5. \A x \in Easies : snapshot'[m][x] <= generation'[x] BY <2>1, <2>3 DEF LateIsKnown
  <2>6. pc[m] = "callback" => \A x \in late'[m] : snapshot'[m][x] < generation'[x]
    BY <2>1, <2>2, <2>3, <2>4 DEF LateIsKnown
  <2>7. pc[m] # "callback" => late'[m] = {} BY <2>1, <2>2 DEF LateIsKnown
  <2>8. None \notin {"body", "status"} BY ConstantsAssumption DEF Exceptions
  <2>9. LateIsKnown(m)' BY <2>1, <2>5, <2>6, <2>7, <2>8 DEF LateIsKnown
  <2>10. \A n \in Multis \ {m} : LateIsKnown(n)' BY <1>0, <2>1, LateUntouched
  <2> QED BY <2>9, <2>10
<1>5. ASSUME NEW m \in Multis, NEW e \in Easies, AddRaises(m, e) PROVE Goal
  BY <1>1, <1>5 DEF AddRaises, rubyVars, frameVars
<1>6. ASSUME NEW m \in Multis, NEW e \in Easies, Remove(m, e) PROVE Goal
  <2>1. \A n \in Multis : attached'[n] \subseteq attached[n] BY <1>3, <1>6 DEF Remove
  <2> QED BY <1>1, <1>6, <2>1 DEF Remove, frameVars
<1>7. ASSUME NEW e \in Easies, NEW n \in Multis \cup {None}, Assign(e, n) PROVE Goal
  <2>1. \A k \in Multis : attached'[k] \subseteq attached[k] BY <1>3, <1>7 DEF Assign, HoldersOf
  <2> QED BY <1>1, <1>7, <2>1 DEF Assign, frameVars
<1>8. ASSUME NEW e \in Easies, CloseEasy(e) PROVE Goal
  <2>1. \A n \in Multis : attached'[n] \subseteq attached[n] BY <1>0, <1>8 DEF CloseEasy, TypeOK
  <2> QED BY <1>1, <1>8, <2>1 DEF CloseEasy, frameVars
<1>9. ASSUME NEW m \in Multis, CloseMulti(m) PROVE Goal
  <2>1. UNCHANGED <<generation, pc, snapshot>> BY <1>9 DEF CloseMulti, frameVars
  <2>2. CASE CloseAccepted(m, TRUE) /\ ~CloseGuarded(m)
    <3>1. pc[m] # "callback" BY <2>2 DEF CloseGuarded, Placed
    <3>2. /\ deferred'[m] = None
          /\ \A n \in Multis \ {m} : deferred'[n] = deferred[n] /\ attached'[n] = attached[n]
      BY <1>0, <2>2 DEF CloseAccepted, TypeOK
    <3>3. late'[m] = {} /\ \A n \in Multis \ {m} : late'[n] = late[n]
      BY <1>0, <1>9, <3>1, <3>2 DEF CloseMulti, TypeOK
    <3>4. LateIsKnown(m)' BY <1>0, <2>1, <3>3, LateEmptied
    <3> QED BY <1>2, <2>1, <3>2, <3>3, <3>4
  <2>3. CASE CloseStops(m) \/ CloseRejected(m)
    <3>1. \A n \in Multis : attached'[n] \subseteq attached[n]
      BY <1>3, <2>3 DEF CloseStops, CloseRejected
    <3>2. deferred' = deferred BY <2>3 DEF CloseStops, CloseRejected
    <3>3. late' = late
      <4>1. CASE deferred[m] = None /\ pc[m] # "callback"
        <5>1. late[m] = {} BY <4>1 DEF LateIsKnown
        <5>2. late' = [late EXCEPT ![m] = {}] BY <1>9, <3>2, <4>1 DEF CloseMulti
        <5> QED BY <1>0, <5>1, <5>2 DEF TypeOK
      <4>2. CASE ~(deferred[m] = None /\ pc[m] # "callback")
        BY <1>9, <3>2, <4>2 DEF CloseMulti
      <4> QED BY <4>1, <4>2
    <3> QED BY <1>1, <2>1, <3>1, <3>2, <3>3
  <2> QED BY <1>9, <2>2, <2>3 DEF CloseMulti
<1>10. ASSUME NEW m \in Multis, pc[m] # "callback", NEW p, p # "callback",
              pc' = [pc EXCEPT ![m] = p],
              UNCHANGED <<deferred, late, snapshot, generation>>,
              \A n \in Multis : attached'[n] \subseteq attached[n]
       PROVE  Goal
  <2>1. \A n \in Multis : pc'[n] = "callback" <=> pc[n] = "callback"
    BY <1>0, <1>10 DEF TypeOK
  <2> QED BY <1>1, <1>10, <2>1
<1>11. ASSUME NEW m \in Multis, Perform(m) PROVE Goal
  BY <1>10, <1>11 DEF Perform, rubyVars, easyVars
<1>12. ASSUME NEW m \in Multis, Run(m) PROVE Goal
  BY <1>10, <1>12 DEF Run, rubyVars
<1>13. ASSUME NEW m \in Multis, RunRaises(m) \/ BlockRaises(m) PROVE Goal
  BY <1>10, <1>13 DEF RunRaises, BlockRaises, Leave, rubyVars, easyVars
<1>14. ASSUME NEW m \in Multis, BlockReturns(m) PROVE Goal
  BY <1>10, <1>14 DEF BlockReturns, multiVars, rubyVars, easyVars
<1>15. ASSUME NEW m \in Multis, NEW e \in Easies, HandleComplete(m, e) PROVE Goal
  <2>1. \A n \in Multis : attached'[n] \subseteq attached[n] BY <1>3, <1>15 DEF HandleComplete
  <2>2. \A n \in Multis \ {m} : attached'[n] = attached[n]
    BY <1>0, <1>15, DetachFacts DEF HandleComplete
  <2>3. /\ \A n \in Multis \ {m} : deferred'[n] = deferred[n]
        /\ deferred[m] # None => deferred'[m] = deferred[m]
    BY <1>0, <1>15 DEF HandleComplete, StashIfUnset, TypeOK
  <2>4. /\ generation' = generation
        /\ pc'[m] = "callback" /\ \A n \in Multis \ {m} : pc'[n] = pc[n]
    BY <1>0, <1>15 DEF HandleComplete, TypeOK
  <2>5. /\ \A n \in Multis \ {m} : snapshot'[n] = snapshot[n]
        /\ \A x \in Easies : snapshot'[m][x] \in {0, generation[x]}
    BY <1>0, <1>15 DEF HandleComplete, TypeOK
  <2>6. /\ \A n \in Multis \ {m} : late'[n] = late[n]
        /\ deferred[m] = None => late'[m] = {}
        /\ deferred[m] # None => late'[m] = late[m]
    BY <1>0, <1>15 DEF HandleComplete, TypeOK
  <2>7. CASE deferred[m] = None
    <3>1. LateIsKnown(m)' BY <1>0, <2>4, <2>5, <2>6, <2>7, LateEmptied
    <3> QED BY <1>2, <2>2, <2>3, <2>4, <2>5, <2>6, <3>1
  <2>8. CASE deferred[m] # None
    <3>1. \A x \in Easies : generation[x] \in Nat BY <1>0 DEF TypeOK
    <3>2. \A x \in Easies : snapshot'[m][x] <= generation'[x] BY <2>4, <2>5, <3>1
    <3>3. deferred'[m] \in {"body", "status"} => attached'[m] \cap late'[m] = {}
      BY <2>1, <2>3, <2>6, <2>8 DEF LateIsKnown
    <3>4. LateIsKnown(m)' BY <2>3, <2>8, <3>2, <3>3 DEF LateIsKnown
    <3> QED BY <1>2, <2>2, <2>3, <2>4, <2>5, <2>6, <3>4
  <2> QED BY <2>7, <2>8
<1>16. ASSUME NEW m \in Multis, NEW references, FinishCompletion(m, references),
              pc[m] = "callback",
              \A n \in Multis \ {m} : deferred'[n] = deferred[n] /\ attached'[n] = attached[n],
              attached'[m] \subseteq attached[m],
              deferred[m] # None => deferred'[m] = deferred[m],
              deferred[m] = None /\ deferred'[m] # None
                => deferred'[m] \notin {"body", "status"} \/ attached'[m] \cap late[m] = {}
       PROVE  Goal
  <2>1. /\ generation' = generation
        /\ \A n \in Multis \ {m} : /\ snapshot'[n] = snapshot[n] /\ pc'[n] = pc[n]
                                   /\ late'[n] = late[n]
        /\ snapshot'[m] = NoSnapshot
    BY <1>0, <1>16 DEF FinishCompletion, TypeOK
  <2>2. /\ deferred'[m] = None => late'[m] = {}
        /\ deferred'[m] # None => late'[m] = late[m]
    BY <1>0, <1>16 DEF FinishCompletion, TypeOK
  <2>3. CASE deferred'[m] = None
    <3>1. LateIsKnown(m)' BY <1>0, <2>1, <2>2, <2>3, LateEmptied
    <3> QED BY <1>2, <1>16, <2>1, <3>1
  <2>4. CASE deferred'[m] # None
    <3>1. \A x \in Easies : generation[x] \in Nat BY <1>0 DEF TypeOK
    <3>2. \A x \in Easies : snapshot'[m][x] <= generation'[x] BY <2>1, <3>1 DEF NoSnapshot
    <3>3. deferred'[m] \in {"body", "status"} => attached'[m] \cap late'[m] = {}
      BY <1>16, <2>2, <2>4 DEF LateIsKnown
    <3>4. LateIsKnown(m)' BY <2>4, <3>2, <3>3 DEF LateIsKnown
    <3> QED BY <1>2, <1>16, <2>1, <3>4
  <2> QED BY <2>3, <2>4
<1>17. ASSUME NEW m \in Multis, CallbackReturns(m) PROVE Goal
  BY <1>16, <1>17 DEF CallbackReturns
<1>18. ASSUME NEW m \in Multis, CallbackThrows(m) PROVE Goal
  <2>1. /\ \A n \in Multis \ {m} : deferred'[n] = deferred[n]
        /\ deferred'[m] = IF deferred[m] = None THEN "fatal" ELSE deferred[m]
    BY <1>0, <1>18 DEF CallbackThrows, StashIfUnset, TypeOK
  <2> QED BY <1>16, <1>18, <2>1 DEF CallbackThrows
<1>19. ASSUME NEW m \in Multis, CallbackRaises(m) PROVE Goal
  <2> DEFINE R == AddedSinceSnapshot(m)
  <2>1. /\ \A n \in Multis \ {m} : deferred'[n] = deferred[n]
        /\ deferred'[m] = IF deferred[m] = None THEN "status" ELSE deferred[m]
    BY <1>0, <1>19 DEF CallbackRaises, StashIfUnset, TypeOK
  <2>2. /\ attached'[m] = attached[m] \ R
        /\ \A n \in Multis \ {m} : attached'[n] = attached[n]
    BY <1>0, <1>19, DetachFacts DEF CallbackRaises
  <2>3. pc[m] = "callback" BY <1>19 DEF CallbackRaises
  <2>4. deferred[m] = None => attached'[m] \cap late[m] = {}
    <3>1. SUFFICES ASSUME deferred[m] = None, NEW x \in attached[m], x \in late[m] PROVE x \in R
      BY <2>2
    <3>2. x \in Easies /\ snapshot[m][x] \in Nat /\ generation[x] \in Nat BY <1>0 DEF TypeOK
    <3>3. snapshot[m][x] < generation[x] BY <2>3, <3>1 DEF LateIsKnown
    <3>4. easyMulti[x] = m BY <1>0 DEF OwnershipAgrees
    <3> QED BY <3>2, <3>3, <3>4 DEF AddedSinceSnapshot
  <2>5. FinishCompletion(m, [x \in Easies |-> IF x \in R THEN None ELSE easyMulti[x]])
    BY <1>19 DEF CallbackRaises
  <2> HIDE DEF R
  <2> QED BY <1>16, <2>1, <2>2, <2>3, <2>4, <2>5
<1>20. ASSUME NEW m \in Multis, InfoEnds(m) PROVE Goal
  <2>1. pc[m] = "info" /\ UNCHANGED <<attached, generation, snapshot>>
    BY <1>20 DEF InfoEnds, Leave, easyVars
  <2>2. CASE /\ deferred' = [deferred EXCEPT ![m] = None]
             /\ late' = [late EXCEPT ![m] = {}]
             /\ pc' = [pc EXCEPT ![m] = "idle"]
    <3>1. /\ late'[m] = {}
          /\ \A n \in Multis \ {m} : /\ late'[n] = late[n] /\ deferred'[n] = deferred[n]
                                     /\ pc'[n] = pc[n]
      BY <1>0, <2>2 DEF TypeOK
    <3>2. LateIsKnown(m)' BY <1>0, <2>1, <3>1, LateEmptied
    <3> QED BY <1>2, <2>1, <3>1, <3>2
  <2>3. CASE UNCHANGED <<deferred, late>> /\ pc' = [pc EXCEPT ![m] = "block"]
    BY <1>10, <2>1, <2>3
  <2> QED BY <1>20, <2>2, <2>3 DEF InfoEnds, Leave
<1>21. ASSUME NEW m \in Multis, PerformReturns(m) PROVE Goal
  <2>1. /\ pc[m] = "block" /\ pc' = [pc EXCEPT ![m] = "idle"] /\ UNCHANGED <<snapshot, generation>>
    BY <1>21 DEF PerformReturns, Leave
  <2>2. CASE UNCHANGED <<attached, rubyVars, late>> BY <1>10, <2>1, <2>2 DEF rubyVars
  <2>3. CASE CloseAccepted(m, FALSE) /\ late' = [late EXCEPT ![m] = {}]
    <3>1. /\ late'[m] = {}
          /\ \A n \in Multis \ {m} : late'[n] = late[n] /\ pc'[n] = pc[n]
      BY <1>0, <2>1, <2>3 DEF TypeOK
    <3>2. \A n \in Multis \ {m} : deferred'[n] = deferred[n] /\ attached'[n] = attached[n]
      BY <1>0, <2>3 DEF CloseAccepted, TypeOK
    <3>3. LateIsKnown(m)' BY <1>0, <2>1, <3>1, LateEmptied
    <3> QED BY <1>2, <2>1, <3>1, <3>2, <3>3
  <2>4. CASE CloseStops(m) /\ UNCHANGED late
    <3>1. \A n \in Multis : attached'[n] \subseteq attached[n] BY <1>3, <2>4 DEF CloseStops
    <3>2. deferred' = deferred BY <2>4 DEF CloseStops
    <3> QED BY <1>10, <2>1, <2>4, <3>1, <3>2
  <2> QED BY <1>21, <2>2, <2>3, <2>4 DEF PerformReturns
<1>22. CASE UNCHANGED vars
  BY <1>1, <1>22 DEF vars, multiVars, rubyVars, easyVars, frameVars
<1> QED
  BY <1>4, <1>5, <1>6, <1>7, <1>8, <1>9, <1>11, <1>12, <1>13, <1>14, <1>15, <1>17, <1>18,
     <1>19, <1>20, <1>21, <1>22
  DEF Next, Program, Loop

\* While an exception of a callback waits to be raised, no transfer is attached
\* that was added after the completion that raised it: the rollback by snapshot
\* and generation finds every one the failing callbacks added, also an easy
\* that they removed and added again, and Multi#add accepts no other.
THEOREM NoReplacement == Spec => []NoReplacementWork
<1> DEFINE Known == \A m \in Multis : LateIsKnown(m)
<1>1. Init => Known
  BY DEF Init, LateIsKnown, NoSnapshot
<1>2. Owned /\ (\A m \in Multis : Placed(m)) /\ Known /\ [Next]_vars => Known'
  BY LateStep
<1>3. Known => NoReplacementWork
  BY DEF NoReplacementWork, LateIsKnown
<1> QED BY <1>1, <1>2, <1>3, OwnedInvariant, PlacedInvariant, PTL DEF Spec

-----------------------------------------------------------------------------
(***************************************************************************)
(* A normal return.  When the block is called with an exception pending,   *)
(* something is still running, so that the loop goes on and perform does   *)
(* not return over the exception.                                          *)
(***************************************************************************)

PendingRuns(m) == pc[m] = "block" /\ deferred[m] # None => running[m] # 0

\* What is counted for m: the requests and the transfers that have not finished.
Counted(m) == ActiveExact(m) /\ RunningCovers(m) /\ Placed(m)

\* With nothing running, a multi whose messages have been read owns nothing.
LEMMA NothingRuns ==
  ASSUME Owned, NEW m \in Multis, Counted(m), done[m] = {}, running[m] = 0
  PROVE  requests[m] = {} /\ attached[m] = {} /\ active[m] = 0
<1>1. TypeOK /\ OwnershipAgrees BY DEF Owned
<1>2. added[m] \ done[m] = attached[m] BY <1>1 DEF OwnershipAgrees
<1>3. attached[m] \in SUBSET Easies BY <1>1 DEF TypeOK
<1>4. Cardinality(attached[m]) \in Nat BY <1>3, EasySetFinite
<1>5. Cardinality(attached[m]) = 0 BY <1>2, <1>4 DEF Counted, RunningCovers
<1>6. attached[m] = {} BY <1>3, <1>5, CardinalityZero
<1> QED BY <1>5, <1>6 DEF Counted, ActiveExact

LEMMA PendingStep ==
  ASSUME Owned, [Next]_vars, \A n \in Multis : Counted(n), \A n \in Multis : PendingRuns(n)
  PROVE  \A n \in Multis : PendingRuns(n)'
<1> DEFINE Goal == \A n \in Multis : PendingRuns(n)'
<1> USE DEF PendingRuns
<1>0. TypeOK BY DEF Owned
<1>1. ASSUME UNCHANGED <<pc, deferred, running>> PROVE Goal
  BY <1>1
<1>2. ASSUME NEW m \in Multis,
             \A n \in Multis \ {m} : pc'[n] = pc[n] /\ deferred'[n] = deferred[n] /\ running'[n] = running[n],
             pc'[m] # "block" \/ deferred'[m] = None
      PROVE  Goal
  BY <1>2
<1>3. ASSUME NEW m \in Multis, NEW e \in Easies, Add(m, e) \/ AddRaises(m, e) PROVE Goal
  <2>1. UNCHANGED <<pc, deferred>> /\ deferred[m] = None
    BY <1>3 DEF Add, AddRaises, Accepting, rubyVars, frameVars
  <2>2. \A n \in Multis \ {m} : running'[n] = running[n]
    BY <1>0, <1>3 DEF Add, AddRaises, TypeOK
  <2> QED BY <1>2, <2>1, <2>2
<1>4. ASSUME NEW m \in Multis, NEW e \in Easies, Remove(m, e) PROVE Goal
  BY <1>1, <1>4 DEF Remove, frameVars
<1>5. ASSUME NEW e \in Easies, CloseEasy(e) \/ \E n \in Multis \cup {None} : Assign(e, n) PROVE Goal
  BY <1>1, <1>5 DEF CloseEasy, Assign, frameVars
<1>6. ASSUME NEW m \in Multis, CloseMulti(m) PROVE Goal
  <2>1. pc' = pc BY <1>6 DEF CloseMulti, frameVars
  <2>2. CASE CloseStops(m) \/ CloseRejected(m)
    BY <1>1, <2>1, <2>2 DEF CloseStops, CloseRejected
  <2>3. CASE CloseAccepted(m, TRUE)
    BY <1>0, <1>2, <2>1, <2>3 DEF CloseAccepted, TypeOK
  <2> QED BY <1>6, <2>2, <2>3 DEF CloseMulti
<1>7. ASSUME NEW m \in Multis, Perform(m) PROVE Goal
  BY <1>0, <1>2, <1>7 DEF Perform, TypeOK, rubyVars
<1>8. ASSUME NEW m \in Multis, Run(m) PROVE Goal
  <2>1. deferred' = deferred /\ pc' = [pc EXCEPT ![m] = "info"] BY <1>8 DEF Run, rubyVars
  <2>2. \A n \in Multis \ {m} : running'[n] = running[n] BY <1>0, <1>8 DEF Run, TypeOK
  <2> QED BY <1>0, <1>2, <2>1, <2>2 DEF TypeOK
<1>9. ASSUME NEW m \in Multis, RunRaises(m) \/ BlockRaises(m) PROVE Goal
  BY <1>0, <1>2, <1>9, LeaveFacts DEF RunRaises, BlockRaises, rubyVars
<1>10. ASSUME NEW m \in Multis, NEW e \in Easies, HandleComplete(m, e) PROVE Goal
  <2>1. \A n \in Multis \ {m} : deferred'[n] = deferred[n]
    BY <1>0, <1>10 DEF HandleComplete, StashIfUnset, TypeOK
  <2>2. running' = running /\ pc' = [pc EXCEPT ![m] = "callback"] BY <1>10 DEF HandleComplete
  <2> QED BY <1>0, <1>2, <2>1, <2>2 DEF TypeOK
<1>11. ASSUME NEW m \in Multis, CallbackReturns(m) \/ CallbackRaises(m) \/ CallbackThrows(m)
       PROVE  Goal
  <2>1. \A n \in Multis \ {m} : deferred'[n] = deferred[n]
    BY <1>0, <1>11 DEF CallbackReturns, CallbackRaises, CallbackThrows, StashIfUnset, TypeOK
  <2>2. running' = running /\ pc' = [pc EXCEPT ![m] = "info"]
    BY <1>11 DEF CallbackReturns, CallbackRaises, CallbackThrows, FinishCompletion
  <2> QED BY <1>0, <1>2, <2>1, <2>2 DEF TypeOK
<1>12. ASSUME NEW m \in Multis, InfoEnds(m) PROVE Goal
  <2>1. running' = running /\ done[m] = {} BY <1>12 DEF InfoEnds
  <2>2. CASE deferred' = [deferred EXCEPT ![m] = None] /\ Leave(m, "raised")
    <3>1. \A n \in Multis \ {m} : pc'[n] = pc[n] BY <1>0, <2>2, LeaveFacts
    <3> QED BY <1>0, <1>2, <2>1, <2>2, <3>1 DEF TypeOK
  <2>3. CASE /\ deferred[m] = None \/ ~Drained(m)
             /\ pc' = [pc EXCEPT ![m] = "block"] /\ deferred' = deferred
    <3>1. deferred[m] # None => running[m] # 0
      BY <2>1, <2>3, NothingRuns DEF Drained
    <3> QED BY <1>0, <2>1, <2>3, <3>1 DEF TypeOK
  <2> QED BY <1>12, <2>2, <2>3 DEF InfoEnds
<1>13. ASSUME NEW m \in Multis, BlockReturns(m) PROVE Goal
  BY <1>0, <1>2, <1>13 DEF BlockReturns, TypeOK, multiVars, rubyVars
<1>14. ASSUME NEW m \in Multis, PerformReturns(m) PROVE Goal
  <2>1. pc' = [pc EXCEPT ![m] = "idle"] BY <1>14 DEF PerformReturns, Leave
  <2>2. \A n \in Multis \ {m} : deferred'[n] = deferred[n] /\ running'[n] = running[n]
    <3>1. CASE UNCHANGED <<running, rubyVars>> BY <3>1 DEF rubyVars
    <3>2. CASE CloseAccepted(m, FALSE) BY <1>0, <3>2 DEF CloseAccepted, TypeOK
    <3>3. CASE CloseStops(m) BY <3>3 DEF CloseStops
    <3> QED BY <1>14, <3>1, <3>2, <3>3 DEF PerformReturns
  <2> QED BY <1>0, <1>2, <2>1, <2>2 DEF TypeOK
<1>15. CASE UNCHANGED vars BY <1>1, <1>15 DEF vars, multiVars, rubyVars, frameVars
<1> QED
  BY <1>3, <1>4, <1>5, <1>6, <1>7, <1>8, <1>9, <1>10, <1>11, <1>12, <1>13, <1>14, <1>15
  DEF Next, Program, Loop

\* Everything the proofs about returns and the contract rest on.
Settled == Owned /\ \A m \in Multis : Counted(m) /\ PendingRuns(m)

LEMMA SettledInvariant ==
  ASSUME "close_attached" \notin Liberties
  PROVE  Spec => []Settled
<1> DEFINE Pending == \A m \in Multis : PendingRuns(m)
<1>1. Init => Pending
  BY DEF Init, PendingRuns
<1>2. ActiveIsExact /\ RunningCoversTransfers /\ (\A m \in Multis : Placed(m))
        => \A m \in Multis : Counted(m)
  BY DEF ActiveIsExact, RunningCoversTransfers, Counted, ActiveExact, RunningCovers
<1>3. Owned /\ (\A m \in Multis : Counted(m)) /\ Pending /\ [Next]_vars => Pending'
  BY PendingStep
<1>4. Owned /\ (\A m \in Multis : Counted(m)) /\ Pending => Settled
  BY DEF Settled
<1> QED
  BY <1>1, <1>2, <1>3, <1>4, OwnedInvariant, ActiveCorrect, RunningCorrect, PlacedInvariant, PTL
  DEF Spec

\* A perform that returns normally leaves a multi without requests and without
\* transfers and has swallowed no exception of a callback, in every program
\* that does not close attached easies.
THEOREM ReturnsIdle ==
  ASSUME "close_attached" \notin Liberties
  PROVE  Spec => PerformReturnsIdle
<1> DEFINE Idle == \A m \in Multis : result[m] = "none" /\ result'[m] = "ok"
                     => requests[m] = {} /\ attached[m] = {} /\ deferred[m] = None
<1>1. Settled /\ [Next]_vars => [Idle]_vars
  <2> SUFFICES ASSUME Settled, Next, NEW m \in Multis, result[m] = "none", result'[m] = "ok"
               PROVE  requests[m] = {} /\ attached[m] = {} /\ deferred[m] = None
    OBVIOUS
  <2>1. TypeOK /\ Owned BY DEF Settled, Owned
  <2>2. result' # result OBVIOUS
  <2>3. Program => \E n \in Multis : Perform(n)
    <3>1. \A n \in Multis, e \in Easies : ~Add(n, e) /\ ~AddRaises(n, e)
      BY <2>2 DEF Add, AddRaises, frameVars
    <3>2. \A n \in Multis, e \in Easies : ~Remove(n, e) BY <2>2 DEF Remove, frameVars
    <3>3. \A e \in Easies : ~CloseEasy(e) BY <2>2 DEF CloseEasy, frameVars
    <3>4. \A e \in Easies, n \in Multis \cup {None} : ~Assign(e, n)
      BY <2>2 DEF Assign, frameVars
    <3>5. \A n \in Multis : ~CloseMulti(n) BY <2>2 DEF CloseMulti, frameVars
    <3> QED BY <3>1, <3>2, <3>3, <3>4, <3>5 DEF Program
  <2>4. ASSUME NEW n \in Multis, Perform(n) PROVE FALSE
    BY <2>1, <2>4 DEF Perform, TypeOK
  <2>5. PICK n \in Multis : Loop(n) BY <2>3, <2>4 DEF Next
  <2>6. ~Run(n) /\ ~BlockReturns(n) /\ (\A e \in Easies : ~HandleComplete(n, e))
    BY <2>2 DEF Run, BlockReturns, HandleComplete
  <2>7. ~CallbackReturns(n) /\ ~CallbackRaises(n) /\ ~CallbackThrows(n)
    BY <2>2 DEF CallbackReturns, CallbackRaises, CallbackThrows, FinishCompletion
  <2>8. ~Leave(n, "raised") BY <2>1, LeaveFacts
  <2>9. ~RunRaises(n) /\ ~BlockRaises(n) /\ ~InfoEnds(n)
    BY <2>2, <2>8 DEF RunRaises, BlockRaises, InfoEnds
  <2>10. PerformReturns(n) BY <2>5, <2>6, <2>7, <2>9 DEF Loop
  <2>11. n = m
    <3>1. PICK how : Leave(n, how) BY <2>10 DEF PerformReturns
    <3> QED BY <2>1, <3>1, LeaveFacts
  <2>12. pc[m] = "block" /\ running[m] = 0 BY <2>10, <2>11 DEF PerformReturns
  <2>13. done[m] = {} BY <2>12 DEF Settled, Counted, Placed
  <2> QED BY <2>1, <2>12, <2>13, NothingRuns DEF Settled, PendingRuns
<1> QED BY <1>1, SettledInvariant, PTL DEF Spec, PerformReturnsIdle

-----------------------------------------------------------------------------
(***************************************************************************)
(* Back references.  An easy that refers to a multi is known to it: it is  *)
(* a request, an idle reference, or the easy whose callbacks run.          *)
(***************************************************************************)

KnownTo(e, m) == e \in requests[m] \/ e \in idleRefs[m] \/ completing[m] = e
ReferencesKnown == \A e \in Easies, m \in Multis : easyMulti[e] = m => KnownTo(e, m)

LEMMA ReferencesStep ==
  ASSUME Owned, [Next]_vars, \A n \in Multis : Placed(n), ReferencesKnown
  PROVE  ReferencesKnown'
<1> USE DEF ReferencesKnown, KnownTo
<1>0. TypeOK /\ OwnershipAgrees /\ ReleasedIsEmpty BY DEF Owned
<1>1. ASSUME UNCHANGED <<requests, idleRefs, completing>>,
             \A x \in Easies : easyMulti'[x] = easyMulti[x] \/ easyMulti'[x] = None
      PROVE  ReferencesKnown'
  BY <1>1, ConstantsAssumption
<1>2. ASSUME NEW m \in Multis, NEW e \in Easies, Add(m, e) PROVE ReferencesKnown'
  <2>1. /\ completing' = completing
        /\ requests'[m] = requests[m] \cup {e} /\ idleRefs'[m] = idleRefs[m] \ {e}
        /\ \A n \in Multis \ {m} : requests'[n] = requests[n] /\ idleRefs'[n] = idleRefs[n]
    BY <1>0, <1>2 DEF Add, TypeOK, Without, frameVars
  <2>2. easyMulti'[e] = m /\ \A x \in Easies \ {e} : easyMulti'[x] = easyMulti[x]
    BY <1>0, <1>2 DEF Add, TypeOK
  <2> QED BY <2>1, <2>2
<1>3. ASSUME NEW m \in Multis, NEW e \in Easies, AddRaises(m, e) PROVE ReferencesKnown'
  BY <1>1, <1>3 DEF AddRaises, rubyVars, frameVars
<1>4. ASSUME NEW m \in Multis, NEW e \in Easies, Remove(m, e) PROVE ReferencesKnown'
  <2>1. /\ UNCHANGED <<idleRefs, completing>>
        /\ requests'[m] = requests[m] \ {e}
        /\ \A n \in Multis \ {m} : requests'[n] = requests[n]
    BY <1>0, <1>4, WithoutFacts DEF Remove, frameVars
  <2>2. CASE RemoveHandleOK(m, e)
    <3>1. easyMulti'[e] = None /\ \A x \in Easies \ {e} : easyMulti'[x] = easyMulti[x]
      BY <1>4, <2>2 DEF Remove, ClearBackReferences
    <3> QED BY <2>1, <3>1, ConstantsAssumption
  <2>3. CASE ~RemoveHandleOK(m, e)
    <3>1. easyMulti' = easyMulti BY <1>4, <2>3 DEF Remove
    <3>2. handle[m] BY <1>0, <1>4 DEF Remove, ReleasedIsEmpty
    <3>3. PICK n \in Multis \ {m} : e \in added[n] BY <2>3, <3>2 DEF RemoveHandleOK
    <3>4. easyMulti[e] = n BY <1>0, <3>3 DEF OwnershipAgrees
    <3> QED BY <2>1, <3>1, <3>3, <3>4
  <2> QED BY <2>2, <2>3
<1>5. ASSUME NEW e \in Easies, NEW n \in Multis \cup {None}, Assign(e, n) PROVE ReferencesKnown'
  <2>1. /\ completing' = completing
        /\ easyMulti'[e] = n /\ \A x \in Easies \ {e} : easyMulti'[x] = easyMulti[x]
        /\ n \in Multis => e \in idleRefs'[n]
        /\ \A k \in Multis : idleRefs[k] \ {e} \subseteq idleRefs'[k]
    BY <1>0, <1>5 DEF Assign, TypeOK, frameVars
  <2>2. \A k \in Multis : requests[k] \ {e} \subseteq requests'[k]
    <3>1. CASE UNCHANGED requests BY <3>1
    <3>2. CASE requests' = Without(requests, easyMulti[e], {e}) /\ easyMulti[e] \in Multis
      BY <1>0, <3>2 DEF TypeOK, Without
    <3> QED BY <1>5, <3>1, <3>2 DEF Assign, HoldersOf
  <2> QED BY <2>1, <2>2
<1>6. ASSUME NEW e \in Easies, CloseEasy(e) PROVE ReferencesKnown'
  <2>1. /\ UNCHANGED <<requests, completing>>
        /\ easyMulti'[e] = None /\ \A x \in Easies \ {e} : easyMulti'[x] = easyMulti[x]
        /\ \A k \in Multis : idleRefs[k] \ {e} \subseteq idleRefs'[k]
    BY <1>0, <1>6 DEF CloseEasy, TypeOK, frameVars
  <2> QED BY <2>1, ConstantsAssumption
<1>7. ASSUME NEW m \in Multis, CloseStops(m), completing' = completing PROVE ReferencesKnown'
  BY <1>1, <1>7 DEF CloseStops, ClearBackReferences
<1>8. ASSUME NEW m \in Multis, NEW permanent \in BOOLEAN, completing' = completing,
             requests' = [requests EXCEPT ![m] = {}], ForgetIdle(m, permanent),
             \A x \in ClosedReferences(m, permanent) : x \in Easies => easyMulti'[x] = None,
             \A x \in Easies : easyMulti'[x] = easyMulti[x] \/ easyMulti'[x] = None
      PROVE  ReferencesKnown'
  <2>1. \A n \in Multis \ {m} : requests'[n] = requests[n] /\ idleRefs'[n] = idleRefs[n]
    BY <1>0, <1>8 DEF ForgetIdle, TypeOK
  <2>2. \A x \in Easies : easyMulti'[x] = m => easyMulti[x] = m /\ x \notin requests[m]
    BY <1>8, ConstantsAssumption DEF ClosedReferences
  <2>3. CASE permanent
    <3>1. \A x \in Easies : easyMulti'[x] = m => x \notin idleRefs[m]
      BY <1>8, <2>2, <2>3, ConstantsAssumption DEF ClosedReferences
    <3> QED BY <1>8, <2>1, <2>2, <3>1, ConstantsAssumption
  <2>4. CASE ~permanent
    <3>1. idleRefs' = idleRefs BY <1>8, <2>4 DEF ForgetIdle
    <3> QED BY <1>8, <2>1, <2>2, <3>1, ConstantsAssumption
  <2> QED BY <2>3, <2>4
<1>9. ASSUME NEW m \in Multis, NEW permanent \in BOOLEAN, CloseAccepted(m, permanent),
             completing' = completing
      PROVE  ReferencesKnown'
  <2>1. /\ \A x \in ClosedReferences(m, permanent) : x \in Easies => easyMulti'[x] = None
        /\ \A x \in Easies : easyMulti'[x] = easyMulti[x] \/ easyMulti'[x] = None
    BY <1>9 DEF CloseAccepted, ClearBackReferences
  <2> QED BY <1>8, <1>9, <2>1 DEF CloseAccepted
<1>10. ASSUME NEW m \in Multis, CloseRejected(m), completing' = completing PROVE ReferencesKnown'
  <2>1. /\ \A x \in ClosedReferences(m, TRUE) : x \in Easies => easyMulti'[x] = None
        /\ \A x \in Easies : easyMulti'[x] = easyMulti[x] \/ easyMulti'[x] = None
    BY <1>10 DEF CloseRejected, ClearBackReferences
  <2> QED BY <1>8, <1>10, <2>1 DEF CloseRejected
<1>11. ASSUME NEW m \in Multis, CloseMulti(m) PROVE ReferencesKnown'
  BY <1>7, <1>9, <1>10, <1>11 DEF CloseMulti, frameVars
<1>12. ASSUME NEW m \in Multis,
              Perform(m) \/ Run(m) \/ RunRaises(m) \/ InfoEnds(m) \/ BlockReturns(m) \/ BlockRaises(m)
       PROVE  ReferencesKnown'
  BY <1>1, <1>12 DEF Perform, Run, RunRaises, InfoEnds, BlockReturns, BlockRaises, Leave, rubyVars,
                     easyVars
<1>13. ASSUME NEW m \in Multis, PerformReturns(m) PROVE ReferencesKnown'
  <2>1. completing' = completing BY <1>13 DEF PerformReturns, Leave
  <2>2. CASE UNCHANGED <<rubyVars, easyMulti>> BY <1>1, <2>1, <2>2 DEF rubyVars
  <2> QED BY <1>7, <1>9, <1>13, <2>1, <2>2 DEF PerformReturns
<1>14. ASSUME NEW m \in Multis, NEW e \in Easies, HandleComplete(m, e) PROVE ReferencesKnown'
  <2>1. /\ UNCHANGED <<idleRefs, easyMulti>>
        /\ requests'[m] = requests[m] \ {e}
        /\ \A n \in Multis \ {m} : requests'[n] = requests[n]
    BY <1>0, <1>14, WithoutFacts DEF HandleComplete
  <2>2. completing'[m] = e /\ \A n \in Multis \ {m} : completing'[n] = completing[n]
    BY <1>0, <1>14 DEF HandleComplete, TypeOK
  <2>3. completing[m] = None BY <1>14 DEF HandleComplete, Placed
  <2> QED BY <2>1, <2>2, <2>3, ConstantsAssumption
<1>15. ASSUME NEW m \in Multis, pc[m] = "callback",
              NEW references \in [Easies -> Multis \cup {None}],
              FinishCompletion(m, references),
              \A x \in Easies : \/ references[x] = None
                                \/ /\ references[x] = easyMulti[x]
                                   /\ \A n \in Multis : x \in requests[n] => x \in requests'[n],
              attached'[m] \subseteq requests'[m]
       PROVE  ReferencesKnown'
  <2> DEFINE c == completing[m]
  <2>1. c \in Easies BY <1>0, <1>15 DEF Placed, TypeOK
  <2>2. /\ easyMulti'[c] = IF references[c] = m /\ c \notin attached'[m] THEN None ELSE references[c]
        /\ \A x \in Easies \ {c} : easyMulti'[x] = references[x]
    BY <1>15, <2>1 DEF FinishCompletion, AttachedAgain
  <2>3. idleRefs' = idleRefs /\ \A n \in Multis \ {m} : completing'[n] = completing[n]
    BY <1>0, <1>15 DEF FinishCompletion, TypeOK
  <2>4. ASSUME NEW x \in Easies, NEW n \in Multis, easyMulti'[x] = n PROVE KnownTo(x, n)'
    <3>1. references[x] = n BY <2>2, <2>4, ConstantsAssumption
    <3>2. easyMulti[x] = n /\ (x \in requests[n] => x \in requests'[n])
      BY <1>15, <3>1, ConstantsAssumption
    <3>3. CASE n # m BY <2>3, <3>2, <3>3
    <3>4. CASE n = m /\ x # c BY <2>3, <3>2, <3>4
    <3>5. CASE n = m /\ x = c BY <1>15, <2>2, <2>4, <3>1, <3>5, ConstantsAssumption
    <3> QED BY <3>3, <3>4, <3>5
  <2> QED BY <2>4
<1>16. ASSUME NEW m \in Multis, CallbackReturns(m) \/ CallbackThrows(m) PROVE ReferencesKnown'
  <2>1. /\ pc[m] = "callback" /\ UNCHANGED <<requests, attached>> /\ FinishCompletion(m, easyMulti)
    BY <1>16 DEF CallbackReturns, CallbackThrows
  <2>2. easyMulti \in [Easies -> Multis \cup {None}] /\ attached[m] \subseteq requests[m]
    BY <1>0 DEF TypeOK, OwnershipAgrees
  <2> QED BY <1>15, <2>1, <2>2
<1>17. ASSUME NEW m \in Multis, CallbackRaises(m) PROVE ReferencesKnown'
  <2> DEFINE R == AddedSinceSnapshot(m)
             references == [x \in Easies |-> IF x \in R THEN None ELSE easyMulti[x]]
  <2>1. pc[m] = "callback" /\ FinishCompletion(m, references) BY <1>17 DEF CallbackRaises
  <2>2. /\ requests'[m] = requests[m] \ R /\ \A n \in Multis \ {m} : requests'[n] = requests[n]
        /\ attached'[m] = attached[m] \ R
    BY <1>0, <1>17, WithoutFacts, DetachFacts DEF CallbackRaises
  <2>3. references \in [Easies -> Multis \cup {None}] BY <1>0 DEF TypeOK
  <2>4. attached'[m] \subseteq requests'[m] BY <1>0, <2>2 DEF OwnershipAgrees
  <2>5. \A x \in Easies : \/ references[x] = None
                          \/ /\ references[x] = easyMulti[x]
                             /\ \A n \in Multis : x \in requests[n] => x \in requests'[n]
    BY <2>2
  <2> HIDE DEF R, references
  <2> QED BY <1>15, <2>1, <2>3, <2>4, <2>5
<1>18. CASE UNCHANGED vars BY <1>1, <1>18 DEF vars, rubyVars, easyVars, frameVars
<1> QED
  BY <1>2, <1>3, <1>4, <1>5, <1>6, <1>11, <1>12, <1>13, <1>14, <1>16, <1>17, <1>18
  DEF Next, Program, Loop

\* No easy refers to a multi once Multi#close has succeeded on it, whatever the
\* easy was to the multi before: a request, an idle reference or attached.
THEOREM ClosesReferences == Spec => CloseClearsReferences
<1> DEFINE Cleared == \A m \in Multis : ~closed[m] /\ closed'[m] => \A e \in Easies : easyMulti'[e] # m
<1>1. Init => ReferencesKnown
  BY ConstantsAssumption DEF Init, ReferencesKnown
<1>2. Owned /\ (\A m \in Multis : Placed(m)) /\ ReferencesKnown /\ [Next]_vars => ReferencesKnown'
  BY ReferencesStep
<1>3. Owned /\ (\A m \in Multis : Placed(m)) /\ ReferencesKnown /\ [Next]_vars => [Cleared]_vars
  <2> SUFFICES ASSUME Owned, \A n \in Multis : Placed(n), ReferencesKnown, Next,
                      NEW m \in Multis, ~closed[m], closed'[m], NEW e \in Easies
               PROVE  easyMulti'[e] # m
    OBVIOUS
  <2>0. TypeOK BY DEF Owned
  <2>1. closed' # closed OBVIOUS
  <2>2. ASSUME NEW n \in Multis, CloseMulti(n) PROVE easyMulti'[e] # m
    <3>1. CloseAccepted(n, TRUE) /\ ~CloseGuarded(n)
      BY <2>1, <2>2 DEF CloseMulti, CloseStops, CloseRejected
    <3>2. n = m BY <2>0, <3>1 DEF CloseAccepted, TypeOK
    <3>3. completing[m] = None BY <3>1, <3>2 DEF CloseGuarded, Placed
    <3>4. easyMulti'[e] = IF e \in ClosedReferences(m, TRUE) \cup attached[m] THEN None ELSE easyMulti[e]
      BY <3>1, <3>2 DEF CloseAccepted, ClearBackReferences
    <3>5. easyMulti[e] = m => e \in ClosedReferences(m, TRUE)
      BY <3>3, ConstantsAssumption DEF ReferencesKnown, KnownTo, ClosedReferences
    <3> QED BY <3>4, <3>5, ConstantsAssumption
  <2>3. ASSUME NEW n \in Multis, PerformReturns(n) PROVE FALSE
    <3>1. \/ closed' = closed \/ CloseAccepted(n, FALSE)
      BY <2>3 DEF PerformReturns, CloseStops
    <3> QED BY <2>0, <2>1, <3>1 DEF CloseAccepted, TypeOK
  <2>4. \A n \in Multis, x \in Easies : ~Add(n, x) /\ ~AddRaises(n, x) /\ ~Remove(n, x) /\ ~HandleComplete(n, x)
    BY <2>1 DEF Add, AddRaises, Remove, HandleComplete
  <2>5. \A x \in Easies : ~CloseEasy(x) /\ \A n \in Multis \cup {None} : ~Assign(x, n)
    BY <2>1 DEF CloseEasy, Assign
  <2>6. \A n \in Multis : ~Perform(n) /\ ~Run(n) /\ ~RunRaises(n) /\ ~InfoEnds(n) /\ ~BlockReturns(n) /\ ~BlockRaises(n)
    BY <2>1 DEF Perform, Run, RunRaises, InfoEnds, BlockReturns, BlockRaises, multiVars
  <2>7. \A n \in Multis : ~CallbackReturns(n) /\ ~CallbackRaises(n) /\ ~CallbackThrows(n)
    BY <2>1 DEF CallbackReturns, CallbackRaises, CallbackThrows, FinishCompletion
  <2> QED BY <2>2, <2>3, <2>4, <2>5, <2>6, <2>7 DEF Next, Program, Loop
<1> QED BY <1>1, <1>2, <1>3, OwnedInvariant, PlacedInvariant, PTL DEF Spec, CloseClearsReferences

-----------------------------------------------------------------------------
(***************************************************************************)
(* The contract.  The owner of an easy is the multi whose table holds it;  *)
(* what every step does to the tables is a step of TransferContract.       *)
(***************************************************************************)

Owners == [e \in Easies |-> OwnerOf(e)]
Failures == [m \in Multis |-> deferred[m] # None]

\* The owner of an easy is well defined: it is in one table at most.
LEMMA OwnerFacts ==
  ASSUME Owned, NEW e \in Easies
  PROVE  /\ \A m \in Multis : OwnerOf(e) = m <=> e \in attached[m]
         /\ (\A m \in Multis : e \notin attached[m]) => OwnerOf(e) = None
<1>1. \A m, n \in Multis : e \in attached[m] /\ e \in attached[n] => m = n
  BY DEF Owned, OwnershipAgrees
<1> QED BY <1>1, ConstantsAssumption DEF OwnerOf

LEMMA OwnerFactsNext ==
  ASSUME Owned', NEW e \in Easies
  PROVE  /\ \A m \in Multis : OwnerOf(e)' = m <=> e \in attached'[m]
         /\ (\A m \in Multis : e \notin attached'[m]) => OwnerOf(e)' = None
<1>1. \A m, n \in Multis : e \in attached'[m] /\ e \in attached'[n] => m = n
  BY DEF Owned, OwnershipAgrees
<1> QED BY <1>1, ConstantsAssumption DEF OwnerOf

\* Transfers of one multi end: they pass to nobody, and no other owner changes.
LEMMA OwnersReleased ==
  ASSUME Owned, Owned', NEW m \in Multis, attached'[m] \subseteq attached[m],
         \A n \in Multis \ {m} : attached'[n] = attached[n]
  PROVE  Owners' = [e \in Easies |-> IF e \in attached[m] \ attached'[m] THEN None ELSE Owners[e]]
<1>1. ASSUME NEW e \in Easies
      PROVE  OwnerOf(e)' = IF e \in attached[m] \ attached'[m] THEN None ELSE OwnerOf(e)
  <2>1. CASE e \in attached[m] \ attached'[m]
    <3>1. \A n \in Multis : e \notin attached'[n]
      BY <2>1, OwnerFacts
    <3> QED BY <2>1, <3>1, OwnerFactsNext
  <2>2. CASE e \notin attached[m] \ attached'[m]
    <3>1. \A n \in Multis : e \in attached'[n] <=> e \in attached[n] BY <2>2
    <3> QED BY <2>2, <3>1, OwnerFacts, OwnerFactsNext
  <2> QED BY <2>1, <2>2
<1>2. Owners' = [e \in Easies |-> OwnerOf(e)'] BY DEF Owners
<1> QED BY <1>1, <1>2 DEF Owners

\* What a multi owns is its table.
LEMMA OwnedByTable ==
  ASSUME Owned, NEW m \in Multis
  PROVE  {e \in Easies : Owners[e] = m} = attached[m]
<1>1. attached[m] \subseteq Easies BY DEF Owned, TypeOK
<1> QED BY <1>1, OwnerFacts DEF Owners

\* The four steps of the contract, in terms of the tables.
LEMMA StopsTransfers ==
  ASSUME Owned, Owned', NEW m \in Multis, attached'[m] \subseteq attached[m],
         \A n \in Multis \ {m} : attached'[n] = attached[n],
         Failures' = Failures \/ Failures' = [Failures EXCEPT ![m] = TRUE],
         closed' = closed
  PROVE  Contract!Next
<1>1. PICK S \in SUBSET Easies : S = attached[m] \ attached'[m] BY DEF Owned, TypeOK
<1>2. Owners' = [e \in Easies |-> IF e \in S THEN None ELSE Owners[e]] BY <1>1, OwnersReleased
<1>3. S \subseteq {e \in Easies : Owners[e] = m} BY <1>1, OwnedByTable
<1>4. Contract!Stop(m, S)
  BY <1>2, <1>3 DEF Contract!Stop, Contract!OwnedBy, Contract!Released, Owners, Failures
<1> QED BY <1>4 DEF Contract!Next

LEMMA DeliversException ==
  ASSUME Owned, Owned', NEW m \in Multis, attached[m] = {}, attached' = attached,
         Failures[m], Failures' = [Failures EXCEPT ![m] = FALSE], closed' = closed
  PROVE  Contract!Next
<1>1. Owners' = Owners
  <2>1. Owners' = [e \in Easies |-> Owners[e]] BY OwnersReleased
  <2> QED BY <2>1 DEF Owners
<1>2. {e \in Easies : Owners[e] = m} = {} BY OwnedByTable
<1>3. Contract!Deliver(m)
  BY <1>1, <1>2 DEF Contract!Deliver, Contract!OwnedBy, Owners, Failures
<1> QED BY <1>3 DEF Contract!Next

LEMMA ClosesOwner ==
  ASSUME Owned, Owned', NEW m \in Multis, attached'[m] = {},
         \A n \in Multis \ {m} : attached'[n] = attached[n],
         Failures' = [Failures EXCEPT ![m] = FALSE],
         closed' = [closed EXCEPT ![m] = TRUE] \/ (~Failures[m] /\ closed' = closed)
  PROVE  Contract!Next
<1>1. Owners' = [e \in Easies |-> IF e \in attached[m] THEN None ELSE Owners[e]]
  BY OwnersReleased
<1>2. Owners' = [e \in Easies |-> IF e \in {x \in Easies : Owners[x] = m} THEN None ELSE Owners[e]]
  BY <1>1, OwnedByTable
<1>3. Contract!Close(m)
  BY <1>2 DEF Contract!Close, Contract!OwnedBy, Contract!Released, Owners, Failures
<1> QED BY <1>3 DEF Contract!Next

LEMMA StartsTransfer ==
  ASSUME Owned, Owned', NEW m \in Multis, NEW e \in Easies,
         \A n \in Multis : e \notin attached[n],
         attached'[m] = attached[m] \cup {e},
         \A n \in Multis \ {m} : attached'[n] = attached[n],
         ~Failures[m], ~closed[m], Failures' = Failures, closed' = closed
  PROVE  Contract!Next
<1>1. ASSUME NEW x \in Easies PROVE OwnerOf(x)' = IF x = e THEN m ELSE OwnerOf(x)
  <2>1. CASE x = e BY <2>1, OwnerFactsNext
  <2>2. CASE x # e
    <3>1. \A n \in Multis : x \in attached'[n] <=> x \in attached[n] BY <2>2
    <3> QED BY <2>2, <3>1, OwnerFacts, OwnerFactsNext
  <2> QED BY <2>1, <2>2
<1>2. Owners' = [Owners EXCEPT ![e] = m] BY <1>1 DEF Owners
<1>3. Owners[e] = None BY OwnerFacts DEF Owners
<1>4. Contract!Start(m, e)
  BY <1>2, <1>3 DEF Contract!Start, Owners, Failures
<1> QED BY <1>4 DEF Contract!Next

\* A step that leaves the tables, the exceptions and closed alone is a stutter.
LEMMA ContractStutters ==
  ASSUME UNCHANGED <<attached, deferred, closed>>
  PROVE  UNCHANGED Contract!vars
BY DEF Contract!vars, OwnerOf

LEMMA ContractStep ==
  ASSUME Settled, Owned', [Next]_vars
  PROVE  [Contract!Next]_(Contract!vars)
<1> DEFINE Goal == Contract!Next \/ UNCHANGED Contract!vars
<1>0. TypeOK /\ OwnershipAgrees /\ Owned BY DEF Settled, Owned
<1>1. ASSUME UNCHANGED <<attached, deferred, closed>> PROVE Goal
  BY <1>1, ContractStutters
<1>2. ASSUME UNCHANGED <<deferred, closed>>, NEW m \in Multis, NEW S, Detach(m, S) PROVE Goal
  <2>1. attached'[m] \subseteq attached[m] /\ \A n \in Multis \ {m} : attached'[n] = attached[n]
    BY <1>0, <1>2, DetachFacts
  <2>2. Failures' = Failures BY <1>2 DEF Failures
  <2> QED BY <1>0, <1>2, <2>1, <2>2, StopsTransfers
<1>3. ASSUME NEW m \in Multis, NEW e \in Easies, Add(m, e) PROVE Goal
  <2>1. /\ UNCHANGED <<deferred, closed>> /\ deferred[m] = None
        /\ attached'[m] = attached[m] \cup {e}
        /\ \A n \in Multis \ {m} : attached'[n] = attached[n]
    BY <1>0, <1>3 DEF Add, Accepting, TypeOK
  <2>2. \A n \in Multis : e \notin attached[n]
    BY <1>0, <1>3 DEF Add, AddHandleOK, OwnershipAgrees
  <2>3. ~closed[m] BY <1>3 DEF Add, Settled, Counted, Placed
  <2>4. Failures' = Failures /\ ~Failures[m] BY <2>1 DEF Failures
  <2> QED BY <1>0, <2>1, <2>2, <2>3, <2>4, StartsTransfer
<1>4. ASSUME NEW m \in Multis, NEW e \in Easies, AddRaises(m, e) PROVE Goal
  BY <1>1, <1>4 DEF AddRaises, rubyVars
<1>5. ASSUME NEW m \in Multis, NEW e \in Easies, Remove(m, e) PROVE Goal
  BY <1>1, <1>2, <1>5 DEF Remove
<1>6. ASSUME NEW e \in Easies, NEW n \in Multis \cup {None}, Assign(e, n) PROVE Goal
  BY <1>1, <1>2, <1>6 DEF Assign, HoldersOf
<1>7. ASSUME NEW e \in Easies, CloseEasy(e) PROVE Goal
  <2>1. UNCHANGED <<deferred, closed>> BY <1>7 DEF CloseEasy
  <2>2. CASE easyMulti[e] \in Multis
    <3>1. PICK m \in Multis : m = easyMulti[e] BY <2>2
    <3>2. attached'[m] \subseteq attached[m] /\ \A n \in Multis \ {m} : attached'[n] = attached[n]
      BY <1>0, <1>7, <3>1 DEF CloseEasy, TypeOK
    <3>3. Failures' = Failures BY <2>1 DEF Failures
    <3> QED BY <1>0, <2>1, <3>2, <3>3, StopsTransfers
  <2>3. CASE easyMulti[e] \notin Multis
    BY <1>0, <1>1, <1>7, <2>1, <2>3 DEF CloseEasy, TypeOK
  <2> QED BY <2>2, <2>3
<1>8. ASSUME NEW m \in Multis, NEW permanent \in BOOLEAN, CloseAccepted(m, permanent),
             permanent \/ deferred[m] = None
      PROVE  Goal
  <2>1. /\ attached'[m] = {} /\ \A n \in Multis \ {m} : attached'[n] = attached[n]
    BY <1>0, <1>8 DEF CloseAccepted, TypeOK
  <2>2. Failures' = [Failures EXCEPT ![m] = FALSE]
    BY <1>0, <1>8 DEF CloseAccepted, TypeOK, Failures
  <2>3. closed' = [closed EXCEPT ![m] = TRUE] \/ (~Failures[m] /\ closed' = closed)
    BY <1>0, <1>8 DEF CloseAccepted, TypeOK, Failures
  <2> QED BY <1>0, <2>1, <2>2, <2>3, ClosesOwner
<1>9. ASSUME NEW m \in Multis, CloseMulti(m) PROVE Goal
  BY <1>2, <1>8, <1>9 DEF CloseMulti, CloseStops, CloseRejected
<1>10. ASSUME NEW m \in Multis,
              \/ Perform(m) \/ Run(m) \/ RunRaises(m) \/ BlockReturns(m) \/ BlockRaises(m)
              \/ CallbackReturns(m)
       PROVE  Goal
  BY <1>1, <1>10 DEF Perform, Run, RunRaises, BlockReturns, BlockRaises, CallbackReturns,
                     FinishCompletion, rubyVars, multiVars
<1>11. ASSUME NEW m \in Multis, NEW S, closed' = closed, attached'[m] \subseteq attached[m],
              \A n \in Multis \ {m} : attached'[n] = attached[n],
              NEW x \in Exceptions, StashIfUnset(m, x)
       PROVE  Goal
  <2>1. x # None BY ConstantsAssumption
  <2>2. deferred' = [deferred EXCEPT ![m] = IF deferred[m] = None THEN x ELSE deferred[m]]
    BY <1>11 DEF StashIfUnset
  <2>3. Failures' = [Failures EXCEPT ![m] = TRUE] BY <1>0, <2>1, <2>2 DEF Failures, TypeOK
  <2> QED BY <1>0, <1>11, <2>3, StopsTransfers
<1>12. ASSUME NEW m \in Multis, NEW e \in Easies, HandleComplete(m, e) PROVE Goal
  <2>1. Detach(m, {e}) /\ closed' = closed BY <1>12 DEF HandleComplete
  <2>2. attached'[m] \subseteq attached[m] /\ \A n \in Multis \ {m} : attached'[n] = attached[n]
    BY <1>0, <2>1, DetachFacts
  <2>3. StashIfUnset(m, "body") \/ deferred' = deferred BY <1>12 DEF HandleComplete
  <2>4. "body" \in Exceptions BY DEF Exceptions
  <2> QED BY <1>2, <1>11, <2>1, <2>2, <2>3, <2>4
<1>13. ASSUME NEW m \in Multis, CallbackRaises(m) PROVE Goal
  <2>1. Detach(m, AddedSinceSnapshot(m)) /\ closed' = closed /\ StashIfUnset(m, "status")
    BY <1>13 DEF CallbackRaises, FinishCompletion
  <2>2. attached'[m] \subseteq attached[m] /\ \A n \in Multis \ {m} : attached'[n] = attached[n]
    BY <1>0, <2>1, DetachFacts
  <2>3. "status" \in Exceptions BY DEF Exceptions
  <2> QED BY <1>11, <2>1, <2>2, <2>3
<1>14. ASSUME NEW m \in Multis, CallbackThrows(m) PROVE Goal
  <2>1. UNCHANGED <<attached, closed>> /\ StashIfUnset(m, "fatal")
    BY <1>14 DEF CallbackThrows, FinishCompletion
  <2>2. "fatal" \in Exceptions BY DEF Exceptions
  <2> QED BY <1>11, <2>1, <2>2
<1>15. ASSUME NEW m \in Multis, InfoEnds(m) PROVE Goal
  <2>1. UNCHANGED <<attached, closed>> BY <1>15 DEF InfoEnds
  <2>2. CASE deferred[m] # None /\ Drained(m) /\ deferred' = [deferred EXCEPT ![m] = None]
    <3>1. Cardinality(attached[m]) = 0 BY <2>2 DEF Drained, Settled, Counted, ActiveExact
    <3>2. attached[m] = {} BY <1>0, <3>1, CardinalityZero DEF TypeOK
    <3>3. Failures[m] /\ Failures' = [Failures EXCEPT ![m] = FALSE]
      BY <1>0, <2>2 DEF Failures, TypeOK
    <3> QED BY <1>0, <2>1, <3>2, <3>3, DeliversException
  <2>3. CASE deferred' = deferred BY <1>1, <2>1, <2>3
  <2> QED BY <1>15, <2>2, <2>3 DEF InfoEnds
<1>16. ASSUME NEW m \in Multis, PerformReturns(m) PROVE Goal
  <2>1. deferred[m] = None BY <1>16 DEF PerformReturns, Settled, PendingRuns
  <2>2. CASE UNCHANGED <<closed, attached, rubyVars>> BY <1>1, <2>2 DEF rubyVars
  <2>3. CASE CloseAccepted(m, FALSE) BY <1>8, <2>1, <2>3
  <2>4. CASE CloseStops(m) BY <1>2, <2>4 DEF CloseStops
  <2> QED BY <1>16, <2>2, <2>3, <2>4 DEF PerformReturns
<1>17. CASE UNCHANGED vars BY <1>1, <1>17 DEF vars, multiVars, rubyVars
<1> QED
  BY <1>3, <1>4, <1>5, <1>6, <1>7, <1>9, <1>10, <1>12, <1>13, <1>14, <1>15, <1>16, <1>17
  DEF Next, Program, Loop

\* The tables, counters and the perform loop implement TransferContract: an easy
\* passes from one owner to another only through nobody, a multi with a pending
\* exception starts nothing and raises it when it owns nothing, and a closed
\* multi owns nothing for good; in programs that close no attached easies.
THEOREM KeepsContract ==
  ASSUME "close_attached" \notin Liberties
  PROVE  Spec => ImplementsContract
<1>1. Init => Contract!Init
  <2> SUFFICES ASSUME Init PROVE Contract!Init
    OBVIOUS
  <2>1. \A e \in Easies : OwnerOf(e) = None BY DEF Init, OwnerOf
  <2> QED BY <2>1 DEF Init, Contract!Init
<1>2. Settled /\ Owned' /\ [Next]_vars => [Contract!Next]_(Contract!vars)
  BY ContractStep
<1> QED BY <1>1, <1>2, SettledInvariant, OwnedInvariant, PTL DEF Spec, ImplementsContract, Contract!Spec
=============================================================================
