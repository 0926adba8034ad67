------------------------ MODULE FiberSchedulerProofs ------------------------
(***************************************************************************)
(* Proofs about FiberScheduler, for any fibers, any number of performs and *)
(* anything that may go wrong.                                             *)
(***************************************************************************)
EXTENDS FiberScheduler, TLAPS

DriverPlaces == {"off", "gather", "yield", "callback", "top", "prime", "info", "block"}

-----------------------------------------------------------------------------
(***************************************************************************)
(* The first part of the invariant: where the fibers and the driver are.   *)
(***************************************************************************)

\* A driver that runs has no error to report; a fiber has a waiter from where
\* it enters perform to where it leaves.
Shape ==
  /\ driver = "callback" <=> completing # None
  /\ driver # "off" => error = None
  /\ \A e \in Easies :
       /\ pc[e] # "idle" <=> e \in waiting
       /\ pc[e] = "leaving" => e \in done
       /\ pc[e] # "idle" => result[e] = None

\* The exception and the id of its source are set together; while the shared
\* multi performs, an id without an exception cannot be a stale one.
Source ==
  /\ deferred # None => sourceId \in Easies /\ deferred = Exception("callback", sourceId)
  /\ driver \in {"prime", "info", "callback", "block", "yield"} /\ deferred = None
       => sourceId = None

\* Fibers that were woken have run before completions are handled; whoever was
\* woken without an outcome of its own has not completed.
WokenRunFirst ==
  \A e \in Easies : pc[e] = "woken" =>
    /\ driver \notin {"info", "callback", "block"}
    /\ driver \in {"top", "prime"} => e \in done
    /\ e \in done \/ failure[e] # None \/ e \notin completed

Base == TypeOK /\ Shape /\ Source /\ WokenRunFirst /\ NoLostWakeup /\ PendingIsDriven

-----------------------------------------------------------------------------
LEMMA AppendFacts ==
  ASSUME NEW s \in Seq(Easies), NEW e \in Easies
  PROVE  /\ Append(s, e) \in Seq(Easies) /\ Append(s, e) # <<>>
         /\ Len(Append(s, e)) = Len(s) + 1 /\ Len(s) \in Nat
         /\ \A i \in 1 .. Len(s) : Append(s, e)[i] = s[i]
         /\ Append(s, e)[Len(s) + 1] = e
OBVIOUS

LEMMA TailFacts ==
  ASSUME NEW s \in Seq(Easies), s # <<>>
  PROVE  /\ Head(s) = s[1] /\ Head(s) \in Easies /\ Len(s) \in Nat /\ Len(s) >= 1
         /\ Tail(s) \in Seq(Easies) /\ Len(Tail(s)) = Len(s) - 1
         /\ \A i \in 1 .. Len(Tail(s)) : Tail(s)[i] = s[i + 1]
OBVIOUS

LEMMA WakeFacts ==
  ASSUME pc \in [Easies -> {"idle", "blocked", "woken", "leaving"}], NEW S, pc' = Wake(S)
  PROVE  /\ pc' \in [Easies -> {"idle", "blocked", "woken", "leaving"}]
         /\ \A e \in Easies :
              pc'[e] = IF e \in S /\ pc[e] = "blocked" THEN "woken" ELSE pc[e]
BY DEF Wake

\* The ensure clause of the driver ends it or starts the next.
LEMMA DriverEndsFacts ==
  ASSUME NEW x, DriverEnds(x), gathered \in Nat, pending \in Seq(Easies)
  PROVE  /\ driver' \in {"off", "gather"} /\ gathered' \in Nat
         /\ driver' = "gather" => x = None
         /\ driver' = "off" => x # None \/ pending = <<>>
<1>1. Len(pending) \in Nat OBVIOUS
<1> QED BY <1>1 DEF DriverEnds

\* The two ways in which a driver reports a failure: to the originator, or to
\* every waiter of the thread.
ToOriginator(x) ==
  /\ sourceId \in waiting
  /\ error' = error
  /\ \A e \in Easies : failure'[e] = IF e = sourceId /\ failure[e] = None THEN x ELSE failure[e]
  /\ \A e \in Easies : pc'[e] =
       IF e \in Released \cup {sourceId} /\ pc[e] = "blocked" THEN "woken" ELSE pc[e]
  /\ driver' = "off" => pending = <<>>

ToEveryone(x) ==
  /\ sourceId \notin waiting
  /\ error' = x
  /\ failure' = failure
  /\ \A e \in Easies : pc'[e] = IF e \in waiting /\ pc[e] = "blocked" THEN "woken" ELSE pc[e]
  /\ driver' = "off"

LEMMA DriverFailsFacts ==
  ASSUME TypeOK, Shape, driver # "off", NEW x \in Exceptions, DriverFails(x)
  PROVE  /\ done' = done \cup Released /\ Released \subseteq completed
         /\ pc' \in [Easies -> {"idle", "blocked", "woken", "leaving"}]
         /\ failure' \in [Easies -> Exceptions \cup {None}]
         /\ driver' \in {"off", "gather"} /\ gathered' \in Nat
         /\ final' = FALSE /\ completing' = completing
         /\ driver' = "gather" => error' = None
         /\ ToOriginator(x) \/ ToEveryone(x)
<1>0. /\ pc \in [Easies -> {"idle", "blocked", "woken", "leaving"}] /\ error = None
      /\ failure \in [Easies -> Exceptions \cup {None}] /\ waiting \subseteq Easies
      /\ gathered \in Nat /\ pending \in Seq(Easies) /\ x # None
  BY SchedulerAssumption DEF TypeOK, Shape
<1>1. Released \subseteq completed BY DEF Released
<1>2. done' = done \cup Released /\ final' = FALSE /\ completing' = completing /\ DriverEnds(error')
  BY DEF DriverFails
<1>3. PICK y : y = error' OBVIOUS
<1>4. DriverEnds(y) BY <1>2, <1>3
<1>5. /\ driver' \in {"off", "gather"} /\ gathered' \in Nat
      /\ driver' = "gather" => y = None
      /\ driver' = "off" => y # None \/ pending = <<>>
  BY <1>0, <1>4, DriverEndsFacts
<1>6. CASE sourceId \in waiting
  <2>1. /\ failure' = [failure EXCEPT ![sourceId] = IF @ = None THEN x ELSE @]
        /\ pc' = Wake(Released \cup {sourceId}) /\ error' = error
    BY <1>6 DEF DriverFails, Originator
  <2>2. /\ pc' \in [Easies -> {"idle", "blocked", "woken", "leaving"}]
        /\ \A e \in Easies : pc'[e] =
             IF e \in Released \cup {sourceId} /\ pc[e] = "blocked" THEN "woken" ELSE pc[e]
    BY <1>0, <2>1, WakeFacts
  <2>3. /\ failure' \in [Easies -> Exceptions \cup {None}]
        /\ \A e \in Easies :
             failure'[e] = IF e = sourceId /\ failure[e] = None THEN x ELSE failure[e]
    BY <1>0, <1>6, <2>1
  <2>4. driver' = "off" => pending = <<>> BY <1>0, <1>3, <1>5, <2>1
  <2>5. ToOriginator(x) BY <1>6, <2>1, <2>2, <2>3, <2>4 DEF ToOriginator
  <2> QED BY <1>1, <1>2, <1>3, <1>5, <2>2, <2>3, <2>5
<1>7. CASE sourceId \notin waiting
  <2>1. error' = x /\ pc' = Wake(waiting) /\ failure' = failure
    BY <1>7 DEF DriverFails, Originator
  <2>2. /\ pc' \in [Easies -> {"idle", "blocked", "woken", "leaving"}]
        /\ \A e \in Easies : pc'[e] =
             IF e \in waiting /\ pc[e] = "blocked" THEN "woken" ELSE pc[e]
    BY <1>0, <2>1, WakeFacts
  <2>3. driver' = "off" BY <1>0, <1>3, <1>5, <2>1
  <2>4. ToEveryone(x) BY <1>7, <2>1, <2>2, <2>3 DEF ToEveryone
  <2> QED BY <1>0, <1>1, <1>2, <1>3, <1>5, <2>1, <2>2, <2>4
<1> QED BY <1>6, <1>7

-----------------------------------------------------------------------------
(***************************************************************************)
(* Steps keep the first part.                                              *)
(***************************************************************************)

\* A failure of the driver, at a moment when every fiber that was woken has an
\* outcome.
LEMMA FailBase ==
  ASSUME Base, NEW x \in Exceptions, DriverFails(x), driver \notin {"off", "callback"},
         \A e \in Easies : pc[e] = "woken" => e \in done,
         deferred' \in {deferred, None},
         UNCHANGED <<requests, finished, sourceId, pending, waiting, completed,
                     performs, result, threw, faults>>
  PROVE  Base'
<1>0. TypeOK /\ Shape /\ Source /\ WokenRunFirst /\ NoLostWakeup /\ x # None
      /\ waiting \subseteq Easies /\ error = None
  BY SchedulerAssumption DEF Base, TypeOK, Shape
<1>1. /\ done' = done \cup Released /\ Released \subseteq completed
      /\ pc' \in [Easies -> {"idle", "blocked", "woken", "leaving"}]
      /\ failure' \in [Easies -> Exceptions \cup {None}]
      /\ driver' \in {"off", "gather"} /\ gathered' \in Nat
      /\ final' = FALSE /\ completing' = completing
      /\ driver' = "gather" => error' = None
      /\ ToOriginator(x) \/ ToEveryone(x)
  BY <1>0, DriverFailsFacts
<1>2. error' \in {None, x} BY <1>0, <1>1 DEF ToOriginator, ToEveryone
<1>3. TypeOK' BY <1>0, <1>1, <1>2 DEF TypeOK, YieldPoints
<1>4. \A e \in Easies : /\ pc'[e] \in {pc[e], "woken"}
                        /\ pc'[e] # pc[e] => pc[e] = "blocked"
  BY <1>1 DEF ToOriginator, ToEveryone
<1>5. Shape' BY <1>0, <1>1, <1>4 DEF Shape
<1>6. Source' BY <1>0, <1>1 DEF Source
<1>7. WokenRunFirst'
  <2> SUFFICES ASSUME NEW e \in Easies, pc'[e] = "woken"
               PROVE  e \in done' \/ failure'[e] # None \/ e \notin completed
    BY <1>1 DEF WokenRunFirst
  <2>1. CASE pc[e] = "woken" BY <1>1, <2>1
  <2>2. CASE pc[e] = "blocked" /\ ToOriginator(x)
    <3>1. e \in Released \cup {sourceId} BY <2>2 DEF ToOriginator
    <3>2. failure[e] = None BY <1>0, <2>2 DEF NoLostWakeup
    <3>3. e = sourceId => failure'[e] = x BY <2>2, <3>2 DEF ToOriginator
    <3> QED BY <1>0, <1>1, <3>1, <3>3
  <2>3. CASE pc[e] = "blocked" /\ ToEveryone(x)
    <3>1. e \in waiting /\ e # sourceId BY <2>3 DEF ToEveryone
    <3>2. e \in completed => e \in done \cup Released BY <3>1 DEF Released, Originator
    <3> QED BY <1>1, <3>2
  <2> QED BY <1>1, <1>4, <2>1, <2>2, <2>3
<1>8. NoLostWakeup'
  <2> SUFFICES ASSUME NEW e \in Easies, pc'[e] = "blocked"
               PROVE  e \notin done' /\ failure'[e] = None /\ error' = None
    BY DEF NoLostWakeup
  <2>1. pc[e] = "blocked" BY <1>4
  <2>2. e \notin done /\ failure[e] = None BY <1>0, <2>1 DEF NoLostWakeup
  <2>3. e \in waiting BY <1>0, <2>1 DEF Shape
  <2>4. CASE ToOriginator(x)
    <3>1. e \notin Released \cup {sourceId} BY <2>1, <2>4 DEF ToOriginator
    <3>2. failure'[e] = failure[e] /\ error' = error BY <2>4, <3>1 DEF ToOriginator
    <3> QED BY <1>0, <1>1, <2>2, <3>1, <3>2
  <2>5. CASE ToEveryone(x) BY <2>1, <2>3, <2>5 DEF ToEveryone
  <2> QED BY <1>1, <2>4, <2>5
<1>9. PendingIsDriven' BY <1>0, <1>1 DEF PendingIsDriven, ToOriginator, ToEveryone
<1> QED BY <1>3, <1>5, <1>6, <1>7, <1>8, <1>9 DEF Base

\* A step of the driver that wakes nobody.
LEMMA QuietBase ==
  ASSUME Base, driver # "off",
         UNCHANGED <<waiting, done, failure, error, pc, performs, result, faults>>,
         requests' \subseteq Easies, finished' \subseteq requests', pending' \in Seq(Easies),
         deferred' \in Exceptions \cup {None}, sourceId' \in Easies \cup {None}, Source',
         completed' \subseteq waiting, done \subseteq completed',
         threw' \in [Easies -> {"nothing", "stashed", "dropped"}],
         driver' \in DriverPlaces, gathered' \in Nat, final' \in BOOLEAN,
         completing' \in Easies \cup {None}, driver' = "callback" <=> completing' # None,
         driver' = "off" => pending' = <<>>,
         \A e \in Easies : pc[e] = "woken" =>
           /\ driver' \notin {"info", "callback", "block"} /\ completed' = completed
           /\ driver' \in {"top", "prime"} => e \in done
  PROVE  Base'
<1>0. TypeOK /\ Shape /\ WokenRunFirst /\ NoLostWakeup /\ error = None BY DEF Base, Shape
<1>1. TypeOK' BY <1>0 DEF TypeOK, DriverPlaces, YieldPoints
<1>2. Shape' BY <1>0 DEF Shape
<1>3. WokenRunFirst' BY <1>0 DEF WokenRunFirst
<1>4. NoLostWakeup' BY <1>0 DEF NoLostWakeup
<1>5. PendingIsDriven' BY DEF PendingIsDriven
<1> QED BY <1>1, <1>2, <1>3, <1>4, <1>5 DEF Base

\* A step of the driver that releases the waiters that have completed.
LEMMA ReleaseBase ==
  ASSUME Base, driver \in {"block", "yield"}, driver' \in {"yield", "top"},
         \A e \in Easies : pc[e] # "woken",
         done' = done \cup Released, pc' = Wake(Released), final' \in BOOLEAN,
         UNCHANGED <<multiVars, pending, error, waiting, completed, failure, gathered, completing,
                     history, faults>>
  PROVE  Base'
<1>0. TypeOK /\ Shape /\ Source /\ WokenRunFirst /\ NoLostWakeup BY DEF Base
<1>1. UNCHANGED <<requests, finished, deferred, sourceId, performs, result, threw>>
  BY DEF multiVars, history
<1>2. /\ pc' \in [Easies -> {"idle", "blocked", "woken", "leaving"}]
      /\ \A e \in Easies :
           pc'[e] = IF e \in Released /\ pc[e] = "blocked" THEN "woken" ELSE pc[e]
  BY <1>0, WakeFacts DEF TypeOK
<1>3. Released \subseteq completed BY DEF Released
<1>4. TypeOK' BY <1>0, <1>1, <1>2, <1>3 DEF TypeOK, YieldPoints
<1>5. Shape' BY <1>0, <1>1, <1>2 DEF Shape
<1>6. Source' BY <1>0, <1>1 DEF Source
<1>7. WokenRunFirst' BY <1>0, <1>2 DEF WokenRunFirst
<1>8. NoLostWakeup' BY <1>0, <1>2 DEF NoLostWakeup
<1>9. PendingIsDriven' BY DEF PendingIsDriven
<1> QED BY <1>4, <1>5, <1>6, <1>7, <1>8, <1>9 DEF Base

\* perform_with_scheduler up to the block.
LEMMA EnterBase ==
  ASSUME Base, NEW e \in Easies, Enter(e), UNCHANGED faults
  PROVE  Base'
<1>0. TypeOK /\ Shape /\ Source /\ WokenRunFirst /\ NoLostWakeup BY DEF Base
<1>1. /\ waiting' = waiting \cup {e} /\ completed' = completed \ {e} /\ done' = done \ {e}
      /\ failure' = [failure EXCEPT ![e] = None]
      /\ pending' = Append(pending, e)
      /\ pc' = [pc EXCEPT ![e] = "blocked"]
      /\ performs' = [performs EXCEPT ![e] = @ + 1]
      /\ result' = [result EXCEPT ![e] = None]
      /\ threw' = [threw EXCEPT ![e] = "nothing"]
      /\ UNCHANGED <<requests, finished, deferred, sourceId, final, completing>>
      /\ driver \in YieldPoints
  BY DEF Enter, multiVars, Turn
<1>2. pending' \in Seq(Easies) /\ pending' # <<>> /\ Len(pending') \in Nat
  BY <1>0, <1>1, AppendFacts DEF TypeOK
<1>3. /\ driver' \in {driver, "gather"} /\ driver' # "off" /\ gathered' \in Nat /\ error' = None
      /\ driver' = driver \/ driver = "off"
  <2>1. PICK q : q = pending' OBVIOUS
  <2>2. EnsureDriver(q) BY <2>1 DEF Enter
  <2> QED BY <1>0, <1>2, <2>1, <2>2 DEF EnsureDriver, TypeOK, Shape
<1>4. TypeOK'
  <2>1. performs' \in [Easies -> Nat] BY <1>0, <1>1 DEF TypeOK
  <2>2. /\ failure' \in [Easies -> Exceptions \cup {None}]
        /\ result' \in [Easies -> Exceptions \cup {Returned, Cancelled, None}]
    BY <1>0, <1>1 DEF TypeOK
  <2>3. /\ pc' \in [Easies -> {"idle", "blocked", "woken", "leaving"}]
        /\ threw' \in [Easies -> {"nothing", "stashed", "dropped"}]
    BY <1>0, <1>1 DEF TypeOK
  <2> QED BY <1>0, <1>1, <1>2, <1>3, <2>1, <2>2, <2>3 DEF TypeOK, YieldPoints
<1>5. \A f \in Easies : f # e => /\ pc'[f] = pc[f] /\ failure'[f] = failure[f]
                                 /\ result'[f] = result[f]
  BY <1>0, <1>1 DEF TypeOK
<1>6. pc'[e] = "blocked" /\ failure'[e] = None /\ result'[e] = None
  BY <1>0, <1>1 DEF TypeOK
<1>7. Shape' BY <1>0, <1>1, <1>3, <1>5, <1>6 DEF Shape
<1>8. Source' BY <1>0, <1>1, <1>3 DEF Source
<1>9. WokenRunFirst' BY <1>0, <1>1, <1>3, <1>5, <1>6 DEF WokenRunFirst
<1>10. NoLostWakeup' BY <1>0, <1>1, <1>3, <1>5, <1>6 DEF NoLostWakeup
<1>11. PendingIsDriven' BY <1>3 DEF PendingIsDriven
<1> QED BY <1>4, <1>7, <1>8, <1>9, <1>10, <1>11 DEF Base

\* The ensure clause of perform_with_scheduler.
LEMMA LeaveBase ==
  ASSUME Base, NEW e \in Easies, NEW how \in Exceptions \cup {Returned, Cancelled},
         Leave(e, how), UNCHANGED faults
  PROVE  Base'
<1>0. TypeOK /\ Shape /\ Source /\ WokenRunFirst /\ NoLostWakeup /\ PendingIsDriven BY DEF Base
<1>1. /\ waiting' = waiting \ {e} /\ completed' = completed \ {e} /\ done' = done \ {e}
      /\ failure' = [failure EXCEPT ![e] = None]
      /\ pc' = [pc EXCEPT ![e] = "idle"]
      /\ result' = [result EXCEPT ![e] = how]
      /\ UNCHANGED <<requests, finished, deferred, sourceId, pending, error, driver, gathered, final,
                     completing, performs, threw>>
  BY DEF Leave, multiVars, driverVars
<1>2. TypeOK'
  <2>1. /\ failure' \in [Easies -> Exceptions \cup {None}]
        /\ result' \in [Easies -> Exceptions \cup {Returned, Cancelled, None}]
        /\ pc' \in [Easies -> {"idle", "blocked", "woken", "leaving"}]
    BY <1>0, <1>1 DEF TypeOK
  <2> QED BY <1>0, <1>1, <2>1 DEF TypeOK
<1>3. \A f \in Easies : f # e => /\ pc'[f] = pc[f] /\ failure'[f] = failure[f]
                                 /\ result'[f] = result[f]
  BY <1>0, <1>1 DEF TypeOK
<1>4. pc'[e] = "idle" BY <1>0, <1>1 DEF TypeOK
<1>5. Shape' BY <1>0, <1>1, <1>3, <1>4 DEF Shape
<1>6. Source' BY <1>0, <1>1 DEF Source
<1>7. WokenRunFirst' BY <1>0, <1>1, <1>3, <1>4 DEF WokenRunFirst
<1>8. NoLostWakeup' BY <1>0, <1>1, <1>3, <1>4 DEF NoLostWakeup
<1>9. PendingIsDriven' BY <1>0, <1>1 DEF PendingIsDriven
<1> QED BY <1>2, <1>5, <1>6, <1>7, <1>8, <1>9 DEF Base

\* Of two callback exceptions the first is kept, with the id of its source.
LEMMA StashFacts ==
  ASSUME TypeOK, Source, NEW e \in Easies, Stash(e)
  PROVE  /\ deferred' \in Exceptions /\ sourceId' \in Easies
         /\ deferred' # None /\ deferred' = Exception("callback", sourceId')
         /\ IF deferred = None THEN sourceId' = e ELSE UNCHANGED <<deferred, sourceId>>
         /\ threw' \in [Easies -> {"nothing", "stashed", "dropped"}]
         /\ \A f \in Easies : threw'[f] # threw[f] =>
              f = e /\ e \in waiting /\ threw'[e] = IF deferred = None THEN "stashed" ELSE "dropped"
<1>1. Exception("callback", e) \in Exceptions BY DEF Exception, Exceptions
<1>2. IF deferred = None
      THEN deferred' = Exception("callback", e) /\ sourceId' = e
      ELSE UNCHANGED <<deferred, sourceId>>
  BY DEF Stash
<1>3. /\ deferred' \in Exceptions /\ sourceId' \in Easies
      /\ deferred' # None /\ deferred' = Exception("callback", sourceId')
  <2>1. CASE deferred = None BY <1>1, <1>2, <2>1, SchedulerAssumption
  <2>2. CASE deferred # None BY <1>2, <2>2 DEF Source, TypeOK
  <2> QED BY <2>1, <2>2
<1>4. threw' = IF e \notin waiting THEN threw
               ELSE [threw EXCEPT ![e] = IF deferred = None THEN "stashed" ELSE "dropped"]
  BY DEF Stash
<1>5. /\ threw' \in [Easies -> {"nothing", "stashed", "dropped"}]
      /\ \A f \in Easies : threw'[f] # threw[f] =>
           f = e /\ e \in waiting /\ threw'[e] = IF deferred = None THEN "stashed" ELSE "dropped"
  BY <1>4 DEF TypeOK
<1> QED BY <1>2, <1>3, <1>5

LEMMA DriverBase ==
  ASSUME Base, DriverStep, UNCHANGED faults
  PROVE  Base'
<1>0. /\ TypeOK /\ Shape /\ Source /\ WokenRunFirst
      /\ waiting \subseteq Easies /\ requests \subseteq Easies /\ finished \subseteq requests
      /\ pending \in Seq(Easies) /\ completed \subseteq waiting /\ done \subseteq completed
      /\ deferred \in Exceptions \cup {None} /\ sourceId \in Easies \cup {None}
      /\ threw \in [Easies -> {"nothing", "stashed", "dropped"}]
      /\ gathered \in Nat /\ final \in BOOLEAN /\ completing \in Easies \cup {None}
  BY DEF Base, TypeOK
<1>1. CASE Gather
  <2>1. /\ driver = "gather" /\ gathered' = Len(pending) /\ driver' \in {"top", "gather"}
        /\ UNCHANGED <<requests, finished, deferred, sourceId, pending, error, waiting, completed,
                       done, failure, final, completing, pc, performs, result, threw>>
        /\ \A e \in Easies : pc[e] # "woken"
    BY <1>1 DEF Gather, multiVars, stateVars, waiterVars, history, DriverTurn
  <2>2. Source' /\ completing = None /\ Len(pending) \in Nat BY <1>0, <2>1 DEF Source, Shape
  <2> QED BY <1>0, <2>1, <2>2, QuietBase DEF DriverPlaces
<1>2. CASE DrainAdds
  <2>1. /\ driver \in {"top", "block"} /\ pending # <<>>
        /\ requests' = requests \cup {Head(pending)} /\ pending' = Tail(pending)
        /\ UNCHANGED <<finished, deferred, sourceId, error, waiting, completed, done, failure,
                       driver, gathered, final, completing, pc, performs, result, threw>>
    BY <1>2 DEF DrainAdds, DrainWouldAdd, waiterVars, driverVars, history
  <2>2. Head(pending) \in Easies /\ Tail(pending) \in Seq(Easies) BY <1>0, <2>1, TailFacts
  <2>3. Source' /\ completing = None BY <1>0, <2>1 DEF Source, Shape
  <2>4. \A e \in Easies : pc[e] = "woken" =>
          driver \notin {"info", "callback", "block"} /\ (driver \in {"top", "prime"} => e \in done)
    BY <1>0 DEF WokenRunFirst
  <2> QED BY <1>0, <2>1, <2>2, <2>3, <2>4, QuietBase DEF DriverPlaces
<1>3. CASE DrainRaises
  <2>1. /\ driver \in {"top", "block"} /\ pending # <<>>
        /\ DriverFails(Exception("setup", Head(pending)))
        /\ UNCHANGED <<requests, finished, deferred, sourceId, pending, waiting, completed,
                       performs, result, threw>>
    BY <1>3 DEF DrainRaises, DrainWouldAdd, multiVars, history
  <2>2. Exception("setup", Head(pending)) \in Exceptions
    BY <1>0, <2>1, TailFacts DEF Exception, Exceptions
  <2>3. \A e \in Easies : pc[e] = "woken" => e \in done BY <1>0, <2>1 DEF WokenRunFirst
  <2> QED BY <2>1, <2>2, <2>3, FailBase
<1>4. CASE TopIdle
  <2>1. /\ driver = "top" /\ DriverEnds(error)
        /\ UNCHANGED <<requests, finished, deferred, sourceId, pending, error, waiting, completed,
                       done, failure, final, completing, pc, performs, result, threw>>
    BY <1>4 DEF TopIdle, multiVars, stateVars, waiterVars, history
  <2>2. /\ driver' \in {"off", "gather"} /\ gathered' \in Nat
        /\ driver' = "off" => error # None \/ pending = <<>>
    BY <1>0, <2>1, DriverEndsFacts
  <2>3. Source' /\ completing = None /\ error = None BY <1>0, <2>1, <2>2 DEF Source, Shape
  <2> QED BY <1>0, <2>1, <2>2, <2>3, QuietBase DEF DriverPlaces
<1>5. CASE TopPerforms
  <2>1. /\ driver = "top" /\ driver' = "prime"
        /\ sourceId' = IF deferred = None THEN None ELSE sourceId
        /\ UNCHANGED <<requests, finished, deferred, pending, error, waiting, completed, done,
                       failure, gathered, final, completing, pc, performs, result, threw>>
    BY <1>5 DEF TopPerforms, stateVars, waiterVars, history
  <2>2. Source' /\ completing = None BY <1>0, <2>1 DEF Source, Shape
  <2>3. \A e \in Easies : pc[e] = "woken" => e \in done BY <1>0, <2>1 DEF WokenRunFirst
  <2> QED BY <1>0, <2>1, <2>2, <2>3, QuietBase DEF DriverPlaces
<1>6. CASE Drive
  <2>1. /\ driver \in {"prime", "yield"} /\ driver' = "info" /\ final' = FALSE
        /\ finished' \subseteq requests /\ \A e \in Easies : pc[e] # "woken"
        /\ UNCHANGED <<requests, deferred, sourceId, pending, error, waiting, completed, done,
                       failure, gathered, completing, pc, performs, result, threw>>
    BY <1>6 DEF Drive, stateVars, waiterVars, history, DriverTurn
  <2>2. Source' /\ completing = None BY <1>0, <2>1 DEF Source, Shape
  <2> QED BY <1>0, <2>1, <2>2, QuietBase DEF DriverPlaces
<1>7. CASE DriveRaises
  <2>1. /\ driver \in {"prime", "yield"} /\ DriverFails(Exception("drive", None))
        /\ \A e \in Easies : pc[e] # "woken"
        /\ UNCHANGED <<requests, finished, deferred, sourceId, pending, waiting, completed,
                       performs, result, threw>>
    BY <1>7 DEF DriveRaises, multiVars, history, DriverTurn
  <2>2. Exception("drive", None) \in Exceptions BY DEF Exception, Exceptions
  <2> QED BY <2>1, <2>2, FailBase
<1>8. ASSUME NEW e \in Easies, NEW raised \in BOOLEAN, HandleComplete(e, raised) PROVE Base'
  <2>1. /\ driver = "info" /\ e \in finished /\ driver' = "callback" /\ completing' = e
        /\ requests' = requests \ {e} /\ finished' = finished \ {e}
        /\ IF raised THEN Stash(e) ELSE UNCHANGED <<deferred, sourceId, threw>>
        /\ UNCHANGED <<pending, error, waiting, completed, done, failure, gathered, final, pc,
                       performs, result>>
    BY <1>8 DEF HandleComplete, stateVars, waiterVars
  <2>2. /\ deferred' \in Exceptions \cup {None} /\ sourceId' \in Easies \cup {None}
        /\ threw' \in [Easies -> {"nothing", "stashed", "dropped"}] /\ Source'
    <3>1. CASE raised BY <1>0, <2>1, <3>1, StashFacts DEF Source
    <3>2. CASE ~raised BY <1>0, <2>1, <3>2 DEF Source
    <3> QED BY <3>1, <3>2
  <2>3. \A f \in Easies : pc[f] # "woken" BY <1>0, <2>1 DEF WokenRunFirst
  <2>4. e # None BY SchedulerAssumption
  <2> QED BY <1>0, <2>1, <2>2, <2>3, <2>4, QuietBase DEF DriverPlaces
<1>9. ASSUME NEW how \in Outcomes, CallbacksEnd(how) PROVE Base'
  <2>1. /\ driver = "callback" /\ driver' = "info" /\ completing' = None
        /\ completed' = completed \cup MarkedOnReturn(completing, how)
        /\ Stash(completing) \/ UNCHANGED <<deferred, sourceId, threw>>
        /\ UNCHANGED <<requests, finished, pending, error, waiting, done, failure, gathered,
                       final, pc, performs, result>>
    BY <1>9 DEF CallbacksEnd
  <2>2. completing \in Easies BY <1>0, <2>1 DEF Shape
  <2>3. /\ deferred' \in Exceptions \cup {None} /\ sourceId' \in Easies \cup {None}
        /\ threw' \in [Easies -> {"nothing", "stashed", "dropped"}] /\ Source'
    <3>1. CASE Stash(completing) BY <1>0, <2>1, <2>2, <3>1, StashFacts DEF Source
    <3>2. CASE UNCHANGED <<deferred, sourceId, threw>> BY <1>0, <2>1, <3>2 DEF Source
    <3> QED BY <2>1, <3>1, <3>2
  <2>4. \A f \in Easies : pc[f] # "woken" BY <1>0, <2>1 DEF WokenRunFirst
  <2>5. completed' \subseteq waiting /\ done \subseteq completed'
    BY <1>0, <2>1 DEF MarkedOnReturn
  <2> QED BY <1>0, <2>1, <2>3, <2>4, <2>5, QuietBase DEF DriverPlaces
<1>10. CASE InfoRaises
  <2>1. /\ driver = "info" /\ deferred # None /\ deferred' = None /\ DriverFails(deferred)
        /\ UNCHANGED <<requests, finished, sourceId, pending, waiting, completed, performs, result,
                       threw>>
    BY <1>10 DEF InfoRaises, history
  <2>2. \A e \in Easies : pc[e] # "woken" BY <1>0, <2>1 DEF WokenRunFirst
  <2> QED BY <1>0, <2>1, <2>2, FailBase
<1>11. CASE InfoEnds
  <2>1. /\ driver = "info" /\ driver' = "block"
        /\ UNCHANGED <<requests, finished, deferred, sourceId, pending, error, waiting, completed,
                       done, failure, gathered, final, completing, pc, performs, result, threw>>
    BY <1>11 DEF InfoEnds, multiVars, stateVars, waiterVars, history
  <2>2. Source' /\ completing = None BY <1>0, <2>1 DEF Source, Shape
  <2>3. \A e \in Easies : pc[e] # "woken" BY <1>0, <2>1 DEF WokenRunFirst
  <2> QED BY <1>0, <2>1, <2>2, <2>3, QuietBase DEF DriverPlaces
<1>12. CASE BlockYields
  <2>1. /\ driver = "block" /\ driver' = "yield" /\ \A e \in Easies : pc[e] # "woken"
    BY <1>0, <1>12 DEF BlockYields, WokenRunFirst
  <2>2. /\ done' = done \cup Released /\ pc' = Wake(Released) /\ final' \in BOOLEAN
        /\ UNCHANGED <<multiVars, pending, error, waiting, completed, failure, gathered,
                       completing, history>>
    BY <1>0, <1>12 DEF BlockYields
  <2> QED BY <2>1, <2>2, ReleaseBase
<1>13. CASE YieldFinal
  <2>1. /\ driver = "yield" /\ driver' = "info" /\ final' = TRUE
        /\ \A e \in Easies : pc[e] # "woken"
        /\ UNCHANGED <<requests, finished, deferred, sourceId, pending, error, waiting, completed,
                       done, failure, gathered, completing, pc, performs, result, threw>>
    BY <1>13 DEF YieldFinal, multiVars, stateVars, waiterVars, history, DriverTurn
  <2>2. Source' /\ completing = None BY <1>0, <2>1 DEF Source, Shape
  <2> QED BY <1>0, <2>1, <2>2, QuietBase DEF DriverPlaces
<1>14. CASE PerformReturns
  <2>1. /\ driver = "yield" /\ driver' = "top" /\ \A e \in Easies : pc[e] # "woken"
    BY <1>14 DEF PerformReturns, DriverTurn
  <2>2. /\ done' = done \cup Released /\ pc' = Wake(Released) /\ final' \in BOOLEAN
        /\ UNCHANGED <<multiVars, pending, error, waiting, completed, failure, gathered,
                       completing, history>>
    BY <1>14 DEF PerformReturns
  <2> QED BY <2>1, <2>2, ReleaseBase
<1> QED
  BY <1>1, <1>2, <1>3, <1>4, <1>5, <1>6, <1>7, <1>8, <1>9, <1>10, <1>11, <1>12, <1>13, <1>14
     DEF DriverStep

LEMMA FiberBase ==
  ASSUME Base, NEW e \in Easies, FiberStep(e), UNCHANGED faults
  PROVE  Base'
<1>0. TypeOK /\ Shape /\ Source /\ WokenRunFirst /\ NoLostWakeup /\ PendingIsDriven BY DEF Base
<1>1. CASE Enter(e) BY <1>1, EnterBase
<1>2. CASE ResumeRaises(e)
  <2>1. (IF failure[e] # None THEN failure[e] ELSE error) \in Exceptions
    BY <1>0, <1>2 DEF ResumeRaises, TypeOK
  <2> QED BY <1>2, <2>1, LeaveBase DEF ResumeRaises
<1>3. CASE Return(e) BY <1>3, LeaveBase DEF Return
<1>4. CASE Cancel(e) BY <1>4, LeaveBase DEF Cancel
<1>5. CASE ResumeDone(e) \/ ResumeBlocks(e)
  <2>1. \/ pc' = [pc EXCEPT ![e] = "leaving"] /\ e \in done
        \/ pc' = [pc EXCEPT ![e] = "blocked"] /\ e \notin done /\ failure[e] = None /\ error = None
    BY <1>5 DEF ResumeDone, ResumeBlocks
  <2>2. /\ pc[e] = "woken"
        /\ UNCHANGED <<requests, finished, deferred, sourceId, pending, error, waiting, completed,
                       done, failure, driver, gathered, final, completing, performs, result, threw>>
    BY <1>5 DEF ResumeDone, ResumeBlocks, multiVars, stateVars, waiterVars, driverVars, history
  <2>3. /\ pc' \in [Easies -> {"idle", "blocked", "woken", "leaving"}]
        /\ \A f \in Easies : f # e => pc'[f] = pc[f]
        /\ (pc'[e] = "leaving" /\ e \in done)
             \/ (pc'[e] = "blocked" /\ e \notin done /\ failure[e] = None /\ error = None)
    BY <1>0, <2>1 DEF TypeOK
  <2>4. TypeOK' BY <1>0, <2>2, <2>3 DEF TypeOK
  <2>5. Shape' BY <1>0, <2>2, <2>3 DEF Shape
  <2>6. Source' BY <1>0, <2>2 DEF Source
  <2>7. WokenRunFirst' BY <1>0, <2>2, <2>3 DEF WokenRunFirst
  <2>8. NoLostWakeup' BY <1>0, <2>2, <2>3 DEF NoLostWakeup
  <2>9. PendingIsDriven' BY <1>0, <2>2 DEF PendingIsDriven
  <2> QED BY <2>4, <2>5, <2>6, <2>7, <2>8, <2>9 DEF Base
<1> QED BY <1>1, <1>2, <1>3, <1>4, <1>5 DEF FiberStep

LEMMA BaseInvariant == Spec => []Base
<1>1. Init => Base
  <2> SUFFICES ASSUME Init PROVE Base OBVIOUS
  <2>1. /\ failure \in [Easies -> Exceptions \cup {None}]
        /\ pc \in [Easies -> {"idle", "blocked", "woken", "leaving"}]
        /\ performs \in [Easies -> Nat]
        /\ result \in [Easies -> Exceptions \cup {Returned, Cancelled, None}]
        /\ threw \in [Easies -> {"nothing", "stashed", "dropped"}]
    BY DEF Init
  <2>2. pending = <<>> /\ pending \in Seq(Easies) BY DEF Init
  <2>3. TypeOK BY <2>1, <2>2 DEF Init, TypeOK, YieldPoints
  <2> QED BY <2>2, <2>3 DEF Init, Base, Shape, Source, WokenRunFirst, NoLostWakeup, PendingIsDriven
<1>2. Base /\ [Next]_<<vars, faults>> => Base'
  <2> SUFFICES ASSUME Base, [Next]_<<vars, faults>> PROVE Base' OBVIOUS
  <2>1. CASE Next BY <2>1, DriverBase, FiberBase DEF Next
  <2>2. CASE UNCHANGED <<vars, faults>>
    BY <2>2 DEF vars, multiVars, stateVars, waiterVars, driverVars, history, Base, TypeOK, Shape,
                Source, WokenRunFirst, NoLostWakeup, PendingIsDriven
  <2> QED BY <2>1, <2>2
<1> QED BY <1>1, <1>2, PTL DEF Spec

-----------------------------------------------------------------------------
(***************************************************************************)
(* The second part: a request is in one place.  What the shared multi      *)
(* transfers has not completed, and neither has what is queued, as far as  *)
(* a drain can reach it; except within a drain nothing of that is in the   *)
(* multi already.  A fiber that was cancelled and performs again may have  *)
(* its easy in the queue twice; one drain takes both.                      *)
(***************************************************************************)

InMulti == {e \in Easies : e \in requests \/ e = completing}

\* No easy up to this place of the queue is refused.
Clear(i) == \A j \in 1 .. i : ~Refused(pending[j])

Draining == driver \in {"top", "block"} /\ deferred = None

Apart == \A i \in 1 .. Len(pending) : Clear(i) => pending[i] \notin InMulti

Fresh == \A i \in 1 .. Len(pending) : Clear(i) => pending[i] \notin completed

Separate ==
  /\ completing \notin requests
  /\ \A e \in InMulti : e \notin completed
  /\ Fresh
  /\ Draining \/ Apart

\* A step that adds neither to the queue nor to the multi.
LEMMA SeparateKept ==
  ASSUME Separate, UNCHANGED <<pending, faults>>, completing' \notin requests',
         InMulti' \subseteq InMulti, completed' \subseteq completed, Apart
  PROVE  Separate'
<1>1. \A i : Clear(i)' <=> Clear(i) BY DEF Clear, Refused
<1>2. Apart' BY <1>1 DEF Apart
<1>3. Fresh' BY <1>1 DEF Fresh, Separate
<1> QED BY <1>2, <1>3 DEF Separate

\* A queue that a drain has emptied, or cannot touch, is apart from the multi.
LEMMA DrainedApart ==
  ASSUME Separate, ~DrainWouldAdd \/ Refused(Head(pending)), TypeOK
  PROVE  Apart
<1>0. pending \in Seq(Easies) BY DEF TypeOK
<1>1. CASE pending = <<>>
  <2>1. Len(pending) = 0 BY <1>1
  <2> QED BY <2>1 DEF Apart
<1>2. CASE pending # <<>> /\ deferred # None BY <1>2 DEF Separate, Draining
<1>3. CASE pending # <<>> /\ Refused(Head(pending))
  <2>1. Refused(pending[1]) BY <1>0, <1>3, TailFacts
  <2>2. \A i \in 1 .. Len(pending) : 1 \in 1 .. i BY <1>0
  <2> QED BY <2>1, <2>2 DEF Apart, Clear
<1> QED BY <1>1, <1>2, <1>3 DEF DrainWouldAdd

LEMMA SeparateEnter ==
  ASSUME Base, Separate, NEW e \in Easies, Enter(e), UNCHANGED faults
  PROVE  Separate'
<1>0. TypeOK /\ pending \in Seq(Easies) BY DEF Base, TypeOK
<1>1. /\ completed' = completed \ {e} /\ pending' = Append(pending, e)
      /\ UNCHANGED <<requests, completing, deferred>> /\ e \notin InMulti
      /\ driver \in YieldPoints
  BY DEF Enter, multiVars, Turn, InMulti
<1>2. Apart /\ Fresh BY <1>1 DEF Separate, Draining, YieldPoints
<1>3. /\ Len(pending') = Len(pending) + 1 /\ Len(pending) \in Nat
      /\ \A i \in 1 .. Len(pending) : pending'[i] = pending[i]
      /\ pending'[Len(pending) + 1] = e
  BY <1>0, <1>1, AppendFacts
<1>4. \A i \in 1 .. Len(pending) : Clear(i)' => Clear(i)
  <2> SUFFICES ASSUME NEW i \in 1 .. Len(pending), Clear(i)' PROVE Clear(i) OBVIOUS
  <2>1. \A j \in 1 .. i : ~("setup" \in faults' /\ pending'[j] \in Unsettable)
    BY DEF Clear, Refused
  <2>2. \A j \in 1 .. i : pending'[j] = pending[j] BY <1>3
  <2> QED BY <2>1, <2>2 DEF Clear, Refused
<1>5. \A i \in 1 .. Len(pending') : i \in 1 .. Len(pending) \/ pending'[i] = e BY <1>3
<1>6. InMulti' = InMulti BY <1>1 DEF InMulti
<1>7. Apart' BY <1>1, <1>2, <1>3, <1>4, <1>5, <1>6 DEF Apart
<1>8. Fresh' BY <1>1, <1>2, <1>3, <1>4, <1>5 DEF Fresh
<1> QED BY <1>1, <1>6, <1>7, <1>8 DEF Separate

LEMMA SeparateDrain ==
  ASSUME Base, Separate, DrainAdds, UNCHANGED faults
  PROVE  Separate'
<1>0. TypeOK /\ pending \in Seq(Easies) /\ Shape BY DEF Base, TypeOK
<1>1. /\ driver \in {"top", "block"} /\ pending # <<>> /\ deferred = None
      /\ requests' = requests \cup {Head(pending)} /\ pending' = Tail(pending)
      /\ ~Refused(Head(pending))
      /\ UNCHANGED <<deferred, completed, driver, completing>>
  BY DEF DrainAdds, DrainWouldAdd, waiterVars, driverVars
<1>2. completing = None /\ None \notin Easies BY <1>0, <1>1, SchedulerAssumption DEF Shape
<1>3. /\ Head(pending) = pending[1] /\ Head(pending) \in Easies /\ Len(pending) \in Nat
      /\ Len(pending) >= 1 /\ Len(pending') = Len(pending) - 1
      /\ \A i \in 1 .. Len(pending') : pending'[i] = pending[i + 1]
  BY <1>0, <1>1, TailFacts
<1>4. \A i \in 1 .. Len(pending') : Clear(i)' => Clear(i + 1)
  <2> SUFFICES ASSUME NEW i \in 1 .. Len(pending'), Clear(i)', NEW j \in 1 .. i + 1
               PROVE  ~Refused(pending[j])
    BY DEF Clear
  <2>1. CASE j = 1 BY <1>1, <1>3, <2>1
  <2>2. CASE j # 1
    <3>1. j - 1 \in 1 .. i /\ j - 1 \in 1 .. Len(pending') /\ (j - 1) + 1 = j BY <1>3, <2>2
    <3>2. pending'[j - 1] = pending[j] BY <1>3, <3>1
    <3>3. ~("setup" \in faults' /\ pending'[j - 1] \in Unsettable)
      BY <3>1 DEF Clear, Refused
    <3> QED BY <3>2, <3>3 DEF Refused
  <2> QED BY <2>1, <2>2
<1>5. Fresh' BY <1>1, <1>3, <1>4 DEF Fresh, Separate
<1>6. Head(pending) \notin completed
  <2>1. Clear(1) /\ 1 \in 1 .. Len(pending) BY <1>1, <1>3 DEF Clear
  <2> QED BY <1>3, <2>1 DEF Fresh, Separate
<1>7. \A e \in InMulti' : e \notin completed' BY <1>1, <1>6 DEF InMulti, Separate
<1>8. completing' \notin requests' BY <1>1, <1>2, <1>3 DEF Separate
<1> QED BY <1>1, <1>5, <1>7, <1>8 DEF Separate, Draining

LEMMA SeparateCallbacks ==
  ASSUME Base, Separate, NEW how, CallbacksEnd(how), UNCHANGED faults
  PROVE  Separate'
<1>0. TypeOK /\ Shape /\ None \notin Easies BY SchedulerAssumption DEF Base
<1>1. /\ driver = "callback" /\ driver' = "info" /\ completing' = None
      /\ completed' \subseteq completed \cup {completing}
      /\ UNCHANGED <<requests, pending>>
  BY DEF CallbacksEnd, MarkedOnReturn
<1>2. completing \in Easies BY <1>0, <1>1 DEF Shape, TypeOK
<1>3. Apart /\ Fresh /\ completing \notin requests BY <1>1 DEF Separate, Draining
<1>4. InMulti' = InMulti \ {completing} BY <1>0, <1>1, <1>3 DEF InMulti
<1>5. \A i : Clear(i)' <=> Clear(i) BY <1>1 DEF Clear, Refused
<1>6. Apart' BY <1>1, <1>3, <1>4, <1>5 DEF Apart
<1>7. Fresh' BY <1>1, <1>2, <1>3, <1>5 DEF Fresh, Apart, InMulti
<1>8. \A e \in InMulti' : e \notin completed' BY <1>1, <1>4 DEF Separate
<1>9. completing' \notin requests' BY <1>0, <1>1 DEF TypeOK
<1> QED BY <1>6, <1>7, <1>8, <1>9 DEF Separate

LEMMA SeparateStep ==
  ASSUME Base, Separate, [Next]_<<vars, faults>>
  PROVE  Separate'
<1>0. TypeOK /\ Shape BY DEF Base
<1>1. ASSUME UNCHANGED <<pending, requests, completing, faults>>, completed' \subseteq completed, Apart
      PROVE  Separate'
  <2>1. InMulti' \subseteq InMulti /\ completing' \notin requests'
    BY <1>1 DEF InMulti, Separate
  <2> QED BY <1>1, <2>1, SeparateKept
<1>2. ASSUME NEW e \in Easies, FiberStep(e), UNCHANGED faults PROVE Separate'
  <2>1. CASE Enter(e) BY <1>2, <2>1, SeparateEnter
  <2>2. CASE ~Enter(e)
    <3>1. driver \in YieldPoints /\ UNCHANGED <<pending, requests, completing>>
          /\ completed' \subseteq completed
      BY <1>2, <2>2 DEF FiberStep, ResumeDone, ResumeRaises, ResumeBlocks, Return, Cancel, Leave,
                        Turn, multiVars, stateVars, waiterVars, driverVars
    <3>2. Apart BY <3>1 DEF Separate, Draining, YieldPoints
    <3> QED BY <1>1, <1>2, <3>1, <3>2
  <2> QED BY <2>1, <2>2
<1>3. ASSUME DriverStep, UNCHANGED faults PROVE Separate'
  <2>1. CASE DrainAdds BY <1>3, <2>1, SeparateDrain
  <2>2. CASE \E how \in Outcomes : CallbacksEnd(how) BY <1>3, <2>2, SeparateCallbacks
  <2>3. CASE Gather \/ Drive \/ InfoEnds \/ YieldFinal \/ PerformReturns
    <3>1. /\ driver \notin {"top", "block"}
          /\ UNCHANGED <<pending, requests, completing, completed>>
      BY <2>3 DEF Gather, Drive, InfoEnds, YieldFinal, PerformReturns, multiVars, stateVars,
                  waiterVars, driverVars
    <3> QED BY <1>1, <1>3, <3>1 DEF Separate, Draining
  <2>4. CASE DriveRaises \/ InfoRaises
    <3>1. /\ driver \notin {"top", "block"}
          /\ UNCHANGED <<pending, requests, completing, completed>>
      BY <2>4 DEF DriveRaises, InfoRaises, DriverFails, multiVars
    <3> QED BY <1>1, <1>3, <3>1 DEF Separate, Draining
  <2>5. CASE TopIdle \/ TopPerforms \/ BlockYields \/ DrainRaises
    <3>1. /\ ~DrainWouldAdd \/ Refused(Head(pending))
          /\ UNCHANGED <<pending, requests, completing, completed>>
      BY <2>5 DEF TopIdle, TopPerforms, BlockYields, DrainRaises, DriverFails, multiVars,
                  stateVars, waiterVars, driverVars
    <3> QED BY <1>0, <1>1, <1>3, <3>1, DrainedApart
  <2>6. ASSUME NEW e \in Easies, NEW raised \in BOOLEAN, HandleComplete(e, raised) PROVE Separate'
    <3>1. /\ driver = "info" /\ e \in requests /\ completing' = e
          /\ requests' = requests \ {e} /\ UNCHANGED <<pending, completed>>
      BY <1>0, <2>6 DEF HandleComplete, stateVars, waiterVars, TypeOK
    <3>2. InMulti' \subseteq InMulti /\ completing' \notin requests' BY <3>1 DEF InMulti
    <3>3. Apart BY <3>1 DEF Separate, Draining
    <3> QED BY <1>3, <3>1, <3>2, <3>3, SeparateKept
  <2> QED BY <1>3, <2>1, <2>2, <2>3, <2>4, <2>5, <2>6 DEF DriverStep
<1>4. CASE UNCHANGED <<vars, faults>>
  <2>1. UNCHANGED <<pending, requests, completing, completed, driver, deferred, faults>>
    BY <1>4 DEF vars, multiVars, stateVars, waiterVars, driverVars
  <2> QED BY <2>1 DEF Separate, Draining, Apart, Fresh, InMulti, Clear, Refused
<1> QED BY <1>2, <1>3, <1>4 DEF Next

LEMMA SeparateInvariant == Spec => []Separate
<1>1. Init => Separate
  <2> SUFFICES ASSUME Init PROVE Separate OBVIOUS
  <2>1. requests = {} /\ completed = {} /\ completing = None /\ Len(pending) = 0 BY DEF Init
  <2>2. Apart /\ Fresh BY <2>1 DEF Apart, Fresh
  <2> QED BY <2>1, <2>2 DEF Separate
<1>2. Base /\ Separate /\ [Next]_<<vars, faults>> => Separate' BY SeparateStep
<1> QED BY <1>1, <1>2, BaseInvariant, PTL DEF Spec

-----------------------------------------------------------------------------
(***************************************************************************)
(* The third part: the waiter of the originator.  Its fiber is not done,   *)
(* and either has the exception or is the source of the one that is        *)
(* deferred, so no release can reach it before.                            *)
(***************************************************************************)

Stashed ==
  \A e \in Easies : threw[e] = "stashed" /\ e \in waiting =>
    e \notin done /\ (failure[e] # None \/ (deferred # None /\ sourceId = e))

NotReturned == \A e \in Easies : result[e] = Returned => threw[e] # "stashed"

\* When waiters are released the originator is asleep and exempt.
LEMMA OriginatorSleeps ==
  ASSUME Base, Stashed, \A e \in Easies : pc[e] = "woken" => e \in done,
         NEW e \in Easies, threw[e] = "stashed", e \in waiting
  PROVE  /\ e \notin done \cup Released /\ failure[e] = None
         /\ deferred # None /\ sourceId = e
<1>1. e \notin done /\ (failure[e] # None \/ (deferred # None /\ sourceId = e)) BY DEF Stashed
<1>2. pc[e] = "blocked" BY <1>1 DEF Base, TypeOK, Shape
<1>3. failure[e] = None BY <1>2 DEF Base, NoLostWakeup
<1> QED BY <1>1, <1>3 DEF Released, Originator

LEMMA FailStashed ==
  ASSUME Base, Stashed, NEW x \in Exceptions, DriverFails(x), driver # "off",
         \A e \in Easies : pc[e] = "woken" => e \in done, UNCHANGED <<waiting, threw>>
  PROVE  Stashed'
<1>0. TypeOK /\ Shape /\ x # None BY SchedulerAssumption DEF Base
<1>1. done' = done \cup Released /\ (ToOriginator(x) \/ ToEveryone(x)) BY <1>0, DriverFailsFacts
<1> SUFFICES ASSUME NEW e \in Easies, threw[e] = "stashed", e \in waiting
             PROVE  e \notin done' /\ failure'[e] # None
  BY DEF Stashed
<1>2. e \notin done \cup Released /\ failure[e] = None /\ sourceId = e BY OriginatorSleeps
<1>3. ToOriginator(x) BY <1>1, <1>2 DEF ToEveryone
<1>4. failure'[e] = x BY <1>2, <1>3 DEF ToOriginator
<1> QED BY <1>0, <1>1, <1>2, <1>4

LEMMA StashStashed ==
  ASSUME Base, Separate, Stashed, NEW e \in InMulti, Stash(e), UNCHANGED <<waiting, done, failure>>
  PROVE  Stashed'
<1>0. TypeOK /\ Source /\ e \in Easies /\ e \notin done
  BY DEF Base, InMulti, Separate, TypeOK
<1>1. /\ deferred' # None
      /\ IF deferred = None THEN sourceId' = e ELSE UNCHANGED <<deferred, sourceId>>
      /\ \A f \in Easies : threw'[f] # threw[f] =>
           f = e /\ e \in waiting /\ threw'[e] = IF deferred = None THEN "stashed" ELSE "dropped"
  BY <1>0, StashFacts
<1> SUFFICES ASSUME NEW f \in Easies, threw'[f] = "stashed", f \in waiting
             PROVE  f \notin done /\ (failure[f] # None \/ (deferred' # None /\ sourceId' = f))
  BY DEF Stashed
<1>2. CASE threw'[f] # threw[f]
  <2>1. f = e /\ deferred = None BY <1>1, <1>2
  <2> QED BY <1>0, <1>1, <2>1
<1>3. CASE threw'[f] = threw[f]
  <2>1. f \notin done /\ (failure[f] # None \/ (deferred # None /\ sourceId = f))
    BY <1>3 DEF Stashed
  <2> QED BY <1>1, <2>1
<1> QED BY <1>2, <1>3

LEMMA StashedStep ==
  ASSUME Base, Separate, Stashed, [Next]_<<vars, faults>>
  PROVE  Stashed'
<1>0. TypeOK /\ Shape /\ WokenRunFirst BY DEF Base
<1>1. ASSUME UNCHANGED <<waiting, done, failure, threw, deferred>>,
             deferred # None => UNCHANGED sourceId
      PROVE  Stashed'
  BY <1>1 DEF Stashed
<1>2. ASSUME NEW e \in Easies, FiberStep(e) PROVE Stashed'
  <2>1. CASE Enter(e)
    <3>1. /\ waiting' = waiting \cup {e} /\ done' = done \ {e}
          /\ \A f \in Easies : f # e => failure'[f] = failure[f] /\ threw'[f] = threw[f]
          /\ threw'[e] = "nothing" /\ UNCHANGED <<deferred, sourceId>>
      BY <1>0, <2>1 DEF Enter, multiVars, TypeOK
    <3> QED BY <3>1 DEF Stashed
  <2>2. CASE ResumeRaises(e) \/ Return(e) \/ Cancel(e)
    <3>1. /\ waiting' = waiting \ {e} /\ done' = done \ {e}
          /\ failure' = [failure EXCEPT ![e] = None] /\ UNCHANGED <<deferred, sourceId, threw>>
      BY <2>2 DEF ResumeRaises, Return, Cancel, Leave, multiVars
    <3>2. \A f \in Easies : f # e => failure'[f] = failure[f] BY <1>0, <3>1 DEF TypeOK
    <3> QED BY <3>1, <3>2 DEF Stashed
  <2>3. CASE ResumeDone(e) \/ ResumeBlocks(e)
    BY <1>1, <2>3 DEF ResumeDone, ResumeBlocks, multiVars, stateVars, waiterVars, history
  <2> QED BY <1>2, <2>1, <2>2, <2>3 DEF FiberStep
<1>3. ASSUME DriverStep PROVE Stashed'
  <2>1. CASE Gather \/ DrainAdds \/ TopIdle \/ TopPerforms \/ Drive \/ InfoEnds \/ YieldFinal
    BY <1>1, <2>1 DEF Gather, DrainAdds, TopIdle, TopPerforms, Drive, InfoEnds, YieldFinal,
                      multiVars, stateVars, waiterVars, history
  <2>2. CASE DrainRaises
    <3>1. /\ driver \in {"top", "block"} /\ pending # <<>> /\ UNCHANGED <<waiting, threw>>
          /\ DriverFails(Exception("setup", Head(pending)))
      BY <2>2 DEF DrainRaises, DrainWouldAdd, history
    <3>2. Exception("setup", Head(pending)) \in Exceptions
      BY <1>0, <3>1, TailFacts DEF TypeOK, Exception, Exceptions
    <3>3. \A e \in Easies : pc[e] = "woken" => e \in done BY <1>0, <3>1 DEF WokenRunFirst
    <3> QED BY <3>1, <3>2, <3>3, FailStashed
  <2>3. CASE DriveRaises
    <3>1. /\ driver # "off" /\ DriverFails(Exception("drive", None)) /\ UNCHANGED <<waiting, threw>>
          /\ \A e \in Easies : pc[e] # "woken"
      BY <2>3 DEF DriveRaises, history, DriverTurn
    <3>2. Exception("drive", None) \in Exceptions BY DEF Exception, Exceptions
    <3> QED BY <3>1, <3>2, FailStashed
  <2>4. CASE InfoRaises
    <3>1. /\ driver = "info" /\ deferred \in Exceptions /\ DriverFails(deferred)
          /\ UNCHANGED <<waiting, threw>>
      BY <1>0, <2>4 DEF InfoRaises, history, TypeOK
    <3>2. \A e \in Easies : pc[e] # "woken" BY <1>0, <3>1 DEF WokenRunFirst
    <3> QED BY <3>1, <3>2, FailStashed
  <2>5. CASE BlockYields \/ PerformReturns
    <3>1. /\ done' = done \cup Released
          /\ UNCHANGED <<waiting, failure, threw, deferred, sourceId>>
      BY <2>5 DEF BlockYields, PerformReturns, multiVars, history
    <3>2. \A e \in Easies : pc[e] # "woken"
      BY <1>0, <2>5 DEF BlockYields, PerformReturns, DriverTurn, WokenRunFirst
    <3>3. \A e \in Easies : threw[e] = "stashed" /\ e \in waiting => e \notin done \cup Released
      BY <3>2, OriginatorSleeps
    <3> QED BY <3>1, <3>3 DEF Stashed
  <2>6. ASSUME NEW e \in Easies, NEW raised \in BOOLEAN, HandleComplete(e, raised) PROVE Stashed'
    <3>1. /\ e \in InMulti /\ UNCHANGED <<waiting, done, failure>>
          /\ IF raised THEN Stash(e) ELSE UNCHANGED <<deferred, sourceId, threw>>
      BY <1>0, <2>6 DEF HandleComplete, stateVars, waiterVars, InMulti, TypeOK
    <3> QED BY <1>1, <3>1, StashStashed
  <2>7. ASSUME NEW how \in Outcomes, CallbacksEnd(how) PROVE Stashed'
    <3>1. /\ driver = "callback" /\ UNCHANGED <<waiting, done, failure>>
          /\ Stash(completing) \/ UNCHANGED <<deferred, sourceId, threw>>
      BY <2>7 DEF CallbacksEnd
    <3>2. completing \in InMulti BY <1>0, <3>1 DEF InMulti, Shape, TypeOK
    <3> QED BY <1>1, <3>1, <3>2, StashStashed
  <2> QED BY <1>3, <2>1, <2>2, <2>3, <2>4, <2>5, <2>6, <2>7 DEF DriverStep
<1>4. CASE UNCHANGED <<vars, faults>>
  BY <1>1, <1>4 DEF vars, multiVars, stateVars, waiterVars, history
<1> QED BY <1>2, <1>3, <1>4 DEF Next

\* An exception is not an ordinary return.
LEMMA ReturnedFacts ==
  /\ Returned \notin Exceptions /\ Returned # Cancelled /\ Returned # None
  /\ Returned.kind = "returned" /\ Cancelled.kind = "cancelled"
BY SchedulerAssumption DEF Returned, Cancelled, Exceptions

LEMMA NotReturnedStep ==
  ASSUME Base, Stashed, NotReturned, [Next]_<<vars, faults>>
  PROVE  NotReturned'
<1>0. TypeOK /\ Shape /\ Source BY DEF Base
<1>1. ASSUME UNCHANGED <<result, threw>> PROVE NotReturned' BY <1>1 DEF NotReturned
<1>2. ASSUME NEW e \in Easies, FiberStep(e) PROVE NotReturned'
  <2>1. CASE Enter(e)
    <3>1. /\ \A f \in Easies : f # e => result'[f] = result[f] /\ threw'[f] = threw[f]
          /\ threw'[e] = "nothing"
      BY <1>0, <2>1 DEF Enter, TypeOK
    <3> QED BY <3>1 DEF NotReturned
  <2>2. ASSUME NEW how \in Exceptions \cup {Returned, Cancelled}, Leave(e, how),
               how = Returned => threw[e] # "stashed"
        PROVE  NotReturned'
    <3>1. result' = [result EXCEPT ![e] = how] /\ UNCHANGED threw BY <2>2 DEF Leave
    <3> QED BY <1>0, <2>2, <3>1 DEF NotReturned, TypeOK
  <2>3. CASE ResumeRaises(e)
    <3>1. (IF failure[e] # None THEN failure[e] ELSE error) \in Exceptions
      BY <1>0, <2>3 DEF ResumeRaises, TypeOK
    <3> QED BY <2>2, <2>3, <3>1, ReturnedFacts DEF ResumeRaises
  <2>4. CASE Return(e)
    <3>1. pc[e] = "leaving" /\ Leave(e, Returned) BY <2>4 DEF Return
    <3>2. e \in waiting /\ e \in done BY <1>0, <3>1 DEF Shape
    <3>3. threw[e] # "stashed" BY <3>2 DEF Stashed
    <3> QED BY <2>2, <3>1, <3>3
  <2>5. CASE Cancel(e) BY <2>2, <2>5, ReturnedFacts DEF Cancel
  <2>6. CASE ResumeDone(e) \/ ResumeBlocks(e)
    BY <1>1, <2>6 DEF ResumeDone, ResumeBlocks, history
  <2> QED BY <1>2, <2>1, <2>3, <2>4, <2>5, <2>6 DEF FiberStep
<1>3. ASSUME DriverStep PROVE NotReturned'
  <2>1. CASE \/ Gather \/ DrainAdds \/ DrainRaises \/ TopIdle \/ TopPerforms \/ Drive \/ DriveRaises
             \/ InfoRaises \/ InfoEnds \/ BlockYields \/ YieldFinal \/ PerformReturns
    BY <1>1, <2>1 DEF Gather, DrainAdds, DrainRaises, TopIdle, TopPerforms, Drive, DriveRaises,
                      InfoRaises, InfoEnds, BlockYields, YieldFinal, PerformReturns, history
  <2>2. ASSUME NEW e \in Easies, Stash(e), UNCHANGED result PROVE NotReturned'
    <3>1. \A f \in Easies : threw'[f] # threw[f] => f \in waiting BY <1>0, <2>2, StashFacts
    <3>2. \A f \in Easies : f \in waiting => result[f] # Returned
      BY <1>0, ReturnedFacts DEF Shape
    <3> QED BY <2>2, <3>1, <3>2 DEF NotReturned
  <2>3. ASSUME NEW e \in Easies, NEW raised \in BOOLEAN, HandleComplete(e, raised)
        PROVE  NotReturned'
    BY <1>1, <2>2, <2>3 DEF HandleComplete
  <2>4. ASSUME NEW how \in Outcomes, CallbacksEnd(how) PROVE NotReturned'
    <3>1. completing \in Easies BY <1>0, <2>4 DEF CallbacksEnd, Shape, TypeOK
    <3> QED BY <1>1, <2>2, <2>4, <3>1 DEF CallbacksEnd
  <2> QED BY <1>3, <2>1, <2>3, <2>4 DEF DriverStep
<1>4. CASE UNCHANGED <<vars, faults>> BY <1>1, <1>4 DEF vars, history
<1> QED BY <1>2, <1>3, <1>4 DEF Next

LEMMA StashedInvariant == Spec => [](Stashed /\ NotReturned)
<1>1. Init => Stashed /\ NotReturned
  BY ReturnedFacts DEF Init, Stashed, NotReturned
<1>2. Base /\ Separate /\ Stashed /\ NotReturned /\ [Next]_<<vars, faults>> =>
        (Stashed /\ NotReturned)'
  BY StashedStep, NotReturnedStep
<1> QED BY <1>1, <1>2, BaseInvariant, SeparateInvariant, PTL DEF Spec

-----------------------------------------------------------------------------
(***************************************************************************)
(* The fourth part: everyone is served, unless a fault can strand a        *)
(* waiter.                                                                 *)
(***************************************************************************)

Outside == {"off", "gather", "top", "prime"}

Queued(e) == \E i \in 1 .. Len(pending) : pending[i] = e

\* The driver never leaves perform, nor enters it, with an exception pending.
Settled ==
  /\ driver \in Outside => deferred = None
  /\ driver \in {"block", "yield"} /\ deferred # None => requests # {}
  /\ faults \cap CallbackFaults = {} => deferred = None /\ sourceId = None

\* Outside perform whoever has completed has been released.
Handed ==
  driver \in Outside => \A e \in Easies : pc[e] = "blocked" => e \notin completed

\* A fiber in perform is somewhere on the way.
Located ==
  \A e \in Easies : pc[e] \in {"blocked", "woken"} => e \in InMulti \cup completed \/ Queued(e)

\* And while it has no outcome there is a driver.
Driven ==
  \A e \in Easies :
    pc[e] \in {"blocked", "woken"} /\ e \notin done /\ failure[e] = None /\ error = None
      => driver # "off"

Served == ~Stranding => Settled /\ Handed /\ Located /\ Driven

LEMMA SettledStep ==
  ASSUME Base, ~Stranding, Settled, Next
  PROVE  Settled'
<1>0. TypeOK /\ Shape /\ Source /\ faults' = faults BY DEF Base, Next
<1>1. ASSUME UNCHANGED <<deferred, sourceId>>, driver' \in Outside => deferred = None,
             driver' \in {"block", "yield"} /\ deferred # None => requests' # {}
      PROVE  Settled'
  BY <1>0, <1>1 DEF Settled
<1>2. ASSUME NEW e \in Easies, FiberStep(e) PROVE Settled'
  <2>1. UNCHANGED <<deferred, sourceId, requests>>
    BY <1>2 DEF FiberStep, Enter, ResumeDone, ResumeRaises, ResumeBlocks, Return, Cancel, Leave,
                multiVars
  <2>2. driver' = driver \/ (driver = "off" /\ driver' = "gather")
    BY <1>2 DEF FiberStep, Enter, EnsureDriver, ResumeDone, ResumeRaises, ResumeBlocks, Return,
                Cancel, Leave, driverVars
  <2> QED BY <1>1, <2>1, <2>2 DEF Settled, Outside
<1>3. CASE Gather \/ TopIdle \/ Drive \/ InfoEnds \/ BlockYields \/ YieldFinal
  <2>1. UNCHANGED <<deferred, sourceId, requests>>
    BY <1>3 DEF Gather, TopIdle, Drive, InfoEnds, BlockYields, YieldFinal, multiVars
  <2>2. \/ driver \in Outside
        \/ driver' = "info"
        \/ driver' = "block" /\ (deferred = None \/ requests # {})
        \/ driver = "block" /\ driver' = "yield"
    BY <1>3 DEF Gather, TopIdle, Drive, InfoEnds, BlockYields, YieldFinal, Outside
  <2>3. driver \in Outside => driver' \in Outside \cup {"info"}
    BY <1>3 DEF Gather, TopIdle, DriverEnds, Drive, InfoEnds, BlockYields, YieldFinal, Outside
  <2> QED BY <1>1, <2>1, <2>2, <2>3 DEF Settled, Outside
<1>4. CASE DrainAdds
  <2>1. UNCHANGED <<deferred, sourceId, driver>> /\ requests \subseteq requests'
    BY <1>4 DEF DrainAdds, driverVars
  <2> QED BY <1>1, <2>1 DEF Settled
<1>5. CASE TopPerforms
  <2>1. /\ driver = "top" /\ driver' = "prime" /\ deferred' = deferred
        /\ sourceId' = IF deferred = None THEN None ELSE sourceId
    BY <1>5 DEF TopPerforms
  <2> QED BY <1>0, <2>1 DEF Settled, Outside
<1>6. CASE PerformReturns
  <2>1. driver = "yield" /\ requests = {} /\ driver' = "top" /\ UNCHANGED <<deferred, sourceId>>
    BY <1>6 DEF PerformReturns, multiVars
  <2> QED BY <1>1, <2>1 DEF Settled
<1>7. ASSUME NEW x, DriverFails(x), deferred' = None, UNCHANGED sourceId PROVE Settled'
  <2>1. driver' \in {"off", "gather"} BY <1>7 DEF DriverFails, DriverEnds
  <2> QED BY <1>0, <1>7, <2>1 DEF Settled
<1>8. CASE DrainRaises
  BY <1>7, <1>8 DEF DrainRaises, DrainWouldAdd, multiVars
<1>9. CASE DriveRaises
  <2>1. deferred = None BY <1>9 DEF DriveRaises, Stranding, Settled
  <2> QED BY <1>7, <1>9, <2>1 DEF DriveRaises, multiVars
<1>10. CASE InfoRaises BY <1>7, <1>10 DEF InfoRaises
<1>11. ASSUME NEW e \in Easies, HandleComplete(e, FALSE) \/ ("body" \in faults /\ HandleComplete(e, TRUE))
       PROVE  Settled'
  <2>1. driver' = "callback" BY <1>11 DEF HandleComplete
  <2>2. CASE UNCHANGED <<deferred, sourceId>> BY <1>1, <2>1, <2>2 DEF Outside
  <2>3. CASE "body" \in faults
    BY <1>0, <2>1, <2>3 DEF Settled, Outside, CallbackFaults
  <2> QED BY <1>11, <2>2, <2>3 DEF HandleComplete
<1>12. ASSUME NEW how \in Outcomes, CallbacksEnd(how) PROVE Settled'
  <2>1. driver' = "info" BY <1>12 DEF CallbacksEnd
  <2>2. CASE UNCHANGED <<deferred, sourceId>> BY <1>1, <2>1, <2>2 DEF Outside
  <2>3. CASE how # "ok"
    <3>1. faults \cap CallbackFaults # {} BY <2>3 DEF Outcomes, CallbackFaults
    <3> QED BY <1>0, <2>1, <3>1 DEF Settled, Outside
  <2> QED BY <1>12, <2>2, <2>3 DEF CallbacksEnd
<1> QED BY <1>2, <1>3, <1>4, <1>5, <1>6, <1>8, <1>9, <1>10, <1>11, <1>12 DEF Next, DriverStep

\* After a failure of the driver no fiber sleeps that has completed.
LEMMA FailHanded ==
  ASSUME Base, NEW x \in Exceptions, DriverFails(x), driver # "off", UNCHANGED completed
  PROVE  Handed'
<1>0. TypeOK /\ Shape /\ NoLostWakeup BY DEF Base
<1>1. ToOriginator(x) \/ ToEveryone(x) BY <1>0, DriverFailsFacts
<1> SUFFICES ASSUME NEW e \in Easies, pc'[e] = "blocked" PROVE e \notin completed BY DEF Handed
<1>2. pc[e] = "blocked" BY <1>1 DEF ToOriginator, ToEveryone
<1>3. e \in waiting /\ e \notin done BY <1>0, <1>2 DEF Shape, NoLostWakeup
<1>4. CASE ToOriginator(x)
  <2>1. e \notin Released \cup {sourceId} BY <1>2, <1>4 DEF ToOriginator
  <2> QED BY <1>3, <2>1 DEF Released, Originator
<1>5. CASE ToEveryone(x) BY <1>2, <1>3, <1>5 DEF ToEveryone
<1> QED BY <1>1, <1>4, <1>5

LEMMA HandedStep ==
  ASSUME Base, ~Stranding, Settled, Handed, Next
  PROVE  Handed'
<1>0. TypeOK /\ Shape /\ Source /\ WokenRunFirst /\ NoLostWakeup BY DEF Base
<1>1. ASSUME NEW e \in Easies, FiberStep(e) PROVE Handed'
  <2>1. driver' \in Outside => driver \in Outside
    BY <1>1 DEF FiberStep, Enter, EnsureDriver, ResumeDone, ResumeRaises, ResumeBlocks, Return,
                Cancel, Leave, driverVars, Outside
  <2>2. CASE ResumeBlocks(e)
    <3>1. /\ pc[e] = "woken" /\ e \notin done /\ failure[e] = None
          /\ pc' = [pc EXCEPT ![e] = "blocked"] /\ UNCHANGED completed
      BY <2>2 DEF ResumeBlocks, stateVars, waiterVars
    <3>2. e \notin completed BY <1>0, <3>1 DEF WokenRunFirst
    <3> QED BY <1>0, <2>1, <3>1, <3>2 DEF Handed, TypeOK
  <2>3. CASE Enter(e)
    <3>1. completed' = completed \ {e} /\ pc' = [pc EXCEPT ![e] = "blocked"] BY <2>3 DEF Enter
    <3> QED BY <1>0, <2>1, <3>1 DEF Handed, TypeOK
  <2>4. CASE ResumeDone(e) \/ ResumeRaises(e) \/ Return(e) \/ Cancel(e)
    <3>1. /\ completed' \subseteq completed
          /\ pc' = [pc EXCEPT ![e] = "leaving"] \/ pc' = [pc EXCEPT ![e] = "idle"]
      BY <2>4 DEF ResumeDone, ResumeRaises, Return, Cancel, Leave, stateVars, waiterVars
    <3> QED BY <1>0, <2>1, <3>1 DEF Handed, TypeOK
  <2> QED BY <1>1, <2>2, <2>3, <2>4 DEF FiberStep
<1>2. CASE Gather \/ DrainAdds \/ TopIdle \/ TopPerforms \/ Drive \/ InfoEnds \/ YieldFinal
  <2>1. UNCHANGED <<pc, completed>> /\ (driver' \in Outside => driver \in Outside)
    BY <1>2 DEF Gather, DrainAdds, TopIdle, TopPerforms, Drive, InfoEnds, YieldFinal, stateVars,
                waiterVars, driverVars, Outside
  <2> QED BY <2>1 DEF Handed
<1>3. CASE BlockYields BY <1>3 DEF BlockYields, Handed, Outside
<1>4. CASE PerformReturns
  <2>1. /\ driver = "yield" /\ requests = {} /\ pc' = Wake(Released) /\ UNCHANGED completed
    BY <1>4 DEF PerformReturns
  <2>2. sourceId = None BY <1>0, <2>1 DEF Settled, Source
  <2>3. \A e \in Easies :
          pc'[e] = IF e \in Released /\ pc[e] = "blocked" THEN "woken" ELSE pc[e]
    BY <1>0, <2>1, WakeFacts DEF TypeOK
  <2> SUFFICES ASSUME NEW e \in Easies, pc'[e] = "blocked" PROVE e \notin completed
    BY <2>1 DEF Handed
  <2>4. pc[e] = "blocked" /\ e \notin Released BY <2>3
  <2>5. e \in waiting /\ e \notin done BY <1>0, <2>4 DEF Shape, NoLostWakeup
  <2>6. e # sourceId BY <2>2, SchedulerAssumption
  <2> QED BY <2>4, <2>5, <2>6 DEF Released, Originator
<1>5. CASE DrainRaises
  <2>1. /\ driver # "off" /\ pending # <<>> /\ UNCHANGED completed
        /\ DriverFails(Exception("setup", Head(pending)))
    BY <1>5 DEF DrainRaises, DrainWouldAdd
  <2>2. Exception("setup", Head(pending)) \in Exceptions
    BY <1>0, <2>1, TailFacts DEF TypeOK, Exception, Exceptions
  <2> QED BY <2>1, <2>2, FailHanded
<1>6. CASE DriveRaises
  <2>1. Exception("drive", None) \in Exceptions BY DEF Exception, Exceptions
  <2> QED BY <1>6, <2>1, FailHanded DEF DriveRaises
<1>7. CASE InfoRaises
  <2>1. deferred \in Exceptions BY <1>0, <1>7 DEF InfoRaises, TypeOK
  <2> QED BY <1>7, <2>1, FailHanded DEF InfoRaises
<1>8. ASSUME NEW e \in Easies, NEW raised \in BOOLEAN, HandleComplete(e, raised) PROVE Handed'
  BY <1>8 DEF HandleComplete, Handed, Outside
<1>9. ASSUME NEW how \in Outcomes, CallbacksEnd(how) PROVE Handed'
  BY <1>9 DEF CallbacksEnd, Handed, Outside
<1> QED BY <1>1, <1>2, <1>3, <1>4, <1>5, <1>6, <1>7, <1>8, <1>9 DEF Next, DriverStep

LEMMA LocatedStep ==
  ASSUME Base, ~Stranding, Located, Next
  PROVE  Located'
<1>0. TypeOK /\ Shape /\ pending \in Seq(Easies) BY DEF Base, TypeOK
<1>1. ASSUME UNCHANGED <<requests, completing, completed, pending>>,
             \A e \in Easies : pc'[e] \in {"blocked", "woken"} => pc[e] \in {"blocked", "woken"}
      PROVE  Located'
  BY <1>1 DEF Located, InMulti, Queued
<1>2. ASSUME NEW e \in Easies, FiberStep(e) PROVE Located'
  <2>1. CASE Enter(e)
    <3>1. /\ pending' = Append(pending, e) /\ completed' = completed \ {e}
          /\ pc' = [pc EXCEPT ![e] = "blocked"] /\ UNCHANGED <<requests, completing>>
      BY <2>1 DEF Enter, multiVars
    <3>2. /\ Len(pending') = Len(pending) + 1 /\ Len(pending) \in Nat
          /\ \A i \in 1 .. Len(pending) : pending'[i] = pending[i]
          /\ pending'[Len(pending) + 1] = e
      BY <1>0, <3>1, AppendFacts
    <3>3. Queued(e)' BY <3>2 DEF Queued
    <3>4. \A f \in Easies : Queued(f) => Queued(f)'
      <4> SUFFICES ASSUME NEW f \in Easies, Queued(f) PROVE Queued(f)' OBVIOUS
      <4>1. PICK i \in 1 .. Len(pending) : pending[i] = f BY DEF Queued
      <4>2. i \in 1 .. Len(pending') /\ pending'[i] = f BY <3>2, <4>1
      <4> QED BY <4>2 DEF Queued
    <3>5. \A f \in Easies : f # e => pc'[f] = pc[f] BY <1>0, <3>1 DEF TypeOK
    <3>6. InMulti' = InMulti BY <3>1 DEF InMulti
    <3> QED BY <3>1, <3>3, <3>4, <3>5, <3>6 DEF Located
  <2>2. CASE ResumeRaises(e) \/ Return(e) \/ Cancel(e)
    <3>1. /\ completed' = completed \ {e} /\ pc' = [pc EXCEPT ![e] = "idle"]
          /\ UNCHANGED <<requests, completing, pending>>
      BY <2>2 DEF ResumeRaises, Return, Cancel, Leave, multiVars, driverVars
    <3>2. pc'[e] = "idle" /\ \A f \in Easies : f # e => pc'[f] = pc[f] BY <1>0, <3>1 DEF TypeOK
    <3> QED BY <3>1, <3>2 DEF Located, InMulti, Queued
  <2>3. CASE ResumeDone(e) \/ ResumeBlocks(e)
    <3>1. /\ UNCHANGED <<requests, completing, completed, pending>> /\ pc[e] = "woken"
          /\ pc' = [pc EXCEPT ![e] = "leaving"] \/ pc' = [pc EXCEPT ![e] = "blocked"]
      BY <2>3 DEF ResumeDone, ResumeBlocks, multiVars, stateVars, waiterVars, driverVars
    <3>2. \A f \in Easies : pc'[f] \in {"blocked", "woken"} => pc[f] \in {"blocked", "woken"}
      BY <1>0, <3>1 DEF TypeOK
    <3> QED BY <1>1, <3>1, <3>2
  <2> QED BY <1>2, <2>1, <2>2, <2>3 DEF FiberStep
<1>3. CASE Gather \/ TopIdle \/ TopPerforms \/ Drive \/ InfoEnds \/ YieldFinal
  BY <1>1, <1>3 DEF Gather, TopIdle, TopPerforms, Drive, InfoEnds, YieldFinal, multiVars, stateVars,
                    waiterVars, driverVars
<1>4. CASE BlockYields \/ PerformReturns
  <2>1. UNCHANGED <<requests, completing, completed, pending>> /\ pc' = Wake(Released)
    BY <1>4 DEF BlockYields, PerformReturns, multiVars
  <2>2. \A e \in Easies : pc'[e] \in {"blocked", "woken"} => pc[e] \in {"blocked", "woken"}
    BY <1>0, <2>1, WakeFacts DEF TypeOK
  <2> QED BY <1>1, <2>1, <2>2
<1>5. CASE DrainRaises \/ DriveRaises \/ InfoRaises
  <2>1. UNCHANGED <<requests, completing, completed, pending>> /\ \E S : pc' = Wake(S)
    BY <1>5 DEF DrainRaises, DriveRaises, InfoRaises, DriverFails, multiVars
  <2>2. \A e \in Easies : pc'[e] \in {"blocked", "woken"} => pc[e] \in {"blocked", "woken"}
    BY <1>0, <2>1, WakeFacts DEF TypeOK
  <2> QED BY <1>1, <2>1, <2>2
<1>6. CASE DrainAdds
  <2>1. /\ pending # <<>> /\ requests' = requests \cup {Head(pending)} /\ pending' = Tail(pending)
        /\ UNCHANGED <<completing, completed, pc>>
    BY <1>6 DEF DrainAdds, DrainWouldAdd, waiterVars, driverVars
  <2>2. /\ Head(pending) = pending[1] /\ Len(pending) \in Nat /\ Len(pending') = Len(pending) - 1
        /\ \A i \in 1 .. Len(pending') : pending'[i] = pending[i + 1]
    BY <1>0, <2>1, TailFacts
  <2>3. ASSUME NEW e \in Easies, Queued(e) PROVE e \in InMulti' \/ Queued(e)'
    <3>1. PICK i \in 1 .. Len(pending) : pending[i] = e BY <2>3 DEF Queued
    <3>2. CASE i = 1 BY <2>1, <2>2, <3>1, <3>2 DEF InMulti
    <3>3. CASE i # 1
      <4>1. i - 1 \in 1 .. Len(pending') /\ (i - 1) + 1 = i BY <2>2, <3>3
      <4>2. pending'[i - 1] = e BY <2>2, <3>1, <4>1
      <4> QED BY <4>1, <4>2 DEF Queued
    <3> QED BY <3>2, <3>3
  <2>4. InMulti \subseteq InMulti' BY <2>1 DEF InMulti
  <2> QED BY <2>1, <2>3, <2>4 DEF Located
<1>7. ASSUME NEW e \in Easies, NEW raised \in BOOLEAN, HandleComplete(e, raised) PROVE Located'
  <2>1. /\ driver = "info" /\ completing' = e /\ requests' = requests \ {e}
        /\ UNCHANGED <<pending, completed, pc>>
    BY <1>7 DEF HandleComplete, stateVars, waiterVars
  <2>2. InMulti \subseteq InMulti'
    BY <1>0, <2>1, SchedulerAssumption DEF InMulti, Shape
  <2> QED BY <2>1, <2>2 DEF Located, Queued
<1>8. ASSUME NEW how \in Outcomes, CallbacksEnd(how) PROVE Located'
  <2>1. how # "complete" BY DEF Outcomes, Stranding
  <2>2. /\ completed' = completed \cup ({completing} \cap waiting) /\ completing' = None
        /\ UNCHANGED <<requests, pending, pc>>
    BY <1>8, <2>1 DEF CallbacksEnd, MarkedOnReturn
  <2>3. \A e \in Easies : pc[e] \in {"blocked", "woken"} => e \in waiting BY <1>0 DEF Shape
  <2> QED BY <2>2, <2>3 DEF Located, InMulti, Queued
<1> QED BY <1>2, <1>3, <1>4, <1>5, <1>6, <1>7, <1>8 DEF Next, DriverStep

\* A failure that goes to its originator ends the driver only when nobody else
\* is left without an outcome.
LEMMA FailDriven ==
  ASSUME Base, Located, NEW x \in Exceptions, DriverFails(x), driver # "off",
         sourceId \in waiting /\ pending = <<>> => InMulti = {}
  PROVE  Driven'
<1>0. TypeOK /\ Shape /\ x # None BY SchedulerAssumption DEF Base
<1>1. done' = done \cup Released /\ (ToOriginator(x) \/ ToEveryone(x)) BY <1>0, DriverFailsFacts
<1> SUFFICES ASSUME NEW e \in Easies, pc'[e] \in {"blocked", "woken"}, e \notin done',
                    failure'[e] = None, error' = None, driver' = "off"
             PROVE  FALSE
  BY DEF Driven
<1>2. ToOriginator(x) BY <1>0, <1>1 DEF ToEveryone
<1>3. pending = <<>> /\ sourceId \in waiting BY <1>2 DEF ToOriginator
<1>4. pc[e] \in {"blocked", "woken"} BY <1>2 DEF ToOriginator
<1>5. ~Queued(e)
  <2>1. Len(pending) = 0 BY <1>3
  <2> QED BY <2>1 DEF Queued
<1>6. e \in completed BY <1>3, <1>4, <1>5 DEF Located
<1>7. e \in waiting BY <1>0, <1>4 DEF Shape
<1>8. e = sourceId BY <1>1, <1>6, <1>7 DEF Released, Originator
<1>9. failure'[e] # None BY <1>0, <1>2, <1>8 DEF ToOriginator
<1> QED BY <1>9

LEMMA DrivenStep ==
  ASSUME Base, ~Stranding, Settled, Handed, Located, Driven, Next
  PROVE  Driven'
<1>0. TypeOK /\ Shape /\ WokenRunFirst /\ None \notin Easies BY SchedulerAssumption DEF Base
<1>1. ASSUME driver' # "off" PROVE Driven' BY <1>1 DEF Driven
<1>2. ASSUME NEW e \in Easies, FiberStep(e) PROVE Driven'
  <2>1. CASE Enter(e)
    <3>1. PICK q : q = pending' OBVIOUS
    <3>2. EnsureDriver(q) BY <2>1, <3>1 DEF Enter
    <3>3. driver' # "off" BY <3>2 DEF EnsureDriver
    <3> QED BY <1>1, <3>3
  <2>2. CASE ResumeRaises(e) \/ Return(e) \/ Cancel(e)
    <3>1. /\ done' = done \ {e} /\ failure' = [failure EXCEPT ![e] = None]
          /\ pc' = [pc EXCEPT ![e] = "idle"] /\ UNCHANGED <<error, driver>>
      BY <2>2 DEF ResumeRaises, Return, Cancel, Leave, driverVars
    <3>2. pc'[e] = "idle" /\ \A f \in Easies : f # e => pc'[f] = pc[f] /\ failure'[f] = failure[f]
      BY <1>0, <3>1 DEF TypeOK
    <3> QED BY <3>1, <3>2 DEF Driven
  <2>3. CASE ResumeDone(e) \/ ResumeBlocks(e)
    <3>1. /\ pc[e] = "woken" /\ UNCHANGED <<done, failure, error, driver>>
          /\ pc' = [pc EXCEPT ![e] = "leaving"] \/ pc' = [pc EXCEPT ![e] = "blocked"]
      BY <2>3 DEF ResumeDone, ResumeBlocks, stateVars, waiterVars, driverVars
    <3>2. \A f \in Easies : pc'[f] \in {"blocked", "woken"} => pc[f] \in {"blocked", "woken"}
      BY <1>0, <3>1 DEF TypeOK
    <3> QED BY <3>1, <3>2 DEF Driven
  <2> QED BY <1>2, <2>1, <2>2, <2>3 DEF FiberStep
<1>3. CASE \/ Gather \/ DrainAdds \/ TopPerforms \/ Drive \/ InfoEnds \/ BlockYields
           \/ YieldFinal \/ PerformReturns
  BY <1>1, <1>3 DEF Gather, DrainAdds, TopPerforms, Drive, InfoEnds, BlockYields, YieldFinal,
                    PerformReturns, driverVars
<1>4. CASE TopIdle
  <2>1. /\ driver = "top" /\ requests = {} /\ ~DrainWouldAdd /\ DriverEnds(error)
        /\ UNCHANGED <<pc, done, failure, error>>
    BY <1>4 DEF TopIdle, stateVars, waiterVars
  <2> SUFFICES ASSUME NEW e \in Easies, pc[e] \in {"blocked", "woken"}, e \notin done
               PROVE  FALSE
    BY <2>1 DEF Driven
  <2>2. completing = None /\ InMulti = {} BY <1>0, <2>1 DEF Shape, InMulti
  <2>3. ~Queued(e)
    <3>1. pending = <<>> BY <2>1 DEF DrainWouldAdd, Settled, Outside
    <3>2. Len(pending) = 0 BY <3>1
    <3> QED BY <3>2 DEF Queued
  <2>4. pc[e] = "blocked" BY <1>0, <2>1 DEF WokenRunFirst
  <2>5. e \notin completed BY <2>1, <2>4 DEF Handed, Outside
  <2> QED BY <2>2, <2>3, <2>4, <2>5 DEF Located
<1>5. CASE DrainRaises
  <2>1. /\ driver # "off" /\ pending # <<>> /\ DriverFails(Exception("setup", Head(pending)))
    BY <1>5 DEF DrainRaises, DrainWouldAdd
  <2>2. Exception("setup", Head(pending)) \in Exceptions
    BY <1>0, <2>1, TailFacts DEF TypeOK, Exception, Exceptions
  <2> QED BY <2>1, <2>2, FailDriven
<1>6. CASE DriveRaises
  <2>1. Exception("drive", None) \in Exceptions BY DEF Exception, Exceptions
  <2>2. sourceId = None BY <1>6 DEF DriveRaises, Stranding, Settled
  <2>3. sourceId \notin waiting BY <1>0, <2>2 DEF TypeOK
  <2> QED BY <1>6, <2>1, <2>3, FailDriven DEF DriveRaises
<1>7. CASE InfoRaises
  <2>1. /\ driver = "info" /\ requests = {} /\ deferred \in Exceptions /\ DriverFails(deferred)
    BY <1>0, <1>7 DEF InfoRaises, TypeOK
  <2>2. InMulti = {} BY <1>0, <2>1 DEF InMulti, Shape
  <2> QED BY <2>1, <2>2, FailDriven
<1>8. ASSUME NEW e \in Easies, NEW raised \in BOOLEAN, HandleComplete(e, raised) PROVE Driven'
  BY <1>1, <1>8 DEF HandleComplete
<1>9. ASSUME NEW how \in Outcomes, CallbacksEnd(how) PROVE Driven'
  BY <1>1, <1>9 DEF CallbacksEnd
<1> QED BY <1>2, <1>3, <1>4, <1>5, <1>6, <1>7, <1>8, <1>9 DEF Next, DriverStep

LEMMA ServedInvariant == Spec => []Served
<1>1. Init => Served
  <2> SUFFICES ASSUME Init PROVE Settled /\ Handed /\ Located /\ Driven BY DEF Served
  <2>1. deferred = None /\ sourceId = None /\ \A e \in Easies : pc[e] = "idle" BY DEF Init
  <2> QED BY <2>1 DEF Settled, Handed, Located, Driven
<1>2. Base /\ Served /\ [Next]_<<vars, faults>> => Served'
  <2> SUFFICES ASSUME Base, Served, [Next]_<<vars, faults>>, ~Stranding'
               PROVE  (Settled /\ Handed /\ Located /\ Driven)'
    BY DEF Served
  <2>1. faults' = faults BY DEF Next
  <2>2. ~Stranding BY <2>1 DEF Stranding
  <2>3. Settled /\ Handed /\ Located /\ Driven BY <2>2 DEF Served
  <2>4. CASE Next
    BY <2>2, <2>3, <2>4, SettledStep, HandedStep, LocatedStep, DrivenStep
  <2>5. CASE UNCHANGED <<vars, faults>>
    BY <2>3, <2>5 DEF vars, multiVars, stateVars, waiterVars, driverVars, history, Settled, Handed,
                      Located, Driven, InMulti, Queued, Outside
  <2> QED BY <2>4, <2>5
<1> QED BY <1>1, <1>2, BaseInvariant, PTL DEF Spec

\* Whatever goes wrong, no fiber sleeps through its wakeup and queued work has a
\* driver; and unless a callback exception can strand a waiter, everyone who
\* waits is served by a driver that runs.
THEOREM NoneForgotten == Spec => []NobodyIsForgotten
<1>1. Base /\ Served => NobodyIsForgotten
  <2> SUFFICES ASSUME Base, Served PROVE NobodyIsForgotten OBVIOUS
  <2>1. TypeOK /\ NoLostWakeup /\ PendingIsDriven BY DEF Base
  <2>2. WaiterIsServed
    <3> SUFFICES ASSUME NEW e \in Easies, pc[e] = "blocked", ~Stranding
                 PROVE  /\ driver # "off"
                        /\ \/ e \in requests \cup {completing}
                           \/ \E i \in DOMAIN pending : pending[i] = e
                           \/ e \in completed
      BY DEF WaiterIsServed
    <3>1. Located /\ Driven BY DEF Served
    <3>2. driver # "off" BY <2>1, <3>1 DEF Driven, NoLostWakeup
    <3>3. DOMAIN pending = 1 .. Len(pending) BY <2>1 DEF TypeOK
    <3>4. e \in InMulti \cup completed \/ Queued(e) BY <3>1 DEF Located
    <3> QED BY <3>2, <3>3, <3>4 DEF InMulti, Queued
  <2> QED BY <2>1, <2>2 DEF NobodyIsForgotten
<1> QED BY <1>1, BaseInvariant, ServedInvariant, PTL

-----------------------------------------------------------------------------
(***************************************************************************)
(* The fifth part: a callback exception is handed to its originator alone. *)
(* It needs that the originator still waits when perform raises, which     *)
(* holds while fibers are not cancelled and driving does not fail: then    *)
(* every request on the way has a waiter that waits for this very one.     *)
(* Only a queue whose head is refused ends that, and from then on no       *)
(* driver gets to the shared multi any more.                               *)
(***************************************************************************)

Calm == faults \cap {"cancel", "drive"} = {}

OwnErrors ==
  /\ \A e \in Easies : failure[e] # None /\ failure[e].kind = "callback" => failure[e].of = e
  /\ \A e \in Easies : result[e] # None /\ result[e].kind = "callback" => result[e].of = e
  /\ error # None => error.kind # "callback"

Stuck ==
  /\ pending # <<>> /\ Refused(Head(pending)) /\ deferred = None
  /\ driver \in {"off", "gather", "top"}

InFlight(e) == e \in InMulti \/ Queued(e)

\* Whoever is on the way is waited for, and is there once.
Awaited ==
  /\ error = None
  /\ \A e \in Easies : InFlight(e) => e \in waiting \ completed /\ failure[e] = None
  /\ \A i, j \in 1 .. Len(pending) : pending[i] = pending[j] => i = j
  /\ \A i \in 1 .. Len(pending) : pending[i] \notin InMulti

\* The originator waits behind its transfer.
OriginatorWaits ==
  deferred # None =>
    /\ sourceId \in waiting \ done /\ failure[sourceId] = None
    /\ sourceId \notin requests /\ ~Queued(sourceId)

Kept == Awaited /\ OriginatorWaits

Home == Calm => OwnErrors /\ (Stuck \/ Kept)

\* The deferred exception is raised out of perform while its originator waits.
LEMMA HandedOver ==
  ASSUME Base, Kept, InfoRaises
  PROVE  /\ deferred \in Exceptions /\ deferred = Exception("callback", sourceId)
         /\ sourceId \in waiting /\ sourceId \in Easies /\ ToOriginator(deferred)
<1>1. /\ driver = "info" /\ deferred # None /\ DriverFails(deferred) BY DEF InfoRaises
<1>2. TypeOK /\ Shape /\ Source BY DEF Base
<1>3. deferred \in Exceptions BY <1>1, <1>2 DEF TypeOK
<1>4. sourceId \in Easies /\ deferred = Exception("callback", sourceId) BY <1>1, <1>2 DEF Source
<1>5. sourceId \in waiting BY <1>1 DEF Kept, OriginatorWaits
<1>6. ToOriginator(deferred) \/ ToEveryone(deferred) BY <1>1, <1>2, <1>3, DriverFailsFacts
<1> QED BY <1>3, <1>4, <1>5, <1>6 DEF ToEveryone

LEMMA OwnErrorsStep ==
  ASSUME Base, Calm, OwnErrors, Stuck \/ Kept, Next
  PROVE  OwnErrors'
<1>0. TypeOK /\ Shape BY DEF Base
<1>1. ASSUME UNCHANGED <<failure, result, error>> PROVE OwnErrors' BY <1>1 DEF OwnErrors
<1>2. ASSUME NEW e \in Easies, FiberStep(e) PROVE OwnErrors'
  <2>1. CASE Enter(e)
    <3>1. /\ failure' = [failure EXCEPT ![e] = None] /\ result' = [result EXCEPT ![e] = None]
      BY <2>1 DEF Enter
    <3>2. error' \in {None, error}
      <4>1. PICK q : q = pending' OBVIOUS
      <4>2. EnsureDriver(q) BY <2>1, <4>1 DEF Enter
      <4> QED BY <4>2 DEF EnsureDriver
    <3>3. /\ failure'[e] = None /\ result'[e] = None
          /\ \A f \in Easies : f # e => failure'[f] = failure[f] /\ result'[f] = result[f]
      BY <1>0, <3>1 DEF TypeOK
    <3> QED BY <3>2, <3>3 DEF OwnErrors
  <2>2. ASSUME NEW how, Leave(e, how), how.kind = "callback" => how.of = e
        PROVE  OwnErrors'
    <3>1. /\ failure' = [failure EXCEPT ![e] = None] /\ result' = [result EXCEPT ![e] = how]
          /\ UNCHANGED error
      BY <2>2 DEF Leave
    <3>2. /\ failure'[e] = None /\ result'[e] = how
          /\ \A f \in Easies : f # e => failure'[f] = failure[f] /\ result'[f] = result[f]
      BY <1>0, <3>1 DEF TypeOK
    <3> QED BY <2>2, <3>1, <3>2 DEF OwnErrors
  <2>3. CASE ResumeRaises(e)
    <3>1. CASE failure[e] # None
      <4>1. Leave(e, failure[e]) BY <2>3, <3>1 DEF ResumeRaises
      <4> QED BY <2>2, <3>1, <4>1 DEF OwnErrors
    <3>2. CASE failure[e] = None
      <4>1. error # None /\ Leave(e, error) BY <2>3, <3>2 DEF ResumeRaises
      <4> QED BY <2>2, <4>1 DEF OwnErrors
    <3> QED BY <3>1, <3>2
  <2>4. CASE Return(e) BY <2>2, <2>4, ReturnedFacts DEF Return
  <2>5. CASE Cancel(e) BY <2>2, <2>5, ReturnedFacts DEF Cancel
  <2>6. CASE ResumeDone(e) \/ ResumeBlocks(e)
    BY <1>1, <2>6 DEF ResumeDone, ResumeBlocks, history, stateVars, waiterVars
  <2> QED BY <1>2, <2>1, <2>3, <2>4, <2>5, <2>6 DEF FiberStep
<1>3. CASE \/ Gather \/ DrainAdds \/ TopIdle \/ TopPerforms \/ Drive \/ InfoEnds \/ BlockYields
           \/ YieldFinal \/ PerformReturns
  BY <1>1, <1>3 DEF Gather, DrainAdds, TopIdle, TopPerforms, Drive, InfoEnds, BlockYields,
                    YieldFinal, PerformReturns, history, stateVars, waiterVars
<1>4. CASE DrainRaises
  <2> DEFINE x == Exception("setup", Head(pending))
  <2>1. /\ driver # "off" /\ pending # <<>> /\ DriverFails(x) /\ UNCHANGED result
    BY <1>4 DEF DrainRaises, DrainWouldAdd, history
  <2>2. x \in Exceptions
    BY <1>0, <2>1, TailFacts DEF TypeOK, Exception, Exceptions
  <2>3. x.kind = "setup" BY DEF Exception
  <2> HIDE DEF x
  <2>4. ToOriginator(x) \/ ToEveryone(x) BY <1>0, <2>1, <2>2, DriverFailsFacts
  <2> QED BY <2>1, <2>3, <2>4 DEF ToOriginator, ToEveryone, OwnErrors
<1>5. CASE DriveRaises BY <1>5 DEF DriveRaises, Calm
<1>6. CASE InfoRaises
  <2>1. Kept BY <1>6 DEF InfoRaises, Stuck
  <2>2. /\ deferred = Exception("callback", sourceId) /\ ToOriginator(deferred)
    BY <1>6, <2>1, HandedOver
  <2>3. deferred.of = sourceId BY <2>2 DEF Exception
  <2>4. UNCHANGED result BY <1>6 DEF InfoRaises, history
  <2> QED BY <2>2, <2>3, <2>4 DEF ToOriginator, OwnErrors
<1>7. ASSUME NEW e \in Easies, NEW raised \in BOOLEAN, HandleComplete(e, raised) PROVE OwnErrors'
  BY <1>1, <1>7 DEF HandleComplete, stateVars, waiterVars
<1>8. ASSUME NEW how \in Outcomes, CallbacksEnd(how) PROVE OwnErrors'
  BY <1>1, <1>8 DEF CallbacksEnd
<1> QED BY <1>2, <1>3, <1>4, <1>5, <1>6, <1>7, <1>8 DEF Next, DriverStep

LEMMA StuckStep ==
  ASSUME Base, Calm, Stuck, Next
  PROVE  Stuck'
<1>0. TypeOK /\ pending \in Seq(Easies) /\ faults' = faults BY DEF Base, TypeOK, Next
<1>1. /\ pending # <<>> /\ Refused(Head(pending)) /\ deferred = None
      /\ driver \in {"off", "gather", "top"}
  BY DEF Stuck
<1>2. ASSUME UNCHANGED <<pending, deferred>>, driver' \in {"off", "gather", "top"} PROVE Stuck'
  BY <1>0, <1>1, <1>2 DEF Stuck, Refused
<1>3. ASSUME NEW e \in Easies, FiberStep(e) PROVE Stuck'
  <2>1. CASE Enter(e)
    <3>1. pending' = Append(pending, e) /\ UNCHANGED deferred BY <2>1 DEF Enter, multiVars
    <3>2. pending' # <<>> /\ Head(pending') = Head(pending)
      <4>1. /\ pending' \in Seq(Easies) /\ pending' # <<>> /\ Len(pending) \in Nat
            /\ \A i \in 1 .. Len(pending) : pending'[i] = pending[i]
        BY <1>0, <3>1, AppendFacts
      <4>2. Head(pending) = pending[1] /\ Len(pending) >= 1 BY <1>0, <1>1, TailFacts
      <4>3. Head(pending') = pending'[1] BY <4>1
      <4> QED BY <4>1, <4>2, <4>3
    <3>3. driver' \in {"off", "gather", "top"}
      <4>1. PICK q : q = pending' OBVIOUS
      <4>2. EnsureDriver(q) BY <2>1, <4>1 DEF Enter
      <4> QED BY <1>1, <4>2 DEF EnsureDriver
    <3> QED BY <1>0, <1>1, <3>1, <3>2, <3>3 DEF Stuck, Refused
  <2>2. CASE ~Enter(e)
    <3>1. UNCHANGED <<pending, deferred, driver>>
      BY <1>3, <2>2 DEF FiberStep, ResumeDone, ResumeRaises, ResumeBlocks, Return, Cancel, Leave,
                        multiVars, stateVars, driverVars
    <3> QED BY <1>1, <1>2, <3>1
  <2> QED BY <2>1, <2>2
<1>4. CASE Gather BY <1>2, <1>4 DEF Gather, multiVars, stateVars
<1>5. CASE DrainRaises
  BY <1>2, <1>5 DEF DrainRaises, DriverFails, DriverEnds, multiVars
<1>6. ~DrainAdds /\ ~TopIdle /\ ~TopPerforms
  BY <1>1 DEF DrainAdds, TopIdle, TopPerforms, DrainWouldAdd
<1>7. /\ ~Drive /\ ~DriveRaises /\ ~InfoRaises /\ ~InfoEnds /\ ~BlockYields /\ ~YieldFinal
      /\ ~PerformReturns
  BY <1>1 DEF Drive, DriveRaises, InfoRaises, InfoEnds, BlockYields, YieldFinal, PerformReturns
<1>8. /\ \A e \in Easies, raised \in BOOLEAN : ~HandleComplete(e, raised)
      /\ \A how \in Outcomes : ~CallbacksEnd(how)
  BY <1>1 DEF HandleComplete, CallbacksEnd
<1> QED BY <1>3, <1>4, <1>5, <1>6, <1>7, <1>8 DEF Next, DriverStep

\* perform_with_scheduler queues an easy that is on the way nowhere.
LEMMA EnterKept ==
  ASSUME Base, Kept, NEW e \in Easies, Enter(e)
  PROVE  Kept'
<1>0. TypeOK /\ Shape /\ pending \in Seq(Easies) BY DEF Base, TypeOK
<1>1. /\ pc[e] = "idle" /\ e \notin InMulti
      /\ waiting' = waiting \cup {e} /\ completed' = completed \ {e} /\ done' = done \ {e}
      /\ failure' = [failure EXCEPT ![e] = None] /\ pending' = Append(pending, e)
      /\ UNCHANGED <<requests, deferred, sourceId, completing>>
  BY DEF Enter, multiVars, InMulti
<1>2. error' = None
  <2>1. PICK q : q = pending' OBVIOUS
  <2>2. EnsureDriver(q) BY <2>1 DEF Enter
  <2> QED BY <2>2 DEF EnsureDriver, Kept, Awaited
<1>3. e \notin waiting /\ ~Queued(e) BY <1>0, <1>1 DEF Shape, Kept, Awaited, InFlight
<1>4. /\ Len(pending') = Len(pending) + 1 /\ Len(pending) \in Nat
      /\ \A i \in 1 .. Len(pending) : pending'[i] = pending[i]
      /\ pending'[Len(pending) + 1] = e
  BY <1>0, <1>1, AppendFacts
<1>5. \A i \in 1 .. Len(pending') : i \in 1 .. Len(pending) \/ (i = Len(pending) + 1 /\ pending'[i] = e)
  BY <1>4
<1>6. InMulti' = InMulti BY <1>1 DEF InMulti
<1>7. \A f \in Easies : Queued(f)' => Queued(f) \/ f = e
  <2> SUFFICES ASSUME NEW f \in Easies, Queued(f)' PROVE Queued(f) \/ f = e OBVIOUS
  <2>1. PICK i \in 1 .. Len(pending') : pending'[i] = f BY DEF Queued
  <2> QED BY <1>4, <1>5, <2>1 DEF Queued
<1>8. failure'[e] = None /\ \A f \in Easies : f # e => failure'[f] = failure[f]
  BY <1>0, <1>1 DEF TypeOK
<1>9. \A f \in Easies : InFlight(f)' => f \in waiting' \ completed' /\ failure'[f] = None
  BY <1>1, <1>6, <1>7, <1>8 DEF InFlight, Kept, Awaited
<1>10. \A i, j \in 1 .. Len(pending') : pending'[i] = pending'[j] => i = j
  <2> SUFFICES ASSUME NEW i \in 1 .. Len(pending'), NEW j \in 1 .. Len(pending'),
                      pending'[i] = pending'[j]
               PROVE  i = j
    OBVIOUS
  <2>1. \A k \in 1 .. Len(pending) : pending[k] # e BY <1>3 DEF Queued
  <2>2. CASE i \in 1 .. Len(pending) /\ j \in 1 .. Len(pending)
    BY <1>4, <2>2 DEF Kept, Awaited
  <2>3. CASE i \notin 1 .. Len(pending) \/ j \notin 1 .. Len(pending)
    BY <1>4, <1>5, <2>1, <2>3
  <2> QED BY <2>2, <2>3
<1>11. \A i \in 1 .. Len(pending') : pending'[i] \notin InMulti'
  BY <1>1, <1>4, <1>5, <1>6 DEF Kept, Awaited
<1>12. Awaited' BY <1>2, <1>9, <1>10, <1>11 DEF Awaited
<1>13. OriginatorWaits'
  <2> SUFFICES ASSUME deferred # None
               PROVE  /\ sourceId \in waiting' \ done' /\ failure'[sourceId] = None
                      /\ sourceId \notin requests /\ ~Queued(sourceId)'
    BY <1>1 DEF OriginatorWaits
  <2>1. /\ sourceId \in waiting \ done /\ failure[sourceId] = None
        /\ sourceId \notin requests /\ ~Queued(sourceId)
    BY DEF Kept, OriginatorWaits
  <2>2. sourceId \in Easies /\ sourceId # e BY <1>0, <1>3, <2>1 DEF TypeOK
  <2>3. ~Queued(sourceId)'
    <3>1. PICK o \in Easies : o = sourceId BY <2>2
    <3>2. ~Queued(o)' BY <1>7, <2>1, <2>2, <3>1
    <3> QED BY <1>1, <3>1, <3>2 DEF Queued
  <2> QED BY <1>1, <1>8, <2>1, <2>2, <2>3
<1> QED BY <1>12, <1>13 DEF Kept

\* A fiber leaves perform when its request is no longer on the way.
LEMMA LeaveKept ==
  ASSUME Base, Kept, NEW e \in Easies, NEW how, Leave(e, how), e \in done \/ failure[e] # None
  PROVE  Kept'
<1>0. TypeOK BY DEF Base
<1>1. /\ waiting' = waiting \ {e} /\ completed' = completed \ {e} /\ done' = done \ {e}
      /\ failure' = [failure EXCEPT ![e] = None]
      /\ UNCHANGED <<requests, deferred, sourceId, pending, error, completing>>
  BY DEF Leave, multiVars, driverVars
<1>2. ~InFlight(e) BY <1>0 DEF Kept, Awaited, TypeOK
<1>3. deferred # None => sourceId # e BY DEF Kept, OriginatorWaits
<1>4. \A f \in Easies : f # e => failure'[f] = failure[f] BY <1>0, <1>1 DEF TypeOK
<1>5. \A f \in Easies : InFlight(f)' => InFlight(f) BY <1>1 DEF InFlight, InMulti, Queued
<1>6. Awaited'
  <2>1. InMulti' = InMulti BY <1>1 DEF InMulti
  <2>2. \A f \in Easies : InFlight(f)' => f \in waiting' \ completed' /\ failure'[f] = None
    BY <1>1, <1>2, <1>4, <1>5 DEF Kept, Awaited
  <2> QED BY <1>1, <2>1, <2>2 DEF Kept, Awaited
<1>7. OriginatorWaits'
  <2> SUFFICES ASSUME deferred # None
               PROVE  /\ sourceId \in waiting' \ done' /\ failure'[sourceId] = None
                      /\ sourceId \notin requests /\ ~Queued(sourceId)
    BY <1>1 DEF OriginatorWaits, Queued
  <2>1. /\ sourceId \in waiting \ done /\ failure[sourceId] = None
        /\ sourceId \notin requests /\ ~Queued(sourceId)
    BY DEF Kept, OriginatorWaits
  <2>2. sourceId \in Easies BY <1>0, <2>1 DEF TypeOK
  <2> QED BY <1>1, <1>3, <1>4, <2>1, <2>2
<1> QED BY <1>6, <1>7 DEF Kept

\* An easy moves from the queue to the multi.
LEMMA DrainKept ==
  ASSUME Base, Kept, DrainAdds
  PROVE  Kept'
<1>0. TypeOK /\ Shape /\ pending \in Seq(Easies) BY DEF Base, TypeOK
<1>1. /\ pending # <<>> /\ requests' = requests \cup {Head(pending)} /\ pending' = Tail(pending)
      /\ deferred' = None
      /\ UNCHANGED <<error, waiting, completed, done, failure, completing>>
  BY DEF DrainAdds, DrainWouldAdd, waiterVars, driverVars
<1>2. /\ Head(pending) = pending[1] /\ Head(pending) \in Easies /\ Len(pending) \in Nat
      /\ Len(pending) >= 1 /\ Len(pending') = Len(pending) - 1
      /\ \A i \in 1 .. Len(pending') : pending'[i] = pending[i + 1]
  BY <1>0, <1>1, TailFacts
<1>3. InMulti' = InMulti \cup {pending[1]} BY <1>1, <1>2 DEF InMulti
<1>4. \A i \in 1 .. Len(pending') : i + 1 \in 1 .. Len(pending) /\ i + 1 # 1 BY <1>2
<1>5. \A f \in Easies : Queued(f)' => Queued(f) BY <1>2, <1>4 DEF Queued
<1>6. Queued(pending[1]) BY <1>2 DEF Queued
<1>7. \A f \in Easies : InFlight(f)' => InFlight(f) BY <1>3, <1>5, <1>6 DEF InFlight
<1>8. \A i, j \in 1 .. Len(pending') : pending'[i] = pending'[j] => i = j
  <2> SUFFICES ASSUME NEW i \in 1 .. Len(pending'), NEW j \in 1 .. Len(pending'),
                      pending'[i] = pending'[j]
               PROVE  i = j
    OBVIOUS
  <2>1. pending[i + 1] = pending[j + 1] BY <1>2
  <2>2. i + 1 = j + 1 BY <1>4, <2>1 DEF Kept, Awaited
  <2> QED BY <1>2, <2>2
<1>9. \A i \in 1 .. Len(pending') : pending'[i] \notin InMulti'
  <2> SUFFICES ASSUME NEW i \in 1 .. Len(pending') PROVE pending[i + 1] \notin InMulti'
    BY <1>2
  <2>1. pending[i + 1] \notin InMulti BY <1>4 DEF Kept, Awaited
  <2>2. 1 \in 1 .. Len(pending) BY <1>2
  <2>3. pending[i + 1] # pending[1] BY <1>4, <2>2 DEF Kept, Awaited
  <2> QED BY <1>3, <2>1, <2>3
<1>10. Awaited' BY <1>1, <1>7, <1>8, <1>9 DEF Kept, Awaited
<1>11. OriginatorWaits' BY <1>1 DEF OriginatorWaits
<1> QED BY <1>10, <1>11 DEF Kept

\* A callback exception is stashed while its request is in the multi.
LEMMA StashKept ==
  ASSUME Base, Kept, NEW e \in InMulti, Stash(e) \/ UNCHANGED <<deferred, sourceId>>,
         e \notin requests', requests' \subseteq requests,
         UNCHANGED <<waiting, done, failure, pending>>
  PROVE  OriginatorWaits'
<1>0. TypeOK /\ Source /\ e \in Easies BY DEF Base, InMulti
<1>1. /\ e \in waiting /\ e \notin done /\ failure[e] = None /\ ~Queued(e)
  <2>1. InFlight(e) BY DEF InFlight
  <2>2. ~Queued(e) BY DEF Queued, Kept, Awaited
  <2> QED BY <1>0, <2>1, <2>2 DEF Kept, Awaited, TypeOK
<1>2. CASE deferred = None /\ Stash(e)
  <2>1. sourceId' = e BY <1>0, <1>2, StashFacts
  <2> QED BY <1>1, <2>1 DEF OriginatorWaits, Queued
<1>3. CASE UNCHANGED <<deferred, sourceId>>
  BY <1>3 DEF OriginatorWaits, Queued, Kept
<1>4. CASE deferred # None /\ Stash(e)
  <2>1. UNCHANGED <<deferred, sourceId>> BY <1>0, <1>4, StashFacts
  <2> QED BY <1>3, <2>1
<1> QED BY <1>2, <1>3, <1>4

LEMMA KeptStep ==
  ASSUME Base, Separate, Calm, Kept, Next
  PROVE  (Stuck \/ Kept)'
<1>0. TypeOK /\ Shape /\ Source /\ faults' = faults BY DEF Base, Next
<1>1. ASSUME UNCHANGED <<requests, deferred, pending, error, waiting, completed, failure, completing>>,
             deferred # None => sourceId' = sourceId /\ sourceId \notin done'
      PROVE  Kept'
  <2>1. Awaited' BY <1>1 DEF Kept, Awaited, InFlight, InMulti, Queued
  <2>2. OriginatorWaits' BY <1>1 DEF Kept, OriginatorWaits, Queued
  <2> QED BY <2>1, <2>2 DEF Kept
<1>2. deferred # None => sourceId \notin done BY DEF Kept, OriginatorWaits
<1>3. ASSUME NEW e \in Easies, FiberStep(e) PROVE Kept'
  <2>1. CASE Enter(e) BY <2>1, EnterKept
  <2>2. CASE ResumeRaises(e) BY <2>2, LeaveKept DEF ResumeRaises, Kept, Awaited
  <2>3. CASE Return(e)
    <3>1. e \in done BY <1>0, <2>3 DEF Return, Shape
    <3> QED BY <2>3, <3>1, LeaveKept DEF Return
  <2>4. CASE Cancel(e) BY <2>4 DEF Cancel, Calm
  <2>5. CASE ResumeDone(e) \/ ResumeBlocks(e)
    BY <1>1, <1>2, <2>5 DEF ResumeDone, ResumeBlocks, multiVars, stateVars, waiterVars, driverVars
  <2> QED BY <1>3, <2>1, <2>2, <2>3, <2>4, <2>5 DEF FiberStep
<1>4. CASE Gather \/ TopIdle \/ TopPerforms \/ Drive \/ InfoEnds \/ YieldFinal
  <2>1. /\ UNCHANGED <<requests, deferred, pending, error, waiting, completed, done, failure,
                       completing>>
        /\ deferred # None => sourceId' = sourceId
    BY <1>4 DEF Gather, TopIdle, TopPerforms, Drive, InfoEnds, YieldFinal, multiVars, stateVars,
                waiterVars
  <2>2. deferred # None => sourceId \notin done' BY <1>2, <2>1
  <2> QED BY <1>1, <2>1, <2>2
<1>5. CASE BlockYields \/ PerformReturns
  <2>1. /\ UNCHANGED <<requests, deferred, sourceId, pending, error, waiting, completed, failure,
                       completing>>
        /\ done' = done \cup Released
    BY <1>5 DEF BlockYields, PerformReturns, multiVars
  <2>2. sourceId \notin Released BY DEF Released, Originator
  <2> QED BY <1>1, <1>2, <2>1, <2>2
<1>6. CASE DrainAdds BY <1>6, DrainKept
<1>7. CASE DrainRaises
  <2>1. /\ pending # <<>> /\ Refused(Head(pending)) /\ deferred = None
        /\ UNCHANGED <<pending, deferred>> /\ driver' \in {"off", "gather"}
    BY <1>7 DEF DrainRaises, DrainWouldAdd, DriverFails, DriverEnds, multiVars
  <2>2. Stuck' BY <1>0, <2>1 DEF Stuck, Refused
  <2> QED BY <2>2
<1>8. CASE DriveRaises BY <1>8 DEF DriveRaises, Calm
<1>9. CASE InfoRaises
  <2>1. ToOriginator(deferred) /\ sourceId \in Easies BY <1>9, HandedOver
  <2>2. /\ driver = "info" /\ deferred # None /\ deferred' = None /\ completing' = completing
        /\ UNCHANGED <<requests, pending, waiting, completed>>
    BY <1>9 DEF InfoRaises, DriverFails
  <2>3. ~InFlight(sourceId)
    <3>1. sourceId \notin requests /\ ~Queued(sourceId) BY <2>2 DEF Kept, OriginatorWaits
    <3>2. sourceId # completing BY <1>0, <2>1, <2>2, SchedulerAssumption DEF Shape
    <3> QED BY <3>1, <3>2 DEF InFlight, InMulti
  <2>4. InMulti' = InMulti /\ \A f \in Easies : InFlight(f)' => InFlight(f)
    BY <2>2 DEF InFlight, InMulti, Queued
  <2>5. \A f \in Easies : f # sourceId => failure'[f] = failure[f] BY <2>1 DEF ToOriginator
  <2>6. \A f \in Easies : InFlight(f)' => f \in waiting' \ completed' /\ failure'[f] = None
    BY <2>2, <2>3, <2>4, <2>5 DEF Kept, Awaited
  <2>7. error' = None BY <2>1 DEF ToOriginator, Kept, Awaited
  <2>8. Awaited' BY <2>2, <2>4, <2>6, <2>7 DEF Kept, Awaited
  <2> QED BY <2>2, <2>8 DEF Kept, OriginatorWaits
<1>10. ASSUME NEW e \in Easies, NEW raised \in BOOLEAN, HandleComplete(e, raised) PROVE Kept'
  <2>1. /\ driver = "info" /\ e \in requests /\ completing' = e /\ requests' = requests \ {e}
        /\ Stash(e) \/ UNCHANGED <<deferred, sourceId>>
        /\ UNCHANGED <<pending, error, waiting, completed, done, failure>>
    BY <1>0, <1>10 DEF HandleComplete, stateVars, waiterVars, TypeOK
  <2>2. InMulti' \subseteq InMulti /\ e \in InMulti BY <2>1 DEF InMulti
  <2>3. \A f \in Easies : InFlight(f)' => InFlight(f) BY <2>1, <2>2 DEF InFlight, Queued
  <2>4. Awaited' BY <2>1, <2>2, <2>3 DEF Kept, Awaited
  <2>5. OriginatorWaits' BY <2>1, <2>2, StashKept
  <2> QED BY <2>4, <2>5 DEF Kept
<1>11. ASSUME NEW how \in Outcomes, CallbacksEnd(how) PROVE Kept'
  <2>1. /\ driver = "callback" /\ completing' = None
        /\ completed' \subseteq completed \cup {completing}
        /\ Stash(completing) \/ UNCHANGED <<deferred, sourceId>>
        /\ UNCHANGED <<requests, pending, error, waiting, done, failure>>
    BY <1>11 DEF CallbacksEnd, MarkedOnReturn
  <2>2. completing \in InMulti /\ completing \in Easies BY <1>0, <2>1 DEF Shape, TypeOK, InMulti
  <2>3. completing \notin requests BY DEF Separate
  <2>4. InMulti' = InMulti \ {completing}
    BY <2>1, <2>3, SchedulerAssumption DEF InMulti
  <2>5. ~Queued(completing) BY <2>2 DEF Queued, Kept, Awaited
  <2>6. \A f \in Easies : InFlight(f)' => InFlight(f) /\ f # completing
    BY <2>1, <2>4, <2>5 DEF InFlight, Queued
  <2>7. Awaited' BY <2>1, <2>4, <2>6 DEF Kept, Awaited
  <2>8. OriginatorWaits' BY <2>1, <2>2, <2>3, StashKept
  <2> QED BY <2>7, <2>8 DEF Kept
<1> QED BY <1>3, <1>4, <1>5, <1>6, <1>7, <1>8, <1>9, <1>10, <1>11 DEF Next, DriverStep

LEMMA HomeInvariant == Spec => []Home
<1>1. Init => Home
  <2> SUFFICES ASSUME Init PROVE OwnErrors /\ Kept BY DEF Home
  <2>1. OwnErrors BY DEF Init, OwnErrors
  <2>2. Len(pending) = 0 /\ requests = {} /\ completing = None /\ None \notin Easies
    BY SchedulerAssumption DEF Init
  <2>3. \A e \in Easies : ~InFlight(e) BY <2>2 DEF InFlight, InMulti, Queued
  <2>4. Kept BY <2>2, <2>3 DEF Init, Kept, Awaited, OriginatorWaits
  <2> QED BY <2>1, <2>4
<1>2. Base /\ Separate /\ Home /\ [Next]_<<vars, faults>> => Home'
  <2> SUFFICES ASSUME Base, Separate, Home, [Next]_<<vars, faults>>, Calm'
               PROVE  (OwnErrors /\ (Stuck \/ Kept))'
    BY DEF Home
  <2>1. Calm BY DEF Next, Calm
  <2>2. OwnErrors /\ (Stuck \/ Kept) BY <2>1 DEF Home
  <2>3. CASE Next
    BY <2>1, <2>2, <2>3, OwnErrorsStep, StuckStep, KeptStep
  <2>4. CASE UNCHANGED <<vars, faults>>
    <3>1. UNCHANGED <<requests, deferred, sourceId, pending, error, waiting, completed, done,
                      failure, completing, result, driver, faults>>
      BY <2>4 DEF vars, multiVars, stateVars, waiterVars, driverVars, history
    <3> QED BY <2>2, <3>1 DEF OwnErrors, Stuck, Kept, Awaited, OriginatorWaits, InFlight, InMulti,
                              Queued, Refused
  <2> QED BY <2>3, <2>4
<1> QED BY <1>1, <1>2, BaseInvariant, SeparateInvariant, PTL DEF Spec

\* A callback exception is raised in the fiber whose request raised it and in no
\* other one, as long as no fiber is cancelled and driving does not fail; and
\* whatever goes wrong, a fiber whose exception was stashed does not return
\* normally.
THEOREM ErrorsStayHome == Spec => []CallbackErrorsStayHome
<1>1. NotReturned /\ Home => CallbackErrorsStayHome
  BY DEF NotReturned, Home, Calm, OwnErrors, CallbackErrorsStayHome
<1> QED BY <1>1, StashedInvariant, HomeInvariant, PTL

-----------------------------------------------------------------------------
(***************************************************************************)
(* The scheduler uses the shared multi as TransferContract allows: a drain *)
(* starts transfers, a completion stops one, and perform delivers the      *)
(* exception.                                                              *)
(***************************************************************************)

Owners == [e \in Easies |-> IF e \in requests THEN "multi" ELSE None]
Failures == [m \in {"multi"} |-> deferred # None]

\* A step that starts nothing and delivers nothing: some transfers end.
LEMMA StopsTransfers ==
  ASSUME TypeOK, requests' \subseteq requests,
         deferred' = deferred \/ deferred' # None
  PROVE  Contract!Next
<1>0. None # "multi" /\ requests \subseteq Easies BY SchedulerAssumption DEF TypeOK
<1>1. PICK S \in SUBSET Easies : S = requests \ requests' BY <1>0
<1>2. S \subseteq {e \in Easies : Owners[e] = "multi"} BY <1>0, <1>1 DEF Owners
<1>3. Owners' = [e \in Easies |-> IF e \in S THEN None ELSE Owners[e]]
  BY <1>0, <1>1 DEF Owners
<1>4. Failures' = Failures \/ Failures' = [Failures EXCEPT !["multi"] = TRUE]
  BY DEF Failures
<1>5. Contract!Stop("multi", S)
  BY <1>2, <1>3, <1>4 DEF Contract!Stop, Contract!OwnedBy, Contract!Released, Owners, Failures
<1> QED BY <1>5 DEF Contract!Next

LEMMA StartsTransfer ==
  ASSUME TypeOK, NEW e \in Easies, requests' = requests \cup {e}, deferred = None, deferred' = None
  PROVE  Contract!Next \/ UNCHANGED Contract!vars
<1>0. None # "multi" BY SchedulerAssumption
<1>1. CASE e \in requests
  <2>1. requests' = requests BY <1>1
  <2> QED BY <2>1 DEF Contract!vars
<1>2. CASE e \notin requests
  <2>1. Owners' = [Owners EXCEPT ![e] = "multi"] BY DEF Owners
  <2>2. Owners[e] = None BY <1>2 DEF Owners
  <2>3. Failures' = Failures /\ ~Failures["multi"] BY DEF Failures
  <2>4. Contract!Start("multi", e) BY <2>1, <2>2, <2>3 DEF Contract!Start, Owners, Failures
  <2> QED BY <2>4 DEF Contract!Next
<1> QED BY <1>1, <1>2

LEMMA DeliversException ==
  ASSUME requests = {}, requests' = {}, deferred # None, deferred' = None
  PROVE  Contract!Next
<1>0. None # "multi" BY SchedulerAssumption
<1>1. Owners' = Owners /\ {e \in Easies : Owners[e] = "multi"} = {} BY <1>0 DEF Owners
<1>2. Failures["multi"] /\ Failures' = [Failures EXCEPT !["multi"] = FALSE] BY DEF Failures
<1>3. Contract!Deliver("multi")
  BY <1>1, <1>2 DEF Contract!Deliver, Contract!OwnedBy, Owners, Failures
<1> QED BY <1>3 DEF Contract!Next

LEMMA ContractStep ==
  ASSUME Base, [Next]_<<vars, faults>>
  PROVE  [Contract!Next]_(Contract!vars)
<1> DEFINE Goal == Contract!Next \/ UNCHANGED Contract!vars
<1>0. TypeOK /\ Shape /\ Source BY DEF Base
<1>1. ASSUME UNCHANGED <<requests, deferred>> PROVE Goal BY <1>1 DEF Contract!vars
<1>2. ASSUME NEW e \in Easies, FiberStep(e) PROVE Goal
  BY <1>1, <1>2 DEF FiberStep, Enter, ResumeDone, ResumeRaises, ResumeBlocks, Return, Cancel, Leave,
                    multiVars
<1>3. CASE \/ Gather \/ DrainRaises \/ TopIdle \/ TopPerforms \/ Drive \/ DriveRaises \/ InfoEnds
           \/ BlockYields \/ YieldFinal \/ PerformReturns
  BY <1>1, <1>3 DEF Gather, DrainRaises, TopIdle, TopPerforms, Drive, DriveRaises, InfoEnds,
                    BlockYields, YieldFinal, PerformReturns, multiVars
<1>4. CASE DrainAdds
  <2>1. /\ pending # <<>> /\ requests' = requests \cup {Head(pending)}
        /\ deferred = None /\ deferred' = None
    BY <1>4 DEF DrainAdds, DrainWouldAdd
  <2>2. Head(pending) \in Easies BY <1>0, <2>1, TailFacts DEF TypeOK
  <2> QED BY <1>0, <2>1, <2>2, StartsTransfer
<1>5. CASE InfoRaises BY <1>5, DeliversException DEF InfoRaises
<1>6. ASSUME NEW e \in Easies, NEW raised \in BOOLEAN, HandleComplete(e, raised) PROVE Goal
  <2>1. requests' \subseteq requests /\ (Stash(e) \/ deferred' = deferred)
    BY <1>6 DEF HandleComplete
  <2>2. Stash(e) => deferred' # None BY <1>0, StashFacts
  <2> QED BY <1>0, <2>1, <2>2, StopsTransfers
<1>7. ASSUME NEW how \in Outcomes, CallbacksEnd(how) PROVE Goal
  <2>1. /\ driver = "callback" /\ requests' = requests
        /\ Stash(completing) \/ deferred' = deferred
    BY <1>7 DEF CallbacksEnd
  <2>2. completing \in Easies BY <1>0, <2>1 DEF Shape, TypeOK
  <2>3. Stash(completing) => deferred' # None BY <1>0, <2>2, StashFacts
  <2> QED BY <1>0, <2>1, <2>3, StopsTransfers
<1>8. CASE UNCHANGED <<vars, faults>> BY <1>1, <1>8 DEF vars, multiVars
<1> QED BY <1>2, <1>3, <1>4, <1>5, <1>6, <1>7, <1>8 DEF Next, DriverStep

\* The scheduler implements the contract of the shared multi, whatever goes
\* wrong: nothing is added to it while an exception is pending, and the
\* exception is raised only when nothing is transferred.
THEOREM UsesContract == Spec => UsesMultiByContract
<1>1. Init => Contract!Init
  BY DEF Init, Contract!Init
<1>2. Base /\ [Next]_<<vars, faults>> => [Contract!Next]_(Contract!vars) BY ContractStep
<1> QED BY <1>1, <1>2, BaseInvariant, PTL DEF Spec, UsesMultiByContract, Contract!Spec
=============================================================================
