--------------------------- MODULE FiberScheduler ---------------------------
(***************************************************************************)
(* Easy#perform under a fiber scheduler: every fiber of a thread puts its  *)
(* easy in the queue of the thread's scheduler state, and a driver fiber   *)
(* adds the queued easies to one shared Curl::Multi, performs it, and      *)
(* wakes the fibers whose transfers have completed or failed.              *)
(*                                                                         *)
(* Source: lib/curl.rb.  The shared multi is used through what CurlMulti   *)
(* shows of it: its requests, the unread messages, the deferred callback   *)
(* exception and the easy that raised it.                                  *)
(*                                                                         *)
(* Fibers are cooperative.  A fiber gives up control where it blocks and   *)
(* in scheduler_yield; the driver also where perform waits for sockets and *)
(* where a completion callback of the program yields.  The scheduler's run *)
(* queue is first in, first out, as Async's: the fibers that the driver    *)
(* woke run before the driver has its next turn.                           *)
(***************************************************************************)
EXTENDS Naturals, Sequences, FiniteSets

CONSTANTS
  Easies,      \* one easy per fiber, which performs it
  None,        \* Ruby's nil
  Unsettable,  \* easies that _add refuses, e.g. "No URL supplied"
  FaultSets,   \* what goes wrong, in the circumstances considered, see below
  MaxPerforms  \* bound: how often each fiber performs its easy

(***************************************************************************)
(* "body":     a body, header or progress callback raises.                 *)
(* "complete": on_complete raises, before the waiter is marked completed.  *)
(* "status":   on_success, on_failure, ... raises, after on_complete.      *)
(* "setup":    _add refuses the easies in Unsettable.                      *)
(* "drive":    waiting for sockets or curl_multi_socket_action fails.      *)
(* "cancel":   a blocked fiber is left by an exception of the scheduler,   *)
(*             as a timeout raises it.                                     *)
(***************************************************************************)
CallbackFaults == {"body", "complete", "status"}

Exception(kind, e) == [kind |-> kind, of |-> e]
Exceptions == [kind : {"callback", "setup", "drive"}, of : Easies \cup {None}]
Returned  == [kind |-> "returned", of |-> None]
Cancelled == [kind |-> "cancelled", of |-> None]

ASSUME SchedulerAssumption ==
  /\ IsFiniteSet(Easies)
  /\ None \notin Easies \cup Exceptions \cup {Returned, Cancelled, "multi"}
  /\ Unsettable \subseteq Easies
  /\ FaultSets \subseteq SUBSET (CallbackFaults \cup {"setup", "drive", "cancel"})
  /\ MaxPerforms \in [Easies -> Nat]

VARIABLES
  faults,     \* what goes wrong in this behaviour
  \* the shared multi
  requests,   \* the easies it transfers
  finished,   \* those with an unread message
  deferred,   \* @__curb_deferred_exception: the exception, None if not set
  sourceId,   \* @__curb_deferred_exception_source_id: an easy, None if not set
  \* state, and the waiter of each easy
  pending,    \* state[:pending]
  error,      \* state[:error]
  waiting,    \* the keys of state[:waiters]
  completed,  \* the easies whose waiter has :completed
  done,       \* the easies whose waiter has :done
  failure,    \* failure[e]: the waiter's :error
  \* the fibers
  driver,     \* where the driver fiber is; "off": not state[:driver_running]
  gathered,   \* pending_count
  final,      \* perform is behind its inner loop
  completing, \* the easy whose completion callbacks run
  pc,         \* where the fiber of each easy is
  \* history
  performs,   \* how often the easy has been performed
  result,     \* how the last perform of the easy ended
  threw       \* what became of a callback exception of the current perform

multiVars  == <<requests, finished, deferred, sourceId>>
waiterVars == <<waiting, completed, done, failure>>
stateVars  == <<pending, error, waiterVars>>
driverVars == <<driver, gathered, final, completing>>
history    == <<performs, result, threw>>
vars == <<multiVars, stateVars, driverVars, pc, history>>

YieldPoints == {"off", "gather", "yield", "callback"}

TypeOK ==
  /\ faults \in FaultSets
  /\ requests \subseteq Easies /\ finished \subseteq requests
  /\ deferred \in Exceptions \cup {None}
  /\ sourceId \in Easies \cup {None}
  /\ pending \in Seq(Easies)
  /\ error \in Exceptions \cup {None}
  /\ waiting \subseteq Easies /\ completed \subseteq waiting /\ done \subseteq completed
  /\ failure \in [Easies -> Exceptions \cup {None}]
  /\ driver \in YieldPoints \cup {"top", "prime", "info", "block"}
  /\ gathered \in Nat
  /\ final \in BOOLEAN
  /\ completing \in Easies \cup {None}
  /\ pc \in [Easies -> {"idle", "blocked", "woken", "leaving"}]
  /\ performs \in [Easies -> Nat]
  /\ result \in [Easies -> Exceptions \cup {Returned, Cancelled, None}]
  /\ threw \in [Easies -> {"nothing", "stashed", "dropped"}]

Init ==
  /\ faults \in FaultSets
  /\ requests = {} /\ finished = {} /\ deferred = None /\ sourceId = None
  /\ pending = <<>> /\ error = None
  /\ waiting = {} /\ completed = {} /\ done = {}
  /\ failure = [e \in Easies |-> None]
  /\ driver = "off" /\ gathered = 0 /\ final = FALSE /\ completing = None
  /\ pc = [e \in Easies |-> "idle"]
  /\ performs = [e \in Easies |-> 0]
  /\ result = [e \in Easies |-> None]
  /\ threw = [e \in Easies |-> "nothing"]

-----------------------------------------------------------------------------
(***************************************************************************)
(* Waiters.                                                                *)
(***************************************************************************)

\* deferred_exception_source_id.
NoOriginator == None
Originator == sourceId

\* wake_scheduler_waiter for the waiters of S: only a blocked fiber is woken.
WakeNobody(S) == pc
Wake(S) == [e \in Easies |-> IF e \in S /\ pc[e] = "blocked" THEN "woken" ELSE pc[e]]

\* The waiters that release_scheduler_waiters completes.
Released == {e \in waiting : e \in completed /\ e \notin done /\ e # Originator}

\* ensure_scheduler_driver, called when the queue is queue: a driver that is
\* off starts, forgets the error of an earlier one, counts the queue and yields.
EnsureDriver(queue) ==
  IF driver = "off"
  THEN /\ driver' = "gather" /\ gathered' = Len(queue) /\ error' = None
  ELSE UNCHANGED <<driver, gathered, error>>

\* The ensure clause of the driver, which starts another one when work is left
\* and no error has been reported to all waiters.
NeverRestarted(newError) == driver' = "off" /\ UNCHANGED gathered
DriverEnds(newError) ==
  IF newError = None /\ pending # <<>>
  THEN driver' = "gather" /\ gathered' = Len(pending)
  ELSE driver' = "off" /\ UNCHANGED gathered

\* The rescue clause of the driver: the siblings that have completed are
\* released, and the exception goes to the waiter of the easy that raised it or,
\* when there is none, to every waiter of the thread.
DriverFails(exception) ==
  /\ done' = done \cup Released
  /\ IF Originator \in waiting
     THEN /\ failure' = [failure EXCEPT ![Originator] = IF @ = None THEN exception ELSE @]
          /\ pc' = Wake(Released \cup {Originator})
          /\ UNCHANGED error
     ELSE /\ error' = exception
          /\ pc' = Wake(waiting)
          /\ UNCHANGED failure
  /\ DriverEnds(error')
  /\ final' = FALSE
  /\ UNCHANGED completing

-----------------------------------------------------------------------------
(***************************************************************************)
(* The fiber that performs e.                                              *)
(***************************************************************************)

Turn == driver \in YieldPoints

\* perform_with_scheduler up to the first block.  It is reached only when the
\* easy has no multi, i.e. is neither a request of the shared one nor completing.
Enter(e) ==
  /\ Turn
  /\ pc[e] = "idle"
  /\ e \notin requests /\ e # completing
  /\ performs[e] < MaxPerforms[e]
  /\ waiting' = waiting \cup {e}
  /\ completed' = completed \ {e}
  /\ done' = done \ {e}
  /\ failure' = [failure EXCEPT ![e] = None]
  /\ pending' = Append(pending, e)
  /\ EnsureDriver(pending')
  /\ pc' = [pc EXCEPT ![e] = "blocked"]
  /\ performs' = [performs EXCEPT ![e] = @ + 1]
  /\ result' = [result EXCEPT ![e] = None]
  /\ threw' = [threw EXCEPT ![e] = "nothing"]
  /\ UNCHANGED <<multiVars, final, completing>>

\* The ensure clause of perform_with_scheduler.  The on_complete of the easy is
\* restored too, so a later completion no longer marks this waiter.
Leave(e, how) ==
  /\ waiting' = waiting \ {e}
  /\ completed' = completed \ {e}
  /\ done' = done \ {e}
  /\ failure' = [failure EXCEPT ![e] = None]
  /\ pc' = [pc EXCEPT ![e] = "idle"]
  /\ result' = [result EXCEPT ![e] = how]
  /\ UNCHANGED <<multiVars, pending, error, driverVars, performs, threw>>

\* The until loop of a fiber that was woken.
ResumeDone(e) ==
  /\ Turn
  /\ pc[e] = "woken"
  /\ e \in done
  /\ pc' = [pc EXCEPT ![e] = "leaving"]
  /\ UNCHANGED <<multiVars, stateVars, driverVars, history>>

ResumeRaises(e) ==
  /\ Turn
  /\ pc[e] = "woken"
  /\ e \notin done
  /\ failure[e] # None \/ error # None
  /\ Leave(e, IF failure[e] # None THEN failure[e] ELSE error)

\* Woken by an error that another perform has cleared in the meantime.
ResumeBlocks(e) ==
  /\ Turn
  /\ pc[e] = "woken"
  /\ e \notin done /\ failure[e] = None /\ error = None
  /\ pc' = [pc EXCEPT ![e] = "blocked"]
  /\ UNCHANGED <<multiVars, stateVars, driverVars, history>>

\* The last waiter of an empty queue lets the driver finish first.
Return(e) ==
  /\ Turn
  /\ pc[e] = "leaving"
  /\ ~(driver # "off" /\ pending = <<>> /\ waiting = {e})
  /\ Leave(e, Returned)

\* The scheduler raises in a blocked fiber.  Its easy stays in the queue or in
\* the shared multi.
Cancel(e) ==
  /\ "cancel" \in faults
  /\ Turn
  /\ pc[e] = "blocked"
  /\ Leave(e, Cancelled)

-----------------------------------------------------------------------------
(***************************************************************************)
(* The driver.                                                             *)
(***************************************************************************)

\* The fibers that were woken have had their turn.
DriverTurn == \A e \in Easies : pc[e] # "woken"

\* Siblings may still be queueing: yield until the queue has stopped growing.
Gather ==
  /\ driver = "gather"
  /\ DriverTurn
  /\ gathered' = Len(pending)
  /\ driver' = IF gathered = Len(pending) THEN "top" ELSE "gather"
  /\ UNCHANGED <<multiVars, stateVars, final, completing, pc, history>>

\* drain_scheduler_pending, one easy at a time, at the top of the loop or in
\* the block of perform.  An easy leaves the queue once it is a request.
DrainAlways == pending # <<>>
DrainWouldAdd == pending # <<>> /\ deferred = None
Refused(e) == "setup" \in faults /\ e \in Unsettable
DrainAdds ==
  /\ driver \in {"top", "block"}
  /\ DrainWouldAdd
  /\ ~Refused(Head(pending))
  /\ requests' = requests \cup {Head(pending)}
  /\ pending' = Tail(pending)
  /\ UNCHANGED <<finished, deferred, sourceId, error, waiterVars, driverVars, pc, history>>

DrainRaises ==
  /\ driver \in {"top", "block"}
  /\ DrainWouldAdd
  /\ Refused(Head(pending))
  /\ DriverFails(Exception("setup", Head(pending)))
  /\ UNCHANGED <<multiVars, pending, waiting, completed, history>>

\* The shared multi is idle: the driver ends.
TopIdle ==
  /\ driver = "top"
  /\ ~DrainWouldAdd
  /\ requests = {}
  /\ DriverEnds(error)
  /\ UNCHANGED <<multiVars, stateVars, final, completing, pc, history>>

\* Otherwise it performs it, which forgets the source of an exception that has
\* been raised.
TopPerforms ==
  /\ driver = "top"
  /\ ~DrainWouldAdd
  /\ requests # {}
  /\ driver' = "prime"
  /\ sourceId' = IF deferred = None THEN None ELSE sourceId
  /\ UNCHANGED <<requests, finished, deferred, stateVars, gathered, final, completing, pc, history>>

\* libcurl is driven, at once or after a wait for sockets, and some transfers end.
Drive ==
  /\ driver \in {"prime", "yield"}
  /\ DriverTurn
  /\ requests # {}
  /\ \E D \in SUBSET requests : finished' = D
  /\ driver' = "info"
  /\ final' = FALSE
  /\ UNCHANGED <<requests, deferred, sourceId, stateVars, gathered, completing, pc, history>>

DriveRaises ==
  /\ "drive" \in faults
  /\ driver \in {"prime", "yield"}
  /\ DriverTurn
  /\ requests # {}
  /\ DriverFails(Exception("drive", None))
  /\ UNCHANGED <<multiVars, pending, waiting, completed, history>>

\* stash_multi_exception_if_unset for a callback exception of e.
Stash(e) ==
  /\ IF deferred = None
     THEN deferred' = Exception("callback", e) /\ sourceId' = e
     ELSE UNCHANGED <<deferred, sourceId>>
  /\ threw' = IF e \notin waiting THEN threw
              ELSE [threw EXCEPT ![e] = IF deferred = None THEN "stashed" ELSE "dropped"]

\* The completion of e up to its callbacks; an error that its body callback left
\* behind is stashed first.
HandleComplete(e, bodyRaised) ==
  /\ driver = "info"
  /\ e \in finished
  /\ requests' = requests \ {e}
  /\ finished' = finished \ {e}
  /\ IF bodyRaised THEN Stash(e) ELSE UNCHANGED <<deferred, sourceId, threw>>
  /\ driver' = "callback"
  /\ completing' = e
  /\ UNCHANGED <<stateVars, gathered, final, pc, performs, result>>

\* The callbacks of the completing easy end, one of them perhaps by raising.
\* The on_complete that perform_with_scheduler has installed calls the user's
\* one first and marks its waiter when that one returns.
MarkedOnReturn(e, how) == IF how = "complete" THEN {} ELSE {e} \cap waiting
CallbacksEnd(how) ==
  /\ driver = "callback"
  /\ completed' = completed \cup MarkedOnReturn(completing, how)
  /\ IF how # "ok" /\ threw[completing] = "nothing" THEN Stash(completing)
     ELSE UNCHANGED <<deferred, sourceId, threw>>
  /\ driver' = "info"
  /\ completing' = None
  /\ UNCHANGED <<requests, finished, pending, error, waiting, done, failure, gathered,
                 final, pc, performs, result>>

\* No message is left and nothing is transferred: the exception is raised out
\* of perform.  The id of its source stays set.
InfoRaises ==
  /\ driver = "info"
  /\ finished = {}
  /\ deferred # None /\ requests = {}
  /\ deferred' = None
  /\ DriverFails(deferred)
  /\ UNCHANGED <<requests, finished, sourceId, pending, waiting, completed, history>>

\* Otherwise the block of perform is called.
InfoEnds ==
  /\ driver = "info"
  /\ finished = {}
  /\ deferred = None \/ requests # {}
  /\ driver' = "block"
  /\ UNCHANGED <<multiVars, stateVars, gathered, final, completing, pc, history>>

\* The block, behind the drain: release_scheduler_waiters and scheduler_yield.
BlockYields ==
  /\ driver = "block"
  /\ ~DrainWouldAdd
  /\ done' = done \cup Released
  /\ pc' = Wake(Released)
  /\ driver' = "yield"
  /\ UNCHANGED <<multiVars, pending, error, waiting, completed, failure, gathered, final,
                 completing, history>>

\* Nothing runs after the block: it is called once more, then perform returns,
\* its ensure clause releases waiters, and the loop of the driver goes on.
YieldFinal ==
  /\ driver = "yield"
  /\ DriverTurn
  /\ requests = {} /\ ~final
  /\ driver' = "info"
  /\ final' = TRUE
  /\ UNCHANGED <<multiVars, stateVars, gathered, completing, pc, history>>

PerformReturns ==
  /\ driver = "yield"
  /\ DriverTurn
  /\ requests = {} /\ final
  /\ done' = done \cup Released
  /\ pc' = Wake(Released)
  /\ driver' = "top"
  /\ final' = FALSE
  /\ UNCHANGED <<multiVars, pending, error, waiting, completed, failure, gathered, completing,
                 history>>

-----------------------------------------------------------------------------
FiberStep(e) ==
  Enter(e) \/ ResumeDone(e) \/ ResumeRaises(e) \/ ResumeBlocks(e) \/ Return(e) \/ Cancel(e)

Outcomes == {"ok"} \cup (faults \cap {"complete", "status"})

DriverStep ==
  \/ Gather \/ DrainAdds \/ DrainRaises \/ TopIdle \/ TopPerforms
  \/ Drive \/ DriveRaises
  \/ \E e \in Easies : HandleComplete(e, FALSE) \/ ("body" \in faults /\ HandleComplete(e, TRUE))
  \/ \E how \in Outcomes : CallbacksEnd(how)
  \/ InfoRaises \/ InfoEnds \/ BlockYields \/ YieldFinal \/ PerformReturns

Next == (DriverStep \/ \E e \in Easies : FiberStep(e)) /\ UNCHANGED faults

Spec == Init /\ [][Next]_<<vars, faults>>

(***************************************************************************)
(* The scheduler runs every fiber that is ready again and again, and       *)
(* libcurl ends every transfer it is driven for again and again.           *)
(***************************************************************************)
Fairness ==
  /\ WF_vars(DriverStep)
  /\ \A e \in Easies :
       /\ SF_vars(ResumeDone(e) \/ ResumeRaises(e) \/ ResumeBlocks(e) \/ Return(e))
       /\ SF_vars(Drive /\ e \in finished')

FairSpec == Spec /\ Fairness

-----------------------------------------------------------------------------
(***************************************************************************)
(* Properties.                                                             *)
(***************************************************************************)

\* A callback exception is raised only in the fiber whose request raised it,
\* whatever the siblings do while it is deferred; and that fiber, once its
\* exception is stashed, does not return normally, although its transfer has
\* completed like theirs.  Exempt from the first: when the fiber was cancelled,
\* or the driver failed, before the exception was handed over.
CallbackErrorsStayHome ==
  \A e \in Easies :
    /\ faults \cap {"cancel", "drive"} = {} =>
         (result[e] # None /\ result[e].kind = "callback" => result[e].of = e)
    /\ result[e] = Returned => threw[e] # "stashed"

\* No wakeup is lost: a fiber that sleeps has neither an outcome of its own nor
\* an error of the thread to raise.
NoLostWakeup ==
  \A e \in Easies : pc[e] = "blocked" => e \notin done /\ failure[e] = None /\ error = None

\* Queued work has a driver, unless the last driver has told all waiters that
\* it failed.
PendingIsDriven == pending # <<>> /\ driver = "off" => error # None

\* Where a callback exception can leave a waiter without an outcome: another
\* one is pending already and on_complete raises, or the driver fails meanwhile.
Stranding == "complete" \in faults \/ ("drive" \in faults /\ faults \cap CallbackFaults # {})

\* A fiber that waits is waited for by a driver: its request is queued, is
\* transferred, or has an outcome that a driver step is about to hand over.
WaiterIsServed ==
  \A e \in Easies : pc[e] = "blocked" /\ ~Stranding =>
    /\ driver # "off"
    /\ e \in requests \cup {completing} \/ (\E i \in DOMAIN pending : pending[i] = e) \/ e \in completed

\* Nobody is forgotten: no wakeup is lost, queued work has a driver, and whoever
\* waits is served, also around the moments at which a driver ends, fails or
\* is replaced (perform_with_scheduler, ensure_scheduler_driver).
NobodyIsForgotten == TypeOK /\ NoLostWakeup /\ PendingIsDriven /\ WaiterIsServed

\* Every perform ends.  Exempt: where a callback exception strands a waiter.
EveryPerformEnds == \A e \in Easies : pc[e] # "idle" /\ ~Stranding ~> pc[e] = "idle"

\* The shared multi is used as its class allows: nothing is added while an
\* exception is pending, and the exception is raised when nothing is left.
Contract == INSTANCE TransferContract WITH
  Multis <- {"multi"},
  Nobody <- None,
  owner  <- [e \in Easies |-> IF e \in requests THEN "multi" ELSE None],
  failed <- [m \in {"multi"} |-> deferred # None],
  shut   <- [m \in {"multi"} |-> FALSE]
UsesMultiByContract == Contract!Spec
=============================================================================
