----------------------------- MODULE CurlMulti -----------------------------
(***************************************************************************)
(* Curl::Multi and the Curl::Easy handles attached to it: the attachment   *)
(* tables of the C extension, the Ruby request table, libcurl's own set of *)
(* handles, the perform loop with its completion callbacks, and the        *)
(* deferred callback exception.                                            *)
(*                                                                         *)
(* Sources: ext/curb_multi.c, lib/curl/multi.rb, and the parts of          *)
(* ext/curb_easy.c and lib/curl/easy.rb that attach and detach handles.    *)
(*                                                                         *)
(* A perform is a frame with a program counter.  The frame holds the GVL   *)
(* (and the fiber) while it is in native code; user code runs when no      *)
(* frame is in native code: outside any perform, in a completion callback, *)
(* in the block given to perform, and, from another thread or fiber, while *)
(* a perform waits for its sockets.                                        *)
(***************************************************************************)
EXTENDS Integers, FiniteSets

CONSTANTS
  Easies,        \* the Curl::Easy objects of the program
  Multis,        \* the Curl::Multi objects of the program
  None,          \* Ruby's nil
  Autoclose,     \* the value of Curl::Multi.autoclose
  Liberties,     \* what the program does beyond the common use, see below
  MaxGeneration  \* bound: how often each easy is attached in a behaviour

(***************************************************************************)
(* "close_attached": Easy#close on an easy that a multi still holds.       *)
(* "perform_released": Multi#perform on a multi whose native handle was    *)
(*    released by autoclose and not re-created by an add.                  *)
(* "non_standard_error": a completion callback is left by an exception     *)
(*    that is no StandardError (Interrupt, SystemExit, a throw).           *)
(***************************************************************************)
AllLiberties == {"close_attached", "perform_released", "non_standard_error"}

\* What a deferred exception came from: a callback of the transfer, a status
\* callback, or one that is no StandardError.
Exceptions == {"body", "status", "fatal"}

ASSUME ConstantsAssumption ==
  /\ IsFiniteSet(Easies)
  /\ None \notin Easies \cup Multis \cup Exceptions
  /\ Autoclose \in BOOLEAN
  /\ Liberties \subseteq AllLiberties
  /\ MaxGeneration \in [Easies -> Nat]

VARIABLES
  \* struct ruby_curl_multi
  handle,         \* handle[m]: the CURLM handle exists
  closed,         \* closed[m]: Multi#close has succeeded
  performActive,  \* perform_active
  callbackActive, \* callback_active
  active,         \* number of transfers the extension counts as active
  running,        \* libcurl's still_running, incremented by _add
  attached,       \* the attached table, as a set of easies
  \* instance variables of Curl::Multi
  requests,       \* @requests
  idleRefs,       \* @__curb_idle_easy_references
  deferred,       \* @__curb_deferred_exception: None or what raised it
  \* struct ruby_curl_easy
  easyMulti,      \* multi: the back reference
  generation,     \* multi_attachment_generation
  callbackError,  \* callback_error: the generation it was raised in, 0 if nil
  \* libcurl
  added,          \* added[m]: the easy handles in the CURLM handle
  done,           \* done[m]: those with a CURLMSG_DONE message not yet read
  \* the frame of Multi#perform
  pc,
  last,           \* the frame is behind the inner while(running) loop
  completing,     \* the easy whose completion callbacks run
  snapshot,       \* attached_snapshot: generations, 0 for "not attached"
  masked,         \* easy_callback_error is not nil
  result,         \* how the last perform ended, as its caller sees it
  \* history
  late            \* easies attached since the current completion began

multiVars == <<handle, closed, performActive, callbackActive, active, running, attached>>
rubyVars  == <<requests, idleRefs, deferred>>
easyVars  == <<easyMulti, generation, callbackError>>
curlVars  == <<added, done>>
frameVars == <<pc, last, completing, snapshot, masked, result>>
vars == <<multiVars, rubyVars, easyVars, curlVars, frameVars, late>>

UserPoints == {"idle", "wait", "callback", "block"}
NoSnapshot == [e \in Easies |-> 0]

TypeOK ==
  /\ handle \in [Multis -> BOOLEAN]
  /\ closed \in [Multis -> BOOLEAN]
  /\ performActive \in [Multis -> BOOLEAN]
  /\ callbackActive \in [Multis -> BOOLEAN]
  /\ active \in [Multis -> Nat]
  /\ running \in [Multis -> Nat]
  /\ attached \in [Multis -> SUBSET Easies]
  /\ requests \in [Multis -> SUBSET Easies]
  /\ idleRefs \in [Multis -> SUBSET Easies]
  /\ deferred \in [Multis -> Exceptions \cup {None}]
  /\ easyMulti \in [Easies -> Multis \cup {None}]
  /\ generation \in [Easies -> Nat]
  /\ callbackError \in [Easies -> Nat]
  /\ added \in [Multis -> SUBSET Easies]
  /\ done \in [Multis -> SUBSET Easies]
  /\ pc \in [Multis -> UserPoints \cup {"run", "info"}]
  /\ last \in [Multis -> BOOLEAN]
  /\ completing \in [Multis -> Easies \cup {None}]
  /\ snapshot \in [Multis -> [Easies -> Nat]]
  /\ masked \in [Multis -> BOOLEAN]
  /\ result \in [Multis -> {"none", "ok", "raised"}]
  /\ late \in [Multis -> SUBSET Easies]

Init ==
  /\ handle = [m \in Multis |-> TRUE]
  /\ closed = [m \in Multis |-> FALSE]
  /\ performActive = [m \in Multis |-> FALSE]
  /\ callbackActive = [m \in Multis |-> FALSE]
  /\ active = [m \in Multis |-> 0]
  /\ running = [m \in Multis |-> 0]
  /\ attached = [m \in Multis |-> {}]
  /\ requests = [m \in Multis |-> {}]
  /\ idleRefs = [m \in Multis |-> {}]
  /\ deferred = [m \in Multis |-> None]
  /\ easyMulti = [e \in Easies |-> None]
  /\ generation = [e \in Easies |-> 0]
  /\ callbackError = [e \in Easies |-> 0]
  /\ added = [m \in Multis |-> {}]
  /\ done = [m \in Multis |-> {}]
  /\ pc = [m \in Multis |-> "idle"]
  /\ last = [m \in Multis |-> FALSE]
  /\ completing = [m \in Multis |-> None]
  /\ snapshot = [m \in Multis |-> NoSnapshot]
  /\ masked = [m \in Multis |-> FALSE]
  /\ result = [m \in Multis |-> "none"]
  /\ late = [m \in Multis |-> {}]

(***************************************************************************)
(* Control.  User code runs when no frame is in native code, and a frame's *)
(* native step runs when no other frame is in native code.                 *)
(***************************************************************************)
UserCode == \A m \in Multis : pc[m] \in UserPoints
InControl(m) == \A n \in Multis \ {m} : pc[n] \in UserPoints

(***************************************************************************)
(* libcurl: curl_multi_remove_handle succeeds on a handle that is in the   *)
(* given multi or in none, and refuses one that is in another multi;       *)
(* curl_multi_add_handle refuses a handle that is in any multi.            *)
(***************************************************************************)
RemoveHandleOK(m, e) == handle[m] /\ \A n \in Multis \ {m} : e \notin added[n]
AddHandleOK(e) == \A n \in Multis : e \notin added[n]

DecrementTwice(n, k) == n - 2 * k
DecrementForgotten(n, k) == n
Decrement(n, k) == IF n >= k THEN n - k ELSE 0
Without(f, m, S) == [f EXCEPT ![m] = @ \ S]

(***************************************************************************)
(* What taking the easies S out of m does to libcurl and to the extension  *)
(* (rb_curl_multi_remove for each of them), without the back references.   *)
(* libcurl drops the unread message of a handle it removes.                *)
(***************************************************************************)
Detach(m, S) ==
  /\ added' = Without(added, m, S)
  /\ done' = Without(done, m, S)
  /\ attached' = Without(attached, m, S)
  /\ active' = [active EXCEPT ![m] = Decrement(@, Cardinality(S))]
ClearBackReferences(S) ==
  easyMulti' = [e \in Easies |-> IF e \in S THEN None ELSE easyMulti[e]]

-----------------------------------------------------------------------------
(***************************************************************************)
(* The operations of the program.                                          *)
(***************************************************************************)

\* Nothing is started while a callback exception waits to be raised.
AcceptingAlways(m) == TRUE
Accepting(m) == deferred[m] = None

\* The check that raises "Cannot add an active Curl::Easy handle ...".
ActiveElsewhere(m, e) ==
  \E n \in Multis \ {m} : easyMulti[e] = n /\ e \in attached[n]

\* _add counts the new transfer as running, so that the perform loop goes on.
RunningNotCounted(m) == running[m]
RunningAfterAdd(m) == IF handle[m] THEN running[m] + 1 ELSE 1

\* ruby_curl_easy_setup forgets the callback error of an earlier transfer.
ErrorsKeptBySetup(e) == callbackError
ErrorsAfterSetup(e) == [callbackError EXCEPT ![e] = 0]

\* Multi#add.  The calls that return early (already requested, an exception
\* pending) and those on a closed multi change nothing.  An add to a multi
\* without a native handle re-creates it.
Add(m, e) ==
  /\ UserCode
  /\ e \notin requests[m]
  /\ Accepting(m)
  /\ handle[m] \/ ~closed[m]
  /\ e \notin attached[m]
  /\ ~ActiveElsewhere(m, e)
  /\ AddHandleOK(e)
  /\ generation[e] < MaxGeneration[e]
  /\ handle' = [handle EXCEPT ![m] = TRUE]
  /\ performActive' = [performActive EXCEPT ![m] = @ /\ handle[m]]
  /\ callbackActive' = [callbackActive EXCEPT ![m] = @ /\ handle[m]]
  /\ active' = [active EXCEPT ![m] = IF handle[m] THEN @ + 1 ELSE 1]
  /\ running' = [running EXCEPT ![m] = RunningAfterAdd(m)]
  /\ attached' = [attached EXCEPT ![m] = @ \cup {e}]
  /\ added' = [added EXCEPT ![m] = @ \cup {e}]
  /\ generation' = [generation EXCEPT ![e] = @ + 1]
  /\ callbackError' = ErrorsAfterSetup(e)
  /\ easyMulti' = [easyMulti EXCEPT ![e] = m]
  /\ idleRefs' = Without(idleRefs, m, {e})
  /\ requests' = [requests EXCEPT ![m] = @ \cup {e}]
  /\ late' = IF pc[m] = "callback" \/ deferred[m] # None
             THEN [late EXCEPT ![m] = @ \cup {e}] ELSE late
  /\ UNCHANGED <<closed, deferred, done, frameVars>>

\* Multi#add when _add raises: the easy is active in another multi, or its setup
\* fails ("No URL supplied").  The native handle is re-created by then, and a
\* setup that fails has forgotten the callback error.
AddRaises(m, e) ==
  /\ UserCode
  /\ e \notin requests[m]
  /\ Accepting(m)
  /\ handle[m] \/ ~closed[m]
  /\ e \notin attached[m]
  /\ handle' = [handle EXCEPT ![m] = TRUE]
  /\ performActive' = [performActive EXCEPT ![m] = @ /\ handle[m]]
  /\ callbackActive' = [callbackActive EXCEPT ![m] = @ /\ handle[m]]
  /\ active' = [active EXCEPT ![m] = IF handle[m] THEN @ ELSE 0]
  /\ running' = [running EXCEPT ![m] = IF handle[m] THEN @ ELSE 0]
  /\ callbackError' = IF ActiveElsewhere(m, e) THEN callbackError ELSE ErrorsAfterSetup(e)
  /\ UNCHANGED <<closed, attached, rubyVars, easyMulti, generation, curlVars, frameVars, late>>

\* Multi#remove, which forgets the request before it asks libcurl: when
\* libcurl refuses, the request is gone and the rest is unchanged.
Remove(m, e) ==
  /\ UserCode
  /\ e \in requests[m]
  /\ requests' = Without(requests, m, {e})
  /\ \/ /\ RemoveHandleOK(m, e)
        /\ Detach(m, {e})
        /\ ClearBackReferences({e})
     \/ /\ ~RemoveHandleOK(m, e)
        /\ UNCHANGED <<added, done, attached, active, easyMulti>>
  /\ UNCHANGED <<handle, closed, performActive, callbackActive, running, idleRefs,
                 deferred, generation, callbackError, frameVars, late>>

\* The multis that list e, as a request or in the attached table.
HoldersOf(e) == {m \in Multis : e \in requests[m] \cup attached[m]}

\* Easy#multi=.  A request of the previous multi is removed first.
Assign(e, n) ==
  LET previous == easyMulti[e] IN
  /\ UserCode
  /\ previous # n
  /\ \/ /\ previous \in HoldersOf(e)
        /\ RemoveHandleOK(previous, e)
        /\ requests' = Without(requests, previous, {e})
        /\ Detach(previous, {e})
     \/ /\ previous \notin HoldersOf(e)
        /\ UNCHANGED <<requests, added, done, attached, active>>
  /\ easyMulti' = [easyMulti EXCEPT ![e] = n]
  /\ idleRefs' = [m \in Multis |-> (idleRefs[m] \ (IF m = previous THEN {e} ELSE {}))
                                   \cup (IF m = n THEN {e} ELSE {})]
  /\ UNCHANGED <<handle, closed, performActive, callbackActive, running, deferred,
                 generation, callbackError, frameVars, late>>

\* Easy#close, refused while a callback of that easy runs.  The C code takes
\* the handle out of libcurl and out of the attached table, but touches
\* neither the counter of the multi nor its request table.
CloseEasy(e) ==
  LET previous == easyMulti[e]
      Forget(f) == [m \in Multis |-> IF m = previous THEN f[m] \ {e} ELSE f[m]]
  IN
  /\ UserCode
  /\ \A m \in Multis : completing[m] # e
  /\ (\E m \in Multis : e \in attached[m]) => "close_attached" \in Liberties
  /\ added' = Forget(added)
  /\ done' = Forget(done)
  /\ attached' = Forget(attached)
  /\ idleRefs' = Forget(idleRefs)
  /\ easyMulti' = [easyMulti EXCEPT ![e] = None]
  /\ callbackError' = [callbackError EXCEPT ![e] = 0]
  /\ UNCHANGED <<handle, closed, performActive, callbackActive, active, running,
                 requests, deferred, generation, frameVars, late>>

\* The requests on which Multi#__close stops, because libcurl refuses them.
Unremovable(m) == {e \in requests[m] : ~RemoveHandleOK(m, e)}

\* Multi#__close when some request cannot be removed: those before it in the
\* request table are gone from libcurl, and the table itself is untouched.
CloseStops(m) ==
  /\ Unremovable(m) # {}
  /\ \E R \in SUBSET (requests[m] \ Unremovable(m)) :
       Detach(m, R) /\ ClearBackReferences(R)
  /\ UNCHANGED <<handle, closed, running, requests, idleRefs, deferred>>

\* The back references that Multi#__close clears.
ClosedRequestsOnly(m, permanent) == requests[m]
ClosedReferences(m, permanent) ==
  requests[m] \cup (IF permanent THEN {e \in idleRefs[m] : easyMulti[e] = m} ELSE {})

ForgetIdle(m, permanent) ==
  idleRefs' = IF permanent THEN [idleRefs EXCEPT ![m] = {}] ELSE idleRefs

\* Multi#__close when _close accepts: everything attached is detached, the
\* native handle is freed, a pending exception is dropped.
CloseAccepted(m, permanent) ==
  /\ Unremovable(m) = {}
  /\ added' = [added EXCEPT ![m] = {}]
  /\ done' = [done EXCEPT ![m] = {}]
  /\ attached' = [attached EXCEPT ![m] = {}]
  /\ active' = [active EXCEPT ![m] = 0]
  /\ running' = [running EXCEPT ![m] = 0]
  /\ requests' = [requests EXCEPT ![m] = {}]
  /\ ForgetIdle(m, permanent)
  /\ ClearBackReferences(ClosedReferences(m, permanent) \cup attached[m])
  /\ handle' = [handle EXCEPT ![m] = FALSE]
  /\ closed' = [closed EXCEPT ![m] = @ \/ permanent]
  /\ deferred' = [deferred EXCEPT ![m] = None]

\* Multi#close when _close raises because a perform is active.  By then the
\* requests have been removed and the request table has been replaced.
CloseRejected(m) ==
  /\ Unremovable(m) = {}
  /\ Detach(m, requests[m])
  /\ requests' = [requests EXCEPT ![m] = {}]
  /\ ForgetIdle(m, TRUE)
  /\ ClearBackReferences(ClosedReferences(m, TRUE))
  /\ UNCHANGED <<handle, closed, running, deferred>>

\* The test of _close; autoclose passes it with allow_close_during_perform.
CloseGuardedInCallback(m) == callbackActive[m]
CloseGuarded(m) == performActive[m] \/ callbackActive[m]

\* Multi#close.
CloseMulti(m) ==
  /\ UserCode
  /\ \/ CloseStops(m)
     \/ CloseGuarded(m) /\ CloseRejected(m)
     \/ ~CloseGuarded(m) /\ CloseAccepted(m, TRUE)
  /\ late' = IF deferred'[m] = None /\ pc[m] # "callback"
             THEN [late EXCEPT ![m] = {}] ELSE late
  /\ UNCHANGED <<performActive, callbackActive, generation, callbackError, frameVars>>

-----------------------------------------------------------------------------
(***************************************************************************)
(* Multi#perform.                                                          *)
(***************************************************************************)

\* The guard raises perform_active before ensure_handle; re-creating a
\* released handle runs ruby_curl_multi_init, which lowers it again.
Perform(m) ==
  /\ UserCode
  /\ pc[m] = "idle"
  /\ handle[m] \/ (~closed[m] /\ "perform_released" \in Liberties)
  /\ handle' = [handle EXCEPT ![m] = TRUE]
  /\ performActive' = [performActive EXCEPT ![m] = handle[m]]
  /\ callbackActive' = [callbackActive EXCEPT ![m] = @ /\ handle[m]]
  /\ active' = [active EXCEPT ![m] = IF handle[m] THEN @ ELSE 0]
  /\ running' = [running EXCEPT ![m] = IF handle[m] THEN @ ELSE 0]
  /\ pc' = [pc EXCEPT ![m] = "run"]
  /\ last' = [last EXCEPT ![m] = FALSE]
  /\ result' = [result EXCEPT ![m] = "none"]
  /\ UNCHANGED <<closed, attached, rubyVars, easyVars, curlVars, completing,
                 snapshot, masked, late>>

\* The end of a perform: the ensure of the guard, and what the caller sees.
Leave(m, how) ==
  /\ pc' = [pc EXCEPT ![m] = "idle"]
  /\ last' = [last EXCEPT ![m] = FALSE]
  /\ performActive' = [performActive EXCEPT ![m] = FALSE]
  /\ callbackActive' = [callbackActive EXCEPT ![m] = FALSE]
  /\ result' = [result EXCEPT ![m] = how]
  /\ UNCHANGED <<completing, snapshot, masked>>

\* rb_curl_multi_run after the sockets were waited for: the transfers D
\* finish, those in B because a Ruby callback of the transfer raised.
Run(m) ==
  /\ pc[m] \in {"run", "wait"}
  /\ InControl(m)
  /\ handle[m]
  /\ \E D \in SUBSET (added[m] \ done[m]) : \E B \in SUBSET D :
       /\ done' = [done EXCEPT ![m] = @ \cup D]
       /\ running' = [running EXCEPT ![m] = Cardinality(added[m] \ (done[m] \cup D))]
       /\ callbackError' = [e \in Easies |-> IF e \in B THEN generation[e] ELSE callbackError[e]]
  /\ pc' = [pc EXCEPT ![m] = "info"]
  /\ UNCHANGED <<handle, closed, performActive, callbackActive, active, attached, rubyVars,
                 easyMulti, generation, added, last, completing, snapshot, masked,
                 result, late>>

\* The wait or curl_multi_perform fails (a select error, a CURLMcode, a fiber
\* cancelled in its wait): the exception leaves perform, nothing is detached.
RunRaises(m) ==
  /\ pc[m] \in {"run", "wait"}
  /\ InControl(m)
  /\ Leave(m, "raised")
  /\ UNCHANGED <<handle, closed, active, running, attached, rubyVars, easyVars, curlVars, late>>

StashIfUnset(m, exception) ==
  deferred' = [deferred EXCEPT ![m] = IF @ = None THEN exception ELSE @]

\* rb_curl_mutli_handle_complete up to the first status callback.
HandleComplete(m, e) ==
  /\ pc[m] = "info"
  /\ e \in done[m]
  /\ Detach(m, {e})
  /\ requests' = Without(requests, m, {e})
  /\ snapshot' = [snapshot EXCEPT ![m] =
                    [x \in Easies |-> IF x \in attached[m] \ {e} THEN generation[x] ELSE 0]]
  /\ masked' = [masked EXCEPT ![m] = callbackError[e] # 0]
  /\ callbackError' = [callbackError EXCEPT ![e] = 0]
  /\ IF callbackError[e] # 0 THEN StashIfUnset(m, "body") ELSE UNCHANGED deferred
  /\ callbackActive' = [callbackActive EXCEPT ![m] = TRUE]
  /\ completing' = [completing EXCEPT ![m] = e]
  /\ pc' = [pc EXCEPT ![m] = "callback"]
  /\ late' = IF deferred[m] = None THEN [late EXCEPT ![m] = {}] ELSE late
  /\ UNCHANGED <<handle, closed, performActive, running, idleRefs, easyMulti,
                 generation, last, result>>

\* rb_curl_multi_has_easy at the end of the completion callbacks.
NeverAttachedAgain(m, e) == FALSE
AttachedAgain(m, e) == e \in attached'[m]

\* rb_curl_multi_finish_completion_callbacks: the back reference of the easy
\* is cleared unless its callbacks have moved it or attached it again.
FinishCompletion(m, references) ==
  LET e == completing[m] IN
  /\ easyMulti' = [references EXCEPT ![e] = IF @ = m /\ ~AttachedAgain(m, e) THEN None ELSE @]
  /\ callbackActive' = [callbackActive EXCEPT ![m] = FALSE]
  /\ completing' = [completing EXCEPT ![m] = None]
  /\ snapshot' = [snapshot EXCEPT ![m] = NoSnapshot]
  /\ masked' = [masked EXCEPT ![m] = FALSE]
  /\ pc' = [pc EXCEPT ![m] = "info"]
  /\ late' = IF deferred'[m] = None THEN [late EXCEPT ![m] = {}] ELSE late
  /\ UNCHANGED <<handle, closed, performActive, running, idleRefs, generation,
                 callbackError, last, result>>

\* The status callbacks return, or raise while they are masked by an error of
\* the transfer's own callbacks, which is stashed already.
CallbackReturns(m) ==
  /\ pc[m] = "callback"
  /\ InControl(m)
  /\ UNCHANGED <<deferred, requests, attached, active, added, done>>
  /\ FinishCompletion(m, easyMulti)

\* The easies that rb_curl_multi_remove_added_easies_since_snapshot removes.
AddedByKeyOnly(m) == {x \in attached[m] : snapshot[m][x] = 0 /\ easyMulti[x] = m}
AddedSinceSnapshot(m) ==
  {x \in attached[m] : snapshot[m][x] # generation[x] /\ easyMulti[x] = m}

\* A status callback raises a StandardError: it is stashed, and whatever the
\* callbacks attached is removed again.
CallbackRaises(m) ==
  LET R == AddedSinceSnapshot(m) IN
  /\ pc[m] = "callback"
  /\ InControl(m)
  /\ ~masked[m]
  /\ StashIfUnset(m, "status")
  /\ requests' = Without(requests, m, R)
  /\ Detach(m, R)
  /\ FinishCompletion(m, [x \in Easies |-> IF x \in R THEN None ELSE easyMulti[x]])

\* Another exception passes rb_rescue and is stashed by rb_curl_multi_read_info.
CallbackThrows(m) ==
  /\ "non_standard_error" \in Liberties
  /\ pc[m] = "callback"
  /\ InControl(m)
  /\ StashIfUnset(m, "fatal")
  /\ UNCHANGED <<requests, attached, active, added, done>>
  /\ FinishCompletion(m, easyMulti)

\* The test of raise_multi_deferred_exception_if_idle.
Drained(m) == active[m] = 0

\* No message is left: raise_multi_deferred_exception_if_idle, else the block.
InfoEnds(m) ==
  /\ pc[m] = "info"
  /\ done[m] = {}
  /\ \/ /\ deferred[m] # None /\ Drained(m)
        /\ deferred' = [deferred EXCEPT ![m] = None]
        /\ late' = [late EXCEPT ![m] = {}]
        /\ Leave(m, "raised")
     \/ /\ deferred[m] = None \/ ~Drained(m)
        /\ pc' = [pc EXCEPT ![m] = "block"]
        /\ UNCHANGED <<deferred, late, last, performActive, callbackActive, result,
                       completing, snapshot, masked>>
  /\ UNCHANGED <<handle, closed, active, running, attached, requests, idleRefs,
                 easyVars, curlVars>>

\* The block raises: the exception leaves perform, nothing is detached.
BlockRaises(m) ==
  /\ pc[m] = "block"
  /\ InControl(m)
  /\ Leave(m, "raised")
  /\ UNCHANGED <<handle, closed, active, running, attached, rubyVars, easyVars, curlVars, late>>

\* The block returns and something still runs: wait for it.  Otherwise the
\* messages are read and the block is called once more behind the loop.
BlockReturns(m) ==
  /\ pc[m] = "block"
  /\ InControl(m)
  /\ \/ /\ running[m] # 0
        /\ pc' = [pc EXCEPT ![m] = "wait"]
        /\ last' = [last EXCEPT ![m] = FALSE]
     \/ /\ running[m] = 0 /\ ~last[m]
        /\ pc' = [pc EXCEPT ![m] = "info"]
        /\ last' = [last EXCEPT ![m] = TRUE]
  /\ UNCHANGED <<multiVars, rubyVars, easyVars, curlVars, completing, snapshot,
                 masked, result, late>>

\* Nothing runs after the last call of the block: perform returns, closing the
\* multi on its way out when autoclose is on.
PerformReturns(m) ==
  /\ pc[m] = "block"
  /\ InControl(m)
  /\ running[m] = 0 /\ last[m]
  /\ \/ /\ ~Autoclose
        /\ Leave(m, "ok")
        /\ UNCHANGED <<handle, closed, active, running, attached, rubyVars, easyMulti,
                       curlVars, late>>
     \/ /\ Autoclose
        /\ CloseAccepted(m, FALSE)
        /\ Leave(m, "ok")
        /\ late' = [late EXCEPT ![m] = {}]
     \/ /\ Autoclose
        /\ CloseStops(m)
        /\ Leave(m, "raised")
        /\ UNCHANGED late
  /\ UNCHANGED <<generation, callbackError>>

-----------------------------------------------------------------------------
Program ==
  \/ \E m \in Multis, e \in Easies : Add(m, e) \/ AddRaises(m, e) \/ Remove(m, e)
  \/ \E e \in Easies : CloseEasy(e) \/ \E n \in Multis \cup {None} : Assign(e, n)
  \/ \E m \in Multis : CloseMulti(m) \/ Perform(m)

Loop(m) ==
  \/ Run(m) \/ RunRaises(m)
  \/ \E e \in Easies : HandleComplete(m, e)
  \/ CallbackReturns(m) \/ CallbackRaises(m) \/ CallbackThrows(m)
  \/ InfoEnds(m) \/ BlockReturns(m) \/ BlockRaises(m) \/ PerformReturns(m)

Next == Program \/ \E m \in Multis : Loop(m)

Spec == Init /\ [][Next]_vars

(***************************************************************************)
(* Fairness.  Ruby gives every thread and fiber that can run control again *)
(* and again, user callbacks and blocks end, and libcurl ends a transfer   *)
(* that it is driven for again and again (it has a timeout, or the server  *)
(* answers).                                                               *)
(***************************************************************************)
Fairness ==
  \A m \in Multis :
    /\ SF_vars(CallbackReturns(m) \/ CallbackRaises(m) \/ CallbackThrows(m))
    /\ SF_vars(BlockReturns(m) \/ BlockRaises(m) \/ PerformReturns(m))
    /\ SF_vars(Run(m))
    /\ WF_vars(InfoEnds(m))
    /\ \A e \in Easies : WF_vars(HandleComplete(m, e))
    /\ \A e \in Easies : SF_vars(Run(m) /\ e \in done'[m])

FairSpec == Spec /\ Fairness

-----------------------------------------------------------------------------
(***************************************************************************)
(* Properties.                                                             *)
(***************************************************************************)

\* The three records of who owns a transfer agree whatever the program does:
\* the attached table of the extension is libcurl's own set, the back
\* reference of an attached easy is the multi that holds it (so an easy is
\* never in two multis), what is attached is listed in Multi#requests, and an
\* unread message belongs to a handle that is still in the multi.
OwnershipAgrees ==
  \A m \in Multis :
    /\ added[m] = attached[m]
    /\ done[m] \subseteq attached[m]
    /\ attached[m] \subseteq requests[m]
    /\ \A e \in attached[m] : easyMulti[e] = m

\* The counter that decides when a deferred exception may be raised is the
\* number of requests, and a request is a transfer, unless the program closes
\* attached easies.
ActiveIsExact ==
  "close_attached" \notin Liberties =>
    \A m \in Multis : requests[m] = attached[m] /\ active[m] = Cardinality(requests[m])

\* The perform loop stops when running is 0: it counts at least every transfer
\* that has not finished, also those added by callbacks after the last call of
\* curl_multi_perform and after others were removed.
RunningCoversTransfers ==
  \A m \in Multis : Cardinality(added[m] \ done[m]) <= running[m]

\* A native handle that a perform is using is not freed.
HandleOutlivesPerform == \A m \in Multis : pc[m] # "idle" => handle[m]

\* While an exception of a callback is pending, no transfer is attached that
\* was added after the completion that raised it: neither one that the failing
\* callbacks added (or removed and added again), nor a later one.
NoReplacementWork ==
  \A m \in Multis : deferred[m] \in {"body", "status"} => attached[m] \cap late[m] = {}

\* An error stored on an attached easy was raised by the transfer in progress,
\* not by an earlier one that was removed before its completion was read.
CallbackErrorIsFresh ==
  \A m \in Multis : \A e \in attached[m] : callbackError[e] \in {0, generation[e]}

\* A perform that returns normally leaves an idle multi and swallows no
\* exception of a callback.
PerformReturnsIdle ==
  [][\A m \in Multis : result[m] = "none" /\ result'[m] = "ok"
        => requests[m] = {} /\ attached[m] = {} /\ deferred[m] = None]_vars

\* Multi#close leaves no easy that refers to the closed multi.
CloseClearsReferences ==
  [][\A m \in Multis : ~closed[m] /\ closed'[m] => \A e \in Easies : easyMulti'[e] # m]_vars

\* The tables, counters and the loop implement the contract of the class: who
\* owns a transfer, and when a callback exception may be raised.
OwnerOf(e) == IF \E m \in Multis : e \in attached[m]
              THEN CHOOSE m \in Multis : e \in attached[m] ELSE None
Contract == INSTANCE TransferContract WITH
  Nobody <- None,
  owner  <- [e \in Easies |-> OwnerOf(e)],
  failed <- [m \in Multis |-> deferred[m] # None],
  shut   <- closed
ImplementsContract == Contract!Spec

\* A callback exception is raised out of the perform that deferred it, or that
\* perform ends with another exception; it is neither dropped nor left pending.
\* Exempt: programs that close an attached easy, which stays a request.
DeferredIsRaised ==
  \A m \in Multis :
    [](requests[m] = attached[m])
      => (deferred[m] # None /\ pc[m] # "idle" ~> result[m] = "raised")
=============================================================================
