----------------------------- MODULE SocketDrive -----------------------------
(***************************************************************************)
(* The socket-action loop of Multi#perform: the socket map and the timer   *)
(* deadline that libcurl's callbacks maintain, the cache of IO wrappers    *)
(* for the fiber scheduler, and the loop that waits on them and hands      *)
(* ready sockets and expired timers back to libcurl.                       *)
(*                                                                         *)
(* Source: ext/curb_multi.c.  Times are relative: a deadline of 2 is two   *)
(* units away, 0 is due, and -1 is none.  A transfer is named by the       *)
(* descriptor it uses.                                                     *)
(***************************************************************************)
EXTENDS Integers, FiniteSets

CONSTANTS
  Fds,            \* descriptors, one per transfer
  Hooks,          \* of "none": no fiber scheduler; "io_wait": one without the
                  \* optional io_select; "io_select": one with it
  DefaultTimeout, \* Multi.default_timeout
  MaxTimer,       \* bound: the longest timeout libcurl asks for
  MaxWork,        \* bound: the steps in which libcurl asks for something new
  Settings        \* the circumstances that are considered, of AllSettings

Polls == {"in", "out", "inout"}
AllWaits == Polls \cup {"timer", "hidden"}

(***************************************************************************)
(* waits: what the transfers wait for.                                     *)
(* liberties: of "vanish", descriptors are closed behind libcurl's back;   *)
(*   "raise", the block or libcurl fails; "again", perform is called again *)
(*   after it raised.                                                      *)
(***************************************************************************)
AllSettings ==
  [waits : SUBSET AllWaits, liberties : SUBSET {"vanish", "raise", "again"}]

ASSUME SocketAssumption ==
  /\ IsFiniteSet(Fds) /\ Fds # {} /\ Hooks # {}
  /\ Hooks \subseteq {"none", "io_wait", "io_select"}
  /\ DefaultTimeout \in Nat \ {0} /\ MaxTimer \in Nat /\ MaxWork \in Nat
  /\ Settings \subseteq AllSettings /\ Settings # {}

VARIABLES
  wait,     \* libcurl: what each transfer waits for
  expiry,   \* libcurl: when its next timer fires
  valid,    \* kernel: the open descriptors
  ready,    \* kernel: descriptors on which the awaited event happened
  sockMap,  \* ctx->sock_map
  ioCache,  \* ctx->io_cache: the mode of each wrapper
  deadline, \* ctx->timeout_deadline_ms
  running,  \* rbcm->running
  pc,
  batch,    \* ready_fds still to be handed to libcurl
  timedOut, \* did_timeout
  late,     \* a wait lasted past the expiry of libcurl's timer
  work,     \* what is left of MaxWork
  started,  \* perform was called
  hook,     \* the scheduler of the thread
  setting   \* the circumstances of this behaviour

libVars == <<wait, expiry, work>>
ctxVars == <<sockMap, ioCache, deadline>>
world == <<hook, setting>>
vars == <<libVars, ctxVars, valid, ready, running, pc, batch, timedOut, late, started, world>>

TypeOK ==
  /\ wait \in [Fds -> AllWaits \cup {"absent", "done"}] /\ expiry \in -1 .. MaxTimer
  /\ valid \subseteq Fds /\ ready \subseteq Fds
  /\ sockMap \in [Fds -> Polls \cup {"none"}]
  /\ ioCache \in [Fds -> {"none", "r", "w", "r+"}]
  /\ deadline \in -1 .. MaxTimer /\ running \in 0 .. Cardinality(Fds)
  /\ pc \in {"idle", "prime", "yield", "top", "act", "final"}
  /\ batch \subseteq Fds /\ timedOut \in BOOLEAN /\ late \in BOOLEAN
  /\ work \in 0 .. MaxWork /\ started \in BOOLEAN
  /\ hook \in Hooks /\ setting \in Settings

\* Some transfers were added before perform.
Init ==
  /\ \E added \in (SUBSET Fds) \ {{}} :
       /\ wait = [f \in Fds |-> IF f \in added THEN "timer" ELSE "absent"]
       /\ running = Cardinality(added)
  /\ expiry = 0 /\ valid = {} /\ ready = {}
  /\ sockMap = [f \in Fds |-> "none"] /\ ioCache = [f \in Fds |-> "none"]
  /\ deadline = -1 /\ pc = "idle" /\ batch = {} /\ timedOut = FALSE
  /\ late = FALSE /\ work = MaxWork /\ started = FALSE
  /\ hook \in Hooks /\ setting \in Settings

-----------------------------------------------------------------------------
\* What libcurl does when it is driven, and the callbacks it makes

Interest(w) == IF w \in Polls THEN w ELSE "none"
Live(w) == {f \in Fds : w[f] \notin {"absent", "done"}}
Tracked == {f \in Fds : sockMap[f] # "none"}
TimerDue == deadline = 0

\* multi_socket_forget_fd and multi_socket_cb: the entry of one descriptor.
CacheKeepsRemoved(f, what) ==
  IF what # "none" /\ sockMap[f] \notin {"none", what} THEN "none" ELSE ioCache[f]
CacheAfter(f, what) ==
  IF what = "none" \/ sockMap[f] \notin {"none", what} THEN "none" ELSE ioCache[f]
MapAfter(f, what) == what

\* libcurl calls the socket callback only for a change of interest.
SocketCallbacks(new) ==
  LET changed == {f \in Fds : Interest(new[f]) # Interest(wait[f])}
  IN /\ sockMap' = [f \in Fds |->
           IF f \in changed THEN MapAfter(f, Interest(new[f])) ELSE sockMap[f]]
     /\ ioCache' = [f \in Fds |->
           IF f \in changed THEN CacheAfter(f, Interest(new[f])) ELSE ioCache[f]]

\* multi_timer_cb.
TimerCb(before, timeout) == timeout

\* libcurl calls the timer callback when the time of its next timer changes,
\* and in any case when it was driven by CURL_SOCKET_TIMEOUT.
TimerCallback(before, new, forced) ==
  deadline' = IF forced \/ new # expiry THEN TimerCb(before, new) ELSE before

\* The transfers in moved go on to wait for something else, or end; the bound
\* lets libcurl ask for new things MaxWork times.
Drive(moved, before, forced, again) ==
  \E new \in [moved -> (IF work = 0 THEN {} ELSE setting.waits) \cup {"done"}],
     next \in -1 .. MaxTimer :
    LET all == [f \in Fds |-> IF f \in moved THEN new[f] ELSE wait[f]]
    IN /\ wait' = all
       /\ expiry' = next
       /\ ~again => next = expiry
       /\ work = 0 => next # 0 \/ (~forced /\ expiry = 0)
       /\ (\E f \in Fds : all[f] = "timer") => next >= 0
       /\ Live(all) = {} => next = -1
       /\ work' = IF work > 0 /\ (moved # {} \/ again) THEN work - 1 ELSE work
       /\ SocketCallbacks(all)
       /\ TimerCallback(before, next, forced)
       /\ valid' = (valid \ {f \in moved : all[f] \notin Polls})
                     \cup {f \in moved : all[f] \in Polls}
       /\ ready' = ready \ moved
       /\ running' = Cardinality(Live(all))

\* curl_multi_socket_action(CURL_SOCKET_TIMEOUT): expired timers, and work
\* that has neither a socket nor a timer.
TimeoutAction(before) ==
  LET due == {f \in Fds : wait[f] = "timer" /\ expiry = 0}
      hidden == {f \in Fds : wait[f] = "hidden"}
  IN Drive(due \cup hidden, before, TRUE, due \cup hidden # {} \/ expiry = 0)

\* curl_multi_socket_action(fd): a socket that libcurl gave up is ignored.
SocketAction(f) ==
  LET moved == {f} \cap ready \cap {g \in Fds : wait[g] \in Polls}
  IN Drive(moved, deadline, FALSE, moved # {})

-----------------------------------------------------------------------------
\* The loop

Perform ==
  /\ pc = "idle" /\ (~started \/ (running > 0 /\ "again" \in setting.liberties))
  /\ started' = TRUE /\ deadline' = -1 /\ pc' = "prime"
  /\ UNCHANGED <<libVars, sockMap, ioCache, valid, ready, running, batch, timedOut, late, world>>

Prime ==
  /\ pc = "prime"
  /\ TimeoutAction(deadline)
  /\ pc' = "yield"
  /\ UNCHANGED <<batch, timedOut, late, started, world>>

\* rb_curl_multi_read_info detaches the finished transfers, and the block,
\* which may have added one, is called.
ReadInfoAndYield ==
  LET rest == [f \in Fds |-> IF wait[f] = "done" THEN "absent" ELSE wait[f]]
  IN /\ \/ /\ wait' = rest
           /\ UNCHANGED <<expiry, deadline, running, work>>
        \/ \E f \in Fds :
           /\ rest[f] = "absent" /\ work > 0
           /\ wait' = [rest EXCEPT ![f] = "timer"]
           /\ expiry' = 0 /\ deadline' = TimerCb(deadline, 0)
           /\ running' = running + 1 /\ work' = work - 1
     /\ UNCHANGED <<valid, ready, batch, timedOut, late, started, world>>

Yield ==
  /\ pc = "yield" /\ ReadInfoAndYield
  /\ pc' = "top" /\ UNCHANGED <<sockMap, ioCache>>

LoopEnds == pc = "top" /\ running = 0 /\ pc' = "final" /\ UNCHANGED
  <<libVars, ctxVars, valid, ready, running, batch, timedOut, late, started, world>>

\* ruby_curl_multi_socket_drive_ensure.
Ensure ==
  /\ sockMap' = [f \in Fds |-> "none"] /\ ioCache' = [f \in Fds |-> "none"]
  /\ pc' = "idle"

\* The last yield, and the do-while around the loop: work queued there is run.
Final ==
  /\ pc = "final" /\ ReadInfoAndYield
  /\ IF running' > 0 THEN pc' = "prime" /\ UNCHANGED <<sockMap, ioCache>> ELSE Ensure

ServeTimer ==
  /\ pc = "top" /\ running > 0 /\ TimerDue
  /\ TimeoutAction(-1)
  /\ pc' = "yield"
  /\ UNCHANGED <<batch, timedOut, late, started, world>>

-----------------------------------------------------------------------------
\* Waiting

WaitDefault == DefaultTimeout
WaitMs == IF deadline >= 0 /\ deadline < DefaultTimeout THEN deadline ELSE DefaultTimeout

After(t, e) == IF t < 0 THEN t ELSE IF t > e THEN t - e ELSE 0

Elapse(e) ==
  /\ deadline' = After(deadline, e) /\ expiry' = After(expiry, e)
  /\ late' = (late \/ (expiry >= 0 /\ e > expiry))

Mode(what) == CASE what = "in" -> "r" [] what = "out" -> "w" [] OTHER -> "r+"

\* multi_socket_io_for_fd: the wrappers of these descriptors are created
\* unless they are cached.
Wrap(fds) == ioCache' = [f \in Fds |->
  IF f \in fds /\ ioCache[f] = "none" THEN Mode(sockMap[f]) ELSE ioCache[f]]

\* The descriptors of the map that select reports.
Collected(rep) == ready \cap Tracked

\* A wait ends at the first event, or when its time is over.
WaitFor(awaited, found) ==
  /\ \E e \in 0 .. WaitMs : (ready \cap awaited = {} => e = WaitMs) /\ Elapse(e)
  /\ batch' = found
  /\ timedOut' = (found = {} /\ deadline' = 0)
  /\ pc' = "act"

\* A representative that is no longer open is dropped.
Forget(rep) ==
  /\ sockMap' = [sockMap EXCEPT ![rep] = "none"]
  /\ ioCache' = [ioCache EXCEPT ![rep] = "none"]
  /\ timedOut' = TRUE /\ batch' = {} /\ pc' = "act"
  /\ UNCHANGED <<deadline, expiry, late>>

\* select() and rb_wait_for_single_fd() fail for a descriptor that is closed.
SelectRaises == Ensure /\ UNCHANGED <<deadline, expiry, late, batch, timedOut>>

\* No socket: sleep, then drive the timeout in any case.
SleepOnly == deadline' = 0
SleepDrives == TRUE
WaitWithoutSocket ==
  /\ Elapse(WaitMs)
  /\ timedOut' = SleepDrives /\ batch' = {} /\ pc' = "act"
  /\ UNCHANGED <<sockMap, ioCache>>

WaitOnOne(rep) ==
  \/ /\ hook # "none" /\ rep \notin valid /\ Forget(rep)
  \/ /\ hook = "none" /\ rep \notin valid /\ SelectRaises
  \/ /\ rep \in valid
     /\ WaitFor({rep}, ready \cap {rep})
     /\ IF hook = "none" THEN UNCHANGED ioCache ELSE Wrap({rep})
     /\ UNCHANGED sockMap

\* The scheduler's io_select, on wrappers of all descriptors.
IoSelect ==
  /\ hook = "io_select" /\ Tracked \subseteq valid
  /\ WaitFor(Tracked, ready \cap Tracked)
  /\ Wrap(Tracked) /\ UNCHANGED sockMap

\* The scheduler's io_wait on one descriptor, then a select that only polls;
\* also where io_select met a closed descriptor.
IoWait(rep) ==
  /\ hook = "io_wait" \/ (hook = "io_select" /\ ~(Tracked \subseteq valid))
  /\ \/ rep \notin valid /\ Forget(rep)
     \/ rep \in valid /\ ~(Tracked \subseteq valid) /\ SelectRaises
     \/ /\ Tracked \subseteq valid
        /\ WaitFor({rep}, Collected(rep))
        /\ Wrap({rep}) /\ UNCHANGED sockMap

Select(rep) ==
  /\ hook = "none"
  /\ \/ ~(Tracked \subseteq valid) /\ SelectRaises
     \/ /\ Tracked \subseteq valid
        /\ WaitFor(Tracked, Collected(rep))
        /\ UNCHANGED <<sockMap, ioCache>>

WaitStep ==
  /\ pc = "top" /\ running > 0 /\ ~TimerDue
  /\ \/ Tracked = {} /\ WaitWithoutSocket
     \/ \E rep \in Tracked :
        \/ Tracked = {rep} /\ WaitOnOne(rep)
        \/ Tracked # {rep} /\ (IoSelect \/ IoWait(rep) \/ Select(rep))
  /\ UNCHANGED <<wait, work, valid, ready, running, started, world>>

\* A signal interrupts a select that found nothing: the loop starts over.
Interrupted ==
  /\ pc = "top" /\ running > 0 /\ ~TimerDue /\ hook = "none"
  /\ Tracked # {} /\ ready \cap Tracked = {}
  /\ \E e \in 1 .. WaitMs : deadline > 0 /\ Elapse(e)
  /\ UNCHANGED <<wait, work, valid, ready, running, started, world, sockMap, ioCache, batch, timedOut, pc>>

\* One descriptor after the other, then the timeout.
ActOnSocket ==
  /\ pc = "act"
  /\ \E f \in batch : SocketAction(f) /\ batch' = batch \ {f}
  /\ UNCHANGED <<pc, timedOut, late, started, world>>

ActOnTimeout ==
  /\ pc = "act" /\ batch = {}
  /\ IF timedOut
     THEN TimeoutAction(-1)
     ELSE UNCHANGED <<libVars, ctxVars, valid, ready, running>>
  /\ pc' = "yield"
  /\ UNCHANGED <<batch, timedOut, late, started, world>>

\* libcurl refuses, or the block or a handler raises.
Raise ==
  /\ "raise" \in setting.liberties /\ pc \in {"yield", "act", "final"}
  /\ Ensure
  /\ UNCHANGED <<libVars, deadline, valid, ready, running, batch, timedOut, late, started, world>>

-----------------------------------------------------------------------------
\* The outside

\* The peer answers.
Arrives ==
  /\ \E f \in valid \ ready : wait[f] \in Polls /\ ready' = ready \cup {f}
  /\ UNCHANGED <<libVars, ctxVars, valid, running, pc, batch, timedOut, late, started, world>>

Vanishes ==
  /\ "vanish" \in setting.liberties
  /\ \E f \in valid : valid' = valid \ {f} /\ ready' = ready \ {f}
  /\ UNCHANGED <<libVars, ctxVars, running, pc, batch, timedOut, late, started, world>>

Loop ==
  \/ Prime \/ Yield \/ LoopEnds \/ Final \/ ServeTimer
  \/ WaitStep \/ ActOnSocket \/ ActOnTimeout

Next == Perform \/ Loop \/ Interrupted \/ Raise \/ Arrives \/ Vanishes

Spec == Init /\ [][Next]_vars

\* The loop runs whenever it can.
FairSpec == Spec /\ WF_vars(Loop)

\* Peers answer, and perform is called.
Answered == WF_vars(Arrives) /\ WF_vars(Perform)

-----------------------------------------------------------------------------
\* When the loop is about to wait, its map is what libcurl asked for, as far
\* as the descriptors are open: multi_socket_cb misses no change.
MapMirrors ==
  pc \in {"top", "act"} => \A f \in valid : sockMap[f] = Interest(wait[f])

\* A cached wrapper belongs to a descriptor of the map and is opened for what
\* libcurl waits for now: a descriptor that was closed and came back, or
\* whose interest changed, never meets the wrapper of before.
CacheIsCurrent ==
  \A f \in Fds : ioCache[f] # "none" =>
    sockMap[f] # "none" /\ ioCache[f] = Mode(sockMap[f])

\* No wait of the loop lasts past the moment libcurl asked to be called at.
NeverLate == ~late

\* Outside perform nothing is tracked; libcurl has no pointer to the context.
NothingLeftBehind == pc = "idle" => Tracked = {} /\ \A f \in Fds : ioCache[f] = "none"

\* The context of a perform is current in every state: map and cache follow
\* libcurl through closed and reused descriptors, and end with the perform.
ContextIsCurrent == TypeOK /\ MapMirrors /\ CacheIsCurrent /\ NothingLeftBehind

\* A socket that is ready is handed to libcurl, whatever the other transfers
\* and their timers do.
ReadyIsServed ==
  \A f \in Fds : (pc # "idle" /\ f \in ready) ~> (pc = "idle" \/ f \notin ready)

\* Perform ends once peers answer, with no transfer left: the loop never
\* waits for a socket it does not know or a timer it forgot.  Exempt: when a
\* perform raised, or descriptors are closed behind libcurl's back.
PerformEnds ==
  Answered =>
    (started /\ setting.liberties = {} ~> pc = "idle" /\ Live(wait) = {})

\* The loop makes progress: ready sockets are served and performs end.
LoopProgresses == ReadyIsServed /\ PerformEnds
==============================================================================
