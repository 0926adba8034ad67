-------------------------- MODULE SocketDriveProofs --------------------------
(***************************************************************************)
(* Proofs about SocketDrive, for any descriptors, schedulers, timeouts and *)
(* any amount of work that libcurl asks for.                               *)
(***************************************************************************)
EXTENDS SocketDrive, FiniteSetTheorems, TLAPS

Waits == AllWaits \cup {"absent", "done"}
Interests == Polls \cup {"none"}

-----------------------------------------------------------------------------
(***************************************************************************)
(* What a drive of libcurl changes.                                        *)
(***************************************************************************)

\* Some of the descriptors are at most all of them.
LEMMA LiveFacts ==
  ASSUME NEW w
  PROVE  /\ Cardinality(Live(w)) \in 0 .. Cardinality(Fds)
         /\ IsFiniteSet(Live(w))
<1>1. Live(w) \in SUBSET Fds BY DEF Live
<1> QED BY <1>1, SocketAssumption, FS_Subset, FS_CardinalityType

\* The callbacks that libcurl makes while it is driven keep the types, follow
\* each change of interest, and follow each change of the timer; a descriptor
\* comes into use only for a transfer that went on to wait for it.
LEMMA DriveFacts ==
  ASSUME TypeOK, NEW moved \in SUBSET Fds, NEW before \in -1 .. MaxTimer,
         NEW forced \in BOOLEAN, NEW again \in BOOLEAN, Drive(moved, before, forced, again)
  PROVE  /\ wait' \in [Fds -> Waits] /\ expiry' \in -1 .. MaxTimer /\ work' \in 0 .. MaxWork
         /\ deadline' \in -1 .. MaxTimer /\ valid' \subseteq Fds /\ ready' \subseteq Fds
         /\ sockMap' \in [Fds -> Interests] /\ ioCache' \in [Fds -> {"none", "r", "w", "r+"}]
         /\ running' = Cardinality(Live(wait'))
         /\ \A f \in Fds \ moved : wait'[f] = wait[f] /\ (f \in valid' <=> f \in valid)
         /\ \A f \in moved : f \in valid' <=> wait'[f] \in Polls
         /\ ready' = ready \ moved
         /\ \A f \in Fds : IF Interest(wait'[f]) # Interest(wait[f])
              THEN /\ sockMap'[f] = Interest(wait'[f])
                   /\ ioCache'[f] = CacheAfter(f, Interest(wait'[f]))
              ELSE sockMap'[f] = sockMap[f] /\ ioCache'[f] = ioCache[f]
         /\ forced => deadline' = expiry'
         /\ deadline' = expiry' \/ (deadline' = before /\ expiry' = expiry)
<1>1. setting.waits \subseteq AllWaits BY SocketAssumption DEF TypeOK, AllSettings
<1>2. PICK new \in [moved -> (IF work = 0 THEN {} ELSE setting.waits) \cup {"done"}],
           next \in -1 .. MaxTimer :
        LET all == [f \in Fds |-> IF f \in moved THEN new[f] ELSE wait[f]]
        IN /\ wait' = all /\ expiry' = next
           /\ work' = IF work > 0 /\ (moved # {} \/ again) THEN work - 1 ELSE work
           /\ SocketCallbacks(all)
           /\ TimerCallback(before, next, forced)
           /\ valid' = (valid \ {f \in moved : all[f] \notin Polls})
                         \cup {f \in moved : all[f] \in Polls}
           /\ ready' = ready \ moved
           /\ running' = Cardinality(Live(all))
  BY DEF Drive
<1> DEFINE all == [f \in Fds |-> IF f \in moved THEN new[f] ELSE wait[f]]
<1>3. all \in [Fds -> Waits]
  <2>1. \A f \in moved : new[f] \in Waits BY <1>1, <1>2 DEF Waits
  <2> QED BY <2>1 DEF TypeOK, Waits
<1>4. \A f \in Fds \ moved : all[f] = wait[f] OBVIOUS
<1>5. /\ wait' = all /\ expiry' = next
      /\ work' = IF work > 0 /\ (moved # {} \/ again) THEN work - 1 ELSE work
      /\ SocketCallbacks(all)
      /\ TimerCallback(before, next, forced)
      /\ valid' = (valid \ {f \in moved : all[f] \notin Polls}) \cup {f \in moved : all[f] \in Polls}
      /\ ready' = ready \ moved
      /\ running' = Cardinality(Live(all))
  BY <1>2
<1> HIDE DEF all
<1>6. \A f \in Fds : Interest(all[f]) \in Interests BY DEF Interest, Interests
<1>7. \A f \in Fds : CacheAfter(f, Interest(all[f])) \in {"none", "r", "w", "r+"}
  BY DEF CacheAfter, TypeOK
<1>8. /\ sockMap' = [f \in Fds |->
           IF Interest(all[f]) # Interest(wait[f]) THEN Interest(all[f]) ELSE sockMap[f]]
      /\ ioCache' = [f \in Fds |->
           IF Interest(all[f]) # Interest(wait[f]) THEN CacheAfter(f, Interest(all[f]))
           ELSE ioCache[f]]
  <2> DEFINE changed == {f \in Fds : Interest(all[f]) # Interest(wait[f])}
  <2>1. /\ sockMap' = [f \in Fds |->
             IF f \in changed THEN MapAfter(f, Interest(all[f])) ELSE sockMap[f]]
        /\ ioCache' = [f \in Fds |->
             IF f \in changed THEN CacheAfter(f, Interest(all[f])) ELSE ioCache[f]]
    BY <1>5 DEF SocketCallbacks
  <2>2. \A f \in Fds : f \in changed <=> Interest(all[f]) # Interest(wait[f]) OBVIOUS
  <2> HIDE DEF changed
  <2> QED BY <2>1, <2>2 DEF MapAfter
<1>9. sockMap' \in [Fds -> Interests] BY <1>6, <1>8 DEF TypeOK, Interests
<1>10. ioCache' \in [Fds -> {"none", "r", "w", "r+"}] BY <1>7, <1>8 DEF TypeOK
<1>11. \A f \in Fds : IF Interest(wait'[f]) # Interest(wait[f])
         THEN /\ sockMap'[f] = Interest(wait'[f])
              /\ ioCache'[f] = CacheAfter(f, Interest(wait'[f]))
         ELSE sockMap'[f] = sockMap[f] /\ ioCache'[f] = ioCache[f]
  BY <1>5, <1>8
<1>12. /\ forced => deadline' = expiry'
       /\ deadline' = expiry' \/ (deadline' = before /\ expiry' = expiry)
  BY <1>5 DEF TimerCallback, TimerCb
<1>13. work' \in 0 .. MaxWork BY <1>5, SocketAssumption DEF TypeOK
<1>14. valid' \subseteq Fds /\ ready' \subseteq Fds BY <1>5 DEF TypeOK
<1>15. /\ \A f \in Fds \ moved : wait'[f] = wait[f] /\ (f \in valid' <=> f \in valid)
       /\ \A f \in moved : f \in valid' <=> wait'[f] \in Polls
  BY <1>4, <1>5
<1>16. expiry' \in -1 .. MaxTimer /\ deadline' \in -1 .. MaxTimer BY <1>5, <1>12
<1> QED BY <1>3, <1>5, <1>9, <1>10, <1>11, <1>12, <1>13, <1>14, <1>15, <1>16

\* rb_curl_multi_read_info and the block: the transfers that ended are gone, one
\* may be new, and no socket is concerned.
LEMMA YieldFacts ==
  ASSUME TypeOK, running = Cardinality(Live(wait)), ReadInfoAndYield
  PROVE  /\ wait' \in [Fds -> Waits] /\ work' \in 0 .. MaxWork
         /\ running' = Cardinality(Live(wait'))
         /\ \A f \in Fds : Interest(wait'[f]) = Interest(wait[f])
         /\ UNCHANGED <<valid, ready, batch, timedOut, late, started, world>>
         /\ UNCHANGED <<expiry, deadline>> \/ (expiry' = 0 /\ deadline' = 0)
<1> DEFINE rest == [f \in Fds |-> IF wait[f] = "done" THEN "absent" ELSE wait[f]]
<1>1. rest \in [Fds -> Waits] BY DEF TypeOK, Waits
<1>2. \A f \in Fds : Interest(rest[f]) = Interest(wait[f]) BY DEF Interest, Polls
<1>3. Live(rest) = Live(wait) BY DEF Live
<1>4. UNCHANGED <<valid, ready, batch, timedOut, late, started, world>> BY DEF ReadInfoAndYield
<1>5. \/ wait' = rest /\ UNCHANGED <<expiry, deadline, running, work>>
      \/ \E f \in Fds :
           /\ rest[f] = "absent" /\ work > 0
           /\ wait' = [rest EXCEPT ![f] = "timer"]
           /\ expiry' = 0 /\ deadline' = 0
           /\ running' = running + 1 /\ work' = work - 1
  BY DEF ReadInfoAndYield, TimerCb
<1> HIDE DEF rest
<1>6. CASE wait' = rest /\ UNCHANGED <<expiry, deadline, running, work>>
  BY <1>1, <1>2, <1>3, <1>4, <1>6 DEF TypeOK
<1>7. ASSUME NEW f \in Fds, rest[f] = "absent", work > 0,
             wait' = [rest EXCEPT ![f] = "timer"], expiry' = 0, deadline' = 0,
             running' = running + 1, work' = work - 1
      PROVE  /\ wait' \in [Fds -> Waits] /\ work' \in 0 .. MaxWork
             /\ running' = Cardinality(Live(wait'))
             /\ \A g \in Fds : Interest(wait'[g]) = Interest(wait[g])
  <2>1. wait' \in [Fds -> Waits] BY <1>1, <1>7 DEF Waits, AllWaits
  <2>2. work' \in 0 .. MaxWork BY <1>7, SocketAssumption DEF TypeOK
  <2>3. Live(wait') = Live(wait) \cup {f} /\ f \notin Live(wait)
    <3>1. Live(wait') = Live(rest) \cup {f} BY <1>1, <1>7 DEF Live
    <3>2. f \notin Live(rest) BY <1>7 DEF Live
    <3> QED BY <1>3, <3>1, <3>2
  <2>4. running' = Cardinality(Live(wait')) BY <1>7, <2>3, LiveFacts, FS_AddElement
  <2>5. \A g \in Fds : Interest(wait'[g]) = Interest(rest[g])
    BY <1>1, <1>7 DEF Interest, Polls
  <2> QED BY <1>2, <2>1, <2>2, <2>4, <2>5
<1> QED BY <1>4, <1>5, <1>6, <1>7

-----------------------------------------------------------------------------
(***************************************************************************)
(* The inductive invariant: types, rbcm->running counts the transfers that *)
(* are not done, and within the loop the deadline that curb keeps is the   *)
(* one that libcurl asked for, so that no wait can be too long.            *)
(***************************************************************************)

Counted == running = Cardinality(Live(wait))

OnTime == pc \notin {"idle", "prime"} => deadline = expiry

Base == TypeOK /\ Counted /\ OnTime /\ NeverLate /\ CacheIsCurrent /\ NothingLeftBehind

\* A step of the loop that drives libcurl.
LEMMA DriveBase ==
  ASSUME Base, NEW moved \in SUBSET Fds, NEW before \in -1 .. MaxTimer,
         NEW forced \in BOOLEAN, NEW again \in BOOLEAN, Drive(moved, before, forced, again),
         forced \/ (before = deadline /\ deadline = expiry),
         pc' \in {"yield", "act"}, batch' \subseteq Fds,
         UNCHANGED <<timedOut, late, started, world>>
  PROVE  Base'
<1>0. TypeOK /\ NeverLate /\ CacheIsCurrent BY DEF Base
<1>1. /\ wait' \in [Fds -> Waits] /\ expiry' \in -1 .. MaxTimer /\ work' \in 0 .. MaxWork
      /\ deadline' \in -1 .. MaxTimer /\ valid' \subseteq Fds /\ ready' \subseteq Fds
      /\ sockMap' \in [Fds -> Interests] /\ ioCache' \in [Fds -> {"none", "r", "w", "r+"}]
      /\ running' = Cardinality(Live(wait'))
      /\ forced => deadline' = expiry'
      /\ deadline' = expiry' \/ (deadline' = before /\ expiry' = expiry)
  <2>1. wait' \in [Fds -> Waits] /\ expiry' \in -1 .. MaxTimer /\ work' \in 0 .. MaxWork
    BY <1>0, DriveFacts
  <2>2. deadline' \in -1 .. MaxTimer /\ valid' \subseteq Fds /\ ready' \subseteq Fds
    BY <1>0, DriveFacts
  <2>3. sockMap' \in [Fds -> Interests] /\ ioCache' \in [Fds -> {"none", "r", "w", "r+"}]
    BY <1>0, DriveFacts
  <2>4. running' = Cardinality(Live(wait')) BY <1>0, DriveFacts
  <2>5. /\ forced => deadline' = expiry'
        /\ deadline' = expiry' \/ (deadline' = before /\ expiry' = expiry)
    <3>1. \E next \in -1 .. MaxTimer : expiry' = next /\ TimerCallback(before, next, forced)
      BY DEF Drive
    <3> QED BY <3>1 DEF TimerCallback, TimerCb
  <2> QED BY <2>1, <2>2, <2>3, <2>4, <2>5
<1>2. running' \in 0 .. Cardinality(Fds) BY <1>1, LiveFacts
<1>3. TypeOK' BY <1>0, <1>1, <1>2 DEF TypeOK, Waits, Interests, world
<1>4. deadline' = expiry' BY <1>1
<1>5. CacheIsCurrent'
  <2> SUFFICES ASSUME NEW f \in Fds, ioCache'[f] # "none"
               PROVE  sockMap'[f] # "none" /\ ioCache'[f] = Mode(sockMap'[f])
    BY DEF CacheIsCurrent
  <2>1. IF Interest(wait'[f]) # Interest(wait[f])
        THEN sockMap'[f] = Interest(wait'[f]) /\ ioCache'[f] = CacheAfter(f, Interest(wait'[f]))
        ELSE sockMap'[f] = sockMap[f] /\ ioCache'[f] = ioCache[f]
    BY <1>0, DriveFacts
  <2>2. ioCache[f] # "none" => sockMap[f] # "none" /\ ioCache[f] = Mode(sockMap[f])
    BY <1>0 DEF CacheIsCurrent
  <2>3. CASE Interest(wait'[f]) # Interest(wait[f])
    <3>1. PICK what : what = Interest(wait'[f]) OBVIOUS
    <3>2. sockMap'[f] = what /\ ioCache'[f] = CacheAfter(f, what) BY <2>1, <2>3, <3>1
    <3> QED BY <2>2, <3>2 DEF CacheAfter
  <2>4. CASE Interest(wait'[f]) = Interest(wait[f]) BY <2>1, <2>2, <2>4
  <2> QED BY <2>3, <2>4
<1>6. late' = late BY DEF vars
<1> QED BY <1>0, <1>1, <1>3, <1>4, <1>5, <1>6
        DEF Base, Counted, OnTime, NeverLate, NothingLeftBehind

LEMMA TimeoutBase ==
  ASSUME Base, NEW before \in -1 .. MaxTimer, TimeoutAction(before),
         pc' = "yield", UNCHANGED <<batch, timedOut, late, started, world>>
  PROVE  Base'
<1> DEFINE due == {f \in Fds : wait[f] = "timer" /\ expiry = 0}
           hidden == {f \in Fds : wait[f] = "hidden"}
           again == due \cup hidden # {} \/ expiry = 0
<1>1. due \cup hidden \in SUBSET Fds /\ again \in BOOLEAN OBVIOUS
<1>2. Drive(due \cup hidden, before, TRUE, again) BY DEF TimeoutAction
<1>3. batch' \subseteq Fds BY DEF Base, TypeOK
<1> HIDE DEF due, hidden, again
<1> QED BY <1>1, <1>2, <1>3, DriveBase

-----------------------------------------------------------------------------
(***************************************************************************)
(* Waiting.                                                                *)
(***************************************************************************)

\* Time passes for curb and for libcurl alike, and never past the timer.
LEMMA ElapseFacts ==
  ASSUME TypeOK, NeverLate, deadline = expiry, NEW e \in 0 .. WaitMs, Elapse(e)
  PROVE  /\ deadline' = expiry' /\ deadline' \in -1 .. MaxTimer /\ expiry' \in -1 .. MaxTimer
         /\ late' = FALSE
<1>1. deadline \in Int /\ expiry \in -1 .. MaxTimer /\ DefaultTimeout \in Nat /\ MaxTimer \in Nat
  BY SocketAssumption DEF TypeOK
<1>2. WaitMs \in Int /\ (expiry >= 0 => WaitMs <= expiry) BY <1>1 DEF WaitMs
<1>3. e \in Nat /\ ~(expiry >= 0 /\ e > expiry) BY <1>1, <1>2
<1>4. late' = FALSE BY <1>3 DEF Elapse, NeverLate
<1>5. deadline' = After(expiry, e) /\ expiry' = After(expiry, e) BY DEF Elapse
<1>6. After(expiry, e) \in -1 .. MaxTimer BY <1>1, <1>3 DEF After
<1> QED BY <1>4, <1>5, <1>6

\* A wrapper is opened for what the map says.
LEMMA WrapFacts ==
  ASSUME TypeOK, CacheIsCurrent, NEW fds \in SUBSET Tracked, Wrap(fds), UNCHANGED sockMap
  PROVE  ioCache' \in [Fds -> {"none", "r", "w", "r+"}] /\ CacheIsCurrent'
<1>1. \A w : Mode(w) \in {"r", "w", "r+"} BY DEF Mode
<1>2. \A f \in Fds : ioCache'[f] =
        IF f \in fds /\ ioCache[f] = "none" THEN Mode(sockMap[f]) ELSE ioCache[f]
  BY DEF Wrap
<1>3. ioCache' \in [Fds -> {"none", "r", "w", "r+"}] BY <1>1 DEF Wrap, TypeOK
<1>4. \A f \in fds : sockMap[f] # "none" BY DEF Tracked
<1>5. CacheIsCurrent' BY <1>2, <1>4 DEF CacheIsCurrent
<1> QED BY <1>3, <1>5

\* A step of the loop that leaves libcurl alone.
LEMMA QuietBase ==
  ASSUME Base, UNCHANGED <<wait, work, valid, ready, running, world>>,
         pc' \in {"idle", "prime", "yield", "top", "act", "final"}, batch' \subseteq Fds,
         timedOut' \in BOOLEAN, started' \in BOOLEAN, late' = FALSE,
         deadline' \in -1 .. MaxTimer, expiry' \in -1 .. MaxTimer, OnTime',
         sockMap' \in [Fds -> Interests], ioCache' \in [Fds -> {"none", "r", "w", "r+"}],
         CacheIsCurrent', NothingLeftBehind'
  PROVE  Base'
<1>1. TypeOK' BY DEF Base, TypeOK, Interests, world
<1> QED BY <1>1 DEF Base, Counted, NeverLate

\* ruby_curl_multi_socket_drive_ensure leaves nothing.
LEMMA EnsureFacts ==
  ASSUME Ensure
  PROVE  /\ pc' = "idle" /\ OnTime' /\ CacheIsCurrent' /\ NothingLeftBehind'
         /\ sockMap' \in [Fds -> Interests] /\ ioCache' \in [Fds -> {"none", "r", "w", "r+"}]
<1>1. /\ pc' = "idle" /\ \A f \in Fds : sockMap'[f] = "none" /\ ioCache'[f] = "none"
      /\ sockMap' \in [Fds -> Interests] /\ ioCache' \in [Fds -> {"none", "r", "w", "r+"}]
  BY DEF Ensure, Interests
<1> QED BY <1>1 DEF OnTime, CacheIsCurrent, NothingLeftBehind, Tracked

LEMMA WaitBase ==
  ASSUME Base, WaitStep
  PROVE  Base'
<1>0. TypeOK /\ NeverLate /\ CacheIsCurrent /\ pc = "top" /\ deadline = expiry
      /\ Tracked \subseteq Fds
  BY DEF Base, OnTime, WaitStep, Tracked
<1>1. UNCHANGED <<wait, work, valid, ready, running, started, world>> BY DEF WaitStep
<1>2. ASSUME pc' = "act", batch' \subseteq Fds, timedOut' \in BOOLEAN, late' = FALSE,
             deadline' = expiry', expiry' \in -1 .. MaxTimer,
             sockMap' \in [Fds -> Interests], ioCache' \in [Fds -> {"none", "r", "w", "r+"}],
             CacheIsCurrent'
      PROVE  Base'
  <2>1. OnTime' /\ NothingLeftBehind' BY <1>2 DEF OnTime, NothingLeftBehind
  <2>2. started' \in BOOLEAN BY <1>0, <1>1 DEF TypeOK
  <2> QED BY <1>1, <1>2, <2>1, <2>2, QuietBase
<1>3. sockMap \in [Fds -> Interests] /\ ioCache \in [Fds -> {"none", "r", "w", "r+"}]
  BY <1>0 DEF TypeOK, Interests
<1>4. CASE WaitWithoutSocket
  <2>1. WaitMs \in 0 .. WaitMs
    BY <1>0, SocketAssumption DEF TypeOK, WaitMs
  <2>2. Elapse(WaitMs) /\ timedOut' = TRUE /\ batch' = {} /\ pc' = "act" /\ UNCHANGED <<sockMap, ioCache>>
    BY <1>4 DEF WaitWithoutSocket, SleepDrives
  <2>3. deadline' = expiry' /\ expiry' \in -1 .. MaxTimer /\ late' = FALSE
    BY <1>0, <2>1, <2>2, ElapseFacts
  <2>4. CacheIsCurrent' BY <1>0, <2>2 DEF CacheIsCurrent
  <2> QED BY <1>2, <1>3, <2>2, <2>3, <2>4
<1>5. ASSUME NEW awaited, NEW found, found \subseteq Fds, WaitFor(awaited, found), UNCHANGED sockMap,
             UNCHANGED ioCache \/ \E fds \in SUBSET Tracked : Wrap(fds)
      PROVE  Base'
  <2>1. PICK e \in 0 .. WaitMs : Elapse(e) BY <1>5 DEF WaitFor
  <2>2. deadline' = expiry' /\ expiry' \in -1 .. MaxTimer /\ late' = FALSE
    BY <1>0, <2>1, ElapseFacts
  <2>3. batch' = found /\ pc' = "act" /\ timedOut' \in BOOLEAN BY <1>5 DEF WaitFor
  <2>4. ioCache' \in [Fds -> {"none", "r", "w", "r+"}] /\ CacheIsCurrent'
    <3>1. CASE UNCHANGED ioCache BY <1>0, <1>3, <1>5, <3>1 DEF CacheIsCurrent
    <3>2. CASE \E fds \in SUBSET Tracked : Wrap(fds) BY <1>0, <1>5, <3>2, WrapFacts
    <3> QED BY <1>5, <3>1, <3>2
  <2> QED BY <1>2, <1>3, <1>5, <2>2, <2>3, <2>4
<1>6. ASSUME NEW rep \in Tracked, Forget(rep) PROVE Base'
  <2>1. /\ timedOut' = TRUE /\ batch' = {} /\ pc' = "act" /\ UNCHANGED <<deadline, expiry, late>>
        /\ \A f \in Fds \ {rep} : sockMap'[f] = sockMap[f] /\ ioCache'[f] = ioCache[f]
        /\ ioCache'[rep] = "none"
    BY <1>0, <1>6 DEF Forget, TypeOK
  <2>2. sockMap' \in [Fds -> Interests] /\ ioCache' \in [Fds -> {"none", "r", "w", "r+"}]
    BY <1>3, <1>6 DEF Forget, Interests
  <2>3. CacheIsCurrent' BY <1>0, <2>1 DEF CacheIsCurrent
  <2>4. expiry \in -1 .. MaxTimer /\ late = FALSE BY <1>0 DEF TypeOK, NeverLate
  <2> QED BY <1>0, <1>2, <2>1, <2>2, <2>3, <2>4
<1>7. CASE SelectRaises
  <2>1. Ensure /\ UNCHANGED <<deadline, expiry, late, batch, timedOut>> BY <1>7 DEF SelectRaises
  <2>2. /\ batch' \subseteq Fds /\ timedOut' \in BOOLEAN /\ started' \in BOOLEAN /\ late' = FALSE
        /\ deadline' \in -1 .. MaxTimer /\ expiry' \in -1 .. MaxTimer
    BY <1>0, <1>1, <2>1 DEF TypeOK, NeverLate
  <2> QED BY <1>1, <2>1, <2>2, EnsureFacts, QuietBase
<1>8. ASSUME NEW rep \in Tracked, WaitOnOne(rep) PROVE Base'
  <2>1. CASE Forget(rep) BY <1>6, <2>1
  <2>2. CASE SelectRaises BY <1>7, <2>2
  <2>3. CASE /\ WaitFor({rep}, ready \cap {rep}) /\ UNCHANGED sockMap
             /\ UNCHANGED ioCache \/ Wrap({rep})
    <3>1. ready \cap {rep} \subseteq Fds /\ {rep} \in SUBSET Tracked BY <1>0
    <3> QED BY <1>5, <2>3, <3>1
  <2> QED BY <1>8, <2>1, <2>2, <2>3 DEF WaitOnOne
<1>9. ASSUME IoSelect PROVE Base'
  <2>1. ready \cap Tracked \subseteq Fds /\ Tracked \in SUBSET Tracked BY <1>0
  <2>2. WaitFor(Tracked, ready \cap Tracked) /\ Wrap(Tracked) /\ UNCHANGED sockMap
    BY <1>9 DEF IoSelect
  <2> QED BY <1>5, <2>1, <2>2
<1>10. ASSUME NEW rep \in Tracked, IoWait(rep) PROVE Base'
  <2>1. CASE Forget(rep) BY <1>6, <2>1
  <2>2. CASE SelectRaises BY <1>7, <2>2
  <2>3. CASE WaitFor({rep}, Collected(rep)) /\ Wrap({rep}) /\ UNCHANGED sockMap
    <3>1. Collected(rep) \subseteq Fds /\ {rep} \in SUBSET Tracked BY <1>0 DEF Collected
    <3> QED BY <1>5, <2>3, <3>1
  <2> QED BY <1>10, <2>1, <2>2, <2>3 DEF IoWait
<1>11. ASSUME NEW rep \in Tracked, Select(rep) PROVE Base'
  <2>1. CASE SelectRaises BY <1>7, <2>1
  <2>2. CASE WaitFor(Tracked, Collected(rep)) /\ UNCHANGED <<sockMap, ioCache>>
    <3>1. Collected(rep) \subseteq Fds BY <1>0 DEF Collected
    <3> QED BY <1>5, <2>2, <3>1
  <2> QED BY <1>11, <2>1, <2>2 DEF Select
<1> QED BY <1>4, <1>8, <1>9, <1>10, <1>11 DEF WaitStep

-----------------------------------------------------------------------------
\* Every step keeps the invariant.
LEMMA BaseStep ==
  ASSUME Base, [Next]_vars
  PROVE  Base'
<1>0. /\ TypeOK /\ Counted /\ OnTime /\ NeverLate /\ CacheIsCurrent /\ NothingLeftBehind
      /\ sockMap \in [Fds -> Interests] /\ ioCache \in [Fds -> {"none", "r", "w", "r+"}]
      /\ late = FALSE /\ deadline \in -1 .. MaxTimer /\ expiry \in -1 .. MaxTimer
      /\ batch \subseteq Fds /\ timedOut \in BOOLEAN /\ started \in BOOLEAN
  BY DEF Base, TypeOK, Interests, NeverLate
<1>1. -1 \in -1 .. MaxTimer /\ 0 \in -1 .. MaxTimer BY SocketAssumption
<1>2. CASE Perform
  <2>1. /\ started' = TRUE /\ deadline' = -1 /\ pc' = "prime"
        /\ UNCHANGED <<wait, expiry, work, sockMap, ioCache, valid, ready, running, batch, timedOut,
                       late, world>>
    BY <1>2 DEF Perform, libVars
  <2>2. CacheIsCurrent' /\ OnTime' /\ NothingLeftBehind'
    BY <1>0, <2>1 DEF CacheIsCurrent, OnTime, NothingLeftBehind
  <2> QED BY <1>0, <1>1, <2>1, <2>2, QuietBase
<1>3. CASE Prime
  BY <1>0, <1>3, TimeoutBase DEF Prime
<1>4. CASE ServeTimer
  BY <1>1, <1>4, TimeoutBase DEF ServeTimer
<1>5. CASE WaitStep BY <1>5, WaitBase
<1>6. ASSUME NEW rest, pc' = rest, rest \in {"top", "prime", "idle"}, ReadInfoAndYield,
             pc \in {"yield", "final"}, CacheIsCurrent', NothingLeftBehind',
             sockMap' \in [Fds -> Interests], ioCache' \in [Fds -> {"none", "r", "w", "r+"}]
      PROVE  Base'
  <2>1. /\ wait' \in [Fds -> Waits] /\ work' \in 0 .. MaxWork
        /\ running' = Cardinality(Live(wait'))
        /\ UNCHANGED <<valid, ready, batch, timedOut, late, started, world>>
        /\ UNCHANGED <<expiry, deadline>> \/ (expiry' = 0 /\ deadline' = 0)
    BY <1>0, <1>6, YieldFacts DEF Counted
  <2>2. deadline = expiry BY <1>0, <1>6 DEF OnTime
  <2>3. expiry' = deadline' /\ expiry' \in -1 .. MaxTimer BY <1>0, <1>1, <2>1, <2>2
  <2>4. running' \in 0 .. Cardinality(Fds) BY <2>1, LiveFacts
  <2>5. TypeOK' BY <1>0, <1>6, <2>1, <2>3, <2>4 DEF TypeOK, Waits, Interests, world
  <2> QED BY <1>0, <1>6, <2>1, <2>3, <2>5 DEF Base, Counted, OnTime, NeverLate
<1>7. CASE Yield
  <2>1. pc = "yield" /\ ReadInfoAndYield /\ pc' = "top" /\ UNCHANGED <<sockMap, ioCache>>
    BY <1>7 DEF Yield
  <2>2. CacheIsCurrent' /\ NothingLeftBehind'
    BY <1>0, <2>1 DEF CacheIsCurrent, NothingLeftBehind
  <2> QED BY <1>0, <1>6, <2>1, <2>2
<1>8. CASE Final
  <2>1. pc = "final" /\ ReadInfoAndYield BY <1>8 DEF Final
  <2>2. CASE pc' = "prime" /\ UNCHANGED <<sockMap, ioCache>>
    <3>1. CacheIsCurrent' /\ NothingLeftBehind'
      BY <1>0, <2>2 DEF CacheIsCurrent, NothingLeftBehind
    <3> QED BY <1>0, <1>6, <2>1, <2>2, <3>1
  <2>3. CASE Ensure BY <1>6, <2>1, <2>3, EnsureFacts
  <2> QED BY <1>8, <2>2, <2>3 DEF Final
<1>9. CASE LoopEnds
  <2>1. /\ pc = "top" /\ pc' = "final"
        /\ UNCHANGED <<wait, expiry, work, sockMap, ioCache, deadline, valid, ready, running, batch,
                       timedOut, late, started, world>>
    BY <1>9 DEF LoopEnds, libVars, ctxVars
  <2>2. CacheIsCurrent' /\ OnTime' /\ NothingLeftBehind'
    BY <1>0, <2>1 DEF CacheIsCurrent, OnTime, NothingLeftBehind
  <2> QED BY <1>0, <2>1, <2>2, QuietBase
<1>10. CASE Interrupted
  <2>1. /\ pc = "top" /\ UNCHANGED <<wait, work, valid, ready, running, started, world, sockMap,
                                    ioCache, batch, timedOut, pc>>
    BY <1>10 DEF Interrupted
  <2>2. PICK e \in 1 .. WaitMs : Elapse(e) BY <1>10 DEF Interrupted
  <2>3. e \in 0 .. WaitMs BY <1>0, SocketAssumption DEF WaitMs
  <2>4. deadline' = expiry' /\ expiry' \in -1 .. MaxTimer /\ late' = FALSE
    BY <1>0, <2>1, <2>2, <2>3, ElapseFacts DEF OnTime
  <2>5. CacheIsCurrent' /\ OnTime' /\ NothingLeftBehind'
    BY <1>0, <2>1, <2>4 DEF CacheIsCurrent, OnTime, NothingLeftBehind
  <2> QED BY <1>0, <2>1, <2>4, <2>5, QuietBase
<1>11. CASE ActOnSocket
  <2>1. PICK f \in batch : SocketAction(f) /\ batch' = batch \ {f} BY <1>11 DEF ActOnSocket
  <2> DEFINE moved == {f} \cap ready \cap {g \in Fds : wait[g] \in Polls}
  <2>2. Drive(moved, deadline, FALSE, moved # {}) BY <2>1 DEF SocketAction
  <2>3. moved \in SUBSET Fds /\ (moved # {}) \in BOOLEAN OBVIOUS
  <2>4. pc = "act" /\ UNCHANGED <<pc, timedOut, late, started, world>> BY <1>11 DEF ActOnSocket
  <2>5. deadline = expiry /\ batch' \subseteq Fds BY <1>0, <2>1, <2>4 DEF OnTime
  <2> HIDE DEF moved
  <2> QED BY <1>0, <2>2, <2>3, <2>4, <2>5, DriveBase
<1>12. CASE ActOnTimeout
  <2>1. pc = "act" /\ pc' = "yield" /\ UNCHANGED <<batch, timedOut, late, started, world>>
    BY <1>12 DEF ActOnTimeout
  <2>2. CASE timedOut BY <1>1, <1>12, <2>1, <2>2, TimeoutBase DEF ActOnTimeout
  <2>3. CASE ~timedOut
    <3>1. UNCHANGED <<wait, expiry, work, sockMap, ioCache, deadline, valid, ready, running>>
      BY <1>12, <2>3 DEF ActOnTimeout, libVars, ctxVars
    <3>2. CacheIsCurrent' /\ OnTime' /\ NothingLeftBehind'
      BY <1>0, <2>1, <3>1 DEF CacheIsCurrent, OnTime, NothingLeftBehind
    <3> QED BY <1>0, <2>1, <3>1, <3>2, QuietBase
  <2> QED BY <2>2, <2>3
<1>13. CASE Raise
  <2>1. /\ Ensure /\ UNCHANGED <<wait, expiry, work, deadline, valid, ready, running, batch, timedOut,
                                late, started, world>>
    BY <1>13 DEF Raise, libVars
  <2> QED BY <1>0, <2>1, EnsureFacts, QuietBase
<1>14. CASE Arrives \/ Vanishes
  <2>1. UNCHANGED <<wait, expiry, work, sockMap, ioCache, deadline, running, pc, batch, timedOut,
                    late, started, world>>
    BY <1>14 DEF Arrives, Vanishes, libVars, ctxVars
  <2>2. valid' \subseteq Fds /\ ready' \subseteq Fds BY <1>0, <1>14 DEF Arrives, Vanishes, TypeOK
  <2>3. TypeOK' BY <1>0, <2>1, <2>2 DEF TypeOK, world
  <2> QED BY <1>0, <2>1, <2>3
          DEF Base, Counted, OnTime, NeverLate, CacheIsCurrent, NothingLeftBehind, Tracked
<1>15. CASE UNCHANGED vars
  BY <1>0, <1>15 DEF vars, libVars, ctxVars, world, Base, TypeOK, Counted, OnTime, NeverLate,
                     CacheIsCurrent, NothingLeftBehind, Tracked
<1> QED
  BY <1>2, <1>3, <1>4, <1>5, <1>7, <1>8, <1>9, <1>10, <1>11, <1>12, <1>13, <1>14, <1>15
     DEF Next, Loop

LEMMA BaseInvariant == Spec => []Base
<1>1. Init => Base
  <2> SUFFICES ASSUME Init PROVE Base OBVIOUS
  <2>1. PICK added \in (SUBSET Fds) \ {{}} :
          /\ wait = [f \in Fds |-> IF f \in added THEN "timer" ELSE "absent"]
          /\ running = Cardinality(added)
    BY DEF Init
  <2>2. added \subseteq Fds OBVIOUS
  <2>3. Live(wait) = added BY <2>1, <2>2 DEF Live
  <2>4. Counted BY <2>1, <2>3 DEF Counted
  <2>5. running \in 0 .. Cardinality(Fds) BY <2>4, LiveFacts DEF Counted
  <2>6. wait \in [Fds -> Waits] BY <2>1 DEF Waits, AllWaits
  <2>7. TypeOK
    <3>1. expiry \in -1 .. MaxTimer /\ deadline \in -1 .. MaxTimer /\ work \in 0 .. MaxWork
      BY SocketAssumption DEF Init
    <3>2. sockMap \in [Fds -> Polls \cup {"none"}] /\ ioCache \in [Fds -> {"none", "r", "w", "r+"}]
      BY DEF Init
    <3>3. /\ valid \subseteq Fds /\ ready \subseteq Fds /\ batch \subseteq Fds
          /\ timedOut \in BOOLEAN /\ late \in BOOLEAN /\ started \in BOOLEAN
          /\ hook \in Hooks /\ setting \in Settings /\ pc = "idle"
      BY DEF Init
    <3> QED BY <2>5, <2>6, <3>1, <3>2, <3>3 DEF TypeOK, Waits
  <2> QED BY <2>4, <2>7
          DEF Init, Base, OnTime, NeverLate, CacheIsCurrent, NothingLeftBehind, Tracked
<1> QED BY <1>1, BaseStep, PTL DEF Spec

\* No wait of the loop, in select, in the scheduler's io_wait and io_select or
\* in a plain sleep, lasts past the moment libcurl asked to be called at.
THEOREM WaitsInTime == Spec => []NeverLate
<1>1. Base => NeverLate BY DEF Base
<1> QED BY <1>1, BaseInvariant, PTL

-----------------------------------------------------------------------------
(***************************************************************************)
(* The map mirrors libcurl.  Between the points where MapMirrors looks at  *)
(* it the map has to agree as well, and before perform no descriptor is    *)
(* open; what is ready is open.  A perform after one that raised is left   *)
(* out: it starts with an empty map although libcurl has open sockets.     *)
(***************************************************************************)

Agree == \A f \in valid : sockMap[f] = Interest(wait[f])

Mirrors ==
  /\ ready \subseteq valid
  /\ ~started => valid = {} /\ pc = "idle"
  /\ pc # "idle" => Agree

\* libcurl tells of each interest that changes, and opens a descriptor only
\* for a transfer that did not poll before or whose descriptor was open.
LEMMA DriveMirrors ==
  ASSUME Base, Mirrors, pc # "idle",
         NEW moved \in SUBSET Fds, NEW before \in -1 .. MaxTimer,
         NEW forced \in BOOLEAN, NEW again \in BOOLEAN, Drive(moved, before, forced, again),
         \A f \in moved : f \in valid \/ wait[f] \notin Polls,
         UNCHANGED started
  PROVE  Mirrors'
<1>1. TypeOK /\ Agree /\ started BY DEF Base, Mirrors
<1>2. /\ \A f \in Fds \ moved : wait'[f] = wait[f] /\ (f \in valid' <=> f \in valid)
      /\ \A f \in moved : f \in valid' <=> wait'[f] \in Polls
      /\ ready' = ready \ moved /\ valid' \subseteq Fds
      /\ \A f \in Fds : IF Interest(wait'[f]) # Interest(wait[f])
           THEN sockMap'[f] = Interest(wait'[f]) ELSE sockMap'[f] = sockMap[f]
  BY <1>1, DriveFacts
<1>3. ready' \subseteq valid' BY <1>1, <1>2 DEF Mirrors, TypeOK
<1>4. Agree'
  <2> SUFFICES ASSUME NEW f \in valid' PROVE sockMap'[f] = Interest(wait'[f]) BY DEF Agree
  <2>1. f \in Fds BY <1>2
  <2>2. CASE Interest(wait'[f]) # Interest(wait[f]) BY <1>2, <2>1, <2>2
  <2>3. CASE Interest(wait'[f]) = Interest(wait[f])
    <3>1. f \in valid
      <4>1. CASE f \notin moved BY <1>2, <2>1, <4>1
      <4>2. CASE f \in moved
        <5>1. wait'[f] \in Polls BY <1>2, <4>2
        <5>2. Interest(wait[f]) = wait'[f] BY <2>3, <5>1 DEF Interest
        <5>3. wait[f] \in Polls BY <5>1, <5>2 DEF Interest, Polls
        <5> QED BY <4>2, <5>3
      <4> QED BY <4>1, <4>2
    <3>2. sockMap[f] = Interest(wait[f]) BY <1>1, <3>1 DEF Agree
    <3> QED BY <1>2, <2>1, <2>3, <3>2
  <2> QED BY <2>2, <2>3
<1> QED BY <1>1, <1>3, <1>4 DEF Mirrors

LEMMA TimeoutMirrors ==
  ASSUME Base, Mirrors, pc # "idle", NEW before \in -1 .. MaxTimer, TimeoutAction(before),
         UNCHANGED started
  PROVE  Mirrors'
<1> DEFINE due == {f \in Fds : wait[f] = "timer" /\ expiry = 0}
           hidden == {f \in Fds : wait[f] = "hidden"}
           again == due \cup hidden # {} \/ expiry = 0
<1>1. due \cup hidden \in SUBSET Fds /\ again \in BOOLEAN OBVIOUS
<1>2. Drive(due \cup hidden, before, TRUE, again) BY DEF TimeoutAction
<1>3. \A f \in due \cup hidden : wait[f] \notin Polls BY DEF Polls
<1> HIDE DEF due, hidden, again
<1> QED BY <1>1, <1>2, <1>3, DriveMirrors

\* A step that neither drives libcurl nor starts a perform, and that drops at
\* most entries of descriptors that are no longer open.
LEMMA QuietMirrors ==
  ASSUME Mirrors, valid' \subseteq valid, ready' \subseteq valid', UNCHANGED started,
         pc = "idle" => pc' = "idle",
         pc' # "idle" => \A f \in valid' : /\ sockMap'[f] = sockMap[f]
                                          /\ Interest(wait'[f]) = Interest(wait[f])
  PROVE  Mirrors'
<1>1. pc' # "idle" => Agree' BY DEF Mirrors, Agree
<1>2. ~started' => valid' = {} /\ pc' = "idle" BY DEF Mirrors
<1> QED BY <1>1, <1>2 DEF Mirrors

LEMMA WaitMirrors ==
  ASSUME Base, Mirrors, WaitStep
  PROVE  Mirrors'
<1>0. TypeOK /\ pc = "top" /\ Tracked \subseteq Fds BY DEF Base, WaitStep, Tracked
<1>1. UNCHANGED <<wait, valid, ready, started>> BY DEF WaitStep
<1>2. pc' = "idle" \/ \A f \in valid : sockMap'[f] = sockMap[f]
  <2>1. ASSUME UNCHANGED sockMap PROVE \A f \in valid : sockMap'[f] = sockMap[f] BY <2>1
  <2>2. ASSUME NEW rep \in Tracked, rep \notin valid, Forget(rep)
        PROVE  \A f \in valid : sockMap'[f] = sockMap[f]
    BY <1>0, <2>2 DEF Forget, TypeOK
  <2>3. ASSUME SelectRaises PROVE pc' = "idle" BY <2>3 DEF SelectRaises, Ensure
  <2>4. CASE WaitWithoutSocket BY <2>1, <2>4 DEF WaitWithoutSocket
  <2>5. ASSUME NEW rep \in Tracked, WaitOnOne(rep) \/ IoSelect \/ IoWait(rep) \/ Select(rep)
        PROVE  UNCHANGED sockMap \/ (rep \notin valid /\ Forget(rep)) \/ SelectRaises
    BY <2>5 DEF WaitOnOne, IoSelect, IoWait, Select
  <2> QED BY <2>1, <2>2, <2>3, <2>4, <2>5 DEF WaitStep
<1> QED BY <1>0, <1>1, <1>2, QuietMirrors DEF Mirrors

LEMMA MirrorsStep ==
  ASSUME \A s \in Settings : "again" \notin s.liberties, Base, Mirrors, [Next]_vars
  PROVE  Mirrors'
<1>0. TypeOK /\ Counted /\ ready \subseteq valid BY DEF Base, Mirrors
<1>1. -1 \in -1 .. MaxTimer /\ deadline \in -1 .. MaxTimer
  BY <1>0, SocketAssumption DEF TypeOK
<1>2. CASE Perform
  <2>1. ~started BY <1>0, <1>2 DEF Perform, TypeOK
  <2>2. UNCHANGED <<valid, ready>> /\ started' = TRUE BY <1>2 DEF Perform
  <2> QED BY <2>1, <2>2 DEF Mirrors, Agree
<1>3. CASE Prime BY <1>1, <1>3, TimeoutMirrors DEF Prime
<1>4. CASE ServeTimer BY <1>1, <1>4, TimeoutMirrors DEF ServeTimer
<1>5. CASE WaitStep BY <1>5, WaitMirrors
<1>6. CASE Yield \/ Final
  <2>1. ReadInfoAndYield /\ pc # "idle" BY <1>6 DEF Yield, Final
  <2>2. /\ \A f \in Fds : Interest(wait'[f]) = Interest(wait[f])
        /\ UNCHANGED <<valid, ready, started>>
    BY <1>0, <2>1, YieldFacts DEF Counted
  <2>3. UNCHANGED sockMap \/ pc' = "idle" BY <1>6 DEF Yield, Final, Ensure
  <2> QED BY <1>0, <2>1, <2>2, <2>3, QuietMirrors DEF TypeOK
<1>7. CASE LoopEnds \/ Interrupted
  <2>1. UNCHANGED <<wait, sockMap, valid, ready, started>> /\ pc # "idle"
    BY <1>7 DEF LoopEnds, Interrupted, libVars, ctxVars
  <2> QED BY <1>0, <2>1, QuietMirrors
<1>8. CASE ActOnSocket
  <2>1. PICK f \in batch : SocketAction(f) BY <1>8 DEF ActOnSocket
  <2> DEFINE moved == {f} \cap ready \cap {g \in Fds : wait[g] \in Polls}
  <2>2. Drive(moved, deadline, FALSE, moved # {}) BY <2>1 DEF SocketAction
  <2>3. moved \in SUBSET Fds /\ (moved # {}) \in BOOLEAN OBVIOUS
  <2>4. \A g \in moved : g \in valid BY <1>0
  <2>5. pc = "act" /\ UNCHANGED started BY <1>8 DEF ActOnSocket
  <2> HIDE DEF moved
  <2> QED BY <1>1, <2>2, <2>3, <2>4, <2>5, DriveMirrors
<1>9. CASE ActOnTimeout
  <2>1. pc = "act" /\ UNCHANGED started BY <1>9 DEF ActOnTimeout
  <2>2. CASE timedOut BY <1>1, <1>9, <2>1, <2>2, TimeoutMirrors DEF ActOnTimeout
  <2>3. CASE ~timedOut
    <3>1. UNCHANGED <<wait, sockMap, valid, ready>>
      BY <1>9, <2>3 DEF ActOnTimeout, libVars, ctxVars
    <3> QED BY <1>0, <2>1, <3>1, QuietMirrors
  <2> QED BY <2>2, <2>3
<1>10. CASE Raise
  <2>1. UNCHANGED <<valid, ready, started>> /\ pc' = "idle" BY <1>10 DEF Raise, Ensure
  <2> QED BY <1>0, <2>1, QuietMirrors
<1>11. CASE Arrives \/ Vanishes
  <2>1. UNCHANGED <<wait, sockMap, started, pc>> BY <1>11 DEF Arrives, Vanishes, libVars, ctxVars
  <2>2. valid' \subseteq valid /\ ready' \subseteq valid' BY <1>0, <1>11 DEF Arrives, Vanishes
  <2> QED BY <2>1, <2>2, QuietMirrors
<1>12. CASE UNCHANGED vars
  <2>1. UNCHANGED <<wait, sockMap, valid, ready, started, pc>>
    BY <1>12 DEF vars, libVars, ctxVars
  <2> QED BY <1>0, <2>1, QuietMirrors
<1> QED
  BY <1>2, <1>3, <1>4, <1>5, <1>6, <1>7, <1>8, <1>9, <1>10, <1>11, <1>12 DEF Next, Loop

\* When the loop waits or acts its map is what libcurl asked for, of every
\* descriptor that is open; each cached wrapper is opened for that; outside
\* perform nothing is left.  For behaviours in which no perform follows one
\* that raised.
THEOREM ContextCurrent ==
  ASSUME \A s \in Settings : "again" \notin s.liberties
  PROVE  Spec => []ContextIsCurrent
<1>1. Init => Mirrors BY DEF Init, Mirrors
<1>2. Mirrors /\ Base /\ [Next]_vars => Mirrors' BY MirrorsStep
<1>3. Base /\ Mirrors => ContextIsCurrent
  BY DEF Base, Mirrors, Agree, ContextIsCurrent, MapMirrors
<1> QED BY <1>1, <1>2, <1>3, BaseInvariant, PTL DEF Spec
=============================================================================
