# Curb in TLA+

A verification development for [curb](https://github.com/taf2/curb), the Ruby
binding of libcurl: TLA+ modules for its stateful core, TLC configurations that
model-check them, and TLAPS proofs. Paths are relative to the repository.

## 1. The system

| Component | State | Operations | Hard behaviour | What makes it correct |
|---|---|---|---|---|
| `Curl::Multi` (`ext/curb_multi.c`, `lib/curl/multi.rb`) | native handle, `attached` table, `active`, `running`, `perform_active`, `callback_active`; `@requests`, deferred exception, idle references | `add`, `remove`, `perform`, `close`, autoclose | callbacks and blocks that add, remove, move and close; several threads; exceptions that wait for siblings; partial failure of `close` | the tables agree with libcurl; the loop never ends early; an exception is raised exactly when drained; no use of a freed handle |
| Attachment of `Curl::Easy` (`ext/curb_easy.c`, `lib/curl/easy.rb`) | `multi`, `multi_attachment_generation`, `callback_error` | `multi=`, `close`, setup, completion | stale references and stale errors across re-use | an easy is in one multi; an error belongs to the transfer in progress |
| Fiber scheduler driver (`lib/curl.rb`) | per thread: queue, waiters, `:error`, driver fiber | `Easy#perform` under a scheduler | lost wakeups, driver restart, exceptions of siblings, cancellation | everyone who waits is served and gets their own outcome |
| `Easy#perform`, deferred multi closes (`lib/curl/easy.rb`) | implicit multi, parked multis per thread | `perform`, flush, `at_exit` | nested performs, failing closes, other threads | every implicit multi is closed once, never while in use |
| `Multi.http` (`lib/curl/multi.rb`) | URL list, free handles | `get`, `post`, `put`, `http` | adds from completion callbacks, bounded pool | every URL is requested once, at most `max_connects` at a time |
| Downloads (`lib/curl/download.rb`, `Multi.download`, `Easy.download`) | temporary file, target path, list of errors | open, write, finalize, abort | target appearing meanwhile; one of several failing | no existing file is overwritten, no partial file is installed, no failure is silent |
| Verb helpers (`ext/curb_easy.c`, `lib/curl/easy.rb`) | method, body, upload and verb of the libcurl handle | `http`, `http_get`, … `http_put`, `perform`, setters | one handle for many requests, each leaving settings behind | a helper sends its verb and leaves nothing |
| Socket-action loop (`ext/curb_multi.c`) | socket map, timer deadline, IO cache | socket and timer callbacks, waits | reused descriptors, zero timers, no deadline | the wait is never longer than libcurl's deadline |
| Transfer callbacks (`ext/curb_easy.c`) | body size, upload stream and offset, `callback_active` | write, header, progress, read, seek | exceptions crossing libcurl, limits | errors surface, limits are exact |
| Options, setup, cleanup, reset, clone (`ext/curb_easy.c`) | option fields, header lists | setters, setup, cleanup, `reset`, `dup` | a transfer's leftovers in the next one | cleanup undoes setup |
| Safety configuration (`lib/curl.rb`, `easy.rb`, `multi.rb`) | module-wide profile, generations, signatures | `Curl.safe!`, overrides, `apply_safety` | configuration changed between add and perform | an easy performs under the current profile |
| Network policy (`ext/curb_easy.c`) | address rules of an easy | opensocket and prereq checks | prefix arithmetic, rebinding | only allowed addresses are connected to |
| `PostField`, transfer information, error classes, constants, verb helpers, build | small or none | | | |

Calls go from `Easy#perform` to a multi (an implicit one, or the shared one of
the scheduler driver), from `Multi#perform` into libcurl, and from libcurl and
the completion code back into user callbacks, which may call everything again.
The back reference `easy.multi` and the request table are the state that both
sides write. The hazards this leads to are listed in `PROJECT.json`, each at
its line with the properties that cover it.

## 2. Modules

| Module | Content |
|---|---|
| `CurlMulti` | `Curl::Multi` and the attachment of easies |
| `TransferContract` | what a multi promises: ownership of transfers, delivery of a callback exception |
| `CurlMultiProofs` | theorems about `CurlMulti`: types and ownership; counters, loop, exceptions and the refinement |
| `FiberScheduler` | `Easy#perform` under a fiber scheduler, over a shared multi |
| `EasyPerform` | `Easy#perform`, its implicit multi, the parked closes |
| `MultiHttp` | `Multi.http` and its pool of handles |
| `SafeDownload` | `Multi.download`, `Easy.download`, `SafeDownloadOutput` |
| `AtomicInstall` | what a download promises about its target |
| `LibcurlRequest` | what the method options of libcurl do to each other (external) |
| `EasyRequest` | the verb helpers and the request a reused handle sends |
| `SocketDrive` | the socket-action loop |
| `EasyTransfer` | the data callbacks of a transfer, and `Curl::Upload` |
| `EasyOptions` | attributes, `setopt`, setup, cleanup, `reset`, `clone`, `close` |
| `SafetyPolicy` | `Curl.safe!`, overrides, signatures |
| `NetworkPolicy` | address classes, CIDR and host rules, the two libcurl hooks |
| `FiberSchedulerProofs`, `EasyPerformProofs`, `SafeDownloadProofs`, `SocketDriveProofs` | theorems about the module of that name |
| `RequestProofs` | theorems about `EasyRequest` and `MultiHttp` |
| `EasyHandleProofs` | theorems about `EasyOptions` and `EasyTransfer` |
| `PolicyProofs` | theorems about `SafetyPolicy` and `NetworkPolicy` |
| `MC…` | an instance for TLC of each |

`CurlMulti` and `FiberScheduler` are both tied to `TransferContract`: the first
implements it (`ImplementsContract`), the second's use of its shared multi obeys
it (`UsesMultiByContract`). `SafeDownload` implements `AtomicInstall`
(`InstallsAtomically`) where files are installed by rename or link. `EasyRequest`
and `MultiHttp` share `LibcurlRequest`. A proof module about two components extends
both, so `MultiHttp`, `EasyTransfer` and `NetworkPolicy` have a prefix in the names
that every component has (`HttpInit`, `TransferNext`, `NetworkSpec` …).

### CurlMulti

*State.* `handle` … `attached` are the fields of `struct ruby_curl_multi`,
`requests`, `idleRefs` and `deferred` the instance variables of `Curl::Multi`,
`easyMulti`, `generation` and `callbackError` those of `struct ruby_curl_easy`.
`added` and `done` are libcurl's: the handles in the CURLM and their unread
`CURLMSG_DONE` messages. `callbackError[e]` is the generation of the transfer
that stored the error, so that a stale one can be told from a fresh one.
`late` is a history variable: the easies attached since the completion under way.

*Interleaving.* A perform is a frame with a program counter:

```
idle -> run -> info -> callback -> info ... -> block -> wait -> info ...
                                               block -> info -> block -> idle
```

In `run` and `info` it is in native code and holds the GVL. In `callback` and
`block` user code runs, in `wait` the GVL (or the fiber) is given up. `UserCode`
says that no frame is in native code; then the program may do any operation on
any object, so every operation is interleaved with every point of both performs.

*Actions.* `Add`/`AddRaises`, `Remove`, `Assign` (`Easy#multi=`), `CloseEasy`,
`CloseMulti` (stopped half way, rejected, or accepted), `Perform`, and the steps
of the loop: `Run` (some transfers finish, some because a Ruby callback raised),
`RunRaises`, `HandleComplete` (`rb_curl_mutli_handle_complete` up to the
callbacks), `CallbackReturns`, `CallbackRaises` (stash and roll back what the
callbacks attached), `CallbackThrows`, `InfoEnds`, `BlockReturns`,
`BlockRaises`, `PerformReturns` (with autoclose). The first, zero-timeout pass
of the loop and the passes after a wait are the same step, and the fd_set and
the socket-action variant of the loop share this control.

*Atomicity.* The Ruby methods `add` and `remove` of a multi, `Easy#multi=` and
`__close` are one step each. That is exact for fibers, callbacks and blocks, which
run between calls. A second thread of the same objects could also run between two
lines of them (`lib/curl/multi.rb:442-484`, `lib/curl/easy.rb:106-118`), for instance
between `_add` and the entry in `requests`; such uses are not modelled.

*Liberties* are uses beyond the common ones, switched by a constant, so that a
run can say which property survives which use: closing an attached easy,
performing a released multi, leaving a callback by something other than a
`StandardError`. `EasyRequest` and `EasyTransfer` have liberties of their own;
there each behaviour begins by choosing some of them (`liberties`).

### FiberScheduler

*State.* The shared multi is reduced to its requests, unread messages, deferred
exception and the id of its source. `pending`, `error`, `waiting`, `completed`,
`done` and `failure` are the thread's scheduler state and its waiters.
`driver` is the place of the driver fiber, `pc[e]` that of the fiber performing
`e`. `threw[e]` is history: whether a callback exception of the current perform
was stashed or dropped. `faults`, one of `FaultSets`, is what goes wrong in the
behaviour.

*Actions.* Fibers: `Enter`, `ResumeDone`, `ResumeRaises`, `ResumeBlocks`,
`Return`, `Cancel`. Driver: `Gather`, `DrainAdds`, `DrainRaises`, `TopIdle`,
`TopPerforms`, the loop of the multi (`Drive` … `PerformReturns`), and
`DriverFails`, its rescue clause.

*Assumption.* The scheduler runs woken fibers in the order in which they became
ready, as Async does: who was woken by the driver runs before the driver's next
turn (`DriverTurn`). Without it `CallbackErrorsStayHome` fails, because
`release_scheduler_waiters` does not look at `waiter[:error]`: a failed waiter
that has not run yet is released as completed by the next driver.

### EasyPerform

*State.* `state[m]` is the native handle of an implicit multi, `cached[t]` the
`easy.multi` of the easy of a thread, `parked` the list
`deferred_multi_closes`, `batch[t]` what a flush of `t` has taken from it.
`borrowed` are the multis that someone else performs, whose `_close` is refused.

*Actions.* `BeginPerform` (takes the thread's parked entries), `FlushOne` and
`DeferAgain` (release, and where it fails park again), `UseMulti`, `Transfer`,
`EndPerform`, `Defer` and `Uncache` (the ensure clause: release, park, let go of the
multi), `AtExit`. Threads take turns between all of them; the mutex makes each access
of the list one step. Nobody performs a closed multi in the moment before `Uncache`
(`Borrow`): the handle that this would make lives until the multi is collected.
The loop that splits the list by owner is stated by its result: `Sublist` has the
entries at some positions, in their order.

### MultiHttp

*State.* `urls` and `free` are `urls_with_config` and `free_handles`, `handle[h]`
the method settings of a handle, `job[h]` the request it transfers, `deferred`
the multi's pending exception. The requests come in any order. `sent` and `served`
are history: how a request was sent, and the verbs its handle had served.

*Actions.* `Fill` (`max_connects.times`), `StartPerform`, `Complete` (a transfer
and its `on_complete`), `PassEnds`, `Block`, `IdleBlock`, `ConsumeAfter` (the
three places that call `consume_free_handles`).

### SafeDownload

*State.* `target[p]` is the file at a path, `out[d]` the progress of an output
from `none` to `closed`, `files[c]` the list `files` of a call, from which finalizers
take their output and of which the ensure clause closes the rest; `errors` and
`raised` are what a call will raise. `setting`
says whether files can be linked, which easies have an `on_failure` handler, and
which calls are made within a `rescue` clause.

*Actions.* Of a call: `Resolve`, `OpenOutput`, `StartTransfers`, `HttpEnds`,
`CloseListed` and `EndCall` (its ensure clause). Of a download: `Write`,
`Complete`, `Flush`, `InstallTmpFile`, `InstallRaises`, `CopyCreates`,
`CopyStream`, `RemoveTmp`. Each system call on a path is a step, so calls and
other programs (`ForeignCreate`) meet between the early check and the install.
Outputs that the caller passes as `IO` objects, and a temporary file that cannot be
unlinked, are not modelled.

### EasyRequest, LibcurlRequest

*State.* `req` holds the settings of the libcurl handle that decide the request
line (method, custom verb, no-body mode, fields); `postBuf`, `upload` and
`chunked` are what the Ruby object keeps. `last` is the last call with the verb
it was asked for and the verb it sent.

*Actions.* One per helper and setter. A helper prepares, performs and restores;
nothing else uses the handle meanwhile, so it is one step, with an outcome per
place where it can raise (`Performed` for those within `perform`). *Liberties*
name these places.

### SocketDrive

*State.* `sockMap`, `ioCache` and `deadline` are `multi_socket_ctx`; `wait` and
`expiry` are what libcurl waits for, `valid` and `ready` the kernel's view.
Times are relative, so that the state space is finite. `setting` says which waits
the build and the scheduler offer, and the liberties of the surroundings.

*Actions.* `Prime`, `Yield`, `ServeTimer`, `WaitStep` with every way to wait
(`IoSelect`, `IoWait`, `Select`, `WaitOnOne`, `WaitWithoutSocket`),
`Interrupted`, `ActOnSocket`, `ActOnTimeout`, `LoopEnds`, `Final`, `Raise`.
libcurl is `Drive`: driven transfers go on to wait for something else or end, and
it calls back for changes of interest and of its timer only. `Arrives` and
`Vanishes` are the outside.

### EasyTransfer

*State.* `limit`, `downloaded`, `error`, `active` are fields of
`struct ruby_curl_easy`; `kind`, `offset` and `pos` the upload, its
`rbcu->offset` and the position of its stream. `sent` is what libcurl was given
since it last rewound, `first` the first exception of the transfer.

*Actions.* libcurl calls `Body`, `Notify`, `ReadString`, `StringRaises`, `ReadStream`,
`SeekOffset`, `SeekStream`; a Ruby handler `Returns`, `ReturnsOther`, `ReturnsNoString`,
`RaisesStored`, `RaisesDropped` or `Escapes`; meanwhile the program may `CloseEasy`,
`SetLimit` or `Duplicate`. `Begin` is the setup of an easy at rest: a nested
`Multi#perform` that finds a changed safety signature sets a running easy up again
(`lib/curl/multi.rb:429-437`), which resets its byte count and its stored error; this
is not modelled.

### EasyOptions

*State.* `ruby[e]` has the attributes, `curl[e]` the options of the libcurl
handle, `native[e]` and `slist[e]` the lists as curb and as libcurl hold them,
`data[e]` the objects that callbacks are given. `asked[e]` is history: what the
program last asked for, by whichever way.

*Actions.* `Set`, `SetPolicy`, `DropPolicy` (`network_policy = nil`, which keeps the
permission of a proxy), `SetProc`, `Setopt`, `SetoptList`, `PutData`,
`Start` (setup), `SetupRaises`, `Finish` (cleanup), `Clone`, `Reset`, `Close`.
Setup is the composition of its sections, `SetupPolicy` … `SetupCert`, in the
order of the code. Options that `setopt` merely passes on are all like `range`.
Instances put the options that interact into families, so that every option
occurs and no state has to carry all of them. `SetoptList` leaves out an element that
is no string and raises when the old list has been freed (`ext/curb_easy.c:5946`,
`5978`): curb and libcurl have both let go of the old list before (`1243`-`1267`), so
neither has one it does not own.

### SafetyPolicy

*State.* `config` and `generation` (ractor-local), `changing[t]` and `was[t]` (how far
a thread is within `safe!`), `attrs[e]` and `native[e]` (options of the easy, and what
setup gave to libcurl), the override and its generation, `signature` of each attached
easy, `inHand` the easy that add or perform is dealing with. `permit` stands for all
`allow_` switches of a configuration and `routed` for the overrides of the routing that
they permit; `dns_servers` is always refused (`lib/curl.rb:283`) and left out.
`program` is the configurations, the easies and the threads of a behaviour.

*Actions.* `Curl.safe!` is `StoreConfig`, `ReadGeneration`, `BumpGeneration`, by any of
the `Changers`. The program may `SafeHttp`, `UserSets`, `Reset`, `Add`, `RemoveEasy`
between the calls and in handlers. `Perform` looks at each attached easy: `PerformOne`
(apply), `AskActive` (is a configuration set), `SkipSetup` or `SetupAgain` (read the
generation, compare, set up, record), which may raise before or after libcurl has been
given the policy; `RecordAdded` is the same end of `Add`. Then `NativePerform`, `EndOne`
and `PerformReturns`. Whatever reads or writes the configuration or the generation is a
step of its own, so that `safe!` comes between any two of them.

*History.* `under[e]`, `cleared[e]` are the configurations that the last `apply_safety!`
of an easy, and that of this perform, saw. An easy is `doubtful` if `safe!` was under way
in another thread while the easy was in hand, and `spoiled` if its last setup raised half
way. The properties exempt what the code does not keep in these cases (section 5, 19).

### NetworkPolicy

*State.* The options `policy`, `cidrs` and `hosts`, the native rules made of
them, the hooks that setup installed, the stored error, and the last decision;
`answers` is history: whether the decisions since the last setup were refusals.
`scenario` selects the lists, destinations and URLs that are met.

*Actions.* The setters (within a transfer too), `SetupNetwork`, `OpenSocket`, `Prereq`,
`Finish`. The byte and mask arithmetic of `UnsafeIpv4`, `UnsafeIpv6` and
`PrefixMatches` is that of the code, with `Masked(b, n)` for a byte and the mask of
its `n` leading bits; the properties compare it with blocks
defined bit by bit (`InBlock`). A CIDR is parsed from its form, its address and
what follows the slash; a host text is a sequence of tokens.

## 3. Runs

| Run | Instance | Properties |
|---|---|---|
| `MultiShared` | 2 easies, 2 multis, each easy attached twice, common use | `OwnershipAgrees`, `ActiveIsExact`, `RunningCoversTransfers`, `HandleOutlivesPerform`, `NoReplacementWork`, `CallbackErrorIsFresh`, `PerformReturnsIdle`, `CloseClearsReferences`, `ImplementsContract` |
| `MultiLiveness` | 3 easies, 1 multi; autoclose, attached easies closed, callbacks left by any exception; fairness | `TypeOK`, `DeferredIsRaised` |
| `SchedulerFaults` | 3 fibers, one performing twice; three sets of faults; fairness | `CallbackErrorsStayHome`, `NobodyIsForgotten`, `UsesMultiByContract`, `EveryPerformEnds` |
| `PerformThreads` | 2 threads, 4 implicit multis, autoclose on and off, exit | `OnePlaceEach` |
| `HttpPool` | 5 requests with 5 verbs in any order, 3 handles, failing callbacks, refused options; fairness | `PoolIsSound`, `FailureIsRaised`, `VerbAsAsked`, `HttpEnds` |
| `DownloadShared` | a `Multi.download` of 2 and an `Easy.download` racing for a path; I/O and block failures; three settings | `InstallsAtomically`, `OneWinner`, `FailureReported`, `TempsRemoved` |
| `RequestReuse` | all helpers and setters, 2 bodies, a file and a stream, every set of liberties | `SendsItsVerb`, `RequestRestored`, `LibcurlAgrees` |
| `SocketFaults` | 2 descriptors, 3 kinds of scheduler; two settings; fairness | `ContextIsCurrent`, `NeverLate`, `LoopProgresses` |
| `TransferCallbacks` | limits 0, 2, 3; bodies up to 4; uploads of 3; every set of liberties | `LimitIsExact`, `UploadIsData`, `HandlersAreContained` |
| `SafetyThreads` | four programs: 1 easy with every option and up to 3 configurations, 2 threads within `safe!`, or 2 easies | `RunsWithinPolicy`, `SignatureIsHonest` |
| `PolicyChecks` | 400 IPv4 addresses at the edges of blocks, IPv6 blocks, mapped and NAT64 addresses; or 21 CIDR lists, 7 host lists, URLs in 45 spellings | `OpensOnlyAllowed`, `SendsOnlyToListedHosts`, `RulesFollowOptions` |
| `OptionsReuse` | 23 families of options, 5 calls; clones in 5 of them | `RunsAsAsked`, `OwnsWhatItUses` |

Several runs begin by drawing the circumstances of the whole behaviour: the
liberties that the program takes, the faults that occur, the setting or the
program. They are variables that no step changes. One run then covers all
circumstances, and a property can name the ones it exempts, so that it is as
strong as the code allows in every other.

### Properties

- `OwnershipAgrees`: libcurl's set, the attached table, `Multi#requests` and the
  back references never disagree; hence an easy is in at most one multi.
- `ActiveIsExact`: the counter that gates the deferred exception is the number of
  requests, and requests are exactly the transfers.
- `RunningCoversTransfers`: `running` (libcurl's count plus the adds since) never
  falls below the transfers in progress, so the loop cannot end early.
- `HandleOutlivesPerform`: a CURLM in use by a perform is not freed.
- `NoReplacementWork`: while an exception waits, nothing that was attached since
  the failing completion is transferred. An easy that the failing callback
  removed and added again is covered: only the generations tell it.
- `CallbackErrorIsFresh`: a stored error belongs to the transfer in progress.
- `PerformReturnsIdle`, `DeferredIsRaised`: how a perform ends, and that a
  callback exception leaves it. `ImplementsContract` says when: not before the
  siblings have drained. Exempt from `DeferredIsRaised` are programs that close
  an attached easy.
- `CloseClearsReferences`: nothing refers to a closed multi.
- `CallbackErrorsStayHome`: who gets an exception in the scheduler. Exempt are
  fibers that were cancelled and drivers that failed.
- `NobodyIsForgotten` (`NoLostWakeup`, `PendingIsDriven`, `WaiterIsServed`),
  `EveryPerformEnds`: nobody sleeps for ever. Exempt from the last two
  (`Stranding`): `on_complete` callbacks that raise, and callbacks that raise
  where the driver fails too.
- `OnePlaceEach` (`NoLeakedMulti`, `ParkedOnce`, `CachedNotParked`): an implicit
  multi that is open is in exactly one of: an easy, the parked list, a flush. Exempt is
  the moment between its parking and `self.multi = nil` (`lib/curl/easy.rb:292-294`).
- `PoolIsSound` (`AllSentOnce`, `PoolDisjoint`), `FailureIsRaised`,
  `HttpEnds`: the pool; the request taken by the last `consume_free_handles` is
  the delicate one, and what a callback raised must not be lost while requests are
  taken off the list and `add` ignores them. `VerbAsAsked`: a reused handle sends what its request asks.
- `InstallsAtomically`, `OneWinner`, `FailureReported`, `TempsRemoved`:
  downloads. The first exempts installs by copy and `Easy.download` with
  `on_failure`, the third `Multi.download` within a `rescue` clause.
- `SendsItsVerb`, `RequestRestored` (`VerbRestored`, `UploadRestored`,
  `PatchRestored`): a request does not depend on the requests before it, with the
  exemptions of section 5. `LibcurlAgrees` (`ReaderHasData`, `BodyAgrees`): the
  Ruby object and libcurl agree on the upload and the body, without exemption.
- `ContextIsCurrent` (`MapMirrors`, `CacheIsCurrent`, `NothingLeftBehind`):
  descriptors that are closed and come back. `NeverLate`, `LoopProgresses`
  (`ReadyIsServed`, `PerformEnds`): the waits.
- `LimitIsExact` (`WithinLimit`, `LimitIsReal`): the body limit from both sides.
  `UploadIsData`: what libcurl is given is the data, also after a rewind.
  `HandlersAreContained` (`FirstErrorIsRaised`, `CloseIsRefusedInCallbacks`).
- `RunsAsAsked`: the options of a running transfer are a function of what was
  asked for, not of the handle's past. `OwnsWhatItUses` (`ListsAreOwn`,
  `CallbacksAreOwn`): also across `clone`, failed setups and `close`.
- `RunsWithinPolicy` (`AtOnceWithin`, `SetUpWithin`), `SignatureIsHonest`: the
  configuration that counts, and when skipping a setup is right, with `safe!` between
  any two lines. For a `doubtful` easy they say nothing of proxy and routes; for one
  that is `spoiled` too, nothing of policy and hosts.
- `OpensOnlyAllowed` (`OpensRight`, `RefusalOnRecord`), `SendsOnlyToListedHosts`: the
  hooks against reference definitions, and that a refusal stays on record, whatever
  libcurl tries after it, until the next setup and not longer. `RulesFollowOptions`: the life time of the native rules.

Where a module's types are not a property of their own, `TypeOK` is a conjunct of
the invariant about its whole state.

### Bounds

Two multis are needed for moves and for libcurl's refusals, two easies for a
sibling in flight while another completes, and two generations for everything
about re-use (`MaxGeneration` is the only unbounded counter's bound; `active` and
`running` are bounded by the number of adds). A third easy matters only for
draining, which `MultiLiveness` has. In the scheduler three fibers give a failing
request, a slow sibling and a newcomer; one of them performing twice meets what
its first perform left behind. `MaxPerforms` makes the scheduler come to rest,
so its run says `CHECK_DEADLOCK FALSE`; the runs of `CurlMulti` check deadlock.
Its three fault sets are all callback exceptions; setup, driver and cancellation;
and the ones under which every perform must end.

`MaxWork` of `SocketDrive` is how often libcurl may ask for something new: four
suffice for two transfers that change socket and interest, or for a descriptor
that is closed and comes back; a timer of 3 is longer, one of 1 shorter than the
default timeout of 2. A body of 4 in chunks of at most 2 meets limits 2 and 3
exactly, by one too many, and in the middle of a chunk. Five calls (`MaxCalls`)
set two options, transfer, change one and transfer again. Two generations suffice
for a configuration that changes under a perform. In downloads two chunks tell a
whole body from a part. Five requests by three handles use one handle up to three
times. These models stop at their bounds, or when all calls have ended, and say
`CHECK_DEADLOCK FALSE`; `EasyRequest`, `MultiHttp`, `SafetyPolicy` and
`NetworkPolicy` check deadlock.

Symmetry is used in safety runs only: easies and multis are interchangeable in
`MultiShared`, implicit multis in `PerformThreads`.

### Fairness

`CurlMulti`: Ruby gives a runnable thread or fiber control again and again, user
callbacks and blocks end, and libcurl ends every transfer that it is driven for
again and again (a response or its timeout). The steps of a frame that user code
can disable by taking its turn need strong fairness; the native ones are not
interrupted and need weak fairness only. No fairness is assumed of the program's
own operations. `FiberScheduler`: the scheduler runs every ready fiber again and
again and the driver is never starved; the same assumption on libcurl.
`MultiHttp`: the loop runs, and a transfer that is driven again and again ends.
`SocketDrive`: `FairSpec` only says that the loop runs. That peers answer and that
perform is called (`Answered`) is the antecedent of `PerformEnds`; nothing is
assumed about libcurl noticing a socket it is not told about.

## 4. Proofs

TLC shows each property on an instance; the theorems below show it for all values
of the constants. Every invariant that a proof adds was first checked by TLC. The
assumptions on the constants are the `ASSUME`s of the modules: finiteness, the
ranges of parameters, and that markers (`None`, `Absent`, `Foreign`) differ from
the values they are told from. Where a property of a run exempts a circumstance,
so does the theorem; four theorems exclude, by a hypothesis on a constant, one
liberty (`perform_released`, `close_attached`, `again`) that their run does not take
either, and hold for all other liberties, also those that the run leaves out.

**CurlMulti.**

- `TypeCorrect`: `TypeOK`. The content is that no counter becomes negative; it
  rests on `DecrementType` and facts about finite cardinalities.
- `OwnershipCorrect`: `OwnershipAgrees`. It is not inductive alone: a multi whose
  native handle is released and re-created starts with an empty CURLM, so the
  invariant also says that such a multi holds nothing (`ReleasedIsEmpty`).
  `Owned` is the conjunction with `TypeOK`. `AttachedRemovable` shows that libcurl
  never refuses to remove an attached easy, which is what makes `Multi#remove`,
  `multi=` and `__close` atomic enough; `OwnershipShrinks` covers every action that
  only takes easies out.
- `ActiveCorrect`, `RunningCorrect`: `ActiveIsExact`, `RunningCoversTransfers`.
  Both are inductive over `Owned`; one lemma says what a detachment does to each
  cardinality.
- `HandleSafe`: `HandleOutlivesPerform`, without `perform_released` (section 5,
  3). The strengthening is `Guarded`: from its first step to its last a perform
  has its flag raised and its handle.
- `ErrorsFresh`: `CallbackErrorIsFresh`; inductive.
- `NoReplacement`: `NoReplacementWork`. The rollback compares generations, so the
  invariant `LateIsKnown` says that, while a callback runs, the generation of every
  easy attached since its snapshot is larger than the one in the snapshot.
- `ReturnsIdle` and `ClosesReferences` are action properties. The first, without
  `close_attached` (section 5, 1), needs `Settled`: counters are exact and a block
  with a pending exception has transfers running, so the loop goes on. The second
  needs `ReferencesKnown`: what refers to a multi is a request of it, an idle
  reference or completing, so `close` finds it.
- `KeepsContract`: `ImplementsContract`, without `close_attached`. Every step is a
  start, a stop of some transfers, a delivery, a close or a stutter of
  `TransferContract` (`StartsTransfer` … `ClosesOwner`, `ContractStep`).

**FiberScheduler.** The invariant is built in five parts, each over those before.

- `Base`: types, where fibers and driver are (`Shape`), the exception and its
  source id are set together (`Source`), woken fibers have run when completions
  are handled (`WokenRunFirst`), no wakeup is lost, queued work has a driver. The
  rescue clause of the driver has two outcomes, `ToOriginator` and `ToEveryone`,
  and most lemmas split on them (`DriverFailsFacts`).
- `Separate`: a request is in one place. A fiber that was cancelled may queue its
  easy twice, so this is said of the part of the queue that a drain can reach.
- `Stashed`: the originator is not done, and has its exception or is the source of
  the deferred one, so that no release reaches it first.
- `Served`, unless `Stranding`: no exception is pending outside perform
  (`Settled`), who has completed is released there (`Handed`), a fiber in perform is
  somewhere on the way (`Located`), and has a driver (`Driven`).
- `Home`, when no fiber is cancelled and driving does not fail: every request on the
  way is awaited and there once (`Awaited`), and the originator waits behind its
  transfer (`OriginatorWaits`); or the head of the queue is refused and no driver
  reaches the multi any more (`Stuck`).

`NoneForgotten` (`NobodyIsForgotten`) follows from `Base` and `Served`,
`ErrorsStayHome` (`CallbackErrorsStayHome`) from `Stashed` and `Home`. `UsesContract`
is the refinement of `TransferContract` (`UsesMultiByContract`).

**EasyPerform.** `OnePlace`: `OnePlaceEach`. The invariant `Placed` says for every
multi that it is once in the lists (`OneList`), cached by one easy at most
(`OneEasy`), somewhere if open (`Somewhere`), what each stage of a perform
holds (`Stages`), and that it is closed or listed before its easy lets go of it
(`Leaving`). `SublistFacts`, `ParkFacts` and `TailFacts` are about the lists.

**SafeDownload.** `OneWins`: `OneWinner`, from `ClaimsHold`: a download that has
installed, or is copying, claims its path; a claimed path is never free again, and
of two claims to it one may overwrite. `InstallIsAtomic`: the refinement of
`AtomicInstall`; `WholeFiles` says that what is about to be installed is complete.
`TempsGone`, `FailuresReported`: `TempsRemoved`, `FailureReported`, from `Ended`,
which accounts for every output of a call: how far it may be in each phase of the
call, that one that is open is listed in `files`, so that the ensure clause finds it,
and that one that has ended is installed or reported (`Accounted`, `Listed`).

**EasyRequest.** A call works on a record of settings, so the argument is one lemma
per function of curb, over one lemma per libcurl option (`NobodyFacts` …).
`RequestsAgree` (`LibcurlAgrees`) is inductive: each function maps `Sound` settings
to `Sound` settings (`PostBodySound` … `FormRestoreSound`), `BecomeAgrees` carries
the result into the next state, and `HelperAgrees` and `SetterAgrees` have one step
per call. `VerbsAreSent`, `NothingLingers` (`SendsItsVerb`, `RequestRestored`) state
an `Outcome` of each call in the same way. The strengthening is `NoVerbLeft`:
`http_head` sets no verb, so it sends HEAD only if no earlier call has left one.

**MultiHttp.** `PoolSound`: `PoolIsSound`, for any finite set of requests and any size
of the pool. The invariant is `Pooled`: a request is queued, carried by a handle or
sent, in one of these places only (`NoneTwice`) and, until something fails, in one of
them (`NoneLost`); a handle is in use or listed as free, once (`PoolFits`,
`FreeOnce`); and where the call may be when (`HttpStages`): the last
`consume_free_handles` finds no request in flight. `FailuresRaised`
(`FailureIsRaised`) rests on the same stages: while an exception waits, a transfer is
in flight, so neither the perform nor the loop around it can end. `VerbsAsAsked`: `VerbAsAsked`,
from `HandlesFit`: a handle that has served no HEAD and no DELETE is `Plain` when it
is free and has the settings of its request when it is in use. `ConfiguredFits` is the
case over `:method`; `CompleteAsked` uses that the cleanup after a PUT makes the handle
plain again.

**EasyOptions.** `TransfersRunAsAsked`, `TransfersOwnWhatTheyUse`: `RunsAsAsked`,
`OwnsWhatItUses`, for any number of easies, any values and any sequence of calls.
`OptionsInv` says of every easy, running or not, that the Ruby object keeps what was
asked for but for what `setopt` gives to libcurl alone (`Kept`), that curb holds
every list libcurl has (`ListsHeld`), and that the handle leads back to its own easy
(`PointsBack`); of a running one, that the options are right (`RunsRight`). Nothing is
said of the options of an easy at rest, so the step that starts a transfer has to
show that setup puts each of them right: one lemma per section of setup says which
options it sets and that it leaves the others alone.

**EasyTransfer.** `TransferInv` has a part per property. `LimitsAreExact`
(`LimitIsExact`) needs `BodyCounted`: the count is what the program was given, plus the
chunk that an `on_body` handler is looking at. `UploadsAreData` (`UploadIsData`) needs
`UploadInOrder`: what libcurl has been sent since its last rewind is as long as the
offset, or as the position of the stream. `HandlersContained`
(`HandlersAreContained`) needs `CallbackGuarded` and `ErrorsAgree`: the flag is up
exactly within a handler, and the error stored is the first one. Limits, chunks and
lengths are any numbers.

**SocketDrive.** `WaitsInTime`: `NeverLate`, from `OnTime`, by which the deadline
of the context is libcurl's own wherever the loop waits. `ContextCurrent`:
`ContextIsCurrent`, from `Mirrors` (the map agrees with libcurl whenever perform is
under way, and before it nothing is open), for settings without `again` (section 5,
12). `DriveFacts` says what a drive of libcurl changes.

**SafetyPolicy.** The invariant has four parts over the types (`Typed`). `Hand`: from
the application of an easy to its signature nothing but `safe!` touches it, so its
options obey what was applied and, unless `overlapped`, that is the configuration in
force. `Recorded`: a signature has the policy and the host list that libcurl was given,
unless the easy is spoiled. `Dated`, unless it is doubtful: the generation of a signature
is at most the current one and what any thread within `safe!` has read; if it is the
current one and nobody is within `safe!`, libcurl is `Within` the configuration. `Vetted`:
each easy that `perform` has looked at, or that runs, satisfies `AtOnceWithin` and
`SetUpWithin`. `SignaturesAreHonest` (`SignatureIsHonest`) follows from `Recorded` and
`Dated`, `AlwaysWithinPolicy` (`RunsWithinPolicy`) from `Vetted`. One lemma per section
of `apply_safety!` says what it makes of the options. Nothing is assumed of how the
steps of several threads in `safe!` interleave.

**NetworkPolicy.** `SocketsAreAllowed`: `OpensOnlyAllowed`, for all addresses of 4 and 16
bytes and all CIDR lists; its part `RefusalOnRecord` (`RecordStep`) relates the stored
error to the history `answers`. Most of it is about operators. `LeadingBits`: two bytes are
equal under a mask exactly if their leading bits are, by the weights of the bits.
`PrefixIsBlock`: the loop over whole bytes and the mask of the rest decide whether the
first bits are the same (`InBlock`), for every length of a prefix. `Ipv4Blocked` and
`Ipv6Blocked`: the tests of the code, in their order, are membership in the special
blocks, with one lemma per length of a block (`Block3` … `Block96`) and, for IPv6,
`Ipv6Apart`, by which no address is in two blocks whose tests would disagree. The
invariant `NetworkInv` adds to `RulesFollowOptions` (`RulesAreFollowed`) that what the
setters let through parses, and that the socket hook is there under the public policy
only. `RequestsAreListed`: `SendsOnlyToListedHosts`, if the host is read out of each URL
as the URL spells it (`UrlsAreRead`). What is proved is the life of the rules around
that reading. The reading itself searches a token sequence, which the prover cannot
follow; TLC meets it in the same property on every spelling of `PolicyChecks`, each of
which satisfies the hypothesis.

The proof of `Ipv6Blocked` failed at first, and rightly: the reference definition called
every address of `::/16` that ends in `0001` special, but `curb_ipv6_is_unsafe_destination`
decides `::ffff:8.8.0.1` by the IPv4 address in it, before that test. `Ipv6Special` now
says so, and `PolicyChecks` has that address and its NAT64 form.

Only model-checked: liveness (`DeferredIsRaised`, `EveryPerformEnds`, `HttpEnds`,
`LoopProgresses`), which is out of the prover's reach, and the reading of host texts
(`HostValue`). Every other property of the runs is a theorem.

## 5. Where the code and its documents differ

The properties exempt these circumstances, or leave these options out. Each was
met as a counterexample of the property without the exemption.

1. `Easy#close` on an attached easy takes it out of libcurl and of the attached
   table, but neither out of `Multi#requests` nor out of `active`
   (`ext/curb_easy.c:1322`), so `perform` returns with requests still listed.
   `tests/tc_curl_multi.rb:749`: "A Curl::Multi handle should be idle after
   performing its requests".
2. Completion callbacks run under `rb_rescue` (`ext/curb_multi.c:1026`): after an
   exception that is no `StandardError` the work queued by the callback is kept.
   `ChangeLog.md:56`: "queued replacement work is no longer started once a
   deferred callback exception is pending". `NoReplacementWork` speaks of
   `StandardError`s.
3. `perform` on a multi that autoclose released raises its guard flag, then
   re-creates the handle, which resets the flag (`ext/curb_multi.c:536`); a
   `close` in the block frees the handle in use. `ChangeLog.md:32`: "closing a
   multi handle from callbacks or perform blocks raises instead of freeing an
   in-use libcurl multi handle". `MultiShared` has no autoclose.
4. Two `on_complete` exceptions before the shared multi has drained: the second
   waiter is neither completed nor failed (`lib/curl.rb:513`); two status-callback
   exceptions: the second perform returns normally (`ext/curb_multi.c:292`).
   `ChangeLog.md:64`: "callback failures are re-raised on the originating request
   after sibling work drains".
5. The exception of a request whose fiber was cancelled is raised in other fibers
   (`lib/curl.rb:467`). `tests/tc_fiber_scheduler.rb:645`: "slow successful
   scheduler peer should not inherit a fast sibling callback error".
6. An install by copy that fails leaves a part of the body
   (`lib/curl/download.rb:153`). `lib/curl/easy.rb:752`: "The destination is
   written through a temporary file".
7. With an `on_failure` handler `Easy#perform` does not raise, and
   `Easy.download` installs the body of a failed transfer (`lib/curl/easy.rb:782`).
8. Within a `rescue` clause of the caller `$!` is set, and `Multi.download` drops
   its errors (`lib/curl/multi.rb:305`). `tests/tc_curl_multi.rb:1062` expects
   `assert_raise(Curl::Multi::DownloadError)`.
9. A request leaves something to the next one: its verb, when an argument of
   `http_patch` or `http_put` cannot be converted (`ext/curb_easy.c:4698`); HEAD
   mode, when `http_head` raises (`lib/curl/easy.rb:585`); its upload, when
   `http_put` is refused before the transfer (`ext/curb_easy.c:4387`); POST mode,
   after a multipart `http_patch` (`ext/curb_easy.c:4574`); the headers of a
   streamed upload (`ext/curb_easy.c:2232`). `ChangeLog.md:34`: "Restore one-shot
   request state for `HEAD`, `PATCH`, and `PUT` requests after success or
   callback/error unwinds so later requests do not inherit stale method/body
   options".
10. `http_post` without arguments sends a GET after a GET, although a body is
    stored (`ext/curb_easy.c:4650`; the comment at 4643 says a previously set
    `post_body` "will be honored").
11. A pooled handle of `Multi.http` keeps HEAD or DELETE for its next request
    (`lib/curl/multi.rb:127`). `lib/curl/multi.rb:92`: "Blocking call to issue
    multiple HTTP requests with varying verb's."
12. A perform after one that raised starts with an empty socket map, and libcurl
    does not announce the sockets of the transfers left over again
    (`ext/curb_multi.c:1932`). `ext/curb_multi.c:1844`: "so the state machine does
    not stall indefinitely".
13. Rewinding a stream that cannot seek is reported as done
    (`ext/curb_easy.c:1025`). `ChangeLog.md:299`: "Implement seek function for
    multi-pass authentication uploads".
14. A clone made in a callback copies `callback_active` and can never be closed
    (`ext/curb_easy.c:1585`).
15. Exceptions other than `StandardError` unwind libcurl (`ext/curb_easy.c:839`).
    `ChangeLog.md:44`: "avoid unsafe unwinds through libcurl".
16. A short count of `on_body` raises `WriteError` (`ext/curb_easy.c:1045`); line
    3584 documents `AbortedByCallbackError`.
17. Options (`Doubtful`, `Sticky` in `EasyOptions`): `local_port = nil` does not
    take the port back (`ext/curb_easy.c:4120`, documented at 2458);
    `connect_timeout` is overwritten by `connect_timeout_ms` (4088, documented at
    2760); `CURLOPT_HEADER` and its like, given to `setopt`, are overwritten by
    setup (4057; `ChangeLog.md:259` lists that as fixed); a Unix socket path is
    lost after a transfer under the public policy (3923, documented at 3519).
18. A handler removed during a transfer stays installed and is called as nil
    (`ext/curb_easy.c:1061`, documented at 3577).
19. `Curl.safe!` stores the configuration and then bumps the generation
    (`lib/curl.rb:192`), which is itself a read and a write (line 260), while `perform`
    applies the one and signs with the other (`lib/curl/multi.rb:430`). With a thread
    between the two, a signature carries the generation of another configuration than
    the one applied; it matches, setup is skipped, and the transfer runs with a proxy or
    route that libcurl was given under the older configuration (`doubtful`).
    `README.md:233`: "Proxies, `resolve`, `connect_to`, DoH URL overrides, and Unix socket
    paths are disabled by default under this policy". In one thread too, a setup that
    raises half way leaves the old signature, so that going back to the old options
    skips the setup while libcurl has the others' (`spoiled`, `lib/curl/multi.rb:434`).

Observed, but contradicting no document: a rejected `Multi#close` has already
removed every request; an easy whose setup raises stays at the head of
`state[:pending]`, so later scheduler performs of that thread fail on it; an
error of `perform` itself while a callback exception is deferred goes only to
the exception's source, and the siblings have no driver until the next perform;
`max_connects` of 0 makes `Multi.http` loop for ever (excluded by an assumption);
bytes that arrive before `max_body_bytes` is set in a handler are not counted;
the mutex of the parked closes is created on first use without a lock; a
configuration changed after `Curl.safe!` by the block that kept it gets no new
generation.

## 6. Not modelled

User operations on a multi inside libcurl's data callbacks, where libcurl may
refuse re-entrant calls; garbage collection and the finalizers; option setters
of a multi; a nested perform of a multi whose handle was re-created under a
running perform; autoclose of the shared scheduler multi; the derivation of a
file name from a URL; the commands of `CURLOPT_COOKIELIST`; CIDR and proxy host
lists of a safety configuration, and the reset of an attached easy;
`Curl::PostField`, the error table, constants and getters, which keep no state of
interest. libcurl, the GVL, the kernel and the scheduler are external and
modelled by how the code uses them. Components without a module are listed with
reasons in `PROJECT.json`.

## 7. Outlook

All components with a protocol of their own have a module, and every safety property
of the runs a theorem. What could follow: a model of user operations on a multi within
libcurl's data callbacks, which needs a closer model of what libcurl refuses there; and
proofs without the exemptions of section 5, once the code has changed.
