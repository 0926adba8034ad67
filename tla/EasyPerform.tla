----------------------------- MODULE EasyPerform -----------------------------
(***************************************************************************)
(* Easy#perform without a fiber scheduler: the implicit Curl::Multi that a *)
(* perform creates and caches, its release when perform raises or under    *)
(* Multi.autoclose, and the multis whose close is refused, which are       *)
(* parked and closed by later performs of the thread and at exit.          *)
(*                                                                         *)
(* Source: lib/curl/easy.rb.  Threads take turns at every method call.     *)
(* _close is refused while someone performs the multi, which other threads *)
(* reach through easy.multi; borrowed models them.                         *)
(***************************************************************************)
EXTENDS Naturals, Sequences, FiniteSets

CONSTANTS
  Threads,   \* each performs an easy of its own
  Main,      \* the thread that runs the at_exit handler
  Multis,    \* bound: the implicit multis that can be created
  Autoclose, \* the values Multi.autoclose takes during the run
  None

ASSUME PerformAssumption ==
  /\ Main \in Threads /\ None \notin Multis
  /\ IsFiniteSet(Multis) /\ Autoclose \subseteq BOOLEAN /\ Autoclose # {}

VARIABLES
  state,     \* state[m]: "new", "open", or "closed"
  cached,    \* cached[t]: easy.multi of the easy of t
  parked,    \* deferred_multi_closes: [multi, owner] entries
  batch,     \* batch[t]: pending in a flush_deferred_multi_closes of t
  pc,        \* where the perform of t is
  current,   \* current[t]: the multi it uses
  created,   \* created[t]: created_multi
  raised,    \* raised[t]: perform is left by an exception
  borrowed,  \* the multis someone else is performing
  exiting    \* the at_exit handler runs or has run

vars == <<state, cached, parked, batch, pc, current, created, raised, borrowed, exiting>>

Entries == [multi : Multis, owner : Threads]

Places == {"idle", "flush", "again", "transfer", "ensure", "defer", "uncache", "exited"}

TypeOK ==
  /\ state \in [Multis -> {"new", "open", "closed"}]
  /\ cached \in [Threads -> Multis \cup {None}]
  /\ parked \in Seq(Entries) /\ batch \in [Threads -> Seq(Entries)]
  /\ pc \in [Threads -> Places]
  /\ current \in [Threads -> Multis \cup {None}]
  /\ created \in [Threads -> BOOLEAN] /\ raised \in [Threads -> BOOLEAN]
  /\ borrowed \subseteq Multis /\ exiting \in BOOLEAN

Init ==
  /\ state = [m \in Multis |-> "new"]
  /\ cached = [t \in Threads |-> None]
  /\ parked = <<>> /\ batch = [t \in Threads |-> <<>>]
  /\ pc = [t \in Threads |-> "idle"]
  /\ current = [t \in Threads |-> None]
  /\ created = [t \in Threads |-> FALSE] /\ raised = [t \in Threads |-> FALSE]
  /\ borrowed = {} /\ exiting = FALSE

-----------------------------------------------------------------------------
\* ruby_curl_multi_close raises while a perform uses the handle.
Closable(m) ==
  m \notin borrowed /\ \A t \in Threads : pc[t] = "transfer" => current[t] # m

\* defer_multi_close: an entry for the multi, unless there is one.
ParkIfNone(list, m, owner) ==
  IF list # <<>> THEN list ELSE Append(list, [multi |-> m, owner |-> owner])
Park(list, m, owner) ==
  IF \E i \in DOMAIN list : list[i].multi = m THEN list
  ELSE Append(list, [multi |-> m, owner |-> owner])

\* The elements of a list at some positions, in their order: a set of one list.
Sublist(list, keep) ==
  LET Increasing(f) == \A i, j \in DOMAIN f : i < j => f[i] < f[j]
  IN {[i \in DOMAIN f |-> list[f[i]]] :
        f \in {g \in [1 .. Cardinality(keep) -> keep] : Increasing(g)}}

\* The critical section of flush_deferred_multi_closes: the entries of the
\* thread are taken, at exit all of them.
OwnEntries(t) == {i \in DOMAIN parked : parked[i].owner = t}

BeginPerform(t) ==
  /\ pc[t] = "idle" /\ \E m \in Multis : state[m] = "new"
  /\ \E own \in Sublist(parked, OwnEntries(t)) : batch' = [batch EXCEPT ![t] = own]
  /\ parked' \in Sublist(parked, DOMAIN parked \ OwnEntries(t))
  /\ pc' = [pc EXCEPT ![t] = "flush"]
  /\ UNCHANGED <<state, cached, current, created, raised, borrowed, exiting>>

AtExit ==
  /\ pc[Main] = "idle" /\ ~exiting
  /\ exiting' = TRUE
  /\ batch' = [batch EXCEPT ![Main] = parked] /\ parked' = <<>>
  /\ pc' = [pc EXCEPT ![Main] = "exited"]
  /\ UNCHANGED <<state, cached, current, created, raised, borrowed>>

\* release_deferred_multi_close closes the next multi, or fails.
FlushOne(t) ==
  /\ pc[t] \in {"flush", "exited"} /\ batch[t] # <<>>
  /\ LET m == Head(batch[t]).multi
     IN IF Closable(m)
        THEN /\ state' = [state EXCEPT ![m] = "closed"]
             /\ batch' = [batch EXCEPT ![t] = Tail(@)] /\ UNCHANGED pc
        ELSE pc' = [pc EXCEPT ![t] = "again"] /\ UNCHANGED <<state, batch>>
  /\ UNCHANGED <<cached, parked, current, created, raised, borrowed, exiting>>

\* defer_multi_close of a multi that could not be released.
DeferAgain(t) ==
  /\ pc[t] = "again"
  /\ parked' = Park(parked, Head(batch[t]).multi, Head(batch[t]).owner)
  /\ batch' = [batch EXCEPT ![t] = Tail(@)]
  /\ pc' = [pc EXCEPT ![t] = IF t = Main /\ exiting THEN "exited" ELSE "flush"]
  /\ UNCHANGED <<state, cached, current, created, raised, borrowed, exiting>>

\* The multi of the perform: the cached one, or a new one.
UseMulti(t) ==
  /\ pc[t] = "flush" /\ batch[t] = <<>>
  /\ IF cached[t] # None
     THEN /\ current' = [current EXCEPT ![t] = cached[t]]
          /\ created' = [created EXCEPT ![t] = FALSE]
          /\ state' = [state EXCEPT ![cached[t]] = "open"]
          /\ UNCHANGED cached
     ELSE \E m \in Multis :
          /\ state[m] = "new"
          /\ state' = [state EXCEPT ![m] = "open"]
          /\ current' = [current EXCEPT ![t] = m]
          /\ created' = [created EXCEPT ![t] = TRUE]
          /\ cached' = [cached EXCEPT ![t] = m]
  /\ pc' = [pc EXCEPT ![t] = "transfer"]
  /\ UNCHANGED <<parked, batch, raised, borrowed, exiting>>

\* add, perform and remove: they end, or one of them raises.
Transfer(t) ==
  /\ pc[t] = "transfer"
  /\ \E r \in BOOLEAN : raised' = [raised EXCEPT ![t] = r]
  /\ pc' = [pc EXCEPT ![t] = "ensure"]
  /\ UNCHANGED <<state, cached, parked, batch, current, created, borrowed, exiting>>

\* The ensure clause closes the multi that perform has created, where it is left
\* by an exception, and any multi under autoclose.  An autoclose that is refused
\* raises and leaves the multi with the easy.
EndPerform(t) ==
  /\ pc[t] = "ensure"
  /\ \E auto \in Autoclose :
       LET failed == created[t] /\ raised[t]
           closes == (failed \/ auto) /\ Closable(current[t])
       IN /\ state' = IF closes THEN [state EXCEPT ![current[t]] = "closed"] ELSE state
          /\ pc' = [pc EXCEPT ![t] = IF closes THEN "uncache"
                                    ELSE IF failed THEN "defer" ELSE "idle"]
  /\ raised' = [raised EXCEPT ![t] = FALSE]
  /\ UNCHANGED <<cached, parked, batch, current, created, borrowed, exiting>>

\* defer_multi_close, where the release has failed.
Defer(t) ==
  /\ pc[t] = "defer"
  /\ parked' = Park(parked, current[t], t)
  /\ pc' = [pc EXCEPT ![t] = "uncache"]
  /\ UNCHANGED <<state, cached, batch, current, created, raised, borrowed, exiting>>

\* self.multi = nil, after the multi was closed or parked.
Uncache(t) ==
  /\ pc[t] = "uncache"
  /\ cached' = [cached EXCEPT ![t] = None]
  /\ pc' = [pc EXCEPT ![t] = "idle"]
  /\ UNCHANGED <<state, parked, batch, current, created, raised, borrowed, exiting>>

\* Someone else performs a multi it found as easy.multi, and ends.
Borrow(m) ==
  /\ \E t \in Threads : cached[t] = m
  /\ state[m] = "open" /\ m \notin borrowed
  /\ borrowed' = borrowed \cup {m}
  /\ UNCHANGED <<state, cached, parked, batch, pc, current, created, raised, exiting>>

GiveBack(m) ==
  /\ m \in borrowed /\ borrowed' = borrowed \ {m}
  /\ UNCHANGED <<state, cached, parked, batch, pc, current, created, raised, exiting>>

ThreadStep(t) ==
  \/ FlushOne(t) \/ DeferAgain(t) \/ UseMulti(t) \/ Transfer(t)
  \/ EndPerform(t) \/ Defer(t) \/ Uncache(t)

Next ==
  \/ \E t \in Threads : BeginPerform(t) \/ ThreadStep(t)
  \/ AtExit
  \/ \E m \in Multis : Borrow(m) \/ GiveBack(m)

Spec == Init /\ [][Next]_vars

-----------------------------------------------------------------------------
InBatch(m) == \E t \in Threads : \E i \in DOMAIN batch[t] : batch[t][i].multi = m
InParked(m) == \E i \in DOMAIN parked : parked[i].multi = m

\* No implicit multi is lost: one that is open belongs to an easy, or is on its
\* way to be closed, whichever thread's close was refused.
NoLeakedMulti ==
  \A m \in Multis : state[m] = "open" =>
    (\E t \in Threads : cached[t] = m) \/ InParked(m) \/ InBatch(m)

\* A multi waits for its close in one place only, so that no two threads
\* release it.
ParkedOnce ==
  /\ \A i, j \in DOMAIN parked : parked[i].multi = parked[j].multi => i = j
  /\ \A m \in Multis : ~(InParked(m) /\ InBatch(m))
  /\ \A t, u \in Threads : \A i \in DOMAIN batch[t] : \A j \in DOMAIN batch[u] :
       batch[t][i].multi = batch[u][j].multi => t = u /\ i = j

\* A multi that an easy will use again is neither parked nor being flushed:
\* no flush, not even the one at exit, closes it under a perform.  Exempt is the
\* moment before the ensure clause clears easy.multi.
CachedNotParked ==
  \A t \in Threads : cached[t] # None /\ pc[t] # "uncache" =>
    ~InParked(cached[t]) /\ ~InBatch(cached[t])

\* Every open implicit multi is in exactly one place, an easy, the parked list
\* or a flush under way, whatever the threads and the exit of the process do.
OnePlaceEach == TypeOK /\ NoLeakedMulti /\ ParkedOnce /\ CachedNotParked
==============================================================================
