------------------------------ MODULE MultiHttp ------------------------------
(***************************************************************************)
(* Curl::Multi.http: a list of requests is worked off by at most           *)
(* max_connects easy handles, which are used again as they become free.    *)
(*                                                                         *)
(* Source: lib/curl/multi.rb.  The multi is used as CurlMulti models it:   *)
(* perform runs transfers, reads their completions, and yields to its      *)
(* block after every pass and once more when it is idle; a callback's      *)
(* exception waits until the transfers in flight have drained, and until   *)
(* then add ignores new work.                                              *)
(***************************************************************************)
EXTENDS LibcurlRequest, Naturals, Sequences, FiniteSets

CONSTANTS
  Requests,     \* the requests of urls_with_config, in some order
  VerbOf,       \* VerbOf[r]: the :method of request r, in libcurl's spelling
  MaxConnects,  \* multi_options[:max_connects], the bound of the pool
  Faults        \* "callback": a callback or the block of http raises;
                \* "option": an option of a request is refused by the easy

HttpVerbs == {"GET", "HEAD", "POST", "PUT", "DELETE"}
Handles == 1..Cardinality(Requests)

ASSUME HttpAssumption ==
  /\ IsFiniteSet(Requests) /\ VerbOf \in [Requests -> HttpVerbs]
  /\ MaxConnects \in Nat \ {0}  \* with 0 there is no handle, and no end
  /\ Faults \subseteq {"callback", "option"} /\ None \notin Requests \cup HttpVerbs

VARIABLES
  pc,       \* where the call is
  urls,     \* urls_with_config
  free,     \* free_handles
  made,     \* the number of handles created
  handle,   \* handle[h]: the settings of the CURL handle
  job,      \* job[h]: the request h transfers, None when it is not attached
  deferred, \* the multi's deferred exception is set
  served,   \* history: served[h], the verbs h was configured for and performed
  sent      \* history: sent[r], how r was requested: the verb on the wire, and
            \* what its handle had served before

httpVars == <<pc, urls, free, made, handle, job, deferred, served, sent>>

InFlight == {h \in Handles : job[h] # None}

HttpTypeOK ==
  /\ pc \in {"fill", "run", "block", "idle", "consume", "returned", "raised"}
  /\ urls \in Seq(Requests) /\ free \in Seq(Handles) /\ made \in 0..MaxConnects
  /\ job \in [Handles -> Requests \cup {None}]
  /\ deferred \in BOOLEAN
  /\ served \in [Handles -> SUBSET HttpVerbs]
  /\ sent \in [Requests -> Seq([verb : HttpVerbs, before : SUBSET HttpVerbs])]

HttpInit ==
  /\ pc = "fill" /\ free = <<>> /\ made = 0
  /\ urls \in {s \in [Handles -> Requests] : \A i, j \in Handles : s[i] = s[j] => i = j}
  /\ handle = [h \in Handles |-> FreshRequest]
  /\ job = [h \in Handles |-> None]
  /\ deferred = FALSE /\ served = [h \in Handles |-> {}]
  /\ sent = [r \in Requests |-> <<>>]

-----------------------------------------------------------------------------
Front(s) == SubSeq(s, 1, Len(s) - 1)
Back(s) == s[Len(s)]

\* The case over the method of a request: post_body=, put_data=, head=,
\* delete=, and nothing for a GET.
Configured(s, verb) ==
  CASE verb = "POST" -> SetPostFields(SetPost(s, TRUE), "body")
    [] verb = "PUT" -> SetUpload(SetPostFields(SetPost(SetNobody(s, FALSE), FALSE), None), TRUE)
    [] verb = "HEAD" -> SetNobody(s, TRUE)
    [] verb = "DELETE" -> SetCustom(s, "DELETE")
    [] OTHER -> s

\* Multi#add ignores an easy while an exception is deferred.
AddEasy(h, r) == IF deferred THEN UNCHANGED job ELSE job' = [job EXCEPT ![h] = r]

\* add_free_handle with handle h for request r, which goes on to pc next.
AddFreeHandle(h, r, next) ==
  \/ /\ handle' = [handle EXCEPT ![h] = Configured(@, VerbOf[r])]
     /\ AddEasy(h, r)
     /\ pc' = next
  \/ /\ "option" \in Faults
     /\ pc' = "raised" /\ UNCHANGED <<handle, job>>

\* max_connects.times: create a handle for a request as long as there is one.
Fill ==
  /\ pc = "fill" /\ made < MaxConnects /\ urls # <<>>
  /\ urls' = Front(urls) /\ made' = made + 1
  /\ AddFreeHandle(made + 1, Back(urls), "fill")
  /\ UNCHANGED <<free, deferred, served, sent>>

StartPerform ==
  /\ pc = "fill" /\ (made = MaxConnects \/ urls = <<>>)
  /\ pc' = "run"
  /\ UNCHANGED <<urls, free, made, handle, job, deferred, served, sent>>

\* Mutant: an upload leaves the handle in its mode.
CleanedNever(s) == s

\* The CURL handle after the cleanup that follows a transfer.
Cleaned(s) == IF s.method = "PUT" THEN SetUpload(s, FALSE) ELSE s

\* on_complete of h: it becomes free, then the block of http runs.
Freed(h) == Append(free, h)

\* A transfer completes.  A callback's exception is deferred, and the callbacks
\* of a transfer whose body callback raised still run.
Complete(h) ==
  /\ pc = "run" /\ job[h] # None
  /\ sent' = [sent EXCEPT ![job[h]] =
                Append(@, [verb |-> SentVerb(handle[h]), before |-> served[h]])]
  /\ served' = [served EXCEPT ![h] = @ \cup {VerbOf[job[h]]}]
  /\ handle' = [handle EXCEPT ![h] = Cleaned(@)]
  /\ job' = [job EXCEPT ![h] = None]
  /\ free' = Freed(h)
  /\ deferred' \in {deferred} \cup (IF "callback" \in Faults THEN {TRUE} ELSE {})
  /\ UNCHANGED <<pc, urls, made>>

\* Mutant: the exception does not wait for the transfers in flight, and one that
\* the last transfer raised is not looked for.
PassForgets ==
  /\ pc = "run"
  /\ pc' = IF deferred /\ InFlight # {} THEN "raised" ELSE "block"
  /\ UNCHANGED <<urls, free, made, handle, job, deferred, served, sent>>

\* A pass of perform ends: a deferred exception is raised once nothing is in
\* flight, otherwise perform yields.  The perform that follows when all requests
\* have been added has no block, which consume_free_handles does not tell apart.
PassEnds ==
  /\ pc = "run"
  /\ pc' = IF deferred /\ InFlight = {} THEN "raised" ELSE "block"
  /\ UNCHANGED <<urls, free, made, handle, job, deferred, served, sent>>

\* Mutants: no handle is consumed; a request is taken before a handle is.
ConsumeNothing(next) == UNCHANGED <<urls, free, handle, job>> /\ pc' = next
ConsumeDrops(next) ==
  IF urls # <<>> /\ free # <<>>
  THEN /\ urls' = Front(urls) /\ free' = Front(free)
       /\ AddFreeHandle(Back(free), Back(urls), next)
  ELSE /\ urls' = IF urls # <<>> THEN Front(urls) ELSE urls
       /\ UNCHANGED <<free, handle, job>> /\ pc' = next

\* consume_free_handles, going on to next.
ConsumeFreeHandles(next) ==
  IF urls # <<>> /\ free # <<>>
  THEN /\ urls' = Front(urls) /\ free' = Front(free)
       /\ AddFreeHandle(Back(free), Back(urls), next)
  ELSE UNCHANGED <<urls, free, handle, job>> /\ pc' = next

Block ==
  /\ pc = "block"
  /\ ConsumeFreeHandles(IF InFlight' # {} THEN "run" ELSE "idle")
  /\ UNCHANGED <<made, deferred, served, sent>>

\* The yield of the idle multi: perform goes on when the block has added work.
IdleBlock ==
  /\ pc = "idle"
  /\ ConsumeFreeHandles(IF InFlight' # {} THEN "run" ELSE "consume")
  /\ UNCHANGED <<made, deferred, served, sent>>

\* The consume_free_handles after perform, and the until of the loop.
ConsumeAfter ==
  /\ pc = "consume"
  /\ ConsumeFreeHandles(IF urls' = <<>> THEN "returned" ELSE "run")
  /\ UNCHANGED <<made, deferred, served, sent>>

Ended == pc \in {"returned", "raised"} /\ UNCHANGED httpVars

Step ==
  \/ Fill \/ StartPerform \/ PassEnds \/ Block \/ IdleBlock \/ ConsumeAfter
  \/ \E h \in Handles : Complete(h)

HttpNext == Step \/ Ended

HttpSpec == HttpInit /\ [][HttpNext]_httpVars

\* libcurl ends every transfer that is driven again and again, and the loop runs.
FairHttpSpec ==
  /\ HttpSpec /\ WF_httpVars(Step) /\ \A h \in Handles : SF_httpVars(Complete(h))

-----------------------------------------------------------------------------
\* When http returns, every request has been sent, exactly once: the request
\* that the last consume_free_handles takes is not left unperformed.
AllSentOnce == pc = "returned" => \A r \in Requests : Len(sent[r]) = 1

\* A handle is free or in flight, never both, and is listed as free once: no
\* busy handle is configured for another request.
PoolDisjoint ==
  /\ \A i, j \in DOMAIN free : free[i] = free[j] => i = j
  /\ \A i \in DOMAIN free : job[free[i]] = None

\* The pool is sound: no handle is used for two requests at a time, and no
\* request is lost or sent twice (add_free_handle, consume_free_handles).
PoolIsSound == HttpTypeOK /\ AllSentOnce /\ PoolDisjoint

\* What a callback raised is never lost.  The exception waits for the transfers
\* in flight while consume_free_handles goes on taking requests off the list,
\* which add then ignores: perform must not find itself idle, nor the loop its
\* list empty and return, before the exception has been raised
\* (raise_multi_deferred_exception_if_idle, Multi.http).
FailureIsRaised == deferred => pc \notin {"idle", "consume", "returned"}

\* A request is sent with its own verb, also by a handle that was used before.
\* Exempt: what add_free_handle does not undo, a HEAD or DELETE for any later
\* request of the handle and the body of a POST for a later GET.
VerbAsAsked ==
  \A r \in Requests : \A i \in DOMAIN sent[r] :
    LET how == sent[r][i] IN
      \/ how.before \cap {"HEAD", "DELETE"} # {}
      \/ VerbOf[r] = "GET" /\ "POST" \in how.before
      \/ how.verb = VerbOf[r]

\* The call returns or raises.
HttpEnds == <>(pc \in {"returned", "raised"})
==============================================================================
