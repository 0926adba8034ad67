---------------------------- MODULE EasyTransfer -----------------------------
(***************************************************************************)
(* The callbacks of one Curl::Easy during a transfer: the body with its    *)
(* limit, headers, progress, debug, and the read and seek callbacks of an  *)
(* upload; what becomes of the exceptions of their Ruby handlers; and what *)
(* the handlers may do to the handle meanwhile.                            *)
(*                                                                         *)
(* Source: ext/curb_easy.c, ext/curb_upload.c.  An upload is the sequence  *)
(* of the positions 1 .. UploadLen of its data; sizes are counted in units.*)
(***************************************************************************)
EXTENDS Naturals, Sequences, SequencesExt

CONSTANTS
  Limits,      \* values given to max_body_bytes=; 0 is none
  MaxChunk,    \* bound: size of a chunk, and of libcurl's upload buffer
  MaxBody,     \* bound: the length of a response body
  UploadLen,   \* the length of the data of an upload
  MaxTransfers,
  Kinds,       \* of "none", "string", "io" (read and seek), "pipe" (read only)
  Liberties    \* of "midway": a handler sets max_body_bytes; "clone": a
               \* handler duplicates the handle; "escape": a handler is left
               \* by an exception that is no StandardError

ASSUME TransferAssumption ==
  /\ Limits \subseteq Nat /\ Limits # {} /\ MaxChunk \in Nat \ {0}
  /\ MaxBody \in Nat /\ UploadLen \in Nat /\ MaxTransfers \in Nat
  /\ Kinds \subseteq {"none", "string", "io", "pipe"} /\ Kinds # {}
  /\ Liberties \subseteq {"midway", "clone", "escape"}

VARIABLES
  liberties,  \* those of Liberties that this program makes use of
  limit,      \* opts[:max_body_bytes]
  downloaded, \* rbce->downloaded_body_bytes
  delivered,  \* what body_data or the on_body handler received
  refused,    \* size of the chunk that was refused for the limit
  error,      \* rbce->callback_error
  first,      \* the first error of the transfer
  active,     \* rbce->callback_active
  call,       \* the Ruby handler that runs, and the size it is given
  kind, offset, \* opts[:upload]: its stream, and rbcu->offset
  pos,        \* the position of the stream
  sent,       \* what libcurl has been given since it last rewound
  ended,      \* libcurl was told that the upload is complete
  pc, result, transfers,
  closing,    \* the answer to the last close of the handle, since pc changed
  clone       \* the last duplicate: its callback_active, or its close

NoCall == [name |-> "none", size |-> 0]
Handlers == {"body", "header", "progress", "debug", "read", "seek"}
Errors == {"none", "limit", "handler", "type"}

bodyVars == <<limit, downloaded, delivered, refused>>
errorVars == <<error, first>>
uploadVars == <<kind, offset, pos, sent, ended>>
transferVars == <<liberties, bodyVars, errorVars, uploadVars, active, call, pc, result, transfers,
                  closing, clone>>

TransferTypeOK ==
  /\ liberties \subseteq Liberties
  /\ limit \in Limits /\ downloaded \in 0 .. MaxBody /\ delivered \in 0 .. MaxBody
  /\ refused \in 0 .. MaxChunk /\ error \in Errors /\ first \in Errors
  /\ active \in BOOLEAN
  /\ call \in [name : Handlers \cup {"none"}, size : 0 .. MaxChunk]
  /\ kind \in Kinds /\ offset \in 0 .. UploadLen /\ pos \in 0 .. UploadLen
  /\ sent \in Seq(1 .. UploadLen) /\ ended \in BOOLEAN
  /\ pc \in {"idle", "transfer", "callback", "unwound"}
  /\ result \in {"none", "ok", "write", "aborted", "rewind"} \cup Errors
  /\ transfers \in 0 .. MaxTransfers
  /\ closing \in {"none", "closed", "refused"}
  /\ clone \in {"none", "active", "quiet", "closed", "refused"}

TransferInit ==
  /\ liberties \in SUBSET Liberties
  /\ limit \in Limits /\ downloaded = 0 /\ delivered = 0 /\ refused = 0
  /\ error = "none" /\ first = "none" /\ active = FALSE /\ call = NoCall
  /\ kind \in Kinds /\ offset = 0 /\ pos = 0 /\ sent = <<>> /\ ended = FALSE
  /\ pc = "idle" /\ result = "none" /\ transfers = 0 /\ closing = "none"
  /\ clone = "none"

-----------------------------------------------------------------------------
\* The transfer as libcurl sees it

\* ruby_curl_easy_setup_body: the state of the last transfer is cleared.
SetupClears == downloaded' = 0

\* put_data= makes a new Upload for the next transfer.
Begin ==
  /\ pc = "idle" /\ transfers < MaxTransfers
  /\ transfers' = transfers + 1 /\ pc' = "transfer" /\ result' = "none"
  /\ SetupClears /\ delivered' = 0 /\ refused' = 0 /\ limit' \in Limits
  /\ error' = "none" /\ first' = "none"
  /\ kind' \in Kinds /\ offset' = 0 /\ pos' = 0 /\ sent' = <<>> /\ ended' = FALSE
  /\ closing' = "none"
  /\ UNCHANGED <<active, call, clone>>

\* The transfer ends; the completion raises the stored error, or the error
\* of libcurl's result.
Ends(code, err) ==
  /\ pc' = "idle" /\ result' = IF err # "none" THEN err ELSE code
  /\ active' = FALSE /\ call' = NoCall /\ closing' = "none"
  /\ UNCHANGED <<transfers, clone, kind, offset>>

Continues ==
  /\ pc' = "transfer" /\ active' = FALSE /\ call' = NoCall /\ closing' = "none"
  /\ UNCHANGED <<result, transfers, clone>>

FinishTransfer ==
  /\ pc = "transfer" /\ Ends("ok", error)
  /\ UNCHANGED <<bodyVars, errorVars, pos, sent, ended>>

\* callback_exception_store_on_easy: the first exception is kept.
StoreLast(old, new) == new
Store(old, new) == IF old = "none" THEN new ELSE old

Remember(new) ==
  error' = Store(error, new) /\ first' = (IF first = "none" THEN new ELSE first)

\* with_easy_callback_active.
CallsGuarded == active' = TRUE
CallsHandler(name, size) ==
  /\ CallsGuarded /\ call' = [name |-> name, size |-> size]
  /\ pc' = "callback" /\ closing' = "none"
  /\ UNCHANGED <<result, transfers, clone, errorVars>>

-----------------------------------------------------------------------------
\* Body, headers, progress and debug

\* ruby_curl_easy_body_limit_exceeded.
ExceedsPerChunk(n) == limit > 0 /\ n > limit
Exceeds(n) == limit > 0 /\ n + downloaded > limit
Counted(n) == IF limit > 0 THEN downloaded + n ELSE downloaded

\* default_body_handler and proc_data_handler_body.
Body(n) ==
  /\ pc = "transfer" /\ delivered + n <= MaxBody
  /\ IF Exceeds(n)
     THEN /\ Remember("limit") /\ refused' = n
          /\ Ends("write", Store(error, "limit"))
          /\ UNCHANGED <<limit, downloaded, delivered, pos, sent, ended>>
     ELSE /\ downloaded' = Counted(n)
          /\ \/ /\ delivered' = delivered + n
                /\ UNCHANGED <<pc, active, call, closing, result, transfers, clone, errorVars>>
             \/ CallsHandler("body", n) /\ UNCHANGED delivered
          /\ UNCHANGED <<limit, refused, uploadVars>>

\* proc_data_handler_header, proc_xferinfo_handler, proc_debug_handler.
Notify(name) ==
  /\ pc = "transfer" /\ CallsHandler(name, 1) /\ UNCHANGED <<bodyVars, uploadVars>>

-----------------------------------------------------------------------------
\* The upload

\* What is left of the data after a position, at most a buffer of it.
Chunk(from, n) == IF UploadLen - from <= n THEN UploadLen - from ELSE n

\* read_data_handler, of a stream that has only to_s.
ReadString(n) ==
  /\ pc = "transfer" /\ kind = "string" /\ ~ended
  /\ LET k == Chunk(offset, n)
     IN /\ offset' = offset + k
        /\ sent' = sent \o [i \in 1 .. k |-> offset + i]
        /\ ended' = (k = 0)
  /\ UNCHANGED <<bodyVars, errorVars, kind, pos, active, call, pc, result, transfers, closing, clone>>

\* Its to_s raises, and then the conversion of the false result does.
StringRaises ==
  /\ pc = "transfer" /\ kind = "string" /\ ~ended
  /\ LET twice == Store(Store(error, "handler"), "type")
     IN error' = twice /\ Ends("aborted", twice)
  /\ first' = IF first = "none" THEN "handler" ELSE first
  /\ UNCHANGED <<bodyVars, pos, sent, ended>>

ReadStream(n) ==
  /\ pc = "transfer" /\ kind \in {"io", "pipe"} /\ ~ended
  /\ CallsHandler("read", n) /\ UNCHANGED <<bodyVars, uploadVars>>

\* seek_data_handler: libcurl starts over, for a redirect or authentication.
SeekIgnored ==
  /\ pc = "transfer" /\ kind \in {"string", "pipe"}
  /\ sent' = <<>> /\ ended' = FALSE
  /\ UNCHANGED <<bodyVars, errorVars, kind, offset, pos, active, call, pc, result, transfers, closing, clone>>
SeekOffset ==
  /\ pc = "transfer" /\ kind \in {"string", "pipe"}
  /\ offset' = 0 /\ sent' = <<>> /\ ended' = FALSE
  /\ UNCHANGED <<bodyVars, errorVars, kind, pos, active, call, pc, result, transfers, closing, clone>>

SeekStream ==
  /\ pc = "transfer" /\ kind = "io"
  /\ CallsHandler("seek", 0) /\ UNCHANGED <<bodyVars, uploadVars>>

-----------------------------------------------------------------------------
\* A handler returns or raises

Returns ==
  /\ pc = "callback"
  /\ Continues
  /\ delivered' = IF call.name = "body" THEN delivered + call.size ELSE delivered
  /\ CASE call.name = "read" ->
            LET k == Chunk(pos, call.size)
            IN /\ pos' = pos + k
               /\ sent' = sent \o [i \in 1 .. k |-> pos + i]
               /\ ended' = (k = 0)
       [] call.name = "seek" -> pos' = 0 /\ sent' = <<>> /\ ended' = FALSE
       [] OTHER -> UNCHANGED <<pos, sent, ended>>
  /\ UNCHANGED <<limit, downloaded, refused, errorVars, kind, offset>>

\* A count other than the size, nil or false, or more than was asked for.
ReturnsOther ==
  /\ pc = "callback" /\ call.name \in {"body", "header", "progress", "read"}
  /\ Ends(IF call.name \in {"body", "header"} THEN "write" ELSE "aborted", error)
  /\ UNCHANGED <<bodyVars, errorVars, pos, sent, ended>>

\* A read returns what is no String.
ReturnsNoString ==
  /\ pc = "callback" /\ call.name = "read"
  /\ Remember("type") /\ Ends("aborted", Store(error, "type"))
  /\ UNCHANGED <<bodyVars, pos, sent, ended>>

\* After a failed read, the conversion of its false result fails as well.
RaisesStored ==
  /\ pc = "callback" /\ call.name \in {"body", "header", "read", "seek"}
  /\ LET once == Store(error, "handler")
         twice == IF call.name = "read" THEN Store(once, "type") ELSE once
         code == CASE call.name = "read" -> "aborted" [] call.name = "seek" -> "rewind"
                   [] OTHER -> "write"
     IN error' = twice /\ Ends(code, twice)
  /\ first' = IF first = "none" THEN "handler" ELSE first
  /\ UNCHANGED <<bodyVars, pos, sent, ended>>

\* The exception of an on_progress handler is replaced by the abort it
\* causes, the one of an on_debug handler is dropped.
RaisesDropped ==
  /\ pc = "callback" /\ call.name \in {"progress", "debug"}
  /\ IF call.name = "progress"
     THEN Ends("aborted", error)
     ELSE Continues /\ UNCHANGED <<kind, offset>>
  /\ UNCHANGED <<bodyVars, errorVars, pos, sent, ended>>

\* rb_rescue lets exceptions that are no StandardError pass.
Escapes ==
  /\ "escape" \in liberties /\ pc = "callback"
  /\ pc' = "unwound" /\ active' = FALSE /\ call' = NoCall /\ closing' = "none"
  /\ UNCHANGED <<bodyVars, errorVars, uploadVars, result, transfers, clone>>

-----------------------------------------------------------------------------
\* What Ruby code does meanwhile

\* ruby_curl_easy_close, and the guard of ruby_curl_easy_reset.
CloseEasy ==
  /\ pc \in {"idle", "callback"}
  /\ closing' = IF active THEN "refused" ELSE "closed"
  /\ UNCHANGED <<bodyVars, errorVars, uploadVars, active, call, pc, result, transfers, clone>>

\* max_body_bytes=.
SetLimit ==
  /\ "midway" \in liberties /\ pc = "callback"
  /\ limit' \in Limits
  /\ UNCHANGED <<downloaded, delivered, refused, errorVars, uploadVars, active, call, pc, result, transfers, closing, clone>>

\* ruby_curl_easy_clone copies callback_active, and the duplicate is closed.
Duplicate ==
  /\ "clone" \in liberties /\ pc = "callback"
  /\ clone' = IF active THEN "active" ELSE "quiet"
  /\ UNCHANGED <<bodyVars, errorVars, uploadVars, active, call, pc, result, transfers, closing>>

CloseDuplicate ==
  /\ pc = "idle" /\ clone \in {"active", "quiet"}
  /\ clone' = IF clone = "active" THEN "refused" ELSE "closed"
  /\ UNCHANGED <<bodyVars, errorVars, uploadVars, active, call, pc, result, transfers, closing>>

TransferNext ==
  /\ \/ Begin \/ FinishTransfer
     \/ \E n \in 1 .. MaxChunk : Body(n) \/ ReadString(n) \/ ReadStream(n)
     \/ \E name \in {"header", "progress", "debug"} : Notify(name)
     \/ StringRaises \/ SeekOffset \/ SeekStream
     \/ Returns \/ ReturnsOther \/ ReturnsNoString \/ RaisesStored \/ RaisesDropped \/ Escapes
     \/ CloseEasy \/ SetLimit \/ Duplicate \/ CloseDuplicate
  /\ UNCHANGED liberties

TransferSpec == TransferInit /\ [][TransferNext]_transferVars

-----------------------------------------------------------------------------
\* No more of a body than max_body_bytes reaches the program, over all the
\* chunks of a transfer, buffered or handed to on_body.  Exempt: programs that
\* change the limit during the transfer.
WithinLimit == "midway" \notin liberties => (limit > 0 => delivered <= limit)

\* A transfer fails for its size only if its own body is larger than the
\* limit: earlier transfers of the handle do not count, and a body of exactly
\* the limit passes.
LimitIsReal == refused > 0 => delivered + refused > limit

\* The body limit is exact, from both sides (curb_easy.c 858-885).
LimitIsExact == WithinLimit /\ LimitIsReal

\* A transfer whose handler raised ends with that exception, not with one
\* that it caused.
FirstErrorIsRaised == pc = "idle" /\ first # "none" => result = first

\* libcurl is given the data of the upload from its beginning, without gap or
\* repetition, also when it rewinds in the middle, and is told the end only
\* after all of it.  Exempt: streams that have read but no seek.
UploadIsData ==
  kind # "pipe" =>
    /\ IsPrefix(sent, [i \in 1 .. UploadLen |-> i])
    /\ ended => Len(sent) = UploadLen

\* The handle is never closed under a handler that libcurl is waiting for,
\* and no ended handler keeps it from being closed.
CloseIsRefusedInCallbacks ==
  (pc = "callback" => closing # "closed") /\ (pc = "idle" => closing # "refused")

\* What a Ruby handler does within a callback of libcurl stays under control:
\* its exception is the outcome of the transfer, and it cannot close the handle.
HandlersAreContained == TransferTypeOK /\ FirstErrorIsRaised /\ CloseIsRefusedInCallbacks
==============================================================================
