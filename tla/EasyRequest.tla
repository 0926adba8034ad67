----------------------------- MODULE EasyRequest -----------------------------
(***************************************************************************)
(* Which request a reused Curl::Easy sends: the verb helpers http, get,    *)
(* head, delete, post, patch and put, the setters post_body=, put_data=,   *)
(* head= and delete=, and perform, each of which leaves settings on the    *)
(* same libcurl handle for the next.                                       *)
(*                                                                         *)
(* Source: ext/curb_easy.c, lib/curl/easy.rb.  A call of a helper is one   *)
(* step: it prepares the handle, performs, and restores in an rb_ensure.   *)
(***************************************************************************)
EXTENDS LibcurlRequest

CONSTANTS
  Bodies,    \* POST bodies
  Empty,     \* the empty POST body
  Uploads,   \* uploads with a size: strings and files
  Streams,   \* uploads without a size: objects with read but no stat
  Liberties  \* uses beyond the common ones that are considered, see below

Verbs == {"GET", "HEAD", "POST", "PUT", "PATCH", "DELETE"}

(***************************************************************************)
(* "argument":  joining the arguments or put_data_set raises.              *)
(* "fails":     perform raises after the transfer (a libcurl error, a      *)
(*              callback that raised).                                     *)
(* "refused":   perform raises before it, as when there is no URL.         *)
(* "bare":      http_post without arguments.                               *)
(* "multipart": multipart_form_post is set.                                *)
(* "setters":   head= and delete= are used.                                *)
(***************************************************************************)
ASSUME RequestAssumption ==
  /\ Bodies # {} /\ Uploads # {} /\ Empty \in Bodies
  /\ None \notin Bodies \cup Uploads \cup Streams \cup Verbs
  /\ Liberties \subseteq {"argument", "fails", "refused", "bare", "multipart", "setters"}

VARIABLES
  liberties, \* those of Liberties that this program makes use of
  req,      \* the libcurl handle
  postBuf,  \* opts[:postdata_buffer], which post_body returns
  upload,   \* opts[:upload]
  chunked,  \* opts[:headers] has Transfer-Encoding: chunked
  last      \* history: the call that ended last, the verb it is for, what it sent

vars == <<liberties, req, postBuf, upload, chunked, last>>

Calls == {"new", "http", "http_get", "http_delete", "http_head", "http_post", "http_patch",
          "http_put", "perform", "post_body=", "setopt", "put_data=", "head=", "delete="}

TypeOK ==
  /\ liberties \subseteq Liberties
  /\ req \in [method : Methods, nobody : BOOLEAN,
              custom : Verbs \cup {None}, fields : Bodies \cup {None}]
  /\ postBuf \in Bodies \cup {None}
  /\ upload \in Uploads \cup Streams \cup {None}
  /\ chunked \in BOOLEAN
  /\ last \in [call : Calls, verb : Verbs \cup {None}, sent : Verbs \cup {None}]

Init ==
  /\ liberties \in SUBSET Liberties
  /\ req = FreshRequest /\ postBuf = None /\ upload = None /\ chunked = FALSE
  /\ last = [call |-> "new", verb |-> None, sent |-> None]

-----------------------------------------------------------------------------
\* What a call works on: the handle and the Ruby settings it may change.
Now == [req |-> req, postBuf |-> postBuf, upload |-> upload, chunked |-> chunked]

\* ruby_curl_easy_post_body_set_with_mode.
PostBody(s, body, forceGet) ==
  IF body = None
  THEN LET r == SetPostFields(s.req, None) IN
       [s EXCEPT !.postBuf = None, !.req = IF forceGet THEN SetHttpGet(r) ELSE r]
  ELSE [s EXCEPT !.postBuf = body, !.req = SetPostFields(SetPost(@, TRUE), body)]

\* ruby_curl_easy_put_data_set, once its arguments are valid.
PutData(s, data) ==
  [s EXCEPT !.upload = data,
            !.chunked = @ \/ data \in Streams,
            !.req = SetUpload(SetPostFields(SetPost(SetNobody(@, FALSE), FALSE), None), TRUE)]

\* Mutant: the handle stays in the mode of an upload.
CleanupKeepsMode(s) == [s EXCEPT !.upload = None]

\* ruby_curl_easy_cleanup, which follows every transfer.
Cleanup(s) ==
  IF s.upload = None THEN s
  ELSE [s EXCEPT !.upload = None, !.req = SetUpload(@, FALSE)]

Ends == {"done"}
  \cup (IF "fails" \in liberties THEN {"fails"} ELSE {})
  \cup (IF "refused" \in liberties THEN {"refused"} ELSE {})

\* A call ends in state s having sent verb.
Become(s, call, verb, sent) ==
  /\ req' = s.req /\ postBuf' = s.postBuf /\ upload' = s.upload /\ chunked' = s.chunked
  /\ last' = [call |-> call, verb |-> verb, sent |-> sent]
  /\ UNCHANGED liberties

\* The ways a perform with the settings p can end.  The restore of a helper runs
\* in an rb_ensure, whether perform returned or raised.
Performed(p) ==
  {[end |-> end,
    state |-> IF end = "refused" THEN p ELSE Cleanup(p),
    sent |-> IF end = "refused" THEN None ELSE SentVerb(p.req)] : end \in Ends}

\* A helper raises while it prepares, before its rb_ensure.
RaisesEarly(p, call) == "argument" \in liberties /\ Become(p, call, None, None)

-----------------------------------------------------------------------------
\* Mutant: nothing is restored.
RestoreNothing(s, nobody, post) == s

\* perform_with_request_restore_ensure.
RequestRestore(s, nobody, post) ==
  LET r1 == IF nobody THEN SetNobody(s.req, FALSE) ELSE s.req
      r2 == SetCustom(r1, None)
      r3 == SetHttpGet(SetPostFields(SetPost(r2, FALSE), None))
  IN IF post THEN [s EXCEPT !.req = r3, !.postBuf = None] ELSE [s EXCEPT !.req = r2]

\* ensure_free_form_post.
FormRestore(s, custom) ==
  LET r == SetHttpPost(s.req) IN [s EXCEPT !.req = IF custom THEN SetCustom(r, None) ELSE r]

\* build_and_perform_multipart_form: a field that cannot be added raises with
\* the form not yet set.
MultipartForm(p, custom, call, verb) ==
  LET form == [p EXCEPT !.req = SetHttpPost(SetPost(@, FALSE))]
  IN \/ \E o \in Performed(form) : Become(FormRestore(o.state, custom), call, verb, o.sent)
     \/ /\ "argument" \in liberties
        /\ Become([p EXCEPT !.req = IF custom THEN SetCustom(@, None) ELSE @], call, None, None)

\* ruby_curl_easy_perform_verb_str with the state s.
HttpFrom(s, verb, call) ==
  LET custom == SetCustom(s.req, verb)
      prepared == IF verb = "HEAD" THEN SetPost(SetNobody(custom, TRUE), FALSE) ELSE custom
  IN \E o \in Performed([s EXCEPT !.req = prepared]) :
       Become(RequestRestore(o.state, verb = "HEAD", FALSE), call, verb, o.sent)

Http(verb) == HttpFrom(Now, verb, "http")

HttpGet == HttpFrom([Now EXCEPT !.req = SetHttpGet(@)], "GET", "http_get")

HttpDelete == HttpFrom(Now, "DELETE", "http_delete")

\* Easy#http_head restores only when perform returns.
HttpHead ==
  \E o \in Performed([Now EXCEPT !.req = SetNobody(@, TRUE)]) :
    Become([o.state EXCEPT !.req = IF o.end = "done" THEN SetNobody(@, FALSE) ELSE @],
           "http_head", "HEAD", o.sent)

\* The joined arguments become the body, unless they are empty and there is one.
Joined(s, body) == IF body # Empty \/ s.postBuf = None THEN PostBody(s, body, TRUE) ELSE s

\* ruby_curl_easy_perform_post.
HttpPost(body) ==
  LET p == [Now EXCEPT !.req = SetCustom(@, None)]
  IN \/ "multipart" \in liberties /\ MultipartForm(p, FALSE, "http_post", "POST")
     \/ /\ body = Empty => "bare" \in liberties
        /\ \E o \in Performed(Joined(p, body)) :
             Become(RequestRestore(o.state, FALSE, FALSE), "http_post", "POST", o.sent)
     \/ RaisesEarly(p, "http_post")

\* ruby_curl_easy_perform_patch.
HttpPatch(body) ==
  LET p == [Now EXCEPT !.req = SetCustom(@, "PATCH")]
  IN \/ "multipart" \in liberties /\ MultipartForm(p, TRUE, "http_patch", "PATCH")
     \/ \E o \in Performed(Joined(p, body)) :
          Become(RequestRestore(o.state, FALSE, TRUE), "http_patch", "PATCH", o.sent)
     \/ RaisesEarly(p, "http_patch")

\* ruby_curl_easy_perform_put; data None: arguments that join to nothing.  The
\* size of an upload is converted last, when libcurl is in its mode already.
HttpPut(data) ==
  LET p == [Now EXCEPT !.req = SetCustom(@, "PUT")]
  IN \/ "multipart" \in liberties /\ MultipartForm(p, TRUE, "http_put", "PUT")
     \/ \E o \in Performed(IF data = None THEN p ELSE PutData(p, data)) :
          Become(RequestRestore(o.state, FALSE, FALSE), "http_put", "PUT", o.sent)
     \/ RaisesEarly(p, "http_put")
     \/ data \in Uploads /\ RaisesEarly(PutData(p, data), "http_put")

\* Easy#perform: whatever the handle is set to.
Perform == \E o \in Performed(Now) : Become(o.state, "perform", None, o.sent)

-----------------------------------------------------------------------------
\* Setters of the program.
SetPostBody(body) == Become(PostBody(Now, body, TRUE), "post_body=", None, None)

SetPostFieldsOption(body) == Become(PostBody(Now, body, FALSE), "setopt", None, None)

SetPutData(data) == Become(PutData(Now, data), "put_data=", None, None)

SetHead(on) ==
  /\ "setters" \in liberties
  /\ Become([Now EXCEPT !.req = SetNobody(@, on)], "head=", None, None)

SetDelete(on) ==
  /\ "setters" \in liberties
  /\ Become([Now EXCEPT !.req = SetCustom(@, IF on THEN "DELETE" ELSE None)], "delete=", None, None)

Setter ==
  \/ \E b \in Bodies \cup {None} : SetPostBody(b) \/ SetPostFieldsOption(b)
  \/ \E d \in Uploads \cup Streams : SetPutData(d)
  \/ \E on \in BOOLEAN : SetHead(on) \/ SetDelete(on)

Helper ==
  \/ \E v \in {"GET", "HEAD", "DELETE"} : Http(v)
  \/ HttpGet \/ HttpDelete \/ HttpHead
  \/ \E b \in Bodies : HttpPost(b) \/ HttpPatch(b)
  \/ \E d \in Uploads \cup Streams \cup {None} : HttpPut(d)

Next == Setter \/ Helper \/ Perform

Spec == Init /\ [][Next]_vars

-----------------------------------------------------------------------------
\* A helper sends the verb it is named for, whatever earlier calls left on the
\* handle, failed ones included.  Exempt: programs that use head= or delete=
\* with it, http_post without a body, or go on after a failed preparation.
SendsItsVerb ==
  liberties \cap {"argument", "bare", "setters"} = {} =>
    (last.verb # None /\ last.sent # None => last.sent = last.verb)

\* http, http_get, http_delete, http_patch and http_put leave no verb behind,
\* and http("HEAD") no HEAD mode, whether they return or raise; http_head leaves
\* no HEAD mode behind when it returns.  Exempt: a failed preparation.
VerbRestored ==
  /\ "argument" \notin liberties =>
       (last.call \in {"http", "http_get", "http_delete", "http_patch", "http_put"}
          => req.custom = None)
  /\ last.call = "http" /\ last.verb = "HEAD" => ~req.nobody
  /\ liberties \cap {"fails", "refused"} = {} => (last.call = "http_head" => ~req.nobody)

\* http_put leaves no upload behind, in Ruby or in libcurl: the data is not
\* sent again by a later request.  Exempt: a perform that is refused before
\* its transfer, which skips the cleanup.
UploadRestored ==
  liberties \cap {"argument", "refused"} = {} =>
    (last.call = "http_put" => upload = None /\ req.method # "PUT")

\* After http_patch the handle is back to GET and the body is gone.  Exempt: a
\* multipart PATCH, which leaves the form mode.
PatchRestored ==
  liberties \cap {"argument", "multipart"} = {} =>
    (last.call = "http_patch" => req.method = "GET" /\ postBuf = None)

\* A request leaves nothing behind for the next one on the handle: no verb, no
\* upload, no body mode, whether it succeeds or fails (curb_easy.c 4556-4723).
RequestRestored == VerbRestored /\ UploadRestored /\ PatchRestored

\* Whenever libcurl will upload, the read handler has an upload to read from.
ReaderHasData == req.method = "PUT" => upload # None

\* Whenever libcurl will POST, it sends the body that post_body returns.
BodyAgrees == req.method = "POST" => req.fields = postBuf

\* The Ruby object and its libcurl handle agree on what the next request
\* carries, in every state and for every way a call can fail.
LibcurlAgrees == TypeOK /\ ReaderHasData /\ BodyAgrees
==============================================================================
