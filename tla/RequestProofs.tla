---------------------------- MODULE RequestProofs ----------------------------
(***************************************************************************)
(* Proofs about the requests that curb makes of a libcurl handle.          *)
(*                                                                         *)
(* EasyRequest: the Ruby object and its libcurl handle agree after every   *)
(* sequence of calls, for any bodies, uploads and liberties.  A call works *)
(* on a record of settings; Sound says what such a record satisfies, and   *)
(* each operator that curb builds a call from keeps it.                    *)
(*                                                                         *)
(* MultiHttp: the pool of Curl::Multi.http serves every request once, for  *)
(* any finite set of requests, any size of the pool and any faults.        *)
(***************************************************************************)
EXTENDS EasyRequest, MultiHttp, FiniteSetTheorems, SequenceTheorems, TLAPS

HandleSettings ==
  [method : Methods, nobody : BOOLEAN, custom : Verbs \cup {None}, fields : Bodies \cup {None}]

Settings ==
  [req : HandleSettings, postBuf : Bodies \cup {None},
   upload : Uploads \cup Streams \cup {None}, chunked : BOOLEAN]

Agrees(s) ==
  /\ s.req.method = "PUT" => s.upload # None
  /\ s.req.method = "POST" => s.req.fields = s.postBuf

Sound(s) == s \in Settings /\ Agrees(s)

-----------------------------------------------------------------------------
(***************************************************************************)
(* The options of libcurl keep the type of the handle settings.            *)
(***************************************************************************)

\* CURLOPT_CUSTOMREQUEST changes the verb only.
LEMMA CustomFacts ==
  ASSUME NEW r \in HandleSettings, NEW v \in Verbs \cup {None}
  PROVE  /\ SetCustom(r, v) \in HandleSettings
         /\ SetCustom(r, v).method = r.method
         /\ SetCustom(r, v).fields = r.fields
         /\ SetCustom(r, v).custom = v
         /\ SetCustom(r, v).nobody = r.nobody
BY DEF SetCustom, HandleSettings

\* CURLOPT_NOBODY makes the method HEAD or takes that back.
LEMMA NobodyFacts ==
  ASSUME NEW r \in HandleSettings, NEW on \in BOOLEAN
  PROVE  /\ SetNobody(r, on) \in HandleSettings
         /\ SetNobody(r, on).method \in {"HEAD", "GET", r.method}
         /\ SetNobody(r, on).fields = r.fields
         /\ on => SetNobody(r, on).method = "HEAD"
         /\ SetNobody(r, on).nobody = on
         /\ SetNobody(r, on).custom = r.custom
BY DEF SetNobody, HandleSettings, Methods

\* CURLOPT_HTTPGET.
LEMMA HttpGetFacts ==
  ASSUME NEW r \in HandleSettings
  PROVE  /\ SetHttpGet(r) \in HandleSettings
         /\ SetHttpGet(r).method = "GET"
         /\ SetHttpGet(r).fields = r.fields
         /\ SetHttpGet(r).nobody = FALSE
         /\ SetHttpGet(r).custom = r.custom
BY DEF SetHttpGet, HandleSettings, Methods

\* CURLOPT_POST.
LEMMA PostFacts ==
  ASSUME NEW r \in HandleSettings, NEW on \in BOOLEAN
  PROVE  /\ SetPost(r, on) \in HandleSettings
         /\ SetPost(r, on).method = IF on THEN "POST" ELSE "GET"
         /\ SetPost(r, on).fields = r.fields
         /\ SetPost(r, on).nobody = IF on THEN FALSE ELSE r.nobody
         /\ SetPost(r, on).custom = r.custom
BY DEF SetPost, HandleSettings, Methods

\* CURLOPT_POSTFIELDS.
LEMMA PostFieldsFacts ==
  ASSUME NEW r \in HandleSettings, NEW body \in Bodies \cup {None}
  PROVE  /\ SetPostFields(r, body) \in HandleSettings
         /\ SetPostFields(r, body).method = "POST"
         /\ SetPostFields(r, body).fields = body
         /\ SetPostFields(r, body).nobody = r.nobody
         /\ SetPostFields(r, body).custom = r.custom
BY DEF SetPostFields, HandleSettings, Methods

\* CURLOPT_HTTPPOST.
LEMMA HttpPostFacts ==
  ASSUME NEW r \in HandleSettings
  PROVE  /\ SetHttpPost(r) \in HandleSettings
         /\ SetHttpPost(r).method = "FORM"
         /\ SetHttpPost(r).fields = r.fields
         /\ SetHttpPost(r).nobody = FALSE
         /\ SetHttpPost(r).custom = r.custom
BY DEF SetHttpPost, HandleSettings, Methods

\* CURLOPT_UPLOAD.
LEMMA UploadFacts ==
  ASSUME NEW r \in HandleSettings, NEW on \in BOOLEAN
  PROVE  /\ SetUpload(r, on) \in HandleSettings
         /\ SetUpload(r, on).method = IF on THEN "PUT" ELSE "GET"
         /\ SetUpload(r, on).fields = r.fields
         /\ SetUpload(r, on).nobody = IF on THEN FALSE ELSE r.nobody
         /\ SetUpload(r, on).custom = r.custom
BY DEF SetUpload, HandleSettings, Methods

\* The request of a multipart form.
LEMMA FormFacts ==
  ASSUME NEW r \in HandleSettings
  PROVE  LET q == SetHttpPost(SetPost(r, FALSE))
         IN /\ q \in HandleSettings /\ q.method = "FORM" /\ q.fields = r.fields
            /\ q.nobody = FALSE /\ q.custom = r.custom
<1> DEFINE q == SetPost(r, FALSE)
<1>1. q \in HandleSettings /\ q.fields = r.fields /\ q.custom = r.custom BY PostFacts
<1> HIDE DEF q
<1>2. /\ SetHttpPost(q) \in HandleSettings /\ SetHttpPost(q).method = "FORM"
      /\ SetHttpPost(q).fields = r.fields
      /\ SetHttpPost(q).nobody = FALSE /\ SetHttpPost(q).custom = r.custom
  BY <1>1, HttpPostFacts
<1> QED BY <1>2 DEF q

\* The verb on the request line is a verb.
LEMMA SentVerbType ==
  ASSUME NEW r \in HandleSettings
  PROVE  SentVerb(r) \in Verbs
BY DEF SentVerb, HandleSettings, Methods, Verbs

-----------------------------------------------------------------------------
(***************************************************************************)
(* The functions of curb keep settings sound.                              *)
(***************************************************************************)

\* A new handle request in sound settings keeps them sound if it does not
\* start to upload or post.
LEMMA NewRequestSound ==
  ASSUME NEW s \in Settings, Agrees(s), NEW r \in HandleSettings,
         r.fields = s.req.fields,
         r.method \in {s.req.method, "GET", "HEAD", "FORM"}
  PROVE  Sound([s EXCEPT !.req = r])
BY DEF Sound, Agrees, Settings

\* ruby_curl_easy_post_body_set_with_mode stores the body on both sides.
LEMMA PostBodySound ==
  ASSUME NEW s \in Settings, Agrees(s), NEW body \in Bodies \cup {None}, NEW forceGet \in BOOLEAN
  PROVE  Sound(PostBody(s, body, forceGet))
<1>0. s.req \in HandleSettings
  BY DEF Sound, Agrees, Settings
<1>1. CASE body = None
  <2> DEFINE r == SetPostFields(s.req, None)
  <2>1. r \in HandleSettings /\ r.method = "POST" /\ r.fields = None
    BY <1>0, PostFieldsFacts
  <2>2. SetHttpGet(r) \in HandleSettings /\ SetHttpGet(r).method = "GET"
    BY <2>1, HttpGetFacts
  <2>3. PostBody(s, body, forceGet)
          = [s EXCEPT !.postBuf = None, !.req = IF forceGet THEN SetHttpGet(r) ELSE r]
    BY <1>1 DEF PostBody
  <2> HIDE DEF r
  <2> QED
    BY <2>1, <2>2, <2>3 DEF Sound, Agrees, Settings
<1>2. CASE body # None
  <2> DEFINE r == SetPostFields(SetPost(s.req, TRUE), body)
  <2>1. r \in HandleSettings /\ r.method = "POST" /\ r.fields = body
    <3>1. SetPost(s.req, TRUE) \in HandleSettings BY <1>0, PostFacts
    <3> QED BY <3>1, PostFieldsFacts
  <2>2. PostBody(s, body, forceGet) = [s EXCEPT !.postBuf = body, !.req = r]
    BY <1>2 DEF PostBody, Sound, Settings
  <2> HIDE DEF r
  <2> QED
    BY <2>1, <2>2 DEF Sound, Agrees, Settings
<1> QED
  BY <1>1, <1>2

\* ruby_curl_easy_put_data_set stores an upload before libcurl will ask for it.
LEMMA PutDataSound ==
  ASSUME NEW s \in Settings, Agrees(s), NEW data \in Uploads \cup Streams
  PROVE  Sound(PutData(s, data))
<1> DEFINE r == SetUpload(SetPostFields(SetPost(SetNobody(s.req, FALSE), FALSE), None), TRUE)
<1>0. s.req \in HandleSettings
  BY DEF Sound, Agrees, Settings
<1>1. r \in HandleSettings /\ r.method = "PUT"
  BY <1>0, NobodyFacts, PostFacts, PostFieldsFacts, UploadFacts
<1>2. PutData(s, data)
        = [s EXCEPT !.upload = data, !.chunked = @ \/ data \in Streams, !.req = r]
  BY DEF PutData
<1>3. data # None
  BY RequestAssumption
<1> HIDE DEF r
<1> QED
  BY <1>1, <1>2, <1>3 DEF Sound, Agrees, Settings

\* ruby_curl_easy_cleanup ends the upload on both sides.
LEMMA CleanupSound ==
  ASSUME NEW s \in Settings, Agrees(s)
  PROVE  Sound(Cleanup(s))
<1>1. SetUpload(s.req, FALSE) \in HandleSettings /\ SetUpload(s.req, FALSE).method = "GET"
  BY UploadFacts DEF Sound, Agrees, Settings
<1> QED
  BY <1>1 DEF Cleanup, Sound, Agrees, Settings

\* However a perform ends, the settings are sound and what was sent is a verb.
LEMMA PerformedSound ==
  ASSUME NEW p \in Settings, Agrees(p), NEW o \in Performed(p)
  PROVE  Sound(o.state) /\ o.sent \in Verbs \cup {None}
<1>1. PICK end \in Ends :
        o = [end |-> end,
             state |-> IF end = "refused" THEN p ELSE Cleanup(p),
             sent |-> IF end = "refused" THEN None ELSE SentVerb(p.req)]
  BY DEF Performed
<1>2. SentVerb(p.req) \in Verbs
  BY SentVerbType DEF Sound, Agrees, Settings
<1>3. Sound(p) /\ Sound(Cleanup(p))
  BY CleanupSound DEF Sound
<1>4. o.state = p \/ o.state = Cleanup(p)
  BY <1>1
<1>5. o.sent = None \/ o.sent = SentVerb(p.req)
  BY <1>1
<1> QED
  BY <1>2, <1>3, <1>4, <1>5

\* perform_with_request_restore_ensure: the handle no longer posts or uploads
\* more than it did.
LEMMA RequestRestoreSound ==
  ASSUME NEW s \in Settings, Agrees(s), NEW nobody \in BOOLEAN, NEW post \in BOOLEAN
  PROVE  Sound(RequestRestore(s, nobody, post))
<1> DEFINE r1 == IF nobody THEN SetNobody(s.req, FALSE) ELSE s.req
           r2 == SetCustom(r1, None)
           r3 == SetHttpGet(SetPostFields(SetPost(r2, FALSE), None))
<1>0. s.req \in HandleSettings
  BY DEF Sound, Agrees, Settings
<1>1. r1 \in HandleSettings /\ r1.method \in {s.req.method, "GET", "HEAD"} /\ r1.fields = s.req.fields
  BY <1>0, NobodyFacts
<1> HIDE DEF r1
<1>2. r2 \in HandleSettings /\ r2.method = r1.method /\ r2.fields = r1.fields
  BY <1>1, CustomFacts
<1> HIDE DEF r2
<1>3. r3 \in HandleSettings /\ r3.method = "GET"
  BY <1>2, PostFacts, PostFieldsFacts, HttpGetFacts
<1> HIDE DEF r3
<1>4. RequestRestore(s, nobody, post)
        = IF post THEN [s EXCEPT !.req = r3, !.postBuf = None] ELSE [s EXCEPT !.req = r2]
  BY DEF RequestRestore, r1, r2, r3
<1>5. Sound([s EXCEPT !.req = r2])
  BY <1>1, <1>2, NewRequestSound
<1>6. Sound([s EXCEPT !.req = r3, !.postBuf = None])
  BY <1>3 DEF Sound, Agrees, Settings
<1> QED
  BY <1>4, <1>5, <1>6

\* ensure_free_form_post leaves a form request.
LEMMA FormRestoreSound ==
  ASSUME NEW s \in Settings, Agrees(s), NEW custom \in BOOLEAN
  PROVE  Sound(FormRestore(s, custom))
<1> DEFINE r == SetHttpPost(s.req)
           q == IF custom THEN SetCustom(r, None) ELSE r
<1>1. r \in HandleSettings /\ r.method = "FORM" /\ r.fields = s.req.fields
  BY HttpPostFacts DEF Sound, Agrees, Settings
<1>2. q \in HandleSettings /\ q.method = "FORM" /\ q.fields = s.req.fields
  BY <1>1, CustomFacts
<1>3. FormRestore(s, custom) = [s EXCEPT !.req = q]
  BY DEF FormRestore
<1> HIDE DEF r, q
<1> QED
  BY <1>2, <1>3, NewRequestSound

\* A verb set on sound settings.
LEMMA CustomSound ==
  ASSUME NEW s \in Settings, Agrees(s), NEW v \in Verbs \cup {None}
  PROVE  Sound([s EXCEPT !.req = SetCustom(@, v)])
<1>1. s.req \in HandleSettings
  BY DEF Sound, Agrees, Settings
<1>2. [s EXCEPT !.req = SetCustom(@, v)] = [s EXCEPT !.req = SetCustom(s.req, v)]
  OBVIOUS
<1> QED
  BY <1>1, <1>2, CustomFacts, NewRequestSound

\* No-body mode set on sound settings.
LEMMA NobodySound ==
  ASSUME NEW s \in Settings, Agrees(s), NEW on \in BOOLEAN
  PROVE  Sound([s EXCEPT !.req = SetNobody(@, on)])
<1>1. s.req \in HandleSettings
  BY DEF Sound, Agrees, Settings
<1>2. [s EXCEPT !.req = SetNobody(@, on)] = [s EXCEPT !.req = SetNobody(s.req, on)]
  OBVIOUS
<1> QED
  BY <1>1, <1>2, NobodyFacts, NewRequestSound

\* The body that http_post and http_patch make of their arguments.
LEMMA JoinedSound ==
  ASSUME NEW s \in Settings, Agrees(s), NEW body \in Bodies
  PROVE  Sound(Joined(s, body))
<1>1. Sound(PostBody(s, body, TRUE))
  BY PostBodySound
<1>2. Joined(s, body) \in {s, PostBody(s, body, TRUE)}
  BY DEF Joined
<1> QED
  BY <1>1, <1>2 DEF Sound

-----------------------------------------------------------------------------
(***************************************************************************)
(* Calls.  A call takes the settings as they are (Now), prepares them, and *)
(* leaves what its restore makes of them.                                  *)
(***************************************************************************)

\* The settings between two calls are sound.
LEMMA NowSound ==
  ASSUME LibcurlAgrees
  PROVE  Now \in Settings /\ Agrees(Now)
BY DEF LibcurlAgrees, TypeOK, ReaderHasData, BodyAgrees, Now, Settings, HandleSettings, Agrees

\* A call that ends with sound settings keeps both sides in agreement.
LEMMA BecomeAgrees ==
  ASSUME LibcurlAgrees, NEW s, Sound(s), NEW call \in Calls,
         NEW verb \in Verbs \cup {None}, NEW wire \in Verbs \cup {None},
         Become(s, call, verb, wire)
  PROVE  LibcurlAgrees'
<1>1. /\ s.req \in HandleSettings /\ s.postBuf \in Bodies \cup {None}
      /\ s.upload \in Uploads \cup Streams \cup {None} /\ s.chunked \in BOOLEAN
  BY DEF Sound, Settings
<1>2. /\ req' = s.req /\ postBuf' = s.postBuf /\ upload' = s.upload /\ chunked' = s.chunked
      /\ last' = [call |-> call, verb |-> verb, sent |-> wire]
      /\ liberties' = liberties
  BY DEF Become
<1>3. TypeOK'
  BY <1>1, <1>2 DEF LibcurlAgrees, TypeOK, HandleSettings
<1>4. ReaderHasData' /\ BodyAgrees'
  BY <1>2 DEF Sound, Agrees, ReaderHasData, BodyAgrees
<1> QED
  BY <1>3, <1>4 DEF LibcurlAgrees

\* build_and_perform_multipart_form.
LEMMA MultipartAgrees ==
  ASSUME LibcurlAgrees, NEW p \in Settings, Agrees(p), NEW custom \in BOOLEAN,
         NEW call \in Calls, NEW verb \in Verbs, MultipartForm(p, custom, call, verb)
  PROVE  LibcurlAgrees'
<1> DEFINE r == SetHttpPost(SetPost(p.req, FALSE))
           form == [p EXCEPT !.req = r]
           undone == [p EXCEPT !.req = IF custom THEN SetCustom(p.req, None) ELSE p.req]
<1>0. p.req \in HandleSettings
  BY DEF Settings
<1>1. r \in HandleSettings /\ r.method = "FORM" /\ r.fields = p.req.fields
  BY <1>0, FormFacts
<1>2. form \in Settings /\ Agrees(form)
  <2> HIDE DEF r
  <2> QED
    BY <1>1, NewRequestSound DEF Sound
<1>3. Sound(undone)
  <2> DEFINE q == IF custom THEN SetCustom(p.req, None) ELSE p.req
  <2>1. q \in HandleSettings /\ q.method = p.req.method /\ q.fields = p.req.fields
    BY <1>0, CustomFacts
  <2> HIDE DEF q
  <2>2. Sound([p EXCEPT !.req = q])
    BY <2>1, NewRequestSound
  <2> QED
    BY <2>2 DEF q
<1>4. CASE \E o \in Performed(form) : Become(FormRestore(o.state, custom), call, verb, o.sent)
  <2> HIDE DEF form
  <2>1. PICK o \in Performed(form) : Become(FormRestore(o.state, custom), call, verb, o.sent)
    BY <1>4
  <2>2. Sound(o.state) /\ o.sent \in Verbs \cup {None}
    BY <1>2, PerformedSound
  <2>3. Sound(FormRestore(o.state, custom))
    BY <2>2, FormRestoreSound DEF Sound
  <2> QED
    BY <2>1, <2>2, <2>3, BecomeAgrees
<1>5. CASE Become(undone, call, None, None)
  <2> HIDE DEF undone
  <2> QED
    BY <1>3, <1>5, BecomeAgrees
<1> QED
  BY <1>4, <1>5 DEF MultipartForm

\* A helper performs with sound settings and restores them.
LEMMA RestoredAgrees ==
  ASSUME LibcurlAgrees, NEW p \in Settings, Agrees(p), NEW o \in Performed(p),
         NEW nobody \in BOOLEAN, NEW post \in BOOLEAN, NEW call \in Calls, NEW verb \in Verbs,
         Become(RequestRestore(o.state, nobody, post), call, verb, o.sent)
  PROVE  LibcurlAgrees'
<1>1. Sound(o.state) /\ o.sent \in Verbs \cup {None}
  BY PerformedSound
<1>2. Sound(RequestRestore(o.state, nobody, post))
  BY <1>1, RequestRestoreSound DEF Sound
<1> QED
  BY <1>1, <1>2, BecomeAgrees

\* ruby_curl_easy_perform_verb_str.
LEMMA HttpFromAgrees ==
  ASSUME LibcurlAgrees, NEW s \in Settings, Agrees(s), NEW verb \in Verbs,
         NEW call \in Calls, HttpFrom(s, verb, call)
  PROVE  LibcurlAgrees'
<1> DEFINE custom == SetCustom(s.req, verb)
           prepared == IF verb = "HEAD" THEN SetPost(SetNobody(custom, TRUE), FALSE) ELSE custom
           p == [s EXCEPT !.req = prepared]
<1>0. s.req \in HandleSettings
  BY DEF Settings
<1>1. custom \in HandleSettings /\ custom.method = s.req.method /\ custom.fields = s.req.fields
  BY <1>0, CustomFacts
<1>2. /\ prepared \in HandleSettings
      /\ prepared.method \in {s.req.method, "GET"}
      /\ prepared.fields = s.req.fields
  <2> HIDE DEF custom
  <2>1. SetNobody(custom, TRUE) \in HandleSettings /\ SetNobody(custom, TRUE).fields = custom.fields
    BY <1>1, NobodyFacts
  <2> QED
    BY <1>1, <2>1, PostFacts
<1>3. p \in Settings /\ Agrees(p)
  <2> HIDE DEF prepared
  <2> QED
    BY <1>2, NewRequestSound DEF Sound
<1>4. PICK o \in Performed(p) :
        Become(RequestRestore(o.state, verb = "HEAD", FALSE), call, verb, o.sent)
  BY DEF HttpFrom
<1> HIDE DEF p
<1> QED
  BY <1>3, <1>4, RestoredAgrees

\* ruby_curl_easy_perform_post, _patch and _put begin by setting the verb; a
\* failed preparation leaves the handle there.
LEMMA PreparedSound ==
  ASSUME LibcurlAgrees, NEW v \in Verbs \cup {None}
  PROVE  LET p == [Now EXCEPT !.req = SetCustom(@, v)]
         IN  /\ p \in Settings /\ Agrees(p)
             /\ \A call \in Calls : RaisesEarly(p, call) => LibcurlAgrees'
<1> DEFINE p == [Now EXCEPT !.req = SetCustom(@, v)]
<1>1. Sound(p)
  BY NowSound, CustomSound
<1>2. ASSUME NEW call \in Calls, RaisesEarly(p, call)
      PROVE  LibcurlAgrees'
  <2>1. Become(p, call, None, None)
    BY <1>2 DEF RaisesEarly
  <2> HIDE DEF p
  <2> QED
    BY <1>1, <2>1, BecomeAgrees
<1> QED
  BY <1>1, <1>2 DEF Sound

\* A transfer and the restore that http_post, http_patch and http_put end with.
LEMMA BodyHelperAgrees ==
  ASSUME LibcurlAgrees, NEW p, Sound(p), NEW post \in BOOLEAN,
         NEW call \in Calls, NEW verb \in Verbs,
         \E o \in Performed(p) :
           Become(RequestRestore(o.state, FALSE, post), call, verb, o.sent)
  PROVE  LibcurlAgrees'
BY RestoredAgrees DEF Sound

-----------------------------------------------------------------------------
\* The helpers and perform.
LEMMA HelperAgrees ==
  ASSUME LibcurlAgrees, Helper \/ Perform
  PROVE  LibcurlAgrees'
<1>0. Now \in Settings /\ Agrees(Now) /\ Sound(Now)
  BY NowSound DEF Sound
<1>1. ASSUME NEW v \in {"GET", "HEAD", "DELETE"}, Http(v)
      PROVE  LibcurlAgrees'
  BY <1>0, <1>1, HttpFromAgrees DEF Http, Verbs, Calls
<1>2. CASE HttpGet
  <2> DEFINE p == [Now EXCEPT !.req = SetHttpGet(@)]
             r == SetHttpGet(Now.req)
  <2>1. r \in HandleSettings /\ r.method = "GET" /\ r.fields = Now.req.fields
    BY <1>0, HttpGetFacts DEF Settings
  <2>2. Sound(p)
    <3> HIDE DEF r
    <3>1. Sound([Now EXCEPT !.req = r])
      BY <1>0, <2>1, NewRequestSound
    <3> QED
      BY <3>1 DEF r
  <2>3. HttpFrom(p, "GET", "http_get")
    BY <1>2 DEF HttpGet
  <2> HIDE DEF p
  <2> QED
    BY <2>2, <2>3, HttpFromAgrees DEF Sound, Verbs, Calls
<1>3. CASE HttpDelete
  BY <1>0, <1>3, HttpFromAgrees DEF HttpDelete, Verbs, Calls
<1>4. CASE HttpHead
  <2> DEFINE p == [Now EXCEPT !.req = SetNobody(@, TRUE)]
             left(o) == [o.state EXCEPT !.req = IF o.end = "done" THEN SetNobody(@, FALSE) ELSE @]
  <2>1. Sound(p)
    BY <1>0, NobodySound
  <2>2. PICK o \in Performed(p) : Become(left(o), "http_head", "HEAD", o.sent)
    BY <1>4 DEF HttpHead
  <2> HIDE DEF p
  <2>3. Sound(o.state) /\ o.sent \in Verbs \cup {None}
    BY <2>1, PerformedSound DEF Sound
  <2>4. Sound(left(o))
    <3>1. CASE o.end = "done"
      <4>1. Sound([o.state EXCEPT !.req = SetNobody(@, FALSE)])
        BY <2>3, NobodySound DEF Sound
      <4> QED
        BY <3>1, <4>1
    <3>2. CASE o.end # "done"
      <4>1. left(o) = [o.state EXCEPT !.req = o.state.req]
        BY <3>2
      <4>2. Sound([o.state EXCEPT !.req = o.state.req])
        BY <2>3 DEF Sound, Agrees, Settings
      <4> QED
        BY <4>1, <4>2
    <3> QED
      BY <3>1, <3>2
  <2> HIDE DEF left
  <2> QED
    BY <2>2, <2>3, <2>4, BecomeAgrees DEF Verbs, Calls
<1>5. ASSUME NEW body \in Bodies, HttpPost(body)
      PROVE  LibcurlAgrees'
  <2> DEFINE p == [Now EXCEPT !.req = SetCustom(@, None)]
  <2>1. /\ p \in Settings /\ Agrees(p)
        /\ RaisesEarly(p, "http_post") => LibcurlAgrees'
    BY PreparedSound DEF Calls
  <2>2. \/ MultipartForm(p, FALSE, "http_post", "POST")
        \/ \E o \in Performed(Joined(p, body)) :
             Become(RequestRestore(o.state, FALSE, FALSE), "http_post", "POST", o.sent)
        \/ RaisesEarly(p, "http_post")
    BY <1>5 DEF HttpPost
  <2> HIDE DEF p
  <2>3. Sound(Joined(p, body))
    BY <2>1, JoinedSound
  <2> QED
    BY <2>1, <2>2, <2>3, MultipartAgrees, BodyHelperAgrees DEF Verbs, Calls
<1>6. ASSUME NEW body \in Bodies, HttpPatch(body)
      PROVE  LibcurlAgrees'
  <2> DEFINE p == [Now EXCEPT !.req = SetCustom(@, "PATCH")]
  <2>1. /\ p \in Settings /\ Agrees(p)
        /\ RaisesEarly(p, "http_patch") => LibcurlAgrees'
    BY PreparedSound DEF Verbs, Calls
  <2>2. \/ MultipartForm(p, TRUE, "http_patch", "PATCH")
        \/ \E o \in Performed(Joined(p, body)) :
             Become(RequestRestore(o.state, FALSE, TRUE), "http_patch", "PATCH", o.sent)
        \/ RaisesEarly(p, "http_patch")
    BY <1>6 DEF HttpPatch
  <2> HIDE DEF p
  <2>3. Sound(Joined(p, body))
    BY <2>1, JoinedSound
  <2> QED
    BY <2>1, <2>2, <2>3, MultipartAgrees, BodyHelperAgrees DEF Verbs, Calls
<1>7. ASSUME NEW data \in Uploads \cup Streams \cup {None}, HttpPut(data)
      PROVE  LibcurlAgrees'
  <2> DEFINE p == [Now EXCEPT !.req = SetCustom(@, "PUT")]
             q == IF data = None THEN p ELSE PutData(p, data)
  <2>1. /\ p \in Settings /\ Agrees(p)
        /\ RaisesEarly(p, "http_put") => LibcurlAgrees'
    BY PreparedSound DEF Verbs, Calls
  <2>2. \/ MultipartForm(p, TRUE, "http_put", "PUT")
        \/ \E o \in Performed(q) :
             Become(RequestRestore(o.state, FALSE, FALSE), "http_put", "PUT", o.sent)
        \/ RaisesEarly(p, "http_put")
        \/ RaisesEarly(q, "http_put")
    BY <1>7, RequestAssumption DEF HttpPut
  <2> HIDE DEF p
  <2>3. data # None => Sound(PutData(p, data))
    BY <2>1, PutDataSound
  <2>4. Sound(q)
    BY <2>1, <2>3 DEF Sound
  <2> HIDE DEF q
  <2>5. RaisesEarly(q, "http_put") => LibcurlAgrees'
    BY <2>4, BecomeAgrees DEF RaisesEarly, Calls
  <2> QED
    BY <2>1, <2>2, <2>4, <2>5, MultipartAgrees, BodyHelperAgrees DEF Verbs, Calls
<1>8. CASE Perform
  <2>1. PICK o \in Performed(Now) : Become(o.state, "perform", None, o.sent)
    BY <1>8 DEF Perform
  <2>2. Sound(o.state) /\ o.sent \in Verbs \cup {None}
    BY <1>0, PerformedSound
  <2> QED
    BY <2>1, <2>2, BecomeAgrees DEF Calls
<1> QED
  BY <1>1, <1>2, <1>3, <1>4, <1>5, <1>6, <1>7, <1>8 DEF Helper

\* The setters.
LEMMA SetterAgrees ==
  ASSUME LibcurlAgrees, Setter
  PROVE  LibcurlAgrees'
<1>0. Now \in Settings /\ Agrees(Now)
  BY NowSound
<1>1. ASSUME NEW body \in Bodies \cup {None}, SetPostBody(body) \/ SetPostFieldsOption(body)
      PROVE  LibcurlAgrees'
  <2>1. Sound(PostBody(Now, body, TRUE)) /\ Sound(PostBody(Now, body, FALSE))
    BY <1>0, PostBodySound
  <2> QED
    BY <1>1, <2>1, BecomeAgrees DEF Calls, SetPostBody, SetPostFieldsOption
<1>2. ASSUME NEW data \in Uploads \cup Streams, SetPutData(data)
      PROVE  LibcurlAgrees'
  <2>1. Sound(PutData(Now, data))
    BY <1>0, PutDataSound
  <2> QED
    BY <1>2, <2>1, BecomeAgrees DEF Calls, SetPutData
<1>3. ASSUME NEW on \in BOOLEAN, SetHead(on)
      PROVE  LibcurlAgrees'
  <2> DEFINE s == [Now EXCEPT !.req = SetNobody(@, on)]
  <2>1. Sound(s)
    BY <1>0, NobodySound
  <2>2. Become(s, "head=", None, None)
    BY <1>3 DEF SetHead
  <2> HIDE DEF s
  <2> QED
    BY <2>1, <2>2, BecomeAgrees DEF Calls
<1>4. ASSUME NEW on \in BOOLEAN, SetDelete(on)
      PROVE  LibcurlAgrees'
  <2> DEFINE v == IF on THEN "DELETE" ELSE None
             s == [Now EXCEPT !.req = SetCustom(@, v)]
  <2>1. v \in Verbs \cup {None}
    BY DEF Verbs
  <2>2. Become(s, "delete=", None, None)
    BY <1>4 DEF SetDelete
  <2> HIDE DEF v
  <2>3. Sound(s)
    BY <1>0, <2>1, CustomSound
  <2> HIDE DEF s
  <2> QED
    BY <2>2, <2>3, BecomeAgrees DEF Calls
<1> QED
  BY <1>1, <1>2, <1>3, <1>4 DEF Setter

\* Whatever sequence of helpers, setters and performs a program makes of one
\* Curl::Easy, and wherever they raise, an upload that libcurl would start has
\* data in the Ruby object, and a POST sends the body that post_body returns.
THEOREM RequestsAgree == Spec => []LibcurlAgrees
<1>1. Init => LibcurlAgrees
  <2> SUFFICES ASSUME Init
               PROVE  LibcurlAgrees
    OBVIOUS
  <2>1. liberties \subseteq Liberties
    BY DEF Init
  <2>2. req = [method |-> "GET", nobody |-> FALSE, custom |-> None, fields |-> None]
    BY DEF Init, FreshRequest
  <2>3. /\ req \in [method : Methods, nobody : BOOLEAN,
                   custom : Verbs \cup {None}, fields : Bodies \cup {None}]
        /\ req.method = "GET"
    BY <2>2 DEF Methods
  <2>4. last \in [call : Calls, verb : Verbs \cup {None}, sent : Verbs \cup {None}]
    BY DEF Init, Calls
  <2> QED
    BY <2>1, <2>3, <2>4 DEF Init, LibcurlAgrees, TypeOK, ReaderHasData, BodyAgrees
<1>2. LibcurlAgrees /\ [Next]_vars => LibcurlAgrees'
  <2> SUFFICES ASSUME LibcurlAgrees, [Next]_vars
               PROVE  LibcurlAgrees'
    OBVIOUS
  <2>1. CASE Next
    BY <2>1, SetterAgrees, HelperAgrees DEF Next
  <2>2. CASE UNCHANGED vars
    BY <2>2 DEF vars, LibcurlAgrees, TypeOK, ReaderHasData, BodyAgrees
  <2> QED
    BY <2>1, <2>2
<1> QED
  BY <1>1, <1>2, PTL DEF Spec

-----------------------------------------------------------------------------
(***************************************************************************)
(* What a call sends and what it leaves.  Both are properties of the last  *)
(* call; Outcome states them of a call that ends with settings s.  Its     *)
(* first conjunct is the strengthening: http_head sets no verb of its own, *)
(* so it sends HEAD only if no earlier call has left one.                  *)
(***************************************************************************)

Outcome(s, call, verb, wire) ==
  /\ liberties \cap {"argument", "setters"} = {} => s.req.custom = None
  /\ liberties \cap {"argument", "bare", "setters"} = {} =>
       (verb # None /\ wire # None => wire = verb)
  /\ "argument" \notin liberties =>
       (call \in {"http", "http_get", "http_delete", "http_patch", "http_put"}
          => s.req.custom = None)
  /\ call = "http" /\ verb = "HEAD" => ~s.req.nobody
  /\ liberties \cap {"fails", "refused"} = {} => (call = "http_head" => ~s.req.nobody)
  /\ liberties \cap {"argument", "refused"} = {} =>
       (call = "http_put" => s.upload = None /\ s.req.method # "PUT")
  /\ liberties \cap {"argument", "multipart"} = {} =>
       (call = "http_patch" => s.req.method = "GET" /\ s.postBuf = None)

NoVerbLeft == liberties \cap {"argument", "setters"} = {} => req.custom = None

Answers == NoVerbLeft /\ SendsItsVerb /\ RequestRestored

\* A call that ends with the right outcome leaves the right answers.
LEMMA BecomeAnswers ==
  ASSUME NEW s, NEW call, NEW verb, NEW wire,
         Outcome(s, call, verb, wire), Become(s, call, verb, wire)
  PROVE  Answers'
<1>1. /\ req' = s.req /\ postBuf' = s.postBuf /\ upload' = s.upload
      /\ last'.call = call /\ last'.verb = verb /\ last'.sent = wire
      /\ liberties' = liberties
  BY DEF Become
<1>2. NoVerbLeft' BY <1>1 DEF Outcome, NoVerbLeft
<1>3. SendsItsVerb' BY <1>1 DEF Outcome, SendsItsVerb
<1>4. VerbRestored' BY <1>1 DEF Outcome, VerbRestored
<1>5. UploadRestored' BY <1>1 DEF Outcome, UploadRestored
<1>6. PatchRestored' BY <1>1 DEF Outcome, PatchRestored
<1> QED BY <1>2, <1>3, <1>4, <1>5, <1>6 DEF Answers, RequestRestored

\* A call that fails while it prepares owes nothing.
LEMMA FailedPreparation ==
  ASSUME NEW s, NEW call \in {"http_post", "http_patch", "http_put"}, "argument" \in liberties,
         Become(s, call, None, None)
  PROVE  Answers'
<1>1. Outcome(s, call, None, None) BY DEF Outcome
<1> QED BY <1>1, BecomeAnswers

\* ruby_curl_easy_cleanup leaves no upload and does not touch the verb.
LEMMA CleanupLeaves ==
  ASSUME NEW s \in Settings, Agrees(s)
  PROVE  /\ Cleanup(s).upload = None /\ Cleanup(s).req.method # "PUT"
         /\ Cleanup(s).req.custom = s.req.custom /\ Cleanup(s).req.nobody = s.req.nobody
<1>1. s.req \in HandleSettings BY DEF Settings
<1>2. CASE s.upload = None BY <1>2 DEF Cleanup, Agrees
<1>3. CASE s.upload # None
  <2> DEFINE r == SetUpload(s.req, FALSE)
  <2>1. r.method = "GET" /\ r.custom = s.req.custom /\ r.nobody = s.req.nobody
    BY <1>1, UploadFacts
  <2>2. Cleanup(s) = [s EXCEPT !.upload = None, !.req = r] BY <1>3 DEF Cleanup
  <2> HIDE DEF r
  <2> QED BY <2>1, <2>2 DEF Settings
<1> QED BY <1>2, <1>3

\* A perform sends what the settings say, or nothing, and leaves the verb.
LEMMA PerformedLeaves ==
  ASSUME NEW p \in Settings, Agrees(p), NEW o \in Performed(p)
  PROVE  /\ o.sent \in {None, SentVerb(p.req)} /\ o.end \in Ends
         /\ o.state.req.custom = p.req.custom
         /\ "refused" \notin liberties => o.state.upload = None /\ o.state.req.method # "PUT"
<1>1. PICK end \in Ends :
        o = [end |-> end,
             state |-> IF end = "refused" THEN p ELSE Cleanup(p),
             sent |-> IF end = "refused" THEN None ELSE SentVerb(p.req)]
  BY DEF Performed
<1>2. o.state = (IF end = "refused" THEN p ELSE Cleanup(p)) /\ o.end = end
      /\ o.sent \in {None, SentVerb(p.req)}
  BY <1>1
<1>3. "refused" \notin liberties => end # "refused" BY DEF Ends
<1> QED BY <1>2, <1>3, CleanupLeaves

\* perform_with_request_restore_ensure leaves no verb.
LEMMA RequestRestoreLeaves ==
  ASSUME NEW s \in Settings, NEW nobody \in BOOLEAN, NEW post \in BOOLEAN
  PROVE  LET t == RequestRestore(s, nobody, post)
         IN /\ t.req.custom = None /\ t.upload = s.upload
            /\ nobody => ~t.req.nobody
            /\ post => t.req.method = "GET" /\ t.postBuf = None
            /\ s.req.method # "PUT" => t.req.method # "PUT"
<1> DEFINE r1 == IF nobody THEN SetNobody(s.req, FALSE) ELSE s.req
           r2 == SetCustom(r1, None)
           r3 == SetHttpGet(SetPostFields(SetPost(r2, FALSE), None))
<1>0. s.req \in HandleSettings BY DEF Settings
<1>1. /\ r1 \in HandleSettings /\ (nobody => ~r1.nobody)
      /\ s.req.method # "PUT" => r1.method # "PUT"
  BY <1>0, NobodyFacts
<1> HIDE DEF r1
<1>2. /\ r2 \in HandleSettings /\ r2.custom = None /\ r2.nobody = r1.nobody
      /\ r2.method = r1.method
  BY <1>1, CustomFacts
<1> HIDE DEF r2
<1>3. r3.custom = None /\ r3.method = "GET" /\ ~r3.nobody
  <2>1. SetPost(r2, FALSE) \in HandleSettings /\ SetPost(r2, FALSE).custom = None
    BY <1>2, PostFacts
  <2>2. /\ SetPostFields(SetPost(r2, FALSE), None) \in HandleSettings
        /\ SetPostFields(SetPost(r2, FALSE), None).custom = None
    BY <2>1, PostFieldsFacts
  <2> QED BY <2>2, HttpGetFacts
<1>4. RequestRestore(s, nobody, post) =
        IF post THEN [s EXCEPT !.req = r3, !.postBuf = None] ELSE [s EXCEPT !.req = r2]
  BY DEF RequestRestore, r1, r2
<1> HIDE DEF r3
<1>5. CASE post
  <2>1. RequestRestore(s, nobody, post) = [s EXCEPT !.req = r3, !.postBuf = None] BY <1>4, <1>5
  <2> QED BY <1>3, <1>5, <2>1 DEF Settings
<1>6. CASE ~post
  <2>1. RequestRestore(s, nobody, post) = [s EXCEPT !.req = r2] BY <1>4, <1>6
  <2> QED BY <1>1, <1>2, <1>6, <2>1 DEF Settings
<1> QED BY <1>5, <1>6

\* ensure_free_form_post leaves the form mode, and no verb that it was told of.
LEMMA FormRestoreLeaves ==
  ASSUME NEW s \in Settings, NEW custom \in BOOLEAN
  PROVE  LET t == FormRestore(s, custom)
         IN /\ t.req.custom = IF custom THEN None ELSE s.req.custom
            /\ t.upload = s.upload /\ t.req.method = "FORM"
<1> DEFINE r == SetHttpPost(s.req)
           q == IF custom THEN SetCustom(r, None) ELSE r
<1>1. r \in HandleSettings /\ r.method = "FORM" /\ r.custom = s.req.custom
  BY HttpPostFacts DEF Settings
<1> HIDE DEF r
<1>2. q.method = "FORM" /\ q.custom = IF custom THEN None ELSE s.req.custom
  BY <1>1, CustomFacts
<1>3. FormRestore(s, custom) = [s EXCEPT !.req = q] BY DEF FormRestore, r
<1> HIDE DEF q
<1> QED BY <1>2, <1>3 DEF Settings

-----------------------------------------------------------------------------
\* A helper that restores with perform_with_request_restore_ensure answers, if
\* the settings it performs with are for its verb.
LEMMA RestoringAnswers ==
  ASSUME NEW p, Sound(p), NEW nobody \in BOOLEAN, NEW post \in BOOLEAN,
         NEW call \in Calls, NEW verb \in Verbs, call # "http_head",
         call = "http" /\ verb = "HEAD" => nobody,
         call = "http_patch" => post,
         liberties \cap {"argument", "bare", "setters"} = {} => SentVerb(p.req) = verb,
         \E o \in Performed(p) :
           Become(RequestRestore(o.state, nobody, post), call, verb, o.sent)
  PROVE  Answers'
<1>0. p \in Settings /\ Agrees(p) BY DEF Sound
<1>1. PICK o \in Performed(p) :
        Become(RequestRestore(o.state, nobody, post), call, verb, o.sent)
  OBVIOUS
<1>2. o.state \in Settings BY <1>0, PerformedSound DEF Sound
<1>3. /\ o.sent \in {None, SentVerb(p.req)}
      /\ "refused" \notin liberties => o.state.upload = None /\ o.state.req.method # "PUT"
  BY <1>0, PerformedLeaves
<1> DEFINE t == RequestRestore(o.state, nobody, post)
<1>4. /\ t.req.custom = None /\ t.upload = o.state.upload
      /\ nobody => ~t.req.nobody
      /\ post => t.req.method = "GET" /\ t.postBuf = None
      /\ o.state.req.method # "PUT" => t.req.method # "PUT"
  BY <1>2, RequestRestoreLeaves
<1> HIDE DEF t
<1>5. Outcome(t, call, verb, o.sent) BY <1>3, <1>4 DEF Outcome
<1>6. Become(t, call, verb, o.sent) BY <1>1 DEF t
<1> QED BY <1>5, <1>6, BecomeAnswers

\* build_and_perform_multipart_form.
LEMMA MultipartAnswers ==
  ASSUME NEW p, Sound(p), NEW custom \in BOOLEAN, NEW verb \in Verbs,
         NEW call \in {"http_post", "http_patch", "http_put"}, "multipart" \in liberties,
         IF custom THEN p.req.custom = verb ELSE p.req.custom = None /\ verb = "POST",
         call # "http_post" => custom,
         MultipartForm(p, custom, call, verb)
  PROVE  Answers'
<1> DEFINE r == SetHttpPost(SetPost(p.req, FALSE))
           form == [p EXCEPT !.req = r]
<1>0. p \in Settings /\ p.req \in HandleSettings /\ Agrees(p) BY DEF Sound, Settings
<1>1. /\ r \in HandleSettings /\ r.method = "FORM" /\ r.fields = p.req.fields
      /\ r.nobody = FALSE /\ r.custom = p.req.custom
  BY <1>0, FormFacts
<1>2. CASE \E o \in Performed(form) : Become(FormRestore(o.state, custom), call, verb, o.sent)
  <2> HIDE DEF r
  <2>1. form \in Settings /\ Agrees(form) /\ form.req = r
    BY <1>0, <1>1, NewRequestSound DEF Sound, Settings
  <2>2. SentVerb(r) = verb BY <1>1, RequestAssumption DEF SentVerb
  <2> HIDE DEF form
  <2>3. PICK o \in Performed(form) : Become(FormRestore(o.state, custom), call, verb, o.sent)
    BY <1>2
  <2>4. o.state \in Settings BY <2>1, PerformedSound DEF Sound
  <2>5. /\ o.sent \in {None, verb} /\ o.state.req.custom = p.req.custom
        /\ "refused" \notin liberties => o.state.upload = None
    BY <1>1, <2>1, <2>2, PerformedLeaves
  <2> DEFINE t == FormRestore(o.state, custom)
  <2>6. /\ t.req.custom = IF custom THEN None ELSE o.state.req.custom
        /\ t.upload = o.state.upload /\ t.req.method = "FORM"
    BY <2>4, FormRestoreLeaves
  <2> HIDE DEF t
  <2>7. Outcome(t, call, verb, o.sent) BY <2>5, <2>6 DEF Outcome
  <2>8. Become(t, call, verb, o.sent) BY <2>3 DEF t
  <2> QED BY <2>7, <2>8, BecomeAnswers
<1>3. CASE /\ "argument" \in liberties
           /\ \E s : Become(s, call, None, None)
  BY <1>3, FailedPreparation
<1> QED BY <1>2, <1>3 DEF MultipartForm

\* ruby_curl_easy_perform_verb_str.
LEMMA HttpFromAnswers ==
  ASSUME NEW s, Sound(s), NEW verb \in Verbs,
         NEW call \in {"http", "http_get", "http_delete"}, HttpFrom(s, verb, call)
  PROVE  Answers'
<1> DEFINE custom == SetCustom(s.req, verb)
           prepared == IF verb = "HEAD" THEN SetPost(SetNobody(custom, TRUE), FALSE) ELSE custom
           p == [s EXCEPT !.req = prepared]
<1>0. s \in Settings /\ s.req \in HandleSettings /\ Agrees(s) BY DEF Sound, Settings
<1>1. /\ custom \in HandleSettings /\ custom.method = s.req.method
      /\ custom.fields = s.req.fields /\ custom.custom = verb
  BY <1>0, CustomFacts
<1>2. /\ prepared \in HandleSettings /\ prepared.method \in {s.req.method, "GET"}
      /\ prepared.fields = s.req.fields /\ prepared.custom = verb
  <2> HIDE DEF custom
  <2>1. /\ SetNobody(custom, TRUE) \in HandleSettings
        /\ SetNobody(custom, TRUE).fields = custom.fields
        /\ SetNobody(custom, TRUE).custom = custom.custom
    BY <1>1, NobodyFacts
  <2>2. /\ SetPost(SetNobody(custom, TRUE), FALSE) \in HandleSettings
        /\ SetPost(SetNobody(custom, TRUE), FALSE).method = "GET"
        /\ SetPost(SetNobody(custom, TRUE), FALSE).fields = custom.fields
        /\ SetPost(SetNobody(custom, TRUE), FALSE).custom = custom.custom
    BY <2>1, PostFacts
  <2>3. CASE verb = "HEAD" BY <1>1, <2>2, <2>3
  <2>4. CASE verb # "HEAD" BY <1>1, <2>4
  <2> QED BY <2>3, <2>4
<1>3. \E o \in Performed(p) :
        Become(RequestRestore(o.state, verb = "HEAD", FALSE), call, verb, o.sent)
  BY DEF HttpFrom
<1> HIDE DEF prepared
<1>4. Sound(p) /\ p.req = prepared BY <1>0, <1>2, NewRequestSound DEF Settings
<1>5. SentVerb(p.req) = verb BY <1>2, <1>4, RequestAssumption DEF SentVerb
<1> HIDE DEF p
<1>6. (verb = "HEAD") \in BOOLEAN /\ call \in Calls BY DEF Calls
<1> QED BY <1>3, <1>4, <1>5, <1>6, RestoringAnswers

\* The body that http_post and http_patch join from their arguments.
LEMMA JoinedLeaves ==
  ASSUME NEW s \in Settings, NEW body \in Bodies
  PROVE  /\ Joined(s, body).req.custom = s.req.custom
         /\ body # Empty => /\ ~Joined(s, body).req.nobody
                            /\ Joined(s, body).req.method = "POST"
<1> DEFINE r == SetPostFields(SetPost(s.req, TRUE), body)
<1>0. s.req \in HandleSettings /\ body # None BY RequestAssumption DEF Settings
<1>1. r.custom = s.req.custom /\ r.nobody = FALSE /\ r.method = "POST"
  <2>1. /\ SetPost(s.req, TRUE) \in HandleSettings /\ SetPost(s.req, TRUE).nobody = FALSE
        /\ SetPost(s.req, TRUE).custom = s.req.custom
    BY <1>0, PostFacts
  <2> QED BY <2>1, PostFieldsFacts
<1>2. PostBody(s, body, TRUE) = [s EXCEPT !.postBuf = body, !.req = r]
  BY <1>0 DEF PostBody, Settings
<1> HIDE DEF r
<1>3. PostBody(s, body, TRUE).req = r BY <1>2 DEF Settings
<1>4. Joined(s, body) = PostBody(s, body, TRUE) \/ (body = Empty /\ Joined(s, body) = s)
  BY DEF Joined
<1> QED BY <1>1, <1>3, <1>4

\* A preparation that raises is one that the program may have to expect.
LEMMA RaisesEarlyAnswers ==
  ASSUME NEW p, NEW call \in {"http_post", "http_patch", "http_put"}, RaisesEarly(p, call)
  PROVE  Answers'
BY FailedPreparation DEF RaisesEarly

\* Every verb helper does.
LEMMA HelperAnswers ==
  ASSUME LibcurlAgrees, NoVerbLeft, Helper
  PROVE  Answers'
<1>0. Now \in Settings /\ Agrees(Now) /\ Sound(Now) /\ Now.req = req /\ req \in HandleSettings
  BY NowSound DEF Sound, Now, LibcurlAgrees, TypeOK, HandleSettings
<1>1. ASSUME NEW v \in {"GET", "HEAD", "DELETE"}, Http(v) PROVE Answers'
  BY <1>0, <1>1, HttpFromAnswers DEF Http, Verbs
<1>2. CASE HttpGet
  <2> DEFINE p == [Now EXCEPT !.req = SetHttpGet(@)]
             r == SetHttpGet(req)
  <2>1. r \in HandleSettings /\ r.method = "GET" /\ r.fields = Now.req.fields
    BY <1>0, HttpGetFacts
  <2>2. p = [Now EXCEPT !.req = r] BY <1>0
  <2>3. HttpFrom(p, "GET", "http_get") BY <1>2 DEF HttpGet
  <2> HIDE DEF r, p
  <2>4. Sound(p) BY <1>0, <2>1, <2>2, NewRequestSound
  <2> QED BY <2>3, <2>4, HttpFromAnswers DEF Verbs
<1>3. CASE HttpDelete BY <1>0, <1>3, HttpFromAnswers DEF HttpDelete, Verbs
<1>4. CASE HttpHead
  <2> DEFINE p == [Now EXCEPT !.req = SetNobody(@, TRUE)]
             r == SetNobody(req, TRUE)
             left(o) == [o.state EXCEPT !.req = IF o.end = "done" THEN SetNobody(@, FALSE) ELSE @]
  <2>1. PICK o \in Performed(p) : Become(left(o), "http_head", "HEAD", o.sent)
    BY <1>4 DEF HttpHead
  <2>2. Sound(p) BY <1>0, NobodySound
  <2>3. r.custom = req.custom /\ r.nobody = TRUE BY <1>0, NobodyFacts
  <2>4. p.req = r BY <1>0 DEF Settings
  <2> HIDE DEF r, p
  <2>5. o.state \in Settings /\ o.state.req \in HandleSettings
    BY <2>2, PerformedSound DEF Sound, Settings
  <2>6. o.sent \in {None, SentVerb(r)} /\ o.end \in Ends /\ o.state.req.custom = req.custom
    BY <2>2, <2>3, <2>4, PerformedLeaves DEF Sound
  <2>7. left(o).req = IF o.end = "done" THEN SetNobody(o.state.req, FALSE) ELSE o.state.req
    BY <2>5 DEF Settings
  <2> HIDE DEF left
  <2>8. /\ left(o).req.custom = req.custom
        /\ o.end = "done" => ~left(o).req.nobody
    <3>1. /\ SetNobody(o.state.req, FALSE).custom = o.state.req.custom
          /\ SetNobody(o.state.req, FALSE).nobody = FALSE
      BY <2>5, NobodyFacts
    <3> QED BY <2>6, <2>7, <3>1
  <2>9. req.custom = None => SentVerb(r) = "HEAD" BY <2>3 DEF SentVerb
  <2>10. liberties \cap {"fails", "refused"} = {} => o.end = "done" BY <2>6 DEF Ends
  <2>11. liberties \cap {"argument", "setters"} = {} => req.custom = None BY DEF NoVerbLeft
  <2>12. Outcome(left(o), "http_head", "HEAD", o.sent)
    BY <2>6, <2>8, <2>9, <2>10, <2>11 DEF Outcome
  <2> QED BY <2>1, <2>12, BecomeAnswers
<1>5. ASSUME NEW v \in Verbs \cup {None}
      PROVE  LET p == [Now EXCEPT !.req = SetCustom(@, v)]
             IN Sound(p) /\ p.req.custom = v
  <2>1. Sound([Now EXCEPT !.req = SetCustom(@, v)]) BY <1>0, CustomSound
  <2>2. [Now EXCEPT !.req = SetCustom(@, v)].req = SetCustom(req, v) BY <1>0 DEF Settings
  <2>3. SetCustom(req, v).custom = v BY <1>0, CustomFacts
  <2> QED BY <2>1, <2>2, <2>3
<1>6. ASSUME NEW body \in Bodies, HttpPost(body) PROVE Answers'
  <2> DEFINE p == [Now EXCEPT !.req = SetCustom(@, None)]
  <2>1. Sound(p) /\ p.req.custom = None BY <1>5
  <2>2. \/ "multipart" \in liberties /\ MultipartForm(p, FALSE, "http_post", "POST")
        \/ /\ body = Empty => "bare" \in liberties
           /\ \E o \in Performed(Joined(p, body)) :
                Become(RequestRestore(o.state, FALSE, FALSE), "http_post", "POST", o.sent)
        \/ RaisesEarly(p, "http_post")
    BY <1>6 DEF HttpPost
  <2> HIDE DEF p
  <2>3. ASSUME body = Empty => "bare" \in liberties,
               \E o \in Performed(Joined(p, body)) :
                 Become(RequestRestore(o.state, FALSE, FALSE), "http_post", "POST", o.sent)
        PROVE  Answers'
    <3> DEFINE j == Joined(p, body)
    <3>1. Sound(j) BY <2>1, JoinedSound DEF Sound
    <3>2. j.req.custom = None /\ (body # Empty => ~j.req.nobody /\ j.req.method = "POST")
      BY <2>1, JoinedLeaves DEF Sound
    <3> HIDE DEF j
    <3>3. liberties \cap {"argument", "bare", "setters"} = {} => SentVerb(j.req) = "POST"
      BY <2>3, <3>2 DEF SentVerb
    <3>4. \E o \in Performed(j) :
            Become(RequestRestore(o.state, FALSE, FALSE), "http_post", "POST", o.sent)
      BY <2>3 DEF j
    <3> QED BY <3>1, <3>3, <3>4, RestoringAnswers DEF Verbs, Calls
  <2> QED BY <2>1, <2>2, <2>3, MultipartAnswers, RaisesEarlyAnswers DEF Verbs
<1>7. ASSUME NEW body \in Bodies, HttpPatch(body) PROVE Answers'
  <2> DEFINE p == [Now EXCEPT !.req = SetCustom(@, "PATCH")]
             j == Joined(p, body)
  <2>1. Sound(p) /\ p.req.custom = "PATCH" BY <1>5 DEF Verbs
  <2>2. \/ "multipart" \in liberties /\ MultipartForm(p, TRUE, "http_patch", "PATCH")
        \/ \E o \in Performed(j) :
             Become(RequestRestore(o.state, FALSE, TRUE), "http_patch", "PATCH", o.sent)
        \/ RaisesEarly(p, "http_patch")
    BY <1>7 DEF HttpPatch
  <2> HIDE DEF p
  <2>3. Sound(j) /\ j.req.custom = "PATCH" BY <2>1, JoinedSound, JoinedLeaves DEF Sound
  <2> HIDE DEF j
  <2>4. SentVerb(j.req) = "PATCH" BY <2>3, RequestAssumption DEF SentVerb, Verbs
  <2> QED BY <2>1, <2>2, <2>3, <2>4, MultipartAnswers, RaisesEarlyAnswers, RestoringAnswers
          DEF Verbs, Calls
<1>8. ASSUME NEW data \in Uploads \cup Streams \cup {None}, HttpPut(data) PROVE Answers'
  <2> DEFINE p == [Now EXCEPT !.req = SetCustom(@, "PUT")]
             q == IF data = None THEN p ELSE PutData(p, data)
  <2>1. Sound(p) /\ p.req.custom = "PUT" BY <1>5 DEF Verbs
  <2>2. \/ "multipart" \in liberties /\ MultipartForm(p, TRUE, "http_put", "PUT")
        \/ \E o \in Performed(q) :
             Become(RequestRestore(o.state, FALSE, FALSE), "http_put", "PUT", o.sent)
        \/ RaisesEarly(p, "http_put")
        \/ RaisesEarly(q, "http_put")
    BY <1>8, RequestAssumption DEF HttpPut
  <2> HIDE DEF p
  <2>3. p \in Settings /\ p.req \in HandleSettings BY <2>1 DEF Sound, Settings
  <2>4. PutData(p, data).req.custom = "PUT"
    <3> DEFINE a == SetPost(SetNobody(p.req, FALSE), FALSE)
               r == SetUpload(SetPostFields(a, None), TRUE)
    <3>1. SetNobody(p.req, FALSE) \in HandleSettings /\ SetNobody(p.req, FALSE).custom = "PUT"
      BY <2>1, <2>3, NobodyFacts
    <3>2. a \in HandleSettings /\ a.custom = "PUT" BY <3>1, PostFacts
    <3> HIDE DEF a
    <3>3. SetPostFields(a, None) \in HandleSettings /\ SetPostFields(a, None).custom = "PUT"
      BY <3>2, PostFieldsFacts
    <3>4. r.custom = "PUT" BY <3>3, UploadFacts
    <3>5. PutData(p, data) =
            [p EXCEPT !.upload = data, !.chunked = @ \/ data \in Streams, !.req = r]
      BY DEF PutData, a
    <3> HIDE DEF r
    <3> QED BY <2>3, <3>4, <3>5 DEF Settings
  <2>5. data # None => Sound(PutData(p, data)) BY <2>1, PutDataSound DEF Sound
  <2>6. Sound(q) /\ q.req.custom = "PUT" BY <2>1, <2>4, <2>5
  <2> HIDE DEF q
  <2>7. SentVerb(q.req) = "PUT" BY <2>6, RequestAssumption DEF SentVerb, Verbs
  <2> QED BY <2>1, <2>2, <2>6, <2>7, MultipartAnswers, RaisesEarlyAnswers, RestoringAnswers
          DEF Verbs, Calls
<1> QED BY <1>1, <1>2, <1>3, <1>4, <1>6, <1>7, <1>8 DEF Helper

\* perform and the setters are for no verb, and only delete= sets one.
LEMMA OtherAnswers ==
  ASSUME LibcurlAgrees, NoVerbLeft, Perform \/ Setter
  PROVE  Answers'
<1>0. Now \in Settings /\ Agrees(Now) /\ Now.req = req /\ req \in HandleSettings
  BY NowSound DEF Now, LibcurlAgrees, TypeOK, HandleSettings
<1> DEFINE Quiet == {"perform", "post_body=", "setopt", "put_data=", "head=", "delete="}
<1>1. ASSUME NEW s, NEW call \in Quiet, NEW wire, Become(s, call, None, wire),
             "setters" \in liberties \/ s.req.custom = req.custom
      PROVE  Answers'
  <2>1. Outcome(s, call, None, wire) BY <1>1 DEF Outcome, NoVerbLeft
  <2> QED BY <1>1, <2>1, BecomeAnswers
<1>2. CASE Perform
  <2>1. PICK o \in Performed(Now) : Become(o.state, "perform", None, o.sent) BY <1>2 DEF Perform
  <2>2. o.state.req.custom = req.custom BY <1>0, PerformedLeaves
  <2> QED BY <1>1, <2>1, <2>2
<1>3. ASSUME NEW body \in Bodies \cup {None}, NEW forceGet \in BOOLEAN
      PROVE  PostBody(Now, body, forceGet).req.custom = req.custom
  <2>1. CASE body = None
    <3> DEFINE r == SetPostFields(req, None)
               q == IF forceGet THEN SetHttpGet(r) ELSE r
    <3>1. r \in HandleSettings /\ r.custom = req.custom BY <1>0, PostFieldsFacts
    <3>2. PostBody(Now, body, forceGet) = [Now EXCEPT !.postBuf = None, !.req = q]
      BY <1>0, <2>1 DEF PostBody
    <3> HIDE DEF r
    <3>3. q.custom = req.custom BY <3>1, HttpGetFacts
    <3> HIDE DEF q
    <3> QED BY <1>0, <3>2, <3>3 DEF Settings
  <2>2. CASE body # None
    <3> DEFINE r == SetPostFields(SetPost(req, TRUE), body)
    <3>1. SetPost(req, TRUE) \in HandleSettings /\ SetPost(req, TRUE).custom = req.custom
      BY <1>0, PostFacts
    <3>2. r.custom = req.custom BY <3>1, PostFieldsFacts
    <3>3. PostBody(Now, body, forceGet) = [Now EXCEPT !.postBuf = body, !.req = r]
      BY <1>0, <2>2 DEF PostBody, Settings
    <3> HIDE DEF r
    <3> QED BY <1>0, <3>2, <3>3 DEF Settings
  <2> QED BY <2>1, <2>2
<1>4. ASSUME NEW body \in Bodies \cup {None}, SetPostBody(body) \/ SetPostFieldsOption(body)
      PROVE  Answers'
  BY <1>1, <1>3, <1>4 DEF SetPostBody, SetPostFieldsOption
<1>5. ASSUME NEW data \in Uploads \cup Streams, SetPutData(data) PROVE Answers'
  <2> DEFINE a == SetPost(SetNobody(req, FALSE), FALSE)
             r == SetUpload(SetPostFields(a, None), TRUE)
  <2>1. SetNobody(req, FALSE) \in HandleSettings /\ SetNobody(req, FALSE).custom = req.custom
    BY <1>0, NobodyFacts
  <2>2. a \in HandleSettings /\ a.custom = req.custom BY <2>1, PostFacts
  <2> HIDE DEF a
  <2>3. SetPostFields(a, None) \in HandleSettings /\ SetPostFields(a, None).custom = req.custom
    BY <2>2, PostFieldsFacts
  <2>4. r.custom = req.custom BY <2>3, UploadFacts
  <2>5. PutData(Now, data) =
          [Now EXCEPT !.upload = data, !.chunked = @ \/ data \in Streams, !.req = r]
    BY <1>0 DEF PutData, a
  <2> HIDE DEF r
  <2>6. PutData(Now, data).req.custom = req.custom BY <1>0, <2>4, <2>5 DEF Settings
  <2> QED BY <1>1, <1>5, <2>6 DEF SetPutData
<1>6. ASSUME NEW on \in BOOLEAN, SetHead(on) \/ SetDelete(on) PROVE Answers'
  BY <1>1, <1>6 DEF SetHead, SetDelete
<1> QED BY <1>2, <1>4, <1>5, <1>6 DEF Setter

\* The invariant of the answers.
LEMMA AnswersInvariant == Spec => []Answers
<1>1. Init => Answers
  BY DEF Init, FreshRequest, Answers, NoVerbLeft, SendsItsVerb, RequestRestored, VerbRestored,
         UploadRestored, PatchRestored
<1>2. LibcurlAgrees /\ Answers /\ [Next]_vars => Answers'
  <2> SUFFICES ASSUME LibcurlAgrees, Answers, [Next]_vars PROVE Answers' OBVIOUS
  <2>1. CASE Next BY <2>1, HelperAnswers, OtherAnswers DEF Next, Answers
  <2>2. CASE UNCHANGED vars
    BY <2>2 DEF vars, Answers, NoVerbLeft, SendsItsVerb, RequestRestored, VerbRestored,
                UploadRestored, PatchRestored
  <2> QED BY <2>1, <2>2
<1> QED BY <1>1, <1>2, RequestsAgree, PTL DEF Spec

\* A helper sends the verb it is named for after any sequence of other calls on
\* the handle, whether those returned or raised, with the exemptions that
\* SendsItsVerb names.
THEOREM VerbsAreSent == Spec => []SendsItsVerb
<1>1. Answers => SendsItsVerb BY DEF Answers
<1> QED BY <1>1, AnswersInvariant, PTL

\* What a helper sets for its own request, verb, HEAD mode, upload and body, is
\* gone when it ends, with the exemptions that RequestRestored names.
THEOREM NothingLingers == Spec => []RequestRestored
<1>1. Answers => RequestRestored BY DEF Answers
<1> QED BY <1>1, AnswersInvariant, PTL

-----------------------------------------------------------------------------
(***************************************************************************)
(* Curl::Multi.http.  Pooled accounts for every request (queued, carried   *)
(* by a handle or sent) and for every handle (in use or free); Asked says  *)
(* what of earlier requests a handle may still have.                       *)
(***************************************************************************)

Queued(r) == \E i \in 1 .. Len(urls) : urls[i] = r
Carried(r) == \E h \in Handles : job[h] = r
Listed(h) == \E i \in 1 .. Len(free) : free[i] = h
Going == ~deferred /\ pc # "raised"

HttpSettings == [method : {"GET", "HEAD", "POST", "PUT"}, nobody : BOOLEAN,
                 custom : {None, "DELETE"}, fields : {None, "body"}]

HttpTyped == HttpTypeOK /\ handle \in [Handles -> HttpSettings]

\* Handles are made for requests, and every handle of the pool is in use or free.
PoolFits ==
  /\ made + Len(urls) <= Cardinality(Requests)
  /\ \A h \in Handles : job[h] # None => h <= made
  /\ \A i \in 1 .. Len(free) : free[i] <= made
  /\ pc # "fill" => made > 0 \/ urls = <<>>
  /\ Going => \A h \in Handles : h <= made => job[h] # None \/ Listed(h)

NoneTwice ==
  /\ \A i, j \in 1 .. Len(urls) : urls[i] = urls[j] => i = j
  /\ \A g, h \in Handles : job[g] # None /\ job[g] = job[h] => g = h
  /\ \A r \in Requests : Queued(r) => ~Carried(r) /\ sent[r] = <<>>
  /\ \A r \in Requests : Carried(r) => sent[r] = <<>>
  /\ \A r \in Requests : Len(sent[r]) <= 1

NoneLost == Going => \A r \in Requests : Queued(r) \/ Carried(r) \/ Len(sent[r]) = 1

FreeOnce ==
  /\ \A i, j \in 1 .. Len(free) : free[i] = free[j] => i = j
  /\ \A i \in 1 .. Len(free) : job[free[i]] = None

HttpStages ==
  /\ deferred => pc \in {"run", "block", "raised"}
  /\ pc = "block" /\ deferred => InFlight # {}
  /\ pc \in {"idle", "consume", "returned"} => InFlight = {}
  /\ pc \in {"consume", "returned"} => urls = <<>>

Pooled == HttpTyped /\ PoolFits /\ NoneTwice /\ NoneLost /\ FreeOnce /\ HttpStages

-----------------------------------------------------------------------------
\* There are finitely many requests.
LEMMA CountType == Cardinality(Requests) \in Nat
BY HttpAssumption, FS_CardinalityType

\* What the last element of a sequence leaves.
LEMMA FrontFacts ==
  ASSUME NEW S, NEW s \in Seq(S), s # <<>>
  PROVE  /\ Front(s) \in Seq(S) /\ Len(s) \in Nat \ {0} /\ Len(Front(s)) = Len(s) - 1
         /\ \A i \in 1 .. Len(s) - 1 : Front(s)[i] = s[i]
         /\ Back(s) \in S /\ Back(s) = s[Len(s)]
<1>1. Len(s) \in Nat \ {0} /\ \A i \in 1 .. Len(s) : s[i] \in S BY EmptySeq, ElementOfSeq
<1>2. PICK n \in Int : n = Len(s) - 1 BY <1>1
<1>3. \A i \in 1 .. n : s[i] \in S BY <1>1, <1>2
<1>4. /\ SubSeq(s, 1, n) \in Seq(S)
      /\ Len(SubSeq(s, 1, n)) = IF 1 <= n THEN n - 1 + 1 ELSE 0
      /\ \A i \in 1 .. n - 1 + 1 : SubSeq(s, 1, n)[i] = s[1 + i - 1]
  BY <1>3, SubSeqProperties
<1>5. Len(SubSeq(s, 1, n)) = n BY <1>1, <1>2, <1>4
<1>6. \A i \in 1 .. n : SubSeq(s, 1, n)[i] = s[i] BY <1>1, <1>2, <1>4
<1> QED BY <1>1, <1>2, <1>4, <1>5, <1>6 DEF Front, Back

\* Settings are typed
LEMMA ConfiguredType ==
  ASSUME NEW s \in HttpSettings, NEW verb \in HttpVerbs
  PROVE  Configured(s, verb) \in HttpSettings
BY DEF Configured, HttpSettings, SetPostFields, SetPost, SetUpload, SetNobody, SetCustom, HttpVerbs

\* Cleanup keeps the settings typed, and what is sent is a verb of http.
LEMMA CleanedType ==
  ASSUME NEW s \in HttpSettings
  PROVE  Cleaned(s) \in HttpSettings /\ SentVerb(s) \in HttpVerbs
BY HttpAssumption DEF Cleaned, HttpSettings, SetUpload, SentVerb, HttpVerbs

-----------------------------------------------------------------------------
\* The last request leaves the queue, and is not in it a second time.
LEMMA DequeueFacts ==
  ASSUME HttpTyped, NoneTwice, urls # <<>>, urls' = Front(urls)
  PROVE  /\ urls' \in Seq(Requests) /\ Len(urls) \in Nat \ {0} /\ Len(urls') = Len(urls) - 1
         /\ Back(urls) \in Requests /\ Queued(Back(urls))
         /\ \A i, j \in 1 .. Len(urls') : urls'[i] = urls'[j] => i = j
         /\ \A r \in Requests : Queued(r)' <=> Queued(r) /\ r # Back(urls)
<1>1. /\ urls' \in Seq(Requests) /\ Len(urls) \in Nat \ {0} /\ Len(urls') = Len(urls) - 1
      /\ \A i \in 1 .. Len(urls) - 1 : urls'[i] = urls[i]
      /\ Back(urls) \in Requests /\ Back(urls) = urls[Len(urls)]
  BY FrontFacts DEF HttpTyped, HttpTypeOK
<1>2. \A i, j \in 1 .. Len(urls) : urls[i] = urls[j] => i = j BY DEF NoneTwice
<1>3. \A i, j \in 1 .. Len(urls') : urls'[i] = urls'[j] => i = j BY <1>1, <1>2
<1>4. Queued(Back(urls)) BY <1>1 DEF Queued
<1>5. ASSUME NEW r \in Requests PROVE Queued(r)' <=> Queued(r) /\ r # Back(urls)
  <2>1. ASSUME Queued(r)' PROVE Queued(r) /\ r # Back(urls)
    <3>1. PICK i \in 1 .. Len(urls') : urls'[i] = r BY <2>1 DEF Queued
    <3>2. i \in 1 .. Len(urls) /\ i # Len(urls) /\ urls[i] = r BY <1>1, <3>1
    <3>3. Len(urls) \in 1 .. Len(urls) BY <1>1
    <3> QED BY <1>1, <1>2, <3>2, <3>3 DEF Queued
  <2>2. ASSUME Queued(r), r # Back(urls) PROVE Queued(r)'
    <3>1. PICK i \in 1 .. Len(urls) : urls[i] = r BY <2>2 DEF Queued
    <3>2. i \in 1 .. Len(urls') /\ urls'[i] = r BY <1>1, <2>2, <3>1
    <3> QED BY <3>2 DEF Queued
  <2> QED BY <2>1, <2>2
<1> QED BY <1>1, <1>3, <1>4, <1>5

\* The last handle leaves the free ones.
LEMMA UnlistFacts ==
  ASSUME HttpTyped, FreeOnce, free # <<>>, free' = Front(free)
  PROVE  /\ free' \in Seq(Handles) /\ Len(free) \in Nat \ {0} /\ Len(free') = Len(free) - 1
         /\ Back(free) \in Handles /\ Listed(Back(free)) /\ job[Back(free)] = None
         /\ \E k \in 1 .. Len(free) : free[k] = Back(free)
         /\ \A i \in 1 .. Len(free') : i \in 1 .. Len(free) /\ free'[i] = free[i]
         /\ \A i, j \in 1 .. Len(free') : free'[i] = free'[j] => i = j
         /\ \A h \in Handles : Listed(h)' <=> Listed(h) /\ h # Back(free)
<1>1. /\ free' \in Seq(Handles) /\ Len(free) \in Nat \ {0} /\ Len(free') = Len(free) - 1
      /\ \A i \in 1 .. Len(free) - 1 : free'[i] = free[i]
      /\ Back(free) \in Handles /\ Back(free) = free[Len(free)]
  BY FrontFacts DEF HttpTyped, HttpTypeOK
<1>2. \A i, j \in 1 .. Len(free) : free[i] = free[j] => i = j BY DEF FreeOnce
<1>3. \A i \in 1 .. Len(free') : i \in 1 .. Len(free) /\ free'[i] = free[i] BY <1>1
<1>4. Len(free) \in 1 .. Len(free) BY <1>1
<1>5. Listed(Back(free)) /\ job[Back(free)] = None BY <1>1, <1>4 DEF Listed, FreeOnce
<1>6. ASSUME NEW h \in Handles PROVE Listed(h)' <=> Listed(h) /\ h # Back(free)
  <2>1. ASSUME Listed(h)' PROVE Listed(h) /\ h # Back(free)
    <3>1. PICK i \in 1 .. Len(free') : free'[i] = h BY <2>1 DEF Listed
    <3>2. i \in 1 .. Len(free) /\ i # Len(free) /\ free[i] = h BY <1>1, <1>3, <3>1
    <3> QED BY <1>1, <1>2, <1>4, <3>2 DEF Listed
  <2>2. ASSUME Listed(h), h # Back(free) PROVE Listed(h)'
    <3>1. PICK i \in 1 .. Len(free) : free[i] = h BY <2>2 DEF Listed
    <3>2. i \in 1 .. Len(free') /\ free'[i] = h BY <1>1, <2>2, <3>1
    <3> QED BY <3>2 DEF Listed
  <2> QED BY <2>1, <2>2
<1> QED BY <1>1, <1>2, <1>3, <1>4, <1>5, <1>6

\* add_free_handle: the request moves from the queue to the handle, unless it
\* is ignored for a deferred exception or an option of it is refused.
LEMMA TakeFacts ==
  ASSUME Pooled, NEW h \in Handles, job[h] = None, NEW next, next # "raised",
         urls # <<>>, urls' = Front(urls), AddFreeHandle(h, Back(urls), next), pc # "raised",
         UNCHANGED <<deferred, sent>>
  PROVE  /\ pc' \in {next, "raised"}
         /\ job' \in [Handles -> Requests \cup {None}] /\ handle' \in [Handles -> HttpSettings]
         /\ \A g \in Handles \ {h} : job'[g] = job[g] /\ handle'[g] = handle[g]
         /\ job'[h] \in {None, Back(urls)}
         /\ Going' => job'[h] = Back(urls)
         /\ job'[h] # None =>
              handle'[h] = Configured(handle[h], VerbOf[Back(urls)])
         /\ deferred => job' = job
         /\ NoneTwice' /\ NoneLost'
<1> DEFINE r == Back(urls)
<1>0. HttpTyped /\ NoneTwice /\ NoneLost BY DEF Pooled
<1>1. /\ urls' \in Seq(Requests) /\ r \in Requests /\ Queued(r)
      /\ \A i, j \in 1 .. Len(urls') : urls'[i] = urls'[j] => i = j
      /\ \A q \in Requests : Queued(q)' <=> Queued(q) /\ q # r
  BY <1>0, DequeueFacts
<1>2. r # None /\ VerbOf[r] \in HttpVerbs BY <1>1, HttpAssumption
<1>3. job \in [Handles -> Requests \cup {None}] /\ handle \in [Handles -> HttpSettings]
  BY <1>0 DEF HttpTyped, HttpTypeOK
<1>4. Configured(handle[h], VerbOf[r]) \in HttpSettings BY <1>2, <1>3, ConfiguredType
<1> HIDE DEF r
<1>5. \/ /\ handle' = [handle EXCEPT ![h] = Configured(handle[h], VerbOf[r])]
         /\ job' = [job EXCEPT ![h] = r] /\ pc' = next /\ ~deferred
      \/ /\ handle' = [handle EXCEPT ![h] = Configured(handle[h], VerbOf[r])]
         /\ job' = job /\ pc' = next /\ deferred
      \/ handle' = handle /\ job' = job /\ pc' = "raised"
  BY DEF AddFreeHandle, AddEasy, r
<1>6. /\ pc' \in {next, "raised"}
      /\ job' \in [Handles -> Requests \cup {None}] /\ handle' \in [Handles -> HttpSettings]
      /\ \A g \in Handles \ {h} : job'[g] = job[g] /\ handle'[g] = handle[g]
      /\ job'[h] \in {None, r}
      /\ Going' => job'[h] = r
      /\ job'[h] # None => handle'[h] = Configured(handle[h], VerbOf[r])
      /\ deferred => job' = job
  <2>1. CASE /\ handle' = [handle EXCEPT ![h] = Configured(handle[h], VerbOf[r])]
             /\ job' = [job EXCEPT ![h] = r] /\ pc' = next /\ ~deferred
    BY <1>1, <1>3, <1>4, <2>1
  <2>2. CASE /\ handle' = [handle EXCEPT ![h] = Configured(handle[h], VerbOf[r])]
             /\ job' = job /\ pc' = next /\ deferred
    BY <1>3, <1>4, <2>2 DEF Going
  <2>3. CASE handle' = handle /\ job' = job /\ pc' = "raised"
    BY <1>3, <2>3 DEF Going
  <2> QED BY <1>5, <2>1, <2>2, <2>3
<1>7. \A q \in Requests : Carried(q)' => Carried(q) \/ (q = r /\ job'[h] = r)
  BY <1>2, <1>6 DEF Carried
<1>8. \A q \in Requests : q # r /\ Carried(q) => Carried(q)'
  BY <1>6, HttpAssumption DEF Carried
<1>9. ~Carried(r) /\ sent[r] = <<>> BY <1>0, <1>1 DEF NoneTwice
<1>10. \A f, g \in Handles : job'[f] # None /\ job'[f] = job'[g] => f = g
  <2> SUFFICES ASSUME NEW f \in Handles, NEW g \in Handles, job'[f] # None, job'[f] = job'[g]
               PROVE  f = g
    OBVIOUS
  <2>1. CASE f # h /\ g # h BY <1>0, <1>6, <2>1 DEF NoneTwice
  <2>2. CASE f = h /\ g # h BY <1>6, <1>9, <2>2 DEF Carried
  <2>3. CASE f # h /\ g = h BY <1>6, <1>9, <2>3 DEF Carried
  <2> QED BY <2>1, <2>2, <2>3
<1>11. NoneTwice'
  <2>1. \A q \in Requests : Queued(q)' => ~Carried(q)' /\ sent'[q] = <<>>
    BY <1>0, <1>1, <1>7 DEF NoneTwice
  <2>2. \A q \in Requests : Carried(q)' => sent'[q] = <<>> BY <1>0, <1>7, <1>9 DEF NoneTwice
  <2>3. \A q \in Requests : Len(sent'[q]) <= 1 BY <1>0 DEF NoneTwice
  <2> QED BY <1>1, <1>10, <2>1, <2>2, <2>3 DEF NoneTwice
<1>12. NoneLost'
  <2> SUFFICES ASSUME Going', NEW q \in Requests
               PROVE  Queued(q)' \/ Carried(q)' \/ Len(sent[q]) = 1
    BY DEF NoneLost
  <2>1. Going BY DEF Going
  <2>2. CASE q = r BY <1>6, <2>2 DEF Carried
  <2>3. CASE q # r BY <1>0, <1>1, <1>8, <2>1, <2>3 DEF NoneLost
  <2> QED BY <2>2, <2>3
<1> QED BY <1>6, <1>11, <1>12 DEF r

\* max_connects.times: the new handle was never in use.
LEMMA FillPooled ==
  ASSUME Pooled, Fill
  PROVE  Pooled'
<1>0. HttpTyped /\ NoneTwice /\ PoolFits /\ HttpStages /\ FreeOnce BY DEF Pooled
<1>1. /\ pc = "fill" /\ made < MaxConnects /\ urls # <<>> /\ urls' = Front(urls)
      /\ made' = made + 1 /\ AddFreeHandle(made + 1, Back(urls), "fill")
      /\ UNCHANGED <<free, deferred, served, sent>>
  BY DEF Fill
<1>2. /\ urls' \in Seq(Requests) /\ Len(urls) \in Nat \ {0} /\ Len(urls') = Len(urls) - 1
  BY <1>0, <1>1, DequeueFacts
<1>3. PICK h : h = made + 1 OBVIOUS
<1>4. made \in 0 .. MaxConnects /\ MaxConnects \in Nat \ {0}
  BY <1>0, HttpAssumption DEF HttpTyped, HttpTypeOK
<1>5. h \in Handles /\ h > made BY <1>0, <1>2, <1>3, <1>4, CountType DEF PoolFits, Handles
<1>6. job[h] = None BY <1>0, <1>3, <1>4, <1>5, CountType DEF PoolFits, Handles
<1>7. /\ pc' \in {"fill", "raised"}
      /\ job' \in [Handles -> Requests \cup {None}] /\ handle' \in [Handles -> HttpSettings]
      /\ \A g \in Handles \ {h} : job'[g] = job[g] /\ handle'[g] = handle[g]
      /\ job'[h] \in {None, Back(urls)} /\ (Going' => job'[h] = Back(urls))
      /\ NoneTwice' /\ NoneLost'
  BY <1>1, <1>3, <1>5, <1>6, TakeFacts
<1>8. Back(urls) # None BY <1>0, <1>1, DequeueFacts, HttpAssumption
<1>9. HttpTyped'
  <2>1. made' \in 0 .. MaxConnects BY <1>1, <1>4
  <2>2. free' \in Seq(Handles) /\ deferred' \in BOOLEAN /\ served' \in [Handles -> SUBSET HttpVerbs]
        /\ sent' \in [Requests -> Seq([verb : HttpVerbs, before : SUBSET HttpVerbs])]
    BY <1>0, <1>1 DEF HttpTyped, HttpTypeOK
  <2> QED BY <1>2, <1>7, <2>1, <2>2 DEF HttpTyped, HttpTypeOK
<1>10. PoolFits'
  <2>1. made' + Len(urls') <= Cardinality(Requests) BY <1>0, <1>1, <1>2, <1>4, CountType DEF PoolFits
  <2>2. \A g \in Handles : job'[g] # None => g <= made'
    BY <1>0, <1>1, <1>3, <1>4, <1>7, CountType DEF PoolFits, Handles
  <2>3. \A i \in 1 .. Len(free) : free[i] \in Handles
    BY <1>0, ElementOfSeq DEF HttpTyped, HttpTypeOK
  <2>4. \A i \in 1 .. Len(free') : free'[i] <= made'
    BY <1>0, <1>1, <1>4, <2>3, CountType DEF PoolFits, Handles
  <2>5. made' > 0 BY <1>1, <1>4
  <2>6. ASSUME Going', NEW g \in Handles, g <= made' PROVE job'[g] # None \/ Listed(g)'
    <3>1. CASE g = h BY <1>7, <1>8, <2>6, <3>1
    <3>2. CASE g # h
      <4>1. g <= made BY <1>1, <1>3, <1>4, <2>6, <3>2, CountType DEF Handles
      <4>2. Going BY <1>1, <2>6 DEF Going
      <4> QED BY <1>0, <1>1, <1>7, <3>2, <4>1, <4>2 DEF PoolFits, Listed
    <3> QED BY <3>1, <3>2
  <2> QED BY <2>1, <2>2, <2>4, <2>5, <2>6 DEF PoolFits
<1>11. FreeOnce'
  <2>1. \A i \in 1 .. Len(free) : free[i] \in Handles
    BY <1>0, ElementOfSeq DEF HttpTyped, HttpTypeOK
  <2>2. \A i \in 1 .. Len(free) : free[i] # h
    BY <1>0, <1>4, <1>5, <2>1, CountType DEF PoolFits, Handles
  <2> QED BY <1>0, <1>1, <1>7, <2>1, <2>2 DEF FreeOnce
<1>12. HttpStages' BY <1>0, <1>1, <1>7 DEF HttpStages
<1> QED BY <1>7, <1>9, <1>10, <1>11, <1>12 DEF Pooled

\* consume_free_handles: what it leaves for the three places that call it.
LEMMA ConsumePooled ==
  ASSUME Pooled, NEW next \in {"run", "idle", "consume", "returned"},
         pc \in {"block", "idle", "consume"}, ConsumeFreeHandles(next),
         UNCHANGED <<made, deferred, served, sent>>
  PROVE  /\ pc' \in {next, "raised"}
         /\ HttpTyped' /\ PoolFits' /\ NoneTwice' /\ NoneLost' /\ FreeOnce'
         /\ deferred => job' = job
         /\ Going' /\ urls # <<>> /\ free # <<>> => InFlight' # {}
         /\ urls = <<>> \/ free = <<>> => UNCHANGED <<urls, job>>
<1>0. HttpTyped /\ NoneTwice /\ NoneLost /\ PoolFits /\ HttpStages /\ FreeOnce BY DEF Pooled
<1>1. CASE urls # <<>> /\ free # <<>>
  <2>1. /\ urls' = Front(urls) /\ free' = Front(free)
        /\ AddFreeHandle(Back(free), Back(urls), next)
    BY <1>1 DEF ConsumeFreeHandles
  <2>2. PICK h : h = Back(free) OBVIOUS
  <2>3. /\ free' \in Seq(Handles) /\ h \in Handles /\ job[h] = None /\ Listed(h)
        /\ \A i \in 1 .. Len(free') : i \in 1 .. Len(free) /\ free'[i] = free[i]
        /\ \A i, j \in 1 .. Len(free') : free'[i] = free'[j] => i = j
        /\ \A g \in Handles : Listed(g)' <=> Listed(g) /\ g # h
    BY <1>0, <1>1, <2>1, <2>2, UnlistFacts
  <2>4. /\ urls' \in Seq(Requests) /\ Len(urls) \in Nat \ {0} /\ Len(urls') = Len(urls) - 1
    BY <1>0, <1>1, <2>1, DequeueFacts
  <2>5. /\ pc' \in {next, "raised"}
        /\ job' \in [Handles -> Requests \cup {None}] /\ handle' \in [Handles -> HttpSettings]
        /\ \A g \in Handles \ {h} : job'[g] = job[g] /\ handle'[g] = handle[g]
        /\ job'[h] \in {None, Back(urls)} /\ (Going' => job'[h] = Back(urls))
        /\ deferred => job' = job
        /\ NoneTwice' /\ NoneLost'
    BY <1>1, <2>1, <2>2, <2>3, TakeFacts
  <2>6. Back(urls) # None BY <1>0, <1>1, <2>1, DequeueFacts, HttpAssumption
  <2>7. HttpTyped' BY <1>0, <2>3, <2>4, <2>5 DEF HttpTyped, HttpTypeOK
  <2>8. h <= made BY <1>0, <2>3 DEF PoolFits, Listed
  <2>9. made \in Nat BY <1>0, HttpAssumption DEF HttpTyped, HttpTypeOK
  <2>10. PoolFits'
    <3>1. made' + Len(urls') <= Cardinality(Requests) BY <1>0, <2>4, <2>9, CountType DEF PoolFits
    <3>2. \A g \in Handles : job'[g] # None => g <= made' BY <1>0, <2>5, <2>8 DEF PoolFits
    <3>3. \A i \in 1 .. Len(free') : free'[i] <= made' BY <1>0, <2>3 DEF PoolFits
    <3>4. made' > 0 BY <1>0, <1>1 DEF PoolFits
    <3>5. ASSUME Going', NEW g \in Handles, g <= made' PROVE job'[g] # None \/ Listed(g)'
      <4>1. CASE g = h BY <2>5, <2>6, <3>5, <4>1
      <4>2. CASE g # h
        <5>1. Going BY <3>5 DEF Going
        <5>2. job[g] # None \/ Listed(g) BY <1>0, <3>5, <5>1 DEF PoolFits
        <5> QED BY <2>3, <2>5, <4>2, <5>2
      <4> QED BY <4>1, <4>2
    <3> QED BY <3>1, <3>2, <3>3, <3>4, <3>5 DEF PoolFits
  <2>11. FreeOnce'
    <3>1. \A i \in 1 .. Len(free') : free'[i] \in Handles BY <2>3, ElementOfSeq
    <3>2. ASSUME NEW i \in 1 .. Len(free') PROVE job'[free'[i]] = None
      <4>1. PICK g : g = free'[i] OBVIOUS
      <4>2. g \in Handles /\ Listed(g)' BY <3>1, <4>1 DEF Listed
      <4>3. free'[i] # h BY <2>3, <4>1, <4>2
      <4>4. job[free'[i]] = None BY <1>0, <2>3 DEF FreeOnce
      <4> QED BY <2>5, <3>1, <4>3, <4>4
    <3> QED BY <2>3, <3>2 DEF FreeOnce
  <2>12. Going' => InFlight' # {} BY <2>3, <2>5, <2>6 DEF InFlight
  <2> QED BY <1>1, <2>5, <2>7, <2>10, <2>11, <2>12
<1>2. CASE urls = <<>> \/ free = <<>>
  <2>1. UNCHANGED <<urls, free, handle, job>> /\ pc' = next
    BY <1>2 DEF ConsumeFreeHandles
  <2>2. Going' <=> Going BY <2>1 DEF Going
  <2>3. /\ \A r : Queued(r)' <=> Queued(r)
        /\ \A r : Carried(r)' <=> Carried(r)
        /\ \A h : Listed(h)' <=> Listed(h)
    BY <2>1 DEF Queued, Carried, Listed
  <2>4. HttpTyped' BY <1>0, <2>1 DEF HttpTyped, HttpTypeOK
  <2>5. PoolFits' BY <1>0, <2>1, <2>2, <2>3 DEF PoolFits
  <2>6. NoneTwice' BY <1>0, <2>1, <2>3 DEF NoneTwice
  <2>7. NoneLost' BY <1>0, <2>1, <2>2, <2>3 DEF NoneLost
  <2>8. FreeOnce' BY <1>0, <2>1 DEF FreeOnce
  <2> QED BY <1>2, <2>1, <2>4, <2>5, <2>6, <2>7, <2>8
<1> QED BY <1>1, <1>2

\* on_complete: the request moves from the handle to what was sent, and the
\* handle to the free ones.
LEMMA CompletePooled ==
  ASSUME Pooled, NEW h \in Handles, Complete(h)
  PROVE  Pooled'
<1>0. HttpTyped /\ NoneTwice /\ NoneLost /\ PoolFits /\ HttpStages /\ FreeOnce BY DEF Pooled
<1>1. PICK r : r = job[h] OBVIOUS
<1>2. PICK how : how = [verb |-> SentVerb(handle[h]), before |-> served[h]] OBVIOUS
<1>3. /\ pc = "run" /\ r # None /\ sent' = [sent EXCEPT ![r] = Append(@, how)]
      /\ served' = [served EXCEPT ![h] = @ \cup {VerbOf[r]}]
      /\ handle' = [handle EXCEPT ![h] = Cleaned(@)]
      /\ job' = [job EXCEPT ![h] = None] /\ free' = Append(free, h)
      /\ deferred' \in {deferred, TRUE} /\ UNCHANGED <<pc, urls, made>>
  BY <1>1, <1>2 DEF Complete, Freed
<1>4. /\ job \in [Handles -> Requests \cup {None}] /\ handle \in [Handles -> HttpSettings]
      /\ free \in Seq(Handles) /\ urls \in Seq(Requests) /\ deferred \in BOOLEAN
      /\ served \in [Handles -> SUBSET HttpVerbs]
      /\ sent \in [Requests -> Seq([verb : HttpVerbs, before : SUBSET HttpVerbs])]
  BY <1>0 DEF HttpTyped, HttpTypeOK
<1>5. r \in Requests /\ VerbOf[r] \in HttpVerbs BY <1>1, <1>3, <1>4, HttpAssumption
<1>6. how \in [verb : HttpVerbs, before : SUBSET HttpVerbs] BY <1>2, <1>4, CleanedType
<1>7. HttpTyped'
  <2>1. sent' \in [Requests -> Seq([verb : HttpVerbs, before : SUBSET HttpVerbs])]
    <3> DEFINE R == [verb : HttpVerbs, before : SUBSET HttpVerbs]
    <3> HIDE DEF R
    <3>1. sent \in [Requests -> Seq(R)] /\ how \in R BY <1>4, <1>6 DEF R
    <3>2. sent' \in [Requests -> Seq(R)] BY <1>3, <1>5, <3>1
    <3> QED BY <3>2 DEF R
  <2>2. free' \in Seq(Handles) BY <1>3, <1>4
  <2>3. served' \in [Handles -> SUBSET HttpVerbs] BY <1>3, <1>4, <1>5
  <2>4. handle' \in [Handles -> HttpSettings] BY <1>3, <1>4, CleanedType
  <2>5. job' \in [Handles -> Requests \cup {None}] /\ deferred' \in BOOLEAN BY <1>3, <1>4
  <2>6. pc' \in {"fill", "run", "block", "idle", "consume", "returned", "raised"}
        /\ urls' \in Seq(Requests) /\ made' \in 0 .. MaxConnects
    BY <1>0, <1>3 DEF HttpTyped, HttpTypeOK
  <2> QED BY <2>1, <2>2, <2>3, <2>4, <2>5, <2>6 DEF HttpTyped, HttpTypeOK
<1>8. /\ Len(free) \in Nat /\ Len(free') = Len(free) + 1 /\ free'[Len(free) + 1] = h
      /\ \A i \in 1 .. Len(free) : free'[i] = free[i] /\ free[i] \in Handles
  BY <1>3, <1>4
<1>9. \A i \in 1 .. Len(free') : (i \in 1 .. Len(free) /\ free'[i] = free[i])
                                 \/ (i = Len(free) + 1 /\ free'[i] = h)
  BY <1>8
<1>10. \A g \in Handles : Listed(g) \/ g = h => Listed(g)'
  <2>1. Len(free) + 1 \in 1 .. Len(free') BY <1>8
  <2>2. Listed(h)' BY <1>8, <2>1 DEF Listed
  <2>3. \A g \in Handles : Listed(g) => Listed(g)'
    <3> SUFFICES ASSUME NEW g \in Handles, Listed(g) PROVE Listed(g)' OBVIOUS
    <3>1. PICK i \in 1 .. Len(free) : free[i] = g BY DEF Listed
    <3>2. i \in 1 .. Len(free') /\ free'[i] = g BY <1>8, <3>1
    <3> QED BY <3>2 DEF Listed
  <2> QED BY <2>2, <2>3
<1>11. Going' => Going BY <1>3, <1>4 DEF Going
<1>12. PoolFits'
  <2>1. h <= made BY <1>0, <1>1, <1>3 DEF PoolFits
  <2>2. \A i \in 1 .. Len(free') : free'[i] <= made' BY <1>0, <1>3, <1>9, <2>1 DEF PoolFits
  <2>3. \A g \in Handles : job'[g] # None => g <= made' BY <1>0, <1>3, <1>4 DEF PoolFits
  <2>4. ASSUME Going', NEW g \in Handles, g <= made' PROVE job'[g] # None \/ Listed(g)'
    BY <1>0, <1>3, <1>4, <1>10, <1>11, <2>4 DEF PoolFits
  <2> QED BY <1>0, <1>3, <2>2, <2>3, <2>4 DEF PoolFits
<1>13. Carried(r) /\ sent[r] = <<>> /\ ~Queued(r)
  BY <1>0, <1>1, <1>5 DEF Carried, NoneTwice
<1>14. \A q \in Requests : Queued(q)' <=> Queued(q) BY <1>3 DEF Queued
<1>15. \A q \in Requests : Carried(q)' <=> Carried(q) /\ q # r
  <2> SUFFICES ASSUME NEW q \in Requests PROVE Carried(q)' <=> Carried(q) /\ q # r OBVIOUS
  <2>1. ASSUME Carried(q)' PROVE Carried(q) /\ q # r
    <3>1. PICK g \in Handles : job'[g] = q BY <2>1 DEF Carried
    <3>2. g # h /\ job[g] = q BY <1>3, <1>4, <3>1, HttpAssumption
    <3> QED BY <1>0, <1>1, <1>3, <3>2 DEF Carried, NoneTwice
  <2>2. ASSUME Carried(q), q # r PROVE Carried(q)'
    BY <1>1, <1>3, <1>4, <2>2 DEF Carried
  <2> QED BY <2>1, <2>2
<1>16. /\ Len(sent'[r]) = 1
       /\ \A q \in Requests \ {r} : sent'[q] = sent[q]
  <2>1. sent'[r] = Append(<<>>, how) BY <1>3, <1>4, <1>5, <1>13
  <2>2. Len(Append(<<>>, how)) = 1
    <3>1. <<>> \in Seq({how}) /\ how \in {how} OBVIOUS
    <3> HIDE <1>2
    <3> QED BY <3>1
  <2>3. \A q \in Requests \ {r} : sent'[q] = sent[q] BY <1>3, <1>4
  <2> QED BY <2>1, <2>2, <2>3
<1>17. NoneTwice'
  <2>1. \A i, j \in 1 .. Len(urls') : urls'[i] = urls'[j] => i = j BY <1>0, <1>3 DEF NoneTwice
  <2>2. \A f, g \in Handles : job'[f] # None /\ job'[f] = job'[g] => f = g
    BY <1>0, <1>3, <1>4 DEF NoneTwice
  <2>3. \A q \in Requests : Queued(q)' => ~Carried(q)' /\ sent'[q] = <<>>
    BY <1>0, <1>13, <1>14, <1>15, <1>16 DEF NoneTwice
  <2>4. \A q \in Requests : Carried(q)' => sent'[q] = <<>>
    BY <1>0, <1>15, <1>16 DEF NoneTwice
  <2>5. \A q \in Requests : Len(sent'[q]) <= 1
    <3> SUFFICES ASSUME NEW q \in Requests PROVE Len(sent'[q]) <= 1 OBVIOUS
    <3>1. CASE q = r
      <4>1. Len(sent'[q]) = 1 BY <1>16, <3>1, Zenon
      <4> QED BY <4>1
    <3>2. CASE q # r BY <1>0, <1>16, <3>2 DEF NoneTwice
    <3> QED BY <3>1, <3>2
  <2> QED BY <2>1, <2>2, <2>3, <2>4, <2>5 DEF NoneTwice
<1>18. NoneLost'
  <2> SUFFICES ASSUME Going', NEW q \in Requests
               PROVE  Queued(q)' \/ Carried(q)' \/ Len(sent'[q]) = 1
    BY DEF NoneLost
  <2>1. Queued(q) \/ Carried(q) \/ Len(sent[q]) = 1 BY <1>0, <1>11 DEF NoneLost
  <2> QED BY <1>14, <1>15, <1>16, <2>1
<1>19. FreeOnce'
  <2>1. ~Listed(h) BY <1>0, <1>1, <1>3 DEF FreeOnce, Listed
  <2>2. \A i \in 1 .. Len(free) : free[i] # h BY <2>1 DEF Listed
  <2>3. \A i, j \in 1 .. Len(free') : free'[i] = free'[j] => i = j
    BY <1>0, <1>9, <2>2 DEF FreeOnce
  <2>4. \A i \in 1 .. Len(free') : job'[free'[i]] = None
    BY <1>0, <1>3, <1>4, <1>8, <1>9 DEF FreeOnce
  <2> QED BY <2>3, <2>4 DEF FreeOnce
<1>20. HttpStages'
  <2>1. pc' = "run" BY <1>3
  <2> QED BY <2>1 DEF HttpStages
<1> QED BY <1>7, <1>12, <1>17, <1>18, <1>19, <1>20 DEF Pooled

\* A step of the loop that touches no request and no handle.
LEMMA MovesPooled ==
  ASSUME Pooled, pc \in {"fill", "run"}, pc' \in {"run", "block", "raised"},
         UNCHANGED <<urls, free, made, handle, job, deferred, served, sent>>,
         made > 0 \/ urls = <<>>, HttpStages'
  PROVE  Pooled'
<1>0. HttpTyped /\ NoneTwice /\ NoneLost /\ PoolFits /\ FreeOnce BY DEF Pooled
<1>1. Going' => Going BY DEF Going
<1>2. /\ \A r : Queued(r)' <=> Queued(r)
      /\ \A r : Carried(r)' <=> Carried(r)
      /\ \A h : Listed(h)' <=> Listed(h)
  BY DEF Queued, Carried, Listed
<1>3. HttpTyped' BY <1>0 DEF HttpTyped, HttpTypeOK
<1>4. PoolFits' BY <1>0, <1>1, <1>2 DEF PoolFits
<1>5. NoneTwice' BY <1>0, <1>2 DEF NoneTwice
<1>6. NoneLost' BY <1>0, <1>1, <1>2 DEF NoneLost
<1>7. FreeOnce' BY <1>0 DEF FreeOnce
<1> QED BY <1>3, <1>4, <1>5, <1>6, <1>7 DEF Pooled

\* With nothing in flight and no free handle, there is no handle at all, and
\* then there was no request.
LEMMA IdleIsDone ==
  ASSUME Pooled, ~deferred, pc \in {"idle", "consume"}, InFlight = {}, free = <<>>
  PROVE  urls = <<>>
<1>1. HttpTyped /\ PoolFits BY DEF Pooled
<1>2. SUFFICES ASSUME urls # <<>> PROVE FALSE OBVIOUS
<1>3. made > 0 /\ made \in Nat BY <1>1, <1>2, HttpAssumption DEF PoolFits, HttpTyped, HttpTypeOK
<1>4. urls \in Seq(Requests) BY <1>1 DEF HttpTyped, HttpTypeOK
<1>5. Len(urls) \in Nat BY <1>4
<1>6. 1 \in Handles /\ 1 <= made BY <1>1, <1>3, <1>5, CountType DEF PoolFits, Handles
<1>7. job[1] # None \/ Listed(1) BY <1>1, <1>6 DEF PoolFits, Going
<1> QED BY <1>6, <1>7 DEF Listed, InFlight

\* The injection of the positions into the requests has all requests.
LEMMA InitPooled == HttpInit => Pooled
<1> SUFFICES ASSUME HttpInit PROVE Pooled OBVIOUS
<1>1. PICK n \in Nat : n = Cardinality(Requests) BY CountType
<1>2. Handles = 1 .. n BY <1>1 DEF Handles
<1>3. urls \in [1 .. n -> Requests] /\ \A i, j \in 1 .. n : urls[i] = urls[j] => i = j
  BY <1>2 DEF HttpInit
<1>4. urls \in Injection(1 .. n, Requests) BY <1>3 DEF Injection, IsInjective
<1>5. IsFiniteSet(1 .. n) /\ Cardinality(1 .. n) = n BY FS_Interval
<1>6. urls \in Surjection(1 .. n, Requests) BY <1>1, <1>4, <1>5, FS_Injection, HttpAssumption
<1>7. urls \in Seq(Requests) /\ Len(urls) = n BY <1>3
<1>8. \A r \in Requests : Queued(r) BY <1>6, <1>7 DEF Queued, Surjection
<1>9. /\ pc = "fill" /\ free = <<>> /\ made = 0 /\ deferred = FALSE
      /\ \A h \in Handles : job[h] = None
      /\ \A r \in Requests : sent[r] = <<>>
  BY DEF HttpInit
<1>10. Len(free) = 0 /\ \A r \in Requests : Len(sent[r]) = 0 BY <1>9
<1>11. HttpTyped
  <2>1. handle \in [Handles -> HttpSettings] BY DEF HttpInit, FreshRequest, HttpSettings
  <2>2. made \in 0 .. MaxConnects BY <1>9, HttpAssumption
  <2>3. /\ job \in [Handles -> Requests \cup {None}] /\ served \in [Handles -> SUBSET HttpVerbs]
        /\ sent \in [Requests -> Seq([verb : HttpVerbs, before : SUBSET HttpVerbs])]
        /\ free \in Seq(Handles)
    BY DEF HttpInit
  <2> QED BY <1>7, <1>9, <2>1, <2>2, <2>3 DEF HttpTyped, HttpTypeOK
<1>12. PoolFits BY <1>1, <1>2, <1>7, <1>9, <1>10 DEF PoolFits
<1>13. \A r \in Requests : ~Carried(r) BY <1>9, HttpAssumption DEF Carried
<1>14. NoneTwice BY <1>3, <1>7, <1>9, <1>10, <1>13 DEF NoneTwice
<1>15. NoneLost BY <1>8 DEF NoneLost
<1>16. FreeOnce BY <1>10 DEF FreeOnce
<1>17. HttpStages BY <1>9 DEF HttpStages
<1> QED BY <1>11, <1>12, <1>14, <1>15, <1>16, <1>17 DEF Pooled

\* Every step accounts for all requests and handles.
LEMMA PooledStep ==
  ASSUME Pooled, [HttpNext]_httpVars
  PROVE  Pooled'
<1>0. HttpTyped /\ PoolFits /\ HttpStages BY DEF Pooled
<1>1. CASE Fill BY <1>1, FillPooled
<1>2. CASE StartPerform
  <2>1. /\ pc = "fill" /\ (made = MaxConnects \/ urls = <<>>) /\ pc' = "run"
        /\ UNCHANGED <<urls, free, made, handle, job, deferred, served, sent>>
    BY <1>2 DEF StartPerform
  <2>2. made > 0 \/ urls = <<>> BY <2>1, HttpAssumption
  <2>3. HttpStages' BY <2>1 DEF HttpStages
  <2> QED BY <2>1, <2>2, <2>3, MovesPooled
<1>3. CASE PassEnds
  <2>1. /\ pc = "run" /\ pc' = (IF deferred /\ InFlight = {} THEN "raised" ELSE "block")
        /\ UNCHANGED <<urls, free, made, handle, job, deferred, served, sent>>
    BY <1>3 DEF PassEnds
  <2>2. made > 0 \/ urls = <<>> BY <1>0, <2>1 DEF PoolFits
  <2>3. HttpStages' BY <2>1 DEF HttpStages, InFlight
  <2>4. pc' \in {"block", "raised"} BY <2>1
  <2> QED BY <2>1, <2>2, <2>3, <2>4, MovesPooled
<1>4. CASE Block
  <2>1. PICK next : next = IF InFlight' # {} THEN "run" ELSE "idle" OBVIOUS
  <2>2. pc = "block" /\ ConsumeFreeHandles(next) /\ UNCHANGED <<made, deferred, served, sent>>
    BY <1>4, <2>1 DEF Block
  <2>3. next \in {"run", "idle"} BY <2>1
  <2>4. /\ pc' \in {next, "raised"} /\ (deferred => job' = job)
        /\ HttpTyped' /\ PoolFits' /\ NoneTwice' /\ NoneLost' /\ FreeOnce'
    BY <2>2, <2>3, ConsumePooled
  <2>5. deferred => InFlight' # {} BY <1>0, <2>2, <2>4 DEF HttpStages, InFlight
  <2>6. HttpStages' BY <2>1, <2>2, <2>4, <2>5 DEF HttpStages
  <2> QED BY <2>4, <2>6 DEF Pooled
<1>5. CASE IdleBlock
  <2>1. PICK next : next = IF InFlight' # {} THEN "run" ELSE "consume" OBVIOUS
  <2>2. pc = "idle" /\ ConsumeFreeHandles(next) /\ UNCHANGED <<made, deferred, served, sent>>
    BY <1>5, <2>1 DEF IdleBlock
  <2>3. next \in {"run", "consume"} BY <2>1
  <2>4. /\ pc' \in {next, "raised"}
        /\ HttpTyped' /\ PoolFits' /\ NoneTwice' /\ NoneLost' /\ FreeOnce'
        /\ Going' /\ urls # <<>> /\ free # <<>> => InFlight' # {}
        /\ urls = <<>> \/ free = <<>> => UNCHANGED <<urls, job>>
    BY <2>2, <2>3, ConsumePooled
  <2>5. ~deferred /\ InFlight = {} BY <1>0, <2>2 DEF HttpStages
  <2>6. pc' = "consume" => InFlight' = {} /\ urls' = <<>>
    BY <2>1, <2>2, <2>4, <2>5, IdleIsDone DEF Going
  <2>7. HttpStages' BY <2>1, <2>2, <2>4, <2>5, <2>6 DEF HttpStages
  <2> QED BY <2>4, <2>7 DEF Pooled
<1>6. CASE ConsumeAfter
  <2>1. PICK next : next = IF urls' = <<>> THEN "returned" ELSE "run" OBVIOUS
  <2>2. pc = "consume" /\ ConsumeFreeHandles(next) /\ UNCHANGED <<made, deferred, served, sent>>
    BY <1>6, <2>1 DEF ConsumeAfter
  <2>3. next \in {"run", "returned"} BY <2>1
  <2>4. /\ pc' \in {next, "raised"}
        /\ HttpTyped' /\ PoolFits' /\ NoneTwice' /\ NoneLost' /\ FreeOnce'
        /\ urls = <<>> \/ free = <<>> => UNCHANGED <<urls, job>>
    BY <2>2, <2>3, ConsumePooled
  <2>5. ~deferred /\ InFlight = {} /\ urls = <<>> BY <1>0, <2>2 DEF HttpStages
  <2>6. InFlight' = {} /\ urls' = <<>> BY <2>4, <2>5 DEF InFlight
  <2>7. HttpStages' BY <2>1, <2>2, <2>4, <2>5, <2>6 DEF HttpStages
  <2> QED BY <2>4, <2>7 DEF Pooled
<1>7. ASSUME NEW h \in Handles, Complete(h) PROVE Pooled' BY <1>7, CompletePooled
<1>8. CASE UNCHANGED httpVars
  <2>1. UNCHANGED <<pc, urls, free, made, handle, job, deferred, served, sent>>
    BY <1>8 DEF httpVars
  <2>2. HttpTyped' BY <1>0, <2>1 DEF HttpTyped, HttpTypeOK
  <2>3. PoolFits' BY <1>0, <2>1 DEF PoolFits, Listed, Going
  <2>4. NoneTwice' BY <2>1 DEF Pooled, NoneTwice, Queued, Carried
  <2>5. NoneLost' BY <2>1 DEF Pooled, NoneLost, Queued, Carried, Going
  <2>6. FreeOnce' BY <2>1 DEF Pooled, FreeOnce
  <2>7. HttpStages' BY <1>0, <2>1 DEF HttpStages, InFlight
  <2> QED BY <2>2, <2>3, <2>4, <2>5, <2>6, <2>7 DEF Pooled
<1> QED BY <1>1, <1>2, <1>3, <1>4, <1>5, <1>6, <1>7, <1>8 DEF HttpNext, Step, Ended

\* The invariant of the pool.
LEMMA PooledAlways == HttpSpec => []Pooled
BY InitPooled, PooledStep, PTL DEF HttpSpec

\* When Curl::Multi.http returns, every request has been sent exactly once, and
\* no handle is ever listed as free twice or while it is in use, for any order
\* in which the transfers complete (add_free_handle, consume_free_handles).
THEOREM PoolSound == HttpSpec => []PoolIsSound
<1>1. Pooled => PoolIsSound
  <2> SUFFICES ASSUME Pooled PROVE PoolIsSound OBVIOUS
  <2>0. HttpTyped /\ NoneTwice /\ NoneLost /\ FreeOnce /\ HttpStages BY DEF Pooled
  <2>1. HttpTypeOK BY <2>0 DEF HttpTyped
  <2>2. AllSentOnce
    <3> SUFFICES ASSUME pc = "returned", NEW r \in Requests PROVE Len(sent[r]) = 1
      BY DEF AllSentOnce
    <3>1. ~deferred /\ InFlight = {} /\ urls = <<>> BY <2>0 DEF HttpStages
    <3>2. ~Queued(r) BY <3>1 DEF Queued
    <3>3. ~Carried(r) BY <3>1, HttpAssumption DEF Carried, InFlight
    <3> QED BY <2>0, <3>1, <3>2, <3>3 DEF NoneLost, Going
  <2>3. DOMAIN free = 1 .. Len(free) BY <2>1 DEF HttpTypeOK
  <2>4. PoolDisjoint BY <2>0, <2>3 DEF FreeOnce, PoolDisjoint
  <2> QED BY <2>1, <2>2, <2>4 DEF PoolIsSound
<1> QED BY <1>1, PooledAlways, PTL

\* What a callback raised is not lost: a perform that goes on while it waits has
\* transfers in flight, so it comes to the raise before it is idle, and the loop
\* cannot return by way of the requests that add has ignored.
THEOREM FailuresRaised == HttpSpec => []FailureIsRaised
<1>1. Pooled => FailureIsRaised BY DEF Pooled, HttpStages, FailureIsRaised
<1> QED BY <1>1, PooledAlways, PTL

-----------------------------------------------------------------------------
\* A handle that has served no HEAD and no DELETE is fit for the next request
\* when it is free, and for its own when it is in use.
Plain(r, before) ==
  /\ r.custom = None /\ r.nobody = FALSE /\ r.method \in {"GET", "POST"}
  /\ r.method = "POST" => "POST" \in before

Fits(r, before, verb) ==
  CASE verb = "GET" -> Plain(r, before)
    [] verb \in {"POST", "PUT"} -> r.custom = None /\ r.nobody = FALSE /\ r.method = verb
    [] OTHER -> SentVerb(r) = verb

HandlesFit ==
  \A h \in Handles : served[h] \cap {"HEAD", "DELETE"} = {} =>
    /\ Listed(h) \/ h > made => Plain(handle[h], served[h])
    /\ job[h] # None => Fits(handle[h], served[h], VerbOf[job[h]])

Asked == HandlesFit /\ VerbAsAsked

\* add_free_handle makes a plain handle fit for the verb of a request.
LEMMA ConfiguredFits ==
  ASSUME NEW s \in HttpSettings, NEW before \in SUBSET HttpVerbs, NEW verb \in HttpVerbs, Plain(s, before)
  PROVE  Fits(Configured(s, verb), before, verb)
<1>1. CASE verb = "GET" BY <1>1 DEF Configured, Fits
<1>2. CASE verb = "POST"
  BY <1>2 DEF Configured, Fits, Plain, HttpSettings, SetPostFields, SetPost
<1>3. CASE verb = "PUT"
  BY <1>3 DEF Configured, Fits, Plain, HttpSettings, SetPostFields, SetPost, SetUpload, SetNobody
<1>4. CASE verb = "HEAD"
  BY <1>4 DEF Configured, Fits, Plain, HttpSettings, SetNobody, SentVerb
<1>5. CASE verb = "DELETE"
  BY <1>5, HttpAssumption DEF Configured, Fits, HttpSettings, SetCustom, SentVerb, HttpVerbs
<1> QED BY <1>1, <1>2, <1>3, <1>4, <1>5 DEF HttpVerbs

\* A fit handle sends the verb, and is plain after the cleanup unless the
\* request was a HEAD or a DELETE.
LEMMA FitsSends ==
  ASSUME NEW s \in HttpSettings, NEW before \in SUBSET HttpVerbs, NEW verb \in HttpVerbs,
         Fits(s, before, verb)
  PROVE  /\ SentVerb(s) = verb \/ (verb = "GET" /\ "POST" \in before)
         /\ verb \notin {"HEAD", "DELETE"} => Plain(Cleaned(s), before \cup {verb})
<1>1. CASE verb = "GET" BY <1>1 DEF Fits, Plain, SentVerb, Cleaned, HttpSettings
<1>2. CASE verb = "POST" BY <1>2 DEF Fits, Plain, SentVerb, Cleaned, HttpSettings
<1>3. CASE verb = "PUT" BY <1>3 DEF Fits, Plain, SentVerb, Cleaned, SetUpload, HttpSettings
<1>4. CASE verb \in {"HEAD", "DELETE"} BY <1>4 DEF Fits
<1> QED BY <1>1, <1>2, <1>3, <1>4 DEF HttpVerbs

\* Giving a plain handle to a request.
LEMMA TakeAsked ==
  ASSUME Pooled, Asked, NEW h \in Handles,
         served[h] \cap {"HEAD", "DELETE"} = {} => Plain(handle[h], served[h]),
         \A g \in Handles \ {h} : job'[g] = job[g] /\ handle'[g] = handle[g]
                                  /\ (Listed(g)' \/ g > made' => Listed(g) \/ g > made),
         Back(urls) \in Requests, job'[h] \in {None, Back(urls)},
         job'[h] # None => handle'[h] = Configured(handle[h], VerbOf[Back(urls)]),
         ~Listed(h)', h <= made', made' \in Nat, UNCHANGED <<served, sent>>
  PROVE  Asked'
<1>0. HttpTyped /\ HandlesFit /\ VerbAsAsked BY DEF Pooled, Asked
<1>1. /\ handle \in [Handles -> HttpSettings] /\ served \in [Handles -> SUBSET HttpVerbs]
      /\ VerbOf[Back(urls)] \in HttpVerbs
  BY <1>0, HttpAssumption DEF HttpTyped, HttpTypeOK
<1>2. VerbAsAsked' BY <1>0 DEF VerbAsAsked
<1>3. ASSUME NEW g \in Handles, served[g] \cap {"HEAD", "DELETE"} = {}, g # h
      PROVE  /\ Listed(g)' \/ g > made' => Plain(handle'[g], served[g])
             /\ job'[g] # None => Fits(handle'[g], served[g], VerbOf[job'[g]])
  BY <1>0, <1>3 DEF HandlesFit
<1>4. ASSUME served[h] \cap {"HEAD", "DELETE"} = {}, job'[h] # None
      PROVE  Fits(handle'[h], served[h], VerbOf[job'[h]])
  BY <1>1, <1>4, ConfiguredFits
<1>5. ~(h > made') BY CountType DEF Handles
<1> QED BY <1>2, <1>3, <1>4, <1>5 DEF Asked, HandlesFit

\* A new handle is configured for its first request.
LEMMA FillAsked ==
  ASSUME Pooled, Asked, Fill
  PROVE  Asked'
<1>0. HttpTyped /\ NoneTwice /\ PoolFits /\ FreeOnce BY DEF Pooled
<1>1. /\ pc = "fill" /\ made < MaxConnects /\ urls # <<>> /\ urls' = Front(urls)
      /\ made' = made + 1 /\ AddFreeHandle(made + 1, Back(urls), "fill")
      /\ UNCHANGED <<free, deferred, served, sent>>
  BY DEF Fill
<1>2. Len(urls) \in Nat \ {0} /\ Back(urls) \in Requests BY <1>0, <1>1, DequeueFacts
<1>3. PICK h : h = made + 1 OBVIOUS
<1>4. made \in Nat BY <1>0, HttpAssumption DEF HttpTyped, HttpTypeOK
<1>5. h \in Handles /\ h > made BY <1>0, <1>2, <1>3, <1>4, CountType DEF PoolFits, Handles
<1>6. job[h] = None BY <1>0, <1>3, <1>4, <1>5, CountType DEF PoolFits, Handles
<1>7. /\ \A g \in Handles \ {h} : job'[g] = job[g] /\ handle'[g] = handle[g]
      /\ job'[h] \in {None, Back(urls)}
      /\ job'[h] # None => handle'[h] = Configured(handle[h], VerbOf[Back(urls)])
  BY <1>1, <1>3, <1>5, <1>6, TakeFacts
<1>8. \A g : Listed(g)' <=> Listed(g) BY <1>1 DEF Listed
<1>9. ~Listed(h)'
  <2>1. \A i \in 1 .. Len(free) : free[i] <= made BY <1>0 DEF PoolFits
  <2>2. ~(h <= made) BY <1>3, <1>4
  <2>3. ~Listed(h) BY <2>1, <2>2 DEF Listed
  <2> QED BY <1>8, <2>3, Zenon
<1>10. \A g \in Handles : g > made' => g > made BY <1>1, <1>4, CountType DEF Handles
<1>11. served[h] \cap {"HEAD", "DELETE"} = {} => Plain(handle[h], served[h])
  BY <1>5 DEF Asked, HandlesFit
<1>12. h <= made' /\ made' \in Nat BY <1>1, <1>3, <1>4
<1> QED BY <1>1, <1>2, <1>5, <1>7, <1>8, <1>9, <1>10, <1>11, <1>12, TakeAsked

\* A free handle is configured for its next request.
LEMMA ConsumeAsked ==
  ASSUME Pooled, Asked, NEW next \in {"run", "idle", "consume", "returned"},
         pc \in {"block", "idle", "consume"}, ConsumeFreeHandles(next),
         UNCHANGED <<made, deferred, served, sent>>
  PROVE  Asked'
<1>0. HttpTyped /\ NoneTwice /\ PoolFits /\ FreeOnce BY DEF Pooled
<1>1. CASE urls # <<>> /\ free # <<>>
  <2>1. /\ urls' = Front(urls) /\ free' = Front(free)
        /\ AddFreeHandle(Back(free), Back(urls), next)
    BY <1>1 DEF ConsumeFreeHandles
  <2>2. PICK h : h = Back(free) OBVIOUS
  <2>3. /\ h \in Handles /\ job[h] = None /\ Listed(h)
        /\ \A g \in Handles : Listed(g)' <=> Listed(g) /\ g # h
    BY <1>0, <1>1, <2>1, <2>2, UnlistFacts
  <2>4. Back(urls) \in Requests BY <1>0, <1>1, <2>1, DequeueFacts
  <2>5. /\ \A g \in Handles \ {h} : job'[g] = job[g] /\ handle'[g] = handle[g]
        /\ job'[h] \in {None, Back(urls)}
        /\ job'[h] # None => handle'[h] = Configured(handle[h], VerbOf[Back(urls)])
    BY <1>1, <2>1, <2>2, <2>3, TakeFacts
  <2>6. h <= made' /\ made' \in Nat BY <1>0, <2>3, HttpAssumption DEF PoolFits, Listed, HttpTyped, HttpTypeOK
  <2>7. served[h] \cap {"HEAD", "DELETE"} = {} => Plain(handle[h], served[h])
    BY <2>3 DEF Asked, HandlesFit
  <2>8. \A g \in Handles \ {h} : Listed(g)' \/ g > made' => Listed(g) \/ g > made BY <2>3
  <2> QED BY <2>3, <2>4, <2>5, <2>6, <2>7, <2>8, TakeAsked
<1>2. CASE urls = <<>> \/ free = <<>>
  <2>1. UNCHANGED <<urls, free, handle, job>> BY <1>2 DEF ConsumeFreeHandles
  <2> QED BY <2>1 DEF Asked, HandlesFit, VerbAsAsked, Listed
<1> QED BY <1>1, <1>2

\* A transfer ends, and its handle is cleaned up.
LEMMA CompleteAsked ==
  ASSUME Pooled, Asked, NEW h \in Handles, Complete(h)
  PROVE  Asked'
<1>0. HttpTyped /\ NoneTwice /\ PoolFits /\ FreeOnce /\ HandlesFit /\ VerbAsAsked
  BY DEF Pooled, Asked
<1>1. PICK r : r = job[h] OBVIOUS
<1>2. PICK how : how = [verb |-> SentVerb(handle[h]), before |-> served[h]] OBVIOUS
<1>3. /\ r # None /\ sent' = [sent EXCEPT ![r] = Append(@, how)]
      /\ served' = [served EXCEPT ![h] = @ \cup {VerbOf[r]}]
      /\ handle' = [handle EXCEPT ![h] = Cleaned(@)]
      /\ job' = [job EXCEPT ![h] = None] /\ free' = Append(free, h)
      /\ UNCHANGED made
  BY <1>1, <1>2 DEF Complete, Freed
<1>4. /\ job \in [Handles -> Requests \cup {None}] /\ handle \in [Handles -> HttpSettings]
      /\ free \in Seq(Handles) /\ served \in [Handles -> SUBSET HttpVerbs]
      /\ sent \in [Requests -> Seq([verb : HttpVerbs, before : SUBSET HttpVerbs])]
  BY <1>0 DEF HttpTyped, HttpTypeOK
<1>5. r \in Requests /\ VerbOf[r] \in HttpVerbs BY <1>1, <1>3, <1>4, HttpAssumption
<1>6. served[h] \cap {"HEAD", "DELETE"} = {} => Fits(handle[h], served[h], VerbOf[r])
  BY <1>0, <1>1, <1>3 DEF HandlesFit
<1>7. \A g \in Handles : Listed(g)' => Listed(g) \/ g = h
  <2>1. \A i \in 1 .. Len(free') : (i \in 1 .. Len(free) /\ free'[i] = free[i]) \/ free'[i] = h
    BY <1>3, <1>4
  <2> QED BY <2>1 DEF Listed
<1>8. ASSUME NEW g \in Handles, served'[g] \cap {"HEAD", "DELETE"} = {}
      PROVE  /\ Listed(g)' \/ g > made' => Plain(handle'[g], served'[g])
             /\ job'[g] # None => Fits(handle'[g], served'[g], VerbOf[job'[g]])
  <2>1. CASE g # h
    <3>1. served'[g] = served[g] /\ handle'[g] = handle[g] /\ job'[g] = job[g]
      BY <1>3, <1>4, <2>1
    <3> QED BY <1>0, <1>3, <1>7, <1>8, <2>1, <3>1 DEF HandlesFit
  <2>2. CASE g = h
    <3>1. served'[h] = served[h] \cup {VerbOf[r]} /\ handle'[h] = Cleaned(handle[h]) /\ job'[h] = None
      BY <1>3, <1>4
    <3>2. served[h] \cap {"HEAD", "DELETE"} = {} /\ VerbOf[r] \notin {"HEAD", "DELETE"}
      BY <1>8, <2>2, <3>1
    <3>3. Plain(Cleaned(handle[h]), served[h] \cup {VerbOf[r]})
      BY <1>4, <1>5, <1>6, <3>2, FitsSends
    <3> QED BY <2>2, <3>1, <3>3
  <2> QED BY <2>1, <2>2
<1>9. HandlesFit' BY <1>8 DEF HandlesFit
<1>10. \/ how.before \cap {"HEAD", "DELETE"} # {}
       \/ VerbOf[r] = "GET" /\ "POST" \in how.before
       \/ how.verb = VerbOf[r]
  <2>1. how.before = served[h] /\ how.verb = SentVerb(handle[h]) BY <1>2
  <2> QED BY <1>4, <1>5, <1>6, <2>1, FitsSends
<1>11. VerbAsAsked'
  <2> SUFFICES ASSUME NEW q \in Requests, NEW i \in DOMAIN sent'[q]
               PROVE  \/ sent'[q][i].before \cap {"HEAD", "DELETE"} # {}
                      \/ VerbOf[q] = "GET" /\ "POST" \in sent'[q][i].before
                      \/ sent'[q][i].verb = VerbOf[q]
    BY DEF VerbAsAsked
  <2>1. CASE q # r
    <3>1. sent'[q] = sent[q] BY <1>3, <1>4, <2>1
    <3> QED BY <1>0, <3>1 DEF VerbAsAsked
  <2>2. CASE q = r
    <3>1. sent[r] = <<>> BY <1>0, <1>1, <1>5 DEF NoneTwice, Carried
    <3>2. sent'[r] = Append(<<>>, how) BY <1>3, <1>4, <1>5, <3>1
    <3>3. \A j \in DOMAIN Append(<<>>, how) : Append(<<>>, how)[j] = how
      <4>1. <<>> \in Seq({how}) /\ how \in {how} OBVIOUS
      <4>2. Append(<<>>, how) = <<how>> OBVIOUS
      <4> QED BY <4>2
    <3>4. sent'[q][i] = how BY <2>2, <3>2, <3>3
    <3> QED BY <1>10, <2>2, <3>4
  <2> QED BY <2>1, <2>2
<1> QED BY <1>9, <1>11 DEF Asked

\* Every step keeps what a handle may have of earlier requests.
LEMMA AskedStep ==
  ASSUME Pooled, Asked, [HttpNext]_httpVars
  PROVE  Asked'
<1>1. CASE Fill BY <1>1, FillAsked
<1>2. ASSUME UNCHANGED <<free, made, handle, job, served, sent>> PROVE Asked'
  BY <1>2 DEF Asked, HandlesFit, VerbAsAsked, Listed
<1>3. CASE StartPerform \/ PassEnds \/ UNCHANGED httpVars
  BY <1>2, <1>3 DEF StartPerform, PassEnds, httpVars
<1>4. CASE Block
  <2>1. PICK next : next = IF InFlight' # {} THEN "run" ELSE "idle" OBVIOUS
  <2>2. pc = "block" /\ ConsumeFreeHandles(next) /\ UNCHANGED <<made, deferred, served, sent>>
    BY <1>4, <2>1 DEF Block
  <2> QED BY <2>1, <2>2, ConsumeAsked
<1>5. CASE IdleBlock
  <2>1. PICK next : next = IF InFlight' # {} THEN "run" ELSE "consume" OBVIOUS
  <2>2. pc = "idle" /\ ConsumeFreeHandles(next) /\ UNCHANGED <<made, deferred, served, sent>>
    BY <1>5, <2>1 DEF IdleBlock
  <2> QED BY <2>1, <2>2, ConsumeAsked
<1>6. CASE ConsumeAfter
  <2>1. PICK next : next = IF urls' = <<>> THEN "returned" ELSE "run" OBVIOUS
  <2>2. pc = "consume" /\ ConsumeFreeHandles(next) /\ UNCHANGED <<made, deferred, served, sent>>
    BY <1>6, <2>1 DEF ConsumeAfter
  <2> QED BY <2>1, <2>2, ConsumeAsked
<1>7. ASSUME NEW h \in Handles, Complete(h) PROVE Asked' BY <1>7, CompleteAsked
<1> QED BY <1>1, <1>3, <1>4, <1>5, <1>6, <1>7 DEF HttpNext, Step, Ended

\* A request goes out with its own verb whatever its handle served before, with
\* the exemptions that VerbAsAsked names (the case over :method in
\* add_free_handle, the cleanup after an upload).
THEOREM VerbsAsAsked == HttpSpec => []VerbAsAsked
<1>1. HttpInit => Asked
  <2> SUFFICES ASSUME HttpInit PROVE Asked OBVIOUS
  <2>1. VerbAsAsked BY DEF HttpInit, VerbAsAsked
  <2>2. \A h \in Handles : handle[h] = FreshRequest /\ job[h] = None BY DEF HttpInit
  <2>3. \A h \in Handles : Plain(handle[h], served[h]) BY <2>2 DEF Plain, FreshRequest
  <2> QED BY <2>1, <2>2, <2>3 DEF Asked, HandlesFit
<1>2. Pooled /\ Asked /\ [HttpNext]_httpVars => Asked' BY AskedStep
<1>3. Asked => VerbAsAsked BY DEF Asked
<1> QED BY <1>1, <1>2, <1>3, PooledAlways, PTL DEF HttpSpec
==============================================================================
