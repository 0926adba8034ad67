--------------------------- MODULE LibcurlRequest ---------------------------
(***************************************************************************)
(* The part of a CURL handle that decides which request it sends, as the   *)
(* options that curb sets change it: CURLOPT_CUSTOMREQUEST, NOBODY,        *)
(* HTTPGET, POST, POSTFIELDS, HTTPPOST and UPLOAD all write one method.    *)
(***************************************************************************)
CONSTANT None

Methods == {"GET", "HEAD", "POST", "FORM", "PUT"}

FreshRequest == [method |-> "GET", nobody |-> FALSE, custom |-> None, fields |-> None]

SetCustom(r, verb) == [r EXCEPT !.custom = verb]

SetNobody(r, on) ==
  [r EXCEPT !.nobody = on,
            !.method = IF on THEN "HEAD" ELSE IF @ = "HEAD" THEN "GET" ELSE @]

SetHttpGet(r) == [r EXCEPT !.method = "GET", !.nobody = FALSE]

SetPost(r, on) ==
  IF on THEN [r EXCEPT !.method = "POST", !.nobody = FALSE] ELSE [r EXCEPT !.method = "GET"]

\* Setting the fields, to NULL as well, makes the request a POST.
SetPostFields(r, body) == [r EXCEPT !.fields = body, !.method = "POST"]

\* Setting the form, to NULL as well, makes the request a form POST.
SetHttpPost(r) == [r EXCEPT !.method = "FORM", !.nobody = FALSE]

SetUpload(r, on) ==
  IF on THEN [r EXCEPT !.method = "PUT", !.nobody = FALSE] ELSE [r EXCEPT !.method = "GET"]

\* The verb on the request line.
SentVerb(r) ==
  IF r.custom # None THEN r.custom
  ELSE IF r.nobody THEN "HEAD"
  ELSE IF r.method = "FORM" THEN "POST" ELSE r.method
==============================================================================
