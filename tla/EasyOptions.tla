----------------------------- MODULE EasyOptions -----------------------------
(***************************************************************************)
(* The options of Curl::Easy: from the setters of the Ruby object and from *)
(* setopt, through setup, to the libcurl handle that runs the transfer, on *)
(* a handle that is reused, cloned, reset and closed.                      *)
(*                                                                         *)
(* Source: ext/curb_easy.c, ext/curb_macros.h.  An option has the same     *)
(* name in the Ruby object and in libcurl; Nil is the value of a new       *)
(* object and the default of libcurl, the others stand for any value.      *)
(* The program sets options between transfers (one set within a transfer   *)
(* waits for the next setup), and handlers at any time.  The build has the *)
(* optional CURLOPT_ constants and HAVE_CURL_CONFIG_CA.                    *)
(***************************************************************************)
EXTENDS Naturals, FiniteSets

CONSTANTS
  Easies,
  First,     \* the easy that exists at first; the others are clones
  Values,    \* what an option can be set to
  CloneValues, \* bound: those that a program which clones uses
  Focus,     \* bound: sets of options; a program sets the options of one, and
             \* clones if "clone" is in it
  MaxCalls,  \* bound: calls of setters, setopt, clone, reset and close
  Nil

ASSUME OptionsAssumption ==
  /\ IsFiniteSet(Easies) /\ First \in Easies /\ MaxCalls \in Nat
  /\ CloneValues \subseteq Values /\ {"on", "off", "none"} \cap Values = {}
  /\ Nil \notin Values \cup Easies \cup {"public", "own", "stale"}

-----------------------------------------------------------------------------
\* The attributes, by the part of the source that has their setters.

RequestAttrs == {"url", "proxy_url", "headers", "proxy_headers", "interface_hm",
                 "userpwd", "proxypwd", "cookies", "cookiefile", "cookiejar"}
CertAttrs == {"cert", "cert_key", "cacert", "certpassword", "certtype"}
CodingAttrs == {"encoding", "useragent"}
RouteAttrs == {"ftp_commands", "resolve", "connect_to", "doh_url", "dns_servers"}
AllowAttrs == {"allow_unix_socket", "allow_proxy"}
PortAttrs == {"local_port", "local_port_range", "proxy_port"}
AuthAttrs == {"proxy_type", "http_auth_types", "proxy_auth_types"}
TimeoutAttrs == {"max_redirs", "timeout_ms", "connect_timeout", "connect_timeout_ms"}
RateAttrs == {"dns_cache_timeout", "ftp_response_timeout", "low_speed_limit", "low_speed_time",
              "max_send_speed_large", "max_recv_speed_large"}
UserAttrs == {"username", "password"}
SslAttrs == {"ssl_version", "use_ssl", "ftp_filemethod"}
FlagAttrs == {"proxy_tunnel", "fetch_file_time", "ssl_verify_peer", "ssl_verify_host",
              "header_in_body", "use_netrc"}
MoreFlagAttrs == {"follow_location", "unrestricted_auth", "verbose", "enable_cookies",
                  "ignore_content_length"}
ModeAttrs == {"resolve_mode"}
VersionAttrs == {"unix_socket_path", "http_version", "forbid_reuse"}
Procs == {"body_proc", "header_proc", "progress_proc", "debug_proc"}
SetoptAttrs == {"noproxy"}
\* The lists, in the order in which setup builds them.
ListOrder == <<"headers", "proxy_headers", "ftp_commands", "resolve", "connect_to">>
Lists == {ListOrder[i] : i \in DOMAIN ListOrder}

Attrs == RequestAttrs \cup CertAttrs \cup CodingAttrs \cup RouteAttrs \cup AllowAttrs
         \cup PortAttrs \cup AuthAttrs \cup TimeoutAttrs \cup RateAttrs \cup UserAttrs
         \cup SslAttrs \cup FlagAttrs \cup MoreFlagAttrs \cup ModeAttrs \cup VersionAttrs
         \cup SetoptAttrs \cup Procs \cup {"policy"}

\* setopt gives these to libcurl and keeps nothing: the FTP switches, range,
\* failonerror, keepalive, protocols and their like; autoreferer= does too.
Direct == {"range", "autoreferer"}
\* setopt gives these to libcurl alone as well, but setup sets them too.
DirectAndPushed == {"header_in_body", "max_send_speed_large", "max_recv_speed_large"}
\* setopt stores these and gives them to libcurl.
Both == {"http_version", "doh_url", "dns_servers", "ftp_response_timeout", "ftp_filemethod",
         "forbid_reuse", "unix_socket_path"}
BothLists == {"resolve", "connect_to"}

Opts == (Attrs \ (Lists \cup AllowAttrs \cup Procs \cup {"policy"})) \cup Direct
        \cup {"connect", "user", "pass", "proxy", "fresh_connect", "engine",
              "write", "header", "noprogress"}

\* What libcurl was told to pass to the callbacks of a transfer.
DataOpts == {"writedata", "headerdata", "xferinfodata", "debugdata", "opensocketdata",
             "prereqdata", "readdata", "private"}

VARIABLES
  alive,     \* the easies that exist
  ruby,      \* ruby[e]: the fields and opts of the Ruby object
  upload,    \* opts["upload"]
  curl,      \* curl[e]: the options of the libcurl handle
  native,    \* native[e][l]: the curl_slist that curb holds, Nil for NULL
  slist,     \* slist[e][l]: what the libcurl handle holds of it: its "own"
             \* list, a "stale" one of somebody else, or Nil
  data,      \* data[e][d]: the easy that d points to, or Nil
  running,   \* the easies whose transfer is running
  asked,     \* asked[e]: what the program last asked for, by any way
  focus, calls

vars == <<alive, ruby, upload, curl, native, slist, data, running, asked, focus, calls>>

Blank(names) == [n \in names |-> Nil]
Given == Attrs \cup Direct

Init ==
  /\ alive = {First} /\ running = {}
  /\ ruby = [e \in Easies |-> Blank(Attrs)] /\ asked = [e \in Easies |-> Blank(Given)]
  /\ upload = [e \in Easies |-> FALSE]
  /\ curl = [e \in Easies |-> Blank(Opts)]
  /\ native = [e \in Easies |-> Blank(Lists)] /\ slist = [e \in Easies |-> Blank(Lists)]
  /\ data = [e \in Easies |-> [Blank(DataOpts) EXCEPT !["private"] = e]]
  /\ focus \in Focus /\ calls = 0

-----------------------------------------------------------------------------
\* Setup.  Each section takes the Ruby attributes r and the options c of the
\* libcurl handle and gives the options after it.

\* Options that are set every time, to the default where r has none.
Pushed(r, c, os) == [o \in DOMAIN c |-> IF o \in os THEN r[o] ELSE c[o]]
\* Options that are set only where r has a value.
PushedIfSet(r, c, os) == [o \in DOMAIN c |-> IF o \in os /\ r[o] # Nil THEN r[o] ELSE c[o]]

Public(r) == r.policy = "public"
DisablesProxy(r) == Public(r) /\ r.allow_proxy = Nil

\* Mutant: what the policy forced stays when the policy is gone.
SetupPolicyForgets(r, c) ==
  [Pushed(r, c, {"url", "doh_url", "dns_servers"}) EXCEPT
     !["fresh_connect"] = IF Public(r) THEN "on" ELSE @,
     !["forbid_reuse"] = IF Public(r) THEN "on" ELSE @,
     !["unix_socket_path"] = IF Public(r) /\ r.allow_unix_socket = Nil THEN Nil ELSE @]

SetupPolicy(r, c) ==
  [Pushed(r, c, {"url", "doh_url", "dns_servers"}) EXCEPT
     !["fresh_connect"] = IF Public(r) THEN "on" ELSE Nil,
     !["forbid_reuse"] = IF Public(r) THEN "on" ELSE r.forbid_reuse,
     !["unix_socket_path"] = IF Public(r) /\ r.allow_unix_socket = Nil THEN Nil ELSE @]

\* CURLOPT_USERPWD sets the user and the password of the handle.
SetupCredentials(r, c) ==
  LET named == [c EXCEPT !["interface_hm"] = r.interface_hm,
                         !["user"] = r.username, !["pass"] = r.password]
  IN IF r.userpwd # Nil THEN [named EXCEPT !["user"] = r.userpwd, !["pass"] = r.userpwd]
     ELSE IF r.username = Nil /\ r.password = Nil
     THEN [named EXCEPT !["user"] = Nil, !["pass"] = Nil]
     ELSE named

SetupProxy(r, c) ==
  [c EXCEPT !["noproxy"] = r.noproxy,
            !["proxy"] = IF DisablesProxy(r) THEN "none" ELSE r.proxy_url,
            !["proxypwd"] = IF DisablesProxy(r) THEN Nil ELSE r.proxypwd,
            !["proxy_tunnel"] = IF DisablesProxy(r) THEN Nil ELSE r.proxy_tunnel]

SetupHandlers(r, c) ==
  [PushedIfSet(r, c, {"encoding"}) EXCEPT
     !["write"] = IF r.body_proc # Nil THEN "proc" ELSE "default",
     !["header"] = IF r.header_proc # Nil THEN "proc" ELSE "default",
     !["noprogress"] = IF r.progress_proc # Nil THEN "off" ELSE "on",
     !["verbose"] = IF r.debug_proc # Nil THEN "on" ELSE r.verbose]

\* CURLOPT_CONNECTTIMEOUT and CURLOPT_CONNECTTIMEOUT_MS set one field of the
\* handle, the one after the other.
SetupGeneral(r, c) ==
  [Pushed(r, c, {"header_in_body", "follow_location", "max_redirs", "fetch_file_time",
                 "ssl_verify_peer", "ssl_verify_host", "use_netrc", "unrestricted_auth",
                 "timeout_ms", "dns_cache_timeout", "ignore_content_length", "resolve_mode",
                 "http_version", "ftp_response_timeout", "low_speed_limit",
                 "low_speed_time", "max_recv_speed_large", "max_send_speed_large"})
   EXCEPT !["connect"] = r.connect_timeout_ms]

SetupPorts(r, c) ==
  LET ports == {"proxy_port", "local_port"}
               \cup (IF r.local_port # Nil THEN {"local_port_range"} ELSE {})
  IN Pushed(r, PushedIfSet(r, c, ports \cup {"http_auth_types", "proxy_auth_types"}),
            {"proxy_type"})

\* The engine, once on, stays on.
SetupCookies(r, c) ==
  LET enabled == r.enable_cookies # Nil
      files == IF enabled THEN {"cookiejar", "cookiefile"} ELSE {}
  IN [PushedIfSet(r, c, {"cookies", "cookiejar"} \cap (files \cup {"cookies"})) EXCEPT
        !["engine"] = IF enabled THEN "on" ELSE @,
        !["cookiefile"] = IF enabled THEN r.cookiefile ELSE @]

SetupCert(r, c) ==
  LET certOpts == IF r.cert # Nil THEN {"cert", "certtype", "certpassword", "cert_key"} ELSE {}
  IN Pushed(r, PushedIfSet(r, c, certOpts \cup SslAttrs \cup {"useragent"}), {"cacert"})

SetupOptions(r, c) ==
  SetupCert(r, SetupCookies(r, SetupPorts(r, SetupGeneral(r,
    SetupHandlers(r, SetupProxy(r, SetupCredentials(r, SetupPolicy(r, c))))))))

\* ruby_curl_easy_clear_*_list: a list that curb holds is taken back from
\* libcurl and freed.
Cleared(e) == [l \in Lists |-> IF native[e][l] # Nil THEN Nil ELSE slist[e][l]]

\* The lists in libcurl after setup: cleared, the headers in any case, and
\* built again from the Ruby attributes.
Built(e) ==
  [l \in Lists |-> IF ruby[e][l] # Nil THEN "own"
                   ELSE IF l \in {"headers", "proxy_headers"} THEN Nil
                   ELSE Cleared(e)[l]]

\* Setup stops at the list n: those before it are built, of n itself curb
\* holds the elements so far (or none), and libcurl none of them.
BuiltUpTo(e, n) ==
  [l \in Lists |-> IF \E i \in 1..(n - 1) : ListOrder[i] = l THEN Built(e)[l]
                   ELSE IF ListOrder[n] = l /\ n <= 2 THEN Nil
                   ELSE Cleared(e)[l]]
HeldUpTo(e, n) ==
  {[l \in Lists |-> IF \E i \in 1..(n - 1) : ListOrder[i] = l THEN ruby[e][l]
                    ELSE IF ListOrder[n] = l THEN some ELSE Nil] : some \in {ruby[e][ListOrder[n]], Nil}}

SetupData(e) ==
  [d \in DataOpts |->
     CASE d \in {"writedata", "headerdata", "xferinfodata", "debugdata"} -> e
       [] d = "opensocketdata" -> IF Public(ruby[e]) THEN e ELSE Nil
       [] d = "prereqdata" -> Nil
       [] OTHER -> data[e][d]]

\* ruby_curl_easy_setup, and the transfer starts.
Start(e) ==
  /\ e \in alive \ running
  /\ ruby[e].url # Nil
  /\ ~(Public(ruby[e]) /\ ruby[e].dns_servers # Nil)
  /\ running' = running \cup {e}
  /\ curl' = [curl EXCEPT ![e] = SetupOptions(ruby[e], @)]
  /\ native' = [native EXCEPT ![e] = [l \in Lists |-> ruby[e][l]]]
  /\ slist' = [slist EXCEPT ![e] = Built(e)]
  /\ data' = [data EXCEPT ![e] = SetupData(e)]
  /\ UNCHANGED <<alive, ruby, upload, asked, focus, calls>>

\* Setup raises: the policy and the name servers disagree, or an element of
\* a list cannot be made a string.  What was set before stays.
SetupRaises(e) ==
  /\ e \in alive \ running /\ ruby[e].url # Nil
  /\ \/ /\ Public(ruby[e]) /\ ruby[e].dns_servers # Nil
        /\ curl' = [curl EXCEPT ![e] = Pushed(ruby[e], @, {"url", "doh_url"})]
        /\ UNCHANGED <<native, slist, data>>
     \/ /\ ~(Public(ruby[e]) /\ ruby[e].dns_servers # Nil)
        /\ \E n \in DOMAIN ListOrder :
             /\ ruby[e][ListOrder[n]] # Nil
             /\ curl' = [curl EXCEPT ![e] = SetupOptions(ruby[e], @)]
             /\ data' = [data EXCEPT ![e] = SetupData(e)]
             /\ \E held \in HeldUpTo(e, n) : native' = [native EXCEPT ![e] = held]
             /\ slist' = [slist EXCEPT ![e] = BuiltUpTo(e, n)]
  /\ UNCHANGED <<alive, ruby, upload, running, asked, focus, calls>>

\* ruby_curl_easy_cleanup when the transfer is over.
CleanedData(e) ==
  [d \in DataOpts |-> IF d = "readdata" /\ upload[e] THEN Nil ELSE data[e][d]]

Finish(e) ==
  /\ e \in running /\ running' = running \ {e}
  /\ slist' = [slist EXCEPT ![e] = Cleared(e)]
  /\ native' = [native EXCEPT ![e] = Blank(Lists)]
  /\ data' = [data EXCEPT ![e] = CleanedData(e)]
  /\ upload' = [upload EXCEPT ![e] = FALSE]
  /\ UNCHANGED <<alive, ruby, curl, asked, focus, calls>>

-----------------------------------------------------------------------------
\* The calls of the program.

Calls == calls < MaxCalls /\ calls' = calls + 1 /\ UNCHANGED focus

\* A setter of the attribute a (CURB_OBJECT_HSETTER, CURB_IMMED_SETTER,
\* CURB_BOOLEAN_SETTER, CURB_IMMED_PORT_SETTER, ...).
Set(e, a, v) ==
  /\ Calls /\ e \in alive \ running /\ a \in focus \cap (Attrs \ (Procs \cup {"policy"}))
  /\ ruby' = [ruby EXCEPT ![e][a] = v]
  /\ asked' = [asked EXCEPT ![e][a] = v]
  /\ UNCHANGED <<alive, upload, curl, native, slist, data, running>>

\* easy.network_policy = :none or :public takes the permission of a proxy back.
SetPolicy(e, p) ==
  /\ Calls /\ e \in alive \ running /\ "policy" \in focus
  /\ ruby' = [ruby EXCEPT ![e]["policy"] = p, ![e]["allow_proxy"] = Nil]
  /\ asked' = [asked EXCEPT ![e]["policy"] = p, ![e]["allow_proxy"] = Nil]
  /\ UNCHANGED <<alive, upload, curl, native, slist, data, running>>

\* easy.network_policy = nil does not.
DropPolicy(e) ==
  /\ Calls /\ e \in alive \ running /\ "policy" \in focus
  /\ ruby' = [ruby EXCEPT ![e]["policy"] = Nil]
  /\ asked' = [asked EXCEPT ![e]["policy"] = Nil]
  /\ UNCHANGED <<alive, upload, curl, native, slist, data, running>>

\* on_body, on_header, on_progress and on_debug, within a transfer too.
SetProc(e, p, v) ==
  /\ Calls /\ e \in alive /\ p \in focus \cap Procs
  /\ ruby' = [ruby EXCEPT ![e][p] = v]
  /\ asked' = [asked EXCEPT ![e][p] = v]
  /\ UNCHANGED <<alive, upload, curl, native, slist, data, running>>

\* Easy#setopt and autoreferer=, for the options that go to libcurl at once.
Setopt(e, o, v) ==
  /\ Calls /\ e \in alive \ running /\ o \in focus \cap (Direct \cup DirectAndPushed \cup Both)
  /\ curl' = [curl EXCEPT ![e][o] = v]
  /\ ruby' = IF o \in Both THEN [ruby EXCEPT ![e][o] = v] ELSE ruby
  /\ asked' = [asked EXCEPT ![e][o] = v]
  /\ UNCHANGED <<alive, upload, native, slist, data, running>>

\* Easy#setopt for resolve and connect_to.
SetoptList(e, l, v) ==
  /\ Calls /\ e \in alive \ running /\ l \in focus \cap BothLists
  /\ ruby' = [ruby EXCEPT ![e][l] = v] /\ asked' = [asked EXCEPT ![e][l] = v]
  /\ native' = [native EXCEPT ![e][l] = v]
  /\ slist' = [slist EXCEPT ![e][l] = IF v = Nil THEN Nil ELSE "own"]
  /\ UNCHANGED <<alive, upload, curl, data, running>>

\* put_data=, as far as the handle keeps a pointer to the easy.
PutData(e) ==
  /\ Calls /\ e \in alive \ running /\ "upload" \in focus
  /\ upload' = [upload EXCEPT ![e] = TRUE]
  /\ data' = [data EXCEPT ![e]["readdata"] = e]
  /\ UNCHANGED <<alive, ruby, curl, native, slist, running, asked>>

\* The pointers of the duplicate: curl_easy_duphandle copies them, the clone
\* takes over private and, where there is an upload, the reader.
ClonedData(e, c) ==
  [d \in DataOpts |-> IF d = "private" \/ (d = "readdata" /\ upload[e]) THEN c
                      ELSE data[e][d]]

\* Mutant: the clone has no lists of its own.
ClonedNothing(e) == Blank(Lists)

\* duplicate_curl_slist.
ClonedLists(e) == native[e]

\* Easy#clone: the duplicate still points to the lists of the original.
Clone(e, c) ==
  /\ Calls /\ e \in alive /\ c \in Easies \ alive /\ "clone" \in focus
  /\ alive' = alive \cup {c}
  /\ ruby' = [ruby EXCEPT ![c] = ruby[e]] /\ asked' = [asked EXCEPT ![c] = asked[e]]
  /\ upload' = [upload EXCEPT ![c] = upload[e]]
  /\ curl' = [curl EXCEPT ![c] = curl[e]]
  /\ native' = [native EXCEPT ![c] = ClonedLists(e)]
  /\ slist' = [slist EXCEPT ![c] = [l \in Lists |-> IF slist[e][l] = Nil THEN Nil ELSE "stale"]]
  /\ data' = [data EXCEPT ![c] = ClonedData(e, c)]
  /\ UNCHANGED running

Zeroed(e) ==
  /\ ruby' = [ruby EXCEPT ![e] = Blank(Attrs)] /\ asked' = [asked EXCEPT ![e] = Blank(Given)]
  /\ upload' = [upload EXCEPT ![e] = FALSE] /\ native' = [native EXCEPT ![e] = Blank(Lists)]
  /\ slist' = [slist EXCEPT ![e] = Blank(Lists)]
  /\ data' = [data EXCEPT ![e] = [Blank(DataOpts) EXCEPT !["private"] = e]]
  /\ UNCHANGED <<alive, running>>

\* Easy#reset: curl_easy_reset leaves the cookies and the engine.
Reset(e) ==
  /\ Calls /\ e \in alive \ running
  /\ curl' = [curl EXCEPT ![e] = [Blank(Opts) EXCEPT !["engine"] = curl[e]["engine"]]]
  /\ Zeroed(e)

\* Easy#close: a new libcurl handle.
Close(e) ==
  /\ Calls /\ e \in alive \ running
  /\ curl' = [curl EXCEPT ![e] = Blank(Opts)]
  /\ Zeroed(e)

Next ==
  \E e \in Easies :
    \/ Start(e) \/ SetupRaises(e) \/ Finish(e) \/ PutData(e) \/ Reset(e) \/ Close(e)
    \/ \E v \in (IF "clone" \in focus THEN CloneValues ELSE Values) \cup {Nil} :
         \/ \E a \in Attrs : Set(e, a, v)
         \/ \E p \in Procs : SetProc(e, p, v)
         \/ \E o \in Opts : Setopt(e, o, v)
         \/ \E l \in Lists : SetoptList(e, l, v)
    \/ (\E p \in {Nil, "public"} : SetPolicy(e, p)) \/ DropPolicy(e)
    \/ \E c \in Easies : Clone(e, c)

Spec == Init /\ [][Next]_vars

-----------------------------------------------------------------------------
\* The options that setup leaves alone where the attribute is nil.
Sticky == {"encoding", "proxy_port", "local_port", "local_port_range", "http_auth_types",
           "proxy_auth_types", "cookies", "cookiejar", "useragent"} \cup SslAttrs
          \cup (CertAttrs \ {"cacert"})

TypeOK ==
  /\ First \in alive /\ alive \subseteq Easies /\ running \subseteq alive
  /\ \A e \in alive :
       /\ \A a \in Attrs : ruby[e][a] \in Values \cup {Nil, "public"}
       /\ \A o \in Opts : curl[e][o] \in Values \cup {Nil, "on", "off", "none", "proc", "default"}
       /\ \A l \in Lists : slist[e][l] = "own" => native[e][l] # Nil
       /\ data[e]["private"] = e

\* What the documentation of the setters says a transfer does with what the
\* program asked for (curb_easy.c 2452-3722).
Meant(a, o) ==
  CASE o \in {"user", "pass"} ->
         IF a.userpwd # Nil THEN a.userpwd ELSE IF o = "user" THEN a.username ELSE a.password
    [] o = "proxy" -> IF DisablesProxy(a) THEN "none" ELSE a.proxy_url
    [] o \in {"proxypwd", "proxy_tunnel"} -> IF DisablesProxy(a) THEN Nil ELSE a[o]
    [] o = "fresh_connect" -> IF Public(a) THEN "on" ELSE Nil
    [] o = "forbid_reuse" -> IF Public(a) THEN "on" ELSE a.forbid_reuse
    [] o = "verbose" -> IF a.debug_proc # Nil THEN "on" ELSE a.verbose
    [] OTHER -> a[o]

\* Options for which what setup leaves in libcurl is not what was asked for:
\* it overwrites them or does not set them again.
Doubtful == {"connect", "engine", "unix_socket_path", "local_port_range", "cookiefile",
             "cookiejar", "certtype", "certpassword", "cert_key"} \cup DirectAndPushed
\* Options that are no option of libcurl, and those that say which handlers
\* are installed.
Inner == {"write", "header", "noprogress", "verbose", "username", "password", "userpwd",
          "proxy_url", "connect_timeout", "connect_timeout_ms", "enable_cookies"}

\* A transfer runs with what the program asked for and with nothing of what
\* earlier transfers, the policy, clones or the time before a reset left in
\* the handle; an option that is not cleared by nil at least has the value
\* asked for, if there is one (curb_easy.c 3861-4224, 1575-1732).
RunsAsAsked ==
  \A e \in running : \A o \in Opts \ (Doubtful \cup Inner) :
    IF o \in Sticky THEN asked[e][o] # Nil => curl[e][o] = asked[e][o]
    ELSE curl[e][o] = Meant(asked[e], o)

\* The lists that a running transfer reads are those of its own easy: none
\* that was freed with the transfer, or belongs to the easy it was cloned
\* from (curb_easy.c 1208-1276, 1531-1546, 4226-4330).
ListsAreOwn ==
  \A e \in running : \A l \in Lists :
    slist[e][l] = IF asked[e][l] # Nil THEN "own" ELSE Nil

\* libcurl calls back for the easy that runs, not for the one it was cloned
\* from, nor for one whose upload is over (curb_easy.c 1575-1637, 4389-4402).
CallbacksAreOwn ==
  \A e \in running : \A d \in DataOpts :
    data[e][d] \in {e, Nil} /\ (d = "readdata" => (data[e][d] = e <=> upload[e]))

\* A transfer uses nothing that was freed or that belongs to another easy.
OwnsWhatItUses == TypeOK /\ ListsAreOwn /\ CallbacksAreOwn
==============================================================================
