-------------------------- MODULE EasyHandleProofs ---------------------------
(***************************************************************************)
(* Proofs about the libcurl handle of one Curl::Easy.                      *)
(*                                                                         *)
(* EasyOptions: what setup leaves in the handle is what the program asked  *)
(* for, section by section of setup, for any easies and values.            *)
(*                                                                         *)
(* EasyTransfer: what the callbacks of a transfer deliver, send and raise, *)
(* for any limits, sizes of chunks and lengths of bodies and uploads.      *)
(***************************************************************************)
EXTENDS EasyOptions, EasyTransfer, SequenceTheorems, TLAPS

-----------------------------------------------------------------------------
(***************************************************************************)
(* The options.  EasySound says of one easy what OptionsInv says of all.   *)
(***************************************************************************)

\* The values of the attributes and of the options of libcurl.
AttrValues(a) == IF a = "policy" THEN {Nil, "public"} ELSE Values \cup {Nil}
RubyValues == {r \in [Attrs -> Values \cup {Nil, "public"}] : \A a \in Attrs : r[a] \in AttrValues(a)}
CurlValues == Values \cup {Nil, "on", "off", "none", "proc", "default"}
CurlOptions == [Opts -> CurlValues]

\* Every easy has all its attributes, options, lists and pointers.
OptionsShaped ==
  /\ First \in alive /\ alive \subseteq Easies /\ running \subseteq alive
  /\ ruby \in [Easies -> RubyValues]
  /\ asked \in [Easies -> [Given -> Values \cup {Nil, "public"}]]
  /\ upload \in [Easies -> BOOLEAN]
  /\ curl \in [Easies -> CurlOptions]
  /\ native \in [Easies -> [Lists -> Values \cup {Nil}]]
  /\ slist \in [Easies -> [Lists -> {"own", "stale", Nil}]]
  /\ data \in [Easies -> [DataOpts -> Easies \cup {Nil}]]

\* The Ruby object keeps what was asked for, but for what setopt gives to
\* libcurl alone, and nothing but setopt changes that in libcurl.
Kept(e) ==
  /\ \A a \in Attrs \ DirectAndPushed : ruby[e][a] = asked[e][a]
  /\ \A o \in Direct : curl[e][o] = asked[e][o]

\* What libcurl has of a list, its own or that of the original, curb holds too.
ListsHeld(e) == \A l \in Lists : slist[e][l] # Nil => native[e][l] # Nil

\* The handle leads back to its easy, and to a reader as long as there is an upload.
PointsBack(e) ==
  data[e]["private"] = e /\ data[e]["readdata"] = IF upload[e] THEN e ELSE Nil

\* libcurl has of the option o what the program that asked for a means.
SetRight(a, o, x) == IF o \in Sticky THEN a[o] # Nil => x = a[o] ELSE x = Meant(a, o)

\* What the properties say of one easy whose transfer runs.
RunsRight(e) ==
  /\ \A o \in Opts \ (Doubtful \cup Inner) : SetRight(asked[e], o, curl[e][o])
  /\ \A l \in Lists : slist[e][l] = IF asked[e][l] # Nil THEN "own" ELSE Nil
  /\ \A d \in DataOpts : data[e][d] \in {e, Nil}

EasySound(e) == Kept(e) /\ ListsHeld(e) /\ PointsBack(e) /\ (e \in running => RunsRight(e))

OptionsInv == OptionsShaped /\ \A e \in Easies : EasySound(e)

-----------------------------------------------------------------------------
\* Setup, section by section

\* The options that each section of setup sets.
PolicyOpts == {"url", "doh_url", "dns_servers", "fresh_connect", "forbid_reuse", "unix_socket_path"}
CredentialOpts == {"interface_hm", "user", "pass"}
ProxyOpts == {"noproxy", "proxy", "proxypwd", "proxy_tunnel"}
HandlerOpts == {"encoding", "write", "header", "noprogress", "verbose"}
PlainOpts == {"header_in_body", "follow_location", "max_redirs", "fetch_file_time",
              "ssl_verify_peer", "ssl_verify_host", "use_netrc", "unrestricted_auth",
              "timeout_ms", "dns_cache_timeout", "ignore_content_length", "resolve_mode",
              "http_version", "ftp_response_timeout", "low_speed_limit",
              "low_speed_time", "max_recv_speed_large", "max_send_speed_large"}
GeneralOpts == PlainOpts \cup {"connect"}
PortOpts == {"proxy_port", "local_port", "local_port_range", "http_auth_types",
             "proxy_auth_types", "proxy_type"}
CookieOpts == {"cookies", "cookiejar", "cookiefile", "engine"}
CertOpts == {"cert", "certtype", "certpassword", "cert_key", "useragent", "cacert"} \cup SslAttrs

\* Every option that a section sets is an option of the libcurl handle, and
\* every attribute it is set from, one of the Ruby object.
LEMMA OptsOfSections ==
  /\ PolicyOpts \subseteq Opts /\ CredentialOpts \subseteq Opts /\ ProxyOpts \subseteq Opts
  /\ HandlerOpts \subseteq Opts /\ PlainOpts \subseteq Opts /\ GeneralOpts \subseteq Opts
  /\ PortOpts \subseteq Opts /\ CookieOpts \subseteq Opts /\ CertOpts \subseteq Opts
<1>1. \A l \in Lists : l \in {"headers", "proxy_headers", "ftp_commands", "resolve", "connect_to"}
  BY DEF Lists, ListOrder
<1> USE <1>1 DEF Opts, Attrs, Direct, AllowAttrs, Procs, SslAttrs
<1>2. PolicyOpts \subseteq Opts BY DEF PolicyOpts, RequestAttrs, RouteAttrs, VersionAttrs
<1>3. CredentialOpts \subseteq Opts BY DEF CredentialOpts, RequestAttrs
<1>4. ProxyOpts \subseteq Opts BY DEF ProxyOpts, RequestAttrs, FlagAttrs, SetoptAttrs
<1>5. HandlerOpts \subseteq Opts BY DEF HandlerOpts, CodingAttrs, MoreFlagAttrs
<1>6. PlainOpts \subseteq Opts
  BY DEF PlainOpts, FlagAttrs, MoreFlagAttrs, TimeoutAttrs, RateAttrs, ModeAttrs, VersionAttrs
<1>7. GeneralOpts \subseteq Opts BY <1>6 DEF GeneralOpts
<1>8. PortOpts \subseteq Opts BY DEF PortOpts, PortAttrs, AuthAttrs
<1>9. CookieOpts \subseteq Opts BY DEF CookieOpts, RequestAttrs
<1>10. CertOpts \subseteq Opts BY DEF CertOpts, CertAttrs, CodingAttrs
<1> QED BY <1>2, <1>3, <1>4, <1>5, <1>6, <1>7, <1>8, <1>9, <1>10

\* The options that no other attribute has a say in are meant as they are set.
LEMMA MeantPlain ==
  ASSUME NEW a, NEW o,
         o \notin {"user", "pass", "proxy", "proxypwd", "proxy_tunnel", "fresh_connect",
                   "forbid_reuse", "verbose"}
  PROVE  Meant(a, o) = a[o]
BY DEF Meant

\* Options that are pushed every time.
LEMMA PushedFacts ==
  ASSUME NEW r \in RubyValues, NEW c \in CurlOptions, NEW os \in SUBSET (Attrs \ {"policy"})
  PROVE  /\ Pushed(r, c, os) \in CurlOptions
         /\ \A o \in Opts : Pushed(r, c, os)[o] = IF o \in os THEN r[o] ELSE c[o]
<1>1. \A o \in os : r[o] \in CurlValues BY DEF RubyValues, AttrValues, CurlValues
<1>2. DOMAIN c = Opts /\ \A o \in Opts : c[o] \in CurlValues BY DEF CurlOptions
<1>3. Pushed(r, c, os) \in CurlOptions BY <1>1, <1>2 DEF Pushed, CurlOptions
<1> QED BY <1>2, <1>3 DEF Pushed

\* Options that are pushed where the attribute is set.
LEMMA IfSetFacts ==
  ASSUME NEW r \in RubyValues, NEW c \in CurlOptions, NEW os \in SUBSET (Attrs \ {"policy"})
  PROVE  /\ PushedIfSet(r, c, os) \in CurlOptions
         /\ \A o \in Opts :
              PushedIfSet(r, c, os)[o] = IF o \in os /\ r[o] # Nil THEN r[o] ELSE c[o]
<1>1. \A o \in os : r[o] \in CurlValues BY DEF RubyValues, AttrValues, CurlValues
<1>2. DOMAIN c = Opts /\ \A o \in Opts : c[o] \in CurlValues BY DEF CurlOptions
<1>3. PushedIfSet(r, c, os) \in CurlOptions BY <1>1, <1>2 DEF PushedIfSet, CurlOptions
<1> QED BY <1>2, <1>3 DEF PushedIfSet

\* The policy, its effects on connections, and the options set along with it.
LEMMA PolicySection ==
  ASSUME NEW r \in RubyValues, NEW c \in CurlOptions
  PROVE  /\ SetupPolicy(r, c) \in CurlOptions
         /\ \A o \in Opts \ PolicyOpts : SetupPolicy(r, c)[o] = c[o]
         /\ \A o \in PolicyOpts \ (Doubtful \cup Inner) : SetRight(r, o, SetupPolicy(r, c)[o])
<1>1. PICK d \in CurlOptions : d = Pushed(r, c, {"url", "doh_url", "dns_servers"})
  BY PushedFacts DEF Attrs, RequestAttrs, RouteAttrs
<1>2. \A o \in Opts : d[o] = IF o \in {"url", "doh_url", "dns_servers"} THEN r[o] ELSE c[o]
  BY <1>1, PushedFacts DEF Attrs, RequestAttrs, RouteAttrs
<1>3. PolicyOpts \subseteq Opts BY OptsOfSections
<1>4. r["forbid_reuse"] \in CurlValues
  BY DEF RubyValues, AttrValues, CurlValues, Attrs, VersionAttrs
<1>5. PICK f : f = SetupPolicy(r, c) OBVIOUS
<1>6. f = [d EXCEPT !["fresh_connect"] = IF Public(r) THEN "on" ELSE Nil,
                    !["forbid_reuse"] = IF Public(r) THEN "on" ELSE r["forbid_reuse"],
                    !["unix_socket_path"] = IF Public(r) /\ r["allow_unix_socket"] = Nil THEN Nil ELSE @]
  BY <1>1, <1>5 DEF SetupPolicy
<1>7. /\ f \in CurlOptions
      /\ f["fresh_connect"] = IF Public(r) THEN "on" ELSE Nil
      /\ f["forbid_reuse"] = IF Public(r) THEN "on" ELSE r["forbid_reuse"]
      /\ \A o \in Opts \ {"fresh_connect", "forbid_reuse", "unix_socket_path"} : f[o] = d[o]
  BY <1>3, <1>4, <1>6 DEF CurlOptions, CurlValues, PolicyOpts
<1>8. \A o \in Opts \ PolicyOpts : f[o] = c[o] BY <1>2, <1>7 DEF PolicyOpts
<1>9. ASSUME NEW o \in PolicyOpts \ (Doubtful \cup Inner) PROVE SetRight(r, o, f[o])
  <2>1. o \in Opts BY <1>3
  <2>2. CASE o \in {"url", "doh_url", "dns_servers"}
    BY <1>2, <1>7, <2>1, <2>2, MeantPlain DEF SetRight
  <2>3. CASE o \in {"fresh_connect", "forbid_reuse"}
    BY <1>7, <2>3 DEF SetRight, Meant, Sticky, SslAttrs, CertAttrs
  <2>4. o # "unix_socket_path" BY DEF Doubtful
  <2> QED BY <2>2, <2>3, <2>4 DEF PolicyOpts
<1> QED BY <1>5, <1>7, <1>8, <1>9

\* User, password and interface.
LEMMA CredentialSection ==
  ASSUME NEW r \in RubyValues, NEW c \in CurlOptions
  PROVE  /\ SetupCredentials(r, c) \in CurlOptions
         /\ \A o \in Opts \ CredentialOpts : SetupCredentials(r, c)[o] = c[o]
         /\ \A o \in CredentialOpts \ (Doubtful \cup Inner) :
              SetRight(r, o, SetupCredentials(r, c)[o])
<1>1. CredentialOpts \subseteq Opts BY OptsOfSections
<1>2. /\ r["interface_hm"] \in CurlValues /\ r["username"] \in CurlValues
      /\ r["password"] \in CurlValues /\ r["userpwd"] \in CurlValues /\ Nil \in CurlValues
  BY DEF RubyValues, AttrValues, CurlValues, Attrs, RequestAttrs, UserAttrs
<1>3. PICK user : user = IF r["userpwd"] # Nil THEN r["userpwd"] ELSE r["username"] OBVIOUS
<1>4. PICK pass : pass = IF r["userpwd"] # Nil THEN r["userpwd"] ELSE r["password"] OBVIOUS
<1>5. PICK f : f = SetupCredentials(r, c) OBVIOUS
<1>6. f = [c EXCEPT !["interface_hm"] = r["interface_hm"], !["user"] = user, !["pass"] = pass]
  <2>0. PICK named : named = [c EXCEPT !["interface_hm"] = r["interface_hm"],
                                       !["user"] = r["username"], !["pass"] = r["password"]]
    OBVIOUS
  <2>1. CASE r["userpwd"] # Nil
    <3>1. f = [named EXCEPT !["user"] = r["userpwd"], !["pass"] = r["userpwd"]]
      BY <1>5, <2>0, <2>1 DEF SetupCredentials
    <3> QED BY <1>1, <1>3, <1>4, <2>0, <2>1, <3>1 DEF CurlOptions, CredentialOpts
  <2>2. CASE r["userpwd"] = Nil /\ r["username"] = Nil /\ r["password"] = Nil
    <3>1. f = [named EXCEPT !["user"] = Nil, !["pass"] = Nil]
      BY <1>5, <2>0, <2>2 DEF SetupCredentials
    <3> QED BY <1>1, <1>3, <1>4, <2>0, <2>2, <3>1 DEF CurlOptions, CredentialOpts
  <2>3. CASE r["userpwd"] = Nil /\ ~(r["username"] = Nil /\ r["password"] = Nil)
    BY <1>3, <1>4, <1>5, <2>3 DEF SetupCredentials
  <2> QED BY <2>1, <2>2, <2>3
<1>7. user \in CurlValues /\ pass \in CurlValues BY <1>2, <1>3, <1>4
<1>8. /\ f \in CurlOptions
      /\ f["interface_hm"] = r["interface_hm"] /\ f["user"] = user /\ f["pass"] = pass
      /\ \A o \in Opts \ CredentialOpts : f[o] = c[o]
  BY <1>1, <1>2, <1>6, <1>7 DEF CurlOptions, CredentialOpts
<1>9. ASSUME NEW o \in CredentialOpts \ (Doubtful \cup Inner) PROVE SetRight(r, o, f[o])
  BY <1>3, <1>4, <1>8 DEF SetRight, Meant, Sticky, SslAttrs, CertAttrs, CredentialOpts
<1> QED BY <1>5, <1>8, <1>9

\* The proxy, which the policy may disable.
LEMMA ProxySection ==
  ASSUME NEW r \in RubyValues, NEW c \in CurlOptions
  PROVE  /\ SetupProxy(r, c) \in CurlOptions
         /\ \A o \in Opts \ ProxyOpts : SetupProxy(r, c)[o] = c[o]
         /\ \A o \in ProxyOpts \ (Doubtful \cup Inner) : SetRight(r, o, SetupProxy(r, c)[o])
<1>1. ProxyOpts \subseteq Opts BY OptsOfSections
<1>2. /\ r["noproxy"] \in CurlValues /\ r["proxy_url"] \in CurlValues
      /\ r["proxypwd"] \in CurlValues /\ r["proxy_tunnel"] \in CurlValues
      /\ Nil \in CurlValues /\ "none" \in CurlValues
  BY DEF RubyValues, AttrValues, CurlValues, Attrs, RequestAttrs, SetoptAttrs, FlagAttrs
<1>3. PICK proxy : proxy = IF DisablesProxy(r) THEN "none" ELSE r["proxy_url"] OBVIOUS
<1>4. PICK pwd : pwd = IF DisablesProxy(r) THEN Nil ELSE r["proxypwd"] OBVIOUS
<1>5. PICK tunnel : tunnel = IF DisablesProxy(r) THEN Nil ELSE r["proxy_tunnel"] OBVIOUS
<1>6. proxy \in CurlValues /\ pwd \in CurlValues /\ tunnel \in CurlValues
  BY <1>2, <1>3, <1>4, <1>5
<1>7. PICK f : f = SetupProxy(r, c) OBVIOUS
<1>8. f = [c EXCEPT !["noproxy"] = r["noproxy"], !["proxy"] = proxy, !["proxypwd"] = pwd,
                    !["proxy_tunnel"] = tunnel]
  BY <1>3, <1>4, <1>5, <1>7 DEF SetupProxy
<1>9. /\ f \in CurlOptions
      /\ f["noproxy"] = r["noproxy"] /\ f["proxy"] = proxy /\ f["proxypwd"] = pwd
      /\ f["proxy_tunnel"] = tunnel
      /\ \A o \in Opts \ ProxyOpts : f[o] = c[o]
  BY <1>1, <1>2, <1>6, <1>8 DEF CurlOptions, ProxyOpts
<1>10. ASSUME NEW o \in ProxyOpts \ (Doubtful \cup Inner) PROVE SetRight(r, o, f[o])
  BY <1>3, <1>4, <1>5, <1>9 DEF SetRight, Meant, Sticky, SslAttrs, CertAttrs, ProxyOpts
<1> QED BY <1>7, <1>9, <1>10

\* The handlers that are installed for a transfer.
LEMMA HandlerSection ==
  ASSUME NEW r \in RubyValues, NEW c \in CurlOptions
  PROVE  /\ SetupHandlers(r, c) \in CurlOptions
         /\ \A o \in Opts \ HandlerOpts : SetupHandlers(r, c)[o] = c[o]
         /\ \A o \in HandlerOpts \ (Doubtful \cup Inner) : SetRight(r, o, SetupHandlers(r, c)[o])
<1>1. HandlerOpts \subseteq Opts BY OptsOfSections
<1>2. {"encoding"} \in SUBSET (Attrs \ {"policy"}) BY DEF Attrs, CodingAttrs
<1>3. PICK d \in CurlOptions : d = PushedIfSet(r, c, {"encoding"}) BY <1>2, IfSetFacts
<1>4. \A o \in Opts : d[o] = IF o \in {"encoding"} /\ r[o] # Nil THEN r[o] ELSE c[o]
  BY <1>2, <1>3, IfSetFacts
<1>5. r["verbose"] \in CurlValues
  BY DEF RubyValues, AttrValues, CurlValues, Attrs, MoreFlagAttrs
<1>6. PICK f : f = SetupHandlers(r, c) OBVIOUS
<1>7. PICK w \in CurlValues, h \in CurlValues, p \in CurlValues, v \in CurlValues :
        f = [d EXCEPT !["write"] = w, !["header"] = h, !["noprogress"] = p, !["verbose"] = v]
  <2>1. PICK w : w = IF r["body_proc"] # Nil THEN "proc" ELSE "default" OBVIOUS
  <2>2. PICK h : h = IF r["header_proc"] # Nil THEN "proc" ELSE "default" OBVIOUS
  <2>3. PICK p : p = IF r["progress_proc"] # Nil THEN "off" ELSE "on" OBVIOUS
  <2>4. PICK v : v = IF r["debug_proc"] # Nil THEN "on" ELSE r["verbose"] OBVIOUS
  <2>5. w \in CurlValues /\ h \in CurlValues /\ p \in CurlValues /\ v \in CurlValues
    BY <1>5, <2>1, <2>2, <2>3, <2>4 DEF CurlValues
  <2>6. f = [d EXCEPT !["write"] = w, !["header"] = h, !["noprogress"] = p, !["verbose"] = v]
    BY <1>3, <1>6, <2>1, <2>2, <2>3, <2>4 DEF SetupHandlers
  <2> QED BY <2>5, <2>6
<1>8. /\ f \in CurlOptions /\ f["encoding"] = d["encoding"]
      /\ \A o \in Opts \ HandlerOpts : f[o] = d[o]
  BY <1>1, <1>7 DEF CurlOptions, HandlerOpts
<1>9. ASSUME NEW o \in HandlerOpts \ (Doubtful \cup Inner) PROVE SetRight(r, o, f[o])
  <2>1. o = "encoding" BY DEF HandlerOpts, Inner
  <2> QED BY <1>1, <1>4, <1>8, <2>1 DEF SetRight, Sticky
<1>10. \A o \in Opts \ HandlerOpts : f[o] = c[o] BY <1>4, <1>8 DEF HandlerOpts
<1> QED BY <1>6, <1>8, <1>9, <1>10

\* Options that are pushed as they are, and the timeout of the connect.
LEMMA GeneralSection ==
  ASSUME NEW r \in RubyValues, NEW c \in CurlOptions
  PROVE  /\ SetupGeneral(r, c) \in CurlOptions
         /\ \A o \in Opts \ GeneralOpts : SetupGeneral(r, c)[o] = c[o]
         /\ \A o \in GeneralOpts \ (Doubtful \cup Inner) : SetRight(r, o, SetupGeneral(r, c)[o])
<1>1. GeneralOpts \subseteq Opts /\ PlainOpts \subseteq Opts BY OptsOfSections
<1>2. PlainOpts \in SUBSET (Attrs \ {"policy"})
  BY DEF Attrs, PlainOpts, FlagAttrs, MoreFlagAttrs, TimeoutAttrs, RateAttrs, ModeAttrs, VersionAttrs
<1>3. PICK d \in CurlOptions : d = Pushed(r, c, PlainOpts) BY <1>2, PushedFacts
<1>4. \A o \in Opts : d[o] = IF o \in PlainOpts THEN r[o] ELSE c[o] BY <1>2, <1>3, PushedFacts
<1>5. r["connect_timeout_ms"] \in CurlValues
  BY DEF RubyValues, AttrValues, CurlValues, Attrs, TimeoutAttrs
<1>6. PICK f : f = SetupGeneral(r, c) OBVIOUS
<1>7. f = [d EXCEPT !["connect"] = r["connect_timeout_ms"]]
  BY <1>3, <1>6 DEF SetupGeneral, PlainOpts
<1>8. f \in CurlOptions /\ \A o \in Opts \ {"connect"} : f[o] = d[o]
  BY <1>1, <1>5, <1>7 DEF CurlOptions, GeneralOpts
<1>9. ASSUME NEW o \in GeneralOpts \ (Doubtful \cup Inner) PROVE SetRight(r, o, f[o])
  <2>1. o # "connect" BY DEF Doubtful
  <2>2. o \in PlainOpts BY <2>1 DEF GeneralOpts
  <2>3. f[o] = r[o] BY <1>1, <1>4, <1>8, <2>1, <2>2
  <2>4. o \notin Sticky BY <2>2 DEF PlainOpts, Sticky, SslAttrs, CertAttrs
  <2>5. Meant(r, o) = r[o] BY <2>2, MeantPlain DEF PlainOpts
  <2> QED BY <2>3, <2>4, <2>5 DEF SetRight
<1>10. \A o \in Opts \ GeneralOpts : f[o] = c[o] BY <1>4, <1>8 DEF GeneralOpts
<1> QED BY <1>6, <1>8, <1>9, <1>10

\* Ports, authentication and the type of the proxy.
LEMMA PortSection ==
  ASSUME NEW r \in RubyValues, NEW c \in CurlOptions
  PROVE  /\ SetupPorts(r, c) \in CurlOptions
         /\ \A o \in Opts \ PortOpts : SetupPorts(r, c)[o] = c[o]
         /\ \A o \in PortOpts \ (Doubtful \cup Inner) : SetRight(r, o, SetupPorts(r, c)[o])
<1>1. PortOpts \subseteq Opts BY OptsOfSections
<1>2. PICK os : os = {"proxy_port", "local_port"}
                     \cup (IF r["local_port"] # Nil THEN {"local_port_range"} ELSE {})
                     \cup {"http_auth_types", "proxy_auth_types"}
  OBVIOUS
<1>3. os \in SUBSET (Attrs \ {"policy"}) /\ {"proxy_type"} \in SUBSET (Attrs \ {"policy"})
  BY <1>2 DEF Attrs, PortAttrs, AuthAttrs
<1>4. PICK d \in CurlOptions : d = PushedIfSet(r, c, os) BY <1>3, IfSetFacts
<1>5. \A o \in Opts : d[o] = IF o \in os /\ r[o] # Nil THEN r[o] ELSE c[o] BY <1>3, <1>4, IfSetFacts
<1>6. PICK f \in CurlOptions : f = Pushed(r, d, {"proxy_type"}) BY <1>3, PushedFacts
<1>7. \A o \in Opts : f[o] = IF o \in {"proxy_type"} THEN r[o] ELSE d[o] BY <1>3, <1>6, PushedFacts
<1>8. SetupPorts(r, c) = f BY <1>2, <1>4, <1>6 DEF SetupPorts
<1>9. ASSUME NEW o \in PortOpts \ (Doubtful \cup Inner) PROVE SetRight(r, o, f[o])
  <2>1. o \in Opts BY <1>1
  <2>2. CASE o = "proxy_type"
    BY <1>7, <2>1, <2>2, MeantPlain DEF SetRight, Sticky, SslAttrs, CertAttrs
  <2>3. CASE o \in {"proxy_port", "local_port", "http_auth_types", "proxy_auth_types"}
    BY <1>2, <1>5, <1>7, <2>1, <2>3 DEF SetRight, Sticky
  <2> QED BY <2>2, <2>3 DEF PortOpts, Doubtful
<1>10. \A o \in Opts \ PortOpts : f[o] = c[o] BY <1>2, <1>5, <1>7 DEF PortOpts
<1> QED BY <1>8, <1>9, <1>10

\* Cookies and their engine.
LEMMA CookieSection ==
  ASSUME NEW r \in RubyValues, NEW c \in CurlOptions
  PROVE  /\ SetupCookies(r, c) \in CurlOptions
         /\ \A o \in Opts \ CookieOpts : SetupCookies(r, c)[o] = c[o]
         /\ \A o \in CookieOpts \ (Doubtful \cup Inner) : SetRight(r, o, SetupCookies(r, c)[o])
<1>1. CookieOpts \subseteq Opts BY OptsOfSections
<1>2. PICK files : files = IF r["enable_cookies"] # Nil THEN {"cookiejar", "cookiefile"} ELSE {}
  OBVIOUS
<1>3. PICK os : os = {"cookies", "cookiejar"} \cap (files \cup {"cookies"}) OBVIOUS
<1>4. os \in SUBSET (Attrs \ {"policy"}) /\ "cookies" \in os /\ os \subseteq {"cookies", "cookiejar"}
  BY <1>3 DEF Attrs, RequestAttrs
<1>5. PICK d \in CurlOptions : d = PushedIfSet(r, c, os) BY <1>4, IfSetFacts
<1>6. \A o \in Opts : d[o] = IF o \in os /\ r[o] # Nil THEN r[o] ELSE c[o] BY <1>4, <1>5, IfSetFacts
<1>7. r["cookiefile"] \in CurlValues
  BY DEF RubyValues, AttrValues, CurlValues, Attrs, RequestAttrs
<1>8. PICK f : f = SetupCookies(r, c) OBVIOUS
<1>9. f = [d EXCEPT !["engine"] = IF r["enable_cookies"] # Nil THEN "on" ELSE @,
                    !["cookiefile"] = IF r["enable_cookies"] # Nil THEN r["cookiefile"] ELSE @]
  BY <1>2, <1>3, <1>5, <1>8 DEF SetupCookies
<1>10. f \in CurlOptions /\ \A o \in Opts \ {"engine", "cookiefile"} : f[o] = d[o]
  BY <1>1, <1>7, <1>9 DEF CurlOptions, CurlValues, CookieOpts
<1>11. ASSUME NEW o \in CookieOpts \ (Doubtful \cup Inner) PROVE SetRight(r, o, f[o])
  <2>1. o = "cookies" BY DEF CookieOpts, Doubtful
  <2> QED BY <1>1, <1>4, <1>6, <1>10, <2>1 DEF SetRight, Sticky
<1>12. \A o \in Opts \ CookieOpts : f[o] = c[o] BY <1>4, <1>6, <1>10 DEF CookieOpts
<1> QED BY <1>8, <1>10, <1>11, <1>12

\* Certificates, SSL and the user agent.
LEMMA CertSection ==
  ASSUME NEW r \in RubyValues, NEW c \in CurlOptions
  PROVE  /\ SetupCert(r, c) \in CurlOptions
         /\ \A o \in Opts \ CertOpts : SetupCert(r, c)[o] = c[o]
         /\ \A o \in CertOpts \ (Doubtful \cup Inner) : SetRight(r, o, SetupCert(r, c)[o])
<1>1. CertOpts \subseteq Opts BY OptsOfSections
<1>2. PICK certs : certs = IF r["cert"] # Nil
                           THEN {"cert", "certtype", "certpassword", "cert_key"} ELSE {}
  OBVIOUS
<1>3. PICK os : os = certs \cup SslAttrs \cup {"useragent"} OBVIOUS
<1>4. os \in SUBSET (Attrs \ {"policy"}) /\ {"cacert"} \in SUBSET (Attrs \ {"policy"})
  BY <1>2, <1>3 DEF Attrs, CertAttrs, CodingAttrs, SslAttrs
<1>5. PICK d \in CurlOptions : d = PushedIfSet(r, c, os) BY <1>4, IfSetFacts
<1>6. \A o \in Opts : d[o] = IF o \in os /\ r[o] # Nil THEN r[o] ELSE c[o] BY <1>4, <1>5, IfSetFacts
<1>7. PICK f \in CurlOptions : f = Pushed(r, d, {"cacert"}) BY <1>4, PushedFacts
<1>8. \A o \in Opts : f[o] = IF o \in {"cacert"} THEN r[o] ELSE d[o] BY <1>4, <1>7, PushedFacts
<1>9. SetupCert(r, c) = f BY <1>2, <1>3, <1>5, <1>7 DEF SetupCert
<1>10. ASSUME NEW o \in CertOpts \ (Doubtful \cup Inner) PROVE SetRight(r, o, f[o])
  <2>1. o \in Opts BY <1>1
  <2>2. CASE o = "cacert"
    BY <1>8, <2>1, <2>2, MeantPlain DEF SetRight, Sticky, SslAttrs, CertAttrs
  <2>3. CASE o = "cert"
    BY <1>2, <1>3, <1>6, <1>8, <2>1, <2>3 DEF SetRight, Sticky, CertAttrs
  <2>4. CASE o \in SslAttrs \cup {"useragent"}
    BY <1>3, <1>6, <1>8, <2>1, <2>4 DEF SetRight, Sticky, SslAttrs
  <2> QED BY <2>2, <2>3, <2>4 DEF CertOpts, Doubtful
<1>11. \A o \in Opts \ CertOpts : f[o] = c[o] BY <1>2, <1>3, <1>6, <1>8 DEF CertOpts
<1> QED BY <1>9, <1>10, <1>11

\* The sections share no option, and together with the options that only
\* setopt gives to libcurl they are all those a transfer runs with.
LEMMA SectionsApart ==
  ASSUME NEW o \in Opts \ (Doubtful \cup Inner)
  PROVE  /\ o \in Direct \cup PolicyOpts \cup CredentialOpts \cup ProxyOpts \cup HandlerOpts
                  \cup GeneralOpts \cup PortOpts \cup CookieOpts \cup CertOpts
         /\ o \in PolicyOpts => o \notin CredentialOpts \cup ProxyOpts \cup HandlerOpts
                                          \cup GeneralOpts \cup PortOpts \cup CookieOpts \cup CertOpts
         /\ o \in CredentialOpts => o \notin ProxyOpts \cup HandlerOpts
                                          \cup GeneralOpts \cup PortOpts \cup CookieOpts \cup CertOpts
         /\ o \in ProxyOpts => o \notin HandlerOpts
                                          \cup GeneralOpts \cup PortOpts \cup CookieOpts \cup CertOpts
         /\ o \in HandlerOpts => o \notin GeneralOpts \cup PortOpts \cup CookieOpts \cup CertOpts
         /\ o \in GeneralOpts => o \notin PortOpts \cup CookieOpts \cup CertOpts
         /\ o \in PortOpts => o \notin CookieOpts \cup CertOpts
         /\ o \in CookieOpts => o \notin CertOpts
<1> USE DEF PolicyOpts, CredentialOpts, ProxyOpts, HandlerOpts, GeneralOpts, PlainOpts, PortOpts,
            CookieOpts, CertOpts, SslAttrs
<1>1. o \in Direct \cup PolicyOpts \cup CredentialOpts \cup ProxyOpts \cup HandlerOpts
            \cup GeneralOpts \cup PortOpts \cup CookieOpts \cup CertOpts
  <2> USE DEF Doubtful, Inner, Opts, Direct, DirectAndPushed
  <2>0. o # "headers" /\ o # "proxy_headers" /\ o # "ftp_commands" /\ o # "resolve" /\ o # "connect_to"
    <3>1. {"headers", "proxy_headers", "ftp_commands", "resolve", "connect_to"} \subseteq Lists
      BY DEF Lists, ListOrder
    <3>2. \A x \in Lists : x \notin Direct
      BY DEF Lists, ListOrder
    <3> QED BY <3>1, <3>2 DEF ListOrder
  <2>1. CASE o \in RequestAttrs \cup CertAttrs BY <2>0, <2>1 DEF RequestAttrs, CertAttrs
  <2>2. CASE o \in CodingAttrs \cup RouteAttrs \cup AllowAttrs \cup PortAttrs \cup AuthAttrs
    BY <2>0, <2>2 DEF CodingAttrs, RouteAttrs, AllowAttrs, PortAttrs, AuthAttrs
  <2>3. CASE o \in TimeoutAttrs \cup RateAttrs \cup UserAttrs \cup SslAttrs
    BY <2>0, <2>3 DEF TimeoutAttrs, RateAttrs, UserAttrs
  <2>4. CASE o \in FlagAttrs \cup MoreFlagAttrs \cup ModeAttrs \cup VersionAttrs \cup SetoptAttrs
    BY <2>0, <2>4 DEF FlagAttrs, MoreFlagAttrs, ModeAttrs, VersionAttrs, SetoptAttrs
  <2>5. CASE o \in Direct \cup {"connect", "user", "pass", "proxy", "fresh_connect", "engine",
                                "write", "header", "noprogress"}
    BY <2>5
  <2>6. o \notin Procs \cup {"policy"} BY DEF Procs
  <2> QED BY <2>1, <2>2, <2>3, <2>4, <2>5, <2>6 DEF Attrs
<1>2. o \in PolicyOpts => o \notin CredentialOpts \cup ProxyOpts \cup HandlerOpts
                                   \cup GeneralOpts \cup PortOpts \cup CookieOpts \cup CertOpts
  OBVIOUS
<1>3. o \in CredentialOpts => o \notin ProxyOpts \cup HandlerOpts
                                       \cup GeneralOpts \cup PortOpts \cup CookieOpts \cup CertOpts
  OBVIOUS
<1>4. o \in ProxyOpts => o \notin HandlerOpts
                                  \cup GeneralOpts \cup PortOpts \cup CookieOpts \cup CertOpts
  OBVIOUS
<1>5. o \in HandlerOpts => o \notin GeneralOpts \cup PortOpts \cup CookieOpts \cup CertOpts
  OBVIOUS
<1>6. o \in GeneralOpts => o \notin PortOpts \cup CookieOpts \cup CertOpts OBVIOUS
<1>7. (o \in PortOpts => o \notin CookieOpts \cup CertOpts) /\ (o \in CookieOpts => o \notin CertOpts)
  OBVIOUS
<1> QED BY <1>1, <1>2, <1>3, <1>4, <1>5, <1>6, <1>7, Zenon

\* No section touches what only setopt gives to libcurl.
LEMMA DirectApart ==
  ASSUME NEW o \in Direct
  PROVE  /\ o \in Opts
         /\ o \notin PolicyOpts \cup CredentialOpts \cup ProxyOpts \cup HandlerOpts
                     \cup GeneralOpts \cup PortOpts \cup CookieOpts \cup CertOpts
BY DEF Direct, Opts, PolicyOpts, CredentialOpts, ProxyOpts, HandlerOpts, GeneralOpts, PlainOpts,
       PortOpts, CookieOpts, CertOpts, SslAttrs

\* Setup leaves in libcurl what the attributes of the Ruby object mean,
\* whatever the handle had before.
LEMMA SetupMeans ==
  ASSUME NEW r \in RubyValues, NEW c \in CurlOptions
  PROVE  /\ SetupOptions(r, c) \in CurlOptions
         /\ \A o \in Direct : SetupOptions(r, c)[o] = c[o]
         /\ \A o \in Opts \ (Doubtful \cup Inner \cup Direct) :
              SetRight(r, o, SetupOptions(r, c)[o])
<1>1. PICK c1 \in CurlOptions : c1 = SetupPolicy(r, c) BY PolicySection
<1>2. PICK c2 \in CurlOptions : c2 = SetupCredentials(r, c1) BY CredentialSection
<1>3. PICK c3 \in CurlOptions : c3 = SetupProxy(r, c2) BY ProxySection
<1>4. PICK c4 \in CurlOptions : c4 = SetupHandlers(r, c3) BY HandlerSection
<1>5. PICK c5 \in CurlOptions : c5 = SetupGeneral(r, c4) BY GeneralSection
<1>6. PICK c6 \in CurlOptions : c6 = SetupPorts(r, c5) BY PortSection
<1>7. PICK c7 \in CurlOptions : c7 = SetupCookies(r, c6) BY CookieSection
<1>8. PICK c8 \in CurlOptions : c8 = SetupCert(r, c7) BY CertSection
<1>9. SetupOptions(r, c) = c8
  BY <1>1, <1>2, <1>3, <1>4, <1>5, <1>6, <1>7, <1>8 DEF SetupOptions
<1>10. /\ \A o \in Opts \ PolicyOpts : c1[o] = c[o]
       /\ \A o \in Opts \ CredentialOpts : c2[o] = c1[o]
       /\ \A o \in Opts \ ProxyOpts : c3[o] = c2[o]
       /\ \A o \in Opts \ HandlerOpts : c4[o] = c3[o]
       /\ \A o \in Opts \ GeneralOpts : c5[o] = c4[o]
       /\ \A o \in Opts \ PortOpts : c6[o] = c5[o]
       /\ \A o \in Opts \ CookieOpts : c7[o] = c6[o]
       /\ \A o \in Opts \ CertOpts : c8[o] = c7[o]
  BY <1>1, <1>2, <1>3, <1>4, <1>5, <1>6, <1>7, <1>8, PolicySection, CredentialSection,
     ProxySection, HandlerSection, GeneralSection, PortSection, CookieSection, CertSection
<1>11. ASSUME NEW o \in Direct PROVE c8[o] = c[o]
  BY <1>10, DirectApart
<1>12. ASSUME NEW o \in Opts \ (Doubtful \cup Inner \cup Direct) PROVE SetRight(r, o, c8[o])
  <2>0. o \in Opts \ (Doubtful \cup Inner) OBVIOUS
  <2>1. CASE o \in PolicyOpts
    <3>1. SetRight(r, o, c1[o]) BY <1>1, <2>0, <2>1, PolicySection
    <3>2. c8[o] = c1[o] BY <1>10, <2>0, <2>1, SectionsApart
    <3> QED BY <3>1, <3>2
  <2>2. CASE o \in CredentialOpts
    <3>1. SetRight(r, o, c2[o]) BY <1>2, <2>0, <2>2, CredentialSection
    <3>2. c8[o] = c2[o] BY <1>10, <2>0, <2>2, SectionsApart
    <3> QED BY <3>1, <3>2
  <2>3. CASE o \in ProxyOpts
    <3>1. SetRight(r, o, c3[o]) BY <1>3, <2>0, <2>3, ProxySection
    <3>2. c8[o] = c3[o] BY <1>10, <2>0, <2>3, SectionsApart
    <3> QED BY <3>1, <3>2
  <2>4. CASE o \in HandlerOpts
    <3>1. SetRight(r, o, c4[o]) BY <1>4, <2>0, <2>4, HandlerSection
    <3>2. c8[o] = c4[o] BY <1>10, <2>0, <2>4, SectionsApart
    <3> QED BY <3>1, <3>2
  <2>5. CASE o \in GeneralOpts
    <3>1. SetRight(r, o, c5[o]) BY <1>5, <2>0, <2>5, GeneralSection
    <3>2. c8[o] = c5[o] BY <1>10, <2>0, <2>5, SectionsApart
    <3> QED BY <3>1, <3>2
  <2>6. CASE o \in PortOpts
    <3>1. SetRight(r, o, c6[o]) BY <1>6, <2>0, <2>6, PortSection
    <3>2. c8[o] = c6[o] BY <1>10, <2>0, <2>6, SectionsApart
    <3> QED BY <3>1, <3>2
  <2>7. CASE o \in CookieOpts
    <3>1. SetRight(r, o, c7[o]) BY <1>7, <2>0, <2>7, CookieSection
    <3>2. c8[o] = c7[o] BY <1>10, <2>0, <2>7, SectionsApart
    <3> QED BY <3>1, <3>2
  <2>8. CASE o \in CertOpts BY <1>8, <2>0, <2>8, CertSection
  <2> QED BY <2>0, <2>1, <2>2, <2>3, <2>4, <2>5, <2>6, <2>7, <2>8, SectionsApart
<1> QED BY <1>9, <1>11, <1>12

\* Those who agree on the attributes other than handlers mean the same.
LEMMA MeantAlike ==
  ASSUME NEW a, NEW r, \A x \in Attrs \ (DirectAndPushed \cup Procs) : a[x] = r[x],
         NEW o \in Opts \ (Doubtful \cup Inner \cup Direct), NEW x
  PROVE  SetRight(a, o, x) <=> SetRight(r, o, x)
<1>1. {"userpwd", "username", "password", "policy", "allow_proxy", "proxy_url"}
        \subseteq Attrs \ (DirectAndPushed \cup Procs)
  BY DEF Attrs, RequestAttrs, UserAttrs, AllowAttrs, DirectAndPushed, Procs
<1>2. DisablesProxy(a) <=> DisablesProxy(r) BY <1>1 DEF DisablesProxy, Public
<1>3. Public(a) <=> Public(r) BY <1>1 DEF Public
<1>4. CASE o \in {"user", "pass", "proxy", "fresh_connect"}
  <2>1. o \notin Sticky BY <1>4 DEF Sticky, SslAttrs, CertAttrs
  <2>2. Meant(a, o) = Meant(r, o)
    <3>1. CASE o \in {"user", "pass"} BY <1>1, <3>1 DEF Meant
    <3>2. CASE o = "proxy" BY <1>1, <1>2, <3>2 DEF Meant
    <3>3. CASE o = "fresh_connect" BY <1>3, <3>3 DEF Meant
    <3> QED BY <1>4, <3>1, <3>2, <3>3
  <2> QED BY <2>1, <2>2 DEF SetRight
<1>5. CASE o \notin {"user", "pass", "proxy", "fresh_connect"}
  <2>1. o \in Attrs \ (DirectAndPushed \cup Procs) BY <1>5 DEF Opts, Doubtful, Inner
  <2>2. a[o] = r[o] BY <2>1
  <2>3. o # "verbose" BY DEF Inner
  <2>4. Meant(a, o) = Meant(r, o)
    <3>1. CASE o \in {"proxypwd", "proxy_tunnel"} BY <1>2, <2>2, <3>1 DEF Meant
    <3>2. CASE o = "forbid_reuse" BY <1>3, <2>2, <3>2 DEF Meant
    <3>3. CASE o \notin {"proxypwd", "proxy_tunnel", "forbid_reuse"}
      BY <1>5, <2>2, <2>3, <3>3, MeantPlain
    <3> QED BY <3>1, <3>2, <3>3
  <2> QED BY <2>2, <2>4 DEF SetRight
<1> QED BY <1>4, <1>5

-----------------------------------------------------------------------------
\* The steps

\* Every step keeps the shape of the state.
LEMMA ShapedStep ==
  ASSUME OptionsInv, Next
  PROVE  OptionsShaped'
<1>0. /\ OptionsShaped
      /\ First \in alive /\ alive \subseteq Easies /\ running \subseteq alive
      /\ ruby \in [Easies -> RubyValues]
      /\ asked \in [Easies -> [Given -> Values \cup {Nil, "public"}]]
      /\ upload \in [Easies -> BOOLEAN]
      /\ curl \in [Easies -> CurlOptions]
      /\ native \in [Easies -> [Lists -> Values \cup {Nil}]]
      /\ slist \in [Easies -> [Lists -> {"own", "stale", Nil}]]
      /\ data \in [Easies -> [DataOpts -> Easies \cup {Nil}]]
  BY DEF OptionsInv, OptionsShaped
<1>1. PICK e \in Easies :
        \/ Start(e) \/ SetupRaises(e) \/ Finish(e) \/ PutData(e) \/ Reset(e) \/ Close(e)
        \/ \E v \in Values \cup {Nil} :
             \/ \E a \in Attrs : Set(e, a, v)
             \/ \E p \in Procs : SetProc(e, p, v)
             \/ \E o \in Opts : Setopt(e, o, v)
             \/ \E l \in Lists : SetoptList(e, l, v)
        \/ (\E p \in {Nil, "public"} : SetPolicy(e, p)) \/ DropPolicy(e)
        \/ \E c \in Easies : Clone(e, c)
  BY OptionsAssumption DEF Next
<1>2. /\ ruby[e] \in RubyValues /\ curl[e] \in CurlOptions
      /\ \A l \in Lists : ruby[e][l] \in Values \cup {Nil}
  <2>1. Lists \subseteq Attrs \ {"policy"} BY DEF Lists, ListOrder, Attrs, RequestAttrs, RouteAttrs
  <2> QED BY <1>0, <2>1 DEF RubyValues, AttrValues
<1>3. SetupOptions(ruby[e], curl[e]) \in CurlOptions BY <1>2, SetupMeans
<1>4. SetupData(e) \in [DataOpts -> Easies \cup {Nil}] BY <1>0 DEF SetupData
<1>5. Cleared(e) \in [Lists -> {"own", "stale", Nil}] BY <1>0 DEF Cleared
<1>6. Built(e) \in [Lists -> {"own", "stale", Nil}] BY <1>5 DEF Built
<1>7. CASE Start(e)
  <2>1. [l \in Lists |-> ruby[e][l]] \in [Lists -> Values \cup {Nil}] BY <1>2
  <2> QED BY <1>0, <1>3, <1>4, <1>6, <1>7, <2>1 DEF Start, OptionsShaped
<1>8. CASE SetupRaises(e)
  <2>1. Pushed(ruby[e], curl[e], {"url", "doh_url"}) \in CurlOptions
    <3>1. {"url", "doh_url"} \in SUBSET (Attrs \ {"policy"}) BY DEF Attrs, RequestAttrs, RouteAttrs
    <3> QED BY <1>2, <3>1, PushedFacts
  <2>2. curl' \in [Easies -> CurlOptions]
    <3>1. \/ curl' = [curl EXCEPT ![e] = Pushed(ruby[e], curl[e], {"url", "doh_url"})]
          \/ curl' = [curl EXCEPT ![e] = SetupOptions(ruby[e], curl[e])]
      BY <1>8 DEF SetupRaises
    <3> QED BY <1>0, <1>3, <2>1, <3>1
  <2>3. data' \in [Easies -> [DataOpts -> Easies \cup {Nil}]]
    <3>1. data' = data \/ data' = [data EXCEPT ![e] = SetupData(e)] BY <1>8 DEF SetupRaises
    <3> QED BY <1>0, <1>4, <3>1
  <2>4. native' \in [Easies -> [Lists -> Values \cup {Nil}]]
        /\ slist' \in [Easies -> [Lists -> {"own", "stale", Nil}]]
    <3>1. CASE UNCHANGED <<native, slist>> BY <1>0, <3>1
    <3>2. ASSUME NEW n \in DOMAIN ListOrder, NEW held \in HeldUpTo(e, n),
                 native' = [native EXCEPT ![e] = held],
                 slist' = [slist EXCEPT ![e] = BuiltUpTo(e, n)]
          PROVE  native' \in [Easies -> [Lists -> Values \cup {Nil}]]
                 /\ slist' \in [Easies -> [Lists -> {"own", "stale", Nil}]]
      <4>1. ListOrder[n] \in Lists BY DEF Lists
      <4>2. held \in [Lists -> Values \cup {Nil}] BY <1>2, <4>1 DEF HeldUpTo
      <4>3. BuiltUpTo(e, n) \in [Lists -> {"own", "stale", Nil}] BY <1>5, <1>6 DEF BuiltUpTo
      <4> QED BY <1>0, <3>2, <4>2, <4>3
    <3> QED BY <1>8, <3>1, <3>2 DEF SetupRaises
  <2> QED BY <1>0, <1>8, <2>2, <2>3, <2>4 DEF SetupRaises, OptionsShaped
<1>9. CASE Finish(e)
  <2>1. Blank(Lists) \in [Lists -> Values \cup {Nil}] BY DEF Blank
  <2>2. CleanedData(e) \in [DataOpts -> Easies \cup {Nil}] BY <1>0 DEF CleanedData
  <2> QED BY <1>0, <1>5, <1>9, <2>1, <2>2 DEF Finish, OptionsShaped
<1>10. CASE PutData(e)
  BY <1>0, <1>10 DEF PutData, OptionsShaped
<1>11. CASE Reset(e) \/ Close(e)
  <2>1. /\ Blank(Attrs) \in RubyValues /\ Blank(Given) \in [Given -> Values \cup {Nil, "public"}]
        /\ Blank(Lists) \in [Lists -> Values \cup {Nil}]
        /\ Blank(Lists) \in [Lists -> {"own", "stale", Nil}]
    BY DEF Blank, RubyValues, AttrValues
  <2>2. [Blank(DataOpts) EXCEPT !["private"] = e] \in [DataOpts -> Easies \cup {Nil}] BY DEF Blank
  <2>3. curl' \in [Easies -> CurlOptions]
    <3>1. Blank(Opts) \in CurlOptions BY DEF Blank, CurlOptions, CurlValues
    <3>2. "engine" \in Opts BY DEF Opts
    <3>3. [Blank(Opts) EXCEPT !["engine"] = curl[e]["engine"]] \in CurlOptions
      BY <1>2, <3>1, <3>2 DEF CurlOptions
    <3> QED BY <1>0, <1>11, <3>1, <3>3 DEF Reset, Close
  <2>4. Zeroed(e) BY <1>11 DEF Reset, Close
  <2> QED BY <1>0, <2>1, <2>2, <2>3, <2>4 DEF Zeroed, OptionsShaped
<1>12. ASSUME NEW a \in Attrs \ {"policy"}, NEW v \in Values \cup {Nil},
              ruby' = [ruby EXCEPT ![e][a] = v]
       PROVE  ruby' \in [Easies -> RubyValues]
  <2>1. [ruby[e] EXCEPT ![a] = v] \in RubyValues BY <1>2 DEF RubyValues, AttrValues
  <2> QED BY <1>0, <1>12, <2>1
<1>13. ASSUME NEW a \in Given, NEW v \in Values \cup {Nil, "public"}, asked' = [asked EXCEPT ![e][a] = v]
       PROVE  asked' \in [Easies -> [Given -> Values \cup {Nil, "public"}]]
  <2>1. [asked[e] EXCEPT ![a] = v] \in [Given -> Values \cup {Nil, "public"}] BY <1>0
  <2> QED BY <1>0, <1>13, <2>1
<1>14. ASSUME NEW v \in Values \cup {Nil}, NEW a \in Attrs, Set(e, a, v) PROVE OptionsShaped'
  <2>1. a \in Attrs \ {"policy"} /\ a \in Given BY <1>14 DEF Set, Given
  <2> QED BY <1>0, <1>12, <1>13, <1>14, <2>1 DEF Set, OptionsShaped
<1>15. ASSUME NEW v \in Values \cup {Nil}, NEW p \in Procs, SetProc(e, p, v) PROVE OptionsShaped'
  <2>1. p \in Attrs \ {"policy"} /\ p \in Given BY DEF Procs, Attrs, Given
  <2> QED BY <1>0, <1>12, <1>13, <1>15, <2>1 DEF SetProc, OptionsShaped
<1>16. ASSUME NEW v \in Values \cup {Nil}, NEW o \in Opts, Setopt(e, o, v) PROVE OptionsShaped'
  <2>1. o \in Given /\ (o \in Both => o \in Attrs \ {"policy"})
    BY <1>16 DEF Setopt, Direct, DirectAndPushed, Both, Given, Attrs, FlagAttrs, RateAttrs,
                 VersionAttrs, RouteAttrs, SslAttrs
  <2>2. ruby' \in [Easies -> RubyValues]
    <3>1. CASE o \in Both BY <1>12, <1>16, <2>1, <3>1 DEF Setopt
    <3>2. CASE o \notin Both BY <1>0, <1>16, <3>2 DEF Setopt
    <3> QED BY <3>1, <3>2
  <2>3. curl' \in [Easies -> CurlOptions]
    <3>1. [curl[e] EXCEPT ![o] = v] \in CurlOptions BY <1>2 DEF CurlOptions, CurlValues
    <3> QED BY <1>0, <1>16, <3>1 DEF Setopt
  <2> QED BY <1>0, <1>13, <1>16, <2>1, <2>2, <2>3 DEF Setopt, OptionsShaped
<1>17. ASSUME NEW v \in Values \cup {Nil}, NEW l \in Lists, SetoptList(e, l, v) PROVE OptionsShaped'
  <2>1. l \in Attrs \ {"policy"} /\ l \in Given
    BY <1>17 DEF SetoptList, BothLists, Attrs, RouteAttrs, Given
  <2>2. native' \in [Easies -> [Lists -> Values \cup {Nil}]]
        /\ slist' \in [Easies -> [Lists -> {"own", "stale", Nil}]]
    BY <1>0, <1>17 DEF SetoptList
  <2> QED BY <1>0, <1>12, <1>13, <1>17, <2>1, <2>2 DEF SetoptList, OptionsShaped
<1>18. ASSUME NEW p \in {Nil, "public"}, SetPolicy(e, p) PROVE OptionsShaped'
  <2>1. "policy" \in Attrs /\ "allow_proxy" \in Attrs /\ Attrs \subseteq Given
    BY DEF Attrs, AllowAttrs, Given
  <2>2. PICK r : r = [ruby[e] EXCEPT !["policy"] = p, !["allow_proxy"] = Nil] OBVIOUS
  <2>3. r \in RubyValues BY <1>2, <2>1, <2>2 DEF RubyValues, AttrValues
  <2>4. ruby' = [ruby EXCEPT ![e] = r] BY <1>0, <1>18, <2>2 DEF SetPolicy
  <2>5. PICK a : a = [asked[e] EXCEPT !["policy"] = p, !["allow_proxy"] = Nil] OBVIOUS
  <2>6. a \in [Given -> Values \cup {Nil, "public"}] BY <1>0, <2>1, <2>5
  <2>7. asked' = [asked EXCEPT ![e] = a] BY <1>0, <1>18, <2>5 DEF SetPolicy
  <2>8. ruby' \in [Easies -> RubyValues] BY <1>0, <2>3, <2>4
  <2>9. asked' \in [Easies -> [Given -> Values \cup {Nil, "public"}]] BY <1>0, <2>6, <2>7
  <2> QED BY <1>0, <1>18, <2>8, <2>9 DEF SetPolicy, OptionsShaped
<1>19. ASSUME NEW c \in Easies, Clone(e, c) PROVE OptionsShaped'
  <2>1. ClonedData(e, c) \in [DataOpts -> Easies \cup {Nil}] BY <1>0 DEF ClonedData
  <2>2. [l \in Lists |-> IF slist[e][l] = Nil THEN Nil ELSE "stale"]
          \in [Lists -> {"own", "stale", Nil}]
    OBVIOUS
  <2> QED BY <1>0, <1>19, <2>1, <2>2 DEF Clone, ClonedLists, OptionsShaped
<1>20. CASE DropPolicy(e)
  <2>1. "policy" \in Attrs /\ "policy" \in Given BY DEF Attrs, Given
  <2>2. [ruby[e] EXCEPT !["policy"] = Nil] \in RubyValues BY <1>2, <2>1 DEF RubyValues, AttrValues
  <2>3. ruby' \in [Easies -> RubyValues] BY <1>0, <1>20, <2>2 DEF DropPolicy
  <2> QED BY <1>0, <1>13, <1>20, <2>1, <2>3 DEF DropPolicy, OptionsShaped
<1> QED BY <1>1, <1>7, <1>8, <1>9, <1>10, <1>11, <1>14, <1>15, <1>16, <1>17, <1>18, <1>19, <1>20

\* What is on an easy before, if a step leaves its state alone.
LEMMA SoundStays ==
  ASSUME NEW f, EasySound(f), ruby'[f] = ruby[f], asked'[f] = asked[f], upload'[f] = upload[f],
         curl'[f] = curl[f], native'[f] = native[f], slist'[f] = slist[f], data'[f] = data[f],
         f \in running' => f \in running
  PROVE  EasySound(f)'
<1>1. Kept(f)' BY DEF EasySound, Kept
<1>2. ListsHeld(f)' BY DEF EasySound, ListsHeld
<1>3. PointsBack(f)' BY DEF EasySound, PointsBack
<1>4. f \in running' => RunsRight(f)' BY DEF EasySound, RunsRight
<1> QED BY <1>1, <1>2, <1>3, <1>4, Zenon DEF EasySound

\* Curb holds all the lists that a clear takes back from libcurl.
LEMMA ClearedAll ==
  ASSUME NEW e \in Easies, ListsHeld(e)
  PROVE  \A l \in Lists : Cleared(e)[l] = Nil
BY DEF ListsHeld, Cleared

\* Setup makes a sound easy one whose transfer runs with what was asked for.
LEMMA StartSound ==
  ASSUME OptionsInv, NEW e \in Easies, Start(e)
  PROVE  EasySound(e)'
<1>0. OptionsShaped /\ EasySound(e) BY DEF OptionsInv
<1>1. /\ ruby[e] \in RubyValues /\ curl[e] \in CurlOptions
      /\ Kept(e) /\ ListsHeld(e) /\ PointsBack(e)
  BY <1>0 DEF OptionsShaped, EasySound
<1>2. /\ ruby'[e] = ruby[e] /\ asked'[e] = asked[e] /\ upload'[e] = upload[e]
      /\ curl'[e] = SetupOptions(ruby[e], curl[e])
      /\ native'[e] = [l \in Lists |-> ruby[e][l]] /\ slist'[e] = Built(e)
      /\ data'[e] = SetupData(e)
  BY <1>0 DEF OptionsShaped, Start
<1>3. Kept(e)' BY <1>1, <1>2, SetupMeans DEF Kept
<1>4. \A l \in Lists : slist'[e][l] = IF ruby[e][l] # Nil THEN "own" ELSE Nil
  BY <1>1, <1>2, ClearedAll DEF Built
<1>5. ListsHeld(e)' BY <1>2, <1>4 DEF ListsHeld
<1>6. /\ data'[e]["private"] = data[e]["private"] /\ data'[e]["readdata"] = data[e]["readdata"]
      /\ \A d \in DataOpts \ {"private", "readdata"} : data'[e][d] \in {e, Nil}
  BY <1>2 DEF SetupData, DataOpts
<1>7. PointsBack(e)' BY <1>1, <1>2, <1>6 DEF PointsBack
<1>8. \A d \in DataOpts : data'[e][d] \in {e, Nil} BY <1>1, <1>6 DEF PointsBack
<1>9. \A l \in Lists : slist'[e][l] = IF asked'[e][l] # Nil THEN "own" ELSE Nil
  <2>1. Lists \subseteq Attrs \ DirectAndPushed
    BY DEF Lists, ListOrder, Attrs, RequestAttrs, RouteAttrs, DirectAndPushed
  <2> QED BY <1>1, <1>2, <1>4, <2>1 DEF Kept
<1>10. ASSUME NEW o \in Opts \ (Doubtful \cup Inner)
       PROVE  SetRight(asked[e], o, SetupOptions(ruby[e], curl[e])[o])
  <2>1. CASE o \in Direct
    <3>1. SetupOptions(ruby[e], curl[e])[o] = asked[e][o] BY <1>1, <2>1, SetupMeans DEF Kept
    <3>2. Meant(asked[e], o) = asked[e][o] BY <2>1, MeantPlain DEF Direct
    <3> QED BY <3>1, <3>2 DEF SetRight
  <2>2. CASE o \notin Direct
    <3>1. SetRight(ruby[e], o, SetupOptions(ruby[e], curl[e])[o]) BY <1>1, <2>2, SetupMeans
    <3>2. \A x \in Attrs \ DirectAndPushed : asked[e][x] = ruby[e][x] BY <1>1 DEF Kept
    <3> QED BY <2>2, <3>1, <3>2, MeantAlike
  <2> QED BY <2>1, <2>2
<1>11. RunsRight(e)'
  <2>1. \A o \in Opts \ (Doubtful \cup Inner) : SetRight(asked'[e], o, curl'[e][o])
    BY <1>2, <1>10
  <2>2. (\A o \in Opts \ (Doubtful \cup Inner) : SetRight(asked[e], o, curl[e][o]))'
    BY <2>1 DEF SetRight, Meant, Public, DisablesProxy
  <2> QED BY <1>8, <1>9, <2>2, Zenon DEF RunsRight
<1> QED BY <1>3, <1>5, <1>7, <1>11 DEF EasySound

\* An easy whose transfer does not run is sound if its own state is.
LEMMA IdleSound ==
  ASSUME NEW f, f \notin running', Kept(f)', ListsHeld(f)', PointsBack(f)'
  PROVE  EasySound(f)'
BY DEF EasySound

\* A setup that raises half way leaves the easy sound.
LEMMA SetupRaisesSound ==
  ASSUME OptionsInv, NEW e \in Easies, SetupRaises(e)
  PROVE  EasySound(e)'
<1>0. OptionsShaped /\ EasySound(e) BY DEF OptionsInv
<1>1. /\ ruby[e] \in RubyValues /\ curl[e] \in CurlOptions
      /\ Kept(e) /\ ListsHeld(e) /\ PointsBack(e)
  BY <1>0 DEF OptionsShaped, EasySound
<1>2. /\ ruby' = ruby /\ asked' = asked /\ upload' = upload /\ e \notin running'
  BY DEF SetupRaises
<1>3. curl'[e] \in {Pushed(ruby[e], curl[e], {"url", "doh_url"}), SetupOptions(ruby[e], curl[e])}
  BY <1>0 DEF OptionsShaped, SetupRaises
<1>4. \A o \in Direct : curl'[e][o] = curl[e][o]
  <2>1. {"url", "doh_url"} \in SUBSET (Attrs \ {"policy"}) BY DEF Attrs, RequestAttrs, RouteAttrs
  <2>2. \A o \in Direct : Pushed(ruby[e], curl[e], {"url", "doh_url"})[o] = curl[e][o]
    BY <1>1, <2>1, PushedFacts, DirectApart DEF PolicyOpts
  <2>3. \A o \in Direct : SetupOptions(ruby[e], curl[e])[o] = curl[e][o] BY <1>1, SetupMeans
  <2> QED BY <1>3, <2>2, <2>3
<1>5. Kept(e)' BY <1>1, <1>2, <1>4 DEF Kept
<1>6. data'[e] \in {data[e], SetupData(e)} BY <1>0 DEF OptionsShaped, SetupRaises
<1>7. data'[e]["private"] = data[e]["private"] /\ data'[e]["readdata"] = data[e]["readdata"]
  BY <1>6 DEF SetupData, DataOpts
<1>8. PointsBack(e)' BY <1>1, <1>2, <1>7 DEF PointsBack
<1>9. ListsHeld(e)'
  <2>1. CASE UNCHANGED <<native, slist>> BY <1>1, <2>1 DEF ListsHeld
  <2>2. ASSUME NEW n \in DOMAIN ListOrder, NEW held \in HeldUpTo(e, n),
               native' = [native EXCEPT ![e] = held],
               slist' = [slist EXCEPT ![e] = BuiltUpTo(e, n)]
        PROVE  ListsHeld(e)'
    <3>1. native'[e] = held /\ slist'[e] = BuiltUpTo(e, n) BY <1>0, <2>2 DEF OptionsShaped
    <3>2. ASSUME NEW l \in Lists, BuiltUpTo(e, n)[l] # Nil PROVE held[l] # Nil
      <4>1. Cleared(e)[l] = Nil BY <1>1, ClearedAll
      <4>2. \E i \in 1 .. (n - 1) : ListOrder[i] = l BY <3>2, <4>1 DEF BuiltUpTo
      <4>3. ruby[e][l] # Nil BY <3>2, <4>1, <4>2 DEF BuiltUpTo, Built
      <4> QED BY <4>2, <4>3 DEF HeldUpTo
    <3> QED BY <3>1, <3>2 DEF ListsHeld
  <2> QED BY <2>1, <2>2 DEF SetupRaises
<1> QED BY <1>2, <1>5, <1>8, <1>9, IdleSound

\* Cleanup takes back the lists and the reader.
LEMMA FinishSound ==
  ASSUME OptionsInv, NEW e \in Easies, Finish(e)
  PROVE  EasySound(e)'
<1>0. OptionsShaped /\ Kept(e) /\ ListsHeld(e) /\ PointsBack(e) BY DEF OptionsInv, EasySound
<1>1. /\ ruby' = ruby /\ asked' = asked /\ curl' = curl /\ e \notin running'
      /\ upload'[e] = FALSE /\ slist'[e] = Cleared(e) /\ data'[e] = CleanedData(e)
  BY <1>0 DEF OptionsShaped, Finish
<1>2. Kept(e)' BY <1>0, <1>1 DEF Kept
<1>3. ListsHeld(e)' BY <1>0, <1>1, ClearedAll DEF ListsHeld
<1>4. PointsBack(e)'
  <2>1. data'[e]["private"] = data[e]["private"] BY <1>1 DEF CleanedData, DataOpts
  <2>2. data'[e]["readdata"] = Nil BY <1>0, <1>1 DEF CleanedData, DataOpts, PointsBack
  <2> QED BY <1>0, <1>1, <2>1, <2>2 DEF PointsBack
<1> QED BY <1>1, <1>2, <1>3, <1>4, IdleSound

\* put_data= leaves a reader that leads to the easy itself.
LEMMA PutDataSound ==
  ASSUME OptionsInv, NEW e \in Easies, PutData(e)
  PROVE  EasySound(e)'
<1>0. OptionsShaped /\ Kept(e) /\ ListsHeld(e) /\ PointsBack(e) BY DEF OptionsInv, EasySound
<1>1. UNCHANGED <<ruby, asked, curl, native, slist>> /\ e \notin running' BY DEF PutData
<1>2. Kept(e)' /\ ListsHeld(e)' BY <1>0, <1>1 DEF Kept, ListsHeld
<1>3. upload'[e] = TRUE /\ data'[e]["readdata"] = e /\ data'[e]["private"] = data[e]["private"]
  BY <1>0 DEF OptionsShaped, PutData, DataOpts
<1>4. PointsBack(e)' BY <1>0, <1>3 DEF PointsBack
<1> QED BY <1>1, <1>2, <1>4, IdleSound

\* After reset and close nothing is asked for and nothing is set.
LEMMA ZeroedSound ==
  ASSUME OptionsInv, NEW e \in Easies, Reset(e) \/ Close(e)
  PROVE  EasySound(e)'
<1>0. OptionsShaped BY DEF OptionsInv
<1>1. Zeroed(e) /\ e \notin running' BY DEF Reset, Close, Zeroed
<1>2. /\ ruby'[e] = Blank(Attrs) /\ asked'[e] = Blank(Given) /\ upload'[e] = FALSE
      /\ native'[e] = Blank(Lists) /\ slist'[e] = Blank(Lists)
      /\ data'[e] = [Blank(DataOpts) EXCEPT !["private"] = e]
  BY <1>0, <1>1 DEF OptionsShaped, Zeroed
<1>3. \A o \in Direct : curl'[e][o] = Nil
  <2>1. curl'[e] \in {Blank(Opts), [Blank(Opts) EXCEPT !["engine"] = curl[e]["engine"]]}
    BY <1>0 DEF OptionsShaped, Reset, Close
  <2> QED BY <2>1, DirectApart DEF Blank, CookieOpts
<1>4. Kept(e)' BY <1>2, <1>3 DEF Kept, Blank, Given
<1>5. ListsHeld(e)' BY <1>2 DEF ListsHeld, Blank
<1>6. PointsBack(e)' BY <1>2 DEF PointsBack, Blank, DataOpts
<1> QED BY <1>1, <1>4, <1>5, <1>6, IdleSound

\* The setters: what is asked for is kept.
LEMMA SetSound ==
  ASSUME OptionsInv, NEW e \in Easies, NEW v \in Values \cup {Nil}, NEW a \in Attrs, Set(e, a, v)
  PROVE  EasySound(e)'
<1>0. OptionsShaped /\ Kept(e) /\ ListsHeld(e) /\ PointsBack(e) BY DEF OptionsInv, EasySound
<1>1. UNCHANGED <<upload, curl, native, slist, data>> /\ e \notin running' BY DEF Set
<1>2. ListsHeld(e)' /\ PointsBack(e)' BY <1>0, <1>1 DEF ListsHeld, PointsBack
<1>3. a \notin Direct
  BY DEF Direct, Attrs, RequestAttrs, CertAttrs, CodingAttrs, RouteAttrs, AllowAttrs, PortAttrs,
         AuthAttrs, TimeoutAttrs, RateAttrs, UserAttrs, SslAttrs, FlagAttrs, MoreFlagAttrs,
         ModeAttrs, VersionAttrs, SetoptAttrs, Procs
<1>4. /\ \A x \in Attrs : ruby'[e][x] = IF x = a THEN v ELSE ruby[e][x]
      /\ \A x \in Given : asked'[e][x] = IF x = a THEN v ELSE asked[e][x]
  BY <1>0 DEF Set, OptionsShaped, RubyValues, Given
<1>5. Kept(e)' BY <1>0, <1>1, <1>3, <1>4 DEF Kept, Given
<1> QED BY <1>1, <1>2, <1>5, IdleSound

\* network_policy= is kept, and the permission of a proxy gone.
LEMMA SetPolicySound ==
  ASSUME OptionsInv, NEW e \in Easies, NEW p \in {Nil, "public"}, SetPolicy(e, p)
  PROVE  EasySound(e)'
<1>0. OptionsShaped /\ Kept(e) /\ ListsHeld(e) /\ PointsBack(e) BY DEF OptionsInv, EasySound
<1>1. UNCHANGED <<upload, curl, native, slist, data>> /\ e \notin running' BY DEF SetPolicy
<1>2. ListsHeld(e)' /\ PointsBack(e)' BY <1>0, <1>1 DEF ListsHeld, PointsBack
<1>3. /\ \A x \in Attrs : ruby'[e][x] = IF x = "policy" THEN p
                                        ELSE IF x = "allow_proxy" THEN Nil ELSE ruby[e][x]
      /\ \A x \in Given : asked'[e][x] = IF x = "policy" THEN p
                                         ELSE IF x = "allow_proxy" THEN Nil ELSE asked[e][x]
  BY <1>0 DEF SetPolicy, OptionsShaped, RubyValues
<1>4. Direct \subseteq Given \ {"policy", "allow_proxy"} BY DEF Direct, Given
<1>5. Kept(e)' BY <1>0, <1>1, <1>3, <1>4 DEF Kept, Given
<1> QED BY <1>1, <1>2, <1>5, IdleSound

\* network_policy= nil is kept too.
LEMMA DropPolicySound ==
  ASSUME OptionsInv, NEW e \in Easies, DropPolicy(e)
  PROVE  EasySound(e)'
<1>0. OptionsShaped /\ Kept(e) /\ ListsHeld(e) /\ PointsBack(e) BY DEF OptionsInv, EasySound
<1>1. UNCHANGED <<upload, curl, native, slist, data>> /\ e \notin running' BY DEF DropPolicy
<1>2. ListsHeld(e)' /\ PointsBack(e)' BY <1>0, <1>1 DEF ListsHeld, PointsBack
<1>3. /\ \A x \in Attrs : ruby'[e][x] = IF x = "policy" THEN Nil ELSE ruby[e][x]
      /\ \A x \in Given : asked'[e][x] = IF x = "policy" THEN Nil ELSE asked[e][x]
  BY <1>0 DEF DropPolicy, OptionsShaped, RubyValues
<1>4. Direct \subseteq Given \ {"policy"} BY DEF Direct, Given
<1>5. Kept(e)' BY <1>0, <1>1, <1>3, <1>4 DEF Kept, Given
<1> QED BY <1>1, <1>2, <1>5, IdleSound

\* setopt for the options that go to libcurl at once.
LEMMA SetoptSound ==
  ASSUME OptionsInv, NEW e \in Easies, NEW v \in Values \cup {Nil}, NEW o \in Opts, Setopt(e, o, v)
  PROVE  EasySound(e)'
<1>0. OptionsShaped /\ Kept(e) /\ ListsHeld(e) /\ PointsBack(e) BY DEF OptionsInv, EasySound
<1>1. UNCHANGED <<upload, native, slist, data>> /\ e \notin running' BY DEF Setopt
<1>2. ListsHeld(e)' /\ PointsBack(e)' BY <1>0, <1>1 DEF ListsHeld, PointsBack
<1>3. o \in Direct \cup DirectAndPushed \cup Both BY DEF Setopt
<1>4. Direct \subseteq Given /\ Direct \subseteq Opts /\ Attrs \subseteq Given
  BY DirectApart DEF Given
<1>5. \A x \in Opts : curl'[e][x] = IF x = o THEN v ELSE curl[e][x]
  BY <1>0 DEF Setopt, OptionsShaped, CurlOptions
<1>6. \A x \in Given : asked'[e][x] = IF x = o THEN v ELSE asked[e][x]
  BY <1>0 DEF Setopt, OptionsShaped
<1>7. \A x \in Attrs : ruby'[e][x] = IF x = o /\ o \in Both THEN v ELSE ruby[e][x]
  BY <1>0 DEF Setopt, OptionsShaped, RubyValues
<1>8. \A x \in Direct : curl'[e][x] = asked'[e][x] BY <1>0, <1>4, <1>5, <1>6 DEF Kept
<1>9. \A x \in Attrs \ DirectAndPushed : ruby'[e][x] = asked'[e][x]
  <2> SUFFICES ASSUME NEW x \in Attrs \ DirectAndPushed PROVE ruby'[e][x] = asked'[e][x] OBVIOUS
  <2>1. x \notin Direct
    BY DEF Direct, Attrs, RequestAttrs, CertAttrs, CodingAttrs, RouteAttrs, AllowAttrs, PortAttrs,
           AuthAttrs, TimeoutAttrs, RateAttrs, UserAttrs, SslAttrs, FlagAttrs, MoreFlagAttrs,
           ModeAttrs, VersionAttrs, SetoptAttrs, Procs
  <2>2. x = o => o \in Both BY <1>3, <2>1
  <2>3. ruby[e][x] = asked[e][x] BY <1>0 DEF Kept
  <2> QED BY <1>4, <1>6, <1>7, <2>2, <2>3
<1>10. Kept(e)' BY <1>8, <1>9 DEF Kept
<1> QED BY <1>1, <1>2, <1>10, IdleSound

\* setopt for the lists that go to libcurl at once.
LEMMA SetoptListSound ==
  ASSUME OptionsInv, NEW e \in Easies, NEW v \in Values \cup {Nil}, NEW l \in Lists,
         SetoptList(e, l, v)
  PROVE  EasySound(e)'
<1>0. OptionsShaped /\ Kept(e) /\ ListsHeld(e) /\ PointsBack(e) BY DEF OptionsInv, EasySound
<1>1. UNCHANGED <<upload, curl, data>> /\ e \notin running' BY DEF SetoptList
<1>2. PointsBack(e)' BY <1>0, <1>1 DEF PointsBack
<1>3. l \in Attrs /\ l \notin Direct BY DEF SetoptList, BothLists, Attrs, RouteAttrs, Direct
<1>4. /\ \A x \in Attrs : ruby'[e][x] = IF x = l THEN v ELSE ruby[e][x]
      /\ \A x \in Given : asked'[e][x] = IF x = l THEN v ELSE asked[e][x]
  BY <1>0, <1>3 DEF SetoptList, OptionsShaped, RubyValues, Given
<1>5. Kept(e)' BY <1>0, <1>1, <1>3, <1>4 DEF Kept, Given
<1>6. /\ \A x \in Lists : native'[e][x] = IF x = l THEN v ELSE native[e][x]
      /\ \A x \in Lists : slist'[e][x] = IF x = l THEN (IF v = Nil THEN Nil ELSE "own")
                                         ELSE slist[e][x]
  BY <1>0 DEF SetoptList, OptionsShaped
<1>7. ListsHeld(e)' BY <1>0, <1>6 DEF ListsHeld
<1> QED BY <1>1, <1>2, <1>5, <1>7, IdleSound

\* A handler that is set within the transfer changes nothing of what runs.
LEMMA SetProcSound ==
  ASSUME OptionsInv, NEW e \in Easies, NEW v \in Values \cup {Nil}, NEW p \in Procs, SetProc(e, p, v)
  PROVE  EasySound(e)'
<1>0. /\ OptionsShaped /\ Kept(e) /\ ListsHeld(e) /\ PointsBack(e)
      /\ e \in running => RunsRight(e)
  BY DEF OptionsInv, EasySound
<1>1. UNCHANGED <<upload, curl, native, slist, data, running>> BY DEF SetProc
<1>2. ListsHeld(e)' /\ PointsBack(e)' BY <1>0, <1>1 DEF ListsHeld, PointsBack
<1>3. p \in Attrs /\ p \notin Direct /\ Direct \subseteq Given /\ Attrs \subseteq Given /\ p \notin Lists
  BY DEF Attrs, Procs, Direct, Given, Lists, ListOrder
<1>4. /\ \A x \in Attrs : ruby'[e][x] = IF x = p THEN v ELSE ruby[e][x]
      /\ \A x \in Given : asked'[e][x] = IF x = p THEN v ELSE asked[e][x]
  BY <1>0, <1>3 DEF SetProc, OptionsShaped, RubyValues
<1>5. Kept(e)' BY <1>0, <1>1, <1>3, <1>4 DEF Kept
<1>6. ASSUME e \in running PROVE RunsRight(e)'
  <2>0. RunsRight(e) BY <1>0, <1>6
  <2>1. PICK a : a = asked'[e] OBVIOUS
  <2>2. \A x \in Given \ {p} : a[x] = asked[e][x] BY <1>4, <2>1
  <2>3. ASSUME NEW o \in Opts \ (Doubtful \cup Inner) PROVE SetRight(a, o, curl[e][o])
    <3>1. SetRight(asked[e], o, curl[e][o]) BY <2>0 DEF RunsRight
    <3>2. CASE o \in Direct
      <4>1. a[o] = asked[e][o] BY <1>3, <2>2, <3>2
      <4>2. Meant(a, o) = a[o] /\ Meant(asked[e], o) = asked[e][o]
        BY <3>2, MeantPlain DEF Direct
      <4> QED BY <3>1, <4>1, <4>2 DEF SetRight
    <3>3. CASE o \notin Direct
      <4>1. \A x \in Attrs \ (DirectAndPushed \cup Procs) : a[x] = asked[e][x] BY <1>3, <2>2
      <4> QED BY <3>1, <3>3, <4>1, MeantAlike
    <3> QED BY <3>2, <3>3
  <2>4. (\A o \in Opts \ (Doubtful \cup Inner) : SetRight(asked[e], o, curl[e][o]))'
    BY <1>1, <2>1, <2>3 DEF SetRight, Meant, Public, DisablesProxy
  <2>5. Lists \subseteq Given
    BY DEF Lists, ListOrder, Given, Attrs, RequestAttrs, RouteAttrs
  <2>6. \A l \in Lists : slist'[e][l] = IF asked'[e][l] # Nil THEN "own" ELSE Nil
    BY <1>1, <1>3, <1>4, <2>0, <2>5 DEF RunsRight
  <2>7. \A d \in DataOpts : data'[e][d] \in {e, Nil} BY <1>1, <2>0 DEF RunsRight
  <2> QED BY <2>4, <2>6, <2>7, Zenon DEF RunsRight
<1> QED BY <1>1, <1>2, <1>5, <1>6 DEF EasySound

\* The clone has lists and pointers of its own, or takes back those it was given.
LEMMA CloneSound ==
  ASSUME OptionsInv, NEW e \in Easies, NEW c \in Easies, Clone(e, c)
  PROVE  EasySound(c)'
<1>0. OptionsShaped /\ Kept(e) /\ ListsHeld(e) /\ PointsBack(e) BY DEF OptionsInv, EasySound
<1>1. c \notin running' BY <1>0 DEF Clone, OptionsShaped
<1>2. /\ ruby'[c] = ruby[e] /\ asked'[c] = asked[e] /\ upload'[c] = upload[e] /\ curl'[c] = curl[e]
      /\ native'[c] = native[e] /\ data'[c] = ClonedData(e, c)
      /\ slist'[c] = [l \in Lists |-> IF slist[e][l] = Nil THEN Nil ELSE "stale"]
  BY <1>0 DEF Clone, ClonedLists, OptionsShaped
<1>3. Kept(c)' BY <1>0, <1>2 DEF Kept
<1>4. ListsHeld(c)' BY <1>0, <1>2 DEF ListsHeld
<1>5. data'[c]["private"] = c /\ data'[c]["readdata"] = IF upload[e] THEN c ELSE Nil
  BY <1>0, <1>2 DEF ClonedData, DataOpts, PointsBack
<1>6. PointsBack(c)' BY <1>2, <1>5 DEF PointsBack
<1> QED BY <1>1, <1>3, <1>4, <1>6, IdleSound

\* A step touches one easy, and leaves every easy sound.
LEMMA SoundStep ==
  ASSUME OptionsInv, Next, NEW f \in Easies
  PROVE  EasySound(f)'
<1>0. /\ EasySound(f) /\ OptionsShaped
      /\ DOMAIN ruby = Easies /\ DOMAIN asked = Easies /\ DOMAIN upload = Easies
      /\ DOMAIN curl = Easies /\ DOMAIN native = Easies /\ DOMAIN slist = Easies
      /\ DOMAIN data = Easies
  BY DEF OptionsInv, OptionsShaped
<1>1. PICK e \in Easies :
        \/ Start(e) \/ SetupRaises(e) \/ Finish(e) \/ PutData(e) \/ Reset(e) \/ Close(e)
        \/ \E v \in Values \cup {Nil} :
             \/ \E a \in Attrs : Set(e, a, v)
             \/ \E p \in Procs : SetProc(e, p, v)
             \/ \E o \in Opts : Setopt(e, o, v)
             \/ \E l \in Lists : SetoptList(e, l, v)
        \/ (\E p \in {Nil, "public"} : SetPolicy(e, p)) \/ DropPolicy(e)
        \/ \E c \in Easies : Clone(e, c)
  BY OptionsAssumption DEF Next
<1>2. CASE Start(e)
  <2>1. CASE f = e BY <1>2, <2>1, StartSound
  <2>2. CASE f # e BY <1>0, <1>2, <2>2, SoundStays DEF Start
  <2> QED BY <2>1, <2>2
<1>3. CASE SetupRaises(e)
  <2>1. CASE f = e BY <1>3, <2>1, SetupRaisesSound
  <2>2. CASE f # e
    <3>1. curl'[f] = curl[f] /\ native'[f] = native[f] /\ slist'[f] = slist[f] /\ data'[f] = data[f]
      BY <1>0, <1>3, <2>2 DEF SetupRaises
    <3> QED BY <1>0, <1>3, <3>1, SoundStays DEF SetupRaises
  <2> QED BY <2>1, <2>2
<1>4. CASE Finish(e)
  <2>1. CASE f = e BY <1>4, <2>1, FinishSound
  <2>2. CASE f # e BY <1>0, <1>4, <2>2, SoundStays DEF Finish
  <2> QED BY <2>1, <2>2
<1>5. CASE PutData(e)
  <2>1. CASE f = e BY <1>5, <2>1, PutDataSound
  <2>2. CASE f # e BY <1>0, <1>5, <2>2, SoundStays DEF PutData
  <2> QED BY <2>1, <2>2
<1>6. CASE Reset(e) \/ Close(e)
  <2>1. CASE f = e BY <1>6, <2>1, ZeroedSound
  <2>2. CASE f # e BY <1>0, <1>6, <2>2, SoundStays DEF Reset, Close, Zeroed
  <2> QED BY <2>1, <2>2
<1>7. ASSUME NEW v \in Values \cup {Nil}, NEW a \in Attrs, Set(e, a, v) PROVE EasySound(f)'
  <2>1. CASE f = e BY <1>7, <2>1, SetSound
  <2>2. CASE f # e BY <1>0, <1>7, <2>2, SoundStays DEF Set
  <2> QED BY <2>1, <2>2
<1>8. ASSUME NEW v \in Values \cup {Nil}, NEW p \in Procs, SetProc(e, p, v) PROVE EasySound(f)'
  <2>1. CASE f = e BY <1>8, <2>1, SetProcSound
  <2>2. CASE f # e BY <1>0, <1>8, <2>2, SoundStays DEF SetProc
  <2> QED BY <2>1, <2>2
<1>9. ASSUME NEW v \in Values \cup {Nil}, NEW o \in Opts, Setopt(e, o, v) PROVE EasySound(f)'
  <2>1. CASE f = e BY <1>9, <2>1, SetoptSound
  <2>2. CASE f # e
    <3>1. ruby'[f] = ruby[f] BY <1>0, <1>9, <2>2 DEF Setopt
    <3> QED BY <1>0, <1>9, <2>2, <3>1, SoundStays DEF Setopt
  <2> QED BY <2>1, <2>2
<1>10. ASSUME NEW v \in Values \cup {Nil}, NEW l \in Lists, SetoptList(e, l, v) PROVE EasySound(f)'
  <2>1. CASE f = e BY <1>10, <2>1, SetoptListSound
  <2>2. CASE f # e BY <1>0, <1>10, <2>2, SoundStays DEF SetoptList
  <2> QED BY <2>1, <2>2
<1>11. ASSUME NEW p \in {Nil, "public"}, SetPolicy(e, p) PROVE EasySound(f)'
  <2>1. CASE f = e BY <1>11, <2>1, SetPolicySound
  <2>2. CASE f # e
    <3>1. ruby'[f] = ruby[f] /\ asked'[f] = asked[f] BY <1>0, <1>11, <2>2 DEF SetPolicy
    <3> QED BY <1>0, <1>11, <3>1, SoundStays DEF SetPolicy
  <2> QED BY <2>1, <2>2
<1>12. ASSUME NEW c \in Easies, Clone(e, c) PROVE EasySound(f)'
  <2>1. CASE f = c BY <1>12, <2>1, CloneSound
  <2>2. CASE f # c BY <1>0, <1>12, <2>2, SoundStays DEF Clone
  <2> QED BY <2>1, <2>2
<1>13. CASE DropPolicy(e)
  <2>1. CASE f = e BY <1>13, <2>1, DropPolicySound
  <2>2. CASE f # e
    <3>1. ruby'[f] = ruby[f] /\ asked'[f] = asked[f] BY <1>0, <1>13, <2>2 DEF DropPolicy
    <3> QED BY <1>0, <1>13, <3>1, SoundStays DEF DropPolicy
  <2> QED BY <2>1, <2>2
<1> QED BY <1>1, <1>2, <1>3, <1>4, <1>5, <1>6, <1>7, <1>8, <1>9, <1>10, <1>11, <1>12, <1>13

\* The invariant of the options.
LEMMA OptionsInvAlways == Spec => []OptionsInv
<1>1. Init => OptionsInv
  <2> SUFFICES ASSUME Init PROVE OptionsInv OBVIOUS
  <2>1. /\ Blank(Attrs) \in RubyValues /\ Blank(Given) \in [Given -> Values \cup {Nil, "public"}]
        /\ Blank(Opts) \in CurlOptions /\ Blank(Lists) \in [Lists -> Values \cup {Nil}]
        /\ Blank(Lists) \in [Lists -> {"own", "stale", Nil}]
    BY DEF Blank, RubyValues, AttrValues, CurlOptions, CurlValues
  <2>2. \A e \in Easies :
          [Blank(DataOpts) EXCEPT !["private"] = e] \in [DataOpts -> Easies \cup {Nil}]
    BY DEF Blank
  <2>3. OptionsShaped BY <2>1, <2>2, OptionsAssumption DEF Init, OptionsShaped
  <2>4. ASSUME NEW e \in Easies PROVE EasySound(e)
    <3>1. Kept(e) BY DirectApart DEF Init, Kept, Blank, Given
    <3>2. ListsHeld(e) BY DEF Init, ListsHeld, Blank
    <3>3. PointsBack(e) BY DEF Init, PointsBack, Blank, DataOpts
    <3> QED BY <3>1, <3>2, <3>3 DEF Init, EasySound
  <2> QED BY <2>3, <2>4 DEF OptionsInv
<1>2. OptionsInv /\ [Next]_vars => OptionsInv'
  <2> SUFFICES ASSUME OptionsInv, [Next]_vars PROVE OptionsInv' OBVIOUS
  <2>1. CASE Next
    <3>1. OptionsShaped' BY <2>1, ShapedStep
    <3>2. \A f \in Easies : EasySound(f)' BY <2>1, SoundStep
    <3> QED BY <3>1, <3>2 DEF OptionsInv
  <2>2. CASE UNCHANGED vars
    <3>1. OptionsShaped' BY <2>2 DEF vars, OptionsInv, OptionsShaped
    <3>2. ASSUME NEW f \in Easies PROVE EasySound(f)'
      BY <2>2, SoundStays DEF vars, OptionsInv
    <3> QED BY <3>1, <3>2 DEF OptionsInv
  <2> QED BY <2>1, <2>2
<1> QED BY <1>1, <1>2, PTL DEF Spec

\* A transfer runs with what the program asked for, whatever earlier transfers,
\* the network policy, clones or the time before a reset left in the libcurl
\* handle (ruby_curl_easy_setup, ruby_curl_easy_set_opt).
THEOREM TransfersRunAsAsked == Spec => []RunsAsAsked
<1>1. OptionsInv => RunsAsAsked
  <2> SUFFICES ASSUME OptionsInv, NEW e \in running, NEW o \in Opts \ (Doubtful \cup Inner)
               PROVE  IF o \in Sticky THEN asked[e][o] # Nil => curl[e][o] = asked[e][o]
                      ELSE curl[e][o] = Meant(asked[e], o)
    BY DEF RunsAsAsked
  <2>1. e \in Easies BY DEF OptionsInv, OptionsShaped
  <2>2. RunsRight(e) BY <2>1 DEF OptionsInv, EasySound
  <2> QED BY <2>2 DEF RunsRight, SetRight
<1> QED BY <1>1, OptionsInvAlways, PTL

\* What a running transfer reads of lists and is called back with belongs to its
\* own easy: none was freed by ruby_curl_easy_cleanup, nor left to a clone by
\* curl_easy_duphandle.
THEOREM TransfersOwnWhatTheyUse == Spec => []OwnsWhatItUses
<1>1. OptionsInv => OwnsWhatItUses
  <2> SUFFICES ASSUME OptionsInv PROVE OwnsWhatItUses OBVIOUS
  <2>0. OptionsShaped /\ running \subseteq Easies /\ \A e \in Easies : EasySound(e)
    BY DEF OptionsInv, OptionsShaped
  <2>1. TypeOK
    <3>1. ASSUME NEW e \in alive
          PROVE  /\ \A a \in Attrs : ruby[e][a] \in Values \cup {Nil, "public"}
                 /\ \A o \in Opts : curl[e][o] \in Values \cup {Nil, "on", "off", "none", "proc", "default"}
                 /\ \A l \in Lists : slist[e][l] = "own" => native[e][l] # Nil
                 /\ data[e]["private"] = e
      <4>1. e \in Easies /\ ruby[e] \in RubyValues /\ curl[e] \in CurlOptions
        BY <2>0 DEF OptionsShaped
      <4>2. \A a \in Attrs : ruby[e][a] \in Values \cup {Nil, "public"} BY <4>1 DEF RubyValues
      <4>3. \A o \in Opts : curl[e][o] \in Values \cup {Nil, "on", "off", "none", "proc", "default"}
        BY <4>1 DEF CurlOptions, CurlValues
      <4>4. \A l \in Lists : slist[e][l] = "own" => native[e][l] # Nil
        BY <2>0, <4>1, OptionsAssumption DEF EasySound, ListsHeld
      <4>5. data[e]["private"] = e BY <2>0, <4>1 DEF EasySound, PointsBack
      <4> QED BY <4>2, <4>3, <4>4, <4>5
    <3> QED BY <2>0, <3>1 DEF TypeOK, OptionsShaped
  <2>2. ListsAreOwn BY <2>0 DEF ListsAreOwn, EasySound, RunsRight
  <2>3. CallbacksAreOwn
    <3> SUFFICES ASSUME NEW e \in running, NEW d \in DataOpts
                 PROVE  data[e][d] \in {e, Nil} /\ (d = "readdata" => (data[e][d] = e <=> upload[e]))
      BY DEF CallbacksAreOwn
    <3>1. e \in Easies /\ RunsRight(e) /\ PointsBack(e) BY <2>0 DEF EasySound
    <3>2. e # Nil BY <3>1, OptionsAssumption
    <3> QED BY <3>1, <3>2 DEF RunsRight, PointsBack
  <2> QED BY <2>1, <2>2, <2>3 DEF OwnsWhatItUses
<1> QED BY <1>1, OptionsInvAlways, PTL

-----------------------------------------------------------------------------
(***************************************************************************)
(* The callbacks of a transfer.  TransferInv counts what the program was   *)
(* given and what libcurl was sent, at every step of a handler.            *)
(***************************************************************************)

\* The body chunk that an on_body handler is looking at.
Pending == IF pc = "callback" /\ call.name = "body" THEN call.size ELSE 0

\* What the program gets is counted, and the limit applied to the count.
BodyCounted ==
  /\ delivered + Pending <= MaxBody
  /\ pc \in {"transfer", "callback"} => downloaded <= delivered + Pending
  /\ refused > 0 => pc = "idle"
  /\ "midway" \notin liberties /\ limit > 0 =>
       /\ delivered <= downloaded /\ downloaded <= limit
       /\ pc \in {"transfer", "callback"} => downloaded = delivered + Pending

CallbackGuarded ==
  /\ active <=> pc = "callback"
  /\ pc = "callback" => closing # "closed"
  /\ pc = "idle" => closing # "refused"
  /\ pc = "callback" => /\ call.name \in Handlers
                        /\ call.name = "read" => kind \in {"io", "pipe"} /\ call.size > 0
                        /\ call.name = "seek" => kind = "io"

ErrorsAgree ==
  /\ error = first
  /\ pc # "idle" => error = "none"
  /\ pc = "idle" /\ error # "none" => result = error

Position == IF kind = "string" THEN offset ELSE pos

UploadInOrder ==
  kind # "pipe" => /\ Len(sent) = Position
                   /\ \A i \in 1 .. Len(sent) : sent[i] = i
                   /\ ended => Len(sent) = UploadLen

TransferInv == TransferTypeOK /\ BodyCounted /\ LimitIsReal /\ CallbackGuarded /\ ErrorsAgree /\ UploadInOrder

-----------------------------------------------------------------------------
\* A chunk never goes past the end of the data, and is empty only there.
LEMMA ChunkFacts ==
  ASSUME NEW from \in 0 .. UploadLen, NEW n \in 0 .. MaxChunk
  PROVE  /\ Chunk(from, n) \in Nat /\ from + Chunk(from, n) \in 0 .. UploadLen
         /\ n > 0 /\ Chunk(from, n) = 0 => from = UploadLen
BY TransferAssumption DEF Chunk

\* What libcurl has after a chunk.
LEMMA ChunkSent ==
  ASSUME NEW from \in 0 .. UploadLen, NEW n \in 0 .. MaxChunk, NEW s \in Seq(1 .. UploadLen)
  PROVE  LET t == s \o [i \in 1 .. Chunk(from, n) |-> from + i]
         IN /\ t \in Seq(1 .. UploadLen) /\ Len(t) = Len(s) + Chunk(from, n)
            /\ (Len(s) = from /\ \A i \in 1 .. Len(s) : s[i] = i) => \A i \in 1 .. Len(t) : t[i] = i
<1>1. PICK k \in Nat : k = Chunk(from, n) BY ChunkFacts
<1>2. from \in Nat /\ from + k <= UploadLen /\ UploadLen \in Nat
  BY <1>1, ChunkFacts, TransferAssumption
<1>3. PICK c : c = [i \in 1 .. k |-> from + i] OBVIOUS
<1>4. \A i \in 1 .. k : c[i] = from + i /\ c[i] \in 1 .. UploadLen BY <1>2, <1>3
<1>5. c \in Seq(1 .. UploadLen) /\ Len(c) = k BY <1>3, <1>4
<1>6. PICK t : t = s \o c OBVIOUS
<1>7. /\ t \in Seq(1 .. UploadLen) /\ Len(t) = Len(s) + Len(c)
      /\ \A i \in 1 .. Len(s) + Len(c) : t[i] = IF i <= Len(s) THEN s[i] ELSE c[i - Len(s)]
  BY <1>5, <1>6, ConcatProperties, Zenon
<1>8. PICK l \in Nat : l = Len(s) OBVIOUS
<1>9. ASSUME l = from, \A i \in 1 .. l : s[i] = i, NEW i \in 1 .. l + k
      PROVE  t[i] = i
  <2>1. t[i] = IF i <= l THEN s[i] ELSE c[i - l] BY <1>5, <1>7, <1>8
  <2>2. CASE i <= l BY <1>9, <2>1, <2>2
  <2>3. CASE ~(i <= l)
    <3>1. i - l \in 1 .. k BY <2>3
    <3>2. c[i - l] = l + (i - l) BY <1>4, <1>9, <3>1
    <3> QED BY <2>1, <2>3, <3>2
  <2> QED BY <2>2, <2>3
<1>10. /\ t \in Seq(1 .. UploadLen) /\ Len(t) = Len(s) + k
       /\ (Len(s) = from /\ \A i \in 1 .. Len(s) : s[i] = i) => \A i \in 1 .. Len(t) : t[i] = i
  BY <1>5, <1>7, <1>8, <1>9
<1>11. s \o [i \in 1 .. Chunk(from, n) |-> from + i] = t BY <1>1, <1>3, <1>6
<1> QED BY <1>1, <1>10, <1>11, Zenon

-----------------------------------------------------------------------------
\* A handler runs within a guarded callback, and only then.
LEMMA GuardedStep ==
  ASSUME TransferTypeOK, CallbackGuarded, TransferNext
  PROVE  CallbackGuarded'
<1> USE DEF CallbackGuarded
<1>1. CASE Begin BY <1>1 DEF Begin
<1>2. CASE FinishTransfer BY <1>2 DEF FinishTransfer, Ends
<1>3. ASSUME NEW n \in 1 .. MaxChunk, Body(n) PROVE CallbackGuarded'
  <2>1. CASE Exceeds(n) BY <1>3, <2>1 DEF Body, Ends
  <2>2. CASE ~Exceeds(n) /\ UNCHANGED <<pc, active, call, closing>>
    BY <1>3, <2>2 DEF Body, uploadVars
  <2>3. CASE ~Exceeds(n) /\ CallsHandler("body", n)
    BY <1>3, <2>3 DEF Body, CallsHandler, CallsGuarded, Handlers, uploadVars
  <2> QED BY <1>3, <2>1, <2>2, <2>3 DEF Body
<1>4. ASSUME NEW n \in 1 .. MaxChunk, ReadString(n) PROVE CallbackGuarded'
  BY <1>4 DEF ReadString
<1>5. ASSUME NEW n \in 1 .. MaxChunk, ReadStream(n) PROVE CallbackGuarded'
  BY <1>5 DEF ReadStream, CallsHandler, CallsGuarded, Handlers, uploadVars
<1>6. ASSUME NEW name \in {"header", "progress", "debug"}, Notify(name) PROVE CallbackGuarded'
  BY <1>6 DEF Notify, CallsHandler, CallsGuarded, Handlers, uploadVars
<1>7. CASE SeekOffset BY <1>7 DEF SeekOffset
<1>8. CASE SeekStream BY <1>8 DEF SeekStream, CallsHandler, CallsGuarded, Handlers, uploadVars
<1>9. CASE Returns BY <1>9 DEF Returns, Continues
<1>10. CASE ReturnsOther \/ ReturnsNoString \/ StringRaises
  BY <1>10 DEF ReturnsOther, ReturnsNoString, StringRaises, Ends
<1>11. CASE RaisesStored BY <1>11 DEF RaisesStored, Ends
<1>12. CASE RaisesDropped BY <1>12 DEF RaisesDropped, Ends, Continues
<1>13. CASE Escapes BY <1>13 DEF Escapes
<1>14. CASE CloseEasy BY <1>14 DEF CloseEasy, uploadVars
<1>15. CASE SetLimit \/ Duplicate \/ CloseDuplicate
  BY <1>15 DEF SetLimit, Duplicate, CloseDuplicate, uploadVars
<1> QED BY <1>1, <1>2, <1>3, <1>4, <1>5, <1>6, <1>7, <1>8, <1>9, <1>10, <1>11, <1>12, <1>13,
           <1>14, <1>15 DEF TransferNext

\* The stored exception is the first one, and none is stored while the transfer runs.
LEMMA ErrorsStep ==
  ASSUME TransferTypeOK, ErrorsAgree, TransferNext
  PROVE  ErrorsAgree'
<1> USE DEF ErrorsAgree
<1>1. CASE Begin BY <1>1 DEF Begin
<1>2. CASE FinishTransfer BY <1>2 DEF FinishTransfer, Ends, errorVars
<1>3. ASSUME NEW n \in 1 .. MaxChunk, Body(n) PROVE ErrorsAgree'
  <2>1. CASE Exceeds(n) BY <1>3, <2>1 DEF Body, Ends, Remember, Store
  <2>2. CASE ~Exceeds(n) /\ UNCHANGED <<pc, result, errorVars>> BY <1>3, <2>2 DEF Body, errorVars
  <2>3. CASE ~Exceeds(n) /\ CallsHandler("body", n) BY <1>3, <2>3 DEF Body, CallsHandler, errorVars
  <2> QED BY <1>3, <2>1, <2>2, <2>3 DEF Body
<1>4. ASSUME NEW n \in 1 .. MaxChunk, ReadString(n) PROVE ErrorsAgree'
  BY <1>4 DEF ReadString, errorVars
<1>5. ASSUME NEW n \in 1 .. MaxChunk, ReadStream(n) PROVE ErrorsAgree'
  BY <1>5 DEF ReadStream, CallsHandler, errorVars
<1>6. ASSUME NEW name \in {"header", "progress", "debug"}, Notify(name) PROVE ErrorsAgree'
  BY <1>6 DEF Notify, CallsHandler, errorVars
<1>7. CASE SeekOffset BY <1>7 DEF SeekOffset, errorVars
<1>8. CASE SeekStream BY <1>8 DEF SeekStream, CallsHandler, errorVars
<1>9. CASE Returns BY <1>9 DEF Returns, Continues, errorVars
<1>10. CASE ReturnsOther \/ ReturnsNoString \/ StringRaises
  BY <1>10 DEF ReturnsOther, ReturnsNoString, StringRaises, Remember, Store, Ends, errorVars
<1>11. CASE RaisesStored BY <1>11 DEF RaisesStored, Ends, Store
<1>12. CASE RaisesDropped BY <1>12 DEF RaisesDropped, Ends, Continues, errorVars
<1>13. CASE Escapes BY <1>13 DEF Escapes, errorVars
<1>14. CASE CloseEasy BY <1>14 DEF CloseEasy, errorVars
<1>15. CASE SetLimit \/ Duplicate \/ CloseDuplicate
  BY <1>15 DEF SetLimit, Duplicate, CloseDuplicate, errorVars
<1> QED BY <1>1, <1>2, <1>3, <1>4, <1>5, <1>6, <1>7, <1>8, <1>9, <1>10, <1>11, <1>12, <1>13,
           <1>14, <1>15 DEF TransferNext

\* libcurl has the data of the upload up to its position.
LEMMA UploadStep ==
  ASSUME TransferTypeOK, CallbackGuarded, UploadInOrder, TransferNext
  PROVE  UploadInOrder'
<1>0. /\ sent \in Seq(1 .. UploadLen) /\ offset \in 0 .. UploadLen /\ pos \in 0 .. UploadLen
      /\ UploadLen \in Nat
  BY TransferAssumption DEF TransferTypeOK
<1>a. ASSUME UNCHANGED uploadVars PROVE UploadInOrder'
  BY <1>a DEF UploadInOrder, Position, uploadVars
<1>b. ASSUME sent' = <<>>, Position' = 0, ended' = FALSE PROVE UploadInOrder'
  BY <1>b DEF UploadInOrder
<1>1. CASE Begin BY <1>b, <1>1 DEF Begin, Position
<1>2. CASE FinishTransfer BY <1>a, <1>2 DEF FinishTransfer, Ends, uploadVars
<1>3. ASSUME NEW n \in 1 .. MaxChunk, Body(n) PROVE UploadInOrder'
  BY <1>a, <1>3 DEF Body, Ends, uploadVars
<1>4. ASSUME NEW n \in 1 .. MaxChunk, ReadString(n) PROVE UploadInOrder'
  <2>1. /\ kind = "string" /\ kind' = kind /\ offset' = offset + Chunk(offset, n)
        /\ sent' = sent \o [i \in 1 .. Chunk(offset, n) |-> offset + i]
        /\ ended' = (Chunk(offset, n) = 0)
    BY <1>4 DEF ReadString
  <2>2. n \in 0 .. MaxChunk /\ n > 0 BY TransferAssumption
  <2>3. Len(sent) = offset /\ \A i \in 1 .. Len(sent) : sent[i] = i
    BY <2>1 DEF UploadInOrder, Position
  <2>4. Len(sent') = Len(sent) + Chunk(offset, n) /\ \A i \in 1 .. Len(sent') : sent'[i] = i
    BY <1>0, <2>1, <2>2, <2>3, ChunkSent, Zenon
  <2>5. ended' => Len(sent') = UploadLen
    <3>1. PICK k \in Nat : k = Chunk(offset, n) BY <1>0, <2>2, ChunkFacts
    <3>2. k = 0 => offset = UploadLen BY <1>0, <2>2, <3>1, ChunkFacts
    <3>3. Len(sent') = offset + k /\ (ended' <=> k = 0) BY <2>1, <2>3, <2>4, <3>1
    <3> QED BY <1>0, <3>1, <3>2, <3>3
  <2> QED BY <2>1, <2>3, <2>4, <2>5 DEF UploadInOrder, Position
<1>5. ASSUME NEW n \in 1 .. MaxChunk, ReadStream(n) PROVE UploadInOrder'
  BY <1>a, <1>5 DEF ReadStream
<1>6. ASSUME NEW name \in {"header", "progress", "debug"}, Notify(name) PROVE UploadInOrder'
  BY <1>a, <1>6 DEF Notify
<1>7. CASE SeekOffset BY <1>7 DEF SeekOffset, UploadInOrder, Position
<1>8. CASE SeekStream BY <1>a, <1>8 DEF SeekStream
<1>9. CASE Returns
  <2>1. /\ pc = "callback" /\ call.name \in Handlers /\ UNCHANGED <<kind, offset>>
        /\ call.name = "read" => kind \in {"io", "pipe"}
        /\ call.name = "seek" => kind = "io"
    BY <1>9 DEF Returns, CallbackGuarded
  <2>2. CASE call.name = "read"
    <3>1. PICK n \in 0 .. MaxChunk : n = call.size BY DEF TransferTypeOK
    <3>2. /\ pos' = pos + Chunk(pos, n) /\ ended' = (Chunk(pos, n) = 0)
          /\ sent' = sent \o [i \in 1 .. Chunk(pos, n) |-> pos + i]
      BY <1>9, <2>2, <3>1 DEF Returns
    <3> SUFFICES ASSUME kind = "io" PROVE UploadInOrder' BY <2>1, <2>2 DEF UploadInOrder
    <3>3. Len(sent) = pos /\ \A i \in 1 .. Len(sent) : sent[i] = i
      BY DEF UploadInOrder, Position
    <3>4. Len(sent') = Len(sent) + Chunk(pos, n) /\ \A i \in 1 .. Len(sent') : sent'[i] = i
      BY <1>0, <3>2, <3>3, ChunkSent, Zenon
    <3>5. ended' => Len(sent') = UploadLen
      <4>1. PICK k \in Nat : k = Chunk(pos, n) BY <1>0, ChunkFacts
      <4>2. n > 0 BY <1>9, <2>2, <3>1 DEF CallbackGuarded, Returns
      <4>3. k = 0 => pos = UploadLen BY <1>0, <4>1, <4>2, ChunkFacts
      <4>4. Len(sent') = pos + k /\ (ended' <=> k = 0) BY <3>2, <3>3, <3>4, <4>1
      <4> QED BY <1>0, <4>1, <4>3, <4>4
    <3> QED BY <2>1, <3>2, <3>3, <3>4, <3>5 DEF UploadInOrder, Position
  <2>3. CASE call.name = "seek"
    <3>1. pos' = 0 /\ sent' = <<>> /\ ended' = FALSE BY <1>9, <2>3 DEF Returns
    <3> QED BY <1>b, <2>1, <2>3, <3>1 DEF Position
  <2>4. CASE call.name \notin {"read", "seek"}
    BY <1>a, <1>9, <2>1, <2>4 DEF Returns, uploadVars
  <2> QED BY <2>2, <2>3, <2>4
<1>10. CASE ReturnsOther \/ ReturnsNoString \/ StringRaises
  BY <1>a, <1>10 DEF ReturnsOther, ReturnsNoString, StringRaises, Ends, uploadVars
<1>11. CASE RaisesStored BY <1>a, <1>11 DEF RaisesStored, Ends, uploadVars
<1>12. CASE RaisesDropped BY <1>a, <1>12 DEF RaisesDropped, Ends, uploadVars
<1>13. CASE Escapes BY <1>a, <1>13 DEF Escapes
<1>14. CASE CloseEasy BY <1>a, <1>14 DEF CloseEasy
<1>15. CASE SetLimit \/ Duplicate \/ CloseDuplicate
  BY <1>a, <1>15 DEF SetLimit, Duplicate, CloseDuplicate
<1> QED BY <1>1, <1>2, <1>3, <1>4, <1>5, <1>6, <1>7, <1>8, <1>9, <1>10, <1>11, <1>12, <1>13,
           <1>14, <1>15 DEF TransferNext

\* The count of the body and the limit.
LEMMA BodyStep ==
  ASSUME TransferTypeOK, CallbackGuarded, BodyCounted, LimitIsReal, TransferNext
  PROVE  BodyCounted' /\ LimitIsReal'
<1>0. /\ limit \in Nat /\ downloaded \in Nat /\ delivered \in Nat /\ refused \in Nat
      /\ MaxBody \in Nat /\ Pending \in Nat /\ liberties' = liberties
  <2>1. call.size \in Nat BY TransferAssumption DEF TransferTypeOK
  <2> QED BY <2>1, TransferAssumption DEF TransferTypeOK, Pending, TransferNext
<1>a. ASSUME UNCHANGED bodyVars, Pending' = Pending, pc' = pc PROVE BodyCounted' /\ LimitIsReal'
  BY <1>0, <1>a DEF BodyCounted, LimitIsReal, bodyVars
<1>b. ASSUME UNCHANGED bodyVars, Pending' = 0, pc \in {"transfer", "callback"},
             pc' \in {"idle", "unwound"}
      PROVE  BodyCounted' /\ LimitIsReal'
  <2>1. refused' = 0 BY <1>0, <1>b DEF BodyCounted, bodyVars
  <2> QED BY <1>0, <1>b, <2>1 DEF BodyCounted, LimitIsReal, bodyVars
<1>c. ASSUME UNCHANGED bodyVars, Pending = 0, Pending' = 0, pc \in {"transfer", "callback"},
             pc' \in {"transfer", "callback"}
      PROVE  BodyCounted' /\ LimitIsReal'
  BY <1>0, <1>c DEF BodyCounted, LimitIsReal, bodyVars
<1>d. pc # "callback" => Pending = 0 BY DEF Pending
<1>e. pc' # "callback" => Pending' = 0 BY DEF Pending
<1>1. CASE Begin
  <2>1. pc' = "transfer" /\ downloaded' = 0 /\ delivered' = 0 /\ refused' = 0 /\ limit' \in Limits
    BY <1>1 DEF Begin, SetupClears
  <2>2. limit' \in Nat BY <2>1, TransferAssumption
  <2> QED BY <1>0, <1>e, <2>1, <2>2 DEF BodyCounted, LimitIsReal
<1>2. CASE FinishTransfer
  <2>1. pc = "transfer" /\ pc' = "idle" /\ UNCHANGED bodyVars BY <1>2 DEF FinishTransfer, Ends
  <2> QED BY <1>b, <1>e, <2>1
<1>3. ASSUME NEW n \in 1 .. MaxChunk, Body(n) PROVE BodyCounted' /\ LimitIsReal'
  <2>0. n \in Nat /\ n > 0 /\ pc = "transfer" /\ delivered + n <= MaxBody /\ Pending = 0
    BY <1>3, <1>d, TransferAssumption DEF Body
  <2>1. CASE Exceeds(n)
    <3>1. pc' = "idle" /\ refused' = n /\ UNCHANGED <<limit, downloaded, delivered>>
      BY <1>3, <2>1 DEF Body, Ends
    <3>2. n + downloaded > limit BY <2>1 DEF Exceeds
    <3> QED BY <1>0, <1>e, <2>0, <3>1, <3>2 DEF BodyCounted, LimitIsReal
  <2>2. CASE ~Exceeds(n)
    <3>1. downloaded' = Counted(n) /\ UNCHANGED <<limit, refused>> BY <1>3, <2>2 DEF Body
    <3>2. /\ limit > 0 => downloaded' = downloaded + n /\ n + downloaded <= limit
          /\ ~(limit > 0) => downloaded' = downloaded
      BY <1>0, <2>0, <2>2, <3>1 DEF Counted, Exceeds
    <3>3. CASE delivered' = delivered + n /\ UNCHANGED <<pc, call>>
      <4>1. Pending' = 0 BY <1>e, <2>0, <3>3
      <4> QED BY <1>0, <2>0, <3>1, <3>2, <3>3, <4>1 DEF BodyCounted, LimitIsReal
    <3>4. CASE CallsHandler("body", n) /\ UNCHANGED delivered
      <4>1. pc' = "callback" /\ call' = [name |-> "body", size |-> n] BY <3>4 DEF CallsHandler
      <4>2. Pending' = n BY <4>1 DEF Pending
      <4> QED BY <1>0, <2>0, <3>1, <3>2, <3>4, <4>1, <4>2 DEF BodyCounted, LimitIsReal
    <3> QED BY <1>3, <2>2, <3>3, <3>4 DEF Body
  <2> QED BY <2>1, <2>2
<1>4. ASSUME NEW n \in 1 .. MaxChunk, ReadString(n) PROVE BodyCounted' /\ LimitIsReal'
  BY <1>a, <1>4 DEF ReadString, Pending
<1>5. ASSUME NEW name \in {"read", "header", "progress", "debug", "seek"}, NEW n,
             pc = "transfer", CallsHandler(name, n), UNCHANGED bodyVars
      PROVE  BodyCounted' /\ LimitIsReal'
  <2>1. pc' = "callback" /\ call'.name = name BY <1>5 DEF CallsHandler
  <2>2. Pending' = 0 BY <2>1 DEF Pending
  <2> QED BY <1>c, <1>d, <1>5, <2>1, <2>2
<1>6. ASSUME NEW n \in 1 .. MaxChunk, ReadStream(n) PROVE BodyCounted' /\ LimitIsReal'
  BY <1>5, <1>6 DEF ReadStream
<1>7. ASSUME NEW name \in {"header", "progress", "debug"}, Notify(name)
      PROVE  BodyCounted' /\ LimitIsReal'
  BY <1>5, <1>7 DEF Notify
<1>8. CASE SeekOffset BY <1>a, <1>8 DEF SeekOffset, Pending
<1>9. CASE SeekStream BY <1>5, <1>9 DEF SeekStream
<1>10. CASE Returns
  <2>1. /\ pc = "callback" /\ pc' = "transfer" /\ UNCHANGED <<limit, downloaded, refused>>
        /\ delivered' = IF call.name = "body" THEN delivered + call.size ELSE delivered
    BY <1>10 DEF Returns, Continues
  <2>2. delivered' = delivered + Pending BY <1>0, <2>1 DEF Pending
  <2>3. Pending' = 0 BY <1>e, <2>1
  <2>4. refused = 0 BY <1>0, <2>1 DEF BodyCounted
  <2> QED BY <1>0, <2>1, <2>2, <2>3, <2>4 DEF BodyCounted, LimitIsReal
<1>11. CASE ReturnsOther \/ ReturnsNoString \/ RaisesStored \/ StringRaises
  <2>1. pc \in {"transfer", "callback"} /\ pc' = "idle" /\ UNCHANGED bodyVars
    BY <1>11 DEF ReturnsOther, ReturnsNoString, RaisesStored, StringRaises, Ends
  <2> QED BY <1>b, <1>e, <2>1
<1>12. CASE RaisesDropped
  <2>1. pc = "callback" /\ call.name # "body" /\ pc' \in {"idle", "transfer"} /\ UNCHANGED bodyVars
    BY <1>12 DEF RaisesDropped, Ends, Continues
  <2>2. Pending = 0 BY <2>1 DEF Pending
  <2> QED BY <1>b, <1>c, <1>e, <2>1, <2>2
<1>13. CASE Escapes
  <2>1. pc = "callback" /\ pc' = "unwound" /\ UNCHANGED bodyVars BY <1>13 DEF Escapes
  <2> QED BY <1>b, <1>e, <2>1
<1>14. CASE CloseEasy \/ Duplicate \/ CloseDuplicate
  BY <1>a, <1>14 DEF CloseEasy, Duplicate, CloseDuplicate, Pending
<1>15. CASE SetLimit
  <2>1. /\ "midway" \in liberties /\ pc = "callback" /\ limit' \in Limits
        /\ UNCHANGED <<downloaded, delivered, refused, call, pc>>
    BY <1>15 DEF SetLimit
  <2>2. Pending' = Pending BY <2>1 DEF Pending
  <2>3. refused = 0 BY <1>0, <2>1 DEF BodyCounted
  <2> QED BY <1>0, <2>1, <2>2, <2>3 DEF BodyCounted, LimitIsReal
<1> QED BY <1>1, <1>2, <1>3, <1>4, <1>6, <1>7, <1>8, <1>9, <1>10, <1>11, <1>12, <1>13,
           <1>14, <1>15 DEF TransferNext

\* The parts of the type invariant, by what the actions leave alone together.
BodyTyped ==
  /\ limit \in Limits /\ downloaded \in 0 .. MaxBody /\ delivered \in 0 .. MaxBody
  /\ refused \in 0 .. MaxChunk
ErrorsTyped == error \in Errors /\ first \in Errors
UploadTyped ==
  /\ kind \in Kinds /\ offset \in 0 .. UploadLen /\ pos \in 0 .. UploadLen
  /\ sent \in Seq(1 .. UploadLen) /\ ended \in BOOLEAN
CallTyped == active \in BOOLEAN /\ call \in [name : Handlers \cup {"none"}, size : 0 .. MaxChunk]
ControlTyped ==
  /\ pc \in {"idle", "transfer", "callback", "unwound"}
  /\ result \in {"none", "ok", "write", "aborted", "rewind"} \cup Errors
  /\ transfers \in 0 .. MaxTransfers
  /\ closing \in {"none", "closed", "refused"}
  /\ clone \in {"none", "active", "quiet", "closed", "refused"}

\* The type invariant is the conjunction of its parts.
LEMMA TypedParts ==
  TransferTypeOK <=> /\ liberties \subseteq Liberties
             /\ BodyTyped /\ ErrorsTyped /\ UploadTyped /\ CallTyped /\ ControlTyped
BY Zenon DEF TransferTypeOK, BodyTyped, ErrorsTyped, UploadTyped, CallTyped, ControlTyped

\* The absence of a call is one of the values of call.
LEMMA NoCallTyped == NoCall \in [name : Handlers \cup {"none"}, size : 0 .. MaxChunk]
BY TransferAssumption DEF NoCall

\* Every step keeps the types.
LEMMA TransferTyped ==
  ASSUME TransferTypeOK, CallbackGuarded, BodyCounted, TransferNext
  PROVE  TransferTypeOK'
<1>0. /\ liberties' \subseteq Liberties
      /\ BodyTyped /\ ErrorsTyped /\ UploadTyped /\ CallTyped /\ ControlTyped
  <2>1. liberties' = liberties BY DEF TransferNext
  <2> QED BY <2>1, TypedParts
<1>1. /\ MaxChunk \in Nat \ {0} /\ MaxBody \in Nat /\ UploadLen \in Nat /\ MaxTransfers \in Nat
      /\ delivered \in Nat /\ downloaded \in Nat /\ limit \in Nat
  BY TransferAssumption DEF TransferTypeOK
<1>a. (BodyTyped' /\ ErrorsTyped' /\ UploadTyped' /\ CallTyped' /\ ControlTyped') => TransferTypeOK'
  BY <1>0, Zenon DEF TransferTypeOK, BodyTyped, ErrorsTyped, UploadTyped, CallTyped, ControlTyped
<1>b. UNCHANGED bodyVars => BodyTyped' BY <1>0 DEF bodyVars, BodyTyped
<1>c. UNCHANGED errorVars => ErrorsTyped' BY <1>0 DEF errorVars, ErrorsTyped
<1>d. UNCHANGED uploadVars => UploadTyped' BY <1>0 DEF uploadVars, UploadTyped
<1>e. UNCHANGED <<active, call>> => CallTyped' BY <1>0 DEF CallTyped
<1>f. UNCHANGED <<pc, result, transfers, closing, clone>> => ControlTyped' BY <1>0 DEF ControlTyped
<1>g. (active' = FALSE /\ call' = NoCall) => CallTyped' BY NoCallTyped, Zenon DEF CallTyped
<1>h. UNCHANGED <<kind, offset, pos, sent, ended>> => UploadTyped' BY <1>d DEF uploadVars
<1>2. CASE Begin
  <2>1. BodyTyped' BY <1>1, <1>2 DEF BodyTyped, Begin, SetupClears
  <2>2. ErrorsTyped' BY <1>2 DEF ErrorsTyped, Begin, Errors
  <2>3. <<>> \in Seq(1 .. UploadLen) /\ 0 \in 0 .. UploadLen BY <1>1
  <2>4. UploadTyped' BY <1>2, <2>3, Zenon DEF UploadTyped, Begin
  <2>5. CallTyped' BY <1>2, <1>e DEF Begin
  <2>6. ControlTyped' BY <1>0, <1>1, <1>2 DEF ControlTyped, Begin
  <2> QED BY <1>a, <2>1, <2>2, <2>4, <2>5, <2>6
<1>3. ASSUME NEW code \in {"ok", "write", "aborted", "rewind"}, NEW err \in Errors,
             Ends(code, err), UNCHANGED <<pos, sent, ended>>
      PROVE  UploadTyped' /\ CallTyped' /\ ControlTyped'
  <2>1. UploadTyped' BY <1>3, <1>h DEF Ends
  <2>2. CallTyped' BY <1>3, <1>g DEF Ends
  <2>3. result' \in {"none", "ok", "write", "aborted", "rewind"} \cup Errors BY <1>3 DEF Ends
  <2>4. ControlTyped' BY <1>0, <1>3, <2>3 DEF Ends, ControlTyped
  <2> QED BY <2>1, <2>2, <2>4
<1>4. CASE FinishTransfer
  <2>1. BodyTyped' /\ ErrorsTyped' BY <1>4, <1>b, <1>c DEF FinishTransfer
  <2>2. error \in Errors BY <1>0 DEF ErrorsTyped
  <2> QED BY <1>a, <1>3, <1>4, <2>1, <2>2 DEF FinishTransfer
<1>5. ASSUME NEW name \in Handlers, NEW n \in 0 .. MaxChunk, CallsHandler(name, n)
      PROVE  ErrorsTyped' /\ CallTyped' /\ ControlTyped'
  <2>1. ErrorsTyped' BY <1>5, <1>c DEF CallsHandler
  <2>2. [name |-> name, size |-> n] \in [name : Handlers \cup {"none"}, size : 0 .. MaxChunk]
    BY <1>5
  <2>3. CallTyped' BY <1>5, <2>2 DEF CallsHandler, CallsGuarded, CallTyped
  <2>4. ControlTyped' BY <1>0, <1>5 DEF CallsHandler, ControlTyped
  <2> QED BY <2>1, <2>3, <2>4
<1>6. ASSUME NEW n \in 1 .. MaxChunk, Body(n) PROVE TransferTypeOK'
  <2>0. n \in 0 .. MaxChunk /\ n \in Nat /\ pc = "transfer" /\ delivered + n <= MaxBody
    BY <1>1, <1>6 DEF Body
  <2>1. CASE Exceeds(n)
    <3>1. /\ Remember("limit") /\ refused' = n /\ Ends("write", Store(error, "limit"))
          /\ UNCHANGED <<limit, downloaded, delivered, pos, sent, ended>>
      BY <1>6, <2>1 DEF Body
    <3>2. ErrorsTyped' /\ Store(error, "limit") \in Errors
      BY <1>0, <3>1 DEF Remember, Store, ErrorsTyped, Errors
    <3>3. BodyTyped' BY <1>0, <2>0, <3>1 DEF BodyTyped
    <3> QED BY <1>a, <1>3, <3>1, <3>2, <3>3
  <2>2. CASE ~Exceeds(n)
    <3>1. downloaded' = Counted(n) /\ UNCHANGED <<limit, refused, uploadVars>>
      BY <1>6, <2>2 DEF Body
    <3>2. downloaded <= delivered BY <1>1, <2>0 DEF BodyCounted, Pending
    <3>3. downloaded' \in 0 .. MaxBody BY <1>1, <2>0, <3>1, <3>2 DEF Counted
    <3>4. UploadTyped' BY <3>1, <1>d
    <3>5. CASE /\ delivered' = delivered + n
               /\ UNCHANGED <<pc, active, call, closing, result, transfers, clone, errorVars>>
      <4>1. BodyTyped' BY <1>0, <1>1, <2>0, <3>1, <3>3, <3>5 DEF BodyTyped
      <4>2. ErrorsTyped' /\ CallTyped' /\ ControlTyped' BY <1>c, <1>e, <1>f, <3>5
      <4> QED BY <1>a, <3>4, <4>1, <4>2
    <3>6. CASE CallsHandler("body", n) /\ UNCHANGED delivered
      <4>1. BodyTyped' BY <1>0, <3>1, <3>3, <3>6 DEF BodyTyped
      <4>2. "body" \in Handlers BY DEF Handlers
      <4> QED BY <1>a, <1>5, <2>0, <3>4, <3>6, <4>1, <4>2
    <3> QED BY <1>6, <2>2, <3>5, <3>6 DEF Body
  <2> QED BY <2>1, <2>2
<1>7. ASSUME NEW n \in 1 .. MaxChunk, ReadString(n) PROVE TransferTypeOK'
  <2>0. n \in 0 .. MaxChunk /\ offset \in 0 .. UploadLen /\ sent \in Seq(1 .. UploadLen)
    BY <1>0, <1>1 DEF UploadTyped
  <2>1. offset' = offset + Chunk(offset, n) /\ ended' = (Chunk(offset, n) = 0)
        /\ sent' = sent \o [i \in 1 .. Chunk(offset, n) |-> offset + i]
    BY <1>7 DEF ReadString
  <2>2. offset' \in 0 .. UploadLen BY <2>0, <2>1, ChunkFacts
  <2>3. sent' \in Seq(1 .. UploadLen) BY <2>0, <2>1, ChunkSent, Zenon
  <2>4. ended' \in BOOLEAN BY <2>1
  <2>5. kind' = kind /\ pos' = pos BY <1>7 DEF ReadString
  <2>6. UploadTyped' BY <1>0, <2>2, <2>3, <2>4, <2>5, Zenon DEF UploadTyped
  <2>7. BodyTyped' /\ ErrorsTyped' /\ CallTyped' /\ ControlTyped'
    BY <1>b, <1>c, <1>e, <1>f, <1>7 DEF ReadString
  <2> QED BY <1>a, <2>6, <2>7
<1>8. ASSUME NEW name \in Handlers, NEW n \in 0 .. MaxChunk, CallsHandler(name, n),
             UNCHANGED <<bodyVars, uploadVars>>
      PROVE  TransferTypeOK'
  BY <1>a, <1>b, <1>d, <1>5, <1>8
<1>9. ASSUME NEW n \in 1 .. MaxChunk, ReadStream(n) PROVE TransferTypeOK'
  BY <1>1, <1>8, <1>9 DEF ReadStream, Handlers
<1>10. ASSUME NEW name \in {"header", "progress", "debug"}, Notify(name) PROVE TransferTypeOK'
  BY <1>1, <1>8, <1>10 DEF Notify, Handlers
<1>11. CASE SeekOffset
  <2>1. <<>> \in Seq(1 .. UploadLen) /\ 0 \in 0 .. UploadLen BY <1>1
  <2>2. UploadTyped' BY <1>0, <1>11, <2>1, Zenon DEF UploadTyped, SeekOffset
  <2> QED BY <1>a, <1>b, <1>c, <1>e, <1>f, <1>11, <2>2 DEF SeekOffset
<1>12. CASE SeekStream BY <1>1, <1>8, <1>12 DEF SeekStream, Handlers
<1>13. ASSUME Continues, UNCHANGED errorVars PROVE ErrorsTyped' /\ CallTyped' /\ ControlTyped'
  BY <1>0, <1>c, <1>g, <1>13 DEF Continues, ControlTyped
<1>14. CASE Returns
  <2>0. /\ pc = "callback" /\ call.size \in 0 .. MaxChunk /\ pos \in 0 .. UploadLen
        /\ sent \in Seq(1 .. UploadLen) /\ ended \in BOOLEAN
    BY <1>0, <1>14 DEF CallTyped, UploadTyped, Returns
  <2>1. delivered' \in 0 .. MaxBody
    <3>1. delivered' = delivered + Pending
      BY <1>1, <1>14, <2>0 DEF Returns, Pending
    <3>2. delivered + Pending <= MaxBody BY DEF BodyCounted
    <3>3. Pending \in Nat BY <1>1, <2>0 DEF Pending
    <3> QED BY <1>1, <3>1, <3>2, <3>3
  <2>2. UNCHANGED <<limit, downloaded, refused, errorVars, kind, offset>> /\ Continues
    BY <1>14 DEF Returns
  <2>3. pos' \in 0 .. UploadLen /\ sent' \in Seq(1 .. UploadLen) /\ ended' \in BOOLEAN
    <3>1. CASE call.name = "read"
      <4>1. pos' = pos + Chunk(pos, call.size) /\ ended' = (Chunk(pos, call.size) = 0)
            /\ sent' = sent \o [i \in 1 .. Chunk(pos, call.size) |-> pos + i]
        BY <1>14, <3>1 DEF Returns
      <4>2. pos' \in 0 .. UploadLen BY <2>0, <4>1, ChunkFacts
      <4>3. sent' \in Seq(1 .. UploadLen) BY <2>0, <4>1, ChunkSent, Zenon
      <4>4. ended' \in BOOLEAN BY <4>1
      <4> QED BY <4>2, <4>3, <4>4
    <3>2. CASE call.name = "seek"
      <4>1. pos' = 0 /\ sent' = <<>> /\ ended' = FALSE BY <1>14, <3>2 DEF Returns
      <4>2. <<>> \in Seq(1 .. UploadLen) /\ 0 \in 0 .. UploadLen BY <1>1
      <4> QED BY <4>1, <4>2, Zenon
    <3>3. CASE call.name \notin {"read", "seek"} BY <1>14, <2>0, <3>3 DEF Returns
    <3> QED BY <3>1, <3>2, <3>3
  <2>4. UploadTyped' BY <1>0, <2>2, <2>3, Zenon DEF UploadTyped
  <2>5. BodyTyped' BY <1>0, <2>1, <2>2 DEF BodyTyped
  <2> QED BY <1>a, <1>13, <2>2, <2>4, <2>5
<1>15. CASE ReturnsOther
  <2>1. PICK code \in {"write", "aborted"} :
          code = IF call.name \in {"body", "header"} THEN "write" ELSE "aborted"
    OBVIOUS
  <2>2. /\ Ends(code, error) /\ UNCHANGED <<pos, sent, ended>>
        /\ UNCHANGED bodyVars /\ UNCHANGED errorVars
    BY <1>15, <2>1 DEF ReturnsOther
  <2>3. error \in Errors BY <1>0 DEF ErrorsTyped
  <2> QED BY <1>a, <1>b, <1>c, <1>3, <2>1, <2>2, <2>3
<1>16. CASE RaisesStored
  <2>1. PICK code \in {"write", "aborted", "rewind"} :
          code = CASE call.name = "read" -> "aborted" [] call.name = "seek" -> "rewind"
                   [] OTHER -> "write"
    OBVIOUS
  <2>2. PICK twice : twice = IF call.name = "read" THEN Store(Store(error, "handler"), "type")
                             ELSE Store(error, "handler")
    OBVIOUS
  <2>3. twice \in Errors BY <1>0, <2>2 DEF Store, ErrorsTyped, Errors
  <2>4. /\ error' = twice /\ Ends(code, twice) /\ UNCHANGED <<pos, sent, ended>>
        /\ UNCHANGED bodyVars
    BY <1>16, <2>1, <2>2 DEF RaisesStored
  <2>5. first' \in Errors BY <1>0, <1>16 DEF RaisesStored, ErrorsTyped, Errors
  <2>6. ErrorsTyped' BY <2>3, <2>4, <2>5 DEF ErrorsTyped
  <2> QED BY <1>a, <1>b, <1>3, <2>1, <2>3, <2>4, <2>6
<1>22. CASE ReturnsNoString
  <2>1. PICK err : err = Store(error, "type") OBVIOUS
  <2>2. err \in Errors BY <1>0, <2>1 DEF Store, ErrorsTyped, Errors
  <2>3. /\ error' = err /\ Ends("aborted", err) /\ UNCHANGED <<pos, sent, ended>>
        /\ UNCHANGED bodyVars
    BY <1>22, <2>1 DEF ReturnsNoString, Remember
  <2>4. first' \in Errors BY <1>0, <1>22 DEF ReturnsNoString, Remember, ErrorsTyped, Errors
  <2>5. ErrorsTyped' BY <2>2, <2>3, <2>4 DEF ErrorsTyped
  <2> QED BY <1>a, <1>b, <1>3, <2>2, <2>3, <2>5
<1>23. CASE StringRaises
  <2>1. PICK err : err = Store(Store(error, "handler"), "type") OBVIOUS
  <2>2. err \in Errors BY <1>0, <2>1 DEF Store, ErrorsTyped, Errors
  <2>3. /\ error' = err /\ Ends("aborted", err) /\ UNCHANGED <<pos, sent, ended>>
        /\ UNCHANGED bodyVars
    BY <1>23, <2>1 DEF StringRaises
  <2>4. first' \in Errors BY <1>0, <1>23 DEF StringRaises, ErrorsTyped, Errors
  <2>5. ErrorsTyped' BY <2>2, <2>3, <2>4 DEF ErrorsTyped
  <2> QED BY <1>a, <1>b, <1>3, <2>2, <2>3, <2>5
<1>17. CASE RaisesDropped
  <2>0. UNCHANGED bodyVars /\ UNCHANGED errorVars /\ UNCHANGED <<pos, sent, ended>>
    BY <1>17 DEF RaisesDropped
  <2>1. CASE call.name = "progress"
    <3>1. Ends("aborted", error) BY <1>17, <2>1 DEF RaisesDropped
    <3>2. error \in Errors BY <1>0 DEF ErrorsTyped
    <3> QED BY <1>a, <1>b, <1>c, <1>3, <2>0, <3>1, <3>2
  <2>2. CASE call.name # "progress"
    <3>1. Continues /\ UNCHANGED <<kind, offset>> BY <1>17, <2>2 DEF RaisesDropped
    <3> QED BY <1>a, <1>b, <1>h, <1>13, <2>0, <3>1
  <2> QED BY <2>1, <2>2
<1>18. CASE Escapes
  <2>1. ControlTyped' BY <1>0, <1>18 DEF Escapes, ControlTyped
  <2> QED BY <1>a, <1>b, <1>c, <1>d, <1>g, <1>18, <2>1 DEF Escapes
<1>19. CASE CloseEasy
  <2>1. ControlTyped' BY <1>0, <1>19 DEF CloseEasy, ControlTyped
  <2> QED BY <1>a, <1>b, <1>c, <1>d, <1>e, <1>19, <2>1 DEF CloseEasy
<1>20. CASE SetLimit
  <2>1. BodyTyped' BY <1>0, <1>20 DEF SetLimit, BodyTyped
  <2> QED BY <1>a, <1>c, <1>d, <1>e, <1>f, <1>20, <2>1 DEF SetLimit
<1>21. CASE Duplicate \/ CloseDuplicate
  <2>1. ControlTyped' BY <1>0, <1>21 DEF Duplicate, CloseDuplicate, ControlTyped
  <2> QED BY <1>a, <1>b, <1>c, <1>d, <1>e, <1>21, <2>1 DEF Duplicate, CloseDuplicate
<1> QED BY <1>2, <1>4, <1>6, <1>7, <1>9, <1>10, <1>11, <1>12, <1>14, <1>15, <1>16, <1>17,
           <1>18, <1>19, <1>20, <1>21, <1>22, <1>23 DEF TransferNext

\* The invariant of the transfer.
LEMMA TransferInvAlways == TransferSpec => []TransferInv
<1>1. TransferInit => TransferInv
  <2> SUFFICES ASSUME TransferInit PROVE TransferInv OBVIOUS
  <2>a. BodyTyped /\ ErrorsTyped BY TransferAssumption DEF TransferInit, BodyTyped, ErrorsTyped, Errors
  <2>b. <<>> \in Seq(1 .. UploadLen) /\ 0 \in 0 .. UploadLen BY TransferAssumption
  <2>c. UploadTyped BY <2>b, Zenon DEF TransferInit, UploadTyped
  <2>d. CallTyped BY NoCallTyped, Zenon DEF TransferInit, CallTyped
  <2>e. ControlTyped /\ liberties \subseteq Liberties
    BY TransferAssumption DEF TransferInit, ControlTyped
  <2>1. TransferTypeOK BY <2>a, <2>c, <2>d, <2>e, TypedParts
  <2>2. Pending = 0 BY DEF TransferInit, Pending
  <2>3. BodyCounted /\ LimitIsReal BY <2>2, TransferAssumption DEF TransferInit, BodyCounted, LimitIsReal
  <2>4. CallbackGuarded BY DEF TransferInit, CallbackGuarded
  <2>5. ErrorsAgree BY DEF TransferInit, ErrorsAgree
  <2>6. UploadInOrder BY DEF TransferInit, UploadInOrder, Position
  <2> QED BY <2>1, <2>3, <2>4, <2>5, <2>6 DEF TransferInv
<1>2. TransferInv /\ [TransferNext]_transferVars => TransferInv'
  <2> SUFFICES ASSUME TransferInv, [TransferNext]_transferVars PROVE TransferInv' OBVIOUS
  <2>0. TransferTypeOK /\ BodyCounted /\ LimitIsReal /\ CallbackGuarded /\ ErrorsAgree /\ UploadInOrder
    BY DEF TransferInv
  <2>1. CASE TransferNext
    BY <2>0, <2>1, GuardedStep, ErrorsStep, UploadStep, BodyStep, TransferTyped DEF TransferInv
  <2>2. CASE UNCHANGED transferVars
    <3> USE <2>2 DEF transferVars, bodyVars, errorVars, uploadVars
    <3>1. TransferTypeOK' BY <2>0 DEF TransferTypeOK
    <3>2. BodyCounted' /\ LimitIsReal' BY <2>0 DEF BodyCounted, LimitIsReal, Pending
    <3>3. CallbackGuarded' /\ ErrorsAgree' BY <2>0 DEF CallbackGuarded, ErrorsAgree
    <3>4. UploadInOrder' BY <2>0 DEF UploadInOrder, Position
    <3> QED BY <3>1, <3>2, <3>3, <3>4 DEF TransferInv
  <2> QED BY <2>1, <2>2
<1> QED BY <1>1, <1>2, PTL DEF TransferSpec

\* No transfer hands more of a body to the program than max_body_bytes allows,
\* and none is refused whose body fits, for chunks of any sizes, buffered or
\* given to on_body (default_body_handler, proc_data_handler_body).
THEOREM LimitsAreExact == TransferSpec => []LimitIsExact
<1>1. TransferInv => LimitIsExact
  <2> SUFFICES ASSUME TransferInv, "midway" \notin liberties, limit > 0
               PROVE  delivered <= limit
    BY DEF LimitIsExact, WithinLimit, TransferInv
  <2>1. limit \in Nat /\ downloaded \in Nat /\ delivered \in Nat
    BY TransferAssumption DEF TransferInv, TransferTypeOK
  <2> QED BY <2>1 DEF TransferInv, BodyCounted
<1> QED BY <1>1, TransferInvAlways, PTL

\* libcurl is given the data of an upload in order and complete, whatever it
\* rewinds and however small its buffer is, unless the stream cannot seek
\* (read_data_handler, seek_data_handler).
THEOREM UploadsAreData == TransferSpec => []UploadIsData
<1>1. TransferInv => UploadIsData
  <2> SUFFICES ASSUME TransferInv, kind # "pipe"
               PROVE  /\ IsPrefix(sent, [i \in 1 .. UploadLen |-> i])
                      /\ ended => Len(sent) = UploadLen
    BY DEF UploadIsData
  <2>1. /\ sent \in Seq(1 .. UploadLen) /\ offset \in 0 .. UploadLen /\ pos \in 0 .. UploadLen
        /\ UploadLen \in Nat
    BY TransferAssumption DEF TransferInv, TransferTypeOK
  <2>2. /\ Len(sent) = Position /\ \A i \in 1 .. Len(sent) : sent[i] = i
        /\ ended => Len(sent) = UploadLen
    BY DEF TransferInv, UploadInOrder
  <2>3. PICK l \in Nat : l = Len(sent) BY <2>1
  <2>4. l <= UploadLen BY <2>1, <2>2, <2>3 DEF Position
  <2>5. PICK d : d = [i \in 1 .. UploadLen |-> i] OBVIOUS
  <2>6. d \in Seq(1 .. UploadLen) /\ Len(d) = UploadLen /\ \A i \in 1 .. UploadLen : d[i] = i
    BY <2>1, <2>5
  <2>7. SubSeq(sent, 1, l) = SubSeq(d, 1, l)
    <3>1. \A i \in 1 .. l : sent[i] \in 1 .. UploadLen /\ d[i] \in 1 .. UploadLen
      BY <2>1, <2>2, <2>3, <2>4, <2>6
    <3>2. /\ SubSeq(sent, 1, l) \in Seq(1 .. UploadLen) /\ SubSeq(d, 1, l) \in Seq(1 .. UploadLen)
          /\ Len(SubSeq(sent, 1, l)) = l /\ Len(SubSeq(d, 1, l)) = l
          /\ \A i \in 1 .. l : SubSeq(sent, 1, l)[i] = sent[i] /\ SubSeq(d, 1, l)[i] = d[i]
      <4>1. /\ SubSeq(sent, 1, l) \in Seq(1 .. UploadLen)
            /\ Len(SubSeq(sent, 1, l)) = IF 1 <= l THEN l - 1 + 1 ELSE 0
            /\ \A i \in 1 .. l - 1 + 1 : SubSeq(sent, 1, l)[i] = sent[1 + i - 1]
        BY <3>1, SubSeqProperties
      <4>2. /\ SubSeq(d, 1, l) \in Seq(1 .. UploadLen)
            /\ Len(SubSeq(d, 1, l)) = IF 1 <= l THEN l - 1 + 1 ELSE 0
            /\ \A i \in 1 .. l - 1 + 1 : SubSeq(d, 1, l)[i] = d[1 + i - 1]
        BY <3>1, SubSeqProperties
      <4> QED BY <4>1, <4>2
    <3>3. PICK a \in Seq(1 .. UploadLen) : a = SubSeq(sent, 1, l) BY <3>2
    <3>4. PICK b \in Seq(1 .. UploadLen) : b = SubSeq(d, 1, l) BY <3>2
    <3>5. Len(a) = Len(b) /\ \A i \in 1 .. Len(a) : a[i] = b[i]
      BY <2>2, <2>3, <2>4, <2>6, <3>2, <3>3, <3>4
    <3>6. a = b BY <3>5, SeqEqual
    <3> QED BY <3>3, <3>4, <3>6
  <2>8. IsPrefix(sent, d) BY <2>3, <2>4, <2>6, <2>7 DEF IsPrefix
  <2> QED BY <2>2, <2>5, <2>8
<1> QED BY <1>1, TransferInvAlways, PTL

\* A transfer whose handler raised ends with the exception of that handler, and
\* no handler closes the handle that calls it (callback_exception_store_on_easy,
\* with_easy_callback_active, ruby_curl_easy_close).
THEOREM HandlersContained == TransferSpec => []HandlersAreContained
<1>1. TransferInv => HandlersAreContained
  BY DEF TransferInv, HandlersAreContained, FirstErrorIsRaised, CloseIsRefusedInCallbacks,
         ErrorsAgree, CallbackGuarded
<1> QED BY <1>1, TransferInvAlways, PTL
==============================================================================
