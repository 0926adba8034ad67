---------------------------- MODULE MCEasyOptions ----------------------------
(***************************************************************************)
(* Instances of EasyOptions for TLC: the options that setup lets interact, *)
(* family by family.                                                       *)
(***************************************************************************)
EXTENDS EasyOptions

CONSTANTS e1, e2

\* Every option occurs in a family; url is in all, without it nothing runs.
MCFamilies == {{"url"} \cup f : f \in {
  {"policy", "proxy_url", "allow_proxy"}, {"policy", "proxypwd", "proxy_tunnel"}, {"noproxy", "proxy_url"},
  {"policy", "forbid_reuse"}, {"policy", "dns_servers", "doh_url"},
  {"userpwd", "username", "password"}, {"debug_proc", "verbose", "body_proc"},
  {"interface_hm", "encoding"}, {"follow_location", "max_redirs"},
  {"fetch_file_time", "use_netrc"}, {"ssl_verify_peer", "ssl_verify_host"},
  {"unrestricted_auth", "resolve_mode"}, {"timeout_ms", "dns_cache_timeout"},
  {"ignore_content_length", "http_version"}, {"ftp_response_timeout", "ftp_filemethod"},
  {"low_speed_limit", "low_speed_time"}, {"proxy_port", "proxy_type"},
  {"http_auth_types", "proxy_auth_types"}, {"cookies", "range"}, {"cert", "cacert"},
  {"ssl_version", "use_ssl"}, {"enable_cookies", "cookiefile"}, {"useragent", "autoreferer"}}}

MCShared == {{"url", "clone"} \cup f : f \in {
  {"headers", "resolve"}, {"connect_to", "ftp_commands"}, {"proxy_headers", "upload"},
  {"policy", "upload"}, {"range", "progress_proc", "header_proc"}}}

MCFocus == MCFamilies \cup MCShared
==============================================================================
