---------------------------- MODULE NetworkPolicy ----------------------------
(***************************************************************************)
(* The destination checks of Curl::Easy: network_policy = :public, the     *)
(* CIDR list and the host list, from the Ruby options to the native rules  *)
(* and to the answers that curb gives libcurl before each socket and       *)
(* before each request of a transfer, redirects included.                  *)
(*                                                                         *)
(* Source: ext/curb_easy.c.  Addresses are sequences of bytes.  A CIDR     *)
(* text is a record of the pieces that the parser tells apart; a host or   *)
(* URL text is a sequence of tokens, letters standing for names.  The      *)
(* program changes the policy between transfers only; it may change the    *)
(* lists at any time, from a callback of the transfer too.                 *)
(***************************************************************************)
EXTENDS Integers, Sequences, SequencesExt, FiniteSetsExt

CONSTANTS
  Scenarios,  \* bound: programs p, and what each of them meets:
  Dests,      \* Dests[p]: the destinations libcurl asks about: [family, ip]
  CidrLists,  \* CidrLists[p]: the values given to allowed_cidrs=: sets of texts, or Nil
  HostLists,  \* HostLists[p]: the values given to allowed_hosts=: sets of texts, or Nil
  Urls,       \* Urls[p]: effective URLs: [before, host, after], sequences of tokens
  Canonical,  \* Canonical[h]: the host that the tokens h spell
  Nil

\* sockaddr_in and sockaddr_in6 hold 4 and 16 bytes, as inet_pton gives them.
Bytes == 0 .. 255
ASSUME NetworkAssumption == \A p \in Scenarios :
  /\ \A d \in Dests[p] : d.family \in {4, 16} => d.ip \in Seq(Bytes) /\ Len(d.ip) = d.family
  /\ \A list \in CidrLists[p] \ {Nil} : \A t \in list : t.address \in Seq(Bytes)

VARIABLES
  scenario,   \* the program of this behaviour
  policy,     \* rbce->network_policy
  cidrs,      \* opts["allowed_cidrs"]
  hosts,      \* opts["allowed_hosts"], normalized
  cidrRules,  \* rbce->network_allowed_cidr_rules
  hostRules,  \* rbce->network_allowed_hosts
  hooks,      \* the callbacks setup installed, of {"open", "prereq"}
  blocked,    \* unsafe_destination_blocked
  transferring,
  last,       \* the last answer given to libcurl
  answers     \* history: whether the answers of the latest transfer were ok

networkVars == <<scenario, policy, cidrs, hosts, cidrRules, hostRules, hooks, blocked,
                 transferring, last, answers>>

-----------------------------------------------------------------------------
\* Addresses.  ip[i + 1] is the byte ip[i] of the code.

\* The weight of the bits of a byte, from the left.
Weight == <<128, 64, 32, 16, 8, 4, 2, 1>>

\* The byte b and the mask of n leading ones (0xc0 for 2, 0xfe for 7).
Masked(b, n) == b - (b % Weight[n])

PrefixMatches(ip, prefix, bits) ==
  LET full == bits \div 8
      rest == bits % 8
  IN /\ \A i \in 1 .. full : ip[i] = prefix[i]
     /\ rest > 0 => Masked(ip[full + 1], rest) = Masked(prefix[full + 1], rest)

\* Mutant: the upper bound of 172.16.0.0/12 is off by one.
UnsafeIpv4Short(ip) ==
  \/ ip[1] \in {0, 10, 127} \/ ip[1] >= 224
  \/ ip[1] = 100 /\ Masked(ip[2], 2) = 64
  \/ ip[1] = 100 /\ ip[2] = 100 /\ ip[3] = 100 /\ ip[4] = 200
  \/ ip[1] = 169 /\ ip[2] = 254
  \/ ip[1] = 172 /\ ip[2] >= 16 /\ ip[2] < 31
  \/ ip[1] = 192 /\ (ip[2] = 168 \/ (ip[2] = 0 /\ ip[3] \in {0, 2}))
  \/ ip[1] = 198 /\ (ip[2] \in {18, 19} \/ (ip[2] = 51 /\ ip[3] = 100))
  \/ ip[1] = 203 /\ ip[2] = 0 /\ ip[3] = 113

UnsafeIpv4(ip) ==
  \/ ip[1] \in {0, 10, 127} \/ ip[1] >= 224
  \/ ip[1] = 100 /\ Masked(ip[2], 2) = 64
  \/ ip[1] = 100 /\ ip[2] = 100 /\ ip[3] = 100 /\ ip[4] = 200
  \/ ip[1] = 169 /\ ip[2] = 254
  \/ ip[1] = 172 /\ ip[2] >= 16 /\ ip[2] <= 31
  \/ ip[1] = 192 /\ (ip[2] = 168 \/ (ip[2] = 0 /\ ip[3] \in {0, 2}))
  \/ ip[1] = 198 /\ (ip[2] \in {18, 19} \/ (ip[2] = 51 /\ ip[3] = 100))
  \/ ip[1] = 203 /\ ip[2] = 0 /\ ip[3] = 113

Zeroes(n) == [i \in 1 .. n |-> 0]
Ipv4Mapped == <<0, 0, 0, 0, 0, 0, 0, 0, 0, 0, 255, 255>>
Nat64 == <<0, 100, 255, 155, 0, 0, 0, 0, 0, 0, 0, 0>>

UnsafeIpv6(ip) ==
  IF ip = Zeroes(16) THEN TRUE
  ELSE IF PrefixMatches(ip, Ipv4Mapped, 96) \/ PrefixMatches(ip, Nat64, 96)
  THEN UnsafeIpv4(SubSeq(ip, 13, 16))
  ELSE \/ PrefixMatches(ip, <<0, 100, 255, 155, 0, 1>>, 48)
       \/ PrefixMatches(ip, Zeroes(12), 96)
       \/ ip[1] = 0 /\ ip[2] = 0 /\ ip[15] = 0 /\ ip[16] = 1
       \/ Masked(ip[1], 7) = 252
       \/ ip[1] = 254 /\ Masked(ip[2], 2) \in {128, 192}
       \/ ip[1] = 255
       \/ PrefixMatches(ip, <<32, 1, 13, 184>>, 32)
       \/ PrefixMatches(ip, <<32, 1, 0, 2, 0, 0>>, 48)
       \/ ip[1] = 32 /\ ip[2] = 2

-----------------------------------------------------------------------------
\* The lists of the options and the native rules.

\* curb_parse_cidr_rule on a text [form, address, slash, prefix]: form is how
\* the address is bracketed, address a sequence of bytes or junk (<<>>),
\* slash whether a number, nothing or junk follows a slash.
ParsedCidr(t) ==
  LET most == 8 * Len(t.address)
      bits == IF t.slash = "absent" THEN most ELSE t.prefix
      valid == /\ t.form \in {"plain", "bracketed"}
               /\ Len(t.address) \in {4, 16}
               /\ t.slash \in {"absent", "number"}
               /\ bits \in 0 .. most
  IN IF valid THEN [family |-> Len(t.address), address |-> t.address, bits |-> bits]
     ELSE Nil

First(s, ts) == Min({i \in 1 .. Len(s) : s[i] \in ts} \cup {Len(s) + 1})
LastOf(s, t) == Max({i \in 1 .. Len(s) : s[i] = t} \cup {0})

\* s without the tokens ts at its end.
Chomped(s, ts) == SubSeq(s, 1, Max({i \in 1 .. Len(s) : s[i] \notin ts} \cup {0}))
Trimmed(s) == Reverse(Chomped(Reverse(Chomped(s, {" "})), {" "}))

Downcased(s) == [i \in 1 .. Len(s) |-> IF s[i] = "A" THEN "a" ELSE s[i]]

\* curb_normalized_host_from_range.
HostFromRange(s) ==
  LET bare == Chomped(Trimmed(s), {"."})
  IN IF bare = <<>> THEN Nil ELSE Downcased(bare)

\* Mutant: the last @ of the text is not skipped to.
HostValueWithUser(text) ==
  LET t == Trimmed(text)
      u == IF Contains(t, "://") THEN SubSeq(t, First(t, {"://"}) + 1, Len(t)) ELSE t
      authority == SubSeq(u, 1, First(u, {"/", "?", "#"}) - 1)
  IN HostFromRange(SubSeq(authority, 1, First(authority, {":"}) - 1))

\* curb_normalize_host_value_impl: Nil where it raises or gives NULL.
HostValue(text) ==
  LET t == Trimmed(text)
      u == IF Contains(t, "://") THEN SubSeq(t, First(t, {"://"}) + 1, Len(t)) ELSE t
      authority == SubSeq(u, 1, First(u, {"/", "?", "#"}) - 1)
      h == SubSeq(authority, LastOf(authority, "@") + 1, Len(authority))
      colons == Cardinality({i \in 1 .. Len(h) : h[i] = ":"})
  IN IF t = <<>> THEN Nil
     ELSE IF h # <<>> /\ Head(h) = "["
     THEN IF Contains(h, "]") THEN HostFromRange(SubSeq(h, 2, First(h, {"]"}) - 1)) ELSE Nil
     ELSE HostFromRange(IF colons <= 1 THEN SubSeq(h, 1, First(h, {":"}) - 1) ELSE h)

\* curb_prepare_*: the old rules are freed; no list, no rules.
PreparedCidrs(list) == IF list = Nil THEN {} ELSE {ParsedCidr(t) : t \in list}
PreparedHosts(list) == IF list = Nil THEN {} ELSE list

\* curb_cidr_rules_match, curb_host_rules_match: no rules match everything.
CidrRulesMatch(family, ip) ==
  \/ cidrRules = {}
  \/ \E r \in cidrRules : r.family = family /\ PrefixMatches(ip, r.address, r.bits)
HostRulesMatch(host) == hostRules = {} \/ host \in hostRules

-----------------------------------------------------------------------------
NetworkInit ==
  /\ scenario \in Scenarios
  /\ policy = "none" /\ cidrs = Nil /\ hosts = Nil
  /\ cidrRules = {} /\ hostRules = {}
  /\ hooks = {} /\ blocked = FALSE /\ transferring = FALSE /\ last = Nil /\ answers = {}

\* Mutant: the new list waits for the next setup.
SetAllowedCidrsLater(list) ==
  /\ list # Nil => \A t \in list : ParsedCidr(t) # Nil
  /\ cidrs' = list /\ last' = Nil
  /\ UNCHANGED <<policy, hosts, cidrRules, hostRules, hooks, blocked, transferring, answers>>

\* Easy#allowed_cidrs=.  A text that does not parse raises before anything
\* is stored.
SetAllowedCidrs(list) ==
  /\ list # Nil => \A t \in list : ParsedCidr(t) # Nil
  /\ cidrs' = list /\ last' = Nil
  /\ cidrRules' = IF policy = "public" THEN PreparedCidrs(list) ELSE {}
  /\ UNCHANGED <<policy, hosts, hostRules, hooks, blocked, transferring, answers>>

\* Easy#allowed_hosts=.
SetAllowedHosts(list) ==
  /\ list # Nil => \A t \in list : HostValue(t) # Nil
  /\ hosts' = IF list = Nil THEN Nil ELSE {HostValue(t) : t \in list}
  /\ hostRules' = PreparedHosts(hosts') /\ last' = Nil
  /\ UNCHANGED <<policy, cidrs, cidrRules, hooks, blocked, transferring, answers>>

\* Easy#network_policy=.  The rules stay as they are.
SetNetworkPolicy ==
  /\ ~transferring
  /\ policy' \in {"none", "public"} \ {policy} /\ last' = Nil
  /\ UNCHANGED <<cidrs, hosts, cidrRules, hostRules, hooks, blocked, transferring, answers>>

\* ruby_curl_easy_setup_body, as far as it is about destinations.
SetupNetwork ==
  /\ ~transferring /\ transferring' = TRUE
  /\ blocked' = FALSE /\ last' = Nil /\ answers' = {}
  /\ hostRules' = PreparedHosts(hosts)
  /\ cidrRules' = IF policy = "public" THEN PreparedCidrs(cidrs) ELSE {}
  /\ hooks' = {h \in {"open", "prereq"} :
                 IF h = "open" THEN policy = "public" ELSE hosts # Nil}
  /\ UNCHANGED <<policy, cidrs, hosts>>

\* curb_public_network_opensocket.  A destination of another family, such
\* as a local socket, is refused only where there are CIDR rules.
RefusedDest(d) ==
  \/ d.family = 4 /\ UnsafeIpv4(d.ip)
  \/ d.family = 16 /\ UnsafeIpv6(d.ip)
  \/ IF d.family \in {4, 16} THEN ~CidrRulesMatch(d.family, d.ip) ELSE cidrRules # {}

OpenSocket(d) ==
  /\ transferring
  /\ last' = [dest |-> d, ok |-> "open" \in hooks => ~RefusedDest(d)]
  /\ blocked' = (blocked \/ ~last'.ok) /\ answers' = answers \cup {last'.ok}
  /\ UNCHANGED <<policy, cidrs, hosts, cidrRules, hostRules, hooks, transferring>>

\* curb_host_allowlist_prereq; an URL without a host is refused.
Admitted(u) ==
  hostRules # {} =>
    LET host == HostValue(u.before \o u.host \o u.after)
    IN host # Nil /\ HostRulesMatch(host)

Prereq(u) ==
  /\ transferring
  /\ last' = [url |-> u, ok |-> "prereq" \in hooks => Admitted(u)]
  /\ blocked' = (blocked \/ ~last'.ok) /\ answers' = answers \cup {last'.ok}
  /\ UNCHANGED <<policy, cidrs, hosts, cidrRules, hostRules, hooks, transferring>>

\* ruby_curl_easy_cleanup at the end of a transfer.
Finish ==
  /\ transferring /\ transferring' = FALSE /\ last' = Nil
  /\ cidrRules' = {} /\ hostRules' = {}
  /\ UNCHANGED <<policy, cidrs, hosts, hooks, blocked, answers>>

NetworkNext ==
  /\ \/ \E list \in CidrLists[scenario] : SetAllowedCidrs(list)
     \/ \E list \in HostLists[scenario] : SetAllowedHosts(list)
     \/ SetNetworkPolicy \/ SetupNetwork \/ Finish
     \/ \E d \in Dests[scenario] : OpenSocket(d)
     \/ \E u \in Urls[scenario] : Prereq(u)
  /\ UNCHANGED scenario

NetworkSpec == NetworkInit /\ [][NetworkNext]_networkVars

-----------------------------------------------------------------------------
\* The rules have the shape curb_cidr_rule gives them, and stand for texts
\* and hosts of the lists (curb_easy.c 201-270).
NetworkTypeOK ==
  /\ policy \in {"none", "public"} /\ cidrs \in CidrLists[scenario] \cup {Nil}
  /\ hooks \subseteq {"open", "prereq"} /\ blocked \in BOOLEAN /\ transferring \in BOOLEAN
  /\ \A r \in cidrRules : r.family \in {4, 16} /\ r.bits \in 0 .. 8 * r.family
  /\ Nil \notin hostRules

\* The bit j of a byte and the bit i of an address, from the left.
BitOf(b, j) == (b \div Weight[j]) % 2
Bit(ip, i) == BitOf(ip[((i - 1) \div 8) + 1], ((i - 1) % 8) + 1)

\* The definition of a CIDR block: the first bits are the same.
InBlock(ip, address, bits) == \A i \in 1 .. bits : Bit(ip, i) = Bit(address, i)

\* The IPv4 blocks that the comments of curb_ipv4_is_unsafe_destination name.
Ipv4Blocks == {
  <<<<0, 0, 0, 0>>, 8>>, <<<<10, 0, 0, 0>>, 8>>, <<<<100, 64, 0, 0>>, 10>>,
  <<<<127, 0, 0, 0>>, 8>>, <<<<169, 254, 0, 0>>, 16>>, <<<<172, 16, 0, 0>>, 12>>,
  <<<<192, 168, 0, 0>>, 16>>, <<<<192, 0, 0, 0>>, 24>>, <<<<192, 0, 2, 0>>, 24>>,
  <<<<198, 18, 0, 0>>, 15>>, <<<<198, 51, 100, 0>>, 24>>, <<<<203, 0, 113, 0>>, 24>>,
  <<<<224, 0, 0, 0>>, 3>>}
Ipv4Special(ip) == \E b \in Ipv4Blocks : InBlock(ip, b[1], b[2])

\* The IPv6 blocks of curb_ipv6_is_unsafe_destination: unique local, link
\* and site local, multicast, documentation, benchmarking, 6to4, IPv4
\* compatible, local NAT64; ::ffff:0:0/96 and 64:ff9b::/96 are as special as
\* the IPv4 address in them, and the rest of ::/16 is where it ends in 0001,
\* as ::1 does.
Ipv6Blocks == {
  <<<<252>>, 7>>, <<<<254, 128>>, 10>>, <<<<254, 192>>, 10>>, <<<<255>>, 8>>,
  <<<<32, 1, 13, 184>>, 32>>, <<<<32, 1, 0, 2, 0, 0>>, 48>>, <<<<32, 2>>, 16>>,
  <<Zeroes(12), 96>>, <<<<0, 100, 255, 155, 0, 1>>, 48>>}
Ipv6Special(ip) ==
  \/ \E b \in Ipv6Blocks : InBlock(ip, b[1], b[2])
  \/ /\ InBlock(ip, Ipv4Mapped, 96) \/ InBlock(ip, Nat64, 96)
     /\ Ipv4Special(SubSeq(ip, 13, 16))
  \/ /\ InBlock(ip, <<0, 0>>, 16) /\ ~InBlock(ip, Ipv4Mapped, 96)
     /\ ip[15] = 0 /\ ip[16] = 1

\* Under the public policy a socket is opened exactly where the address is
\* in none of the special blocks and, if allowed_cidrs has ranges at that
\* moment, in one of them.
OpensRight ==
  (last # Nil /\ "dest" \in DOMAIN last /\ "open" \in hooks) =>
    LET d == last.dest
        listed == cidrs # Nil /\ cidrs # {}
        inside == \E t \in cidrs : /\ Len(t.address) = d.family
                                   /\ InBlock(d.ip, t.address, ParsedCidr(t).bits)
    IN last.ok <=> CASE d.family = 4 -> ~Ipv4Special(d.ip) /\ (listed => inside)
                     [] d.family = 16 -> ~Ipv6Special(d.ip) /\ (listed => inside)
                     [] OTHER -> ~listed

\* A refusal, by either hook, is on record until the next setup, whatever
\* libcurl tries after it.
RefusalOnRecord == blocked <=> FALSE \in answers

\* Bytes, masks, families and rules rebuilt in the middle of a transfer agree
\* with the definition of a block, and unsafe_destination_error tells what the
\* latest transfer met (curb_easy.c 82-183, 540-552, 583-609, 654-718, 3507, 3876).
OpensOnlyAllowed == OpensRight /\ RefusalOnRecord

\* A request of a transfer set up with a host list goes out exactly when the
\* URL names a host of the list as it is now, however the URL spells it
\* (curb_easy.c 329-426, 502-512, 611-650).
SendsOnlyToListedHosts ==
  (last # Nil /\ "url" \in DOMAIN last /\ "prereq" \in hooks) =>
    (last.ok <=> hosts \in {Nil, {}} \/ Canonical[last.url.host] \in hosts)

\* While a transfer runs, the native rules are those of the options,
\* whichever setters were called in which order before and within it
\* (curb_easy.c 456-538, 2382-2434, 3897-3938).
RulesFollowOptions ==
  /\ NetworkTypeOK
  /\ transferring => /\ cidrRules = IF policy = "public" THEN PreparedCidrs(cidrs) ELSE {}
                     /\ hostRules = PreparedHosts(hosts)
==============================================================================
