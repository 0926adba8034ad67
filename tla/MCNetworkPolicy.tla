--------------------------- MODULE MCNetworkPolicy ---------------------------
(***************************************************************************)
(* Instances of NetworkPolicy for TLC: addresses on both sides of the      *)
(* bounds of every block, prefix lengths at, around and off the byte       *)
(* boundaries, and the spellings of two hosts.                             *)
(***************************************************************************)
EXTENDS NetworkPolicy

V4(a, b, c, d) == [family |-> 4, ip |-> <<a, b, c, d>>]
V6(head, tail) ==
  [family |-> 16, ip |-> head \o Zeroes(16 - Len(head) - Len(tail)) \o tail]

\* First two bytes at the bounds of the IPv4 blocks, and the third bytes of
\* the blocks of 24 bits.
MCBoundary ==
  {V4(a, b, 1, 200) : a \in {0, 1, 9, 10, 11, 100, 126, 127, 128, 168, 169, 170,
                              172, 191, 192, 198, 203, 223, 224, 255},
                      b \in {0, 15, 16, 18, 19, 20, 31, 32, 51, 63, 64, 100, 127,
                              128, 167, 168, 169, 253, 254, 255}}
  \cup {V4(192, 0, c, 1) : c \in 0 .. 3}
  \cup {V4(198, 51, c, 1) : c \in 99 .. 101} \cup {V4(203, 0, c, 1) : c \in 112 .. 114}
  \cup {V6(h, <<1, 8>>) : h \in
          {<<32, 1, 13, 183>>, <<32, 1, 13, 184>>, <<32, 1, 13, 185>>, <<32, 2>>, <<32, 3>>,
           <<32, 1, 0, 2, 0, 0>>, <<32, 1, 0, 2, 0, 1>>, <<0, 100, 255, 155, 0, 1>>,
           <<0, 100, 255, 155, 0, 2>>, <<38>>, <<251>>, <<252>>, <<253>>, <<254, 127>>,
           <<254, 128>>, <<254, 191>>, <<254, 192>>, <<255>>}}
  \cup {V6(Ipv4Mapped, <<10, 1, 1, 1>>), V6(Ipv4Mapped, <<8, 8, 8, 8>>),
        V6(Ipv4Mapped, <<8, 8, 0, 1>>), V6(Nat64, <<8, 8, 0, 1>>),
        V6(Nat64, <<127, 0, 0, 1>>), V6(Nat64, <<8, 8, 8, 8>>),
        V6(<<>>, <<8, 8, 8, 8>>), V6(<<>>, <<>>), V6(<<0, 0, 5>>, <<0, 1>>)}

MCSomeDests ==
  {V4(8, 8, 8, 8), V4(8, 8, 12, 8), V4(8, 9, 8, 8), V4(136, 8, 8, 8), V4(10, 8, 8, 8),
   V6(<<38, 6, 71>>, <<1>>), V6(<<38, 6, 79>>, <<1>>), [family |-> 0, ip |-> <<>>]}

Cidr(f, a, p) == [form |-> f, address |-> a, slash |-> "number", prefix |-> p]
Without(a, sl) == [form |-> "plain", address |-> a, slash |-> sl, prefix |-> 0]
MCNoCidrs == {Nil}
MCCidrLists ==
  {Nil, {}} \cup {{Cidr("plain", <<8, 8, 8, 8>>, p)} :
                    p \in {0, 1, 7, 8, 15, 16, 21, 22, 24, 31, 32, 33}}
  \cup {{Without(<<8, 8, 8, 8>>, sl)} : sl \in {"absent", "empty", "junk"}}
  \cup {{Cidr("bracketed", <<38, 6, 71>> \o Zeroes(13), 20)},
        {Cidr("plain", <<38, 6, 71>> \o Zeroes(13), 21), Cidr("plain", <<8, 8, 8, 0>>, 24)},
        {Cidr("unclosed", <<38, 6, 71>> \o Zeroes(13), 20)}, {Without(<<>>, "absent")}}

\* One host in two spellings, another host, an address that holds colons.
Name == <<"A", "a">>
MCHosts == {Name, <<"a", "a", ".">>, <<"b">>, <<"[", ":", ":", "a", "]">>}
MCCanonical ==
  [h \in MCHosts |-> CASE h = <<"b">> -> <<"b">>
                       [] Head(h) = "[" -> <<":", ":", "a">>
                       [] OTHER -> <<"a", "a">>]
MCUrls == {[before |-> x, host |-> h, after |-> y] :
             x \in {<<>>, <<"s", "://">>, <<"s", "://", "b", ":", "b", "@">>},
             h \in MCHosts,
             y \in {<<>>, <<".", ":", "1">>, <<":", "1", "/", "b">>, <<"/", "@", "b">>}}
MCGoodUrls == {u \in MCUrls : ~(Head(u.host) = "[" /\ u.after # <<>> /\ Head(u.after) = ".")}
MCHostLists ==
  {Nil, {}, {Name}, {<<" ", "A", "A", ".", " ">>, <<"b", ":", "1">>},
   {<<"s", "://", "[", ":", ":", "A", "]", "/">>}, {<<" ">>}, {<<"[", "a">>}}

\* One program without lists meets every address, the other sets lists.
MCDests == [addresses |-> MCBoundary, lists |-> MCSomeDests]
MCCidrs == [addresses |-> MCNoCidrs, lists |-> MCCidrLists]
MCHostsGiven == [addresses |-> MCNoCidrs, lists |-> MCHostLists]
MCUrlsMet == [addresses |-> {}, lists |-> MCGoodUrls]
==============================================================================
