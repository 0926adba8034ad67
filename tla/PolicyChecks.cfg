SPECIFICATION NetworkSpec
CONSTANTS
  Nil = Nil
  Scenarios = {"addresses", "lists"}
  Dests <- MCDests
  CidrLists <- MCCidrs
  HostLists <- MCHostsGiven
  Urls <- MCUrlsMet
  Canonical <- MCCanonical
INVARIANT OpensOnlyAllowed
INVARIANT SendsOnlyToListedHosts
INVARIANT RulesFollowOptions
