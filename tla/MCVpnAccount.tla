---------------------------- MODULE MCVpnAccount ----------------------------
(* An instance of VpnAccount for TLC.                                       *)
EXTENDS VpnAccount, TLC

\* Equal scores, equal servers, a worse one, the best one in another country,
\* and one that is down.
SomeServers ==
  << [name |-> "NL1", country |-> "NL", score |-> 1, load |-> 40, up |-> TRUE],
     [name |-> "NL2", country |-> "NL", score |-> 1, load |-> 20, up |-> TRUE],
     [name |-> "NL3", country |-> "NL", score |-> 1, load |-> 20, up |-> TRUE],
     [name |-> "US1", country |-> "US", score |-> 2, load |-> 90, up |-> TRUE],
     [name |-> "US2", country |-> "US", score |-> 3, load |-> 10, up |-> FALSE] >>

Wish(banned, avoid) == [banned |-> banned, avoid |-> avoid]

\* The best server is in use; its country is banned; its country is banned and
\* all servers are in use; every country is banned; only one server is free.
\* The server that is given is the same wherever one is, so that the wishes do
\* not multiply what the creators do with it.
SomeWishes ==
  { Wish({}, {"US1"}),
    Wish({"US"}, {}),
    Wish({"US"}, {"NL1", "NL2", "NL3", "US1"}),
    Wish({"NL", "US"}, {"US1"}),
    Wish({}, {"NL1", "NL3", "US1"}) }

\* For DialsSelected: two creations that are given different servers.
TwoWishes == {Wish({}, {}), Wish({"US"}, {})}

\* PROTONVPN_REGIONS=US, with the list of SomeServers.
RegionsKept == WithinRegions({"US"})
=============================================================================
