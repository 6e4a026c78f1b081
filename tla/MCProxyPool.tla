---------------------------- MODULE MCProxyPool ----------------------------
(* Instances of ProxyPool for TLC.                                          *)
EXTENDS ProxyPool, TLC

\* No request belongs to a conversation.
NoConversation == [r \in Requests |-> NoConv]

\* All requests belong to conversations, the same one.
OneConversation == [r \in Requests |-> CHOOSE c \in Convs : TRUE]

Symmetry == Permutations(Proxies) \cup Permutations(Creators)
            \cup Permutations(Requests) \cup Permutations(IPs)
=============================================================================
