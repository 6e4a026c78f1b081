-------------------------------- MODULE Memo --------------------------------
(***************************************************************************)
(* What a cache of per-proxy clients promises its callers, whatever locks  *)
(* it is built from: a call for a key takes effect at one instant, at      *)
(* which it gets the client of the key and makes one if there is none.     *)
(* An entry is never replaced.  A call may also fail or never return;      *)
(* then it has no result.                                                  *)
(***************************************************************************)
CONSTANTS Calls,    \* the calls that are made, each for one key
          Keys,
          Clients,  \* the clients that may be made
          None      \* no key, no client

VARIABLES memo,     \* the client of each key
          key,      \* the key each call asks for
          result    \* the client each call got

vars == <<memo, key, result>>

Init == /\ memo = [k \in Keys |-> None]
        /\ key = [c \in Calls |-> None]
        /\ result = [c \in Calls |-> None]

Ask(c, k) == /\ key[c] = None
             /\ key' = [key EXCEPT ![c] = k]
             /\ UNCHANGED <<memo, result>>

Hit(c) == /\ memo[key[c]] # None
          /\ result' = [result EXCEPT ![c] = memo[key[c]]]
          /\ UNCHANGED <<memo, key>>

Make(c, v) == /\ memo[key[c]] = None
              /\ memo' = [memo EXCEPT ![key[c]] = v]
              /\ result' = [result EXCEPT ![c] = v]
              /\ UNCHANGED key

Get(c) == /\ key[c] \in Keys
          /\ result[c] = None
          /\ Hit(c) \/ \E v \in Clients : Make(c, v)

Next == \E c \in Calls : Get(c) \/ \E k \in Keys : Ask(c, k)

Spec == Init /\ [][Next]_vars
=============================================================================
