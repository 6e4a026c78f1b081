---------------------------- MODULE KeyExchange ----------------------------
(***************************************************************************)
(* What the proof-of-work service promises its clients, whatever           *)
(* statements and caches it is built from: a challenge that was offered is *)
(* exchanged for one key, at one instant, or withdrawn.  A key is accepted *)
(* from that instant until its time is over, and only a key that was       *)
(* exchanged is ever accepted.  Whether one whose time is over is still    *)
(* accepted is left open.                                                  *)
(***************************************************************************)
CONSTANTS Challenges, Keys,
          None       \* no challenge

VARIABLES standing,  \* of each challenge: "new", "open" or "closed"
          earned,    \* the challenge each key was exchanged for
          accepted,  \* the keys that pass authentication
          lapsed     \* the keys whose time is over

vars == <<standing, earned, accepted, lapsed>>

Init == /\ standing = [c \in Challenges |-> "new"]
        /\ earned = [k \in Keys |-> None]
        /\ accepted = {}
        /\ lapsed = {}

Offer(c) == /\ standing[c] = "new"
            /\ standing' = [standing EXCEPT ![c] = "open"]
            /\ UNCHANGED <<earned, accepted, lapsed>>

\* A solution that took too long may earn a key whose time is over already.
Exchange(c, k) == /\ standing[c] = "open"
                  /\ earned[k] = None
                  /\ standing' = [standing EXCEPT ![c] = "closed"]
                  /\ earned' = [earned EXCEPT ![k] = c]
                  /\ \/ accepted' = accepted \cup {k} /\ UNCHANGED lapsed
                     \/ lapsed' = lapsed \cup {k} /\ UNCHANGED accepted

\* Challenges expire or are lost, and time passes: whoever gains or loses
\* acceptance is a key whose time is over.
Upkeep(C) == /\ \A c \in C : standing[c] = "open"
             /\ standing' = [c \in Challenges |-> IF c \in C THEN "closed"
                                                  ELSE standing[c]]
             /\ lapsed \subseteq lapsed'
             /\ \A k \in lapsed' : earned[k] # None
             /\ accepted \ lapsed' \subseteq accepted'
             /\ accepted' \ accepted \subseteq lapsed
             /\ UNCHANGED earned

Next == \/ \E c \in Challenges : Offer(c) \/ \E k \in Keys : Exchange(c, k)
        \/ \E C \in SUBSET Challenges : Upkeep(C)

Spec == Init /\ [][Next]_vars
=============================================================================
