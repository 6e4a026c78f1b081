----------------------------- MODULE MCPowKeys -----------------------------
(* Instances of PowKeys for TLC.                                           *)
EXTENDS PowKeys, TLC

Symmetry == Permutations(Challenges) \cup Permutations(Keys)
            \cup Permutations(Redeemers) \cup Permutations(Clients)
=============================================================================
