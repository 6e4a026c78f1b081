-------------------------- MODULE MCRequestRetry --------------------------
(* Instances of RequestRetry for TLC.                                      *)
EXTENDS RequestRetry, TLC

Symmetry == Permutations(Proxies)
=============================================================================
