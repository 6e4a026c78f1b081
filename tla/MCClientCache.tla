--------------------------- MODULE MCClientCache ---------------------------
(* An instance of ClientCache for TLC.                                      *)
EXTENDS ClientCache, TLC

CONSTANTS a1, a2, i1, i2

\* An external proxy and a container, each with an address of its own.
TwoProxies == i1 :> a1 @@ i2 :> a2
=============================================================================
