---------------------------- MODULE MCManagement ----------------------------
(* An instance of Management for TLC.                                       *)
EXTENDS Management, TLC

CONSTANTS u1, u2, a1, v0, v1

\* One account and one external proxy in .env.
OneAccount == [accounts |-> <<u1>>, proxies |-> <<a1>>, value |-> v0]

\* An account was added in front, the proxy removed and the setting changed.
TwoAccounts == [accounts |-> <<u2, u1>>, proxies |-> <<>>, value |-> v1]

EnvFixed == {OneAccount}

EnvEdited == {OneAccount, TwoAccounts}

Symmetry == Permutations(Handlers)
=============================================================================
