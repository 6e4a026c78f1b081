-------------------------- MODULE VpnAccountProofs --------------------------
(***************************************************************************)
(* Proofs for VpnAccount: what SelectServer chooses, and that a stored     *)
(* certificate and the key of a container belong together.                 *)
(***************************************************************************)
EXTENDS VpnAccount, WellFoundedInduction, TLAPS

\* Induction over the naturals, as the least counterexample.
LEMMA LeastNumber ==
  ASSUME NEW T, T \subseteq Nat, T # {}
  PROVE  \E m \in T : \A k \in T : m <= k
<1> DEFINE R == OpToRel(<, Nat)
<1>1. IsWellFoundedOn(R, Nat)
  BY NatLessThanWellFounded
<1>2. \A x, y \in Nat : x < y => <<x, y>> \in R
  BY DEF OpToRel
<1> HIDE DEF R
<1>3. PICK m \in T : \A y \in T : ~ (<<y, m>> \in R)
  BY <1>1, WFMin
<1>4. \A k \in T : ~ (k < m)
  BY <1>2, <1>3
<1>5. \A k \in T : k \in Nat /\ m \in Nat
  OBVIOUS
<1> QED
  BY <1>4, <1>5

-----------------------------------------------------------------------------
(* SelectServer                                                            *)

\* One turn of the loop over the candidates.
Turn(places, f, n) ==
  IF n = 0 THEN 0
  ELSE IF n \in places /\ (f[n - 1] = 0 \/ Better(List[n], List[f[n - 1]]))
       THEN n ELSE f[n - 1]

\* The loop runs up to any place.
LEMMA LoopRuns ==
  ASSUME NEW places, NEW N \in Nat
  PROVE  \E f : f = [i \in 0 .. N |-> Turn(places, f, i)]
<1> DEFINE P(n) == \E f : f = [i \in 0 .. n |-> Turn(places, f, i)]
           Bad == {n \in Nat : ~P(n)}
<1>1. SUFFICES ASSUME Bad # {} PROVE FALSE
  BY <1>1
<1>2. PICK m \in Bad : \A k \in Bad : m <= k
  <2> HIDE DEF Bad
  <2>1. Bad \subseteq Nat
    BY DEF Bad
  <2> QED BY <1>1, <2>1, LeastNumber
<1>3. CASE m = 0
  <2>1. [i \in 0 .. 0 |-> 0] = [i \in 0 .. 0 |-> Turn(places, [j \in 0 .. 0 |-> 0], i)]
    BY DEF Turn
  <2> QED BY <1>2, <1>3, <2>1
<1>4. CASE m # 0
  <2>1. m - 1 \in Nat /\ P(m - 1)
    BY <1>2, <1>4
  <2>2. PICK f : f = [i \in 0 .. m - 1 |-> Turn(places, f, i)]
    BY <2>1
  <2> DEFINE g == [i \in 0 .. m |-> IF i < m THEN f[i] ELSE Turn(places, f, m)]
  <2>3. \A i \in 0 .. m : g[i] = Turn(places, g, i)
    <3> TAKE i \in 0 .. m
    <3>1. i # 0 => g[i - 1] = f[i - 1]
      OBVIOUS
    <3>2. Turn(places, g, i) = Turn(places, f, i)
      BY <3>1 DEF Turn
    <3>3. i < m => f[i] = Turn(places, f, i)
      BY <2>2
    <3> QED BY <3>2, <3>3
  <2>4. g = [i \in 0 .. m |-> Turn(places, g, i)]
    BY <2>3
  <2> QED BY <1>2, <2>4
<1> QED
  BY <1>3, <1>4

\* BestUpTo is the loop.
LEMMA BestUpToDef ==
  ASSUME NEW places
  PROVE  BestUpTo(places) = [i \in 0 .. Len(List) |-> Turn(places, BestUpTo(places), i)]
<1> DEFINE Loop(f) == f = [i \in 0 .. Len(List) |-> Turn(places, f, i)]
<1>1. \E f : Loop(f)
  BY LoopRuns, ListAssumption
<1>2. Loop(CHOOSE f : Loop(f))
  BY <1>1
<1>3. BestUpTo(places) = CHOOSE f : Loop(f)
  BY DEF BestUpTo, Turn
<1> QED
  BY <1>2, <1>3

\* What is best after n places: nothing if there was no candidate, else the
\* first of the candidates than which none is better.
Leads(places, n, b) ==
  /\ b = 0 => \A j \in places : j > n
  /\ b # 0 => /\ b \in places /\ b \in 1 .. n
              /\ \A j \in places : j <= n => ~Better(List[j], List[b])
              /\ \A j \in places : j < b => Better(List[b], List[j])

\* Better is a strict order by score and load.
LEMMA BetterOrder ==
  ASSUME NEW s, NEW t, NEW u,
         s.score \in Int, t.score \in Int, u.score \in Int,
         s.load \in Int, t.load \in Int, u.load \in Int
  PROVE  /\ ~Better(s, s)
         /\ Better(s, t) /\ ~Better(u, t) => Better(s, u) /\ ~Better(u, s)
BY DEF Better

\* After any number of places the loop holds the candidate that leads.
LEMMA BestLeads ==
  ASSUME NEW places, places \subseteq DOMAIN List, NEW N \in 0 .. Len(List)
  PROVE  Leads(places, N, BestUpTo(places)[N])
<1> DEFINE b == BestUpTo(places)
           Bad == {n \in 0 .. Len(List) : ~Leads(places, n, b[n])}
<1>0. /\ Len(List) \in Nat
      /\ \A j \in places : j \in 1 .. Len(List) /\ List[j].score \in Int /\ List[j].load \in Int
  BY ListAssumption
<1>1. \A n \in 0 .. Len(List) : b[n] = Turn(places, b, n)
  <2> HIDE DEF b
  <2>1. b = [i \in 0 .. Len(List) |-> Turn(places, b, i)]
    BY BestUpToDef DEF b
  <2> QED BY <2>1
<1> HIDE DEF b
<1>2. SUFFICES ASSUME Bad # {} PROVE FALSE
  BY <1>2 DEF b
<1>3. PICK m \in Bad : \A k \in Bad : m <= k
  <2> HIDE DEF Bad
  <2>1. Bad \subseteq Nat
    BY <1>0 DEF Bad
  <2> QED BY <1>2, <2>1, LeastNumber
<1>4. CASE m = 0
  <2>1. b[0] = 0
    BY <1>0, <1>1 DEF Turn
  <2> QED BY <1>0, <1>3, <1>4, <2>1 DEF Leads
<1>5. CASE m # 0
  <2>0. m \in 1 .. Len(List) /\ ~Leads(places, m, b[m])
    BY <1>0, <1>3, <1>5
  <2>1. Leads(places, m - 1, b[m - 1])
    BY <1>0, <1>3, <2>0
  <2>2. b[m] = IF m \in places /\ (b[m - 1] = 0 \/ Better(List[m], List[b[m - 1]]))
               THEN m ELSE b[m - 1]
    BY <1>0, <1>1, <2>0 DEF Turn
  <2>3. \A j \in places : j <= m <=> j <= m - 1 \/ j = m
    BY <1>0, <2>0
  <2>4. Leads(places, m, b[m])
    <3>1. CASE m \in places /\ b[m - 1] = 0
      BY <1>0, <2>0, <2>1, <2>2, <2>3, <3>1, BetterOrder DEF Leads
    <3>2. CASE m \in places /\ b[m - 1] # 0 /\ Better(List[m], List[b[m - 1]])
      <4> DEFINE a == b[m - 1]
      <4>1. b[m] = m /\ m \in 1 .. m /\ a \in places /\ a \in 1 .. m - 1
        BY <2>0, <2>1, <2>2, <3>2 DEF Leads
      <4>2. \A j \in places : j <= m - 1 => Better(List[m], List[j]) /\ ~Better(List[j], List[m])
        <5> TAKE j \in places
        <5> HAVE j <= m - 1
        <5>1. ~Better(List[j], List[a])
          BY <2>1, <3>2 DEF Leads
        <5> QED BY <1>0, <3>2, <4>1, <5>1, BetterOrder
      <4>3. ~Better(List[m], List[m])
        BY <1>0, <3>2, BetterOrder
      <4> QED BY <1>0, <2>0, <2>3, <3>2, <4>1, <4>2, <4>3 DEF Leads
    <3>3. CASE m \in places /\ b[m - 1] # 0 /\ ~Better(List[m], List[b[m - 1]])
      BY <1>0, <2>0, <2>1, <2>2, <2>3, <3>3 DEF Leads
    <3>4. CASE m \notin places
      BY <1>0, <2>0, <2>1, <2>2, <2>3, <3>4 DEF Leads
    <3> QED BY <3>1, <3>2, <3>3, <3>4
  <2> QED BY <2>0, <2>4
<1> QED
  BY <1>4, <1>5

-----------------------------------------------------------------------------
(* Types                                                                   *)

\* The name that SelectServer gives is one of the list.
LEMMA SelectServerType ==
  ASSUME NEW banned, NEW avoid
  PROVE  SelectServer(banned, avoid) \in Servers
<1> DEFINE first == Candidates(banned, avoid)
           found == IF first = {} /\ avoid # {} THEN Fallback(banned) ELSE first
<1>1. found \subseteq DOMAIN List
  BY DEF Candidates, Fallback
<1>2. CASE found = {}
  BY <1>2 DEF SelectServer, Servers
<1>3. CASE found # {}
  <2> HIDE DEF found
  <2>1. Len(List) \in 0 .. Len(List) /\ \A j \in found : j <= Len(List)
    BY <1>1, ListAssumption
  <2>2. Leads(found, Len(List), Best(found))
    BY <1>1, <2>1, BestLeads DEF Best
  <2>3. Best(found) \in DOMAIN List
    BY <1>1, <1>3, <2>1, <2>2, ListAssumption DEF Leads
  <2>4. SelectServer(banned, avoid) = List[Best(found)].name
    BY <1>3 DEF SelectServer, found
  <2> QED BY <2>3, <2>4 DEF Servers
<1> QED
  BY <1>2, <1>3

\* A call that has returned keeps no server and no certificate.
LEMMA NoneType == None \in Servers /\ NoCert \in [key : Nat, server : Servers]
BY DEF Servers, NoCert

\* TypeOK in two parts, as the provers need them.
Flags == accepted \in BOOLEAN /\ list \in BOOLEAN /\ spoilt \in BOOLEAN

Data ==
  /\ mode \in {"cookies", "srp"}
  /\ session \in {"none", "good", "lapsed", "revoked"}
  /\ edKey \in Nat /\ lastKey \in Nat
  /\ certMu \in Creators \cup {None}
  /\ pc \in [Creators -> {"idle", "ensure", "validate", "import", "recheck", "login", "save",
                           "use", "fetch", "select", "lock", "cert", "key", "request",
                           "regenerate", "store", "pair", "ok", "failed"}]
  /\ sess \in [Creators -> {"none", "good", "lapsed", "revoked"}]
  /\ server \in [Creators -> Servers]
  /\ reqKey \in [Creators -> Nat] /\ wgKey \in [Creators -> Nat]
  /\ faults \in 0 .. MaxFaults

Rest ==
  /\ certs \in Seq([key : Nat, server : Servers, age : {"fresh", "due", "expired"}])
  /\ asked \in [Creators -> Wishes \cup {None}]
  /\ retried \in [Creators -> BOOLEAN] /\ disturbed \in [Creators -> BOOLEAN]
  /\ cert \in [Creators -> [key : Nat, server : Servers]]

\* An element of a sequence over R is in R.
LEMMA SeqElement == \A R : \A q \in Seq(R) : \A i \in DOMAIN q : q[i] \in R
OBVIOUS

\* The types hold at the start.
LEMMA InitType == Init => TypeOK
<1> SUFFICES ASSUME Init PROVE TypeOK
  OBVIOUS
<1>1. Flags
  BY DEF Init, Flags
<1>2. Data
  BY MaxFaultsAssumption, NoneType DEF Init, Data
<1>3. Rest
  BY NoneType DEF Init, Rest
<1> QED BY <1>1, <1>2, <1>3 DEF Flags, Data, Rest, TypeOK

\* Every step keeps the types.
LEMMA TypeStep == TypeOK /\ [Next]_vars => TypeOK'
<1> SUFFICES ASSUME TypeOK, [Next]_vars PROVE TypeOK'
  OBVIOUS
<1> USE DEF TypeOK, store, local
<1>1. ASSUME NEW c \in Creators, Begin(c) PROVE TypeOK'
  <2>1. Flags'
    BY <1>1 DEF Begin, Flags
  <2>2. Data'
    <3>1. \E to \in {"select", "ensure"} : At(c, "idle", to)
      BY <1>1 DEF Begin
    <3>2. faults' \in 0 .. MaxFaults
      BY <1>1, MaxFaultsAssumption DEF Begin, Fault
    <3>3. UNCHANGED <<mode, store, certMu, local>>
      BY <1>1 DEF Begin
    <3> QED BY <3>1, <3>2, <3>3 DEF At, Data
  <2>3. Rest'
    BY <1>1 DEF Begin, Rest
  <2> QED BY <2>1, <2>2, <2>3 DEF Flags, Data, Rest, TypeOK
<1>2. ASSUME NEW c \in Creators, FetchRefused(c) PROVE TypeOK'
  <2>1. Flags'
    BY <1>2 DEF FetchRefused, Flags
  <2>2. Data'
    <3>1. session' \in {"none", "good", "lapsed", "revoked"} /\ faults' \in 0 .. MaxFaults
      BY <1>2, MaxFaultsAssumption DEF FetchRefused, Fault
    <3> QED BY <1>2, <3>1, NoneType DEF FetchRefused, Fail, Forget, Data
  <2>3. Rest'
    BY <1>2, NoneType DEF FetchRefused, Fail, Forget, Rest
  <2> QED BY <2>1, <2>2, <2>3 DEF Flags, Data, Rest, TypeOK
<1>3. ASSUME NEW c \in Creators, Fetch(c) PROVE TypeOK'
  <2>1. Flags'
    BY <1>3 DEF Fetch, At, Fault, TypeOK, Flags
  <2>2. Data'
    BY <1>3, MaxFaultsAssumption, NoneType DEF Fetch, At, Fault, TypeOK, Data
  <2>3. Rest'
    BY <1>3, NoneType DEF Fetch, At, Fault, TypeOK, Rest
  <2> QED BY <2>1, <2>2, <2>3 DEF Flags, Data, Rest, TypeOK
<1>4. ASSUME NEW c \in Creators, Ensure(c) PROVE TypeOK'
  BY <1>4, MaxFaultsAssumption, NoneType DEF Ensure, At
<1>5. ASSUME NEW c \in Creators, Validate(c) PROVE TypeOK'
  <2>1. Flags'
    BY <1>5 DEF Validate, At, Fault, TypeOK, Flags
  <2>2. Data'
    <3>1. \E to \in {"use", "import"} : At(c, "validate", to)
      BY <1>5 DEF Validate
    <3>2. Fault \/ faults' = faults
      BY <1>5 DEF Validate
    <3>3. UNCHANGED <<mode, store, certMu, local>>
      BY <1>5 DEF Validate
    <3>4. faults' \in 0 .. MaxFaults
      BY <3>2, MaxFaultsAssumption DEF Fault
    <3> QED BY <3>1, <3>3, <3>4 DEF At, Data
  <2>3. Rest'
    BY <1>5, NoneType DEF Validate, At, Fault, TypeOK, Rest
  <2> QED BY <2>1, <2>2, <2>3 DEF Flags, Data, Rest, TypeOK
<1>6. ASSUME NEW c \in Creators, Import(c) PROVE TypeOK'
  BY <1>6, MaxFaultsAssumption, NoneType DEF Import, At
<1>7. ASSUME NEW c \in Creators, Recheck(c) PROVE TypeOK'
  BY <1>7, MaxFaultsAssumption, NoneType DEF Recheck, At
<1>8. ASSUME NEW c \in Creators, RecheckRefused(c) PROVE TypeOK'
  BY <1>8, MaxFaultsAssumption, NoneType DEF RecheckRefused, Fail, Forget
<1>9. ASSUME NEW c \in Creators, Login(c) PROVE TypeOK'
  BY <1>9, MaxFaultsAssumption, NoneType DEF Login, At
<1>10. ASSUME NEW c \in Creators, SaveSession(c) PROVE TypeOK'
  BY <1>10, MaxFaultsAssumption, NoneType DEF SaveSession, At
<1>11. ASSUME NEW c \in Creators, UseSession(c) PROVE TypeOK'
  BY <1>11, MaxFaultsAssumption, NoneType DEF UseSession, At
<1>12. ASSUME NEW c \in Creators, NoSession(c) PROVE TypeOK'
  BY <1>12, MaxFaultsAssumption, NoneType DEF NoSession, Fail, Forget
<1>13. ASSUME NEW c \in Creators, CertLock(c) PROVE TypeOK'
  BY <1>13, MaxFaultsAssumption, NoneType DEF CertLock, At
<1>14. ASSUME NEW c \in Creators, CertCached(c) PROVE TypeOK'
  <2>1. Flags'
    BY <1>14 DEF CertCached, At, Returns, Latest, TypeOK, Flags
  <2>2. Data'
    BY <1>14, MaxFaultsAssumption, NoneType DEF CertCached, At, Returns, Latest, TypeOK, Data
  <2>3. Rest'
    <3>1. PICK i \in DOMAIN certs : Returns(c, certs[i].key, certs[i].server)
      BY <1>14 DEF CertCached, Latest
    <3>2. certs[i] \in [key : Nat, server : Servers, age : {"fresh", "due", "expired"}]
      BY SeqElement
    <3>3. certs[i].key \in Nat /\ certs[i].server \in Servers
      BY <3>2
    <3> QED BY <1>14, <3>1, <3>3 DEF CertCached, Returns, Rest
  <2> QED BY <2>1, <2>2, <2>3 DEF Flags, Data, Rest, TypeOK
<1>15. ASSUME NEW c \in Creators, CertMissing(c) PROVE TypeOK'
  BY <1>15, MaxFaultsAssumption, NoneType DEF CertMissing, At
<1>16. ASSUME NEW c \in Creators, Key(c) PROVE TypeOK'
  BY <1>16, MaxFaultsAssumption, NoneType DEF Key, At
<1>17. ASSUME NEW c \in Creators, Request(c) PROVE TypeOK'
  BY <1>17, MaxFaultsAssumption, NoneType DEF Request, At
<1>18. ASSUME NEW c \in Creators, RequestRefused(c) PROVE TypeOK'
  BY <1>18, MaxFaultsAssumption, NoneType DEF RequestRefused, Fail, Forget
<1>19. ASSUME NEW c \in Creators, Regenerate(c) PROVE TypeOK'
  <2>1. Flags'
    BY <1>19 DEF Regenerate, Flags
  <2>2. Data'
    BY <1>19 DEF Regenerate, At, Data
  <2>3. Rest'
    BY <1>19 DEF Regenerate, Disturb, Rest
  <2> QED BY <2>1, <2>2, <2>3 DEF Flags, Data, Rest, TypeOK
<1>20. ASSUME NEW c \in Creators, SetCertificate(c) PROVE TypeOK'
  <2> DEFINE new == [key |-> reqKey[c], server |-> server[c], age |-> "fresh"]
  <2>1. Flags'
    BY <1>20 DEF SetCertificate, Flags
  <2>2. Data'
    <3>1. new \in [key : Nat, server : Servers, age : {"fresh", "due", "expired"}]
      OBVIOUS
    <3>2. certs' = Append(certs, new)
      BY <1>20 DEF SetCertificate
    <3>3. certs' \in Seq([key : Nat, server : Servers, age : {"fresh", "due", "expired"}])
      BY <3>1, <3>2
    <3> QED BY <1>20, <3>3 DEF SetCertificate, At, Returns, Data
  <2>3. Rest'
    BY <1>20 DEF SetCertificate, Returns, Rest
  <2> QED BY <2>1, <2>2, <2>3 DEF Flags, Data, Rest, TypeOK
<1>21. ASSUME NEW c \in Creators, KeyPair(c) PROVE TypeOK'
  BY <1>21, MaxFaultsAssumption, NoneType DEF KeyPair, At
<1>22. ASSUME NEW c \in Creators, NoKeyPair(c) PROVE TypeOK'
  BY <1>22, MaxFaultsAssumption, NoneType DEF NoKeyPair, Fail, Forget
<1>23. ASSUME NEW c \in Creators, Again(c) PROVE TypeOK'
  BY <1>23, MaxFaultsAssumption, NoneType DEF Again, Forget
<1>24. ASSUME NEW c \in Creators, Conflict(c) PROVE TypeOK'
  BY <1>24, MaxFaultsAssumption, NoneType DEF Conflict, At, Fault
<1>25. ASSUME NEW c \in Creators, Breaks(c) PROVE TypeOK'
  BY <1>25, MaxFaultsAssumption, NoneType DEF Breaks, Fail, Forget, Fault
<1>26. ASSUME NEW c \in Creators, NEW w \in Wishes, Select(c, w)
      PROVE  TypeOK'
  <2>0. Selection[w] \in Servers
    BY SelectServerType DEF Selection
  <2> DEFINE Chosen ==
        /\ At(c, "select", "lock")
        /\ asked' = [asked EXCEPT ![c] = w]
        /\ server' = [server EXCEPT ![c] = Selection[w]]
        /\ UNCHANGED <<certMu, sess, reqKey, retried, cert, wgKey, disturbed>>
        /\ UNCHANGED <<mode, accepted, store, faults>>
  <2>9. (Fail(c) /\ UNCHANGED <<mode, accepted, store, faults>>) \/ Chosen
    BY <1>26 DEF Select
  <2>1. Flags'
    BY <1>26 DEF Select, At, Fail, Forget, TypeOK, Flags
  <2>2. Data'
    <3>1. CASE Fail(c) /\ UNCHANGED <<mode, accepted, store, faults>>
      BY <3>1, NoneType DEF Fail, Forget, Data
    <3>2. CASE Chosen
      BY <2>0, <3>2 DEF At, Data
    <3> QED BY <2>9, <3>1, <3>2
  <2>3. Rest'
    <3>1. CASE Fail(c) /\ UNCHANGED <<mode, accepted, store, faults>>
      BY <3>1, NoneType DEF Fail, Forget, Rest
    <3>2. CASE Chosen
      BY <2>0, <3>2 DEF At, Rest
    <3> QED BY <2>9, <3>1, <3>2
  <2> QED BY <2>1, <2>2, <2>3 DEF Flags, Data, Rest, TypeOK
<1>27. ASSUME ListExpires PROVE TypeOK'
  BY <1>27, MaxFaultsAssumption, NoneType DEF ListExpires
<1>28. ASSUME Lapse PROVE TypeOK'
  BY <1>28, MaxFaultsAssumption, NoneType DEF Lapse, Fault
<1>29. ASSUME Revoke PROVE TypeOK'
  <2>1. Flags'
    BY <1>29 DEF Revoke, Fault, TypeOK, Flags
  <2>2. Data'
    BY <1>29, MaxFaultsAssumption, NoneType DEF Revoke, Fault, TypeOK, Data
  <2>3. Rest'
    BY <1>29, NoneType DEF Revoke, Fault, TypeOK, Rest
  <2> QED BY <2>1, <2>2, <2>3 DEF Flags, Data, Rest, TypeOK
<1>30. ASSUME CertAges PROVE TypeOK'
  <2>1. Flags'
    BY <1>30 DEF CertAges, Fault, TypeOK, Flags
  <2>2. Data'
    <3>1. faults' \in 0 .. MaxFaults
      BY <1>30, MaxFaultsAssumption DEF CertAges, Fault, Data
    <3>2. UNCHANGED <<mode, session, edKey, lastKey, certMu, pc, sess, server, reqKey, wgKey>>
      BY <1>30 DEF CertAges
    <3> QED BY <3>1, <3>2 DEF Data
  <2>3. Rest'
    <3> DEFINE R == [key : Nat, server : Servers, age : {"fresh", "due", "expired"}]
    <3>1. PICK i \in DOMAIN certs :
            certs' = [certs EXCEPT ![i].age = IF @ = "fresh" THEN "due" ELSE "expired"]
      BY <1>30 DEF CertAges, Older
    <3>2. certs[i] \in R
      BY SeqElement
    <3>3. PICK r : r = [certs[i] EXCEPT !.age = IF @ = "fresh" THEN "due" ELSE "expired"]
      OBVIOUS
    <3>4. r \in R
      BY <3>2, <3>3
    <3>5. certs' = [certs EXCEPT ![i] = r]
      BY <3>1, <3>3
    <3>6. certs' \in Seq(R)
      BY <3>4, <3>5
    <3> QED BY <1>30, <3>6 DEF CertAges, Rest
  <2> QED BY <2>1, <2>2, <2>3 DEF Flags, Data, Rest, TypeOK
<1>33. ASSUME NEW c \in Creators, EnsureAnew(c) PROVE TypeOK'
  <2>1. Flags'
    BY <1>33 DEF EnsureAnew, Flags
  <2>2. Data'
    <3>1. \E to \in {"login", "import"} : At(c, "ensure", to)
      BY <1>33 DEF EnsureAnew
    <3>2. faults' \in 0 .. MaxFaults
      BY <1>33, MaxFaultsAssumption DEF EnsureAnew, Fault
    <3>3. UNCHANGED <<mode, store, certMu, local>>
      BY <1>33 DEF EnsureAnew
    <3> QED BY <3>1, <3>2, <3>3 DEF At, Data
  <2>3. Rest'
    BY <1>33 DEF EnsureAnew, Rest
  <2> QED BY <2>1, <2>2, <2>3 DEF Flags, Data, Rest, TypeOK
<1>34. ASSUME NEW c \in Creators, KeyNew(c) PROVE TypeOK'
  <2>1. Flags'
    BY <1>34 DEF KeyNew, Flags
  <2>2. Data'
    <3>1. /\ lastKey' = lastKey + 1 /\ edKey' = lastKey + 1
          /\ reqKey' = [reqKey EXCEPT ![c] = lastKey + 1]
      BY <1>34 DEF KeyNew
    <3>2. lastKey + 1 \in Nat
      OBVIOUS
    <3>3. faults' \in 0 .. MaxFaults
      BY <1>34, MaxFaultsAssumption DEF KeyNew, Fault
    <3>4. At(c, "key", "request") /\ UNCHANGED <<mode, session, certMu, sess, server, wgKey>>
      BY <1>34 DEF KeyNew
    <3> QED BY <3>1, <3>2, <3>3, <3>4 DEF At, Data
  <2>3. Rest'
    BY <1>34 DEF KeyNew, Disturb, Rest
  <2> QED BY <2>1, <2>2, <2>3 DEF Flags, Data, Rest, TypeOK
<1>35. ASSUME NEW c \in Creators, CertUnread(c) PROVE TypeOK'
  <2>1. Flags'
    BY <1>35 DEF CertUnread, Flags
  <2>2. Data'
    <3>1. faults' \in 0 .. MaxFaults
      BY <1>35, MaxFaultsAssumption DEF CertUnread, Fault, Data
    <3>2. UNCHANGED <<mode, session, edKey, lastKey, certMu, sess, server, reqKey, wgKey>>
      BY <1>35 DEF CertUnread
    <3>3. pc' = [pc EXCEPT ![c] = "ensure"]
      BY <1>35 DEF CertUnread, At
    <3> QED BY <3>1, <3>2, <3>3 DEF Data
  <2>3. Rest'
    BY <1>35 DEF CertUnread, Rest
  <2> QED BY <2>1, <2>2, <2>3 DEF Flags, Data, Rest, TypeOK
<1>31. ASSUME Restart PROVE TypeOK'
  BY <1>31, MaxFaultsAssumption, NoneType DEF Restart, Fault
<1>32. CASE UNCHANGED vars
  BY <1>32 DEF vars, store, local
<1> QED
  BY <1>1, <1>2, <1>3, <1>4, <1>5, <1>6, <1>7, <1>8, <1>9, <1>10, <1>11, <1>12, <1>13,
     <1>14, <1>15, <1>16, <1>17, <1>18, <1>19, <1>20, <1>21, <1>22, <1>23, <1>24, <1>25,
     <1>26, <1>27, <1>28, <1>29, <1>30, <1>31, <1>32, <1>33, <1>34, <1>35
  DEF Next, Step

-----------------------------------------------------------------------------
(* The certificate and the key                                             *)

\* Where GetCertificate runs: between certMu.Lock and its return, the calls of
\* EnsureSession included (they are made without certMu as well).
Critical == {"cert", "key", "request", "regenerate", "store"}
Within == Critical \cup {"ensure", "validate", "import", "recheck", "login", "save", "use"}

Locked ==
  \A c \in Creators : /\ pc[c] \in Critical => certMu = c
                      /\ certMu = c => pc[c] \in Within

\* The certificates that are fresh are the last ones.
Ordered ==
  \A i, j \in DOMAIN certs : i < j /\ certs[i].age = "fresh" => certs[j].age = "fresh"

LastFresh == certs # <<>> /\ certs[Len(certs)].age = "fresh"

\* If the last certificate is fresh, it is for the key in the store.
Fresh == ~spoilt /\ LastFresh => certs[Len(certs)].key = edKey /\ edKey # 0

\* A creator that is past the look into the store found no fresh certificate,
\* and as long as it holds certMu none appears.
Renewing ==
  \A c \in Creators : certMu = c /\ pc[c] # "cert" /\ ~spoilt => ~LastFresh

\* A certificate is requested for the key in the store.
Requested ==
  \A c \in Creators : pc[c] \in {"request", "store"} => reqKey[c] = edKey /\ edKey # 0

\* Until the key is read again, it is the one of the certificate.
Paired ==
  \A c \in Creators : pc[c] = "pair" /\ ~disturbed[c] => cert[c].key = edKey /\ edKey # 0

Keys == Locked /\ Ordered /\ Fresh /\ Renewing /\ Requested /\ Paired /\ KeyMatches

\* The certificate that GetCertificate takes is the last.
LEMMA LatestFresh ==
  ASSUME TypeOK, Ordered
  PROVE  /\ \A i \in Latest : certs[i].age = "fresh" => LastFresh /\ i = Len(certs)
         /\ LastFresh => \E i \in Latest : certs[i].age = "fresh"
<1>0. certs \in Seq([key : Nat, server : Servers, age : {"fresh", "due", "expired"}])
  BY DEF TypeOK
<1>1. Len(certs) \in Nat /\ DOMAIN certs = 1 .. Len(certs)
  BY <1>0
<1>2. ASSUME NEW i \in Latest, certs[i].age = "fresh" PROVE LastFresh /\ i = Len(certs)
  <2>1. i \in 1 .. Len(certs) /\ \A j \in DOMAIN certs : j > i => certs[j].age = "expired"
    BY <1>1, <1>2 DEF Latest
  <2>2. i < Len(certs) => FALSE
    <3>1. i < Len(certs) => Len(certs) \in DOMAIN certs /\ Len(certs) > i
      BY <1>1, <2>1
    <3>2. i < Len(certs) => certs[Len(certs)].age = "fresh" /\ certs[Len(certs)].age = "expired"
      BY <1>1, <1>2, <2>1, <3>1 DEF Ordered
    <3> QED BY <3>2
  <2>3. i = Len(certs)
    BY <1>1, <2>1, <2>2
  <2> QED BY <1>0, <1>2, <2>1, <2>3 DEF LastFresh
<1>3. ASSUME LastFresh PROVE \E i \in Latest : certs[i].age = "fresh"
  <2>1. Len(certs) \in DOMAIN certs /\ \A j \in DOMAIN certs : ~(j > Len(certs))
    BY <1>0, <1>1, <1>3 DEF LastFresh
  <2>2. Len(certs) \in Latest
    BY <1>3, <2>1 DEF Latest, LastFresh
  <2> QED BY <1>3, <2>2 DEF LastFresh
<1> QED BY <1>2, <1>3

\* The invariant of the keys holds at the start.
LEMMA InitKeys == Init => Keys
BY NoneAssumption
   DEF Init, Keys, Locked, Ordered, LastFresh, Fresh, Renewing, Requested,
           Paired, KeyMatches, Critical, Within

\* Every step keeps the invariant of the keys, a failure and a restart
\* included.
LEMMA KeysStep == TypeOK /\ Keys /\ [Next]_vars => Keys'
<1> SUFFICES ASSUME TypeOK /\ Keys, [Next]_vars PROVE Keys'
  OBVIOUS
<1> USE DEF TypeOK, store, local, Keys, Locked, Ordered, LastFresh, Fresh, Renewing, Requested,
           Paired, KeyMatches, Critical, Within
<1>1. ASSUME NEW c \in Creators, Begin(c) PROVE Keys'
  <2>1. \E to \in {"select", "ensure"} : At(c, "idle", to)
    BY <1>1 DEF Begin
  <2>2. UNCHANGED <<store, certMu, local>>
    BY <1>1 DEF Begin
  <2> QED BY <2>1, <2>2, NoneAssumption DEF At
<1>2. ASSUME NEW c \in Creators, FetchRefused(c) PROVE Keys'
  BY <1>2, NoneAssumption DEF FetchRefused, Fail, Forget
<1>3. ASSUME NEW c \in Creators, Fetch(c) PROVE Keys'
  BY <1>3, NoneAssumption DEF Fetch, At, Fault
<1>4. ASSUME NEW c \in Creators, Ensure(c) PROVE Keys'
  BY <1>4, NoneAssumption DEF Ensure, At
<1>5. ASSUME NEW c \in Creators, Validate(c) PROVE Keys'
  <2>1. \E to \in {"use", "import"} : At(c, "validate", to)
    BY <1>5 DEF Validate
  <2>2. UNCHANGED <<store, certMu, local>>
    BY <1>5 DEF Validate
  <2> QED BY <2>1, <2>2, NoneAssumption DEF At
<1>6. ASSUME NEW c \in Creators, Import(c) PROVE Keys'
  BY <1>6, NoneAssumption DEF Import, At
<1>7. ASSUME NEW c \in Creators, Recheck(c) PROVE Keys'
  BY <1>7, NoneAssumption DEF Recheck, At
<1>8. ASSUME NEW c \in Creators, RecheckRefused(c) PROVE Keys'
  BY <1>8, NoneAssumption DEF RecheckRefused, Fail, Forget
<1>9. ASSUME NEW c \in Creators, Login(c) PROVE Keys'
  BY <1>9, NoneAssumption DEF Login, At
<1>10. ASSUME NEW c \in Creators, SaveSession(c) PROVE Keys'
  BY <1>10, NoneAssumption DEF SaveSession, At
<1>11. ASSUME NEW c \in Creators, UseSession(c) PROVE Keys'
  BY <1>11, NoneAssumption DEF UseSession, At
<1>12. ASSUME NEW c \in Creators, NoSession(c) PROVE Keys'
  BY <1>12, NoneAssumption DEF NoSession, Fail, Forget
<1>13. ASSUME NEW c \in Creators, CertLock(c) PROVE Keys'
  BY <1>13, NoneAssumption DEF CertLock, At
<1>14. ASSUME NEW c \in Creators, CertCached(c) PROVE Keys'
  <2>1. PICK i \in Latest : certs[i].age = "fresh" /\ Returns(c, certs[i].key, certs[i].server)
    BY <1>14 DEF CertCached
  <2>2. ~spoilt => certs[i].key = edKey /\ edKey # 0
    BY <2>1, LatestFresh
  <2> QED BY <1>14, <2>1, <2>2, NoneAssumption DEF CertCached, At, Returns
<1>15. ASSUME NEW c \in Creators, CertMissing(c) PROVE Keys'
  <2>1. ~LastFresh
    BY <1>15, LatestFresh DEF CertMissing
  <2> QED BY <1>15, <2>1, NoneAssumption DEF CertMissing, At
<1>16. ASSUME NEW c \in Creators, Key(c) PROVE Keys'
  BY <1>16, NoneAssumption DEF Key, At
<1>17. ASSUME NEW c \in Creators, Request(c) PROVE Keys'
  BY <1>17, NoneAssumption DEF Request, At
<1>18. ASSUME NEW c \in Creators, RequestRefused(c) PROVE Keys'
  BY <1>18, NoneAssumption DEF RequestRefused, Fail, Forget
<1>19. ASSUME NEW c \in Creators, Regenerate(c) PROVE Keys'
  BY <1>19, NoneAssumption DEF Regenerate, At, Disturb
<1>20. ASSUME NEW c \in Creators, SetCertificate(c) PROVE Keys'
  BY <1>20, NoneAssumption DEF SetCertificate, At, Returns
<1>21. ASSUME NEW c \in Creators, KeyPair(c) PROVE Keys'
  BY <1>21, NoneAssumption DEF KeyPair, At
<1>22. ASSUME NEW c \in Creators, NoKeyPair(c) PROVE Keys'
  BY <1>22, NoneAssumption DEF NoKeyPair, Fail, Forget
<1>23. ASSUME NEW c \in Creators, Again(c) PROVE Keys'
  BY <1>23, NoneAssumption DEF Again, Forget
<1>24. ASSUME NEW c \in Creators, Conflict(c) PROVE Keys'
  BY <1>24, NoneAssumption DEF Conflict, At, Fault
<1>25. ASSUME NEW c \in Creators, Breaks(c) PROVE Keys'
  BY <1>25, NoneAssumption DEF Breaks, Fail, Forget, Fault
<1>26. ASSUME NEW c \in Creators, NEW w \in Wishes, Select(c, w)
      PROVE  Keys'
  <2>1. /\ pc[c] = "select"
        /\ \/ Fail(c) /\ UNCHANGED store
           \/ At(c, "select", "lock") /\ UNCHANGED <<store, certMu, reqKey, cert, wgKey, disturbed>>
    BY <1>26 DEF Select
  <2>2. CASE Fail(c) /\ UNCHANGED store
    BY <2>1, <2>2, NoneAssumption DEF Fail, Forget
  <2>3. CASE At(c, "select", "lock") /\ UNCHANGED <<store, certMu, reqKey, cert, wgKey, disturbed>>
    BY <2>1, <2>3, NoneAssumption DEF At
  <2> QED BY <2>1, <2>2, <2>3
<1>27. ASSUME ListExpires PROVE Keys'
  BY <1>27, NoneAssumption DEF ListExpires
<1>28. ASSUME Lapse PROVE Keys'
  BY <1>28, NoneAssumption DEF Lapse, Fault
<1>29. ASSUME Revoke PROVE Keys'
  BY <1>29, NoneAssumption DEF Revoke, Fault
<1>30. ASSUME CertAges PROVE Keys'
  <2>1. PICK i \in DOMAIN certs :
          /\ \A j \in DOMAIN certs : j < i => certs[j].age \in {Older(certs[i].age), "expired"}
          /\ certs' = [certs EXCEPT ![i].age = Older(@)]
    BY <1>30 DEF CertAges
  <2>2. UNCHANGED <<edKey, spoilt, certMu, pc, local>>
    BY <1>30 DEF CertAges
  <2>3. /\ Len(certs) \in Nat /\ DOMAIN certs = 1 .. Len(certs)
        /\ Len(certs') = Len(certs) /\ DOMAIN certs' = DOMAIN certs
    BY <2>1
  <2>4. \A j \in DOMAIN certs :
          /\ certs'[j].key = certs[j].key
          /\ certs'[j].age = IF j = i THEN Older(certs[i].age) ELSE certs[j].age
    BY <2>1, <2>3
  <2>5. Older(certs[i].age) # "fresh"
    BY DEF Older
  <2>6. LastFresh' => LastFresh /\ certs'[Len(certs')].key = certs[Len(certs)].key
    <3>1. certs' # <<>> => Len(certs) \in DOMAIN certs /\ certs # <<>>
      BY <2>1, <2>3
    <3> QED BY <2>3, <2>4, <2>5, <3>1 DEF LastFresh
  <2>7. Ordered'
    <3> SUFFICES ASSUME NEW a \in DOMAIN certs, NEW b \in DOMAIN certs, a < b,
                        certs'[a].age = "fresh"
                 PROVE  certs'[b].age = "fresh"
      BY <2>3 DEF Ordered
    <3>1. certs[a].age = "fresh" /\ certs[b].age = "fresh"
      BY <2>4, <2>5 DEF Ordered
    <3>2. b # i
      BY <2>1, <2>5, <3>1
    <3> QED BY <2>4, <3>1, <3>2
  <2>8. Fresh' /\ Renewing'
    BY <2>2, <2>6 DEF Fresh, Renewing
  <2> QED BY <2>2, <2>7, <2>8
<1>33. ASSUME NEW c \in Creators, EnsureAnew(c) PROVE Keys'
  <2>1. \E to \in {"login", "import"} : At(c, "ensure", to)
    BY <1>33 DEF EnsureAnew
  <2>2. UNCHANGED <<store, certMu, local>>
    BY <1>33 DEF EnsureAnew
  <2> QED BY <2>1, <2>2, NoneAssumption DEF At
<1>34. ASSUME NEW c \in Creators, KeyNew(c) PROVE Keys'
  <2>1. /\ At(c, "key", "request") /\ edKey' = lastKey + 1 /\ Disturb
        /\ reqKey' = [reqKey EXCEPT ![c] = lastKey + 1]
        /\ UNCHANGED <<certs, spoilt, certMu, cert, wgKey>>
    BY <1>34 DEF KeyNew
  <2>2. lastKey + 1 # 0
    OBVIOUS
  <2> QED BY <2>1, <2>2, NoneAssumption DEF At, Disturb
<1>35. ASSUME NEW c \in Creators, CertUnread(c) PROVE Keys'
  BY <1>35, NoneAssumption DEF CertUnread, At, Fault
<1>31. ASSUME Restart PROVE Keys'
  BY <1>31, NoneAssumption DEF Restart, Fault
<1>32. CASE UNCHANGED vars
  BY <1>32 DEF vars, store, local
<1> QED
  BY <1>1, <1>2, <1>3, <1>4, <1>5, <1>6, <1>7, <1>8, <1>9, <1>10, <1>11, <1>12, <1>13,
     <1>14, <1>15, <1>16, <1>17, <1>18, <1>19, <1>20, <1>21, <1>22, <1>23, <1>24, <1>25,
     <1>26, <1>27, <1>28, <1>29, <1>30, <1>31, <1>32, <1>33, <1>34, <1>35
  DEF Next, Step

-----------------------------------------------------------------------------
(* The selection                                                           *)

\* What SelectsBest says of one selection.
Chosen(p, name) ==
  LET ok == {i \in DOMAIN List : List[i].up /\ List[i].country \notin p.banned}
      wanted == {i \in ok : List[i].name \notin p.avoid}
      from == IF wanted = {} THEN ok ELSE wanted
  IN  \E i \in from : /\ name = List[i].name
                      /\ \A j \in from : ~Better(List[j], List[i])
                      /\ \A j \in from : j < i => Better(List[i], List[j])

\* The two passes of SelectServer give the best server that may be used.
LEMMA SelectServerChooses ==
  ASSUME NEW w, SelectServer(w.banned, w.avoid) # None
  PROVE  Chosen(w, SelectServer(w.banned, w.avoid))
<1> DEFINE banned == w.banned
           avoid == w.avoid
           first == Candidates(banned, avoid)
           found == IF first = {} /\ avoid # {} THEN Fallback(banned) ELSE first
           ok == {i \in DOMAIN List : List[i].up /\ List[i].country \notin banned}
           wanted == {i \in ok : List[i].name \notin avoid}
           from == IF wanted = {} THEN ok ELSE wanted
<1>1. ok = Fallback(banned) /\ wanted = first
  BY DEF Candidates, Fallback, Eligible, Region
<1>2. found # {}
  BY DEF SelectServer
<1>3. SelectServer(banned, avoid) = List[Best(found)].name
  BY <1>2 DEF SelectServer
<1>4. found = from
  BY <1>1, <1>2
<1>5. from \subseteq DOMAIN List
  OBVIOUS
<1> HIDE DEF found, from
<1>6. Len(List) \in 0 .. Len(List) /\ \A j \in from : j <= Len(List)
  BY <1>5, ListAssumption
<1>7. Leads(from, Len(List), Best(from))
  BY <1>5, <1>6, BestLeads DEF Best
<1>8. /\ Best(from) \in from
      /\ \A j \in from : ~Better(List[j], List[Best(from)])
      /\ \A j \in from : j < Best(from) => Better(List[Best(from)], List[j])
  BY <1>2, <1>4, <1>5, <1>6, <1>7, ListAssumption DEF Leads
<1> QED
  BY <1>3, <1>4, <1>8 DEF Chosen, from


Selected == \A c \in Creators : pc[c] = "lock" => Chosen(asked[c], server[c])

\* What a creator asked for and what it got change together.
LEMMA SelectedStep == TypeOK /\ Selected /\ [Next]_vars => Selected'
<1> SUFFICES ASSUME TypeOK /\ Selected, [Next]_vars PROVE Selected'
  OBVIOUS
<1> USE DEF TypeOK, store, local, Selected
<1>1. ASSUME NEW c \in Creators, Begin(c) PROVE Selected'
  BY <1>1 DEF Begin, At
<1>2. ASSUME NEW c \in Creators, FetchRefused(c) PROVE Selected'
  BY <1>2 DEF FetchRefused, Fail, Forget
<1>3. ASSUME NEW c \in Creators, Fetch(c) PROVE Selected'
  BY <1>3 DEF Fetch, At, Fault
<1>4. ASSUME NEW c \in Creators, Ensure(c) PROVE Selected'
  BY <1>4 DEF Ensure, At
<1>5. ASSUME NEW c \in Creators, Validate(c) PROVE Selected'
  BY <1>5 DEF Validate, At, Fault
<1>6. ASSUME NEW c \in Creators, Import(c) PROVE Selected'
  BY <1>6 DEF Import, At
<1>7. ASSUME NEW c \in Creators, Recheck(c) PROVE Selected'
  BY <1>7 DEF Recheck, At
<1>8. ASSUME NEW c \in Creators, RecheckRefused(c) PROVE Selected'
  BY <1>8 DEF RecheckRefused, Fail, Forget
<1>9. ASSUME NEW c \in Creators, Login(c) PROVE Selected'
  BY <1>9 DEF Login, At
<1>10. ASSUME NEW c \in Creators, SaveSession(c) PROVE Selected'
  BY <1>10 DEF SaveSession, At
<1>11. ASSUME NEW c \in Creators, UseSession(c) PROVE Selected'
  BY <1>11 DEF UseSession, At
<1>12. ASSUME NEW c \in Creators, NoSession(c) PROVE Selected'
  BY <1>12 DEF NoSession, Fail, Forget
<1>13. ASSUME NEW c \in Creators, CertLock(c) PROVE Selected'
  BY <1>13 DEF CertLock, At
<1>14. ASSUME NEW c \in Creators, CertCached(c) PROVE Selected'
  BY <1>14 DEF CertCached, At, Returns
<1>15. ASSUME NEW c \in Creators, CertMissing(c) PROVE Selected'
  BY <1>15 DEF CertMissing, At
<1>16. ASSUME NEW c \in Creators, Key(c) PROVE Selected'
  BY <1>16 DEF Key, At
<1>17. ASSUME NEW c \in Creators, Request(c) PROVE Selected'
  BY <1>17 DEF Request, At
<1>18. ASSUME NEW c \in Creators, RequestRefused(c) PROVE Selected'
  BY <1>18 DEF RequestRefused, Fail, Forget
<1>19. ASSUME NEW c \in Creators, Regenerate(c) PROVE Selected'
  BY <1>19 DEF Regenerate, At
<1>20. ASSUME NEW c \in Creators, SetCertificate(c) PROVE Selected'
  BY <1>20 DEF SetCertificate, At, Returns
<1>21. ASSUME NEW c \in Creators, KeyPair(c) PROVE Selected'
  BY <1>21 DEF KeyPair, At
<1>22. ASSUME NEW c \in Creators, NoKeyPair(c) PROVE Selected'
  BY <1>22 DEF NoKeyPair, Fail, Forget
<1>23. ASSUME NEW c \in Creators, Again(c) PROVE Selected'
  BY <1>23 DEF Again, Forget
<1>24. ASSUME NEW c \in Creators, Conflict(c) PROVE Selected'
  BY <1>24 DEF Conflict, At, Fault
<1>25. ASSUME NEW c \in Creators, Breaks(c) PROVE Selected'
  BY <1>25 DEF Breaks, Fail, Forget, Fault
<1>26. ASSUME NEW c \in Creators, NEW w \in Wishes, Select(c, w)
      PROVE  Selected'
  <2>1. \/ pc' = [pc EXCEPT ![c] = "failed"] /\ Forget(c)
        \/ /\ Selection[w] # None
           /\ pc' = [pc EXCEPT ![c] = "lock"]
           /\ asked' = [asked EXCEPT ![c] = w]
           /\ server' = [server EXCEPT ![c] = Selection[w]]
    BY <1>26 DEF Select, At, Fail
  <2>2. Selection[w] = SelectServer(w.banned, w.avoid)
    BY DEF Selection
  <2>3. CASE pc' = [pc EXCEPT ![c] = "failed"] /\ Forget(c)
    BY <2>3 DEF Forget
  <2>4. CASE /\ Selection[w] # None
             /\ pc' = [pc EXCEPT ![c] = "lock"]
             /\ asked' = [asked EXCEPT ![c] = w]
             /\ server' = [server EXCEPT ![c] = Selection[w]]
    <3>1. Chosen(w, SelectServer(w.banned, w.avoid))
      BY <2>2, <2>4, SelectServerChooses
    <3> QED BY <2>2, <2>4, <3>1
  <2> QED BY <2>1, <2>3, <2>4
<1>27. ASSUME ListExpires PROVE Selected'
  BY <1>27 DEF ListExpires
<1>28. ASSUME Lapse PROVE Selected'
  BY <1>28 DEF Lapse, Fault
<1>29. ASSUME Revoke PROVE Selected'
  BY <1>29 DEF Revoke, Fault
<1>30. ASSUME CertAges PROVE Selected'
  BY <1>30 DEF CertAges, Fault
<1>33. ASSUME NEW c \in Creators, EnsureAnew(c) PROVE Selected'
  BY <1>33 DEF EnsureAnew, At
<1>34. ASSUME NEW c \in Creators, KeyNew(c) PROVE Selected'
  BY <1>34 DEF KeyNew, At
<1>35. ASSUME NEW c \in Creators, CertUnread(c) PROVE Selected'
  BY <1>35 DEF CertUnread, At
<1>31. ASSUME Restart PROVE Selected'
  BY <1>31 DEF Restart, Fault
<1>32. CASE UNCHANGED vars
  BY <1>32 DEF vars, store, local
<1> QED
  BY <1>1, <1>2, <1>3, <1>4, <1>5, <1>6, <1>7, <1>8, <1>9, <1>10, <1>11, <1>12, <1>13,
     <1>14, <1>15, <1>16, <1>17, <1>18, <1>19, <1>20, <1>21, <1>22, <1>23, <1>24, <1>25,
     <1>26, <1>27, <1>28, <1>29, <1>30, <1>31, <1>32, <1>33, <1>34, <1>35
  DEF Next, Step

-----------------------------------------------------------------------------
(* The theorems                                                            *)

\* Every variable keeps its type, whatever fails and whenever the gateway
\* stops.
THEOREM Types == Spec => []TypeOK
BY InitType, TypeStep, PTL DEF Spec

\* The invariant of the keys holds always.
LEMMA KeysHold == Spec => []Keys
<1>1. Init => Keys
  BY InitKeys
<1>2. TypeOK /\ Keys /\ [Next]_vars => Keys'
  BY KeysStep
<1> QED
  BY <1>1, <1>2, Types, PTL DEF Spec

\* The certificate that GetCertificate returns from the store is for the key
\* that GetOrCreateKeyPair will read there, for any number of failures, unless a
\* fresh certificate could not be read and its renewal has not come to its end.
THEOREM FreshMatchesHolds == Spec => []FreshMatches
<1>1. TypeOK /\ Keys => FreshMatches
  <2> SUFFICES ASSUME TypeOK, Keys, ~spoilt, NEW i \in Latest, certs[i].age = "fresh"
               PROVE  certs[i].key = edKey
    BY DEF FreshMatches
  <2>1. LastFresh /\ i = Len(certs)
    BY LatestFresh DEF Keys
  <2> QED BY <2>1 DEF Keys, Fresh
<1> QED
  BY <1>1, KeysHold, Types, PTL

\* The WireGuard key of a container is the key of its certificate, unless the
\* key was replaced between GetCertificate and GetOrCreateKeyPair or the
\* certificate is one that FreshMatches excepts.
THEOREM KeyMatchesHolds == Spec => []KeyMatches
<1>1. Keys => KeyMatches
  BY DEF Keys
<1> QED
  BY <1>1, KeysHold, PTL

\* SelectServer gives the best server that may be used, for every list.
THEOREM SelectsBestHolds == Spec => []SelectsBest
<1>1. Init => Selected
  BY DEF Init, Selected
<1>2. TypeOK /\ Selected /\ [Next]_vars => Selected'
  BY SelectedStep
<1>3. Selected <=> SelectsBest
  BY DEF Selected, SelectsBest, Chosen
<1> QED
  BY <1>1, <1>2, <1>3, Types, PTL DEF Spec
=============================================================================
