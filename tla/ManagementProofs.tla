-------------------------- MODULE ManagementProofs --------------------------
(***************************************************************************)
(* Proofs for Management: the stores of the accounts, the rows and the     *)
(* live setting, for any .env and any number of handlers and restarts.     *)
(***************************************************************************)
EXTENDS Management, WellFoundedInduction, TLAPS

-----------------------------------------------------------------------------
(* Types                                                                   *)

Row == [id : Nat, user : Users, enabled : BOOLEAN]
ProxyRow == [id : Nat, addr : Addrs]

\* What a handler has in its hand, by where it is.
HandOK(h) ==
  /\ pc[h] \in {"insert", "update"} => hand[h] \in Row
  /\ pc[h] \in {"probe", "undo"} => hand[h] \in ProxyRow
  /\ pc[h] = "apply" => hand[h] \in Values \cup {BadValue}

TypeOK ==
  /\ env \in Envs
  /\ accounts \subseteq Row /\ lastAccount \in Nat
  /\ proxies \subseteq ProxyRow
  /\ fate \in Seq({"probing", "kept", "cut", "failed", "deleted"})
  /\ holder \in Seq(Users \cup {None})
  /\ managers \in Seq(Users) /\ built \in Nat /\ built <= Len(managers)
  /\ pc \in [Handlers -> {"idle", "insert", "update", "probe", "undo", "apply"}]
  /\ DOMAIN hand = Handlers
  /\ \A h \in Handlers : HandOK(h)
  /\ gone \subseteq Nat

\* Ids count up, and an id that was given out is never given out again.
IdsOK ==
  /\ \A r \in accounts : r.id \in 1 .. lastAccount
  /\ \A i \in gone : i \in 1 .. lastAccount

-----------------------------------------------------------------------------
(* The rows                                                                *)

Rows ==
  /\ \A r \in proxies : r.id \in DOMAIN fate /\ fate[r.id] \in {"probing", "kept", "cut"}
  /\ \A i \in DOMAIN fate : fate[i] \in {"probing", "kept"} => \E r \in proxies : r.id = i
  /\ \A i \in DOMAIN fate : fate[i] = "probing" =>
       \E h \in Handlers : pc[h] \in {"probe", "undo"} /\ hand[h].id = i
  /\ \A r \in accounts : r.id \notin gone

\* The row of an account that was not deleted is there.
RowsStay == \A i \in 1 .. lastAccount : i \notin gone => \E r \in accounts : r.id = i

-----------------------------------------------------------------------------
(* The live setting                                                        *)

\* Handlers run only while the gateway is up, and a start forgets that the
\* setting was changed.
Starting ==
  /\ boot \in {"seed", "load", "build", "up", "down"}
  /\ boot # "up" => \A h \in Handlers : pc[h] = "idle"
  /\ boot \in {"seed", "load", "build"} => ~changed
  /\ boot \in {"seed", "load", "down"} => managers = <<>> /\ built = 0

Live ==
  boot = "up" /\ changed /\ ~overlap =>
    /\ \A h \in Handlers : pc[h] = "apply" => hand[h] = settings
    /\ (\A h \in Handlers : pc[h] # "apply") /\ settings \in Values => live = settings

-----------------------------------------------------------------------------
(* The stores                                                              *)

Prefix(s, t) == Len(s) <= Len(t) /\ \A i \in 1 .. Len(s) : s[i] = t[i]

\* As long as accounts are only added and .env keeps its own, that list only
\* grows at its end: each place belongs to one account for good.
Stores ==
  /\ built <= Len(holder)
  /\ ~edited => /\ Prefix(managers, Loaded(accounts))
                /\ Len(holder) <= Len(Loaded(accounts))
                /\ \A i \in 1 .. Len(holder) : holder[i] \in {None, Loaded(accounts)[i]}

-----------------------------------------------------------------------------
(* What a start loads                                                      *)

\* Induction over the naturals, as the least counterexample.
LEMMA LeastNumber ==
  ASSUME NEW T, T \subseteq Nat, T # {}
  PROVE  \E m \in T : \A k \in T : m <= k
<1> DEFINE R == OpToRel(<, Nat)
<1>1. IsWellFoundedOn(R, Nat)
  BY NatLessThanWellFounded
<1>2. \A x, y \in Nat : x < y => <<x, y>> \in R
  BY DEF OpToRel
<1> HIDE DEF R
<1>3. PICK m \in T : \A y \in T : ~ (<<y, m>> \in R)
  BY <1>1, WFMin
<1>4. \A k \in T : ~ (k < m)
  BY <1>2, <1>3
<1>5. \A k \in T : k \in Nat /\ m \in Nat
  OBVIOUS
<1> QED
  BY <1>4, <1>5

\* One turn of the loop of buildManager.
Turn(e, rows, f, n) == IF n = 0 THEN e ELSE WithRow(rows, n, f[n - 1])

\* The loop runs up to any id.
LEMMA LoopRuns ==
  ASSUME NEW e \in Seq(Users), NEW rows, NEW N \in Nat
  PROVE  \E f : f = [i \in 0 .. N |-> Turn(e, rows, f, i)]
<1> DEFINE P(n) == \E f : f = [i \in 0 .. n |-> Turn(e, rows, f, i)]
           Bad == {n \in Nat : ~P(n)}
<1>1. SUFFICES ASSUME Bad # {} PROVE FALSE
  BY <1>1
<1>2. PICK m \in Bad : \A k \in Bad : m <= k
  <2> HIDE DEF Bad
  <2>1. Bad \subseteq Nat
    BY DEF Bad
  <2> QED BY <1>1, <2>1, LeastNumber
<1>3. CASE m = 0
  <2>1. [i \in 0 .. 0 |-> e]
          = [i \in 0 .. 0 |-> Turn(e, rows, [j \in 0 .. 0 |-> e], i)]
    BY DEF Turn
  <2> QED BY <1>2, <1>3, <2>1
<1>4. CASE m # 0
  <2>1. m - 1 \in Nat /\ P(m - 1)
    BY <1>2, <1>4
  <2>2. PICK f : f = [i \in 0 .. m - 1 |-> Turn(e, rows, f, i)]
    BY <2>1
  <2> DEFINE g == [i \in 0 .. m |-> IF i < m THEN f[i] ELSE Turn(e, rows, f, m)]
  <2>3. \A i \in 0 .. m : g[i] = Turn(e, rows, g, i)
    <3> TAKE i \in 0 .. m
    <3>1. i # 0 => g[i - 1] = f[i - 1]
      OBVIOUS
    <3>2. Turn(e, rows, g, i) = Turn(e, rows, f, i)
      BY <3>1 DEF Turn
    <3>3. i < m => f[i] = Turn(e, rows, f, i)
      BY <2>2
    <3> QED BY <3>2, <3>3
  <2>4. g = [i \in 0 .. m |-> Turn(e, rows, g, i)]
    BY <2>3
  <2> QED BY <1>2, <2>4
<1> QED
  BY <1>3, <1>4

\* LoadedUpTo is the loop.
LEMMA LoadedUpToDef ==
  ASSUME NEW e \in Seq(Users), NEW rows, NEW N \in Nat
  PROVE  \A n \in 0 .. N : LoadedUpTo(e, rows, N)[n] = Turn(e, rows, LoadedUpTo(e, rows, N), n)
<1> DEFINE Loop(f) == f = [i \in 0 .. N |-> Turn(e, rows, f, i)]
<1>1. \E f : Loop(f)
  BY LoopRuns
<1>2. Loop(CHOOSE f : Loop(f))
  BY <1>1
<1>3. LoadedUpTo(e, rows, N) = CHOOSE f : Loop(f)
  BY DEF LoadedUpTo, Turn
<1>4. LoadedUpTo(e, rows, N) = [i \in 0 .. N |-> Turn(e, rows, LoadedUpTo(e, rows, N), i)]
  BY <1>2, <1>3
<1> HIDE DEF Loop
<1> QED
  BY <1>4

\* A row leaves the list as it is or adds a user at its end.
LEMMA WithRowAppends ==
  ASSUME NEW rows, rows \subseteq Row, NEW n, NEW list \in Seq(Users)
  PROVE  WithRow(rows, n, list) \in Seq(Users) /\ Prefix(list, WithRow(rows, n, list))
<1> DEFINE new == {r.user : r \in {q \in rows : q.id = n /\ q.enabled}} \ Range(list)
<1>1. new \subseteq Users
  BY DEF Row
<1>2. CASE new = {}
  BY <1>2 DEF WithRow, Prefix
<1>3. CASE new # {}
  <2>1. PICK u \in new : u = CHOOSE v \in new : TRUE
    BY <1>3
  <2>2. WithRow(rows, n, list) = Append(list, u)
    BY <1>3, <2>1 DEF WithRow
  <2>3. u \in Users
    BY <1>1, <2>1
  <2> HIDE DEF new
  <2> QED BY <2>2, <2>3 DEF Prefix
<1> QED
  BY <1>2, <1>3

\* The list starts with the accounts of .env and grows at its end.
LEMMA LoadedGrows ==
  ASSUME NEW e \in Seq(Users), NEW rows, rows \subseteq Row, NEW N \in Nat, NEW n \in 0 .. N
  PROVE  LoadedUpTo(e, rows, N)[n] \in Seq(Users) /\ Prefix(e, LoadedUpTo(e, rows, N)[n])
<1> DEFINE L == LoadedUpTo(e, rows, N)
           Bad == {k \in 0 .. N : ~(L[k] \in Seq(Users) /\ Prefix(e, L[k]))}
<1>1. \A k \in 0 .. N : L[k] = Turn(e, rows, L, k)
  BY LoadedUpToDef
<1> HIDE DEF L
<1>2. SUFFICES ASSUME Bad # {} PROVE FALSE
  BY <1>2 DEF L
<1>3. PICK m \in Bad : \A k \in Bad : m <= k
  <2> HIDE DEF Bad
  <2>1. Bad \subseteq Nat
    BY DEF Bad
  <2> QED BY <1>2, <2>1, LeastNumber
<1>4. CASE m = 0
  <2>1. L[0] = e
    BY <1>1 DEF Turn
  <2> QED BY <1>3, <1>4, <2>1 DEF Prefix
<1>5. CASE m # 0
  <2>1. m - 1 \in 0 .. N /\ m - 1 \notin Bad
    BY <1>3, <1>5
  <2>2. L[m - 1] \in Seq(Users) /\ Prefix(e, L[m - 1])
    BY <2>1
  <2>3. L[m] = WithRow(rows, m, L[m - 1])
    BY <1>1, <1>3, <1>5 DEF Turn
  <2>4. L[m] \in Seq(Users) /\ Prefix(L[m - 1], L[m])
    BY <2>2, <2>3, WithRowAppends
  <2>5. Prefix(e, L[m])
    BY <2>2, <2>4 DEF Prefix
  <2> QED BY <1>3, <2>4, <2>5
<1> QED
  BY <1>4, <1>5

\* Two tables have the same rows with ids up to M.
Agree(rows, more, M) == \A q : q.id \in 1 .. M => (q \in rows <=> q \in more)

\* Rows that come later do not change what was loaded before.
LEMMA LoadedSame ==
  ASSUME NEW e \in Seq(Users), NEW rows, NEW more, NEW M \in Nat, NEW N \in Nat, M <= N,
         Agree(rows, more, M), NEW n \in 0 .. M
  PROVE  LoadedUpTo(e, more, N)[n] = LoadedUpTo(e, rows, M)[n]
<1> DEFINE L == LoadedUpTo(e, rows, M)
           K == LoadedUpTo(e, more, N)
           Bad == {k \in 0 .. M : K[k] # L[k]}
<1>1. /\ \A k \in 0 .. M : L[k] = Turn(e, rows, L, k)
      /\ \A k \in 0 .. N : K[k] = Turn(e, more, K, k)
  BY LoadedUpToDef
<1> HIDE DEF L, K
<1>2. SUFFICES ASSUME Bad # {} PROVE FALSE
  BY <1>2 DEF L, K
<1>3. PICK m \in Bad : \A k \in Bad : m <= k
  <2> HIDE DEF Bad
  <2>1. Bad \subseteq Nat
    BY DEF Bad
  <2> QED BY <1>2, <2>1, LeastNumber
<1>4. CASE m = 0
  BY <1>1, <1>3, <1>4 DEF Turn
<1>5. CASE m # 0
  <2>1. m \in 1 .. M /\ m - 1 \in 0 .. M /\ m - 1 \notin Bad
    BY <1>3, <1>5
  <2>2. K[m - 1] = L[m - 1]
    BY <2>1
  <2>3. L[m] = WithRow(rows, m, L[m - 1]) /\ K[m] = WithRow(more, m, L[m - 1])
    BY <1>1, <2>1, <2>2 DEF Turn
  <2>4. {q \in rows : q.id = m /\ q.enabled} = {q \in more : q.id = m /\ q.enabled}
    BY <2>1 DEF Agree
  <2>5. WithRow(rows, m, L[m - 1]) = WithRow(more, m, L[m - 1])
    <3> DEFINE W(A) == LET new == {r.user : r \in A} \ Range(L[m - 1])
                       IN  IF new = {} THEN L[m - 1] ELSE Append(L[m - 1], CHOOSE u \in new : TRUE)
    <3>1. /\ WithRow(rows, m, L[m - 1]) = W({q \in rows : q.id = m /\ q.enabled})
          /\ WithRow(more, m, L[m - 1]) = W({q \in more : q.id = m /\ q.enabled})
      BY DEF WithRow
    <3> HIDE DEF W
    <3> QED BY <2>4, <3>1
  <2> QED BY <1>3, <2>3, <2>5
<1> QED
  BY <1>4, <1>5

\* Rows of users that are in .env add nothing.
LEMMA LoadedEnv ==
  ASSUME NEW e \in Seq(Users), NEW rows, \A r \in rows : r.user \in Range(e),
         NEW N \in Nat, NEW n \in 0 .. N
  PROVE  LoadedUpTo(e, rows, N)[n] = e
<1> DEFINE L == LoadedUpTo(e, rows, N)
           Bad == {k \in 0 .. N : L[k] # e}
<1>1. \A k \in 0 .. N : L[k] = Turn(e, rows, L, k)
  BY LoadedUpToDef
<1> HIDE DEF L
<1>2. SUFFICES ASSUME Bad # {} PROVE FALSE
  BY <1>2 DEF L
<1>3. PICK m \in Bad : \A k \in Bad : m <= k
  <2> HIDE DEF Bad
  <2>1. Bad \subseteq Nat
    BY DEF Bad
  <2> QED BY <1>2, <2>1, LeastNumber
<1>4. CASE m = 0
  BY <1>1, <1>3, <1>4 DEF Turn
<1>5. CASE m # 0
  <2>1. m - 1 \in 0 .. N /\ m - 1 \notin Bad
    BY <1>3, <1>5
  <2>2. L[m] = WithRow(rows, m, e)
    BY <1>1, <1>3, <1>5, <2>1 DEF Turn
  <2>3. {r.user : r \in {q \in rows : q.id = m /\ q.enabled}} \ Range(e) = {}
    OBVIOUS
  <2> QED BY <1>3, <2>2, <2>3 DEF WithRow
<1> QED
  BY <1>4, <1>5

\* A new row leaves every place of the list to the account that has it.
LEMMA LoadedAdds ==
  ASSUME NEW e \in Seq(Users), NEW rows, NEW r, NEW more, more = rows \cup {r}, NEW N \in Nat,
         rows \subseteq Row, r \in Row, r.id = N + 1, \A q \in rows : q.id \in 1 .. N
  PROVE  Prefix(LoadedUpTo(e, rows, N)[N], LoadedUpTo(e, more, N + 1)[N + 1])
<1> DEFINE L == LoadedUpTo(e, rows, N)
           K == LoadedUpTo(e, more, N + 1)
<1>1. Agree(rows, more, N)
  <2>1. \A k \in 1 .. N : k # N + 1
    OBVIOUS
  <2> QED BY <2>1 DEF Agree
<1>2. K[N] = L[N]
  <2>1. N + 1 \in Nat /\ N <= N + 1 /\ N \in 0 .. N
    OBVIOUS
  <2> QED BY <1>1, <2>1, LoadedSame
<1>3. L[N] \in Seq(Users)
  BY LoadedGrows
<1>4. K[N + 1] = WithRow(more, N + 1, L[N])
  <2>1. K[N + 1] = Turn(e, more, K, N + 1)
    BY LoadedUpToDef
  <2> HIDE DEF K, L
  <2> QED BY <1>2, <2>1 DEF Turn
<1>5. more \subseteq Row
  OBVIOUS
<1> HIDE DEF K, L
<1>6. Prefix(L[N], K[N + 1])
  BY <1>3, <1>4, <1>5, WithRowAppends
<1> QED
  BY <1>6 DEF K, L

-----------------------------------------------------------------------------
(* Types and ids                                                           *)

\* A function on 1 .. n is a sequence.
LEMMA FunSeq ==
  ASSUME NEW T, NEW n \in Nat, NEW f \in [1 .. n -> T]
  PROVE  f \in Seq(T) /\ Len(f) = n
OBVIOUS

\* The row with the id that the table gives it.
LEMMA NumberedRow ==
  ASSUME NEW r \in Row, NEW n \in Nat, NEW x, x = [r EXCEPT !.id = n]
  PROVE  x \in Row /\ x.id = n
BY DEF Row

\* What concatenation gives.
LEMMA ConcatSeq ==
  ASSUME NEW T, NEW s \in Seq(T), NEW t \in Seq(T)
  PROVE  s \o t \in Seq(T) /\ Len(s \o t) = Len(s) + Len(t)
OBVIOUS

\* What appending gives.
LEMMA AppendSeq ==
  ASSUME NEW T, NEW s \in Seq(T), NEW v \in T
  PROVE  Append(s, v) \in Seq(T) /\ Len(Append(s, v)) = Len(s) + 1
OBVIOUS

\* What overwriting an element gives.
LEMMA ExceptSeq ==
  ASSUME NEW T, NEW s \in Seq(T), NEW v \in T, NEW i
  PROVE  [s EXCEPT ![i] = v] \in Seq(T) /\ Len([s EXCEPT ![i] = v]) = Len(s)
<1> DEFINE t == [s EXCEPT ![i] = v]
<1>0. Len(s) \in Nat /\ s \in [1 .. Len(s) -> T]
  OBVIOUS
<1>1. t \in [1 .. Len(s) -> T]
  BY <1>0
<1> HIDE DEF t
<1>2. t \in Seq(T) /\ Len(t) = Len(s)
  BY <1>0, <1>1, FunSeq
<1> QED BY <1>2 DEF t

\* What .env says.
LEMMA EnvTypes ==
  ASSUME TypeOK
  PROVE  /\ env.accounts \in Seq(Users) /\ env.proxies \in Seq(Addrs)
         /\ Len(env.accounts) \in Nat /\ Len(env.proxies) \in Nat
         /\ DOMAIN env.accounts = 1 .. Len(env.accounts)
         /\ DOMAIN env.proxies = 1 .. Len(env.proxies)
<1>1. env.accounts \in Seq(Users) /\ env.proxies \in Seq(Addrs)
  BY EnvAssumption DEF TypeOK
<1> QED
  BY <1>1

\* What SeedFromConfig enters.
LEMMA SeedFacts ==
  ASSUME TypeOK
  PROVE  /\ SeedRows \subseteq Row
         /\ \A r \in SeedRows : /\ r.id \in lastAccount + 1 .. lastAccount + Len(env.accounts)
                                /\ r.user \in Range(env.accounts)
         /\ SeedProxies \subseteq ProxyRow
         /\ \A r \in SeedProxies : r.id \in Len(fate) + 1 .. Len(fate) + Len(env.proxies)
         /\ \A k \in 1 .. Len(env.proxies) : \E r \in SeedProxies : r.id = Len(fate) + k
<1>0. /\ lastAccount \in Nat /\ Len(fate) \in Nat
      /\ Len(env.accounts) \in Nat /\ Len(env.proxies) \in Nat
      /\ DOMAIN env.accounts = 1 .. Len(env.accounts) /\ DOMAIN env.proxies = 1 .. Len(env.proxies)
      /\ \A i \in DOMAIN env.accounts : env.accounts[i] \in Users
      /\ \A i \in DOMAIN env.proxies : env.proxies[i] \in Addrs
  BY EnvTypes DEF TypeOK
<1>1. SeedRows \subseteq Row
  <2>1. ASSUME NEW i \in DOMAIN env.accounts
        PROVE  [id |-> lastAccount + i, user |-> env.accounts[i], enabled |-> TRUE] \in Row
    <3>1. lastAccount + i \in Nat /\ env.accounts[i] \in Users
      BY <1>0
    <3>2. TRUE \in BOOLEAN
      OBVIOUS
    <3> QED BY <3>1, <3>2 DEF Row
  <2> QED BY <2>1 DEF SeedRows
<1>2. \A r \in SeedRows : r.id \in lastAccount + 1 .. lastAccount + Len(env.accounts)
  BY <1>0 DEF SeedRows
<1>3. \A r \in SeedRows : r.user \in Range(env.accounts)
  BY <1>0 DEF SeedRows, Range
<1>4. SeedProxies \subseteq ProxyRow
  BY <1>0 DEF SeedProxies, ProxyRow
<1>5. \A r \in SeedProxies : r.id \in Len(fate) + 1 .. Len(fate) + Len(env.proxies)
  BY <1>0 DEF SeedProxies
<1>6. ASSUME NEW k \in 1 .. Len(env.proxies)
      PROVE  \E r \in SeedProxies : r.id = Len(fate) + k
  <2>1. [id |-> Len(fate) + k, addr |-> env.proxies[k]] \in SeedProxies
    BY <1>0 DEF SeedProxies
  <2> QED BY <2>1
<1> QED
  BY <1>1, <1>2, <1>3, <1>4, <1>5, <1>6

\* The fates that seeding appends.
LEMMA SeedFate ==
  ASSUME TypeOK, Seed
  PROVE  /\ fate' \in Seq({"probing", "kept", "cut", "failed", "deleted"})
         /\ Len(fate') = Len(fate) + Len(env.proxies)
         /\ \A i \in 1 .. Len(fate) : fate'[i] = fate[i]
         /\ \A i \in Len(fate) + 1 .. Len(fate) + Len(env.proxies) : fate'[i] = "kept"
<1> DEFINE F == {"probing", "kept", "cut", "failed", "deleted"}
<1>1. PICK new : new = [i \in DOMAIN env.proxies |-> "kept"]
  OBVIOUS
<1>2. Len(env.proxies) \in Nat /\ DOMAIN env.proxies = 1 .. Len(env.proxies)
  BY EnvTypes
<1>3. new \in [1 .. Len(env.proxies) -> F]
  BY <1>1, <1>2
<1>4. new \in Seq(F) /\ Len(new) = Len(env.proxies)
  BY <1>2, <1>3, FunSeq
<1>5. fate \in Seq(F) /\ fate' = fate \o new
  BY <1>1 DEF TypeOK, Seed
<1>6. \A i \in 1 .. Len(env.proxies) : new[i] = "kept"
  BY <1>1, <1>2
<1> HIDE DEF F
<1>7. fate' \in Seq(F) /\ Len(fate') = Len(fate) + Len(env.proxies)
  <2>1. fate \o new \in Seq(F) /\ Len(fate \o new) = Len(fate) + Len(new)
    BY <1>4, <1>5, ConcatSeq
  <2> QED BY <1>4, <1>5, <2>1
<1>8. \A i \in 1 .. Len(fate) : fate'[i] = fate[i]
  BY <1>4, <1>5
<1>9. \A i \in Len(fate) + 1 .. Len(fate) + Len(env.proxies) : fate'[i] = "kept"
  <2> TAKE i \in Len(fate) + 1 .. Len(fate) + Len(env.proxies)
  <2>1. i - Len(fate) \in 1 .. Len(env.proxies) /\ fate'[i] = new[i - Len(fate)]
    BY <1>2, <1>4, <1>5
  <2> QED BY <1>6, <2>1
<1> QED
  BY <1>7, <1>8, <1>9 DEF F

\* What a start loads is a list of users that starts with those of .env.
LEMMA LoadedType ==
  ASSUME TypeOK, NEW rows, rows \subseteq Row
  PROVE  Loaded(rows) \in Seq(Users) /\ Prefix(env.accounts, Loaded(rows))
<1>1. lastAccount \in Nat /\ lastAccount \in 0 .. lastAccount
  BY DEF TypeOK
<1> QED
  BY <1>1, EnvTypes, LoadedGrows DEF Loaded

\* A handler that begins has in its hand what belongs there.
LEMMA BeginsType ==
  ASSUME TypeOK, NEW h \in Handlers, NEW p, NEW x, Begins(h, p, x),
         p \in {"idle", "insert", "update", "probe", "undo", "apply"},
         p \in {"insert", "update"} => x \in Row,
         p \in {"probe", "undo"} => x \in ProxyRow,
         p = "apply" => x \in Values \cup {BadValue}
  PROVE  /\ pc' \in [Handlers -> {"idle", "insert", "update", "probe", "undo", "apply"}]
         /\ DOMAIN hand' = Handlers
         /\ \A g \in Handlers : HandOK(g)'
BY DEF TypeOK, Begins, HandOK

\* A handler that ends has nothing in its hand.
LEMMA EndsType ==
  ASSUME TypeOK, NEW h \in Handlers, NEW p, Ends(h, p)
  PROVE  /\ pc' \in [Handlers -> {"idle", "insert", "update", "probe", "undo", "apply"}]
         /\ DOMAIN hand' = Handlers
         /\ \A g \in Handlers : HandOK(g)'
BY DEF TypeOK, Ends, HandOK

\* Every step keeps the types.
LEMMA TypeStep == TypeOK /\ Starting /\ [Next]_vars => TypeOK'
<1> SUFFICES ASSUME TypeOK /\ Starting, [Next]_vars PROVE TypeOK'
  OBVIOUS
<1> USE DEF TypeOK, HandOK, tables, process, history
<1>1. ASSUME Seed PROVE TypeOK'
  <2>1. accounts' \subseteq Row /\ proxies' \subseteq ProxyRow
    BY <1>1, SeedFacts DEF Seed
  <2>2. lastAccount' \in Nat
    BY <1>1, EnvTypes DEF Seed
  <2>3. fate' \in Seq({"probing", "kept", "cut", "failed", "deleted"})
    BY <1>1, SeedFate
  <2>4. UNCHANGED <<env, holder, managers, built, pc, hand, gone>>
    BY <1>1 DEF Seed
  <2> QED BY <2>1, <2>2, <2>3, <2>4
<1>2. ASSUME SeedNot PROVE TypeOK'
  BY <1>2 DEF SeedNot, Fault
<1>3. ASSUME Load PROVE TypeOK'
  <2>1. managers' \in Seq(Users)
    BY <1>3, LoadedType DEF Load
  <2>2. built' = 0 /\ built' <= Len(managers')
    BY <1>3, <2>1 DEF Load, Starting
  <2>3. UNCHANGED <<tables, env, holder, pc, hand, gone>>
    BY <1>3 DEF Load
  <2> QED BY <2>1, <2>2, <2>3
<1>4. ASSUME Build PROVE TypeOK'
  <2>1. built + 1 \in 1 .. Len(managers) /\ built' = built + 1
    BY <1>4 DEF Build
  <2>2. PICK v \in Users : v = managers[built + 1]
    BY <2>1
  <2>3. CASE built' > Len(holder)
    <3>1. holder' = Append(holder, v)
      BY <1>4, <2>1, <2>2, <2>3 DEF Build
    <3>2. holder' \in Seq(Users \cup {None})
      BY <3>1, AppendSeq
    <3> QED BY <1>4, <2>1, <3>2 DEF Build
  <2>4. CASE ~(built' > Len(holder))
    <3>1. holder' = [holder EXCEPT ![built + 1] = IF holder[built + 1] = None THEN v
                                                 ELSE holder[built + 1]]
      BY <1>4, <2>1, <2>2, <2>4 DEF Build
    <3>2. built + 1 \in 1 .. Len(holder)
      BY <2>1, <2>4
    <3>3. holder[built + 1] \in Users \cup {None}
      BY <3>2
    <3>4. holder' \in Seq(Users \cup {None})
      BY <3>1, <3>3, ExceptSeq
    <3> QED BY <1>4, <2>1, <3>4 DEF Build
  <2> QED BY <2>3, <2>4
<1>5. ASSUME Serve PROVE TypeOK'
  BY <1>5 DEF Serve
<1>6. ASSUME Exit PROVE TypeOK'
  <2>1. fate' \in [1 .. Len(fate) -> {"probing", "kept", "cut", "failed", "deleted"}]
    BY <1>6 DEF Exit
  <2>2. fate' \in Seq({"probing", "kept", "cut", "failed", "deleted"})
    BY <2>1, FunSeq
  <2> QED BY <1>6, <2>2 DEF Exit
<1>7. ASSUME Start PROVE TypeOK'
  BY <1>7 DEF Start
<1>8. ASSUME NEW i \in DOMAIN holder, SessionEnds(i) PROVE TypeOK'
  BY <1>8 DEF SessionEnds
<1>9. ASSUME NEW i \in 1 .. built, EnsureSession(i) PROVE TypeOK'
  <2>1. i \in 1 .. Len(managers)
    OBVIOUS
  <2>2. PICK v \in Users : v = managers[i]
    BY <2>1
  <2>3. holder' = [holder EXCEPT ![i] = v]
    BY <1>9, <2>2 DEF EnsureSession
  <2>4. holder' \in Seq(Users \cup {None})
    BY <2>2, <2>3, ExceptSeq
  <2> QED BY <1>9, <2>4 DEF EnsureSession
<1>10. ASSUME NEW h \in Handlers, NEW u \in Users, NEW e \in BOOLEAN,
             CreateAccount(h, u, e)
      PROVE  TypeOK'
  <2>1. [id |-> 0, user |-> u, enabled |-> e] \in Row
    BY DEF Row
  <2> QED BY <1>10, <2>1, BeginsType DEF CreateAccount
<1>11. ASSUME NEW h \in Handlers, NEW r \in accounts, NEW u \in Users, NEW e \in BOOLEAN,
             UpdateAccount(h, r, u, e)
      PROVE  TypeOK'
  <2>1. r.id \in Nat
    BY DEF Row
  <2>2. [id |-> r.id, user |-> u, enabled |-> e] \in Row
    BY <2>1 DEF Row
  <2> QED BY <1>11, <2>2, BeginsType DEF UpdateAccount
<1>12. ASSUME NEW h \in Handlers, NEW i \in 1 .. lastAccount, DeleteAccount(h, i) PROVE TypeOK'
  BY <1>12 DEF DeleteAccount, Begins
<1>13. ASSUME NEW h \in Handlers, NEW a \in Addrs, CreateProxy(h, a) PROVE TypeOK'
  <2>1. PICK x : x = [id |-> Len(fate) + 1, addr |-> a]
    OBVIOUS
  <2>2. x \in ProxyRow
    BY <2>1 DEF ProxyRow
  <2>3. Begins(h, "probe", x) /\ hand'[h] = x
    BY <1>13, <2>1 DEF CreateProxy, Begins
  <2>4. fate' \in Seq({"probing", "kept", "cut", "failed", "deleted"})
    BY <1>13 DEF CreateProxy
  <2>5. proxies' \subseteq ProxyRow
    BY <1>13, <2>2, <2>3 DEF CreateProxy
  <2>6. UNCHANGED <<accounts, lastAccount, env, holder, managers, built, gone>>
    BY <1>13 DEF CreateProxy
  <2> HIDE DEF HandOK
  <2> QED BY <2>2, <2>3, <2>4, <2>5, <2>6, BeginsType
<1>14. ASSUME NEW h \in Handlers, NEW i \in DOMAIN fate, DeleteProxy(h, i) PROVE TypeOK'
  BY <1>14 DEF DeleteProxy, Begins
<1>15. ASSUME NEW h \in Handlers, NEW v \in Values \cup {BadValue},
             UpdateSettings(h, v)
      PROVE  TypeOK'
  BY <1>15 DEF UpdateSettings, Begins
<1>16. ASSUME NEW h \in Handlers, InsertAccount(h) PROVE TypeOK'
  <2>1. hand[h] \in Row
    BY <1>16 DEF InsertAccount, Ends
  <2>2. [hand[h] EXCEPT !.id = lastAccount + 1] \in Row
    BY <2>1 DEF Row
  <2>3. accounts' \subseteq Row /\ lastAccount' \in Nat
    BY <1>16, <2>2 DEF InsertAccount
  <2> HIDE DEF HandOK
  <2> QED BY <1>16, <2>3, EndsType DEF InsertAccount
<1>17. ASSUME NEW h \in Handlers, WriteAccount(h) PROVE TypeOK'
  BY <1>17 DEF WriteAccount, Ends
<1>18. ASSUME NEW h \in Handlers, ProbeOK(h) PROVE TypeOK'
  <2>1. \E x \in {"probing", "kept", "cut", "failed", "deleted"} :
          hand[h].id \in DOMAIN fate => fate' = [fate EXCEPT ![hand[h].id] = x]
    <3>1. hand[h].id \in DOMAIN fate
            => fate[hand[h].id] \in {"probing", "kept", "cut", "failed", "deleted"}
      OBVIOUS
    <3>2. fate' = [fate EXCEPT ![hand[h].id] = IF fate[hand[h].id] = "probing" THEN "kept"
                                               ELSE fate[hand[h].id]]
      BY <1>18 DEF ProbeOK
    <3> QED BY <3>1, <3>2
  <2>2. hand[h].id \notin DOMAIN fate => fate' = fate
    BY <1>18 DEF ProbeOK
  <2>3. fate' \in Seq({"probing", "kept", "cut", "failed", "deleted"})
    BY <2>1, <2>2
  <2> HIDE DEF HandOK
  <2> QED BY <1>18, <2>3, EndsType DEF ProbeOK
<1>19. ASSUME NEW h \in Handlers, ProbeFails(h) PROVE TypeOK'
  BY <1>19 DEF ProbeFails
<1>20. ASSUME NEW h \in Handlers, UndoProxy(h) PROVE TypeOK'
  <2>1. \E x \in {"probing", "kept", "cut", "failed", "deleted"} :
          hand[h].id \in DOMAIN fate => fate' = [fate EXCEPT ![hand[h].id] = x]
    BY <1>20 DEF UndoProxy
  <2>2. hand[h].id \notin DOMAIN fate => fate' = fate
    BY <1>20 DEF UndoProxy
  <2>3. fate' \in Seq({"probing", "kept", "cut", "failed", "deleted"})
    BY <2>1, <2>2
  <2>4. proxies' \subseteq ProxyRow
    BY <1>20 DEF UndoProxy
  <2> HIDE DEF HandOK
  <2> QED BY <1>20, <2>3, <2>4, EndsType DEF UndoProxy
<1>21. ASSUME NEW h \in Handlers, ApplySettings(h) PROVE TypeOK'
  BY <1>21 DEF ApplySettings, Ends
<1>22. ASSUME NEW h \in Handlers, Breaks(h) PROVE TypeOK'
  BY <1>22 DEF Breaks, Ends, Fault
<1>23. CASE UNCHANGED vars
  BY <1>23 DEF vars
<1> QED
  BY <1>1, <1>2, <1>3, <1>4, <1>5, <1>6, <1>7, <1>8, <1>9, <1>10, <1>11, <1>12, <1>13,
     <1>14, <1>15, <1>16, <1>17, <1>18, <1>19, <1>20, <1>21, <1>22, <1>23
  DEF Next, Request, Step

\* Every step keeps the ids.
LEMMA IdsStep == TypeOK /\ IdsOK /\ [Next]_vars => IdsOK'
<1> SUFFICES ASSUME TypeOK /\ IdsOK, [Next]_vars PROVE IdsOK'
  OBVIOUS
<1> USE DEF TypeOK, IdsOK, HandOK, tables, process, history
<1>1. ASSUME Seed PROVE IdsOK'
  <2>1. Len(env.accounts) \in Nat
    BY EnvTypes
  <2>2. lastAccount' = lastAccount + Len(env.accounts) /\ gone' = gone /\ accounts' = SeedRows
    BY <1>1 DEF Seed
  <2> QED BY <2>1, <2>2, SeedFacts
<1>2. ASSUME SeedNot PROVE IdsOK'
  BY <1>2 DEF SeedNot, Fault
<1>3. ASSUME Load PROVE IdsOK'
  BY <1>3 DEF Load, Fault
<1>4. ASSUME Build PROVE IdsOK'
  BY <1>4 DEF Build
<1>5. ASSUME Serve PROVE IdsOK'
  BY <1>5 DEF Serve
<1>6. ASSUME Exit PROVE IdsOK'
  BY <1>6 DEF Exit, Fault
<1>7. ASSUME Start PROVE IdsOK'
  BY <1>7 DEF Start
<1>8. ASSUME NEW i \in DOMAIN holder, SessionEnds(i) PROVE IdsOK'
  BY <1>8 DEF SessionEnds
<1>9. ASSUME NEW i \in 1 .. built, EnsureSession(i) PROVE IdsOK'
  BY <1>9 DEF EnsureSession
<1>10. ASSUME NEW h \in Handlers, NEW u \in Users, NEW e \in BOOLEAN,
             CreateAccount(h, u, e)
      PROVE  IdsOK'
  BY <1>10 DEF CreateAccount, Begins
<1>11. ASSUME NEW h \in Handlers, NEW r \in accounts, NEW u \in Users, NEW e \in BOOLEAN,
             UpdateAccount(h, r, u, e)
      PROVE  IdsOK'
  BY <1>11 DEF UpdateAccount, Begins
<1>12. ASSUME NEW h \in Handlers, NEW i \in 1 .. lastAccount, DeleteAccount(h, i) PROVE IdsOK'
  BY <1>12 DEF DeleteAccount, Begins
<1>13. ASSUME NEW h \in Handlers, NEW a \in Addrs, CreateProxy(h, a) PROVE IdsOK'
  BY <1>13 DEF CreateProxy, Begins
<1>14. ASSUME NEW h \in Handlers, NEW i \in DOMAIN fate, DeleteProxy(h, i) PROVE IdsOK'
  BY <1>14 DEF DeleteProxy, Begins
<1>15. ASSUME NEW h \in Handlers, NEW v \in Values \cup {BadValue},
             UpdateSettings(h, v)
      PROVE  IdsOK'
  BY <1>15 DEF UpdateSettings, Begins
<1>16. ASSUME NEW h \in Handlers, InsertAccount(h) PROVE IdsOK'
  <2>1. hand[h] \in Row
    BY <1>16 DEF InsertAccount, Ends
  <2>2. [hand[h] EXCEPT !.id = lastAccount + 1].id = lastAccount + 1
    BY <2>1 DEF Row
  <2>3. CASE UserIn(accounts, hand[h].user)
    BY <1>16, <2>3 DEF InsertAccount
  <2>4. CASE ~UserIn(accounts, hand[h].user)
    <3>1. /\ lastAccount' = lastAccount + 1 /\ gone' = gone
          /\ accounts' = accounts \cup {[hand[h] EXCEPT !.id = lastAccount + 1]}
      BY <1>16, <2>4 DEF InsertAccount
    <3>2. \A r \in accounts' : r \in accounts \/ r.id = lastAccount + 1
      BY <2>2, <3>1
    <3>3. \A r \in accounts : r.id \in 1 .. lastAccount
      OBVIOUS
    <3> QED BY <3>1, <3>2, <3>3
  <2> QED BY <2>3, <2>4
<1>17. ASSUME NEW h \in Handlers, WriteAccount(h) PROVE IdsOK'
  BY <1>17 DEF WriteAccount, Ends
<1>18. ASSUME NEW h \in Handlers, ProbeOK(h) PROVE IdsOK'
  BY <1>18 DEF ProbeOK, Ends
<1>19. ASSUME NEW h \in Handlers, ProbeFails(h) PROVE IdsOK'
  BY <1>19 DEF ProbeFails
<1>20. ASSUME NEW h \in Handlers, UndoProxy(h) PROVE IdsOK'
  BY <1>20 DEF UndoProxy, Ends, Fault
<1>21. ASSUME NEW h \in Handlers, ApplySettings(h) PROVE IdsOK'
  BY <1>21 DEF ApplySettings, Ends
<1>22. ASSUME NEW h \in Handlers, Breaks(h) PROVE IdsOK'
  BY <1>22 DEF Breaks, Ends, Fault
<1>23. CASE UNCHANGED vars
  BY <1>23 DEF vars
<1> QED
  BY <1>1, <1>2, <1>3, <1>4, <1>5, <1>6, <1>7, <1>8, <1>9, <1>10, <1>11, <1>12, <1>13,
     <1>14, <1>15, <1>16, <1>17, <1>18, <1>19, <1>20, <1>21, <1>22, <1>23
  DEF Next, Request, Step

\* Every step keeps what the answers said of the rows.
LEMMA RowsStep == TypeOK /\ IdsOK /\ Rows /\ [Next]_vars => Rows'
<1> SUFFICES ASSUME TypeOK /\ IdsOK /\ Rows, [Next]_vars PROVE Rows'
  OBVIOUS
<1> USE DEF TypeOK, IdsOK, HandOK, Rows, tables, process, history
<1>1. ASSUME Seed PROVE Rows'
  <2>0. /\ accounts' = SeedRows /\ proxies' = proxies \cup SeedProxies
        /\ UNCHANGED <<pc, hand, gone>>
    BY <1>1 DEF Seed
  <2>1. /\ Len(fate) \in Nat /\ Len(env.proxies) \in Nat
        /\ DOMAIN fate = 1 .. Len(fate) /\ DOMAIN fate' = 1 .. Len(fate) + Len(env.proxies)
    BY <1>1, SeedFate, EnvTypes
  <2>2. \A r \in proxies' : r.id \in DOMAIN fate' /\ fate'[r.id] \in {"probing", "kept", "cut"}
    <3>1. \A r \in SeedProxies : r.id \in DOMAIN fate' /\ fate'[r.id] = "kept"
      BY <1>1, <2>1, SeedFacts, SeedFate
    <3>2. \A r \in proxies : r.id \in DOMAIN fate' /\ fate'[r.id] = fate[r.id]
      BY <1>1, <2>1, SeedFate
    <3> QED BY <2>0, <3>1, <3>2
  <2>3. \A i \in DOMAIN fate' : fate'[i] \in {"probing", "kept"} => \E r \in proxies' : r.id = i
    <3> TAKE i \in DOMAIN fate'
    <3>1. CASE i \in DOMAIN fate
      BY <1>1, <2>0, <2>1, <3>1, SeedFate
    <3>2. CASE i \notin DOMAIN fate
      <4>0. i - Len(fate) \in 1 .. Len(env.proxies) /\ i = Len(fate) + (i - Len(fate))
        BY <2>1, <3>2
      <4>1. PICK k \in 1 .. Len(env.proxies) : i = Len(fate) + k
        BY <4>0
      <4>2. \E r \in SeedProxies : r.id = i
        BY <4>1, SeedFacts
      <4> QED BY <2>0, <4>2
    <3> QED BY <3>1, <3>2
  <2>4. \A i \in DOMAIN fate' : fate'[i] = "probing" =>
          \E h \in Handlers : pc'[h] \in {"probe", "undo"} /\ hand'[h].id = i
    <3> TAKE i \in DOMAIN fate'
    <3>1. CASE i \in DOMAIN fate
      BY <1>1, <2>0, <2>1, <3>1, SeedFate
    <3>2. CASE i \notin DOMAIN fate
      <4>1. i \in Len(fate) + 1 .. Len(fate) + Len(env.proxies)
        BY <2>1, <3>2
      <4>2. fate'[i] = "kept"
        BY <1>1, <4>1, SeedFate
      <4> QED BY <4>2
    <3> QED BY <3>1, <3>2
  <2>5. \A r \in accounts' : r.id \notin gone'
    <3>1. \A r \in SeedRows : ~(r.id \in 1 .. lastAccount)
      <4>1. \A k \in lastAccount + 1 .. lastAccount + Len(env.accounts) : ~(k \in 1 .. lastAccount)
        BY EnvTypes
      <4> QED BY <4>1, SeedFacts
    <3> QED BY <2>0, <3>1
  <2> QED BY <2>2, <2>3, <2>4, <2>5
<1>2. ASSUME SeedNot PROVE Rows'
  BY <1>2 DEF SeedNot, Fault
<1>3. ASSUME Load PROVE Rows'
  BY <1>3 DEF Load, Fault
<1>4. ASSUME Build PROVE Rows'
  BY <1>4 DEF Build
<1>5. ASSUME Serve PROVE Rows'
  BY <1>5 DEF Serve
<1>6. ASSUME Exit PROVE Rows'
  BY <1>6 DEF Exit, Fault
<1>7. ASSUME Start PROVE Rows'
  BY <1>7 DEF Start
<1>8. ASSUME NEW i \in DOMAIN holder, SessionEnds(i) PROVE Rows'
  BY <1>8 DEF SessionEnds
<1>9. ASSUME NEW i \in 1 .. built, EnsureSession(i) PROVE Rows'
  BY <1>9 DEF EnsureSession
<1>10. ASSUME NEW h \in Handlers, NEW u \in Users, NEW e \in BOOLEAN,
             CreateAccount(h, u, e)
      PROVE  Rows'
  BY <1>10 DEF CreateAccount, Begins
<1>11. ASSUME NEW h \in Handlers, NEW r \in accounts, NEW u \in Users, NEW e \in BOOLEAN,
             UpdateAccount(h, r, u, e)
      PROVE  Rows'
  BY <1>11 DEF UpdateAccount, Begins
<1>12. ASSUME NEW h \in Handlers, NEW i \in 1 .. lastAccount, DeleteAccount(h, i) PROVE Rows'
  BY <1>12 DEF DeleteAccount, Begins
<1>13. ASSUME NEW h \in Handlers, NEW a \in Addrs, CreateProxy(h, a) PROVE Rows'
  <2>1. PICK x : x = [id |-> Len(fate) + 1, addr |-> a]
    OBVIOUS
  <2>2. /\ x.id = Len(fate) + 1
        /\ pc[h] = "idle" /\ pc' = [pc EXCEPT ![h] = "probe"]
        /\ hand' = [hand EXCEPT ![h] = x]
        /\ proxies' = proxies \cup {x}
        /\ fate' = Append(fate, "probing")
        /\ UNCHANGED <<accounts, gone>>
    BY <1>13, <2>1 DEF CreateProxy, Begins
  <2>3. /\ Len(fate) \in Nat /\ DOMAIN fate = 1 .. Len(fate)
        /\ DOMAIN fate' = 1 .. Len(fate) + 1
        /\ \A i \in DOMAIN fate : fate'[i] = fate[i]
        /\ fate'[Len(fate) + 1] = "probing"
    BY <2>2
  <2>4. \A r \in proxies' : r.id \in DOMAIN fate' /\ fate'[r.id] \in {"probing", "kept", "cut"}
    BY <2>2, <2>3
  <2>5. \A i \in DOMAIN fate' : fate'[i] \in {"probing", "kept"} => \E r \in proxies' : r.id = i
    BY <2>2, <2>3
  <2>6. \A i \in DOMAIN fate' : fate'[i] = "probing" =>
          \E g \in Handlers : pc'[g] \in {"probe", "undo"} /\ hand'[g].id = i
    <3> TAKE i \in DOMAIN fate'
    <3> HAVE fate'[i] = "probing"
    <3>1. CASE i = Len(fate) + 1
      BY <2>2, <3>1
    <3>2. CASE i \in DOMAIN fate
      <4>1. PICK g \in Handlers : pc[g] \in {"probe", "undo"} /\ hand[g].id = i
        BY <2>3, <3>2
      <4> QED BY <2>2, <4>1
    <3> QED BY <2>3, <3>1, <3>2
  <2> QED BY <2>2, <2>4, <2>5, <2>6
<1>14. ASSUME NEW h \in Handlers, NEW i \in DOMAIN fate, DeleteProxy(h, i) PROVE Rows'
  <2>1. /\ pc[h] = "idle" /\ pc' = [pc EXCEPT ![h] = "idle"]
        /\ hand' = [hand EXCEPT ![h] = None]
        /\ proxies' = {r \in proxies : r.id # i}
        /\ fate' = [fate EXCEPT ![i] = "deleted"]
        /\ UNCHANGED <<accounts, gone>>
    BY <1>14 DEF DeleteProxy, Begins
  <2>2. /\ DOMAIN fate' = DOMAIN fate
        /\ \A j \in DOMAIN fate : j # i => fate'[j] = fate[j]
        /\ fate'[i] = "deleted"
    BY <2>1
  <2>3. \A g \in Handlers : pc[g] \in {"probe", "undo"} => pc'[g] = pc[g] /\ hand'[g] = hand[g]
    BY <2>1
  <2>4. \A j \in DOMAIN fate' : fate'[j] = "probing" =>
          \E g \in Handlers : pc'[g] \in {"probe", "undo"} /\ hand'[g].id = j
    <3> TAKE j \in DOMAIN fate'
    <3> HAVE fate'[j] = "probing"
    <3>1. PICK g \in Handlers : pc[g] \in {"probe", "undo"} /\ hand[g].id = j
      BY <2>2
    <3> QED BY <2>3, <3>1
  <2> QED BY <2>1, <2>2, <2>4
<1>15. ASSUME NEW h \in Handlers, NEW v \in Values \cup {BadValue},
             UpdateSettings(h, v)
      PROVE  Rows'
  BY <1>15 DEF UpdateSettings, Begins
<1>16. ASSUME NEW h \in Handlers, InsertAccount(h) PROVE Rows'
  <2>1. hand[h] \in Row
    BY <1>16 DEF InsertAccount, Ends
  <2>3. \A r \in accounts' : r \in accounts \/ r.id = lastAccount + 1
    <3>1. PICK x : x = [hand[h] EXCEPT !.id = lastAccount + 1]
      OBVIOUS
    <3>2. accounts' = accounts \/ accounts' = accounts \cup {x}
      BY <1>16, <3>1 DEF InsertAccount
    <3>3. x.id = lastAccount + 1
      BY <2>1, <3>1, NumberedRow
    <3> QED BY <3>2, <3>3
  <2>4. lastAccount + 1 \notin gone
    OBVIOUS
  <2>5. \A r \in accounts' : r.id \notin gone'
    BY <1>16, <2>3, <2>4 DEF InsertAccount
  <2>6. \A g \in Handlers : pc[g] \in {"probe", "undo"} => pc'[g] = pc[g] /\ hand'[g] = hand[g]
    BY <1>16 DEF InsertAccount, Ends
  <2>7. UNCHANGED <<proxies, fate>>
    BY <1>16 DEF InsertAccount
  <2> QED BY <2>5, <2>6, <2>7
<1>17. ASSUME NEW h \in Handlers, WriteAccount(h) PROVE Rows'
  <2>1. \A r \in accounts' : r \in accounts \/ \E q \in accounts : q.id = r.id
    BY <1>17 DEF WriteAccount
  <2>2. \A r \in accounts' : r.id \notin gone'
    BY <1>17, <2>1 DEF WriteAccount
  <2>3. \A g \in Handlers : pc[g] \in {"probe", "undo"} => pc'[g] = pc[g] /\ hand'[g] = hand[g]
    BY <1>17 DEF WriteAccount, Ends
  <2>4. UNCHANGED <<proxies, fate>>
    BY <1>17 DEF WriteAccount
  <2> QED BY <2>2, <2>3, <2>4
<1>18. ASSUME NEW h \in Handlers, ProbeOK(h) PROVE Rows'
  BY <1>18 DEF ProbeOK, Ends
<1>19. ASSUME NEW h \in Handlers, ProbeFails(h) PROVE Rows'
  BY <1>19 DEF ProbeFails
<1>20. ASSUME NEW h \in Handlers, UndoProxy(h) PROVE Rows'
  <2> DEFINE k == hand[h].id
  <2>1. /\ UNCHANGED <<accounts, gone>>
        /\ \A g \in Handlers : g # h => pc'[g] = pc[g] /\ hand'[g] = hand[g]
    BY <1>20 DEF UndoProxy, Ends
  <2>2. /\ DOMAIN fate' = DOMAIN fate
        /\ \A i \in DOMAIN fate : i # k => fate'[i] = fate[i]
        /\ k \in DOMAIN fate => fate'[k] # "probing"
    BY <1>20 DEF UndoProxy
  <2>3. \/ proxies' = {r \in proxies : r.id # k} /\ (k \in DOMAIN fate => fate'[k] = "failed")
        \/ proxies' = proxies /\ (k \in DOMAIN fate => fate'[k] = IF fate[k] = "probing" THEN "cut"
                                                                  ELSE fate[k])
    BY <1>20 DEF UndoProxy
  <2> HIDE DEF k
  <2>4. \A r \in proxies' : r.id \in DOMAIN fate' /\ fate'[r.id] \in {"probing", "kept", "cut"}
    BY <2>2, <2>3
  <2>5. \A i \in DOMAIN fate' : fate'[i] \in {"probing", "kept"} => \E r \in proxies' : r.id = i
    BY <2>2, <2>3
  <2>6. \A i \in DOMAIN fate' : fate'[i] = "probing" =>
          \E g \in Handlers : pc'[g] \in {"probe", "undo"} /\ hand'[g].id = i
    <3> TAKE i \in DOMAIN fate'
    <3> HAVE fate'[i] = "probing"
    <3>1. i \in DOMAIN fate /\ i # k /\ fate[i] = "probing"
      BY <2>2
    <3>2. PICK g \in Handlers : pc[g] \in {"probe", "undo"} /\ hand[g].id = i
      BY <3>1
    <3>3. g # h
      BY <3>1, <3>2 DEF k
    <3> QED BY <2>1, <3>2, <3>3
  <2> QED BY <2>1, <2>4, <2>5, <2>6
<1>21. ASSUME NEW h \in Handlers, ApplySettings(h) PROVE Rows'
  BY <1>21 DEF ApplySettings, Ends
<1>22. ASSUME NEW h \in Handlers, Breaks(h) PROVE Rows'
  BY <1>22 DEF Breaks, Ends, Fault
<1>23. CASE UNCHANGED vars
  BY <1>23 DEF vars
<1> QED
  BY <1>1, <1>2, <1>3, <1>4, <1>5, <1>6, <1>7, <1>8, <1>9, <1>10, <1>11, <1>12, <1>13,
     <1>14, <1>15, <1>16, <1>17, <1>18, <1>19, <1>20, <1>21, <1>22, <1>23
  DEF Next, Request, Step

\* The row of an account goes only when it is deleted.
LEMMA RowsStayStep == TypeOK /\ RowsStay /\ [Next]_vars => RowsStay'
<1> SUFFICES ASSUME TypeOK, RowsStay, [Next]_vars PROVE RowsStay'
  OBVIOUS
<1> USE DEF tables, process, history
<1>0. lastAccount \in Nat
  BY DEF TypeOK
<1>1. ASSUME Seed PROVE RowsStay'
  <2>1. /\ accounts = {} /\ accounts' = SeedRows /\ gone' = gone
        /\ lastAccount' = lastAccount + Len(env.accounts)
    BY <1>1 DEF Seed, CanSeed
  <2>2. \A k \in 1 .. Len(env.accounts) : \E r \in SeedRows : r.id = lastAccount + k
    <3> TAKE k \in 1 .. Len(env.accounts)
    <3>1. [id |-> lastAccount + k, user |-> env.accounts[k], enabled |-> TRUE] \in SeedRows
      BY EnvTypes DEF SeedRows
    <3> QED BY <3>1
  <2>3. \A i \in 1 .. lastAccount' : i \notin gone' => \E r \in accounts' : r.id = i
    <3> TAKE i \in 1 .. lastAccount'
    <3>1. CASE i \in 1 .. lastAccount
      BY <2>1, <3>1 DEF RowsStay
    <3>2. CASE i \notin 1 .. lastAccount
      <4>1. PICK k \in 1 .. Len(env.accounts) : i = lastAccount + k
        <5>1. i - lastAccount \in 1 .. Len(env.accounts) /\ i = lastAccount + (i - lastAccount)
          BY <1>0, <2>1, <3>2, EnvTypes
        <5> QED BY <5>1
      <4> QED BY <2>1, <2>2, <4>1
    <3> QED BY <3>1, <3>2
  <2> QED BY <2>3 DEF RowsStay
<1>2. ASSUME NEW h \in Handlers, NEW i \in 1 .. lastAccount, DeleteAccount(h, i) PROVE RowsStay'
  BY <1>2 DEF DeleteAccount, RowsStay
<1>3. ASSUME NEW h \in Handlers, InsertAccount(h) PROVE RowsStay'
  <2>1. CASE UserIn(accounts, hand[h].user)
    BY <1>3, <2>1 DEF InsertAccount, RowsStay
  <2>2. CASE ~UserIn(accounts, hand[h].user)
    <3>1. PICK x : x = [hand[h] EXCEPT !.id = lastAccount + 1]
      OBVIOUS
    <3>2. hand[h] \in Row
      BY <1>3 DEF InsertAccount, Ends, TypeOK, HandOK
    <3>3. x.id = lastAccount + 1
      BY <1>0, <3>1, <3>2, NumberedRow
    <3>4. accounts' = accounts \cup {x} /\ lastAccount' = lastAccount + 1 /\ gone' = gone
      BY <1>3, <2>2, <3>1 DEF InsertAccount
    <3>5. \A i \in 1 .. lastAccount + 1 : i \in 1 .. lastAccount \/ i = lastAccount + 1
      BY <1>0
    <3> QED BY <3>3, <3>4, <3>5 DEF RowsStay
  <2> QED BY <2>1, <2>2
<1>4. ASSUME NEW h \in Handlers, WriteAccount(h) PROVE RowsStay'
  <2>1. \A r \in accounts : \E q \in accounts' : q.id = r.id
    BY <1>4 DEF WriteAccount
  <2>2. UNCHANGED <<lastAccount, gone>>
    BY <1>4 DEF WriteAccount
  <2> QED BY <2>1, <2>2 DEF RowsStay
<1>5. UNCHANGED <<accounts, lastAccount, gone>> => RowsStay'
  BY DEF RowsStay
<1>6. \/ Seed
      \/ \E h \in Handlers : \/ \E i \in 1 .. lastAccount : DeleteAccount(h, i)
                            \/ InsertAccount(h) \/ WriteAccount(h)
      \/ UNCHANGED <<accounts, lastAccount, gone>>
  BY DEF Next, Request, Step, SeedNot, Load, Build, Serve, Exit, Start, SessionEnds,
         EnsureSession, CreateAccount, UpdateAccount, CreateProxy, DeleteProxy, UpdateSettings,
         ProbeOK, ProbeFails, UndoProxy, ApplySettings, Breaks, vars
<1> QED
  BY <1>1, <1>2, <1>3, <1>4, <1>5, <1>6

\* Every step keeps the order of a start.
LEMMA StartingStep == TypeOK /\ Starting /\ [Next]_vars => Starting'
<1> SUFFICES ASSUME TypeOK /\ Starting, [Next]_vars PROVE Starting'
  OBVIOUS
<1> USE DEF TypeOK, HandOK, Starting, tables, process, history
<1>1. ASSUME Seed PROVE Starting'
  BY <1>1 DEF Seed
<1>2. ASSUME SeedNot PROVE Starting'
  BY <1>2 DEF SeedNot, Fault
<1>3. ASSUME Load PROVE Starting'
  BY <1>3 DEF Load, Fault
<1>4. ASSUME Build PROVE Starting'
  BY <1>4 DEF Build
<1>5. ASSUME Serve PROVE Starting'
  BY <1>5 DEF Serve
<1>6. ASSUME Exit PROVE Starting'
  BY <1>6 DEF Exit, Fault
<1>7. ASSUME Start PROVE Starting'
  BY <1>7 DEF Start
<1>8. ASSUME NEW i \in DOMAIN holder, SessionEnds(i) PROVE Starting'
  BY <1>8 DEF SessionEnds
<1>9. ASSUME NEW i \in 1 .. built, EnsureSession(i) PROVE Starting'
  BY <1>9 DEF EnsureSession
<1>10. ASSUME NEW h \in Handlers, NEW u \in Users, NEW e \in BOOLEAN,
             CreateAccount(h, u, e)
      PROVE  Starting'
  BY <1>10 DEF CreateAccount, Begins
<1>11. ASSUME NEW h \in Handlers, NEW r \in accounts, NEW u \in Users, NEW e \in BOOLEAN,
             UpdateAccount(h, r, u, e)
      PROVE  Starting'
  BY <1>11 DEF UpdateAccount, Begins
<1>12. ASSUME NEW h \in Handlers, NEW i \in 1 .. lastAccount,
             DeleteAccount(h, i)
      PROVE  Starting'
  BY <1>12 DEF DeleteAccount, Begins
<1>13. ASSUME NEW h \in Handlers, NEW a \in Addrs, CreateProxy(h, a) PROVE Starting'
  BY <1>13 DEF CreateProxy, Begins
<1>14. ASSUME NEW h \in Handlers, NEW i \in DOMAIN fate, DeleteProxy(h, i) PROVE Starting'
  BY <1>14 DEF DeleteProxy, Begins
<1>15. ASSUME NEW h \in Handlers, NEW v \in Values \cup {BadValue},
             UpdateSettings(h, v)
      PROVE  Starting'
  BY <1>15 DEF UpdateSettings, Begins
<1>16. ASSUME NEW h \in Handlers, InsertAccount(h) PROVE Starting'
  BY <1>16 DEF InsertAccount, Ends
<1>17. ASSUME NEW h \in Handlers, WriteAccount(h) PROVE Starting'
  BY <1>17 DEF WriteAccount, Ends
<1>18. ASSUME NEW h \in Handlers, ProbeOK(h) PROVE Starting'
  BY <1>18 DEF ProbeOK, Ends
<1>19. ASSUME NEW h \in Handlers, ProbeFails(h) PROVE Starting'
  BY <1>19 DEF ProbeFails
<1>20. ASSUME NEW h \in Handlers, UndoProxy(h) PROVE Starting'
  BY <1>20 DEF UndoProxy, Ends, Fault
<1>21. ASSUME NEW h \in Handlers, ApplySettings(h) PROVE Starting'
  BY <1>21 DEF ApplySettings, Ends
<1>22. ASSUME NEW h \in Handlers, Breaks(h) PROVE Starting'
  BY <1>22 DEF Breaks, Ends, Fault
<1>23. CASE UNCHANGED vars
  BY <1>23 DEF vars
<1> QED
  BY <1>1, <1>2, <1>3, <1>4, <1>5, <1>6, <1>7, <1>8, <1>9, <1>10, <1>11, <1>12, <1>13,
     <1>14, <1>15, <1>16, <1>17, <1>18, <1>19, <1>20, <1>21, <1>22, <1>23
  DEF Next, Request, Step

\* Every step keeps the live setting at the stored one.
LEMMA LiveStep == TypeOK /\ Starting /\ Live /\ [Next]_vars => Live'
<1> SUFFICES ASSUME TypeOK /\ Starting /\ Live, [Next]_vars PROVE Live'
  OBVIOUS
<1> USE DEF TypeOK, HandOK, Starting, Live, tables, process, history
<1>1. ASSUME Seed PROVE Live'
  BY <1>1 DEF Seed
<1>2. ASSUME SeedNot PROVE Live'
  BY <1>2 DEF SeedNot, Fault
<1>3. ASSUME Load PROVE Live'
  BY <1>3 DEF Load, Fault
<1>4. ASSUME Build PROVE Live'
  BY <1>4 DEF Build
<1>5. ASSUME Serve PROVE Live'
  BY <1>5 DEF Serve
<1>6. ASSUME Exit PROVE Live'
  BY <1>6 DEF Exit, Fault
<1>7. ASSUME Start PROVE Live'
  BY <1>7 DEF Start
<1>8. ASSUME NEW i \in DOMAIN holder, SessionEnds(i) PROVE Live'
  BY <1>8 DEF SessionEnds
<1>9. ASSUME NEW i \in 1 .. built, EnsureSession(i) PROVE Live'
  BY <1>9 DEF EnsureSession
<1>10. ASSUME NEW h \in Handlers, NEW u \in Users, NEW e \in BOOLEAN,
             CreateAccount(h, u, e)
      PROVE  Live'
  BY <1>10 DEF CreateAccount, Begins
<1>11. ASSUME NEW h \in Handlers, NEW r \in accounts, NEW u \in Users, NEW e \in BOOLEAN,
             UpdateAccount(h, r, u, e)
      PROVE  Live'
  BY <1>11 DEF UpdateAccount, Begins
<1>12. ASSUME NEW h \in Handlers, NEW i \in 1 .. lastAccount, DeleteAccount(h, i) PROVE Live'
  BY <1>12 DEF DeleteAccount, Begins
<1>13. ASSUME NEW h \in Handlers, NEW a \in Addrs, CreateProxy(h, a) PROVE Live'
  BY <1>13 DEF CreateProxy, Begins
<1>14. ASSUME NEW h \in Handlers, NEW i \in DOMAIN fate, DeleteProxy(h, i) PROVE Live'
  BY <1>14 DEF DeleteProxy, Begins
<1>15. ASSUME NEW h \in Handlers, NEW v \in Values \cup {BadValue},
             UpdateSettings(h, v)
      PROVE  Live'
  BY <1>15 DEF UpdateSettings, Begins
<1>16. ASSUME NEW h \in Handlers, InsertAccount(h) PROVE Live'
  BY <1>16 DEF InsertAccount, Ends
<1>17. ASSUME NEW h \in Handlers, WriteAccount(h) PROVE Live'
  BY <1>17 DEF WriteAccount, Ends
<1>18. ASSUME NEW h \in Handlers, ProbeOK(h) PROVE Live'
  BY <1>18 DEF ProbeOK, Ends
<1>19. ASSUME NEW h \in Handlers, ProbeFails(h) PROVE Live'
  BY <1>19 DEF ProbeFails
<1>20. ASSUME NEW h \in Handlers, UndoProxy(h) PROVE Live'
  BY <1>20 DEF UndoProxy, Ends, Fault
<1>21. ASSUME NEW h \in Handlers, ApplySettings(h) PROVE Live'
  BY <1>21 DEF ApplySettings, Ends
<1>22. ASSUME NEW h \in Handlers, Breaks(h) PROVE Live'
  BY <1>22 DEF Breaks, Ends, Fault
<1>23. CASE UNCHANGED vars
  BY <1>23 DEF vars
<1> QED
  BY <1>1, <1>2, <1>3, <1>4, <1>5, <1>6, <1>7, <1>8, <1>9, <1>10, <1>11, <1>12, <1>13,
     <1>14, <1>15, <1>16, <1>17, <1>18, <1>19, <1>20, <1>21, <1>22, <1>23
  DEF Next, Request, Step

\* A prefix of a prefix.
LEMMA PrefixTrans ==
  ASSUME NEW T, NEW s \in Seq(T), NEW t \in Seq(T), NEW u \in Seq(T), Prefix(s, t), Prefix(t, u)
  PROVE  Prefix(s, u)
BY DEF Prefix

\* When the list that a start would load grows at its end, the stores stay
\* with their accounts.
LEMMA StoresGrow ==
  ASSUME TypeOK, TypeOK', Stores, UNCHANGED <<holder, managers, built>>, edited' = edited,
         ~edited => Prefix(Loaded(accounts), Loaded(accounts)')
  PROVE  Stores'
<1>1. Loaded(accounts) \in Seq(Users)
  BY LoadedType DEF TypeOK
<1>2. Loaded(accounts)' \in Seq(Users)
  <2>1. lastAccount' \in Nat /\ lastAccount' \in 0 .. lastAccount' /\ accounts' \subseteq Row
    BY DEF TypeOK
  <2>2. env'.accounts \in Seq(Users)
    BY EnvAssumption DEF TypeOK
  <2> QED BY <2>1, <2>2, LoadedGrows DEF Loaded
<1>3. managers \in Seq(Users) /\ Len(holder) \in Nat
  BY DEF TypeOK
<1>4. built' <= Len(holder')
  BY DEF Stores
<1>5. ASSUME ~edited
      PROVE  /\ Prefix(managers', Loaded(accounts)')
             /\ Len(holder') <= Len(Loaded(accounts)')
             /\ \A i \in 1 .. Len(holder') : holder'[i] \in {None, Loaded(accounts)'[i]}
  <2> HIDE DEF Loaded
  <2>1. /\ Prefix(managers, Loaded(accounts)) /\ Prefix(Loaded(accounts), Loaded(accounts)')
        /\ Len(holder) <= Len(Loaded(accounts))
        /\ \A i \in 1 .. Len(holder) : holder[i] \in {None, Loaded(accounts)[i]}
    BY <1>5 DEF Stores
  <2>2. Prefix(managers', Loaded(accounts)')
    BY <1>1, <1>2, <1>3, <2>1, PrefixTrans
  <2>3. /\ Len(holder') <= Len(Loaded(accounts)')
        /\ \A i \in 1 .. Len(holder') : holder'[i] \in {None, Loaded(accounts)'[i]}
    BY <1>1, <1>2, <1>3, <2>1 DEF Prefix
  <2> QED BY <2>2, <2>3
<1> QED
  BY <1>4, <1>5 DEF Stores

\* A step that leaves the accounts and the stores alone.
LEMMA StoresSame ==
  ASSUME Stores, UNCHANGED <<env, accounts, lastAccount, holder, managers, built, edited>>
  PROVE  Stores'
BY DEF Stores, Loaded

\* Overwriting a store does not change how many there are.
LEMMA HolderLen ==
  ASSUME NEW T, NEW s \in Seq(T), NEW v, NEW i
  PROVE  Len([s EXCEPT ![i] = v]) = Len(s)
<1>1. s \in Seq(T \cup {v}) /\ v \in T \cup {v}
  OBVIOUS
<1> QED BY <1>1, ExceptSeq

\* Every step keeps the stores with their accounts.
LEMMA StoresStep == TypeOK /\ TypeOK' /\ IdsOK /\ Stores /\ [Next]_vars => Stores'
<1> SUFFICES ASSUME TypeOK /\ TypeOK' /\ IdsOK /\ Stores, [Next]_vars PROVE Stores'
  OBVIOUS
<1> USE DEF tables, process, history
<1>1. ASSUME Seed PROVE Stores'
  <2>1. /\ lastAccount \in Nat /\ lastAccount' \in Nat /\ accounts = {} /\ accounts' = SeedRows
        /\ lastAccount \in 0 .. lastAccount /\ lastAccount' \in 0 .. lastAccount'
    BY <1>1 DEF Seed, CanSeed, TypeOK
  <2>2. Loaded(accounts) = env.accounts
    BY <2>1, EnvTypes, LoadedEnv DEF Loaded
  <2>3. Loaded(accounts)' = env.accounts
    <3>1. env' = env
      BY <1>1 DEF Seed
    <3> QED BY <2>1, <3>1, EnvTypes, SeedFacts, LoadedEnv DEF Loaded
  <2>4. Prefix(env.accounts, env.accounts)
    BY EnvTypes DEF Prefix
  <2>5. UNCHANGED <<holder, managers, built, edited>>
    BY <1>1 DEF Seed
  <2> HIDE DEF Loaded
  <2> QED BY <2>2, <2>3, <2>4, <2>5, StoresGrow
<1>2. ASSUME SeedNot PROVE Stores'
  BY <1>2, StoresSame DEF SeedNot
<1>3. ASSUME Load PROVE Stores'
  <2>1. Loaded(accounts) \in Seq(Users) /\ Prefix(env.accounts, Loaded(accounts))
    BY LoadedType DEF TypeOK
  <2>2. Loaded({}) = env.accounts
    <3>1. lastAccount \in Nat /\ lastAccount \in 0 .. lastAccount
      BY DEF TypeOK
    <3> QED BY <3>1, EnvTypes, LoadedEnv DEF Loaded
  <2>3. Loaded(accounts)' = Loaded(accounts)
    BY <1>3 DEF Load, Loaded
  <2> HIDE DEF Loaded
  <2>4. Prefix(managers', Loaded(accounts))
    BY <1>3, <2>1, <2>2, EnvTypes DEF Load, Prefix
  <2>5. UNCHANGED <<holder, built, edited>>
    BY <1>3 DEF Load
  <2> QED BY <2>3, <2>4, <2>5 DEF Stores
<1>4. ASSUME Build PROVE Stores'
  <2>0. Loaded(accounts)' = Loaded(accounts) /\ Loaded(accounts) \in Seq(Users)
    BY <1>4, LoadedType DEF Build, Loaded, TypeOK
  <2> DEFINE L == Loaded(accounts)
             b == built + 1
  <2>1. /\ b \in 1 .. Len(managers) /\ built' = b
        /\ UNCHANGED <<managers, edited>>
        /\ Len(holder) \in Nat /\ built <= Len(holder) /\ built \in Nat
    BY <1>4 DEF Build, TypeOK, Stores
  <2>2. ~edited => b \in 1 .. Len(L) /\ managers[b] = L[b]
    <3> HIDE DEF L
    <3>1. ~edited => Prefix(managers, L)
      BY DEF Stores, L
    <3>2. Len(L) \in Nat /\ Len(managers) \in Nat
      BY <2>0 DEF L, TypeOK
    <3> QED BY <2>1, <3>1, <3>2 DEF Prefix
  <2>3. CASE b > Len(holder)
    <3>1. PICK v : v = managers[b]
      OBVIOUS
    <3>2. holder' = Append(holder, v)
      BY <1>4, <2>1, <2>3, <3>1 DEF Build
    <3>3. b = Len(holder) + 1
      BY <2>1, <2>3
    <3>4. v \in Users
      BY <2>1, <3>1 DEF TypeOK
    <3>5. /\ Len(holder') = Len(holder) + 1
          /\ holder'[b] = v
          /\ \A i \in 1 .. Len(holder) : holder'[i] = holder[i]
      BY <3>2, <3>3, <3>4 DEF TypeOK
    <3> QED BY <2>0, <2>1, <2>2, <3>1, <3>3, <3>5 DEF Stores
  <2>4. CASE ~(b > Len(holder))
    <3>1. holder' = [holder EXCEPT ![b] = IF holder[b] = None THEN managers[b] ELSE holder[b]]
      BY <1>4, <2>1, <2>4 DEF Build
    <3>2. b \in 1 .. Len(holder) /\ Len(holder') = Len(holder)
      BY <2>1, <2>4, <3>1, HolderLen DEF TypeOK
    <3>3. /\ holder'[b] \in {holder[b], managers[b]}
          /\ \A i \in 1 .. Len(holder) : i # b => holder'[i] = holder[i]
          /\ holder[b] # None => holder'[b] = holder[b]
          /\ holder[b] = None => holder'[b] = managers[b]
      BY <3>1, <3>2 DEF TypeOK
    <3> QED BY <2>0, <2>1, <2>2, <3>2, <3>3 DEF Stores
  <2> QED BY <2>3, <2>4
<1>5. ASSUME Serve PROVE Stores'
  BY <1>5, StoresSame DEF Serve
<1>6. ASSUME Exit PROVE Stores'
  <2>1. Loaded(accounts)' = Loaded(accounts) /\ Loaded(accounts) \in Seq(Users)
    BY <1>6, LoadedType DEF Exit, Loaded, TypeOK
  <2>2. managers' = <<>> /\ built' = 0 /\ UNCHANGED <<holder, edited>> /\ Len(holder) \in Nat
    BY <1>6 DEF Exit, TypeOK
  <2>3. Prefix(managers', Loaded(accounts))
    BY <2>1, <2>2 DEF Prefix
  <2> HIDE DEF Loaded
  <2> QED BY <2>1, <2>2, <2>3 DEF Stores
<1>7. ASSUME Start PROVE Stores'
  <2>1. UNCHANGED <<accounts, lastAccount, holder, managers, built>>
    BY <1>7 DEF Start
  <2>2. edited' = (edited \/ env'.accounts # env.accounts)
    BY <1>7 DEF Start
  <2>3. CASE edited'
    BY <2>1, <2>3 DEF Stores
  <2>4. CASE ~edited'
    <3>1. ~edited /\ env'.accounts = env.accounts
      BY <2>2, <2>4
    <3>2. Loaded(accounts)' = Loaded(accounts)
      BY <2>1, <3>1 DEF Loaded
    <3> HIDE DEF Loaded
    <3> QED BY <2>1, <3>1, <3>2 DEF Stores
  <2> QED BY <2>3, <2>4
<1>8. ASSUME NEW i \in DOMAIN holder, SessionEnds(i) PROVE Stores'
  <2>1. Loaded(accounts)' = Loaded(accounts)
    BY <1>8 DEF SessionEnds, Loaded
  <2>2. /\ holder' = [holder EXCEPT ![i] = None] /\ i \in 1 .. Len(holder)
        /\ UNCHANGED <<managers, built, edited>>
    BY <1>8 DEF SessionEnds, TypeOK
  <2>3. Len(holder') = Len(holder)
    BY <2>2, HolderLen DEF TypeOK
  <2>4. holder'[i] = None /\ \A j \in 1 .. Len(holder) : j # i => holder'[j] = holder[j]
    BY <2>2 DEF TypeOK
  <2> HIDE DEF Loaded
  <2> QED BY <2>1, <2>2, <2>3, <2>4 DEF Stores
<1>9. ASSUME NEW i \in 1 .. built, EnsureSession(i) PROVE Stores'
  <2>1. Loaded(accounts)' = Loaded(accounts) /\ Loaded(accounts) \in Seq(Users)
    BY <1>9, LoadedType DEF EnsureSession, Loaded, TypeOK
  <2>2. /\ holder' = [holder EXCEPT ![i] = managers[i]]
        /\ UNCHANGED <<managers, built, edited>>
        /\ i \in 1 .. Len(holder) /\ i \in 1 .. Len(managers)
    BY <1>9 DEF EnsureSession, TypeOK, Stores
  <2>3. Len(holder') = Len(holder)
    BY <2>2, HolderLen DEF TypeOK
  <2>4. holder'[i] = managers[i] /\ \A j \in 1 .. Len(holder) : j # i => holder'[j] = holder[j]
    BY <2>2 DEF TypeOK
  <2> HIDE DEF Loaded
  <2>5. ~edited => managers[i] = Loaded(accounts)[i]
    BY <2>2 DEF Stores, Prefix
  <2> QED BY <2>1, <2>2, <2>3, <2>4, <2>5 DEF Stores
<1>10. ASSUME NEW h \in Handlers, NEW u \in Users, NEW e \in BOOLEAN,
             CreateAccount(h, u, e)
      PROVE  Stores'
  BY <1>10, StoresSame DEF CreateAccount
<1>11. ASSUME NEW h \in Handlers, NEW r \in accounts, NEW u \in Users, NEW e \in BOOLEAN,
             UpdateAccount(h, r, u, e)
      PROVE  Stores'
  BY <1>11, StoresSame DEF UpdateAccount
<1>12. ASSUME NEW h \in Handlers, NEW i \in 1 .. lastAccount, DeleteAccount(h, i) PROVE Stores'
  <2>1. UNCHANGED <<holder, built>> /\ edited'
    BY <1>12 DEF DeleteAccount
  <2> QED BY <2>1 DEF Stores
<1>13. ASSUME NEW h \in Handlers, NEW a \in Addrs, CreateProxy(h, a) PROVE Stores'
  BY <1>13, StoresSame DEF CreateProxy
<1>14. ASSUME NEW h \in Handlers, NEW i \in DOMAIN fate, DeleteProxy(h, i) PROVE Stores'
  BY <1>14, StoresSame DEF DeleteProxy
<1>15. ASSUME NEW h \in Handlers, NEW v \in Values \cup {BadValue},
             UpdateSettings(h, v)
      PROVE  Stores'
  BY <1>15, StoresSame DEF UpdateSettings
<1>16. ASSUME NEW h \in Handlers, InsertAccount(h) PROVE Stores'
  <2>1. CASE UserIn(accounts, hand[h].user)
    BY <1>16, <2>1, StoresSame DEF InsertAccount
  <2>2. CASE ~UserIn(accounts, hand[h].user)
    <3>1. PICK x : x = [hand[h] EXCEPT !.id = lastAccount + 1]
      OBVIOUS
    <3>2. hand[h] \in Row
      BY <1>16 DEF InsertAccount, Ends, TypeOK, HandOK
    <3>0. lastAccount \in Nat /\ lastAccount + 1 \in Nat
      BY DEF TypeOK
    <3>3. x \in Row /\ x.id = lastAccount + 1 /\ lastAccount \in Nat
      BY <3>0, <3>1, <3>2, NumberedRow
    <3>4. accounts' = accounts \cup {x} /\ lastAccount' = lastAccount + 1
      BY <1>16, <2>2, <3>1 DEF InsertAccount
    <3>5. Prefix(Loaded(accounts), Loaded(accounts)')
      <4>1. env' = env /\ env.accounts \in Seq(Users)
        BY <1>16, EnvTypes DEF InsertAccount
      <4> QED BY <3>3, <3>4, <4>1, LoadedAdds DEF Loaded, TypeOK, IdsOK
    <3>6. UNCHANGED <<holder, managers, built, edited>>
      BY <1>16 DEF InsertAccount
    <3> QED BY <3>5, <3>6, StoresGrow
  <2> QED BY <2>1, <2>2
<1>17. ASSUME NEW h \in Handlers, WriteAccount(h) PROVE Stores'
  <2>1. UNCHANGED <<lastAccount, holder, managers, built>>
    BY <1>17 DEF WriteAccount
  <2>2. CASE accounts' = accounts
    <3>1. edited' = (edited \/ FALSE)
      BY <1>17, <2>2 DEF WriteAccount
    <3>2. Loaded(accounts)' = Loaded(accounts)
      BY <1>17, <2>1, <2>2 DEF Loaded, WriteAccount
    <3>3. ~edited' => ~edited
      BY <3>1
    <3> HIDE DEF Loaded
    <3> QED BY <2>1, <3>2, <3>3 DEF Stores
  <2>3. CASE accounts' # accounts
    BY <1>17, <2>1, <2>3 DEF WriteAccount, Stores
  <2> QED BY <2>2, <2>3
<1>18. ASSUME NEW h \in Handlers, ProbeOK(h) PROVE Stores'
  BY <1>18, StoresSame DEF ProbeOK
<1>19. ASSUME NEW h \in Handlers, ProbeFails(h) PROVE Stores'
  BY <1>19, StoresSame DEF ProbeFails
<1>20. ASSUME NEW h \in Handlers, UndoProxy(h) PROVE Stores'
  BY <1>20, StoresSame DEF UndoProxy
<1>21. ASSUME NEW h \in Handlers, ApplySettings(h) PROVE Stores'
  BY <1>21, StoresSame DEF ApplySettings
<1>22. ASSUME NEW h \in Handlers, Breaks(h) PROVE Stores'
  BY <1>22, StoresSame DEF Breaks
<1>23. CASE UNCHANGED vars
  BY <1>23, StoresSame DEF vars
<1> QED
  BY <1>1, <1>2, <1>3, <1>4, <1>5, <1>6, <1>7, <1>8, <1>9, <1>10, <1>11, <1>12, <1>13,
     <1>14, <1>15, <1>16, <1>17, <1>18, <1>19, <1>20, <1>21, <1>22, <1>23
  DEF Next, Request, Step

-----------------------------------------------------------------------------
(* The theorems                                                            *)

\* The invariants hold at the start.
LEMMA InitInv == Init => TypeOK /\ IdsOK /\ Rows /\ RowsStay /\ Starting /\ Live /\ Stores
<1> SUFFICES ASSUME Init
             PROVE  TypeOK /\ IdsOK /\ Rows /\ RowsStay /\ Starting /\ Live /\ Stores
  OBVIOUS
<1>1. TypeOK
  BY DEF Init, TypeOK, HandOK
<1>2. IdsOK /\ Rows /\ RowsStay
  BY DEF Init, IdsOK, Rows, RowsStay
<1>3. Starting /\ Live
  BY DEF Init, Starting, Live
<1>4. Stores
  <2>1. Loaded(accounts) \in Seq(Users)
    BY <1>1, LoadedType DEF TypeOK
  <2>2. managers = <<>> /\ holder = <<>> /\ built = 0
    BY DEF Init
  <2> HIDE DEF Loaded
  <2> QED BY <2>1, <2>2 DEF Stores, Prefix
<1> QED
  BY <1>1, <1>2, <1>3, <1>4

\* The tables, the stores and what the handlers hold keep their types.
THEOREM Types == Spec => []TypeOK
<1>1. Init => TypeOK /\ Starting
  BY InitInv
<1>2. (TypeOK /\ Starting) /\ [Next]_vars => (TypeOK /\ Starting)'
  BY TypeStep, StartingStep
<1> QED
  BY <1>1, <1>2, PTL DEF Spec

\* The tables keep what the answers said of each row, by its id: the row of a
\* kept proxy and of an account stay until they are deleted, and a deleted row
\* never returns, whatever the starts read in .env.
THEOREM RowsFollowHolds == Spec => []RowsFollow
<1>1. Init => IdsOK /\ Rows /\ RowsStay
  BY InitInv
<1>2. TypeOK /\ (IdsOK /\ Rows /\ RowsStay) /\ [Next]_vars => (IdsOK /\ Rows /\ RowsStay)'
  BY IdsStep, RowsStep, RowsStayStep
<1>3. Rows /\ RowsStay => RowsFollow
  <2> SUFFICES ASSUME Rows, RowsStay PROVE RowsFollow
    OBVIOUS
  <2>1. \A i \in 1 .. lastAccount : i \in gone <=> ~\E r \in accounts : r.id = i
    BY DEF Rows, RowsStay
  <2> QED BY <2>1 DEF Rows, RowsFollow
<1> QED
  BY <1>1, <1>2, <1>3, Types, PTL DEF Spec

\* A stored setting that passes its check is live when no request is at it.
THEOREM LiveFollowsHolds == Spec => []LiveFollows
<1>1. Init => Starting /\ Live
  BY InitInv
<1>2. TypeOK /\ (Starting /\ Live) /\ [Next]_vars => (Starting /\ Live)'
  BY StartingStep, LiveStep
<1>3. Live => LiveFollows
  BY DEF Live, LiveFollows
<1> QED
  BY <1>1, <1>2, <1>3, Types, PTL DEF Spec

\* As long as accounts are only added through the API and those of .env stay as
\* they are, every account store keeps its account over all restarts.
THEOREM StoreIsolatedHolds == Spec => []StoreIsolated
<1>1. Init => IdsOK /\ Stores
  BY InitInv
<1>2. TypeOK /\ TypeOK' /\ (IdsOK /\ Stores) /\ [Next]_vars => (IdsOK /\ Stores)'
  BY IdsStep, StoresStep
<1>3. TypeOK /\ Stores => StoreIsolated
  <2> SUFFICES ASSUME TypeOK, Stores, ~edited, NEW i \in 1 .. built
               PROVE  holder[i] \in {None, managers[i]}
    BY DEF StoreIsolated
  <2>1. i \in 1 .. Len(holder) /\ i \in 1 .. Len(managers)
    BY DEF TypeOK, Stores
  <2>2. holder[i] \in {None, Loaded(accounts)[i]} /\ managers[i] = Loaded(accounts)[i]
    BY <2>1 DEF Stores, Prefix
  <2> QED BY <2>2
<1> QED
  BY <1>1, <1>2, <1>3, Types, PTL DEF Spec
=============================================================================
