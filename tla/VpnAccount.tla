----------------------------- MODULE VpnAccount -----------------------------
(***************************************************************************)
(* One ProtonVPN account: its session, server list, certificate and key in *)
(* the store, and the creators of containers that use them (SelectServer,  *)
(* GetCertificate, GetOrCreateKeyPair, called in this order by CreateEx).  *)
(*                                                                         *)
(* Creators of several goroutines run side by side.  certMu covers         *)
(* GetCertificate only.  Each statement of the store and each call of the  *)
(* API is a step that may fail, and the gateway may stop between any two.  *)
(* Time is abstract: a session lapses, the cached list expires and a       *)
(* certificate comes due and expires at any moment.                        *)
(***************************************************************************)
EXTENDS Integers, Sequences

CONSTANTS Creators,
          List,        \* the server list the API gives, a sequence of records
          Wishes,      \* what the pool may ask of SelectServer: countries that
                       \* are banned and servers to avoid
          MaxFaults,   \* bound: failures, revocations, restarts, ageings
          None

ASSUME NoneAssumption == None \notin Creators

ASSUME ListAssumption ==
  /\ Len(List) \in Nat /\ DOMAIN List = 1 .. Len(List)
  /\ \A n \in DOMAIN List : List[n].score \in Int /\ List[n].load \in Int

ASSUME MaxFaultsAssumption == MaxFaults \in Nat

VARIABLES
  mode,       \* how the account logs in: imported cookies or SRP credentials
  accepted,   \* the API accepts the imported cookies
  session,    \* the stored session: none, good, lapsed (too near its expiry) or
              \* revoked (within its time, but refused by the API)
  list,       \* the server list is cached and not expired
  edKey,      \* the stored Ed25519 key, 0 if none
  lastKey,    \* keys generated so far
  certs,      \* the stored certificates: key, server, age
  certMu,     \* who holds certMu
  pc,
  sess,       \* the session a creator read
  asked,      \* history: what a creator asked SelectServer for
  server,     \* the server it chose
  reqKey,     \* the key a creator asks a certificate for
  retried,    \* whether it regenerated the key
  cert,       \* the certificate GetCertificate returned to it
  wgKey,      \* the key its WireGuard configuration is derived from
  spoilt,     \* history: a certificate that was fresh but could not be read is
              \* being renewed, or its renewal came to no end
  disturbed,  \* history: the key was given up or replaced after it had its
              \* certificate, or the certificate is from a spoilt store
  faults

store == <<session, list, edKey, lastKey, certs, spoilt>>
local == <<sess, asked, server, reqKey, retried, cert, wgKey, disturbed>>
vars == <<mode, accepted, store, certMu, pc, local, faults>>

NoCert == [key |-> 0, server |-> None]

Init ==
  /\ mode \in {"cookies", "srp"}
  /\ accepted = TRUE
  /\ session = IF mode = "cookies" THEN "good" ELSE "none"
  /\ list = FALSE
  /\ edKey = 0
  /\ lastKey = 0
  /\ certs = <<>>
  /\ spoilt = FALSE
  /\ certMu = None
  /\ pc = [c \in Creators |-> "idle"]
  /\ sess = [c \in Creators |-> "none"]
  /\ asked = [c \in Creators |-> None]
  /\ server = [c \in Creators |-> None]
  /\ reqKey = [c \in Creators |-> 0]
  /\ retried = [c \in Creators |-> FALSE]
  /\ cert = [c \in Creators |-> NoCert]
  /\ wgKey = [c \in Creators |-> 0]
  /\ disturbed = [c \in Creators |-> FALSE]
  /\ faults = 0

At(c, from, to) == pc[c] = from /\ pc' = [pc EXCEPT ![c] = to]

Fault == faults < MaxFaults /\ faults' = faults + 1

\* The local variables of a call that has returned are gone.
Forget(c) ==
  /\ sess' = [sess EXCEPT ![c] = "none"]
  /\ asked' = [asked EXCEPT ![c] = None]
  /\ server' = [server EXCEPT ![c] = None]
  /\ reqKey' = [reqKey EXCEPT ![c] = 0]
  /\ retried' = [retried EXCEPT ![c] = FALSE]
  /\ cert' = [cert EXCEPT ![c] = NoCert]
  /\ wgKey' = [wgKey EXCEPT ![c] = 0]
  /\ disturbed' = [disturbed EXCEPT ![c] = FALSE]

\* An error return of CreateEx; the deferred unlock releases certMu.
Fail(c) ==
  /\ pc' = [pc EXCEPT ![c] = "failed"]
  /\ certMu' = IF certMu = c THEN None ELSE certMu
  /\ Forget(c)

-----------------------------------------------------------------------------
(* SelectServer                                                            *)

\* The region CreateEx asks for: none, whatever PROTONVPN_REGIONS says.
Region == None

\* A country that is the region, if one is asked for, and not banned, and a
\* logical and a physical server online.
Eligible(s, banned) ==
  (Region = None \/ s.country = Region) /\ s.country \notin banned /\ s.up

\* Candidates are places in the list: the slice of the code keeps its order.
Candidates(banned, avoid) ==
  {n \in DOMAIN List : Eligible(List[n], banned) /\ List[n].name \notin avoid}

\* Mutant: the second pass gives up the bans as well.
FallbackUnbanned(banned) == {n \in DOMAIN List : List[n].up}

\* The second pass, when every candidate was to be avoided.
Fallback(banned) == {n \in DOMAIN List : Eligible(List[n], banned)}

Better(s, t) == s.score > t.score \/ (s.score = t.score /\ s.load < t.load)

\* The candidate that is best after those up to place n have been looked at;
\* 0 as long as there was none.
BestUpTo(places) ==
  LET best[n \in 0 .. Len(List)] ==
        IF n = 0 THEN 0
        ELSE IF n \in places /\ (best[n - 1] = 0 \/ Better(List[n], List[best[n - 1]]))
             THEN n ELSE best[n - 1]
  IN  best

Best(places) == BestUpTo(places)[Len(List)]

SelectServer(banned, avoid) ==
  LET first == Candidates(banned, avoid)
      found == IF first = {} /\ avoid # {} THEN Fallback(banned) ELSE first
  IN  IF found = {} THEN None ELSE List[Best(found)].name

Selection == [w \in Wishes |-> SelectServer(w.banned, w.avoid)]

-----------------------------------------------------------------------------
(* FetchServerList and the selection                                       *)

\* GetServerList; a list that cannot be read is fetched.
Begin(c) ==
  /\ \/ list /\ At(c, "idle", "select") /\ UNCHANGED faults
     \/ ~list /\ At(c, "idle", "ensure") /\ UNCHANGED faults
     \/ list /\ At(c, "idle", "ensure") /\ Fault
  /\ UNCHANGED <<mode, accepted, store, certMu, local>>

\* Mutant: a refused session is kept.
FetchRefusedKeeps(c) ==
  /\ pc[c] = "fetch"
  /\ sess[c] = "revoked"
  /\ Fail(c)
  /\ UNCHANGED <<mode, accepted, store, faults>>

\* 401: the stored session is deleted, whichever it is by now; if that fails
\* nobody is told.
FetchRefused(c) ==
  /\ pc[c] = "fetch"
  /\ sess[c] = "revoked"
  /\ \/ session' = "none" /\ UNCHANGED faults
     \/ Fault /\ UNCHANGED session
  /\ Fail(c)
  /\ UNCHANGED <<mode, accepted, list, edKey, lastKey, certs, spoilt>>

\* The list arrives and is cached; if caching fails it is used all the same.
Fetch(c) ==
  /\ sess[c] # "revoked"
  /\ At(c, "fetch", "select")
  /\ \/ list' = TRUE /\ UNCHANGED faults
     \/ Fault /\ UNCHANGED list
  /\ sess' = [sess EXCEPT ![c] = "none"]
  /\ UNCHANGED <<mode, accepted, session, edKey, lastKey, certs, spoilt, certMu, asked,
                 server, reqKey, retried, cert, wgKey, disturbed>>

Select(c, w) ==
  /\ pc[c] = "select"
  /\ IF Selection[w] = None
     THEN Fail(c)
     ELSE /\ At(c, "select", "lock")
          /\ asked' = [asked EXCEPT ![c] = w]
          /\ server' = [server EXCEPT ![c] = Selection[w]]
          /\ UNCHANGED <<certMu, sess, reqKey, retried, cert, wgKey, disturbed>>
  /\ UNCHANGED <<mode, accepted, store, faults>>

-----------------------------------------------------------------------------
(* EnsureSession, called by FetchServerList and by GetCertificate          *)

InTime == session \in {"good", "revoked"}

\* A session that is within its time is taken as it is with credentials, and
\* tried out with cookies.
Ensure(c) ==
  /\ InTime
  /\ At(c, "ensure", IF mode = "srp" THEN "use" ELSE "validate")
  /\ UNCHANGED <<mode, accepted, store, certMu, local, faults>>

\* None that is within its time, or none that can be read.
EnsureAnew(c) ==
  /\ \/ ~InTime /\ UNCHANGED faults
     \/ InTime /\ Fault
  /\ At(c, "ensure", IF mode = "srp" THEN "login" ELSE "import")
  /\ UNCHANGED <<mode, accepted, store, certMu, local>>

\* validateSession; any failure of the call counts as a refusal.
Validate(c) ==
  /\ \/ accepted /\ At(c, "validate", "use") /\ UNCHANGED faults
     \/ ~accepted /\ At(c, "validate", "import") /\ UNCHANGED faults
     \/ Fault /\ At(c, "validate", "import")
  /\ UNCHANGED <<mode, accepted, store, certMu, local>>

\* ImportBrowserCookies stores the same cookies with a new time.
Import(c) ==
  /\ At(c, "import", "recheck")
  /\ session' = IF accepted THEN "good" ELSE "revoked"
  /\ UNCHANGED <<mode, accepted, list, edKey, lastKey, certs, spoilt, certMu, local, faults>>

Recheck(c) ==
  /\ accepted
  /\ session # "none"
  /\ At(c, "recheck", "use")
  /\ UNCHANGED <<mode, accepted, store, certMu, local, faults>>

RecheckRefused(c) ==
  /\ pc[c] = "recheck"
  /\ ~accepted \/ session = "none"
  /\ Fail(c)
  /\ UNCHANGED <<mode, accepted, store, faults>>

Login(c) ==
  /\ At(c, "login", "save")
  /\ sess' = [sess EXCEPT ![c] = "good"]
  /\ UNCHANGED <<mode, accepted, store, certMu, asked, server, reqKey, retried, cert, wgKey,
                 disturbed, faults>>

\* SetCredentials and SetSession.
SaveSession(c) ==
  /\ At(c, "save", "use")
  /\ session' = sess[c]
  /\ UNCHANGED <<mode, accepted, list, edKey, lastKey, certs, spoilt, certMu, local, faults>>

\* GetSession after EnsureSession: another creator may have deleted it.
UseSession(c) ==
  /\ session # "none"
  /\ At(c, "use", IF certMu = c THEN "key" ELSE "fetch")
  /\ sess' = [sess EXCEPT ![c] = session]
  /\ UNCHANGED <<mode, accepted, store, certMu, asked, server, reqKey, retried, cert, wgKey,
                 disturbed, faults>>

NoSession(c) ==
  /\ pc[c] = "use"
  /\ session = "none"
  /\ Fail(c)
  /\ UNCHANGED <<mode, accepted, store, faults>>

-----------------------------------------------------------------------------
(* GetCertificate                                                          *)

\* Mutant: without certMu.
CertLockNot(c) ==
  /\ At(c, "lock", "cert")
  /\ certMu' = c
  /\ asked' = [asked EXCEPT ![c] = None]
  /\ UNCHANGED <<mode, accepted, store, sess, server, reqKey, retried, cert, wgKey, disturbed,
                 faults>>

CertLock(c) ==
  /\ certMu = None
  /\ At(c, "lock", "cert")
  /\ certMu' = c
  /\ asked' = [asked EXCEPT ![c] = None]
  /\ UNCHANGED <<mode, accepted, store, sess, server, reqKey, retried, cert, wgKey, disturbed,
                 faults>>

\* The most recent certificate that has not expired, as its place in certs.
Latest == {i \in DOMAIN certs : /\ certs[i].age # "expired"
                                /\ \A j \in DOMAIN certs : j > i => certs[j].age = "expired"}

Returns(c, k, s) ==
  /\ cert' = [cert EXCEPT ![c] = [key |-> k, server |-> s]]
  /\ certMu' = None

\* The stored certificate, whatever server it was requested for.
CertCached(c) ==
  /\ At(c, "cert", "pair")
  /\ \E i \in Latest : /\ certs[i].age = "fresh"
                       /\ Returns(c, certs[i].key, certs[i].server)
  /\ disturbed' = [disturbed EXCEPT ![c] = spoilt]
  /\ UNCHANGED <<mode, accepted, store, sess, asked, server, reqKey, retried, wgKey, faults>>

CertMissing(c) ==
  /\ \A i \in Latest : certs[i].age # "fresh"
  /\ At(c, "cert", "ensure")
  /\ UNCHANGED <<mode, accepted, store, certMu, local, faults>>

\* The store has a fresh certificate and fails to read it: none, to the code.
CertUnread(c) ==
  /\ \E i \in Latest : certs[i].age = "fresh"
  /\ Fault
  /\ At(c, "cert", "ensure")
  /\ spoilt' = TRUE
  /\ UNCHANGED <<mode, accepted, session, list, edKey, lastKey, certs, certMu, local>>

\* The key is no longer what the creators between GetCertificate and
\* GetOrCreateKeyPair got their certificates for.
Disturb == disturbed' = [d \in Creators |-> disturbed[d] \/ pc[d] = "pair"]

\* GetOrCreateEd25519Key finds the key.
Key(c) ==
  /\ edKey # 0
  /\ At(c, "key", "request")
  /\ reqKey' = [reqKey EXCEPT ![c] = edKey]
  /\ UNCHANGED <<mode, accepted, store, certMu, sess, asked, server, retried, cert, wgKey,
                 disturbed, faults>>

\* It finds none, or cannot read the one there is: a new key takes its place.
KeyNew(c) ==
  /\ \/ edKey = 0 /\ UNCHANGED faults
     \/ edKey # 0 /\ Fault
  /\ At(c, "key", "request")
  /\ lastKey' = lastKey + 1
  /\ edKey' = lastKey'
  /\ reqKey' = [reqKey EXCEPT ![c] = lastKey']
  /\ Disturb
  /\ UNCHANGED <<mode, accepted, session, list, certs, spoilt, certMu, sess, asked, server,
                 retried, cert, wgKey>>

Request(c) ==
  /\ sess[c] # "revoked"
  /\ At(c, "request", "store")
  /\ UNCHANGED <<mode, accepted, store, certMu, local, faults>>

RequestRefused(c) ==
  /\ pc[c] = "request"
  /\ sess[c] = "revoked"
  /\ Fail(c)
  /\ UNCHANGED <<mode, accepted, store, faults>>

\* The API knows the key already; the first time the key is given up.
Conflict(c) ==
  /\ ~retried[c]
  /\ sess[c] # "revoked"
  /\ Fault
  /\ At(c, "request", "regenerate")
  /\ UNCHANGED <<mode, accepted, store, certMu, local>>

\* DeleteEd25519Key; a creator that has its certificate reads the key later.
Regenerate(c) ==
  /\ At(c, "regenerate", "key")
  /\ edKey' = 0
  /\ retried' = [retried EXCEPT ![c] = TRUE]
  /\ Disturb
  /\ UNCHANGED <<mode, accepted, session, list, lastKey, certs, spoilt, certMu, sess, asked,
                 server, reqKey, cert, wgKey, faults>>

\* Mutant: the retry's answer is lost in a variable of the inner block, and the
\* certificate that was due goes on.
SetCertificateShadowed(c) ==
  /\ At(c, "store", "pair")
  /\ LET new == [key |-> reqKey[c], server |-> server[c], age |-> "fresh"]
         old == {certs[i] : i \in {j \in Latest : retried[c] /\ certs[j].age = "due"}}
     IN  \E x \in IF old = {} THEN {new} ELSE old :
           /\ certs' = Append(certs, x)
           /\ Returns(c, x.key, x.server)
  /\ spoilt' = FALSE
  /\ sess' = [sess EXCEPT ![c] = "none"]
  /\ reqKey' = [reqKey EXCEPT ![c] = 0]
  /\ retried' = [retried EXCEPT ![c] = FALSE]
  /\ UNCHANGED <<mode, accepted, session, list, edKey, lastKey, asked, server, wgKey,
                 disturbed, faults>>

SetCertificate(c) ==
  /\ At(c, "store", "pair")
  /\ certs' = Append(certs, [key |-> reqKey[c], server |-> server[c],
                             age |-> "fresh"])
  /\ spoilt' = FALSE
  /\ Returns(c, reqKey[c], server[c])
  /\ sess' = [sess EXCEPT ![c] = "none"]
  /\ reqKey' = [reqKey EXCEPT ![c] = 0]
  /\ retried' = [retried EXCEPT ![c] = FALSE]
  /\ UNCHANGED <<mode, accepted, session, list, edKey, lastKey, asked, server, wgKey,
                 disturbed, faults>>

-----------------------------------------------------------------------------

\* GetOrCreateKeyPair, after certMu has been released.
KeyPair(c) ==
  /\ edKey # 0
  /\ At(c, "pair", "ok")
  /\ wgKey' = [wgKey EXCEPT ![c] = edKey]
  /\ UNCHANGED <<mode, accepted, store, certMu, sess, asked, server, reqKey, retried, cert,
                 disturbed, faults>>

NoKeyPair(c) ==
  /\ pc[c] = "pair"
  /\ edKey = 0
  /\ Fail(c)
  /\ UNCHANGED <<mode, accepted, store, faults>>

\* A statement of the store or a call of the API fails and ends the creation.
\* At "key" it is the new key that cannot be stored; reads that fail there, at
\* "ensure" and at "cert" are EnsureAnew, CertUnread and KeyNew.
Breaks(c) ==
  /\ pc[c] \in {"fetch", "import", "recheck", "login", "save", "use", "key", "request",
                "regenerate", "store", "pair"}
  /\ Fault
  /\ Fail(c)
  /\ UNCHANGED <<mode, accepted, store>>

\* The pool calls again, at the latest at its next health check.
Again(c) ==
  /\ pc[c] \in {"ok", "failed"}
  /\ pc' = [pc EXCEPT ![c] = "idle"]
  /\ Forget(c)
  /\ UNCHANGED <<mode, accepted, store, certMu, faults>>

-----------------------------------------------------------------------------
(* The passing of time, the API and the machine                            *)

Older(age) == IF age = "fresh" THEN "due" ELSE "expired"

ListExpires ==
  /\ list
  /\ list' = FALSE
  /\ UNCHANGED <<mode, accepted, session, edKey, lastKey, certs, spoilt, certMu, pc, local, faults>>

Lapse ==
  /\ session \in {"good", "revoked"}
  /\ Fault
  /\ session' = "lapsed"
  /\ UNCHANGED <<mode, accepted, list, edKey, lastKey, certs, spoilt, certMu, pc, local>>

\* The API ends all sessions of the account.
Revoke ==
  /\ session = "good"
  /\ Fault
  /\ session' = "revoked"
  /\ accepted' = FALSE
  /\ sess' = [c \in Creators |-> IF sess[c] = "none" THEN "none" ELSE "revoked"]
  /\ UNCHANGED <<mode, list, edKey, lastKey, certs, spoilt, certMu, pc, asked, server, reqKey,
                 retried, cert, wgKey, disturbed>>

\* The refresh time of a certificate passes, or it expires.  The API issues all
\* for the same time, so none does before one that is older.
CertAges ==
  /\ Fault
  /\ \E i \in DOMAIN certs :
       /\ certs[i].age # "expired"
       /\ \A j \in DOMAIN certs : j < i => certs[j].age \in {Older(certs[i].age), "expired"}
       /\ certs' = [certs EXCEPT ![i].age = Older(@)]
  /\ UNCHANGED <<mode, accepted, session, list, edKey, lastKey, spoilt, certMu, pc, local>>

\* The gateway stops and starts: the store stays.
Restart ==
  /\ Fault
  /\ pc' = [c \in Creators |-> "idle"]
  /\ certMu' = None
  /\ sess' = [c \in Creators |-> "none"]
  /\ asked' = [c \in Creators |-> None]
  /\ server' = [c \in Creators |-> None]
  /\ reqKey' = [c \in Creators |-> 0]
  /\ retried' = [c \in Creators |-> FALSE]
  /\ cert' = [c \in Creators |-> NoCert]
  /\ wgKey' = [c \in Creators |-> 0]
  /\ disturbed' = [c \in Creators |-> FALSE]
  /\ UNCHANGED <<mode, accepted, store>>

Step(c) ==
  \/ Begin(c) \/ FetchRefused(c) \/ Fetch(c)
  \/ \E w \in Wishes : Select(c, w)
  \/ Ensure(c) \/ EnsureAnew(c) \/ Validate(c) \/ Import(c) \/ Recheck(c) \/ RecheckRefused(c)
  \/ Login(c) \/ SaveSession(c) \/ UseSession(c) \/ NoSession(c)
  \/ CertLock(c) \/ CertCached(c) \/ CertMissing(c) \/ Key(c) \/ KeyNew(c)
  \/ Request(c) \/ RequestRefused(c) \/ Regenerate(c) \/ SetCertificate(c)
  \/ KeyPair(c) \/ NoKeyPair(c) \/ Again(c)

Unbanned(c) == \E w \in Wishes : w.banned = {} /\ Select(c, w)

Next ==
  \/ \E c \in Creators : Step(c) \/ CertUnread(c) \/ Conflict(c) \/ Breaks(c)
  \/ ListExpires \/ Lapse \/ Revoke \/ CertAges \/ Restart

Spec == Init /\ [][Next]_vars

\* Creators run on and are called again; an hour after its fetch the list has
\* expired; bans end, so that now and then a creator is called without any.
FairSpec ==
  /\ Spec
  /\ \A c \in Creators : WF_vars(Step(c)) /\ SF_vars(Unbanned(c))
  /\ WF_vars(ListExpires)

-----------------------------------------------------------------------------
(* Properties                                                              *)

Servers == {List[n].name : n \in DOMAIN List} \cup {None}

TypeOK ==
  /\ mode \in {"cookies", "srp"} /\ accepted \in BOOLEAN
  /\ session \in {"none", "good", "lapsed", "revoked"}
  /\ list \in BOOLEAN /\ spoilt \in BOOLEAN
  /\ edKey \in Nat /\ lastKey \in Nat
  /\ certs \in Seq([key : Nat, server : Servers, age : {"fresh", "due", "expired"}])
  /\ certMu \in Creators \cup {None}
  /\ pc \in [Creators -> {"idle", "ensure", "validate", "import", "recheck", "login", "save",
                           "use", "fetch", "select", "lock", "cert", "key", "request",
                           "regenerate", "store", "pair", "ok", "failed"}]
  /\ sess \in [Creators -> {"none", "good", "lapsed", "revoked"}]
  /\ asked \in [Creators -> Wishes \cup {None}]
  /\ server \in [Creators -> Servers]
  /\ reqKey \in [Creators -> Nat] /\ wgKey \in [Creators -> Nat]
  /\ retried \in [Creators -> BOOLEAN] /\ disturbed \in [Creators -> BOOLEAN]
  /\ cert \in [Creators -> [key : Nat, server : Servers]]
  /\ faults \in 0 .. MaxFaults

\* The certificate that GetCertificate hands out from the store was issued for
\* the key that is in the store, whatever failed, raced or crashed before.  The
\* exception is a fresh certificate that once could not be read: its key may be
\* replaced or deleted, and until the renewal comes to its end the store holds
\* the one and not the other.
FreshMatches ==
  ~spoilt => \A i \in Latest : certs[i].age = "fresh" => certs[i].key = edKey

\* "Derive WireGuard X25519 keypair from Ed25519 certificate key": the key of a
\* container is the key of its certificate, unless another creator replaced
\* the key between the two reads (a conflict, or a read that failed), or the
\* certificate is one that FreshMatches excepts.
KeyMatches ==
  \A c \in Creators : pc[c] = "ok" /\ ~disturbed[c] => wgKey[c] = cert[c].key

\* The same without exceptions.
KeyMatchesAlways ==
  \A c \in Creators : pc[c] = "ok" => wgKey[c] = cert[c].key

\* SelectServer: never a banned country or a server that is down; a server to
\* avoid only when there is no other; and the best of these, the first if
\* several are equal.  Any country will do, as CreateEx asks for no region.
SelectsBest ==
  \A c \in Creators : pc[c] = "lock" =>
    LET p == asked[c]
        ok == {i \in DOMAIN List : List[i].up /\ List[i].country \notin p.banned}
        wanted == {i \in ok : List[i].name \notin p.avoid}
        from == IF wanted = {} THEN ok ELSE wanted
    IN  \E i \in from : /\ server[c] = List[i].name
                        /\ \A j \in from : ~Better(List[j], List[i])
                        /\ \A j \in from : j < i => Better(List[i], List[j])

\* "region must be within PROTONVPN_REGIONS": the regions are configured
\* and never asked for.
WithinRegions(regions) ==
  \A c \in Creators : pc[c] = "lock" =>
    \E n \in DOMAIN List : List[n].name = server[c] /\ List[n].country \in regions

\* A fresh certificate whose key was deleted: GetCertificate is content with it
\* and GetOrCreateKeyPair fails, until its refresh time.
KeyLost == edKey = 0 /\ \E i \in Latest : certs[i].age = "fresh"

\* An account with credentials works again after the last failure, revocation
\* or restart: a revoked session is found out when the list is next fetched.
\* It does not while a fresh certificate has lost its key.
Recovers == mode = "srp" => []<>(KeyLost \/ \E c \in Creators : pc[c] = "ok")

\* The server a container dials is the one that was selected for it.  It is
\* not: the endpoint is the peer of the certificate in the store.
DialsSelected ==
  \A c \in Creators : pc[c] = "ok" => cert[c].server = server[c]
=============================================================================
