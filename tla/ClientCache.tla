---------------------------- MODULE ClientCache ----------------------------
(***************************************************************************)
(* The two caches of per-proxy HTTP clients: httpCache of the upstream     *)
(* client, under a sync.RWMutex (getClient), and wsClients of the handler, *)
(* under a sync.Mutex (wsFor).  Both are keyed by the id of a proxy and    *)
(* never evicted.  A request calls getClient for the proxy it holds, and   *)
(* wsFor when it runs a web search.                                        *)
(*                                                                         *)
(* A request holds a pointer to its proxy, hence the address the proxy had *)
(* when it was acquired; AddExternalProxy may meanwhile put a proxy of     *)
(* another address under the same id.                                      *)
(***************************************************************************)
EXTENDS Naturals, FiniteSets

CONSTANTS Calls,   \* requests, each calls getClient once and wsFor at most once
          Ids,     \* ids of proxies
          ExtId,   \* the id AddExternalProxy gives
          Addrs,   \* SOCKS5 addresses
          InitAddr,\* the proxies of the pool at the start
          None

ASSUME NoneAssumption == None \notin Ids

ASSUME InitAddrAssumption == InitAddr \in [Ids -> Addrs]

VARIABLES
  addr,       \* the address of the proxy that is in the pool under each id
  past,       \* history: the addresses an id has had
  px,         \* the proxy a request holds: its id and address, or nil
  pc,         \* where a request is
  httpCache,  \* Client.httpCache
  got,        \* what getClient returned
  wsClients,  \* Handler.wsClients
  wsGot       \* the client of the service wsFor returned

vars == <<addr, past, px, pc, httpCache, got, wsClients, wsGot>>

\* A client is known by the request that built it, and dials one address.
Clients == [by : Calls, addr : Addrs]

Proxy == [id : Ids \cup {None}, addr : Addrs \cup {None}]

NilProxy == [id |-> None, addr |-> None]

NewClient(c) == [by |-> c, addr |-> px[c].addr]

At(c, from, to) == pc[c] = from /\ pc' = [pc EXCEPT ![c] = to]

Init ==
  /\ addr = InitAddr
  /\ past = [i \in Ids |-> {InitAddr[i]}]
  /\ px = [c \in Calls |-> NilProxy]
  /\ pc = [c \in Calls |-> "idle"]
  /\ httpCache = [i \in Ids |-> None]
  /\ got = [c \in Calls |-> None]
  /\ wsClients = [i \in Ids |-> None]
  /\ wsGot = [c \in Calls |-> None]

-----------------------------------------------------------------------------
(* The pool.                                                               *)

\* A request is given a proxy of the pool.
Acquire(c, i) ==
  /\ At(c, "idle", "rlock")
  /\ px' = [px EXCEPT ![c] = [id |-> i, addr |-> addr[i]]]
  /\ UNCHANGED <<addr, past, httpCache, got, wsClients, wsGot>>

\* A request goes on without a proxy: the retry loop that found no fresh one
\* after a transport failure calls the provider with nil.
AcquireNil(c) ==
  /\ At(c, "idle", "rlock")
  /\ UNCHANGED <<addr, past, px, httpCache, got, wsClients, wsGot>>

\* AddExternalProxy numbers the proxies of a manager made for one address, so
\* that every added proxy takes the same id, and replaces the entry.
\* Bound: an address is added once.
AddExternalProxy(a) ==
  /\ \A i \in Ids : a \notin past[i]
  /\ addr' = [addr EXCEPT ![ExtId] = a]
  /\ past' = [past EXCEPT ![ExtId] = @ \cup {a}]
  /\ UNCHANGED <<px, pc, httpCache, got, wsClients, wsGot>>

-----------------------------------------------------------------------------
(* sync.RWMutex: an announced writer lets no new reader in, waits for the   *)
(* readers that are in, and lets in on Unlock all that came meanwhile.      *)

\* "dead": the panic left the function between RLock and RUnlock.
Reading(c) == pc[c] \in {"look", "dead"}

Writing(c) == pc[c] \in {"drain", "check", "store", "unlock"}

\* Mutant: the first look without the lock.
RLockNot(c) ==
  /\ At(c, "rlock", "look")
  /\ UNCHANGED <<addr, past, px, httpCache, got, wsClients, wsGot>>

RLock(c) ==
  /\ pc[c] = "rlock"
  /\ pc' = [pc EXCEPT ![c] = IF \E d \in Calls : Writing(d) THEN "rwait" ELSE "look"]
  /\ UNCHANGED <<addr, past, px, httpCache, got, wsClients, wsGot>>

\* Lock, first half: one writer at a time announces itself.
Announce(c) ==
  /\ \A d \in Calls : ~Writing(d)
  /\ At(c, "lock", "drain")
  /\ UNCHANGED <<addr, past, px, httpCache, got, wsClients, wsGot>>

\* Lock, second half: the readers are gone.
Lock(c) ==
  /\ \A d \in Calls : ~Reading(d)
  /\ At(c, "drain", "check")
  /\ UNCHANGED <<addr, past, px, httpCache, got, wsClients, wsGot>>

\* Mutant: the early return of the second look keeps the lock.
UnlockAfterStore(c) ==
  /\ pc[c] = "unlock"
  /\ got[c].by = c
  /\ pc' = [d \in Calls |-> IF d = c THEN "got"
                            ELSE IF pc[d] = "rwait" THEN "look" ELSE pc[d]]
  /\ UNCHANGED <<addr, past, px, httpCache, got, wsClients, wsGot>>

Unlock(c) ==
  /\ pc[c] = "unlock"
  /\ pc' = [d \in Calls |-> IF d = c THEN "got"
                            ELSE IF pc[d] = "rwait" THEN "look" ELSE pc[d]]
  /\ UNCHANGED <<addr, past, px, httpCache, got, wsClients, wsGot>>

-----------------------------------------------------------------------------
(* getClient                                                               *)

\* p.ID of a nil proxy panics with the read lock held; net/http recovers the
\* goroutine, nobody releases the lock.
LookNil(c) ==
  /\ px[c] = NilProxy
  /\ At(c, "look", "dead")
  /\ UNCHANGED <<addr, past, px, httpCache, got, wsClients, wsGot>>

LookHit(c) ==
  /\ At(c, "look", "got")
  /\ px[c] # NilProxy
  /\ httpCache[px[c].id] # None
  /\ got' = [got EXCEPT ![c] = httpCache[px[c].id]]
  /\ UNCHANGED <<addr, past, px, httpCache, wsClients, wsGot>>

LookMiss(c) ==
  /\ At(c, "look", "build")
  /\ px[c] # NilProxy
  /\ httpCache[px[c].id] = None
  /\ UNCHANGED <<addr, past, px, httpCache, got, wsClients, wsGot>>

\* NewSOCKS5Dialer and the transport around it; the dialer may be refused.
Build(c) ==
  /\ \/ At(c, "build", "lock")
     \/ At(c, "build", "failed")
  /\ UNCHANGED <<addr, past, px, httpCache, got, wsClients, wsGot>>

\* Mutant: no second look under the write lock.
CheckNot(c) ==
  /\ At(c, "check", "store")
  /\ UNCHANGED <<addr, past, px, httpCache, got, wsClients, wsGot>>

\* The second look: another request may have built the client.
Check(c) ==
  /\ \/ /\ At(c, "check", "unlock")
        /\ httpCache[px[c].id] # None
        /\ got' = [got EXCEPT ![c] = httpCache[px[c].id]]
     \/ /\ At(c, "check", "store")
        /\ httpCache[px[c].id] = None
        /\ UNCHANGED got
  /\ UNCHANGED <<addr, past, px, httpCache, wsClients, wsGot>>

Store(c) ==
  /\ At(c, "store", "unlock")
  /\ httpCache' = [httpCache EXCEPT ![px[c].id] = NewClient(c)]
  /\ got' = [got EXCEPT ![c] = NewClient(c)]
  /\ UNCHANGED <<addr, past, px, wsClients, wsGot>>

-----------------------------------------------------------------------------
(* wsFor                                                                   *)

WsHolding(c) == pc[c] \in {"wscheck", "wsunlock"}

\* The tool is off for this request, or there is no tool round.
WsOff(c) ==
  /\ At(c, "got", "done")
  /\ UNCHANGED <<addr, past, px, httpCache, got, wsClients, wsGot>>

WsFor(c) ==
  /\ At(c, "got", "wslock")
  /\ UNCHANGED <<addr, past, px, httpCache, got, wsClients, wsGot>>

WsLock(c) ==
  /\ \A d \in Calls : ~WsHolding(d)
  /\ At(c, "wslock", "wscheck")
  /\ UNCHANGED <<addr, past, px, httpCache, got, wsClients, wsGot>>

WsHit(c) ==
  /\ At(c, "wscheck", "wsunlock")
  /\ wsClients[px[c].id] # None
  /\ wsGot' = [wsGot EXCEPT ![c] = wsClients[px[c].id]]
  /\ UNCHANGED <<addr, past, px, httpCache, got, wsClients>>

\* Mutant: the client of the search is kept for every proxy.
WsBuildForAll(c) ==
  /\ At(c, "wscheck", "wsunlock")
  /\ wsClients[px[c].id] = None
  /\ wsClients' = [i \in Ids |-> NewClient(c)]
  /\ wsGot' = [wsGot EXCEPT ![c] = NewClient(c)]
  /\ UNCHANGED <<addr, past, px, httpCache, got>>

\* The dialer is built under the mutex and entered.
WsBuild(c) ==
  /\ At(c, "wscheck", "wsunlock")
  /\ wsClients[px[c].id] = None
  /\ wsClients' = [wsClients EXCEPT ![px[c].id] = NewClient(c)]
  /\ wsGot' = [wsGot EXCEPT ![c] = NewClient(c)]
  /\ UNCHANGED <<addr, past, px, httpCache, got>>

\* Or it is refused: the mutex is released and the answer is nil.
WsRefused(c) ==
  /\ At(c, "wscheck", "done")
  /\ wsClients[px[c].id] = None
  /\ UNCHANGED <<addr, past, px, httpCache, got, wsClients, wsGot>>

WsUnlock(c) ==
  /\ At(c, "wsunlock", "done")
  /\ UNCHANGED <<addr, past, px, httpCache, got, wsClients, wsGot>>

-----------------------------------------------------------------------------

\* The steps a request takes by itself once it has called.
Step(c) ==
  \/ RLock(c) \/ LookNil(c) \/ LookHit(c) \/ LookMiss(c) \/ Build(c)
  \/ Announce(c) \/ Lock(c) \/ Check(c) \/ Store(c) \/ Unlock(c)
  \/ WsLock(c) \/ WsHit(c) \/ WsBuild(c) \/ WsRefused(c) \/ WsUnlock(c)

Call(c) == AcquireNil(c) \/ WsOff(c) \/ WsFor(c) \/ \E i \in Ids : Acquire(c, i)

Next == \/ \E c \in Calls : Call(c) \/ Step(c)
        \/ \E a \in Addrs : AddExternalProxy(a)

Spec == Init /\ [][Next]_vars

\* A goroutine that can go on does: the Go scheduler is fair, and both mutexes
\* hand over to whoever waits.
FairSpec == Spec /\ \A c \in Calls : WF_vars(Step(c))

-----------------------------------------------------------------------------
(* Properties                                                              *)

TypeOK ==
  /\ addr \in [Ids -> Addrs]
  /\ past \in [Ids -> SUBSET Addrs]
  /\ px \in [Calls -> Proxy]
  /\ pc \in [Calls -> {"idle", "rlock", "rwait", "look", "dead", "build", "failed",
                       "lock", "drain", "check", "store", "unlock", "got",
                       "wslock", "wscheck", "wsunlock", "done"}]
  /\ httpCache \in [Ids -> Clients \cup {None}]
  /\ got \in [Calls -> Clients \cup {None}]
  /\ wsClients \in [Ids -> Clients \cup {None}]
  /\ wsGot \in [Calls -> Clients \cup {None}]

\* The map of httpCache is never written beside a reader or a second writer
\* (the Go runtime ends the process when it is).
NoMapRace ==
  \A c \in Calls : pc[c] = "store" =>
    \A d \in Calls \ {c} : pc[d] \notin {"look", "check", "store"}

\* Both caches keep what Memo promises: every call of getClient, and every
\* call of wsFor, takes effect at one instant, and an entry is never replaced.
Http == INSTANCE Memo WITH Keys <- Ids, memo <- httpCache,
                           key <- [c \in Calls |-> px[c].id], result <- got

Search == INSTANCE Memo WITH Keys <- Ids, memo <- wsClients,
                             key <- [c \in Calls |-> px[c].id], result <- wsGot

Memos == Http!Spec /\ Search!Spec

\* "getClient returns an HTTP client configured with the given proxy", and
\* wsFor one "bound to the given proxy's egress tunnel": so it is as long as
\* the id has not been given to a proxy of another address.
DialsItsProxy ==
  \A c \in Calls : px[c] # NilProxy /\ past[px[c].id] = {px[c].addr} =>
    /\ got[c] # None => got[c].addr = px[c].addr
    /\ wsGot[c] # None => wsGot[c].addr = px[c].addr

\* The comments without the exception.  AddExternalProxy breaks it.
DialsAlways ==
  \A c \in Calls : got[c] # None => got[c].addr = px[c].addr

\* Every call returns, unless a request died with the read lock and a writer
\* waits for it; then everyone hangs.
CallsReturn ==
  \A c \in Calls :
    pc[c] = "rlock" ~> \/ pc[c] \in {"got", "wslock", "done", "failed", "dead"}
                       \/ \E d, e \in Calls : pc[d] = "dead" /\ pc[e] = "drain"
=============================================================================
