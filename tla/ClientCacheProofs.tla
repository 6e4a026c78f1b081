------------------------- MODULE ClientCacheProofs -------------------------
(***************************************************************************)
(* Proofs about ClientCache for any number of requests, proxies and        *)
(* addresses: types, no unsynchronised access to the map, that both caches *)
(* implement Memo, and which address a client dials.                       *)
(***************************************************************************)
EXTENDS ClientCache, TLAPS

\* A request that has been through Look holds a proxy; before Acquire it does not.
Held ==
  \A c \in Calls :
    /\ pc[c] = "idle" => px[c].id = None
    /\ pc[c] \notin {"idle", "rlock", "rwait", "look", "dead"} => px[c].id \in Ids
    /\ px[c] # NilProxy => px[c].id \in Ids /\ px[c].addr \in Addrs
    /\ px[c].id \in Ids => px[c].addr \in Addrs

\* The lock: one writer, and no reader beside one that has drained them.
Locked ==
  \A c, d \in Calls :
    /\ Writing(c) /\ Writing(d) => c = d
    /\ pc[c] \in {"check", "store", "unlock"} => ~Reading(d)

\* The second look still holds when the client is stored.
Unbuilt == \A c \in Calls : pc[c] = "store" => httpCache[px[c].id] = None

\* A call has no result before it returns.
Pending ==
  \A c \in Calls :
    /\ pc[c] \in {"look", "check", "store"} => got[c] = None
    /\ pc[c] \in {"idle", "rlock", "rwait", "build", "lock", "drain"} => got[c] = None
    /\ pc[c] \notin {"wsunlock", "done"} => wsGot[c] = None

Inv == TypeOK /\ Held /\ Locked /\ Unbuilt /\ Pending

LEMMA InitInv == Init => Inv
<1>1. SUFFICES ASSUME Init PROVE Inv
  OBVIOUS
<1>2. TypeOK
  BY <1>1, InitAddrAssumption DEF Init, TypeOK, Proxy, NilProxy
<1>3. Held
  BY <1>1, NoneAssumption DEF Init, Held, NilProxy
<1>4. Locked /\ Unbuilt /\ Pending
  BY <1>1 DEF Init, Locked, Unbuilt, Pending, Writing, Reading
<1>5. QED
  BY <1>2, <1>3, <1>4 DEF Inv

LEMMA TypeStep == Inv /\ [Next]_vars => TypeOK'
<1>1. SUFFICES ASSUME Inv, [Next]_vars PROVE TypeOK'
  OBVIOUS
<1>2. CASE UNCHANGED vars
  BY <1>1, <1>2 DEF Inv, TypeOK, vars
<1>3. ASSUME NEW a \in Addrs, AddExternalProxy(a) PROVE TypeOK'
  BY <1>1, <1>3 DEF Inv, TypeOK, AddExternalProxy
<1>4. ASSUME NEW c \in Calls, Call(c) PROVE TypeOK'
  <2>1. CASE AcquireNil(c) \/ WsOff(c) \/ WsFor(c)
    BY <1>1, <2>1 DEF Inv, TypeOK, AcquireNil, WsOff, WsFor, At
  <2>2. ASSUME NEW i \in Ids, Acquire(c, i) PROVE TypeOK'
    <3>1. [id |-> i, addr |-> addr[i]] \in Proxy
      BY <1>1 DEF Inv, TypeOK, Proxy
    <3>2. QED
      BY <1>1, <2>2, <3>1 DEF Inv, TypeOK, Acquire, At
  <2>3. QED
    BY <1>4, <2>1, <2>2 DEF Call
<1>5. ASSUME NEW c \in Calls, Step(c) PROVE TypeOK'
  <2>1. CASE RLock(c) \/ LookNil(c) \/ LookMiss(c) \/ Build(c) \/ Announce(c) \/ Lock(c)
             \/ WsLock(c) \/ WsRefused(c) \/ WsUnlock(c)
    BY <1>1, <2>1 DEF Inv, TypeOK, RLock, LookNil, LookMiss, Build, Announce, Lock,
                      WsLock, WsRefused, WsUnlock, At
  <2>2. CASE Unlock(c)
    BY <1>1, <2>2 DEF Inv, TypeOK, Unlock
  <2>3. CASE LookHit(c)
    BY <1>1, <2>3 DEF Inv, TypeOK, Held, LookHit, At
  <2>4. CASE Check(c)
    BY <1>1, <2>4 DEF Inv, TypeOK, Held, Check, At
  <2>5. CASE Store(c)
    <3>1. NewClient(c) \in Clients
      BY <1>1, <2>5 DEF Inv, Held, Store, At, NewClient, Clients
    <3>2. QED
      BY <1>1, <2>5, <3>1 DEF Inv, TypeOK, Store, At
  <2>6. CASE WsHit(c)
    BY <1>1, <2>6 DEF Inv, TypeOK, Held, WsHit, At
  <2>7. CASE WsBuild(c)
    <3>1. NewClient(c) \in Clients
      BY <1>1, <2>7 DEF Inv, Held, WsBuild, At, NewClient, Clients
    <3>2. QED
      BY <1>1, <2>7, <3>1 DEF Inv, TypeOK, WsBuild, At
  <2>8. QED
    BY <1>5, <2>1, <2>2, <2>3, <2>4, <2>5, <2>6, <2>7 DEF Step
<1>6. QED
  BY <1>1, <1>2, <1>3, <1>4, <1>5 DEF Next

LEMMA HeldStep == Inv /\ [Next]_vars => Held'
<1>1. SUFFICES ASSUME Inv, [Next]_vars PROVE Held'
  OBVIOUS
<1>2. CASE UNCHANGED vars
  BY <1>1, <1>2 DEF Inv, Held, vars
<1>3. ASSUME NEW a \in Addrs, AddExternalProxy(a) PROVE Held'
  BY <1>1, <1>3 DEF Inv, Held, AddExternalProxy
<1>4. ASSUME NEW c \in Calls, Call(c) PROVE Held'
  <2>1. CASE AcquireNil(c) \/ WsOff(c) \/ WsFor(c)
    BY <1>1, <2>1 DEF Inv, TypeOK, Held, AcquireNil, WsOff, WsFor, At
  <2>2. ASSUME NEW i \in Ids, Acquire(c, i) PROVE Held'
    BY <1>1, <2>2, NoneAssumption DEF Inv, TypeOK, Held, Acquire, At
  <2>3. QED
    BY <1>4, <2>1, <2>2 DEF Call
<1>5. ASSUME NEW c \in Calls, Step(c) PROVE Held'
  <2>1. CASE RLock(c)
    BY <1>1, <2>1 DEF Inv, TypeOK, Held, RLock
  <2>2. CASE Unlock(c)
    BY <1>1, <2>2 DEF Inv, TypeOK, Held, Unlock
  <2>3. CASE LookNil(c) \/ LookHit(c) \/ LookMiss(c) \/ Build(c) \/ Announce(c) \/ Lock(c)
    BY <1>1, <2>3 DEF Inv, TypeOK, Held, LookNil, LookHit, LookMiss, Build, Announce, Lock, At
  <2>4. CASE Check(c) \/ Store(c) \/ WsLock(c) \/ WsHit(c) \/ WsBuild(c) \/ WsRefused(c)
             \/ WsUnlock(c)
    BY <1>1, <2>4 DEF Inv, TypeOK, Held, Check, Store, WsLock, WsHit, WsBuild, WsRefused,
                      WsUnlock, At
  <2>5. QED
    BY <1>5, <2>1, <2>2, <2>3, <2>4 DEF Step
<1>6. QED
  BY <1>1, <1>2, <1>3, <1>4, <1>5 DEF Next

LEMMA LockedStep == Inv /\ [Next]_vars => Locked'
<1>1. SUFFICES ASSUME Inv, [Next]_vars PROVE Locked'
  OBVIOUS
<1>2. CASE UNCHANGED vars
  BY <1>1, <1>2 DEF Inv, Locked, Writing, Reading, vars
<1>3. ASSUME NEW a \in Addrs, AddExternalProxy(a) PROVE Locked'
  BY <1>1, <1>3 DEF Inv, Locked, Writing, Reading, AddExternalProxy
<1>4. ASSUME NEW c \in Calls, Call(c) PROVE Locked'
  BY <1>1, <1>4 DEF Inv, TypeOK, Locked, Writing, Reading, Call, AcquireNil, WsOff, WsFor,
                    Acquire, At
<1>5. ASSUME NEW c \in Calls, Step(c) PROVE Locked'
  <2>1. CASE RLock(c)
    BY <1>1, <2>1 DEF Inv, TypeOK, Locked, Writing, Reading, RLock
  <2>2. CASE Unlock(c)
    BY <1>1, <2>2 DEF Inv, TypeOK, Locked, Writing, Reading, Unlock
  <2>3. CASE Announce(c)
    BY <1>1, <2>3 DEF Inv, TypeOK, Locked, Writing, Reading, Announce, At
  <2>4. CASE Lock(c)
    BY <1>1, <2>4 DEF Inv, TypeOK, Locked, Writing, Reading, Lock, At
  <2>5. CASE LookNil(c) \/ LookHit(c) \/ LookMiss(c) \/ Build(c)
    BY <1>1, <2>5 DEF Inv, TypeOK, Locked, Writing, Reading, LookNil, LookHit, LookMiss,
                      Build, At
  <2>6. CASE Check(c) \/ Store(c)
    BY <1>1, <2>6 DEF Inv, TypeOK, Locked, Writing, Reading, Check, Store, At
  <2>7. CASE WsLock(c) \/ WsHit(c) \/ WsBuild(c) \/ WsRefused(c) \/ WsUnlock(c)
    BY <1>1, <2>7 DEF Inv, TypeOK, Locked, Writing, Reading, WsLock, WsHit, WsBuild,
                      WsRefused, WsUnlock, At
  <2>8. QED
    BY <1>5, <2>1, <2>2, <2>3, <2>4, <2>5, <2>6, <2>7 DEF Step
<1>6. QED
  BY <1>1, <1>2, <1>3, <1>4, <1>5 DEF Next
LEMMA UnbuiltStep == Inv /\ [Next]_vars => Unbuilt'
<1>1. SUFFICES ASSUME Inv, [Next]_vars PROVE Unbuilt'
  OBVIOUS
<1>2. CASE UNCHANGED vars
  BY <1>1, <1>2 DEF Inv, Unbuilt, vars
<1>3. ASSUME NEW a \in Addrs, AddExternalProxy(a) PROVE Unbuilt'
  BY <1>1, <1>3 DEF Inv, Unbuilt, AddExternalProxy
<1>4. ASSUME NEW c \in Calls, Call(c) PROVE Unbuilt'
  BY <1>1, <1>4 DEF Inv, TypeOK, Unbuilt, Call, AcquireNil, WsOff, WsFor, Acquire, At
<1>5. ASSUME NEW c \in Calls, Step(c) PROVE Unbuilt'
  <2>1. CASE RLock(c) \/ LookNil(c) \/ LookHit(c) \/ LookMiss(c) \/ Build(c) \/ Announce(c)
             \/ Lock(c)
    BY <1>1, <2>1 DEF Inv, TypeOK, Unbuilt, RLock, LookNil, LookHit, LookMiss, Build,
                      Announce, Lock, At
  <2>2. CASE Unlock(c)
    BY <1>1, <2>2 DEF Inv, TypeOK, Unbuilt, Unlock
  <2>3. CASE Check(c)
    BY <1>1, <2>3 DEF Inv, TypeOK, Unbuilt, Check, At
  <2>4. CASE Store(c)
    <3>1. \A d \in Calls : d # c => pc[d] # "store"
      BY <1>1, <2>4 DEF Inv, Locked, Writing, Store, At
    <3>2. QED
      BY <1>1, <2>4, <3>1 DEF Inv, TypeOK, Unbuilt, Store, At
  <2>5. CASE WsLock(c) \/ WsHit(c) \/ WsBuild(c) \/ WsRefused(c) \/ WsUnlock(c)
    BY <1>1, <2>5 DEF Inv, TypeOK, Unbuilt, WsLock, WsHit, WsBuild, WsRefused, WsUnlock, At
  <2>6. QED
    BY <1>5, <2>1, <2>2, <2>3, <2>4, <2>5 DEF Step
<1>6. QED
  BY <1>1, <1>2, <1>3, <1>4, <1>5 DEF Next

LEMMA PendingStep == Inv /\ [Next]_vars => Pending'
<1>1. SUFFICES ASSUME Inv, [Next]_vars PROVE Pending'
  OBVIOUS
<1>2. CASE UNCHANGED vars
  BY <1>1, <1>2 DEF Inv, Pending, vars
<1>3. ASSUME NEW a \in Addrs, AddExternalProxy(a) PROVE Pending'
  BY <1>1, <1>3 DEF Inv, Pending, AddExternalProxy
<1>4. ASSUME NEW c \in Calls, Call(c) PROVE Pending'
  BY <1>1, <1>4 DEF Inv, TypeOK, Pending, Call, AcquireNil, WsOff, WsFor, Acquire, At
<1>5. ASSUME NEW c \in Calls, Step(c) PROVE Pending'
  <2>1. CASE RLock(c)
    BY <1>1, <2>1 DEF Inv, TypeOK, Pending, RLock
  <2>2. CASE Unlock(c)
    BY <1>1, <2>2 DEF Inv, TypeOK, Pending, Unlock
  <2>3. CASE LookNil(c) \/ LookHit(c) \/ LookMiss(c) \/ Build(c) \/ Announce(c) \/ Lock(c)
    BY <1>1, <2>3 DEF Inv, TypeOK, Pending, LookNil, LookHit, LookMiss, Build, Announce,
                      Lock, At
  <2>4. CASE Check(c) \/ Store(c)
    BY <1>1, <2>4 DEF Inv, TypeOK, Pending, Check, Store, At
  <2>5. CASE WsLock(c) \/ WsHit(c) \/ WsBuild(c) \/ WsRefused(c) \/ WsUnlock(c)
    BY <1>1, <2>5 DEF Inv, TypeOK, Pending, WsLock, WsHit, WsBuild, WsRefused, WsUnlock, At
  <2>6. QED
    BY <1>5, <2>1, <2>2, <2>3, <2>4, <2>5 DEF Step
<1>6. QED
  BY <1>1, <1>2, <1>3, <1>4, <1>5 DEF Next

LEMMA Invariance == Spec => []Inv
<1>1. Inv /\ [Next]_vars => Inv'
  BY TypeStep, HeldStep, LockedStep, UnbuiltStep, PendingStep DEF Inv
<1>2. QED
  BY <1>1, InitInv, PTL DEF Spec

\* The types of the caches, of the requests' places and of what calls return.
THEOREM Types == Spec => []TypeOK
BY Invariance, PTL DEF Inv

\* The read and write sections of getClient keep the map of httpCache from
\* being written beside another access.
THEOREM MapRaceFree == Spec => []NoMapRace
<1>1. Inv => NoMapRace
  BY DEF Inv, Locked, NoMapRace, Writing, Reading
<1>2. QED
  BY <1>1, Invariance, PTL

-----------------------------------------------------------------------------
(* Both caches implement Memo.                                             *)

\* A step that changes none of the three parts Memo sees of httpCache.
LEMMA HttpStutter ==
  ASSUME UNCHANGED <<httpCache, px, got>>
  PROVE  UNCHANGED Http!vars
BY DEF Http!vars

LEMMA HttpStep == Inv /\ [Next]_vars => [Http!Next]_(Http!vars)
<1>1. SUFFICES ASSUME Inv, [Next]_vars PROVE [Http!Next]_(Http!vars)
  OBVIOUS
<1>2. CASE UNCHANGED vars
  BY <1>2, HttpStutter DEF vars
<1>3. ASSUME NEW a \in Addrs, AddExternalProxy(a) PROVE UNCHANGED Http!vars
  BY <1>3, HttpStutter DEF AddExternalProxy
<1>4. ASSUME NEW c \in Calls, Call(c) PROVE [Http!Next]_(Http!vars)
  <2>1. CASE AcquireNil(c) \/ WsOff(c) \/ WsFor(c)
    BY <2>1, HttpStutter DEF AcquireNil, WsOff, WsFor
  <2>2. ASSUME NEW i \in Ids, Acquire(c, i) PROVE Http!Ask(c, i)
    BY <1>1, <2>2 DEF Inv, TypeOK, Held, Acquire, At, Http!Ask
  <2>3. QED
    BY <1>4, <2>1, <2>2 DEF Call, Http!Next
<1>5. ASSUME NEW c \in Calls, Step(c) PROVE [Http!Next]_(Http!vars)
  <2>1. CASE RLock(c) \/ LookNil(c) \/ LookMiss(c) \/ Build(c) \/ Announce(c) \/ Lock(c)
             \/ Unlock(c) \/ WsLock(c) \/ WsHit(c) \/ WsBuild(c) \/ WsRefused(c) \/ WsUnlock(c)
    BY <2>1, HttpStutter DEF RLock, LookNil, LookMiss, Build, Announce, Lock, Unlock,
                             WsLock, WsHit, WsBuild, WsRefused, WsUnlock
  <2>2. CASE LookHit(c)
    <3>1. Http!Hit(c)
      BY <2>2 DEF LookHit, Http!Hit
    <3>2. px[c].id \in Ids /\ got[c] = None
      BY <1>1, <2>2 DEF Inv, Held, Pending, LookHit, At
    <3>3. QED
      BY <3>1, <3>2 DEF Http!Next, Http!Get
  <2>3. CASE Check(c)
    <3>1. CASE UNCHANGED got
      BY <2>3, <3>1, HttpStutter DEF Check
    <3>2. CASE got' # got
      <4>1. Http!Hit(c)
        BY <2>3, <3>2 DEF Check, Http!Hit
      <4>2. px[c].id \in Ids /\ got[c] = None
        BY <1>1, <2>3 DEF Inv, Held, Pending, Check, At
      <4>3. QED
        BY <4>1, <4>2 DEF Http!Next, Http!Get
    <3>3. QED
      BY <3>1, <3>2
  <2>4. CASE Store(c)
    <3>1. px[c].id \in Ids /\ got[c] = None /\ httpCache[px[c].id] = None
      BY <1>1, <2>4 DEF Inv, Held, Pending, Unbuilt, Store, At
    <3>2. NewClient(c) \in Clients
      BY <1>1, <3>1 DEF Inv, Held, NewClient, Clients
    <3>3. Http!Make(c, NewClient(c))
      BY <2>4, <3>1 DEF Store, Http!Make
    <3>4. QED
      BY <3>1, <3>2, <3>3 DEF Http!Next, Http!Get
  <2>5. QED
    BY <1>5, <2>1, <2>2, <2>3, <2>4 DEF Step
<1>6. QED
  BY <1>1, <1>2, <1>3, <1>4, <1>5 DEF Next

LEMMA SearchStutter ==
  ASSUME UNCHANGED <<wsClients, px, wsGot>>
  PROVE  UNCHANGED Search!vars
BY DEF Search!vars

LEMMA SearchStep == Inv /\ [Next]_vars => [Search!Next]_(Search!vars)
<1>1. SUFFICES ASSUME Inv, [Next]_vars PROVE [Search!Next]_(Search!vars)
  OBVIOUS
<1>2. CASE UNCHANGED vars
  BY <1>2, SearchStutter DEF vars
<1>3. ASSUME NEW a \in Addrs, AddExternalProxy(a) PROVE UNCHANGED Search!vars
  BY <1>3, SearchStutter DEF AddExternalProxy
<1>4. ASSUME NEW c \in Calls, Call(c) PROVE [Search!Next]_(Search!vars)
  <2>1. CASE AcquireNil(c) \/ WsOff(c) \/ WsFor(c)
    BY <2>1, SearchStutter DEF AcquireNil, WsOff, WsFor
  <2>2. ASSUME NEW i \in Ids, Acquire(c, i) PROVE Search!Ask(c, i)
    BY <1>1, <2>2 DEF Inv, TypeOK, Held, Acquire, At, Search!Ask
  <2>3. QED
    BY <1>4, <2>1, <2>2 DEF Call, Search!Next
<1>5. ASSUME NEW c \in Calls, Step(c) PROVE [Search!Next]_(Search!vars)
  <2>1. CASE RLock(c) \/ LookNil(c) \/ LookHit(c) \/ LookMiss(c) \/ Build(c) \/ Announce(c)
             \/ Lock(c) \/ Check(c) \/ Store(c) \/ Unlock(c) \/ WsLock(c) \/ WsRefused(c)
             \/ WsUnlock(c)
    BY <2>1, SearchStutter DEF RLock, LookNil, LookHit, LookMiss, Build, Announce, Lock,
                               Check, Store, Unlock, WsLock, WsRefused, WsUnlock
  <2>2. ASSUME WsHit(c) \/ WsBuild(c) PROVE px[c].id \in Ids /\ wsGot[c] = None
    BY <1>1, <2>2 DEF Inv, Held, Pending, WsHit, WsBuild, At
  <2>3. CASE WsHit(c)
    <3>1. Search!Hit(c)
      BY <2>3 DEF WsHit, Search!Hit
    <3>2. QED
      BY <2>2, <2>3, <3>1 DEF Search!Next, Search!Get
  <2>4. CASE WsBuild(c)
    <3>1. NewClient(c) \in Clients
      BY <1>1, <2>2, <2>4 DEF Inv, Held, NewClient, Clients
    <3>2. Search!Make(c, NewClient(c))
      BY <2>4, <2>2 DEF WsBuild, Search!Make
    <3>3. QED
      BY <2>2, <2>4, <3>1, <3>2 DEF Search!Next, Search!Get
  <2>5. QED
    BY <1>5, <2>1, <2>3, <2>4 DEF Step
<1>6. QED
  BY <1>1, <1>2, <1>3, <1>4, <1>5 DEF Next

\* getClient and wsFor implement the atomic get-or-create of Memo, however
\* many requests race, and even if some panic with the read lock held.
THEOREM Implements == Spec => Memos
<1>1. Init => Http!Init /\ Search!Init
  BY DEF Init, Http!Init, Search!Init, NilProxy
<1>2. Inv /\ [Next]_vars => [Http!Next]_(Http!vars) /\ [Search!Next]_(Search!vars)
  BY HttpStep, SearchStep
<1>3. QED
  BY <1>1, <1>2, Invariance, PTL DEF Spec, Memos, Http!Spec, Search!Spec

-----------------------------------------------------------------------------
(* Which address a client dials.                                           *)

\* A proxy, and a client built for it, has an address the id had at some time.
Provenance ==
  /\ \A c \in Calls : px[c].id \in Ids =>
       /\ px[c].addr \in past[px[c].id]
       /\ got[c] # None => got[c].addr \in past[px[c].id]
       /\ wsGot[c] # None => wsGot[c].addr \in past[px[c].id]
  /\ \A i \in Ids :
       /\ addr[i] \in past[i]
       /\ httpCache[i] # None => httpCache[i].addr \in past[i]
       /\ wsClients[i] # None => wsClients[i].addr \in past[i]

LEMMA ProvenanceStep == Inv /\ Provenance /\ [Next]_vars => Provenance'
<1>1. SUFFICES ASSUME Inv, Provenance, [Next]_vars PROVE Provenance'
  OBVIOUS
<1>2. CASE UNCHANGED vars
  BY <1>1, <1>2 DEF Provenance, vars
<1>3. ASSUME NEW a \in Addrs, AddExternalProxy(a) PROVE Provenance'
  BY <1>1, <1>3 DEF Inv, TypeOK, Provenance, AddExternalProxy
<1>4. ASSUME NEW c \in Calls, Call(c) PROVE Provenance'
  <2>1. CASE AcquireNil(c) \/ WsOff(c) \/ WsFor(c)
    BY <1>1, <2>1 DEF Provenance, AcquireNil, WsOff, WsFor
  <2>2. ASSUME NEW i \in Ids, Acquire(c, i) PROVE Provenance'
    <3>1. got[c] = None /\ wsGot[c] = None
      BY <1>1, <2>2 DEF Inv, Pending, Acquire, At
    <3>2. QED
      BY <1>1, <2>2, <3>1 DEF Inv, TypeOK, Provenance, Acquire
  <2>3. QED
    BY <1>4, <2>1, <2>2 DEF Call
<1>5. ASSUME NEW c \in Calls, Step(c) PROVE Provenance'
  <2>1. CASE RLock(c) \/ LookNil(c) \/ LookMiss(c) \/ Build(c) \/ Announce(c) \/ Lock(c)
             \/ Unlock(c) \/ WsLock(c) \/ WsRefused(c) \/ WsUnlock(c)
    BY <1>1, <2>1 DEF Provenance, RLock, LookNil, LookMiss, Build, Announce, Lock, Unlock,
                      WsLock, WsRefused, WsUnlock
  <2>2. CASE LookHit(c)
    BY <1>1, <2>2 DEF Inv, TypeOK, Provenance, LookHit
  <2>3. CASE Check(c)
    BY <1>1, <2>3 DEF Inv, TypeOK, Provenance, Check
  <2>4. CASE Store(c)
    BY <1>1, <2>4 DEF Inv, TypeOK, Held, Provenance, Store, At, NewClient
  <2>5. CASE WsHit(c)
    BY <1>1, <2>5 DEF Inv, TypeOK, Provenance, WsHit
  <2>6. CASE WsBuild(c)
    BY <1>1, <2>6 DEF Inv, TypeOK, Held, Provenance, WsBuild, At, NewClient
  <2>7. QED
    BY <1>5, <2>1, <2>2, <2>3, <2>4, <2>5, <2>6 DEF Step
<1>6. QED
  BY <1>1, <1>2, <1>3, <1>4, <1>5 DEF Next

\* While an id keeps its address, the clients its requests get dial it.
THEOREM DialsRight == Spec => []DialsItsProxy
<1>1. Init => Provenance
  BY InitAddrAssumption, NoneAssumption DEF Init, Provenance, NilProxy
<1>2. Inv /\ Provenance => DialsItsProxy
  BY DEF Inv, Held, Provenance, DialsItsProxy
<1>3. QED
  BY <1>1, <1>2, ProvenanceStep, Invariance, PTL DEF Spec
=============================================================================
