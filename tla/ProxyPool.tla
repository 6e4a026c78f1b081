------------------------------ MODULE ProxyPool ------------------------------
(***************************************************************************)
(* The proxy pool of the gateway, internal/proxy/pool.go: the goroutines   *)
(* that share a PoolManager and the lock sections they run.                *)
(*                                                                         *)
(* A step is one critical section of pm.mu; a call of the container        *)
(* manager made outside the lock is a step of its own, but for CreateEx    *)
(* and HealthCheck, which nobody else sees until the section after them.   *)
(* The goroutines are                                                      *)
(*   - requests, which follow the acquire / mark / re-acquire / release    *)
(*     protocol of internal/handler/handler.go;                            *)
(*   - creators, the goroutines of Start and of ensurePoolCapacity that    *)
(*     run createProxy;                                                    *)
(*   - Health and Cooldown, the two background loops;                      *)
(*   - Admin, the management API.                                          *)
(*                                                                         *)
(* Time is abstracted: a ban or a cooldown may lapse at any moment, a      *)
(* context may expire whenever the code waits on it.                       *)
(***************************************************************************)
EXTENDS Integers, FiniteSets

CONSTANTS
  Proxies,        \* ids of containers the manager can create
  Ext,            \* "ext-1", the id of every proxy AddExternalProxy makes
  IPs,            \* egress addresses
  NoIP,           \* the empty EgressIP
  None,           \* no proxy
  Requests,       \* request goroutines
  Creators,       \* goroutines that can run createProxy (bound)
  Health,         \* the healthCheckLoop goroutine
  Cooldown,       \* the cooldownLoop goroutine
  Admin,          \* the goroutine of a management call
  Convs,          \* conversation ids
  NoConv,         \* the empty conversation id
  ConvOf,         \* the conversation of each request
  StickyOn,       \* cfg.StickySessionTTL > 0
  InitSize,       \* cfg.ProxyPoolSize at start
  Sizes,          \* sizes the settings API may set
  MaxAttempts,    \* creation attempts of createProxy
  RotateAttempts, \* cfg.ProxyIPRotateAttempts, at least 1
  Faults,         \* the kinds of failure the environment produces
  MaxFaults,      \* how many failures happen (bound)
  Loops,          \* the background loops whose ticker runs
  AdminOps        \* the management operations in use

ASSUME FiniteAssumption ==
  /\ IsFiniteSet(Proxies)
  /\ IsFiniteSet(Creators)

ASSUME SizeAssumption ==
  /\ InitSize \in Nat
  /\ Sizes \subseteq Nat
  /\ MaxAttempts \in Nat \ {0}
  /\ RotateAttempts \in Nat \ {0}
  /\ MaxFaults \in Nat
  /\ StickyOn \in BOOLEAN
  /\ ConvOf \in [Requests -> Convs \cup {NoConv}]

ASSUME DistinctAssumption ==
  /\ Ext \notin Proxies
  /\ None \notin Proxies \cup {Ext}
  /\ NoIP \notin IPs
  /\ NoConv \notin Convs
  /\ Requests \cap Creators = {}
  /\ {Health, Cooldown, Admin} \cap (Requests \cup Creators) = {}
  /\ Health # Cooldown /\ Cooldown # Admin /\ Admin # Health

VARIABLES
  state,      \* the State of each proxy, "out" if it is not in pm.pool
  ip,         \* the EgressIP of each proxy
  boxes,      \* the containers that are running
  doomed,     \* the containers whose mgr.Remove has been called
  leaked,     \* history: the containers whose removal failed
  ipBans,     \* the egress addresses banned at this moment
  sticky,     \* pm.sticky: conversation -> proxy id
  size,       \* cfg.ProxyPoolSize
  spawning,   \* pm.spawning
  available,  \* pm.available holds a token
  closed,     \* pm.done is closed
  pc,         \* where each goroutine is
  own,        \* request: the proxy it uses; creator: the one it inserts
  old,        \* request: the failed proxy it releases after the next acquire
  todo,       \* the ids a goroutine has still to remove or to probe
  kind,       \* creator: launched by Start or by ensurePoolCapacity
  tries,      \* creator: failed attempts of createProxy
  rot,        \* creator: rotations made by rotateUntilUniqueIP
  silent,     \* history: proxies that became eligible without a signal
  strays,     \* history: proxies last taken by doRound, which gives none back
  faults      \* failures so far

boxVars   == <<ip, boxes, doomed, leaked>>
regVars   == <<ipBans, sticky, size, spawning, closed>>
localVars == <<own, old, todo>>
makerVars == <<kind, tries, rot>>
ghostVars == <<silent, strays, faults>>
vars == <<state, ip, boxes, doomed, leaked, ipBans, sticky, size, spawning,
          available, closed, pc, own, old, todo, kind, tries, rot, silent,
          strays, faults>>

Ids     == Proxies \cup {Ext}
Makers  == Creators \cup {Admin}
Threads == Requests \cup Creators \cup {Health, Cooldown, Admin}

States == {"idle", "active", "cooldown", "unhealthy"}
PCs == {"idle", "seek", "wait", "use", "swap", "retry", "round", "roundwait",
        "ensure", "prune", "remove", "drop",
        "create", "keep", "rotate", "signal", "done", "off",
        "check", "drifted"}

(***************************************************************************)
(* Helpers                                                                 *)
(***************************************************************************)

\* The keys of pm.pool.
pool == {p \in Ids : state[p] # "out"}

\* Proxy.IsHealthy
IsHealthy(p) == state[p] \in {"idle", "active"}

\* ipBannedLocked: an unknown address is never banned.
Banned(p) == ip[p] \in ipBans

\* usableCountLocked counts this set.
Usable == {p \in pool : IsHealthy(p) /\ ~Banned(p)}

\* The candidates of GetProxy (Proxy.IsAvailable and not banned).  The
\* round-robin cursor picks one of them: any may be the one.
Candidates == {p \in pool : state[p] = "idle" /\ ~Banned(p)}

\* pruneDeadProxies removes proxies of this set.
Dead == {p \in pool : state[p] \in {"cooldown", "unhealthy"}}

\* duplicateIPLocked, for proxy p with address i.
Duplicate(p, i) ==
  /\ i # NoIP
  /\ \E q \in pool \ {p} : ip[q] = i /\ IsHealthy(q)

\* A container id nobody refers to stands for a new one.
Fresh ==
  {p \in Proxies :
    /\ p \notin pool \cup boxes \cup doomed
    /\ \A t \in Threads : own[t] # p /\ old[t] # p /\ p \notin todo[t]
    /\ \A c \in Convs : sticky[c] # p}

\* Where a goroutine goes on after ensurePoolCapacity or pruneDeadProxies.
After(t) == IF t \in Requests THEN "retry"
            ELSE IF t \in Creators THEN "done" ELSE "idle"

\* Where a goroutine goes on after createProxy.
AfterCreate(m) == IF m = Admin THEN "idle"
                  ELSE IF kind[m] = "start" THEN "done" ELSE "prune"

\* What GetProxy's caller does next: a request whose last proxy died
\* releases that one first.
Got(r) == IF old[r] = None THEN "use" ELSE "swap"

Goto(t, l) == pc' = [pc EXCEPT ![t] = l]

\* The environment fails once more, in one of the ways the model allows.
Fail(k) ==
  /\ k \in Faults
  /\ faults < MaxFaults
  /\ faults' = faults + 1

\* The background loops run once Start's creators have returned and until
\* the pool is closed.
LoopsOn ==
  /\ ~closed
  /\ \A c \in Creators : pc[c] = "off" \/ kind[c] # "start"

-----------------------------------------------------------------------------
(***************************************************************************)
(* Requests: GetProxy, ReleaseProxy, MarkRateLimited, MarkUnhealthy        *)
(***************************************************************************)

\* GetProxy, sticky path: a pinned, healthy, unbanned proxy is returned as it
\* is, without being marked active.  A new request starts here, and so does
\* every retry; a rate-limited proxy is forgotten.
Acquire(r) ==
  LET p   == sticky[ConvOf[r]]
      hit == /\ StickyOn
             /\ ConvOf[r] # NoConv
             /\ p \in Usable
  IN  /\ pc[r] = "retry" \/ (pc[r] = "idle" /\ ~closed)
      /\ \/ /\ hit
            /\ own' = [own EXCEPT ![r] = p]
            /\ Goto(r, Got(r))
         \/ /\ ~hit
            /\ own' = [own EXCEPT ![r] = None]
            /\ Goto(r, "seek")
      /\ UNCHANGED <<state, boxVars, regVars, available, old, todo, makerVars,
                     ghostVars>>

\* GetProxy, one turn of the loop: take a candidate, or go to wait.
Seek(r) ==
  /\ pc[r] = "seek"
  /\ \/ \E p \in Candidates :
          /\ own' = [own EXCEPT ![r] = p]
          /\ state' = [state EXCEPT ![p] = "active"]
          /\ sticky' = IF ConvOf[r] = NoConv THEN sticky
                       ELSE [sticky EXCEPT ![ConvOf[r]] = p]
          /\ silent' = silent \ {p}
          /\ strays' = strays \ {p}
          /\ Goto(r, Got(r))
     \/ /\ Candidates = {}
        /\ Goto(r, "wait")
        /\ UNCHANGED <<state, sticky, own, silent, strays>>
  /\ UNCHANGED <<boxVars, ipBans, size, spawning, closed, available, old,
                 todo, makerVars, faults>>

\* GetProxy, case <-pm.available.
Wake(r) ==
  /\ pc[r] = "wait"
  /\ available
  /\ available' = FALSE
  /\ Goto(r, "seek")
  /\ UNCHANGED <<state, boxVars, regVars, localVars, makerVars, ghostVars>>

\* Mutant: the signal is sent only when the proxy was active.
ReleaseProxyIfActive(p) ==
  LET active == p \in pool /\ state[p] = "active"
  IN  /\ state' = IF active THEN [state EXCEPT ![p] = "idle"] ELSE state
      /\ available' = (available \/ active)

\* ReleaseProxy(p): looks the id up, frees it if it is active, always signals.
ReleaseProxy(p) ==
  /\ state' = IF p \in pool /\ state[p] = "active"
              THEN [state EXCEPT ![p] = "idle"] ELSE state
  /\ available' = TRUE

\* GetProxy, case <-ctx.Done() and case <-pm.done.  The handler then ends:
\* it releases the proxy it wanted to replace, or dies on the nil proxy.
GiveUp(r) ==
  /\ pc[r] = "wait"
  /\ \/ old[r] # None /\ ReleaseProxy(old[r])
     \/ UNCHANGED <<state, available>>
  /\ old' = [old EXCEPT ![r] = None]
  /\ Goto(r, "idle")
  /\ UNCHANGED <<boxVars, regVars, own, todo, makerVars, ghostVars>>

\* The handler returns its proxy and answers.
Release(r) ==
  /\ pc[r] = "use"
  /\ ReleaseProxy(own[r])
  /\ own' = [own EXCEPT ![r] = None]
  /\ Goto(r, "idle")
  /\ UNCHANGED <<boxVars, regVars, old, todo, makerVars, ghostVars>>

\* Mutant: the handler goes on with the failed proxy and drops the other.
SwapWrongOne(r) ==
  /\ pc[r] = "swap"
  /\ UNCHANGED <<state, available>>
  /\ own' = [own EXCEPT ![r] = old[r]]
  /\ old' = [old EXCEPT ![r] = None]
  /\ Goto(r, "use")
  /\ UNCHANGED <<boxVars, regVars, todo, makerVars, ghostVars>>

\* A replacement was acquired: the handler releases the proxy that failed.
Swap(r) ==
  /\ pc[r] = "swap"
  /\ ReleaseProxy(old[r])
  /\ old' = [old EXCEPT ![r] = None]
  /\ Goto(r, "use")
  /\ UNCHANGED <<boxVars, regVars, own, todo, makerVars, ghostVars>>

\* MarkRateLimited, its lock section.  A request may hold an external proxy
\* that was replaced under the same id: that one's address is any.
MarkRateLimited(r) ==
  LET p == own[r]
  IN  /\ pc[r] = "use"
      /\ Fail("ratelimit")
      /\ \E i \in IF p = Ext THEN IPs \cup {NoIP} ELSE {ip[p]} :
            ipBans' = ipBans \cup ({i} \ {NoIP})
      /\ state' = IF p \in pool THEN [state EXCEPT ![p] = "cooldown"]
                  ELSE state
      /\ available' = TRUE
      /\ Goto(r, "ensure")
      /\ UNCHANGED <<boxVars, sticky, size, spawning, closed, localVars,
                     makerVars, silent, strays>>

\* MarkUnhealthy, its lock section; a proxy that left the pool needs no
\* top-up.
MarkUnhealthy(r) ==
  LET p == own[r]
  IN  /\ pc[r] = "use"
      /\ Fail("transport")
      /\ state' = IF p \in pool THEN [state EXCEPT ![p] = "unhealthy"]
                  ELSE state
      /\ Goto(r, IF p \in pool THEN "ensure" ELSE "retry")
      /\ old' = [old EXCEPT ![r] = p]
      /\ own' = [own EXCEPT ![r] = None]
      /\ UNCHANGED <<boxVars, regVars, available, todo, makerVars, silent,
                     strays>>

\* A web_search round failed on the request's proxy: doRound asks the pool for
\* another one, for no conversation.
ToolRound(r) ==
  /\ pc[r] = "use"
  /\ Fail("toolround")
  /\ Goto(r, "round")
  /\ UNCHANGED <<state, boxVars, regVars, available, localVars, makerVars,
                 silent, strays>>

\* GetProxy for doRound, one turn of the loop.  The proxy it takes serves the
\* round beside the request's own and is never given back.
RoundSeek(r) ==
  /\ pc[r] = "round"
  /\ \/ \E p \in Candidates :
          /\ state' = [state EXCEPT ![p] = "active"]
          /\ silent' = silent \ {p}
          /\ strays' = strays \cup {p}
          /\ Goto(r, "use")
     \/ /\ Candidates = {}
        /\ Goto(r, "roundwait")
        /\ UNCHANGED <<state, silent, strays>>
  /\ UNCHANGED <<boxVars, regVars, available, localVars, makerVars, faults>>

\* GetProxy for doRound, case <-pm.available.
RoundWake(r) ==
  /\ pc[r] = "roundwait"
  /\ available
  /\ available' = FALSE
  /\ Goto(r, "round")
  /\ UNCHANGED <<state, boxVars, regVars, localVars, makerVars, ghostVars>>

\* GetProxy for doRound, case <-ctx.Done(), after RateLimitFreshIPWait at the
\* latest, and case <-pm.done: the round fails, the handler goes on to answer.
RoundGivesUp(r) ==
  /\ pc[r] = "roundwait"
  /\ Goto(r, "use")
  /\ UNCHANGED <<state, boxVars, regVars, available, localVars, makerVars,
                 ghostVars>>

\* A rate-limited request that may not retry (no attempt or no time left,
\* public tier) answers, with or without a call of ReleaseProxy.
Answer(r) ==
  /\ pc[r] = "retry"
  /\ own[r] # None
  /\ ReleaseProxy(own[r]) \/ UNCHANGED <<state, available>>
  /\ own' = [own EXCEPT ![r] = None]
  /\ Goto(r, "idle")
  /\ UNCHANGED <<boxVars, regVars, old, todo, makerVars, ghostVars>>

-----------------------------------------------------------------------------
(***************************************************************************)
(* ensurePoolCapacity and pruneDeadProxies, in whatever goroutine          *)
(***************************************************************************)

Deficit == size - Cardinality(Usable)
\* Mutant: the replacements in flight are not subtracted.
ToSpawnAll == IF Deficit > 0 THEN Deficit ELSE 0

ToSpawn == IF Deficit > spawning THEN Deficit - spawning ELSE 0

Ensure(t) ==
  /\ pc[t] = "ensure"
  /\ spawning' = spawning + ToSpawn
  /\ \/ /\ ToSpawn > 0
        /\ \E C \in SUBSET {c \in Creators : pc[c] = "off"} :
             /\ Cardinality(C) = ToSpawn
             /\ pc' = [u \in Threads |-> IF u \in C THEN "create"
                                         ELSE IF u = t THEN After(t)
                                         ELSE pc[u]]
             /\ kind' = [c \in Creators |-> IF c \in C THEN "spawn"
                                            ELSE kind[c]]
     \/ /\ ToSpawn = 0
        /\ Goto(t, "prune")
        /\ UNCHANGED kind
  /\ UNCHANGED <<state, boxVars, ipBans, sticky, size, closed, available,
                 localVars, tries, rot, ghostVars>>

\* pruneDeadProxies, its lock section: all the dead, or as many as the pool
\* has in excess.
PruneSet(S) ==
  LET excess == Cardinality(pool) - size
  IN  /\ S \subseteq Dead
      /\ IF excess > 0 /\ Cardinality(Dead) > excess
         THEN Cardinality(S) = excess ELSE S = Dead

Prune(t) ==
  /\ pc[t] = "prune"
  /\ \E S \in SUBSET Dead :
       /\ PruneSet(S)
       /\ todo' = [todo EXCEPT ![t] = S]
       /\ Goto(t, IF S = {} THEN After(t) ELSE "remove")
  /\ UNCHANGED <<state, boxVars, regVars, available, own, old, makerVars,
                 ghostVars>>

\* RemoveProxy of one id of the list, whatever became of it since.
RemoveProxy(t) ==
  /\ pc[t] \in {"remove", "drop"}
  /\ \E p \in todo[t] :
       /\ todo' = [todo EXCEPT ![t] = @ \ {p}]
       /\ Goto(t, IF todo[t] # {p} THEN pc[t]
                  ELSE IF pc[t] = "drop" THEN "ensure" ELSE After(t))
       /\ state' = [state EXCEPT ![p] = "out"]
       /\ doomed' = doomed \cup ({p} \cap pool \cap Proxies)
  /\ UNCHANGED <<ip, boxes, leaked, regVars, available, own, old, makerVars,
                 ghostVars>>

\* mgr.Remove of a container that was taken out of the pool: it goes, or the
\* call fails and it stays.  The goroutine that called it may be further on
\* already, as the one of ForceRotate is.
Erase(p) ==
  /\ p \in doomed
  /\ doomed' = doomed \ {p}
  /\ \/ /\ boxes' = boxes \ {p}
        /\ UNCHANGED <<leaked, faults>>
     \/ /\ Fail("remove")
        /\ leaked' = leaked \cup ({p} \cap boxes)
        /\ UNCHANGED boxes
  /\ UNCHANGED <<state, ip, regVars, available, pc, localVars, makerVars,
                 silent, strays>>

-----------------------------------------------------------------------------
(***************************************************************************)
(* createProxy and rotateUntilUniqueIP                                     *)
(***************************************************************************)

\* Mutant: a duplicate stays in the pool while it is rotated.
CreateStaysIn(m) ==
  /\ pc[m] = "create"
  /\ \E p \in Fresh, i \in IPs \cup {NoIP} :
       /\ ip' = [ip EXCEPT ![p] = i]
       /\ boxes' = boxes \cup {p}
       /\ silent' = silent \ {p}
       /\ state' = [state EXCEPT ![p] = "idle"]
       /\ \/ /\ ~Duplicate(p, i)
             /\ Goto(m, "signal")
             /\ UNCHANGED own
          \/ /\ Duplicate(p, i)
             /\ own' = [own EXCEPT ![m] = p]
             /\ Goto(m, IF rot[m] < RotateAttempts - 1 THEN "rotate"
                        ELSE "keep")
  /\ UNCHANGED <<doomed, leaked, regVars, available, old, todo, makerVars,
                 strays, faults>>

\* mgr.CreateEx returns a new container, and rotateUntilUniqueIP inserts it;
\* if its address is already in use by a live proxy it is taken out again, to
\* be rotated or, when the attempts are used up, to be kept.
Create(m) ==
  /\ pc[m] = "create"
  /\ \E p \in Fresh, i \in IPs \cup {NoIP} :
       /\ ip' = [ip EXCEPT ![p] = i]
       /\ boxes' = boxes \cup {p}
       /\ silent' = silent \ {p}
       /\ \/ /\ ~Duplicate(p, i)
             /\ state' = [state EXCEPT ![p] = "idle"]
             /\ Goto(m, "signal")
             /\ UNCHANGED own
          \/ /\ Duplicate(p, i)
             /\ own' = [own EXCEPT ![m] = p]
             /\ Goto(m, IF rot[m] < RotateAttempts - 1 THEN "rotate"
                        ELSE "keep")
             /\ UNCHANGED state
  /\ UNCHANGED <<doomed, leaked, regVars, available, old, todo, makerVars,
                 strays, faults>>

\* Mutant: the error path returns before spawnDone.
CreateFailsReturns(m) ==
  /\ pc[m] = "create"
  /\ Fail("create")
  /\ Goto(m, IF m = Admin THEN "idle" ELSE "off")
  /\ tries' = [tries EXCEPT ![m] = 0]
  /\ rot' = [rot EXCEPT ![m] = 0]
  /\ UNCHANGED <<state, boxVars, regVars, available, localVars, kind, silent,
                 strays>>

\* mgr.CreateEx fails: next attempt, or the attempts or the context are over.
CreateFails(m) ==
  /\ pc[m] = "create"
  /\ Fail("create")
  /\ \/ /\ tries[m] + 1 < MaxAttempts
        /\ tries' = [tries EXCEPT ![m] = @ + 1]
        /\ UNCHANGED pc
     \/ /\ Goto(m, AfterCreate(m))
        /\ tries' = [tries EXCEPT ![m] = 0]
  /\ rot' = [rot EXCEPT ![m] = 0]
  /\ UNCHANGED <<state, boxVars, regVars, available, localVars, kind, silent,
                 strays>>

\* The attempts are used up: the duplicate is kept.
Keep(m) ==
  /\ pc[m] = "keep"
  /\ state' = [state EXCEPT ![own[m]] = "idle"]
  /\ own' = [own EXCEPT ![m] = None]
  /\ Goto(m, "signal")
  /\ UNCHANGED <<boxVars, regVars, available, old, todo, makerVars,
                 ghostVars>>

\* Mutant: the duplicate is dropped without removing its container.
RotateForgets(m) ==
  /\ pc[m] = "rotate"
  /\ own' = [own EXCEPT ![m] = None]
  /\ rot' = [rot EXCEPT ![m] = @ + 1]
  /\ Goto(m, "create")
  /\ UNCHANGED <<state, boxVars, regVars, available, old, todo, kind, tries,
                 ghostVars>>

\* The duplicate's container is removed and another one is created.
Rotate(m) ==
  /\ pc[m] = "rotate"
  /\ doomed' = doomed \cup {own[m]}
  /\ own' = [own EXCEPT ![m] = None]
  /\ rot' = [rot EXCEPT ![m] = @ + 1]
  /\ Goto(m, "create")
  /\ UNCHANGED <<state, ip, boxes, leaked, regVars, available, old, todo, kind,
                 tries, ghostVars>>

\* createProxy, the signal after the insertion.
Announce(m) ==
  /\ pc[m] = "signal"
  /\ available' = TRUE
  /\ tries' = [tries EXCEPT ![m] = 0]
  /\ rot' = [rot EXCEPT ![m] = 0]
  /\ Goto(m, AfterCreate(m))
  /\ UNCHANGED <<state, boxVars, regVars, localVars, kind, ghostVars>>

\* Mutant: the counter is not decremented.
SpawnDoneForgets(c) ==
  /\ pc[c] = "done"
  /\ kind' = [kind EXCEPT ![c] = "start"]
  /\ Goto(c, "off")
  /\ UNCHANGED <<state, boxVars, regVars, available, localVars, tries, rot,
                 ghostVars>>

\* spawnDone, deferred by the goroutines of ensurePoolCapacity.
SpawnDone(c) ==
  /\ pc[c] = "done"
  /\ spawning' = IF kind[c] = "spawn" /\ spawning > 0 THEN spawning - 1
                 ELSE spawning
  /\ kind' = [kind EXCEPT ![c] = "start"]
  /\ Goto(c, "off")
  /\ UNCHANGED <<state, boxVars, ipBans, sticky, size, closed, available,
                 localVars, tries, rot, ghostVars>>

-----------------------------------------------------------------------------
(***************************************************************************)
(* Background loops and time                                               *)
(***************************************************************************)

\* checkAllProxies takes its snapshot.
HealthTick ==
  /\ pc[Health] = "idle"
  /\ Health \in Loops
  /\ LoopsOn
  /\ pool # {}
  /\ todo' = [todo EXCEPT ![Health] = pool]
  /\ Goto(Health, "check")
  /\ UNCHANGED <<state, boxVars, regVars, available, own, old, makerVars,
                 ghostVars>>

\* A successful HealthCheck rewrites EgressIP with what it was told, before
\* checkAllProxies has the lock.
Drifts ==
  /\ pc[Health] \in {"check", "drifted"}
  /\ own[Health] = None
  /\ Fail("drift")
  /\ \E p \in todo[Health] :
       /\ \E i \in IPs \ {ip[p]} : ip' = [ip EXCEPT ![p] = i]
       /\ silent' = IF state[p] = "idle" THEN silent \cup {p} ELSE silent
       /\ own' = [own EXCEPT ![Health] = p]
  /\ UNCHANGED <<state, boxes, doomed, leaked, regVars, available, pc, old,
                 todo, makerVars, strays>>

\* The lock section of checkAllProxies that applies the result of a probe to
\* the proxy stored under that id, if there still is one.
Probe(p, healthy) ==
  LET s1  == IF ~healthy /\ state[p] # "cooldown" THEN "unhealthy"
             ELSE IF healthy /\ state[p] = "unhealthy" THEN "idle"
             ELSE state[p]
      dup == healthy /\ s1 = "idle" /\ Duplicate(p, ip[p])
      s2  == IF dup THEN "unhealthy" ELSE s1
  IN  /\ state' = IF p \in pool THEN [state EXCEPT ![p] = s2] ELSE state
      /\ available' = (available \/ (/\ p \in pool
                                     /\ healthy
                                     /\ state[p] = "unhealthy"))
      /\ todo' = [todo EXCEPT ![Health] = @ \ {p}]
      /\ LET drift == pc[Health] = "drifted" \/ (p \in pool /\ dup)
         IN  Goto(Health, IF todo[Health] # {p}
                          THEN IF drift THEN "drifted" ELSE "check"
                          ELSE IF drift THEN "ensure" ELSE "idle")

\* The probe of one proxy of the snapshot succeeds, with its address as it was
\* or drifted, or it fails.
CheckOne ==
  /\ pc[Health] \in {"check", "drifted"}
  /\ \E p \in todo[Health] :
       \/ /\ own[Health] \in {None, p}
          /\ Probe(p, TRUE)
          /\ UNCHANGED faults
       \/ /\ own[Health] = None
          /\ Fail("probe")
          /\ Probe(p, FALSE)
  /\ own' = [own EXCEPT ![Health] = None]
  /\ UNCHANGED <<boxVars, regVars, old, makerVars, silent, strays>>

\* restoreCooldownProxies: the set X of proxies whose cooldown is over is
\* dropped if the pool is over its size, else restored.
Restore ==
  /\ pc[Cooldown] = "idle"
  /\ Cooldown \in Loops
  /\ LoopsOn
  /\ \E X \in SUBSET {p \in pool : state[p] = "cooldown"} :
       \/ /\ Cardinality(pool) > size
          /\ todo' = [todo EXCEPT ![Cooldown] = X]
          /\ Goto(Cooldown, IF X = {} THEN "ensure" ELSE "drop")
          /\ UNCHANGED <<state, available>>
       \/ /\ Cardinality(pool) <= size
          /\ state' = [p \in Ids |-> IF p \in X THEN "idle" ELSE state[p]]
          /\ available' = (available \/ \E p \in X : ~Banned(p))
          /\ Goto(Cooldown, "ensure")
          /\ UNCHANGED todo
  /\ UNCHANGED <<boxVars, regVars, own, old, makerVars, ghostVars>>

\* The clock passes the end of a ban.  Nothing signals it.
BanExpires ==
  /\ \E i \in ipBans :
       /\ ipBans' = ipBans \ {i}
       /\ silent' = silent \cup {p \in pool : state[p] = "idle" /\ ip[p] = i}
  /\ UNCHANGED <<state, boxVars, sticky, size, spawning, closed, available,
                 pc, localVars, makerVars, strays, faults>>

-----------------------------------------------------------------------------
(***************************************************************************)
(* Management operations                                                   *)
(***************************************************************************)

SetPoolSize ==
  /\ pc[Admin] = "idle"
  /\ "resize" \in AdminOps
  /\ \E n \in Sizes \ {size} : size' = n
  /\ Goto(Admin, "ensure")
  /\ UNCHANGED <<state, boxVars, ipBans, sticky, spawning, closed, available,
                 localVars, makerVars, ghostVars>>

\* ForceRotate: at capacity some idle proxy makes room, then createProxy.
ForceRotate ==
  /\ pc[Admin] = "idle"
  /\ "rotate" \in AdminOps
  /\ Goto(Admin, "create")
  /\ LET idle == {p \in pool : state[p] = "idle"}
     IN  \/ /\ Cardinality(pool) >= size
            /\ \E p \in idle :
                 /\ state' = [state EXCEPT ![p] = "out"]
                 /\ doomed' = doomed \cup ({p} \cap Proxies)
         \/ /\ Cardinality(pool) < size \/ idle = {}
            /\ UNCHANGED <<state, doomed>>
  /\ UNCHANGED <<ip, boxes, leaked, regVars, available, localVars, makerVars,
                 ghostVars>>

\* AddExternalProxy: whatever was stored under the id is replaced.
AddExternalProxy ==
  /\ pc[Admin] = "idle"
  /\ "external" \in AdminOps
  /\ state' = [state EXCEPT ![Ext] = "idle"]
  /\ \E i \in IPs \cup {NoIP} : ip' = [ip EXCEPT ![Ext] = i]
  /\ silent' = silent \ {Ext}
  /\ Goto(Admin, "signal")
  /\ UNCHANGED <<boxes, doomed, leaked, regVars, available, localVars,
                 makerVars, strays, faults>>

\* RefreshPool ends with ensurePoolCapacity, after its AddExternalProxy calls.
RefreshPool ==
  /\ pc[Admin] = "idle"
  /\ "external" \in AdminOps
  /\ Goto(Admin, "ensure")
  /\ UNCHANGED <<state, boxVars, regVars, available, localVars, makerVars,
                 ghostVars>>

\* Close: mgr.Remove of every container of the pool; the entries stay.
Close ==
  /\ "close" \in AdminOps
  /\ ~closed
  /\ closed' = TRUE
  /\ doomed' = doomed \cup (pool \cap Proxies)
  /\ UNCHANGED <<state, ip, boxes, leaked, ipBans, sticky, size, spawning,
                 available, pc, localVars, makerVars, ghostVars>>

-----------------------------------------------------------------------------
\* NewPoolManagerWithManager, and Start has launched its creators.
Init ==
  /\ state = [p \in Ids |-> "out"]
  /\ ip = [p \in Ids |-> NoIP]
  /\ boxes = {}
  /\ doomed = {}
  /\ leaked = {}
  /\ ipBans = {}
  /\ sticky = [c \in Convs |-> None]
  /\ size = InitSize
  /\ spawning = 0
  /\ available = FALSE
  /\ closed = FALSE
  /\ \E C \in SUBSET Creators :
       /\ Cardinality(C) = InitSize
       /\ pc = [t \in Threads |-> IF t \in C THEN "create"
                                  ELSE IF t \in Creators THEN "off"
                                  ELSE "idle"]
  /\ own = [t \in Threads |-> None]
  /\ old = [t \in Threads |-> None]
  /\ todo = [t \in Threads |-> {}]
  /\ kind = [c \in Creators |-> "start"]
  /\ tries = [m \in Makers |-> 0]
  /\ rot = [m \in Makers |-> 0]
  /\ silent = {}
  /\ strays = {}
  /\ faults = 0

RequestStep(r) ==
  \/ Acquire(r) \/ Seek(r) \/ Wake(r) \/ GiveUp(r) \/ Release(r) \/ Swap(r)
  \/ MarkRateLimited(r) \/ MarkUnhealthy(r) \/ Answer(r)
  \/ ToolRound(r) \/ RoundSeek(r) \/ RoundWake(r) \/ RoundGivesUp(r)

CapacityStep(t) == Ensure(t) \/ Prune(t) \/ RemoveProxy(t)

MakerStep(m) ==
  \/ Create(m) \/ CreateFails(m) \/ Keep(m) \/ Rotate(m) \/ Announce(m)

LoopStep == HealthTick \/ Drifts \/ CheckOne \/ Restore \/ BanExpires

AdminStep ==
  SetPoolSize \/ ForceRotate \/ AddExternalProxy \/ RefreshPool \/ Close

Next ==
  \/ \E r \in Requests : RequestStep(r)
  \/ \E t \in Threads : CapacityStep(t)
  \/ \E m \in Makers : MakerStep(m)
  \/ \E c \in Creators : SpawnDone(c)
  \/ \E p \in Proxies : Erase(p)
  \/ LoopStep
  \/ AdminStep

Spec == Init /\ [][Next]_vars

(***************************************************************************)
(* Fairness.  Go runs every goroutine that can run, the tickers tick, the  *)
(* clock ends every ban, and a creation that is retried for ever succeeds. *)
(* Nothing is assumed of clients, of the management API or of failures,    *)
(* nor that a call of the provider ever returns.                           *)
(***************************************************************************)
Fairness ==
  /\ \A r \in Requests :
       /\ WF_vars(Seek(r) \/ Wake(r) \/ GiveUp(r) \/ Swap(r))
       /\ WF_vars(RoundSeek(r) \/ RoundWake(r) \/ RoundGivesUp(r))
       /\ WF_vars(pc[r] = "retry" /\ (Acquire(r) \/ Answer(r)))
  /\ \A t \in Threads : WF_vars(CapacityStep(t))
  /\ \A m \in Makers : WF_vars(Keep(m) \/ Rotate(m) \/ Announce(m))
  /\ \A m \in Makers : SF_vars(Create(m))
  /\ \A c \in Creators : WF_vars(SpawnDone(c))
  /\ \A p \in Proxies : WF_vars(Erase(p))
  /\ WF_vars(HealthTick \/ CheckOne)
  /\ WF_vars(Restore)
  /\ WF_vars(BanExpires)

FairSpec == Spec /\ Fairness

-----------------------------------------------------------------------------
(***************************************************************************)
(* Properties                                                              *)
(***************************************************************************)

\* The goroutines ensurePoolCapacity launched that have not run spawnDone.
Spawners == {c \in Creators : pc[c] # "off" /\ kind[c] = "spawn"}

\* Every variable keeps the type its Go counterpart has.
TypeOK ==
  /\ state \in [Ids -> States \cup {"out"}]
  /\ ip \in [Ids -> IPs \cup {NoIP}]
  /\ boxes \subseteq Proxies
  /\ doomed \subseteq Proxies
  /\ leaked \subseteq Proxies
  /\ ipBans \subseteq IPs
  /\ sticky \in [Convs -> Ids \cup {None}]
  /\ size \in Sizes \cup {InitSize}
  /\ spawning \in Nat
  /\ available \in BOOLEAN
  /\ closed \in BOOLEAN
  /\ pc \in [Threads -> PCs]
  /\ own \in [Threads -> Ids \cup {None}]
  /\ old \in [Threads -> Ids \cup {None}]
  /\ todo \in [Threads -> SUBSET Ids]
  /\ kind \in [Creators -> {"start", "spawn"}]
  /\ tries \in [Makers -> 0 .. MaxAttempts - 1]
  /\ rot \in [Makers -> 0 .. RotateAttempts]
  /\ silent \subseteq Ids
  /\ strays \subseteq Ids
  /\ faults \in 0 .. MaxFaults

\* pm.spawning is exactly the number of replacement goroutines in flight, on
\* every path through createProxy and pruneDeadProxies: a counter that drifts
\* up starves the pool for ever, one that drifts down spawns twice.
SpawnCount == spawning = Cardinality(Spawners)

\* However many goroutines call ensurePoolCapacity at once, the replacements
\* in flight never exceed the largest pool size that was configured.
InFlightBound == \E n \in Sizes \cup {InitSize} : Cardinality(Spawners) <= n

\* The request uses proxy p, or has just been given it.
Uses(r, p) == own[r] = p /\ pc[r] \in {"use", "swap", "round", "roundwait"}

\* A proxy of the pool that is marked active is in use by some request: no
\* interleaving of requests that share a proxy, of releases, marks, re-added
\* external proxies, bans and removals leaves a proxy busy that nobody will
\* ever give back.  The proxies doRound takes, and only they, are excepted.
NoStuckActive ==
  \A p \in pool : state[p] = "active" =>
    p \in strays \/ \E r \in Requests : Uses(r, p)

\* "proxy released back to Idle", at the end of every request: no proxy at all
\* stays busy without a user.
AllReleased ==
  \A p \in pool : state[p] = "active" => \E r \in Requests : Uses(r, p)

\* A running container is in the pool, or in the hands of the goroutine that
\* is about to keep or to rotate it, or its removal is under way, or was tried
\* and failed: none is started and forgotten.
NoOrphan ==
  \A p \in boxes :
    \/ p \in pool \cup doomed \cup leaked
    \/ \E m \in Makers : own[m] = p /\ pc[m] \in {"keep", "rotate"}

\* Until shutdown no entry of the pool, so no proxy a request can be given,
\* has lost its container or is about to: whoever removes a container has
\* first taken its entry out, and nobody puts it back.
NoGhostEntry == ~closed => pool \subseteq (boxes \ doomed) \cup {Ext}

\* Someone will signal pm.available: a creator that inserted a proxy, or a
\* request that is still on its way to ReleaseProxy or to the candidates.
SignalPending ==
  \/ \E m \in Makers : pc[m] = "signal"
  \/ \E r \in Requests :
       \/ pc[r] \in {"seek", "use", "swap", "round"}
       \/ old[r] # None /\ pc[r] \in {"ensure", "prune", "remove", "retry"}

Blocked == \E r \in Requests : pc[r] \in {"wait", "roundwait"}

\* The signals are coalesced in a channel of one slot, and still no waiter of
\* GetProxy is forgotten: when one is blocked while a proxy is eligible, a
\* token is in the channel or someone will put one there.  (Proxies that
\* became eligible because a ban lapsed or an address drifted are excepted.)
NoLostWakeup == Blocked /\ Candidates \ silent # {} => available \/ SignalPending

\* No goroutine is on its way anywhere: all are at rest or blocked.
Quiet == \A t \in Threads : pc[t] \in {"idle", "off", "wait", "roundwait"}

\* "GetProxy returns an available proxy, blocking if none available": when
\* nothing else is going on, no request is blocked beside an eligible proxy.
BlocksOnlyIfNone == Quiet /\ Blocked /\ Candidates # {} => available

\* "pruneDeadProxies removes cooldown/unhealthy proxies": the proxy it removes
\* is still dead when it is removed.
PruneOnlyDead ==
  [][\A t \in Threads : pc[t] = "remove" /\ RemoveProxy(t) =>
        \A p \in pool \ pool' : p \in Dead]_vars

\* "Never shrink below the configured pool size."
NeverShrinks ==
  [][\A t \in Threads : pc[t] = "remove" /\ RemoveProxy(t) /\ pool' # pool =>
        Cardinality(pool') >= size]_vars

\* "never grows past ProxyPoolSize + the deficit being created"
NeverGrowsPast == Cardinality(pool) <= size + spawning

\* Whatever bans, failed creations, drifts and stale removals do to the pool,
\* it always comes back to its configured capacity.
Replenishes == []<>(Cardinality(Usable) >= size)

\* "pool size converges back to PROXY_POOL_SIZE": once failures stop, the pool
\* reaches its capacity and stays there.
Converges == <>[](Cardinality(Usable) >= size)
=============================================================================
