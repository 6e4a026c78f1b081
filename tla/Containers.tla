----------------------------- MODULE Containers -----------------------------
(***************************************************************************)
(* The VPN containers of the gateway, across its restarts: buildManager of *)
(* cmd/gateway/main.go, DockerManager of internal/proxy/docker.go and      *)
(* CompositeManager of internal/proxy/composite_manager.go.                *)
(*                                                                         *)
(* A call of the Docker daemon is a step.  The daemon keeps containers     *)
(* when the gateway stops; their names are the ports they are bound to.    *)
(* The pool is the caller: it holds what CreateEx returned and removes any *)
(* of it at any time.  One account is served by its DockerManager alone,   *)
(* several by a CompositeManager.  External proxies have no container, and *)
(* where some are configured no other manager is ever asked to create.     *)
(***************************************************************************)
EXTENDS Integers, FiniteSets

CONSTANTS
  Boxes,        \* container ids (bound: how many exist at a time)
  NoBox,
  Creators,     \* goroutines that run CreateEx
  MaxAccounts,  \* how many accounts may be configured (bound)
  MaxPort,      \* how many ports a manager uses before it stops (bound)
  MaxFaults     \* how many calls fail (bound)

ASSUME ContainerAssumption ==
  /\ MaxAccounts \in Nat \ {0}
  /\ MaxPort \in Nat
  /\ MaxFaults \in Nat
  /\ NoBox \notin Boxes

VARIABLES
  accounts,   \* how many accounts buildManager found
  process,    \* the gateway process, up or down
  built,      \* how many DockerManagers it has built
  vpnIdx,     \* CompositeManager.vpnIdx, modulo the accounts
  nextPort,   \* DockerManager.nextPort, relative to ProxyBasePort
  proxyOwner, \* CompositeManager.proxyOwner, 0 if there is no entry
  box,        \* the daemon: the state of each container,
  port,       \* the port in its name
  maker,      \* and the account it was made for
  held,       \* the containers of proxies the pool has
  pc,         \* where each CreateEx is
  mgr,        \* the account it creates for
  want,       \* the port it took
  hand,       \* the container it has created
  stale,      \* history: containers of earlier processes
  lost,       \* history: containers whose removal failed, or whose creation
              \* was never answered
  faults      \* failed calls so far

daemon == <<box, port, maker>>
local  == <<mgr, want, hand>>
vars == <<accounts, process, built, vpnIdx, nextPort, proxyOwner, box, port,
          maker, held, pc, mgr, want, hand, stale, lost, faults>>

Accounts == 1 .. MaxAccounts

\* The containers the daemon has.
Existing == {b \in Boxes : box[b] # "none"}

Composite == accounts > 1

\* Mutant: the pool starts as soon as there is a manager.
ServingEarly == process = "up" /\ built > 0

\* buildManager has returned and the pool is started.
Serving == process = "up" /\ built = accounts

\* Mutant: only containers that run are listed.
OrphansRunning == {b \in Boxes : box[b] = "running"}

\* cleanupOrphans lists all containers with the label, started or not.
Orphans == Existing

\* CompositeManager.getOwner.  Entries are made under the proxy id, the first
\* characters of the container id, so no container id is ever a key.
GetOwner(kind, b) == IF kind = "proxy" THEN proxyOwner[b] ELSE 0

Fail == faults < MaxFaults /\ faults' = faults + 1

Ok == UNCHANGED faults

Goto(c, l) == pc' = [pc EXCEPT ![c] = l]

\* Ids of containers that nothing refers to.
Free == Boxes \ (Existing \cup held \cup stale \cup lost
                 \cup {hand[c] : c \in Creators})

(***************************************************************************)
(* The process                                                             *)
(***************************************************************************)

Init ==
  /\ accounts \in Accounts
  /\ process = "up"
  /\ built = 0
  /\ vpnIdx = 0
  /\ nextPort = [m \in Accounts |-> 0]
  /\ proxyOwner = [b \in Boxes |-> 0]
  /\ box = [b \in Boxes |-> "none"]
  /\ port = [b \in Boxes |-> 0]
  /\ maker = [b \in Boxes |-> 1]
  /\ held = {}
  /\ pc = [c \in Creators |-> "idle"]
  /\ mgr = [c \in Creators |-> 1]
  /\ want = [c \in Creators |-> 0]
  /\ hand = [c \in Creators |-> NoBox]
  /\ stale = {}
  /\ lost = {}
  /\ faults = 0

\* NewDockerManager of the next account, with cleanupOrphans; a removal that
\* fails, or the listing, is logged.
Build ==
  /\ process = "up"
  /\ built < accounts
  /\ built' = built + 1
  /\ \E kept \in SUBSET Orphans :
       /\ IF kept = {} THEN Ok ELSE Fail
       /\ box' = [b \in Boxes |->
                    IF b \in Orphans \ kept THEN "none" ELSE box[b]]
       /\ stale' = stale \ (Orphans \ kept)
       /\ lost' = (lost \ Orphans) \cup kept
  /\ UNCHANGED <<accounts, process, vpnIdx, nextPort, proxyOwner, port, maker,
                 held, pc, local>>

\* The process ends: by a signal, by a crash, or because an account cannot
\* log in.  What its pool could remove before is up to Remove.
Stop ==
  /\ process = "up"
  /\ process' = "down"
  /\ built' = 0
  /\ vpnIdx' = 0
  /\ nextPort' = [m \in Accounts |-> 0]
  /\ proxyOwner' = [b \in Boxes |-> 0]
  /\ held' = {}
  /\ pc' = [c \in Creators |-> "idle"]
  /\ mgr' = [c \in Creators |-> 1]
  /\ want' = [c \in Creators |-> 0]
  /\ hand' = [c \in Creators |-> NoBox]
  /\ stale' = Existing
  /\ lost' = {}
  /\ UNCHANGED <<accounts, daemon, faults>>

\* It is started again, with the accounts now configured.
Start ==
  /\ process = "down"
  /\ process' = "up"
  /\ accounts' \in Accounts
  /\ UNCHANGED <<built, vpnIdx, nextPort, proxyOwner, daemon, held, pc, local,
                 stale, lost, faults>>

(***************************************************************************)
(* CreateEx                                                                *)
(***************************************************************************)

\* The manager whose turn it is.
NextMgr == IF Composite THEN vpnIdx + 1 ELSE 1

\* CreateEx up to the port.  Without an image, server, certificate or key it
\* returns before it takes one.
Pick(c) ==
  /\ Serving
  /\ pc[c] = "idle"
  /\ vpnIdx' = IF Composite THEN (vpnIdx + 1) % accounts ELSE vpnIdx
  /\ \/ /\ Ok
        /\ nextPort[NextMgr] < MaxPort
        /\ nextPort' = [nextPort EXCEPT ![NextMgr] = @ + 1]
        /\ want' = [want EXCEPT ![c] = nextPort[NextMgr] + 1]
        /\ mgr' = [mgr EXCEPT ![c] = NextMgr]
        /\ Goto(c, "create")
     \/ Fail /\ UNCHANGED <<nextPort, want, mgr, pc>>
  /\ UNCHANGED <<accounts, process, built, proxyOwner, daemon, held, hand,
                 stale, lost>>

\* The daemon refuses a name that exists.
NameTaken(c) == \E b \in Existing : port[b] = want[c]

\* ContainerCreate; the answer of one that succeeded may not come back.
ContainerCreate(c) ==
  /\ pc[c] = "create"
  /\ \/ /\ ~NameTaken(c)
        /\ \E b \in Free :
             /\ box' = [box EXCEPT ![b] = "created"]
             /\ port' = [port EXCEPT ![b] = want[c]]
             /\ maker' = [maker EXCEPT ![b] = mgr[c]]
             /\ \/ /\ Ok
                   /\ hand' = [hand EXCEPT ![c] = b]
                   /\ Goto(c, "start")
                   /\ UNCHANGED lost
                \/ /\ Fail
                   /\ lost' = lost \cup {b}
                   /\ Goto(c, "idle")
                   /\ UNCHANGED hand
     \/ /\ (NameTaken(c) /\ Ok) \/ Fail
        /\ Goto(c, "idle")
        /\ UNCHANGED <<daemon, hand, lost>>
  /\ UNCHANGED <<accounts, process, built, vpnIdx, nextPort, proxyOwner, held,
                 mgr, want, stale>>

\* CreateEx fails with a container in hand and removes it.  When its context
\* has ended the removal fails as well.
Discard(c) ==
  /\ \/ /\ box' = [box EXCEPT ![hand[c]] = "none"]
        /\ UNCHANGED lost
     \/ /\ lost' = lost \cup {hand[c]}
        /\ UNCHANGED box
  /\ hand' = [hand EXCEPT ![c] = NoBox]
  /\ Goto(c, "idle")

\* Mutant: a container that does not start is not removed.
ContainerStartForgets(c) ==
  /\ pc[c] = "start"
  /\ \/ /\ Ok
        /\ box' = [box EXCEPT ![hand[c]] = "running"]
        /\ Goto(c, "wait")
        /\ UNCHANGED hand
     \/ /\ Fail
        /\ hand' = [hand EXCEPT ![c] = NoBox]
        /\ Goto(c, "idle")
        /\ UNCHANGED box
  /\ UNCHANGED <<accounts, process, built, vpnIdx, nextPort, proxyOwner, port,
                 maker, held, mgr, want, stale, lost>>

ContainerStart(c) ==
  /\ pc[c] = "start"
  /\ \/ /\ Ok
        /\ box' = [box EXCEPT ![hand[c]] = "running"]
        /\ Goto(c, "wait")
        /\ UNCHANGED <<hand, lost>>
     \/ Fail /\ Discard(c)
  /\ UNCHANGED <<accounts, process, built, vpnIdx, nextPort, proxyOwner, port,
                 maker, held, mgr, want, stale>>

\* Mutant: the owner is computed again from the counter.
ReadyRecounted(c) ==
  /\ pc[c] = "wait"
  /\ held' = held \cup {hand[c]}
  /\ proxyOwner' = [proxyOwner EXCEPT ![hand[c]] =
                      IF Composite THEN ((vpnIdx + accounts - 1) % accounts) + 1
                      ELSE 0]
  /\ hand' = [hand EXCEPT ![c] = NoBox]
  /\ Goto(c, "idle")
  /\ UNCHANGED <<accounts, process, built, vpnIdx, nextPort, daemon, mgr, want,
                 stale, lost, faults>>

\* waitForReady succeeds, the owner is entered and the pool has the proxy.
Ready(c) ==
  /\ pc[c] = "wait"
  /\ held' = held \cup {hand[c]}
  /\ proxyOwner' = [proxyOwner EXCEPT ![hand[c]] =
                      IF Composite THEN mgr[c] ELSE 0]
  /\ hand' = [hand EXCEPT ![c] = NoBox]
  /\ Goto(c, "idle")
  /\ UNCHANGED <<accounts, process, built, vpnIdx, nextPort, daemon, mgr, want,
                 stale, lost, faults>>

\* waitForReady ends by its timeout or by the context.
NotReady(c) ==
  /\ pc[c] = "wait"
  /\ Fail
  /\ Discard(c)
  /\ UNCHANGED <<accounts, process, built, vpnIdx, nextPort, proxyOwner, port,
                 maker, held, mgr, want, stale>>

(***************************************************************************)
(* Remove                                                                  *)
(***************************************************************************)

\* The pool gives a proxy up and calls Remove with its container id; an error
\* is logged.
Remove(b) ==
  LET m == IF Composite THEN GetOwner("container", b) ELSE 1
  IN  /\ b \in held
      /\ held' = held \ {b}
      /\ \/ /\ m # 0
            /\ Ok
            /\ box' = [box EXCEPT ![b] = "none"]
            /\ UNCHANGED lost
         \/ /\ (m = 0 /\ Ok) \/ (m # 0 /\ Fail)
            /\ lost' = lost \cup {b}
            /\ UNCHANGED box
      /\ UNCHANGED <<accounts, process, built, vpnIdx, nextPort, proxyOwner,
                     port, maker, pc, local, stale>>

Next ==
  \/ Build \/ Stop \/ Start
  \/ \E c \in Creators :
       \/ Pick(c) \/ ContainerCreate(c) \/ ContainerStart(c)
       \/ Ready(c) \/ NotReady(c)
  \/ \E b \in Boxes : Remove(b)

Spec == Init /\ [][Next]_vars

-----------------------------------------------------------------------------
(***************************************************************************)
(* Properties                                                              *)
(***************************************************************************)

\* Every variable keeps its type; a CreateEx past the creation has a container
\* in hand.
TypeOK ==
  /\ accounts \in Accounts
  /\ process \in {"up", "down"}
  /\ built \in Nat /\ built <= accounts
  /\ vpnIdx \in Nat /\ vpnIdx < accounts
  /\ nextPort \in [Accounts -> 0 .. MaxPort]
  /\ proxyOwner \in [Boxes -> 0 .. MaxAccounts]
  /\ box \in [Boxes -> {"none", "created", "running"}]
  /\ port \in [Boxes -> 0 .. MaxPort]
  /\ maker \in [Boxes -> Accounts]
  /\ held \subseteq Boxes
  /\ pc \in [Creators -> {"idle", "create", "start", "wait"}]
  /\ mgr \in [Creators -> Accounts]
  /\ want \in [Creators -> 0 .. MaxPort]
  /\ hand \in [Creators -> Boxes \cup {NoBox}]
  /\ \A c \in Creators : pc[c] \in {"start", "wait"} <=> hand[c] # NoBox
  /\ stale \subseteq Boxes
  /\ lost \subseteq Boxes
  /\ faults \in 0 .. MaxFaults

\* Every container is in the pool, in the hands of the CreateEx that makes it,
\* left by an earlier process, or one whose removal or creation failed: no
\* error path of CreateEx forgets what it has made.
Accounted ==
  Existing \subseteq held \cup stale \cup lost \cup {hand[c] : c \in Creators}

\* Once the pool is started nothing of an earlier process is left but what the
\* cleanup of every account failed to remove, whether it was started or not.
Reaped == Serving => stale \subseteq lost

\* A container of the pool runs: no cleanup of a manager that is built later
\* takes it for an orphan.
HeldRuns == \A b \in held : box[b] = "running"

\* With one account no two containers want the same name, whatever number of
\* creations run side by side; only an orphan that could not be removed may
\* stand in the way.
NamesFresh ==
  ~Composite =>
    \A c \in Creators : pc[c] = "create" =>
      \A b \in Existing : port[b] = want[c] => b \in stale

\* The owner entered for a proxy, which HealthCheck asks, is the account it
\* was made for, although others create at the same time.
OwnerRight ==
  Composite => \A b \in held : GetOwner("proxy", b) = maker[b]

\* "Proxy ownership is tracked so Remove/HealthCheck/Exec route to the correct
\* sub-manager": unless a call fails, a container the pool removes is gone.
RemoveReaches ==
  [][\A b \in Boxes : Remove(b) /\ faults' = faults => box'[b] = "none"]_vars

\* "to avoid name conflicts": also with several accounts, whose managers count
\* their ports from the same base, a name in the way is an orphan's.
NoNameConflict ==
  \A c \in Creators : pc[c] = "create" =>
    \A b \in Existing : port[b] = want[c] => b \in stale
=============================================================================
