-------------------------- MODULE ContainersProofs --------------------------
(***************************************************************************)
(* Containers are accounted for and those of the pool run, for any number  *)
(* of containers, creators and accounts and any number of restarts.        *)
(***************************************************************************)
EXTENDS Containers, TLAPS

\* A container in the hands of a CreateEx is in the state it has come to, in
\* no other hands, and nobody else refers to it.
HandsOK ==
  /\ \A c \in Creators : hand[c] # NoBox =>
       /\ box[hand[c]] = IF pc[c] = "start" THEN "created" ELSE "running"
       /\ hand[c] \notin held \cup stale \cup lost
  /\ \A c, d \in Creators : hand[c] # NoBox /\ hand[c] = hand[d] => c = d

\* Until all managers are built the pool has nothing and creates nothing, and
\* before the first is, the containers of earlier processes are all there.
BuildOK ==
  /\ ~Serving => held = {} /\ \A c \in Creators : pc[c] = "idle"
  /\ process = "down" => vpnIdx = 0 /\ built = 0
  /\ built = 0 => stale \subseteq Existing
  /\ process = "up" /\ built > 0 => stale \subseteq lost

\* TypeOK in three parts.
ProcessType ==
  /\ accounts \in Accounts
  /\ process \in {"up", "down"}
  /\ built \in Nat /\ built <= accounts
  /\ vpnIdx \in Nat /\ vpnIdx < accounts
  /\ nextPort \in [Accounts -> 0 .. MaxPort]
  /\ faults \in 0 .. MaxFaults

BoxType ==
  /\ proxyOwner \in [Boxes -> 0 .. MaxAccounts]
  /\ box \in [Boxes -> {"none", "created", "running"}]
  /\ port \in [Boxes -> 0 .. MaxPort]
  /\ maker \in [Boxes -> Accounts]
  /\ held \subseteq Boxes
  /\ stale \subseteq Boxes
  /\ lost \subseteq Boxes

LocalType ==
  /\ pc \in [Creators -> {"idle", "create", "start", "wait"}]
  /\ mgr \in [Creators -> Accounts]
  /\ want \in [Creators -> 0 .. MaxPort]
  /\ hand \in [Creators -> Boxes \cup {NoBox}]
  /\ \A c \in Creators : pc[c] \in {"start", "wait"} <=> hand[c] # NoBox

LEMMA TypeParts == TypeOK <=> ProcessType /\ BoxType /\ LocalType
  BY DEF TypeOK, ProcessType, BoxType, LocalType

Inv == TypeOK /\ Accounted /\ HeldRuns /\ HandsOK /\ BuildOK

LEMMA InitInv == Init => Inv
  BY ContainerAssumption
     DEF Init, Inv, TypeOK, Accounted, HeldRuns, HandsOK, BuildOK, Existing,
         Accounts, Serving

\* The round-robin counter stays below the number of accounts.
LEMMA IndexType ==
  ASSUME NEW n \in Nat \ {0}, NEW i \in Nat
  PROVE  (i + 1) % n \in Nat /\ (i + 1) % n < n
  OBVIOUS

LEMMA NextMgrType ==
  ASSUME ProcessType
  PROVE  NextMgr \in Accounts
  BY ContainerAssumption DEF ProcessType, Accounts, NextMgr, Composite

LEMMA NextProcess ==
  ASSUME ProcessType, BuildOK, Next
  PROVE  ProcessType'
  <1>. USE ContainerAssumption
       DEF ProcessType, Accounts, daemon, local, Ok, Fail, Goto
  <1>1. CASE Build
    BY <1>1 DEF Build, Orphans
  <1>2. CASE Stop
    BY <1>2 DEF Stop
  <1>3. CASE Start
    BY <1>3 DEF Start, BuildOK
  <1>4. ASSUME NEW c \in Creators, Pick(c) PROVE ProcessType'
    <2>1. vpnIdx' \in Nat /\ vpnIdx' < accounts
      BY <1>4, IndexType DEF Pick, Composite
    <2>2. nextPort' \in [Accounts -> 0 .. MaxPort]
      BY <1>4, NextMgrType DEF Pick
    <2>. QED BY <1>4, <2>1, <2>2 DEF Pick
  <1>5. ASSUME NEW c \in Creators, ContainerCreate(c) PROVE ProcessType'
    BY <1>5 DEF ContainerCreate, Free
  <1>6. ASSUME NEW c \in Creators, ContainerStart(c) PROVE ProcessType'
    BY <1>6 DEF ContainerStart, Discard
  <1>7. ASSUME NEW c \in Creators, Ready(c) PROVE ProcessType'
    BY <1>7 DEF Ready
  <1>8. ASSUME NEW c \in Creators, NotReady(c) PROVE ProcessType'
    BY <1>8 DEF NotReady, Discard
  <1>9. ASSUME NEW b \in Boxes, Remove(b) PROVE ProcessType'
    BY <1>9 DEF Remove
  <1>. QED BY <1>1, <1>2, <1>3, <1>4, <1>5, <1>6, <1>7, <1>8, <1>9 DEF Next

LEMMA NextBoxes ==
  ASSUME ProcessType, BoxType, LocalType, Next
  PROVE  BoxType'
  <1>. USE ContainerAssumption
       DEF BoxType, Accounts, daemon, local, Ok, Fail, Goto
  <1>. USE DEF LocalType
  <1>1. CASE Build
    BY <1>1 DEF Build, Orphans, Existing
  <1>2. CASE Stop
    BY <1>2 DEF Stop, Existing
  <1>3. CASE Start
    BY <1>3 DEF Start
  <1>4. ASSUME NEW c \in Creators, Pick(c) PROVE BoxType'
    BY <1>4 DEF Pick, NextMgr, Composite
  <1>5. ASSUME NEW c \in Creators, ContainerCreate(c) PROVE BoxType'
    BY <1>5 DEF ContainerCreate, Free
  <1>6. ASSUME NEW c \in Creators, ContainerStart(c) PROVE BoxType'
    BY <1>6 DEF ContainerStart, Discard
  <1>7. ASSUME NEW c \in Creators, Ready(c) PROVE BoxType'
    BY <1>7 DEF Ready
  <1>8. ASSUME NEW c \in Creators, NotReady(c) PROVE BoxType'
    BY <1>8 DEF NotReady, Discard
  <1>9. ASSUME NEW b \in Boxes, Remove(b) PROVE BoxType'
    BY <1>9 DEF Remove
  <1>. QED BY <1>1, <1>2, <1>3, <1>4, <1>5, <1>6, <1>7, <1>8, <1>9 DEF Next

LEMMA NextLocal ==
  ASSUME ProcessType, LocalType, BoxType, Next
  PROVE  LocalType'
  <1>. USE ContainerAssumption
       DEF LocalType, Accounts, daemon, local, Ok, Fail, Goto
  <1>. USE DEF ProcessType
  <1>1. CASE Build
    BY <1>1 DEF Build, Orphans
  <1>2. CASE Stop
    BY <1>2 DEF Stop
  <1>3. CASE Start
    BY <1>3 DEF Start
  <1>4. ASSUME NEW c \in Creators, Pick(c) PROVE LocalType'
    <2>1. want' \in [Creators -> 0 .. MaxPort]
      <3>1. nextPort[NextMgr] \in 0 .. MaxPort
        BY NextMgrType
      <3>2. CASE want' = want
        BY <3>2
      <3>3. CASE /\ nextPort[NextMgr] < MaxPort
                 /\ want' = [want EXCEPT ![c] = nextPort[NextMgr] + 1]
        <4>1. nextPort[NextMgr] + 1 \in 0 .. MaxPort
          BY <3>1, <3>3
        <4>. QED BY <3>3, <4>1
      <3>. QED BY <1>4, <3>2, <3>3 DEF Pick
    <2>2. mgr' \in [Creators -> Accounts]
      BY <1>4, NextMgrType DEF Pick
    <2>3. hand' = hand
      BY <1>4 DEF Pick
    <2>4. pc' = [pc EXCEPT ![c] = "create"] \/ pc' = pc
      BY <1>4 DEF Pick
    <2>5. pc[c] = "idle"
      BY <1>4 DEF Pick
    <2>. QED BY <2>1, <2>2, <2>3, <2>4, <2>5
  <1>5. ASSUME NEW c \in Creators, ContainerCreate(c) PROVE LocalType'
    <2>1. mgr' = mgr /\ want' = want /\ pc[c] = "create"
      BY <1>5 DEF ContainerCreate
    <2>2. \/ \E b \in Boxes : /\ hand' = [hand EXCEPT ![c] = b]
                              /\ pc' = [pc EXCEPT ![c] = "start"]
          \/ hand' = hand /\ pc' = [pc EXCEPT ![c] = "idle"]
      BY <1>5 DEF ContainerCreate, Free
    <2>. QED BY <2>1, <2>2
  <1>6. ASSUME NEW c \in Creators, ContainerStart(c) PROVE LocalType'
    BY <1>6 DEF ContainerStart, Discard
  <1>7. ASSUME NEW c \in Creators, Ready(c) PROVE LocalType'
    BY <1>7 DEF Ready
  <1>8. ASSUME NEW c \in Creators, NotReady(c) PROVE LocalType'
    BY <1>8 DEF NotReady, Discard
  <1>9. ASSUME NEW b \in Boxes, Remove(b) PROVE LocalType'
    BY <1>9 DEF Remove
  <1>. QED BY <1>1, <1>2, <1>3, <1>4, <1>5, <1>6, <1>7, <1>8, <1>9 DEF Next

\* What refers to a container.
Referred(b) ==
  b \in held \/ b \in stale \/ b \in lost \/ \E c \in Creators : hand[c] = b

LEMMA AccountedReferred ==
  Accounted <=> \A b \in Boxes : box[b] # "none" => Referred(b)
  BY DEF Accounted, Referred, Existing

LEMMA AccountedReferredNext ==
  Accounted' <=> \A b \in Boxes : box'[b] # "none" => Referred(b)'
  BY DEF Accounted, Referred, Existing

LEMMA NextAccounted ==
  ASSUME BoxType, LocalType, Accounted, Next
  PROVE  Accounted'
  <1>. SUFFICES ASSUME NEW x \in Boxes, box'[x] # "none"
                PROVE  Referred(x)'
    BY AccountedReferredNext
  <1>0. box[x] # "none" => Referred(x)
    BY AccountedReferred
  <1>. USE ContainerAssumption
       DEF BoxType, LocalType, Referred, daemon, local, Goto
  <1>1. CASE Build
    BY <1>1 DEF Build, Orphans, Existing
  <1>2. CASE Stop
    BY <1>2 DEF Stop, Existing
  <1>3. CASE Start
    BY <1>0, <1>3 DEF Start
  <1>4. ASSUME NEW c \in Creators, Pick(c) PROVE Referred(x)'
    BY <1>0, <1>4 DEF Pick
  <1>5. ASSUME NEW c \in Creators, ContainerCreate(c) PROVE Referred(x)'
    BY <1>0, <1>5 DEF ContainerCreate, Free
  <1>6. ASSUME NEW c \in Creators, ContainerStart(c) PROVE Referred(x)'
    BY <1>0, <1>6 DEF ContainerStart, Discard
  <1>7. ASSUME NEW c \in Creators, Ready(c) PROVE Referred(x)'
    BY <1>0, <1>7 DEF Ready
  <1>8. ASSUME NEW c \in Creators, NotReady(c) PROVE Referred(x)'
    BY <1>0, <1>8 DEF NotReady, Discard
  <1>9. ASSUME NEW b \in Boxes, Remove(b) PROVE Referred(x)'
    BY <1>0, <1>9 DEF Remove
  <1>. QED BY <1>1, <1>2, <1>3, <1>4, <1>5, <1>6, <1>7, <1>8, <1>9 DEF Next

LEMMA NextHeldRuns ==
  ASSUME ProcessType, BoxType, LocalType, HandsOK, BuildOK, HeldRuns, Next
  PROVE  HeldRuns'
  <1>. USE ContainerAssumption
       DEF BoxType, LocalType, HeldRuns, daemon, local, Goto
  <1>1. CASE Build
    BY <1>1 DEF Build, BuildOK, Serving, ProcessType, Accounts
  <1>2. CASE Stop
    BY <1>2 DEF Stop
  <1>3. CASE Start
    BY <1>3 DEF Start
  <1>4. ASSUME NEW c \in Creators, Pick(c) PROVE HeldRuns'
    BY <1>4 DEF Pick
  <1>5. ASSUME NEW c \in Creators, ContainerCreate(c) PROVE HeldRuns'
    BY <1>5 DEF ContainerCreate, Free
  <1>6. ASSUME NEW c \in Creators, ContainerStart(c) PROVE HeldRuns'
    BY <1>6 DEF ContainerStart, Discard, HandsOK
  <1>7. ASSUME NEW c \in Creators, Ready(c) PROVE HeldRuns'
    BY <1>7 DEF Ready, HandsOK
  <1>8. ASSUME NEW c \in Creators, NotReady(c) PROVE HeldRuns'
    BY <1>8 DEF NotReady, Discard, HandsOK
  <1>9. ASSUME NEW b \in Boxes, Remove(b) PROVE HeldRuns'
    BY <1>9 DEF Remove
  <1>. QED BY <1>1, <1>2, <1>3, <1>4, <1>5, <1>6, <1>7, <1>8, <1>9 DEF Next

LEMMA NextHands ==
  ASSUME ProcessType, BoxType, LocalType, HandsOK, BuildOK, Next
  PROVE  HandsOK'
  <1>. USE ContainerAssumption
       DEF BoxType, LocalType, HandsOK, daemon, local, Goto
  <1>1. CASE Build
    <2>0. ~Serving
      BY <1>1 DEF Build, Serving, ProcessType, Accounts
    <2>1. \A c \in Creators : hand[c] = NoBox
      BY <2>0 DEF BuildOK
    <2>2. hand' = hand
      BY <1>1 DEF Build
    <2>. QED BY <2>1, <2>2
  <1>2. CASE Stop
    BY <1>2 DEF Stop
  <1>3. CASE Start
    BY <1>3 DEF Start
  <1>4. ASSUME NEW c \in Creators, Pick(c) PROVE HandsOK'
    BY <1>4 DEF Pick
  <1>5. ASSUME NEW c \in Creators, ContainerCreate(c) PROVE HandsOK'
    BY <1>5 DEF ContainerCreate, Free
  <1>6. ASSUME NEW c \in Creators, ContainerStart(c) PROVE HandsOK'
    BY <1>6 DEF ContainerStart, Discard
  <1>7. ASSUME NEW c \in Creators, Ready(c) PROVE HandsOK'
    BY <1>7 DEF Ready
  <1>8. ASSUME NEW c \in Creators, NotReady(c) PROVE HandsOK'
    BY <1>8 DEF NotReady, Discard
  <1>9. ASSUME NEW b \in Boxes, Remove(b) PROVE HandsOK'
    BY <1>9 DEF Remove
  <1>. QED BY <1>1, <1>2, <1>3, <1>4, <1>5, <1>6, <1>7, <1>8, <1>9 DEF Next

LEMMA NextBuild ==
  ASSUME ProcessType, BoxType, LocalType, BuildOK, Next
  PROVE  BuildOK'
  <1>. USE ContainerAssumption
       DEF ProcessType, Accounts, BuildOK, Serving, daemon, local, Goto
  <1>1. CASE Build
    BY <1>1 DEF Build, Orphans, Existing, BoxType
  <1>2. CASE Stop
    BY <1>2 DEF Stop, Existing
  <1>3. CASE Start
    BY <1>3 DEF Start, Existing
  <1>4. ASSUME NEW c \in Creators, Pick(c) PROVE BuildOK'
    BY <1>4 DEF Pick
  <1>5. ASSUME NEW c \in Creators, ContainerCreate(c) PROVE BuildOK'
    BY <1>5 DEF ContainerCreate
  <1>6. ASSUME NEW c \in Creators, ContainerStart(c) PROVE BuildOK'
    BY <1>6 DEF ContainerStart, Discard
  <1>7. ASSUME NEW c \in Creators, Ready(c) PROVE BuildOK'
    BY <1>7 DEF Ready
  <1>8. ASSUME NEW c \in Creators, NotReady(c) PROVE BuildOK'
    BY <1>8 DEF NotReady, Discard
  <1>9. ASSUME NEW b \in Boxes, Remove(b) PROVE BuildOK'
    BY <1>9 DEF Remove
  <1>. QED BY <1>1, <1>2, <1>3, <1>4, <1>5, <1>6, <1>7, <1>8, <1>9 DEF Next

\* The inductive invariant holds of every behaviour of Containers.
THEOREM Invariant == Spec => []Inv
  <1>1. Inv /\ [Next]_vars => Inv'
    <2>. SUFFICES ASSUME Inv, [Next]_vars PROVE Inv'
      OBVIOUS
    <2>1. CASE Next
      <3>1. ProcessType /\ BoxType /\ LocalType
        BY TypeParts DEF Inv
      <3>2. ProcessType' /\ BoxType' /\ LocalType'
        BY <2>1, <3>1, NextProcess, NextBoxes, NextLocal DEF Inv
      <3>3. TypeOK'
        BY <3>2 DEF TypeOK, ProcessType, BoxType, LocalType
      <3>. QED
        BY <2>1, <3>1, <3>3, NextAccounted, NextHeldRuns, NextHands, NextBuild
           DEF Inv
    <2>2. CASE UNCHANGED vars
      BY <2>2
         DEF vars, Inv, TypeOK, Accounted, HeldRuns, HandsOK, BuildOK,
             Existing, Serving
    <2>. QED BY <2>1, <2>2
  <1>. QED BY InitInv, <1>1, PTL DEF Spec

\* Every variable keeps its type, restarts included.
THEOREM TypeCorrect == Spec => []TypeOK
  <1>1. Inv => TypeOK
    BY DEF Inv
  <1>. QED BY Invariant, <1>1, PTL

\* No path of CreateEx or Remove forgets a container: what exists is in the
\* pool, in the hands of its creator, left by an earlier process, or recorded
\* as one whose removal or creation failed.
THEOREM AccountedAlways == Spec => []Accounted
  <1>1. Inv => Accounted
    BY DEF Inv
  <1>. QED BY Invariant, <1>1, PTL

\* The pool never has a container that does not run: the cleanup of orphans,
\* which every manager runs, never takes one that is in use.
THEOREM HeldRunsAlways == Spec => []HeldRuns
  <1>1. Inv => HeldRuns
    BY DEF Inv
  <1>. QED BY Invariant, <1>1, PTL

\* When the pool starts, what is left of earlier processes is what every
\* cleanup failed to remove.
THEOREM ReapedAlways == Spec => []Reaped
  <1>1. Inv => Reaped
    BY ContainerAssumption DEF Inv, TypeOK, BuildOK, Reaped, Serving, Accounts
  <1>. QED BY Invariant, <1>1, PTL

\* A CreateEx creates for the account it took its port from, and what is
\* entered when the proxy is ready is that account.
OwnedOK ==
  /\ OwnerRight
  /\ \A c \in Creators : hand[c] # NoBox => maker[hand[c]] = mgr[c]

\* Every step keeps the owners right, although others create at the same time.
LEMMA NextOwned ==
  ASSUME ProcessType, BoxType, LocalType, HandsOK, BuildOK, OwnedOK, Next
  PROVE  OwnedOK'
  <1>. USE ContainerAssumption
       DEF BoxType, LocalType, OwnedOK, OwnerRight, GetOwner, Composite, daemon, local, Goto
  <1>1. CASE Build
    BY <1>1 DEF Build
  <1>2. CASE Stop
    BY <1>2 DEF Stop
  <1>3. CASE Start
    <2>1. held = {} /\ \A c \in Creators : hand[c] = NoBox
      BY <1>3 DEF Start, BuildOK, Serving
    <2>. QED BY <1>3, <2>1 DEF Start
  <1>4. ASSUME NEW c \in Creators, Pick(c) PROVE OwnedOK'
    <2>1. hand[c] = NoBox
      BY <1>4 DEF Pick
    <2>2. \A d \in Creators : d # c => mgr'[d] = mgr[d]
      BY <1>4 DEF Pick
    <2>3. UNCHANGED <<accounts, proxyOwner, maker, held, hand>>
      BY <1>4 DEF Pick
    <2>. QED BY <2>1, <2>2, <2>3
  <1>5. ASSUME NEW c \in Creators, ContainerCreate(c) PROVE OwnedOK'
    <2>1. UNCHANGED <<accounts, proxyOwner, held, mgr>>
      BY <1>5 DEF ContainerCreate
    <2>2. CASE UNCHANGED <<maker, hand>>
      BY <2>1, <2>2
    <2>3. ASSUME NEW b \in Free, maker' = [maker EXCEPT ![b] = mgr[c]],
                 hand' = [hand EXCEPT ![c] = b] \/ hand' = hand
          PROVE  OwnedOK'
      <3>1. b \in Boxes /\ b \notin held /\ \A d \in Creators : hand[d] # b
        BY DEF Free
      <3>2. OwnerRight'
        BY <2>1, <2>3, <3>1
      <3>3. \A d \in Creators : hand'[d] # NoBox => maker'[hand'[d]] = mgr'[d]
        BY <2>1, <2>3, <3>1
      <3>. QED BY <3>2, <3>3
    <2>. QED BY <1>5, <2>2, <2>3 DEF ContainerCreate
  <1>6. ASSUME NEW c \in Creators, ContainerStart(c) PROVE OwnedOK'
    <2>1. UNCHANGED <<accounts, proxyOwner, maker, held, mgr>>
      BY <1>6 DEF ContainerStart
    <2>2. \A d \in Creators : hand'[d] = hand[d] \/ hand'[d] = NoBox
      BY <1>6 DEF ContainerStart, Discard
    <2>. QED BY <2>1, <2>2
  <1>7. ASSUME NEW c \in Creators, Ready(c) PROVE OwnedOK'
    BY <1>7 DEF Ready
  <1>8. ASSUME NEW c \in Creators, NotReady(c) PROVE OwnedOK'
    <2>1. UNCHANGED <<accounts, proxyOwner, maker, held, mgr>>
      BY <1>8 DEF NotReady
    <2>2. \A d \in Creators : hand'[d] = hand[d] \/ hand'[d] = NoBox
      BY <1>8 DEF NotReady, Discard
    <2>. QED BY <2>1, <2>2
  <1>9. ASSUME NEW b \in Boxes, Remove(b) PROVE OwnedOK'
    BY <1>9 DEF Remove
  <1>. QED BY <1>1, <1>2, <1>3, <1>4, <1>5, <1>6, <1>7, <1>8, <1>9 DEF Next

\* The owner that HealthCheck asks about a proxy of the pool is the account the
\* container was made for, for any number of accounts and creations at a time.
THEOREM OwnerRightAlways == Spec => []OwnerRight
  <1>1. Init => OwnedOK
    BY ContainerAssumption DEF Init, OwnedOK, OwnerRight
  <1>2. Inv /\ OwnedOK /\ [Next]_vars => OwnedOK'
    <2>. SUFFICES ASSUME Inv, OwnedOK, [Next]_vars PROVE OwnedOK'
      OBVIOUS
    <2>1. ProcessType /\ BoxType /\ LocalType
      BY TypeParts DEF Inv
    <2>2. CASE Next
      BY <2>1, <2>2, NextOwned DEF Inv
    <2>3. CASE UNCHANGED vars
      BY <2>3 DEF vars, OwnedOK, OwnerRight, GetOwner, Composite
    <2>. QED BY <2>2, <2>3
  <1>3. OwnedOK => OwnerRight
    BY DEF OwnedOK
  <1>. QED BY <1>1, <1>2, <1>3, Invariant, PTL DEF Spec
=============================================================================
