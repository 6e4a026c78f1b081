--------------------------- MODULE ProxyPoolProofs ---------------------------
(***************************************************************************)
(* Proofs about the proxy pool, for any number of proxies, goroutines,     *)
(* sizes and failures.                                                     *)
(***************************************************************************)
EXTENDS ProxyPool, FiniteSetTheorems, TLAPS

LEMMA CardType ==
  ASSUME NEW S, S \subseteq Ids
  PROVE  IsFiniteSet(S) /\ Cardinality(S) \in Nat
  <1>1. IsFiniteSet(Ids)
    BY FiniteAssumption, FS_AddElement DEF Ids
  <1>. QED BY <1>1, FS_Subset, FS_CardinalityType

\* The request has a proxy of its own.
Using(r) == pc[r] \in {"use", "swap", "round", "roundwait"}

\* What a request, and a goroutine of rotateUntilUniqueIP, have in their hands.
HandOK ==
  /\ \A r \in Requests : Using(r) => own[r] \in Ids
  /\ \A m \in Makers : pc[m] \in {"keep", "rotate"} => own[m] \in Proxies
  /\ \A m \in Makers : pc[m] = "rotate" => rot[m] < RotateAttempts

TypeInv == TypeOK /\ HandOK

LEMMA InitType == Init => TypeInv
  <1>1. SUFFICES ASSUME Init PROVE TypeInv
    OBVIOUS
  <1>. USE SizeAssumption, DistinctAssumption
  <1>2. pc \in [Threads -> PCs]
    BY <1>1 DEF Init, PCs
  <1>3. tries \in [Makers -> 0 .. MaxAttempts - 1]
    BY <1>1 DEF Init
  <1>4. rot \in [Makers -> 0 .. RotateAttempts]
    BY <1>1 DEF Init
  <1>5. /\ \A m \in Makers : pc[m] \notin {"keep", "rotate"}
        /\ \A r \in Requests : ~Using(r)
    BY <1>1 DEF Init, Makers, Threads, Using
  <1>6. HandOK
    BY <1>5 DEF HandOK
  <1>7. available \in BOOLEAN /\ closed \in BOOLEAN
    BY <1>1 DEF Init
  <1>8. sticky \in [Convs -> Ids \cup {None}]
    BY <1>1 DEF Init
  <1>9. TypeOK
    BY <1>1, <1>2, <1>3, <1>4, <1>7, <1>8 DEF Init, TypeOK, States
  <1>. QED BY <1>6, <1>9 DEF TypeInv

LEMMA RequestType ==
  ASSUME TypeInv, NEW r \in Requests, RequestStep(r)
  PROVE  TypeInv'
  <1>0. r \in Threads /\ r \notin Makers /\ r \notin Creators
    BY DistinctAssumption DEF Threads, Makers
  <1>. USE <1>0 DEF TypeInv, TypeOK, HandOK, boxVars, regVars, localVars,
                    makerVars, ghostVars, Goto, Makers, Threads, Using
  <1>1. CASE Acquire(r)
    <2>1. own' \in [Threads -> Ids \cup {None}]
      BY <1>1 DEF Acquire, Usable, pool
    <2>2. pc' \in [Threads -> PCs]
      BY <1>1 DEF Acquire, PCs, Got
    <2>3. \A m \in Makers : own'[m] = own[m] /\ pc'[m] = pc[m]
      BY <1>1 DEF Acquire
    <2>4. HandOK'
      BY <1>1, <2>3 DEF Acquire, Usable, pool
    <2>5. TypeOK'
      BY <1>1, <2>1, <2>2 DEF Acquire
    <2>. QED BY <2>4, <2>5
  <1>2. CASE Seek(r)
    BY <1>2 DEF Seek, Candidates, pool, PCs, Got, States
  <1>3. CASE Wake(r)
    BY <1>3 DEF Wake, PCs
  <1>4. CASE GiveUp(r)
    BY <1>4 DEF GiveUp, ReleaseProxy, pool, PCs, States
  <1>5. CASE Release(r)
    BY <1>5 DEF Release, ReleaseProxy, pool, PCs, States
  <1>6. CASE Swap(r)
    BY <1>6 DEF Swap, ReleaseProxy, pool, PCs, States
  <1>7. CASE MarkRateLimited(r)
    <2>1. ipBans' \subseteq IPs
      BY <1>7 DEF MarkRateLimited, pool, Ids
    <2>2. state' \in [Ids -> States \cup {"out"}]
      BY <1>7 DEF MarkRateLimited, pool, States
    <2>3. faults' \in 0 .. MaxFaults
      BY <1>7, SizeAssumption DEF MarkRateLimited, Fail
    <2>4. pc' \in [Threads -> PCs]
      BY <1>7 DEF MarkRateLimited, PCs
    <2>5. HandOK'
      BY <1>7 DEF MarkRateLimited
    <2>. QED BY <1>7, <2>1, <2>2, <2>3, <2>4, <2>5 DEF MarkRateLimited
  <1>8. CASE MarkUnhealthy(r)
    BY <1>8, SizeAssumption DEF MarkUnhealthy, Fail, pool, PCs, States
  <1>9. CASE ToolRound(r)
    BY <1>9, SizeAssumption DEF ToolRound, Fail, PCs
  <1>10. CASE Answer(r)
    BY <1>10 DEF Answer, ReleaseProxy, pool, PCs, States
  <1>11. CASE RoundSeek(r)
    BY <1>11 DEF RoundSeek, Candidates, pool, PCs, States
  <1>12. CASE RoundWake(r)
    BY <1>12 DEF RoundWake, PCs
  <1>13. CASE RoundGivesUp(r)
    BY <1>13 DEF RoundGivesUp, PCs
  <1>. QED
    BY <1>1, <1>2, <1>3, <1>4, <1>5, <1>6, <1>7, <1>8, <1>9, <1>10, <1>11,
       <1>12, <1>13
    DEF RequestStep

LEMMA CapacityType ==
  ASSUME TypeInv, NEW t \in Threads, CapacityStep(t)
  PROVE  TypeInv'
  <1>. USE DEF TypeInv, TypeOK, HandOK, boxVars, regVars, localVars,
               makerVars, ghostVars, Goto, Makers, Threads, Using
  <1>1. CASE Ensure(t)
    <2>1. spawning' \in Nat
      <3>1. size \in Nat
        BY SizeAssumption
      <3>2. Cardinality(Usable) \in Nat
        BY CardType DEF Usable, pool
      <3>. QED BY <1>1, <3>1, <3>2 DEF Ensure, ToSpawn, Deficit
    <2>2. pc' \in [Threads -> PCs] /\ kind' \in [Creators -> {"start", "spawn"}]
      BY <1>1 DEF Ensure, PCs, After
    <2>3. /\ \A m \in Makers : pc'[m] \in {"keep", "rotate"} => pc'[m] = pc[m]
          /\ \A r \in Requests : Using(r)' => pc'[r] = pc[r]
      BY <1>1 DEF Ensure, After
    <2>4. HandOK'
      BY <1>1, <2>3 DEF Ensure
    <2>. QED BY <1>1, <2>1, <2>2, <2>4 DEF Ensure
  <1>2. CASE Prune(t)
    BY <1>2 DEF Prune, Dead, pool, PCs, After
  <1>3. CASE RemoveProxy(t)
    BY <1>3 DEF RemoveProxy, pool, PCs, After, States
  <1>. QED BY <1>1, <1>2, <1>3 DEF CapacityStep

LEMMA MakerType ==
  ASSUME TypeInv, NEW m \in Makers, MakerStep(m)
  PROVE  TypeInv'
  <1>. USE SizeAssumption
       DEF TypeInv, TypeOK, HandOK, boxVars, regVars, localVars,
           makerVars, ghostVars, Goto, Makers, Threads, Using
  <1>1. CASE Create(m)
    BY <1>1 DEF Create, Fresh, pool, PCs, States, Ids
  <1>2. CASE CreateFails(m)
    BY <1>2 DEF CreateFails, Fail, PCs, AfterCreate
  <1>3. CASE Keep(m)
    BY <1>3 DEF Keep, PCs, States
  <1>4. CASE Rotate(m)
    BY <1>4 DEF Rotate, PCs
  <1>5. CASE Announce(m)
    BY <1>5 DEF Announce, PCs, AfterCreate
  <1>. QED BY <1>1, <1>2, <1>3, <1>4, <1>5 DEF MakerStep

LEMMA LoopType ==
  ASSUME TypeInv, LoopStep
  PROVE  TypeInv'
  <1>. USE SizeAssumption, DistinctAssumption
       DEF TypeInv, TypeOK, HandOK, boxVars, regVars, localVars,
           makerVars, ghostVars, Goto, Makers, Threads, Using
  <1>1. CASE HealthTick
    BY <1>1 DEF HealthTick, pool, PCs
  <1>2. CASE CheckOne
    <2>1. PICK p \in todo[Health], h \in BOOLEAN : Probe(p, h)
      <3>. HIDE DEF TypeInv, TypeOK
      <3>. QED BY <1>2, Zenon DEF CheckOne
    <2>2. p \in Ids
      OBVIOUS
    <2>3. faults' \in 0 .. MaxFaults
      <3>1. faults' = faults \/ (faults < MaxFaults /\ faults' = faults + 1)
        BY <1>2, Zenon DEF CheckOne, Fail
      <3>. QED BY <3>1
    <2>4. own' \in [Threads -> Ids \cup {None}]
          /\ \A m \in Requests \cup Makers : own'[m] = own[m]
      BY <1>2 DEF CheckOne
    <2>5. state' \in [Ids -> States \cup {"out"}]
      BY <2>1, <2>2 DEF Probe, States
    <2>6. available' \in BOOLEAN
      BY <2>1 DEF Probe
    <2>7. todo' \in [Threads -> SUBSET Ids]
      BY <2>1 DEF Probe
    <2>8. PICK l \in {"check", "drifted", "ensure", "idle"} : Goto(Health, l)
      BY <2>1 DEF Probe
    <2>9. pc' \in [Threads -> PCs] /\ \A m \in Requests \cup Makers : pc'[m] = pc[m]
      BY <2>8 DEF PCs
    <2>10. HandOK'
      BY <1>2, <2>4, <2>9 DEF CheckOne
    <2>. QED
      BY <1>2, <2>3, <2>4, <2>5, <2>6, <2>7, <2>9, <2>10 DEF CheckOne
  <1>3. CASE Restore
    <2>1. available' \in BOOLEAN
      BY <1>3 DEF Restore
    <2>2. state' \in [Ids -> States \cup {"out"}]
      BY <1>3 DEF Restore, States
    <2>3. todo' \in [Threads -> SUBSET Ids]
      BY <1>3 DEF Restore, pool
    <2>4. pc' \in [Threads -> PCs] /\ \A m \in Requests \cup Makers : pc'[m] = pc[m]
      BY <1>3 DEF Restore, PCs
    <2>. QED BY <1>3, <2>1, <2>2, <2>3, <2>4 DEF Restore
  <1>4. CASE BanExpires
    BY <1>4 DEF BanExpires, pool
  <1>5. CASE Drifts
    <2>1. faults' \in 0 .. MaxFaults
      BY <1>5 DEF Drifts, Fail
    <2>2. PICK p \in todo[Health] :
            /\ \E i \in IPs : ip' = [ip EXCEPT ![p] = i]
            /\ silent' \in {silent, silent \cup {p}}
            /\ own' = [own EXCEPT ![Health] = p]
      BY <1>5 DEF Drifts
    <2>3. HandOK'
      BY <1>5, <2>2 DEF Drifts
    <2>. QED BY <1>5, <2>1, <2>2, <2>3 DEF Drifts
  <1>. QED BY <1>1, <1>2, <1>3, <1>4, <1>5 DEF LoopStep

LEMMA OtherType ==
  ASSUME TypeInv,
         \/ \E c \in Creators : SpawnDone(c)
         \/ \E p \in Proxies : Erase(p)
         \/ AdminStep
  PROVE  TypeInv'
  <1>. USE SizeAssumption, DistinctAssumption
       DEF TypeInv, TypeOK, HandOK, boxVars, regVars, localVars,
           makerVars, ghostVars, Goto, Makers, Threads, Using
  <1>1. ASSUME NEW c \in Creators, SpawnDone(c) PROVE TypeInv'
    BY <1>1 DEF SpawnDone, PCs
  <1>2. ASSUME NEW p \in Proxies, Erase(p) PROVE TypeInv'
    BY <1>2 DEF Erase, Fail
  <1>3. CASE SetPoolSize
    BY <1>3 DEF SetPoolSize, PCs
  <1>4. CASE ForceRotate
    BY <1>4 DEF ForceRotate, pool, PCs, States
  <1>5. CASE AddExternalProxy
    BY <1>5 DEF AddExternalProxy, PCs, States, Ids
  <1>6. CASE RefreshPool
    BY <1>6 DEF RefreshPool, PCs
  <1>7. CASE Close
    BY <1>7 DEF Close, pool
  <1>. QED BY <1>1, <1>2, <1>3, <1>4, <1>5, <1>6, <1>7 DEF AdminStep

LEMMA StutterType ==
  ASSUME TypeInv, UNCHANGED vars
  PROVE  TypeInv'
  BY DEF TypeInv, TypeOK, HandOK, Using, vars

\* Every variable of the pool keeps its type, and no goroutine rotates more
\* often than ProxyIPRotateAttempts or creates more often than maxAttempts.
THEOREM TypeCorrect == Spec => []TypeOK
  <1>1. TypeInv /\ [Next]_vars => TypeInv'
    BY RequestType, CapacityType, MakerType, LoopType, OtherType, StutterType
    DEF Next
  <1>2. TypeInv => TypeOK
    BY DEF TypeInv
  <1>. QED BY InitType, <1>1, <1>2, PTL DEF Spec
-----------------------------------------------------------------------------
(***************************************************************************)
(* The spawn counter                                                       *)
(***************************************************************************)

\* The invariant of TypeCorrect, for the theorems below.
THEOREM TypeInvariant == Spec => []TypeInv
  <1>1. TypeInv /\ [Next]_vars => TypeInv'
    BY RequestType, CapacityType, MakerType, LoopType, OtherType, StutterType
    DEF Next
  <1>. QED BY InitType, <1>1, PTL DEF Spec

\* What a step does that neither launches a creator nor ends one.
SpawnFrame ==
  /\ spawning' = spawning
  /\ kind' = kind
  /\ \A c \in Creators : pc'[c] = "off" <=> pc[c] = "off"

LEMMA RequestSpawn ==
  ASSUME TypeInv, NEW r \in Requests, RequestStep(r)
  PROVE  SpawnFrame
  <1>. USE DistinctAssumption
       DEF TypeInv, TypeOK, SpawnFrame, boxVars, regVars, localVars, makerVars,
           ghostVars, Goto, Threads
  <1>1. CASE Acquire(r) BY <1>1 DEF Acquire
  <1>2. CASE Seek(r) BY <1>2 DEF Seek
  <1>3. CASE Wake(r) BY <1>3 DEF Wake
  <1>4. CASE GiveUp(r) BY <1>4 DEF GiveUp
  <1>5. CASE Release(r) BY <1>5 DEF Release
  <1>6. CASE Swap(r) BY <1>6 DEF Swap
  <1>7. CASE MarkRateLimited(r) BY <1>7 DEF MarkRateLimited
  <1>8. CASE MarkUnhealthy(r) BY <1>8 DEF MarkUnhealthy
  <1>9. CASE ToolRound(r) BY <1>9 DEF ToolRound
  <1>10. CASE Answer(r) BY <1>10 DEF Answer
  <1>11. CASE RoundSeek(r) BY <1>11 DEF RoundSeek
  <1>12. CASE RoundWake(r) BY <1>12 DEF RoundWake
  <1>13. CASE RoundGivesUp(r) BY <1>13 DEF RoundGivesUp
  <1>. QED
    BY <1>1, <1>2, <1>3, <1>4, <1>5, <1>6, <1>7, <1>8, <1>9, <1>10, <1>11,
       <1>12, <1>13
    DEF RequestStep

LEMMA PruneSpawn ==
  ASSUME TypeInv, NEW t \in Threads, Prune(t) \/ RemoveProxy(t)
  PROVE  SpawnFrame
  <1>. USE DistinctAssumption
       DEF TypeInv, TypeOK, SpawnFrame, regVars, makerVars, Goto, Threads, After
  <1>1. CASE Prune(t) BY <1>1 DEF Prune
  <1>2. CASE RemoveProxy(t) BY <1>2 DEF RemoveProxy
  <1>. QED BY <1>1, <1>2

LEMMA MakerSpawn ==
  ASSUME TypeInv, NEW m \in Makers, MakerStep(m)
  PROVE  SpawnFrame
  <1>. USE DistinctAssumption
       DEF TypeInv, TypeOK, SpawnFrame, regVars, makerVars, Goto, Threads, Makers,
           AfterCreate
  <1>1. CASE Create(m) BY <1>1 DEF Create
  <1>2. CASE CreateFails(m) BY <1>2 DEF CreateFails
  <1>3. CASE Keep(m) BY <1>3 DEF Keep
  <1>4. CASE Rotate(m) BY <1>4 DEF Rotate
  <1>5. CASE Announce(m) BY <1>5 DEF Announce
  <1>. QED BY <1>1, <1>2, <1>3, <1>4, <1>5 DEF MakerStep

LEMMA LoopSpawn ==
  ASSUME TypeInv, LoopStep \/ AdminStep \/ \E p \in Proxies : Erase(p)
  PROVE  SpawnFrame
  <1>. USE DistinctAssumption
       DEF TypeInv, TypeOK, SpawnFrame, regVars, makerVars, Goto, Threads
  <1>1. CASE HealthTick BY <1>1 DEF HealthTick
  <1>2. CASE CheckOne BY <1>2 DEF CheckOne, Probe
  <1>3. CASE Restore BY <1>3 DEF Restore
  <1>4. CASE BanExpires BY <1>4 DEF BanExpires
  <1>5. CASE SetPoolSize BY <1>5 DEF SetPoolSize
  <1>6. CASE ForceRotate BY <1>6 DEF ForceRotate
  <1>7. CASE AddExternalProxy BY <1>7 DEF AddExternalProxy
  <1>8. CASE RefreshPool BY <1>8 DEF RefreshPool
  <1>9. CASE Close BY <1>9 DEF Close
  <1>10. CASE \E p \in Proxies : Erase(p) BY <1>10 DEF Erase
  <1>11. CASE Drifts BY <1>11 DEF Drifts
  <1>. QED
    BY <1>1, <1>2, <1>3, <1>4, <1>5, <1>6, <1>7, <1>8, <1>9, <1>10, <1>11
    DEF LoopStep, AdminStep

\* The counter and its bound go together: ensurePoolCapacity reads the one to
\* keep the other.
SpawnInv ==
  /\ SpawnCount
  /\ \E n \in Sizes \cup {InitSize} : spawning <= n

LEMMA SpawnersType == IsFiniteSet(Spawners) /\ Cardinality(Spawners) \in Nat
  BY FiniteAssumption, FS_Subset, FS_CardinalityType DEF Spawners

LEMMA FrameKeepsCount ==
  ASSUME SpawnInv, SpawnFrame
  PROVE  SpawnInv'
  <1>1. Spawners' = Spawners
    BY DEF SpawnFrame, Spawners
  <1>. QED BY <1>1 DEF SpawnFrame, SpawnInv, SpawnCount

LEMMA EnsureSpawn ==
  ASSUME TypeInv, SpawnInv, NEW t \in Threads, Ensure(t)
  PROVE  SpawnInv'
  <1>1. size \in Nat /\ Cardinality(Usable) \in Nat /\ spawning \in Nat
    BY SizeAssumption, CardType DEF TypeInv, TypeOK, Usable, pool
  <1>2. ToSpawn \in Nat /\ spawning' = spawning + ToSpawn
    BY <1>1 DEF Ensure, ToSpawn, Deficit
  <1>3. \E n \in Sizes \cup {InitSize} : spawning' <= n
    <2>1. CASE ToSpawn = 0
      BY <1>1, <1>2, <2>1 DEF SpawnInv
    <2>2. CASE ToSpawn # 0
      <3>1. spawning' <= size
        BY <1>1, <1>2, <2>2 DEF ToSpawn, Deficit
      <3>. QED BY <3>1 DEF TypeInv, TypeOK
    <2>. QED BY <2>1, <2>2
  <1>4. SpawnCount'
    <2>1. CASE ToSpawn > 0
      <3>1. PICK C \in SUBSET {c \in Creators : pc[c] = "off"} :
              /\ Cardinality(C) = ToSpawn
              /\ pc' = [u \in Threads |-> IF u \in C THEN "create"
                                          ELSE IF u = t THEN After(t)
                                          ELSE pc[u]]
              /\ kind' = [c \in Creators |-> IF c \in C THEN "spawn"
                                             ELSE kind[c]]
        BY <1>2, <2>1 DEF Ensure
      <3>2. Spawners' = Spawners \cup C
        BY <3>1, DistinctAssumption
        DEF Spawners, TypeInv, TypeOK, Threads, After, Ensure
      <3>3. Spawners \cap C = {}
        BY DEF Spawners
      <3>4. IsFiniteSet(C)
        BY FiniteAssumption, FS_Subset
      <3>5. Cardinality(Spawners \cup C) = Cardinality(Spawners) + Cardinality(C)
        <4>1. Cardinality(Spawners \cap C) = 0
          BY <3>3, FS_EmptySet
        <4>2. Cardinality(C) \in Nat
          BY <3>4, FS_CardinalityType
        <4>3. Cardinality(Spawners \cup C) = Cardinality(Spawners)
                + Cardinality(C) - Cardinality(Spawners \cap C)
          <5>1. IsFiniteSet(Spawners)
            BY SpawnersType
          <5>. HIDE DEF Spawners
          <5>. QED BY <3>4, <5>1, FS_Union
        <4>. QED BY <4>1, <4>2, <4>3, SpawnersType
      <3>. QED BY <1>2, <3>1, <3>2, <3>5 DEF SpawnInv, SpawnCount
    <2>2. CASE ~(ToSpawn > 0)
      <3>1. ToSpawn = 0
        BY <1>2, <2>2
      <3>2. SpawnFrame
        BY <1>1, <1>2, <3>1, DistinctAssumption
        DEF Ensure, SpawnFrame, Goto, TypeInv, TypeOK, Threads
      <3>. QED BY <3>2, FrameKeepsCount DEF SpawnInv
    <2>. QED BY <2>1, <2>2
  <1>. QED BY <1>3, <1>4 DEF SpawnInv

LEMMA DoneSpawn ==
  ASSUME TypeInv, SpawnInv, NEW c \in Creators, SpawnDone(c)
  PROVE  SpawnInv'
  <1>1. spawning \in Nat /\ \A n \in Sizes \cup {InitSize} : n \in Nat
    BY SizeAssumption DEF TypeInv, TypeOK
  <1>2. c \in Threads
    BY DEF Threads
  <1>3. CASE kind[c] = "spawn"
    <2>1. c \in Spawners
      BY <1>3 DEF Spawners, SpawnDone
    <2>2. Spawners' = Spawners \ {c}
      BY <1>2 DEF Spawners, SpawnDone, Goto, TypeInv, TypeOK, Threads
    <2>3. Cardinality(Spawners \ {c}) = Cardinality(Spawners) - 1
      BY <2>1, SpawnersType, FS_RemoveElement
    <2>4. spawning > 0
      <3>1. Spawners # {}
        BY <2>1
      <3>. QED BY <3>1, <1>1, SpawnersType, FS_EmptySet DEF SpawnInv, SpawnCount
    <2>5. spawning' = spawning - 1
      BY <1>3, <2>4 DEF SpawnDone
    <2>. QED BY <1>1, <2>2, <2>3, <2>5 DEF SpawnInv, SpawnCount
  <1>4. CASE kind[c] # "spawn"
    <2>1. spawning' = spawning
      BY <1>4 DEF SpawnDone
    <2>2. Spawners' = Spawners
      BY <1>2, <1>4 DEF Spawners, SpawnDone, Goto, TypeInv, TypeOK, Threads
    <2>. QED BY <2>1, <2>2 DEF SpawnInv, SpawnCount
  <1>. QED BY <1>3, <1>4

\* The inductive invariant behind the two theorems on replacements in flight.
THEOREM SpawnInvariant == Spec => []SpawnInv
  <1>1. Init => SpawnInv
    <2>1. SUFFICES ASSUME Init PROVE SpawnInv
      OBVIOUS
    <2>2. Spawners = {} /\ spawning = 0
      BY <2>1 DEF Init, Spawners
    <2>. QED BY <2>2, FS_EmptySet, SizeAssumption DEF SpawnInv, SpawnCount
  <1>2. TypeInv /\ SpawnInv /\ [Next]_vars => SpawnInv'
    <2>1. SUFFICES ASSUME TypeInv, SpawnInv, [Next]_vars PROVE SpawnInv'
      OBVIOUS
    <2>2. CASE UNCHANGED vars
      BY <2>1, <2>2 DEF vars, SpawnInv, SpawnCount, Spawners
    <2>3. ASSUME NEW t \in Threads, CapacityStep(t) PROVE SpawnInv'
      BY <2>1, <2>3, EnsureSpawn, PruneSpawn, FrameKeepsCount DEF CapacityStep
    <2>4. ASSUME NEW c \in Creators, SpawnDone(c) PROVE SpawnInv'
      BY <2>1, <2>4, DoneSpawn
    <2>. QED
      BY <2>1, <2>2, <2>3, <2>4, RequestSpawn, MakerSpawn, LoopSpawn,
         FrameKeepsCount DEF Next
  <1>. QED BY <1>1, <1>2, TypeInvariant, PTL DEF Spec

\* For every number of goroutines, on every path through createProxy,
\* pruneDeadProxies and their failures, pm.spawning counts the replacements in
\* flight.
THEOREM SpawnCountHolds == Spec => []SpawnCount
  <1>1. SpawnInv => SpawnCount
    BY DEF SpawnInv
  <1>. QED BY <1>1, SpawnInvariant, PTL

\* Concurrent triggers of ensurePoolCapacity never have more replacements in
\* flight than the largest size ever configured.
THEOREM InFlightBounded == Spec => []InFlightBound
  <1>1. SpawnInv => InFlightBound
    BY DEF SpawnInv, SpawnCount, InFlightBound
  <1>. QED BY <1>1, SpawnInvariant, PTL

(***************************************************************************)
(* Containers                                                              *)
(***************************************************************************)

\* The goroutine is in rotateUntilUniqueIP, with a container outside the pool.
InHand(m) == pc[m] \in {"keep", "rotate"}

\* NoOrphan and NoGhostEntry need each other, and need to know that the
\* container in a goroutine's hands is its own and is not being removed.
BoxInv ==
  /\ NoOrphan
  /\ NoGhostEntry
  /\ \A m \in Makers : InHand(m) => own[m] \in boxes \ (doomed \cup pool)
  /\ \A m, n \in Makers : InHand(m) /\ InHand(n) /\ own[m] = own[n] => m = n

\* What a step does that touches neither containers nor the keys of the pool.
BoxFrame ==
  /\ pool' = pool
  /\ UNCHANGED <<boxes, doomed, leaked, closed>>
  /\ \A m \in Makers : /\ InHand(m)' <=> InHand(m)
                       /\ own'[m] = own[m]

LEMMA FrameKeepsBoxes ==
  ASSUME BoxInv, BoxFrame
  PROVE  BoxInv'
  BY DEF BoxInv, BoxFrame, NoOrphan, NoGhostEntry, InHand

LEMMA RequestBoxes ==
  ASSUME TypeInv, NEW r \in Requests, RequestStep(r)
  PROVE  BoxFrame
  <1>0. r \in Threads /\ r \notin Makers /\ Makers \subseteq Threads
    BY DistinctAssumption DEF Threads, Makers
  <1>. USE <1>0 DEF TypeInv, TypeOK, BoxFrame, boxVars, regVars, localVars,
               Goto, InHand, pool
  <1>1. CASE Acquire(r)
    <2>1. \A m \in Makers : pc'[m] = pc[m] /\ own'[m] = own[m]
      BY <1>1 DEF Acquire
    <2>. QED BY <1>1, <2>1 DEF Acquire
  <1>2. CASE Seek(r)
    <2>1. \A m \in Makers : pc'[m] = pc[m] /\ own'[m] = own[m]
      BY <1>2 DEF Seek
    <2>2. pool' = pool
      BY <1>2 DEF Seek, Candidates
    <2>3. UNCHANGED <<boxes, doomed, leaked, closed>>
      BY <1>2 DEF Seek
    <2>. QED BY <2>1, <2>2, <2>3
  <1>3. CASE Wake(r) BY <1>3 DEF Wake
  <1>4. CASE GiveUp(r) BY <1>4 DEF GiveUp, ReleaseProxy
  <1>5. CASE Release(r) BY <1>5 DEF Release, ReleaseProxy
  <1>6. CASE Swap(r) BY <1>6 DEF Swap, ReleaseProxy
  <1>7. CASE MarkRateLimited(r) BY <1>7 DEF MarkRateLimited
  <1>8. CASE MarkUnhealthy(r) BY <1>8 DEF MarkUnhealthy
  <1>9. CASE ToolRound(r) BY <1>9 DEF ToolRound
  <1>10. CASE Answer(r) BY <1>10 DEF Answer, ReleaseProxy
  <1>11. CASE RoundSeek(r)
    <2>1. \A m \in Makers : pc'[m] = pc[m] /\ own'[m] = own[m]
      BY <1>11 DEF RoundSeek
    <2>2. pool' = pool
      BY <1>11 DEF RoundSeek, Candidates
    <2>. QED BY <1>11, <2>1, <2>2 DEF RoundSeek
  <1>12. CASE RoundWake(r) BY <1>12 DEF RoundWake
  <1>13. CASE RoundGivesUp(r) BY <1>13 DEF RoundGivesUp
  <1>. QED
    BY <1>1, <1>2, <1>3, <1>4, <1>5, <1>6, <1>7, <1>8, <1>9, <1>10, <1>11,
       <1>12, <1>13
    DEF RequestStep

LEMMA CapacityBoxes ==
  ASSUME TypeInv, BoxInv, NEW t \in Threads, CapacityStep(t)
  PROVE  BoxInv'
  <1>. USE DEF TypeInv, TypeOK, boxVars, regVars, localVars, Goto
  <1>1. CASE Ensure(t)
    <2>1. BoxFrame
      BY <1>1 DEF BoxFrame, Ensure, After, InHand, pool, Makers, Threads
    <2>. QED BY <2>1, FrameKeepsBoxes
  <1>2. CASE Prune(t)
    <2>1. BoxFrame
      BY <1>2 DEF BoxFrame, Prune, After, InHand, pool, Makers, Threads
    <2>. QED BY <2>1, FrameKeepsBoxes
  <1>3. CASE RemoveProxy(t)
    <2>1. PICK p \in todo[t] :
            /\ state' = [state EXCEPT ![p] = "out"]
            /\ doomed' = doomed \cup ({p} \cap pool \cap Proxies)
      BY <1>3 DEF RemoveProxy
    <2>2. p \in Ids /\ pool' = pool \ {p}
      BY <2>1 DEF pool
    <2>3. \A m \in Makers : (InHand(m)' <=> InHand(m)) /\ own'[m] = own[m]
      BY <1>3 DEF RemoveProxy, After, InHand, Makers, Threads
    <2>4. UNCHANGED <<boxes, leaked, closed>>
      BY <1>3 DEF RemoveProxy
    <2>. HIDE DEF TypeInv, TypeOK, InHand
    <2>5. boxes \subseteq Proxies
      BY DEF TypeInv, TypeOK
    <2>6. NoOrphan'
      BY <2>1, <2>2, <2>3, <2>4, <2>5 DEF BoxInv, NoOrphan, InHand
    <2>7. NoGhostEntry'
      BY <2>1, <2>2, <2>4 DEF BoxInv, NoGhostEntry
    <2>. QED BY <2>1, <2>2, <2>3, <2>4, <2>6, <2>7 DEF BoxInv
  <1>. QED BY <1>1, <1>2, <1>3 DEF CapacityStep

LEMMA MakerBoxes ==
  ASSUME TypeInv, BoxInv, NEW m \in Makers, MakerStep(m)
  PROVE  BoxInv'
  <1>0. m \in Threads
    BY DEF Threads, Makers
  <1>. USE <1>0 DEF TypeInv, TypeOK, boxVars, regVars, localVars, Goto
  <1>1. CASE Create(m)
    <2>1. PICK p \in Fresh, i \in IPs \cup {NoIP} :
            /\ boxes' = boxes \cup {p}
            /\ \/ /\ state' = [state EXCEPT ![p] = "idle"]
                  /\ pc' = [pc EXCEPT ![m] = "signal"]
                  /\ own' = own
               \/ /\ state' = state
                  /\ pc' \in {[pc EXCEPT ![m] = "rotate"],
                              [pc EXCEPT ![m] = "keep"]}
                  /\ own' = [own EXCEPT ![m] = p]
      BY <1>1 DEF Create
    <2>2. /\ p \in Proxies
          /\ p \notin pool \cup boxes \cup doomed
          /\ \A n \in Makers : own[n] # p
      BY DEF Fresh, Makers, Threads
    <2>3. UNCHANGED <<doomed, leaked, closed>> /\ ~InHand(m)
      BY <1>1 DEF Create, InHand
    <2>4. CASE own' = own
      BY <2>1, <2>2, <2>3, <2>4
      DEF BoxInv, NoOrphan, NoGhostEntry, InHand, pool, Makers, Threads, Ids
    <2>5. CASE own' = [own EXCEPT ![m] = p] /\ state' = state
      BY <2>1, <2>2, <2>3, <2>5
      DEF BoxInv, NoOrphan, NoGhostEntry, InHand, pool, Makers, Threads, Ids
    <2>. QED BY <2>1, <2>4, <2>5
  <1>2. CASE CreateFails(m)
    <2>1. BoxFrame
      BY <1>2 DEF BoxFrame, CreateFails, AfterCreate, InHand, pool, Makers, Threads
    <2>. QED BY <2>1, FrameKeepsBoxes
  <1>3. CASE Keep(m)
    BY <1>3
    DEF Keep, HandOK, BoxInv, NoOrphan, NoGhostEntry, InHand, pool, Makers,
        Threads, Ids
  <1>4. CASE Rotate(m)
    BY <1>4
    DEF Rotate, HandOK, BoxInv, NoOrphan, NoGhostEntry, InHand, pool, Makers,
        Threads, Ids
  <1>5. CASE Announce(m)
    <2>1. BoxFrame
      BY <1>5 DEF BoxFrame, Announce, AfterCreate, InHand, pool, Makers, Threads
    <2>. QED BY <2>1, FrameKeepsBoxes
  <1>. QED BY <1>1, <1>2, <1>3, <1>4, <1>5 DEF MakerStep

LEMMA LoopBoxes ==
  ASSUME TypeInv, BoxInv, LoopStep
  PROVE  BoxInv'
  <1>. USE DistinctAssumption
       DEF TypeInv, TypeOK, BoxFrame, boxVars, regVars, localVars, Goto, InHand,
           pool, Makers, Threads
  <1>1. CASE HealthTick
    BY <1>1, FrameKeepsBoxes DEF HealthTick
  <1>2. CASE CheckOne
    <2>1. BoxFrame
      BY <1>2 DEF CheckOne, Probe
    <2>. QED BY <2>1, FrameKeepsBoxes
  <1>3. CASE Restore
    <2>1. BoxFrame
      BY <1>3 DEF Restore
    <2>. QED BY <2>1, FrameKeepsBoxes
  <1>4. CASE BanExpires
    BY <1>4, FrameKeepsBoxes DEF BanExpires
  <1>5. CASE Drifts
    <2>1. BoxFrame
      BY <1>5 DEF Drifts
    <2>. QED BY <2>1, FrameKeepsBoxes
  <1>. QED BY <1>1, <1>2, <1>3, <1>4, <1>5 DEF LoopStep

LEMMA OtherBoxes ==
  ASSUME TypeInv, BoxInv,
         \/ \E c \in Creators : SpawnDone(c)
         \/ \E p \in Proxies : Erase(p)
         \/ AdminStep
  PROVE  BoxInv'
  <1>. USE DistinctAssumption
       DEF TypeInv, TypeOK, boxVars, regVars, localVars, Goto, InHand,
           pool, Makers, Threads
  <1>1. ASSUME NEW c \in Creators, SpawnDone(c) PROVE BoxInv'
    BY <1>1, FrameKeepsBoxes DEF SpawnDone, BoxFrame
  <1>2. ASSUME NEW p \in Proxies, Erase(p) PROVE BoxInv'
    BY <1>2 DEF Erase, BoxInv, NoOrphan, NoGhostEntry
  <1>3. CASE SetPoolSize
    BY <1>3, FrameKeepsBoxes DEF SetPoolSize, BoxFrame
  <1>4. CASE ForceRotate
    BY <1>4 DEF ForceRotate, BoxInv, NoOrphan, NoGhostEntry
  <1>5. CASE AddExternalProxy
    BY <1>5 DEF AddExternalProxy, BoxInv, NoOrphan, NoGhostEntry, Ids
  <1>6. CASE RefreshPool
    BY <1>6, FrameKeepsBoxes DEF RefreshPool, BoxFrame
  <1>7. CASE Close
    BY <1>7 DEF Close, BoxInv, NoOrphan, NoGhostEntry
  <1>. QED BY <1>1, <1>2, <1>3, <1>4, <1>5, <1>6, <1>7 DEF AdminStep

\* The inductive invariant behind the two theorems on containers.
THEOREM BoxInvariant == Spec => []BoxInv
  <1>1. Init => BoxInv
    <2>1. SUFFICES ASSUME Init PROVE BoxInv
      OBVIOUS
    <2>2. boxes = {} /\ pool = {} /\ \A m \in Makers : ~InHand(m)
      BY <2>1 DEF Init, pool, InHand, Makers, Threads
    <2>. QED BY <2>2 DEF BoxInv, NoOrphan, NoGhostEntry
  <1>2. TypeInv /\ BoxInv /\ [Next]_vars => BoxInv'
    <2>1. SUFFICES ASSUME TypeInv, BoxInv, [Next]_vars PROVE BoxInv'
      OBVIOUS
    <2>2. CASE UNCHANGED vars
      BY <2>1, <2>2 DEF vars, BoxInv, NoOrphan, NoGhostEntry, InHand, pool
    <2>. QED
      BY <2>1, <2>2, RequestBoxes, FrameKeepsBoxes, CapacityBoxes, MakerBoxes,
         LoopBoxes, OtherBoxes DEF Next
  <1>. QED BY <1>1, <1>2, TypeInvariant, PTL DEF Spec

\* No container is started and forgotten, however creators, removals, forced
\* rotations and Close interleave.
THEOREM NoOrphanHolds == Spec => []NoOrphan
  <1>1. BoxInv => NoOrphan
    BY DEF BoxInv
  <1>. QED BY <1>1, BoxInvariant, PTL

\* Until Close, no proxy GetProxy can return has lost its container.
THEOREM NoGhostEntryHolds == Spec => []NoGhostEntry
  <1>1. BoxInv => NoGhostEntry
    BY DEF BoxInv
  <1>. QED BY <1>1, BoxInvariant, PTL
-----------------------------------------------------------------------------
(***************************************************************************)
(* Busy proxies                                                            *)
(***************************************************************************)

\* What a step does that is none of a request's own.
ActiveFrame ==
  /\ \A p \in Ids : state'[p] = "active" => state[p] = "active"
  /\ strays' = strays
  /\ \A r \in Requests : /\ Using(r) => Using(r)'
                         /\ own'[r] = own[r]

LEMMA FrameKeepsActive ==
  ASSUME NoStuckActive, ActiveFrame
  PROVE  NoStuckActive'
  BY DEF NoStuckActive, ActiveFrame, Using, Uses, pool

LEMMA RequestActive ==
  ASSUME TypeInv, NoStuckActive, NEW r \in Requests, RequestStep(r)
  PROVE  NoStuckActive'
  <1>0. r \in Threads /\ Requests \subseteq Threads
    BY DEF Threads
  <1>. USE <1>0 DEF TypeInv, TypeOK, NoStuckActive, Uses, boxVars, regVars,
               localVars, ghostVars, Goto, pool
  <1>1. CASE Acquire(r)
    <2>1. \A q \in Requests \ {r} : pc'[q] = pc[q] /\ own'[q] = own[q]
      BY <1>1 DEF Acquire
    <2>2. state' = state /\ strays' = strays /\ ~Using(r)
      BY <1>1 DEF Acquire, Using
    <2>. QED BY <2>1, <2>2 DEF Using
  <1>2. CASE Seek(r)
    <2>1. CASE \E p \in Candidates :
                 /\ own' = [own EXCEPT ![r] = p]
                 /\ state' = [state EXCEPT ![p] = "active"]
                 /\ strays' = strays \ {p}
                 /\ pc' = [pc EXCEPT ![r] = Got(r)]
      <3>1. PICK p \in Candidates :
                 /\ own' = [own EXCEPT ![r] = p]
                 /\ state' = [state EXCEPT ![p] = "active"]
                 /\ strays' = strays \ {p}
                 /\ pc' = [pc EXCEPT ![r] = Got(r)]
        BY <2>1
      <3>2. own'[r] = p /\ pc'[r] \in {"use", "swap"}
        BY <3>1 DEF Got
      <3>3. pc[r] = "seek"
        BY <1>2 DEF Seek
      <3>4. \A q \in Requests \ {r} : pc'[q] = pc[q] /\ own'[q] = own[q]
        BY <3>1
      <3>. QED BY <3>1, <3>2, <3>3, <3>4
    <2>2. CASE UNCHANGED <<state, own, strays>> /\ pc' = [pc EXCEPT ![r] = "wait"]
      BY <1>2, <2>2 DEF Seek
    <2>. QED BY <1>2, <2>1, <2>2 DEF Seek
  <1>3. CASE Wake(r) BY <1>3 DEF Wake
  <1>4. CASE GiveUp(r) BY <1>4 DEF GiveUp, ReleaseProxy
  <1>5. CASE Release(r) BY <1>5 DEF Release, ReleaseProxy
  <1>6. CASE Swap(r) BY <1>6 DEF Swap, ReleaseProxy
  <1>7. CASE MarkRateLimited(r) BY <1>7 DEF MarkRateLimited
  <1>8. CASE MarkUnhealthy(r) BY <1>8 DEF MarkUnhealthy
  <1>9. CASE ToolRound(r) BY <1>9 DEF ToolRound
  <1>10. CASE Answer(r) BY <1>10 DEF Answer, ReleaseProxy
  <1>11. CASE RoundSeek(r)
    <2>1. own' = own /\ pc[r] = "round" /\ pc'[r] \in {"use", "roundwait"}
      BY <1>11 DEF RoundSeek
    <2>2. \A q \in Requests \ {r} : pc'[q] = pc[q]
      BY <1>11 DEF RoundSeek
    <2>3. \/ UNCHANGED <<state, strays>>
          \/ \E p \in Ids : /\ state' = [state EXCEPT ![p] = "active"]
                            /\ strays' = strays \cup {p}
      BY <1>11 DEF RoundSeek, Candidates
    <2>. QED BY <2>1, <2>2, <2>3
  <1>12. CASE RoundWake(r) BY <1>12 DEF RoundWake
  <1>13. CASE RoundGivesUp(r) BY <1>13 DEF RoundGivesUp
  <1>. QED
    BY <1>1, <1>2, <1>3, <1>4, <1>5, <1>6, <1>7, <1>8, <1>9, <1>10, <1>11,
       <1>12, <1>13
    DEF RequestStep

LEMMA CapacityActive ==
  ASSUME TypeInv, NEW t \in Threads, CapacityStep(t)
  PROVE  ActiveFrame
  <1>. USE DistinctAssumption
       DEF TypeInv, TypeOK, ActiveFrame, Using, localVars, ghostVars, Goto, Threads
  <1>1. CASE Ensure(t)
    BY <1>1 DEF Ensure, After
  <1>2. CASE Prune(t)
    BY <1>2 DEF Prune
  <1>3. CASE RemoveProxy(t)
    BY <1>3 DEF RemoveProxy
  <1>. QED BY <1>1, <1>2, <1>3 DEF CapacityStep

LEMMA MakerActive ==
  ASSUME TypeInv, NEW m \in Makers, MakerStep(m)
  PROVE  ActiveFrame
  <1>. USE DistinctAssumption
       DEF TypeInv, TypeOK, ActiveFrame, Using, localVars, ghostVars, Goto, Makers,
           Threads
  <1>1. CASE Create(m)
    BY <1>1 DEF Create
  <1>2. CASE CreateFails(m)
    BY <1>2 DEF CreateFails
  <1>3. CASE Keep(m)
    BY <1>3 DEF Keep
  <1>4. CASE Rotate(m)
    BY <1>4 DEF Rotate
  <1>5. CASE Announce(m)
    BY <1>5 DEF Announce
  <1>. QED BY <1>1, <1>2, <1>3, <1>4, <1>5 DEF MakerStep

LEMMA OtherActive ==
  ASSUME TypeInv,
         \/ \E c \in Creators : SpawnDone(c)
         \/ \E p \in Proxies : Erase(p)
         \/ LoopStep
         \/ AdminStep
  PROVE  ActiveFrame
  <1>. USE DistinctAssumption
       DEF TypeInv, TypeOK, ActiveFrame, Using, localVars, ghostVars, Goto, Threads
  <1>1. ASSUME NEW c \in Creators, SpawnDone(c) PROVE ActiveFrame
    BY <1>1 DEF SpawnDone
  <1>2. ASSUME NEW p \in Proxies, Erase(p) PROVE ActiveFrame
    BY <1>2 DEF Erase
  <1>3. CASE HealthTick BY <1>3 DEF HealthTick
  <1>4. CASE CheckOne
    <2>1. \A p \in Ids : state'[p] = "active" => state[p] = "active"
      BY <1>4 DEF CheckOne, Probe
    <2>2. \A r \in Requests : pc'[r] = pc[r] /\ own'[r] = own[r]
      BY <1>4 DEF CheckOne, Probe
    <2>. QED BY <1>4, <2>1, <2>2 DEF CheckOne
  <1>5. CASE Restore BY <1>5 DEF Restore
  <1>6. CASE BanExpires BY <1>6 DEF BanExpires
  <1>7. CASE SetPoolSize BY <1>7 DEF SetPoolSize
  <1>8. CASE ForceRotate BY <1>8 DEF ForceRotate
  <1>9. CASE AddExternalProxy BY <1>9 DEF AddExternalProxy
  <1>10. CASE RefreshPool BY <1>10 DEF RefreshPool
  <1>11. CASE Close BY <1>11 DEF Close
  <1>12. CASE Drifts BY <1>12 DEF Drifts
  <1>. QED
    BY <1>1, <1>2, <1>3, <1>4, <1>5, <1>6, <1>7, <1>8, <1>9, <1>10, <1>11, <1>12
    DEF LoopStep, AdminStep

\* But for the proxies a web_search round took last, every proxy that is marked
\* active belongs to a request that is still going to release or to mark it,
\* for any number of requests, shared conversations and re-added proxies.
THEOREM NoStuckActiveHolds == Spec => []NoStuckActive
  <1>1. Init => NoStuckActive
    BY DEF Init, NoStuckActive, pool
  <1>2. TypeInv /\ NoStuckActive /\ [Next]_vars => NoStuckActive'
    <2>1. SUFFICES ASSUME TypeInv, NoStuckActive, [Next]_vars
                   PROVE  NoStuckActive'
      OBVIOUS
    <2>2. CASE UNCHANGED vars
      BY <2>1, <2>2 DEF vars, NoStuckActive, Uses, pool
    <2>. QED
      BY <2>1, <2>2, RequestActive, FrameKeepsActive, CapacityActive,
         MakerActive, OtherActive DEF Next
  <1>. QED BY <1>1, <1>2, TypeInvariant, PTL DEF Spec
-----------------------------------------------------------------------------
(***************************************************************************)
(* Waiters                                                                 *)
(***************************************************************************)

\* Which proxies a request holds, by where it is: the proxy in use, and the
\* failed one it releases after the next acquire.
RoleOK ==
  \A r \in Requests :
    /\ pc[r] \in {"use", "round", "roundwait"} => own[r] # None /\ old[r] = None
    /\ pc[r] = "swap" => own[r] # None /\ old[r] # None
    /\ pc[r] \in {"ensure", "prune", "remove", "drop", "retry"} =>
         own[r] = None \/ old[r] = None

\* What a step of another goroutine does to the requests.
RoleFrame ==
  \A r \in Requests : pc'[r] = pc[r] /\ own'[r] = own[r] /\ old'[r] = old[r]

LEMMA FrameKeepsRoles ==
  ASSUME RoleOK, RoleFrame
  PROVE  RoleOK'
  BY DEF RoleOK, RoleFrame

LEMMA RequestRoles ==
  ASSUME TypeInv, RoleOK, NEW r \in Requests, RequestStep(r)
  PROVE  RoleOK'
  <1>0. r \in Threads /\ Requests \subseteq Threads /\ None \notin Ids
    BY DistinctAssumption DEF Threads, Ids
  <1>. USE <1>0 DEF TypeInv, TypeOK, RoleOK, localVars, Goto
  <1>1. CASE Acquire(r)
    <2>1. \A q \in Requests \ {r} : pc'[q] = pc[q] /\ own'[q] = own[q]
      BY <1>1 DEF Acquire
    <2>2. old' = old
      BY <1>1 DEF Acquire
    <2>3. \/ pc'[r] = Got(r) /\ own'[r] \in Ids
          \/ pc'[r] = "seek"
      BY <1>1 DEF Acquire, Usable, pool
    <2>. QED BY <2>1, <2>2, <2>3 DEF Got
  <1>2. CASE Seek(r)
    <2>1. \A q \in Requests \ {r} : pc'[q] = pc[q] /\ own'[q] = own[q]
      BY <1>2 DEF Seek
    <2>2. old' = old
      BY <1>2 DEF Seek
    <2>3. \/ pc'[r] = Got(r) /\ own'[r] \in Ids
          \/ pc'[r] = "wait"
      BY <1>2 DEF Seek, Candidates, pool
    <2>. QED BY <2>1, <2>2, <2>3 DEF Got
  <1>3. CASE Wake(r) BY <1>3 DEF Wake
  <1>4. CASE GiveUp(r) BY <1>4 DEF GiveUp
  <1>5. CASE Release(r) BY <1>5 DEF Release
  <1>6. CASE Swap(r) BY <1>6 DEF Swap
  <1>7. CASE MarkRateLimited(r) BY <1>7 DEF MarkRateLimited
  <1>8. CASE MarkUnhealthy(r) BY <1>8 DEF MarkUnhealthy
  <1>9. CASE ToolRound(r) BY <1>9 DEF ToolRound
  <1>10. CASE Answer(r) BY <1>10 DEF Answer
  <1>11. CASE RoundSeek(r) BY <1>11 DEF RoundSeek
  <1>12. CASE RoundWake(r) BY <1>12 DEF RoundWake
  <1>13. CASE RoundGivesUp(r) BY <1>13 DEF RoundGivesUp
  <1>. QED
    BY <1>1, <1>2, <1>3, <1>4, <1>5, <1>6, <1>7, <1>8, <1>9, <1>10, <1>11,
       <1>12, <1>13
    DEF RequestStep

LEMMA CapacityRoles ==
  ASSUME TypeInv, RoleOK, NEW t \in Threads, CapacityStep(t)
  PROVE  RoleOK'
  <1>. USE DistinctAssumption
       DEF TypeInv, TypeOK, RoleOK, localVars, Goto, After, Threads
  <1>1. CASE Ensure(t)
    BY <1>1 DEF Ensure
  <1>2. CASE Prune(t)
    BY <1>2 DEF Prune
  <1>3. CASE RemoveProxy(t)
    BY <1>3 DEF RemoveProxy
  <1>. QED BY <1>1, <1>2, <1>3 DEF CapacityStep

LEMMA OtherRoles ==
  ASSUME TypeInv,
         \/ \E m \in Makers : MakerStep(m)
         \/ \E c \in Creators : SpawnDone(c)
         \/ \E p \in Proxies : Erase(p)
         \/ LoopStep
         \/ AdminStep
  PROVE  RoleFrame
  <1>. USE DistinctAssumption
       DEF TypeInv, TypeOK, RoleFrame, localVars, Goto, Makers, Threads
  <1>1. ASSUME NEW m \in Makers, MakerStep(m) PROVE RoleFrame
    <2>1. CASE Create(m) BY <2>1 DEF Create
    <2>2. CASE CreateFails(m) BY <2>2 DEF CreateFails
    <2>3. CASE Keep(m) BY <2>3 DEF Keep
    <2>4. CASE Rotate(m) BY <2>4 DEF Rotate
    <2>5. CASE Announce(m) BY <2>5 DEF Announce
    <2>. QED BY <1>1, <2>1, <2>2, <2>3, <2>4, <2>5 DEF MakerStep
  <1>2. ASSUME NEW c \in Creators, SpawnDone(c) PROVE RoleFrame
    BY <1>2 DEF SpawnDone
  <1>3. ASSUME NEW p \in Proxies, Erase(p) PROVE RoleFrame
    BY <1>3 DEF Erase
  <1>4. CASE HealthTick BY <1>4 DEF HealthTick
  <1>5. CASE CheckOne BY <1>5 DEF CheckOne, Probe
  <1>6. CASE Restore BY <1>6 DEF Restore
  <1>7. CASE BanExpires BY <1>7 DEF BanExpires
  <1>8. CASE SetPoolSize BY <1>8 DEF SetPoolSize
  <1>9. CASE ForceRotate BY <1>9 DEF ForceRotate
  <1>10. CASE AddExternalProxy BY <1>10 DEF AddExternalProxy
  <1>11. CASE RefreshPool BY <1>11 DEF RefreshPool
  <1>12. CASE Close BY <1>12 DEF Close
  <1>13. CASE Drifts BY <1>13 DEF Drifts
  <1>. QED
    BY <1>1, <1>2, <1>3, <1>4, <1>5, <1>6, <1>7, <1>8, <1>9, <1>10, <1>11,
       <1>12, <1>13
    DEF LoopStep, AdminStep

\* The proxies a waiter must hear of.
Heard == Candidates \ silent

\* A step after which no waiter can have missed anything.
WakeStep ==
  \/ available'
  \/ SignalPending'
  \/ Candidates' = {}
  \/ /\ Heard' \subseteq Heard
     /\ Blocked' => Blocked
     /\ available => available'
     /\ SignalPending => SignalPending'

LEMMA WakeStepSafe ==
  ASSUME NoLostWakeup, WakeStep
  PROVE  NoLostWakeup'
  BY DEF NoLostWakeup, WakeStep, Heard

LEMMA RequestWake ==
  ASSUME TypeInv, RoleOK, NEW r \in Requests, RequestStep(r)
  PROVE  WakeStep
  <1>0. r \in Threads /\ Requests \subseteq Threads /\ Makers \subseteq Threads
        /\ r \notin Makers
    BY DistinctAssumption DEF Threads, Makers
  <1>. USE <1>0 DEF TypeInv, TypeOK, WakeStep, SignalPending, boxVars, regVars,
               localVars, ghostVars, Goto
  <1>1. CASE Acquire(r)
    <2>1. pc'[r] \in {"use", "swap", "seek"}
      BY <1>1 DEF Acquire, Got
    <2>. QED BY <2>1
  <1>2. CASE Seek(r)
    <2>1. CASE \E p \in Candidates : pc' = [pc EXCEPT ![r] = Got(r)]
      BY <2>1 DEF Got
    <2>2. CASE Candidates = {} /\ UNCHANGED <<state, ip, ipBans>>
      BY <2>2 DEF Candidates, pool, Banned
    <2>. QED BY <1>2, <2>1, <2>2 DEF Seek
  <1>3. CASE Wake(r)
    BY <1>3 DEF Wake
  <1>4. CASE GiveUp(r)
    <2>1. CASE available' BY <2>1
    <2>2. CASE UNCHANGED <<state, available>>
      <3>1. Heard' = Heard
        BY <1>4, <2>2 DEF GiveUp, Heard, Candidates, pool, Banned
      <3>2. pc[r] = "wait" /\ pc'[r] = "idle"
        BY <1>4 DEF GiveUp
      <3>3. \A t \in Threads \ {r} : pc'[t] = pc[t] /\ old'[t] = old[t]
        BY <1>4 DEF GiveUp
      <3>. QED BY <2>2, <3>1, <3>2, <3>3 DEF Blocked
    <2>. QED BY <1>4, <2>1, <2>2 DEF GiveUp, ReleaseProxy
  <1>5. CASE Release(r) BY <1>5 DEF Release, ReleaseProxy
  <1>6. CASE Swap(r) BY <1>6 DEF Swap, ReleaseProxy
  <1>7. CASE MarkRateLimited(r) BY <1>7 DEF MarkRateLimited
  <1>8. CASE MarkUnhealthy(r)
    <2>1. old'[r] # None /\ pc'[r] \in {"ensure", "retry"}
      BY <1>8 DEF MarkUnhealthy, RoleOK
    <2>. QED BY <2>1
  <1>9. CASE ToolRound(r) BY <1>9 DEF ToolRound
  <1>10. CASE Answer(r)
    <2>1. CASE available' BY <2>1
    <2>2. CASE UNCHANGED <<state, available>>
      <3>1. Heard' = Heard
        BY <1>10, <2>2 DEF Answer, Heard, Candidates, pool, Banned
      <3>2. pc[r] = "retry" /\ pc'[r] = "idle" /\ old[r] = None
        BY <1>10 DEF Answer, RoleOK
      <3>3. \A t \in Threads \ {r} : pc'[t] = pc[t] /\ old'[t] = old[t]
        BY <1>10 DEF Answer
      <3>. QED BY <2>2, <3>1, <3>2, <3>3 DEF Blocked
    <2>. QED BY <1>10, <2>1, <2>2 DEF Answer, ReleaseProxy
  <1>11. CASE RoundSeek(r)
    <2>1. CASE pc' = [pc EXCEPT ![r] = "use"]
      BY <2>1
    <2>2. CASE Candidates = {} /\ UNCHANGED <<state, ip, ipBans>>
      BY <2>2 DEF Candidates, pool, Banned
    <2>. QED BY <1>11, <2>1, <2>2 DEF RoundSeek
  <1>12. CASE RoundWake(r)
    BY <1>12 DEF RoundWake
  <1>13. CASE RoundGivesUp(r)
    BY <1>13 DEF RoundGivesUp
  <1>. QED
    BY <1>1, <1>2, <1>3, <1>4, <1>5, <1>6, <1>7, <1>8, <1>9, <1>10, <1>11,
       <1>12, <1>13
    DEF RequestStep

LEMMA CapacityWake ==
  ASSUME TypeInv, NEW t \in Threads, CapacityStep(t)
  PROVE  WakeStep
  <1>. USE DistinctAssumption
       DEF TypeInv, TypeOK, boxVars, regVars, localVars, ghostVars, Goto, After
  <1>1. Heard' \subseteq Heard
    <2>1. CASE Ensure(t) \/ Prune(t)
      BY <2>1 DEF Ensure, Prune, Heard, Candidates, pool, Banned
    <2>2. CASE RemoveProxy(t)
      BY <2>2 DEF RemoveProxy, Heard, Candidates, pool, Banned
    <2>. QED BY <2>1, <2>2 DEF CapacityStep
  <1>2. available' = available /\ old' = old
    BY DEF CapacityStep, Ensure, Prune, RemoveProxy
  <1>3. /\ pc[t] \in {"ensure", "prune", "remove", "drop"}
        /\ pc'[t] \in {"ensure", "prune", "remove", "drop", "retry", "done", "idle"}
        /\ t \in Requests => pc'[t] \notin {"done", "idle"}
        /\ t \in Requests /\ pc[t] # "drop" => pc'[t] # "drop"
    BY DEF CapacityStep, Ensure, Prune, RemoveProxy, Threads
  <1>4. \A u \in Threads \ {t} : pc[u] # "off" => pc'[u] = pc[u]
    BY DEF CapacityStep, Ensure, Prune, RemoveProxy
  <1>5. \A u \in Threads \ {t} : pc'[u] # "create" => pc'[u] = pc[u]
    BY DEF CapacityStep, Ensure, Prune, RemoveProxy
  <1>6. Blocked' => Blocked
    BY <1>3, <1>5 DEF Blocked, Threads
  <1>7. SignalPending => SignalPending'
    BY <1>2, <1>3, <1>4 DEF SignalPending, Threads, Makers
  <1>. QED BY <1>1, <1>2, <1>6, <1>7 DEF WakeStep

\* A step of a goroutine that is no request and signals nothing.
LEMMA StillWake ==
  ASSUME RoleFrame, Heard' \subseteq Heard, available' = available,
         \A m \in Makers : pc[m] = "signal" => pc'[m] = "signal"
  PROVE  WakeStep
  BY DEF RoleFrame, WakeStep, SignalPending, Blocked

LEMMA MakerWake ==
  ASSUME TypeInv, RoleFrame, NEW m \in Makers, MakerStep(m)
  PROVE  WakeStep
  <1>0. m \in Threads /\ Makers \subseteq Threads
    BY DEF Threads, Makers
  <1>. USE <1>0 DEF TypeInv, TypeOK, boxVars, regVars, localVars, ghostVars, Goto
  <1>1. CASE Create(m)
    <2>1. CASE pc'[m] = "signal"
      BY <2>1 DEF WakeStep, SignalPending
    <2>2. CASE pc'[m] # "signal"
      <3>1. PICK p \in Fresh : /\ \E i \in IPs \cup {NoIP} : ip' = [ip EXCEPT ![p] = i]
                              /\ silent' = silent \ {p}
                              /\ state' = state
        BY <1>1, <2>2 DEF Create
      <3>2. state[p] = "out" /\ p \in Ids
        BY DEF Fresh, pool, Ids
      <3>3. ipBans' = ipBans /\ available' = available
        BY <1>1 DEF Create
      <3>4. Heard' \subseteq Heard
        BY <3>1, <3>2, <3>3 DEF Heard, Candidates, pool, Banned
      <3>5. \A n \in Makers : pc[n] = "signal" => pc'[n] = "signal"
        BY <1>1 DEF Create
      <3>. QED BY <3>3, <3>4, <3>5, StillWake
    <2>. QED BY <2>1, <2>2
  <1>2. CASE CreateFails(m)
    <2>1. Heard' \subseteq Heard
      BY <1>2 DEF CreateFails, Heard, Candidates, pool, Banned
    <2>2. \A n \in Makers : pc[n] = "signal" => pc'[n] = "signal"
      BY <1>2 DEF CreateFails
    <2>. QED BY <1>2, <2>1, <2>2, StillWake DEF CreateFails
  <1>3. CASE Keep(m)
    BY <1>3 DEF Keep, WakeStep, SignalPending
  <1>4. CASE Rotate(m)
    <2>1. Heard' \subseteq Heard
      BY <1>4 DEF Rotate, Heard, Candidates, pool, Banned
    <2>2. \A n \in Makers : pc[n] = "signal" => pc'[n] = "signal"
      BY <1>4 DEF Rotate
    <2>. QED BY <1>4, <2>1, <2>2, StillWake DEF Rotate
  <1>5. CASE Announce(m)
    BY <1>5 DEF Announce, WakeStep
  <1>. QED BY <1>1, <1>2, <1>3, <1>4, <1>5 DEF MakerStep

LEMMA LoopWake ==
  ASSUME TypeInv, RoleFrame, LoopStep
  PROVE  WakeStep
  <1>. USE DistinctAssumption
       DEF TypeInv, TypeOK, boxVars, regVars, localVars, ghostVars, Goto
  <1>0. \A m \in Makers : pc[m] = "signal" => pc'[m] = "signal"
    BY DEF LoopStep, HealthTick, Drifts, CheckOne, Probe, Restore, BanExpires,
           Makers, Threads
  <1>1. CASE HealthTick
    <2>1. Heard' \subseteq Heard
      BY <1>1 DEF HealthTick, Heard, Candidates, pool, Banned
    <2>. QED BY <1>0, <1>1, <2>1, StillWake DEF HealthTick
  <1>2. CASE CheckOne
    <2>1. PICK p \in todo[Health], h \in BOOLEAN : Probe(p, h)
      <3>. HIDE DEF TypeInv, TypeOK
      <3>. QED BY <1>2, Zenon DEF CheckOne
    <2>2. p \in Ids /\ Health \in Threads
      BY DEF Threads
    <2>3. CASE p \in pool /\ h /\ state[p] = "unhealthy"
      <3>1. available'
        BY <2>1, <2>3 DEF Probe
      <3>. QED BY <3>1 DEF WakeStep
    <2>4. CASE ~(p \in pool /\ h /\ state[p] = "unhealthy")
      <3>1. available' = available
        BY <2>1, <2>4 DEF Probe
      <3>2. \A q \in Ids \ {p} : state'[q] = state[q]
        BY <2>1, <2>2 DEF Probe
      <3>3. ip' = ip /\ ipBans' = ipBans /\ silent' = silent
        BY <1>2 DEF CheckOne
      <3>4. state'[p] = "idle" => state[p] = "idle"
        BY <2>1, <2>2, <2>4 DEF Probe, pool
      <3>5. Heard' \subseteq Heard
        BY <2>2, <3>2, <3>3, <3>4 DEF Heard, Candidates, pool, Banned
      <3>. QED BY <1>0, <3>1, <3>5, StillWake
    <2>. QED BY <2>3, <2>4
  <1>3. CASE Restore
    <2>1. PICK X \in SUBSET {p \in pool : state[p] = "cooldown"} :
            \/ UNCHANGED <<state, available>>
            \/ /\ state' = [p \in Ids |-> IF p \in X THEN "idle" ELSE state[p]]
               /\ available' = (available \/ \E p \in X : ~Banned(p))
      BY <1>3 DEF Restore
    <2>2. UNCHANGED <<ip, ipBans, silent>>
      BY <1>3 DEF Restore
    <2>3. CASE UNCHANGED <<state, available>>
      <3>1. Heard' \subseteq Heard
        BY <2>2, <2>3 DEF Heard, Candidates, pool, Banned
      <3>. QED BY <1>0, <2>3, <3>1, StillWake
    <2>4. CASE /\ state' = [p \in Ids |-> IF p \in X THEN "idle" ELSE state[p]]
               /\ available' = (available \/ \E p \in X : ~Banned(p))
      <3>1. CASE \E p \in X : ~Banned(p)
        BY <2>4, <3>1 DEF WakeStep
      <3>2. CASE \A p \in X : Banned(p)
        <4>1. available' = available
          BY <2>4, <3>2
        <4>2. Heard' \subseteq Heard
          BY <2>2, <2>4, <3>2 DEF Heard, Candidates, pool, Banned
        <4>. QED BY <1>0, <4>1, <4>2, StillWake
      <3>. QED BY <3>1, <3>2
    <2>. QED BY <2>1, <2>3, <2>4
  <1>4. CASE BanExpires
    <2>1. Heard' \subseteq Heard
      BY <1>4 DEF BanExpires, Heard, Candidates, pool, Banned
    <2>. QED BY <1>0, <1>4, <2>1, StillWake DEF BanExpires
  <1>5. CASE Drifts
    <2>1. PICK p \in todo[Health] :
            /\ \E i \in IPs : ip' = [ip EXCEPT ![p] = i]
            /\ silent' = IF state[p] = "idle" THEN silent \cup {p} ELSE silent
      BY <1>5 DEF Drifts
    <2>2. p \in Ids /\ state' = state /\ ipBans' = ipBans /\ available' = available
      BY <1>5 DEF Drifts, Threads
    <2>3. Heard' \subseteq Heard
      BY <2>1, <2>2 DEF Heard, Candidates, pool, Banned
    <2>. QED BY <1>0, <2>2, <2>3, StillWake
  <1>. QED BY <1>1, <1>2, <1>3, <1>4, <1>5 DEF LoopStep

LEMMA OtherWake ==
  ASSUME TypeInv, RoleFrame,
         \/ \E c \in Creators : SpawnDone(c)
         \/ \E p \in Proxies : Erase(p)
         \/ AdminStep
  PROVE  WakeStep
  <1>. USE DEF TypeInv, TypeOK, boxVars, regVars, localVars, ghostVars, Goto
  <1>1. CASE AddExternalProxy
    <2>1. Admin \in Makers /\ pc'[Admin] = "signal"
      BY <1>1 DEF AddExternalProxy, Makers, Threads
    <2>. QED BY <2>1 DEF WakeStep, SignalPending
  <1>2. CASE ~AddExternalProxy
    <2>1. available' = available
      BY <1>2 DEF SpawnDone, Erase, AdminStep, SetPoolSize, ForceRotate,
                  RefreshPool, Close
    <2>2. \A m \in Makers : pc[m] = "signal" => pc'[m] = "signal"
      BY <1>2 DEF SpawnDone, Erase, AdminStep, SetPoolSize, ForceRotate,
                  RefreshPool, Close, Makers, Threads
    <2>3. Heard' \subseteq Heard
      <3>1. CASE ForceRotate
        BY <3>1 DEF ForceRotate, Heard, Candidates, pool, Banned
      <3>2. CASE ~ForceRotate
        BY <1>2, <3>2 DEF SpawnDone, Erase, AdminStep, SetPoolSize, RefreshPool,
                          Close, Heard, Candidates, pool, Banned
      <3>. QED BY <3>1, <3>2
    <2>. QED BY <2>1, <2>2, <2>3, StillWake
  <1>. QED BY <1>1, <1>2

WakeInv == RoleOK /\ NoLostWakeup

\* The one-slot channel pm.available forgets no waiter of GetProxy, for any
\* number of requests and proxies: every insertion, release, recovery and
\* restoration of an eligible proxy puts a token in, and a request that takes
\* the token puts another one in before it leaves.
THEOREM NoLostWakeupHolds == Spec => []NoLostWakeup
  <1>1. Init => WakeInv
    <2>1. SUFFICES ASSUME Init PROVE WakeInv
      OBVIOUS
    <2>2. \A r \in Requests : pc[r] = "idle"
      BY <2>1, DistinctAssumption DEF Init, Threads
    <2>. QED BY <2>2 DEF WakeInv, RoleOK, NoLostWakeup, Blocked
  <1>2. TypeInv /\ WakeInv /\ [Next]_vars => WakeInv'
    <2>1. SUFFICES ASSUME TypeInv, RoleOK, NoLostWakeup, [Next]_vars
                   PROVE  RoleOK' /\ NoLostWakeup'
      BY DEF WakeInv
    <2>2. CASE UNCHANGED vars
      <3>1. RoleOK'
        BY <2>1, <2>2 DEF vars, RoleOK
      <3>2. NoLostWakeup'
        BY <2>1, <2>2
        DEF vars, NoLostWakeup, Blocked, Candidates, SignalPending, pool, Banned
      <3>. QED BY <3>1, <3>2
    <2>3. CASE \E r \in Requests : RequestStep(r)
      BY <2>1, <2>3, RequestRoles, RequestWake, WakeStepSafe
    <2>4. CASE \E t \in Threads : CapacityStep(t)
      BY <2>1, <2>4, CapacityRoles, CapacityWake, WakeStepSafe
    <2>5. CASE \E m \in Makers : MakerStep(m)
      BY <2>1, <2>5, OtherRoles, FrameKeepsRoles, MakerWake, WakeStepSafe
    <2>6. CASE LoopStep
      BY <2>1, <2>6, OtherRoles, FrameKeepsRoles, LoopWake, WakeStepSafe
    <2>7. CASE \/ \E c \in Creators : SpawnDone(c)
               \/ \E p \in Proxies : Erase(p)
               \/ AdminStep
      BY <2>1, <2>7, OtherRoles, FrameKeepsRoles, OtherWake, WakeStepSafe
    <2>. QED BY <2>1, <2>2, <2>3, <2>4, <2>5, <2>6, <2>7 DEF Next
  <1>3. WakeInv => NoLostWakeup
    BY DEF WakeInv
  <1>. QED BY <1>1, <1>2, <1>3, TypeInvariant, PTL DEF Spec
=============================================================================
